\* Two parameters, one column, one variable; a scalar, an array and one that
\* JSON cannot encode.
SPECIFICATION Spec
CONSTANTS
    NumParams = 2
    NumColumns = 1
    Vars = {x}
    Scalars = {v1}
    Arrays = {a1}
    Unencodable = {bad}
    Unknown = Unknown
    Nil = Nil
INVARIANTS
    TypeOK
    UsesWhatWasAsked
