\* A parameter and a bound column of the same number.
SPECIFICATION Spec
CONSTANTS
    NumParams = 1
    NumColumns = 1
    Vars = {x}
    Scalars = {v1, v2}
    Arrays = {}
    Unencodable = {}
    Unknown = Unknown
    Nil = Nil
INVARIANT
    NoStaleBindings
