\* Words of four bits, doubles that are exact up to 4.
SPECIFICATION Spec
CONSTANTS
    Half = 8
    Exact = 4
INVARIANTS
    TypeOK
    NumbersKept
    DecimalsRound
