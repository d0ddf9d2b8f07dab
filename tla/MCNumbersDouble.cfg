\* Words of four bits: the decimal of magnitude 16.
SPECIFICATION Spec
CONSTANTS
    Half = 8
    Exact = 4
INVARIANT
    DoublesInRange
