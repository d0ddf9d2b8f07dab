\* Lists of up to two elements, columns of two rows.
SPECIFICATION Spec
CONSTANTS
    Scalars = {v, Empty}
    Empty = Empty
    Nil = Nil
    Types <- MCTypes
    Depth <- MCDepth
    MaxDepth = 2
    MaxLength = 2
    Rows = 2
    MapKey <- KeyText
INVARIANT
    RowConverted
