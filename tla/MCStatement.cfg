\* Two statements on one connection, every PDO core.
SPECIFICATION FairSpec
CONSTANTS
    Nil = Nil
    Stmts = {s1, s2}
    Results = {r1, r2}
    Chunks = {c1, c2}
    Contents <- MCContents
    ClosesFirst = {FALSE, TRUE}
INVARIANTS
    TypeOK
    Ownership
    Coherence
    StreamReachable
    ColumnsFreed
PROPERTIES
    RowsInOrder
    FetchAllEnds
