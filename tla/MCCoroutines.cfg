\* Two coroutines that hand two statements to each other between calls.
SPECIFICATION CSpec
CONSTANTS
    Nil = Nil
    Coroutines = {c1, c2}
    Stmts = {s1, s2}
    Overlap = FALSE
    Workers = 2
    Results = {r1, r2}
    Chunks = {k1, k2}
    Contents <- MCContents
    ClosesFirst = {TRUE}
SYMMETRY Symmetry
INVARIANTS
    CTypeOK
    NoLeftoverBindings
    OneOwner
    CoherentBetweenCalls
    DoneUnlessRefused
PROPERTY
    RowsUnlessRefused
