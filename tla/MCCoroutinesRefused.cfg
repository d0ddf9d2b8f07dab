\* The pool refuses a fetch.
SPECIFICATION CSpec
CONSTANTS
    Nil = Nil
    Coroutines = {c1, c2}
    Stmts = {s1, s2}
    Overlap = FALSE
    Workers = 2
    Results = {r1, r2}
    Chunks = {k1, k2}
    Contents <- MCContents
    ClosesFirst = {TRUE}
SYMMETRY Symmetry
INVARIANT
    DoneMeansAllFetched
