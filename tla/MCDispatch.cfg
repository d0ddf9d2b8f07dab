\* Three coroutines and the main program, three connections, two workers.
SPECIFICATION FairSpec
CONSTANTS
    Nil = Nil
    Callers = {c1, c2, c3, main}
    Coroutines = {c1, c2, c3}
    Conns = {k1, k2, k3}
    Workers = 2
    Runtimes <- MCRuntimes
INVARIANTS
    TypeOK
    Exclusive
    FlagHasOneHolder
    NoDanglingTask
    SuccessMeansRan
PROPERTY
    CallReturns
