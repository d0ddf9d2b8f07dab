\* Two coroutines and the code outside them share one PDO object.
SPECIFICATION FairSpec
CONSTANTS
    Nil = Nil
    Callers = {c1, c2, main}
    Coroutines = {c1, c2}
    Spellings = 1
    Workers = 2
INVARIANTS
    TypeOK
    ReleasedOnce
    NoUseAfterRelease
    ResultsWritten
PROPERTIES
    TransactionsKept
    ConstructorReturns
