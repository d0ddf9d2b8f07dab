\* A coroutine and the main program on one connection.
SPECIFICATION Spec
CONSTANTS
    Nil = Nil
    Callers = {c1, main}
    Coroutines = {c1}
    Conns = {k1}
    Workers = 1
    Runtimes <- MCRuntimes
INVARIANT
    CallsSerialized
