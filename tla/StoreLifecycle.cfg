CONSTANTS
    Executors = {e1, e2, e3}
    Definers = {d1, d2}
SPECIFICATION Spec
INVARIANT ExecutorsBeforeDatabase
PROPERTIES
    ServerComesUp
    StopReturns
CHECK_DEADLOCK FALSE
