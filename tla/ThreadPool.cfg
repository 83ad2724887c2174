\* Four workers and three tasks.
SPECIFICATION MCSpec
CONSTANTS
    Worker = {w1, w2, w3, w4}
    Task = {t1, t2, t3}
    MaxPoolSize = 1
    HasIdleHook = TRUE
INVARIANTS NoTaskStranded ShutdownSafe
PROPERTIES TaskTaken ShutdownReturns TasksInOrder
