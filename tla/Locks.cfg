\* Three threads with a Thread object and one without, which nest; six isolates
\* and room for three.
SPECIFICATION MCSpec
CONSTANTS
    Thread = {t1, t2, t3, t4}
    Attached = {t1, t2, t3}
    NoThread = NoThread
    MaxDepth = 2
    Mutator = {m1, m2, m3, m4, m5, m6}
    max_active_mutators_ = 3
INVARIANTS StateIsExact NoLostWakeup StoppedThreadsStay NoForgottenSlot
PROPERTIES OperationEnds
