\* Three timers that fire once, or one that may be periodic and one that fires
\* once, with durations of 0 and 1 milliseconds; 2 is for a periodic timer alone.
SPECIFICATION MCSpec
CONSTANTS
    Timer = {1, 2, 3}
    Delay = {0, 1, 2}
    Repeat = {FALSE, TRUE}
    Throws = TRUE
    MaxTime = 4
    MaxTick = 2
INVARIANTS ActiveAreScheduled FiresInOrder IdleIsSafe HeapIsExact QueueIsExact
PROPERTIES CalledOnTime QueueOrderKept TimersEnd
CHECK_DEADLOCK FALSE
