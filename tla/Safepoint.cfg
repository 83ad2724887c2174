\* At most four operations, and two of one thread inside each other.
SPECIFICATION MCSpec
CONSTANTS
  t1 = t1  t2 = t2  t3 = t3  h1 = h1
  Thread <- Mutators
  Helper <- Helpers
  NoThread = NoThread
  MaxNest = 2
  MaxOps = 4
INVARIANTS StoppedDuringOperation NotParkedIsExact
PROPERTIES ThreadsContinue
