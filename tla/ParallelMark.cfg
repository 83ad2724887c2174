\* The main thread and two helpers of a DEBUG build, with blocks of one pointer.
SPECIFICATION MCSpec
CONSTANTS
  m0 = m0 h1 = h1 h2 = h2 a = a b = b c = c k = k v = v p = p q = q i = i
  Main = m0
  Helper <- TwoHelpers
  Object <- ObjectsMC
  WeakProperty <- WeakMC
  Instructions <- InstructionsMC
  Pointers <- PointersMC
  Key <- KeyMC
  RootSlice <- SliceMC
  LeftWork <- NoneLeft
  LeftDeferred <- NoneLeft
  LeftWeak <- NoneLeft
  BlockSize = 1
  Debug = TRUE
INVARIANTS RoundsLineUp StopMeansNoWork MarkingIsFinal
PROPERTY MarkingEnds
CHECK_DEADLOCK FALSE
