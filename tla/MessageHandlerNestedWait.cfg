\* A service request that waits inside an event that waits.
SPECIFICATION MCSpec
CONSTANTS
  Messages = {"e1", "e2", "s1"}
  Kind <- MCKind
  Prio <- MCPrio
  Cap <- MCCap
  Capabilities = {"c1", "c2"}
  NoMsg = NoMsg
  IsNative = FALSE
  HasStartCallback = FALSE
  CanPause = FALSE
  Waiters = {"event", "service"}
  MaxLivePorts = 1
  MaxDepth = 4
  Scenarios <- AllTogether
  StartStatus = {0}
  NativeMessages = {}
INVARIANTS NoLostWakeUp
CHECK_DEADLOCK FALSE
