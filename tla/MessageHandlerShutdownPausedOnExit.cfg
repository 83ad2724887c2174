\* The shutdown of an isolate that is paused on exit.
SPECIFICATION MCSpec
CONSTANTS
  Messages = {"e1", "internalKill"}
  Kind <- MCKind
  Prio <- MCPrio
  Cap <- MCCap
  Capabilities = {"c1", "c2"}
  NoMsg = NoMsg
  IsNative = FALSE
  HasStartCallback = FALSE
  CanPause = TRUE
  Waiters = {"event"}
  MaxLivePorts = 1
  MaxDepth = 3
  Scenarios <- AllTogether
  StartStatus = {0}
  NativeMessages = {}
PROPERTIES NoPauseAfterShutdown
CHECK_DEADLOCK FALSE
