\* An isolate that may be paused by the debugger.
SPECIFICATION MCTerminatingSpec
CONSTANTS
  Messages = {"e1", "e2", "kill", "s1", "p1"}
  Kind <- MCKind
  Prio <- MCPrio
  Cap <- MCCap
  Capabilities = {"c1", "c2"}
  NoMsg = NoMsg
  IsNative = FALSE
  HasStartCallback = TRUE
  CanPause = TRUE
  Waiters = {"event"}
  MaxLivePorts = 1
  MaxDepth = 3
  Scenarios <- PausesAndKill
  StartStatus = {0}
  NativeMessages = {}
INVARIANTS OneTask OobDrained NoLostWakeUp
PROPERTIES PausedHandlesNoEvents EventsHandled
CHECK_DEADLOCK FALSE
