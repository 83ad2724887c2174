\* Control messages to an isolate, without debugger pauses; and a native port.
SPECIFICATION MCFairSpec
CONSTANTS
  Messages = {"e1", "e2", "e3", "p1", "p3", "r1", "pingBefore", "ping", "kill", "internalKill"}
  Kind <- MCKind
  Prio <- MCPrio
  Cap <- MCCap
  Capabilities = {"c1", "c2"}
  NoMsg = NoMsg
  IsNative = FALSE
  HasStartCallback = TRUE
  CanPause = FALSE
  Waiters = {"event"}
  MaxLivePorts = 1
  MaxDepth = 3
  Scenarios <- ControlAndKill
  StartStatus = {0, 1, 2}
  NativeMessages = {"e1", "e2", "e3"}
INVARIANTS EventOrder PauseCount DeletedOnceUnreachable ClosedIsDeleted
PROPERTIES KillIsFinal KillTerminates
CHECK_DEADLOCK FALSE
