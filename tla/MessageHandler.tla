--------------------------- MODULE MessageHandler ---------------------------
(***************************************************************************)
(* One MessageHandler of the VM: the two message queues of an isolate or   *)
(* of a native port, the thread-pool task that drains them, and the        *)
(* threads that post to it and close its ports                             *)
(* (runtime/vm/message_handler.cc, message.cc, and the                     *)
(* IsolateMessageHandler of isolate.cc).                                   *)
(*                                                                         *)
(* Every step is one critical section of monitor_, or one stretch of code  *)
(* that runs with monitor_ released: HandleMessages releases it on entry   *)
(* and around every message, TaskCallback around its callbacks.  The       *)
(* handler's own thread is the pair pc, stack: pc is its place in          *)
(* TaskCallback, stack the activations of HandleMessages on it.            *)
(***************************************************************************)
EXTENDS Integers, Sequences, FiniteSets

CONSTANTS
  Messages,      \* the messages that may be posted, each at most once
  Kind,          \* what HandleMessage does for each of them
  Prio,          \* the priority field of kill and ping messages
  Cap,           \* the resume capability of pause and resume messages
  Capabilities,
  NoMsg,         \* no message
  IsNative,      \* a NativeMessageHandler; FALSE: an IsolateMessageHandler
  HasStartCallback,
  CanPause,      \* the debugger may ask for a pause on start or on exit
  Waiters,       \* the kinds of message whose Dart code calls waitForEvent
  MaxLivePorts,  \* bound on the live ports of the isolate
  MaxDepth       \* bound on nested activations of HandleMessages

Kinds == {"event", "service", "pause", "resume", "ping", "kill", "internalKill"}
Prios == {"immediate", "beforeNextEvent", "asEvent"}

ASSUME MessageAssumption ==
  /\ Kind \in [Messages -> Kinds]
  /\ Prio \in [Messages -> Prios]
  /\ Cap \in [Messages -> Capabilities]
  /\ IsNative \in BOOLEAN
  /\ IsNative => \A m \in Messages : Kind[m] = "event"
  /\ NoMsg \notin Messages
  /\ HasStartCallback \in BOOLEAN
  /\ CanPause \in BOOLEAN
  /\ Waiters \subseteq {"event", "service"}
  /\ MaxLivePorts \in Nat \ {0}
  /\ MaxDepth \in Nat \ {0}

(* MessageStatus, ordered as the enum is: max_status is a maximum.         *)
kOK == 0
kError == 1
kShutdown == 2
Status == {kOK, kError, kShutdown}

Worse(s, t) == IF s > t THEN s ELSE t

(* Every other message of queue_ is an isolate library control message,    *)
(* sent to kIllegalPort.                                                   *)
IsEvent(m) == Kind[m] = "event"

VARIABLES
  queue, oob_queue,          \* the two MessageQueues
  paused_for_messages,       \* the thread is in PauseAndHandleAllMessages
  notified,                  \* ... and its Wait has been notified
  paused, caps,              \* paused_ and the isolate's resume_capabilities
  live_ports,
  should_pause_on_start, should_pause_on_exit,
  is_paused_on_start, is_paused_on_exit, remembered,
  task_running, delete_me,
  pool,                      \* pool_ # NULL
  start_callback,            \* start_callback_ # NULL
  tasks,                     \* MessageHandlerTasks queued on the pool
  pc, stack,                 \* the handler's thread
  interrupt,                 \* kMessageInterrupt is set on the mutator thread
  port,                      \* the handler's ports in the PortMap
  posting,                   \* the poster that holds the PortMap's mutex
  deletions,                 \* how often the handler was deleted
  posted, sent, taken,       \* history: messages posted, events in posting
                             \* order, number of events dequeued
  killed                     \* history: status of the last kill handled

queues == <<queue, oob_queue>>
pauseFlags == <<should_pause_on_start, should_pause_on_exit,
                is_paused_on_start, is_paused_on_exit, remembered>>
waitVars == <<paused_for_messages, notified>>
taskVars == <<task_running, delete_me, pool, start_callback, tasks>>
portVars == <<live_ports, port, deletions>>
postVars == <<posting, posted, sent>>
vars == <<queues, waitVars, paused, caps, portVars, pauseFlags, taskVars,
          pc, stack, interrupt, postVars, taken, killed>>

-----------------------------------------------------------------------------
(* Activations of HandleMessages.                                          *)

(* The call sites: four in TaskCallback, then HandleNextMessage,           *)
(* HandleOOBMessages and the two of PauseAndHandleAllMessages.             *)
TaskSites == {"pausedOnStart", "pausedOnExit", "main", "beforeExit"}
NestedSites == {"oob", "waitOob", "waitAll"}
Sites == TaskSites \cup NestedSites \cup {"next"}

(* "enter": before the monitor is taken again at the top of HandleMessages;*)
(* "run": in HandleMessage; "done": HandleMessage returned, the monitor is *)
(* not yet taken again; "wait": in the Wait of PauseAndHandleAllMessages.  *)
Phases == {"enter", "run", "done", "wait"}

Frame == [site : Sites, phase : Phases, msg : Messages \cup {NoMsg},
          oob : BOOLEAN, allow : BOOLEAN, multi : BOOLEAN,
          max : Status, status : Status]

Activation(site, allow, multi) ==
  [site |-> site, phase |-> "enter", msg |-> NoMsg, oob |-> FALSE,
   allow |-> allow, multi |-> multi, max |-> kOK, status |-> kOK]

Top == stack[Len(stack)]
Pop == SubSeq(stack, 1, Len(stack) - 1)
SetTop(f) == stack' = [stack EXCEPT ![Len(stack)] = f]

(* The thread runs HandleMessage for a message of one of these kinds.      *)
Running(kinds) ==
  /\ pc = "handleMessages"
  /\ Top.phase = "run"
  /\ Kind[Top.msg] \in kinds

-----------------------------------------------------------------------------
(* MessageQueue.                                                           *)

(* The number of control messages at the head of a queue.                  *)
Leading(q) == Cardinality({n \in 1..Len(q) : \A i \in 1..n : ~IsEvent(q[i])})

EnqueueAtTail(q, m, before_events) == Append(q, m) \* fault: before_events lost

Enqueue(q, m, before_events) ==
  IF before_events
  THEN LET n == Leading(q)
       IN  Append(SubSeq(q, 1, n), m) \o SubSeq(q, n + 1, Len(q))
  ELSE Append(q, m)

-----------------------------------------------------------------------------
(* Posting.                                                                *)

Waiting == pc = "handleMessages" /\ Top.phase = "wait"

LaunchTaskNotRunning(oob) ==                     \* fault: task_running_ not set
  /\ tasks' = IF pool /\ ~task_running THEN tasks + 1 ELSE tasks
  /\ UNCHANGED task_running
LaunchTaskForOob(oob) ==                         \* fault: normal messages wait
  /\ tasks' = IF pool /\ oob /\ ~task_running THEN tasks + 1 ELSE tasks
  /\ task_running' = (task_running \/ (pool /\ oob))

LaunchTask(oob) ==
  IF pool /\ ~task_running
  THEN task_running' = TRUE /\ tasks' = tasks + 1
  ELSE UNCHANGED <<task_running, tasks>>

NotifyNever == UNCHANGED notified                \* fault: no Notify

NotifyWaiting == notified' = (notified \/ (paused_for_messages /\ Waiting))

(* MessageHandler::PostMessage up to the release of the monitor.           *)
PostMessage(m, oob, before_events) ==
  /\ IF oob
     THEN /\ oob_queue' = Enqueue(oob_queue, m, before_events)
          /\ UNCHANGED queue
     ELSE /\ queue' = Enqueue(queue, m, before_events)
          /\ UNCHANGED oob_queue
  /\ NotifyWaiting
  /\ LaunchTask(oob)

(* Nobody holds the PortMap's mutex.                                       *)
MutexFree == posting = "none"

(* PortMap::PostMessage: it holds the PortMap's mutex until MessageNotify  *)
(* has returned.                                                           *)
Post(m) ==
  /\ port = "open" /\ MutexFree /\ m \notin posted
  /\ PostMessage(m, ~IsEvent(m), FALSE)
  /\ posting' = IF IsEvent(m) THEN "normal" ELSE "oob"
  /\ posted' = posted \cup {m}
  /\ sent' = IF IsEvent(m) THEN Append(sent, m) ELSE sent
  /\ UNCHANGED <<paused_for_messages, paused, caps, portVars, pauseFlags,
                 delete_me, pool, start_callback, pc, stack, interrupt, taken,
                 killed>>

NoInterrupt == FALSE                             \* fault: no interrupt

(* IsolateMessageHandler::MessageNotify schedules kMessageInterrupt.       *)
SchedulesInterrupt == posting = "oob" /\ ~IsNative

MessageNotify ==
  /\ posting # "none"
  /\ posting' = "none"
  /\ interrupt' = (interrupt \/ SchedulesInterrupt)
  /\ UNCHANGED <<queues, waitVars, paused, caps, portVars, pauseFlags, taskVars,
                 pc, stack, posted, sent, taken, killed>>

-----------------------------------------------------------------------------
(* TaskCallback: what the handler's thread does, with the monitor held,    *)
(* from a point of TaskCallback to the next release of the monitor.  The   *)
(* operators assign pc, stack, task_running, pool and remembered.          *)

ShouldPauseOnStart(st) == ~IsNative /\ st # kShutdown /\ should_pause_on_start
ShouldPauseOnExit(st) == ~IsNative /\ st # kShutdown /\ should_pause_on_exit

Call(site, allow, multi) ==
  /\ pc' = "handleMessages"
  /\ stack' = <<Activation(site, allow, multi)>>
  /\ UNCHANGED <<task_running, pool, remembered>>

Release(place) ==
  /\ pc' = place
  /\ stack' = <<>>
  /\ UNCHANGED <<task_running, pool>>

(* The task ends and the handler stays on its pool.                        *)
EndTask ==
  /\ task_running' = FALSE
  /\ pc' = "idle"
  /\ stack' = <<>>
  /\ UNCHANGED <<pool, remembered>>

ExitLeaks ==                                     \* fault: delete_me_ not read
  /\ pool' = FALSE /\ task_running' = FALSE
  /\ pc' = IF IsNative THEN "idle" ELSE "endCallback"
  /\ stack' = <<>>
  /\ UNCHANGED remembered

(* The task ends and takes the handler off its pool.                       *)
Exit ==
  /\ pool' = FALSE
  /\ task_running' = FALSE
  /\ pc' = CASE ~IsNative -> "endCallback"
             [] IsNative /\ delete_me -> "deleteMe"
             [] OTHER -> "idle"
  /\ stack' = <<>>
  /\ UNCHANGED remembered

Finish(st) ==
  \/ /\ st = kOK /\ live_ports > 0
     /\ EndTask
  \/ /\ st # kOK \/ live_ports = 0
     /\ ShouldPauseOnExit(st)
     /\ remembered' = st
     /\ Release("notifyExit")
  \/ /\ st # kOK \/ live_ports = 0
     /\ ~ShouldPauseOnExit(st)
     /\ Exit

Proceed(st) ==
  \/ st = kOK /\ start_callback /\ Release("startCallback")
              /\ UNCHANGED remembered
  \/ st = kOK /\ ~start_callback /\ Call("main", TRUE, TRUE)
  \/ st # kOK /\ Finish(st)

CallNormal(site) == Call(site, TRUE, FALSE)      \* fault: not only OOB messages
CallSkipped(site) == EndTask                     \* fault: no message handled

(* HandleMessages(&ml, false, false).                                      *)
CallOob(site) == Call(site, FALSE, FALSE)

CheckPausedOnExit(st) ==
  \/ is_paused_on_exit /\ CallOob("pausedOnExit")
  \/ ~is_paused_on_exit /\ Proceed(st)

(* The task is taken from the pool and enters TaskCallback.                *)
StartTask ==
  /\ tasks > 0 /\ pc = "idle"
  /\ tasks' = tasks - 1
  /\ \/ /\ ShouldPauseOnStart(kOK) /\ ~is_paused_on_start
        /\ Release("notifyStart")
        /\ UNCHANGED remembered
     \/ /\ ShouldPauseOnStart(kOK) /\ is_paused_on_start
        /\ CallOob("pausedOnStart")
     \/ /\ ~ShouldPauseOnStart(kOK)
        /\ CheckPausedOnExit(kOK)
  /\ UNCHANGED <<queues, waitVars, paused, caps, portVars, delete_me,
                 start_callback, interrupt, postVars, taken, killed,
                 should_pause_on_start, should_pause_on_exit,
                 is_paused_on_start, is_paused_on_exit>>

(* PausedOnStartLocked(true) after NotifyPauseOnStart.                     *)
PausedOnStart ==
  /\ pc = "notifyStart"
  /\ is_paused_on_start' = TRUE
  /\ CallOob("pausedOnStart")
  /\ UNCHANGED <<queues, waitVars, paused, caps, portVars, delete_me, tasks,
                 start_callback, interrupt, postVars, taken, killed,
                 should_pause_on_start, should_pause_on_exit,
                 is_paused_on_exit>>

(* PausedOnExitLocked(true) after NotifyPauseOnExit.                       *)
PausedOnExit ==
  /\ pc = "notifyExit"
  /\ is_paused_on_exit' = TRUE
  /\ CallOob("beforeExit")
  /\ UNCHANGED <<queues, waitVars, paused, caps, portVars, delete_me, tasks,
                 start_callback, interrupt, postVars, taken, killed,
                 should_pause_on_start, should_pause_on_exit,
                 is_paused_on_start>>

(* The start callback returns and the monitor is taken again.  Messages    *)
(* are handled unless it asks for a shutdown.                              *)
StartCallbackReturns(st) ==
  /\ pc = "startCallback"
  /\ start_callback' = FALSE
  /\ \/ st # kShutdown /\ Call("main", st = kOK, TRUE)
     \/ st = kShutdown /\ Finish(st)
  /\ UNCHANGED <<queues, waitVars, paused, caps, portVars, delete_me, tasks,
                 interrupt, postVars, taken, killed, should_pause_on_start,
                 should_pause_on_exit, is_paused_on_start, is_paused_on_exit>>

(* HandleMessages returns st to the call site in TaskCallback.             *)
ReturnToTask(site, st) ==
  /\ UNCHANGED <<waitVars, should_pause_on_start, should_pause_on_exit>>
  /\ \/ /\ site = "pausedOnStart" /\ ShouldPauseOnStart(st)
        /\ EndTask
        /\ UNCHANGED <<is_paused_on_start, is_paused_on_exit>>
     \/ /\ site = "pausedOnStart" /\ ~ShouldPauseOnStart(st)
        /\ is_paused_on_start' = FALSE
        /\ CheckPausedOnExit(st)
        /\ UNCHANGED is_paused_on_exit
     \/ /\ site \in {"pausedOnExit", "beforeExit"} /\ ShouldPauseOnExit(st)
        /\ EndTask
        /\ UNCHANGED <<is_paused_on_start, is_paused_on_exit>>
     \/ /\ site = "pausedOnExit" /\ ~ShouldPauseOnExit(st)
        /\ is_paused_on_exit' = FALSE
        /\ Proceed(remembered)
        /\ UNCHANGED is_paused_on_start
     \/ /\ site = "beforeExit" /\ ~ShouldPauseOnExit(st)
        /\ is_paused_on_exit' = FALSE
        /\ Exit
        /\ UNCHANGED is_paused_on_start
     \/ /\ site = "main"
        /\ Finish(st)
        /\ UNCHANGED <<is_paused_on_start, is_paused_on_exit>>

-----------------------------------------------------------------------------
(* HandleMessages.                                                         *)

(* A nested activation ends with st: an error unwinds the Dart code of the *)
(* message below, whose HandleMessage then returns the same status.        *)
Unwind(st) ==
  LET below == Pop IN
  stack' = IF st = kOK
           THEN below
           ELSE [below EXCEPT ![Len(below)] =
                   [@ EXCEPT !.phase = "done", !.status = st]]

(* The while loop of PauseAndHandleAllMessages, after it handled the       *)
(* out-of-band messages with st.                                           *)
ReturnToWait(st) ==
  \/ /\ st # kOK
     /\ paused_for_messages' = FALSE
     /\ Unwind(st)
     /\ UNCHANGED notified
  \/ /\ st = kOK /\ queue = <<>>
     /\ SetTop([Activation("waitOob", FALSE, FALSE) EXCEPT !.phase = "wait"])
     /\ notified' = FALSE
     /\ UNCHANGED paused_for_messages
  \/ /\ st = kOK /\ queue # <<>>
     /\ paused_for_messages' = FALSE
     /\ SetTop(Activation("waitAll", TRUE, TRUE))
     /\ UNCHANGED notified

(* HandleMessages returns st, the monitor still held.                      *)
Return(site, st) ==
  \/ site \in TaskSites /\ ReturnToTask(site, st)
  \/ /\ site = "waitOob"
     /\ ReturnToWait(st)
     /\ UNCHANGED <<pauseFlags, task_running, pool, pc>>
  \/ /\ site \in {"oob", "waitAll"}
     /\ Unwind(st)
     /\ UNCHANGED <<waitVars, pauseFlags, task_running, pool, pc>>
  \/ /\ site = "next"
     /\ stack' = <<>>
     /\ pc' = IF st = kOK THEN "idle" ELSE "endCallback"
     /\ UNCHANGED <<waitVars, pauseFlags, task_running, pool>>

NormalAllowedAfterError(f) == f.allow /\ paused = 0   \* fault: max_status ignored

(* min_priority is kNormalPriority.                                        *)
NormalAllowed(f) == f.max = kOK /\ f.allow /\ paused = 0

(* DequeueMessage, and the return when there is nothing to dequeue.        *)
Dequeue(f) ==
  \/ /\ oob_queue # <<>>
     /\ SetTop([f EXCEPT !.phase = "run", !.msg = Head(oob_queue), !.oob = TRUE])
     /\ oob_queue' = Tail(oob_queue)
     /\ UNCHANGED <<queue, taken, waitVars, pauseFlags, task_running, pool, pc>>
  \/ /\ oob_queue = <<>> /\ NormalAllowed(f) /\ queue # <<>>
     /\ SetTop([f EXCEPT !.phase = "run", !.msg = Head(queue), !.oob = FALSE])
     /\ queue' = Tail(queue)
     /\ taken' = IF IsEvent(Head(queue)) THEN taken + 1 ELSE taken
     /\ UNCHANGED <<oob_queue, waitVars, pauseFlags, task_running, pool, pc>>
  \/ /\ oob_queue = <<>> /\ (NormalAllowed(f) => queue = <<>>)
     /\ Return(f.site, f.max)
     /\ UNCHANGED <<queues, taken>>

handleUnchanged == <<paused, caps, portVars, delete_me, start_callback, tasks,
                     interrupt, postVars, killed>>

EnterHandleMessages ==
  /\ pc = "handleMessages" /\ Top.phase = "enter"
  /\ Dequeue(Top)
  /\ UNCHANGED handleUnchanged

(* HandleMessage returned; the monitor is taken again and the loop goes on.*)
MessageHandled ==
  /\ pc = "handleMessages" /\ Top.phase = "done"
  /\ LET f == [Top EXCEPT
                 !.max = Worse(Top.max, Top.status),
                 !.allow = Top.allow /\ (Top.oob \/ Top.multi)]
     IN  \/ /\ Top.status = kShutdown
            /\ oob_queue' = <<>>
            /\ Return(f.site, f.max)
            /\ UNCHANGED <<queue, taken>>
         \/ /\ Top.status # kShutdown
            /\ Dequeue(f)
  /\ UNCHANGED handleUnchanged

-----------------------------------------------------------------------------
(* HandleMessage, with the monitor released: IsolateMessageHandler's, and  *)
(* for a native port, whose messages are all events, the native callback.  *)

HandleReturns(st) == SetTop([Top EXCEPT !.phase = "done", !.status = st])

bodyUnchanged == <<portVars, delete_me, pool, start_callback, pc, interrupt,
                   postVars, taken>>

(* Dart code handles an event and returns or throws.                       *)
HandleEvent(st) ==
  /\ Running({"event"})
  /\ st = kOK \/ ~IsNative
  /\ HandleReturns(st)
  /\ UNCHANGED <<queues, waitVars, paused, caps, pauseFlags, task_running,
                 tasks, killed, bodyUnchanged>>

AddCapabilityTwice(c) ==                          \* fault: counted again
  caps' = caps \cup {c} /\ paused' = paused + 1

(* kPauseMsg: AddResumeCapability fails when the capability is known.      *)
AddResumeCapability(c) ==
  /\ caps' = caps \cup {c}
  /\ paused' = IF c \in caps THEN paused ELSE paused + 1

(* kResumeMsg.                                                             *)
RemoveResumeCapability(c) ==
  /\ caps' = caps \ {c}
  /\ paused' = IF c \in caps THEN paused - 1 ELSE paused

HandlePauseResume ==
  /\ Running({"pause", "resume"})
  /\ IF Kind[Top.msg] = "pause"
     THEN AddResumeCapability(Cap[Top.msg])
     ELSE RemoveResumeCapability(Cap[Top.msg])
  /\ HandleReturns(kOK)
  /\ UNCHANGED <<queues, waitVars, pauseFlags, task_running, tasks, killed,
                 bodyUnchanged>>

(* kKillMsg, kInternalKillMsg and kPingMsg act at once when their priority *)
(* is kImmediateAction, which a delayed message has been given ...         *)
Immediate == ~Top.oob \/ Prio[Top.msg] = "immediate"

KillStatus(m) ==
  CASE Kind[m] = "kill" -> kError
    [] Kind[m] = "internalKill" -> kShutdown
    [] OTHER -> kOK

HandleImmediate ==
  /\ Running({"kill", "internalKill", "ping"})
  /\ Immediate
  /\ HandleReturns(KillStatus(Top.msg))
  /\ killed' = Worse(killed, KillStatus(Top.msg))
  /\ UNCHANGED <<queues, waitVars, paused, caps, pauseFlags, task_running,
                 tasks, bodyUnchanged>>

(* ... and are posted again, as normal messages to kIllegalPort, if not.   *)
HandleDelayed ==
  /\ Running({"kill", "internalKill", "ping"})
  /\ ~Immediate
  /\ PostMessage(Top.msg, FALSE, Prio[Top.msg] = "beforeNextEvent")
  /\ HandleReturns(kOK)
  /\ UNCHANGED <<paused_for_messages, paused, caps, pauseFlags, killed,
                 bodyUnchanged>>

(* The service's resume request: Resume in service.cc.                     *)
ServiceResume ==
  \/ /\ is_paused_on_start \/ should_pause_on_start
     /\ should_pause_on_start' = FALSE
     /\ UNCHANGED should_pause_on_exit
  \/ /\ ~is_paused_on_start /\ ~should_pause_on_start /\ is_paused_on_exit
     /\ should_pause_on_exit' = FALSE
     /\ UNCHANGED should_pause_on_start

(* setIsolatePauseMode's shouldPauseOnExit.                                *)
ServiceSetPauseOnExit ==
  /\ CanPause
  /\ \E b \in BOOLEAN : should_pause_on_exit' = b
  /\ UNCHANGED should_pause_on_start

HandleService ==
  /\ Running({"service"})
  /\ \/ ServiceResume
     \/ ServiceSetPauseOnExit
     \/ UNCHANGED <<should_pause_on_start, should_pause_on_exit>>
  /\ HandleReturns(kOK)
  /\ UNCHANGED <<queues, waitVars, paused, caps, is_paused_on_start,
                 is_paused_on_exit, remembered, task_running, tasks, killed,
                 bodyUnchanged>>

(* Dart code reaches a stack check with kMessageInterrupt set:             *)
(* Thread::HandleInterrupts calls HandleOOBMessages.                       *)
HandleInterrupt ==
  /\ Running({"event", "service"}) /\ ~IsNative
  /\ interrupt
  /\ Len(stack) < MaxDepth
  /\ interrupt' = FALSE
  /\ stack' = Append(stack, Activation("oob", FALSE, FALSE))
  /\ UNCHANGED <<queues, waitVars, paused, caps, portVars, pauseFlags, taskVars,
                 pc, postVars, taken, killed>>

(* Dart_WaitForEvent: PauseAndHandleAllMessages up to its Wait, or past    *)
(* the loop when a message is there.                                       *)
WaitForEvent ==
  /\ Running(Waiters) /\ ~IsNative
  /\ task_running
  /\ Len(stack) < MaxDepth - 1
  /\ IF queue = <<>> /\ oob_queue = <<>>
     THEN /\ paused_for_messages' = TRUE
          /\ notified' = FALSE
          /\ stack' = Append(stack, [Activation("waitOob", FALSE, FALSE)
                                       EXCEPT !.phase = "wait"])
     ELSE /\ paused_for_messages' = FALSE
          /\ stack' = Append(stack, Activation("waitAll", TRUE, TRUE))
          /\ UNCHANGED notified
  /\ UNCHANGED <<queues, paused, caps, portVars, pauseFlags, taskVars, pc,
                 interrupt, postVars, taken, killed>>

(* Its Wait returns: timed out or not, and then notified or spuriously.    *)
WakeUp(timedOut) ==
  /\ Waiting
  /\ IF ~timedOut /\ queue = <<>>
     THEN /\ SetTop(Activation("waitOob", FALSE, FALSE))
          /\ UNCHANGED paused_for_messages
     ELSE /\ SetTop(Activation("waitAll", TRUE, TRUE))
          /\ paused_for_messages' = FALSE
  /\ notified' = FALSE
  /\ UNCHANGED <<queues, paused, caps, portVars, pauseFlags, taskVars, pc,
                 interrupt, postVars, taken, killed>>

(* Dart code opens, closes or (de)activates a receive port.                *)
ChangeLivePorts(n) ==
  /\ Running({"event"}) /\ ~IsNative
  /\ n \in {live_ports - 1, live_ports + 1} \cap (0..MaxLivePorts)
  /\ live_ports' = n
  /\ UNCHANGED <<queues, waitVars, paused, caps, port, deletions, pauseFlags,
                 taskVars, pc, stack, interrupt, postVars, taken, killed>>

-----------------------------------------------------------------------------
(* The life of the handler.                                                *)

Init ==
  /\ queue = <<>> /\ oob_queue = <<>>
  /\ paused_for_messages = FALSE /\ notified = FALSE
  /\ paused = 0 /\ caps = {}
  /\ live_ports \in IF IsNative THEN {1} ELSE 0..MaxLivePorts
  /\ should_pause_on_start \in {FALSE, CanPause}
  /\ should_pause_on_exit \in {FALSE, CanPause}
  /\ is_paused_on_start = FALSE /\ is_paused_on_exit = FALSE
  /\ remembered = kOK
  /\ task_running = FALSE /\ delete_me = FALSE /\ pool = FALSE
  /\ start_callback = FALSE
  /\ tasks = 0
  /\ pc = "idle" /\ stack = <<>>
  /\ interrupt = FALSE
  /\ port = "open" /\ posting = "none" /\ deletions = 0
  /\ posted = {} /\ sent = <<>> /\ taken = 0 /\ killed = kOK

(* The embedder gives the handler to a thread pool.                        *)
Run ==
  /\ ~pool /\ pc = "idle" /\ port = "open"
  /\ pool' = TRUE
  /\ start_callback' = HasStartCallback
  /\ task_running' = TRUE
  /\ tasks' = tasks + 1
  /\ UNCHANGED <<queues, waitVars, paused, caps, portVars, pauseFlags,
                 delete_me, pc, stack, interrupt, postVars, taken, killed>>

(* The embedder handles the messages itself: Dart_HandleMessage.           *)
HandleNextMessage ==
  /\ ~IsNative /\ ~pool /\ pc = "idle" /\ port = "open"
  /\ Call("next", TRUE, FALSE)
  /\ UNCHANGED <<queues, waitVars, paused, caps, portVars, delete_me, tasks,
                 start_callback, interrupt, postVars, taken, killed,
                 should_pause_on_start, should_pause_on_exit,
                 is_paused_on_start, is_paused_on_exit>>

(* Dart_CloseNativePort: PortMap::ClosePort holds the PortMap's mutex      *)
(* until the port is gone ...                                              *)
ClosePort ==
  /\ IsNative /\ port = "open" /\ MutexFree
  /\ port' = "removed"
  /\ live_ports' = live_ports - 1
  /\ UNCHANGED <<queues, waitVars, paused, caps, deletions, pauseFlags,
                 taskVars, pc, stack, interrupt, postVars, taken, killed>>

NeverBusy == FALSE                               \* fault: task ignored

(* A task of the handler is queued or running.                             *)
Busy == task_running

(* ... and then asks for the deletion of the handler.                      *)
RequestDeletion ==
  /\ IsNative /\ port = "removed"
  /\ port' = "closed"
  /\ delete_me' = (delete_me \/ Busy)
  /\ deletions' = IF Busy THEN deletions ELSE deletions + 1
  /\ UNCHANGED <<queues, waitVars, paused, caps, live_ports, pauseFlags,
                 task_running, pool, start_callback, tasks, pc, stack,
                 interrupt, postVars, taken, killed>>

(* TaskCallback's "delete this".                                           *)
DeleteMe ==
  /\ pc = "deleteMe"
  /\ deletions' = deletions + 1
  /\ pc' = "idle"
  /\ UNCHANGED <<queues, waitVars, paused, caps, live_ports, port, pauseFlags,
                 taskVars, stack, interrupt, postVars, taken, killed>>

(* The end callback shuts the isolate down: PortMap::ClosePorts ...        *)
ClosePorts ==
  /\ pc = "endCallback" /\ port = "open" /\ MutexFree
  /\ port' = "removed"
  /\ live_ports' = 0
  /\ UNCHANGED <<queues, waitVars, paused, caps, deletions, pauseFlags,
                 taskVars, pc, stack, interrupt, postVars, taken, killed>>

(* ... CloseAllPorts, and the deletion of the handler.                     *)
CloseAllPorts ==
  /\ pc = "endCallback" /\ port = "removed"
  /\ port' = "closed"
  /\ queue' = <<>> /\ oob_queue' = <<>>
  /\ deletions' = deletions + 1
  /\ pc' = "idle"
  /\ UNCHANGED <<waitVars, paused, caps, live_ports, pauseFlags, taskVars,
                 stack, interrupt, postVars, taken, killed>>

HandleMessage ==
  \/ \E st \in {kOK, kError} : HandleEvent(st)
  \/ HandlePauseResume
  \/ HandleImmediate
  \/ HandleDelayed
  \/ HandleService

TaskStep ==
  \/ StartTask
  \/ PausedOnStart
  \/ PausedOnExit
  \/ \E st \in Status : StartCallbackReturns(st)
  \/ EnterHandleMessages
  \/ MessageHandled
  \/ DeleteMe
  \/ ClosePorts
  \/ CloseAllPorts

Next ==
  \/ Run
  \/ HandleNextMessage
  \/ \E m \in Messages : Post(m)
  \/ MessageNotify
  \/ TaskStep
  \/ HandleMessage
  \/ HandleInterrupt
  \/ WaitForEvent
  \/ \E b \in BOOLEAN : WakeUp(b)
  \/ \E n \in 0..MaxLivePorts : ChangeLivePorts(n)
  \/ ClosePort
  \/ RequestDeletion

Spec == Init /\ [][Next]_vars

-----------------------------------------------------------------------------
(* Fairness.  Threads that can run are scheduled, library messages are     *)
(* handled in bounded time, Dart code reaches stack checks, and a notified *)
(* Wait returns; events may run for ever, Waits may never time out, and    *)
(* nobody need post, pause, resume or close anything.                      *)
Fairness ==
  /\ WF_vars(MessageNotify)
  /\ WF_vars(TaskStep)
  /\ WF_vars(HandlePauseResume \/ HandleImmediate \/ HandleDelayed)
  /\ WF_vars(HandleService)
  /\ WF_vars(HandleInterrupt)
  /\ WF_vars(notified /\ WakeUp(FALSE))
  /\ WF_vars(RequestDeletion)

FairSpec == Spec /\ Fairness

(* In addition, the Dart code of an event ends.                            *)
TerminatingSpec ==
  FairSpec /\ WF_vars(\E st \in {kOK, kError} : HandleEvent(st))

-----------------------------------------------------------------------------
(* Properties.                                                             *)

Places == {"idle", "notifyStart", "notifyExit", "startCallback",
           "handleMessages", "endCallback", "deleteMe"}

(* The values of the variables.                                            *)
TypeOK ==
  /\ queue \in Seq(Messages) /\ oob_queue \in Seq(Messages)
  /\ paused_for_messages \in BOOLEAN /\ notified \in BOOLEAN
  /\ paused \in Nat /\ caps \subseteq Capabilities
  /\ live_ports \in 0..MaxLivePorts
  /\ should_pause_on_start \in BOOLEAN /\ should_pause_on_exit \in BOOLEAN
  /\ is_paused_on_start \in BOOLEAN /\ is_paused_on_exit \in BOOLEAN
  /\ remembered \in Status
  /\ task_running \in BOOLEAN /\ delete_me \in BOOLEAN /\ pool \in BOOLEAN
  /\ start_callback \in BOOLEAN
  /\ tasks \in Nat
  /\ pc \in Places /\ stack \in Seq(Frame)
  /\ interrupt \in BOOLEAN
  /\ port \in {"open", "removed", "closed"}
  /\ posting \in {"none", "normal", "oob"}
  /\ deletions \in Nat
  /\ posted \subseteq Messages /\ sent \in Seq(Messages)
  /\ taken \in Nat /\ killed \in Status

(* The thread is in TaskCallback, before it gives up task_running_.        *)
InTask ==
  \/ pc \in {"notifyStart", "notifyExit", "startCallback"}
  \/ pc = "handleMessages" /\ stack[1].site # "next"

(* "No other message handler tasks will be started until this one sets     *)
(* task_running_ to false": task_running_ counts the queued and running    *)
(* tasks of the handler, of which there is never more than one.            *)
OneTask ==
  tasks + (IF InTask THEN 1 ELSE 0) = IF task_running THEN 1 ELSE 0

(* TaskCallback's "we *must* process all pending OOB messages": a handler  *)
(* on a pool that has no task has no out-of-band message either, so no     *)
(* request for shutdown waits for a task that nobody starts.               *)
OobDrained == pool /\ ~task_running => oob_queue = <<>>

(* A handler is deleted at most once, and only when no task, no poster and *)
(* no closer can still reach it.                                           *)
DeletedOnceUnreachable ==
  /\ deletions <= 1
  /\ deletions = 1 => /\ port = "closed" /\ posting = "none"
                      /\ tasks = 0 /\ pc = "idle" /\ ~task_running

(* A handler whose last port is closed is not leaked: it is deleted, or    *)
(* its task runs and will read delete_me_.                                 *)
ClosedIsDeleted ==
  port = "closed" /\ deletions = 0 =>
    delete_me /\ (task_running \/ pc = "deleteMe")

(* Until the isolate shuts down, the events that were posted and not yet   *)
(* handled are in queue_, in posting order: none is lost, handled twice or *)
(* overtaken, whatever control messages are put before them.  A control    *)
(* message posted with kBeforeNextEventAction stands before all of them.   *)
EventOrder ==
  /\ port # "closed" =>
       \E at \in [taken + 1..Len(sent) -> 1..Len(queue)] :
         /\ \A i, j \in taken + 1..Len(sent) : i < j => at[i] < at[j]
         /\ \A i \in taken + 1..Len(sent) : queue[at[i]] = sent[i]
         /\ {at[i] : i \in taken + 1..Len(sent)}
              = {k \in 1..Len(queue) : IsEvent(queue[k])}
  /\ \A i, j \in 1..Len(queue) :
       i < j /\ ~IsEvent(queue[j]) /\ Prio[queue[j]] = "beforeNextEvent"
         => ~IsEvent(queue[i])

(* paused_ counts the outstanding resume capabilities, so a resume always  *)
(* undoes exactly one pause, and decrement_paused's assertion holds.       *)
PauseCount == paused = Cardinality(caps)

(* The Wait of PauseAndHandleAllMessages never sleeps on a message: one    *)
(* that arrives after the queues were found empty has notified it.         *)
NoLostWakeUp ==
  Waiting /\ ~notified => queue = <<>> /\ oob_queue = <<>>

(* No event is handled while the isolate is paused on start, on exit or by *)
(* a pause message, or below an activation that has met an error.          *)
PausedHandlesNoEvents ==
  [][taken' # taken =>
       /\ ~is_paused_on_start /\ ~is_paused_on_exit /\ caps = {}
       /\ \A i \in 1..Len(stack) : stack[i].max = kOK]_vars

(* A kill that has been handled is final: no event is handled after it.    *)
KillIsFinal == [][killed # kOK => taken' = taken]_vars

(* A shutdown is not held up by a pause on exit.                           *)
NoPauseAfterShutdown ==
  [][killed = kShutdown => (is_paused_on_exit' => is_paused_on_exit)]_vars

In(m, q) == \E i \in 1..Len(q) : q[i] = m

(* A kill posted to an isolate on a pool ends it, even if the event that   *)
(* runs never returns.                                                     *)
KillTerminates ==
  \A m \in {m \in Messages : Kind[m] \in {"kill", "internalKill"}
                              /\ Prio[m] = "immediate"} :
    (In(m, oob_queue) /\ pool) ~> deletions = 1

(* An event is handled, unless the isolate pauses or exits.                *)
EventsHandled ==
  \A m \in {m \in Messages : IsEvent(m)} :
    (In(m, queue) /\ pool) ~>
      (~In(m, queue) \/ paused > 0 \/ is_paused_on_start \/ is_paused_on_exit)

=============================================================================
