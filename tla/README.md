# The concurrent core of the Dart VM in TLA+

This directory specifies the parts of the Dart SDK whose correctness depends on
the order in which threads, messages and callbacks meet: how an isolate gets its
messages and is paused, killed and deleted; the thread pool it runs on; how all
threads of an isolate group are stopped for a garbage collection, and how several
threads then mark the heap; the locks and limits on which threads wait for each
other; the tables of ports; and timers, between the isolate and the event handler
thread. The specifications are checked on small instances with TLC, and the safety
of the message handler, of safepoints, of the readers-writer lock and of the
mutator limit is proved for all instances with TLAPS.

## 1. The system and its parts

The SDK consists of the virtual machine (`src/runtime/vm`), its embedder
(`src/runtime/bin`), the libraries (`src/sdk/lib`), and the tools written in
Dart (`src/pkg`: front end, analyzer, web compilers, service clients).
`PROJECT.json` lists all of them with the reason where a part is not modelled.
In short:

| Part | Source | State here |
|---|---|---|
| message handler, queues, native ports | `message_handler.*`, `message.*`, `native_message_handler.*` | modelled, but for `AcquiredQueues` and payloads |
| control messages of `dart:isolate` | `isolate.cc` `HandleLibMessage` | pause, resume, ping, kill |
| mutator interrupts | `thread.cc` `HandleInterrupts` | message interrupt |
| embedder loop | `dart_api_impl.cc` | `Dart_HandleMessage`, `Dart_WaitForEvent`, running on a pool |
| service requests that resume or set the pause mode | `service.cc` | the two flags they change |
| thread pool, with the idle hook of mutator pools | `thread_pool.*`, `isolate.cc` `OnEnterIdleLocked` | modelled |
| safepoints, scheduling of threads | `heap/safepoint.*`, `thread.h`, `isolate.cc` `ScheduleThreadLocked` | modelled |
| parallel marking, thread barrier, marking stack | `heap/marker.cc`, `thread_barrier.h`, `heap/pointer_block.*` | modelled; concurrent marking by what it leaves |
| `SafepointRwLock` | `lockers.*` | modelled |
| limit on active mutators of a group | `isolate.cc` `IncreaseMutatorCount` | modelled |
| port map, port set | `port.*`, `port_set.h` | modelled |
| timers of an isolate | `timer_impl.dart` | modelled, heap included |
| event handler of `dart:io` | `eventhandler_linux.cc`, `eventhandler.h`, `priority_queue.h` | what timers use of it, and its queue of timeouts |
| isolate lifecycle, idle time, VM cleanup, rest of the heap, background compiler, profiler, `dart:async` | | not modelled (section 6) |
| compilers, kernel, snapshots, core libraries, tools, operating system layer | | not modelled: sequential, or pure I/O |

How the modelled parts meet: a thread that posts a message looks the handler up
in the port map and, still holding the map's mutex, enters
`MessageHandler::PostMessage`. That puts the message in one of two queues under
`monitor_`, wakes a waiting thread, and starts a task on the thread pool unless
one is running. The task, `TaskCallback`, drains the queues by
`HandleMessages`, which releases the monitor around each message. Dart code that
runs for a message may be interrupted at a stack check to handle out-of-band
messages (`HandleOOBMessages`), or may itself wait for messages
(`PauseAndHandleAllMessages`), so activations of `HandleMessages` nest. When an
isolate has no live ports or has met an error, the task takes the handler off
its pool and the end callback shuts the isolate down. A native port is closed
by any thread; that thread or the task then deletes the handler.

The pool keeps a queue of tasks and lists of running, idle and dead workers under
`pool_monitor_`. A task given to it wakes an idle worker or starts a new one, up to a
limit that blocked workers raise. A worker that idles too long dies; the next one to
die joins it. `Shutdown` wakes all, waits on `exit_monitor_` for the last worker's death,
and joins that one.

A worker that is about to run an isolate first takes one of the group's mutator slots
(`IncreaseMutatorCount`) and is then scheduled into the group, which makes its thread
one that safepoint operations stop. Threads that wait for a `SafepointRwLock` do so at a
safepoint. Marking runs inside an operation, with helper tasks of the VM's own pool. A
timer is a message that the isolate sends itself, or one that the event handler thread
posts when the timeout it was asked for expires. The modules keep these parts apart:
each takes what it uses of the others by its contract.

## 2. Modules

| Module | Content |
|---|---|
| `MessageHandler` | the message handler: state, actions, fairness, properties |
| `MessageHandlerProofs` | its inductive invariant, what a stretch of code between two releases of the monitor does to the thread, the steps of that thread and of the others, and the theorems |
| `ThreadPool` | the pool: state, actions, fairness, properties |
| `TaskQueue` | what the pool promises its clients: accepted tasks start once and in order |
| `ThreadPoolProofs` | the inductive invariant of the pool, its theorems, and that it implements `TaskQueue` |
| `Safepoint` | safepoint operations of two levels, and the scheduling of threads |
| `SafepointProofs` | its inductive invariant; the steps of a single thread; scopes, nested operations and requests; waiting, resuming and the theorems |
| `ParallelMark` | the markers of one garbage collection, their barrier and their marking stack |
| `ParallelMarkRounds` | the first layer of its inductive invariant: the barrier and the count of busy markers; that the rounds line up |
| `ParallelMarkWork` | the second: who holds work, and who will look for it; that markers stop only without work |
| `ParallelMarkAlive`, `ParallelMarkProofs` | the third: the marks. What each step does to them; when they are final |
| `RwLock` | `SafepointRwLock` |
| `MutatorLimit` | the limit on active mutators |
| `LockProofs` | the theorems about both |
| `PortTable` | the hash table of `PortSet`, as operators |
| `PortSet`, `SetOfPorts` | a table under the calls `PortMap` makes, and the set it implements |
| `PortMap` | all ports, the ports of each handler, and the live ports |
| `Timers` | `_Timer` and the event handler's side of it |
| `TimerHeap` | the heap of `timer_impl.dart` in its array |
| `PriorityQueue` | the event handler's heap of timeouts |
| `MCMessageHandler`, `MCThreadPool`, `MCSafepoint`, `MCParallelMark`, `MCLocks`, `MCPorts`, `MCTimers` | instances for TLC |

Several of the MC modules have one more variable that is chosen in the initial state
and never changes. It selects a configuration (an isolate or a native port, a size of
the pool, whether concurrent marking left work) or one of several independent
specifications, so that one run answers one question on all of them.

Operators commented "fault" are wrong versions of the operator defined after
them, each the mistake a programmer might make there. Putting one in the place
of the right one violates the property that `PROJECT.json` names with it, which
shows that the property depends on that code.

### State of the message handler

| Variable | Code |
|---|---|
| `queue`, `oob_queue` | `queue_`, `oob_queue_`, as sequences of messages |
| `paused_for_messages`, `notified` | `paused_for_messages_`; whether the `Wait` of `PauseAndHandleAllMessages` has been notified |
| `paused`, `caps` | `paused_`; the isolate's `resume_capabilities` |
| `live_ports`, `task_running`, `delete_me`, `pool`, `start_callback` | the fields of these names; `pool` and `start_callback` say that the pointer is not null |
| `should_pause_on_*`, `is_paused_on_*`, `remembered` | the fields of these names; `remembered_paused_on_exit_status_` |
| `tasks` | `MessageHandlerTask`s of this handler that the pool has queued |
| `pc`, `stack` | the handler's thread: its place in `TaskCallback`, and the activations of `HandleMessages` on it with their local variables |
| `interrupt` | `kMessageInterrupt` is set on the mutator thread |
| `port`, `posting`, `deletions` | the handler's entry in the port map, the poster that holds the map's mutex, and how often the handler has been deleted |
| `posted`, `sent`, `taken`, `killed` | history, read by properties only (`posted` also keeps each message from being posted twice) |

A message is a model value with a kind (`Kind`), the priority it asks for
(`Prio`) and, for pause and resume, a capability (`Cap`). A control message that
is not immediate is posted again as a normal message to `kIllegalPort`; the model
keeps its identity.

### Steps of the message handler

A step is a stretch of code that runs with `monitor_` held, or one that runs with
it released and touches nothing the monitor protects. This is the granularity at
which threads can interleave. `HandleMessages` releases the monitor on entry
(`StartIsolateScope`) and around every message; `TaskCallback` releases it around
the pause notifications and the start callback. A step of `TaskCallback` therefore
runs from the return of one call to the next release, which is what `StartTask`,
`ReturnToTask`, `CheckPausedOnExit`, `Proceed`, `Finish` and `Exit` describe.

| Action | Code |
|---|---|
| `Post`, `MessageNotify` | `PortMap::PostMessage`: the critical section of `PostMessage`, then the notification, the map's mutex held throughout |
| `StartTask`, `PausedOnStart`, `PausedOnExit`, `StartCallbackReturns` | `TaskCallback` |
| `EnterHandleMessages`, `MessageHandled` | the two places where `HandleMessages` takes the monitor again; each dequeues the next message or returns to the caller |
| `HandleEvent`, `HandlePauseResume`, `HandleImmediate`, `HandleDelayed`, `HandleService` | `HandleMessage` for the kinds of message |
| `HandleInterrupt` | a stack check with the interrupt set: `Thread::HandleInterrupts` |
| `WaitForEvent`, `WakeUp` | `PauseAndHandleAllMessages`: up to its `Wait`; from the `Wait`, which may return spuriously or time out |
| `ChangeLivePorts` | Dart code opens or closes a receive port |
| `Run`, `HandleNextMessage` | the embedder gives the handler to a pool, or handles a message itself |
| `ClosePort`, `RequestDeletion`, `DeleteMe` | closing a native port, and the two places that may delete the handler |
| `ClosePorts`, `CloseAllPorts` | the end callback's shutdown of an isolate |

Abstractions: an event either returns or throws an error that is fatal to the
isolate (an error that is not fatal is handled like a return). Between posting and
handling, Dart code may do nothing to the handler but change its live ports, wait,
and be interrupted. A service request may change the two flags and otherwise
returns normally. A kill whose capability does not match changes nothing here and
is a ping. `WaitForEvent` requires `task_running`, which the code asserts.
`is_runnable()` is true once an isolate has a task. `AcquiredQueues`, which holds
off out-of-band handling while the service prints the queues, is left out.

### The thread pool

`pool` holds the three lists and their counters; `shutting_down`, `tasks`, `pending_tasks`,
`all_workers_dead`, `max_pool_size` and `is_blocked` are the fields of these names. `place`
says where each worker's thread is in `WorkerLoop`, `notified` whether its wait on
`pool_monitor_` was notified, `job` what it runs, `to_join` the local `dead_workers_to_join`
of each worker and of `Shutdown`; `shutdown` and `exit_notified` are the thread that calls
`Shutdown`, and `accepted` is history.

A step is a critical section of `pool_monitor_`, from a lock, a return from a wait or from
a task to the next release. One place needs more care: the last worker to die sets
`all_workers_dead_` and then locks `exit_monitor_` with `pool_monitor_` still held, while
`Shutdown` tests the flag under `exit_monitor_` alone. The place `notifyExit` is the gap
between the two, during which nobody can take `pool_monitor_`.

| Action | Code |
|---|---|
| `RunImpl` | `RunImpl` with `ScheduleTaskLocked`; refused tasks change nothing |
| `MarkCurrentWorkerAsBlocked`, `MarkCurrentWorkerAsUnBlocked` | the methods, called from a task that leaves its isolate with frames on the stack and enters it again |
| `EnterLoop`, `FinishTask` | `WorkerLoop` from the top of the loop, and from the return of `task->Run()`, to the next task or wait |
| `WakeUp` | the wait of `WorkerLoop` returns: notified, timed out, or spuriously |
| `IdleWakeUp`, `IdleNotified` | the wait of `OnEnterIdleLocked`, and `NotifyIdle`, return |
| `NotifyExit`, `JoinWorker`, `ExitThread` | the end of `IdleToDeadLocked`, `JoinDeadWorkersLocked`, the end of `Worker::Main` |
| `ShutdownBegin`, `ShutdownCheck`, `ShutdownObtain`, `ShutdownReturn` | `Shutdown`, which `~ThreadPool` calls again |

Abstractions: lists of workers are sets, as their order is never read. Whether
`ShouldNotifyIdle` holds, whether idle notification is enabled and when a wait times out is
left open. A new worker is at the top of its loop at once: it holds nothing and nobody
waits for its thread until it is dead. A deleted worker's name is used again. A task is
submitted at most once and is unblocked before it returns, which
`IsolateGroup::IncreaseMutatorCount` ensures.

### Safepoints

`at` and `req` are the bits of `safepoint_state_` that say which levels a thread is at and
which were requested of it; `level` is `current_safepoint_level`, lower inside a runtime call
that cannot be deoptimized lazily; `owner`, `count` and `notParked` are the three fields of
each `LevelHandler`; `active` is the registry's list; `scopes` the stack of
`SafepointOperationScope`s of a thread. `threads_lock` is held across the loops that request
a safepoint of, and later release, each active thread: each iteration is a step, since the
fast paths and `thread_lock` of the other threads interleave with it.

| Action | Code |
|---|---|
| `TryEnterSafepoint`, `TryExitSafepoint` (and `...Fails`), `EnterSafepointUsingLock`, `ExitSafepointUsingLock` | the two paths into and out of a safepoint: one compare-and-swap, or the handler under `thread_lock` |
| `CheckForSafepoint`, `BlockForSafepoint` | the poll, which reads the bits without the lock, and what follows it |
| `EnterRuntimeCall`, `LeaveRuntimeCall` | `RuntimeCallDeoptScope` |
| `ScheduleThreadLocked`, `UnscheduleThreadLocked` | a thread joins and leaves the group; helpers of the collector bypass safepoints |
| `NewOperationScope`, `SafepointThreads`, `SafepointThreadsWoken`, `RequestSafepoint`, `AllRequested`, `WaitUntilThreadsReachedSafepointLevel`, `AcquireLowerLevelSafepoints` | an operation from its scope to its start |
| `ResumeThreads`, `ContinueThread`, `AllContinue` | its end |

The bit `UnwindErrorInProgress` is left out: it makes a compare-and-swap fail, which the model
allows at any time.

### Parallel marking

A marker is the main thread in `MarkObjects` or a helper task; `pc` is its place in
`RunEnteredIsolateGroup`. `marked` are the mark bits; `input`, `output` and `stack` the blocks
of the visitors and of the shared `MarkingStack`; `slots` the pointers a marker has yet to
visit; `deferred` and `delayed` its Instructions and its weak properties with a white key.
`num_busy`, `participating`, `remaining`, `generation` and `ref_count` are the counters of the
code. A step marks through one pointer, pops one object, or holds a monitor or changes an
atomic once. The heap is a graph given by `Pointers` and `Key`; what concurrent marking has
done before is in the constants `LeftWork`, `LeftDeferred` and `LeftWeak`. Sizes, new space,
weak tables and finalizers are left out: they change no mark bit.

| Action | Code |
|---|---|
| `StartTask`, `StartMain`, `TryEnter`, `Count` | the hand-over of what the visitors hold, and the entry of a task, which may come too late |
| `IterateRoots`, `MarkObject`, `Drain`, `DrainNull`, `PopDeferred`, `MarkDeferred`, `DeferredDone` | roots, the marking stack, deferred objects |
| `ProcessPending`, `PendingDone`, `Vote`, `Decide`, `Mourn` | weak properties during a round, the votes for another one, and the end |
| `WaitForWork`, `WakeUp` | `BlockStack::WaitForWork` and its wait, which may return spuriously |
| `Sync`, `SyncReturns`, `Release`, `Finalize` | the barrier, and the end of `MarkObjects` |

### Locks and limits

`RwLock` has the fields `state_` and `writer_id_`; a locker is the pair of its thread and its
depth on the stack, and `kind` says what it holds. The safepoint protocol appears by the
contract that `Safepoint` checks: a running thread stops for an operation of another one
(`Park`), a thread at a safepoint stays there until the operation ends. A thread without a
`Thread` object (not in `Attached`) takes no part in it. The preconditions on callers are the
assertions of the code, and that nobody starts a write section while it reads or while it owns
an operation, which would wait for itself.

`MutatorLimit` has the two counters and where each isolate is. Every step is one critical
section of `active_mutators_monitor_`. A notification reaches one thread that sleeps, which has
to take the monitor again; anybody may come before it.

### Ports

A table is a record of `map_`, `used_` and `deleted_`. `Probe` is the linear search,
`Rehash` and `MaintainInvariants` are the growth of the table and the removal of deleted slots.
`PortMap` has the table of all ports, the sets of the handlers, the state of each port and
`live_ports_`; each operation is one critical section of `PortMap::mutex_`, but for the loop of
`Cleanup` that deletes the native handlers (`port.cc:325`): it does not take the mutex, and runs
after `Dart::Cleanup` has ended all isolates and the thread pool. `Random` stands for what
`AllocatePort` draws. What closing does to queues and to the handler is in `MessageHandler`.

### Timers

The isolate's code is sequential, so that the methods of `_Timer` are operators on one record
`s`: the timers, the heap as a set ordered by `_compareTo`, the list of zero timers, the timer
port, `_scheduledWakeupTime`, the messages to the port (`inbox`) and the requests in the pipe to
the event handler. `timeout` is what the event handler waits for and `now` the clock. `Make` and
`CallCancel` are user code, which also runs inside callbacks and microtasks; `HandleMessage`,
`Call`, `Return`, `MicrotasksDone`, `Throw` and `Finish` are `_handleMessage` with `_runTimers`;
`HandleInterruptFd` and `TimerFd` the event handler; `Clock` lets time pass, which it may do at
any point. `made`, `failed` and `lost` are history. Messages that are handled inside a callback by
`waitFor` are left out.

`TimerHeap` and `PriorityQueue` are the two arrays under it. In `TimerHeap` a timer is its rank
in the order of `_compareTo`.

## 3. Properties and runs

Of the message handler:

- `OneTask`: a handler never has two tasks, and `task_running_` tells whether it
  has one;
- `OobDrained`: no out-of-band message waits at a handler that has no task, the
  assertion at the four ends of `TaskCallback`;
- `DeletedOnceUnreachable`, `ClosedIsDeleted`: a handler is deleted at most once and
  only when no task, poster or closer can reach it; closed, it is deleted or its
  task will do it;
- `EventOrder`: events are handled in posting order, none lost or repeated, and a
  control message for "before the next event" stands before every event;
- `PauseCount`: `paused_` is the number of outstanding resume capabilities;
- `NoLostWakeUp`: a thread that waits for messages and has not been notified has none;
- `PausedHandlesNoEvents`: no event is handled while the isolate is paused in any way, or
  above an activation that has met an error; `KillIsFinal`: none after a kill;
  `NoPauseAfterShutdown`: no pause after a shutdown;
- `KillTerminates`: a kill ends the isolate, whatever Dart code runs; `EventsHandled`: an
  isolate that stays alive and is not paused handles its events.

Of the thread pool:

- `NoTaskStranded`: while an idle worker sleeps there is, for every pending task, an idle
  worker awake that will look at the queue, and with tasks pending there is a worker;
- `ShutdownSafe`: once `all_workers_dead_` is set, nothing is pending, idle or running, so
  that `Shutdown` may read the lists without the monitor; every dead worker has exactly one
  thread that will join it; when `Shutdown` returns all workers are joined and deleted;
- `TaskTaken`: an accepted task is taken by a worker, even if other tasks stay blocked for
  ever; `ShutdownReturns`: `Shutdown` returns unless a task stays blocked;
- `TasksInOrder`: the pool implements `TaskQueue`, with `active` the tasks workers run and
  `closed` the flag `shutting_down_`.

Of safepoints:

- `StoppedDuringOperation`: while a thread runs its operation no other thread runs, and during
  one that deoptimizes no thread is inside a call that cannot be deoptimized;
- `NotParkedIsExact`: the counter the owner waits for is the number of the threads that were
  asked and have not stopped;
- `ThreadsContinue`: every operation starts, and whoever was stopped by one continues.

Of parallel marking:

- `RoundsLineUp`: nobody is past its n-th `Sync` before everybody has called it n times;
- `StopMeansNoWork`: when all have stopped there is no work, nobody is busy and nobody sleeps,
  and the assertion of DEBUG builds holds;
- `MarkingIsFinal`: weak processing sees final mark bits, exactly the living objects, and the
  end of marking finds every block and list empty;
- `MarkingEnds`: nobody waits for work or at the barrier for ever, and the barrier is deleted.

Of locks, limits and ports:

- `StateIsExact`: `state_` and `writer_id_` say exactly which lockers are held; readers share,
  a writer is alone; `NoLostWakeup`: nobody sleeps on the monitor while it could have the lock;
- `StoppedThreadsStay`: who gets the lock during an operation does not run before its end;
  `OperationEnds`: an operation ends even if nobody ever leaves the lock;
- `NoForgottenSlot`: while a mutator sleeps, every free slot has a mutator under way to it;
- `TablesAgree`: a search finds a port exactly while it is open, and the set of a handler holds
  exactly its ports; `LivePortsExact`: the count that keeps an isolate alive is exact;
- `SearchesEnd`: the table always has a free slot; `IsASet`: the table implements `SetOfPorts`
  with the ports that a search finds.

Of timers:

- `ActiveAreScheduled`: an active timer is somewhere it will be called from, and every zero timer
  has its message; `TimersEnd`: it is called or canceled;
- `FiresInOrder`: timers fire in the order of their wakeup times, and of their creation among
  equal ones, as long as no callback throws;
- `CalledOnTime`: none fires early; when a periodic timer is called, its `tick` is the number of
  durations that have passed by the clock, those it missed included, and it misses one only when
  it is late by more than a duration;
- `IdleIsSafe`: between messages the event handler waits for the first timer of the heap or a
  timeout is on its way, and the timer port is alive exactly while a timer waits;
- `HeapIsExact`, `QueueIsExact`: every entry of the two heaps knows its place, and the heap of
  timers is ordered; `QueueOrderKept`: insertions, changes, removals of the minimum and removals
  by value keep the order of the queue of timeouts, except where the entry that takes the place
  of a removed one would have to move up (item 4 below).

| Run | Instance | Checks |
|---|---|---|
| `isolate` | two events and a service request, with a kill or a pause; start callback that succeeds, debugger pauses, waits; depth 3 | `OneTask`, `OobDrained`, `NoLostWakeUp`, `PausedHandlesNoEvents`, `EventsHandled` |
| `control` | two events with one of four sets of control messages (both kills; two pauses and a resume of one capability; a pause and a ping before the next event; two pings) and a start callback that returns any status; or a native port with three messages that is being closed | `EventOrder`, `PauseCount`, `DeletedOnceUnreachable`, `ClosedIsDeleted`, `KillIsFinal`, `KillTerminates` |
| `kill_paused_on_start` | an event, a kill, a service request | `KillIsFinal` is violated |
| `shutdown_paused_on_exit` | an event, an internal kill | `NoPauseAfterShutdown` is violated |
| `nested_wait` | two events, a service request that waits; depth 4 | `NoLostWakeUp` is violated |
| `pool` | sizes 1 and 2 with the idle hook, and no limit without it; 4 workers, 3 tasks | `NoTaskStranded`, `ShutdownSafe`, `TaskTaken`, `ShutdownReturns`, `TasksInOrder` |
| `safepoint` | two mutators, a helper and four operations, or three mutators and two operations; nesting 2 | `StoppedDuringOperation`, `NotParkedIsExact`, `ThreadsContinue` |
| `parallel_mark` | main thread and two helpers, eight objects, blocks of one pointer; DEBUG with nothing left, or release with work left in the helpers' visitors | `RoundsLineUp`, `StopMeansNoWork`, `MarkingIsFinal`, `MarkingEnds` |
| `locks` | three attached threads and one that is not, depth 2; or six mutators and three slots | `StateIsExact`, `NoLostWakeup`, `StoppedThreadsStay`, `NoForgottenSlot`, `OperationEnds` |
| `ports` | an isolate and a native handler with four ports; or a table with eight ports | `TablesAgree`, `LivePortsExact`, `SearchesEnd`, `IsASet` |
| `timers` | three timers that fire once; or one that may be periodic and one that fires once; or a periodic one alone, with a clock that runs on; or eight timers in the heap; or five ports in the queue | `ActiveAreScheduled`, `FiresInOrder`, `CalledOnTime`, `IdleIsSafe`, `HeapIsExact`, `QueueIsExact`, `QueueOrderKept`, `TimersEnd` |
| `priority_queue_order` | six ports, three timeouts | `HeapOrdered` is violated |

The violated runs document disagreements between the code and its comments:

1. *Shutdown while paused on exit.* `message_handler.cc:427` replaces the status of
   the messages just handled by the one remembered when the pause began. If they
   included the internal kill that `Dart::Cleanup` sends, the shutdown is
   forgotten and the isolate pauses on exit again; the comment at line 357 says
   that a shutdown does not honour the pause flags.
2. *Kill while paused on start.* `ShouldPauseOnStart(kError)` still holds, so the
   task ends as "still paused" and the status is dropped; after a resume the
   isolate runs its events, although `Isolate.kill` documents that it shuts down
   as soon as possible.
3. *A wait inside a wait.* `paused_for_messages_` is one flag. If Dart code that
   the service evaluates inside a waiting thread waits too, its return clears the
   flag, the outer loop waits again, and a message then does not notify it. The
   run `isolate`, where only events wait, shows that without such nesting no
   wake-up is lost.
4. *Removal from the middle of the queue of timeouts.* `PriorityQueue::RemoveAt` puts the
   last entry in the freed place and moves it down only. If that place is in another
   subtree, the entry may be smaller than its new parent, contrary to the comment at
   `priority_queue.h:246`; a timeout then expires late. `_TimerHeap.remove` moves the entry
   either way, and `HeapIsExact` holds.

Other observations made while modelling, without a run of their own:

- a start callback that returns an error has its status overwritten by that of
  `HandleMessages` (`message_handler.cc:447`), so that `EventsHandled` is about isolates
  whose start callback succeeds;
- the `continue` of `PortMap::AllocatePort` (`port.cc:61`) jumps to the loop's test, which a
  number equal to `kDeletedPort` passes. With 50 random bits this takes one draw in 2^50;
  `Random` leaves the markers out;
- `ClosePorts` calls `Rebalance` for the map but not for the handler's own set (`port.cc:197`),
  although the comment on `Delete` (`port_set.h:73`) asks for it; the set is not used again;
- a periodic timer whose callback throws is not enqueued again and never fires, while
  `isActive` stays true (`timer_impl.dart:398`); `ActiveAreScheduled` excepts it. Zero timers
  that an error leaves behind are put at the end of the list, behind zero timers made later
  (`timer_impl.dart:413`), which is why `FiresInOrder` is about runs without errors;
- a periodic timer that is late by exactly one duration is called twice in a row, while one that
  is late by exactly two is called once (`overdue > ms`, `timer_impl.dart:390`). The documentation
  does not say whether a tick that is due this millisecond is "in the past" (`timer.dart:135`);
  `CalledOnTime` states what the code does;
- `PriorityQueue::InsertOrChangePriority` keeps the difference of two `int64_t` priorities in an
  `intptr_t` (`priority_queue.h:112`). The model compares exactly, which on 32-bit hosts is the
  code's comparison only for timeouts less than 2^31 milliseconds (24 days) apart.

### Bounds

*Message handler.* Each message is posted at most once; `MaxDepth` bounds nested activations and
`MaxLivePorts` live ports. Two events are enough for their order to matter and for
one to run while another arrives. Depth 3 is an activation of the task, one
inside its message, and one inside that one; the code distinguishes no more than
"the activation below". Depth 4 in `nested_wait` is the first at which a wait is
inside a wait. Two pauses with one capability and one resume are the shortest
sequence in which counting capabilities and counting messages differ. Deadlock is not
checked: an isolate that has handled its messages, or was deleted, rightly does nothing more.

*Thread pool.* `Worker` is the number of worker objects that exist at a time, dead and not yet
joined ones included; a step that needs one more is not taken. With size 2, four workers
are two running and two that replace blocked ones, or a generation that dies and is
joined while the next one works. Size 1 is the size at which one blocked task would stop
the pool. Deadlock is checked: `Shutdown` can always be called again.

*Safepoints.* `MaxOps` bounds the operations of a behaviour and `MaxNest` their nesting. Four
operations of two threads make every pair of levels meet while a nested one is under way; the
third mutator adds the case of a bystander of two competing operations. Deadlock is checked.

*Parallel marking.* The graph has a weak property whose key becomes alive late, one whose key is
dead, a value alive only through the first, and an Instructions reached only through that value,
so that a second round and late deferred marking happen. Blocks of one pointer make every push
go to the shared stack. Marking ends, so that deadlock is not checked; `MarkingEnds` takes its
place.

*Locks.* Depth 2 is one nested locker. Four threads are a holder, two waiters and the owner of an
operation. Six mutators for three slots leave as many outside as inside. Deadlock is checked.

*Ports.* All eight ports hash to slots 3 and 7 of a new table, so that the two chains meet; the
seventh makes the table grow. Eight are needed for a table that fails to grow to fill up. The map
has four ports, two states of which each handler reaches; deletions make its tables rehash.

*Timers.* `MaxTime` bounds the clock, `MaxTick` the ticks of a periodic timer; timers are made only
if they can still fire. Durations are 0 and 1, so that zero timers and timers of the heap are due
together. In the periodic part the clock runs one unit longer, so that ticks are missed. A periodic timer that is alone may have a duration of 2 and three more units
of the clock: three ticks are missed after the first call, or one and half a duration. Timers are made in one order, as they differ in nothing else; a new port of
the queue is the least unused one for the same reason. Eight timers are the first number that
makes the list of seven grow; five ports make a queue of capacity two grow twice and shrink.
A deadlock is the end of the clock.

All runs explore their whole state space.

### Fairness

`Fairness` of the message handler assumes that a thread that can run does so (`TaskStep`,
`MessageNotify`, `RequestDeletion`), that control and service messages take bounded time, that
Dart code reaches stack checks (the compiler puts one in every loop and function), and
that a notified `Wait` returns. It assumes nothing of events, which may run for ever, of
timeouts, nor that anybody posts, resumes or closes. The run `isolate` adds that events end,
which `EventsHandled` needs: a normal message does not interrupt Dart code.

That of the pool assumes that threads run, that a task that is not blocked ends, that
`NotifyIdle` returns (it has a deadline), and that a notified wait returns. It assumes no
time-out, as the flag `worker_timeout_millis` may turn it off, no spurious wake-up, and no
client: nobody need submit, unblock or shut down.

That of safepoints assumes that threads run, that running code polls and leaves its runtime
calls again and again (strong fairness: it may be in and out of safepoints meanwhile), and that
an operation ends. Native code may never return, except inside a runtime call that cannot be
deoptimized, which blocks on locks of the VM only. Nobody need start an operation or be
scheduled for the first time.

For marking: threads run, the pool runs each task, and a marker asleep wakes only if notified.
For `RwLock`: running threads reach a safepoint check, and who is about to block does; nobody has
to leave the lock. For timers: the isolate's thread, the event handler and the clock go on and
callbacks return; user code need not make or cancel anything. `MutatorLimit` and the ports have
safety properties only.

Where an MC module leaves steps out, they are steps that no fairness assumption obliges a thread
to take.

## 4. Proofs

| Module | Theorem | States |
|---|---|---|
| `MessageHandlerProofs` | `TypeCorrect` | `Spec => []TypeOK` |
| | `TaskExclusion` | `Spec => []OneTask` |
| | `OobNeverStranded` | `Spec => []OobDrained` |
| | `SafeDeletion` | `Spec => []DeletedOnceUnreachable` |
| | `NoLeak` | `Spec => []ClosedIsDeleted` |
| | `PauseCounted` | `Spec => []PauseCount` |
| | `EventsInOrder` | `Spec => []EventOrder` |
| `SafepointProofs` | `NotParkedIsExactHolds` | `Spec => []NotParkedIsExact` |
| | `StoppedDuringOperationHolds` | `Spec => []StoppedDuringOperation` |
| `ThreadPoolProofs` | `NoTaskStrandedHolds` | `Spec => []NoTaskStranded` |
| | `ShutdownSafeHolds` | `Spec => []ShutdownSafe` |
| | `TasksInOrderHolds` | `Spec => TasksInOrder` |
| `ParallelMarkRounds` | `RoundsLineUpHolds` | `Spec => []RoundsLineUp` |
| `ParallelMarkWork` | `StopMeansNoWorkHolds` | `Spec => []StopMeansNoWork` |
| `ParallelMarkProofs` | `MarksAreFinalHolds` | `Spec => []MarksAreFinal` |
| `LockProofs` | `StateIsExactHolds` | `Spec => []StateIsExact` |
| | `NoLostWakeupHolds` | `Spec => []NoLostWakeup` |
| | `StoppedThreadsStayHolds` | `Spec => []StoppedThreadsStay` |
| | `CountsAreExactHolds` | `LimitSpec => []CountsAreExact` |
| | `NoForgottenSlotHolds` | `LimitSpec => []NoForgottenSlot` |

### The message handler

Proved for every set of messages, kinds, priorities and capabilities, and all values
of the bounds, from `MessageAssumption` alone (the types of the constants, and that
a native port receives events only).

The invariants are not inductive one by one: that a second deletion cannot happen
depends on which thread holds the handler, and that depends on the shape of the
stack. The inductive invariant `IInv` adds

- `StackOK`: the thread is in `HandleMessages` exactly when its stack is not empty;
  the bottom activation, and no other, was called by `TaskCallback` or
  `HandleNextMessage`; a running activation has a message; only a wait waits;
- `LifeOK`: a task runs only on a pool; what the places `endCallback` and `deleteMe`
  know of ports and deletion; a port that is not closed has not led to a deletion; a
  native handler has a live port exactly while its port is open; a poster's port is
  open.

The argument goes by what a critical section leaves behind. Every stretch of
`TaskCallback` either continues the task with the monitor released (`Continues`) or
ends it (`Ends`), and their disjunction, `Outcome`, follows from the operators
bottom-up: `Finish`, `Proceed`, `CheckPausedOnExit`, `ReturnToTask`. A step of
`HandleMessages` stays in it (`Nested`), returns to `TaskCallback` with an outcome, or
returns to the embedder (`NextReturns`). The lemmas `OutcomeLife`, `NestedLife` and
`NextReturnsLife` show once for each of these that `LifeInv` survives. The key fact
for `OobDrained` is in `DequeueOutcome` and `MessageHandled`: every return from
`HandleMessages` leaves the out-of-band queue empty, and no other thread runs
between that return and the end of the task, as the monitor is held. After that
each action has a lemma (`StartTaskInv`, `PostInv`, ...), and `NextInv` collects them. A start
callback that asks for a shutdown ends the task with the queue as it is, but takes the handler off
its pool (`TaskContinues`).

`EventsInOrder` is proved from `OrderInv`, which is `EventOrder` with its parts named: `InOrder`
gives the place in the queue of each event that was posted and not taken, and `InFront` speaks of
the messages before the events. Where the code walks over the leading control messages of the
queue, `LeadingControls` and `InsertShape` say at which place the message goes and what moves back by
one. `Reindex` then shows that the order of the events depends on their places only, and
`AppendControl`, `InsertControl`, `TailControl`, `AppendEvent` and `TailEvent` are the five ways in
which the queue changes.

### The thread pool

Proved for every finite set of workers, every set of tasks and every limit, with the idle hook and
without, from `PoolAssumption`. The inductive invariant `IInv` is `NoTaskStranded` with

- `Fits`: the lists of workers and their counters follow from the places of the workers;
- `JoinOK`: a dead worker is in `dead_workers_`, which holds at most one, or in the list to join of
  exactly one thread; who has somebody to join is itself dead or `Shutdown`;
- `NoCycle`: of any set of dead workers, one is in `dead_workers_` or is joined by a thread outside
  the set;
- `DeathOK`: what holds from the moment `all_workers_dead_` is set, step by step of `Shutdown`;
- `JobOK`: a task is in the queue once, or one worker has it, and it was accepted.

`NoTaskStranded` is kept by arithmetic on the workers that are awake: `ScheduleTaskLocked` adds one
task, and one worker to those awake unless nobody sleeps (`RunImplInv`); `RemoveFirst` takes one of
each (`TakeInv`); a worker falls asleep or dies only with the queue empty (`RestInv`, `DieInv`). A
pool that is found without workers by `Shutdown` has no task left for the same reason.

`ShutdownSafe` ends with the claim that nobody is left when `Shutdown` returns, although it joins
only the worker that died last. That worker has joined its predecessor, and so on; as an
induction this would need the order of the deaths, which the state does not record. `NoCycle` says
the same of sets: if workers were left when `Shutdown` has nobody to join any more, the set of all
of them would have to be joined from outside, but every joiner is dead and so in the set
(`ShutdownReturnInv`).

`TasksInOrderHolds` is the refinement of `TaskQueue`. `QueueStep` maps each action to `Accept`,
`Start`, `Finish`, `FinishAndStart`, `Close` or a stutter; it needs `JobOK`, as a worker that ends
its task must not remove from `active` a task that another worker has too.

### Safepoints

Proved for every finite set of threads, any helper threads, and every number and nesting of
operations, from `SafepointAssumption` (`Thread` is finite, `Helper` is disjoint from it,
`NoThread` is in neither, and the bounds are natural numbers). Neither theorem is inductive: that
a thread is stopped depends on the count having been right when the operation started, and on
nobody having left the safepoint since. The inductive invariant `IInv` is `NotParkedIsExact` with

- `BitsOK`: the at-safepoint bits of a thread follow from its place and its level;
- `ScopesOK`, `LockOK`, `OwnerOK`, `CountOK`: which scopes a thread has, whether it holds
  `threads_lock`, which levels it owns and how often, again by its place;
- `ReqOK`: a safepoint is requested of a thread exactly when the owner of the level has reached it
  in its walk over the active threads and has not yet released it (`Asked`);
- `ParkedOK`: once the count of an owner has reached zero, every thread it asked is at the
  safepoint; `LowerFree`: the levels below are released before the level itself.

The central lemmas are about the counter. `EnterCounts` shows that a thread that enters while it is
requested removes one element from the set counted and decrements the counter by one;
`RequestInv` that a request adds one exactly if the thread is not parked at that moment; and
`ExitInv` that a thread leaves only while no safepoint of a level it takes part in is requested of
it, so `ParkedOK` survives.
The later lemmas follow an operation through `SafepointThreads` and nested scopes, and then
through the wait, the lower levels and `ResumeThreads`. `InvStops` derives
`StoppedDuringOperation`: a thread in an operation owns its outermost level (`OwnerOK`), so all
other active threads are asked (`ReqOK`), so they are parked (`ParkedOK`).

### Parallel marking

Proved for every heap graph, every finite set of helper tasks, however many of them come in time to
take part, every size of a block and every division of the roots, in DEBUG builds and others, with
or without work left by concurrent marking. `ParallelMarkAssumption` has the types of the constants
and what the code relies on: a weak property points to its key, instructions have no pointers to
visit and are no keys, and concurrent marking leaves at most one block in each visitor, with no
instructions in it. The heap need not be finite. `MarksAreFinal` is the property that the run
checks as `MarkingIsFinal`, for each of its two starts.

The invariant has three layers, each used in the proof of the next. A marker that the barrier has
freed may sleep on inside `Sync` while others are far into the next round, so all three speak of
where a marker would be if it returned at once (`Now`, `NowMore`, `NowDelayed`).

- `RoundInv`: a participant is outside the barrier, waits in it, or has been freed and has yet to
  leave, and its number of calls is the generation or one more (`AtBarrier`); `remaining_` counts those
  that have not called; all participants are between the same two calls of `Sync` (`SameRound`);
  `num_busy` counts those at places where they are busy, or that voted for another round
  (`CountOK`). `RoundsLineUp` follows from `AtBarrier`.
- `WorkInv`: what each marker holds by its place, and that while the shared stack is not empty
  some participant will yet look at it. A marker that goes to sleep found the stack empty with the
  monitor held, and the last to become idle wakes everybody. With `CountOK` this gives
  `StopMeansNoWork`. The assertion of DEBUG builds holds as no marker counts itself busy in the round
  of the assertion.
- `MarkInv`: everything marked, held or deferred is alive (`OnlyAlive`); a marked object is to be
  scanned by somebody, or all its pointers are marked or about to be (`AllAlive`); after weak
  properties were looked at, none that is still delayed has a marked key, unless some marker found
  more and another round follows (`WeakOK`). From the last `Sync` on, `Final` holds instead.

`Honest` and `Thorough` say of a single step that it adds nothing dead and loses nothing alive;
`StepTidy` and `StartTidy` show them for each action, and `NextAlive` and `NextAll` derive from them
that the first two conjuncts of `MarkInv` are preserved. The decisive step is the `Sync` that ends
the round of late deferred marking. Nobody has work (`WorkInv`), nothing is deferred and nobody
counts as busy, so `AllAlive` and `WeakOK` say that the marked objects hold the roots and are closed
under pointers other than those of weak properties with a dead key, as `Alive` is the least such
set. Hence `marked = Alive`.

### The readers-writer lock

Proved for every finite set of threads, attached or not, and every nesting depth, from
`RwLockAssumption`. `StateIsExact` counts lockers, so the proof has to know how the sets
`Readers` and `Writers` change when a locker is pushed or popped (`PushSets`, `PopSets`), which
needs that the lockers in use fill the stack of their thread from the bottom (`StackOK`). From
there the lemmas `AcquireExact`, `NestedWriteExact`, `LeaveReadExact` and `LeaveWriteExact` are
arithmetic on cardinalities. `NoLostWakeup` rests on `StateIsExact`: the lock becomes free only in
a step that notifies everybody, because a reader that is not the last leaves a positive `state_`
behind, which no reader waits for and no writer can use. `StoppedThreadsStay` needs where a thread
at a safepoint can be (`SafeOK`); `WantOK` says that who is on the way to the lock has room on
its stack. The inductive invariant is the conjunction of all of these.

### The mutator limit

Proved for every finite set of isolates and every positive limit. The three conjuncts of `IInv`
(types, `CountsAreExact`, `NoForgottenSlot`) are inductive together. `MoveCounts` and `StepCounts`
say how the number of mutators at each place changes when one or two of them move. The interesting
step is `DecreaseMutatorCount`: it frees a slot, and either somebody sleeps, then
`waiting_mutators_` is positive and one sleeper is woken, so that the sum of active and woken
mutators is unchanged; or nobody sleeps, and there is nothing to show. A mutator that overtakes a
woken one raises the sum, and the woken one goes back to sleep only if the group is full.

## 5. What is only model-checked

`NoLostWakeUp`, `PausedHandlesNoEvents`, `KillIsFinal` of the message handler, and all properties
of ports and timers are checked by TLC only, and so is all liveness (`TaskTaken` and
`ShutdownReturns` of the thread pool, `ThreadsContinue` of safepoints and `MarkingEnds` of parallel
marking among it), which needs fairness and is out of the prover's reach. The heaps and the tables
of ports need induction over their slots, which the installed provers cannot do either.
`KillIsFinal` holds without debugger pauses only, and `NoLostWakeUp` only if waits do not nest
through service requests (section 3).

## 6. What is not modelled

- *Isolate lifecycle, start and cleanup of the VM, `PauseEventHandler`*: spawning, becoming ready
  and shutting down cross the message handler, the port map, the pool and the embedder's callbacks.
  Two hazards listed in `PROJECT.json` (a kill that meets a closing main port, and the mark left by
  `StartUnwindError` for a kill with the wrong capability) are for this reason without a property.
- *The monitor of the message handler at a safepoint*: `PauseAndHandleAllMessages` may block for a
  safepoint with `monitor_` held. The composition of `Safepoint` and `MessageHandler` has more states
  than TLC can explore; `OperationEnds` of `RwLock` is the same question at another lock.
- *The rest of the heap*: scavenging, sweeping and compaction work on memory and object layout, and
  concurrent marking on the write barrier of generated code. `ParallelMark` starts after it.
- *`AcquiredQueues`, payloads of messages, exit and error listeners* of the message handler; they
  change nothing that the properties speak of.
- *Descriptors, listening ports and token counts* of the event handler of `dart:io`, which are
  bookkeeping around system calls.
- *`dart:async`, the background compiler, the profiler and timeline, the idle time handler*:
  stateful, but each a system of its own beside the ones here.
- *Compilers, kernel and snapshot readers, core libraries, analyzer, tools*, by far the most lines of
  the repository: sequential transformations of programs and data, without interleavings, for which
  a reference definition would be the language specification itself.
- *Operating system layer and files, sockets, processes*: pure I/O.
