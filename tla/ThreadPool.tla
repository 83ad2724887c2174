----------------------------- MODULE ThreadPool -----------------------------
(***************************************************************************)
(* The VM's thread pool (runtime/vm/thread_pool.{h,cc}), on which message  *)
(* handler tasks, GC helpers and background compilers run, with the idle   *)
(* hook of its subclass MutatorThreadPool (runtime/vm/isolate.cc).         *)
(*                                                                         *)
(* A critical section of pool_monitor_ is one action.  Between two of them *)
(* a worker's thread is at a "place" of WorkerLoop:                        *)
(*                                                                         *)
(*   none        no such worker: not created yet, or joined and deleted    *)
(*   top         before the MonitorLocker of the loop (a new worker too)   *)
(*   task        in task->Run()                                            *)
(*   idleWait    in the wait of OnEnterIdleLocked                          *)
(*   notifyIdle  in NotifyIdle(), pool_monitor_ released                   *)
(*   wait        in the wait of WorkerLoop                                 *)
(*   notifyExit  holding pool_monitor_, about to lock exit_monitor_        *)
(*   joining     in JoinDeadWorkersLocked                                  *)
(*   exited      the thread has ended and can be joined                    *)
(***************************************************************************)
EXTENDS Naturals, FiniteSets, Sequences

CONSTANTS
    Worker,        \* the Worker objects that can exist at one time
    Task,          \* the tasks clients submit
    MaxPoolSize,   \* the constructor's argument; 0: no limit
    HasIdleHook    \* the pool is a MutatorThreadPool

ASSUME PoolAssumption ==
    /\ IsFiniteSet(Worker)
    /\ MaxPoolSize \in Nat
    /\ HasIdleHook \in BOOLEAN
    /\ "shutdown" \notin Worker

VARIABLES
    pool,              \* the worker lists and their counters (see PoolType)
    shutting_down,     \* shutting_down_
    tasks,             \* tasks_
    pending_tasks,     \* pending_tasks_
    all_workers_dead,  \* all_workers_dead_
    max_pool_size,     \* max_pool_size_
    is_blocked,        \* Worker::is_blocked_
    place,             \* where each worker's thread is
    notified,          \* its wait on pool_monitor_ was notified
    job,               \* the tasks each worker runs: one, or none
    to_join,           \* dead_workers_to_join of each worker and of Shutdown
    shutdown,          \* where the thread that calls Shutdown is
    exit_notified,     \* its wait on exit_monitor_ was notified
    accepted           \* tasks for which RunImpl returned true

queue == <<tasks, pending_tasks>>
limits == <<max_pool_size, is_blocked>>
deaths == <<all_workers_dead, to_join>>
closing == <<shutting_down, shutdown, exit_notified>>
vars == <<pool, queue, limits, deaths, closing, place, notified, job, accepted>>

\* running_workers_, idle_workers_, dead_workers_, and a counter for each; the
\* order within a list is never used.
PoolType ==
    [running : SUBSET Worker, idle : SUBSET Worker, dead : SUBSET Worker,
     count_running : Nat, count_idle : Nat, count_dead : Nat]

Places ==
    {"none", "top", "task", "idleWait", "notifyIdle", "wait", "notifyExit",
     "joining", "exited"}

Joiner == Worker \cup {"shutdown"}

Init ==
    /\ pool = [running |-> {}, idle |-> {}, dead |-> {},
               count_running |-> 0, count_idle |-> 0, count_dead |-> 0]
    /\ shutting_down = FALSE
    /\ tasks = <<>> /\ pending_tasks = 0
    /\ all_workers_dead = FALSE
    /\ max_pool_size = MaxPoolSize
    /\ is_blocked = [w \in Worker |-> FALSE]
    /\ place = [w \in Worker |-> "none"]
    /\ notified = [w \in Worker |-> FALSE]
    /\ job = [w \in Worker |-> {}]
    /\ to_join = [j \in Joiner |-> {}]
    /\ shutdown = "none" /\ exit_notified = FALSE
    /\ accepted = {}

(***************************************************************************)
(* The lists of workers                                                    *)
(***************************************************************************)

IdleToRunningLocked(p, w) ==
    [p EXCEPT !.idle = @ \ {w}, !.running = @ \cup {w},
              !.count_idle = @ - 1, !.count_running = @ + 1]

RunningToIdleLocked(p, w) ==
    [p EXCEPT !.running = @ \ {w}, !.idle = @ \cup {w},
              !.count_running = @ - 1, !.count_idle = @ + 1]

\* The moves of IdleToDeadLocked; its notification of Shutdown is in Die.
IdleToDeadLocked(p, w) ==
    [p EXCEPT !.idle = @ \ {w}, !.dead = @ \cup {w},
              !.count_idle = @ - 1, !.count_dead = @ + 1]

\* fault: the list is copied, not moved
ObtainDeadWorkersCopied(p) == p

\* What ObtainDeadWorkersLocked leaves; the caller takes p.dead.
ObtainDeadWorkersLocked(p) == [p EXCEPT !.dead = {}, !.count_dead = 0]

NoWorkers(p) == p.running = {} /\ p.idle = {}

(***************************************************************************)
(* The monitors                                                            *)
(***************************************************************************)

\* pool_monitor_ can be taken: only a worker that is about to lock exit_monitor_
\* holds it from one action to the next.
PoolMonitorFree == \A w \in Worker : place[w] # "notifyExit"

At(w, p) == place' = [place EXCEPT ![w] = p]

Sleeping == {w \in Worker : place[w] \in {"wait", "idleWait"} /\ ~notified[w]}

\* Monitor::Notify wakes one of the waiting threads, or is lost.
Notify ==
    IF Sleeping = {}
    THEN UNCHANGED notified
    ELSE \E w \in Sleeping : notified' = [notified EXCEPT ![w] = TRUE]

\* Monitor::NotifyAll.
NotifyAll == notified' = [w \in Worker |-> notified[w] \/ w \in Sleeping]

\* The worker goes to place p, with no notification pending: it starts to wait on
\* pool_monitor_, or its wait is over.
Goto(w, p) ==
    /\ At(w, p)
    /\ notified' = [notified EXCEPT ![w] = FALSE]

(***************************************************************************)
(* Clients                                                                 *)
(***************************************************************************)

\* new Worker and its entry in idle_workers_; StartThread follows when
\* pool_monitor_ is released, and the thread begins at the top of its loop.
NewWorker ==
    \E w \in Worker :
        /\ place[w] = "none"
        /\ At(w, "top")
        /\ pool' = [pool EXCEPT !.idle = @ \cup {w}, !.count_idle = @ + 1]

MaxedOut ==
    /\ max_pool_size > 0
    /\ pool.count_idle + pool.count_running >= max_pool_size

\* Wakes an idle worker, leaves the task to the workers there are, or starts a
\* worker.
ScheduleTaskLocked(t) ==
    /\ tasks' = Append(tasks, t)
    /\ pending_tasks' = pending_tasks + 1
    /\ \/ /\ pool.count_idle >= pending_tasks'
          /\ Notify
          /\ UNCHANGED <<pool, place>>
       \/ /\ pool.count_idle < pending_tasks'
          /\ MaxedOut
          /\ IF pool.idle # {} THEN Notify ELSE UNCHANGED notified
          /\ UNCHANGED <<pool, place>>
       \/ /\ pool.count_idle < pending_tasks'
          /\ ~MaxedOut
          /\ NewWorker
          /\ UNCHANGED notified

\* Once shutting_down_ is set RunImpl returns false and changes nothing.
RunImpl(t) ==
    /\ PoolMonitorFree
    /\ t \notin accepted
    /\ ~shutting_down
    /\ ScheduleTaskLocked(t)
    /\ accepted' = accepted \cup {t}
    /\ UNCHANGED <<limits, deaths, closing, job>>

\* fault: the limit is raised, the pending tasks are forgotten
MarkBlockedOnly(w) ==
    /\ PoolMonitorFree
    /\ place[w] = "task" /\ ~is_blocked[w]
    /\ is_blocked' = [is_blocked EXCEPT ![w] = TRUE]
    /\ max_pool_size' = IF max_pool_size > 0 THEN max_pool_size + 1 ELSE 0
    /\ UNCHANGED <<pool, place, queue, deaths, closing, notified, job, accepted>>

\* The task of worker w leaves its isolate with frames on the stack
\* (IsolateGroup::DecreaseMutatorCount).
MarkCurrentWorkerAsBlocked(w) ==
    /\ PoolMonitorFree
    /\ place[w] = "task" /\ ~is_blocked[w]
    /\ is_blocked' = [is_blocked EXCEPT ![w] = TRUE]
    /\ max_pool_size' = IF max_pool_size > 0 THEN max_pool_size + 1 ELSE 0
    /\ IF max_pool_size > 0 /\ pool.idle = {} /\ pending_tasks > 0
       THEN NewWorker
       ELSE UNCHANGED <<pool, place>>
    /\ UNCHANGED <<queue, deaths, closing, notified, job, accepted>>

MarkCurrentWorkerAsUnBlocked(w) ==
    /\ PoolMonitorFree
    /\ place[w] = "task" /\ is_blocked[w]
    /\ is_blocked' = [is_blocked EXCEPT ![w] = FALSE]
    /\ max_pool_size' = IF max_pool_size > 0 THEN max_pool_size - 1 ELSE 0
    /\ UNCHANGED <<pool, queue, deaths, closing, place, notified, job, accepted>>

(***************************************************************************)
(* WorkerLoop                                                              *)
(***************************************************************************)

\* fault: the youngest task first
RemoveLast(w) ==
    /\ job' = [job EXCEPT ![w] = {tasks[Len(tasks)]}]
    /\ tasks' = SubSeq(tasks, 1, Len(tasks) - 1)
    /\ pending_tasks' = pending_tasks - 1
    /\ At(w, "task")
    /\ UNCHANGED <<deaths, notified>>

\* tasks_.RemoveFirst() and the release of pool_monitor_ for task->Run().
RemoveFirst(w) ==
    /\ job' = [job EXCEPT ![w] = {Head(tasks)}]
    /\ tasks' = Tail(tasks)
    /\ pending_tasks' = pending_tasks - 1
    /\ At(w, "task")
    /\ UNCHANGED <<deaths, notified>>

\* The worker takes over the list of dead workers and joins it.  The last one
\* to die in a shutdown sets all_workers_dead_ and has to notify Shutdown.
Die(w, p) ==
    /\ to_join' = [to_join EXCEPT ![w] = p.dead]
    /\ pool' = IdleToDeadLocked(ObtainDeadWorkersLocked(p), w)
    /\ IF shutting_down /\ NoWorkers(pool')
       THEN all_workers_dead' = TRUE /\ Goto(w, "notifyExit")
       ELSE UNCHANGED all_workers_dead /\ Goto(w, "joining")

\* WorkerLoop after OnEnterIdleLocked, the lists being p and tasks_ empty.
DieOrWait(w, p) ==
    \/ /\ shutting_down
       /\ Die(w, p)
    \/ /\ ~shutting_down
       /\ Goto(w, "wait")
       /\ pool' = p
       /\ UNCHANGED deaths

\* WorkerLoop from the test of running_workers_ on: the last worker to go idle
\* calls OnEnterIdleLocked, which returns at once (its flag is 0, nothing was
\* spawned yet, or the pool shuts down), notifies, or waits for the idle time.
GoIdle(w, p) ==
    \/ DieOrWait(w, p)
    \/ /\ HasIdleHook /\ p.running = {}
       /\ \/ Goto(w, "notifyIdle")
          \/ ~shutting_down /\ Goto(w, "idleWait")
       /\ pool' = p
       /\ UNCHANGED deaths

\* The worker takes pool_monitor_ at the top of the loop.
EnterLoop(w) ==
    /\ PoolMonitorFree
    /\ place[w] = "top"
    /\ \/ /\ tasks # <<>>
          /\ RemoveFirst(w)
          /\ pool' = IdleToRunningLocked(pool, w)
       \/ /\ tasks = <<>>
          /\ GoIdle(w, pool)
          /\ UNCHANGED <<queue, job>>
    /\ UNCHANGED <<limits, closing, accepted>>

\* task->Run() returns and pool_monitor_ is taken again: the next task, if any.
\* A task that was marked as blocked has been unblocked before it returns.
FinishTask(w) ==
    /\ PoolMonitorFree
    /\ place[w] = "task" /\ ~is_blocked[w]
    /\ \/ /\ tasks # <<>>
          /\ RemoveFirst(w)
          /\ UNCHANGED pool
       \/ /\ tasks = <<>>
          /\ GoIdle(w, RunningToIdleLocked(pool, w))
          /\ job' = [job EXCEPT ![w] = {}]
          /\ UNCHANGED queue
    /\ UNCHANGED <<limits, closing, accepted>>

\* fault: the time-out is looked at before tasks_
WakeUpTimedOut(w, timed_out) ==
    /\ PoolMonitorFree
    /\ place[w] = "wait"
    /\ \/ /\ shutting_down \/ timed_out
          /\ Die(w, pool)
       \/ /\ ~shutting_down /\ ~timed_out
          /\ Goto(w, IF tasks # <<>> THEN "top" ELSE "wait")
          /\ UNCHANGED <<pool, deaths>>
    /\ UNCHANGED <<queue, limits, closing, job, accepted>>

\* The wait of WorkerLoop returns: notified, timed out or spuriously.
WakeUp(w, timed_out) ==
    /\ PoolMonitorFree
    /\ place[w] = "wait"
    /\ \/ /\ tasks # <<>>
          /\ Goto(w, "top")
          /\ UNCHANGED <<pool, deaths>>
       \/ /\ tasks = <<>>
          /\ shutting_down \/ timed_out
          /\ Die(w, pool)
       \/ /\ tasks = <<>>
          /\ ~shutting_down /\ ~timed_out
          /\ Goto(w, "wait")
          /\ UNCHANGED <<pool, deaths>>
    /\ UNCHANGED <<queue, limits, closing, job, accepted>>

\* The wait of OnEnterIdleLocked returns.
IdleWakeUp(w, timed_out) ==
    /\ PoolMonitorFree
    /\ place[w] = "idleWait"
    /\ \/ /\ tasks # <<>>
          /\ Goto(w, "top")
          /\ UNCHANGED <<pool, deaths>>
       \/ /\ tasks = <<>>
          /\ ~shutting_down /\ timed_out
          /\ Goto(w, "notifyIdle")
          /\ UNCHANGED <<pool, deaths>>
       \/ /\ tasks = <<>>
          /\ DieOrWait(w, pool)
    /\ UNCHANGED <<queue, limits, closing, job, accepted>>

\* NotifyIdle() returns and pool_monitor_ is taken again.
IdleNotified(w) ==
    /\ PoolMonitorFree
    /\ place[w] = "notifyIdle"
    /\ \/ /\ tasks # <<>>
          /\ Goto(w, "top")
          /\ UNCHANGED <<pool, deaths>>
       \/ /\ tasks = <<>>
          /\ DieOrWait(w, pool)
    /\ UNCHANGED <<queue, limits, closing, job, accepted>>

\* fault: exit_monitor_ not notified
ExitUnnotified(w) ==
    /\ place[w] = "notifyExit"
    /\ At(w, "joining")
    /\ UNCHANGED <<pool, queue, limits, deaths, closing, notified, job, accepted>>

\* The end of IdleToDeadLocked: exit_monitor_ is locked, its waiter notified, and
\* both monitors are released.
NotifyExit(w) ==
    /\ place[w] = "notifyExit"
    /\ exit_notified' = (exit_notified \/ shutdown = "exitWait")
    /\ At(w, "joining")
    /\ UNCHANGED <<pool, queue, limits, deaths, shutting_down, shutdown, notified,
                   job, accepted>>

\* OSThread::Join of a thread that has ended, and delete worker.
JoinWorker(j, u) ==
    /\ j \in Worker => place[j] = "joining"
    /\ u \in to_join[j]
    /\ place[u] = "exited"
    /\ to_join' = [to_join EXCEPT ![j] = @ \ {u}]
    /\ At(u, "none")
    /\ UNCHANGED <<pool, queue, limits, all_workers_dead, closing, notified, job,
                   accepted>>

\* The thread returns from Worker::Main.
ExitThread(w) ==
    /\ place[w] = "joining"
    /\ to_join[w] = {}
    /\ At(w, "exited")
    /\ UNCHANGED <<pool, queue, limits, deaths, closing, notified, job, accepted>>

(***************************************************************************)
(* Shutdown: called by the owner of the pool, and again by ~ThreadPool     *)
(***************************************************************************)

ShutdownBegin ==
    /\ PoolMonitorFree
    /\ shutdown \in {"none", "returned"}
    /\ shutting_down' = TRUE
    /\ IF NoWorkers(pool)
       THEN all_workers_dead' = TRUE /\ UNCHANGED notified
       ELSE NotifyAll /\ UNCHANGED all_workers_dead
    /\ shutdown' = "exitCheck"
    /\ UNCHANGED <<pool, queue, limits, to_join, exit_notified, place, job, accepted>>

\* The loop on all_workers_dead_ under exit_monitor_, entered or woken.
ShutdownCheck ==
    /\ shutdown \in {"exitCheck", "exitWait"}
    /\ shutdown' = IF all_workers_dead THEN "obtain" ELSE "exitWait"
    /\ exit_notified' = FALSE
    /\ UNCHANGED <<pool, queue, limits, deaths, shutting_down, place, notified, job,
                   accepted>>

ShutdownObtain ==
    /\ PoolMonitorFree
    /\ shutdown = "obtain"
    /\ to_join' = [to_join EXCEPT !["shutdown"] = pool.dead]
    /\ pool' = ObtainDeadWorkersLocked(pool)
    /\ shutdown' = "joining"
    /\ UNCHANGED <<queue, limits, all_workers_dead, shutting_down, exit_notified,
                   place, notified, job, accepted>>

ShutdownReturn ==
    /\ shutdown = "joining"
    /\ to_join["shutdown"] = {}
    /\ shutdown' = "returned"
    /\ UNCHANGED <<pool, queue, limits, deaths, shutting_down, exit_notified, place,
                   notified, job, accepted>>

(***************************************************************************)
(* The specification                                                       *)
(***************************************************************************)

Join(j) == \E u \in Worker : JoinWorker(j, u)

WorkerStep(w) ==
    \/ MarkCurrentWorkerAsBlocked(w) \/ MarkCurrentWorkerAsUnBlocked(w)
    \/ EnterLoop(w) \/ FinishTask(w)
    \/ \E timed_out \in BOOLEAN : WakeUp(w, timed_out) \/ IdleWakeUp(w, timed_out)
    \/ IdleNotified(w) \/ NotifyExit(w) \/ Join(w) \/ ExitThread(w)

ShutdownStep ==
    ShutdownBegin \/ ShutdownCheck \/ ShutdownObtain \/ Join("shutdown") \/ ShutdownReturn

Next ==
    \/ \E t \in Task : RunImpl(t)
    \/ \E w \in Worker : WorkerStep(w)
    \/ ShutdownStep

Spec == Init /\ [][Next]_vars

\* Threads run; a task that is not blocked ends; NotifyIdle returns.  Nothing
\* obliges a client to submit, a blocked task to be unblocked, a wait to time out
\* or to end spuriously, or Shutdown to be called.
Fairness ==
    /\ \A w \in Worker :
        /\ WF_vars(EnterLoop(w))
        /\ WF_vars(FinishTask(w))
        /\ WF_vars(notified[w] /\ (WakeUp(w, FALSE) \/ IdleWakeUp(w, FALSE)))
        /\ WF_vars(IdleNotified(w))
        /\ WF_vars(NotifyExit(w))
        /\ WF_vars(Join(w))
        /\ WF_vars(ExitThread(w))
    /\ WF_vars(shutdown = "exitCheck" /\ ShutdownCheck)
    /\ WF_vars(exit_notified /\ ShutdownCheck)
    /\ WF_vars(ShutdownObtain)
    /\ WF_vars(Join("shutdown"))
    /\ WF_vars(ShutdownReturn)

FairSpec == Spec /\ Fairness

(***************************************************************************)
(* Properties                                                              *)
(***************************************************************************)

\* The idle workers that will look at tasks_ before they sleep or die.
Alert == pool.idle \ Sleeping

\* No task is stranded: tasks_ holds no task that an idle worker sleeps through.
\* Either every idle worker is awake or there is one awake for each pending task,
\* and with tasks pending there is a worker at all (the Notify or the new worker
\* of ScheduleTaskLocked against the waits and time-outs of WorkerLoop).
NoTaskStranded ==
    /\ Sleeping # {} => Cardinality(Alert) >= Len(tasks)
    /\ tasks # <<>> => Alert \cup pool.running # {}

\* A worker that died is joined by exactly one thread: the worker that died next
\* or Shutdown.  At most one dead worker is in dead_workers_ (the comment at the
\* end of WorkerLoop), and none of those is still in the other lists.  Shutdown
\* reads the lists after its wait without pool_monitor_: from the moment
\* all_workers_dead_ is set no task is pending and no worker is, or becomes, idle
\* or running; when Shutdown returns every worker was joined and deleted.
ShutdownSafe ==
    /\ Cardinality(pool.dead) <= 1
    /\ \A u \in Worker :
        LET owners == {j \in Joiner : u \in to_join[j]}
            gone == place[u] \in {"notifyExit", "joining", "exited"}
        IN  /\ gone => Cardinality(owners) = IF u \in pool.dead THEN 0 ELSE 1
            /\ ~gone => owners = {} /\ u \notin pool.dead
    /\ all_workers_dead => NoWorkers(pool) /\ tasks = <<>>
    /\ shutdown = "returned" => \A w \in Worker : place[w] = "none"

\* Every accepted task is taken by a worker, even when tasks stay blocked for
\* ever: MarkCurrentWorkerAsBlocked makes room for another worker.
TaskTaken ==
    \A t \in Task :
        t \in accepted ~> t \notin {tasks[i] : i \in 1 .. Len(tasks)}

\* A Shutdown returns, whatever the workers were doing, if its tasks do not stay
\* blocked: no wake-up on either monitor is lost and no two threads wait to join
\* each other.
ShutdownReturns ==
    shutdown = "exitCheck"
        ~> (shutdown = "returned" \/ \E w \in Worker : is_blocked[w])

\* What the pool promises its clients: accepted tasks start once, in the order of
\* RunImpl, on whatever worker; none is accepted once Shutdown began.
Queue ==
    INSTANCE TaskQueue WITH
        queue <- tasks,
        active <- UNION {job[w] : w \in Worker},
        closed <- shutting_down

TasksInOrder == Queue!Spec

=============================================================================
