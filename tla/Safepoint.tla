----------------------------- MODULE Safepoint -----------------------------
(***************************************************************************)
(* Safepoint operations of one isolate group: SafepointHandler, the        *)
(* safepoint bits of a Thread and the scheduling of threads into the       *)
(* group.  A thread that runs generated or VM code stops, at the level an  *)
(* operation asks for, before that operation (a garbage collection, a      *)
(* deoptimization) runs, and continues after it.                           *)
(*                                                                         *)
(* threads_lock is held across the two loops over the active threads, each *)
(* of whose iterations is a step of its own.  A thread_lock or parked_lock *)
(* is held for one step.                                                   *)
(***************************************************************************)
EXTENDS Integers, Sequences, FiniteSets

CONSTANTS
    Thread,   \* the threads of the group that stop at safepoints
    Helper,   \* threads scheduled with bypass_safepoint (tasks of the GC)
    NoThread, \* a null Thread*
    MaxNest,  \* bound: nested operations of one thread
    MaxOps    \* bound: operations that are started

ASSUME SafepointAssumption ==
    /\ IsFiniteSet(Thread)
    /\ Thread \cap Helper = {}
    /\ NoThread \notin Thread \cup Helper
    /\ MaxNest \in Nat /\ MaxOps \in Nat

VARIABLES
    place,        \* where each thread is, see Place
    level,        \* Thread::current_safepoint_level
    at,           \* the AtSafepoint and AtDeoptSafepoint bits
    req,          \* the (Deopt)SafepointRequested bits
    active,       \* ThreadRegistry::active_list_
    scopes,       \* the levels of the SafepointOperationScopes of each thread
    threads_lock, \* the thread that holds it in a loop over active
    waiting,      \* threads asleep on threads_lock
    todo,         \* the threads the loop has not reached
    owner,        \* LevelHandler::owner_
    count,        \* LevelHandler::operation_count_
    notParked,    \* LevelHandler::num_threads_not_parked_
    started       \* operations started so far

vars == <<place, level, at, req, active, scopes, threads_lock, waiting, todo,
          owner, count, notParked, started>>
bits == <<at, req, notParked>>
handlers == <<owner, count>>
lock == <<threads_lock, waiting, todo>>

-----------------------------------------------------------------------------

kGC == 0
kGCAndDeopt == 1
Level == {kGC, kGCAndDeopt}
AllThread == Thread \cup Helper

\* out       unscheduled               schedule  in ScheduleThreadLocked
\* run       in generated or VM code   check     has seen IsSafepointRequested
\* enter     CAS of TryEnterSafepoint failed
\* safe      in native or blocked      exit      in ExitSafepointUsingLock
\* asleep    waits in ExitSafepointLocked        woken  was notified
\* start, waitOwner, notify, waitParked, lower   in SafepointThreads
\* op        runs its operation        continue  in ResumeThreads
Place == {"out", "schedule", "run", "check", "enter", "safe", "exit",
          "asleep", "woken", "start", "waitOwner", "notify", "waitParked",
          "lower", "op", "continue"}

\* AtSafepointBits(l): who is at a level is at the lower ones.
AtSafepointBits(l) == 0 .. l

IsAtSafepoint(l, bitsOfState) == AtSafepointBits(l) \subseteq bitsOfState

\* IsSafepointRequested considers the levels the thread takes part in.
IsSafepointRequested(t) == req[t] \cap AtSafepointBits(level[t]) # {}

IsBlockedForSafepoint(t) == place[t] \in {"asleep", "woken"}

SafepointInProgress(l) == owner[l] # NoThread

AnySafepointInProgress == \E l \in Level : SafepointInProgress(l)

Lower(l) == {k \in Level : k < l}

Move(t, p) == place' = [place EXCEPT ![t] = p]

LockFree(t) == threads_lock = NoThread /\ t \notin waiting

Top(t) == scopes[t][Len(scopes[t])]

Pop(t) == scopes' = [scopes EXCEPT ![t] = SubSeq(@, 1, Len(@) - 1)]

-----------------------------------------------------------------------------

\* Whether EnterSafepointLocked tells the handler of level l.
ReportsParked(t, l) == l <= level[t] /\ l \in req[t]

\* SafepointHandler::EnterSafepointLocked with NotifyWeAreParked.
EnterSafepointLocked(t) ==
    /\ at' = [at EXCEPT ![t] = @ \cup AtSafepointBits(level[t])]
    /\ notParked' = [l \in Level |->
                        notParked[l] - IF ReportsParked(t, l) THEN 1 ELSE 0]

\* SafepointHandler::ExitSafepointLocked up to the Wait or to its end.
ExitSafepointLocked(t, bitsOfState) ==
    IF IsSafepointRequested(t)
    THEN Move(t, "asleep") /\ at' = [at EXCEPT ![t] = bitsOfState]
    ELSE /\ Move(t, "run")
         /\ at' = [at EXCEPT ![t] = bitsOfState \ AtSafepointBits(level[t])]

\* TryEnterSafepoint succeeds: one CAS from 0.
TryEnterSafepoint(t) ==
    /\ place[t] = "run" /\ scopes[t] = <<>>
    /\ at[t] = {} /\ req[t] = {}
    /\ at' = [at EXCEPT ![t] = AtSafepointBits(level[t])]
    /\ Move(t, "safe")
    /\ UNCHANGED <<level, req, active, scopes, lock, handlers, notParked, started>>

\* TryEnterSafepoint fails, for a request or for the bit
\* UnwindErrorInProgress, which is not modelled.
TryEnterSafepointFails(t) ==
    /\ place[t] = "run" /\ scopes[t] = <<>>
    /\ Move(t, "enter")
    /\ UNCHANGED <<level, active, scopes, lock, handlers, bits, started>>

EnterSafepointUsingLock(t) ==
    /\ place[t] = "enter"
    /\ EnterSafepointLocked(t)
    /\ Move(t, "safe")
    /\ UNCHANGED <<level, req, active, scopes, lock, handlers, started>>

\* TryExitSafepoint succeeds: one CAS to 0 from the bits of the thread's level.
TryExitSafepoint(t) ==
    /\ place[t] = "safe"
    /\ at[t] = AtSafepointBits(level[t]) /\ req[t] = {}
    /\ at' = [at EXCEPT ![t] = {}]
    /\ Move(t, "run")
    /\ UNCHANGED <<level, req, active, scopes, lock, handlers, notParked, started>>

TryExitSafepointFails(t) ==
    /\ place[t] = "safe"
    /\ Move(t, "exit")
    /\ UNCHANGED <<level, active, scopes, lock, handlers, bits, started>>

ExitSafepointUsingLock(t) ==
    /\ place[t] \in {"exit", "woken"}
    /\ ExitSafepointLocked(t, at[t])
    /\ UNCHANGED <<level, req, active, scopes, lock, handlers, notParked, started>>

\* A fault: the poll looks at the bits of the lowest level only.
CheckForGCSafepoint(t) ==
    /\ place[t] = "run" /\ scopes[t] = <<>>
    /\ kGC \in req[t]
    /\ Move(t, "check")
    /\ UNCHANGED <<level, active, scopes, lock, handlers, bits, started>>

\* Thread::CheckForSafepoint reads the bits without the lock.
CheckForSafepoint(t) ==
    /\ place[t] = "run" /\ scopes[t] = <<>>
    /\ IsSafepointRequested(t)
    /\ Move(t, "check")
    /\ UNCHANGED <<level, active, scopes, lock, handlers, bits, started>>

BlockForSafepoint(t) ==
    /\ place[t] = "check"
    /\ IF IsSafepointRequested(t)
       THEN EnterSafepointLocked(t) /\ Move(t, "asleep")
       ELSE Move(t, "run") /\ UNCHANGED <<at, notParked>>
    /\ UNCHANGED <<level, req, active, scopes, lock, handlers, started>>

\* RuntimeCallDeoptScope, entered and left in generated code.
EnterRuntimeCall(t) ==
    /\ place[t] = "run" /\ scopes[t] = <<>> /\ level[t] = kGCAndDeopt
    /\ level' = [level EXCEPT ![t] = kGC]
    /\ UNCHANGED <<place, active, scopes, lock, handlers, bits, started>>

LeaveRuntimeCall(t) ==
    /\ place[t] = "run" /\ scopes[t] = <<>> /\ level[t] = kGC
    /\ level' = [level EXCEPT ![t] = kGCAndDeopt]
    /\ UNCHANGED <<place, active, scopes, lock, handlers, bits, started>>

-----------------------------------------------------------------------------
(* ThreadRegistry and IsolateGroup.                                        *)

ScheduleThreadLocked(t) ==
    /\ place[t] \in {"out", "schedule"} /\ LockFree(t)
    /\ IF t \notin Helper /\ AnySafepointInProgress
       THEN /\ waiting' = waiting \cup {t}
            /\ Move(t, "schedule")
            /\ UNCHANGED <<at, active>>
       ELSE /\ active' = active \cup {t}
            /\ at' = [at EXCEPT ![t] = {}]
            /\ Move(t, "run")
            /\ UNCHANGED waiting
    /\ UNCHANGED <<level, req, scopes, threads_lock, todo, handlers, notParked, started>>

\* A fault: a thread leaves the list without reporting that it is parked.
UnscheduleWithoutEnter(t) ==
    /\ place[t] = "run" /\ scopes[t] = <<>> /\ level[t] = kGCAndDeopt
    /\ LockFree(t)
    /\ at' = [at EXCEPT ![t] = Level]
    /\ req' = [req EXCEPT ![t] = {}]
    /\ active' = active \ {t}
    /\ Move(t, "out")
    /\ UNCHANGED <<level, scopes, lock, handlers, notParked, started>>

\* EnterSafepoint, by either path, happens under threads_lock, which every
\* change of req needs.  A thread leaves its isolate outside of the runtime
\* calls without deoptimization.
UnscheduleThreadLocked(t) ==
    /\ place[t] = "run" /\ scopes[t] = <<>> /\ level[t] = kGCAndDeopt
    /\ LockFree(t)
    /\ notParked' = IF t \in Helper THEN notParked
                    ELSE [l \in Level |->
                            notParked[l] - IF ReportsParked(t, l) THEN 1 ELSE 0]
    /\ at' = [at EXCEPT ![t] = Level]
    /\ req' = [req EXCEPT ![t] = {}]
    /\ active' = active \ {t}
    /\ Move(t, "out")
    /\ UNCHANGED <<level, scopes, lock, handlers, started>>

-----------------------------------------------------------------------------
(* SafepointHandler::SafepointThreads.                                     *)

\* A SafepointOperationScope is made, in VM code or inside an operation of the
\* same thread: never one of a higher level than the outermost.
NewOperationScope(t, l) ==
    /\ place[t] \in {"run", "op"} /\ l <= level[t]
    /\ Len(scopes[t]) < MaxNest /\ started < MaxOps
    /\ place[t] = "op" => l <= scopes[t][1]
    /\ started' = started + 1
    /\ scopes' = [scopes EXCEPT ![t] = Append(@, l)]
    /\ Move(t, "start")
    /\ UNCHANGED <<level, active, lock, handlers, bits>>

SetSafepointInProgress(t, l) ==
    /\ owner' = [owner EXCEPT ![l] = t]
    /\ count' = [count EXCEPT ![l] = 1]

\* SetSafepointInProgress and the start of NotifyThreadsToGetToSafepointLevel,
\* or the Wait for the operation of the level's owner.
TakeLevel(t) ==
    IF SafepointInProgress(Top(t))
    THEN /\ Move(t, "waitOwner")
         /\ waiting' = waiting \cup {t}
         /\ UNCHANGED <<threads_lock, todo, handlers>>
    ELSE /\ Move(t, "notify")
         /\ SetSafepointInProgress(t, Top(t))
         /\ threads_lock' = t
         /\ todo' = active \ ({t} \cup Helper)
         /\ UNCHANGED waiting

SafepointThreads(t) ==
    /\ place[t] = "start" /\ LockFree(t)
    /\ IF owner[Top(t)] = t
       THEN /\ count' = [count EXCEPT ![Top(t)] = @ + 1]
            /\ Move(t, "op")
            /\ UNCHANGED <<at, notParked, owner, lock>>
       ELSE /\ EnterSafepointLocked(t)
            /\ TakeLevel(t)
    /\ UNCHANGED <<level, req, active, scopes, started>>

\* Woken in the loop that waits for other operations.
SafepointThreadsWoken(t) ==
    /\ place[t] = "waitOwner" /\ LockFree(t)
    /\ TakeLevel(t)
    /\ UNCHANGED <<level, active, scopes, bits, started>>

\* A fault: the request is made of threads that are not at the safepoint only.
RequestUnlessParked(t, u) ==
    /\ place[t] = "notify" /\ u \in todo
    /\ todo' = todo \ {u}
    /\ IF IsAtSafepoint(Top(t), at[u])
       THEN UNCHANGED <<req, notParked>>
       ELSE /\ req' = [req EXCEPT ![u] = @ \cup {Top(t)}]
            /\ notParked' = [notParked EXCEPT ![Top(t)] = @ + 1]
    /\ UNCHANGED <<place, level, at, active, scopes, threads_lock, waiting, handlers, started>>

\* One iteration of NotifyThreadsToGetToSafepointLevel.
RequestSafepoint(t, u) ==
    /\ place[t] = "notify" /\ threads_lock = t /\ u \in todo
    /\ todo' = todo \ {u}
    /\ req' = [req EXCEPT ![u] = @ \cup {Top(t)}]
    /\ notParked' = [notParked EXCEPT ![Top(t)] =
                        @ + IF IsAtSafepoint(Top(t), at[u]) THEN 0 ELSE 1]
    /\ UNCHANGED <<place, level, at, active, scopes, threads_lock, waiting, handlers, started>>

AllRequested(t) ==
    /\ place[t] = "notify" /\ threads_lock = t /\ todo = {}
    /\ threads_lock' = NoThread
    /\ Move(t, "waitParked")
    /\ UNCHANGED <<level, active, scopes, waiting, todo, handlers, bits, started>>

\* WaitUntilThreadsReachedSafepointLevel; its Wait is timed.
WaitUntilThreadsReachedSafepointLevel(t) ==
    /\ place[t] = "waitParked" /\ notParked[Top(t)] = 0
    /\ Move(t, "lower")
    /\ UNCHANGED <<level, active, scopes, lock, handlers, bits, started>>

AcquireLowerLevelSafepoints(t) ==
    /\ place[t] = "lower" /\ LockFree(t)
    /\ IF \E k \in Lower(Top(t)) : SafepointInProgress(k)
       THEN /\ waiting' = waiting \cup {t}
            /\ UNCHANGED <<place, handlers>>
       ELSE /\ owner' = [l \in Level |-> IF l \in Lower(Top(t)) THEN t ELSE owner[l]]
            /\ count' = [l \in Level |-> IF l \in Lower(Top(t)) THEN 1 ELSE count[l]]
            /\ Move(t, "op")
            /\ UNCHANGED waiting
    /\ UNCHANGED <<level, active, scopes, threads_lock, todo, bits, started>>

-----------------------------------------------------------------------------
(* SafepointHandler::ResumeThreads.                                        *)

\* The nested case, or ReleaseLowerLevelSafepoints and the start of
\* NotifyThreadsToContinue.
ResumeThreads(t) ==
    /\ place[t] = "op" /\ LockFree(t)
    /\ IF count[Top(t)] > 1
       THEN /\ count' = [count EXCEPT ![Top(t)] = @ - 1]
            /\ Pop(t)
            /\ UNCHANGED <<place, owner, lock>>
       ELSE /\ owner' = [l \in Level |-> IF l \in Lower(Top(t)) THEN NoThread ELSE owner[l]]
            /\ count' = [l \in Level |-> IF l \in Lower(Top(t)) THEN 0 ELSE count[l]]
            /\ threads_lock' = t
            /\ todo' = active \ ({t} \cup Helper)
            /\ Move(t, "continue")
            /\ UNCHANGED <<scopes, waiting>>
    /\ UNCHANGED <<level, active, bits, started>>

\* One iteration of NotifyThreadsToContinue: a blocked thread is notified.
ContinueThread(t, u) ==
    /\ place[t] = "continue" /\ threads_lock = t /\ u \in todo
    /\ todo' = todo \ {u}
    /\ req' = [req EXCEPT ![u] = @ \ AtSafepointBits(Top(t))]
    /\ IF IsBlockedForSafepoint(u) THEN Move(u, "woken") ELSE UNCHANGED place
    /\ UNCHANGED <<level, at, active, scopes, threads_lock, waiting, handlers, notParked, started>>

\* ResetSafepointInProgress, NotifyAll, and on to ExitSafepointUsingLock.
AllContinue(t) ==
    /\ place[t] = "continue" /\ threads_lock = t /\ todo = {}
    /\ owner' = [owner EXCEPT ![Top(t)] = NoThread]
    /\ count' = [count EXCEPT ![Top(t)] = 0]
    /\ threads_lock' = NoThread
    /\ waiting' = {}
    /\ Pop(t)
    /\ Move(t, "exit")
    /\ UNCHANGED <<level, active, todo, bits, started>>

-----------------------------------------------------------------------------

Init ==
    /\ place = [t \in AllThread |-> "out"]
    /\ level = [t \in AllThread |-> kGCAndDeopt]
    /\ at = [t \in AllThread |-> Level]
    /\ req = [t \in AllThread |-> {}]
    /\ active = {}
    /\ scopes = [t \in AllThread |-> <<>>]
    /\ threads_lock = NoThread /\ waiting = {} /\ todo = {}
    /\ owner = [l \in Level |-> NoThread]
    /\ count = [l \in Level |-> 0]
    /\ notParked = [l \in Level |-> 0]
    /\ started = 0

\* What a thread does once it has begun it.
Step(t) ==
    \/ EnterSafepointUsingLock(t)
    \/ ExitSafepointUsingLock(t)
    \/ BlockForSafepoint(t)
    \/ SafepointThreads(t)
    \/ SafepointThreadsWoken(t)
    \/ \E u \in Thread : RequestSafepoint(t, u)
    \/ AllRequested(t)
    \/ WaitUntilThreadsReachedSafepointLevel(t)
    \/ AcquireLowerLevelSafepoints(t)
    \/ \E u \in Thread : ContinueThread(t, u)
    \/ AllContinue(t)

\* What the program of a thread decides.
Choose(t) ==
    \/ TryEnterSafepoint(t)
    \/ TryEnterSafepointFails(t)
    \/ TryExitSafepoint(t)
    \/ TryExitSafepointFails(t)
    \/ CheckForSafepoint(t)
    \/ EnterRuntimeCall(t)
    \/ LeaveRuntimeCall(t)
    \/ \E l \in Level : NewOperationScope(t, l)
    \/ ResumeThreads(t)

Next ==
    \/ \E t \in Thread : Step(t) \/ Choose(t)
    \/ \E t \in AllThread : ScheduleThreadLocked(t) \/ UnscheduleThreadLocked(t)

Spec == Init /\ [][Next]_vars

\* Threads are scheduled by the operating system; generated code polls
\* in every loop, between its runtime calls, and leaves each of them after
\* finitely many transitions (hence SF); a thread ends
\* its operations.  A thread may stay in native code for ever, except inside a
\* runtime call without deoptimization, which blocks on locks of the VM only.
BlockedInRuntimeCallEnds(t) ==
    level[t] = kGC /\ (TryExitSafepoint(t) \/ TryExitSafepointFails(t))

Fairness ==
    \A t \in Thread :
        /\ WF_vars(Step(t))
        /\ SF_vars(CheckForSafepoint(t))
        /\ SF_vars(LeaveRuntimeCall(t))
        /\ WF_vars(BlockedInRuntimeCallEnds(t))
        /\ WF_vars(ResumeThreads(t))
        /\ WF_vars(place[t] = "schedule" /\ ScheduleThreadLocked(t))

FairSpec == Spec /\ Fairness

-----------------------------------------------------------------------------

Stopped == {"out", "schedule", "safe", "exit", "asleep", "woken", "waitOwner",
            "notify", "waitParked", "lower", "continue"}

\* While a thread runs its safepoint operation (between SafepointThreads and
\* ResumeThreads) no other thread of the group runs generated or VM code, or
\* an operation of its own.  During an operation of level kGCAndDeopt no thread
\* is inside a runtime call that cannot be deoptimized lazily, not even in
\* native code it called.
StoppedDuringOperation ==
    \A t, u \in Thread : place[t] = "op" /\ u # t =>
        /\ place[u] \in Stopped
        /\ scopes[t][1] = kGCAndDeopt /\ u \in active => level[u] = kGCAndDeopt

\* num_threads_not_parked_ is the number of the threads that were asked for the
\* level and are not at it: whatever order the requests, the two paths into a
\* safepoint and the unscheduling of threads take.
NotParkedIsExact ==
    \A l \in Level :
        notParked[l] = Cardinality({u \in Thread : l \in req[u] /\ l \notin at[u]})

\* Nobody waits for ever: whoever calls SafepointThreads gets to run its
\* operation, and whoever sleeps in ExitSafepointLocked or ScheduleThreadLocked
\* gets to run.
ThreadsContinue ==
    \A t \in Thread :
        /\ place[t] = "start" ~> place[t] = "op"
        /\ place[t] \in {"asleep", "schedule"} ~> place[t] = "run"
=============================================================================
