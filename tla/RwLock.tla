------------------------------- MODULE RwLock -------------------------------
(***************************************************************************)
(* SafepointRwLock: a readers-writer lock whose waiters are at a           *)
(* safepoint.  Readers share the lock, a writer may nest, and a reader     *)
(* inside its own write section acquires nothing.                          *)
(*                                                                         *)
(* A locker (SafepointReadRwLocker, SafepointWriteRwLocker) is an object   *)
(* on the stack of its thread: <<t, d>> is the one at nesting depth d of   *)
(* thread t.  Threads stop for a safepoint operation with the lock in      *)
(* their hands, which is why nobody may wait for it outside a safepoint.   *)
(* The safepoint protocol appears by its contract, see module Safepoint.   *)
(***************************************************************************)
EXTENDS Integers, FiniteSets

CONSTANTS
    Thread,   \* the threads that use the lock
    Attached, \* those with a Thread object, which stop at safepoints
    NoThread, \* OSThread::kInvalidThreadId, or nobody
    MaxDepth  \* bound: lockers on the stack of a thread

ASSUME RwLockAssumption ==
    /\ IsFiniteSet(Thread)
    /\ Attached \subseteq Thread
    /\ NoThread \notin Thread
    /\ MaxDepth \in Nat

VARIABLES
    state_,     \* SafepointRwLock::state_
    writer_id_, \* SafepointRwLock::writer_id_
    pc,         \* where each thread is, see Place
    want,       \* the kind of locker a thread is constructing
    kind,       \* what each locker holds
    depth,      \* lockers on the stack of each thread
    safe,       \* attached threads that are at a safepoint
    owner,      \* the thread that owns the safepoint operation
    running     \* every other attached thread has stopped

vars == <<state_, writer_id_, pc, want, kind, depth, safe, owner, running>>
lock == <<state_, writer_id_, kind, depth>>
safepoint == <<safe, owner, running>>

-----------------------------------------------------------------------------

\* vm      runs            parked  stopped in a safepoint check
\* enter   failed without blocking, is about to enter a safepoint
\* try     is in TryEnterRead or TryEnterWrite with can_block
\* wait    asleep on monitor_
\* leave   has the lock, is about to leave its safepoint
Place == {"vm", "parked", "enter", "try", "wait", "leave"}

\* skipped: a read locker inside its thread's own write section.
Kind == {"none", "read", "skipped", "write"}

Locker == Thread \X (1 .. MaxDepth)

Readers == {l \in Locker : kind[l] = "read"}

Writers == {l \in Locker : kind[l] = "write"}

IsCurrentThreadWriter(t) == writer_id_ = t

\* A thread runs unless it waits for the others to stop.
Runs(t) == pc[t] = "vm" /\ (owner = t => running)

Move(t, p) == pc' = [pc EXCEPT ![t] = p]

\* The next locker on the stack of t holds k.
Push(t, k) ==
    /\ kind' = [kind EXCEPT ![<<t, depth[t] + 1>>] = k]
    /\ depth' = [depth EXCEPT ![t] = @ + 1]

Pop(t) ==
    /\ kind' = [kind EXCEPT ![<<t, depth[t]>>] = "none"]
    /\ depth' = [depth EXCEPT ![t] = @ - 1]

\* Monitor::NotifyAll: every waiter checks its condition again.
NotifyAll(p) == [t \in Thread |-> IF p[t] = "wait" THEN "try" ELSE p[t]]

-----------------------------------------------------------------------------

Init ==
    /\ state_ = 0
    /\ writer_id_ = NoThread
    /\ pc = [t \in Thread |-> "vm"]
    /\ want = [t \in Thread |-> "none"]
    /\ kind = [l \in Locker |-> "none"]
    /\ depth = [t \in Thread |-> 0]
    /\ safe = {}
    /\ owner = NoThread
    /\ running = FALSE

\* The condition under which TryEnterRead gets the lock.
CanRead(t) == state_ >= 0

\* The condition under which TryEnterWrite gets the lock.
CanWrite(t) == state_ = 0

Can(t, k) == IF k = "read" THEN CanRead(t) ELSE CanWrite(t)

\* What a successful TryEnterRead or TryEnterWrite of a thread that is not
\* the writer does.
Acquire(t, k) ==
    /\ state_' = IF k = "read" THEN state_ + 1 ELSE -1
    /\ writer_id_' = IF k = "read" THEN writer_id_ ELSE t
    /\ Push(t, k)

\* A fault: the nested write section is not counted.
NestedWriteUncounted(t) ==
    /\ IsCurrentThreadWriter(t)
    /\ Push(t, "write")
    /\ UNCHANGED <<state_, writer_id_>>

\* TryEnterWrite inside the write section of t.
NestedWrite(t) ==
    /\ IsCurrentThreadWriter(t)
    /\ state_' = state_ - 1
    /\ Push(t, "write")
    /\ UNCHANGED writer_id_

\* TryEnterRead inside the write section of t.
NestedRead(t) ==
    /\ IsCurrentThreadWriter(t)
    /\ Push(t, "skipped")
    /\ UNCHANGED <<state_, writer_id_>>

\* EnterRead or EnterWrite of a thread that needs no waiting.  EnterRead
\* asserts that the thread does not own a safepoint operation; no caller
\* starts a write section while it owns one, or over its own read locker.
EnterAtOnce(t) ==
    /\ Runs(t) /\ depth[t] < MaxDepth
    /\ \/ owner # t /\ NestedRead(t)
       \/ NestedWrite(t)
       \/ /\ owner # t /\ ~IsCurrentThreadWriter(t)
          /\ \E k \in {"read", "write"} :
                /\ k = "write" => depth[t] = 0
                /\ Can(t, k) /\ Acquire(t, k)
    /\ UNCHANGED <<pc, want, safepoint>>

\* The first TryEnter fails.  A thread that is not attached blocks at once.
EnterFails(t) ==
    /\ Runs(t) /\ depth[t] < MaxDepth
    /\ owner # t /\ ~IsCurrentThreadWriter(t)
    /\ \E k \in {"read", "write"} :
          /\ k = "write" => depth[t] = 0
          /\ ~Can(t, k)
          /\ want' = [want EXCEPT ![t] = k]
    /\ Move(t, IF t \in Attached THEN "enter" ELSE "try")
    /\ UNCHANGED <<lock, safepoint>>

\* The constructor of TransitionVMToBlocked.
EnterSafepoint(t) ==
    /\ pc[t] = "enter"
    /\ Move(t, "try")
    /\ safe' = safe \cup {t}
    /\ UNCHANGED <<lock, want, owner, running>>

\* TryEnterRead or TryEnterWrite with can_block, up to Wait or to its end.
TryEnterWaits(t) ==
    /\ pc[t] = "try" /\ ~Can(t, want[t])
    /\ Move(t, "wait")
    /\ UNCHANGED <<lock, want, safepoint>>

TryEnter(t) ==
    /\ pc[t] = "try" /\ Can(t, want[t])
    /\ Acquire(t, want[t])
    /\ Move(t, IF t \in Attached THEN "leave" ELSE "vm")
    /\ want' = [want EXCEPT ![t] = "none"]
    /\ UNCHANGED safepoint

\* A fault: the thread leaves its safepoint in the middle of an operation.
ExitSafepointAtOnce(t) ==
    /\ pc[t] = "leave" /\ (owner = NoThread \/ running)
    /\ Move(t, "vm")
    /\ safe' = safe \ {t}
    /\ UNCHANGED <<lock, want, owner, running>>

\* The destructor of TransitionVMToBlocked, which waits for an operation.
ExitSafepoint(t) ==
    /\ pc[t] = "leave" /\ owner = NoThread
    /\ Move(t, "vm")
    /\ safe' = safe \ {t}
    /\ UNCHANGED <<lock, want, owner, running>>

\* A fault: the last reader wakes nobody.
LeaveReadSilently(t) ==
    /\ kind[<<t, depth[t]>>] = "read"
    /\ state_' = state_ - 1
    /\ UNCHANGED <<writer_id_, pc>>

\* SafepointRwLock::LeaveRead: the last reader wakes the waiters.
LeaveRead(t) ==
    /\ kind[<<t, depth[t]>>] = "read"
    /\ state_' = state_ - 1
    /\ pc' = IF state_' = 0 THEN NotifyAll(pc) ELSE pc
    /\ UNCHANGED writer_id_

\* SafepointRwLock::LeaveWrite.
LeaveWrite(t) ==
    /\ kind[<<t, depth[t]>>] = "write"
    /\ state_' = state_ + 1
    /\ \/ state_' < 0 /\ UNCHANGED <<writer_id_, pc>>
       \/ /\ state_' >= 0
          /\ writer_id_' = NoThread
          /\ pc' = NotifyAll(pc)

\* ~SafepointReadRwLocker of a locker that acquired nothing.
LeaveSkipped(t) ==
    /\ kind[<<t, depth[t]>>] = "skipped"
    /\ UNCHANGED <<state_, writer_id_, pc>>

\* The destructor of the innermost locker.
Leave(t) ==
    /\ Runs(t) /\ depth[t] > 0
    /\ LeaveRead(t) \/ LeaveWrite(t) \/ LeaveSkipped(t)
    /\ Pop(t)
    /\ UNCHANGED <<want, safepoint>>

-----------------------------------------------------------------------------

\* A fault: a thread does not stop while it has the lock.
ParkWithoutLock(t) ==
    /\ pc[t] = "vm" /\ t \in Attached /\ depth[t] = 0
    /\ owner \notin {NoThread, t}
    /\ Move(t, "parked")
    /\ safe' = safe \cup {t}
    /\ UNCHANGED <<lock, want, owner, running>>

\* A running thread stops for an operation of another one.
Park(t) ==
    /\ pc[t] = "vm" /\ t \in Attached
    /\ owner \notin {NoThread, t}
    /\ Move(t, "parked")
    /\ safe' = safe \cup {t}
    /\ UNCHANGED <<lock, want, owner, running>>

Unpark(t) ==
    /\ pc[t] = "parked" /\ owner = NoThread
    /\ Move(t, "vm")
    /\ safe' = safe \ {t}
    /\ UNCHANGED <<lock, want, owner, running>>

\* SafepointThreads: t becomes the owner, possibly with the lock held.
SafepointThreads(t) ==
    /\ pc[t] = "vm" /\ t \in Attached /\ owner = NoThread
    /\ owner' = t
    /\ UNCHANGED <<lock, pc, want, safe, running>>

\* Every other attached thread is at a safepoint: the operation runs.
WaitUntilThreadsReachedSafepointLevel ==
    /\ owner # NoThread /\ ~running
    /\ Attached \ {owner} \subseteq safe
    /\ running' = TRUE
    /\ UNCHANGED <<lock, pc, want, safe, owner>>

ResumeThreads ==
    /\ running
    /\ running' = FALSE
    /\ owner' = NoThread
    /\ UNCHANGED <<lock, pc, want, safe>>

-----------------------------------------------------------------------------

Step(t) ==
    \/ EnterAtOnce(t) \/ EnterFails(t) \/ EnterSafepoint(t)
    \/ TryEnterWaits(t) \/ TryEnter(t) \/ ExitSafepoint(t) \/ Leave(t)
    \/ Park(t) \/ Unpark(t) \/ SafepointThreads(t)

Next ==
    \/ \E t \in Thread : Step(t)
    \/ WaitUntilThreadsReachedSafepointLevel
    \/ ResumeThreads

Spec == Init /\ [][Next]_vars

\* A thread that runs reaches a safepoint check, one that is about to block
\* blocks, and an operation ends.  Nobody has to leave the lock.
Fairness ==
    /\ \A t \in Thread : WF_vars(Park(t)) /\ WF_vars(EnterSafepoint(t))
    /\ WF_vars(WaitUntilThreadsReachedSafepointLevel)
    /\ WF_vars(ResumeThreads)

FairSpec == Spec /\ Fairness

-----------------------------------------------------------------------------

TypeOK ==
    /\ state_ \in Int
    /\ writer_id_ \in Thread \cup {NoThread}
    /\ pc \in [Thread -> Place]
    /\ want \in [Thread -> {"none", "read", "write"}]
    /\ kind \in [Locker -> Kind]
    /\ depth \in [Thread -> 0 .. MaxDepth]
    /\ safe \in SUBSET Attached
    /\ owner \in Attached \cup {NoThread}
    /\ running \in BOOLEAN

\* state_ says exactly who holds the lock: with no writer it is the number of
\* read lockers and there is no write locker; with one, nobody reads, every
\* write locker is on the stack of writer_id_ and state_ is minus their number.
\* EnterRead, EnterWrite, LeaveRead and LeaveWrite keep it so.
StateIsExact ==
    IF writer_id_ = NoThread
    THEN state_ = Cardinality(Readers) /\ Writers = {}
    ELSE /\ Readers = {} /\ Writers # {}
         /\ \A l \in Writers : l[1] = writer_id_
         /\ state_ = -Cardinality(Writers)

\* A thread sleeps on monitor_ only while the lock is not to be had: the wake
\* ups of LeaveRead (by the last reader) and LeaveWrite reach every waiter.
NoLostWakeup ==
    \A t \in Thread : pc[t] = "wait" => ~Can(t, want[t])

\* While an operation runs, no other attached thread runs, the ones that got
\* the lock in the middle of it included.
StoppedThreadsStay ==
    running => \A t \in Attached \ {owner} : pc[t] # "vm" /\ t \in safe

\* A safepoint operation comes to its end even if no thread ever leaves the
\* lock: who waits for the lock is at a safepoint.
OperationEnds ==
    (owner # NoThread) ~> (owner = NoThread)

=============================================================================
