---------------------------- MODULE MutatorLimit ----------------------------
(***************************************************************************)
(* The limit on the mutators of an isolate group that run at the same      *)
(* time: IsolateGroup::IncreaseMutatorCount, which a thread passes before  *)
(* it enters an isolate, and DecreaseMutatorCount, when it leaves it.      *)
(*                                                                         *)
(* Everything happens under active_mutators_monitor_, so a step is what a  *)
(* thread does between taking and releasing it.  A thread that calls       *)
(* IncreaseMutatorCount may overtake one that was notified.                *)
(***************************************************************************)
EXTENDS Integers, FiniteSets

CONSTANTS
    Mutator,             \* the isolates of the group, each with its thread
    max_active_mutators_ \* Scavenger::MaxMutatorThreadCount()

ASSUME MutatorAssumption ==
    /\ IsFiniteSet(Mutator)
    /\ max_active_mutators_ \in Nat \ {0}

VARIABLES
    active_mutators_,
    waiting_mutators_,
    place \* out, asleep or woken in Wait, or in

limitVars == <<active_mutators_, waiting_mutators_, place>>

At(p) == {m \in Mutator : place[m] = p}

MoveTo(m, p) == place' = [place EXCEPT ![m] = p]

-----------------------------------------------------------------------------

LimitInit ==
    /\ active_mutators_ = 0
    /\ waiting_mutators_ = 0
    /\ place = [m \in Mutator |-> "out"]

\* The condition of the loop in IncreaseMutatorCount.
MustWait(m) == active_mutators_ = max_active_mutators_

\* IncreaseMutatorCount up to the Wait.
IncreaseMutatorCountWaits(m) ==
    /\ place[m] = "out" /\ MustWait(m)
    /\ waiting_mutators_' = waiting_mutators_ + 1
    /\ MoveTo(m, "asleep")
    /\ UNCHANGED active_mutators_

IncreaseMutatorCount(m) ==
    /\ place[m] = "out" /\ ~MustWait(m)
    /\ active_mutators_' = active_mutators_ + 1
    /\ MoveTo(m, "in")
    /\ UNCHANGED waiting_mutators_

\* The rest of it after the Wait, when there is room.
WakeUp(m) ==
    /\ place[m] = "woken" /\ ~MustWait(m)
    /\ waiting_mutators_' = waiting_mutators_ - 1
    /\ active_mutators_' = active_mutators_ + 1
    /\ MoveTo(m, "in")

\* When there is none: waiting_mutators_ is decremented and incremented.
WakeUpInVain(m) ==
    /\ place[m] = "woken" /\ MustWait(m)
    /\ MoveTo(m, "asleep")
    /\ UNCHANGED <<active_mutators_, waiting_mutators_>>

\* A condition variable may wake a thread without a notification.
SpuriousWakeUp(m) ==
    /\ place[m] = "asleep"
    /\ MoveTo(m, "woken")
    /\ UNCHANGED <<active_mutators_, waiting_mutators_>>

\* A fault: only the thread that frees the first slot notifies.
NotifiesOnceFull(m) == waiting_mutators_ > 0 /\ active_mutators_ = max_active_mutators_

\* Whether DecreaseMutatorCount notifies.
Notifies(m) == waiting_mutators_ > 0

\* A notification reaches one thread that sleeps, if there is one.
DecreaseMutatorCount(m) ==
    /\ place[m] = "in"
    /\ active_mutators_' = active_mutators_ - 1
    /\ IF Notifies(m) /\ At("asleep") # {}
       THEN \E w \in At("asleep") :
               place' = [place EXCEPT ![m] = "out", ![w] = "woken"]
       ELSE MoveTo(m, "out")
    /\ UNCHANGED waiting_mutators_

-----------------------------------------------------------------------------

LimitNext ==
    \E m \in Mutator :
        \/ IncreaseMutatorCountWaits(m) \/ IncreaseMutatorCount(m)
        \/ WakeUp(m) \/ WakeUpInVain(m) \/ SpuriousWakeUp(m)
        \/ DecreaseMutatorCount(m)

LimitSpec == LimitInit /\ [][LimitNext]_limitVars

-----------------------------------------------------------------------------

LimitTypeOK ==
    /\ active_mutators_ \in Nat
    /\ waiting_mutators_ \in Nat
    /\ place \in [Mutator -> {"out", "asleep", "woken", "in"}]

\* The two counters are exact and the limit is kept, also when threads
\* overtake each other: what both functions assert.
CountsAreExact ==
    /\ active_mutators_ = Cardinality(At("in"))
    /\ waiting_mutators_ = Cardinality(At("asleep")) + Cardinality(At("woken"))
    /\ active_mutators_ <= max_active_mutators_

\* While a thread sleeps in IncreaseMutatorCount, every free slot has a
\* thread under way to it: no slot is forgotten by the notifications of
\* DecreaseMutatorCount, of which one is sent for each slot.
NoForgottenSlot ==
    At("asleep") # {} =>
        active_mutators_ + Cardinality(At("woken")) >= max_active_mutators_

=============================================================================
