------------------------- MODULE ParallelMarkProofs -------------------------
(***************************************************************************)
(* Marking ends with exactly what is alive marked: the third layer of the  *)
(* invariant of ParallelMark, above the rounds and the work.               *)
(***************************************************************************)
EXTENDS ParallelMarkAlive

\* The rounds in which weak properties have been looked at.
Weakish == Weakening \cup Deciding \cup Deferring

\* No delayed weak property has a marked key, unless a marker found more to mark.
WeakOK ==
    \/ Now(Main) \notin Weakish
    \/ \E m \in Participant : Now(m) \in Weakening \cup Deciding /\ NowMore(m)
    \/ \A m \in Participant : \A p \in NowDelayed(m) : Key[p] \notin marked

\* Marking is over: the markers mourn or have left.
Over == Now(Main) \in Mourning \cup Leaving

\* What then holds of the marks and of what is still delayed.
Final ==
    /\ marked = Alive
    /\ \A m \in Participant : \A p \in NowDelayed(m) : Key[p] \notin marked
    /\ \A m \in Participant : Now(m) # "mourn" => NowDelayed(m) = {}

\* The invariant of the marks.
MarkInv == OnlyAlive /\ (IF Over THEN Final ELSE AllAlive /\ WeakOK)

-----------------------------------------------------------------------------
\* Only a Sync ends a round.

\* Marker m goes on in the round it is in.
Stays(m) ==
    /\ Alone(m) /\ ~Freed(m)' /\ seen[m] = -1
    /\ Now(m) = pc[m] /\ Now(m)' = pc'[m]
    /\ (NowMore(m) <=> more[m]) /\ (NowMore(m)' <=> more'[m])
    /\ NowDelayed(m) = delayed[m] /\ NowDelayed(m)' = delayed'[m]
    /\ \A Q \in Rounds : pc[m] \in Q => pc'[m] \in Q

\* A move within a round ...
LEMMA MoveStays ==
  ASSUME RoundInv, NEW m \in Participant, NEW q \in Place, Step(m) \/ WakeUp(m),
         pc[m] \notin SyncPlace, pc' = [pc EXCEPT ![m] = q], UNCHANGED gate,
         q \notin {"idle", "enter"}, q \in {"release", "done"} => m = Main \/ syncs[m] > 0,
         \A Q \in Rounds : pc[m] \in Q => q \in Q
  PROVE  Stays(m)
<1>1. Kept(m) /\ seen[m] = -1
  BY Zenon, StepKeeps, Outside, Participants
<1>2. /\ Alone(m) /\ ~Freed(m)'
      /\ Now(m) = pc[m] /\ Now(m)' = q /\ pc'[m] = q
      /\ (NowMore(m) <=> more[m]) /\ (NowMore(m)' <=> more'[m])
      /\ NowDelayed(m) = delayed[m] /\ NowDelayed(m)' = delayed'[m]
  BY <1>1, MoveAlone, Zenon
<1> QED
  BY <1>1, <1>2, ZenonT(30) DEF Stays

\* ... and every step but those of the barrier is one.
LEMMA StepStays ==
  ASSUME RoundInv, NEW m \in Participant, Step(m) \/ WakeUp(m), ~Sync(m), ~SyncReturns(m)
  PROVE  Stays(m)
<1> USE Participants
<1>1. m \in Marker /\ pc \in [Marker -> Place] /\ pc[m] \in Place /\ pc[m] \notin {"idle", "enter"}
      /\ (pc[m] = "release" => m = Main \/ syncs[m] > 0)
  <2>1. m \in Marker /\ pc \in [Marker -> Place] /\ pc[Main] \notin {"idle", "enter"}
    BY Zenon DEF RoundInv, TypeOK, CountOK
  <2> QED
    BY Zenon, <2>1 DEF Participant
<1>2. ASSUME pc' = pc, UNCHANGED gate, pc[m] \notin SyncPlace \cup {"release", "done"}
      PROVE  Stays(m)
  <2>1. PICK p \in Place : p = pc[m]
    BY Zenon, <1>1
  <2>2. pc' = [pc EXCEPT ![m] = p]
    BY ZenonT(30), <1>1, <1>2, <2>1
  <2>3. /\ pc[m] \notin SyncPlace /\ p \notin {"idle", "enter"}
        /\ p \in {"release", "done"} => m = Main \/ syncs[m] > 0
        /\ \A Q \in Rounds : pc[m] \in Q => p \in Q
    BY ZenonT(30), <1>1, <1>2, <2>1
  <2> QED
    BY <1>2, <2>2, <2>3, MoveStays, ZenonT(30)
<1>3. ASSUME NEW q \in Place, pc' = [pc EXCEPT ![m] = q], UNCHANGED gate, q \notin {"idle", "enter", "release"},
             q = "done" => m = Main \/ syncs[m] > 0, NEW Q \in Rounds, pc[m] \in Q, q \in Q,
             pc[m] \notin SyncPlace
      PROVE  Stays(m)
  <2>1. q \in {"release", "done"} => m = Main \/ syncs[m] > 0
    BY Zenon, <1>3
  <2>2. \A R \in Rounds : pc[m] \in R => q \in R
    BY Zenon, <1>3, RoundsApart
  <2> QED
    BY <1>3, <2>1, <2>2, MoveStays, ZenonT(30)
<1>4. CASE MarkObject(m) \/ MarkDeferred(m) \/ ProcessPending(m) \/ PopDeferred(m)
  <2>1. pc[m] \notin SyncPlace \cup {"release", "done"}
    <3>1. slots[m] # {} \/ scanned[m] # {} \/ todo[m] # {} \/ pc[m] \in {"early", "late"}
      BY Zenon, <1>4 DEF MarkObject, MarkDeferred, ProcessPending, PopDeferred
    <3> QED
      BY Zenon, <1>1, <3>1 DEF RoundInv, ScanOK, SyncPlace
  <2>2. pc' = pc /\ UNCHANGED gate
    BY Zenon, <1>4 DEF MarkObject, MarkDeferred, ProcessPending, PopDeferred, barrier, gate
  <2> QED
    BY ZenonT(30), <1>2, <2>1, <2>2
<1>5. CASE Count(m) \/ IterateRoots(m) \/ Drain(m) \/ DrainNull(m) \/ PendingDone(m) \/ WaitForWork(m) \/ WakeUp(m)
  <2>1. UNCHANGED gate
    BY Zenon, <1>5 DEF Count, IterateRoots, Drain, Visit, DrainNull, PendingDone, WaitForWork, WakeUp, barrier, gate
  <2>2. pc[m] \in Marking /\ pc[m] \notin SyncPlace /\ Marking \in Rounds
    BY Zenon, <1>5 DEF Count, IterateRoots, Drain, Visit, DrainNull, PendingDone, WaitForWork, WakeUp, SyncPlace, Marking, Busy, Rounds
  <2>3. \E q \in {"roots", "early", "drain", "again", "work", "pendingFirst", "pending", "first", "wait", "stop"} :
          pc' = [pc EXCEPT ![m] = q]
    <3>1. CASE Count(m) \/ IterateRoots(m)
      <4>1. pc' = [pc EXCEPT ![m] = "roots"] \/ pc' = [pc EXCEPT ![m] = "early"]
        BY Zenon, <1>1, <3>1 DEF Count, IterateRoots, Move
      <4> QED
        BY ZenonT(30), <4>1
    <3>2. CASE Drain(m) \/ DrainNull(m) \/ PendingDone(m)
      BY Zenon, <3>2 DEF Drain, Visit, DrainNull, PendingDone, Move
    <3>3. CASE WaitForWork(m) \/ WakeUp(m)
      BY Zenon, <3>3 DEF WaitForWork, WakeUp, TakeOrWait, Move
    <3> QED
      BY ZenonT(30), <1>5, <3>1, <3>2, <3>3
  <2>4. PICK q \in {"roots", "early", "drain", "again", "work", "pendingFirst", "pending", "first", "wait", "stop"} :
          pc' = [pc EXCEPT ![m] = q]
    BY Zenon, <2>3
  <2>5. q \in Place /\ q \notin {"idle", "enter", "release"} /\ q # "done" /\ q \in Marking
    BY ZenonT(30) DEF Place, Marking, Busy
  <2> QED
    BY Zenon, <1>3, <2>1, <2>2, <2>4, <2>5
<1>6. CASE DeferredDone(m)
  <2>1. CASE pc[m] = "early"
    <3>1. pc' = [pc EXCEPT ![m] = "first"] /\ UNCHANGED gate
      BY Zenon, <1>6, <2>1 DEF DeferredDone, Move, barrier, gate
    <3>2. "early" \in Marking /\ "first" \in Marking /\ Marking \in Rounds /\ "early" \notin SyncPlace /\ "first" \in Place
      BY Zenon DEF Marking, Busy, Rounds, SyncPlace, Place
    <3> QED
      BY Zenon, <1>3, <2>1, <3>1, <3>2
  <2>2. CASE pc[m] = "late"
    <3>1. pc' = [pc EXCEPT ![m] = "deferredDone"] /\ UNCHANGED gate
      BY Zenon, <1>6, <2>2 DEF DeferredDone, Move, barrier, gate
    <3>2. "late" \in Deferring /\ "deferredDone" \in Deferring /\ Deferring \in Rounds /\ "late" \notin SyncPlace
          /\ "deferredDone" \in Place
      BY Zenon DEF Deferring, Rounds, SyncPlace, Place
    <3> QED
      BY Zenon, <1>3, <2>2, <3>1, <3>2
  <2> QED
    BY ZenonT(30), <1>6, <2>1, <2>2 DEF DeferredDone
<1>7. CASE AssertNotBusy(m)
  <2>1. pc[m] = "assert" /\ pc' = [pc EXCEPT ![m] = "debug"] /\ UNCHANGED gate
    BY Zenon, <1>7 DEF AssertNotBusy, Move, barrier, gate
  <2>2. "assert" \in Checking /\ "debug" \in Checking /\ Checking \in Rounds /\ "assert" \notin SyncPlace /\ "debug" \in Place
    BY Zenon DEF Checking, Rounds, SyncPlace, Place
  <2> QED
    BY ZenonT(30), <1>3, <2>1, <2>2
<1>8. CASE Vote(m)
  <2>1. pc[m] = "weak" /\ pc' = [pc EXCEPT ![m] = "voted"] /\ UNCHANGED gate
    BY Zenon, <1>8 DEF Vote, Move, barrier, gate
  <2>2. "weak" \in Weakening /\ "voted" \in Weakening /\ Weakening \in Rounds /\ "weak" \notin SyncPlace /\ "voted" \in Place
    BY Zenon DEF Weakening, Rounds, SyncPlace, Place
  <2> QED
    BY Zenon, <1>3, <2>1, <2>2
<1>9. CASE Decide(m)
  <2>1. pc[m] = "decide" /\ pc' = [pc EXCEPT ![m] = "decided"] /\ UNCHANGED gate
    BY Zenon, <1>9 DEF Decide, Move, barrier, gate
  <2>2. "decide" \in Deciding /\ "decided" \in Deciding /\ Deciding \in Rounds /\ "decide" \notin SyncPlace /\ "decided" \in Place
    BY Zenon DEF Deciding, Rounds, SyncPlace, Place
  <2> QED
    BY ZenonT(30), <1>3, <2>1, <2>2
<1>10. CASE Mourn(m)
  <2>1. pc[m] = "mourn" /\ pc' = [pc EXCEPT ![m] = "exit"] /\ UNCHANGED gate
    BY Zenon, <1>10 DEF Mourn, Move, barrier, gate
  <2>2. "mourn" \in Mourning /\ "exit" \in Mourning /\ Mourning \in Rounds /\ "mourn" \notin SyncPlace /\ "exit" \in Place
    BY Zenon DEF Mourning, Rounds, SyncPlace, Place
  <2> QED
    BY Zenon, <1>3, <2>1, <2>2
<1>11. CASE Release(m)
  <2>1. PICK q \in {"finalize", "done"} : pc[m] = "release" /\ pc' = [pc EXCEPT ![m] = q] /\ UNCHANGED gate
    BY Zenon, <1>11 DEF Release, Move, gate
  <2>2. "release" \in Leaving /\ q \in Leaving /\ Leaving \in Rounds /\ "release" \notin SyncPlace /\ q \in Place
    BY Zenon DEF Leaving, Rounds, SyncPlace, Place
  <2> QED
    BY Zenon, <1>1, <1>3, <2>1, <2>2
<1> QED
  BY <1>4, <1>5, <1>6, <1>7, <1>8, <1>9, <1>10, <1>11, ZenonT(30) DEF Step

\* Each marker is where it was, and holds the weak properties it held.
Rests ==
    /\ Participant' = Participant /\ marked' = marked
    /\ \A n \in Participant : /\ Now(n)' = Now(n) /\ (NowMore(n)' <=> NowMore(n))
                              /\ NowDelayed(n)' = NowDelayed(n)

\* A step that moves nobody keeps what is said of the rounds.
LEMMA RestsMark ==
  ASSUME Rests
  PROVE  (Over' <=> Over) /\ (WeakOK => WeakOK') /\ (Final => Final')
<1>1. Now(Main)' = Now(Main)
  BY Zenon, Participants DEF Rests
<1>2. Over' <=> Over
  BY Zenon, <1>1 DEF Over
<1>3. ASSUME WeakOK PROVE WeakOK'
  <2>1. CASE Now(Main) \notin Weakish
    BY Zenon, <1>1, <2>1 DEF WeakOK
  <2>2. CASE \E m \in Participant : Now(m) \in Weakening \cup Deciding /\ NowMore(m)
    BY <2>2, Zenon DEF WeakOK, Rests
  <2>3. CASE \A m \in Participant : \A p \in NowDelayed(m) : Key[p] \notin marked
    <3>1. \A m \in Participant' : \A p \in NowDelayed(m)' : Key[p] \notin marked'
      BY <2>3, Zenon DEF Rests
    <3> QED
      BY <3>1, Zenon DEF WeakOK
  <2> QED
    BY <1>3, <2>1, <2>2, <2>3, ZenonT(30) DEF WeakOK
<1>4. ASSUME Final PROVE Final'
  <2>1. marked' = Alive
    BY Zenon, <1>4 DEF Final, Rests
  <2>2. \A m \in Participant' : \A p \in NowDelayed(m)' : Key[p] \notin marked'
    BY <1>4, Zenon DEF Final, Rests
  <2>3. \A m \in Participant' : Now(m)' # "mourn" => NowDelayed(m)' = {}
    BY <1>4, Zenon DEF Final, Rests
  <2> QED
    BY ZenonT(30), <2>1, <2>2, <2>3 DEF Final
<1> QED
  BY ZenonT(30), <1>2, <1>3, <1>4

\* The round of the main thread is everybody's.
LEMMA MainRound ==
  ASSUME RoundInv
  PROVE  \E Q \in Rounds : Now(Main) \in Q /\ \A n \in Participant : Now(n) \in Q
BY Zenon, Participants DEF RoundInv, SameRound

\* The places of a round are all before, in or after the weak ones.
LEMMA RoundKinds ==
  ASSUME NEW Q \in Rounds, NEW p \in Q, NEW q \in Q
  PROVE  /\ p \in Weakish <=> q \in Weakish
         /\ p \in Mourning \cup Leaving <=> q \in Mourning \cup Leaving
         /\ ~(p \in Weakish /\ p \in Mourning \cup Leaving)
BY ZenonT(30) DEF Rounds, Weakish, Marking, Busy, Checking, Weakening, Deciding, Deferring, Mourning, Leaving

\* If marker m goes on in its round, the round goes on.
LEMMA StaysRound ==
  ASSUME RoundInv, NEW m \in Participant, Stays(m)
  PROVE  /\ Over' <=> Over
         /\ Over <=> pc[m] \in Mourning \cup Leaving
         /\ Now(Main)' \in Weakish <=> Now(Main) \in Weakish
         /\ Now(Main) \in Weakish <=> pc[m] \in Weakish
<1>1. PICK Q \in Rounds : Now(Main) \in Q /\ \A n \in Participant : Now(n) \in Q
  BY Zenon, MainRound
<1>2. pc[m] \in Q
  BY Zenon, <1>1 DEF Stays
<1>3. Now(Main)' \in Q
  <2>1. CASE m = Main
    BY ZenonT(30), <1>1, <1>2, <2>1 DEF Stays
  <2>2. CASE m # Main
    BY ZenonT(30), <1>1, <2>2, Participants DEF Stays, Alone
  <2> QED
    BY Zenon, <2>1, <2>2
<1>4. /\ Now(Main)' \in Weakish <=> Now(Main) \in Weakish
      /\ Now(Main)' \in Mourning \cup Leaving <=> Now(Main) \in Mourning \cup Leaving
  BY ZenonT(30), <1>1, <1>3, RoundKinds
<1>5. /\ Now(Main) \in Weakish <=> pc[m] \in Weakish
      /\ Now(Main) \in Mourning \cup Leaving <=> pc[m] \in Mourning \cup Leaving
  BY ZenonT(30), <1>1, <1>2, RoundKinds
<1> QED
  BY <1>4, <1>5, Zenon DEF Over

\* What a step of m in such a round must show.
LEMMA WeakStep ==
  ASSUME RoundInv, WeakOK, TypeOK', NEW m \in Participant, Stays(m), pc[m] \in Weakish,
         marked \subseteq marked',
         pc[m] \in Weakening \cup Deciding /\ more[m] => more'[m],
         marked' \ marked \subseteq Instructions \/ (pc[m] \in Weakening \cup Deciding /\ more'[m]),
         \A p \in delayed'[m] : p \in delayed[m] \/ Key[p] \notin marked'
  PROVE  WeakOK'
<1> DEFINE Goes == pc[m] \in Weakening \cup Deciding /\ more'[m]
<1>1. Participant' = Participant
  BY Zenon DEF Stays, Alone
<1>2. ASSUME Goes PROVE WeakOK'
  <2>1. pc'[m] \in Weakening \cup Deciding
    BY ZenonT(30), <1>2 DEF Stays, Rounds
  <2>2. Now(m)' \in Weakening \cup Deciding /\ NowMore(m)'
    BY Zenon, <1>2, <2>1 DEF Stays
  <2> QED
    BY <1>1, <2>2, Zenon DEF WeakOK
<1>3. ASSUME NEW n \in Participant \ {m}
      PROVE  /\ Now(n)' = Now(n) /\ (NowMore(n)' <=> NowMore(n)) /\ NowDelayed(n)' = NowDelayed(n)
  BY ZenonT(30), AloneOthers DEF Stays, Alone
<1>4. CASE \E n \in Participant : Now(n) \in Weakening \cup Deciding /\ NowMore(n)
  <2>1. PICK n \in Participant : Now(n) \in Weakening \cup Deciding /\ NowMore(n)
    BY ZenonT(30), <1>4
  <2>2. CASE n = m
    BY ZenonT(30), <1>2, <2>1, <2>2 DEF Stays
  <2>3. CASE n # m
    BY <1>1, <1>3, <2>1, <2>3, ZenonT(30) DEF WeakOK
  <2> QED
    BY Zenon, <2>2, <2>3
<1>5. CASE \A n \in Participant : \A p \in NowDelayed(n) : Key[p] \notin marked
  <2>1. SUFFICES ASSUME ~Goes PROVE WeakOK'
    BY Zenon, <1>2
  <2>2. \A p \in WeakProperty : Key[p] \notin marked => Key[p] \notin marked'
    BY Zenon, <2>1, ParallelMarkAssumption
  <2>3. ASSUME NEW n \in Participant, NEW p \in NowDelayed(n)'
        PROVE  Key[p] \notin marked'
    <3>1. CASE n = m
      <4>1. p \in delayed'[m] /\ NowDelayed(m) = delayed[m] /\ delayed[m] \subseteq WeakProperty
        BY ZenonT(30), <2>3, <3>1, Participants DEF Stays, RoundInv, TypeOK
      <4> QED
        BY ZenonT(30), <1>5, <2>2, <4>1
    <3>2. CASE n # m
      <4>1. p \in NowDelayed(n)
        BY ZenonT(30), <1>3, <2>3, <3>2
      <4>2. p \in WeakProperty
        BY ZenonT(30), <4>1, Participants DEF NowDelayed, RoundInv, TypeOK
      <4> QED
        BY ZenonT(30), <1>5, <2>2, <4>1, <4>2
    <3> QED
      BY ZenonT(30), <3>1, <3>2
  <2> QED
    BY <1>1, <2>3, Zenon DEF WeakOK
<1>6. Now(Main) \in Weakish
  BY Zenon, StaysRound
<1> QED
  BY <1>4, <1>5, <1>6, ZenonT(30) DEF WeakOK

\* While weak properties are processed, what becomes marked keeps the rounds going.
LEMMA StayWeak ==
  ASSUME RoundInv, WorkInv, WeakOK, TypeOK', NEW m \in Participant, Step(m) \/ WakeUp(m),
         ~Sync(m), ~SyncReturns(m)
  PROVE  WeakOK'
<1>1. Stays(m) /\ m \in Marker /\ marked \subseteq marked' /\ seen[m] = -1
  BY Zenon, StepStays, StepKeeps, Participants DEF Stays
<1>2. CASE pc[m] \notin Weakish
  <2>1. Now(Main)' \notin Weakish
    BY ZenonT(30), <1>1, <1>2, StaysRound
  <2> QED
    BY ZenonT(30), <2>1 DEF WeakOK
<1>3. ASSUME pc[m] \in Weakish, marked' \ marked \subseteq Instructions,
             more[m] => more'[m], \A p \in delayed'[m] : p \in delayed[m] \/ Key[p] \notin marked'
      PROVE  WeakOK'
  BY ZenonT(30), <1>1, <1>3, WeakStep
<1>4. CASE pc[m] \in Weakish /\ MarkObject(m)
  <2>1. slots[m] # {} /\ more' = more /\ delayed' = delayed
    BY ZenonT(30), <1>4 DEF MarkObject, weak
  <2>2. WorkAt(m, pc[m], more[m])
    BY Zenon, <1>1, HereWork
  <2>3. pc[m] = "weak"
    <3>1. pc[m] \in {"weak", "late"}
      BY ZenonT(30), <1>1, <1>4, <2>1 DEF RoundInv, ScanOK, Weakish, Weakening, Deciding, Deferring
    <3> QED
      BY ZenonT(30), <2>1, <2>2, <3>1 DEF WorkAt, NoWork
  <2>4. CASE more[m]
    BY ZenonT(30), <1>1, <1>4, <2>1, <2>3, <2>4, WeakStep DEF Weakening
  <2>5. CASE ~more[m]
    <3>1. slots[m] \subseteq marked
      BY ZenonT(30), <2>2, <2>3, <2>5 DEF WorkAt
    <3>2. marked' = marked
      BY Zenon, <1>4, <3>1 DEF MarkObject
    <3> QED
      BY ZenonT(30), <1>3, <1>4, <2>1, <3>2
  <2> QED
    BY Zenon, <2>4, <2>5
<1>5. CASE pc[m] \in Weakish /\ MarkDeferred(m)
  <2>1. marked' = marked \cup scanned[m] /\ more' = more /\ delayed' = delayed /\ scanned[m] # {}
    BY ZenonT(30), <1>5 DEF MarkDeferred, weak
  <2>2. Now(m) \in Deferring
    BY ZenonT(30), <1>1, <1>5, <2>1 DEF RoundInv, ScanOK, Weakish, Weakening, Deciding, Deferring, Stays
  <2>3. scanned[m] \subseteq Instructions
    BY Zenon, <2>2, LateDeferred
  <2> QED
    BY ZenonT(30), <1>3, <1>5, <2>1, <2>3
<1>6. CASE pc[m] \in Weakish /\ ProcessPending(m)
  <2>1. marked' = marked /\ more \in [Marker -> BOOLEAN] /\ delayed \in [Marker -> SUBSET WeakProperty]
    BY Zenon, <1>6 DEF ProcessPending, RoundInv, TypeOK
  <2>2. more[m] => more'[m]
    BY <1>1, <1>6, <2>1, ZenonT(30) DEF ProcessPending
  <2>3. \A p \in delayed'[m] : p \in delayed[m] \/ Key[p] \notin marked'
    BY <1>1, <1>6, <2>1 DEF ProcessPending
  <2> QED
    BY ZenonT(30), <1>3, <1>6, <2>1, <2>2, <2>3
<1>7. CASE pc[m] \in Weakish /\ (PopDeferred(m) \/ DeferredDone(m) \/ Vote(m))
  <2>1. more' = more /\ delayed' = delayed /\ marked' = marked
    BY Zenon, <1>7 DEF PopDeferred, DeferredDone, Vote, weak
  <2> QED
    BY Zenon, <1>3, <1>7, <2>1
<1>8. CASE pc[m] \in Weakish /\ Decide(m)
  <2>1. delayed' = delayed /\ marked' = marked /\ more \in [Marker -> BOOLEAN]
    BY ZenonT(30), <1>8 DEF Decide, RoundInv, TypeOK
  <2>2. more[m] => more'[m]
    BY <1>1, <1>8, <2>1, ZenonT(30) DEF Decide
  <2> QED
    BY Zenon, <1>3, <1>8, <2>1, <2>2
<1>9. ASSUME pc[m] \in Weakish
      PROVE  /\ ~Count(m) /\ ~IterateRoots(m) /\ ~Drain(m) /\ ~DrainNull(m) /\ ~PendingDone(m)
             /\ ~WaitForWork(m) /\ ~WakeUp(m) /\ ~AssertNotBusy(m) /\ ~Mourn(m) /\ ~Release(m)
  BY ZenonT(30), <1>9 DEF Count, IterateRoots, Drain, DrainNull, PendingDone, WaitForWork, WakeUp, AssertNotBusy, Mourn,
     Release, Weakish, Weakening, Deciding, Deferring
<1> QED
  BY <1>2, <1>4, <1>5, <1>6, <1>7, <1>8, <1>9, ZenonT(30) DEF Step

\* What the barrier hands on when the last marker calls Sync.
LEMMA SyncDelayed ==
  ASSUME RoundInv, NEW m \in Participant, Sync(m), remaining = 1, NEW n \in Participant
  PROVE  /\ AfterSync(n) # "weak" => NowDelayed(n)' = delayed[n] /\ NowDelayed(n) = delayed[n]
         /\ AfterSync(n) = "weak" => NowDelayed(n)' = {}
<1>1. /\ ~Freed(m)' /\ ~Freed(n)
      /\ n # m => Freed(n)' /\ AfterSync(n)' = AfterSync(n)
  BY Zenon, SyncNow
<1>2. NowDelayed(n) = delayed[n]
  BY ZenonT(30), <1>1 DEF NowDelayed, ToWeak
<1>3. CASE n # m
  <2>1. delayed'[n] = delayed[n]
    <3>1. Step(m) /\ m \in Marker /\ n \in Marker \ {m}
      BY ZenonT(30), <1>3, Participants DEF Step
    <3> QED
      BY Zenon, <3>1, StepKeeps DEF Kept
  <2> QED
    BY ZenonT(30), <1>1, <1>2, <1>3, <2>1 DEF NowDelayed, ToWeak
<1>4. CASE n = m
  <2>1. Passed(m) /\ m \in Marker /\ delayed \in [Marker -> SUBSET WeakProperty]
    BY Zenon, Participants DEF Sync, RoundInv, TypeOK
  <2>2. AfterSync(m) # "weak" => delayed' = delayed
    BY Zenon, <2>1 DEF Passed
  <2>3. AfterSync(m) = "weak" => delayed'[m] = {}
    BY Zenon, <2>1 DEF Passed
  <2>4. NowDelayed(m)' = delayed'[m]
    BY ZenonT(30), <1>1 DEF NowDelayed, ToWeak
  <2> QED
    BY ZenonT(30), <1>2, <1>4, <2>2, <2>3, <2>4
<1> QED
  BY Zenon, <1>3, <1>4

\* A Sync passes: more weak properties, the deferred objects or the work again.
LEMMA SyncPassesWeak ==
  ASSUME RoundInv, WeakOK, NEW m \in Participant, Sync(m), remaining = 1,
         pc[m] \notin {"deferredDone", "exit"}
  PROVE  WeakOK' /\ ~Over'
<1> USE Participants
<1>1. /\ Participant' = Participant /\ pc[m] \in SyncPlace
      /\ \A n \in Participant : /\ pc[n] = pc[m] /\ Now(n) = pc[m] /\ ~Freed(n)
                                /\ Now(n)' = AfterSync(n)
                                /\ NowMore(n)' <=> more[n] /\ AfterSync(n) # "weak"
  BY SyncNow, Zenon
<1>2. marked' = marked
  BY Zenon DEF Sync
<1>3. \A n \in Participant : /\ AfterSync(n) # "weak" => NowDelayed(n)' = delayed[n] /\ NowDelayed(n) = delayed[n]
                             /\ AfterSync(n) = "weak" => NowDelayed(n)' = {}
  BY SyncDelayed, Zenon
<1>4. \A n \in Participant :
        /\ pc[n] = "stop" => AfterSync(n) = IF Debug THEN "assert" ELSE "weak"
        /\ pc[n] = "debug" => AfterSync(n) = "weak"
        /\ pc[n] = "voted" => AfterSync(n) = "decide"
        /\ pc[n] = "decided" => AfterSync(n) = IF more[n] THEN "first" ELSE "late"
  BY Zenon, <1>1, AfterSyncIs
<1>5. Now(Main)' = AfterSync(Main) /\ pc[Main] = pc[m]
  BY Zenon, <1>1
<1>6. ~Over'
  <2>1. AfterSync(Main) \in {"assert", "weak", "decide", "first", "late"}
    BY ZenonT(30), <1>1, <1>4, <1>5 DEF SyncPlace
  <2> QED
    BY Zenon, <1>5, <2>1 DEF Over, Mourning, Leaving
<1> SUFFICES WeakOK'
  BY Zenon, <1>6
<1>7. CASE pc[m] \in {"stop", "debug"}
  <2>1. CASE AfterSync(Main) = "assert"
    BY Zenon, <1>5, <2>1 DEF WeakOK, Weakish, Weakening, Deciding, Deferring
  <2>2. CASE AfterSync(Main) # "assert"
    <3>1. \A n \in Participant : AfterSync(n) = "weak"
      BY ZenonT(30), <1>1, <1>4, <1>5, <1>7, <2>2
    <3>2. \A n \in Participant' : \A p \in NowDelayed(n)' : Key[p] \notin marked'
      BY ZenonT(30), <1>1, <1>3, <3>1
    <3> QED
      BY <3>2, ZenonT(30) DEF WeakOK
  <2> QED
    BY ZenonT(30), <2>1, <2>2
<1>8. CASE pc[m] = "voted"
  <2>1. \A n \in Participant : AfterSync(n) = "decide" /\ Now(n)' = "decide" /\ (NowMore(n)' <=> more[n])
    BY ZenonT(30), <1>1, <1>4, <1>8
  <2>2. CASE \E n \in Participant : Now(n) \in Weakening \cup Deciding /\ NowMore(n)
    <3>1. PICK n \in Participant : more[n]
      BY ZenonT(30), <2>2 DEF NowMore
    <3>2. Now(n)' \in Weakening \cup Deciding /\ NowMore(n)'
      BY ZenonT(30), <2>1, <3>1 DEF Deciding
    <3> QED
      BY <1>1, <3>2, Zenon DEF WeakOK
  <2>3. CASE \A n \in Participant : \A p \in NowDelayed(n) : Key[p] \notin marked
    <3>1. \A n \in Participant' : \A p \in NowDelayed(n)' : Key[p] \notin marked'
      BY <1>1, <1>2, <1>3, <2>1, <2>3
    <3> QED
      BY <3>1, Zenon DEF WeakOK
  <2>4. Now(Main) \in Weakish
    BY Zenon, <1>1, <1>8 DEF Weakish, Weakening
  <2> QED
    BY <2>2, <2>3, <2>4, ZenonT(30) DEF WeakOK
<1>9. CASE pc[m] = "decided"
  <2>1. CASE \E n \in Participant : more[n]
    <3>1. PICK n \in Participant : more[n]
      BY ZenonT(30), <2>1
    <3>2. n \in BusyOnes /\ BusyOnes \in SUBSET Marker
      BY ZenonT(30), <1>1, <1>9, <3>1 DEF BusyOnes, IsBusy
    <3>3. num_busy # 0
      BY ZenonT(30), <3>2, Counts DEF RoundInv, CountOK
    <3>4. more[Main]
      BY ZenonT(30), <1>1, <1>9, <3>3 DEF RoundInv, SameRound
    <3>5. Now(Main)' = "first"
      BY ZenonT(30), <1>4, <1>5, <1>9, <3>4
    <3> QED
      BY Zenon, <3>5 DEF WeakOK, Weakish, Weakening, Deciding, Deferring
  <2>2. CASE \A n \in Participant : ~more[n]
    <3>1. \A n \in Participant : ~NowMore(n) /\ AfterSync(n) = "late"
      BY ZenonT(30), <1>1, <1>4, <1>9, <2>2 DEF NowMore
    <3>2. \A n \in Participant : \A p \in NowDelayed(n) : Key[p] \notin marked
      BY ZenonT(30), <1>1, <1>9, <3>1 DEF WeakOK, Weakish, Deciding
    <3>3. \A n \in Participant' : \A p \in NowDelayed(n)' : Key[p] \notin marked'
      BY <1>1, <1>2, <1>3, <3>1, <3>2
    <3> QED
      BY <3>3, Zenon DEF WeakOK
  <2> QED
    BY Zenon, <2>1, <2>2
<1> QED
  BY ZenonT(30), <1>1, <1>7, <1>8, <1>9 DEF SyncPlace

\* Where nothing is left to do all that is alive is marked.
LEMMA NothingLeft ==
  ASSUME RoundInv, OnlyAlive, AllAlive, started = DOMAIN RootSlice, global_list = {},
         stack = {}, deferredStack = {},
         \A n \in Marker : /\ input[n] = {} /\ output[n] = {} /\ slots[n] = {}
                           /\ scanned[n] = {} /\ deferred[n] = {} /\ todo[n] = {}
                           /\ \A p \in delayed[n] : Key[p] \notin marked
  PROVE  marked = Alive
<1>1. \A n \in Marker : Soon(n) = {} /\ Mine(n) = delayed[n]
  BY Zenon DEF Soon, Mine
<1>2. \A o : Reached(o) <=> o \in marked
  BY Zenon, <1>1 DEF Reached
<1>3. \A o : Black(o) => Pointers[o] \subseteq marked
  BY Zenon, <1>2 DEF Black
<1>4. \A o \in marked : Pointers[o] \subseteq marked \/ (o \in WeakProperty /\ Key[o] \notin marked)
  <2>1. TAKE o \in marked
  <2>2. CASE Black(o)
    BY ZenonT(30), <1>3, <2>2
  <2>3. ASSUME NEW n \in Marker, o \in Mine(n)
        PROVE  o \in WeakProperty /\ Key[o] \notin marked
    BY <1>1, <2>3 DEF RoundInv, TypeOK
  <2> QED
    BY ZenonT(30), <2>2, <2>3 DEF AllAlive
<1>5. Closed(marked)
  <2>1. LeftMarked \subseteq marked
    BY ZenonT(30) DEF OnlyAlive
  <2>2. UNION {RootSlice[s] : s \in DOMAIN RootSlice} \subseteq marked
    BY <1>2 DEF AllAlive
  <2>3. \A n \in Marker : \A o \in LeftDeferred[n] : {o} \cup Pointers[o] \subseteq marked
    <3>1. ASSUME NEW n \in Marker, NEW o \in LeftDeferred[n]
          PROVE  Reached(o) /\ Black(o)
      BY Zenon, <3>1 DEF AllAlive
    <3> QED
      BY Zenon, <1>2, <1>3, <3>1
  <2>4. \A o \in marked \ WeakProperty : Pointers[o] \subseteq marked
    BY Zenon, <1>4
  <2>5. \A p \in marked \cap WeakProperty : Key[p] \in marked => Pointers[p] \subseteq marked
    BY Zenon, <1>4
  <2> QED
    BY ZenonT(30), <2>1, <2>2, <2>3, <2>4, <2>5 DEF Closed
<1>6. marked \in SUBSET Object
  BY Zenon DEF RoundInv, TypeOK
<1>7. Alive \subseteq marked
  BY Zenon, <1>5, <1>6 DEF Alive
<1>8. marked \subseteq Alive
  BY Zenon DEF OnlyAlive
<1> QED
  BY Zenon, <1>7, <1>8

\* Helpers that do not take part have nothing to scan.
LEMMA RestHolds ==
  ASSUME RoundInv, WorkInv, pc[Main] # "flush", NEW n \in Marker \ Participant
  PROVE  /\ NoWork(n) /\ scanned[n] = {} /\ deferred[n] = {} /\ todo[n] = {} /\ delayed[n] = {}
         /\ pc[n] \in {"enter", "release", "done"}
<1>1. pc[n] \in {"idle", "enter", "release", "done"} /\ n \in Marker
  BY Zenon, Inside
<1>2. n \in Helper
  BY Zenon, Participants DEF Marker
<1>3. pc[n] # "idle"
  BY ZenonT(30), <1>2 DEF WorkInv, RestOK
<1>4. input[n] = {} /\ deferred[n] = {} /\ delayed[n] = {} /\ output[n] = {}
  BY Zenon, <1>3 DEF WorkInv, RestOK
<1>5. slots[n] = {} /\ scanned[n] = {} /\ todo[n] = {}
  BY Zenon, <1>1 DEF RoundInv, ScanOK
<1> QED
  BY ZenonT(30), <1>1, <1>3, <1>4, <1>5 DEF NoWork

\* When the last marker has no deferred object left, the mark bits are final.
LEMMA FinalEnter ==
  ASSUME RoundInv, WorkInv, OnlyAlive, AllAlive, WeakOK, NEW m \in Participant, Sync(m), remaining = 1,
         pc[m] = "deferredDone"
  PROVE  Over' /\ Final'
<1> USE Participants
<1>1. /\ Participant' = Participant
      /\ \A n \in Participant : /\ pc[n] = "deferredDone" /\ Now(n) = "deferredDone" /\ ~Freed(n)
                                /\ Now(n)' = AfterSync(n)
  BY SyncNow, Zenon
<1>2. \A n \in Participant : AfterSync(n) = "mourn"
  BY Zenon, <1>1, AfterSyncIs DEF SyncPlace
<1>3. Over'
  BY Zenon, <1>1, <1>2 DEF Over, Mourning
<1>4. \A n \in Participant : /\ NowDelayed(n)' = delayed[n] /\ NowDelayed(n) = delayed[n]
  BY ZenonT(30), <1>2, SyncDelayed
<1>5. \A n \in Participant : \A p \in delayed[n] : Key[p] \notin marked
  <2>1. Now(Main) \in Weakish
    BY Zenon, <1>1 DEF Weakish, Deferring
  <2>2. \A n \in Participant : Now(n) \notin Weakening \cup Deciding
    BY Zenon, <1>1 DEF Weakening, Deciding
  <2> QED
    BY ZenonT(30), <1>4, <2>1, <2>2 DEF WeakOK
<1>6. \A n \in Participant : NoWork(n) /\ deferred[n] = {} /\ started = DOMAIN RootSlice /\ ~Looks(n)
  BY Zenon, <1>1 DEF WorkInv, WorkOK, WorkAt, DeferOK, DeferAt, Looks, LooksAt
<1>7. stack = {} /\ started = DOMAIN RootSlice
  BY Zenon, <1>6 DEF WorkInv
<1>8. pc[Main] # "flush" /\ global_list = {}
  BY ZenonT(30), <1>1 DEF WorkInv, RestOK
<1>9. deferredStack = {}
  BY Zenon, <1>1, LateDeferred DEF Deferring
<1>10. \A n \in Participant : scanned[n] = {} /\ todo[n] = {}
  BY ZenonT(30), <1>1 DEF RoundInv, ScanOK
<1>11. \A n \in Marker : /\ input[n] = {} /\ output[n] = {} /\ slots[n] = {}
                         /\ scanned[n] = {} /\ deferred[n] = {} /\ todo[n] = {}
                         /\ \A p \in delayed[n] : Key[p] \notin marked
  <2>1. ASSUME NEW n \in Participant
        PROVE  /\ input[n] = {} /\ output[n] = {} /\ slots[n] = {}
               /\ scanned[n] = {} /\ deferred[n] = {} /\ todo[n] = {}
               /\ \A p \in delayed[n] : Key[p] \notin marked
    BY ZenonT(30), <1>5, <1>6, <1>10 DEF NoWork
  <2>2. ASSUME NEW n \in Marker \ Participant
        PROVE  /\ input[n] = {} /\ output[n] = {} /\ slots[n] = {}
               /\ scanned[n] = {} /\ deferred[n] = {} /\ todo[n] = {}
               /\ \A p \in delayed[n] : Key[p] \notin marked
    BY ZenonT(30), <1>8, RestHolds DEF NoWork
  <2> QED
    BY ZenonT(30), <2>1, <2>2
<1>12. marked = Alive /\ marked' = marked
  BY ZenonT(30), <1>7, <1>8, <1>9, <1>11, NothingLeft DEF Sync
<1>13. /\ \A n \in Participant' : \A p \in NowDelayed(n)' : Key[p] \notin marked'
       /\ \A n \in Participant' : Now(n)' # "mourn" => NowDelayed(n)' = {}
  BY ZenonT(30), <1>1, <1>2, <1>4, <1>5, <1>12
<1> QED
  BY ZenonT(30), <1>3, <1>12, <1>13 DEF Final

\* Steps that move nobody: a Sync that waits ...
LEMMA SyncWaitsRests ==
  ASSUME RoundInv, NEW m \in Participant, Sync(m), remaining # 1
  PROVE  Rests
<1>1. /\ Participant' = Participant /\ more' = more
      /\ \A n \in Participant : /\ Now(n)' = Now(n) /\ (Freed(n)' <=> Freed(n))
                                /\ AfterSync(n)' = AfterSync(n)
  BY Zenon, SyncWaits
<1>2. marked' = marked /\ delayed' = delayed
  BY Zenon DEF Sync
<1>3. \A n \in Participant : ToWeak(n)' <=> ToWeak(n)
  BY ZenonT(30), <1>1 DEF ToWeak
<1> QED
  BY ZenonT(30), <1>1, <1>2, <1>3 DEF Rests, NowMore, NowDelayed

\* ... one that returns ...
LEMMA ReturnRests ==
  ASSUME RoundInv, NEW m \in Marker, SyncReturns(m)
  PROVE  Rests
<1>1. /\ m \in Participant /\ Alone(m)
      /\ Now(m)' = Now(m) /\ (NowMore(m)' <=> NowMore(m)) /\ NowDelayed(m)' = NowDelayed(m)
  BY Zenon, ReturnAlone
<1>2. marked' = marked
  BY Zenon DEF SyncReturns
<1>3. \A n \in Participant \ {m} : /\ Now(n)' = Now(n) /\ (NowMore(n)' <=> NowMore(n))
                                   /\ NowDelayed(n)' = NowDelayed(n)
  BY ZenonT(30), <1>1, <1>2, AloneOthers DEF Alone
<1> QED
  BY ZenonT(30), <1>1, <1>2, <1>3 DEF Rests, Alone

\* ... a task that did not enter the barrier ...
LEMMA OutsiderRests ==
  ASSUME RoundInv, NEW h \in Marker \ Participant, NEW q \in {"release", "done"},
         pc' = [pc EXCEPT ![h] = q], UNCHANGED <<gate, marked, weak>>
  PROVE  Rests
<1>1. more' = more /\ delayed' = delayed /\ marked' = marked
  BY Zenon DEF weak
<1>2. /\ Participant' = Participant
      /\ \A n \in Participant : /\ Now(n)' = Now(n) /\ (Freed(n)' <=> Freed(n))
                                /\ AfterSync(n)' = AfterSync(n)
  BY Zenon, <1>1, OutsiderFacts
<1>3. \A n \in Participant : ToWeak(n)' <=> ToWeak(n)
  BY Zenon, <1>2 DEF ToWeak
<1> QED
  BY ZenonT(30), <1>1, <1>2, <1>3 DEF Rests, NowMore, NowDelayed

\* ... and none at all.
LEMMA StutterRests ==
  ASSUME UNCHANGED vars
  PROVE  Rests
<1>1. Participant' = Participant /\ marked' = marked
  BY Zenon DEF vars, Participant
<1>2. \A n : /\ Now(n)' = Now(n) /\ (NowMore(n)' <=> NowMore(n)) /\ NowDelayed(n)' = NowDelayed(n)
  BY DEF vars, Now, NowMore, NowDelayed, ToWeak, Freed, AfterSync
<1> QED
  BY ZenonT(30), <1>1, <1>2 DEF Rests

\* A marker that does not take part gives back its reference.
LEMMA ReleaseRests ==
  ASSUME RoundInv, NEW m \in Marker \ Participant, Step(m) \/ WakeUp(m)
  PROVE  Rests
<1>1. pc[m] \in {"idle", "enter", "release", "done"}
  BY Zenon, Inside
<1>2. slots[m] = {} /\ scanned[m] = {} /\ todo[m] = {}
  BY Zenon, <1>1 DEF RoundInv, ScanOK
<1>3. /\ ~MarkObject(m) /\ ~MarkDeferred(m) /\ ~ProcessPending(m)
  BY Zenon, <1>2 DEF MarkObject, MarkDeferred, ProcessPending
<1>4. /\ ~Count(m) /\ ~IterateRoots(m) /\ ~PopDeferred(m) /\ ~DeferredDone(m) /\ ~Drain(m) /\ ~DrainNull(m)
      /\ ~PendingDone(m) /\ ~WaitForWork(m) /\ ~WakeUp(m)
  BY Zenon, <1>1 DEF Count, IterateRoots, PopDeferred, DeferredDone, Drain, DrainNull, PendingDone, WaitForWork, WakeUp
<1>5. ~Sync(m) /\ ~SyncReturns(m) /\ ~AssertNotBusy(m) /\ ~Vote(m) /\ ~Decide(m) /\ ~Mourn(m)
  BY Zenon, <1>1 DEF Sync, SyncReturns, AssertNotBusy, Vote, Decide, Mourn, SyncPlace
<1>6. Release(m)
  BY <1>3, <1>4, <1>5, ZenonT(30) DEF Step
<1>7. m # Main
  BY ZenonT(30), Participants
<1>8. pc' = [pc EXCEPT ![m] = "done"] /\ UNCHANGED <<gate, marked, weak>>
  BY Zenon, <1>6, <1>7 DEF Release, Move, gate
<1> QED
  BY ZenonT(30), <1>8, OutsiderRests

\* Once the marks are final, what is delayed is only cleared.
LEMMA FinalStay ==
  ASSUME RoundInv, Over, Final, TypeOK', NEW m \in Participant, Stays(m),
         marked' = Alive, delayed'[m] \subseteq delayed[m], pc'[m] # "mourn",
         delayed'[m] = {} \/ pc[m] # "mourn"
  PROVE  Over' /\ Final'
<1>1. Over' /\ Participant' = Participant
  BY Zenon, StaysRound DEF Stays, Alone
<1>2. marked = Alive /\ marked \subseteq marked'
  BY ZenonT(30) DEF Final
<1>3. \A n \in Participant \ {m} : Now(n)' = Now(n) /\ NowDelayed(n)' = NowDelayed(n)
  BY Zenon, <1>2, AloneOthers DEF Stays, Alone
<1>4. NowDelayed(m)' = {}
  BY ZenonT(30) DEF Stays, Final
<1>5. /\ \A n \in Participant' : \A p \in NowDelayed(n)' : Key[p] \notin marked'
      /\ \A n \in Participant' : Now(n)' # "mourn" => NowDelayed(n)' = {}
  BY ZenonT(30), <1>1, <1>2, <1>3, <1>4 DEF Final
<1> QED
  BY Zenon, <1>1, <1>5 DEF Final

\* Every step of a participant keeps final marks final.
LEMMA StepFinal ==
  ASSUME RoundInv, WorkInv, Over, Final, TypeOK', marked' = Alive, NEW m \in Participant, Step(m) \/ WakeUp(m)
  PROVE  Over' /\ Final'
<1> USE Participants
<1>1. CASE SyncReturns(m)
  BY ZenonT(30), <1>1, ReturnRests, RestsMark
<1>2. CASE Sync(m) /\ remaining # 1
  BY ZenonT(30), <1>2, SyncWaitsRests, RestsMark
<1>3. CASE Sync(m) /\ remaining = 1
  <2>1. /\ Participant' = Participant /\ pc[m] \in SyncPlace
        /\ \A n \in Participant : pc[n] = pc[m] /\ Now(n) = pc[m] /\ Now(n)' = AfterSync(n)
    BY <1>3, SyncNow, Zenon
  <2>2. pc[m] = "exit"
    BY ZenonT(30), <2>1 DEF Over, Mourning, Leaving, SyncPlace
  <2>3. \A n \in Participant : AfterSync(n) = "release"
    BY ZenonT(30), <2>1, <2>2, AfterSyncIs
  <2>4. \A n \in Participant : NowDelayed(n)' = {}
    <3>1. TAKE n \in Participant
    <3>2. NowDelayed(n)' = NowDelayed(n)
      BY ZenonT(30), <1>3, <2>3, SyncDelayed
    <3> QED
      BY ZenonT(30), <2>1, <2>2, <3>2 DEF Final
  <2>5. Over'
    BY Zenon, <2>1, <2>3 DEF Over, Leaving
  <2> QED
    BY ZenonT(30), <2>1, <2>4, <2>5 DEF Final
<1>4. CASE ~Sync(m) /\ ~SyncReturns(m)
  <2>1. Stays(m) /\ m \in Marker
    BY ZenonT(30), <1>4, StepStays
  <2>2. pc[m] \in Mourning \cup Leaving
    BY Zenon, <2>1, StaysRound
  <2>3. slots[m] = {} /\ scanned[m] = {} /\ todo[m] = {}
    BY Zenon, <2>2 DEF RoundInv, ScanOK, Mourning, Leaving
  <2>4. /\ ~MarkObject(m) /\ ~MarkDeferred(m) /\ ~ProcessPending(m)
    BY ZenonT(30), <2>3 DEF MarkObject, MarkDeferred, ProcessPending
  <2>5. /\ ~Count(m) /\ ~IterateRoots(m) /\ ~PopDeferred(m) /\ ~DeferredDone(m) /\ ~Drain(m) /\ ~DrainNull(m)
        /\ ~PendingDone(m) /\ ~WaitForWork(m) /\ ~WakeUp(m)
    BY ZenonT(30), <2>2 DEF Count, IterateRoots, PopDeferred, DeferredDone, Drain, DrainNull, PendingDone, WaitForWork, WakeUp,
       Mourning, Leaving
  <2>6. ~AssertNotBusy(m) /\ ~Vote(m) /\ ~Decide(m)
    BY Zenon, <2>2 DEF AssertNotBusy, Vote, Decide, Mourning, Leaving
  <2>7. Mourn(m) \/ Release(m)
    BY <1>4, <2>4, <2>5, <2>6, ZenonT(30) DEF Step
  <2>8. pc'[m] # "mourn" /\ delayed'[m] \subseteq delayed[m] /\ (delayed'[m] = {} \/ pc[m] # "mourn")
    BY ZenonT(30), <2>1, <2>7 DEF Mourn, Release, Move, weak, RoundInv, TypeOK
  <2> QED
    BY ZenonT(30), <2>1, <2>8, FinalStay
<1> QED
  BY ZenonT(30), <1>1, <1>2, <1>3, <1>4

-----------------------------------------------------------------------------

\* The main thread is not in the barrier when it starts or ends.
LEMMA MainHere ==
  ASSUME RoundInv, pc[Main] \in {"flush", "finalize", "done", "release"}
  PROVE  seen[Main] = -1 /\ ~Freed(Main) /\ Now(Main) = pc[Main]
<1>1. seen[Main] = -1
  BY Zenon, Outside, Participants DEF SyncPlace
<1> QED
  BY Zenon, <1>1 DEF Freed, Now

\* What incremental marking left satisfies the invariant.
LEMMA InitMark ==
  ASSUME Init
  PROVE  MarkInv
<1> USE Markers
<1>1. /\ marked = LeftMarked /\ stack = {} /\ deferredStack = {} /\ global_list = {} /\ started = {}
      /\ \A m \in Marker : /\ input[m] = LeftWork[m] /\ output[m] = {} /\ slots[m] = {} /\ scanned[m] = {}
                           /\ deferred[m] = LeftDeferred[m] /\ delayed[m] = LeftWeak[m] /\ todo[m] = {}
      /\ pc[Main] = "flush" /\ seen[Main] = -1
  BY Zenon DEF Init
<1>2. \A m \in Marker : Mine(m) = LeftWork[m] \cup LeftWeak[m] /\ Soon(m) = LeftDeferred[m]
  BY Zenon, <1>1 DEF Mine, Soon
<1>3. \A m \in Marker : LeftWork[m] \cup LeftWeak[m] \subseteq LeftMarked
  BY Zenon DEF LeftMarked
<1>4. \A m \in Marker : deferred[m] \cup scanned[m] \cup deferredStack \subseteq Late
  BY ZenonT(30), <1>1 DEF Late
<1>5. OnlyAlive
  BY ZenonT(30), <1>1, <1>2, <1>3, <1>4, AliveClosed DEF OnlyAlive
<1>6. Now(Main) = "flush"
  BY Zenon, <1>1 DEF Now, Freed
<1>7. ~Over /\ WeakOK
  BY ZenonT(30), <1>6 DEF Over, WeakOK, Weakish, Weakening, Deciding, Deferring, Mourning, Leaving
<1>8. AllAlive
  <2>1. \A o \in marked : \E m \in Marker : o \in Mine(m)
    BY Zenon, <1>1, <1>2 DEF LeftMarked
  <2>2. \A m \in Marker : \A o \in LeftDeferred[m] : \E n \in Marker : o \in deferred[n] \cup deferredStack
    BY Zenon, <1>1
  <2> QED
    BY ZenonT(30), <1>1, <2>1, <2>2 DEF AllAlive
<1> QED
  BY ZenonT(30), <1>5, <1>7, <1>8 DEF MarkInv

\* The steps of markers that are not in the rounds.
LEMMA AsideMark ==
  ASSUME RoundInv, NEW h \in Helper, TryEnter(h)
  PROVE  Rests \/ (~Over /\ ~Over' /\ WeakOK')
<1>1. CASE generation = 0
  <2>1. Now(Main)' = Now(Main) /\ Now(Main) \in Marking
    BY ZenonT(30), <1>1, EnterFacts, Participants DEF RoundInv, SameRound
  <2> QED
    BY ZenonT(30), <2>1 DEF Over, WeakOK, Weakish, Weakening, Deciding, Deferring, Mourning, Leaving, Marking, Busy
<1>2. CASE generation # 0
  <2>1. pc[h] = "enter" /\ h \in Marker /\ h # Main
    BY Zenon, Markers DEF TryEnter
  <2>2. h \in Marker \ Participant
    BY Zenon, <2>1 DEF Participant
  <2>3. pc' = [pc EXCEPT ![h] = "release"] /\ UNCHANGED <<gate, marked, weak>>
    BY Zenon, <1>2 DEF TryEnter, Move, gate
  <2> QED
    BY Zenon, <2>2, <2>3, OutsiderRests
<1> QED
  BY ZenonT(30), <1>1, <1>2

\* Visitors are flushed before marking is over.
LEMMA StartMark ==
  ASSUME RoundInv, StartMain \/ \E h \in Helper : StartTask(h)
  PROVE  ~Over /\ ~Over' /\ WeakOK'
<1>1. pc[Main] = "flush" /\ seen' = seen /\ generation' = generation
  BY ZenonT(30) DEF StartMain, StartTask, barrier
<1>2. Now(Main) = "flush" /\ seen[Main] = -1
  BY ZenonT(30), <1>1, MainHere
<1>3. pc'[Main] \in {"flush", "count"}
  <2>1. pc \in [Marker -> Place] /\ Main \in Marker /\ \A h \in Helper : h # Main
    BY Zenon, Markers DEF RoundInv, TypeOK
  <2>2. CASE StartMain
    BY ZenonT(30), <2>1, <2>2 DEF StartMain, Move
  <2>3. ASSUME NEW h \in Helper, StartTask(h) PROVE pc'[Main] = "flush"
    BY ZenonT(30), <1>1, <2>1, <2>3 DEF StartTask, Move
  <2> QED
    BY ZenonT(30), <2>2, <2>3
<1>4. Now(Main)' \in {"flush", "count"}
  BY ZenonT(30), <1>1, <1>2, <1>3 DEF Now, Freed
<1> QED
  BY ZenonT(30), <1>2, <1>4 DEF Over, WeakOK, Weakish, Weakening, Deciding, Deferring, Mourning, Leaving

\* Finalize leaves the marks alone.
LEMMA FinalizeMark ==
  ASSUME RoundInv, TypeOK', Finalize
  PROVE  Over /\ Stays(Main) /\ delayed'[Main] = delayed[Main] /\ pc'[Main] # "mourn" /\ pc[Main] # "mourn"
<1>1. pc[Main] = "finalize" /\ pc' = [pc EXCEPT ![Main] = "done"]
      /\ UNCHANGED <<gate, slots, blocks, later, weak>>
  BY ZenonT(30) DEF Finalize, Move, gate, barrier
<1>2. seen[Main] = -1 /\ Now(Main) = "finalize"
  BY Zenon, <1>1, MainHere
<1>3. Kept(Main)
  BY Zenon, <1>1 DEF Kept, blocks, later, weak
<1>4. "done" \in Place /\ Main \in Participant
  BY ZenonT(30), Participants DEF Place
<1>5. /\ Alone(Main) /\ ~Freed(Main)'
      /\ Now(Main) = pc[Main] /\ Now(Main)' = "done" /\ pc'[Main] = "done"
      /\ (NowMore(Main) <=> more[Main]) /\ (NowMore(Main)' <=> more'[Main])
      /\ NowDelayed(Main) = delayed[Main] /\ NowDelayed(Main)' = delayed'[Main]
  BY ZenonT(30), <1>1, <1>2, <1>3, <1>4, MoveAlone
<1>6. \A Q \in Rounds : "finalize" \in Q => "done" \in Q
  BY DEF Rounds, Marking, Busy, Checking, Weakening, Deciding, Deferring, Mourning, Leaving
<1>7. Stays(Main)
  BY ZenonT(30), <1>1, <1>2, <1>5, <1>6 DEF Stays
<1> QED
  BY ZenonT(30), <1>1, <1>2, <1>5, <1>7 DEF Over, Leaving, weak

\* A marker that mourns shows that marking is over.
LEMMA MournIsOver ==
  ASSUME RoundInv, NEW m \in Participant, Now(m) \in Mourning \cup Leaving
  PROVE  Over
<1>1. PICK Q \in Rounds : Now(Main) \in Q /\ \A n \in Participant : Now(n) \in Q
  BY ZenonT(30), MainRound
<1> QED
  BY Zenon, <1>1, RoundKinds DEF Over

\* Every step of a participant before that.
LEMMA StepWeak ==
  ASSUME RoundInv, WorkInv, OnlyAlive, AllAlive, WeakOK, ~Over, TypeOK', NEW m \in Participant,
         Step(m) \/ WakeUp(m)
  PROVE  IF Over' THEN Final' ELSE WeakOK'
<1>1. CASE SyncReturns(m)
  BY ZenonT(30), <1>1, ReturnRests, RestsMark, Participants
<1>2. CASE Sync(m) /\ remaining # 1
  BY ZenonT(30), <1>2, SyncWaitsRests, RestsMark
<1>3. CASE Sync(m) /\ remaining = 1
  <2>1. pc[m] # "exit"
    <3>1. Now(m) = pc[m]
      BY <1>3, SyncNow, ZenonT(30)
    <3> QED
      BY ZenonT(30), <3>1, MournIsOver DEF Mourning
  <2>2. CASE pc[m] = "deferredDone"
    BY ZenonT(30), <1>3, <2>2, FinalEnter
  <2>3. CASE pc[m] # "deferredDone"
    BY ZenonT(30), <1>3, <2>1, <2>3, SyncPassesWeak
  <2> QED
    BY ZenonT(30), <2>2, <2>3
<1>4. CASE ~Sync(m) /\ ~SyncReturns(m)
  <2>1. WeakOK'
    BY ZenonT(30), <1>4, StayWeak
  <2>2. ~Over'
    BY ZenonT(30), <1>4, StepStays, StaysRound
  <2> QED
    BY Zenon, <2>1, <2>2
<1> QED
  BY ZenonT(30), <1>1, <1>2, <1>3, <1>4

\* Every step preserves the invariant of the marks ...
LEMMA NextMark ==
  ASSUME RoundInv, WorkInv, MarkInv, TypeOK', [Next]_vars
  PROVE  MarkInv'
<1> USE Markers, Participants
<1>1. OnlyAlive /\ OnlyAlive' /\ marked \subseteq marked'
  BY Zenon, NextAlive DEF MarkInv
<1>2. CASE Over
  <2>1. Final /\ marked' = Alive
    BY Zenon, <1>1, <1>2 DEF MarkInv, Final, OnlyAlive
  <2>2. ASSUME Rests PROVE Over' /\ Final'
    BY ZenonT(30), <1>2, <2>1, <2>2, RestsMark
  <2>3. ASSUME NEW m \in Marker, Step(m) \/ WakeUp(m) PROVE Over' /\ Final'
    BY ZenonT(30), <1>2, <2>1, <2>2, <2>3, StepFinal, ReleaseRests
  <2>4. ASSUME NEW h \in Helper, StartTask(h) \/ TryEnter(h) PROVE Over' /\ Final'
    BY ZenonT(30), <1>2, <2>2, <2>4, StartMark, AsideMark
  <2>5. ASSUME StartMain PROVE FALSE
    BY ZenonT(30), <1>2, <2>5, StartMark
  <2>6. ASSUME Finalize PROVE Over' /\ Final'
    BY ZenonT(30), <1>2, <2>1, <2>6, FinalizeMark, FinalStay
  <2>7. Over' /\ Final'
    BY <2>2, <2>3, <2>4, <2>5, <2>6, StutterRests, ZenonT(30) DEF Next
  <2> QED
    BY Zenon, <1>1, <2>7 DEF MarkInv
<1>3. CASE ~Over
  <2>1. AllAlive /\ WeakOK
    BY Zenon, <1>3 DEF MarkInv
  <2>2. ASSUME NEW m \in Marker, Mourn(m) PROVE FALSE
    <3>1. pc[m] = "mourn"
      BY ZenonT(30), <2>2 DEF Mourn
    <3>2. m \in Participant /\ seen[m] = -1
      BY ZenonT(30), <3>1, Inside, Outside DEF SyncPlace
    <3>3. Now(m) = "mourn"
      BY Zenon, <3>1, <3>2 DEF Now, Freed
    <3> QED
      BY ZenonT(30), <1>3, <3>2, <3>3, MournIsOver DEF Mourning
  <2>3. AllAlive'
    BY <1>1, <2>1, <2>2, NextAll, ZenonT(30)
  <2>4. ASSUME Rests PROVE ~Over' /\ WeakOK'
    BY ZenonT(30), <1>3, <2>1, <2>4, RestsMark
  <2>5. ASSUME NEW m \in Marker, Step(m) \/ WakeUp(m) PROVE IF Over' THEN Final' ELSE WeakOK'
    <3>1. CASE m \in Participant
      BY <1>1, <1>3, <2>1, <2>5, <3>1, StepWeak, ZenonT(30)
    <3>2. CASE m \notin Participant
      BY ZenonT(30), <2>4, <2>5, <3>2, ReleaseRests
    <3> QED
      BY Zenon, <3>1, <3>2
  <2>6. ASSUME NEW h \in Helper, StartTask(h) \/ TryEnter(h) PROVE ~Over' /\ WeakOK'
    BY ZenonT(30), <2>4, <2>6, StartMark, AsideMark
  <2>7. ASSUME StartMain PROVE ~Over' /\ WeakOK'
    BY Zenon, <2>7, StartMark
  <2>8. ASSUME Finalize PROVE FALSE
    BY ZenonT(30), <1>3, <2>8, FinalizeMark
  <2>9. IF Over' THEN Final' ELSE WeakOK'
    BY <2>4, <2>5, <2>6, <2>7, <2>8, StutterRests, Zenon DEF Next
  <2> QED
    BY ZenonT(30), <1>1, <2>3, <2>9 DEF MarkInv
<1> QED
  BY ZenonT(30), <1>2, <1>3

\* ... so it holds in every state.
LEMMA MarkInvariant == Spec => [](RoundInv /\ WorkInv /\ MarkInv)
<1>1. RoundInv /\ WorkInv /\ MarkInv /\ [Next]_vars => MarkInv'
  <2>1. RoundInv /\ [Next]_vars => TypeOK'
    BY Zenon, NextRound DEF RoundInv
  <2> QED
    BY ZenonT(30), <2>1, NextMark
<1> QED
  BY <1>1, InitRound, InitWork, InitMark, NextRound, NextWork, PTL DEF Spec

\* Weak processing sees final mark bits: all that is alive is marked and
\* nothing else, what is still delayed has a dead key, and when MarkObjects
\* finalizes the visitors no block or list of any of them holds anything.
THEOREM MarksAreFinalHolds == Spec => []MarksAreFinal
<1> USE Participants
<1>1. ASSUME RoundInv, WorkInv, MarkInv, NEW m \in Marker, pc[m] = "mourn"
      PROVE  marked = Alive /\ \A p \in delayed[m] : Key[p] \notin marked
  <2>1. m \in Participant /\ seen[m] = -1
    BY ZenonT(30), <1>1, Inside, Outside DEF SyncPlace
  <2>2. Now(m) = "mourn" /\ NowDelayed(m) = delayed[m]
    BY ZenonT(30), <1>1, <2>1 DEF Now, Freed, NowDelayed, ToWeak
  <2>3. Over
    BY ZenonT(30), <1>1, <2>1, <2>2, MournIsOver DEF Mourning
  <2> QED
    BY ZenonT(30), <1>1, <2>1, <2>2, <2>3 DEF MarkInv, Final
<1>2. ASSUME RoundInv, WorkInv, MarkInv, pc[Main] \in {"finalize", "done"}
      PROVE  /\ marked = Alive
             /\ stack = {} /\ deferredStack = {} /\ global_list = {}
             /\ \A m \in Marker : /\ NoWork(m) /\ deferred[m] = {} /\ delayed[m] = {}
                                  /\ pc[m] \in {"enter", "exit", "release", "finalize", "done"}
  <2>1. Now(Main) \in {"finalize", "done"}
    BY Zenon, <1>2, MainHere
  <2>2. Over /\ Final
    BY Zenon, <1>2, <2>1 DEF Over, Leaving, MarkInv
  <2>3. PICK Q \in Rounds : Now(Main) \in Q /\ \A n \in Participant : Now(n) \in Q
    BY Zenon, <1>2, MainRound
  <2>4. Q = Leaving
    BY <2>1, <2>3, RoundsApart DEF Leaving, Rounds
  <2>5. \A n \in Participant : Now(n) \in {"release", "finalize", "done"}
    BY Zenon, <2>3, <2>4 DEF Leaving
  <2>6. \A n \in Participant : NoWork(n) /\ deferred[n] = {} /\ ~Looks(n)
    BY Zenon, <1>2, <2>5 DEF WorkInv, WorkOK, WorkAt, DeferOK, DeferAt, Looks, LooksAt
  <2>7. stack = {}
    BY Zenon, <1>2, <2>6 DEF WorkInv
  <2>8. deferredStack = {} /\ global_list = {}
    BY Zenon, <1>2, <2>1 DEF WorkInv, DeferOK, DeferAt, RestOK
  <2>9. ASSUME NEW n \in Participant
        PROVE  delayed[n] = {} /\ pc[n] \in {"exit", "release", "finalize", "done"}
    <3>1. CASE ~Freed(n)
      BY ZenonT(30), <2>2, <2>5, <3>1 DEF Final, NowDelayed, ToWeak, Now
    <3>2. CASE Freed(n)
      <4>1. AfterSync(n) \in {"release", "finalize", "done"} /\ AfterSync(n) = Now(n)
        BY Zenon, <2>5, <3>2 DEF Now
      <4>2. pc[n] \in SyncPlace /\ n \in Marker
        BY ZenonT(30), <1>2, <3>2 DEF Freed, RoundInv, BarrierOK, AtBarrier
      <4>3. pc[n] = "exit"
        BY ZenonT(30), <1>2, <4>1, <4>2, AfterSyncIs DEF SyncPlace
      <4>4. NowDelayed(n) = delayed[n]
        BY Zenon, <4>1 DEF NowDelayed, ToWeak
      <4> QED
        BY ZenonT(30), <2>2, <4>1, <4>3, <4>4 DEF Final
    <3> QED
      BY Zenon, <3>1, <3>2
  <2>10. ASSUME NEW n \in Marker \ Participant
         PROVE  /\ NoWork(n) /\ deferred[n] = {} /\ delayed[n] = {}
                /\ pc[n] \in {"enter", "release", "done"}
    BY Zenon, <1>2, RestHolds
  <2>11. marked = Alive
    BY Zenon, <2>2 DEF Final
  <2> QED
    BY ZenonT(30), <2>6, <2>7, <2>8, <2>9, <2>10, <2>11
<1>3. RoundInv /\ WorkInv /\ MarkInv => MarksAreFinal
  BY <1>1, <1>2, Zenon DEF MarksAreFinal
<1> QED
  BY <1>3, MarkInvariant, PTL
=============================================================================
