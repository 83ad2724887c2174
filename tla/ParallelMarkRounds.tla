------------------------- MODULE ParallelMarkRounds -------------------------
(***************************************************************************)
(* The markers are in the same round: the invariant of the barrier and of  *)
(* the count of busy markers.                                              *)
(***************************************************************************)
EXTENDS FiniteSetTheorems, TLAPS, ParallelMark

\* What the variables range over.
TypeOK ==
    /\ pc \in [Marker -> Place]
    /\ slots \in [Marker -> SUBSET Object]
    /\ marked \in SUBSET Object
    /\ input \in [Marker -> SUBSET Object]
    /\ output \in [Marker -> SUBSET Object]
    /\ stack \in SUBSET (SUBSET Object)
    /\ asleep \in SUBSET Marker
    /\ notified \in SUBSET Marker
    /\ deferred \in [Marker -> SUBSET Object]
    /\ scanned \in [Marker -> SUBSET Object]
    /\ deferredStack \in SUBSET Object
    /\ delayed \in [Marker -> SUBSET WeakProperty]
    /\ todo \in [Marker -> SUBSET WeakProperty]
    /\ more \in [Marker -> BOOLEAN]
    /\ global_list \in SUBSET WeakProperty
    /\ started \in SUBSET DOMAIN RootSlice
    /\ num_busy \in Nat
    /\ participating \in Nat /\ remaining \in Nat /\ generation \in Nat
    /\ ref_count \in Int
    /\ seen \in [Marker -> Int] /\ syncs \in [Marker -> Nat]

-----------------------------------------------------------------------------
\* The rounds.

\* The barrier's own variables and each marker's place in it.
gate == <<participating, remaining, generation, seen, syncs>>

\* Marker m is in a Sync that will return.
Freed(m) == seen[m] # -1 /\ seen[m] # generation

\* Where m is, were it to return at once.
Now(m) == IF Freed(m) THEN AfterSync(m) ELSE pc[m]

\* The places of a marker that num_busy_ counts, whatever it has found.
Busy == {"roots", "early", "first", "drain", "pendingFirst", "pending", "again", "work"}

\* The rounds: the places between one Sync and the next.
Marking == {"flush", "count", "wait", "stop"} \cup Busy
Checking == {"assert", "debug"}
Weakening == {"weak", "voted"}
Deciding == {"decide", "decided"}
Deferring == {"late", "deferredDone"}
Mourning == {"mourn", "exit"}
Leaving == {"release", "finalize", "done"}
Rounds == {Marking, Checking, Weakening, Deciding, Deferring, Mourning, Leaving}

\* The participants that count as busy.
IsBusy(p, x) == p \in Busy \/ (p \in {"voted", "decide", "decided"} /\ x)
BusyOnes == {m \in Participant : IsBusy(Now(m), more[m])}

\* Participant m is outside the barrier, waits in it, or is about to leave it.
AtBarrier(m) ==
    \/ seen[m] = -1 /\ syncs[m] = generation
    \/ seen[m] = generation /\ syncs[m] = generation + 1 /\ pc[m] \in SyncPlace
    \/ /\ generation >= 1 /\ seen[m] = generation - 1 /\ syncs[m] = generation
       /\ pc[m] \in SyncPlace

\* Those that have not yet called Sync in this generation.
Absent == {m \in Participant : seen[m] # generation}

\* ThreadBarrier counts the participants, and those that have not called Sync.
BarrierOK ==
    /\ participating = Cardinality(Participant)
    /\ remaining = Cardinality(Absent)
    /\ remaining >= 1
    /\ \A m \in Participant : AtBarrier(m)
    /\ \A m \in Marker \ Participant : seen[m] = -1 /\ syncs[m] = 0

\* All participants are in one round, were those the barrier freed to return at once.
SameRound ==
    /\ \E R \in Rounds : \A m \in Participant : Now(m) \in R
    /\ generation = 0 => \A m \in Participant : Now(m) \in Marking
    /\ \A m \in Participant : Now(m) = "decided" /\ ~more[m] => num_busy = 0

\* num_busy_ counts the busy, and the monitor of the stack those that wait.
CountOK ==
    /\ num_busy = Cardinality(BusyOnes)
    /\ asleep = {m \in Marker : pc[m] = "wait"}
    /\ notified \subseteq asleep
    /\ \A m \in Marker : pc[m] = "flush" => m = Main
    /\ \A m \in Marker : pc[m] = "finalize" => m = Main
    /\ pc[Main] \notin {"idle", "enter"}

\* Where a marker has something to scan.
ScanOK ==
    \A m \in Marker :
       /\ slots[m] # {} => pc[m] \in {"roots", "early", "drain", "pendingFirst", "pending", "weak", "late"}
       /\ scanned[m] # {} => pc[m] \in {"early", "late"}
       /\ todo[m] # {} => pc[m] \in {"pendingFirst", "pending", "weak"}

\* The inductive invariant of the rounds.
RoundInv == TypeOK /\ ScanOK /\ BarrierOK /\ SameRound /\ CountOK

-----------------------------------------------------------------------------
\* Markers are finitely many, and one more or one less counts as one.
LEMMA Markers ==
    /\ IsFiniteSet(Marker) /\ Main \in Marker
    /\ \A h \in Helper : h \in Marker /\ h # Main
<1>1. IsFiniteSet(Helper \cup {Main})
  BY Zenon, ParallelMarkAssumption, FS_AddElement
<1> QED
  BY Zenon, <1>1, ParallelMarkAssumption DEF Marker

\* Counting markers.
LEMMA Counts ==
  ASSUME NEW S \in SUBSET Marker
  PROVE  /\ IsFiniteSet(S) /\ Cardinality(S) \in Nat
         /\ Cardinality(S) = 0 <=> S = {}
         /\ \A m \in Marker : m \notin S => Cardinality(S \cup {m}) = Cardinality(S) + 1
         /\ \A m \in S : Cardinality(S \ {m}) = Cardinality(S) - 1
<1>1. IsFiniteSet(S)
  BY Zenon, Markers, FS_Subset
<1>2. Cardinality(S) \in Nat /\ (Cardinality(S) = 0 <=> S = {})
  BY Zenon, <1>1, FS_CardinalityType, FS_EmptySet
<1>3. \A m \in Marker : m \notin S => Cardinality(S \cup {m}) = Cardinality(S) + 1
  BY Zenon, <1>1, FS_AddElement
<1>4. \A m \in S : Cardinality(S \ {m}) = Cardinality(S) - 1
  BY Zenon, <1>1, FS_RemoveElement
<1> QED
  BY Zenon, <1>1, <1>2, <1>3, <1>4

\* A set that counts one has no other member.
LEMMA OnlyOne ==
  ASSUME NEW S \in SUBSET Marker, NEW m \in S, Cardinality(S) = 1
  PROVE  S = {m}
<1>1. Cardinality(S \ {m}) = 0
  BY Counts
<1>2. S \ {m} \in SUBSET Marker
  BY Zenon
<1>3. S \ {m} = {}
  BY Zenon, <1>1, <1>2, Counts
<1> QED
  BY Zenon, <1>3

\* Participants are markers, and Main is one.
LEMMA Participants == Participant \in SUBSET Marker /\ Main \in Participant
BY Zenon, Markers DEF Participant

\* A marker outside the barrier is where its pc says.
LEMMA Outside ==
  ASSUME RoundInv, NEW m \in Participant, pc[m] \notin SyncPlace
  PROVE  seen[m] = -1
BY Zenon DEF RoundInv, BarrierOK, AtBarrier

\* What a step that leaves marker n alone leaves of it.
LEMMA SameStage ==
  ASSUME NEW n, pc'[n] = pc[n], seen'[n] = seen[n], syncs'[n] = syncs[n],
         generation' = generation, AtBarrier(n)
  PROVE  AtBarrier(n)'
BY Zenon DEF AtBarrier

\* Nor does it move n to another round.
LEMMA SameNow ==
  ASSUME NEW n, pc'[n] = pc[n], more'[n] = more[n]
  PROVE  /\ AfterSync(n)' = AfterSync(n)
         /\ (Freed(n)' <=> Freed(n)) => Now(n)' = Now(n)
<1>1. AfterSync(n)' = AfterSync(n)
  BY Zenon DEF AfterSync
<1> QED
  BY Zenon, <1>1 DEF Now

\* A participant m outside the barrier goes on to q.
LEMMA MoveFacts ==
  ASSUME RoundInv, NEW m \in Participant, NEW q \in Place, seen[m] = -1,
         pc' = [pc EXCEPT ![m] = q], UNCHANGED gate,
         \A n \in Marker \ {m} : more'[n] = more[n],
         q \notin {"idle", "enter"},
         q \in {"release", "done"} => m = Main \/ syncs[m] > 0
  PROVE  /\ Participant' = Participant
         /\ ~Freed(m) /\ ~Freed(m)'
         /\ Now(m) = pc[m] /\ Now(m)' = q
         /\ \A n \in Participant \ {m} : /\ Now(n)' = Now(n) /\ (Freed(n)' <=> Freed(n))
                                         /\ Freed(n) => AfterSync(n)' = AfterSync(n)
         /\ BarrierOK'
<1> USE Participants, Markers
<1>1. pc \in [Marker -> Place] /\ m \in Marker
  BY Zenon DEF RoundInv, TypeOK
<1>2. /\ pc'[m] = q
      /\ \A n \in Marker \ {m} : pc'[n] = pc[n]
  BY Zenon, <1>1
<1>3. seen' = seen /\ syncs' = syncs /\ generation' = generation
      /\ participating' = participating /\ remaining' = remaining
  BY Zenon DEF gate
<1>4. pc[m] \notin {"idle", "enter"} \/ m = Main
  BY Zenon DEF Participant
<1>5. \A n \in Marker : n \in Participant' <=> n \in Participant
  BY Zenon, <1>2, <1>3 DEF Participant
<1>6. Participant' = Participant
  <2>1. Participant' \subseteq Marker
    BY Zenon DEF Participant
  <2> QED
    BY Zenon, <2>1, <1>5
<1>7. ~Freed(m) /\ ~Freed(m)' /\ Now(m) = pc[m] /\ Now(m)' = q
  BY Zenon, <1>2, <1>3 DEF Now, Freed
<1>8. ASSUME NEW n \in Participant \ {m}
      PROVE  Now(n)' = Now(n) /\ (Freed(n)' <=> Freed(n)) /\ AfterSync(n)' = AfterSync(n)
  <2>1. pc'[n] = pc[n] /\ more'[n] = more[n]
    BY Zenon, <1>2
  <2>2. Freed(n)' <=> Freed(n)
    BY Zenon, <1>3 DEF Freed
  <2> QED
    BY <2>1, <2>2, SameNow, Zenon
<1>9. BarrierOK'
  <2>1. Absent' = Absent
    BY Zenon, <1>6, <1>3 DEF Absent
  <2>2. /\ participating' = Cardinality(Participant')
        /\ remaining' = Cardinality(Absent')
        /\ remaining' >= 1
    BY Zenon, <1>3, <1>6, <2>1 DEF RoundInv, BarrierOK
  <2>3. \A n \in Participant' : AtBarrier(n)'
    <3>1. \A n \in Participant : AtBarrier(n)
      BY Zenon DEF RoundInv, BarrierOK
    <3>2. AtBarrier(m)'
      BY <1>3, <3>1 DEF AtBarrier, RoundInv, TypeOK
    <3> QED
      BY <1>2, <1>3, <1>6, <3>1, <3>2, SameStage, Zenon
  <2>4. \A n \in Marker \ Participant' : seen'[n] = -1 /\ syncs'[n] = 0
    BY Zenon, <1>3, <1>6 DEF RoundInv, BarrierOK
  <2> QED
    BY Zenon, <2>2, <2>3, <2>4 DEF BarrierOK
<1> QED
  BY Zenon, <1>6, <1>7, <1>8, <1>9

\* What a marker adds to a count.
One(b) == IF b THEN 1 ELSE 0

\* What a set of markers counts when only m may have joined or left it.
LEMMA CountOne ==
  ASSUME NEW S \in SUBSET Marker, NEW T \in SUBSET Marker, NEW m \in Marker,
         \A n \in Marker \ {m} : n \in T <=> n \in S
  PROVE  Cardinality(T) = Cardinality(S) + One(m \in T) - One(m \in S)
<1>1. CASE (m \in T) = (m \in S)
  <2>1. T = S
    BY <1>1
  <2> QED
    BY <1>1, <2>1, Counts DEF One
<1>2. CASE m \in T /\ m \notin S
  <2>1. T = S \cup {m}
    BY Zenon, <1>2
  <2> QED
    BY <1>2, <2>1, Counts DEF One
<1>3. CASE m \notin T /\ m \in S
  <2>1. T = S \ {m}
    BY Zenon, <1>3
  <2> QED
    BY <1>3, <2>1, Counts DEF One
<1> QED
  BY <1>1, <1>2, <1>3

\* No place belongs to two rounds.
LEMMA RoundsApart ==
  ASSUME NEW Q \in Rounds, NEW R \in Rounds, NEW p, p \in Q, p \in R
  PROVE  Q = R
BY DEF Rounds, Marking, Busy, Checking, Weakening, Deciding, Deferring, Mourning, Leaving

\* Participant m goes on to q within the round, and counts itself.
LEMMA RoundMove ==
  ASSUME RoundInv, NEW m \in Participant, NEW q \in Place, seen[m] = -1,
         pc' = [pc EXCEPT ![m] = q], UNCHANGED gate,
         more' \in [Marker -> BOOLEAN],
         \A n \in Marker \ {m} : more'[n] = more[n],
         q \notin {"idle", "enter"},
         q \in {"release", "done"} => m = Main \/ syncs[m] > 0,
         NEW Q \in Rounds, pc[m] \in Q, q \in Q
  PROVE  /\ BarrierOK'
         /\ \E R \in Rounds : q \in R /\ \A n \in Participant' : Now(n)' \in R
         /\ generation' = 0 => \A n \in Participant' : Now(n)' \in Marking
         /\ Cardinality(BusyOnes') = Cardinality(BusyOnes) + One(IsBusy(q, more'[m]))
                                       - One(IsBusy(pc[m], more[m]))
<1> USE Participants, Markers
<1>1. /\ Participant' = Participant /\ BarrierOK'
      /\ Now(m) = pc[m] /\ Now(m)' = q
      /\ \A n \in Participant \ {m} : Now(n)' = Now(n)
  BY Zenon, MoveFacts
<1>2. PICK R \in Rounds : \A n \in Participant : Now(n) \in R
  BY Zenon DEF RoundInv, SameRound
<1>3. q \in R /\ \A n \in Participant' : Now(n)' \in R
  BY <1>1, <1>2, RoundsApart
<1>4. generation' = 0 => \A n \in Participant' : Now(n)' \in Marking
  <2>1. SUFFICES ASSUME generation' = 0
                 PROVE  \A n \in Participant' : Now(n)' \in Marking
    BY Zenon
  <2>2. \A n \in Participant : Now(n) \in Marking
    BY Zenon, <2>1 DEF RoundInv, SameRound, gate
  <2>3. Marking \in Rounds
    BY Zenon DEF Rounds
  <2>4. q \in Marking
    BY <2>2, <2>3, <1>1, RoundsApart
  <2> QED
    BY Zenon, <2>2, <2>4, <1>1
<1>5. BusyOnes \in SUBSET Marker /\ BusyOnes' \in SUBSET Marker
  BY Zenon, <1>1 DEF BusyOnes
<1>6. \A n \in Marker \ {m} : n \in BusyOnes' <=> n \in BusyOnes
  BY Zenon, <1>1 DEF BusyOnes
<1>7. (m \in BusyOnes') = IsBusy(q, more'[m]) /\ (m \in BusyOnes) = IsBusy(pc[m], more[m])
  BY <1>1 DEF BusyOnes, IsBusy
<1>8. Cardinality(BusyOnes') = Cardinality(BusyOnes) + One(m \in BusyOnes') - One(m \in BusyOnes)
  BY Zenon, <1>5, <1>6, CountOne
<1> QED
  BY Zenon, <1>1, <1>2, <1>3, <1>4, <1>7, <1>8

\* A move that is none of the wait's and none of the decision's.
LEMMA QuietMove ==
  ASSUME RoundInv, NEW m \in Participant, NEW q \in Place, seen[m] = -1,
         pc' = [pc EXCEPT ![m] = q], UNCHANGED gate,
         more' \in [Marker -> BOOLEAN],
         \A n \in Marker \ {m} : more'[n] = more[n],
         q \notin {"idle", "enter", "flush"}, q = "finalize" => m = Main,
         q \in {"release", "done"} => m = Main \/ syncs[m] > 0,
         NEW Q \in Rounds, pc[m] \in Q, q \in Q,
         q \notin Deciding, q # "wait", pc[m] # "wait",
         num_busy' = num_busy + One(IsBusy(q, more'[m])) - One(IsBusy(pc[m], more[m])),
         asleep' = asleep, notified' \subseteq asleep
  PROVE  BarrierOK' /\ SameRound' /\ CountOK'
<1> USE Participants, Markers
<1>1. /\ BarrierOK'
      /\ \E R \in Rounds : q \in R /\ \A n \in Participant' : Now(n)' \in R
      /\ generation' = 0 => \A n \in Participant' : Now(n)' \in Marking
      /\ Cardinality(BusyOnes') = Cardinality(BusyOnes) + One(IsBusy(q, more'[m]))
                                    - One(IsBusy(pc[m], more[m]))
  BY Zenon, RoundMove
<1>2. pc \in [Marker -> Place] /\ m \in Marker
  BY Zenon DEF RoundInv, TypeOK
<1>3. \A R \in Rounds : "decided" \in R /\ q \in R => q \in Deciding
  <2>1. "decided" \in Deciding /\ Deciding \in Rounds
    BY Zenon DEF Deciding, Rounds
  <2> QED
    BY Zenon, <2>1, RoundsApart
<1>4. SameRound'
  BY Zenon, <1>1, <1>3 DEF SameRound
<1>5. asleep' = {n \in Marker : pc'[n] = "wait"}
  BY Zenon, <1>2 DEF RoundInv, CountOK
<1>6. CountOK'
  BY Zenon, <1>1, <1>2, <1>5 DEF RoundInv, CountOK
<1> QED
  BY Zenon, <1>1, <1>4, <1>6

\* Nothing of the round changes.
LEMMA RoundStay ==
  ASSUME RoundInv, UNCHANGED <<pc, asleep, num_busy, gate>>, more' = more,
         notified' \subseteq asleep
  PROVE  BarrierOK' /\ SameRound' /\ CountOK'
<1>1. Participant' = Participant
  BY Zenon DEF Participant, gate
<1>2. \A n \in Marker : Now(n)' = Now(n)
  BY DEF Now, Freed, AfterSync, gate
<1>3. BarrierOK'
  <2>1. \A n \in Participant : AtBarrier(n)'
    BY SameStage, Zenon DEF RoundInv, BarrierOK, gate
  <2>2. Absent' = Absent
    BY Zenon, <1>1 DEF Absent, gate
  <2> QED
    BY <1>1, <2>1, <2>2, Zenon DEF RoundInv, BarrierOK, gate
<1>4. SameRound'
  BY ZenonT(30), <1>1, <1>2, Participants DEF RoundInv, SameRound, gate
<1>5. BusyOnes' = BusyOnes
  BY Zenon, <1>1, <1>2, Participants DEF BusyOnes
<1>6. CountOK'
  BY Zenon, <1>5 DEF RoundInv, CountOK
<1> QED
  BY Zenon, <1>3, <1>4, <1>6

\* A task that is not yet, or will not be, a participant moves.
LEMMA OutsiderFacts ==
  ASSUME RoundInv, NEW h \in Marker \ Participant, NEW q \in {"enter", "release", "done"},
         pc' = [pc EXCEPT ![h] = q], UNCHANGED gate, more' = more
  PROVE  /\ Participant' = Participant
         /\ \A n \in Participant : /\ Now(n)' = Now(n) /\ (Freed(n)' <=> Freed(n))
                                   /\ AfterSync(n)' = AfterSync(n) /\ pc'[n] = pc[n]
<1> USE Participants, Markers
<1>1. pc \in [Marker -> Place] /\ h \in Marker
  BY Zenon DEF RoundInv, TypeOK
<1>2. pc'[h] = q /\ \A n \in Marker \ {h} : pc'[n] = pc[n]
  BY Zenon, <1>1
<1>3. syncs' = syncs /\ seen' = seen /\ generation' = generation
  BY Zenon DEF gate
<1>4. syncs[h] = 0
  BY Zenon DEF RoundInv, BarrierOK
<1>5. \A n \in Marker : n \in Participant' <=> n \in Participant
  BY <1>2, <1>3, <1>4 DEF Participant
<1>6. Participant' = Participant
  <2>1. Participant' \subseteq Marker
    BY Zenon DEF Participant
  <2> QED
    BY Zenon, <2>1, <1>5
<1>7. ASSUME NEW n \in Participant
      PROVE  /\ Now(n)' = Now(n) /\ (Freed(n)' <=> Freed(n))
             /\ AfterSync(n)' = AfterSync(n) /\ pc'[n] = pc[n]
  <2>1. pc'[n] = pc[n] /\ more'[n] = more[n]
    BY Zenon, <1>2
  <2>2. Freed(n)' <=> Freed(n)
    BY Zenon, <1>3 DEF Freed
  <2> QED
    BY <2>1, <2>2, SameNow, Zenon
<1> QED
  BY <1>6, <1>7, Zenon

\* TryEnter succeeds.
LEMMA EnterFacts ==
  ASSUME RoundInv, NEW h \in Helper, TryEnter(h), generation = 0
  PROVE  /\ h \in Marker \ Participant
         /\ Participant' = Participant \cup {h}
         /\ Now(h)' = "count" /\ ~Freed(h)'
         /\ \A n \in Participant : /\ Now(n)' = Now(n) /\ (Freed(n)' <=> Freed(n))
                                   /\ AfterSync(n)' = AfterSync(n) /\ pc'[n] = pc[n]
<1> USE Participants, Markers
<1>1. pc \in [Marker -> Place] /\ h \in Marker /\ h # Main /\ pc[h] = "enter"
  BY Zenon DEF RoundInv, TypeOK, TryEnter
<1>2. h \notin Participant
  BY Zenon, <1>1 DEF Participant
<1>3. pc'[h] = "count" /\ \A n \in Marker \ {h} : pc'[n] = pc[n]
  BY Zenon, <1>1 DEF TryEnter, Move
<1>4. syncs' = syncs /\ seen' = seen /\ generation' = generation /\ more' = more
  BY Zenon DEF TryEnter, weak
<1>5. \A n \in Marker : n \in Participant' <=> n \in Participant \cup {h}
  BY Zenon, <1>3, <1>4 DEF Participant
<1>6. Participant' = Participant \cup {h}
  <2>1. Participant' \subseteq Marker
    BY Zenon DEF Participant
  <2> QED
    BY Zenon, <2>1, <1>1, <1>5
<1>7. seen[h] = -1
  BY Zenon, <1>1, <1>2 DEF RoundInv, BarrierOK
<1>8. Now(h)' = "count" /\ ~Freed(h)'
  BY Zenon, <1>3, <1>4, <1>7 DEF Now, Freed
<1>9. ASSUME NEW n \in Participant
      PROVE  /\ Now(n)' = Now(n) /\ (Freed(n)' <=> Freed(n))
             /\ AfterSync(n)' = AfterSync(n) /\ pc'[n] = pc[n]
  <2>1. pc'[n] = pc[n] /\ more'[n] = more[n]
    BY Zenon, <1>2, <1>3, <1>4
  <2>2. Freed(n)' <=> Freed(n)
    BY Zenon, <1>4 DEF Freed
  <2> QED
    BY <2>1, <2>2, SameNow, Zenon
<1> QED
  BY <1>1, <1>2, <1>6, <1>8, <1>9, Zenon

\* Sync is called and not all have: m waits.
LEMMA SyncWaits ==
  ASSUME RoundInv, NEW m \in Participant, Sync(m), remaining # 1
  PROVE  /\ Participant' = Participant
         /\ pc' = pc /\ more' = more /\ generation' = generation
         /\ \A n \in Participant : /\ Now(n)' = Now(n) /\ (Freed(n)' <=> Freed(n))
                                   /\ AfterSync(n)' = AfterSync(n)
         /\ BarrierOK' /\ SameRound' /\ CountOK'
<1> USE Participants, Markers
<1>1. /\ pc[m] \in SyncPlace /\ seen[m] = -1
      /\ pc' = pc /\ more' = more /\ generation' = generation /\ participating' = participating
      /\ remaining' = remaining - 1
      /\ seen' = [seen EXCEPT ![m] = generation] /\ syncs' = [syncs EXCEPT ![m] = @ + 1]
      /\ asleep' = asleep /\ notified' = notified /\ num_busy' = num_busy
  BY Zenon DEF Sync, monitor
<1>2. /\ seen'[m] = generation /\ \A n \in Marker \ {m} : seen'[n] = seen[n]
      /\ syncs'[m] = generation + 1 /\ \A n \in Marker \ {m} : syncs'[n] = syncs[n]
      /\ generation \in Nat /\ seen[m] # generation
  BY <1>1 DEF RoundInv, BarrierOK, AtBarrier, TypeOK
<1>3. Participant' = Participant
  <2>1. pc[m] \notin {"idle", "enter", "release", "done"}
    BY Zenon, <1>1 DEF SyncPlace
  <2> QED
    BY Zenon, <1>1, <1>2, <2>1 DEF Participant
<1>4. ASSUME NEW n \in Participant
      PROVE  /\ (Freed(n)' <=> Freed(n)) /\ AfterSync(n)' = AfterSync(n)
             /\ Now(n)' = Now(n)
  <2>1. Freed(n)' <=> Freed(n)
    BY Zenon, <1>1, <1>2 DEF Freed
  <2> QED
    BY <1>1, <2>1, SameNow, Zenon
<1>5. BarrierOK'
  <2>1. Absent' = Absent \ {m}
    BY Zenon, <1>1, <1>2, <1>3 DEF Absent
  <2>2. Cardinality(Absent \ {m}) = Cardinality(Absent) - 1
    <3>1. Absent \in SUBSET Marker /\ m \in Absent
      BY Zenon, <1>1, <1>2 DEF Absent
    <3> QED
      BY Zenon, <3>1, Counts
  <2>3. /\ participating' = Cardinality(Participant')
        /\ remaining' = Cardinality(Absent')
        /\ remaining' >= 1
    BY <1>1, <1>3, <2>1, <2>2 DEF RoundInv, BarrierOK, TypeOK
  <2>4. \A n \in Participant' : AtBarrier(n)'
    <3>1. \A n \in Participant \ {m} : AtBarrier(n)'
      BY <1>1, <1>2, SameStage, Zenon DEF RoundInv, BarrierOK
    <3>2. AtBarrier(m)'
      BY Zenon, <1>1, <1>2 DEF AtBarrier
    <3> QED
      BY <1>3, <3>1, <3>2, Zenon
  <2>5. \A n \in Marker \ Participant' : seen'[n] = -1 /\ syncs'[n] = 0
    BY Zenon, <1>1, <1>2, <1>3 DEF RoundInv, BarrierOK
  <2> QED
    BY Zenon, <2>3, <2>4, <2>5 DEF BarrierOK
<1>6. SameRound'
  BY <1>1, <1>3, <1>4 DEF RoundInv, SameRound
<1>7. BusyOnes' = BusyOnes
  BY Zenon, <1>1, <1>3, <1>4 DEF BusyOnes
<1>8. CountOK'
  BY Zenon, <1>1, <1>7 DEF RoundInv, CountOK
<1> QED
  BY Zenon, <1>1, <1>3, <1>4, <1>5, <1>6, <1>8

\* Where a Sync leads.
LEMMA AfterSyncIs ==
  ASSUME RoundInv, NEW m \in Marker, pc[m] \in SyncPlace
  PROVE  /\ pc[m] = "stop" => AfterSync(m) = IF Debug THEN "assert" ELSE "weak"
         /\ pc[m] = "debug" => AfterSync(m) = "weak"
         /\ pc[m] = "voted" => AfterSync(m) = "decide"
         /\ pc[m] = "decided" => AfterSync(m) = IF more[m] THEN "first" ELSE "late"
         /\ pc[m] = "deferredDone" => AfterSync(m) = "mourn"
         /\ pc[m] = "exit" => AfterSync(m) = "release"
         /\ AfterSync(m) \in {"assert", "weak", "decide", "first", "late", "mourn", "release"}
BY Zenon DEF SyncPlace, AfterSync

\* Sync is called and all others have called it: they are where m is.
LEMMA AllArrived ==
  ASSUME RoundInv, NEW m \in Participant, pc[m] \in SyncPlace, seen[m] = -1, remaining = 1
  PROVE  \A n \in Participant : /\ pc[n] = pc[m] /\ ~Freed(n) /\ Now(n) = pc[m]
                                /\ n # m => seen[n] = generation
<1> USE Participants, Markers
<1>1. Absent = {m}
  <2>1. Absent \in SUBSET Marker /\ m \in Absent
    BY DEF RoundInv, TypeOK, Absent
  <2>2. Cardinality(Absent) = 1
    BY Zenon DEF RoundInv, BarrierOK
  <2> QED
    BY Zenon, <2>1, <2>2, OnlyOne
<1>2. \A n \in Participant : n # m => seen[n] = generation
  BY Zenon, <1>1 DEF Absent
<1>3. \A n \in Participant : pc[n] \in SyncPlace /\ ~Freed(n) /\ Now(n) = pc[n]
  BY <1>2 DEF RoundInv, BarrierOK, AtBarrier, TypeOK, Freed, Now
<1>4. PICK R \in Rounds : \A n \in Participant : pc[n] \in R
  BY Zenon, <1>3 DEF RoundInv, SameRound
<1>5. \A a, b \in SyncPlace : a \in R /\ b \in R => a = b
  BY ZenonT(30) DEF SyncPlace, Rounds, Marking, Busy, Checking, Weakening, Deciding, Deferring, Mourning, Leaving
<1> QED
  BY Zenon, <1>2, <1>3, <1>4, <1>5

\* The last call of Sync in a round takes everybody to the next.
LEMMA SyncPasses ==
  ASSUME RoundInv, NEW m \in Participant, Sync(m), remaining = 1
  PROVE  /\ Participant' = Participant
         /\ generation' = generation + 1
         /\ \A n \in Participant : Now(n)' = AfterSync(n)
         /\ ~Freed(m)' /\ pc'[m] = AfterSync(m)
         /\ AfterSync(m) # "weak" => more' = more
         /\ \A n \in Marker \ {m} : more'[n] = more[n] /\ pc'[n] = pc[n]
         /\ \A n \in Participant \ {m} : Freed(n)' /\ AfterSync(n)' = AfterSync(n)
         /\ BarrierOK'
<1> USE Participants, Markers
<1>1. /\ pc[m] \in SyncPlace /\ seen[m] = -1
      /\ pc' = [pc EXCEPT ![m] = AfterSync(m)]
      /\ generation' = generation + 1 /\ participating' = participating
      /\ remaining' = participating
      /\ seen' = seen /\ syncs' = [syncs EXCEPT ![m] = @ + 1]
      /\ AfterSync(m) # "weak" => more' = more
      /\ AfterSync(m) = "weak" => more' = [more EXCEPT ![m] = FALSE]
  BY Zenon DEF Sync, Passed, Move
<1>2. \A n \in Participant : /\ pc[n] = pc[m] /\ Now(n) = pc[m]
                             /\ n # m => seen[n] = generation
  BY Zenon, <1>1, AllArrived
<1>3. /\ pc'[m] = AfterSync(m)
      /\ \A n \in Marker \ {m} : more'[n] = more[n] /\ pc'[n] = pc[n]
  BY Zenon, <1>1 DEF RoundInv, TypeOK
<1>4. /\ syncs'[m] = generation + 1 /\ \A n \in Marker \ {m} : syncs'[n] = syncs[n]
      /\ generation \in Nat
  BY <1>1 DEF RoundInv, TypeOK, BarrierOK, AtBarrier
<1>5. Participant' = Participant
  <2>1. AfterSync(m) \notin {"idle", "enter"}
    BY Zenon, <1>1, AfterSyncIs
  <2>2. pc[m] \notin {"idle", "enter", "release", "done"}
    BY Zenon, <1>1 DEF SyncPlace
  <2>3. \A n \in Marker : n \in Participant' <=> n \in Participant
    BY <1>3, <1>4, <2>1, <2>2 DEF Participant
  <2>4. Participant' \subseteq Marker
    BY Zenon DEF Participant
  <2> QED
    BY Zenon, <2>3, <2>4
<1>6. ~Freed(m)' /\ Now(m)' = AfterSync(m)
  BY Zenon, <1>1, <1>3 DEF Freed, Now
<1>7. \A n \in Participant \ {m} : /\ Freed(n)' /\ AfterSync(n)' = AfterSync(n)
                                   /\ Now(n)' = AfterSync(n)
  <2> SUFFICES ASSUME NEW n \in Participant \ {m}
               PROVE  Freed(n)' /\ AfterSync(n)' = AfterSync(n) /\ Now(n)' = AfterSync(n)
    BY Zenon
  <2>1. Freed(n)'
    BY <1>1, <1>2, <1>4 DEF Freed
  <2>2. AfterSync(n)' = AfterSync(n)
    BY Zenon, <1>3 DEF AfterSync
  <2> QED
    BY Zenon, <2>1, <2>2 DEF Now
<1>8. BarrierOK'
  <2>1. Absent' = Participant
    BY <1>1, <1>2, <1>4, <1>5 DEF Absent
  <2>2. Cardinality(Participant) \in Nat /\ Cardinality(Participant) # 0
    BY Zenon, Counts
  <2>3. /\ participating' = Cardinality(Participant')
        /\ remaining' = Cardinality(Absent')
        /\ remaining' >= 1
    BY <1>1, <1>5, <2>1, <2>2 DEF RoundInv, BarrierOK
  <2>4. \A n \in Participant' : AtBarrier(n)'
    <3>1. AtBarrier(m)'
      BY Zenon, <1>1, <1>4 DEF AtBarrier
    <3>2. ASSUME NEW n \in Participant \ {m} PROVE AtBarrier(n)'
      <4>1. syncs[n] = generation + 1 /\ seen[n] = generation /\ pc[n] \in SyncPlace
        BY <1>1, <1>2, <1>4 DEF RoundInv, BarrierOK, AtBarrier
      <4> QED
        BY <1>1, <1>3, <1>4, <4>1 DEF AtBarrier
    <3> QED
      BY <1>5, <3>1, <3>2, Zenon
  <2>5. \A n \in Marker \ Participant' : seen'[n] = -1 /\ syncs'[n] = 0
    BY Zenon, <1>1, <1>4, <1>5 DEF RoundInv, BarrierOK
  <2> QED
    BY Zenon, <2>3, <2>4, <2>5 DEF BarrierOK
<1> QED
  BY Zenon, <1>1, <1>3, <1>5, <1>6, <1>7, <1>8

\* The others return later, and are then where they already counted to be.
LEMMA ReturnFacts ==
  ASSUME RoundInv, NEW m \in Marker, SyncReturns(m)
  PROVE  /\ m \in Participant /\ Freed(m) /\ pc[m] \in SyncPlace
         /\ Participant' = Participant
         /\ pc'[m] = AfterSync(m) /\ Now(m) = AfterSync(m) /\ ~Freed(m)'
         /\ AfterSync(m) # "weak" => more' = more
         /\ \A n \in Marker \ {m} : more'[n] = more[n] /\ pc'[n] = pc[n]
         /\ \A n \in Participant : Now(n)' = Now(n)
         /\ \A n \in Participant \ {m} : (Freed(n)' <=> Freed(n)) /\ AfterSync(n)' = AfterSync(n)
         /\ BarrierOK'
<1> USE Participants, Markers
<1>1. /\ pc[m] \in SyncPlace /\ seen[m] # -1 /\ seen[m] # generation
      /\ pc' = [pc EXCEPT ![m] = AfterSync(m)]
      /\ seen' = [seen EXCEPT ![m] = -1]
      /\ AfterSync(m) # "weak" => more' = more
      /\ AfterSync(m) = "weak" => more' = [more EXCEPT ![m] = FALSE]
      /\ syncs' = syncs /\ generation' = generation /\ participating' = participating
      /\ remaining' = remaining
  BY Zenon DEF SyncReturns, Passed, Move
<1>2. m \in Participant /\ generation >= 1 /\ seen[m] = generation - 1 /\ syncs[m] = generation
  BY Zenon, <1>1 DEF RoundInv, BarrierOK, AtBarrier
<1>3. /\ pc'[m] = AfterSync(m) /\ seen'[m] = -1
      /\ \A n \in Marker \ {m} : more'[n] = more[n] /\ pc'[n] = pc[n] /\ seen'[n] = seen[n]
  BY Zenon, <1>1 DEF RoundInv, TypeOK
<1>4. Freed(m) /\ ~Freed(m)' /\ Now(m) = AfterSync(m) /\ Now(m)' = AfterSync(m)
  BY Zenon, <1>1, <1>3 DEF Freed, Now
<1>5. ASSUME NEW n \in Participant \ {m}
      PROVE  /\ (Freed(n)' <=> Freed(n)) /\ AfterSync(n)' = AfterSync(n)
             /\ Now(n)' = Now(n)
  <2>1. pc'[n] = pc[n] /\ more'[n] = more[n]
    BY Zenon, <1>3
  <2>2. Freed(n)' <=> Freed(n)
    BY Zenon, <1>1, <1>3 DEF Freed
  <2> QED
    BY <2>1, <2>2, SameNow, Zenon
<1>6. Participant' = Participant
  <2>1. AfterSync(m) \notin {"idle", "enter"} /\ syncs[m] > 0
    BY <1>1, <1>2, AfterSyncIs DEF RoundInv, TypeOK
  <2>2. \A n \in Marker : n \in Participant' <=> n \in Participant
    BY Zenon, <1>1, <1>2, <1>3, <2>1 DEF Participant
  <2>3. Participant' \subseteq Marker
    BY Zenon DEF Participant
  <2> QED
    BY Zenon, <2>2, <2>3
<1>7. BarrierOK'
  <2>1. Absent' = Absent
    BY <1>1, <1>2, <1>3, <1>6 DEF RoundInv, TypeOK, Absent
  <2>2. /\ participating' = Cardinality(Participant')
        /\ remaining' = Cardinality(Absent')
        /\ remaining' >= 1
    BY Zenon, <1>1, <1>6, <2>1 DEF RoundInv, BarrierOK
  <2>3. \A n \in Participant' : AtBarrier(n)'
    <3>1. \A n \in Participant \ {m} : AtBarrier(n)'
      BY <1>1, <1>3, SameStage, Zenon DEF RoundInv, BarrierOK
    <3>2. AtBarrier(m)'
      BY Zenon, <1>1, <1>2, <1>3 DEF AtBarrier
    <3> QED
      BY <1>6, <3>1, <3>2, Zenon
  <2>4. \A n \in Marker \ Participant' : seen'[n] = -1 /\ syncs'[n] = 0
    BY Zenon, <1>1, <1>2, <1>3, <1>6 DEF RoundInv, BarrierOK
  <2> QED
    BY Zenon, <2>2, <2>3, <2>4 DEF BarrierOK
<1> QED
  BY Zenon, <1>1, <1>2, <1>3, <1>4, <1>5, <1>6, <1>7

-----------------------------------------------------------------------------
\* Types and places of what is scanned.

\* A block pushed on the stack wakes only markers that wait.
LEMMA PushBlockType ==
  ASSUME TypeOK, NEW b \in SUBSET Object, PushBlock(b), notified \subseteq asleep
  PROVE  stack' \in SUBSET (SUBSET Object) /\ notified' \in SUBSET Marker /\ notified' \subseteq asleep
BY ZenonT(30) DEF TypeOK, PushBlock

-----------------------------------------------------------------------------
\* Each action preserves RoundInv.

\* A marker that is in a round takes part.
LEMMA Inside ==
  ASSUME NEW m \in Marker, pc[m] \notin {"idle", "enter", "release", "done"}
  PROVE  m \in Participant
BY Zenon DEF Participant

\* A marker that does not count as busy goes on in its round and still does not.
LEMMA CalmMove ==
  ASSUME RoundInv, NEW m \in Participant, NEW q \in Place, seen[m] = -1,
         pc' = [pc EXCEPT ![m] = q], UNCHANGED <<gate, asleep, num_busy>>,
         notified' \subseteq asleep, more' \in [Marker -> BOOLEAN],
         \A n \in Marker \ {m} : more'[n] = more[n],
         q \notin {"idle", "enter", "flush"}, q = "finalize" => m = Main,
         q \in {"release", "done"} => m = Main \/ syncs[m] > 0,
         NEW Q \in Rounds, pc[m] \in Q, q \in Q,
         pc[m] \notin Busy \cup {"wait", "voted", "decide", "decided"},
         q \notin Busy \cup {"wait", "voted", "decide", "decided"}
  PROVE  BarrierOK' /\ SameRound' /\ CountOK'
<1>1. num_busy' = num_busy + One(IsBusy(q, more'[m])) - One(IsBusy(pc[m], more[m]))
  BY DEF One, IsBusy, RoundInv, TypeOK
<1>2. q \notin Deciding /\ q # "wait" /\ pc[m] # "wait"
  BY Zenon DEF Deciding
<1> QED
  BY <1>1, <1>2, QuietMove, Zenon

(* The steps that scan and mark.                                           *)
LEMMA ScanRound ==
  ASSUME RoundInv, NEW m \in Marker
  PROVE  \/ MarkObject(m) \/ PopDeferred(m) \/ MarkDeferred(m) \/ IterateRoots(m) \/ DeferredDone(m)
         \/ Drain(m) \/ DrainNull(m) \/ ProcessPending(m) \/ PendingDone(m)
         => RoundInv'
<1>PushType. ASSUME TypeOK, NEW o \in Object, Push(m, o), notified \subseteq asleep
             PROVE  /\ stack' \in SUBSET (SUBSET Object) /\ output' \in [Marker -> SUBSET Object]
                    /\ notified' \in SUBSET Marker /\ notified' \subseteq asleep
  <2> USE <1>PushType
  <2>1. output \in [Marker -> SUBSET Object] /\ output[m] \in SUBSET Object
    BY Zenon DEF TypeOK
  <2>2. CASE Cardinality(output[m]) = BlockSize
    BY <2>1, <2>2, PushBlockType DEF Push
  <2>3. CASE Cardinality(output[m]) # BlockSize
    BY <2>1, <2>3 DEF Push, TypeOK
  <2> QED
    BY Zenon, <2>2, <2>3
<1>PopType. ASSUME TypeOK, NEW o \in Object, Pop(m, o)
            PROVE  /\ stack' \in SUBSET (SUBSET Object) /\ input' \in [Marker -> SUBSET Object]
                   /\ output' \in [Marker -> SUBSET Object]
  <2> USE <1>PopType
  <2>1. Popped \subseteq stack
    BY Zenon DEF Popped
  <2>2. input \in [Marker -> SUBSET Object] /\ output \in [Marker -> SUBSET Object]
        /\ stack \in SUBSET (SUBSET Object)
    BY Zenon DEF TypeOK
  <2> QED
    BY <2>1, <2>2 DEF Pop
<1>MarkObjectType. ASSUME MarkObject(m) PROVE TypeOK' /\ notified' \subseteq asleep
  <2> USE <1>MarkObjectType
  <2>1. PICK o \in slots[m] :
          /\ slots' = [slots EXCEPT ![m] = @ \ {o}]
          /\ IF o \in marked
             THEN UNCHANGED <<marked, output, stack, notified, deferred>>
             ELSE IF o \in Instructions
             THEN /\ deferred' = [deferred EXCEPT ![m] = @ \cup {o}]
                  /\ UNCHANGED <<marked, output, stack, notified>>
             ELSE /\ marked' = marked \cup {o}
                  /\ Push(m, o)
                  /\ UNCHANGED deferred
    BY Zenon DEF MarkObject
  <2>2. UNCHANGED <<pc, input, asleep, num_busy, scanned, deferredStack, weak, started, barrier>>
    BY Zenon DEF MarkObject
  <2>3. o \in Object /\ slots' \in [Marker -> SUBSET Object] /\ notified \subseteq asleep
    BY <2>1 DEF RoundInv, TypeOK, CountOK
  <2>4. /\ stack' \in SUBSET (SUBSET Object) /\ output' \in [Marker -> SUBSET Object]
        /\ notified' \in SUBSET Marker /\ notified' \subseteq asleep
        /\ marked' \in SUBSET Object /\ deferred' \in [Marker -> SUBSET Object]
    <3>1. CASE o \in marked
      BY Zenon, <2>1, <2>3, <3>1 DEF RoundInv, TypeOK
    <3>2. CASE o \notin marked /\ o \in Instructions
      BY <2>1, <2>3, <3>2 DEF RoundInv, TypeOK
    <3>3. CASE o \notin marked /\ o \notin Instructions
      BY ZenonT(30), <2>1, <2>3, <3>3, <1>PushType DEF RoundInv, TypeOK
    <3> QED
      BY Zenon, <3>1, <3>2, <3>3
  <2> QED
    BY Zenon, <2>2, <2>3, <2>4 DEF RoundInv, TypeOK, weak, barrier
<1>MarkObject. ASSUME MarkObject(m) PROVE RoundInv'
  <2> USE <1>MarkObject
  <2>1. TypeOK' /\ notified' \subseteq asleep
    BY Zenon, <1>MarkObjectType
  <2>2. UNCHANGED <<pc, asleep, num_busy, gate>> /\ more' = more
    BY Zenon DEF MarkObject, weak, barrier, gate
  <2>3. BarrierOK' /\ SameRound' /\ CountOK'
    BY Zenon, <2>1, <2>2, RoundStay
  <2>4. ScanOK'
    BY ZenonT(30) DEF MarkObject, RoundInv, ScanOK, TypeOK, weak
  <2> QED
    BY Zenon, <2>1, <2>3, <2>4 DEF RoundInv
<1>PopDeferred. ASSUME PopDeferred(m) PROVE RoundInv'
  <2> USE <1>PopDeferred
  <2>1. TypeOK'
    <3>1. PICK o \in IF deferred[m] # {} THEN deferred[m] ELSE deferredStack :
            /\ slots' = [slots EXCEPT ![m] = Pointers[o]]
            /\ scanned' = [scanned EXCEPT ![m] = {o}]
            /\ deferred' = [deferred EXCEPT ![m] = @ \ {o}]
            /\ deferredStack' = IF deferred[m] # {} THEN deferredStack
                                ELSE deferredStack \ {o}
      BY Zenon DEF PopDeferred
    <3>2. o \in Object /\ Pointers[o] \in SUBSET Object
      BY Zenon, ParallelMarkAssumption DEF RoundInv, TypeOK
    <3>3. UNCHANGED <<pc, marked, blocks, monitor, weak, started, barrier>>
      BY Zenon DEF PopDeferred
    <3> QED
      BY <3>1, <3>2, <3>3 DEF RoundInv, TypeOK, blocks, monitor, weak, barrier
  <2>2. UNCHANGED <<pc, asleep, num_busy, gate>> /\ more' = more /\ notified' = notified
    BY Zenon DEF PopDeferred, weak, barrier, gate, monitor
  <2>3. BarrierOK' /\ SameRound' /\ CountOK'
    BY Zenon, <2>2, RoundStay DEF RoundInv, CountOK
  <2>4. ScanOK'
    <3>1. /\ pc[m] \in {"early", "late"} /\ slots[m] = {} /\ scanned[m] = {}
          /\ pc' = pc /\ todo' = todo
          /\ \A n \in Marker \ {m} : slots'[n] = slots[n] /\ scanned'[n] = scanned[n]
      BY DEF PopDeferred, RoundInv, TypeOK, weak
    <3> QED
      BY Zenon, <3>1 DEF RoundInv, ScanOK
  <2> QED
    BY Zenon, <2>1, <2>3, <2>4 DEF RoundInv
<1>MarkDeferred. ASSUME MarkDeferred(m) PROVE RoundInv'
  <2> USE <1>MarkDeferred
  <2>1. TypeOK'
    BY Zenon DEF MarkDeferred, RoundInv, TypeOK, blocks, monitor, weak, barrier
  <2>2. UNCHANGED <<pc, asleep, num_busy, gate>> /\ more' = more /\ notified' = notified
    BY Zenon DEF MarkDeferred, weak, barrier, gate, monitor
  <2>3. BarrierOK' /\ SameRound' /\ CountOK'
    BY Zenon, <2>2, RoundStay DEF RoundInv, CountOK
  <2>4. ScanOK'
    BY Zenon DEF MarkDeferred, RoundInv, ScanOK, TypeOK, weak
  <2> QED
    BY Zenon, <2>1, <2>3, <2>4 DEF RoundInv
\* A busy marker goes on and stays busy.
<1>BusyMove. ASSUME NEW q \in Busy, pc[m] \in Busy, pc' = [pc EXCEPT ![m] = q],
                    UNCHANGED <<gate, asleep, num_busy>>, notified' \subseteq asleep,
                    more' \in [Marker -> BOOLEAN],
                    \A n \in Marker \ {m} : more'[n] = more[n]
             PROVE  BarrierOK' /\ SameRound' /\ CountOK'
  <2> USE <1>BusyMove
  <2>1. m \in Participant /\ seen[m] = -1
    BY Zenon, Inside, Outside DEF Busy, SyncPlace
  <2>2. Marking \in Rounds /\ q \in Marking /\ pc[m] \in Marking
    BY Zenon DEF Rounds, Marking
  <2>3. num_busy' = num_busy + One(IsBusy(q, more'[m])) - One(IsBusy(pc[m], more[m]))
    BY DEF One, IsBusy, RoundInv, TypeOK
  <2>4. /\ q \in Place /\ q \notin {"idle", "enter", "flush", "finalize", "release", "done", "wait"}
        /\ q \notin Deciding /\ pc[m] # "wait"
    BY Zenon DEF Busy, Place, Deciding
  <2> QED
    BY <2>1, <2>2, <2>3, <2>4, QuietMove, Zenon
<1>IterateRoots. ASSUME IterateRoots(m) PROVE RoundInv'
  <2> USE <1>IterateRoots
  <2>1. /\ pc[m] = "roots" /\ slots[m] = {}
        /\ UNCHANGED <<marked, blocks, monitor, later, weak, barrier>>
    BY Zenon DEF IterateRoots
  <2>2. CASE /\ started = DOMAIN RootSlice /\ pc' = [pc EXCEPT ![m] = "early"]
             /\ UNCHANGED <<slots, started>>
    <3>1. TypeOK'
      <4>1. "early" \in Place
        BY Zenon DEF Place
      <4> QED
        BY Zenon, <2>1, <2>2, <4>1 DEF RoundInv, TypeOK, blocks, monitor, later, weak, barrier
    <3>2. BarrierOK' /\ SameRound' /\ CountOK'
      <4>1. /\ "early" \in Busy /\ pc[m] \in Busy /\ UNCHANGED <<gate, asleep, num_busy>>
            /\ notified' \subseteq asleep /\ more' \in [Marker -> BOOLEAN]
            /\ \A n \in Marker \ {m} : more'[n] = more[n]
        BY Zenon, <2>1 DEF Busy, barrier, gate, monitor, weak, RoundInv, CountOK, TypeOK
      <4> QED
        BY <2>2, <4>1, <1>BusyMove, Zenon
    <3>3. ScanOK'
      BY Zenon, <2>1, <2>2 DEF RoundInv, ScanOK, TypeOK, later, weak
    <3> QED
      BY Zenon, <3>1, <3>2, <3>3 DEF RoundInv
  <2>3. CASE \E s \in DOMAIN RootSlice \ started :
               /\ started' = started \cup {s}
               /\ slots' = [slots EXCEPT ![m] = RootSlice[s]]
               /\ UNCHANGED pc
    <3>1. PICK s \in DOMAIN RootSlice \ started :
               /\ started' = started \cup {s}
               /\ slots' = [slots EXCEPT ![m] = RootSlice[s]]
               /\ UNCHANGED pc
      BY Zenon, <2>3
    <3>2. TypeOK'
      <4>1. RootSlice[s] \subseteq Object
        BY Zenon, ParallelMarkAssumption
      <4> QED
        BY ZenonT(30), <2>1, <3>1, <4>1 DEF RoundInv, TypeOK, blocks, monitor, later, weak, barrier
    <3>3. BarrierOK' /\ SameRound' /\ CountOK'
      <4>1. UNCHANGED <<pc, asleep, num_busy, gate>> /\ more' = more /\ notified' = notified
        BY Zenon, <2>1, <3>1 DEF weak, barrier, gate, monitor
      <4> QED
        BY Zenon, <4>1, RoundStay DEF RoundInv, CountOK
    <3>4. ScanOK'
      BY Zenon, <2>1, <3>1 DEF RoundInv, ScanOK, TypeOK, later, weak
    <3> QED
      BY Zenon, <3>2, <3>3, <3>4 DEF RoundInv
  <2> QED
    BY Zenon, <2>2, <2>3 DEF IterateRoots, Move
<1>DeferredDone. ASSUME DeferredDone(m) PROVE RoundInv'
  <2> USE <1>DeferredDone
  <2> DEFINE q == IF pc[m] = "early" THEN "first" ELSE "deferredDone"
  <2>1. /\ pc[m] \in {"early", "late"} /\ slots[m] = {} /\ scanned[m] = {}
        /\ pc' = [pc EXCEPT ![m] = q]
        /\ UNCHANGED <<slots, marked, blocks, monitor, later, weak, started, barrier>>
    BY Zenon DEF DeferredDone, Move
  <2>2. TypeOK'
    <3>1. q \in Place
      BY Zenon DEF Place
    <3> HIDE DEF q
    <3> QED
      BY Zenon, <2>1, <3>1 DEF RoundInv, TypeOK, blocks, monitor, later, weak, barrier
  <2>3. /\ UNCHANGED <<gate, asleep, num_busy>> /\ notified' \subseteq asleep
        /\ more' \in [Marker -> BOOLEAN] /\ \A n \in Marker \ {m} : more'[n] = more[n]
    BY Zenon, <2>1 DEF barrier, gate, monitor, weak, RoundInv, CountOK, TypeOK
  <2>4. BarrierOK' /\ SameRound' /\ CountOK'
    <3>1. CASE pc[m] = "early"
      <4>1. q = "first" /\ "first" \in Busy /\ pc[m] \in Busy
        BY Zenon, <3>1 DEF Busy
      <4> HIDE DEF q
      <4> QED
        BY <2>1, <2>3, <4>1, <1>BusyMove, Zenon
    <3>2. CASE pc[m] = "late"
      <4>1. /\ q = "deferredDone" /\ Deferring \in Rounds /\ pc[m] \in Deferring /\ q \in Deferring
            /\ pc[m] \notin Busy \cup {"wait", "voted", "decide", "decided"}
            /\ q \notin Busy \cup {"wait", "voted", "decide", "decided"}
            /\ q \notin {"idle", "enter", "flush", "finalize", "release", "done"} /\ q \in Place
        BY Zenon, <3>2 DEF Deferring, Rounds, Busy, Place
      <4>2. m \in Participant /\ seen[m] = -1
        BY Zenon, <3>2, Inside, Outside DEF SyncPlace
      <4> HIDE DEF q
      <4> QED
        BY <2>1, <2>3, <4>1, <4>2, CalmMove, Zenon
    <3> QED
      BY Zenon, <2>1, <3>1, <3>2
  <2>5. ScanOK'
    BY Zenon, <2>1 DEF RoundInv, ScanOK, TypeOK, later, weak
  <2> QED
    BY Zenon, <2>2, <2>4, <2>5 DEF RoundInv
<1>Drain. ASSUME Drain(m) PROVE RoundInv'
  <2> USE <1>Drain
  <2>1. PICK o \in Object : Pop(m, o) /\ Visit(m, o)
    BY Zenon DEF Drain
  <2>2. pc[m] \in {"first", "drain", "again"} /\ slots[m] = {}
    BY Zenon DEF Drain
  <2>3. /\ pc' = [pc EXCEPT ![m] = "drain"]
        /\ UNCHANGED <<marked, monitor, later, todo, more, global_list, started, barrier>>
        /\ IF o \in WeakProperty /\ Key[o] \notin marked
           THEN /\ delayed' = [delayed EXCEPT ![m] = @ \cup {o}]
                /\ UNCHANGED slots
           ELSE /\ slots' = [slots EXCEPT ![m] = Pointers[o]]
                /\ UNCHANGED delayed
    BY Zenon, <2>1 DEF Visit, Move
  <2>4. TypeOK'
    <3>1. /\ stack' \in SUBSET (SUBSET Object) /\ input' \in [Marker -> SUBSET Object]
          /\ output' \in [Marker -> SUBSET Object]
      BY Zenon, <2>1, <1>PopType DEF RoundInv
    <3>2. slots' \in [Marker -> SUBSET Object] /\ delayed' \in [Marker -> SUBSET WeakProperty]
      <4>1. Pointers[o] \in SUBSET Object
        BY Zenon, ParallelMarkAssumption
      <4> QED
        BY <2>3, <4>1 DEF RoundInv, TypeOK
    <3>3. pc' \in [Marker -> Place]
      BY Zenon, <2>3 DEF RoundInv, TypeOK, Place
    <3> QED
      BY Zenon, <2>3, <3>1, <3>2, <3>3 DEF RoundInv, TypeOK, monitor, later, barrier
  <2>5. BarrierOK' /\ SameRound' /\ CountOK'
    <3>1. /\ "drain" \in Busy /\ pc[m] \in Busy /\ UNCHANGED <<gate, asleep, num_busy>>
          /\ notified' \subseteq asleep /\ more' \in [Marker -> BOOLEAN]
          /\ \A n \in Marker \ {m} : more'[n] = more[n]
      BY Zenon, <2>2, <2>3 DEF Busy, barrier, gate, monitor, RoundInv, CountOK, TypeOK
    <3> QED
      BY <2>3, <3>1, <1>BusyMove, Zenon
  <2>6. ScanOK'
    <3>1. \A n \in Marker \ {m} : slots'[n] = slots[n] /\ pc'[n] = pc[n]
      BY Zenon, <2>3 DEF RoundInv, TypeOK
    <3>2. pc'[m] = "drain" /\ scanned' = scanned /\ todo' = todo
      BY Zenon, <2>3 DEF RoundInv, TypeOK, later
    <3> QED
      BY Zenon, <2>2, <3>1, <3>2 DEF RoundInv, ScanOK
  <2> QED
    BY Zenon, <2>4, <2>5, <2>6 DEF RoundInv
<1>DrainNull. ASSUME DrainNull(m) PROVE RoundInv'
  <2> USE <1>DrainNull
  <2> DEFINE q == IF pc[m] = "again" THEN "work"
                  ELSE IF pc[m] = "first" THEN "pendingFirst" ELSE "pending"
  <2>1. /\ pc[m] \in {"first", "drain", "again"} /\ slots[m] = {}
        /\ UNCHANGED <<slots, marked, blocks, monitor, later, global_list, started, barrier>>
        /\ pc' = [pc EXCEPT ![m] = q]
        /\ IF pc[m] = "again"
           THEN UNCHANGED <<delayed, todo, more>>
           ELSE /\ todo' = [todo EXCEPT ![m] = delayed[m]]
                /\ delayed' = [delayed EXCEPT ![m] = {}]
                /\ more' = [more EXCEPT ![m] = FALSE]
    BY Zenon DEF DrainNull, Move
  <2>2. q \in Busy /\ q \in Place /\ q \in {"work", "pendingFirst", "pending"}
        /\ (q = "work" => pc[m] = "again")
    BY Zenon DEF Busy, Place
  <2> HIDE DEF q
  <2>3. /\ delayed' \in [Marker -> SUBSET WeakProperty] /\ todo' \in [Marker -> SUBSET WeakProperty]
        /\ more' \in [Marker -> BOOLEAN]
        /\ \A n \in Marker \ {m} : more'[n] = more[n] /\ todo'[n] = todo[n] /\ pc'[n] = pc[n]
        /\ pc'[m] = q /\ (q = "work" => todo' = todo)
    BY ZenonT(30), <2>1, <2>2 DEF RoundInv, TypeOK
  <2>4. TypeOK'
    BY Zenon, <2>1, <2>2, <2>3 DEF RoundInv, TypeOK, blocks, monitor, later, barrier
  <2>5. BarrierOK' /\ SameRound' /\ CountOK'
    <3>1. /\ pc[m] \in Busy /\ UNCHANGED <<gate, asleep, num_busy>> /\ notified' \subseteq asleep
      BY Zenon, <2>1 DEF Busy, barrier, gate, monitor, RoundInv, CountOK
    <3> QED
      BY <2>1, <2>2, <2>3, <3>1, <1>BusyMove, Zenon
  <2>6. ScanOK'
    BY Zenon, <2>1, <2>2, <2>3 DEF RoundInv, ScanOK, later
  <2> QED
    BY Zenon, <2>4, <2>5, <2>6 DEF RoundInv
<1>ProcessPending. ASSUME ProcessPending(m) PROVE RoundInv'
  <2> USE <1>ProcessPending
  <2>1. PICK p \in todo[m] :
            /\ todo' = [todo EXCEPT ![m] = @ \ {p}]
            /\ IF Key[p] \in marked
               THEN /\ more' = [more EXCEPT ![m] = @ \/ ~(Pointers[p] \subseteq marked)]
                    /\ slots' = [slots EXCEPT ![m] = Pointers[p]]
                    /\ UNCHANGED delayed
               ELSE /\ delayed' = [delayed EXCEPT ![m] = @ \cup {p}]
                    /\ UNCHANGED <<more, slots>>
    BY Zenon DEF ProcessPending
  <2>2. slots[m] = {} /\ UNCHANGED <<pc, marked, blocks, monitor, later, global_list, started, barrier>>
    BY Zenon DEF ProcessPending
  <2>3. pc[m] \in {"pendingFirst", "pending", "weak"}
    BY Zenon, <2>1 DEF RoundInv, ScanOK
  <2>4. p \in WeakProperty /\ p \in Object /\ Pointers[p] \in SUBSET Object
    BY Zenon, <2>1, ParallelMarkAssumption DEF RoundInv, TypeOK
  <2>5. /\ delayed' \in [Marker -> SUBSET WeakProperty] /\ todo' \in [Marker -> SUBSET WeakProperty]
        /\ slots' \in [Marker -> SUBSET Object]
    BY <2>1, <2>4 DEF RoundInv, TypeOK
  <2>6. /\ more' \in [Marker -> BOOLEAN] /\ \A n \in Marker \ {m} : more'[n] = more[n]
    <3>1. more \in [Marker -> BOOLEAN]
      BY Zenon DEF RoundInv, TypeOK
    <3>2. CASE Key[p] \in marked
      <4>1. (more[m] \/ ~(Pointers[p] \subseteq marked)) \in BOOLEAN
        BY Zenon
      <4> QED
        BY Zenon, <2>1, <3>1, <3>2, <4>1
    <3>3. CASE Key[p] \notin marked
      BY Zenon, <2>1, <3>1, <3>3
    <3> QED
      BY Zenon, <3>2, <3>3
  <2>7. TypeOK'
    BY Zenon, <2>2, <2>5, <2>6 DEF RoundInv, TypeOK, blocks, monitor, later, barrier
  <2>8. BarrierOK' /\ SameRound' /\ CountOK'
    <3>1. /\ UNCHANGED <<gate, asleep, num_busy>> /\ notified' \subseteq asleep
          /\ pc' = [pc EXCEPT ![m] = pc[m]]
      BY Zenon, <2>2 DEF barrier, gate, monitor, RoundInv, CountOK, TypeOK
    <3>2. CASE pc[m] # "weak"
      <4>1. pc[m] \in Busy
        BY Zenon, <2>3, <3>2 DEF Busy
      <4> QED
        BY <2>6, <3>1, <4>1, <1>BusyMove, Zenon
    <3>3. CASE pc[m] = "weak"
      <4>1. /\ Weakening \in Rounds /\ pc[m] \in Weakening /\ pc[m] \in Place
            /\ pc[m] \notin Busy \cup {"wait", "voted", "decide", "decided"}
            /\ pc[m] \notin {"idle", "enter", "flush", "finalize", "release", "done"}
        BY Zenon, <3>3 DEF Weakening, Rounds, Busy, Place
      <4>2. m \in Participant /\ seen[m] = -1
        BY Zenon, <3>3, Inside, Outside DEF SyncPlace
      <4> QED
        BY <2>6, <3>1, <4>1, <4>2, CalmMove, Zenon
    <3> QED
      BY Zenon, <3>2, <3>3
  <2>9. ScanOK'
    <3>1. \A n \in Marker \ {m} : slots'[n] = slots[n] /\ todo'[n] = todo[n]
      BY Zenon, <2>1 DEF RoundInv, TypeOK
    <3> QED
      BY Zenon, <2>2, <2>3, <3>1 DEF RoundInv, ScanOK, later
  <2> QED
    BY Zenon, <2>7, <2>8, <2>9 DEF RoundInv
<1>PendingDone. ASSUME PendingDone(m) PROVE RoundInv'
  <2> USE <1>PendingDone
  <2> DEFINE q == IF pc[m] = "pending" \/ more[m] THEN "again" ELSE "work"
  <2>1. /\ pc[m] \in {"pendingFirst", "pending"} /\ slots[m] = {} /\ todo[m] = {}
        /\ pc' = [pc EXCEPT ![m] = q]
        /\ UNCHANGED <<slots, marked, blocks, monitor, later, weak, started, barrier>>
    BY Zenon DEF PendingDone, Move
  <2>2. q \in Busy /\ q \in Place
    BY Zenon DEF Busy, Place
  <2> HIDE DEF q
  <2>3. TypeOK'
    BY Zenon, <2>1, <2>2 DEF RoundInv, TypeOK, blocks, monitor, later, weak, barrier
  <2>4. BarrierOK' /\ SameRound' /\ CountOK'
    <3>1. /\ pc[m] \in Busy /\ UNCHANGED <<gate, asleep, num_busy>> /\ notified' \subseteq asleep
          /\ more' \in [Marker -> BOOLEAN] /\ \A n \in Marker \ {m} : more'[n] = more[n]
      BY Zenon, <2>1 DEF Busy, barrier, gate, monitor, weak, RoundInv, CountOK, TypeOK
    <3> QED
      BY <2>1, <2>2, <3>1, <1>BusyMove, Zenon
  <2>5. ScanOK'
    BY Zenon, <2>1 DEF RoundInv, ScanOK, TypeOK, later, weak
  <2> QED
    BY Zenon, <2>3, <2>4, <2>5 DEF RoundInv
<1> QED
  BY Zenon, <1>MarkObject, <1>PopDeferred, <1>MarkDeferred, <1>IterateRoots, <1>DeferredDone,
     <1>Drain, <1>DrainNull, <1>ProcessPending, <1>PendingDone

(* The steps that wait for work.                                           *)
LEMMA WaitRound ==
  ASSUME RoundInv, NEW m \in Marker
  PROVE  WaitForWork(m) \/ WakeUp(m) => RoundInv'
<1>TakeOrWaitType. ASSUME TypeOK, NEW busy \in Nat, TakeOrWait(m, busy)
                   PROVE  /\ stack' \in SUBSET (SUBSET Object) /\ input' \in [Marker -> SUBSET Object]
                          /\ num_busy' \in Nat /\ asleep' \in SUBSET Marker /\ pc' \in [Marker -> Place]
  <2> USE <1>TakeOrWaitType
  <2>1. Popped \subseteq stack
    BY Zenon DEF Popped
  <2>2. input \in [Marker -> SUBSET Object] /\ stack \in SUBSET (SUBSET Object)
        /\ asleep \in SUBSET Marker /\ pc \in [Marker -> Place] /\ "first" \in Place /\ "wait" \in Place
    BY Zenon DEF TypeOK, Place
  <2> QED
    BY <2>1, <2>2 DEF TakeOrWait, Move
\* A move into or out of the wait; m counts as busy or not as q says.
<1>WaitMove. ASSUME m \in Participant, NEW q \in {"first", "wait", "stop"},
                    pc[m] \in {"work", "wait"}, pc' = [pc EXCEPT ![m] = q],
                    UNCHANGED <<gate, more, slots, scanned, todo>>,
                    num_busy' = num_busy + One(q = "first") - One(pc[m] = "work"),
                    asleep' = IF q = "wait" THEN asleep \cup {m} ELSE asleep \ {m},
                    notified' \subseteq asleep \ {m} \/ (q = "stop" /\ pc[m] = "work" /\ notified' = asleep) \/ (pc[m] = "work" /\ notified' = notified),
                    TypeOK'
             PROVE  RoundInv'
  <2> USE <1>WaitMove
  <2> USE Participants, Markers
  <2>1. seen[m] = -1 /\ pc \in [Marker -> Place]
    BY Zenon, Outside DEF SyncPlace, RoundInv, TypeOK
  <2>2. /\ q \in Place /\ q \notin {"idle", "enter", "release", "done", "flush", "finalize"}
        /\ Marking \in Rounds /\ pc[m] \in Marking /\ q \in Marking
        /\ more' \in [Marker -> BOOLEAN] /\ \A n \in Marker \ {m} : more'[n] = more[n]
        /\ UNCHANGED gate
    BY Zenon DEF Place, Rounds, Marking, Busy, RoundInv, TypeOK
  <2>3. /\ BarrierOK'
        /\ \E R \in Rounds : q \in R /\ \A n \in Participant' : Now(n)' \in R
        /\ generation' = 0 => \A n \in Participant' : Now(n)' \in Marking
        /\ Cardinality(BusyOnes') = Cardinality(BusyOnes) + One(IsBusy(q, more'[m]))
                                      - One(IsBusy(pc[m], more[m]))
    BY <2>1, <2>2, RoundMove, Zenon
  <2>4. SameRound'
    <3>1. \A R \in Rounds : q \in R => R = Marking
      BY Zenon, <2>2, RoundsApart
    <3>2. "decided" \notin Marking
      BY Zenon DEF Marking, Busy
    <3> QED
      BY Zenon, <2>3, <3>1, <3>2 DEF SameRound
  <2>5. num_busy' = Cardinality(BusyOnes')
    <3>1. IsBusy(q, more'[m]) = (q = "first") /\ IsBusy(pc[m], more[m]) = (pc[m] = "work")
      BY Zenon DEF IsBusy, Busy
    <3>2. num_busy = Cardinality(BusyOnes)
      BY Zenon DEF RoundInv, CountOK
    <3> QED
      BY Zenon, <2>3, <3>1, <3>2
  <2>6. asleep' = {n \in Marker : pc'[n] = "wait"}
    <3>1. asleep = {n \in Marker : pc[n] = "wait"}
      BY Zenon DEF RoundInv, CountOK
    <3>2. \A n \in Marker : n \in asleep' <=> pc'[n] = "wait"
      BY Zenon, <2>1, <3>1
    <3>3. asleep' \subseteq Marker
      BY Zenon, <3>1
    <3> QED
      BY Zenon, <3>2, <3>3
  <2>7. notified' \subseteq asleep'
    <3>1. pc[m] = "work" => m \notin asleep
      BY Zenon DEF RoundInv, CountOK
    <3>2. notified \subseteq asleep
      BY Zenon DEF RoundInv, CountOK
    <3> QED
      BY Zenon, <3>1, <3>2
  <2>8. CountOK'
    BY Zenon, <2>1, <2>2, <2>5, <2>6, <2>7 DEF RoundInv, CountOK
  <2>9. ScanOK'
    BY Zenon, <2>1 DEF RoundInv, ScanOK
  <2> QED
    BY Zenon, <2>3, <2>4, <2>8, <2>9 DEF RoundInv
<1>WaitForWork. ASSUME WaitForWork(m) PROVE RoundInv'
  <2> USE <1>WaitForWork
  <2>1. pc[m] = "work" /\ UNCHANGED <<slots, marked, output, later, weak, started, barrier>>
    BY Zenon DEF WaitForWork
  <2>2. m \in Participant /\ UNCHANGED <<gate, more, slots, scanned, todo>> /\ One(pc[m] = "work") = 1
    BY Zenon, <2>1, Inside DEF gate, barrier, weak, later, One
  <2>3. m \in BusyOnes /\ num_busy \in Nat /\ num_busy >= 1 /\ m \notin asleep
    <3>1. m \in BusyOnes /\ BusyOnes \in SUBSET Marker /\ m \notin asleep
      <4>1. seen[m] = -1
        BY Zenon, <2>1, <2>2, Outside DEF SyncPlace
      <4>2. Now(m) = "work"
        BY Zenon, <2>1, <4>1 DEF Now, Freed
      <4>3. BusyOnes \in SUBSET Marker
        BY Zenon, Participants DEF BusyOnes
      <4> QED
        BY Zenon, <2>1, <2>2, <4>2, <4>3 DEF BusyOnes, IsBusy, Busy, RoundInv, CountOK
    <3>2. num_busy = Cardinality(BusyOnes) /\ Cardinality(BusyOnes) \in Nat /\ Cardinality(BusyOnes) # 0
      BY Zenon, <3>1, Counts DEF RoundInv, CountOK
    <3> QED
      BY <3>1, <3>2
  <2>4. CASE num_busy = 1
    <3>1. /\ num_busy' = 0 /\ notified' = asleep /\ pc' = [pc EXCEPT ![m] = "stop"]
          /\ UNCHANGED <<input, stack, asleep>>
      BY Zenon, <2>4 DEF WaitForWork, Move
    <3>2. TypeOK'
      BY Zenon, <2>1, <3>1 DEF RoundInv, TypeOK, later, weak, barrier, Place
    <3>3. num_busy' = num_busy + One("stop" = "first") - One(pc[m] = "work")
      BY <2>2, <2>4, <3>1 DEF One
    <3>4. asleep' = IF "stop" = "wait" THEN asleep \cup {m} ELSE asleep \ {m}
      BY Zenon, <2>3, <3>1
    <3> QED
      BY Zenon, <2>1, <2>2, <3>1, <3>2, <3>3, <3>4, <1>WaitMove
  <2>5. CASE num_busy # 1
    <3>1. TakeOrWait(m, num_busy - 1) /\ UNCHANGED notified
      BY Zenon, <2>5 DEF WaitForWork
    <3>2. TypeOK'
      <4>1. num_busy - 1 \in Nat
        BY <2>3
      <4>2. /\ stack' \in SUBSET (SUBSET Object) /\ input' \in [Marker -> SUBSET Object]
            /\ num_busy' \in Nat /\ asleep' \in SUBSET Marker /\ pc' \in [Marker -> Place]
        BY Zenon, <3>1, <4>1, <1>TakeOrWaitType DEF RoundInv
      <4> QED
        BY Zenon, <2>1, <3>1, <4>2 DEF RoundInv, TypeOK, later, weak, barrier
    <3>3. CASE pc' = [pc EXCEPT ![m] = "first"] /\ num_busy' = num_busy /\ asleep' = asleep \ {m}
      <4>1. num_busy' = num_busy + One("first" = "first") - One(pc[m] = "work")
        BY <2>2, <2>3, <3>3 DEF One
      <4>2. asleep' = IF "first" = "wait" THEN asleep \cup {m} ELSE asleep \ {m}
        BY Zenon, <3>3
      <4> QED
        BY ZenonT(30), <2>1, <2>2, <3>1, <3>2, <3>3, <4>1, <4>2, <1>WaitMove
    <3>4. CASE pc' = [pc EXCEPT ![m] = "wait"] /\ num_busy' = num_busy - 1 /\ asleep' = asleep \cup {m}
      <4>1. num_busy' = num_busy + One("wait" = "first") - One(pc[m] = "work")
        BY <2>2, <2>3, <3>4 DEF One
      <4>2. asleep' = IF "wait" = "wait" THEN asleep \cup {m} ELSE asleep \ {m}
        BY Zenon, <3>4
      <4> QED
        BY Zenon, <2>1, <2>2, <3>1, <3>2, <3>4, <4>1, <4>2, <1>WaitMove
    <3> QED
      BY <2>3, <3>1, <3>3, <3>4 DEF TakeOrWait, Move
  <2> QED
    BY Zenon, <2>4, <2>5
<1>WakeUp. ASSUME WakeUp(m) PROVE RoundInv'
  <2> USE <1>WakeUp
  <2>1. /\ pc[m] = "wait" /\ UNCHANGED <<slots, marked, output, later, weak, started, barrier>>
        /\ notified' = notified \ {m}
    BY Zenon DEF WakeUp
  <2>2. /\ m \in Participant /\ UNCHANGED <<gate, more, slots, scanned, todo>> /\ One(pc[m] = "work") = 0
        /\ num_busy \in Nat /\ notified' \subseteq asleep \ {m} /\ notified' \in SUBSET Marker
    BY Zenon, <2>1, Inside DEF gate, barrier, weak, later, One, RoundInv, TypeOK, CountOK
  <2>3. CASE num_busy = 0
    <3>1. /\ num_busy' = num_busy /\ pc' = [pc EXCEPT ![m] = "stop"]
          /\ UNCHANGED <<input, stack>> /\ asleep' = asleep \ {m}
      BY Zenon, <2>3 DEF WakeUp, Move
    <3>2. TypeOK'
      BY Zenon, <2>1, <2>2, <3>1 DEF RoundInv, TypeOK, later, weak, barrier, Place
    <3>3. num_busy' = num_busy + One("stop" = "first") - One(pc[m] = "work")
      BY <2>2, <3>1 DEF One
    <3>4. asleep' = IF "stop" = "wait" THEN asleep \cup {m} ELSE asleep \ {m}
      BY Zenon, <3>1
    <3> QED
      BY ZenonT(30), <2>1, <2>2, <3>1, <3>2, <3>3, <3>4, <1>WaitMove
  <2>4. CASE num_busy # 0
    <3>1. TakeOrWait(m, num_busy)
      BY Zenon, <2>4 DEF WakeUp
    <3>2. TypeOK'
      <4>1. /\ stack' \in SUBSET (SUBSET Object) /\ input' \in [Marker -> SUBSET Object]
            /\ num_busy' \in Nat /\ asleep' \in SUBSET Marker /\ pc' \in [Marker -> Place]
        BY Zenon, <2>2, <3>1, <1>TakeOrWaitType DEF RoundInv
      <4> QED
        BY Zenon, <2>1, <2>2, <3>1, <4>1 DEF RoundInv, TypeOK, later, weak, barrier
    <3>3. CASE pc' = [pc EXCEPT ![m] = "first"] /\ num_busy' = num_busy + 1 /\ asleep' = asleep \ {m}
      <4>1. num_busy' = num_busy + One("first" = "first") - One(pc[m] = "work")
        BY <2>2, <3>3 DEF One
      <4>2. asleep' = IF "first" = "wait" THEN asleep \cup {m} ELSE asleep \ {m}
        BY Zenon, <3>3
      <4> QED
        BY Zenon, <2>1, <2>2, <3>2, <3>3, <4>1, <4>2, <1>WaitMove
    <3>4. CASE pc' = [pc EXCEPT ![m] = "wait"] /\ num_busy' = num_busy /\ asleep' = asleep \cup {m}
      <4>1. num_busy' = num_busy + One("wait" = "first") - One(pc[m] = "work")
        BY <2>2, <3>4 DEF One
      <4>2. asleep' = IF "wait" = "wait" THEN asleep \cup {m} ELSE asleep \ {m}
        BY Zenon, <3>4
      <4> QED
        BY ZenonT(30), <2>1, <2>2, <3>2, <3>4, <4>1, <4>2, <1>WaitMove
    <3> QED
      BY Zenon, <3>1, <3>3, <3>4 DEF TakeOrWait, Move
  <2> QED
    BY Zenon, <2>3, <2>4
<1> QED
  BY Zenon, <1>WaitForWork, <1>WakeUp

(* The steps of the barrier.                                               *)
LEMMA BarrierRound ==
  ASSUME RoundInv, NEW m \in Marker
  PROVE  Sync(m) \/ SyncReturns(m) => RoundInv'
<1>LastSync. ASSUME m \in Participant, Sync(m), remaining = 1
             PROVE  SameRound' /\ CountOK'
  <2> USE <1>LastSync
  <2> USE Participants, Markers
  <2>1. pc[m] \in SyncPlace /\ \A n \in Participant : pc[n] = pc[m] /\ Now(n) = pc[m]
    BY Zenon, AllArrived DEF Sync
  <2>2. /\ Participant' = Participant
        /\ generation' = generation + 1
        /\ \A n \in Participant : Now(n)' = AfterSync(n)
        /\ pc'[m] = AfterSync(m)
        /\ AfterSync(m) # "weak" => more' = more
        /\ \A n \in Marker \ {m} : more'[n] = more[n] /\ pc'[n] = pc[n]
    BY Zenon, SyncPasses
  <2>3. num_busy' = num_busy /\ asleep' = asleep /\ notified' = notified
    BY Zenon DEF Sync, monitor
  <2>4. ASSUME NEW n \in Participant
        PROVE  IsBusy(AfterSync(n), more'[n]) = IsBusy(pc[n], more[n])
    BY Zenon, <2>1, <2>2, AfterSyncIs DEF IsBusy, Busy, SyncPlace
  <2>5. BusyOnes' = BusyOnes
    BY Zenon, <2>1, <2>2, <2>4 DEF BusyOnes
  <2>6. \E R \in Rounds : \A n \in Participant : AfterSync(n) \in R
    <3>1. CASE pc[m] = "decided"
      <4>1. CASE \A n \in Participant : more[n]
        <5>1. \A n \in Participant : AfterSync(n) \in Marking
          BY Zenon, <2>1, <3>1, <4>1, AfterSyncIs DEF Marking, Busy
        <5> QED
          BY Zenon, <5>1 DEF Rounds
      <4>2. CASE \E n \in Participant : ~more[n]
        <5>1. num_busy = 0
          BY Zenon, <2>1, <3>1, <4>2 DEF RoundInv, SameRound
        <5>2. BusyOnes \in SUBSET Marker /\ Cardinality(BusyOnes) = 0
          BY Zenon, <5>1 DEF RoundInv, CountOK, BusyOnes
        <5>3. BusyOnes = {}
          BY Zenon, <5>2, Counts
        <5>4. \A n \in Participant : ~more[n]
          BY Zenon, <2>1, <3>1, <5>3 DEF BusyOnes, IsBusy
        <5>5. \A n \in Participant : AfterSync(n) \in Deferring
          BY Zenon, <2>1, <3>1, <5>4, AfterSyncIs DEF Deferring
        <5> QED
          BY Zenon, <5>5 DEF Rounds
      <4> QED
        BY Zenon, <4>1, <4>2
    <3>2. CASE pc[m] # "decided"
      <4>1. \A n \in Participant : AfterSync(n) = AfterSync(m)
        BY Zenon, <2>1, <3>2, AfterSyncIs DEF SyncPlace
      <4>2. \E R \in Rounds : AfterSync(m) \in R
        BY Zenon, <2>1, AfterSyncIs DEF Rounds, Marking, Busy, Checking, Weakening, Deciding, Deferring, Mourning, Leaving
      <4> QED
        BY Zenon, <4>1, <4>2
    <3> QED
      BY Zenon, <3>1, <3>2
  <2>7. SameRound'
    <3>1. \A n \in Participant : AfterSync(n) # "decided"
      BY Zenon, <2>1, AfterSyncIs
    <3>2. generation' # 0
      BY <2>2 DEF RoundInv, TypeOK
    <3> QED
      BY ZenonT(30), <2>2, <2>6, <3>1, <3>2 DEF SameRound
  <2>8. CountOK'
    <3>1. pc[m] # "wait"
      BY Zenon, <2>1 DEF SyncPlace
    <3>2. pc'[m] \notin {"wait", "flush", "finalize", "idle", "enter"}
      BY Zenon, <2>1, <2>2, AfterSyncIs
    <3>3. {n \in Marker : pc'[n] = "wait"} = {n \in Marker : pc[n] = "wait"}
      BY Zenon, <2>2, <3>1, <3>2
    <3> QED
      BY Zenon, <2>2, <2>3, <2>5, <3>2, <3>3 DEF RoundInv, CountOK
  <2> QED
    BY Zenon, <2>7, <2>8
<1>Returned. ASSUME SyncReturns(m) PROVE SameRound' /\ CountOK'
  <2> USE <1>Returned
  <2> USE Participants, Markers
  <2>1. /\ m \in Participant /\ pc[m] \in SyncPlace
        /\ Participant' = Participant
        /\ pc'[m] = AfterSync(m) /\ Now(m) = AfterSync(m)
        /\ AfterSync(m) # "weak" => more' = more
        /\ \A n \in Marker \ {m} : more'[n] = more[n] /\ pc'[n] = pc[n]
        /\ \A n \in Participant : Now(n)' = Now(n)
    BY Zenon, ReturnFacts
  <2>2. /\ num_busy' = num_busy /\ asleep' = asleep /\ notified' = notified
        /\ generation' = generation
    BY Zenon DEF SyncReturns, monitor
  <2>3. AfterSync(m) \in {"assert", "weak", "decide", "first", "late", "mourn", "release"}
    BY Zenon, <2>1, AfterSyncIs
  <2>4. \A n \in Participant : IsBusy(Now(n)', more'[n]) = IsBusy(Now(n), more[n])
    BY Zenon, <2>1 DEF IsBusy, Busy
  <2>5. BusyOnes' = BusyOnes
    BY Zenon, <2>1, <2>4 DEF BusyOnes
  <2>6. SameRound'
    <3>1. \A n \in Participant : Now(n)' = "decided" /\ ~more'[n] => num_busy' = 0
      BY Zenon, <2>1, <2>2, <2>3 DEF RoundInv, SameRound
    <3> QED
      BY ZenonT(30), <2>1, <2>2, <3>1 DEF RoundInv, SameRound
  <2>7. CountOK'
    <3>1. pc[m] # "wait"
      BY Zenon, <2>1 DEF SyncPlace
    <3>2. pc'[m] \notin {"wait", "flush", "finalize", "idle", "enter"}
      BY Zenon, <2>1, <2>3
    <3>3. {n \in Marker : pc'[n] = "wait"} = {n \in Marker : pc[n] = "wait"}
      BY Zenon, <2>1, <3>1, <3>2
    <3> QED
      BY Zenon, <2>1, <2>2, <2>5, <3>2, <3>3 DEF RoundInv, CountOK
  <2> QED
    BY Zenon, <2>6, <2>7
\* What a marker that leaves the barrier does to its own state.
<1>PassedType. ASSUME pc[m] \in SyncPlace, Passed(m), UNCHANGED <<slots, scanned>>
               PROVE  /\ pc' \in [Marker -> Place] /\ more' \in [Marker -> BOOLEAN]
                      /\ delayed' \in [Marker -> SUBSET WeakProperty]
                      /\ todo' \in [Marker -> SUBSET WeakProperty]
                      /\ ScanOK'
  <2> USE <1>PassedType
  <2>1. AfterSync(m) \in Place
    BY Zenon, AfterSyncIs DEF Place
  <2>2. /\ pc' = [pc EXCEPT ![m] = AfterSync(m)] /\ pc \in [Marker -> Place]
        /\ delayed \in [Marker -> SUBSET WeakProperty] /\ todo \in [Marker -> SUBSET WeakProperty]
        /\ more \in [Marker -> BOOLEAN]
    BY Zenon DEF Passed, Move, RoundInv, TypeOK
  <2>3. /\ AfterSync(m) = "weak" => /\ todo' = [todo EXCEPT ![m] = delayed[m]]
                                    /\ delayed' = [delayed EXCEPT ![m] = {}]
                                    /\ more' = [more EXCEPT ![m] = FALSE]
        /\ AfterSync(m) # "weak" => todo' = todo /\ delayed' = delayed /\ more' = more
    BY Zenon DEF Passed
  <2>4. /\ pc' \in [Marker -> Place] /\ delayed' \in [Marker -> SUBSET WeakProperty]
        /\ todo' \in [Marker -> SUBSET WeakProperty]
    BY Zenon, <2>1, <2>2, <2>3
  <2>5. more' \in [Marker -> BOOLEAN]
    BY Zenon, <2>2, <2>3
  <2>6. slots[m] = {} /\ scanned[m] = {} /\ todo[m] = {}
    BY Zenon DEF RoundInv, ScanOK, SyncPlace
  <2>7. /\ \A n \in Marker \ {m} : pc'[n] = pc[n] /\ todo'[n] = todo[n]
        /\ pc'[m] = AfterSync(m) /\ (AfterSync(m) # "weak" => todo'[m] = {})
    BY Zenon, <2>2, <2>3, <2>6
  <2>8. ScanOK'
    BY Zenon, <2>6, <2>7 DEF RoundInv, ScanOK
  <2> QED
    BY Zenon, <2>4, <2>5, <2>8
<1>Sync. ASSUME Sync(m) PROVE RoundInv'
  <2> USE <1>Sync
  <2>1. /\ pc[m] \in SyncPlace /\ syncs' = [syncs EXCEPT ![m] = @ + 1]
        /\ UNCHANGED <<slots, marked, blocks, monitor, later, global_list, started,
                       participating, ref_count>>
    BY Zenon DEF Sync
  <2>2. m \in Participant
    BY Zenon, <2>1, Inside DEF SyncPlace
  <2>3. CASE remaining = 1
    <3>1. /\ generation' = generation + 1 /\ remaining' = participating /\ Passed(m)
          /\ UNCHANGED seen
      BY Zenon, <2>3 DEF Sync
    <3>2. /\ pc' \in [Marker -> Place] /\ more' \in [Marker -> BOOLEAN]
          /\ delayed' \in [Marker -> SUBSET WeakProperty]
          /\ todo' \in [Marker -> SUBSET WeakProperty]
          /\ ScanOK'
      <4>1. UNCHANGED <<slots, scanned>>
        BY Zenon, <2>1 DEF later
      <4> QED
        BY <2>1, <3>1, <4>1, <1>PassedType, Zenon
    <3>3. TypeOK'
      <4>1. syncs' \in [Marker -> Nat]
        BY <2>1 DEF RoundInv, TypeOK
      <4>2. generation' \in Nat /\ remaining' \in Nat /\ seen' \in [Marker -> Int]
        BY <3>1 DEF RoundInv, TypeOK
      <4>3. /\ pc' \in [Marker -> Place] /\ delayed' \in [Marker -> SUBSET WeakProperty]
            /\ todo' \in [Marker -> SUBSET WeakProperty]
        BY Zenon, <3>2
      <4>4. more' \in [Marker -> BOOLEAN]
        BY Zenon, <3>2
      <4> QED
        BY <2>1, <4>1, <4>2, <4>3, <4>4, ZenonT(30) DEF RoundInv, TypeOK, blocks, monitor, later
    <3>4. BarrierOK' /\ SameRound' /\ CountOK'
      BY <2>2, <2>3, SyncPasses, <1>LastSync, Zenon
    <3>5. ScanOK'
      BY Zenon, <3>2
    <3> QED
      BY Zenon, <3>3, <3>4, <3>5 DEF RoundInv
  <2>4. CASE remaining # 1
    <3>1. /\ remaining' = remaining - 1 /\ seen' = [seen EXCEPT ![m] = generation]
          /\ UNCHANGED <<pc, todo, delayed, more, generation>>
      BY Zenon, <2>4 DEF Sync
    <3>2. remaining - 1 \in Nat
      BY DEF RoundInv, TypeOK, BarrierOK
    <3>3. TypeOK'
      BY <2>1, <3>1, <3>2 DEF RoundInv, TypeOK, blocks, monitor, later
    <3>4. BarrierOK' /\ SameRound' /\ CountOK'
      BY <2>2, <2>4, SyncWaits, Zenon
    <3>5. ScanOK'
      BY ZenonT(30), <2>1, <3>1 DEF RoundInv, ScanOK, later
    <3> QED
      BY Zenon, <3>3, <3>4, <3>5 DEF RoundInv
  <2> QED
    BY Zenon, <2>3, <2>4
<1>SyncReturns. ASSUME SyncReturns(m) PROVE RoundInv'
  <2> USE <1>SyncReturns
  <2>1. /\ pc[m] \in SyncPlace /\ seen' = [seen EXCEPT ![m] = -1] /\ Passed(m)
        /\ UNCHANGED <<slots, marked, blocks, monitor, later, global_list, started,
                       participating, remaining, generation, ref_count, syncs>>
    BY Zenon DEF SyncReturns
  <2>2. /\ pc' \in [Marker -> Place] /\ more' \in [Marker -> BOOLEAN]
        /\ delayed' \in [Marker -> SUBSET WeakProperty]
        /\ todo' \in [Marker -> SUBSET WeakProperty]
        /\ ScanOK'
    <3>1. UNCHANGED <<slots, scanned>>
      BY Zenon, <2>1 DEF later
    <3> QED
      BY <2>1, <3>1, <1>PassedType, Zenon
  <2>3. TypeOK'
    <3>1. seen' \in [Marker -> Int]
      BY <2>1 DEF RoundInv, TypeOK
    <3>2. /\ pc' \in [Marker -> Place] /\ delayed' \in [Marker -> SUBSET WeakProperty]
          /\ todo' \in [Marker -> SUBSET WeakProperty]
      BY Zenon, <2>2
    <3>3. more' \in [Marker -> BOOLEAN]
      BY Zenon, <2>2
    <3> QED
      BY <2>1, <3>1, <3>2, <3>3, ZenonT(30) DEF RoundInv, TypeOK, blocks, monitor, later
  <2>4. BarrierOK' /\ SameRound' /\ CountOK'
    BY ReturnFacts, <1>Returned, ZenonT(30)
  <2>5. ScanOK'
    BY Zenon, <2>2
  <2> QED
    BY Zenon, <2>3, <2>4, <2>5 DEF RoundInv
<1> QED
  BY Zenon, <1>Sync, <1>SyncReturns

(* The steps from one Sync to the next.                                    *)
LEMMA VotingRound ==
  ASSUME RoundInv, NEW m \in Marker
  PROVE  Count(m) \/ AssertNotBusy(m) \/ Vote(m) \/ Decide(m) \/ Mourn(m) => RoundInv'
<1>Count. ASSUME Count(m) PROVE RoundInv'
  <2> USE <1>Count
  <2>1. /\ pc[m] = "count" /\ pc' = [pc EXCEPT ![m] = "roots"] /\ num_busy' = num_busy + 1
        /\ asleep' = asleep /\ notified' = notified /\ more' = more
        /\ UNCHANGED <<gate, slots, scanned, todo>>
    BY Zenon DEF Count, Move, barrier, gate, weak, later
  <2>2. TypeOK'
    <3>1. "roots" \in Place
      BY Zenon DEF Place
    <3> QED
      BY <3>1 DEF Count, Move, RoundInv, TypeOK, blocks, later, weak, barrier
  <2>3. m \in Participant /\ seen[m] = -1
    BY Zenon, <2>1, Inside, Outside DEF SyncPlace
  <2>4. BarrierOK' /\ SameRound' /\ CountOK'
    <3>1. Marking \in Rounds /\ "count" \in Marking /\ "roots" \in Marking /\ "roots" \notin Deciding
      BY Zenon DEF Rounds, Marking, Busy, Deciding
    <3>2. \A x : One(IsBusy("roots", x)) = 1 /\ One(IsBusy("count", x)) = 0
      BY Zenon DEF One, IsBusy, Busy
    <3>3. "roots" \in Place /\ num_busy \in Nat /\ more \in [Marker -> BOOLEAN] /\ notified \subseteq asleep
      BY Zenon DEF Place, RoundInv, TypeOK, CountOK
    <3>4. num_busy' = num_busy + One(IsBusy("roots", more'[m])) - One(IsBusy(pc[m], more[m]))
      BY <2>1, <3>2, <3>3
    <3> QED
      BY <2>1, <2>3, <3>1, <3>3, <3>4, QuietMove, Zenon
  <2>5. ScanOK'
    BY Zenon, <2>1 DEF RoundInv, ScanOK, TypeOK
  <2> QED
    BY Zenon, <2>2, <2>4, <2>5 DEF RoundInv
<1>AssertNotBusy. ASSUME AssertNotBusy(m) PROVE RoundInv'
  <2> USE <1>AssertNotBusy
  <2>1. /\ pc[m] = "assert" /\ pc' = [pc EXCEPT ![m] = "debug"]
        /\ UNCHANGED <<slots, marked, blocks, monitor, later, weak, started, barrier>>
    BY Zenon DEF AssertNotBusy, Move
  <2>2. TypeOK'
    BY Zenon, <2>1 DEF RoundInv, TypeOK, blocks, monitor, later, weak, barrier, Place
  <2>3. BarrierOK' /\ SameRound' /\ CountOK'
    <3>1. m \in Participant /\ seen[m] = -1
      BY Zenon, <2>1, Inside, Outside DEF SyncPlace
    <3>2. /\ UNCHANGED <<gate, asleep, num_busy>> /\ notified' \subseteq asleep
          /\ more' \in [Marker -> BOOLEAN] /\ \A n \in Marker \ {m} : more'[n] = more[n]
      BY Zenon, <2>1 DEF barrier, gate, monitor, weak, RoundInv, CountOK, TypeOK
    <3>3. /\ Checking \in Rounds /\ pc[m] \in Checking /\ "debug" \in Checking /\ "debug" \in Place
          /\ pc[m] \notin Busy \cup {"wait", "voted", "decide", "decided"}
          /\ "debug" \notin Busy \cup {"wait", "voted", "decide", "decided"}
          /\ "debug" \notin {"idle", "enter", "flush"} /\ "debug" # "finalize"
          /\ "debug" \notin {"release", "done"}
      BY Zenon, <2>1 DEF Checking, Rounds, Busy, Place
    <3> QED
      BY <2>1, <3>1, <3>2, <3>3, CalmMove, Zenon
  <2>4. ScanOK'
    BY Zenon, <2>1 DEF RoundInv, ScanOK, TypeOK, later, weak
  <2> QED
    BY Zenon, <2>2, <2>3, <2>4 DEF RoundInv
<1>Vote. ASSUME Vote(m) PROVE RoundInv'
  <2> USE <1>Vote
  <2>1. /\ pc[m] = "weak" /\ slots[m] = {} /\ todo[m] = {} /\ pc' = [pc EXCEPT ![m] = "voted"]
        /\ num_busy' = num_busy + IF more[m] THEN 1 ELSE 0
        /\ UNCHANGED <<slots, marked, blocks, asleep, notified, later, weak, started, barrier>>
    BY Zenon DEF Vote, Move
  <2>2. TypeOK'
    BY <2>1 DEF RoundInv, TypeOK, blocks, later, weak, barrier, Place
  <2>3. BarrierOK' /\ SameRound' /\ CountOK'
    <3>1. m \in Participant /\ seen[m] = -1
      BY Zenon, <2>1, Inside, Outside DEF SyncPlace
    <3>2. /\ UNCHANGED gate /\ asleep' = asleep /\ notified' \subseteq asleep
          /\ more' \in [Marker -> BOOLEAN] /\ \A n \in Marker \ {m} : more'[n] = more[n]
      BY Zenon, <2>1 DEF barrier, gate, weak, RoundInv, CountOK, TypeOK
    <3>3. /\ Weakening \in Rounds /\ pc[m] \in Weakening /\ "voted" \in Weakening /\ "voted" \in Place
          /\ "voted" \notin Deciding /\ "voted" # "wait" /\ pc[m] # "wait"
          /\ "voted" \notin {"idle", "enter", "flush"} /\ "voted" # "finalize"
          /\ "voted" \notin {"release", "done"}
      BY ZenonT(30), <2>1 DEF Weakening, Deciding, Rounds, Place
    <3>4. num_busy' = num_busy + One(IsBusy("voted", more'[m])) - One(IsBusy(pc[m], more[m]))
      <4>1. more'[m] = more[m] /\ num_busy \in Nat
        BY Zenon, <2>1 DEF weak, RoundInv, TypeOK
      <4>2. (IsBusy("voted", more'[m]) <=> more[m]) /\ ~IsBusy(pc[m], more[m])
        BY Zenon, <2>1, <4>1 DEF IsBusy, Busy
      <4> QED
        BY <2>1, <4>1, <4>2 DEF One
    <3> QED
      BY <2>1, <3>1, <3>2, <3>3, <3>4, QuietMove, ZenonT(30)
  <2>4. ScanOK'
    BY Zenon, <2>1 DEF RoundInv, ScanOK, TypeOK, later, weak
  <2> QED
    BY Zenon, <2>2, <2>3, <2>4 DEF RoundInv
<1>Decide. ASSUME Decide(m) PROVE RoundInv'
  <2> USE <1>Decide
  <2>1. /\ pc[m] = "decide" /\ pc' = [pc EXCEPT ![m] = "decided"]
        /\ UNCHANGED <<slots, marked, blocks, asleep, notified, later, delayed,
                       todo, global_list, started, barrier>>
    BY Zenon DEF Decide, Move
  <2>2. /\ num_busy \in Nat /\ more \in [Marker -> BOOLEAN] /\ pc \in [Marker -> Place]
        /\ m \in Participant /\ seen[m] = -1 /\ Participant \in SUBSET Marker
    BY ZenonT(30), <2>1, Inside, Outside, Participants DEF RoundInv, TypeOK, SyncPlace
  <2>3. /\ ~more[m] /\ num_busy > 0 => num_busy' = num_busy + 1 /\ more' = [more EXCEPT ![m] = TRUE]
        /\ more[m] \/ num_busy = 0 => num_busy' = num_busy /\ more' = more
    <3>1. IF ~more[m] /\ num_busy > 0
          THEN num_busy' = num_busy + 1 /\ more' = [more EXCEPT ![m] = TRUE]
          ELSE num_busy' = num_busy /\ more' = more
      BY Zenon DEF Decide
    <3>2. num_busy = 0 => ~(num_busy > 0)
      BY <2>2
    <3> QED
      BY <3>1, <3>2, Zenon
  <2>4. /\ num_busy' \in Nat /\ more' \in [Marker -> BOOLEAN]
        /\ \A n \in Marker \ {m} : more'[n] = more[n]
        /\ ~more'[m] => num_busy' = 0
        /\ (num_busy' = 0) <=> (num_busy = 0)
        /\ num_busy' = num_busy + One(more'[m]) - One(more[m])
    <3>1. CASE ~more[m] /\ num_busy > 0
      <4>1. num_busy' = num_busy + 1 /\ more' = [more EXCEPT ![m] = TRUE]
        BY Zenon, <2>3, <3>1
      <4>2. more' \in [Marker -> BOOLEAN] /\ more'[m] /\ \A n \in Marker \ {m} : more'[n] = more[n]
        BY Zenon, <2>2, <4>1
      <4>3. One(more'[m]) = 1 /\ One(more[m]) = 0
        BY Zenon, <3>1, <4>2 DEF One
      <4>4. num_busy' = num_busy + 1 - 0 /\ num_busy' \in Nat
        BY <2>2, <4>1
      <4>5. num_busy' # 0 /\ num_busy # 0
        BY <2>2, <3>1, <4>1
      <4> QED
        BY <4>2, <4>3, <4>4, <4>5, Zenon
    <3>2. CASE more[m] \/ num_busy = 0
      <4>1. num_busy' = num_busy /\ more' = more
        BY Zenon, <2>3, <3>2
      <4>2. num_busy' = num_busy + One(more'[m]) - One(more[m])
        BY <2>2, <4>1 DEF One
      <4> QED
        BY Zenon, <2>2, <3>2, <4>1, <4>2
    <3> QED
      BY <2>2, <3>1, <3>2
  <2>5. TypeOK'
    <3>1. "decided" \in Place
      BY Zenon DEF Place
    <3> QED
      BY Zenon, <2>1, <2>4, <3>1 DEF RoundInv, TypeOK, blocks, later, barrier
  <2>6. /\ UNCHANGED gate /\ asleep' = asleep /\ notified' = notified
        /\ Deciding \in Rounds /\ pc[m] \in Deciding /\ "decided" \in Deciding /\ "decided" \in Place
        /\ "decided" \notin {"idle", "enter"} /\ "decided" \notin {"release", "done"}
    BY Zenon, <2>1 DEF barrier, gate, Deciding, Rounds, Place
  <2>7. /\ BarrierOK'
        /\ \E R \in Rounds : "decided" \in R /\ \A n \in Participant' : Now(n)' \in R
        /\ generation' = 0 => \A n \in Participant' : Now(n)' \in Marking
        /\ Cardinality(BusyOnes') = Cardinality(BusyOnes) + One(IsBusy("decided", more'[m]))
                                      - One(IsBusy(pc[m], more[m]))
    BY <2>1, <2>2, <2>4, <2>6, RoundMove, Zenon
  <2>8. /\ Participant' = Participant /\ Now(m)' = "decided"
        /\ \A n \in Participant \ {m} : Now(n)' = Now(n)
    BY <2>1, <2>2, <2>4, <2>6, MoveFacts, Zenon
  <2>9. SameRound'
    <3>1. ASSUME NEW n \in Participant, Now(n)' = "decided", ~more'[n]
          PROVE  num_busy' = 0
      <4>1. CASE n = m
        BY Zenon, <2>4, <3>1, <4>1
      <4>2. CASE n # m
        BY SMTT(30), <2>2, <2>4, <2>8, <3>1, <4>2 DEF RoundInv, SameRound
      <4> QED
        BY Zenon, <4>1, <4>2
    <3> QED
      BY Zenon, <2>7, <2>8, <3>1 DEF SameRound
  <2>10. CountOK'
    <3>1. num_busy' = Cardinality(BusyOnes')
      <4>1. (IsBusy("decided", more'[m]) <=> more'[m]) /\ (IsBusy(pc[m], more[m]) <=> more[m])
        BY Zenon, <2>1 DEF IsBusy, Busy
      <4>2. num_busy = Cardinality(BusyOnes)
        BY Zenon DEF RoundInv, CountOK
      <4>3. One(IsBusy("decided", more'[m])) = One(more'[m]) /\ One(IsBusy(pc[m], more[m])) = One(more[m])
        BY Zenon, <4>1 DEF One
      <4> QED
        BY Zenon, <2>4, <2>7, <4>2, <4>3
    <3>2. \A n \in Marker : pc'[n] = "wait" <=> pc[n] = "wait"
      BY Zenon, <2>1, <2>2
    <3>3. asleep' = {n \in Marker : pc'[n] = "wait"}
      BY Zenon, <2>6, <3>2 DEF RoundInv, CountOK
    <3> QED
      BY <2>1, <2>2, <2>6, <3>1, <3>3 DEF RoundInv, CountOK
  <2>11. ScanOK'
    BY ZenonT(30), <2>1, <2>2 DEF RoundInv, ScanOK, later
  <2> QED
    BY Zenon, <2>5, <2>7, <2>9, <2>10, <2>11 DEF RoundInv
<1>Mourn. ASSUME Mourn(m) PROVE RoundInv'
  <2> USE <1>Mourn
  <2>1. /\ pc[m] = "mourn" /\ pc' = [pc EXCEPT ![m] = "exit"]
        /\ delayed' = [delayed EXCEPT ![m] = {}]
        /\ UNCHANGED <<slots, marked, blocks, monitor, later, todo, more,
                       global_list, started, barrier>>
    BY Zenon DEF Mourn, Move
  <2>2. TypeOK'
    BY Zenon, <2>1 DEF RoundInv, TypeOK, blocks, monitor, later, barrier, Place
  <2>3. BarrierOK' /\ SameRound' /\ CountOK'
    <3>1. m \in Participant /\ seen[m] = -1
      BY Zenon, <2>1, Inside, Outside DEF SyncPlace
    <3>2. /\ UNCHANGED <<gate, asleep, num_busy>> /\ notified' \subseteq asleep
          /\ more' \in [Marker -> BOOLEAN] /\ \A n \in Marker \ {m} : more'[n] = more[n]
      BY Zenon, <2>1 DEF barrier, gate, monitor, RoundInv, CountOK, TypeOK
    <3>3. /\ Mourning \in Rounds /\ pc[m] \in Mourning /\ "exit" \in Mourning /\ "exit" \in Place
          /\ pc[m] \notin Busy \cup {"wait", "voted", "decide", "decided"}
          /\ "exit" \notin Busy \cup {"wait", "voted", "decide", "decided"}
          /\ "exit" \notin {"idle", "enter", "flush"} /\ "exit" # "finalize"
          /\ "exit" \notin {"release", "done"}
      BY Zenon, <2>1 DEF Mourning, Rounds, Busy, Place
    <3> QED
      BY <2>1, <3>1, <3>2, <3>3, CalmMove, Zenon
  <2>4. ScanOK'
    BY ZenonT(30), <2>1 DEF RoundInv, ScanOK, TypeOK, later
  <2> QED
    BY Zenon, <2>2, <2>3, <2>4 DEF RoundInv
<1> QED
  BY Zenon, <1>Count, <1>AssertNotBusy, <1>Vote, <1>Decide, <1>Mourn

(* Markers start, try to enter the barrier, and end.                       *)
LEMMA EndsRound ==
  ASSUME RoundInv
  PROVE  /\ \A m \in Marker : Release(m) => RoundInv'
         /\ \A h \in Helper : StartTask(h) \/ TryEnter(h) => RoundInv'
         /\ StartMain \/ Finalize => RoundInv'
<1>OutsiderMove. ASSUME NEW h \in Marker \ Participant,
                        NEW q \in {"enter", "release", "done"},
                        pc' = [pc EXCEPT ![h] = q],
                        UNCHANGED <<gate, asleep, num_busy>>, more' = more,
                        notified' \subseteq asleep
                 PROVE  BarrierOK' /\ SameRound' /\ CountOK'
  <2> USE <1>OutsiderMove
  <2> USE Participants, Markers
  <2>1. /\ Participant' = Participant
        /\ \A n \in Participant : Now(n)' = Now(n) /\ pc'[n] = pc[n]
    BY Zenon, OutsiderFacts
  <2>2. pc \in [Marker -> Place] /\ h \in Marker
    BY Zenon DEF RoundInv, TypeOK
  <2>3. BarrierOK'
    <3>1. \A n \in Participant : AtBarrier(n)'
      BY <2>1, SameStage, Zenon DEF RoundInv, BarrierOK, gate
    <3>2. Absent' = Absent
      BY Zenon, <2>1 DEF Absent, gate
    <3> QED
      BY <2>1, <3>1, <3>2, Zenon DEF RoundInv, BarrierOK, gate
  <2>4. SameRound'
    BY <2>1 DEF RoundInv, SameRound, gate
  <2>5. BusyOnes' = BusyOnes
    BY Zenon, <2>1 DEF BusyOnes
  <2>6. pc[h] # "wait"
    BY Zenon, <2>2 DEF Participant
  <2>7. CountOK'
    BY <2>1, <2>2, <2>5, <2>6 DEF RoundInv, CountOK
  <2> QED
    BY Zenon, <2>3, <2>4, <2>7
<1>Enter. ASSUME NEW h \in Helper, TryEnter(h), generation = 0
          PROVE  BarrierOK' /\ SameRound' /\ CountOK'
  <2> USE <1>Enter
  <2> USE Participants, Markers
  <2>1. /\ h \in Marker \ Participant
        /\ Participant' = Participant \cup {h}
        /\ Now(h)' = "count"
        /\ \A n \in Participant : Now(n)' = Now(n) /\ pc'[n] = pc[n]
    BY Zenon, EnterFacts
  <2>2. /\ pc \in [Marker -> Place] /\ pc[h] = "enter" /\ pc' = [pc EXCEPT ![h] = "count"]
        /\ syncs' = syncs /\ seen' = seen /\ generation' = generation /\ more' = more
        /\ num_busy' = num_busy /\ asleep' = asleep /\ notified' = notified
        /\ remaining' = remaining + 1 /\ participating' = participating + 1
    BY Zenon DEF RoundInv, TypeOK, TryEnter, weak, monitor, Move
  <2>3. seen[h] = -1 /\ syncs[h] = 0
    BY Zenon, <2>1 DEF RoundInv, BarrierOK
  <2>4. BarrierOK'
    <3>1. Absent' = Absent \cup {h}
      BY <2>1, <2>2, <2>3 DEF RoundInv, TypeOK, Absent
    <3>2. Cardinality(Participant') = Cardinality(Participant) + 1
      BY Zenon, <2>1, Counts
    <3>3. Cardinality(Absent \cup {h}) = Cardinality(Absent) + 1
      <4>1. Absent \in SUBSET Marker /\ h \notin Absent
        BY Zenon, <2>1 DEF Absent
      <4> QED
        BY Zenon, <4>1, <2>1, Counts
    <3>4. /\ participating' = Cardinality(Participant')
          /\ remaining' = Cardinality(Absent')
          /\ remaining' >= 1
      BY <2>2, <3>1, <3>2, <3>3 DEF RoundInv, BarrierOK, TypeOK
    <3>5. \A n \in Participant' : AtBarrier(n)'
      <4>1. \A n \in Participant : AtBarrier(n)'
        BY <2>1, <2>2, SameStage, Zenon DEF RoundInv, BarrierOK
      <4>2. AtBarrier(h)'
        BY Zenon, <2>2, <2>3 DEF AtBarrier
      <4> QED
        BY <2>1, <4>1, <4>2, Zenon
    <3>6. \A n \in Marker \ Participant' : seen'[n] = -1 /\ syncs'[n] = 0
      BY Zenon, <2>1, <2>2 DEF RoundInv, BarrierOK
    <3> QED
      BY Zenon, <3>4, <3>5, <3>6 DEF BarrierOK
  <2>5. SameRound'
    <3>1. \A n \in Participant' : Now(n)' \in Marking
      BY Zenon, <2>1 DEF RoundInv, SameRound, Marking
    <3>2. "decided" \notin Marking /\ Marking \in Rounds
      BY Zenon DEF Marking, Busy, Rounds
    <3> QED
      BY Zenon, <3>1, <3>2 DEF SameRound
  <2>6. BusyOnes' = BusyOnes
    <3>1. ~IsBusy("count", more'[h])
      BY Zenon DEF IsBusy, Busy
    <3> QED
      BY Zenon, <2>1, <2>2, <3>1 DEF BusyOnes
  <2>7. CountOK'
    BY Zenon, <2>1, <2>2, <2>6 DEF RoundInv, CountOK
  <2> QED
    BY Zenon, <2>4, <2>5, <2>7
<1>FlushType. ASSUME TypeOK, NEW m \in Marker, Flush(m), notified \subseteq asleep
              PROVE  /\ stack' \in SUBSET (SUBSET Object) /\ input' \in [Marker -> SUBSET Object]
                     /\ notified' \in SUBSET Marker /\ notified' \subseteq asleep
                     /\ deferredStack' \in SUBSET Object /\ deferred' \in [Marker -> SUBSET Object]
  <2> USE <1>FlushType
  <2>1. input \in [Marker -> SUBSET Object] /\ input[m] \in SUBSET Object
        /\ deferred \in [Marker -> SUBSET Object] /\ deferredStack \in SUBSET Object
    BY Zenon DEF TypeOK
  <2>2. stack' \in SUBSET (SUBSET Object) /\ notified' \in SUBSET Marker /\ notified' \subseteq asleep
    <3>1. CASE input[m] = {}
      BY Zenon, <3>1 DEF Flush, TypeOK
    <3>2. CASE input[m] # {}
      BY Zenon, <2>1, <3>2, PushBlockType DEF Flush
    <3> QED
      BY Zenon, <3>1, <3>2
  <2> QED
    BY Zenon, <2>1, <2>2 DEF Flush
<1>Release. ASSUME NEW m \in Marker, Release(m) PROVE RoundInv'
  <2> USE <1>Release
  <2> DEFINE q == IF m = Main THEN "finalize" ELSE "done"
  <2>1. /\ pc[m] = "release" /\ pc' = [pc EXCEPT ![m] = q] /\ ref_count' = ref_count - 1
        /\ UNCHANGED <<slots, marked, blocks, monitor, later, weak, started,
                       participating, remaining, generation, seen, syncs>>
    BY Zenon DEF Release, Move
  <2>2. q \in {"finalize", "done"} /\ (q = "finalize" <=> m = Main) /\ q \in Place
    BY Zenon DEF Place
  <2> HIDE DEF q
  <2>3. TypeOK'
    BY <2>1, <2>2 DEF RoundInv, TypeOK, blocks, monitor, later, weak
  <2>4. /\ UNCHANGED <<gate, asleep, num_busy>> /\ notified' \subseteq asleep /\ more' = more
        /\ more' \in [Marker -> BOOLEAN] /\ \A n \in Marker \ {m} : more'[n] = more[n]
    BY Zenon, <2>1 DEF gate, monitor, weak, RoundInv, CountOK, TypeOK
  <2>5. BarrierOK' /\ SameRound' /\ CountOK'
    <3>1. CASE m \in Participant
      <4>1. seen[m] = -1 /\ (m = Main \/ syncs[m] > 0)
        BY Zenon, <2>1, <3>1, Outside DEF SyncPlace, Participant
      <4>2. /\ Leaving \in Rounds /\ pc[m] \in Leaving /\ q \in Leaving
            /\ pc[m] \notin Busy \cup {"wait", "voted", "decide", "decided"}
            /\ q \notin Busy \cup {"wait", "voted", "decide", "decided"}
            /\ q \notin {"idle", "enter", "flush"}
        BY Zenon, <2>1, <2>2 DEF Leaving, Rounds, Busy
      <4> QED
        BY <2>1, <2>2, <2>4, <3>1, <4>1, <4>2, CalmMove, ZenonT(30)
    <3>2. CASE m \notin Participant
      <4>1. m # Main /\ m \in Marker \ Participant
        BY Zenon, <3>2, Participants
      <4>2. q \in {"enter", "release", "done"}
        BY Zenon, <2>2, <4>1
      <4> QED
        BY <2>1, <2>4, <4>1, <4>2, <1>OutsiderMove, Zenon
    <3> QED
      BY Zenon, <3>1, <3>2
  <2>6. ScanOK'
    BY Zenon, <2>1 DEF RoundInv, ScanOK, TypeOK, later, weak
  <2> QED
    BY Zenon, <2>3, <2>5, <2>6 DEF RoundInv
<1>Finalize. ASSUME Finalize PROVE RoundInv'
  <2> USE <1>Finalize
  <2>1. /\ pc[Main] = "finalize" /\ pc' = [pc EXCEPT ![Main] = "done"]
        /\ UNCHANGED <<slots, marked, blocks, monitor, later, weak, started, barrier>>
    BY Zenon DEF Finalize, Move
  <2>2. TypeOK'
    BY Zenon, <2>1 DEF RoundInv, TypeOK, blocks, monitor, later, weak, barrier, Place
  <2>3. BarrierOK' /\ SameRound' /\ CountOK'
    <3>1. Main \in Participant /\ seen[Main] = -1
      BY Zenon, <2>1, Participants, Outside DEF SyncPlace
    <3>2. /\ UNCHANGED <<gate, asleep, num_busy>> /\ notified' \subseteq asleep
          /\ more' \in [Marker -> BOOLEAN] /\ \A n \in Marker \ {Main} : more'[n] = more[n]
      BY Zenon, <2>1 DEF barrier, gate, monitor, weak, RoundInv, CountOK, TypeOK
    <3>3. /\ Leaving \in Rounds /\ pc[Main] \in Leaving /\ "done" \in Leaving /\ "done" \in Place
          /\ pc[Main] \notin Busy \cup {"wait", "voted", "decide", "decided"}
          /\ "done" \notin Busy \cup {"wait", "voted", "decide", "decided"}
          /\ "done" \notin {"idle", "enter", "flush"} /\ "done" # "finalize"
      BY Zenon, <2>1 DEF Leaving, Rounds, Busy, Place
    <3> QED
      BY <2>1, <3>1, <3>2, <3>3, CalmMove, Zenon
  <2>4. ScanOK'
    BY Zenon, <2>1, Markers DEF RoundInv, ScanOK, TypeOK, later, weak
  <2> QED
    BY Zenon, <2>2, <2>3, <2>4 DEF RoundInv
<1>StartTask. ASSUME NEW h \in Helper, StartTask(h) PROVE RoundInv'
  <2> USE <1>StartTask
  <2>1. /\ pc[h] = "idle" /\ Flush(h) /\ pc' = [pc EXCEPT ![h] = "enter"]
        /\ global_list' = global_list \cup delayed[h] /\ delayed' = [delayed EXCEPT ![h] = {}]
        /\ UNCHANGED <<slots, marked, output, asleep, num_busy, scanned, todo, more,
                       started, barrier>>
    BY Zenon DEF StartTask, Move
  <2>2. h \in Marker \ Participant /\ h \in Marker
    BY Zenon, <2>1, Markers DEF Participant
  <2>3. /\ stack' \in SUBSET (SUBSET Object) /\ input' \in [Marker -> SUBSET Object]
        /\ notified' \in SUBSET Marker /\ notified' \subseteq asleep
        /\ deferredStack' \in SUBSET Object /\ deferred' \in [Marker -> SUBSET Object]
    <3>1. TypeOK /\ notified \subseteq asleep
      BY Zenon DEF RoundInv, CountOK
    <3> QED
      BY <2>1, <2>2, <3>1, <1>FlushType, Zenon
  <2>4. TypeOK'
    BY Zenon, <2>1, <2>2, <2>3 DEF RoundInv, TypeOK, barrier, Place
  <2>5. BarrierOK' /\ SameRound' /\ CountOK'
    <3>1. UNCHANGED <<gate, asleep, num_busy>> /\ more' = more /\ "enter" \in {"enter", "release", "done"}
      BY Zenon, <2>1 DEF barrier, gate
    <3> QED
      BY <2>1, <2>2, <2>3, <3>1, <1>OutsiderMove, Zenon
  <2>6. ScanOK'
    BY ZenonT(30), <2>1, <2>2 DEF RoundInv, ScanOK, TypeOK
  <2> QED
    BY Zenon, <2>4, <2>5, <2>6 DEF RoundInv
<1>StartMain. ASSUME StartMain PROVE RoundInv'
  <2> USE <1>StartMain
  <2>1. /\ pc[Main] = "flush" /\ Flush(Main) /\ pc' = [pc EXCEPT ![Main] = "count"]
        /\ global_list' = {} /\ delayed' = [delayed EXCEPT ![Main] = @ \cup global_list]
        /\ UNCHANGED <<slots, marked, output, asleep, num_busy, scanned, todo, more,
                       started, barrier>>
    BY Zenon DEF StartMain, Move
  <2>2. Main \in Participant /\ seen[Main] = -1 /\ Main \in Marker
    BY Zenon, <2>1, Participants, Markers, Outside DEF SyncPlace
  <2>3. /\ stack' \in SUBSET (SUBSET Object) /\ input' \in [Marker -> SUBSET Object]
        /\ notified' \in SUBSET Marker /\ notified' \subseteq asleep
        /\ deferredStack' \in SUBSET Object /\ deferred' \in [Marker -> SUBSET Object]
    <3>1. TypeOK /\ notified \subseteq asleep
      BY Zenon DEF RoundInv, CountOK
    <3> QED
      BY <2>1, <2>2, <3>1, <1>FlushType, Zenon
  <2>4. TypeOK'
    BY Zenon, <2>1, <2>2, <2>3 DEF RoundInv, TypeOK, barrier, Place
  <2>5. BarrierOK' /\ SameRound' /\ CountOK'
    <3>1. /\ UNCHANGED <<gate, asleep, num_busy>>
          /\ more' \in [Marker -> BOOLEAN] /\ \A n \in Marker \ {Main} : more'[n] = more[n]
      BY Zenon, <2>1 DEF barrier, gate, RoundInv, TypeOK
    <3>2. /\ Marking \in Rounds /\ pc[Main] \in Marking /\ "count" \in Marking /\ "count" \in Place
          /\ pc[Main] \notin Busy \cup {"wait", "voted", "decide", "decided"}
          /\ "count" \notin Busy \cup {"wait", "voted", "decide", "decided"}
          /\ "count" \notin {"idle", "enter", "flush"} /\ "count" # "finalize"
          /\ "count" \notin {"release", "done"}
      BY Zenon, <2>1 DEF Marking, Rounds, Busy, Place
    <3> QED
      BY <2>1, <2>2, <2>3, <3>1, <3>2, CalmMove, ZenonT(30)
  <2>6. ScanOK'
    BY ZenonT(30), <2>1, <2>2 DEF RoundInv, ScanOK, TypeOK
  <2> QED
    BY Zenon, <2>4, <2>5, <2>6 DEF RoundInv
<1>TryEnter. ASSUME NEW h \in Helper, TryEnter(h) PROVE RoundInv'
  <2> USE <1>TryEnter
  <2>1. /\ pc[h] = "enter"
        /\ UNCHANGED <<slots, marked, blocks, monitor, later, weak, started,
                       generation, ref_count, seen, syncs>>
    BY Zenon DEF TryEnter
  <2>2. h \in Marker \ Participant /\ h \in Marker
    BY Zenon, <2>1, Markers DEF Participant
  <2>3. /\ generation # 0 => pc' = [pc EXCEPT ![h] = "release"] /\ UNCHANGED <<participating, remaining>>
        /\ generation = 0 => /\ pc' = [pc EXCEPT ![h] = "count"] /\ remaining' = remaining + 1
                             /\ participating' = participating + 1
    BY Zenon DEF TryEnter, Move
  <2>4. TypeOK'
    BY <2>1, <2>2, <2>3 DEF RoundInv, TypeOK, blocks, monitor, later, weak, Place
  <2>5. BarrierOK' /\ SameRound' /\ CountOK'
    <3>1. CASE generation = 0
      BY <3>1, <1>Enter, Zenon
    <3>2. CASE generation # 0
      <4>1. /\ UNCHANGED <<gate, asleep, num_busy>> /\ more' = more /\ notified' \subseteq asleep
            /\ "release" \in {"enter", "release", "done"} /\ pc' = [pc EXCEPT ![h] = "release"]
        BY ZenonT(30), <2>1, <2>3, <3>2 DEF gate, monitor, weak, RoundInv, CountOK
      <4> QED
        BY <2>2, <4>1, <1>OutsiderMove, Zenon
    <3> QED
      BY Zenon, <3>1, <3>2
  <2>6. ScanOK'
    <3>1. \A n \in Marker \ {h} : pc'[n] = pc[n]
      BY Zenon, <2>3 DEF RoundInv, TypeOK
    <3>2. slots[h] = {} /\ scanned[h] = {} /\ todo[h] = {}
      BY Zenon, <2>1, <2>2 DEF RoundInv, ScanOK
    <3> QED
      BY Zenon, <2>1, <3>1, <3>2 DEF RoundInv, ScanOK, later, weak
  <2> QED
    BY Zenon, <2>4, <2>5, <2>6 DEF RoundInv
<1> QED
  BY Zenon, <1>Release, <1>Finalize, <1>StartTask, <1>StartMain, <1>TryEnter

\* At the start only Main takes part.
LEMMA InitRound ==
  ASSUME Init
  PROVE  RoundInv
<1> USE Markers
<1>1. TypeOK
  <2>1. /\ ref_count \in Int /\ num_busy \in Nat /\ participating \in Nat /\ remaining \in Nat
        /\ generation \in Nat /\ seen \in [Marker -> Int] /\ syncs \in [Marker -> Nat]
    BY FS_CardinalityType DEF Init
  <2>2. /\ marked \in SUBSET Object /\ input \in [Marker -> SUBSET Object]
        /\ deferred \in [Marker -> SUBSET Object] /\ delayed \in [Marker -> SUBSET WeakProperty]
    BY ParallelMarkAssumption DEF Init, LeftMarked
  <2>3. pc \in [Marker -> Place] /\ more \in [Marker -> BOOLEAN]
    BY Zenon DEF Init, Place
  <2> QED
    BY Zenon, <2>1, <2>2, <2>3 DEF Init, TypeOK
<1>2. ScanOK
  BY Zenon DEF Init, ScanOK
<1>3. Participant = {Main}
  BY Zenon DEF Init, Participant
<1>4. Now(Main) = "flush" /\ Absent = {Main} /\ BusyOnes = {}
  <2>1. Now(Main) = "flush"
    BY Zenon DEF Init, Now, Freed
  <2>2. Absent = {Main}
    BY <1>3 DEF Init, Absent
  <2>3. ~IsBusy("flush", more[Main])
    BY Zenon DEF IsBusy, Busy
  <2> QED
    BY Zenon, <1>3, <2>1, <2>2, <2>3 DEF BusyOnes
<1>5. Cardinality({Main}) = 1 /\ Cardinality({}) = 0
  BY Zenon, FS_Singleton, FS_EmptySet
<1>6. BarrierOK
  BY <1>3, <1>4, <1>5 DEF Init, BarrierOK, AtBarrier
<1>7. SameRound
  BY Zenon, <1>3, <1>4 DEF SameRound, Rounds, Marking
<1>8. CountOK
  BY Zenon, <1>4, <1>5 DEF Init, CountOK
<1> QED
  BY Zenon, <1>1, <1>2, <1>6, <1>7, <1>8 DEF RoundInv

\* Every step preserves the invariant of the rounds ...
LEMMA NextRound ==
  ASSUME RoundInv, [Next]_vars
  PROVE  RoundInv'
<1>1. ASSUME NEW m \in Marker, Step(m) PROVE RoundInv'
  BY <1>1, ScanRound, WaitRound, BarrierRound, VotingRound, EndsRound, ZenonT(30) DEF Step
<1>2. CASE UNCHANGED vars
  <2>1. UNCHANGED <<pc, asleep, num_busy, gate>> /\ more' = more /\ notified' \subseteq asleep
    BY Zenon, <1>2 DEF vars, gate, RoundInv, CountOK
  <2>2. BarrierOK' /\ SameRound' /\ CountOK'
    BY <2>1, RoundStay, Zenon
  <2>3. TypeOK' /\ ScanOK'
    BY Zenon, <1>2 DEF vars, RoundInv, TypeOK, ScanOK
  <2> QED
    BY Zenon, <2>2, <2>3 DEF RoundInv
<1> QED
  BY <1>1, <1>2, WaitRound, EndsRound, Zenon DEF Next

\* ... so it holds in every state.
LEMMA RoundInvariant == Spec => []RoundInv
BY InitRound, NextRound, PTL DEF Spec

(***************************************************************************)
(* ThreadBarrier: nobody has returned from a Sync that another participant *)
(* has not called, however many tasks enter and whenever they do.          *)
(***************************************************************************)
THEOREM RoundsLineUpHolds == Spec => []RoundsLineUp
<1>1. RoundInv => RoundsLineUp
  BY DEF RoundInv, TypeOK, BarrierOK, AtBarrier, RoundsLineUp, Returned, Participant
<1> QED
  BY <1>1, RoundInvariant, PTL
=============================================================================
