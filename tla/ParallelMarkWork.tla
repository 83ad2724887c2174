-------------------------- MODULE ParallelMarkWork --------------------------
(***************************************************************************)
(* The markers are told to stop only when no work is left: the second      *)
(* layer of the invariant of ParallelMark, above the rounds.               *)
(***************************************************************************)
EXTENDS ParallelMarkRounds

\* What m has found and delayed, were it to return from the Sync it is in.
ToWeak(m) == Freed(m) /\ AfterSync(m) = "weak"
NowMore(m) == more[m] /\ ~ToWeak(m)
NowDelayed(m) == IF ToWeak(m) THEN {} ELSE delayed[m]

\* A marker at p, that found more to mark if x, will yet look at the stack.
LooksAt(p, x) ==
    \/ p \in {"flush", "count", "roots", "early", "first", "drain", "pending", "again"}
    \/ p \in {"pendingFirst", "weak", "voted", "decide", "decided"} /\ x

\* What marker m has to do there.
WorkAt(m, p, x) ==
    /\ p \in {"work", "wait", "stop", "assert", "debug", "late", "deferredDone",
              "mourn", "exit", "release", "finalize", "done"} => NoWork(m)
    /\ p \in {"pendingFirst", "pending", "weak"} =>
          x \/ (input[m] = {} /\ output[m] = {} /\ slots[m] \subseteq marked)
    /\ p \in {"voted", "decide", "decided"} => x \/ NoWork(m)

\* What is deferred while marker m is there.
DeferAt(m, p) ==
    /\ p \notin {"flush", "count", "roots"} => started = DOMAIN RootSlice
    /\ p \notin {"flush", "count", "roots", "early"} =>
          deferred[m] \cup scanned[m] \subseteq Instructions /\ (m = Main => deferredStack = {})
    /\ p \in {"deferredDone", "mourn", "exit", "release", "finalize", "done"} => deferred[m] = {}

\* The same for marker m, were it to return from the Sync it is in.
Looks(m) == LooksAt(Now(m), NowMore(m))
WorkOK(m) == WorkAt(m, Now(m), NowMore(m))
DeferOK(m) == DeferAt(m, Now(m))

\* Helpers that do not take part hold nothing once they are started.
RestOK ==
    /\ \A m \in Marker \ Participant : output[m] = {}
    /\ \A m \in Marker \ Participant : pc[m] # "idle" =>
          input[m] = {} /\ deferred[m] = {} /\ delayed[m] = {}
    /\ pc[Main] # "flush" => global_list = {} /\ \A h \in Helper : pc[h] # "idle"

\* The invariant of the work: who holds blocks, and who will look for more.
WorkInv ==
    /\ RestOK
    /\ \A m \in Participant : WorkOK(m) /\ DeferOK(m)
    /\ stack # {} => \E m \in Participant : Looks(m)
    /\ \E m \in Participant : ~Freed(m)

\* A step leaves alone what the markers other than m hold, and where they are.
Kept(m) ==
    \A n \in Marker \ {m} :
       /\ input'[n] = input[n] /\ output'[n] = output[n] /\ slots'[n] = slots[n]
       /\ deferred'[n] = deferred[n] /\ scanned'[n] = scanned[n]
       /\ delayed'[n] = delayed[n] /\ todo'[n] = todo[n] /\ more'[n] = more[n]

\* It leaves them in their round, too.
Alone(m) ==
    /\ Kept(m) /\ Participant' = Participant
    /\ \A n \in Marker \ {m} : pc'[n] = pc[n]
    /\ \A n \in Participant \ {m} : Now(n)' = Now(n) /\ (ToWeak(n)' <=> ToWeak(n))

-----------------------------------------------------------------------------
\* A step of marker m leaves the others alone; marks and slices only grow.
LEMMA StepKeeps ==
  ASSUME RoundInv, NEW m \in Marker, Step(m) \/ WakeUp(m)
  PROVE  /\ Kept(m) /\ \A n \in Marker \ {m} : pc'[n] = pc[n]
         /\ marked \subseteq marked' /\ started \subseteq started'
         /\ deferredStack' \subseteq deferredStack /\ global_list' = global_list
<1> USE DEF RoundInv, TypeOK, Move, Kept, blocks, monitor, later, weak, barrier
<1>1. CASE MarkObject(m)
  <2>1. PICK o \in slots[m] :
        /\ slots' = [slots EXCEPT ![m] = @ \ {o}]
        /\ IF o \in marked
           THEN UNCHANGED <<marked, output, stack, notified, deferred>>
           ELSE IF o \in Instructions
           THEN /\ deferred' = [deferred EXCEPT ![m] = @ \cup {o}]
                /\ UNCHANGED <<marked, output, stack, notified>>
           ELSE /\ marked' = marked \cup {o}
                /\ Push(m, o)
                /\ UNCHANGED deferred
    BY Zenon, <1>1 DEF MarkObject
  <2>2. UNCHANGED <<pc, input, scanned, deferredStack, delayed, todo, more, global_list, started>>
    BY Zenon, <1>1 DEF MarkObject
  <2>3. \A n \in Marker \ {m} : output'[n] = output[n]
    BY Zenon, <2>1 DEF Push
  <2>4. \A n \in Marker \ {m} : slots'[n] = slots[n] /\ deferred'[n] = deferred[n]
    BY Zenon, <2>1
  <2> QED
    BY ZenonT(30), <2>1, <2>2, <2>3, <2>4
<1>2. CASE Count(m)
  BY Zenon, <1>2 DEF Count
<1>3. CASE IterateRoots(m)
  BY Zenon, <1>3 DEF IterateRoots
<1>4. CASE PopDeferred(m)
  BY <1>4 DEF PopDeferred
<1>5. CASE MarkDeferred(m)
  BY Zenon, <1>5 DEF MarkDeferred
<1>6. CASE DeferredDone(m)
  BY Zenon, <1>6 DEF DeferredDone
<1>7. CASE Drain(m)
  <2>1. PICK o \in Object : Pop(m, o) /\ Visit(m, o)
    BY Zenon, <1>7 DEF Drain
  <2>2. \A n \in Marker \ {m} : input'[n] = input[n] /\ output'[n] = output[n]
    BY Zenon, <2>1 DEF Pop
  <2> QED
    BY Zenon, <2>1, <2>2 DEF Visit
<1>8. CASE DrainNull(m)
  BY ZenonT(30), <1>8 DEF DrainNull
<1>9. CASE ProcessPending(m)
  <2>1. /\ \A n \in Marker \ {m} : /\ todo'[n] = todo[n] /\ delayed'[n] = delayed[n]
                                   /\ slots'[n] = slots[n] /\ more'[n] = more[n]
        /\ UNCHANGED <<pc, marked, input, output, deferred, scanned, deferredStack, global_list, started>>
    BY <1>9 DEF ProcessPending
  <2> QED
    BY Zenon, <2>1
<1>10. CASE PendingDone(m)
  BY Zenon, <1>10 DEF PendingDone
<1>11. CASE WaitForWork(m) \/ WakeUp(m)
  <2>1. /\ \A n \in Marker \ {m} : pc'[n] = pc[n] /\ input'[n] = input[n]
        /\ UNCHANGED <<slots, marked, output, later, weak, started>>
    BY ZenonT(30), <1>11 DEF WaitForWork, WakeUp, TakeOrWait
  <2> QED
    BY Zenon, <2>1
<1>12. CASE Sync(m) \/ SyncReturns(m)
  <2>1. /\ \A n \in Marker \ {m} : /\ pc'[n] = pc[n] /\ todo'[n] = todo[n]
                                   /\ delayed'[n] = delayed[n] /\ more'[n] = more[n]
        /\ UNCHANGED <<slots, marked, input, output, later, global_list, started>>
    BY <1>12 DEF Sync, SyncReturns, Passed
  <2> QED
    BY Zenon, <2>1
<1>13. CASE AssertNotBusy(m) \/ Vote(m)
  BY Zenon, <1>13 DEF AssertNotBusy, Vote
<1>14. CASE Decide(m)
  BY Zenon, <1>14 DEF Decide
<1>15. CASE Mourn(m) \/ Release(m)
  BY Zenon, <1>15 DEF Mourn, Release
<1> HIDE DEF RoundInv, TypeOK, Move, Kept, blocks, monitor, later, weak, barrier
<1> QED
  BY ZenonT(30), <1>1, <1>2, <1>3, <1>4, <1>5, <1>6, <1>7, <1>8, <1>9, <1>10, <1>11, <1>12, <1>13,
     <1>14, <1>15, Zenon DEF Step

-----------------------------------------------------------------------------
\* A participant m outside the barrier goes on to q.
LEMMA MoveAlone ==
  ASSUME RoundInv, NEW m \in Participant, NEW q \in Place, seen[m] = -1,
         pc' = [pc EXCEPT ![m] = q], UNCHANGED gate, Kept(m),
         q \notin {"idle", "enter"},
         q \in {"release", "done"} => m = Main \/ syncs[m] > 0
  PROVE  /\ Alone(m) /\ ~Freed(m)'
         /\ Now(m) = pc[m] /\ Now(m)' = q /\ pc'[m] = q
         /\ (NowMore(m) <=> more[m]) /\ (NowMore(m)' <=> more'[m])
         /\ NowDelayed(m) = delayed[m] /\ NowDelayed(m)' = delayed'[m]
<1>1. \A n \in Marker \ {m} : more'[n] = more[n]
  BY Zenon DEF Kept
<1>2. /\ Participant' = Participant
      /\ ~Freed(m) /\ ~Freed(m)'
      /\ Now(m) = pc[m] /\ Now(m)' = q
      /\ \A n \in Participant \ {m} : /\ Now(n)' = Now(n) /\ (Freed(n)' <=> Freed(n))
                                      /\ Freed(n) => AfterSync(n)' = AfterSync(n)
  BY <1>1, MoveFacts, Zenon
<1>3. m \in Marker /\ pc \in [Marker -> Place]
  BY Zenon, Participants DEF RoundInv, TypeOK
<1>4. pc'[m] = q /\ \A n \in Marker \ {m} : pc'[n] = pc[n]
  BY Zenon, <1>3
<1>5. \A n \in Participant \ {m} : ToWeak(n)' <=> ToWeak(n)
  BY <1>2, Zenon DEF ToWeak
<1>6. ~ToWeak(m) /\ ~ToWeak(m)'
  BY <1>2, Zenon DEF ToWeak
<1>7. /\ (NowMore(m) <=> more[m]) /\ (NowMore(m)' <=> more'[m])
      /\ NowDelayed(m) = delayed[m] /\ NowDelayed(m)' = delayed'[m]
  BY <1>6, Zenon DEF NowMore, NowDelayed
<1> QED
  BY <1>2, <1>4, <1>5, <1>7, Zenon DEF Alone

\* The others have and will do what they had and would.
LEMMA AloneOthers ==
  ASSUME RoundInv, NEW m \in Participant, Alone(m), NEW n \in Participant \ {m},
         marked \subseteq marked'
  PROVE  /\ Looks(n)' <=> Looks(n)
         /\ WorkOK(n) => WorkOK(n)'
         /\ NowMore(n)' <=> NowMore(n)
         /\ NowDelayed(n)' = NowDelayed(n)
<1>1. n \in Marker \ {m}
  BY Zenon, Participants
<1>2. /\ input'[n] = input[n] /\ output'[n] = output[n] /\ slots'[n] = slots[n]
      /\ delayed'[n] = delayed[n] /\ (more'[n] <=> more[n])
  BY <1>1, Zenon DEF Alone, Kept
<1>3. Now(n)' = Now(n) /\ (ToWeak(n)' <=> ToWeak(n))
  BY Zenon DEF Alone
<1>4. (NowMore(n)' <=> NowMore(n)) /\ NowDelayed(n)' = NowDelayed(n)
  BY <1>2, <1>3, Zenon DEF NowMore, NowDelayed
<1>5. Looks(n)' <=> Looks(n)
  BY <1>3, <1>4, Zenon DEF Looks, LooksAt
<1>6. NoWork(n)' <=> NoWork(n)
  BY <1>2, Zenon DEF NoWork
<1>7. WorkOK(n) => WorkOK(n)'
  <2>1. slots[n] \subseteq marked => slots'[n] \subseteq marked'
    BY Zenon, <1>2
  <2> QED
    BY <1>2, <1>3, <1>4, <1>6, <2>1, Zenon DEF WorkOK, WorkAt
<1> QED
  BY Zenon, <1>4, <1>5, <1>7

\* What a step of m must show for WorkInv: only what m itself has to do.
LEMMA StepWork ==
  ASSUME RoundInv, WorkInv, TypeOK', NEW m \in Participant, Alone(m),
         marked \subseteq marked', started \subseteq started',
         deferredStack' \subseteq deferredStack, global_list' = global_list,
         pc'[Main] # "flush" => pc[Main] # "flush",
         WorkOK(m)', DeferOK(m)', ~Freed(m)',
         stack' # {} => Looks(m)' \/ (stack # {} /\ ~Looks(m))
  PROVE  WorkInv'
<1> USE Participants, Markers
<1>1. /\ Participant' = Participant /\ m \in Marker
      /\ \A n \in Marker \ {m} : pc'[n] = pc[n]
      /\ \A n \in Participant \ {m} : Now(n)' = Now(n)
  BY Zenon DEF Alone
<1>2. \A n \in Marker \ {m} :
       /\ input'[n] = input[n] /\ output'[n] = output[n]
       /\ deferred'[n] = deferred[n] /\ scanned'[n] = scanned[n] /\ delayed'[n] = delayed[n]
  BY Zenon DEF Alone, Kept
<1>3. RestOK'
  <2>1. \A n \in Marker \ Participant : n \in Marker \ {m}
    BY Zenon
  <2>2. /\ \A n \in Marker \ Participant' : output'[n] = {}
        /\ \A n \in Marker \ Participant' : pc'[n] # "idle" =>
              input'[n] = {} /\ deferred'[n] = {} /\ delayed'[n] = {}
    BY <1>1, <1>2, <2>1 DEF WorkInv, RestOK
  <2>3. ASSUME pc'[Main] # "flush" PROVE global_list' = {} /\ \A h \in Helper : pc'[h] # "idle"
    <3>1. global_list = {} /\ \A h \in Helper : pc[h] # "idle"
      BY Zenon, <2>3 DEF WorkInv, RestOK
    <3>2. m # Main => pc'[m] # "idle"
      BY Zenon, <1>1 DEF Participant
    <3> QED
      BY Zenon, <1>1, <3>1, <3>2
  <2> QED
    BY Zenon, <2>2, <2>3 DEF RestOK
<1>4. ASSUME NEW n \in Participant PROVE WorkOK(n)' /\ DeferOK(n)'
  <2>1. CASE n = m
    BY Zenon, <2>1
  <2>2. CASE n # m
    <3>1. WorkOK(n) /\ DeferOK(n) /\ n \in Marker \ {m}
      BY Zenon, <2>2 DEF WorkInv
    <3>2. WorkOK(n)'
      BY Zenon, <2>2, <3>1, AloneOthers
    <3>3. deferred'[n] = deferred[n] /\ scanned'[n] = scanned[n] /\ Now(n)' = Now(n)
      BY Zenon, <1>1, <1>2, <2>2, <3>1
    <3>4. started = DOMAIN RootSlice => started' = DOMAIN RootSlice
      BY Zenon DEF TypeOK
    <3>5. deferredStack = {} => deferredStack' = {}
      BY Zenon
    <3>6. DeferOK(n)'
      BY <3>1, <3>3, <3>4, <3>5, Zenon DEF DeferOK, DeferAt
    <3> QED
      BY Zenon, <3>2, <3>6
  <2> QED
    BY Zenon, <2>1, <2>2
<1>5. ASSUME stack' # {} PROVE \E n \in Participant : Looks(n)'
  <2>1. CASE Looks(m)'
    BY Zenon, <2>1
  <2>2. CASE ~Looks(m)'
    <3>1. PICK n \in Participant : Looks(n) /\ n # m
      BY Zenon, <1>5, <2>2 DEF WorkInv
    <3> QED
      BY Zenon, <3>1, AloneOthers
  <2> QED
    BY Zenon, <2>1, <2>2
<1> QED
  BY ZenonT(30), <1>1, <1>3, <1>4, <1>5 DEF WorkInv

\* Participant m goes on to q, and may then have work on the stack.
LEMMA MoveWork ==
  ASSUME RoundInv, WorkInv, TypeOK', NEW m \in Participant, NEW q \in Place, seen[m] = -1,
         Step(m) \/ WakeUp(m), pc' = [pc EXCEPT ![m] = q], UNCHANGED gate,
         q \notin {"idle", "enter", "flush"}, pc[m] # "flush",
         q \in {"release", "done"} => m = Main \/ syncs[m] > 0,
         WorkAt(m, q, more[m])', DeferAt(m, q)',
         stack' # {} => LooksAt(q, more'[m]) \/ (stack # {} /\ ~LooksAt(pc[m], more[m]))
  PROVE  WorkInv'
<1>1. /\ Kept(m) /\ marked \subseteq marked' /\ started \subseteq started'
      /\ deferredStack' \subseteq deferredStack /\ global_list' = global_list
  BY Zenon, StepKeeps, Participants
<1>2. /\ Alone(m) /\ ~Freed(m)'
      /\ Now(m) = pc[m] /\ Now(m)' = q
      /\ (NowMore(m) <=> more[m]) /\ (NowMore(m)' <=> more'[m])
  BY <1>1, MoveAlone, Zenon
<1>3. WorkOK(m)' /\ DeferOK(m)'
  BY <1>2, Zenon DEF WorkOK, WorkAt, DeferOK
<1>4. stack' # {} => Looks(m)' \/ (stack # {} /\ ~Looks(m))
  BY <1>2, Zenon DEF Looks, LooksAt
<1>5. pc'[Main] # "flush" => pc[Main] # "flush"
  BY Zenon, Markers, Participants DEF RoundInv, TypeOK
<1> QED
  BY <1>1, <1>2, <1>3, <1>4, <1>5, StepWork, Zenon

\* What a participant outside the barrier has and defers is as its place says.
LEMMA HereWork ==
  ASSUME RoundInv, WorkInv, NEW m \in Participant, seen[m] = -1
  PROVE  /\ m \in Marker /\ Now(m) = pc[m] /\ ~Freed(m) /\ (NowMore(m) <=> more[m])
         /\ WorkAt(m, pc[m], more[m]) /\ DeferAt(m, pc[m]) /\ pc \in [Marker -> Place]
<1>1. Now(m) = pc[m] /\ ~Freed(m)
  BY Zenon DEF Now, Freed
<1>2. NowMore(m) <=> more[m]
  BY <1>1, Zenon DEF NowMore, ToWeak
<1>3. WorkOK(m) /\ DeferOK(m)
  BY Zenon DEF WorkInv
<1>4. WorkAt(m, pc[m], more[m])
  BY <1>1, <1>2, <1>3, Zenon DEF WorkOK, WorkAt
<1>5. DeferAt(m, pc[m])
  BY <1>1, <1>3, Zenon DEF DeferOK
<1>6. m \in Marker /\ pc \in [Marker -> Place]
  BY Zenon, Participants DEF RoundInv, TypeOK
<1> QED
  BY ZenonT(30), <1>1, <1>2, <1>4, <1>5, <1>6

\* A marker that will look at the stack before and after has nothing to account for.
LEMMA LookingWork ==
  ASSUME RoundInv, WorkInv, TypeOK', NEW m \in Marker, NEW q \in {"roots", "early", "first", "drain", "again"},
         Step(m) \/ WakeUp(m), pc[m] \notin {"idle", "enter", "flush", "release", "done"} \cup SyncPlace,
         pc' = [pc EXCEPT ![m] = q], UNCHANGED gate, DeferAt(m, q)'
  PROVE  WorkInv'
<1>1. m \in Participant /\ seen[m] = -1
  BY Zenon, Inside, Outside
<1>2. q \in Place /\ q \notin {"idle", "enter", "flush"} /\ pc[m] # "flush" /\ q \notin {"release", "done"}
  BY Zenon DEF Place
<1>3. WorkAt(m, q, more[m])'
  BY Zenon DEF WorkAt
<1>4. LooksAt(q, more'[m])
  BY Zenon DEF LooksAt
<1> QED
  BY <1>1, <1>2, <1>3, <1>4, MoveWork, Zenon

\* The main thread is past the roots when the deferred objects are visited last.
LEMMA LateDeferred ==
  ASSUME RoundInv, WorkInv, NEW m \in Participant, Now(m) \in Deferring
  PROVE  deferredStack = {} /\ deferred[m] \cup scanned[m] \subseteq Instructions
<1>1. PICK R \in Rounds : \A n \in Participant : Now(n) \in R
  BY Zenon DEF RoundInv, SameRound
<1>2. Deferring \in Rounds
  BY Zenon DEF Rounds
<1>3. R = Deferring /\ Main \in Participant
  BY Zenon, <1>1, <1>2, RoundsApart, Participants
<1>4. Now(Main) \in Deferring
  BY Zenon, <1>1, <1>3
<1>5. DeferOK(m) /\ DeferOK(Main)
  BY Zenon, <1>3 DEF WorkInv
<1> QED
  BY Zenon, <1>4, <1>5 DEF DeferOK, DeferAt, Deferring

\* A marker with no work goes on and still has none.
LEMMA IdleWork ==
  ASSUME RoundInv, WorkInv, TypeOK', NEW m \in Participant, seen[m] = -1, Step(m) \/ WakeUp(m),
         NEW q \in {"wait", "stop", "debug", "deferredDone", "exit", "finalize", "done"},
         pc[m] \in {"work", "wait", "assert", "late", "mourn", "release"},
         pc' = [pc EXCEPT ![m] = q], UNCHANGED <<gate, slots, input, output, stack, later, started>>,
         q \in {"release", "done"} => m = Main \/ syncs[m] > 0,
         q = "deferredDone" => deferred[m] = {},
         q \in {"exit", "finalize", "done"} => pc[m] \in {"mourn", "release"}
  PROVE  WorkInv'
<1>1. WorkAt(m, pc[m], more[m]) /\ DeferAt(m, pc[m])
  BY HereWork, Zenon
<1>2. WorkAt(m, q, more[m])'
  <2>1. NoWork(m)
    BY <1>1, Zenon DEF WorkAt
  <2>2. NoWork(m)'
    BY <2>1, Zenon DEF NoWork
  <2> QED
    BY Zenon, <2>2 DEF WorkAt
<1>3. DeferAt(m, q)'
  BY Zenon, <1>1 DEF DeferAt, later
<1>4. /\ q \in Place /\ q \notin {"idle", "enter", "flush"} /\ pc[m] # "flush"
      /\ ~LooksAt(pc[m], more[m]) /\ stack' = stack
  BY ZenonT(30) DEF Place, LooksAt
<1> QED
  BY <1>2, <1>3, <1>4, MoveWork, Zenon

(* The steps that scan and mark.                                           *)
LEMMA ScanWork ==
  ASSUME RoundInv, WorkInv, TypeOK', NEW m \in Marker
  PROVE  \/ MarkObject(m) \/ Count(m) \/ PopDeferred(m) \/ MarkDeferred(m) \/ IterateRoots(m)
         \/ DeferredDone(m) \/ Drain(m) \/ DrainNull(m) \/ ProcessPending(m) \/ PendingDone(m)
         => WorkInv'
<1>MarkObject. ASSUME MarkObject(m) PROVE WorkInv'
  <2> USE <1>MarkObject
  <2>1. PICK o \in slots[m] :
          /\ slots' = [slots EXCEPT ![m] = @ \ {o}]
          /\ IF o \in marked
             THEN UNCHANGED <<marked, output, stack, notified, deferred>>
             ELSE IF o \in Instructions
             THEN /\ deferred' = [deferred EXCEPT ![m] = @ \cup {o}]
                  /\ UNCHANGED <<marked, output, stack, notified>>
             ELSE /\ marked' = marked \cup {o}
                  /\ Push(m, o)
                  /\ UNCHANGED deferred
    BY Zenon DEF MarkObject
  <2>2. UNCHANGED <<pc, input, asleep, num_busy, scanned, deferredStack, weak, started, barrier>>
    BY Zenon DEF MarkObject
  <2>3. pc[m] \in {"roots", "early", "drain", "pendingFirst", "pending", "weak", "late"}
    BY Zenon, <2>1 DEF RoundInv, ScanOK
  <2>4. m \in Participant /\ seen[m] = -1
    BY Zenon, <2>3, Inside, Outside DEF SyncPlace
  <2>5. /\ m \in Marker /\ pc \in [Marker -> Place]
        /\ WorkAt(m, pc[m], more[m]) /\ DeferAt(m, pc[m])
    BY <2>4, HereWork, Zenon
  <2> PICK p \in Place : p = pc[m]
    BY Zenon, <2>5
  <2>6. p # "late"
    BY ZenonT(30), <2>1, <2>5 DEF WorkAt, NoWork
  <2>7. /\ UNCHANGED gate /\ pc' = [pc EXCEPT ![m] = p]
        /\ marked \subseteq marked' /\ more' = more
        /\ p \notin {"idle", "enter", "flush"} /\ pc[m] # "flush" /\ p \notin {"release", "done"}
    BY ZenonT(30), <2>1, <2>2, <2>3, <2>5 DEF gate, barrier, weak
  <2>8. Step(m)
    BY Zenon DEF Step
  <2>9. DeferAt(m, p)'
    <3>1. deferred'[m] = deferred[m] \/ (o \in Instructions /\ deferred'[m] = deferred[m] \cup {o})
      BY ZenonT(30), <2>1, <2>5 DEF RoundInv, TypeOK
    <3> QED
      BY ZenonT(30), <2>2, <2>3, <2>5, <2>6, <3>1 DEF DeferAt
  <2>10. slots'[m] = slots[m] \ {o}
    BY Zenon, <2>1, <2>5 DEF RoundInv, TypeOK
  <2>11. CASE o \in marked
    <3>1. WorkAt(m, p, more[m])'
      BY ZenonT(30), <2>1, <2>2, <2>3, <2>5, <2>6, <2>7, <2>10, <2>11 DEF WorkAt
    <3>2. stack' = stack
      BY Zenon, <2>1, <2>11
    <3>3. stack' # {} => LooksAt(p, more'[m]) \/ (stack # {} /\ ~LooksAt(pc[m], more[m]))
      BY <2>7, <3>2, Zenon
    <3> QED
      BY <2>4, <2>7, <2>8, <2>9, <3>1, <3>3, MoveWork, ZenonT(30)
  <2>12. CASE o \notin marked
    <3>1. p \in {"pendingFirst", "pending", "weak"} => more[m]
      BY Zenon, <2>1, <2>5, <2>12 DEF WorkAt
    <3>2. WorkAt(m, p, more[m])'
      BY <2>3, <2>6, <2>7, <3>1, ZenonT(30) DEF WorkAt
    <3>3. LooksAt(p, more'[m])
      BY <2>3, <2>6, <2>7, <3>1, Zenon DEF LooksAt
    <3> QED
      BY <2>4, <2>7, <2>8, <2>9, <3>2, <3>3, MoveWork, ZenonT(30)
  <2> QED
    BY Zenon, <2>11, <2>12
<1>Count. ASSUME Count(m) PROVE WorkInv'
  <2> USE <1>Count
  <2>1. pc[m] = "count" /\ pc' = [pc EXCEPT ![m] = "roots"] /\ UNCHANGED gate /\ Step(m)
    BY Zenon DEF Count, Move, Step, gate, barrier
  <2>2. DeferAt(m, "roots")'
    BY Zenon DEF DeferAt
  <2> QED
    BY Zenon, <2>1, <2>2, LookingWork DEF SyncPlace
<1>IterateRoots. ASSUME IterateRoots(m) PROVE WorkInv'
  <2> USE <1>IterateRoots
  <2>1. pc[m] = "roots" /\ UNCHANGED gate /\ Step(m)
    BY Zenon DEF IterateRoots, Step, gate, barrier
  <2>2. CASE UNCHANGED pc
    <3>1. pc' = [pc EXCEPT ![m] = "roots"]
      BY Zenon, <2>1, <2>2 DEF RoundInv, TypeOK
    <3>2. DeferAt(m, "roots")'
      BY Zenon DEF DeferAt
    <3> QED
      BY Zenon, <2>1, <3>1, <3>2, LookingWork DEF SyncPlace
  <2>3. CASE started = DOMAIN RootSlice /\ pc' = [pc EXCEPT ![m] = "early"] /\ UNCHANGED <<slots, started>>
    <3>1. DeferAt(m, "early")'
      BY Zenon, <2>3 DEF DeferAt
    <3> QED
      BY Zenon, <2>1, <2>3, <3>1, LookingWork DEF SyncPlace
  <2> QED
    BY Zenon, <2>2, <2>3 DEF IterateRoots, Move
<1>PopDeferred. ASSUME PopDeferred(m) PROVE WorkInv'
  <2> USE <1>PopDeferred
  <2>1. PICK o \in IF deferred[m] # {} THEN deferred[m] ELSE deferredStack :
            /\ slots' = [slots EXCEPT ![m] = Pointers[o]]
            /\ scanned' = [scanned EXCEPT ![m] = {o}]
            /\ deferred' = [deferred EXCEPT ![m] = @ \ {o}]
            /\ deferredStack' = IF deferred[m] # {} THEN deferredStack
                                ELSE deferredStack \ {o}
    BY Zenon DEF PopDeferred
  <2>2. /\ pc[m] \in {"early", "late"} /\ slots[m] = {} /\ scanned[m] = {} /\ Step(m)
        /\ UNCHANGED <<pc, marked, blocks, monitor, weak, started, barrier>>
    BY Zenon DEF PopDeferred, Step
  <2>3. m \in Participant /\ seen[m] = -1
    BY Zenon, <2>2, Inside, Outside DEF SyncPlace
  <2>4. /\ m \in Marker /\ pc \in [Marker -> Place] /\ Now(m) = pc[m]
        /\ WorkAt(m, pc[m], more[m]) /\ DeferAt(m, pc[m])
    BY <2>3, HereWork, ZenonT(30)
  <2>5. /\ UNCHANGED gate /\ slots'[m] = Pointers[o] /\ scanned'[m] = {o}
        /\ deferred'[m] = deferred[m] \ {o} /\ deferredStack' \subseteq deferredStack
        /\ pc' = [pc EXCEPT ![m] = pc[m]]
    BY ZenonT(30), <2>1, <2>2 DEF gate, barrier, RoundInv, TypeOK
  <2>6. CASE pc[m] = "early"
    <3>1. DeferAt(m, "early")'
      BY Zenon, <2>2, <2>4, <2>6 DEF DeferAt
    <3>2. pc' = [pc EXCEPT ![m] = "early"]
      BY Zenon, <2>5, <2>6
    <3> QED
      BY Zenon, <2>2, <2>5, <2>6, <3>1, <3>2, LookingWork DEF SyncPlace
  <2>7. CASE pc[m] = "late"
    <3>1. deferredStack = {} /\ deferred[m] \cup scanned[m] \subseteq Instructions
      BY ZenonT(30), <2>3, <2>4, <2>7, LateDeferred DEF Deferring
    <3>2. o \in Instructions /\ Pointers[o] = {}
      BY Zenon, <3>1, ParallelMarkAssumption
    <3>3. DeferAt(m, "late")'
      BY ZenonT(30), <2>2, <2>4, <2>5, <2>7, <3>1, <3>2 DEF DeferAt
    <3>4. WorkAt(m, "late", more[m])'
      BY ZenonT(30), <2>2, <2>4, <2>5, <2>7, <3>2 DEF WorkAt, NoWork, blocks
    <3>5. /\ "late" \in Place /\ "late" \notin {"idle", "enter", "flush"} /\ pc[m] # "flush"
          /\ "late" \notin {"release", "done"} /\ ~LooksAt(pc[m], more[m])
          /\ pc' = [pc EXCEPT ![m] = "late"] /\ stack' = stack
      BY Zenon, <2>2, <2>5, <2>7 DEF Place, LooksAt, blocks
    <3> QED
      BY <2>2, <2>3, <2>5, <3>3, <3>4, <3>5, MoveWork, ZenonT(30)
  <2> QED
    BY Zenon, <2>2, <2>6, <2>7
<1>MarkDeferred. ASSUME MarkDeferred(m) PROVE WorkInv'
  <2> USE <1>MarkDeferred
  <2>1. /\ slots[m] = {} /\ scanned[m] # {} /\ scanned' = [scanned EXCEPT ![m] = {}]
        /\ UNCHANGED <<pc, slots, blocks, deferred, deferredStack, weak, started, barrier>>
        /\ Step(m)
    BY Zenon DEF MarkDeferred, Step
  <2>2. pc[m] \in {"early", "late"}
    BY Zenon, <2>1 DEF RoundInv, ScanOK
  <2>3. m \in Participant /\ seen[m] = -1
    BY Zenon, <2>2, Inside, Outside DEF SyncPlace
  <2>4. WorkAt(m, pc[m], more[m]) /\ DeferAt(m, pc[m])
    BY <2>3, HereWork, Zenon
  <2> PICK p \in Place : p = pc[m]
    BY Zenon, <2>2 DEF Place
  <2>5. /\ UNCHANGED gate /\ pc' = [pc EXCEPT ![m] = p] /\ stack' = stack /\ more' = more
        /\ scanned'[m] = {} /\ p \notin {"idle", "enter", "flush"} /\ pc[m] # "flush"
        /\ p \notin {"release", "done"}
    BY Zenon, <2>1, <2>2 DEF gate, barrier, blocks, weak, RoundInv, TypeOK
  <2>6. DeferAt(m, p)'
    BY Zenon, <2>1, <2>2, <2>4, <2>5 DEF DeferAt
  <2>7. WorkAt(m, p, more[m])'
    BY Zenon, <2>1, <2>2, <2>4, <2>5 DEF WorkAt, NoWork, blocks
  <2>8. stack' # {} => LooksAt(p, more'[m]) \/ (stack # {} /\ ~LooksAt(pc[m], more[m]))
    BY <2>5, Zenon
  <2> QED
    BY <2>1, <2>3, <2>5, <2>6, <2>7, <2>8, MoveWork, Zenon
<1>DeferredDone. ASSUME DeferredDone(m) PROVE WorkInv'
  <2> USE <1>DeferredDone
  <2>1. /\ pc[m] \in {"early", "late"} /\ scanned[m] = {}
        /\ deferred[m] = {} /\ deferredStack = {}
        /\ pc' = [pc EXCEPT ![m] = IF pc[m] = "early" THEN "first" ELSE "deferredDone"]
        /\ UNCHANGED <<slots, blocks, later, started, gate>> /\ Step(m)
    BY Zenon DEF DeferredDone, Move, Step, gate, barrier
  <2>2. m \in Participant /\ seen[m] = -1
    BY Zenon, <2>1, Inside, Outside DEF SyncPlace
  <2>3. CASE pc[m] = "early"
    <3>1. DeferAt(m, pc[m])
      BY <2>2, HereWork, Zenon
    <3>2. DeferAt(m, "first")'
      BY Zenon, <2>1, <2>3, <3>1 DEF DeferAt, later
    <3>3. pc' = [pc EXCEPT ![m] = "first"]
      BY ZenonT(30), <2>1, <2>3
    <3> QED
      BY Zenon, <2>1, <2>3, <3>2, <3>3, LookingWork DEF SyncPlace
  <2>4. CASE pc[m] = "late"
    <3>1. pc' = [pc EXCEPT ![m] = "deferredDone"] /\ UNCHANGED <<gate, slots, input, output, stack, later, started>>
      BY Zenon, <2>1, <2>4 DEF blocks
    <3> QED
      BY Zenon, <2>1, <2>2, <2>4, <3>1, IdleWork
  <2> QED
    BY Zenon, <2>1, <2>3, <2>4
<1>Drain. ASSUME Drain(m) PROVE WorkInv'
  <2> USE <1>Drain
  <2>1. /\ pc[m] \in {"first", "drain", "again"} /\ pc' = [pc EXCEPT ![m] = "drain"]
        /\ UNCHANGED <<later, started, gate>> /\ Step(m)
    BY Zenon DEF Drain, Visit, Move, Step, gate, barrier
  <2>2. DeferAt(m, pc[m])
    <3>1. m \in Participant /\ seen[m] = -1
      BY Zenon, <2>1, Inside, Outside DEF SyncPlace
    <3> QED
      BY <3>1, HereWork, Zenon
  <2>3. DeferAt(m, "drain")'
    BY Zenon, <2>1, <2>2 DEF DeferAt, later
  <2> QED
    BY Zenon, <2>1, <2>3, LookingWork DEF SyncPlace
<1>DrainNull. ASSUME DrainNull(m) PROVE WorkInv'
  <2> USE <1>DrainNull
  <2> DEFINE r == IF pc[m] = "again" THEN "work"
                  ELSE IF pc[m] = "first" THEN "pendingFirst" ELSE "pending"
  <2>1. /\ pc[m] \in {"first", "drain", "again"} /\ slots[m] = {} /\ PopNull(m)
        /\ pc' = [pc EXCEPT ![m] = r] /\ UNCHANGED <<slots, blocks, later, started, gate>>
        /\ Step(m)
    BY Zenon DEF DrainNull, Move, Step, gate, barrier
  <2>2. r \in {"work", "pendingFirst", "pending"}
    BY Zenon
  <2> HIDE DEF r
  <2> PICK q \in Place : q = r
    BY Zenon, <2>2 DEF Place
  <2>3. m \in Participant /\ seen[m] = -1
    BY Zenon, <2>1, Inside, Outside DEF SyncPlace
  <2>4. DeferAt(m, pc[m])
    BY <2>3, HereWork, Zenon
  <2>5. DeferAt(m, q)'
    BY Zenon, <2>1, <2>2, <2>4 DEF DeferAt, later
  <2>6. WorkAt(m, q, more[m])' /\ stack' = {}
    BY Zenon, <2>1, <2>2 DEF WorkAt, NoWork, PopNull, blocks
  <2>7. q \notin {"idle", "enter", "flush"} /\ pc[m] # "flush" /\ q \notin {"release", "done"}
    BY Zenon, <2>1, <2>2
  <2> QED
    BY <2>1, <2>3, <2>5, <2>6, <2>7, MoveWork, ZenonT(30)
<1>ProcessPending. ASSUME ProcessPending(m) PROVE WorkInv'
  <2> USE <1>ProcessPending
  <2>1. PICK w \in todo[m] :
            /\ todo' = [todo EXCEPT ![m] = @ \ {w}]
            /\ IF Key[w] \in marked
               THEN /\ more' = [more EXCEPT ![m] = @ \/ ~(Pointers[w] \subseteq marked)]
                    /\ slots' = [slots EXCEPT ![m] = Pointers[w]]
                    /\ UNCHANGED delayed
               ELSE /\ delayed' = [delayed EXCEPT ![m] = @ \cup {w}]
                    /\ UNCHANGED <<more, slots>>
    BY Zenon DEF ProcessPending
  <2>2. slots[m] = {} /\ UNCHANGED <<pc, marked, blocks, later, started, gate>> /\ Step(m)
    BY Zenon DEF ProcessPending, Step, gate, barrier
  <2>3. pc[m] \in {"pendingFirst", "pending", "weak"}
    BY Zenon, <2>1 DEF RoundInv, ScanOK
  <2>4. m \in Participant /\ seen[m] = -1
    BY Zenon, <2>3, Inside, Outside DEF SyncPlace
  <2>5. WorkAt(m, pc[m], more[m]) /\ DeferAt(m, pc[m])
    BY <2>4, HereWork, Zenon
  <2> PICK p \in Place : p = pc[m]
    BY Zenon, <2>3 DEF Place
  <2>6. /\ pc' = [pc EXCEPT ![m] = p] /\ p \notin {"idle", "enter", "flush"} /\ pc[m] # "flush"
        /\ p \notin {"release", "done"} /\ stack' = stack
    BY Zenon, <2>2, <2>3 DEF blocks, RoundInv, TypeOK
  <2>7. DeferAt(m, p)'
    BY Zenon, <2>2, <2>3, <2>5 DEF DeferAt, later
  <2>8. (more[m] => more'[m]) /\ (more'[m] \/ slots'[m] \subseteq marked')
    <3>1. more \in [Marker -> BOOLEAN] /\ slots \in [Marker -> SUBSET Object]
      BY Zenon DEF RoundInv, TypeOK
    <3>2. CASE Key[w] \in marked
      <4>1. more'[m] <=> (more[m] \/ ~(Pointers[w] \subseteq marked))
        BY <2>1, <3>1, <3>2, Zenon
      <4>2. slots'[m] = Pointers[w]
        BY Zenon, <2>1, <3>1, <3>2
      <4> QED
        BY ZenonT(30), <2>2, <4>1, <4>2
    <3>3. CASE Key[w] \notin marked
      BY ZenonT(30), <2>1, <2>2, <3>3
    <3> QED
      BY Zenon, <3>2, <3>3
  <2>9. WorkAt(m, p, more[m])'
    BY ZenonT(30), <2>2, <2>3, <2>5, <2>8 DEF WorkAt, blocks
  <2>10. stack' # {} => LooksAt(p, more'[m]) \/ (stack # {} /\ ~LooksAt(pc[m], more[m]))
    BY <2>6, <2>8, Zenon DEF LooksAt
  <2> QED
    BY <2>2, <2>4, <2>6, <2>7, <2>9, <2>10, MoveWork, ZenonT(30)
<1>PendingDone. ASSUME PendingDone(m) PROVE WorkInv'
  <2> USE <1>PendingDone
  <2>1. /\ pc[m] \in {"pendingFirst", "pending"} /\ slots[m] = {}
        /\ pc' = [pc EXCEPT ![m] = IF pc[m] = "pending" \/ more[m] THEN "again" ELSE "work"]
        /\ UNCHANGED <<slots, marked, blocks, later, weak, started, gate>> /\ Step(m)
    BY Zenon DEF PendingDone, Move, Step, gate, barrier
  <2>2. m \in Participant /\ seen[m] = -1
    BY ZenonT(30), <2>1, Inside, Outside DEF SyncPlace
  <2>3. WorkAt(m, pc[m], more[m]) /\ DeferAt(m, pc[m])
    BY <2>2, HereWork, Zenon
  <2>4. CASE pc[m] = "pending" \/ more[m]
    <3>1. DeferAt(m, "again")' /\ pc' = [pc EXCEPT ![m] = "again"]
      BY Zenon, <2>1, <2>3, <2>4 DEF DeferAt, later
    <3> QED
      BY Zenon, <2>1, <3>1, LookingWork DEF SyncPlace
  <2>5. CASE ~(pc[m] = "pending" \/ more[m])
    <3>1. DeferAt(m, "work")' /\ pc' = [pc EXCEPT ![m] = "work"]
      BY Zenon, <2>1, <2>3, <2>5 DEF DeferAt, later
    <3>2. WorkAt(m, "work", more[m])'
      BY Zenon, <2>1, <2>3, <2>5 DEF WorkAt, NoWork, blocks
    <3>3. /\ "work" \in Place /\ "work" \notin {"idle", "enter", "flush"} /\ pc[m] # "flush"
          /\ "work" \notin {"release", "done"} /\ stack' = stack
      BY Zenon, <2>1 DEF Place, blocks
    <3>4. ~LooksAt(pc[m], more[m])
      BY Zenon, <2>1, <2>5 DEF LooksAt
    <3> QED
      BY <2>1, <2>2, <3>1, <3>2, <3>3, <3>4, MoveWork, ZenonT(30)
  <2> QED
    BY Zenon, <2>4, <2>5
<1> QED
  BY ZenonT(30), <1>MarkObject, <1>Count, <1>IterateRoots, <1>PopDeferred, <1>MarkDeferred,
     <1>DeferredDone, <1>Drain, <1>DrainNull, <1>ProcessPending, <1>PendingDone

(* The steps from the wait for work to the end of a round.                 *)
LEMMA WaitWork ==
  ASSUME RoundInv, WorkInv, TypeOK', NEW m \in Marker
  PROVE  WaitForWork(m) \/ WakeUp(m) \/ AssertNotBusy(m) \/ Mourn(m) \/ Vote(m) \/ Decide(m) => WorkInv'
\* WaitForWork hands out a block, or has the marker wait.
<1>TakeOrWait. ASSUME m \in Participant, seen[m] = -1, pc[m] \in {"work", "wait"},
                      NEW busy, TakeOrWait(m, busy), Step(m) \/ WakeUp(m),
                      UNCHANGED <<gate, slots, output, later, started>>
               PROVE  WorkInv'
  <2> USE <1>TakeOrWait
  <2>1. m \in Marker /\ DeferAt(m, pc[m])
    BY HereWork, Zenon
  <2>2. CASE pc' = [pc EXCEPT ![m] = "first"]
    <3>1. DeferAt(m, "first")'
      BY Zenon, <2>1 DEF DeferAt, later
    <3>2. pc[m] \notin {"idle", "enter", "flush", "release", "done"} \cup SyncPlace
      BY Zenon DEF SyncPlace
    <3> QED
      BY Zenon, <2>1, <2>2, <3>1, <3>2, LookingWork
  <2>3. CASE pc' = [pc EXCEPT ![m] = "wait"] /\ UNCHANGED <<input, stack>>
    BY Zenon, <2>3, IdleWork
  <2> QED
    BY Zenon, <2>2, <2>3 DEF TakeOrWait, Move
<1>WaitForWork. ASSUME WaitForWork(m) PROVE WorkInv'
  <2> USE <1>WaitForWork
  <2>1. pc[m] = "work" /\ UNCHANGED <<gate, slots, output, later, started>> /\ Step(m)
    BY Zenon DEF WaitForWork, Step, gate, barrier
  <2>2. m \in Participant /\ seen[m] = -1
    BY ZenonT(30), <2>1, Inside, Outside DEF SyncPlace
  <2>3. CASE TakeOrWait(m, num_busy - 1)
    BY ZenonT(30), <2>1, <2>2, <2>3, <1>TakeOrWait
  <2>4. CASE pc' = [pc EXCEPT ![m] = "stop"] /\ UNCHANGED <<input, stack>>
    BY Zenon, <2>1, <2>2, <2>4, IdleWork
  <2> QED
    BY Zenon, <2>3, <2>4 DEF WaitForWork, Move
<1>WakeUp. ASSUME WakeUp(m) PROVE WorkInv'
  <2> USE <1>WakeUp
  <2>1. pc[m] = "wait" /\ UNCHANGED <<gate, slots, output, later, started>>
    BY Zenon DEF WakeUp, gate, barrier
  <2>2. m \in Participant /\ seen[m] = -1
    BY Zenon, <2>1, Inside, Outside DEF SyncPlace
  <2>3. CASE TakeOrWait(m, num_busy)
    BY ZenonT(30), <2>1, <2>2, <2>3, <1>TakeOrWait
  <2>4. CASE pc' = [pc EXCEPT ![m] = "stop"] /\ UNCHANGED <<input, stack>>
    BY Zenon, <2>1, <2>2, <2>4, IdleWork
  <2> QED
    BY Zenon, <2>3, <2>4 DEF WakeUp, Move
<1>AssertNotBusy. ASSUME AssertNotBusy(m) PROVE WorkInv'
  <2> USE <1>AssertNotBusy
  <2>1. /\ pc[m] = "assert" /\ pc' = [pc EXCEPT ![m] = "debug"] /\ Step(m)
        /\ UNCHANGED <<gate, slots, input, output, stack, later, started>>
    BY Zenon DEF AssertNotBusy, Step, Move, gate, barrier, blocks
  <2>2. m \in Participant /\ seen[m] = -1
    BY Zenon, <2>1, Inside, Outside DEF SyncPlace
  <2> QED
    BY Zenon, <2>1, <2>2, IdleWork
<1>Mourn. ASSUME Mourn(m) PROVE WorkInv'
  <2> USE <1>Mourn
  <2>1. /\ pc[m] = "mourn" /\ pc' = [pc EXCEPT ![m] = "exit"] /\ Step(m)
        /\ UNCHANGED <<gate, slots, input, output, stack, later, started>>
    BY Zenon DEF Mourn, Step, Move, gate, barrier, blocks
  <2>2. m \in Participant /\ seen[m] = -1
    BY Zenon, <2>1, Inside, Outside DEF SyncPlace
  <2> QED
    BY Zenon, <2>1, <2>2, IdleWork
<1>Vote. ASSUME Vote(m) PROVE WorkInv'
  <2> USE <1>Vote
  <2>1. /\ pc[m] = "weak" /\ slots[m] = {} /\ pc' = [pc EXCEPT ![m] = "voted"] /\ Step(m)
        /\ UNCHANGED <<gate, slots, marked, input, output, stack, later, started, more>>
    BY Zenon DEF Vote, Step, Move, gate, barrier, blocks, weak
  <2>2. m \in Participant /\ seen[m] = -1
    BY ZenonT(30), <2>1, Inside, Outside DEF SyncPlace
  <2>3. WorkAt(m, pc[m], more[m]) /\ DeferAt(m, pc[m])
    BY <2>2, HereWork, Zenon
  <2>4. WorkAt(m, "voted", more[m])'
    BY Zenon, <2>1, <2>3 DEF WorkAt, NoWork
  <2>5. DeferAt(m, "voted")'
    BY Zenon, <2>1, <2>3 DEF DeferAt, later
  <2>6. /\ "voted" \in Place /\ "voted" \notin {"idle", "enter", "flush"} /\ pc[m] # "flush"
        /\ "voted" \notin {"release", "done"} /\ stack' = stack
    BY Zenon, <2>1 DEF Place
  <2>7. LooksAt("voted", more'[m]) <=> LooksAt(pc[m], more[m])
    BY Zenon, <2>1 DEF LooksAt
  <2> QED
    BY <2>1, <2>2, <2>4, <2>5, <2>6, <2>7, MoveWork, ZenonT(30)
<1>Decide. ASSUME Decide(m) PROVE WorkInv'
  <2> USE <1>Decide
  <2>1. /\ pc[m] = "decide" /\ pc' = [pc EXCEPT ![m] = "decided"] /\ Step(m)
        /\ UNCHANGED <<gate, slots, marked, input, output, stack, later, started>>
        /\ more' = [more EXCEPT ![m] = TRUE] \/ more' = more
    BY Zenon DEF Decide, Step, Move, gate, barrier, blocks
  <2>2. m \in Participant /\ seen[m] = -1
    BY ZenonT(30), <2>1, Inside, Outside DEF SyncPlace
  <2>3. WorkAt(m, pc[m], more[m]) /\ DeferAt(m, pc[m])
    BY <2>2, HereWork, Zenon
  <2>4. more[m] => more'[m]
    BY Zenon, <2>1 DEF RoundInv, TypeOK
  <2>5. WorkAt(m, "decided", more[m])'
    BY Zenon, <2>1, <2>3, <2>4 DEF WorkAt, NoWork
  <2>6. DeferAt(m, "decided")'
    BY Zenon, <2>1, <2>3 DEF DeferAt, later
  <2>7. /\ "decided" \in Place /\ "decided" \notin {"idle", "enter", "flush"} /\ pc[m] # "flush"
        /\ "decided" \notin {"release", "done"} /\ stack' = stack
    BY Zenon, <2>1 DEF Place
  <2>8. LooksAt(pc[m], more[m]) => LooksAt("decided", more'[m])
    BY Zenon, <2>1, <2>4 DEF LooksAt
  <2> QED
    BY <2>1, <2>2, <2>5, <2>6, <2>7, <2>8, MoveWork, ZenonT(30)
<1> QED
  BY ZenonT(30), <1>WaitForWork, <1>WakeUp, <1>AssertNotBusy, <1>Mourn, <1>Vote, <1>Decide

\* The last Sync of a generation lets all participants go on.
LEMMA SyncNow ==
  ASSUME RoundInv, NEW m \in Participant, Sync(m), remaining = 1
  PROVE  /\ Participant' = Participant /\ ~Freed(m)'
         /\ \A n \in Participant : /\ pc[n] = pc[m] /\ Now(n) = pc[m] /\ ~Freed(n)
                                   /\ Now(n)' = AfterSync(n)
                                   /\ NowMore(n)' <=> more[n] /\ AfterSync(n) # "weak"
         /\ \A n \in Participant \ {m} : Freed(n)' /\ AfterSync(n)' = AfterSync(n)
         /\ pc[m] \in SyncPlace
<1>1. pc[m] \in SyncPlace /\ seen[m] = -1 /\ m \in Marker
  BY Zenon, Participants DEF Sync
<1>2. \A n \in Participant : pc[n] = pc[m] /\ ~Freed(n) /\ Now(n) = pc[m]
  BY <1>1, AllArrived, Zenon
<1>3. /\ Participant' = Participant /\ ~Freed(m)'
      /\ \A n \in Participant : Now(n)' = AfterSync(n)
      /\ AfterSync(m) # "weak" => more' = more
      /\ \A n \in Marker \ {m} : more'[n] = more[n] /\ pc'[n] = pc[n]
      /\ \A n \in Participant \ {m} : Freed(n)' /\ AfterSync(n)' = AfterSync(n)
  BY SyncPasses, Zenon
<1>4. ASSUME NEW n \in Participant PROVE NowMore(n)' <=> more[n] /\ AfterSync(n) # "weak"
  <2>1. CASE n = m
    <3>1. NowMore(m)' <=> more'[m]
      BY <1>3, Zenon DEF NowMore, ToWeak
    <3>2. AfterSync(m) = "weak" => more' = [more EXCEPT ![m] = FALSE]
      BY Zenon DEF Sync, Passed
    <3>3. AfterSync(m) = "weak" => ~more'[m]
      BY Zenon, <1>1, <3>2 DEF RoundInv, TypeOK
    <3> QED
      BY <1>3, <2>1, <3>1, <3>3, Zenon
  <2>2. CASE n # m
    <3>1. n \in Marker \ {m}
      BY Zenon, <2>2, Participants
    <3>2. more'[n] <=> more[n]
      BY Zenon, <1>3, <3>1
    <3> QED
      BY <1>3, <2>2, <3>2, Zenon DEF NowMore, ToWeak
  <2> QED
    BY Zenon, <2>1, <2>2
<1> QED
  BY <1>1, <1>2, <1>3, <1>4, Zenon

\* Marker m returns from Sync: what it is about to do does not change.
LEMMA ReturnAlone ==
  ASSUME RoundInv, NEW m \in Marker, SyncReturns(m)
  PROVE  /\ m \in Participant /\ Alone(m) /\ ~Freed(m)' /\ pc[m] \in SyncPlace
         /\ Now(m)' = Now(m) /\ (NowMore(m)' <=> NowMore(m)) /\ NowDelayed(m)' = NowDelayed(m)
<1>1. /\ m \in Participant /\ Freed(m) /\ pc[m] \in SyncPlace
      /\ Participant' = Participant
      /\ pc'[m] = AfterSync(m) /\ Now(m) = AfterSync(m) /\ ~Freed(m)'
      /\ AfterSync(m) # "weak" => more' = more
      /\ \A n \in Participant : Now(n)' = Now(n)
      /\ \A n \in Participant \ {m} : (Freed(n)' <=> Freed(n)) /\ AfterSync(n)' = AfterSync(n)
  BY ReturnFacts, Zenon
<1>2. Step(m)
  BY Zenon DEF Step
<1>3. Kept(m) /\ \A n \in Marker \ {m} : pc'[n] = pc[n]
  BY Zenon, <1>2, StepKeeps
<1>4. \A n \in Participant \ {m} : ToWeak(n)' <=> ToWeak(n)
  BY <1>1, Zenon DEF ToWeak
<1>5. Alone(m)
  BY <1>1, <1>3, <1>4, Zenon DEF Alone
<1>6. ~ToWeak(m)' /\ (ToWeak(m) <=> AfterSync(m) = "weak")
  BY <1>1, Zenon DEF ToWeak
<1>7. CASE AfterSync(m) = "weak"
  <2>1. more' = [more EXCEPT ![m] = FALSE] /\ delayed' = [delayed EXCEPT ![m] = {}]
    BY Zenon, <1>7 DEF SyncReturns, Passed
  <2>2. ~more'[m] /\ delayed'[m] = {}
    BY Zenon, <2>1 DEF RoundInv, TypeOK
  <2> QED
    BY <1>1, <1>5, <1>6, <1>7, <2>2, Zenon DEF NowMore, NowDelayed
<1>8. CASE AfterSync(m) # "weak"
  <2>1. more' = more /\ delayed' = delayed
    BY Zenon, <1>8 DEF SyncReturns, Passed
  <2> QED
    BY <1>1, <1>5, <1>6, <1>8, <2>1, ZenonT(30) DEF NowMore, NowDelayed
<1> QED
  BY Zenon, <1>7, <1>8

(* The steps of the barrier.                                               *)
LEMMA BarrierWork ==
  ASSUME RoundInv, WorkInv, TypeOK', NEW m \in Marker
  PROVE  Sync(m) \/ SyncReturns(m) => WorkInv'
\* Where the places before a Sync lead.
<1>SyncWorkAt. ASSUME NEW n \in Participant, pc[n] \in SyncPlace, NEW a,
                      a = AfterSync(n), NEW x, x <=> (more[n] /\ a # "weak"),
                      UNCHANGED <<input, output, slots, deferred, scanned, deferredStack, marked, started>>,
                      WorkAt(n, pc[n], more[n]), DeferAt(n, pc[n])
               PROVE  /\ WorkAt(n, a, x)' /\ DeferAt(n, a)'
                      /\ LooksAt(pc[n], more[n]) => LooksAt(a, x)
  <2> USE <1>SyncWorkAt
  <2>1. n \in Marker
    BY Zenon, Participants
  <2>2. /\ pc[n] = "stop" => a \in {"assert", "weak"}
        /\ pc[n] = "debug" => a = "weak"
        /\ pc[n] = "voted" => a = "decide"
        /\ pc[n] = "decided" => IF more[n] THEN a = "first" ELSE a = "late"
        /\ pc[n] = "deferredDone" => a = "mourn"
        /\ pc[n] = "exit" => a = "release"
    BY Zenon, <2>1, AfterSyncIs
  <2>3. NoWork(n)' <=> NoWork(n)
    BY Zenon DEF NoWork
  <2>4. NoWork(n)' => input'[n] = {} /\ output'[n] = {} /\ slots'[n] \subseteq marked'
    BY Zenon DEF NoWork
  <2>5. /\ pc[n] \in {"stop", "debug", "deferredDone", "exit"} => NoWork(n)
        /\ pc[n] \in {"voted", "decided"} => more[n] \/ NoWork(n)
    BY Zenon DEF WorkAt
  <2>6. WorkAt(n, a, x)'
    BY ZenonT(30), <2>2, <2>3, <2>4, <2>5 DEF WorkAt, SyncPlace
  <2>7. DeferAt(n, a)'
    BY Zenon, <2>2 DEF DeferAt, SyncPlace
  <2>8. LooksAt(pc[n], more[n]) => LooksAt(a, x)
    BY ZenonT(30), <2>2 DEF LooksAt, SyncPlace
  <2> QED
    BY Zenon, <2>6, <2>7, <2>8
<1>LastSync. ASSUME m \in Participant, Sync(m), remaining = 1 PROVE WorkInv'
  <2> USE <1>LastSync
  <2>1. /\ Participant' = Participant /\ ~Freed(m)' /\ pc[m] \in SyncPlace
        /\ \A n \in Participant : /\ pc[n] = pc[m] /\ Now(n) = pc[m] /\ ~Freed(n)
                                  /\ Now(n)' = AfterSync(n)
                                  /\ NowMore(n)' <=> more[n] /\ AfterSync(n) # "weak"
    BY SyncNow, Zenon
  <2>2. UNCHANGED <<input, output, slots, deferred, scanned, deferredStack, marked, started, stack, global_list>>
    BY Zenon DEF Sync, blocks, later
  <2>3. ASSUME NEW n \in Participant
        PROVE  WorkOK(n)' /\ DeferOK(n)' /\ (Looks(n) => Looks(n)')
    <3>1. pc[n] \in SyncPlace /\ Now(n) = pc[n] /\ (NowMore(n) <=> more[n]) /\ WorkOK(n) /\ DeferOK(n)
      BY Zenon, <2>1 DEF NowMore, ToWeak, WorkInv
    <3>2. WorkAt(n, pc[n], more[n]) /\ DeferAt(n, pc[n]) /\ (Looks(n) => LooksAt(pc[n], more[n]))
      BY <3>1, Zenon DEF WorkOK, WorkAt, DeferOK, Looks, LooksAt
    <3> PICK a : a = AfterSync(n)
      BY Zenon
    <3> PICK x : x = (more[n] /\ a # "weak")
      BY Zenon
    <3>3. x <=> (more[n] /\ a # "weak")
      BY Zenon
    <3>4. WorkAt(n, a, x)' /\ DeferAt(n, a)' /\ (LooksAt(pc[n], more[n]) => LooksAt(a, x))
      BY <2>2, <3>1, <3>2, <3>3, <1>SyncWorkAt, ZenonT(30)
    <3>5. Now(n)' = a /\ (NowMore(n)' <=> x)
      BY Zenon, <2>1, <3>3
    <3> QED
      BY <3>2, <3>4, <3>5, Zenon DEF WorkOK, WorkAt, DeferOK, Looks, LooksAt
  <2>4. RestOK'
    <3>1. /\ \A n \in Marker \ {m} : pc'[n] = pc[n] /\ delayed'[n] = delayed[n]
          /\ m \in Marker /\ Main \in Participant /\ pc[Main] \in SyncPlace
      BY <2>1, Participants DEF Sync, Passed, Move, RoundInv, TypeOK
    <3>2. \A n \in Marker \ Participant : n \in Marker \ {m}
      BY Zenon
    <3>3. pc[Main] # "flush"
      BY Zenon, <3>1 DEF SyncPlace
    <3>4. \A h \in Helper : pc'[h] # "idle"
      <4>1. m # Main => pc'[m] # "idle"
        BY Zenon, <2>1 DEF Participant
      <4> QED
        BY Zenon, <3>1, <3>3, <4>1, Markers DEF WorkInv, RestOK
    <3> QED
      BY ZenonT(30), <2>1, <2>2, <3>1, <3>2, <3>3, <3>4 DEF WorkInv, RestOK
  <2> QED
    BY ZenonT(30), <2>1, <2>2, <2>3, <2>4 DEF WorkInv
\* Marker m calls Sync and waits, or returns: everybody is where they were, in effect.
<1>Barrier. ASSUME m \in Participant, Step(m), Alone(m), ~Freed(m)', Now(m)' = Now(m),
                   NowMore(m)' <=> NowMore(m), pc[m] # "flush",
                   UNCHANGED <<input, output, slots, deferred, scanned, deferredStack, marked, started, stack, global_list>>
            PROVE  WorkInv'
  <2> USE <1>Barrier
  <2>1. WorkOK(m) /\ DeferOK(m)
    BY Zenon DEF WorkInv
  <2>2. WorkOK(m)' /\ DeferOK(m)' /\ (Looks(m)' <=> Looks(m))
    BY <2>1, Zenon DEF WorkOK, WorkAt, NoWork, DeferOK, DeferAt, Looks, LooksAt
  <2>3. pc'[Main] # "flush" => pc[Main] # "flush"
    BY Zenon, Markers DEF Alone
  <2>4. /\ marked \subseteq marked' /\ started \subseteq started' /\ deferredStack' \subseteq deferredStack
        /\ global_list' = global_list /\ stack' = stack
    BY Zenon
  <2> QED
    BY <2>2, <2>3, <2>4, StepWork, Zenon
<1>Sync. ASSUME Sync(m) PROVE WorkInv'
  <2> USE <1>Sync
  <2>1. pc[m] \in SyncPlace /\ seen[m] = -1 /\ Step(m)
    BY Zenon DEF Sync, Step
  <2>2. m \in Participant
    BY Zenon, <2>1, Inside DEF SyncPlace
  <2>3. CASE remaining = 1
    BY Zenon, <2>2, <2>3, <1>LastSync
  <2>4. CASE remaining # 1
    <3>1. /\ Participant' = Participant
          /\ pc' = pc /\ more' = more /\ generation' = generation
          /\ \A n \in Participant : /\ Now(n)' = Now(n) /\ (Freed(n)' <=> Freed(n))
                                    /\ AfterSync(n)' = AfterSync(n)
      BY <2>2, <2>4, SyncWaits, Zenon
    <3>2. \A n \in Participant : (ToWeak(n)' <=> ToWeak(n)) /\ (NowMore(n)' <=> NowMore(n))
      BY <3>1, Zenon DEF ToWeak, NowMore
    <3>3. Kept(m) /\ \A n \in Marker \ {m} : pc'[n] = pc[n]
      BY Zenon, <2>1, StepKeeps
    <3>4. Alone(m)
      BY <3>1, <3>2, <3>3, Zenon DEF Alone
    <3>5. ~Freed(m)'
      <4>1. ~Freed(m)
        BY Zenon, <2>1 DEF Freed
      <4> QED
        BY Zenon, <2>2, <3>1, <4>1
    <3>6. /\ pc[m] # "flush"
          /\ UNCHANGED <<input, output, slots, deferred, scanned, deferredStack, marked, started, stack, global_list>>
      BY Zenon, <2>1 DEF Sync, blocks, later, SyncPlace
    <3> QED
      BY <2>1, <2>2, <3>1, <3>2, <3>4, <3>5, <3>6, <1>Barrier, ZenonT(30)
  <2> QED
    BY Zenon, <2>3, <2>4
<1>SyncReturns. ASSUME SyncReturns(m) PROVE WorkInv'
  <2> USE <1>SyncReturns
  <2>1. /\ m \in Participant /\ Alone(m) /\ ~Freed(m)' /\ pc[m] \in SyncPlace
        /\ Now(m)' = Now(m) /\ (NowMore(m)' <=> NowMore(m))
    BY ReturnAlone, Zenon
  <2>2. /\ pc[m] # "flush" /\ Step(m)
        /\ UNCHANGED <<input, output, slots, deferred, scanned, deferredStack, marked, started, stack, global_list>>
    BY Zenon, <2>1 DEF SyncReturns, blocks, later, SyncPlace, Step
  <2> QED
    BY <2>1, <2>2, <1>Barrier, Zenon
<1> QED
  BY Zenon, <1>Sync, <1>SyncReturns

(* Markers start, try to enter the barrier, and end.                       *)
LEMMA EndsWork ==
  ASSUME RoundInv, WorkInv, TypeOK'
  PROVE  /\ \A m \in Marker : Release(m) => WorkInv'
         /\ \A h \in Helper : StartTask(h) \/ TryEnter(h) => WorkInv'
         /\ StartMain \/ Finalize => WorkInv'
\* A helper outside the barrier is started, refused or done.
<1>Outsider. ASSUME NEW h \in Marker \ Participant, NEW q \in {"release", "done"},
                    pc[h] # "idle", pc' = [pc EXCEPT ![h] = q],
                    UNCHANGED <<gate, slots, marked, blocks, later, weak, started>>
             PROVE  WorkInv'
  <2> USE <1>Outsider
  <2>1. more' = more /\ UNCHANGED gate /\ q \in {"enter", "release", "done"}
    BY Zenon DEF weak
  <2>2. /\ Participant' = Participant
        /\ \A n \in Participant : /\ Now(n)' = Now(n) /\ (Freed(n)' <=> Freed(n))
                                  /\ AfterSync(n)' = AfterSync(n) /\ pc'[n] = pc[n]
    BY <2>1, OutsiderFacts, Zenon
  <2>3. \A n \in Participant : (ToWeak(n)' <=> ToWeak(n)) /\ (NowMore(n)' <=> NowMore(n))
    BY <2>1, <2>2, Zenon DEF ToWeak, NowMore
  <2>4. \A n \in Participant : Looks(n)' <=> Looks(n)
    BY <2>2, <2>3, Zenon DEF Looks, LooksAt
  <2>5. \A n \in Participant : WorkOK(n) /\ DeferOK(n) => WorkOK(n)' /\ DeferOK(n)'
    <3>1. UNCHANGED <<input, output, slots, marked, deferred, scanned, started, deferredStack>>
      BY Zenon DEF blocks, later
    <3>2. \A n \in Participant : WorkOK(n) => WorkOK(n)'
      BY <2>2, <2>3, <3>1, Zenon DEF WorkOK, WorkAt, NoWork
    <3>3. \A n \in Participant : DeferOK(n) => DeferOK(n)'
      BY <2>2, <3>1, ZenonT(30) DEF DeferOK, DeferAt
    <3> QED
      BY Zenon, <3>2, <3>3
  <2>6. RestOK'
    <3>1. \A n \in Marker : pc'[n] = IF n = h THEN q ELSE pc[n]
      BY Zenon DEF RoundInv, TypeOK
    <3>2. h # Main
      BY Zenon, Participants
    <3> QED
      BY <2>2, <3>1, <3>2, Markers DEF WorkInv, RestOK, blocks, later, weak
  <2> QED
    BY ZenonT(30), <2>2, <2>4, <2>5, <2>6 DEF WorkInv, blocks
<1>Release. ASSUME NEW m \in Marker, Release(m) PROVE WorkInv'
  <2> USE <1>Release
  <2>1. /\ pc[m] = "release" /\ pc' = [pc EXCEPT ![m] = IF m = Main THEN "finalize" ELSE "done"] /\ Step(m)
        /\ UNCHANGED <<gate, slots, marked, blocks, later, weak, started>>
    BY Zenon DEF Release, Step, Move, gate
  <2>2. CASE m \in Participant
    <3>1. seen[m] = -1 /\ (m # Main => syncs[m] > 0)
      BY Zenon, <2>1, <2>2, Outside DEF SyncPlace, Participant
    <3>2. UNCHANGED <<gate, slots, input, output, stack, later, started>>
      BY ZenonT(30), <2>1 DEF blocks
    <3>3. CASE m = Main
      BY ZenonT(30), <2>1, <2>2, <3>1, <3>2, <3>3, IdleWork
    <3>4. CASE m # Main
      BY Zenon, <2>1, <2>2, <3>1, <3>2, <3>4, IdleWork
    <3> QED
      BY Zenon, <3>3, <3>4
  <2>3. CASE m \notin Participant
    <3>1. m # Main /\ m \in Marker \ Participant
      BY Zenon, <2>3, Participants
    <3>2. pc' = [pc EXCEPT ![m] = "done"] /\ pc[m] # "idle"
      BY ZenonT(30), <2>1, <3>1
    <3> QED
      BY Zenon, <2>1, <3>1, <3>2, <1>Outsider
  <2> QED
    BY Zenon, <2>2, <2>3
<1>StartTask. ASSUME NEW h \in Helper, StartTask(h) PROVE WorkInv'
  <2> USE <1>StartTask
  <2> USE Markers, Participants
  <2>1. /\ pc[Main] = "flush" /\ pc[h] = "idle" /\ pc' = [pc EXCEPT ![h] = "enter"]
        /\ UNCHANGED <<slots, marked, output, scanned, todo, more, started, gate>>
        /\ input' = [input EXCEPT ![h] = {}] /\ deferred' = [deferred EXCEPT ![h] = {}]
        /\ delayed' = [delayed EXCEPT ![h] = {}]
    BY Zenon DEF StartTask, Move, Flush, gate, barrier
  <2>2. h \in Marker \ Participant /\ h \in Marker /\ h # Main
    BY Zenon, <2>1 DEF Participant
  <2>3. /\ Participant' = Participant
        /\ \A n \in Participant : /\ Now(n)' = Now(n) /\ (Freed(n)' <=> Freed(n))
                                  /\ AfterSync(n)' = AfterSync(n) /\ pc'[n] = pc[n]
    <3>1. "enter" \in {"enter", "release", "done"} /\ UNCHANGED gate /\ more' = more
      BY ZenonT(30), <2>1
    <3> QED
      BY <2>1, <2>2, <3>1, OutsiderFacts, Zenon
  <2>4. /\ \A n \in Marker : pc'[n] = IF n = h THEN "enter" ELSE pc[n]
        /\ \A n \in Marker : input'[n] = IF n = h THEN {} ELSE input[n]
        /\ \A n \in Marker : deferred'[n] = IF n = h THEN {} ELSE deferred[n]
        /\ \A n \in Marker : delayed'[n] = IF n = h THEN {} ELSE delayed[n]
    BY ZenonT(30), <2>1, <2>2 DEF RoundInv, TypeOK
  <2>5. Now(Main) = "flush"
    <3>1. seen[Main] = -1
      BY Zenon, <2>1, Outside DEF SyncPlace
    <3> QED
      BY Zenon, <2>1, <3>1 DEF Now, Freed
  <2>6. ASSUME NEW n \in Participant PROVE WorkOK(n)' /\ DeferOK(n)' /\ (Looks(n)' <=> Looks(n))
    <3>1. n \in Marker /\ n # h
      BY Zenon, <2>2
    <3>2. (ToWeak(n)' <=> ToWeak(n)) /\ (NowMore(n)' <=> NowMore(n))
      BY <2>1, <2>3, Zenon DEF ToWeak, NowMore
    <3>3. Looks(n)' <=> Looks(n)
      BY <2>3, <3>2, ZenonT(30) DEF Looks, LooksAt
    <3>4. /\ input'[n] = input[n] /\ output'[n] = output[n] /\ slots'[n] = slots[n] /\ marked' = marked
          /\ deferred'[n] = deferred[n] /\ scanned'[n] = scanned[n] /\ started' = started
          /\ Now(n)' = Now(n) /\ WorkOK(n) /\ DeferOK(n)
      BY ZenonT(30), <2>1, <2>3, <2>4, <3>1 DEF WorkInv
    <3>5. WorkOK(n)'
      BY <3>2, <3>4, Zenon DEF WorkOK, WorkAt, NoWork
    <3>6. DeferOK(n)'
      BY Zenon, <2>5, <3>4 DEF DeferOK, DeferAt
    <3> QED
      BY Zenon, <3>3, <3>5, <3>6
  <2>7. RestOK'
    <3>1. /\ \A n \in Marker \ Participant' : output'[n] = {}
          /\ \A n \in Marker \ Participant' : pc'[n] # "idle" =>
                input'[n] = {} /\ deferred'[n] = {} /\ delayed'[n] = {}
      BY <2>1, <2>3, <2>4 DEF WorkInv, RestOK
    <3>2. pc'[Main] = "flush"
      BY Zenon, <2>1, <2>2, <2>4
    <3> QED
      BY ZenonT(30), <3>1, <3>2 DEF RestOK
  <2>8. Looks(Main)
    BY Zenon, <2>5 DEF Looks, LooksAt
  <2>9. \E n \in Participant : ~Freed(n)'
    BY Zenon, <2>3 DEF WorkInv
  <2> QED
    BY ZenonT(30), <2>3, <2>6, <2>7, <2>8, <2>9 DEF WorkInv
<1>StartMain. ASSUME StartMain PROVE WorkInv'
  <2> USE <1>StartMain
  <2> USE Markers, Participants
  <2>1. /\ pc[Main] = "flush" /\ pc' = [pc EXCEPT ![Main] = "count"]
        /\ UNCHANGED <<slots, marked, output, scanned, todo, more, started, gate>>
        /\ input' = [input EXCEPT ![Main] = {}] /\ deferred' = [deferred EXCEPT ![Main] = {}]
        /\ delayed' = [delayed EXCEPT ![Main] = @ \cup global_list] /\ global_list' = {}
        /\ \A h \in Helper : pc[h] # "idle"
    BY ZenonT(30) DEF StartMain, Move, Flush, gate, barrier
  <2>2. Kept(Main) /\ Main \in Participant /\ seen[Main] = -1 /\ UNCHANGED gate /\ "count" \in Place
        /\ "count" \notin {"idle", "enter"} /\ "count" \notin {"release", "done"}
    BY ZenonT(30), <2>1, Outside DEF SyncPlace, Kept, RoundInv, TypeOK, Place
  <2>3. Alone(Main) /\ ~Freed(Main)' /\ Now(Main)' = "count"
    BY <2>1, <2>2, MoveAlone, ZenonT(30)
  <2>4. WorkOK(Main)' /\ DeferOK(Main)' /\ Looks(Main)'
    BY Zenon, <2>3 DEF WorkOK, WorkAt, DeferOK, DeferAt, Looks, LooksAt
  <2>5. ASSUME NEW n \in Participant, n # Main PROVE WorkOK(n)' /\ DeferOK(n)'
    <3>1. WorkOK(n)'
      BY ZenonT(30), <2>1, <2>2, <2>3, <2>5, AloneOthers DEF WorkInv
    <3>2. /\ deferred'[n] = deferred[n] /\ scanned'[n] = scanned[n] /\ started' = started
          /\ Now(n)' = Now(n) /\ DeferOK(n)
      BY Zenon, <2>1, <2>3, <2>5 DEF WorkInv, Alone, Kept
    <3>3. DeferOK(n)'
      BY <2>5, <3>2, Zenon DEF DeferOK, DeferAt
    <3> QED
      BY ZenonT(30), <3>1, <3>3
  <2>6. Participant' = Participant
    BY ZenonT(30), <2>3 DEF Alone
  <2>7. RestOK'
    <3>1. \A n \in Marker \ {Main} : /\ pc'[n] = pc[n] /\ input'[n] = input[n] /\ output'[n] = output[n]
                                     /\ deferred'[n] = deferred[n] /\ delayed'[n] = delayed[n]
      BY Zenon, <2>3 DEF Alone, Kept
    <3> QED
      BY ZenonT(30), <2>1, <2>6, <3>1 DEF WorkInv, RestOK
  <2> QED
    BY ZenonT(30), <2>3, <2>4, <2>5, <2>6, <2>7 DEF WorkInv
<1>TryEnter. ASSUME NEW h \in Helper, TryEnter(h) PROVE WorkInv'
  <2> USE <1>TryEnter
  <2> USE Markers, Participants
  <2>1. /\ pc[h] = "enter" /\ UNCHANGED <<slots, marked, blocks, later, weak, started>>
        /\ generation # 0 => pc' = [pc EXCEPT ![h] = "release"] /\ UNCHANGED gate
        /\ generation = 0 => pc' = [pc EXCEPT ![h] = "count"]
    BY Zenon DEF TryEnter, Move, gate
  <2>2. h \in Marker \ Participant /\ h \in Marker /\ h # Main
    BY Zenon, <2>1 DEF Participant
  <2>3. CASE generation # 0
    BY ZenonT(30), <2>1, <2>2, <2>3, <1>Outsider
  <2>4. CASE generation = 0
    <3>1. /\ Participant' = Participant \cup {h}
          /\ Now(h)' = "count" /\ ~Freed(h)'
          /\ \A n \in Participant : /\ Now(n)' = Now(n) /\ (Freed(n)' <=> Freed(n))
                                    /\ AfterSync(n)' = AfterSync(n) /\ pc'[n] = pc[n]
      BY <2>4, EnterFacts, ZenonT(30)
    <3>2. WorkOK(h)' /\ DeferOK(h)'
      BY ZenonT(30), <2>2, <3>1 DEF WorkOK, WorkAt, DeferOK, DeferAt
    <3>3. ASSUME NEW n \in Participant PROVE WorkOK(n)' /\ DeferOK(n)' /\ (Looks(n)' <=> Looks(n))
      <4>1. (ToWeak(n)' <=> ToWeak(n)) /\ (NowMore(n)' <=> NowMore(n))
        BY <2>1, <3>1, Zenon DEF ToWeak, NowMore, weak
      <4>2. Looks(n)' <=> Looks(n)
        BY <3>1, <4>1, Zenon DEF Looks, LooksAt
      <4>3. /\ UNCHANGED <<input, output, slots, marked, deferred, scanned, started, deferredStack>>
            /\ Now(n)' = Now(n) /\ WorkOK(n) /\ DeferOK(n)
        BY Zenon, <2>1, <3>1 DEF WorkInv, blocks, later
      <4>4. WorkOK(n)'
        BY <4>1, <4>3, Zenon DEF WorkOK, WorkAt, NoWork
      <4>5. DeferOK(n)'
        BY <4>3, ZenonT(30) DEF DeferOK, DeferAt
      <4> QED
        BY Zenon, <4>2, <4>4, <4>5
    <3>4. RestOK'
      <4>1. \A n \in Marker : pc'[n] = IF n = h THEN "count" ELSE pc[n]
        BY Zenon, <2>1, <2>2, <2>4 DEF RoundInv, TypeOK
      <4> QED
        BY ZenonT(30), <2>1, <2>2, <3>1, <4>1 DEF WorkInv, RestOK, blocks, later, weak
    <3>5. stack' = stack
      BY Zenon, <2>1 DEF blocks
    <3> QED
      BY ZenonT(30), <3>1, <3>2, <3>3, <3>4, <3>5 DEF WorkInv
  <2> QED
    BY Zenon, <2>3, <2>4
<1>Finalize. ASSUME Finalize PROVE WorkInv'
  <2> USE <1>Finalize
  <2> USE Markers, Participants
  <2>1. /\ pc[Main] = "finalize" /\ pc' = [pc EXCEPT ![Main] = "done"]
        /\ UNCHANGED <<slots, marked, blocks, later, weak, started, gate>>
    BY Zenon DEF Finalize, Move, gate, barrier
  <2>2. Kept(Main) /\ Main \in Participant /\ seen[Main] = -1 /\ UNCHANGED gate /\ "done" \in Place
        /\ "done" \notin {"idle", "enter"} /\ ("done" \in {"release", "done"} => Main = Main)
    BY Zenon, <2>1, Outside DEF SyncPlace, Kept, blocks, later, weak, Place
  <2>3. Alone(Main) /\ ~Freed(Main)' /\ Now(Main)' = "done"
    BY <2>1, <2>2, MoveAlone, Zenon
  <2>4. WorkAt(Main, pc[Main], more[Main]) /\ DeferAt(Main, pc[Main]) /\ Now(Main) = pc[Main]
    BY <2>2, HereWork, Zenon
  <2>5. WorkOK(Main)' /\ DeferOK(Main)' /\ ~Looks(Main)
    BY Zenon, <2>1, <2>3, <2>4 DEF WorkOK, WorkAt, NoWork, DeferOK, DeferAt, Looks, LooksAt, blocks, later
  <2>6. /\ marked \subseteq marked' /\ started \subseteq started' /\ deferredStack' \subseteq deferredStack
        /\ global_list' = global_list /\ stack' = stack /\ pc[Main] # "flush"
    BY Zenon, <2>1 DEF blocks, later, weak
  <2> QED
    BY <2>2, <2>3, <2>5, <2>6, StepWork, ZenonT(30)
<1> QED
  BY Zenon, <1>Release, <1>StartTask, <1>StartMain, <1>TryEnter, <1>Finalize

\* What incremental marking left in the blocks is there to be looked at.
LEMMA InitWork ==
  ASSUME Init
  PROVE  WorkInv
<1> USE Markers
<1>1. Participant = {Main}
  BY Zenon DEF Init, Participant
<1>2. Now(Main) = "flush" /\ ~Freed(Main)
  BY Zenon DEF Init, Now, Freed
<1>3. RestOK
  BY Zenon, <1>1 DEF Init, RestOK
<1>4. WorkOK(Main) /\ DeferOK(Main)
  BY Zenon, <1>2 DEF WorkOK, WorkAt, DeferOK, DeferAt
<1>5. stack = {}
  BY Zenon DEF Init
<1> QED
  BY ZenonT(30), <1>1, <1>2, <1>3, <1>4, <1>5 DEF WorkInv

\* Every step preserves the invariant of the work ...
LEMMA NextWork ==
  ASSUME RoundInv, WorkInv, [Next]_vars
  PROVE  WorkInv'
<1>0. TypeOK'
  BY Zenon, NextRound DEF RoundInv
<1>1. ASSUME NEW m \in Marker, Step(m) PROVE WorkInv'
  BY <1>0, <1>1, ScanWork, WaitWork, BarrierWork, EndsWork, ZenonT(30) DEF Step
<1>2. CASE UNCHANGED vars
  <2>1. Participant' = Participant
    BY Zenon, <1>2 DEF vars, Participant
  <2>2. \A n \in Participant : /\ Now(n)' = Now(n) /\ (NowMore(n)' <=> NowMore(n))
                               /\ (Freed(n)' <=> Freed(n))
    BY <1>2 DEF vars, Now, NowMore, ToWeak, Freed, AfterSync
  <2>3. \A n \in Participant : WorkOK(n)' <=> WorkOK(n)
    BY <1>2, <2>2, Zenon DEF vars, WorkOK, WorkAt, NoWork
  <2>4. \A n \in Participant : (DeferOK(n)' <=> DeferOK(n)) /\ (Looks(n)' <=> Looks(n))
    BY <1>2, <2>2, ZenonT(30) DEF vars, DeferOK, DeferAt, Looks, LooksAt
  <2>5. RestOK'
    BY Zenon, <1>2, <2>1 DEF vars, WorkInv, RestOK
  <2>6. stack' = stack
    BY Zenon, <1>2 DEF vars
  <2> QED
    BY ZenonT(30), <2>1, <2>2, <2>3, <2>4, <2>5, <2>6 DEF WorkInv
<1> QED
  BY <1>0, <1>1, <1>2, WaitWork, EndsWork, ZenonT(30) DEF Next

\* ... so it holds in every state.
LEMMA WorkInvariant == Spec => [](RoundInv /\ WorkInv)
BY InitRound, InitWork, NextRound, NextWork, PTL DEF Spec

\* The count of busy markers is zero outside the rounds that have some.
LEMMA NobodyBusy ==
  ASSUME RoundInv, \A n \in Participant : ~IsBusy(Now(n), more[n])
  PROVE  num_busy = 0
<1>1. BusyOnes = {}
  BY Zenon DEF BusyOnes
<1> QED
  BY Zenon, <1>1, FS_EmptySet DEF RoundInv, CountOK

(***************************************************************************)
(* BlockStack::WaitForWork: once every participant has been told to stop   *)
(* no work is left anywhere, whatever the number of markers and the        *)
(* objects they share; and the assertion of DEBUG builds that nobody       *)
(* counts as busy holds.                                                   *)
(***************************************************************************)
THEOREM StopMeansNoWorkHolds == Spec => []StopMeansNoWork
<1>1. ASSUME RoundInv, WorkInv, \A m \in Participant : pc[m] = "stop"
      PROVE  /\ stack = {} /\ num_busy = 0 /\ asleep = {}
             /\ \A m \in Participant : NoWork(m)
  <2>1. \A m \in Participant : Now(m) = "stop" /\ ~Freed(m)
    <3>1. PICK m \in Participant : ~Freed(m)
      BY Zenon, <1>1 DEF WorkInv
    <3>2. Now(m) = "stop"
      BY Zenon, <1>1, <3>1 DEF Now
    <3>3. PICK R \in Rounds : \A n \in Participant : Now(n) \in R
      BY Zenon, <1>1 DEF RoundInv, SameRound
    <3>4. R = Marking
      BY <3>2, <3>3, RoundsApart DEF Marking, Rounds
    <3>5. ASSUME NEW n \in Participant, Freed(n) PROVE FALSE
      <4>1. Now(n) = AfterSync(n) /\ n \in Marker /\ pc[n] = "stop"
        BY Zenon, <1>1, <3>5, Participants DEF Now
      <4>2. AfterSync(n) \in {"assert", "weak"}
        BY Zenon, <1>1, <4>1, AfterSyncIs DEF SyncPlace
      <4> QED
        BY ZenonT(30), <3>3, <3>4, <4>1, <4>2 DEF Marking, Busy
    <3> QED
      BY Zenon, <1>1, <3>5 DEF Now
  <2>2. \A m \in Participant : ~Looks(m) /\ NoWork(m)
    BY Zenon, <1>1, <2>1 DEF WorkInv, WorkOK, WorkAt, Looks, LooksAt
  <2>3. num_busy = 0
    BY Zenon, <1>1, <2>1, NobodyBusy DEF IsBusy, Busy
  <2>4. asleep = {}
    <3>1. ASSUME NEW m \in Marker, pc[m] = "wait" PROVE FALSE
      BY ZenonT(30), <1>1, <3>1, Inside
    <3> QED
      BY Zenon, <1>1, <3>1 DEF RoundInv, CountOK
  <2> QED
    BY ZenonT(30), <1>1, <2>2, <2>3, <2>4 DEF WorkInv
<1>2. ASSUME RoundInv, NEW m \in Marker, pc[m] = "assert"
      PROVE  num_busy = 0
  <2>1. m \in Participant /\ seen[m] = -1
    BY Zenon, <1>2, Inside, Outside DEF SyncPlace
  <2>2. Now(m) = "assert"
    BY Zenon, <1>2, <2>1 DEF Now, Freed
  <2>3. PICK R \in Rounds : \A n \in Participant : Now(n) \in R
    BY Zenon, <1>2 DEF RoundInv, SameRound
  <2>4. R = Checking
    BY <2>1, <2>2, <2>3, RoundsApart DEF Checking, Rounds
  <2> QED
    BY ZenonT(30), <1>2, <2>3, <2>4, NobodyBusy DEF Checking, IsBusy, Busy
<1>3. RoundInv /\ WorkInv => StopMeansNoWork
  BY <1>1, <1>2, Zenon DEF StopMeansNoWork
<1> QED
  BY <1>3, WorkInvariant, PTL

=============================================================================
