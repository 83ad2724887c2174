------------------------- MODULE ParallelMarkAlive --------------------------
(***************************************************************************)
(* Markers hold and mark only what is alive, and lose nothing of it: what  *)
(* each step of ParallelMark does to the marks.                            *)
(***************************************************************************)
EXTENDS ParallelMarkWork

\* The marks.

\* What marker m may yet scan: what it holds, and what it may take.
Mine(m) ==
    input[m] \cup output[m] \cup delayed[m] \cup todo[m] \cup global_list \cup UNION stack

\* What it may yet mark.
Soon(m) == slots[m] \cup scanned[m] \cup deferred[m] \cup deferredStack

\* What is marked or will be, and what has only such pointers.
Reached(o) == o \in marked \/ \E m \in Marker : o \in Soon(m)
Black(o) == \A x \in Pointers[o] : Reached(x)

\* What may be deferred.
Late == Instructions \cup UNION {LeftDeferred[m] : m \in Marker}

\* Nothing dead is marked, held or deferred.
OnlyAlive ==
    /\ LeftMarked \subseteq marked /\ marked \subseteq Alive
    /\ \A m \in Marker : /\ Mine(m) \subseteq marked /\ Soon(m) \subseteq Alive
                         /\ deferred[m] \cup scanned[m] \cup deferredStack \subseteq Late

\* Every object that is marked and not yet to be scanned has been scanned.
AllAlive ==
    /\ \A o \in marked : (\E m \in Marker : o \in Mine(m)) \/ Black(o)
    /\ \A m \in Marker : \A o \in scanned[m] : Black(o)
    /\ \A m \in Marker : \A o \in LeftDeferred[m] :
          (\E n \in Marker : o \in deferred[n] \cup deferredStack) \/ (Reached(o) /\ Black(o))
    /\ \A s \in started : \A x \in RootSlice[s] : Reached(x)

\* A step of marker m marks, and holds, only what is alive.
Honest(m) ==
    /\ Kept(m) /\ marked \subseteq marked' /\ marked' \subseteq Alive
    /\ Mine(m)' \subseteq marked' /\ Soon(m)' \subseteq Alive
    /\ deferred'[m] \cup scanned'[m] \cup deferredStack' \subseteq Late

\* It loses nothing that is to be marked or scanned.
Thorough(m) ==
    /\ Soon(m) \subseteq marked' \cup Soon(m)'
    /\ \A o \in Mine(m) : o \in Mine(m)' \/ Pointers[o] \subseteq slots'[m]
    /\ \A o \in marked' \ marked : o \in Mine(m)' \/ o \in scanned[m]
    /\ \A o \in scanned'[m] : o \in scanned[m] \/ Pointers[o] \subseteq slots'[m]
    /\ \A o \in deferred[m] \cup deferredStack :
          \/ o \in deferred'[m] \cup deferredStack'
          \/ o \in scanned'[m] /\ Pointers[o] \subseteq slots'[m]
    /\ \A s \in started' \ started : RootSlice[s] \subseteq slots'[m]

\* What is alive is closed.
LEMMA AliveClosed ==
    /\ Alive \in SUBSET Object
    /\ LeftMarked \subseteq Alive
    /\ \A s \in DOMAIN RootSlice : RootSlice[s] \subseteq Alive
    /\ \A m \in Marker : \A o \in LeftDeferred[m] : o \in Alive /\ Pointers[o] \subseteq Alive
    /\ \A o \in Alive \ WeakProperty : Pointers[o] \subseteq Alive
    /\ \A p \in Alive \cap WeakProperty : Key[p] \in Alive => Pointers[p] \subseteq Alive
<1>1. Alive \in SUBSET Object
  BY Zenon DEF Alive
<1>2. LeftMarked \subseteq Alive
  <2>1. LeftMarked \subseteq Object
    BY ZenonT(30), ParallelMarkAssumption DEF LeftMarked
  <2> QED
    BY <2>1, Zenon DEF Alive, Closed
<1>3. ASSUME NEW s \in DOMAIN RootSlice PROVE RootSlice[s] \subseteq Alive
  <2>1. RootSlice[s] \subseteq Object
    BY Zenon, ParallelMarkAssumption
  <2>2. \A S : Closed(S) => RootSlice[s] \subseteq S
    BY Zenon DEF Closed
  <2> QED
    BY Zenon, <2>1, <2>2 DEF Alive
<1>4. ASSUME NEW m \in Marker, NEW o \in LeftDeferred[m]
      PROVE  o \in Alive /\ Pointers[o] \subseteq Alive
  <2>1. o \in Object /\ Pointers[o] \subseteq Object
    BY Zenon, ParallelMarkAssumption
  <2>2. \A S : Closed(S) => o \in S /\ Pointers[o] \subseteq S
    BY Zenon DEF Closed
  <2> QED
    BY Zenon, <2>1, <2>2 DEF Alive
<1>5. ASSUME NEW o \in Alive \ WeakProperty PROVE Pointers[o] \subseteq Alive
  <2>1. o \in Object /\ Pointers[o] \subseteq Object
    BY Zenon, <1>1, ParallelMarkAssumption
  <2>2. \A S \in SUBSET Object : Closed(S) => Pointers[o] \subseteq S
    BY Zenon DEF Closed, Alive
  <2> QED
    BY Zenon, <2>1, <2>2 DEF Alive
<1>6. ASSUME NEW p \in Alive \cap WeakProperty, Key[p] \in Alive PROVE Pointers[p] \subseteq Alive
  <2>1. p \in Object /\ Pointers[p] \subseteq Object
    BY Zenon, <1>1, ParallelMarkAssumption
  <2>2. \A S \in SUBSET Object : Closed(S) => Pointers[p] \subseteq S
    BY Zenon, <1>6 DEF Closed, Alive
  <2> QED
    BY Zenon, <2>1, <2>2 DEF Alive
<1> QED
  BY ZenonT(30), <1>1, <1>2, <1>3, <1>4, <1>5, <1>6

\* A step that is honest about its own marker keeps all of them so.
LEMMA HonestStep ==
  ASSUME OnlyAlive, NEW m \in Marker, Honest(m)
  PROVE  OnlyAlive'
<1>1. LeftMarked \subseteq marked' /\ marked' \subseteq Alive
  BY Zenon DEF OnlyAlive, Honest
<1>2. ASSUME NEW n \in Marker
      PROVE  /\ Mine(n)' \subseteq marked' /\ Soon(n)' \subseteq Alive
             /\ deferred'[n] \cup scanned'[n] \cup deferredStack' \subseteq Late
  <2>1. CASE n = m
    BY Zenon, <2>1 DEF Honest
  <2>2. CASE n # m
    <3>1. /\ input'[n] = input[n] /\ output'[n] = output[n] /\ slots'[n] = slots[n]
          /\ deferred'[n] = deferred[n] /\ scanned'[n] = scanned[n]
          /\ delayed'[n] = delayed[n] /\ todo'[n] = todo[n]
      BY Zenon, <2>2 DEF Honest, Kept
    <3>2. Mine(n) \subseteq marked /\ Soon(n) \subseteq Alive /\ deferred[n] \cup scanned[n] \subseteq Late
      BY Zenon DEF OnlyAlive
    <3>3. Mine(m)' \subseteq marked' /\ Soon(m)' \subseteq Alive /\ marked \subseteq marked' /\ deferredStack' \subseteq Late
      BY Zenon DEF Honest
    <3>4. Mine(n)' \subseteq Mine(n) \cup Mine(m)'
      BY Zenon, <3>1 DEF Mine
    <3>5. Soon(n)' \subseteq Soon(n) \cup Soon(m)'
      BY Zenon, <3>1 DEF Soon
    <3> QED
      BY ZenonT(30), <3>1, <3>2, <3>3, <3>4, <3>5
  <2> QED
    BY Zenon, <2>1, <2>2
<1> QED
  BY <1>1, <1>2, Zenon DEF OnlyAlive

\* A step that loses nothing of its own marker loses nothing.
LEMMA ThoroughStep ==
  ASSUME OnlyAlive, AllAlive, NEW m \in Marker, Kept(m), Thorough(m), marked \subseteq marked'
  PROVE  AllAlive'
<1>1. ASSUME NEW x, Reached(x) PROVE Reached(x)'
  <2>1. CASE x \in marked
    BY Zenon, <2>1 DEF Reached
  <2>2. CASE x \in Soon(m)
    BY Zenon, <2>2 DEF Thorough, Reached
  <2>3. ASSUME NEW n \in Marker, n # m, x \in Soon(n), x \notin Soon(m) PROVE Reached(x)'
    <3>1. slots'[n] = slots[n] /\ deferred'[n] = deferred[n] /\ scanned'[n] = scanned[n]
      BY Zenon, <2>3 DEF Kept
    <3>2. x \in Soon(n)'
      BY Zenon, <2>3, <3>1 DEF Soon
    <3> QED
      BY Zenon, <3>2 DEF Reached
  <2> QED
    BY ZenonT(30), <1>1, <2>1, <2>2, <2>3 DEF Reached
<1>2. ASSUME NEW o, Black(o) PROVE Black(o)'
  BY Zenon, <1>1, <1>2 DEF Black
<1>3. ASSUME NEW o, Pointers[o] \subseteq slots'[m] PROVE Black(o)'
  BY Zenon, <1>3 DEF Black, Reached, Soon
<1>4. ASSUME NEW n \in Marker, NEW o \in Mine(n)
      PROVE  (\E k \in Marker : o \in Mine(k)') \/ Black(o)'
  <2>1. CASE o \in Mine(m)
    BY Zenon, <1>3, <2>1 DEF Thorough
  <2>2. CASE o \notin Mine(m)
    <3>1. n # m
      BY Zenon, <2>2
    <3>2. /\ input'[n] = input[n] /\ output'[n] = output[n]
          /\ delayed'[n] = delayed[n] /\ todo'[n] = todo[n]
      BY Zenon, <3>1 DEF Kept
    <3>3. o \in Mine(n)'
      BY Zenon, <2>2, <3>2 DEF Mine
    <3> QED
      BY Zenon, <3>3
  <2> QED
    BY Zenon, <2>1, <2>2
<1>5. ASSUME NEW n \in Marker, NEW o \in scanned'[n] PROVE Black(o)'
  <2>1. CASE n = m
    BY ZenonT(30), <1>2, <1>3, <1>5, <2>1 DEF AllAlive, Thorough
  <2>2. CASE n # m
    BY ZenonT(30), <1>2, <1>5, <2>2 DEF AllAlive, Kept
  <2> QED
    BY Zenon, <2>1, <2>2
<1>6. ASSUME NEW o \in marked' PROVE (\E n \in Marker : o \in Mine(n)') \/ Black(o)'
  <2>1. CASE o \in marked
    BY ZenonT(30), <1>2, <1>4, <2>1 DEF AllAlive
  <2>2. CASE o \notin marked
    BY ZenonT(30), <1>2, <1>6, <2>2 DEF AllAlive, Thorough
  <2> QED
    BY Zenon, <2>1, <2>2
<1>7. ASSUME NEW n \in Marker, NEW o \in LeftDeferred[n]
      PROVE  (\E k \in Marker : o \in deferred'[k] \cup deferredStack') \/ (Reached(o)' /\ Black(o)')
  <2>1. CASE Reached(o) /\ Black(o)
    BY Zenon, <1>1, <1>2, <2>1
  <2>2. CASE o \in deferred[m] \cup deferredStack
    <3>1. CASE o \in deferred'[m] \cup deferredStack'
      BY Zenon, <3>1
    <3>2. CASE o \in scanned'[m] /\ Pointers[o] \subseteq slots'[m]
      BY Zenon, <1>3, <3>2 DEF Reached, Soon
    <3> QED
      BY ZenonT(30), <2>2, <3>1, <3>2 DEF Thorough
  <2>3. ASSUME NEW k \in Marker, k # m, o \in deferred[k] PROVE o \in deferred'[k]
    BY Zenon, <2>3 DEF Kept
  <2> QED
    BY ZenonT(30), <2>1, <2>2, <2>3 DEF AllAlive
<1>8. ASSUME NEW s \in started', NEW x \in RootSlice[s] PROVE Reached(x)'
  <2>1. CASE s \in started
    BY Zenon, <1>1, <1>8, <2>1 DEF AllAlive
  <2>2. CASE s \notin started
    BY Zenon, <1>8, <2>2 DEF Thorough, Reached, Soon
  <2> QED
    BY Zenon, <2>1, <2>2
<1> QED
  BY <1>5, <1>6, <1>7, <1>8, Zenon DEF AllAlive

\* Both; and what a step that is about neither leaves alone.
Tidy(m) == Honest(m) /\ Thorough(m)
things == <<slots, marked, input, output, stack, deferred, scanned, deferredStack,
            delayed, todo, global_list, started>>

\* What the stack holds with one block more or less.
LEMMA UnionAdd ==
  ASSUME NEW S, NEW b
  PROVE  UNION (S \cup {b}) = (UNION S) \cup b /\ (UNION (S \ {b})) \subseteq (UNION S)
         /\ (UNION S) \subseteq (UNION (S \ {b})) \cup b
<1>1. UNION (S \cup {b}) = (UNION S) \cup b
  BY Zenon
<1>2. (UNION (S \ {b})) \subseteq (UNION S)
  BY Zenon
<1>3. (UNION S) \subseteq (UNION (S \ {b})) \cup b
  BY Zenon
<1> QED
  BY ZenonT(30), <1>1, <1>2, <1>3

\* A step that leaves all that is held alone.
LEMMA SameTidy ==
  ASSUME OnlyAlive, NEW m \in Marker, Kept(m), UNCHANGED things
  PROVE  Tidy(m)
<1>1. Mine(m)' = Mine(m) /\ Soon(m)' = Soon(m) /\ marked' = marked /\ started' = started
      /\ deferred' = deferred /\ deferredStack' = deferredStack /\ scanned' = scanned
  BY Zenon DEF Mine, Soon, things
<1>2. Mine(m) \subseteq marked /\ Soon(m) \subseteq Alive /\ marked \subseteq Alive
      /\ deferred[m] \cup scanned[m] \cup deferredStack \subseteq Late
  BY Zenon DEF OnlyAlive
<1>3. Honest(m)
  BY Zenon, <1>1, <1>2 DEF Honest
<1>4. Thorough(m)
  BY Zenon, <1>1 DEF Thorough
<1> QED
  BY Zenon, <1>3, <1>4 DEF Tidy

(* The steps that start a marker.                                          *)
LEMMA StartTidy ==
  ASSUME RoundInv, OnlyAlive
  PROVE  (\A h \in Helper : StartTask(h) => Tidy(h)) /\ (StartMain => Tidy(Main))
\* Flush hands over all a visitor holds, and keeps the rest.
<1>Flush. ASSUME NEW m \in Marker, Flush(m),
                 UNCHANGED <<slots, marked, output, scanned, todo, more, started>>,
                 delayed'[m] \cup global_list' = delayed[m] \cup global_list,
                 \A n \in Marker \ {m} : delayed'[n] = delayed[n]
          PROVE  Tidy(m)
  <2> USE <1>Flush
  <2>1. /\ input'[m] = {} /\ deferred'[m] = {} /\ deferredStack' = deferredStack \cup deferred[m]
        /\ \A n \in Marker \ {m} : input'[n] = input[n] /\ deferred'[n] = deferred[n]
    BY Zenon DEF Flush, RoundInv, TypeOK
  <2>2. (UNION stack') = (UNION stack) \cup input[m]
    <3>1. CASE input[m] = {}
      BY Zenon, <3>1 DEF Flush
    <3>2. CASE input[m] # {}
      <4>1. stack' = stack \cup {input[m]}
        BY Zenon, <3>2 DEF Flush, PushBlock
      <4> QED
        BY Zenon, <4>1, UnionAdd
    <3> QED
      BY Zenon, <3>1, <3>2
  <2>3. Mine(m)' = Mine(m)
    BY Zenon, <2>1, <2>2 DEF Mine
  <2>4. Soon(m)' = Soon(m) /\ deferred[m] \cup deferredStack = deferred'[m] \cup deferredStack'
    BY Zenon, <2>1 DEF Soon
  <2>5. Kept(m)
    BY Zenon, <2>1 DEF Kept
  <2>6. Mine(m) \subseteq marked /\ Soon(m) \subseteq Alive /\ marked \subseteq Alive
        /\ deferred[m] \cup scanned[m] \cup deferredStack \subseteq Late
    BY Zenon DEF OnlyAlive
  <2>7. Honest(m)
    BY ZenonT(30), <2>3, <2>4, <2>5, <2>6 DEF Honest
  <2>8. Thorough(m)
    BY Zenon, <2>3, <2>4 DEF Thorough
  <2> QED
    BY ZenonT(30), <2>7, <2>8 DEF Tidy
<1>StartTask. ASSUME NEW h \in Helper, StartTask(h) PROVE Tidy(h)
  <2> USE <1>StartTask
  <2>1. h \in Marker
    BY Zenon, Markers
  <2>2. /\ delayed'[h] = {} /\ global_list' = global_list \cup delayed[h]
        /\ \A n \in Marker \ {h} : delayed'[n] = delayed[n]
    BY Zenon, <2>1 DEF StartTask, RoundInv, TypeOK
  <2>3. Flush(h) /\ UNCHANGED <<slots, marked, output, scanned, todo, more, started>>
    BY Zenon DEF StartTask
  <2>4. delayed'[h] \cup global_list' = delayed[h] \cup global_list
    BY Zenon, <2>2
  <2> QED
    BY ZenonT(30), <2>1, <2>2, <2>3, <2>4, <1>Flush
<1>StartMain. ASSUME StartMain PROVE Tidy(Main)
  <2> USE <1>StartMain
  <2>1. Main \in Marker
    BY Zenon, Markers
  <2>2. /\ delayed'[Main] = delayed[Main] \cup global_list /\ global_list' = {}
        /\ \A n \in Marker \ {Main} : delayed'[n] = delayed[n]
    BY Zenon, <2>1 DEF StartMain, RoundInv, TypeOK
  <2>3. Flush(Main) /\ UNCHANGED <<slots, marked, output, scanned, todo, more, started>>
    BY Zenon DEF StartMain
  <2>4. delayed'[Main] \cup global_list' = delayed[Main] \cup global_list
    BY Zenon, <2>2
  <2> QED
    BY ZenonT(30), <2>1, <2>2, <2>3, <2>4, <1>Flush
<1> QED
  BY Zenon, <1>StartTask, <1>StartMain

(* What a step of marker m does to what it holds.                          *)
LEMMA StepTidy ==
  ASSUME RoundInv, WorkInv, OnlyAlive, NEW m \in Marker
  PROVE  (Step(m) \/ WakeUp(m)) /\ ~Mourn(m) => Tidy(m)
\* BlockWorkList::Push holds the object, and drops none.
<1>PushHolds. ASSUME NEW o, Push(m, o)
              PROVE  /\ (UNION stack) \subseteq (UNION stack') /\ o \in output'[m]
                     /\ (UNION stack') \subseteq (UNION stack) \cup output[m]
                     /\ output[m] \subseteq (UNION stack') \cup output'[m] /\ output'[m] \subseteq output[m] \cup {o}
  <2> USE <1>PushHolds
  <2>1. CASE Cardinality(output[m]) = BlockSize
    <3>1. stack' = stack \cup {output[m]} /\ output'[m] = {o}
      BY Zenon, <2>1 DEF Push, PushBlock, RoundInv, TypeOK
    <3>2. (UNION stack') = (UNION stack) \cup output[m]
      BY <3>1, UnionAdd, Zenon
    <3> QED
      BY ZenonT(30), <3>1, <3>2
  <2>2. CASE Cardinality(output[m]) # BlockSize
    <3>1. stack' = stack /\ output'[m] = output[m] \cup {o}
      BY Zenon, <2>2 DEF Push, RoundInv, TypeOK
    <3> QED
      BY Zenon, <3>1
  <2> QED
    BY ZenonT(30), <2>1, <2>2
<1>MarkObject. ASSUME MarkObject(m) PROVE Tidy(m)
  <2> USE <1>MarkObject
  <2>1. PICK o \in slots[m] :
          /\ slots' = [slots EXCEPT ![m] = @ \ {o}]
          /\ IF o \in marked
             THEN UNCHANGED <<marked, output, stack, notified, deferred>>
             ELSE IF o \in Instructions
             THEN /\ deferred' = [deferred EXCEPT ![m] = @ \cup {o}]
                  /\ UNCHANGED <<marked, output, stack, notified>>
             ELSE /\ marked' = marked \cup {o}
                  /\ Push(m, o)
                  /\ UNCHANGED deferred
    BY Zenon DEF MarkObject
  <2>2. UNCHANGED <<input, scanned, deferredStack, delayed, todo, global_list, started>> /\ Step(m)
    BY Zenon DEF MarkObject, weak, Step
  <2>3. Kept(m)
    BY Zenon, <2>2, StepKeeps
  <2>4. /\ Mine(m) \subseteq marked /\ Soon(m) \subseteq Alive /\ marked \subseteq Alive /\ o \in Soon(m)
        /\ deferred[m] \cup scanned[m] \cup deferredStack \subseteq Late
    BY Zenon, <2>1 DEF OnlyAlive, Soon
  <2>5. slots'[m] = slots[m] \ {o}
    BY Zenon, <2>1 DEF RoundInv, TypeOK
  <2>6. CASE o \in marked \/ o \in Instructions
    <3>1. /\ marked' = marked /\ stack' = stack /\ output' = output
          /\ deferred'[m] = deferred[m] \/ (o \in Instructions /\ deferred'[m] = deferred[m] \cup {o})
          /\ o \in marked \/ o \in deferred'[m]
      BY <2>1, <2>6 DEF RoundInv, TypeOK
    <3>2. Mine(m)' = Mine(m)
      BY ZenonT(30), <2>2, <3>1 DEF Mine
    <3>3. Soon(m)' \subseteq Soon(m) /\ Soon(m) \subseteq marked' \cup Soon(m)'
      BY Zenon, <2>2, <2>4, <2>5, <3>1 DEF Soon
    <3>4. Honest(m)
      BY Zenon, <2>2, <2>3, <2>4, <3>1, <3>2, <3>3 DEF Honest, Late
    <3>5. Thorough(m)
      BY ZenonT(30), <2>2, <3>1, <3>2, <3>3 DEF Thorough
    <3> QED
      BY Zenon, <3>4, <3>5 DEF Tidy
  <2>7. CASE o \notin marked /\ o \notin Instructions
    <3>1. marked' = marked \cup {o} /\ deferred' = deferred /\ Push(m, o)
      BY Zenon, <2>1, <2>7
    <3>2. /\ (UNION stack) \subseteq (UNION stack') /\ o \in output'[m]
          /\ (UNION stack') \subseteq (UNION stack) \cup output[m]
          /\ output[m] \subseteq (UNION stack') \cup output'[m] /\ output'[m] \subseteq output[m] \cup {o}
      BY <3>1, <1>PushHolds, Zenon
    <3>3. Mine(m)' \subseteq Mine(m) \cup {o} /\ o \in Mine(m)' /\ Mine(m) \subseteq Mine(m)'
      <4>1. Mine(m)' \subseteq Mine(m) \cup {o}
        BY Zenon, <2>2, <3>2 DEF Mine
      <4>2. o \in Mine(m)' /\ Mine(m) \subseteq Mine(m)'
        BY Zenon, <2>2, <3>2 DEF Mine
      <4> QED
        BY Zenon, <4>1, <4>2
    <3>4. Soon(m)' \subseteq Soon(m) /\ Soon(m) \subseteq marked' \cup Soon(m)'
      BY ZenonT(30), <2>2, <2>5, <3>1 DEF Soon
    <3>5. Honest(m)
      BY ZenonT(30), <2>2, <2>3, <2>4, <3>1, <3>3, <3>4 DEF Honest
    <3>6. Thorough(m)
      BY ZenonT(30), <2>2, <3>1, <3>3, <3>4 DEF Thorough
    <3> QED
      BY Zenon, <3>5, <3>6 DEF Tidy
  <2> QED
    BY ZenonT(30), <2>6, <2>7
<1>IterateRoots. ASSUME IterateRoots(m) PROVE Tidy(m)
  <2> USE <1>IterateRoots
  <2>1. slots[m] = {} /\ UNCHANGED <<marked, blocks, later, weak>> /\ Step(m)
    BY Zenon DEF IterateRoots, Step
  <2>2. Kept(m)
    BY Zenon, <2>1, StepKeeps
  <2>3. CASE UNCHANGED <<slots, started>>
    <3>1. UNCHANGED things
      BY Zenon, <2>1, <2>3 DEF things, blocks, later, weak
    <3> QED
      BY ZenonT(30), <2>2, <3>1, SameTidy
  <2>4. ASSUME NEW s \in DOMAIN RootSlice, started' = started \cup {s},
               slots' = [slots EXCEPT ![m] = RootSlice[s]]
        PROVE  Tidy(m)
    <3>1. slots'[m] = RootSlice[s] /\ RootSlice[s] \subseteq Alive
      BY Zenon, <2>4, AliveClosed DEF RoundInv, TypeOK
    <3>2. /\ Mine(m) \subseteq marked /\ Soon(m) \subseteq Alive /\ marked \subseteq Alive
          /\ deferred[m] \cup scanned[m] \cup deferredStack \subseteq Late
      BY Zenon DEF OnlyAlive
    <3>3. Mine(m)' = Mine(m) /\ Soon(m)' = Soon(m) \cup RootSlice[s]
      BY ZenonT(30), <2>1, <3>1 DEF Mine, Soon, blocks, later, weak
    <3>4. Honest(m)
      BY ZenonT(30), <2>1, <2>2, <3>1, <3>2, <3>3 DEF Honest, later
    <3>5. Thorough(m)
      BY ZenonT(30), <2>1, <2>4, <3>1, <3>3 DEF Thorough, later
    <3> QED
      BY Zenon, <3>4, <3>5 DEF Tidy
  <2> QED
    BY ZenonT(30), <2>3, <2>4 DEF IterateRoots
<1>PopDeferred. ASSUME PopDeferred(m) PROVE Tidy(m)
  <2> USE <1>PopDeferred
  <2>1. PICK o \in IF deferred[m] # {} THEN deferred[m] ELSE deferredStack :
            /\ slots' = [slots EXCEPT ![m] = Pointers[o]]
            /\ scanned' = [scanned EXCEPT ![m] = {o}]
            /\ deferred' = [deferred EXCEPT ![m] = @ \ {o}]
            /\ deferredStack' = IF deferred[m] # {} THEN deferredStack
                                ELSE deferredStack \ {o}
    BY Zenon DEF PopDeferred
  <2>2. slots[m] = {} /\ scanned[m] = {} /\ UNCHANGED <<marked, blocks, weak, started>> /\ Step(m)
    BY Zenon DEF PopDeferred, Step
  <2>3. Kept(m)
    BY Zenon, <2>2, StepKeeps
  <2>4. /\ Mine(m) \subseteq marked /\ Soon(m) \subseteq Alive /\ marked \subseteq Alive
        /\ deferred[m] \cup scanned[m] \cup deferredStack \subseteq Late
    BY Zenon DEF OnlyAlive
  <2>5. /\ slots'[m] = Pointers[o] /\ scanned'[m] = {o} /\ deferred'[m] = deferred[m] \ {o}
        /\ deferredStack' \subseteq deferredStack /\ deferredStack \subseteq deferredStack' \cup {o}
        /\ o \in deferred[m] \cup deferredStack
    BY Zenon, <2>1 DEF RoundInv, TypeOK
  <2>6. o \in Alive /\ o \in Late /\ Pointers[o] \subseteq Alive
    <3>1. o \in Alive /\ o \in Late
      BY Zenon, <2>4, <2>5 DEF Soon
    <3>2. CASE o \in Instructions
      BY ZenonT(30), <3>1, <3>2, ParallelMarkAssumption
    <3>3. CASE o \notin Instructions
      <4>1. PICK n \in Marker : o \in LeftDeferred[n]
        BY Zenon, <3>1, <3>3 DEF Late
      <4> QED
        BY ZenonT(30), <3>1, <4>1, AliveClosed
    <3> QED
      BY ZenonT(30), <3>1, <3>2, <3>3
  <2>7. Mine(m)' = Mine(m)
    BY Zenon, <2>2 DEF Mine, blocks, weak
  <2>8. Soon(m)' \subseteq Soon(m) \cup {o} \cup Pointers[o] /\ Soon(m) \subseteq Soon(m)'
    BY ZenonT(30), <2>2, <2>5 DEF Soon
  <2>9. Honest(m)
    BY ZenonT(30), <2>2, <2>3, <2>4, <2>5, <2>6, <2>7, <2>8 DEF Honest
  <2>10. Thorough(m)
    BY ZenonT(30), <2>2, <2>5, <2>7, <2>8 DEF Thorough
  <2> QED
    BY Zenon, <2>9, <2>10 DEF Tidy
<1>MarkDeferred. ASSUME MarkDeferred(m) PROVE Tidy(m)
  <2> USE <1>MarkDeferred
  <2>1. /\ marked' = marked \cup scanned[m] /\ scanned' = [scanned EXCEPT ![m] = {}] /\ Step(m)
        /\ UNCHANGED <<slots, blocks, deferred, deferredStack, weak, started>>
    BY Zenon DEF MarkDeferred, Step
  <2>2. Kept(m)
    BY Zenon, <2>1, StepKeeps
  <2>3. /\ Mine(m) \subseteq marked /\ Soon(m) \subseteq Alive /\ marked \subseteq Alive
        /\ deferred[m] \cup scanned[m] \cup deferredStack \subseteq Late /\ scanned[m] \subseteq Soon(m)
    BY Zenon DEF OnlyAlive, Soon
  <2>4. scanned'[m] = {}
    BY Zenon, <2>1 DEF RoundInv, TypeOK
  <2>5. Mine(m)' = Mine(m) /\ Soon(m) \subseteq Soon(m)' \cup scanned[m] /\ Soon(m)' \subseteq Soon(m)
    BY Zenon, <2>1, <2>4 DEF Mine, Soon, blocks, weak
  <2>6. Honest(m)
    BY ZenonT(30), <2>1, <2>2, <2>3, <2>4, <2>5 DEF Honest
  <2>7. Thorough(m)
    BY Zenon, <2>1, <2>4, <2>5 DEF Thorough
  <2> QED
    BY ZenonT(30), <2>6, <2>7 DEF Tidy
\* BlockWorkList::Pop takes one object of the marker's, and drops none.
<1>PopHolds. ASSUME NEW o, Pop(m, o)
             PROVE  LET X == input[m] \cup output[m] \cup UNION stack
                        Y == input'[m] \cup output'[m] \cup UNION stack'
                    IN o \in X /\ Y \subseteq X /\ X \subseteq Y \cup {o}
  <2> USE <1>PopHolds
  <2> USE DEF RoundInv, TypeOK
  <2>1. CASE o \in input[m] /\ input' = [input EXCEPT ![m] = @ \ {o}] /\ UNCHANGED <<output, stack>>
    <3>1. input'[m] = input[m] \ {o} /\ output' = output /\ stack' = stack
      BY Zenon, <2>1
    <3> QED
      BY Zenon, <2>1, <3>1
  <2>2. CASE input[m] = {} /\ o \in output[m] /\ UNCHANGED stack
             /\ input' = [input EXCEPT ![m] = output[m] \ {o}] /\ output' = [output EXCEPT ![m] = {}]
    <3>1. input'[m] = output[m] \ {o} /\ output'[m] = {} /\ stack' = stack
      BY Zenon, <2>2
    <3> QED
      BY Zenon, <2>2, <3>1
  <2>3. ASSUME input[m] = {}, output[m] = {}, NEW b \in Popped, o \in b, stack' = stack \ {b},
               input' = [input EXCEPT ![m] = b \ {o}], UNCHANGED output
        PROVE  LET X == input[m] \cup output[m] \cup UNION stack
                   Y == input'[m] \cup output'[m] \cup UNION stack'
               IN o \in X /\ Y \subseteq X /\ X \subseteq Y \cup {o}
    <3>1. input'[m] = b \ {o} /\ output' = output /\ b \in stack
      BY Zenon, <2>3 DEF Popped
    <3>2. b \subseteq (UNION stack)
      BY Zenon, <3>1
    <3>3. (UNION stack') \subseteq (UNION stack) /\ (UNION stack) \subseteq (UNION stack') \cup b
      BY Zenon, <2>3, UnionAdd
    <3> QED
      BY ZenonT(30), <2>3, <3>1, <3>2, <3>3
  <2> QED
    BY ZenonT(30), <2>1, <2>2, <2>3 DEF Pop
<1>Drain. ASSUME Drain(m) PROVE Tidy(m)
  <2> USE <1>Drain
  <2>1. PICK o \in Object : Pop(m, o) /\ Visit(m, o)
    BY Zenon DEF Drain
  <2>2. slots[m] = {} /\ UNCHANGED <<marked, later, todo, global_list, started>> /\ Step(m)
    BY Zenon, <2>1 DEF Drain, Visit, Step
  <2>3. Kept(m)
    BY Zenon, <2>2, StepKeeps
  <2>4. /\ Mine(m) \subseteq marked /\ Soon(m) \subseteq Alive /\ marked \subseteq Alive
        /\ deferred[m] \cup scanned[m] \cup deferredStack \subseteq Late
    BY Zenon DEF OnlyAlive
  <2> DEFINE X == input[m] \cup output[m] \cup UNION stack
             Y == input'[m] \cup output'[m] \cup UNION stack'
  <2>5. o \in X /\ Y \subseteq X /\ X \subseteq Y \cup {o}
    BY <2>1, <1>PopHolds, Zenon
  <2>6. Mine(m) = X \cup delayed[m] \cup todo[m] \cup global_list
    BY Zenon DEF Mine
  <2>7. Mine(m)' = Y \cup delayed'[m] \cup todo[m] \cup global_list
    BY ZenonT(30), <2>2 DEF Mine
  <2>8. o \in marked /\ o \in Alive
    BY Zenon, <2>4, <2>5, <2>6
  <2> HIDE DEF X, Y
  <2>9. CASE o \in WeakProperty /\ Key[o] \notin marked
    <3>1. delayed'[m] = delayed[m] \cup {o} /\ slots' = slots
      BY Zenon, <2>1, <2>9 DEF Visit, RoundInv, TypeOK
    <3>2. Mine(m) = Mine(m)' /\ Soon(m) = Soon(m)'
      BY ZenonT(30), <2>2, <2>5, <2>6, <2>7, <3>1 DEF Soon, later
    <3>3. Honest(m)
      BY ZenonT(30), <2>2, <2>3, <2>4, <3>2 DEF Honest, later
    <3>4. Thorough(m)
      BY ZenonT(30), <2>2, <3>2 DEF Thorough, later
    <3> QED
      BY Zenon, <3>3, <3>4 DEF Tidy
  <2>10. CASE ~(o \in WeakProperty /\ Key[o] \notin marked)
    <3>1. delayed' = delayed /\ slots'[m] = Pointers[o]
      BY Zenon, <2>1, <2>10 DEF Visit, RoundInv, TypeOK
    <3>2. Mine(m)' \subseteq Mine(m) /\ Mine(m) \subseteq Mine(m)' \cup {o}
      BY ZenonT(30), <2>5, <2>6, <2>7, <3>1
    <3>3. Soon(m) \subseteq Soon(m)' /\ Soon(m)' \subseteq Soon(m) \cup Pointers[o]
      BY ZenonT(30), <2>2, <3>1 DEF Soon, later
    <3>4. Pointers[o] \subseteq Alive
      BY ZenonT(30), <2>4, <2>8, <2>10, AliveClosed
    <3>5. Honest(m)
      BY ZenonT(30), <2>2, <2>3, <2>4, <3>2, <3>3, <3>4 DEF Honest, later
    <3>6. Thorough(m)
      BY ZenonT(30), <2>2, <3>1, <3>2, <3>3 DEF Thorough, later
    <3> QED
      BY ZenonT(30), <3>5, <3>6 DEF Tidy
  <2> QED
    BY Zenon, <2>9, <2>10
\* A pass over the delayed weak properties starts.
<1>Pass. ASSUME Kept(m), todo[m] = {}, todo'[m] = delayed[m], delayed'[m] = {},
                UNCHANGED <<slots, marked, blocks, later, global_list, started>>
         PROVE  Tidy(m)
  <2> USE <1>Pass
  <2>1. Mine(m)' = Mine(m) /\ Soon(m)' = Soon(m)
    BY Zenon DEF Mine, Soon, blocks, later
  <2>2. Mine(m) \subseteq marked /\ Soon(m) \subseteq Alive /\ marked \subseteq Alive
        /\ deferred[m] \cup scanned[m] \cup deferredStack \subseteq Late
    BY Zenon DEF OnlyAlive
  <2>3. Honest(m)
    BY Zenon, <2>1, <2>2 DEF Honest, later
  <2>4. Thorough(m)
    BY Zenon, <2>1 DEF Thorough, later
  <2> QED
    BY Zenon, <2>3, <2>4 DEF Tidy
<1>DrainNull. ASSUME DrainNull(m) PROVE Tidy(m)
  <2> USE <1>DrainNull
  <2>1. UNCHANGED <<slots, marked, blocks, later, global_list, started>> /\ Step(m)
    BY Zenon DEF DrainNull, Step
  <2>2. Kept(m)
    BY ZenonT(30), <2>1, StepKeeps
  <2>3. CASE pc[m] = "again"
    <3>1. UNCHANGED things
      BY ZenonT(30), <2>1, <2>3 DEF DrainNull, things, blocks, later
    <3> QED
      BY Zenon, <2>2, <3>1, SameTidy
  <2>4. CASE pc[m] # "again"
    <3>1. todo'[m] = delayed[m] /\ delayed'[m] = {}
      BY <2>4 DEF DrainNull, RoundInv, TypeOK
    <3>2. todo[m] = {}
      BY Zenon DEF DrainNull, RoundInv, ScanOK
    <3> QED
      BY ZenonT(30), <2>1, <2>2, <3>1, <3>2, <1>Pass
  <2> QED
    BY Zenon, <2>3, <2>4
<1>Passed. ASSUME Sync(m) \/ SyncReturns(m) PROVE Tidy(m)
  <2> USE <1>Passed
  <2>1. UNCHANGED <<slots, marked, blocks, later, global_list, started>> /\ Step(m) /\ pc[m] \in SyncPlace
    BY Zenon DEF Sync, SyncReturns, Step
  <2>2. Kept(m)
    BY Zenon, <2>1, StepKeeps
  <2>3. CASE UNCHANGED <<todo, delayed>>
    <3>1. UNCHANGED things
      BY ZenonT(30), <2>1, <2>3 DEF things, blocks, later
    <3> QED
      BY Zenon, <2>2, <3>1, SameTidy
  <2>4. CASE todo'[m] = delayed[m] /\ delayed'[m] = {}
    <3>1. todo[m] = {}
      BY Zenon, <2>1 DEF RoundInv, ScanOK, SyncPlace
    <3> QED
      BY ZenonT(30), <2>1, <2>2, <2>4, <3>1, <1>Pass
  <2>5. Passed(m) \/ UNCHANGED <<todo, delayed>>
    BY Zenon DEF Sync, SyncReturns
  <2>6. ASSUME Passed(m) PROVE UNCHANGED <<todo, delayed>> \/ (todo'[m] = delayed[m] /\ delayed'[m] = {})
    BY ZenonT(30), <2>6 DEF Passed, RoundInv, TypeOK
  <2> QED
    BY ZenonT(30), <2>3, <2>4, <2>5, <2>6
<1>ProcessPending. ASSUME ProcessPending(m) PROVE Tidy(m)
  <2> USE <1>ProcessPending
  <2>1. PICK p \in todo[m] :
            /\ todo' = [todo EXCEPT ![m] = @ \ {p}]
            /\ IF Key[p] \in marked
               THEN /\ slots' = [slots EXCEPT ![m] = Pointers[p]]
                    /\ UNCHANGED delayed
               ELSE /\ delayed' = [delayed EXCEPT ![m] = @ \cup {p}]
                    /\ UNCHANGED slots
    BY Zenon DEF ProcessPending
  <2>2. slots[m] = {} /\ UNCHANGED <<marked, blocks, later, global_list, started>> /\ Step(m)
    BY ZenonT(30) DEF ProcessPending, Step
  <2>3. Kept(m)
    BY Zenon, <2>2, StepKeeps
  <2>4. /\ Mine(m) \subseteq marked /\ Soon(m) \subseteq Alive /\ marked \subseteq Alive /\ p \in Mine(m)
        /\ deferred[m] \cup scanned[m] \cup deferredStack \subseteq Late
    BY Zenon, <2>1 DEF OnlyAlive, Mine
  <2>5. todo'[m] = todo[m] \ {p} /\ p \in todo[m] /\ p \in WeakProperty
    BY ZenonT(30), <2>1 DEF RoundInv, TypeOK
  <2>6. CASE Key[p] \in marked
    <3>1. slots'[m] = Pointers[p] /\ delayed' = delayed
      BY ZenonT(30), <2>1, <2>6 DEF RoundInv, TypeOK
    <3>2. Pointers[p] \subseteq Alive
      BY ZenonT(30), <2>4, <2>5, <2>6, AliveClosed
    <3>3. Mine(m)' \subseteq Mine(m) /\ Mine(m) \subseteq Mine(m)' \cup {p}
      BY ZenonT(30), <2>2, <2>5, <3>1 DEF Mine, blocks
    <3>4. Soon(m) \subseteq Soon(m)' /\ Soon(m)' \subseteq Soon(m) \cup Pointers[p]
      BY ZenonT(30), <2>2, <3>1 DEF Soon, later
    <3>5. Honest(m)
      BY ZenonT(30), <2>2, <2>3, <2>4, <3>2, <3>3, <3>4 DEF Honest, later
    <3>6. Thorough(m)
      BY ZenonT(30), <2>2, <3>1, <3>3, <3>4 DEF Thorough, later
    <3> QED
      BY Zenon, <3>5, <3>6 DEF Tidy
  <2>7. CASE Key[p] \notin marked
    <3>1. slots' = slots /\ delayed'[m] = delayed[m] \cup {p}
      BY Zenon, <2>1, <2>7 DEF RoundInv, TypeOK
    <3>2. Mine(m)' = Mine(m) /\ Soon(m)' = Soon(m)
      BY Zenon, <2>2, <2>5, <3>1 DEF Mine, Soon, blocks, later
    <3>3. Honest(m)
      BY ZenonT(30), <2>2, <2>3, <2>4, <3>2 DEF Honest, later
    <3>4. Thorough(m)
      BY Zenon, <2>2, <3>2 DEF Thorough, later
    <3> QED
      BY Zenon, <3>3, <3>4 DEF Tidy
  <2> QED
    BY Zenon, <2>6, <2>7
<1>Wait. ASSUME WaitForWork(m) \/ WakeUp(m) PROVE Tidy(m)
  <2> USE <1>Wait
  <2>1. /\ UNCHANGED <<slots, marked, output, later, weak, started>> /\ (Step(m) \/ WakeUp(m))
        /\ pc[m] \in {"work", "wait"}
    BY Zenon DEF WaitForWork, WakeUp, Step
  <2>2. Kept(m)
    BY Zenon, <2>1, StepKeeps
  <2>3. CASE UNCHANGED <<input, stack>>
    <3>1. UNCHANGED things
      BY Zenon, <2>1, <2>3 DEF things, later, weak
    <3> QED
      BY Zenon, <2>2, <3>1, SameTidy
  <2>4. ASSUME NEW b \in Popped, stack' = stack \ {b}, input' = [input EXCEPT ![m] = b]
        PROVE  Tidy(m)
    <3>1. m \in Participant
      BY Zenon, <2>1, Inside
    <3>2. seen[m] = -1
      BY ZenonT(30), <2>1, <3>1, Outside DEF SyncPlace
    <3>3. input[m] = {}
      BY ZenonT(30), <2>1, <3>1, <3>2, HereWork DEF WorkAt, NoWork
    <3>4. input'[m] = b /\ b \in stack
      BY Zenon, <2>4 DEF RoundInv, TypeOK, Popped
    <3>5. (UNION stack') \subseteq (UNION stack) /\ (UNION stack) \subseteq (UNION stack') \cup b
          /\ b \subseteq (UNION stack)
      BY ZenonT(30), <2>4, <3>4, UnionAdd
    <3>6. Mine(m)' \subseteq Mine(m) /\ Mine(m) \subseteq Mine(m)'
      BY ZenonT(30), <2>1, <3>3, <3>4, <3>5 DEF Mine, weak
    <3>7. Soon(m)' = Soon(m)
      BY Zenon, <2>1 DEF Soon, later
    <3>8. Mine(m) \subseteq marked /\ Soon(m) \subseteq Alive /\ marked \subseteq Alive
          /\ deferred[m] \cup scanned[m] \cup deferredStack \subseteq Late
      BY Zenon DEF OnlyAlive
    <3>9. Honest(m)
      BY ZenonT(30), <2>1, <2>2, <3>6, <3>7, <3>8 DEF Honest, later
    <3>10. Thorough(m)
      BY Zenon, <2>1, <3>6, <3>7 DEF Thorough, later
    <3> QED
      BY Zenon, <3>9, <3>10 DEF Tidy
  <2> QED
    BY Zenon, <2>3, <2>4 DEF WaitForWork, WakeUp, TakeOrWait
\* The steps that touch none of this.
<1>Quiet. ASSUME \/ Count(m) \/ DeferredDone(m) \/ PendingDone(m) \/ AssertNotBusy(m) \/ Vote(m) \/ Decide(m) \/ Release(m)
          PROVE  Tidy(m) /\ UNCHANGED things
  <2> USE <1>Quiet
  <2>1. UNCHANGED things
    BY Zenon DEF things, blocks, later, weak, Count, DeferredDone, PendingDone, AssertNotBusy, Vote, Decide, Release
  <2>2. Step(m)
    BY Zenon DEF Step
  <2>3. Kept(m)
    BY ZenonT(30), <2>2, StepKeeps
  <2> QED
    BY ZenonT(30), <2>1, <2>3, SameTidy
<1> QED
  BY ZenonT(30), <1>MarkObject, <1>IterateRoots, <1>PopDeferred, <1>MarkDeferred, <1>Drain, <1>DrainNull,
     <1>ProcessPending, <1>Wait, <1>Passed, <1>Quiet, Zenon DEF Step

\* MournWeakProperties clears what is delayed, and marks nothing.
LEMMA MournHonest ==
  ASSUME RoundInv, OnlyAlive, NEW m \in Marker, Mourn(m)
  PROVE  Honest(m)
<1>1. UNCHANGED <<slots, marked, blocks, later, todo, global_list>> /\ delayed'[m] = {} /\ Step(m)
  BY Zenon DEF Mourn, Step, RoundInv, TypeOK
<1>2. Kept(m)
  BY Zenon, <1>1, StepKeeps
<1>3. Mine(m)' \subseteq Mine(m) /\ Soon(m)' = Soon(m)
  BY Zenon, <1>1 DEF Mine, Soon, blocks, later
<1>4. Mine(m) \subseteq marked /\ Soon(m) \subseteq Alive /\ marked \subseteq Alive
      /\ deferred[m] \cup scanned[m] \cup deferredStack \subseteq Late
  BY Zenon DEF OnlyAlive
<1> QED
  BY ZenonT(30), <1>1, <1>2, <1>3, <1>4 DEF Honest, later

\* No step marks or holds what is dead ...
LEMMA NextAlive ==
  ASSUME RoundInv, WorkInv, OnlyAlive, [Next]_vars
  PROVE  OnlyAlive' /\ marked \subseteq marked'
<1>1. ASSUME NEW m \in Marker, Honest(m)
      PROVE  OnlyAlive' /\ marked \subseteq marked'
  BY Zenon, <1>1, HonestStep DEF Honest
<1>2. ASSUME NEW m \in Marker, Step(m) \/ WakeUp(m)
      PROVE  Honest(m)
  BY ZenonT(30), <1>2, StepTidy, MournHonest DEF Tidy
<1>3. ASSUME UNCHANGED <<things, more>> PROVE Honest(Main)
  <2>1. Kept(Main)
    BY Zenon, <1>3 DEF Kept, things
  <2> QED
    BY ZenonT(30), <1>3, <2>1, SameTidy, Markers DEF Tidy
<1>4. ASSUME NEW h \in Helper, StartTask(h) \/ TryEnter(h)
      PROVE  Honest(h) \/ UNCHANGED <<things, more>>
  <2>1. CASE StartTask(h)
    BY Zenon, <2>1, StartTidy DEF Tidy
  <2>2. CASE TryEnter(h)
    BY Zenon, <2>2 DEF TryEnter, things, blocks, later, weak
  <2> QED
    BY ZenonT(30), <1>4, <2>1, <2>2
<1>5. ASSUME StartMain PROVE Honest(Main)
  BY Zenon, <1>5, StartTidy DEF Tidy
<1>6. ASSUME Finalize \/ UNCHANGED vars PROVE UNCHANGED <<things, more>>
  BY Zenon, <1>6 DEF Finalize, vars, things, blocks, later, weak
<1> QED
  BY <1>1, <1>2, <1>3, <1>4, <1>5, <1>6, Markers, ZenonT(30) DEF Next

\* ... and none but that of Mourn loses what is alive.
LEMMA NextAll ==
  ASSUME RoundInv, WorkInv, OnlyAlive, AllAlive, [Next]_vars, \A m \in Marker : ~Mourn(m)
  PROVE  AllAlive'
<1>1. ASSUME NEW m \in Marker, Tidy(m)
      PROVE  AllAlive'
  <2>1. Kept(m) /\ Thorough(m) /\ marked \subseteq marked'
    BY Zenon, <1>1 DEF Tidy, Honest
  <2> QED
    BY Zenon, <2>1, ThoroughStep
<1>2. ASSUME UNCHANGED <<things, more>> PROVE Tidy(Main)
  <2>1. Kept(Main)
    BY Zenon, <1>2 DEF Kept, things
  <2> QED
    BY ZenonT(30), <1>2, <2>1, SameTidy, Markers
<1>3. ASSUME NEW h \in Helper, TryEnter(h) PROVE UNCHANGED <<things, more>>
  BY Zenon, <1>3 DEF TryEnter, things, blocks, later, weak
<1>4. ASSUME Finalize \/ UNCHANGED vars PROVE UNCHANGED <<things, more>>
  BY Zenon, <1>4 DEF Finalize, vars, things, blocks, later, weak
<1> QED
  BY <1>1, <1>2, <1>3, <1>4, StepTidy, StartTidy, Markers, ZenonT(30) DEF Next

=============================================================================
