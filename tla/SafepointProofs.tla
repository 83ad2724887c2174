--------------------------- MODULE SafepointProofs ---------------------------
(***************************************************************************)
(* The inductive invariant of Safepoint, for every set of threads and      *)
(* every number and nesting of operations: which places a thread can be in *)
(* with which bits, who owns a level, and of whom exactly a safepoint is   *)
(* requested.  Every step preserves it, one lemma each: first the steps of *)
(* threads outside of operations, then those of SafepointThreads and of    *)
(* nested operations, then those from the last request to the end of       *)
(* ResumeThreads.  The theorems follow: nobody runs during a safepoint     *)
(* operation, and the count of the threads not parked is exact.            *)
(***************************************************************************)
EXTENDS FiniteSetTheorems, TLAPS, Safepoint

TypeOK ==
    /\ place \in [AllThread -> Place]
    /\ level \in [AllThread -> Level]
    /\ at \in [AllThread -> SUBSET Level]
    /\ req \in [AllThread -> SUBSET Level]
    /\ active \in SUBSET AllThread
    /\ scopes \in [AllThread -> Seq(Level)]
    /\ threads_lock \in Thread \cup {NoThread}
    /\ waiting \in SUBSET Thread
    /\ todo \in SUBSET Thread
    /\ owner \in [Level -> Thread \cup {NoThread}]
    /\ count \in [Level -> Nat]
    /\ notParked \in [Level -> Int]

(* The level of the outermost scope of a thread.                           *)
Outer(t) == scopes[t][1]

Nested(t) == place[t] = "op" \/ (place[t] = "start" /\ Len(scopes[t]) > 1)

(* Places in which a thread has not reported that it is at a safepoint.    *)
Unparked(t) ==
    \/ place[t] \in {"run", "check", "enter"}
    \/ place[t] = "start" /\ Len(scopes[t]) = 1

(* A thread is at a safepoint at the levels it takes part in, or at none;  *)
(* an unscheduled one is at all of them.                                   *)
BitsOK ==
    /\ \A t \in AllThread : t \in active <=> place[t] \notin {"out", "schedule"}
    /\ \A t \in AllThread : t \notin active => level[t] = kGCAndDeopt
    /\ \A t \in Helper : place[t] \in {"out", "run"}
    /\ \A t \in Thread : at[t] = IF Unparked(t) THEN {} ELSE AtSafepointBits(level[t])

(* The scopes of a thread are those of its operations: one, unless it runs *)
(* operations inside the outermost, none of which has a higher level.      *)
ScopesOK ==
    /\ \A t \in AllThread :
          scopes[t] # <<>> <=> place[t] \in {"start", "waitOwner", "notify",
                                             "waitParked", "lower", "op", "continue"}
    /\ \A t \in AllThread : Len(scopes[t]) > 1 => place[t] \in {"start", "op"}
    /\ \A t \in AllThread : \A i \in 1 .. Len(scopes[t]) : scopes[t][i] <= Outer(t)

(* Who iterates over the active threads holds threads_lock.                *)
LockOK ==
    /\ \A t \in AllThread : threads_lock = t <=> place[t] \in {"notify", "continue"}
    /\ threads_lock = NoThread => todo = {}
    /\ threads_lock # NoThread => todo \subseteq active \ {threads_lock}

(* Which levels a thread owns is determined by its place.                  *)
OwnerOK ==
    \A t \in Thread, l \in Level :
        owner[l] = t <=> \/ place[t] \in {"notify", "waitParked", "lower", "continue"}
                            /\ l = Outer(t)
                         \/ Nested(t) /\ l <= Outer(t)

(* The owner of level l has asked u for it, or not yet released it.        *)
Asked(u, l) ==
    /\ u \in active
    /\ owner[l] \notin {NoThread, u}
    /\ l = Outer(owner[l])
    /\ place[owner[l]] = "notify" => u \notin todo
    /\ place[owner[l]] = "continue" => u \in todo

ReqOK == \A u \in Thread, l \in Level : l \in req[u] <=> Asked(u, l)

(* The threads of the owner's safepoint have reached it.                   *)
Holds(t) == place[t] \in {"lower", "continue"} \/ Nested(t)

(* They stay at it: who was asked and counted is at the safepoint.         *)
ParkedOK ==
    \A t, u \in Thread :
        Holds(t) /\ Outer(t) \in req[u] => Outer(t) \in at[u]

(* While a level below the one being released is free.                     *)
LowerFree ==
    \A t \in Thread : place[t] = "continue" =>
        \A l \in Level : l < Outer(t) => owner[l] = NoThread

(* The scopes of level l that count.                                       *)
Counted(t, l) ==
    {i \in 1 .. Len(scopes[t]) :
        scopes[t][i] = l /\ ~(place[t] = "start" /\ i = Len(scopes[t]))}

CountOK ==
    /\ \A t \in Thread : Nested(t) => \A l \in Level : l <= Outer(t) =>
          count[l] = Cardinality(Counted(t, l)) + IF l = Outer(t) THEN 0 ELSE 1
    /\ \A t \in Thread : place[t] \in {"notify", "waitParked", "lower", "continue"} =>
          count[Outer(t)] = 1

IInv == /\ TypeOK /\ BitsOK /\ ScopesOK /\ LockOK /\ OwnerOK /\ ReqOK
        /\ ParkedOK /\ LowerFree /\ CountOK /\ NotParkedIsExact

Ordinary == {"out", "schedule", "run", "check", "enter", "safe", "exit", "asleep", "woken"}

-----------------------------------------------------------------------------

(* The two levels, and the bits of a level.                                *)
LEMMA LevelFacts ==
  /\ Level = {0, 1}
  /\ kGC = 0 /\ kGCAndDeopt = 1
  /\ \A l \in Level : l \in Int /\ AtSafepointBits(l) \in SUBSET Level
                                 /\ 0 \in AtSafepointBits(l)
  /\ \A k, l \in Level : k \in AtSafepointBits(l) <=> k <= l
  /\ AtSafepointBits(kGCAndDeopt) = Level
BY DEF Level, kGC, kGCAndDeopt, AtSafepointBits

(* A thread that moves between places outside of SafepointThreads disturbs *)
(* nothing that is known of scopes, owners and counts.                     *)
LEMMA OrdinaryFrame ==
  ASSUME IInv, NEW t \in AllThread, NEW p \in Ordinary, place[t] \in Ordinary,
         place' = [place EXCEPT ![t] = p],
         UNCHANGED <<scopes, owner, count, threads_lock>>
  PROVE  /\ place' \in [AllThread -> Place]
         /\ ScopesOK' /\ OwnerOK' /\ LowerFree' /\ CountOK'
         /\ \A v \in AllThread : threads_lock' = v <=> place'[v] \in {"notify", "continue"}
         /\ \A v \in Thread : Holds(v)' <=> Holds(v)
         /\ \A v \in Thread : Outer(v)' = Outer(v)
         /\ \A l \in Level : owner[l] # t
         /\ scopes[t] = <<>>
<1> USE DEF IInv
<1>1. place' \in [AllThread -> Place]
  BY Zenon DEF TypeOK, Ordinary, Place
<1>2. scopes[t] = <<>> /\ Len(scopes[t]) = 0
  BY DEF ScopesOK, Ordinary
<1>3. \A v \in AllThread : v # t => place'[v] = place[v]
  BY Zenon DEF TypeOK
<1>4. place'[t] = p
  BY Zenon DEF TypeOK
<1>5. ScopesOK'
  <2>1. \A v \in AllThread : Outer(v)' = Outer(v)
    BY Zenon DEF Outer
  <2>2. \A v \in AllThread : (scopes[v] # <<>>)' <=>
           place'[v] \in {"start", "waitOwner", "notify", "waitParked", "lower", "op", "continue"}
    BY <1>2, <1>3, <1>4, Zenon DEF ScopesOK, Ordinary
  <2>3. \A v \in AllThread : (Len(scopes[v]) > 1)' => place'[v] \in {"start", "op"}
    BY <1>2, <1>3, <1>4, Zenon DEF ScopesOK
  <2> QED BY <2>1, <2>2, <2>3, Zenon DEF ScopesOK
<1>6. \A v \in AllThread : Nested(v)' <=> Nested(v)
  BY <1>2, <1>3, <1>4, Zenon DEF Nested, Ordinary
<1>7. \A v \in AllThread : Outer(v)' = Outer(v)
  BY Zenon DEF Outer
<1>8. \A v \in AllThread : ~(place[v] \in Ordinary /\ Nested(v))
  BY Zenon DEF Ordinary, Nested
<1>9. OwnerOK'
  BY <1>3, <1>4, <1>6, <1>7 DEF OwnerOK, Ordinary, AllThread
<1>10. LowerFree'
  BY <1>3, <1>4, <1>7, Zenon DEF LowerFree, Ordinary, AllThread
<1>11. \A v \in Thread : Nested(v) => \A l \in Level : Counted(v, l)' = Counted(v, l)
  BY <1>3, <1>8, Zenon DEF Counted, AllThread
<1>12. CountOK'
  BY <1>3, <1>4, <1>6, <1>7, <1>11 DEF CountOK, Ordinary, AllThread
<1>13. \A l \in Level : owner[l] # t
  <2>1. CASE t \in Thread
    BY <2>1, <1>8, Zenon DEF OwnerOK, Ordinary
  <2>2. CASE t \notin Thread
    BY <2>2, SafepointAssumption, Zenon DEF TypeOK, AllThread
  <2> QED BY <2>1, <2>2, Zenon
<1> QED
  BY ZenonT(30), <1>1, <1>2, <1>3, <1>4, <1>5, <1>6, <1>7, <1>9, <1>10, <1>12, <1>13
     DEF LockOK, Holds, Ordinary, AllThread

(* The requests stay as they are when such a thread moves.                 *)
LEMMA OrdinaryAsked ==
  ASSUME IInv, NEW t \in AllThread, NEW p \in Ordinary, place[t] \in Ordinary,
         place' = [place EXCEPT ![t] = p],
         UNCHANGED <<scopes, owner, count, threads_lock, todo>>,
         NEW u \in Thread, u \in active' <=> u \in active, NEW l \in Level
  PROVE  Asked(u, l)' <=> Asked(u, l)
<1>1. owner[l] # t
  BY OrdinaryFrame, Zenon
<1>2. owner[l] # NoThread => owner[l] \in AllThread /\ place'[owner[l]] = place[owner[l]]
  BY <1>1, Zenon DEF IInv, TypeOK, AllThread
<1> QED BY <1>2, Zenon DEF Asked, Outer

(* What an ordinary step has to show: the bits of its thread fit its new   *)
(* place, and it leaves no safepoint that is requested of it.              *)
LEMMA OrdinaryInv ==
  ASSUME IInv, NEW t \in AllThread, NEW p \in Ordinary, place[t] \in Ordinary,
         place' = [place EXCEPT ![t] = p],
         UNCHANGED <<scopes, owner, count, threads_lock, todo, req, active>>,
         waiting' \in SUBSET Thread,
         level' \in [AllThread -> Level], at' \in [AllThread -> SUBSET Level],
         notParked' \in [Level -> Int],
         \A v \in AllThread : v # t => level'[v] = level[v] /\ at'[v] = at[v],
         t \in Helper => p \in {"out", "run"},
         t \in active <=> p \notin {"out", "schedule"},
         t \notin active => level'[t] = kGCAndDeopt,
         t \in Thread => at'[t] = IF p \in {"run", "check", "enter"} THEN {}
                                  ELSE AtSafepointBits(level'[t]),
         \A l \in Level : l \in req[t] /\ l \in at[t] => l \in at'[t],
         NotParkedIsExact'
  PROVE  IInv'
<1> USE DEF IInv
<1>1. /\ place' \in [AllThread -> Place]
      /\ ScopesOK' /\ OwnerOK' /\ LowerFree' /\ CountOK'
      /\ \A v \in AllThread : threads_lock' = v <=> place'[v] \in {"notify", "continue"}
      /\ \A v \in Thread : Holds(v)' <=> Holds(v)
      /\ \A v \in Thread : Outer(v)' = Outer(v)
      /\ scopes[t] = <<>>
  BY OrdinaryFrame, Zenon
<1>2. TypeOK'
  BY <1>1, Zenon DEF TypeOK
<1>3. \A v \in AllThread : place'[v] = IF v = t THEN p ELSE place[v]
  BY Zenon DEF TypeOK
<1>4. BitsOK'
  <2>1. \A v \in AllThread : Unparked(v)' <=> IF v = t THEN p \in {"run", "check", "enter"}
                                             ELSE Unparked(v)
    BY <1>3, Zenon DEF Unparked, Ordinary
  <2>2. \A v \in AllThread : v \in active' <=> place'[v] \notin {"out", "schedule"}
    BY ZenonT(30), <1>3 DEF BitsOK
  <2>3. \A v \in AllThread : v \notin active' => level'[v] = kGCAndDeopt
    BY Zenon DEF BitsOK
  <2>4. \A v \in Helper : place'[v] \in {"out", "run"}
    BY ZenonT(30), <1>3 DEF BitsOK, AllThread
  <2>5. \A v \in Thread : at'[v] = IF Unparked(v)' THEN {} ELSE AtSafepointBits(level'[v])
    BY <2>1, Zenon DEF BitsOK, AllThread
  <2> QED BY <2>2, <2>3, <2>4, <2>5, Zenon DEF BitsOK
<1>5. LockOK'
  BY <1>1, Zenon DEF LockOK
<1>6. ReqOK'
  BY OrdinaryAsked, Zenon DEF ReqOK
<1>7. ParkedOK'
  <2> SUFFICES ASSUME NEW v \in Thread, NEW u \in Thread, Holds(v)', Outer(v)' \in req'[u]
               PROVE  Outer(v)' \in at'[u]
    BY Zenon DEF ParkedOK
  <2>1. Outer(v) \in req[u] /\ Outer(v) \in at[u]
    BY Zenon, <1>1 DEF ParkedOK
  <2>2. Outer(v) \in Level
    BY <2>1, Zenon DEF TypeOK, AllThread
  <2> QED BY <1>1, <2>1, <2>2, Zenon DEF AllThread
<1> QED BY <1>1, <1>2, <1>4, <1>5, <1>6, <1>7, Zenon

-----------------------------------------------------------------------------

(* The threads a level still waits for.                                    *)
Missing(l) == {u \in Thread : l \in req[u] /\ l \notin at[u]}

(* What is counted of a set of threads.                                    *)
LEMMA SubsetCounts ==
  ASSUME NEW S \in SUBSET Thread
  PROVE  /\ IsFiniteSet(S) /\ Cardinality(S) \in Nat
         /\ Cardinality(S) = 0 <=> S = {}
         /\ \A x \in S : Cardinality(S \ {x}) = Cardinality(S) - 1
         /\ \A x \in Thread \ S : Cardinality(S \cup {x}) = Cardinality(S) + 1
BY Zenon, SafepointAssumption, FS_Subset, FS_CardinalityType, FS_EmptySet,
   FS_RemoveElement, FS_AddElement

(* A thread that reaches a safepoint is counted once, at each level it was *)
(* asked for and takes part in.                                            *)
LEMMA EnterCounts ==
  ASSUME IInv, NEW t \in Thread, Unparked(t), EnterSafepointLocked(t), req' = req
  PROVE  /\ NotParkedIsExact'
         /\ notParked' \in [Level -> Int] /\ at' \in [AllThread -> SUBSET Level]
         /\ at'[t] = AtSafepointBits(level[t])
         /\ \A v \in AllThread : v # t => at'[v] = at[v]
<1> USE DEF IInv
<1>1. at[t] = {} /\ level[t] \in Level /\ t \in AllThread
  BY Zenon DEF BitsOK, TypeOK, AllThread
<1>2. /\ at'[t] = AtSafepointBits(level[t]) /\ at' \in [AllThread -> SUBSET Level]
      /\ \A v \in AllThread : v # t => at'[v] = at[v]
  BY <1>1, LevelFacts, Zenon DEF TypeOK, EnterSafepointLocked
<1>3. notParked' \in [Level -> Int]
  BY DEF TypeOK, EnterSafepointLocked
<1>4. ASSUME NEW l \in Level
      PROVE  notParked'[l] = Cardinality(Missing(l)')
  <2>1. notParked[l] = Cardinality(Missing(l)) /\ notParked[l] \in Int
    BY Zenon DEF NotParkedIsExact, Missing, TypeOK
  <2>2. CASE ReportsParked(t, l)
    <3>1. l \in req[t] /\ l \in AtSafepointBits(level[t])
      BY <2>2, <1>1, LevelFacts, Zenon DEF ReportsParked
    <3>2. t \in Missing(l) /\ Missing(l)' = Missing(l) \ {t}
      BY <3>1, <1>1, <1>2, Zenon DEF Missing, AllThread
    <3>3. Cardinality(Missing(l)') = Cardinality(Missing(l)) - 1
      BY <3>2, SubsetCounts DEF Missing
    <3> QED BY <2>1, <2>2, <3>3, Zenon DEF EnterSafepointLocked
  <2>3. CASE ~ReportsParked(t, l)
    <3>1. l \notin req[t] \/ l \notin AtSafepointBits(level[t])
      BY <2>3, <1>1, LevelFacts, Zenon DEF ReportsParked
    <3>2. Missing(l)' = Missing(l)
      BY <3>1, <1>1, <1>2, Zenon DEF Missing, AllThread
    <3> QED BY <2>1, <2>3, <3>2 DEF EnterSafepointLocked
  <2> QED BY <2>2, <2>3, Zenon
<1> QED BY <1>2, <1>3, <1>4, Zenon DEF NotParkedIsExact, Missing

(* Nothing is counted if no request meets the bits that change.            *)
LEMMA SameCounts ==
  ASSUME IInv, NEW t \in AllThread, notParked' = notParked, req' = req,
         \A v \in AllThread : v # t => at'[v] = at[v],
         t \in Thread => \A l \in Level : l \in req[t] => (l \in at'[t] <=> l \in at[t])
  PROVE  NotParkedIsExact'
<1>1. \A l \in Level : Missing(l)' = Missing(l)
  BY Zenon DEF Missing, AllThread
<1> QED BY <1>1, Zenon DEF IInv, NotParkedIsExact, Missing

-----------------------------------------------------------------------------

(* The two paths into a safepoint, and the poll.                           *)
LEMMA EnterInv ==
  ASSUME IInv, NEW t \in Thread,
         \/ TryEnterSafepoint(t) \/ TryEnterSafepointFails(t)
         \/ EnterSafepointUsingLock(t) \/ CheckForSafepoint(t) \/ BlockForSafepoint(t)
  PROVE  IInv'
<1> USE DEF IInv, Move, lock, handlers, bits
<1>0. /\ t \in AllThread /\ t \notin Helper /\ level[t] \in Level
      /\ place \in [AllThread -> Place] /\ at \in [AllThread -> SUBSET Level]
      /\ level \in [AllThread -> Level] /\ waiting \in SUBSET Thread
      /\ notParked \in [Level -> Int]
      /\ AtSafepointBits(level[t]) \in SUBSET Level
  BY SafepointAssumption, LevelFacts, Zenon DEF TypeOK, AllThread
<1>1. place[t] \in {"run", "check", "enter"} => t \in active /\ at[t] = {}
  BY <1>0, Zenon DEF BitsOK, Unparked
<1>2. CASE TryEnterSafepoint(t)
  <2>1. at'[t] = AtSafepointBits(level[t]) /\ at' \in [AllThread -> SUBSET Level]
        /\ \A v \in AllThread : v # t => at'[v] = at[v]
    BY <1>0, <1>2, Zenon DEF TryEnterSafepoint
  <2>2. NotParkedIsExact'
    BY <1>0, <1>2, <2>1, SameCounts, Zenon DEF TryEnterSafepoint
  <2> QED BY <1>0, <1>1, <1>2, <2>1, <2>2, OrdinaryInv, Zenon DEF TryEnterSafepoint, Ordinary
<1>3. CASE TryEnterSafepointFails(t) \/ CheckForSafepoint(t)
  <2>1. NotParkedIsExact'
    BY <1>0, <1>3, SameCounts, Zenon DEF TryEnterSafepointFails, CheckForSafepoint
  <2>2. CASE TryEnterSafepointFails(t)
    BY <1>0, <1>1, <2>1, <2>2, OrdinaryInv, Zenon DEF TryEnterSafepointFails, Ordinary
  <2>3. CASE CheckForSafepoint(t)
    BY <1>0, <1>1, <2>1, <2>3, OrdinaryInv, Zenon DEF CheckForSafepoint, Ordinary
  <2> QED BY <1>3, <2>2, <2>3, Zenon
<1>4. CASE EnterSafepointUsingLock(t)
  <2>1. Unparked(t)
    BY <1>4, Zenon DEF EnterSafepointUsingLock, Unparked
  <2> QED BY <1>0, <1>1, <1>4, <2>1, EnterCounts, OrdinaryInv, Zenon
             DEF EnterSafepointUsingLock, Ordinary
<1>5. CASE BlockForSafepoint(t)
  <2>1. Unparked(t)
    BY <1>5, Zenon DEF BlockForSafepoint, Unparked
  <2>2. CASE IsSafepointRequested(t)
    BY SMTT(30), <1>0, <1>1, <1>5, <2>1, <2>2, EnterCounts, OrdinaryInv
       DEF BlockForSafepoint, Ordinary
  <2>3. CASE ~IsSafepointRequested(t)
    <3>1. NotParkedIsExact'
      BY <1>0, <1>5, <2>3, SameCounts, Zenon DEF BlockForSafepoint
    <3> QED BY ZenonT(30), <1>0, <1>1, <1>5, <2>3, <3>1, OrdinaryInv DEF BlockForSafepoint, Ordinary
  <2> QED BY <2>2, <2>3, Zenon
<1> QED BY <1>2, <1>3, <1>4, <1>5, Zenon

(* The two paths out of a safepoint.                                       *)
LEMMA ExitInv ==
  ASSUME IInv, NEW t \in Thread,
         \/ TryExitSafepoint(t) \/ TryExitSafepointFails(t) \/ ExitSafepointUsingLock(t)
  PROVE  IInv'
<1> USE DEF IInv, Move, lock, handlers, bits
<1>0. /\ t \in AllThread /\ t \notin Helper /\ level[t] \in Level
      /\ place \in [AllThread -> Place] /\ at \in [AllThread -> SUBSET Level]
      /\ level \in [AllThread -> Level] /\ waiting \in SUBSET Thread
      /\ notParked \in [Level -> Int] /\ req[t] \in SUBSET Level
      /\ AtSafepointBits(level[t]) \in SUBSET Level
  BY SafepointAssumption, LevelFacts, Zenon DEF TypeOK, AllThread
<1>1. place[t] \in {"safe", "exit", "asleep", "woken"} =>
         t \in active /\ at[t] = AtSafepointBits(level[t])
  BY <1>0, Zenon DEF BitsOK, Unparked
<1>2. CASE TryExitSafepoint(t)
  <2>1. /\ at'[t] = {} /\ at' \in [AllThread -> SUBSET Level] /\ req[t] = {}
        /\ \A v \in AllThread : v # t => at'[v] = at[v]
    BY <1>0, <1>2, Zenon DEF TryExitSafepoint
  <2>2. NotParkedIsExact'
    BY <1>0, <1>2, <2>1, SameCounts, Zenon DEF TryExitSafepoint
  <2> QED BY <1>0, <1>1, <1>2, <2>1, <2>2, OrdinaryInv, Zenon DEF TryExitSafepoint, Ordinary
<1>3. CASE TryExitSafepointFails(t)
  <2>1. NotParkedIsExact'
    BY <1>0, <1>3, SameCounts, ZenonT(30) DEF TryExitSafepointFails
  <2> QED BY <1>0, <1>1, <1>3, <2>1, OrdinaryInv, Zenon DEF TryExitSafepointFails, Ordinary
<1>4. CASE ExitSafepointUsingLock(t) /\ IsSafepointRequested(t)
  <2>1. at' = at
    BY <1>0, <1>4, Zenon DEF ExitSafepointUsingLock, ExitSafepointLocked
  <2>2. NotParkedIsExact'
    BY <1>0, <1>4, <2>1, SameCounts, ZenonT(30) DEF ExitSafepointUsingLock
  <2> QED BY ZenonT(30), <1>0, <1>1, <1>4, <2>1, <2>2, OrdinaryInv
             DEF ExitSafepointUsingLock, ExitSafepointLocked, Ordinary
<1>5. CASE ExitSafepointUsingLock(t) /\ ~IsSafepointRequested(t)
  <2>1. at'[t] = {} /\ at' \in [AllThread -> SUBSET Level]
        /\ \A v \in AllThread : v # t => at'[v] = at[v]
    BY <1>0, <1>1, <1>5 DEF ExitSafepointUsingLock, ExitSafepointLocked
  <2>2. \A l \in Level : ~(l \in req[t] /\ l \in at[t])
    BY <1>0, <1>1, <1>5, Zenon DEF ExitSafepointUsingLock, IsSafepointRequested
  <2>3. NotParkedIsExact'
    BY <1>0, <1>5, <2>1, <2>2, SameCounts, Zenon DEF ExitSafepointUsingLock
  <2> QED BY SMTT(30), <1>0, <1>1, <1>5, <2>1, <2>2, <2>3, OrdinaryInv
             DEF ExitSafepointUsingLock, ExitSafepointLocked, Ordinary
<1> QED BY <1>2, <1>3, <1>4, <1>5, Zenon

(* Runtime calls without lazy deoptimization change the level of a thread  *)
(* that runs, which is at no safepoint.                                    *)
LEMMA RuntimeCallInv ==
  ASSUME IInv, NEW t \in Thread, EnterRuntimeCall(t) \/ LeaveRuntimeCall(t)
  PROVE  IInv'
<1> USE DEF IInv, lock, handlers, bits, EnterRuntimeCall, LeaveRuntimeCall
<1>0. /\ t \in AllThread /\ t \notin Helper
      /\ place \in [AllThread -> Place] /\ at \in [AllThread -> SUBSET Level]
      /\ level \in [AllThread -> Level] /\ waiting \in SUBSET Thread
      /\ notParked \in [Level -> Int] /\ kGC \in Level /\ kGCAndDeopt \in Level
  BY SafepointAssumption, LevelFacts, Zenon DEF TypeOK, AllThread
<1>1. t \in active /\ at[t] = {} /\ place[t] = "run"
  BY <1>0, Zenon DEF BitsOK, Unparked
<1>2. level' \in [AllThread -> Level] /\ \A v \in AllThread : v # t => level'[v] = level[v]
  BY <1>0, Zenon
<1>3. place' = [place EXCEPT ![t] = "run"]
  BY <1>0, <1>1, Zenon
<1>4. NotParkedIsExact'
  BY <1>0, SameCounts, Zenon
<1> QED BY <1>0, <1>1, <1>2, <1>3, <1>4, OrdinaryInv, ZenonT(30) DEF Ordinary

(* A thread joins the group while no level is owned, a helper at any time. *)
LEMMA ScheduleInv ==
  ASSUME IInv, NEW t \in AllThread, ScheduleThreadLocked(t)
  PROVE  IInv'
<1> USE DEF IInv, Move, handlers
<1>0. /\ place \in [AllThread -> Place] /\ at \in [AllThread -> SUBSET Level]
      /\ level \in [AllThread -> Level] /\ waiting \in SUBSET Thread
      /\ notParked \in [Level -> Int] /\ active \in SUBSET AllThread
  BY Zenon DEF TypeOK
<1>1. /\ place[t] \in Ordinary /\ t \notin active /\ level[t] = kGCAndDeopt
      /\ t \in Thread => at[t] = AtSafepointBits(level[t])
  BY Zenon DEF ScheduleThreadLocked, Ordinary, BitsOK, Unparked
<1>2. CASE t \notin Helper /\ AnySafepointInProgress
  <2>1. NotParkedIsExact'
    BY <1>2, SameCounts, Zenon DEF ScheduleThreadLocked
  <2>2. waiting' \in SUBSET Thread
    BY <1>0, <1>2, Zenon DEF ScheduleThreadLocked, AllThread
  <2> QED BY ZenonT(30), <1>0, <1>1, <1>2, <2>1, <2>2, OrdinaryInv DEF ScheduleThreadLocked, Ordinary
<1>3. CASE ~(t \notin Helper /\ AnySafepointInProgress)
  <2>1. /\ active' = active \cup {t} /\ at' = [at EXCEPT ![t] = {}]
        /\ place' = [place EXCEPT ![t] = "run"]
        /\ UNCHANGED <<waiting, level, req, scopes, threads_lock, todo, owner, count, notParked>>
    BY <1>3, Zenon DEF ScheduleThreadLocked
  <2>2. /\ place' \in [AllThread -> Place]
        /\ ScopesOK' /\ OwnerOK' /\ LowerFree' /\ CountOK'
        /\ \A v \in AllThread : threads_lock' = v <=> place'[v] \in {"notify", "continue"}
        /\ \A v \in Thread : Holds(v)' <=> Holds(v)
        /\ \A v \in Thread : Outer(v)' = Outer(v)
        /\ scopes[t] = <<>>
    BY <1>1, <2>1, OrdinaryFrame, Zenon DEF Ordinary
  <2>3. \A v \in AllThread : /\ place'[v] = IF v = t THEN "run" ELSE place[v]
                             /\ at'[v] = IF v = t THEN {} ELSE at[v]
    BY <1>0, <2>1, Zenon
  <2>4. TypeOK'
    BY <2>1, <2>2, Zenon DEF TypeOK
  <2>5. BitsOK'
    <3>1. \A v \in AllThread : Unparked(v)' <=> v = t \/ Unparked(v)
      BY <2>1, <2>3, Zenon DEF Unparked
    <3>2. \A v \in AllThread : v \in active' <=> place'[v] \notin {"out", "schedule"}
      BY <2>1, <2>3 DEF BitsOK
    <3> QED BY <2>1, <2>3, <3>1, <3>2, Zenon DEF BitsOK, AllThread
  <2>6. LockOK'
    BY <2>1, <2>2, Zenon DEF LockOK
  <2>7. t \in Thread => \A l \in Level : owner[l] = NoThread /\ l \notin req[t]
    BY <1>1, <1>3, SafepointAssumption, Zenon
       DEF AnySafepointInProgress, SafepointInProgress, ReqOK, Asked
  <2>8. ReqOK'
    <3> SUFFICES ASSUME NEW u \in Thread, NEW l \in Level
                 PROVE  l \in req'[u] <=> Asked(u, l)'
      BY Zenon DEF ReqOK
    <3>1. CASE u = t
      BY <2>1, <2>7, <3>1, Zenon DEF Asked
    <3>2. CASE u # t
      BY <1>1, <2>1, <3>2, OrdinaryAsked, Zenon DEF ReqOK, Ordinary
    <3> QED BY <3>1, <3>2, Zenon
  <2>9. NotParkedIsExact'
    BY <2>1, <2>3, <2>7, SameCounts, Zenon
  <2>10. ParkedOK'
    <3> SUFFICES ASSUME NEW v \in Thread, NEW u \in Thread, Holds(v)', Outer(v)' \in req'[u]
                 PROVE  Outer(v)' \in at'[u]
      BY Zenon DEF ParkedOK
    <3>1. Outer(v) \in req[u] /\ Outer(v) \in at[u]
      BY <2>1, <2>2, Zenon DEF ParkedOK
    <3>2. Outer(v) \in Level
      BY <3>1, Zenon DEF TypeOK, AllThread
    <3> QED BY <2>2, <2>3, <2>7, <3>1, <3>2, Zenon DEF AllThread
  <2> QED BY Zenon, <2>2, <2>4, <2>5, <2>6, <2>8, <2>9, <2>10
<1> QED BY <1>2, <1>3, Zenon

(* A thread leaves the group: it reports that it is parked.                *)
LEMMA UnscheduleInv ==
  ASSUME IInv, NEW t \in AllThread, UnscheduleThreadLocked(t)
  PROVE  IInv'
<1> USE DEF IInv, Move, handlers
<1>0. /\ place \in [AllThread -> Place] /\ at \in [AllThread -> SUBSET Level]
      /\ req \in [AllThread -> SUBSET Level] /\ notParked \in [Level -> Int]
  BY Zenon DEF TypeOK
<1>1. /\ place[t] \in Ordinary /\ threads_lock = NoThread /\ todo = {}
      /\ level[t] = kGCAndDeopt
      /\ t \in Thread => at[t] = {}
  BY Zenon DEF UnscheduleThreadLocked, Ordinary, BitsOK, Unparked, LockFree, LockOK
<1>2. /\ active' = active \ {t}
      /\ place' = [place EXCEPT ![t] = "out"]
      /\ UNCHANGED <<waiting, level, scopes, threads_lock, todo, owner, count>>
      /\ at'[t] = Level /\ req'[t] = {}
      /\ \A v \in AllThread : v # t => at'[v] = at[v] /\ req'[v] = req[v]
      /\ at' \in [AllThread -> SUBSET Level] /\ req' \in [AllThread -> SUBSET Level]
  BY <1>0, Zenon DEF UnscheduleThreadLocked, lock
<1>3. /\ place' \in [AllThread -> Place]
      /\ ScopesOK' /\ OwnerOK' /\ LowerFree' /\ CountOK'
      /\ \A v \in AllThread : threads_lock' = v <=> place'[v] \in {"notify", "continue"}
      /\ \A v \in Thread : Holds(v)' <=> Holds(v)
      /\ \A v \in Thread : Outer(v)' = Outer(v)
      /\ scopes[t] = <<>>
  BY <1>1, <1>2, OrdinaryFrame, Zenon DEF Ordinary
<1>4. \A v \in AllThread : place'[v] = IF v = t THEN "out" ELSE place[v]
  BY <1>0, <1>2, Zenon
<1>5. BitsOK'
  <2>1. \A v \in AllThread : Unparked(v)' <=> v # t /\ Unparked(v)
    BY <1>2, <1>4 DEF Unparked
  <2>2. \A v \in AllThread : v \in active' <=> place'[v] \notin {"out", "schedule"}
    BY <1>2, <1>4, Zenon DEF BitsOK
  <2>3. \A v \in AllThread : v \notin active' => level'[v] = kGCAndDeopt
    BY <1>1, <1>2, Zenon DEF BitsOK
  <2>4. \A v \in Helper : place'[v] \in {"out", "run"}
    BY <1>4, Zenon DEF BitsOK, AllThread
  <2>5. \A v \in Thread : at'[v] = IF Unparked(v)' THEN {} ELSE AtSafepointBits(level'[v])
    <3> SUFFICES ASSUME NEW v \in Thread
                 PROVE  at'[v] = IF Unparked(v)' THEN {} ELSE AtSafepointBits(level'[v])
      BY Zenon
    <3>1. CASE v = t
      <4>1. ~Unparked(v)' /\ at'[v] = Level /\ level'[v] = kGCAndDeopt
        BY <1>1, <1>2, <2>1, <3>1, Zenon
      <4> QED BY <4>1, LevelFacts, Zenon
    <3>2. CASE v # t
      <4>1. v \in AllThread /\ at'[v] = at[v] /\ level'[v] = level[v] /\ (Unparked(v)' <=> Unparked(v))
        BY <1>2, <2>1, <3>2, Zenon DEF AllThread
      <4> QED BY <4>1, Zenon DEF BitsOK
    <3> QED BY <3>1, <3>2, Zenon
  <2> QED BY <2>2, <2>3, <2>4, <2>5, Zenon DEF BitsOK
<1>6. LockOK'
  BY <1>1, <1>2, <1>3, Zenon DEF LockOK
<1>7. ReqOK'
  <2> SUFFICES ASSUME NEW u \in Thread, NEW l \in Level
               PROVE  l \in req'[u] <=> Asked(u, l)'
    BY Zenon DEF ReqOK
  <2>1. CASE u = t
    BY <1>2, <2>1, Zenon DEF Asked
  <2>2. CASE u # t
    BY <1>1, <1>2, <2>2, OrdinaryAsked, Zenon DEF ReqOK, Ordinary, AllThread
  <2> QED BY <2>1, <2>2, Zenon
<1>8. NotParkedIsExact' /\ notParked' \in [Level -> Int]
  <2>1. ASSUME NEW l \in Level
        PROVE  notParked'[l] = Cardinality(Missing(l)') /\ notParked'[l] \in Int
    <3>1. notParked[l] = Cardinality(Missing(l)) /\ notParked[l] \in Int
      BY <1>0, Zenon DEF NotParkedIsExact, Missing
    <3>2. Missing(l)' = Missing(l) \ {t}
      BY <1>2, Zenon DEF Missing, AllThread
    <3>3. CASE t \in Missing(l)
      <4>1. Cardinality(Missing(l)') = Cardinality(Missing(l)) - 1
        BY <3>2, <3>3, SubsetCounts DEF Missing
      <4>2. t \notin Helper /\ ReportsParked(t, l)
        BY <1>1, <3>3, SafepointAssumption, LevelFacts, Zenon DEF Missing, ReportsParked
      <4> QED BY <3>1, <4>1, <4>2 DEF UnscheduleThreadLocked
    <3>4. CASE t \notin Missing(l)
      <4>1. Missing(l)' = Missing(l)
        BY <3>2, <3>4, Zenon
      <4>2. t \in Helper \/ ~ReportsParked(t, l)
        BY <1>1, <3>4, Zenon DEF Missing, ReportsParked, AllThread
      <4> QED BY <3>1, <4>1, <4>2 DEF UnscheduleThreadLocked
    <3> QED BY <3>3, <3>4, Zenon
  <2>2. notParked' = [l \in Level |-> notParked'[l]]
    BY <1>0, Zenon DEF UnscheduleThreadLocked
  <2>3. NotParkedIsExact'
    BY <2>1, Zenon DEF NotParkedIsExact, Missing
  <2> QED BY <2>1, <2>2, <2>3, Zenon
<1>9. TypeOK'
  BY <1>2, <1>3, <1>8, Zenon DEF TypeOK
<1>10. ParkedOK'
  <2> SUFFICES ASSUME NEW v \in Thread, NEW u \in Thread, Holds(v)', Outer(v)' \in req'[u]
               PROVE  Outer(v)' \in at'[u]
    BY Zenon DEF ParkedOK
  <2>1. u # t
    BY <1>2, Zenon
  <2> QED BY <1>2, <1>3, <2>1 DEF ParkedOK, AllThread
<1> QED BY <1>3, <1>5, <1>6, <1>7, <1>8, <1>9, <1>10, Zenon

-----------------------------------------------------------------------------

(* The comparisons of lengths the proofs need.                             *)
LEMMA OneOrMore ==
  \A n \in Nat : /\ n > 1 <=> n >= 1 /\ n # 1
                 /\ n = 1 <=> n >= 1 /\ ~(n > 1)
OBVIOUS

(* A thread that has a scope.                                              *)
LEMMA ScopeFacts ==
  ASSUME IInv, NEW t \in Thread, scopes[t] # <<>>
  PROVE  /\ scopes[t] \in Seq(Level) /\ Len(scopes[t]) \in Nat /\ Len(scopes[t]) >= 1
         /\ Top(t) \in Level /\ Outer(t) \in Level /\ Top(t) <= Outer(t)
         /\ Len(scopes[t]) = 1 => Top(t) = Outer(t)
         /\ t \in active /\ t \in AllThread
<1> USE DEF IInv
<1>1. t \in AllThread /\ scopes[t] \in Seq(Level)
  BY Zenon DEF AllThread, TypeOK
<1>2. Len(scopes[t]) \in Nat /\ Len(scopes[t]) >= 1
  BY <1>1
<1>3. \A i \in 1 .. Len(scopes[t]) : scopes[t][i] \in Level
  BY <1>1
<1>4. Top(t) \in Level /\ Outer(t) \in Level /\ Top(t) <= Outer(t)
  BY <1>1, <1>2, <1>3 DEF Top, Outer, ScopesOK
<1>5. t \in active
  BY <1>1, Zenon DEF ScopesOK, BitsOK
<1> QED BY <1>1, <1>2, <1>4, <1>5, Zenon DEF Top, Outer

(* The frame of a step of SafepointThreads or ResumeThreads: t changes its *)
(* own place, scopes, bits and levels, and takes or releases none of the   *)
(* levels while somebody else holds the lock.                              *)
OwnStep(t) ==
    /\ place' \in [AllThread -> Place] /\ scopes' \in [AllThread -> Seq(Level)]
    /\ \A v \in AllThread : v # t => place'[v] = place[v] /\ scopes'[v] = scopes[v]
    /\ level' = level /\ active' = active
    /\ place[t] \notin {"out", "schedule"} /\ place'[t] \notin {"out", "schedule"}
    /\ \/ /\ threads_lock \in {NoThread, t}
          /\ threads_lock' = IF place'[t] \in {"notify", "continue"} THEN t ELSE NoThread
          /\ threads_lock' = NoThread => todo' = {}
          /\ todo' \in SUBSET Thread /\ todo' \subseteq active \ {t}
       \/ /\ UNCHANGED <<threads_lock, todo, owner>>
          /\ place[t] \notin {"notify", "continue"} /\ place'[t] \notin {"notify", "continue"}
    /\ waiting' \in SUBSET Thread
    /\ at' \in [AllThread -> SUBSET Level] /\ req' \in [AllThread -> SUBSET Level]
    /\ \A v \in AllThread : v # t => at'[v] = at[v]
    /\ notParked' \in [Level -> Int] /\ count' \in [Level -> Nat]
    /\ owner' \in [Level -> Thread \cup {NoThread}]

(* Its effect on the levels, none of which is another thread's.            *)
OwnLevels(t) ==
    /\ \A l \in Level : owner[l] \notin {NoThread, t} =>
          owner'[l] = owner[l] /\ count'[l] = count[l]
    /\ \A l \in Level : owner[l] \in {NoThread, t} => owner'[l] \in {NoThread, t}
    /\ \A u \in Thread, l \in Level :
          IF owner[l] \in {NoThread, t} THEN l \in req'[u] <=> Asked(u, l)'
                                        ELSE l \in req'[u] <=> l \in req[u]

(* What the invariant says of t.                                           *)
ThreadInv(t) ==
    /\ at[t] = IF Unparked(t) THEN {} ELSE AtSafepointBits(level[t])
    /\ scopes[t] # <<>> <=> place[t] \in {"start", "waitOwner", "notify",
                                          "waitParked", "lower", "op", "continue"}
    /\ Len(scopes[t]) > 1 => place[t] \in {"start", "op"}
    /\ \A i \in 1 .. Len(scopes[t]) : scopes[t][i] <= Outer(t)
    /\ \A l \in Level :
          owner[l] = t <=> \/ place[t] \in {"notify", "waitParked", "lower", "continue"}
                              /\ l = Outer(t)
                           \/ Nested(t) /\ l <= Outer(t)
    /\ \A u \in Thread : Holds(t) /\ Outer(t) \in req[u] => Outer(t) \in at[u]
    /\ place[t] = "continue" => \A l \in Level : l < Outer(t) => owner[l] = NoThread
    /\ Nested(t) => \A l \in Level : l <= Outer(t) =>
          count[l] = Cardinality(Counted(t, l)) + IF l = Outer(t) THEN 0 ELSE 1
    /\ place[t] \in {"notify", "waitParked", "lower", "continue"} => count[Outer(t)] = 1

(* A step of t that is framed so has to show what the invariant says of t. *)
LEMMA OwnStepInv ==
  ASSUME IInv, NEW t \in Thread, OwnStep(t), OwnLevels(t), ThreadInv(t)',
         at[t] \subseteq at'[t], NotParkedIsExact'
  PROVE  IInv'
<1> USE DEF IInv
<1>1. t \in AllThread /\ t \notin Helper /\ t # NoThread /\ t \in active
  BY SafepointAssumption, Zenon DEF AllThread, OwnStep, BitsOK
<1>2. \A v \in AllThread : v # t =>
         /\ Nested(v)' <=> Nested(v)
         /\ Unparked(v)' <=> Unparked(v)
         /\ Holds(v)' <=> Holds(v)
         /\ Outer(v)' = Outer(v)
         /\ \A l \in Level : Counted(v, l)' = Counted(v, l)
  <2> SUFFICES ASSUME NEW v \in AllThread, v # t
               PROVE  /\ Nested(v)' <=> Nested(v)
                      /\ Unparked(v)' <=> Unparked(v)
                      /\ Holds(v)' <=> Holds(v)
                      /\ Outer(v)' = Outer(v)
                      /\ \A l \in Level : Counted(v, l)' = Counted(v, l)
    BY Zenon
  <2>1. place'[v] = place[v] /\ scopes'[v] = scopes[v]
    BY Zenon DEF OwnStep
  <2> QED BY <2>1, Zenon DEF Nested, Unparked, Holds, Outer, Counted
<1>3. \A v \in AllThread : v # t /\ place[v] \in {"notify", "continue"} =>
         UNCHANGED <<threads_lock, todo, owner>>
  BY SafepointAssumption DEF OwnStep, LockOK, AllThread
<1>4. TypeOK'
  BY SafepointAssumption, <1>1, Zenon DEF TypeOK, OwnStep
<1>5. BitsOK'
  <2>1. \A v \in AllThread : v \in active' <=> place'[v] \notin {"out", "schedule"}
    BY <1>1, Zenon DEF OwnStep, BitsOK
  <2>2. \A v \in AllThread : v \notin active' => level'[v] = kGCAndDeopt
    BY Zenon DEF OwnStep, BitsOK
  <2>3. \A v \in Helper : place'[v] \in {"out", "run"}
    BY <1>1, Zenon DEF OwnStep, BitsOK, AllThread
  <2>4. \A v \in Thread : at'[v] = IF Unparked(v)' THEN {} ELSE AtSafepointBits(level'[v])
    <3>1. at'[t] = IF Unparked(t)' THEN {} ELSE AtSafepointBits(level'[t])
      BY Zenon DEF ThreadInv
    <3>2. \A v \in Thread : v # t => v \in AllThread /\ at'[v] = at[v] /\ level'[v] = level[v]
      BY Zenon DEF OwnStep, AllThread
    <3>3. \A v \in Thread : v # t => (Unparked(v)' <=> Unparked(v))
      BY <1>2, Zenon DEF AllThread
    <3> QED BY <3>1, <3>2, <3>3, Zenon DEF BitsOK
  <2> QED BY <2>1, <2>2, <2>3, <2>4, Zenon DEF BitsOK
<1>6. ScopesOK'
  <2>1. ASSUME NEW v \in AllThread
        PROVE  /\ (scopes[v] # <<>>)' <=> place'[v] \in {"start", "waitOwner", "notify",
                                             "waitParked", "lower", "op", "continue"}
               /\ (Len(scopes[v]) > 1)' => place'[v] \in {"start", "op"}
               /\ \A i \in 1 .. Len(scopes'[v]) : scopes'[v][i] <= Outer(v)'
    <3>1. CASE v = t
      BY <3>1, Zenon DEF ThreadInv
    <3>2. CASE v # t
      <4>1. place'[v] = place[v] /\ scopes'[v] = scopes[v] /\ Outer(v)' = Outer(v)
        BY <1>2, <3>2, Zenon DEF OwnStep
      <4> QED BY <4>1, Zenon DEF ScopesOK
    <3> QED BY <3>1, <3>2, Zenon
  <2> QED BY <2>1, Zenon DEF ScopesOK
<1>7. LockOK'
  <2>1. \A v \in AllThread : v # t => place'[v] = place[v]
    BY Zenon DEF OwnStep
  <2>2. CASE UNCHANGED <<threads_lock, todo>> /\ place[t] \notin {"notify", "continue"}
             /\ place'[t] \notin {"notify", "continue"}
    BY <2>1, <2>2, Zenon DEF LockOK, OwnStep
  <2>3. CASE /\ threads_lock \in {NoThread, t}
             /\ threads_lock' = IF place'[t] \in {"notify", "continue"} THEN t ELSE NoThread
             /\ threads_lock' = NoThread => todo' = {}
             /\ todo' \subseteq active \ {t}
    <3>1. \A v \in AllThread : v # t => place[v] \notin {"notify", "continue"}
      BY <2>3, SafepointAssumption, Zenon DEF LockOK, AllThread
    <3> QED BY <1>1, <2>1, <2>3, <3>1, SafepointAssumption, Zenon DEF LockOK, OwnStep, AllThread
  <2> QED BY <2>2, <2>3, Zenon DEF OwnStep
<1>8. OwnerOK'
  <2>0. \A l \in Level : owner'[l] = t <=>
           \/ place'[t] \in {"notify", "waitParked", "lower", "continue"} /\ l = Outer(t)'
           \/ Nested(t)' /\ l <= Outer(t)'
    BY Zenon DEF ThreadInv
  <2> SUFFICES ASSUME NEW v \in Thread, NEW l \in Level, v # t
               PROVE  owner'[l] = v <=>
                        \/ place'[v] \in {"notify", "waitParked", "lower", "continue"}
                           /\ l = Outer(v)'
                        \/ Nested(v)' /\ l <= Outer(v)'
    BY ZenonT(30), <2>0 DEF OwnerOK
  <2>1. owner'[l] = v <=> owner[l] = v
    BY SafepointAssumption, Zenon DEF OwnLevels
  <2>2. v \in AllThread /\ place'[v] = place[v]
    BY Zenon DEF OwnStep, AllThread
  <2>3. (Nested(v)' <=> Nested(v)) /\ Outer(v)' = Outer(v)
    BY <1>2, <2>2, Zenon
  <2>4. owner[l] = v <=>
           \/ place[v] \in {"notify", "waitParked", "lower", "continue"} /\ l = Outer(v)
           \/ Nested(v) /\ l <= Outer(v)
    BY Zenon DEF OwnerOK
  <2> QED BY <2>1, <2>2, <2>3, <2>4, Zenon
<1>9. ReqOK'
  <2> SUFFICES ASSUME NEW u \in Thread, NEW l \in Level, owner[l] \notin {NoThread, t}
               PROVE  l \in req'[u] <=> Asked(u, l)'
    BY Zenon DEF ReqOK, OwnLevels
  <2>1. owner'[l] = owner[l] /\ owner[l] \in AllThread /\ owner[l] # t
    BY Zenon DEF OwnLevels, TypeOK, AllThread
  <2>2. Asked(u, l)' <=> Asked(u, l)
    BY ZenonT(30), <1>2, <1>3, <2>1 DEF Asked, OwnStep
  <2> QED BY <2>2, Zenon DEF ReqOK, OwnLevels
<1>10. ParkedOK'
  <2> SUFFICES ASSUME NEW v \in Thread, NEW u \in Thread, v # t,
                      Holds(v)', Outer(v)' \in req'[u]
               PROVE  Outer(v)' \in at'[u]
    BY Zenon DEF ParkedOK, ThreadInv
  <2>1. v \in AllThread /\ Holds(v) /\ Outer(v)' = Outer(v) /\ scopes[v] # <<>>
    BY <1>2, Zenon DEF AllThread, Holds, Nested, ScopesOK
  <2>2. Outer(v) \in Level
    BY <2>1, ScopeFacts, Zenon
  <2>3. owner[Outer(v)] = v
    BY <2>1, <2>2, LevelFacts, Zenon DEF OwnerOK, Holds
  <2>4. Outer(v) \in req[u]
    BY <2>1, <2>2, <2>3, SafepointAssumption, Zenon DEF OwnLevels
  <2>5. Outer(v) \in at[u]
    BY <2>1, <2>4, Zenon DEF ParkedOK
  <2>6. at[u] \subseteq at'[u]
    BY Zenon DEF OwnStep, AllThread
  <2> QED BY <2>1, <2>5, <2>6, Zenon
<1>11. LowerFree'
  <2> SUFFICES ASSUME NEW v \in Thread, v # t, place'[v] = "continue"
               PROVE  \A l \in Level : l < Outer(v)' => owner'[l] = NoThread
    BY Zenon DEF LowerFree, ThreadInv
  <2>1. v \in AllThread /\ place[v] = "continue"
    BY Zenon DEF OwnStep, AllThread
  <2> QED BY <1>2, <1>3, <2>1, Zenon DEF LowerFree
<1>12. CountOK'
  <2> SUFFICES ASSUME NEW v \in Thread, v # t
               PROVE  /\ Nested(v)' => \A l \in Level : l <= Outer(v)' =>
                           count'[l] = Cardinality(Counted(v, l)')
                                        + IF l = Outer(v)' THEN 0 ELSE 1
                      /\ place'[v] \in {"notify", "waitParked", "lower", "continue"} =>
                           count'[Outer(v)'] = 1
    BY ZenonT(30) DEF CountOK, ThreadInv
  <2>1. v \in AllThread /\ v # NoThread /\ place'[v] = place[v]
    BY SafepointAssumption, Zenon DEF AllThread, OwnStep
  <2>2. CASE Nested(v)
    <3>1. \A l \in Level : l <= Outer(v) => count'[l] = count[l]
      BY <2>1, <2>2, Zenon DEF OwnLevels, OwnerOK
    <3> QED BY <1>2, <2>1, <2>2, <3>1 DEF CountOK, Nested
  <2>3. CASE place[v] \in {"notify", "waitParked", "lower", "continue"}
    <3>1. Outer(v) \in Level
      BY <2>1, <2>3, ScopeFacts, ZenonT(30) DEF ScopesOK
    <3>2. count'[Outer(v)] = count[Outer(v)]
      BY ZenonT(30), <2>1, <2>3, <3>1 DEF OwnLevels, OwnerOK
    <3> QED BY <1>2, <2>1, <2>3, <3>2, Zenon DEF CountOK, Nested
  <2> QED BY <1>2, <2>1, <2>2, <2>3, Zenon
<1> QED BY <1>4, <1>5, <1>6, <1>7, <1>8, <1>9, <1>10, <1>11, <1>12, Zenon

-----------------------------------------------------------------------------
(* What t owns before and after a step that keeps its levels.              *)
LEMMA SameLevels ==
  ASSUME IInv, NEW t \in Thread, owner' = owner, req' = req, OwnStep(t),
         \A l \in Level : owner[l] # t => count'[l] = count[l],
         \A u \in Thread, l \in Level : owner[l] = t => (Asked(u, l)' <=> Asked(u, l))
  PROVE  OwnLevels(t)
<1> USE DEF IInv
<1>1. \A u \in Thread, l \in Level : owner[l] = NoThread => l \notin req[u] /\ ~Asked(u, l)'
  BY Zenon DEF ReqOK, Asked
<1>2. \A u \in Thread, l \in Level : owner[l] = t => (l \in req[u] <=> Asked(u, l)')
  BY Zenon DEF ReqOK
<1> QED BY <1>1, <1>2, Zenon DEF OwnLevels

(* A scope is made: the first one of a thread that runs, or one inside its *)
(* operation.                                                              *)
LEMMA NewScopeInv ==
  ASSUME IInv, NEW t \in Thread, NEW k \in Level, NewOperationScope(t, k)
  PROVE  IInv'
<1> USE DEF IInv, Move, lock, handlers, bits
<1>0. /\ t \in AllThread /\ scopes[t] \in Seq(Level) /\ place[t] \in {"run", "op"}
      /\ UNCHANGED <<level, active, threads_lock, waiting, todo, owner, count, at, req, notParked>>
  BY Zenon DEF AllThread, TypeOK, NewOperationScope
<1>1. /\ place'[t] = "start" /\ scopes'[t] = Append(scopes[t], k)
      /\ place' \in [AllThread -> Place] /\ scopes' \in [AllThread -> Seq(Level)]
      /\ \A v \in AllThread : v # t => place'[v] = place[v] /\ scopes'[v] = scopes[v]
  BY <1>0 DEF NewOperationScope, TypeOK, Place
<1>2. place[t] = "run" => scopes[t] = <<>>
  BY <1>0, Zenon DEF ScopesOK
<1>3. place[t] = "op" => scopes[t] # <<>> /\ k <= Outer(t)
  BY <1>0, Zenon DEF ScopesOK, NewOperationScope, Outer
<1>4. OwnStep(t)
  BY <1>0, <1>1, Zenon DEF OwnStep, TypeOK
<1>5. /\ Len(scopes'[t]) = Len(scopes[t]) + 1 /\ Len(scopes[t]) \in Nat
      /\ scopes'[t][Len(scopes[t]) + 1] = k
      /\ \A i \in 1 .. Len(scopes[t]) : scopes'[t][i] = scopes[t][i]
  BY <1>0, <1>1
<1>6. place[t] = "run" => Len(scopes'[t]) = 1 /\ scopes'[t][1] = k
  BY <1>2, <1>5
<1>7. place[t] = "op" => /\ Len(scopes'[t]) > 1 /\ Len(scopes[t]) >= 1 /\ Outer(t)' = Outer(t)
                         /\ Outer(t) \in Level
  BY <1>0, <1>3, <1>5, ScopeFacts DEF Outer
<1>8. /\ Nested(t)' <=> Nested(t)
      /\ Unparked(t)' <=> Unparked(t)
      /\ Nested(t) <=> place[t] = "op"
      /\ Holds(t)' <=> Holds(t)
  BY <1>0, <1>1, <1>6, <1>7 DEF Nested, Unparked, Holds
<1>9. \A l \in Level : owner[l] = t <=> Nested(t) /\ l <= Outer(t)
  BY <1>0, Zenon DEF OwnerOK
<1>10. OwnLevels(t)
  <2>1. ASSUME NEW u \in Thread, NEW l \in Level, owner[l] = t
        PROVE  Asked(u, l)' <=> Asked(u, l)
    BY Zenon, <1>0, <1>1, <1>7, <1>8, <1>9, <2>1 DEF Asked
  <2> QED BY <1>0, <1>4, <2>1, SameLevels, Zenon
<1>11. \A i \in 1 .. Len(scopes'[t]) : scopes'[t][i] <= Outer(t)'
  <2>1. CASE place[t] = "run"
    BY <1>6, <2>1, LevelFacts DEF Outer
  <2>2. CASE place[t] = "op"
    BY <1>0, <1>3, <1>5, <1>7, <2>2 DEF ScopesOK, Outer
  <2> QED BY <1>0, <2>1, <2>2, Zenon
<1>12. place[t] = "op" => \A l \in Level : Counted(t, l)' = Counted(t, l)
  BY <1>1, <1>5 DEF Counted
<1>13. NotParkedIsExact'
  BY <1>0, Zenon DEF NotParkedIsExact
<1>14. \A u \in Thread : Holds(t)' /\ Outer(t)' \in req'[u] => Outer(t)' \in at'[u]
  BY <1>0, <1>7, <1>8, Zenon DEF ParkedOK, Holds
<1>15. at'[t] = IF Unparked(t)' THEN {} ELSE AtSafepointBits(level[t])
  BY <1>0, <1>8, Zenon DEF BitsOK
<1>16. Nested(t)' => \A l \in Level : l <= Outer(t)' =>
              count'[l] = Cardinality(Counted(t, l)') + IF l = Outer(t)' THEN 0 ELSE 1
  BY <1>0, <1>7, <1>8, <1>12, Zenon DEF CountOK
<1>17. \A l \in Level : owner'[l] = t <=>
              \/ place'[t] \in {"notify", "waitParked", "lower", "continue"} /\ l = Outer(t)'
              \/ Nested(t)' /\ l <= Outer(t)'
  BY <1>0, <1>1, <1>7, <1>8, <1>9, Zenon
<1>18. scopes'[t] # <<>>
  BY <1>0, <1>5, <1>6, <1>7
<1>19. ThreadInv(t)'
  <2>1. at'[t] = IF Unparked(t)' THEN {} ELSE AtSafepointBits(level'[t])
    BY <1>0, <1>15, Zenon
  <2>2. place'[t] = "start"
    BY <1>1, Zenon
  <2> QED BY <1>11, <1>14, <1>16, <1>17, <1>18, <2>1, <2>2, ZenonT(30) DEF ThreadInv
<1> QED BY <1>0, <1>4, <1>10, <1>13, <1>19, OwnStepInv, Zenon

-----------------------------------------------------------------------------

(* What is counted of a set of positions in a sequence.                    *)
LEMMA CountedCounts ==
  ASSUME NEW n \in Nat, NEW S \in SUBSET (1 .. n)
  PROVE  /\ IsFiniteSet(S) /\ Cardinality(S) \in Nat
         /\ Cardinality(S) = 0 <=> S = {}
         /\ \A x : Cardinality({x}) = 1
         /\ \A x \in S : Cardinality(S \ {x}) = Cardinality(S) - 1
         /\ \A x : x \notin S => Cardinality(S \cup {x}) = Cardinality(S) + 1
<1>1. IsFiniteSet(1 .. n)
  BY FS_Interval
<1>2. IsFiniteSet(S)
  BY <1>1, FS_Subset, Zenon
<1>3. Cardinality(S) \in Nat
  BY <1>2, FS_CardinalityType, Zenon
<1>4. Cardinality(S) = 0 <=> S = {}
  BY <1>2, FS_EmptySet, Zenon
<1>5. \A x : Cardinality({x}) = 1
  BY FS_Singleton, Zenon
<1>6. \A x \in S : Cardinality(S \ {x}) = Cardinality(S) - 1
  BY <1>2, FS_RemoveElement, Zenon
<1>7. \A x : x \notin S => Cardinality(S \cup {x}) = Cardinality(S) + 1
  BY <1>2, FS_AddElement, Zenon
<1> QED BY <1>2, <1>3, <1>4, <1>5, <1>6, <1>7, Zenon

(* operation_count_ of the innermost level tells whether an operation is   *)
(* inside another one.                                                     *)
LEMMA ResumeDepth ==
  ASSUME IInv, NEW t \in Thread, place[t] = "op"
  PROVE  /\ scopes[t] # <<>>
         /\ count[Top(t)] > 1 <=> Len(scopes[t]) > 1
         /\ Len(scopes[t]) = 1 => count[Top(t)] = 1
<1> USE DEF IInv
<1> DEFINE n == Len(scopes[t])
           C == Counted(t, Top(t))
<1>1. scopes[t] # <<>>
  BY Zenon DEF ScopesOK, AllThread
<1>2. /\ n \in Nat /\ n >= 1 /\ Top(t) \in Level /\ Top(t) <= Outer(t)
      /\ n = 1 => Top(t) = Outer(t)
  BY <1>1, ScopeFacts, Zenon
<1>3. C = {i \in 1 .. n : scopes[t][i] = Top(t)} /\ n \in C
  BY <1>2 DEF Counted, Top
<1>4. /\ C \in SUBSET (1 .. n)
      /\ count[Top(t)] = Cardinality(C) + IF Top(t) = Outer(t) THEN 0 ELSE 1
  BY <1>2, <1>3, Zenon DEF CountOK, Nested
<1> HIDE DEF C, n
<1>5. Cardinality(C) \in Nat /\ Cardinality(C) >= 1
  <2>1. Cardinality(C) \in Nat /\ Cardinality(C) # 0
    BY <1>2, <1>3, <1>4, CountedCounts, Zenon
  <2> QED BY <2>1
<1>6. ASSUME n = 1 PROVE count[Top(t)] = 1
  <2>1. C = {1}
    BY <1>3, <1>4, <1>6
  <2>2. Cardinality(C) = 1
    BY <1>2, <1>4, <2>1, CountedCounts, Zenon
  <2> QED BY <1>2, <1>4, <1>6, <2>2
<1>7. ASSUME n > 1 PROVE count[Top(t)] > 1
  <2>1. CASE Top(t) = Outer(t)
    <3>1. 1 \in C \ {n}
      BY <1>2, <1>3, <1>7, <2>1 DEF Outer
    <3>2. Cardinality(C \ {n}) = Cardinality(C) - 1 /\ Cardinality(C \ {n}) \in Nat
          /\ Cardinality(C \ {n}) # 0
      <4>1. C \ {n} \in SUBSET (1 .. n) /\ C \ {n} # {}
        BY <1>4, <3>1, Zenon
      <4>2. Cardinality(C \ {n}) \in Nat /\ Cardinality(C \ {n}) # 0
        BY <1>2, <4>1, CountedCounts, Zenon
      <4>3. Cardinality(C \ {n}) = Cardinality(C) - 1
        BY <1>2, <1>3, <1>4, CountedCounts, Zenon
      <4> QED BY <4>2, <4>3, Zenon
    <3>3. Cardinality(C) > 1
      BY <1>5, <3>2
    <3> QED BY <1>4, <1>5, <2>1, <3>3
  <2>2. CASE Top(t) # Outer(t)
    <3>1. count[Top(t)] = Cardinality(C) + 1
      BY <1>4, <2>2, Zenon
    <3> QED BY <1>5, <3>1
  <2> QED BY <2>1, <2>2, Zenon
<1>8. n = 1 \/ n > 1
  BY <1>2
<1> QED BY <1>1, <1>6, <1>7, <1>8, Zenon DEF n

(* An operation begins inside another one of its thread.                   *)
LEMMA NestedStartInv ==
  ASSUME IInv, NEW t \in Thread, SafepointThreads(t), owner[Top(t)] = t
  PROVE  IInv'
<1> USE DEF IInv, Move, lock
<1>0. /\ place[t] = "start" /\ t \in AllThread /\ scopes[t] # <<>> /\ threads_lock = NoThread
      /\ count' = [count EXCEPT ![Top(t)] = @ + 1]
      /\ UNCHANGED <<level, active, scopes, threads_lock, waiting, todo, owner, at, req, notParked>>
  BY Zenon DEF SafepointThreads, AllThread, ScopesOK, LockFree
<1>1. /\ place'[t] = "op" /\ place' \in [AllThread -> Place]
      /\ \A v \in AllThread : v # t => place'[v] = place[v]
  BY <1>0, Zenon DEF SafepointThreads, TypeOK, Place
<1>2. /\ Top(t) \in Level /\ Outer(t) \in Level /\ Top(t) <= Outer(t)
      /\ Len(scopes[t]) \in Nat /\ Len(scopes[t]) >= 1
  BY <1>0, ScopeFacts, Zenon
<1>3. Nested(t) /\ Len(scopes[t]) > 1
  BY <1>0, <1>2, Zenon DEF OwnerOK, Nested
<1>4. /\ Nested(t)' /\ Holds(t) /\ ~Unparked(t) /\ ~Unparked(t)' /\ Outer(t)' = Outer(t)
  <2>1. Nested(t)' /\ Outer(t)' = Outer(t)
    BY <1>0, <1>1, Zenon DEF Nested, Outer
  <2>2. Len(scopes[t]) # 1
    BY <1>2, <1>3, OneOrMore, Zenon
  <2>3. ~Unparked(t)
    BY <1>0, <2>2, Zenon DEF Unparked
  <2>4. ~Unparked(t)'
    BY <1>1, Zenon DEF Unparked
  <2> QED BY <1>3, <2>1, <2>3, <2>4, Zenon DEF Holds
<1>5. \A l \in Level : /\ count[l] \in Nat
                       /\ count'[l] = IF l = Top(t) THEN count[l] + 1 ELSE count[l]
  BY <1>0, Zenon DEF TypeOK
<1>6. OwnStep(t)
  BY SMTT(30), <1>0, <1>1, <1>2, <1>5 DEF OwnStep, TypeOK
<1>7. OwnLevels(t)
  <2>1. ASSUME NEW u \in Thread, NEW l \in Level, owner[l] = t
        PROVE  Asked(u, l)' <=> Asked(u, l)
    BY <1>0, <1>1, <1>4, <2>1, Zenon DEF Asked
  <2> QED BY <1>0, <1>5, <1>6, <2>1, SameLevels, Zenon
<1>8. ASSUME NEW l \in Level, l <= Outer(t)
      PROVE  count'[l] = Cardinality(Counted(t, l)') + IF l = Outer(t) THEN 0 ELSE 1
  <2>1. /\ Counted(t, l) \in SUBSET (1 .. Len(scopes[t])) /\ Len(scopes[t]) \notin Counted(t, l)
        /\ count[l] = Cardinality(Counted(t, l)) + IF l = Outer(t) THEN 0 ELSE 1
    BY <1>0, <1>3, <1>8, Zenon DEF Counted, CountOK
  <2>2. Cardinality(Counted(t, l)) \in Nat
    BY <1>2, <2>1, CountedCounts, Zenon
  <2>3. CASE l = Top(t)
    <3>1. Counted(t, l)' = Counted(t, l) \cup {Len(scopes[t])}
      BY <1>0, <1>1, <1>2, <2>3 DEF Counted, Top
    <3>2. Cardinality(Counted(t, l) \cup {Len(scopes[t])}) = Cardinality(Counted(t, l)) + 1
      BY <1>2, <2>1, CountedCounts, Zenon
    <3> QED BY SMTT(30), <1>5, <2>1, <2>2, <2>3, <3>1, <3>2
  <2>4. CASE l # Top(t)
    <3>1. Counted(t, l)' = Counted(t, l)
      BY <1>0, <1>1, <1>2, <2>4, Zenon DEF Counted, Top
    <3> QED BY <1>5, <2>1, <2>4, <3>1, Zenon
  <2> QED BY <2>3, <2>4, Zenon
<1>9. ThreadInv(t)'
  <2>1. at'[t] = AtSafepointBits(level'[t])
    BY <1>0, <1>4, Zenon DEF BitsOK
  <2>2. \A i \in 1 .. Len(scopes'[t]) : scopes'[t][i] <= Outer(t)'
    BY <1>0, <1>4, Zenon DEF ScopesOK
  <2>3. \A l \in Level : owner'[l] = t <=> l <= Outer(t)'
    BY <1>0, <1>3, <1>4 DEF OwnerOK
  <2>4. \A u \in Thread : Outer(t)' \in req'[u] => Outer(t)' \in at'[u]
    BY <1>0, <1>4, Zenon DEF ParkedOK
  <2>5. \A l \in Level : l <= Outer(t)' =>
           count'[l] = Cardinality(Counted(t, l)') + IF l = Outer(t)' THEN 0 ELSE 1
    BY <1>4, <1>8, Zenon
  <2>6. scopes'[t] # <<>>
    BY <1>0, Zenon
  <2> QED BY <1>1, <1>4, <2>1, <2>2, <2>3, <2>4, <2>5, <2>6, Zenon DEF ThreadInv
<1>10. NotParkedIsExact'
  BY <1>0, Zenon DEF NotParkedIsExact
<1> QED BY ZenonT(30), <1>0, <1>6, <1>7, <1>9, <1>10, OwnStepInv

(* It ends.                                                                *)
LEMMA NestedResumeInv ==
  ASSUME IInv, NEW t \in Thread, ResumeThreads(t), count[Top(t)] > 1
  PROVE  IInv'
<1> USE DEF IInv, lock
<1>0. /\ place[t] = "op" /\ t \in AllThread /\ threads_lock = NoThread
      /\ count' = [count EXCEPT ![Top(t)] = @ - 1]
      /\ scopes' = [scopes EXCEPT ![t] = SubSeq(@, 1, Len(@) - 1)]
      /\ UNCHANGED <<place, level, active, threads_lock, waiting, todo, owner, at, req, notParked>>
  BY Zenon DEF ResumeThreads, AllThread, LockFree, Pop, bits
<1>1. scopes[t] # <<>> /\ Len(scopes[t]) > 1
  BY <1>0, ResumeDepth, Zenon
<1>2. /\ Top(t) \in Level /\ Outer(t) \in Level /\ Top(t) <= Outer(t)
      /\ Len(scopes[t]) \in Nat /\ scopes[t] \in Seq(Level)
  BY <1>1, ScopeFacts, Zenon
<1>3. /\ scopes'[t] = SubSeq(scopes[t], 1, Len(scopes[t]) - 1)
      /\ \A v \in AllThread : v # t => scopes'[v] = scopes[v]
  BY <1>0, Zenon DEF TypeOK
<1>4. /\ scopes'[t] \in Seq(Level) /\ Len(scopes'[t]) = Len(scopes[t]) - 1
      /\ \A i \in 1 .. Len(scopes[t]) - 1 : scopes'[t][i] = scopes[t][i]
  BY <1>1, <1>2, <1>3
<1>5. scopes'[t] # <<>> /\ Outer(t)' = Outer(t)
  BY <1>1, <1>2, <1>4 DEF Outer
<1>6. /\ Nested(t) /\ Nested(t)' /\ Holds(t) /\ ~Unparked(t) /\ ~Unparked(t)'
  BY <1>0, Zenon DEF Unparked, Nested, Holds
<1>7. \A l \in Level : /\ count[l] \in Nat
                       /\ count'[l] = IF l = Top(t) THEN count[l] - 1 ELSE count[l]
                       /\ count'[l] \in Nat
  BY <1>0 DEF TypeOK
<1>8. OwnStep(t)
  <2>1. scopes' \in [AllThread -> Seq(Level)]
    BY <1>0, <1>3, <1>4, Zenon DEF TypeOK
  <2>2. count' \in [Level -> Nat]
    BY <1>0, <1>7, Zenon DEF TypeOK
  <2> QED BY <1>0, <1>3, <2>1, <2>2, Zenon DEF OwnStep, TypeOK
<1>9. owner[Top(t)] = t
  BY <1>2, <1>6, Zenon DEF OwnerOK
<1>10. OwnLevels(t)
  <2>1. ASSUME NEW u \in Thread, NEW l \in Level, owner[l] = t
        PROVE  Asked(u, l)' <=> Asked(u, l)
    BY <1>0, <1>5, <2>1, Zenon DEF Asked
  <2> QED BY ZenonT(30), <1>0, <1>7, <1>8, <1>9, <2>1, SameLevels
<1>11. ASSUME NEW l \in Level, l <= Outer(t)
       PROVE  count'[l] = Cardinality(Counted(t, l)') + IF l = Outer(t) THEN 0 ELSE 1
  <2>1. /\ Counted(t, l) \in SUBSET (1 .. Len(scopes[t]))
        /\ count[l] = Cardinality(Counted(t, l)) + IF l = Outer(t) THEN 0 ELSE 1
    BY <1>6, <1>11, Zenon DEF Counted, CountOK
  <2>2. Cardinality(Counted(t, l)) \in Nat
    BY <1>2, <2>1, CountedCounts, Zenon
  <2>3. Counted(t, l)' = {i \in 1 .. Len(scopes[t]) - 1 : scopes[t][i] = l}
    BY <1>0, <1>4, Zenon DEF Counted
  <2>4. Counted(t, l) = {i \in 1 .. Len(scopes[t]) : scopes[t][i] = l}
    BY <1>0, Zenon DEF Counted
  <2>5. CASE l = Top(t)
    <3>1. /\ Counted(t, l)' = Counted(t, l) \ {Len(scopes[t])}
          /\ Len(scopes[t]) \in Counted(t, l)
      BY <1>1, <1>2, <2>3, <2>4, <2>5 DEF Top
    <3>2. Cardinality(Counted(t, l) \ {Len(scopes[t])}) = Cardinality(Counted(t, l)) - 1
      BY <1>2, <2>1, <3>1, CountedCounts, Zenon
    <3> QED BY SMTT(30), <1>7, <2>1, <2>2, <2>5, <3>1, <3>2
  <2>6. CASE l # Top(t)
    <3>1. Counted(t, l)' = Counted(t, l)
      BY <1>1, <1>2, <2>3, <2>4, <2>6 DEF Top
    <3> QED BY <1>7, <2>1, <2>6, <3>1, Zenon
  <2> QED BY <2>5, <2>6, Zenon
<1>12. ThreadInv(t)'
  <2>1. at'[t] = AtSafepointBits(level'[t])
    BY <1>0, <1>6, Zenon DEF BitsOK
  <2>2. \A i \in 1 .. Len(scopes'[t]) : scopes'[t][i] <= Outer(t)'
    BY <1>0, <1>2, <1>4, <1>5 DEF ScopesOK
  <2>3. \A l \in Level : owner'[l] = t <=> l <= Outer(t)'
    BY <1>0, <1>5, <1>6 DEF OwnerOK
  <2>4. \A u \in Thread : Outer(t)' \in req'[u] => Outer(t)' \in at'[u]
    BY <1>0, <1>5, <1>6, Zenon DEF ParkedOK
  <2>5. \A l \in Level : l <= Outer(t)' =>
           count'[l] = Cardinality(Counted(t, l)') + IF l = Outer(t)' THEN 0 ELSE 1
    BY <1>5, <1>11, Zenon
  <2>6. place'[t] = "op"
    BY <1>0, Zenon
  <2> QED BY <1>5, <1>6, <2>1, <2>2, <2>3, <2>4, <2>5, <2>6, ZenonT(30) DEF ThreadInv
<1>13. NotParkedIsExact'
  BY <1>0, Zenon DEF NotParkedIsExact
<1> QED BY <1>0, <1>8, <1>10, <1>12, <1>13, OwnStepInv, Zenon

-----------------------------------------------------------------------------

(* An outermost operation takes its level or waits for its owner.          *)
LEMMA TakeLevelInv ==
  ASSUME IInv, NEW t \in Thread, place[t] \in {"start", "waitOwner"}, Len(scopes[t]) = 1,
         LockFree(t), TakeLevel(t), UNCHANGED <<level, req, active, scopes>>,
         at' \in [AllThread -> SUBSET Level], at'[t] = AtSafepointBits(level[t]),
         \A v \in AllThread : v # t => at'[v] = at[v],
         notParked' \in [Level -> Int], NotParkedIsExact'
  PROVE  IInv'
<1> USE DEF IInv, Move, handlers
<1>0. /\ t \in AllThread /\ t # NoThread /\ t \notin Helper /\ scopes[t] # <<>>
      /\ threads_lock = NoThread /\ todo = {}
  BY SafepointAssumption, Zenon DEF AllThread, ScopesOK, LockFree, LockOK
<1>1. Top(t) \in Level /\ Outer(t) = Top(t) /\ t \in active
  BY <1>0, ScopeFacts, Zenon
<1>2. /\ \A l \in Level : owner[l] # t
      /\ ~(Len(scopes[t]) > 1)
  <2>1. Len(scopes[t]) \in Nat
    BY <1>0, ScopeFacts, Zenon
  <2>2. ~(Len(scopes[t]) > 1)
    BY <2>1, OneOrMore, Zenon
  <2> QED BY <2>2, Zenon DEF OwnerOK, Nested
<1>3. Outer(t)' = Top(t) /\ scopes'[t] # <<>> /\ ~(Len(scopes'[t]) > 1)
  BY <1>0, <1>1, <1>2, Zenon DEF Outer
<1>4. at[t] \subseteq at'[t]
  BY <1>0, Zenon DEF BitsOK
<1>5. \A i \in 1 .. Len(scopes'[t]) : scopes'[t][i] <= Outer(t)'
  BY <1>0, <1>1, <1>3, Zenon DEF ScopesOK
<1>6. CASE SafepointInProgress(Top(t))
  <2>1. /\ place'[t] = "waitOwner" /\ place' \in [AllThread -> Place]
        /\ \A v \in AllThread : v # t => place'[v] = place[v]
        /\ UNCHANGED <<threads_lock, todo, owner, count>>
        /\ waiting' \in SUBSET Thread
    BY <1>0, <1>6, Zenon DEF TakeLevel, TypeOK, Place
  <2>2. OwnStep(t)
    BY <1>0, <2>1, Zenon DEF OwnStep, TypeOK
  <2>3. OwnLevels(t)
    BY <1>2, <2>1, <2>2, SameLevels, Zenon
  <2>4. ~Nested(t)' /\ ~Unparked(t)' /\ ~Holds(t)'
    BY <2>1, Zenon DEF Nested, Unparked, Holds
  <2>5. ThreadInv(t)'
    <3>1. level'[t] = level[t] /\ \A l \in Level : owner'[l] # t
      BY ZenonT(30), <1>2, <2>1
    <3> QED BY SMTT(30), <1>3, <1>5, <2>1, <2>4, <3>1 DEF ThreadInv
  <2> QED BY ZenonT(30), <1>4, <2>2, <2>3, <2>5, OwnStepInv
<1>7. CASE ~SafepointInProgress(Top(t))
  <2>1. /\ place'[t] = "notify" /\ place' \in [AllThread -> Place]
        /\ \A v \in AllThread : v # t => place'[v] = place[v]
        /\ threads_lock' = t /\ todo' = active \ ({t} \cup Helper)
        /\ waiting' = waiting /\ owner[Top(t)] = NoThread
    BY <1>0, <1>7, Zenon DEF TakeLevel, TypeOK, Place, SafepointInProgress
  <2>2. /\ owner' \in [Level -> Thread \cup {NoThread}] /\ count' \in [Level -> Nat]
        /\ \A l \in Level : owner'[l] = IF l = Top(t) THEN t ELSE owner[l]
        /\ \A l \in Level : count'[l] = IF l = Top(t) THEN 1 ELSE count[l]
    <3>1. owner' = [owner EXCEPT ![Top(t)] = t] /\ count' = [count EXCEPT ![Top(t)] = 1]
      BY <1>7, Zenon DEF TakeLevel, SetSafepointInProgress
    <3>2. owner \in [Level -> Thread \cup {NoThread}] /\ count \in [Level -> Nat]
      BY Zenon DEF TypeOK
    <3> QED BY <1>1, <3>1, <3>2, Zenon
  <2>3. todo' \in SUBSET Thread /\ todo' \subseteq active \ {t}
    BY <2>1, Zenon DEF TypeOK, AllThread
  <2>4. OwnStep(t)
    BY <1>0, <2>1, <2>2, <2>3, Zenon DEF OwnStep, TypeOK
  <2>5. ~Nested(t)' /\ ~Unparked(t)' /\ ~Holds(t)'
    BY <2>1, Zenon DEF Nested, Unparked, Holds
  <2>6. OwnLevels(t)
    <3>1. ASSUME NEW u \in Thread, NEW l \in Level, owner[l] = NoThread
          PROVE  l \notin req'[u] /\ ~Asked(u, l)'
      <4>1. l \notin req[u]
        BY <3>1, Zenon DEF ReqOK, Asked
      <4>2. CASE l = Top(t)
        <5>1. u \in active /\ u # t => u \in todo'
          BY <2>1, SafepointAssumption, Zenon
        <5> QED BY ZenonT(30), <1>0, <2>1, <2>2, <4>1, <4>2, <5>1 DEF Asked
      <4>3. CASE l # Top(t)
        BY <2>2, <3>1, <4>1, <4>3, ZenonT(30) DEF Asked
      <4> QED BY <4>2, <4>3, Zenon
    <3> QED BY ZenonT(30), <1>2, <2>1, <2>2, <3>1 DEF OwnLevels
  <2>7. ThreadInv(t)'
    <3>1. \A l \in Level : owner'[l] = t <=> l = Outer(t)'
      BY <1>2, <1>3, <2>2, Zenon
    <3>2. count'[Outer(t)'] = 1
      BY <1>1, <1>3, <2>2, Zenon
    <3>3. level'[t] = level[t] /\ place'[t] # "continue"
      BY <2>1, Zenon
    <3> QED BY ZenonT(30), <1>3, <1>5, <2>1, <2>5, <3>1, <3>2, <3>3 DEF ThreadInv
  <2> QED BY <1>4, <2>4, <2>6, <2>7, OwnStepInv, Zenon
<1> QED BY <1>6, <1>7, Zenon

(* SafepointThreads: nested, outermost, and woken to try again.            *)
LEMMA SafepointThreadsInv ==
  ASSUME IInv, NEW t \in Thread, SafepointThreads(t) \/ SafepointThreadsWoken(t)
  PROVE  IInv'
<1> USE DEF IInv
<1>0. place[t] \in {"start", "waitOwner"} /\ t \in AllThread /\ scopes[t] # <<>>
  BY Zenon DEF SafepointThreads, SafepointThreadsWoken, AllThread, ScopesOK
<1>1. /\ Len(scopes[t]) \in Nat /\ Len(scopes[t]) >= 1
      /\ Top(t) \in Level /\ Top(t) <= Outer(t)
  BY <1>0, ScopeFacts, Zenon
<1>2. CASE SafepointThreads(t) /\ owner[Top(t)] = t
  BY <1>2, NestedStartInv, Zenon
<1>3. CASE SafepointThreads(t) /\ owner[Top(t)] # t
  <2>1. ~(Len(scopes[t]) > 1)
    BY <1>1, <1>3, Zenon DEF OwnerOK, Nested, SafepointThreads
  <2>2. Len(scopes[t]) = 1
    BY <1>1, <2>1, OneOrMore, Zenon
  <2>3. /\ place[t] = "start" /\ LockFree(t) /\ EnterSafepointLocked(t) /\ TakeLevel(t)
        /\ UNCHANGED <<level, req, active, scopes>>
    BY <1>3, Zenon DEF SafepointThreads
  <2>4. Unparked(t)
    BY <2>2, <2>3, Zenon DEF Unparked
  <2>5. /\ NotParkedIsExact'
        /\ notParked' \in [Level -> Int] /\ at' \in [AllThread -> SUBSET Level]
        /\ at'[t] = AtSafepointBits(level[t])
        /\ \A v \in AllThread : v # t => at'[v] = at[v]
    BY <2>3, <2>4, EnterCounts, ZenonT(30)
  <2> QED BY <2>2, <2>3, <2>5, TakeLevelInv, Zenon
<1>4. CASE SafepointThreadsWoken(t)
  <2>1. /\ place[t] = "waitOwner" /\ LockFree(t) /\ TakeLevel(t)
        /\ UNCHANGED <<level, req, active, scopes, at, notParked>>
    BY <1>4, Zenon DEF SafepointThreadsWoken, bits
  <2>2. ~(Len(scopes[t]) > 1)
    BY ZenonT(30), <1>0, <2>1 DEF ScopesOK
  <2>3. Len(scopes[t]) = 1
    BY <1>1, <2>2, OneOrMore, Zenon
  <2>4. at[t] = AtSafepointBits(level[t])
    BY <1>0, <2>1, Zenon DEF BitsOK, Unparked
  <2>5. NotParkedIsExact'
    BY <2>1, Zenon DEF NotParkedIsExact
  <2>6. at' \in [AllThread -> SUBSET Level] /\ notParked' \in [Level -> Int]
    BY <2>1, Zenon DEF TypeOK
  <2> QED BY Zenon, <2>1, <2>3, <2>4, <2>5, <2>6, TakeLevelInv
<1> QED BY <1>2, <1>3, <1>4, Zenon

-----------------------------------------------------------------------------

(* A thread inside SafepointThreads or ResumeThreads with one scope.       *)
LEMMA OutermostFacts ==
  ASSUME IInv, NEW t \in Thread,
         place[t] \in {"notify", "waitParked", "lower", "continue"}
  PROVE  /\ t \in AllThread /\ t # NoThread /\ t \in active /\ scopes[t] # <<>>
         /\ Top(t) \in Level /\ Outer(t) = Top(t)
         /\ Len(scopes[t]) = 1 /\ ~(Len(scopes[t]) > 1)
         /\ ~Nested(t) /\ ~Unparked(t)
         /\ \A l \in Level : owner[l] = t <=> l = Top(t)
         /\ count[Top(t)] = 1
<1> USE DEF IInv
<1>1. t \in AllThread /\ t # NoThread /\ scopes[t] # <<>> /\ ~(Len(scopes[t]) > 1)
  BY SafepointAssumption, Zenon DEF AllThread, ScopesOK
<1>2. /\ Len(scopes[t]) \in Nat /\ Len(scopes[t]) >= 1 /\ Top(t) \in Level /\ t \in active
      /\ Len(scopes[t]) = 1 => Top(t) = Outer(t)
  BY <1>1, ScopeFacts, Zenon
<1>3. Len(scopes[t]) = 1
  BY <1>1, <1>2, OneOrMore, Zenon
<1>4. ~Nested(t) /\ ~Unparked(t)
  BY Zenon DEF Nested, Unparked
<1>5. Outer(t) = Top(t)
  BY <1>2, <1>3, Zenon
<1>6. (\A l \in Level : owner[l] = t <=> l = Top(t)) /\ count[Top(t)] = 1
  BY <1>4, <1>5, Zenon DEF OwnerOK, CountOK
<1> QED BY ZenonT(30), <1>1, <1>2, <1>3, <1>4, <1>5, <1>6

(* One thread is asked for the level.                                      *)
LEMMA RequestInv ==
  ASSUME IInv, NEW t \in Thread, NEW u \in Thread, RequestSafepoint(t, u)
  PROVE  IInv'
<1> USE DEF IInv, handlers
<1> DEFINE k == Top(t)
<1>0. /\ place[t] = "notify" /\ threads_lock = t /\ u \in todo /\ todo' = todo \ {u}
      /\ UNCHANGED <<place, level, at, active, scopes, threads_lock, waiting, owner, count>>
  BY Zenon DEF RequestSafepoint
<1>1. /\ t \in AllThread /\ t # NoThread /\ k \in Level /\ Outer(t) = k /\ count[k] = 1
      /\ \A l \in Level : owner[l] = t <=> l = k
  BY <1>0, OutermostFacts, Zenon
<1>2. u \in active /\ u # t /\ u \in AllThread /\ u # NoThread
  BY <1>0, <1>1, SafepointAssumption, Zenon DEF LockOK, AllThread
<1>3. /\ req' \in [AllThread -> SUBSET Level]
      /\ req'[u] = req[u] \cup {k}
      /\ \A v \in AllThread : v # u => req'[v] = req[v]
  BY Zenon, <1>1, <1>2 DEF RequestSafepoint, TypeOK
<1>4. k \notin req[u]
  BY <1>0, <1>1 DEF ReqOK, Asked
<1>5. IsAtSafepoint(k, at[u]) <=> k \in at[u]
  <2>1. level[u] \in Level /\ (at[u] = {} \/ at[u] = AtSafepointBits(level[u]))
    BY <1>2, Zenon DEF BitsOK, TypeOK
  <2> QED BY <1>1, <2>1, LevelFacts DEF IsAtSafepoint, AtSafepointBits
<1>6. /\ notParked' \in [Level -> Int]
      /\ \A l \in Level : notParked'[l] =
            IF l = k /\ k \notin at[u] THEN notParked[l] + 1 ELSE notParked[l]
  <2>1. notParked \in [Level -> Int]
    BY Zenon DEF TypeOK
  <2>2. notParked' = [notParked EXCEPT ![k] = @ + IF k \in at[u] THEN 0 ELSE 1]
    BY <1>5, Zenon DEF RequestSafepoint
  <2> HIDE DEF k
  <2> QED BY <1>1, <2>1, <2>2
<1> HIDE DEF k
<1>7. NotParkedIsExact'
  <2> SUFFICES ASSUME NEW l \in Level
               PROVE  notParked'[l] = Cardinality(Missing(l)')
    BY Zenon DEF NotParkedIsExact, Missing
  <2>1. notParked[l] = Cardinality(Missing(l)) /\ Missing(l) \in SUBSET Thread
    BY Zenon DEF NotParkedIsExact, Missing
  <2>2. CASE l = k /\ k \notin at[u]
    <3>1. Missing(l)' = Missing(l) \cup {u} /\ u \in Thread \ Missing(l)
      BY <1>0, <1>2, <1>3, <1>4, <2>2, Zenon DEF Missing, AllThread
    <3>2. Cardinality(Missing(l) \cup {u}) = Cardinality(Missing(l)) + 1
      BY <2>1, <3>1, SubsetCounts, Zenon
    <3> QED BY <1>6, <2>1, <2>2, <3>1, <3>2, Zenon
  <2>3. CASE ~(l = k /\ k \notin at[u])
    <3>1. Missing(l)' = Missing(l)
      BY <1>0, <1>2, <1>3, <2>3, Zenon DEF Missing, AllThread
    <3> QED BY <1>6, <2>1, <2>3, <3>1, Zenon
  <2> QED BY <2>2, <2>3, Zenon
<1>8. OwnStep(t)
  <2>1. todo' \in SUBSET Thread /\ todo' \subseteq active \ {t}
    BY <1>0, <1>1, Zenon DEF TypeOK, LockOK
  <2> QED BY <1>0, <1>1, <1>3, <1>6, <2>1, Zenon DEF OwnStep, TypeOK
<1>9. Outer(t)' = k
  BY <1>0, <1>1, Zenon DEF Outer
<1>10. OwnLevels(t)
  <2>1. ASSUME NEW w \in Thread, NEW l \in Level, owner[l] = t
        PROVE  l \in req'[w] <=> Asked(w, l)'
    <3>1. l = k /\ l = Outer(t) /\ owner'[l] = t
      BY <1>0, <1>1, <2>1, Zenon
    <3>2. Asked(w, l)' <=> w \in active /\ w # t /\ w \notin todo'
      BY Zenon, <1>0, <1>1, <1>9, <3>1, SafepointAssumption DEF Asked
    <3>3. Asked(w, l) <=> w \in active /\ w # t /\ w \notin todo
      BY ZenonT(30), <1>0, <1>1, <2>1, <3>1, SafepointAssumption DEF Asked
    <3>4. CASE w = u
      BY SMTT(30), <1>0, <1>2, <1>3, <3>1, <3>2, <3>4
    <3>5. CASE w # u
      <4>1. req'[w] = req[w]
        BY <1>3, <3>5, Zenon DEF AllThread
      <4> QED BY Zenon, <1>0, <3>2, <3>3, <3>5, <4>1 DEF ReqOK
    <3> QED BY <3>4, <3>5, Zenon
  <2>2. ASSUME NEW w \in Thread, NEW l \in Level, owner[l] # t
        PROVE  l \in req'[w] <=> l \in req[w]
    BY <1>1, <1>3, <2>2, Zenon DEF AllThread
  <2>3. ASSUME NEW w \in Thread, NEW l \in Level, owner[l] = NoThread
        PROVE  l \notin req[w] /\ ~Asked(w, l)'
    BY <1>0, <2>3, Zenon DEF ReqOK, Asked
  <2> QED BY <1>0, <1>1, <2>1, <2>2, <2>3, Zenon DEF OwnLevels
<1>11. ThreadInv(t)'
  <2>1. at'[t] = IF Unparked(t)' THEN {} ELSE AtSafepointBits(level'[t])
    BY <1>0, Zenon DEF BitsOK, Unparked
  <2>2. scopes'[t] # <<>> /\ ~(Len(scopes'[t]) > 1) /\ place'[t] = "notify"
    BY <1>0, OutermostFacts, Zenon
  <2>3. \A i \in 1 .. Len(scopes'[t]) : scopes'[t][i] <= Outer(t)'
    BY <1>0, <1>1, <1>9, Zenon DEF ScopesOK
  <2>4. ~Nested(t)' /\ ~Holds(t)'
    BY <1>0, Zenon DEF Nested, Holds
  <2>5. \A l \in Level : owner'[l] = t <=> l = Outer(t)'
    BY <1>0, <1>1, <1>9, Zenon
  <2>6. count'[Outer(t)'] = 1
    BY <1>0, <1>1, <1>9, Zenon
  <2> QED BY ZenonT(30), <2>1, <2>2, <2>3, <2>4, <2>5, <2>6 DEF ThreadInv
<1> QED BY ZenonT(30), <1>0, <1>7, <1>8, <1>10, <1>11, OwnStepInv

-----------------------------------------------------------------------------
(* All were asked, and the count says that all have stopped.               *)
LEMMA WaitInv ==
  ASSUME IInv, NEW t \in Thread,
         AllRequested(t) \/ WaitUntilThreadsReachedSafepointLevel(t)
  PROVE  IInv'
<1> USE DEF IInv, Move, lock, handlers, bits
<1> DEFINE k == Top(t)
<1>0. /\ place[t] \in {"notify", "waitParked"}
      /\ UNCHANGED <<level, at, req, active, scopes, waiting, todo, owner, count, notParked>>
      /\ place' = [place EXCEPT ![t] = IF place[t] = "notify" THEN "waitParked" ELSE "lower"]
      /\ IF place[t] = "notify" THEN threads_lock = t /\ threads_lock' = NoThread /\ todo = {}
                                ELSE threads_lock' = threads_lock /\ notParked[k] = 0
  BY Zenon DEF AllRequested, WaitUntilThreadsReachedSafepointLevel
<1>1. /\ t \in AllThread /\ t # NoThread /\ k \in Level /\ Outer(t) = k /\ count[k] = 1
      /\ \A l \in Level : owner[l] = t <=> l = k
      /\ scopes[t] # <<>> /\ ~(Len(scopes[t]) > 1) /\ ~Unparked(t)
  BY <1>0, OutermostFacts, Zenon
<1>2. /\ place' \in [AllThread -> Place] /\ place'[t] \in {"waitParked", "lower"}
      /\ place[t] = "notify" => place'[t] = "waitParked"
      /\ \A v \in AllThread : v # t => place'[v] = place[v]
  BY <1>0, <1>1, Zenon DEF TypeOK, Place
<1> HIDE DEF k
<1>3. OwnStep(t)
  BY <1>0, <1>1, <1>2, Zenon DEF OwnStep, TypeOK
<1>4. Outer(t)' = k
  BY <1>0, <1>1, Zenon DEF Outer
<1>5. OwnLevels(t)
  <2>1. ASSUME NEW u \in Thread, NEW l \in Level, owner[l] = t
        PROVE  Asked(u, l)' <=> Asked(u, l)
    BY ZenonT(30), <1>0, <1>1, <1>2, <1>4, <2>1 DEF Asked
  <2> QED BY ZenonT(30), <1>0, <1>3, <2>1, SameLevels
<1>6. \A u \in Thread : Holds(t)' /\ k \in req[u] => k \in at[u]
  <2>1. CASE place[t] = "notify"
    BY <1>2, <2>1, Zenon DEF Holds, Nested
  <2>2. CASE place[t] # "notify"
    <3>1. Cardinality(Missing(k)) = 0 /\ Missing(k) \in SUBSET Thread
      BY <1>0, <1>1, <2>2, Zenon DEF NotParkedIsExact, Missing
    <3>2. Missing(k) = {}
      BY <3>1, SubsetCounts, Zenon
    <3> QED BY <3>2, Zenon DEF Missing
  <2> QED BY <2>1, <2>2, Zenon
<1>7. ThreadInv(t)'
  <2>1. ~Unparked(t)' /\ ~Nested(t)'
    BY <1>2, Zenon DEF Unparked, Nested
  <2>2. at'[t] = AtSafepointBits(level'[t])
    BY <1>0, <1>1, Zenon DEF BitsOK
  <2>3. scopes'[t] # <<>> /\ ~(Len(scopes'[t]) > 1)
    BY <1>0, <1>1, Zenon
  <2>4. \A i \in 1 .. Len(scopes'[t]) : scopes'[t][i] <= Outer(t)'
    BY <1>0, <1>1, <1>4, Zenon DEF ScopesOK
  <2>5. \A l \in Level : owner'[l] = t <=> l = Outer(t)'
    BY <1>0, <1>1, <1>4, Zenon
  <2>6. count'[Outer(t)'] = 1
    BY <1>0, <1>1, <1>4, Zenon
  <2>7. \A u \in Thread : Holds(t)' /\ Outer(t)' \in req'[u] => Outer(t)' \in at'[u]
    BY <1>0, <1>4, <1>6, Zenon
  <2> QED BY ZenonT(30), <1>2, <2>1, <2>2, <2>3, <2>4, <2>5, <2>6, <2>7 DEF ThreadInv
<1>8. NotParkedIsExact'
  BY <1>0, Zenon DEF NotParkedIsExact
<1> QED BY ZenonT(30), <1>0, <1>3, <1>5, <1>7, <1>8, OwnStepInv

(* The operation begins: its thread takes the lower levels as well.        *)
LEMMA LowerInv ==
  ASSUME IInv, NEW t \in Thread, AcquireLowerLevelSafepoints(t)
  PROVE  IInv'
<1> USE DEF IInv, Move, handlers
<1> DEFINE k == Top(t)
<1>0. /\ place[t] = "lower" /\ threads_lock = NoThread /\ todo = {}
      /\ UNCHANGED <<level, at, req, active, scopes, threads_lock, todo, notParked>>
  BY Zenon DEF AcquireLowerLevelSafepoints, LockFree, LockOK, bits
<1>1. /\ t \in AllThread /\ t # NoThread /\ k \in Level /\ Outer(t) = k /\ count[k] = 1
      /\ \A l \in Level : owner[l] = t <=> l = k
      /\ scopes[t] # <<>> /\ Len(scopes[t]) = 1 /\ ~(Len(scopes[t]) > 1) /\ ~Unparked(t)
  BY <1>0, OutermostFacts, Zenon
<1>2. CASE \E l \in Lower(k) : SafepointInProgress(l)
  <2>1. UNCHANGED <<place, owner, count>> /\ waiting' \in SUBSET Thread
    BY <1>2, Zenon DEF AcquireLowerLevelSafepoints, TypeOK
  <2>2. TypeOK' /\ BitsOK' /\ ScopesOK' /\ LockOK'
    BY <1>0, <2>1, Zenon DEF TypeOK, BitsOK, ScopesOK, LockOK, Unparked, Outer
  <2>3. OwnerOK' /\ ReqOK' /\ ParkedOK' /\ LowerFree'
    BY <1>0, <2>1 DEF OwnerOK, ReqOK, Asked, ParkedOK, LowerFree, Outer, Nested, Holds
  <2>4. CountOK' /\ NotParkedIsExact'
    BY <1>0, <2>1 DEF CountOK, NotParkedIsExact, Outer, Nested, Counted
  <2> QED BY <2>2, <2>3, <2>4, Zenon
<1>3. CASE ~(\E l \in Lower(k) : SafepointInProgress(l))
  <2>1. /\ place' = [place EXCEPT ![t] = "op"] /\ waiting' = waiting
        /\ owner' = [l \in Level |-> IF l \in Lower(k) THEN t ELSE owner[l]]
        /\ count' = [l \in Level |-> IF l \in Lower(k) THEN 1 ELSE count[l]]
        /\ \A l \in Level : l < k => owner[l] = NoThread
    BY <1>3, Zenon DEF AcquireLowerLevelSafepoints, Lower, SafepointInProgress
  <2> HIDE DEF k
  <2>2. /\ place' \in [AllThread -> Place] /\ place'[t] = "op"
        /\ \A v \in AllThread : v # t => place'[v] = place[v]
    BY <1>1, <2>1, Zenon DEF TypeOK, Place
  <2>3. /\ owner' \in [Level -> Thread \cup {NoThread}] /\ count' \in [Level -> Nat]
        /\ \A l \in Level : owner'[l] = IF l < k THEN t ELSE owner[l]
        /\ \A l \in Level : count'[l] = IF l < k THEN 1 ELSE count[l]
    BY <2>1, Zenon DEF TypeOK, Lower
  <2>4. OwnStep(t)
    BY ZenonT(30), <1>0, <1>1, <2>1, <2>2, <2>3 DEF OwnStep, TypeOK
  <2>5. Outer(t)' = k /\ Nested(t)' /\ ~Unparked(t)'
    BY <1>0, <1>1, <2>2, Zenon DEF Outer, Nested, Unparked
  <2>6. OwnLevels(t)
    <3>1. ASSUME NEW u \in Thread, NEW l \in Level, owner[l] = t
          PROVE  l \in req'[u] <=> Asked(u, l)'
      <4>1. l = k /\ owner'[l] = t
        BY ZenonT(30), <1>1, <2>3, <3>1, LevelFacts
      <4>2. Asked(u, l)' <=> Asked(u, l)
        BY ZenonT(30), <1>0, <1>1, <2>2, <2>5, <3>1, <4>1 DEF Asked
      <4> QED BY <1>0, <4>2, Zenon DEF ReqOK
    <3>2. ASSUME NEW u \in Thread, NEW l \in Level, owner[l] = NoThread
          PROVE  l \in req'[u] <=> Asked(u, l)'
      <4>1. l \notin req[u]
        BY <3>2, Zenon DEF ReqOK, Asked
      <4>2. CASE l < k
        BY SMTT(30), <1>0, <1>1, <2>3, <2>5, <4>1, <4>2, LevelFacts DEF Asked
      <4>3. CASE ~(l < k)
        BY <1>0, <2>3, <3>2, <4>1, <4>3, Zenon DEF Asked
      <4> QED BY <4>2, <4>3, Zenon
    <3>3. \A l \in Level : owner[l] \notin {NoThread, t} =>
             owner'[l] = owner[l] /\ count'[l] = count[l]
      BY <2>1, <2>3, Zenon
    <3>4. \A l \in Level : owner[l] \in {NoThread, t} => owner'[l] \in {NoThread, t}
      BY <2>3, Zenon
    <3> QED BY ZenonT(30), <1>0, <3>1, <3>2, <3>3, <3>4 DEF OwnLevels
  <2>7. ASSUME NEW l \in Level, l <= k
        PROVE  count'[l] = Cardinality(Counted(t, l)') + IF l = k THEN 0 ELSE 1
    <3>1. Counted(t, l)' = {i \in {1} : l = k}
      <4>1. Counted(t, l)' = {i \in 1 .. 1 : scopes[t][i] = l}
        BY <1>0, <1>1, <2>2, Zenon DEF Counted
      <4> QED BY <1>1, <4>1 DEF Outer
    <3>2. CASE l = k
      <4>1. Counted(t, l)' = {1}
        BY <3>1, <3>2, Zenon
      <4>2. Cardinality({1}) = 1
        BY FS_Singleton, Zenon
      <4> QED BY <1>1, <2>3, <3>2, <4>1, <4>2, LevelFacts
    <3>3. CASE l # k
      <4>1. Counted(t, l)' = {}
        BY <3>1, <3>3, Zenon
      <4>2. Cardinality({}) = 0
        BY FS_EmptySet, Zenon
      <4> QED BY <1>1, <2>3, <2>7, <3>3, <4>1, <4>2, LevelFacts
    <3> QED BY <3>2, <3>3, Zenon
  <2>8. ThreadInv(t)'
    <3>1. at'[t] = AtSafepointBits(level'[t])
      BY <1>0, <1>1, Zenon DEF BitsOK
    <3>2. scopes'[t] # <<>>
      BY <1>0, <1>1, Zenon
    <3>3. \A i \in 1 .. Len(scopes'[t]) : scopes'[t][i] <= Outer(t)'
      BY <1>0, <1>1, <2>5, Zenon DEF ScopesOK
    <3>4. \A l \in Level : owner'[l] = t <=> l <= Outer(t)'
      BY <1>1, <2>1, <2>3, <2>5, LevelFacts
    <3>5. \A u \in Thread : Outer(t)' \in req'[u] => Outer(t)' \in at'[u]
      BY <1>0, <1>1, <2>5, Zenon DEF ParkedOK, Holds
    <3>6. \A l \in Level : l <= Outer(t)' =>
             count'[l] = Cardinality(Counted(t, l)') + IF l = Outer(t)' THEN 0 ELSE 1
      BY <2>5, <2>7, Zenon
    <3> QED BY <2>2, <2>5, <3>1, <3>2, <3>3, <3>4, <3>5, <3>6, ZenonT(30) DEF ThreadInv
  <2>9. NotParkedIsExact'
    BY <1>0, Zenon DEF NotParkedIsExact
  <2> QED BY Zenon, <1>0, <2>4, <2>6, <2>8, <2>9, OwnStepInv
<1> QED BY <1>2, <1>3, Zenon

-----------------------------------------------------------------------------

(* The outermost operation ends: the lower levels are released first.      *)
LEMMA ResumeInv ==
  ASSUME IInv, NEW t \in Thread, ResumeThreads(t)
  PROVE  IInv'
<1> USE DEF IInv, Move, handlers
<1> DEFINE k == Top(t)
<1>1. CASE count[Top(t)] > 1
  BY <1>1, NestedResumeInv, Zenon
<1>2. CASE ~(count[Top(t)] > 1)
  <2>0. /\ place[t] = "op" /\ threads_lock = NoThread /\ todo = {} /\ threads_lock' = t
        /\ UNCHANGED <<level, at, req, active, scopes, waiting, notParked>>
        /\ place' = [place EXCEPT ![t] = "continue"]
        /\ todo' = active \ ({t} \cup Helper)
        /\ owner' = [l \in Level |-> IF l \in Lower(k) THEN NoThread ELSE owner[l]]
        /\ count' = [l \in Level |-> IF l \in Lower(k) THEN 0 ELSE count[l]]
    BY <1>2, Zenon DEF ResumeThreads, LockFree, LockOK, bits
  <2>1. scopes[t] # <<>> /\ ~(Len(scopes[t]) > 1) /\ (Len(scopes[t]) = 1 => count[k] = 1)
    BY <1>2, <2>0, ResumeDepth, Zenon
  <2>2. Len(scopes[t]) \in Nat /\ Len(scopes[t]) >= 1
    BY <2>1, ScopeFacts, Zenon
  <2>3. Len(scopes[t]) = 1
    BY <2>1, <2>2, OneOrMore, Zenon
  <2>4. /\ t \in AllThread /\ t # NoThread /\ k \in Level /\ Outer(t) = k /\ count[k] = 1
        /\ t \in active /\ Nested(t) /\ ~Unparked(t)
        /\ \A l \in Level : owner[l] = t <=> l <= k
    <3>1. t \in AllThread /\ t # NoThread /\ k \in Level /\ Outer(t) = k /\ t \in active
      BY <2>1, <2>3, ScopeFacts, SafepointAssumption, Zenon DEF AllThread
    <3>2. Nested(t) /\ ~Unparked(t)
      BY <2>0, Zenon DEF Nested, Unparked
    <3> QED BY <2>0, <2>1, <2>3, <3>1, <3>2 DEF OwnerOK
  <2> HIDE DEF k
  <2>5. /\ place' \in [AllThread -> Place] /\ place'[t] = "continue"
        /\ \A v \in AllThread : v # t => place'[v] = place[v]
    BY <2>0, <2>4, Zenon DEF TypeOK, Place
  <2>6. /\ owner' \in [Level -> Thread \cup {NoThread}] /\ count' \in [Level -> Nat]
        /\ \A l \in Level : owner'[l] = IF l < k THEN NoThread ELSE owner[l]
        /\ \A l \in Level : count'[l] = IF l < k THEN 0 ELSE count[l]
    BY <2>0, Zenon DEF TypeOK, Lower
  <2>7. todo' \in SUBSET Thread /\ todo' \subseteq active \ {t}
    BY <2>0, Zenon DEF TypeOK, AllThread
  <2>8. OwnStep(t)
    BY <2>0, <2>4, <2>5, <2>6, <2>7, Zenon DEF OwnStep, TypeOK
  <2>9. Outer(t)' = k /\ ~Nested(t)' /\ ~Unparked(t)'
    BY <2>0, <2>4, <2>5, Zenon DEF Outer, Nested, Unparked
  <2>10. \A l \in Level : owner'[l] = t <=> l = k
    BY <2>4, <2>6, LevelFacts
  <2>11. OwnLevels(t)
    <3>1. ASSUME NEW u \in Thread, NEW l \in Level, owner[l] = t
          PROVE  l \in req'[u] <=> Asked(u, l)'
      <4>1. CASE l = k
        <5>1. u \in active /\ u # t => u \in todo'
          BY <2>0, SafepointAssumption, Zenon
        <5>2. Asked(u, l)' <=> Asked(u, l)
          BY <2>0, <2>4, <2>5, <2>9, <2>10, <3>1, <4>1, <5>1, ZenonT(30) DEF Asked
        <5> QED BY <2>0, <5>2, Zenon DEF ReqOK
      <4>2. CASE l # k
        <5>1. l \notin req[u]
          BY <2>4, <3>1, <4>2, Zenon DEF ReqOK, Asked
        <5>2. owner'[l] = NoThread
          BY <2>4, <2>6, <3>1, <4>2, LevelFacts
        <5> QED BY <2>0, <5>1, <5>2, Zenon DEF Asked
      <4> QED BY <4>1, <4>2, Zenon
    <3>2. ASSUME NEW u \in Thread, NEW l \in Level, owner[l] = NoThread
          PROVE  l \notin req[u] /\ ~Asked(u, l)'
      BY <2>6, <3>2, Zenon DEF ReqOK, Asked
    <3>3. \A l \in Level : owner[l] \notin {NoThread, t} =>
             owner'[l] = owner[l] /\ count'[l] = count[l]
      BY <2>4, <2>6, LevelFacts
    <3>4. \A l \in Level : owner[l] \in {NoThread, t} => owner'[l] \in {NoThread, t}
      BY <2>6, Zenon
    <3> QED BY <2>0, <3>1, <3>2, <3>3, <3>4, Zenon DEF OwnLevels
  <2>12. ThreadInv(t)'
    <3>1. at'[t] = AtSafepointBits(level'[t])
      BY <2>0, <2>4, Zenon DEF BitsOK
    <3>2. scopes'[t] # <<>> /\ ~(Len(scopes'[t]) > 1)
      BY <2>0, <2>1, Zenon
    <3>3. \A i \in 1 .. Len(scopes'[t]) : scopes'[t][i] <= Outer(t)'
      BY <2>0, <2>4, <2>9 DEF ScopesOK
    <3>4. \A l \in Level : owner'[l] = t <=> l = Outer(t)'
      BY <2>9, <2>10, Zenon
    <3>5. \A u \in Thread : Outer(t)' \in req'[u] => Outer(t)' \in at'[u]
      BY <2>0, <2>4, <2>9, Zenon DEF ParkedOK, Holds
    <3>6. \A l \in Level : l < Outer(t)' => owner'[l] = NoThread
      BY <2>6, <2>9, Zenon
    <3>7. count'[Outer(t)'] = 1
      BY <2>4, <2>6, <2>9, LevelFacts
    <3> QED BY <2>5, <2>9, <3>1, <3>2, <3>3, <3>4, <3>5, <3>6, <3>7, ZenonT(30) DEF ThreadInv
  <2>13. NotParkedIsExact'
    BY <2>0, Zenon DEF NotParkedIsExact
  <2> QED BY <2>0, <2>8, <2>11, <2>12, <2>13, OwnStepInv, Zenon
<1> QED BY <1>1, <1>2, Zenon

(* The level is released once all were told to continue.                   *)
LEMMA AllContinueInv ==
  ASSUME IInv, NEW t \in Thread, AllContinue(t)
  PROVE  IInv'
<1> USE DEF IInv, Move, bits
<1> DEFINE k == Top(t)
<1>0. /\ place[t] = "continue" /\ threads_lock = t /\ todo = {}
      /\ threads_lock' = NoThread /\ waiting' = {}
      /\ UNCHANGED <<level, at, req, active, todo, notParked>>
      /\ place' = [place EXCEPT ![t] = "exit"]
      /\ scopes' = [scopes EXCEPT ![t] = SubSeq(@, 1, Len(@) - 1)]
      /\ owner' = [owner EXCEPT ![k] = NoThread]
      /\ count' = [count EXCEPT ![k] = 0]
  BY Zenon DEF AllContinue, Pop
<1>1. /\ t \in AllThread /\ t # NoThread /\ k \in Level /\ Outer(t) = k
      /\ \A l \in Level : owner[l] = t <=> l = k
      /\ Len(scopes[t]) = 1 /\ ~Unparked(t)
  BY <1>0, OutermostFacts, Zenon
<1> HIDE DEF k
<1>2. /\ place' \in [AllThread -> Place] /\ place'[t] = "exit"
      /\ \A v \in AllThread : v # t => place'[v] = place[v]
  BY <1>0, <1>1, Zenon DEF TypeOK, Place
<1>3. scopes'[t] = <<>>
  <2>1. scopes'[t] = SubSeq(scopes[t], 1, Len(scopes[t]) - 1)
    BY <1>0, <1>1, Zenon DEF TypeOK
  <2>2. Len(scopes[t]) - 1 = 0
    BY <1>1
  <2>3. scopes'[t] = SubSeq(scopes[t], 1, 0)
    BY <2>1, <2>2, Zenon
  <2> QED BY <1>1, <2>3 DEF TypeOK
<1>4. /\ scopes' \in [AllThread -> Seq(Level)]
      /\ \A v \in AllThread : v # t => scopes'[v] = scopes[v]
  BY <1>0, <1>1, <1>3 DEF TypeOK
<1>5. /\ owner' \in [Level -> Thread \cup {NoThread}] /\ count' \in [Level -> Nat]
      /\ \A l \in Level : owner'[l] = IF l = k THEN NoThread ELSE owner[l]
      /\ \A l \in Level : count'[l] = IF l = k THEN 0 ELSE count[l]
  BY <1>0, <1>1, Zenon DEF TypeOK
<1>6. OwnStep(t)
  BY <1>0, <1>1, <1>2, <1>4, <1>5, Zenon DEF OwnStep, TypeOK
<1>7. OwnLevels(t)
  <2>1. ASSUME NEW u \in Thread, NEW l \in Level, owner[l] \in {NoThread, t}
        PROVE  l \notin req[u] /\ ~Asked(u, l)' /\ owner'[l] = NoThread
    <3>1. owner'[l] = NoThread
      BY <1>1, <1>5, <2>1, Zenon
    <3>2. ~Asked(u, l)
      BY <1>0, <1>1, <2>1, ZenonT(30) DEF Asked
    <3> QED BY <3>1, <3>2, Zenon DEF ReqOK, Asked
  <2> QED BY <1>0, <1>1, <1>5, <2>1, Zenon DEF OwnLevels
<1>8. ThreadInv(t)'
  <2>1. at'[t] = AtSafepointBits(level'[t])
    BY <1>0, <1>1, Zenon DEF BitsOK
  <2>2. ~Nested(t)' /\ ~Unparked(t)' /\ ~Holds(t)'
    BY <1>2, Zenon DEF Nested, Unparked, Holds
  <2>3. Len(scopes'[t]) = 0
    BY <1>3
  <2>4. ~(Len(scopes'[t]) > 1) /\ 1 .. Len(scopes'[t]) = {}
    BY <2>3
  <2>5. \A l \in Level : owner'[l] # t
    BY <1>1, <1>5, Zenon
  <2> QED BY ZenonT(30), <1>2, <1>3, <2>1, <2>2, <2>4, <2>5 DEF ThreadInv
<1>9. NotParkedIsExact'
  BY <1>0, Zenon DEF NotParkedIsExact
<1> QED BY <1>0, <1>6, <1>7, <1>8, <1>9, OwnStepInv, Zenon

(* One thread is told to continue.  It was at the safepoint, and nobody    *)
(* owns a lower level, so that no request of another is lost.              *)
LEMMA ContinueInv ==
  ASSUME IInv, NEW t \in Thread, NEW u \in Thread, ContinueThread(t, u)
  PROVE  IInv'
<1> USE DEF IInv, Move, handlers
<1> DEFINE k == Top(t)
<1>0. /\ place[t] = "continue" /\ threads_lock = t /\ u \in todo /\ todo' = todo \ {u}
      /\ UNCHANGED <<level, at, active, scopes, threads_lock, waiting, owner, count, notParked>>
      /\ req' = [req EXCEPT ![u] = @ \ AtSafepointBits(k)]
      /\ IF place[u] \in {"asleep", "woken"} THEN place' = [place EXCEPT ![u] = "woken"]
                                             ELSE place' = place
  BY Zenon DEF ContinueThread, IsBlockedForSafepoint
<1>1. /\ t \in AllThread /\ t # NoThread /\ k \in Level /\ Outer(t) = k
      /\ \A l \in Level : owner[l] = t <=> l = k
  BY <1>0, OutermostFacts, Zenon
<1> HIDE DEF k
<1>2. u \in active /\ u # t /\ u \in AllThread /\ u # NoThread
  BY <1>0, <1>1, SafepointAssumption, Zenon DEF LockOK, AllThread
<1>3. \A l \in Level : l < k => owner[l] = NoThread
  BY <1>0, <1>1, Zenon DEF LowerFree
<1>4. \A v \in AllThread : place'[v] = IF v = u /\ place[u] \in {"asleep", "woken"}
                                       THEN "woken" ELSE place[v]
  BY <1>0, Zenon DEF TypeOK
<1>5. /\ place' \in [AllThread -> Place]
      /\ ScopesOK' /\ OwnerOK' /\ LowerFree' /\ CountOK'
      /\ \A v \in AllThread : threads_lock' = v <=> place'[v] \in {"notify", "continue"}
      /\ \A v \in Thread : Holds(v)' <=> Holds(v)
      /\ \A v \in Thread : Outer(v)' = Outer(v)
  <2>1. CASE place[u] \in {"asleep", "woken"}
    BY ZenonT(30), <1>0, <1>2, <2>1, OrdinaryFrame DEF Ordinary
  <2>2. CASE place[u] \notin {"asleep", "woken"}
    <3>1. /\ place' \in [AllThread -> Place]
          /\ \A v \in AllThread : threads_lock' = v <=> place'[v] \in {"notify", "continue"}
      BY <1>0, <2>2, Zenon DEF TypeOK, LockOK
    <3>2. ScopesOK' /\ OwnerOK' /\ LowerFree'
      BY <1>0, <2>2 DEF ScopesOK, OwnerOK, LowerFree, Outer, Nested
    <3>3. CountOK'
      BY <1>0, <2>2 DEF CountOK, Outer, Nested, Counted
    <3>4. \A v \in Thread : (Holds(v)' <=> Holds(v)) /\ Outer(v)' = Outer(v)
      BY <1>0, <2>2, Zenon DEF Holds, Nested, Outer
    <3> QED BY Zenon, <3>1, <3>2, <3>3, <3>4
  <2> QED BY <2>1, <2>2, Zenon
<1>6. /\ req' \in [AllThread -> SUBSET Level]
      /\ \A v \in AllThread : req'[v] = IF v = u THEN req[u] \ AtSafepointBits(k) ELSE req[v]
  BY <1>0, Zenon DEF TypeOK
<1>7. \A l \in Level : l < k => \A w \in Thread : l \notin req[w]
  BY <1>3, Zenon DEF ReqOK, Asked
<1>8. \A w \in Thread, l \in Level : l \in req'[w] <=> l \in req[w] /\ ~(w = u /\ l = k)
  BY <1>1, <1>6, <1>7, LevelFacts DEF AllThread
<1>9. TypeOK'
  <2>1. todo' \in SUBSET Thread
    BY <1>0, Zenon DEF TypeOK
  <2> QED BY <1>0, <1>5, <1>6, <2>1, Zenon DEF TypeOK
<1>10. BitsOK'
  <2>1. \A v \in AllThread : Unparked(v)' <=> Unparked(v)
    BY <1>0, <1>4, Zenon DEF Unparked
  <2>2. \A v \in AllThread : v \in active' <=> place'[v] \notin {"out", "schedule"}
    BY <1>0, <1>4, Zenon DEF BitsOK
  <2>3. \A v \in Helper : place'[v] \in {"out", "run"}
    BY <1>4, SafepointAssumption, Zenon DEF BitsOK, AllThread
  <2> QED BY <1>0, <2>1, <2>2, <2>3, Zenon DEF BitsOK, AllThread
<1>11. LockOK'
  BY <1>0, <1>1, <1>5, Zenon DEF LockOK
<1>12. ReqOK'
  <2> SUFFICES ASSUME NEW w \in Thread, NEW l \in Level
               PROVE  l \in req'[w] <=> Asked(w, l)'
    BY Zenon DEF ReqOK
  <2>1. CASE owner[l] = t
    <3>1. l = k /\ Outer(t)' = k /\ place'[t] = "continue" /\ owner'[l] = t /\ t # NoThread
      BY ZenonT(30), <1>0, <1>1, <1>2, <1>4, <1>5, <2>1
    <3>2. Asked(w, l) <=> w \in active /\ w # t /\ w \in todo
      BY ZenonT(30), <1>0, <1>1, <2>1, <3>1, SafepointAssumption DEF Asked
    <3>3. Asked(w, l)' <=> w \in active /\ w # t /\ w \in todo'
      BY <1>0, <3>1, SafepointAssumption, Zenon DEF Asked
    <3> QED BY <1>0, <1>8, <3>1, <3>2, <3>3, ZenonT(30) DEF ReqOK
  <2>2. CASE owner[l] = NoThread
    <3>1. ~Asked(w, l) /\ ~Asked(w, l)'
      BY <1>0, <2>2, Zenon DEF Asked
    <3> QED BY <1>8, <3>1, Zenon DEF ReqOK
  <2>3. CASE owner[l] \notin {NoThread, t}
    <3>1. owner[l] \in Thread /\ owner[l] \in AllThread /\ l # k
      BY <1>1, <2>3, Zenon DEF TypeOK, AllThread
    <3>2. place[owner[l]] \notin {"notify", "continue"}
          /\ place'[owner[l]] \notin {"notify", "continue"}
      BY Zenon, <1>0, <1>5, <2>3, <3>1 DEF LockOK
    <3>3. Outer(owner[l])' = Outer(owner[l])
      BY <1>0, Zenon DEF Outer
    <3>4. Asked(w, l)' <=> Asked(w, l)
      BY Zenon, <1>0, <3>2, <3>3 DEF Asked
    <3> QED BY Zenon, <1>8, <3>1, <3>4 DEF ReqOK
  <2> QED BY <2>1, <2>2, <2>3, Zenon
<1>13. ParkedOK'
  <2> SUFFICES ASSUME NEW v \in Thread, NEW w \in Thread, Holds(v)', Outer(v)' \in req'[w]
               PROVE  Outer(v)' \in at'[w]
    BY Zenon DEF ParkedOK
  <2>1. req'[w] \subseteq req[w]
    BY <1>6, Zenon DEF AllThread
  <2> QED BY Zenon, <1>0, <1>5, <2>1 DEF ParkedOK
<1>14. NotParkedIsExact'
  <2>1. k \in req[u] => k \in at[u]
    BY <1>0, <1>1, Zenon DEF ParkedOK, Holds
  <2>2. \A l \in Level : Missing(l)' = Missing(l)
    BY Zenon, <1>0, <1>8, <2>1 DEF Missing
  <2> QED BY <1>0, <2>2, Zenon DEF NotParkedIsExact, Missing
<1> QED BY ZenonT(30), <1>5, <1>9, <1>10, <1>11, <1>12, <1>13, <1>14

-----------------------------------------------------------------------------

(* The invariant holds while no thread is scheduled.                       *)
LEMMA InitInv == Init => IInv
<1> SUFFICES ASSUME Init PROVE IInv
  BY Zenon
<1> USE DEF Init
<1>1. \A t \in AllThread : /\ place[t] = "out" /\ scopes[t] = <<>> /\ req[t] = {}
                           /\ at[t] = Level /\ level[t] = kGCAndDeopt
  BY Zenon
<1>2. \A t \in AllThread : ~(Len(scopes[t]) > 1) /\ 1 .. Len(scopes[t]) = {}
  BY <1>1
<1>3. \A t \in AllThread : ~Nested(t) /\ ~Unparked(t) /\ ~Holds(t)
  BY <1>1, Zenon DEF Nested, Unparked, Holds
<1>4. \A l \in Level : owner[l] = NoThread /\ notParked[l] = 0
  BY Zenon
<1>5. TypeOK
  BY LevelFacts DEF TypeOK, Place
<1>6. BitsOK
  BY <1>1, <1>3, LevelFacts, Zenon DEF BitsOK, AllThread
<1>7. ScopesOK
  BY <1>1, <1>2, Zenon DEF ScopesOK
<1>8. LockOK
  BY <1>1, SafepointAssumption, Zenon DEF LockOK, AllThread
<1>9. OwnerOK
  BY <1>1, <1>3, <1>4, SafepointAssumption, Zenon DEF OwnerOK, AllThread
<1>10. ReqOK
  BY <1>1, <1>4, Zenon DEF ReqOK, Asked, AllThread
<1>11. ParkedOK /\ LowerFree /\ CountOK
  BY <1>1, <1>3, Zenon DEF ParkedOK, LowerFree, CountOK, AllThread
<1>12. NotParkedIsExact
  <2>1. \A l \in Level : {u \in Thread : l \in req[u] /\ l \notin at[u]} = {}
    BY <1>1, Zenon DEF AllThread
  <2>2. Cardinality({}) = 0
    BY FS_EmptySet, Zenon
  <2> QED BY <1>4, <2>1, <2>2, Zenon DEF NotParkedIsExact
<1> QED BY ZenonT(30), <1>5, <1>6, <1>7, <1>8, <1>9, <1>10, <1>11, <1>12 DEF IInv

(* Every step keeps it.                                                    *)
LEMMA NextInv == IInv /\ [Next]_vars => IInv'
<1> SUFFICES ASSUME IInv, [Next]_vars PROVE IInv'
  BY Zenon
<1>1. ASSUME NEW t \in Thread, Step(t) PROVE IInv'
  BY SMTT(30), <1>1, EnterInv, ExitInv, SafepointThreadsInv, RequestInv, WaitInv, LowerInv,
     ContinueInv, AllContinueInv DEF Step
<1>2. ASSUME NEW t \in Thread, Choose(t) PROVE IInv'
  BY ZenonT(30), <1>2, EnterInv, ExitInv, RuntimeCallInv, NewScopeInv, ResumeInv DEF Choose
<1>3. ASSUME NEW t \in AllThread, ScheduleThreadLocked(t) \/ UnscheduleThreadLocked(t)
      PROVE  IInv'
  BY <1>3, ScheduleInv, UnscheduleInv, Zenon
<1>4. CASE UNCHANGED vars
  <2> USE <1>4 DEF vars, IInv
  <2>1. TypeOK' /\ BitsOK' /\ ScopesOK' /\ LockOK'
    BY Zenon DEF TypeOK, BitsOK, ScopesOK, LockOK, Unparked, Outer
  <2>2. OwnerOK' /\ ReqOK' /\ ParkedOK' /\ LowerFree'
    BY ZenonT(30) DEF OwnerOK, ReqOK, Asked, ParkedOK, LowerFree, Outer, Nested, Holds
  <2>3. CountOK' /\ NotParkedIsExact'
    BY DEF CountOK, NotParkedIsExact, Outer, Nested, Counted
  <2> QED BY ZenonT(30), <2>1, <2>2, <2>3
<1> QED BY <1>1, <1>2, <1>3, <1>4, Zenon DEF Next

(* It is an invariant.                                                     *)
LEMMA InvariantHolds == Spec => []IInv
BY InitInv, NextInv, PTL DEF Spec

(* For every set of threads and every number and nesting of operations,    *)
(* num_threads_not_parked_ counts exactly the threads that were asked for  *)
(* the level and are not at it.                                            *)
THEOREM NotParkedIsExactHolds == Spec => []NotParkedIsExact
<1>1. IInv => NotParkedIsExact
  BY Zenon DEF IInv
<1> QED BY <1>1, InvariantHolds, PTL

(* The invariant implies that the others have stopped: the operation owns  *)
(* its level and all below it, so that no other thread is in an operation, *)
(* and every active thread was asked for the level and is at it.           *)
LEMMA InvStops == IInv => StoppedDuringOperation
<1> SUFFICES ASSUME IInv, NEW t \in Thread, NEW u \in Thread, place[t] = "op", u # t
             PROVE  /\ place[u] \in Stopped
                    /\ scopes[t][1] = kGCAndDeopt /\ u \in active => level[u] = kGCAndDeopt
  BY Zenon DEF StoppedDuringOperation
<1> USE DEF IInv
<1>1. /\ t \in AllThread /\ u \in AllThread /\ place[u] \in Place /\ level[u] \in Level
      /\ t # NoThread
  BY SafepointAssumption, Zenon DEF AllThread, TypeOK
<1>2. Nested(t) /\ Holds(t) /\ Outer(t) \in Level
  BY <1>1, ScopeFacts, Zenon DEF Nested, Holds, ScopesOK
<1>3. owner[0] = t /\ owner[Outer(t)] = t
  BY <1>2, LevelFacts, Zenon DEF OwnerOK
<1>4. ~Nested(u)
  <2> SUFFICES ASSUME Nested(u) PROVE FALSE
    BY Zenon
  <2>1. Outer(u) \in Level
    BY <1>1, ScopeFacts, Zenon DEF Nested, ScopesOK
  <2> QED BY <1>3, <2>1, LevelFacts, Zenon DEF OwnerOK
<1>5. CASE u \in active
  <2>1. Outer(t) \in req[u]
    BY Zenon, <1>1, <1>2, <1>3, <1>5 DEF ReqOK, Asked
  <2>2. Outer(t) \in at[u]
    BY <1>2, <2>1, Zenon DEF ParkedOK
  <2>3. ~Unparked(u) /\ at[u] = AtSafepointBits(level[u])
    BY <2>2, Zenon DEF BitsOK
  <2>4. place[u] # "start"
    <3> SUFFICES ASSUME place[u] = "start" PROVE FALSE
      BY Zenon
    <3>1. Len(scopes[u]) \in Nat /\ Len(scopes[u]) >= 1
      BY <1>1, ScopeFacts, Zenon DEF ScopesOK
    <3>2. ~(Len(scopes[u]) > 1) /\ Len(scopes[u]) # 1
      BY <1>4, <2>3, Zenon DEF Nested, Unparked
    <3> QED BY <3>1, <3>2, OneOrMore, Zenon
  <2>5. place[u] \in Stopped
    BY SMTT(30), <1>1, <1>4, <2>3, <2>4 DEF Place, Stopped, Nested, Unparked
  <2>6. scopes[t][1] = kGCAndDeopt => level[u] = kGCAndDeopt
    BY <1>1, <2>2, <2>3, LevelFacts DEF Outer
  <2> QED BY <2>5, <2>6, Zenon
<1>6. CASE u \notin active
  BY <1>1, <1>6, Zenon DEF BitsOK, Stopped
<1> QED BY <1>5, <1>6, Zenon

(* For every set of threads and every number and nesting of operations, no *)
(* other thread of the group runs code or an operation of its own while a  *)
(* thread runs its safepoint operation; and none is inside a runtime call  *)
(* without deoptimization while that operation may deoptimize.             *)
THEOREM StoppedDuringOperationHolds == Spec => []StoppedDuringOperation
BY InvariantHolds, InvStops, PTL

=============================================================================
