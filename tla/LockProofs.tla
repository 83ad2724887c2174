----------------------------- MODULE LockProofs -----------------------------
(***************************************************************************)
(* The two locks a thread waits for as a mutator: the safety of RwLock for *)
(* every set of threads and every nesting depth, and the counters and the  *)
(* notifications of MutatorLimit for every number of isolates and every    *)
(* limit.  RwLock's inductive invariant adds to its three properties which *)
(* lockers are live, what a thread on its way to the lock wants, and where *)
(* a thread that is at a safepoint can be.                                 *)
(***************************************************************************)
EXTENDS RwLock, MutatorLimit, TLAPS, FiniteSetTheorems

(* Live lockers fill the stack of their thread from the bottom.            *)
StackOK ==
    \A l \in Locker : (kind[l] = "none") <=> (l[2] > depth[l[1]])

(* Who is on the way to the lock wants one kind and has room for a locker. *)
WantOK ==
    \A t \in Thread : pc[t] \in {"enter", "try", "wait"} =>
        want[t] \in {"read", "write"} /\ depth[t] < MaxDepth

(* Who is at a safepoint, and that the owner of an operation is not.       *)
SafeOK ==
    /\ \A t \in Attached :
          t \in safe <=> pc[t] \in {"parked", "try", "wait", "leave"}
    /\ \A t \in Thread \ Attached : pc[t] \in {"vm", "try", "wait"}
    /\ owner # NoThread => pc[owner] = "vm"
    /\ running => owner # NoThread /\ Attached \ {owner} \subseteq safe

IInv == TypeOK /\ StackOK /\ StateIsExact /\ WantOK /\ NoLostWakeup /\ SafeOK

(* Lockers are finitely many, hence so are readers and writers.            *)
LEMMA LockersFinite ==
  /\ IsFiniteSet(Locker)
  /\ IsFiniteSet(Readers) /\ IsFiniteSet(Writers)
  /\ Cardinality(Readers) \in Nat /\ Cardinality(Writers) \in Nat
<1>1. IsFiniteSet(1 .. MaxDepth)
  BY FS_Interval, RwLockAssumption
<1>2. IsFiniteSet(Locker)
  BY <1>1, FS_Product, RwLockAssumption, Zenon DEF Locker
<1>3. Readers \in SUBSET Locker /\ Writers \in SUBSET Locker
  BY Zenon DEF Readers, Writers
<1>4. IsFiniteSet(Readers) /\ IsFiniteSet(Writers)
  BY <1>2, <1>3, FS_Subset, Zenon
<1> QED BY <1>2, <1>4, FS_CardinalityType, Zenon

(* What a new locker does to the sets of readers and writers.              *)
LEMMA PushSets ==
  ASSUME TypeOK, StackOK, NEW t \in Thread, depth[t] < MaxDepth,
         NEW k \in Kind \ {"none"}, Push(t, k)
  PROVE  /\ kind' \in [Locker -> Kind] /\ depth' \in [Thread -> 0 .. MaxDepth]
         /\ StackOK'
         /\ <<t, depth[t] + 1>> \in Locker
         /\ <<t, depth[t] + 1>> \notin Readers \cup Writers
         /\ Readers' = IF k = "read" THEN Readers \cup {<<t, depth[t] + 1>>}
                                     ELSE Readers
         /\ Writers' = IF k = "write" THEN Writers \cup {<<t, depth[t] + 1>>}
                                      ELSE Writers
<1> DEFINE n == <<t, depth[t] + 1>>
<1>1. n \in Locker /\ n[1] = t /\ n[2] = depth[t] + 1
  BY RwLockAssumption DEF TypeOK, Locker
<1>2. kind[n] = "none"
  BY <1>1 DEF StackOK, TypeOK
<1>3. kind' = [kind EXCEPT ![n] = k] /\ depth' = [depth EXCEPT ![t] = depth[t] + 1]
  BY Zenon DEF Push
<1>4. kind' \in [Locker -> Kind] /\ depth' \in [Thread -> 0 .. MaxDepth]
  BY <1>1, <1>3, RwLockAssumption DEF TypeOK
<1>5. ASSUME NEW l \in Locker
      PROVE  (kind'[l] = "none") <=> (l[2] > depth'[l[1]])
  <2>1. l[1] \in Thread /\ l[2] \in 1 .. MaxDepth /\ l = <<l[1], l[2]>>
    BY DEF Locker
  <2>2. CASE l = n
    BY <1>1, <1>3, <2>2 DEF TypeOK
  <2>3. CASE l # n /\ l[1] = t
    <3>1. l[2] # depth[t] + 1
      BY <2>1, <2>3, Zenon
    <3> QED BY <1>3, <2>1, <2>3, <3>1 DEF TypeOK, StackOK
  <2>4. CASE l[1] # t
    BY <1>1, <1>3, <2>1, <2>4, Zenon DEF TypeOK, StackOK
  <2> QED BY <2>2, <2>3, <2>4, Zenon
<1>6. \A l \in Locker : kind'[l] = IF l = n THEN k ELSE kind[l]
  BY <1>1, <1>3, Zenon DEF TypeOK
<1> HIDE DEF n
<1>7. Readers' = IF k = "read" THEN Readers \cup {n} ELSE Readers
  BY <1>1, <1>2, <1>6, Zenon DEF Readers, Locker
<1>8. Writers' = IF k = "write" THEN Writers \cup {n} ELSE Writers
  BY <1>1, <1>2, <1>6, Zenon DEF Writers, Locker
<1>9. StackOK' /\ n \notin Readers \cup Writers
  BY <1>2, <1>5, Zenon DEF StackOK, Readers, Writers, Locker
<1> QED BY <1>1, <1>4, <1>7, <1>8, <1>9, Zenon DEF n

(* What the end of the innermost locker does to them.                      *)
LEMMA PopSets ==
  ASSUME TypeOK, StackOK, NEW t \in Thread, depth[t] > 0, Pop(t)
  PROVE  /\ kind' \in [Locker -> Kind] /\ depth' \in [Thread -> 0 .. MaxDepth]
         /\ StackOK'
         /\ <<t, depth[t]>> \in Locker
         /\ Readers' = Readers \ {<<t, depth[t]>>}
         /\ Writers' = Writers \ {<<t, depth[t]>>}
         /\ \A s \in Thread : depth'[s] <= depth[s]
<1> DEFINE n == <<t, depth[t]>>
<1>1. n \in Locker /\ n[1] = t /\ n[2] = depth[t]
  BY RwLockAssumption DEF TypeOK, Locker
<1>3. kind' = [kind EXCEPT ![n] = "none"] /\ depth' = [depth EXCEPT ![t] = depth[t] - 1]
  BY Zenon DEF Pop
<1>4. kind' \in [Locker -> Kind] /\ depth' \in [Thread -> 0 .. MaxDepth]
  BY <1>1, <1>3, RwLockAssumption DEF TypeOK, Kind
<1>5. ASSUME NEW l \in Locker
      PROVE  (kind'[l] = "none") <=> (l[2] > depth'[l[1]])
  <2>1. l[1] \in Thread /\ l[2] \in 1 .. MaxDepth /\ l = <<l[1], l[2]>>
    BY DEF Locker
  <2>2. CASE l = n
    BY <1>1, <1>3, <2>2 DEF TypeOK
  <2>3. CASE l # n /\ l[1] = t
    <3>1. l[2] # depth[t]
      BY <2>1, <2>3, Zenon
    <3> QED BY <1>3, <2>1, <2>3, <3>1 DEF TypeOK, StackOK
  <2>4. CASE l[1] # t
    BY <1>1, <1>3, <2>1, <2>4, Zenon DEF TypeOK, StackOK
  <2> QED BY <2>2, <2>3, <2>4, Zenon
<1>6. \A l \in Locker : kind'[l] = IF l = n THEN "none" ELSE kind[l]
  BY <1>1, <1>3, Zenon DEF TypeOK
<1>7. \A s \in Thread : depth'[s] <= depth[s]
  BY <1>3 DEF TypeOK
<1> HIDE DEF n
<1>8. Readers' = Readers \ {n} /\ Writers' = Writers \ {n}
  BY <1>6, Zenon DEF Readers, Writers, Locker
<1>9. StackOK'
  BY <1>5, Zenon DEF StackOK, Locker
<1> QED BY <1>1, <1>4, <1>7, <1>8, <1>9, Zenon DEF n

(* A thread that gets the lock: state_ counts the new locker, and whoever  *)
(* sleeps still has a reason to.                                           *)
LEMMA AcquireExact ==
  ASSUME IInv, NEW t \in Thread, depth[t] < MaxDepth,
         NEW k \in {"read", "write"}, Can(t, k), Acquire(t, k)
  PROVE  /\ state_' \in Int /\ writer_id_' \in Thread \cup {NoThread}
         /\ StateIsExact'
         /\ \A s \in Thread : pc[s] = "wait" =>
               ~(IF want[s] = "read" THEN state_' >= 0 ELSE state_' = 0)
<1> DEFINE n == <<t, depth[t] + 1>>
<1>0. Push(t, k) /\ k \in Kind \ {"none"}
  BY Zenon DEF Acquire, Kind
<1>1. /\ Readers' = IF k = "read" THEN Readers \cup {n} ELSE Readers
      /\ Writers' = IF k = "write" THEN Writers \cup {n} ELSE Writers
      /\ n \notin Readers \cup Writers /\ n[1] = t
  BY <1>0, PushSets, Zenon DEF IInv
<1> HIDE DEF n
<1>2. writer_id_ = NoThread /\ Writers = {} /\ state_ = Cardinality(Readers)
  <2>1. state_ >= 0
    BY DEF Can, CanRead, CanWrite, IInv, TypeOK
  <2>2. CASE writer_id_ # NoThread
    <3>1. Writers # {} /\ state_ = -Cardinality(Writers)
      BY <2>2, Zenon DEF IInv, StateIsExact
    <3>2. Cardinality(Writers) # 0
      BY <3>1, LockersFinite, FS_EmptySet, Zenon
    <3> QED BY <2>1, <3>1, <3>2, LockersFinite
  <2> QED BY <2>2, Zenon DEF IInv, StateIsExact
<1>3. CASE k = "read"
  <2>1. Cardinality(Readers') = Cardinality(Readers) + 1
    BY <1>1, <1>3, LockersFinite, FS_AddElement, Zenon
  <2>2. state_' = state_ + 1 /\ writer_id_' = NoThread /\ Writers' = {}
    BY <1>1, <1>2, <1>3, Zenon DEF Acquire
  <2>3. StateIsExact'
    BY <1>2, <2>1, <2>2, Zenon DEF StateIsExact
  <2>4. \A s \in Thread : pc[s] = "wait" => want[s] # "read"
    BY <1>3, Zenon DEF IInv, NoLostWakeup, Can, CanRead
  <2> QED BY <1>2, <2>2, <2>3, <2>4, LockersFinite
<1>4. CASE k = "write"
  <2>1. Readers = {}
    BY <1>2, <1>4, LockersFinite, FS_EmptySet, Zenon DEF Can, CanWrite
  <2>2. Writers' = {n} /\ Readers' = {}
    BY <1>1, <1>2, <1>4, <2>1, Zenon
  <2>3. Cardinality(Writers') = 1
    BY <2>2, FS_Singleton, Zenon
  <2>4. state_' = -1 /\ writer_id_' = t /\ t # NoThread
    BY <1>4, RwLockAssumption, Zenon DEF Acquire
  <2>5. StateIsExact'
    BY <1>1, <2>2, <2>3, <2>4, Zenon DEF StateIsExact
  <2> QED BY <2>4, <2>5
<1> QED BY <1>3, <1>4, Zenon

(* A nested write section counts one more write locker of the writer.      *)
LEMMA NestedWriteExact ==
  ASSUME IInv, NEW t \in Thread, depth[t] < MaxDepth, NestedWrite(t)
  PROVE  state_' \in Int /\ state_' < 0 /\ writer_id_' = writer_id_ /\ StateIsExact'
<1> DEFINE n == <<t, depth[t] + 1>>
<1>0. Push(t, "write") /\ "write" \in Kind \ {"none"}
  BY Zenon DEF NestedWrite, Kind
<1>1. Readers' = Readers /\ Writers' = Writers \cup {n} /\ n \notin Writers /\ n[1] = t
  BY <1>0, PushSets, Zenon DEF IInv
<1> HIDE DEF n
<1>2. writer_id_ = t /\ t # NoThread /\ state_' = state_ - 1 /\ writer_id_' = t
  BY RwLockAssumption, Zenon DEF NestedWrite, IsCurrentThreadWriter
<1>3. Readers = {} /\ (\A l \in Writers : l[1] = t) /\ state_ = -Cardinality(Writers)
  BY <1>2, Zenon DEF IInv, StateIsExact
<1>4. Cardinality(Writers') = Cardinality(Writers) + 1
  BY <1>1, LockersFinite, FS_AddElement, Zenon
<1>5. StateIsExact'
  BY <1>1, <1>2, <1>3, <1>4, LockersFinite DEF StateIsExact
<1> QED BY <1>2, <1>3, <1>5, LockersFinite

(* The end of a read locker.                                               *)
LEMMA LeaveReadExact ==
  ASSUME IInv, NEW t \in Thread, depth[t] > 0, LeaveRead(t), Pop(t)
  PROVE  state_' \in Int /\ state_' >= 0 /\ state_' = state_ - 1 /\ StateIsExact'
<1> DEFINE n == <<t, depth[t]>>
<1>1. Readers' = Readers \ {n} /\ Writers' = Writers \ {n} /\ n \in Locker
  BY PopSets, Zenon DEF IInv
<1>2. n \in Readers
  BY <1>1, Zenon DEF LeaveRead, Readers
<1> HIDE DEF n
<1>3. writer_id_ = NoThread /\ Writers = {} /\ state_ = Cardinality(Readers)
  BY <1>2, Zenon DEF IInv, StateIsExact
<1>4. Cardinality(Readers') = Cardinality(Readers) - 1 /\ Cardinality(Readers) # 0
  BY <1>1, <1>2, LockersFinite, FS_RemoveElement, FS_EmptySet, Zenon
<1>5. state_' = state_ - 1 /\ writer_id_' = NoThread
  BY <1>3, Zenon DEF LeaveRead
<1>6. StateIsExact'
  BY <1>1, <1>3, <1>4, <1>5, Zenon DEF StateIsExact
<1> QED BY <1>3, <1>4, <1>5, <1>6, LockersFinite

(* The end of a write locker.                                              *)
LEMMA LeaveWriteExact ==
  ASSUME IInv, NEW t \in Thread, depth[t] > 0, LeaveWrite(t), Pop(t)
  PROVE  /\ state_' \in Int /\ state_' <= 0
         /\ writer_id_' \in {writer_id_, NoThread} /\ StateIsExact'
<1> DEFINE n == <<t, depth[t]>>
<1>1. Readers' = Readers \ {n} /\ Writers' = Writers \ {n} /\ n \in Locker
  BY PopSets, Zenon DEF IInv
<1>2. n \in Writers
  BY <1>1, Zenon DEF LeaveWrite, Writers
<1> HIDE DEF n
<1>3. /\ writer_id_ # NoThread /\ Readers = {}
      /\ \A l \in Writers : l[1] = writer_id_
      /\ state_ = -Cardinality(Writers)
  BY <1>2, Zenon DEF IInv, StateIsExact
<1>4. /\ Cardinality(Writers') = Cardinality(Writers) - 1
      /\ Cardinality(Writers') \in Nat /\ IsFiniteSet(Writers')
  <2>1. IsFiniteSet(Writers \ {n})
    BY LockersFinite, FS_RemoveElement, Zenon
  <2> QED BY <1>1, <1>2, <2>1, LockersFinite, FS_RemoveElement, FS_CardinalityType, Zenon
<1>5. state_' = -Cardinality(Writers')
  BY <1>3, <1>4, LockersFinite DEF LeaveWrite
<1>6. Cardinality(Writers') = 0 <=> Writers' = {}
  BY <1>4, FS_EmptySet, Zenon
<1>7. CASE state_' < 0
  <2>1. writer_id_' = writer_id_ /\ Writers' # {}
    BY <1>4, <1>5, <1>6, <1>7 DEF LeaveWrite
  <2>2. StateIsExact'
    BY <1>1, <1>3, <1>5, <2>1, Zenon DEF StateIsExact
  <2> QED BY <1>4, <1>5, <2>1, <2>2
<1>8. CASE state_' >= 0
  <2>0. Cardinality(Writers') = 0 /\ state_' = 0
    <3>1. \A c \in Nat : -c >= 0 => c = 0 /\ -c = 0
      OBVIOUS
    <3> HIDE DEF Writers
    <3> QED BY <1>4, <1>5, <1>8, <3>1
  <2>4. ~(state_' < 0)
    <3> SUFFICES ~(0 < 0) BY <2>0
    <3> QED OBVIOUS
  <2>1. writer_id_' = NoThread /\ Writers' = {} /\ state_' = 0
    <3>1. writer_id_' = NoThread
      BY <2>4, Zenon DEF LeaveWrite
    <3> QED BY <1>6, <2>0, <3>1, Zenon
  <2>2. Readers' = {} /\ Cardinality(Readers') = 0
    BY <1>1, <1>3, FS_EmptySet, Zenon
  <2>3. StateIsExact'
    BY <2>1, <2>2, Zenon DEF StateIsExact
  <2> QED BY <2>1, <2>3
<1> QED BY <1>4, <1>5, <1>7, <1>8

-----------------------------------------------------------------------------
(* One lemma per action that moves a locker.                               *)

(* A thread that enters without waiting.                                   *)
LEMMA EnterAtOnceInv ==
  ASSUME IInv, NEW t \in Thread, EnterAtOnce(t)
  PROVE  IInv'
<1> USE DEF safepoint
<1>1. Runs(t) /\ depth[t] < MaxDepth /\ pc' = pc /\ want' = want
      /\ safe' = safe /\ owner' = owner /\ running' = running
  BY Zenon DEF EnterAtOnce
<1>2. pc[t] = "vm"
  BY <1>1, Zenon DEF Runs
<1>3. ASSUME NEW k \in Kind \ {"none"}, Push(t, k), StateIsExact',
             state_' \in Int, writer_id_' \in Thread \cup {NoThread},
             \A s \in Thread : pc[s] = "wait" =>
               ~(IF want[s] = "read" THEN state_' >= 0 ELSE state_' = 0)
      PROVE  IInv'
  <2>1. /\ kind' \in [Locker -> Kind] /\ depth' \in [Thread -> 0 .. MaxDepth]
        /\ StackOK'
    BY <1>1, <1>3, PushSets, Zenon DEF IInv
  <2>2. TypeOK'
    BY <1>1, <1>3, <2>1, Zenon DEF IInv, TypeOK
  <2>3. \A s \in Thread : s # t => depth'[s] = depth[s]
    BY <1>3, Zenon DEF Push, IInv, TypeOK
  <2>4. WantOK'
    BY <1>1, <1>2, <2>3, Zenon DEF IInv, WantOK
  <2>5. NoLostWakeup'
    BY <1>1, <1>3, Zenon DEF NoLostWakeup, Can, CanRead, CanWrite
  <2>6. SafeOK'
    BY <1>1, Zenon DEF IInv, SafeOK
  <2> QED BY <1>3, <2>1, <2>2, <2>4, <2>5, <2>6, Zenon DEF IInv
<1>4. CASE NestedRead(t)
  <2>1. Push(t, "skipped") /\ state_' = state_ /\ writer_id_' = writer_id_
        /\ "skipped" \in Kind \ {"none"}
    BY <1>4, Zenon DEF NestedRead, Kind
  <2>2. Readers' = Readers /\ Writers' = Writers
    BY <1>1, <2>1, PushSets, Zenon DEF IInv
  <2>3. StateIsExact'
    BY <2>1, <2>2, Zenon DEF IInv, StateIsExact
  <2>4. \A s \in Thread : pc[s] = "wait" =>
               ~(IF want[s] = "read" THEN state_' >= 0 ELSE state_' = 0)
    BY <2>1, Zenon DEF IInv, NoLostWakeup, Can, CanRead, CanWrite
  <2>5. state_' \in Int /\ writer_id_' \in Thread \cup {NoThread}
    BY <2>1, Zenon DEF IInv, TypeOK
  <2> QED BY <1>3, <2>1, <2>3, <2>4, <2>5, Zenon
<1>5. CASE NestedWrite(t)
  <2>1. Push(t, "write") /\ "write" \in Kind \ {"none"}
    BY <1>5, Zenon DEF NestedWrite, Kind
  <2>2. state_' \in Int /\ state_' < 0 /\ writer_id_' = writer_id_ /\ StateIsExact'
    BY <1>1, <1>5, NestedWriteExact, Zenon
  <2>3. writer_id_' \in Thread \cup {NoThread}
    BY <2>2, Zenon DEF IInv, TypeOK
  <2>4. \A s \in Thread : pc[s] = "wait" =>
               ~(IF want[s] = "read" THEN state_' >= 0 ELSE state_' = 0)
    BY <2>2
  <2> QED BY <1>3, <2>1, <2>2, <2>3, <2>4, Zenon
<1>6. ASSUME NEW k \in {"read", "write"}, Can(t, k), Acquire(t, k)
      PROVE  IInv'
  <2>1. Push(t, k) /\ k \in Kind \ {"none"}
    BY <1>6, Zenon DEF Acquire, Kind
  <2>2. /\ state_' \in Int /\ writer_id_' \in Thread \cup {NoThread}
        /\ StateIsExact'
        /\ \A s \in Thread : pc[s] = "wait" =>
              ~(IF want[s] = "read" THEN state_' >= 0 ELSE state_' = 0)
    BY <1>1, <1>6, AcquireExact, Zenon
  <2> QED BY <1>3, <2>1, <2>2, Zenon
<1> QED BY <1>4, <1>5, <1>6, Zenon DEF EnterAtOnce

(* A thread that gets the lock after it had to block.                      *)
LEMMA TryEnterInv ==
  ASSUME IInv, NEW t \in Thread, TryEnter(t)
  PROVE  IInv'
<1> USE DEF safepoint
<1>1. /\ pc[t] = "try" /\ Can(t, want[t]) /\ Acquire(t, want[t])
      /\ pc' = [pc EXCEPT ![t] = IF t \in Attached THEN "leave" ELSE "vm"]
      /\ want' = [want EXCEPT ![t] = "none"]
      /\ safe' = safe /\ owner' = owner /\ running' = running
  BY Zenon DEF TryEnter, Move
<1>2. want[t] \in {"read", "write"} /\ depth[t] < MaxDepth
  BY <1>1, Zenon DEF IInv, WantOK
<1>3. Push(t, want[t]) /\ want[t] \in Kind \ {"none"}
  BY <1>1, <1>2, Zenon DEF Acquire, Kind
<1>4. /\ kind' \in [Locker -> Kind] /\ depth' \in [Thread -> 0 .. MaxDepth]
      /\ StackOK'
  BY <1>2, <1>3, PushSets, Zenon DEF IInv
<1>5. /\ state_' \in Int /\ writer_id_' \in Thread \cup {NoThread}
      /\ StateIsExact'
      /\ \A s \in Thread : pc[s] = "wait" =>
            ~(IF want[s] = "read" THEN state_' >= 0 ELSE state_' = 0)
  BY <1>1, <1>2, AcquireExact, Zenon
<1>6. TypeOK'
  BY <1>1, <1>4, <1>5, Zenon DEF IInv, TypeOK, Place
<1>7. \A s \in Thread : s # t => depth'[s] = depth[s] /\ pc'[s] = pc[s] /\ want'[s] = want[s]
  BY <1>1, <1>3, Zenon DEF Push, IInv, TypeOK
<1>8. pc'[t] = IF t \in Attached THEN "leave" ELSE "vm"
  BY <1>1, Zenon DEF IInv, TypeOK
<1>9. WantOK'
  BY <1>7, <1>8, Zenon DEF IInv, WantOK
<1>10. NoLostWakeup'
  BY <1>5, <1>7, <1>8, Zenon DEF NoLostWakeup, Can, CanRead, CanWrite
<1>11. SafeOK'
  BY <1>1, <1>7, <1>8, RwLockAssumption DEF IInv, SafeOK, TypeOK
<1> QED BY <1>4, <1>5, <1>6, <1>9, <1>10, <1>11, Zenon DEF IInv

(* The end of a locker.                                                    *)
LEMMA LeaveInv ==
  ASSUME IInv, NEW t \in Thread, Leave(t)
  PROVE  IInv'
<1> USE DEF safepoint
<1>1. /\ Runs(t) /\ depth[t] > 0 /\ Pop(t) /\ want' = want
      /\ safe' = safe /\ owner' = owner /\ running' = running
  BY Zenon DEF Leave
<1>2. pc[t] = "vm"
  BY <1>1, Zenon DEF Runs
<1>3. /\ kind' \in [Locker -> Kind] /\ depth' \in [Thread -> 0 .. MaxDepth]
      /\ StackOK'
      /\ Readers' = Readers \ {<<t, depth[t]>>}
      /\ Writers' = Writers \ {<<t, depth[t]>>}
      /\ \A s \in Thread : depth'[s] <= depth[s]
  BY <1>1, PopSets, Zenon DEF IInv
<1>4. ASSUME pc' = pc \/ pc' = NotifyAll(pc), StateIsExact', state_' \in Int,
             writer_id_' \in Thread \cup {NoThread}, NoLostWakeup'
      PROVE  IInv'
  <2>1. pc' \in [Thread -> Place]
    BY <1>4, Zenon DEF NotifyAll, IInv, TypeOK, Place
  <2>2. TypeOK'
    BY <1>1, <1>3, <1>4, <2>1, Zenon DEF IInv, TypeOK
  <2>3. \A s \in Thread : pc'[s] = pc[s] \/ (pc[s] = "wait" /\ pc'[s] = "try")
    BY <1>4, Zenon DEF NotifyAll
  <2>4. WantOK'
    <3> SUFFICES ASSUME NEW s \in Thread, pc'[s] \in {"enter", "try", "wait"}
                 PROVE  want'[s] \in {"read", "write"} /\ depth'[s] < MaxDepth
      BY Zenon DEF WantOK
    <3>1. want[s] \in {"read", "write"} /\ depth[s] < MaxDepth
      BY <2>3, Zenon DEF IInv, WantOK
    <3>2. depth'[s] <= depth[s] /\ depth[s] \in Nat /\ depth'[s] \in Nat
      BY <1>3 DEF IInv, TypeOK
    <3> QED BY <1>1, <3>1, <3>2, RwLockAssumption
  <2>5. SafeOK'
    BY <1>1, <2>3, RwLockAssumption, Zenon DEF IInv, SafeOK, TypeOK
  <2> QED BY <1>3, <1>4, <2>2, <2>4, <2>5, Zenon DEF IInv
<1>5. CASE LeaveRead(t)
  <2>1. state_' \in Int /\ state_' >= 0 /\ state_' = state_ - 1 /\ StateIsExact'
    BY <1>1, <1>5, LeaveReadExact, Zenon
  <2>2. writer_id_' \in Thread \cup {NoThread}
    BY <1>5, Zenon DEF LeaveRead, IInv, TypeOK
  <2>3. CASE state_' = 0
    <3>1. pc' = NotifyAll(pc)
      BY <1>5, <2>3, Zenon DEF LeaveRead
    <3>2. NoLostWakeup'
      BY <3>1, Zenon DEF NoLostWakeup, NotifyAll
    <3> QED BY <1>4, <2>1, <2>2, <3>1, <3>2, Zenon
  <2>4. CASE state_' # 0
    <3>1. pc' = pc
      BY <1>5, <2>4, Zenon DEF LeaveRead
    <3>2. NoLostWakeup'
      BY <1>1, <2>1, <2>4, <3>1 DEF NoLostWakeup, Can, CanRead, CanWrite, IInv, TypeOK
    <3> QED BY <1>4, <2>1, <2>2, <3>1, <3>2, Zenon
  <2> QED BY <2>3, <2>4, Zenon
<1>6. CASE LeaveWrite(t)
  <2>1. /\ state_' \in Int /\ state_' <= 0
        /\ writer_id_' \in {writer_id_, NoThread} /\ StateIsExact'
    BY <1>1, <1>6, LeaveWriteExact, Zenon
  <2>2. writer_id_' \in Thread \cup {NoThread}
    BY <2>1, Zenon DEF IInv, TypeOK
  <2>3. CASE state_' < 0
    <3>1. pc' = pc
      BY <1>6, <2>1, <2>3 DEF LeaveWrite
    <3>2. NoLostWakeup'
      BY <2>1, <2>3 DEF NoLostWakeup, Can, CanRead, CanWrite
    <3> QED BY <1>4, <2>1, <2>2, <3>1, <3>2, Zenon
  <2>4. CASE ~(state_' < 0)
    <3>1. pc' = NotifyAll(pc)
      BY <1>6, <2>1, <2>4, Zenon DEF LeaveWrite
    <3>2. NoLostWakeup'
      BY <3>1, Zenon DEF NoLostWakeup, NotifyAll
    <3> QED BY <1>4, <2>1, <2>2, <3>1, <3>2, Zenon
  <2> QED BY <2>3, <2>4, Zenon
<1>7. CASE LeaveSkipped(t)
  <2>1. kind[<<t, depth[t]>>] = "skipped" /\ state_' = state_
        /\ writer_id_' = writer_id_ /\ pc' = pc
    BY <1>7, Zenon DEF LeaveSkipped
  <2>2. Readers' = Readers /\ Writers' = Writers
    BY <1>3, <2>1, Zenon DEF Readers, Writers
  <2>3. StateIsExact' /\ NoLostWakeup'
    BY <1>1, <2>1, <2>2, Zenon DEF IInv, StateIsExact, NoLostWakeup, Can, CanRead, CanWrite
  <2>4. state_' \in Int /\ writer_id_' \in Thread \cup {NoThread}
    BY <2>1, Zenon DEF IInv, TypeOK
  <2> QED BY <1>4, <2>1, <2>3, <2>4, Zenon
<1> QED BY <1>5, <1>6, <1>7, Zenon DEF Leave

-----------------------------------------------------------------------------

(* The steps that leave the lockers alone.                                 *)
LEMMA OtherStepsInv ==
  ASSUME IInv, UNCHANGED lock, UNCHANGED vars \/ WaitUntilThreadsReachedSafepointLevel
         \/ ResumeThreads
         \/ \E t \in Thread : \/ EnterFails(t) \/ EnterSafepoint(t) \/ TryEnterWaits(t)
                              \/ ExitSafepoint(t) \/ Park(t) \/ Unpark(t)
                              \/ SafepointThreads(t)
  PROVE  IInv'
<1> USE DEF lock, safepoint, vars
<1>0. StackOK' /\ StateIsExact'
  <2>1. kind' = kind /\ depth' = depth /\ state_' = state_ /\ writer_id_' = writer_id_
    OBVIOUS
  <2>2. Readers' = Readers /\ Writers' = Writers
    BY <2>1, Zenon DEF Readers, Writers
  <2> QED BY <2>1, <2>2, Zenon DEF IInv, StackOK, StateIsExact
<1>1. CASE UNCHANGED vars
  BY <1>0, <1>1, Zenon DEF IInv, TypeOK, WantOK, NoLostWakeup, Can, CanRead, CanWrite, SafeOK
<1>2. CASE WaitUntilThreadsReachedSafepointLevel
  BY <1>0, <1>2, Zenon DEF IInv, TypeOK, WantOK, NoLostWakeup, Can, CanRead, CanWrite, SafeOK,
                    WaitUntilThreadsReachedSafepointLevel
<1>3. CASE ResumeThreads
  BY <1>0, <1>3, Zenon DEF IInv, TypeOK, WantOK, NoLostWakeup, Can, CanRead, CanWrite, SafeOK,
                    ResumeThreads
<1>4. ASSUME NEW t \in Thread, EnterFails(t)
      PROVE  IInv'
  <2>1. TypeOK'
    BY <1>4, Zenon DEF EnterFails, Move, IInv, TypeOK, Place
  <2>2. WantOK'
    BY <1>4, Zenon DEF EnterFails, Move, IInv, TypeOK, WantOK
  <2>3. NoLostWakeup'
    BY <1>4, Zenon DEF EnterFails, Move, IInv, TypeOK, NoLostWakeup, Can, CanRead, CanWrite
  <2>4. SafeOK'
    BY <1>4, RwLockAssumption DEF EnterFails, Move, IInv, TypeOK, SafeOK, Runs
  <2> QED BY <1>0, <2>1, <2>2, <2>3, <2>4, Zenon DEF IInv
<1>5. ASSUME NEW t \in Thread, EnterSafepoint(t)
      PROVE  IInv'
  <2>1. t \in Attached
    BY <1>5, Zenon DEF EnterSafepoint, IInv, SafeOK
  <2>2. TypeOK'
    BY <1>5, <2>1, Zenon DEF EnterSafepoint, Move, IInv, TypeOK, Place
  <2>3. WantOK'
    BY <1>5, Zenon DEF EnterSafepoint, Move, IInv, TypeOK, WantOK
  <2>4. NoLostWakeup'
    BY <1>5, Zenon DEF EnterSafepoint, Move, IInv, TypeOK, NoLostWakeup, Can, CanRead, CanWrite
  <2>5. SafeOK'
    BY <1>5, RwLockAssumption, Zenon DEF EnterSafepoint, Move, IInv, TypeOK, SafeOK
  <2> QED BY <1>0, <2>2, <2>3, <2>4, <2>5, Zenon DEF IInv
<1>6. ASSUME NEW t \in Thread, TryEnterWaits(t)
      PROVE  IInv'
  <2>2. TypeOK'
    BY <1>6, Zenon DEF TryEnterWaits, Move, IInv, TypeOK, Place
  <2>3. WantOK'
    BY <1>6, Zenon DEF TryEnterWaits, Move, IInv, TypeOK, WantOK
  <2>4. NoLostWakeup'
    BY <1>6, Zenon DEF TryEnterWaits, Move, IInv, TypeOK, NoLostWakeup, Can, CanRead, CanWrite
  <2>5. SafeOK'
    BY <1>6, RwLockAssumption, Zenon DEF TryEnterWaits, Move, IInv, TypeOK, SafeOK
  <2> QED BY <1>0, <2>2, <2>3, <2>4, <2>5, Zenon DEF IInv
<1>7. ASSUME NEW t \in Thread, ExitSafepoint(t) \/ Unpark(t)
      PROVE  IInv'
  <2>1. /\ pc[t] \in {"leave", "parked"} /\ owner = NoThread /\ owner' = owner
        /\ pc' = [pc EXCEPT ![t] = "vm"] /\ safe' = safe \ {t}
        /\ want' = want /\ running' = running
    BY <1>7, Zenon DEF ExitSafepoint, Unpark, Move
  <2>2. TypeOK'
    BY <2>1, Zenon DEF IInv, TypeOK, Place
  <2>3. WantOK'
    BY <2>1, Zenon DEF IInv, TypeOK, WantOK
  <2>4. NoLostWakeup'
    BY <2>1, Zenon DEF IInv, TypeOK, NoLostWakeup, Can, CanRead, CanWrite
  <2>5. SafeOK'
    BY <2>1, RwLockAssumption, Zenon DEF IInv, TypeOK, SafeOK
  <2> QED BY <1>0, <2>2, <2>3, <2>4, <2>5, Zenon DEF IInv
<1>8. ASSUME NEW t \in Thread, Park(t)
      PROVE  IInv'
  <2>2. TypeOK'
    BY <1>8, Zenon DEF Park, Move, IInv, TypeOK, Place
  <2>3. WantOK'
    BY <1>8, Zenon DEF Park, Move, IInv, TypeOK, WantOK
  <2>4. NoLostWakeup'
    BY <1>8, Zenon DEF Park, Move, IInv, TypeOK, NoLostWakeup, Can, CanRead, CanWrite
  <2>5. SafeOK'
    BY <1>8, RwLockAssumption, Zenon DEF Park, Move, IInv, TypeOK, SafeOK
  <2> QED BY <1>0, <2>2, <2>3, <2>4, <2>5, Zenon DEF IInv
<1>9. ASSUME NEW t \in Thread, SafepointThreads(t)
      PROVE  IInv'
  <2>1. TypeOK' /\ WantOK' /\ NoLostWakeup'
    BY <1>9, Zenon DEF SafepointThreads, IInv, TypeOK, WantOK, NoLostWakeup, Can, CanRead, CanWrite
  <2>2. SafeOK'
    BY <1>9, Zenon DEF SafepointThreads, IInv, TypeOK, SafeOK
  <2> QED BY <1>0, <2>1, <2>2, Zenon DEF IInv
<1> QED BY <1>1, <1>2, <1>3, <1>4, <1>5, <1>6, <1>7, <1>8, <1>9, Zenon

(* The inductive invariant holds in every reachable state.                 *)
LEMMA InvariantHolds == Spec => []IInv
<1>1. Init => IInv
  <2> SUFFICES ASSUME Init PROVE IInv
    OBVIOUS
  <2>1. TypeOK
    <3>1. kind \in [Locker -> Kind]
      BY Zenon DEF Init, Kind
    <3>2. pc \in [Thread -> Place] /\ want \in [Thread -> {"none", "read", "write"}]
      BY Zenon DEF Init, Place
    <3>3. 0 \in 0 .. MaxDepth
      BY RwLockAssumption
    <3>4. depth \in [Thread -> 0 .. MaxDepth]
      BY <3>3, Zenon DEF Init
    <3>5. state_ \in Int
      <4>1. state_ = 0
        BY Zenon DEF Init
      <4> QED BY <4>1
    <3>7. running \in BOOLEAN
      BY Zenon DEF Init
    <3>6. writer_id_ \in Thread \cup {NoThread} /\ owner \in Attached \cup {NoThread}
          /\ safe \in SUBSET Attached
      BY Zenon DEF Init
    <3> QED BY <3>1, <3>2, <3>4, <3>5, <3>6, <3>7, Zenon DEF TypeOK
  <2>6. WantOK /\ NoLostWakeup
    BY Zenon DEF Init, WantOK, NoLostWakeup
  <2>2. SafeOK
    BY RwLockAssumption, Zenon DEF Init, SafeOK
  <2>3. StackOK
    BY RwLockAssumption DEF Init, StackOK, Locker
  <2>4. Readers = {} /\ Writers = {}
    BY Zenon DEF Init, Readers, Writers
  <2>5. StateIsExact
    BY <2>4, FS_EmptySet, Zenon DEF Init, StateIsExact
  <2> QED BY <2>1, <2>2, <2>3, <2>5, <2>6, Zenon DEF IInv
<1>2. IInv /\ [Next]_vars => IInv'
  <2> SUFFICES ASSUME IInv, [Next]_vars PROVE IInv'
    OBVIOUS
  <2>1. ASSUME NEW t \in Thread, Step(t)
        PROVE  IInv'
    <3>1. CASE EnterAtOnce(t) \/ TryEnter(t) \/ Leave(t)
      BY <3>1, EnterAtOnceInv, TryEnterInv, LeaveInv, Zenon
    <3>2. CASE \/ EnterFails(t) \/ EnterSafepoint(t) \/ TryEnterWaits(t)
               \/ ExitSafepoint(t) \/ Park(t) \/ Unpark(t) \/ SafepointThreads(t)
      <4>1. UNCHANGED lock
        BY <3>2, Zenon DEF EnterFails, EnterSafepoint, TryEnterWaits, ExitSafepoint, Park,
                    Unpark, SafepointThreads
      <4> QED BY <3>2, <4>1, OtherStepsInv, Zenon
    <3> QED BY <2>1, <3>1, <3>2, Zenon DEF Step
  <2>2. CASE WaitUntilThreadsReachedSafepointLevel \/ ResumeThreads \/ UNCHANGED vars
    <3>1. UNCHANGED lock
      BY <2>2, Zenon DEF WaitUntilThreadsReachedSafepointLevel, ResumeThreads, vars, lock
    <3> QED BY <2>2, <3>1, OtherStepsInv, Zenon
  <2> QED BY <2>1, <2>2, Zenon DEF Next
<1> QED BY <1>1, <1>2, PTL DEF Spec

(* state_ and writer_id_ of SafepointRwLock say exactly who holds the lock *)
(* for every number of threads and every nesting of lockers: readers share *)
(* it, a writer has it alone.                                              *)
THEOREM StateIsExactHolds == Spec => []StateIsExact
<1>1. IInv => StateIsExact
  BY Zenon DEF IInv
<1> QED BY <1>1, InvariantHolds, PTL

(* No wake up of LeaveRead or LeaveWrite is lost: a thread asleep on       *)
(* monitor_ could not have the lock.                                       *)
THEOREM NoLostWakeupHolds == Spec => []NoLostWakeup
<1>1. IInv => NoLostWakeup
  BY Zenon DEF IInv
<1> QED BY <1>1, InvariantHolds, PTL

(* While a safepoint operation runs, every other attached thread stays at  *)
(* its safepoint, one that gets the lock meanwhile included.               *)
THEOREM StoppedThreadsStayHolds == Spec => []StoppedThreadsStay
<1>1. IInv => StoppedThreadsStay
  BY Zenon DEF IInv, SafeOK, StoppedThreadsStay
<1> QED BY <1>1, InvariantHolds, PTL

-----------------------------------------------------------------------------

MutatorPlace == {"out", "asleep", "woken", "in"}

(* How many mutators f puts in r.                                          *)
Count(f, r) == Cardinality({x \in Mutator : f[x] = r})

LimitInv == LimitTypeOK /\ CountsAreExact /\ NoForgottenSlot

(* Only finitely many mutators are in any place.                           *)
LEMMA PlacesFinite ==
  ASSUME NEW p
  PROVE  IsFiniteSet(At(p)) /\ Cardinality(At(p)) \in Nat
<1>1. At(p) \in SUBSET Mutator
  BY Zenon DEF At
<1>2. IsFiniteSet(At(p))
  BY <1>1, FS_Subset, MutatorAssumption, Zenon
<1> QED BY <1>2, FS_CardinalityType, Zenon

(* A mutator that moves from p to q is counted there and no longer here.   *)
LEMMA MoveCounts ==
  ASSUME NEW f \in [Mutator -> MutatorPlace], NEW m \in Mutator, NEW q \in MutatorPlace,
         f[m] # q, NEW g \in [Mutator -> MutatorPlace], g[m] = q,
         \A x \in Mutator : x # m => g[x] = f[x]
  PROVE  \A r :
         /\ Count(f, r) \in Nat /\ Count(g, r) \in Nat
         /\ r = q => Count(g, r) = Count(f, r) + 1
         /\ r = f[m] => Count(f, r) = Count(g, r) + 1
         /\ (r # q /\ r # f[m]) => Count(g, r) = Count(f, r)
<1> SUFFICES ASSUME NEW r
             PROVE  /\ Count(f, r) \in Nat /\ Count(g, r) \in Nat
                    /\ r = q => Count(g, r) = Count(f, r) + 1
                    /\ r = f[m] => Count(f, r) = Count(g, r) + 1
                    /\ (r # q /\ r # f[m]) => Count(g, r) = Count(f, r)
  OBVIOUS
<1> DEFINE S == {x \in Mutator : f[x] = r}
           T == {x \in Mutator : g[x] = r}
<1>1. IsFiniteSet(S) /\ IsFiniteSet(T)
  <2>1. S \in SUBSET Mutator /\ T \in SUBSET Mutator
    OBVIOUS
  <2> QED BY <2>1, FS_Subset, MutatorAssumption, Zenon
<1>2. Cardinality(S) \in Nat /\ Cardinality(T) \in Nat
  BY <1>1, FS_CardinalityType, Zenon
<1>4. \A x \in Mutator : g[x] = IF x = m THEN q ELSE f[x]
  OBVIOUS
<1>5. ASSUME r = q PROVE Cardinality(T) = Cardinality(S) + 1
  <2>1. T = S \cup {m} /\ m \notin S
    BY <1>4, <1>5, Zenon
  <2> HIDE DEF S, T
  <2> QED BY <1>1, <2>1, FS_AddElement, Zenon
<1>6. ASSUME r = f[m] PROVE Cardinality(S) = Cardinality(T) + 1
  <2>1. S = T \cup {m} /\ m \notin T
    BY <1>4, <1>6, Zenon
  <2> HIDE DEF S, T
  <2> QED BY <1>1, <2>1, FS_AddElement, Zenon
<1>7. ASSUME r # q, r # f[m] PROVE Cardinality(T) = Cardinality(S)
  <2>1. T = S
    BY <1>4, <1>7, Zenon
  <2> QED BY <2>1, Zenon
<1> QED BY <1>2, <1>5, <1>6, <1>7, Zenon DEF Count

(* The same of a step in which one mutator moves.                          *)
LEMMA StepCounts ==
  ASSUME LimitTypeOK, NEW m \in Mutator, NEW q \in MutatorPlace,
         place[m] # q, MoveTo(m, q), NEW r
  PROVE  /\ place' \in [Mutator -> MutatorPlace]
         /\ Cardinality(At(r)) \in Nat /\ Cardinality(At(r)') \in Nat
         /\ r = q => Cardinality(At(r)') = Cardinality(At(r)) + 1
         /\ r = place[m] => Cardinality(At(r)) = Cardinality(At(r)') + 1
         /\ (r # q /\ r # place[m]) => Cardinality(At(r)') = Cardinality(At(r))
  <1>1. /\ place \in [Mutator -> MutatorPlace] /\ place' \in [Mutator -> MutatorPlace] /\ place'[m] = q
      /\ \A x \in Mutator : x # m => place'[x] = place[x]
  BY Zenon DEF LimitTypeOK, MoveTo, MutatorPlace
<1>2. Cardinality(At(r)) = Count(place, r) /\ Cardinality(At(r)') = Count(place', r)
  BY Zenon DEF At, Count
<1>3. /\ Count(place, r) \in Nat /\ Count(place', r) \in Nat
      /\ r = q => Count(place', r) = Count(place, r) + 1
      /\ r = place[m] => Count(place, r) = Count(place', r) + 1
      /\ (r # q /\ r # place[m]) => Count(place', r) = Count(place, r)
  BY <1>1, MoveCounts
<1> QED BY <1>1, <1>2, <1>3, Zenon

(* A place is empty when nobody is counted there.                          *)
LEMMA EmptyPlace ==
  ASSUME NEW r
  PROVE  (At(r) = {} <=> Cardinality(At(r)) = 0) /\ (At(r)' = {} <=> Cardinality(At(r)') = 0)
<1>1. IsFiniteSet(At(r)) /\ IsFiniteSet(At(r)')
  <2>1. At(r) \in SUBSET Mutator /\ At(r)' \in SUBSET Mutator
    BY Zenon DEF At
  <2> QED BY <2>1, FS_Subset, MutatorAssumption, Zenon
<1> QED BY <1>1, FS_EmptySet, Zenon

(* Every step preserves the counts and leaves no slot forgotten.           *)
LEMMA StepInv ==
  ASSUME LimitInv, NEW m \in Mutator,
         \/ IncreaseMutatorCountWaits(m) \/ IncreaseMutatorCount(m)
         \/ WakeUp(m) \/ WakeUpInVain(m) \/ SpuriousWakeUp(m)
         \/ DecreaseMutatorCount(m)
  PROVE  LimitInv'
<1> DEFINE i == Cardinality(At("in"))      j == Cardinality(At("in")')
           a == Cardinality(At("asleep"))  b == Cardinality(At("asleep")')
           w == Cardinality(At("woken"))   v == Cardinality(At("woken")')
<1> USE DEF LimitInv, LimitTypeOK, CountsAreExact, NoForgottenSlot
<1>0. /\ active_mutators_ = i /\ waiting_mutators_ = a + w /\ i <= max_active_mutators_
      /\ a > 0 => i + w >= max_active_mutators_
      /\ i \in Nat /\ a \in Nat /\ w \in Nat /\ max_active_mutators_ \in Nat
  BY PlacesFinite, EmptyPlace, MutatorAssumption
<1>1. ASSUME place' \in [Mutator -> MutatorPlace],
             j \in Nat, b \in Nat, v \in Nat,
             active_mutators_' = j, waiting_mutators_' = b + v,
             j <= max_active_mutators_, b > 0 => j + v >= max_active_mutators_
      PROVE  LimitInv'
  BY <1>1, EmptyPlace DEF MutatorPlace
<1> HIDE DEF LimitInv, CountsAreExact, NoForgottenSlot
<1>2. CASE IncreaseMutatorCountWaits(m)
  <2>1. place[m] = "out" /\ MoveTo(m, "asleep") /\ active_mutators_ = max_active_mutators_
        /\ waiting_mutators_' = waiting_mutators_ + 1 /\ active_mutators_' = active_mutators_
    BY <1>2, Zenon DEF IncreaseMutatorCountWaits, MustWait
  <2>2. j = i /\ b = a + 1 /\ v = w
        /\ place' \in [Mutator -> MutatorPlace]
    BY <2>1, StepCounts DEF LimitInv, MutatorPlace
  <2> HIDE DEF i, j, a, b, w, v, LimitTypeOK
  <2>3. /\ active_mutators_' = j /\ waiting_mutators_' = b + v /\ j <= max_active_mutators_
        /\ b > 0 => j + v >= max_active_mutators_
        /\ j \in Nat /\ b \in Nat /\ v \in Nat
    <3>0. j = max_active_mutators_ /\ active_mutators_' = j /\ j \in Nat
      BY <1>0, <2>1, <2>2, Zenon
    <3>5. v \in Nat /\ b \in Nat
      <4>1. \A x \in Nat : x + 1 \in Nat
        OBVIOUS
      <4> QED BY <1>0, <2>2, <4>1, Zenon
    <3>1. j = max_active_mutators_ /\ v \in Nat /\ j \in Nat /\ b \in Nat
      BY <3>0, <3>5, Zenon
    <3>2. \A x, y \in Nat : x <= x /\ x + y >= x
      OBVIOUS
    <3>3. j <= max_active_mutators_ /\ j + v >= max_active_mutators_
      BY <3>1, <3>2
    <3>4. waiting_mutators_' = b + v
      <4>1. \A x, y \in Nat : (x + y) + 1 = (x + 1) + y /\ x + (y + 1) = (x + 1) + y
        OBVIOUS
      <4> QED BY <1>0, <2>1, <2>2, <3>5, <4>1, Zenon
    <3> QED BY <3>0, <3>1, <3>3, <3>4, Zenon
  <2> QED BY <1>1, <2>2, <2>3, Zenon
<1>3. CASE IncreaseMutatorCount(m)
  <2>1. place[m] = "out" /\ MoveTo(m, "in") /\ active_mutators_ # max_active_mutators_
        /\ waiting_mutators_' = waiting_mutators_ /\ active_mutators_' = active_mutators_ + 1
    BY <1>3, Zenon DEF IncreaseMutatorCount, MustWait
  <2>2. j = i + 1 /\ b = a /\ v = w
        /\ place' \in [Mutator -> MutatorPlace]
    BY <2>1, StepCounts, Zenon DEF LimitInv, MutatorPlace
  <2> HIDE DEF i, j, a, b, w, v, LimitTypeOK
  <2>3. /\ active_mutators_' = j /\ waiting_mutators_' = b + v /\ j <= max_active_mutators_
        /\ b > 0 => j + v >= max_active_mutators_
        /\ j \in Nat /\ b \in Nat /\ v \in Nat
    <3>1. \A x, y \in Nat : x # y /\ x <= y => x + 1 <= y
      OBVIOUS
    <3> QED BY <1>0, <2>1, <2>2, <3>1
  <2> QED BY <1>1, <2>2, <2>3, Zenon
<1>4. CASE WakeUp(m)
  <2>1. place[m] = "woken" /\ MoveTo(m, "in") /\ active_mutators_ # max_active_mutators_
        /\ waiting_mutators_' = waiting_mutators_ - 1 /\ active_mutators_' = active_mutators_ + 1
    BY <1>4, Zenon DEF WakeUp, MustWait
  <2>2. j = i + 1 /\ b = a /\ w = v + 1 /\ v \in Nat
        /\ place' \in [Mutator -> MutatorPlace]
    BY <2>1, StepCounts, Zenon DEF LimitInv, MutatorPlace
  <2> HIDE DEF i, j, a, b, w, v, LimitTypeOK
  <2>3. /\ active_mutators_' = j /\ waiting_mutators_' = b + v /\ j <= max_active_mutators_
        /\ b > 0 => j + v >= max_active_mutators_
        /\ j \in Nat /\ b \in Nat /\ v \in Nat
    <3>1. \A x, y \in Nat : x # y /\ x <= y => x + 1 <= y
      OBVIOUS
    <3> QED BY <1>0, <2>1, <2>2, <3>1
  <2> QED BY <1>1, <2>2, <2>3, Zenon
<1>5. CASE WakeUpInVain(m)
  <2>1. place[m] = "woken" /\ MoveTo(m, "asleep") /\ active_mutators_ = max_active_mutators_
        /\ waiting_mutators_' = waiting_mutators_ /\ active_mutators_' = active_mutators_
    BY <1>5, Zenon DEF WakeUpInVain, MustWait
  <2>2. j = i /\ b = a + 1 /\ w = v + 1 /\ v \in Nat
        /\ place' \in [Mutator -> MutatorPlace]
    BY <2>1, StepCounts, Zenon DEF LimitInv, MutatorPlace
  <2> HIDE DEF i, j, a, b, w, v, LimitTypeOK
  <2>3. /\ active_mutators_' = j /\ waiting_mutators_' = b + v /\ j <= max_active_mutators_
        /\ b > 0 => j + v >= max_active_mutators_
        /\ j \in Nat /\ b \in Nat /\ v \in Nat
    <3>0. j = max_active_mutators_ /\ active_mutators_' = j /\ j \in Nat
      BY <1>0, <2>1, <2>2, Zenon
    <3>5. v \in Nat /\ b \in Nat
      <4>1. \A x \in Nat : x + 1 \in Nat
        OBVIOUS
      <4> QED BY <1>0, <2>2, <4>1, Zenon
    <3>1. j = max_active_mutators_ /\ v \in Nat /\ j \in Nat /\ b \in Nat
      BY <3>0, <3>5, Zenon
    <3>2. \A x, y \in Nat : x <= x /\ x + y >= x
      OBVIOUS
    <3>3. j <= max_active_mutators_ /\ j + v >= max_active_mutators_
      BY <3>1, <3>2
    <3>4. waiting_mutators_' = b + v
      <4>1. \A x, y \in Nat : (x + y) + 1 = (x + 1) + y /\ x + (y + 1) = (x + 1) + y
        OBVIOUS
      <4> QED BY <1>0, <2>1, <2>2, <3>5, <4>1, Zenon
    <3> QED BY <3>0, <3>1, <3>3, <3>4, Zenon
  <2> QED BY <1>1, <2>2, <2>3, Zenon
<1>6. CASE SpuriousWakeUp(m)
  <2>1. place[m] = "asleep" /\ MoveTo(m, "woken")
        /\ waiting_mutators_' = waiting_mutators_ /\ active_mutators_' = active_mutators_
    BY <1>6, Zenon DEF SpuriousWakeUp
  <2>2. j = i /\ a = b + 1 /\ v = w + 1 /\ b \in Nat
        /\ place' \in [Mutator -> MutatorPlace]
    BY <2>1, StepCounts, Zenon DEF LimitInv, MutatorPlace
  <2> HIDE DEF i, j, a, b, w, v, LimitTypeOK
  <2>3. /\ active_mutators_' = j /\ waiting_mutators_' = b + v /\ j <= max_active_mutators_
        /\ b > 0 => j + v >= max_active_mutators_
        /\ j \in Nat /\ b \in Nat /\ v \in Nat
    BY <1>0, <2>1, <2>2
  <2> QED BY <1>1, <2>2, <2>3, Zenon
<1>7. CASE DecreaseMutatorCount(m)
  <2>1. place[m] = "in" /\ active_mutators_' = active_mutators_ - 1
        /\ waiting_mutators_' = waiting_mutators_
    BY <1>7, Zenon DEF DecreaseMutatorCount
  <2>2. CASE At("asleep") = {}
    <3>1. MoveTo(m, "out")
      BY <1>7, <2>2, Zenon DEF DecreaseMutatorCount
    <3>2. i = j + 1 /\ b = a /\ v = w /\ j \in Nat
          /\ place' \in [Mutator -> MutatorPlace]
      BY <2>1, <3>1, StepCounts DEF LimitInv, MutatorPlace
    <3>3. a = 0
      BY <2>2, EmptyPlace, Zenon
    <3> HIDE DEF i, j, a, b, w, v
    <3>9. /\ active_mutators_' = j /\ waiting_mutators_' = b + v /\ j <= max_active_mutators_
          /\ b > 0 => j + v >= max_active_mutators_
          /\ j \in Nat /\ b \in Nat /\ v \in Nat
      BY <1>0, <2>1, <3>2, <3>3
    <3> QED BY <1>1, <3>2, <3>9, Zenon
  <2>3. CASE At("asleep") # {}
    <3>0. a > 0
      BY <1>0, <2>3, EmptyPlace
    <3>1. Notifies(m)
      <4> HIDE DEF i, j, a, b, w, v
      <4> QED BY <1>0, <3>0 DEF Notifies
    <3>2. PICK k \in At("asleep") : place' = [place EXCEPT ![m] = "out", ![k] = "woken"]
      BY <1>7, <2>3, <3>1, Zenon DEF DecreaseMutatorCount
    <3> DEFINE f == [place EXCEPT ![m] = "out"]
    <3>3. k \in Mutator /\ place[k] = "asleep" /\ k # m
      BY <2>1, <3>2, Zenon DEF At
    <3>4. /\ f \in [Mutator -> MutatorPlace] /\ f[k] = "asleep" /\ f[m] = "out"
          /\ \A x \in Mutator : x # m => f[x] = place[x]
          /\ place' \in [Mutator -> MutatorPlace] /\ place'[k] = "woken"
          /\ \A x \in Mutator : x # k => place'[x] = f[x]
      BY <3>2, <3>3, Zenon DEF LimitInv, MutatorPlace
    <3> HIDE DEF f
    <3>5. i = Count(f, "in") + 1 /\ Count(f, "asleep") = a /\ Count(f, "woken") = w /\ Count(f, "in") \in Nat
      <4>1. i = Count(place, "in") /\ a = Count(place, "asleep") /\ w = Count(place, "woken")
        BY Zenon DEF At, Count
      <4>2. place \in [Mutator -> MutatorPlace] /\ "out" \in MutatorPlace
        BY Zenon DEF LimitInv, LimitTypeOK, MutatorPlace
      <4>3. "in" # "out" /\ "asleep" # "in" /\ "asleep" # "out" /\ "woken" # "in" /\ "woken" # "out"
        OBVIOUS
      <4>4. /\ Count(place, "in") = Count(f, "in") + 1 /\ Count(f, "in") \in Nat
            /\ Count(f, "asleep") = Count(place, "asleep")
            /\ Count(f, "woken") = Count(place, "woken")
        BY <2>1, <3>4, <4>2, <4>3, MoveCounts
      <4> QED BY <4>1, <4>4, Zenon
    <3>6. /\ j = Count(f, "in") /\ Count(f, "asleep") = b + 1 /\ v = Count(f, "woken") + 1 /\ b \in Nat
          /\ place' \in [Mutator -> MutatorPlace]
      <4>1. /\ j = Count(place', "in") /\ b = Count(place', "asleep")
            /\ v = Count(place', "woken")
        BY Zenon DEF At, Count
      <4>2. "woken" \in MutatorPlace /\ "asleep" # "woken" /\ "in" # "asleep" /\ "in" # "woken"
        BY Zenon DEF MutatorPlace
      <4>3. /\ Count(place', "in") = Count(f, "in") /\ place' \in [Mutator -> MutatorPlace]
            /\ Count(f, "asleep") = Count(place', "asleep") + 1
            /\ Count(place', "woken") = Count(f, "woken") + 1
            /\ Count(place', "asleep") \in Nat
        BY <3>3, <3>4, <4>2, MoveCounts
      <4> QED BY <4>1, <4>3, Zenon
    <3>7. i = j + 1 /\ a = b + 1 /\ v = w + 1 /\ j \in Nat /\ b \in Nat
      BY <3>5, <3>6, Zenon
    <3> HIDE DEF i, j, a, b, w, v
    <3>9. /\ active_mutators_' = j /\ waiting_mutators_' = b + v /\ j <= max_active_mutators_
          /\ b > 0 => j + v >= max_active_mutators_
          /\ j \in Nat /\ b \in Nat /\ v \in Nat
      BY <1>0, <2>1, <3>6, <3>7
    <3> QED BY <1>1, <3>6, <3>9, Zenon
  <2> QED BY <2>2, <2>3, Zenon
<1> QED BY <1>2, <1>3, <1>4, <1>5, <1>6, <1>7, Zenon

(* The inductive invariant holds in every reachable state.                 *)
LEMMA LimitInvariantHolds == LimitSpec => []LimitInv
<1>1. LimitInit => LimitInv
  <2> SUFFICES ASSUME LimitInit PROVE LimitInv
    OBVIOUS
  <2>1. At("in") = {} /\ At("asleep") = {} /\ At("woken") = {}
    BY Zenon DEF LimitInit, At
  <2>2. CountsAreExact /\ NoForgottenSlot
    BY <2>1, FS_EmptySet, MutatorAssumption DEF LimitInit, CountsAreExact, NoForgottenSlot
  <2>3. LimitTypeOK
    BY Zenon DEF LimitInit, LimitTypeOK
  <2> QED BY <2>2, <2>3, Zenon DEF LimitInv
<1>2. LimitInv /\ [LimitNext]_limitVars => LimitInv'
  <2>1. ASSUME LimitInv, LimitNext PROVE LimitInv'
    BY <2>1, StepInv, Zenon DEF LimitNext
  <2>2. ASSUME LimitInv, UNCHANGED limitVars PROVE LimitInv'
    BY <2>2, Zenon DEF LimitInv, LimitTypeOK, CountsAreExact, NoForgottenSlot, At, limitVars
  <2> QED BY <2>1, <2>2, Zenon
<1> QED BY <1>1, <1>2, PTL DEF LimitSpec

(* active_mutators_ and waiting_mutators_ are exact and the limit holds,   *)
(* for every number of isolates and every limit.                           *)
THEOREM CountsAreExactHolds == LimitSpec => []CountsAreExact
<1>1. LimitInv => CountsAreExact
  BY Zenon DEF LimitInv
<1> QED BY <1>1, LimitInvariantHolds, PTL

(* One notification for each slot that DecreaseMutatorCount frees is       *)
(* enough, although whoever calls IncreaseMutatorCount may take the slot   *)
(* of a thread that was notified.                                          *)
THEOREM NoForgottenSlotHolds == LimitSpec => []NoForgottenSlot
<1>1. LimitInv => NoForgottenSlot
  BY Zenon DEF LimitInv
<1> QED BY <1>1, LimitInvariantHolds, PTL

=============================================================================
