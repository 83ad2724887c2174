--------------------------- MODULE ThreadPoolProofs --------------------------
(***************************************************************************)
(* The safety of the thread pool for every set of workers and tasks, every *)
(* limit, and with the idle hook or without, and the proof that it         *)
(* implements TaskQueue.  The inductive invariant says which list a worker *)
(* is in by its place, who joins whom, and what Shutdown may rely on.      *)
(***************************************************************************)
EXTENDS ThreadPool, TLAPS, FiniteSetTheorems

IdlePlace == {"top", "idleWait", "notifyIdle", "wait"}

GonePlace == {"notifyExit", "joining", "exited"}

TypeOK ==
    /\ shutting_down \in BOOLEAN /\ all_workers_dead \in BOOLEAN
    /\ tasks \in Seq(Task) /\ pending_tasks = Len(tasks)
    /\ max_pool_size \in Nat
    /\ is_blocked \in [Worker -> BOOLEAN]
    /\ place \in [Worker -> Places]
    /\ notified \in [Worker -> BOOLEAN]
    /\ job \in [Worker -> SUBSET Task]
    /\ to_join \in [Joiner -> SUBSET Worker]
    /\ shutdown \in {"none", "exitCheck", "exitWait", "obtain", "joining", "returned"}
    /\ exit_notified \in BOOLEAN
    /\ accepted \in SUBSET Task

(* The lists p and their counters fit the places pl of the workers.        *)
Fits(p, pl) ==
    /\ p \in PoolType
    /\ p.running = {w \in Worker : pl[w] = "task"}
    /\ p.idle = {w \in Worker : pl[w] \in IdlePlace}
    /\ p.count_running = Cardinality(p.running)
    /\ p.count_idle = Cardinality(p.idle)
    /\ \A w \in p.dead : pl[w] \in GonePlace

(* A dead worker is in the list of dead workers or waits for one joiner.   *)
JoinOK ==
    /\ \A u, v \in pool.dead : u = v
    /\ \A j \in Joiner : \A u \in to_join[j] : place[u] \in GonePlace /\ u \notin pool.dead
    /\ \A i, j \in Joiner : i # j => to_join[i] \cap to_join[j] = {}
    /\ \A u \in Worker : place[u] \in GonePlace =>
          u \in pool.dead \/ \E j \in Joiner : u \in to_join[j]
    /\ \A w \in Worker : to_join[w] # {} => place[w] \in {"notifyExit", "joining"}
    /\ to_join["shutdown"] # {} => shutdown = "joining"

(* Whoever has the workers of C to join is not always itself in C.         *)
NoCycle ==
    \A C \in SUBSET Worker :
        C # {} /\ (\A u \in C : place[u] \in GonePlace) =>
        \E u \in C : \/ u \in pool.dead
                     \/ \E j \in Joiner \ C : u \in to_join[j]

(* What Shutdown relies on once the last worker has died.                  *)
DeathOK ==
    /\ all_workers_dead => shutting_down /\ NoWorkers(pool) /\ tasks = <<>>
    /\ shutdown \in {"obtain", "joining", "returned"} => all_workers_dead
    /\ shutdown \in {"joining", "returned"} => pool.dead = {}
    /\ shutdown = "returned" => \A w \in Worker : place[w] = "none"

(* A task is queued once, or one worker has it, or it has been done.       *)
JobOK ==
    /\ \A w \in Worker : IF place[w] = "task" THEN \E t \in Task : job[w] = {t}
                                              ELSE job[w] = {}
    /\ \A i, k \in 1 .. Len(tasks) : tasks[i] = tasks[k] => i = k
    /\ \A i \in 1 .. Len(tasks) : tasks[i] \in accepted
    /\ \A w \in Worker : job[w] \subseteq accepted
    /\ \A w \in Worker : \A i \in 1 .. Len(tasks) : tasks[i] \notin job[w]
    /\ \A v, w \in Worker : v # w => job[v] \cap job[w] = {}

IInv == /\ TypeOK /\ Fits(pool, place) /\ JoinOK /\ NoCycle /\ DeathOK /\ JobOK
        /\ NoTaskStranded

-----------------------------------------------------------------------------

(* Workers are finitely many, and one more or one less counts as one.      *)
LEMMA WorkerCounts ==
  ASSUME NEW S \in SUBSET Worker
  PROVE  /\ IsFiniteSet(S) /\ Cardinality(S) \in Nat
         /\ (Cardinality(S) = 0) <=> (S = {})
         /\ \A w \in Worker \ S : Cardinality(S \cup {w}) = Cardinality(S) + 1
         /\ \A w \in S : Cardinality(S \ {w}) = Cardinality(S) - 1
<1>1. IsFiniteSet(S)
  BY PoolAssumption, FS_Subset, Zenon
<1>2. Cardinality(S) \in Nat
  BY <1>1, FS_CardinalityType, Zenon
<1>3. (Cardinality(S) = 0) <=> (S = {})
  BY <1>1, FS_EmptySet, Zenon
<1>4. \A w \in Worker \ S : Cardinality(S \cup {w}) = Cardinality(S) + 1
  BY <1>1, FS_AddElement, Zenon
<1>5. \A w \in S : Cardinality(S \ {w}) = Cardinality(S) - 1
  BY <1>1, FS_RemoveElement, Zenon
<1> QED BY <1>1, <1>2, <1>3, <1>4, <1>5, Zenon

(* A larger set counts at least as much.                                   *)
LEMMA WorkerSubset ==
  ASSUME NEW T \in SUBSET Worker, NEW S \in SUBSET T
  PROVE  Cardinality(S) <= Cardinality(T)
<1>1. IsFiniteSet(T)
  BY PoolAssumption, FS_Subset, Zenon
<1> QED BY <1>1, FS_Subset, Zenon

-----------------------------------------------------------------------------

(* One field of the lists at a time.                                       *)
LEMMA PoolSets ==
  ASSUME NEW p \in PoolType, NEW S \in SUBSET Worker
  PROVE  /\ [p EXCEPT !.running = S] \in PoolType
         /\ [p EXCEPT !.idle = S] \in PoolType
         /\ [p EXCEPT !.dead = S] \in PoolType
BY Zenon DEF PoolType

LEMMA PoolCounts ==
  ASSUME NEW p \in PoolType, NEW n \in Nat
  PROVE  /\ [p EXCEPT !.count_running = n] \in PoolType
         /\ [p EXCEPT !.count_idle = n] \in PoolType
         /\ [p EXCEPT !.count_dead = n] \in PoolType
BY Zenon DEF PoolType

(* The lists when a worker stays in the list it is in.                     *)
LEMMA StayFits ==
  ASSUME NEW p, NEW pl \in [Worker -> Places], Fits(p, pl), NEW w \in Worker, NEW q \in Places,
         \/ pl[w] \in IdlePlace /\ q \in IdlePlace
         \/ pl[w] \in GonePlace /\ q \in GonePlace
         \/ pl[w] = "task" /\ q = "task"
         \/ pl[w] \in GonePlace /\ w \notin p.dead /\ q = "none"
  PROVE  Fits(p, [pl EXCEPT ![w] = q])
<1> DEFINE new == [pl EXCEPT ![w] = q]
<1>1. new[w] = q /\ \A v \in Worker : v # w => new[v] = pl[v]
  OBVIOUS
<1> HIDE DEF new
<1>2. \A v \in Worker : new[v] = "task" <=> pl[v] = "task"
  BY <1>1, Zenon DEF IdlePlace, GonePlace
<1>3. \A v \in Worker : new[v] \in IdlePlace <=> pl[v] \in IdlePlace
  BY <1>1, Zenon DEF IdlePlace, GonePlace
<1>4. \A v \in p.dead : v \in Worker
  BY Zenon DEF Fits, PoolType
<1>5. \A v \in p.dead : new[v] \in GonePlace
  BY <1>1, <1>4, Zenon DEF Fits, IdlePlace, GonePlace
<1> QED BY <1>2, <1>3, <1>5, Zenon DEF Fits, new

(* The lists when a worker is made.                                        *)
WorkerAdded(p, w) == [p EXCEPT !.idle = @ \cup {w}, !.count_idle = @ + 1]

LEMMA NewFits ==
  ASSUME NEW p, NEW pl \in [Worker -> Places], Fits(p, pl), NEW w \in Worker, pl[w] = "none"
  PROVE  /\ Fits(WorkerAdded(p, w), [pl EXCEPT ![w] = "top"])
         /\ WorkerAdded(p, w).running = p.running
         /\ WorkerAdded(p, w).dead = p.dead
<1> DEFINE new == [pl EXCEPT ![w] = "top"]
           r == WorkerAdded(p, w)
<1>1. new[w] = "top" /\ \A v \in Worker : v # w => new[v] = pl[v]
  OBVIOUS
<1>2. /\ p.idle \in SUBSET Worker /\ p.running \in SUBSET Worker /\ p.dead \in SUBSET Worker
      /\ w \notin p.idle /\ w \notin p.dead
      /\ p.count_idle = Cardinality(p.idle)
  BY Zenon DEF Fits, PoolType, IdlePlace, GonePlace
<1>3. Cardinality(p.idle \cup {w}) = Cardinality(p.idle) + 1 /\ Cardinality(p.idle) \in Nat
  BY <1>2, WorkerCounts, Zenon
<1>4. /\ p \in PoolType /\ p.count_running = Cardinality(p.running)
      /\ p.idle \cup {w} \in SUBSET Worker
      /\ p.count_idle + 1 \in Nat
  BY <1>2, <1>3 DEF Fits, PoolType
<1>5. r \in PoolType
  BY <1>4, PoolSets, PoolCounts, Zenon DEF WorkerAdded
<1>6. /\ r.running = p.running /\ r.idle = p.idle \cup {w} /\ r.dead = p.dead
      /\ r.count_running = p.count_running /\ r.count_idle = p.count_idle + 1
  BY <1>4, Zenon DEF PoolType, WorkerAdded
<1> HIDE DEF new, r
<1>7. r.count_running = Cardinality(r.running) /\ r.count_idle = Cardinality(r.idle)
  BY <1>2, <1>3, <1>4, <1>6, Zenon
<1>8. r.running = {v \in Worker : new[v] = "task"}
  BY <1>1, <1>6, Zenon DEF Fits
<1>9. r.idle = {v \in Worker : new[v] \in IdlePlace}
  BY <1>1, <1>6, Zenon DEF Fits, IdlePlace
<1>10. \A v \in r.dead : new[v] \in GonePlace
  BY <1>1, <1>2, <1>6, Zenon DEF Fits, GonePlace
<1>11. Fits(r, new)
  BY <1>5, <1>7, <1>8, <1>9, <1>10, Zenon DEF Fits
<1> QED BY <1>6, <1>11, Zenon DEF r, new

(* The lists when an idle worker takes a task.                             *)
LEMMA RunFits ==
  ASSUME NEW p, NEW pl \in [Worker -> Places], Fits(p, pl), NEW w \in Worker, pl[w] \in IdlePlace
  PROVE  /\ Fits(IdleToRunningLocked(p, w), [pl EXCEPT ![w] = "task"])
         /\ IdleToRunningLocked(p, w).dead = p.dead
<1> DEFINE new == [pl EXCEPT ![w] = "task"]
           r == IdleToRunningLocked(p, w)
<1>1. new[w] = "task" /\ \A v \in Worker : v # w => new[v] = pl[v]
  OBVIOUS
<1>2. /\ p.idle \in SUBSET Worker /\ p.running \in SUBSET Worker /\ p.dead \in SUBSET Worker
      /\ w \in p.idle /\ w \notin p.running /\ w \notin p.dead
      /\ p.count_idle = Cardinality(p.idle) /\ p.count_running = Cardinality(p.running)
  BY Zenon DEF Fits, PoolType, IdlePlace, GonePlace
<1>3. /\ Cardinality(p.idle \ {w}) = Cardinality(p.idle) - 1
      /\ Cardinality(p.running \cup {w}) = Cardinality(p.running) + 1
      /\ Cardinality(p.idle \ {w}) \in Nat /\ Cardinality(p.running) \in Nat
  BY <1>2, WorkerCounts, Zenon
<1>4. /\ p \in PoolType /\ p.count_running = Cardinality(p.running)
      /\ p.idle \ {w} \in SUBSET Worker /\ p.running \cup {w} \in SUBSET Worker
      /\ p.count_idle - 1 \in Nat /\ p.count_running + 1 \in Nat
  BY <1>2, <1>3 DEF Fits, PoolType
<1>5. r \in PoolType
  BY <1>4, PoolSets, PoolCounts, Zenon DEF IdleToRunningLocked
<1>6. /\ r.running = p.running \cup {w} /\ r.idle = p.idle \ {w} /\ r.dead = p.dead
      /\ r.count_running = p.count_running + 1 /\ r.count_idle = p.count_idle - 1
  BY <1>4, Zenon DEF PoolType, IdleToRunningLocked
<1> HIDE DEF new, r
<1>7. r.count_running = Cardinality(r.running) /\ r.count_idle = Cardinality(r.idle)
  BY <1>2, <1>3, <1>4, <1>6, Zenon
<1>8. r.running = {v \in Worker : new[v] = "task"}
  BY <1>1, <1>6, Zenon DEF Fits
<1>9. r.idle = {v \in Worker : new[v] \in IdlePlace}
  BY <1>1, <1>6, Zenon DEF Fits, IdlePlace
<1>10. \A v \in r.dead : new[v] \in GonePlace
  BY <1>1, <1>2, <1>6, Zenon DEF Fits, GonePlace
<1>11. Fits(r, new)
  BY <1>5, <1>7, <1>8, <1>9, <1>10, Zenon DEF Fits
<1> QED BY <1>6, <1>11, Zenon DEF r, new

(* The lists when a worker without a task becomes idle.                    *)
LEMMA IdleFits ==
  ASSUME NEW p, NEW pl \in [Worker -> Places], Fits(p, pl), NEW w \in Worker, pl[w] = "task",
         NEW q \in IdlePlace
  PROVE  /\ Fits(RunningToIdleLocked(p, w), [pl EXCEPT ![w] = q])
         /\ RunningToIdleLocked(p, w).dead = p.dead
<1> DEFINE new == [pl EXCEPT ![w] = q]
           r == RunningToIdleLocked(p, w)
<1>1. new[w] = q /\ \A v \in Worker : v # w => new[v] = pl[v]
  OBVIOUS
<1>2. /\ p.idle \in SUBSET Worker /\ p.running \in SUBSET Worker /\ p.dead \in SUBSET Worker
      /\ w \in p.running /\ w \notin p.idle /\ w \notin p.dead
      /\ p.count_idle = Cardinality(p.idle) /\ p.count_running = Cardinality(p.running)
  BY Zenon DEF Fits, PoolType, IdlePlace, GonePlace
<1>3. /\ Cardinality(p.running \ {w}) = Cardinality(p.running) - 1
      /\ Cardinality(p.idle \cup {w}) = Cardinality(p.idle) + 1
      /\ Cardinality(p.running \ {w}) \in Nat /\ Cardinality(p.idle) \in Nat
  BY <1>2, WorkerCounts
<1>4. /\ p \in PoolType /\ p.count_running = Cardinality(p.running)
      /\ p.running \ {w} \in SUBSET Worker /\ p.idle \cup {w} \in SUBSET Worker
      /\ p.count_idle + 1 \in Nat /\ p.count_running - 1 \in Nat
  BY <1>2, <1>3 DEF Fits, PoolType
<1>5. r \in PoolType
  BY <1>4, PoolSets, PoolCounts, Zenon DEF RunningToIdleLocked
<1>6. /\ r.running = p.running \ {w} /\ r.idle = p.idle \cup {w} /\ r.dead = p.dead
      /\ r.count_running = p.count_running - 1 /\ r.count_idle = p.count_idle + 1
  BY <1>4, Zenon DEF PoolType, RunningToIdleLocked
<1> HIDE DEF new, r
<1>7. r.count_running = Cardinality(r.running) /\ r.count_idle = Cardinality(r.idle)
  BY <1>2, <1>3, <1>4, <1>6, Zenon
<1>8. r.running = {v \in Worker : new[v] = "task"}
  BY <1>1, <1>6, Zenon DEF Fits, IdlePlace
<1>9. r.idle = {v \in Worker : new[v] \in IdlePlace}
  BY <1>1, <1>6, Zenon DEF Fits, IdlePlace
<1>10. \A v \in r.dead : new[v] \in GonePlace
  BY <1>1, <1>2, <1>6, Zenon DEF Fits, GonePlace
<1>11. Fits(r, new)
  BY <1>5, <1>7, <1>8, <1>9, <1>10, Zenon DEF Fits
<1> QED BY <1>6, <1>11, Zenon DEF r, new

(* The lists when the dead workers are taken over.                         *)
LEMMA ObtainFits ==
  ASSUME NEW p, NEW pl \in [Worker -> Places], Fits(p, pl)
  PROVE  /\ Fits(ObtainDeadWorkersLocked(p), pl)
         /\ ObtainDeadWorkersLocked(p).dead = {}
BY Zenon DEF Fits, PoolType, ObtainDeadWorkersLocked

(* The lists when an idle worker dies, having taken over the dead workers. *)
LEMMA DieFits ==
  ASSUME NEW p, NEW pl \in [Worker -> Places], Fits(p, pl), NEW w \in Worker, pl[w] \in IdlePlace,
         NEW q \in GonePlace
  PROVE  /\ Fits(IdleToDeadLocked(ObtainDeadWorkersLocked(p), w), [pl EXCEPT ![w] = q])
         /\ IdleToDeadLocked(ObtainDeadWorkersLocked(p), w).dead = {w}
<1> DEFINE new == [pl EXCEPT ![w] = q]
           o == ObtainDeadWorkersLocked(p)
           r == IdleToDeadLocked(o, w)
<1>1. new[w] = q /\ \A v \in Worker : v # w => new[v] = pl[v]
  OBVIOUS
<1>2. Fits(o, pl) /\ o.dead = {}
  BY ObtainFits, Zenon
<1> HIDE DEF o
<1>3. /\ o.idle \in SUBSET Worker /\ o.running \in SUBSET Worker
      /\ w \in o.idle /\ w \notin o.running
      /\ o.count_idle = Cardinality(o.idle) /\ o.count_running = Cardinality(o.running)
  BY <1>2, Zenon DEF Fits, PoolType, IdlePlace
<1>4. Cardinality(o.idle \ {w}) = Cardinality(o.idle) - 1 /\ Cardinality(o.idle \ {w}) \in Nat
  BY <1>3, WorkerCounts, Zenon
<1>5. /\ o \in PoolType
      /\ o.idle \ {w} \in SUBSET Worker /\ o.dead \cup {w} \in SUBSET Worker
      /\ o.count_idle - 1 \in Nat /\ o.count_dead + 1 \in Nat
  BY <1>2, <1>3, <1>4 DEF Fits, PoolType
<1>6. r \in PoolType
  BY <1>5, PoolSets, PoolCounts, Zenon DEF IdleToDeadLocked
<1>7. /\ r.running = o.running /\ r.idle = o.idle \ {w} /\ r.dead = o.dead \cup {w}
      /\ r.count_running = o.count_running /\ r.count_idle = o.count_idle - 1
  BY <1>5, Zenon DEF PoolType, IdleToDeadLocked
<1> HIDE DEF new, r
<1>8. r.count_running = Cardinality(r.running) /\ r.count_idle = Cardinality(r.idle)
  BY <1>3, <1>4, <1>7, Zenon
<1>9. r.running = {v \in Worker : new[v] = "task"}
  BY <1>1, <1>2, <1>3, <1>7 DEF Fits, GonePlace
<1>10. r.idle = {v \in Worker : new[v] \in IdlePlace}
  BY <1>1, <1>2, <1>7, Zenon DEF Fits, IdlePlace, GonePlace
<1>11. r.dead = {w}
  BY <1>2, <1>7, Zenon
<1>12. \A v \in r.dead : new[v] \in GonePlace
  BY <1>1, <1>11, Zenon
<1>13. Fits(r, new)
  BY <1>6, <1>8, <1>9, <1>10, <1>12, Zenon DEF Fits
<1> QED BY <1>11, <1>13, Zenon DEF o, r, new

-----------------------------------------------------------------------------

(* Sleeping workers are idle.                                              *)
LEMMA SleepersIdle ==
  ASSUME Fits(pool, place)
  PROVE  Sleeping \subseteq pool.idle /\ Sleeping \subseteq Worker /\ Alert \in SUBSET Worker
BY Zenon DEF Fits, PoolType, Sleeping, Alert, IdlePlace

(* A worker that is not dead has nobody to join.                           *)
LEMMA LivingJoinsNobody ==
  ASSUME JoinOK, NEW w \in Worker, place[w] \notin {"notifyExit", "joining"}
  PROVE  to_join[w] = {}
BY Zenon DEF JoinOK

(* While a worker is idle or running the pool has not died.                *)
LEMMA LivingPool ==
  ASSUME IInv, NEW w \in Worker, place[w] \in IdlePlace \cup {"task"}
  PROVE  ~all_workers_dead /\ shutdown \notin {"obtain", "joining", "returned"}
<1>1. w \in pool.running \/ w \in pool.idle
  BY Zenon DEF IInv, Fits
<1> QED BY <1>1, Zenon DEF IInv, DeathOK, NoWorkers

(* The joining is undisturbed by a step that kills nobody and joins nobody. *)
LEMMA JoinFrame ==
  ASSUME TypeOK, JoinOK, NoCycle, to_join' = to_join, pool'.dead = pool.dead,
         \A v \in Worker : place'[v] \in GonePlace <=> place[v] \in GonePlace,
         \A v \in Worker : to_join[v] # {} => place'[v] \in {"notifyExit", "joining"},
         to_join["shutdown"] # {} => shutdown' = "joining"
  PROVE  JoinOK' /\ NoCycle'
<1>1. \A u, v \in pool'.dead : u = v
  BY Zenon DEF JoinOK
<1>2. \A j \in Joiner : \A u \in to_join[j] : place'[u] \in GonePlace /\ u \notin pool'.dead
  <2> SUFFICES ASSUME NEW j \in Joiner, NEW u \in to_join[j]
               PROVE  place'[u] \in GonePlace /\ u \notin pool'.dead
    OBVIOUS
  <2>1. place[u] \in GonePlace /\ u \notin pool.dead
    BY Zenon DEF JoinOK
  <2>2. u \in Worker
    BY Zenon DEF TypeOK
  <2> QED BY <2>1, <2>2, Zenon
<1>3. JoinOK'
  BY <1>1, <1>2, Zenon DEF JoinOK, Joiner
<1>4. NoCycle'
  <2> SUFFICES ASSUME NEW C \in SUBSET Worker, C # {}, \A u \in C : place'[u] \in GonePlace
               PROVE  \E u \in C : \/ u \in pool'.dead
                                   \/ \E j \in Joiner \ C : u \in to_join'[j]
    BY Zenon DEF NoCycle, Joiner
  <2>1. \A u \in C : place[u] \in GonePlace
    OBVIOUS
  <2> QED BY <2>1, Zenon DEF NoCycle
<1> QED BY <1>3, <1>4, Zenon

(* With no task pending none is stranded.                                  *)
LEMMA EmptyStranded ==
  ASSUME Fits(pool, place)', tasks' = <<>>
  PROVE  NoTaskStranded'
<1>1. Alert' \in SUBSET Worker
  BY Zenon DEF Fits, PoolType, Alert
<1>2. Cardinality(Alert') \in Nat
  BY <1>1, WorkerCounts, Zenon
<1>3. Len(tasks') = 0
  OBVIOUS
<1> QED BY <1>2, <1>3 DEF NoTaskStranded

(* Nor does waking, or adding, workers strand one.                         *)
LEMMA WakingStrandsNone ==
  ASSUME NoTaskStranded, Fits(pool, place), Fits(pool, place)', tasks' = tasks, tasks \in Seq(Task),
         Sleeping' \subseteq Sleeping, pool.idle \subseteq pool'.idle, pool.running \subseteq pool'.running
  PROVE  NoTaskStranded'
<1>1. Alert \subseteq Alert' /\ Alert' \in SUBSET Worker
  BY Zenon DEF Alert, Fits, PoolType
<1>2. Cardinality(Alert) <= Cardinality(Alert') /\ Cardinality(Alert) \in Nat /\ Cardinality(Alert') \in Nat
  BY <1>1, WorkerSubset, WorkerCounts, Zenon
<1>3. Len(tasks) \in Nat
  OBVIOUS
<1>4. Sleeping' # {} => Cardinality(Alert') >= Len(tasks')
  BY <1>2, <1>3 DEF NoTaskStranded
<1>5. tasks' # <<>> => Alert' \cup pool'.running # {}
  BY <1>1, Zenon DEF NoTaskStranded
<1> QED BY <1>4, <1>5, Zenon DEF NoTaskStranded

(* A step that moves no task.                                              *)
LEMMA JobFrame ==
  ASSUME JobOK, tasks' = tasks, job' = job, accepted' = accepted,
         \A v \in Worker : place'[v] = "task" <=> place[v] = "task"
  PROVE  JobOK'
<1>1. \A v \in Worker : IF place'[v] = "task" THEN \E t \in Task : job'[v] = {t} ELSE job'[v] = {}
  BY Zenon DEF JobOK
<1> QED BY <1>1, Zenon DEF JobOK

(* A step that ends the task of w, if it has one.                          *)
LEMMA JobEnds ==
  ASSUME JobOK, tasks' = tasks, accepted' = accepted, NEW w \in Worker,
         job'[w] = {}, place'[w] # "task",
         \A v \in Worker : v # w => job'[v] = job[v] /\ place'[v] = place[v]
  PROVE  JobOK'
<1>1. \A v \in Worker : IF place'[v] = "task" THEN \E t \in Task : job'[v] = {t} ELSE job'[v] = {}
  <2> SUFFICES ASSUME NEW v \in Worker
               PROVE  IF place'[v] = "task" THEN \E t \in Task : job'[v] = {t} ELSE job'[v] = {}
    OBVIOUS
  <2>1. CASE v = w
    BY <2>1, Zenon
  <2>2. CASE v # w
    BY <2>2, Zenon DEF JobOK
  <2> QED BY <2>1, <2>2, Zenon
<1>2. \A v \in Worker : job'[v] \subseteq job[v]
  OBVIOUS
<1>3. /\ \A i, k \in 1 .. Len(tasks') : tasks'[i] = tasks'[k] => i = k
      /\ \A i \in 1 .. Len(tasks') : tasks'[i] \in accepted'
  BY Zenon DEF JobOK
<1>4. \A v \in Worker : job'[v] \subseteq accepted'
  BY <1>2, Zenon DEF JobOK
<1>5. \A v \in Worker : \A i \in 1 .. Len(tasks') : tasks'[i] \notin job'[v]
  BY <1>2, Zenon DEF JobOK
<1>6. \A u, v \in Worker : u # v => job'[u] \cap job'[v] = {}
  BY <1>2 DEF JobOK
<1> QED BY <1>1, <1>3, <1>4, <1>5, <1>6, Zenon DEF JobOK

-----------------------------------------------------------------------------

(* A worker that finds no task stays, or becomes, idle.                    *)
LEMMA RestInv ==
  ASSUME IInv, TypeOK', NEW w \in Worker, NEW q \in IdlePlace, tasks = <<>>,
         place[w] \in IdlePlace \cup {"task"}, place' = [place EXCEPT ![w] = q],
         Fits(pool', place'), pool'.dead = pool.dead,
         job'[w] = {}, \A v \in Worker : v # w => job'[v] = job[v],
         UNCHANGED <<queue, limits, deaths, closing, accepted>>
  PROVE  IInv'
<1>1. place'[w] = q /\ \A v \in Worker : v # w => place'[v] = place[v]
  BY Zenon DEF IInv, TypeOK
<1>2. to_join[w] = {}
  BY LivingJoinsNobody, Zenon DEF IInv, IdlePlace
<1>3. \A v \in Worker : place'[v] \in GonePlace <=> place[v] \in GonePlace
  BY <1>1, Zenon DEF IdlePlace, GonePlace
<1>4. \A v \in Worker : to_join[v] # {} => place'[v] \in {"notifyExit", "joining"}
  BY <1>1, <1>2, Zenon DEF IInv, JoinOK
<1>5. to_join["shutdown"] # {} => shutdown' = "joining"
  BY Zenon DEF IInv, JoinOK, closing
<1>6. JoinOK' /\ NoCycle'
  BY <1>3, <1>4, <1>5, JoinFrame, Zenon DEF IInv, deaths
<1>7. DeathOK'
  BY LivingPool, Zenon DEF DeathOK, deaths, closing
<1>8. JobOK'
  BY <1>1, JobEnds, Zenon DEF IInv, IdlePlace, queue
<1>9. Fits(pool, place)'
  BY Zenon DEF Fits
<1>10. NoTaskStranded'
  BY <1>9, EmptyStranded, Zenon DEF queue
<1> QED BY <1>6, <1>7, <1>8, <1>9, <1>10, Zenon DEF IInv

(* A worker that finds no task dies, the dead workers being its to join.    *)
LEMMA DieInv ==
  ASSUME IInv, NEW w \in Worker, NEW p, NEW pl \in [Worker -> Places], Fits(p, pl),
         pl[w] \in IdlePlace, \A v \in Worker : v # w => pl[v] = place[v],
         p.dead = pool.dead, place[w] \in IdlePlace \cup {"task"}, tasks = <<>>,
         Die(w, p), job' \in [Worker -> SUBSET Task],
         job'[w] = {}, \A v \in Worker : v # w => job'[v] = job[v],
         UNCHANGED <<queue, limits, closing, accepted>>
  PROVE  IInv'
<1>1. PICK q \in {"notifyExit", "joining"} :
            place' = [place EXCEPT ![w] = q] /\ notified' = [notified EXCEPT ![w] = FALSE]
  BY Zenon DEF Die, Goto, At
<1>2. place'[w] = q /\ \A v \in Worker : v # w => place'[v] = place[v]
  BY <1>1, Zenon DEF IInv, TypeOK
<1>3. place' = [pl EXCEPT ![w] = q]
  BY <1>1, Zenon DEF IInv, TypeOK
<1>4. Fits(pool', place') /\ pool'.dead = {w}
  BY <1>3, DieFits, Zenon DEF Die, GonePlace
<1>5. ~all_workers_dead /\ shutdown \notin {"obtain", "joining", "returned"}
  BY LivingPool, Zenon
<1>6. /\ to_join[w] = {} /\ pool.dead \in SUBSET Worker /\ w \notin pool.dead
      /\ \A u \in pool.dead : place[u] \in GonePlace
  BY LivingJoinsNobody, Zenon DEF IInv, IdlePlace, GonePlace, Fits, PoolType
<1>7. to_join' = [to_join EXCEPT ![w] = pool.dead]
  BY Zenon DEF Die
<1>8. to_join'[w] = pool.dead /\ \A j \in Joiner : j # w => to_join'[j] = to_join[j]
  BY <1>7, Zenon DEF IInv, TypeOK, Joiner
<1>9. TypeOK'
  <2>1. all_workers_dead' \in BOOLEAN
    BY Zenon DEF Die, IInv, TypeOK
  <2>2. notified' \in [Worker -> BOOLEAN] /\ place' \in [Worker -> Places]
    BY <1>1, Zenon DEF IInv, TypeOK, Places
  <2>3. to_join' \in [Joiner -> SUBSET Worker]
    BY <1>6, <1>7, Zenon DEF IInv, TypeOK
  <2> QED BY <2>1, <2>2, <2>3, Zenon DEF IInv, TypeOK, queue, limits, closing
<1>10. JoinOK'
  <2>1. \A u, v \in pool'.dead : u = v
    BY <1>4, Zenon
  <2>2. \A j \in Joiner : \A u \in to_join'[j] : place'[u] \in GonePlace /\ u \notin pool'.dead
    <3> SUFFICES ASSUME NEW j \in Joiner, NEW u \in to_join'[j]
                 PROVE  place'[u] \in GonePlace /\ u # w
      BY <1>4, Zenon
    <3>1. u \in Worker /\ place[u] \in GonePlace
      <4>1. CASE j = w
        BY <4>1, <1>6, <1>8, Zenon
      <4>2. CASE j # w
        BY <4>2, <1>8, Zenon DEF IInv, JoinOK, TypeOK
      <4> QED BY <4>1, <4>2, Zenon
    <3>2. u # w
      BY <3>1, Zenon DEF IdlePlace, GonePlace
    <3> QED BY <3>1, <3>2, <1>2, Zenon
  <2>3. \A i, j \in Joiner : i # j => to_join'[i] \cap to_join'[j] = {}
    <3>1. \A j \in Joiner : to_join[j] \cap pool.dead = {}
      BY Zenon DEF IInv, JoinOK
    <3> QED BY <3>1, <1>8 DEF IInv, JoinOK
  <2>4. \A u \in Worker : place'[u] \in GonePlace =>
           u \in pool'.dead \/ \E j \in Joiner : u \in to_join'[j]
    <3> SUFFICES ASSUME NEW u \in Worker, place'[u] \in GonePlace, u # w
                 PROVE  \E j \in Joiner : u \in to_join'[j]
      BY <1>4, Zenon
    <3>1. u \in pool.dead \/ \E j \in Joiner : u \in to_join[j]
      BY <1>2, Zenon DEF IInv, JoinOK
    <3>2. w \in Joiner
      BY Zenon DEF Joiner
    <3> QED BY <3>1, <3>2, <1>6, <1>8, Zenon
  <2>5. \A v \in Worker : to_join'[v] # {} => place'[v] \in {"notifyExit", "joining"}
    BY <1>2, <1>8, Zenon DEF IInv, JoinOK, Joiner
  <2>6. to_join'["shutdown"] # {} => shutdown' = "joining"
    BY <1>8, PoolAssumption, Zenon DEF IInv, JoinOK, Joiner, closing
  <2> QED BY <2>1, <2>2, <2>3, <2>4, <2>5, <2>6, Zenon DEF JoinOK, Joiner
<1>11. NoCycle'
  <2> SUFFICES ASSUME NEW C \in SUBSET Worker, C # {}, \A u \in C : place'[u] \in GonePlace
               PROVE  \E u \in C : \/ u \in pool'.dead
                                   \/ \E j \in Joiner \ C : u \in to_join'[j]
    BY Zenon DEF NoCycle, Joiner
  <2>1. CASE w \in C
    BY <2>1, <1>4, Zenon
  <2>2. CASE w \notin C
    <3>1. \A u \in C : place[u] \in GonePlace
      BY <2>2, <1>2, Zenon
    <3>2. PICK u \in C : u \in pool.dead \/ \E j \in Joiner \ C : u \in to_join[j]
      BY <3>1, Zenon DEF IInv, NoCycle
    <3>3. w \in Joiner \ C
      BY <2>2, Zenon DEF Joiner
    <3> QED BY <3>2, <3>3, <1>6, <1>8, Zenon
  <2> QED BY <2>1, <2>2, Zenon
<1>12. DeathOK'
  BY <1>5, Zenon DEF DeathOK, Die, closing, queue
<1>13. JobOK'
  BY <1>2, JobEnds, Zenon DEF IInv, queue
<1>14. Fits(pool, place)'
  BY <1>4, Zenon DEF Fits
<1>15. NoTaskStranded'
  BY <1>14, EmptyStranded, Zenon DEF queue
<1> QED BY <1>9, <1>10, <1>11, <1>12, <1>13, <1>14, <1>15 DEF IInv

(* A worker takes the oldest task.                                         *)
LEMMA TakeInv ==
  ASSUME IInv, NEW w \in Worker, place[w] \in {"top", "task"}, tasks # <<>>, RemoveFirst(w),
         Fits(pool', place'), pool'.dead = pool.dead,
         pool'.idle = pool.idle \ {w}, w \in pool'.running,
         UNCHANGED <<limits, closing, accepted>>
  PROVE  IInv'
<1>1. place' = [place EXCEPT ![w] = "task"] /\ job' = [job EXCEPT ![w] = {Head(tasks)}]
  BY Zenon DEF RemoveFirst, At
<1>2. place'[w] = "task" /\ \A v \in Worker : v # w => place'[v] = place[v]
  BY <1>1, Zenon DEF IInv, TypeOK
<1>3. job'[w] = {Head(tasks)} /\ \A v \in Worker : v # w => job'[v] = job[v]
  BY <1>1, Zenon DEF IInv, TypeOK
<1>4. /\ tasks \in Seq(Task) /\ Len(tasks) \in Nat /\ Len(tasks) > 0
      /\ Head(tasks) = tasks[1] /\ Head(tasks) \in Task
      /\ tasks' \in Seq(Task) /\ Len(tasks') = Len(tasks) - 1
      /\ \A i \in 1 .. Len(tasks') : tasks'[i] = tasks[i + 1]
  BY DEF IInv, TypeOK, RemoveFirst
<1>5. TypeOK'
  <2>1. place' \in [Worker -> Places] /\ job' \in [Worker -> SUBSET Task]
    BY <1>1, <1>4, Zenon DEF IInv, TypeOK, Places
  <2>2. pending_tasks' = Len(tasks')
    BY <1>4, Zenon DEF IInv, TypeOK, RemoveFirst
  <2> QED BY <1>4, <2>1, <2>2, Zenon DEF IInv, TypeOK, RemoveFirst, limits, closing, deaths
<1>6. JoinOK' /\ NoCycle'
  <2>1. to_join[w] = {}
    BY LivingJoinsNobody, Zenon DEF IInv
  <2>2. \A v \in Worker : place'[v] \in GonePlace <=> place[v] \in GonePlace
    BY <1>2, Zenon DEF GonePlace
  <2>3. \A v \in Worker : to_join[v] # {} => place'[v] \in {"notifyExit", "joining"}
    BY <1>2, <2>1, Zenon DEF IInv, JoinOK
  <2>4. to_join["shutdown"] # {} => shutdown' = "joining"
    BY Zenon DEF IInv, JoinOK, closing
  <2> QED BY <2>2, <2>3, <2>4, JoinFrame, Zenon DEF IInv, RemoveFirst, deaths
<1>7. DeathOK'
  <2>1. ~all_workers_dead /\ shutdown \notin {"obtain", "joining", "returned"}
    BY LivingPool, Zenon DEF IdlePlace
  <2> QED BY <2>1, Zenon DEF DeathOK, RemoveFirst, deaths, closing
<1>8. JobOK'
  <2>1. /\ 1 \in 1 .. Len(tasks)
        /\ \A i \in 1 .. Len(tasks') : i + 1 \in 1 .. Len(tasks) /\ i + 1 # 1
    BY <1>4
  <2>2. \A v \in Worker : IF place'[v] = "task" THEN \E t \in Task : job'[v] = {t} ELSE job'[v] = {}
    <3> SUFFICES ASSUME NEW v \in Worker
                 PROVE  IF place'[v] = "task" THEN \E t \in Task : job'[v] = {t} ELSE job'[v] = {}
      OBVIOUS
    <3>1. CASE v = w
      BY <3>1, <1>2, <1>3, <1>4, Zenon
    <3>2. CASE v # w
      <4>1. IF place[v] = "task" THEN \E t \in Task : job[v] = {t} ELSE job[v] = {}
        BY Zenon DEF IInv, JobOK
      <4> QED BY <3>2, <4>1, <1>2, <1>3, Zenon
    <3> QED BY <3>1, <3>2, Zenon
  <2>3. \A i, k \in 1 .. Len(tasks') : tasks'[i] = tasks'[k] => i = k
    <3> SUFFICES ASSUME NEW i \in 1 .. Len(tasks'), NEW k \in 1 .. Len(tasks'), tasks'[i] = tasks'[k]
                 PROVE  i = k
      OBVIOUS
    <3>1. tasks[i + 1] = tasks[k + 1]
      BY <1>4, Zenon
    <3>2. i + 1 = k + 1
      BY <3>1, <2>1, Zenon DEF IInv, JobOK
    <3> QED BY <3>2
  <2>4. \A i \in 1 .. Len(tasks') : tasks'[i] \in accepted' /\ tasks'[i] # Head(tasks)
    <3> SUFFICES ASSUME NEW i \in 1 .. Len(tasks')
                 PROVE  tasks[i + 1] \in accepted /\ tasks[i + 1] # tasks[1]
      BY <1>4, Zenon
    <3> QED BY <2>1, Zenon DEF IInv, JobOK
  <2>5. Head(tasks) \in accepted /\ \A v \in Worker : Head(tasks) \notin job[v]
    <3>1. tasks[1] \in accepted /\ \A v \in Worker : tasks[1] \notin job[v]
      BY <2>1, Zenon DEF IInv, JobOK
    <3> QED BY <3>1, <1>4, Zenon
  <2>6. \A v \in Worker : job'[v] \subseteq accepted'
    BY <1>3, <2>5 DEF IInv, JobOK
  <2>7. \A v \in Worker : \A i \in 1 .. Len(tasks') : tasks'[i] \notin job'[v]
    <3> SUFFICES ASSUME NEW v \in Worker, NEW i \in 1 .. Len(tasks')
                 PROVE  tasks'[i] \notin job'[v]
      OBVIOUS
    <3>1. CASE v = w
      BY <3>1, <1>3, <2>4, Zenon
    <3>2. CASE v # w
      <4>1. tasks[i + 1] \notin job[v]
        BY <2>1, Zenon DEF IInv, JobOK
      <4> QED BY <3>2, <4>1, <1>3, <1>4, Zenon
    <3> QED BY <3>1, <3>2, Zenon
  <2>8. \A u, v \in Worker : u # v => job'[u] \cap job'[v] = {}
    BY <1>3, <2>5 DEF IInv, JobOK
  <2> QED BY <2>2, <2>3, <2>4, <2>6, <2>7, <2>8, Zenon DEF JobOK
<1>9. NoTaskStranded'
  <2>1. Sleeping' = Sleeping /\ w \notin Sleeping
    BY <1>2, Zenon DEF Sleeping, RemoveFirst
  <2>2. Alert' = Alert \ {w}
    BY <2>1, Zenon DEF Alert
  <2>3. Alert \in SUBSET Worker
    BY SleepersIdle, Zenon DEF IInv
  <2>4. /\ Cardinality(Alert) \in Nat /\ Cardinality(Alert') \in Nat
        /\ Cardinality(Alert') >= Cardinality(Alert) - 1
    <3>1. Cardinality(Alert) \in Nat /\ Cardinality(Alert') \in Nat
      BY <2>2, <2>3, WorkerCounts, Zenon
    <3>2. CASE w \in Alert
      BY <3>1, <3>2, <2>2, <2>3, WorkerCounts
    <3>3. CASE w \notin Alert
      <4>1. Alert' = Alert
        BY <3>3, <2>2, Zenon
      <4> QED BY <4>1, <3>1
    <3> QED BY <3>2, <3>3, Zenon
  <2>5. Sleeping' # {} => Cardinality(Alert') >= Len(tasks')
    BY <1>4, <2>1, <2>4 DEF IInv, NoTaskStranded
  <2>6. Alert' \cup pool'.running # {}
    OBVIOUS
  <2> QED BY <2>5, <2>6, Zenon DEF NoTaskStranded
<1>10. Fits(pool, place)'
  BY Zenon DEF Fits
<1> QED BY <1>5, <1>6, <1>7, <1>8, <1>9, <1>10, Zenon DEF IInv

-----------------------------------------------------------------------------

(* The steps of WorkerLoop.  A wait, or NotifyIdle, ends and tasks_ is not  *)
(* empty: back to the top of the loop.                                     *)
LEMMA WakeInv ==
  ASSUME IInv, NEW w \in Worker, place[w] \in IdlePlace, Goto(w, "top"),
         UNCHANGED <<pool, queue, limits, deaths, closing, job, accepted>>
  PROVE  IInv'
<1>1. place' = [place EXCEPT ![w] = "top"] /\ notified' = [notified EXCEPT ![w] = FALSE]
  BY Zenon DEF Goto, At
<1>2. /\ place'[w] = "top" /\ \A v \in Worker : v # w => place'[v] = place[v]
      /\ \A v \in Worker : v # w => notified'[v] = notified[v]
  BY <1>1, Zenon DEF IInv, TypeOK
<1>3. TypeOK'
  <2>1. place' \in [Worker -> Places] /\ notified' \in [Worker -> BOOLEAN]
    BY <1>1, Zenon DEF IInv, TypeOK, Places
  <2> QED BY <2>1, Zenon DEF IInv, TypeOK, queue, limits, deaths, closing
<1>4. Fits(pool', place')
  <2>1. Fits(pool, [place EXCEPT ![w] = "top"])
    BY StayFits, Zenon DEF IInv, TypeOK, IdlePlace, Places
  <2> QED BY <1>1, <2>1, Zenon
<1>5. JoinOK' /\ NoCycle'
  <2>1. to_join[w] = {}
    BY LivingJoinsNobody, Zenon DEF IInv, IdlePlace
  <2>2. \A v \in Worker : place'[v] \in GonePlace <=> place[v] \in GonePlace
    BY <1>2, Zenon DEF GonePlace, IdlePlace
  <2>3. \A v \in Worker : to_join[v] # {} => place'[v] \in {"notifyExit", "joining"}
    BY <1>2, <2>1, Zenon DEF IInv, JoinOK
  <2>4. to_join["shutdown"] # {} => shutdown' = "joining"
    BY Zenon DEF IInv, JoinOK, closing
  <2> QED BY <2>2, <2>3, <2>4, JoinFrame, Zenon DEF IInv, deaths
<1>6. DeathOK'
  <2>1. ~all_workers_dead /\ shutdown \notin {"obtain", "joining", "returned"}
    BY LivingPool, Zenon
  <2> QED BY <2>1, Zenon DEF DeathOK, deaths, closing
<1>7. JobOK'
  <2>1. \A v \in Worker : place'[v] = "task" <=> place[v] = "task"
    BY <1>2, Zenon DEF IdlePlace
  <2> QED BY <2>1, JobFrame, Zenon DEF IInv, queue
<1>8. Fits(pool, place)'
  BY <1>4, Zenon DEF Fits
<1>9. NoTaskStranded'
  <2>1. Sleeping' \subseteq Sleeping
    BY <1>2, Zenon DEF Sleeping
  <2> QED BY <2>1, <1>8, WakingStrandsNone, Zenon DEF IInv, TypeOK, queue
<1> QED BY <1>3, <1>5, <1>6, <1>7, <1>8, <1>9, Zenon DEF IInv

(* A worker without a task is at the end of the loop.                      *)
LEMMA GotoInv ==
  ASSUME IInv, NEW w \in Worker, NEW q \in IdlePlace, tasks = <<>>,
         place[w] \in IdlePlace \cup {"task"}, Goto(w, q),
         pool' = IF place[w] = "task" THEN RunningToIdleLocked(pool, w) ELSE pool,
         job' \in [Worker -> SUBSET Task],
         job'[w] = {}, \A v \in Worker : v # w => job'[v] = job[v],
         UNCHANGED <<queue, limits, deaths, closing, accepted>>
  PROVE  IInv'
<1>1. place' = [place EXCEPT ![w] = q] /\ notified' = [notified EXCEPT ![w] = FALSE]
  BY Zenon DEF Goto, At
<1>2. place \in [Worker -> Places] /\ Fits(pool, place) /\ q \in Places
  BY Zenon DEF IInv, TypeOK, IdlePlace, Places
<1>3. TypeOK'
  <2>1. place' \in [Worker -> Places] /\ notified' \in [Worker -> BOOLEAN]
    BY <1>1, <1>2, Zenon DEF IInv, TypeOK
  <2> QED BY <2>1, Zenon DEF IInv, TypeOK, queue, limits, deaths, closing
<1>4. Fits(pool', place') /\ pool'.dead = pool.dead
  <2>1. CASE place[w] = "task"
    BY <1>1, <1>2, <2>1, IdleFits, Zenon
  <2>2. CASE place[w] # "task"
    <3>1. place[w] \in IdlePlace /\ pool' = pool
      BY <2>2, Zenon
    <3> QED BY <1>1, <1>2, <3>1, StayFits, Zenon
  <2> QED BY <2>1, <2>2, Zenon
<1> QED BY <1>1, <1>3, <1>4, RestInv, Zenon

(* DieOrWait and GoIdle, from a task or not.                               *)
LEMMA DieHereInv ==
  ASSUME IInv, NEW w \in Worker, tasks = <<>>, place[w] \in IdlePlace \cup {"task"},
         Die(w, IF place[w] = "task" THEN RunningToIdleLocked(pool, w) ELSE pool),
         job' \in [Worker -> SUBSET Task],
         job'[w] = {}, \A v \in Worker : v # w => job'[v] = job[v],
         UNCHANGED <<queue, limits, closing, accepted>>
  PROVE  IInv'
<1>1. place \in [Worker -> Places] /\ Fits(pool, place)
  BY Zenon DEF IInv, TypeOK
<1>2. CASE place[w] = "task"
  <2> DEFINE pl == [place EXCEPT ![w] = "top"]
             p == RunningToIdleLocked(pool, w)
  <2>1. pl \in [Worker -> Places] /\ pl[w] \in IdlePlace /\ \A v \in Worker : v # w => pl[v] = place[v]
    BY <1>1, Zenon DEF Places, IdlePlace
  <2>2. Fits(p, pl) /\ p.dead = pool.dead
    <3>1. "top" \in IdlePlace
      BY Zenon DEF IdlePlace
    <3> QED BY <3>1, <1>1, <1>2, IdleFits, Zenon
  <2>3. Die(w, p)
    BY <1>2, Zenon
  <2> HIDE DEF p, pl
  <2> QED BY <2>1, <2>2, <2>3, DieInv, Zenon
<1>3. CASE place[w] # "task"
  <2>1. place[w] \in IdlePlace /\ Die(w, pool)
    BY <1>3, Zenon
  <2> QED BY <1>1, <2>1, DieInv, Zenon
<1> QED BY <1>2, <1>3, Zenon

LEMMA DieOrWaitInv ==
  ASSUME IInv, NEW w \in Worker, tasks = <<>>, place[w] \in IdlePlace \cup {"task"},
         DieOrWait(w, IF place[w] = "task" THEN RunningToIdleLocked(pool, w) ELSE pool),
         job' \in [Worker -> SUBSET Task],
         job'[w] = {}, \A v \in Worker : v # w => job'[v] = job[v],
         UNCHANGED <<queue, limits, closing, accepted>>
  PROVE  IInv'
<1> DEFINE p == IF place[w] = "task" THEN RunningToIdleLocked(pool, w) ELSE pool
<1>1. CASE Die(w, p)
  BY <1>1, DieHereInv, Zenon
<1>2. CASE Goto(w, "wait") /\ pool' = p /\ UNCHANGED deaths
  BY <1>2, GotoInv, Zenon DEF IdlePlace
<1> HIDE DEF p
<1> QED BY <1>1, <1>2, Zenon DEF DieOrWait, p

LEMMA GoIdleInv ==
  ASSUME IInv, NEW w \in Worker, tasks = <<>>, place[w] \in IdlePlace \cup {"task"},
         GoIdle(w, IF place[w] = "task" THEN RunningToIdleLocked(pool, w) ELSE pool),
         job' \in [Worker -> SUBSET Task],
         job'[w] = {}, \A v \in Worker : v # w => job'[v] = job[v],
         UNCHANGED <<queue, limits, closing, accepted>>
  PROVE  IInv'
<1> DEFINE p == IF place[w] = "task" THEN RunningToIdleLocked(pool, w) ELSE pool
<1>1. CASE DieOrWait(w, p)
  BY <1>1, DieOrWaitInv, Zenon
<1>2. CASE (\E q \in {"notifyIdle", "idleWait"} : Goto(w, q)) /\ pool' = p /\ UNCHANGED deaths
  <2>1. PICK q \in {"notifyIdle", "idleWait"} : Goto(w, q)
    BY <1>2, Zenon
  <2>2. q \in IdlePlace
    BY Zenon DEF IdlePlace
  <2> QED BY <1>2, <2>1, <2>2, GotoInv, Zenon
<1> HIDE DEF p
<1> QED BY <1>1, <1>2, Zenon DEF GoIdle, p

LEMMA EnterLoopInv ==
  ASSUME IInv, NEW w \in Worker, EnterLoop(w)
  PROVE  IInv'
<1>1. place \in [Worker -> Places] /\ Fits(pool, place) /\ place[w] = "top" /\ place[w] \in IdlePlace
  BY Zenon DEF IInv, TypeOK, EnterLoop, IdlePlace
<1>2. CASE tasks # <<>>
  <2>1. RemoveFirst(w) /\ pool' = IdleToRunningLocked(pool, w) /\ UNCHANGED <<limits, closing, accepted>>
    BY <1>2, Zenon DEF EnterLoop
  <2>2. place' = [place EXCEPT ![w] = "task"]
    BY <2>1, Zenon DEF RemoveFirst, At
  <2>3. Fits(pool', place') /\ pool'.dead = pool.dead
    <3> DEFINE r == IdleToRunningLocked(pool, w)
               pl == [place EXCEPT ![w] = "task"]
    <3>1. Fits(r, pl) /\ r.dead = pool.dead
      BY <1>1, RunFits, Zenon
    <3> HIDE DEF r, pl
    <3> QED BY <2>1, <2>2, <3>1, Zenon DEF r, pl
  <2>4. place'[w] = "task" /\ \A v \in Worker : v # w => place'[v] = place[v]
    BY <1>1, <2>2
  <2>5. pool'.idle = pool.idle \ {w} /\ w \in pool'.running
    BY <1>1, <2>3, <2>4 DEF Fits, IdlePlace
  <2> QED BY <1>1, <1>2, <2>1, <2>3, <2>5, TakeInv, Zenon
<1>3. CASE tasks = <<>>
  <2>1. GoIdle(w, pool) /\ UNCHANGED <<queue, job, limits, closing, accepted>>
    BY <1>3, Zenon DEF EnterLoop
  <2>2. job \in [Worker -> SUBSET Task] /\ job[w] = {}
    BY <1>1, Zenon DEF IInv, TypeOK, JobOK
  <2> QED BY <1>1, <1>3, <2>1, <2>2, GoIdleInv, Zenon
<1> QED BY <1>2, <1>3, Zenon

LEMMA FinishTaskInv ==
  ASSUME IInv, NEW w \in Worker, FinishTask(w)
  PROVE  IInv'
<1>1. place \in [Worker -> Places] /\ Fits(pool, place) /\ place[w] = "task"
  BY Zenon DEF IInv, TypeOK, FinishTask
<1>2. CASE tasks # <<>>
  <2>1. RemoveFirst(w) /\ pool' = pool /\ UNCHANGED <<limits, closing, accepted>>
    BY <1>2, Zenon DEF FinishTask
  <2>2. place' = place
    BY <1>1, <2>1, Zenon DEF RemoveFirst, At
  <2>3. Fits(pool', place') /\ pool'.idle = pool.idle \ {w} /\ w \in pool'.running
    BY <1>1, <2>1, <2>2, Zenon DEF Fits, IdlePlace
  <2> QED BY <1>1, <1>2, <2>1, <2>3, TakeInv, Zenon
<1>3. CASE tasks = <<>>
  <2>1. /\ GoIdle(w, RunningToIdleLocked(pool, w)) /\ job' = [job EXCEPT ![w] = {}]
        /\ UNCHANGED <<queue, limits, closing, accepted>>
    BY <1>3, Zenon DEF FinishTask
  <2>2. /\ job' \in [Worker -> SUBSET Task] /\ job'[w] = {}
        /\ \A v \in Worker : v # w => job'[v] = job[v]
    BY <2>1, Zenon DEF IInv, TypeOK
  <2> QED BY <1>1, <1>3, <2>1, <2>2, GoIdleInv, Zenon
<1> QED BY <1>2, <1>3, Zenon

LEMMA WaitsInv ==
  ASSUME IInv, NEW w \in Worker, NEW timed_out \in BOOLEAN,
         WakeUp(w, timed_out) \/ IdleWakeUp(w, timed_out) \/ IdleNotified(w)
  PROVE  IInv'
<1>1. /\ place[w] \in IdlePlace /\ place[w] # "task" /\ job \in [Worker -> SUBSET Task] /\ job[w] = {}
      /\ UNCHANGED <<queue, limits, closing, job, accepted>>
  BY Zenon DEF IInv, TypeOK, JobOK, WakeUp, IdleWakeUp, IdleNotified, IdlePlace
<1>2. CASE Goto(w, "top") /\ UNCHANGED <<pool, deaths>>
  BY <1>1, <1>2, WakeInv, Zenon
<1>3. CASE tasks = <<>> /\ Die(w, pool)
  BY <1>1, <1>3, DieHereInv, Zenon
<1>4. CASE tasks = <<>> /\ DieOrWait(w, pool)
  BY <1>1, <1>4, DieOrWaitInv, Zenon
<1>5. CASE tasks = <<>> /\ (Goto(w, "wait") \/ Goto(w, "notifyIdle")) /\ UNCHANGED <<pool, deaths>>
  <2>1. PICK q \in IdlePlace : Goto(w, q)
    BY <1>5, Zenon DEF IdlePlace
  <2> QED BY <1>1, <1>5, <2>1, GotoInv, Zenon
<1>6. CASE WakeUp(w, timed_out)
  BY <1>2, <1>3, <1>5, <1>6, Zenon DEF WakeUp
<1>7. CASE IdleWakeUp(w, timed_out)
  BY <1>2, <1>4, <1>5, <1>7, Zenon DEF IdleWakeUp
<1>8. CASE IdleNotified(w)
  BY <1>2, <1>4, <1>8, Zenon DEF IdleNotified
<1> QED BY <1>6, <1>7, <1>8, Zenon

(* NotifyExit and ExitThread: a dead worker goes on, with nobody to join   *)
(* or before it joins them.                                                *)
LEMMA DeadStepInv ==
  ASSUME IInv, NEW w \in Worker, NotifyExit(w) \/ ExitThread(w)
  PROVE  IInv'
<1>1. PICK q \in {"joining", "exited"} :
            place' = [place EXCEPT ![w] = q] /\ (q = "joining" \/ to_join[w] = {})
  BY Zenon DEF NotifyExit, ExitThread, At
<1>2. /\ place[w] \in GonePlace
      /\ UNCHANGED <<pool, queue, limits, deaths, shutting_down, shutdown, notified, job, accepted>>
  BY Zenon DEF NotifyExit, ExitThread, GonePlace, closing
<1>3. place'[w] = q /\ \A v \in Worker : v # w => place'[v] = place[v]
  BY <1>1, Zenon DEF IInv, TypeOK
<1>4. TypeOK'
  <2>1. place' \in [Worker -> Places]
    BY <1>1, Zenon DEF IInv, TypeOK, Places
  <2>2. exit_notified' \in BOOLEAN
    BY Zenon DEF IInv, TypeOK, NotifyExit, ExitThread, closing
  <2> QED BY <1>2, <2>1, <2>2, Zenon DEF IInv, TypeOK, queue, limits, deaths
<1>5. Fits(pool, place)'
  <2>1. Fits(pool, [place EXCEPT ![w] = q])
    BY <1>2, StayFits, Zenon DEF IInv, TypeOK, GonePlace, Places
  <2>2. Fits(pool', place')
    BY <1>1, <1>2, <2>1, Zenon
  <2> QED BY <2>2, Zenon DEF Fits
<1>6. \A v \in Worker : place'[v] \in GonePlace <=> place[v] \in GonePlace
  BY <1>2, <1>3, Zenon DEF GonePlace
<1>7. \A v \in Worker : to_join[v] # {} => place'[v] \in {"notifyExit", "joining"}
  BY <1>1, <1>3, Zenon DEF IInv, JoinOK
<1>8. to_join["shutdown"] # {} => shutdown' = "joining"
  BY <1>2, Zenon DEF IInv, JoinOK
<1>9. JoinOK' /\ NoCycle'
  BY <1>2, <1>6, <1>7, <1>8, JoinFrame DEF IInv, deaths
<1>10. DeathOK'
  <2>1. shutdown # "returned"
    BY <1>2, Zenon DEF IInv, DeathOK, GonePlace
  <2> QED BY <1>2, <2>1, Zenon DEF IInv, DeathOK, deaths, queue
<1>11. JobOK'
  <2>1. \A v \in Worker : place'[v] = "task" <=> place[v] = "task"
    BY <1>2, <1>3, Zenon DEF GonePlace
  <2> QED BY <1>2, <2>1, JobFrame, Zenon DEF IInv, queue
<1>12. NoTaskStranded'
  <2>1. Sleeping' \subseteq Sleeping
    BY <1>2, <1>3, Zenon DEF Sleeping
  <2> QED BY <1>2, <1>5, <2>1, WakingStrandsNone, Zenon DEF IInv, TypeOK, queue
<1> QED BY <1>4, <1>5, <1>9, <1>10, <1>11, <1>12 DEF IInv

(* A dead worker that has ended is joined by the one thread that has it.   *)
LEMMA JoinInv ==
  ASSUME IInv, NEW j \in Joiner, NEW u \in Worker, JoinWorker(j, u)
  PROVE  IInv'
<1>1. /\ place' = [place EXCEPT ![u] = "none"] /\ to_join' = [to_join EXCEPT ![j] = to_join[j] \ {u}]
      /\ place[u] = "exited" /\ u \in to_join[j]
      /\ UNCHANGED <<pool, queue, limits, all_workers_dead, closing, notified, job, accepted>>
  BY Zenon DEF JoinWorker, At
<1>2. place'[u] = "none" /\ \A v \in Worker : v # u => place'[v] = place[v]
  BY <1>1, Zenon DEF IInv, TypeOK
<1>3. to_join'[j] = to_join[j] \ {u} /\ \A i \in Joiner : i # j => to_join'[i] = to_join[i]
  BY <1>1, Zenon DEF IInv, TypeOK
<1>4. u \notin pool.dead /\ to_join[u] = {} /\ \A i \in Joiner : u \notin to_join'[i]
  BY <1>1, <1>3, Zenon DEF IInv, JoinOK
<1>5. TypeOK'
  <2>1. place' \in [Worker -> Places] /\ to_join' \in [Joiner -> SUBSET Worker]
    BY <1>1, Zenon DEF IInv, TypeOK, Places
  <2> QED BY <1>1, <2>1, Zenon DEF IInv, TypeOK, queue, limits, closing
<1>6. Fits(pool, place)'
  <2>1. Fits(pool, [place EXCEPT ![u] = "none"])
    BY <1>1, <1>4, StayFits, Zenon DEF IInv, TypeOK, GonePlace, Places
  <2>2. Fits(pool', place')
    BY <1>1, <2>1, Zenon
  <2> QED BY <2>2, Zenon DEF Fits
<1>7. JoinOK'
  <2>1. \A i \in Joiner : to_join'[i] \subseteq to_join[i]
    BY <1>3, Zenon
  <2>2. \A i \in Joiner : \A v \in to_join'[i] : place'[v] \in GonePlace /\ v \notin pool'.dead
    <3> SUFFICES ASSUME NEW i \in Joiner, NEW v \in to_join'[i]
                 PROVE  place'[v] \in GonePlace /\ v \notin pool'.dead
      OBVIOUS
    <3>1. v \in to_join[i] /\ v \in Worker /\ v # u
      BY <2>1, <1>4, Zenon DEF IInv, TypeOK
    <3> QED BY <3>1, <1>1, <1>2 DEF IInv, JoinOK
  <2>3. \A i, k \in Joiner : i # k => to_join'[i] \cap to_join'[k] = {}
    BY <2>1, Zenon DEF IInv, JoinOK
  <2>4. \A v \in Worker : place'[v] \in GonePlace =>
           v \in pool'.dead \/ \E i \in Joiner : v \in to_join'[i]
    <3> SUFFICES ASSUME NEW v \in Worker, place'[v] \in GonePlace
                 PROVE  v \in pool'.dead \/ \E i \in Joiner : v \in to_join'[i]
      OBVIOUS
    <3>1. v # u /\ place[v] \in GonePlace
      BY <1>2, Zenon DEF GonePlace
    <3> QED BY <3>1, <1>1, <1>3 DEF IInv, JoinOK
  <2>5. \A v \in Worker : to_join'[v] # {} => place'[v] \in {"notifyExit", "joining"}
    <3> SUFFICES ASSUME NEW v \in Worker, to_join'[v] # {}
                 PROVE  place'[v] \in {"notifyExit", "joining"}
      OBVIOUS
    <3>1. to_join[v] # {} /\ v # u
      BY <2>1, <1>4, Zenon DEF Joiner
    <3> QED BY <3>1, <1>2, Zenon DEF IInv, JoinOK
  <2>6. to_join'["shutdown"] # {} => shutdown' = "joining"
    BY <2>1, <1>1, Zenon DEF IInv, JoinOK, Joiner, closing
  <2>7. \A v, x \in pool'.dead : v = x
    BY <1>1, Zenon DEF IInv, JoinOK
  <2> QED BY <2>2, <2>3, <2>4, <2>5, <2>6, <2>7, Zenon DEF JoinOK, Joiner
<1>8. NoCycle'
  <2> SUFFICES ASSUME NEW C \in SUBSET Worker, C # {}, \A v \in C : place'[v] \in GonePlace
               PROVE  \E v \in C : \/ v \in pool'.dead
                                   \/ \E i \in Joiner \ C : v \in to_join'[i]
    BY Zenon DEF NoCycle, Joiner
  <2>1. u \notin C /\ \A v \in C : place[v] \in GonePlace
    BY <1>2, Zenon DEF GonePlace
  <2>2. PICK v \in C : v \in pool.dead \/ \E i \in Joiner \ C : v \in to_join[i]
    BY <2>1, Zenon DEF IInv, NoCycle
  <2> QED BY <2>1, <2>2, <1>1, <1>3, Zenon
<1>9. DeathOK'
  <2>1. shutdown # "returned"
    BY <1>1, Zenon DEF IInv, DeathOK
  <2> QED BY <1>1, <2>1, Zenon DEF IInv, DeathOK, closing, queue
<1>10. JobOK'
  <2>1. \A v \in Worker : place'[v] = "task" <=> place[v] = "task"
    BY <1>1, <1>2, Zenon
  <2> QED BY <1>1, <2>1, JobFrame, Zenon DEF IInv, queue
<1>11. NoTaskStranded'
  <2>1. Sleeping' \subseteq Sleeping
    BY <1>1, <1>2, Zenon DEF Sleeping
  <2> QED BY <1>1, <1>6, <2>1, WakingStrandsNone DEF IInv, TypeOK, queue
<1> QED BY <1>5, <1>6, <1>7, <1>8, <1>9, <1>10, <1>11 DEF IInv

-----------------------------------------------------------------------------

(* A new worker: NewWorker, in a step that moves no other worker.          *)
LEMMA NewWorkerFacts ==
  ASSUME IInv, NewWorker
  PROVE  \E w \in Worker :
            /\ place[w] = "none" /\ place' = [place EXCEPT ![w] = "top"]
            /\ place'[w] = "top" /\ \A v \in Worker : v # w => place'[v] = place[v]
            /\ place' \in [Worker -> Places]
            /\ Fits(pool', place') /\ pool'.dead = pool.dead /\ pool'.running = pool.running
            /\ pool'.idle = pool.idle \cup {w} /\ w \notin pool.idle
            /\ to_join[w] = {}
<1>1. PICK w \in Worker :
            /\ place[w] = "none" /\ place' = [place EXCEPT ![w] = "top"]
            /\ pool' = WorkerAdded(pool, w)
  BY Zenon DEF NewWorker, At, WorkerAdded
<1>2. place \in [Worker -> Places] /\ Fits(pool, place)
  BY Zenon DEF IInv, TypeOK
<1>3. /\ place'[w] = "top" /\ \A v \in Worker : v # w => place'[v] = place[v]
      /\ place' \in [Worker -> Places]
  BY <1>1, <1>2, Zenon DEF Places
<1>4. Fits(pool', place') /\ pool'.dead = pool.dead /\ pool'.running = pool.running
  <2> DEFINE r == WorkerAdded(pool, w)
             pl == [place EXCEPT ![w] = "top"]
  <2>1. place[w] = "none"
    BY <1>1, Zenon
  <2>2. Fits(r, pl) /\ r.dead = pool.dead /\ r.running = pool.running
    BY <1>2, <2>1, NewFits, Zenon
  <2> HIDE DEF r, pl
  <2> QED BY <1>1, <2>2, Zenon DEF r, pl
<1>5. w \notin pool.idle
  BY <1>1, <1>2, Zenon DEF Fits, IdlePlace
<1>6. pool'.idle = pool.idle \cup {w}
  BY <1>2, <1>3, <1>4, Zenon DEF Fits, IdlePlace
<1>7. to_join[w] = {}
  BY <1>1, LivingJoinsNobody, Zenon DEF IInv
<1> QED BY <1>1, <1>3, <1>4, <1>5, <1>6, <1>7, Zenon

(* What a step that makes no worker, or one, leaves as it was.             *)
LEMMA GrowthInv ==
  ASSUME IInv, (UNCHANGED <<pool, place>>) \/ NewWorker,
         ~all_workers_dead, UNCHANGED <<deaths, closing, job>>
  PROVE  /\ Fits(pool, place)' /\ place' \in [Worker -> Places]
         /\ JoinOK' /\ NoCycle' /\ DeathOK'
         /\ \A v \in Worker : place'[v] = "task" <=> place[v] = "task"
<1>1. \A v \in Worker : place'[v] = place[v] \/ (place[v] = "none" /\ place'[v] = "top")
  BY NewWorkerFacts, Zenon
<1>2. /\ Fits(pool', place') /\ pool'.dead = pool.dead /\ place' \in [Worker -> Places]
  BY NewWorkerFacts, Zenon DEF IInv, TypeOK
<1>3. \A v \in Worker : place'[v] \in GonePlace <=> place[v] \in GonePlace
  BY <1>1, Zenon DEF GonePlace
<1>4. \A v \in Worker : to_join[v] # {} => place'[v] \in {"notifyExit", "joining"}
  BY <1>1, Zenon DEF IInv, JoinOK
<1>5. to_join["shutdown"] # {} => shutdown' = "joining"
  BY Zenon DEF IInv, JoinOK, closing
<1>6. JoinOK' /\ NoCycle'
  BY <1>2, <1>3, <1>4, <1>5, JoinFrame DEF IInv, deaths
<1>7. DeathOK'
  BY Zenon DEF IInv, DeathOK, deaths, closing
<1> QED BY <1>1, <1>2, <1>6, <1>7 DEF Fits

LEMMA RunImplInv ==
  ASSUME IInv, NEW t \in Task, RunImpl(t)
  PROVE  IInv'
<1>1. /\ t \notin accepted /\ ~shutting_down /\ accepted' = accepted \cup {t}
      /\ tasks' = Append(tasks, t) /\ pending_tasks' = pending_tasks + 1
      /\ UNCHANGED <<limits, deaths, closing, job>>
  BY Zenon DEF RunImpl, ScheduleTaskLocked
<1>2. ~all_workers_dead
  BY <1>1, Zenon DEF IInv, DeathOK
<1>3. (UNCHANGED <<pool, place>>) \/ NewWorker
  BY Zenon DEF RunImpl, ScheduleTaskLocked
<1>4. /\ Fits(pool, place)' /\ place' \in [Worker -> Places] /\ JoinOK' /\ NoCycle' /\ DeathOK'
      /\ \A v \in Worker : place'[v] = "task" <=> place[v] = "task"
  BY <1>1, <1>2, <1>3, GrowthInv
<1>5. /\ tasks \in Seq(Task) /\ Len(tasks) \in Nat /\ tasks' \in Seq(Task)
      /\ Len(tasks') = Len(tasks) + 1 /\ tasks' # <<>>
      /\ \A i \in 1 .. Len(tasks) : tasks'[i] = tasks[i]
      /\ tasks'[Len(tasks) + 1] = t
  BY <1>1 DEF IInv, TypeOK
<1>6. TypeOK'
  <2>1. pending_tasks' = Len(tasks')
    BY <1>1, <1>5, Zenon DEF IInv, TypeOK
  <2>2. notified' \in [Worker -> BOOLEAN]
    BY Zenon DEF RunImpl, ScheduleTaskLocked, Notify, IInv, TypeOK
  <2>3. accepted' \in SUBSET Task
    BY <1>1, Zenon DEF IInv, TypeOK
  <2> QED BY <1>1, <1>4, <1>5, <2>1, <2>2, <2>3, Zenon DEF IInv, TypeOK, limits, deaths, closing
<1>7. JobOK'
  <2>1. \A i \in 1 .. Len(tasks') : i \in 1 .. Len(tasks) \/ i = Len(tasks) + 1
    BY <1>5
  <2>2. \A i \in 1 .. Len(tasks) : tasks[i] \in accepted
    BY Zenon DEF IInv, JobOK
  <2>3. \A i, k \in 1 .. Len(tasks') : tasks'[i] = tasks'[k] => i = k
    <3> SUFFICES ASSUME NEW i \in 1 .. Len(tasks'), NEW k \in 1 .. Len(tasks'), tasks'[i] = tasks'[k]
                 PROVE  i = k
      OBVIOUS
    <3>1. CASE i \in 1 .. Len(tasks) /\ k \in 1 .. Len(tasks)
      <4>1. tasks[i] = tasks[k]
        BY <3>1, <1>5, Zenon
      <4> QED BY <3>1, <4>1, Zenon DEF IInv, JobOK
    <3>2. CASE i = Len(tasks) + 1 /\ k \in 1 .. Len(tasks)
      BY <3>2, <1>1, <1>5, <2>2
    <3>3. CASE k = Len(tasks) + 1 /\ i \in 1 .. Len(tasks)
      BY <3>3, <1>1, <1>5, <2>2
    <3> QED BY <2>1, <3>1, <3>2, <3>3, Zenon
  <2>4. \A i \in 1 .. Len(tasks') : tasks'[i] \in accepted'
    BY <1>1, <1>5, <2>1, <2>2, Zenon
  <2>5. \A v \in Worker : job'[v] \subseteq accepted /\ job'[v] = job[v]
    BY <1>1, Zenon DEF IInv, JobOK
  <2>6. \A v \in Worker : \A i \in 1 .. Len(tasks') : tasks'[i] \notin job'[v]
    <3> SUFFICES ASSUME NEW v \in Worker, NEW i \in 1 .. Len(tasks')
                 PROVE  tasks'[i] \notin job[v]
      BY <2>5, Zenon
    <3>1. CASE i \in 1 .. Len(tasks)
      BY <3>1, <1>5, Zenon DEF IInv, JobOK
    <3>2. CASE i = Len(tasks) + 1
      BY <3>2, <1>1, <1>5, <2>5, Zenon
    <3> QED BY <2>1, <3>1, <3>2, Zenon
  <2>7. \A v \in Worker : IF place'[v] = "task" THEN \E x \in Task : job'[v] = {x} ELSE job'[v] = {}
    <3> SUFFICES ASSUME NEW v \in Worker
                 PROVE  IF place'[v] = "task" THEN \E x \in Task : job[v] = {x} ELSE job[v] = {}
      BY <2>5, Zenon
    <3>1. IF place[v] = "task" THEN \E x \in Task : job[v] = {x} ELSE job[v] = {}
      BY Zenon DEF IInv, JobOK
    <3> QED BY <3>1, <1>4, Zenon
  <2>8. \A u, v \in Worker : u # v => job'[u] \cap job'[v] = {}
    BY <2>5, Zenon DEF IInv, JobOK
  <2>9. \A v \in Worker : job'[v] \subseteq accepted'
    BY <1>1, <2>5, Zenon
  <2> QED BY <2>3, <2>4, <2>6, <2>7, <2>8, <2>9, Zenon DEF JobOK
<1>8. NoTaskStranded'
  <2>1. /\ Sleeping \subseteq pool.idle /\ Sleeping \subseteq Worker /\ Alert \in SUBSET Worker
        /\ Cardinality(Alert) \in Nat
    BY SleepersIdle, WorkerCounts, Zenon DEF IInv
  <2>2. ASSUME NEW w \in Worker, w \notin Alert, Alert' = Alert \cup {w}, Sleeping' \subseteq Sleeping
        PROVE  NoTaskStranded'
    <3>1. Cardinality(Alert') = Cardinality(Alert) + 1
      BY <2>1, <2>2, WorkerCounts, Zenon
    <3>2. Sleeping' # {} => Cardinality(Alert') >= Len(tasks')
      BY <1>5, <2>1, <2>2, <3>1 DEF IInv, NoTaskStranded
    <3> QED BY <2>2, <3>2, Zenon DEF NoTaskStranded
  <2>3. CASE NewWorker /\ UNCHANGED notified
    <3>1. PICK w \in Worker :
              /\ place[w] = "none" /\ place'[w] = "top" /\ \A v \in Worker : v # w => place'[v] = place[v]
              /\ pool'.idle = pool.idle \cup {w} /\ w \notin pool.idle
      BY <2>3, NewWorkerFacts, Zenon
    <3>2. Sleeping' = Sleeping
      BY <2>3, <3>1, Zenon DEF Sleeping
    <3>3. w \notin Alert /\ Alert' = Alert \cup {w}
      BY <2>1, <3>1, <3>2, Zenon DEF Alert
    <3> QED BY <2>2, <3>2, <3>3, Zenon
  <2>4. CASE Sleeping # {} /\ Notify /\ UNCHANGED <<pool, place>>
    <3>1. PICK w \in Sleeping : notified' = [notified EXCEPT ![w] = TRUE]
      BY <2>4, Zenon DEF Notify
    <3>2. w \in Worker /\ notified'[w] /\ \A v \in Worker : v # w => notified'[v] = notified[v]
      BY <2>1, <3>1, Zenon DEF IInv, TypeOK
    <3>3. Sleeping' = Sleeping \ {w}
      BY <2>4, <3>2, Zenon DEF Sleeping
    <3>4. w \notin Alert /\ Alert' = Alert \cup {w}
      BY <2>1, <2>4, <3>1, <3>3 DEF Alert
    <3> QED BY <2>2, <3>2, <3>3, <3>4
  <2>5. CASE Sleeping = {} /\ UNCHANGED <<notified, pool, place>> /\ pool.idle \cup pool.running # {}
    <3>1. Sleeping' = {}
      BY <2>5, Zenon DEF Sleeping
    <3>2. Alert' = pool.idle
      BY <2>5, <3>1, Zenon DEF Alert
    <3> QED BY <2>5, <3>1, <3>2 DEF NoTaskStranded
  <2>6. /\ pool.idle \in SUBSET Worker /\ pool.running \in SUBSET Worker
        /\ pool.count_idle = Cardinality(pool.idle) /\ pool.count_running = Cardinality(pool.running)
    BY Zenon DEF IInv, Fits, PoolType
  <2>7. /\ pool.count_idle \in Nat /\ pool.count_running \in Nat
        /\ pool.idle = {} => pool.count_idle = 0
        /\ pool.running = {} => pool.count_running = 0
    BY <2>6, WorkerCounts, Zenon
  <2>8. CASE /\ pool.count_idle >= pending_tasks' \/ MaxedOut
             /\ UNCHANGED <<pool, place>>
             /\ Notify \/ (pool.idle = {} /\ UNCHANGED notified)
    <3>1. pending_tasks' >= 1 /\ pending_tasks' \in Nat /\ max_pool_size \in Nat
      BY <1>1, <1>5 DEF IInv, TypeOK
    <3>2. pool.idle \cup pool.running # {}
      BY <2>7, <2>8, <3>1 DEF MaxedOut
    <3>3. CASE Sleeping = {}
      BY <2>5, <2>8, <3>2, <3>3, Zenon DEF Notify
    <3>4. CASE Sleeping # {}
      BY <2>1, <2>4, <2>8, <3>4, Zenon
    <3> QED BY <3>3, <3>4, Zenon
  <2> QED BY <2>3, <2>8, Zenon DEF RunImpl, ScheduleTaskLocked
<1> QED BY <1>4, <1>6, <1>7, <1>8 DEF IInv

(* A task is marked as blocked, or no longer so.                           *)
LEMMA MarkInv ==
  ASSUME IInv, NEW w \in Worker, MarkCurrentWorkerAsBlocked(w) \/ MarkCurrentWorkerAsUnBlocked(w)
  PROVE  IInv'
<1>1. /\ place[w] = "task"
      /\ UNCHANGED <<queue, deaths, closing, notified, job, accepted>>
      /\ (UNCHANGED <<pool, place>>) \/ NewWorker
  BY Zenon DEF MarkCurrentWorkerAsBlocked, MarkCurrentWorkerAsUnBlocked
<1>2. ~all_workers_dead
  BY <1>1, LivingPool, Zenon
<1>3. /\ Fits(pool, place)' /\ place' \in [Worker -> Places] /\ JoinOK' /\ NoCycle' /\ DeathOK'
      /\ \A v \in Worker : place'[v] = "task" <=> place[v] = "task"
  BY <1>1, <1>2, GrowthInv, Zenon
<1>4. TypeOK'
  <2>1. max_pool_size' \in Nat
    BY DEF MarkCurrentWorkerAsBlocked, MarkCurrentWorkerAsUnBlocked, IInv, TypeOK
  <2>2. is_blocked' \in [Worker -> BOOLEAN]
    BY Zenon DEF MarkCurrentWorkerAsBlocked, MarkCurrentWorkerAsUnBlocked, IInv, TypeOK
  <2> QED BY <1>1, <1>3, <2>1, <2>2, ZenonT(30) DEF IInv, TypeOK, queue, deaths, closing
<1>5. JobOK'
  BY <1>1, <1>3, JobFrame, Zenon DEF IInv, queue
<1>6. NoTaskStranded'
  <2>1. Sleeping' \subseteq Sleeping /\ pool.idle \subseteq pool'.idle /\ pool.running \subseteq pool'.running
    <3>1. CASE UNCHANGED <<pool, place>>
      BY <1>1, <3>1, Zenon DEF Sleeping
    <3>2. CASE NewWorker
      <4>1. PICK v \in Worker :
                /\ place'[v] = "top" /\ \A x \in Worker : x # v => place'[x] = place[x]
                /\ pool'.running = pool.running /\ pool'.idle = pool.idle \cup {v}
        BY <3>2, NewWorkerFacts, Zenon
      <4> QED BY <1>1, <4>1, Zenon DEF Sleeping
    <3> QED BY <1>1, <3>1, <3>2, Zenon
  <2> QED BY <1>1, <1>3, <2>1, WakingStrandsNone, Zenon DEF IInv, TypeOK, queue
<1> QED BY <1>3, <1>4, <1>5, <1>6, Zenon DEF IInv

-----------------------------------------------------------------------------

(* The steps of Shutdown.                                                  *)
LEMMA ShutdownBeginInv ==
  ASSUME IInv, ShutdownBegin
  PROVE  IInv'
<1>1. /\ shutdown \in {"none", "returned"} /\ shutdown' = "exitCheck" /\ shutting_down' = TRUE
      /\ UNCHANGED <<pool, queue, limits, to_join, exit_notified, place, job, accepted>>
  BY Zenon DEF ShutdownBegin
<1>2. \/ NoWorkers(pool) /\ all_workers_dead' = TRUE /\ notified' = notified
      \/ ~NoWorkers(pool) /\ all_workers_dead' = all_workers_dead /\ NotifyAll
  BY Zenon DEF ShutdownBegin
<1>3. notified' \in [Worker -> BOOLEAN] /\ \A v \in Worker : notified[v] => notified'[v]
  BY <1>2, Zenon DEF NotifyAll, IInv, TypeOK
<1>4. all_workers_dead' \in BOOLEAN
  BY <1>2, Zenon DEF IInv, TypeOK
<1>5. TypeOK'
  BY <1>1, <1>3, <1>4, Zenon DEF IInv, TypeOK, queue, limits
<1>6. Fits(pool, place)'
  BY <1>1, Zenon DEF IInv, Fits
<1>7. JoinOK' /\ NoCycle'
  <2>1. to_join["shutdown"] # {} => shutdown' = "joining"
    BY <1>1, Zenon DEF IInv, JoinOK
  <2>2. \A v \in Worker : to_join[v] # {} => place[v] \in {"notifyExit", "joining"}
    BY Zenon DEF IInv, JoinOK
  <2> QED BY <1>1, <2>1, <2>2, JoinFrame DEF IInv
<1>8. DeathOK'
  <2>1. NoWorkers(pool) => tasks = <<>>
    BY Zenon DEF IInv, NoTaskStranded, NoWorkers, Alert
  <2>2. all_workers_dead' => NoWorkers(pool') /\ tasks' = <<>>
    BY <1>1, <1>2, <2>1, Zenon DEF IInv, DeathOK, queue
  <2> QED BY <1>1, <2>2, Zenon DEF DeathOK
<1>9. JobOK'
  BY <1>1, JobFrame, Zenon DEF IInv, queue
<1>10. NoTaskStranded'
  <2>1. Sleeping' \subseteq Sleeping
    BY SMTT(30), <1>1, <1>3 DEF Sleeping
  <2> QED BY <1>1, <1>6, <2>1, WakingStrandsNone DEF IInv, TypeOK, queue
<1> QED BY <1>5, <1>6, <1>7, <1>8, <1>9, <1>10, ZenonT(30) DEF IInv

LEMMA ShutdownCheckInv ==
  ASSUME IInv, ShutdownCheck
  PROVE  IInv'
<1>1. /\ shutdown \in {"exitCheck", "exitWait"}
      /\ shutdown' \in {"obtain", "exitWait"} /\ (shutdown' = "obtain" => all_workers_dead)
      /\ exit_notified' = FALSE
      /\ UNCHANGED <<pool, queue, limits, deaths, shutting_down, place, notified, job, accepted>>
  BY Zenon DEF ShutdownCheck
<1>2. TypeOK'
  BY <1>1, Zenon DEF IInv, TypeOK, queue, limits, deaths
<1>3. Fits(pool, place)'
  BY <1>1, Zenon DEF IInv, Fits
<1>4. JoinOK' /\ NoCycle'
  <2>1. to_join["shutdown"] # {} => shutdown' = "joining"
    BY <1>1, Zenon DEF IInv, JoinOK
  <2>2. \A v \in Worker : to_join[v] # {} => place[v] \in {"notifyExit", "joining"}
    BY Zenon DEF IInv, JoinOK
  <2> QED BY <1>1, <2>1, <2>2, JoinFrame, Zenon DEF IInv, deaths
<1>5. DeathOK'
  BY <1>1, Zenon DEF IInv, DeathOK, deaths, queue
<1>6. JobOK'
  BY <1>1, JobFrame, Zenon DEF IInv, queue
<1>7. NoTaskStranded'
  <2>1. Sleeping' \subseteq Sleeping
    BY <1>1, Zenon DEF Sleeping
  <2> QED BY <1>1, <1>3, <2>1, WakingStrandsNone DEF IInv, TypeOK, queue
<1> QED BY <1>2, <1>3, <1>4, <1>5, <1>6, <1>7, Zenon DEF IInv

LEMMA ShutdownObtainInv ==
  ASSUME IInv, ShutdownObtain
  PROVE  IInv'
<1>1. /\ shutdown = "obtain" /\ shutdown' = "joining"
      /\ to_join' = [to_join EXCEPT !["shutdown"] = pool.dead]
      /\ pool' = ObtainDeadWorkersLocked(pool)
      /\ UNCHANGED <<queue, limits, all_workers_dead, shutting_down, exit_notified, place, notified,
                     job, accepted>>
  BY Zenon DEF ShutdownObtain
<1>2. /\ to_join["shutdown"] = {} /\ all_workers_dead
      /\ pool.dead \in SUBSET Worker /\ \A u \in pool.dead : place[u] \in GonePlace
  BY <1>1, Zenon DEF IInv, JoinOK, DeathOK, Fits, PoolType
<1>3. Fits(pool', place) /\ pool'.dead = {}
  BY <1>1, ObtainFits, Zenon DEF IInv, TypeOK
<1>4. Fits(pool, place)'
  BY <1>1, <1>3, Zenon DEF Fits
<1>5. pool'.idle = pool.idle /\ pool'.running = pool.running
  BY <1>3, Zenon DEF IInv, Fits
<1>6. /\ to_join'["shutdown"] = pool.dead
      /\ \A j \in Joiner : j # "shutdown" => to_join'[j] = to_join[j]
      /\ to_join' \in [Joiner -> SUBSET Worker]
  BY <1>1, <1>2, Zenon DEF IInv, TypeOK, Joiner
<1>7. TypeOK'
  BY <1>1, <1>6, Zenon DEF IInv, TypeOK, queue, limits
<1>8. "shutdown" \in Joiner /\ \A v \in Worker : v # "shutdown"
  BY PoolAssumption, Zenon DEF Joiner
<1>9. JoinOK'
  <2>1. \A j \in Joiner : \A u \in to_join'[j] : place'[u] \in GonePlace /\ u \notin pool'.dead
    BY <1>1, <1>2, <1>3, <1>6 DEF IInv, JoinOK
  <2>2. \A i, j \in Joiner : i # j => to_join'[i] \cap to_join'[j] = {}
    <3>1. \A j \in Joiner : to_join[j] \cap pool.dead = {}
      BY Zenon DEF IInv, JoinOK
    <3> QED BY <3>1, <1>6 DEF IInv, JoinOK
  <2>3. \A u \in Worker : place'[u] \in GonePlace =>
           u \in pool'.dead \/ \E j \in Joiner : u \in to_join'[j]
    BY <1>1, <1>2, <1>6, <1>8, Zenon DEF IInv, JoinOK
  <2>4. \A v \in Worker : to_join'[v] # {} => place'[v] \in {"notifyExit", "joining"}
    BY <1>1, <1>6, <1>8, Zenon DEF IInv, JoinOK, Joiner
  <2> QED BY SMTT(30), <1>1, <1>3, <2>1, <2>2, <2>3, <2>4 DEF JoinOK, Joiner
<1>10. NoCycle'
  <2> SUFFICES ASSUME NEW C \in SUBSET Worker, C # {}, \A u \in C : place'[u] \in GonePlace
               PROVE  \E u \in C : \E j \in Joiner \ C : u \in to_join'[j]
    BY Zenon DEF NoCycle, Joiner
  <2>1. PICK u \in C : u \in pool.dead \/ \E j \in Joiner \ C : u \in to_join[j]
    BY <1>1, Zenon DEF IInv, NoCycle
  <2>2. "shutdown" \in Joiner \ C
    BY <1>8, Zenon
  <2> QED BY <2>1, <2>2, <1>2, <1>6, Zenon
<1>11. DeathOK'
  BY <1>1, <1>2, <1>3, <1>5 DEF IInv, DeathOK, NoWorkers, queue
<1>12. JobOK'
  BY <1>1, JobFrame, Zenon DEF IInv, queue
<1>13. NoTaskStranded'
  <2>1. Sleeping' \subseteq Sleeping
    BY SMTT(30), <1>1 DEF Sleeping
  <2> QED BY <1>1, <1>4, <1>5, <2>1, WakingStrandsNone DEF IInv, TypeOK, queue
<1> QED BY SMTT(30), <1>4, <1>7, <1>9, <1>10, <1>11, <1>12, <1>13 DEF IInv

(* Nobody is left when Shutdown returns: whoever were left would be dead,   *)
(* each waiting for one of the others to be joined by it.                  *)
LEMMA ShutdownReturnInv ==
  ASSUME IInv, ShutdownReturn
  PROVE  IInv'
<1>1. /\ shutdown = "joining" /\ shutdown' = "returned" /\ to_join["shutdown"] = {}
      /\ UNCHANGED <<pool, queue, limits, deaths, shutting_down, exit_notified, place, notified, job,
                     accepted>>
  BY Zenon DEF ShutdownReturn
<1>2. all_workers_dead /\ shutting_down /\ NoWorkers(pool) /\ pool.dead = {} /\ tasks = <<>>
  BY <1>1, Zenon DEF IInv, DeathOK
<1>3. \A w \in Worker : place[w] = "none"
  <2> DEFINE C == {w \in Worker : place[w] \in GonePlace}
  <2>1. \A w \in Worker : place[w] = "none" \/ place[w] \in GonePlace
    BY <1>2 DEF IInv, TypeOK, Fits, NoWorkers, Places, IdlePlace, GonePlace
  <2>2. C = {}
    <3> SUFFICES ASSUME C # {} PROVE FALSE
      OBVIOUS
    <3>1. PICK u \in C : \E j \in Joiner \ C : u \in to_join[j]
      BY <1>2, Zenon DEF IInv, NoCycle
    <3>2. PICK j \in Joiner \ C : u \in to_join[j]
      BY <3>1, Zenon
    <3>3. j \in Worker
      BY <1>1, <3>2, Zenon DEF Joiner
    <3>4. place[j] \in GonePlace
      BY <3>2, <3>3, Zenon DEF IInv, JoinOK, GonePlace
    <3> QED BY <3>2, <3>3, <3>4, Zenon
  <2> QED BY <2>1, <2>2, Zenon
<1>4. TypeOK'
  BY <1>1, Zenon DEF IInv, TypeOK, queue, limits, deaths
<1>5. Fits(pool, place)'
  BY <1>1, Zenon DEF IInv, Fits
<1>6. JoinOK' /\ NoCycle'
  <2>1. \A v \in Worker : to_join[v] # {} => place[v] \in {"notifyExit", "joining"}
    BY Zenon DEF IInv, JoinOK
  <2> QED BY <1>1, <2>1, JoinFrame, Zenon DEF IInv, deaths
<1>7. DeathOK'
  BY <1>1, <1>2, <1>3, Zenon DEF DeathOK, deaths, queue
<1>8. JobOK'
  BY <1>1, JobFrame, Zenon DEF IInv, queue
<1>9. NoTaskStranded'
  BY <1>1, <1>2, <1>5, EmptyStranded, Zenon DEF queue
<1> QED BY <1>4, <1>5, <1>6, <1>7, <1>8, <1>9, Zenon DEF IInv

-----------------------------------------------------------------------------

LEMMA InitInv ==
  ASSUME Init
  PROVE  IInv
<1>1. Cardinality({}) = 0 /\ IsFiniteSet({})
  BY FS_EmptySet, Zenon
<1>2. TypeOK
  <2>1. tasks \in Seq(Task) /\ pending_tasks = Len(tasks)
    BY DEF Init
  <2>2. /\ is_blocked \in [Worker -> BOOLEAN] /\ place \in [Worker -> Places]
        /\ notified \in [Worker -> BOOLEAN] /\ job \in [Worker -> SUBSET Task]
        /\ to_join \in [Joiner -> SUBSET Worker]
    BY Zenon DEF Init, Places
  <2>3. max_pool_size \in Nat /\ accepted \in SUBSET Task
    BY PoolAssumption, Zenon DEF Init
  <2> QED BY <2>1, <2>2, <2>3, Zenon DEF Init, TypeOK
<1>3. Fits(pool, place)
  BY <1>1, Zenon DEF Init, Fits, PoolType, IdlePlace
<1>4. JoinOK
  BY PoolAssumption, Zenon DEF Init, JoinOK, GonePlace, Joiner
<1>5. NoCycle
  BY Zenon DEF Init, NoCycle, GonePlace
<1>6. DeathOK
  BY Zenon DEF Init, DeathOK
<1>7. JobOK
  BY DEF Init, JobOK
<1>8. NoTaskStranded
  BY Zenon DEF Init, NoTaskStranded, Sleeping
<1> QED BY SMTT(30), <1>2, <1>3, <1>4, <1>5, <1>6, <1>7, <1>8 DEF IInv

(* A step in which nothing happens.                                        *)
LEMMA StutterInv ==
  ASSUME IInv, UNCHANGED vars
  PROVE  IInv'
<1>1. TypeOK'
  BY Zenon DEF IInv, TypeOK, vars, queue, limits, deaths, closing
<1>2. Fits(pool, place)'
  BY Zenon DEF IInv, Fits, vars
<1>3. JoinOK' /\ NoCycle'
  <2>1. \A v \in Worker : to_join[v] # {} => place[v] \in {"notifyExit", "joining"}
    BY Zenon DEF IInv, JoinOK
  <2>2. to_join["shutdown"] # {} => shutdown = "joining"
    BY Zenon DEF IInv, JoinOK
  <2> QED BY <2>1, <2>2, JoinFrame, Zenon DEF IInv, vars, deaths, closing
<1>4. DeathOK'
  BY Zenon DEF IInv, DeathOK, vars, queue, deaths, closing
<1>5. JobOK'
  BY JobFrame, Zenon DEF IInv, vars, queue
<1>6. NoTaskStranded'
  BY Zenon DEF IInv, NoTaskStranded, Alert, Sleeping, vars, queue
<1> QED BY <1>1, <1>2, <1>3, <1>4, <1>5, <1>6 DEF IInv

(* Every step preserves the invariant.                                     *)
LEMMA NextInv ==
  ASSUME IInv, [Next]_vars
  PROVE  IInv'
<1>1. ASSUME NEW t \in Task, RunImpl(t) PROVE IInv'
  BY <1>1, RunImplInv, Zenon
<1>2. ASSUME NEW w \in Worker, WorkerStep(w) PROVE IInv'
  <2>1. CASE MarkCurrentWorkerAsBlocked(w) \/ MarkCurrentWorkerAsUnBlocked(w)
    BY SMTT(30), <2>1, MarkInv
  <2>2. CASE EnterLoop(w)
    BY <2>2, EnterLoopInv, Zenon
  <2>3. CASE FinishTask(w)
    BY <2>3, FinishTaskInv, Zenon
  <2>4. CASE \E timed_out \in BOOLEAN : WakeUp(w, timed_out) \/ IdleWakeUp(w, timed_out)
    BY <2>4, WaitsInv, Zenon
  <2>5. CASE IdleNotified(w)
    BY <2>5, WaitsInv, Zenon
  <2>6. CASE NotifyExit(w) \/ ExitThread(w)
    BY <2>6, DeadStepInv, Zenon
  <2>7. CASE Join(w)
    BY <2>7, JoinInv, Zenon DEF Join, Joiner
  <2> QED BY <1>2, <2>1, <2>2, <2>3, <2>4, <2>5, <2>6, <2>7, ZenonT(30) DEF WorkerStep
<1>3. CASE ShutdownStep
  <2>1. CASE Join("shutdown")
    BY <2>1, JoinInv, Zenon DEF Join, Joiner
  <2> QED BY <1>3, <2>1, ShutdownBeginInv, ShutdownCheckInv, ShutdownObtainInv, ShutdownReturnInv
          DEF ShutdownStep
<1>4. CASE UNCHANGED vars
  BY <1>4, StutterInv, Zenon
<1> QED BY <1>1, <1>2, <1>3, <1>4 DEF Next

LEMMA InvariantHolds == Spec => []IInv
BY InitInv, NextInv, PTL DEF Spec

(* No task is stranded, in a pool of any size with any number of workers:   *)
(* while an idle worker sleeps in a wait of WorkerLoop or OnEnterIdleLocked *)
(* there is one awake for each pending task, and pending tasks have a worker.*)
THEOREM NoTaskStrandedHolds == Spec => []NoTaskStranded
<1>1. IInv => NoTaskStranded
  BY Zenon DEF IInv
<1> QED BY <1>1, InvariantHolds, PTL

(* Shutdown and the joining of dead workers are safe: each dead worker is   *)
(* in dead_workers_ or in exactly one dead_workers_to_join, nothing runs or *)
(* is queued once all_workers_dead_ is set, and no worker is left when      *)
(* Shutdown returns.                                                        *)
THEOREM ShutdownSafeHolds == Spec => []ShutdownSafe
<1>1. IInv => ShutdownSafe
  <2> SUFFICES ASSUME IInv PROVE ShutdownSafe
    OBVIOUS
  <2>1. Cardinality(pool.dead) <= 1
    <3>1. CASE pool.dead = {}
      <4>1. Cardinality(pool.dead) = 0
        BY <3>1, FS_EmptySet, Zenon
      <4> QED BY <4>1
    <3>2. CASE pool.dead # {}
      <4>1. PICK u \in pool.dead : pool.dead = {u}
        BY <3>2 DEF IInv, JoinOK
      <4>2. Cardinality(pool.dead) = 1
        BY <4>1, FS_Singleton, Zenon
      <4> QED BY <4>2
    <3> QED BY <3>1, <3>2, Zenon
  <2>2. ASSUME NEW u \in Worker
        PROVE  LET owners == {j \in Joiner : u \in to_join[j]}
                   gone == place[u] \in {"notifyExit", "joining", "exited"}
               IN  /\ gone => Cardinality(owners) = IF u \in pool.dead THEN 0 ELSE 1
                   /\ ~gone => owners = {} /\ u \notin pool.dead
    <3> DEFINE owners == {j \in Joiner : u \in to_join[j]}
               gone == place[u] \in {"notifyExit", "joining", "exited"}
    <3>1. gone <=> place[u] \in GonePlace
      BY Zenon DEF GonePlace
    <3>2. ~gone => owners = {} /\ u \notin pool.dead
      BY <3>1, Zenon DEF IInv, JoinOK, Fits
    <3>3. gone /\ u \in pool.dead => Cardinality(owners) = 0
      <4>1. u \in pool.dead => owners = {}
        BY Zenon DEF IInv, JoinOK
      <4> QED BY <4>1, FS_EmptySet, Zenon
    <3>4. ASSUME gone, u \notin pool.dead PROVE Cardinality(owners) = 1
      <4>1. PICK j \in Joiner : u \in to_join[j]
        BY <3>1, <3>4, Zenon DEF IInv, JoinOK
      <4>2. \A i \in Joiner : u \in to_join[i] => i = j
        BY <4>1, Zenon DEF IInv, JoinOK
      <4>3. owners = {j}
        BY <4>1, <4>2, Zenon
      <4> QED BY <4>3, FS_Singleton, Zenon
    <3> HIDE DEF owners, gone
    <3>5. /\ gone => Cardinality(owners) = IF u \in pool.dead THEN 0 ELSE 1
          /\ ~gone => owners = {} /\ u \notin pool.dead
      BY <3>2, <3>3, <3>4, Zenon
    <3> QED BY <3>5, Zenon DEF owners, gone
  <2>3. /\ all_workers_dead => NoWorkers(pool) /\ tasks = <<>>
        /\ shutdown = "returned" => \A w \in Worker : place[w] = "none"
    BY Zenon DEF IInv, DeathOK
  <2> QED BY <2>1, <2>2, <2>3, Zenon DEF ShutdownSafe
<1> QED BY <1>1, InvariantHolds, PTL

-----------------------------------------------------------------------------

(* The tasks being run, as TaskQueue counts them.                          *)
Active == UNION {job[w] : w \in Worker}

(* What becomes of them when w exchanges its task.                         *)
LEMMA ActiveChange ==
  ASSUME IInv, NEW w \in Worker, \A v \in Worker : v # w => job'[v] = job[v]
  PROVE  Active' = (Active \ job[w]) \cup job'[w]
<1>1. \A v \in Worker : v # w => job[v] \cap job[w] = {}
  BY Zenon DEF IInv, JobOK
<1> QED BY <1>1, Zenon DEF Active

(* The steps by which a worker takes a task or ends one.                   *)
LEMMA TakeStep ==
  ASSUME IInv, NEW w \in Worker, place[w] \in {"top", "task"}, tasks # <<>>, RemoveFirst(w),
         UNCHANGED <<closing, accepted>>
  PROVE  Queue!Next
<1>1. /\ job'[w] = {Head(tasks)} /\ \A v \in Worker : v # w => job'[v] = job[v]
      /\ tasks' = Tail(tasks) /\ shutting_down' = shutting_down /\ accepted' = accepted
  BY Zenon DEF RemoveFirst, IInv, TypeOK, closing
<1>2. Active' = (Active \ job[w]) \cup {Head(tasks)}
  BY <1>1, ActiveChange, Zenon
<1>3. CASE place[w] = "top"
  <2>1. job[w] = {}
    BY <1>3, Zenon DEF IInv, JobOK
  <2>2. Active' = Active \cup {Head(tasks)}
    BY <1>2, <2>1, Zenon
  <2>3. Queue!Start
    BY <1>1, <2>2, Zenon DEF Queue!Start, Active
  <2> QED BY <2>3, Zenon DEF Queue!Next
<1>4. CASE place[w] = "task"
  <2>1. PICK t \in Task : job[w] = {t}
    BY <1>4, Zenon DEF IInv, JobOK
  <2>2. t \in Active /\ Active' = (Active \ {t}) \cup {Head(tasks)}
    BY <1>2, <2>1, Zenon DEF Active
  <2>3. Queue!FinishAndStart(t)
    BY <1>1, <2>2, Zenon DEF Queue!FinishAndStart, Active
  <2> QED BY <2>3, Zenon DEF Queue!Next
<1> QED BY <1>3, <1>4, Zenon

LEMMA EndStep ==
  ASSUME IInv, NEW w \in Worker, place[w] = "task", job' = [job EXCEPT ![w] = {}],
         UNCHANGED <<queue, closing, accepted>>
  PROVE  Queue!Next
<1>1. PICK t \in Task : job[w] = {t}
  BY Zenon DEF IInv, JobOK
<1>2. job'[w] = {} /\ \A v \in Worker : v # w => job'[v] = job[v]
  BY Zenon DEF IInv, TypeOK
<1>3. t \in Active /\ Active' = Active \ {t}
  BY <1>1, <1>2, ActiveChange, Zenon DEF Active
<1>4. Queue!Finish(t)
  BY <1>3, Zenon DEF Queue!Finish, Active, queue, closing
<1> QED BY <1>4, Zenon DEF Queue!Next

(* Each step of the pool is a step of the queue, or none of it.            *)
LEMMA QueueStep ==
  ASSUME IInv, [Next]_vars
  PROVE  [Queue!Next]_(Queue!tqVars)
<1>1. ASSUME UNCHANGED <<tasks, job, shutting_down, accepted>> PROVE UNCHANGED Queue!tqVars
  BY <1>1, Zenon DEF Queue!tqVars
<1>2. ASSUME NEW t \in Task, RunImpl(t) PROVE Queue!Next
  <2>1. Queue!Accept(t)
    BY <1>2, Zenon DEF RunImpl, ScheduleTaskLocked, Queue!Accept, closing
  <2> QED BY <2>1, Zenon DEF Queue!Next
<1>3. ASSUME NEW w \in Worker, EnterLoop(w) PROVE Queue!Next \/ UNCHANGED Queue!tqVars
  <2>1. CASE tasks # <<>>
    BY <1>3, <2>1, TakeStep, Zenon DEF EnterLoop
  <2>2. CASE tasks = <<>>
    BY <1>1, <1>3, <2>2, Zenon DEF EnterLoop, queue, closing
  <2> QED BY <2>1, <2>2, Zenon
<1>4. ASSUME NEW w \in Worker, FinishTask(w) PROVE Queue!Next
  <2>1. CASE tasks # <<>>
    BY <1>4, <2>1, TakeStep, Zenon DEF FinishTask
  <2>2. CASE tasks = <<>>
    BY <1>4, <2>2, EndStep, Zenon DEF FinishTask
  <2> QED BY <2>1, <2>2, Zenon
<1>5. ASSUME NEW w \in Worker, NEW timed_out \in BOOLEAN,
             \/ WakeUp(w, timed_out) \/ IdleWakeUp(w, timed_out) \/ IdleNotified(w)
             \/ MarkCurrentWorkerAsBlocked(w) \/ MarkCurrentWorkerAsUnBlocked(w)
             \/ NotifyExit(w) \/ ExitThread(w)
      PROVE  UNCHANGED Queue!tqVars
  BY <1>1, <1>5, Zenon DEF WakeUp, IdleWakeUp, IdleNotified, MarkCurrentWorkerAsBlocked,
     MarkCurrentWorkerAsUnBlocked, NotifyExit, ExitThread, queue, closing
<1>6. ASSUME NEW j \in Joiner, Join(j) PROVE UNCHANGED Queue!tqVars
  BY <1>1, <1>6, Zenon DEF Join, JoinWorker, queue, closing
<1>7. CASE ShutdownBegin
  <2>1. Queue!Close
    BY <1>7, Zenon DEF ShutdownBegin, Queue!Close, queue
  <2> QED BY <2>1, Zenon DEF Queue!Next
<1>8. CASE ShutdownCheck \/ ShutdownObtain \/ ShutdownReturn
  BY <1>1, <1>8, Zenon DEF ShutdownCheck, ShutdownObtain, ShutdownReturn, queue
<1>9. CASE UNCHANGED vars
  BY <1>1, <1>9, Zenon DEF vars, queue, closing
<1>10. ASSUME NEW w \in Worker, WorkerStep(w) PROVE Queue!Next \/ UNCHANGED Queue!tqVars
  BY <1>10, <1>3, <1>4, <1>5, <1>6, ZenonT(30) DEF WorkerStep, Joiner
<1>11. CASE ShutdownStep
  BY <1>11, <1>6, <1>7, <1>8 DEF ShutdownStep, Joiner
<1> QED BY <1>2, <1>9, <1>10, <1>11 DEF Next

(* The pool keeps its promise to its clients: it implements TaskQueue, with *)
(* tasks_ as the queue and the tasks of all the workers as the active ones. *)
(* Each accepted task starts once, in the order of RunImpl, and none is     *)
(* accepted after Shutdown began.                                           *)
THEOREM TasksInOrderHolds == Spec => TasksInOrder
<1>1. Init => Queue!Init
  BY DEF Init, Queue!Init
<1>2. IInv /\ [Next]_vars => [Queue!Next]_(Queue!tqVars)
  BY QueueStep, Zenon
<1> QED BY <1>1, <1>2, InvariantHolds, PTL DEF Spec, TasksInOrder, Queue!Spec

=============================================================================
