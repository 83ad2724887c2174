------------------------------ MODULE MCTimers ------------------------------
(***************************************************************************)
(* Timers and the two heaps under it for TLC.  A behaviour is one of the   *)
(* timers of an isolate, of the heap of timers, or of the heap of timeouts *)
(* in the event handler.                                                   *)
(***************************************************************************)
EXTENDS Timers, FiniteSetsExt

VARIABLES part, list, used, index, min_heap_, min_heap_size_, hashmap_

Heap == INSTANCE TimerHeap WITH N <- 8, initSize <- 7
Queue == INSTANCE PriorityQueue WITH Value <- 1 .. 5, Priority <- 1 .. 3, kMinimumSize <- 2

heapVars == <<list, used, index>>
queueVars == <<min_heap_, min_heap_size_, hashmap_>>

\* A periodic timer misses ticks when the clock runs on.
Later == INSTANCE Timers WITH MaxTime <- MaxTime + 3

\* Three timers that fire once, or one that may be periodic and one that fires
\* once, made at times 1 and 2.  A periodic timer alone has the clock run on longest
\* and a duration of up to 2: several ticks are missed, before and after its first
\* call, and a duration is partly over.  Timers differ in nothing but the order in
\* which they are made, so that one order is enough.  Only steps that nothing
\* obliges user code to take are left out, and later times.
Allowed ==
    /\ made = [i \in 1 .. Len(made) |-> i]
    /\ \A t \in Timer : s.timer[t].repeating \/ s.timer[t].ms = 2 =>
          part = "periodic" /\ t = 1 /\ s.timer[t].repeating
    /\ part = "periodic" =>
          /\ Len(made) <= 2
          /\ \A t \in Timer : s.timer[t].start <= 2
          /\ s.timer[1].ms = 2 \/ now > MaxTime + 1 => Len(made) <= 1

\* A port that is not in the queue is like any other.
NextPort ==
    \A v \in DOMAIN hashmap_' \ DOMAIN hashmap_ : 1 .. v - 1 \subseteq DOMAIN hashmap_

MCInit == part \in {"once", "periodic", "heap", "queue"} /\ Init /\ Heap!Init /\ Queue!Init

MCNext ==
    /\ UNCHANGED part
    /\ \/ part = "once" /\ Next /\ Allowed' /\ UNCHANGED <<heapVars, queueVars>>
       \/ part = "periodic" /\ Later!Next /\ Allowed' /\ UNCHANGED <<heapVars, queueVars>>
       \/ part = "heap" /\ Heap!Next /\ UNCHANGED <<vars, queueVars>>
       \/ part = "queue" /\ Queue!Next /\ NextPort /\ UNCHANGED <<vars, heapVars>>

\* Fairness is about the timers that fire once, as TimersEnd is.
MCSpec == MCInit /\ [][MCNext]_<<vars, heapVars, queueVars, part>> /\ Fairness

-----------------------------------------------------------------------------

\* HeapExact of TimerHeap: the first slot holds the timer that is due first
\* (timer_impl.dart:24), and every timer knows its slot, which is what cancel
\* relies on (timer_impl.dart:228), whichever timers were removed.
HeapIsExact == Heap!HeapExact

\* MapIsExact of PriorityQueue: a timeout is changed or removed at the offset
\* where the entry of its port is (priority_queue.h:76), and the entries fit in
\* the memory that is allocated (priority_queue.h:162).
QueueIsExact == Queue!MapIsExact

\* The last entry, which takes the place of the entry of v when that is removed,
\* belongs above that place.
MustRise(v) ==
    LET i == hashmap_[v]
        last == min_heap_[Cardinality(DOMAIN min_heap_) - 1]
    IN  i > 0 /\ last.priority < min_heap_[(i - 1) \div 2].priority

\* The order of the timeouts (priority_queue.h:247) is kept by every insertion and
\* change of a priority, by every removal of the minimum, and by every removal of
\* an entry by its value but the one after which the entry that takes the place
\* would have to move up: RemoveAt moves it down only.
QueueOrderKept ==
    [][Queue!HeapOrdered /\ (\A v \in DOMAIN hashmap_ \ DOMAIN hashmap_' : ~MustRise(v))
          => Queue!HeapOrdered']_queueVars

\* A timer that fires once is called or canceled: no wakeup is lost between the
\* isolate and the event handler.  (A periodic timer is called as often as MaxTick
\* allows only, and would then stop the others.)
TimersEnd ==
    \A t \in Timer :
        part = "once" /\ s.timer[t].callback ~> ~s.timer[t].callback
=============================================================================
