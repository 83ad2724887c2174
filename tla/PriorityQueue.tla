---------------------------- MODULE PriorityQueue ---------------------------
(***************************************************************************)
(* PriorityQueue: the heap of timeouts in which the event handler keeps one*)
(* entry for each port, with a hash map from the values to their offsets   *)
(* so that an entry can be changed or removed by its value.                *)
(***************************************************************************)
EXTENDS Integers, FiniteSets

CONSTANTS
    Value,       \* the ports
    Priority,    \* the timeouts
    kMinimumSize \* the least capacity of the heap

VARIABLES
    min_heap_,      \* the entries in use: a function on 0 .. size - 1
    min_heap_size_, \* the capacity
    hashmap_        \* the offset of each value

vars == <<min_heap_, min_heap_size_, hashmap_>>

Size(h) == Cardinality(DOMAIN h)

Init ==
    /\ min_heap_ = [i \in {} |-> 0]
    /\ min_heap_size_ = kMinimumSize
    /\ hashmap_ = [v \in {} |-> 0]

Swap(q, i, j) ==
    [heap |-> [q.heap EXCEPT ![i] = q.heap[j], ![j] = q.heap[i]],
     map |-> [q.map EXCEPT ![q.heap[i].value] = j, ![q.heap[j].value] = i]]

\* The loop goes to the root whether it swaps or not.
RECURSIVE BubbleUp(_, _)
BubbleUp(q, i) ==
    LET parent == (i - 1) \div 2
    IN  IF i = 0 THEN q
        ELSE BubbleUp(IF q.heap[parent].priority > q.heap[i].priority
                      THEN Swap(q, parent, i) ELSE q, parent)

RECURSIVE BubbleDown(_, _)
BubbleDown(q, i) ==
    LET n == Size(q.heap)
        left == 2 * i + 1
        a == IF left < n /\ q.heap[left].priority < q.heap[i].priority THEN left ELSE i
        b == IF left + 1 < n /\ q.heap[left + 1].priority < q.heap[a].priority
             THEN left + 1 ELSE a
    IN  IF b = i THEN q ELSE BubbleDown(Swap(q, i, b), b)

Queue == [heap |-> min_heap_, map |-> hashmap_]

Become(q) == min_heap_' = q.heap /\ hashmap_' = q.map

Insert(p, v) ==
    LET n == Size(min_heap_)
    IN  /\ min_heap_size_' = IF n = min_heap_size_ THEN 2 * n ELSE min_heap_size_
        /\ Become(BubbleUp([heap |-> [i \in 0 .. n |-> IF i = n
                                         THEN [priority |-> p, value |-> v]
                                         ELSE min_heap_[i]],
                            map |-> [w \in DOMAIN hashmap_ \cup {v} |->
                                        IF w = v THEN n ELSE hashmap_[w]]], n))

\* The sign of the difference of the priorities decides.  (The code keeps the
\* difference in an intptr_t: where that has 32 bits, the comparison here is that of
\* timeouts less than 2^31 milliseconds apart.)
ChangePriority(p, v) ==
    LET i == hashmap_[v]
        q == [Queue EXCEPT !.heap[i].priority = p]
        parent == min_heap_[(i - 1) \div 2].priority
    IN  /\ Become(IF i = 0 THEN BubbleDown(q, i)
                  ELSE IF p < parent THEN BubbleUp(q, i)
                  ELSE IF p > parent THEN BubbleDown(q, i)
                  ELSE q)
        /\ UNCHANGED min_heap_size_

InsertOrChangePriority(p, v) ==
    IF v \in DOMAIN hashmap_ THEN ChangePriority(p, v) ELSE Insert(p, v)

\* A fault: the entry that takes the place keeps its offset in the map.
MovedOnly(i) ==
    LET n == Size(min_heap_) - 1
        gone == min_heap_[i].value
    IN  [heap |-> [j \in 0 .. n - 1 |-> min_heap_[IF j = i THEN n ELSE j]],
         map |-> [v \in DOMAIN hashmap_ \ {gone} |-> hashmap_[v]]]

\* Replace(i, size_), or the removal of the last entry.
Moved(i) ==
    LET n == Size(min_heap_) - 1
        gone == min_heap_[i].value
    IN  [heap |-> [j \in 0 .. n - 1 |-> min_heap_[IF j = i THEN n ELSE j]],
         map |-> [v \in DOMAIN hashmap_ \ {gone} |->
                     IF hashmap_[v] = n THEN i ELSE hashmap_[v]]]

\* The capacity after a removal that leaves n entries.
Shrink(n) ==
    IF n <= min_heap_size_ \div 4 /\ kMinimumSize <= min_heap_size_ \div 2
    THEN min_heap_size_ \div 2 ELSE min_heap_size_

\* A fault: the last entry takes the place and stays there.
RemoveAtStays(i) ==
    /\ Become(Moved(i))
    /\ min_heap_size_' = Shrink(Size(min_heap_) - 1)

\* The last entry takes the place and moves down.
RemoveAt(i) ==
    LET n == Size(min_heap_) - 1
    IN  /\ Become(IF i = n THEN Moved(i) ELSE BubbleDown(Moved(i), i))
        /\ min_heap_size_' = Shrink(n)

RemoveMinimum == DOMAIN min_heap_ # {} /\ RemoveAt(0)

RemoveByValue(v) == v \in DOMAIN hashmap_ /\ RemoveAt(hashmap_[v])

Next ==
    \/ \E v \in Value : RemoveByValue(v) \/ \E p \in Priority : InsertOrChangePriority(p, v)
    \/ RemoveMinimum

Spec == Init /\ [][Next]_vars

-----------------------------------------------------------------------------

\* "The value of node N is always equal or smaller than the value of N's
\* children."
HeapOrdered ==
    \A i \in DOMAIN min_heap_ \ {0} :
        min_heap_[(i - 1) \div 2].priority <= min_heap_[i].priority

\* The map gives the offset of every entry and knows no other value, and the
\* entries fit in the memory that is allocated, however often the heap grows and
\* shrinks.
MapIsExact ==
    /\ DOMAIN hashmap_ = {min_heap_[i].value : i \in DOMAIN min_heap_}
    /\ \A i \in DOMAIN min_heap_ : hashmap_[min_heap_[i].value] = i
    /\ Size(min_heap_) <= min_heap_size_ /\ kMinimumSize <= min_heap_size_

=============================================================================
