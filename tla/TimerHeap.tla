------------------------------ MODULE TimerHeap -----------------------------
(***************************************************************************)
(* _TimerHeap: a binary heap in an array in which every timer knows its    *)
(* index, so that a timer can be removed from the middle.  A timer is the  *)
(* number of its place in the order of _compareTo.                         *)
(***************************************************************************)
EXTENDS Integers, FiniteSets

CONSTANTS
    N,       \* number of timers
    initSize \* initial length of the list

HeapTimer == 1 .. N

Sentinel == 0

NoIndex == -1

VARIABLES
    list,  \* _list
    used,  \* _used
    index  \* _indexOrNext of each timer

vars == <<list, used, index>>

Init ==
    /\ list = [i \in 0 .. initSize - 1 |-> Sentinel]
    /\ used = 0
    /\ index = [t \in HeapTimer |-> NoIndex]

Parent(i) == (i - 1) \div 2

\* The list and the indices, while a timer moves.
Heap(l, ix) == [list |-> l, index |-> ix]

Swap(h, i, j) ==
    Heap([h.list EXCEPT ![i] = h.list[j], ![j] = h.list[i]],
         [h.index EXCEPT ![h.list[i]] = j, ![h.list[j]] = i])

RECURSIVE BubbleUp(_, _)
BubbleUp(h, t) ==
    LET i == h.index[t]
    IN  IF i > 0 /\ t < h.list[Parent(i)] THEN BubbleUp(Swap(h, i, Parent(i)), t) ELSE h

\* The child to swap with is the first of the two.
RECURSIVE BubbleDown(_, _, _)
BubbleDown(h, t, n) ==
    LET i == h.index[t]
        left == 2 * i + 1
        right == 2 * i + 2
        a == IF left < n /\ h.list[left] < t THEN left ELSE i
        b == IF right < n /\ h.list[right] < h.list[a] THEN right ELSE a
    IN  IF b = i THEN h ELSE BubbleDown(Swap(h, i, b), t, n)

Become(h) == list' = h.list /\ index' = h.index

\* _resize.
Resized ==
    IF used < Cardinality(DOMAIN list) THEN list
    ELSE [i \in 0 .. 2 * Cardinality(DOMAIN list) |->
             IF i < used THEN list[i] ELSE Sentinel]

Add(t) ==
    /\ index[t] = NoIndex
    /\ Become(BubbleUp(Heap([Resized EXCEPT ![used] = t], [index EXCEPT ![t] = used]), t))
    /\ used' = used + 1

\* The heap of n timers in which the last takes the place of t.
Replaced(t, last) ==
    Heap([list EXCEPT ![index[t]] = last], [index EXCEPT ![last] = index[t]])

\* The slot n and t are cleared.
Cleared(h, t, n) ==
    Heap([h.list EXCEPT ![n] = Sentinel], [h.index EXCEPT ![t] = NoIndex])

\* A fault: the timer that takes the place only moves down.
RemoveDown(t) ==
    /\ index[t] # NoIndex
    /\ LET n == used - 1
           last == list[n]
       IN  Become(Cleared(IF n = 0 \/ last = t THEN Heap(list, index)
                          ELSE BubbleDown(Replaced(t, last), last, n), t, n))
    /\ used' = used - 1

\* The last timer takes the place of t and moves up or down from there.
Remove(t) ==
    /\ index[t] # NoIndex
    /\ LET n == used - 1
           last == list[n]
       IN  Become(Cleared(IF n = 0 \/ last = t THEN Heap(list, index)
                          ELSE IF last < t THEN BubbleUp(Replaced(t, last), last)
                          ELSE BubbleDown(Replaced(t, last), last, n), t, n))
    /\ used' = used - 1

Next == \E t \in HeapTimer : Add(t) \/ Remove(t)

Spec == Init /\ [][Next]_vars

-----------------------------------------------------------------------------

\* The first slot holds the timer that is due first, and so does the root of
\* every part of the heap: what _notifyEventHandler and removeFirst rely on
\* after any removal from the middle.  The used slots hold the timers that have
\* an index, each in its slot, and the others the sentinel.
HeapExact ==
    /\ \A i \in 1 .. used - 1 : list[Parent(i)] < list[i]
    /\ \A t \in HeapTimer : index[t] # NoIndex => index[t] < used /\ list[index[t]] = t
    /\ Cardinality({t \in HeapTimer : index[t] # NoIndex}) = used
    /\ \A i \in DOMAIN list : i >= used => list[i] = Sentinel

=============================================================================
