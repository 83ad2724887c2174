------------------------------ MODULE PortTable -----------------------------
(***************************************************************************)
(* The hash table of PortSet as operators: open addressing with linear     *)
(* probing, in which a deleted slot keeps the probes going that pass it.   *)
(* A table is a record of map_, used_ and deleted_; its capacity is the    *)
(* number of slots.                                                        *)
(***************************************************************************)
EXTENDS Integers, FiniteSets

kFreePort == 0
kDeletedPort == 3
kInitialCapacity == 8

\* What FindIndexOfPort returns for a port that is not there, and what stands
\* for a search that does not end.
NotFound == -1
Endless == -2

Capacity(t) == Cardinality(DOMAIN t.map)

Empty(n) == [map |-> [i \in 0 .. n - 1 |-> kFreePort], used |-> 0, deleted |-> 0]

\* PortSet::PortSet.
NewPortSet == Empty(kInitialCapacity)

\* The ports in the slots of t.
Contents(t) == {t.map[i] : i \in DOMAIN t.map} \ {kFreePort, kDeletedPort}

\* The first slot on the way of p that holds a port of stop.
Probe(t, p, stop) ==
    LET n == Capacity(t)
        Stops(k) == t.map[(p + k) % n] \in stop
    IN  IF \A k \in 0 .. n - 1 : ~Stops(k) THEN Endless
        ELSE (p + CHOOSE k \in 0 .. n - 1 : Stops(k) /\ \A j \in 0 .. k - 1 : ~Stops(j)) % n

\* PortSet::FindIndexOfPort.
FindIndexOfPort(t, p) ==
    LET i == Probe(t, p, {p, kFreePort})
    IN  IF i = Endless \/ t.map[i] = p THEN i ELSE NotFound

Contains(t, p) == FindIndexOfPort(t, p) >= 0

\* A fault: the ports keep their slots in the new map.
RehashInPlace(t, n) ==
    [map |-> [i \in 0 .. n - 1 |->
                 IF i \notin DOMAIN t.map \/ t.map[i] = kDeletedPort THEN kFreePort
                 ELSE t.map[i]],
     used |-> t.used, deleted |-> 0]

\* The loop of Rehash: the ports go, in the order of their old slots, to the
\* first free slot of the new map.
Rehash(t, n) ==
    LET moved[i \in 0 .. Capacity(t)] ==
            IF i = 0 THEN Empty(n).map
            ELSE LET m == moved[i - 1]
                     p == t.map[i - 1]
                 IN  IF p \in {kFreePort, kDeletedPort} THEN m
                     ELSE [m EXCEPT ![Probe([map |-> m], p, {kFreePort})] = p]
    IN  [map |-> moved[Capacity(t)], used |-> t.used, deleted |-> 0]

\* A fault: the table grows when it is full.
GrowWhenFull(t) ==
    IF t.used >= Capacity(t) THEN Rehash(t, 2 * Capacity(t)) ELSE t

\* PortSet::MaintainInvariants, which Rebalance calls.
MaintainInvariants(t) ==
    IF t.used > (Capacity(t) \div 4) * 3 THEN Rehash(t, 2 * Capacity(t))
    ELSE IF Capacity(t) - t.used - t.deleted < t.deleted THEN Rehash(t, Capacity(t))
    ELSE t

\* PortSet::Insert.
Insert(t, p) ==
    LET i == Probe(t, p, {kFreePort, kDeletedPort})
    IN  MaintainInvariants(
            [map |-> [t.map EXCEPT ![i] = p],
             used |-> t.used + 1,
             deleted |-> t.deleted - IF t.map[i] = kDeletedPort THEN 1 ELSE 0])

\* Iterator::Delete at the slot of p.
Delete(t, p) ==
    [map |-> [t.map EXCEPT ![FindIndexOfPort(t, p)] = kDeletedPort],
     used |-> t.used - 1, deleted |-> t.deleted + 1]

\* A loop over all of t that deletes every port of it in P.
DeleteEach(t, P) ==
    [map |-> [i \in DOMAIN t.map |->
                 IF t.map[i] \in P THEN kDeletedPort ELSE t.map[i]],
     used |-> t.used - Cardinality(P), deleted |-> t.deleted + Cardinality(P)]

-----------------------------------------------------------------------------

\* Some slot is free, so that every search of FindIndexOfPort ends.
HasFreeSlot(t) == \E i \in DOMAIN t.map : t.map[i] = kFreePort

=============================================================================
