------------------------------- MODULE PortMap ------------------------------
(***************************************************************************)
(* PortMap: the table of all ports, the set of ports each message handler  *)
(* keeps, the states of ports and the count of live ports that decides     *)
(* when an isolate ends.  Every operation runs under PortMap::mutex_, but  *)
(* for the loop of Cleanup, which runs when the thread pool and all        *)
(* isolates are gone.  What ClosePort and ClosePorts do to the handler     *)
(* after they release the mutex is in module MessageHandler.               *)
(***************************************************************************)
EXTENDS PortTable

CONSTANTS
    Isolate, \* message handlers of isolates
    Native,  \* native message handlers, which have one port
    Random   \* what the random numbers are, masked as in AllocatePort

Handler == Isolate \cup Native

ASSUME PortMapAssumption == \A r \in Random : r % 4 = 3

VARIABLES
    open,       \* ports_ is not null
    ports_,     \* the table of all ports
    entry,      \* handler and state of each port in it
    ownPorts,   \* MessageHandler::ports_
    live_ports_ \* MessageHandler::live_ports_

vars == <<open, ports_, entry, ownPorts, live_ports_>>

State == {"new", "live", "control", "inactive"}

\* The entries of entry for the ports in P only.
Restricted(P) == [p \in P |-> entry[p]]

PortsOf(h) == {p \in DOMAIN entry : entry[p].handler = h}

LivePortsOf(h) == {p \in PortsOf(h) : entry[p].state = "live"}

-----------------------------------------------------------------------------

Init ==
    /\ open = TRUE
    /\ ports_ = NewPortSet
    /\ entry = [p \in {} |-> 0]
    /\ ownPorts = [h \in Handler |-> NewPortSet]
    /\ live_ports_ = [h \in Handler |-> 0]

\* What AllocatePort may return: a number that is not in use.  The markers of
\* the table are not in Random; see the README.
AllocatePort == {r \in Random : ~Contains(ports_, r)}

\* A native handler gets its one port when it is made.
CreatePort(h) ==
    /\ open
    /\ h \in Native => PortsOf(h) = {}
    /\ \E p \in AllocatePort :
          /\ ownPorts' = [ownPorts EXCEPT ![h] = Insert(@, p)]
          /\ ports_' = Insert(ports_, p)
          /\ entry' = [q \in DOMAIN entry \cup {p} |->
                          IF q = p THEN [handler |-> h, state |-> "new"] ELSE entry[q]]
    /\ UNCHANGED <<open, live_ports_>>

\* A fault: a live port that becomes inactive is still counted.
CountOnlyUp(h, old, new) ==
    IF new = "live" THEN live_ports_[h] + 1 ELSE live_ports_[h]

\* The count of live ports of h when one of its ports changes its state.
LivePorts(h, old, new) ==
    IF new = "live" THEN live_ports_[h] + 1
    ELSE IF new = "inactive" /\ old = "live" THEN live_ports_[h] - 1
    ELSE live_ports_[h]

\* What callers ask for: a new port becomes live or a control port, and the
\* timer port is made inactive, also when it is already, and live again.
Requested(state) ==
    CASE state = "new" -> {"live", "control"}
      [] state = "live" -> {"inactive"}
      [] state = "inactive" -> {"inactive", "live"}
      [] state = "control" -> {}

SetPortState(p) ==
    /\ open /\ Contains(ports_, p)
    /\ LET h == entry[p].handler
       IN  \E s \in Requested(entry[p].state) :
              /\ h \in Native => s = "live"
              /\ entry' = [entry EXCEPT ![p].state = s]
              /\ live_ports_' = [live_ports_ EXCEPT
                                    ![h] = LivePorts(h, entry[p].state, s)]
    /\ UNCHANGED <<open, ports_, ownPorts>>

\* A fault: ClosePort forgets the set of the handler.
ClosePortInMapOnly(p) ==
    /\ open /\ Contains(ports_, p)
    /\ LET h == entry[p].handler
       IN  live_ports_' = [live_ports_ EXCEPT
                              ![h] = @ - IF entry[p].state = "live" THEN 1 ELSE 0]
    /\ ports_' = MaintainInvariants(Delete(ports_, p))
    /\ entry' = Restricted(DOMAIN entry \ {p})
    /\ UNCHANGED <<open, ownPorts>>

ClosePort(p) ==
    /\ open /\ Contains(ports_, p)
    /\ LET h == entry[p].handler
       IN  /\ live_ports_' = [live_ports_ EXCEPT
                                 ![h] = @ - IF entry[p].state = "live" THEN 1 ELSE 0]
           /\ ownPorts' = [ownPorts EXCEPT ![h] = MaintainInvariants(Delete(@, p))]
    /\ ports_' = MaintainInvariants(Delete(ports_, p))
    /\ entry' = Restricted(DOMAIN entry \ {p})
    /\ UNCHANGED open

\* ClosePorts, when an isolate ends.  Rebalance is called for ports_ only.
ClosePorts(h) ==
    /\ open /\ h \in Isolate
    /\ LET P == Contents(ownPorts[h])
       IN  /\ live_ports_' = [live_ports_ EXCEPT
                 ![h] = @ - Cardinality({p \in P : entry[p].state = "live"})]
           /\ ownPorts' = [ownPorts EXCEPT ![h] = DeleteEach(@, P)]
           /\ ports_' = MaintainInvariants(DeleteEach(ports_, P))
           /\ entry' = Restricted(DOMAIN entry \ P)
    /\ UNCHANGED open

\* Cleanup, after the last isolate has closed its ports: the native handlers
\* that are left are deleted with their ports.  The loop does not take the mutex,
\* which is taken after it to delete the table; Dart::Cleanup has stopped all
\* other threads by then (dart.cc:723), so that both are one step.
Cleanup ==
    /\ open /\ \A h \in Isolate : PortsOf(h) = {}
    /\ open' = FALSE
    /\ ports_' = MaintainInvariants(DeleteEach(ports_, Contents(ports_)))
    /\ entry' = Restricted({})
    /\ live_ports_' = [h \in Handler |->
                          live_ports_[h] - Cardinality(LivePortsOf(h))]
    /\ ownPorts' = [h \in Handler |-> IF h \in Native THEN NewPortSet ELSE ownPorts[h]]

Next ==
    \/ \E h \in Handler : CreatePort(h) \/ ClosePorts(h)
    \/ \E p \in Random : SetPortState(p) \/ ClosePort(p)
    \/ Cleanup

Spec == Init /\ [][Next]_vars

-----------------------------------------------------------------------------

\* The table finds a port exactly as long as it is open, which is what
\* PostMessage, IsLivePort and the other lookups rely on, and the set of a
\* handler holds the ports of the table that point to it: what ClosePort and
\* ClosePorts assert.
TablesAgree ==
    \A p \in Random :
        /\ Contains(ports_, p) <=> p \in DOMAIN entry
        /\ open => \A h \in Handler : Contains(ownPorts[h], p) <=> p \in PortsOf(h)

\* An isolate is kept alive by its live ports and by nothing else: the count
\* that HasLivePorts reads is their number.
LivePortsExact ==
    \A h \in Handler : live_ports_[h] = Cardinality(LivePortsOf(h))

=============================================================================
