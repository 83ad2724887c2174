----------------------------- MODULE SetOfPorts -----------------------------
(***************************************************************************)
(* What a PortSet promises: a set of ports that grows and shrinks by one   *)
(* port at a time, or is emptied by a loop over all of it.                 *)
(***************************************************************************)

CONSTANT Port

VARIABLE ports

Init == ports = {}

Insert(p) == p \notin ports /\ ports' = ports \cup {p}

Delete(p) == p \in ports /\ ports' = ports \ {p}

DeleteAll == ports' = {}

Next == (\E p \in Port : Insert(p) \/ Delete(p)) \/ DeleteAll

Spec == Init /\ [][Next]_ports

=============================================================================
