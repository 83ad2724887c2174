------------------------------- MODULE PortSet ------------------------------
(***************************************************************************)
(* A PortSet under the calls PortMap makes: Insert, a deletion followed by *)
(* Rebalance, and the loop of ClosePorts, which does not call Rebalance    *)
(* for the set of the handler.                                             *)
(***************************************************************************)
EXTENDS PortTable

CONSTANT Port \* the ports that are used, each with both low bits set

ASSUME PortAssumption ==
    \A p \in Port : p % 4 = 3 /\ p \notin {kFreePort, kDeletedPort}

VARIABLE table

TableInit == table = NewPortSet

InsertPort(p) ==
    /\ ~Contains(table, p)
    /\ table' = Insert(table, p)

DeletePort(p) ==
    /\ Contains(table, p)
    /\ table' = MaintainInvariants(Delete(table, p))

DeleteAll == table' = DeleteEach(table, Contents(table))

TableNext == (\E p \in Port : InsertPort(p) \/ DeletePort(p)) \/ DeleteAll

TableSpec == TableInit /\ [][TableNext]_table

-----------------------------------------------------------------------------

\* No sequence of insertions and deletions fills the table: every search ends.
SearchesEnd == HasFreeSlot(table)

\* The set that clients see: the ports that a search finds.
SetOfPorts == INSTANCE SetOfPorts WITH ports <- {p \in Port : Contains(table, p)}

\* Every operation does to the ports that a search finds what its abstract
\* counterpart does: no deletion, reuse of a deleted slot, growth or rehashing
\* cuts the way to another port.
IsASet ==
    [][table' # table =>
          /\ \A p \in Port : /\ InsertPort(p) => SetOfPorts!Insert(p)
                             /\ DeletePort(p) => SetOfPorts!Delete(p)
          /\ DeleteAll => SetOfPorts!DeleteAll]_table

=============================================================================
