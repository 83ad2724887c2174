------------------------------ MODULE MCPorts ------------------------------
(***************************************************************************)
(* PortMap and PortSet for TLC.  A behaviour is one of the port map with   *)
(* its handlers, on few ports, or one of a single table with enough ports  *)
(* to make it grow.                                                        *)
(***************************************************************************)
EXTENDS PortMap, PortSet

VARIABLE part

MCInit == part \in {"map", "table"} /\ Init /\ TableInit

MCNext ==
    /\ \/ part = "map" /\ Next /\ UNCHANGED table
       \/ part = "table" /\ TableNext /\ UNCHANGED vars
    /\ UNCHANGED part

MCSpec == MCInit /\ [][MCNext]_<<vars, table, part>>
============================================================================
