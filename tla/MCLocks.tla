------------------------------- MODULE MCLocks -------------------------------
(***************************************************************************)
(* RwLock and MutatorLimit for TLC: two ways in which threads of the VM    *)
(* wait for each other, independent of one another.  A behaviour is one of *)
(* the lock or one of the limit.                                           *)
(***************************************************************************)
EXTENDS RwLock, MutatorLimit

VARIABLE part

MCInit == part \in {"lock", "limit"} /\ Init /\ LimitInit

MCNext ==
    /\ \/ part = "lock" /\ Next /\ UNCHANGED limitVars
       \/ part = "limit" /\ LimitNext /\ UNCHANGED vars
    /\ UNCHANGED part

MCSpec == MCInit /\ [][MCNext]_<<vars, limitVars, part>> /\ Fairness
==============================================================================
