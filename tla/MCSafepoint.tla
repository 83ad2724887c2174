---------------------------- MODULE MCSafepoint ----------------------------
(***************************************************************************)
(* Safepoint for TLC: two mutators and a helper thread, or three mutators  *)
(* and fewer operations.                                                   *)
(***************************************************************************)
EXTENDS Safepoint

CONSTANTS t1, t2, t3, h1

Mutators == {t1, t2, t3}
Helpers == {h1}

\* The third thread stays out, or the helper does and two operations are made.
\* Only steps that nothing obliges a thread to take are left out by this.
Allowed == place[t3] = "out" \/ (place[h1] = "out" /\ started <= 2)

MCSpec == Init /\ [][Next /\ Allowed']_vars /\ Fairness
=============================================================================
