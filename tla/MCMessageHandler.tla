-------------------------- MODULE MCMessageHandler --------------------------
(***************************************************************************)
(* MessageHandler for TLC: the messages are strings.  A run explores       *)
(* several scenarios: which messages are posted in one behaviour, and      *)
(* whether the handler is that of an isolate or of a native port.          *)
(***************************************************************************)
EXTENDS MessageHandler

CONSTANTS
  Scenarios,      \* sets of messages posted together
  StartStatus,    \* what the start callback may return
  NativeMessages  \* those posted to a native port; {}: no native port

VARIABLE native   \* the handler is that of a native port

MCKind ==
  [m \in Messages |->
     CASE m \in {"e1", "e2", "e3"} -> "event"
       [] m \in {"s1", "s2"} -> "service"
       [] m \in {"p1", "p2", "p3"} -> "pause"
       [] m \in {"r1", "r2"} -> "resume"
       [] m \in {"ping", "pingBefore"} -> "ping"
       [] m \in {"kill", "killBefore", "killAfter"} -> "kill"
       [] m = "internalKill" -> "internalKill"]

MCPrio ==
  [m \in Messages |->
     CASE m \in {"killBefore", "pingBefore"} -> "beforeNextEvent"
       [] m \in {"killAfter", "ping"} -> "asEvent"
       [] OTHER -> "immediate"]

MCCap == [m \in Messages |-> IF m \in {"p2", "r2"} THEN "c2" ELSE "c1"]

PausesAndKill == {{"e1", "e2", "kill", "s1"}, {"e1", "e2", "p1", "s1"}}
ControlAndKill == {{"e1", "e2", "kill", "internalKill"},
                   {"e1", "e2", "p1", "p3", "r1"},
                   {"e1", "e2", "p1", "pingBefore"},
                   {"e1", "e2", "pingBefore", "ping"}}
AllTogether == {Messages}

Port == INSTANCE MessageHandler WITH IsNative <- TRUE, Messages <- NativeMessages

mcVars == <<vars, native>>

MCInit ==
  \/ native = FALSE /\ Init
  \/ native = TRUE /\ NativeMessages # {} /\ Port!Init

(* The status that the start callback returns, if this step is its return. *)
StartReturned ==
  CASE ~start_callback \/ start_callback' -> kOK
    [] stack' = <<>> -> kShutdown
    [] OTHER -> IF stack'[1].allow THEN kOK ELSE kError

MCNext ==
  /\ \/ /\ ~native /\ Next
        /\ \E s \in Scenarios : posted' \subseteq s
        /\ StartReturned \in StartStatus
     \/ native /\ Port!Next
  /\ UNCHANGED native

MCSpec == MCInit /\ [][MCNext]_mcVars

(* No fairness is assumed of the threads that close a native port.         *)
MCFairSpec == MCSpec /\ Fairness
MCTerminatingSpec ==
  MCFairSpec /\ WF_vars(\E st \in {kOK, kError} : HandleEvent(st))
=============================================================================
