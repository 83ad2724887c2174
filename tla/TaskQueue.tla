------------------------------ MODULE TaskQueue ------------------------------
(***************************************************************************)
(* What a thread pool promises to the code that hands it tasks, without    *)
(* saying how: a task that is accepted is started once, in the order in    *)
(* which the tasks were accepted, and after Close no task is accepted.     *)
(* ThreadPool is shown to implement it.                                    *)
(***************************************************************************)
EXTENDS Naturals, Sequences

CONSTANT Task

VARIABLES
    accepted,  \* the tasks Run returned true for
    queue,     \* accepted tasks that have not been started, oldest first
    active,    \* tasks a thread is executing
    closed     \* Shutdown was called

tqVars == <<accepted, queue, active, closed>>

Init ==
    /\ accepted = {}
    /\ queue = <<>>
    /\ active = {}
    /\ closed = FALSE

Accept(t) ==
    /\ ~closed
    /\ t \notin accepted
    /\ accepted' = accepted \cup {t}
    /\ queue' = Append(queue, t)
    /\ UNCHANGED <<active, closed>>

Start ==
    /\ queue # <<>>
    /\ active' = active \cup {Head(queue)}
    /\ queue' = Tail(queue)
    /\ UNCHANGED <<accepted, closed>>

Finish(t) ==
    /\ t \in active
    /\ active' = active \ {t}
    /\ UNCHANGED <<accepted, queue, closed>>

\* A thread that finishes a task starts the oldest one it finds waiting.
FinishAndStart(t) ==
    /\ t \in active
    /\ queue # <<>>
    /\ active' = (active \ {t}) \cup {Head(queue)}
    /\ queue' = Tail(queue)
    /\ UNCHANGED <<accepted, closed>>

Close ==
    /\ closed' = TRUE
    /\ UNCHANGED <<accepted, queue, active>>

Next ==
    \/ \E t \in Task : Accept(t) \/ Finish(t) \/ FinishAndStart(t)
    \/ Start
    \/ Close

Spec == Init /\ [][Next]_tqVars

=============================================================================
