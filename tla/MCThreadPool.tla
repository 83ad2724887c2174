---------------------------- MODULE MCThreadPool ----------------------------
(***************************************************************************)
(* ThreadPool for TLC.  A behaviour is that of one of three pools: mutator *)
(* pools of size 1 and 2, and the VM's own pool, which has no limit and no *)
(* idle hook.                                                              *)
(***************************************************************************)
EXTENDS ThreadPool

VARIABLE size      \* the constructor's argument of this behaviour's pool

TwoWorkers == INSTANCE ThreadPool WITH MaxPoolSize <- 2
VMPool == INSTANCE ThreadPool WITH MaxPoolSize <- 0, HasIdleHook <- FALSE

MCInit ==
    \/ size = 1 /\ Init
    \/ size = 2 /\ TwoWorkers!Init
    \/ size = 0 /\ VMPool!Init

\* The limit matters to Init only: the code reads max_pool_size_ from there on.
MCNext ==
    /\ IF size > 0 THEN Next ELSE VMPool!Next
    /\ UNCHANGED size

\* A step of the pool without the idle hook is one of the pool with it, and
\* each is possible when the other is, so that Fairness is right for both.
MCSpec == MCInit /\ [][MCNext]_<<vars, size>> /\ Fairness
=============================================================================
