--------------------------- MODULE MCParallelMark ---------------------------
(***************************************************************************)
(* ParallelMark for TLC, on one graph of objects: a DEBUG build to which   *)
(* concurrent marking left nothing, and a release build to which it left   *)
(* work with the visitors of the helpers.                                  *)
(***************************************************************************)
EXTENDS ParallelMark, TLC

CONSTANTS m0, h1, h2, a, b, c, k, v, p, q, i

VARIABLE left      \* whether concurrent marking left work

TwoHelpers == {h1, h2}

\* k is alive through b, v through p and its key k, q through v; the key of
\* q is dead.
ObjectsMC == {a, b, k, v, p, q, c, i}
WeakMC == {p, q}
InstructionsMC == {i}
KeyMC == p :> k @@ q :> c
PointersMC == a :> {p, b} @@ b :> {k} @@ k :> {} @@ v :> {q, i} @@ p :> {k, v}
              @@ q :> {c, a} @@ c :> {} @@ i :> {}
SliceMC == 0 :> {a} @@ 1 :> {b}
NoneLeft == [m \in {m0} \cup Helper |-> {}]
LeftIn(o, h) == [m \in {m0} \cup Helper |-> IF m = h THEN {o} ELSE {}]

\* Concurrent marking left b grey and p delayed in the visitors of helpers,
\* and the store of c into some object was deferred.
RootAOnly == 0 :> {a} @@ 1 :> {}
LeftWorkMC == LeftIn(b, h1)
LeftWeakMC == LeftIn(p, h2)
LeftDeferredMC == LeftIn(c, h2)

WithLeft == INSTANCE ParallelMark WITH RootSlice <- RootAOnly,
              LeftWork <- LeftWorkMC, LeftWeak <- LeftWeakMC,
              LeftDeferred <- LeftDeferredMC, Debug <- FALSE

MCInit ==
    \/ left = FALSE /\ Init
    \/ left = TRUE /\ WithLeft!Init

\* The two differ in Init, in what IterateRoots finds, and in the assertion after
\* Sync; a step is possible in one when it is in the other, so that Fairness,
\* which says that enabled steps are taken, is right for both.
MCNext ==
    /\ IF left THEN WithLeft!Next ELSE Next
    /\ UNCHANGED left

MCSpec == MCInit /\ [][MCNext]_<<vars, left>> /\ Fairness

\* MarksAreFinal of either start: weak processing (marker.cc:300) and the end of
\* MarkObjects see final mark bits and nothing left to do.
MarkingIsFinal == IF left THEN WithLeft!MarksAreFinal ELSE MarksAreFinal
=============================================================================
