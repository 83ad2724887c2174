---------------------------- MODULE ParallelMark ----------------------------
(***************************************************************************)
(* GCMarker::MarkObjects with helper tasks: ParallelMarkTask, the          *)
(* ThreadBarrier the markers meet at, and the MarkingStack through which   *)
(* they share work and detect that none is left (BlockStack::WaitForWork). *)
(* ParallelScavengerTask has the same rounds.                              *)
(*                                                                         *)
(* A block is the set of its pointers; a step marks through one pointer,   *)
(* pops one object or holds a monitor once.  Fewer Instructions than a     *)
(* block of the deferred stack holds are met.                              *)
(***************************************************************************)
EXTENDS Integers, FiniteSets

CONSTANTS
    Helper,       \* the num_tasks - 1 helper tasks
    Main,         \* the thread in MarkObjects, itself the last marker
    Object,       \* old-space objects
    WeakProperty, \* those of class WeakProperty
    Instructions, \* those of class Instructions: no pointers, marked late
    Pointers,     \* the objects each points to (a property: key and value)
    Key,          \* the key of each weak property
    RootSlice,    \* the objects each slice of the roots points to
    LeftWork,     \* what concurrent marking left in each visitor's blocks,
    LeftDeferred, \* ... in its blocks of deferred objects
    LeftWeak,     \* ... and in its list of delayed weak properties
    BlockSize,    \* kMarkingStackBlockSize
    Debug         \* whether DEBUG is defined

Marker == Helper \cup {Main}

\* What is marked when MarkObjects starts.
LeftMarked == UNION {LeftWork[m] \cup LeftWeak[m] : m \in Marker}

ASSUME ParallelMarkAssumption ==
    /\ Main \notin Helper /\ IsFiniteSet(Helper)
    /\ WeakProperty \subseteq Object /\ Instructions \subseteq Object
    /\ Pointers \in [Object -> SUBSET Object]
    /\ Key \in [WeakProperty -> Object \ Instructions]
    /\ \A p \in WeakProperty : Key[p] \in Pointers[p]
    /\ \A i \in Instructions : Pointers[i] = {}
    /\ \A s \in DOMAIN RootSlice : s \in Nat /\ RootSlice[s] \subseteq Object
    /\ LeftWork \in [Marker -> SUBSET (Object \ Instructions)]
    /\ \A m \in Marker : Cardinality(LeftWork[m]) <= BlockSize
    /\ LeftDeferred \in [Marker -> SUBSET Object]
    /\ LeftWeak \in [Marker -> SUBSET WeakProperty]
    /\ BlockSize \in Nat \ {0}
    /\ Debug \in BOOLEAN

VARIABLES
    pc,           \* where each marker is, see Place
    slots,        \* the pointers it has yet to visit in what it scans
    marked,       \* objects with the mark bit
    input,        \* BlockWorkList::local_input_ of each visitor
    output,       \* BlockWorkList::local_output_
    stack,        \* the non-empty blocks of the MarkingStack
    asleep,       \* markers that wait on its monitor
    notified,     \* those of them that were notified
    deferred,     \* the deferred_work_list_ of each visitor
    scanned,      \* the deferred object it scans, marked after its pointers
    deferredStack,
    delayed,      \* the delayed weak properties of each visitor
    todo,         \* those the running pass has not reached
    more,         \* more_to_mark of each marker
    global_list,  \* GCMarker::global_list_
    started,      \* the root slices that were started
    num_busy,
    participating, remaining, generation, ref_count, \* the ThreadBarrier
    seen,         \* g, the generation each marker waits to see pass
    syncs         \* history: the calls of Sync of each marker

vars == <<pc, slots, marked, input, output, stack, asleep, notified, deferred,
          scanned, deferredStack, delayed, todo, more, global_list, started,
          num_busy, participating, remaining, generation, ref_count, seen, syncs>>
blocks == <<input, output, stack>>
monitor == <<asleep, notified, num_busy>>
later == <<deferred, scanned, deferredStack>>
weak == <<delayed, todo, more, global_list>>
barrier == <<participating, remaining, generation, ref_count, seen, syncs>>

\* idle   the task is not handed to the pool   enter  before TryEnter
\* flush  MarkObjects starts the tasks         count  before num_busy_++
\* roots  IterateRoots                         early  first ProcessDeferredMarking
\* first  ProcessMarkingStack is called        drain  in its loop
\* pendingFirst, pending                       in ProcessPendingWeakProperties
\* again  looks for work after that            work   before WaitForWork
\* wait   asleep in WaitForWork                stop ... exit  before Sync
\* weak   weak properties after the stop       decide after all have voted
\* late   second ProcessDeferredMarking        mourn  weak processing
\* release, finalize                           after the last Sync
Place == {"idle", "enter", "flush", "count", "roots", "early", "first",
          "drain", "pendingFirst", "pending", "again", "work", "wait",
          "stop", "assert", "debug", "weak", "voted", "decide", "decided",
          "late", "deferredDone", "mourn", "exit", "release", "finalize", "done"}
SyncPlace == {"stop", "debug", "voted", "decided", "deferredDone", "exit"}

-----------------------------------------------------------------------------
\* Blocks of work.

Move(m, p) == pc' = [pc EXCEPT ![m] = p]

\* Pop prefers full blocks.
Popped == LET full == {b \in stack : Cardinality(b) = BlockSize}
          IN  IF full # {} THEN full ELSE stack

\* BlockStack::PushBlockImpl of a non-empty block: the push onto an empty
\* stack notifies one waiter.
PushBlock(b) ==
    /\ stack' = stack \cup {b}
    /\ IF stack = {} /\ asleep \ notified # {}
       THEN \E m \in asleep \ notified : notified' = notified \cup {m}
       ELSE UNCHANGED notified

\* BlockWorkList::Pop returns o: from the input block, from the output block
\* swapped for it, or from a block of the stack.
Pop(m, o) ==
    \/ /\ o \in input[m]
       /\ input' = [input EXCEPT ![m] = @ \ {o}]
       /\ UNCHANGED <<output, stack>>
    \/ /\ input[m] = {} /\ o \in output[m]
       /\ input' = [input EXCEPT ![m] = output[m] \ {o}]
       /\ output' = [output EXCEPT ![m] = {}]
       /\ UNCHANGED stack
    \/ /\ input[m] = {} /\ output[m] = {}
       /\ \E b \in Popped : /\ o \in b
                            /\ stack' = stack \ {b}
                            /\ input' = [input EXCEPT ![m] = b \ {o}]
       /\ UNCHANGED output

\* BlockWorkList::Pop returns nullptr.
PopNull(m) == input[m] = {} /\ output[m] = {} /\ stack = {}

\* BlockWorkList::Push
Push(m, o) ==
    IF Cardinality(output[m]) = BlockSize
    THEN PushBlock(output[m]) /\ output' = [output EXCEPT ![m] = {o}]
    ELSE output' = [output EXCEPT ![m] = @ \cup {o}] /\ UNCHANGED <<stack, notified>>

\* MarkObject for one pointer of what marker m scans: who acquires the mark
\* bit pushes the object; Instructions are deferred.
MarkObject(m) ==
    \E o \in slots[m] :
        /\ slots' = [slots EXCEPT ![m] = @ \ {o}]
        /\ IF o \in marked
           THEN UNCHANGED <<marked, output, stack, notified, deferred>>
           ELSE IF o \in Instructions
           THEN /\ deferred' = [deferred EXCEPT ![m] = @ \cup {o}]
                /\ UNCHANGED <<marked, output, stack, notified>>
           ELSE /\ marked' = marked \cup {o}
                /\ Push(m, o)
                /\ UNCHANGED deferred
        /\ UNCHANGED <<pc, input, asleep, num_busy, scanned, deferredStack,
                       weak, started, barrier>>

\* The object ProcessMarkingStack popped is scanned; a weak property whose
\* key is white waits in delayed.
Visit(m, o) ==
    /\ IF o \in WeakProperty /\ Key[o] \notin marked
       THEN /\ delayed' = [delayed EXCEPT ![m] = @ \cup {o}]
            /\ UNCHANGED slots
       ELSE /\ slots' = [slots EXCEPT ![m] = Pointers[o]]
            /\ UNCHANGED delayed
    /\ Move(m, "drain")
    /\ UNCHANGED <<marked, monitor, later, todo, more, global_list, started, barrier>>

-----------------------------------------------------------------------------
\* MarkObjects starts the tasks.

\* visitor->Flush(&global_list_)
Flush(m) ==
    /\ IF input[m] = {} THEN UNCHANGED <<stack, notified>> ELSE PushBlock(input[m])
    /\ input' = [input EXCEPT ![m] = {}]
    /\ deferredStack' = deferredStack \cup deferred[m]
    /\ deferred' = [deferred EXCEPT ![m] = {}]

\* A fault: the visitor of a task keeps what concurrent marking left in it.
StartUnflushed(h) ==
    /\ pc[Main] = "flush" /\ pc[h] = "idle"
    /\ Move(h, "enter")
    /\ UNCHANGED <<slots, marked, blocks, monitor, later, weak, started, barrier>>

\* One iteration for a helper: what its visitor holds becomes everybody's,
\* then its task goes to the pool.
StartTask(h) ==
    /\ pc[Main] = "flush" /\ pc[h] = "idle"
    /\ Flush(h)
    /\ global_list' = global_list \cup delayed[h]
    /\ delayed' = [delayed EXCEPT ![h] = {}]
    /\ Move(h, "enter")
    /\ UNCHANGED <<slots, marked, output, asleep, num_busy, scanned, todo, more,
                   started, barrier>>

\* The last iteration: the main thread adopts the weak properties.
StartMain ==
    /\ pc[Main] = "flush" /\ \A h \in Helper : pc[h] # "idle"
    /\ Flush(Main)
    /\ delayed' = [delayed EXCEPT ![Main] = @ \cup global_list]
    /\ global_list' = {}
    /\ Move(Main, "count")
    /\ UNCHANGED <<slots, marked, output, asleep, num_busy, scanned, todo, more,
                   started, barrier>>

\* A fault: a task may enter in any generation.
EnterAnyTime(h) ==
    /\ pc[h] = "enter" /\ pc[Main] \notin {"finalize", "done"}
    /\ remaining' = remaining + 1
    /\ participating' = participating + 1
    /\ Move(h, "count")
    /\ UNCHANGED <<slots, marked, blocks, monitor, later, weak, started,
                   generation, ref_count, seen, syncs>>

\* ThreadBarrier::TryEnter, or Release when it fails.
TryEnter(h) ==
    /\ pc[h] = "enter"
    /\ IF generation # 0
       THEN Move(h, "release") /\ UNCHANGED <<participating, remaining>>
       ELSE /\ remaining' = remaining + 1
            /\ participating' = participating + 1
            /\ Move(h, "count")
    /\ UNCHANGED <<slots, marked, blocks, monitor, later, weak, started,
                   generation, ref_count, seen, syncs>>

\* num_busy_->fetch_add(1u)
Count(m) ==
    /\ pc[m] = "count"
    /\ num_busy' = num_busy + 1
    /\ Move(m, "roots")
    /\ UNCHANGED <<slots, marked, blocks, asleep, notified, later, weak,
                   started, barrier>>

-----------------------------------------------------------------------------
\* Roots, deferred objects, draining.

\* An iteration of IterateRoots, or its end.
IterateRoots(m) ==
    /\ pc[m] = "roots" /\ slots[m] = {}
    /\ \/ \E s \in DOMAIN RootSlice \ started :
             /\ \A r \in DOMAIN RootSlice \ started : s <= r
             /\ started' = started \cup {s}
             /\ slots' = [slots EXCEPT ![m] = RootSlice[s]]
             /\ UNCHANGED pc
       \/ /\ started = DOMAIN RootSlice
          /\ Move(m, "early")
          /\ UNCHANGED <<slots, started>>
    /\ UNCHANGED <<marked, blocks, monitor, later, weak, barrier>>

\* ProcessDeferredMarking pops an object and visits its pointers.
PopDeferred(m) ==
    /\ pc[m] \in {"early", "late"} /\ slots[m] = {} /\ scanned[m] = {}
    /\ \E o \in IF deferred[m] # {} THEN deferred[m] ELSE deferredStack :
          /\ slots' = [slots EXCEPT ![m] = Pointers[o]]
          /\ scanned' = [scanned EXCEPT ![m] = {o}]
          /\ deferred' = [deferred EXCEPT ![m] = @ \ {o}]
          /\ deferredStack' = IF deferred[m] # {} THEN deferredStack
                              ELSE deferredStack \ {o}
    /\ UNCHANGED <<pc, marked, blocks, monitor, weak, started, barrier>>

\* ... after which its mark bit is acquired.
MarkDeferred(m) ==
    /\ slots[m] = {} /\ scanned[m] # {}
    /\ marked' = marked \cup scanned[m]
    /\ scanned' = [scanned EXCEPT ![m] = {}]
    /\ UNCHANGED <<pc, slots, blocks, monitor, deferred, deferredStack, weak,
                   started, barrier>>

\* No deferred object is left.
DeferredDone(m) ==
    /\ pc[m] \in {"early", "late"} /\ slots[m] = {} /\ scanned[m] = {}
    /\ deferred[m] = {} /\ deferredStack = {}
    /\ Move(m, IF pc[m] = "early" THEN "first" ELSE "deferredDone")
    /\ UNCHANGED <<slots, marked, blocks, monitor, later, weak, started, barrier>>

\* ProcessMarkingStack pops an object and scans it.
Drain(m) ==
    /\ pc[m] \in {"first", "drain", "again"} /\ slots[m] = {}
    /\ \E o \in Object : Pop(m, o) /\ Visit(m, o)

\* It finds none: the delayed weak properties are next, or the end.
DrainNull(m) ==
    /\ pc[m] \in {"first", "drain", "again"} /\ slots[m] = {}
    /\ PopNull(m)
    /\ IF pc[m] = "again"
       THEN Move(m, "work") /\ UNCHANGED <<delayed, todo, more>>
       ELSE /\ Move(m, IF pc[m] = "first" THEN "pendingFirst" ELSE "pending")
            /\ todo' = [todo EXCEPT ![m] = delayed[m]]
            /\ delayed' = [delayed EXCEPT ![m] = {}]
            /\ more' = [more EXCEPT ![m] = FALSE]
    /\ UNCHANGED <<slots, marked, blocks, monitor, later, global_list, started, barrier>>

\* An iteration of ProcessPendingWeakProperties.
ProcessPending(m) ==
    /\ slots[m] = {}
    /\ \E p \in todo[m] :
          /\ todo' = [todo EXCEPT ![m] = @ \ {p}]
          /\ IF Key[p] \in marked
             THEN /\ more' = [more EXCEPT ![m] = @ \/ ~(Pointers[p] \subseteq marked)]
                  /\ slots' = [slots EXCEPT ![m] = Pointers[p]]
                  /\ UNCHANGED delayed
             ELSE /\ delayed' = [delayed EXCEPT ![m] = @ \cup {p}]
                  /\ UNCHANGED <<more, slots>>
    /\ UNCHANGED <<pc, marked, blocks, monitor, later, global_list, started, barrier>>

\* A fault: what the weak properties pushed is not looked for.
PendingIgnored(m) ==
    /\ pc[m] \in {"pendingFirst", "pending"} /\ slots[m] = {} /\ todo[m] = {}
    /\ Move(m, "work")
    /\ UNCHANGED <<slots, marked, blocks, monitor, later, weak, started, barrier>>

\* ProcessPendingWeakProperties returns inside ProcessMarkingStack.
PendingDone(m) ==
    /\ pc[m] \in {"pendingFirst", "pending"} /\ slots[m] = {} /\ todo[m] = {}
    /\ Move(m, IF pc[m] = "pending" \/ more[m] THEN "again" ELSE "work")
    /\ UNCHANGED <<slots, marked, blocks, monitor, later, weak, started, barrier>>

-----------------------------------------------------------------------------
\* BlockStack::WaitForWork

\* The part after the checks: a block of the stack, or the wait.
TakeOrWait(m, busy) ==
    \/ \E b \in Popped :
          /\ stack' = stack \ {b}
          /\ input' = [input EXCEPT ![m] = b]
          /\ num_busy' = busy + 1
          /\ asleep' = asleep \ {m}
          /\ Move(m, "first")
    \/ /\ stack = {}
       /\ asleep' = asleep \cup {m}
       /\ num_busy' = busy
       /\ Move(m, "wait")
       /\ UNCHANGED <<input, stack>>

\* A fault: the last busy marker wakes one waiter.
LastNotifiesOne(m) ==
    /\ pc[m] = "work"
    /\ IF num_busy = 1
       THEN /\ num_busy' = 0
            /\ IF asleep \subseteq notified THEN UNCHANGED notified
               ELSE \E w \in asleep \ notified : notified' = notified \cup {w}
            /\ Move(m, "stop")
            /\ UNCHANGED <<input, stack, asleep>>
       ELSE TakeOrWait(m, num_busy - 1) /\ UNCHANGED notified
    /\ UNCHANGED <<slots, marked, output, later, weak, started, barrier>>

\* The last busy marker wakes the others and leaves.
WaitForWork(m) ==
    /\ pc[m] = "work"
    /\ IF num_busy = 1
       THEN /\ num_busy' = 0
            /\ notified' = asleep
            /\ Move(m, "stop")
            /\ UNCHANGED <<input, stack, asleep>>
       ELSE TakeOrWait(m, num_busy - 1) /\ UNCHANGED notified
    /\ UNCHANGED <<slots, marked, output, later, weak, started, barrier>>

\* ml.Wait() returns, when notified or by itself.
WakeUp(m) ==
    /\ pc[m] = "wait"
    /\ notified' = notified \ {m}
    /\ IF num_busy = 0
       THEN /\ asleep' = asleep \ {m}
            /\ Move(m, "stop")
            /\ UNCHANGED <<input, stack, num_busy>>
       ELSE TakeOrWait(m, num_busy)
    /\ UNCHANGED <<slots, marked, output, later, weak, started, barrier>>

-----------------------------------------------------------------------------
\* The rounds and the barrier between them.

\* Where marker m is once it returns from the Sync it is in.
AfterSync(m) ==
    CASE pc[m] = "stop"         -> IF Debug THEN "assert" ELSE "weak"
      [] pc[m] = "debug"        -> "weak"
      [] pc[m] = "voted"        -> "decide"
      [] pc[m] = "decided"      -> IF more[m] THEN "first" ELSE "late"
      [] pc[m] = "deferredDone" -> "mourn"
      [] pc[m] = "exit"         -> "release"

\* After the stop every marker goes over its weak properties.
Passed(m) ==
    LET next == AfterSync(m) IN
    /\ Move(m, next)
    /\ IF next = "weak"
       THEN /\ todo' = [todo EXCEPT ![m] = delayed[m]]
            /\ delayed' = [delayed EXCEPT ![m] = {}]
            /\ more' = [more EXCEPT ![m] = FALSE]
       ELSE UNCHANGED <<todo, delayed, more>>

\* ThreadBarrier::Sync is called; seen is -1 outside it.
Sync(m) ==
    /\ pc[m] \in SyncPlace /\ seen[m] = -1
    /\ syncs' = [syncs EXCEPT ![m] = @ + 1]
    /\ IF remaining = 1
       THEN /\ generation' = generation + 1
            /\ remaining' = participating
            /\ Passed(m)
            /\ UNCHANGED seen
       ELSE /\ remaining' = remaining - 1
            /\ seen' = [seen EXCEPT ![m] = generation]
            /\ UNCHANGED <<pc, todo, delayed, more, generation>>
    /\ UNCHANGED <<slots, marked, blocks, monitor, later, global_list, started,
                   participating, ref_count>>

\* It returns once the generation has passed.
SyncReturns(m) ==
    /\ pc[m] \in SyncPlace /\ seen[m] # -1 /\ seen[m] # generation
    /\ seen' = [seen EXCEPT ![m] = -1]
    /\ Passed(m)
    /\ UNCHANGED <<slots, marked, blocks, monitor, later, global_list, started,
                   participating, remaining, generation, ref_count, syncs>>

\* ASSERT(num_busy_->load() == 0)
AssertNotBusy(m) ==
    /\ pc[m] = "assert"
    /\ Move(m, "debug")
    /\ UNCHANGED <<slots, marked, blocks, monitor, later, weak, started, barrier>>

\* A marker that found more to mark says so.
Vote(m) ==
    /\ pc[m] = "weak" /\ slots[m] = {} /\ todo[m] = {}
    /\ num_busy' = num_busy + IF more[m] THEN 1 ELSE 0
    /\ Move(m, "voted")
    /\ UNCHANGED <<slots, marked, blocks, asleep, notified, later, weak,
                   started, barrier>>

\* The others continue if any marker does.
Decide(m) ==
    /\ pc[m] = "decide"
    /\ IF ~more[m] /\ num_busy > 0
       THEN num_busy' = num_busy + 1 /\ more' = [more EXCEPT ![m] = TRUE]
       ELSE UNCHANGED <<num_busy, more>>
    /\ Move(m, "decided")
    /\ UNCHANGED <<slots, marked, blocks, asleep, notified, later, delayed,
                   todo, global_list, started, barrier>>

\* MournWeakProperties: what is still delayed is cleared.
Mourn(m) ==
    /\ pc[m] = "mourn"
    /\ delayed' = [delayed EXCEPT ![m] = {}]
    /\ Move(m, "exit")
    /\ UNCHANGED <<slots, marked, blocks, monitor, later, todo, more,
                   global_list, started, barrier>>

\* ThreadBarrier::Release, which deletes the barrier when it was the last.
Release(m) ==
    /\ pc[m] = "release"
    /\ ref_count' = ref_count - 1
    /\ Move(m, IF m = Main THEN "finalize" ELSE "done")
    /\ UNCHANGED <<slots, marked, blocks, monitor, later, weak, started,
                   participating, remaining, generation, seen, syncs>>

\* MarkObjects finalizes and deletes every visitor.
Finalize ==
    /\ pc[Main] = "finalize"
    /\ Move(Main, "done")
    /\ UNCHANGED <<slots, marked, blocks, monitor, later, weak, started, barrier>>

-----------------------------------------------------------------------------

Init ==
    /\ pc = [m \in Marker |-> IF m = Main THEN "flush" ELSE "idle"]
    /\ slots = [m \in Marker |-> {}] /\ scanned = [m \in Marker |-> {}]
    /\ marked = LeftMarked
    /\ input = LeftWork /\ output = [m \in Marker |-> {}]
    /\ stack = {} /\ asleep = {} /\ notified = {}
    /\ deferred = LeftDeferred /\ deferredStack = {}
    /\ delayed = LeftWeak /\ global_list = {}
    /\ todo = [m \in Marker |-> {}] /\ more = [m \in Marker |-> FALSE]
    /\ started = {} /\ num_busy = 0
    /\ participating = 1 /\ remaining = 1 /\ generation = 0
    /\ ref_count = Cardinality(Marker)
    /\ seen = [m \in Marker |-> -1] /\ syncs = [m \in Marker |-> 0]

\* What a marker does without being woken.
Step(m) ==
    \/ MarkObject(m) \/ Count(m) \/ IterateRoots(m) \/ PopDeferred(m)
    \/ MarkDeferred(m) \/ DeferredDone(m) \/ Drain(m) \/ DrainNull(m)
    \/ ProcessPending(m) \/ PendingDone(m) \/ WaitForWork(m) \/ Sync(m)
    \/ SyncReturns(m) \/ AssertNotBusy(m) \/ Vote(m) \/ Decide(m) \/ Mourn(m) \/ Release(m)

Next ==
    \/ \E m \in Marker : Step(m) \/ WakeUp(m)
    \/ \E h \in Helper : StartTask(h) \/ TryEnter(h)
    \/ StartMain \/ Finalize

Spec == Init /\ [][Next]_vars

(***************************************************************************)
(* Every thread that can run does, and the pool runs each task.  A marker  *)
(* asleep on the marking stack runs again only if it is notified.          *)
(***************************************************************************)
Fairness ==
    /\ \A m \in Marker : WF_vars(Step(m))
    /\ \A m \in Marker : WF_vars(m \in notified /\ WakeUp(m))
    /\ \A h \in Helper : WF_vars(StartTask(h)) /\ WF_vars(TryEnter(h))
    /\ WF_vars(StartMain) /\ WF_vars(Finalize)

FairSpec == Spec /\ Fairness

-----------------------------------------------------------------------------

\* A set the roots and what concurrent marking left keep alive, with the
\* pointers of its members: a weak property keeps its value alive only if
\* its key is alive.
Closed(S) ==
    /\ LeftMarked \subseteq S
    /\ UNION {RootSlice[s] : s \in DOMAIN RootSlice} \subseteq S
    /\ \A m \in Marker : \A o \in LeftDeferred[m] : {o} \cup Pointers[o] \subseteq S
    /\ \A o \in S \ WeakProperty : Pointers[o] \subseteq S
    /\ \A p \in S \cap WeakProperty : Key[p] \in S => Pointers[p] \subseteq S

Alive == {o \in Object : \A S \in SUBSET Object : Closed(S) => o \in S}

\* Markers that take part in the rounds: a task that was refused does not.
Participant ==
    {Main} \cup {m \in Marker : /\ pc[m] \notin {"idle", "enter"}
                                /\ pc[m] \in {"release", "done"} => syncs[m] > 0}

Returned(m) == syncs[m] - IF seen[m] = -1 THEN 0 ELSE 1

NoWork(m) == input[m] = {} /\ output[m] = {} /\ slots[m] = {}

\* ThreadBarrier (thread_barrier.h:20): no marker is past its r'th Sync
\* before each participant, one that entered late included, has made its
\* r'th call.
RoundsLineUp ==
    \A i, j \in Participant : Returned(i) <= syncs[j]

\* WaitForWork tells a marker to stop only when all work is done: once all
\* participants have stopped no block holds work, nobody counts as busy, and
\* nobody else is left on the stack.  The assertion of DEBUG builds holds
\* (marker.cc:731): no marker counts itself busy before the others have checked.
StopMeansNoWork ==
    /\ (\A m \in Participant : pc[m] = "stop") =>
          /\ stack = {} /\ num_busy = 0 /\ asleep = {}
          /\ \A m \in Participant : NoWork(m)
    /\ \A m \in Marker : pc[m] = "assert" => num_busy = 0

\* MournWeakProperties and the other weak processing see final mark bits: all
\* that is alive is marked and nothing else, so a property is cleared only for a
\* dead key (marker.cc:300).  When MarkObjects finalizes and deletes the
\* visitors, no block or list holds anything, not even one of a task that came
\* too late to take part, and no task uses its visitor or num_busy any more.
MarksAreFinal ==
    /\ \A m \in Marker : pc[m] = "mourn" =>
          marked = Alive /\ \A p \in delayed[m] : Key[p] \notin marked
    /\ pc[Main] \in {"finalize", "done"} =>
          /\ marked = Alive
          /\ stack = {} /\ deferredStack = {} /\ global_list = {}
          /\ \A m \in Marker : /\ NoWork(m) /\ deferred[m] = {} /\ delayed[m] = {}
                               /\ pc[m] \in {"enter", "exit", "release", "finalize", "done"}

\* Marking ends: no marker waits for work or at the barrier for ever, and
\* every task gives back its reference, so that the barrier is deleted.
MarkingEnds == <>(ref_count = 0 /\ \A m \in Marker : pc[m] = "done")
====
