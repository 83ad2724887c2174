------------------------ MODULE MessageHandlerProofs ------------------------
(***************************************************************************)
(* Safety of MessageHandler for every set of messages and every bound.     *)
(* What a step does to the handler's thread comes first: it stays in       *)
(* HandleMessages (Nested), goes on in TaskCallback or ends the task       *)
(* (Outcome), or returns to the embedder (NextReturns).  Each of these     *)
(* preserves the relations between task, ports and deletion (LifeInv).     *)
(* Then every action preserves the inductive invariant, one lemma each,    *)
(* and the theorems follow from it.                                        *)
(***************************************************************************)
EXTENDS SequenceTheorems, FiniteSetTheorems, TLAPS, MessageHandler

(* The stack holds one activation of TaskCallback or HandleNextMessage and, *)
(* above it, the activations that the handled messages started.             *)
StackOK ==
  /\ pc = "handleMessages" <=> stack # <<>>
  /\ \A i \in 1..Len(stack) :
       /\ i = 1 <=> stack[i].site \notin NestedSites
       /\ stack[i].phase = "run" => stack[i].msg # NoMsg
       /\ stack[i].phase = "wait" => stack[i].site \in NestedSites
       /\ stack[i].site = "next" => ~IsNative /\ ~pool

(* How the life of the handler, of its ports and of its task are related.  *)
LifeOK ==
  /\ task_running => pool
  /\ pc = "endCallback" => ~IsNative /\ ~pool /\ port # "closed"
  /\ pc = "deleteMe" =>
       IsNative /\ ~pool /\ delete_me /\ port = "closed" /\ deletions = 0
  /\ port # "closed" => deletions = 0 /\ ~delete_me
  /\ posting # "none" => port = "open"
  /\ IsNative => live_ports = IF port = "open" THEN 1 ELSE 0
  /\ ~IsNative => ~delete_me /\ (port = "removed" => pc = "endCallback")

LifeInv ==
  LifeOK /\ OneTask /\ OobDrained /\ DeletedOnceUnreachable /\ ClosedIsDeleted

(* The inductive invariant.                                                *)
IInv ==
  /\ TypeOK
  /\ StackOK
  /\ IsFiniteSet(caps) /\ PauseCount
  /\ LifeInv

-----------------------------------------------------------------------------
(* What a stretch of TaskCallback leaves behind: the task continues, with  *)
(* the monitor released, or it ends.                                       *)

Continues ==
  /\ task_running' = task_running /\ pool' = pool
  /\ \/ pc' \in {"notifyStart", "notifyExit", "startCallback"} /\ stack' = <<>>
     \/ /\ pc' = "handleMessages"
        /\ \E site \in TaskSites, a, b \in BOOLEAN :
             stack' = <<Activation(site, a, b)>> /\ (site # "main" => ~a)

Ends ==
  /\ task_running' = FALSE
  /\ stack' = <<>>
  /\ \/ pc' = "idle" /\ pool' = pool /\ (IsNative => live_ports > 0)
     \/ pool' = FALSE /\ pc' = IF ~IsNative THEN "endCallback"
                               ELSE IF delete_me THEN "deleteMe" ELSE "idle"

Outcome == remembered' \in Status /\ (Continues \/ Ends)

(* The initial value of an activation is a frame.                          *)
LEMMA ActivationType ==
  ASSUME NEW site \in Sites, NEW a \in BOOLEAN, NEW b \in BOOLEAN
  PROVE  /\ Activation(site, a, b) \in Frame
         /\ Activation(site, a, b).site = site
         /\ Activation(site, a, b).phase = "enter"
BY Zenon DEF Activation, Frame, Phases, Status, kOK

(* Finish ends the task or pauses on exit.                                 *)
LEMMA FinishOutcome ==
  ASSUME TypeOK, NEW st \in Status, Finish(st)
  PROVE  Outcome
<1>1. CASE st = kOK /\ live_ports > 0 /\ EndTask
  BY <1>1, Zenon DEF EndTask, Outcome, Ends, TypeOK
<1>2. CASE remembered' = st /\ Release("notifyExit")
  BY <1>2, Zenon DEF Release, Outcome, Continues
<1>3. CASE Exit
  BY <1>3, Zenon DEF Exit, Outcome, Ends, TypeOK
<1> QED BY <1>1, <1>2, <1>3, Zenon DEF Finish

(* A call of HandleMessages continues the task.                            *)
LEMMA CallOutcome ==
  ASSUME TypeOK, NEW site \in TaskSites, NEW a \in BOOLEAN, NEW b \in BOOLEAN,
         Call(site, a, b), site # "main" => ~a
  PROVE  Outcome /\ Continues
BY Zenon DEF Call, Outcome, Continues, TypeOK

(* Proceed runs the start callback or HandleMessages, or finishes; it      *)
(* finishes only after an error.                                           *)
LEMMA ProceedOutcome ==
  ASSUME TypeOK, NEW st \in Status, Proceed(st)
  PROVE  Outcome /\ (st = kOK => Continues)
<1>1. CASE st = kOK /\ Release("startCallback") /\ UNCHANGED remembered
  BY <1>1, Zenon DEF Release, Outcome, Continues, TypeOK
<1>2. CASE st = kOK /\ Call("main", TRUE, TRUE)
  BY <1>2, CallOutcome, Zenon DEF TaskSites
<1>3. CASE st # kOK /\ Finish(st)
  BY <1>3, FinishOutcome, Zenon
<1> QED BY <1>1, <1>2, <1>3, Zenon DEF Proceed

(* The same for the check of is_paused_on_exit that precedes it.           *)
LEMMA CheckPausedOnExitOutcome ==
  ASSUME TypeOK, NEW st \in Status, CheckPausedOnExit(st)
  PROVE  Outcome /\ (st = kOK => Continues)
<1>1. CASE CallOob("pausedOnExit")
  BY <1>1, CallOutcome, Zenon DEF CallOob, TaskSites
<1>2. CASE Proceed(st)
  BY <1>2, ProceedOutcome, Zenon
<1> QED BY <1>1, <1>2, Zenon DEF CheckPausedOnExit

(* Whatever HandleMessages returns to TaskCallback, the task continues or  *)
(* ends, and the pause flags keep their types.                             *)
LEMMA ReturnToTaskOutcome ==
  ASSUME TypeOK, NEW site \in TaskSites, NEW st \in Status,
         ReturnToTask(site, st)
  PROVE  /\ Outcome
         /\ UNCHANGED <<waitVars, should_pause_on_start, should_pause_on_exit>>
         /\ is_paused_on_start' \in BOOLEAN /\ is_paused_on_exit' \in BOOLEAN
<1>1. ASSUME ShouldPauseOnStart(st) \/ ShouldPauseOnExit(st), EndTask
      PROVE  Outcome
  BY <1>1, Zenon DEF EndTask, Outcome, Ends, TypeOK, ShouldPauseOnStart,
              ShouldPauseOnExit
<1>2. CheckPausedOnExit(st) => Outcome
  BY CheckPausedOnExitOutcome, Zenon
<1>3. Proceed(remembered) => Outcome
  BY ProceedOutcome, Zenon DEF TypeOK
<1>4. Exit => Outcome
  BY Zenon DEF Exit, Outcome, Ends, TypeOK
<1>5. Finish(st) => Outcome
  BY FinishOutcome, Zenon
<1>6. Outcome
  BY ZenonT(30), <1>1, <1>2, <1>3, <1>4, <1>5 DEF ReturnToTask
<1> QED BY <1>6, Zenon DEF ReturnToTask, TypeOK

-----------------------------------------------------------------------------
(* What a step does to the activations.                                    *)

(* The step stays in HandleMessages.                                       *)
Nested ==
  /\ pc' = pc /\ UNCHANGED <<task_running, pool>>
  /\ stack' \in Seq(Frame) /\ StackOK'
  /\ stack'[1].site = stack[1].site

(* HandleNextMessage returns to the embedder.                              *)
NextReturns ==
  /\ Top.site = "next"
  /\ stack' = <<>> /\ pc' \in {"idle", "endCallback"}
  /\ UNCHANGED <<task_running, pool>>

(* The top of a stack in HandleMessages.                                   *)
LEMMA TopType ==
  ASSUME TypeOK, StackOK, pc = "handleMessages"
  PROVE  /\ Len(stack) \in Nat \ {0} /\ Top \in Frame
         /\ Top.site \in NestedSites <=> Len(stack) > 1
         /\ Top.phase = "run" => Top.msg \in Messages
         /\ Top.phase = "wait" => Top.site \in NestedSites
         /\ InTask <=> stack[1].site # "next"
<1>1. Len(stack) \in Nat \ {0}
  BY EmptySeq, Zenon DEF TypeOK, StackOK
<1>2. Top \in Frame
  BY <1>1, ElementOfSeq DEF TypeOK, Top
<1> QED BY <1>1, <1>2, SMTT(30) DEF StackOK, Top, Frame, InTask

(* An activation of TaskCallback or HandleNextMessage is alone.            *)
LEMMA OneActivation ==
  ASSUME TypeOK, StackOK, pc = "handleMessages", Top.site \notin NestedSites
  PROVE  Len(stack) = 1
<1>1. Len(stack) \in Nat \ {0} /\ ~(Len(stack) > 1)
  BY TopType, Zenon
<1>2. \A k \in Nat \ {0} : ~(k > 1) => k = 1
  OBVIOUS
<1> QED BY <1>1, <1>2, Zenon

(* Outside HandleMessages the stack is empty.                              *)
LEMMA EmptyStack ==
  ASSUME stack' = <<>>, pc' \in {"idle", "endCallback", "deleteMe"}
  PROVE  StackOK' /\ ~InTask' /\ stack' \in Seq(Frame)
<1>1. stack' \in Seq(Frame)
  BY EmptySeq, Zenon
<1>2. \A i \in 1..Len(stack') : FALSE
  <2>1. Len(stack') = 0
    BY EmptySeq, Zenon
  <2>2. \A i \in 1..0 : FALSE
    OBVIOUS
  <2> QED BY Zenon, <2>1, <2>2
<1>3. pc' # "handleMessages" /\ ~InTask'
  BY Zenon DEF InTask
<1> QED BY <1>1, <1>2, <1>3, Zenon DEF StackOK

(* An outcome of TaskCallback keeps the types and the shape of the stack.  *)
LEMMA OutcomeType ==
  ASSUME TypeOK, Outcome
  PROVE  /\ pc' \in Places /\ stack' \in Seq(Frame)
         /\ task_running' \in BOOLEAN /\ pool' \in BOOLEAN
         /\ StackOK'
         /\ Continues => InTask'
         /\ Ends => ~InTask'
<1>1. CASE /\ Continues
           /\ pc' \in {"notifyStart", "notifyExit", "startCallback"}
           /\ stack' = <<>>
  BY <1>1, EmptySeq, SMTT(30) DEF Continues, Ends, TypeOK, Places, StackOK, InTask
<1>2. CASE Continues /\ pc' = "handleMessages"
  <2>1. PICK site \in TaskSites, a \in BOOLEAN, b \in BOOLEAN :
          stack' = <<Activation(site, a, b)>>
    BY <1>2, Zenon DEF Continues
  <2>2. /\ Activation(site, a, b) \in Frame
        /\ Activation(site, a, b).site = site
        /\ Activation(site, a, b).phase = "enter"
    BY ActivationType, Zenon DEF Sites
  <2>3. stack' \in Seq(Frame) /\ Len(stack') = 1 /\ stack'[1].site = site
        /\ stack'[1].phase = "enter" /\ stack' # <<>>
    BY <2>1, <2>2, SMTT(30)
  <2>4. StackOK' /\ InTask'
    BY <1>2, <2>3 DEF StackOK, TaskSites, NestedSites, InTask
  <2> QED BY Zenon, <1>2, <2>3, <2>4 DEF Continues, Ends, TypeOK, Places
<1>3. CASE Ends
  <2>1. stack' = <<>>
    BY <1>3, Zenon DEF Ends
  <2>2. pc' \in {"idle", "endCallback", "deleteMe"}
    BY <1>3, Zenon DEF Ends
  <2>3. StackOK' /\ ~InTask' /\ stack' \in Seq(Frame)
    BY Zenon, <2>1, <2>2, EmptyStack
  <2>4. ~Continues
    BY <2>2, Zenon DEF Continues
  <2> QED BY <1>3, <2>1, <2>2, <2>3, <2>4, Zenon DEF Ends, TypeOK, Places
<1> QED BY Zenon, <1>1, <1>2, <1>3 DEF Outcome, Continues

(* The stack after its top is replaced, ...                                *)
LEMMA SetTopShape ==
  ASSUME TypeOK, StackOK, pc = "handleMessages", NEW f \in Frame, SetTop(f)
  PROVE  /\ Len(stack) \in Nat \ {0}
         /\ stack' \in Seq(Frame) /\ Len(stack') = Len(stack)
         /\ \A j \in 1..Len(stack) :
              stack'[j] = IF j = Len(stack) THEN f ELSE stack[j]
<1>1. Len(stack) \in Nat \ {0}
  BY TopType, Zenon
<1> QED BY <1>1, ExceptSeq, SMTT(30) DEF TypeOK, SetTop

(* ... after a push, ...                                                   *)
LEMMA PushShape ==
  ASSUME TypeOK, StackOK, pc = "handleMessages", NEW f \in Frame, stack' = Append(stack, f)
  PROVE  /\ Len(stack) \in Nat \ {0}
         /\ stack' \in Seq(Frame) /\ Len(stack') = Len(stack) + 1
         /\ \A j \in 1..Len(stack) : stack'[j] = stack[j]
         /\ stack'[Len(stack) + 1] = f
<1>1. Len(stack) \in Nat \ {0}
  BY TopType, Zenon
<1> QED BY <1>1, AppendProperties DEF TypeOK

(* ... and after the end of a nested activation.                           *)
LEMMA UnwindShape ==
  ASSUME TypeOK, StackOK, pc = "handleMessages", Top.site \in NestedSites,
         NEW st \in Status, Unwind(st)
  PROVE  \E n \in Nat \ {0} :
           /\ Len(stack) = n + 1 /\ stack[n] \in Frame
           /\ stack' \in Seq(Frame) /\ Len(stack') = n
           /\ \A j \in 1..n : stack'[j] =
                IF j = n /\ st # kOK
                THEN [stack[n] EXCEPT !.phase = "done", !.status = st]
                ELSE stack[j]
<1>0. Len(stack) \in Nat /\ Len(stack) > 1
  BY TopType, Zenon
<1>1. PICK n \in Nat \ {0} : Len(stack) = n + 1
  <2>1. \A k \in Nat : k > 1 => k - 1 \in Nat \ {0} /\ k = (k - 1) + 1
    OBVIOUS
  <2> QED BY <1>0, <2>1, Zenon
<1>2. \A i \in 1..n : stack[i] \in Frame
  BY <1>1, ElementOfSeq, SMTT(30) DEF TypeOK
<1>3. /\ Pop \in Seq(Frame) /\ Len(Pop) = n
      /\ \A i \in 1..n : Pop[i] = stack[i]
  <2>1. Pop = SubSeq(stack, 1, n)
    <3>1. \A k \in Nat : (k + 1) - 1 = k
      OBVIOUS
    <3> QED BY Zenon, <3>1, <1>1 DEF Pop
  <2> QED BY <2>1, <1>2, SubSeqProperties
<1>4. n \in 1..n
  OBVIOUS
<1>5. CASE st = kOK
  BY Zenon, <1>1, <1>2, <1>3, <1>4, <1>5 DEF Unwind
<1>6. CASE st # kOK
  <2> DEFINE f == [Pop[n] EXCEPT !.phase = "done", !.status = st]
  <2>0. Pop[n] \in Frame
    BY <1>1, <1>2, <1>3
  <2>1. f \in Frame
    BY <2>0, Zenon DEF Frame, Phases
  <2>2. stack' = [Pop EXCEPT ![n] = f]
    BY Zenon, <1>3, <1>6 DEF Unwind
  <2>4. f = [stack[n] EXCEPT !.phase = "done", !.status = st]
    BY Zenon, <1>3, <1>4
  <2> HIDE DEF f
  <2>3. /\ stack' \in Seq(Frame) /\ Len(stack') = n
        /\ \A j \in 1..n : stack'[j] = IF j = n THEN f ELSE Pop[j]
    BY <2>1, <2>2, <1>1, <1>3, ExceptSeq, SMTT(30)
  <2> QED BY Zenon, <1>1, <1>2, <1>3, <1>4, <1>6, <2>3, <2>4
<1> QED BY Zenon, <1>5, <1>6

(* Replacing the top activation, or pushing one, stays in HandleMessages.  *)
LEMMA SetTopNested ==
  ASSUME TypeOK, StackOK, pc = "handleMessages",
         NEW f \in Frame, SetTop(f),
         f.site = Top.site \/ (f.site \in NestedSites /\ Top.site \in NestedSites),
         f.phase = "run" => f.msg # NoMsg,
         f.phase = "wait" => f.site \in NestedSites,
         UNCHANGED <<pc, task_running, pool>>
  PROVE  Nested
<1>1. /\ Len(stack) \in Nat \ {0} /\ stack' \in Seq(Frame) /\ Len(stack') = Len(stack)
      /\ \A j \in 1..Len(stack) :
           stack'[j] = IF j = Len(stack) THEN f ELSE stack[j]
  BY SetTopShape, Zenon
<1>2. stack' # <<>> /\ 1 \in 1..Len(stack)
  BY <1>1
<1>3. /\ f.site \in NestedSites <=> Top.site \in NestedSites
      /\ f.site = "next" <=> Top.site = "next"
  BY Zenon DEF NestedSites
<1>4. StackOK'
  BY ZenonT(30), <1>1, <1>2, <1>3 DEF StackOK, Top
<1>5. stack'[1].site = stack[1].site
  BY ZenonT(30), <1>1, <1>2 DEF StackOK, Top
<1> QED BY Zenon, <1>1, <1>4, <1>5 DEF Nested

(* Pushing an activation for a stack check or a wait does so too.          *)
LEMMA PushNested ==
  ASSUME TypeOK, StackOK, pc = "handleMessages",
         NEW f \in Frame, stack' = Append(stack, f),
         f.site \in NestedSites, f.phase # "run",
         UNCHANGED <<pc, task_running, pool>>
  PROVE  Nested
<1>1. /\ Len(stack) \in Nat \ {0}
      /\ stack' \in Seq(Frame) /\ Len(stack') = Len(stack) + 1
      /\ \A j \in 1..Len(stack) : stack'[j] = stack[j]
      /\ stack'[Len(stack) + 1] = f
  BY PushShape, Zenon
<1>2. /\ stack' # <<>> /\ 1 \in 1..Len(stack)
      /\ \A j \in 1..Len(stack') : j \in 1..Len(stack) \/ (j = Len(stack) + 1 /\ j # 1)
  BY <1>1
<1>3. f.site # "next"
  BY Zenon DEF NestedSites
<1>4. StackOK'
  BY ZenonT(30), <1>1, <1>2, <1>3 DEF StackOK
<1> QED BY Zenon, <1>1, <1>2, <1>4 DEF Nested

(* The end of a nested activation uncovers the one below.                  *)
LEMMA UnwindNested ==
  ASSUME TypeOK, StackOK, pc = "handleMessages", Top.site \in NestedSites,
         NEW st \in Status, Unwind(st),
         UNCHANGED <<pc, task_running, pool>>
  PROVE  Nested
<1>1. PICK n \in Nat \ {0} :
         /\ Len(stack) = n + 1 /\ stack[n] \in Frame
         /\ stack' \in Seq(Frame) /\ Len(stack') = n
         /\ \A j \in 1..n : stack'[j] =
              IF j = n /\ st # kOK
              THEN [stack[n] EXCEPT !.phase = "done", !.status = st]
              ELSE stack[j]
  BY UnwindShape, Zenon
<1>2. stack' # <<>> /\ 1 \in 1..n /\ \A i \in 1..n : i \in 1..Len(stack)
  BY <1>1
<1>3. ASSUME NEW i \in 1..n
      PROVE  /\ stack'[i].site = stack[i].site
             /\ stack'[i] = stack[i] \/ stack'[i].phase = "done"
  <2>1. CASE i = n /\ st # kOK
    BY Zenon, <1>1, <2>1 DEF Frame
  <2>2. CASE ~(i = n /\ st # kOK)
    BY Zenon, <1>1, <2>2
  <2> QED BY Zenon, <2>1, <2>2
<1>4. StackOK'
  <2>1. ASSUME NEW i \in 1..n
        PROVE  /\ i = 1 <=> stack'[i].site \notin NestedSites
               /\ stack'[i].phase = "run" => stack'[i].msg # NoMsg
               /\ stack'[i].phase = "wait" => stack'[i].site \in NestedSites
               /\ stack'[i].site = "next" => ~IsNative /\ ~pool
    BY Zenon, <1>2, <1>3 DEF StackOK
  <2> QED BY Zenon, <1>1, <1>2, <2>1 DEF StackOK
<1> QED BY Zenon, <1>1, <1>2, <1>3, <1>4 DEF Nested

-----------------------------------------------------------------------------
(* What HandleMessages does between two releases of the monitor.           *)

WaitTypes == paused_for_messages' \in BOOLEAN /\ notified' \in BOOLEAN

FlagTypes ==
  /\ should_pause_on_start' \in BOOLEAN /\ should_pause_on_exit' \in BOOLEAN
  /\ is_paused_on_start' \in BOOLEAN /\ is_paused_on_exit' \in BOOLEAN
  /\ remembered' \in Status

Returned == (Top.site \in TaskSites /\ Outcome) \/ NextReturns

(* The wait loop keeps waiting, goes on to handle all messages, or unwinds.*)
LEMMA ReturnToWaitOutcome ==
  ASSUME TypeOK, StackOK, pc = "handleMessages", Top.site = "waitOob",
         NEW st \in Status, ReturnToWait(st), UNCHANGED <<pc, task_running,
         pool>>
  PROVE  WaitTypes /\ Nested
<1>1. Top.site \in NestedSites /\ Top.site # "next"
  BY Zenon DEF NestedSites
<1>2. CASE st # kOK
  BY <1>1, <1>2, UnwindNested, Zenon DEF ReturnToWait, WaitTypes, TypeOK
<1>3. CASE st = kOK /\ queue = <<>>
  <2> DEFINE f == [Activation("waitOob", FALSE, FALSE) EXCEPT !.phase = "wait"]
  <2>1. f \in Frame /\ f.site = "waitOob" /\ f.phase = "wait"
    BY Zenon DEF Activation, Frame, Sites, NestedSites, Phases, Status, kOK
  <2>2. SetTop(f) /\ WaitTypes
    BY <1>3, Zenon DEF ReturnToWait, WaitTypes, TypeOK
  <2> HIDE DEF f
  <2>3. Nested
    BY ZenonT(30), <1>1, <2>1, <2>2, SetTopNested DEF NestedSites
  <2> QED BY <2>2, <2>3, Zenon
<1>4. CASE st = kOK /\ queue # <<>>
  <2> DEFINE f == Activation("waitAll", TRUE, TRUE)
  <2>1. f \in Frame /\ f.site = "waitAll" /\ f.phase = "enter"
    BY ActivationType, Zenon DEF Sites, NestedSites
  <2>2. SetTop(f) /\ WaitTypes
    BY <1>4, Zenon DEF ReturnToWait, WaitTypes, TypeOK
  <2>3. f.site \in NestedSites /\ f.site # "next"
    BY <2>1, ZenonT(60) DEF NestedSites
  <2> HIDE DEF f
  <2>4. Nested
    BY ZenonT(30), <1>1, <2>1, <2>2, <2>3, SetTopNested
  <2> QED BY <2>2, <2>4, Zenon
<1> QED BY <1>2, <1>3, <1>4, Zenon

(* Wherever HandleMessages returns to, the types survive, and the thread   *)
(* is in an outer activation, in TaskCallback, or back in the embedder.    *)
LEMMA ReturnOutcome ==
  ASSUME TypeOK, StackOK, pc = "handleMessages", NEW st \in Status,
         Return(Top.site, st)
  PROVE  WaitTypes /\ FlagTypes /\ (Nested \/ Returned)
<1>1. ASSUME Top.site \in TaskSites, ReturnToTask(Top.site, st)
      PROVE  WaitTypes /\ FlagTypes /\ Returned
  BY Zenon, <1>1, ReturnToTaskOutcome
     DEF Returned, Outcome, WaitTypes, FlagTypes, TypeOK, waitVars
<1>2. ASSUME Top.site = "waitOob", ReturnToWait(st),
             UNCHANGED <<pauseFlags, task_running, pool, pc>>
      PROVE  WaitTypes /\ FlagTypes /\ Nested
  BY Zenon, <1>2, ReturnToWaitOutcome DEF FlagTypes, pauseFlags, TypeOK
<1>3. ASSUME Top.site \in {"oob", "waitAll"}, Unwind(st),
             UNCHANGED <<waitVars, pauseFlags, task_running, pool, pc>>
      PROVE  WaitTypes /\ FlagTypes /\ Nested
  <2>1. Top.site \in NestedSites
    BY <1>3, Zenon DEF NestedSites
  <2>2. Nested
    BY ZenonT(30), <1>3, <2>1, UnwindNested
  <2> QED BY <1>3, <2>2, Zenon DEF WaitTypes, FlagTypes, waitVars, pauseFlags, TypeOK
<1>4. ASSUME Top.site = "next", stack' = <<>>,
             pc' = IF st = kOK THEN "idle" ELSE "endCallback",
             UNCHANGED <<waitVars, pauseFlags, task_running, pool>>
      PROVE  WaitTypes /\ FlagTypes /\ Returned
  BY Zenon, <1>4
     DEF Returned, NextReturns, WaitTypes, FlagTypes, waitVars, pauseFlags,
              TypeOK
<1> QED BY ZenonT(30), <1>1, <1>2, <1>3, <1>4 DEF Return

(* DequeueMessage starts a message, or HandleMessages returns with no      *)
(* out-of-band message left.                                               *)
LEMMA DequeueOutcome ==
  ASSUME TypeOK, StackOK, pc = "handleMessages",
         NEW f \in Frame, f.site = Top.site, Dequeue(f)
  PROVE  /\ queue' \in Seq(Messages) /\ oob_queue' \in Seq(Messages)
         /\ taken' \in Nat
         /\ WaitTypes /\ FlagTypes
         /\ Nested \/ (oob_queue' = <<>> /\ Returned)
<1> DEFINE g(q, b) == [f EXCEPT !.phase = "run", !.msg = Head(q), !.oob = b]
<1>1. ASSUME NEW q \in Seq(Messages), q # <<>>, NEW b \in BOOLEAN,
             SetTop(g(q, b)), UNCHANGED <<pc, task_running, pool>>
      PROVE  Nested /\ Tail(q) \in Seq(Messages)
  <2>1. Head(q) \in Messages /\ Tail(q) \in Seq(Messages)
    BY <1>1, HeadTailProperties, Zenon
  <2>2. /\ g(q, b) \in Frame /\ g(q, b).site = Top.site
        /\ g(q, b).msg \in Messages /\ g(q, b).phase = "run"
    BY <2>1, Zenon DEF Frame, Phases
  <2> HIDE DEF g
  <2>3. NoMsg \notin Messages
    BY MessageAssumption, Zenon
  <2>4. Nested
    BY ZenonT(30), <1>1, <2>2, <2>3, SetTopNested
  <2> QED BY <2>1, <2>4, Zenon
<1>2. CASE /\ oob_queue # <<>> /\ SetTop(g(oob_queue, TRUE))
           /\ oob_queue' = Tail(oob_queue)
           /\ UNCHANGED <<queue, taken, waitVars, pauseFlags, task_running,
                         pool, pc>>
  <2>1. Nested /\ Tail(oob_queue) \in Seq(Messages)
    BY <1>1, <1>2, Zenon DEF TypeOK
  <2> QED BY Zenon, <1>2, <2>1 DEF WaitTypes, FlagTypes, waitVars, pauseFlags, TypeOK
<1>3. CASE /\ queue # <<>> /\ SetTop(g(queue, FALSE))
           /\ queue' = Tail(queue)
           /\ taken' = IF IsEvent(Head(queue)) THEN taken + 1 ELSE taken
           /\ UNCHANGED <<oob_queue, waitVars, pauseFlags, task_running,
                         pool, pc>>
  <2>1. Nested /\ Tail(queue) \in Seq(Messages)
    BY <1>1, <1>3, Zenon DEF TypeOK
  <2>2. taken' \in Nat
    BY <1>3, SMTT(30) DEF TypeOK
  <2> QED BY Zenon, <1>3, <2>1, <2>2
             DEF WaitTypes, FlagTypes, waitVars, pauseFlags, TypeOK
<1>4. CASE oob_queue = <<>> /\ Return(f.site, f.max) /\ UNCHANGED <<queues, taken>>
  <2>1. f.max \in Status
    BY Zenon DEF Frame
  <2> QED BY Zenon, <1>4, <2>1, ReturnOutcome DEF queues, TypeOK
<1> QED BY Zenon, <1>2, <1>3, <1>4 DEF Dequeue

-----------------------------------------------------------------------------
(* The life of the handler.                                                *)

(* The thread that is in TaskCallback is the only task; the thread that is *)
(* in HandleMessages is the task, or the handler has no pool.              *)
LEMMA TaskRuns ==
  ASSUME TypeOK, StackOK, LifeInv
  PROVE  /\ InTask => task_running /\ pool /\ tasks = 0
         /\ ~InTask /\ tasks = 0 => ~task_running
         /\ tasks > 0 => ~InTask /\ tasks = 1 /\ task_running /\ pool
         /\ pc = "handleMessages" => task_running \/ (~pool /\ ~IsNative)
<1>1. /\ InTask => task_running /\ pool /\ tasks = 0
      /\ ~InTask /\ tasks = 0 => ~task_running
      /\ tasks > 0 => ~InTask /\ tasks = 1 /\ task_running /\ pool
  BY DEF LifeInv, LifeOK, OneTask, TypeOK
<1>2. ASSUME pc = "handleMessages", ~InTask
      PROVE  ~pool /\ ~IsNative
  <2>1. stack[1].site = "next" /\ Len(stack) \in Nat \ {0}
    BY Zenon, <1>2, TopType
  <2> QED BY <2>1 DEF StackOK
<1> QED BY Zenon, <1>1, <1>2

lifeVars == <<portVars, posting, delete_me, tasks>>

(* A stretch of TaskCallback that ends its task with no out-of-band        *)
(* message left, or off its pool, preserves the relations between task,    *)
(* ports and deletion.                                                     *)
LEMMA OutcomeLife ==
  ASSUME TypeOK, StackOK, LifeInv, InTask, Outcome, UNCHANGED lifeVars,
         Ends => oob_queue' = <<>> \/ ~pool'
  PROVE  LifeInv'
<1>1. task_running /\ pool /\ tasks = 0
  BY Zenon, TaskRuns
<1>2. deletions = 0
  BY <1>1 DEF LifeInv, DeletedOnceUnreachable, TypeOK
<1> USE DEF lifeVars, portVars
<1>3. CASE Continues
  <2>1. InTask' /\ task_running' /\ pool'
    BY Zenon, <1>1, <1>3, OutcomeType DEF Continues
  <2>2. pc' \notin {"idle", "endCallback", "deleteMe"}
    BY <1>3, Zenon DEF Continues
  <2>3. pc # "endCallback"
    BY Zenon DEF InTask
  <2>4. LifeOK'
    BY ZenonT(30), <2>1, <2>2, <2>3 DEF LifeInv, LifeOK
  <2>5. OneTask' /\ OobDrained'
    BY <1>1, <2>1, SMTT(30) DEF OneTask, OobDrained
  <2>6. DeletedOnceUnreachable' /\ ClosedIsDeleted'
    BY ZenonT(30), <1>2, <1>1, <2>1 DEF LifeInv, DeletedOnceUnreachable, ClosedIsDeleted
  <2> QED BY Zenon, <2>4, <2>5, <2>6 DEF LifeInv
<1>4. CASE Ends
  <2>1. ~InTask' /\ ~task_running'
    BY <1>4, OutcomeType, Zenon DEF Ends
  <2>2. pc # "endCallback"
    BY Zenon DEF InTask
  <2>3. LifeOK'
    BY <1>1, <1>2, <1>4, <2>1, <2>2, Zenon
       DEF Ends, LifeInv, LifeOK, ClosedIsDeleted, TypeOK
  <2>4. OneTask'
    BY <1>1, <2>1, SMTT(30) DEF OneTask
  <2>5. OobDrained'
    BY <1>4, Zenon DEF OobDrained
  <2>6. DeletedOnceUnreachable'
    BY <1>2 DEF DeletedOnceUnreachable
  <2>7. ASSUME port = "closed"
        PROVE  IsNative /\ delete_me /\ pc' = "deleteMe"
    <3>1. IsNative /\ delete_me
      BY Zenon, <1>2, <2>7 DEF LifeInv, LifeOK, ClosedIsDeleted
    <3>2. ~(live_ports > 0)
      BY <2>7, <3>1, SMTT(30) DEF LifeInv, LifeOK
    <3> QED BY Zenon, <1>4, <3>1, <3>2 DEF Ends
  <2>8. ClosedIsDeleted'
    BY <2>7, Zenon DEF ClosedIsDeleted
  <2> QED BY ZenonT(30), <2>3, <2>4, <2>5, <2>6, <2>8 DEF LifeInv
<1> QED BY <1>3, <1>4, Zenon DEF Outcome

(* So does a step that stays in HandleMessages.                            *)
LEMMA NestedLife ==
  ASSUME TypeOK, StackOK, LifeInv, pc = "handleMessages", Nested,
         UNCHANGED lifeVars
  PROVE  LifeInv'
<1>0. InTask' <=> InTask
  BY Zenon DEF Nested, InTask
<1>1. task_running \/ ~pool
  BY Zenon, TaskRuns
<1>2. LifeOK' /\ OneTask' /\ OobDrained'
  BY Zenon, <1>0, <1>1 DEF Nested, lifeVars, portVars, LifeInv, LifeOK, OneTask, OobDrained
<1>3. DeletedOnceUnreachable' /\ ClosedIsDeleted'
  BY Zenon DEF Nested, lifeVars, portVars, LifeInv, DeletedOnceUnreachable,
         ClosedIsDeleted
<1> QED BY Zenon, <1>2, <1>3 DEF LifeInv

(* So does the return of HandleNextMessage to the embedder.                *)
LEMMA NextReturnsLife ==
  ASSUME TypeOK, StackOK, LifeInv, pc = "handleMessages", NextReturns,
         UNCHANGED lifeVars
  PROVE  /\ LifeInv'
         /\ StackOK' /\ pc' \in Places /\ stack' \in Seq(Frame)
         /\ task_running' \in BOOLEAN /\ pool' \in BOOLEAN
<1>1. Len(stack) = 1 /\ stack[1].site = "next" /\ ~InTask
  <2>1. Top.site \notin NestedSites
    BY Zenon DEF NextReturns, NestedSites
  <2>2. Len(stack) = 1
    BY Zenon, <2>1, OneActivation
  <2> QED BY <2>2, Zenon DEF NextReturns, Top, InTask
<1>2. ~pool /\ ~IsNative
  BY <1>1, SMTT(30) DEF StackOK
<1>3. ~task_running /\ tasks = 0
  BY <1>2, TaskRuns, SMTT(30) DEF LifeInv, LifeOK, TypeOK, OneTask
<1>4. ~InTask' /\ StackOK' /\ stack' \in Seq(Frame) /\ pc' \in Places
  BY Zenon, EmptyStack DEF NextReturns, Places
<1>5. port # "closed" /\ deletions = 0
  BY <1>2 DEF LifeInv, LifeOK, ClosedIsDeleted, DeletedOnceUnreachable, TypeOK
<1>6. port # "removed"
  BY Zenon, <1>2 DEF LifeInv, LifeOK
<1>7. LifeOK'
  BY ZenonT(30), <1>2, <1>3, <1>5, <1>6
     DEF NextReturns, lifeVars, portVars, LifeInv, LifeOK
<1>8. OneTask' /\ OobDrained' /\ DeletedOnceUnreachable' /\ ClosedIsDeleted'
  BY <1>2, <1>3, <1>4, <1>5, SMTT(30)
     DEF NextReturns, lifeVars, portVars, OneTask, OobDrained,
         DeletedOnceUnreachable, ClosedIsDeleted
<1> QED BY Zenon, <1>4, <1>7, <1>8 DEF LifeInv, NextReturns, TypeOK

-----------------------------------------------------------------------------
(* The steps of TaskCallback and HandleMessages.                           *)

(* An insertion before the events goes where no event is in front of it.   *)
LEMMA LeadingControls ==
  ASSUME NEW q \in Seq(Messages)
  PROVE  \E n \in Nat : /\ Leading(q) = n /\ n <= Len(q)
                        /\ \A i \in 1..n : ~IsEvent(q[i])
<1> DEFINE S == {n \in 1..Len(q) : \A i \in 1..n : ~IsEvent(q[i])}
<1>1. Len(q) \in Nat /\ S \in SUBSET (1..Len(q))
  OBVIOUS
<1>2. \A n \in Nat : IsFiniteSet(1..n) /\ Cardinality(1..n) = n
  <2>1. ASSUME NEW n \in Nat
        PROVE  /\ IsFiniteSet(1..n)
               /\ Cardinality(1..n) = IF 1 > n THEN 0 ELSE n - 1 + 1
    BY FS_Interval
  <2> QED BY <2>1
<1>3. IsFiniteSet(S) /\ Cardinality(S) <= Len(q)
  <2>1. IsFiniteSet(1..Len(q)) /\ Cardinality(1..Len(q)) = Len(q)
    BY <1>1, <1>2, Zenon
  <2> QED BY <1>1, <2>1, FS_Subset, ZenonT(30)
<1>4. PICK n \in Nat : n = Cardinality(S)
  BY <1>3, FS_CardinalityType, Zenon
<1>5. n <= Len(q) /\ Leading(q) = n
  BY <1>3, <1>4, Zenon DEF Leading
<1>6. ASSUME NEW i \in 1..n, IsEvent(q[i])
      PROVE  FALSE
  <2>1. i - 1 \in Nat /\ ~(n <= i - 1)
    BY <1>6
  <2>2. S \in SUBSET (1..(i - 1))
    <3>1. \A k \in 1..Len(q) : k \notin 1..(i - 1) => i \in 1..k
      BY <1>1, <1>6
    <3> QED BY Zenon, <1>6, <3>1
  <2> HIDE DEF S
  <2>3. Cardinality(S) <= i - 1
    <3>1. IsFiniteSet(1..(i - 1)) /\ Cardinality(1..(i - 1)) = i - 1
      BY <2>1, <1>2, Zenon
    <3> QED BY <2>2, <3>1, FS_Subset, ZenonT(30)
  <2> QED BY <1>4, <2>1, <2>3, Zenon
<1> QED BY Zenon, <1>5, <1>6

(* r is q with m after its first n messages, which are not events.         *)
Inserted(q, m, n, r) ==
  /\ n <= Len(q) /\ \A i \in 1..n : ~IsEvent(q[i])
  /\ r \in Seq(Messages) /\ Len(r) = Len(q) + 1
  /\ \A i \in 1..Len(q) + 1 : r[i] =
       IF i <= n THEN q[i] ELSE IF i = n + 1 THEN m ELSE q[i - 1]

(* A message that goes before the events is inserted behind the controls.  *)
LEMMA InsertShape ==
  ASSUME NEW q \in Seq(Messages), NEW m \in Messages
  PROVE  \E n \in Nat : Inserted(q, m, n, Enqueue(q, m, TRUE))
<1>1. PICK n \in Nat : /\ Leading(q) = n /\ n <= Len(q)
                       /\ \A i \in 1..n : ~IsEvent(q[i])
  BY Zenon, LeadingControls
<1> DEFINE u == SubSeq(q, 1, n)
           v == SubSeq(q, n + 1, Len(q))
           a == Append(u, m)
<1>2. Len(q) \in Nat /\ \A i \in 1..Len(q) : q[i] \in Messages
  BY ElementOfSeq
<1>3. u \in Seq(Messages) /\ Len(u) = n /\ \A i \in 1..n : u[i] = q[i]
  <2>1. \A i \in 1..n : q[i] \in Messages
    BY <1>1, <1>2
  <2> QED BY <2>1, SubSeqProperties
<1>4. /\ v \in Seq(Messages) /\ Len(v) = Len(q) - n
      /\ \A i \in 1..Len(q) - n : v[i] = q[n + i]
  <2>1. \A i \in n + 1..Len(q) : q[i] \in Messages
    BY <1>2
  <2>2. n + 1 \in Int /\ Len(q) \in Int
    BY <1>2
  <2>3. /\ v \in Seq(Messages)
        /\ Len(v) = IF n + 1 <= Len(q) THEN Len(q) - (n + 1) + 1 ELSE 0
        /\ \A i \in 1..Len(q) - (n + 1) + 1 : v[i] = q[n + 1 + i - 1]
    BY <2>1, <2>2, SubSeqProperties
  <2> HIDE DEF v
  <2>4. \A i \in 1..Len(q) - n : i \in 1..Len(q) - (n + 1) + 1 /\ n + 1 + i - 1 = n + i
    BY <1>2
  <2>5. Len(v) = Len(q) - n
    BY <1>1, <1>2, <2>3
  <2> QED BY Zenon, <2>3, <2>4, <2>5
<1> HIDE DEF u, v
<1>5. /\ a \in Seq(Messages) /\ Len(a) = n + 1
      /\ \A i \in 1..n : a[i] = q[i]
      /\ a[n + 1] = m
  <2>1. /\ a \in Seq(Messages) /\ Len(a) = Len(u) + 1
        /\ \A i \in 1..Len(u) : a[i] = u[i]
        /\ a[Len(u) + 1] = m
    BY <1>3, AppendProperties
  <2> QED BY Zenon, <1>3, <2>1
<1> HIDE DEF a
<1>6. Enqueue(q, m, TRUE) = a \o v
  BY Zenon, <1>1 DEF Enqueue, a, u, v
<1>7. /\ a \o v \in Seq(Messages) /\ Len(a \o v) = Len(a) + Len(v)
      /\ \A i \in 1..Len(a) + Len(v) :
           (a \o v)[i] = IF i <= Len(a) THEN a[i] ELSE v[i - Len(a)]
  BY Zenon, <1>4, <1>5, ConcatProperties
<1>8. Len(a) + Len(v) = Len(q) + 1
  BY <1>2, <1>4, <1>5
<1>9. ASSUME NEW i \in 1..Len(q) + 1
      PROVE  (a \o v)[i] = IF i <= n THEN q[i] ELSE IF i = n + 1 THEN m ELSE q[i - 1]
  <2>1. (a \o v)[i] = IF i <= n + 1 THEN a[i] ELSE v[i - (n + 1)]
    BY Zenon, <1>5, <1>7, <1>8
  <2>2. CASE i <= n
    <3>1. i <= n + 1 /\ i \in 1..n
      BY <1>2, <2>2
    <3> QED BY Zenon, <1>5, <2>1, <2>2, <3>1
  <2>3. CASE i = n + 1
    <3>1. i <= n + 1 /\ ~(i <= n)
      BY <1>2, <2>3
    <3> QED BY Zenon, <1>5, <2>1, <2>3, <3>1
  <2>4. CASE ~(i <= n) /\ i # n + 1
    <3>1. ~(i <= n + 1) /\ i - (n + 1) \in 1..Len(q) - n /\ n + (i - (n + 1)) = i - 1
      BY <1>1, <1>2, <2>4
    <3> QED BY Zenon, <1>4, <2>1, <2>4, <3>1
  <2> QED BY Zenon, <2>2, <2>3, <2>4
<1> QED BY Zenon, <1>1, <1>6, <1>7, <1>8, <1>9 DEF Inserted

(* Both kinds of insertion keep a queue of messages one.                   *)
LEMMA EnqueueType ==
  ASSUME NEW q \in Seq(Messages), NEW m \in Messages, NEW b \in BOOLEAN
  PROVE  Enqueue(q, m, b) \in Seq(Messages)
<1>1. CASE ~b
  BY <1>1, AppendProperties, Zenon DEF Enqueue
<1>2. CASE b
  <2>1. Enqueue(q, m, b) = Enqueue(q, m, TRUE)
    BY Zenon, <1>2 DEF Enqueue
  <2> QED BY Zenon, <2>1, InsertShape DEF Inserted
<1> QED BY <1>1, <1>2, Zenon

(* TaskCallback is entered, ...                                            *)
LEMMA StartTaskOutcome ==
  ASSUME TypeOK, StartTask
  PROVE  Outcome /\ Continues
<1>1. kOK \in Status
  BY Zenon DEF Status
<1>2. CASE Release("notifyStart") /\ UNCHANGED remembered
  BY Zenon, <1>2 DEF Release, Outcome, Continues, TypeOK
<1>3. CASE CallOob("pausedOnStart")
  BY <1>3, CallOutcome, ZenonT(60) DEF CallOob, TaskSites
<1>4. CASE CheckPausedOnExit(kOK)
  BY Zenon, <1>1, <1>4, CheckPausedOnExitOutcome
<1> QED BY Zenon, <1>2, <1>3, <1>4 DEF StartTask

(* ... or goes on after a callback, unless that asked for a shutdown.      *)
LEMMA TaskContinues ==
  ASSUME TypeOK,
         \/ PausedOnStart
         \/ PausedOnExit
         \/ \E st \in Status : StartCallbackReturns(st)
  PROVE  Outcome /\ (Continues \/ (Ends /\ ~pool'))
<1>1. CASE PausedOnStart
  BY <1>1, CallOutcome, Zenon DEF PausedOnStart, CallOob, TaskSites
<1>2. CASE PausedOnExit
  BY <1>2, CallOutcome, Zenon DEF PausedOnExit, CallOob, TaskSites
<1>3. ASSUME NEW st \in Status, StartCallbackReturns(st)
      PROVE  Outcome /\ (Continues \/ (Ends /\ ~pool'))
  <2>1. CASE Call("main", st = kOK, TRUE)
    <3>1. (st = kOK) \in BOOLEAN /\ "main" \in TaskSites
      BY Zenon DEF TaskSites
    <3> QED BY Zenon, <2>1, <3>1, CallOutcome
  <2>2. CASE st = kShutdown /\ Finish(st)
    <3>1. kShutdown # kOK
      BY DEF kShutdown, kOK
    <3>2. Exit
      BY Zenon, <2>2, <3>1 DEF Finish, ShouldPauseOnExit
    <3> QED BY Zenon, <3>2 DEF Exit, Outcome, Ends, TypeOK
  <2> QED BY Zenon, <1>3, <2>1, <2>2 DEF StartCallbackReturns
<1> QED BY Zenon, <1>1, <1>2, <1>3

(* The pool hands the task to a thread, which enters TaskCallback.         *)
LEMMA StartTaskInv ==
  ASSUME IInv, StartTask
  PROVE  IInv'
<1> USE DEF queues, waitVars, portVars, postVars
<1>1. TypeOK /\ StackOK /\ LifeInv /\ kOK \in Status
  BY Zenon DEF IInv, Status
<1>2. Outcome /\ Continues
  BY Zenon, <1>1, StartTaskOutcome
<1>3. tasks = 1 /\ task_running /\ pool /\ tasks' = 0
  BY <1>1, TaskRuns DEF StartTask
<1>4. /\ pc' \in Places /\ stack' \in Seq(Frame)
      /\ task_running' \in BOOLEAN /\ pool' \in BOOLEAN
      /\ StackOK' /\ InTask'
  BY Zenon, <1>1, <1>2, OutcomeType
<1>5. TypeOK'
  BY <1>1, <1>2, <1>3, <1>4, SMTT(30) DEF TypeOK, StartTask, Outcome
<1>6. deletions = 0
  BY <1>1, <1>3, SMTT(30) DEF LifeInv, DeletedOnceUnreachable, TypeOK
<1>7. task_running' /\ pool' /\ pc' \notin {"idle", "endCallback", "deleteMe"}
  BY Zenon, <1>2, <1>3 DEF Continues
<1>8. LifeOK'
  BY Zenon, <1>1, <1>7 DEF LifeInv, LifeOK, StartTask
<1>9. OneTask' /\ OobDrained' /\ DeletedOnceUnreachable' /\ ClosedIsDeleted'
  BY <1>1, <1>3, <1>4, <1>6, <1>7, SMTT(30)
     DEF LifeInv, OneTask, OobDrained, DeletedOnceUnreachable, ClosedIsDeleted,
         StartTask
<1>10. IsFiniteSet(caps') /\ PauseCount'
  BY Zenon DEF IInv, PauseCount, StartTask
<1> QED BY Zenon, <1>4, <1>5, <1>8, <1>9, <1>10 DEF IInv, LifeInv

(* The steps with which TaskCallback takes the monitor again.              *)
LEMMA TaskContinuesInv ==
  ASSUME IInv,
         \/ PausedOnStart
         \/ PausedOnExit
         \/ \E st \in Status : StartCallbackReturns(st)
  PROVE  IInv'
<1> USE DEF queues, waitVars, portVars, postVars
<1>1. TypeOK /\ StackOK /\ LifeInv
  BY Zenon DEF IInv
<1>2. Outcome /\ (Continues \/ (Ends /\ ~pool'))
  BY Zenon, <1>1, TaskContinues
<1>3. InTask
  BY ZenonT(60) DEF InTask, PausedOnStart, PausedOnExit, StartCallbackReturns
<1>4. /\ pc' \in Places /\ stack' \in Seq(Frame)
      /\ task_running' \in BOOLEAN /\ pool' \in BOOLEAN
      /\ StackOK'
  BY Zenon, <1>1, <1>2, OutcomeType
<1>5. TypeOK'
  <2>1. CASE PausedOnStart
    BY <1>1, <1>2, <1>4, <2>1, SMTT(30) DEF TypeOK, Outcome, PausedOnStart
  <2>2. CASE PausedOnExit
    BY <1>1, <1>2, <1>4, <2>2, SMTT(30) DEF TypeOK, Outcome, PausedOnExit
  <2>3. CASE \E st \in Status : StartCallbackReturns(st)
    <3>1. start_callback' \in BOOLEAN
      BY <2>3, ZenonT(60) DEF StartCallbackReturns
    <3>2. UNCHANGED <<queues, waitVars, paused, caps, portVars, delete_me,
    tasks,
                      interrupt, postVars, taken, killed,
                      should_pause_on_start,
                      should_pause_on_exit, is_paused_on_start,
                      is_paused_on_exit>>
      BY <2>3, Zenon DEF StartCallbackReturns
    <3> QED BY <1>1, <1>2, <1>4, <3>1, <3>2, SMTT(30) DEF TypeOK, Outcome
  <2> QED BY Zenon, <2>1, <2>2, <2>3
<1>6. Ends => ~pool'
  BY Zenon, <1>1, <1>2, OutcomeType
<1>7. UNCHANGED lifeVars
  BY Zenon DEF lifeVars, PausedOnStart, PausedOnExit, StartCallbackReturns
<1>8. LifeInv'
  BY ZenonT(30), <1>1, <1>2, <1>3, <1>6, <1>7, OutcomeLife
<1>9. IsFiniteSet(caps') /\ PauseCount'
  BY Zenon
     DEF IInv, PauseCount, PausedOnStart, PausedOnExit, StartCallbackReturns
<1> QED BY Zenon, <1>4, <1>5, <1>8, <1>9 DEF IInv

(* A critical section of HandleMessages.                                   *)
LEMMA HandleMessagesInv ==
  ASSUME IInv, pc = "handleMessages", UNCHANGED handleUnchanged,
         queue' \in Seq(Messages), oob_queue' \in Seq(Messages),
         taken' \in Nat,
         WaitTypes, FlagTypes, Nested \/ (oob_queue' = <<>> /\ Returned)
  PROVE  IInv'
<1> USE DEF handleUnchanged, portVars, postVars
<1>1. TypeOK /\ StackOK /\ LifeInv /\ UNCHANGED lifeVars
  BY Zenon DEF IInv, lifeVars
<1>2. /\ LifeInv' /\ StackOK' /\ pc' \in Places /\ stack' \in Seq(Frame)
      /\ task_running' \in BOOLEAN /\ pool' \in BOOLEAN
  <2>1. CASE Nested
    BY ZenonT(30), <1>1, <2>1, NestedLife DEF Nested, TypeOK
  <2>2. CASE oob_queue' = <<>> /\ Top.site \in TaskSites /\ Outcome
    <3>1. Top.site # "next" /\ Top.site \notin NestedSites
      BY <2>2, Zenon DEF TaskSites, NestedSites
    <3>2. Len(stack) = 1
      BY Zenon, <1>1, <3>1, OneActivation
    <3>3. InTask
      BY Zenon, <3>1, <3>2 DEF InTask, Top
    <3>4. LifeInv'
      BY ZenonT(30), <1>1, <2>2, <3>3, OutcomeLife
    <3> QED BY ZenonT(30), <1>1, <2>2, <3>4, OutcomeType
  <2>3. CASE NextReturns
    BY ZenonT(30), <1>1, <2>3, NextReturnsLife
  <2> QED BY ZenonT(30), <2>1, <2>2, <2>3 DEF Returned
<1>3. TypeOK'
  BY Zenon, <1>1, <1>2 DEF TypeOK, WaitTypes, FlagTypes
<1>4. IsFiniteSet(caps') /\ PauseCount'
  BY Zenon DEF IInv, PauseCount
<1> QED BY ZenonT(30), <1>2, <1>3, <1>4 DEF IInv

(* HandleMessages takes the monitor for the first time.                    *)
LEMMA EnterHandleMessagesInv ==
  ASSUME IInv, EnterHandleMessages
  PROVE  IInv'
<1>1. TypeOK /\ StackOK /\ pc = "handleMessages" /\ Top \in Frame /\ Dequeue(Top)
  BY TopType, Zenon DEF IInv, EnterHandleMessages
<1>2. UNCHANGED handleUnchanged
  BY Zenon DEF EnterHandleMessages
<1> QED BY ZenonT(30), <1>1, <1>2, DequeueOutcome, HandleMessagesInv

(* HandleMessages takes the monitor after a message.                       *)
LEMMA MessageHandledInv ==
  ASSUME IInv, MessageHandled
  PROVE  IInv'
<1>1. TypeOK /\ StackOK /\ pc = "handleMessages" /\ Top \in Frame
  BY TopType, Zenon DEF IInv, MessageHandled
<1>2. UNCHANGED handleUnchanged
  BY Zenon DEF MessageHandled
<1> DEFINE f == [Top EXCEPT !.max = Worse(Top.max, Top.status),
                            !.allow = Top.allow /\ (Top.oob \/ Top.multi)]
<1>3. f \in Frame /\ f.site = Top.site /\ f.max \in Status
  <2>1. Worse(Top.max, Top.status) \in Status
    BY <1>1, Zenon DEF Frame, Worse
  <2>2. (Top.allow /\ (Top.oob \/ Top.multi)) \in BOOLEAN
    BY Zenon
  <2> QED BY <1>1, <2>1, <2>2, ZenonT(60) DEF Frame
<1>4. \/ oob_queue' = <<>> /\ Return(f.site, f.max) /\ UNCHANGED <<queue, taken>>
      \/ Dequeue(f)
  BY Zenon DEF MessageHandled
<1> HIDE DEF f
<1>5. CASE oob_queue' = <<>> /\ Return(f.site, f.max) /\ UNCHANGED <<queue, taken>>
  <2>1. WaitTypes /\ FlagTypes /\ (Nested \/ Returned)
    BY Zenon, <1>1, <1>3, <1>5, ReturnOutcome
  <2>2. queue' \in Seq(Messages) /\ oob_queue' \in Seq(Messages) /\ taken' \in Nat
    BY Zenon, <1>1, <1>5, EmptySeq DEF TypeOK
  <2> QED BY ZenonT(30), <1>1, <1>2, <1>5, <2>1, <2>2, HandleMessagesInv
<1>6. CASE Dequeue(f)
  BY ZenonT(30), <1>1, <1>2, <1>3, <1>6, DequeueOutcome, HandleMessagesInv
<1> QED BY ZenonT(30), <1>4, <1>5, <1>6

-----------------------------------------------------------------------------
(* The steps of HandleMessage.                                             *)

(* A step that stays in HandleMessages and leaves the life of the handler  *)
(* alone.                                                                  *)
LEMMA NestedInv ==
  ASSUME IInv, pc = "handleMessages", Nested,
         UNCHANGED <<lifeVars, posted, sent, start_callback>>,
         queue' \in Seq(Messages), oob_queue' \in Seq(Messages),
         taken' \in Nat,
         WaitTypes, FlagTypes,
         caps' \subseteq Capabilities, IsFiniteSet(caps'), PauseCount',
         interrupt' \in BOOLEAN, killed' \in Status
  PROVE  IInv'
<1>1. TypeOK /\ StackOK /\ LifeInv /\ UNCHANGED lifeVars
  BY Zenon DEF IInv
<1>2. LifeInv'
  BY Zenon, <1>1, NestedLife
<1>3. paused' \in Nat
  BY Zenon, FS_CardinalityType DEF PauseCount
<1>4. TypeOK'
  BY Zenon, <1>1, <1>3 DEF TypeOK, WaitTypes, FlagTypes, Nested, lifeVars, portVars
<1> QED BY Zenon, <1>2, <1>4 DEF IInv, Nested

(* The end of HandleMessage stays in HandleMessages.                       *)
LEMMA HandleReturnsNested ==
  ASSUME TypeOK, StackOK, pc = "handleMessages", NEW st \in Status,
         HandleReturns(st), UNCHANGED <<pc, task_running, pool>>
  PROVE  Nested
<1> DEFINE f == [Top EXCEPT !.phase = "done", !.status = st]
<1>1. Top \in Frame
  BY TopType, Zenon
<1>2. f \in Frame /\ f.site = Top.site /\ f.phase = "done"
  BY <1>1, Zenon DEF Frame, Phases
<1>3. SetTop(f)
  BY Zenon DEF HandleReturns
<1> HIDE DEF f
<1> QED BY ZenonT(30), <1>2, <1>3, SetTopNested

(* The Dart code of an event returns or throws.                            *)
LEMMA HandleEventInv ==
  ASSUME IInv, NEW st \in {kOK, kError}, HandleEvent(st)
  PROVE  IInv'
<1> USE DEF queues, waitVars, portVars, postVars, pauseFlags, bodyUnchanged
<1>1. TypeOK /\ StackOK /\ pc = "handleMessages" /\ st \in Status
  BY Zenon DEF IInv, HandleEvent, Running, Status
<1>2. Nested
  BY Zenon, <1>1, HandleReturnsNested DEF HandleEvent
<1>3. UNCHANGED <<lifeVars, posted, sent, start_callback>>
  BY Zenon DEF HandleEvent, lifeVars
<1>4. caps' \subseteq Capabilities /\ IsFiniteSet(caps') /\ PauseCount'
  BY Zenon DEF HandleEvent, IInv, PauseCount, TypeOK
<1>5. /\ queue' \in Seq(Messages) /\ oob_queue' \in Seq(Messages)
      /\ taken' \in Nat /\ WaitTypes /\ FlagTypes
      /\ interrupt' \in BOOLEAN /\ killed' \in Status
  BY Zenon, <1>1 DEF HandleEvent, TypeOK, WaitTypes, FlagTypes
<1> QED BY ZenonT(30), <1>1, <1>2, <1>3, <1>4, <1>5, NestedInv

(* A pause or resume message changes the capabilities and paused_          *)
(* together.                                                               *)
LEMMA HandlePauseResumeInv ==
  ASSUME IInv, HandlePauseResume
  PROVE  IInv'
<1> USE DEF queues, waitVars, portVars, postVars, pauseFlags, bodyUnchanged
<1>1. TypeOK /\ StackOK /\ pc = "handleMessages" /\ kOK \in Status
  BY Zenon DEF IInv, HandlePauseResume, Running, Status
<1>2. Nested
  BY Zenon, <1>1, HandleReturnsNested DEF HandlePauseResume
<1>3. UNCHANGED <<lifeVars, posted, sent, start_callback>>
  BY Zenon DEF HandlePauseResume, lifeVars
<1>4. caps' \subseteq Capabilities /\ IsFiniteSet(caps') /\ PauseCount'
  <2>1. PICK c \in Capabilities :
          AddResumeCapability(c) \/ RemoveResumeCapability(c)
    <3>1. Top.msg \in Messages
      BY Zenon, <1>1, TopType DEF HandlePauseResume, Running
    <3> QED BY Zenon, <3>1, MessageAssumption DEF HandlePauseResume
  <2>2. IsFiniteSet(caps) /\ paused = Cardinality(caps) /\ caps \subseteq Capabilities
    BY Zenon DEF IInv, PauseCount, TypeOK
  <2>3. CASE AddResumeCapability(c)
    BY Zenon, <2>2, <2>3, FS_AddElement DEF AddResumeCapability, PauseCount
  <2>4. CASE RemoveResumeCapability(c)
    BY ZenonT(30), <2>2, <2>4, FS_RemoveElement
       DEF RemoveResumeCapability, PauseCount
  <2> QED BY Zenon, <2>1, <2>3, <2>4
<1>5. /\ queue' \in Seq(Messages) /\ oob_queue' \in Seq(Messages)
      /\ taken' \in Nat /\ WaitTypes /\ FlagTypes
      /\ interrupt' \in BOOLEAN /\ killed' \in Status
  BY Zenon, <1>1 DEF HandlePauseResume, TypeOK, WaitTypes, FlagTypes
<1> QED BY ZenonT(30), <1>1, <1>2, <1>3, <1>4, <1>5, NestedInv

(* A kill or ping that acts at once.                                       *)
LEMMA HandleImmediateInv ==
  ASSUME IInv, HandleImmediate
  PROVE  IInv'
<1> USE DEF queues, waitVars, portVars, postVars, pauseFlags, bodyUnchanged
<1>1. TypeOK /\ StackOK /\ pc = "handleMessages"
  BY Zenon DEF IInv, HandleImmediate, Running
<1>2. KillStatus(Top.msg) \in Status /\ Worse(killed, KillStatus(Top.msg)) \in Status
  BY Zenon, <1>1 DEF KillStatus, Status, Worse, TypeOK
<1>3. Nested
  BY Zenon, <1>1, <1>2, HandleReturnsNested DEF HandleImmediate
<1>4. UNCHANGED <<lifeVars, posted, sent, start_callback>>
  BY Zenon DEF HandleImmediate, lifeVars
<1>5. caps' \subseteq Capabilities /\ IsFiniteSet(caps') /\ PauseCount'
  BY Zenon DEF HandleImmediate, IInv, PauseCount, TypeOK
<1>6. /\ queue' \in Seq(Messages) /\ oob_queue' \in Seq(Messages)
      /\ taken' \in Nat /\ WaitTypes /\ FlagTypes
      /\ interrupt' \in BOOLEAN /\ killed' \in Status
  BY Zenon, <1>1, <1>2 DEF HandleImmediate, TypeOK, WaitTypes, FlagTypes
<1> QED BY ZenonT(30), <1>1, <1>3, <1>4, <1>5, <1>6, NestedInv

(* The delayed message finds the task running, so no second one starts.    *)
LEMMA HandleDelayedInv ==
  ASSUME IInv, HandleDelayed
  PROVE  IInv'
<1> USE DEF portVars, postVars, pauseFlags, bodyUnchanged
<1>1. TypeOK /\ StackOK /\ LifeInv /\ pc = "handleMessages" /\ kOK \in Status
  BY ZenonT(60) DEF IInv, HandleDelayed, Running, Status
<1>2. UNCHANGED <<task_running, tasks>>
  <2>1. task_running \/ ~pool
    BY Zenon, <1>1, TaskRuns
  <2> QED BY <2>1, Zenon DEF HandleDelayed, PostMessage, LaunchTask
<1>3. Nested
  BY ZenonT(30), <1>1, <1>2, HandleReturnsNested DEF HandleDelayed
<1>4. UNCHANGED <<lifeVars, posted, sent, start_callback>>
  BY Zenon, <1>2 DEF HandleDelayed, lifeVars
<1>5. caps' \subseteq Capabilities /\ IsFiniteSet(caps') /\ PauseCount'
  BY Zenon DEF HandleDelayed, IInv, PauseCount, TypeOK
<1>6. Top.msg \in Messages
  BY <1>1, TopType, Zenon DEF HandleDelayed, Running
<1>7. (Prio[Top.msg] = "beforeNextEvent") \in BOOLEAN
  BY Zenon
<1>8. queue' \in Seq(Messages) /\ oob_queue' \in Seq(Messages)
  BY <1>1, <1>6, <1>7, EnqueueType, ZenonT(60)
     DEF HandleDelayed, PostMessage, TypeOK
<1>9. WaitTypes
  BY Zenon, <1>1 DEF HandleDelayed, PostMessage, NotifyWaiting, WaitTypes, TypeOK
<1>10. /\ taken' \in Nat /\ FlagTypes
       /\ interrupt' \in BOOLEAN /\ killed' \in Status
  BY Zenon, <1>1 DEF HandleDelayed, TypeOK, FlagTypes
<1> QED BY ZenonT(30), <1>1, <1>3, <1>4, <1>5, <1>8, <1>9, <1>10, NestedInv

(* A service request may change the two should_pause flags only.           *)
LEMMA HandleServiceInv ==
  ASSUME IInv, HandleService
  PROVE  IInv'
<1> USE DEF queues, waitVars, portVars, postVars, bodyUnchanged
<1>1. TypeOK /\ StackOK /\ pc = "handleMessages" /\ kOK \in Status
  BY Zenon DEF IInv, HandleService, Running, Status
<1>2. Nested
  BY Zenon, <1>1, HandleReturnsNested DEF HandleService
<1>3. UNCHANGED <<lifeVars, posted, sent, start_callback>>
  BY Zenon DEF HandleService, lifeVars
<1>4. caps' \subseteq Capabilities /\ IsFiniteSet(caps') /\ PauseCount'
  BY Zenon DEF HandleService, IInv, PauseCount, TypeOK
<1>5. should_pause_on_start' \in BOOLEAN /\ should_pause_on_exit' \in BOOLEAN
  BY <1>1, ZenonT(60)
     DEF HandleService, ServiceResume, ServiceSetPauseOnExit, TypeOK
<1>6. /\ queue' \in Seq(Messages) /\ oob_queue' \in Seq(Messages)
      /\ taken' \in Nat /\ WaitTypes /\ FlagTypes
      /\ interrupt' \in BOOLEAN /\ killed' \in Status
  BY Zenon, <1>1, <1>5 DEF HandleService, TypeOK, WaitTypes, FlagTypes
<1> QED BY ZenonT(30), <1>1, <1>2, <1>3, <1>4, <1>6, NestedInv

(* Dart code enters HandleMessages from a stack check or a wait, and a     *)
(* Wait returns: an activation is pushed, or replaces the one that waited. *)
LEMMA EnterNested ==
  ASSUME TypeOK, StackOK, HandleInterrupt \/ WaitForEvent \/ \E b \in BOOLEAN : WakeUp(b)
  PROVE  Nested
<1>1. pc = "handleMessages" /\ UNCHANGED <<pc, task_running, pool>>
  BY Zenon DEF HandleInterrupt, WaitForEvent, WakeUp, Running, Waiting, taskVars
<1> DEFINE w == [Activation("waitOob", FALSE, FALSE) EXCEPT !.phase = "wait"]
           a == Activation("waitAll", TRUE, TRUE)
           o == Activation("oob", FALSE, FALSE)
           e == Activation("waitOob", FALSE, FALSE)
<1>2. /\ w \in Frame /\ w.site \in NestedSites /\ w.phase # "run"
      /\ a \in Frame /\ a.site \in NestedSites /\ a.phase # "run"
      /\ o \in Frame /\ o.site \in NestedSites /\ o.phase # "run"
      /\ e \in Frame /\ e.site \in NestedSites /\ e.phase # "run"
  BY ZenonT(60) DEF Activation, Frame, Sites, NestedSites, Phases, Status, kOK
<1>3. CASE HandleInterrupt \/ WaitForEvent
  <2>1. stack' \in {Append(stack, w), Append(stack, a), Append(stack, o)}
    BY <1>3, Zenon DEF HandleInterrupt, WaitForEvent
  <2> HIDE DEF w, a, o
  <2> QED BY ZenonT(30), <1>1, <1>2, <2>1, PushNested
<1>4. CASE \E b \in BOOLEAN : WakeUp(b)
  <2>1. SetTop(a) \/ SetTop(e)
    BY <1>4, ZenonT(60) DEF WakeUp
  <2>2. Top.site \in NestedSites
    BY ZenonT(30), <1>1, <1>4, TopType DEF WakeUp, Waiting, NestedSites
  <2> HIDE DEF a, e
  <2> QED BY ZenonT(30), <1>1, <1>2, <2>1, <2>2, SetTopNested
<1> QED BY Zenon, <1>3, <1>4

(* A stack check and a wait push an activation, or go round the loop.      *)
LEMMA EnterNestedInv ==
  ASSUME IInv, HandleInterrupt \/ WaitForEvent \/ \E b \in BOOLEAN : WakeUp(b)
  PROVE  IInv'
<1> USE DEF queues, waitVars, portVars, postVars, pauseFlags, taskVars
<1>1. TypeOK /\ StackOK /\ pc = "handleMessages"
  BY Zenon DEF IInv, HandleInterrupt, WaitForEvent, WakeUp, Running, Waiting
<1>2. UNCHANGED <<lifeVars, posted, sent, start_callback, queue, oob_queue, taken,
                  caps, paused, pauseFlags, killed>>
  BY Zenon DEF HandleInterrupt, WaitForEvent, WakeUp, lifeVars
<1>3. WaitTypes /\ interrupt' \in BOOLEAN
  BY <1>1, ZenonT(60)
     DEF HandleInterrupt, WaitForEvent, WakeUp, TypeOK, WaitTypes
<1>4. Nested
  BY Zenon, <1>1, EnterNested
<1>5. caps' \subseteq Capabilities /\ IsFiniteSet(caps') /\ PauseCount'
  BY Zenon, <1>2 DEF IInv, PauseCount, TypeOK
<1>6. queue' \in Seq(Messages) /\ oob_queue' \in Seq(Messages) /\ taken' \in Nat
      /\ FlagTypes /\ killed' \in Status
  BY Zenon, <1>1, <1>2 DEF TypeOK, FlagTypes
<1> QED BY ZenonT(30), <1>1, <1>2, <1>3, <1>4, <1>5, <1>6, NestedInv

(* A step of another thread leaves the stack and the capabilities alone.   *)
LEMMA ThreadKept ==
  ASSUME IInv, UNCHANGED <<pc, stack, pool, caps, paused>>
  PROVE  StackOK' /\ IsFiniteSet(caps') /\ PauseCount' /\ (InTask' <=> InTask)
<1>1. StackOK'
  BY Zenon DEF IInv, StackOK
<1>2. IsFiniteSet(caps') /\ PauseCount'
  BY Zenon DEF IInv, PauseCount
<1>3. InTask' <=> InTask
  BY Zenon DEF InTask
<1> QED BY ZenonT(30), <1>1, <1>2, <1>3

(* Dart code opens or closes a receive port.                               *)
LEMMA ChangeLivePortsInv ==
  ASSUME IInv, NEW n \in 0..MaxLivePorts, ChangeLivePorts(n)
  PROVE  IInv'
<1> USE DEF queues, waitVars, postVars, pauseFlags, taskVars
<1>1. TypeOK'
  BY SMTT(30) DEF IInv, TypeOK, ChangeLivePorts
<1>2. StackOK' /\ IsFiniteSet(caps') /\ PauseCount' /\ (InTask' <=> InTask)
  BY Zenon, ThreadKept DEF ChangeLivePorts
<1>3. LifeOK'
  BY Zenon DEF IInv, LifeInv, LifeOK, ChangeLivePorts
<1>4. OneTask' /\ OobDrained'
  BY Zenon, <1>2 DEF IInv, LifeInv, OneTask, OobDrained, ChangeLivePorts
<1>5. DeletedOnceUnreachable' /\ ClosedIsDeleted'
  BY DEF IInv, LifeInv, DeletedOnceUnreachable, ClosedIsDeleted,
         ChangeLivePorts
<1> QED BY ZenonT(30), <1>1, <1>2, <1>3, <1>4, <1>5 DEF IInv, LifeInv

-----------------------------------------------------------------------------
(* The steps of the embedder, of posters and of closers.                   *)

(* The embedder gives an idle handler to a pool: its first task.           *)
LEMMA RunInv ==
  ASSUME IInv, Run
  PROVE  IInv'
<1> USE DEF queues, waitVars, postVars, portVars, pauseFlags
<1>1. ~InTask /\ tasks = 0 /\ ~task_running
  <2>1. ~InTask /\ ~task_running
    BY Zenon DEF IInv, Run, InTask, LifeInv, LifeOK
  <2> QED BY <2>1, SMTT(30) DEF IInv, LifeInv, OneTask, TypeOK
<1>2. TypeOK'
  BY <1>1, MessageAssumption, SMTT(30) DEF IInv, TypeOK, Run
<1>3. StackOK' /\ ~InTask'
  <2>1. stack' = <<>> /\ pc' = "idle"
    BY Zenon DEF IInv, StackOK, Run
  <2> QED BY <2>1, EmptyStack, Zenon
<1>4. IsFiniteSet(caps') /\ PauseCount'
  BY Zenon DEF IInv, PauseCount, Run
<1>5. LifeOK'
  BY Zenon DEF IInv, LifeInv, LifeOK, Run
<1>6. OneTask' /\ OobDrained'
  BY <1>1, <1>3, SMTT(30) DEF OneTask, OobDrained, Run
<1>7. DeletedOnceUnreachable' /\ ClosedIsDeleted'
  BY Zenon DEF IInv, LifeInv, LifeOK, DeletedOnceUnreachable, ClosedIsDeleted, Run
<1> QED BY ZenonT(30), <1>2, <1>3, <1>4, <1>5, <1>6, <1>7 DEF IInv, LifeInv

(* The embedder calls Dart_HandleMessage: no task is involved.             *)
LEMMA HandleNextMessageInv ==
  ASSUME IInv, HandleNextMessage
  PROVE  IInv'
<1> USE DEF queues, waitVars, postVars, portVars
<1> DEFINE f == Activation("next", TRUE, FALSE)
<1>1. f \in Frame /\ f.site = "next" /\ f.phase = "enter"
  BY ActivationType, ZenonT(60) DEF Sites
<1>2. /\ stack' = <<f>> /\ pc' = "handleMessages" /\ ~pool /\ pool' = pool
      /\ ~IsNative /\ pc = "idle" /\ port = "open" /\ task_running' = task_running
      /\ remembered' = remembered
  BY Zenon DEF HandleNextMessage, Call
<1> HIDE DEF f
<1>3. stack' \in Seq(Frame) /\ Len(stack') = 1 /\ stack'[1] = f /\ stack' # <<>>
  BY <1>1, <1>2, SMTT(30)
<1>4. StackOK' /\ ~InTask'
  BY <1>1, <1>2, <1>3, SMTT(30) DEF StackOK, NestedSites, InTask
<1>5. TypeOK'
  BY <1>2, <1>3, SMTT(30) DEF IInv, TypeOK, HandleNextMessage, Places
<1>6. IsFiniteSet(caps') /\ PauseCount'
  BY Zenon DEF IInv, PauseCount, HandleNextMessage
<1>7. LifeOK'
  BY <1>2, Zenon DEF IInv, LifeInv, LifeOK, HandleNextMessage
<1>8. ~InTask
  BY Zenon, <1>2 DEF InTask
<1>9. OneTask' /\ OobDrained'
  BY Zenon, <1>2, <1>4, <1>8
     DEF IInv, LifeInv, OneTask, OobDrained, HandleNextMessage
<1>10. DeletedOnceUnreachable' /\ ClosedIsDeleted'
  BY <1>2, Zenon DEF IInv, LifeInv, LifeOK, DeletedOnceUnreachable, ClosedIsDeleted,
              HandleNextMessage
<1> QED BY Zenon, <1>4, <1>5, <1>6, <1>7, <1>9, <1>10 DEF IInv, LifeInv

(* A message to a handler without a task starts exactly one.               *)
LEMMA PostInv ==
  ASSUME IInv, NEW m \in Messages, Post(m)
  PROVE  IInv'
<1> USE DEF portVars, pauseFlags
<1>1. TypeOK /\ StackOK /\ LifeInv
  BY Zenon DEF IInv
<1>2. queue' \in Seq(Messages) /\ oob_queue' \in Seq(Messages)
  <2>1. FALSE \in BOOLEAN
    BY Zenon
  <2> QED BY <1>1, <2>1, EnqueueType, Zenon DEF Post, PostMessage, TypeOK
<1>3. sent' \in Seq(Messages) /\ posted' \subseteq Messages
      /\ posting' \in {"none", "normal", "oob"}
  BY <1>1, AppendProperties, Zenon DEF Post, TypeOK
<1>4. notified' \in BOOLEAN /\ task_running' \in BOOLEAN /\ tasks' \in Nat
  <2>1. notified' \in BOOLEAN
    <3>1. NotifyWaiting
      BY Zenon DEF Post, PostMessage
    <3> QED BY Zenon, <3>1 DEF NotifyWaiting
  <2>2. task_running' \in BOOLEAN /\ tasks' \in Nat
    <3>1. PICK oob : LaunchTask(oob)
      BY Zenon DEF Post, PostMessage
    <3>2. CASE pool /\ ~task_running
      BY <1>1, <3>1, <3>2, SMTT(30) DEF LaunchTask, TypeOK
    <3>3. CASE ~(pool /\ ~task_running)
      BY Zenon, <1>1, <3>1, <3>3 DEF LaunchTask, TypeOK
    <3> QED BY Zenon, <3>2, <3>3
  <2> QED BY Zenon, <2>1, <2>2
<1>5. TypeOK'
  BY ZenonT(30), <1>1, <1>2, <1>3, <1>4 DEF Post, TypeOK
<1>6. StackOK' /\ IsFiniteSet(caps') /\ PauseCount' /\ (InTask' <=> InTask)
  BY Zenon, ThreadKept DEF Post
<1>7. LifeOK'
  BY Zenon, <1>1 DEF LifeInv, LifeOK, Post, PostMessage, LaunchTask
<1>8. OneTask'
  BY <1>1, <1>6, SMTT(30)
     DEF LifeInv, OneTask, Post, PostMessage, LaunchTask, TypeOK
<1>9. OobDrained'
  BY <1>1, SMTT(30) DEF LifeInv, OobDrained, Post, PostMessage, LaunchTask
<1>10. DeletedOnceUnreachable' /\ ClosedIsDeleted'
  BY <1>1, Zenon DEF LifeInv, LifeOK, DeletedOnceUnreachable, ClosedIsDeleted, Post
<1> QED BY ZenonT(30), <1>5, <1>6, <1>7, <1>8, <1>9, <1>10 DEF IInv, LifeInv

(* The poster sets the interrupt bit and lets the mutex go.                *)
LEMMA MessageNotifyInv ==
  ASSUME IInv, MessageNotify
  PROVE  IInv'
<1> USE DEF queues, waitVars, portVars, pauseFlags, taskVars
<1>1. TypeOK'
  BY SMTT(30) DEF IInv, TypeOK, MessageNotify
<1>2. StackOK' /\ IsFiniteSet(caps') /\ PauseCount' /\ (InTask' <=> InTask)
  BY Zenon, ThreadKept DEF MessageNotify
<1>3. LifeOK'
  BY Zenon DEF IInv, LifeInv, LifeOK, MessageNotify
<1>4. OneTask' /\ OobDrained'
  BY Zenon, <1>2 DEF IInv, LifeInv, OneTask, OobDrained, MessageNotify
<1>5. DeletedOnceUnreachable' /\ ClosedIsDeleted'
  BY Zenon DEF IInv, LifeInv, DeletedOnceUnreachable, ClosedIsDeleted, MessageNotify
<1> QED BY ZenonT(30), <1>1, <1>2, <1>3, <1>4, <1>5 DEF IInv, LifeInv

(* ClosePort and the steps that end an isolate.                            *)
LEMMA ClosePortInv ==
  ASSUME IInv, ClosePort \/ ClosePorts
  PROVE  IInv'
<1> USE DEF queues, waitVars, postVars, pauseFlags, taskVars
<1>1. live_ports' = 0 /\ port = "open" /\ port' = "removed" /\ posting = "none"
  BY SMTT(30) DEF IInv, LifeInv, LifeOK, ClosePort, ClosePorts, MutexFree
<1>2. TypeOK'
  BY <1>1, MessageAssumption, SMTT(30) DEF IInv, TypeOK, ClosePort, ClosePorts
<1>3. StackOK' /\ IsFiniteSet(caps') /\ PauseCount' /\ (InTask' <=> InTask)
  BY Zenon, ThreadKept DEF ClosePort, ClosePorts
<1>4. LifeOK'
  BY <1>1, SMTT(30) DEF IInv, LifeInv, LifeOK, ClosePort, ClosePorts
<1>5. OneTask' /\ OobDrained'
  BY <1>3, SMTT(30)
     DEF IInv, LifeInv, OneTask, OobDrained, ClosePort, ClosePorts
<1>6. DeletedOnceUnreachable' /\ ClosedIsDeleted'
  BY Zenon, <1>1
     DEF IInv, LifeInv, LifeOK, DeletedOnceUnreachable, ClosedIsDeleted,
              ClosePort, ClosePorts
<1> QED BY Zenon, <1>2, <1>3, <1>4, <1>5, <1>6 DEF IInv, LifeInv

(* RequestDeletion deletes an idle handler and leaves a busy one to        *)
(* its task.                                                               *)
LEMMA RequestDeletionInv ==
  ASSUME IInv, RequestDeletion
  PROVE  IInv'
<1> USE DEF queues, waitVars, postVars, pauseFlags
<1>1. /\ IsNative /\ port = "removed" /\ port' = "closed"
      /\ deletions = 0 /\ posting = "none"
  BY Zenon DEF IInv, LifeInv, LifeOK, RequestDeletion
<1>2. TypeOK'
  BY <1>1, SMTT(30) DEF IInv, TypeOK, RequestDeletion, Busy
<1>3. StackOK' /\ IsFiniteSet(caps') /\ PauseCount' /\ (InTask' <=> InTask)
  BY Zenon, ThreadKept DEF RequestDeletion
<1>4. pc # "endCallback" /\ pc # "deleteMe"
  BY Zenon, <1>1 DEF IInv, LifeInv, LifeOK
<1>5. LifeOK'
  BY Zenon, <1>1, <1>4 DEF IInv, LifeInv, LifeOK, RequestDeletion, Busy
<1>6. OneTask' /\ OobDrained'
  BY Zenon, <1>3 DEF IInv, LifeInv, OneTask, OobDrained, RequestDeletion
<1>7. CASE task_running
  BY <1>1, <1>2, <1>3, <1>5, <1>6, <1>7, ZenonT(60)
     DEF RequestDeletion, Busy, IInv, LifeInv, DeletedOnceUnreachable,
         ClosedIsDeleted
<1>8. CASE ~task_running
  <2>1. pc = "idle" /\ tasks = 0
    <3>1. pc # "handleMessages"
      BY Zenon, <1>1, <1>8, TaskRuns DEF IInv
    <3>2. ~InTask /\ tasks = 0
      BY <1>8, TaskRuns, SMTT(30) DEF IInv, LifeInv, OneTask, TypeOK
    <3> QED BY Zenon, <1>4, <3>1, <3>2 DEF InTask, IInv, TypeOK, Places
  <2>2. deletions' = 1
    BY <1>1, <1>8, SMTT(30) DEF RequestDeletion, Busy
  <2>3. DeletedOnceUnreachable' /\ ClosedIsDeleted'
    BY <1>1, <1>8, <2>1, <2>2, SMTT(30)
       DEF RequestDeletion, DeletedOnceUnreachable, ClosedIsDeleted
  <2> QED BY ZenonT(30), <1>2, <1>3, <1>5, <1>6, <2>3 DEF IInv, LifeInv
<1> QED BY Zenon, <1>7, <1>8 DEF IInv, TypeOK

(* TaskCallback's "delete this" and the end callback's deletion.           *)
LEMMA DeleteInv ==
  ASSUME IInv, DeleteMe \/ CloseAllPorts
  PROVE  IInv'
<1> USE DEF queues, waitVars, postVars, pauseFlags, taskVars
<1>1. ~InTask /\ ~pool /\ ~task_running /\ tasks = 0 /\ deletions = 0
      /\ stack = <<>> /\ posting = "none"
  <2>1. ~InTask /\ ~pool /\ deletions = 0 /\ posting = "none" /\ ~task_running
    BY Zenon DEF DeleteMe, CloseAllPorts, IInv, LifeInv, LifeOK, InTask
  <2>2. stack = <<>>
    BY Zenon DEF DeleteMe, CloseAllPorts, IInv, StackOK
  <2> QED BY <2>1, <2>2, SMTT(30) DEF IInv, LifeInv, OneTask, TypeOK
<1>2. pc' = "idle" /\ deletions' = 1 /\ port' = "closed"
  BY <1>1, SMTT(30) DEF DeleteMe, CloseAllPorts, IInv, LifeInv, LifeOK
<1>3. TypeOK'
  <2>1. /\ pc' \in Places /\ deletions' \in Nat
        /\ port' \in {"open", "removed", "closed"}
        /\ queue' \in Seq(Messages) /\ oob_queue' \in Seq(Messages)
    BY <1>2, EmptySeq, Zenon DEF IInv, TypeOK, DeleteMe, CloseAllPorts, Places
  <2>2. UNCHANGED <<waitVars, paused, caps, live_ports, pauseFlags, taskVars,
                    stack, interrupt, postVars, taken, killed>>
    BY Zenon DEF DeleteMe, CloseAllPorts
  <2> QED BY <2>1, <2>2, SMTT(30) DEF IInv, TypeOK
<1>4. StackOK' /\ IsFiniteSet(caps') /\ PauseCount' /\ ~InTask'
  <2>1. stack' = <<>> /\ UNCHANGED <<caps, paused>>
    BY <1>1, Zenon DEF DeleteMe, CloseAllPorts
  <2>2. StackOK' /\ ~InTask'
    BY Zenon, <1>2, <2>1, EmptyStack
  <2> QED BY Zenon, <2>1, <2>2 DEF IInv, PauseCount
<1>5. LifeOK'
  BY <1>1, <1>2, SMTT(30) DEF IInv, LifeInv, LifeOK, DeleteMe, CloseAllPorts
<1>6. OneTask' /\ OobDrained'
  BY <1>1, <1>4, SMTT(30) DEF OneTask, OobDrained, DeleteMe, CloseAllPorts
<1>7. DeletedOnceUnreachable' /\ ClosedIsDeleted'
  BY <1>1, <1>2, SMTT(30)
     DEF DeletedOnceUnreachable, ClosedIsDeleted, DeleteMe, CloseAllPorts
<1> QED BY ZenonT(30), <1>3, <1>4, <1>5, <1>6, <1>7 DEF IInv, LifeInv

-----------------------------------------------------------------------------
(* The theorems.                                                           *)

(* The constructor establishes the invariant.                              *)
LEMMA InitInv == Init => IInv
<1> SUFFICES ASSUME Init PROVE IInv
  BY Zenon
<1>1. TypeOK
  <2>1. live_ports \in 0..MaxLivePorts
    BY MessageAssumption DEF Init
  <2>2. should_pause_on_start \in BOOLEAN /\ should_pause_on_exit \in BOOLEAN
    BY MessageAssumption, ZenonT(60) DEF Init
  <2>3. <<>> \in Seq(Messages) /\ <<>> \in Seq(Frame)
    BY Zenon, EmptySeq
  <2> QED BY <2>1, <2>2, <2>3, Zenon DEF Init, TypeOK, Places, Status
<1>2. StackOK /\ IsFiniteSet(caps) /\ PauseCount
  BY EmptySeq, FS_EmptySet, SMTT(30) DEF Init, StackOK, PauseCount
<1>3. LifeOK /\ OneTask /\ OobDrained /\ DeletedOnceUnreachable /\ ClosedIsDeleted
  BY DEF Init, LifeOK, OneTask, InTask, OobDrained, DeletedOnceUnreachable,
         ClosedIsDeleted
<1> QED BY ZenonT(30), <1>1, <1>2, <1>3 DEF IInv, LifeInv

(* Every step preserves the invariant.                                     *)
LEMMA NextInv == IInv /\ [Next]_vars => IInv'
<1> SUFFICES ASSUME IInv, [Next]_vars PROVE IInv'
  BY Zenon
<1>1. CASE TaskStep
  BY Zenon, <1>1, StartTaskInv, TaskContinuesInv, EnterHandleMessagesInv,
     MessageHandledInv, DeleteInv, ClosePortInv DEF TaskStep
<1>2. CASE HandleMessage
  BY ZenonT(30), <1>2, HandleEventInv, HandlePauseResumeInv, HandleImmediateInv,
     HandleDelayedInv, HandleServiceInv DEF HandleMessage
<1>3. CASE HandleInterrupt \/ WaitForEvent \/ \E b \in BOOLEAN : WakeUp(b)
  BY Zenon, <1>3, EnterNestedInv
<1>4. CASE \E n \in 0..MaxLivePorts : ChangeLivePorts(n)
  BY Zenon, <1>4, ChangeLivePortsInv
<1>5. CASE Run \/ HandleNextMessage \/ MessageNotify
           \/ \E m \in Messages : Post(m)
  BY ZenonT(30), <1>5, RunInv, HandleNextMessageInv, MessageNotifyInv, PostInv
<1>6. CASE ClosePort \/ RequestDeletion
  BY Zenon, <1>6, ClosePortInv, RequestDeletionInv
<1>7. CASE UNCHANGED vars
  <2> USE <1>7 DEF vars, queues, waitVars, portVars, pauseFlags, taskVars,
  postVars
  <2>1. TypeOK'
    BY SMTT(30) DEF IInv, TypeOK
  <2>2. StackOK' /\ IsFiniteSet(caps') /\ PauseCount' /\ (InTask' <=> InTask)
    BY Zenon, ThreadKept
  <2>3. LifeOK' /\ DeletedOnceUnreachable' /\ ClosedIsDeleted'
    BY Zenon DEF IInv, LifeInv, LifeOK, DeletedOnceUnreachable, ClosedIsDeleted
  <2>4. OneTask' /\ OobDrained'
    BY <2>2, Zenon DEF IInv, LifeInv, OneTask, OobDrained
  <2> QED BY ZenonT(30), <2>1, <2>2, <2>3, <2>4 DEF IInv, LifeInv
<1> QED BY Zenon, <1>1, <1>2, <1>3, <1>4, <1>5, <1>6, <1>7 DEF Next

(* The inductive invariant holds in every reachable state.                 *)
LEMMA Invariance == Spec => []IInv
BY InitInv, NextInv, PTL DEF Spec

(* Type correctness, for any messages, capabilities and bounds: the pause  *)
(* counter never underflows, whatever resume messages arrive, and the      *)
(* queues hold messages only.                                              *)
THEOREM TypeCorrect == Spec => []TypeOK
<1>1. IInv => TypeOK
  BY Zenon DEF IInv
<1> QED BY <1>1, Invariance, PTL

(* Whatever the interleaving of posters, embedder and task, a handler      *)
(* never has two tasks, and task_running_ tells whether it has one.        *)
THEOREM TaskExclusion == Spec => []OneTask
<1>1. IInv => OneTask
  BY Zenon DEF IInv, LifeInv
<1> QED BY <1>1, Invariance, PTL

(* No out-of-band message is left behind by a task that ends.              *)
THEOREM OobNeverStranded == Spec => []OobDrained
<1>1. IInv => OobDrained
  BY Zenon DEF IInv, LifeInv
<1> QED BY <1>1, Invariance, PTL

(* RequestDeletion, "delete this" and the end callback delete a handler at *)
(* most once, and never under a task, a poster or a closer.                *)
THEOREM SafeDeletion == Spec => []DeletedOnceUnreachable
<1>1. IInv => DeletedOnceUnreachable
  BY Zenon DEF IInv, LifeInv
<1> QED BY <1>1, Invariance, PTL

(* A handler whose ports are closed is deleted, or has a task that will    *)
(* delete it.                                                              *)
THEOREM NoLeak == Spec => []ClosedIsDeleted
<1>1. IInv => ClosedIsDeleted
  BY Zenon DEF IInv, LifeInv
<1> QED BY <1>1, Invariance, PTL

(* paused_ is the number of outstanding resume capabilities.               *)
THEOREM PauseCounted == Spec => []PauseCount
<1>1. IInv => PauseCount
  BY Zenon DEF IInv
<1> QED BY <1>1, Invariance, PTL

-----------------------------------------------------------------------------
(* The events of q are those of s after the first t, in the same order.    *)
InOrder(q, s, t) ==
  \E at \in [t + 1..Len(s) -> 1..Len(q)] :
    /\ \A i, j \in t + 1..Len(s) : i < j => at[i] < at[j]
    /\ \A i \in t + 1..Len(s) : q[at[i]] = s[i]
    /\ {at[i] : i \in t + 1..Len(s)} = {k \in 1..Len(q) : IsEvent(q[k])}

(* Messages that go before the next event have no event in front of them.  *)
Urgent(m) == ~IsEvent(m) /\ Prio[m] = "beforeNextEvent"

InFront(q) ==
  \A i, j \in 1..Len(q) : i < j /\ Urgent(q[j]) => ~IsEvent(q[i])

(* p gives the place in r of each event of q.                              *)
Moves(p, q, r) ==
  /\ \A k \in 1..Len(q) : IsEvent(q[k]) => p[k] \in 1..Len(r) /\ r[p[k]] = q[k]
  /\ \A j, k \in 1..Len(q) : IsEvent(q[j]) /\ IsEvent(q[k]) /\ j < k => p[j] < p[k]
  /\ \A l \in 1..Len(r) : IsEvent(r[l]) => \E k \in 1..Len(q) : IsEvent(q[k]) /\ p[k] = l

(* The order of the events does not depend on the messages between them.   *)
LEMMA Reindex ==
  ASSUME NEW q, NEW r, NEW s, NEW t, NEW p, Moves(p, q, r), InOrder(q, s, t)
  PROVE  InOrder(r, s, t)
<1>1. PICK at \in [t + 1..Len(s) -> 1..Len(q)] :
        /\ \A i, j \in t + 1..Len(s) : i < j => at[i] < at[j]
        /\ \A i \in t + 1..Len(s) : q[at[i]] = s[i]
        /\ {at[i] : i \in t + 1..Len(s)} = {k \in 1..Len(q) : IsEvent(q[k])}
  BY Zenon DEF InOrder
<1> DEFINE D == t + 1..Len(s)
           bt == [i \in D |-> p[at[i]]]
<1>2. \A i \in D : at[i] \in 1..Len(q) /\ IsEvent(q[at[i]])
  BY Zenon, <1>1
<1>3. \A k \in 1..Len(q) : IsEvent(q[k]) => \E i \in D : at[i] = k
  <2>1. ASSUME NEW k \in 1..Len(q), IsEvent(q[k])
        PROVE  \E i \in D : at[i] = k
    <3>1. k \in {at[i] : i \in D}
      BY Zenon, <1>1, <2>1
    <3> QED BY Zenon, <3>1
  <2> QED BY Zenon, <2>1
<1>4. \A i \in D : bt[i] = p[at[i]] /\ bt[i] \in 1..Len(r) /\ r[bt[i]] = s[i]
  BY Zenon, <1>1, <1>2 DEF Moves
<1>5. bt \in [D -> 1..Len(r)]
  BY Zenon, <1>4
<1>6. \A i, j \in D : i < j => bt[i] < bt[j]
  BY Zenon, <1>1, <1>2, <1>4 DEF Moves
<1>7. \A i \in D : IsEvent(r[bt[i]])
  BY Zenon, <1>1, <1>2, <1>4
<1>8. \A l \in 1..Len(r) : IsEvent(r[l]) => \E i \in D : bt[i] = l
  <2>1. ASSUME NEW l \in 1..Len(r), IsEvent(r[l])
        PROVE  \E i \in D : bt[i] = l
    <3>1. PICK k \in 1..Len(q) : IsEvent(q[k]) /\ p[k] = l
      BY Zenon, <2>1 DEF Moves
    <3>2. PICK i \in D : at[i] = k
      BY Zenon, <1>3, <3>1
    <3> QED BY Zenon, <1>4, <3>1, <3>2
  <2> QED BY Zenon, <2>1
<1> HIDE DEF bt
<1>9. {bt[i] : i \in D} = {k \in 1..Len(r) : IsEvent(r[k])}
  <2>1. ASSUME NEW l \in {bt[i] : i \in D}
        PROVE  l \in 1..Len(r) /\ IsEvent(r[l])
    BY Zenon, <1>4, <1>7
  <2>2. ASSUME NEW l \in 1..Len(r), IsEvent(r[l])
        PROVE  l \in {bt[i] : i \in D}
    BY Zenon, <1>8, <2>2
  <2> QED BY Zenon, <2>1, <2>2
<1> QED BY Zenon, <1>4, <1>5, <1>6, <1>9 DEF InOrder

(* A message that is no event is put behind all others, ...                *)
LEMMA AppendControl ==
  ASSUME NEW q \in Seq(Messages), NEW s \in Seq(Messages), NEW t \in Nat,
         NEW m \in Messages, ~IsEvent(m), InOrder(q, s, t)
  PROVE  InOrder(Append(q, m), s, t)
<1> DEFINE p == [k \in 1..Len(q) |-> k]
           r == Append(q, m)
<1>1. /\ r \in Seq(Messages) /\ Len(q) \in Nat /\ Len(r) = Len(q) + 1
      /\ \A i \in 1..Len(q) : r[i] = q[i]
      /\ r[Len(q) + 1] = m
  BY AppendProperties
<1>2. \A k \in 1..Len(q) : p[k] = k
  BY Zenon
<1> HIDE DEF p, r
<1>3. \A k \in 1..Len(q) : k \in 1..Len(r)
  BY <1>1
<1>4. \A l \in 1..Len(r) : l \in 1..Len(q) \/ l = Len(q) + 1
  BY <1>1
<1>5. \A k \in 1..Len(q) : IsEvent(q[k]) => p[k] \in 1..Len(r) /\ r[p[k]] = q[k]
  BY Zenon, <1>1, <1>2, <1>3
<1>6. \A j, k \in 1..Len(q) : IsEvent(q[j]) /\ IsEvent(q[k]) /\ j < k => p[j] < p[k]
  BY Zenon, <1>2
<1>7. \A l \in 1..Len(r) : IsEvent(r[l]) => \E k \in 1..Len(q) : IsEvent(q[k]) /\ p[k] = l
  BY Zenon, <1>1, <1>2, <1>4
<1>8. InOrder(r, s, t)
  BY Zenon, <1>5, <1>6, <1>7, Reindex DEF Moves
<1> QED BY Zenon, <1>8 DEF r

(* ... or before the events, ...                                           *)
LEMMA InsertControl ==
  ASSUME NEW q \in Seq(Messages), NEW s \in Seq(Messages), NEW t \in Nat,
         NEW m \in Messages, ~IsEvent(m), InOrder(q, s, t)
  PROVE  InOrder(Enqueue(q, m, TRUE), s, t)
<1> DEFINE r == Enqueue(q, m, TRUE)
<1>0. PICK n \in Nat : Inserted(q, m, n, r)
  BY Zenon, InsertShape
<1> HIDE DEF r
<1>1. /\ n <= Len(q) /\ Len(r) = Len(q) + 1
      /\ \A i \in 1..Len(q) + 1 : r[i] =
           IF i <= n THEN q[i] ELSE IF i = n + 1 THEN m ELSE q[i - 1]
  BY Zenon, <1>0 DEF Inserted
<1> DEFINE p == [k \in 1..Len(q) |-> IF k <= n THEN k ELSE k + 1]
<1>2. Len(q) \in Nat
  OBVIOUS
<1>3. \A k \in 1..Len(q) : p[k] = IF k <= n THEN k ELSE k + 1
  BY Zenon
<1> HIDE DEF p
<1>4. \A k \in 1..Len(q) : p[k] \in 1..Len(r) /\ r[p[k]] = q[k]
  <2>1. ASSUME NEW k \in 1..Len(q)
        PROVE  p[k] \in 1..Len(r) /\ r[p[k]] = q[k]
    <3>1. CASE k <= n
      <4>1. p[k] = k /\ k \in 1..Len(q) + 1
        BY <1>2, <1>3, <3>1
      <4> QED BY Zenon, <1>1, <3>1, <4>1
    <3>2. CASE ~(k <= n)
      <4>1. p[k] = k + 1 /\ k + 1 \in 1..Len(q) + 1 /\ ~(k + 1 <= n) /\ k + 1 # n + 1 /\ (k + 1) - 1 = k
        BY <1>2, <1>3, <3>2
      <4> QED BY Zenon, <1>1, <4>1
    <3> QED BY Zenon, <3>1, <3>2
  <2> QED BY Zenon, <2>1
<1>5. \A j, k \in 1..Len(q) : j < k => p[j] < p[k]
  BY <1>2, <1>3
<1>6. \A l \in 1..Len(r) : IsEvent(r[l]) => \E k \in 1..Len(q) : IsEvent(q[k]) /\ p[k] = l
  <2>1. ASSUME NEW l \in 1..Len(r), IsEvent(r[l])
        PROVE  \E k \in 1..Len(q) : p[k] = l
    <3>0. l \in 1..Len(q) + 1 /\ l # n + 1
      <4>1. ~(n + 1 <= n)
        OBVIOUS
      <4> QED BY Zenon, <1>1, <2>1, <4>1
    <3>1. CASE l <= n
      <4>1. l \in 1..Len(q) \/ l = Len(q) + 1
        BY <1>2, <3>0
      <4>2. l \in 1..Len(q)
        BY <1>1, <1>2, <3>1, <4>1
      <4> QED BY Zenon, <1>3, <3>1, <4>2
    <3>2. CASE ~(l <= n)
      <4>1. l - 1 \in 1..Len(q) /\ ~(l - 1 <= n) /\ (l - 1) + 1 = l
        BY <1>2, <3>0, <3>2
      <4> QED BY Zenon, <1>3, <4>1
    <3> QED BY Zenon, <3>1, <3>2
  <2> QED BY Zenon, <1>4, <2>1
<1>7. InOrder(r, s, t)
  <2>1. Moves(p, q, r)
    BY Zenon, <1>4, <1>5, <1>6 DEF Moves
  <2> QED BY Zenon, <2>1, Reindex
<1> QED BY Zenon, <1>7 DEF r

(* ... or is taken: the events stay as they were.                          *)
LEMMA TailControl ==
  ASSUME NEW q \in Seq(Messages), q # <<>>, NEW s, NEW t,
         ~IsEvent(Head(q)), InOrder(q, s, t)
  PROVE  InOrder(Tail(q), s, t)
<1> DEFINE p == [k \in 1..Len(q) |-> k - 1]
           r == Tail(q)
<1>1. /\ Len(q) \in Nat /\ Len(r) = Len(q) - 1 /\ q[1] = Head(q)
      /\ \A i \in 1..Len(r) : r[i] = q[i + 1]
  BY HeadTailProperties
<1>2. \A k \in 1..Len(q) : p[k] = k - 1
  BY Zenon
<1> HIDE DEF p, r
<1>3. \A k \in 1..Len(q) : IsEvent(q[k]) => k # 1
  BY Zenon, <1>1
<1>4. \A k \in 1..Len(q) : k # 1 => k - 1 \in 1..Len(r) /\ (k - 1) + 1 = k
  BY <1>1
<1>5. \A k \in 1..Len(q) : IsEvent(q[k]) => p[k] \in 1..Len(r) /\ r[p[k]] = q[k]
  BY Zenon, <1>1, <1>2, <1>3, <1>4
<1>6. \A j, k \in 1..Len(q) : j < k => p[j] < p[k]
  BY <1>1, <1>2
<1>7. \A l \in 1..Len(r) : l + 1 \in 1..Len(q) /\ p[l + 1] = l
  BY <1>1, <1>2
<1>8. \A l \in 1..Len(r) : IsEvent(r[l]) => \E k \in 1..Len(q) : IsEvent(q[k]) /\ p[k] = l
  BY Zenon, <1>1, <1>7
<1>9. InOrder(r, s, t)
  BY Zenon, <1>5, <1>6, <1>8, Reindex DEF Moves
<1> QED BY Zenon, <1>9 DEF r

(* The first event is taken, and it is the next one that was posted.       *)
LEMMA TailEvent ==
  ASSUME NEW q \in Seq(Messages), q # <<>>, NEW s \in Seq(Messages), NEW t \in Nat,
         IsEvent(Head(q)), InOrder(q, s, t)
  PROVE  t + 1 <= Len(s) /\ InOrder(Tail(q), s, t + 1)
<1> DEFINE r == Tail(q)
           D == t + 1..Len(s)
           E == (t + 1) + 1..Len(s)
<1>1. /\ Len(q) \in Nat \ {0} /\ Len(r) = Len(q) - 1 /\ q[1] = Head(q)
      /\ \A i \in 1..Len(r) : r[i] = q[i + 1]
  BY HeadTailProperties
<1> HIDE DEF r
<1>2. PICK at \in [D -> 1..Len(q)] :
        /\ \A i, j \in D : i < j => at[i] < at[j]
        /\ \A i \in D : q[at[i]] = s[i]
        /\ {at[i] : i \in D} = {k \in 1..Len(q) : IsEvent(q[k])}
  BY Zenon DEF InOrder
<1>3. \A i \in D : at[i] \in 1..Len(q) /\ IsEvent(q[at[i]])
  BY Zenon, <1>2
<1>4. \A k \in 1..Len(q) : IsEvent(q[k]) => \E i \in D : at[i] = k
  <2>1. ASSUME NEW k \in 1..Len(q), IsEvent(q[k])
        PROVE  \E i \in D : at[i] = k
    <3>1. k \in {at[i] : i \in D}
      BY Zenon, <1>2, <2>1
    <3> QED BY Zenon, <3>1
  <2> QED BY Zenon, <2>1
<1>5. t + 1 \in D /\ at[t + 1] = 1
  <2>1. 1 \in 1..Len(q) /\ IsEvent(q[1])
    <3>1. 1 \in 1..Len(q)
      BY <1>1
    <3> QED BY Zenon, <1>1, <3>1
  <2>2. PICK i \in D : at[i] = 1
    BY Zenon, <1>4, <2>1
  <2>3. t + 1 \in D /\ (i # t + 1 => t + 1 < i)
    OBVIOUS
  <2>4. ASSUME i # t + 1
        PROVE  FALSE
    <3>1. at[t + 1] < 1 /\ at[t + 1] \in 1..Len(q)
      BY Zenon, <1>2, <1>3, <2>2, <2>3, <2>4
    <3> QED BY <1>1, <3>1
  <2> QED BY Zenon, <2>2, <2>3, <2>4
<1>6. t + 1 <= Len(s) /\ \A i \in E : i \in D /\ t + 1 < i
  BY <1>5
<1>7. \A i \in D : i \in E \/ i = t + 1
  OBVIOUS
<1> DEFINE bt == [i \in E |-> at[i] - 1]
<1>8. \A i \in E : bt[i] = at[i] - 1
  BY Zenon
<1>9. \A i \in E : 1 < at[i] /\ at[i] \in 1..Len(q)
  BY Zenon, <1>2, <1>3, <1>5, <1>6
<1>10. \A i \in E : bt[i] \in 1..Len(r) /\ bt[i] + 1 = at[i]
  BY <1>1, <1>8, <1>9
<1>11. bt \in [E -> 1..Len(r)]
  BY Zenon, <1>10
<1> HIDE DEF bt
<1>12. \A i, j \in E : i < j => bt[i] < bt[j]
  <2>1. \A i, j \in E : i < j => at[i] < at[j]
    BY Zenon, <1>2, <1>6
  <2> QED BY <1>1, <1>8, <1>9, <2>1
<1>13. \A i \in E : r[bt[i]] = s[i] /\ IsEvent(r[bt[i]])
  BY Zenon, <1>1, <1>2, <1>3, <1>6, <1>10
<1>14. \A l \in 1..Len(r) : IsEvent(r[l]) => \E i \in E : bt[i] = l
  <2>1. ASSUME NEW l \in 1..Len(r), IsEvent(r[l])
        PROVE  \E i \in E : bt[i] = l
    <3>1. l + 1 \in 1..Len(q) /\ l + 1 # 1 /\ (l + 1) - 1 = l
      BY <1>1
    <3>2. PICK i \in D : at[i] = l + 1
      BY Zenon, <1>1, <1>4, <2>1, <3>1
    <3>3. i \in E
      BY Zenon, <1>5, <1>7, <3>1, <3>2
    <3> QED BY Zenon, <1>8, <3>1, <3>2, <3>3
  <2> QED BY Zenon, <2>1
<1>15. {bt[i] : i \in E} = {k \in 1..Len(r) : IsEvent(r[k])}
  <2>1. ASSUME NEW l \in {bt[i] : i \in E}
        PROVE  l \in 1..Len(r) /\ IsEvent(r[l])
    BY Zenon, <1>10, <1>13
  <2>2. ASSUME NEW l \in 1..Len(r), IsEvent(r[l])
        PROVE  l \in {bt[i] : i \in E}
    BY Zenon, <1>14, <2>2
  <2> QED BY Zenon, <2>1, <2>2
<1>16. InOrder(r, s, t + 1)
  BY Zenon, <1>11, <1>12, <1>13, <1>15 DEF InOrder
<1> QED BY Zenon, <1>6, <1>16 DEF r

(* An event is posted behind all others.                                   *)
LEMMA AppendEvent ==
  ASSUME NEW q \in Seq(Messages), NEW s \in Seq(Messages), NEW t \in Nat, t <= Len(s),
         NEW m \in Messages, IsEvent(m), InOrder(q, s, t)
  PROVE  InOrder(Append(q, m), Append(s, m), t)
<1> DEFINE r == Append(q, m)
           u == Append(s, m)
           D == t + 1..Len(s)
           E == t + 1..Len(u)
<1>1. /\ Len(q) \in Nat /\ Len(r) = Len(q) + 1
      /\ \A i \in 1..Len(q) : r[i] = q[i]
      /\ r[Len(q) + 1] = m
  BY AppendProperties
<1>2. /\ Len(s) \in Nat /\ Len(u) = Len(s) + 1
      /\ \A i \in 1..Len(s) : u[i] = s[i]
      /\ u[Len(s) + 1] = m
  BY AppendProperties
<1> HIDE DEF r, u
<1>3. PICK at \in [D -> 1..Len(q)] :
        /\ \A i, j \in D : i < j => at[i] < at[j]
        /\ \A i \in D : q[at[i]] = s[i]
        /\ {at[i] : i \in D} = {k \in 1..Len(q) : IsEvent(q[k])}
  BY Zenon DEF InOrder
<1>4. \A i \in D : at[i] \in 1..Len(q) /\ IsEvent(q[at[i]])
  BY Zenon, <1>3
<1>5. \A k \in 1..Len(q) : IsEvent(q[k]) => \E i \in D : at[i] = k
  <2>1. ASSUME NEW k \in 1..Len(q), IsEvent(q[k])
        PROVE  \E i \in D : at[i] = k
    <3>1. k \in {at[i] : i \in D}
      BY Zenon, <1>3, <2>1
    <3> QED BY Zenon, <3>1
  <2> QED BY Zenon, <2>1
<1>6. /\ \A i \in D : i \in E /\ i \in 1..Len(s) /\ i # Len(s) + 1
      /\ Len(s) + 1 \in E
      /\ \A i \in E : i \in D \/ i = Len(s) + 1
  BY <1>2
<1> DEFINE bt == [i \in E |-> IF i = Len(s) + 1 THEN Len(q) + 1 ELSE at[i]]
<1>7. bt[Len(s) + 1] = Len(q) + 1 /\ \A i \in D : bt[i] = at[i]
  BY Zenon, <1>6
<1>8. \A k \in 1..Len(q) : k \in 1..Len(r) /\ k < Len(q) + 1
  BY <1>1
<1>9. Len(q) + 1 \in 1..Len(r) /\ \A k \in 1..Len(r) : k \in 1..Len(q) \/ k = Len(q) + 1
  BY <1>1
<1>10. \A i \in E : bt[i] \in 1..Len(r)
  BY Zenon, <1>4, <1>6, <1>7, <1>8, <1>9
<1>11. bt \in [E -> 1..Len(r)]
  BY Zenon, <1>10
<1> HIDE DEF bt
<1>12. \A i, j \in E : i < j => bt[i] < bt[j]
  <2>1. ASSUME NEW i \in E, NEW j \in E, i < j
        PROVE  bt[i] < bt[j]
    <3>1. i \in D
      BY <1>2, <2>1
    <3> QED BY Zenon, <1>3, <1>4, <1>6, <1>7, <1>8, <2>1, <3>1
  <2> QED BY Zenon, <2>1
<1>13. \A i \in E : r[bt[i]] = u[i] /\ IsEvent(r[bt[i]])
  <2>1. \A i \in D : r[bt[i]] = u[i] /\ IsEvent(r[bt[i]])
    BY Zenon, <1>1, <1>2, <1>3, <1>4, <1>6, <1>7
  <2>2. r[bt[Len(s) + 1]] = u[Len(s) + 1] /\ IsEvent(r[bt[Len(s) + 1]])
    BY Zenon, <1>1, <1>2, <1>7
  <2> QED BY Zenon, <1>6, <2>1, <2>2
<1>14. \A l \in 1..Len(r) : IsEvent(r[l]) => \E i \in E : bt[i] = l
  <2>1. ASSUME NEW l \in 1..Len(q), IsEvent(r[l])
        PROVE  \E i \in E : bt[i] = l
    BY Zenon, <1>1, <1>5, <1>6, <1>7, <2>1
  <2> QED BY Zenon, <1>6, <1>7, <1>9, <2>1
<1>15. {bt[i] : i \in E} = {k \in 1..Len(r) : IsEvent(r[k])}
  <2>1. ASSUME NEW l \in {bt[i] : i \in E}
        PROVE  l \in 1..Len(r) /\ IsEvent(r[l])
    BY Zenon, <1>10, <1>13
  <2>2. ASSUME NEW l \in 1..Len(r), IsEvent(r[l])
        PROVE  l \in {bt[i] : i \in E}
    BY Zenon, <1>14, <2>2
  <2> QED BY Zenon, <2>1, <2>2
<1>16. InOrder(r, u, t)
  BY Zenon, <1>11, <1>12, <1>13, <1>15 DEF InOrder
<1> QED BY Zenon, <1>16 DEF r, u

(* Urgent messages stay in front when another message is appended, ...     *)
LEMMA AppendInFront ==
  ASSUME NEW q \in Seq(Messages), NEW m \in Messages, ~Urgent(m), InFront(q)
  PROVE  InFront(Append(q, m))
<1> DEFINE r == Append(q, m)
<1>1. /\ Len(q) \in Nat /\ Len(r) = Len(q) + 1
      /\ \A i \in 1..Len(q) : r[i] = q[i]
      /\ r[Len(q) + 1] = m
  BY AppendProperties
<1> HIDE DEF r
<1>2. ASSUME NEW i \in 1..Len(r), NEW j \in 1..Len(r), i < j, Urgent(r[j])
      PROVE  ~IsEvent(r[i])
  <2>1. j # Len(q) + 1
    BY Zenon, <1>1, <1>2
  <2>2. i \in 1..Len(q) /\ j \in 1..Len(q)
    BY <1>1, <1>2, <2>1
  <2> QED BY Zenon, <1>1, <1>2, <2>2 DEF InFront
<1> QED BY Zenon, <1>2 DEF r, InFront

(* ... when one of them is inserted, ...                                   *)
LEMMA InsertInFront ==
  ASSUME NEW q \in Seq(Messages), NEW m \in Messages, ~IsEvent(m), InFront(q)
  PROVE  InFront(Enqueue(q, m, TRUE))
<1> DEFINE r == Enqueue(q, m, TRUE)
<1>0. PICK n \in Nat : Inserted(q, m, n, r)
  BY Zenon, InsertShape
<1> HIDE DEF r
<1>1. /\ n <= Len(q) /\ Len(r) = Len(q) + 1
      /\ \A i \in 1..n : ~IsEvent(q[i])
      /\ \A i \in 1..Len(q) + 1 : r[i] =
           IF i <= n THEN q[i] ELSE IF i = n + 1 THEN m ELSE q[i - 1]
  BY Zenon, <1>0 DEF Inserted
<1>2. Len(q) \in Nat
  OBVIOUS
<1>3. ASSUME NEW i \in 1..Len(r), NEW j \in 1..Len(r), i < j, Urgent(r[j])
      PROVE  ~IsEvent(r[i])
  <2>0. i \in 1..Len(q) + 1 /\ j \in 1..Len(q) + 1
    BY Zenon, <1>1
  <2>1. CASE i <= n
    <3>1. i \in 1..n
      BY <1>2, <2>0, <2>1
    <3> QED BY Zenon, <1>1, <2>0, <2>1, <3>1
  <2>2. CASE i = n + 1
    <3>1. ~(i <= n)
      BY <2>2
    <3> QED BY Zenon, <1>1, <2>0, <2>2, <3>1
  <2>3. CASE ~(i <= n) /\ i # n + 1
    <3>1. /\ ~(j <= n) /\ j # n + 1 /\ i - 1 \in 1..Len(q) /\ j - 1 \in 1..Len(q)
          /\ i - 1 < j - 1
      BY <1>2, <1>3, <2>0, <2>3
    <3>2. r[i] = q[i - 1] /\ r[j] = q[j - 1]
      BY Zenon, <1>1, <2>0, <2>3, <3>1
    <3> QED BY Zenon, <1>3, <3>1, <3>2 DEF InFront
  <2> QED BY Zenon, <2>1, <2>2, <2>3
<1> QED BY Zenon, <1>3 DEF r, InFront

(* ... and when the first message is taken.                                *)
LEMMA TailInFront ==
  ASSUME NEW q \in Seq(Messages), q # <<>>, InFront(q)
  PROVE  InFront(Tail(q))
<1> DEFINE r == Tail(q)
<1>1. /\ Len(q) \in Nat /\ Len(r) = Len(q) - 1
      /\ \A i \in 1..Len(r) : r[i] = q[i + 1]
  BY HeadTailProperties
<1> HIDE DEF r
<1>2. ASSUME NEW i \in 1..Len(r), NEW j \in 1..Len(r), i < j, Urgent(r[j])
      PROVE  ~IsEvent(r[i])
  <2>1. i + 1 \in 1..Len(q) /\ j + 1 \in 1..Len(q) /\ i + 1 < j + 1
    BY <1>1, <1>2
  <2> QED BY Zenon, <1>1, <1>2, <2>1 DEF InFront
<1> QED BY Zenon, <1>2 DEF r, InFront

-----------------------------------------------------------------------------
(* The inductive invariant of the normal queue.                            *)
OrderInv ==
  /\ port # "closed" => taken <= Len(sent) /\ InOrder(queue, sent, taken)
  /\ InFront(queue)

(* Steps that leave the queue alone keep the invariant.                    *)
LEMMA OrderKept ==
  ASSUME OrderInv, UNCHANGED <<queue, sent, taken>>, port' # "closed" => port # "closed"
  PROVE  OrderInv'
<1>1. InFront(queue')
  BY Zenon DEF OrderInv
<1>2. port' # "closed" => taken' <= Len(sent') /\ InOrder(queue', sent', taken')
  BY Zenon DEF OrderInv
<1> QED BY Zenon, <1>1, <1>2 DEF OrderInv

(* PostMessage puts a message at the tail or before the events.            *)
LEMMA PostOrder ==
  ASSUME TypeOK, OrderInv, NEW m \in Messages, Post(m)
  PROVE  OrderInv'
<1>1. port = "open" /\ taken' = taken /\ queue \in Seq(Messages) /\ sent \in Seq(Messages) /\ taken \in Nat
  BY Zenon DEF Post, TypeOK
<1>2. CASE ~IsEvent(m)
  <2>1. UNCHANGED <<queue, sent, taken>> /\ port # "closed"
    BY Zenon, <1>1, <1>2 DEF Post, PostMessage
  <2> QED BY Zenon, <2>1, OrderKept
<1>3. CASE IsEvent(m)
  <2>1. queue' = Append(queue, m) /\ sent' = Append(sent, m)
    BY Zenon, <1>3 DEF Post, PostMessage, Enqueue
  <2>2. taken <= Len(sent) /\ InOrder(queue, sent, taken) /\ InFront(queue)
    BY Zenon, <1>1 DEF OrderInv
  <2>3. taken' <= Len(sent')
    <3>1. Len(Append(sent, m)) = Len(sent) + 1 /\ Len(sent) \in Nat
      BY <1>1, AppendProperties
    <3> QED BY <1>1, <2>1, <2>2, <3>1
  <2>4. InOrder(queue', sent', taken')
    BY Zenon, <1>1, <1>3, <2>1, <2>2, AppendEvent
  <2>5. InFront(queue')
    BY Zenon, <1>1, <1>3, <2>1, <2>2, AppendInFront DEF Urgent
  <2> QED BY Zenon, <2>3, <2>4, <2>5 DEF OrderInv
<1> QED BY Zenon, <1>2, <1>3

(* A delayed action posts its message to the queue again.                  *)
LEMMA DelayedOrder ==
  ASSUME TypeOK, StackOK, OrderInv, HandleDelayed
  PROVE  OrderInv'
<1> DEFINE m == Top.msg
<1>1. /\ UNCHANGED <<sent, taken, port>> /\ m \in Messages /\ ~IsEvent(m)
      /\ queue \in Seq(Messages) /\ sent \in Seq(Messages) /\ taken \in Nat
  <2>1. UNCHANGED <<sent, taken, port>>
    BY Zenon DEF HandleDelayed, bodyUnchanged, postVars, portVars
  <2>2. m \in Messages
    BY Zenon, TopType DEF HandleDelayed, Running
  <2>3. ~IsEvent(m)
    BY Zenon DEF HandleDelayed, Running, IsEvent
  <2> QED BY Zenon, <2>1, <2>2, <2>3 DEF TypeOK
<1>2. queue' = Enqueue(queue, m, Prio[m] = "beforeNextEvent")
  BY Zenon DEF HandleDelayed, PostMessage
<1> HIDE DEF m
<1>3. CASE Prio[m] = "beforeNextEvent"
  <2>1. queue' = Enqueue(queue, m, TRUE)
    BY Zenon, <1>2, <1>3 DEF Enqueue
  <2>2. InFront(queue')
    BY Zenon, <1>1, <2>1, InsertInFront DEF OrderInv
  <2>3. port' # "closed" => taken' <= Len(sent') /\ InOrder(queue', sent', taken')
    BY Zenon, <1>1, <2>1, InsertControl DEF OrderInv
  <2> QED BY Zenon, <2>2, <2>3 DEF OrderInv
<1>4. CASE Prio[m] # "beforeNextEvent"
  <2>1. queue' = Append(queue, m)
    BY Zenon, <1>2, <1>4 DEF Enqueue
  <2>2. InFront(queue')
    BY Zenon, <1>1, <1>4, <2>1, AppendInFront DEF OrderInv, Urgent
  <2>3. port' # "closed" => taken' <= Len(sent') /\ InOrder(queue', sent', taken')
    BY Zenon, <1>1, <2>1, AppendControl DEF OrderInv
  <2> QED BY Zenon, <2>2, <2>3 DEF OrderInv
<1> QED BY Zenon, <1>3, <1>4

(* A critical section of HandleMessages takes at most one message.         *)
LEMMA SectionOrder ==
  ASSUME TypeOK, OrderInv, EnterHandleMessages \/ MessageHandled
  PROVE  OrderInv'
<1>1. /\ UNCHANGED <<sent, port>>
      /\ queue \in Seq(Messages) /\ sent \in Seq(Messages) /\ taken \in Nat
  BY Zenon DEF EnterHandleMessages, MessageHandled, handleUnchanged, postVars, portVars, TypeOK
<1>2. \/ UNCHANGED <<queue, taken>>
      \/ /\ queue # <<>> /\ queue' = Tail(queue)
         /\ taken' = IF IsEvent(Head(queue)) THEN taken + 1 ELSE taken
  BY Zenon DEF EnterHandleMessages, MessageHandled, Dequeue, queues
<1>3. CASE UNCHANGED <<queue, taken>>
  BY Zenon, <1>1, <1>3, OrderKept
<1>4. CASE queue # <<>> /\ queue' = Tail(queue) /\ IsEvent(Head(queue)) /\ taken' = taken + 1
  <2>1. InFront(queue')
    BY Zenon, <1>1, <1>4, TailInFront DEF OrderInv
  <2>2. port' # "closed" => taken' <= Len(sent') /\ InOrder(queue', sent', taken')
    BY Zenon, <1>1, <1>4, TailEvent DEF OrderInv
  <2> QED BY Zenon, <2>1, <2>2 DEF OrderInv
<1>5. CASE queue # <<>> /\ queue' = Tail(queue) /\ ~IsEvent(Head(queue)) /\ taken' = taken
  <2>1. InFront(queue')
    BY Zenon, <1>1, <1>5, TailInFront DEF OrderInv
  <2>2. port' # "closed" => taken' <= Len(sent') /\ InOrder(queue', sent', taken')
    BY Zenon, <1>1, <1>5, TailControl DEF OrderInv
  <2> QED BY Zenon, <2>1, <2>2 DEF OrderInv
<1> QED BY Zenon, <1>2, <1>3, <1>4, <1>5

(* The end of the isolate clears the queue.                                *)
LEMMA EmptyInFront == InFront(<<>>)
<1>1. \A i \in 1..Len(<<>>) : FALSE
  OBVIOUS
<1> QED BY Zenon, <1>1 DEF InFront

(* Every step keeps the order of the queue.                                *)
LEMMA NextOrder ==
  ASSUME TypeOK, StackOK, OrderInv, [Next]_vars
  PROVE  OrderInv'
<1>1. CASE \E m \in Messages : Post(m)
  BY Zenon, <1>1, PostOrder
<1>2. CASE HandleDelayed
  BY Zenon, <1>2, DelayedOrder
<1>3. CASE EnterHandleMessages \/ MessageHandled
  BY Zenon, <1>3, SectionOrder
<1>4. CASE CloseAllPorts
  <2>1. queue' = <<>> /\ port' = "closed"
    BY Zenon, <1>4 DEF CloseAllPorts
  <2>2. InFront(queue')
    BY Zenon, <2>1, EmptyInFront
  <2> QED BY Zenon, <2>1, <2>2 DEF OrderInv
<1>5. CASE \/ StartTask \/ PausedOnStart \/ PausedOnExit
           \/ \E st \in Status : StartCallbackReturns(st)
           \/ HandleNextMessage \/ DeleteMe
  BY Zenon, <1>5, OrderKept DEF StartTask, PausedOnStart, PausedOnExit, StartCallbackReturns, HandleNextMessage,
     DeleteMe, queues, postVars, portVars
<1>6. CASE \/ Run \/ MessageNotify \/ ClosePort \/ ClosePorts \/ RequestDeletion
           \/ \E n \in 0..MaxLivePorts : ChangeLivePorts(n)
           \/ UNCHANGED vars
  <2>1. UNCHANGED <<queue, sent, taken>> /\ (port' # "closed" => port # "closed")
    BY Zenon, <1>6 DEF Run, MessageNotify, ClosePort, ClosePorts, RequestDeletion, ChangeLivePorts, vars, queues,
       postVars, portVars
  <2> QED BY Zenon, <2>1, OrderKept
<1>7. CASE \/ \E st \in {kOK, kError} : HandleEvent(st)
           \/ HandlePauseResume \/ HandleImmediate \/ HandleService
  BY Zenon, <1>7, OrderKept DEF HandleEvent, HandlePauseResume, HandleImmediate, HandleService, bodyUnchanged,
     queues, postVars, portVars
<1>8. CASE HandleInterrupt \/ WaitForEvent \/ \E b \in BOOLEAN : WakeUp(b)
  BY Zenon, <1>8, OrderKept DEF HandleInterrupt, WaitForEvent, WakeUp, queues, postVars, portVars
<1> QED BY Zenon, <1>1, <1>2, <1>3, <1>4, <1>5, <1>6, <1>7, <1>8 DEF Next, TaskStep, HandleMessage

(* At first nothing was posted.                                            *)
LEMMA InitOrder == Init => OrderInv
<1> SUFFICES ASSUME Init PROVE OrderInv
  OBVIOUS
<1>1. queue = <<>> /\ sent = <<>> /\ taken = 0
  BY Zenon DEF Init
<1>2. InFront(queue)
  BY Zenon, <1>1, EmptyInFront
<1>3. taken <= Len(sent) /\ 1..Len(sent) = {} /\ 1..Len(queue) = {} /\ taken + 1 = 1
  BY <1>1
<1>4. InOrder(queue, sent, taken)
  <2> DEFINE at == [i \in {} |-> i]
  <2>1. at \in [taken + 1..Len(sent) -> 1..Len(queue)]
    BY Zenon, <1>3
  <2> HIDE DEF at
  <2>2. {at[i] : i \in {}} = {} /\ {k \in {} : IsEvent(queue[k])} = {}
    BY Zenon
  <2> QED BY Zenon, <1>3, <2>1, <2>2 DEF InOrder
<1> QED BY Zenon, <1>2, <1>3, <1>4 DEF OrderInv

(* The events that were posted and not taken are in queue_ in the order    *)
(* of posting, and a message that goes before the next event never has an  *)
(* event in front of it (MessageQueue::Enqueue), whichever messages are    *)
(* inserted, taken or posted again by HandleDelayed.                       *)
THEOREM EventsInOrder == Spec => []EventOrder
<1>1. OrderInv => EventOrder
  BY Zenon DEF OrderInv, EventOrder, InOrder, InFront, Urgent
<1>2. IInv /\ OrderInv /\ [Next]_vars => OrderInv'
  BY Zenon, NextOrder DEF IInv
<1> QED BY PTL, <1>1, <1>2, NextInv, InitInv, InitOrder DEF Spec

=============================================================================
