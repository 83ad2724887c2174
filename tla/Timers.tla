-------------------------------- MODULE Timers ------------------------------
(***************************************************************************)
(* The timers of one isolate (timer_impl.dart) and what they use of the    *)
(* event handler thread: the pipe of wakeup requests, the timeout that is  *)
(* set for the timer port, and the messages to that port.                  *)
(*                                                                         *)
(* The isolate runs one message at a time.  Its code is sequential, so the *)
(* methods of _Timer are operators on the record s of all the isolate      *)
(* writes; the event handler, the clock and user code come in between.     *)
(* The heap is the set of its timers, ordered by _compareTo (its array is  *)
(* module TimerHeap).                                                      *)
(***************************************************************************)
EXTENDS Integers, Sequences, SequencesExt

CONSTANTS
    Timer,   \* the timers a program makes
    Delay,   \* durations in milliseconds
    Repeat,  \* what _repeating may be
    Throws,  \* callbacks may throw, and errors are not fatal to the isolate
    MaxTime, \* bound of the clock
    MaxTick  \* bound of the ticks of a periodic timer

ASSUME TimersAssumption ==
    /\ Delay \subseteq Nat /\ Repeat \subseteq BOOLEAN /\ Throws \in BOOLEAN
    /\ MaxTime \in Nat /\ MaxTick \in Nat

VARIABLES
    s,       \* what the isolate writes: timers, heap, zero timers, messages
    pc,      \* where the isolate is in _runTimers
    pending, \* pendingTimers from the current one on
    timeout, \* the timeout of the timer port in the event handler
    now,     \* the clock
    made,    \* history: the timers in the order in which they were made
    failed,  \* history: a callback or a microtask has thrown
    lost     \* history: the periodic timers whose callback has thrown

vars == <<s, pc, pending, timeout, now, made, failed, lost>>

None == -1 \* _NO_TIMER, and no timeout in the event handler

NewTimer == [callback |-> FALSE, wakeupTime |-> 0, ms |-> 0, repeating |-> FALSE,
             id |-> 0, tick |-> 0, start |-> 0]

Init ==
    /\ s = [timer |-> [t \in Timer |-> NewTimer], heap |-> {}, zero |-> <<>>,
            idCount |-> 0, port |-> "none", scheduled |-> 0,
            handling |-> FALSE, inbox |-> <<>>, pipe |-> <<>>]
    /\ pc = "idle" /\ pending = <<>> /\ timeout = None /\ now = 1
    /\ made = <<>> /\ failed = FALSE /\ lost = {}

-----------------------------------------------------------------------------
\* The methods of _Timer.

\* _compareTo(u) < 0.
Before(st, t, u) ==
    LET a == st.timer[t]
        b == st.timer[u]
    IN  \/ a.wakeupTime < b.wakeupTime
        \/ a.wakeupTime = b.wakeupTime /\ a.id < b.id

\* _heap.first.
First(st) == CHOOSE t \in st.heap : \A u \in st.heap : ~Before(st, u, t)

\* The timers of T as removeFirst returns them.
InOrder(st, T) == SetToSortSeq(T, LAMBDA t, u : Before(st, t, u))

CreateTimerHandler(st) ==
    IF st.port = "active" THEN st
    ELSE [st EXCEPT !.port = "active", !.scheduled = IF st.port = "none" THEN 0 ELSE @]

ScheduleWakeup(st, time) ==
    [CreateTimerHandler(st) EXCEPT !.pipe = Append(@, time), !.scheduled = time]

CancelWakeup(st) ==
    IF st.port = "none" THEN st
    ELSE [st EXCEPT !.pipe = Append(@, None), !.scheduled = 0]

ShutdownTimerHandler(st) == [st EXCEPT !.scheduled = 0, !.port = "inactive"]

NotifyEventHandler(st) ==
    IF st.handling THEN st
    ELSE IF st.heap = {} /\ st.zero = <<>> THEN
        IF st.port = "none" THEN st ELSE ShutdownTimerHandler(CancelWakeup(st))
    ELSE IF st.heap = {} THEN CancelWakeup(st)
    ELSE LET time == st.timer[First(st)].wakeupTime
         IN  IF st.scheduled = 0 \/ time # st.scheduled THEN ScheduleWakeup(st, time)
             ELSE st

\* A fault: a zero timer takes the place of the list.
EnqueueFirst(st, t) ==
    IF st.timer[t].ms = 0 THEN
        [CreateTimerHandler(st) EXCEPT !.zero = <<t>>, !.inbox = Append(@, "zero")]
    ELSE LET added == [st EXCEPT !.heap = @ \cup {t}]
         IN  IF First(added) = t THEN NotifyEventHandler(added) ELSE added

\* A zero timer is sent a message of its own.
Enqueue(st, t) ==
    IF st.timer[t].ms = 0 THEN
        [CreateTimerHandler(st) EXCEPT !.zero = Append(@, t), !.inbox = Append(@, "zero")]
    ELSE LET added == [st EXCEPT !.heap = @ \cup {t}]
         IN  IF First(added) = t THEN NotifyEventHandler(added) ELSE added

NextId(st) == [st EXCEPT !.idCount = @ + 1]

CreateTimer(st, t, ms, repeating) ==
    Enqueue([NextId(st) EXCEPT !.timer[t] =
                [callback |-> TRUE, wakeupTime |-> IF ms = 0 THEN now ELSE now + 1 + ms,
                 ms |-> ms, repeating |-> repeating, id |-> st.idCount, tick |-> 0,
                 start |-> now]], t)

Cancel(st, t) ==
    LET off == [st EXCEPT !.timer[t].callback = FALSE]
        removed == [off EXCEPT !.heap = @ \ {t}]
    IN  IF t \notin st.heap THEN off
        ELSE IF First(st) = t THEN NotifyEventHandler(removed) ELSE removed

\* _advanceWakeupTime.
Advance(st, t) ==
    [NextId(st) EXCEPT !.timer[t].id = st.idCount,
                       !.timer[t].wakeupTime =
                           IF st.timer[t].ms > 0 THEN @ + st.timer[t].ms ELSE now]

\* The timers that a message makes pending, with the state without them.
Taken(st, T, zeros) ==
    [pending |-> InOrder(st, T) \o SubSeq(st.zero, 1, zeros),
     st |-> [st EXCEPT !.heap = @ \ T, !.zero = SubSeq(@, zeros + 1, Len(@))]]

EarlierThanZero(st) == {t \in st.heap : Before(st, t, Head(st.zero))}

\* A fault: the zero timer goes before the timers of the heap.
ZeroFirst(st) == IF st.zero = <<>> THEN Taken(st, {}, 0) ELSE Taken(st, {}, 1)

QueueFromZeroEvent(st) ==
    IF st.zero = <<>> THEN Taken(st, {}, 0) ELSE Taken(st, EarlierThanZero(st), 1)

QueueFromTimeoutEvent(st) ==
    IF st.zero # <<>> THEN Taken(st, EarlierThanZero(st), 0)
    ELSE Taken(st, {t \in st.heap : st.timer[t].wakeupTime <= now}, 0)

\* The test of _runTimers that starts the ids again.
ResetIds(st) ==
    IF st.heap = {} /\ st.zero = <<>> THEN [st EXCEPT !.idCount = 0] ELSE st

\* A fault: late by exactly one duration, a timer misses a tick.
MissedEarly(st, t) ==
    LET r == st.timer[t]
        missed == IF r.ms > 0 /\ now - r.wakeupTime >= r.ms
                  THEN (now - r.wakeupTime) \div r.ms ELSE 0
    IN  IF ~r.repeating THEN [r EXCEPT !.callback = FALSE, !.tick = @ + 1]
        ELSE [r EXCEPT !.wakeupTime = @ + missed * r.ms, !.tick = @ + missed + 1]

\* A fault: no tick is ever missed.
NoneMissed(st, t) ==
    LET r == st.timer[t]
    IN  IF ~r.repeating THEN [r EXCEPT !.callback = FALSE, !.tick = @ + 1]
        ELSE [r EXCEPT !.tick = @ + 1]

\* What _runTimers does to a timer before it calls it.
Ticked(st, t) ==
    LET r == st.timer[t]
        missed == IF r.ms > 0 /\ now - r.wakeupTime > r.ms
                  THEN (now - r.wakeupTime) \div r.ms ELSE 0
    IN  IF ~r.repeating THEN [r EXCEPT !.callback = FALSE, !.tick = @ + 1]
        ELSE [r EXCEPT !.wakeupTime = @ + missed * r.ms, !.tick = @ + missed + 1]

-----------------------------------------------------------------------------
\* The isolate.

InUserCode == pc \in {"idle", "callback", "microtasks"}

Make(t) ==
    /\ InUserCode /\ t \notin ToSet(made)
    /\ \E ms \in Delay, repeating \in Repeat :
          /\ now + 1 + ms <= MaxTime
          /\ s' = CreateTimer(s, t, ms, repeating)
    /\ made' = Append(made, t)
    /\ UNCHANGED <<pc, pending, timeout, now, failed, lost>>

CallCancel(t) ==
    /\ InUserCode /\ t \in ToSet(made)
    /\ s' = Cancel(s, t)
    /\ UNCHANGED <<pc, pending, timeout, now, made, failed, lost>>

\* A fault: a timeout leaves the wakeup scheduled that it consumed.
HandleStale ==
    /\ pc = "idle" /\ s.inbox # <<>>
    /\ LET rest == [s EXCEPT !.inbox = Tail(@)]
           q == IF Head(s.inbox) = "zero" THEN QueueFromZeroEvent(rest)
                ELSE QueueFromTimeoutEvent(rest)
       IN  IF q.pending = <<>>
           THEN s' = NotifyEventHandler(ResetIds(q.st)) /\ UNCHANGED <<pc, pending>>
           ELSE /\ s' = [ResetIds(q.st) EXCEPT !.handling = TRUE]
                /\ pc' = "next" /\ pending' = q.pending
    /\ UNCHANGED <<timeout, now, made, failed, lost>>

\* _handleMessage, to the first callback or, without one, to its end.
HandleMessage ==
    /\ pc = "idle" /\ s.inbox # <<>>
    /\ LET rest == [s EXCEPT !.inbox = Tail(@)]
           q == IF Head(s.inbox) = "zero" THEN QueueFromZeroEvent(rest)
                ELSE QueueFromTimeoutEvent([rest EXCEPT !.scheduled = 0])
       IN  IF q.pending = <<>>
           THEN s' = NotifyEventHandler(ResetIds(q.st)) /\ UNCHANGED <<pc, pending>>
           ELSE /\ s' = [ResetIds(q.st) EXCEPT !.handling = TRUE]
                /\ pc' = "next" /\ pending' = q.pending
    /\ UNCHANGED <<timeout, now, made, failed, lost>>

\* The next pending timer is skipped, or called.
Call ==
    /\ pc = "next" /\ pending # <<>>
    /\ LET t == Head(pending)
       IN  IF ~s.timer[t].callback
           THEN pending' = Tail(pending) /\ UNCHANGED <<s, pc>>
           ELSE /\ s.timer[t].tick < MaxTick
                /\ s' = [s EXCEPT !.timer[t] = Ticked(s, t)]
                /\ pc' = "callback" /\ UNCHANGED pending
    /\ UNCHANGED <<timeout, now, made, failed, lost>>

\* The callback returns; a periodic timer is enqueued again.
Return ==
    /\ pc = "callback"
    /\ LET t == Head(pending)
           r == s.timer[t]
       IN  s' = IF r.repeating /\ r.callback THEN Enqueue(Advance(s, t), t) ELSE s
    /\ pc' = "microtasks"
    /\ UNCHANGED <<pending, timeout, now, made, failed, lost>>

MicrotasksDone ==
    /\ pc = "microtasks"
    /\ pending' = Tail(pending) /\ pc' = "next"
    /\ UNCHANGED <<s, timeout, now, made, failed, lost>>

\* The callback or a microtask throws: the finally clause enqueues the timers
\* that were not reached, and the error leaves _handleMessage.
Throw ==
    /\ Throws /\ pc \in {"callback", "microtasks"}
    /\ s' = NotifyEventHandler(FoldLeft(Enqueue, [s EXCEPT !.handling = FALSE], Tail(pending)))
    /\ pending' = <<>> /\ pc' = "idle"
    /\ failed' = TRUE
    /\ lost' = LET t == Head(pending)
               IN  IF pc = "callback" /\ s.timer[t].repeating THEN lost \cup {t} ELSE lost
    /\ UNCHANGED <<timeout, now, made>>

\* The end of _runTimers and of _handleMessage.
Finish ==
    /\ pc = "next" /\ pending = <<>>
    /\ s' = NotifyEventHandler(NotifyEventHandler([s EXCEPT !.handling = FALSE]))
    /\ pc' = "idle"
    /\ UNCHANGED <<pending, timeout, now, made, failed, lost>>

-----------------------------------------------------------------------------
\* The event handler thread and the clock.

HandleInterruptFd ==
    /\ s.pipe # <<>>
    /\ timeout' = Head(s.pipe)
    /\ s' = [s EXCEPT !.pipe = Tail(@)]
    /\ UNCHANGED <<pc, pending, now, made, failed, lost>>

\* A fault: a timeout that has passed when it is set does not expire.
TimerFdOnTime ==
    /\ timeout = now
    /\ s' = [s EXCEPT !.inbox = Append(@, "timeout")]
    /\ timeout' = None
    /\ UNCHANGED <<pc, pending, now, made, failed, lost>>

TimerFd ==
    /\ timeout # None /\ timeout <= now
    /\ s' = [s EXCEPT !.inbox = Append(@, "timeout")]
    /\ timeout' = None
    /\ UNCHANGED <<pc, pending, now, made, failed, lost>>

Clock ==
    /\ now < MaxTime /\ now' = now + 1
    /\ UNCHANGED <<s, pc, pending, timeout, made, failed, lost>>

Run == HandleMessage \/ Call \/ Return \/ MicrotasksDone \/ Finish

Next ==
    \/ \E t \in Timer : Make(t) \/ CallCancel(t)
    \/ Run \/ Throw
    \/ HandleInterruptFd \/ TimerFd \/ Clock

Spec == Init /\ [][Next]_vars

\* The isolate's thread, the event handler and time go on; user code need not
\* make or cancel timers, and its callbacks return.
Fairness ==
    /\ WF_vars(Run) /\ WF_vars(HandleInterruptFd) /\ WF_vars(TimerFd) /\ WF_vars(Clock)

-----------------------------------------------------------------------------

Waiting == s.heap \cup ToSet(s.zero) \cup ToSet(pending)

\* The timer whose callback runs.
Called(t) == pc = "callback" /\ t = Head(pending)

\* isActive is true of a timer only as long as it is somewhere it will be
\* called from.  A periodic timer whose callback threw is the exception: _runTimers
\* leaves without enqueueing it, and isActive stays true.  Every zero timer has its
\* message and every message its zero timer: what _handleMessage
\* asserts, canceled timers and errors included.
ActiveAreScheduled ==
    /\ \A t \in Timer : s.timer[t].callback => t \in Waiting \/ t \in lost
    /\ Len(s.zero) = Len(SelectSeq(s.inbox, LAMBDA m : m = "zero"))

\* As long as no call ends in an error, timers that fire once are called in the
\* order of their wakeup times, and "timers with the same wakeup time are
\* enqueued in order and notified in FIFO order": no timer that waits should
\* have gone first.  An error puts the zero timers that were not reached at the
\* end of the list, behind zero timers that were made later.
FiresInOrder ==
    \A t, u \in Timer :
        ~failed /\ Called(t) /\ u \in Waiting \ {t} /\ s.timer[u].callback
          /\ ~s.timer[t].repeating /\ ~s.timer[u].repeating
        => \/ s.timer[t].wakeupTime < s.timer[u].wakeupTime
           \/ /\ s.timer[t].wakeupTime = s.timer[u].wakeupTime
              /\ \E i, j \in 1 .. Len(made) : i < j /\ made[i] = t /\ made[j] = u

\* No timer is called before its time, whatever timeout comes late.  When a periodic
\* timer is called, its tick is the number of durations that have passed since it
\* was made, those included for which no callback was invoked (timer.dart:133): a
\* tick that is counted was due, the next one is not overdue, and its wakeup time
\* follows from the tick.  A tick is missed only when the timer is late by more than
\* a duration, and then none is left over.  (Late by exactly one duration, it is
\* called twice.)
CalledOnTime ==
    [][\A t \in Timer : pc = "next" /\ pc' = "callback" /\ t = Head(pending) =>
          LET r == s.timer[t]
              tick == s'.timer[t].tick
              Due(k) == r.start + 1 + k * r.ms
          IN  /\ r.wakeupTime <= now /\ r.tick < tick
              /\ r.repeating /\ r.ms > 0 =>
                    /\ s'.timer[t].wakeupTime = Due(tick)
                    /\ Due(tick) <= now /\ now <= Due(tick + 1)
                    /\ r.tick + 1 < tick => Due(r.tick + 2) < now /\ now < Due(tick + 1)]_vars

\* The timeout that the event handler has once it has read its pipe.
Requested == IF s.pipe = <<>> THEN timeout ELSE Last(s.pipe)

\* Between messages the first timer of the heap is what the event handler waits
\* for, or a timeout is on its way; and the timer port keeps the isolate alive
\* exactly as long as a timer waits.
IdleIsSafe ==
    pc = "idle" =>
        /\ \/ s.heap = {}
           \/ "timeout" \in ToSet(s.inbox)
           \/ Requested = s.timer[First(s)].wakeupTime
        /\ s.port = "active" <=> s.heap # {} \/ s.zero # <<>>

=============================================================================
