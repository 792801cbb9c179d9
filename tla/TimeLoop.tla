------------------------------ MODULE TimeLoop ------------------------------
(***************************************************************************)
(* time_loop and the loop_base it shares with the I/O contexts             *)
(* (include/coio/execution_context.h): one thread drives the loop with     *)
(* run(), run_one(), poll() or poll_one(), any thread starts and cancels   *)
(* timers (schedule_at) and posts (schedule).                              *)
(*                                                                         *)
(* An operation goes through the phase protocol of OperationState, whose   *)
(* actions are used here: the backend that holds pending operations is the *)
(* timer heap, and what is posted is in op_queue_ (a sequence: OpQueue     *)
(* shows that the lock-free queue behaves like one).  Added here are the   *)
(* loop's own control, the clock, the outstanding-work count and the       *)
(* wakeup semaphore.                                                       *)
(*                                                                         *)
(* A call of start() or of a stop callback runs on a thread of its own or  *)
(* on the loop's thread, between its calls of run() or inside a completion *)
(* handler; on the loop's thread the loop stands still meanwhile.          *)
(***************************************************************************)
EXTENDS Naturals, FiniteSets, Sequences, SequencesExt, FiniteSetsExt

CONSTANTS Sleeps,       \* the timer operations
          Posts,        \* the schedule() operations
          MaxTime,      \* bound of the clock; deadlines are within it
          Modes,        \* how the program drives the loop
          WithGuard,    \* whether there is a work_guard
          WithStop,     \* whether the program may stop the context
          None

Ops == Sleeps \cup Posts

\* The calls of start() and of stop callbacks.
Calls == {"start", "cancel"} \X Ops

ASSUME LoopAssumption ==
    /\ Sleeps \cap Posts = {}
    /\ MaxTime \in Nat
    /\ None \notin Ops \cup Nat \cup Modes \cup Calls
    /\ Modes \subseteq {"run", "run_one", "poll", "poll_one"} /\ Modes # {}
    /\ WithGuard \in BOOLEAN /\ WithStop \in BOOLEAN

VARIABLES
    \* the operation states
    phase, startPc, cancelPc, backendPc, pending, stop, canceled, outcome,
    deadline,   \* deadline[o] of a timer
    rootWake,   \* timers that became the heap's root; start() owes a wakeup
    \* the context
    queue,      \* op_queue_
    work,       \* work_count_
    sema,       \* sema_
    now,        \* steady_clock
    ctxStop,    \* request_stop() of the context: "no", "relay", "done"
    guard,      \* a work_guard: "free", "held", "wakeup", "gone"
    \* the loop's thread
    loop,       \* where it is: see LoopLabels
    mode,       \* the call it is in
    current,    \* the operation it is finishing
    until,      \* the deadline it waits for
    ready,      \* the timers it has to publish
    onLoop      \* the start or callback it is executing for the user

opVars == <<phase, startPc, cancelPc, backendPc, pending, stop, canceled, outcome>>
timerVars == <<deadline, rootWake>>
ctxVars == <<now, ctxStop, guard>>
frameVars == <<mode, current, until, ready>>
vars == <<opVars, timerVars, queue, work, sema, ctxVars, loop, frameVars, onLoop>>

LoopLabels == {"outside", "while", "dequeue", "earliest", "acquire", "take",
               "publish", "drain", "finish", "handler"}
Infinite == mode \in {"run", "run_one"}
Once == mode \in {"run_one", "poll_one"}

\* What has been enqueued and not delivered.
Enqueued == (ToSet(queue) \cup {current}) \ {None}

Protocol == INSTANCE OperationState WITH posted <- Enqueued

Earliest == IF pending = {} THEN None ELSE Min({deadline[o] : o \in pending})

Init ==
    /\ queue = <<>>
    /\ current = None
    /\ Protocol!OpInit
    /\ deadline = [o \in Sleeps |-> None]
    /\ rootWake = {}
    /\ work = 0
    /\ sema = 0
    /\ now = 0
    /\ ctxStop = "no"
    /\ guard = "free"
    /\ loop = "outside"
    /\ mode = None
    /\ until = None
    /\ ready = <<>>
    /\ onLoop = None

(***************************************************************************)
(* Threads                                                                 *)
(***************************************************************************)

\* The loop's thread executes user code: it is between two calls of run() or
\* in a completion handler, and not inside another call already.
UserCode == loop \in {"outside", "handler"} /\ onLoop = None

\* Call c begins on some thread.
Begin(c) == \/ UNCHANGED onLoop
            \/ UserCode /\ onLoop' = c

\* Call c goes on, and returns to the user if `done'.
Continue(c, done) == onLoop' = IF onLoop = c /\ done THEN None ELSE onLoop

\* wakeup_consumer() from call c: the consumer does not interrupt itself.
WakeupConsumer(c) ==
    sema' = IF onLoop = c /\ loop # "outside" THEN sema ELSE sema + 1

(***************************************************************************)
(* start(): operation_state, schedule_sender::state, sleep_sender          *)
(***************************************************************************)

StartCall(o) == <<"start", o>>

\* Faulty variant of StartOp: a post is not counted as work.
FaultyStartOp(o) ==
    /\ UNCHANGED <<queue, current>>
    /\ \/ Protocol!StartPost(o) /\ UNCHANGED <<deadline, work>>
       \/ /\ Protocol!StartOperation(o)
          /\ \E d \in 0..MaxTime : deadline' = [deadline EXCEPT ![o] = d]
          /\ work' = work + 1
    /\ Begin(StartCall(o))
    /\ UNCHANGED <<rootWake, sema, ctxVars, loop, mode, until, ready>>

StartOp(o) ==
    /\ UNCHANGED <<queue, current>>
    /\ \/ Protocol!StartPost(o) /\ UNCHANGED deadline
       \/ /\ Protocol!StartOperation(o)
          /\ \E d \in 0..MaxTime : deadline' = [deadline EXCEPT ![o] = d]
    /\ Begin(StartCall(o))
    /\ work' = work + 1
    /\ UNCHANGED <<rootWake, sema, ctxVars, loop, mode, until, ready>>

\* Once the context is stopped, stop_when() has raised the operation's own
\* token before the operation starts.
EmplaceCallback(o) ==
    /\ ctxStop # "no" => o \in stop
    /\ UNCHANGED <<queue, current>>
    /\ Protocol!EmplaceCallback(o)
    /\ UNCHANGED <<timerVars, work, sema, ctxVars, loop, mode, until, ready, onLoop>>

\* Faulty variant of AddTimer: never wakes the consumer.
FaultyAddTimer(o) ==
    /\ o \in Sleeps
    /\ UNCHANGED <<queue, current>>
    /\ Protocol!DoStartPending(o)
    /\ UNCHANGED <<timerVars, work, sema, ctxVars, loop, mode, until, ready, onLoop>>

\* do_start(): timer_queue_.add() reports whether o is the new root, ...
AddTimer(o) ==
    /\ o \in Sleeps
    /\ UNCHANGED <<queue, current>>
    /\ Protocol!DoStartPending(o)
    /\ rootWake' = IF pending = {} \/ deadline[o] < Earliest
                   THEN rootWake \cup {o} ELSE rootWake
    /\ UNCHANGED <<deadline, work, sema, ctxVars, loop, mode, until, ready, onLoop>>

\* ... in which case the consumer has to look at its deadline again.
WakeForRoot(o) ==
    /\ o \in rootWake
    /\ rootWake' = rootWake \ {o}
    /\ WakeupConsumer(StartCall(o))
    /\ UNCHANGED <<opVars, deadline, queue, work, ctxVars, loop, frameVars, onLoop>>

\* The rest of start() up to its return or its own post.
FinishStart(o) ==
    /\ o \notin rootWake
    /\ UNCHANGED <<queue, current>>
    /\ \/ Protocol!Arm(o)
       \/ Protocol!DeferredCancel(o) /\ (o \in pending => o \in canceled')
       \/ Protocol!PublishDeferred(o)
       \/ Protocol!Rearm(o)
    /\ Continue(StartCall(o), startPc'[o] = "done")
    /\ UNCHANGED <<timerVars, work, sema, ctxVars, loop, mode, until, ready>>

\* immediately_post() by a thread in call c, whose agent's position is pc:
\* enqueue, then wakeup_consumer().
PostFrom(o, pc, c) ==
    /\ pc[o] = "post"
    /\ queue' = Append(queue, o)
    /\ UNCHANGED current
    /\ Protocol!Post(o)
    /\ UNCHANGED <<timerVars, work, sema, ctxVars, loop, mode, until, ready, onLoop>>

WakeupFrom(o, pc, c) ==
    /\ pc[o] = "wakeup"
    /\ UNCHANGED <<queue, current>>
    /\ Protocol!Wakeup(o)
    /\ pc' # pc
    /\ WakeupConsumer(c)
    /\ Continue(c, TRUE)
    /\ UNCHANGED <<timerVars, work, ctxVars, loop, mode, until, ready>>

(***************************************************************************)
(* Stop requests                                                           *)
(***************************************************************************)

CancelCall(o) == <<"cancel", o>>

\* request_stop() on the source behind o's token: by the user, or relayed
\* from the context's source through stop_when().
RequestStop(o) ==
    /\ UNCHANGED <<queue, current>>
    /\ Protocol!RequestStop(o)
    /\ UNCHANGED <<timerVars, work, sema, ctxVars, loop, mode, until, ready, onLoop>>

InvokeCallback(o) ==
    /\ UNCHANGED <<queue, current>>
    /\ Protocol!InvokeCallback(o)
    /\ Begin(CancelCall(o))
    /\ UNCHANGED <<timerVars, work, sema, ctxVars, loop, mode, until, ready>>

\* Faulty variant of RequestCancel: ignores whether remove() found the timer.
FaultyRequestCancel(o) ==
    /\ UNCHANGED <<queue, current>>
    /\ \/ Protocol!RequestCancel(o)
       \/ Protocol!FaultyDoCancel(o)
       \/ cancelPc[o] = "publish" /\ Protocol!Publish(o) /\ cancelPc' # cancelPc
    /\ Continue(CancelCall(o), cancelPc'[o] = "done")
    /\ UNCHANGED <<timerVars, work, sema, ctxVars, loop, mode, until, ready>>

\* request_cancel(); do_cancel() takes the timer out of the heap if it is
\* still there.
RequestCancel(o) ==
    /\ UNCHANGED <<queue, current>>
    /\ \/ Protocol!RequestCancel(o)
       \/ Protocol!DoCancel(o) /\ (o \in pending => o \in canceled')
       \/ cancelPc[o] = "publish" /\ Protocol!Publish(o) /\ cancelPc' # cancelPc
    /\ Continue(CancelCall(o), cancelPc'[o] = "done")
    /\ UNCHANGED <<timerVars, work, sema, ctxVars, loop, mode, until, ready>>

\* request_stop() on the context; only the first call does anything.
ContextStop ==
    /\ WithStop
    /\ ctxStop = "no"
    /\ ctxStop' = "relay"
    /\ UNCHANGED <<opVars, timerVars, queue, work, sema, now, guard, loop, frameVars, onLoop>>

\* When all the callbacks have run it interrupts the consumer.
ContextWakeup ==
    /\ ctxStop = "relay"
    /\ \A o \in Sleeps : o \in stop /\ cancelPc[o] \in {"unregistered", "done"}
    /\ ctxStop' = "done"
    /\ sema' = sema + 1
    /\ UNCHANGED <<opVars, timerVars, queue, work, now, guard, loop, frameVars, onLoop>>

(***************************************************************************)
(* Work guard and clock                                                    *)
(***************************************************************************)

GuardTake ==
    /\ WithGuard
    /\ guard = "free"
    /\ guard' = "held"
    /\ work' = work + 1
    /\ UNCHANGED <<opVars, timerVars, queue, sema, now, ctxStop, loop, frameVars, onLoop>>

\* Faulty variant of GuardDrop: work_finished() without the shutdown().
FaultyGuardDrop ==
    /\ guard = "held"
    /\ work' = work - 1
    /\ guard' = "gone"
    /\ UNCHANGED <<opVars, timerVars, queue, sema, now, ctxStop, loop, frameVars, onLoop>>

\* work_finished() from another thread: whoever brings the count to zero
\* wakes the consumer, which may be waiting with nothing else to do.
GuardDrop ==
    /\ guard = "held"
    /\ work' = work - 1
    /\ guard' = IF work' = 0 THEN "wakeup" ELSE "gone"
    /\ UNCHANGED <<opVars, timerVars, queue, sema, now, ctxStop, loop, frameVars, onLoop>>

GuardWakeup ==
    /\ guard = "wakeup"
    /\ guard' = "gone"
    /\ sema' = sema + 1
    /\ UNCHANGED <<opVars, timerVars, queue, work, now, ctxStop, loop, frameVars, onLoop>>

Tick ==
    /\ now < MaxTime
    /\ now' = now + 1
    /\ UNCHANGED <<opVars, timerVars, queue, work, sema, ctxStop, guard, loop, frameVars, onLoop>>

(***************************************************************************)
(* The loop's thread                                                       *)
(***************************************************************************)

\* A step of run() / poll() and what they call, with the user's calls over.
LoopStep(from) == loop = from /\ onLoop = None /\ UNCHANGED <<timerVars, ctxVars, onLoop>>

\* run() or poll() returns to the user; the scope guard resets consumer_id_.
Leave == loop' = "outside" /\ mode' = None

Enter ==
    /\ LoopStep("outside")
    /\ mode' \in Modes
    /\ loop' = "while"
    /\ UNCHANGED <<opVars, queue, work, sema, current, until, ready>>

\* The tests of the work count in do_one(): with no work the call returns.
TestWork ==
    /\ LoopStep("while")
    /\ IF work = 0 THEN Leave ELSE loop' = "dequeue" /\ UNCHANGED mode
    /\ UNCHANGED <<opVars, queue, work, sema, current, until, ready>>

\* consume() finds an operation: dequeue and finish()'s work_finished(), whose
\* shutdown() would only interrupt this thread itself.
Consume(from) ==
    /\ LoopStep(from)
    /\ queue # <<>>
    /\ current' = Head(queue)
    /\ queue' = Tail(queue)
    /\ work' = work - 1
    /\ loop' = "finish"
    /\ UNCHANGED <<opVars, sema, mode, until, ready>>

\* consume() finds nothing: wait, or look at the timers at once; the second
\* consume() of a poll makes it return.
ConsumeNothing(from) ==
    /\ LoopStep(from)
    /\ queue = <<>>
    /\ IF from = "drain" THEN Leave
       ELSE loop' = (IF Infinite THEN "earliest" ELSE "take") /\ UNCHANGED mode
    /\ UNCHANGED <<opVars, queue, work, sema, current, until, ready>>

\* stop_cb_.reset(), which waits for a callback on another thread, and the
\* completion.
FinishCurrent ==
    /\ LoopStep("finish")
    /\ current' = None
    /\ UNCHANGED queue
    /\ Protocol!Finish(current)
    /\ loop' = "handler"
    /\ UNCHANGED <<work, sema, mode, until, ready>>

\* The completion handler returns.
HandlerReturns ==
    /\ LoopStep("handler")
    /\ IF Once THEN Leave ELSE loop' = "while" /\ UNCHANGED mode
    /\ UNCHANGED <<opVars, queue, work, sema, current, until, ready>>

ReadEarliest ==
    /\ LoopStep("earliest")
    /\ until' = Earliest
    /\ loop' = "acquire"
    /\ UNCHANGED <<opVars, queue, work, sema, mode, current, ready>>

\* sema_.acquire() or sema_.try_acquire_until(): a permit or the deadline.
Acquire ==
    /\ LoopStep("acquire")
    /\ \/ sema > 0 /\ sema' = sema - 1
       \/ until # None /\ now >= until /\ UNCHANGED sema
    /\ until' = None
    /\ loop' = "take"
    /\ UNCHANGED <<opVars, queue, work, mode, current, ready>>

\* Faulty variant of TakeReadyTimers: takes the whole heap.
FaultyTakeReadyTimers ==
    /\ LoopStep("take")
    /\ ready' \in SetToSeqs(pending)
    /\ IF pending = {} THEN UNCHANGED <<opVars, queue, current>>
       ELSE UNCHANGED <<queue, current>> /\ Protocol!Claim(pending)
    /\ loop' = "publish"
    /\ UNCHANGED <<work, sema, mode, until>>

\* take_ready_timers(): under the heap's lock, the timers that are due, in
\* the order of their deadlines.
TakeReadyTimers ==
    LET due == {o \in pending : deadline[o] <= now}
    IN  /\ LoopStep("take")
        /\ \E order \in SetToSeqs(due) :
              /\ \A i, j \in 1..Len(order) :
                    i < j => deadline[order[i]] <= deadline[order[j]]
              /\ ready' = order
        /\ UNCHANGED <<queue, current>>
        /\ IF due = {} THEN UNCHANGED opVars ELSE Protocol!Claim(due)
        /\ loop' = "publish"
        /\ UNCHANGED <<work, sema, mode, until>>

\* publish_pending(): publish() one operation and post it if it was armed;
\* this thread needs no wakeup.
PublishReady ==
    /\ LoopStep("publish")
    /\ ready # <<>>
    /\ LET o == Head(ready)
       IN  \/ /\ backendPc[o] = "publish"
              /\ UNCHANGED <<queue, current>>
              /\ Protocol!Publish(o)
              /\ ready' = IF backendPc'[o] = "done" THEN Tail(ready) ELSE ready
           \/ /\ backendPc[o] = "post"
              /\ queue' = Append(queue, o)
              /\ UNCHANGED current
              /\ Protocol!Post(o)
              /\ UNCHANGED ready
           \/ /\ backendPc[o] = "wakeup"
              /\ UNCHANGED <<queue, current>>
              /\ Protocol!Wakeup(o)
              /\ ready' = Tail(ready)
    /\ UNCHANGED <<work, sema, loop, mode, until>>

PublishedAll ==
    /\ LoopStep("publish")
    /\ ready = <<>>
    /\ loop' = IF Infinite THEN "while" ELSE "drain"
    /\ UNCHANGED <<opVars, queue, work, sema, frameVars>>

(***************************************************************************)
(* The specification                                                       *)
(***************************************************************************)

\* A thread inside start(o), not counting the decision to call it.
StartProgress(o) ==
    \/ EmplaceCallback(o)
    \/ AddTimer(o)
    \/ WakeForRoot(o)
    \/ FinishStart(o)
    \/ PostFrom(o, startPc, StartCall(o))
    \/ WakeupFrom(o, startPc, StartCall(o))

\* A thread that requests stop runs the callback to its end.
CancelProgress(o) ==
    \/ InvokeCallback(o)
    \/ RequestCancel(o)
    \/ PostFrom(o, cancelPc, CancelCall(o))
    \/ WakeupFrom(o, cancelPc, CancelCall(o))

Drive ==
    \/ Enter
    \/ TestWork
    \/ Consume("dequeue")
    \/ Consume("drain")
    \/ ConsumeNothing("dequeue")
    \/ ConsumeNothing("drain")
    \/ FinishCurrent
    \/ HandlerReturns
    \/ ReadEarliest
    \/ Acquire
    \/ TakeReadyTimers
    \/ PublishReady
    \/ PublishedAll

Next ==
    \/ \E o \in Ops : StartOp(o) \/ StartProgress(o) \/ RequestStop(o) \/ CancelProgress(o)
    \/ ContextStop \/ ContextWakeup
    \/ GuardTake \/ GuardDrop \/ GuardWakeup
    \/ Tick
    \/ Drive

Spec == Init /\ [][Next]_vars

\* Every thread inside a call of the library is scheduled, request_stop()
\* reaches every operation of the context, and the program keeps driving the
\* loop.  Nothing is assumed of the clock, of the user's starts, of stop
\* requests and of the guard.
Fairness ==
    /\ \A o \in Ops : /\ WF_vars(StartProgress(o))
                      /\ WF_vars(CancelProgress(o))
                      /\ WF_vars(ctxStop # "no" /\ o \in Sleeps /\ RequestStop(o))
    /\ WF_vars(ContextWakeup)
    /\ WF_vars(GuardWakeup)
    /\ WF_vars(Drive)

FairSpec == Spec /\ Fairness

-----------------------------------------------------------------------------
(***************************************************************************)
(* Properties                                                              *)
(***************************************************************************)

TypeOK ==
    /\ Protocol!OpTypes
    /\ deadline \in [Sleeps -> (0..MaxTime) \cup {None}]
    /\ rootWake \subseteq Sleeps
    /\ queue \in Seq(Ops)
    /\ work \in Nat
    /\ sema \in Nat
    /\ now \in 0..MaxTime
    /\ ctxStop \in {"no", "relay", "done"}
    /\ guard \in {"free", "held", "wakeup", "gone"}
    /\ loop \in LoopLabels
    /\ mode \in Modes \cup {None}
    /\ (mode = None) <=> (loop = "outside")
    /\ current \in Ops \cup {None}
    /\ (current # None) <=> (loop = "finish")
    /\ until \in (0..MaxTime) \cup {None}
    /\ ready \in Seq(Sleeps)
    /\ onLoop \in Calls \cup {None}

\* The outstanding-work count is balanced: one for every operation that was
\* started and has not been taken up by finish(), and one for the guard.
WorkIsBalanced ==
    work = Cardinality({o \in Ops : startPc[o] # "idle" /\ outcome[o] = "none" /\ o # current})
           + (IF guard = "held" THEN 1 ELSE 0)

\* No wakeup is lost: when the loop is blocked with no permit left although
\* it has something to do (a posted operation, no work left to wait for, a
\* timer earlier than the one it waits for), some thread is about to release.
SomebodyWillWake ==
    \/ \E o \in Ops : startPc[o] = "wakeup" \/ cancelPc[o] = "wakeup"
    \/ rootWake # {}
    \/ guard = "wakeup"

WakeupNotLost ==
    loop = "acquire" /\ sema = 0 =>
        /\ queue # <<>> => SomebodyWillWake
        /\ work = 0 => SomebodyWillWake
        /\ pending # {} /\ (until = None \/ Earliest < until) => SomebodyWillWake

\* A sleep completes with a value only when its deadline has passed.
NeverEarly ==
    \A o \in Sleeps : outcome[o] = "value" => deadline[o] <= now

\* Type correctness, and no timer fires before its time.
TimersAreSound == TypeOK /\ NeverEarly

\* The loop puts its operations through the phase protocol.
FollowsProtocol == Protocol!OpSpec

\* An operation that has a reason to complete (a post, a timer that is due or
\* was cancelled) is delivered, without any help of the clock: the waiting
\* loop is woken for it.
HasReason(o) ==
    /\ startPc[o] # "idle"
    /\ o \in Sleeps => o \in stop \/ deadline[o] <= now

DueIsDelivered == \A o \in Ops : HasReason(o) ~> outcome[o] # "none"

\* docs/execution/contexts.md:158: once run() has returned, every operation has
\* completed and every guard is gone, the context may go out of scope.  Then
\* no thread may still be about to touch it, as immediately_post() does when
\* it wakes the consumer after the enqueue.
MayBeDestroyed ==
    /\ loop = "outside" /\ work = 0 /\ guard \in {"free", "gone"}
    /\ \A o \in Ops : startPc[o] # "idle" => outcome[o] # "none"

QuietWhenCompleted ==
    MayBeDestroyed => \A o \in Ops : "wakeup" \notin {startPc[o], cancelPc[o]}

=============================================================================
