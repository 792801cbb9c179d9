--------------------------- MODULE OperationState ---------------------------
(***************************************************************************)
(* The phase protocol of loop_base::operation_state<Base>                  *)
(* (include/coio/execution_context.h), which every asynchronous operation  *)
(* of every context (timers, epoll, io_uring, IOCP) goes through.          *)
(*                                                                         *)
(* Three agents touch one operation o:                                     *)
(*   "start"   the thread inside start()                                   *)
(*   "cancel"  the thread running the stop callback request_cancel()       *)
(*   "backend" the thread that learns the result (a timer that is due, a   *)
(*             descriptor that is ready) and calls publish()               *)
(* and the consumer thread dequeues o and calls finish().  An agent that   *)
(* publishes first takes o out of `pending', the backend's own record of   *)
(* the operations it still holds (the timer heap, an epoll slot), which is *)
(* protected by a lock.  The memory of o belongs to its owner again as     *)
(* soon as o is delivered.                                                 *)
(***************************************************************************)
CONSTANTS Ops,          \* the operation states
          Posts         \* those of schedule_sender: start() only posts them

ASSUME PostsAssumption == Posts \subseteq Ops

VARIABLES
    phase,      \* phase[o]: the atomic operation_phase
    startPc,    \* startPc[o], cancelPc[o], backendPc[o]: where each of the
    cancelPc,   \* three agents is in its call on operation o
    backendPc,
    pending,    \* operations the backend holds and nobody has claimed
    posted,     \* operations in the context's op_queue_
    stop,       \* operations whose stop token has been triggered
    canceled,   \* canceled_: operations a cancellation has claimed
    outcome     \* outcome[o]: what the receiver was told

opVars == <<phase, startPc, cancelPc, backendPc, pending, posted, stop, canceled, outcome>>

Phases == {"starting", "armed", "cancel_deferred", "completed"}
Outcomes == {"none", "value", "stopped"}

Stoppable == Ops \ Posts

Agents == {"start", "cancel", "backend"}
StartLabels == {"idle", "emplace", "do_start", "publish", "arm", "deferred_cancel",
                "publish_deferred", "rearm", "post", "wakeup", "done"}
CancelLabels == {"unregistered", "registered", "request_cancel", "do_cancel",
                 "publish", "post", "wakeup", "done"}
BackendLabels == {"idle", "publish", "post", "wakeup", "done"}

\* The labels at which the next step of an agent reads or writes o itself;
\* wakeup_consumer() only uses the reference to the context.
Touching == {"emplace", "do_start", "publish", "arm", "deferred_cancel",
             "publish_deferred", "rearm", "request_cancel", "do_cancel",
             "post"}

\* The stop callback is executing: ~stop_callback has to wait for it.
CallbackRunning(o) ==
    cancelPc[o] \in {"request_cancel", "do_cancel", "publish", "post", "wakeup"}

GotoStart(o, label) ==
    startPc' = [startPc EXCEPT ![o] = label] /\ UNCHANGED <<cancelPc, backendPc>>
GotoCancel(o, label) ==
    cancelPc' = [cancelPc EXCEPT ![o] = label] /\ UNCHANGED <<startPc, backendPc>>
GotoBackend(o, label) ==
    backendPc' = [backendPc EXCEPT ![o] = label] /\ UNCHANGED <<startPc, cancelPc>>

OpInit ==
    /\ phase = [o \in Ops |-> "starting"]
    /\ startPc = [o \in Ops |-> "idle"]
    /\ cancelPc = [o \in Ops |-> "unregistered"]
    /\ backendPc = [o \in Ops |-> "idle"]
    /\ pending = {}
    /\ posted = {}
    /\ stop = {}
    /\ canceled = {}
    /\ outcome = [o \in Ops |-> "none"]

(***************************************************************************)
(* start()                                                                 *)
(***************************************************************************)

\* schedule_sender::state::start() after work_started(): straight to the post.
StartPost(o) ==
    /\ o \in Posts
    /\ startPc[o] = "idle"
    /\ GotoStart(o, "post")
    /\ UNCHANGED <<phase, pending, posted, stop, canceled, outcome>>

\* operation_state::start(): work_started().
StartOperation(o) ==
    /\ o \in Stoppable
    /\ startPc[o] = "idle"
    /\ GotoStart(o, "emplace")
    /\ UNCHANGED <<phase, pending, posted, stop, canceled, outcome>>

\* stop_cb_.emplace(): with stop already requested request_cancel() runs
\* inline, finds the operation starting and defers.
EmplaceCallback(o) ==
    /\ startPc[o] = "emplace"
    /\ \/ /\ o \in stop
          /\ phase' = [phase EXCEPT ![o] = "cancel_deferred"]
          /\ cancelPc' = [cancelPc EXCEPT ![o] = "done"]
       \/ /\ o \notin stop
          /\ cancelPc' = [cancelPc EXCEPT ![o] = "registered"]
          /\ UNCHANGED phase
    /\ startPc' = [startPc EXCEPT ![o] = "do_start"]
    /\ UNCHANGED <<backendPc, pending, posted, stop, canceled, outcome>>

\* do_start() hands o to the backend, which will complete it later.
DoStartPending(o) ==
    /\ startPc[o] = "do_start"
    /\ pending' = pending \cup {o}
    /\ GotoStart(o, "arm")
    /\ UNCHANGED <<phase, posted, stop, canceled, outcome>>

\* do_start() has the result at once.
DoStartCompleted(o) ==
    /\ startPc[o] = "do_start"
    /\ GotoStart(o, "publish")
    /\ UNCHANGED <<phase, pending, posted, stop, canceled, outcome>>

\* The publish() of a synchronous completion; start() posts itself.
PublishSync(o) ==
    /\ startPc[o] = "publish"
    /\ phase' = [phase EXCEPT ![o] = "completed"]
    /\ GotoStart(o, "post")
    /\ UNCHANGED <<pending, posted, stop, canceled, outcome>>

\* Faulty variant of Arm: leaves a failed exchange to the other agent.
FaultyArm(o) ==
    /\ startPc[o] = "arm"
    /\ phase' = [phase EXCEPT ![o] = IF @ = "starting" THEN "armed" ELSE @]
    /\ GotoStart(o, "done")
    /\ UNCHANGED <<pending, posted, stop, canceled, outcome>>

\* The first compare_exchange: starting -> armed, or learn who was faster.
Arm(o) ==
    /\ startPc[o] = "arm"
    /\ \/ /\ phase[o] = "starting"
          /\ phase' = [phase EXCEPT ![o] = "armed"]
          /\ GotoStart(o, "done")
       \/ /\ phase[o] = "cancel_deferred"
          /\ GotoStart(o, "deferred_cancel")
          /\ UNCHANGED phase
       \/ /\ phase[o] = "completed"
          /\ GotoStart(o, "post")
          /\ UNCHANGED phase
    /\ UNCHANGED <<pending, posted, stop, canceled, outcome>>

\* The do_cancel() start() owes to a cancellation that came while starting.
\* A backend that only forwards the request keeps o pending.
DeferredCancel(o) ==
    /\ startPc[o] = "deferred_cancel"
    /\ \/ /\ o \in pending
          /\ pending' = pending \ {o}
          /\ canceled' = canceled \cup {o}
          /\ GotoStart(o, "publish_deferred")
       \/ /\ GotoStart(o, "rearm")
          /\ UNCHANGED <<pending, canceled>>
    /\ UNCHANGED <<phase, posted, stop, outcome>>

\* publish() called from that do_cancel().
PublishDeferred(o) ==
    /\ startPc[o] = "publish_deferred"
    /\ phase' = [phase EXCEPT ![o] = "completed"]
    /\ GotoStart(o, "rearm")
    /\ UNCHANGED <<pending, posted, stop, canceled, outcome>>

\* Faulty variant of Rearm: a store instead of the compare_exchange.
FaultyRearm(o) ==
    /\ startPc[o] = "rearm"
    /\ phase' = [phase EXCEPT ![o] = "armed"]
    /\ GotoStart(o, "done")
    /\ UNCHANGED <<pending, posted, stop, canceled, outcome>>

\* The second compare_exchange: cancel_deferred -> armed.
Rearm(o) ==
    /\ startPc[o] = "rearm"
    /\ \/ /\ phase[o] = "cancel_deferred"
          /\ phase' = [phase EXCEPT ![o] = "armed"]
          /\ GotoStart(o, "done")
       \/ /\ phase[o] # "cancel_deferred"
          /\ GotoStart(o, "post")
          /\ UNCHANGED phase
    /\ UNCHANGED <<pending, posted, stop, canceled, outcome>>

(***************************************************************************)
(* request_cancel()                                                        *)
(***************************************************************************)

\* request_stop() on the token's source raises the flag ...
RequestStop(o) ==
    /\ o \notin stop
    /\ stop' = stop \cup {o}
    /\ UNCHANGED <<phase, startPc, cancelPc, backendPc, pending, posted, canceled, outcome>>

\* ... and then calls the callback, if it is (still) registered.
InvokeCallback(o) ==
    /\ o \in stop
    /\ cancelPc[o] = "registered"
    /\ GotoCancel(o, "request_cancel")
    /\ UNCHANGED <<phase, pending, posted, stop, canceled, outcome>>

\* The load and compare_exchange loop; a failed exchange is a later load.
RequestCancel(o) ==
    /\ cancelPc[o] = "request_cancel"
    /\ \/ /\ phase[o] = "starting"
          /\ phase' = [phase EXCEPT ![o] = "cancel_deferred"]
          /\ GotoCancel(o, "done")
       \/ /\ phase[o] = "armed"
          /\ GotoCancel(o, "do_cancel")
          /\ UNCHANGED phase
       \/ /\ phase[o] \in {"cancel_deferred", "completed"}
          /\ GotoCancel(o, "done")
          /\ UNCHANGED phase
    /\ UNCHANGED <<pending, posted, stop, canceled, outcome>>

\* Faulty variant of DoCancel: does not check that it got o from the backend.
FaultyDoCancel(o) ==
    /\ cancelPc[o] = "do_cancel"
    /\ pending' = pending \ {o}
    /\ canceled' = canceled \cup {o}
    /\ GotoCancel(o, "publish")
    /\ UNCHANGED <<phase, posted, stop, outcome>>

\* do_cancel() on an armed operation.
DoCancel(o) ==
    /\ cancelPc[o] = "do_cancel"
    /\ \/ /\ o \in pending
          /\ pending' = pending \ {o}
          /\ canceled' = canceled \cup {o}
          /\ GotoCancel(o, "publish")
       \/ /\ GotoCancel(o, "done")
          /\ UNCHANGED <<pending, canceled>>
    /\ UNCHANGED <<phase, posted, stop, outcome>>

(***************************************************************************)
(* The backend, publish() and immediately_post()                           *)
(***************************************************************************)

\* The backend takes the results of the operations in S (one readiness event,
\* or all the timers that are due): nobody else can claim them any more.
Claim(S) ==
    /\ S # {} /\ S \subseteq pending
    /\ pending' = pending \ S
    /\ backendPc' = [o \in Ops |-> IF o \in S THEN "publish" ELSE backendPc[o]]
    /\ UNCHANGED <<phase, startPc, cancelPc, posted, stop, canceled, outcome>>

\* publish(): exchange the phase; post only what start() has armed.
Publish(o) ==
    LET next == IF phase[o] = "armed" THEN "post" ELSE "done"
    IN  /\ phase' = [phase EXCEPT ![o] = "completed"]
        /\ \/ cancelPc[o] = "publish" /\ GotoCancel(o, next)
           \/ backendPc[o] = "publish" /\ GotoBackend(o, next)
        /\ UNCHANGED <<pending, posted, stop, canceled, outcome>>

\* immediately_post(): enqueue, ...
Post(o) ==
    /\ posted' = posted \cup {o}
    /\ \/ startPc[o] = "post" /\ GotoStart(o, "wakeup")
       \/ cancelPc[o] = "post" /\ GotoCancel(o, "wakeup")
       \/ backendPc[o] = "post" /\ GotoBackend(o, "wakeup")
    /\ UNCHANGED <<phase, pending, stop, canceled, outcome>>

\* ... then wake the consumer through the context reference kept aside.
Wakeup(o) ==
    /\ \/ startPc[o] = "wakeup" /\ GotoStart(o, "done")
       \/ cancelPc[o] = "wakeup" /\ GotoCancel(o, "done")
       \/ backendPc[o] = "wakeup" /\ GotoBackend(o, "done")
    /\ UNCHANGED <<phase, pending, posted, stop, canceled, outcome>>

(***************************************************************************)
(* finish()                                                                *)
(***************************************************************************)

\* Faulty variant of Finish: no stop_cb_.reset(), so it does not wait for a
\* callback that is running.
FaultyFinish(o) ==
    /\ o \in posted
    /\ posted' = posted \ {o}
    /\ outcome' = [outcome EXCEPT ![o] =
                     IF o \in canceled THEN "stopped" ELSE "value"]
    /\ UNCHANGED <<phase, startPc, cancelPc, backendPc, pending, stop, canceled>>

\* Faulty variant of Finish: reads canceled_ the wrong way round.
FaultySwappedFinish(o) ==
    /\ o \in posted
    /\ ~CallbackRunning(o)
    /\ posted' = posted \ {o}
    /\ IF o \in Stoppable THEN GotoCancel(o, "done") ELSE UNCHANGED <<startPc, cancelPc, backendPc>>
    /\ outcome' = [outcome EXCEPT ![o] =
                     IF o \in canceled THEN "value" ELSE "stopped"]
    /\ UNCHANGED <<phase, pending, stop, canceled>>

\* The consumer: dequeue, stop_cb_.reset() (which blocks while the callback
\* runs on another thread), do_finish().  A schedule_sender operation asks
\* its token instead of looking at canceled_.
Finish(o) ==
    /\ o \in posted
    /\ ~CallbackRunning(o)
    /\ posted' = posted \ {o}
    /\ IF o \in Stoppable THEN GotoCancel(o, "done") ELSE UNCHANGED <<startPc, cancelPc, backendPc>>
    /\ outcome' = [outcome EXCEPT ![o] =
                     IF o \in canceled \/ o \in Posts \cap stop
                     THEN "stopped" ELSE "value"]
    /\ UNCHANGED <<phase, pending, stop, canceled>>

(***************************************************************************)
(* The specification                                                       *)
(***************************************************************************)

Start(o) ==
    \/ StartPost(o)
    \/ StartOperation(o)
    \/ EmplaceCallback(o)
    \/ DoStartPending(o)
    \/ DoStartCompleted(o)
    \/ PublishSync(o)
    \/ Arm(o)
    \/ DeferredCancel(o)
    \/ PublishDeferred(o)
    \/ Rearm(o)

Cancel(o) ==
    \/ InvokeCallback(o)
    \/ RequestCancel(o)
    \/ DoCancel(o)

OpStep(o) ==
    \/ Start(o)
    \/ RequestStop(o)
    \/ Cancel(o)
    \/ Publish(o)
    \/ Post(o)
    \/ Wakeup(o)
    \/ Finish(o)

OpNext ==
    \/ \E o \in Ops : OpStep(o)
    \/ \E S \in SUBSET Ops : Claim(S)

OpSpec == OpInit /\ [][OpNext]_opVars

(***************************************************************************)
(* Fairness: every thread that is inside start(), the callback or the      *)
(* backend's completion path gets to run, the consumer keeps draining the  *)
(* queue, and the backend comes up with a result for what it holds.  The   *)
(* call of start() and a stop request are up to the user.                  *)
(***************************************************************************)
OpFairness ==
    \A o \in Ops : /\ WF_opVars(startPc[o] # "idle" /\ Start(o))
                   /\ WF_opVars(Cancel(o))
                   /\ WF_opVars(Claim({o}))
                   /\ WF_opVars(Publish(o))
                   /\ WF_opVars(Post(o))
                   /\ WF_opVars(Wakeup(o))
                   /\ WF_opVars(Finish(o))

FairOpSpec == OpSpec /\ OpFairness

-----------------------------------------------------------------------------
(***************************************************************************)
(* Properties                                                              *)
(***************************************************************************)

OpTypes ==
    /\ phase \in [Ops -> Phases]
    /\ startPc \in [Ops -> StartLabels]
    /\ cancelPc \in [Ops -> CancelLabels]
    /\ backendPc \in [Ops -> BackendLabels]
    /\ pending \subseteq Ops
    /\ posted \subseteq Ops
    /\ stop \subseteq Ops
    /\ canceled \subseteq Ops
    /\ outcome \in [Ops -> Outcomes]

\* The type invariant: the types, and that the optional stop_cb_ holds (or
\* held) a callback exactly when start() has got past emplace().
OpTypeOK ==
    /\ OpTypes
    /\ \A o \in Stoppable :
          cancelPc[o] = "unregistered" <=> startPc[o] \in {"idle", "emplace"}

AgentPc(a, o) == CASE a = "start"   -> startPc[o]
                   [] a = "cancel"  -> cancelPc[o]
                   [] a = "backend" -> backendPc[o]

\* The agents about to exchange the phase, and those about to enqueue.
Publishers(o) == {a \in Agents : AgentPc(a, o) \in {"publish", "publish_deferred"}}
Posters(o) == {a \in Agents : AgentPc(a, o) = "post"}

\* COIO_ASSERT(previous != completed) in publish() and the assertion
\* next_ == nullptr of immediately_post(): an operation is published at most
\* once and enqueued at most once, whoever of the three agents gets there.
\* The state is well typed.
PostedOnce ==
    /\ OpTypeOK
    /\ \A o \in Ops :
          /\ Publishers(o) \cup Posters(o) # {} =>
                o \notin posted /\ outcome[o] = "none"
          /\ Publishers(o) # {} => phase[o] # "completed"
          /\ \A a, b \in Publishers(o) \cup Posters(o) : a = b

\* Once the receiver has been told, its owner may destroy the operation
\* state: no thread is still going to read or write it, and the stop
\* callback stored inside it is not executing.
NoUseAfterDelivery ==
    \A o \in Ops : outcome[o] # "none" =>
        /\ \A a \in Agents : AgentPc(a, o) \notin Touching
        /\ ~CallbackRunning(o)

\* A result is never dropped between two threads that each believe the other
\* one posts it: a completed operation is in the queue, delivered, or somebody
\* is on the way to post it.
CompletionNotLost ==
    \A o \in Stoppable :
        /\ phase[o] = "completed" =>
              \/ o \in posted
              \/ outcome[o] # "none"
              \/ startPc[o] \in {"arm", "deferred_cancel", "rearm", "post"}
              \/ Posters(o) # {}
        /\ phase[o] = "armed" =>
              o \in pending \/ Publishers(o) # {}

\* set_stopped is delivered only when somebody asked for it, every operation
\* completes at most once: the operation state implements the contract.
Status(o) == IF outcome[o] # "none" THEN outcome[o]
             ELSE IF startPc[o] = "idle" THEN "idle" ELSE "started"

Contract == INSTANCE SenderContract
                WITH status <- [o \in Ops |-> Status(o)]

ImplementsContract == Contract!ContractSpec

\* Every operation that was started is delivered: as each is started once, there
\* comes a time from which none is started and not delivered.
Delivered == <>[](\A o \in Ops : startPc[o] # "idle" => outcome[o] # "none")

=============================================================================
