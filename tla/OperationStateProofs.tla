------------------------ MODULE OperationStateProofs ------------------------
(***************************************************************************)
(* Proofs about OperationState, for any number of operations.  The         *)
(* inductive invariant follows one operation through the three agents'     *)
(* program counters: at every point exactly one of them (or the backend's  *)
(* record, or the queue) holds the right to complete it.                   *)
(***************************************************************************)
EXTENDS OperationState, TLAPS

\* The operation has neither been enqueued nor delivered.
Undelivered(o) == o \notin posted /\ outcome[o] = "none"

\* It is either in the queue or delivered, never both.
EnqueuedOnce(o) == o \in posted <=> outcome[o] = "none"

\* The callback can still be waiting to be called, or have deferred to start().
CallbackQuiet(o) == cancelPc[o] \in {"registered", "request_cancel", "done"}

\* The callback is past its claim on an armed operation.
CallbackClaimed(o) == cancelPc[o] \in {"publish", "post", "wakeup"}

\* Nothing has happened yet beyond start()'s first steps.
BeforeBackend(o) ==
    startPc[o] \in {"idle", "emplace", "do_start", "publish"} =>
        /\ Undelivered(o)
        /\ o \notin pending
        /\ backendPc[o] = "idle"
        /\ phase[o] \in {"starting", "cancel_deferred"}
        /\ IF startPc[o] \in {"idle", "emplace"}
           THEN cancelPc[o] = "unregistered" /\ phase[o] = "starting"
           ELSE CallbackQuiet(o)

\* start() has handed o to the backend and not decided yet what it found.
WhileStarting(o) ==
    startPc[o] \in {"arm", "deferred_cancel", "publish_deferred", "rearm"} =>
        /\ Undelivered(o)
        /\ CallbackQuiet(o)
        /\ phase[o] # "armed"
        /\ backendPc[o] \in {"idle", "publish", "done"}
        /\ o \in pending => backendPc[o] = "idle" /\ phase[o] # "completed"
        /\ backendPc[o] = "publish" => phase[o] # "completed"
        /\ backendPc[o] = "done" => phase[o] = "completed"
        /\ startPc[o] # "arm" => phase[o] # "starting"
        /\ startPc[o] \in {"arm", "deferred_cancel"} =>
              /\ o \in pending \/ backendPc[o] # "idle"
              /\ phase[o] = "completed" => backendPc[o] = "done"
        /\ startPc[o] = "publish_deferred" =>
              /\ o \notin pending
              /\ backendPc[o] = "idle"
              /\ phase[o] = "cancel_deferred"
        /\ startPc[o] = "rearm" /\ phase[o] = "cancel_deferred" =>
              o \in pending \/ backendPc[o] = "publish"

\* start() posts what completed while it was starting.
StartPosts(o) ==
    startPc[o] \in {"post", "wakeup"} =>
        /\ phase[o] = "completed"
        /\ o \notin pending
        /\ backendPc[o] \in {"idle", "done"}
        /\ CallbackQuiet(o)
        /\ IF startPc[o] = "post" THEN Undelivered(o) ELSE EnqueuedOnce(o)

\* start() has returned: armed, or completed by one of the other agents.
AfterStart(o) ==
    startPc[o] = "done" =>
        /\ phase[o] \in {"armed", "completed"}
        /\ phase[o] = "armed" =>
              /\ Undelivered(o)
              /\ backendPc[o] \in {"idle", "publish"}
              /\ cancelPc[o] \in {"registered", "request_cancel", "do_cancel",
                                      "publish", "done"}
              /\ IF o \in pending
                 THEN backendPc[o] = "idle" /\ cancelPc[o] # "publish"
                 ELSE backendPc[o] = "publish" <=> cancelPc[o] # "publish"
        /\ phase[o] = "completed" =>
              /\ o \notin pending
              /\ backendPc[o] # "publish"
              /\ cancelPc[o] # "publish"
              /\ backendPc[o] # "idle" => ~CallbackClaimed(o)
              /\ backendPc[o] = "post" => Undelivered(o)
              /\ cancelPc[o] = "post" => Undelivered(o)
              /\ backendPc[o] # "post" /\ cancelPc[o] # "post" => EnqueuedOnce(o)
        /\ cancelPc[o] # "unregistered"

\* Cancellation happens only on request, and the callback is gone once o is
\* delivered.
CancelJustified(o) ==
    /\ \/ o \in canceled
       \/ CallbackRunning(o)
       \/ phase[o] = "cancel_deferred"
       \/ startPc[o] \in {"deferred_cancel", "publish_deferred"}
       => o \in stop
    /\ phase[o] = "cancel_deferred" => cancelPc[o] = "done"
    /\ outcome[o] = "stopped" => o \in stop
    /\ outcome[o] # "none" => cancelPc[o] = "done" /\ startPc[o] \in {"wakeup", "done"}

StoppableInv(o) ==
    /\ BeforeBackend(o)
    /\ WhileStarting(o)
    /\ StartPosts(o)
    /\ AfterStart(o)
    /\ CancelJustified(o)

\* An operation of schedule_sender has no phase, no callback and no backend.
PostInv(o) ==
    /\ startPc[o] \in {"idle", "post", "wakeup", "done"}
    /\ cancelPc[o] = "unregistered"
    /\ backendPc[o] = "idle"
    /\ o \notin pending
    /\ o \notin canceled
    /\ IF startPc[o] \in {"idle", "post"} THEN Undelivered(o) ELSE EnqueuedOnce(o)
    /\ outcome[o] = "stopped" => o \in stop

OpInv ==
    /\ OpTypes
    /\ \A o \in Stoppable : StoppableInv(o)
    /\ \A o \in Posts : PostInv(o)

-----------------------------------------------------------------------------

\* A step that does not concern operation x.
Untouched(x) ==
    /\ phase'[x] = phase[x]
    /\ startPc'[x] = startPc[x]
    /\ cancelPc'[x] = cancelPc[x]
    /\ backendPc'[x] = backendPc[x]
    /\ x \in pending' <=> x \in pending
    /\ x \in posted' <=> x \in posted
    /\ x \in stop' <=> x \in stop
    /\ x \in canceled' <=> x \in canceled
    /\ outcome'[x] = outcome[x]

\* The invariant of an operation depends on that operation only, whatever the
\* other operations of the context do.
LEMMA Frame ==
    ASSUME NEW x \in Ops, Untouched(x)
    PROVE  /\ StoppableInv(x) => StoppableInv(x)'
           /\ PostInv(x) => PostInv(x)'
  <1> USE DEF Untouched, Undelivered, EnqueuedOnce, CallbackQuiet,
              CallbackClaimed, CallbackRunning
  <1>1. BeforeBackend(x) => BeforeBackend(x)'
    BY DEF BeforeBackend
  <1>2. WhileStarting(x) => WhileStarting(x)'
    BY DEF WhileStarting
  <1>3. StartPosts(x) => StartPosts(x)'
    BY DEF StartPosts
  <1>4. AfterStart(x) => AfterStart(x)'
    BY DEF AfterStart
  <1>5. CancelJustified(x) => CancelJustified(x)'
    BY DEF CancelJustified
  <1>6. PostInv(x) => PostInv(x)'
    BY DEF PostInv
  <1>7. QED
    BY <1>1, <1>2, <1>3, <1>4, <1>5, <1>6 DEF StoppableInv

\* Every step of operation o preserves the types and leaves the other
\* operations alone.
LEMMA StepIsLocal ==
    ASSUME OpTypes, NEW o \in Ops, OpStep(o)
    PROVE  OpTypes' /\ \A x \in Ops \ {o} : Untouched(x)
  <1> USE DEF OpTypes, Untouched, GotoStart, GotoCancel, GotoBackend, Phases,
              StartLabels, CancelLabels, BackendLabels, Outcomes
  <1>1. CASE StartPost(o)         BY <1>1 DEF StartPost
  <1>2. CASE StartOperation(o)    BY <1>2 DEF StartOperation
  <1>3. CASE EmplaceCallback(o)   BY <1>3 DEF EmplaceCallback
  <1>4. CASE DoStartPending(o)    BY <1>4 DEF DoStartPending
  <1>5. CASE DoStartCompleted(o)  BY <1>5 DEF DoStartCompleted
  <1>6. CASE PublishSync(o)       BY <1>6 DEF PublishSync
  <1>7. CASE Arm(o)               BY <1>7 DEF Arm
  <1>8. CASE DeferredCancel(o)    BY <1>8 DEF DeferredCancel
  <1>9. CASE PublishDeferred(o)   BY <1>9 DEF PublishDeferred
  <1>10. CASE Rearm(o)            BY <1>10 DEF Rearm
  <1>11. CASE RequestStop(o)      BY <1>11 DEF RequestStop
  <1>12. CASE InvokeCallback(o)   BY <1>12 DEF InvokeCallback
  <1>13. CASE RequestCancel(o)    BY <1>13 DEF RequestCancel
  <1>14. CASE DoCancel(o)         BY <1>14 DEF DoCancel
  <1>16. CASE Publish(o)          BY <1>16 DEF Publish
  <1>17. CASE Post(o)             BY <1>17 DEF Post
  <1>18. CASE Wakeup(o)           BY <1>18 DEF Wakeup
  <1>19. CASE Finish(o)           BY <1>19 DEF Finish
  <1>20. QED
    BY <1>1, <1>2, <1>3, <1>4, <1>5, <1>6, <1>7, <1>8, <1>9, <1>10, <1>11,
       <1>12, <1>13, <1>14, <1>16, <1>17, <1>18, <1>19
    DEF OpStep, Start, Cancel

\* What a step of an operation of schedule_sender can do.
LEMMA PostStep ==
    ASSUME OpTypes, NEW o \in Posts, PostInv(o), OpStep(o)
    PROVE  PostInv(o)'
  <1> USE PostsAssumption
      DEF OpTypes, PostInv, Undelivered, EnqueuedOnce, CallbackRunning, Stoppable,
          GotoStart, GotoCancel, GotoBackend
  <1>1. CASE StartPost(o)      BY <1>1 DEF StartPost
  <1>2. CASE RequestStop(o)    BY <1>2 DEF RequestStop
  <1>3. CASE Post(o)           BY <1>3 DEF Post
  <1>4. CASE Wakeup(o)         BY <1>4 DEF Wakeup
  <1>5. CASE Finish(o)         BY <1>5 DEF Finish
  <1>6. CASE Start(o) /\ ~StartPost(o)
    BY <1>6 DEF Start, StartOperation, EmplaceCallback, DoStartPending, DoStartCompleted,
                PublishSync, Arm, DeferredCancel, PublishDeferred, Rearm
  <1>7. CASE Cancel(o) \/ Publish(o)
    BY <1>7 DEF Cancel, InvokeCallback, RequestCancel, DoCancel, Publish
  <1>8. QED
    BY <1>1, <1>2, <1>3, <1>4, <1>5, <1>6, <1>7 DEF OpStep

\* What a step of a stoppable operation can do: one case per action.
LEMMA StoppableStep ==
    ASSUME OpTypes, NEW o \in Stoppable, StoppableInv(o), OpStep(o)
    PROVE  StoppableInv(o)'
  <1> USE PostsAssumption
      DEF OpTypes, StoppableInv, BeforeBackend, WhileStarting, StartPosts, AfterStart,
          CancelJustified, Undelivered, EnqueuedOnce, CallbackQuiet, CallbackClaimed,
          CallbackRunning, Stoppable, GotoStart, GotoCancel, GotoBackend,
          Phases, StartLabels, CancelLabels, BackendLabels, Outcomes
  <1>1. CASE StartPost(o)         BY <1>1 DEF StartPost
  <1>2. CASE StartOperation(o)    BY <1>2 DEF StartOperation
  <1>3. CASE EmplaceCallback(o)   BY <1>3 DEF EmplaceCallback
  <1>4. CASE DoStartPending(o)    BY <1>4 DEF DoStartPending
  <1>5. CASE DoStartCompleted(o)  BY <1>5 DEF DoStartCompleted
  <1>6. CASE PublishSync(o)       BY <1>6 DEF PublishSync
  <1>7. CASE Arm(o)               BY <1>7 DEF Arm
  <1>8. CASE DeferredCancel(o)    BY <1>8 DEF DeferredCancel
  <1>9. CASE PublishDeferred(o)   BY <1>9 DEF PublishDeferred
  <1>10. CASE Rearm(o)            BY <1>10 DEF Rearm
  <1>11. CASE RequestStop(o)      BY <1>11 DEF RequestStop
  <1>12. CASE InvokeCallback(o)   BY <1>12 DEF InvokeCallback
  <1>13. CASE RequestCancel(o)    BY <1>13 DEF RequestCancel
  <1>14. CASE DoCancel(o)         BY <1>14 DEF DoCancel
  <1>16. CASE Publish(o)          BY <1>16 DEF Publish
  <1>17. CASE Post(o)             BY <1>17 DEF Post
  <1>18. CASE Wakeup(o)           BY <1>18 DEF Wakeup
  <1>19. CASE Finish(o)           BY <1>19 DEF Finish
  <1>20. QED
    BY <1>1, <1>2, <1>3, <1>4, <1>5, <1>6, <1>7, <1>8, <1>9, <1>10, <1>11,
       <1>12, <1>13, <1>14, <1>16, <1>17, <1>18, <1>19
    DEF OpStep, Start, Cancel

\* What a result taken by the backend does to the operations it takes and to
\* the others.
LEMMA ClaimStep ==
    ASSUME OpInv, NEW S \in SUBSET Ops, Claim(S)
    PROVE  OpInv'
  <1>1. OpTypes'
    BY DEF OpInv, OpTypes, Claim, BackendLabels
  <1>2. \A x \in Ops \ S : Untouched(x)
    BY DEF OpInv, OpTypes, Claim, Untouched
  <1>3. S \subseteq Stoppable
    BY PostsAssumption DEF Claim, OpInv, PostInv, Stoppable
  <1>4. ASSUME NEW x \in S PROVE StoppableInv(x)'
    <2>1. /\ x \in pending /\ x \notin pending' /\ backendPc'[x] = "publish"
          /\ UNCHANGED <<phase, startPc, cancelPc, posted, stop, canceled, outcome>>
      BY <1>4 DEF Claim
    <2>2. StoppableInv(x)
      BY <1>3, <1>4 DEF OpInv
    <2>3. QED
      BY <2>1, <2>2
      DEF OpInv, OpTypes, StoppableInv, BeforeBackend, WhileStarting, StartPosts,
          AfterStart, CancelJustified, Undelivered, EnqueuedOnce, CallbackQuiet,
          CallbackClaimed, CallbackRunning, StartLabels, Phases
  <1>5. QED
    BY <1>1, <1>2, <1>3, <1>4, Frame, PostsAssumption DEF OpInv, Stoppable

\* The strengthened invariant is inductive.
LEMMA InvInit == OpInit => OpInv
  BY PostsAssumption
  DEF OpInit, OpInv, OpTypes, Phases, StartLabels, CancelLabels, BackendLabels,
      Outcomes, StoppableInv, BeforeBackend, WhileStarting, StartPosts, AfterStart,
      CancelJustified, PostInv, Undelivered, EnqueuedOnce, CallbackQuiet,
      CallbackRunning, Stoppable

LEMMA InvNext == OpInv /\ [OpNext]_opVars => OpInv'
  <1> SUFFICES ASSUME OpInv, [OpNext]_opVars PROVE OpInv'
    OBVIOUS
  <1>1. ASSUME NEW o \in Ops, OpStep(o) PROVE OpInv'
    <2>1. OpTypes' /\ \A x \in Ops \ {o} : Untouched(x)
      BY <1>1, StepIsLocal DEF OpInv
    <2>2. ASSUME NEW x \in Stoppable PROVE StoppableInv(x)'
      <3>1. CASE x = o
        BY <3>1, <1>1, StoppableStep DEF OpInv
      <3>2. CASE x # o
        BY <3>2, <2>1, Frame DEF OpInv, Stoppable
      <3>3. QED BY <3>1, <3>2
    <2>3. ASSUME NEW x \in Posts PROVE PostInv(x)'
      <3>1. CASE x = o
        BY <3>1, <1>1, PostStep DEF OpInv
      <3>2. CASE x # o
        BY <3>2, <2>1, Frame, PostsAssumption DEF OpInv
      <3>3. QED BY <3>1, <3>2
    <2>4. QED BY <2>1, <2>2, <2>3 DEF OpInv
  <1>2. CASE UNCHANGED opVars
    <2>1. OpTypes'
      BY <1>2 DEF opVars, OpInv, OpTypes
    <2>2. \A x \in Ops : Untouched(x)
      BY <1>2 DEF opVars, Untouched
    <2>3. QED
      BY <2>1, <2>2, Frame, PostsAssumption DEF OpInv, Stoppable
  <1>3. QED BY <1>1, <1>2, ClaimStep DEF OpNext

\* Type correctness and the invariant, for every number of operations.
THEOREM Invariance == OpSpec => []OpInv
  BY InvInit, InvNext, PTL DEF OpSpec

\* The state is well typed, and a stop callback is there exactly from emplace() on.
LEMMA WellTyped == OpInv => OpTypeOK
  BY PostsAssumption
  DEF OpInv, OpTypes, OpTypeOK, StoppableInv, BeforeBackend, WhileStarting, StartPosts,
      AfterStart, CallbackQuiet, Stoppable, StartLabels

\* The types as a theorem of the protocol.
THEOREM TypeCorrect == OpSpec => []OpTypeOK
  BY WellTyped, Invariance, PTL

-----------------------------------------------------------------------------

\* publish()'s assertion never fires and no operation is enqueued twice.
THEOREM PostsOnce == OpSpec => []PostedOnce
  <1>1. ASSUME OpInv, NEW o \in Ops
        PROVE  /\ Publishers(o) \cup Posters(o) # {} => o \notin posted /\ outcome[o] = "none"
               /\ Publishers(o) # {} => phase[o] # "completed"
               /\ \A a, b \in Publishers(o) \cup Posters(o) : a = b
    <2> DEFINE Publishing(l) == l \in {"publish", "publish_deferred"}
               Active(l) == Publishing(l) \/ l = "post"
    <2>1. /\ Active(startPc[o]) => ~Active(cancelPc[o]) /\ ~Active(backendPc[o])
          /\ Active(cancelPc[o]) => ~Active(backendPc[o])
          /\ Active(startPc[o]) \/ Active(cancelPc[o]) \/ Active(backendPc[o])
                => o \notin posted /\ outcome[o] = "none"
          /\ Publishing(startPc[o]) \/ Publishing(cancelPc[o]) \/ Publishing(backendPc[o])
                => phase[o] # "completed"
      BY <1>1, PostsAssumption
      DEF OpInv, OpTypes, StoppableInv, BeforeBackend, WhileStarting, StartPosts,
          AfterStart, CancelJustified, Undelivered, EnqueuedOnce, CallbackQuiet,
          CallbackClaimed, CallbackRunning, PostInv, Stoppable, StartLabels,
          CancelLabels, BackendLabels, Phases
    <2>2. \A a \in Publishers(o) :
             \/ a = "start" /\ Publishing(startPc[o])
             \/ a = "cancel" /\ Publishing(cancelPc[o])
             \/ a = "backend" /\ Publishing(backendPc[o])
      BY DEF Publishers, AgentPc, Agents
    <2>3. \A a \in Posters(o) :
             \/ a = "start" /\ startPc[o] = "post"
             \/ a = "cancel" /\ cancelPc[o] = "post"
             \/ a = "backend" /\ backendPc[o] = "post"
      BY DEF Posters, AgentPc, Agents
    <2>4. QED
      BY <2>1, <2>2, <2>3
  <1>2. OpInv => PostedOnce
    BY <1>1, WellTyped DEF PostedOnce
  <1>3. QED BY <1>2, Invariance, PTL

\* The receiver's owner may destroy the operation once it is delivered.
THEOREM DeliveryIsFinal == OpSpec => []NoUseAfterDelivery
  <1>1. OpInv => NoUseAfterDelivery
    BY PostsAssumption
    DEF OpInv, OpTypes, StoppableInv, BeforeBackend, WhileStarting, StartPosts,
        AfterStart, CancelJustified, Undelivered, EnqueuedOnce, CallbackQuiet,
        CallbackClaimed, CallbackRunning, PostInv, Stoppable, NoUseAfterDelivery,
        AgentPc, Agents, Touching, StartLabels, CancelLabels, BackendLabels, Phases
  <1>2. QED BY <1>1, Invariance, PTL

\* No completion falls between two agents.
THEOREM NothingIsLost == OpSpec => []CompletionNotLost
  <1>1. OpInv => CompletionNotLost
    BY PostsAssumption
    DEF OpInv, OpTypes, StoppableInv, BeforeBackend, WhileStarting, StartPosts,
        AfterStart, CancelJustified, Undelivered, EnqueuedOnce, CallbackQuiet,
        CallbackClaimed, CallbackRunning, Stoppable, CompletionNotLost, Publishers,
        Posters, AgentPc, Agents, StartLabels, CancelLabels, BackendLabels, Phases
  <1>2. QED BY <1>1, Invariance, PTL

-----------------------------------------------------------------------------

\* The step a step of the protocol takes in the contract.
LEMMA ContractStep ==
    ASSUME OpInv, [OpNext]_opVars
    PROVE  [Contract!ContractNext]_(Contract!contractVars)
  <1> DEFINE st == [o \in Ops |-> Status(o)]
  <1> USE DEF OpInv, OpTypes
  <1>1. SUFFICES ASSUME NEW o \in Ops, OpStep(o)
                 PROVE  [Contract!ContractNext]_(Contract!contractVars)
    BY DEF OpNext, opVars, Claim, Contract!contractVars, Status
  <1>2. CASE StartPost(o) \/ StartOperation(o)
    <2>1. outcome[o] = "none"
      BY <1>2, PostsAssumption
      DEF StartPost, StartOperation, PostInv, StoppableInv, BeforeBackend, Undelivered, Stoppable
    <2>2. Contract!StartOp(o)
      BY <1>2, <2>1
      DEF StartPost, StartOperation, GotoStart, Contract!StartOp, Status
    <2>3. QED BY <2>2 DEF Contract!ContractNext
  <1>3. CASE RequestStop(o)
    <2>1. Contract!AskToStop(o)
      BY <1>3 DEF RequestStop, Contract!AskToStop, Status
    <2>2. QED BY <2>1 DEF Contract!ContractNext
  <1>4. CASE Finish(o)
    <2>1. outcome[o] = "none" /\ startPc[o] # "idle" /\ startPc' = startPc
      BY <1>4, PostsAssumption
      DEF Finish, GotoCancel, PostInv, StoppableInv, BeforeBackend, WhileStarting,
          StartPosts, AfterStart, Undelivered, EnqueuedOnce, Stoppable, StartLabels
    <2>2. CASE o \in canceled \/ o \in Posts \cap stop
      <3>1. o \in stop
        BY <2>2, PostsAssumption DEF StoppableInv, CancelJustified, PostInv, Stoppable
      <3>2. Contract!CompleteStopped(o)
        BY <1>4, <2>1, <2>2, <3>1 DEF Finish, Contract!CompleteStopped, Status
      <3>3. QED BY <3>2 DEF Contract!ContractNext
    <2>3. CASE ~(o \in canceled \/ o \in Posts \cap stop)
      <3>1. Contract!CompleteWithValue(o)
        BY <1>4, <2>1, <2>3 DEF Finish, Contract!CompleteWithValue, Status
      <3>2. QED BY <3>1 DEF Contract!ContractNext
    <2>4. QED BY <2>2, <2>3
  <1>5. ASSUME UNCHANGED <<outcome, stop>>,
               \A x \in Ops : startPc'[x] = "idle" <=> startPc[x] = "idle"
        PROVE  UNCHANGED Contract!contractVars
    BY <1>5 DEF Contract!contractVars, Status
  <1>6. CASE Start(o) /\ ~StartPost(o) /\ ~StartOperation(o)
    BY <1>5, <1>6
    DEF Start, EmplaceCallback, DoStartPending, DoStartCompleted, PublishSync, Arm,
        DeferredCancel, PublishDeferred, Rearm, GotoStart
  <1>7. CASE Cancel(o) \/ Publish(o)
    BY <1>5, <1>7
    DEF Cancel, InvokeCallback, RequestCancel, DoCancel, Publish, GotoCancel, GotoBackend
  <1>8. CASE Post(o) \/ Wakeup(o)
    BY <1>5, <1>8 DEF Post, Wakeup, GotoStart, GotoCancel, GotoBackend
  <1>9. QED
    BY <1>1, <1>2, <1>3, <1>4, <1>6, <1>7, <1>8 DEF OpStep

\* The phase protocol implements the sender contract: one completion per
\* operation, and set_stopped only on request.
THEOREM Implements == OpSpec => ImplementsContract
  <1>1. OpInit => Contract!ContractInit
    BY DEF OpInit, Contract!ContractInit, Status
  <1>2. QED
    BY <1>1, ContractStep, Invariance, PTL
    DEF OpSpec, ImplementsContract, Contract!ContractSpec
=============================================================================
