--------------------------- MODULE TimeLoopProofs ---------------------------
(***************************************************************************)
(* Proofs about TimeLoop, for any operations, deadlines and bound of the   *)
(* clock, and about TimerQueue, the heap behind it.                        *)
(***************************************************************************)
EXTENDS TimeLoop, TimerQueue, ChainProofs

\* What is proved of the phase protocol, for the operations of the loop.
Proved == INSTANCE OperationStateProofs WITH posted <- Enqueued

\* The protocol those proofs are about is the one of the loop's steps.
LEMMA SameStep ==
    \A o \in Ops : Protocol!OpStep(o) <=> Proved!OpStep(o)
  <1> USE DEF Protocol!GotoStart, Proved!GotoStart, Protocol!GotoCancel, Proved!GotoCancel,
              Protocol!GotoBackend, Proved!GotoBackend,
              Protocol!CallbackRunning, Proved!CallbackRunning,
              Protocol!Stoppable, Proved!Stoppable
  <1>1. ASSUME NEW o \in Ops PROVE Protocol!Start(o) <=> Proved!Start(o)
    BY DEF Protocol!Start, Proved!Start, Protocol!StartPost, Proved!StartPost,
           Protocol!StartOperation, Proved!StartOperation,
           Protocol!EmplaceCallback, Proved!EmplaceCallback,
           Protocol!DoStartPending, Proved!DoStartPending,
           Protocol!DoStartCompleted, Proved!DoStartCompleted,
           Protocol!PublishSync, Proved!PublishSync, Protocol!Arm, Proved!Arm,
           Protocol!DeferredCancel, Proved!DeferredCancel,
           Protocol!PublishDeferred, Proved!PublishDeferred, Protocol!Rearm, Proved!Rearm
  <1>2. ASSUME NEW o \in Ops PROVE Protocol!Cancel(o) <=> Proved!Cancel(o)
    BY DEF Protocol!Cancel, Proved!Cancel, Protocol!InvokeCallback, Proved!InvokeCallback,
           Protocol!RequestCancel, Proved!RequestCancel, Protocol!DoCancel, Proved!DoCancel
  <1>3. ASSUME NEW o \in Ops
        PROVE  /\ Protocol!RequestStop(o) <=> Proved!RequestStop(o)
               /\ Protocol!Publish(o) <=> Proved!Publish(o)
               /\ Protocol!Post(o) <=> Proved!Post(o)
               /\ Protocol!Wakeup(o) <=> Proved!Wakeup(o)
               /\ Protocol!Finish(o) <=> Proved!Finish(o)
    BY DEF Protocol!RequestStop, Proved!RequestStop, Protocol!Publish, Proved!Publish,
           Protocol!Post, Proved!Post, Protocol!Wakeup, Proved!Wakeup,
           Protocol!Finish, Proved!Finish
  <1>4. QED BY <1>1, <1>2, <1>3 DEF Protocol!OpStep, Proved!OpStep

LEMMA SameProtocol ==
    /\ Protocol!OpInit <=> Proved!OpInit
    /\ [Protocol!OpNext]_(Protocol!opVars) <=> [Proved!OpNext]_(Proved!opVars)
  <1>1. Protocol!OpInit <=> Proved!OpInit
    BY DEF Protocol!OpInit, Proved!OpInit
  <1>2. \A S \in SUBSET Ops : Protocol!Claim(S) <=> Proved!Claim(S)
    BY DEF Protocol!Claim, Proved!Claim
  <1>3. QED
    BY <1>1, <1>2, SameStep DEF Protocol!OpNext, Proved!OpNext, Protocol!opVars, Proved!opVars

-----------------------------------------------------------------------------

\* An operation is in the queue at most once, and not while it is finished.
QueueInv ==
    /\ \A i, j \in 1..Len(queue) : i # j => queue[i] # queue[j]
    /\ current \notin ToSet(queue)

\* A timer that was handed to the heap stays there until it is canceled or
\* taken because it is due.
TimerInv ==
    \A o \in Sleeps :
        /\ startPc[o] # "publish"
        /\ startPc[o] # "idle" => deadline[o] \in 0..MaxTime
        /\ startPc[o] \notin {"idle", "emplace", "do_start"} =>
              o \in pending \/ o \in canceled \/ backendPc[o] # "idle"
        /\ backendPc[o] # "idle" => startPc[o] # "idle" /\ deadline[o] <= now
        /\ outcome[o] = "value" => backendPc[o] # "idle"

\* The operations that the work count stands for.
Counted == {o \in Ops : startPc[o] # "idle" /\ outcome[o] = "none" /\ o # current}

WorkInv ==
    /\ IsFiniteSet(Counted)
    /\ work = Cardinality(Counted) + (IF guard = "held" THEN 1 ELSE 0)

\* On its way to sleep the loop may still be overtaken by a post, by the end of
\* the last work and by an earlier timer: each of them releases afterwards.
Woken == sema > 0 \/ SomebodyWillWake

WakeInv ==
    /\ onLoop # None => loop \in {"outside", "handler"}
    /\ loop \in {"earliest", "acquire"} /\ queue # <<>> => Woken
    /\ loop \in {"dequeue", "earliest", "acquire"} /\ work = 0 => Woken
    /\ loop = "acquire" /\ pending # {} /\ (until = None \/ Earliest < until) => Woken

LoopInv == TypeOK /\ Proved!OpInv /\ QueueInv /\ TimerInv /\ WorkInv /\ WakeInv

-----------------------------------------------------------------------------

\* A set of times has a least element, which is what Min chooses.
LEMMA LeastTime ==
    ASSUME NEW S \in SUBSET Nat, S # {}
    PROVE  Min(S) \in S /\ \A y \in S : Min(S) <= y
  <1> DEFINE Earlier == {ss \in Nat \X Nat : ss[1] < ss[2]}
  <1>1. IsWellFoundedOn(Earlier, Nat)
    BY NatLessThanWellFounded DEF OpToRel
  <1>2. PICK x \in S : \A y \in S : ~(<<y, x>> \in Earlier)
    BY <1>1, WFMin
  <1>3. ASSUME NEW y \in S PROVE x <= y
    <2>1. x \in Nat /\ y \in Nat /\ <<y, x>> \notin Earlier
      BY <1>2
    <2>2. y < x => <<y, x>> \in Earlier
      BY <2>1
    <2>3. QED BY <2>1, <2>2
  <1>4. QED BY <1>3 DEF Min

\* What the invariant of the protocol says where the loop relies on it.
LEMMA OpFacts ==
    ASSUME Proved!OpInv, NEW o \in Ops
    PROVE  /\ startPc[o] = "idle" => o \notin Enqueued /\ outcome[o] = "none"
           /\ "post" \in {startPc[o], cancelPc[o], backendPc[o]} => o \notin Enqueued
           /\ "post" \in {startPc[o], cancelPc[o]} => backendPc[o] # "post"
           /\ startPc[o] = "emplace" => cancelPc[o] # "wakeup"
           /\ o \in Enqueued => /\ outcome[o] = "none" /\ startPc[o] \in {"wakeup", "done"}
                                /\ o \notin pending
           /\ o \in pending => /\ o \in Sleeps /\ startPc[o] # "idle" /\ outcome[o] = "none"
                               /\ backendPc[o] = "idle"
  <1> USE DEF Proved!OpInv, Proved!OpTypes
  <1>1. CASE o \in Posts
    BY <1>1 DEF Proved!PostInv, Proved!Undelivered, Proved!EnqueuedOnce
  <1>2. CASE o \notin Posts
    <2>1. o \in Sleeps /\ o \in Proved!Stoppable /\ Proved!StoppableInv(o)
      BY <1>2 DEF Ops, Proved!Stoppable
    <2>2. QED
      BY <2>1 DEF Proved!StoppableInv, Proved!BeforeBackend, Proved!WhileStarting,
             Proved!StartPosts, Proved!AfterStart, Proved!CancelJustified, Proved!Undelivered,
             Proved!EnqueuedOnce, Proved!CallbackQuiet, Proved!CallbackClaimed,
             Proved!CallbackRunning, Proved!StartLabels, Proved!CancelLabels,
             Proved!BackendLabels, Proved!Phases
  <1>3. QED BY <1>1, <1>2

\* What a sequence holds, by position.
LEMMA Elements ==
    ASSUME NEW S, NEW s \in Seq(S)
    PROVE  ToSet(s) = {s[i] : i \in 1..Len(s)} /\ ToSet(s) \subseteq S
  BY DEF ToSet

\* A sequence holds its head and what its tail holds.
LEMMA HeadAndTail ==
    ASSUME NEW S, NEW s \in Seq(S), s # <<>>
    PROVE  ToSet(s) = ToSet(Tail(s)) \cup {Head(s)}
  <1> DEFINE t == Tail(s)
  <1>1. /\ Len(s) \in Nat \ {0} /\ Len(t) = Len(s) - 1 /\ t \in Seq(S)
        /\ Head(s) = s[1] /\ \A i \in 1..Len(t) : t[i] = s[i + 1]
    OBVIOUS
  <1>2. /\ ToSet(s) = {s[i] : i \in 1..Len(s)}
        /\ ToSet(t) = {t[i] : i \in 1..Len(t)}
    BY <1>1, Elements
  <1> HIDE DEF t
  <1>3. ASSUME NEW i \in 1..Len(s), i # 1 PROVE s[i] \in {t[k] : k \in 1..Len(t)}
    <2>1. i - 1 \in 1..Len(t) /\ t[i - 1] = s[i]
      BY <1>1, <1>3
    <2>2. QED BY <2>1
  <1>4. QED BY <1>1, <1>2, <1>3 DEF t

\* The queue and what is enqueued, at either end.
LEMMA EnqueuedAfter ==
    ASSUME TypeOK
    PROVE  /\ UNCHANGED <<queue, current>> => Enqueued' = Enqueued
           /\ queue # <<>> /\ current = None /\ current' = Head(queue) /\ queue' = Tail(queue)
                 => Enqueued' = Enqueued /\ Head(queue) \in Ops \cap Enqueued
  <1>1. UNCHANGED <<queue, current>> => Enqueued' = Enqueued
    BY DEF Enqueued
  <1>2. ASSUME queue # <<>>, current = None, current' = Head(queue), queue' = Tail(queue)
        PROVE  Enqueued' = Enqueued /\ Head(queue) \in Ops \cap Enqueued
    <2>1. queue \in Seq(Ops) /\ None \notin Ops
      BY LoopAssumption DEF TypeOK
    <2>2. ToSet(queue) = ToSet(Tail(queue)) \cup {Head(queue)}
      BY <1>2, <2>1, HeadAndTail
    <2>3. Head(queue) \in Ops /\ ToSet(queue) \subseteq Ops
      BY <1>2, <2>1 DEF ToSet
    <2>4. QED BY <1>2, <2>1, <2>2, <2>3 DEF Enqueued
  <1>3. QED BY <1>1, <1>2

-----------------------------------------------------------------------------

\* What a thread does to an operation, inside start() or in the callback, is a
\* step of the protocol.
LEMMA ThreadStep ==
    ASSUME NEW o \in Ops,
           StartOp(o) \/ StartProgress(o) \/ RequestStop(o) \/ CancelProgress(o)
    PROVE  Protocol!OpStep(o) \/ UNCHANGED Protocol!opVars
  <1> USE DEF Protocol!OpStep, Protocol!Start, Protocol!Cancel
  <1>1. CASE StartOp(o)
    BY <1>1 DEF StartOp
  <1>2. CASE EmplaceCallback(o) \/ AddTimer(o)
    BY <1>2 DEF EmplaceCallback, AddTimer
  <1>3. CASE WakeForRoot(o)
    BY <1>3 DEF WakeForRoot, opVars, frameVars, Protocol!opVars, Enqueued
  <1>4. CASE FinishStart(o)
    BY <1>4 DEF FinishStart
  <1>5. CASE PostFrom(o, startPc, StartCall(o)) \/ WakeupFrom(o, startPc, StartCall(o))
    BY <1>5 DEF PostFrom, WakeupFrom
  <1>6. CASE RequestStop(o) \/ InvokeCallback(o) \/ RequestCancel(o)
    BY <1>6 DEF RequestStop, InvokeCallback, RequestCancel
  <1>7. CASE PostFrom(o, cancelPc, CancelCall(o)) \/ WakeupFrom(o, cancelPc, CancelCall(o))
    BY <1>7 DEF PostFrom, WakeupFrom
  <1>8. QED
    BY <1>1, <1>2, <1>3, <1>4, <1>5, <1>6, <1>7 DEF StartProgress, CancelProgress

\* The loop's own steps are the backend that takes the due timers and
\* publishes them, and the consumer; the others leave the operations alone.
LEMMA DriveStep ==
    ASSUME TypeOK, Drive
    PROVE  Protocol!OpNext \/ UNCHANGED Protocol!opVars
  <1> USE DEF LoopStep
  <1>1. ASSUME UNCHANGED <<opVars, queue, current>> PROVE UNCHANGED Protocol!opVars
    BY <1>1 DEF opVars, Protocol!opVars, Enqueued
  <1>2. CASE Enter \/ TestWork \/ HandlerReturns \/ ReadEarliest \/ Acquire \/ PublishedAll
             \/ ConsumeNothing("dequeue") \/ ConsumeNothing("drain")
    BY <1>1, <1>2
    DEF Enter, TestWork, HandlerReturns, ReadEarliest, Acquire, PublishedAll, ConsumeNothing,
        frameVars
  <1>3. ASSUME NEW from \in {"dequeue", "drain"}, Consume(from)
        PROVE  UNCHANGED Protocol!opVars
    <2>1. current = None
      BY <1>3 DEF Consume, TypeOK
    <2>2. Enqueued' = Enqueued
      BY <1>3, <2>1, EnqueuedAfter DEF Consume
    <2>3. QED BY <1>3, <2>2 DEF Consume, opVars, Protocol!opVars
  <1>4. CASE FinishCurrent
    <2>1. current \in Ops
      BY <1>4 DEF FinishCurrent, TypeOK
    <2>2. QED BY <1>4, <2>1 DEF FinishCurrent, Protocol!OpNext, Protocol!OpStep
  <1>5. CASE TakeReadyTimers
    <2> DEFINE due == {o \in pending : deadline[o] <= now}
    <2>1. due \in SUBSET Ops
      BY DEF TypeOK, Protocol!OpTypes
    <2>2. UNCHANGED <<queue, current>> /\ (UNCHANGED opVars \/ Protocol!Claim(due))
      BY <1>5 DEF TakeReadyTimers
    <2>3. QED BY <1>1, <2>1, <2>2 DEF Protocol!OpNext
  <1>6. CASE PublishReady
    <2> DEFINE o == Head(ready)
    <2>1. o \in Ops
      BY <1>6 DEF PublishReady, TypeOK, Ops
    <2>2. Protocol!Publish(o) \/ Protocol!Post(o) \/ Protocol!Wakeup(o)
      BY <1>6 DEF PublishReady
    <2>3. QED BY <2>1, <2>2 DEF Protocol!OpNext, Protocol!OpStep
  <1>7. QED BY <1>2, <1>3, <1>4, <1>5, <1>6 DEF Drive

LEMMA ProtocolStep ==
    ASSUME TypeOK, [Next]_vars
    PROVE  [Protocol!OpNext]_(Protocol!opVars)
  <1>1. ASSUME UNCHANGED <<opVars, queue, current>> PROVE UNCHANGED Protocol!opVars
    BY <1>1 DEF opVars, Protocol!opVars, Enqueued
  <1>2. CASE UNCHANGED vars
    BY <1>1, <1>2 DEF vars, frameVars
  <1>3. CASE ContextStop \/ ContextWakeup \/ GuardTake \/ GuardDrop \/ GuardWakeup \/ Tick
    BY <1>1, <1>3
    DEF ContextStop, ContextWakeup, GuardTake, GuardDrop, GuardWakeup, Tick, frameVars
  <1>4. ASSUME NEW o \in Ops,
               StartOp(o) \/ StartProgress(o) \/ RequestStop(o) \/ CancelProgress(o)
        PROVE  Protocol!OpNext \/ UNCHANGED Protocol!opVars
    BY <1>4, ThreadStep DEF Protocol!OpNext
  <1>5. QED BY <1>2, <1>3, <1>4, DriveStep DEF Next

\* The invariant of the protocol is kept by the loop.
LEMMA OpInvNext ==
    ASSUME TypeOK, Proved!OpInv, [Next]_vars
    PROVE  Proved!OpInv' /\ Protocol!OpTypes'
  <1>1. Posts \subseteq Ops
    BY DEF Ops
  <1>2. [Proved!OpNext]_(Proved!opVars)
    BY ProtocolStep, SameProtocol
  <1>3. Proved!OpInv'
    BY <1>1, <1>2, Proved!InvNext
  <1>4. Proved!OpTypes' <=> Protocol!OpTypes'
    BY DEF Proved!OpTypes, Protocol!OpTypes, Proved!Phases, Protocol!Phases,
           Proved!StartLabels, Protocol!StartLabels, Proved!CancelLabels, Protocol!CancelLabels,
           Proved!BackendLabels, Protocol!BackendLabels, Proved!Outcomes, Protocol!Outcomes
  <1>5. QED BY <1>3, <1>4 DEF Proved!OpInv

-----------------------------------------------------------------------------

\* Every timer in the heap is counted, so they are finitely many.
LEMMA PendingIsFinite ==
    ASSUME TypeOK, Proved!OpInv, WorkInv
    PROVE  /\ IsFiniteSet(pending)
           /\ pending \subseteq Sleeps
  <1>1. pending \subseteq Ops /\ None \notin Ops
    BY LoopAssumption DEF TypeOK, Protocol!OpTypes
  <1>2. ASSUME NEW o \in pending PROVE o \in Counted /\ o \in Sleeps
    <2>1. o \in Ops /\ o \in Sleeps /\ startPc[o] # "idle" /\ outcome[o] = "none"
      BY <1>1, OpFacts
    <2>2. o # current
      BY <1>1, <2>1, OpFacts DEF Enqueued
    <2>3. QED BY <2>1, <2>2 DEF Counted
  <1>3. QED BY <1>2, FS_Subset DEF WorkInv

\* The loop waits for the least of the deadlines in the heap.
LEMMA EarliestIsLeast ==
    ASSUME TypeOK, Proved!OpInv, TimerInv
    PROVE  /\ Earliest \in (0..MaxTime) \cup {None}
           /\ pending # {} => /\ Earliest \in 0..MaxTime
                              /\ \E o \in pending : Earliest = deadline[o]
                              /\ \A o \in pending : Earliest <= deadline[o]
           /\ \A o \in pending : deadline[o] \in 0..MaxTime
  <1>1. \A o \in pending : o \in Sleeps /\ startPc[o] # "idle"
    BY OpFacts DEF TypeOK, Protocol!OpTypes
  <1>2. \A o \in pending : deadline[o] \in 0..MaxTime
    BY <1>1 DEF TimerInv
  <1>3. CASE pending = {}
    BY <1>2, <1>3 DEF Earliest
  <1>4. CASE pending # {}
    <2> DEFINE times == {deadline[o] : o \in pending}
    <2>1. times # {} /\ times \in SUBSET Nat
      BY <1>2, <1>4, LoopAssumption
    <2>2. Min(times) \in times /\ \A y \in times : Min(times) <= y
      <3> HIDE DEF times
      <3>1. QED BY <2>1, LeastTime
    <2>3. QED BY <1>2, <1>4, <2>2 DEF Earliest
  <1>5. QED BY <1>3, <1>4

\* The order in which due timers are taken is a sequence of them.
LEMMA OrderOfDue ==
    ASSUME NEW S, IsFiniteSet(S), NEW order \in SetToSeqs(S)
    PROVE  order \in Seq(S)
  <1>1. Cardinality(S) \in Nat
    BY FS_CardinalityType
  <1>2. QED BY <1>1 DEF SetToSeqs

\* The parts of the type invariant that are not about the operations: one
\* lemma for the threads of the users, one for the loop's.
LEMMA ThreadTypes ==
    ASSUME LoopInv, Protocol!OpTypes', NEW o \in Ops,
           StartOp(o) \/ StartProgress(o) \/ RequestStop(o) \/ CancelProgress(o)
    PROVE  TypeOK'
  <1> USE DEF LoopInv, TypeOK, ctxVars, timerVars, opVars, frameVars
  <1>0. StartCall(o) \in Calls /\ CancelCall(o) \in Calls
    BY DEF StartCall, CancelCall, Calls
  <1>1. CASE StartOp(o)
    <2>1. deadline' \in [Sleeps -> (0..MaxTime) \cup {None}]
      BY <1>1 DEF StartOp
    <2>2. onLoop' \in Calls \cup {None}
      BY <1>0, <1>1 DEF StartOp, Begin
    <2>3. QED BY <1>1, <2>1, <2>2 DEF StartOp
  <1>2. CASE EmplaceCallback(o)
    BY <1>2 DEF EmplaceCallback
  <1>3. CASE AddTimer(o)
    BY <1>3 DEF AddTimer
  <1>4. CASE WakeForRoot(o)
    BY <1>4 DEF WakeForRoot, WakeupConsumer
  <1>5. CASE FinishStart(o)
    BY <1>5 DEF FinishStart, Continue
  <1>6. CASE PostFrom(o, startPc, StartCall(o)) \/ PostFrom(o, cancelPc, CancelCall(o))
    <2>1. queue' = Append(queue, o) /\ Append(queue, o) \in Seq(Ops)
      BY <1>6 DEF PostFrom
    <2>2. QED BY <1>6, <2>1 DEF PostFrom
  <1>7. CASE WakeupFrom(o, startPc, StartCall(o)) \/ WakeupFrom(o, cancelPc, CancelCall(o))
    BY <1>7 DEF WakeupFrom, WakeupConsumer, Continue
  <1>8. CASE RequestStop(o)
    BY <1>8 DEF RequestStop
  <1>9. CASE InvokeCallback(o)
    BY <1>0, <1>9 DEF InvokeCallback, Begin
  <1>10. CASE RequestCancel(o)
    BY <1>10 DEF RequestCancel, Continue
  <1>11. QED
    BY <1>1, <1>2, <1>3, <1>4, <1>5, <1>6, <1>7, <1>8, <1>9, <1>10
    DEF StartProgress, CancelProgress

LEMMA DriveTypes ==
    ASSUME LoopInv, Protocol!OpTypes', Drive
    PROVE  TypeOK'
  <1> USE DEF LoopInv, TypeOK, ctxVars, timerVars, frameVars, LoopStep, LoopLabels, Leave
  <1>1. CASE Enter
    BY <1>1, LoopAssumption DEF Enter, opVars
  <1>2. CASE TestWork
    BY <1>2, LoopAssumption DEF TestWork, opVars
  <1>3. ASSUME NEW from \in {"dequeue", "drain"}, Consume(from) PROVE TypeOK'
    <2>1. work - 1 \in Nat
      <3>1. current = None /\ Head(queue) \in Ops \cap Enqueued
        BY <1>3, EnqueuedAfter DEF Consume
      <3>2. Head(queue) \in Counted
        BY <3>1, OpFacts, LoopAssumption DEF Counted
      <3>3. Cardinality(Counted) \in Nat \ {0}
        BY <3>2, FS_EmptySet, FS_CardinalityType DEF WorkInv
      <3>4. QED BY <3>3 DEF WorkInv
    <2>2. QED BY <1>3, <2>1, LoopAssumption DEF Consume, opVars
  <1>4. ASSUME NEW from \in {"dequeue", "drain"}, ConsumeNothing(from) PROVE TypeOK'
    BY <1>4 DEF ConsumeNothing, opVars
  <1>5. CASE FinishCurrent
    BY <1>5 DEF FinishCurrent
  <1>6. CASE HandlerReturns
    BY <1>6 DEF HandlerReturns, opVars
  <1>7. CASE ReadEarliest
    <2>1. Earliest \in (0..MaxTime) \cup {None}
      BY EarliestIsLeast
    <2>2. QED BY <1>7, <2>1 DEF ReadEarliest, opVars
  <1>8. CASE Acquire
    BY <1>8 DEF Acquire, opVars
  <1>9. CASE TakeReadyTimers
    <2> DEFINE due == {o \in pending : deadline[o] <= now}
    <2>1. IsFiniteSet(due) /\ due \subseteq Sleeps
      BY PendingIsFinite, FS_Subset
    <2>2. ready' \in SetToSeqs(due)
      BY <1>9 DEF TakeReadyTimers
    <2>3. ready' \in Seq(due)
      BY <2>1, <2>2, OrderOfDue
    <2>4. ready' \in Seq(Sleeps)
      BY <2>1, <2>3
    <2>5. QED BY <1>9, <2>4 DEF TakeReadyTimers
  <1>10. CASE PublishReady
    <2>1. Head(ready) \in Ops /\ Tail(ready) \in Seq(Sleeps)
      BY <1>10 DEF PublishReady, Ops
    <2>2. Append(queue, Head(ready)) \in Seq(Ops)
      BY <2>1
    <2>3. /\ queue' = queue \/ queue' = Append(queue, Head(ready))
          /\ ready' = ready \/ ready' = Tail(ready)
          /\ UNCHANGED <<work, sema, loop, mode, until, current, timerVars, ctxVars, onLoop>>
      BY <1>10 DEF PublishReady
    <2>4. queue' \in Seq(Ops)
      BY <2>2, <2>3
    <2>5. ready' \in Seq(Sleeps)
      <3>1. ready \in Seq(Sleeps)
        OBVIOUS
      <3>2. QED BY <2>1, <2>3, <3>1, Zenon
    <2>6. UNCHANGED <<work, sema, loop, mode, until, current, deadline, rootWake, now, ctxStop,
                      guard, onLoop>>
      BY <2>3
    <2>7. QED BY <2>4, <2>5, <2>6
  <1>11. CASE PublishedAll
    BY <1>11 DEF PublishedAll, opVars
  <1>12. QED
    BY <1>1, <1>2, <1>3, <1>4, <1>5, <1>6, <1>7, <1>8, <1>9, <1>10, <1>11 DEF Drive

-----------------------------------------------------------------------------

\* A posted operation was not in the queue, and the loop takes what it finishes
\* out of it.
LEMMA QueueNext ==
    ASSUME LoopInv, [Next]_vars
    PROVE  QueueInv'
  <1> USE DEF LoopInv
  <1>1. ASSUME UNCHANGED <<queue, current>> PROVE QueueInv'
    BY <1>1 DEF QueueInv
  <1>2. ASSUME NEW o \in Ops, o \notin Enqueued, queue' = Append(queue, o), UNCHANGED current
        PROVE  QueueInv'
    <2>1. queue \in Seq(Ops) /\ None \notin Ops
      BY LoopAssumption DEF TypeOK
    <2>2. o # current /\ o \notin ToSet(queue)
      BY <1>2, <2>1 DEF Enqueued
    <2>3. ToSet(queue') = ToSet(queue) \cup {o}
      BY <1>2, <2>1 DEF ToSet
    <2>4. \A i \in 1..Len(queue) : queue[i] # o
      BY <2>1, <2>2, Elements
    <2>5. QED BY <1>2, <2>1, <2>2, <2>3, <2>4 DEF QueueInv
  <1>3. CASE UNCHANGED vars
    BY <1>1, <1>3 DEF vars, frameVars
  <1>4. CASE ContextStop \/ ContextWakeup \/ GuardTake \/ GuardDrop \/ GuardWakeup \/ Tick
    BY <1>1, <1>4
    DEF ContextStop, ContextWakeup, GuardTake, GuardDrop, GuardWakeup, Tick, frameVars
  <1>5. ASSUME NEW o \in Ops,
               StartOp(o) \/ StartProgress(o) \/ RequestStop(o) \/ CancelProgress(o)
        PROVE  QueueInv'
    <2>1. CASE PostFrom(o, startPc, StartCall(o)) \/ PostFrom(o, cancelPc, CancelCall(o))
      BY <1>2, <2>1, OpFacts DEF PostFrom
    <2>2. CASE ~(PostFrom(o, startPc, StartCall(o)) \/ PostFrom(o, cancelPc, CancelCall(o)))
      BY <1>1, <1>5, <2>2
      DEF StartProgress, CancelProgress, StartOp, EmplaceCallback, AddTimer, WakeForRoot,
          FinishStart, WakeupFrom, RequestStop, InvokeCallback, RequestCancel, frameVars
    <2>3. QED BY <2>1, <2>2
  <1>6. CASE Drive
    <2>1. ASSUME NEW from \in {"dequeue", "drain"}, Consume(from) PROVE QueueInv'
      <3>1. /\ queue # <<>> /\ queue \in Seq(Ops)
            /\ current' = Head(queue) /\ queue' = Tail(queue)
        BY <2>1 DEF Consume, TypeOK
      <3>2. /\ Len(queue) \in Nat \ {0} /\ Len(queue') = Len(queue) - 1
            /\ queue' \in Seq(Ops)
            /\ Head(queue) = queue[1] /\ \A i \in 1..Len(queue') : queue'[i] = queue[i + 1]
        BY <3>1
      <3>3. \A i, j \in 1..Len(queue') : i # j => queue'[i] # queue'[j]
        BY <3>2 DEF QueueInv
      <3>4. \A i \in 1..Len(queue') : queue'[i] # current'
        BY <3>1, <3>2 DEF QueueInv
      <3>5. ToSet(queue') = {queue'[i] : i \in 1..Len(queue')}
        BY <3>2, Elements
      <3>6. QED BY <3>3, <3>4, <3>5 DEF QueueInv
    <2>2. CASE FinishCurrent
      <3>1. None \notin ToSet(queue)
        BY Elements, LoopAssumption DEF TypeOK
      <3>2. QED BY <2>2, <3>1 DEF FinishCurrent, QueueInv
    <2>3. CASE PublishReady
      <3>1. Head(ready) \in Ops
        BY <2>3 DEF PublishReady, TypeOK, Ops
      <3>2. \/ UNCHANGED <<queue, current>>
            \/ /\ backendPc[Head(ready)] = "post" /\ UNCHANGED current
               /\ queue' = Append(queue, Head(ready))
        BY <2>3 DEF PublishReady
      <3>3. QED BY <1>1, <1>2, <3>1, <3>2, OpFacts
    <2>4. CASE Enter \/ TestWork \/ HandlerReturns \/ ReadEarliest \/ Acquire \/ PublishedAll
               \/ ConsumeNothing("dequeue") \/ ConsumeNothing("drain") \/ TakeReadyTimers
      BY <1>1, <2>4
      DEF Enter, TestWork, HandlerReturns, ReadEarliest, Acquire, PublishedAll, ConsumeNothing,
          TakeReadyTimers, frameVars
    <2>5. QED BY <1>6, <2>1, <2>2, <2>3, <2>4 DEF Drive
  <1>7. QED BY <1>3, <1>4, <1>5, <1>6 DEF Next

\* What the steps of an operation's agents leave alone, one operation x at a
\* time; Keeps is about the steps after start() was called.
Keeps(x) ==
    /\ startPc'[x] = "idle" <=> startPc[x] = "idle"
    /\ backendPc'[x] = "idle" <=> backendPc[x] = "idle"
    /\ startPc'[x] = "publish" => startPc[x] = "publish"
    /\ outcome'[x] = outcome[x]
    /\ x \in pending => x \in pending' \/ x \in canceled'
    /\ x \in canceled => x \in canceled'
    /\ startPc[x] \in {"emplace", "do_start"} =>
          startPc'[x] \in {"emplace", "do_start"} \/ x \in pending'

LEMMA StepKeeps ==
    ASSUME Protocol!OpTypes, NEW o \in Ops, NEW x \in Ops,
           \/ Protocol!EmplaceCallback(o) \/ Protocol!DoStartPending(o)
           \/ Protocol!Arm(o) \/ Protocol!DeferredCancel(o)
           \/ Protocol!PublishDeferred(o) \/ Protocol!Rearm(o)
           \/ Protocol!RequestStop(o) \/ Protocol!Cancel(o)
           \/ Protocol!Publish(o) \/ Protocol!Post(o) \/ Protocol!Wakeup(o)
    PROVE  Keeps(x)
  <1> USE DEF Protocol!GotoStart, Protocol!GotoCancel, Protocol!GotoBackend, Keeps
  <1>1. /\ startPc \in [Ops -> Protocol!StartLabels]
        /\ cancelPc \in [Ops -> Protocol!CancelLabels]
        /\ backendPc \in [Ops -> Protocol!BackendLabels]
    BY DEF Protocol!OpTypes
  <1>2. CASE Protocol!EmplaceCallback(o)
    BY <1>1, <1>2 DEF Protocol!EmplaceCallback
  <1>3. CASE Protocol!DoStartPending(o)
    BY <1>1, <1>3 DEF Protocol!DoStartPending
  <1>4. CASE Protocol!Arm(o)
    BY <1>1, <1>4 DEF Protocol!Arm
  <1>5. CASE Protocol!DeferredCancel(o)
    BY <1>1, <1>5 DEF Protocol!DeferredCancel
  <1>6. CASE Protocol!PublishDeferred(o)
    BY <1>1, <1>6 DEF Protocol!PublishDeferred
  <1>7. CASE Protocol!Rearm(o)
    BY <1>1, <1>7 DEF Protocol!Rearm
  <1>8. CASE Protocol!RequestStop(o)
    BY <1>8 DEF Protocol!RequestStop
  <1>9. CASE Protocol!InvokeCallback(o) \/ Protocol!RequestCancel(o)
    BY <1>9 DEF Protocol!InvokeCallback, Protocol!RequestCancel
  <1>10. CASE Protocol!DoCancel(o)
    BY <1>10 DEF Protocol!DoCancel
  <1>11. CASE Protocol!Publish(o)
    BY <1>1, <1>11 DEF Protocol!Publish
  <1>12. CASE Protocol!Post(o)
    BY <1>1, <1>12 DEF Protocol!Post
  <1>13. CASE Protocol!Wakeup(o)
    BY <1>1, <1>13 DEF Protocol!Wakeup
  <1>14. QED
    BY <1>2, <1>3, <1>4, <1>5, <1>6, <1>7, <1>8, <1>9, <1>10, <1>11, <1>12, <1>13
    DEF Protocol!Cancel

\* Every step of a thread but the start itself is one of those.
LEMMA ThreadKeeps ==
    ASSUME TypeOK, NEW o \in Ops, NEW x \in Ops,
           StartProgress(o) \/ RequestStop(o) \/ CancelProgress(o)
    PROVE  Keeps(x) /\ UNCHANGED <<deadline, now, current, loop, until, work, guard>>
  <1> USE DEF ctxVars, timerVars, opVars, frameVars
  <1>1. Protocol!OpTypes
    BY DEF TypeOK
  <1>2. CASE WakeForRoot(o)
    BY <1>2 DEF WakeForRoot, Keeps
  <1>3. CASE EmplaceCallback(o) \/ AddTimer(o)
    BY <1>1, <1>3, StepKeeps DEF EmplaceCallback, AddTimer
  <1>4. CASE FinishStart(o)
    BY <1>1, <1>4, StepKeeps DEF FinishStart
  <1>5. CASE PostFrom(o, startPc, StartCall(o)) \/ PostFrom(o, cancelPc, CancelCall(o))
    BY <1>1, <1>5, StepKeeps DEF PostFrom
  <1>6. CASE WakeupFrom(o, startPc, StartCall(o)) \/ WakeupFrom(o, cancelPc, CancelCall(o))
    BY <1>1, <1>6, StepKeeps DEF WakeupFrom
  <1>7. CASE RequestStop(o) \/ InvokeCallback(o) \/ RequestCancel(o)
    BY <1>1, <1>7, StepKeeps DEF RequestStop, InvokeCallback, RequestCancel, Protocol!Cancel
  <1>8. QED
    BY <1>2, <1>3, <1>4, <1>5, <1>6, <1>7 DEF StartProgress, CancelProgress

\* The start of an operation: nothing was known of it.
LEMMA StartOpSteps ==
    ASSUME TypeOK, NEW o \in Ops, StartOp(o)
    PROVE  /\ startPc[o] = "idle"
           /\ \A x \in Ops : startPc'[x] = IF x = o THEN IF o \in Posts THEN "post" ELSE "emplace"
                                           ELSE startPc[x]
           /\ UNCHANGED <<cancelPc, backendPc, pending, canceled, outcome, now, queue, current,
                          sema, guard, loop, until, rootWake>>
           /\ work' = work + 1
           /\ UNCHANGED deadline \/ \E d \in 0..MaxTime : deadline' = [deadline EXCEPT ![o] = d]
           /\ o \in Posts \/ \E d \in 0..MaxTime : deadline' = [deadline EXCEPT ![o] = d]
  BY DEF StartOp, Protocol!StartPost, Protocol!StartOperation, Protocol!Stoppable,
         Protocol!GotoStart, TypeOK, Protocol!OpTypes, ctxVars

\* A timer is in the heap, canceled or taken because it is due: no step drops
\* it, and none takes it early.
LEMMA TimerKept ==
    ASSUME TimerInv, \A x \in Ops : Keeps(x), UNCHANGED <<deadline, now>>
    PROVE  TimerInv'
  BY DEF TimerInv, Keeps, Ops

LEMMA TimerNext ==
    ASSUME LoopInv, [Next]_vars
    PROVE  TimerInv'
  <1> USE DEF LoopInv, timerVars, ctxVars, opVars, LoopStep
  <1>1. ASSUME UNCHANGED opVars, UNCHANGED <<deadline, now>> PROVE TimerInv'
    BY <1>1 DEF TimerInv
  <1>2. CASE UNCHANGED vars
    BY <1>1, <1>2 DEF vars
  <1>3. CASE ContextStop \/ ContextWakeup \/ GuardTake \/ GuardDrop \/ GuardWakeup
    BY <1>1, <1>3 DEF ContextStop, ContextWakeup, GuardTake, GuardDrop, GuardWakeup
  <1>4. CASE Tick
    BY <1>4, LoopAssumption DEF Tick, TimerInv, TypeOK
  <1>5. CASE Drive
    <2>1. CASE Enter \/ TestWork \/ HandlerReturns \/ ReadEarliest \/ Acquire \/ PublishedAll
               \/ ConsumeNothing("dequeue") \/ ConsumeNothing("drain")
               \/ Consume("dequeue") \/ Consume("drain")
      BY <1>1, <2>1
      DEF Enter, TestWork, HandlerReturns, ReadEarliest, Acquire, PublishedAll,
          ConsumeNothing, Consume
    <2>2. CASE FinishCurrent
      <3>1. /\ current \in Ops /\ current \in Enqueued
            /\ Protocol!Finish(current) /\ UNCHANGED <<deadline, now>>
        BY <2>2 DEF FinishCurrent, Protocol!Finish, TypeOK
      <3>2. startPc[current] \in {"wakeup", "done"} /\ current \notin pending
        BY <3>1, OpFacts
      <3>3. /\ UNCHANGED <<startPc, backendPc, pending, canceled, deadline, now>>
            /\ \A x \in Ops : outcome'[x] = "value" =>
                  outcome[x] = "value" \/ (x = current /\ current \notin canceled)
        BY <3>1 DEF Protocol!Finish, Protocol!GotoCancel, TypeOK, Protocol!OpTypes
      <3>4. QED BY <3>1, <3>2, <3>3 DEF TimerInv, Ops
    <2>3. CASE TakeReadyTimers
      <3> DEFINE due == {o \in pending : deadline[o] <= now}
      <3>1. UNCHANGED <<deadline, now>> /\ (UNCHANGED opVars \/ Protocol!Claim(due))
        BY <2>3 DEF TakeReadyTimers
      <3>2. CASE Protocol!Claim(due)
        <4>1. /\ pending' = pending \ due
              /\ \A x \in Ops : backendPc'[x] = IF x \in due THEN "publish" ELSE backendPc[x]
              /\ UNCHANGED <<startPc, canceled, outcome>>
          BY <3>2 DEF Protocol!Claim
        <4>2. \A o \in due : o \in pending /\ deadline[o] <= now /\ o \in Ops
          BY DEF TypeOK, Protocol!OpTypes
        <4>3. \A o \in due : startPc[o] # "idle"
          BY <4>2, OpFacts
        <4> HIDE DEF due
        <4>4. QED BY <3>1, <4>1, <4>2, <4>3 DEF TimerInv, Ops
      <3>3. QED BY <1>1, <3>1, <3>2
    <2>4. CASE PublishReady
      <3> DEFINE o == Head(ready)
      <3>1. o \in Ops /\ UNCHANGED <<deadline, now>>
        BY <2>4 DEF PublishReady, TypeOK, Ops
      <3>2. Protocol!Publish(o) \/ Protocol!Post(o) \/ Protocol!Wakeup(o)
        BY <2>4 DEF PublishReady
      <3>3. QED BY <3>1, <3>2, StepKeeps, TimerKept DEF TypeOK
    <2>5. QED BY <1>5, <2>1, <2>2, <2>3, <2>4 DEF Drive
  <1>6. ASSUME NEW o \in Ops, StartOp(o) PROVE TimerInv'
    <2>1. /\ startPc[o] = "idle" /\ outcome[o] = "none"
          /\ o \in Sleeps => backendPc[o] = "idle"
      BY <1>6, StartOpSteps, OpFacts DEF TimerInv
    <2>2. UNCHANGED <<backendPc, pending, canceled, outcome, now>>
      BY <1>6, StartOpSteps
    <2>3. \A x \in Ops : x # o => startPc'[x] = startPc[x]
      BY <1>6, StartOpSteps
    <2>4. o \in Sleeps => startPc'[o] = "emplace" /\ deadline'[o] \in 0..MaxTime
      BY <1>6, StartOpSteps, LoopAssumption DEF TypeOK
    <2>5. \A x \in Sleeps : x # o => deadline'[x] = deadline[x]
      BY <1>6, StartOpSteps DEF TypeOK
    <2>6. ASSUME NEW x \in Sleeps, x # o
          PROVE  /\ startPc'[x] = startPc[x] /\ deadline'[x] = deadline[x]
      BY <2>3, <2>5, <2>6 DEF Ops
    <2>7. QED BY <2>1, <2>2, <2>4, <2>6 DEF TimerInv
  <1>7. ASSUME NEW o \in Ops, StartProgress(o) \/ RequestStop(o) \/ CancelProgress(o)
        PROVE  TimerInv'
    BY <1>7, ThreadKeeps, TimerKept
  <1>8. QED BY <1>2, <1>3, <1>4, <1>5, <1>6, <1>7 DEF Next
-----------------------------------------------------------------------------

\* The count changes with what it counts.
LEMMA WorkNext ==
    ASSUME LoopInv, [Next]_vars
    PROVE  WorkInv'
  <1> USE DEF LoopInv, timerVars, ctxVars, LoopStep
  <1>1. ASSUME Counted' = Counted, UNCHANGED <<work, guard>> PROVE WorkInv'
    BY <1>1 DEF WorkInv
  <1>2. ASSUME UNCHANGED <<startPc, outcome, current, work, guard>> PROVE WorkInv'
    BY <1>1, <1>2 DEF Counted
  <1>3. None \notin Ops /\ work \in Nat /\ Cardinality(Counted) \in Nat
    BY FS_CardinalityType, LoopAssumption DEF WorkInv, TypeOK
  <1>4. ASSUME NEW o \in Ops, StartOp(o) PROVE WorkInv'
    <2>1. startPc[o] = "idle" /\ outcome[o] = "none" /\ o # current
      BY <1>3, <1>4, StartOpSteps, OpFacts DEF Enqueued
    <2>2. /\ \A x \in Ops : startPc'[x] # "idle" <=> x = o \/ startPc[x] # "idle"
          /\ UNCHANGED <<outcome, current, guard>> /\ work' = work + 1
      BY <1>4, StartOpSteps
    <2>3. Counted' = Counted \cup {o} /\ o \notin Counted
      BY <2>1, <2>2 DEF Counted
    <2>4. /\ IsFiniteSet(Counted') /\ Cardinality(Counted') = Cardinality(Counted) + 1
      BY <2>3, FS_AddElement DEF WorkInv
    <2>5. QED BY <1>3, <2>2, <2>4 DEF WorkInv
  <1>5. ASSUME NEW o \in Ops, StartProgress(o) \/ RequestStop(o) \/ CancelProgress(o)
        PROVE  WorkInv'
    <2>1. /\ \A x \in Ops : Keeps(x)
          /\ UNCHANGED <<current, work, guard>>
      BY <1>5, ThreadKeeps
    <2>2. Counted' = Counted
      BY <2>1 DEF Counted, Keeps
    <2>3. QED BY <1>1, <2>1, <2>2
  <1>6. CASE UNCHANGED vars
    BY <1>2, <1>6 DEF vars, opVars, frameVars
  <1>7. CASE ContextStop \/ ContextWakeup \/ GuardWakeup \/ Tick
    <2>1. UNCHANGED <<startPc, outcome, current, work>>
      BY <1>7 DEF ContextStop, ContextWakeup, GuardWakeup, Tick, opVars, frameVars
    <2>2. guard' = guard \/ (guard # "held" /\ guard' # "held")
      BY <1>7 DEF ContextStop, ContextWakeup, GuardWakeup, Tick
    <2>3. Counted' = Counted
      BY <2>1 DEF Counted
    <2>4. QED BY <2>1, <2>2, <2>3 DEF WorkInv
  <1>8. CASE GuardTake \/ GuardDrop
    <2>1. Counted' = Counted
      BY <1>8 DEF Counted, GuardTake, GuardDrop, opVars, frameVars
    <2>2. \/ guard = "free" /\ guard' = "held" /\ work' = work + 1
          \/ guard = "held" /\ guard' # "held" /\ work' = work - 1
      BY <1>8 DEF GuardTake, GuardDrop
    <2>3. QED BY <1>3, <2>1, <2>2 DEF WorkInv
  <1>9. CASE Drive
    <2>1. CASE Enter \/ TestWork \/ HandlerReturns \/ ReadEarliest \/ Acquire \/ PublishedAll
               \/ ConsumeNothing("dequeue") \/ ConsumeNothing("drain")
      BY <1>2, <2>1
      DEF Enter, TestWork, HandlerReturns, ReadEarliest, Acquire, PublishedAll,
          ConsumeNothing, opVars, frameVars
    <2>2. ASSUME NEW from \in {"dequeue", "drain"}, Consume(from) PROVE WorkInv'
      <3> DEFINE o == Head(queue)
      <3>1. current = None /\ o \in Ops \cap Enqueued
        BY <2>2, EnqueuedAfter DEF Consume, TypeOK
      <3>2. o \in Counted
        BY <1>3, <3>1, OpFacts DEF Counted
      <3>3. UNCHANGED <<startPc, outcome, guard>> /\ current' = o /\ work' = work - 1
        BY <2>2 DEF Consume, opVars
      <3> HIDE DEF o
      <3>4. Counted' = Counted \ {o}
        BY <1>3, <3>1, <3>3 DEF Counted
      <3>5. IsFiniteSet(Counted') /\ Cardinality(Counted') = Cardinality(Counted) - 1
        BY <3>2, <3>4, FS_RemoveElement DEF WorkInv
      <3>6. QED BY <1>3, <3>3, <3>5 DEF WorkInv
    <2>3. CASE FinishCurrent
      <3>1. current \in Ops /\ current' = None /\ UNCHANGED <<startPc, work, guard>>
        BY <2>3 DEF FinishCurrent, Protocol!Finish, Protocol!GotoCancel, TypeOK
      <3>2. \A x \in Ops : outcome'[x] = "none" <=> x # current /\ outcome[x] = "none"
        BY <2>3, <3>1 DEF FinishCurrent, Protocol!Finish, TypeOK, Protocol!OpTypes
      <3>3. Counted' = Counted
        BY <1>3, <3>1, <3>2 DEF Counted
      <3>4. QED BY <1>1, <3>1, <3>3
    <2>4. CASE TakeReadyTimers
      <3>1. UNCHANGED <<startPc, outcome, current, work, guard>>
        BY <2>4 DEF TakeReadyTimers, Protocol!Claim, opVars
      <3>2. QED BY <1>2, <3>1
    <2>5. CASE PublishReady
      <3> DEFINE o == Head(ready)
      <3>1. o \in Ops /\ UNCHANGED <<work, guard, current>>
        BY <2>5 DEF PublishReady, TypeOK, Ops
      <3>2. Protocol!Publish(o) \/ Protocol!Post(o) \/ Protocol!Wakeup(o)
        BY <2>5 DEF PublishReady
      <3>3. \A x \in Ops : Keeps(x)
        BY <3>1, <3>2, StepKeeps DEF TypeOK
      <3>4. Counted' = Counted
        BY <3>1, <3>3 DEF Counted, Keeps
      <3>5. QED BY <1>1, <3>1, <3>4
    <2>6. QED BY <1>9, <2>1, <2>2, <2>3, <2>4, <2>5 DEF Drive
  <1>10. QED BY <1>4, <1>5, <1>6, <1>7, <1>8, <1>9 DEF Next
-----------------------------------------------------------------------------

\* Threads on the way to wake the consumer stay on it, and only do_start()
\* brings a new timer into the heap.
StillWakes(x) ==
    /\ startPc[x] = "wakeup" => startPc'[x] = "wakeup"
    /\ cancelPc[x] = "wakeup" => cancelPc'[x] = "wakeup"

LEMMA StepWakes ==
    ASSUME Protocol!OpTypes, Proved!OpInv, NEW o \in Ops, NEW x \in Ops,
           \/ Protocol!EmplaceCallback(o) \/ Protocol!Arm(o) \/ Protocol!DeferredCancel(o)
           \/ Protocol!PublishDeferred(o) \/ Protocol!Rearm(o)
           \/ Protocol!RequestStop(o) \/ Protocol!Cancel(o)
           \/ Protocol!Publish(o) \/ Protocol!Post(o)
    PROVE  StillWakes(x) /\ pending' \subseteq pending
  <1> USE DEF Protocol!GotoStart, Protocol!GotoCancel, Protocol!GotoBackend, StillWakes
  <1>1. /\ startPc \in [Ops -> Protocol!StartLabels]
        /\ cancelPc \in [Ops -> Protocol!CancelLabels]
    BY DEF Protocol!OpTypes
  <1>2. CASE Protocol!EmplaceCallback(o)
    BY <1>1, <1>2, OpFacts DEF Protocol!EmplaceCallback
  <1>4. CASE Protocol!Arm(o)
    BY <1>1, <1>4 DEF Protocol!Arm
  <1>5. CASE Protocol!DeferredCancel(o)
    BY <1>1, <1>5 DEF Protocol!DeferredCancel
  <1>6. CASE Protocol!PublishDeferred(o)
    BY <1>1, <1>6 DEF Protocol!PublishDeferred
  <1>7. CASE Protocol!Rearm(o)
    BY <1>1, <1>7 DEF Protocol!Rearm
  <1>8. CASE Protocol!RequestStop(o)
    BY <1>8 DEF Protocol!RequestStop
  <1>9. CASE Protocol!InvokeCallback(o) \/ Protocol!RequestCancel(o)
    BY <1>1, <1>9 DEF Protocol!InvokeCallback, Protocol!RequestCancel
  <1>10. CASE Protocol!DoCancel(o)
    BY <1>1, <1>10 DEF Protocol!DoCancel
  <1>11. CASE Protocol!Publish(o)
    BY <1>1, <1>11 DEF Protocol!Publish
  <1>12. CASE Protocol!Post(o)
    BY <1>1, <1>12 DEF Protocol!Post
  <1>13. QED
    BY <1>2, <1>4, <1>5, <1>6, <1>7, <1>8, <1>9, <1>10, <1>11, <1>12 DEF Protocol!Cancel

\* The reasons for which the loop must not sleep, where it is on its way to.
Overtaken ==
    \/ loop \in {"earliest", "acquire"} /\ queue # <<>>
    \/ loop \in {"dequeue", "earliest", "acquire"} /\ work = 0
    \/ loop = "acquire" /\ pending # {} /\ (until = None \/ Earliest < until)

LEMMA WakeInvIs ==
    WakeInv <=> (onLoop # None => loop \in {"outside", "handler"}) /\ (Overtaken => Woken)
  BY DEF WakeInv, Overtaken

\* Fewer timers do not make the loop late.
LEMMA FewerTimers ==
    ASSUME LoopInv,
           pending' \subseteq pending, \A x \in pending : deadline'[x] = deadline[x],
           UNCHANGED <<queue, loop, until>>, work' = 0 => work = 0,
           Overtaken'
    PROVE  Overtaken
  <1>1. CASE loop = "acquire" /\ pending' # {} /\ (until = None \/ Earliest' < until)
    <2>1. /\ Earliest' \in 0..MaxTime
          /\ \E x \in pending' : Earliest' = deadline'[x]
      <3>1. \A x \in pending' : deadline'[x] \in 0..MaxTime
        BY EarliestIsLeast DEF LoopInv
      <3> DEFINE times == {deadline'[x] : x \in pending'}
      <3>2. times # {} /\ times \in SUBSET Nat
        BY <1>1, <3>1, LoopAssumption
      <3>3. Min(times) \in times
        <4> HIDE DEF times
        <4>1. QED BY <3>2, LeastTime
      <3>4. QED BY <1>1, <3>1, <3>3 DEF Earliest
    <2>2. /\ pending # {} /\ Earliest \in 0..MaxTime
          /\ \A x \in pending : Earliest <= deadline[x]
      BY <1>1, EarliestIsLeast DEF LoopInv
    <2>3. Earliest <= Earliest'
      BY <2>1, <2>2
    <2>4. until = None \/ until \in 0..MaxTime
      BY DEF LoopInv, TypeOK
    <2>5. QED BY <1>1, <2>1, <2>2, <2>3, <2>4, LoopAssumption DEF Overtaken
  <1>2. QED BY <1>1 DEF Overtaken

\* A step that brings nothing new and takes no wakeup back.
LEMMA WakeKept ==
    ASSUME LoopInv,
           pending' \subseteq pending, \A x \in pending : deadline'[x] = deadline[x],
           UNCHANGED <<queue, loop, until, sema>>, work' = 0 => work = 0,
           \A x \in Ops : StillWakes(x), rootWake \subseteq rootWake',
           guard = "wakeup" => guard' = "wakeup",
           Overtaken'
    PROVE  Woken'
  <1>1. Woken
    BY FewerTimers, WakeInvIs DEF LoopInv
  <1>2. QED BY <1>1 DEF Woken, SomebodyWillWake, StillWakes

\* Every step of a thread, while the loop is on its way to sleep.
LEMMA WakeThreads ==
    ASSUME LoopInv,
           onLoop = None, NEW o \in Ops,
           StartOp(o) \/ StartProgress(o) \/ RequestStop(o) \/ CancelProgress(o),
           Overtaken'
    PROVE  Woken'
  <1> USE DEF LoopInv, ctxVars, timerVars, frameVars
  <1>1. Protocol!OpTypes /\ sema \in Nat
    BY DEF TypeOK
  <1>2. None # StartCall(o) /\ None # CancelCall(o)
    BY LoopAssumption DEF StartCall, CancelCall, Calls
  <1>3. CASE StartOp(o)
    <2>1. /\ startPc[o] = "idle" /\ \A x \in Ops : x # o => startPc'[x] = startPc[x]
          /\ work' = work + 1
          /\ UNCHANGED <<cancelPc, pending, queue, loop, until, sema, rootWake, guard>>
      BY <1>3, StartOpSteps
    <2>2. \A x \in Ops : StillWakes(x)
      BY <2>1 DEF StillWakes
    <2>3. o \notin pending
      BY <2>1, OpFacts
    <2>4. \A x \in pending : deadline'[x] = deadline[x]
      <3>1. pending \subseteq Sleeps
        BY OpFacts DEF TypeOK, Protocol!OpTypes
      <3>2. UNCHANGED deadline \/ \E d \in 0..MaxTime : deadline' = [deadline EXCEPT ![o] = d]
        BY <1>3, StartOpSteps
      <3>3. QED BY <2>3, <3>1, <3>2 DEF TypeOK
    <2>5. work' = 0 => work = 0
      BY <2>1 DEF TypeOK
    <2>6. QED BY <2>1, <2>2, <2>4, <2>5, WakeKept
  <1>4. CASE AddTimer(o)
    <2>1. /\ pending' = pending \cup {o} /\ UNCHANGED <<deadline, queue, work, loop, until, sema, guard, cancelPc>>
          /\ rootWake' = IF pending = {} \/ deadline[o] < Earliest
                         THEN rootWake \cup {o} ELSE rootWake
      BY <1>4 DEF AddTimer, Protocol!DoStartPending, Protocol!GotoStart
    <2>2. \A x \in Ops : startPc[x] = "wakeup" => startPc'[x] = "wakeup"
      BY <1>1, <1>4 DEF AddTimer, Protocol!DoStartPending, Protocol!GotoStart, Protocol!OpTypes
    <2>3. Woken => Woken'
      BY <2>1, <2>2 DEF Woken, SomebodyWillWake
    <2>4. CASE pending = {} \/ deadline[o] < Earliest
      BY <2>1, <2>4 DEF Woken, SomebodyWillWake
    <2>5. CASE ~(pending = {} \/ deadline[o] < Earliest)
      <3>1. /\ \A x \in pending : Earliest <= deadline[x]
            /\ Earliest \in 0..MaxTime
        BY <2>5, EarliestIsLeast
      <3>2. deadline[o] \in 0..MaxTime
        BY <1>4 DEF AddTimer, Protocol!DoStartPending, TimerInv
      <3>3. /\ Earliest' \in 0..MaxTime
            /\ \E x \in pending' : Earliest' = deadline'[x]
        <4>1. \A x \in pending' : deadline'[x] \in 0..MaxTime
          BY <2>1, <3>2, EarliestIsLeast
        <4> DEFINE times == {deadline'[x] : x \in pending'}
        <4>2. times # {} /\ times \in SUBSET Nat
          BY <2>1, <4>1, LoopAssumption
        <4>3. Min(times) \in times
          <5> HIDE DEF times
          <5>1. QED BY <4>2, LeastTime
        <4>4. pending' # {}
          BY <2>1
        <4>5. QED BY <4>1, <4>3, <4>4 DEF Earliest
      <3>4. Earliest <= Earliest'
        BY <2>1, <2>5, <3>1, <3>2, <3>3
      <3>5. until = None \/ until \in 0..MaxTime
        BY DEF TypeOK
      <3>6. Overtaken
        BY <2>1, <2>5, <3>1, <3>3, <3>4, <3>5, LoopAssumption DEF Overtaken
      <3>7. QED BY <2>3, <3>6, WakeInvIs
    <2>6. QED BY <2>4, <2>5
  <1>5. CASE WakeForRoot(o)
    BY <1>1, <1>2, <1>5 DEF WakeForRoot, WakeupConsumer, Woken
  <1>6. CASE EmplaceCallback(o) \/ FinishStart(o) \/ RequestStop(o) \/ InvokeCallback(o)
             \/ RequestCancel(o)
    <2>1. \/ Protocol!EmplaceCallback(o) \/ Protocol!Arm(o) \/ Protocol!DeferredCancel(o)
          \/ Protocol!PublishDeferred(o) \/ Protocol!Rearm(o)
          \/ Protocol!RequestStop(o) \/ Protocol!Cancel(o) \/ Protocol!Publish(o)
      BY <1>6 DEF EmplaceCallback, FinishStart, RequestStop, InvokeCallback, RequestCancel,
                  Protocol!Cancel
    <2>2. UNCHANGED <<deadline, rootWake, guard, queue, work, sema, loop, until>>
      BY <1>6 DEF EmplaceCallback, FinishStart, RequestStop, InvokeCallback, RequestCancel
    <2>3. pending' \subseteq pending /\ \A x \in Ops : StillWakes(x)
      BY <1>1, <2>1, StepWakes
    <2>4. QED BY <2>2, <2>3, WakeKept
  <1>7. CASE PostFrom(o, startPc, StartCall(o)) \/ PostFrom(o, cancelPc, CancelCall(o))
    <2>1. "post" \in {startPc[o], cancelPc[o]} /\ Protocol!Post(o)
      BY <1>7 DEF PostFrom
    <2>2. backendPc[o] # "post"
      BY <2>1, OpFacts
    <2>3. startPc'[o] = "wakeup" \/ cancelPc'[o] = "wakeup"
      BY <1>1, <2>1, <2>2
      DEF Protocol!Post, Protocol!GotoStart, Protocol!GotoCancel, Protocol!GotoBackend,
          Protocol!OpTypes
    <2>4. QED BY <2>3 DEF Woken, SomebodyWillWake
  <1>8. CASE WakeupFrom(o, startPc, StartCall(o)) \/ WakeupFrom(o, cancelPc, CancelCall(o))
    <2>1. sema' = sema + 1
      BY <1>2, <1>8 DEF WakeupFrom, WakeupConsumer
    <2>2. QED BY <1>1, <2>1 DEF Woken
  <1>9. QED
    BY <1>3, <1>4, <1>5, <1>6, <1>7, <1>8 DEF StartProgress, CancelProgress

\* On its way to sleep the loop leaves nothing behind.
LEMMA WakeDrive ==
    ASSUME LoopInv, Drive, Overtaken'
    PROVE  Woken'
  <1> USE DEF LoopInv, LoopStep, Leave
  <1>1. CASE TestWork
    BY <1>1 DEF TestWork, Overtaken
  <1>2. ASSUME NEW from \in {"dequeue", "drain"}, ConsumeNothing(from) PROVE Woken'
    <2>1. /\ loop = "dequeue" /\ work = 0
          /\ UNCHANGED <<startPc, cancelPc, sema, rootWake, guard>>
      BY <1>2 DEF ConsumeNothing, Overtaken, opVars, timerVars, ctxVars
    <2>2. QED BY <2>1 DEF WakeInv, Woken, SomebodyWillWake
  <1>3. CASE ReadEarliest
    <2>1. /\ loop = "earliest" /\ loop' = "acquire" /\ until' = Earliest
          /\ UNCHANGED <<startPc, cancelPc, sema, rootWake, guard, pending, deadline, queue, work>>
      BY <1>3 DEF ReadEarliest, opVars, timerVars, ctxVars
    <2>2. Earliest' = Earliest
      BY <2>1 DEF Earliest
    <2>3. pending # {} => Earliest \in 0..MaxTime
      BY EarliestIsLeast
    <2>4. queue # <<>> \/ work = 0
      BY <2>1, <2>2, <2>3, LoopAssumption DEF Overtaken
    <2>5. Woken
      BY <2>1, <2>4 DEF WakeInv
    <2>6. QED BY <2>1, <2>5 DEF Woken, SomebodyWillWake
  <1>4. CASE Enter \/ HandlerReturns \/ Acquire \/ PublishedAll \/ FinishCurrent
             \/ TakeReadyTimers \/ Consume("dequeue") \/ Consume("drain") \/ PublishReady
    <2>1. loop' \notin {"dequeue", "earliest", "acquire"}
      BY <1>4
      DEF Enter, HandlerReturns, Acquire, PublishedAll, FinishCurrent, TakeReadyTimers,
          Consume, PublishReady
    <2>2. QED BY <2>1 DEF Overtaken
  <1>5. QED BY <1>1, <1>2, <1>3, <1>4 DEF Drive

LEMMA WakeNext ==
    ASSUME LoopInv, [Next]_vars
    PROVE  WakeInv'
  <1> USE DEF LoopInv
  <1> SUFFICES /\ onLoop' # None => loop' \in {"outside", "handler"}
               /\ Overtaken' => Woken'
    BY DEF WakeInv, Overtaken
  <1>1. CASE UNCHANGED vars
    <2>1. UNCHANGED <<onLoop, loop, startPc, cancelPc, pending, deadline, sema, rootWake, guard,
                      queue, work, until>>
      BY <1>1 DEF vars, opVars, timerVars, ctxVars, frameVars
    <2>2. Overtaken' <=> Overtaken
      BY <2>1 DEF Overtaken, Earliest
    <2>3. QED BY <2>1, <2>2, WakeInvIs DEF Woken, SomebodyWillWake
  <1>2. CASE ContextStop \/ ContextWakeup \/ GuardTake \/ GuardDrop \/ GuardWakeup \/ Tick
    <2>1. UNCHANGED <<onLoop, loop, startPc, cancelPc, pending, deadline, rootWake, queue, until>>
      BY <1>2 DEF ContextStop, ContextWakeup, GuardTake, GuardDrop, GuardWakeup, Tick,
                  opVars, timerVars, frameVars
    <2>2. onLoop' # None => loop' \in {"outside", "handler"}
      BY <2>1 DEF WakeInv
    <2>3. \/ sema' = sema + 1
          \/ guard' = "wakeup"
          \/ /\ UNCHANGED sema /\ (guard # "wakeup" \/ UNCHANGED guard)
             /\ work' = 0 => work = 0
      BY <1>2 DEF ContextStop, ContextWakeup, GuardTake, GuardDrop, GuardWakeup, Tick, TypeOK
    <2>4. CASE sema' = sema + 1 \/ guard' = "wakeup"
      BY <2>2, <2>4 DEF Woken, SomebodyWillWake, TypeOK
    <2>5. CASE /\ UNCHANGED sema /\ (guard # "wakeup" \/ UNCHANGED guard)
               /\ work' = 0 => work = 0
      <3>1. \A x \in Ops : StillWakes(x)
        BY <2>1 DEF StillWakes
      <3>2. QED BY <2>1, <2>2, <2>5, <3>1, WakeKept
    <2>6. QED BY <2>2, <2>3, <2>4, <2>5
  <1>3. ASSUME NEW o \in Ops,
               StartOp(o) \/ StartProgress(o) \/ RequestStop(o) \/ CancelProgress(o)
        PROVE  /\ onLoop' # None => loop' \in {"outside", "handler"}
               /\ Overtaken' => Woken'
    <2>1. UNCHANGED loop
      BY <1>3, ThreadKeeps, StartOpSteps
    <2>2. onLoop' # None => onLoop' = onLoop \/ UserCode
      BY <1>3
      DEF StartProgress, CancelProgress, StartOp, EmplaceCallback, AddTimer, WakeForRoot,
          FinishStart, PostFrom, WakeupFrom, RequestStop, InvokeCallback, RequestCancel,
          Begin, Continue
    <2>3. onLoop' # None => loop' \in {"outside", "handler"}
      BY <2>1, <2>2 DEF WakeInv, UserCode
    <2>4. Overtaken' => onLoop = None
      BY <2>1 DEF Overtaken, WakeInv
    <2>5. QED BY <1>3, <2>3, <2>4, WakeThreads
  <1>4. CASE Drive
    <2>1. onLoop' = None
      BY <1>4
      DEF Drive, LoopStep, Enter, TestWork, HandlerReturns, ReadEarliest, Acquire, PublishedAll,
          ConsumeNothing, Consume, FinishCurrent, TakeReadyTimers, PublishReady
    <2>2. QED BY <1>4, <2>1, WakeDrive
  <1>5. QED BY <1>1, <1>2, <1>3, <1>4 DEF Next
-----------------------------------------------------------------------------

LEMMA LoopInit ==
    ASSUME Init
    PROVE  LoopInv
  <1> USE DEF Init
  <1>1. Enqueued = {}
    BY DEF Enqueued, ToSet
  <1>2. Protocol!OpTypes
    BY <1>1
    DEF Protocol!OpInit, Protocol!OpTypes, Protocol!Phases, Protocol!StartLabels,
        Protocol!CancelLabels, Protocol!BackendLabels, Protocol!Outcomes
  <1>3. TypeOK
    BY <1>2, LoopAssumption DEF TypeOK, LoopLabels
  <1>4. Proved!OpInv
    <2>1. Posts \subseteq Ops
      BY DEF Ops
    <2>2. QED BY <2>1, SameProtocol, Proved!InvInit
  <1>5. QueueInv
    BY DEF QueueInv, ToSet
  <1>6. TimerInv
    BY DEF TimerInv, Protocol!OpInit, Ops
  <1>7. WorkInv
    <2>1. Counted = {}
      BY DEF Counted, Protocol!OpInit
    <2>2. QED BY <2>1, FS_EmptySet DEF WorkInv
  <1>8. WakeInv
    BY DEF WakeInv
  <1>9. QED BY <1>3, <1>4, <1>5, <1>6, <1>7, <1>8 DEF LoopInv

LEMMA LoopNext ==
    ASSUME LoopInv, [Next]_vars
    PROVE  LoopInv'
  <1>1. Proved!OpInv' /\ Protocol!OpTypes'
    BY OpInvNext DEF LoopInv
  <1>2. TypeOK'
    <2>1. CASE UNCHANGED vars
      BY <1>1, <2>1 DEF vars, timerVars, ctxVars, frameVars, LoopInv, TypeOK
    <2>2. CASE ContextStop \/ ContextWakeup \/ GuardTake \/ GuardWakeup \/ Tick
      BY <1>1, <2>2, LoopAssumption
      DEF ContextStop, ContextWakeup, GuardTake, GuardWakeup, Tick, timerVars, frameVars,
          LoopInv, TypeOK
    <2>3. CASE GuardDrop
      <3>1. work' \in Nat
        <4>1. Cardinality(Counted) \in Nat
          BY FS_CardinalityType DEF LoopInv, WorkInv
        <4>2. QED BY <2>3, <4>1 DEF GuardDrop, LoopInv, WorkInv
      <3>2. QED BY <1>1, <2>3, <3>1 DEF GuardDrop, timerVars, frameVars, LoopInv, TypeOK
    <2>4. QED BY <1>1, <2>1, <2>2, <2>3, ThreadTypes, DriveTypes DEF Next
  <1>3. QED BY <1>1, <1>2, QueueNext, TimerNext, WorkNext, WakeNext DEF LoopInv

THEOREM LoopInvariance == Spec => []LoopInv
  <1>1. Init => LoopInv
    BY LoopInit
  <1>2. LoopInv /\ [Next]_vars => LoopInv'
    BY LoopNext
  <1>3. QED BY <1>1, <1>2, PTL DEF Spec

\* The state is well typed, and a sleep completes with a value only when its
\* deadline has passed (take_ready_timers()).
THEOREM NoTimerIsEarly == Spec => []TimersAreSound
  <1>1. LoopInv => TimersAreSound
    BY DEF LoopInv, TimerInv, TimersAreSound, NeverEarly
  <1>2. QED BY <1>1, LoopInvariance, PTL

\* work_started() and work_finished() are paired, whichever path an operation
\* takes to its completion.
THEOREM WorkCountIsExact == Spec => []WorkIsBalanced
  <1>1. LoopInv => WorkIsBalanced
    BY DEF LoopInv, WorkInv, Counted, WorkIsBalanced
  <1>2. QED BY <1>1, LoopInvariance, PTL

\* When the loop is blocked in sema_.acquire() with a reason to go on, a thread
\* is on its way into wakeup_consumer().
THEOREM NoWakeupIsLost == Spec => []WakeupNotLost
  <1>1. LoopInv => WakeupNotLost
    BY DEF LoopInv, WakeInv, Woken, WakeupNotLost
  <1>2. QED BY <1>1, LoopInvariance, PTL

\* The loop, its heap and its queue put every operation through the phase
\* protocol of operation_state.
THEOREM LoopFollowsProtocol == Spec => FollowsProtocol
  <1>1. Init => Protocol!OpInit
    BY DEF Init
  <1>2. LoopInv /\ [Next]_vars => [Protocol!OpNext]_(Protocol!opVars)
    BY ProtocolStep DEF LoopInv
  <1>3. QED BY <1>1, <1>2, LoopInvariance, PTL DEF Spec, FollowsProtocol, Protocol!OpSpec

\* Hence what is proved of the protocol holds of the operations of a loop: each
\* is posted once, left alone after its delivery, not lost between the threads
\* that publish it, and delivered once, stopped only on request.
THEOREM LoopKeepsPromises ==
    Spec =>
        /\ [](Proved!PostedOnce /\ Proved!NoUseAfterDelivery /\ Proved!CompletionNotLost)
        /\ Proved!ImplementsContract
  <1>1. Posts \subseteq Ops
    BY DEF Ops
  <1>2. Spec => Proved!OpSpec
    <2>1. Init => Proved!OpInit
      BY SameProtocol DEF Init
    <2>2. LoopInv /\ [Next]_vars => [Proved!OpNext]_(Proved!opVars)
      BY ProtocolStep, SameProtocol DEF LoopInv
    <2>3. QED BY <2>1, <2>2, LoopInvariance, PTL DEF Spec, Proved!OpSpec
  <1>3. Proved!OpSpec => []Proved!PostedOnce
    BY <1>1, Proved!PostsOnce
  <1>4. Proved!OpSpec => []Proved!NoUseAfterDelivery
    BY <1>1, Proved!DeliveryIsFinal
  <1>5. Proved!OpSpec => []Proved!CompletionNotLost
    BY <1>1, Proved!NothingIsLost
  <1>6. Proved!OpSpec => Proved!ImplementsContract
    BY <1>1, Proved!Implements
  <1>7. QED BY <1>2, <1>3, <1>4, <1>5, <1>6, PTL

-----------------------------------------------------------------------------
(***************************************************************************)
(* TimerQueue, the heap that the loop's timers are pending in, for any     *)
(* number of timers and any deadlines.  The invariant says how the links   *)
(* of a timer hang together (Forest); that neither prev nor sibling leads  *)
(* in a circle cannot be told from any link alone, so it says that every   *)
(* set of timers has a member whose link leads out of it.                  *)
(***************************************************************************)

\* The links of a timer, and of all.
Node == [prev : Timers \cup {Null}, child : Timers \cup {Null}, sibling : Timers \cup {Null}]
Heaps == [Timers -> Node]

\* The timers S are trees whose roots are R, where par is the parent of every
\* other: the links between them go both ways, no parent is later than its
\* child, and neither prev nor sibling leads in a circle.
Forest(h, d, S, R, par) ==
    /\ R \subseteq S /\ S \subseteq Timers
    /\ \A t \in R : h[t].prev = Null /\ h[t].sibling = Null
    /\ \A t \in S \ R :
          /\ h[t].prev \in S
          /\ \/ h[h[t].prev].child = t /\ par[t] = h[t].prev
             \/ h[h[t].prev].sibling = t /\ par[t] = par[h[t].prev]
          /\ par[t] \in S /\ d[par[t]] <= d[t]
    /\ \A t \in S : h[t].child # Null =>
          /\ h[t].child \in S \ R /\ h[h[t].child].prev = t /\ h[t].sibling # h[t].child
    /\ \A t \in S : h[t].sibling # Null => h[t].sibling \in S \ R /\ h[h[t].sibling].prev = t
    /\ \A X \in SUBSET S : X # {} => \E t \in X : t \in R \/ h[t].prev \notin X
    /\ \A X \in SUBSET S : X # {} => \E t \in X : h[t].sibling \notin X

\* What meld() writes, where top and low are the two roots.
Melded(h, d, a, b, m, top, low) ==
    /\ {top, low} = {a, b} /\ top # low /\ d[top] <= d[low]
    /\ m.root = top /\ m.links \in Heaps
    /\ m.root = b <=> d[b] < d[a]
    /\ \A t \in Timers :
          /\ m.links[t].prev = IF t = low THEN top
                               ELSE IF t = h[top].child /\ t # top THEN low ELSE h[t].prev
          /\ m.links[t].child = IF t = top THEN low ELSE h[t].child
          /\ m.links[t].sibling = IF t = low THEN h[top].child ELSE h[t].sibling
          /\ t \notin {top, low, h[top].child} => m.links[t] = h[t]

\* meld() writes that.
LEMMA MeldIs ==
    ASSUME NEW h \in Heaps, NEW d \in [Timers -> Nat], NEW a \in Timers, NEW b \in Timers, a # b
    PROVE  /\ \E top, low \in Timers : Melded(h, d, a, b, Meld(h, d, a, b), top, low)
           /\ Meld(h, d, a, b) \in [links : Heaps, root : Timers]
  <1> DEFINE top == IF d[b] < d[a] THEN b ELSE a
             low == IF d[b] < d[a] THEN a ELSE b
             new(t) == CASE t = low -> [h[t] EXCEPT !.prev = top, !.sibling = h[top].child]
                         [] t = top -> [h[t] EXCEPT !.child = low]
                         [] t = h[top].child /\ t \notin {low, top} -> [h[t] EXCEPT !.prev = low]
                         [] OTHER -> h[t]
             m == Meld(h, d, a, b)
  <1>1. /\ {top, low} = {a, b} /\ top # low /\ d[top] <= d[low] /\ top \in Timers /\ low \in Timers
        /\ top = b <=> d[b] < d[a]
    OBVIOUS
  <1>2. m = [root |-> top, links |-> [t \in Timers |-> new(t)]]
    BY DEF Meld
  <1> HIDE DEF top, low
  <1>3. ASSUME NEW t \in Timers
        PROVE  /\ new(t) \in Node
               /\ new(t).prev = IF t = low THEN top
                               ELSE IF t = h[top].child /\ t # top THEN low ELSE h[t].prev
               /\ new(t).child = IF t = top THEN low ELSE h[t].child
               /\ new(t).sibling = IF t = low THEN h[top].child ELSE h[t].sibling
               /\ t \notin {top, low, h[top].child} => new(t) = h[t]
    <2>1. h[t] \in Node /\ h[top] \in Node
      BY <1>1 DEF Heaps
    <2>2. CASE t = low
      BY <1>1, <2>1, <2>2 DEF Node
    <2>3. CASE t = top
      BY <1>1, <2>1, <2>3 DEF Node
    <2>4. CASE t = h[top].child /\ t \notin {low, top}
      BY <1>1, <2>1, <2>4 DEF Node
    <2>5. CASE t \notin {top, low, h[top].child}
      BY <1>1, <2>1, <2>5 DEF Node
    <2>6. QED BY <2>2, <2>3, <2>4, <2>5
  <1> HIDE DEF new
  <1>4. m.links \in Heaps /\ m.root = top
    BY <1>2, <1>3 DEF Heaps
  <1>5. \A t \in Timers : m.links[t] = new(t)
    BY <1>2
  <1>6. Melded(h, d, a, b, m, top, low)
    <2> HIDE DEF m
    <2>1. QED BY <1>1, <1>3, <1>4, <1>5 DEF Melded
  <1>7. m \in [links : Heaps, root : Timers]
    BY <1>1, <1>2, <1>4
  <1>8. QED BY <1>1, <1>6, <1>7

\* Two trees become one, in which the root that came first is the first child.
LEMMA MeldKeeps ==
    ASSUME TimerAssumption,
           NEW h \in Heaps, NEW d \in [Timers -> Nat], NEW S, NEW R,
           NEW par \in [Timers -> Timers \cup {Null}], Forest(h, d, S, R, par),
           NEW a \in R, NEW b \in R, NEW m, NEW top \in Timers, NEW low \in Timers,
           Melded(h, d, a, b, m, top, low)
    PROVE  Forest(m.links, d, S, R \ {low}, [par EXCEPT ![low] = top])
  <1> DEFINE g == m.links
             q == [par EXCEPT ![low] = top]
             old == h[top].child
  <1>1. /\ top \in R /\ low \in R /\ top # low /\ d[top] <= d[low]
        /\ R \subseteq S /\ S \subseteq Timers /\ Null \notin Timers
        /\ h[top].prev = Null /\ h[top].sibling = Null /\ h[low].prev = Null /\ h[low].sibling = Null
    <2>1. top \in R /\ low \in R /\ top # low /\ d[top] <= d[low]
      BY DEF Melded
    <2>2. R \subseteq S /\ S \subseteq Timers /\ \A t \in R : h[t].prev = Null /\ h[t].sibling = Null
      BY DEF Forest
    <2>3. QED BY <2>1, <2>2, TimerAssumption
  <1>2. /\ old \in Timers \cup {Null} /\ old \notin R
        /\ old # Null => old \in S \ R /\ h[old].prev = top
    BY <1>1 DEF Forest, Heaps, Node
  <1>3. ASSUME NEW t \in Timers
        PROVE  /\ g[t].prev = IF t = low THEN top ELSE IF t = old THEN low ELSE h[t].prev
               /\ g[t].child = IF t = top THEN low ELSE h[t].child
               /\ g[t].sibling = IF t = low THEN old ELSE h[t].sibling
               /\ q[t] = IF t = low THEN top ELSE par[t]
    BY <1>1, <1>2 DEF Melded
  <1>4. /\ \A t \in R : h[t].prev = Null /\ h[t].sibling = Null
        /\ \A t \in S \ R :
              /\ h[t].prev \in S
              /\ \/ h[h[t].prev].child = t /\ par[t] = h[t].prev
                 \/ h[h[t].prev].sibling = t /\ par[t] = par[h[t].prev]
              /\ par[t] \in S /\ d[par[t]] <= d[t]
        /\ \A t \in S : h[t].child # Null =>
              /\ h[t].child \in S \ R /\ h[h[t].child].prev = t /\ h[t].sibling # h[t].child
        /\ \A t \in S : h[t].sibling # Null => h[t].sibling \in S \ R /\ h[h[t].sibling].prev = t
    BY DEF Forest
  <1>5. /\ \A X \in SUBSET S : X # {} => \E t \in X : t \in R \/ h[t].prev \notin X
        /\ \A X \in SUBSET S : X # {} => \E t \in X : h[t].sibling \notin X
    BY DEF Forest
  <1> HIDE DEF g, q, old
  <1>6. \A t \in R \ {low} : g[t].prev = Null /\ g[t].sibling = Null
    BY <1>1, <1>2, <1>3, <1>4
  <1>7. ASSUME NEW t \in S \ (R \ {low})
        PROVE  /\ g[t].prev \in S
               /\ \/ g[g[t].prev].child = t /\ q[t] = g[t].prev
                  \/ g[g[t].prev].sibling = t /\ q[t] = q[g[t].prev]
               /\ q[t] \in S /\ d[q[t]] <= d[t]
    <2>1. CASE t = low
      BY <1>1, <1>3, <2>1
    <2>2. CASE t = old
      <3>1. t \in S \ R /\ h[t].prev = top /\ g[t].prev = low /\ g[low].sibling = t /\ q[low] = top
        BY <1>1, <1>2, <1>3, <2>2
      <3>2. par[t] = top
        BY <1>1, <1>4, <3>1
      <3>3. QED BY <1>1, <1>3, <1>4, <3>1, <3>2
    <2>3. CASE t \notin {low, old}
      <3>1. t \in S \ R /\ g[t].prev = h[t].prev /\ q[t] = par[t] /\ h[t].prev \in S
        BY <1>1, <1>3, <1>4, <2>3
      <3>2. h[h[t].prev].child = t => h[t].prev # top
        BY <2>3 DEF old
      <3>3. h[h[t].prev].sibling = t => h[t].prev # low
        BY <1>1, <3>1
      <3>4. QED BY <1>1, <1>3, <1>4, <3>1, <3>2, <3>3
    <2>4. QED BY <2>1, <2>2, <2>3
  <1>8. ASSUME NEW t \in S, g[t].child # Null
        PROVE  /\ g[t].child \in S \ (R \ {low}) /\ g[g[t].child].prev = t /\ g[t].sibling # g[t].child
    <2>1. CASE t = top
      BY <1>1, <1>3, <2>1
    <2>2. CASE t # top
      <3>1. g[t].child = h[t].child /\ h[t].child \in S \ R /\ h[h[t].child].prev = t
        BY <1>1, <1>3, <1>4, <1>8, <2>2
      <3>2. h[t].child # old /\ h[t].child # low
        BY <1>1, <1>2, <2>2, <3>1
      <3>3. QED BY <1>1, <1>3, <1>4, <3>1, <3>2
    <2>3. QED BY <2>1, <2>2
  <1>9. ASSUME NEW t \in S, g[t].sibling # Null
        PROVE  g[t].sibling \in S \ (R \ {low}) /\ g[g[t].sibling].prev = t
    <2>1. CASE t = low
      BY <1>1, <1>2, <1>3, <1>9, <2>1
    <2>2. CASE t # low
      <3>1. g[t].sibling = h[t].sibling /\ h[t].sibling \in S \ R /\ h[h[t].sibling].prev = t
        BY <1>1, <1>3, <1>4, <1>9, <2>2
      <3>2. h[t].sibling # old /\ h[t].sibling # low
        BY <1>1, <1>2, <1>4, <1>9, <3>1
      <3>3. QED BY <1>1, <1>3, <3>1, <3>2
    <2>3. QED BY <2>1, <2>2
  <1>10. ASSUME NEW X \in SUBSET S, X # {}
         PROVE  \E t \in X : t \in R \ {low} \/ g[t].prev \notin X
    <2>1. PICK t \in X : t \in R \/ h[t].prev \notin X
      BY <1>5, <1>10
    <2>2. CASE top \in X
      BY <1>1, <2>2
    <2>3. CASE top \notin X /\ low \in X
      BY <1>1, <1>3, <2>3
    <2>4. CASE top \notin X /\ low \notin X
      BY <1>1, <1>3, <2>1, <2>4
    <2>5. QED BY <2>2, <2>3, <2>4
  <1>11. ASSUME NEW X \in SUBSET S, X # {}
         PROVE  \E t \in X : g[t].sibling \notin X
    <2>1. CASE low \in X /\ old \in X
      <3>1. X \ {low} # {}
        BY <1>1, <1>2, <2>1
      <3>2. PICK t \in X \ {low} : h[t].sibling \notin X \ {low}
        BY <1>5, <3>1
      <3>3. h[t].sibling # low
        BY <1>1, <1>4, <3>2
      <3>4. QED BY <1>1, <1>3, <3>2, <3>3
    <2>2. CASE low \in X /\ old \notin X
      BY <1>1, <1>3, <2>2
    <2>3. CASE low \notin X
      <3>1. PICK t \in X : h[t].sibling \notin X
        BY <1>5, <1>11
      <3>2. QED BY <1>1, <1>3, <2>3, <3>1
    <2>4. QED BY <2>1, <2>2, <2>3
  <1>12. QED BY <1>1, <1>6, <1>7, <1>8, <1>9, <1>10, <1>11 DEF Forest, g, q

\* The children of a timer.
Children(S, R, par, op) == {t \in S \ R : par[t] = op}

\* What is left when op is taken out and its children have become roots: h is
\* the heap it was in, and g has the links of unlink() and of the cut.
CutOut(h, g, S, R, par, op) ==
    /\ \A t \in S \ {op} :
          IF t \in Children(S, R, par, op)
          THEN g[t].prev = Null /\ g[t].sibling = Null
          ELSE /\ g[t].prev = IF h[t].prev = op THEN h[op].prev ELSE h[t].prev
               /\ g[t].sibling = IF h[t].sibling = op THEN h[op].sibling ELSE h[t].sibling
    /\ \A t \in S \ {op} : g[t].child = IF h[t].child = op THEN h[op].sibling ELSE h[t].child

\* Nobody is a child of one of its children.
LEMMA NoCircle ==
    ASSUME TimerAssumption,
           NEW h \in Heaps, NEW d \in [Timers -> Nat], NEW S, NEW R,
           NEW par \in [Timers -> Timers \cup {Null}], Forest(h, d, S, R, par),
           NEW op \in S
    PROVE  /\ op \notin Children(S, R, par, op)
           /\ h[op].sibling # op /\ h[op].prev # op
           /\ h[op].prev \notin Children(S, R, par, op)
  <1> DEFINE K == Children(S, R, par, op)
  <1>0. op \in Timers /\ Null \notin Timers
    BY DEF Forest, TimerAssumption
  <1>1. /\ \A t \in R : h[t].prev = Null /\ h[t].sibling = Null
        /\ \A t \in S \ R :
              /\ h[t].prev \in S
              /\ \/ h[h[t].prev].child = t /\ par[t] = h[t].prev
                 \/ h[h[t].prev].sibling = t /\ par[t] = par[h[t].prev]
        /\ \A t \in S : h[t].sibling # Null => h[t].sibling \in S \ R /\ h[h[t].sibling].prev = t
        /\ \A X \in SUBSET S : X # {} => \E t \in X : t \in R \/ h[t].prev \notin X
    BY DEF Forest
  <1>2. ASSUME NEW k \in K PROVE h[k].prev \in K \cup {op}
    <2>1. k \in S \ R /\ par[k] = op
      BY DEF Children
    <2>2. CASE par[k] = h[k].prev
      BY <2>1, <2>2
    <2>3. CASE h[h[k].prev].sibling = k /\ par[k] = par[h[k].prev]
      <3>1. h[k].prev \in S /\ h[k].prev \notin R
        BY <1>0, <1>1, <2>1, <2>3 DEF Forest
      <3>2. QED BY <2>1, <2>3, <3>1 DEF Children
    <2>4. QED BY <1>1, <2>1, <2>2, <2>3
  <1>3. ASSUME op \notin R, h[op].prev \in K \cup {op} PROVE FALSE
    <2>1. K \cup {op} \in SUBSET S
      BY DEF Children
    <2>2. PICK t \in K \cup {op} : t \in R \/ h[t].prev \notin K \cup {op}
      BY <1>1, <2>1
    <2>3. QED BY <1>2, <1>3, <2>2 DEF Children
  <1>4. op \in K => h[op].prev \in K \cup {op}
    BY <1>2
  <1>5. op \in R => op \notin K /\ h[op].prev = Null
    BY <1>1 DEF Children
  <1>6. Null \notin K /\ Null # op
    BY <1>0 DEF Children, Forest
  <1>7. h[op].sibling = op => op \notin R /\ h[op].prev = op
    BY <1>0, <1>1
  <1>8. op \notin K /\ h[op].prev # op /\ h[op].prev \notin K
    BY <1>3, <1>4, <1>5, <1>6
  <1>9. QED BY <1>7, <1>8

\* What is left are trees.
LEMMA CutKeeps ==
    ASSUME TimerAssumption,
           NEW h \in Heaps, NEW d \in [Timers -> Nat], NEW S, NEW R,
           NEW par \in [Timers -> Timers \cup {Null}], Forest(h, d, S, R, par),
           NEW op \in S, NEW g \in Heaps, CutOut(h, g, S, R, par, op)
    PROVE  Forest(g, d, S \ {op}, (R \ {op}) \cup Children(S, R, par, op), par)
  <1> DEFINE K == Children(S, R, par, op)
             B == (R \ {op}) \cup K
             q == h[op].prev
             s == h[op].sibling
  <1>1. /\ R \subseteq S /\ S \subseteq Timers /\ op \in Timers /\ Null \notin Timers
        /\ K \subseteq S \ R /\ op \notin K /\ s # op /\ q # op /\ q \notin K
    <2>1. R \subseteq S /\ S \subseteq Timers /\ op \in Timers /\ Null \notin Timers
      BY DEF Forest, TimerAssumption
    <2>2. K \subseteq S \ R
      BY DEF Children
    <2>3. QED BY <2>1, <2>2, NoCircle
  <1>2. \A t \in S \ R : t \in K <=> par[t] = op
    BY DEF Children
  <1>3. ASSUME NEW t \in S \ {op}
        PROVE  /\ t \in K => g[t].prev = Null /\ g[t].sibling = Null
               /\ t \notin K => /\ g[t].prev = IF h[t].prev = op THEN q ELSE h[t].prev
                                /\ g[t].sibling = IF h[t].sibling = op THEN s ELSE h[t].sibling
               /\ g[t].child = IF h[t].child = op THEN s ELSE h[t].child
    BY DEF CutOut
  <1>4. /\ \A t \in R : h[t].prev = Null /\ h[t].sibling = Null
        /\ \A t \in S \ R :
              /\ h[t].prev \in S
              /\ \/ h[h[t].prev].child = t /\ par[t] = h[t].prev
                 \/ h[h[t].prev].sibling = t /\ par[t] = par[h[t].prev]
              /\ par[t] \in S /\ d[par[t]] <= d[t]
        /\ \A t \in S : h[t].child # Null =>
              /\ h[t].child \in S \ R /\ h[h[t].child].prev = t /\ h[t].sibling # h[t].child
        /\ \A t \in S : h[t].sibling # Null => h[t].sibling \in S \ R /\ h[h[t].sibling].prev = t
    BY DEF Forest
  <1>5. /\ \A X \in SUBSET S : X # {} => \E t \in X : t \in R \/ h[t].prev \notin X
        /\ \A X \in SUBSET S : X # {} => \E t \in X : h[t].sibling \notin X
    BY DEF Forest
  <1> HIDE DEF K, q, s
  \* A child of a timer other than op, and whoever is linked as a sibling.
  <1>6. /\ \A t \in S \ R : h[h[t].prev].sibling = t => h[t].prev \notin R /\ par[t] = par[h[t].prev]
        /\ \A t \in S \ R : h[h[t].prev].child = t => par[t] = h[t].prev
    BY <1>1, <1>4
  <1>7. /\ s # Null => s \in S \ R /\ s # op /\ h[s].prev = op /\ par[s] = par[op] /\ op \notin R /\ s \notin K
        /\ op \notin R => /\ q \in S /\ q # op
                          /\ \/ h[q].child = op /\ par[op] = q
                             \/ h[q].sibling = op /\ q \notin R /\ par[op] = par[q]
    BY <1>1, <1>2, <1>4, <1>6 DEF q, s
  <1>8. \A t \in S : /\ h[t].child = op => t = q
                     /\ h[t].sibling = op => t = q
                     /\ h[t].child = s /\ s # Null => FALSE
                     /\ h[t].sibling = s /\ s # Null => t = op
    BY <1>1, <1>4, <1>7 DEF q, s
  <1>9. \A t \in B : g[t].prev = Null /\ g[t].sibling = Null
    BY <1>1, <1>3, <1>4
  <1>10. ASSUME NEW t \in (S \ {op}) \ B
         PROVE  /\ g[t].prev \in S \ {op}
                /\ \/ g[g[t].prev].child = t /\ par[t] = g[t].prev
                   \/ g[g[t].prev].sibling = t /\ par[t] = par[g[t].prev]
                /\ par[t] \in S \ {op} /\ d[par[t]] <= d[t]
    <2>1. t \in S \ R /\ t # op /\ t \notin K /\ par[t] # op
      BY <1>2, <1>10
    <2>2. CASE h[t].prev = op
      <3>1. t = s /\ g[t].prev = q
        BY <1>1, <1>3, <1>4, <2>1, <2>2 DEF s
      <3>2. s # Null /\ q \in S \ {op} /\ q \notin K
        BY <1>1, <1>7, <2>1, <3>1
      <3>3. QED BY <1>1, <1>3, <1>4, <1>6, <1>7, <2>1, <3>1, <3>2
    <2>3. CASE h[t].prev # op
      <3>1. g[t].prev = h[t].prev /\ h[t].prev \in S \ {op}
        BY <1>3, <1>4, <2>1, <2>3
      <3>2. h[h[t].prev].child = t => g[h[t].prev].child = t
        BY <1>3, <1>8, <2>1, <3>1
      <3>3. h[h[t].prev].sibling = t => g[h[t].prev].sibling = t
        BY <1>2, <1>3, <1>4, <1>6, <2>1, <3>1
      <3>4. QED BY <1>1, <1>4, <1>6, <2>1, <3>1, <3>2, <3>3
    <2>4. QED BY <2>2, <2>3
  <1>11. ASSUME NEW t \in S \ {op}, g[t].child # Null
         PROVE  /\ g[t].child \in (S \ {op}) \ B /\ g[g[t].child].prev = t /\ g[t].sibling # g[t].child
    <2>1. CASE h[t].child = op
      <3>1. t = q /\ g[t].child = s /\ s # Null /\ s \in (S \ {op}) \ B
        BY <1>1, <1>3, <1>7, <1>8, <1>11, <2>1
      <3>2. g[s].prev = q
        BY <1>3, <1>7, <3>1
      <3>3. h[t].sibling # s /\ h[t].sibling # op
        BY <1>1, <1>4, <1>8, <2>1, <3>1
      <3>4. QED BY <1>1, <1>3, <2>1, <3>1, <3>2, <3>3
    <2>2. CASE h[t].child # op
      <3>1. g[t].child = h[t].child /\ h[t].child \in S \ R /\ h[h[t].child].prev = t /\ h[t].sibling # h[t].child
        BY <1>3, <1>4, <1>11, <2>2
      <3>2. h[t].child \notin K
        BY <1>2, <1>6, <3>1
      <3>3. g[t].sibling # h[t].child
        BY <1>1, <1>3, <1>4, <1>8, <3>1, <3>2
      <3>4. QED BY <1>1, <1>3, <2>2, <3>1, <3>2, <3>3
    <2>3. QED BY <2>1, <2>2
  <1>12. ASSUME NEW t \in S \ {op}, g[t].sibling # Null
         PROVE  g[t].sibling \in (S \ {op}) \ B /\ g[g[t].sibling].prev = t
    <2>1. t \notin K
      BY <1>3, <1>12
    <2>2. CASE h[t].sibling = op
      <3>1. t = q /\ g[t].sibling = s /\ s # Null /\ s \in (S \ {op}) \ B
        BY <1>1, <1>3, <1>7, <1>8, <1>12, <2>1, <2>2
      <3>2. QED BY <1>3, <1>7, <3>1
    <2>3. CASE h[t].sibling # op
      <3>1. g[t].sibling = h[t].sibling /\ h[t].sibling \in S \ R /\ h[h[t].sibling].prev = t
        BY <1>3, <1>4, <1>12, <2>1, <2>3
      <3>2. h[t].sibling \notin K
        BY <1>1, <1>2, <1>4, <1>6, <2>1, <3>1
      <3>3. QED BY <1>1, <1>3, <2>3, <3>1, <3>2
    <2>4. QED BY <2>2, <2>3
  <1>13. ASSUME NEW X \in SUBSET (S \ {op}), X # {}
         PROVE  \E t \in X : t \in B \/ g[t].prev \notin X
    <2>1. CASE s \in X /\ q \in X
      <3>1. X \cup {op} \in SUBSET S /\ s # Null
        BY <1>1, <1>13, <2>1
      <3>2. PICK t \in X \cup {op} : t \in R \/ h[t].prev \notin X \cup {op}
        BY <1>5, <3>1
      <3>3. t # op
        BY <1>7, <2>1, <3>1, <3>2 DEF q
      <3>4. QED BY <1>3, <3>2, <3>3
    <2>2. CASE ~(s \in X /\ q \in X)
      <3>1. PICK t \in X : t \in R \/ h[t].prev \notin X
        BY <1>5, <1>13
      <3>2. CASE t \in R \/ t \in K
        BY <3>2
      <3>3. CASE t \notin R /\ t \notin K /\ h[t].prev = op
        <4>1. t = s
          BY <1>2, <1>4, <1>6, <3>3 DEF s
        <4>2. QED BY <1>3, <2>2, <3>3, <4>1
      <3>4. CASE t \notin R /\ t \notin K /\ h[t].prev # op
        BY <1>3, <3>1, <3>4
      <3>5. QED BY <3>2, <3>3, <3>4
    <2>3. QED BY <2>1, <2>2
  <1>14. ASSUME NEW X \in SUBSET (S \ {op}), X # {}
         PROVE  \E t \in X : g[t].sibling \notin X
    <2>1. CASE s \in X
      <3>1. X \cup {op} \in SUBSET S
        BY <1>1, <1>14
      <3>2. PICK t \in X \cup {op} : h[t].sibling \notin X \cup {op}
        BY <1>5, <3>1
      <3>3. t # op
        BY <2>1, <3>2 DEF s
      <3>4. Null \notin X
        BY <1>1, <1>14
      <3>5. QED BY <1>3, <3>2, <3>3, <3>4
    <2>2. CASE s \notin X
      <3>1. PICK t \in X : h[t].sibling \notin X
        BY <1>5, <1>14
      <3>2. Null \notin X
        BY <1>1, <1>14
      <3>3. QED BY <1>3, <2>2, <3>1, <3>2
    <2>3. QED BY <2>1, <2>2
  <1>15. B \subseteq S \ {op} /\ S \ {op} \subseteq Timers
    BY <1>1
  <1> HIDE DEF B
  <1>16. Forest(g, d, S \ {op}, B, par)
    BY <1>9, <1>10, <1>11, <1>12, <1>13, <1>14, <1>15 DEF Forest
  <1>17. QED BY <1>16 DEF B, K

\* A child list ends, because sibling links do not go in a circle.
LEMMA SiblingsLead ==
    ASSUME TimerAssumption,
           NEW h \in Heaps, NEW d \in [Timers -> Nat], NEW S, NEW R,
           NEW par \in [Timers -> Timers \cup {Null}], Forest(h, d, S, R, par),
           NEW x, x = [t \in Timers |-> h[t].sibling],
           NEW first \in S
    PROVE  \E s : Leads(first, s, x, Null)
  <1> DEFINE Ends(t) == \E s : Leads(t, s, x, Null)
             X == {t \in S : ~Ends(t)}
  <1>1. SUFFICES ASSUME X # {} PROVE FALSE
    OBVIOUS
  <1>2. X \in SUBSET S /\ S \subseteq Timers /\ DOMAIN x = Timers /\ Null \notin DOMAIN x
    BY DEF Forest, TimerAssumption
  <1>3. PICK t \in X : h[t].sibling \notin X
    <2> HIDE DEF X
    <2>1. QED BY <1>1, <1>2 DEF Forest
  <1>4. t \in S /\ t \in Timers /\ ~Ends(t) /\ x[t] = h[t].sibling
    BY <1>2, <1>3
  <1>5. Ends(h[t].sibling)
    <2>1. CASE h[t].sibling = Null
      <3>1. Leads(Null, <<>>, x, Null)
        BY <1>2, LeadsNowhere
      <3>2. QED BY <2>1, <3>1
    <2>2. CASE h[t].sibling # Null
      <3>1. h[t].sibling \in S
        BY <1>4, <2>2 DEF Forest
      <3>2. QED BY <1>3, <3>1
    <2>3. QED BY <2>1, <2>2
  <1>6. PICK s : Leads(h[t].sibling, s, x, Null)
    BY <1>5
  <1>7. ~Holds(s, t)
    <2> SUFFICES ASSUME NEW k \in 1..Len(s), s[k] = t PROVE FALSE
      BY DEF Holds
    <2>1. \E e : Leads(s[k], e, x, Null)
      BY <1>6, LeadsOn
    <2>2. QED BY <1>4, <2>1
  <1>8. Leads(t, <<t>> \o s, x, Null)
    BY <1>2, <1>4, <1>6, <1>7, LeadsPush
  <1>9. QED BY <1>4, <1>8

\* The child list of op holds exactly its children, and none of them twice.
LEMMA SiblingsAre ==
    ASSUME TimerAssumption,
           NEW h \in Heaps, NEW d \in [Timers -> Nat], NEW S, NEW R,
           NEW par \in [Timers -> Timers \cup {Null}], Forest(h, d, S, R, par),
           NEW op \in S, NEW first, first = h[op].child, first # Null,
           NEW list, list = Siblings(h, first)
    PROVE  /\ list \in Seq(Timers) /\ Len(list) \in Nat \ {0}
           /\ \A i, j \in 1..Len(list) : list[i] = list[j] => i = j
           /\ {list[i] : i \in 1..Len(list)} = Children(S, R, par, op)
  <1> DEFINE x == [t \in Timers |-> h[t].sibling]
             K == Children(S, R, par, op)
  <1>1. /\ first \in S \ R /\ S \subseteq Timers /\ h[first].prev = op /\ DOMAIN x = Timers
        /\ IsFiniteSet(Timers) /\ Null \notin Timers /\ op \in Timers
    BY DEF Forest, TimerAssumption
  <1>2. /\ \A t \in R : h[t].prev = Null /\ h[t].sibling = Null
        /\ \A t \in S \ R :
              /\ h[t].prev \in S
              /\ \/ h[h[t].prev].child = t /\ par[t] = h[t].prev
                 \/ h[h[t].prev].sibling = t /\ par[t] = par[h[t].prev]
        /\ \A t \in S : h[t].child # Null => h[t].sibling # h[t].child
        /\ \A t \in S : h[t].sibling # Null => h[t].sibling \in S \ R /\ h[h[t].sibling].prev = t
        /\ \A X \in SUBSET S : X # {} => \E t \in X : t \in R \/ h[t].prev \notin X
    BY DEF Forest
  <1>3. PICK s : Leads(first, s, x, Null)
    BY <1>1, SiblingsLead
  <1>4. s = list
    BY <1>1, <1>3, ChainIs DEF Siblings
  <1>5. /\ list \in Seq(Timers) /\ Len(list) \in Nat /\ list # <<>>
        /\ \A i, j \in 1..Len(list) : list[i] = list[j] => i = j
        /\ list[1] = first
        /\ \A i \in 1..Len(list) : /\ x[list[i]] = IF i = Len(list) THEN Null ELSE list[i + 1]
                                   /\ list[i] \in Timers
    BY <1>1, <1>3, <1>4 DEF Leads
  <1>6. Len(list) \in Nat \ {0}
    BY <1>5, EmptySeq
  <1> HIDE DEF K
  <1>7. ASSUME NEW i \in 1..Len(list) PROVE list[i] \in K
    <2> DEFINE wrong == {j \in 1..Len(list) : list[j] \notin K}
    <2>1. SUFFICES ASSUME wrong # {} PROVE FALSE
      OBVIOUS
    <2>2. PICK k \in wrong : \A l \in wrong : k <= l
      <3>1. wrong \in SUBSET Nat
        BY <1>6
      <3> HIDE DEF wrong
      <3>2. QED BY <2>1, <3>1, LeastNumber
    <2>3. first \in K
      <3>1. h[op].sibling # first
        BY <1>2
      <3>2. op \in S /\ first \in S \ R /\ h[op].child = first /\ h[first].prev = op
        BY <1>1
      <3>3. par[first] = op
        BY <1>2, <3>1, <3>2
      <3>4. QED BY <3>2, <3>3 DEF K, Children
    <2>4. k \in 1..Len(list) /\ list[k] \notin K /\ k # 1
      BY <1>5, <2>3
    <2>5. k - 1 \in 1..Len(list) /\ ~(k <= k - 1)
      BY <1>6, <2>4
    <2>51. k - 1 \notin wrong
      BY <2>2, <2>5
    <2> DEFINE j == k - 1
    <2>6. j \in 1..Len(list) /\ j # Len(list) /\ j + 1 = k /\ list[j] \in K
      BY <1>6, <2>4, <2>5, <2>51
    <2> HIDE DEF j
    <2>61. x[list[j]] = list[j + 1] /\ list[j] \in Timers
      <3> HIDE DEF x
      <3>1. QED BY <1>5, <2>6
    <2>62. h[list[j]].sibling = list[k]
      BY <2>6, <2>61
    <2>7. /\ list[j] \in S \ R /\ par[list[j]] = op
          /\ list[k] \in S \ R /\ h[list[k]].prev = list[j]
      BY <1>1, <1>2, <1>5, <2>4, <2>6, <2>62 DEF K, Children
    <2>8. h[list[j]].child # list[k]
      BY <1>1, <1>2, <2>62, <2>7
    <2>9. list[k] \in K
      BY <1>2, <2>7, <2>8 DEF K, Children
    <2>10. QED BY <2>9
  <1>8. ASSUME NEW t \in K PROVE \E i \in 1..Len(list) : list[i] = t
    <2> DEFINE X == {u \in K : ~\E i \in 1..Len(list) : list[i] = u}
    <2>1. SUFFICES ASSUME X # {} PROVE FALSE
      OBVIOUS
    <2>2. X \in SUBSET S
      BY DEF K, Children
    <2>3. PICK u \in X : u \in R \/ h[u].prev \notin X
      <3> HIDE DEF X
      <3>1. QED BY <1>2, <2>1, <2>2
    <2>4. u \in S \ R /\ par[u] = op /\ h[u].prev \in S /\ \A i \in 1..Len(list) : list[i] # u
      BY <1>2, <2>3 DEF K, Children
    <2>5. CASE h[h[u].prev].child = u /\ par[u] = h[u].prev
      <3>1. h[u].prev = op /\ h[op].child = u
        BY <2>4, <2>5
      <3>2. list[1] = u /\ 1 \in 1..Len(list)
        BY <1>5, <1>6, <3>1
      <3>3. QED BY <2>4, <3>2
    <2>6. CASE h[h[u].prev].sibling = u /\ par[u] = par[h[u].prev]
      <3>1. h[u].prev \in K
        <4>1. h[u].prev \in Timers /\ u # Null
          BY <1>1, <2>4
        <4>2. h[u].prev \notin R
          BY <1>2, <2>4, <2>6, <4>1
        <4>3. QED BY <2>4, <2>6, <4>2 DEF K, Children
      <3>2. PICK i \in 1..Len(list) : list[i] = h[u].prev
        BY <2>3, <2>4, <3>1
      <3>3. x[list[i]] = u /\ u # Null
        BY <1>1, <1>5, <2>4, <2>6, <3>2
      <3>4. i + 1 \in 1..Len(list) /\ list[i + 1] = u
        BY <1>5, <1>6, <3>3
      <3>5. QED BY <2>4, <3>4
    <2>7. QED BY <1>2, <2>4, <2>5, <2>6
  <1>9. {list[i] : i \in 1..Len(list)} = K
    BY <1>7, <1>8
  <1>10. QED BY <1>5, <1>6, <1>9 DEF K

\* The timers S are trees with the roots R.
Trees(h, d, S, R) == \E par \in [Timers -> Timers \cup {Null}] : Forest(h, d, S, R, par)

\* A heap by its links and a root, as the functions of the heap return it.
Heap == [links : Heaps, root : Timers \cup {Null}]

\* What melding the roots a and b of the trees S makes of the heap h.
OneTree(h, d, S, R, a, b, m) ==
    /\ m \in Heap /\ m.root \in {a, b} /\ (m.root = b <=> d[b] < d[a])
    /\ Trees(m.links, d, S, (R \ {a, b}) \cup {m.root})
    /\ \A t \in Timers \ S : m.links[t] = h[t]

\* meld() takes one of the roots away and writes to nobody else's links.
LEMMA MeldMakes ==
    ASSUME TimerAssumption,
           NEW h \in Heaps, NEW d \in [Timers -> Nat], NEW S, NEW R, Trees(h, d, S, R),
           NEW a \in R, NEW b \in R, a # b
    PROVE  OneTree(h, d, S, R, a, b, Meld(h, d, a, b))
  <1> DEFINE m == Meld(h, d, a, b)
  <1>1. PICK par \in [Timers -> Timers \cup {Null}] : Forest(h, d, S, R, par)
    BY DEF Trees
  <1>2. R \subseteq S /\ S \subseteq Timers /\ a \in Timers /\ b \in Timers
    BY <1>1 DEF Forest
  <1>3. m \in [links : Heaps, root : Timers]
    BY <1>2, MeldIs
  <1>4. PICK top, low \in Timers : Melded(h, d, a, b, m, top, low)
    BY <1>2, MeldIs
  <1> HIDE DEF m
  <1>5. /\ {top, low} = {a, b} /\ top # low /\ m.root = top /\ (m.root = b <=> d[b] < d[a])
    BY <1>4 DEF Melded
  <1>6. Forest(m.links, d, S, R \ {low}, [par EXCEPT ![low] = top])
    BY <1>1, <1>4, MeldKeeps
  <1>7. R \ {low} = (R \ {a, b}) \cup {m.root}
    <2>1. top \in {a, b} /\ low \in {a, b}
      BY <1>5
    <2>2. {a, b} = {top, low} /\ top \in R
      BY <1>5, <2>1
    <2>3. R \ {low} = (R \ {top, low}) \cup {top}
      BY <1>5, <2>2
    <2>4. QED BY <1>5, <2>2, <2>3
  <1>8. [par EXCEPT ![low] = top] \in [Timers -> Timers \cup {Null}]
    OBVIOUS
  <1>9. Trees(m.links, d, S, (R \ {a, b}) \cup {m.root})
    BY <1>6, <1>7, <1>8 DEF Trees
  <1>10. ASSUME NEW t \in Timers \ S PROVE m.links[t] = h[t]
    <2>1. top \in S /\ low \in S /\ h[top].child \in S \cup {Null}
      <3>1. top \in {a, b} /\ low \in {a, b}
        BY <1>5
      <3>2. \A u \in S : h[u].child # Null => h[u].child \in S
        BY <1>1 DEF Forest
      <3>3. QED BY <1>2, <3>1, <3>2
    <2>2. t \notin {top, low, h[top].child}
      BY <2>1, TimerAssumption
    <2>3. QED BY <1>4, <2>2 DEF Melded
  <1>11. m \in Heap
    BY <1>3 DEF Heap
  <1>12. OneTree(h, d, S, R, a, b, m)
    BY <1>5, <1>9, <1>10, <1>11 DEF OneTree
  <1>13. QED BY <1>12 DEF m

\* The rounds of the two passes of merge_children().
Paired(h, d, list, f, i) ==
    IF i = 0 THEN [links |-> Cut(h, list), root |-> Null]
    ELSE IF 2 * i > Len(list) THEN [f[i - 1] EXCEPT !.root = list[2 * i - 1]]
    ELSE Meld(f[i - 1].links, d, list[2 * i - 1], list[2 * i])

Joined(d, pair, last, f, i) ==
    IF i = 0 THEN pair[last]
    ELSE Meld(f[i - 1].links, d, f[i - 1].root, pair[last - i].root)

FirstPass(f, h, d, list, last) ==
    f \in [0..last -> Heap] /\ f = [i \in 0..last |-> Paired(h, d, list, f, i)]

SecondPass(f, d, pair, last) ==
    /\ f \in [0..last - 1 -> Heap]
    /\ f = [i \in 0..last - 1 |-> IF i > 0 /\ f[i - 1].root \notin Timers \ {pair[last - i].root}
                                  THEN f[i - 1] ELSE Joined(d, pair, last, f, i)]

\* The function of the first pass exists.
LEMMA PairsAre ==
    ASSUME NEW g, g \in Heaps, NEW d \in [Timers -> Nat], NEW n \in Nat \ {0},
           NEW list, list \in [1..n -> Timers], NEW last \in Nat, 2 * last <= n + 1,
           \A i, j \in 1..n : list[i] = list[j] => i = j,
           Len(list) = n, NEW h, Cut(h, list) = g
    PROVE  \E f : FirstPass(f, h, d, list, last)
  <1> DEFINE first == [links |-> g, root |-> Null]
             next(i, v) == IF 1 <= i /\ 2 * i <= n THEN Meld(v.links, d, list[2 * i - 1], list[2 * i])
                           ELSE IF 1 <= i /\ 2 * i - 1 <= n THEN [v EXCEPT !.root = list[2 * i - 1]]
                           ELSE v
             step == [y \in Nat \X Heap |-> next(y[1], y[2])]
  <1>1. first \in Heap
    BY DEF Heap
  <1>2. ASSUME NEW i \in Nat, NEW v \in Heap PROVE next(i, v) \in Heap
    <2>1. CASE 1 <= i /\ 2 * i <= n
      <3>1. 2 * i - 1 \in 1..n /\ 2 * i \in 1..n /\ 2 * i - 1 # 2 * i
        BY <2>1
      <3>2. list[2 * i - 1] \in Timers /\ list[2 * i] \in Timers /\ list[2 * i - 1] # list[2 * i]
        BY <3>1
      <3>3. Meld(v.links, d, list[2 * i - 1], list[2 * i]) \in [links : Heaps, root : Timers]
        <4>1. v.links \in Heaps
          BY DEF Heap
        <4>2. QED BY <3>2, <4>1, MeldIs
      <3>4. QED BY <2>1, <3>3 DEF Heap
    <2>2. CASE 1 <= i /\ ~(2 * i <= n) /\ 2 * i - 1 <= n
      <3>1. 2 * i - 1 \in 1..n
        BY <2>2
      <3>2. list[2 * i - 1] \in Timers
        BY <3>1
      <3>3. [v EXCEPT !.root = list[2 * i - 1]] \in Heap
        BY <3>2 DEF Heap
      <3>4. QED BY <2>2, <3>3
    <2>3. CASE ~(1 <= i /\ 2 * i <= n) /\ ~(1 <= i /\ 2 * i - 1 <= n)
      BY <2>3
    <2>4. QED BY <2>1, <2>2, <2>3
  <1>3. step \in [Nat \X Heap -> Heap]
    <2> HIDE DEF next
    <2>1. QED BY <1>2
  <1>4. PICK f \in [0..last -> Heap] : f[0] = first /\ \A i \in 1..last : f[i] = step[<<i, f[i - 1]>>]
    <2> HIDE DEF step, first
    <2>1. \E f : Loops(f, Heap, first, step, last)
      BY <1>1, <1>3, Rounds
    <2>2. QED BY <2>1 DEF Loops
  <1>5. ASSUME NEW i \in 0..last PROVE f[i] = Paired(h, d, list, f, i)
    <2>1. CASE i = 0
      BY <1>4, <2>1 DEF Paired
    <2>2. CASE i # 0
      <3>1. i \in 1..last /\ i \in Nat /\ f[i - 1] \in Heap /\ 1 <= i /\ 2 * i - 1 <= n
        BY <2>2
      <3>2. f[i] = next(i, f[i - 1])
        <4> HIDE DEF next
        <4>1. <<i, f[i - 1]>> \in Nat \X Heap
          BY <3>1
        <4>2. f[i] = step[<<i, f[i - 1]>>]
          BY <1>4, <3>1
        <4>3. QED BY <4>1, <4>2
      <3>3. CASE 2 * i <= n
        <4>1. ~(2 * i > Len(list)) /\ i # 0
          BY <2>2, <3>3
        <4>2. f[i] = Meld(f[i - 1].links, d, list[2 * i - 1], list[2 * i])
          BY <3>1, <3>2, <3>3
        <4>3. QED BY <4>1, <4>2 DEF Paired
      <3>4. CASE ~(2 * i <= n)
        <4>1. 2 * i > Len(list) /\ i # 0
          BY <2>2, <3>1, <3>4
        <4>2. f[i] = [f[i - 1] EXCEPT !.root = list[2 * i - 1]]
          BY <3>1, <3>2, <3>4
        <4>3. QED BY <4>1, <4>2 DEF Paired
      <3>5. QED BY <3>3, <3>4
    <2>3. QED BY <2>1, <2>2
  <1>6. f = [i \in 0..last |-> Paired(h, d, list, f, i)]
    BY <1>5
  <1>7. QED BY <1>6 DEF FirstPass

\* So does that of the second, as long as it melds two different roots.
LEMMA JoinsAre ==
    ASSUME NEW d \in [Timers -> Nat], NEW last \in Nat \ {0}, NEW pair \in [0..last -> Heap],
           \A i \in 1..last : pair[i].root \in Timers
    PROVE  \E f : SecondPass(f, d, pair, last)
  <1> DEFINE next(i, v) == IF 1 <= i /\ i <= last - 1 /\ v.root \in Timers \ {pair[last - i].root}
                           THEN Meld(v.links, d, v.root, pair[last - i].root) ELSE v
             step == [y \in Nat \X Heap |-> next(y[1], y[2])]
  <1>1. pair[last] \in Heap /\ last - 1 \in Nat
    OBVIOUS
  <1>2. ASSUME NEW i \in Nat, NEW v \in Heap PROVE next(i, v) \in Heap
    <2>1. CASE 1 <= i /\ i <= last - 1 /\ v.root \in Timers \ {pair[last - i].root}
      <3>1. last - i \in 1..last
        BY <2>1
      <3>2. v.links \in Heaps /\ pair[last - i].root \in Timers
        BY <3>1 DEF Heap
      <3>3. Meld(v.links, d, v.root, pair[last - i].root) \in [links : Heaps, root : Timers]
        BY <2>1, <3>2, MeldIs
      <3>4. QED BY <2>1, <3>3 DEF Heap
    <2>2. CASE ~(1 <= i /\ i <= last - 1 /\ v.root \in Timers \ {pair[last - i].root})
      BY <2>2
    <2>3. QED BY <2>1, <2>2
  <1>3. step \in [Nat \X Heap -> Heap]
    <2> HIDE DEF next
    <2>1. QED BY <1>2
  <1>4. PICK f \in [0..last - 1 -> Heap] :
            f[0] = pair[last] /\ \A i \in 1..last - 1 : f[i] = step[<<i, f[i - 1]>>]
    <2> DEFINE first == pair[last]
               k == last - 1
    <2>1. first \in Heap /\ k \in Nat
      BY <1>1
    <2> HIDE DEF step, first, k
    <2>2. \E f : Loops(f, Heap, first, step, k)
      BY <1>3, <2>1, Rounds
    <2>3. QED BY <2>2 DEF Loops, first, k
  <1>5. ASSUME NEW i \in 0..last - 1
        PROVE  f[i] = IF i > 0 /\ f[i - 1].root \notin Timers \ {pair[last - i].root}
                      THEN f[i - 1] ELSE Joined(d, pair, last, f, i)
    <2>1. CASE i = 0
      BY <1>4, <2>1 DEF Joined
    <2>2. CASE i # 0
      <3>1. i \in 1..last - 1 /\ i \in Nat /\ f[i - 1] \in Heap /\ 1 <= i /\ i <= last - 1 /\ i > 0
        BY <2>2
      <3>2. f[i] = next(i, f[i - 1])
        <4> HIDE DEF next
        <4>1. <<i, f[i - 1]>> \in Nat \X Heap
          BY <3>1
        <4>2. f[i] = step[<<i, f[i - 1]>>]
          BY <1>4, <3>1
        <4>3. QED BY <4>1, <4>2
      <3>3. QED BY <2>2, <3>1, <3>2 DEF Joined
    <2>3. QED BY <2>1, <2>2
  <1>6. QED BY <1>5 DEF SecondPass

\* After i rounds of the first pass: the roots of the pairs, and the children
\* that have not been reached.
PairInv(pair, list, n, g, d, T, B, i) ==
    /\ pair[i] \in Heap
    /\ Trees(pair[i].links, d, T, B \cup {pair[j].root : j \in 1..i} \cup {list[j] : j \in 2 * i + 1..n})
    /\ \A j \in 1..i : \/ pair[j].root = list[2 * j - 1]
                       \/ 2 * j <= n /\ pair[j].root = list[2 * j]
    /\ \A t \in Timers \ T : pair[i].links[t] = g[t]

PairStep(pair, list, n, d, i) ==
    pair[i] = IF 2 * i > n THEN [pair[i - 1] EXCEPT !.root = list[2 * i - 1]]
              ELSE Meld(pair[i - 1].links, d, list[2 * i - 1], list[2 * i])

\* One round of the first pass.
LEMMA PairKeeps ==
    ASSUME TimerAssumption, NEW d \in [Timers -> Nat], NEW n \in Nat \ {0},
           NEW list \in [1..n -> Timers], \A i, j \in 1..n : list[i] = list[j] => i = j,
           NEW T, NEW B, \A i \in 1..n : list[i] \notin B,
           NEW g \in Heaps, NEW pair, NEW i \in Nat \ {0}, 2 * i <= n + 1,
           PairInv(pair, list, n, g, d, T, B, i - 1),
           PairStep(pair, list, n, d, i)
    PROVE  PairInv(pair, list, n, g, d, T, B, i)
  <1> DEFINE k == i - 1
             a == 2 * i - 1
             b == 2 * i
             done == {pair[j].root : j \in 1..k}
             rest == {list[j] : j \in 2 * k + 1..n}
             left == {list[j] : j \in 2 * i + 1..n}
             v == pair[k]
             m == pair[i]
  <1>1. /\ v \in Heap /\ Trees(v.links, d, T, B \cup done \cup rest)
        /\ \A j \in 1..k : pair[j].root = list[2 * j - 1] \/ (2 * j <= n /\ pair[j].root = list[2 * j])
        /\ \A t \in Timers \ T : v.links[t] = g[t]
    BY DEF PairInv
  <1>2. /\ k \in Nat /\ i = k + 1 /\ a \in 1..n /\ 2 * k + 1 = a /\ b = a + 1
        /\ b > n => a = n
        /\ b <= n => b \in 1..n
    <2>1. k \in Nat /\ i = k + 1 /\ a \in Nat /\ a >= 1 /\ a <= n
      OBVIOUS
    <2>2. 2 * k + 1 = a /\ b = a + 1 /\ b \in Nat
      OBVIOUS
    <2> HIDE DEF k, a, b
    <2>3. QED BY <2>1, <2>2
  <1>3. /\ \A j \in a..n : j \in 1..n
        /\ \A j \in 1..k : 2 * j - 1 \in 1..n /\ 2 * j - 1 < a /\ (2 * j <= n => 2 * j \in 1..n) /\ 2 * j < a
    <2>1. k \in Nat /\ a \in Nat /\ a >= 1 /\ a <= n /\ a = 2 * k + 1
      BY <1>2
    <2> HIDE DEF k, a, b
    <2>2. QED BY <2>1
  <1>4. list[a] \in Timers /\ list[a] \in rest /\ list[a] \notin B
    BY <1>2, <1>3
  <1>5. \A j \in 1..k : \A l \in a..n : pair[j].root # list[l]
    <2> SUFFICES ASSUME NEW j \in 1..k, NEW l \in a..n, pair[j].root = list[l] PROVE FALSE
      OBVIOUS
    <2>1. l \in 1..n /\ 2 * j - 1 # l /\ 2 * j # l
      BY <1>2, <1>3
    <2>2. CASE pair[j].root = list[2 * j - 1]
      BY <1>3, <2>1, <2>2
    <2>3. CASE 2 * j <= n /\ pair[j].root = list[2 * j]
      BY <1>3, <2>1, <2>3
    <2>4. QED BY <1>1, <2>2, <2>3
  <1>6. {pair[j].root : j \in 1..i} = done \cup {m.root}
    <2>1. 1..i = 1..k \cup {i}
      BY <1>2
    <2>2. QED BY <2>1
  <1>7. CASE b > n
    <2>1. m = [v EXCEPT !.root = list[a]]
      BY <1>7 DEF PairStep
    <2>2. m \in Heap /\ m.root = list[a] /\ m.links = v.links
      BY <1>1, <1>4, <2>1 DEF Heap
    <2>3. rest = {list[a]} /\ left = {}
      BY <1>2, <1>7
    <2>4. B \cup {pair[j].root : j \in 1..i} \cup left = B \cup done \cup rest
      BY <1>6, <2>2, <2>3
    <2>5. \A j \in 1..i : pair[j].root = list[2 * j - 1] \/ (2 * j <= n /\ pair[j].root = list[2 * j])
      <3>1. \A j \in 1..i : j \in 1..k \/ j = i
        BY <1>2
      <3>2. QED BY <1>1, <2>2, <3>1
    <2> HIDE DEF m, v, a, b, done, rest, left
    <2>6. Trees(m.links, d, T, B \cup {pair[j].root : j \in 1..i} \cup left)
      BY <1>1, <2>2, <2>4
    <2>7. QED BY <1>1, <2>2, <2>5, <2>6 DEF PairInv, m, left
  <1>8. CASE ~(b > n)
    <2>1. m = Meld(v.links, d, list[a], list[b])
      BY <1>8 DEF PairStep
    <2>2. b \in 1..n /\ b \in a..n /\ list[b] \in Timers /\ list[b] \in rest /\ list[b] \notin B /\ list[a] # list[b]
      BY <1>2, <1>3, <1>8
    <2>3. v.links \in Heaps
      BY <1>1 DEF Heap
    <2> DEFINE R == B \cup done \cup rest
    <2>4. list[a] \in R /\ list[b] \in R
      BY <1>4, <2>2
    <2>5. rest = {list[a], list[b]} \cup left
      <3>1. 2 * k + 1..n = {a, b} \cup (2 * i + 1..n)
        <4>1. 2 * k + 1 = a /\ b = a + 1 /\ 2 * i + 1 = b + 1 /\ b \in 1..n /\ a \in 1..n
          BY <1>2, <2>2
        <4> DEFINE c == 2 * i + 1
        <4> HIDE DEF a, b, c
        <4>2. a..n = {a, b} \cup (c..n)
          BY <4>1 DEF c
        <4>3. QED BY <4>1, <4>2 DEF c
      <3>2. QED BY <3>1
    <2>6. list[a] \notin left /\ list[b] \notin left
      <3>1. \A j \in 2 * i + 1..n : j \in 1..n /\ j # a /\ j # b
        BY <1>2, <1>3
      <3>2. QED BY <1>2, <2>2, <3>1
    <2>7. list[a] \notin done /\ list[b] \notin done
      <3>1. a \in a..n
        BY <1>2
      <3>2. QED BY <1>5, <2>2, <3>1
    <2> HIDE DEF R
    <2>8. /\ m \in Heap /\ m.root \in {list[a], list[b]}
          /\ Trees(m.links, d, T, (R \ {list[a], list[b]}) \cup {m.root})
          /\ \A t \in Timers \ T : m.links[t] = v.links[t]
      <3>1. Trees(v.links, d, T, R)
        BY <1>1 DEF R
      <3> HIDE DEF m, v, a, b
      <3>2. OneTree(v.links, d, T, R, list[a], list[b], m)
        BY <2>1, <2>2, <2>3, <2>4, <3>1, MeldMakes
      <3>3. QED BY <3>2 DEF OneTree
    <2>9. (R \ {list[a], list[b]}) \cup {m.root} = B \cup {pair[j].root : j \in 1..i} \cup left
      <3> HIDE DEF done, rest, left, m, a, b
      <3>1. R \ {list[a], list[b]} = B \cup done \cup left
        BY <1>4, <2>2, <2>5, <2>6, <2>7 DEF R
      <3>2. QED BY <1>6, <3>1
    <2>10. \A j \in 1..i : pair[j].root = list[2 * j - 1] \/ (2 * j <= n /\ pair[j].root = list[2 * j])
      <3>1. \A j \in 1..i : j \in 1..k \/ j = i
        BY <1>2
      <3>2. b <= n
        BY <2>2
      <3>3. QED BY <1>1, <2>8, <3>1, <3>2
    <2> HIDE DEF m, v, a, b, done, rest, left
    <2>11. Trees(m.links, d, T, B \cup {pair[j].root : j \in 1..i} \cup left)
      BY <2>8, <2>9
    <2>12. QED BY <1>1, <2>8, <2>10, <2>11 DEF PairInv, m, left
  <1>9. QED BY <1>7, <1>8

\* After i rounds of the second pass: the pairs from the last on are one tree.
JoinInv(f, roots, last, g, d, T, B, i) ==
    /\ f[i] \in Heap
    /\ Trees(f[i].links, d, T, B \cup {f[i].root} \cup {roots[j] : j \in 1..last - 1 - i})
    /\ \E j \in last - i..last : f[i].root = roots[j]
    /\ \A t \in Timers \ T : f[i].links[t] = g[t]

JoinStep(f, roots, last, d, i) ==
    f[i - 1].root \in Timers \ {roots[last - i]} =>
        f[i] = Meld(f[i - 1].links, d, f[i - 1].root, roots[last - i])

\* One round of the second pass.
LEMMA JoinKeeps ==
    ASSUME TimerAssumption, NEW d \in [Timers -> Nat], NEW last \in Nat \ {0},
           NEW roots \in [1..last -> Timers], \A i, j \in 1..last : roots[i] = roots[j] => i = j,
           NEW T, NEW B, \A i \in 1..last : roots[i] \notin B,
           NEW g \in Heaps, NEW f, NEW i \in 1..last - 1,
           JoinInv(f, roots, last, g, d, T, B, i - 1),
           JoinStep(f, roots, last, d, i)
    PROVE  /\ JoinInv(f, roots, last, g, d, T, B, i)
           /\ f[i - 1].root \in Timers \ {roots[last - i]}
  <1> DEFINE k == i - 1
             v == f[k]
             m == f[i]
             low == last - i
             b == roots[low]
             rest == {roots[j] : j \in 1..last - 1 - k}
             left == {roots[j] : j \in 1..last - 1 - i}
  <1>1. /\ v \in Heap /\ Trees(v.links, d, T, B \cup {v.root} \cup rest)
        /\ \A t \in Timers \ T : v.links[t] = g[t]
    BY DEF JoinInv
  <1>2. PICK j \in last - k..last : v.root = roots[j]
    BY DEF JoinInv
  <1>3. low \in 1..last /\ j \in 1..last /\ last - 1 - k = low /\ j > low
    OBVIOUS
  <1>4. v.root \in Timers /\ v.root # b /\ b \in rest /\ b \in Timers /\ b \notin B /\ v.root \notin B
    BY <1>2, <1>3
  <1>5. m = Meld(v.links, d, v.root, b)
    BY <1>4 DEF JoinStep
  <1>6. rest = left \cup {b} /\ b \notin left /\ v.root \notin left
    <2>1. /\ 1..last - 1 - k = (1..last - 1 - i) \cup {low}
          /\ \A l \in 1..last - 1 - i : l \in 1..last /\ l # low /\ l # j
      <3> DEFINE x == last - 1 - k
                 y == last - 1 - i
      <3>1. low \in Nat \ {0} /\ low <= last /\ x = low /\ y = low - 1 /\ j > low
        BY <1>3
      <3> HIDE DEF x, y, low
      <3>2. 1..x = (1..y) \cup {low} /\ \A l \in 1..y : l \in 1..last /\ l # low /\ l # j
        BY <3>1
      <3>3. QED BY <3>2 DEF x, y
    <2>2. QED BY <1>2, <1>3, <2>1
  <1> DEFINE R == B \cup {v.root} \cup rest
  <1>7. v.root \in R /\ b \in R /\ v.links \in Heaps
    BY <1>1, <1>4 DEF Heap
  <1> HIDE DEF R
  <1>8. /\ m \in Heap /\ m.root \in {v.root, b}
        /\ Trees(m.links, d, T, (R \ {v.root, b}) \cup {m.root})
        /\ \A t \in Timers \ T : m.links[t] = v.links[t]
    <2>1. Trees(v.links, d, T, R)
      BY <1>1 DEF R
    <2> HIDE DEF m, v, b, rest
    <2>2. OneTree(v.links, d, T, R, v.root, b, m)
      BY <1>4, <1>5, <1>7, <2>1, MeldMakes
    <2>3. QED BY <2>2 DEF OneTree
  <1>9. (R \ {v.root, b}) \cup {m.root} = B \cup {m.root} \cup left
    <2> HIDE DEF rest, left, m, v, b
    <2>1. QED BY <1>4, <1>6 DEF R
  <1>10. \E l \in last - i..last : m.root = roots[l]
    <2>1. low \in last - i..last /\ j \in last - i..last
      BY <1>3
    <2>2. QED BY <1>2, <1>8, <2>1
  <1> HIDE DEF m, v, rest, left, b
  <1>11. Trees(m.links, d, T, B \cup {m.root} \cup left)
    BY <1>8, <1>9
  <1>12. JoinInv(f, roots, last, g, d, T, B, i)
    BY <1>1, <1>8, <1>10, <1>11 DEF JoinInv, m, left
  <1>13. QED BY <1>4, <1>12 DEF v, b

\* All rounds of the first pass.
LEMMA PairsKeep ==
    ASSUME TimerAssumption, NEW d \in [Timers -> Nat], NEW n \in Nat \ {0},
           NEW list \in [1..n -> Timers], \A i, j \in 1..n : list[i] = list[j] => i = j,
           NEW T, NEW B, \A i \in 1..n : list[i] \notin B,
           NEW g \in Heaps, NEW pair, NEW last \in Nat, 2 * last <= n + 1,
           PairInv(pair, list, n, g, d, T, B, 0),
           \A i \in 1..last : PairStep(pair, list, n, d, i)
    PROVE  \A i \in 0..last : PairInv(pair, list, n, g, d, T, B, i)
  <1> DEFINE wrong == {i \in 0..last : ~PairInv(pair, list, n, g, d, T, B, i)}
  <1>1. SUFFICES ASSUME wrong # {} PROVE FALSE
    OBVIOUS
  <1>2. PICK i \in wrong : \A l \in wrong : i <= l
    <2>1. wrong \in SUBSET Nat
      OBVIOUS
    <2> HIDE DEF wrong
    <2>2. QED BY <1>1, <2>1, LeastNumber
  <1>3. i \in Nat \ {0} /\ i \in 1..last /\ i - 1 \in 0..last /\ 2 * i <= n + 1
    <2>1. i \in 0..last /\ i # 0
      OBVIOUS
    <2> HIDE DEF wrong
    <2>2. QED BY <2>1
  <1>4. PairInv(pair, list, n, g, d, T, B, i - 1)
    <2>1. i - 1 \notin wrong
      <3> HIDE DEF wrong
      <3>1. QED BY <1>2, <1>3
    <2>2. QED BY <1>3, <2>1
  <1>5. PairStep(pair, list, n, d, i)
    BY <1>3
  <1>6. PairInv(pair, list, n, g, d, T, B, i)
    <2> HIDE DEF wrong
    <2>1. QED BY <1>3, <1>4, <1>5, PairKeeps
  <1>7. QED BY <1>6

\* All rounds of the second pass.
LEMMA JoinsKeep ==
    ASSUME TimerAssumption, NEW d \in [Timers -> Nat], NEW last \in Nat \ {0},
           NEW roots \in [1..last -> Timers], \A i, j \in 1..last : roots[i] = roots[j] => i = j,
           NEW T, NEW B, \A i \in 1..last : roots[i] \notin B,
           NEW g \in Heaps, NEW f,
           JoinInv(f, roots, last, g, d, T, B, 0),
           \A i \in 1..last - 1 : JoinStep(f, roots, last, d, i)
    PROVE  /\ \A i \in 0..last - 1 : JoinInv(f, roots, last, g, d, T, B, i)
           /\ \A i \in 1..last - 1 : f[i - 1].root \in Timers \ {roots[last - i]}
  <1> DEFINE wrong == {i \in 0..last - 1 : ~JoinInv(f, roots, last, g, d, T, B, i)}
  <1>1. ASSUME wrong # {} PROVE FALSE
    <2>1. PICK i \in wrong : \A l \in wrong : i <= l
      <3>1. wrong \in SUBSET Nat
        OBVIOUS
      <3> HIDE DEF wrong
      <3>2. QED BY <1>1, <3>1, LeastNumber
    <2>2. i \in Nat \ {0} /\ i \in 1..last - 1 /\ i - 1 \in 0..last - 1
      <3>1. i \in 0..last - 1 /\ i # 0
        OBVIOUS
      <3> HIDE DEF wrong
      <3>2. QED BY <3>1
    <2>3. JoinInv(f, roots, last, g, d, T, B, i - 1)
      <3>1. i - 1 \notin wrong
        <4> HIDE DEF wrong
        <4>1. QED BY <2>1, <2>2
      <3>2. QED BY <2>2, <3>1
    <2>4. JoinStep(f, roots, last, d, i)
      BY <2>2
    <2>5. JoinInv(f, roots, last, g, d, T, B, i)
      <3> HIDE DEF wrong
      <3>1. QED BY <2>2, <2>3, <2>4, JoinKeeps
    <2>6. QED BY <2>5
  <1>2. ASSUME NEW i \in 1..last - 1 PROVE f[i - 1].root \in Timers \ {roots[last - i]}
    <2>1. i - 1 \in 0..last - 1
      OBVIOUS
    <2>2. JoinInv(f, roots, last, g, d, T, B, i - 1)
      BY <1>1, <2>1
    <2>3. JoinStep(f, roots, last, d, i)
      OBVIOUS
    <2> HIDE DEF wrong
    <2>4. QED BY <2>2, <2>3, JoinKeeps
  <1>3. QED BY <1>1, <1>2

\* What merging the children that list holds makes of the heap h.
Merges(h, list, d, T, B, m) ==
    /\ m \in Heap /\ \E i \in 1..Len(list) : m.root = list[i]
    /\ Trees(m.links, d, T, B \cup {m.root})
    /\ \A t \in Timers \ T : m.links[t] = Cut(h, list)[t]

\* Cutting the list writes that.
LEMMA CutIs ==
    ASSUME NEW h \in Heaps, NEW list \in Seq(Timers)
    PROVE  /\ Cut(h, list) \in Heaps
           /\ \A t \in Timers :
                 /\ Cut(h, list)[t].child = h[t].child
                 /\ (\E i \in 1..Len(list) : list[i] = t) =>
                       Cut(h, list)[t].prev = Null /\ Cut(h, list)[t].sibling = Null
                 /\ ~(\E i \in 1..Len(list) : list[i] = t) => Cut(h, list)[t] = h[t]
  <1>1. ToSet(list) = {list[i] : i \in 1..Len(list)}
    BY DEF ToSet
  <1>2. \A t \in Timers : h[t] \in Node
    BY DEF Heaps
  <1>3. QED BY <1>1, <1>2 DEF Cut, Heaps, Node

\* merge_children() makes one tree of the children that its list holds.
LEMMA MergeIs ==
    ASSUME TimerAssumption, NEW h \in Heaps, NEW d \in [Timers -> Nat], NEW first \in Timers,
           NEW list \in Seq(Timers), list = Siblings(h, first), Len(list) \in Nat \ {0},
           \A i, j \in 1..Len(list) : list[i] = list[j] => i = j,
           NEW T, NEW B, \A i \in 1..Len(list) : list[i] \notin B,
           Trees(Cut(h, list), d, T, B \cup {list[i] : i \in 1..Len(list)})
    PROVE  Merges(h, list, d, T, B, MergeChildren(h, d, first))
  <1> DEFINE n == Len(list)
             last == (n + 1) \div 2
             g == Cut(h, list)
             pair == CHOOSE f : f = [i \in 0..last |-> Paired(h, d, list, f, i)]
             merged == CHOOSE f : f = [i \in 0..last - 1 |-> Joined(d, pair, last, f, i)]
  <1>1. n \in Nat \ {0} /\ last \in Nat \ {0} /\ 2 * last <= n + 1 /\ n <= 2 * last
    <2>1. n \in Nat \ {0}
      OBVIOUS
    <2> HIDE DEF n
    <2>2. QED BY <2>1
  <1>2. /\ list \in [1..n -> Timers] /\ \A i, j \in 1..n : list[i] = list[j] => i = j
        /\ \A i \in 1..n : list[i] \notin B
    OBVIOUS
  <1>3. g \in Heaps
    BY CutIs
  <1>4. first # Null
    BY TimerAssumption
  <1>5. MergeChildren(h, d, first) = merged[last - 1]
    <2>1. list = Siblings(h, first)
      OBVIOUS
    <2>2. QED BY <1>4, <2>1 DEF MergeChildren, Paired, Joined
  <1> HIDE DEF pair, merged
  \* The first pass.
  <1>6. pair = [i \in 0..last |-> Paired(h, d, list, pair, i)]
    <2>1. PICK f : FirstPass(f, h, d, list, last)
      <3>1. Len(list) = n /\ Cut(h, list) = g
        OBVIOUS
      <3> HIDE DEF n, last, g
      <3>2. QED BY <1>1, <1>2, <1>3, <3>1, PairsAre
    <2>2. QED BY <2>1 DEF pair, FirstPass
  <1> HIDE DEF last
  <1>7. /\ pair[0] = [links |-> g, root |-> Null]
        /\ \A i \in 1..last : PairStep(pair, list, n, d, i)
    <2>1. \A i \in 0..last : pair[i] = Paired(h, d, list, pair, i)
      BY <1>6
    <2>2. pair[0] = [links |-> g, root |-> Null]
      <3>1. 0 \in 0..last
        BY <1>1
      <3>2. pair[0] = Paired(h, d, list, pair, 0)
        BY <2>1, <3>1
      <3>3. QED BY <3>2 DEF Paired
    <2>3. ASSUME NEW i \in 1..last PROVE PairStep(pair, list, n, d, i)
      <3>1. pair[i] = Paired(h, d, list, pair, i) /\ i # 0
        BY <1>1, <2>1
      <3>2. QED BY <3>1 DEF Paired, PairStep
    <2>4. QED BY <2>2, <2>3
  <1> HIDE DEF g, n
  <1>8. PairInv(pair, list, n, g, d, T, B, 0)
    <2>1. 2 * 0 + 1..n = 1..n /\ 1..0 = {}
      BY <1>1
    <2>2. B \cup {pair[j].root : j \in 1..0} \cup {list[j] : j \in 2 * 0 + 1..n} = B \cup {list[j] : j \in 1..n}
      BY <2>1
    <2>3. pair[0].links = g /\ pair[0] \in Heap
      BY <1>3, <1>7 DEF Heap
    <2>4. Trees(g, d, T, B \cup {list[j] : j \in 1..n})
      BY DEF g, n
    <2>5. QED BY <2>1, <2>2, <2>3, <2>4 DEF PairInv
  <1>9. \A i \in 0..last : PairInv(pair, list, n, g, d, T, B, i)
    BY <1>1, <1>2, <1>3, <1>7, <1>8, PairsKeep
  \* The roots of the pairs are different children.
  <1> DEFINE roots == [j \in 1..last |-> pair[j].root]
  <1>10. PairInv(pair, list, n, g, d, T, B, last) /\ last \in Nat
    BY <1>1, <1>9
  <1>11. ASSUME NEW j \in 1..last
         PROVE  \E k \in {2 * j - 1, 2 * j} : k \in 1..n /\ roots[j] = list[k]
    <2>1. 2 * j - 1 \in 1..n /\ (2 * j <= n => 2 * j \in 1..n)
      BY <1>1
    <2>2. roots[j] = list[2 * j - 1] \/ (2 * j <= n /\ roots[j] = list[2 * j])
      BY <1>10 DEF PairInv
    <2>3. QED BY <2>1, <2>2
  <1>12. pair[last] \in Heap /\ (\A j \in 1..last : roots[j] = pair[j].root)
    BY <1>10 DEF PairInv
  <1>13. Trees(pair[last].links, d, T, B \cup {roots[j] : j \in 1..last})
    <2>1. \A j \in 2 * last + 1..n : FALSE
      BY <1>1
    <2>2. B \cup {pair[j].root : j \in 1..last} \cup {list[j] : j \in 2 * last + 1..n}
             = B \cup {roots[j] : j \in 1..last}
      BY <1>12, <2>1
    <2>3. QED BY <1>10, <2>2 DEF PairInv
  <1> HIDE DEF roots
  <1>14. /\ \A i, j \in 1..last : roots[i] = roots[j] => i = j
         /\ \A i \in 1..last : roots[i] \in Timers /\ roots[i] \notin B
    <2>1. ASSUME NEW i \in 1..last, NEW j \in 1..last, roots[i] = roots[j] PROVE i = j
      <3>1. PICK k \in {2 * i - 1, 2 * i} : k \in 1..n /\ roots[i] = list[k]
        BY <1>11
      <3>2. PICK l \in {2 * j - 1, 2 * j} : l \in 1..n /\ roots[j] = list[l]
        BY <1>11
      <3>3. k = l
        BY <1>2, <2>1, <3>1, <3>2
      <3>4. QED BY <1>1, <3>1, <3>2, <3>3
    <2>2. ASSUME NEW i \in 1..last PROVE roots[i] \in Timers /\ roots[i] \notin B
      BY <1>2, <1>11
    <2>3. QED BY <2>1, <2>2
  <1>15. roots \in [1..last -> Timers]
    BY <1>14 DEF roots
  \* The second pass.
  <1>16. ASSUME NEW f, f[0] = pair[last], \A i \in 1..last - 1 : JoinStep(f, roots, last, d, i)
         PROVE  /\ \A i \in 0..last - 1 : JoinInv(f, roots, last, g, d, T, B, i)
                /\ \A i \in 1..last - 1 : f[i - 1].root \in Timers \ {roots[last - i]}
    <2>1. JoinInv(f, roots, last, g, d, T, B, 0)
      <3>1. last - 0..last = {last} /\ last \in 1..last /\ 1..last = (1..last - 1 - 0) \cup {last}
        BY <1>1
      <3>2. f[0].root = roots[last] /\ f[0] \in Heap
        BY <1>12, <1>16, <3>1
      <3>3. B \cup {f[0].root} \cup {roots[j] : j \in 1..last - 1 - 0} = B \cup {roots[j] : j \in 1..last}
        BY <3>1, <3>2
      <3>4. \A t \in Timers \ T : f[0].links[t] = g[t]
        BY <1>10, <1>16 DEF PairInv
      <3>5. Trees(f[0].links, d, T, B \cup {f[0].root} \cup {roots[j] : j \in 1..last - 1 - 0})
        BY <1>13, <1>16, <3>3
      <3>6. QED BY <3>1, <3>2, <3>4, <3>5 DEF JoinInv
    <2>2. QED BY <1>1, <1>3, <1>14, <1>15, <1>16, <2>1, JoinsKeep
  <1>17. \E f : f = [i \in 0..last - 1 |-> Joined(d, pair, last, f, i)]
    <2>1. /\ pair \in [0..last -> Heap]
          /\ \A i \in 1..last : pair[i].root \in Timers
      <3>1. \A i \in 0..last : pair[i] \in Heap
        BY <1>9 DEF PairInv
      <3>2. QED BY <1>6, <1>12, <1>14, <3>1
    <2>2. PICK f : SecondPass(f, d, pair, last)
      BY <1>1, <2>1, JoinsAre
    <2>3. \A i \in 0..last - 1 :
             f[i] = IF i > 0 /\ f[i - 1].root \notin Timers \ {pair[last - i].root}
                    THEN f[i - 1] ELSE Joined(d, pair, last, f, i)
      BY <2>2 DEF SecondPass
    <2>4. f[0] = pair[last]
      BY <1>1, <2>3 DEF Joined
    <2>5. ASSUME NEW i \in 1..last - 1
          PROVE  /\ i \in 0..last - 1 /\ i # 0 /\ i > 0 /\ last - i \in 1..last
                 /\ roots[last - i] = pair[last - i].root
      <3>1. last \in Nat \ {0}
        BY <1>1
      <3>2. i \in 0..last - 1 /\ i # 0 /\ i > 0 /\ last - i \in 1..last
        BY <3>1
      <3>3. QED BY <1>12, <3>2
    <2>6. ASSUME NEW i \in 1..last - 1 PROVE JoinStep(f, roots, last, d, i)
      BY <2>3, <2>5 DEF Joined, JoinStep
    <2>7. \A i \in 1..last - 1 : f[i - 1].root \in Timers \ {roots[last - i]}
      BY <1>16, <2>4, <2>6
    <2>8. ASSUME NEW i \in 0..last - 1 PROVE f[i] = Joined(d, pair, last, f, i)
      <3>1. i = 0 \/ i \in 1..last - 1
        BY <1>1
      <3>2. CASE i = 0
        BY <2>3, <3>2
      <3>3. CASE i \in 1..last - 1
        BY <2>3, <2>5, <2>7, <3>3
      <3>4. QED BY <3>1, <3>2, <3>3
    <2>9. f = [i \in 0..last - 1 |-> Joined(d, pair, last, f, i)]
      BY <2>2, <2>8 DEF SecondPass
    <2>10. QED BY <2>9
  <1>18. merged = [i \in 0..last - 1 |-> Joined(d, pair, last, merged, i)]
    BY <1>17 DEF merged
  <1>19. merged[0] = pair[last] /\ \A i \in 1..last - 1 : JoinStep(merged, roots, last, d, i)
    <2>1. \A i \in 0..last - 1 : merged[i] = Joined(d, pair, last, merged, i)
      BY <1>18
    <2>2. merged[0] = pair[last]
      BY <1>1, <2>1 DEF Joined
    <2>3. ASSUME NEW i \in 1..last - 1 PROVE JoinStep(merged, roots, last, d, i)
      <3>1. i \in 0..last - 1 /\ i # 0 /\ last - i \in 1..last
        BY <1>1
      <3>2. merged[i] = Meld(merged[i - 1].links, d, merged[i - 1].root, roots[last - i])
        BY <1>12, <2>1, <3>1 DEF Joined
      <3>3. QED BY <3>2 DEF JoinStep
    <2>4. QED BY <2>2, <2>3
  <1> DEFINE k == last - 1
             m == merged[k]
  <1>20. JoinInv(merged, roots, last, g, d, T, B, k)
    <2>1. k \in 0..last - 1
      BY <1>1
    <2>2. QED BY <1>16, <1>19, <2>1
  <1>21. /\ m \in Heap /\ \E j \in 1..last : m.root = roots[j]
         /\ Trees(m.links, d, T, B \cup {m.root})
         /\ \A t \in Timers \ T : m.links[t] = g[t]
    <2>1. last - k = 1 /\ last - 1 - k = 0
      BY <1>1
    <2>2. B \cup {m.root} \cup {roots[j] : j \in 1..last - 1 - k} = B \cup {m.root}
      BY <2>1
    <2> HIDE DEF k
    <2>3. QED BY <1>20, <2>1, <2>2 DEF JoinInv
  <1>22. \E i \in 1..n : m.root = list[i]
    <2> HIDE DEF m
    <2>1. QED BY <1>11, <1>21
  <1>23. QED BY <1>5, <1>21, <1>22 DEF Merges, g, n

\* Timers without a root are none.
LEMMA NoRoots ==
    ASSUME NEW h, NEW d, NEW S, NEW par, Forest(h, d, S, {}, par) PROVE S = {}
  <1> SUFFICES ASSUME S # {} PROVE FALSE
    OBVIOUS
  <1>1. PICK t \in S : t \in {} \/ h[t].prev \notin S
    BY DEF Forest
  <1>2. h[t].prev \in S
    BY DEF Forest
  <1>3. QED BY <1>1, <1>2

\* Trees are what the links of their timers and those timers' deadlines say.
LEMMA TreesSame ==
    ASSUME NEW h, NEW d, NEW S, NEW R, Trees(h, d, S, R), NEW g, NEW e,
           \A t \in S : g[t] = h[t] /\ e[t] = d[t]
    PROVE  Trees(g, e, S, R)
  <1>1. PICK par \in [Timers -> Timers \cup {Null}] : Forest(h, d, S, R, par)
    BY DEF Trees
  <1>2. /\ R \subseteq S /\ S \subseteq Timers
        /\ \A t \in R : h[t].prev = Null /\ h[t].sibling = Null
        /\ \A t \in S \ R :
              /\ h[t].prev \in S
              /\ \/ h[h[t].prev].child = t /\ par[t] = h[t].prev
                 \/ h[h[t].prev].sibling = t /\ par[t] = par[h[t].prev]
              /\ par[t] \in S /\ d[par[t]] <= d[t]
        /\ \A t \in S : h[t].child # Null =>
              /\ h[t].child \in S \ R /\ h[h[t].child].prev = t /\ h[t].sibling # h[t].child
        /\ \A t \in S : h[t].sibling # Null => h[t].sibling \in S \ R /\ h[h[t].sibling].prev = t
        /\ \A X \in SUBSET S : X # {} => \E t \in X : t \in R \/ h[t].prev \notin X
        /\ \A X \in SUBSET S : X # {} => \E t \in X : h[t].sibling \notin X
    BY <1>1 DEF Forest
  <1>3. ASSUME NEW X \in SUBSET S, X # {}
        PROVE  (\E t \in X : t \in R \/ g[t].prev \notin X) /\ (\E t \in X : g[t].sibling \notin X)
    <2>1. \A t \in X : g[t] = h[t]
      OBVIOUS
    <2>2. QED BY <1>2, <1>3, <2>1
  <1>4. Forest(g, e, S, R, par)
    BY <1>2, <1>3 DEF Forest
  <1>5. QED BY <1>1, <1>4 DEF Trees

\* g is h after unlink() has led the links around op.
Bridged(h, g, S, R, par, op) ==
    /\ \A t \in S \ {op} :
          /\ g[t].child = IF h[t].child = op THEN h[op].sibling ELSE h[t].child
          /\ g[t].sibling = IF h[t].sibling = op THEN h[op].sibling ELSE h[t].sibling
          /\ t \notin Children(S, R, par, op) =>
                g[t].prev = IF h[t].prev = op THEN h[op].prev ELSE h[t].prev
    /\ \A t \in Timers \ S : g[t] = h[t]

\* Nothing has to be done about a root.
LEMMA BridgedRoot ==
    ASSUME TimerAssumption,
           NEW h \in Heaps, NEW d \in [Timers -> Nat], NEW S, NEW R,
           NEW par \in [Timers -> Timers \cup {Null}], Forest(h, d, S, R, par), NEW op \in R
    PROVE  Bridged(h, h, S, R, par, op)
  <1>1. ASSUME NEW t \in S \ {op}
        PROVE  /\ h[t].child # op /\ h[t].sibling # op
               /\ t \notin Children(S, R, par, op) => h[t].prev # op
    <2>1. op \in S /\ op \in Timers /\ op # Null /\ h[op].sibling = Null /\ t \in Timers /\ t # Null
      BY DEF Forest, TimerAssumption
    <2>2. h[t].child # op /\ h[t].sibling # op
      BY <2>1 DEF Forest
    <2>3. ASSUME h[t].prev = op PROVE t \in Children(S, R, par, op)
      <3>1. t \notin R
        BY <2>1, <2>3 DEF Forest
      <3>2. par[t] = op
        BY <2>1, <2>3, <3>1 DEF Forest
      <3>3. QED BY <3>1, <3>2 DEF Children
    <2>4. QED BY <2>2, <2>3
  <1>2. QED BY <1>1 DEF Bridged

\* unlink() does that about any other.
LEMMA UnlinkIs ==
    ASSUME TimerAssumption,
           NEW h \in Heaps, NEW d \in [Timers -> Nat], NEW S, NEW R,
           NEW par \in [Timers -> Timers \cup {Null}], Forest(h, d, S, R, par), NEW op \in S \ R
    PROVE  Unlink(h, op) \in Heaps /\ Bridged(h, Unlink(h, op), S, R, par, op)
  <1> DEFINE q == h[op].prev
             s == h[op].sibling
             g == Unlink(h, op)
             v == IF h[q].child = op THEN [h EXCEPT ![q].child = s] ELSE [h EXCEPT ![q].sibling = s]
  <1>1. /\ S \subseteq Timers /\ op \in Timers /\ Null \notin Timers
        /\ q \in S /\ q # op /\ s # op /\ q \in Timers /\ s \in Timers \cup {Null}
        /\ s # Null => s \in S \ R /\ h[s].prev = op
        /\ h[q].child = op \/ h[q].sibling = op
    <2>1. S \subseteq Timers /\ op \in Timers /\ Null \notin Timers
      BY DEF Forest, TimerAssumption
    <2>2. q \in S /\ (h[q].child = op \/ h[q].sibling = op) /\ (s # Null => s \in S \ R /\ h[s].prev = op)
      BY DEF Forest
    <2>3. q # op /\ s # op
      BY NoCircle
    <2>4. QED BY <2>1, <2>2, <2>3
  <1>2. \A t \in Timers : h[t] \in Node
    BY DEF Heaps
  <1>3. g = IF s = Null THEN v ELSE [v EXCEPT ![s].prev = q]
    BY DEF Unlink
  <1>4. /\ v \in Heaps
        /\ \A t \in Timers :
              /\ v[t].prev = h[t].prev
              /\ v[t].child = IF t = q /\ h[q].child = op THEN s ELSE h[t].child
              /\ v[t].sibling = IF t = q /\ h[q].child # op THEN s ELSE h[t].sibling
              /\ t # q => v[t] = h[t]
    <2>1. CASE h[q].child = op
      BY <1>1, <1>2, <2>1 DEF Heaps, Node
    <2>2. CASE h[q].child # op
      BY <1>1, <1>2, <2>2 DEF Heaps, Node
    <2>3. QED BY <2>1, <2>2
  <1> HIDE DEF g, v, q, s
  <1>5. /\ g \in Heaps
        /\ \A t \in Timers :
              /\ g[t].prev = IF t = s THEN q ELSE h[t].prev
              /\ g[t].child = IF t = q /\ h[q].child = op THEN s ELSE h[t].child
              /\ g[t].sibling = IF t = q /\ h[q].child # op THEN s ELSE h[t].sibling
              /\ t \notin {q, s} => g[t] = h[t]
    <2>1. CASE s = Null
      BY <1>1, <1>3, <1>4, <2>1
    <2>2. CASE s # Null
      <3>1. g = [v EXCEPT ![s].prev = q] /\ s \in Timers
        BY <1>1, <1>3, <2>2
      <3>2. QED BY <1>1, <1>4, <3>1 DEF Heaps, Node
    <2>3. QED BY <2>1, <2>2
  <1>6. \A t \in S : /\ h[t].child = op => t = q
                     /\ h[t].sibling = op => t = q
    BY <1>1 DEF Forest, q
  <1>7. \A t \in S : h[t].child = op => h[t].sibling # op
    BY <1>1 DEF Forest
  <1>8. ASSUME NEW t \in S \ {op}, t \notin Children(S, R, par, op), h[t].prev = op PROVE t = s
    <2>1. t \notin R /\ par[t] # op
      BY <1>1, <1>8 DEF Forest, Children
    <2>2. h[op].sibling = t
      BY <1>8, <2>1 DEF Forest
    <2>3. QED BY <2>2 DEF s
  <1>9. ASSUME NEW t \in S \ {op}
        PROVE  /\ g[t].child = IF h[t].child = op THEN s ELSE h[t].child
               /\ g[t].sibling = IF h[t].sibling = op THEN s ELSE h[t].sibling
               /\ t \notin Children(S, R, par, op) =>
                     g[t].prev = IF h[t].prev = op THEN q ELSE h[t].prev
    <2>1. g[t].child = IF h[t].child = op THEN s ELSE h[t].child
      BY <1>1, <1>5, <1>6
    <2>2. g[t].sibling = IF h[t].sibling = op THEN s ELSE h[t].sibling
      BY <1>1, <1>5, <1>6, <1>7
    <2>3. ASSUME t \notin Children(S, R, par, op)
          PROVE  g[t].prev = IF h[t].prev = op THEN q ELSE h[t].prev
      BY <1>1, <1>5, <1>8, <2>3
    <2>4. QED BY <2>1, <2>2, <2>3
  <1>10. \A t \in Timers \ S : g[t] = h[t]
    BY <1>1, <1>5
  <1>11. QED BY <1>5, <1>9, <1>10 DEF Bridged, g, q, s

\* What is left when the children of op have been merged: op is out of the
\* trees, and what its children became is one of their roots.
Dismembered(h, d, S, R, op, m) ==
    /\ m \in Heap
    /\ m.root # Null => m.root \in S \ R /\ m.root # op
    /\ Trees(m.links, d, S \ {op}, (R \ {op}) \cup ({m.root} \ {Null}))
    /\ \A t \in Timers \ S : m.links[t] = h[t]

\* So pop_root() and remove() get there by the same way.
LEMMA Dismembers ==
    ASSUME TimerAssumption,
           NEW h \in Heaps, NEW d \in [Timers -> Nat], NEW S, NEW R,
           NEW par \in [Timers -> Timers \cup {Null}], Forest(h, d, S, R, par),
           NEW op \in S, NEW g \in Heaps, Bridged(h, g, S, R, par, op)
    PROVE  Dismembered(h, d, S, R, op, MergeChildren(g, d, h[op].child))
  <1> DEFINE first == h[op].child
             K == Children(S, R, par, op)
             m == MergeChildren(g, d, first)
  <1>1. /\ R \subseteq S /\ S \subseteq Timers /\ op \in Timers /\ Null \notin Timers
        /\ K \subseteq S \ R /\ op \notin K
        /\ first # Null => first \in S \ R
        /\ first \in Timers \cup {Null}
    <2>1. R \subseteq S /\ S \subseteq Timers /\ op \in Timers /\ Null \notin Timers
      BY DEF Forest, TimerAssumption
    <2>2. K \subseteq S \ R
      BY DEF Children
    <2>3. op \notin K
      BY NoCircle
    <2>4. first # Null => first \in S \ R
      BY DEF Forest
    <2>5. QED BY <2>1, <2>2, <2>3, <2>4
  <1>2. ASSUME NEW t \in K PROVE h[t].sibling # op
    <2>1. h[t].sibling = op => h[op].prev = t
      BY <1>1 DEF Forest
    <2>2. h[op].prev # t
      BY <1>2, NoCircle
    <2>3. QED BY <2>1, <2>2
  <1>3. /\ \A t \in S \ {op} :
             /\ g[t].child = IF h[t].child = op THEN h[op].sibling ELSE h[t].child
             /\ g[t].sibling = IF h[t].sibling = op THEN h[op].sibling ELSE h[t].sibling
             /\ t \notin K => g[t].prev = IF h[t].prev = op THEN h[op].prev ELSE h[t].prev
        /\ \A t \in Timers \ S : g[t] = h[t]
    BY DEF Bridged
  <1> HIDE DEF K, first, m
  <1>4. CASE first = Null
    <2>1. K = {}
      <3> SUFFICES ASSUME K # {} PROVE FALSE
        OBVIOUS
      <3>1. PICK t \in K : t \in R \/ h[t].prev \notin K
        <4>1. K \in SUBSET S
          BY <1>1
        <4>2. QED BY <4>1 DEF Forest
      <3>2. t \in S \ R /\ par[t] = op /\ h[t].prev \notin K
        BY <1>1, <3>1 DEF K, Children
      <3>3. h[h[t].prev].child = t /\ par[t] = h[t].prev => FALSE
        BY <1>1, <1>4, <3>2 DEF first
      <3>4. h[h[t].prev].sibling = t /\ par[t] = par[h[t].prev] => FALSE
        <4>1. h[t].prev \in S
          BY <3>2 DEF Forest
        <4>2. t # Null
          BY <1>1, <3>2
        <4>3. h[h[t].prev].sibling = t => h[t].prev \notin R
          BY <4>2 DEF Forest
        <4>4. QED BY <3>2, <4>1, <4>3 DEF K, Children
      <3>5. QED BY <3>2, <3>3, <3>4 DEF Forest
    <2>2. CutOut(h, g, S, R, par, op)
      BY <1>3, <2>1 DEF CutOut, K
    <2>3. Forest(g, d, S \ {op}, (R \ {op}) \cup K, par)
      BY <2>2, CutKeeps DEF K
    <2>4. m = [links |-> g, root |-> Null]
      BY <1>4 DEF m, MergeChildren
    <2>5. m \in Heap /\ m.links = g /\ m.root = Null
      BY <2>4 DEF Heap
    <2>6. (R \ {op}) \cup K = (R \ {op}) \cup ({m.root} \ {Null})
      BY <2>1, <2>5
    <2>7. Trees(m.links, d, S \ {op}, (R \ {op}) \cup ({m.root} \ {Null}))
      BY <2>3, <2>5, <2>6 DEF Trees
    <2>8. QED BY <1>3, <2>5, <2>7 DEF Dismembered, m, first
  <1>5. CASE first # Null
    <2> DEFINE x == [t \in Timers |-> h[t].sibling]
               y == [t \in Timers |-> g[t].sibling]
               list == Siblings(h, first)
    <2>1. first \in S /\ first \in Timers /\ DOMAIN x = Timers /\ DOMAIN y = Timers
          /\ Null \notin DOMAIN x /\ IsFiniteSet(DOMAIN x)
      BY <1>1, <1>5, TimerAssumption
    <2>2. /\ list \in Seq(Timers) /\ Len(list) \in Nat \ {0}
          /\ \A i, j \in 1..Len(list) : list[i] = list[j] => i = j
          /\ {list[i] : i \in 1..Len(list)} = K
      <3> HIDE DEF list
      <3>1. first = h[op].child /\ list = Siblings(h, first)
        BY DEF first, list
      <3>2. QED BY <1>5, <3>1, SiblingsAre DEF K
    <2>3. list = Siblings(g, first)
      <3>1. PICK s : Leads(first, s, x, Null)
        BY <2>1, SiblingsLead
      <3>2. s = list
        BY <2>1, <3>1, ChainIs DEF Siblings
      <3> HIDE DEF list
      <3>3. ASSUME NEW i \in 1..Len(s) PROVE y[s[i]] = x[s[i]]
        <4>1. s[i] \in K
          BY <2>2, <3>2
        <4>2. s[i] \in S \ {op} /\ s[i] \in Timers
          BY <1>1, <4>1
        <4>3. g[s[i]].sibling = h[s[i]].sibling
          BY <1>2, <1>3, <4>1, <4>2
        <4>4. QED BY <4>2, <4>3
      <3>4. Leads(first, s, y, Null)
        <4> HIDE DEF x, y
        <4>1. QED BY <2>1, <3>1, <3>3, LeadsKept
      <3>5. Chain(first, y, Null) = s
        <4> HIDE DEF x, y
        <4>1. QED BY <2>1, <3>4, ChainIs
      <3>6. QED BY <3>2, <3>5 DEF Siblings
    <2> HIDE DEF list, x, y
    <2> DEFINE c == Cut(g, list)
    <2>4. /\ c \in Heaps
          /\ \A t \in Timers :
                /\ c[t].child = g[t].child
                /\ t \in K => c[t].prev = Null /\ c[t].sibling = Null
                /\ t \notin K => c[t] = g[t]
      <3>1. \A t : t \in K <=> \E i \in 1..Len(list) : list[i] = t
        BY <2>2
      <3>2. QED BY <2>2, <3>1, CutIs
    <2> HIDE DEF c
    <2>5. CutOut(h, c, S, R, par, op)
      <3>1. \A t \in S \ {op} : t \in Timers
        BY <1>1
      <3>2. QED BY <1>3, <2>4, <3>1 DEF CutOut, K
    <2>6. Forest(c, d, S \ {op}, (R \ {op}) \cup K, par)
      BY <2>4, <2>5, CutKeeps DEF K
    <2> DEFINE T == S \ {op}
               B == R \ {op}
    <2>7. Trees(c, d, T, B \cup K)
      BY <2>6 DEF Trees
    <2>8. Merges(g, list, d, T, B, m)
      <3> HIDE DEF T
      <3>1. \A i \in 1..Len(list) : list[i] \notin B
        BY <1>1, <2>2
      <3> HIDE DEF B
      <3>2. Trees(Cut(g, list), d, T, B \cup {list[i] : i \in 1..Len(list)})
        BY <2>2, <2>7 DEF c
      <3>3. QED BY <2>1, <2>2, <2>3, <3>1, <3>2, MergeIs DEF m
    <2>9. m \in Heap /\ m.root \in K /\ Trees(m.links, d, T, B \cup {m.root})
      BY <2>2, <2>8 DEF Merges
    <2>10. m.root # Null /\ B \cup {m.root} = B \cup ({m.root} \ {Null})
      BY <1>1, <2>9
    <2>11. \A t \in Timers \ S : m.links[t] = h[t]
      <3>1. \A t \in Timers \ S : t \in Timers \ T /\ t \notin K
        BY <1>1
      <3>2. QED BY <1>3, <2>4, <2>8, <3>1 DEF Merges, c
    <2>12. m.root \in S \ R /\ m.root # op
      BY <1>1, <2>9
    <2>13. Dismembered(h, d, S, R, op, m)
      BY <2>9, <2>10, <2>11, <2>12 DEF Dismembered
    <2>14. QED BY <2>13 DEF m, first
  <1>6. QED BY <1>4, <1>5

\* The timers S are one heap with root r, and nobody else has links.
HeapOf(h, d, S, r) ==
    /\ h \in Heaps /\ S \subseteq Timers /\ r \in Timers \cup {Null}
    /\ Trees(h, d, S, {r} \ {Null})
    /\ \A t \in Timers \ S : h[t] = NoLinks

\* What a heap says of its root.
LEMMA RootIs ==
    ASSUME TimerAssumption, NEW h, NEW d \in [Timers -> Nat], NEW S, NEW r, HeapOf(h, d, S, r)
    PROVE  /\ r = Null => S = {}
           /\ r # Null => /\ r \in S /\ h[r].prev = Null /\ h[r].sibling = Null
                          /\ \A u \in S : d[r] <= d[u]
  <1> DEFINE R == {r} \ {Null}
  <1>1. PICK par \in [Timers -> Timers \cup {Null}] : Forest(h, d, S, R, par)
    BY DEF HeapOf, Trees
  <1>2. r = Null => S = {}
    <2>1. r = Null => R = {}
      OBVIOUS
    <2> HIDE DEF R
    <2>2. QED BY <1>1, <2>1, NoRoots
  <1>3. ASSUME r # Null
        PROVE  /\ r \in S /\ h[r].prev = Null /\ h[r].sibling = Null
               /\ \A u \in S : d[r] <= d[u]
    <2>1. R = {r}
      BY <1>3
    <2> HIDE DEF R
    <2>2. r \in S /\ r \in Timers /\ h[r].prev = Null /\ h[r].sibling = Null
          /\ S \subseteq Timers /\ Null \notin Timers
      BY <1>1, <2>1, TimerAssumption DEF Forest
    <2>3. \A t \in S \ R :
              /\ h[t].prev \in S
              /\ \/ h[h[t].prev].child = t /\ par[t] = h[t].prev
                 \/ h[h[t].prev].sibling = t /\ par[t] = par[h[t].prev]
              /\ par[t] \in S /\ d[par[t]] <= d[t]
      BY <1>1 DEF Forest
    <2> DEFINE X == {u \in S \ R : ~(d[r] <= d[par[u]])}
    <2>4. X = {}
      <3> SUFFICES ASSUME X # {} PROVE FALSE
        OBVIOUS
      <3>1. PICK t \in X : t \in R \/ h[t].prev \notin X
        <4>1. X \in SUBSET S
          OBVIOUS
        <4> HIDE DEF X
        <4>2. QED BY <1>1, <4>1 DEF Forest
      <3>2. t \in S \ R /\ h[t].prev \in S /\ ~(d[r] <= d[par[t]]) /\ h[t].prev \notin X
        BY <2>3, <3>1
      <3>3. h[t].prev \notin R => d[r] <= d[par[h[t].prev]]
        BY <3>2
      <3>4. CASE par[t] = h[t].prev
        <4>1. h[t].prev # r
          BY <2>2, <3>2, <3>4
        <4>2. h[t].prev \in S \ R
          BY <2>1, <3>2, <4>1
        <4>3. d[r] <= d[par[h[t].prev]] /\ d[par[h[t].prev]] <= d[h[t].prev] /\ par[h[t].prev] \in S
          BY <2>3, <3>3, <4>2
        <4>4. d[r] \in Nat /\ d[par[h[t].prev]] \in Nat /\ d[h[t].prev] \in Nat
          BY <2>2, <3>2, <4>3
        <4>5. QED BY <3>2, <3>4, <4>3, <4>4
      <3>5. CASE h[h[t].prev].sibling = t /\ par[t] = par[h[t].prev]
        <4>1. h[t].prev # r
          BY <2>2, <3>2, <3>5
        <4>2. QED BY <2>1, <3>2, <3>3, <3>5, <4>1
      <3>6. QED BY <2>3, <3>2, <3>4, <3>5
    <2>5. ASSUME NEW u \in S PROVE d[r] <= d[u]
      <3>1. CASE u = r
        BY <2>2, <3>1
      <3>2. CASE u # r
        <4>1. u \in S \ R
          BY <2>1, <3>2
        <4>2. d[r] <= d[par[u]] /\ d[par[u]] <= d[u] /\ par[u] \in S
          BY <2>3, <2>4, <4>1
        <4>3. d[r] \in Nat /\ d[par[u]] \in Nat /\ d[u] \in Nat
          BY <2>2, <4>2
        <4>4. QED BY <4>2, <4>3
      <3>3. QED BY <3>1, <3>2
    <2>6. QED BY <2>2, <2>5
  <1>4. QED BY <1>2, <1>3

\* pop_root() takes the root out.
LEMMA PopIs ==
    ASSUME TimerAssumption, NEW h, NEW d \in [Timers -> Nat], NEW S, NEW r, HeapOf(h, d, S, r), r # Null
    PROVE  HeapOf(PopRoot(h, d, r).links, d, S \ {r}, PopRoot(h, d, r).root)
  <1> DEFINE R == {r} \ {Null}
             m == MergeChildren(h, d, h[r].child)
             g == [m.links EXCEPT ![r] = NoLinks]
  <1>1. PICK par \in [Timers -> Timers \cup {Null}] : Forest(h, d, S, R, par)
    BY DEF HeapOf, Trees
  <1>2. r \in S /\ r \in R /\ r \in Timers /\ h \in Heaps /\ S \subseteq Timers
    BY RootIs DEF HeapOf
  <1>3. Dismembered(h, d, S, R, r, m)
    <2> HIDE DEF R
    <2>1. Bridged(h, h, S, R, par, r)
      BY <1>1, <1>2, BridgedRoot
    <2>2. QED BY <1>1, <1>2, <2>1, Dismembers
  <1> HIDE DEF m
  <1>4. /\ m.links \in Heaps /\ m.root \in Timers \cup {Null}
        /\ Trees(m.links, d, S \ {r}, {m.root} \ {Null})
        /\ \A t \in Timers \ S : m.links[t] = NoLinks
    <2>1. m \in Heap /\ Trees(m.links, d, S \ {r}, (R \ {r}) \cup ({m.root} \ {Null}))
      BY <1>3 DEF Dismembered
    <2>2. (R \ {r}) \cup ({m.root} \ {Null}) = {m.root} \ {Null}
      OBVIOUS
    <2>3. m.links \in Heaps /\ m.root \in Timers \cup {Null}
      BY <2>1 DEF Heap
    <2>4. \A t \in Timers \ S : m.links[t] = NoLinks
      BY <1>3 DEF Dismembered, HeapOf
    <2>5. QED BY <2>1, <2>2, <2>3, <2>4
  <1>5. g \in Heaps /\ \A t \in Timers : g[t] = IF t = r THEN NoLinks ELSE m.links[t]
    BY <1>2, <1>4 DEF Heaps, Node, NoLinks
  <1>6. PopRoot(h, d, r).links = g /\ PopRoot(h, d, r).root = m.root
    BY DEF PopRoot, m
  <1> HIDE DEF g
  <1>7. Trees(g, d, S \ {r}, {m.root} \ {Null})
    <2>1. \A t \in S \ {r} : g[t] = m.links[t] /\ d[t] = d[t]
      BY <1>2, <1>5
    <2>2. QED BY <1>4, <2>1, TreesSame
  <1>8. HeapOf(g, d, S \ {r}, m.root)
    BY <1>2, <1>4, <1>5, <1>7 DEF HeapOf
  <1>9. QED BY <1>6, <1>8

\* remove() takes the timer out, wherever it is.
LEMMA RemovalIs ==
    ASSUME TimerAssumption, NEW h, NEW d \in [Timers -> Nat], NEW S, NEW r, HeapOf(h, d, S, r), NEW op \in S
    PROVE  HeapOf(Removal(h, d, r, op).links, d, S \ {op}, Removal(h, d, r, op).root)
  <1>1. CASE op = r
    <2>1. r # Null
      BY <1>1, RootIs
    <2>2. QED BY <1>1, <2>1, PopIs DEF Removal
  <1>2. CASE op # r
    <2> DEFINE m == MergeChildren(Unlink(h, op), d, h[op].child)
               joined == IF m.root = Null THEN [m EXCEPT !.root = r] ELSE Meld(m.links, d, r, m.root)
               g == [joined.links EXCEPT ![op] = NoLinks]
    <2>1. r # Null /\ r \in S /\ r \in Timers /\ op \in Timers /\ S \subseteq Timers /\ h \in Heaps
          /\ Null \notin Timers
      BY RootIs, TimerAssumption DEF HeapOf
    <2>2. PICK par \in [Timers -> Timers \cup {Null}] : Forest(h, d, S, {r}, par)
      <3>1. {r} \ {Null} = {r}
        BY <2>1
      <3>2. QED BY <3>1 DEF HeapOf, Trees
    <2>3. Dismembered(h, d, S, {r}, op, m)
      <3>1. op \in S \ {r}
        BY <1>2
      <3>2. Unlink(h, op) \in Heaps /\ Bridged(h, Unlink(h, op), S, {r}, par, op)
        BY <2>1, <2>2, <3>1, UnlinkIs
      <3>3. QED BY <2>1, <2>2, <3>2, Dismembers
    <2> HIDE DEF m
    <2> DEFINE T == S \ {op}
    <2>4. /\ m.links \in Heaps /\ m.root \in Timers \cup {Null} /\ m \in Heap
          /\ Trees(m.links, d, T, {r} \cup ({m.root} \ {Null}))
          /\ \A t \in Timers \ S : m.links[t] = NoLinks
          /\ m.root # r
      <3>1. m \in Heap /\ Trees(m.links, d, S \ {op}, ({r} \ {op}) \cup ({m.root} \ {Null}))
        BY <2>3 DEF Dismembered
      <3>2. {r} \ {op} = {r}
        BY <1>2
      <3>3. m.links \in Heaps /\ m.root \in Timers \cup {Null}
        BY <3>1 DEF Heap
      <3>4. \A t \in Timers \ S : m.links[t] = NoLinks
        BY <2>3 DEF Dismembered, HeapOf
      <3>5. m.root # r
        BY <2>1, <2>3 DEF Dismembered
      <3>6. QED BY <3>1, <3>2, <3>3, <3>4, <3>5
    <2>5. /\ joined \in Heap /\ joined.root \in Timers
          /\ Trees(joined.links, d, T, {joined.root})
          /\ \A t \in Timers \ S : joined.links[t] = NoLinks
      <3>1. CASE m.root = Null
        <4>1. joined = [m EXCEPT !.root = r] /\ joined.links = m.links /\ joined.root = r /\ joined \in Heap
          BY <2>1, <2>4, <3>1 DEF Heap
        <4>2. {r} \cup ({m.root} \ {Null}) = {r}
          BY <3>1
        <4> HIDE DEF joined
        <4>3. QED BY <2>1, <2>4, <4>1, <4>2
      <3>2. CASE m.root # Null
        <4> DEFINE A == {r, m.root}
        <4>1. {r} \cup ({m.root} \ {Null}) = A
          BY <3>2
        <4>2. joined = Meld(m.links, d, r, m.root)
          BY <3>2
        <4> HIDE DEF joined, T
        <4>3. OneTree(m.links, d, T, A, r, m.root, joined)
          <5>1. Trees(m.links, d, T, A) /\ r \in A /\ m.root \in A
            BY <2>4, <4>1
          <5> HIDE DEF A
          <5>2. QED BY <2>4, <4>2, <5>1, MeldMakes
        <4>4. /\ joined \in Heap /\ joined.root \in {r, m.root}
              /\ Trees(joined.links, d, T, (A \ {r, m.root}) \cup {joined.root})
              /\ \A t \in Timers \ T : joined.links[t] = m.links[t]
          BY <4>3 DEF OneTree
        <4>5. (A \ {r, m.root}) \cup {joined.root} = {joined.root}
          OBVIOUS
        <4>6. joined.root \in Timers
          BY <2>1, <2>4, <3>2, <4>4
        <4>7. \A t \in Timers \ S : joined.links[t] = NoLinks
          BY <2>4, <4>4 DEF T
        <4>8. QED BY <4>4, <4>5, <4>6, <4>7
      <3>3. QED BY <3>1, <3>2
    <2> HIDE DEF joined
    <2>6. joined.links \in Heaps
      BY <2>5 DEF Heap
    <2>7. g \in Heaps /\ \A t \in Timers : g[t] = IF t = op THEN NoLinks ELSE joined.links[t]
      BY <2>1, <2>6 DEF Heaps, Node, NoLinks
    <2>8. Removal(h, d, r, op).links = g /\ Removal(h, d, r, op).root = joined.root
      <3>1. Removal(h, d, r, op) = [joined EXCEPT !.links[op] = NoLinks]
        BY <1>2 DEF Removal, joined, m
      <3>2. QED BY <2>5, <3>1 DEF Heap
    <2> HIDE DEF g
    <2>9. Trees(g, d, T, {joined.root} \ {Null})
      <3>1. \A t \in T : g[t] = joined.links[t] /\ d[t] = d[t]
        BY <2>1, <2>7
      <3>2. {joined.root} \ {Null} = {joined.root}
        BY <2>1, <2>5
      <3>3. Trees(joined.links, d, T, {joined.root} \ {Null})
        BY <2>5, <3>2
      <3> HIDE DEF T
      <3>4. QED BY <3>1, <3>3, TreesSame
    <2>10. HeapOf(g, d, S \ {op}, joined.root)
      BY <2>1, <2>5, <2>7, <2>9 DEF HeapOf
    <2>11. QED BY <2>8, <2>10
  <1>3. QED BY <1>1, <1>2

\* A timer without links beside the trees is one more of them.
LEMMA OneMore ==
    ASSUME TimerAssumption, NEW h, NEW d \in [Timers -> Nat], NEW S, NEW R, Trees(h, d, S, R),
           NEW t \in Timers \ S, h[t] = NoLinks
    PROVE  Trees(h, d, S \cup {t}, R \cup {t})
  <1>1. PICK par \in [Timers -> Timers \cup {Null}] : Forest(h, d, S, R, par)
    BY DEF Trees
  <1>2. h[t].prev = Null /\ h[t].child = Null /\ h[t].sibling = Null
    BY DEF NoLinks
  <1>3. /\ R \subseteq S /\ S \subseteq Timers /\ Null \notin Timers
        /\ \A u \in R : h[u].prev = Null /\ h[u].sibling = Null
        /\ \A u \in S \ R :
              /\ h[u].prev \in S
              /\ \/ h[h[u].prev].child = u /\ par[u] = h[u].prev
                 \/ h[h[u].prev].sibling = u /\ par[u] = par[h[u].prev]
              /\ par[u] \in S /\ d[par[u]] <= d[u]
        /\ \A u \in S : h[u].child # Null =>
              /\ h[u].child \in S \ R /\ h[h[u].child].prev = u /\ h[u].sibling # h[u].child
        /\ \A u \in S : h[u].sibling # Null => h[u].sibling \in S \ R /\ h[h[u].sibling].prev = u
        /\ \A X \in SUBSET S : X # {} => \E u \in X : u \in R \/ h[u].prev \notin X
        /\ \A X \in SUBSET S : X # {} => \E u \in X : h[u].sibling \notin X
    BY <1>1, TimerAssumption DEF Forest
  <1>4. ASSUME NEW X \in SUBSET (S \cup {t}), X # {}
        PROVE  /\ \E u \in X : u \in R \cup {t} \/ h[u].prev \notin X
               /\ \E u \in X : h[u].sibling \notin X
    <2>1. X \ {t} \in SUBSET S /\ Null \notin X
      BY <1>3
    <2>2. CASE X \ {t} = {}
      BY <1>2, <1>4, <2>1, <2>2
    <2>3. CASE X \ {t} # {}
      <3>1. PICK u \in X \ {t} : u \in R \/ h[u].prev \notin X \ {t}
        BY <1>3, <2>1, <2>3
      <3>2. u \in S /\ (u \in R \/ h[u].prev # t)
        BY <1>3, <2>1
      <3>3. PICK v \in X \ {t} : h[v].sibling \notin X \ {t}
        BY <1>3, <2>1, <2>3
      <3>4. h[v].sibling # t
        BY <1>3, <2>1
      <3>5. QED BY <3>1, <3>2, <3>3, <3>4
    <2>4. QED BY <2>2, <2>3
  <1>5. (S \cup {t}) \ (R \cup {t}) = S \ R
    BY <1>3
  <1>6. Forest(h, d, S \cup {t}, R \cup {t}, par)
    BY <1>2, <1>3, <1>4, <1>5 DEF Forest
  <1>7. QED BY <1>6 DEF Trees

\* add() puts the timer in, and it is the root when it is earlier than all others.
Added(d, S, t, when, m) ==
    /\ HeapOf(m.links, [d EXCEPT ![t] = when], S \cup {t}, m.root)
    /\ m.root = t <=> \A u \in S : when < d[u]

WithOne(h, d, r, t, when) ==
    IF r = Null THEN [links |-> [h EXCEPT ![t] = NoLinks], root |-> t]
    ELSE Meld([h EXCEPT ![t] = NoLinks], [d EXCEPT ![t] = when], r, t)

LEMMA AddIs ==
    ASSUME TimerAssumption, NEW h, NEW d \in [Timers -> Nat], NEW S, NEW r, HeapOf(h, d, S, r),
           NEW t \in Timers \ S, NEW when \in Nat
    PROVE  Added(d, S, t, when, WithOne(h, d, r, t, when))
  <1> DEFINE e == [d EXCEPT ![t] = when]
             g == [h EXCEPT ![t] = NoLinks]
             m == WithOne(h, d, r, t, when)
  <1>1. /\ h \in Heaps /\ S \subseteq Timers /\ r \in Timers \cup {Null} /\ Null \notin Timers
        /\ Trees(h, d, S, {r} \ {Null}) /\ h[t] = NoLinks
        /\ \A u \in Timers \ S : h[u] = NoLinks
    BY TimerAssumption DEF HeapOf
  <1>2. g = h
    <2>1. \A u \in Timers : g[u] = h[u]
      BY <1>1 DEF Heaps
    <2>2. h = [u \in Timers |-> h[u]] /\ g = [u \in Timers |-> g[u]]
      BY <1>1 DEF Heaps
    <2>3. QED BY <2>1, <2>2
  <1>3. e \in [Timers -> Nat] /\ e[t] = when /\ \A u \in S : e[u] = d[u]
    OBVIOUS
  <1>31. m = IF r = Null THEN [links |-> g, root |-> t] ELSE Meld(g, e, r, t)
    BY DEF WithOne
  <1> HIDE DEF g, e, m
  <1> DEFINE T == S \cup {t}
  <1>4. Trees(g, e, S, {r} \ {Null})
    <2>1. \A u \in S : g[u] = h[u] /\ e[u] = d[u]
      BY <1>2, <1>3
    <2>2. QED BY <1>1, <2>1, TreesSame
  <1>5. Trees(g, e, T, ({r} \ {Null}) \cup {t}) /\ g \in Heaps
    BY <1>1, <1>2, <1>3, <1>4, OneMore
  <1>6. CASE r = Null
    <2>1. S = {} /\ m.links = g /\ m.root = t
      BY <1>6, <1>31, RootIs
    <2>2. ({r} \ {Null}) \cup {t} = {m.root} \ {Null}
      BY <1>1, <1>6, <2>1
    <2>3. Trees(m.links, e, T, {m.root} \ {Null})
      BY <1>5, <2>1, <2>2
    <2>4. HeapOf(m.links, e, T, m.root)
      BY <1>1, <1>2, <2>1, <2>3 DEF HeapOf
    <2>5. QED BY <2>1, <2>4 DEF Added, e, m
  <1>7. CASE r # Null
    <2> DEFINE A == {r, t}
    <2>1. m = Meld(g, e, r, t) /\ r \in Timers /\ r \in S /\ r # t
      BY <1>1, <1>7, <1>31, RootIs
    <2>2. ({r} \ {Null}) \cup {t} = A
      BY <1>1, <2>1
    <2>3. OneTree(g, e, T, A, r, t, m)
      <3>1. r \in A /\ t \in A /\ Trees(g, e, T, A)
        BY <1>5, <2>2
      <3> HIDE DEF A, T
      <3>2. OneTree(g, e, T, A, r, t, Meld(g, e, r, t))
        BY <1>3, <1>5, <2>1, <3>1, MeldMakes
      <3>3. QED BY <2>1, <3>2
    <2>4. /\ m \in Heap /\ m.root \in {r, t} /\ (m.root = t <=> e[t] < e[r])
          /\ Trees(m.links, e, T, (A \ {r, t}) \cup {m.root})
          /\ \A u \in Timers \ T : m.links[u] = g[u]
      BY <2>3 DEF OneTree
    <2>5. (A \ {r, t}) \cup {m.root} = {m.root} \ {Null} /\ m.root \in Timers
      BY <1>1, <2>1, <2>4
    <2>6. m.links \in Heaps /\ T \subseteq Timers
      BY <1>1, <2>4 DEF Heap
    <2>7. HeapOf(m.links, e, T, m.root)
      <3>1. \A u \in Timers \ T : m.links[u] = NoLinks
        BY <1>1, <1>2, <2>4
      <3>2. QED BY <2>4, <2>5, <2>6, <3>1 DEF HeapOf
    <2>8. m.root = t <=> \A u \in S : when < d[u]
      <3>1. m.root = t <=> when < d[r]
        BY <1>3, <2>1, <2>4
      <3>2. \A u \in S : d[r] <= d[u]
        BY <1>7, RootIs
      <3>3. d[r] \in Nat /\ \A u \in S : d[u] \in Nat
        BY <1>1, <2>1
      <3>4. QED BY <2>1, <3>1, <3>2, <3>3
    <2>9. QED BY <2>7, <2>8 DEF Added, e, m
  <1>8. QED BY <1>6, <1>7

-----------------------------------------------------------------------------
\* One round of take_ready_timers().
Taken == [links : Heaps, root : Timers \cup {Null}, list : Seq(Timers)]

Stopped(d, clock, s) == s.root = Null \/ d[s.root] > clock

OneLonger(t, s) == Len(t.list) = Len(s.list) + 1

Round(d, clock, s) ==
    IF s.root = Null \/ d[s.root] > clock THEN s
    ELSE LET p == PopRoot(s.links, d, s.root)
         IN  [links |-> p.links, root |-> p.root, list |-> Append(s.list, s.root)]

\* What has been taken is due, in order, and before what is left.
TakenInv(d, S, clock, s) ==
    LET out == {s.list[i] : i \in 1..Len(s.list)}
    IN  /\ s \in Taken
        /\ HeapOf(s.links, d, S \ out, s.root)
        /\ \A i, j \in 1..Len(s.list) : s.list[i] = s.list[j] => i = j
        /\ \A i \in 1..Len(s.list) :
              s.list[i] \in S /\ d[s.list[i]] <= clock /\ \A u \in S \ out : d[s.list[i]] <= d[u]
        /\ \A i \in 1..Len(s.list) - 1 : d[s.list[i]] <= d[s.list[i + 1]]

\* Each round keeps that, and takes a timer unless it stops.
LEMMA RoundKeeps ==
    ASSUME TimerAssumption, NEW d \in [Timers -> Nat], NEW S, NEW clock \in Nat, NEW s,
           TakenInv(d, S, clock, s)
    PROVE  /\ TakenInv(d, S, clock, Round(d, clock, s))
           /\ ~Stopped(d, clock, s) => OneLonger(Round(d, clock, s), s)
  <1> DEFINE r == s.root
             a == s.list
             n == Len(a)
             out == {a[i] : i \in 1..n}
             p == PopRoot(s.links, d, r)
             b == Append(a, r)
             w == [links |-> p.links, root |-> p.root, list |-> b]
             more == {b[i] : i \in 1..Len(b)}
  <1>1. /\ s \in Taken /\ HeapOf(s.links, d, S \ out, r)
        /\ \A i, j \in 1..n : a[i] = a[j] => i = j
        /\ \A i \in 1..n : a[i] \in S /\ d[a[i]] <= clock /\ \A u \in S \ out : d[a[i]] <= d[u]
        /\ \A i \in 1..n - 1 : d[a[i]] <= d[a[i + 1]]
    BY DEF TakenInv
  <1>2. CASE r = Null \/ d[r] > clock
    BY <1>2 DEF Round, Stopped
  <1>3. CASE ~(r = Null \/ d[r] > clock)
    <2>1. w = Round(d, clock, s) /\ r # Null
      BY <1>3 DEF Round
    <2>2. a \in Seq(Timers) /\ n \in Nat /\ r \in Timers
      BY <1>1, <1>3 DEF Taken
    <2>3. /\ b \in Seq(Timers) /\ Len(b) = n + 1 /\ b[n + 1] = r
          /\ \A i \in 1..n : b[i] = a[i]
      <3> HIDE DEF a, r, n
      <3>1. a \in Seq(Timers) /\ r \in Timers
        BY <2>2
      <3>2. /\ b \in Seq(Timers) /\ Len(b) = Len(a) + 1 /\ b[Len(a) + 1] = r
            /\ \A i \in 1..Len(a) : b[i] = a[i]
        BY <3>1, AppendProperties
      <3>3. QED BY <3>2 DEF n
    <2>4. r \in S \ out /\ \A u \in S \ out : d[r] <= d[u]
      <3> DEFINE rest == S \ out
      <3>1. HeapOf(s.links, d, rest, r) /\ r # Null
        BY <1>1, <2>1
      <3> HIDE DEF rest, r
      <3>2. r \in rest /\ \A u \in rest : d[r] <= d[u]
        BY <3>1, RootIs
      <3>3. QED BY <3>2 DEF rest
    <2>5. HeapOf(p.links, d, (S \ out) \ {r}, p.root)
      BY <1>1, <2>1, PopIs
    <2>6. d[r] \in Nat /\ d[r] <= clock
      BY <1>3, <2>2
    <2>7. (S \ out) \ {r} \subseteq Timers
      BY <2>5 DEF HeapOf
    <2> HIDE DEF a, b, n, p, r, w
    <2>8. /\ more = out \cup {r} /\ \A i \in 1..n + 1 : i = n + 1 \/ i \in 1..n
      <3>1. \A i \in 1..n + 1 : i = n + 1 \/ i \in 1..n
        BY <2>2
      <3>2. \A i \in 1..n : i \in 1..n + 1
        BY <2>2
      <3>3. n + 1 \in 1..n + 1
        BY <2>2
      <3>4. QED BY <2>3, <3>1, <3>2, <3>3
    <2>9. S \ more = (S \ out) \ {r}
      BY <2>8
    <2>10. HeapOf(p.links, d, S \ more, p.root)
      BY <2>5, <2>9
    <2>11. \A i, j \in 1..Len(b) : b[i] = b[j] => i = j
      <3>1. \A i \in 1..n : a[i] # r
        BY <2>4
      <3>2. QED BY <1>1, <2>3, <2>8, <3>1
    <2>12. ASSUME NEW i \in 1..Len(b)
           PROVE  b[i] \in S /\ d[b[i]] <= clock /\ \A u \in S \ more : d[b[i]] <= d[u]
      <3>1. CASE i = n + 1
        BY <2>3, <2>4, <2>6, <2>9, <3>1
      <3>2. CASE i \in 1..n
        BY <1>1, <2>3, <2>9, <3>2
      <3>3. QED BY <2>3, <2>8, <3>1, <3>2
    <2>13. ASSUME NEW i \in 1..Len(b) - 1 PROVE d[b[i]] <= d[b[i + 1]]
      <3>1. i \in 1..n /\ (i = n \/ (i \in 1..n - 1 /\ i + 1 \in 1..n))
        BY <2>2, <2>3
      <3>2. CASE i = n
        BY <1>1, <2>3, <2>4, <3>1, <3>2
      <3>3. CASE i \in 1..n - 1 /\ i + 1 \in 1..n
        BY <1>1, <2>3, <3>1, <3>3
      <3>4. QED BY <3>1, <3>2, <3>3
    <2>14. w.links = p.links /\ w.root = p.root /\ w.list = b /\ w \in Taken
      <3>1. p.links \in Heaps /\ p.root \in Timers \cup {Null}
        BY <2>10 DEF HeapOf
      <3>2. QED BY <2>3, <3>1 DEF w, Taken
    <2> HIDE DEF more, out
    <2>15. TakenInv(d, S, clock, w)
      <3>1. more = {w.list[i] : i \in 1..Len(w.list)}
        BY <2>14 DEF more
      <3>2. QED BY <2>10, <2>11, <2>12, <2>13, <2>14, <3>1 DEF TakenInv
    <2>16. QED BY <2>1, <2>3, <2>14, <2>15 DEF n, a, OneLonger
  <1>4. QED BY <1>2, <1>3 DEF Stopped

\* The rounds of take_ready_timers().
Rest(h, d, r, clock, f, n) ==
    IF n = 0 THEN [links |-> h, root |-> r, list |-> <<>>] ELSE Round(d, clock, f[n - 1])

\* The loop stops before it has gone round once for every timer there is.
LEMMA ReadyIs ==
    ASSUME TimerAssumption, NEW h, NEW d \in [Timers -> Nat], NEW S, NEW r, HeapOf(h, d, S, r),
           NEW clock \in Nat
    PROVE  /\ TakenInv(d, S, clock, ReadyTimers(h, d, r, clock))
           /\ Stopped(d, clock, ReadyTimers(h, d, r, clock))
  <1> DEFINE N == Cardinality(Timers)
             first == [links |-> h, root |-> r, list |-> <<>>]
             take == CHOOSE f : f = [n \in 0..N |-> Rest(h, d, r, clock, f, n)]
  <1>1. ReadyTimers(h, d, r, clock) = take[N]
    BY DEF ReadyTimers, Rest, Round
  <1>2. N \in Nat
    BY FS_CardinalityType DEF TimerAssumption
  <1>3. TakenInv(d, S, clock, first) /\ Len(first.list) = 0
    <2>1. first.links = h /\ first.root = r /\ first.list = <<>> /\ Len(first.list) = 0
      BY EmptySeq
    <2>2. first \in Taken
      BY EmptySeq DEF Taken, HeapOf
    <2> HIDE DEF first
    <2>3. {first.list[i] : i \in 1..Len(first.list)} = {}
      BY <2>1
    <2>4. S \ {first.list[i] : i \in 1..Len(first.list)} = S
      BY <2>3
    <2>5. /\ \A i \in 1..Len(first.list) : FALSE
          /\ \A i \in 1..Len(first.list) - 1 : FALSE
      BY <2>1
    <2>6. QED BY <2>1, <2>2, <2>4, <2>5 DEF TakenInv
  <1> HIDE DEF N, take, first
  <1>4. take = [n \in 0..N |-> Rest(h, d, r, clock, take, n)]
    <2> DEFINE X == {v \in Taken : TakenInv(d, S, clock, v)}
               step == [y \in Nat \X X |-> Round(d, clock, y[2])]
    <2>1. first \in X
      BY <1>3 DEF TakenInv
    <2>2. ASSUME NEW v \in X PROVE Round(d, clock, v) \in X
      <3>1. TakenInv(d, S, clock, v)
        OBVIOUS
      <3>2. TakenInv(d, S, clock, Round(d, clock, v))
        BY <3>1, RoundKeeps
      <3>3. QED BY <3>2 DEF TakenInv
    <2> HIDE DEF X
    <2>3. step \in [Nat \X X -> X]
      BY <2>2
    <2>4. PICK f \in [0..N -> X] : f[0] = first /\ \A i \in 1..N : f[i] = step[<<i, f[i - 1]>>]
      <3> HIDE DEF step
      <3>1. \E f : Loops(f, X, first, step, N)
        BY <1>2, <2>1, <2>3, Rounds
      <3>2. QED BY <3>1 DEF Loops
    <2>5. ASSUME NEW n \in 0..N PROVE f[n] = Rest(h, d, r, clock, f, n)
      <3>1. CASE n = 0
        BY <2>4, <3>1 DEF Rest, first
      <3>2. CASE n # 0
        <4>1. n \in 1..N /\ n \in Nat /\ n - 1 \in 0..N
          BY <1>2, <3>2
        <4>2. f[n] = step[<<n, f[n - 1]>>] /\ <<n, f[n - 1]>> \in Nat \X X
          BY <2>4, <4>1
        <4>3. f[n] = Round(d, clock, f[n - 1])
          BY <4>2
        <4>4. QED BY <3>2, <4>3 DEF Rest
      <3>3. QED BY <3>1, <3>2
    <2>6. f = [n \in 0..N |-> Rest(h, d, r, clock, f, n)]
      BY <2>4, <2>5
    <2>7. QED BY <2>6 DEF take
  <1> DEFINE Right(n) == /\ TakenInv(d, S, clock, take[n])
                         /\ Stopped(d, clock, take[n]) \/ Len(take[n].list) = n
             wrong == {n \in 0..N : ~Right(n)}
  <1>5. wrong = {}
    <2> SUFFICES ASSUME wrong # {} PROVE FALSE
      OBVIOUS
    <2>1. PICK n \in wrong : \A l \in wrong : n <= l
      <3>1. wrong \in SUBSET Nat
        OBVIOUS
      <3> HIDE DEF wrong
      <3>2. QED BY <3>1, LeastNumber
    <2>2. n \in 0..N /\ ~Right(n) /\ \A l \in 0..N : ~Right(l) => n <= l
      BY <2>1
    <2> HIDE DEF Right, wrong
    <2>3. Right(0)
      <3>1. take[0] = first
        BY <1>2, <1>4 DEF Rest, first
      <3>2. QED BY <1>3, <3>1 DEF Right
    <2>4. n # 0 /\ n - 1 \in 0..N /\ Right(n - 1)
      <3>1. n # 0
        BY <2>2, <2>3
      <3>2. n - 1 \in 0..N /\ ~(n <= n - 1)
        BY <1>2, <2>2, <3>1
      <3>3. QED BY <2>2, <3>1, <3>2
    <2> DEFINE s == take[n - 1]
    <2>5. take[n] = Round(d, clock, s)
      BY <1>4, <2>2, <2>4 DEF Rest
    <2>6. TakenInv(d, S, clock, s) /\ (Stopped(d, clock, s) \/ Len(s.list) = n - 1)
      BY <2>4 DEF Right
    <2> HIDE DEF s
    <2>7. TakenInv(d, S, clock, take[n])
      BY <2>5, <2>6, RoundKeeps
    <2>8. CASE Stopped(d, clock, s)
      <3>1. Round(d, clock, s) = s
        BY <2>8 DEF Round, Stopped
      <3>11. take[n] = s
        BY <2>5, <3>1
      <3>2. QED BY <2>2, <2>7, <2>8, <3>11 DEF Right
    <2>9. CASE ~Stopped(d, clock, s)
      <3>1. OneLonger(Round(d, clock, s), s)
        BY <2>6, <2>9, RoundKeeps
      <3>2. Len(take[n].list) = n
        BY <1>2, <2>2, <2>5, <2>6, <2>9, <3>1 DEF OneLonger
      <3>3. QED BY <2>2, <2>7, <3>2 DEF Right
    <2>10. QED BY <2>8, <2>9
  <1>6. Right(N)
    <2>1. N \in 0..N
      BY <1>2
    <2> HIDE DEF Right
    <2>2. QED BY <1>5, <2>1
  <1>7. Stopped(d, clock, take[N])
    <2> DEFINE s == take[N]
               a == s.list
               b == Append(a, s.root)
    <2>1. SUFFICES ASSUME ~Stopped(d, clock, s) PROVE FALSE
      OBVIOUS
    <2>2. TakenInv(d, S, clock, s) /\ Len(a) = N
      BY <1>6, <2>1
    <2> HIDE DEF s
    <2>3. TakenInv(d, S, clock, Round(d, clock, s)) /\ Len(Round(d, clock, s).list) = N + 1
      <3>1. TakenInv(d, S, clock, Round(d, clock, s)) /\ OneLonger(Round(d, clock, s), s)
        BY <2>1, <2>2, RoundKeeps
      <3>2. QED BY <2>2, <3>1 DEF OneLonger
    <2> DEFINE w == Round(d, clock, s).list
    <2>4. w \in Seq(Timers) /\ \A i, j \in 1..Len(w) : w[i] = w[j] => i = j
      BY <2>3 DEF TakenInv, Taken
    <2> HIDE DEF w
    <2>5. Len(w) <= N
      BY <2>4, NoLonger, TimerAssumption DEF N
    <2>6. Len(w) = N + 1
      BY <2>3 DEF w
    <2>7. QED BY <1>2, <2>5, <2>6
  <1>8. QED BY <1>1, <1>6, <1>7

\* The inductive invariant: the queued timers are one heap.
HeapInv ==
    /\ HeapOf(links, expiry, inside, root)
    /\ expiry \in [Timers -> Nat]
    /\ answer = wanted

\* A heap without timers.
LEMMA NoHeap ==
    ASSUME TimerAssumption, NEW d
    PROVE  HeapOf([t \in Timers |-> NoLinks], d, {}, Null)
  <1> DEFINE h == [t \in Timers |-> NoLinks]
             par == [t \in Timers |-> Null]
  <1>1. Forest(h, d, {}, {}, par)
    BY DEF Forest
  <1>2. par \in [Timers -> Timers \cup {Null}]
    OBVIOUS
  <1>3. h \in Heaps /\ {Null} \ {Null} = {} /\ \A t \in Timers \ {} : h[t] = NoLinks
    BY DEF Heaps, Node, NoLinks
  <1> HIDE DEF h, par
  <1>4. Trees(h, d, {}, {Null} \ {Null})
    BY <1>1, <1>2, <1>3 DEF Trees
  <1>5. HeapOf(h, d, {}, Null)
    BY <1>3, <1>4 DEF HeapOf
  <1>6. QED BY <1>5 DEF h

\* remove() finds a timer by its links exactly when it is queued.
LEMMA FoundIs ==
    ASSUME TimerAssumption, NEW h, NEW d \in [Timers -> Nat], NEW S, NEW r, HeapOf(h, d, S, r),
           NEW t \in Timers
    PROVE  t \in S <=> t = r \/ h[t].prev # Null
  <1>1. r # Null => r \in S
    BY RootIs
  <1>2. PICK par \in [Timers -> Timers \cup {Null}] : Forest(h, d, S, {r} \ {Null}, par)
    BY DEF HeapOf, Trees
  <1>3. Null \notin Timers /\ S \subseteq Timers /\ \A u \in Timers \ S : h[u] = NoLinks
    BY TimerAssumption DEF HeapOf
  <1>4. \A u \in S \ ({r} \ {Null}) : h[u].prev \in S
    BY <1>2 DEF Forest
  <1>5. CASE t \in S
    <2>1. t # r => t \in S \ ({r} \ {Null})
      BY <1>5
    <2>2. t # r => h[t].prev # Null
      BY <1>3, <1>4, <2>1
    <2>3. QED BY <1>5, <2>2
  <1>6. CASE t \notin S
    <2>1. h[t].prev = Null
      BY <1>3, <1>6 DEF NoLinks
    <2>2. QED BY <1>3, <1>1, <1>6, <2>1
  <1>7. QED BY <1>5, <1>6

\* The three facts the theorem rests on: the empty queue is a heap,
LEMMA HeapStarts == TimerAssumption /\ HeapInit => HeapInv
  <1> SUFFICES ASSUME TimerAssumption, HeapInit PROVE HeapInv
    OBVIOUS
  <1>1. HeapOf(links, expiry, inside, root)
    BY NoHeap DEF HeapInit
  <1>2. QED BY <1>1 DEF HeapInit, HeapInv

\* each call leaves one and answers what it must,
LEMMA HeapKept == TimerAssumption /\ HeapInv /\ [HeapNext]_heapVars => HeapInv'
  <1> SUFFICES ASSUME TimerAssumption, HeapInv, [HeapNext]_heapVars PROVE HeapInv'
    OBVIOUS
  <1>1. /\ HeapOf(links, expiry, inside, root)
        /\ expiry \in [Timers -> Nat] /\ answer = wanted
        /\ inside \subseteq Timers /\ Deadlines \subseteq Nat /\ Null \notin Timers
    BY TimerAssumption DEF HeapInv, HeapOf
  <1>2. ASSUME NEW t \in Timers, NEW when \in Deadlines, Add(t, when) PROVE HeapInv'
    <2> DEFINE m == WithOne(links, expiry, root, t, when)
    <2>1. /\ t \notin inside /\ expiry' = [expiry EXCEPT ![t] = when]
          /\ links' = m.links /\ root' = m.root /\ inside' = inside \cup {t}
          /\ answer' = (m.root = t) /\ wanted' = (\A u \in inside : when < expiry[u])
      BY <1>2 DEF Add, WithOne
    <2> HIDE DEF m
    <2>2. Added(expiry, inside, t, when, m)
      <3>1. when \in Nat /\ t \in Timers \ inside
        BY <1>1, <2>1
      <3>2. QED BY <1>1, <3>1, AddIs DEF m
    <2>3. HeapOf(links', expiry', inside', root') /\ (m.root = t <=> \A u \in inside : when < expiry[u])
      BY <2>1, <2>2 DEF Added
    <2>4. answer' = wanted'
      <3> DEFINE first == \A u \in inside : when < expiry[u]
      <3>1. answer' = (m.root = t) /\ wanted' = first /\ (m.root = t <=> first)
        BY <2>1, <2>3
      <3> HIDE DEF first
      <3>2. QED BY <3>1
    <2>5. expiry' \in [Timers -> Nat]
      BY <1>1, <2>1
    <2>6. QED BY <2>3, <2>4, <2>5 DEF HeapInv
  <1>3. ASSUME NEW t \in Timers, RemoveTimer(t) PROVE HeapInv'
    <2> DEFINE found == t = root \/ links[t].prev # Null
               m == Removal(links, expiry, root, t)
    <2>1. /\ links' = IF found THEN m.links ELSE links
          /\ root' = IF found THEN m.root ELSE root
          /\ inside' = inside \ {t} /\ expiry' = expiry
          /\ answer' = found /\ wanted' = (t \in inside)
      BY <1>3 DEF RemoveTimer
    <2>2. t \in inside <=> found
      BY <1>1, FoundIs
    <2>3. t \in inside => HeapOf(m.links, expiry, inside \ {t}, m.root)
      BY <1>1, RemovalIs
    <2>4. t \notin inside => inside \ {t} = inside
      OBVIOUS
    <2> HIDE DEF found, m
    <2>5. HeapOf(links', expiry', inside', root')
      BY <1>1, <2>1, <2>2, <2>3, <2>4
    <2>6. answer' = wanted'
      <3> DEFINE queued == t \in inside
      <3>1. answer' = found /\ wanted' = queued /\ (queued <=> found)
        BY <2>1, <2>2
      <3>2. (queued <=> found) => queued = found
        BY DEF found
      <3> HIDE DEF queued
      <3>3. QED BY <3>1, <3>2
    <2>7. QED BY <1>1, <2>1, <2>5, <2>6 DEF HeapInv
  <1>4. ASSUME NEW clock \in Deadlines, TakeReady(clock) PROVE HeapInv'
    <2> DEFINE m == ReadyTimers(links, expiry, root, clock)
               out == ToSet(m.list)
    <2>1. /\ links' = m.links /\ root' = m.root /\ inside' = inside \ out
          /\ answer' = <<out, InOrder(m.list)>>
          /\ wanted' = <<{t \in inside : expiry[t] <= clock}, TRUE>>
          /\ expiry' = expiry
      BY <1>4 DEF TakeReady
    <2>2. clock \in Nat /\ TakenInv(expiry, inside, clock, m) /\ Stopped(expiry, clock, m)
      BY <1>1, ReadyIs
    <2> HIDE DEF m
    <2>3. /\ m.list \in Seq(Timers)
          /\ HeapOf(m.links, expiry, inside \ out, m.root)
          /\ \A i \in 1..Len(m.list) : m.list[i] \in inside /\ expiry[m.list[i]] <= clock
          /\ \A i \in 1..Len(m.list) - 1 : expiry[m.list[i]] <= expiry[m.list[i + 1]]
          /\ out = {m.list[i] : i \in 1..Len(m.list)}
      <3>1. m.list \in Seq(Timers)
        BY <2>2 DEF TakenInv, Taken
      <3>2. out = {m.list[i] : i \in 1..Len(m.list)}
        BY <3>1 DEF ToSet
      <3>3. QED BY <2>2, <3>1, <3>2 DEF TakenInv
    <2>4. InOrder(m.list)
      BY <2>3 DEF InOrder
    <2>5. out = {t \in inside : expiry[t] <= clock}
      <3>1. \A t \in out : t \in inside /\ expiry[t] <= clock
        BY <2>3
      <3>2. ASSUME NEW t \in inside, t \notin out PROVE ~(expiry[t] <= clock)
        <4> DEFINE rest == inside \ out
        <4>1. HeapOf(m.links, expiry, rest, m.root) /\ t \in rest
          BY <2>3, <3>2
        <4> HIDE DEF rest
        <4>2. /\ m.root = Null => rest = {}
              /\ m.root # Null => m.root \in rest /\ \A u \in rest : expiry[m.root] <= expiry[u]
          BY <1>1, <4>1, RootIs
        <4>3. m.root \in rest /\ expiry[m.root] <= expiry[t] /\ expiry[m.root] > clock
          BY <2>2, <4>1, <4>2 DEF Stopped
        <4>4. m.root \in Timers /\ t \in Timers
          BY <1>1, <4>3 DEF rest
        <4>5. expiry[m.root] \in Nat /\ expiry[t] \in Nat
          BY <1>1, <4>4
        <4>6. QED BY <2>2, <4>3, <4>5
      <3> HIDE DEF out
      <3>3. QED BY <3>1, <3>2
    <2> HIDE DEF out
    <2>6. answer' = wanted'
      <3>1. InOrder(m.list) = TRUE
        BY <2>4 DEF InOrder
      <3>2. QED BY <2>1, <2>5, <3>1
    <2>7. HeapOf(links', expiry', inside', root')
      BY <2>1, <2>3
    <2>8. QED BY <1>1, <2>1, <2>6, <2>7 DEF HeapInv
  <1>5. CASE UNCHANGED heapVars
    BY <1>5 DEF heapVars, HeapInv, HeapOf, Trees
  <1>6. QED BY <1>2, <1>3, <1>4, <1>5 DEF HeapNext

\* and from its root the links of a heap lead to all of its timers and no other,
\* from each timer to none that is earlier.
LEMMA HeapSays == TimerAssumption /\ HeapInv => HeapIsTheSet
  <1> SUFFICES ASSUME TimerAssumption, HeapInv PROVE HeapIsTheSet
    OBVIOUS
  <1> DEFINE R == {root} \ {Null}
  <1>1. /\ HeapOf(links, expiry, inside, root)
        /\ expiry \in [Timers -> Nat] /\ answer = wanted
        /\ inside \subseteq Timers /\ Null \notin Timers
        /\ \A t \in Timers \ inside : links[t] = NoLinks
    BY TimerAssumption DEF HeapInv, HeapOf
  <1>2. PICK par \in [Timers -> Timers \cup {Null}] : Forest(links, expiry, inside, R, par)
    BY <1>1 DEF HeapOf, Trees
  <1>3. /\ root = Null => inside = {}
        /\ root # Null => /\ root \in inside /\ links[root].prev = Null /\ links[root].sibling = Null
                          /\ \A u \in inside : expiry[root] <= expiry[u]
    BY <1>1, RootIs
  <1> HIDE DEF R
  <1>4. /\ R \subseteq inside
        /\ \A t \in R : links[t].prev = Null /\ links[t].sibling = Null
        /\ \A t \in inside \ R :
              /\ links[t].prev \in inside
              /\ \/ links[links[t].prev].child = t /\ par[t] = links[t].prev
                 \/ links[links[t].prev].sibling = t /\ par[t] = par[links[t].prev]
              /\ par[t] \in inside /\ expiry[par[t]] <= expiry[t]
        /\ \A t \in inside : links[t].child # Null =>
              /\ links[t].child \in inside \ R /\ links[links[t].child].prev = t
              /\ links[t].sibling # links[t].child
        /\ \A t \in inside : links[t].sibling # Null =>
              links[t].sibling \in inside \ R /\ links[links[t].sibling].prev = t
        /\ \A X \in SUBSET inside : X # {} => \E t \in X : t \in R \/ links[t].prev \notin X
    BY <1>2 DEF Forest
  <1> DEFINE Closed(below, t) ==
                 \A v \in below :
                    {links[v].child, IF v = t THEN Null ELSE links[v].sibling} \subseteq below \cup {Null}
  <1>5. ASSUME NEW t \in Timers, NEW below \in SUBSET Timers, t \in below, Closed(below, t)
        PROVE  Subtree(t) \subseteq below
    BY <1>5 DEF Subtree
  <1>6. ASSUME root # Null PROVE Subtree(root) = inside
    <2>1. root \in Timers /\ root \in inside /\ R = {root}
      BY <1>1, <1>3, <1>6 DEF R
    <2>2. Subtree(root) \subseteq inside
      <3>1. Closed(inside, root)
        BY <1>4
      <3> HIDE DEF Closed
      <3>2. QED BY <1>1, <1>5, <2>1, <3>1
    <2>3. ASSUME NEW below \in SUBSET Timers, root \in below, Closed(below, root)
          PROVE  inside \subseteq below
      <3> DEFINE X == inside \ below
      <3>1. SUFFICES ASSUME X # {} PROVE FALSE
        OBVIOUS
      <3>2. PICK t \in X : t \in R \/ links[t].prev \notin X
        <4>1. X \in SUBSET inside
          OBVIOUS
        <4> HIDE DEF X
        <4>2. QED BY <1>4, <3>1, <4>1
      <3>3. t \in inside \ R /\ t \notin below /\ links[t].prev \in below /\ t # Null
        BY <1>1, <1>4, <2>1, <2>3, <3>2
      <3>4. links[links[t].prev].sibling = t => links[t].prev # root
        BY <1>3, <1>6, <3>3
      <3>5. QED BY <1>4, <2>3, <3>3, <3>4
    <2>4. ASSUME NEW u \in inside PROVE u \in Subtree(root)
      <3>1. \A below \in SUBSET Timers : root \in below /\ Closed(below, root) => u \in below
        <4> HIDE DEF Closed
        <4>1. QED BY <2>3
      <3>2. u \in Timers
        BY <1>1
      <3>3. QED BY <3>1, <3>2 DEF Subtree
    <2>5. QED BY <2>2, <2>4
  <1>7. ASSUME NEW t \in inside, NEW u \in Subtree(t) PROVE expiry[t] <= expiry[u]
    <2> DEFINE below == {v \in inside : v = t \/ (v \notin R /\ expiry[t] <= expiry[par[v]])}
    <2>1. \A v \in below : v \in inside /\ expiry[t] <= expiry[v]
      <3> SUFFICES ASSUME NEW v \in below PROVE v \in inside /\ expiry[t] <= expiry[v]
        OBVIOUS
      <3>1. expiry[t] \in Nat /\ expiry[v] \in Nat
        BY <1>1
      <3>2. CASE v = t
        BY <3>1, <3>2
      <3>3. CASE v # t
        <4>1. v \in inside \ R /\ expiry[t] <= expiry[par[v]]
          BY <3>3
        <4>2. par[v] \in inside /\ expiry[par[v]] <= expiry[v]
          BY <1>4, <4>1
        <4>3. expiry[par[v]] \in Nat
          BY <1>1, <4>2
        <4>4. QED BY <3>1, <4>1, <4>2, <4>3
      <3>4. QED BY <3>2, <3>3
    <2>2. ASSUME NEW v \in below
          PROVE  {links[v].child, IF v = t THEN Null ELSE links[v].sibling} \subseteq below \cup {Null}
      <3>1. v \in inside /\ (v # t => v \notin R /\ expiry[t] <= expiry[par[v]])
        OBVIOUS
      <3>2. expiry[t] <= expiry[v]
        BY <2>1
      <3>3. links[v].child \in below \cup {Null}
        <4> SUFFICES ASSUME links[v].child # Null PROVE links[v].child \in below
          OBVIOUS
        <4>1. /\ links[v].child \in inside \ R /\ links[links[v].child].prev = v
              /\ links[v].sibling # links[v].child
          BY <1>4, <3>1
        <4>2. par[links[v].child] = v
          BY <1>4, <4>1
        <4>3. QED BY <3>2, <4>1, <4>2
      <3>4. ASSUME v # t PROVE links[v].sibling \in below \cup {Null}
        <4> SUFFICES ASSUME links[v].sibling # Null PROVE links[v].sibling \in below
          OBVIOUS
        <4>1. links[v].sibling \in inside \ R /\ links[links[v].sibling].prev = v
          BY <1>4, <3>1
        <4>2. links[v].child # Null => links[v].child # links[v].sibling
          BY <1>4, <3>1
        <4>3. par[links[v].sibling] = par[v]
          BY <1>1, <1>4, <4>1, <4>2
        <4>4. QED BY <3>1, <3>4, <4>1, <4>3
      <3>5. QED BY <3>3, <3>4
    <2>3. Subtree(t) \subseteq below
      <3>1. below \in SUBSET Timers /\ t \in below /\ t \in Timers
        BY <1>1
      <3>2. Closed(below, t)
        <4> HIDE DEF below
        <4>1. QED BY <2>2
      <3> HIDE DEF below, Closed
      <3>3. QED BY <1>5, <3>1, <3>2
    <2> HIDE DEF below
    <2>4. QED BY <2>1, <2>3
  <1> HIDE DEF Closed
  <1>8. (IF root = Null THEN {} ELSE Subtree(root)) = inside
    BY <1>3, <1>6
  <1>9. root # Null => root \in Soonest(inside) /\ links[root].prev = Null /\ links[root].sibling = Null
    BY <1>3 DEF Soonest
  <1>10. ASSUME NEW t \in inside \ {root}
         PROVE  LET p == links[t].prev
                IN  p \in inside /\ (links[p].child = t \/ links[p].sibling = t)
    <2>1. t \in inside \ R
      BY DEF R
    <2>2. QED BY <1>4, <2>1
  <1>11. QED BY <1>1, <1>7, <1>8, <1>9, <1>10 DEF HeapIsTheSet

\* HeapIsTheSet, for any set of timers and any deadlines.
THEOREM HeapHolds == HeapSpec => []HeapIsTheSet
  <1>1. TimerAssumption /\ HeapInit => HeapInv
    BY HeapStarts
  <1>2. TimerAssumption /\ HeapInv /\ [HeapNext]_heapVars => HeapInv'
    BY HeapKept
  <1>3. TimerAssumption /\ HeapInv => HeapIsTheSet
    BY HeapSays
  <1>4. TimerAssumption
    BY TimerAssumption
  <1>5. QED BY <1>1, <1>2, <1>3, <1>4, PTL DEF HeapSpec
=============================================================================
