---------------------------- MODULE UringContext ----------------------------
(***************************************************************************)
(* uring_context (src/linux/asyncio/uring_context.cpp): threads prepare    *)
(* submission entries under uring_mtx_ and mostly leave them to the        *)
(* consumer's next submission; the consumer submits, waits and takes the   *)
(* completions.  Operations and cancellations name an operation by its     *)
(* address, which the next operation may reuse.                            *)
(*                                                                         *)
(* The kernel takes entries in order, every operation once, and posts one  *)
(* completion for each; a cancellation ends the operation in flight at its *)
(* address, if there is one.  A submission may be cut short.               *)
(*                                                                         *)
(* What happens on phase_ is the subject of OperationState, timers and the *)
(* work count that of TimeLoop.                                            *)
(***************************************************************************)
EXTENDS IoRequests, Naturals, Sequences

CONSTANTS Ops,          \* the operations
          Requests,     \* what they may ask for, see IoRequests
          Addresses,    \* where an operation state may be built
          Entries,      \* the submission ring's size
          Batch,        \* submit_batch_size
          MaxShorts     \* bound: how often a submission is cut short

UringAssumption ==
    /\ Entries \in Nat \ {0} /\ Batch \in Nat \ {0} /\ MaxShorts \in Nat
    /\ Requests \subseteq [kind : UringCalls, open : BOOLEAN, stream : BOOLEAN, empty : BOOLEAN]

VARIABLES
    \* under uring_mtx_
    ring,       \* the entries prepared and not submitted, pending_sqes_ of them
    pulling,    \* pulling_cqes_
    \* the kernel
    inflight,   \* the operations it has taken and not completed
    cqes,       \* the completions of operations, <<operation, outcome>>
    wake,       \* there are completions of other entries
    shorts,     \* how often it has cut a submission short
    \* the operations
    pc,         \* pc[o]: how far o has got, see Labels
    result,     \* result[o]: what its async_result holds
    request,    \* request[o]: what o asks for
    address,    \* address[o]: where its operation state is
    moved,      \* moved[o]: whether the kernel made o's transfer
    stop,       \* operations whose stop token was triggered
    called,     \* operations whose request_cancel() saw them armed
    calling,    \* <<operation, this>> of the calls of do_cancel() about to be made
    aborted,    \* operations that were under way when the object was cancelled
    wakers,     \* operations whose poster still has to interrupt()
    \* the consumer
    loop        \* "consume", "submit", "wait", "peek", "publish"

ringVars == <<ring, inflight, cqes, wake, shorts>>
stateVars == <<request, address>>
opVars == <<pc, result, stateVars, moved, stop, called, calling, aborted, wakers>>
vars == <<ringVars, pulling, opVars, loop>>

\* "starting": in do_start(); "complete": do_start() has the result; "armed":
\* prepared or in the kernel; "taken": on ready_io_ops; "posted": in
\* op_queue_; "done": completed.
Labels == {"idle", "starting", "complete", "armed", "taken", "posted", "done"}

Outstanding(o) == pc[o] \notin {"idle", "done"}

Init ==
    /\ ring = <<>> /\ pulling = FALSE
    /\ inflight = {} /\ cqes = {} /\ wake = FALSE /\ shorts = 0
    /\ pc = [o \in Ops |-> "idle"]
    /\ result = [o \in Ops |-> "none"]
    /\ request = [o \in Ops |-> "none"] /\ address = [o \in Ops |-> "none"]
    /\ moved = [o \in Ops |-> FALSE]
    /\ stop = {} /\ called = {} /\ calling = {} /\ aborted = {} /\ wakers = {}
    /\ loop = "consume"

(***************************************************************************)
(* The ring and the kernel                                                 *)
(***************************************************************************)

\* The operations that the first n entries of r cancel: those the kernel has at
\* the entry's address, or all it has, when it comes to the entry.
CanceledBy(r, n) ==
    {o \in Ops : \E j \in 1..n :
        /\ r[j] \in {<<"cancel", address[o]>>, <<"cancel_fd">>}
        /\ o \in inflight \/ \E i \in 1..(j - 1) : r[i] = <<"io", o>>}

\* io_uring_submit() takes the first n entries of r, at least low of them, and
\* high unless it is cut short.
SubmitFrom(r, low, high) ==
    \E n \in low..high :
        /\ n < high => shorts < MaxShorts
        /\ shorts' = IF n < high THEN shorts + 1 ELSE shorts
        /\ LET canceled == CanceledBy(r, n)
               entered == {o \in Ops : \E i \in 1..n : r[i] = <<"io", o>>}
           IN  /\ inflight' = (inflight \cup entered) \ canceled
               /\ cqes' = cqes \cup (canceled \X {"canceled"})
        /\ wake' = (wake \/ \E i \in 1..n : r[i][1] # "io")
        /\ ring' = SubSeq(r, n + 1, Len(r))

\* allocate_sqe() and the preparation of the entry; when the ring is full what
\* it holds is submitted first.  now: whether the entry is submitted as well.
Prepare(entry, now) ==
    LET r == Append(ring, entry)
    IN  IF Len(ring) < Entries
        THEN SubmitFrom(r, 0, IF now THEN Len(r) ELSE 0)
        ELSE SubmitFrom(r, 1, IF now THEN Len(r) ELSE Len(ring))

\* Besides a transfer there is only failure: to the receiver the end of the
\* file and a socket that was shut down are errors, too.
KernelCompletes(o) ==
    /\ o \in inflight
    /\ inflight' = inflight \ {o}
    /\ \E outcome \in {"moved", "failed"} :
        /\ cqes' = cqes \cup {<<o, outcome>>}
        /\ moved' = [moved EXCEPT ![o] = UringAnswer(request[o], outcome) \in {"value", "none moved"}]
    /\ UNCHANGED <<stateVars, ring, pulling, wake, shorts, pc, result, stop, called, calling, aborted,
                   wakers, loop>>

(***************************************************************************)
(* start() and cancellation                                                *)
(***************************************************************************)

\* An operation state is built where none is.
Start(o) ==
    /\ pc[o] = "idle"
    /\ \E r \in Requests, a \in Addresses :
        /\ \A p \in Ops : address[p] # a
        /\ request' = [request EXCEPT ![o] = r] /\ address' = [address EXCEPT ![o] = a]
    /\ pc' = [pc EXCEPT ![o] = "starting"]
    /\ UNCHANGED <<ringVars, pulling, result, moved, stop, called, calling, aborted, wakers, loop>>

\* do_start() without an entry: an empty receive from a stream, a closed
\* object, or a full ring of which the kernel takes nothing.
CompletesAtOnce(o) ==
    /\ pc[o] = "starting"
    /\ pc' = [pc EXCEPT ![o] = "complete"]
    /\ \/ /\ UringAnswer(request[o], "none") = "none moved"
          /\ result' = [result EXCEPT ![o] = "value"] /\ moved' = [moved EXCEPT ![o] = TRUE]
          /\ UNCHANGED shorts
       \/ /\ UringAnswer(request[o], "none") = "error"
          /\ result' = [result EXCEPT ![o] = "error"] /\ UNCHANGED <<moved, shorts>>
       \/ /\ UringAnswer(request[o], "none") = "pending"
          /\ Len(ring) = Entries /\ shorts < MaxShorts /\ shorts' = shorts + 1
          /\ result' = [result EXCEPT ![o] = "error"] /\ UNCHANGED moved
    /\ UNCHANGED <<stateVars, ring, inflight, cqes, wake, pulling, stop, called, calling, aborted, wakers, loop>>

\* Faulty variant of Submit: leaves a batch that is not full to the consumer
\* without asking whether it is about to wait.
FaultySubmit(o) ==
    /\ pc[o] = "starting" /\ UringAnswer(request[o], "none") = "pending"
    /\ Prepare(<<"io", o>>, Len(ring) + 1 >= Batch)
    /\ pc' = [pc EXCEPT ![o] = "armed"]
    /\ UNCHANGED <<stateVars, pulling, result, moved, stop, called, calling, aborted, wakers, loop>>

\* do_start() and post_submit_sqes().
Submit(o) ==
    /\ pc[o] = "starting" /\ UringAnswer(request[o], "none") = "pending"
    /\ Prepare(<<"io", o>>, pulling \/ (Len(ring) < Entries /\ Len(ring) + 1 >= Batch))
    /\ pc' = [pc EXCEPT ![o] = "armed"]
    /\ UNCHANGED <<stateVars, pulling, result, moved, stop, called, calling, aborted, wakers, loop>>

\* A stop token that was triggered before is seen when start() is under way.
RequestStop(o) ==
    /\ Outstanding(o) /\ o \notin stop
    /\ stop' = stop \cup {o}
    /\ UNCHANGED <<stateVars, ringVars, pulling, pc, result, moved, called, calling, aborted, wakers, loop>>

\* request_cancel() sees the operation armed, or start() replays the request.
BeginCancel(o) ==
    /\ o \in stop \ called
    /\ pc[o] \in {"armed", "taken"}
    /\ called' = called \cup {o} /\ calling' = calling \cup {<<o, address[o]>>}
    /\ UNCHANGED <<stateVars, ringVars, pulling, pc, result, moved, stop, aborted, wakers, loop>>

\* Faulty variant of DoCancel: leaves the entry to the next submission.
FaultyDoCancel(o) ==
    /\ \E a \in Addresses :
        /\ <<o, a>> \in calling
        /\ calling' = calling \ {<<o, a>>}
        /\ Prepare(<<"cancel", a>>, FALSE)
    /\ UNCHANGED <<stateVars, pulling, pc, result, moved, stop, called, aborted, wakers, loop>>

DoCancel(o) ==
    /\ \E a \in Addresses :
        /\ <<o, a>> \in calling
        /\ calling' = calling \ {<<o, a>>}
        /\ Prepare(<<"cancel", a>>, TRUE)
    /\ UNCHANGED <<stateVars, pulling, pc, result, moved, stop, called, aborted, wakers, loop>>

\* io_object::cancel()
CancelObject ==
    /\ \E o \in Ops : Outstanding(o) /\ o \notin aborted
    /\ aborted' = aborted \cup {o \in Ops : Outstanding(o)}
    /\ Prepare(<<"cancel_fd">>, TRUE)
    /\ UNCHANGED <<stateVars, pulling, pc, result, moved, stop, called, calling, wakers, loop>>

\* publish() and the enqueue of immediately_post(), by start().
Post(o) ==
    /\ pc[o] = "complete"
    /\ pc' = [pc EXCEPT ![o] = "posted"]
    /\ wakers' = wakers \cup {o}
    /\ UNCHANGED <<stateVars, ringVars, pulling, result, moved, stop, called, calling, aborted, loop>>

Interrupt(o) ==
    /\ o \in wakers
    /\ wakers' = wakers \ {o}
    /\ Prepare(<<"nop">>, TRUE)
    /\ UNCHANGED <<stateVars, pulling, pc, result, moved, stop, called, calling, aborted, loop>>

(***************************************************************************)
(* do_one()                                                                *)
(***************************************************************************)

\* consume(): dequeue, wait for the stop callback, complete the receiver.
Finish(o) ==
    /\ loop = "consume" /\ pc[o] = "posted"
    /\ \A call \in calling : call[1] # o
    /\ pc' = [pc EXCEPT ![o] = "done"]
    /\ request' = [request EXCEPT ![o] = "none"] /\ address' = [address EXCEPT ![o] = "none"]
    /\ UNCHANGED <<ringVars, pulling, result, moved, stop, called, calling, aborted, wakers, loop>>

\* consume() finds nothing: from now on nobody may leave an entry behind.
BeginPulling ==
    /\ loop = "consume" /\ \A o \in Ops : pc[o] # "posted"
    /\ loop' = "submit" /\ pulling' = TRUE
    /\ UNCHANGED <<ringVars, opVars>>

SubmitPending ==
    /\ loop = "submit"
    /\ SubmitFrom(ring, 0, Len(ring))
    /\ loop' = "wait"
    /\ UNCHANGED <<pulling, opVars>>

\* As a receiver hears it: the end of the file is an error.
Report(answer) ==
    CASE answer = "eof" -> "error"
      [] answer = "none moved" -> "value"
      [] OTHER -> answer

\* complete() of the operations whose completions are taken.
CompleteAll(taken) ==
    LET ops == {c[1] : c \in taken}
        Outcome(o) == (CHOOSE c \in taken : c[1] = o)[2]
    IN  /\ cqes' = cqes \ taken
        /\ pc' = [o \in Ops |-> IF o \in ops THEN "taken" ELSE pc[o]]
        /\ result' = [o \in Ops |->
              IF o \notin ops THEN result[o]
              ELSE Report(UringAnswer(request[o], Outcome(o)))]

\* io_uring_wait_cqe_timeout() returns the first completion.
WaitCqe ==
    /\ loop = "wait"
    /\ \/ \E c \in cqes : CompleteAll({c}) /\ UNCHANGED wake
       \/ wake /\ wake' = FALSE /\ CompleteAll({})
    /\ loop' = "peek"
    /\ UNCHANGED <<stateVars, ring, pulling, inflight, shorts, moved, stop, called, calling, aborted, wakers>>

\* The timeout of a timer, poll(), or EINTR.
WaitTimesOut ==
    /\ loop = "wait" /\ cqes = {} /\ ~wake
    /\ loop' = "peek"
    /\ UNCHANGED <<ringVars, pulling, opVars>>

\* io_uring_peek_batch_cqe() until there are no more.
PeekAll ==
    /\ loop = "peek"
    /\ CompleteAll(cqes)
    /\ wake' = FALSE /\ pulling' = FALSE
    /\ loop' = "publish"
    /\ UNCHANGED <<stateVars, ring, inflight, shorts, moved, stop, called, calling, aborted, wakers>>

\* publish_pending(ready_io_ops); the consumer does not interrupt itself.
PublishReady(o) ==
    /\ loop = "publish" /\ pc[o] = "taken"
    /\ pc' = [pc EXCEPT ![o] = "posted"]
    /\ UNCHANGED <<stateVars, ringVars, pulling, result, moved, stop, called, calling, aborted, wakers, loop>>

PublishedAll ==
    /\ loop = "publish" /\ \A o \in Ops : pc[o] # "taken"
    /\ loop' = "consume"
    /\ UNCHANGED <<ringVars, pulling, opVars>>

(***************************************************************************)
(* The specification                                                       *)
(***************************************************************************)

Starting(o) == CompletesAtOnce(o) \/ Submit(o)
Canceling(o) == BeginCancel(o) \/ DoCancel(o)
Posting(o) == Post(o) \/ Interrupt(o)

DoOne ==
    \/ \E o \in Ops : Finish(o) \/ PublishReady(o)
    \/ BeginPulling \/ SubmitPending \/ WaitCqe \/ PeekAll \/ PublishedAll

Next ==
    \/ \E o \in Ops : \/ KernelCompletes(o)
                       \/ Start(o) \/ Starting(o)
                       \/ RequestStop(o) \/ Canceling(o) \/ Posting(o)
    \/ CancelObject
    \/ DoOne
    \/ WaitTimesOut

Spec == Init /\ [][Next]_vars

\* Threads inside a call of the library are scheduled, a stop request runs the
\* callback, and the program keeps driving the context with run().
Fairness ==
    /\ \A o \in Ops : WF_vars(Starting(o)) /\ WF_vars(Canceling(o)) /\ WF_vars(Posting(o))
    /\ WF_vars(DoOne)

FairSpec == Spec /\ Fairness

-----------------------------------------------------------------------------
(***************************************************************************)
(* Properties                                                              *)
(***************************************************************************)

\* The kernel has, or has answered, exactly the operations that were submitted
\* and not taken, and the consumer holds no entry back: while it waits, what
\* is left in the ring is what the kernel refused.
NoEntryLeftBehind ==
    /\ \A o \in Ops : pc[o] = "armed" <=>
          \/ \E i \in 1..Len(ring) : ring[i] = <<"io", o>>
          \/ o \in inflight
          \/ \E c \in cqes : c[1] = o
    /\ loop = "wait" /\ ring # <<>> => shorts > 0

\* Each operation is an I/O operation as documented; in particular nobody is
\* stopped by a cancellation that was meant for an earlier operation at its
\* address.
Contract == INSTANCE IoContract
                WITH status <- [o \in Ops |->
                                  CASE pc[o] = "idle" -> "idle"
                                    [] pc[o] \in {"posted", "done"} -> result[o]
                                    [] OTHER -> "started"],
                     asked <- stop \cup aborted

ImplementsIo == Contract!IoSpec

\* An operation that was asked to stop completes, unless the kernel holds back
\* entries.
StopEnds ==
    \A o \in Ops : Outstanding(o) /\ o \in stop ~> pc[o] = "done" \/ shorts > 0

=============================================================================
