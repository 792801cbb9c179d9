---------------------------- MODULE IocpContext -----------------------------
(***************************************************************************)
(* iocp_context (src/win/asyncio/iocp_context.cpp): do_start() hands the   *)
(* operation to the system, which answers at once, or by a packet in the   *)
(* completion port, or by both unless the port is skipped on success; the  *)
(* consumer takes packets in batches.  The OVERLAPPED that names an        *)
(* operation is part of its state, whose address the next one may reuse.   *)
(*                                                                         *)
(* What happens on phase_ is the subject of OperationState, timers and the *)
(* work count that of TimeLoop.                                            *)
(***************************************************************************)
EXTENDS IoRequests, Naturals, Sequences, SequencesExt, FiniteSets, FiniteSetsExt

CONSTANTS Ops,          \* the operations
          Requests,     \* what they may ask for, see IoRequests
          Addresses,    \* where an operation state may be built
          MaxEntries    \* iocp_max_wait_count

IocpAssumption ==
    /\ MaxEntries \in Nat \ {0}
    /\ IsFiniteSet(Ops) /\ "wake" \notin Ops
    /\ Requests \subseteq [kind : {IocpInitiates(k) : k \in IocpCalls},
                          open : BOOLEAN, stream : BOOLEAN, empty : BOOLEAN]

VARIABLES
    \* the system
    inflight,   \* the operations it works on
    packets,    \* the completion port: <<operation, outcome>> or <<"wake">>
    \* the operations
    pc,         \* pc[o]: how far o has got, see Labels
    result,     \* result[o]: what its async_result holds
    request,    \* request[o]: what o asks for
    address,    \* address[o]: where its operation state is
    moved,      \* moved[o]: whether the system made o's transfer
    stop,       \* operations whose stop token was triggered
    called,     \* operations whose request_cancel() saw them armed
    calling,    \* <<operation, this>> of the calls of do_cancel() about to be made
    aborted,    \* operations that were under way when the object was cancelled
    wakers,     \* operations whose poster still has to interrupt()
    \* the consumer
    loop,       \* "consume", "wait", "publish"
    ready       \* ready_io_ops

systemVars == <<inflight, packets>>
stopVars == <<stop, called, calling, aborted>>
opVars == <<pc, result, request, address, moved, stopVars, wakers>>
vars == <<systemVars, opVars, loop, ready>>

\* "starting": in do_start(); "issued": the system has the operation, start()
\* has not returned; "complete": start() has to post it; "armed": start() is
\* over; "posted": in op_queue_; "done": completed.
Labels == {"idle", "starting", "issued", "complete", "armed", "posted", "done"}

Outstanding(o) == pc[o] \notin {"idle", "done"}

Init ==
    /\ inflight = {} /\ packets = <<>>
    /\ pc = [o \in Ops |-> "idle"]
    /\ result = [o \in Ops |-> "none"]
    /\ request = [o \in Ops |-> "none"] /\ address = [o \in Ops |-> "none"]
    /\ moved = [o \in Ops |-> FALSE]
    /\ stop = {} /\ called = {} /\ calling = {} /\ aborted = {} /\ wakers = {}
    /\ loop = "consume" /\ ready = {}

(***************************************************************************)
(* The system                                                              *)
(***************************************************************************)

Moves(o, outcome) == IocpAnswer(request[o], outcome) \in {"value", "none moved"}

\* As a receiver hears it: the end of the file is an error.
Report(answer) ==
    CASE answer = "eof" -> "error"
      [] answer = "none moved" -> "value"
      [] OTHER -> answer

\* Besides a transfer there is only failure, which the end of a file is, too.
SystemCompletes(o) ==
    /\ o \in inflight
    /\ inflight' = inflight \ {o}
    /\ \E outcome \in {"moved", "failed"} :
        /\ packets' = Append(packets, <<o, outcome>>)
        /\ moved' = [moved EXCEPT ![o] = Moves(o, outcome)]
    /\ UNCHANGED <<pc, result, request, address, stopVars, wakers, loop, ready>>

\* CancelIoEx() ends the operations in hit, in some order.
Abort(hit) ==
    /\ inflight' = inflight \ hit
    /\ \E order \in SetToSeqs(hit) :
        packets' = packets \o [i \in DOMAIN order |-> <<order[i], "canceled">>]

(***************************************************************************)
(* start() and cancellation                                                *)
(***************************************************************************)

\* An operation state is built where none is.
Start(o) ==
    /\ pc[o] = "idle"
    /\ \E r \in Requests, a \in Addresses :
        /\ \A p \in Ops : address[p] # a
        /\ request' = [request EXCEPT ![o] = r] /\ address' = [address EXCEPT ![o] = a]
    /\ pc' = [pc EXCEPT ![o] = "starting"]
    /\ UNCHANGED <<systemVars, result, moved, stopVars, wakers, loop, ready>>

\* do_start() has the result: without asking the system, or because the call
\* failed, or because it succeeded and the port is skipped then.
CompletesAtOnce(o) ==
    /\ pc[o] = "starting"
    /\ LET a == IocpAnswer(request[o], "none")
       IN  \E outcome \in IF a = "pending" THEN {"moved", "failed"} ELSE {a} :
              /\ result' = [result EXCEPT ![o] =
                    Report(IF a = "pending" THEN IocpAnswer(request[o], outcome) ELSE a)]
              /\ moved' = [moved EXCEPT ![o] = result'[o] = "value"]
    /\ pc' = [pc EXCEPT ![o] = "complete"]
    /\ UNCHANGED <<systemVars, request, address, stopVars, wakers, loop, ready>>

\* do_start() leaves the operation to the system: it is pending, or done with
\* a packet on its way.
Issue(o) ==
    /\ pc[o] = "starting" /\ IocpAnswer(request[o], "none") = "pending"
    /\ inflight' = inflight \cup {o}
    /\ pc' = [pc EXCEPT ![o] = "issued"]
    /\ UNCHANGED <<packets, result, request, address, moved, stopVars, wakers, loop, ready>>

\* start() after do_start().
Return(o) ==
    /\ pc[o] = "issued"
    /\ pc' = [pc EXCEPT ![o] = "armed"]
    /\ UNCHANGED <<systemVars, result, request, address, moved, stopVars, wakers, loop, ready>>

\* A stop token that was triggered before is seen when start() is under way.
RequestStop(o) ==
    /\ Outstanding(o) /\ o \notin stop
    /\ stop' = stop \cup {o}
    /\ UNCHANGED <<systemVars, pc, result, request, address, moved, called, calling, aborted,
                   wakers, loop, ready>>

\* request_cancel() sees the operation armed, or start() replays the request.
BeginCancel(o) ==
    /\ o \in stop \ called /\ pc[o] = "armed"
    /\ called' = called \cup {o} /\ calling' = calling \cup {<<o, address[o]>>}
    /\ UNCHANGED <<systemVars, pc, result, request, address, moved, stop, aborted, wakers,
                   loop, ready>>

\* CancelIoEx() on the OVERLAPPED.
DoCancel(o) ==
    /\ \E a \in Addresses :
        /\ <<o, a>> \in calling
        /\ calling' = calling \ {<<o, a>>}
        /\ Abort({p \in inflight : address[p] = a})
    /\ UNCHANGED <<pc, result, request, address, moved, stop, called, aborted, wakers, loop, ready>>

\* io_object::cancel(): CancelIoEx() on the handle.
CancelObject ==
    /\ \E o \in Ops : Outstanding(o) /\ o \notin aborted
    /\ aborted' = aborted \cup {o \in Ops : Outstanding(o)}
    /\ Abort(inflight)
    /\ UNCHANGED <<pc, result, request, address, moved, stop, called, calling, wakers, loop, ready>>

\* publish() and the enqueue of immediately_post(), by start().
Post(o) ==
    /\ pc[o] = "complete"
    /\ pc' = [pc EXCEPT ![o] = "posted"]
    /\ wakers' = wakers \cup {o}
    /\ UNCHANGED <<systemVars, result, request, address, moved, stopVars, loop, ready>>

Interrupt(o) ==
    /\ o \in wakers
    /\ wakers' = wakers \ {o}
    /\ packets' = Append(packets, <<"wake">>)
    /\ UNCHANGED <<inflight, pc, result, request, address, moved, stopVars, loop, ready>>

(***************************************************************************)
(* do_one()                                                                *)
(***************************************************************************)

\* Faulty variant of Finish: does not wait for the stop callback.
FaultyFinish(o) ==
    /\ loop = "consume" /\ pc[o] = "posted"
    /\ pc' = [pc EXCEPT ![o] = "done"]
    /\ request' = [request EXCEPT ![o] = "none"] /\ address' = [address EXCEPT ![o] = "none"]
    /\ UNCHANGED <<systemVars, result, moved, stopVars, wakers, loop, ready>>

\* consume(): dequeue, wait for the stop callback, complete the receiver.
Finish(o) ==
    /\ loop = "consume" /\ pc[o] = "posted"
    /\ \A call \in calling : call[1] # o
    /\ pc' = [pc EXCEPT ![o] = "done"]
    /\ request' = [request EXCEPT ![o] = "none"] /\ address' = [address EXCEPT ![o] = "none"]
    /\ UNCHANGED <<systemVars, result, moved, stopVars, wakers, loop, ready>>

NothingPosted ==
    /\ loop = "consume" /\ \A o \in Ops : pc[o] # "posted"
    /\ loop' = "wait"
    /\ UNCHANGED <<systemVars, opVars, ready>>

\* GetQueuedCompletionStatusEx() and complete() of what its packets are about.
Dequeue ==
    /\ loop = "wait" /\ packets # <<>>
    /\ LET n == Min({MaxEntries, Len(packets)})
           taken == {packets[i] : i \in {j \in 1..n : packets[j] # <<"wake">>}}
       IN  /\ packets' = SubSeq(packets, n + 1, Len(packets))
           /\ ready' = {packet[1] : packet \in taken}
           /\ result' = [o \in Ops |->
                 IF o \in ready'
                 THEN Report(IocpAnswer(request[o], (CHOOSE packet \in taken : packet[1] = o)[2]))
                 ELSE result[o]]
    /\ loop' = "publish"
    /\ UNCHANGED <<inflight, pc, request, address, moved, stopVars, wakers>>

\* A timer, or poll().
WaitTimesOut ==
    /\ loop = "wait" /\ packets = <<>>
    /\ loop' = "publish"
    /\ UNCHANGED <<systemVars, opVars, ready>>

\* publish_pending(ready_io_ops); start() posts what it still works on.
PublishReady(o) ==
    /\ loop = "publish" /\ o \in ready
    /\ ready' = ready \ {o}
    /\ pc' = [pc EXCEPT ![o] = IF pc[o] = "issued" THEN "complete" ELSE "posted"]
    /\ UNCHANGED <<systemVars, result, request, address, moved, stopVars, wakers, loop>>

PublishedAll ==
    /\ loop = "publish" /\ ready = {}
    /\ loop' = "consume"
    /\ UNCHANGED <<systemVars, opVars, ready>>

(***************************************************************************)
(* The specification                                                       *)
(***************************************************************************)

Starting(o) == CompletesAtOnce(o) \/ Issue(o) \/ Return(o)
Canceling(o) == BeginCancel(o) \/ DoCancel(o)
Posting(o) == Post(o) \/ Interrupt(o)

DoOne ==
    \/ \E o \in Ops : Finish(o) \/ PublishReady(o)
    \/ NothingPosted \/ Dequeue \/ PublishedAll

Next ==
    \/ \E o \in Ops : \/ SystemCompletes(o)
                       \/ Start(o) \/ Starting(o)
                       \/ RequestStop(o) \/ Canceling(o) \/ Posting(o)
    \/ CancelObject
    \/ DoOne
    \/ WaitTimesOut

Spec == Init /\ [][Next]_vars

\* Threads inside a call of the library are scheduled, a stop request runs the
\* callback, and the program keeps driving the context with run().
Fairness ==
    /\ \A o \in Ops : WF_vars(Starting(o)) /\ WF_vars(Canceling(o)) /\ WF_vars(Posting(o))
    /\ WF_vars(DoOne)

FairSpec == Spec /\ Fairness

-----------------------------------------------------------------------------
(***************************************************************************)
(* Properties                                                              *)
(***************************************************************************)

\* The system owes one packet to each operation it was handed, and the
\* consumer does not wait beside an operation that is already posted.
PacketsAreExact ==
    /\ \A o \in Ops :
          LET owed == {i \in DOMAIN packets : packets[i][1] = o}
          IN  (IF o \in inflight THEN 1 ELSE 0) + Cardinality(owed) + (IF o \in ready THEN 1 ELSE 0)
                = IF pc[o] \in {"issued", "armed"} THEN 1 ELSE 0
    /\ loop = "wait" /\ packets = <<>> => \A o \in Ops : pc[o] = "posted" => o \in wakers

\* How far an operation has got, as its receiver can tell.
Status(o) ==
    CASE pc[o] = "idle" -> "idle"
      [] pc[o] \in {"posted", "done"} -> result[o]
      [] OTHER -> "started"

\* Each operation is an I/O operation as documented; in particular nobody is
\* stopped by a CancelIoEx() meant for an earlier operation at its address.
Contract == INSTANCE IoContract
                WITH status <- [o \in Ops |-> Status(o)], asked <- stop \cup aborted

ImplementsIo == Contract!IoSpec

\* An operation that was asked to stop completes.
StopEnds == \A o \in Ops : Outstanding(o) /\ o \in stop ~> pc[o] = "done"
=============================================================================
