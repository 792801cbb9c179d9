---------------------------- MODULE EpollReactor ----------------------------
(***************************************************************************)
(* The reactor of epoll_context (src/linux/asyncio/epoll_context.cpp):     *)
(* the consumer waits for edges of a descriptor, other threads start and   *)
(* cancel one read-like and one write-like operation on it, the I/O object *)
(* is closed, and its per_fd_data entry is recycled for the next object    *)
(* while the consumer may still hold an event of the old one.              *)
(*                                                                         *)
(* The kernel is modelled by what the code relies on: an edge-triggered    *)
(* registration is queued when something arrives that the mask asks for,   *)
(* and when ADD or MOD finds something ready; epoll_wait() reports what is *)
(* ready under the mask at that time, and EPOLLHUP under any mask.          *)
(*                                                                         *)
(* What happens between start() and publish() on phase_ is the subject of  *)
(* OperationState; here publishing and posting is one step.  Timers are    *)
(* the subject of TimeLoop.                                                *)
(***************************************************************************)
EXTENDS Naturals, FiniteSets

CONSTANTS Readers,      \* the operations that wait for EPOLLIN
          Writers,      \* the operations that wait for EPOLLOUT
          MaxOpens,     \* bound: how often an object is opened on the entry
          Terminal,     \* whether the descriptor is a terminal's, not a socket
          None

Ops == Readers \cup Writers
Dirs == {"in", "out"}
Flags == Dirs \cup {"hup"}      \* EPOLLERR and EPOLLHUP concern both directions

ASSUME ReactorAssumption ==
    /\ Readers \cap Writers = {}
    /\ None \notin Ops
    /\ MaxOpens \in Nat
    /\ Terminal \in BOOLEAN

Dir(o) == IF o \in Readers THEN "in" ELSE "out"
OpsOf(d) == IF d = "in" THEN Readers ELSE Writers

VARIABLES
    \* the kernel
    avail,      \* the directions in which a transfer would succeed now
    hup,        \* the peer is gone: no transfer would block
    queued,     \* the registration is on the epoll instance's ready list
    signal,     \* the eventfd is readable
    wake,       \* its registration is on the ready list
    \* the per_fd_data entry and the I/O object that owns it
    events,     \* the mask last given to epoll_ctl, {} when not registered
    remembered, \* ready_events: edges reported while nobody waited
    slot,       \* in_op and out_op
    object,     \* "open", or "closed" with the entry in the pool
    opens,      \* how often an object was opened
    \* the operations
    pc,         \* pc[o]: how far o has got, see Labels
    result,     \* result[o]: what its async_result holds
    moved,      \* moved[o]: whether a system call of o has succeeded
    stop,       \* operations whose stop token was triggered
    called,     \* operations whose stop callback has run
    aborted,    \* operations that io_object::cancel() took
    wakers,     \* operations whose poster still has to interrupt()
    \* the consumer
    loop,       \* "consume", "wait", "handle", "publish"
    batch,      \* the flags epoll_wait() reported for the entry
    readyOps    \* ready_io_ops

kernelVars == <<avail, hup, queued, signal, wake>>
dataVars == <<events, remembered, slot, object, opens>>
opVars == <<pc, result, moved, stop, called, aborted, wakers>>
loopVars == <<loop, batch, readyOps>>
vars == <<kernelVars, dataVars, opVars, loopVars>>

\* "try": in do_start(), about to make the system call; "register": it would
\* have blocked; "complete": do_start() has the result; "armed": in the slot;
\* "taken": the consumer has its result; "canceled": a stop callback or
\* io_object::cancel() took it; "posted": in op_queue_; "done": completed.
Labels == {"idle", "try", "register", "complete", "armed", "taken",
           "canceled", "posted", "done"}

Outstanding(o) == pc[o] \notin {"idle", "done"}

\* A socket whose peer is gone blocks no call and reports both directions as
\* ready; the master of a terminal reports EPOLLHUP alone, and only its reads
\* return at once.
Ready(d) == d \in avail \/ (hup /\ (Terminal => d = "in"))
Level == avail \cup (IF hup /\ ~Terminal THEN Dirs ELSE {})
Flag(d) == {d, "hup"}

Init ==
    /\ avail = {} /\ hup = FALSE /\ queued = FALSE
    /\ signal = FALSE /\ wake = FALSE
    /\ events = {} /\ remembered = {}
    /\ slot = [d \in Dirs |-> None]
    /\ object = "closed" /\ opens = 0
    /\ pc = [o \in Ops |-> "idle"]
    /\ result = [o \in Ops |-> "none"]
    /\ moved = [o \in Ops |-> FALSE]
    /\ stop = {} /\ called = {} /\ aborted = {} /\ wakers = {}
    /\ loop = "consume" /\ batch = {} /\ readyOps = {}

(***************************************************************************)
(* The kernel and the peer                                                 *)
(***************************************************************************)

\* Data or buffer space arrives; an edge, also when there was some already.
Arrive(d) ==
    /\ object = "open"
    /\ avail' = avail \cup {d}
    /\ queued' = (queued \/ d \in events)
    /\ UNCHANGED <<hup, signal, wake, dataVars, opVars, loopVars>>

HangUp ==
    /\ object = "open"
    /\ hup' = TRUE
    /\ queued' = (queued \/ events # {})
    /\ UNCHANGED <<avail, signal, wake, dataVars, opVars, loopVars>>

\* The system calls of the operations in S, none of which would block: each
\* transfers what there is, and fails with an error or end of file otherwise.
\* A transfer may leave something for the next.
DoIo(S) ==
    LET served == {o \in S : Dir(o) \in avail}
    IN  /\ result' = [o \in Ops |-> IF o \in served THEN "value"
                                    ELSE IF o \in S THEN "error" ELSE result[o]]
        /\ moved' = [o \in Ops |-> moved[o] \/ o \in served]
        /\ \E spent \in SUBSET {Dir(o) : o \in served} : avail' = avail \ spent

(***************************************************************************)
(* The I/O object                                                          *)
(***************************************************************************)

\* new_epoll_data() resets the entry for the object of a new descriptor.
Open ==
    /\ object = "closed" /\ opens < MaxOpens
    /\ object' = "open" /\ opens' = opens + 1
    /\ avail' \in SUBSET Dirs /\ hup' = FALSE /\ queued' = FALSE
    /\ events' = {} /\ remembered' = {}
    /\ slot' = [d \in Dirs |-> None]
    /\ UNCHANGED <<signal, wake, opVars, loopVars>>

\* close(), once every operation has completed: EPOLL_CTL_DEL, give the entry
\* back, close the descriptor.
Close ==
    /\ object = "open"
    /\ \A o \in Ops : ~Outstanding(o)
    /\ object' = "closed"
    /\ events' = {} /\ queued' = FALSE
    /\ UNCHANGED <<avail, hup, signal, wake, remembered, slot, opens, opVars, loopVars>>

\* cancel() on the object takes both operations out of the entry.
CancelObject ==
    LET ops == {slot[d] : d \in Dirs} \ {None}
    IN  /\ object = "open" /\ ops # {}
        /\ slot' = [d \in Dirs |-> None]
        /\ aborted' = aborted \cup ops
        /\ pc' = [o \in Ops |-> IF o \in ops THEN "canceled" ELSE pc[o]]
        /\ UNCHANGED <<kernelVars, events, remembered, object, opens,
                       result, moved, stop, called, wakers, loopVars>>

(***************************************************************************)
(* start(), register_event() and cancellation                              *)
(***************************************************************************)

\* At most one outstanding operation per direction, on an open object.
Start(o) ==
    /\ object = "open" /\ pc[o] = "idle"
    /\ \A p \in OpsOf(Dir(o)) : ~Outstanding(p)
    /\ pc' = [pc EXCEPT ![o] = "try"]
    /\ UNCHANGED <<kernelVars, dataVars, result, moved, stop, called, aborted, wakers, loopVars>>

\* do_start() makes the system call.
TryIo(o) ==
    /\ pc[o] = "try"
    /\ IF Ready(Dir(o))
       THEN DoIo({o}) /\ pc' = [pc EXCEPT ![o] = "complete"]
       ELSE pc' = [pc EXCEPT ![o] = "register"] /\ UNCHANGED <<result, moved, avail>>
    /\ UNCHANGED <<hup, queued, signal, wake, dataVars, stop, called, aborted, wakers, loopVars>>

\* register_event() consumes a remembered edge: try again.
ConsumeRemembered(o) ==
    /\ pc[o] = "register"
    /\ remembered \cap Flag(Dir(o)) # {}
    /\ remembered' = remembered \ Flag(Dir(o))
    /\ pc' = [pc EXCEPT ![o] = "try"]
    /\ UNCHANGED <<kernelVars, events, slot, object, opens,
                   result, moved, stop, called, aborted, wakers, loopVars>>

\* The mask register_event() asks for: the new operation's direction and that
\* of the operation already in the other slot.
Mask(o) == {Dir(o)} \cup {d \in Dirs : slot[d] # None}

\* Faulty variant of Register: forgets the operation of the other direction.
FaultyRegister(o) ==
    /\ pc[o] = "register"
    /\ remembered \cap Flag(Dir(o)) = {}
    /\ events' = {Dir(o)}
    /\ queued' = (queued \/ (events' # events /\ (hup \/ events' \cap avail # {})))
    /\ slot' = [slot EXCEPT ![Dir(o)] = o]
    /\ pc' = [pc EXCEPT ![o] = "armed"]
    /\ UNCHANGED <<avail, hup, signal, wake, remembered, object, opens,
                   result, moved, stop, called, aborted, wakers, loopVars>>

\* register_event() puts o into its slot; epoll_ctl(ADD or MOD) is skipped
\* when the mask does not change, otherwise it looks at the descriptor.
Register(o) ==
    /\ pc[o] = "register"
    /\ remembered \cap Flag(Dir(o)) = {}
    /\ events' = Mask(o)
    /\ queued' = (queued \/ (events' # events /\ (hup \/ events' \cap avail # {})))
    /\ slot' = [slot EXCEPT ![Dir(o)] = o]
    /\ pc' = [pc EXCEPT ![o] = "armed"]
    /\ UNCHANGED <<avail, hup, signal, wake, remembered, object, opens,
                   result, moved, stop, called, aborted, wakers, loopVars>>

\* epoll_ctl() fails.
RegisterFails(o) ==
    /\ pc[o] = "register"
    /\ remembered \cap Flag(Dir(o)) = {}
    /\ Mask(o) # events
    /\ result' = [result EXCEPT ![o] = "error"]
    /\ pc' = [pc EXCEPT ![o] = "complete"]
    /\ UNCHANGED <<kernelVars, dataVars, moved, stop, called, aborted, wakers, loopVars>>

RequestStop(o) ==
    /\ o \notin stop
    /\ stop' = stop \cup {o}
    /\ UNCHANGED <<kernelVars, dataVars, pc, result, moved, called, aborted, wakers, loopVars>>

\* Faulty variant of CancelOp: does not look whether the slot is still o's.
FaultyCancelOp(o) ==
    /\ o \in stop \ called
    /\ pc[o] \in {"armed", "taken", "canceled", "posted"}
    /\ called' = called \cup {o}
    /\ slot' = [slot EXCEPT ![Dir(o)] = None]
    /\ pc' = [pc EXCEPT ![o] = "canceled"]
    /\ UNCHANGED <<kernelVars, events, remembered, object, opens,
                   result, moved, stop, aborted, wakers, loopVars>>

\* do_cancel() of an operation that is armed, or was when request_cancel()
\* looked: cancel_op() takes o if it still is in its slot.
CancelOp(o) ==
    /\ o \in stop \ called
    /\ pc[o] \in {"armed", "taken", "canceled", "posted"}
    /\ called' = called \cup {o}
    /\ IF slot[Dir(o)] = o
       THEN /\ slot' = [slot EXCEPT ![Dir(o)] = None]
            /\ pc' = [pc EXCEPT ![o] = "canceled"]
       ELSE UNCHANGED <<slot, pc>>
    /\ UNCHANGED <<kernelVars, events, remembered, object, opens,
                   result, moved, stop, aborted, wakers, loopVars>>

\* publish() and the enqueue of immediately_post(), by start() or by the
\* thread that cancelled.
Post(o) ==
    /\ pc[o] \in {"complete", "canceled"}
    /\ pc' = [pc EXCEPT ![o] = "posted"]
    /\ wakers' = wakers \cup {o}
    /\ UNCHANGED <<kernelVars, dataVars, result, moved, stop, called, aborted, loopVars>>

\* Faulty variant of Interrupt: takes the consumer to be awake.
FaultyInterrupt(o) ==
    /\ o \in wakers
    /\ wakers' = wakers \ {o}
    /\ UNCHANGED <<kernelVars, dataVars, pc, result, moved, stop, called, aborted, loopVars>>

\* interrupt(): writing to the eventfd is always an edge.
Interrupt(o) ==
    /\ o \in wakers
    /\ wakers' = wakers \ {o}
    /\ signal' = TRUE /\ wake' = TRUE
    /\ UNCHANGED <<avail, hup, queued, dataVars, pc, result, moved, stop, called, aborted, loopVars>>

(***************************************************************************)
(* do_one()                                                                *)
(***************************************************************************)

\* The stop callback of o took o and has not returned.
InCallback(o) ==
    o \in called \ aborted /\ result[o] = "none" /\ (pc[o] = "canceled" \/ o \in wakers)

\* consume(): dequeue, wait for the stop callback, complete the receiver.
Finish(o) ==
    /\ loop = "consume"
    /\ pc[o] = "posted"
    /\ ~InCallback(o)
    /\ pc' = [pc EXCEPT ![o] = "done"]
    /\ UNCHANGED <<kernelVars, dataVars, result, moved, stop, called, aborted, wakers, loopVars>>

\* consume() finds nothing.
NothingPosted ==
    /\ loop = "consume"
    /\ \A o \in Ops : pc[o] # "posted"
    /\ loop' = "wait"
    /\ UNCHANGED <<kernelVars, dataVars, opVars, batch, readyOps>>

Reported == (events \cap Level) \cup (IF hup THEN {"hup"} ELSE {})

\* epoll_wait() returns the registrations on the ready list that are still
\* ready; an edge is reported once.  do_one() resets the eventfd.
EpollWait ==
    /\ loop = "wait"
    /\ (queued /\ Reported # {}) \/ (wake /\ signal)
    /\ batch' = IF queued THEN Reported ELSE {}
    /\ queued' = FALSE /\ wake' = FALSE
    /\ loop' = IF wake /\ signal THEN "reset" ELSE "handle"
    /\ UNCHANGED <<avail, hup, signal, dataVars, opVars, readyOps>>

\* The timeout of a timer, poll(), or EINTR.
WaitTimesOut ==
    /\ loop = "wait"
    /\ ~(queued /\ Reported # {}) /\ ~(wake /\ signal)
    /\ queued' = FALSE /\ wake' = FALSE
    /\ loop' = "consume"
    /\ UNCHANGED <<avail, hup, signal, dataVars, opVars, batch, readyOps>>

\* interrupter_.reset() reads the eventfd.
Reset ==
    /\ loop = "reset"
    /\ signal' = FALSE
    /\ loop' = "handle"
    /\ UNCHANGED <<avail, hup, queued, wake, dataVars, opVars, batch, readyOps>>

Hit(d) == batch \cap Flag(d) # {}

\* Faulty variant of HandleEvents: drops an edge that nobody waits for.
FaultyHandleEvents ==
    LET served == {d \in Dirs : Hit(d) /\ slot[d] # None /\ Ready(d)}
    IN  /\ loop = "handle"
        /\ DoIo({slot[d] : d \in served})
        /\ slot' = [d \in Dirs |-> IF d \in served THEN None ELSE slot[d]]
        /\ readyOps' = {slot[d] : d \in served}
        /\ pc' = [o \in Ops |-> IF o \in readyOps' THEN "taken" ELSE pc[o]]
        /\ batch' = {}
        /\ loop' = "publish"
        /\ UNCHANGED <<hup, queued, signal, wake, events, remembered, object, opens,
                       stop, called, aborted, wakers>>

\* Faulty variant of HandleEvents: believes the event without asking again.
FaultyPerform ==
    LET served == {d \in Dirs : Hit(d) /\ slot[d] # None}
    IN  /\ loop = "handle"
        /\ result' = [o \in Ops |-> IF \E d \in served : o = slot[d] THEN "value" ELSE result[o]]
        /\ moved' = [o \in Ops |-> moved[o] \/ \E d \in served : o = slot[d] /\ d \in avail]
        /\ slot' = [d \in Dirs |-> IF d \in served THEN None ELSE slot[d]]
        /\ remembered' = remembered \cup
              UNION {batch \cap Flag(d) : d \in {e \in Dirs : slot[e] = None}}
        /\ readyOps' = {slot[d] : d \in served}
        /\ pc' = [o \in Ops |-> IF o \in readyOps' THEN "taken" ELSE pc[o]]
        /\ batch' = {}
        /\ loop' = "publish"
        /\ UNCHANGED <<kernelVars, events, object, opens, stop, called, aborted, wakers>>

\* Under fd_lock: the operation waiting for a reported direction makes its
\* system call again and leaves the slot if that did not block; an edge that
\* no operation waits for is remembered.
HandleEvents ==
    LET served == {d \in Dirs : Hit(d) /\ slot[d] # None /\ Ready(d)}
    IN  /\ loop = "handle"
        /\ DoIo({slot[d] : d \in served})
        /\ slot' = [d \in Dirs |-> IF d \in served THEN None ELSE slot[d]]
        /\ remembered' = remembered \cup
              UNION {batch \cap Flag(d) : d \in {e \in Dirs : slot[e] = None}}
        /\ readyOps' = {slot[d] : d \in served}
        /\ pc' = [o \in Ops |-> IF o \in readyOps' THEN "taken" ELSE pc[o]]
        /\ batch' = {}
        /\ loop' = "publish"
        /\ UNCHANGED <<hup, queued, signal, wake, events, object, opens,
                       stop, called, aborted, wakers>>

\* publish_pending(ready_io_ops), one after the other; the consumer does not
\* interrupt itself.
PublishReady(o) ==
    /\ loop = "publish"
    /\ o \in readyOps
    /\ pc' = [pc EXCEPT ![o] = "posted"]
    /\ readyOps' = readyOps \ {o}
    /\ UNCHANGED <<kernelVars, dataVars, result, moved, stop, called, aborted, wakers, loop, batch>>

PublishedAll ==
    /\ loop = "publish"
    /\ readyOps = {}
    /\ loop' = "consume"
    /\ UNCHANGED <<kernelVars, dataVars, opVars, batch, readyOps>>

(***************************************************************************)
(* The specification                                                       *)
(***************************************************************************)

StartProgress(o) ==
    \/ TryIo(o)
    \/ ConsumeRemembered(o)
    \/ Register(o)
    \/ RegisterFails(o)

Posting(o) == Post(o) \/ Interrupt(o)

DoOne ==
    \/ \E o \in Ops : Finish(o) \/ PublishReady(o)
    \/ NothingPosted
    \/ EpollWait
    \/ Reset
    \/ HandleEvents
    \/ PublishedAll

Next ==
    \/ \E d \in Dirs : Arrive(d)
    \/ HangUp
    \/ Open \/ Close \/ CancelObject
    \/ \E o \in Ops : \/ Start(o) \/ StartProgress(o)
                       \/ RequestStop(o) \/ CancelOp(o) \/ Posting(o)
    \/ DoOne
    \/ WaitTimesOut

Spec == Init /\ [][Next]_vars

\* Threads inside a call of the library are scheduled, a stop request runs the
\* callback, and the program keeps driving the context with run().  Nothing
\* is assumed of the peer, the user's calls, and of timeouts.
Fairness ==
    /\ \A o \in Ops : /\ WF_vars(StartProgress(o))
                      /\ WF_vars(CancelOp(o))
                      /\ WF_vars(Posting(o))
    /\ WF_vars(DoOne)

FairSpec == Spec /\ Fairness

-----------------------------------------------------------------------------
(***************************************************************************)
(* Properties                                                              *)
(***************************************************************************)

TypeOK ==
    /\ avail \subseteq Dirs
    /\ hup \in BOOLEAN /\ queued \in BOOLEAN /\ signal \in BOOLEAN /\ wake \in BOOLEAN
    /\ events \subseteq Dirs
    /\ remembered \subseteq Flags
    /\ slot \in [Dirs -> Ops \cup {None}]
    /\ \A d \in Dirs : slot[d] \in OpsOf(d) \cup {None}
    /\ object \in {"open", "closed"}
    /\ opens \in 0..MaxOpens
    /\ pc \in [Ops -> Labels]
    /\ result \in [Ops -> {"none", "value", "error"}]
    /\ moved \in [Ops -> BOOLEAN]
    /\ stop \subseteq Ops /\ called \subseteq stop
    /\ aborted \subseteq Ops /\ wakers \subseteq Ops
    /\ loop \in {"consume", "wait", "reset", "handle", "publish"}
    /\ batch \subseteq Flags
    /\ readyOps \subseteq Ops

\* The entry, the consumer's list and the operations agree: an operation waits
\* in exactly its own slot under a mask that asks for it, and the consumer
\* publishes exactly what it has taken.  Whoever finds an operation in a slot
\* or in the list may use it.
SlotsAgree ==
    /\ \A o \in Ops : pc[o] = "armed" <=> slot[Dir(o)] = o
    /\ \A d \in Dirs : slot[d] # None => d \in events /\ object = "open"
    /\ readyOps = {o \in Ops : pc[o] = "taken"}

\* No edge is lost: while an operation waits for a direction that is ready,
\* the kernel is about to report it or the consumer holds the report.
EdgeNotLost ==
    \A d \in Dirs : slot[d] # None /\ Ready(d) => queued \/ Hit(d)

\* No interrupt is lost: epoll_wait() does not block on a posted operation.
InterruptNotLost ==
    loop = "wait" /\ (\E o \in Ops : pc[o] = "posted") =>
        (wake /\ signal) \/ wakers # {}

\* Each operation is an I/O operation as documented.
Status(o) ==
    CASE pc[o] = "idle" -> "idle"
      [] pc[o] \in {"posted", "done"} ->
            IF result[o] = "none" THEN "stopped" ELSE result[o]
      [] OTHER -> "started"

Contract == INSTANCE IoContract
                WITH status <- [o \in Ops |-> Status(o)],
                     asked <- stop \cup aborted

ImplementsIo == Contract!IoSpec

\* A waiting operation whose direction is ready completes, and so does one
\* that was asked to stop.
WaitEnds ==
    \A o \in Ops : pc[o] = "armed" /\ (Ready(Dir(o)) \/ o \in stop) ~> pc[o] = "done"

=============================================================================
