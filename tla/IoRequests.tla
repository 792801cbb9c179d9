----------------------------- MODULE IoRequests -----------------------------
(***************************************************************************)
(* The asynchronous operations of an I/O object and what each context      *)
(* makes of them: one definition per operation type, for everything        *)
(* between the call on the object and the result the receiver gets.        *)
(*                                                                         *)
(* An operation r says what is asked for, whether the object has a         *)
(* descriptor, whether it knows that to be a stream's, and whether the     *)
(* buffer is empty.                                                        *)
(* said is the word of the system: "none" while it has none (the call      *)
(* would block, the request is in flight), "moved" or "zero" for a         *)
(* transfer of some or no bytes, "failed", "canceled", and on Windows      *)
(* "handle_eof".                                                           *)
(***************************************************************************)

Reading == {"read_some", "read_some_at", "receive", "receive_from"}
Writing == {"write_some", "write_some_at", "send", "send_to"}
Calls == Reading \cup Writing \cup {"accept", "connect"}

Objects == [open : BOOLEAN, stream : BOOLEAN]

Operation(object, kind, empty, stream) ==
    [kind |-> kind, open |-> object.open, stream |-> stream, empty |-> empty]

Reported(said, nothingMeansEof) ==
    CASE said = "none" -> "pending"
      [] said = "canceled" -> "stopped"
      [] said = "failed" -> "error"
      [] said = "zero" -> (IF nothingMeansEof THEN "eof" ELSE "none moved")
      [] OTHER -> "value"

\* The check every operation starts with.
WithHandle(r, a) == IF r.open THEN a ELSE "error"

\* Some operations do not ask the system about an empty buffer.
Unless(nothingToDo, a) == IF nothingToDo THEN "none moved" ELSE a

(***************************************************************************)
(* epoll_context: do_start() and perform().  Positional transfers are not  *)
(* supported.                                                              *)
(***************************************************************************)

EpollReadSome(r, said) == WithHandle(r, Unless(r.empty, Reported(said, TRUE)))
EpollWriteSome(r, said) == WithHandle(r, Unless(r.empty, Reported(said, FALSE)))
EpollReceive(r, said) ==
    WithHandle(r, Unless(r.stream /\ r.empty, Reported(said, r.stream /\ ~r.empty)))
EpollSend(r, said) == WithHandle(r, Reported(said, FALSE))
EpollReceiveFrom(r, said) == WithHandle(r, Reported(said, FALSE))
EpollSendTo(r, said) == WithHandle(r, Reported(said, FALSE))
EpollAccept(r, said) == WithHandle(r, Reported(said, FALSE))
EpollConnect(r, said) == WithHandle(r, Reported(said, FALSE))

EpollCalls == Calls \ {"read_some_at", "write_some_at"}

\* What the operation state keeps of the object and of the call.
EpollOperation(object, kind, empty) ==
    Operation(object, kind, empty, kind = "receive" /\ object.stream)

EpollAnswer(r, said) ==
    CASE r.kind = "read_some" -> EpollReadSome(r, said)
      [] r.kind = "write_some" -> EpollWriteSome(r, said)
      [] r.kind = "receive" -> EpollReceive(r, said)
      [] r.kind = "send" -> EpollSend(r, said)
      [] r.kind = "receive_from" -> EpollReceiveFrom(r, said)
      [] r.kind = "send_to" -> EpollSendTo(r, said)
      [] r.kind = "accept" -> EpollAccept(r, said)
      [] r.kind = "connect" -> EpollConnect(r, said)

(***************************************************************************)
(* uring_context: the common do_start() and complete(), and those          *)
(* operations that have a try_complete() or a complete() of their own.     *)
(***************************************************************************)

UringStarts(r, nothingToDo) == WithHandle(r, Unless(nothingToDo, "pending"))
UringCompletes(said) == Reported(said, FALSE)
UringReadSome(r, said) == Reported(said, ~r.empty)
UringReadSomeAt(r, said) == Reported(said, ~r.empty)
UringReceive(r, said) == Reported(said, r.stream /\ ~r.empty)
UringReceiveFrom(r, said) == Reported(said, FALSE)

UringCalls == Calls

UringOperation(object, kind, empty) ==
    Operation(object, kind, empty, kind = "receive" /\ object.stream)

UringAnswer(r, said) ==
    LET a == UringStarts(r, r.kind = "receive" /\ r.stream /\ r.empty)
    IN  IF a # "pending" THEN a
        ELSE CASE r.kind = "read_some" -> UringReadSome(r, said)
               [] r.kind = "read_some_at" -> UringReadSomeAt(r, said)
               [] r.kind = "receive" -> UringReceive(r, said)
               [] r.kind = "receive_from" -> UringReceiveFrom(r, said)
               [] OTHER -> UringCompletes(said)

(***************************************************************************)
(* iocp_context: do_start() and complete().  A file object keeps the       *)
(* position itself and asks for positional transfers.                      *)
(***************************************************************************)

IocpReadSomeAt(r, said) ==
    WithHandle(r, Unless(r.empty,
        IF said = "handle_eof" THEN "eof" ELSE Reported(said, TRUE)))
IocpWriteSomeAt(r, said) == WithHandle(r, Unless(r.empty, Reported(said, FALSE)))
IocpReceive(r, said) ==
    WithHandle(r, Unless(r.stream /\ r.empty, Reported(said, r.stream /\ ~r.empty)))
IocpSend(r, said) == WithHandle(r, Unless(r.stream /\ r.empty, Reported(said, FALSE)))
IocpReceiveFrom(r, said) == WithHandle(r, Reported(said, FALSE))
IocpSendTo(r, said) == WithHandle(r, Reported(said, FALSE))
IocpAccept(r, said) == WithHandle(r, Reported(said, FALSE))
IocpConnect(r, said) == WithHandle(r, Reported(said, FALSE))

IocpCalls == Calls

IocpInitiates(kind) ==
    CASE kind = "read_some" -> "read_some_at"
      [] kind = "write_some" -> "write_some_at"
      [] OTHER -> kind

IocpOperation(object, kind, empty) ==
    Operation(object, IocpInitiates(kind), empty, kind \in {"receive", "send"} /\ object.stream)

IocpAnswer(r, said) ==
    CASE r.kind = "read_some_at" -> IocpReadSomeAt(r, said)
      [] r.kind = "write_some_at" -> IocpWriteSomeAt(r, said)
      [] r.kind = "receive" -> IocpReceive(r, said)
      [] r.kind = "send" -> IocpSend(r, said)
      [] r.kind = "receive_from" -> IocpReceiveFrom(r, said)
      [] r.kind = "send_to" -> IocpSendTo(r, said)
      [] r.kind = "accept" -> IocpAccept(r, said)
      [] r.kind = "connect" -> IocpConnect(r, said)
=============================================================================
