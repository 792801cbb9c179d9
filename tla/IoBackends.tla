----------------------------- MODULE IoBackends -----------------------------
(***************************************************************************)
(* The same call on an I/O object, made once under each of the three       *)
(* contexts: epoll_context tries the system call in do_start() and again   *)
(* in perform(), uring_context leaves it to the kernel, iocp_context may   *)
(* get the result at once or as a completion packet, and makes the socket  *)
(* for accept itself.                                                      *)
(***************************************************************************)
EXTENDS IoRequests

VARIABLES object,       \* the I/O object
          kind, empty,  \* the call, "none" before it is made
          outcome,      \* what the system has to say, "none" until it is known
          answer,       \* answer[b]: what the receiver gets in context b
          accepted      \* iocp_context's accepted_: "none", "open", "closed"

vars == <<object, kind, empty, outcome, answer, accepted>>

Backends == {"epoll", "uring", "iocp"}
Answers == {"error", "eof", "none moved", "value", "stopped"}

Supports(b) == kind \in (CASE b = "epoll" -> EpollCalls
                           [] b = "uring" -> UringCalls
                           [] OTHER -> IocpCalls)

StartOf(o) ==
    /\ object = o
    /\ kind = "none" /\ empty = FALSE /\ outcome = "none"
    /\ answer = [b \in Backends |-> "none"]
    /\ accepted = "none"

Init == \E o \in Objects : StartOf(o)

Call ==
    /\ kind = "none"
    /\ kind' \in Calls
    /\ empty' \in {e \in BOOLEAN : e => kind' \in Reading \cup Writing}
    /\ UNCHANGED <<object, outcome, answer, accepted>>

\* The system decides; an empty buffer moves nothing, a datagram may be empty.
Decide ==
    /\ kind # "none" /\ outcome = "none"
    /\ outcome' \in {"failed", "canceled"} \cup
          (IF empty THEN {"zero"}
           ELSE IF kind \in Reading THEN {"moved", "zero"} ELSE {"moved"})
    /\ UNCHANGED <<object, kind, empty, answer, accepted>>

Answer(b, a) == answer' = [answer EXCEPT ![b] = a]

EpollStart ==
    /\ Supports("epoll") /\ answer["epoll"] = "none"
    /\ \E said \in {"none"} \cup ({outcome} \ {"canceled"}) :
           Answer("epoll", EpollAnswer(EpollOperation(object, kind, empty), said))
    /\ UNCHANGED <<object, kind, empty, outcome, accepted>>

\* perform(), or cancel_op() on the operation in its slot.
EpollFinish ==
    /\ answer["epoll"] = "pending" /\ outcome # "none"
    /\ Answer("epoll", IF outcome = "canceled" THEN "stopped"
                       ELSE EpollAnswer(EpollOperation(object, kind, empty), outcome))
    /\ UNCHANGED <<object, kind, empty, outcome, accepted>>

UringStart ==
    /\ Supports("uring") /\ answer["uring"] = "none"
    /\ Answer("uring", UringAnswer(UringOperation(object, kind, empty), "none"))
    /\ UNCHANGED <<object, kind, empty, outcome, accepted>>

UringFinish ==
    /\ answer["uring"] = "pending" /\ outcome # "none"
    /\ Answer("uring", UringAnswer(UringOperation(object, kind, empty), outcome))
    /\ UNCHANGED <<object, kind, empty, outcome, accepted>>

\* What the system's word is called by Windows: the end of a file may be an
\* error of its own.
WindowsResults ==
    IF outcome = "zero" /\ kind \in {"read_some", "read_some_at"} /\ ~empty
    THEN {"zero", "handle_eof"} ELSE {outcome}

\* Up to the call of the system: the checks, and a socket for the connection,
\* which may not be had.
IocpStart ==
    /\ Supports("iocp") /\ answer["iocp"] = "none"
    /\ LET a == IocpAnswer(IocpOperation(object, kind, empty), "none")
       IN  \/ /\ Answer("iocp", a)
              /\ accepted' = IF a = "pending" /\ kind = "accept" THEN "open" ELSE accepted
           \/ /\ a = "pending" /\ kind \in {"accept", "connect"} /\ outcome = "failed"
              /\ Answer("iocp", "error") /\ UNCHANGED accepted
    /\ UNCHANGED <<object, kind, empty, outcome>>

\* complete(): the socket that accept prepared is kept only on success; a
\* failure may also be one to set the socket up.
IocpReports(said) ==
    /\ Answer("iocp", IocpAnswer(IocpOperation(object, kind, empty), said))
    /\ accepted' = IF accepted = "open" /\ said # "moved" THEN "closed" ELSE accepted
    /\ UNCHANGED <<object, kind, empty, outcome>>

\* The result at once, or the completion packet.
IocpFinish ==
    /\ answer["iocp"] = "pending" /\ outcome # "none"
    /\ \E said \in WindowsResults : IocpReports(said)

Next ==
    \/ Call \/ Decide
    \/ EpollStart \/ EpollFinish
    \/ UringStart \/ UringFinish
    \/ IocpStart \/ IocpFinish

Spec == Init /\ [][Next]_vars

-----------------------------------------------------------------------------
\* Whatever context the program runs on, a receiver is told the same of the
\* same event: a context that does not ask the system about an empty buffer
\* says what a transfer of nothing says, end of file is never taken for an
\* empty datagram, and no descriptor is the same error everywhere.
BackendsAgree ==
    \A b, c \in Backends : {answer[b], answer[c]} \subseteq Answers =>
        \/ answer[b] = answer[c]
        \/ object.open /\ empty /\ "none moved" \in {answer[b], answer[c]}

\* The socket made for a connection belongs to the receiver or is closed.
SocketIsOwned ==
    /\ accepted = "open" => answer["iocp"] \in {"pending", "value"}
    /\ kind = "accept" /\ answer["iocp"] = "value" => accepted = "open"
=============================================================================
