----------------------------- MODULE IoContract -----------------------------
(***************************************************************************)
(* What an asynchronous I/O operation promises, whichever context runs it  *)
(* (docs/io/model.md, "Cancellation"): it completes once; it reports a     *)
(* transfer exactly when it made one, so that cancelling never loses what  *)
(* was already read or written; and it completes as stopped only when its  *)
(* stop token or its I/O object was asked to.  EpollReactor implements it. *)
(***************************************************************************)
CONSTANT Ops            \* the operations

VARIABLES status,       \* status[o]: how far operation o has got
          moved,        \* moved[o]: whether o has transferred data
          asked         \* the operations somebody has asked to stop

ioVars == <<status, moved, asked>>

IoInit ==
    /\ status = [o \in Ops |-> "idle"]
    /\ moved = [o \in Ops |-> FALSE]
    /\ asked = {}

StartIo(o) ==
    /\ status[o] = "idle"
    /\ status' = [status EXCEPT ![o] = "started"]
    /\ UNCHANGED <<moved, asked>>

\* A stop token concerns one operation, cancelling an object several.
AskToStop(S) ==
    /\ asked' = asked \cup S
    /\ UNCHANGED <<status, moved>>

\* The system call succeeds for the operations in S, once for each.
Transfer(S) ==
    /\ \A o \in S : status[o] = "started" /\ ~moved[o]
    /\ moved' = [o \in Ops |-> o \in S \/ moved[o]]
    /\ UNCHANGED <<status, asked>>

\* The outcome: the transfer, or an error or a stop without any transfer.
Complete(o, outcome) ==
    /\ status[o] = "started"
    /\ \/ outcome = "value" /\ moved[o]
       \/ outcome = "error" /\ ~moved[o]
       \/ outcome = "stopped" /\ ~moved[o] /\ o \in asked
    /\ status' = [status EXCEPT ![o] = outcome]
    /\ UNCHANGED <<moved, asked>>

IoNext ==
    \/ \E o \in Ops : StartIo(o)
    \/ \E S \in SUBSET Ops : AskToStop(S) \/ Transfer(S)
    \/ \E o \in Ops, outcome \in {"value", "error", "stopped"} : Complete(o, outcome)

IoSpec == IoInit /\ [][IoNext]_ioVars
=============================================================================
