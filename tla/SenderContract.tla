--------------------------- MODULE SenderContract ---------------------------
(***************************************************************************)
(* What every stoppable operation of the library promises its receiver     *)
(* (docs/concepts.md, "Cancellation model"): an operation that is started  *)
(* completes at most once, with a value or as stopped, and only as stopped *)
(* when somebody has asked it to stop.  OperationState implements it.      *)
(***************************************************************************)
CONSTANT Ops            \* the operation states

VARIABLES status,       \* status[o]: how far operation o has got
          stop          \* the operations whose stop token has been triggered

contractVars == <<status, stop>>

Status == {"idle", "started", "value", "stopped"}

ContractInit ==
    /\ status = [o \in Ops |-> "idle"]
    /\ stop = {}

\* The receiver's owner calls start() once.
StartOp(o) ==
    /\ status[o] = "idle"
    /\ status' = [status EXCEPT ![o] = "started"]
    /\ UNCHANGED stop

\* Anybody may request stop, at any time, also before the start.
AskToStop(o) ==
    /\ stop' = stop \cup {o}
    /\ UNCHANGED status

\* set_value.
CompleteWithValue(o) ==
    /\ status[o] = "started"
    /\ status' = [status EXCEPT ![o] = "value"]
    /\ UNCHANGED stop

\* set_stopped: only for an operation that was asked to stop.
CompleteStopped(o) ==
    /\ status[o] = "started"
    /\ o \in stop
    /\ status' = [status EXCEPT ![o] = "stopped"]
    /\ UNCHANGED stop

ContractNext ==
    \E o \in Ops : \/ StartOp(o)
                   \/ AskToStop(o)
                   \/ CompleteWithValue(o)
                   \/ CompleteStopped(o)

ContractSpec == ContractInit /\ [][ContractNext]_contractVars
=============================================================================
