--------------------------- MODULE SignalContract ---------------------------
(***************************************************************************)
(* What waiting for a signal promises (docs/utils/signal-wait.md): a wait  *)
(* completes once, with the signal after it was raised, as stopped after   *)
(* it was asked to, or with an error; a delivery is remembered for later   *)
(* waits.  SignalWait implements it.                                       *)
(***************************************************************************)
CONSTANT Waiters

VARIABLES status,   \* status[o]: how far wait o has got
          raised,   \* whether the signal was raised
          asked     \* the waits that were asked to stop

signalVars == <<status, raised, asked>>

SignalInit == status = [o \in Waiters |-> "idle"] /\ raised = FALSE /\ asked = {}

StartWait(o) ==
    /\ status[o] = "idle"
    /\ status' = [status EXCEPT ![o] = "started"]
    /\ UNCHANGED <<raised, asked>>

Raise ==
    /\ raised' = TRUE
    /\ UNCHANGED <<status, asked>>

AskToStop(o) ==
    /\ asked' = asked \cup {o}
    /\ UNCHANGED <<status, raised>>

Complete(o, outcome) ==
    /\ status[o] = "started"
    /\ outcome = "value" => raised
    /\ outcome = "stopped" => o \in asked
    /\ status' = [status EXCEPT ![o] = outcome]
    /\ UNCHANGED <<raised, asked>>

SignalNext ==
    \/ Raise
    \/ \E o \in Waiters :
          StartWait(o) \/ AskToStop(o) \/ \E r \in {"value", "stopped", "error"} : Complete(o, r)

SignalSpec == SignalInit /\ [][SignalNext]_signalVars
=============================================================================
