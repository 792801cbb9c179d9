------------------------------- MODULE MCSync -------------------------------
(***************************************************************************)
(* The parts of the library in which operations wait for each other, each  *)
(* on an instance of its own: the latch with three waiters, so that one    *)
(* can be pushed before, one during and one behind a late notification,    *)
(* and a counting thread; two waiters for a signal, on either platform;    *)
(* and a race of three children.  A behaviour is about one of them, its    *)
(* subject; the others keep their initial state.                           *)
(***************************************************************************)
EXTENDS AsyncLatch, WhenAny

CONSTANTS w1, w2, w3, c1        \* waiters of the latch or the signal, a counter

VARIABLES subject,
          \* SignalWait
          head, prev, link, handler, phase, ended, starter, callback, deliverer, done,
          notices, raises, dog, cursor, after

latchVars == vars
signalVars == <<head, prev, link, handler, phase, ended, starter, callback, deliverer, done,
                notices, raises, dog, cursor, after>>

Posix == INSTANCE SignalWait WITH
    Waiters <- {w1, w2}, Windows <- FALSE, MaxRaises <- 2, next <- link, result <- ended
Win == INSTANCE SignalWait WITH
    Waiters <- {w1, w2}, Windows <- TRUE, MaxRaises <- 2, next <- link, result <- ended

ASSUME ConstantsAreSound ==
    Posix!SignalAssumption /\ Win!SignalAssumption /\ WhenAnyAssumption

SyncInit ==
    /\ subject \in {"async_latch", "signal_wait", "win/signal_wait", "when_any"}
    /\ Init /\ Posix!Init /\ RaceInit

SyncNext ==
    /\ UNCHANGED subject
    /\ IF subject = "async_latch" THEN Next ELSE UNCHANGED latchVars
    /\ CASE subject = "signal_wait" -> Posix!Next
         [] subject = "win/signal_wait" -> Win!Next
         [] OTHER -> UNCHANGED signalVars
    /\ IF subject = "when_any" THEN RaceNext ELSE UNCHANGED raceVars

\* No action that is to be fair can be taken before a user has called into its
\* component: in the components that are not the subject nothing is owed.
SyncSpec ==
    /\ SyncInit /\ [][SyncNext]_<<subject, latchVars, signalVars, raceVars>>
    /\ Fairness /\ Posix!Fairness /\ RaceFairness

-----------------------------------------------------------------------------
\* Every wait that has a reason to end does, and nothing refers to a wait for
\* a signal once it has ended.
WaitsEnd ==
    /\ EveryWaitEnds
    /\ Posix!EveryWaitEnds /\ [](Posix!NoUseAfterDelivery)
    /\ RaceEnds
=============================================================================
