--------------------------- MODULE FifoSemaphore ---------------------------
(***************************************************************************)
(* What async_semaphore promises (docs/utils/synchronization.md): permits  *)
(* are conserved, acquirers that find none get in line, a release goes to  *)
(* the one that has waited longest, who stops waiting leaves the line      *)
(* without a permit, and releasing beyond the maximum terminates.          *)
(***************************************************************************)
EXTENDS Integers, Sequences, SequencesExt

CONSTANTS Waiters, Initial, Maximum

VARIABLES permits,      \* the permits nobody holds
          line,         \* the acquirers that wait
          granted,      \* those that got a permit
          stopped,      \* those that gave up
          stop,         \* those that were asked to stop
          terminated

semaphoreVars == <<permits, line, granted, stopped, stop, terminated>>

SemaphoreInit ==
    /\ permits = Initial
    /\ line = <<>>
    /\ granted = {} /\ stopped = {} /\ stop = {}
    /\ terminated = FALSE

Outside(w) == w \notin ToSet(line) \cup granted \cup stopped

AskToStop(w) ==
    /\ stop' = stop \cup {w}
    /\ UNCHANGED <<permits, line, granted, stopped, terminated>>

\* An acquirer takes a permit at once, or finds none and waits.
TakePermit(w) ==
    /\ permits > 0
    /\ Outside(w)
    /\ permits' = permits - 1
    /\ granted' = granted \cup {w}
    /\ UNCHANGED <<line, stopped, stop, terminated>>

Wait(w) ==
    /\ permits = 0
    /\ Outside(w)
    /\ line' = Append(line, w)
    /\ UNCHANGED <<permits, granted, stopped, stop, terminated>>

GiveUp(w) ==
    /\ w \in stop
    /\ w \notin granted \cup stopped
    /\ stopped' = stopped \cup {w}
    /\ line' = IF w \in ToSet(line) THEN RemoveAt(line, CHOOSE i \in DOMAIN line : line[i] = w)
               ELSE line
    /\ UNCHANGED <<permits, granted, stop, terminated>>

\* try_acquire().
TakeAway ==
    /\ permits > 0
    /\ permits' = permits - 1
    /\ UNCHANGED <<line, granted, stopped, stop, terminated>>

\* release(): to the first in line, or back to the permits.
GivePermit ==
    /\ line # <<>>
    /\ granted' = granted \cup {Head(line)}
    /\ line' = Tail(line)
    /\ UNCHANGED <<permits, stopped, stop, terminated>>

PutBack ==
    /\ line = <<>>
    /\ permits < Maximum
    /\ permits' = permits + 1
    /\ UNCHANGED <<line, granted, stopped, stop, terminated>>

Overflow ==
    /\ line = <<>>
    /\ permits = Maximum
    /\ terminated' = TRUE
    /\ UNCHANGED <<permits, line, granted, stopped, stop>>

SemaphoreNext ==
    \/ \E w \in Waiters : AskToStop(w) \/ TakePermit(w) \/ Wait(w) \/ GiveUp(w)
    \/ TakeAway \/ GivePermit \/ PutBack \/ Overflow

SemaphoreSpec == SemaphoreInit /\ [][SemaphoreNext]_semaphoreVars
=============================================================================
