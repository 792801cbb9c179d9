------------------------------ MODULE FifoLock ------------------------------
(***************************************************************************)
(* What async_mutex promises (docs/utils/synchronization.md): one owner at *)
(* a time; who has to wait gets in line, and unlock() hands the lock to    *)
(* the one that has waited longest.                                        *)
(***************************************************************************)
EXTENDS Sequences, SequencesExt

CONSTANTS Clients, Nobody

VARIABLES owner,    \* who has the lock, or is being handed it
          line      \* who waits, the longest first

lockVars == <<owner, line>>

LockInit == owner = Nobody /\ line = <<>>

Acquire(c) ==
    /\ owner = Nobody
    /\ owner' = c
    /\ UNCHANGED line

Queue(c) ==
    /\ owner \notin {Nobody, c}
    /\ c \notin ToSet(line)
    /\ line' = Append(line, c)
    /\ UNCHANGED owner

Release ==
    /\ owner # Nobody
    /\ line = <<>>
    /\ owner' = Nobody
    /\ UNCHANGED line

\* The lock is never free while somebody waits.
HandOver ==
    /\ owner # Nobody
    /\ line # <<>>
    /\ owner' = Head(line)
    /\ line' = Tail(line)

LockNext == (\E c \in Clients : Acquire(c) \/ Queue(c)) \/ Release \/ HandOver

LockSpec == LockInit /\ [][LockNext]_lockVars
=============================================================================
