---------------------------- MODULE InputOutput ----------------------------
(***************************************************************************)
(* What a program that does input and output relies on, from below: an     *)
(* operation that waits for a descriptor (EpollReactor) or for a signal    *)
(* (SignalWait), with a stop request that races the event for it; which of *)
(* the three contexts serves a socket (IoBackends) and which of the two    *)
(* platforms a file is on (StreamFile); the buffer that bytes are read     *)
(* into (FlatBuffer), and the algorithms that read and write more than one *)
(* operation can (Transfer).                                               *)
(*                                                                         *)
(* They share no state: a program that uses several of them is a behaviour *)
(* of each.                                                                *)
(***************************************************************************)
EXTENDS EpollReactor

CONSTANTS Waiters, Windows, MaxRaises,          \* SignalWait
          Bytes, Largest,                       \* StreamFile; the bytes of Transfer too
          Buffers, MaxSizes, Sizes, Floor, Word,  \* FlatBuffer
          Transfers, Offset, Step               \* Transfer

VARIABLES
    \* SignalWait
    head, prev, next, handler, phase, outcomes, starter, callback, deliverer, done,
    notices, raises, dog, cursor, after,
    \* IoBackends
    ioObject, kind, empty, known, answers, accepted,
    \* StreamFile
    disk, mode, handles, position, pointer, fileOffset, said, excused,
    \* FlatBuffer
    buf, queue, fresh,
    \* Transfer
    call, callPc, units, reached, remaining, offset, accumulated, buffer, search_pos, reported

Signal == INSTANCE SignalWait WITH result <- outcomes

Backends == INSTANCE IoBackends WITH
    object <- ioObject, outcome <- known, answer <- answers

File == INSTANCE StreamFile WITH offset <- fileOffset

Flat == INSTANCE FlatBuffer

Io == INSTANCE Transfer WITH
    pc <- callPc, moved <- units, cursor <- reached, outcome <- reported

-----------------------------------------------------------------------------
\* A wait for a signal and an operation of a descriptor keep their contracts.
\* Nothing refers to a waiter that has completed; and with both directions of
\* a descriptor in use, its entry and its operations agree, and no edge is lost.
ContractsAreKept ==
    /\ [](Signal!NoUseAfterDelivery)
    /\ Signal!ImplementsSignal
    /\ [](TypeOK /\ SlotsAgree /\ EdgeNotLost)
    /\ ImplementsIo

\* The three contexts give a socket's user the same answers and one owner to
\* each accepted connection; the two platforms give the same for a file.
PlatformsAgree ==
    /\ Backends!BackendsAgree /\ Backends!SocketIsOwned
    /\ File!PlatformsAgree

\* A buffer holds what was committed and not consumed.
BytesAreKept == Flat!BytesAreKept

\* read(), write() and read_until() transfer what they report.
AlgorithmsAreExact == Io!AlgorithmsAreExact
=============================================================================
