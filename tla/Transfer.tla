------------------------------ MODULE Transfer ------------------------------
(***************************************************************************)
(* The algorithms of include/coio/asyncio/io.h over a device that may      *)
(* transfer less than it is asked to.                                      *)
(*                                                                         *)
(* read, write, read_at, write_at and their async_ forms repeat the        *)
(* device's operation on what remains of a span, or of the bytes that a    *)
(* dynamic buffer prepared or holds.  Byte i of the span and byte j of the *)
(* device are numbers, and a transfer is the sequence of pairs <<i, j>> it *)
(* moved.                                                                  *)
(*                                                                         *)
(* read_until and async_read_until look for a delimiter in what a dynamic  *)
(* buffer holds and read more until it is there; a later look starts where *)
(* the earlier one ended, less what a delimiter may straddle.              *)
(***************************************************************************)
EXTENDS Naturals, Sequences, SequencesExt, FiniteSetsExt

CONSTANTS Transfers,    \* the calls: see below
          Bytes,        \* what a stream and a delimiter consist of
          Offset,       \* where a positional transfer starts
          Step          \* the least a read of read_until asks for (512 in the code)

\* A call of the first kind is [form |-> "transfer", async, at, total];
\* one of the second [form |-> "until", async, delim, stream, held, max], of a
\* buffer that already holds the bytes held and may grow to max.
TransferAssumption ==
    /\ Offset \in Nat /\ Step \in Nat \ {0}
    /\ \A c \in Transfers :
          \/ /\ c.form = "transfer" /\ c.async \in BOOLEAN /\ c.at \in BOOLEAN /\ c.total \in Nat
          \/ /\ c.form = "until" /\ c.async \in BOOLEAN
             /\ {c.delim, c.stream, c.held} \subseteq Seq(Bytes)
             /\ c.max \in Nat /\ Len(c.held) <= c.max

VARIABLES call, pc,
          moved,        \* history: the pairs the device transferred
          cursor,       \* how far the stream device has got
          remaining,    \* the length of the span that remains
          offset,       \* the offset of the next positional transfer
          accumulated,  \* transfer_bytes_state_base::accumulated
          buffer,       \* the readable bytes of the dynamic buffer
          search_pos,
          outcome       \* [ec, n], and what was committed to or consumed from the buffer

vars == <<call, pc, moved, cursor, remaining, offset, accumulated, buffer, search_pos, outcome>>
transferVars == <<moved, remaining, offset, accumulated>>
untilVars == <<buffer, search_pos>>

NoOutcome == [ec |-> "none", n |-> 0, handed |-> 0]
Errors == {"eof", "canceled"}
IsTransfer == call.form = "transfer"

StartOf(c) ==
    /\ call = c
    /\ pc = "start"
    /\ moved = <<>> /\ cursor = 0 /\ accumulated = 0 /\ search_pos = 0
    /\ offset = Offset
    /\ remaining = IF IsTransfer THEN call.total ELSE 0
    /\ buffer = IF IsTransfer THEN <<>> ELSE call.held
    /\ outcome = NoOutcome

Init == \E c \in Transfers : StartOf(c)

Complete(ec, n, handed) ==
    /\ outcome' = [ec |-> ec, n |-> n, handed |-> handed]
    /\ pc' = "done"

-----------------------------------------------------------------------------
\* The synchronous forms return at once for an empty span; the asynchronous
\* ones ask the device.
StartTransfer ==
    /\ IsTransfer /\ pc = "start"
    /\ IF ~call.async /\ call.total = 0
       THEN Complete("ok", 0, 0)
       ELSE pc' = "asks" /\ UNCHANGED outcome
    /\ UNCHANGED <<transferVars, untilVars, call, cursor>>

Position == IF call.at THEN offset ELSE cursor

\* Where the next transfer starts, after n more bytes.
Advanced(n) == offset + n

\* The device transfers n bytes, and the algorithm goes on with the rest.
Some ==
    /\ IsTransfer /\ pc = "asks"
    /\ \E n \in 0..remaining :
          /\ n = 0 <=> remaining = 0
          /\ moved' = moved \o [i \in 1..n |-> <<call.total - remaining + i, Position + i>>]
          /\ remaining' = remaining - n
          /\ accumulated' = accumulated + n
          /\ offset' = IF call.at THEN Advanced(n) ELSE offset
          /\ cursor' = IF call.at THEN cursor ELSE cursor + n
    /\ IF remaining' = 0
       THEN Complete("ok", IF call.async THEN accumulated' ELSE call.total, accumulated')
       ELSE UNCHANGED <<pc, outcome>>
    /\ UNCHANGED <<untilVars, call>>

\* The device fails, or is told to stop.  The synchronous form throws: a dynamic
\* buffer then gets nothing; the asynchronous one reports and hands over what
\* was transferred.
Fail ==
    /\ IsTransfer /\ pc = "asks"
    /\ \E ec \in Errors :
          /\ ec = "canceled" => call.async
          /\ IF call.async THEN Complete(ec, accumulated, accumulated) ELSE Complete(ec, 0, 0)
    /\ UNCHANGED <<transferVars, untilVars, call, cursor>>

-----------------------------------------------------------------------------
\* The positions just past an occurrence of the delimiter in s that starts at
\* start + 1 or later.
Ends(s, delim, start) ==
    {k \in start + Len(delim)..Len(s) : SubSeq(s, k - Len(delim) + 1, k) = delim}

\* Where a look starts: before search_pos by what a delimiter may straddle.
FaultyLookFrom(delim) == search_pos

LookFrom(delim) ==
    IF search_pos > Len(delim) - 1 THEN search_pos - Len(delim) + 1 ELSE 0

\* search(), then what follows from it: the position, not_found once the buffer
\* cannot grow, or another read.
Search ==
    /\ ~IsTransfer /\ pc = "start"
    /\ LET found == Ends(buffer, call.delim, LookFrom(call.delim))
       IN  IF call.delim = <<>> THEN Complete("ok", 0, 0) /\ UNCHANGED search_pos
           ELSE IF found # {} THEN Complete("ok", Min(found), 0) /\ UNCHANGED search_pos
           ELSE /\ search_pos' = Len(buffer)
                /\ IF Len(buffer) = call.max THEN Complete("not_found", 0, 0)
                                             ELSE pc' = "asks" /\ UNCHANGED outcome
    /\ UNCHANGED <<transferVars, call, cursor, buffer>>

\* The room a read asks for: the capacity is what the buffer already has.
Room == Min({Step, call.max - Len(buffer)})

\* A read of some of the bytes that the stream still has, and their commit; at
\* the end of the stream it fails instead.
ReadMore ==
    /\ ~IsTransfer /\ pc = "asks"
    /\ \E n \in 1..Min({Room, Len(call.stream) - cursor}) :
          /\ buffer' = buffer \o SubSeq(call.stream, cursor + 1, cursor + n)
          /\ cursor' = cursor + n
    /\ pc' = "start"
    /\ UNCHANGED <<transferVars, call, search_pos, outcome>>

ReadFails ==
    /\ ~IsTransfer /\ pc = "asks"
    /\ \E ec \in Errors :
          /\ ec = "eof" => cursor = Len(call.stream)
          /\ ec = "canceled" => call.async
          /\ Complete(ec, 0, 0)
    /\ UNCHANGED <<transferVars, call, cursor, buffer, search_pos>>

Next == StartTransfer \/ Some \/ Fail \/ Search \/ ReadMore \/ ReadFails

Spec == Init /\ [][Next]_vars

-----------------------------------------------------------------------------
\* What moved is one contiguous run of the span onto one of the device, from
\* where the call said, whatever the sizes of the pieces; success means the whole
\* span; and an asynchronous call reports and hands to the dynamic buffer exactly
\* what it moved, also when it fails or is stopped after some pieces.
TransferIsExact ==
    IsTransfer =>
        /\ moved = [i \in 1..Len(moved) |-> <<i, IF call.at THEN Offset + i ELSE i>>]
        /\ outcome.ec = "ok" => Len(moved) = call.total /\ outcome.n = call.total
        /\ pc = "done" /\ call.async => outcome.n = Len(moved) /\ outcome.handed = Len(moved)

\* However the stream was cut into pieces, the position is that of the first
\* delimiter of the whole input, no byte of which was lost, and not_found and eof
\* are reported only for a delimiter that is not among the bytes read.
FirstDelimiterIsFound ==
    (~IsTransfer /\ pc = "done") =>
        LET input == call.held \o call.stream
        IN  /\ buffer = SubSeq(input, 1, Len(buffer)) /\ Len(buffer) <= call.max
            /\ outcome.ec = "ok" /\ call.delim # <<>> => outcome.n = Min(Ends(input, call.delim, 0))
            /\ outcome.ec \in {"not_found", "eof"} => Ends(buffer, call.delim, 0) = {}

\* Both kinds of algorithm do what they promise on every cut of the data.
AlgorithmsAreExact == TransferIsExact /\ FirstDelimiterIsFound
=============================================================================
