----------------------------- MODULE FlatBuffer -----------------------------
(***************************************************************************)
(* basic_flat_buffer (include/coio/utils/flat_buffer.h): a contiguous      *)
(* dynamic buffer.  prepare() makes room past the readable bytes, by       *)
(* moving them to the front or to a larger allocation; commit() makes      *)
(* prepared bytes readable; consume() drops them at the front.  The bytes  *)
(* are here the numbers of the stream they belong to, sizes are machine    *)
(* words, and the smallest allocation, 512 bytes in the code, is Floor.    *)
(***************************************************************************)
EXTENDS Naturals, Sequences, SequencesExt, FiniteSetsExt

CONSTANTS Buffers,
          MaxSizes,     \* MaxSizes[b]: the max_size b was constructed with
          Sizes,        \* the sizes callers ask for
          Floor,
          Word          \* sizes are taken modulo Word

FlatAssumption == /\ Word \in Nat /\ Floor \in 1..Word - 1
                  /\ Sizes \subseteq 0..Word - 1
                  /\ MaxSizes \in [Buffers -> 0..Word - 1]

VARIABLES buf,          \* buf[b]: [mem, in, out, last, max], where mem is data_[0, end_)
          queue,        \* history: queue[b], what was committed and not consumed
          fresh         \* the next byte of the stream

vars == <<buf, queue, fresh>>

\* A byte that nobody has written, or that was consumed: buffers that differ in
\* such bytes alone are one state.
Junk == 0
Streams == 2                            \* the bytes are numbered 1..Streams, and again
Size(v) == v.out - v.in
End(v) == Len(v.mem)
Readable(v) == SubSeq(v.mem, v.in + 1, v.out)
Minus(a, b) == (a + Word - b) % Word
Allocation(n, bytes) == [i \in 1..n |-> IF i <= Len(bytes) THEN bytes[i] ELSE Junk]

Empty(max) == [mem |-> <<>>, in |-> 0, out |-> 0, last |-> 0, max |-> max]

Init ==
    /\ buf = [b \in Buffers |-> Empty(MaxSizes[b])]
    /\ queue = [b \in Buffers |-> <<>>]
    /\ fresh = 1

\* The bytes of v at the front of a new allocation.
Moved(v, n) == [v EXCEPT !.mem = Allocation(n, Readable(v)), !.in = 0, !.out = Size(v)]

\* The capacity prepare() grows to: that of before, or Floor, doubled until it is
\* enough; or as much as is needed, once that would pass the maximum.
Grown(v, n) ==
    LET need == Size(v) + n
        from == Max({End(v), Floor})
        enough == {k \in need..v.max : \E j \in 1..Word : k = from * 2 ^ j}
    IN  IF from >= need THEN from
        ELSE IF enough # {} THEN Min(enough) ELSE Min({need, v.max})

TooLong(v, n) ==
    /\ n > End(v) - v.out
    /\ n > End(v) - Size(v)
    /\ n > Minus(v.max, Size(v))

FaultyPrepared(v, n) ==
    IF n = 0 THEN v
    ELSE LET w == IF End(v) > 0 /\ n <= End(v) - v.out THEN v
                  ELSE IF End(v) > 0 /\ n <= End(v) - Size(v)
                  THEN [v EXCEPT !.in = 0, !.out = Size(v)]
                  ELSE Moved(v, Grown(v, n))
         IN  [w EXCEPT !.last = w.out + n]

\* What prepare() makes of a buffer.
Prepared(v, n) ==
    IF n = 0 THEN v
    ELSE LET w == IF End(v) > 0 /\ n <= End(v) - v.out THEN v
                  ELSE IF End(v) > 0 /\ n <= End(v) - Size(v)
                  THEN Moved(v, End(v))
                  ELSE Moved(v, Grown(v, n))
         IN  [w EXCEPT !.last = w.out + n]

\* prepare(): or it throws length_error and changes nothing.
Prepare(b, n) ==
    /\ n > 0 => ~TooLong(buf[b], n)
    /\ buf' = [buf EXCEPT ![b] = Prepared(@, n)]
    /\ UNCHANGED <<queue, fresh>>

\* commit(), of bytes that were written to the prepared ones.
Committed(v, written) ==
    LET k == Len(written)
    IN  [v EXCEPT
            !.mem = [i \in 1..End(v) |-> IF i \in v.out + 1..v.out + k THEN written[i - v.out] ELSE @[i]],
            !.out = @ + k]

Commit(b, n) ==
    LET v == buf[b]
        k == Min({n, v.last - v.out})
        written == [i \in 1..k |-> ((fresh + i - 2) % Streams) + 1]
    IN  /\ buf' = [buf EXCEPT ![b] = Committed(v, written)]
        /\ queue' = [queue EXCEPT ![b] = @ \o written]
        /\ fresh' = ((fresh + k - 1) % Streams) + 1

Consumed(v, k) ==
    [v EXCEPT !.in = @ + k,
              !.mem = [i \in DOMAIN @ |-> IF i \in v.in + 1..v.in + k THEN Junk ELSE @[i]]]

Consume(b, n) ==
    LET k == Min({n, Size(buf[b])})
    IN  /\ buf' = [buf EXCEPT ![b] = Consumed(@, k)]
        /\ queue' = [queue EXCEPT ![b] = SubSeq(@, k + 1, Len(@))]
        /\ UNCHANGED fresh

Cleared(v) == [v EXCEPT !.mem = Allocation(End(v), <<>>), !.in = 0, !.out = 0, !.last = 0]

Clear(b) ==
    /\ buf' = [buf EXCEPT ![b] = Cleared(@)]
    /\ queue' = [queue EXCEPT ![b] = <<>>]
    /\ UNCHANGED fresh

\* reserve(): throws beyond max_size, does nothing within the capacity.
Reserve(b, n) ==
    /\ n \in End(buf[b]) + 1..buf[b].max
    /\ buf' = [buf EXCEPT ![b] = [Moved(@, n) EXCEPT !.last = Size(buf[b])]]
    /\ UNCHANGED <<queue, fresh>>

\* shrink_to_fit(): frees, moves to the front, or reallocates.
ShrinkToFit(b) ==
    LET v == buf[b]
        len == Size(v)
    IN  /\ buf' = [buf EXCEPT ![b] = IF len = 0 THEN Empty(v.max)
                                     ELSE IF len = End(v) /\ v.in = 0 THEN v
                                     ELSE [Moved(v, len) EXCEPT !.last = len]]
        /\ UNCHANGED <<queue, fresh>>

\* The copy of the readable bytes of w into v, which keeps its allocation when it is large enough.
Copied(v, w) ==
    IF Size(w) = 0 THEN Cleared(v)
    ELSE [v EXCEPT !.mem = Allocation(Max({End(v), Size(w)}), Readable(w)),
                   !.in = 0, !.out = Size(w), !.last = Size(w)]

\* Copy assignment; an allocator that differs and propagates leaves the old
\* allocation behind.
CopyAssign(a, b) ==
    /\ a # b
    /\ \E v \in {buf[a], Empty(0)} :
          buf' = [buf EXCEPT ![a] = [Copied(v, buf[b]) EXCEPT !.max = buf[b].max]]
    /\ queue' = [queue EXCEPT ![a] = queue[b]]
    /\ UNCHANGED fresh

\* Move assignment: the allocation is stolen, or copied and the source cleared
\* when the allocators differ.
MoveAssign(a, b) ==
    /\ a # b
    /\ \E stolen \in BOOLEAN :
          buf' = [buf EXCEPT
             ![a] = [(IF stolen THEN buf[b] ELSE Copied(@, buf[b])) EXCEPT !.max = buf[b].max],
             ![b] = IF stolen THEN Empty(@.max) ELSE Cleared(@)]
    /\ queue' = [queue EXCEPT ![a] = queue[b], ![b] = <<>>]
    /\ UNCHANGED fresh

Swap(a, b) ==
    /\ a # b
    /\ buf' = [buf EXCEPT ![a] = buf[b], ![b] = buf[a]]
    /\ queue' = [queue EXCEPT ![a] = queue[b], ![b] = queue[a]]
    /\ UNCHANGED fresh

Next == \E b \in Buffers :
            \/ \E n \in Sizes : Prepare(b, n) \/ Commit(b, n) \/ Consume(b, n) \/ Reserve(b, n)
            \/ Clear(b) \/ ShrinkToFit(b)
            \/ \E a \in Buffers : CopyAssign(a, b) \/ MoveAssign(a, b) \/ Swap(a, b)

Spec == Init /\ [][Next]_vars

-----------------------------------------------------------------------------
\* Whatever moved, was reallocated, copied or stolen in between, the readable
\* bytes are those that were committed and not consumed, in their order, and the
\* prepared ones lie within the allocation.
BytesAreKept ==
    \A b \in Buffers :
        /\ Readable(buf[b]) = queue[b]
        /\ buf[b].in <= buf[b].out /\ buf[b].out <= buf[b].last /\ buf[b].last <= End(buf[b])

\* docs/utils/buffers.md:118, "max_size caps size()": prepare() looks at it only
\* when it has to allocate, and then allocates Floor bytes or more.
SizeIsCapped == \A b \in Buffers : Size(buf[b]) <= buf[b].max
=============================================================================
