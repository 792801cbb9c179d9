----------------------------- MODULE MCLibrary -----------------------------
(***************************************************************************)
(* Small instances of the components that are checked for safety alone:    *)
(* one behaviour is about one of them, its subject, and the others keep    *)
(* their initial state.                                                    *)
(***************************************************************************)
EXTENDS InputOutput, Fifo, Task, TimerQueue, Generator, TLC

CONSTANTS p1, p2, c1, c2,           \* users of the channel
          t1, t2, t3, t4,           \* timers: the least for two levels of pairs
          g1, g2, g3,               \* generators
          b1, b2,                   \* flat buffers
          s1, s2, s3,               \* waiters for a signal
          r1, w1                    \* a read and a write of one descriptor

VARIABLE subject

flatVars == <<buf, queue, fresh>>
ioVars == <<call, callPc, units, reached, remaining, offset, accumulated, buffer, search_pos,
            reported>>
backendVars == <<ioObject, kind, empty, known, answers, accepted>>
fileVars == <<disk, mode, handles, position, pointer, fileOffset, said, excused>>
signalVars == <<head, prev, next, handler, phase, outcomes, starter, callback, deliverer,
                done, notices, raises, dog, cursor, after>>

\* The container of the channel is constructed empty.
NoElements == <<>>

MCMaxSizes == b1 :> 3 @@ b2 :> 3

Strings(n) == UNION {[1..k -> {"a", "b"}] : k \in 0..n}

\* Spans of up to four units, and delimiters that overlap themselves or not in
\* streams of up to four bytes behind one that the buffer holds.
MCCalls ==
    [form : {"transfer"}, async : BOOLEAN, at : BOOLEAN, total : 0..4]
    \cup [form : {"until"}, async : BOOLEAN,
          delim : {<<>>, <<"a">>, <<"a", "b">>, <<"a", "a", "b">>},
          stream : Strings(4), held : Strings(1), max : {4, 6}]

Lists(S, n) == UNION {[1..k -> S] : k \in 0..n}
Nests(b, g) == Cardinality({<<h, i>> \in {g1, g2, g3} \X (1..3) : i <= Len(b[h]) /\ b[h][i] = g})

\* Every program of three generators that nests each at most once, up to three
\* deep, with an exception or a value anywhere.
MCBodies ==
    {p \in [body : {g1 :> x @@ g2 :> y @@ g3 :> z :
                        x \in Lists({"yield", "throw", g2, g3}, 3),
                        y \in Lists({"yield", "throw", g3}, 2),
                        z \in Lists({"yield", "throw"}, 2)},
            catches : [{g1, g2, g3} -> BOOLEAN]] :
        (\A g \in {g1, g2, g3} : Nests(p.body, g) <= 1) /\ ~p.catches[g3]}

\* Three bytes are the least for a write that leaves a hole behind one, and three
\* waiters for one with neighbours on both sides.  Both directions of a socket at
\* once.  Bound: only the read is asked to stop; the code treats the directions
\* alike.
DuplexNext == Next /\ stop' \subseteq {r1}

ASSUME ConstantsAreSound ==
    /\ Flat!FlatAssumption /\ Io!TransferAssumption
    /\ File!FileAssumption /\ Signal!SignalAssumption

\* The call and the program of a behaviour that is not about them.
OneCall == [form |-> "transfer", async |-> TRUE, at |-> FALSE, total |-> 0]
NoProgram == [body |-> [g \in {g1, g2, g3} |-> <<>>], catches |-> [g \in {g1, g2, g3} |-> FALSE]]

LibraryInit ==
    /\ subject \in {"fifo", "timers", "flat_buffer", "io", "generator", "task", "backends",
                    "file", "signal_wait", "epoll_context"}
    /\ FifoInit /\ HeapInit /\ Flat!Init /\ TaskInit /\ Signal!Init /\ Init
    /\ IF subject = "file" THEN File!Init ELSE File!StartOf(<<>>)
    /\ IF subject = "backends" THEN Backends!Init
       ELSE Backends!StartOf([open |-> TRUE, stream |-> TRUE])
    /\ IF subject = "io" THEN Io!Init ELSE Io!StartOf(OneCall)
    /\ IF subject = "generator" THEN GeneratorInit ELSE GeneratorOf(NoProgram)

LibraryNext ==
    /\ UNCHANGED subject
    /\ IF subject = "fifo" THEN FifoNext ELSE UNCHANGED fifoVars
    /\ IF subject = "timers" THEN HeapNext ELSE UNCHANGED heapVars
    /\ IF subject = "flat_buffer" THEN Flat!Next ELSE UNCHANGED flatVars
    /\ IF subject = "io" THEN Io!Next ELSE UNCHANGED ioVars
    /\ IF subject = "generator" THEN GeneratorNext ELSE UNCHANGED generatorVars
    /\ IF subject = "task" THEN TaskNext ELSE UNCHANGED taskVars
    /\ IF subject = "backends" THEN Backends!Next ELSE UNCHANGED backendVars
    /\ IF subject = "file" THEN File!Next ELSE UNCHANGED fileVars
    /\ IF subject = "signal_wait" THEN Signal!Next ELSE UNCHANGED signalVars
    /\ IF subject = "epoll_context" THEN DuplexNext ELSE UNCHANGED vars

LibrarySpec ==
    LibraryInit /\ [][LibraryNext]_<<subject, fifoVars, heapVars, flatVars, ioVars,
                                    generatorVars, taskVars, backendVars, fileVars,
                                    signalVars, vars>>
=============================================================================
