----------------------------- MODULE FifoQueue -----------------------------
(***************************************************************************)
(* What op_queue promises the event loop: a queue that several threads     *)
(* append whole batches to and one consumer takes from, in the order of    *)
(* the appends.  An empty answer is given only when the queue is empty.    *)
(***************************************************************************)
EXTENDS Sequences, SequencesExt

CONSTANTS Ops, None

VARIABLES contents,     \* the queue
          taken         \* what the last dequeue() returned

fifoVars == <<contents, taken>>

FifoInit == contents = <<>> /\ taken = None

\* A batch of operations that are not queued yet becomes visible at once.
AppendBatch(batch) ==
    /\ ToSet(batch) \cap ToSet(contents) = {}
    /\ contents' = contents \o batch
    /\ UNCHANGED taken

Take ==
    /\ contents # <<>>
    /\ taken' = Head(contents)
    /\ contents' = Tail(contents)

TakeNothing ==
    /\ contents = <<>>
    /\ taken' = None
    /\ UNCHANGED contents

Batches == {s \in UNION {[1..n -> Ops] : n \in 1..2} : IsInjective(s)}

FifoNext == (\E b \in Batches : AppendBatch(b)) \/ Take \/ TakeNothing

FifoSpec == FifoInit /\ [][FifoNext]_fifoVars
=============================================================================
