------------------------------ MODULE OpQueue ------------------------------
(***************************************************************************)
(* op_queue (include/coio/detail/op_queue.h): the intrusive lock-free      *)
(* queue of a context.  Producers push batches on the stack `incoming'     *)
(* with a compare_exchange loop; the consumer takes the whole stack with   *)
(* one exchange, reverses it into its private list `front' and pops from   *)
(* there.  `link' is next_ inside each operation, which both the stack and *)
(* the list use.  An operation that was dequeued may be enqueued again, so *)
(* addresses recur (ABA).                                                  *)
(***************************************************************************)
EXTENDS IntrusiveChain

CONSTANTS Producers,    \* the threads that enqueue
          Nodes,        \* the operations, identified by their address
          Null          \* the null pointer

ASSUME QueueAssumption == IsFiniteSet(Nodes) /\ Null \notin Nodes

VARIABLES
    incoming,   \* the atomic head of the stack
    front,      \* the consumer's list
    link,       \* link[o]: next_ of the operation
    ppc,        \* ppc[p]: "idle", "link" or "cas"
    batch,      \* batch[p]: what p is enqueuing, in order
    old,        \* old[p]: the head p has read
    taken       \* what the last dequeue() returned

queueVars == <<incoming, front, link, ppc, batch, old, taken>>

Linked(n) == Chain(n, link, Null)

Queued == ToSet(Linked(front)) \cup ToSet(Linked(incoming))

\* Batches of one (enqueue) and two (bulk_enqueue) operations that nobody
\* else is enqueuing and that are not queued.  Bound: no more than two.
Free == Nodes \ (Queued \cup UNION {ToSet(batch[p]) : p \in Producers})
Batches == {<<o>> : o \in Free} \cup {<<o, q>> : o \in Free, q \in Free}

QueueInit ==
    /\ incoming = Null
    /\ front = Null
    /\ link = [o \in Nodes |-> Null]
    /\ ppc = [p \in Producers |-> "idle"]
    /\ batch = [p \in Producers |-> <<>>]
    /\ old = [p \in Producers |-> Null]
    /\ taken = Null

(***************************************************************************)
(* Producers                                                               *)
(***************************************************************************)

\* enqueue() or bulk_enqueue() up to publish(): link the batch backwards, so
\* that its last operation is the head of the piece, and read the stack.
Enqueue(p) ==
    /\ ppc[p] = "idle"
    /\ \E b \in Batches :
          /\ IsInjective(b)
          /\ batch' = [batch EXCEPT ![p] = b]
          /\ link' = [o \in Nodes |->
                        IF o \in ToSet(Tail(b)) THEN b[1] ELSE link[o]]
    /\ old' = [old EXCEPT ![p] = incoming]
    /\ ppc' = [ppc EXCEPT ![p] = "link"]
    /\ UNCHANGED <<incoming, front, taken>>

\* publish(): the tail of the piece points to what was read.
Link(p) ==
    /\ ppc[p] = "link"
    /\ link' = [link EXCEPT ![Head(batch[p])] = old[p]]
    /\ ppc' = [ppc EXCEPT ![p] = "cas"]
    /\ UNCHANGED <<incoming, front, batch, old, taken>>

\* publish(): install the piece if the stack is still what was read, or read
\* it again; compare_exchange_weak may also fail without a reason.
CompareExchange(p) ==
    /\ ppc[p] = "cas"
    /\ \/ /\ incoming = old[p]
          /\ incoming' = Last(batch[p])
          /\ batch' = [batch EXCEPT ![p] = <<>>]
          /\ old' = [old EXCEPT ![p] = Null]
          /\ ppc' = [ppc EXCEPT ![p] = "idle"]
       \/ /\ old' = [old EXCEPT ![p] = incoming]
          /\ ppc' = [ppc EXCEPT ![p] = "link"]
          /\ UNCHANGED <<incoming, batch>>
    /\ UNCHANGED <<front, link, taken>>

(***************************************************************************)
(* The consumer                                                            *)
(***************************************************************************)

\* Faulty variant of PopFrom: leaves the link of what it pops.
FaultyPopFrom(links, l) ==
    /\ taken' = l
    /\ front' = links[l]
    /\ link' = links

\* dequeue() pops the head l of the list it owns, given the links.
PopFrom(links, l) ==
    /\ taken' = l
    /\ front' = links[l]
    /\ link' = [links EXCEPT ![l] = Null]

DequeueFront ==
    /\ front # Null
    /\ PopFrom(link, front)
    /\ UNCHANGED <<incoming, ppc, batch, old>>

\* Faulty variant of DequeueIncoming: hands out the stack without reversing.
FaultyDequeueIncoming ==
    /\ front = Null
    /\ incoming # Null
    /\ PopFrom(link, incoming)
    /\ incoming' = Null
    /\ UNCHANGED <<ppc, batch, old>>

\* With its own list empty the consumer exchanges the stack for null and
\* reverses what it got.
DequeueIncoming ==
    /\ front = Null
    /\ incoming # Null
    /\ PopFrom(ReversedLinks(Linked(incoming), link, Null), Last(Linked(incoming)))
    /\ incoming' = Null
    /\ UNCHANGED <<ppc, batch, old>>

DequeueNothing ==
    /\ front = Null
    /\ incoming = Null
    /\ taken' = Null
    /\ UNCHANGED <<incoming, front, link, ppc, batch, old>>

Dequeue == DequeueFront \/ DequeueIncoming \/ DequeueNothing

PublishBatch(p) == Link(p) \/ CompareExchange(p)

QueueNext == (\E p \in Producers : Enqueue(p) \/ PublishBatch(p)) \/ Dequeue

QueueSpec == QueueInit /\ [][QueueNext]_queueVars

\* The consumer keeps draining; a producer inside publish() is scheduled.
QueueFairness ==
    /\ WF_queueVars(DequeueFront \/ DequeueIncoming)
    /\ \A p \in Producers : WF_queueVars(PublishBatch(p))

FairQueueSpec == QueueSpec /\ QueueFairness

-----------------------------------------------------------------------------
(***************************************************************************)
(* Properties                                                              *)
(***************************************************************************)

QueueTypeOK ==
    /\ incoming \in Nodes \cup {Null}
    /\ front \in Nodes \cup {Null}
    /\ link \in [Nodes -> Nodes \cup {Null}]
    /\ ppc \in [Producers -> {"idle", "link", "cas"}]
    /\ batch \in [Producers -> Seq(Nodes)]
    /\ \A p \in Producers : batch[p] = <<>> <=> ppc[p] = "idle"
    /\ old \in [Producers -> Nodes \cup {Null}]
    /\ taken \in Nodes \cup {Null}

\* The assertion next_ == nullptr of immediately_post() and bulk_enqueue(): an
\* operation that is not in the queue or in a batch carries no stale link,
\* and no operation can be reached twice.  The state is well typed.
LinksAreClean ==
    /\ QueueTypeOK
    /\ \A o \in Free : link[o] = Null
    /\ IsInjective(Linked(front) \o Linked(incoming))
    /\ \A p \in Producers : ToSet(batch[p]) \cap Queued = {}

\* What the consumer sees is a first-in first-out queue: batches are appended
\* whole, in the order of the successful exchanges, nothing is lost or
\* duplicated, and null is answered only when the queue is empty.
Contents == Linked(front) \o Reverse(Linked(incoming))

Fifo == INSTANCE FifoQueue WITH Ops <- Nodes, None <- Null, contents <- Contents

ImplementsFifo == Fifo!FifoSpec

\* Every operation a producer has handed to publish() reaches the consumer,
\* unless other producers keep winning the exchange: what is queued is taken.
QueuedIsTaken == \A o \in Nodes : o \in Queued ~> taken = o

=============================================================================
