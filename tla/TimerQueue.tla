----------------------------- MODULE TimerQueue -----------------------------
(***************************************************************************)
(* timer_queue (include/coio/detail/op_queue.h): the timed operations of   *)
(* an event loop in an intrusive pairing heap.  Every node has three       *)
(* links; prev is the parent of a first child and the previous sibling of  *)
(* any other, and a clear prev on a node that is not the root is how       *)
(* remove() knows that the node is not in the heap.  All operations hold   *)
(* the queue's lock, so each is one step.                                  *)
(***************************************************************************)
EXTENDS Naturals, Sequences, SequencesExt, FiniteSets, IntrusiveChain

CONSTANTS Timers,       \* the timed operations
          Null,         \* the null link
          Deadlines     \* the deadlines they may have

ASSUME TimerAssumption == Null \notin Timers /\ IsFiniteSet(Timers) /\ Deadlines \subseteq Nat

VARIABLES links,        \* [prev, child, sibling]: the links of every timer
          root,         \* root_
          expiry,       \* what the projection of each timer gives: its deadline
          inside,       \* history: the timers a caller knows to be queued
          answer,       \* what the last call returned
          wanted        \* history: what it had to return

heapVars == <<links, root, expiry, inside, answer, wanted>>

NoLinks == [prev |-> Null, child |-> Null, sibling |-> Null]

HeapInit ==
    /\ links = [t \in Timers |-> NoLinks]
    /\ root = Null
    /\ expiry = [t \in Timers |-> 0]
    /\ inside = {}
    /\ answer = FALSE /\ wanted = FALSE

\* meld(): of two roots, the later one becomes the first child of the other.
Meld(h, d, a, b) ==
    LET top == IF d[b] < d[a] THEN b ELSE a
        low == IF d[b] < d[a] THEN a ELSE b
    IN  [root |-> top,
         links |-> [t \in Timers |->
             CASE t = low -> [h[t] EXCEPT !.prev = top, !.sibling = h[top].child]
               [] t = top -> [h[t] EXCEPT !.child = low]
               [] t = h[top].child /\ t \notin {low, top} -> [h[t] EXCEPT !.prev = low]
               [] OTHER -> h[t]]]

\* A child list, from its first member.
Siblings(h, first) == Chain(first, [t \in Timers |-> h[t].sibling], Null)

\* Each child loses its prev and sibling before it is melded.
Cut(h, list) == [t \in Timers |-> IF t \in ToSet(list)
                                  THEN [h[t] EXCEPT !.prev = Null, !.sibling = Null] ELSE h[t]]

\* merge_children(): the children melded in pairs from the first to the last, and
\* what the pairs have become from the last to the first.
MergeChildren(h, d, first) ==
    LET list == Siblings(h, first)
        last == (Len(list) + 1) \div 2
        pair[i \in 0..last] ==
            IF i = 0 THEN [links |-> Cut(h, list), root |-> Null]
            ELSE IF 2 * i > Len(list) THEN [pair[i - 1] EXCEPT !.root = list[2 * i - 1]]
            ELSE Meld(pair[i - 1].links, d, list[2 * i - 1], list[2 * i])
        merged[i \in 0..last - 1] ==
            IF i = 0 THEN pair[last]
            ELSE Meld(merged[i - 1].links, d, merged[i - 1].root, pair[last - i].root)
    IN  IF first = Null THEN [links |-> h, root |-> Null] ELSE merged[last - 1]

\* pop_root().
PopRoot(h, d, top) ==
    LET m == MergeChildren(h, d, h[top].child)
    IN  [links |-> [m.links EXCEPT ![top] = NoLinks], root |-> m.root]

\* unlink(): prev is the parent of a first child, the previous sibling of others.
Unlink(h, op) ==
    LET prev == h[op].prev
        sibling == h[op].sibling
        bridged == IF h[prev].child = op THEN [h EXCEPT ![prev].child = sibling]
                                         ELSE [h EXCEPT ![prev].sibling = sibling]
    IN  IF sibling = Null THEN bridged ELSE [bridged EXCEPT ![sibling].prev = prev]

FaultyRemoval(h, d, r, op) ==
    IF op = r THEN PopRoot(h, d, op)
    ELSE LET m == MergeChildren(Unlink(h, op), d, h[op].child)
             joined == IF m.root = Null THEN [m EXCEPT !.root = r] ELSE Meld(m.links, d, r, m.root)
         IN  [joined EXCEPT !.links[op].child = Null, !.links[op].sibling = Null]

\* What remove() makes of a heap that holds op.
Removal(h, d, r, op) ==
    IF op = r THEN PopRoot(h, d, op)
    ELSE LET m == MergeChildren(Unlink(h, op), d, h[op].child)
             joined == IF m.root = Null THEN [m EXCEPT !.root = r] ELSE Meld(m.links, d, r, m.root)
         IN  [joined EXCEPT !.links[op] = NoLinks]

\* take_ready_timers(): what is due, in the order it is popped.
ReadyTimers(h, d, r, now) ==
    LET take[n \in 0..Cardinality(Timers)] ==
            IF n = 0 THEN [links |-> h, root |-> r, list |-> <<>>]
            ELSE LET s == take[n - 1]
                 IN  IF s.root = Null \/ d[s.root] > now THEN s
                     ELSE LET p == PopRoot(s.links, d, s.root)
                          IN  [links |-> p.links, root |-> p.root, list |-> Append(s.list, s.root)]
    IN  take[Cardinality(Timers)]

Soonest(S) == {t \in S : \A u \in S : expiry[t] <= expiry[u]}

\* add(): tells the caller to wake the loop when the new timer is the root.
Add(t, when) ==
    LET d == [expiry EXCEPT ![t] = when]
        h == [links EXCEPT ![t] = NoLinks]
        m == IF root = Null THEN [links |-> h, root |-> t] ELSE Meld(h, d, root, t)
    IN  /\ t \notin inside
        /\ expiry' = d
        /\ links' = m.links /\ root' = m.root
        /\ inside' = inside \cup {t}
        /\ answer' = (m.root = t)
        /\ wanted' = (\A u \in inside : when < expiry[u])

\* remove(), of a timer that is queued, was taken, or was never added.
RemoveTimer(t) ==
    LET found == t = root \/ links[t].prev # Null
        m == Removal(links, expiry, root, t)
    IN  /\ links' = IF found THEN m.links ELSE links
        /\ root' = IF found THEN m.root ELSE root
        /\ inside' = inside \ {t}
        /\ answer' = found /\ wanted' = (t \in inside)
        /\ UNCHANGED expiry

InOrder(list) == \A i \in 1..Len(list) - 1 : expiry[list[i]] <= expiry[list[i + 1]]

TakeReady(now) ==
    LET m == ReadyTimers(links, expiry, root, now)
    IN  /\ links' = m.links /\ root' = m.root
        /\ inside' = inside \ ToSet(m.list)
        /\ answer' = <<ToSet(m.list), InOrder(m.list)>>
        /\ wanted' = <<{t \in inside : expiry[t] <= now}, TRUE>>
        /\ UNCHANGED expiry

HeapNext ==
        \/ \E t \in Timers : RemoveTimer(t) \/ \E when \in Deadlines : Add(t, when)
        \/ \E now \in Deadlines : TakeReady(now)

HeapSpec == HeapInit /\ [][HeapNext]_heapVars

-----------------------------------------------------------------------------
\* The nodes below t, and t: what its child link and their links lead to.
Subtree(t) ==
    {u \in Timers : \A below \in SUBSET Timers :
        /\ t \in below
        /\ \A v \in below : {links[v].child, IF v = t THEN Null ELSE links[v].sibling} \subseteq below \cup {Null}
        => u \in below}

\* The heap is the set of timers its callers know of: what is reachable from
\* the root is what was added and neither removed nor taken, every link back
\* names the node that links there, no child is earlier than its parent, a
\* timer outside has no links left, which a later remove() of it relies on, and
\* each call answered what the set says it must: whether the loop has to be
\* woken, whether the caller or the loop completes the timer, what is due.
HeapIsTheSet ==
    /\ (IF root = Null THEN {} ELSE Subtree(root)) = inside
    /\ root # Null => root \in Soonest(inside) /\ links[root].prev = Null /\ links[root].sibling = Null
    /\ \A t \in inside \ {root} :
          LET p == links[t].prev
          IN  /\ p \in inside
              /\ links[p].child = t \/ links[p].sibling = t
    /\ \A t \in inside : \A u \in Subtree(t) : expiry[t] <= expiry[u]
    /\ \A t \in Timers \ inside : links[t] = NoLinks
    /\ answer = wanted
=============================================================================
