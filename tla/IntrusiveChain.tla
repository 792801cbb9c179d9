--------------------------- MODULE IntrusiveChain ---------------------------
(***************************************************************************)
(* Singly linked chains of nodes that carry their own link, as the queues, *)
(* stacks and waiting lists of the library use them: what a traversal from *)
(* a node visits, and the in-place reversal.                               *)
(***************************************************************************)
EXTENDS Naturals, FiniteSets, Sequences, SequencesExt

\* The nodes reachable from n along the links, in order; the bound makes the
\* walk end even on a cycle.
Chain(n, next, null) ==
    LET bound == Cardinality(DOMAIN next) + 1
        node[i \in 1..bound] ==
            IF i = 1 THEN n
            ELSE IF node[i - 1] = null THEN null ELSE next[node[i - 1]]
    IN  [i \in 1..Cardinality({j \in 1..bound : node[j] # null}) |-> node[i]]

\* Reversing the chain c in place: each node points to its predecessor, the
\* first one to `onto'.
ReversedLinks(c, next, onto) ==
    [o \in DOMAIN next |->
        IF \E i \in 1..Len(c) : c[i] = o
        THEN LET i == CHOOSE j \in 1..Len(c) : c[j] = o
             IN  IF i = 1 THEN onto ELSE c[i - 1]
        ELSE next[o]]
=============================================================================
