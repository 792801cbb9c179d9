-------------------------- MODULE CompletionProofs --------------------------
(***************************************************************************)
(* Proofs about three ways to complete: AsyncLatch, for any number of      *)
(* waiters and counting threads and any count; WhenAny, for races of any   *)
(* number of children; and Task, for stacks of coroutines of any depth.    *)
(* And about Generator, for any program of any number of generators.       *)
(***************************************************************************)
EXTENDS AsyncLatch, WhenAny, Task, Generator, ChainProofs

(***************************************************************************)
(* AsyncLatch.  The counter only falls, so each fact that once implied     *)
(* "the counter is zero" does so for ever: a thread that notifies, a stack *)
(* that was taken, and a waiter that has seen such a stack.                *)
(***************************************************************************)

ZeroInv ==
    /\ counter \in Nat
    /\ pc \in [Clients -> Labels]
    /\ seen \in [Waiters -> Waiters \cup {None, Never}]
    /\ by \in [Waiters -> Clients \cup {None}]
    /\ top \in Waiters \cup {None, Never}
    /\ \A c \in Clients : pc[c] \in {"read", "cas"} => c \in Waiters
    /\ \A c \in Clients : pc[c] \in {"notify", "walk"} => counter = 0
    /\ \A w \in Waiters : pc[w] = "cas" /\ seen[w] = None => counter = 0
    /\ top = None => counter = 0
    /\ \A w \in Waiters : by[w] # None => counter = 0

\* A fresh latch has notified nobody, and its stack carries the mark.
LEMMA ZeroInit == Init => ZeroInv
  BY LatchAssumption DEF Init, ZeroInv, Labels, Clients

\* Subtracting leaves the notification to the client that reaches zero.
LEMMA SubtractStep ==
    ASSUME ZeroInv, NEW c \in Clients, NEW n \in Nat,
           NEW label \in {"idle", "read"}, Subtract(c, n, label),
           label = "read" => c \in Waiters,
           UNCHANGED <<top, seen, by>>
    PROVE  ZeroInv'
  <1>1. counter' \in Nat /\ (counter = 0 => counter' = 0)
    BY DEF Subtract, ZeroInv
  <1>2. PICK l \in Labels : /\ pc' = [pc EXCEPT ![c] = l]
                            /\ l \in {"notify", "idle", "read"}
                            /\ l = "notify" => counter' = 0
                            /\ l = "read" => c \in Waiters
    BY DEF Subtract, Goto, Labels
  <1>3. /\ pc' \in [Clients -> Labels]
        /\ \A d \in Clients : pc'[d] = IF d = c THEN l ELSE pc[d]
    BY <1>2 DEF ZeroInv
  <1>4. QED BY <1>1, <1>2, <1>3, LatchAssumption DEF ZeroInv, Clients

\* One step per action.
LEMMA ZeroNext == ZeroInv /\ [Next]_vars => ZeroInv'
  <1> SUFFICES ASSUME ZeroInv, [Next]_vars PROVE ZeroInv'
    OBVIOUS
  <1> USE LatchAssumption DEF Goto
  <1>1. CASE UNCHANGED vars
    BY <1>1 DEF ZeroInv, vars
  <1>2. ASSUME NEW c \in Clients, CountDown(c) PROVE ZeroInv'
    BY <1>2, SubtractStep DEF CountDown
  <1>3. ASSUME NEW c \in Clients, Start(c) PROVE ZeroInv'
    BY <1>3, SubtractStep DEF Start
  <1>4. ASSUME NEW c \in Clients, ReadTop(c) PROVE ZeroInv'
    BY <1>4 DEF ReadTop, ZeroInv, Labels, Clients
  <1>5. ASSUME NEW c \in Clients, PushWaiter(c) PROVE ZeroInv'
    BY <1>5 DEF PushWaiter, ZeroInv, Labels, Clients
  <1>6. ASSUME NEW c \in Clients, PopAll(c) PROVE ZeroInv'
    BY <1>6 DEF PopAll, ZeroInv, Labels, Clients
  <1>7. ASSUME NEW c \in Clients, CompleteNext(c) PROVE ZeroInv'
    BY <1>7 DEF CompleteNext, ZeroInv, Labels, Clients
  <1>8. ASSUME NEW c \in Clients, Notified(c) PROVE ZeroInv'
    BY <1>8 DEF Notified, ZeroInv, Labels, Clients
  <1>9. QED
    BY <1>1, <1>2, <1>3, <1>4, <1>5, <1>6, <1>7, <1>8 DEF Next, Continue

\* Whatever speaks of zero is true in every reachable state.
THEOREM ZeroInvariance == Spec => []ZeroInv
  BY ZeroInit, ZeroNext, PTL DEF Spec

\* No operation of wait() or arrive_and_wait() completes early, however its
\* push races the notification.
THEOREM NoEarlyWakeup == Spec => []CompletesAtZero
  <1>1. ZeroInv => CompletesAtZero
    BY DEF ZeroInv, CompletesAtZero, Completed
  <1>2. QED BY <1>1, ZeroInvariance, PTL

(***************************************************************************)
(* The chains of the latch: the stack, and what each notifying thread has  *)
(* still to complete.  No two of them share a waiter, and together they    *)
(* hold the queued operations that have not completed.                     *)
(***************************************************************************)

LatchTypes ==
    /\ counter \in 0..Count
    /\ next \in [Waiters -> Waiters \cup {None}]
    /\ walk \in [Clients -> Waiters \cup {None}]
    /\ queued \subseteq Waiters
    /\ \A c \in Clients : walk[c] # None => pc[c] = "walk"
    /\ top = Never => queued = {}

\* A waiter is pushed once and completes after that; before the exchange its
\* link leads to the stack it has read.
PushInv ==
    /\ \A w \in Waiters :
          w \in queued \/ by[w] # None => pc[w] \notin {"idle", "read", "cas"}
    /\ \A w \in Waiters :
          pc[w] = "cas" => next[w] = IF seen[w] = Never THEN None ELSE seen[w]

\* At zero, a stack that holds somebody or may get somebody before it is
\* taken is about to be taken.
NotifyInv ==
    counter = 0 /\ top # None /\ (top # Never \/ \E w \in Waiters : pc[w] \in {"read", "cas"})
        => \E c \in Clients : pc[c] = "notify"

TopNode == IF top = Never THEN None ELSE top
Walks == [c \in Clients |-> Walked(c)]

\* st is the stack from node t; wk[c] is what c, which stands at wlk[c], walks.
ChainsAre(t, n, wlk, st, wk) ==
    /\ Leads(t, st, n, None)
    /\ \A c \in Clients : Leads(wlk[c], wk[c], n, None)

\* Each queued waiter that has not completed is in exactly one of them.
Partition(st, wk, q, b) ==
    /\ \A w \in Waiters :
          w \in q /\ b[w] = None <=> Holds(st, w) \/ \E c \in Clients : Holds(wk[c], w)
    /\ \A w \in Waiters, c \in Clients : ~(Holds(st, w) /\ Holds(wk[c], w))
    /\ \A w \in Waiters, c, d \in Clients : c # d => ~(Holds(wk[c], w) /\ Holds(wk[d], w))

ChainInv ==
    /\ ChainsAre(TopNode, next, walk, Stacked, Walks)
    /\ Partition(Stacked, Walks, queued, by)

LatchInv == ZeroInv /\ LatchTypes /\ PushInv /\ NotifyInv /\ ChainInv

\* Whatever chains there are after a step are Stacked and Walks.
LEMMA ChainsBecome ==
    ASSUME LatchTypes', NEW st, NEW wk, wk = [c \in Clients |-> wk[c]],
           ChainsAre(TopNode', next', walk', st, wk), Partition(st, wk, queued', by')
    PROVE  ChainInv'
  <1>1. DOMAIN next' = Waiters /\ IsFiniteSet(Waiters) /\ None \notin Waiters
    BY LatchAssumption, FS_Subset DEF LatchTypes, Clients
  <1>2. Stacked' = st
    <2>1. Chain(TopNode', next', None) = st
      BY <1>1, ChainIs DEF ChainsAre
    <2>2. QED BY <2>1 DEF Stacked, TopNode
  <1>3. ASSUME NEW c \in Clients PROVE Walked(c)' = wk[c]
    <2>1. Chain(walk'[c], next', None) = wk[c]
      BY <1>1, ChainIs DEF ChainsAre
    <2>2. QED BY <2>1 DEF Walked
  <1>4. Walks' = wk
    BY <1>3 DEF Walks
  <1>5. QED BY <1>2, <1>4 DEF ChainInv

\* Who is in a chain has been pushed.
LEMMA ChainedIsQueued ==
    ASSUME LatchInv
    PROVE  /\ DOMAIN next = Waiters /\ None \notin Waiters
           /\ Stacked \in Seq(Waiters) /\ \A c \in Clients : Walks[c] \in Seq(Waiters)
           /\ \A w \in Waiters : Holds(Stacked, w) => w \in queued
           /\ \A w \in Waiters, c \in Clients : Holds(Walks[c], w) => w \in queued
           /\ \A i \in 1..Len(Stacked) : Stacked[i] \in queued
           /\ \A c \in Clients : \A i \in 1..Len(Walks[c]) : Walks[c][i] \in queued
  <1>1. DOMAIN next = Waiters /\ None \notin Waiters
    BY LatchAssumption DEF LatchInv, LatchTypes, Clients
  <1>2. Stacked \in Seq(Waiters) /\ \A c \in Clients : Walks[c] \in Seq(Waiters)
    BY <1>1 DEF LatchInv, ChainInv, ChainsAre, Leads
  <1>3. \A w \in Waiters : Holds(Stacked, w) => w \in queued
    BY DEF LatchInv, ChainInv, Partition
  <1>4. \A w \in Waiters, c \in Clients : Holds(Walks[c], w) => w \in queued
    BY DEF LatchInv, ChainInv, Partition
  <1>5. \A i \in 1..Len(Stacked) : Stacked[i] \in Waiters /\ Holds(Stacked, Stacked[i])
    BY <1>2, ElementOfSeq DEF Holds
  <1>6. \A c \in Clients : \A i \in 1..Len(Walks[c]) :
            Walks[c][i] \in Waiters /\ Holds(Walks[c], Walks[c][i])
    BY <1>2, ElementOfSeq DEF Holds
  <1>7. QED BY <1>1, <1>2, <1>3, <1>4, <1>5, <1>6

\* A step that pushes, takes and completes nobody, and links at most a waiter
\* that has not been pushed.
LEMMA ChainsKept ==
    ASSUME LatchInv, LatchTypes', UNCHANGED <<top, walk, queued>>,
           \A w \in queued : next'[w] = next[w] /\ by'[w] = by[w]
    PROVE  ChainInv'
  <1>1. DOMAIN next' = DOMAIN next
    BY DEF LatchInv, LatchTypes
  <1>2. Leads(TopNode, Stacked, next', None)
    BY <1>1, ChainedIsQueued, LeadsKept DEF LatchInv, ChainInv, ChainsAre
  <1>3. ASSUME NEW c \in Clients PROVE Leads(walk[c], Walks[c], next', None)
    BY <1>1, ChainedIsQueued, LeadsKept DEF LatchInv, ChainInv, ChainsAre
  <1>4. ChainsAre(TopNode', next', walk', Stacked, Walks)
    BY <1>2, <1>3 DEF ChainsAre, TopNode
  <1>5. Partition(Stacked, Walks, queued', by')
    BY DEF LatchInv, ChainInv, Partition, LatchTypes
  <1>6. Walks = [c \in Clients |-> Walks[c]]
    BY DEF Walks
  <1>7. QED BY <1>4, <1>5, <1>6, ChainsBecome

\* A fresh latch has empty chains.
LEMMA LatchInit == Init => LatchInv
  <1> SUFFICES ASSUME Init PROVE LatchInv
    OBVIOUS
  <1> USE LatchAssumption
  <1>1. ZeroInv
    BY ZeroInit
  <1>2. LatchTypes
    BY DEF Init, LatchTypes
  <1>3. PushInv
    BY DEF Init, PushInv, Clients
  <1>4. NotifyInv
    BY DEF Init, NotifyInv, Clients
  <1>5. ChainInv
    <2>1. Leads(None, <<>>, next, None) /\ DOMAIN next = Waiters /\ None \notin Waiters
          /\ IsFiniteSet(Waiters)
      BY LeadsNowhere, FS_Subset DEF Init, Clients
    <2>2. Chain(None, next, None) = <<>>
      BY <2>1, ChainIs
    <2>3. TopNode = None /\ Stacked = <<>>
      BY <2>2 DEF Init, TopNode, Stacked
    <2>4. ASSUME NEW c \in Clients PROVE walk[c] = None /\ Walks[c] = <<>>
      BY <2>2 DEF Init, Walks, Walked
    <2>5. ChainsAre(TopNode, next, walk, Stacked, Walks)
      BY <2>1, <2>3, <2>4 DEF ChainsAre
    <2>6. \A w : ~Holds(<<>>, w)
      BY DEF Holds
    <2>7. Partition(Stacked, Walks, queued, by)
      BY <2>3, <2>4, <2>6 DEF Init, Partition
    <2>8. QED BY <2>5, <2>7 DEF ChainInv
  <1>6. QED BY <1>1, <1>2, <1>3, <1>4, <1>5 DEF LatchInv

\* A push that succeeds puts its waiter on the stack and nowhere else.
LEMMA PushStacks ==
    ASSUME LatchInv, NEW w \in Clients, PushWaiter(w), top' # top \/ queued' # queued,
           LatchTypes'
    PROVE  ChainInv'
  <1> USE LatchAssumption
  <1>1. /\ pc[w] = "cas" /\ w \in Waiters /\ top = seen[w] /\ top' = w
        /\ queued' = queued \cup {w} /\ UNCHANGED <<next, walk, by>>
    BY DEF PushWaiter, LatchInv, ZeroInv
  <1>2. w \notin queued /\ next[w] = TopNode /\ by[w] = by[w]
    BY <1>1 DEF LatchInv, PushInv, TopNode
  <1>3. /\ DOMAIN next = Waiters /\ None \notin Waiters
        /\ ~Holds(Stacked, w) /\ \A c \in Clients : ~Holds(Walks[c], w)
        /\ Leads(TopNode, Stacked, next, None) /\ Stacked \in Seq(Waiters)
    BY <1>1, <1>2, ChainedIsQueued DEF LatchInv, ChainInv, ChainsAre
  <1> DEFINE b == <<w>> \o Stacked
  <1>4. /\ Leads(w, b, next, None)
        /\ Len(b) = Len(Stacked) + 1
        /\ \A i \in 1..Len(Stacked) + 1 : b[i] = IF i = 1 THEN w ELSE Stacked[i - 1]
    BY <1>1, <1>2, <1>3, LeadsPush
  <1>5. Len(Stacked) \in Nat
    BY <1>3, LenProperties
  <1> HIDE DEF b
  <1>6. ASSUME NEW d PROVE Holds(b, d) <=> d = w \/ Holds(Stacked, d)
    <2>1. 1 \in 1..Len(b) /\ b[1] = w
      BY <1>4, <1>5
    <2>2. ASSUME NEW i \in 1..Len(b), i # 1 PROVE i - 1 \in 1..Len(Stacked) /\ b[i] = Stacked[i - 1]
      BY <1>4, <1>5, <2>2
    <2>3. ASSUME NEW i \in 1..Len(Stacked) PROVE i + 1 \in 1..Len(b) /\ b[i + 1] = Stacked[i]
      BY <1>4, <1>5
    <2>4. QED BY <2>1, <2>2, <2>3 DEF Holds
  <1>7. TopNode' = w
    BY <1>1 DEF TopNode, Clients
  <1>8. ChainsAre(TopNode', next', walk', b, Walks)
    BY <1>1, <1>4, <1>7 DEF ChainsAre, LatchInv, ChainInv
  <1>9. by[w] = None
    BY <1>1 DEF LatchInv, PushInv
  <1>10. Partition(b, Walks, queued', by')
    <2>1. \A v \in Waiters :
              v \in queued' /\ by'[v] = None <=> Holds(b, v) \/ \E c \in Clients : Holds(Walks[c], v)
      BY <1>1, <1>2, <1>6, <1>9 DEF LatchInv, ChainInv, Partition
    <2>2. \A v \in Waiters, c \in Clients : ~(Holds(b, v) /\ Holds(Walks[c], v))
      BY <1>3, <1>6 DEF LatchInv, ChainInv, Partition
    <2>3. \A v \in Waiters, c, d \in Clients :
              c # d => ~(Holds(Walks[c], v) /\ Holds(Walks[d], v))
      BY DEF LatchInv, ChainInv, Partition
    <2>4. QED BY <2>1, <2>2, <2>3 DEF Partition
  <1>11. Walks = [c \in Clients |-> Walks[c]]
    BY DEF Walks
  <1>12. QED BY <1>8, <1>10, <1>11, ChainsBecome

\* pop_all() moves the whole stack into the hand of its caller.
LEMMA PopTakesAll ==
    ASSUME LatchInv, NEW c \in Clients, PopAll(c), LatchTypes'
    PROVE  ChainInv'
  <1> USE LatchAssumption
  <1>1. /\ pc[c] = "notify" /\ walk' = [walk EXCEPT ![c] = TopNode] /\ top' = None
        /\ UNCHANGED <<next, queued, by>> /\ walk[c] = None
    BY DEF PopAll, TopNode, LatchInv, LatchTypes
  <1>2. /\ DOMAIN next = Waiters /\ None \notin Waiters
        /\ Leads(TopNode, Stacked, next, None)
        /\ \A d \in Clients : Leads(walk[d], Walks[d], next, None)
    BY ChainedIsQueued DEF LatchInv, ChainInv, ChainsAre
  <1>3. Walks[c] = <<>>
    BY <1>1, <1>2, LeadsNowhere
  <1> DEFINE wk == [d \in Clients |-> IF d = c THEN Stacked ELSE Walks[d]]
  <1>4. \A w : ~Holds(<<>>, w)
    BY DEF Holds
  <1>5. TopNode' = None /\ Leads(None, <<>>, next, None)
    BY <1>1, <1>2, LeadsNowhere DEF TopNode
  <1>6. ChainsAre(TopNode', next', walk', <<>>, wk)
    BY <1>1, <1>2, <1>5 DEF ChainsAre, LatchInv, LatchTypes
  <1>7. Partition(<<>>, wk, queued', by')
    <2>1. \A w \in Waiters : (\E d \in Clients : Holds(wk[d], w))
              <=> Holds(Stacked, w) \/ \E d \in Clients : Holds(Walks[d], w)
      BY <1>3, <1>4
    <2>2. \A w \in Waiters, d, e \in Clients :
              d # e => ~(Holds(wk[d], w) /\ Holds(wk[e], w))
      BY DEF LatchInv, ChainInv, Partition
    <2> HIDE DEF wk
    <2>3. QED BY <1>1, <1>4, <2>1, <2>2 DEF LatchInv, ChainInv, Partition
  <1>8. wk = [d \in Clients |-> wk[d]]
    OBVIOUS
  <1> HIDE DEF wk
  <1>9. QED BY <1>6, <1>7, <1>8, ChainsBecome

\* A completion takes the first waiter out of the hand of its thread.
LEMMA WalkGoesOn ==
    ASSUME LatchInv, NEW c \in Clients, CompleteNext(c), LatchTypes'
    PROVE  ChainInv'
  <1> USE LatchAssumption
  <1> DEFINE w == walk[c]
  <1>1. /\ w \in Waiters /\ c # None
        /\ walk' = [walk EXCEPT ![c] = next[w]] /\ by' = [by EXCEPT ![w] = c]
        /\ UNCHANGED <<top, next, queued>>
    BY DEF CompleteNext, LatchInv, LatchTypes, Clients
  <1>2. /\ DOMAIN next = Waiters /\ None \notin Waiters
        /\ Leads(TopNode, Stacked, next, None)
        /\ \A d \in Clients : Leads(walk[d], Walks[d], next, None)
        /\ Walks[c] \in Seq(Waiters)
    BY ChainedIsQueued DEF LatchInv, ChainInv, ChainsAre
  <1>3. Walks[c] # <<>>
    <2>1. Leads(w, Walks[c], next, None) /\ w # None
      BY <1>1, <1>2
    <2>2. QED BY <1>2, <2>1, LeadsNowhere
  <1> DEFINE a == Tail(Walks[c])
             wk == [d \in Clients |-> IF d = c THEN a ELSE Walks[d]]
  <1>4. /\ Leads(next[w], a, next, None)
        /\ w = Walks[c][1] /\ Len(a) = Len(Walks[c]) - 1
        /\ \A i \in 1..Len(Walks[c]) - 1 : a[i] = Walks[c][i + 1]
    <2>1. Leads(w, Walks[c], next, None)
      BY <1>2
    <2>2. QED BY <1>3, <2>1, LeadsPop
  <1>5. Len(Walks[c]) \in Nat \ {0}
    BY <1>2, <1>3, EmptySeq
  <1> HIDE DEF a, w
  <1>6. ASSUME NEW d PROVE Holds(a, d) <=> d # w /\ Holds(Walks[c], d)
    <2>1. ASSUME NEW i \in 1..Len(a)
          PROVE  i + 1 \in 1..Len(Walks[c]) /\ a[i] = Walks[c][i + 1] /\ i + 1 # 1
      BY <1>4, <1>5
    <2>2. ASSUME NEW i \in 1..Len(Walks[c]), i # 1
          PROVE  i - 1 \in 1..Len(a) /\ a[i - 1] = Walks[c][i]
      BY <1>4, <1>5, <2>2
    <2>3. \A i \in 1..Len(Walks[c]) : Walks[c][i] = w <=> i = 1
      <3>1. 1 \in 1..Len(Walks[c])
        BY <1>5
      <3>2. \A i, j \in 1..Len(Walks[c]) : Walks[c][i] = Walks[c][j] => i = j
        BY <1>2 DEF Leads
      <3>3. QED BY <1>4, <3>1, <3>2
    <2>4. QED BY <2>1, <2>2, <2>3 DEF Holds
  <1>7. Holds(Walks[c], w)
    BY <1>4, <1>5 DEF Holds
  <1>8. ChainsAre(TopNode', next', walk', Stacked, wk)
    BY <1>1, <1>2, <1>4 DEF ChainsAre, TopNode, LatchInv, LatchTypes
  <1>9. Partition(Stacked, wk, queued', by')
    <2>1. \A v \in Waiters : by'[v] = IF v = w THEN c ELSE by[v]
      BY <1>1 DEF LatchInv, ZeroInv
    <2>2. ~Holds(Stacked, w) /\ \A d \in Clients \ {c} : ~Holds(Walks[d], w)
      BY <1>1, <1>7 DEF LatchInv, ChainInv, Partition
    <2>3. \A v \in Waiters : (\E d \in Clients : Holds(wk[d], v))
              <=> v # w /\ \E d \in Clients : Holds(Walks[d], v)
      BY <1>6, <2>2
    <2>4. \A v \in Waiters, d \in Clients : Holds(wk[d], v) => Holds(Walks[d], v)
      BY <1>6
    <2> HIDE DEF wk
    <2>5. \A v \in Waiters :
              v \in queued' /\ by'[v] = None <=> Holds(Stacked, v) \/ \E d \in Clients : Holds(wk[d], v)
      BY <1>1, <2>1, <2>2, <2>3 DEF LatchInv, ChainInv, Partition
    <2>6. QED BY <2>4, <2>5 DEF LatchInv, ChainInv, Partition
  <1>10. wk = [d \in Clients |-> wk[d]]
    OBVIOUS
  <1> HIDE DEF wk
  <1>11. QED BY <1>8, <1>9, <1>10, ChainsBecome

\* The types and the marks survive each action.
LEMMA LatchTypesNext == LatchInv /\ Next => LatchTypes'
  <1> SUFFICES ASSUME LatchInv, NEW c \in Clients,
                      CountDown(c) \/ Start(c) \/ Continue(c)
               PROVE  LatchTypes'
    BY DEF Next
  <1> USE LatchAssumption DEF LatchInv, ZeroInv, LatchTypes, Goto
  <1>1. CASE CountDown(c)
    BY <1>1 DEF CountDown, Subtract
  <1>2. CASE Start(c)
    BY <1>2 DEF Start, Subtract
  <1>3. CASE ReadTop(c)
    BY <1>3 DEF ReadTop, Clients
  <1>4. CASE PushWaiter(c)
    BY <1>4 DEF PushWaiter, Clients
  <1>5. CASE PopAll(c)
    BY <1>5 DEF PopAll, Clients
  <1>6. CASE CompleteNext(c)
    BY <1>6 DEF CompleteNext, Clients
  <1>7. CASE Notified(c)
    BY <1>7 DEF Notified
  <1>8. QED BY <1>1, <1>2, <1>3, <1>4, <1>5, <1>6, <1>7 DEF Continue

\* No waiter is pushed twice or with a link it has not read.
LEMMA PushInvNext == LatchInv /\ Next => PushInv'
  <1> SUFFICES ASSUME LatchInv, NEW c \in Clients,
                      CountDown(c) \/ Start(c) \/ Continue(c)
               PROVE  PushInv'
    BY DEF Next
  <1> USE LatchAssumption DEF LatchInv, ZeroInv, LatchTypes, PushInv, Goto, Clients
  <1>1. CASE CountDown(c)
    BY <1>1 DEF CountDown, Subtract
  <1>2. CASE Start(c)
    BY <1>2 DEF Start, Subtract
  <1>3. CASE ReadTop(c)
    BY <1>3 DEF ReadTop
  <1>4. CASE PushWaiter(c)
    BY <1>4 DEF PushWaiter
  <1>5. CASE PopAll(c)
    BY <1>5 DEF PopAll
  <1>6. CASE CompleteNext(c)
    <2>1. walk[c] \in Waiters /\ walk[c] \in queued
      <3>1. walk[c] \in Waiters
        BY <1>6 DEF CompleteNext
      <3>2. Leads(walk[c], Walks[c], next, None) /\ None \notin Waiters /\ DOMAIN next = Waiters
        BY DEF ChainInv, ChainsAre
      <3>3. Walks[c] # <<>>
        BY <3>1, <3>2, LeadsNowhere
      <3>4. 1 \in 1..Len(Walks[c]) /\ walk[c] = Walks[c][1]
        BY <3>2, <3>3, EmptySeq DEF Leads
      <3>5. QED BY <3>4, ChainedIsQueued
    <2>2. QED BY <1>6, <2>1 DEF CompleteNext
  <1>7. CASE Notified(c)
    BY <1>7 DEF Notified
  <1>8. QED BY <1>1, <1>2, <1>3, <1>4, <1>5, <1>6, <1>7 DEF Continue

\* Whoever puts somebody on a stack at zero either finds a thread that is to
\* take it or takes it.
LEMMA NotifyInvNext == LatchInv /\ Next => NotifyInv'
  <1> SUFFICES ASSUME LatchInv, NEW c \in Clients,
                      CountDown(c) \/ Start(c) \/ Continue(c)
               PROVE  NotifyInv'
    BY DEF Next
  <1> USE LatchAssumption DEF LatchInv, ZeroInv, LatchTypes, NotifyInv, Goto, Clients
  <1>1. CASE CountDown(c)
    BY <1>1 DEF CountDown, Subtract
  <1>2. CASE Start(c)
    BY <1>2 DEF Start, Subtract
  <1>3. CASE ReadTop(c)
    BY <1>3 DEF ReadTop
  <1>4. CASE PushWaiter(c)
    BY <1>4 DEF PushWaiter
  <1>5. CASE PopAll(c)
    BY <1>5 DEF PopAll
  <1>6. CASE CompleteNext(c)
    BY <1>6 DEF CompleteNext
  <1>7. CASE Notified(c)
    BY <1>7 DEF Notified
  <1>8. QED BY <1>1, <1>2, <1>3, <1>4, <1>5, <1>6, <1>7 DEF Continue

\* Only three actions move a waiter from one chain to another.
LEMMA ChainInvNext == LatchInv /\ Next => ChainInv'
  <1> SUFFICES ASSUME LatchInv, NEW c \in Clients,
                      CountDown(c) \/ Start(c) \/ Continue(c), LatchTypes'
               PROVE  ChainInv'
    BY LatchTypesNext DEF Next
  <1>1. CASE CountDown(c) \/ Start(c)
    BY <1>1, ChainsKept DEF CountDown, Start
  <1>2. CASE ReadTop(c)
    <2>1. \A w \in queued : next'[w] = next[w] /\ by'[w] = by[w]
      BY <1>2 DEF ReadTop, LatchInv, LatchTypes, PushInv
    <2>2. QED BY <1>2, <2>1, ChainsKept DEF ReadTop
  <1>3. CASE PushWaiter(c)
    <2>1. CASE top' # top \/ queued' # queued
      BY <1>3, <2>1, PushStacks
    <2>2. CASE UNCHANGED <<top, queued>>
      BY <1>3, <2>2, ChainsKept DEF PushWaiter
    <2>3. QED BY <2>1, <2>2
  <1>4. CASE PopAll(c)
    BY <1>4, PopTakesAll
  <1>5. CASE CompleteNext(c)
    BY <1>5, WalkGoesOn
  <1>6. CASE Notified(c)
    <2>1. \A w \in queued : next'[w] = next[w] /\ by'[w] = by[w]
      BY <1>6 DEF Notified, LatchInv, LatchTypes
    <2>2. UNCHANGED <<top, walk, queued>>
      BY <1>6 DEF Notified
    <2>3. QED BY <2>1, <2>2, ChainsKept
  <1>7. QED BY <1>1, <1>2, <1>3, <1>4, <1>5, <1>6 DEF Continue

\* The invariant is inductive.
LEMMA LatchNext == LatchInv /\ [Next]_vars => LatchInv'
  <1> SUFFICES ASSUME LatchInv, [Next]_vars PROVE LatchInv'
    OBVIOUS
  <1>1. CASE UNCHANGED vars
    <2>1. TopNode' = TopNode /\ Stacked' = Stacked /\ Walks' = Walks
      BY <1>1 DEF vars, TopNode, Stacked, Walks, Walked
    <2>2. ChainInv'
      BY <1>1, <2>1 DEF vars, LatchInv, ChainInv
    <2>3. QED
      BY <1>1, <2>2 DEF vars, LatchInv, ZeroInv, LatchTypes, PushInv, NotifyInv
  <1>2. CASE Next
    <2>1. ZeroInv'
      BY ZeroNext DEF LatchInv
    <2>2. QED
      BY <1>2, <2>1, LatchTypesNext, PushInvNext, NotifyInvNext, ChainInvNext DEF LatchInv
  <1>3. QED BY <1>1, <1>2

\* The chains of the latch are disjoint and hold exactly those who wait, for
\* any number of waiters that push, take and walk at the same time.
THEOREM LatchInvariance == Spec => []LatchInv
  BY LatchInit, LatchNext, PTL DEF Spec

\* The first node of a walk has been pushed.
LEMMA LatchTypeCorrect == ASSUME LatchInv PROVE TypeOK
  <1>1. ASSUME NEW c \in Clients, walk[c] # None PROVE pc[c] = "walk" /\ walk[c] \in queued
    <2>1. walk[c] \in Waiters /\ pc[c] = "walk"
      BY <1>1 DEF LatchInv, LatchTypes
    <2>2. Leads(walk[c], Walks[c], next, None) /\ None \notin Waiters /\ DOMAIN next = Waiters
      BY ChainedIsQueued DEF LatchInv, ChainInv, ChainsAre
    <2>3. Walks[c] # <<>>
      BY <1>1, <2>2, LeadsNowhere
    <2>4. 1 \in 1..Len(Walks[c]) /\ walk[c] = Walks[c][1]
      BY <2>2, <2>3, EmptySeq DEF Leads
    <2>5. QED BY <2>1, <2>4, ChainedIsQueued
  <1>2. QED BY <1>1 DEF LatchInv, ZeroInv, LatchTypes, TypeOK

\* No waiter of the latch is lost, completed twice or walked over by two
\* threads.
LEMMA NobodyIsInTwoPlaces == ASSUME LatchInv PROVE QueuedIsInOnePlace
  <1>1. \A w \in Waiters : w \in ToSet(Stacked) <=> Holds(Stacked, w)
    BY DEF ToSet, Holds
  <1>2. \A w \in Waiters, c \in Clients : w \in ToSet(Walked(c)) <=> Holds(Walks[c], w)
    BY DEF ToSet, Holds, Walks
  <1>3. ToSet(Stacked) \subseteq queued /\ \A c \in Clients : ToSet(Walked(c)) \subseteq queued
    BY ChainedIsQueued DEF ToSet, Walks
  <1>4. queued \subseteq Waiters
    BY DEF LatchInv, LatchTypes
  <1>5. Partition(Stacked, Walks, queued, by)
    BY DEF LatchInv, ChainInv
  <1>6. \A w \in Waiters : w \in queued \ Completed <=>
            w \in ToSet(Stacked) \/ \E c \in Clients : w \in ToSet(Walked(c))
    BY <1>1, <1>2, <1>5 DEF Partition, Completed
  <1>7. queued \ Completed = ToSet(Stacked) \cup UNION {ToSet(Walked(c)) : c \in Clients}
    BY <1>3, <1>4, <1>6
  <1>8. \A w \in Waiters, c \in Clients : w \in ToSet(Walked(c)) => w \notin ToSet(Stacked)
    BY <1>1, <1>2, <1>5 DEF Partition
  <1>9. \A w \in Waiters, c, d \in Clients :
            c # d => ~(w \in ToSet(Walked(c)) /\ w \in ToSet(Walked(d)))
    BY <1>2, <1>5 DEF Partition
  <1>10. QED
    BY <1>3, <1>4, <1>6, <1>7, <1>8, <1>9 DEF QueuedIsInOnePlace

\* Once the counter is zero nobody sits on the stack without a thread that is
\* about to take it, however late the push.
LEMMA NobodyStaysBehind == ASSUME LatchInv PROVE NobodyLeftBehind
  <1>1. ASSUME Stacked # <<>> PROVE top \notin {None, Never}
    <2>1. Leads(TopNode, Stacked, next, None) /\ DOMAIN next = Waiters /\ None \notin Waiters
      BY ChainedIsQueued DEF LatchInv, ChainInv, ChainsAre
    <2>2. TopNode # None
      BY <1>1, <2>1, LeadsNowhere
    <2>3. QED BY <2>2 DEF TopNode
  <1>2. QED BY <1>1 DEF LatchInv, NotifyInv, NobodyLeftBehind

\* Whoever waits for the latch is in one place where somebody will find it,
\* however pushes, the last count_down() and the walks interleave.
THEOREM NoLatchWaiterIsLost == Spec => []WaitersAreKept
  <1>1. LatchInv => WaitersAreKept
    BY LatchTypeCorrect, NobodyIsInTwoPlaces, NobodyStaysBehind DEF WaitersAreKept
  <1>2. QED BY <1>1, LatchInvariance, PTL

(***************************************************************************)
(* WhenAny.  The counter of arrivals counts the children that have left,   *)
(* so the race completes when no child is left to touch its state; and     *)
(* only the child that reported first can be on its way to the result.     *)
(***************************************************************************)

Places == {"idle", "running", "request", "write", "arrive", "gone"}
Gone == {c \in Children : childPc[c] = "gone"}

TypeInv ==
    /\ first \in 0..ChildCount
    /\ nextChild \in 1..(ChildCount + 1)
    /\ childPc \in [Children -> Places]
    /\ outcome \in [Children -> Outcomes \cup {"none"}]
    /\ done_count \in Nat /\ ready_count \in Nat
    /\ called \in [Children -> 0..1]
    /\ flag \in [Children -> BOOLEAN]
    /\ result \in {"monostate", "value", "error"}

\* Who reported first and whether anybody reported are the same question, and
\* only the first is ever on its way to the result.
WinnerInv ==
    /\ first = 0 => /\ done_count = 0 /\ result = "monostate"
                    /\ \A c \in Children : childPc[c] \in {"idle", "running"}
    /\ first # 0 => done_count # 0 /\ outcome[first] \in Outcomes
                    /\ childPc[first] \notin {"idle", "running"}
    /\ \A c \in Children : childPc[c] \in {"request", "write"} => c = first /\ result = "monostate"
    /\ first # 0 => childPc[first] \in {"request", "write"} \/ Delivered = outcome[first]

\* The arrivals are counted, and the last one completes the race.
ArrivalInv ==
    /\ ready_count = Cardinality(Gone)
    /\ \A c \in Children : c >= nextChild => childPc[c] = "idle"
    /\ ready_count < ChildCount => finished = <<>>
    /\ ready_count = ChildCount => finished = <<outcome[first]>>

\* A combined callback is called for the first token that is triggered.
CalledInv == \A c \in Children : flag[c] => called[c] = 0

RaceInv == TypeInv /\ WinnerInv /\ ArrivalInv /\ CalledInv

\* The children are finitely many.
LEMMA ChildrenAreFinite ==
    ASSUME WhenAnyAssumption
    PROVE  IsFiniteSet(Children) /\ Cardinality(Children) = ChildCount
  BY FS_Interval DEF WhenAnyAssumption, Children

\* As many as there are have left only when all have.
LEMMA CountOfGone ==
    ASSUME WhenAnyAssumption
    PROVE  /\ IsFiniteSet(Gone) /\ Cardinality(Gone) \in 0..ChildCount
           /\ Cardinality(Gone) = ChildCount => Gone = Children
  <1>1. Gone \subseteq Children
    BY DEF Gone
  <1>2. /\ IsFiniteSet(Gone) /\ Cardinality(Gone) <= ChildCount
        /\ Cardinality(Gone) = ChildCount => Gone = Children
    BY <1>1, ChildrenAreFinite, FS_Subset
  <1>3. Cardinality(Gone) \in Nat
    BY <1>2, FS_CardinalityType
  <1>4. QED BY <1>2, <1>3 DEF WhenAnyAssumption

\* No child has started.
LEMMA InvAtFirst == WhenAnyAssumption /\ RaceInit => RaceInv
  <1> SUFFICES ASSUME WhenAnyAssumption, RaceInit PROVE RaceInv
    OBVIOUS
  <1>1. TypeInv /\ WinnerInv /\ CalledInv
    BY DEF RaceInit, WhenAnyAssumption, TypeInv, WinnerInv, CalledInv, Children, Places
  <1>2. Gone = {}
    BY DEF RaceInit, Gone
  <1>3. ArrivalInv
    BY <1>2, FS_EmptySet DEF RaceInit, ArrivalInv, WhenAnyAssumption, Children
  <1>4. QED BY <1>1, <1>3 DEF RaceInv

\* A child that neither leaves nor was gone leaves the arrivals as they are.
LEMMA GoneIsKept ==
    ASSUME TypeInv, ArrivalInv, NEW c \in Children, NEW place \in Places \ {"gone"},
           childPc[c] # "gone", childPc' = [childPc EXCEPT ![c] = place],
           UNCHANGED <<ready_count, finished>>
    PROVE  Gone' = Gone /\ ready_count' = Cardinality(Gone')
  <1>1. Gone' = Gone
    BY DEF TypeInv, Gone
  <1>2. QED BY <1>1 DEF ArrivalInv

\* While a child has not left, the race has not completed.
LEMMA NotAllGone ==
    ASSUME WhenAnyAssumption, RaceInv, NEW c \in Children, childPc[c] # "gone"
    PROVE  ready_count < ChildCount /\ finished = <<>>
  <1>1. Gone # Children
    BY DEF Gone
  <1>2. QED BY <1>1, CountOfGone DEF RaceInv, ArrivalInv, WhenAnyAssumption

\* One step per action.
LEMMA InvIsKept == WhenAnyAssumption /\ RaceInv /\ [RaceNext]_raceVars => RaceInv'
  <1> SUFFICES ASSUME WhenAnyAssumption, RaceInv, [RaceNext]_raceVars PROVE RaceInv'
    OBVIOUS
  <1> USE DEF WhenAnyAssumption, RaceInv, stateVars, stopVars
  <1>1. CASE UNCHANGED raceVars
    BY <1>1 DEF raceVars, TypeInv, WinnerInv, ArrivalInv, CalledInv, Gone, Delivered
  <1>2. CASE StartChild
    <2>1. nextChild \in Children /\ childPc[nextChild] = "idle"
      BY <1>2 DEF StartChild, TypeInv, ArrivalInv, Children
    <2>2. ready_count' = Cardinality(Gone')
      BY <1>2, <2>1, GoneIsKept DEF StartChild, Places
    <2>3. TypeInv'
      BY <1>2, <2>1 DEF StartChild, TypeInv, Places, Children
    <2>4. WinnerInv' /\ CalledInv'
      BY <1>2, <2>1 DEF StartChild, TypeInv, WinnerInv, CalledInv, Delivered
    <2>5. ArrivalInv'
      BY <1>2, <2>1, <2>2 DEF StartChild, TypeInv, ArrivalInv, Children
    <2>6. QED BY <2>3, <2>4, <2>5
  <1>3. ASSUME NEW c \in Children, StopOutside(c) PROVE RaceInv'
    BY <1>3 DEF StopOutside, TypeInv, WinnerInv, ArrivalInv, CalledInv, Gone, Delivered
  <1>4. ASSUME NEW c \in Children, OnStop(c) PROVE RaceInv'
    <2>1. TypeInv' /\ CalledInv'
      BY <1>4 DEF OnStop, TypeInv, CalledInv
    <2>2. WinnerInv' /\ ArrivalInv'
      BY <1>4 DEF OnStop, WinnerInv, ArrivalInv, Gone, Delivered
    <2>3. QED BY <2>1, <2>2
  <1>5. ASSUME NEW c \in Children, Report(c) PROVE RaceInv'
    <2>1. PICK r \in Outcomes : outcome' = [outcome EXCEPT ![c] = r]
      BY <1>5 DEF Report, Completes
    <2>2. PICK place \in {"request", "arrive"} :
              /\ childPc' = [childPc EXCEPT ![c] = place]
              /\ (place = "request") <=> (done_count = 0)
      BY <1>5 DEF Report, Completes
    <2>3. childPc[c] = "running" /\ first' = IF first = 0 THEN c ELSE first
      BY <1>5 DEF Report, Completes
    <2>4. UNCHANGED <<called, flag, nextChild, ready_count, result, finished>>
      BY <1>5 DEF Report, Completes
    <2>5. done_count' = done_count + 1
      BY <1>5 DEF Report, Completes
    <2>6. ready_count' = Cardinality(Gone')
      BY <2>2, <2>3, <2>4, GoneIsKept DEF Places
    <2>7. ready_count < ChildCount /\ finished = <<>>
      BY <2>3, NotAllGone
    <2>8. TypeInv'
      BY <2>1, <2>2, <2>3, <2>4, <2>5 DEF TypeInv, Places, Children
    <2>9. first = 0 => first' = c /\ childPc'[c] = "request" /\ outcome'[c] \in Outcomes
      BY <2>1, <2>2, <2>3 DEF TypeInv, WinnerInv
    <2>10. first # 0 => /\ first' = first /\ first \in Children /\ first # c
                        /\ childPc'[c] = "arrive"
                        /\ childPc'[first] = childPc[first] /\ outcome'[first] = outcome[first]
      BY <2>1, <2>2, <2>3 DEF TypeInv, WinnerInv, Children
    <2>11. WinnerInv'
      <3>1. first' # 0 /\ done_count' # 0
        BY <2>5, <2>9, <2>10 DEF TypeInv, Children
      <3>2. \A d \in Children : d # c => childPc'[d] = childPc[d]
        BY <2>2 DEF TypeInv
      <3>3. CASE first = 0
        BY <2>4, <2>9, <3>1, <3>2, <3>3 DEF WinnerInv
      <3>4. CASE first # 0
        BY <2>4, <2>10, <3>1, <3>2, <3>4 DEF WinnerInv, Delivered
      <3>5. QED BY <3>3, <3>4
    <2>12. ArrivalInv'
      BY <2>2, <2>3, <2>4, <2>6, <2>7 DEF TypeInv, ArrivalInv
    <2>13. CalledInv'
      BY <2>4 DEF CalledInv
    <2>14. QED BY <2>8, <2>11, <2>12, <2>13
  <1>6. ASSUME NEW c \in Children, Request(c) PROVE RaceInv'
    <2>1. childPc[c] = "request" /\ childPc' = [childPc EXCEPT ![c] = "write"]
      BY <1>6 DEF Request
    <2>2. ready_count' = Cardinality(Gone')
      BY <1>6, <2>1, GoneIsKept DEF Request, Places
    <2>3. TypeInv' /\ CalledInv'
      BY <1>6 DEF Request, TypeInv, Places, CalledInv
    <2>4. WinnerInv'
      BY <1>6, <2>1 DEF Request, TypeInv, WinnerInv, Delivered
    <2>5. ArrivalInv'
      BY <1>6, <2>1, <2>2 DEF Request, TypeInv, ArrivalInv
    <2>6. QED BY <2>3, <2>4, <2>5
  <1>7. ASSUME NEW c \in Children, Write(c) PROVE RaceInv'
    <2>1. childPc[c] = "write" /\ childPc' = [childPc EXCEPT ![c] = "arrive"]
      BY <1>7 DEF Write
    <2>2. ready_count' = Cardinality(Gone')
      BY <1>7, <2>1, GoneIsKept DEF Write, Places
    <2>3. c = first /\ result = "monostate" /\ outcome[c] \in Outcomes /\ first # 0
      BY <2>1 DEF WinnerInv, Children
    <2>4. result' \in {"monostate", "value", "error"} /\ Delivered' = outcome[c]
      BY <1>7, <2>3 DEF Write, Delivered, Outcomes
    <2>5. TypeInv' /\ CalledInv'
      BY <1>7, <2>4 DEF Write, TypeInv, Places, CalledInv
    <2>6. WinnerInv'
      <3>1. UNCHANGED <<first, outcome, done_count>>
        BY <1>7 DEF Write
      <3>2. \A d \in Children : childPc'[d] = IF d = c THEN "arrive" ELSE childPc[d]
        BY <2>1 DEF TypeInv
      <3>3. QED BY <2>3, <2>4, <3>1, <3>2 DEF WinnerInv
    <2>7. ArrivalInv'
      BY <1>7, <2>1, <2>2 DEF Write, TypeInv, ArrivalInv
    <2>8. QED BY <2>5, <2>6, <2>7
  <1>8. ASSUME NEW c \in Children, Arrive(c) PROVE RaceInv'
    <2>1. /\ childPc[c] = "arrive" /\ childPc' = [childPc EXCEPT ![c] = "gone"]
          /\ ready_count' = ready_count + 1
          /\ UNCHANGED <<first, nextChild, outcome, done_count, result, called, flag>>
      BY <1>8 DEF Arrive
    <2>2. ready_count < ChildCount /\ finished = <<>>
      BY <2>1, NotAllGone
    <2>3. Gone' = Gone \cup {c} /\ c \notin Gone
      BY <2>1 DEF TypeInv, Gone
    <2>4. ready_count' = Cardinality(Gone')
      BY <2>1, <2>3, CountOfGone, FS_AddElement DEF ArrivalInv
    <2>5. TypeInv' /\ CalledInv'
      BY <2>1 DEF TypeInv, Places, CalledInv
    <2>6. WinnerInv'
      BY <2>1 DEF TypeInv, WinnerInv, Delivered
    <2>7. ready_count' = ChildCount => finished' = <<outcome[first]>>
      <3> SUFFICES ASSUME ready_count' = ChildCount PROVE finished' = <<outcome[first]>>
        OBVIOUS
      <3>1. Gone' = Children
        <4>1. Gone' \subseteq Children
          BY DEF Gone
        <4>2. QED BY <2>4, <4>1, ChildrenAreFinite, FS_Subset
      <3>2. first # 0 /\ first \in Children
        BY <2>1 DEF TypeInv, WinnerInv, Children
      <3>3. childPc[first] \notin {"request", "write"}
        BY <2>1, <3>1, <3>2 DEF Gone, TypeInv
      <3>4. Delivered = outcome[first]
        BY <3>2, <3>3 DEF WinnerInv
      <3>5. finished' = Append(<<>>, Delivered)
        BY <1>8, <2>2 DEF Arrive
      <3>6. \A r \in Outcomes : Append(<<>>, r) = <<r>>
        OBVIOUS
      <3>7. outcome[first] \in Outcomes
        BY <3>2 DEF WinnerInv
      <3>8. QED BY <3>4, <3>5, <3>6, <3>7
    <2>8. ArrivalInv'
      <3>1. ready_count' < ChildCount => finished' = <<>>
        BY <1>8, <2>2 DEF Arrive, TypeInv
      <3>2. \A d \in Children : d >= nextChild' => childPc'[d] = "idle"
        BY <2>1 DEF TypeInv, ArrivalInv
      <3>3. QED BY <2>1, <2>4, <2>7, <3>1, <3>2 DEF ArrivalInv
    <2>9. QED BY <2>5, <2>6, <2>8
  <1>9. QED BY <1>1, <1>2, <1>3, <1>4, <1>5, <1>6, <1>7, <1>8 DEF RaceNext

\* The race has one outcome, that of the child that reported first, and it
\* completes when no child is left to touch its state; each child is told to
\* stop at most once.
THEOREM Decided == ASSUME WhenAnyAssumption PROVE RaceSpec => []RaceIsDecided
  <1>1. RaceInit => RaceInv
    BY WhenAnyAssumption, InvAtFirst
  <1>2. RaceInv /\ [RaceNext]_raceVars => RaceInv'
    BY WhenAnyAssumption, InvIsKept
  <1>3. RaceInv => RaceIsDecided
    <2> SUFFICES ASSUME RaceInv PROVE RaceIsDecided
      OBVIOUS
    <2>1. \A c \in Children : called[c] <= 1
      BY DEF RaceInv, TypeInv
    <2>2. ASSUME finished # <<>>
          PROVE  finished = <<outcome[first]>> /\ \A c \in Children : childPc[c] = "gone"
      <3>1. \A c \in Children : childPc[c] = "gone"
        BY <2>2, WhenAnyAssumption, NotAllGone
      <3>2. ready_count = ChildCount
        BY <2>2, WhenAnyAssumption, CountOfGone DEF RaceInv, ArrivalInv, WhenAnyAssumption
      <3>3. QED BY <3>1, <3>2 DEF RaceInv, ArrivalInv
    <2>3. QED BY <2>1, <2>2 DEF RaceIsDecided
  <1>4. QED BY <1>1, <1>2, <1>3, PTL DEF RaceSpec

(***************************************************************************)
(* Task.  That only the deepest coroutine can run follows from one fact    *)
(* about two depths: above a frame that does not wait for the next, every  *)
(* frame is new or does not exist.                                         *)
(***************************************************************************)

Frames == {"none", "initial", "running", "waits", "asks", "abandoned", "final"}
Owners == {"nobody", "task", "state"}
Fresh == {"none", "initial"}

\* The completions that a receiver can have got so far.
Got == {<<>>} \cup {<<r>> : r \in {"value", "error", "stopped"}}

StackInv ==
    /\ frame \in [Tasks -> Frames]
    /\ owner \in [Tasks -> Owners]
    /\ completed \in Got
    /\ \A t \in Tasks : (frame[t] = "none") = (owner[t] = "nobody")
    /\ \A t \in Tasks : owner[t] = "task" => frame[t] = "initial"
    /\ \A t, u \in Tasks : t < u => frame[t] = "waits" \/ frame[u] \in Fresh
    /\ \A t \in Tasks : frame[t] \in {"running", "asks"} => completed = <<>>
    /\ \A t \in Tasks : frame[t] = "abandoned" => completed = <<"stopped">>
    /\ completed # <<>> => frame[1] # "initial"

\* Nothing exists before the first call.
LEMMA StackInit == TaskAssumption /\ TaskInit => StackInv
  BY DEF TaskAssumption, TaskInit, StackInv, Frames, Owners, Fresh, Got, Tasks

\* A receiver that got nothing may get one completion.
LEMMA FirstCompletion ==
    ASSUME NEW s, s = <<>>, NEW r \in {"value", "error", "stopped"}
    PROVE  Append(s, r) = <<r>> /\ <<r>> \in Got /\ <<r>> # <<>>
  BY DEF Got

\* One step per action.
LEMMA StackNext == TaskAssumption /\ StackInv /\ [TaskNext]_taskVars => StackInv'
  <1> SUFFICES ASSUME TaskAssumption, StackInv, [TaskNext]_taskVars PROVE StackInv'
    OBVIOUS
  <1>0. 1 \in Tasks
    BY DEF TaskAssumption, Tasks
  <1> USE <1>0 DEF TaskAssumption, Tasks, Frames, Owners, Fresh
  <1>1. CASE UNCHANGED taskVars
    BY <1>1 DEF StackInv, taskVars
  <1>2. CASE Connect
    BY <1>2 DEF Connect, TakeOver, StackInv
  <1>3. CASE StartTask
    BY <1>3 DEF StartTask, StackInv
  <1>4. CASE RequestTaskStop
    BY <1>4 DEF RequestTaskStop, StackInv
  <1>5. CASE DestroyState
    <2>1. /\ frame' = [t \in Tasks |-> "none"]
          /\ owner' = [t \in Tasks |-> "nobody"]
          /\ completed' = completed
      BY <1>5 DEF DestroyState, Destroy
    <2>2. QED BY <2>1 DEF StackInv
  <1>6. ASSUME NEW t \in Tasks, Create(t) PROVE StackInv'
    <2>1. frame[t] = "none" /\ (t = 1 => completed = <<>>)
      BY <1>6 DEF Create
    <2>2. QED BY <1>6, <2>1 DEF Create, StackInv
  <1>7. ASSUME NEW t \in Tasks, Drop(t) PROVE StackInv'
    <2>1. /\ frame' = [frame EXCEPT ![t] = "none"]
          /\ owner' = [owner EXCEPT ![t] = "nobody"]
          /\ completed' = completed /\ frame[t] = "initial"
      BY <1>7 DEF Drop, Destroy, StackInv
    <2>2. QED BY <2>1 DEF StackInv
  <1>8. ASSUME NEW t \in Tasks, AwaitTask(t) PROVE StackInv'
    <2>1. /\ t + 1 \in Tasks /\ frame[t] = "running" /\ owner[t + 1] = "task"
          /\ frame' = [frame EXCEPT ![t] = "waits", ![t + 1] = "running"]
          /\ owner' = [owner EXCEPT ![t + 1] = "state"]
          /\ completed' = completed
      BY <1>8 DEF AwaitTask, TakeOver, Running
    <2>2. \A u \in Tasks : /\ frame'[u] = IF u = t + 1 THEN "running"
                                          ELSE IF u = t THEN "waits" ELSE frame[u]
                           /\ owner'[u] = IF u = t + 1 THEN "state" ELSE owner[u]
      BY <2>1 DEF StackInv
    <2>3. /\ frame[t + 1] = "initial"
          /\ frame' \in [Tasks -> Frames] /\ owner' \in [Tasks -> Owners]
      BY <2>1 DEF StackInv
    <2>4. completed' = <<>> /\ completed' \in Got
      BY <2>1 DEF StackInv
    <2>5. \A u, v \in Tasks : u < v => frame'[u] = "waits" \/ frame'[v] \in Fresh
      BY <2>1, <2>2, <2>3 DEF StackInv
    <2>6. \A u \in Tasks : frame[u] # "abandoned"
      BY <2>1 DEF StackInv
    <2>7. \A u \in Tasks : /\ (frame'[u] = "none") = (owner'[u] = "nobody")
                           /\ owner'[u] = "task" => frame'[u] = "initial"
      BY <2>1, <2>2, <2>3 DEF StackInv
    <2>8. frame'[1] # "initial" \/ completed' = <<>>
      BY <2>4
    <2>9. QED BY <2>2, <2>3, <2>4, <2>5, <2>6, <2>7, <2>8 DEF StackInv
  <1>9. ASSUME NEW t \in Tasks, AwaitSender(t) PROVE StackInv'
    BY <1>9 DEF AwaitSender, Running, StackInv
  <1>10. ASSUME NEW t \in Tasks, Resume(t) PROVE StackInv'
    BY <1>10 DEF Resume, StackInv
  <1>11. ASSUME NEW t \in Tasks, Stopped(t) PROVE StackInv'
    <2>1. frame[t] = "asks" /\ completed = <<>>
      BY <1>11 DEF Stopped, StackInv
    <2>2. completed' = <<"stopped">> /\ completed' \in Got /\ completed' # <<>>
      BY <1>11, <2>1, FirstCompletion DEF Stopped
    <2>3. \A u \in Tasks : frame'[u] = IF u = t THEN "abandoned" ELSE frame[u]
      BY <1>11 DEF Stopped, StackInv
    <2>4. \A u \in Tasks : frame[u] \in {"running", "asks"} => u = t
      BY <2>1 DEF StackInv
    <2>5. t # 1 => frame[1] = "waits"
      BY <2>1 DEF StackInv
    <2>6. frame' \in [Tasks -> Frames] /\ owner' = owner
      BY <1>11 DEF Stopped, StackInv
    <2>7. QED BY <2>1, <2>2, <2>3, <2>4, <2>5, <2>6 DEF StackInv
  <1>12. ASSUME NEW t \in Tasks, FinishTask(t) PROVE StackInv'
    <2>1. /\ frame[t] = "running" /\ completed = <<>>
          /\ \A u \in Tasks : frame[u] \in {"running", "asks"} => u = t
      BY <1>12 DEF FinishTask, Running, StackInv
    <2>2. CASE t = 1
      <3>1. PICK r \in {"value", "error"} :
                /\ completed' = Append(completed, r)
                /\ frame' = [frame EXCEPT ![1] = "final"] /\ owner' = owner
        BY <1>12, <2>2 DEF FinishTask
      <3>2. completed' = <<r>> /\ completed' \in Got /\ completed' # <<>>
        BY <2>1, <3>1, FirstCompletion
      <3>3. \A u \in Tasks : frame[u] # "abandoned"
        BY <2>1 DEF StackInv
      <3>4. QED BY <2>1, <2>2, <3>1, <3>2, <3>3 DEF StackInv
    <2>3. CASE t # 1
      <3>1. /\ t - 1 \in Tasks /\ completed' = completed
            /\ frame' = [frame EXCEPT ![t] = "none", ![t - 1] = "running"]
            /\ owner' = [owner EXCEPT ![t] = "nobody"]
        BY <1>12, <2>3 DEF FinishTask
      <3>2. frame[t - 1] = "waits"
        BY <2>1, <3>1 DEF StackInv
      <3>3. QED BY <2>1, <2>3, <3>1, <3>2 DEF StackInv
    <2>4. QED BY <2>2, <2>3
  <1>13. QED
    BY <1>1, <1>2, <1>3, <1>4, <1>5, <1>6, <1>7, <1>8, <1>9, <1>10, <1>11, <1>12 DEF TaskNext

\* The receiver of a stack of awaiting tasks is completed at most once, however
\* deep the stack is and wherever it is stopped, and no coroutine of it runs on.
THEOREM CompletesOnce == ASSUME TaskAssumption PROVE TaskSpec => []OneCompletionPerStack
  <1>1. TaskInit => StackInv
    BY TaskAssumption, StackInit
  <1>2. StackInv /\ [TaskNext]_taskVars => StackInv'
    BY TaskAssumption, StackNext
  <1>3. StackInv => OneCompletionPerStack
    <2> SUFFICES ASSUME StackInv PROVE OneCompletionPerStack
      OBVIOUS
    <2>1. Len(completed) <= 1
      <3>1. \A r : Len(<<r>>) = 1
        OBVIOUS
      <3>2. CASE completed = <<>>
        BY <3>2
      <3>3. CASE completed # <<>>
        <4>1. PICK r : completed = <<r>>
          BY <3>3 DEF StackInv, Got
        <4>2. QED BY <4>1, <3>1
      <3>4. QED BY <3>2, <3>3
    <2>2. QED
      BY <2>1, TaskAssumption DEF StackInv, OneCompletionPerStack, Tasks, Fresh, TaskAssumption
  <1>4. QED BY <1>1, <1>2, <1>3, PTL DEF TaskSpec

(***************************************************************************)
(* Generator.  A program has one walk, found in rounds that its levels and *)
(* lengths bound.  Between two items the coroutines on the stack are those *)
(* that prev_ leads to, each nested by the last item of the one below, and *)
(* there is, for each of them, a list of what comes after its end: what    *)
(* the consumer has read, followed by what is still to come, is the walk.  *)
(***************************************************************************)

Spots == Gens \X (1..Longest + 1)
Flats == [values : Seq(Gens \X Nat), threw : BOOLEAN]

\* A program, by its parts.
Program(b, c) == IsProgram([body |-> b, catches |-> c])

\* Item i of g is a generator that g nests.
Nests(b, g, i) == i \in 1..Len(b[g]) /\ b[g][i] \in Gens

\* level falls from each generator to those it nests.
Falls(b, level) ==
    /\ level \in [Gens -> 0..Levels]
    /\ \A g \in Gens, i \in Nat : Nests(b, g, i) => level[b[g][i]] < level[g]

\* The parts of a program are typed, each generator is nested by one item at most,
\* the root by none, and levels fall.
LEMMA ProgramIs ==
    ASSUME NEW b, NEW c, Program(b, c)
    PROVE  /\ b \in [Gens -> Seq(Gens \cup {"yield", "throw"})]
           /\ c \in [Gens -> BOOLEAN]
           /\ \A g \in Gens : Len(b[g]) \in Nat /\ Len(b[g]) <= Longest
           /\ \A g, h \in Gens, i, j \in Nat :
                 Nests(b, g, i) /\ Nests(b, h, j) /\ b[g][i] = b[h][j] => g = h /\ i = j
           /\ \A g \in Gens, i \in Nat : Nests(b, g, i) => b[g][i] # Root
           /\ \E level : Falls(b, level)
  <1> DEFINE p == [body |-> b, catches |-> c]
             Items == {x \in Gens \X (1..Longest) : x[2] \in DOMAIN p.body[x[1]]}
             Nested(x) == p.body[x[1]][x[2]]
  <1> HIDE DEF p
  <1>0. p.body = b /\ p.catches = c /\ IsProgram(p)
    BY DEF Program, p
  <1>1. /\ b \in [Gens -> Seq(Gens \cup {"yield", "throw"})]
        /\ c \in [Gens -> BOOLEAN]
        /\ \A g \in Gens : Len(b[g]) <= Longest
        /\ \A x, y \in Items : Nested(x) \in Gens /\ Nested(x) = Nested(y) => x = y
        /\ \E level \in [Gens -> 0..Levels] :
              \A x \in Items : Nested(x) \in Gens => level[Nested(x)] < level[x[1]]
        /\ \A x \in Items : Nested(x) # Root
    BY <1>0 DEF IsProgram
  <1>2. \A g \in Gens : Len(b[g]) \in Nat /\ DOMAIN b[g] = 1..Len(b[g])
    <2>1. \A g \in Gens : b[g] \in Seq(Gens \cup {"yield", "throw"})
      BY <1>1
    <2>2. QED BY <2>1, LenProperties
  <1>3. ASSUME NEW g \in Gens, NEW i \in Nat, Nests(b, g, i)
        PROVE  <<g, i>> \in Items /\ Nested(<<g, i>>) = b[g][i] /\ b[g][i] \in Gens
    <2>1. i \in 1..Len(b[g]) /\ b[g][i] \in Gens
      BY <1>3 DEF Nests
    <2>2. i \in 1..Longest /\ i \in DOMAIN b[g]
      BY <1>1, <1>2, <2>1, GeneratorAssumption
    <2>3. QED BY <1>0, <2>1, <2>2
  <1> HIDE DEF Items, Nested
  <1>4. ASSUME NEW g \in Gens, NEW h \in Gens, NEW i \in Nat, NEW j \in Nat,
               Nests(b, g, i), Nests(b, h, j), b[g][i] = b[h][j]
        PROVE  g = h /\ i = j
    <2>1. <<g, i>> \in Items /\ Nested(<<g, i>>) = b[g][i] /\ b[g][i] \in Gens
      BY <1>3, <1>4
    <2>2. <<h, j>> \in Items /\ Nested(<<h, j>>) = b[h][j]
      BY <1>3, <1>4
    <2>3. <<g, i>> = <<h, j>>
      BY <1>1, <1>4, <2>1, <2>2
    <2>4. QED BY <2>3
  <1>5. ASSUME NEW g \in Gens, NEW i \in Nat, Nests(b, g, i) PROVE b[g][i] # Root
    BY <1>1, <1>3, <1>5
  <1>6. PICK level \in [Gens -> 0..Levels] :
            \A x \in Items : Nested(x) \in Gens => level[Nested(x)] < level[x[1]]
    BY <1>1
  <1>7. Falls(b, level)
    <2>1. ASSUME NEW g \in Gens, NEW i \in Nat, Nests(b, g, i) PROVE level[b[g][i]] < level[g]
      <3>1. level[Nested(<<g, i>>)] < level[<<g, i>>[1]]
        BY <1>3, <1>6, <2>1
      <3>2. QED BY <1>3, <2>1, <3>1
    <2>2. QED BY <1>6, <2>1 DEF Falls
  <1>8. QED BY <1>1, <1>2, <1>4, <1>5, <1>7

\* What ValuesFrom yields, where from is known at the spots it looks at.
LEMMA FromIs ==
    ASSUME NEW b, NEW c, Program(b, c), NEW f \in [Spots -> Flats], NEW x \in Spots
    PROVE  ValuesFrom(b, c, f, x[1], x[2]) \in Flats
  <1> DEFINE g == x[1]
             i == x[2]
  <1>1. /\ g \in Gens /\ i \in 1..Longest + 1 /\ i \in Nat /\ Longest \in Nat
        /\ Len(b[g]) \in Nat /\ Len(b[g]) <= Longest /\ c[g] \in BOOLEAN
        /\ b[g] \in Seq(Gens \cup {"yield", "throw"})
    BY ProgramIs, GeneratorAssumption DEF Spots
  <1>2. CASE i > Len(b[g])
    BY <1>2 DEF ValuesFrom, Flats
  <1>3. CASE ~(i > Len(b[g]))
    <2>1. <<g, i + 1>> \in Spots /\ <<g, i>> \in Gens \X Nat /\ b[g][i] \in Gens \cup {"yield", "throw"}
      BY <1>1, <1>3 DEF Spots
    <2>2. f[<<g, i + 1>>] \in Flats
      BY <2>1
    <2>3. CASE b[g][i] = "throw"
      BY <1>3, <2>3 DEF ValuesFrom, Flats
    <2>4. CASE b[g][i] # "throw" /\ b[g][i] = "yield"
      <3>1. <<<<g, i>>>> \in Seq(Gens \X Nat)
        BY <2>1
      <3>2. ValuesFrom(b, c, f, g, i) = [values |-> <<<<g, i>>>> \o f[<<g, i + 1>>].values,
                                         threw |-> f[<<g, i + 1>>].threw]
        BY <1>3, <2>4 DEF ValuesFrom
      <3>3. QED BY <2>2, <3>1, <3>2 DEF Flats
    <2>5. CASE b[g][i] # "throw" /\ b[g][i] # "yield"
      <3>1. <<b[g][i], 1>> \in Spots
        BY <1>1, <2>1, <2>5 DEF Spots
      <3>2. f[<<b[g][i], 1>>] \in Flats
        BY <3>1
      <3>3. QED BY <1>3, <2>2, <2>5, <3>2 DEF ValuesFrom, Flats
    <2>6. QED BY <2>3, <2>4, <2>5
  <1>4. QED BY <1>2, <1>3

\* The spots that the values from x are made of.
After(x) == <<x[1], x[2] + 1>>
Into(b, x) == <<b[x[1]][x[2]], 1>>

\* The values from x depend on those two spots alone.
LEMMA FromSame ==
    ASSUME NEW b, NEW c, Program(b, c), NEW f, NEW h, NEW x \in Spots,
           x[2] <= Len(b[x[1]]) => f[After(x)] = h[After(x)],
           Nests(b, x[1], x[2]) => f[Into(b, x)] = h[Into(b, x)]
    PROVE  ValuesFrom(b, c, f, x[1], x[2]) = ValuesFrom(b, c, h, x[1], x[2])
  <1> DEFINE g == x[1]
             i == x[2]
  <1>1. /\ g \in Gens /\ i \in 1..Longest + 1 /\ i \in Nat /\ Len(b[g]) \in Nat
        /\ b[g] \in Seq(Gens \cup {"yield", "throw"})
    BY ProgramIs, GeneratorAssumption DEF Spots
  <1>2. CASE i > Len(b[g])
    BY <1>2 DEF ValuesFrom
  <1>3. CASE i <= Len(b[g])
    <2>1. f[<<g, i + 1>>] = h[<<g, i + 1>>] /\ b[g][i] \in Gens \cup {"yield", "throw"} /\ i \in 1..Len(b[g])
      BY <1>1, <1>3 DEF After
    <2>2. CASE b[g][i] \in {"throw", "yield"}
      BY <1>1, <1>3, <2>1, <2>2 DEF ValuesFrom
    <2>3. CASE b[g][i] \notin {"throw", "yield"}
      <3>1. f[<<b[g][i], 1>>] = h[<<b[g][i], 1>>]
        BY <2>1, <2>3 DEF Nests, Into
      <3>2. QED BY <1>1, <1>3, <2>1, <2>3, <3>1 DEF ValuesFrom
    <2>4. QED BY <2>2, <2>3
  <1>4. QED BY <1>1, <1>2, <1>3

\* A lower level outweighs any number of items.
LEMMA LowerIsLess ==
    ASSUME NEW k \in Nat, NEW a \in Nat, NEW l \in Nat, a < l
    PROVE  a * k + k <= l * k /\ a * k \in Nat /\ l * k \in Nat
  <1>1. l = a + 1 + (l - a - 1) /\ l - a - 1 \in Nat
    OBVIOUS
  <1> DEFINE e == l - a - 1
  <1>2. e \in Nat /\ l = a + 1 + e
    BY <1>1
  <1> HIDE DEF e
  <1>3. (a + 1 + e) * k = a * k + k + e * k /\ e * k \in Nat /\ a * k \in Nat
    BY <1>2, Z3T(30)
  <1>4. QED BY <1>2, <1>3

\* left[x] bounds how many items a walk from x can come to.
Counts(b, left, most) ==
    /\ most \in Nat /\ left \in [Spots -> 1..most]
    /\ \A x \in Spots :
          /\ x[2] <= Len(b[x[1]]) => After(x) \in Spots /\ left[After(x)] < left[x]
          /\ Nests(b, x[1], x[2]) => Into(b, x) \in Spots /\ left[Into(b, x)] < left[x]

\* What is nested is lower, and a body has at most Longest items.
LEMMA CountsExist ==
    ASSUME NEW b, NEW c, Program(b, c)
    PROVE  \E left, most : Counts(b, left, most)
  <1> DEFINE K == Longest + 2
  <1>1. PICK level : Falls(b, level)
    BY ProgramIs
  <1> DEFINE most == Levels * K + K
             up(x) == level[x[1]] * K
             left == [x \in Spots |-> up(x) + (K - x[2])]
  <1>2. /\ K \in Nat /\ Longest \in Nat /\ Levels \in Nat /\ level \in [Gens -> 0..Levels]
        /\ Levels * K \in Nat /\ most \in Nat
    BY <1>1, GeneratorAssumption DEF Falls
  <1>3. ASSUME NEW x \in Spots
        PROVE  /\ x[1] \in Gens /\ x[2] \in 1..Longest + 1 /\ level[x[1]] \in 0..Levels
               /\ up(x) \in Nat /\ up(x) <= Levels * K
    <2>1. x[1] \in Gens /\ x[2] \in 1..Longest + 1
      BY DEF Spots
    <2>2. level[x[1]] \in 0..Levels
      BY <1>2, <2>1
    <2> DEFINE l == level[x[1]]
    <2> HIDE DEF l, K
    <2>3. l \in Nat /\ l <= Levels
      BY <1>2, <2>2 DEF l
    <2>4. l * K \in Nat /\ l * K <= Levels * K
      <3>1. CASE l = Levels
        BY <1>2, <3>1
      <3>2. CASE l < Levels
        <4>1. l * K + K <= Levels * K /\ l * K \in Nat
          BY <1>2, <2>3, <3>2, LowerIsLess
        <4>2. QED BY <1>2, <4>1
      <3>3. QED BY <1>2, <2>3, <3>1, <3>2
    <2>5. QED BY <2>1, <2>2, <2>4 DEF l
  <1> HIDE DEF up
  <1>4. ASSUME NEW x \in Spots PROVE up(x) + (K - x[2]) \in 1..most
    <2>1. /\ up(x) \in Nat /\ up(x) <= Levels * K /\ x[2] \in 1..Longest + 1
      BY <1>3
    <2> DEFINE z == Levels * K
    <2>2. z \in Nat /\ up(x) <= z
      BY <1>2, <2>1
    <2> HIDE DEF z
    <2>3. up(x) + (K - x[2]) >= 1 /\ up(x) + (K - x[2]) <= z + K /\ up(x) + (K - x[2]) \in Nat
      BY <1>2, <2>1, <2>2
    <2>4. QED BY <1>2, <2>3 DEF z
  <1> HIDE DEF most
  <1>5. left \in [Spots -> 1..most]
    BY <1>4
  <1>6. ASSUME NEW x \in Spots, x[2] <= Len(b[x[1]])
        PROVE  After(x) \in Spots /\ left[After(x)] < left[x]
    <2>1. /\ x[1] \in Gens /\ x[2] \in 1..Longest + 1 /\ up(x) \in Nat
          /\ Len(b[x[1]]) \in Nat /\ Len(b[x[1]]) <= Longest
      <3>1. x[1] \in Gens /\ x[2] \in 1..Longest + 1 /\ up(x) \in Nat
        BY <1>3
      <3>2. QED BY <3>1, ProgramIs
    <2>2. After(x) \in Spots /\ After(x)[1] = x[1] /\ After(x)[2] = x[2] + 1
      BY <1>2, <1>6, <2>1 DEF Spots, After
    <2>3. left[After(x)] = up(x) + (K - (x[2] + 1)) /\ left[x] = up(x) + (K - x[2])
      BY <2>2 DEF up
    <2>4. QED BY <1>2, <2>1, <2>2, <2>3
  <1>7. ASSUME NEW x \in Spots, Nests(b, x[1], x[2])
        PROVE  Into(b, x) \in Spots /\ left[Into(b, x)] < left[x]
    <2> DEFINE n == b[x[1]][x[2]]
    <2>1. /\ x[1] \in Gens /\ x[2] \in 1..Longest + 1 /\ x[2] \in Nat /\ up(x) \in Nat
          /\ level[x[1]] \in 0..Levels
      BY <1>2, <1>3
    <2>2. n \in Gens /\ level[n] < level[x[1]]
      BY <1>1, <1>7, <2>1 DEF Falls, Nests
    <2>3. Into(b, x) \in Spots /\ Into(b, x)[1] = n /\ Into(b, x)[2] = 1
      BY <1>2, <2>2 DEF Spots, Into
    <2>4. left[Into(b, x)] = up(Into(b, x)) + (K - 1) /\ left[x] = up(x) + (K - x[2])
      BY <2>3
    <2>5. up(Into(b, x)) \in Nat /\ up(Into(b, x)) + K <= up(x)
      <3> DEFINE p == level[n]
                 q == level[x[1]]
      <3>1. p \in Nat /\ q \in Nat /\ p < q /\ K \in Nat
        <4>1. level[n] \in 0..Levels
          BY <1>2, <2>2
        <4>2. QED BY <1>2, <2>1, <2>2, <4>1
      <3> HIDE DEF p, q, K
      <3>2. p * K + K <= q * K /\ p * K \in Nat
        BY <3>1, LowerIsLess
      <3>3. up(x) = q * K /\ up(Into(b, x)) = p * K
        BY <2>3 DEF up, p, q
      <3>4. QED BY <3>2, <3>3
    <2>6. QED BY <1>2, <2>1, <2>3, <2>4, <2>5
  <1> HIDE DEF left
  <1>8. Counts(b, left, most)
    BY <1>2, <1>5, <1>6, <1>7 DEF Counts
  <1>9. QED BY <1>8

\* w is the walk of a program: what the equations of Walk ask for.
IsWalk(b, c, w) == w = [x \in Spots |-> ValuesFrom(b, c, w, x[1], x[2])]

\* f and h agree at x when they do wherever fewer items are left.
LEMMA SameHere ==
    ASSUME NEW b, NEW c, Program(b, c), NEW left, NEW most, Counts(b, left, most),
           NEW f, NEW h, NEW x \in Spots,
           \A y \in Spots : left[y] < left[x] => f[y] = h[y]
    PROVE  ValuesFrom(b, c, f, x[1], x[2]) = ValuesFrom(b, c, h, x[1], x[2])
  <1>1. x[2] <= Len(b[x[1]]) => f[After(x)] = h[After(x)]
    BY DEF Counts
  <1>2. Nests(b, x[1], x[2]) => f[Into(b, x)] = h[Into(b, x)]
    BY DEF Counts
  <1>3. QED BY <1>1, <1>2, FromSame

\* There is a walk.  A guess is improved at every spot at once; after k rounds it
\* is right wherever no more than k items are left.
LEMMA WalkExists ==
    ASSUME NEW b, NEW c, Program(b, c)
    PROVE  \E w \in [Spots -> Flats] : IsWalk(b, c, w)
  <1> DEFINE X == [Spots -> Flats]
             better(f) == [x \in Spots |-> ValuesFrom(b, c, f, x[1], x[2])]
             step == [y \in Nat \X X |-> better(y[2])]
             guess == [x \in Spots |-> [values |-> <<>>, threw |-> FALSE]]
  <1>1. PICK left, most : Counts(b, left, most)
    BY CountsExist
  <1>2. most \in Nat /\ left \in [Spots -> 1..most]
    BY <1>1 DEF Counts
  <1>3. guess \in X
    BY DEF Flats
  <1>4. ASSUME NEW f \in X PROVE better(f) \in X
    <2>1. \A x \in Spots : ValuesFrom(b, c, f, x[1], x[2]) \in Flats
      BY FromIs
    <2>2. QED BY <2>1
  <1>5. step \in [Nat \X X -> X]
    <2> HIDE DEF better, X
    <2>1. QED BY <1>4
  <1>6. PICK f : Loops(f, X, guess, step, most + 1)
    <2> DEFINE n == most + 1
    <2>1. n \in Nat
      BY <1>2
    <2> HIDE DEF X, guess, step, n
    <2>2. \E f : Loops(f, X, guess, step, n)
      BY <1>3, <1>5, <2>1, Rounds
    <2>3. QED BY <2>2 DEF n
  <1>7. ASSUME NEW k \in 0..most PROVE f[k] \in X /\ f[k + 1] = better(f[k])
    <2>1. k \in 0..most + 1 /\ k + 1 \in 1..most + 1 /\ (k + 1) - 1 = k /\ k + 1 \in Nat
      BY <1>2
    <2> HIDE DEF better, X
    <2>2. f[k] \in X
      BY <1>6, <2>1 DEF Loops
    <2>3. f[k + 1] = step[<<k + 1, f[(k + 1) - 1]>>]
      BY <1>6, <2>1 DEF Loops
    <2>4. <<k + 1, f[k]>> \in Nat \X X
      BY <2>1, <2>2
    <2>5. QED BY <2>1, <2>2, <2>3, <2>4
  <1> DEFINE right(k) == \A x \in Spots : left[x] <= k => f[k][x] = f[k + 1][x]
             wrong == {k \in 0..most : ~right(k)}
  <1>8. wrong = {}
    <2> SUFFICES ASSUME wrong # {} PROVE FALSE
      OBVIOUS
    <2>1. wrong \in SUBSET Nat
      BY <1>2
    <2>2. PICK k \in wrong : \A l \in wrong : k <= l
      <3> HIDE DEF wrong
      <3>1. QED BY <2>1, LeastNumber
    <2>3. k \in 0..most /\ ~right(k) /\ k \in Nat
      BY <1>2
    <2>4. k # 0
      <3>1. \A x \in Spots : left[x] \in Nat /\ ~(left[x] <= 0)
        BY <1>2
      <3>2. QED BY <2>3, <3>1
    <2>5. k - 1 \in 0..most /\ k - 1 + 1 = k /\ right(k - 1)
      <3>1. k - 1 \in 0..most /\ k - 1 + 1 = k /\ ~(k <= k - 1)
        BY <1>2, <2>3, <2>4
      <3> HIDE DEF right
      <3>2. QED BY <2>2, <3>1
    <2>6. PICK x \in Spots : left[x] <= k /\ f[k][x] # f[k + 1][x]
      BY <2>3
    <2>7. /\ f[k] = better(f[k - 1])
          /\ f[k + 1] = better(f[k])
      <3> HIDE DEF better, right, wrong
      <3>1. QED BY <1>7, <2>3, <2>5
    <2>8. /\ f[k][x] = ValuesFrom(b, c, f[k - 1], x[1], x[2])
          /\ f[k + 1][x] = ValuesFrom(b, c, f[k], x[1], x[2])
      BY <2>7
    <2>9. ASSUME NEW y \in Spots, left[y] < left[x] PROVE f[k - 1][y] = f[k][y]
      <3>1. left[y] \in Nat /\ left[x] \in Nat
        BY <1>2
      <3>2. left[y] <= k - 1
        BY <2>3, <2>6, <2>9, <3>1
      <3>3. QED BY <2>5, <3>2
    <2> HIDE DEF right, wrong, better
    <2>10. ValuesFrom(b, c, f[k - 1], x[1], x[2]) = ValuesFrom(b, c, f[k], x[1], x[2])
      BY <1>1, <2>9, SameHere
    <2>11. QED BY <2>6, <2>8, <2>10
  <1>9. most \in 0..most
    BY <1>2
  <1>10. f[most] \in X /\ f[most + 1] = better(f[most])
    BY <1>7, <1>9
  <1>11. \A x \in Spots : f[most][x] = f[most + 1][x]
    <2>1. right(most)
      <3> HIDE DEF right
      <3>1. QED BY <1>8, <1>9
    <2>2. \A x \in Spots : left[x] <= most
      BY <1>2
    <2>3. QED BY <2>1, <2>2
  <1>12. IsWalk(b, c, f[most])
    BY <1>10, <1>11 DEF IsWalk
  <1>13. QED BY <1>10, <1>12

\* And only one.
LEMMA WalkUnique ==
    ASSUME NEW b, NEW c, Program(b, c), NEW v, NEW w, IsWalk(b, c, v), IsWalk(b, c, w)
    PROVE  v = w
  <1>1. PICK left, most : Counts(b, left, most)
    BY CountsExist
  <1>2. left \in [Spots -> 1..most] /\ most \in Nat
    BY <1>1 DEF Counts
  <1>3. ASSUME NEW x \in Spots, v[x] # w[x] PROVE FALSE
    <2> DEFINE wrong == {left[y] : y \in {z \in Spots : v[z] # w[z]}}
    <2>1. wrong \in SUBSET Nat /\ wrong # {}
      BY <1>2, <1>3
    <2>2. PICK k \in wrong : \A l \in wrong : k <= l
      <3> HIDE DEF wrong
      <3>1. QED BY <2>1, LeastNumber
    <2>3. PICK y \in Spots : left[y] = k /\ v[y] # w[y]
      OBVIOUS
    <2>4. ASSUME NEW z \in Spots, left[z] < left[y] PROVE v[z] = w[z]
      <3>1. left[z] \in Nat /\ left[y] \in Nat /\ ~(left[y] <= left[z])
        BY <1>2, <2>4
      <3>2. left[z] \notin wrong
        <4> HIDE DEF wrong
        <4>1. QED BY <2>2, <2>3, <3>1
      <3>3. QED BY <3>2
    <2> HIDE DEF wrong
    <2>5. ValuesFrom(b, c, v, y[1], y[2]) = ValuesFrom(b, c, w, y[1], y[2])
      BY <1>1, <2>4, SameHere
    <2>6. v[y] = ValuesFrom(b, c, v, y[1], y[2]) /\ w[y] = ValuesFrom(b, c, w, y[1], y[2])
      BY DEF IsWalk
    <2>7. QED BY <2>3, <2>5, <2>6
  <1>4. /\ v = [x \in Spots |-> ValuesFrom(b, c, v, x[1], x[2])]
        /\ w = [x \in Spots |-> ValuesFrom(b, c, w, x[1], x[2])]
    BY DEF IsWalk
  <1>5. v = [x \in Spots |-> v[x]] /\ w = [x \in Spots |-> w[x]]
    BY <1>4
  <1>6. QED BY <1>3, <1>5

\* Walk(b, c) is one, and its value at each spot is what the item says.
LEMMA WalkIs ==
    ASSUME NEW b, NEW c, Program(b, c)
    PROVE  /\ Walk(b, c) \in [Spots -> Flats]
           /\ \A x \in Spots : Walk(b, c)[x] = ValuesFrom(b, c, Walk(b, c), x[1], x[2])
  <1> DEFINE W == CHOOSE w : IsWalk(b, c, w)
  <1>1. Walk(b, c) = W
    BY DEF Walk, IsWalk, Spots
  <1>2. PICK w \in [Spots -> Flats] : IsWalk(b, c, w)
    BY WalkExists
  <1>3. IsWalk(b, c, W)
    BY <1>2
  <1> HIDE DEF W
  <1>4. W = w
    BY <1>2, <1>3, WalkUnique
  <1>5. W \in [Spots -> Flats] /\ \A x \in Spots : W[x] = ValuesFrom(b, c, W, x[1], x[2])
    BY <1>2, <1>3, <1>4 DEF IsWalk
  <1>6. QED BY <1>1, <1>5

\* What a walk comes to at an item, by what the item is.
LEMMA WalkAt ==
    ASSUME NEW b, NEW c, Program(b, c), NEW g \in Gens, NEW i \in 1..Longest + 1
    PROVE  LET w == Walk(b, c)
           IN  /\ w[<<g, i>>] \in Flats
               /\ i > Len(b[g]) => w[<<g, i>>] = [values |-> <<>>, threw |-> FALSE]
               /\ i <= Len(b[g]) /\ b[g][i] = "throw" =>
                     w[<<g, i>>] = [values |-> <<>>, threw |-> TRUE]
               /\ i <= Len(b[g]) /\ b[g][i] = "yield" =>
                     /\ w[<<g, i + 1>>] \in Flats
                     /\ w[<<g, i>>] = [values |-> <<<<g, i>>>> \o w[<<g, i + 1>>].values,
                                       threw |-> w[<<g, i + 1>>].threw]
               /\ Nests(b, g, i) =>
                     LET inner == w[<<b[g][i], 1>>]
                         rest == w[<<g, i + 1>>]
                     IN  /\ inner \in Flats /\ rest \in Flats
                         /\ w[<<g, i>>] = IF inner.threw /\ ~c[g] THEN inner
                                          ELSE [values |-> inner.values \o rest.values,
                                                threw |-> rest.threw]
  <1> DEFINE w == Walk(b, c)
             x == <<g, i>>
  <1>1. w \in [Spots -> Flats] /\ \A y \in Spots : w[y] = ValuesFrom(b, c, w, y[1], y[2])
    BY WalkIs
  <1> HIDE DEF w
  <1>2. x \in Spots /\ i \in Nat /\ Longest \in Nat
    BY GeneratorAssumption DEF Spots
  <1>3. w[x] = ValuesFrom(b, c, w, g, i) /\ w[x] \in Flats
    BY <1>1, <1>2
  <1>4. Len(b[g]) \in Nat /\ Len(b[g]) <= Longest
    BY ProgramIs
  <1>5. i > Len(b[g]) => w[x] = [values |-> <<>>, threw |-> FALSE]
    BY <1>3 DEF ValuesFrom
  <1>6. i <= Len(b[g]) => w[<<g, i + 1>>] \in Flats
    <2>1. i <= Len(b[g]) => <<g, i + 1>> \in Spots
      BY <1>2, <1>4 DEF Spots
    <2>2. QED BY <1>1, <2>1
  <1>7. i <= Len(b[g]) => ~(i > Len(b[g]))
    BY <1>2, <1>4
  <1>8. i <= Len(b[g]) /\ b[g][i] = "throw" => w[x] = [values |-> <<>>, threw |-> TRUE]
    BY <1>3, <1>7 DEF ValuesFrom
  <1>9. i <= Len(b[g]) /\ b[g][i] = "yield" =>
            w[x] = [values |-> <<<<g, i>>>> \o w[<<g, i + 1>>].values,
                    threw |-> w[<<g, i + 1>>].threw]
    BY <1>3, <1>7 DEF ValuesFrom
  <1>10. ASSUME Nests(b, g, i)
         PROVE  LET inner == w[<<b[g][i], 1>>]
                    rest == w[<<g, i + 1>>]
                IN  /\ inner \in Flats /\ rest \in Flats
                    /\ w[<<g, i>>] = IF inner.threw /\ ~c[g] THEN inner
                                     ELSE [values |-> inner.values \o rest.values,
                                           threw |-> rest.threw]
    <2>1. b[g][i] \in Gens /\ i <= Len(b[g])
      BY <1>2, <1>4, <1>10 DEF Nests
    <2>2. b[g][i] # "throw" /\ b[g][i] # "yield"
      BY <2>1, GeneratorAssumption
    <2>3. w[<<b[g][i], 1>>] \in Flats
      <3>1. <<b[g][i], 1>> \in Spots
        BY <1>2, <2>1 DEF Spots
      <3>2. QED BY <1>1, <3>1
    <2>4. QED BY <1>3, <1>6, <1>7, <2>1, <2>2, <2>3 DEF ValuesFrom
  <1>11. QED BY <1>3, <1>5, <1>6, <1>8, <1>9, <1>10 DEF w

\* r, and then what follows an end like that of r.
Then(r, a) == [values |-> r.values \o a[r.threw].values, threw |-> a[r.threw].threw]

\* What is still to come in the iteration when g is resumed at its item i, with an
\* exception or without; after[g] is what comes when g has ended, with one or without.
Comes(w, c, i, after, g, error) ==
    IF error /\ ~c[g] THEN after[g][TRUE] ELSE Then(w[<<g, i>>], after[g])

Coming(after, g, error) == Comes(Walk(body, catches), catches, ip[g], after, g, error)

Endings == [BOOLEAN -> Flats]

\* What comes first and then one of two ends is a list of values with an end.
LEMMA ThenFlat ==
    ASSUME NEW r \in Flats, NEW a \in Endings PROVE Then(r, a) \in Flats
  <1>1. r.threw \in BOOLEAN /\ r.values \in Seq(Gens \X Nat)
    BY DEF Flats
  <1>2. a[r.threw] \in Flats
    BY <1>1 DEF Endings
  <1>3. a[r.threw].values \in Seq(Gens \X Nat) /\ a[r.threw].threw \in BOOLEAN
    BY <1>2 DEF Flats
  <1>4. r.values \o a[r.threw].values \in Seq(Gens \X Nat)
    BY <1>1, <1>3, ConcatProperties
  <1>5. QED BY <1>3, <1>4 DEF Then, Flats

\* Put behind u, the values of r and those that follow r are those that follow u and r.
Behind(u, r) == [values |-> u \o r.values, threw |-> r.threw]

\* Values in front stay in front of what comes after.
LEMMA ThenBehind ==
    ASSUME NEW u \in Seq(Gens \X Nat), NEW r \in Flats, NEW a \in Endings
    PROVE  Behind(u, r) \in Flats /\ Then(Behind(u, r), a) = Behind(u, Then(r, a))
  <1>1. r.threw \in BOOLEAN /\ r.values \in Seq(Gens \X Nat)
    BY DEF Flats
  <1>2. a[r.threw] \in Flats
    BY <1>1 DEF Endings
  <1>3. a[r.threw].values \in Seq(Gens \X Nat)
    BY <1>2 DEF Flats
  <1>4. (u \o r.values) \o a[r.threw].values = u \o (r.values \o a[r.threw].values)
    <2> DEFINE S == Gens \X Nat
               s == r.values
               t == a[r.threw].values
    <2>1. u \in Seq(S) /\ s \in Seq(S) /\ t \in Seq(S)
      BY <1>1, <1>3
    <2> HIDE DEF S, s, t
    <2>2. (u \o s) \o t = u \o (s \o t)
      BY <2>1, ConcatAssociative
    <2>3. QED BY <2>2 DEF s, t
  <1>5. u \o r.values \in Seq(Gens \X Nat)
    BY <1>1, ConcatProperties
  <1>6. QED BY <1>1, <1>4, <1>5 DEF Then, Behind, Flats

\* Values in front of values in front.
LEMMA BehindBoth ==
    ASSUME NEW u \in Seq(Gens \X Nat), NEW v \in Seq(Gens \X Nat), NEW r \in Flats
    PROVE  Behind(u, Behind(v, r)) = Behind(u \o v, r)
  <1>1. r.values \in Seq(Gens \X Nat)
    BY DEF Flats
  <1>2. (u \o v) \o r.values = u \o (v \o r.values)
    <2> DEFINE S == Gens \X Nat
               s == r.values
    <2>1. u \in Seq(S) /\ v \in Seq(S) /\ s \in Seq(S)
      BY <1>1
    <2> HIDE DEF S, s
    <2>2. (u \o v) \o s = u \o (v \o s)
      BY <2>1, ConcatAssociative
    <2>3. QED BY <2>2 DEF s
  <1>3. QED BY <1>2 DEF Behind

\* Nothing in front changes nothing.
LEMMA ThenNothing ==
    ASSUME NEW a \in Endings, NEW e \in BOOLEAN
    PROVE  Then([values |-> <<>>, threw |-> e], a) = a[e]
  <1>1. a[e] \in Flats
    BY DEF Endings
  <1>2. a[e].values \in Seq(Gens \X Nat) /\ a[e] = [values |-> a[e].values, threw |-> a[e].threw]
    BY <1>1 DEF Flats
  <1>3. <<>> \o a[e].values = a[e].values
    BY <1>2, ConcatEmptySeq
  <1>4. QED BY <1>2, <1>3 DEF Then

Iterations == {"new", "iterating", "done", "destroyed"}

GeneratorTypes ==
    /\ Program(body, catches)
    /\ ip \in [Gens -> Nat \ {0}]
    /\ prev_ \in [Gens -> Gens \cup {Nobody}]
    /\ top_ \in [Gens -> Gens \cup {Nobody}]
    /\ value_or_error_ \in [Gens -> [holds : {"nothing", "value", "error"}, item : Nat]]
    /\ active \in Gens \cup {Nobody}
    /\ raised \in BOOLEAN
    /\ iteration \in Iterations
    /\ output \in Seq(Gens \X Nat)
    /\ threw \in BOOLEAN

\* n was nested: the item that does it lies behind.
Opened(n) == \E g \in Gens, i \in Nat : i < ip[g] /\ Nests(body, g, i) /\ body[g][i] = n

\* What was never resumed is as it was made.
FreshInv ==
    \A n \in Gens \ {Root} : ip[n] # 1 \/ value_or_error_[n].holds = "error" => Opened(n)

\* S is the stack of coroutines and t its top: all of them know it, and each but
\* the root was nested by the last item of the one below it.
OnStack(S, t) ==
    /\ S \subseteq Gens /\ Root \in S /\ t \in S /\ prev_[Root] = Nobody
    /\ \A h \in S : top_[h] = t
    /\ \A h \in S \ {Root} :
          LET p == prev_[h]
              i == ip[p] - 1
          IN  p \in S \ {t} /\ i \in Nat /\ Nests(body, p, i) /\ body[p][i] = h
    /\ \A h \in S \ {t} : \E u \in S : prev_[u] = h
    /\ \A h \in S : ip[h] \in 1..Len(body[h]) + 1 /\ value_or_error_[h].holds # "error"

\* What comes after the end of each coroutine on the stack.
Ends(S, after) ==
    /\ after \in [Gens -> Endings]
    /\ \A e \in BOOLEAN : after[Root][e] = [values |-> <<>>, threw |-> e]
    /\ \A h \in S \ {Root}, e \in BOOLEAN : after[h][e] = Coming(after, prev_[h], e)

\* Between two items: the output and what is still to come are what the walk yields.
Midway(S, t, after) ==
    /\ OnStack(S, t) /\ Ends(S, after)
    /\ active \in {t, Nobody} /\ (raised => active = t) /\ ~threw
    /\ Behind(output, Coming(after, t, raised)) = Flattened

GeneratorInv ==
    /\ GeneratorTypes /\ FreshInv
    /\ iteration # "iterating" => active = Nobody
    /\ iteration = "new" =>
          /\ output = <<>> /\ ~raised /\ ~threw
          /\ prev_[Root] = Nobody /\ ip[Root] = 1 /\ value_or_error_[Root].holds # "error"
    /\ iteration = "iterating" => \E S, t, after : Midway(S, t, after)
    /\ iteration = "done" => output = Flattened.values /\ threw = Flattened.threw
    /\ iteration = "destroyed" =>
          \E n \in 0..Len(Flattened.values) : output = SubSeq(Flattened.values, 1, n)

\* A body is a sequence, and its items are what they are.
LEMMA ItemIs ==
    ASSUME GeneratorTypes, NEW g \in Gens, ip[g] \in 1..Len(body[g]) + 1
    PROVE  /\ Len(body[g]) \in Nat /\ Len(body[g]) <= Longest /\ ip[g] \in 1..Longest + 1
           /\ Item(g) = "return" => ip[g] > Len(body[g])
           /\ Item(g) \in {"yield", "throw"} => ip[g] <= Len(body[g]) /\ body[g][ip[g]] = Item(g)
           /\ Item(g) \in Gens => Nests(body, g, ip[g]) /\ ip[g] <= Len(body[g]) /\ body[g][ip[g]] = Item(g)
  <1>1. body \in [Gens -> Seq(Gens \cup {"yield", "throw"})] /\ Len(body[g]) \in Nat /\ Len(body[g]) <= Longest
    BY ProgramIs DEF GeneratorTypes
  <1>2. ip[g] \in 1..Longest + 1 /\ ip[g] \in Nat /\ ip[g] >= 1
    BY <1>1, GeneratorAssumption
  <1>3. ip[g] <= Len(body[g]) => body[g][ip[g]] \in Gens \cup {"yield", "throw"}
    <2> DEFINE A == Gens \cup {"yield", "throw"}
               s == body[g]
    <2>1. s \in Seq(A)
      BY <1>1
    <2> HIDE DEF A, s
    <2>2. \A i \in 1..Len(s) : s[i] \in A
      BY <2>1, ElementOfSeq
    <2>3. QED BY <1>1, <1>2, <2>2 DEF A, s
  <1>4. ip[g] <= Len(body[g]) => Item(g) = body[g][ip[g]] /\ Item(g) # "return"
    BY <1>3, GeneratorAssumption DEF Item
  <1>5. ~(ip[g] <= Len(body[g])) => Item(g) = "return" /\ Item(g) \notin Gens
    BY GeneratorAssumption DEF Item
  <1>6. Item(g) \in Gens => Nests(body, g, ip[g])
    BY <1>1, <1>2, <1>4, <1>5 DEF Nests
  <1>7. QED BY <1>1, <1>2, <1>4, <1>5, <1>6

\* Below(t) is S, when prev leads from t through all of S and nowhere else.
LEMMA BelowIs ==
    ASSUME GeneratorTypes, NEW level, Falls(body, level), NEW S \in SUBSET Gens, NEW t \in S,
           \A h \in S : prev_[h] \in S \cup {Nobody},
           \A h \in S : prev_[h] # Nobody => level[h] < level[prev_[h]],
           \A h \in S \ {t} : \E u \in S : prev_[u] = h
    PROVE  Below(t) = S
  <1>1. level \in [Gens -> 0..Levels] /\ Levels \in Nat /\ Nobody \notin Gens
    BY GeneratorAssumption DEF Falls
  <1>2. Below(t) \subseteq S
    BY DEF Below
  <1>3. ASSUME NEW C \in SUBSET Gens, t \in C, \A s \in C : prev_[s] \in C \cup {Nobody},
               NEW h \in S, h \notin C
        PROVE  FALSE
    <2> DEFINE ls == {level[x] : x \in S \ C}
    <2>1. ls \in SUBSET Nat /\ ls # {}
      BY <1>1, <1>3
    <2>2. PICK k \in ls : \A l \in ls : k <= l
      <3> HIDE DEF ls
      <3>1. QED BY <2>1, LeastNumber
    <2>3. PICK x \in S \ C : level[x] = k
      OBVIOUS
    <2>4. PICK u \in S : prev_[u] = x
      BY <1>3, <2>3
    <2>5. x # Nobody /\ level[u] < level[x] /\ level[u] \in Nat /\ level[x] \in Nat
      BY <1>1, <2>3, <2>4
    <2>6. u \in C
      <3>1. level[u] \notin ls
        <4> HIDE DEF ls
        <4>1. QED BY <2>2, <2>3, <2>5
      <3>2. QED BY <3>1
    <2>7. QED BY <1>3, <2>3, <2>4, <2>5, <2>6
  <1>4. S \subseteq Below(t)
    BY <1>3 DEF Below
  <1>5. QED BY <1>2, <1>4

\* What a stack is, coroutine by coroutine.
LEMMA StackIs ==
    ASSUME GeneratorTypes, NEW S, NEW t, OnStack(S, t)
    PROVE  /\ S \in SUBSET Gens /\ t \in S /\ Root \in S /\ prev_[Root] = Nobody
           /\ \A h \in S \ {Root} : /\ prev_[h] \in S /\ prev_[h] # t /\ prev_[h] # Nobody
                                    /\ ip[prev_[h]] - 1 \in Nat
                                    /\ Nests(body, prev_[h], ip[prev_[h]] - 1)
                                    /\ body[prev_[h]][ip[prev_[h]] - 1] = h
           /\ \A h, u \in S \ {Root} : prev_[h] = prev_[u] => h = u
           /\ Below(t) = S
           /\ t # Root => Below(prev_[t]) = S \ {t}
  <1>1. /\ S \in SUBSET Gens /\ t \in S /\ Root \in S /\ prev_[Root] = Nobody
        /\ \A h \in S \ {Root} : /\ prev_[h] \in S /\ prev_[h] # t
                                 /\ ip[prev_[h]] - 1 \in Nat
                                 /\ Nests(body, prev_[h], ip[prev_[h]] - 1)
                                 /\ body[prev_[h]][ip[prev_[h]] - 1] = h
        /\ \A h \in S \ {t} : \E u \in S : prev_[u] = h
    BY DEF OnStack
  <1>2. Nobody \notin S
    BY <1>1, GeneratorAssumption
  <1>3. \A h, u \in S \ {Root} : prev_[h] = prev_[u] => h = u
    BY <1>1
  <1>4. PICK level : Falls(body, level)
    BY ProgramIs DEF GeneratorTypes
  <1>5. \A h \in S : prev_[h] \in S \cup {Nobody}
    BY <1>1
  <1>6. ASSUME NEW h \in S, prev_[h] # Nobody PROVE level[h] < level[prev_[h]]
    <2>1. h \in S \ {Root}
      BY <1>1, <1>6
    <2>2. QED BY <1>1, <1>4, <2>1 DEF Falls
  <1>7. Below(t) = S
    BY <1>1, <1>4, <1>5, <1>6, BelowIs
  <1>8. ASSUME t # Root PROVE Below(prev_[t]) = S \ {t}
    <2> DEFINE p == prev_[t]
               U == S \ {t}
    <2>1. p \in U /\ U \in SUBSET Gens
      BY <1>1, <1>8
    <2>2. \A h \in U : prev_[h] \in U \cup {Nobody}
      BY <1>1
    <2>3. \A h \in U : prev_[h] # Nobody => level[h] < level[prev_[h]]
      BY <1>6
    <2>4. \A h \in U \ {p} : \E u \in U : prev_[u] = h
      BY <1>1
    <2> HIDE DEF U, p
    <2>5. Below(p) = U
      BY <1>4, <2>1, <2>2, <2>3, <2>4, BelowIs
    <2>6. QED BY <2>5 DEF U, p
  <1>9. QED BY <1>1, <1>2, <1>3, <1>7, <1>8

\* What is still to come is some values and an end.
LEMMA ComingFlat ==
    ASSUME GeneratorTypes, NEW g \in Gens, ip[g] \in 1..Len(body[g]) + 1,
           NEW after \in [Gens -> Endings], NEW e \in BOOLEAN
    PROVE  Coming(after, g, e) \in Flats
  <1>1. after[g] \in Endings /\ after[g][TRUE] \in Flats
    BY DEF Endings
  <1>2. Walk(body, catches)[<<g, ip[g]>>] \in Flats
    <2>1. ip[g] \in 1..Longest + 1
      BY ItemIs
    <2>2. QED BY <2>1, WalkAt DEF GeneratorTypes
  <1>3. Then(Walk(body, catches)[<<g, ip[g]>>], after[g]) \in Flats
    BY <1>1, <1>2, ThenFlat
  <1>4. QED BY <1>1, <1>3 DEF Coming, Comes

\* Nothing is nested twice, and what lies behind stays there.
LEMMA OpenedStays ==
    ASSUME GeneratorTypes, body' = body, NEW n, Opened(n),
           \A g \in Gens : ip'[g] \in Nat /\ ip[g] <= ip'[g]
    PROVE  Opened(n)'
  <1>1. PICK g \in Gens, i \in Nat : i < ip[g] /\ Nests(body, g, i) /\ body[g][i] = n
    BY DEF Opened
  <1>2. ip[g] \in Nat /\ ip'[g] \in Nat /\ ip[g] <= ip'[g]
    BY DEF GeneratorTypes
  <1>3. i < ip'[g]
    BY <1>1, <1>2
  <1>4. Nests(body', g, i) /\ body'[g][i] = n
    BY <1>1
  <1>5. QED BY <1>3, <1>4 DEF Opened

\* A step of the top leaves the others as they were.
LEMMA FreshStays ==
    ASSUME GeneratorTypes, FreshInv, NEW S, NEW t, OnStack(S, t), body' = body,
           \A g \in Gens \ {t} : ip'[g] = ip[g] /\ value_or_error_'[g] = value_or_error_[g],
           ip'[t] \in Nat, ip[t] <= ip'[t]
    PROVE  FreshInv'
  <1>1. \A g \in Gens : ip'[g] \in Nat /\ ip[g] <= ip'[g]
    <2>1. \A g \in Gens : ip[g] \in Nat
      BY DEF GeneratorTypes
    <2>2. ASSUME NEW g \in Gens PROVE ip'[g] \in Nat /\ ip[g] <= ip'[g]
      <3>1. CASE g = t
        BY <3>1
      <3>2. CASE g # t
        BY <2>1, <3>2
      <3>3. QED BY <3>1, <3>2
    <2>3. QED BY <2>2
  <1>2. ASSUME t # Root PROVE Opened(t)
    <2>1. /\ t \in S \ {Root} /\ prev_[t] \in Gens
          /\ ip[prev_[t]] - 1 \in Nat /\ Nests(body, prev_[t], ip[prev_[t]] - 1)
          /\ body[prev_[t]][ip[prev_[t]] - 1] = t
      BY <1>2, StackIs
    <2>2. ip[prev_[t]] - 1 < ip[prev_[t]]
      BY <2>1 DEF GeneratorTypes
    <2>3. QED BY <2>1, <2>2 DEF Opened
  <1>3. ASSUME NEW n \in Gens \ {Root}, ip'[n] # 1 \/ value_or_error_'[n].holds = "error"
        PROVE  Opened(n)'
    <2>1. Opened(n)
      <3>1. CASE n = t
        BY <1>2, <3>1
      <3>2. CASE n # t
        BY <1>3, <3>2 DEF FreshInv
      <3>3. QED BY <3>1, <3>2
    <2>2. QED BY <1>1, <2>1, OpenedStays
  <1>4. QED BY <1>3 DEF FreshInv

\* What the consumer has read is a part of what there is to read.
FrontOf(u, s) == \E n \in 0..Len(s) : u = SubSeq(s, 1, n)

\* A sequence is a front of itself with more behind it.
LEMMA FrontIsPrefix ==
    ASSUME NEW S, NEW u \in Seq(S), NEW v \in Seq(S)
    PROVE  FrontOf(u, u \o v)
  <1> DEFINE s == u \o v
             n == Len(u)
  <1>1. /\ n \in Nat /\ Len(v) \in Nat /\ s \in Seq(S) /\ Len(s) = n + Len(v)
        /\ \A i \in 1..n + Len(v) : s[i] = IF i <= n THEN u[i] ELSE v[i - n]
    BY ConcatProperties
  <1> HIDE DEF s
  <1>2. \A i \in 1..n : s[i] \in S
    BY <1>1, ElementOfSeq
  <1>3. /\ SubSeq(s, 1, n) \in Seq(S)
        /\ Len(SubSeq(s, 1, n)) = IF 1 <= n THEN n - 1 + 1 ELSE 0
        /\ \A i \in 1..n - 1 + 1 : SubSeq(s, 1, n)[i] = s[1 + i - 1]
    <2>1. 1 \in Int /\ n \in Int
      BY <1>1
    <2> HIDE DEF n
    <2>2. QED BY <1>2, <2>1, SubSeqProperties
  <1>4. Len(SubSeq(s, 1, n)) = n
    BY <1>1, <1>3
  <1>5. \A i \in 1..n : SubSeq(s, 1, n)[i] = u[i]
    <2> SUFFICES ASSUME NEW i \in 1..n PROVE SubSeq(s, 1, n)[i] = u[i]
      OBVIOUS
    <2>1. i \in 1..n - 1 + 1 /\ 1 + i - 1 = i /\ i \in 1..n + Len(v) /\ i <= n
      BY <1>1
    <2>2. QED BY <1>1, <1>3, <2>1
  <1>6. u = SubSeq(s, 1, n)
    <2> DEFINE q == SubSeq(s, 1, n)
    <2>1. q \in Seq(S) /\ Len(u) = Len(q) /\ \A i \in 1..Len(u) : u[i] = q[i]
      BY <1>3, <1>4, <1>5
    <2> HIDE DEF q, n
    <2>2. u = q
      BY <2>1, SeqEqual
    <2>3. QED BY <2>2 DEF q
  <1>7. n \in 0..Len(s)
    BY <1>1
  <1> HIDE DEF n
  <1>8. QED BY <1>6, <1>7 DEF FrontOf, s

\* What is put in front of values is a front of the result.
LEMMA ReadIsPrefix ==
    ASSUME NEW u \in Seq(Gens \X Nat), NEW r \in Flats
    PROVE  FrontOf(u, Behind(u, r).values)
  <1> DEFINE S == Gens \X Nat
             v == r.values
  <1>1. v \in Seq(S) /\ u \in Seq(S) /\ Behind(u, r).values = u \o v
    BY DEF Flats, Behind
  <1> HIDE DEF S, v
  <1>2. QED BY <1>1, FrontIsPrefix

\* When nothing follows, the walk of the rest is all that comes.
LEMMA ThenEnd ==
    ASSUME NEW r \in Flats, NEW a, \A e \in BOOLEAN : a[e] = [values |-> <<>>, threw |-> e]
    PROVE  Then(r, a) = r /\ Behind(<<>>, r) = r
  <1>1. /\ r.threw \in BOOLEAN /\ r.values \in Seq(Gens \X Nat)
        /\ r = [values |-> r.values, threw |-> r.threw]
    BY DEF Flats
  <1>2. r.values \o <<>> = r.values /\ <<>> \o r.values = r.values
    BY <1>1, ConcatEmptySeq
  <1>3. a[r.threw].values = <<>> /\ a[r.threw].threw = r.threw
    <2> DEFINE e == r.threw
    <2>1. e \in BOOLEAN
      BY <1>1
    <2> HIDE DEF e
    <2>2. a[e] = [values |-> <<>>, threw |-> e]
      BY <2>1
    <2>3. QED BY <2>2 DEF e
  <1>4. Then(r, a) = [values |-> r.values, threw |-> r.threw]
    BY <1>2, <1>3 DEF Then
  <1>5. Behind(<<>>, r) = [values |-> r.values, threw |-> r.threw]
    BY <1>2 DEF Behind
  <1>6. QED BY <1>1, <1>4, <1>5

\* The walk of the root is a list of values with an end.
LEMMA FlattenedIs == ASSUME GeneratorTypes PROVE Flattened \in Flats
  <1>1. Root \in Gens /\ 1 \in 1..Longest + 1
    BY GeneratorAssumption
  <1>2. Walk(body, catches) \in [Spots -> Flats]
    <2>1. Program(body, catches)
      BY DEF GeneratorTypes
    <2>2. QED BY <2>1, WalkIs
  <1>3. <<Root, 1>> \in Spots
    BY <1>1 DEF Spots
  <1>4. QED BY <1>2, <1>3 DEF Flattened

\* The walk depends on the program alone.
LEMMA SameWalk ==
    ASSUME body' = body, catches' = catches
    PROVE  Flattened' = Flattened /\ Walk(body, catches)' = Walk(body, catches)
  BY DEF Flattened

\* Begin: the root is the stack.
LEMMA BeginKeeps ==
    ASSUME GeneratorInv, Begin
    PROVE  GeneratorInv'
  <1> DEFINE after == [g \in Gens |-> [e \in BOOLEAN |-> [values |-> <<>>, threw |-> e]]]
  <1>1. /\ GeneratorTypes /\ FreshInv /\ Root \in Gens /\ output = <<>> /\ ~raised /\ ~threw
        /\ prev_[Root] = Nobody /\ ip[Root] = 1 /\ value_or_error_[Root].holds # "error"
    BY GeneratorAssumption DEF GeneratorInv, Begin
  <1>2. /\ top_' = [top_ EXCEPT ![Root] = Root] /\ active' = Root /\ iteration' = "iterating"
        /\ UNCHANGED <<body, catches, ip, prev_, value_or_error_, raised, output, threw>>
    BY DEF Begin
  <1>3. GeneratorTypes'
    BY <1>1, <1>2 DEF GeneratorTypes, Iterations
  <1>4. FreshInv'
    BY <1>1, <1>2 DEF FreshInv, Opened
  <1>5. Len(body[Root]) \in Nat
    BY <1>1, ProgramIs DEF GeneratorTypes
  <1>6. OnStack({Root}, Root)'
    BY <1>1, <1>2, <1>5 DEF OnStack, GeneratorTypes
  <1>7. after \in [Gens -> Endings]
    BY DEF Endings, Flats
  <1>8. Ends({Root}, after)'
    BY <1>1, <1>7 DEF Ends
  <1>9. Coming(after, Root, raised)' = Flattened
    <2>1. \A e \in BOOLEAN : after[Root][e] = [values |-> <<>>, threw |-> e]
      BY <1>1
    <2>2. Flattened \in Flats
      BY <1>1, FlattenedIs
    <2> HIDE DEF after
    <2>3. Then(Flattened, after[Root]) = Flattened
      BY <2>1, <2>2, ThenEnd
    <2>4. Coming(after, Root, raised)' = Then(Walk(body, catches)[<<Root, 1>>], after[Root])
      BY <1>1, <1>2 DEF Coming, Comes
    <2>5. QED BY <2>3, <2>4 DEF Flattened
  <1>10. Behind(output', Flattened) = Flattened
    <2>1. Flattened \in Flats
      BY <1>1, FlattenedIs
    <2> DEFINE a == [e \in BOOLEAN |-> [values |-> <<>>, threw |-> e]]
    <2>2. \A e \in BOOLEAN : a[e] = [values |-> <<>>, threw |-> e]
      OBVIOUS
    <2> HIDE DEF a
    <2>3. Behind(<<>>, Flattened) = Flattened
      BY <2>1, <2>2, ThenEnd
    <2>4. QED BY <1>1, <1>2, <2>3
  <1>11. Flattened' = Flattened
    BY <1>2, SameWalk
  <1> HIDE DEF after
  <1>12. Midway({Root}, Root, after)'
    BY <1>1, <1>2, <1>6, <1>8, <1>9, <1>10, <1>11 DEF Midway
  <1>13. QED BY <1>2, <1>3, <1>4, <1>12 DEF GeneratorInv

\* Advance: the top is resumed.
LEMMA AdvanceKeeps ==
    ASSUME GeneratorInv, Advance
    PROVE  GeneratorInv'
  <1>1. GeneratorTypes /\ FreshInv /\ Root \in Gens /\ iteration = "iterating"
    BY GeneratorAssumption DEF GeneratorInv, Advance
  <1>2. /\ active' = top_[Root] /\ iteration' = "iterating"
        /\ UNCHANGED <<body, catches, ip, prev_, top_, value_or_error_, raised, output, threw>>
    BY <1>1 DEF Advance
  <1>3. PICK S, t, after : Midway(S, t, after)
    BY <1>1 DEF GeneratorInv
  <1>4. active' = t /\ t \in Gens
    BY <1>2, <1>3 DEF Midway, OnStack
  <1>5. GeneratorTypes'
    BY <1>1, <1>2, <1>4 DEF GeneratorTypes, Iterations
  <1>6. FreshInv'
    BY <1>1, <1>2 DEF FreshInv, Opened
  <1>7. OnStack(S, t)'
    BY <1>2, <1>3 DEF Midway, OnStack
  <1>8. \A g, e : Coming(after, g, e)' = Coming(after, g, e)
    BY <1>2 DEF Coming
  <1>9. Ends(S, after)'
    BY <1>2, <1>3, <1>8 DEF Midway, Ends
  <1>10. Flattened' = Flattened
    BY <1>2, SameWalk
  <1>11. Midway(S, t, after)'
    BY <1>2, <1>3, <1>4, <1>7, <1>8, <1>9, <1>10 DEF Midway
  <1>12. QED BY <1>2, <1>5, <1>6, <1>11 DEF GeneratorInv

\* Halfway, what has been read is a prefix of what there is.
LEMMA MidwayIsPrefix ==
    ASSUME GeneratorTypes, NEW S, NEW t, NEW after, Midway(S, t, after)
    PROVE  FrontOf(output, Flattened.values)
  <1> DEFINE r == Coming(after, t, raised)
  <1>1. t \in Gens /\ ip[t] \in 1..Len(body[t]) + 1 /\ after \in [Gens -> Endings] /\ raised \in BOOLEAN
    BY DEF Midway, OnStack, Ends, GeneratorTypes
  <1>2. r \in Flats /\ output \in Seq(Gens \X Nat)
    BY <1>1, ComingFlat DEF GeneratorTypes
  <1>3. Behind(output, r) = Flattened
    BY DEF Midway
  <1> HIDE DEF r
  <1>4. QED BY <1>2, <1>3, ReadIsPrefix

\* ValuesAreFlattened follows.
LEMMA FlattenedSays == GeneratorInv => ValuesAreFlattened
  <1> SUFFICES ASSUME GeneratorInv PROVE ValuesAreFlattened
    OBVIOUS
  <1>1. GeneratorTypes /\ Flattened.values \in Seq(Gens \X Nat)
    BY FlattenedIs DEF GeneratorInv, Flats
  <1> DEFINE s == Flattened.values
             E == Gens \X Nat
  <1>2. CASE iteration = "new"
    <2>1. 0 \in 0..Len(s) /\ SubSeq(s, 1, 0) = <<>>
      BY <1>1, SubSeqEmpty
    <2>2. QED BY <1>2, <2>1 DEF GeneratorInv, ValuesAreFlattened
  <1>3. CASE iteration = "iterating"
    <2>1. FrontOf(output, s)
      BY <1>1, <1>3, MidwayIsPrefix DEF GeneratorInv
    <2>2. QED BY <1>3, <2>1 DEF ValuesAreFlattened, FrontOf
  <1>4. CASE iteration = "done"
    <2>1. s \in Seq(E)
      BY <1>1
    <2> HIDE DEF s, E
    <2>2. Len(s) \in 0..Len(s) /\ SubSeq(s, 1, Len(s)) = s
      BY <2>1, SubSeqFull
    <2>3. output = s /\ threw = Flattened.threw
      BY <1>4 DEF GeneratorInv, s
    <2>4. QED BY <2>2, <2>3 DEF ValuesAreFlattened, s
  <1>5. CASE iteration = "destroyed"
    BY <1>5 DEF GeneratorInv, ValuesAreFlattened
  <1>6. QED BY <1>1, <1>2, <1>3, <1>4, <1>5 DEF GeneratorTypes, Iterations

\* Abandon: what was read stays read.
LEMMA AbandonKeeps ==
    ASSUME GeneratorInv, Abandon
    PROVE  GeneratorInv'
  <1>1. /\ iteration' = "destroyed" /\ active' = Nobody
        /\ UNCHANGED <<body, catches, ip, prev_, top_, value_or_error_, raised, output, threw>>
    BY DEF Abandon
  <1>2. GeneratorTypes' /\ FreshInv'
    BY <1>1 DEF GeneratorInv, GeneratorTypes, Iterations, FreshInv, Opened
  <1>3. Flattened' = Flattened
    BY <1>1, SameWalk
  <1>4. \E n \in 0..Len(Flattened.values) : output = SubSeq(Flattened.values, 1, n)
    BY FlattenedSays DEF ValuesAreFlattened
  <1>5. QED BY <1>1, <1>2, <1>3, <1>4 DEF GeneratorInv

\* YieldValue: the item's value passes from what is to come to the output.
LEMMA YieldKeeps ==
    ASSUME GeneratorInv, iteration = "iterating", NEW g \in Gens, YieldValue(g)
    PROVE  GeneratorInv'
  <1>1. GeneratorTypes /\ FreshInv
    BY DEF GeneratorInv
  <1>2. PICK S, t, after : Midway(S, t, after)
    BY DEF GeneratorInv
  <1>3. /\ active = g /\ ~raised /\ Item(g) = "yield"
        /\ value_or_error_' = [value_or_error_ EXCEPT ![g] = [holds |-> "value", item |-> ip[g]]]
        /\ ip' = [ip EXCEPT ![g] = ip[g] + 1]
        /\ active' = Nobody
        /\ output' = Append(output, <<top_[Root], value_or_error_'[top_[Root]].item>>)
        /\ UNCHANGED <<body, catches, prev_, top_, raised, iteration, threw>>
    BY DEF YieldValue
  <1>4. /\ t = g /\ OnStack(S, t) /\ Ends(S, after) /\ ~threw /\ raised = FALSE
        /\ after \in [Gens -> Endings] /\ after[g] \in Endings
        /\ Behind(output, Coming(after, t, raised)) = Flattened
        /\ ip[g] \in 1..Len(body[g]) + 1 /\ top_[Root] = g
    <2>1. t = g /\ raised = FALSE
      BY <1>1, <1>2, <1>3, GeneratorAssumption DEF Midway, GeneratorTypes
    <2>2. /\ OnStack(S, t) /\ Ends(S, after) /\ ~threw
          /\ Behind(output, Coming(after, t, raised)) = Flattened
      BY <1>2 DEF Midway
    <2>3. after \in [Gens -> Endings] /\ after[g] \in Endings
      BY <2>2 DEF Ends
    <2>4. ip[g] \in 1..Len(body[g]) + 1 /\ top_[Root] = g
      BY <2>1, <2>2 DEF OnStack
    <2>5. QED BY <2>1, <2>2, <2>3, <2>4
  <1>5. /\ ip[g] <= Len(body[g]) /\ body[g][ip[g]] = "yield" /\ Len(body[g]) \in Nat
        /\ ip[g] \in 1..Longest + 1 /\ ip[g] \in Nat
    BY <1>1, <1>3, <1>4, ItemIs
  <1>6. ip'[g] = ip[g] + 1 /\ \A h \in Gens \ {g} : ip'[h] = ip[h]
    BY <1>1, <1>3 DEF GeneratorTypes
  <1> DEFINE x == <<g, ip[g]>>
             w == Walk(body, catches)
             r == w[<<g, ip[g] + 1>>]
             E == Gens \X Nat
  <1>7. output' = Append(output, x) /\ x \in E /\ output \in Seq(E)
    BY <1>1, <1>3, <1>4, <1>5 DEF GeneratorTypes
  <1>8. output' = output \o <<x>> /\ output' \in Seq(E) /\ <<x>> \in Seq(E)
    <2>1. output' = output \o <<x>>
      <3> HIDE DEF x, E
      <3>1. QED BY <1>7, AppendIsConcat
    <2>2. output' \in Seq(E)
      <3> HIDE DEF x, E
      <3>1. QED BY <1>7, AppendProperties
    <2>3. <<x>> \in Seq(E)
      <3> HIDE DEF x, E
      <3>1. QED BY <1>7
    <2>4. QED BY <2>1, <2>2, <2>3
  <1>9. GeneratorTypes'
    <2>1. value_or_error_' \in [Gens -> [holds : {"nothing", "value", "error"}, item : Nat]]
      BY <1>1, <1>3, <1>5 DEF GeneratorTypes
    <2>2. ip' \in [Gens -> Nat \ {0}]
      BY <1>1, <1>3, <1>5 DEF GeneratorTypes
    <2>3. QED BY <1>1, <1>3, <1>8, <2>1, <2>2 DEF GeneratorTypes
  <1>10. FreshInv'
    <2>1. \A h \in Gens \ {t} : ip'[h] = ip[h] /\ value_or_error_'[h] = value_or_error_[h]
      BY <1>1, <1>3, <1>4, <1>6 DEF GeneratorTypes
    <2>2. ip'[t] \in Nat /\ ip[t] <= ip'[t]
      BY <1>4, <1>5, <1>6
    <2>3. QED BY <1>1, <1>3, <1>4, <2>1, <2>2, FreshStays
  <1>11. OnStack(S, t)'
    <2>1. \A h \in S \ {Root} : prev_[h] \in S \ {t} /\ prev_[h] \in Gens /\ ip'[prev_[h]] = ip[prev_[h]]
      BY <1>4, <1>6 DEF OnStack
    <2>2. \A h \in S : ip'[h] \in 1..Len(body[h]) + 1
      <3>1. ip'[t] \in 1..Len(body[t]) + 1
        BY <1>4, <1>5, <1>6
      <3>2. QED BY <1>4, <1>6, <3>1 DEF OnStack
    <2>3. \A h \in S : value_or_error_'[h].holds # "error"
      BY <1>1, <1>3, <1>4 DEF OnStack, GeneratorTypes
    <2>4. QED BY <1>3, <1>4, <2>1, <2>2, <2>3 DEF OnStack
  <1>12. Ends(S, after)'
    <2>1. \A h \in S \ {Root} : prev_'[h] = prev_[h] /\ ip'[prev_[h]] = ip[prev_[h]]
      BY <1>3, <1>4, <1>6 DEF OnStack
    <2>2. QED BY <1>3, <1>4, <2>1 DEF Ends, Coming
  <1>13. r \in Flats /\ w[<<g, ip[g]>>] = Behind(<<x>>, r)
    BY <1>1, <1>5, WalkAt DEF GeneratorTypes, Behind
  <1>14. Coming(after, t, raised) = Then(Behind(<<x>>, r), after[g])
    BY <1>4, <1>13 DEF Coming, Comes
  <1>15. Coming(after, t, raised)' = Then(r, after[g])
    BY <1>3, <1>4, <1>6 DEF Coming, Comes
  <1> HIDE DEF x, r, w, E
  <1>16. Then(Behind(<<x>>, r), after[g]) = Behind(<<x>>, Then(r, after[g]))
    BY <1>4, <1>8, <1>13, ThenBehind DEF E
  <1>17. Then(r, after[g]) \in Flats
    BY <1>4, <1>13, ThenFlat
  <1>18. Behind(output, Behind(<<x>>, Then(r, after[g]))) = Behind(output \o <<x>>, Then(r, after[g]))
    BY <1>7, <1>8, <1>17, BehindBoth DEF E
  <1>19. Behind(output, Coming(after, t, raised))' = Flattened
    BY <1>4, <1>8, <1>14, <1>15, <1>16, <1>18 DEF Behind
  <1>20. Flattened' = Flattened
    BY <1>3, SameWalk
  <1>21. Midway(S, t, after)'
    BY <1>3, <1>4, <1>11, <1>12, <1>19, <1>20 DEF Midway
  <1>22. QED BY <1>3, <1>9, <1>10, <1>21 DEF GeneratorInv

\* Catch: the exception in flight is gone, and the next item is what comes.
LEMMA CatchKeeps ==
    ASSUME GeneratorInv, iteration = "iterating", NEW g \in Gens, Catch(g)
    PROVE  GeneratorInv'
  <1>1. GeneratorTypes /\ FreshInv
    BY DEF GeneratorInv
  <1>2. PICK S, t, after : Midway(S, t, after)
    BY DEF GeneratorInv
  <1>3. /\ active = g /\ raised /\ catches[g] /\ raised' = FALSE
        /\ UNCHANGED <<body, catches, ip, prev_, top_, value_or_error_, active, iteration,
                       output, threw>>
    BY DEF Catch
  <1>4. GeneratorTypes' /\ FreshInv'
    BY <1>1, <1>3 DEF GeneratorTypes, FreshInv, Opened
  <1>5. t = g
    BY <1>1, <1>2, <1>3 DEF Midway
  <1>6. Coming(after, t, raised)' = Coming(after, t, raised)
    BY <1>3, <1>5 DEF Coming, Comes
  <1>7. \A h, e : Coming(after, h, e)' = Coming(after, h, e)
    BY <1>3 DEF Coming
  <1>8. OnStack(S, t)' /\ Ends(S, after)'
    BY <1>2, <1>3, <1>7 DEF Midway, OnStack, Ends
  <1>9. Flattened' = Flattened
    BY <1>3, SameWalk
  <1>10. Behind(output, Coming(after, t, raised))' = Behind(output, Coming(after, t, raised))
    BY <1>3, <1>6 DEF Behind
  <1>11. Midway(S, t, after)'
    BY <1>2, <1>3, <1>8, <1>9, <1>10 DEF Midway
  <1>12. QED BY <1>3, <1>4, <1>11 DEF GeneratorInv

\* The top ends, with an exception or without: the one below is the top.
LEMMA PopKeeps ==
    ASSUME GeneratorTypes, NEW S, NEW t, NEW after, Midway(S, t, after), NEW p \in Gens, prev_[t] = p,
           NEW e \in BOOLEAN, Coming(after, t, raised) = after[t][e],
           UNCHANGED <<body, catches, prev_, output, threw>>,
           top_' = [h \in Gens |-> IF h \in Below(p) THEN p ELSE top_[h]],
           active' = p, raised' = e,
           \A h \in Gens \ {t} : ip'[h] = ip[h] /\ value_or_error_'[h] = value_or_error_[h]
    PROVE  Midway(S \ {t}, p, after)'
  <1> DEFINE U == S \ {t}
  <1>1. OnStack(S, t) /\ Ends(S, after) /\ ~threw /\ Behind(output, Coming(after, t, raised)) = Flattened
    BY DEF Midway
  <1>2. /\ S \in SUBSET Gens /\ t \in S /\ Root \in S /\ prev_[Root] = Nobody
        /\ \A h \in S \ {Root} : prev_[h] \in S /\ prev_[h] # t /\ prev_[h] # Nobody
        /\ \A h, u \in S \ {Root} : prev_[h] = prev_[u] => h = u
        /\ t # Root => Below(prev_[t]) = U
    BY <1>1, StackIs
  <1>3. t \in S \ {Root} /\ Below(p) = U /\ p \in U /\ Root \in U /\ U \subseteq Gens \ {t}
    BY <1>2, GeneratorAssumption
  <1>4. \A h \in U \ {Root} : prev_[h] \in U \ {p} /\ ip'[prev_[h]] = ip[prev_[h]]
    BY <1>2, <1>3
  <1>5. \A h \in U \ {p} : \E u \in U : prev_[u] = h
    <2>1. \A h \in S \ {t} : \E u \in S : prev_[u] = h
      BY <1>1 DEF OnStack
    <2>2. QED BY <2>1
  <1>6. \A h \in U : top_'[h] = p
    BY <1>3
  <1>7. OnStack(U, p)'
    <2>1. /\ \A h \in U \ {Root} : /\ ip[prev_[h]] - 1 \in Nat
                                   /\ Nests(body, prev_[h], ip[prev_[h]] - 1)
                                   /\ body[prev_[h]][ip[prev_[h]] - 1] = h
          /\ \A h \in U : ip[h] \in 1..Len(body[h]) + 1 /\ value_or_error_[h].holds # "error"
      BY <1>1 DEF OnStack
    <2>2. \A h \in U : ip'[h] \in 1..Len(body[h]) + 1 /\ value_or_error_'[h].holds # "error"
      BY <1>3, <2>1
    <2> HIDE DEF U
    <2>3. U \subseteq Gens /\ prev_'[Root] = Nobody /\ p \in U
      BY <1>2, <1>3
    <2>4. ASSUME NEW h \in U \ {Root}
          PROVE  /\ prev_'[h] \in U \ {p} /\ ip'[prev_'[h]] - 1 \in Nat
                 /\ Nests(body', prev_'[h], ip'[prev_'[h]] - 1)
                 /\ body'[prev_'[h]][ip'[prev_'[h]] - 1] = h
      BY <1>4, <2>1
    <2>5. \A h \in U \ {p} : \E u \in U : prev_'[u] = h
      BY <1>5
    <2>6. QED BY <1>3, <1>6, <2>2, <2>3, <2>4, <2>5 DEF OnStack
  <1>8. \A h \in U : ip'[h] = ip[h]
    BY <1>3
  <1>9. Ends(U, after)'
    BY <1>1, <1>4 DEF Ends, Coming
  <1>10. Coming(after, p, raised)' = after[t][e]
    <2>1. after[t][e] = Coming(after, p, e)
      BY <1>1, <1>3 DEF Ends
    <2>2. ip'[p] = ip[p]
      BY <1>3
    <2>3. QED BY <2>1, <2>2 DEF Coming
  <1>11. Flattened' = Flattened
    BY SameWalk
  <1>12. Behind(output, Coming(after, p, raised))' = Flattened
    BY <1>1, <1>10 DEF Behind
  <1> HIDE DEF U
  <1>13. QED BY <1>1, <1>7, <1>9, <1>11, <1>12 DEF Midway, U

\* The walk from an item that throws.
LEMMA WalkThrows ==
    ASSUME NEW b, NEW c, Program(b, c), NEW g \in Gens, NEW i \in 1..Longest + 1,
           i <= Len(b[g]), b[g][i] = "throw"
    PROVE  Walk(b, c)[<<g, i>>] = [values |-> <<>>, threw |-> TRUE]
  <1> DEFINE w == Walk(b, c)
  <1>1. w \in [Spots -> Flats] /\ \A y \in Spots : w[y] = ValuesFrom(b, c, w, y[1], y[2])
    BY WalkIs
  <1> HIDE DEF w
  <1>2. <<g, i>> \in Spots /\ i \in Nat
    BY GeneratorAssumption DEF Spots
  <1>3. w[<<g, i>>] = ValuesFrom(b, c, w, g, i)
    BY <1>1, <1>2
  <1>4. Len(b[g]) \in Nat
    BY ProgramIs
  <1>5. QED BY <1>2, <1>3, <1>4 DEF ValuesFrom, w

\* The top has come to its end: an exception, or no more items.
EndsWith(t, e) ==
    \/ raised /\ ~catches[t] /\ e = TRUE
    \/ ~raised /\ Item(t) = "throw" /\ e = TRUE
    \/ ~raised /\ Item(t) = "return" /\ e = FALSE

\* Then what is to come is what comes after its end, nothing more when it is the root.
LEMMA TopEnds ==
    ASSUME GeneratorTypes, NEW S, NEW t, NEW after, Midway(S, t, after), NEW e \in BOOLEAN,
           EndsWith(t, e)
    PROVE  /\ Coming(after, t, raised) = after[t][e]
           /\ t = Root => output = Flattened.values /\ Flattened.threw = e
  <1>1. /\ OnStack(S, t) /\ Ends(S, after) /\ Behind(output, Coming(after, t, raised)) = Flattened
        /\ after \in [Gens -> Endings] /\ t \in Gens /\ ip[t] \in 1..Len(body[t]) + 1
    BY DEF Midway, OnStack, Ends
  <1>2. after[t] \in Endings
    BY <1>1
  <1>3. Coming(after, t, raised) = after[t][e]
    <2>1. CASE raised /\ ~catches[t] /\ e = TRUE
      BY <2>1 DEF Coming, Comes
    <2>2. CASE ~raised /\ Item(t) \in {"throw", "return"} /\ (e <=> Item(t) = "throw")
      <3> DEFINE r == Walk(body, catches)[<<t, ip[t]>>]
      <3>1. r = [values |-> <<>>, threw |-> e]
        <4>1. ip[t] \in 1..Longest + 1 /\ Program(body, catches)
          BY <1>1, ItemIs DEF GeneratorTypes
        <4>2. CASE Item(t) = "throw" /\ e = TRUE
          <5>1. ip[t] <= Len(body[t]) /\ body[t][ip[t]] = "throw"
            BY <1>1, <4>2, ItemIs
          <5>2. Walk(body, catches)[<<t, ip[t]>>] = [values |-> <<>>, threw |-> TRUE]
            BY <1>1, <4>1, <5>1, WalkThrows
          <5>3. QED BY <4>2, <5>2
        <4>3. CASE Item(t) = "return" /\ e = FALSE
          BY <1>1, <4>1, <4>3, ItemIs, WalkAt
        <4>4. QED BY <2>2, <4>2, <4>3
      <3>2. Coming(after, t, raised) = Then(r, after[t])
        BY <2>2 DEF Coming, Comes
      <3> HIDE DEF r
      <3>3. Then([values |-> <<>>, threw |-> e], after[t]) = after[t][e]
        BY <1>2, ThenNothing
      <3>4. QED BY <3>1, <3>2, <3>3
    <2>3. QED BY <2>1, <2>2 DEF EndsWith
  <1>4. ASSUME t = Root PROVE output = Flattened.values /\ Flattened.threw = e
    <2>1. after[t][e] = [values |-> <<>>, threw |-> e]
      BY <1>1, <1>4 DEF Ends
    <2>2. output \o <<>> = output
      BY ConcatEmptySeq DEF GeneratorTypes
    <2>3. Flattened = [values |-> output, threw |-> e]
      BY <1>1, <1>3, <2>1, <2>2 DEF Behind
    <2>4. QED BY <2>3
  <1>5. QED BY <1>3, <1>4

\* FinalSuspend, with an exception left or without.
LEMMA SuspendKeeps ==
    ASSUME GeneratorInv, iteration = "iterating", NEW g \in Gens, NEW e \in BOOLEAN,
           active = g, EndsWith(g, e), FinalSuspend(g, e),
           UNCHANGED <<body, catches, prev_, output>>,
           ip' = ip \/ ip' = [ip EXCEPT ![g] = ip[g] + 1],
           prev_[g] = Nobody => threw' = e, prev_[g] # Nobody => threw' = threw
    PROVE  GeneratorInv'
  <1>1. GeneratorTypes /\ FreshInv
    BY DEF GeneratorInv
  <1>2. PICK S, t, after : Midway(S, t, after)
    BY DEF GeneratorInv
  <1>3. t = g /\ OnStack(S, t) /\ ~threw
    BY <1>2, GeneratorAssumption DEF Midway
  <1>4. /\ Coming(after, t, raised) = after[t][e]
        /\ t = Root => output = Flattened.values /\ Flattened.threw = e
    BY <1>1, <1>2, <1>3, TopEnds
  <1>5. value_or_error_' = IF e THEN [value_or_error_ EXCEPT ![g].holds = "error"]
                           ELSE value_or_error_
    BY DEF FinalSuspend
  <1>6. /\ value_or_error_' \in [Gens -> [holds : {"nothing", "value", "error"}, item : Nat]]
        /\ \A h \in Gens \ {g} : value_or_error_'[h] = value_or_error_[h]
        /\ (value_or_error_'[g].holds = "error") <=> e
    <2>1. value_or_error_[g].holds # "error"
      BY <1>3 DEF OnStack
    <2>2. CASE e = TRUE
      BY <1>1, <1>5, <2>2 DEF GeneratorTypes
    <2>3. CASE e = FALSE
      BY <1>1, <1>5, <2>1, <2>3 DEF GeneratorTypes
    <2>4. QED BY <2>2, <2>3
  <1>7. /\ ip' \in [Gens -> Nat \ {0}] /\ \A h \in Gens \ {g} : ip'[h] = ip[h]
        /\ ip'[g] \in Nat /\ ip[g] <= ip'[g]
    BY <1>1 DEF GeneratorTypes
  <1>8. FreshInv'
    BY <1>1, <1>3, <1>6, <1>7, FreshStays
  <1>9. Flattened' = Flattened
    BY SameWalk
  <1>10. CASE prev_[g] # Nobody
    <2> DEFINE p == prev_[g]
    <2>1. p \in Gens
      BY <1>1, <1>10 DEF GeneratorTypes
    <2>2. PICK q \in Gens : prev_[g] = q
      BY <2>1
    <2>3. /\ top_' = [h \in Gens |-> IF h \in Below(q) THEN q ELSE top_[h]]
          /\ active' = q /\ raised' = (value_or_error_'[g].holds = "error")
          /\ iteration' = iteration /\ threw' = threw
      BY <1>10, <2>2 DEF FinalSuspend
    <2>4. raised' = e
      BY <1>6, <2>3
    <2>5. GeneratorTypes'
      <3>1. top_' \in [Gens -> Gens \cup {Nobody}]
        BY <1>1, <2>3 DEF GeneratorTypes
      <3>2. QED BY <1>1, <1>6, <1>7, <2>3, <2>4, <3>1 DEF GeneratorTypes, Iterations
    <2>6. Midway(S \ {t}, q, after)'
      BY <1>1, <1>2, <1>3, <1>4, <1>6, <1>7, <2>2, <2>3, <2>4, PopKeeps
    <2>7. QED BY <1>8, <2>3, <2>5, <2>6 DEF GeneratorInv
  <1>11. CASE prev_[g] = Nobody
    <2>1. t = Root
      BY <1>1, <1>3, <1>11, StackIs
    <2>2. active' = Nobody /\ iteration' = "done" /\ UNCHANGED <<top_, raised>> /\ threw' = e
      BY <1>11 DEF FinalSuspend
    <2>3. GeneratorTypes'
      BY <1>1, <1>6, <1>7, <2>2 DEF GeneratorTypes, Iterations
    <2>4. QED BY <1>4, <1>8, <1>9, <2>1, <2>2, <2>3 DEF GeneratorInv
  <1>12. QED BY <1>10, <1>11

\* Return: the top ends without an exception.
LEMMA ReturnKeeps ==
    ASSUME GeneratorInv, iteration = "iterating", NEW g \in Gens, Return(g)
    PROVE  GeneratorInv'
  <1>1. /\ active = g /\ EndsWith(g, FALSE) /\ FinalSuspend(g, FALSE)
        /\ UNCHANGED <<body, catches, prev_, output>> /\ ip' = ip /\ threw' = threw
    BY DEF Return, EndsWith
  <1>2. threw = FALSE
    <2>1. PICK S, t, after : Midway(S, t, after)
      BY DEF GeneratorInv
    <2>2. QED BY <2>1 DEF Midway, GeneratorInv, GeneratorTypes
  <1>3. QED BY <1>1, <1>2, SuspendKeeps

\* Throw: into the variant for the coroutine below, or out of the iteration.
LEMMA ThrowKeeps ==
    ASSUME GeneratorInv, iteration = "iterating", NEW g \in Gens, Throw(g)
    PROVE  GeneratorInv'
  <1>1. /\ active = g /\ EndsWith(g, TRUE)
        /\ UNCHANGED <<body, catches, prev_, output>> /\ ip' = [ip EXCEPT ![g] = ip[g] + 1]
    BY DEF Throw, EndsWith
  <1>2. GeneratorTypes /\ FreshInv
    BY DEF GeneratorInv
  <1>3. PICK S, t, after : Midway(S, t, after)
    BY DEF GeneratorInv
  <1>4. t = g /\ OnStack(S, t) /\ top_[g] = g
    BY <1>1, <1>3, GeneratorAssumption DEF Midway, OnStack
  <1>5. CASE prev_[g] # Nobody
    <2>1. FinalSuspend(g, TRUE) /\ threw' = threw
      BY <1>4, <1>5 DEF Throw
    <2>2. QED BY <1>1, <1>5, <2>1, SuspendKeeps
  <1>6. CASE prev_[g] = Nobody
    <2>1. /\ threw' = TRUE /\ iteration' = "done" /\ active' = Nobody /\ raised' = FALSE
          /\ UNCHANGED <<value_or_error_, top_>>
      BY <1>4, <1>6 DEF Throw
    <2>2. t = Root
      BY <1>2, <1>4, <1>6, StackIs
    <2>3. output = Flattened.values /\ Flattened.threw = TRUE
      BY <1>1, <1>2, <1>3, <1>4, <2>2, TopEnds
    <2>4. /\ ip' \in [Gens -> Nat \ {0}] /\ \A h \in Gens \ {g} : ip'[h] = ip[h]
          /\ ip'[g] \in Nat /\ ip[g] <= ip'[g]
      BY <1>1, <1>2 DEF GeneratorTypes
    <2>5. FreshInv'
      BY <1>1, <1>2, <1>4, <2>1, <2>4, FreshStays
    <2>6. GeneratorTypes'
      BY <1>1, <1>2, <2>1, <2>4 DEF GeneratorTypes, Iterations
    <2>7. Flattened' = Flattened
      BY <1>1, SameWalk
    <2>8. QED BY <1>1, <2>1, <2>3, <2>5, <2>6, <2>7 DEF GeneratorInv
  <1>7. QED BY <1>5, <1>6

\* What comes after a nested generator: the rest of the one below, which catches or
\* does not.
Resumed(b, c, rest, a) ==
    \A e \in BOOLEAN : b[e] = IF e /\ ~c THEN a[TRUE] ELSE Then(rest, a)

\* What an item that nests yields.
NestedItem(item, c, inner, rest) ==
    item = IF inner.threw /\ ~c THEN inner ELSE Behind(inner.values, rest)

\* A nested generator, and then what its end leads to, is what the item yields.
LEMMA NestedValues ==
    ASSUME NEW inner \in Flats, NEW rest \in Flats, NEW a \in Endings, NEW b,
           NEW c \in BOOLEAN, Resumed(b, c, rest, a), NEW item, NestedItem(item, c, inner, rest)
    PROVE  Then(inner, b) = Then(item, a)
  <1> /\ \A e \in BOOLEAN : b[e] = IF e /\ ~c THEN a[TRUE] ELSE Then(rest, a)
      /\ item = IF inner.threw /\ ~c THEN inner ELSE Behind(inner.values, rest)
    BY DEF Resumed, NestedItem
  <1>1. inner.threw \in BOOLEAN /\ inner.values \in Seq(Gens \X Nat)
    BY DEF Flats
  <1>2. CASE inner.threw = TRUE /\ ~c
    <2>1. b[inner.threw] = a[TRUE]
      BY <1>2
    <2>2. QED BY <1>2, <2>1 DEF Then
  <1>3. CASE ~(inner.threw /\ ~c)
    <2>1. b[inner.threw] = Then(rest, a)
      <3> DEFINE e == inner.threw
      <3>1. e \in BOOLEAN /\ ~(e /\ ~c)
        BY <1>1, <1>3
      <3> HIDE DEF e
      <3>2. b[e] = Then(rest, a)
        BY <3>1
      <3>3. QED BY <3>2 DEF e
    <2>2. Then(inner, b) = Behind(inner.values, Then(rest, a))
      BY <2>1 DEF Then, Behind
    <2> DEFINE u == inner.values
    <2>3. u \in Seq(Gens \X Nat)
      BY <1>1
    <2> HIDE DEF u
    <2>4. Then(Behind(u, rest), a) = Behind(u, Then(rest, a))
      BY <2>3, ThenBehind
    <2>5. QED BY <1>3, <2>2, <2>4 DEF u
  <1>4. QED BY <1>1, <1>2, <1>3

\* The stack with n on top.
Nesting(t, n) ==
    /\ Nests(body, t, ip[t]) /\ body[t][ip[t]] = n /\ ip[t] <= Len(body[t])
    /\ ip' = [ip EXCEPT ![t] = ip[t] + 1] /\ prev_' = [prev_ EXCEPT ![n] = t]
    /\ top_' = [h \in Gens |-> IF h \in Below(t) \cup {n} THEN n ELSE top_[h]]
    /\ UNCHANGED <<body, value_or_error_>>

\* It was not on the stack, nor ever resumed, since one item only nests it.
LEMMA NestStacks ==
    ASSUME GeneratorTypes, FreshInv, NEW S, NEW t, OnStack(S, t), NEW n \in Gens, Nesting(t, n)
    PROVE  n \notin S /\ n # Root /\ ip[n] = 1 /\ OnStack(S \cup {n}, n)'
  <1> /\ Nests(body, t, ip[t]) /\ body[t][ip[t]] = n /\ ip[t] <= Len(body[t])
      /\ ip' = [ip EXCEPT ![t] = ip[t] + 1] /\ prev_' = [prev_ EXCEPT ![n] = t]
      /\ top_' = [h \in Gens |-> IF h \in Below(t) \cup {n} THEN n ELSE top_[h]]
      /\ UNCHANGED <<body, value_or_error_>>
    BY DEF Nesting
  <1>1. /\ S \in SUBSET Gens /\ t \in S /\ Root \in S /\ prev_[Root] = Nobody /\ t \in Gens
        /\ \A h \in S \ {Root} : /\ prev_[h] \in S /\ prev_[h] # t
                                 /\ ip[prev_[h]] - 1 \in Nat
                                 /\ Nests(body, prev_[h], ip[prev_[h]] - 1)
                                 /\ body[prev_[h]][ip[prev_[h]] - 1] = h
        /\ Below(t) = S
    BY StackIs
  <1>2. /\ \A h \in S \ {t} : \E u \in S : prev_[u] = h
        /\ \A h \in S : ip[h] \in 1..Len(body[h]) + 1 /\ value_or_error_[h].holds # "error"
    BY DEF OnStack
  <1>3. /\ \A g, h \in Gens, i, j \in Nat :
              Nests(body, g, i) /\ Nests(body, h, j) /\ body[g][i] = body[h][j] => g = h /\ i = j
        /\ \A g \in Gens, i \in Nat : Nests(body, g, i) => body[g][i] # Root
        /\ \A g \in Gens : Len(body[g]) \in Nat
    BY ProgramIs DEF GeneratorTypes
  <1>4. ip[t] \in Nat /\ \A h \in Gens : ip[h] \in Nat
    BY <1>1 DEF GeneratorTypes
  <1>5. n # Root
    BY <1>1, <1>3, <1>4
  <1>6. n \notin S
    <2> SUFFICES ASSUME n \in S PROVE FALSE
      OBVIOUS
    <2>1. PICK p \in Gens, i \in Nat : p # t /\ Nests(body, p, i) /\ body[p][i] = n
      BY <1>1, <1>5
    <2>2. QED BY <1>1, <1>3, <1>4, <2>1
  <1>7. ~Opened(n)
    <2> SUFFICES ASSUME NEW g \in Gens, NEW i \in Nat, i < ip[g], Nests(body, g, i), body[g][i] = n
                 PROVE  FALSE
      BY DEF Opened
    <2>1. g = t /\ i = ip[t]
      BY <1>1, <1>3, <1>4
    <2>2. QED BY <1>4, <2>1
  <1>8. ip[n] = 1 /\ value_or_error_[n].holds # "error"
    BY <1>5, <1>7 DEF FreshInv
  <1> DEFINE U == S \cup {n}
  <1>9. ip'[t] = ip[t] + 1 /\ \A h \in Gens \ {t} : ip'[h] = ip[h]
    BY <1>1 DEF GeneratorTypes
  <1>10. prev_'[n] = t /\ \A h \in Gens \ {n} : prev_'[h] = prev_[h]
    BY DEF GeneratorTypes
  <1>11. \A h \in U : top_'[h] = n
    BY <1>1
  <1>12. ASSUME NEW h \in U \ {Root}
         PROVE  /\ prev_'[h] \in U \ {n} /\ ip'[prev_'[h]] - 1 \in Nat
                /\ Nests(body, prev_'[h], ip'[prev_'[h]] - 1)
                /\ body[prev_'[h]][ip'[prev_'[h]] - 1] = h
    <2>1. CASE h = n
      <3>1. prev_'[h] = t /\ ip'[t] - 1 = ip[t]
        BY <1>4, <1>9, <1>10, <2>1
      <3>2. QED BY <1>1, <1>4, <1>6, <2>1, <3>1
    <2>2. CASE h # n
      <3>1. h \in S \ {Root} /\ prev_'[h] = prev_[h] /\ ip'[prev_[h]] = ip[prev_[h]]
        BY <1>1, <1>9, <1>10, <2>2
      <3>2. QED BY <1>1, <1>6, <3>1
    <2>3. QED BY <2>1, <2>2
  <1>13. ASSUME NEW h \in U \ {n} PROVE \E u \in U : prev_'[u] = h
    <2>1. CASE h = t
      BY <1>10, <2>1
    <2>2. CASE h # t
      <3>1. PICK u \in S : prev_[u] = h
        BY <1>2, <2>2
      <3>2. u \in U /\ prev_'[u] = h
        BY <1>1, <1>6, <1>10, <3>1
      <3>3. QED BY <3>2
    <2>3. QED BY <2>1, <2>2
  <1>14. ASSUME NEW h \in U
         PROVE  ip'[h] \in 1..Len(body[h]) + 1 /\ value_or_error_[h].holds # "error"
    <2>1. CASE h = n
      <3>1. ip'[h] = 1 /\ Len(body[h]) \in Nat
        BY <1>1, <1>3, <1>6, <1>8, <1>9, <2>1
      <3>2. QED BY <1>8, <2>1, <3>1
    <2>2. CASE h = t
      BY <1>1, <1>2, <1>3, <1>4, <1>9, <2>2
    <2>3. CASE h # n /\ h # t
      BY <1>1, <1>2, <1>9, <2>3
    <2>4. QED BY <2>1, <2>2, <2>3
  <1>15. U \subseteq Gens /\ Root \in U /\ n \in U /\ prev_'[Root] = Nobody
    BY <1>1, <1>5, <1>10, GeneratorAssumption
  <1> HIDE DEF U
  <1>16. OnStack(U, n)'
    BY <1>11, <1>12, <1>13, <1>14, <1>15 DEF OnStack
  <1>17. QED BY <1>5, <1>6, <1>8, <1>16 DEF U

\* Nest: what follows the nested generator is what followed the item.
LEMMA NestKeeps ==
    ASSUME GeneratorInv, iteration = "iterating", NEW g \in Gens, Nest(g)
    PROVE  GeneratorInv'
  <1>1. GeneratorTypes /\ FreshInv
    BY DEF GeneratorInv
  <1>2. PICK S, t, after : Midway(S, t, after)
    BY DEF GeneratorInv
  <1>3. PICK n \in Gens : n = Item(g)
    BY DEF Nest
  <1>4. /\ active = g /\ ~raised
        /\ prev_' = [prev_ EXCEPT ![n] = g] /\ top_' = Tops(g, n) /\ active' = n
        /\ ip' = [ip EXCEPT ![g] = ip[g] + 1]
        /\ UNCHANGED <<body, catches, value_or_error_, raised, iteration, output, threw>>
    BY <1>3 DEF Nest
  <1>5. t = g /\ raised = FALSE
    BY <1>1, <1>2, <1>4, GeneratorAssumption DEF Midway, GeneratorTypes
  <1>6. /\ OnStack(S, t) /\ Ends(S, after) /\ ~threw
        /\ Behind(output, Coming(after, t, raised)) = Flattened
    BY <1>2 DEF Midway
  <1>7. /\ after \in [Gens -> Endings] /\ after[t] \in Endings
        /\ ip[t] \in 1..Len(body[t]) + 1
    BY <1>5, <1>6 DEF Ends, OnStack
  <1>8. /\ Nests(body, t, ip[t]) /\ ip[t] <= Len(body[t]) /\ body[t][ip[t]] = n
        /\ ip[t] \in 1..Longest + 1 /\ Len(body[t]) \in Nat /\ Len(body[t]) <= Longest
    BY <1>1, <1>3, <1>5, <1>7, ItemIs
  <1>9. n \notin S /\ n # Root /\ ip[n] = 1 /\ OnStack(S \cup {n}, n)'
    <2>1. Nesting(t, n)
      BY <1>4, <1>5, <1>8 DEF Tops, Nesting
    <2>2. QED BY <1>1, <1>6, <2>1, NestStacks
  <1>10. ip'[t] = ip[t] + 1 /\ (\A h \in Gens \ {t} : ip'[h] = ip[h]) /\ ip[t] \in Nat
    BY <1>1, <1>4, <1>5 DEF GeneratorTypes
  <1>11. GeneratorTypes'
    <2>1. ip' \in [Gens -> Nat \ {0}]
      BY <1>1, <1>4 DEF GeneratorTypes
    <2>2. prev_' \in [Gens -> Gens \cup {Nobody}] /\ top_' \in [Gens -> Gens \cup {Nobody}]
      BY <1>1, <1>4 DEF GeneratorTypes, Tops
    <2>3. QED BY <1>1, <1>4, <2>1, <2>2 DEF GeneratorTypes
  <1>12. FreshInv'
    <2>1. ip'[t] \in Nat /\ ip[t] <= ip'[t]
      BY <1>10
    <2>2. QED BY <1>1, <1>4, <1>6, <1>10, <2>1, FreshStays
  <1> DEFINE w == Walk(body, catches)
             inner == w[<<n, 1>>]
             rest == w[<<t, ip[t] + 1>>]
             a == after[t]
             resumed == [e \in BOOLEAN |-> Comes(w, catches, ip[t] + 1, after, t, e)]
  <1>13. /\ inner \in Flats /\ rest \in Flats
         /\ w[<<t, ip[t]>>] = IF inner.threw /\ ~catches[t] THEN inner
                              ELSE Behind(inner.values, rest)
    BY <1>1, <1>5, <1>8, WalkAt DEF GeneratorTypes, Behind
  <1>14. \A e \in BOOLEAN : resumed[e] = IF e /\ ~catches[t] THEN a[TRUE] ELSE Then(rest, a)
    BY DEF Comes
  <1>15. resumed \in Endings
    <2>1. a[TRUE] \in Flats
      BY <1>7 DEF Endings
    <2>2. Then(rest, a) \in Flats
      BY <1>7, <1>13, ThenFlat
    <2>3. \A e \in BOOLEAN : resumed[e] \in Flats
      BY <1>14, <2>1, <2>2
    <2>4. QED BY <2>3 DEF Endings
  <1>16. PICK aft \in [Gens -> Endings] :
             aft[n] = resumed /\ \A h \in Gens \ {n} : aft[h] = after[h]
    <2>1. [after EXCEPT ![n] = resumed] \in [Gens -> Endings]
      BY <1>7, <1>15
    <2> HIDE DEF resumed
    <2>2. QED BY <1>7, <2>1
  <1>17. w' = w /\ catches' = catches /\ Flattened' = Flattened
    BY <1>4, SameWalk
  <1>18. t \in Gens /\ t # n /\ S \subseteq Gens /\ t \in S /\ Root \in S
    BY <1>6, <1>9 DEF OnStack
  <1>19. \A h \in Gens \ {n}, i \in Nat, e \in BOOLEAN :
             Comes(w, catches, i, aft, h, e) = Comes(w, catches, i, after, h, e)
    <2> HIDE DEF w
    <2>1. QED BY <1>16 DEF Comes
  <1>20. Coming(after, t, raised) = Then(w[<<t, ip[t]>>], a)
    BY <1>5 DEF Coming, Comes
  <1>21. Coming(aft, n, raised)' = Then(inner, resumed)
    <2>1. ip'[n] = 1
      BY <1>9, <1>10, <1>18
    <2>2. Coming(aft, n, raised)' = Comes(w', catches', ip'[n], aft, n, raised')
      BY DEF Coming
    <2> HIDE DEF resumed, w
    <2>3. Comes(w, catches, 1, aft, n, FALSE) = Then(w[<<n, 1>>], resumed)
      BY <1>16 DEF Comes
    <2>4. QED BY <1>4, <1>5, <1>17, <2>1, <2>2, <2>3
  <1>22. Then(inner, resumed) = Then(w[<<t, ip[t]>>], a)
    <2> DEFINE c == catches[t]
               item == w[<<t, ip[t]>>]
    <2>1. c \in BOOLEAN
      BY <1>1, <1>5, ProgramIs DEF GeneratorTypes
    <2>2. a \in Endings
      BY <1>7
    <2> HIDE DEF resumed, a, rest, inner
    <2>3. Resumed(resumed, c, rest, a)
      BY <1>14 DEF Resumed
    <2>4. NestedItem(item, c, inner, rest)
      BY <1>13 DEF NestedItem
    <2> HIDE DEF c, item
    <2>5. Then(inner, resumed) = Then(item, a)
      BY <1>13, <2>1, <2>2, <2>3, <2>4, NestedValues
    <2>6. QED BY <2>5 DEF item
  <1>23. Ends(S \cup {n}, aft)'
    <2>1. \A e \in BOOLEAN : aft[Root][e] = [values |-> <<>>, threw |-> e]
      BY <1>6, <1>9, <1>16, <1>18 DEF Ends
    <2>2. ASSUME NEW h \in (S \cup {n}) \ {Root}, NEW e \in BOOLEAN
          PROVE  aft[h][e] = Comes(w', catches', ip'[prev_'[h]], aft, prev_'[h], e)
      <3>1. CASE h = n
        <4>1. prev_'[h] = t
          BY <1>1, <1>4, <1>5, <3>1 DEF GeneratorTypes
        <4>2. aft[n][e] = Comes(w, catches, ip[t] + 1, after, t, e)
          BY <1>16
        <4> HIDE DEF w, resumed
        <4>3. Comes(w, catches, ip[t] + 1, aft, t, e) = Comes(w, catches, ip[t] + 1, after, t, e)
          BY <1>10, <1>18, <1>19
        <4>4. QED BY <1>10, <1>17, <3>1, <4>1, <4>2, <4>3
      <3>2. CASE h # n
        <4>1. /\ h \in S \ {Root} /\ prev_'[h] = prev_[h] /\ prev_[h] \in S \ {t}
              /\ prev_[h] \in Gens \ {n}
          BY <1>1, <1>4, <1>5, <1>6, <1>9, <1>18, <3>2 DEF GeneratorTypes, OnStack
        <4>2. ip'[prev_[h]] = ip[prev_[h]] /\ ip[prev_[h]] \in Nat
          BY <1>1, <1>10, <4>1 DEF GeneratorTypes
        <4>3. after[h][e] = Comes(w, catches, ip[prev_[h]], after, prev_[h], e)
          BY <1>6, <4>1 DEF Ends, Coming
        <4>4. aft[h] = after[h]
          BY <1>16, <1>18, <3>2, <4>1
        <4> HIDE DEF w, resumed
        <4>5. QED BY <1>17, <1>19, <4>1, <4>2, <4>3, <4>4
      <3>3. QED BY <3>1, <3>2
    <2>3. \A h \in (S \cup {n}) \ {Root}, e \in BOOLEAN :
              aft[h][e] = Comes(Walk(body, catches)', catches', ip'[prev_'[h]], aft, prev_'[h], e)
      BY <2>2
    <2>4. QED BY <1>16, <2>1, <2>3 DEF Ends, Coming
  <1>24. Behind(output, Coming(aft, n, raised))' = Flattened
    <2> HIDE DEF inner, resumed, w, a
    <2>1. Behind(output, Coming(aft, n, raised))' = Behind(output', Coming(aft, n, raised)')
      OBVIOUS
    <2>2. QED BY <1>4, <1>6, <1>20, <1>21, <1>22, <2>1
  <1> HIDE DEF inner, resumed, w, a, rest
  <1>25. Midway(S \cup {n}, n, aft)'
    BY <1>4, <1>5, <1>6, <1>9, <1>17, <1>23, <1>24 DEF Midway
  <1>26. QED BY <1>4, <1>11, <1>12, <1>25 DEF GeneratorInv

\* A generator that was just made.
LEMMA GeneratorStarts == GeneratorInit => GeneratorInv
  <1> SUFFICES ASSUME GeneratorInit PROVE GeneratorInv
    OBVIOUS
  <1>1. PICK p \in Bodies : GeneratorOf(p)
    BY DEF GeneratorInit
  <1>2. IsProgram(p)
    BY GeneratorAssumption
  <1>3. Program(body, catches)
    BY <1>1, <1>2 DEF Program, GeneratorOf, IsProgram
  <1>4. GeneratorTypes
    <2>1. /\ ip \in [Gens -> Nat \ {0}] /\ prev_ \in [Gens -> Gens \cup {Nobody}]
          /\ top_ \in [Gens -> Gens \cup {Nobody}]
      BY <1>1 DEF GeneratorOf
    <2>2. value_or_error_ \in [Gens -> [holds : {"nothing", "value", "error"}, item : Nat]]
      BY <1>1 DEF GeneratorOf
    <2>3. /\ active \in Gens \cup {Nobody} /\ raised \in BOOLEAN /\ iteration \in Iterations
          /\ threw \in BOOLEAN
      BY <1>1 DEF GeneratorOf, Iterations
    <2>4. output \in Seq(Gens \X Nat)
      BY <1>1 DEF GeneratorOf
    <2>5. QED BY <1>3, <2>1, <2>2, <2>3, <2>4 DEF GeneratorTypes
  <1>5. FreshInv
    BY <1>1 DEF GeneratorOf, FreshInv
  <1>6. QED BY <1>1, <1>4, <1>5, GeneratorAssumption DEF GeneratorOf, GeneratorInv

\* Stuttering keeps the invariant.
LEMMA GeneratorRests == GeneratorInv /\ UNCHANGED generatorVars => GeneratorInv'
  <1> SUFFICES ASSUME GeneratorInv, UNCHANGED generatorVars PROVE GeneratorInv'
    OBVIOUS
  <1>1. /\ UNCHANGED <<body, catches, ip, prev_, top_, value_or_error_, active, raised, iteration,
                      output, threw>>
        /\ Flattened' = Flattened
    BY SameWalk DEF generatorVars
  <1>2. GeneratorTypes' /\ FreshInv'
    BY <1>1 DEF GeneratorInv, GeneratorTypes, FreshInv, Opened
  <1>3. ASSUME iteration = "iterating" PROVE \E S, t, after : Midway(S, t, after)'
    <2>1. PICK S, t, after : Midway(S, t, after)
      BY <1>3 DEF GeneratorInv
    <2>2. \A h, e : Coming(after, h, e)' = Coming(after, h, e)
      BY <1>1 DEF Coming
    <2>3. Midway(S, t, after)'
      BY <1>1, <2>1, <2>2 DEF Midway, OnStack, Ends
    <2>4. QED BY <2>3
  <1>4. QED BY <1>1, <1>2, <1>3 DEF GeneratorInv

\* And so does every step.
LEMMA GeneratorKept == GeneratorInv /\ [GeneratorNext]_generatorVars => GeneratorInv'
  <1> SUFFICES ASSUME GeneratorInv, [GeneratorNext]_generatorVars PROVE GeneratorInv'
    OBVIOUS
  <1>1. CASE Begin
    BY <1>1, BeginKeeps
  <1>2. CASE Advance
    BY <1>2, AdvanceKeeps
  <1>3. CASE Abandon
    BY <1>3, AbandonKeeps
  <1>4. ASSUME NEW g \in Gens, YieldValue(g) \/ Nest(g) \/ Return(g) \/ Catch(g) \/ Throw(g)
        PROVE  GeneratorInv'
    <2>1. active = g
      BY <1>4 DEF YieldValue, Nest, Return, Catch, Throw
    <2>2. iteration = "iterating"
      BY <2>1, GeneratorAssumption DEF GeneratorInv
    <2>3. QED BY <1>4, <2>2, YieldKeeps, NestKeeps, ReturnKeeps, CatchKeeps, ThrowKeeps
  <1>5. CASE UNCHANGED generatorVars
    BY <1>5, GeneratorRests
  <1>6. QED BY <1>1, <1>2, <1>3, <1>4, <1>5 DEF GeneratorNext

\* ValuesAreFlattened, for any program of any number of generators.
THEOREM FlattenedHolds == GeneratorSpec => []ValuesAreFlattened
  <1>1. GeneratorInit => GeneratorInv
    BY GeneratorStarts
  <1>2. GeneratorInv /\ [GeneratorNext]_generatorVars => GeneratorInv'
    BY GeneratorKept
  <1>3. GeneratorInv => ValuesAreFlattened
    BY FlattenedSays
  <1>4. QED BY <1>1, <1>2, <1>3, PTL DEF GeneratorSpec

=============================================================================
