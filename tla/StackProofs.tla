---------------------------- MODULE StackProofs ----------------------------
(***************************************************************************)
(* Proofs about the two components that push onto a lock-free stack which  *)
(* is taken whole and reversed: AsyncMutex, with its tagged state word,    *)
(* and OpQueue.  Both are proved for any number of clients; both implement *)
(* a first-come order that none of their words holds.                      *)
(***************************************************************************)
EXTENDS AsyncMutex, OpQueue, ChainProofs

(***************************************************************************)
(* AsyncMutex.  Mutual exclusion rests on the tag alone, not on the shape  *)
(* of the waiting list: whoever becomes an owner either saw "not locked"   *)
(* in the same atomic step, when there is no owner, or takes over from the *)
(* owner that hands off.                                                   *)
(***************************************************************************)

\* There is at most one owner, and none while state_ says "not locked".
TagInv ==
    /\ pc \in [Clients -> Labels]
    /\ \A c \in Clients : pc[c] \in Owning => state # NotLocked
    /\ \A c, d \in Clients : pc[c] \in Owning /\ pc[d] \in Owning => c = d

\* A fresh mutex is free and nobody owns it.
LEMMA TagInit == Init => TagInv
  BY DEF Init, TagInv, Labels, Owning

\* A client that owns nothing and does not become an owner keeps the
\* invariant, whatever it does to a state that is locked before and after.
LEMMA LockedStep ==
    ASSUME TagInv, NEW c \in Clients, NEW label \in Labels,
           pc' = [pc EXCEPT ![c] = label],
           label \in Owning => pc[c] \in Owning,
           state' = NotLocked => state = NotLocked
    PROVE  TagInv'
  BY DEF TagInv

\* One step per action; only three of them let a client become an owner.
LEMMA TagNext == TagInv /\ [Next]_vars => TagInv'
  <1> SUFFICES ASSUME TagInv, [Next]_vars PROVE TagInv'
    OBVIOUS
  <1> USE MutexAssumption
  <1>1. CASE UNCHANGED vars
    BY <1>1 DEF TagInv, vars
  <1>2. ASSUME NEW c \in Clients, StartLock(c) PROVE TagInv'
    BY <1>2, LockedStep DEF StartLock, Goto, Labels, Owning
  <1>3. ASSUME NEW c \in Clients, GuessFree(c) PROVE TagInv'
    <2>1. CASE state = NotLocked
      BY <1>3, <2>1 DEF GuessFree, Goto, TagInv, Labels, Owning
    <2>2. CASE state # NotLocked
      BY <1>3, <2>2, LockedStep DEF GuessFree, Goto, Labels, Owning
    <2>3. QED BY <2>1, <2>2
  <1>4. ASSUME NEW c \in Clients, PushWaiter(c) PROVE TagInv'
    <2>1. PICK label \in {"waiting", "cas"} : pc' = [pc EXCEPT ![c] = label]
      BY <1>4 DEF PushWaiter, Goto
    <2>2. state' = NotLocked => state = NotLocked
      BY <1>4 DEF PushWaiter, Clients
    <2>3. QED BY <2>1, <2>2, LockedStep DEF Labels, Owning
  <1>5. ASSUME NEW c \in Clients, TryLock(c) PROVE TagInv'
    BY <1>5 DEF TryLock, Goto, TagInv, Labels, Owning
  <1>6. ASSUME NEW c \in Clients, Unlock(c) PROVE TagInv'
    <2>1. PICK label \in {"release", "handoff"} : pc' = [pc EXCEPT ![c] = label]
      BY <1>6 DEF Unlock, Goto
    <2>2. QED BY <1>6, <2>1, LockedStep DEF Unlock, Labels, Owning
  <1>7. ASSUME NEW c \in Clients, ReleaseLock(c) PROVE TagInv'
    <2>1. CASE state = None
      BY <1>7, <2>1 DEF ReleaseLock, Goto, TagInv, Labels, Owning
    <2>2. CASE state # None
      BY <1>7, <2>2, LockedStep DEF ReleaseLock, Goto, Labels, Owning
    <2>3. QED BY <2>1, <2>2
  <1>8. ASSUME NEW c \in Clients, TakeStack(c) PROVE TagInv'
    <2>1. pc[c] = "exchange" /\ state' = None /\ pc' = [pc EXCEPT ![c] = "handoff"]
      BY <1>8 DEF TakeStack, Goto
    <2>2. QED BY <2>1, LockedStep DEF Labels, Owning
  <1>9. ASSUME NEW c \in Clients, HandOff(c) PROVE TagInv'
    BY <1>9 DEF HandOff, TagInv, Labels, Owning
  <1>10. QED
    BY <1>1, <1>2, <1>3, <1>4, <1>5, <1>6, <1>7, <1>8, <1>9
    DEF Next, Locking, Unlocking

\* The tag tells the truth about the owner in every reachable state.
THEOREM TagInvariance == Spec => []TagInv
  BY TagInit, TagNext, PTL DEF Spec

\* lock(), try_lock() and unlock() never let two clients own the mutex.
THEOREM Exclusion == Spec => []MutualExclusion
  <1>1. TagInv => MutualExclusion
    <2> SUFFICES ASSUME TagInv PROVE Cardinality(Owners) <= 1
      BY DEF MutualExclusion
    <2>1. CASE Owners = {}
      BY <2>1, FS_EmptySet
    <2>2. CASE Owners # {}
      <3>1. PICK c \in Owners : TRUE
        BY <2>2
      <3>2. Owners = {c}
        BY <3>1 DEF TagInv, Owners
      <3>3. QED BY <3>2, FS_Singleton
    <2>3. QED BY <2>1, <2>2
  <1>2. QED BY <1>1, TagInvariance, PTL

(***************************************************************************)
(* The waiting line.  Older is the list that unlock() serves from, held in *)
(* head_ or in the hand of the client that hands off; Newer is the stack   *)
(* behind state_.  Both are chains without a common node, and together     *)
(* they hold the waiting clients.                                          *)
(***************************************************************************)

MutexTypes ==
    /\ state \in Lockers \cup {NotLocked, None}
    /\ head \in Lockers \cup {None}
    /\ next \in [Lockers -> Lockers \cup {None}]
    /\ seen \in [Clients -> Lockers \cup {None}]

\* What a client knows at its place in lock() or unlock().
PlaceInv(c) ==
    /\ pc[c] \in {"cas", "push", "waiting"} => c \in Lockers
    /\ pc[c] = "push" => next[c] = seen[c]
    /\ pc[c] \in {"release", "exchange"} => head = None
    /\ pc[c] = "exchange" => state # None
    /\ pc[c] = "handoff" => seen[c] # None

StateInv ==
    /\ state = NotLocked => head = None
    /\ state # NotLocked => \E c \in Clients : pc[c] \in Owning

LineInv ==
    /\ Leads(FirstInLine, Older, next, None)
    /\ Leads(TopOfStack, Newer, next, None)
    /\ \A i \in 1..Len(Older), j \in 1..Len(Newer) : Older[i] # Newer[j]
    /\ \A c \in Lockers : pc[c] = "waiting" <=> Holds(Older, c) \/ Holds(Newer, c)

MutexInv ==
    /\ TagInv /\ MutexTypes /\ StateInv /\ LineInv
    /\ \A c \in Clients : PlaceInv(c)

\* FirstInLine, for given values of the variables.
FirstOf(h, sn, p) ==
    LET inHand == {c \in Clients : p[c] = "handoff"}
    IN  IF inHand = {} THEN h ELSE sn[CHOOSE c \in inHand : TRUE]

LEMMA FirstIs ==
    ASSUME NEW h, NEW sn, NEW p
    PROVE  /\ (\A c \in Clients : p[c] # "handoff") => FirstOf(h, sn, p) = h
           /\ \A c \in Clients :
                 p[c] = "handoff" /\ (\A d \in Clients : p[d] = "handoff" => d = c)
                    => FirstOf(h, sn, p) = sn[c]
  <1>1. ASSUME \A c \in Clients : p[c] # "handoff" PROVE FirstOf(h, sn, p) = h
    <2>1. {c \in Clients : p[c] = "handoff"} = {}
      BY <1>1
    <2>2. QED BY <2>1 DEF FirstOf
  <1>2. ASSUME NEW c \in Clients, p[c] = "handoff",
               \A d \in Clients : p[d] = "handoff" => d = c
        PROVE  FirstOf(h, sn, p) = sn[c]
    <2>1. {d \in Clients : p[d] = "handoff"} = {c}
      BY <1>2
    <2>2. (CHOOSE d \in {c} : TRUE) = c
      OBVIOUS
    <2>3. QED BY <2>1, <2>2 DEF FirstOf
  <1>3. QED BY <1>1, <1>2

\* Whatever chains lead from the two entries after a step are Older and Newer.
LEMMA LineBecomes ==
    ASSUME MutexTypes', NEW a, NEW b,
           Leads(FirstOf(head', seen', pc'), a, next', None),
           Leads(IF state' = NotLocked THEN None ELSE state', b, next', None),
           \A i \in 1..Len(a), j \in 1..Len(b) : a[i] # b[j],
           \A c \in Lockers : pc'[c] = "waiting" <=> Holds(a, c) \/ Holds(b, c)
    PROVE  LineInv' /\ Older' = a /\ Newer' = b
  <1>1. DOMAIN next' = Lockers /\ IsFiniteSet(Lockers) /\ None \notin Lockers
    BY MutexAssumption, FS_Subset DEF MutexTypes, Clients
  <1>2. FirstInLine' = FirstOf(head', seen', pc')
    BY DEF FirstInLine, FirstOf
  <1>3. TopOfStack' = IF state' = NotLocked THEN None ELSE state'
    BY DEF TopOfStack
  <1>4. Older' = a
    <2>1. Chain(FirstInLine', next', None) = a
      BY <1>1, <1>2, ChainIs
    <2>2. QED BY <2>1 DEF Older
  <1>5. Newer' = b
    <2>1. Chain(TopOfStack', next', None) = b
      BY <1>1, <1>3, ChainIs
    <2>2. QED BY <2>1 DEF Newer
  <1>6. QED BY <1>2, <1>3, <1>4, <1>5 DEF LineInv

\* A step that changes neither entry, nor the links of who waits, nor who
\* waits, keeps the line.
LEMMA LineKept ==
    ASSUME LineInv, MutexTypes, MutexTypes',
           FirstOf(head', seen', pc') = FirstInLine,
           (IF state' = NotLocked THEN None ELSE state') = TopOfStack,
           \A c \in Lockers : pc'[c] = "waiting" <=> pc[c] = "waiting",
           \A c \in Lockers : pc[c] = "waiting" => next'[c] = next[c]
    PROVE  LineInv' /\ Older' = Older /\ Newer' = Newer
  <1>1. DOMAIN next = Lockers /\ DOMAIN next' = Lockers
    BY DEF MutexTypes
  <1>2. /\ \A i \in 1..Len(Older) : Older[i] \in Lockers /\ pc[Older[i]] = "waiting"
        /\ \A i \in 1..Len(Newer) : Newer[i] \in Lockers /\ pc[Newer[i]] = "waiting"
    <2>1. Older \in Seq(Lockers) /\ Newer \in Seq(Lockers)
      BY <1>1 DEF LineInv, Leads
    <2>2. QED BY <2>1, ElementOfSeq DEF LineInv, Holds
  <1>3. Leads(FirstInLine, Older, next', None)
    BY <1>1, <1>2, LeadsKept DEF LineInv
  <1>4. Leads(TopOfStack, Newer, next', None)
    BY <1>1, <1>2, LeadsKept DEF LineInv
  <1>5. QED BY <1>3, <1>4, LineBecomes DEF LineInv

\* A fresh mutex has no line.
LEMMA MutexInit == Init => MutexInv
  <1> SUFFICES ASSUME Init PROVE MutexInv
    OBVIOUS
  <1> USE MutexAssumption
  <1>1. TagInv
    BY TagInit
  <1>2. MutexTypes
    BY DEF Init, MutexTypes
  <1>3. StateInv
    BY DEF Init, StateInv
  <1>4. LineInv
    <2>1. FirstInLine = None /\ TopOfStack = None
      BY FirstIs DEF Init, FirstInLine, FirstOf, TopOfStack
    <2>2. Leads(None, <<>>, next, None) /\ DOMAIN next = Lockers /\ IsFiniteSet(Lockers)
      BY LeadsNowhere, FS_Subset DEF Init, Clients
    <2>3. Older = <<>> /\ Newer = <<>>
      <3>1. None \notin DOMAIN next
        BY <2>2 DEF Clients
      <3>2. Chain(None, next, None) = <<>>
        BY <2>2, <3>1, ChainIs
      <3>3. QED BY <2>1, <3>2 DEF Older, Newer
    <2>4. QED BY <2>1, <2>2, <2>3 DEF Init, LineInv, Holds, Clients
  <1>5. \A c \in Clients : PlaceInv(c)
    BY DEF Init, PlaceInv
  <1>6. QED BY <1>1, <1>2, <1>3, <1>4, <1>5 DEF MutexInv

\* Nobody starts or ends a hand-over.
LEMMA FirstKept ==
    ASSUME NEW h, NEW sn, NEW p, NEW sn1, NEW p1,
           \A d \in Clients : p1[d] = "handoff" <=> p[d] = "handoff",
           \A d \in Clients : p[d] = "handoff" => sn1[d] = sn[d]
    PROVE  FirstOf(h, sn1, p1) = FirstOf(h, sn, p)
  <1> DEFINE inHand == {d \in Clients : p[d] = "handoff"}
  <1>1. {d \in Clients : p1[d] = "handoff"} = inHand
    OBVIOUS
  <1>2. inHand # {} => (CHOOSE d \in inHand : TRUE) \in inHand
    OBVIOUS
  <1>3. QED BY <1>1, <1>2 DEF FirstOf

\* Where the line begins for the one that owns the mutex.
LEMMA OwnersFirst ==
    ASSUME TagInv, NEW c \in Clients, pc[c] \in Owning
    PROVE  /\ pc[c] = "handoff" => FirstInLine = seen[c]
           /\ pc[c] # "handoff" => FirstInLine = head
           /\ state # NotLocked /\ TopOfStack = state
           /\ \A d \in Clients \ {c} : pc[d] # "handoff"
  <1>1. \A d \in Clients : pc[d] = "handoff" => d = c
    BY DEF TagInv, Owning
  <1>2. FirstInLine = FirstOf(head, seen, pc)
    BY DEF FirstInLine, FirstOf
  <1>3. pc[c] = "handoff" => FirstInLine = seen[c]
    BY <1>1, <1>2, FirstIs
  <1>4. pc[c] # "handoff" => FirstInLine = head
    BY <1>1, <1>2, FirstIs
  <1>5. QED BY <1>1, <1>3, <1>4 DEF TagInv, TopOfStack

\* The exchanged stack, turned round, is the new list.
LEMMA StackTurns ==
    ASSUME MutexInv, NEW c \in Clients, TakeStack(c)
    PROVE  /\ Older = <<>> /\ Newer # <<>>
           /\ MutexTypes' /\ LineInv'
           /\ Older' = Reverse(Newer) /\ Newer' = <<>>
           /\ seen'[c] # None
  <1> USE MutexAssumption
  <1> DEFINE s == Newer
             y == ReversedLinks(s, next, None)
  <1>1. /\ pc[c] = "exchange" /\ head = None
        /\ state' = None /\ UNCHANGED head /\ pc' = [pc EXCEPT ![c] = "handoff"]
    BY DEF TakeStack, Goto, MutexInv, PlaceInv
  <1>2. /\ FirstInLine = None /\ TopOfStack = state /\ state # None
        /\ \A d \in Clients \ {c} : pc[d] # "handoff"
    BY <1>1, OwnersFirst DEF MutexInv, PlaceInv, Owning
  <1>3. /\ next' = y /\ seen' = [seen EXCEPT ![c] = Last(s)]
    BY <1>2 DEF TakeStack, Newer
  <1>4. Leads(state, s, next, None) /\ DOMAIN next = Lockers /\ None \notin Lockers
    BY <1>2 DEF MutexInv, LineInv, MutexTypes, Clients
  <1>5. s # <<>> /\ Older = <<>>
    <2>1. Leads(None, Older, next, None)
      BY <1>2 DEF MutexInv, LineInv
    <2>2. QED BY <1>2, <1>4, <2>1, LeadsNowhere
  <1>6. /\ Leads(Last(s), Reverse(s), y, None)
        /\ Len(Reverse(s)) = Len(s)
        /\ \A i \in 1..Len(s) : Reverse(s)[i] = s[(Len(s) - i) + 1]
    BY <1>4, <1>5, LeadsReversed
  <1>7. s \in Seq(Lockers) /\ Len(s) \in Nat \ {0} /\ \A i \in 1..Len(s) : s[i] \in Lockers
    BY <1>4, <1>5, EmptySeq, ElementOfSeq DEF Leads
  <1>8. Last(s) \in Lockers /\ Last(s) # None
    BY <1>4, <1>7 DEF Last
  <1>9. y \in [Lockers -> Lockers \cup {None}]
    <2>1. ASSUME NEW o \in Lockers PROVE y[o] \in Lockers \cup {None}
      <3>1. CASE \E i \in 1..Len(s) : s[i] = o
        <4> DEFINE k == CHOOSE j \in 1..Len(s) : s[j] = o
        <4>1. k \in 1..Len(s)
          BY <3>1
        <4>2. y[o] = IF k = 1 THEN None ELSE s[k - 1]
          BY <1>4, <3>1 DEF ReversedLinks
        <4> HIDE DEF k
        <4>3. k # 1 => k - 1 \in 1..Len(s)
          BY <1>7, <4>1
        <4>4. QED BY <1>7, <4>2, <4>3
      <3>2. CASE ~\E i \in 1..Len(s) : s[i] = o
        BY <1>4, <3>2 DEF ReversedLinks, MutexInv, MutexTypes
      <3>3. QED BY <3>1, <3>2
    <2>2. y = [o \in Lockers |-> y[o]]
      BY <1>4 DEF ReversedLinks
    <2> HIDE DEF y
    <2>3. QED BY <2>1, <2>2
  <1> HIDE DEF y, s
  <1>10. MutexTypes'
    BY <1>1, <1>3, <1>8, <1>9 DEF MutexInv, MutexTypes
  <1>11. FirstOf(head', seen', pc') = Last(s)
    <2>1. pc'[c] = "handoff" /\ seen'[c] = Last(s) /\ \A d \in Clients : pc'[d] = "handoff" => d = c
      BY <1>1, <1>2, <1>3 DEF MutexInv, TagInv, MutexTypes
    <2>2. QED BY <2>1, FirstIs
  <1>12. Leads(None, <<>>, next', None)
    BY <1>3, <1>9, LeadsNowhere DEF Clients
  <1>13. \A d \in Lockers : pc'[d] = "waiting" <=> Holds(Reverse(s), d) \/ Holds(<<>>, d)
    <2> SUFFICES ASSUME NEW d \in Lockers
                 PROVE  pc'[d] = "waiting" <=> Holds(Reverse(s), d)
      BY DEF Holds
    <2>1. pc'[d] = "waiting" <=> pc[d] = "waiting"
      BY <1>1 DEF MutexInv, TagInv, Clients
    <2>2. pc[d] = "waiting" <=> Holds(s, d)
      BY <1>5 DEF MutexInv, LineInv, Holds, s
    <2>3. Holds(s, d) <=> Holds(Reverse(s), d)
      <3>1. ASSUME NEW i \in 1..Len(s), s[i] = d PROVE Holds(Reverse(s), d)
        <4>1. (Len(s) - i) + 1 \in 1..Len(s) /\ (Len(s) - ((Len(s) - i) + 1)) + 1 = i
          BY <1>7
        <4>2. Reverse(s)[(Len(s) - i) + 1] = s[i]
          BY <1>6, <4>1
        <4>3. QED BY <1>6, <3>1, <4>1, <4>2 DEF Holds
      <3>2. ASSUME NEW i \in 1..Len(s), Reverse(s)[i] = d PROVE Holds(s, d)
        <4>1. (Len(s) - i) + 1 \in 1..Len(s)
          BY <1>7
        <4>2. QED BY <1>6, <3>2, <4>1 DEF Holds
      <3>3. QED BY <1>6, <3>1, <3>2 DEF Holds
    <2>4. QED BY <2>1, <2>2, <2>3
  <1>14. LineInv' /\ Older' = Reverse(s) /\ Newer' = <<>>
    <2>1. \A i \in 1..Len(Reverse(s)), j \in 1..Len(<<>>) : Reverse(s)[i] # <<>>[j]
      OBVIOUS
    <2>2. Leads(IF state' = NotLocked THEN None ELSE state', <<>>, next', None)
      BY <1>1, <1>12
    <2>3. Leads(FirstOf(head', seen', pc'), Reverse(s), next', None)
      BY <1>3, <1>6, <1>11
    <2>4. QED BY <1>10, <1>13, <2>1, <2>2, <2>3, LineBecomes
  <1>15. QED
    BY <1>3, <1>5, <1>8, <1>10, <1>14 DEF MutexInv, MutexTypes, s

\* A push that succeeds makes its client the newest of the line.
LEMMA PushGrows ==
    ASSUME MutexInv, NEW c \in Clients, PushWaiter(c), MutexTypes', pc'[c] = "waiting"
    PROVE  /\ LineInv' /\ c \in Lockers /\ pc[c] = "push" /\ state # NotLocked
           /\ Older' = Older /\ Newer' = <<c>> \o Newer
           /\ state' = c /\ UNCHANGED <<head, next>> /\ pc' = [pc EXCEPT ![c] = "waiting"]
  <1> USE MutexAssumption
  <1>1. /\ pc[c] = "push" /\ c \in Lockers /\ next[c] = state
        /\ state' = c /\ pc' = [pc EXCEPT ![c] = "waiting"]
        /\ seen' = [seen EXCEPT ![c] = None]
        /\ UNCHANGED <<head, next>> /\ state # NotLocked
    <2>1. pc[c] = "push" /\ seen' = [seen EXCEPT ![c] = None] /\ UNCHANGED <<head, next>>
      BY DEF PushWaiter
    <2>2. state = seen[c] /\ state' = c /\ pc' = [pc EXCEPT ![c] = "waiting"]
      BY DEF PushWaiter, Goto, MutexInv, TagInv
    <2>3. c \in Lockers /\ next[c] = seen[c] /\ seen[c] # NotLocked
      BY <2>1 DEF MutexInv, PlaceInv, MutexTypes, Clients
    <2>4. QED BY <2>1, <2>2, <2>3
  <1>2. /\ DOMAIN next = Lockers /\ None \notin Lockers
        /\ Leads(FirstInLine, Older, next, None) /\ Leads(state, Newer, next, None)
    BY <1>1 DEF MutexInv, MutexTypes, LineInv, TopOfStack, Clients
  <1>3. ~Holds(Older, c) /\ ~Holds(Newer, c)
    BY <1>1 DEF MutexInv, LineInv
  <1>4. /\ Leads(c, <<c>> \o Newer, next, None)
        /\ Len(<<c>> \o Newer) = Len(Newer) + 1
        /\ \A i \in 1..Len(Newer) + 1 : (<<c>> \o Newer)[i] = IF i = 1 THEN c ELSE Newer[i - 1]
    BY <1>1, <1>2, <1>3, LeadsPush
  <1>5. FirstOf(head', seen', pc') = FirstInLine
    <2>1. /\ \A d \in Clients : pc'[d] = "handoff" <=> pc[d] = "handoff"
          /\ \A d \in Clients : pc[d] = "handoff" => seen'[d] = seen[d]
      BY <1>1 DEF MutexInv, TagInv, MutexTypes
    <2>2. FirstOf(head, seen', pc') = FirstOf(head, seen, pc)
      BY <2>1, FirstKept
    <2>3. FirstInLine = FirstOf(head, seen, pc)
      BY DEF FirstInLine, FirstOf
    <2>4. QED BY <1>1, <2>2, <2>3
  <1>6. Len(Newer) \in Nat
    BY <1>2, LenProperties DEF Leads
  <1> DEFINE b == <<c>> \o Newer
  <1>7. ASSUME NEW d PROVE Holds(b, d) <=> d = c \/ Holds(Newer, d)
    <2> HIDE DEF b
    <2>1. Len(b) = Len(Newer) + 1 /\ \A i \in 1..Len(b) : b[i] = IF i = 1 THEN c ELSE Newer[i - 1]
      BY <1>4 DEF b
    <2>2. 1 \in 1..Len(b) /\ b[1] = c
      BY <1>6, <2>1
    <2>3. ASSUME NEW i \in 1..Len(b), i # 1 PROVE i - 1 \in 1..Len(Newer) /\ b[i] = Newer[i - 1]
      BY <1>6, <2>1, <2>3
    <2>4. ASSUME NEW i \in 1..Len(Newer) PROVE i + 1 \in 1..Len(b) /\ b[i + 1] = Newer[i]
      BY <1>6, <2>1
    <2>5. QED BY <2>2, <2>3, <2>4 DEF Holds
  <1> HIDE DEF b
  <1>8. \A i \in 1..Len(Older), j \in 1..Len(b) : Older[i] # b[j]
    <2> SUFFICES ASSUME NEW i \in 1..Len(Older), NEW j \in 1..Len(b), Older[i] = b[j]
                 PROVE  FALSE
      OBVIOUS
    <2>1. Holds(b, Older[i]) /\ Holds(Older, Older[i])
      BY DEF Holds
    <2>2. Older[i] # c /\ ~Holds(Newer, Older[i])
      BY <1>3, <2>1 DEF MutexInv, LineInv, Holds
    <2>3. QED BY <1>7, <2>1, <2>2
  <1>9. \A d \in Lockers : pc'[d] = "waiting" <=> Holds(Older, d) \/ Holds(b, d)
    BY <1>1, <1>3, <1>7 DEF MutexInv, TagInv, LineInv, Clients
  <1>10. LineInv' /\ Older' = Older /\ Newer' = b
    <2>1. (IF state' = NotLocked THEN None ELSE state') = c
      BY <1>1 DEF Clients
    <2>2. Leads(c, b, next', None) /\ Leads(FirstInLine, Older, next', None)
      BY <1>1, <1>2, <1>4 DEF b
    <2>3. QED BY <1>5, <1>8, <1>9, <2>1, <2>2, LineBecomes
  <1>11. QED BY <1>1, <1>10 DEF b

\* Handing off takes the first of the line out and makes it the owner.
LEMMA HandOffShrinks ==
    ASSUME MutexInv, NEW c \in Clients, HandOff(c)
    PROVE  /\ Older # <<>> /\ seen[c] = Head(Older) /\ seen[c] \in Lockers /\ seen[c] # c
           /\ MutexTypes' /\ LineInv'
           /\ Older' = Tail(Older) /\ Newer' = Newer
  <1> USE MutexAssumption
  <1> DEFINE w == seen[c]
  <1>1. /\ pc[c] = "handoff" /\ w \in Lockers /\ head' = next[w]
        /\ seen' = [seen EXCEPT ![c] = None]
        /\ pc' = [pc EXCEPT ![c] = "idle", ![w] = "owner"]
        /\ UNCHANGED <<state, next>>
    BY DEF HandOff, MutexInv, PlaceInv, MutexTypes
  <1>2. /\ FirstInLine = w /\ \A d \in Clients \ {c} : pc[d] # "handoff"
    BY <1>1, OwnersFirst DEF MutexInv, Owning
  <1>3. /\ DOMAIN next = Lockers /\ None \notin Lockers
        /\ Leads(w, Older, next, None) /\ Leads(TopOfStack, Newer, next, None)
    BY <1>2 DEF MutexInv, MutexTypes, LineInv, Clients
  <1>4. Older # <<>>
    BY <1>1, <1>3, LeadsNowhere
  <1>5. /\ Leads(next[w], Tail(Older), next, None)
        /\ w = Head(Older) /\ w = Older[1] /\ Len(Tail(Older)) = Len(Older) - 1
        /\ \A i \in 1..Len(Older) - 1 : Tail(Older)[i] = Older[i + 1]
    BY <1>3, <1>4, LeadsPop
  <1>6. Older \in Seq(Lockers) /\ Len(Older) \in Nat \ {0}
    BY <1>3, <1>4, EmptySeq DEF Leads
  <1>7. Holds(Older, w) /\ pc[w] = "waiting" /\ w # c
    <2>1. Holds(Older, w)
      BY <1>5, <1>6 DEF Holds
    <2>2. QED BY <1>1, <2>1 DEF MutexInv, LineInv
  <1> DEFINE a == Tail(Older)
  <1>8. ASSUME NEW d PROVE Holds(a, d) <=> d # w /\ Holds(Older, d)
    <2> HIDE DEF a, w
    <2>1. Len(a) = Len(Older) - 1 /\ \A i \in 1..Len(Older) - 1 : a[i] = Older[i + 1]
      BY <1>5 DEF a
    <2>2. ASSUME NEW i \in 1..Len(a) PROVE i + 1 \in 1..Len(Older) /\ a[i] = Older[i + 1] /\ i + 1 # 1
      BY <1>6, <2>1
    <2>3. ASSUME NEW i \in 1..Len(Older), i # 1 PROVE i - 1 \in 1..Len(a) /\ a[i - 1] = Older[i]
      BY <1>6, <2>1, <2>3
    <2>4. \A i \in 1..Len(Older) : Older[i] = w <=> i = 1
      <3>1. 1 \in 1..Len(Older)
        BY <1>6
      <3>2. QED BY <1>3, <1>5, <3>1 DEF Leads
    <2>5. QED BY <2>2, <2>3, <2>4 DEF Holds
  <1> HIDE DEF a
  <1>9. FirstOf(head', seen', pc') = next[w]
    <2>1. \A d \in Clients : pc'[d] # "handoff"
      BY <1>1, <1>2 DEF MutexInv, TagInv
    <2>2. FirstOf(head', seen', pc') = head'
      BY <2>1, FirstIs
    <2>3. QED BY <1>1, <2>2
  <1>10. MutexTypes'
    BY <1>1 DEF MutexInv, MutexTypes
  <1>11. \A i \in 1..Len(a), j \in 1..Len(Newer) : a[i] # Newer[j]
    <2> SUFFICES ASSUME NEW i \in 1..Len(a), NEW j \in 1..Len(Newer), a[i] = Newer[j]
                 PROVE  FALSE
      OBVIOUS
    <2>1. Holds(a, a[i])
      BY DEF Holds
    <2>2. Holds(Older, a[i])
      BY <1>8, <2>1
    <2>3. QED BY <2>2 DEF MutexInv, LineInv, Holds
  <1>12. ~Holds(Newer, w)
    BY <1>7 DEF MutexInv, LineInv, Holds
  <1>13. \A d \in Lockers : pc'[d] = "waiting" <=> Holds(a, d) \/ Holds(Newer, d)
    BY <1>1, <1>7, <1>8, <1>12 DEF MutexInv, TagInv, LineInv, Clients
  <1>14. LineInv' /\ Older' = a /\ Newer' = Newer
    <2>1. (IF state' = NotLocked THEN None ELSE state') = TopOfStack
      BY <1>1 DEF TopOfStack
    <2>2. Leads(next[w], a, next', None) /\ Leads(TopOfStack, Newer, next', None)
      BY <1>1, <1>3, <1>5 DEF a
    <2>3. QED BY <1>9, <1>10, <1>11, <1>13, <2>1, <2>2, LineBecomes
  <1>15. QED BY <1>1, <1>4, <1>5, <1>7, <1>10, <1>14 DEF a

\* Every other action leaves the line as it is.
LEMMA OthersKeepLine ==
    ASSUME MutexInv, MutexTypes', NEW c \in Clients,
           \/ StartLock(c) \/ GuessFree(c) \/ TryLock(c) \/ Unlock(c) \/ ReleaseLock(c)
           \/ PushWaiter(c) /\ pc'[c] # "waiting"
    PROVE  LineInv' /\ Older' = Older /\ Newer' = Newer
  <1> USE MutexAssumption
  <1> SUFFICES /\ FirstOf(head', seen', pc') = FirstInLine
               /\ (IF state' = NotLocked THEN None ELSE state') = TopOfStack
               /\ \A d \in Lockers : pc'[d] = "waiting" <=> pc[d] = "waiting"
               /\ \A d \in Lockers : pc[d] = "waiting" => next'[d] = next[d]
    BY LineKept DEF MutexInv
  <1>0. FirstInLine = FirstOf(head, seen, pc)
    BY DEF FirstInLine, FirstOf
  <1>1. CASE StartLock(c)
    <2>1. \A d \in Clients : pc'[d] = "handoff" <=> pc[d] = "handoff"
      BY <1>1 DEF StartLock, Goto, MutexInv, TagInv
    <2>2. FirstOf(head, seen, pc') = FirstOf(head, seen, pc)
      BY <2>1, FirstKept
    <2>3. QED
      BY <1>0, <1>1, <2>2 DEF StartLock, Goto, MutexInv, TagInv, TopOfStack, Clients
  <1>2. CASE GuessFree(c)
    <2>1. /\ \A d \in Clients : pc'[d] = "handoff" <=> pc[d] = "handoff"
          /\ \A d \in Clients : pc[d] = "handoff" => seen'[d] = seen[d]
      BY <1>2 DEF GuessFree, Goto, MutexInv, TagInv, MutexTypes
    <2>2. FirstOf(head, seen', pc') = FirstOf(head, seen, pc)
      BY <2>1, FirstKept
    <2>3. \A d \in Lockers : pc'[d] = "waiting" <=> pc[d] = "waiting"
      BY <1>2 DEF GuessFree, Goto, MutexInv, TagInv, Clients
    <2>4. \A d \in Lockers : pc[d] = "waiting" => next'[d] = next[d]
      BY <1>2 DEF GuessFree, MutexInv, MutexTypes
    <2>5. (IF state' = NotLocked THEN None ELSE state') = TopOfStack
      BY <1>2 DEF GuessFree, TopOfStack
    <2>6. head' = head
      BY <1>2 DEF GuessFree
    <2>7. QED BY <1>0, <2>2, <2>3, <2>4, <2>5, <2>6
  <1>3. CASE TryLock(c)
    <2>1. \A d \in Clients : pc'[d] = "handoff" <=> pc[d] = "handoff"
      BY <1>3 DEF TryLock, Goto, MutexInv, TagInv
    <2>2. FirstOf(head, seen, pc') = FirstOf(head, seen, pc)
      BY <2>1, FirstKept
    <2>3. QED
      BY <1>0, <1>3, <2>2 DEF TryLock, Goto, MutexInv, TagInv, TopOfStack, Clients
  <1>4. CASE Unlock(c)
    <2>1. FirstInLine = head /\ \A d \in Clients \ {c} : pc[d] # "handoff"
      BY <1>4, OwnersFirst DEF Unlock, MutexInv, Owning
    <2>2. /\ seen' = [seen EXCEPT ![c] = head] /\ head' = head
          /\ pc' = [pc EXCEPT ![c] = IF head = None THEN "release" ELSE "handoff"]
      BY <1>4 DEF Unlock, Goto
    <2>3. FirstOf(head', seen', pc') = head
      <3>1. CASE head = None
        <4>1. \A d \in Clients : pc'[d] # "handoff"
          BY <2>1, <2>2, <3>1 DEF MutexInv, TagInv
        <4>2. FirstOf(head', seen', pc') = head'
          BY <4>1, FirstIs
        <4>3. QED BY <2>2, <4>2
      <3>2. CASE head # None
        <4>1. /\ pc'[c] = "handoff" /\ seen'[c] = head
              /\ \A d \in Clients : pc'[d] = "handoff" => d = c
          BY <2>1, <2>2, <3>2 DEF MutexInv, TagInv, MutexTypes
        <4>2. FirstOf(head', seen', pc') = seen'[c]
          BY <4>1, FirstIs
        <4>3. QED BY <4>1, <4>2
      <3>3. QED BY <3>1, <3>2
    <2>4. \A d \in Lockers : pc'[d] = "waiting" <=> pc[d] = "waiting"
      BY <1>4, <2>2 DEF Unlock, MutexInv, TagInv, Clients
    <2>5. QED BY <1>4, <2>1, <2>3, <2>4 DEF Unlock, TopOfStack
  <1>5. CASE ReleaseLock(c)
    <2>1. \A d \in Clients : pc'[d] = "handoff" <=> pc[d] = "handoff"
      BY <1>5 DEF ReleaseLock, Goto, MutexInv, TagInv
    <2>2. FirstOf(head, seen, pc') = FirstOf(head, seen, pc)
      BY <2>1, FirstKept
    <2>3. \A d \in Lockers : pc'[d] = "waiting" <=> pc[d] = "waiting"
      BY <1>5 DEF ReleaseLock, Goto, MutexInv, TagInv, Clients
    <2>4. QED BY <1>0, <1>5, <2>2, <2>3 DEF ReleaseLock, TopOfStack
  <1>6. CASE PushWaiter(c) /\ pc'[c] # "waiting"
    <2>1. pc[c] = "push" /\ pc' = [pc EXCEPT ![c] = "cas"] /\ seen' = [seen EXCEPT ![c] = None]
          /\ UNCHANGED <<state, head, next>>
      BY <1>6 DEF PushWaiter, Goto, MutexInv, TagInv
    <2>2. /\ \A d \in Clients : pc'[d] = "handoff" <=> pc[d] = "handoff"
          /\ \A d \in Clients : pc[d] = "handoff" => seen'[d] = seen[d]
      BY <2>1 DEF MutexInv, TagInv, MutexTypes
    <2>3. FirstOf(head, seen', pc') = FirstOf(head, seen, pc)
      BY <2>2, FirstKept
    <2>4. \A d \in Lockers : pc'[d] = "waiting" <=> pc[d] = "waiting"
      BY <2>1 DEF MutexInv, TagInv, Clients
    <2>5. QED BY <1>0, <2>1, <2>3, <2>4 DEF TopOfStack
  <1>7. QED BY <1>1, <1>2, <1>3, <1>4, <1>5, <1>6

\* One step per action; the line is the business of the lemmas above.
LEMMA MutexNext == MutexInv /\ [Next]_vars => MutexInv'
  <1> SUFFICES ASSUME MutexInv, [Next]_vars PROVE MutexInv'
    OBVIOUS
  <1> USE MutexAssumption
  <1>0. TagInv'
    BY TagNext DEF MutexInv
  <1>1. CASE UNCHANGED vars
    BY <1>1 DEF vars, MutexInv, TagInv, MutexTypes, StateInv, PlaceInv, LineInv,
                FirstInLine, TopOfStack, Older, Newer
  <1>2. ASSUME NEW c \in Clients, StartLock(c) PROVE MutexInv'
    <2>1. MutexTypes'
      BY <1>2 DEF StartLock, MutexInv, MutexTypes
    <2>2. StateInv'
      BY <1>2 DEF StartLock, Goto, MutexInv, TagInv, StateInv, Owning
    <2>3. \A d \in Clients : PlaceInv(d)'
      BY <1>2 DEF StartLock, Goto, MutexInv, TagInv, PlaceInv
    <2>4. QED BY <1>0, <1>2, <2>1, <2>2, <2>3, OthersKeepLine DEF MutexInv
  <1>3. ASSUME NEW c \in Clients, GuessFree(c) PROVE MutexInv'
    <2>1. MutexTypes'
      BY <1>3 DEF GuessFree, MutexInv, MutexTypes, PlaceInv
    <2>2. StateInv'
      BY <1>3 DEF GuessFree, Goto, MutexInv, TagInv, StateInv, Owning
    <2>3. \A d \in Clients : PlaceInv(d)'
      <3>1. c \in Lockers
        BY <1>3 DEF GuessFree, MutexInv, PlaceInv
      <3>2. CASE state = NotLocked
        <4>1. \A d \in Clients : pc[d] \notin Owning
          BY <3>2 DEF MutexInv, TagInv
        <4>2. QED BY <1>3, <3>1, <3>2, <4>1
                  DEF GuessFree, Goto, MutexInv, TagInv, PlaceInv, Owning
      <3>3. CASE state # NotLocked
        BY <1>3, <3>1, <3>3 DEF GuessFree, Goto, MutexInv, TagInv, MutexTypes, PlaceInv
      <3>4. QED BY <3>2, <3>3
    <2>4. QED BY <1>0, <1>3, <2>1, <2>2, <2>3, OthersKeepLine DEF MutexInv
  <1>4. ASSUME NEW c \in Clients, PushWaiter(c) PROVE MutexInv'
    <2>1. c \in Lockers /\ pc[c] = "push"
      BY <1>4 DEF PushWaiter, MutexInv, PlaceInv
    <2>2. MutexTypes'
      BY <1>4, <2>1 DEF PushWaiter, MutexInv, MutexTypes
    <2>3. pc' = [pc EXCEPT ![c] = "waiting"] \/ pc' = [pc EXCEPT ![c] = "cas"]
      BY <1>4 DEF PushWaiter, Goto
    <2>4. state = state' \/ (state' = c /\ state # NotLocked)
      <3>1. state = seen[c] => state # NotLocked
        BY <2>1 DEF MutexInv, MutexTypes, Clients
      <3>2. QED BY <1>4, <3>1 DEF PushWaiter
    <2>5. StateInv'
      BY <1>4, <2>1, <2>3, <2>4
      DEF PushWaiter, MutexInv, TagInv, MutexTypes, StateInv, Owning, Clients
    <2>6. \A d \in Clients : PlaceInv(d)'
      BY <1>4, <2>1, <2>3, <2>4
      DEF PushWaiter, MutexInv, TagInv, MutexTypes, PlaceInv, Clients
    <2>7. LineInv'
      BY <1>4, <2>2, PushGrows, OthersKeepLine
    <2>8. QED BY <1>0, <2>2, <2>5, <2>6, <2>7 DEF MutexInv
  <1>5. ASSUME NEW c \in Clients, TryLock(c) PROVE MutexInv'
    <2>1. MutexTypes'
      BY <1>5 DEF TryLock, MutexInv, MutexTypes
    <2>2. StateInv'
      BY <1>5 DEF TryLock, Goto, MutexInv, TagInv, StateInv, Owning
    <2>3. \A d \in Clients : PlaceInv(d)'
      <3>1. \A d \in Clients : pc[d] \notin Owning
        BY <1>5 DEF TryLock, MutexInv, TagInv
      <3>2. QED BY <1>5, <3>1 DEF TryLock, Goto, MutexInv, TagInv, PlaceInv, Owning
    <2>4. QED BY <1>0, <1>5, <2>1, <2>2, <2>3, OthersKeepLine DEF MutexInv
  <1>6. ASSUME NEW c \in Clients, Unlock(c) PROVE MutexInv'
    <2>1. MutexTypes'
      BY <1>6 DEF Unlock, MutexInv, MutexTypes
    <2>2. StateInv'
      BY <1>6 DEF Unlock, Goto, MutexInv, TagInv, StateInv, Owning
    <2>3. \A d \in Clients : PlaceInv(d)'
      BY <1>6 DEF Unlock, Goto, MutexInv, TagInv, MutexTypes, PlaceInv
    <2>4. QED BY <1>0, <1>6, <2>1, <2>2, <2>3, OthersKeepLine DEF MutexInv
  <1>7. ASSUME NEW c \in Clients, ReleaseLock(c) PROVE MutexInv'
    <2>1. MutexTypes'
      BY <1>7 DEF ReleaseLock, MutexInv, MutexTypes
    <2>2. head = None /\ UNCHANGED <<head, next, seen>> /\ state # NotLocked
          /\ \A d \in Clients : pc[d] \in Owning => d = c
      BY <1>7 DEF ReleaseLock, MutexInv, TagInv, PlaceInv, Owning
    <2>3. CASE state = None
      <3>1. pc' = [pc EXCEPT ![c] = "idle"] /\ state' = NotLocked
        BY <1>7, <2>3 DEF ReleaseLock, Goto
      <3>2. StateInv'
        BY <2>2, <3>1 DEF StateInv
      <3>3. \A d \in Clients : PlaceInv(d)'
        BY <2>2, <3>1 DEF MutexInv, TagInv, PlaceInv
      <3>4. QED BY <1>0, <1>7, <2>1, <3>2, <3>3, OthersKeepLine DEF MutexInv
    <2>4. CASE state # None
      <3>1. pc' = [pc EXCEPT ![c] = "exchange"] /\ state' = state
        BY <1>7, <2>4 DEF ReleaseLock, Goto
      <3>2. StateInv'
        BY <2>2, <3>1 DEF StateInv, MutexInv, TagInv, Owning
      <3>3. \A d \in Clients : PlaceInv(d)'
        BY <2>2, <2>4, <3>1 DEF MutexInv, TagInv, PlaceInv
      <3>4. QED BY <1>0, <1>7, <2>1, <3>2, <3>3, OthersKeepLine DEF MutexInv
    <2>5. QED BY <2>3, <2>4
  <1>8. ASSUME NEW c \in Clients, TakeStack(c) PROVE MutexInv'
    <2>1. /\ pc[c] = "exchange" /\ pc' = [pc EXCEPT ![c] = "handoff"]
          /\ state' = None /\ head' = head
          /\ \A d \in Clients : pc[d] \in Owning => d = c
      BY <1>8 DEF TakeStack, Goto, MutexInv, TagInv, Owning
    <2>2. MutexTypes' /\ LineInv' /\ seen'[c] # None
      BY <1>8, StackTurns
    <2>3. \A d \in Clients \ {c} : seen'[d] = seen[d]
      BY <1>8 DEF TakeStack, MutexInv, MutexTypes
    <2>4. \A d \in Lockers : pc[d] = "push" => next'[d] = next[d]
      <3>1. state = TopOfStack /\ Leads(TopOfStack, Newer, next, None)
        BY <2>1, OwnersFirst DEF MutexInv, LineInv, Owning
      <3>2. Newer = Chain(state, next, None) /\ next' = ReversedLinks(Newer, next, None)
        BY <1>8, <3>1 DEF TakeStack, Newer
      <3>3. \A d \in Lockers : pc[d] = "push" => ~Holds(Newer, d)
        BY DEF MutexInv, LineInv
      <3>4. QED BY <3>2, <3>3 DEF ReversedLinks, Holds, MutexInv, MutexTypes
    <2>5. StateInv'
      BY <2>1 DEF MutexInv, TagInv, StateInv, Owning
    <2>6. \A d \in Clients : PlaceInv(d)'
      BY <2>1, <2>2, <2>3, <2>4 DEF MutexInv, TagInv, PlaceInv, Owning
    <2>7. QED BY <1>0, <2>2, <2>5, <2>6 DEF MutexInv
  <1>9. ASSUME NEW c \in Clients, HandOff(c) PROVE MutexInv'
    <2>1. seen[c] \in Lockers /\ seen[c] # c /\ MutexTypes' /\ LineInv'
      BY <1>9, HandOffShrinks
    <2>2. /\ pc[c] = "handoff" /\ pc' = [pc EXCEPT ![c] = "idle", ![seen[c]] = "owner"]
          /\ seen' = [seen EXCEPT ![c] = None] /\ UNCHANGED <<state, next>>
          /\ \A d \in Clients : pc[d] \in Owning => d = c
          /\ state # NotLocked
      BY <1>9 DEF HandOff, MutexInv, TagInv, Owning
    <2>3. StateInv'
      BY <2>1, <2>2 DEF MutexInv, TagInv, StateInv, Owning, Clients
    <2>4. \A d \in Clients : PlaceInv(d)'
      BY <2>1, <2>2 DEF MutexInv, TagInv, MutexTypes, PlaceInv, Owning, Clients
    <2>5. QED BY <1>0, <2>1, <2>3, <2>4 DEF MutexInv
  <1>10. QED
    BY <1>1, <1>2, <1>3, <1>4, <1>5, <1>6, <1>7, <1>8, <1>9
    DEF Next, Locking, Unlocking

\* The line, the state word and every client stay consistent.
THEOREM MutexInvariance == Spec => []MutexInv
  BY MutexInit, MutexNext, PTL DEF Spec

\* state_ says "not locked" exactly while nobody owns the mutex.
LEMMA MutexTypesCorrect == MutexInv => TypeOK
  BY DEF MutexInv, TagInv, MutexTypes, StateInv, TypeOK, Owners

(***************************************************************************)
(* Line as one sequence                                                    *)
(***************************************************************************)

\* The elements of Line, by their place in Older or Newer.
LEMMA LineIs ==
    ASSUME MutexInv
    PROVE  /\ Older \in Seq(Lockers) /\ Newer \in Seq(Lockers)
           /\ Reverse(Newer) \in Seq(Lockers) /\ Line \in Seq(Lockers)
           /\ Len(Line) = Len(Older) + Len(Newer)
           /\ \A i \in 1..Len(Older) : Line[i] = Older[i]
           /\ \A i \in 1..Len(Newer) : Line[(Len(Older) + Len(Newer) - i) + 1] = Newer[i]
           /\ \A c : Holds(Line, c) <=> Holds(Older, c) \/ Holds(Newer, c)
           /\ \A i, j \in 1..Len(Line) : Line[i] = Line[j] => i = j
  <1> DEFINE m == Len(Older)
             n == Len(Newer)
  <1>1. Older \in Seq(Lockers) /\ Newer \in Seq(Lockers) /\ m \in Nat /\ n \in Nat
    BY LenProperties DEF MutexInv, LineInv, MutexTypes, Leads
  <1>2. /\ Reverse(Newer) \in Seq(Lockers) /\ Len(Reverse(Newer)) = n
        /\ \A i \in 1..n : Reverse(Newer)[i] = Newer[(n - i) + 1]
    BY <1>1, ReverseIs
  <1>3. /\ Line \in Seq(Lockers) /\ Len(Line) = m + n
        /\ \A i \in 1..m + n : Line[i] = IF i <= m THEN Older[i] ELSE Reverse(Newer)[i - m]
    <2>1. /\ Older \o Reverse(Newer) \in Seq(Lockers)
          /\ Len(Older \o Reverse(Newer)) = Len(Older) + Len(Reverse(Newer))
          /\ \A i \in 1..Len(Older) + Len(Reverse(Newer)) :
                (Older \o Reverse(Newer))[i] =
                   IF i <= Len(Older) THEN Older[i] ELSE Reverse(Newer)[i - Len(Older)]
      <3>1. Older \in Seq(Lockers) /\ Reverse(Newer) \in Seq(Lockers)
        BY <1>1, <1>2
      <3>2. QED BY <3>1, ConcatProperties
    <2>2. QED BY <1>2, <2>1 DEF Line
  <1>4. ASSUME NEW i \in 1..m + n, ~(i <= m)
        PROVE  (m + n - i) + 1 \in 1..n /\ Line[i] = Newer[(m + n - i) + 1]
    <2>1. i - m \in 1..n /\ (n - (i - m)) + 1 = (m + n - i) + 1 /\ (m + n - i) + 1 \in 1..n
      BY <1>1, <1>4
    <2>2. Line[i] = Reverse(Newer)[i - m]
      BY <1>3, <1>4
    <2>3. QED BY <1>2, <2>1, <2>2
  <1>5. \A i \in 1..m : i \in 1..m + n /\ Line[i] = Older[i]
    BY <1>1, <1>3
  <1>6. ASSUME NEW i \in 1..n
        PROVE  (m + n - i) + 1 \in 1..m + n /\ Line[(m + n - i) + 1] = Newer[i]
    <2>1. /\ (m + n - i) + 1 \in 1..m + n /\ ~((m + n - i) + 1 <= m)
          /\ (m + n - ((m + n - i) + 1)) + 1 = i
      BY <1>1
    <2>2. QED BY <1>4, <2>1
  <1>7. \A c : Holds(Line, c) <=> Holds(Older, c) \/ Holds(Newer, c)
    <2>1. ASSUME NEW i \in 1..m + n PROVE Holds(Older, Line[i]) \/ Holds(Newer, Line[i])
      <3>1. CASE i <= m
        <4>1. i \in 1..m
          BY <1>1, <3>1
        <4>2. QED BY <1>5, <4>1 DEF Holds
      <3>2. CASE ~(i <= m)
        BY <1>4, <3>2 DEF Holds
      <3>3. QED BY <3>1, <3>2
    <2> HIDE DEF m, n
    <2>2. QED BY <1>3, <1>5, <1>6, <2>1 DEF Holds, m, n
  <1>8. ASSUME NEW i \in 1..m + n, NEW j \in 1..m + n, Line[i] = Line[j] PROVE i = j
    <2>1. /\ \A k, l \in 1..m : Older[k] = Older[l] => k = l
          /\ \A k, l \in 1..n : Newer[k] = Newer[l] => k = l
          /\ \A k \in 1..m, l \in 1..n : Older[k] # Newer[l]
      BY DEF MutexInv, LineInv, Leads
    <2>2. /\ i <= m => i \in 1..m /\ Line[i] = Older[i]
          /\ j <= m => j \in 1..m /\ Line[j] = Older[j]
      BY <1>1, <1>5
    <2>3. /\ ~(i <= m) => (m + n - i) + 1 \in 1..n /\ Line[i] = Newer[(m + n - i) + 1]
          /\ ~(j <= m) => (m + n - j) + 1 \in 1..n /\ Line[j] = Newer[(m + n - j) + 1]
      BY <1>4
    <2> HIDE DEF m, n
    <2>4. CASE i <= m /\ j <= m
      BY <1>8, <2>1, <2>2, <2>4
    <2>5. CASE ~(i <= m) /\ ~(j <= m)
      <3>1. (m + n - i) + 1 = (m + n - j) + 1
        BY <1>8, <2>1, <2>3, <2>5
      <3>2. QED BY <1>1, <3>1
    <2>6. CASE i <= m <=> ~(j <= m)
      BY <1>8, <2>1, <2>2, <2>3, <2>6
    <2>7. QED BY <2>4, <2>5, <2>6
  <1>9. QED BY <1>1, <1>2, <1>3, <1>5, <1>6, <1>7, <1>8

\* Who is suspended in lock() is in the line once, and nobody else is in it:
\* neither the push nor the reversal loses a waiter or keeps one too long.
THEOREM NoWaiterIsLost == Spec => []WaitersAreInLine
  <1>1. ASSUME MutexInv PROVE WaitersAreInLine
    <2>1. \A i, j \in 1..Len(Line) : Line[i] = Line[j] => i = j
      BY <1>1, LineIs
    <2>2. Line \in Seq(Lockers) /\ DOMAIN Line = 1..Len(Line)
      BY <1>1, LineIs, LenProperties
    <2>3. \A c \in Lockers : Holds(Line, c) <=> pc[c] = "waiting"
      BY <1>1, LineIs DEF MutexInv, LineInv
    <2>4. ToSet(Line) = {c \in Lockers : Holds(Line, c)}
      BY <2>2, ElementOfSeq DEF ToSet, Holds
    <2>5. TypeOK
      BY <1>1, MutexTypesCorrect
    <2>6. QED BY <2>1, <2>2, <2>3, <2>4, <2>5 DEF WaitersAreInLine, IsInjective
  <1>2. QED BY <1>1, MutexInvariance, PTL

(***************************************************************************)
(* The refinement of FifoLock                                              *)
(***************************************************************************)

\* The abstract owner is the one client that owns the mutex.
LEMMA OwnerIs ==
    ASSUME TagInv
    PROVE  /\ \A c \in Clients : pc[c] \in Owning => Owner = c
           /\ (\A c \in Clients : pc[c] \notin Owning) => Owner = None
  <1>1. ASSUME NEW c \in Clients, pc[c] \in Owning PROVE Owner = c
    <2>1. Owners = {c}
      BY <1>1 DEF TagInv, Owners
    <2>2. (CHOOSE d \in {c} : TRUE) = c
      OBVIOUS
    <2>3. QED BY <2>1, <2>2 DEF Owner
  <1>2. ASSUME \A c \in Clients : pc[c] \notin Owning PROVE Owner = None
    <2>1. Owners = {}
      BY <1>2 DEF Owners
    <2>2. QED BY <2>1 DEF Owner
  <1>3. QED BY <1>1, <1>2

\* The same after a step, whose program counters are p.
LEMMA OwnerBecomes ==
    ASSUME TagInv'
    PROVE  /\ \A c \in Clients : pc'[c] \in Owning => Owner' = c
           /\ (\A c \in Clients : pc'[c] \notin Owning) => Owner' = None
  <1>1. ASSUME NEW c \in Clients, pc'[c] \in Owning PROVE Owner' = c
    <2>1. Owners' = {c}
      BY <1>1 DEF TagInv, Owners
    <2>2. (CHOOSE d \in {c} : TRUE) = c
      OBVIOUS
    <2>3. QED BY <2>1, <2>2 DEF Owner
  <1>2. ASSUME \A c \in Clients : pc'[c] \notin Owning PROVE Owner' = None
    <2>1. Owners' = {}
      BY <1>2 DEF Owners
    <2>2. QED BY <2>1 DEF Owner
  <1>3. QED BY <1>1, <1>2

\* A fresh mutex is a fresh FifoLock.
LEMMA LockRefinesInit == Init => Lock!LockInit
  <1> SUFFICES ASSUME Init PROVE Lock!LockInit
    OBVIOUS
  <1>1. MutexInv
    BY MutexInit
  <1>2. Owner = None
    BY <1>1, OwnerIs DEF MutexInv, Init, Owning
  <1>3. Line = <<>>
    <2>1. FirstInLine = None /\ TopOfStack = None
      BY FirstIs DEF Init, FirstInLine, FirstOf, TopOfStack
    <2>2. None \notin DOMAIN next
      BY MutexAssumption DEF Init, Clients
    <2>3. Older = <<>> /\ Newer = <<>>
      BY <1>1, <2>1, <2>2, LeadsNowhere DEF MutexInv, LineInv
    <2>4. QED BY <2>3, TurnedLine DEF Line
  <1>4. QED BY <1>2, <1>3 DEF Lock!LockInit

\* A step after which the same client owns the mutex and the line is the same.
LEMMA LockStutters ==
    ASSUME TagInv, TagInv', Older' = Older, Newer' = Newer,
           \A d \in Clients : pc'[d] \in Owning <=> pc[d] \in Owning
    PROVE  UNCHANGED Lock!lockVars
  <1>1. Line' = Line
    BY DEF Line
  <1>2. Owner' = Owner
    <2>1. CASE \E d \in Clients : pc[d] \in Owning
      BY <2>1, OwnerIs, OwnerBecomes
    <2>2. CASE \A d \in Clients : pc[d] \notin Owning
      BY <2>2, OwnerIs, OwnerBecomes
    <2>3. QED BY <2>1, <2>2
  <1>3. QED BY <1>1, <1>2 DEF Lock!lockVars

\* Every step of the code is a step of FifoLock or none of its business.
LEMMA LockRefinesNext ==
    ASSUME MutexInv, MutexInv', [Next]_vars
    PROVE  [Lock!LockNext]_(Lock!lockVars)
  <1> USE MutexAssumption
  <1>0. TagInv /\ TagInv' /\ MutexTypes'
    BY DEF MutexInv
  <1>1. CASE UNCHANGED vars
    BY <1>1 DEF vars, Lock!lockVars, Owner, Owners, Line, Older, Newer, FirstInLine, TopOfStack
  <1>2. ASSUME NEW c \in Clients, StartLock(c) PROVE UNCHANGED Lock!lockVars
    <2>1. \A d \in Clients : pc'[d] \in Owning <=> pc[d] \in Owning
      BY <1>0, <1>2 DEF StartLock, Goto, TagInv, Owning
    <2>2. QED BY <1>0, <1>2, <2>1, OthersKeepLine, LockStutters
  <1>3. ASSUME NEW c \in Clients, GuessFree(c) \/ TryLock(c)
        PROVE  [Lock!LockNext]_(Lock!lockVars)
    <2>1. Line' = Line /\ Older' = Older /\ Newer' = Newer
      BY <1>0, <1>3, OthersKeepLine DEF Line
    <2>2. CASE state = NotLocked
      <3>1. \A d \in Clients : pc[d] \notin Owning
        BY <1>0, <2>2 DEF TagInv
      <3>2. pc'[c] \in Owning
        BY <1>0, <1>3, <2>2 DEF GuessFree, TryLock, Goto, TagInv, Owning
      <3>3. Lock!Acquire(c)
        BY <1>0, <2>1, <3>1, <3>2, OwnerIs, OwnerBecomes DEF Lock!Acquire
      <3>4. QED BY <3>3 DEF Lock!LockNext
    <2>3. CASE state # NotLocked
      <3>1. \A d \in Clients : pc'[d] \in Owning <=> pc[d] \in Owning
        BY <1>0, <1>3, <2>3 DEF GuessFree, TryLock, Goto, TagInv, Owning
      <3>2. QED BY <1>0, <2>1, <3>1, LockStutters
    <2>4. QED BY <2>2, <2>3
  <1>4. ASSUME NEW c \in Clients, PushWaiter(c) PROVE [Lock!LockNext]_(Lock!lockVars)
    <2>1. \A d \in Clients : pc'[d] \in Owning <=> pc[d] \in Owning
      BY <1>0, <1>4 DEF PushWaiter, Goto, TagInv, Owning
    <2>2. CASE pc'[c] = "waiting"
      <3>1. /\ c \in Lockers /\ pc[c] = "push" /\ state # NotLocked
            /\ Older' = Older /\ Newer' = <<c>> \o Newer
        BY <1>0, <1>4, <2>2, PushGrows
      <3>2. PICK d \in Clients : pc[d] \in Owning
        BY <3>1 DEF MutexInv, StateInv
      <3>3. Owner = d /\ Owner' = d /\ d # c /\ d # None
        BY <1>0, <2>1, <3>1, <3>2, OwnerIs, OwnerBecomes DEF Owning
      <3>4. Line' = Append(Line, c)
        <4>1. Older \in Seq(Lockers) /\ Newer \in Seq(Lockers)
          BY LineIs
        <4>2. Older \o Reverse(<<c>> \o Newer) = Append(Older \o Reverse(Newer), c)
          BY <3>1, <4>1, TurnedLineGrows
        <4>3. QED BY <3>1, <4>2 DEF Line
      <3>5. c \notin Lock!ToSet(Line)
        <4>1. ~Holds(Line, c) /\ DOMAIN Line = 1..Len(Line)
          <5>1. Line \in Seq(Lockers) /\ (Holds(Line, c) <=> Holds(Older, c) \/ Holds(Newer, c))
            BY LineIs
          <5>2. QED BY <3>1, <5>1, LenProperties DEF MutexInv, LineInv
        <4>2. QED BY <4>1 DEF Lock!ToSet, Holds
      <3>6. Lock!Queue(c)
        BY <3>3, <3>4, <3>5 DEF Lock!Queue
      <3>7. QED BY <3>6 DEF Lock!LockNext
    <2>3. CASE pc'[c] # "waiting"
      BY <1>0, <1>4, <2>1, <2>3, OthersKeepLine, LockStutters
    <2>4. QED BY <2>2, <2>3
  <1>5. ASSUME NEW c \in Clients, Unlock(c) PROVE UNCHANGED Lock!lockVars
    <2>1. \A d \in Clients : pc'[d] \in Owning <=> pc[d] \in Owning
      BY <1>0, <1>5 DEF Unlock, Goto, TagInv, Owning
    <2>2. QED BY <1>0, <1>5, <2>1, OthersKeepLine, LockStutters
  <1>6. ASSUME NEW c \in Clients, ReleaseLock(c) PROVE [Lock!LockNext]_(Lock!lockVars)
    <2>1. Line' = Line /\ Older' = Older /\ Newer' = Newer
      BY <1>0, <1>6, OthersKeepLine DEF Line
    <2>2. CASE state = None
      <3>1. pc[c] = "release" /\ head = None /\ pc' = [pc EXCEPT ![c] = "idle"]
        BY <1>6, <2>2 DEF ReleaseLock, Goto, MutexInv, PlaceInv
      <3>2. FirstInLine = None /\ TopOfStack = None
        BY <1>0, <2>2, <3>1, OwnersFirst DEF Owning
      <3>3. Line = <<>>
        <4>1. None \notin DOMAIN next
          BY DEF MutexInv, MutexTypes, Clients
        <4>2. Older = <<>> /\ Newer = <<>>
          BY <3>2, <4>1, LeadsNowhere DEF MutexInv, LineInv
        <4>3. QED BY <4>2, TurnedLine DEF Line
      <3>4. Owner = c /\ Owner' = None /\ c # None
        <4>1. \A d \in Clients : pc'[d] \notin Owning
          BY <1>0, <3>1 DEF TagInv, Owning
        <4>2. QED BY <1>0, <3>1, <4>1, OwnerIs, OwnerBecomes DEF Owning
      <3>5. Lock!Release
        BY <2>1, <3>3, <3>4 DEF Lock!Release
      <3>6. QED BY <3>5 DEF Lock!LockNext
    <2>3. CASE state # None
      <3>1. \A d \in Clients : pc'[d] \in Owning <=> pc[d] \in Owning
        BY <1>0, <1>6, <2>3 DEF ReleaseLock, Goto, TagInv, Owning
      <3>2. QED BY <1>0, <2>1, <3>1, LockStutters
    <2>4. QED BY <2>2, <2>3
  <1>7. ASSUME NEW c \in Clients, TakeStack(c) PROVE UNCHANGED Lock!lockVars
    <2>1. Older = <<>> /\ Older' = Reverse(Newer) /\ Newer' = <<>> /\ Newer \in Seq(Lockers)
      BY <1>7, StackTurns, LineIs
    <2>2. Line' = Line
      <3>1. Line' = Reverse(Newer) \o Reverse(<<>>) /\ Line = <<>> \o Reverse(Newer)
        BY <2>1 DEF Line
      <3>2. QED BY <2>1, <3>1, TurnedLine
    <2>3. Owner = c /\ Owner' = c
      <3>1. pc[c] \in Owning /\ pc'[c] \in Owning
        BY <1>0, <1>7 DEF TakeStack, Goto, TagInv, Owning
      <3>2. QED BY <1>0, <3>1, OwnerIs, OwnerBecomes
    <2>4. QED BY <2>2, <2>3 DEF Lock!lockVars
  <1>8. ASSUME NEW c \in Clients, HandOff(c) PROVE Lock!LockNext
    <2>1. /\ Older # <<>> /\ seen[c] = Head(Older) /\ seen[c] \in Lockers /\ seen[c] # c
          /\ Older' = Tail(Older) /\ Newer' = Newer
          /\ Older \in Seq(Lockers) /\ Reverse(Newer) \in Seq(Lockers)
      BY <1>8, HandOffShrinks, LineIs
    <2>2. Line # <<>> /\ Head(Line) = seen[c] /\ Line' = Tail(Line)
      <3>1. /\ Older \o Reverse(Newer) # <<>> /\ Head(Older \o Reverse(Newer)) = Head(Older)
            /\ Tail(Older \o Reverse(Newer)) = Tail(Older) \o Reverse(Newer)
        BY <2>1, HeadTailOfConcat
      <3>2. QED BY <2>1, <3>1 DEF Line
    <2>3. Owner = c /\ Owner' = seen[c] /\ c # None
      <3>1. pc[c] \in Owning /\ pc'[seen[c]] \in Owning /\ seen[c] \in Clients
        BY <1>0, <1>8, <2>1 DEF HandOff, TagInv, Owning, Clients
      <3>2. QED BY <1>0, <3>1, OwnerIs, OwnerBecomes
    <2>4. Lock!HandOver
      BY <2>2, <2>3 DEF Lock!HandOver
    <2>5. QED BY <2>4 DEF Lock!LockNext
  <1>9. QED
    BY <1>1, <1>2, <1>3, <1>4, <1>5, <1>6, <1>7, <1>8
    DEF Next, Locking, Unlocking

\* One owner at a time, who waits is served in the order of arrival, and the
\* mutex is never free while somebody waits, whatever lock(), try_lock() and
\* unlock() overlap with and however addresses come back.
THEOREM MutexRefinement == Spec => ImplementsFifoLock
  <1>1. MutexInv /\ MutexInv' /\ [Next]_vars => [Lock!LockNext]_(Lock!lockVars)
    BY LockRefinesNext
  <1>2. QED
    BY <1>1, LockRefinesInit, MutexInvariance, PTL DEF Spec, ImplementsFifoLock, Lock!LockSpec

(***************************************************************************)
(* OpQueue.  Three kinds of places hold operations: the consumer's list,   *)
(* the stack, and the batches that are on their way.  No operation is in   *)
(* two of them, what is in none has no link, and a producer that is about  *)
(* to exchange has linked its batch onto the head it expects, so that an   *)
(* exchange that succeeds extends the stack even if that head was taken    *)
(* and came back in between.                                               *)
(***************************************************************************)

FrontList == Linked(front)
Stack == Linked(incoming)

\* A batch is a chain from its last operation to its first, which leads to the
\* expected head once it is linked.
BatchInv ==
    /\ \A p \in Producers : NoRepeat(batch[p]) /\ Len(batch[p]) \in 0..2
    /\ \A p \in Producers : Len(batch[p]) = 2 => link[batch[p][2]] = batch[p][1]
    /\ \A p \in Producers : ppc[p] = "cas" => link[batch[p][1]] = old[p]

\* f is the list, s the stack, b the batches.
ListsAre(f, s, n, i, l) == Leads(n, f, l, Null) /\ Leads(i, s, l, Null)

InOnePlace(f, s, b) ==
    /\ \A o \in Nodes : ~(Holds(f, o) /\ Holds(s, o))
    /\ \A o \in Nodes, p \in Producers : Holds(b[p], o) => ~Holds(f, o) /\ ~Holds(s, o)
    /\ \A o \in Nodes, p, q \in Producers : p # q => ~(Holds(b[p], o) /\ Holds(b[q], o))

OthersAreClean(f, s, b, l) ==
    \A o \in Nodes : \/ Holds(f, o) \/ Holds(s, o)
                     \/ \E p \in Producers : Holds(b[p], o)
                     \/ l[o] = Null

PlacesAre(f, s) ==
    /\ ListsAre(f, s, front, incoming, link)
    /\ InOnePlace(f, s, batch)
    /\ OthersAreClean(f, s, batch, link)

QueueInv == QueueTypeOK /\ BatchInv /\ PlacesAre(FrontList, Stack)

\* Whatever lists there are after a step are FrontList and Stack.
LEMMA ListsBecome ==
    ASSUME QueueTypeOK', NEW f, NEW s, ListsAre(f, s, front', incoming', link')
    PROVE  FrontList' = f /\ Stack' = s
  <1>1. DOMAIN link' = Nodes /\ IsFiniteSet(Nodes) /\ Null \notin Nodes
    BY QueueAssumption DEF QueueTypeOK
  <1>2. Chain(front', link', Null) = f /\ Chain(incoming', link', Null) = s
    BY <1>1, ChainIs DEF ListsAre
  <1>3. QED BY <1>2 DEF FrontList, Stack, Linked

LEMMA PlacesBecome ==
    ASSUME QueueTypeOK', BatchInv', NEW f, NEW s,
           ListsAre(f, s, front', incoming', link'),
           InOnePlace(f, s, batch'), OthersAreClean(f, s, batch', link')
    PROVE  QueueInv' /\ FrontList' = f /\ Stack' = s
  <1>1. FrontList' = f /\ Stack' = s
    BY ListsBecome
  <1>2. QED BY <1>1 DEF QueueInv, PlacesAre

\* The invariant in the terms of the lists.
LEMMA QueueFacts ==
    ASSUME QueueInv
    PROVE  /\ DOMAIN link = Nodes /\ Null \notin Nodes
           /\ FrontList \in Seq(Nodes) /\ Stack \in Seq(Nodes)
           /\ NoRepeat(FrontList) /\ NoRepeat(Stack)
           /\ Leads(front, FrontList, link, Null) /\ Leads(incoming, Stack, link, Null)
           /\ front = Null <=> FrontList = <<>>
           /\ incoming = Null <=> Stack = <<>>
           /\ \A i \in 1..Len(FrontList) : FrontList[i] \in Nodes /\ Holds(FrontList, FrontList[i])
           /\ \A i \in 1..Len(Stack) : Stack[i] \in Nodes /\ Holds(Stack, Stack[i])
  <1>1. DOMAIN link = Nodes /\ Null \notin Nodes
    BY QueueAssumption DEF QueueInv, QueueTypeOK
  <1>2. Leads(front, FrontList, link, Null) /\ Leads(incoming, Stack, link, Null)
    BY DEF QueueInv, PlacesAre, ListsAre
  <1>3. front = Null <=> FrontList = <<>>
    BY <1>1, <1>2, LeadsNowhere
  <1>4. incoming = Null <=> Stack = <<>>
    BY <1>1, <1>2, LeadsNowhere
  <1>5. FrontList \in Seq(Nodes) /\ Stack \in Seq(Nodes) /\ NoRepeat(FrontList) /\ NoRepeat(Stack)
    BY <1>1, <1>2 DEF Leads, NoRepeat
  <1>6. /\ \A i \in 1..Len(FrontList) : FrontList[i] \in Nodes /\ Holds(FrontList, FrontList[i])
        /\ \A i \in 1..Len(Stack) : Stack[i] \in Nodes /\ Holds(Stack, Stack[i])
    BY <1>5, ElementOfSeq DEF Holds
  <1>7. QED BY <1>1, <1>2, <1>3, <1>4, <1>5, <1>6

\* An operation that can be enqueued is in none of the places.
LEMMA FreeIsNowhere ==
    ASSUME QueueInv, NEW o
    PROVE  o \in Free <=> /\ o \in Nodes /\ ~Holds(FrontList, o) /\ ~Holds(Stack, o)
                          /\ \A p \in Producers : ~Holds(batch[p], o)
  <1>1. /\ o \in ToSet(FrontList) <=> Holds(FrontList, o)
        /\ o \in ToSet(Stack) <=> Holds(Stack, o)
    BY QueueFacts, HoldsToSet
  <1>2. \A p \in Producers : o \in ToSet(batch[p]) <=> Holds(batch[p], o)
    BY HoldsToSet DEF QueueInv, QueueTypeOK
  <1>3. QED BY <1>1, <1>2 DEF Free, Queued, FrontList, Stack

\* A fresh queue is empty.
LEMMA QueueInvInit == QueueInit => QueueInv /\ FrontList = <<>> /\ Stack = <<>>
  <1> SUFFICES ASSUME QueueInit PROVE QueueInv /\ FrontList = <<>> /\ Stack = <<>>
    OBVIOUS
  <1>1. QueueTypeOK /\ DOMAIN link = Nodes /\ IsFiniteSet(Nodes) /\ Null \notin Nodes
    BY QueueAssumption, EmptySeq DEF QueueInit, QueueTypeOK
  <1>2. BatchInv
    <2>1. Len(<<>>) = 0 /\ NoRepeat(<<>>)
      BY FewHold
    <2>2. QED BY <2>1 DEF QueueInit, BatchInv
  <1>3. Leads(Null, <<>>, link, Null)
    BY <1>1, LeadsNowhere
  <1>4. FrontList = <<>> /\ Stack = <<>>
    <2>1. Chain(Null, link, Null) = <<>>
      BY <1>1, <1>3, ChainIs
    <2>2. QED BY <2>1 DEF QueueInit, FrontList, Stack, Linked
  <1>5. PlacesAre(FrontList, Stack)
    <2>1. \A o : ~Holds(<<>>, o)
      BY FewHold
    <2>2. QED
      BY <1>3, <1>4, <2>1
      DEF QueueInit, PlacesAre, ListsAre, InOnePlace, OthersAreClean
  <1>6. QED BY <1>1, <1>2, <1>4, <1>5 DEF QueueInv

\* enqueue() and bulk_enqueue() link only operations that nobody else has.
LEMMA EnqueueStep ==
    ASSUME QueueInv, NEW p \in Producers, Enqueue(p)
    PROVE  QueueInv' /\ FrontList' = FrontList /\ Stack' = Stack
  <1>1. PICK b \in Batches : /\ IsInjective(b) /\ batch' = [batch EXCEPT ![p] = b]
                             /\ link' = [o \in Nodes |->
                                           IF o \in ToSet(Tail(b)) THEN b[1] ELSE link[o]]
    BY DEF Enqueue
  <1>2. /\ ppc[p] = "idle" /\ ppc' = [ppc EXCEPT ![p] = "link"]
        /\ old' = [old EXCEPT ![p] = incoming]
        /\ UNCHANGED <<incoming, front, taken>>
    BY DEF Enqueue
  <1>3. /\ b \in Seq(Nodes) /\ b # <<>> /\ Len(b) \in 1..2 /\ b[1] \in Free
        /\ Len(b) = 2 => b[2] \in Free
    <2>1. Free \subseteq Nodes
      BY DEF Free
    <2>2. CASE \E o \in Free : b = <<o>>
      BY <2>1, <2>2
    <2>3. CASE \E o, q \in Free : b = <<o, q>>
      BY <2>1, <2>3
    <2>4. QED BY <2>2, <2>3 DEF Batches
  <1>4. NoRepeat(b)
    BY <1>1, <1>3, LenProperties DEF NoRepeat, IsInjective
  <1>5. \A o : Holds(b, o) <=> o = b[1] \/ (Len(b) = 2 /\ o = b[2])
    <2>1. /\ 1 \in 1..Len(b) /\ (Len(b) = 2 => 2 \in 1..Len(b))
          /\ \A i \in 1..Len(b) : i = 1 \/ (Len(b) = 2 /\ i = 2)
      <3>1. \A n \in 1..2 : /\ 1 \in 1..n /\ (n = 2 => 2 \in 1..n)
                            /\ \A i \in 1..n : i = 1 \/ (n = 2 /\ i = 2)
        OBVIOUS
      <3>2. QED BY <1>3, <3>1
    <2>2. QED BY <2>1 DEF Holds
  <1>6. \A o : o \in ToSet(Tail(b)) <=> Len(b) = 2 /\ o = b[2]
    <2>1. Tail(b) \in Seq(Nodes) /\ \A o : Holds(Tail(b), o) <=> o # b[1] /\ Holds(b, o)
      BY <1>3, <1>4, TailHolds, HeadTailProperties
    <2>2. Len(b) = 2 => b[1] # b[2]
      <3>1. Len(b) = 2 => 1 \in 1..Len(b) /\ 2 \in 1..Len(b)
        OBVIOUS
      <3>2. QED BY <1>4, <3>1 DEF NoRepeat
    <2>3. \A o : o \in ToSet(Tail(b)) <=> Holds(Tail(b), o)
      BY <2>1, HoldsToSet
    <2>4. QED BY <1>5, <2>1, <2>2, <2>3
  <1>7. \A o : Holds(b, o) => /\ o \in Nodes /\ ~Holds(FrontList, o) /\ ~Holds(Stack, o)
                              /\ \A q \in Producers : ~Holds(batch[q], o)
    BY <1>3, <1>5, FreeIsNowhere
  <1>8. \A o \in Nodes : ~Holds(b, o) => link'[o] = link[o]
    BY <1>1, <1>5, <1>6
  <1>9. /\ \A q \in Producers : batch[q] \in Seq(Nodes)
        /\ \A q \in Producers : batch'[q] = IF q = p THEN b ELSE batch[q]
    BY <1>1 DEF QueueInv, QueueTypeOK, Enqueue
  <1>10. QueueTypeOK'
    <2>1. link' \in [Nodes -> Nodes \cup {Null}]
      BY <1>1, <1>3 DEF QueueInv, QueueTypeOK, Free
    <2>2. batch' \in [Producers -> Seq(Nodes)]
      BY <1>1, <1>3 DEF QueueInv, QueueTypeOK
    <2>3. \A q \in Producers : batch'[q] = <<>> <=> ppc'[q] = "idle"
      BY <1>2, <1>3, <1>9 DEF QueueInv, QueueTypeOK
    <2>4. QED BY <1>2, <2>1, <2>2, <2>3 DEF QueueInv, QueueTypeOK
  <1>11. BatchInv'
    <2>1. ASSUME NEW q \in Producers, Len(batch'[q]) = 2
          PROVE  link'[batch'[q][2]] = batch'[q][1]
      <3>1. CASE q = p
        <4>1. b[2] \in Nodes
          BY <1>3, <1>9, <2>1, <3>1 DEF Free
        <4>2. QED BY <1>1, <1>6, <1>9, <2>1, <3>1, <4>1
      <3>2. CASE q # p
        <4>1. batch[q][2] \in Nodes /\ Holds(batch[q], batch[q][2])
          <5>1. Len(batch[q]) = 2 /\ 2 \in 1..2
            BY <1>9, <2>1, <3>2
          <5>2. QED BY <1>9, <5>1, ElementOfSeq DEF Holds
        <4>2. QED BY <1>7, <1>8, <1>9, <2>1, <3>2, <4>1 DEF QueueInv, BatchInv
      <3>3. QED BY <3>1, <3>2
    <2>2. ASSUME NEW q \in Producers, ppc'[q] = "cas"
          PROVE  link'[batch'[q][1]] = old'[q]
      <3>1. q # p /\ ppc[q] = "cas" /\ old'[q] = old[q]
        BY <1>2, <2>2 DEF QueueInv, QueueTypeOK
      <3>2. batch[q][1] \in Nodes /\ Holds(batch[q], batch[q][1])
        <4>1. batch[q] # <<>>
          BY <3>1 DEF QueueInv, QueueTypeOK
        <4>2. 1 \in 1..Len(batch[q])
          BY <1>9, <4>1, EmptySeq
        <4>3. QED BY <1>9, <4>2, ElementOfSeq DEF Holds
      <3>3. QED BY <1>7, <1>8, <1>9, <3>1, <3>2 DEF QueueInv, BatchInv
    <2>3. \A q \in Producers : NoRepeat(batch'[q]) /\ Len(batch'[q]) \in 0..2
      BY <1>3, <1>4, <1>9 DEF QueueInv, BatchInv
    <2>4. QED BY <2>1, <2>2, <2>3 DEF BatchInv
  <1>12. ListsAre(FrontList, Stack, front', incoming', link')
    <2>1. DOMAIN link' = DOMAIN link
      BY <1>1, QueueFacts
    <2>2. /\ \A i \in 1..Len(FrontList) : link'[FrontList[i]] = link[FrontList[i]]
          /\ \A i \in 1..Len(Stack) : link'[Stack[i]] = link[Stack[i]]
      BY <1>7, <1>8, QueueFacts
    <2>3. QED BY <1>2, <2>1, <2>2, QueueFacts, LeadsKept DEF ListsAre
  <1>13. InOnePlace(FrontList, Stack, batch')
    BY <1>7, <1>9 DEF QueueInv, PlacesAre, InOnePlace
  <1>14. OthersAreClean(FrontList, Stack, batch', link')
    <2>1. \A o \in Nodes, q \in Producers : Holds(batch[q], o) => Holds(batch'[q], o)
      <3>1. \A o \in Nodes : ~Holds(batch[p], o)
        <4>1. batch[p] = <<>>
          BY <1>2 DEF QueueInv, QueueTypeOK
        <4>2. QED BY <4>1, FewHold
      <3>2. QED BY <1>9, <3>1
    <2>2. QED BY <1>8, <1>9, <2>1 DEF QueueInv, PlacesAre, OthersAreClean
  <1>15. QED BY <1>10, <1>11, <1>12, <1>13, <1>14, PlacesBecome

\* publish() links the batch onto the head it has read.
LEMMA LinkStep ==
    ASSUME QueueInv, NEW p \in Producers, Link(p)
    PROVE  QueueInv' /\ FrontList' = FrontList /\ Stack' = Stack
  <1>1. /\ ppc[p] = "link" /\ ppc' = [ppc EXCEPT ![p] = "cas"]
        /\ link' = [link EXCEPT ![batch[p][1]] = old[p]]
        /\ UNCHANGED <<incoming, front, batch, old, taken>>
    <2>1. batch[p] \in Seq(Nodes) /\ batch[p] # <<>>
      BY DEF Link, QueueInv, QueueTypeOK
    <2>2. Head(batch[p]) = batch[p][1]
      BY <2>1
    <2>3. QED BY <2>2 DEF Link
  <1>2. \A q \in Producers : batch[q] \in Seq(Nodes) /\ NoRepeat(batch[q])
    BY DEF QueueInv, QueueTypeOK, BatchInv
  <1>3. batch[p][1] \in Nodes /\ Holds(batch[p], batch[p][1]) /\ 1 \in 1..Len(batch[p])
    <2>1. batch[p] # <<>>
      BY <1>1 DEF QueueInv, QueueTypeOK
    <2>2. 1 \in 1..Len(batch[p])
      BY <1>2, <2>1, EmptySeq
    <2>3. QED BY <1>2, <2>2, ElementOfSeq DEF Holds
  <1>4. \A o \in Nodes : ~Holds(batch[p], o) => link'[o] = link[o]
    BY <1>1, <1>3 DEF QueueInv, QueueTypeOK
  <1>5. QueueTypeOK'
    BY <1>1, <1>3 DEF QueueInv, QueueTypeOK
  <1>6. \A q \in Producers, i \in 1..2 :
            i \in 1..Len(batch[q]) => /\ batch[q][i] \in Nodes /\ Holds(batch[q], batch[q][i])
                                      /\ q # p => link'[batch[q][i]] = link[batch[q][i]]
    <2>1. \A q \in Producers : \A i \in 1..Len(batch[q]) :
              batch[q][i] \in Nodes /\ Holds(batch[q], batch[q][i])
      BY <1>2, ElementOfSeq DEF Holds
    <2>2. QED BY <1>4, <2>1 DEF QueueInv, PlacesAre, InOnePlace
  <1>7. BatchInv'
    <2>1. ASSUME NEW q \in Producers, Len(batch[q]) = 2
          PROVE  link'[batch[q][2]] = batch[q][1]
      <3>1. 1 \in 1..Len(batch[q]) /\ 2 \in 1..Len(batch[q]) /\ 2 \in 1..2
        BY <2>1
      <3>2. link[batch[q][2]] = batch[q][1]
        BY <2>1 DEF QueueInv, BatchInv
      <3>3. CASE q = p
        <4>1. batch[p][2] # batch[p][1] /\ batch[p][2] \in Nodes
          BY <1>2, <1>6, <3>1, <3>3 DEF NoRepeat
        <4>2. QED BY <1>1, <3>2, <3>3, <4>1 DEF QueueInv, QueueTypeOK
      <3>4. CASE q # p
        BY <1>6, <3>1, <3>2, <3>4
      <3>5. QED BY <3>3, <3>4
    <2>2. ASSUME NEW q \in Producers, ppc'[q] = "cas"
          PROVE  link'[batch[q][1]] = old[q]
      <3>1. CASE q = p
        BY <1>1, <1>3, <3>1 DEF QueueInv, QueueTypeOK
      <3>2. CASE q # p
        <4>1. ppc[q] = "cas" /\ batch[q] # <<>>
          BY <1>1, <2>2, <3>2 DEF QueueInv, QueueTypeOK
        <4>2. 1 \in 1..Len(batch[q]) /\ 1 \in 1..2
          BY <1>2, <4>1, EmptySeq
        <4>3. QED BY <1>6, <3>2, <4>1, <4>2 DEF QueueInv, BatchInv
      <3>3. QED BY <3>1, <3>2
    <2>3. QED BY <1>1, <2>1, <2>2 DEF QueueInv, BatchInv
  <1>8. ListsAre(FrontList, Stack, front', incoming', link')
    <2>1. DOMAIN link' = DOMAIN link
      BY <1>1
    <2>2. /\ \A i \in 1..Len(FrontList) : link'[FrontList[i]] = link[FrontList[i]]
          /\ \A i \in 1..Len(Stack) : link'[Stack[i]] = link[Stack[i]]
      BY <1>4, QueueFacts DEF QueueInv, PlacesAre, InOnePlace
    <2>3. QED BY <1>1, <2>1, <2>2, QueueFacts, LeadsKept DEF ListsAre
  <1>9. InOnePlace(FrontList, Stack, batch') /\ OthersAreClean(FrontList, Stack, batch', link')
    BY <1>1, <1>4 DEF QueueInv, PlacesAre, InOnePlace, OthersAreClean
  <1>10. QED BY <1>5, <1>7, <1>8, <1>9, PlacesBecome

\* The elements of a batch.
LEMMA BatchIs ==
    ASSUME QueueInv, NEW p \in Producers, ppc[p] # "idle"
    PROVE  /\ batch[p] \in Seq(Nodes) /\ Len(batch[p]) \in 1..2 /\ batch[p][1] \in Nodes
           /\ Len(batch[p]) = 1 => batch[p] = <<batch[p][1]>>
           /\ Len(batch[p]) = 2 => /\ batch[p] = <<batch[p][1], batch[p][2]>>
                                   /\ batch[p][2] \in Nodes /\ batch[p][1] # batch[p][2]
                                   /\ link[batch[p][2]] = batch[p][1]
           /\ \A o : Holds(batch[p], o) <=>
                        o = batch[p][1] \/ (Len(batch[p]) = 2 /\ o = batch[p][2])
  <1> DEFINE b == batch[p]
  <1>1. /\ b \in Seq(Nodes) /\ b # <<>> /\ NoRepeat(b) /\ Len(b) \in 0..2
        /\ Len(b) = 2 => link[b[2]] = b[1]
    BY DEF QueueInv, QueueTypeOK, BatchInv
  <1> HIDE DEF b
  <1>2. Len(b) = 1 \/ Len(b) = 2
    BY <1>1, EmptySeq
  <1>3. \A i \in 1..Len(b) : b[i] \in Nodes
    BY <1>1, ElementOfSeq
  <1>4. CASE Len(b) = 1
    <2>1. b[1] \in Nodes
      BY <1>3, <1>4
    <2>2. b = <<b[1]>>
      <3> DEFINE r == <<b[1]>>
      <3>1. r \in Seq(Nodes) /\ Len(r) = 1 /\ r[1] = b[1]
        BY <2>1
      <3> HIDE DEF r
      <3>2. \A i \in 1..Len(b) : b[i] = r[i]
        <4>1. \A i \in 1..1 : i = 1
          OBVIOUS
        <4>2. QED BY <1>4, <3>1, <4>1
      <3>3. b = r
        BY <1>1, <1>4, <3>1, <3>2, SeqEqual
      <3>4. QED BY <3>3 DEF r
    <2>3. \A o : Holds(b, o) <=> o = b[1]
      BY <1>4 DEF Holds
    <2>4. QED BY <1>1, <1>4, <2>1, <2>2, <2>3 DEF b
  <1>5. CASE Len(b) = 2
    <2>1. b[1] \in Nodes /\ b[2] \in Nodes
      BY <1>3, <1>5
    <2>2. b = <<b[1], b[2]>>
      <3> DEFINE r == <<b[1], b[2]>>
      <3>1. r \in Seq(Nodes) /\ Len(r) = 2 /\ r[1] = b[1] /\ r[2] = b[2]
        BY <2>1
      <3> HIDE DEF r
      <3>2. \A i \in 1..Len(b) : b[i] = r[i]
        <4>1. \A i \in 1..2 : i = 1 \/ i = 2
          OBVIOUS
        <4>2. QED BY <1>5, <3>1, <4>1
      <3>3. b = r
        BY <1>1, <1>5, <3>1, <3>2, SeqEqual
      <3>4. QED BY <3>3 DEF r
    <2>3. \A o : Holds(b, o) <=> o = b[1] \/ o = b[2]
      <3>1. 1 \in 1..2 /\ 2 \in 1..2 /\ \A i \in 1..2 : i = 1 \/ i = 2
        OBVIOUS
      <3>2. QED BY <1>5, <3>1 DEF Holds
    <2>4. b[1] # b[2]
      <3>1. 1 \in 1..2 /\ 2 \in 1..2
        OBVIOUS
      <3>2. QED BY <1>1, <1>5, <3>1 DEF NoRepeat
    <2>5. QED BY <1>1, <1>5, <2>1, <2>2, <2>3, <2>4 DEF b
  <1>6. QED BY <1>2, <1>4, <1>5

\* An exchange that fails reads the stack again.
LEMMA RetryStep ==
    ASSUME QueueInv, NEW p \in Producers, ppc[p] = "cas",
           old' = [old EXCEPT ![p] = incoming], ppc' = [ppc EXCEPT ![p] = "link"],
           UNCHANGED <<incoming, batch, front, link, taken>>
    PROVE  QueueInv' /\ FrontList' = FrontList /\ Stack' = Stack
  <1>1. QueueTypeOK' /\ BatchInv'
    BY DEF QueueInv, QueueTypeOK, BatchInv
  <1>2. /\ ListsAre(FrontList, Stack, front', incoming', link')
        /\ InOnePlace(FrontList, Stack, batch') /\ OthersAreClean(FrontList, Stack, batch', link')
    BY DEF QueueInv, PlacesAre
  <1>3. QED BY <1>1, <1>2, PlacesBecome

\* The stack with a batch on top, the first of it deepest.
Pushed(b) == IF Len(b) = 1 THEN <<b[1]>> \o Stack ELSE <<b[2]>> \o (<<b[1]>> \o Stack)

\* An exchange that succeeds moves the whole batch onto the stack.
LEMMA ExchangeStep ==
    ASSUME QueueInv, NEW p \in Producers, ppc[p] = "cas", incoming = old[p],
           incoming' = Last(batch[p]), batch' = [batch EXCEPT ![p] = <<>>],
           old' = [old EXCEPT ![p] = Null], ppc' = [ppc EXCEPT ![p] = "idle"],
           UNCHANGED <<front, link, taken>>
    PROVE  QueueInv' /\ FrontList' = FrontList /\ Stack' = Pushed(batch[p])
  <1> DEFINE b == batch[p]
             s1 == <<b[1]>> \o Stack
             s == Pushed(b)
  <1>1. /\ b \in Seq(Nodes) /\ Len(b) \in 1..2 /\ b[1] \in Nodes
        /\ Len(b) = 2 => b[2] \in Nodes /\ b[1] # b[2] /\ link[b[2]] = b[1]
        /\ \A o : Holds(b, o) <=> o = b[1] \/ (Len(b) = 2 /\ o = b[2])
    BY BatchIs
  <1>2. \A o \in Nodes : Holds(b, o) => ~Holds(FrontList, o) /\ ~Holds(Stack, o)
    BY DEF QueueInv, PlacesAre, InOnePlace
  <1>3. link[b[1]] = incoming
    BY DEF QueueInv, BatchInv
  <1> HIDE DEF b
  <1>4. /\ Leads(b[1], s1, link, Null) /\ s1 \in Seq(Nodes)
        /\ \A o : Holds(s1, o) <=> o = b[1] \/ Holds(Stack, o)
    <2>1. Leads(incoming, Stack, link, Null) /\ DOMAIN link = Nodes /\ Null \notin Nodes
          /\ Stack \in Seq(Nodes) /\ ~Holds(Stack, b[1])
      BY <1>1, <1>2, QueueFacts
    <2>2. QED BY <1>1, <1>3, <2>1, LeadsPush, PushHolds
  <1>5. /\ Leads(incoming', s, link, Null)
        /\ \A o : Holds(s, o) <=> Holds(b, o) \/ Holds(Stack, o)
    <2>1. CASE Len(b) = 1
      <3>1. incoming' = b[1] /\ s = s1
        BY <2>1 DEF Last, Pushed, b
      <3>2. QED BY <1>1, <1>4, <2>1, <3>1
    <2>2. CASE Len(b) = 2
      <3>1. incoming' = b[2] /\ s = <<b[2]>> \o s1
        BY <2>2 DEF Last, Pushed, b
      <3>2. /\ b[2] \in DOMAIN link /\ link[b[2]] = b[1] /\ ~Holds(s1, b[2]) /\ Null \notin DOMAIN link
        BY <1>1, <1>2, <1>4, <2>2, QueueFacts
      <3> HIDE DEF s1, s
      <3>3. Leads(b[2], <<b[2]>> \o s1, link, Null)
        BY <1>4, <3>2, LeadsPush
      <3>4. \A o : Holds(<<b[2]>> \o s1, o) <=> o = b[2] \/ Holds(s1, o)
        BY <1>1, <1>4, <2>2, PushHolds
      <3>5. QED BY <1>1, <1>4, <2>2, <3>1, <3>3, <3>4
    <2>3. QED BY <1>1, <2>1, <2>2
  <1>6. /\ \A q \in Producers : batch'[q] = IF q = p THEN <<>> ELSE batch[q]
        /\ \A o : ~Holds(<<>>, o)
    BY FewHold DEF QueueInv, QueueTypeOK
  <1>7. QueueTypeOK'
    <2>1. incoming' \in Nodes
      BY <1>1 DEF Last, b
    <2>2. batch' \in [Producers -> Seq(Nodes)]
      BY EmptySeq DEF QueueInv, QueueTypeOK
    <2>3. \A q \in Producers : batch'[q] = <<>> <=> ppc'[q] = "idle"
      BY <1>6 DEF QueueInv, QueueTypeOK
    <2>4. QED BY <2>1, <2>2, <2>3 DEF QueueInv, QueueTypeOK
  <1>8. BatchInv'
    <2>1. Len(<<>>) = 0 /\ NoRepeat(<<>>)
      BY FewHold
    <2>2. \A q \in Producers : ppc'[q] = "cas" => q # p /\ ppc[q] = "cas" /\ old'[q] = old[q]
      BY DEF QueueInv, QueueTypeOK
    <2>3. QED BY <1>6, <2>1, <2>2 DEF QueueInv, BatchInv
  <1> HIDE DEF s, s1
  <1>9. ListsAre(FrontList, s, front', incoming', link')
    BY <1>5, QueueFacts DEF ListsAre
  <1>10. InOnePlace(FrontList, s, batch')
    BY <1>2, <1>5, <1>6 DEF QueueInv, PlacesAre, InOnePlace, b
  <1>11. OthersAreClean(FrontList, s, batch', link')
    BY <1>5, <1>6 DEF QueueInv, PlacesAre, OthersAreClean, b
  <1>12. FrontList' = FrontList /\ Stack' = s /\ QueueInv'
    BY <1>7, <1>8, <1>9, <1>10, <1>11, PlacesBecome
  <1>13. QED BY <1>12 DEF s, b

\* dequeue() takes the first of the list f that n leads to along the links l,
\* and leaves s on the stack.
LEMMA PopStep ==
    ASSUME QueueInv, NEW n, NEW l, NEW f, NEW s, PopFrom(l, n), n # Null,
           l \in [Nodes -> Nodes \cup {Null}],
           ListsAre(f, s, n, incoming', l), incoming' \in Nodes \cup {Null},
           InOnePlace(f, s, batch), OthersAreClean(f, s, batch, l),
           \A o \in Nodes, p \in Producers : Holds(batch[p], o) => l[o] = link[o],
           UNCHANGED <<ppc, batch, old>>
    PROVE  /\ QueueInv' /\ FrontList' = Tail(f) /\ Stack' = s
           /\ f # <<>> /\ taken' = f[1]
  <1>1. DOMAIN l = Nodes /\ Null \notin Nodes
    BY QueueAssumption
  <1>2. Leads(n, f, l, Null) /\ Leads(incoming', s, l, Null)
    BY DEF ListsAre
  <1>3. /\ f # <<>> /\ n = f[1] /\ n \in Nodes /\ Holds(f, n)
        /\ Leads(l[n], Tail(f), [l EXCEPT ![n] = Null], Null)
        /\ \A o : Holds(Tail(f), o) <=> o # n /\ Holds(f, o)
    BY <1>1, <1>2, LeadsTaken
  <1>4. /\ front' = l[n] /\ taken' = n /\ link' = [l EXCEPT ![n] = Null]
        /\ \A o \in Nodes : link'[o] = IF o = n THEN Null ELSE l[o]
    BY DEF PopFrom
  <1>5. Leads(incoming', s, link', Null)
    <2>1. s \in Seq(Nodes) /\ DOMAIN link' = DOMAIN l
      BY <1>1, <1>2, <1>4 DEF Leads
    <2>2. \A i \in 1..Len(s) : s[i] \in Nodes /\ s[i] # n
      BY <1>3, <2>1, ElementOfSeq DEF InOnePlace, Holds
    <2>3. \A i \in 1..Len(s) : link'[s[i]] = l[s[i]]
      BY <1>4, <2>2
    <2>4. QED BY <1>2, <2>1, <2>3, LeadsKept
  <1>6. QueueTypeOK'
    BY <1>3, <1>4 DEF QueueInv, QueueTypeOK
  <1>7. BatchInv'
    <2>1. ASSUME NEW p \in Producers, NEW i \in 1..Len(batch[p])
          PROVE  link'[batch[p][i]] = link[batch[p][i]]
      <3>1. batch[p][i] \in Nodes /\ Holds(batch[p], batch[p][i])
        BY ElementOfSeq DEF QueueInv, QueueTypeOK, Holds
      <3>2. batch[p][i] # n
        BY <1>3, <3>1 DEF InOnePlace
      <3>3. QED BY <1>4, <3>1, <3>2
    <2>2. ASSUME NEW p \in Producers, Len(batch[p]) = 2
          PROVE  link'[batch[p][2]] = batch[p][1]
      <3>1. 2 \in 1..Len(batch[p])
        BY <2>2
      <3>2. QED BY <2>1, <2>2, <3>1 DEF QueueInv, BatchInv
    <2>3. ASSUME NEW p \in Producers, ppc[p] = "cas"
          PROVE  link'[batch[p][1]] = old[p]
      <3>1. 1 \in 1..Len(batch[p])
        <4>1. batch[p] \in Seq(Nodes) /\ batch[p] # <<>>
          BY <2>3 DEF QueueInv, QueueTypeOK
        <4>2. QED BY <4>1, EmptySeq
      <3>2. QED BY <2>1, <2>3, <3>1 DEF QueueInv, BatchInv
    <2>4. QED BY <2>2, <2>3 DEF QueueInv, BatchInv
  <1>8. ListsAre(Tail(f), s, front', incoming', link')
    BY <1>3, <1>4, <1>5 DEF ListsAre
  <1>9. InOnePlace(Tail(f), s, batch') /\ OthersAreClean(Tail(f), s, batch', link')
    BY <1>3, <1>4 DEF InOnePlace, OthersAreClean
  <1>10. QED BY <1>3, <1>4, <1>6, <1>7, <1>8, <1>9, PlacesBecome

LEMMA FrontStep ==
    ASSUME QueueInv, DequeueFront
    PROVE  /\ QueueInv' /\ FrontList' = Tail(FrontList) /\ Stack' = Stack
           /\ FrontList # <<>> /\ taken' = FrontList[1]
  <1>1. /\ PopFrom(link, front) /\ front # Null /\ UNCHANGED <<incoming, ppc, batch, old>>
    BY DEF DequeueFront
  <1>2. /\ link \in [Nodes -> Nodes \cup {Null}] /\ incoming' \in Nodes \cup {Null}
        /\ ListsAre(FrontList, Stack, front, incoming', link)
        /\ InOnePlace(FrontList, Stack, batch) /\ OthersAreClean(FrontList, Stack, batch, link)
    BY <1>1 DEF QueueInv, QueueTypeOK, PlacesAre
  <1>3. QED BY <1>1, <1>2, PopStep

\* The consumer takes the whole stack, turns it round and takes the first.
LEMMA IncomingStep ==
    ASSUME QueueInv, DequeueIncoming
    PROVE  /\ QueueInv' /\ FrontList' = Tail(Reverse(Stack)) /\ Stack' = <<>>
           /\ FrontList = <<>> /\ Stack # <<>> /\ Reverse(Stack) # <<>>
           /\ taken' = Reverse(Stack)[1]
  <1> DEFINE l == ReversedLinks(Stack, link, Null)
             f == Reverse(Stack)
  <1>1. /\ front = Null /\ incoming # Null /\ incoming' = Null
        /\ PopFrom(l, Last(Stack)) /\ UNCHANGED <<ppc, batch, old>>
    BY DEF DequeueIncoming, Stack
  <1>2. /\ FrontList = <<>> /\ Stack # <<>> /\ Leads(incoming, Stack, link, Null)
        /\ Stack \in Seq(Nodes) /\ DOMAIN link = Nodes /\ Null \notin Nodes
    BY <1>1, QueueFacts
  <1>3. /\ Leads(Last(Stack), f, l, Null)
        /\ \A o \in Nodes : ~Holds(Stack, o) => l[o] = link[o]
    BY <1>2, LeadsReversed
  <1>4. \A o : (Holds(f, o) <=> Holds(Stack, o)) /\ ~Holds(<<>>, o)
    BY <1>2, ReverseHolds, FewHold
  <1>5. l \in [Nodes -> Nodes \cup {Null}]
    <2>1. ASSUME NEW o \in Nodes PROVE l[o] \in Nodes \cup {Null}
      <3>1. CASE ~Holds(Stack, o)
        BY <1>3, <3>1 DEF QueueInv, QueueTypeOK
      <3>2. CASE Holds(Stack, o)
        <4>1. PICK i \in 1..Len(f) : f[i] = o
          BY <1>4, <3>2 DEF Holds
        <4>2. /\ l[f[i]] = IF i = Len(f) THEN Null ELSE f[i + 1]
              /\ \A j \in 1..Len(f) : f[j] \in Nodes
              /\ Len(f) \in Nat
          <5>1. f \in Seq(Nodes)
            BY <1>2, ReverseIs
          <5>2. \A j \in 1..Len(f) : l[f[j]] = IF j = Len(f) THEN Null ELSE f[j + 1]
            BY <1>3 DEF Leads
          <5> HIDE DEF f, l
          <5>3. QED BY <5>1, <5>2, ElementOfSeq, LenProperties
        <4> HIDE DEF f, l
        <4>3. i # Len(f) => i + 1 \in 1..Len(f)
          BY <4>2
        <4>4. QED BY <4>1, <4>2, <4>3
      <3>3. QED BY <3>1, <3>2
    <2>2. l = [o \in Nodes |-> l[o]]
      BY <1>2 DEF ReversedLinks
    <2> HIDE DEF l
    <2>3. QED BY <2>1, <2>2
  <1> HIDE DEF f, l
  <1>6. ListsAre(f, <<>>, Last(Stack), incoming', l)
    <2>1. DOMAIN l = Nodes
      BY <1>5
    <2>2. QED BY <1>1, <1>2, <1>3, <2>1, LeadsNowhere DEF ListsAre
  <1>7. InOnePlace(f, <<>>, batch)
    BY <1>4 DEF QueueInv, PlacesAre, InOnePlace
  <1>8. OthersAreClean(f, <<>>, batch, l)
    <2>1. \A o \in Nodes : ~Holds(FrontList, o)
      BY <1>2, <1>4
    <2>2. QED BY <1>3, <1>4, <2>1 DEF QueueInv, PlacesAre, OthersAreClean
  <1>9. \A o \in Nodes, p \in Producers : Holds(batch[p], o) => l[o] = link[o]
    BY <1>3 DEF QueueInv, PlacesAre, InOnePlace
  <1>10. Last(Stack) # Null
    <2>1. Last(Stack) = Stack[Len(Stack)] /\ Len(Stack) \in 1..Len(Stack)
      BY <1>2, EmptySeq DEF Last
    <2>2. QED BY <1>2, <2>1, ElementOfSeq
  <1>11. /\ QueueInv' /\ FrontList' = Tail(f) /\ Stack' = <<>> /\ f # <<>> /\ taken' = f[1]
    BY <1>1, <1>5, <1>6, <1>7, <1>8, <1>9, <1>10, PopStep
  <1>12. QED BY <1>2, <1>11 DEF f

\* The invariant, and what a step does to the two lists.
LEMMA QueueStep ==
    ASSUME QueueInv, [QueueNext]_queueVars
    PROVE  /\ QueueInv'
           /\ \/ FrontList' = FrontList /\ Stack' = Stack /\ taken' = taken
              \/ \E p \in Producers : /\ ppc[p] = "cas" /\ taken' = taken
                                      /\ FrontList' = FrontList /\ Stack' = Pushed(batch[p])
              \/ DequeueFront \/ DequeueIncoming \/ DequeueNothing
  <1>1. CASE UNCHANGED queueVars
    <2>1. FrontList' = FrontList /\ Stack' = Stack
      BY <1>1 DEF queueVars, FrontList, Stack, Linked
    <2>2. QueueInv'
      BY <1>1, <2>1 DEF queueVars, QueueInv, QueueTypeOK, BatchInv, PlacesAre
    <2>3. QED BY <1>1, <2>1, <2>2 DEF queueVars
  <1>2. ASSUME NEW p \in Producers, Enqueue(p)
        PROVE  QueueInv' /\ FrontList' = FrontList /\ Stack' = Stack /\ taken' = taken
    <2>1. taken' = taken
      BY <1>2 DEF Enqueue
    <2>2. QED BY <1>2, <2>1, EnqueueStep
  <1>3. ASSUME NEW p \in Producers, Link(p)
        PROVE  QueueInv' /\ FrontList' = FrontList /\ Stack' = Stack /\ taken' = taken
    <2>1. taken' = taken
      BY <1>3 DEF Link
    <2>2. QED BY <1>3, <2>1, LinkStep
  <1>4. ASSUME NEW p \in Producers, CompareExchange(p)
        PROVE  /\ QueueInv' /\ ppc[p] = "cas" /\ taken' = taken /\ FrontList' = FrontList
               /\ Stack' = Stack \/ Stack' = Pushed(batch[p])
    <2>1. /\ ppc[p] = "cas" /\ UNCHANGED <<front, link, taken>>
          /\ \/ /\ incoming = old[p]
                /\ incoming' = Last(batch[p])
                /\ batch' = [batch EXCEPT ![p] = <<>>]
                /\ old' = [old EXCEPT ![p] = Null]
                /\ ppc' = [ppc EXCEPT ![p] = "idle"]
             \/ /\ old' = [old EXCEPT ![p] = incoming]
                /\ ppc' = [ppc EXCEPT ![p] = "link"]
                /\ UNCHANGED <<incoming, batch>>
      BY <1>4 DEF CompareExchange
    <2>2. QED BY <2>1, ExchangeStep, RetryStep
  <1>5. CASE DequeueFront
    BY <1>5, FrontStep
  <1>6. CASE DequeueIncoming
    BY <1>6, IncomingStep
  <1>7. CASE DequeueNothing
    <2>1. FrontList' = FrontList /\ Stack' = Stack
      BY <1>7 DEF DequeueNothing, FrontList, Stack, Linked
    <2>2. QueueInv'
      BY <1>7, <2>1 DEF DequeueNothing, QueueInv, QueueTypeOK, BatchInv, PlacesAre
    <2>3. QED BY <1>7, <2>2
  <1>8. QED
    BY <1>1, <1>2, <1>3, <1>4, <1>5, <1>6, <1>7 DEF QueueNext, PublishBatch, Dequeue

\* The inductive invariant of the queue, for any number of producers and
\* operations: each operation is in one place, and an expected head is what
\* the batch is linked to.
THEOREM QueueInvariance == QueueSpec => []QueueInv
  <1>1. QueueInv /\ [QueueNext]_queueVars => QueueInv'
    BY QueueStep
  <1>2. QED BY <1>1, QueueInvInit, PTL DEF QueueSpec

\* No operation is enqueued with a stale link or reached twice: what the code
\* asserts of next_ in immediately_post() and bulk_enqueue() holds.
THEOREM NoStaleLinks == QueueSpec => []LinksAreClean
  <1>1. ASSUME QueueInv PROVE LinksAreClean
    <2>1. \A o \in Free : link[o] = Null
      BY <1>1, FreeIsNowhere DEF QueueInv, PlacesAre, OthersAreClean
    <2>2. IsInjective(FrontList \o Stack)
      <3>1. /\ FrontList \in Seq(Nodes) /\ Stack \in Seq(Nodes)
            /\ NoRepeat(FrontList) /\ NoRepeat(Stack)
            /\ \A o : ~(Holds(FrontList, o) /\ Holds(Stack, o))
        <4>1. \A o : Holds(FrontList, o) => o \in Nodes
          BY <1>1, QueueFacts DEF Holds
        <4>2. QED BY <1>1, <4>1, QueueFacts DEF QueueInv, PlacesAre, InOnePlace
      <3>2. NoRepeat(FrontList \o Stack) /\ FrontList \o Stack \in Seq(Nodes)
        BY <3>1, ConcatHolds, ConcatProperties
      <3>3. QED BY <3>2, LenProperties DEF NoRepeat, IsInjective
    <2>3. ASSUME NEW p \in Producers PROVE ToSet(batch[p]) \cap Queued = {}
      <3>1. /\ \A o : o \in ToSet(FrontList) <=> Holds(FrontList, o)
            /\ \A o : o \in ToSet(Stack) <=> Holds(Stack, o)
        BY <1>1, QueueFacts, HoldsToSet
      <3>2. \A o : o \in ToSet(batch[p]) => o \in Nodes /\ Holds(batch[p], o)
        <4>1. batch[p] \in Seq(Nodes)
          BY <1>1 DEF QueueInv, QueueTypeOK
        <4>2. QED BY <4>1, HoldsToSet
      <3>3. QED
        BY <1>1, <3>1, <3>2 DEF QueueInv, PlacesAre, InOnePlace, Queued, FrontList, Stack
    <2>4. QueueTypeOK
      BY <1>1 DEF QueueInv
    <2>5. QED BY <2>1, <2>2, <2>3, <2>4 DEF LinksAreClean, FrontList, Stack
  <1>2. QED BY <1>1, QueueInvariance, PTL

(***************************************************************************)
(* The refinement of FifoQueue: a successful exchange appends its batch.   *)
(***************************************************************************)

LEMMA ContentsAre ==
    ASSUME QueueInv
    PROVE  /\ Contents = FrontList \o Reverse(Stack)
           /\ Reverse(Stack) \in Seq(Nodes) /\ Contents \in Seq(Nodes)
           /\ \A o : Holds(Contents, o) <=> Holds(FrontList, o) \/ Holds(Stack, o)
  <1>1. Contents = FrontList \o Reverse(Stack)
    BY DEF Contents, FrontList, Stack
  <1>2. /\ FrontList \in Seq(Nodes) /\ Reverse(Stack) \in Seq(Nodes)
        /\ \A o : Holds(Reverse(Stack), o) <=> Holds(Stack, o)
    BY QueueFacts, ReverseIs, ReverseHolds
  <1>3. /\ FrontList \o Reverse(Stack) \in Seq(Nodes)
        /\ \A o : Holds(FrontList \o Reverse(Stack), o)
                    <=> Holds(FrontList, o) \/ Holds(Reverse(Stack), o)
    BY <1>2, ConcatProperties, ConcatHolds
  <1>4. QED BY <1>1, <1>2, <1>3

\* A fresh queue is a fresh FifoQueue.
LEMMA QueueRefinesInit == QueueInit => Fifo!FifoInit
  <1> SUFFICES ASSUME QueueInit PROVE Fifo!FifoInit
    OBVIOUS
  <1>1. FrontList = <<>> /\ Stack = <<>>
    BY QueueInvInit
  <1>2. Contents = <<>>
    BY <1>1, TurnedLine DEF Contents, FrontList, Stack
  <1>3. QED BY <1>2 DEF QueueInit, Fifo!FifoInit

\* What was pushed is appended.
LEMMA PushAppends ==
    ASSUME QueueInv, NEW p \in Producers, ppc[p] = "cas", taken' = taken,
           FrontList' = FrontList, Stack' = Pushed(batch[p])
    PROVE  Fifo!FifoNext
  <1> DEFINE b == batch[p]
  <1>1. /\ b \in Seq(Nodes) /\ Len(b) \in 1..2 /\ b[1] \in Nodes
        /\ Len(b) = 1 => b = <<b[1]>>
        /\ Len(b) = 2 => b = <<b[1], b[2]>> /\ b[2] \in Nodes
    BY BatchIs
  <1>2. FrontList \in Seq(Nodes) /\ Stack \in Seq(Nodes) /\ Contents \in Seq(Nodes)
        /\ Contents = FrontList \o Reverse(Stack)
    BY QueueFacts, ContentsAre
  <1> HIDE DEF b
  <1>3. FrontList \o Reverse(<<b[1]>> \o Stack) = Append(Contents, b[1])
    BY <1>1, <1>2, TurnedLineGrows
  <1>4. Contents' = Contents \o b
    <2>1. Contents' = FrontList \o Reverse(Pushed(b))
      BY DEF Contents, FrontList, Stack, b
    <2>2. CASE Len(b) = 1
      <3>1. Pushed(b) = <<b[1]>> \o Stack
        BY <2>2 DEF Pushed
      <3>2. Append(Contents, b[1]) = Contents \o <<b[1]>>
        BY <1>1, <1>2, AppendsAre
      <3>3. QED BY <1>1, <1>3, <2>1, <2>2, <3>1, <3>2
    <2>3. CASE Len(b) = 2
      <3>1. Pushed(b) = <<b[2]>> \o (<<b[1]>> \o Stack)
        BY <2>3 DEF Pushed
      <3>2. <<b[1]>> \o Stack \in Seq(Nodes)
        BY <1>1, <1>2, PushHolds
      <3>3. FrontList \o Reverse(<<b[2]>> \o (<<b[1]>> \o Stack))
              = Append(FrontList \o Reverse(<<b[1]>> \o Stack), b[2])
        <4> DEFINE r == <<b[1]>> \o Stack
        <4>1. r \in Seq(Nodes) /\ b[2] \in Nodes /\ FrontList \in Seq(Nodes)
          BY <1>1, <1>2, <2>3, <3>2
        <4> HIDE DEF r
        <4>2. FrontList \o Reverse(<<b[2]>> \o r) = Append(FrontList \o Reverse(r), b[2])
          BY <4>1, TurnedLineGrows
        <4>3. QED BY <4>2 DEF r
      <3>4. Append(Append(Contents, b[1]), b[2]) = Contents \o <<b[1], b[2]>>
        BY <1>1, <1>2, <2>3, AppendsAre
      <3>5. QED BY <1>1, <1>3, <2>1, <2>3, <3>1, <3>3, <3>4
    <2>4. QED BY <1>1, <2>2, <2>3
  <1>5. b \in Fifo!Batches
    <2>1. Len(b) \in 1..2 /\ b \in [1..Len(b) -> Nodes]
      BY <1>1, LenProperties
    <2>2. NoRepeat(b) /\ DOMAIN b = 1..Len(b)
      BY <1>1, LenProperties DEF QueueInv, BatchInv, b
    <2>3. Fifo!IsInjective(b)
      BY <2>2 DEF Fifo!IsInjective, NoRepeat
    <2>4. QED BY <2>1, <2>3 DEF Fifo!Batches
  <1>6. Fifo!ToSet(b) \cap Fifo!ToSet(Contents) = {}
    <2>1. ASSUME NEW o \in Fifo!ToSet(b) PROVE o \notin Fifo!ToSet(Contents)
      <3>1. Holds(b, o) /\ o \in Nodes
        BY <1>1, <2>1, LenProperties, ElementOfSeq DEF Fifo!ToSet, Holds
      <3>2. ~Holds(Contents, o)
        BY <3>1, ContentsAre DEF QueueInv, PlacesAre, InOnePlace, b
      <3>3. QED BY <1>2, <3>2, LenProperties DEF Fifo!ToSet, Holds
    <2>2. QED BY <2>1
  <1>7. Fifo!AppendBatch(b)
    BY <1>4, <1>6 DEF Fifo!AppendBatch
  <1>8. QED BY <1>5, <1>7 DEF Fifo!FifoNext

\* Every step of the code is a step of FifoQueue or none of its business.
LEMMA QueueRefinesNext ==
    ASSUME QueueInv, [QueueNext]_queueVars
    PROVE  [Fifo!FifoNext]_(Fifo!fifoVars)
  <1>1. CASE FrontList' = FrontList /\ Stack' = Stack /\ taken' = taken
    BY <1>1 DEF Fifo!fifoVars, Contents, FrontList, Stack
  <1>2. ASSUME NEW p \in Producers, ppc[p] = "cas", taken' = taken,
               FrontList' = FrontList, Stack' = Pushed(batch[p])
        PROVE  Fifo!FifoNext
    BY <1>2, PushAppends
  <1>3. CASE DequeueFront
    <2>1. /\ FrontList' = Tail(FrontList) /\ Stack' = Stack /\ FrontList # <<>>
          /\ taken' = FrontList[1]
          /\ FrontList \in Seq(Nodes) /\ Reverse(Stack) \in Seq(Nodes)
          /\ Contents = FrontList \o Reverse(Stack)
      BY <1>3, FrontStep, QueueFacts, ContentsAre
    <2>2. Contents' = Tail(FrontList) \o Reverse(Stack)
      BY <2>1 DEF Contents, FrontList, Stack
    <2>3. /\ Contents # <<>> /\ Contents' = Tail(Contents)
          /\ Head(Contents) = Head(FrontList)
      BY <2>1, <2>2, HeadTailOfConcat
    <2>4. Head(FrontList) = FrontList[1]
      BY <2>1
    <2>5. QED BY <2>1, <2>3, <2>4 DEF Fifo!Take, Fifo!FifoNext
  <1>4. CASE DequeueIncoming
    <2>1. /\ FrontList' = Tail(Reverse(Stack)) /\ Stack' = <<>> /\ FrontList = <<>>
          /\ Reverse(Stack) # <<>> /\ taken' = Reverse(Stack)[1]
          /\ Reverse(Stack) \in Seq(Nodes) /\ Contents = FrontList \o Reverse(Stack)
      BY <1>4, IncomingStep, ContentsAre
    <2>2. Contents = Reverse(Stack)
      BY <2>1, ConcatEmptySeq
    <2>3. Contents' = Tail(Reverse(Stack)) \o Reverse(<<>>)
      BY <2>1 DEF Contents, FrontList, Stack
    <2>4. Reverse(<<>>) = <<>> /\ Tail(Reverse(Stack)) \in Seq(Nodes)
      BY <2>1, HeadTailProperties, ReverseIs, EmptySeq
    <2>5. Contents' = Tail(Contents)
      BY <2>2, <2>3, <2>4, ConcatEmptySeq
    <2>6. Head(Contents) = Reverse(Stack)[1]
      BY <2>1, <2>2
    <2>7. QED BY <2>1, <2>2, <2>5, <2>6 DEF Fifo!Take, Fifo!FifoNext
  <1>5. CASE DequeueNothing
    <2>1. FrontList = <<>> /\ Stack = <<>>
      BY <1>5, QueueFacts DEF DequeueNothing
    <2>2. Contents = <<>>
      BY <2>1, TurnedLine DEF Contents, FrontList, Stack
    <2>3. Contents' = Contents /\ taken' = Null
      BY <1>5 DEF DequeueNothing, Contents, Linked
    <2>4. QED BY <2>2, <2>3 DEF Fifo!TakeNothing, Fifo!FifoNext
  <1>6. QED BY <1>1, <1>2, <1>3, <1>4, <1>5, QueueStep

\* The queue of a context is first in, first out, loses and duplicates
\* nothing, appends batches whole and says empty only when it is, for any
\* number of producers, however their exchanges fail and addresses come back.
THEOREM QueueRefinement == QueueSpec => ImplementsFifo
  <1>1. QueueInv /\ [QueueNext]_queueVars => [Fifo!FifoNext]_(Fifo!fifoVars)
    BY QueueRefinesNext
  <1>2. QED
    BY <1>1, QueueRefinesInit, QueueInvariance, PTL DEF QueueSpec, ImplementsFifo, Fifo!FifoSpec
=============================================================================
