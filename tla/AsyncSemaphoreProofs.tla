------------------------ MODULE AsyncSemaphoreProofs ------------------------
(***************************************************************************)
(* Proofs about AsyncSemaphore, for any number of waiters, any maximum and *)
(* any number of releases, and about Fifo, which is built of two of them.  *)
(* The inductive invariant of the semaphore has three parts: the linked    *)
(* list is some sequence of distinct waiters, which are those that wait;   *)
(* the lock and the counter agree with the waiters' program counters; each *)
(* waiter's callback and outcome agree with its own.                       *)
(***************************************************************************)
EXTENDS AsyncSemaphore, Fifo, ChainProofs

(***************************************************************************)
(* The list as a sequence                                                  *)
(***************************************************************************)

\* The list with head h, tail t and links p and x holds s[1], ..., s[n].
ListIs(n, s, h, t, p, x) ==
    /\ n \in Nat /\ s \in [1..n -> Waiters]
    /\ \A i, j \in 1..n : s[i] = s[j] => i = j
    /\ h = IF n = 0 THEN None ELSE s[1]
    /\ t = IF n = 0 THEN None ELSE s[n]
    /\ \A i \in 1..n : p[s[i]] = IF i = 1 THEN None ELSE s[i - 1]
    /\ \A i \in 1..n : x[s[i]] = IF i = n THEN None ELSE s[i + 1]
    /\ \A w \in Waiters : (\A i \in 1..n : s[i] # w) => p[w] = None /\ x[w] = None

\* The operations that are in the list.
InLine(w) == pc[w] = "waiting" /\ cb[w] # "stopping"

ListInv ==
    \E n \in Nat : \E s \in [1..n -> Waiters] :
        /\ ListIs(n, s, listHead, listTail, prev, next)
        /\ \A w \in Waiters : InLine(w) <=> \E i \in 1..n : s[i] = w

\* The sequence with w behind, and the links with w behind t.
With(n, s, w) == [i \in 1..(n + 1) |-> IF i = n + 1 THEN w ELSE s[i]]
LinkedNext(x, t, w) ==
    IF t = None THEN [x EXCEPT ![w] = None] ELSE [x EXCEPT ![w] = None, ![t] = w]

\* Appending w behind the tail, as start() does.
LEMMA AppendToList ==
    ASSUME NEW n, NEW s, NEW h, NEW t,
           NEW p \in [Waiters -> Waiters \cup {None}],
           NEW x \in [Waiters -> Waiters \cup {None}],
           ListIs(n, s, h, t, p, x),
           NEW w \in Waiters, \A i \in 1..n : s[i] # w
    PROVE  ListIs(n + 1, With(n, s, w), IF t = None THEN w ELSE h, w,
                  [p EXCEPT ![w] = t], LinkedNext(x, t, w))
  <1> DEFINE q == [i \in 1..(n + 1) |-> IF i = n + 1 THEN w ELSE s[i]]
             p1 == [p EXCEPT ![w] = t]
             x1 == IF t = None THEN [x EXCEPT ![w] = None]
                   ELSE [x EXCEPT ![w] = None, ![t] = w]
  <1> USE SemaphoreAssumption
  <1>1. n \in Nat /\ s \in [1..n -> Waiters] /\ q \in [1..(n + 1) -> Waiters]
    BY DEF ListIs
  <1>2. \A i, j \in 1..(n + 1) : q[i] = q[j] => i = j
    BY <1>1 DEF ListIs
  <1>3. t = None <=> n = 0
    BY <1>1 DEF ListIs
  <1>4. \A i \in 1..(n + 1) : p1[q[i]] = IF i = 1 THEN None ELSE q[i - 1]
    BY <1>1 DEF ListIs
  <1>5. \A i \in 1..(n + 1) : x1[q[i]] = IF i = n + 1 THEN None ELSE q[i + 1]
    <2> SUFFICES ASSUME NEW i \in 1..(n + 1)
                 PROVE  x1[q[i]] = IF i = n + 1 THEN None ELSE q[i + 1]
      OBVIOUS
    <2>1. CASE n = 0
      BY <1>1, <1>3, <2>1
    <2>2. CASE n # 0 /\ i = n + 1
      BY <1>1, <1>3, <2>2 DEF ListIs
    <2>3. CASE n # 0 /\ i = n
      BY <1>1, <1>3, <2>3 DEF ListIs
    <2>4. CASE n # 0 /\ i < n
      BY <1>1, <1>3, <2>4 DEF ListIs
    <2>5. QED BY <1>1, <2>1, <2>2, <2>3, <2>4
  <1>6. ASSUME NEW v \in Waiters, \A i \in 1..(n + 1) : q[i] # v
        PROVE  p1[v] = None /\ x1[v] = None
    <2>1. v # w /\ \A i \in 1..n : s[i] # v
      BY <1>1, <1>6
    <2>2. p[v] = None /\ x[v] = None /\ v # t
      BY <1>1, <2>1 DEF ListIs
    <2>3. QED BY <2>1, <2>2
  <1>7. (IF t = None THEN w ELSE h) = q[1] /\ q[n + 1] = w
    BY <1>1, <1>3 DEF ListIs
  <1> HIDE DEF q, p1, x1
  <1>8. ListIs(n + 1, q, IF t = None THEN w ELSE h, w, p1, x1)
    BY <1>1, <1>2, <1>4, <1>5, <1>6, <1>7 DEF ListIs
  <1>9. QED BY <1>8 DEF q, p1, x1, With, LinkedNext
\* unregister_() tells from the links alone whether w is in the list.
LEMMA LinkedIffListed ==
    ASSUME NEW n, NEW s, NEW h, NEW t, NEW p, NEW x,
           ListIs(n, s, h, t, p, x), NEW w \in Waiters
    PROVE  (p[w] # None \/ h = w) <=> \E i \in 1..n : s[i] = w
  <1> USE SemaphoreAssumption
  <1>1. ASSUME NEW i \in 1..n, s[i] = w PROVE p[w] # None \/ h = w
    <2>1. CASE i = 1
      BY <1>1, <2>1 DEF ListIs
    <2>2. CASE i # 1
      BY <1>1, <2>2 DEF ListIs
    <2>3. QED BY <2>1, <2>2
  <1>2. ASSUME \A i \in 1..n : s[i] # w PROVE p[w] = None /\ h # w
    BY <1>2 DEF ListIs
  <1>3. QED BY <1>1, <1>2

\* The sequence without its k-th element, and the links without w.
Without(n, s, k) == [i \in 1..(n - 1) |-> IF i < k THEN s[i] ELSE s[i + 1]]
UnlinkedPrev(p, x, w) ==
    [v \in Waiters |-> IF v = w THEN None ELSE IF v = x[w] THEN p[w] ELSE p[v]]
UnlinkedNext(p, x, w) ==
    [v \in Waiters |-> IF v = w THEN None ELSE IF v = p[w] THEN x[w] ELSE x[v]]

\* Taking the k-th waiter out, as unregister_() and release() do.
LEMMA RemoveFromList ==
    ASSUME NEW n, NEW s, NEW h, NEW t, NEW p, NEW x,
           ListIs(n, s, h, t, p, x), NEW k \in 1..n
    PROVE  ListIs(n - 1, Without(n, s, k),
                  IF p[s[k]] = None THEN x[s[k]] ELSE h,
                  IF x[s[k]] = None THEN p[s[k]] ELSE t,
                  UnlinkedPrev(p, x, s[k]), UnlinkedNext(p, x, s[k]))
  <1> DEFINE w == s[k]
             q == [i \in 1..(n - 1) |-> IF i < k THEN s[i] ELSE s[i + 1]]
             h1 == IF p[w] = None THEN x[w] ELSE h
             t1 == IF x[w] = None THEN p[w] ELSE t
             p1 == [v \in Waiters |-> IF v = w THEN None
                                     ELSE IF v = x[w] THEN p[w] ELSE p[v]]
             x1 == [v \in Waiters |-> IF v = w THEN None
                                     ELSE IF v = p[w] THEN x[w] ELSE x[v]]
  <1> USE SemaphoreAssumption
  <1>1. /\ n \in Nat /\ n # 0 /\ n - 1 \in Nat
        /\ s \in [1..n -> Waiters] /\ q \in [1..(n - 1) -> Waiters] /\ w \in Waiters
    BY DEF ListIs
  <1>2. \A i, j \in 1..n : s[i] = s[j] => i = j
    BY DEF ListIs
  <1>3. /\ p[w] = IF k = 1 THEN None ELSE s[k - 1]
        /\ x[w] = IF k = n THEN None ELSE s[k + 1]
    BY DEF ListIs
  <1>4. p[w] = None <=> k = 1
    BY <1>1, <1>3
  <1>5. x[w] = None <=> k = n
    BY <1>1, <1>3
  <1>6. \A i \in 1..(n - 1) :
            q[i] \in Waiters /\ q[i] # w
    BY <1>1, <1>2
  <1>7. \A i, j \in 1..(n - 1) : q[i] = q[j] => i = j
    BY <1>1, <1>2
  <1>8. h1 = IF n - 1 = 0 THEN None ELSE q[1]
    BY <1>1, <1>3, <1>4 DEF ListIs
  <1>9. t1 = IF n - 1 = 0 THEN None ELSE q[n - 1]
    <2>1. CASE k = n
      BY <1>1, <1>3, <2>1
    <2>2. CASE k # n
      BY <1>1, <1>5, <2>2 DEF ListIs
    <2>3. QED BY <2>1, <2>2
  <1>10. ASSUME NEW i \in 1..(n - 1)
         PROVE  p1[q[i]] = IF i = 1 THEN None ELSE q[i - 1]
    <2>1. CASE i < k
      <3>1. q[i] = s[i] /\ q[i] # x[w]
        BY <1>1, <1>2, <1>3, <2>1
      <3>2. p1[q[i]] = p[s[i]]
        BY <1>6, <3>1
      <3>3. QED BY <1>1, <2>1, <3>2 DEF ListIs
    <2>2. CASE i = k
      <3>1. q[i] = s[k + 1] /\ q[i] = x[w]
        BY <1>1, <1>3, <2>2
      <3>2. p1[q[i]] = p[w]
        BY <1>6, <3>1
      <3>3. QED BY <1>1, <1>3, <2>2, <3>2
    <2>3. CASE i > k
      <3>1. q[i] = s[i + 1] /\ q[i] # x[w]
        BY <1>1, <1>2, <1>3, <2>3
      <3>2. p1[q[i]] = p[s[i + 1]]
        BY <1>6, <3>1
      <3>3. p[s[i + 1]] = s[i]
        BY <1>1, <2>3 DEF ListIs
      <3>4. QED BY <1>1, <2>3, <3>2, <3>3
    <2>4. QED BY <1>1, <2>1, <2>2, <2>3
  <1>11. ASSUME NEW i \in 1..(n - 1)
         PROVE  x1[q[i]] = IF i = n - 1 THEN None ELSE q[i + 1]
    <2>1. CASE i < k - 1
      <3>1. q[i] = s[i] /\ q[i] # p[w]
        BY <1>1, <1>2, <1>3, <2>1
      <3>2. x1[q[i]] = x[s[i]]
        BY <1>6, <3>1
      <3>3. x[s[i]] = s[i + 1]
        BY <1>1, <2>1 DEF ListIs
      <3>4. QED BY <1>1, <2>1, <3>2, <3>3
    <2>2. CASE i = k - 1
      <3>1. q[i] = s[k - 1] /\ q[i] = p[w]
        BY <1>1, <1>3, <2>2
      <3>2. x1[q[i]] = x[w]
        BY <1>6, <3>1
      <3>3. QED BY <1>1, <1>3, <2>2, <3>2
    <2>3. CASE i > k - 1
      <3>1. q[i] = s[i + 1] /\ q[i] # p[w]
        BY <1>1, <1>2, <1>3, <2>3
      <3>2. x1[q[i]] = x[s[i + 1]]
        BY <1>6, <3>1
      <3>3. x[s[i + 1]] = IF i + 1 = n THEN None ELSE s[i + 2]
        BY <1>1, <2>3 DEF ListIs
      <3>4. QED BY <1>1, <2>3, <3>2, <3>3
    <2>4. QED BY <1>1, <2>1, <2>2, <2>3
  <1>12. ASSUME NEW v \in Waiters, \A i \in 1..(n - 1) : q[i] # v
         PROVE  p1[v] = None /\ x1[v] = None
    <2>1. CASE v = w
      BY <2>1
    <2>2. CASE v # w
      <3>1. ASSUME NEW i \in 1..n PROVE s[i] # v
        <4>1. CASE i < k
          BY <1>1, <1>12, <4>1
        <4>2. CASE i = k
          BY <2>2, <4>2
        <4>3. CASE i > k
          <5>1. i - 1 \in 1..(n - 1) /\ q[i - 1] = s[i]
            BY <1>1, <4>3
          <5>2. QED BY <1>12, <5>1
        <4>4. QED BY <1>1, <4>1, <4>2, <4>3
      <3>2. p[v] = None /\ x[v] = None
        BY <3>1 DEF ListIs
      <3>3. v # x[w] /\ v # p[w]
        BY <1>1, <1>3, <3>1
      <3>4. QED BY <2>2, <3>2, <3>3
    <2>3. QED BY <2>1, <2>2
  <1> HIDE DEF q, h1, t1, p1, x1
  <1>13. ListIs(n - 1, q, h1, t1, p1, x1)
    BY <1>1, <1>7, <1>8, <1>9, <1>10, <1>11, <1>12 DEF ListIs
  <1>14. QED BY <1>13 DEF q, h1, t1, p1, x1, Without, UnlinkedPrev, UnlinkedNext
(***************************************************************************)
(* The invariant                                                           *)
(***************************************************************************)

Types ==
    /\ counter \in 0..Maximum
    /\ mtx \in Waiters \cup {None}
    /\ {listHead, listTail} \subseteq Waiters \cup {None}
    /\ prev \in [Waiters -> Waiters \cup {None}]
    /\ next \in [Waiters -> Waiters \cup {None}]
    /\ pc \in [Waiters -> Labels]
    /\ cb \in [Waiters -> Callbacks]
    /\ stop \subseteq Waiters
    /\ outcome \in [Waiters -> {"none", "value", "stopped"}]
    /\ releases \in 0..MaxReleases
    /\ terminated \in BOOLEAN

\* mtx_ is held exactly in the critical section of start(); what was found
\* there without a permit is still true at the append; no idle permit.
LockInv ==
    /\ \A w \in Waiters : mtx = w <=> pc[w] \in {"recheck", "try", "append"}
    /\ \A w \in Waiters : pc[w] = "append" => counter = 0
    /\ listHead # None => counter = 0

\* A waiter's callback and outcome, as far as its program counter fixes them.
WaiterInv(w) ==
    /\ pc[w] \in {"idle", "emplace"} => cb[w] = "none"
    /\ pc[w] \in {"lock", "inline", "recheck", "try", "append", "stopped", "complete"} =>
          cb[w] \in {"registered", "running", "returned"}
    /\ pc[w] = "inline" => cb[w] # "registered"
    /\ pc[w] = "waiting" => cb[w] # "none"
    /\ pc[w] = "done" => cb[w] \in {"none", "returned"}
    /\ pc[w] = "done" <=> outcome[w] # "none"
    /\ cb[w] = "running" => w \in stop

SemInv == Types /\ ListInv /\ LockInv /\ \A w \in Waiters : WaiterInv(w)

\* A fresh semaphore has an empty list and only its permits.
LEMMA SemInit == Init => SemInv
  <1> SUFFICES ASSUME Init PROVE SemInv
    OBVIOUS
  <1> USE SemaphoreAssumption DEF Init
  <1>1. Types
    <2>1. counter \in 0..Maximum /\ releases \in 0..MaxReleases
      BY DEF Types
    <2>2. /\ prev \in [Waiters -> Waiters \cup {None}]
          /\ next \in [Waiters -> Waiters \cup {None}]
          /\ pc \in [Waiters -> Labels]
          /\ cb \in [Waiters -> Callbacks]
          /\ outcome \in [Waiters -> {"none", "value", "stopped"}]
      BY DEF Labels, Callbacks
    <2>3. QED BY <2>1, <2>2 DEF Types
  <1>2. ListInv
    <2> DEFINE s == [i \in 1..0 |-> None]
    <2>1. s \in [1..0 -> Waiters]
      OBVIOUS
    <2>2. ListIs(0, s, listHead, listTail, prev, next)
      BY <2>1 DEF ListIs
    <2>3. \A w \in Waiters : ~InLine(w)
      BY DEF InLine
    <2>4. QED BY <2>1, <2>2, <2>3 DEF ListInv
  <1>3. LockInv
    BY DEF LockInv
  <1>4. \A w \in Waiters : WaiterInv(w)
    BY DEF WaiterInv
  <1>5. QED BY <1>1, <1>2, <1>3, <1>4 DEF SemInv

\* A step that touches neither the list nor anybody's place in it.
LEMMA ListKept ==
    ASSUME ListInv, UNCHANGED listVars,
           \A w \in Waiters : InLine(w)' <=> InLine(w)
    PROVE  ListInv'
  BY DEF ListInv, listVars

\* Taking the waiter w out of the list, with everybody else staying.
LEMMA ListShrinks ==
    ASSUME ListInv, NEW w \in Waiters, InLine(w), Unlink(w),
           \A v \in Waiters : InLine(v)' <=> (InLine(v) /\ v # w)
    PROVE  ListInv'
  <1>0. PICK n \in Nat : \E s \in [1..n -> Waiters] :
            /\ ListIs(n, s, listHead, listTail, prev, next)
            /\ \A v \in Waiters : InLine(v) <=> \E i \in 1..n : s[i] = v
    BY DEF ListInv
  <1>1. PICK s \in [1..n -> Waiters] :
            /\ ListIs(n, s, listHead, listTail, prev, next)
            /\ \A v \in Waiters : InLine(v) <=> \E i \in 1..n : s[i] = v
    BY <1>0
  <1>2. PICK k \in 1..n : s[k] = w
    BY <1>1
  <1> DEFINE q == Without(n, s, k)
  <1>3. ListIs(n - 1, q, listHead', listTail', prev', next')
    <2>1. ListIs(n - 1, q,
                 IF prev[s[k]] = None THEN next[s[k]] ELSE listHead,
                 IF next[s[k]] = None THEN prev[s[k]] ELSE listTail,
                 UnlinkedPrev(prev, next, s[k]), UnlinkedNext(prev, next, s[k]))
      BY <1>1, RemoveFromList
    <2>2. QED BY <1>2, <2>1 DEF Unlink, UnlinkedPrev, UnlinkedNext
  <1>4. n - 1 \in Nat /\ q \in [1..(n - 1) -> Waiters]
    BY <1>3 DEF ListIs
  <1>5. ASSUME NEW v \in Waiters
        PROVE  InLine(v)' <=> \E i \in 1..(n - 1) : q[i] = v
    <2>1. ASSUME NEW i \in 1..(n - 1) PROVE InLine(q[i]) /\ q[i] # w
      BY <1>1, <1>2, <2>1 DEF ListIs, Without
    <2>2. ASSUME NEW i \in 1..n, s[i] # w PROVE \E j \in 1..(n - 1) : q[j] = s[i]
      <3>1. CASE i < k
        BY <3>1 DEF Without
      <3>2. CASE i > k
        <4>1. i - 1 \in 1..(n - 1) /\ q[i - 1] = s[i]
          BY <3>2 DEF Without
        <4>2. QED BY <4>1
      <3>3. QED BY <1>2, <2>2, <3>1, <3>2
    <2>3. QED BY <1>1, <2>1, <2>2
  <1>6. QED BY <1>3, <1>4, <1>5 DEF ListInv
\* The append at the end of start()'s critical section.
LEMMA ListGrows ==
    ASSUME ListInv, Types, NEW w \in Waiters, ~InLine(w), InLine(w)',
           AppendWaiter(w),
           \A v \in Waiters \ {w} : InLine(v)' <=> InLine(v)
    PROVE  ListInv'
  <1>0. PICK n \in Nat : \E s \in [1..n -> Waiters] :
            /\ ListIs(n, s, listHead, listTail, prev, next)
            /\ \A v \in Waiters : InLine(v) <=> \E i \in 1..n : s[i] = v
    BY DEF ListInv
  <1>1. PICK s \in [1..n -> Waiters] :
            /\ ListIs(n, s, listHead, listTail, prev, next)
            /\ \A v \in Waiters : InLine(v) <=> \E i \in 1..n : s[i] = v
    BY <1>0
  <1> DEFINE q == With(n, s, w)
  <1>2. ListIs(n + 1, q, listHead', listTail', prev', next')
    <2>1. \A i \in 1..n : s[i] # w
      BY <1>1
    <2>2. ListIs(n + 1, q, IF listTail = None THEN w ELSE listHead, w,
                 [prev EXCEPT ![w] = listTail], LinkedNext(next, listTail, w))
      BY <1>1, <2>1, AppendToList DEF Types
    <2>3. QED BY <2>2 DEF AppendWaiter, LinkedNext
  <1>3. n + 1 \in Nat /\ q \in [1..(n + 1) -> Waiters]
    BY <1>2 DEF ListIs
  <1>4. ASSUME NEW v \in Waiters
        PROVE  InLine(v)' <=> \E i \in 1..(n + 1) : q[i] = v
    <2>1. q[n + 1] = w /\ \A i \in 1..n : q[i] = s[i]
      BY DEF With
    <2>2. QED BY <1>1, <2>1
  <1>5. QED BY <1>2, <1>3, <1>4 DEF ListInv

\* An empty head means an empty line; the links tell who is in it.
LEMMA LineFacts ==
    ASSUME ListInv, NEW w \in Waiters
    PROVE  /\ prev[w] # None \/ listHead = w <=> InLine(w)
           /\ InLine(w) => listHead # None
           /\ InLine(w) \/ (w \notin {listHead, listTail} /\ prev[w] = None /\ next[w] = None)
           /\ listHead # None => listHead \in Waiters
           /\ listTail # None => listTail \in Waiters
  <1> USE SemaphoreAssumption
  <1>0. PICK n \in Nat : \E s \in [1..n -> Waiters] :
            /\ ListIs(n, s, listHead, listTail, prev, next)
            /\ \A v \in Waiters : InLine(v) <=> \E i \in 1..n : s[i] = v
    BY DEF ListInv
  <1>1. PICK s \in [1..n -> Waiters] :
            /\ ListIs(n, s, listHead, listTail, prev, next)
            /\ \A v \in Waiters : InLine(v) <=> \E i \in 1..n : s[i] = v
    BY <1>0
  <1>2. prev[w] # None \/ listHead = w <=> InLine(w)
    BY <1>1, LinkedIffListed
  <1>3. InLine(w) => listHead # None
    BY <1>1 DEF ListIs
  <1>4. ~InLine(w) => w \notin {listHead, listTail} /\ prev[w] = None /\ next[w] = None
    BY <1>1 DEF ListIs
  <1>5. (listHead # None => listHead \in Waiters) /\ (listTail # None => listTail \in Waiters)
    BY <1>1 DEF ListIs
  <1>6. QED BY <1>2, <1>3, <1>4, <1>5
\* One step per action; the list lemmas carry the three that relink it.
LEMMA SemNext == SemInv /\ [Next]_vars => SemInv'
  <1> SUFFICES ASSUME SemInv, [Next]_vars PROVE SemInv'
    OBVIOUS
  <1> USE SemaphoreAssumption
  <1>1. CASE UNCHANGED vars
    BY <1>1 DEF vars, listVars, opVars, SemInv, Types, ListInv, InLine, LockInv, WaiterInv
  <1>2. ASSUME NEW w \in Waiters, Start(w) PROVE SemInv'
    <2> USE <1>2 DEF Start, Goto, Tell
    <2> WaiterInv(w)
      BY DEF SemInv
    <2>1. Types'
      BY DEF SemInv, Types, Labels, Callbacks, listVars
    <2>2. ListInv'
      <3>1. \A v \in Waiters : InLine(v)' <=> InLine(v)
        BY DEF SemInv, Types, WaiterInv, InLine
      <3>2. QED BY <3>1, ListKept DEF SemInv, listVars
    <2>3. LockInv'
      BY DEF SemInv, Types, LockInv, listVars, WaiterInv
    <2>4. ASSUME NEW v \in Waiters PROVE WaiterInv(v)'
      BY DEF SemInv, Types, WaiterInv, Labels
    <2>5. QED BY <2>1, <2>2, <2>3, <2>4 DEF SemInv
  <1>3. ASSUME NEW w \in Waiters, EmplaceCallback(w) PROVE SemInv'
    <2> USE <1>3 DEF EmplaceCallback, Goto, Tell
    <2> WaiterInv(w)
      BY DEF SemInv
    <2>1. Types'
      BY DEF SemInv, Types, Labels, Callbacks, listVars
    <2>2. ListInv'
      <3>1. \A v \in Waiters : InLine(v)' <=> InLine(v)
        BY DEF SemInv, Types, WaiterInv, InLine
      <3>2. QED BY <3>1, ListKept DEF SemInv, listVars
    <2>3. LockInv'
      BY DEF SemInv, Types, LockInv, listVars, WaiterInv
    <2>4. ASSUME NEW v \in Waiters PROVE WaiterInv(v)'
      BY DEF SemInv, Types, WaiterInv, Labels
    <2>5. QED BY <2>1, <2>2, <2>3, <2>4 DEF SemInv
  <1>4. ASSUME NEW w \in Waiters, Lock(w) PROVE SemInv'
    <2> USE <1>4 DEF Lock, Goto, Tell
    <2> WaiterInv(w)
      BY DEF SemInv
    <2>1. Types'
      BY DEF SemInv, Types, Labels, Callbacks, listVars
    <2>2. ListInv'
      <3>1. \A v \in Waiters : InLine(v)' <=> InLine(v)
        BY DEF SemInv, Types, WaiterInv, InLine
      <3>2. QED BY <3>1, ListKept DEF SemInv, listVars
    <2>3. LockInv'
      BY DEF SemInv, Types, LockInv, listVars, WaiterInv
    <2>4. ASSUME NEW v \in Waiters PROVE WaiterInv(v)'
      BY DEF SemInv, Types, WaiterInv, Labels
    <2>5. QED BY <2>1, <2>2, <2>3, <2>4 DEF SemInv
  <1>5. ASSUME NEW w \in Waiters, Recheck(w) PROVE SemInv'
    <2> USE <1>5 DEF Recheck, Goto, Tell
    <2> WaiterInv(w)
      BY DEF SemInv
    <2>1. Types'
      BY DEF SemInv, Types, Labels, Callbacks, listVars
    <2>2. ListInv'
      <3>1. \A v \in Waiters : InLine(v)' <=> InLine(v)
        BY DEF SemInv, Types, WaiterInv, InLine
      <3>2. QED BY <3>1, ListKept DEF SemInv, listVars
    <2>3. LockInv'
      BY DEF SemInv, Types, LockInv, listVars, WaiterInv
    <2>4. ASSUME NEW v \in Waiters PROVE WaiterInv(v)'
      BY DEF SemInv, Types, WaiterInv, Labels
    <2>5. QED BY <2>1, <2>2, <2>3, <2>4 DEF SemInv
  <1>6. ASSUME NEW w \in Waiters, TryPermit(w) PROVE SemInv'
    <2> USE <1>6 DEF TryPermit, Goto, Tell
    <2> WaiterInv(w)
      BY DEF SemInv
    <2>1. Types'
      BY DEF SemInv, Types, Labels, Callbacks, listVars
    <2>2. ListInv'
      <3>1. \A v \in Waiters : InLine(v)' <=> InLine(v)
        BY DEF SemInv, Types, WaiterInv, InLine
      <3>2. QED BY <3>1, ListKept DEF SemInv, listVars
    <2>3. LockInv'
      BY DEF SemInv, Types, LockInv, listVars, WaiterInv
    <2>4. ASSUME NEW v \in Waiters PROVE WaiterInv(v)'
      BY DEF SemInv, Types, WaiterInv, Labels
    <2>5. QED BY <2>1, <2>2, <2>3, <2>4 DEF SemInv
  <1>7. ASSUME NEW w \in Waiters, AppendWaiter(w) PROVE SemInv'
    <2> USE <1>7 DEF AppendWaiter, Goto, Tell
    <2> WaiterInv(w)
      BY DEF SemInv
    <2>1. Types'
      BY DEF SemInv, Types, Labels, Callbacks, listVars
    <2>2. ListInv'
      <3>1. /\ ~InLine(w) /\ InLine(w)'
            /\ \A v \in Waiters \ {w} : InLine(v)' <=> InLine(v)
        BY DEF SemInv, Types, WaiterInv, InLine
      <3>2. QED BY <3>1, ListGrows DEF SemInv
    <2>3. LockInv'
      BY DEF SemInv, Types, LockInv, listVars, WaiterInv
    <2>4. ASSUME NEW v \in Waiters PROVE WaiterInv(v)'
      BY DEF SemInv, Types, WaiterInv, Labels
    <2>5. QED BY <2>1, <2>2, <2>3, <2>4 DEF SemInv
  <1>8. ASSUME NEW w \in Waiters, Complete(w) PROVE SemInv'
    <2> USE <1>8 DEF Complete, Goto, Tell
    <2> WaiterInv(w)
      BY DEF SemInv
    <2>1. Types'
      BY DEF SemInv, Types, Labels, Callbacks, listVars
    <2>2. ListInv'
      <3>1. \A v \in Waiters : InLine(v)' <=> InLine(v)
        BY DEF SemInv, Types, WaiterInv, InLine
      <3>2. QED BY <3>1, ListKept DEF SemInv, listVars
    <2>3. LockInv'
      BY DEF SemInv, Types, LockInv, listVars, WaiterInv
    <2>4. ASSUME NEW v \in Waiters PROVE WaiterInv(v)'
      BY DEF SemInv, Types, WaiterInv, Labels
    <2>5. QED BY <2>1, <2>2, <2>3, <2>4 DEF SemInv
  <1>9. ASSUME NEW w \in Waiters, RequestStop(w) PROVE SemInv'
    <2> USE <1>9 DEF RequestStop, Goto, Tell
    <2> WaiterInv(w)
      BY DEF SemInv
    <2>1. Types'
      BY DEF SemInv, Types, Labels, Callbacks, listVars
    <2>2. ListInv'
      <3>1. \A v \in Waiters : InLine(v)' <=> InLine(v)
        BY DEF SemInv, Types, WaiterInv, InLine
      <3>2. QED BY <3>1, ListKept DEF SemInv, listVars
    <2>3. LockInv'
      BY DEF SemInv, Types, LockInv, listVars, WaiterInv
    <2>4. ASSUME NEW v \in Waiters PROVE WaiterInv(v)'
      BY DEF SemInv, Types, WaiterInv, Labels
    <2>5. QED BY <2>1, <2>2, <2>3, <2>4 DEF SemInv
  <1>10. ASSUME NEW w \in Waiters, InvokeCallback(w) PROVE SemInv'
    <2> USE <1>10 DEF InvokeCallback, Goto, Tell
    <2> WaiterInv(w)
      BY DEF SemInv
    <2>1. Types'
      BY DEF SemInv, Types, Labels, Callbacks, listVars
    <2>2. ListInv'
      <3>1. \A v \in Waiters : InLine(v)' <=> InLine(v)
        BY DEF SemInv, Types, WaiterInv, InLine
      <3>2. QED BY <3>1, ListKept DEF SemInv, listVars
    <2>3. LockInv'
      BY DEF SemInv, Types, LockInv, listVars, WaiterInv
    <2>4. ASSUME NEW v \in Waiters PROVE WaiterInv(v)'
      BY DEF SemInv, Types, WaiterInv, Labels
    <2>5. QED BY <2>1, <2>2, <2>3, <2>4 DEF SemInv
  <1>11. ASSUME NEW w \in Waiters, Unregister(w) PROVE SemInv'
    <2> WaiterInv(w)
      BY DEF SemInv
    <2>1. CASE prev[w] # None \/ listHead = w
      <3> USE <1>11, <2>1 DEF Unregister
      <3>1. InLine(w) /\ listHead # None
        BY LineFacts DEF SemInv
      <3>2. Types'
        BY <3>1 DEF SemInv, Types, Callbacks, Unlink
      <3>3. ListInv'
        <4>1. \A v \in Waiters : InLine(v)' <=> (InLine(v) /\ v # w)
          BY DEF SemInv, Types, InLine
        <4>2. QED BY <3>1, <4>1, ListShrinks DEF SemInv
      <3>4. LockInv'
        BY <3>1 DEF SemInv, LockInv
      <3>5. ASSUME NEW v \in Waiters PROVE WaiterInv(v)'
        BY <3>1 DEF SemInv, Types, WaiterInv, InLine
      <3>6. QED BY <3>2, <3>3, <3>4, <3>5 DEF SemInv
    <2>2. CASE ~(prev[w] # None \/ listHead = w)
      <3> USE <1>11, <2>2 DEF Unregister
      <3>2. Types'
        BY DEF SemInv, Types, Callbacks, listVars
      <3>3. ListInv'
        <4>1. \A v \in Waiters : InLine(v)' <=> InLine(v)
          BY DEF SemInv, Types, InLine
        <4>2. QED BY <4>1, ListKept DEF SemInv
      <3>4. LockInv'
        BY DEF SemInv, LockInv, listVars
      <3>5. ASSUME NEW v \in Waiters PROVE WaiterInv(v)'
        BY DEF SemInv, Types, WaiterInv
      <3>6. QED BY <3>2, <3>3, <3>4, <3>5 DEF SemInv
    <2>3. QED BY <2>1, <2>2
  <1>12. ASSUME NEW w \in Waiters, SetStopped(w) PROVE SemInv'
    <2> USE <1>12 DEF SetStopped, Goto, Tell
    <2> WaiterInv(w)
      BY DEF SemInv
    <2>1. Types'
      BY DEF SemInv, Types, Labels, Callbacks, listVars
    <2>2. ListInv'
      <3>1. \A v \in Waiters : InLine(v)' <=> InLine(v)
        BY DEF SemInv, Types, WaiterInv, InLine
      <3>2. QED BY <3>1, ListKept DEF SemInv, listVars
    <2>3. LockInv'
      BY DEF SemInv, Types, LockInv, listVars, WaiterInv
    <2>4. ASSUME NEW v \in Waiters PROVE WaiterInv(v)'
      BY DEF SemInv, Types, WaiterInv, Labels
    <2>5. QED BY <2>1, <2>2, <2>3, <2>4 DEF SemInv
  <1>13. ASSUME Release, GivePermit PROVE SemInv'
    <2> DEFINE w == listHead
    <2> USE <1>13 DEF Release, GivePermit, Goto
    <2>1. w \in Waiters /\ InLine(w) /\ counter = 0
      <3>1. w \in Waiters
        BY DEF SemInv, Types
      <3>2. QED BY <3>1, LineFacts DEF SemInv, LockInv
    <2>2. WaiterInv(w)
      BY <2>1 DEF SemInv
    <2>3. Types'
      BY <2>1 DEF SemInv, Types, Labels, Unlink
    <2>4. ListInv'
      <3>1. \A v \in Waiters : InLine(v)' <=> (InLine(v) /\ v # w)
        BY <2>1 DEF SemInv, Types, InLine
      <3>2. QED BY <2>1, <3>1, ListShrinks DEF SemInv
    <2>5. LockInv'
      BY <2>1 DEF SemInv, Types, LockInv, InLine
    <2>6. ASSUME NEW v \in Waiters PROVE WaiterInv(v)'
      BY <2>1, <2>2 DEF SemInv, Types, WaiterInv, InLine, Callbacks
    <2>7. QED BY <2>3, <2>4, <2>5, <2>6 DEF SemInv
  <1>14. ASSUME Release, PutBack PROVE SemInv'
    <2> USE <1>14 DEF Release, PutBack
    <2>1. Types'
      <3>1. counter' \in 0..Maximum /\ releases' \in 0..MaxReleases
        BY DEF SemInv, Types
      <3>2. QED BY <3>1 DEF SemInv, Types, listVars
    <2>2. ListInv'
      <3>1. \A v \in Waiters : InLine(v)' <=> InLine(v)
        BY DEF InLine
      <3>2. QED BY <3>1, ListKept DEF SemInv
    <2>3. LockInv'
      BY DEF SemInv, LockInv, listVars
    <2>4. ASSUME NEW v \in Waiters PROVE WaiterInv(v)'
      BY DEF SemInv, WaiterInv
    <2>5. QED BY <2>1, <2>2, <2>3, <2>4 DEF SemInv
  <1>15. ASSUME TryAcquire PROVE SemInv'
    <2> USE <1>15 DEF TryAcquire
    <2>1. Types'
      BY DEF SemInv, Types, listVars, opVars
    <2>2. ListInv'
      <3>1. \A v \in Waiters : InLine(v)' <=> InLine(v)
        BY DEF InLine, opVars
      <3>2. QED BY <3>1, ListKept DEF SemInv
    <2>3. LockInv'
      BY DEF SemInv, Types, LockInv, listVars, opVars
    <2>4. ASSUME NEW v \in Waiters PROVE WaiterInv(v)'
      BY DEF SemInv, WaiterInv, opVars
    <2>5. QED BY <2>1, <2>2, <2>3, <2>4 DEF SemInv
  <1>16. QED
    BY <1>1, <1>2, <1>3, <1>4, <1>5, <1>6, <1>7, <1>8, <1>9, <1>10, <1>11, <1>12, <1>13, <1>14, <1>15
    DEF Next, Starting, Stopping, Release

\* The list, the lock, the counter and every waiter stay consistent.
THEOREM SemInvariance == Spec => []SemInv
  BY SemInit, SemNext, PTL DEF Spec

\* The counter stays within 0 and max(), and mtx_ is held exactly inside the
\* critical section of start().
THEOREM TypeCorrect == Spec => []TypeOK
  <1>1. SemInv => TypeOK
    BY DEF SemInv, Types, LockInv, TypeOK
  <1>2. QED BY <1>1, SemInvariance, PTL

\* No operation of acquire() waits in the list while counter_ is positive.
THEOREM NoPermitIdles == Spec => []NoIdlePermit
  <1>1. SemInv => NoIdlePermit
    BY DEF SemInv, LockInv, NoIdlePermit
  <1>2. QED BY <1>1, SemInvariance, PTL

\* When set_value or set_stopped is called the operation is out of start(),
\* out of its stop callback and out of the list.
THEOREM DeliveryIsLast == Spec => []NoUseAfterDelivery
  <1>1. ASSUME SemInv, NEW w \in Waiters, outcome[w] # "none"
        PROVE  /\ pc[w] = "done"
               /\ cb[w] \in {"none", "returned"}
               /\ w \notin {listHead, listTail} /\ prev[w] = None /\ next[w] = None
    <2>1. WaiterInv(w)
      BY <1>1 DEF SemInv
    <2>2. pc[w] = "done" /\ ~InLine(w)
      BY <1>1, <2>1 DEF WaiterInv, InLine
    <2>3. QED BY <1>1, <2>1, <2>2, LineFacts DEF SemInv, WaiterInv
  <1>2. SemInv => NoUseAfterDelivery
    BY <1>1 DEF NoUseAfterDelivery
  <1>3. QED BY <1>2, SemInvariance, PTL

(***************************************************************************)
(* The list, walked from either end                                        *)
(***************************************************************************)

\* A traversal along next_ visits the sequence, one along prev_ its reverse.
LEMMA WalksAgree ==
    ASSUME NEW n, NEW s, NEW h, NEW t,
           NEW p \in [Waiters -> Waiters \cup {None}],
           NEW x \in [Waiters -> Waiters \cup {None}],
           ListIs(n, s, h, t, p, x)
    PROVE  /\ s \in Seq(Waiters) /\ Len(s) = n
           /\ Chain(h, x, None) = s
           /\ Chain(t, p, None) = Reverse(s)
  <1> USE SemaphoreAssumption
  <1>1. n \in Nat /\ s \in [1..n -> Waiters] /\ s \in Seq(Waiters) /\ Len(s) = n
    BY DEF ListIs
  <1>2. Leads(h, s, x, None)
    BY <1>1 DEF ListIs, Leads
  <1> DEFINE r == [i \in 1..n |-> s[(n - i) + 1]]
  <1>3. r \in Seq(Waiters) /\ Len(r) = n /\ r = Reverse(s)
    BY <1>1 DEF Reverse
  <1>4. \A i, j \in 1..n : r[i] = r[j] => i = j
    BY <1>1 DEF ListIs
  <1>5. t = IF r = <<>> THEN None ELSE r[1]
    <2>1. t = IF n = 0 THEN None ELSE s[n]
      BY DEF ListIs
    <2>2. n # 0 => r[1] = s[n]
      BY <1>1
    <2>3. r = <<>> <=> n = 0
      <3> HIDE DEF r
      <3>1. QED BY <1>1, <1>3
    <2>4. QED BY <2>1, <2>2, <2>3
  <1>6. \A i \in 1..n : p[r[i]] = IF i = n THEN None ELSE r[i + 1]
    <2> SUFFICES ASSUME NEW i \in 1..n
                 PROVE  p[r[i]] = IF i = n THEN None ELSE r[i + 1]
      OBVIOUS
    <2>1. (n - i) + 1 \in 1..n /\ p[s[(n - i) + 1]] = IF (n - i) + 1 = 1 THEN None ELSE s[n - i]
      BY <1>1 DEF ListIs
    <2>2. QED BY <1>1, <2>1
  <1> HIDE DEF r
  <1>7. Leads(t, r, p, None)
    BY <1>3, <1>4, <1>5, <1>6 DEF Leads
  <1>8. QED BY <1>1, <1>2, <1>3, <1>7, ChainIs

\* The links are those of Line.
LEMMA LineIsListed ==
    ASSUME SemInv
    PROVE  /\ Line \in Seq(Waiters)
           /\ ListIs(Len(Line), Line, listHead, listTail, prev, next)
           /\ \A w \in Waiters : InLine(w) <=> \E i \in 1..Len(Line) : Line[i] = w
  <1>0. PICK n \in Nat : \E s \in [1..n -> Waiters] :
            /\ ListIs(n, s, listHead, listTail, prev, next)
            /\ \A v \in Waiters : InLine(v) <=> \E i \in 1..n : s[i] = v
    BY DEF SemInv, ListInv
  <1>1. PICK s \in [1..n -> Waiters] :
            /\ ListIs(n, s, listHead, listTail, prev, next)
            /\ \A v \in Waiters : InLine(v) <=> \E i \in 1..n : s[i] = v
    BY <1>0
  <1>2. s \in Seq(Waiters) /\ Len(s) = n /\ Line = s
    BY <1>1, WalksAgree DEF SemInv, Types, Line
  <1>3. \A w \in Waiters : InLine(w) <=> \E i \in 1..Len(Line) : Line[i] = w
    BY <1>1, <1>2
  <1>4. ListIs(Len(Line), Line, listHead, listTail, prev, next)
    BY <1>1, <1>2
  <1>5. QED BY <1>2, <1>3, <1>4

\* The list reads the same in both directions and holds exactly the operations
\* that wait, whatever release() and the stop callbacks have taken out.
THEOREM WaitersStayLinked == Spec => []WaitersAreSound
  <1>1. ASSUME SemInv PROVE WaitersAreLinked
    <2>1. /\ Line \in Seq(Waiters)
          /\ ListIs(Len(Line), Line, listHead, listTail, prev, next)
          /\ \A w \in Waiters : InLine(w) <=> \E i \in 1..Len(Line) : Line[i] = w
      BY <1>1, LineIsListed
    <2>2. IsInjective(Line)
      BY <2>1 DEF ListIs, IsInjective
    <2>3. Reverse(Line) = Chain(listTail, prev, None)
      BY <1>1, <2>1, WalksAgree DEF SemInv, Types
    <2>4. \A w \in Waiters :
              InLine(w) <=> pc[w] = "waiting" /\ cb[w] # "stopping" /\ outcome[w] = "none"
      BY <1>1 DEF SemInv, Types, WaiterInv, InLine
    <2>5. \A w : w \in ToSet(Line) <=> w \in Waiters /\ InLine(w)
      BY <2>1 DEF ToSet
    <2>6. QED BY <2>2, <2>3, <2>4, <2>5 DEF WaitersAreLinked
  <1>2. SemInv => WaitersAreSound
    BY <1>1 DEF WaitersAreSound, SemInv, Types, LockInv, TypeOK
  <1>3. QED BY <1>2, SemInvariance, PTL

(***************************************************************************)
(* The refinement of FifoSemaphore                                         *)
(***************************************************************************)

\* A step that moves no permit and nobody in or out of the line.
LEMMA Stutters ==
    ASSUME UNCHANGED <<counter, listVars, stop, terminated>>,
           \A v \in Waiters : /\ IsGranted(v)' <=> IsGranted(v)
                              /\ HasGivenUp(v)' <=> HasGivenUp(v)
    PROVE  UNCHANGED Semaphore!semaphoreVars
  <1>1. Line' = Line
    BY DEF Line, listVars
  <1>2. {v \in Waiters : IsGranted(v)}' = {v \in Waiters : IsGranted(v)}
    OBVIOUS
  <1>3. {v \in Waiters : HasGivenUp(v)}' = {v \in Waiters : HasGivenUp(v)}
    OBVIOUS
  <1>4. QED BY <1>1, <1>2, <1>3 DEF Semaphore!semaphoreVars

\* A step of w that ends its wait, in the list or before it.
LEMMA GivesUp ==
    ASSUME NEW w \in Waiters, w \in stop, ~IsGranted(w), ~HasGivenUp(w),
           UNCHANGED <<counter, stop, terminated>>,
           Line' = IF w \in ToSet(Line)
                   THEN RemoveAt(Line, CHOOSE i \in DOMAIN Line : Line[i] = w) ELSE Line,
           \A v \in Waiters : /\ IsGranted(v)' <=> IsGranted(v)
                              /\ HasGivenUp(v)' <=> HasGivenUp(v) \/ v = w
    PROVE  Semaphore!GiveUp(w)
  <1>1. {v \in Waiters : IsGranted(v)}' = {v \in Waiters : IsGranted(v)}
    OBVIOUS
  <1>2. {v \in Waiters : HasGivenUp(v)}' = {v \in Waiters : HasGivenUp(v)} \cup {w}
    OBVIOUS
  <1>3. /\ Semaphore!ToSet(Line) = ToSet(Line)
        /\ \A i : Semaphore!RemoveAt(Line, i) = RemoveAt(Line, i)
    BY DEF Semaphore!ToSet, ToSet, Semaphore!RemoveAt, RemoveAt
  <1>4. QED BY <1>1, <1>2, <1>3 DEF Semaphore!GiveUp

\* Unlink takes exactly its waiter out of Line; the head leaves the tail.
LEMMA LineShrinks ==
    ASSUME SemInv, Types', NEW w \in Waiters, InLine(w), Unlink(w)
    PROVE  /\ w \in ToSet(Line)
           /\ Line' = RemoveAt(Line, CHOOSE i \in DOMAIN Line : Line[i] = w)
           /\ w = listHead => Line # <<>> /\ w = Head(Line) /\ Line' = Tail(Line)
  <1> DEFINE s == Line
             n == Len(Line)
             k == CHOOSE i \in DOMAIN s : s[i] = w
             q == Without(n, s, k)
  <1>1. /\ s \in Seq(Waiters) /\ n \in Nat /\ DOMAIN s = 1..n
        /\ ListIs(n, s, listHead, listTail, prev, next)
        /\ \A v \in Waiters : InLine(v) <=> \E i \in 1..n : s[i] = v
    BY LineIsListed
  <1> HIDE DEF s, n
  <1>2. k \in 1..n /\ s[k] = w
    BY <1>1
  <1> HIDE DEF k
  <1>3. ListIs(n - 1, q, listHead', listTail', prev', next')
    <2>1. ListIs(n - 1, q,
                 IF prev[s[k]] = None THEN next[s[k]] ELSE listHead,
                 IF next[s[k]] = None THEN prev[s[k]] ELSE listTail,
                 UnlinkedPrev(prev, next, s[k]), UnlinkedNext(prev, next, s[k]))
      BY <1>1, <1>2, RemoveFromList
    <2>2. QED BY <1>2, <2>1 DEF Unlink, UnlinkedPrev, UnlinkedNext
  <1>4. Line' = q
    <2>1. Chain(listHead', next', None) = q
      BY <1>3, WalksAgree DEF Types
    <2>2. QED BY <2>1 DEF Line
  <1>5. q = RemoveAt(s, k) /\ (k = 1 => q = Tail(s))
    <2>1. /\ q \in Seq(Waiters) /\ Len(q) = n - 1 /\ n = Len(s)
          /\ \A i \in 1..(n - 1) : q[i] = IF i < k THEN s[i] ELSE s[i + 1]
      BY <1>1, <1>3, WalksAgree DEF Without, Types
    <2>2. QED BY <1>1, <1>2, <2>1, RemoveAtIs
  <1>6. w \in ToSet(s)
    BY <1>1, <1>2 DEF ToSet
  <1>7. w = listHead => s # <<>> /\ w = Head(s) /\ k = 1
    BY <1>1, <1>2 DEF ListIs
  <1>8. QED BY <1>4, <1>5, <1>6, <1>7 DEF s, k

\* The append of start() puts its waiter at the end of Line.
LEMMA LineGrows ==
    ASSUME SemInv, Types', NEW w \in Waiters, ~InLine(w), AppendWaiter(w)
    PROVE  Line' = Append(Line, w)
  <1> DEFINE s == Line
             n == Len(Line)
  <1>1. /\ s \in Seq(Waiters) /\ n \in Nat /\ n = Len(s)
        /\ ListIs(n, s, listHead, listTail, prev, next)
        /\ \A v \in Waiters : InLine(v) <=> \E i \in 1..n : s[i] = v
    BY LineIsListed
  <1> HIDE DEF s, n
  <1>2. ListIs(n + 1, With(n, s, w), IF listTail = None THEN w ELSE listHead, w,
               [prev EXCEPT ![w] = listTail], LinkedNext(next, listTail, w))
    BY <1>1, AppendToList DEF SemInv, Types
  <1>3. ListIs(n + 1, With(n, s, w), listHead', listTail', prev', next')
    BY <1>2 DEF AppendWaiter, LinkedNext
  <1>4. Chain(listHead', next', None) = With(n, s, w)
    BY <1>3, WalksAgree DEF Types
  <1>5. With(n, s, w) = Append(s, w)
    <2>1. /\ With(n, s, w) \in Seq(Waiters) /\ Len(With(n, s, w)) = n + 1
          /\ \A i \in 1..(n + 1) : With(n, s, w)[i] = IF i = n + 1 THEN w ELSE s[i]
      BY <1>3, WalksAgree DEF With, Types
    <2>2. QED BY <1>1, <2>1, AppendIs
  <1>6. QED BY <1>4, <1>5 DEF Line, s

\* A fresh semaphore is a fresh FifoSemaphore.
LEMMA RefinesInit == Init => Semaphore!SemaphoreInit
  <1> SUFFICES ASSUME Init PROVE Semaphore!SemaphoreInit
    OBVIOUS
  <1>1. SemInv
    BY SemInit
  <1>2. Line = <<>>
    <2>1. Line \in Seq(Waiters) /\ \A w \in Waiters : InLine(w) <=> \E i \in 1..Len(Line) : Line[i] = w
      BY <1>1, LineIsListed
    <2>2. \A w \in Waiters : ~InLine(w)
      BY DEF Init, InLine
    <2> HIDE DEF Line
    <2>3. Len(Line) = 0
      BY <2>1, <2>2
    <2>4. QED BY <2>1, <2>3, EmptySeq
  <1>3. \A w \in Waiters : ~IsGranted(w) /\ ~HasGivenUp(w)
    BY DEF Init, IsGranted, HasGivenUp
  <1>4. QED BY <1>2, <1>3 DEF Init, Semaphore!SemaphoreInit

\* Who is in the line is neither served nor has given up.
LEMMA OutsideIffNowhere ==
    ASSUME SemInv, NEW w \in Waiters
    PROVE  /\ Semaphore!ToSet(Line) = ToSet(Line)
           /\ w \in ToSet(Line) <=> InLine(w)
           /\ InLine(w) => ~IsGranted(w) /\ ~HasGivenUp(w)
  <1>1. Line \in Seq(Waiters) /\ \A v \in Waiters : InLine(v) <=> \E i \in 1..Len(Line) : Line[i] = v
    BY LineIsListed
  <1>2. Semaphore!ToSet(Line) = ToSet(Line)
    BY DEF Semaphore!ToSet, ToSet
  <1>3. w \in ToSet(Line) <=> InLine(w)
    BY <1>1 DEF ToSet
  <1>4. InLine(w) => ~IsGranted(w) /\ ~HasGivenUp(w)
    BY DEF SemInv, Types, WaiterInv, InLine, IsGranted, HasGivenUp
  <1>5. QED BY <1>2, <1>3, <1>4

\* Every step of the code is a step of FifoSemaphore or none of its business.
LEMMA RefinesNext ==
    ASSUME SemInv, Types', [Next]_vars
    PROVE  [Semaphore!SemaphoreNext]_(Semaphore!semaphoreVars)
  <1> USE SemaphoreAssumption
  <1> USE DEF IsGranted, HasGivenUp
  <1>1. CASE UNCHANGED vars
    BY <1>1, Stutters DEF vars, opVars
  <1>2. ASSUME NEW w \in Waiters, Start(w) PROVE [Semaphore!SemaphoreNext]_(Semaphore!semaphoreVars)
    <2> WaiterInv(w) /\ pc[w] = "idle"
      BY <1>2 DEF SemInv, Start
    <2>1. CASE w \in stop
      <3>1. Line' = Line /\ w \notin ToSet(Line)
        BY <1>2, OutsideIffNowhere DEF Start, Line, listVars, InLine
      <3>2. Semaphore!GiveUp(w)
        BY <1>2, <2>1, <3>1, GivesUp DEF Start, Goto, Tell, SemInv, Types, WaiterInv
      <3>3. QED BY <3>2 DEF Semaphore!SemaphoreNext
    <2>2. CASE w \notin stop
      BY <1>2, <2>2, Stutters DEF Start, Goto, Tell, SemInv, Types
    <2>3. QED BY <2>1, <2>2
  <1>3. ASSUME NEW w \in Waiters, EmplaceCallback(w) PROVE UNCHANGED Semaphore!semaphoreVars
    BY <1>3, Stutters DEF EmplaceCallback, Goto, SemInv, Types, WaiterInv
  <1>4. ASSUME NEW w \in Waiters, Lock(w) PROVE UNCHANGED Semaphore!semaphoreVars
    BY <1>4, Stutters DEF Lock, Goto, SemInv, Types
  <1>5. ASSUME NEW w \in Waiters, Recheck(w) PROVE [Semaphore!SemaphoreNext]_(Semaphore!semaphoreVars)
    <2> WaiterInv(w) /\ pc[w] = "recheck"
      BY <1>5 DEF SemInv, Recheck
    <2>1. CASE w \in stop
      <3>1. Line' = Line /\ w \notin ToSet(Line)
        BY <1>5, OutsideIffNowhere DEF Recheck, Line, listVars, InLine
      <3>2. Semaphore!GiveUp(w)
        BY <1>5, <2>1, <3>1, GivesUp DEF Recheck, Goto, SemInv, Types, WaiterInv
      <3>3. QED BY <3>2 DEF Semaphore!SemaphoreNext
    <2>2. CASE w \notin stop
      BY <1>5, <2>2, Stutters DEF Recheck, Goto, SemInv, Types
    <2>3. QED BY <2>1, <2>2
  <1>6. ASSUME NEW w \in Waiters, TryPermit(w) PROVE [Semaphore!SemaphoreNext]_(Semaphore!semaphoreVars)
    <2> WaiterInv(w) /\ pc[w] = "try" /\ ~InLine(w)
      BY <1>6 DEF SemInv, TryPermit, InLine
    <2>1. CASE counter > 0
      <3>1. Line' = Line /\ w \notin ToSet(Line) /\ Semaphore!ToSet(Line) = ToSet(Line)
        BY <1>6, OutsideIffNowhere DEF TryPermit, Line, listVars
      <3>2. {v \in Waiters : IsGranted(v)}' = {v \in Waiters : IsGranted(v)} \cup {w}
        BY <1>6, <2>1 DEF TryPermit, Goto, SemInv, Types
      <3>3. {v \in Waiters : HasGivenUp(v)}' = {v \in Waiters : HasGivenUp(v)}
        BY <1>6, <2>1 DEF TryPermit, Goto, SemInv, Types
      <3>4. Semaphore!TakePermit(w)
        BY <1>6, <2>1, <3>1, <3>2, <3>3
        DEF TryPermit, Semaphore!TakePermit, Semaphore!Outside, SemInv, WaiterInv
      <3>5. QED BY <3>4 DEF Semaphore!SemaphoreNext
    <2>2. CASE ~(counter > 0)
      BY <1>6, <2>2, Stutters DEF TryPermit, Goto, SemInv, Types
    <2>3. QED BY <2>1, <2>2
  <1>7. ASSUME NEW w \in Waiters, AppendWaiter(w) PROVE Semaphore!SemaphoreNext
    <2> WaiterInv(w) /\ pc[w] = "append" /\ ~InLine(w) /\ counter = 0
      BY <1>7 DEF SemInv, AppendWaiter, InLine, LockInv
    <2>1. w \notin ToSet(Line) /\ Semaphore!ToSet(Line) = ToSet(Line)
      BY OutsideIffNowhere
    <2>2. Line' = Append(Line, w)
      BY <1>7, LineGrows
    <2>3. /\ {v \in Waiters : IsGranted(v)}' = {v \in Waiters : IsGranted(v)}
          /\ {v \in Waiters : HasGivenUp(v)}' = {v \in Waiters : HasGivenUp(v)}
      BY <1>7 DEF AppendWaiter, Goto, SemInv, Types
    <2>4. Semaphore!Wait(w)
      BY <1>7, <2>1, <2>2, <2>3
      DEF AppendWaiter, Semaphore!Wait, Semaphore!Outside, SemInv, WaiterInv
    <2>5. QED BY <2>4 DEF Semaphore!SemaphoreNext
  <1>8. ASSUME NEW w \in Waiters, Complete(w) PROVE UNCHANGED Semaphore!semaphoreVars
    <2> WaiterInv(w)
      BY DEF SemInv
    <2>1. QED BY <1>8, Stutters DEF Complete, Goto, Tell, SemInv, Types, WaiterInv
  <1>9. ASSUME NEW w \in Waiters, RequestStop(w) PROVE Semaphore!SemaphoreNext
    <2>1. Line' = Line
      BY <1>9 DEF RequestStop, Line, listVars
    <2>2. /\ {v \in Waiters : IsGranted(v)}' = {v \in Waiters : IsGranted(v)}
          /\ {v \in Waiters : HasGivenUp(v)}' = {v \in Waiters : HasGivenUp(v)}
      BY <1>9 DEF RequestStop
    <2>3. Semaphore!AskToStop(w)
      BY <1>9, <2>1, <2>2 DEF RequestStop, Semaphore!AskToStop
    <2>4. QED BY <2>3 DEF Semaphore!SemaphoreNext
  <1>10. ASSUME NEW w \in Waiters, InvokeCallback(w) PROVE UNCHANGED Semaphore!semaphoreVars
    BY <1>10, Stutters DEF InvokeCallback, SemInv, Types
  <1>11. ASSUME NEW w \in Waiters, Unregister(w) PROVE [Semaphore!SemaphoreNext]_(Semaphore!semaphoreVars)
    <2> WaiterInv(w) /\ w \in stop
      BY <1>11 DEF SemInv, Unregister, WaiterInv
    <2>1. CASE prev[w] # None \/ listHead = w
      <3>1. InLine(w) /\ Unlink(w)
        BY <1>11, <2>1, LineFacts DEF SemInv, Unregister
      <3>2. ~IsGranted(w) /\ ~HasGivenUp(w)
        BY <3>1, OutsideIffNowhere
      <3>3. /\ w \in ToSet(Line)
            /\ Line' = RemoveAt(Line, CHOOSE i \in DOMAIN Line : Line[i] = w)
        BY <3>1, LineShrinks
      <3>4. Semaphore!GiveUp(w)
        BY <1>11, <2>1, <3>2, <3>3, GivesUp DEF Unregister, SemInv, Types
      <3>5. QED BY <3>4 DEF Semaphore!SemaphoreNext
    <2>2. CASE ~(prev[w] # None \/ listHead = w)
      BY <1>11, <2>2, Stutters DEF Unregister, SemInv, Types
    <2>3. QED BY <2>1, <2>2
  <1>12. ASSUME NEW w \in Waiters, SetStopped(w) PROVE UNCHANGED Semaphore!semaphoreVars
    <2> WaiterInv(w)
      BY DEF SemInv
    <2>1. QED BY <1>12, Stutters DEF SetStopped, Goto, Tell, SemInv, Types, WaiterInv
  <1>13. ASSUME Release, GivePermit PROVE Semaphore!SemaphoreNext
    <2> DEFINE w == listHead
    <2>1. w \in Waiters /\ InLine(w) /\ Unlink(w) /\ pc' = [pc EXCEPT ![w] = "complete"]
      <3>1. w \in Waiters
        BY <1>13 DEF SemInv, Types, GivePermit
      <3>2. QED BY <1>13, <3>1, LineFacts DEF SemInv, GivePermit, Goto
    <2>2. /\ ~IsGranted(w) /\ ~HasGivenUp(w)
          /\ Line # <<>> /\ w = Head(Line) /\ Line' = Tail(Line)
      BY <2>1, OutsideIffNowhere, LineShrinks
    <2>3. /\ {v \in Waiters : IsGranted(v)}' = {v \in Waiters : IsGranted(v)} \cup {w}
          /\ {v \in Waiters : HasGivenUp(v)}' = {v \in Waiters : HasGivenUp(v)}
      BY <1>13, <2>1, <2>2 DEF Release, SemInv, Types
    <2>4. Semaphore!GivePermit
      BY <1>13, <2>2, <2>3 DEF Release, GivePermit, Semaphore!GivePermit
    <2>5. QED BY <2>4 DEF Semaphore!SemaphoreNext
  <1>14. ASSUME Release, PutBack PROVE Semaphore!SemaphoreNext
    <2>1. Line' = Line /\ Line = <<>>
      <3>1. /\ Line \in Seq(Waiters)
            /\ ListIs(Len(Line), Line, listHead, listTail, prev, next)
        BY LineIsListed
      <3>2. Line' = Line
        BY <1>14 DEF PutBack, Line, listVars
      <3> HIDE DEF Line
      <3>3. Len(Line) # 0 => Line[1] \in Waiters /\ listHead = Line[1]
        <4>1. Len(Line) \in Nat /\ \A i \in 1..Len(Line) : Line[i] \in Waiters
          BY <3>1
        <4>2. listHead = IF Len(Line) = 0 THEN None ELSE Line[1]
          BY <3>1 DEF ListIs
        <4>3. QED BY <4>1, <4>2
      <3>4. Len(Line) = 0
        BY <1>14, <3>3 DEF PutBack
      <3>5. QED BY <3>1, <3>2, <3>4, EmptySeq
    <2>2. /\ {v \in Waiters : IsGranted(v)}' = {v \in Waiters : IsGranted(v)}
          /\ {v \in Waiters : HasGivenUp(v)}' = {v \in Waiters : HasGivenUp(v)}
      BY <1>14 DEF Release, PutBack
    <2>3. CASE counter = Maximum
      BY <1>14, <2>1, <2>2, <2>3
      DEF Release, PutBack, Semaphore!Overflow, Semaphore!SemaphoreNext
    <2>4. CASE counter # Maximum
      <3>1. counter < Maximum
        BY <2>4 DEF SemInv, Types
      <3>2. Semaphore!PutBack
        BY <1>14, <2>1, <2>2, <2>4, <3>1 DEF Release, PutBack, Semaphore!PutBack
      <3>3. QED BY <3>2 DEF Semaphore!SemaphoreNext
    <2>5. QED BY <2>3, <2>4
  <1>15. ASSUME TryAcquire PROVE Semaphore!SemaphoreNext
    <2>1. Line' = Line
      BY <1>15 DEF TryAcquire, Line, listVars
    <2>2. /\ {v \in Waiters : IsGranted(v)}' = {v \in Waiters : IsGranted(v)}
          /\ {v \in Waiters : HasGivenUp(v)}' = {v \in Waiters : HasGivenUp(v)}
      BY <1>15 DEF TryAcquire, opVars
    <2>3. Semaphore!TakeAway
      BY <1>15, <2>1, <2>2 DEF TryAcquire, opVars, Semaphore!TakeAway
    <2>4. QED BY <2>3 DEF Semaphore!SemaphoreNext
  <1> HIDE DEF IsGranted, HasGivenUp
  <1>16. QED
    BY <1>1, <1>2, <1>3, <1>4, <1>5, <1>6, <1>7, <1>8, <1>9, <1>10, <1>11, <1>12, <1>13, <1>14, <1>15
    DEF Next, Starting, Stopping, Release

\* The semaphore of the code, with its list and its stop callbacks, keeps the
\* promise of its documentation: permits are conserved, release() serves the
\* one that has waited longest, and who was stopped takes no permit.
THEOREM SemaphoreRefinement == Spec => ImplementsSemaphore
  <1>1. SemInv /\ SemInv' /\ [Next]_vars => [Semaphore!SemaphoreNext]_(Semaphore!semaphoreVars)
    BY RefinesNext DEF SemInv
  <1>2. QED
    BY <1>1, RefinesInit, SemInvariance, PTL DEF Spec, ImplementsSemaphore, Semaphore!SemaphoreSpec

(***************************************************************************)
(* Fifo.  Every permit of either semaphore is accounted for: it is in the  *)
(* semaphore, in somebody's hand, or stands for an element or a slot.      *)
(* What a step does to the account is a matter of who enters and who       *)
(* leaves five sets of users; who waits in a line has no permit.           *)
(***************************************************************************)

Places == {"idle", "waits", "holds", "refused", "stopped", "announces", "failed",
           "frees", "done"}

\* A line is of users that wait without a permit, each once.
LineWith(line, S, s, g) ==
    /\ line \in Seq(S) /\ NoRepeat(line)
    /\ \A u : Holds(line, u) => s[u] = "waits" /\ u \notin g

LineOf(line, S) == LineWith(line, S, step, granted)

ChannelTypes ==
    /\ step \in [Users -> Places]
    /\ underlying \in Seq(Producers) /\ popped \in Seq(Producers)
    /\ freeSlots \in Nat /\ elements \in Nat
    /\ LineOf(slotLine, Producers) /\ LineOf(elementLine, Consumers)

\* Those counted by Holding and by In.
Holders(S) == {u \in S : At(u, "holds") \/ (At(u, "waits") /\ u \in granted)}
Those(S, where) == {u \in S : step[u] = where}

ChannelInv == ChannelTypes /\ ChannelIsExact

\* The numbers of ChannelIsExact, before and after a step.
LEMMA CountsAre ==
    /\ Holding(Producers) = Cardinality(Holders(Producers))
    /\ Holding(Consumers) = Cardinality(Holders(Consumers))
    /\ In(Producers, {"announces"}) = Cardinality(Those(Producers, "announces"))
    /\ In(Producers, {"failed"}) = Cardinality(Those(Producers, "failed"))
    /\ In(Consumers, {"frees"}) = Cardinality(Those(Consumers, "frees"))
  <1>1. \A S, where : {u \in S : step[u] \in {where}} = Those(S, where)
    BY DEF Those
  <1>2. QED BY <1>1 DEF Holding, Holders, In

LEMMA CountsAreNext ==
    /\ Holding(Producers)' = Cardinality(Holders(Producers)')
    /\ Holding(Consumers)' = Cardinality(Holders(Consumers)')
    /\ In(Producers, {"announces"})' = Cardinality(Those(Producers, "announces")')
    /\ In(Producers, {"failed"})' = Cardinality(Those(Producers, "failed")')
    /\ In(Consumers, {"frees"})' = Cardinality(Those(Consumers, "frees")')
  <1>1. \A S, where : {u \in S : step'[u] \in {where}} = {u \in S : step'[u] = where}
    OBVIOUS
  <1>2. QED BY <1>1 DEF Holding, Holders, In, Those

\* A set that is left as it is, that u joins, or that u leaves.
LEMMA OneMoreOrLess ==
    ASSUME NEW S, IsFiniteSet(S), NEW A \in SUBSET S, NEW B \in SUBSET S, NEW u
    PROVE  /\ Cardinality(A) \in Nat
           /\ u \notin A /\ B = A \cup {u} => Cardinality(B) = Cardinality(A) + 1
           /\ u \in A /\ B = A \ {u} =>
                 Cardinality(A) >= 1 /\ Cardinality(B) = Cardinality(A) - 1
  <1>1. IsFiniteSet(A) /\ Cardinality(A) \in Nat /\ IsFiniteSet(B) /\ Cardinality(B) \in Nat
    BY FS_Subset, FS_CardinalityType
  <1>2. ASSUME u \notin A, B = A \cup {u} PROVE Cardinality(B) = Cardinality(A) + 1
    BY <1>1, <1>2, FS_AddElement
  <1>3. ASSUME u \in A, B = A \ {u}
        PROVE  Cardinality(A) >= 1 /\ Cardinality(B) = Cardinality(A) - 1
    <2>1. Cardinality(B) = Cardinality(A) - 1
      BY <1>1, <1>3, FS_RemoveElement
    <2>2. QED BY <1>1, <2>1
  <1>4. QED BY <1>1, <1>2, <1>3

\* An empty channel has no elements and all of its slots.
LEMMA ChannelInit == ASSUME Preloaded = <<>>, FifoInit PROVE ChannelInv
  <1> USE DEF FifoInit, Full!SemaphoreInit, Empty!SemaphoreInit
  <1>1. ChannelTypes
    <2>1. LineOf(slotLine, Producers) /\ LineOf(elementLine, Consumers)
      BY FewHold DEF LineOf, LineWith
    <2>2. Len(Preloaded) = 0
      OBVIOUS
    <2>3. QED BY <2>1, <2>2, FifoAssumption DEF ChannelTypes, Places
  <1>2. /\ Holders(Producers) = {} /\ Holders(Consumers) = {}
        /\ Those(Producers, "announces") = {} /\ Those(Producers, "failed") = {}
        /\ Those(Consumers, "frees") = {}
    BY DEF Holders, Those, At, Users
  <1>3. Cardinality({}) = 0
    BY FS_EmptySet
  <1>4. /\ Len(underlying) = 0 /\ freeSlots = MaxSize /\ elements = 0
        /\ pushed = popped \o underlying /\ ~overflowed
    BY DEF FifoInit
  <1>5. /\ Holding(Producers) = 0 /\ Holding(Consumers) = 0
        /\ In(Producers, {"announces"}) = 0 /\ In(Producers, {"failed"}) = 0
        /\ In(Consumers, {"frees"}) = 0
    BY <1>2, <1>3, CountsAre
  <1> HIDE DEF FifoInit
  <1>6. ChannelIsExact
    BY <1>4, <1>5, FifoAssumption DEF ChannelIsExact
  <1>7. QED BY <1>1, <1>6 DEF ChannelInv

\* The sums stay right when the differences add up.
LEMMA AccountsBalance ==
    ASSUME ChannelInv, ChannelTypes', ~overflowed', pushed' = popped' \o underlying',
           NEW hp \in Int, NEW hc \in Int, NEW ap \in Int, NEW xp \in Int, NEW fc \in Int,
           Cardinality(Holders(Producers)') = Cardinality(Holders(Producers)) + hp,
           Cardinality(Holders(Consumers)') = Cardinality(Holders(Consumers)) + hc,
           Cardinality(Those(Producers, "announces")')
               = Cardinality(Those(Producers, "announces")) + ap,
           Cardinality(Those(Producers, "failed")')
               = Cardinality(Those(Producers, "failed")) + xp,
           Cardinality(Those(Consumers, "frees")')
               = Cardinality(Those(Consumers, "frees")) + fc,
           Len(underlying') - Len(underlying) = (elements' - elements) + hc + ap,
           Len(underlying) - Len(underlying') = (freeSlots' - freeSlots) + hp + fc + xp
    PROVE  ChannelInv'
  <1>1. /\ Cardinality(Holders(Producers)) \in Nat /\ Cardinality(Holders(Consumers)) \in Nat
        /\ Cardinality(Those(Producers, "announces")) \in Nat
        /\ Cardinality(Those(Producers, "failed")) \in Nat
        /\ Cardinality(Those(Consumers, "frees")) \in Nat
        /\ Cardinality(Holders(Producers)') \in Nat
        /\ Cardinality(Those(Producers, "failed")') \in Nat
        /\ Cardinality(Those(Consumers, "frees")') \in Nat
    <2>1. IsFiniteSet(Producers) /\ IsFiniteSet(Consumers)
      BY FifoAssumption, FS_Subset DEF Users
    <2>2. /\ Holders(Producers) \subseteq Producers /\ Holders(Consumers) \subseteq Consumers
          /\ Holders(Producers)' \subseteq Producers
          /\ \A where : /\ Those(Producers, where) \subseteq Producers
                        /\ Those(Consumers, where) \subseteq Consumers
          /\ Those(Producers, "failed")' \subseteq Producers
          /\ Those(Consumers, "frees")' \subseteq Consumers
      BY DEF Holders, Those
    <2>3. QED BY <2>1, <2>2, FS_Subset, FS_CardinalityType
  <1>2. /\ Len(underlying) \in Nat /\ Len(underlying') \in Nat
        /\ elements \in Nat /\ freeSlots \in Nat /\ elements' \in Nat /\ freeSlots' \in Nat
    BY LenProperties DEF ChannelInv, ChannelTypes
  <1>3. /\ Len(underlying) = elements + Cardinality(Holders(Consumers))
                                 + Cardinality(Those(Producers, "announces"))
        /\ MaxSize - Len(underlying) =
               freeSlots + Cardinality(Holders(Producers)) + Cardinality(Those(Consumers, "frees"))
                         + Cardinality(Those(Producers, "failed"))
    BY CountsAre DEF ChannelInv, ChannelIsExact
  <1>4. /\ Len(underlying') = elements' + Cardinality(Holders(Consumers)')
                                 + Cardinality(Those(Producers, "announces")')
        /\ MaxSize - Len(underlying') =
               freeSlots' + Cardinality(Holders(Producers)')
                          + Cardinality(Those(Consumers, "frees")')
                          + Cardinality(Those(Producers, "failed")')
        /\ Len(underlying') <= MaxSize
    <2> DEFINE a == Cardinality(Holders(Producers))
               b == Cardinality(Holders(Consumers))
               c == Cardinality(Those(Producers, "announces"))
               d == Cardinality(Those(Producers, "failed"))
               e == Cardinality(Those(Consumers, "frees"))
               len == Len(underlying)
               len2 == Len(underlying')
               free == freeSlots
               free2 == freeSlots'
               el == elements
               el2 == elements'
    <2>1. /\ a \in Nat /\ b \in Nat /\ c \in Nat /\ d \in Nat /\ e \in Nat
          /\ len \in Nat /\ len2 \in Nat /\ el \in Nat /\ el2 \in Nat
          /\ free \in Nat /\ free2 \in Nat /\ MaxSize \in Nat
          /\ a + hp \in Nat /\ e + fc \in Nat /\ d + xp \in Nat
      BY <1>1, <1>2, FifoAssumption
    <2>2. /\ len = el + b + c /\ MaxSize - len = free + a + e + d
          /\ len2 - len = (el2 - el) + hc + ap
          /\ len - len2 = (free2 - free) + hp + fc + xp
      BY <1>3
    <2> HIDE DEF a, b, c, d, e, len, len2, free, free2, el, el2
    <2>3. len2 = el2 + (b + hc) + (c + ap)
      BY <2>1, <2>2
    <2>4. MaxSize - len2 = free2 + (a + hp) + (e + fc) + (d + xp)
      BY <2>1, <2>2
    <2>5. len2 <= MaxSize
      BY <2>1, <2>4
    <2>6. QED
      BY <2>3, <2>4, <2>5 DEF a, b, c, d, e, len, len2, free, free2, el, el2
  <1>5. QED BY <1>4, CountsAreNext DEF ChannelInv, ChannelIsExact

\* A line whose users stay where they are, one that somebody joins, and one
\* whose first user gets a permit.
LEMMA LineStays ==
    ASSUME NEW line, NEW S, NEW s, NEW g, LineWith(line, S, s, g), NEW t, NEW h,
           \A u : Holds(line, u) => t[u] = s[u] /\ u \notin h
    PROVE  LineWith(line, S, t, h)
  BY DEF LineWith

LEMMA LineIsJoined ==
    ASSUME NEW line, NEW S, NEW s, NEW g, LineWith(line, S, s, g),
           NEW u \in S, s[u] # "waits", u \notin g, NEW t, t[u] = "waits",
           \A v : v # u => t[v] = s[v]
    PROVE  LineWith(Append(line, u), S, t, g)
  <1>1. ~Holds(line, u)
    BY DEF LineWith
  <1>2. Append(line, u) = line \o <<u>> /\ <<u>> \in Seq(S) /\ Append(line, u) \in Seq(S)
    BY AppendsAre, AppendProperties DEF LineWith
  <1>3. /\ \A v : Holds(<<u>>, v) <=> v = u
        /\ NoRepeat(<<u>>)
    BY FewHold
  <1>4. /\ \A v : Holds(line \o <<u>>, v) <=> Holds(line, v) \/ Holds(<<u>>, v)
        /\ NoRepeat(line \o <<u>>)
    BY <1>1, <1>2, <1>3, ConcatHolds DEF LineWith
  <1>5. ASSUME NEW v, Holds(line \o <<u>>, v) PROVE t[v] = "waits" /\ v \notin g
    <2>1. v = u \/ (v # u /\ Holds(line, v))
      BY <1>3, <1>4, <1>5
    <2>2. QED BY <2>1 DEF LineWith
  <1>6. LineWith(line \o <<u>>, S, t, g)
    BY <1>2, <1>4, <1>5 DEF LineWith
  <1>7. QED
    BY <1>2, <1>6

LEMMA LineMovesOn ==
    ASSUME NEW line, NEW S, NEW s, NEW g, LineWith(line, S, s, g), line # <<>>
    PROVE  /\ Head(line) \in S /\ Holds(line, Head(line))
           /\ LineWith(Tail(line), S, s, g \cup {Head(line)})
  <1>1. Len(line) \in Nat \ {0} /\ Head(line) = line[1]
    BY EmptySeq DEF LineWith
  <1>2. 1 \in 1..Len(line)
    BY <1>1
  <1>3. Head(line) \in S /\ Holds(line, Head(line))
    BY <1>1, <1>2, ElementOfSeq DEF LineWith, Holds
  <1>4. \A v : Holds(Tail(line), v) <=> v # line[1] /\ Holds(line, v)
    BY TailHolds DEF LineWith
  <1>5. Tail(line) \in Seq(S) /\ NoRepeat(Tail(line))
    <2>1. /\ Tail(line) \in Seq(S) /\ Len(Tail(line)) = Len(line) - 1
          /\ \A i \in 1..Len(Tail(line)) : Tail(line)[i] = line[i + 1]
      BY HeadTailProperties DEF LineWith
    <2>2. \A i \in 1..Len(Tail(line)) : i + 1 \in 1..Len(line)
      BY <1>1, <2>1
    <2>3. \A i, j \in 1..Len(Tail(line)) : i + 1 = j + 1 => i = j
      BY <1>1, <2>1
    <2>4. QED BY <2>1, <2>2, <2>3 DEF LineWith, NoRepeat
  <1>6. QED BY <1>1, <1>3, <1>4, <1>5 DEF LineWith

\* One that a user leaves from the middle.
LEMMA LineCloses ==
    ASSUME NEW line, NEW S, NEW s, NEW g, LineWith(line, S, s, g), NEW k \in 1..Len(line)
    PROVE  LineWith(RemoveAt(line, k), S, s, g) /\ ~Holds(RemoveAt(line, k), line[k])
  <1> DEFINE q == [i \in 1..(Len(line) - 1) |-> IF i < k THEN line[i] ELSE line[i + 1]]
  <1>1. Len(line) \in Nat /\ \A i \in 1..Len(line) : line[i] \in S
    BY LenProperties, ElementOfSeq DEF LineWith
  <1>2. \A i \in 1..(Len(line) - 1) :
            i \in 1..Len(line) /\ i + 1 \in 1..Len(line) /\ (i < k => i # k) /\ (~(i < k) => i + 1 # k)
    BY <1>1
  <1>3. q \in Seq(S) /\ Len(q) = Len(line) - 1
    BY <1>1, <1>2
  <1>4. q = RemoveAt(line, k)
    BY <1>3, RemoveAtIs DEF LineWith
  <1>5. \A i \in 1..Len(q) : \E j \in 1..Len(line) : q[i] = line[j] /\ j # k
    BY <1>2, <1>3
  <1>6. NoRepeat(q)
    <2> SUFFICES ASSUME NEW i \in 1..Len(q), NEW j \in 1..Len(q), q[i] = q[j] PROVE i = j
      BY DEF NoRepeat
    <2> DEFINE At1(x) == IF x < k THEN x ELSE x + 1
    <2>1. At1(i) \in 1..Len(line) /\ At1(j) \in 1..Len(line)
      BY <1>2, <1>3
    <2>2. q[i] = line[At1(i)] /\ q[j] = line[At1(j)]
      BY <1>3
    <2>3. At1(i) = At1(j)
      BY <2>1, <2>2 DEF LineWith, NoRepeat
    <2>4. QED BY <1>1, <1>3, <2>3
  <1> HIDE DEF q
  <1>7. \A v : Holds(q, v) => Holds(line, v) /\ v # line[k]
    BY <1>5 DEF Holds, LineWith, NoRepeat
  <1>8. QED BY <1>3, <1>4, <1>6, <1>7 DEF LineWith

\* The users of one kind are finitely many.
LEMMA Finite == IsFiniteSet(Producers) /\ IsFiniteSet(Consumers)
  BY FifoAssumption, FS_Subset DEF Users

\* Nothing changes hands.
LEMMA SameAccounts ==
    ASSUME ChannelInv, ChannelTypes', ~overflowed', pushed' = popped' \o underlying',
           Holders(Producers)' = Holders(Producers), Holders(Consumers)' = Holders(Consumers),
           Those(Producers, "announces")' = Those(Producers, "announces"),
           Those(Producers, "failed")' = Those(Producers, "failed"),
           Those(Consumers, "frees")' = Those(Consumers, "frees"),
           Len(underlying') = Len(underlying), elements' = elements, freeSlots' = freeSlots
    PROVE  ChannelInv'
  BY CountsAre, CountsAreNext DEF ChannelInv, ChannelIsExact

\* Requests, and a permit that is taken out of the hand of the semaphore.
LEMMA QuietStep ==
    ASSUME ChannelInv, NEW u \in Users,
           \/ \E S \in {Users, {u}} : AskToStop(S)
           \/ Granted(u)
    PROVE  ChannelInv'
  <1>1. /\ UNCHANGED <<channelVars, fullVars, emptyVars, granted, overflowed>>
        /\ step' \in [Users -> Places]
    BY DEF AskToStop, Granted, Go, At, semaVars, sharedVars, channelVars, fullVars, emptyVars,
           ChannelInv, ChannelTypes, Places
  <1>2. \A v \in Users : \/ step'[v] = step[v]
                         \/ step[v] = "waits" /\ v \in granted /\ step'[v] = "holds"
    BY DEF AskToStop, Granted, Go, At, ChannelInv, ChannelTypes
  <1>3. ChannelTypes'
    <2>1. \A v : Holds(slotLine, v) \/ Holds(elementLine, v) => step'[v] = step[v] /\ v \notin granted
      <3>1. \A v : Holds(slotLine, v) \/ Holds(elementLine, v) => v \in Users /\ v \notin granted
        BY HoldsToSet DEF ChannelInv, ChannelTypes, LineOf, LineWith, Users
      <3>2. QED BY <1>2, <3>1
    <2>2. LineOf(slotLine, Producers)' /\ LineOf(elementLine, Consumers)'
      BY <1>1, <2>1, LineStays DEF ChannelInv, ChannelTypes, LineOf, fullVars, emptyVars
    <2>3. QED BY <1>1, <2>2 DEF ChannelInv, ChannelTypes, channelVars, fullVars, emptyVars
  <1>4. /\ Holders(Producers)' = Holders(Producers) /\ Holders(Consumers)' = Holders(Consumers)
        /\ Those(Producers, "announces")' = Those(Producers, "announces")
        /\ Those(Producers, "failed")' = Those(Producers, "failed")
        /\ Those(Consumers, "frees")' = Those(Consumers, "frees")
    BY <1>1, <1>2 DEF Holders, Those, At, Users
  <1>5. pushed' = popped' \o underlying' /\ ~overflowed'
    BY <1>1 DEF ChannelInv, ChannelIsExact, channelVars
  <1>6. /\ Len(underlying') = Len(underlying) /\ elements' = elements /\ freeSlots' = freeSlots
    BY <1>1 DEF channelVars, fullVars, emptyVars
  <1>7. QED BY <1>3, <1>4, <1>5, <1>6, SameAccounts

\* The line behind whoever gives up, wherever it stood.
LEMMA LineIsLeft ==
    ASSUME NEW line, NEW S, NEW s, NEW g, LineWith(line, S, s, g), NEW u, NEW t, NEW left,
           \A v : v # u => t[v] = s[v],
           left = IF u \in ToSet(line)
                  THEN RemoveAt(line, CHOOSE i \in DOMAIN line : line[i] = u) ELSE line
    PROVE  LineWith(left, S, t, g)
  <1>1. DOMAIN line = 1..Len(line) /\ \A v : v \in ToSet(line) <=> Holds(line, v)
    BY HoldsToSet, LenProperties DEF LineWith
  <1>2. CASE u \in ToSet(line)
    <2> DEFINE k == CHOOSE i \in DOMAIN line : line[i] = u
    <2>1. k \in 1..Len(line) /\ line[k] = u
      BY <1>1, <1>2 DEF Holds
    <2>2. left = RemoveAt(line, k)
      BY <1>2
    <2> HIDE DEF k
    <2>3. LineWith(left, S, s, g) /\ ~Holds(left, u)
      BY <2>1, <2>2, LineCloses
    <2>4. \A v : Holds(left, v) => t[v] = s[v] /\ v \notin g
      BY <2>3 DEF LineWith
    <2>5. QED BY <2>3, <2>4, LineStays
  <1>3. CASE u \notin ToSet(line)
    <2>1. \A v : Holds(line, v) => t[v] = s[v] /\ v \notin g
      BY <1>1, <1>3 DEF LineWith
    <2>2. QED BY <1>3, <2>1, LineStays
  <1>4. QED BY <1>2, <1>3

\* Who is in the line of one semaphore is not in that of the other.
LEMMA LinesApart ==
    ASSUME ChannelTypes
    PROVE  /\ \A v : Holds(slotLine, v) => v \in Producers /\ v \notin Consumers
           /\ \A v : Holds(elementLine, v) => v \in Consumers /\ v \notin Producers
           /\ \A v : Holds(slotLine, v) \/ Holds(elementLine, v) =>
                        v \in Users /\ step[v] = "waits" /\ v \notin granted
  BY HoldsToSet, FifoAssumption DEF ChannelTypes, LineOf, LineWith, Users

\* A waiter that is stopped holds no permit, and leaves its line.
LEMMA StopStep ==
    ASSUME ChannelInv, NEW u \in Users, StopsWaiting(u)
    PROVE  ChannelInv'
  <1>1. /\ step[u] \in {"waits", "idle"} /\ u \notin granted
        /\ step' = [step EXCEPT ![u] = "stopped"]
        /\ UNCHANGED <<underlying, pushed, popped, granted, overflowed, freeSlots, elements>>
    BY DEF StopsWaiting, Go, At, Full!GiveUp, Empty!GiveUp, channelVars, fullVars, emptyVars
  <1>2. \A v : v # u => step'[v] = step[v]
    BY <1>1
  <1>3. LineOf(slotLine, Producers)' /\ LineOf(elementLine, Consumers)'
    <2>1. CASE u \in Producers /\ Full!GiveUp(u) /\ UNCHANGED emptyVars
      <3>1. slotLine' = IF u \in ToSet(slotLine)
                        THEN RemoveAt(slotLine, CHOOSE i \in DOMAIN slotLine : slotLine[i] = u)
                        ELSE slotLine
        BY <2>1 DEF Full!GiveUp, Full!ToSet, ToSet, Full!RemoveAt, RemoveAt
      <3>2. LineWith(slotLine', Producers, step', granted)
        BY <1>2, <3>1, LineIsLeft DEF ChannelInv, ChannelTypes, LineOf
      <3>3. LineWith(elementLine, Consumers, step', granted)
        BY <1>2, <2>1, LinesApart, LineStays DEF ChannelInv, ChannelTypes, LineOf
      <3>4. QED BY <1>1, <2>1, <3>2, <3>3 DEF LineOf, emptyVars
    <2>2. CASE u \in Consumers /\ Empty!GiveUp(u) /\ UNCHANGED fullVars
      <3>1. elementLine' =
                IF u \in ToSet(elementLine)
                THEN RemoveAt(elementLine, CHOOSE i \in DOMAIN elementLine : elementLine[i] = u)
                ELSE elementLine
        BY <2>2 DEF Empty!GiveUp, Empty!ToSet, ToSet, Empty!RemoveAt, RemoveAt
      <3>2. LineWith(elementLine', Consumers, step', granted)
        BY <1>2, <3>1, LineIsLeft DEF ChannelInv, ChannelTypes, LineOf
      <3>3. LineWith(slotLine, Producers, step', granted)
        BY <1>2, <2>2, LinesApart, LineStays DEF ChannelInv, ChannelTypes, LineOf
      <3>4. QED BY <1>1, <2>2, <3>2, <3>3 DEF LineOf, fullVars
    <2>3. QED BY <2>1, <2>2 DEF StopsWaiting
  <1>4. ChannelTypes'
    BY <1>1, <1>3 DEF ChannelInv, ChannelTypes, Places
  <1>5. /\ Holders(Producers)' = Holders(Producers) /\ Holders(Consumers)' = Holders(Consumers)
        /\ Those(Producers, "announces")' = Those(Producers, "announces")
        /\ Those(Producers, "failed")' = Those(Producers, "failed")
        /\ Those(Consumers, "frees")' = Those(Consumers, "frees")
    <2>1. \A v \in Users : \/ step'[v] = step[v]
                           \/ v = u /\ step'[v] = "stopped"
      BY <1>1 DEF ChannelInv, ChannelTypes
    <2>2. QED BY <1>1, <2>1 DEF Holders, Those, At, Users
  <1>6. QED
    BY <1>1, <1>4, <1>5, SameAccounts DEF ChannelInv, ChannelIsExact

\* A user that is in no line moves, with the permits it takes along.
LEMMA LinesStay ==
    ASSUME ChannelInv, NEW u \in Users, step[u] # "waits", NEW where \in Places,
           step' = [step EXCEPT ![u] = where], granted' \subseteq granted \cup {u},
           slotLine' = slotLine, elementLine' = elementLine
    PROVE  LineOf(slotLine, Producers)' /\ LineOf(elementLine, Consumers)'
  <1>1. \A v : Holds(slotLine, v) \/ Holds(elementLine, v) =>
                  v # u /\ step'[v] = step[v] /\ v \notin granted'
    BY LinesApart DEF ChannelInv, ChannelTypes
  <1>2. QED BY <1>1, LineStays DEF ChannelInv, ChannelTypes, LineOf

\* Membership, a permit in hand and a place, as the summands they are.
Member(u, S) == IF u \in S THEN 1 ELSE 0
HandOf(s, g, u) == IF s[u] = "holds" \/ (s[u] = "waits" /\ u \in g) THEN 1 ELSE 0
IsAt(s, u, where) == IF s[u] = where THEN 1 ELSE 0

\* What a step of u changes in them.
Gain(u) == HandOf(step', granted', u) - HandOf(step, granted, u)
Entry(u, where) == IsAt(step', u, where) - IsAt(step, u, where)

\* A set that one user joins, leaves or does not.
LEMMA CountMoves ==
    ASSUME NEW S, IsFiniteSet(S), NEW A \in SUBSET S, NEW B \in SUBSET S, NEW u,
           \A v \in S : v # u => (v \in A <=> v \in B)
    PROVE  Cardinality(B) = Cardinality(A) + (Member(u, B) - Member(u, A))
  <1>1. Cardinality(A) \in Nat
    BY OneMoreOrLess
  <1>2. CASE u \in A <=> u \in B
    <2>1. A = B
      BY <1>2
    <2>2. QED BY <1>1, <2>1 DEF Member
  <1>3. CASE u \notin A /\ u \in B
    <2>1. B = A \cup {u}
      BY <1>3
    <2>2. Cardinality(B) = Cardinality(A) + 1
      BY <1>3, <2>1, OneMoreOrLess
    <2>3. QED BY <1>1, <1>3, <2>2 DEF Member
  <1>4. CASE u \in A /\ u \notin B
    <2>1. B = A \ {u}
      BY <1>4
    <2>2. Cardinality(B) = Cardinality(A) - 1
      BY <1>4, <2>1, OneMoreOrLess
    <2>3. QED BY <1>1, <1>4, <2>2 DEF Member
  <1>5. QED BY <1>2, <1>3, <1>4

\* Who does not take part adds nothing.
LEMMA ZeroAdds ==
    \A x, y, z \in Int : x + y = x + 0 + y /\ x + y + z = x + y + 0 + z
  OBVIOUS

LEMMA ZeroEnds ==
    \A x, y \in Int : x + y = x + y + 0 /\ x + y = x + 0 + y + 0
  OBVIOUS

\* The semaphores count in whole numbers.
LEMMA Differences ==
    ASSUME ChannelInv, ChannelTypes'
    PROVE  elements' - elements \in Int /\ freeSlots' - freeSlots \in Int
  BY DEF ChannelInv, ChannelTypes

\* What a producer's move is in the account.
LEMMA ProducerMoves ==
    ASSUME ChannelInv, ChannelTypes', ~overflowed', pushed' = popped' \o underlying',
           NEW p \in Producers, \A v \in Users : v # p => step'[v] = step[v],
           granted \subseteq granted', granted' \subseteq granted \cup {p},
           Len(underlying') - Len(underlying) = (elements' - elements) + Entry(p, "announces"),
           Len(underlying) - Len(underlying') =
               (freeSlots' - freeSlots) + Gain(p) + Entry(p, "failed")
    PROVE  ChannelInv'
  <1> DEFINE hp == Gain(p)
             ap == Entry(p, "announces")
             xp == Entry(p, "failed")
  <1>0. hp \in Int /\ ap \in Int /\ xp \in Int
    BY DEF Gain, Entry, HandOf, IsAt
  <1>1. /\ p \notin Consumers
        /\ \A v \in Users : v # p => step'[v] = step[v]
        /\ \A v : v # p => (v \in granted <=> v \in granted')
    BY FifoAssumption DEF ChannelInv, ChannelTypes, Users
  <1>2. Holders(Consumers)' = Holders(Consumers)
        /\ Those(Consumers, "frees")' = Those(Consumers, "frees")
    BY <1>1 DEF Holders, Those, At, Users
  <1>3. Cardinality(Holders(Producers)') = Cardinality(Holders(Producers)) + hp
    <2>1. /\ Holders(Producers) \in SUBSET Producers /\ Holders(Producers)' \in SUBSET Producers
          /\ \A v \in Producers : v # p => (v \in Holders(Producers) <=> v \in Holders(Producers)')
      BY <1>1 DEF Holders, At, Users
    <2>2. /\ p \in Holders(Producers)' <=> step'[p] = "holds" \/ (step'[p] = "waits" /\ p \in granted')
          /\ p \in Holders(Producers) <=> step[p] = "holds" \/ (step[p] = "waits" /\ p \in granted)
      BY <1>1 DEF Holders, At
    <2>3. Cardinality(Holders(Producers)') = Cardinality(Holders(Producers))
              + (Member(p, Holders(Producers)') - Member(p, Holders(Producers)))
      BY <2>1, Finite, CountMoves
    <2>4. QED BY <2>2, <2>3 DEF Member, HandOf, IsAt, Gain, Entry
  <1>4. Cardinality(Those(Producers, "announces")') = Cardinality(Those(Producers, "announces")) + ap
    <2> DEFINE A == Those(Producers, "announces")
    <2>1. /\ A \in SUBSET Producers /\ A' \in SUBSET Producers
          /\ \A v \in Producers : v # p => (v \in A <=> v \in A')
      BY <1>1 DEF Those, Users
    <2>2. (p \in A' <=> step'[p] = "announces") /\ (p \in A <=> step[p] = "announces")
      BY <1>1 DEF Those
    <2>3. Cardinality(A') = Cardinality(A) + (Member(p, A') - Member(p, A))
      BY <2>1, Finite, CountMoves
    <2>4. QED BY <2>2, <2>3 DEF Member, HandOf, IsAt, Gain, Entry
  <1>5. Cardinality(Those(Producers, "failed")') = Cardinality(Those(Producers, "failed")) + xp
    <2> DEFINE A == Those(Producers, "failed")
    <2>1. /\ A \in SUBSET Producers /\ A' \in SUBSET Producers
          /\ \A v \in Producers : v # p => (v \in A <=> v \in A')
      BY <1>1 DEF Those, Users
    <2>2. (p \in A' <=> step'[p] = "failed") /\ (p \in A <=> step[p] = "failed")
      BY <1>1 DEF Those
    <2>3. Cardinality(A') = Cardinality(A) + (Member(p, A') - Member(p, A))
      BY <2>1, Finite, CountMoves
    <2>4. QED BY <2>2, <2>3 DEF Member, HandOf, IsAt, Gain, Entry
  <1>6. Cardinality(Holders(Consumers)) \in Nat /\ Cardinality(Those(Consumers, "frees")) \in Nat
    <2>1. Holders(Consumers) \subseteq Consumers /\ Those(Consumers, "frees") \subseteq Consumers
      BY DEF Holders, Those
    <2>2. QED BY <2>1, Finite, FS_Subset, FS_CardinalityType
  <1>7. /\ Cardinality(Holders(Consumers)') = Cardinality(Holders(Consumers)) + 0
        /\ Cardinality(Those(Consumers, "frees")') = Cardinality(Those(Consumers, "frees")) + 0
    BY <1>2, <1>6
  <1> HIDE DEF hp, ap, xp
  <1>8. elements' - elements \in Int /\ freeSlots' - freeSlots \in Int
    BY Differences
  <1>9. /\ (elements' - elements) + ap = (elements' - elements) + 0 + ap
        /\ (freeSlots' - freeSlots) + hp + xp = (freeSlots' - freeSlots) + hp + 0 + xp
    BY <1>0, <1>8, ZeroAdds
  <1>10. QED
    BY <1>0, <1>3, <1>4, <1>5, <1>7, <1>9, AccountsBalance DEF hp, ap, xp

\* And a consumer's.
LEMMA ConsumerMoves ==
    ASSUME ChannelInv, ChannelTypes', ~overflowed', pushed' = popped' \o underlying',
           NEW c \in Consumers, \A v \in Users : v # c => step'[v] = step[v],
           granted \subseteq granted', granted' \subseteq granted \cup {c},
           Len(underlying') - Len(underlying) = (elements' - elements) + Gain(c),
           Len(underlying) - Len(underlying') = (freeSlots' - freeSlots) + Entry(c, "frees")
    PROVE  ChannelInv'
  <1> DEFINE hc == Gain(c)
             fc == Entry(c, "frees")
  <1>0. hc \in Int /\ fc \in Int
    BY DEF Gain, Entry, HandOf, IsAt
  <1>1. /\ c \notin Producers
        /\ \A v \in Users : v # c => step'[v] = step[v]
        /\ \A v : v # c => (v \in granted <=> v \in granted')
    BY FifoAssumption DEF ChannelInv, ChannelTypes, Users
  <1>2. /\ Holders(Producers)' = Holders(Producers)
        /\ Those(Producers, "announces")' = Those(Producers, "announces")
        /\ Those(Producers, "failed")' = Those(Producers, "failed")
    BY <1>1 DEF Holders, Those, At, Users
  <1>3. Cardinality(Holders(Consumers)') = Cardinality(Holders(Consumers)) + hc
    <2>1. /\ Holders(Consumers) \in SUBSET Consumers /\ Holders(Consumers)' \in SUBSET Consumers
          /\ \A v \in Consumers : v # c => (v \in Holders(Consumers) <=> v \in Holders(Consumers)')
      BY <1>1 DEF Holders, At, Users
    <2>2. /\ c \in Holders(Consumers)' <=> step'[c] = "holds" \/ (step'[c] = "waits" /\ c \in granted')
          /\ c \in Holders(Consumers) <=> step[c] = "holds" \/ (step[c] = "waits" /\ c \in granted)
      BY <1>1 DEF Holders, At
    <2>3. Cardinality(Holders(Consumers)') = Cardinality(Holders(Consumers))
              + (Member(c, Holders(Consumers)') - Member(c, Holders(Consumers)))
      <3>1. IsFiniteSet(Consumers)
        BY Finite
      <3>2. QED BY ONLY <2>1, <3>1, CountMoves
    <2>4. QED BY <2>2, <2>3 DEF Member, HandOf, IsAt, Gain, Entry
  <1>4. Cardinality(Those(Consumers, "frees")') = Cardinality(Those(Consumers, "frees")) + fc
    <2> DEFINE A == Those(Consumers, "frees")
    <2>1. /\ A \in SUBSET Consumers /\ A' \in SUBSET Consumers
          /\ \A v \in Consumers : v # c => (v \in A <=> v \in A')
      BY <1>1 DEF Those, Users
    <2>2. (c \in A' <=> step'[c] = "frees") /\ (c \in A <=> step[c] = "frees")
      BY <1>1 DEF Those
    <2>3. Cardinality(A') = Cardinality(A) + (Member(c, A') - Member(c, A))
      <3>1. IsFiniteSet(Consumers)
        BY Finite
      <3>2. QED BY ONLY <2>1, <3>1, CountMoves
    <2>4. QED BY <2>2, <2>3 DEF Member, HandOf, IsAt, Gain, Entry
  <1>6. /\ Cardinality(Holders(Producers)) \in Nat
        /\ Cardinality(Those(Producers, "announces")) \in Nat
        /\ Cardinality(Those(Producers, "failed")) \in Nat
    <2>1. /\ Holders(Producers) \subseteq Producers
          /\ Those(Producers, "announces") \subseteq Producers
          /\ Those(Producers, "failed") \subseteq Producers
      BY DEF Holders, Those
    <2>2. QED BY <2>1, Finite, FS_Subset, FS_CardinalityType
  <1>7. /\ Cardinality(Holders(Producers)') = Cardinality(Holders(Producers)) + 0
        /\ Cardinality(Those(Producers, "announces")')
               = Cardinality(Those(Producers, "announces")) + 0
        /\ Cardinality(Those(Producers, "failed")') = Cardinality(Those(Producers, "failed")) + 0
    BY <1>2, <1>6
  <1> HIDE DEF hc, fc
  <1>8. elements' - elements \in Int /\ freeSlots' - freeSlots \in Int
    BY Differences
  <1>9. /\ (elements' - elements) + hc = (elements' - elements) + hc + 0
        /\ (freeSlots' - freeSlots) + fc = (freeSlots' - freeSlots) + 0 + fc + 0
    BY <1>0, <1>8, ZeroEnds
  <1>10. QED
    BY <1>0, <1>3, <1>4, <1>7, <1>9, AccountsBalance DEF hc, fc

\* A push that takes a slot, or gets in line for one.
LEMMA AsyncPushStep ==
    ASSUME ChannelInv, NEW p \in Producers, AsyncPush(p)
    PROVE  ChannelInv'
  <1>1. /\ p \in Users /\ step[p] = "idle" /\ p \notin granted /\ ~Holds(slotLine, p)
        /\ step' = [step EXCEPT ![p] = "waits"] /\ step' \in [Users -> Places]
        /\ step'[p] = "waits" /\ step[p] # "waits" /\ "waits" \in Places
        /\ \A v : v # p => step'[v] = step[v]
        /\ UNCHANGED <<underlying, pushed, popped, elements, elementLine, overflowed>>
    BY DEF AsyncPush, Full!TakePermit, Full!Wait, Full!Outside, At, Go, channelVars, emptyVars,
           ChannelInv, ChannelTypes, LineOf, LineWith, Users, Places
  <1>2. step'[p] = "waits" /\ step[p] = "idle" /\ p \notin granted
    BY <1>1
  <1>3. /\ Len(underlying') - Len(underlying) = 0 /\ Len(underlying) - Len(underlying') = 0
        /\ elements' - elements = 0
    BY <1>1, LenProperties DEF ChannelInv, ChannelTypes
  <1>4. pushed' = popped' \o underlying' /\ ~overflowed'
    BY <1>1 DEF ChannelInv, ChannelIsExact
  <1>5. CASE Full!TakePermit(p)
    <2>1. /\ granted' = granted \cup {p} /\ slotLine' = slotLine
          /\ freeSlots' \in Nat /\ freeSlots' - freeSlots = -1
      BY <1>5 DEF Full!TakePermit, ChannelInv, ChannelTypes
    <2>2. ChannelTypes'
      BY <1>1, <2>1, LinesStay DEF ChannelInv, ChannelTypes
    <2>3. Gain(p) = 1 /\ Entry(p, "announces") = 0 /\ Entry(p, "failed") = 0
      BY <1>2, <2>1 DEF Gain, Entry, HandOf, IsAt
    <2>4. /\ Len(underlying') - Len(underlying) = (elements' - elements) + Entry(p, "announces")
          /\ Len(underlying) - Len(underlying') =
                 (freeSlots' - freeSlots) + Gain(p) + Entry(p, "failed")
      BY <1>3, <2>1, <2>3
    <2>5. QED
      BY <1>1, <1>4, <2>1, <2>2, <2>3, <2>4, ProducerMoves
  <1>6. CASE Full!Wait(p)
    <2>1. /\ granted' = granted /\ freeSlots' = freeSlots
          /\ slotLine' = Append(slotLine, p)
      BY <1>6 DEF Full!Wait
    <2>2. LineOf(slotLine, Producers)'
      BY <1>1, <2>1, LineIsJoined DEF ChannelInv, ChannelTypes, LineOf
    <2>3. LineOf(elementLine, Consumers)'
      BY <1>1, <2>1, LinesApart, LineStays, FifoAssumption DEF ChannelInv, ChannelTypes, LineOf
    <2>4. ChannelTypes'
      BY <1>1, <2>1, <2>2, <2>3 DEF ChannelInv, ChannelTypes
    <2>5. Gain(p) = 0 /\ Entry(p, "announces") = 0 /\ Entry(p, "failed") = 0
      BY <1>2, <2>1 DEF Gain, Entry, HandOf, IsAt
    <2>6. /\ Len(underlying') - Len(underlying) = (elements' - elements) + Entry(p, "announces")
          /\ Len(underlying) - Len(underlying') =
                 (freeSlots' - freeSlots) + Gain(p) + Entry(p, "failed")
      <3>1. freeSlots' - freeSlots = 0
        BY <2>1 DEF ChannelInv, ChannelTypes
      <3>2. QED BY <1>3, <2>5, <3>1
    <2>7. QED
      BY <1>1, <1>4, <2>1, <2>4, <2>5, <2>6, ProducerMoves
  <1>7. QED BY <1>5, <1>6 DEF AsyncPush

\* The same for a pop and the elements.
LEMMA AsyncPopStep ==
    ASSUME ChannelInv, NEW c \in Consumers, AsyncPop(c)
    PROVE  ChannelInv'
  <1>1. /\ c \in Users /\ step[c] = "idle" /\ c \notin granted /\ ~Holds(elementLine, c)
        /\ step' = [step EXCEPT ![c] = "waits"] /\ step' \in [Users -> Places]
        /\ step'[c] = "waits" /\ step[c] # "waits" /\ "waits" \in Places
        /\ \A v : v # c => step'[v] = step[v]
        /\ UNCHANGED <<underlying, pushed, popped, freeSlots, slotLine, overflowed>>
    BY DEF AsyncPop, Empty!TakePermit, Empty!Wait, Empty!Outside, At, Go, channelVars, fullVars,
           ChannelInv, ChannelTypes, LineOf, LineWith, Users, Places
  <1>2. step'[c] = "waits" /\ step[c] = "idle" /\ c \notin granted
    BY <1>1
  <1>3. /\ Len(underlying') - Len(underlying) = 0 /\ Len(underlying) - Len(underlying') = 0
        /\ freeSlots' - freeSlots = 0
    BY <1>1, LenProperties DEF ChannelInv, ChannelTypes
  <1>4. pushed' = popped' \o underlying' /\ ~overflowed'
    BY <1>1 DEF ChannelInv, ChannelIsExact
  <1>5. CASE Empty!TakePermit(c)
    <2>1. /\ granted' = granted \cup {c} /\ elementLine' = elementLine
          /\ elements' \in Nat /\ elements' - elements = -1
      BY <1>5 DEF Empty!TakePermit, ChannelInv, ChannelTypes
    <2>2. ChannelTypes'
      BY <1>1, <2>1, LinesStay DEF ChannelInv, ChannelTypes
    <2>3. Gain(c) = 1 /\ Entry(c, "frees") = 0
      BY <1>2, <2>1 DEF Gain, Entry, HandOf, IsAt
    <2>4. /\ Len(underlying') - Len(underlying) = (elements' - elements) + Gain(c)
          /\ Len(underlying) - Len(underlying') = (freeSlots' - freeSlots) + Entry(c, "frees")
      BY <1>3, <2>1, <2>3
    <2>5. QED
      BY <1>1, <1>4, <2>1, <2>2, <2>3, <2>4, ConsumerMoves
  <1>6. CASE Empty!Wait(c)
    <2>1. /\ granted' = granted /\ elements' = elements
          /\ elementLine' = Append(elementLine, c)
      BY <1>6 DEF Empty!Wait
    <2>2. LineOf(elementLine, Consumers)'
      BY <1>1, <2>1, LineIsJoined DEF ChannelInv, ChannelTypes, LineOf
    <2>3. LineOf(slotLine, Producers)'
      BY <1>1, <2>1, LinesApart, LineStays, FifoAssumption DEF ChannelInv, ChannelTypes, LineOf
    <2>4. ChannelTypes'
      BY <1>1, <2>1, <2>2, <2>3 DEF ChannelInv, ChannelTypes
    <2>5. Gain(c) = 0 /\ Entry(c, "frees") = 0
      BY <1>2, <2>1 DEF Gain, Entry, HandOf, IsAt
    <2>6. /\ Len(underlying') - Len(underlying) = (elements' - elements) + Gain(c)
          /\ Len(underlying) - Len(underlying') = (freeSlots' - freeSlots) + Entry(c, "frees")
      <3>1. elements' - elements = 0
        BY <2>1 DEF ChannelInv, ChannelTypes
      <3>2. QED BY <1>3, <2>5, <3>1
    <2>7. QED
      BY <1>1, <1>4, <2>1, <2>4, <2>5, <2>6, ConsumerMoves
  <1>7. QED BY <1>5, <1>6 DEF AsyncPop

\* try_push, with a permit or without.
LEMMA TryPushStep ==
    ASSUME ChannelInv, NEW p \in Producers, TryPush(p)
    PROVE  ChannelInv'
  <1>1. PICK where \in {"holds", "refused"} : Go(p, where)
    BY DEF TryPush
  <1>2. /\ p \in Users /\ step[p] = "idle" /\ step'[p] = where
        /\ step' = [step EXCEPT ![p] = where] /\ step' \in [Users -> Places]
        /\ step[p] # "waits" /\ where \in Places
        /\ \A v : v # p => step'[v] = step[v]
        /\ UNCHANGED <<underlying, pushed, popped, elements, elementLine, slotLine, granted,
                       overflowed>>
    BY <1>1 DEF TryPush, Full!TakeAway, At, Go, channelVars, emptyVars, fullVars, sharedVars,
                ChannelInv, ChannelTypes, Users, Places
  <1>3. /\ Gain(p) = (IF where = "holds" THEN 1 ELSE 0)
        /\ Entry(p, "announces") = 0 /\ Entry(p, "failed") = 0
    <2>1. step[p] = "idle" /\ step'[p] = where /\ where \in {"holds", "refused"}
      BY <1>2
    <2>2. QED BY <2>1 DEF Gain, Entry, HandOf, IsAt
  <1>4. /\ freeSlots' \in Nat
        /\ freeSlots' - freeSlots = (IF where = "holds" THEN -1 ELSE 0)
    <2>1. CASE Full!TakeAway /\ Go(p, "holds")
      <3>1. where = "holds"
        BY <1>1, <2>1 DEF Go, ChannelInv, ChannelTypes, Users
      <3>2. QED BY <2>1, <3>1 DEF Full!TakeAway, ChannelInv, ChannelTypes
    <2>2. CASE Go(p, "refused") /\ UNCHANGED <<fullVars, sharedVars>>
      <3>1. where = "refused"
        BY <1>1, <2>2 DEF Go, ChannelInv, ChannelTypes, Users
      <3>2. QED BY <2>2, <3>1 DEF fullVars, ChannelInv, ChannelTypes
    <2>3. QED BY <2>1, <2>2 DEF TryPush
  <1>5. ChannelTypes'
    BY <1>2, <1>4, LinesStay DEF ChannelInv, ChannelTypes
  <1>6. pushed' = popped' \o underlying' /\ ~overflowed'
    BY <1>2 DEF ChannelInv, ChannelIsExact
  <1>7. /\ Len(underlying') - Len(underlying) = (elements' - elements) + Entry(p, "announces")
        /\ Len(underlying) - Len(underlying') =
               (freeSlots' - freeSlots) + Gain(p) + Entry(p, "failed")
    <2>1. /\ Len(underlying') - Len(underlying) = 0 /\ Len(underlying) - Len(underlying') = 0
          /\ elements' - elements = 0
      BY <1>2, LenProperties DEF ChannelInv, ChannelTypes
    <2>2. QED BY <1>3, <1>4, <2>1
  <1>8. QED
    BY <1>2, <1>5, <1>6, <1>7, ProducerMoves

\* try_pop.
LEMMA TryPopStep ==
    ASSUME ChannelInv, NEW c \in Consumers, TryPop(c)
    PROVE  ChannelInv'
  <1>1. PICK where \in {"holds", "refused"} : Go(c, where)
    BY DEF TryPop
  <1>2. /\ c \in Users /\ step[c] = "idle" /\ step'[c] = where
        /\ step' = [step EXCEPT ![c] = where] /\ step' \in [Users -> Places]
        /\ step[c] # "waits" /\ where \in Places
        /\ \A v : v # c => step'[v] = step[v]
        /\ UNCHANGED <<underlying, pushed, popped, freeSlots, elementLine, slotLine, granted,
                       overflowed>>
    BY <1>1 DEF TryPop, Empty!TakeAway, At, Go, channelVars, emptyVars, fullVars, sharedVars,
                ChannelInv, ChannelTypes, Users, Places
  <1>3. /\ Gain(c) = (IF where = "holds" THEN 1 ELSE 0)
        /\ Entry(c, "frees") = 0
    <2>1. step[c] = "idle" /\ step'[c] = where /\ where \in {"holds", "refused"}
      BY <1>2
    <2>2. QED BY <2>1 DEF Gain, Entry, HandOf, IsAt
  <1>4. /\ elements' \in Nat
        /\ elements' - elements = (IF where = "holds" THEN -1 ELSE 0)
    <2>1. CASE Empty!TakeAway /\ Go(c, "holds")
      <3>1. where = "holds"
        BY <1>1, <2>1 DEF Go, ChannelInv, ChannelTypes, Users
      <3>2. QED BY <2>1, <3>1 DEF Empty!TakeAway, ChannelInv, ChannelTypes
    <2>2. CASE Go(c, "refused") /\ UNCHANGED <<emptyVars, sharedVars>>
      <3>1. where = "refused"
        BY <1>1, <2>2 DEF Go, ChannelInv, ChannelTypes, Users
      <3>2. QED BY <2>2, <3>1 DEF emptyVars, ChannelInv, ChannelTypes
    <2>3. QED BY <2>1, <2>2 DEF TryPop
  <1>5. ChannelTypes'
    BY <1>2, <1>4, LinesStay DEF ChannelInv, ChannelTypes
  <1>6. pushed' = popped' \o underlying' /\ ~overflowed'
    BY <1>2 DEF ChannelInv, ChannelIsExact
  <1>7. /\ Len(underlying') - Len(underlying) = (elements' - elements) + Gain(c)
        /\ Len(underlying) - Len(underlying') = (freeSlots' - freeSlots) + Entry(c, "frees")
    <2>1. /\ Len(underlying') - Len(underlying) = 0 /\ Len(underlying) - Len(underlying') = 0
          /\ freeSlots' - freeSlots = 0
      BY <1>2, LenProperties DEF ChannelInv, ChannelTypes
    <2>2. QED BY <1>3, <1>4, <2>1
  <1>8. QED
    BY <1>2, <1>5, <1>6, <1>7, ConsumerMoves

\* A sequence is its head and then its tail.
LEMMA HeadAndTail ==
    ASSUME NEW S, NEW s \in Seq(S), s # <<>>
    PROVE  s = <<Head(s)>> \o Tail(s)
  BY HeadTailProperties, ConcatProperties

\* The moves under the small lock: what comes in goes to the end, what goes
\* out comes from the front.
LEMMA StoreStep ==
    ASSUME ChannelInv, NEW p \in Producers, Store(p) \/ StoreThrows(p)
    PROVE  ChannelInv'
  <1>1. PICK where \in {"announces", "failed"} : Go(p, where)
    BY DEF Store, StoreThrows
  <1>2. /\ p \in Users /\ step[p] = "holds" /\ step'[p] = where
        /\ step' = [step EXCEPT ![p] = where] /\ step' \in [Users -> Places]
        /\ step[p] # "waits" /\ where \in Places
        /\ \A v : v # p => step'[v] = step[v]
        /\ UNCHANGED <<popped, freeSlots, slotLine, elements, elementLine, granted, overflowed>>
    BY <1>1 DEF Store, StoreThrows, At, Go, channelVars, semaVars, fullVars, emptyVars, sharedVars,
                ChannelInv, ChannelTypes, Users, Places
  <1>3. /\ Gain(p) = -1
        /\ Entry(p, "announces") = (IF where = "announces" THEN 1 ELSE 0)
        /\ Entry(p, "failed") = (IF where = "failed" THEN 1 ELSE 0)
    <2>1. step[p] = "holds" /\ step'[p] = where /\ where \in {"announces", "failed"}
      BY <1>2
    <2>2. QED BY <2>1 DEF Gain, Entry, HandOf, IsAt
  <1>4. /\ underlying' \in Seq(Producers) /\ pushed' = popped \o underlying'
        /\ Len(underlying') - Len(underlying) = (IF where = "announces" THEN 1 ELSE 0)
        /\ Len(underlying) - Len(underlying') = (IF where = "announces" THEN -1 ELSE 0)
    <2>1. CASE Store(p)
      <3>1. where = "announces"
        BY <1>1, <2>1 DEF Store, Go, ChannelInv, ChannelTypes, Users
      <3>2. underlying' = Append(underlying, p) /\ pushed' = Append(popped \o underlying, p)
        BY <2>1 DEF Store, ChannelInv, ChannelIsExact
      <3>3. underlying \in Seq(Producers) /\ popped \in Seq(Producers) /\ <<p>> \in Seq(Producers)
        BY DEF ChannelInv, ChannelTypes
      <3>4. /\ underlying' \in Seq(Producers)
            /\ Len(underlying) \in Nat /\ Len(underlying') = Len(underlying) + 1
        BY <3>2, <3>3, AppendProperties, LenProperties
      <3>5. popped \o underlying \in Seq(Producers)
        BY <3>3, ConcatProperties
      <3>6. /\ Append(underlying, p) = underlying \o <<p>>
            /\ Append(popped \o underlying, p) = (popped \o underlying) \o <<p>>
        BY <3>3, <3>5, AppendsAre
      <3>7. (popped \o underlying) \o <<p>> = popped \o (underlying \o <<p>>)
        BY <3>3, ConcatAssociative
      <3>8. QED BY <3>1, <3>2, <3>4, <3>6, <3>7
    <2>2. CASE StoreThrows(p)
      <3>1. where = "failed"
        BY <1>1, <2>2 DEF StoreThrows, Go, ChannelInv, ChannelTypes, Users
      <3>2. underlying' = underlying /\ pushed' = pushed
        BY <2>2 DEF StoreThrows, channelVars
      <3>3. QED BY <3>1, <3>2, LenProperties DEF ChannelInv, ChannelTypes, ChannelIsExact
    <2>3. QED BY <2>1, <2>2
  <1>5. ChannelTypes'
    BY <1>2, <1>4, LinesStay DEF ChannelInv, ChannelTypes
  <1>6. pushed' = popped' \o underlying' /\ ~overflowed'
    BY <1>2, <1>4 DEF ChannelInv, ChannelIsExact
  <1>7. /\ Len(underlying') - Len(underlying) = (elements' - elements) + Entry(p, "announces")
        /\ Len(underlying) - Len(underlying') =
               (freeSlots' - freeSlots) + Gain(p) + Entry(p, "failed")
    <2>1. elements' - elements = 0 /\ freeSlots' - freeSlots = 0
      BY <1>2 DEF ChannelInv, ChannelTypes
    <2>2. where = "announces" \/ (where = "failed" /\ where # "announces")
      BY <1>1
    <2>3. QED BY <1>3, <1>4, <2>1, <2>2
  <1>8. QED
    BY <1>2, <1>5, <1>6, <1>7, ProducerMoves

\* front() and pop().
LEMMA TakeStep ==
    ASSUME ChannelInv, NEW c \in Consumers, Take(c)
    PROVE  ChannelInv'
  <1>1. /\ c \in Users /\ step[c] = "holds" /\ step'[c] = "frees"
        /\ step' = [step EXCEPT ![c] = "frees"] /\ step' \in [Users -> Places]
        /\ step[c] # "waits" /\ "frees" \in Places
        /\ \A v : v # c => step'[v] = step[v]
        /\ UNCHANGED <<pushed, freeSlots, slotLine, elements, elementLine, granted, overflowed>>
    BY DEF Take, At, Go, semaVars, fullVars, emptyVars, sharedVars,
           ChannelInv, ChannelTypes, Users, Places
  <1>2. Gain(c) = -1 /\ Entry(c, "frees") = 1
    <2>1. step[c] = "holds" /\ step'[c] = "frees"
      BY <1>1
    <2>2. QED BY <2>1 DEF Gain, Entry, HandOf, IsAt
  <1>3. /\ underlying' \in Seq(Producers) /\ popped' \in Seq(Producers)
        /\ pushed' = popped' \o underlying'
        /\ Len(underlying') - Len(underlying) = -1 /\ Len(underlying) - Len(underlying') = 1
    <2>1. /\ underlying \in Seq(Producers) /\ underlying # <<>> /\ popped \in Seq(Producers)
          /\ underlying' = Tail(underlying) /\ popped' = Append(popped, Head(underlying))
          /\ pushed' = popped \o underlying
      BY <1>1 DEF Take, ChannelInv, ChannelTypes, ChannelIsExact
    <2>2. /\ Head(underlying) \in Producers /\ Tail(underlying) \in Seq(Producers)
          /\ Len(underlying) \in Nat /\ Len(Tail(underlying)) = Len(underlying) - 1
          /\ <<Head(underlying)>> \in Seq(Producers)
      BY <2>1, HeadTailProperties, LenProperties
    <2>3. underlying = <<Head(underlying)>> \o Tail(underlying)
      BY <2>1, <2>2, HeadAndTail
    <2>4. popped' = popped \o <<Head(underlying)>> /\ popped' \in Seq(Producers)
      BY <2>1, <2>2, AppendsAre, AppendProperties
    <2>5. (popped \o <<Head(underlying)>>) \o Tail(underlying)
              = popped \o (<<Head(underlying)>> \o Tail(underlying))
      BY <2>1, <2>2, ConcatAssociative
    <2>6. Len(underlying') - Len(underlying) = -1 /\ Len(underlying) - Len(underlying') = 1
      BY <2>1, <2>2
    <2>7. QED BY <2>1, <2>2, <2>3, <2>4, <2>5, <2>6
  <1>4. ChannelTypes'
    BY <1>1, <1>3, LinesStay DEF ChannelInv, ChannelTypes
  <1>5. ~overflowed'
    BY <1>1 DEF ChannelInv, ChannelIsExact
  <1>6. /\ Len(underlying') - Len(underlying) = (elements' - elements) + Gain(c)
        /\ Len(underlying) - Len(underlying') = (freeSlots' - freeSlots) + Entry(c, "frees")
    <2>1. elements' - elements = 0 /\ freeSlots' - freeSlots = 0
      BY <1>1 DEF ChannelInv, ChannelTypes
    <2>2. QED BY <1>2, <1>3, <2>1
  <1>7. QED
    BY <1>1, <1>3, <1>4, <1>5, <1>6, ConsumerMoves

\* Each of the five counts is one.
LEMMA CountsAreNumbers ==
    /\ Cardinality(Holders(Producers)) \in Nat /\ Cardinality(Holders(Consumers)) \in Nat
    /\ Cardinality(Those(Producers, "announces")) \in Nat
    /\ Cardinality(Those(Producers, "failed")) \in Nat
    /\ Cardinality(Those(Consumers, "frees")) \in Nat
  <1>1. /\ Holders(Producers) \subseteq Producers /\ Holders(Consumers) \subseteq Consumers
        /\ \A where : /\ Those(Producers, where) \subseteq Producers
                      /\ Those(Consumers, where) \subseteq Consumers
    BY DEF Holders, Those
  <1>2. QED BY <1>1, Finite, FS_Subset, FS_CardinalityType

\* Who is in a set is counted.
LEMMA SomebodyCounts ==
    ASSUME NEW S, IsFiniteSet(S), NEW A \in SUBSET S, NEW u \in A
    PROVE  Cardinality(A) >= 1
  <1> DEFINE B == A \ {u}
  <1>1. B \in SUBSET S
    OBVIOUS
  <1>2. QED BY <1>1, OneMoreOrLess

\* The release of the other semaphore: its permit goes to the consumer that
\* has waited longest, or to the elements, which cannot be at their maximum.
LEMMA AnnounceStep ==
    ASSUME ChannelInv, NEW p \in Producers, Announce(p)
    PROVE  ChannelInv'
  <1>1. /\ p \in Users /\ step[p] = "announces" /\ step'[p] = "done"
        /\ step' = [step EXCEPT ![p] = "done"] /\ step' \in [Users -> Places]
        /\ step[p] # "waits" /\ "done" \in Places
        /\ \A v : v # p => step'[v] = step[v]
        /\ UNCHANGED <<underlying, popped, pushed, freeSlots, slotLine>>
    BY DEF Announce, At, Go, channelVars, fullVars, ChannelInv, ChannelTypes, Users, Places
  <1>2. /\ Len(underlying') - Len(underlying) = 0 /\ Len(underlying) - Len(underlying') = 0
        /\ freeSlots' - freeSlots = 0 /\ Len(underlying) \in Nat
    BY <1>1, LenProperties DEF ChannelInv, ChannelTypes
  <1>3. pushed' = popped' \o underlying'
    BY <1>1 DEF ChannelInv, ChannelIsExact
  <1>4. CASE Empty!GivePermit
    <2> DEFINE h == Head(elementLine)
               A == Those(Producers, "announces")
               H == Holders(Consumers)
    <2>1. /\ elementLine # <<>> /\ elementLine' = Tail(elementLine)
          /\ granted' = granted \cup {h} /\ elements' = elements /\ ~overflowed'
      BY <1>4 DEF Empty!GivePermit, ChannelInv, ChannelIsExact
    <2>2. /\ h \in Consumers /\ Holds(elementLine, h)
          /\ LineWith(Tail(elementLine), Consumers, step, granted')
      BY <2>1, LineMovesOn DEF ChannelInv, ChannelTypes, LineOf
    <2>3. h \in Users /\ h \notin Producers /\ h # p /\ step[h] = "waits" /\ h \notin granted
      BY <2>2, LinesApart DEF ChannelInv
    <2>4. LineOf(elementLine, Consumers)'
      <3>1. \A v : Holds(Tail(elementLine), v) => step'[v] = step[v] /\ v \notin granted'
        BY <1>1, <2>2 DEF LineWith
      <3>2. LineWith(Tail(elementLine), Consumers, step', granted')
        BY <2>2, <3>1, LineStays
      <3>3. QED BY <2>1, <3>2 DEF LineOf
    <2>5. LineOf(slotLine, Producers)'
      <3>1. \A v : Holds(slotLine, v) => step'[v] = step[v] /\ v \notin granted'
        BY <1>1, <2>1, <2>3, LinesApart DEF ChannelInv
      <3>2. LineWith(slotLine, Producers, step', granted')
        BY <3>1, LineStays DEF ChannelInv, ChannelTypes, LineOf
      <3>3. QED BY <1>1, <3>2 DEF LineOf
    <2>6. ChannelTypes'
      BY <1>1, <2>1, <2>4, <2>5 DEF ChannelInv, ChannelTypes
    <2>7. /\ H' = H \cup {h} /\ h \notin H /\ H \in SUBSET Consumers /\ H' \in SUBSET Consumers
          /\ A' = A \ {p} /\ p \in A /\ A \in SUBSET Producers /\ A' \in SUBSET Producers
          /\ Holders(Producers)' = Holders(Producers)
          /\ Those(Producers, "failed")' = Those(Producers, "failed")
          /\ Those(Consumers, "frees")' = Those(Consumers, "frees")
      <3>1. p \notin Consumers
        BY FifoAssumption
      <3>2. \A v \in Consumers : step'[v] = step[v] /\ (v \in granted' <=> v \in granted \/ v = h)
        BY <1>1, <2>1, <3>1
      <3>3. \A v \in Producers : /\ v \in granted' <=> v \in granted
                                 /\ v # p => step'[v] = step[v]
        BY <1>1, <2>1, <2>3
      <3> HIDE DEF h
      <3>4. H' = H \cup {h} /\ h \notin H /\ H \in SUBSET Consumers /\ H' \in SUBSET Consumers
        BY <2>2, <2>3, <3>2 DEF Holders, At
      <3>5. A' = A \ {p} /\ p \in A /\ A \in SUBSET Producers /\ A' \in SUBSET Producers
        BY <1>1, <3>3 DEF Those
      <3>6. QED BY <1>1, <3>2, <3>3, <3>4, <3>5 DEF Holders, At, Those
    <2>8. Cardinality(H') = Cardinality(H) + 1 /\ Cardinality(A') = Cardinality(A) + (-1)
      <3>1. Cardinality(H') = Cardinality(H) + 1
        BY <2>7, Finite, OneMoreOrLess
      <3>2. Cardinality(A) \in Nat /\ Cardinality(A') = Cardinality(A) - 1
        BY <2>7, Finite, OneMoreOrLess
      <3>3. QED BY <3>1, <3>2
    <2>9. /\ Cardinality(Holders(Producers)') = Cardinality(Holders(Producers)) + 0
          /\ Cardinality(Those(Producers, "failed")')
                = Cardinality(Those(Producers, "failed")) + 0
          /\ Cardinality(Those(Consumers, "frees")')
                = Cardinality(Those(Consumers, "frees")) + 0
      BY <2>7, CountsAreNumbers
    <2>10. /\ Len(underlying') - Len(underlying) = (elements' - elements) + 1 + (-1)
           /\ Len(underlying) - Len(underlying') = (freeSlots' - freeSlots) + 0 + 0 + 0
      <3>1. elements' - elements = 0
        BY <2>1 DEF ChannelInv, ChannelTypes
      <3>2. QED BY <1>2, <3>1
    <2>11. -1 \in Int
      OBVIOUS
    <2>12. QED
      BY <1>3, <2>1, <2>6, <2>8, <2>9, <2>10, <2>11, AccountsBalance
  <1>5. CASE Empty!PutBack
    <2>1. /\ granted' = granted /\ elementLine' = elementLine
          /\ elements' \in Nat /\ elements' - elements = 1 /\ ~overflowed'
      BY <1>5 DEF Empty!PutBack, ChannelInv, ChannelTypes, ChannelIsExact
    <2>2. ChannelTypes'
      BY <1>1, <2>1, LinesStay DEF ChannelInv, ChannelTypes
    <2>3. Gain(p) = 0 /\ Entry(p, "announces") = -1 /\ Entry(p, "failed") = 0
      <3>1. step[p] = "announces" /\ step'[p] = "done"
        BY <1>1
      <3>2. QED BY <3>1 DEF Gain, Entry, HandOf, IsAt
    <2>4. /\ Len(underlying') - Len(underlying) = (elements' - elements) + Entry(p, "announces")
          /\ Len(underlying) - Len(underlying') =
                 (freeSlots' - freeSlots) + Gain(p) + Entry(p, "failed")
      BY <1>2, <2>1, <2>3
    <2>5. QED
      BY <1>1, <1>3, <2>1, <2>2, <2>4, ProducerMoves
  <1>6. CASE Empty!Overflow
    <2>1. elements = MaxSize
      BY <1>6 DEF Empty!Overflow
    <2>2. p \in Those(Producers, "announces") /\ Those(Producers, "announces") \in SUBSET Producers
      BY <1>1 DEF Those
    <2>3. Cardinality(Those(Producers, "announces")) >= 1
      BY <2>2, Finite, SomebodyCounts
    <2>4. /\ Len(underlying) = elements + Cardinality(Holders(Consumers))
                                   + Cardinality(Those(Producers, "announces"))
          /\ Len(underlying) <= MaxSize
      BY CountsAre DEF ChannelInv, ChannelIsExact
    <2>5. FALSE
      BY <1>2, <2>1, <2>3, <2>4, CountsAreNumbers, FifoAssumption
    <2>6. QED BY <2>5
  <1>7. QED BY <1>4, <1>5, <1>6 DEF Announce

\* The same for a consumer and the slots.
LEMMA FreeStep ==
    ASSUME ChannelInv, NEW c \in Consumers, Free(c)
    PROVE  ChannelInv'
  <1>1. /\ c \in Users /\ step[c] = "frees" /\ step'[c] = "done"
        /\ step' = [step EXCEPT ![c] = "done"] /\ step' \in [Users -> Places]
        /\ step[c] # "waits" /\ "done" \in Places
        /\ \A v : v # c => step'[v] = step[v]
        /\ UNCHANGED <<underlying, popped, pushed, elements, elementLine>>
    BY DEF Free, At, Go, channelVars, emptyVars, ChannelInv, ChannelTypes, Users, Places
  <1>2. /\ Len(underlying') - Len(underlying) = 0 /\ Len(underlying) - Len(underlying') = 0
        /\ elements' - elements = 0 /\ Len(underlying) \in Nat
    BY <1>1, LenProperties DEF ChannelInv, ChannelTypes
  <1>3. pushed' = popped' \o underlying'
    BY <1>1 DEF ChannelInv, ChannelIsExact
  <1>4. CASE Full!GivePermit
    <2> DEFINE h == Head(slotLine)
               A == Those(Consumers, "frees")
               H == Holders(Producers)
    <2>1. /\ slotLine # <<>> /\ slotLine' = Tail(slotLine)
          /\ granted' = granted \cup {h} /\ freeSlots' = freeSlots /\ ~overflowed'
      BY <1>4 DEF Full!GivePermit, ChannelInv, ChannelIsExact
    <2>2. /\ h \in Producers /\ Holds(slotLine, h)
          /\ LineWith(Tail(slotLine), Producers, step, granted')
      BY <2>1, LineMovesOn DEF ChannelInv, ChannelTypes, LineOf
    <2>3. h \in Users /\ h \notin Consumers /\ h # c /\ step[h] = "waits" /\ h \notin granted
      BY <2>2, LinesApart DEF ChannelInv
    <2>4. LineOf(slotLine, Producers)'
      <3>1. \A v : Holds(Tail(slotLine), v) => step'[v] = step[v] /\ v \notin granted'
        BY <1>1, <2>2 DEF LineWith
      <3>2. LineWith(Tail(slotLine), Producers, step', granted')
        BY <2>2, <3>1, LineStays
      <3>3. QED BY <2>1, <3>2 DEF LineOf
    <2>5. LineOf(elementLine, Consumers)'
      <3>1. \A v : Holds(elementLine, v) => step'[v] = step[v] /\ v \notin granted'
        BY <1>1, <2>1, <2>3, LinesApart DEF ChannelInv
      <3>2. LineWith(elementLine, Consumers, step', granted')
        BY <3>1, LineStays DEF ChannelInv, ChannelTypes, LineOf
      <3>3. QED BY <1>1, <3>2 DEF LineOf
    <2>6. ChannelTypes'
      BY <1>1, <2>1, <2>4, <2>5 DEF ChannelInv, ChannelTypes
    <2>7. /\ H' = H \cup {h} /\ h \notin H /\ H \in SUBSET Producers /\ H' \in SUBSET Producers
          /\ A' = A \ {c} /\ c \in A /\ A \in SUBSET Consumers /\ A' \in SUBSET Consumers
          /\ Holders(Consumers)' = Holders(Consumers)
          /\ Those(Producers, "failed")' = Those(Producers, "failed")
          /\ Those(Producers, "announces")' = Those(Producers, "announces")
      <3>1. c \notin Producers
        BY FifoAssumption
      <3>2. \A v \in Producers : step'[v] = step[v] /\ (v \in granted' <=> v \in granted \/ v = h)
        BY <1>1, <2>1, <3>1
      <3>3. \A v \in Consumers : /\ v \in granted' <=> v \in granted
                                 /\ v # c => step'[v] = step[v]
        BY <1>1, <2>1, <2>3
      <3> HIDE DEF h
      <3>4. H' = H \cup {h} /\ h \notin H /\ H \in SUBSET Producers /\ H' \in SUBSET Producers
        BY <2>2, <2>3, <3>2 DEF Holders, At
      <3>5. A' = A \ {c} /\ c \in A /\ A \in SUBSET Consumers /\ A' \in SUBSET Consumers
        BY <1>1, <3>3 DEF Those
      <3>6. QED BY <1>1, <3>2, <3>3, <3>4, <3>5 DEF Holders, At, Those
    <2>8. Cardinality(H') = Cardinality(H) + 1 /\ Cardinality(A') = Cardinality(A) + (-1)
      <3>1. Cardinality(H') = Cardinality(H) + 1
        BY <2>7, Finite, OneMoreOrLess
      <3>2. Cardinality(A) \in Nat /\ Cardinality(A') = Cardinality(A) - 1
        BY <2>7, Finite, OneMoreOrLess
      <3>3. QED BY <3>1, <3>2
    <2>9. /\ Cardinality(Holders(Consumers)') = Cardinality(Holders(Consumers)) + 0
          /\ Cardinality(Those(Producers, "announces")')
                = Cardinality(Those(Producers, "announces")) + 0
          /\ Cardinality(Those(Producers, "failed")')
                = Cardinality(Those(Producers, "failed")) + 0
      BY <2>7, CountsAreNumbers
    <2>10. /\ Len(underlying') - Len(underlying) = (elements' - elements) + 0 + 0
           /\ Len(underlying) - Len(underlying') = (freeSlots' - freeSlots) + 1 + (-1) + 0
      <3>1. freeSlots' - freeSlots = 0
        BY <2>1 DEF ChannelInv, ChannelTypes
      <3>2. QED BY <1>2, <3>1
    <2>11. -1 \in Int
      OBVIOUS
    <2>12. QED
      BY <1>3, <2>1, <2>6, <2>8, <2>9, <2>10, <2>11, AccountsBalance
  <1>5. CASE Full!PutBack
    <2>1. /\ granted' = granted /\ slotLine' = slotLine
          /\ freeSlots' \in Nat /\ freeSlots' - freeSlots = 1 /\ ~overflowed'
      BY <1>5 DEF Full!PutBack, ChannelInv, ChannelTypes, ChannelIsExact
    <2>2. ChannelTypes'
      BY <1>1, <2>1, LinesStay DEF ChannelInv, ChannelTypes
    <2>3. Gain(c) = 0 /\ Entry(c, "frees") = -1
      <3>1. step[c] = "frees" /\ step'[c] = "done"
        BY <1>1
      <3>2. QED BY <3>1 DEF Gain, Entry, HandOf, IsAt
    <2>4. /\ Len(underlying') - Len(underlying) = (elements' - elements) + Gain(c)
          /\ Len(underlying) - Len(underlying') = (freeSlots' - freeSlots) + Entry(c, "frees")
      BY <1>2, <2>1, <2>3
    <2>5. QED
      BY <1>1, <1>3, <2>1, <2>2, <2>4, ConsumerMoves
  <1>6. CASE Full!Overflow
    <2>1. freeSlots = MaxSize
      BY <1>6 DEF Full!Overflow
    <2>2. c \in Those(Consumers, "frees") /\ Those(Consumers, "frees") \in SUBSET Consumers
      BY <1>1 DEF Those
    <2>3. Cardinality(Those(Consumers, "frees")) >= 1
      BY <2>2, Finite, SomebodyCounts
    <2>4. MaxSize - Len(underlying) =
              freeSlots + Cardinality(Holders(Producers)) + Cardinality(Those(Consumers, "frees"))
                        + Cardinality(Those(Producers, "failed"))
      BY CountsAre DEF ChannelInv, ChannelIsExact
    <2>5. FALSE
      BY <1>2, <2>1, <2>3, <2>4, CountsAreNumbers, FifoAssumption
    <2>6. QED BY <2>5
  <1>7. QED BY <1>4, <1>5, <1>6 DEF Free

\* One lemma per action.
LEMMA ChannelNext == ASSUME ChannelInv, [FifoNext]_fifoVars PROVE ChannelInv'
  <1>1. CASE AskToStop(Users)
    <2>1. CASE Users = {}
      BY <1>1, <2>1 DEF AskToStop
    <2>2. CASE Users # {}
      <3>1. PICK u : u \in Users
        BY <2>2
      <3>2. QED BY <1>1, <3>1, QuietStep
    <2>3. QED BY <2>1, <2>2
  <1>2. CASE \E u \in Users : AskToStop({u}) \/ Granted(u) \/ StopsWaiting(u)
    BY <1>2, QuietStep, StopStep
  <1>3. CASE \E p \in Producers : \/ AsyncPush(p) \/ TryPush(p)
                                  \/ Store(p) \/ StoreThrows(p) \/ Announce(p)
    BY <1>3, AsyncPushStep, TryPushStep, StoreStep, AnnounceStep
  <1>4. CASE \E c \in Consumers : AsyncPop(c) \/ TryPop(c) \/ Take(c) \/ Free(c)
    BY <1>4, AsyncPopStep, TryPopStep, TakeStep, FreeStep
  <1>5. CASE UNCHANGED fifoVars
    <2>1. /\ ChannelTypes' /\ ~overflowed' /\ pushed' = popped' \o underlying'
          /\ Holders(Producers)' = Holders(Producers)
          /\ Holders(Consumers)' = Holders(Consumers)
          /\ Those(Producers, "announces")' = Those(Producers, "announces")
          /\ Those(Producers, "failed")' = Those(Producers, "failed")
          /\ Those(Consumers, "frees")' = Those(Consumers, "frees")
          /\ Len(underlying') = Len(underlying) /\ elements' = elements
          /\ freeSlots' = freeSlots
      BY <1>5 DEF fifoVars, channelVars, semaVars, fullVars, emptyVars, sharedVars, ChannelInv,
                  ChannelTypes, ChannelIsExact, Holders, Those, At, LineOf
    <2>2. QED BY <2>1, SameAccounts
  <1>6. QED BY <1>1, <1>2, <1>3, <1>4, <1>5 DEF FifoNext

\* The two semaphores and the container of fifo agree at every step, with any
\* number of producers and consumers and any capacity: no consumer that holds
\* a permit finds the container empty, the container never exceeds max_size(),
\* values leave in the order they came in, and no release is one too many.
\* The container starts empty: with elements in it the first full_sema_ has
\* too many permits (fifo.h:46).
THEOREM ChannelStaysExact == ASSUME Preloaded = <<>> PROVE FifoSpec => []ChannelIsExact
  <1>1. FifoInit => ChannelInv
    BY ChannelInit
  <1>2. ChannelInv /\ [FifoNext]_fifoVars => ChannelInv'
    BY ChannelNext
  <1>3. ChannelInv => ChannelIsExact
    BY DEF ChannelInv
  <1>4. QED BY <1>1, <1>2, <1>3, PTL DEF FifoSpec
=============================================================================
