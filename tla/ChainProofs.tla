---------------------------- MODULE ChainProofs ----------------------------
(***************************************************************************)
(* What a traversal of an intrusive chain visits, for chains of any length *)
(* over any finite set of nodes; and, last, what proofs about loops need.  *)
(***************************************************************************)
EXTENDS IntrusiveChain, FunctionTheorems, FiniteSetTheorems, SequenceTheorems,
        WellFoundedInduction, TLAPS

\* From n the links x lead through s[1], ..., s[Len(s)] to null; s holds no
\* node twice.
Leads(n, s, x, null) ==
    /\ s \in Seq(DOMAIN x)
    /\ \A i, j \in 1..Len(s) : s[i] = s[j] => i = j
    /\ n = IF s = <<>> THEN null ELSE s[1]
    /\ \A i \in 1..Len(s) : x[s[i]] = IF i = Len(s) THEN null ELSE s[i + 1]

\* A sequence without repetition is no longer than the set it is from.
LEMMA NoLonger ==
    ASSUME NEW S, IsFiniteSet(S), NEW s \in Seq(S),
           \A i, j \in 1..Len(s) : s[i] = s[j] => i = j
    PROVE  /\ Len(s) <= Cardinality(S) /\ Cardinality(S) \in Nat
           /\ Cardinality(1..Len(s)) = Len(s)
  <1>1. Len(s) \in Nat /\ s \in [1..Len(s) -> S]
    OBVIOUS
  <1>2. s \in Injection(1..Len(s), S)
    BY <1>1 DEF Injection, IsInjective
  <1>3. Cardinality(1..Len(s)) = Len(s)
    BY <1>1, FS_Interval
  <1>4. QED BY <1>1, <1>2, <1>3, FS_Injection, FS_CardinalityType

\* The walk along the links visits exactly s.
LEMMA ChainIs ==
    ASSUME NEW x, NEW n, NEW s, NEW null, IsFiniteSet(DOMAIN x), null \notin DOMAIN x,
           Leads(n, s, x, null)
    PROVE  Chain(n, x, null) = s
  <1> DEFINE bound == Cardinality(DOMAIN x) + 1
             Walk(f) == [i \in 1..bound |->
                            IF i = 1 THEN n
                            ELSE IF f[i - 1] = null THEN null ELSE x[f[i - 1]]]
             node == CHOOSE f : f = Walk(f)
             steps == [i \in 1..bound |-> IF i <= Len(s) THEN s[i] ELSE null]
  <1>1. /\ s \in Seq(DOMAIN x) /\ Len(s) \in Nat /\ bound \in Nat /\ Len(s) < bound
        /\ \A i \in 1..Len(s) : s[i] \in DOMAIN x /\ s[i] # null
    BY NoLonger DEF Leads
  <1>2. steps = Walk(steps)
    <2>1. ASSUME NEW i \in 1..bound PROVE steps[i] = Walk(steps)[i]
      <3>1. CASE i = 1
        BY <1>1, <3>1 DEF Leads
      <3>2. CASE i # 1 /\ i - 1 <= Len(s)
        BY <1>1, <3>2 DEF Leads
      <3>3. CASE i # 1 /\ ~(i - 1 <= Len(s))
        BY <1>1, <3>3
      <3>4. QED BY <3>1, <3>2, <3>3
    <2>2. QED BY <2>1
  <1>3. node = Walk(node)
    <2> HIDE DEF steps, Walk
    <2>1. QED BY <1>2
  <1>4. ASSUME NEW i \in 1..bound PROVE node[i] = steps[i]
    <2> DEFINE Earlier == {ss \in Nat \X Nat : ss[1] < ss[2]}
               wrong == {k \in 1..bound : node[k] # steps[k]}
    <2> SUFFICES ASSUME wrong # {} PROVE FALSE
      OBVIOUS
    <2>1. IsWellFoundedOn(Earlier, Nat)
      BY NatLessThanWellFounded DEF OpToRel
    <2>2. wrong \in SUBSET Nat
      OBVIOUS
    <2> HIDE DEF node, steps
    <2>3. PICK k \in wrong : \A l \in wrong : ~(<<l, k>> \in Earlier)
      BY <2>1, <2>2, WFMin
    <2>4. k # 1
      BY <1>2, <1>3, <2>3
    <2>5. k - 1 \in 1..bound /\ k - 1 \notin wrong
      <3>1. k \in 1..bound /\ k - 1 \in 1..bound
        BY <1>1, <2>3, <2>4
      <3>2. <<k - 1, k>> \in Earlier
        BY <1>1, <3>1
      <3>3. QED BY <2>3, <3>1, <3>2
    <2>6. node[k - 1] = steps[k - 1]
      BY <2>5
    <2>7. node[k] = IF node[k - 1] = null THEN null ELSE x[node[k - 1]]
      BY <1>3, <2>3, <2>4
    <2>8. steps[k] = IF steps[k - 1] = null THEN null ELSE x[steps[k - 1]]
      BY <1>2, <2>3, <2>4
    <2>9. QED BY <2>3, <2>6, <2>7, <2>8
  <1>5. {j \in 1..bound : node[j] # null} = 1..Len(s)
    <2> HIDE DEF node
    <2>1. QED BY <1>1, <1>4
  <1>6. Cardinality({j \in 1..bound : node[j] # null}) = Len(s)
    <2> HIDE DEF node
    <2>1. Cardinality(1..Len(s)) = Len(s)
      BY NoLonger DEF Leads
    <2>2. QED BY <1>5, <2>1
  <1>7. [i \in 1..Len(s) |-> node[i]] = s
    <2> HIDE DEF node
    <2>1. QED BY <1>1, <1>4
  <1>8. Chain(n, x, null) = [i \in 1..Cardinality({j \in 1..bound : node[j] # null}) |-> node[i]]
    BY DEF Chain
  <1>9. QED BY <1>6, <1>7, <1>8

(***************************************************************************)
(* What becomes of a chain                                                 *)
(***************************************************************************)

Holds(s, c) == \E i \in 1..Len(s) : s[i] = c

\* Links of nodes outside the chain may change.
LEMMA LeadsKept ==
    ASSUME NEW n, NEW s, NEW x, NEW y, NEW null, Leads(n, s, x, null),
           DOMAIN y = DOMAIN x, \A i \in 1..Len(s) : y[s[i]] = x[s[i]]
    PROVE  Leads(n, s, y, null)
  BY DEF Leads

\* From any of its members on, a chain is a chain.
LEMMA LeadsOn ==
    ASSUME NEW n, NEW s, NEW x, NEW null, Leads(n, s, x, null), NEW k \in 1..Len(s)
    PROVE  \E e : Leads(s[k], e, x, null)
  <1> DEFINE e == SubSeq(s, k, Len(s))
             last == Len(s)
             m == Len(e)
  <1>1. /\ s \in Seq(DOMAIN x) /\ last \in Nat /\ k \in Nat /\ k >= 1 /\ k <= last
        /\ \A i, j \in 1..last : s[i] = s[j] => i = j
        /\ \A i \in 1..last : x[s[i]] = IF i = last THEN null ELSE s[i + 1]
    BY DEF Leads
  <1>2. /\ e \in Seq(DOMAIN x) /\ m = last - k + 1
        /\ \A i \in 1..last - k + 1 : e[i] = s[k + i - 1]
    BY <1>1, SubSeqProperties
  <1> HIDE DEF e, last, m
  <1>3. m \in Nat /\ m >= 1
    BY <1>1, <1>2
  <1>4. \A i \in 1..m : e[i] = s[k + i - 1] /\ k + i - 1 \in 1..last
    BY <1>1, <1>2
  <1>5. \A i, j \in 1..m : e[i] = e[j] => i = j
    <2> SUFFICES ASSUME NEW i \in 1..m, NEW j \in 1..m, e[i] = e[j] PROVE i = j
      OBVIOUS
    <2>1. k + i - 1 = k + j - 1
      BY <1>1, <1>4
    <2>2. QED BY <1>1, <1>3, <2>1
  <1>6. ASSUME NEW i \in 1..m PROVE x[e[i]] = IF i = m THEN null ELSE e[i + 1]
    <2>1. e[i] = s[k + i - 1] /\ k + i - 1 \in 1..last /\ (i = m <=> k + i - 1 = last)
      BY <1>1, <1>2, <1>4
    <2>2. CASE i = m
      BY <1>1, <2>1, <2>2
    <2>3. CASE i # m
      <3>1. i + 1 \in 1..m /\ k + (i + 1) - 1 = k + i - 1 + 1
        BY <1>1, <1>3, <2>3
      <3>2. e[i + 1] = s[k + i - 1 + 1]
        BY <1>4, <3>1
      <3>3. QED BY <1>1, <2>1, <2>3, <3>2
    <2>4. QED BY <2>2, <2>3
  <1>7. s[k] = e[1] /\ e # <<>>
    <2>1. 1 \in 1..m /\ k + 1 - 1 = k
      BY <1>1, <1>3
    <2>2. e # <<>>
      BY <1>3, EmptySeq DEF m
    <2>3. QED BY <1>4, <2>1, <2>2
  <1>8. Leads(s[k], e, x, null)
    BY <1>2, <1>5, <1>6, <1>7 DEF Leads, m
  <1>9. QED BY <1>8

\* Null begins the empty chain and no other.
LEMMA LeadsNowhere ==
    ASSUME NEW n, NEW s, NEW x, NEW null, null \notin DOMAIN x
    PROVE  /\ Leads(null, <<>>, x, null)
           /\ Leads(n, s, x, null) => (n = null <=> s = <<>>)
  <1>1. Leads(null, <<>>, x, null)
    BY EmptySeq DEF Leads
  <1>2. ASSUME Leads(n, s, x, null) PROVE n = null <=> s = <<>>
    <2>1. s \in Seq(DOMAIN x) /\ (s # <<>> => Len(s) \in Nat \ {0})
      BY <1>2, EmptySeq DEF Leads
    <2>2. s # <<>> => s[1] \in DOMAIN x
      BY <2>1, ElementOfSeq
    <2>3. QED BY <1>2, <2>2 DEF Leads
  <1>3. QED BY <1>1, <1>2

\* A node whose link is the first one begins a longer chain.
LEMMA LeadsPush ==
    ASSUME NEW n, NEW s, NEW x, NEW null, Leads(n, s, x, null), null \notin DOMAIN x,
           NEW c \in DOMAIN x, x[c] = n, ~Holds(s, c)
    PROVE  /\ Leads(c, <<c>> \o s, x, null)
           /\ Len(<<c>> \o s) = Len(s) + 1
           /\ \A i \in 1..Len(s) + 1 : (<<c>> \o s)[i] = IF i = 1 THEN c ELSE s[i - 1]
  <1> DEFINE q == <<c>> \o s
  <1>1. s \in Seq(DOMAIN x) /\ Len(s) \in Nat
    BY LenProperties DEF Leads
  <1>2. <<c>> \in Seq(DOMAIN x) /\ Len(<<c>>) = 1 /\ <<c>>[1] = c
    OBVIOUS
  <1>3. /\ q \in Seq(DOMAIN x) /\ Len(q) = Len(s) + 1
        /\ \A i \in 1..Len(s) + 1 : q[i] = IF i = 1 THEN c ELSE s[i - 1]
    <2>1. /\ q \in Seq(DOMAIN x) /\ Len(q) = 1 + Len(s)
          /\ \A i \in 1..1 + Len(s) : q[i] = IF i <= 1 THEN <<c>>[i] ELSE s[i - 1]
      BY <1>1, <1>2, ConcatProperties
    <2> HIDE DEF q
    <2>2. QED BY <1>1, <1>2, <2>1
  <1> HIDE DEF q
  <1>4. ASSUME NEW i \in 1..Len(q), NEW j \in 1..Len(q), q[i] = q[j]
        PROVE  i = j
    <2>1. /\ \A k \in 1..Len(s) : s[k] # c
          /\ \A k, l \in 1..Len(s) : s[k] = s[l] => k = l
      BY DEF Leads, Holds
    <2>2. /\ i # 1 => i - 1 \in 1..Len(s) /\ q[i] = s[i - 1]
          /\ j # 1 => j - 1 \in 1..Len(s) /\ q[j] = s[j - 1]
          /\ i = 1 => q[i] = c
          /\ j = 1 => q[j] = c
      BY <1>1, <1>3
    <2>3. CASE i = 1 \/ j = 1
      BY <1>4, <2>1, <2>2, <2>3
    <2>4. CASE i # 1 /\ j # 1
      <3>1. i - 1 = j - 1
        BY <1>4, <2>1, <2>2, <2>4
      <3>2. QED BY <1>1, <1>3, <3>1
    <2>5. QED BY <2>3, <2>4
  <1>5. q # <<>> /\ q[1] = c
    BY <1>1, <1>3, EmptySeq
  <1>6. ASSUME NEW i \in 1..Len(q)
        PROVE  x[q[i]] = IF i = Len(q) THEN null ELSE q[i + 1]
    <2>1. CASE i = 1
      <3>1. x[q[i]] = n /\ (s = <<>> <=> Len(s) = 0)
        BY <1>1, <1>3, <1>5, <2>1, EmptySeq
      <3>2. QED BY <1>1, <1>3, <2>1, <3>1 DEF Leads
    <2>2. CASE i # 1
      <3>1. i - 1 \in 1..Len(s) /\ q[i] = s[i - 1]
        BY <1>1, <1>3, <2>2
      <3>2. x[s[i - 1]] = IF i - 1 = Len(s) THEN null ELSE s[(i - 1) + 1]
        BY <3>1 DEF Leads
      <3>3. QED BY <1>1, <1>3, <3>1, <3>2
    <2>3. QED BY <2>1, <2>2
  <1>7. QED BY <1>3, <1>4, <1>5, <1>6 DEF Leads, q

\* Taking the first node off.
LEMMA LeadsPop ==
    ASSUME NEW n, NEW s, NEW x, NEW null, Leads(n, s, x, null), s # <<>>
    PROVE  /\ Leads(x[n], Tail(s), x, null)
           /\ n = Head(s) /\ n = s[1] /\ Len(Tail(s)) = Len(s) - 1
           /\ \A i \in 1..Len(s) - 1 : Tail(s)[i] = s[i + 1]
  <1> DEFINE q == Tail(s)
  <1>1. s \in Seq(DOMAIN x) /\ Len(s) \in Nat \ {0}
    BY EmptySeq DEF Leads
  <1>2. n = Head(s) /\ n = s[1]
    BY <1>1 DEF Leads
  <1>3. /\ q \in Seq(DOMAIN x) /\ Len(q) = Len(s) - 1
        /\ \A i \in 1..Len(s) - 1 : q[i] = s[i + 1]
    BY <1>1, HeadTailProperties
  <1> HIDE DEF q
  <1>4. \A i, j \in 1..Len(q) : q[i] = q[j] => i = j
    BY <1>1, <1>3 DEF Leads
  <1>5. x[n] = IF q = <<>> THEN null ELSE q[1]
    <2>1. q = <<>> <=> Len(s) = 1
      BY <1>1, <1>3, EmptySeq
    <2>2. x[s[1]] = IF 1 = Len(s) THEN null ELSE s[1 + 1]
      <3>1. 1 \in 1..Len(s)
        BY <1>1
      <3>2. QED BY <3>1 DEF Leads
    <2>3. QED BY <1>1, <1>2, <1>3, <2>1, <2>2
  <1>6. \A i \in 1..Len(q) : x[q[i]] = IF i = Len(q) THEN null ELSE q[i + 1]
    <2> SUFFICES ASSUME NEW i \in 1..Len(q)
                 PROVE  x[q[i]] = IF i = Len(q) THEN null ELSE q[i + 1]
      OBVIOUS
    <2>1. x[s[i + 1]] = IF i + 1 = Len(s) THEN null ELSE s[(i + 1) + 1]
      BY <1>1, <1>3 DEF Leads
    <2>2. QED BY <1>1, <1>3, <2>1
  <1>7. QED BY <1>2, <1>3, <1>4, <1>5, <1>6 DEF Leads, q

\* Reversed in place, the chain leads from its last node to its first.
LEMMA LeadsReversed ==
    ASSUME NEW n, NEW s, NEW x, NEW null, Leads(n, s, x, null), s # <<>>
    PROVE  /\ Leads(Last(s), Reverse(s), ReversedLinks(s, x, null), null)
           /\ Len(Reverse(s)) = Len(s)
           /\ \A i \in 1..Len(s) : Reverse(s)[i] = s[(Len(s) - i) + 1]
           /\ \A c \in DOMAIN x : ~Holds(s, c) => ReversedLinks(s, x, null)[c] = x[c]
  <1> DEFINE r == Reverse(s)
             y == ReversedLinks(s, x, null)
             m == Len(s)
  <1>1. s \in Seq(DOMAIN x) /\ m \in Nat \ {0} /\ \A i \in 1..m : s[i] \in DOMAIN x
    BY EmptySeq, ElementOfSeq DEF Leads
  <1>2. /\ r \in Seq(DOMAIN x) /\ Len(r) = m
        /\ \A i \in 1..m : r[i] = s[(m - i) + 1]
    BY <1>1 DEF Reverse
  <1>3. DOMAIN y = DOMAIN x
    BY DEF ReversedLinks
  <1>4. \A i \in 1..m : y[s[i]] = IF i = 1 THEN null ELSE s[i - 1]
    <2> SUFFICES ASSUME NEW i \in 1..m PROVE y[s[i]] = IF i = 1 THEN null ELSE s[i - 1]
      OBVIOUS
    <2> DEFINE k == CHOOSE j \in 1..Len(s) : s[j] = s[i]
    <2>1. k \in 1..m /\ s[k] = s[i]
      OBVIOUS
    <2>2. k = i
      BY <2>1 DEF Leads
    <2>3. y[s[i]] = IF k = 1 THEN null ELSE s[k - 1]
      BY <1>1 DEF ReversedLinks
    <2>4. QED BY <2>2, <2>3
  <1>5. \A c \in DOMAIN x : ~Holds(s, c) => y[c] = x[c]
    BY DEF Holds, ReversedLinks
  <1> HIDE DEF r, y
  <1>6. ASSUME NEW i \in 1..m, NEW j \in 1..m, r[i] = r[j]
        PROVE  i = j
    <2>1. (m - i) + 1 \in 1..m /\ (m - j) + 1 \in 1..m
      BY <1>1
    <2>2. s[(m - i) + 1] = s[(m - j) + 1]
      BY <1>2, <1>6
    <2>3. (m - i) + 1 = (m - j) + 1
      BY <2>1, <2>2 DEF Leads
    <2>4. QED BY <1>1, <2>3
  <1>7. Last(s) = IF r = <<>> THEN null ELSE r[1]
    <2>1. r # <<>>
      BY <1>1, <1>2, EmptySeq
    <2>2. QED BY <1>1, <1>2, <2>1 DEF Last
  <1>8. \A i \in 1..m : y[r[i]] = IF i = m THEN null ELSE r[i + 1]
    <2> SUFFICES ASSUME NEW i \in 1..m PROVE y[r[i]] = IF i = m THEN null ELSE r[i + 1]
      OBVIOUS
    <2>1. y[s[(m - i) + 1]] = IF (m - i) + 1 = 1 THEN null ELSE s[((m - i) + 1) - 1]
      <3>1. (m - i) + 1 \in 1..m
        BY <1>1
      <3>2. QED BY <1>4, <3>1
    <2>2. r[i] = s[(m - i) + 1] /\ ((m - i) + 1 = 1 <=> i = m) /\ ((m - i) + 1) - 1 = m - i
      BY <1>1, <1>2
    <2>3. i # m => r[i + 1] = s[m - i]
      <3>1. i # m => i + 1 \in 1..m /\ (m - (i + 1)) + 1 = m - i
        BY <1>1
      <3>2. QED BY <1>2, <3>1
    <2>4. QED BY <2>1, <2>2, <2>3
  <1>9. Leads(Last(s), r, y, null)
    BY <1>2, <1>3, <1>6, <1>7, <1>8 DEF Leads
  <1>10. QED BY <1>2, <1>5, <1>9 DEF r, y

(***************************************************************************)
(* Sequences with one element more or less                                 *)
(***************************************************************************)

\* What Append adds, element by element.
LEMMA AppendIs ==
    ASSUME NEW S, NEW s \in Seq(S), NEW e \in S, NEW q \in Seq(S),
           Len(q) = Len(s) + 1,
           \A i \in 1..Len(q) : q[i] = IF i = Len(q) THEN e ELSE s[i]
    PROVE  q = Append(s, e)
  <1>1. /\ Append(s, e) \in Seq(S) /\ Len(Append(s, e)) = Len(s) + 1
        /\ \A i \in 1..Len(s) : Append(s, e)[i] = s[i]
        /\ Append(s, e)[Len(s) + 1] = e
    BY AppendProperties
  <1>2. Len(s) \in Nat
    BY LenProperties
  <1>3. QED BY <1>1, <1>2, SeqEqual

\* What RemoveAt leaves, element by element; the tail when it is the first.
LEMMA RemoveAtIs ==
    ASSUME NEW S, NEW s \in Seq(S), NEW k \in 1..Len(s), NEW q \in Seq(S),
           Len(q) = Len(s) - 1,
           \A i \in 1..Len(q) : q[i] = IF i < k THEN s[i] ELSE s[i + 1]
    PROVE  q = RemoveAt(s, k) /\ (k = 1 => q = Tail(s))
  <1> DEFINE a == SubSeq(s, 1, k - 1)
             b == SubSeq(s, k + 1, Len(s))
  <1>1. Len(s) \in Nat /\ \A i \in 1..Len(s) : s[i] \in S
    BY LenProperties, ElementOfSeq
  <1>2. /\ a \in Seq(S) /\ Len(a) = k - 1
        /\ \A i \in 1..(k - 1) : a[i] = s[i]
    BY <1>1, SubSeqProperties
  <1>3. /\ b \in Seq(S) /\ Len(b) = Len(s) - k
        /\ \A i \in 1..(Len(s) - k) : b[i] = s[k + i]
    BY <1>1, SubSeqProperties
  <1> HIDE DEF a, b
  <1>4. /\ a \o b \in Seq(S) /\ Len(a \o b) = Len(a) + Len(b)
        /\ \A i \in 1..Len(a) + Len(b) :
              (a \o b)[i] = IF i <= Len(a) THEN a[i] ELSE b[i - Len(a)]
    BY <1>2, <1>3, ConcatProperties
  <1>5. \A i \in 1..Len(q) : q[i] = (a \o b)[i]
    <2> SUFFICES ASSUME NEW i \in 1..Len(q) PROVE q[i] = (a \o b)[i]
      OBVIOUS
    <2>1. CASE i < k
      <3>1. i \in 1..(Len(a) + Len(b)) /\ i <= Len(a) /\ i \in 1..(k - 1)
        BY <1>1, <1>2, <1>3, <2>1
      <3>2. (a \o b)[i] = a[i]
        BY <1>4, <3>1
      <3>3. a[i] = s[i]
        BY <1>2, <3>1
      <3>4. QED BY <2>1, <3>2, <3>3
    <2>2. CASE ~(i < k)
      <3>1. /\ i \in 1..(Len(a) + Len(b)) /\ ~(i <= Len(a))
            /\ i - Len(a) \in 1..(Len(s) - k) /\ k + (i - Len(a)) = i + 1
        BY <1>1, <1>2, <1>3, <2>2
      <3>2. (a \o b)[i] = b[i - Len(a)]
        BY <1>4, <3>1
      <3>3. b[i - Len(a)] = s[i + 1]
        BY <1>3, <3>1
      <3>4. QED BY <2>2, <3>2, <3>3
    <2>3. QED BY <2>1, <2>2
  <1>6. q = a \o b
    <2>1. Len(q) = Len(a \o b)
      BY <1>1, <1>2, <1>3, <1>4
    <2>2. QED BY <1>4, <1>5, <2>1, SeqEqual
  <1>7. ASSUME k = 1 PROVE q = Tail(s)
    <2>1. s # <<>>
      BY <1>1, EmptySeq
    <2>2. /\ Tail(s) \in Seq(S) /\ Len(Tail(s)) = Len(s) - 1
          /\ \A i \in 1..Len(Tail(s)) : Tail(s)[i] = s[i + 1]
      BY <2>1, HeadTailProperties
    <2>3. QED BY <1>1, <1>7, <2>2, SeqEqual
  <1>8. QED BY <1>6, <1>7 DEF a, b, RemoveAt

\* Turning a sequence round.
LEMMA ReverseIs ==
    ASSUME NEW S, NEW s \in Seq(S)
    PROVE  /\ Reverse(s) \in Seq(S) /\ Len(Reverse(s)) = Len(s)
           /\ \A i \in 1..Len(s) : Reverse(s)[i] = s[(Len(s) - i) + 1]
  <1>1. Len(s) \in Nat /\ \A i \in 1..Len(s) : (Len(s) - i) + 1 \in 1..Len(s)
    BY LenProperties
  <1>2. \A i \in 1..Len(s) : s[(Len(s) - i) + 1] \in S
    BY <1>1, ElementOfSeq
  <1>3. QED BY <1>1, <1>2 DEF Reverse

\* The first of two lists, the second of which is read from its end, and what
\* the empty ones add to it.
LEMMA TurnedLine ==
    /\ <<>> \o Reverse(<<>>) = <<>>
    /\ \A S : \A s \in Seq(S) : Reverse(s) \o Reverse(<<>>) = <<>> \o Reverse(s)
  <1>1. Reverse(<<>>) = <<>>
    BY ReverseIs, EmptySeq
  <1>2. ASSUME NEW S, NEW s \in Seq(S)
        PROVE  Reverse(s) \o <<>> = Reverse(s) /\ <<>> \o Reverse(s) = Reverse(s)
    <2>1. Reverse(s) \in Seq(S)
      BY ReverseIs
    <2>2. QED BY <2>1, ConcatEmptySeq
  <1>3. QED BY <1>1, <1>2, ConcatEmptySeq, EmptySeq

\* Who is pushed onto the second list is the last to be read.
LEMMA TurnedLineGrows ==
    ASSUME NEW S, NEW a \in Seq(S), NEW b \in Seq(S), NEW c \in S
    PROVE  a \o Reverse(<<c>> \o b) = Append(a \o Reverse(b), c)
  <1> DEFINE q == <<c>> \o b
  <1>1. Len(b) \in Nat /\ <<c>> \in Seq(S) /\ Len(<<c>>) = 1 /\ <<c>>[1] = c
    BY LenProperties
  <1>2. /\ q \in Seq(S) /\ Len(q) = 1 + Len(b)
        /\ \A i \in 1..1 + Len(b) : q[i] = IF i <= 1 THEN <<c>>[i] ELSE b[i - 1]
    BY <1>1, ConcatProperties
  <1> HIDE DEF q
  <1>3. /\ Reverse(q) \in Seq(S) /\ Len(Reverse(q)) = Len(q)
        /\ \A i \in 1..Len(q) : Reverse(q)[i] = q[(Len(q) - i) + 1]
    BY <1>2, ReverseIs
  <1>4. /\ Reverse(b) \in Seq(S) /\ Len(Reverse(b)) = Len(b)
        /\ \A i \in 1..Len(b) : Reverse(b)[i] = b[(Len(b) - i) + 1]
    BY ReverseIs
  <1>5. \A i \in 1..Len(q) : Reverse(q)[i] = IF i = Len(q) THEN c ELSE Reverse(b)[i]
    <2> SUFFICES ASSUME NEW i \in 1..Len(q)
                 PROVE  Reverse(q)[i] = IF i = Len(q) THEN c ELSE Reverse(b)[i]
      OBVIOUS
    <2>1. CASE i = Len(q)
      <3>1. (Len(q) - i) + 1 = 1 /\ 1 \in 1..1 + Len(b)
        BY <1>1, <1>2, <2>1
      <3>2. QED BY <1>1, <1>2, <1>3, <2>1, <3>1
    <2>2. CASE i # Len(q)
      <3>1. /\ i \in 1..Len(b) /\ (Len(q) - i) + 1 \in 1..1 + Len(b)
            /\ ~((Len(q) - i) + 1 <= 1) /\ ((Len(q) - i) + 1) - 1 = (Len(b) - i) + 1
        BY <1>1, <1>2, <2>2
      <3>2. QED BY <1>2, <1>3, <1>4, <2>2, <3>1
    <2>3. QED BY <2>1, <2>2
  <1>6. Reverse(q) = Append(Reverse(b), c)
    <2>1. Len(Reverse(q)) = Len(Reverse(b)) + 1
      BY <1>1, <1>2, <1>3, <1>4
    <2>2. QED BY <1>3, <1>4, <1>5, <2>1, AppendIs
  <1>7. Append(Reverse(b), c) = Reverse(b) \o <<c>>
    BY <1>4, AppendIsConcat
  <1>8. Append(a \o Reverse(b), c) = (a \o Reverse(b)) \o <<c>>
    <2>1. a \o Reverse(b) \in Seq(S)
      BY <1>4, ConcatProperties
    <2>2. QED BY <2>1, AppendIsConcat
  <1>9. (a \o Reverse(b)) \o <<c>> = a \o (Reverse(b) \o <<c>>)
    BY <1>1, <1>4, ConcatAssociative
  <1>10. QED BY <1>6, <1>7, <1>8, <1>9 DEF q

\* The head and the tail of a concatenation.
LEMMA HeadTailOfConcat ==
    ASSUME NEW S, NEW a \in Seq(S), NEW b \in Seq(S), a # <<>>
    PROVE  /\ a \o b # <<>> /\ Head(a \o b) = Head(a)
           /\ Tail(a \o b) = Tail(a) \o b
  <1> DEFINE q == a \o b
             t == Tail(a) \o b
  <1>1. Len(a) \in Nat \ {0} /\ Len(b) \in Nat
    BY EmptySeq
  <1>2. /\ Tail(a) \in Seq(S) /\ Len(Tail(a)) = Len(a) - 1
        /\ \A i \in 1..Len(Tail(a)) : Tail(a)[i] = a[i + 1]
    BY HeadTailProperties
  <1>3. /\ q \in Seq(S) /\ Len(q) = Len(a) + Len(b)
        /\ \A i \in 1..Len(a) + Len(b) : q[i] = IF i <= Len(a) THEN a[i] ELSE b[i - Len(a)]
    BY ConcatProperties
  <1>4. /\ t \in Seq(S) /\ Len(t) = Len(Tail(a)) + Len(b)
        /\ \A i \in 1..Len(Tail(a)) + Len(b) :
              t[i] = IF i <= Len(Tail(a)) THEN Tail(a)[i] ELSE b[i - Len(Tail(a))]
    BY <1>2, ConcatProperties
  <1> HIDE DEF q, t
  <1>5. q # <<>>
    BY <1>1, <1>3, EmptySeq
  <1>6. Head(q) = Head(a)
    <2>1. 1 \in 1..Len(a) + Len(b) /\ 1 <= Len(a)
      BY <1>1
    <2>2. q[1] = a[1]
      BY <1>3, <2>1
    <2>3. QED BY <1>1, <1>3, <2>2
  <1>7. /\ Tail(q) \in Seq(S) /\ Len(Tail(q)) = Len(q) - 1
        /\ \A i \in 1..Len(Tail(q)) : Tail(q)[i] = q[i + 1]
    BY <1>3, <1>5, HeadTailProperties
  <1>8. \A i \in 1..Len(t) : Tail(q)[i] = t[i]
    <2> SUFFICES ASSUME NEW i \in 1..Len(t) PROVE Tail(q)[i] = t[i]
      OBVIOUS
    <2>1. i \in 1..Len(Tail(q)) /\ i + 1 \in 1..Len(a) + Len(b) /\ i \in 1..Len(Tail(a)) + Len(b)
      BY <1>1, <1>2, <1>3, <1>4, <1>7
    <2>2. Tail(q)[i] = q[i + 1]
      BY <1>7, <2>1
    <2>3. CASE i <= Len(Tail(a))
      <3>1. i \in 1..Len(Tail(a)) /\ i + 1 <= Len(a)
        BY <1>1, <1>2, <2>3
      <3>2. QED BY <1>2, <1>3, <1>4, <2>1, <2>2, <2>3, <3>1
    <2>4. CASE ~(i <= Len(Tail(a)))
      <3>1. ~(i + 1 <= Len(a)) /\ (i + 1) - Len(a) = i - Len(Tail(a))
        BY <1>1, <1>2, <2>4
      <3>2. QED BY <1>3, <1>4, <2>1, <2>2, <2>4, <3>1
    <2>5. QED BY <2>3, <2>4
  <1>9. Len(Tail(q)) = Len(t)
    BY <1>1, <1>2, <1>3, <1>4, <1>7
  <1>10. Tail(q) = t
    BY <1>4, <1>7, <1>8, <1>9, SeqEqual
  <1>11. QED BY <1>5, <1>6, <1>10 DEF q, t

(***************************************************************************)
(* What a sequence holds                                                   *)
(***************************************************************************)

NoRepeat(s) == \A i, j \in 1..Len(s) : s[i] = s[j] => i = j

\* As a set.
LEMMA HoldsToSet ==
    ASSUME NEW S, NEW s \in Seq(S)
    PROVE  \A d : /\ d \in ToSet(s) <=> Holds(s, d)
                  /\ Holds(s, d) => d \in S
  <1>1. DOMAIN s = 1..Len(s) /\ \A i \in 1..Len(s) : s[i] \in S
    BY LenProperties, ElementOfSeq
  <1>2. QED BY <1>1 DEF ToSet, Holds

\* The empty sequence, and a sequence of one.
LEMMA FewHold ==
    /\ \A d : ~Holds(<<>>, d)
    /\ NoRepeat(<<>>)
    /\ \A c, d : Holds(<<c>>, d) <=> d = c
    /\ \A c : NoRepeat(<<c>>)
  <1>1. Len(<<>>) = 0 /\ \A c : Len(<<c>>) = 1 /\ <<c>>[1] = c
    OBVIOUS
  <1>2. QED BY <1>1 DEF Holds, NoRepeat

\* A concatenation.
LEMMA ConcatHolds ==
    ASSUME NEW S, NEW a \in Seq(S), NEW b \in Seq(S)
    PROVE  /\ \A d : Holds(a \o b, d) <=> Holds(a, d) \/ Holds(b, d)
           /\ NoRepeat(a) /\ NoRepeat(b) /\ (\A d : ~(Holds(a, d) /\ Holds(b, d)))
                => NoRepeat(a \o b)
  <1> DEFINE q == a \o b
             m == Len(a)
             n == Len(b)
  <1>1. m \in Nat /\ n \in Nat
    BY LenProperties
  <1>2. Len(q) = m + n /\ \A i \in 1..m + n : q[i] = IF i <= m THEN a[i] ELSE b[i - m]
    BY ConcatProperties
  <1> HIDE DEF q
  <1>3. \A i \in 1..m : i \in 1..Len(q) /\ q[i] = a[i]
    BY <1>1, <1>2
  <1>4. ASSUME NEW i \in 1..n PROVE m + i \in 1..Len(q) /\ q[m + i] = b[i]
    <2>1. m + i \in 1..m + n /\ ~(m + i <= m) /\ (m + i) - m = i
      BY <1>1
    <2>2. QED BY <1>2, <2>1
  <1>5. ASSUME NEW i \in 1..Len(q)
        PROVE  \/ i \in 1..m /\ q[i] = a[i]
               \/ i - m \in 1..n /\ q[i] = b[i - m]
    BY <1>1, <1>2
  <1>6. ASSUME NEW d PROVE Holds(q, d) <=> Holds(a, d) \/ Holds(b, d)
    <2> HIDE DEF m, n
    <2>1. QED BY <1>3, <1>4, <1>5 DEF Holds, m, n
  <1>7. ASSUME NoRepeat(a), NoRepeat(b), \A d : ~(Holds(a, d) /\ Holds(b, d)),
               NEW i \in 1..Len(q), NEW j \in 1..Len(q), q[i] = q[j]
        PROVE  i = j
    <2>1. \A k \in 1..m, l \in 1..n : a[k] # b[l]
      BY <1>7 DEF Holds
    <2>2. /\ \A k, l \in 1..m : a[k] = a[l] => k = l
          /\ \A k, l \in 1..n : b[k] = b[l] => k = l
      BY <1>7 DEF NoRepeat
    <2>3. (i \in 1..m <=> j \in 1..m) /\ (i - m \in 1..n /\ j - m \in 1..n => i - m = j - m)
      BY <1>1, <1>2, <1>5, <1>7, <2>1, <2>2
    <2>4. QED BY <1>1, <1>2, <1>5, <1>7, <2>2, <2>3
  <1>8. QED BY <1>6, <1>7 DEF q, NoRepeat

\* A sequence with one more in front.
LEMMA PushHolds ==
    ASSUME NEW S, NEW s \in Seq(S), NEW c \in S
    PROVE  /\ <<c>> \o s \in Seq(S)
           /\ \A d : Holds(<<c>> \o s, d) <=> d = c \/ Holds(s, d)
  <1>1. <<c>> \in Seq(S)
    OBVIOUS
  <1>2. /\ <<c>> \o s \in Seq(S)
        /\ \A d : Holds(<<c>> \o s, d) <=> Holds(<<c>>, d) \/ Holds(s, d)
    BY <1>1, ConcatProperties, ConcatHolds
  <1>3. \A d : Holds(<<c>>, d) <=> d = c
    BY FewHold
  <1>4. QED BY <1>2, <1>3

\* What is left behind the first.
LEMMA TailHolds ==
    ASSUME NEW S, NEW s \in Seq(S), s # <<>>, NoRepeat(s)
    PROVE  \A d : Holds(Tail(s), d) <=> d # s[1] /\ Holds(s, d)
  <1> DEFINE t == Tail(s)
  <1>1. Len(s) \in Nat \ {0}
    BY EmptySeq
  <1>2. Len(t) = Len(s) - 1 /\ \A i \in 1..Len(t) : t[i] = s[i + 1]
    BY HeadTailProperties
  <1> HIDE DEF t
  <1>3. ASSUME NEW i \in 1..Len(t) PROVE i + 1 \in 1..Len(s) /\ t[i] = s[i + 1] /\ i + 1 # 1
    BY <1>1, <1>2
  <1>4. ASSUME NEW i \in 1..Len(s), i # 1 PROVE i - 1 \in 1..Len(t) /\ t[i - 1] = s[i]
    BY <1>1, <1>2, <1>4
  <1>5. 1 \in 1..Len(s)
    BY <1>1
  <1>6. QED BY <1>3, <1>4, <1>5 DEF Holds, NoRepeat, t

\* Turned round.
LEMMA ReverseHolds ==
    ASSUME NEW S, NEW s \in Seq(S)
    PROVE  \A d : Holds(Reverse(s), d) <=> Holds(s, d)
  <1>1. /\ Len(Reverse(s)) = Len(s) /\ Len(s) \in Nat
        /\ \A i \in 1..Len(s) : Reverse(s)[i] = s[(Len(s) - i) + 1]
    BY ReverseIs, LenProperties
  <1>2. \A i \in 1..Len(s) : (Len(s) - i) + 1 \in 1..Len(s)
    BY <1>1
  <1>3. \A i \in 1..Len(s) : (Len(s) - ((Len(s) - i) + 1)) + 1 = i
    BY <1>1
  <1>4. QED BY <1>1, <1>2, <1>3 DEF Holds

\* Appending one or two at once.
LEMMA AppendsAre ==
    ASSUME NEW S, NEW s \in Seq(S), NEW c \in S, NEW d \in S
    PROVE  /\ Append(s, c) = s \o <<c>>
           /\ Append(Append(s, c), d) = s \o <<c, d>>
  <1>1. <<c>> \in Seq(S) /\ <<d>> \in Seq(S) /\ <<c>> \o <<d>> = <<c, d>>
    <2> DEFINE q == <<c>> \o <<d>>
               r == <<c, d>>
    <2>1. /\ <<c>> \in Seq(S) /\ Len(<<c>>) = 1 /\ <<c>>[1] = c
          /\ <<d>> \in Seq(S) /\ Len(<<d>>) = 1 /\ <<d>>[1] = d
          /\ r \in Seq(S) /\ Len(r) = 2 /\ r[1] = c /\ r[2] = d
      OBVIOUS
    <2>2. /\ q \in Seq(S) /\ Len(q) = Len(<<c>>) + Len(<<d>>)
          /\ \A i \in 1..Len(<<c>>) + Len(<<d>>) :
                q[i] = IF i <= Len(<<c>>) THEN <<c>>[i] ELSE <<d>>[i - Len(<<c>>)]
      BY <2>1, ConcatProperties
    <2>3. Len(q) = 2 /\ q[1] = c /\ q[2] = d
      BY <2>1, <2>2
    <2> HIDE DEF q, r
    <2>4. q = r
      <3>1. \A i \in 1..Len(q) : q[i] = r[i]
        <4>1. \A i \in 1..2 : i = 1 \/ i = 2
          OBVIOUS
        <4>2. QED BY <2>1, <2>3, <4>1
      <3>2. QED BY <2>1, <2>2, <2>3, <3>1, SeqEqual
    <2>5. QED BY <2>1, <2>4 DEF q, r
  <1>2. Append(s, c) = s \o <<c>> /\ Append(s, c) \in Seq(S)
    BY AppendIsConcat, AppendProperties
  <1>3. Append(Append(s, c), d) = (s \o <<c>>) \o <<d>>
    BY <1>2, AppendIsConcat
  <1>4. (s \o <<c>>) \o <<d>> = s \o (<<c>> \o <<d>>)
    BY <1>1, ConcatAssociative
  <1>5. QED BY <1>1, <1>2, <1>3, <1>4

(***************************************************************************)
(* Taking the first node of a chain out and clearing its link.             *)
(***************************************************************************)

LEMMA LeadsTaken ==
    ASSUME NEW n, NEW s, NEW x, NEW null, Leads(n, s, x, null), n # null,
           null \notin DOMAIN x
    PROVE  /\ s # <<>> /\ s \in Seq(DOMAIN x) /\ n = s[1] /\ n \in DOMAIN x /\ Holds(s, n)
           /\ Leads(x[n], Tail(s), [x EXCEPT ![n] = null], null)
           /\ \A d : Holds(Tail(s), d) <=> d # n /\ Holds(s, d)
  <1> DEFINE y == [x EXCEPT ![n] = null]
  <1>1. s # <<>> /\ s \in Seq(DOMAIN x) /\ NoRepeat(s)
    BY LeadsNowhere DEF Leads, NoRepeat
  <1>2. Len(s) \in Nat \ {0}
    BY <1>1, EmptySeq
  <1>3. n = s[1] /\ 1 \in 1..Len(s)
    BY <1>1, <1>2 DEF Leads
  <1>4. n \in DOMAIN x /\ Holds(s, n)
    BY <1>1, <1>3, ElementOfSeq DEF Holds
  <1>5. \A d : Holds(Tail(s), d) <=> d # n /\ Holds(s, d)
    BY <1>1, <1>3, TailHolds
  <1>6. Leads(x[n], Tail(s), x, null)
    BY <1>1, LeadsPop
  <1>7. DOMAIN y = DOMAIN x /\ \A d \in DOMAIN x : d # n => y[d] = x[d]
    OBVIOUS
  <1>8. \A i \in 1..Len(Tail(s)) : Tail(s)[i] \in DOMAIN x /\ Tail(s)[i] # n
    <2>1. Tail(s) \in Seq(DOMAIN x)
      BY <1>1, HeadTailProperties
    <2>2. QED BY <1>5, <2>1, ElementOfSeq DEF Holds
  <1>9. Leads(x[n], Tail(s), y, null)
    BY <1>6, <1>7, <1>8, LeadsKept
  <1>10. QED BY <1>1, <1>3, <1>4, <1>5, <1>9

\* A set of numbers that is not empty has a least member.
LEMMA LeastNumber ==
    ASSUME NEW X \in SUBSET Nat, X # {}
    PROVE  \E k \in X : \A l \in X : k <= l
  <1> DEFINE Less == {p \in Nat \X Nat : p[1] < p[2]}
  <1>1. IsWellFoundedOn(Less, Nat)
    BY NatLessThanWellFounded DEF OpToRel
  <1>2. PICK k \in X : \A l \in X : ~(<<l, k>> \in Less)
    <2> HIDE DEF Less
    <2>1. QED BY <1>1, WFMin
  <1>3. ASSUME NEW l \in X PROVE k <= l
    <2>1. k \in Nat /\ l \in Nat /\ ~(<<l, k>> \in Less)
      BY <1>2
    <2>2. QED BY <2>1
  <1>4. QED BY <1>3

\* f is what the loop has come to after each of its n rounds.
Loops(f, X, first, step, n) ==
    f \in [0..n -> X] /\ f[0] = first /\ \A i \in 1..n : f[i] = step[<<i, f[i - 1]>>]

\* Every loop comes to something: tlapm knows no recursive function to exist.
LEMMA Rounds ==
    ASSUME NEW X, NEW first \in X, NEW step \in [Nat \X X -> X], NEW n \in Nat
    PROVE  \E f : Loops(f, X, first, step, n)
  <1> DEFINE Ok(k) == \E f \in [0..k -> X] : f[0] = first /\ \A i \in 1..k : f[i] = step[<<i, f[i - 1]>>]
             wrong == {k \in Nat : ~Ok(k)}
  <1>1. SUFFICES ASSUME wrong # {} PROVE FALSE
    BY DEF Loops
  <1>2. PICK k \in wrong : \A l \in wrong : k <= l
    <2>1. wrong \in SUBSET Nat
      OBVIOUS
    <2> HIDE DEF wrong
    <2>2. QED BY <1>1, <2>1, LeastNumber
  <1>3. Ok(0)
    <2> DEFINE f == [i \in 0..0 |-> first]
    <2>1. f \in [0..0 -> X] /\ f[0] = first
      OBVIOUS
    <2>2. \A i \in 1..0 : FALSE
      OBVIOUS
    <2>3. \A i \in 1..0 : f[i] = step[<<i, f[i - 1]>>]
      BY <2>2
    <2> HIDE DEF f, wrong
    <2>4. QED BY <2>1, <2>3
  <1>4. k \in Nat \ {0} /\ k - 1 \in Nat /\ Ok(k - 1)
    <2> HIDE DEF Ok
    <2>1. k \in Nat /\ ~Ok(k)
      OBVIOUS
    <2>2. k # 0
      BY <1>3, <2>1
    <2>3. k - 1 \in Nat /\ k - 1 \notin wrong
      BY <1>2, <2>1, <2>2
    <2>4. QED BY <2>1, <2>2, <2>3
  <1>5. PICK f \in [0..k - 1 -> X] : f[0] = first /\ \A i \in 1..k - 1 : f[i] = step[<<i, f[i - 1]>>]
    BY <1>4
  <1> DEFINE g == [i \in 0..k |-> IF i = k THEN step[<<k, f[k - 1]>>] ELSE f[i]]
  <1>6. g \in [0..k -> X] /\ g[0] = first
    BY <1>4, <1>5
  <1>7. ASSUME NEW i \in 1..k PROVE g[i] = step[<<i, g[i - 1]>>]
    <2>1. CASE i = k
      BY <1>4, <2>1
    <2>2. CASE i # k
      BY <1>4, <1>5, <2>2
    <2>3. QED BY <2>1, <2>2
  <1> HIDE DEF g
  <1>8. Ok(k)
    BY <1>6, <1>7
  <1>9. QED BY <1>8
=============================================================================
