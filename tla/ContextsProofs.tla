--------------------------- MODULE ContextsProofs ---------------------------
(***************************************************************************)
(* Proofs about IocpContext and UringContext, for any number of            *)
(* operations, addresses and packets per batch, any size of the ring: the  *)
(* contexts implement the contract of I/O operations, and nothing is lost  *)
(* between them and the system.  The packet, entry or completion of an     *)
(* operation is the only one about it and says what became of it; and a    *)
(* cancellation, which knows the operation by its address alone, meets     *)
(* that operation or none, because the address is not free before the      *)
(* cancellation is over.                                                   *)
(***************************************************************************)
EXTENDS Contexts, FiniteSetTheorems, SequenceTheorems, TLAPS

(***************************************************************************)
(* iocp_context: what its states have in common                            *)
(***************************************************************************)

Words == {"moved", "failed", "canceled"}
Outcomes == {"value", "error", "stopped"}
Packets == (Ops \X Words) \cup {<<"wake">>}
Asked == stop \cup aborted

\* The system has o, or has had it, and the consumer has not published it.
UnderWay(o) == pc[o] \in {"issued", "armed"}

\* A packet about o with this word would be true.
Told(o, word) == /\ word = "moved" <=> moved[o]
                 /\ word = "canceled" => o \in Asked

\* The result of o is one its contract allows.
Answered(o) == /\ result[o] \in Outcomes
               /\ result[o] = "value" <=> moved[o]
               /\ result[o] = "stopped" => o \in Asked

TypeInv ==
    /\ pc \in [Ops -> Labels]
    /\ result \in [Ops -> Outcomes \cup {"none"}]
    /\ moved \in [Ops -> BOOLEAN]
    /\ request \in [Ops -> Requests \cup {"none"}]
    /\ address \in [Ops -> Addresses \cup {"none"}]
    /\ inflight \subseteq Ops /\ ready \subseteq Ops
    /\ stop \subseteq Ops /\ aborted \subseteq Ops
    /\ calling \subseteq Ops \X Addresses
    /\ packets \in Seq(Packets)

PacketInv ==
    /\ \A i \in 1..Len(packets) : \A o \in Ops, w \in Words :
          packets[i] = <<o, w>> => UnderWay(o) /\ o \notin inflight \cup ready /\ Told(o, w)
    /\ \A i, j \in 1..Len(packets) : \A o \in Ops, v, w \in Words :
          packets[i] = <<o, v>> /\ packets[j] = <<o, w>> => i = j

OpInv ==
    \A o \in Ops :
        /\ pc[o] \in {"idle", "starting"} => ~moved[o]
        /\ pc[o] = "starting" => request[o] \in Requests
        /\ UnderWay(o) => /\ request[o] \in Requests
                          /\ IocpAnswer(request[o], "none") = "pending"
        /\ o \in inflight => UnderWay(o) /\ ~moved[o] /\ o \notin ready
        /\ o \in ready => UnderWay(o) /\ Answered(o)
        /\ pc[o] = "complete" => Answered(o)

AddressInv ==
    /\ \A o \in Ops : Outstanding(o) => address[o] \in Addresses
    /\ \A o \in Ops, a \in Addresses :
          <<o, a>> \in calling => Outstanding(o) /\ address[o] = a /\ o \in stop
    /\ \A o, p \in Ops : Outstanding(o) /\ Outstanding(p) /\ address[o] = address[p] => o = p

IocpInv == TypeInv /\ PacketInv /\ OpInv /\ AddressInv

-----------------------------------------------------------------------------
(***************************************************************************)
(* What the system answers                                                 *)
(***************************************************************************)

\* Each kind of operation is either answered without the system or pending, and
\* then its end is the one the system reports.
LEMMA Answers ==
    ASSUME IocpAssumption, NEW r \in Requests
    PROVE  /\ IocpAnswer(r, "none") \in {"pending", "error", "none moved"}
           /\ IocpAnswer(r, "none") = "pending" =>
                 /\ IocpAnswer(r, "moved") = "value"
                 /\ IocpAnswer(r, "failed") = "error"
                 /\ IocpAnswer(r, "canceled") = "stopped"
  <1>1. /\ r.kind \in {IocpInitiates(k) : k \in IocpCalls}
        /\ r.open \in BOOLEAN /\ r.stream \in BOOLEAN /\ r.empty \in BOOLEAN
    BY DEF IocpAssumption
  <1>2. r.kind \in {"read_some_at", "write_some_at", "receive", "send", "receive_from",
                    "send_to", "accept", "connect"}
    BY <1>1 DEF IocpInitiates, IocpCalls, Calls, Reading, Writing
  <1> USE <1>1 DEF IocpAnswer, WithHandle, Unless, Reported
  <1>3. CASE r.kind = "read_some_at"
    BY <1>3 DEF IocpReadSomeAt
  <1>4. CASE r.kind = "write_some_at"
    BY <1>4 DEF IocpWriteSomeAt
  <1>5. CASE r.kind = "receive"
    BY <1>5 DEF IocpReceive
  <1>6. CASE r.kind = "send"
    BY <1>6 DEF IocpSend
  <1>7. CASE r.kind = "receive_from"
    BY <1>7 DEF IocpReceiveFrom
  <1>8. CASE r.kind = "send_to"
    BY <1>8 DEF IocpSendTo
  <1>9. CASE r.kind = "accept"
    BY <1>9 DEF IocpAccept
  <1>10. CASE r.kind = "connect"
    BY <1>10 DEF IocpConnect
  <1>11. QED
    BY <1>2, <1>3, <1>4, <1>5, <1>6, <1>7, <1>8, <1>9, <1>10

\* What the receiver of a pending operation hears.
LEMMA Reports ==
    ASSUME IocpAssumption, NEW o \in Ops, request[o] \in Requests,
           IocpAnswer(request[o], "none") = "pending"
    PROVE  /\ Report(IocpAnswer(request[o], "moved")) = "value" /\ Moves(o, "moved")
           /\ Report(IocpAnswer(request[o], "failed")) = "error" /\ ~Moves(o, "failed")
           /\ Report(IocpAnswer(request[o], "canceled")) = "stopped"
  BY Answers DEF Report, Moves

-----------------------------------------------------------------------------
(***************************************************************************)
(* The completion port                                                     *)
(***************************************************************************)

\* A packet that wakes the consumer is about nobody.
LEMMA WakeIsNobodys == \A o \in Ops, w \in Words : <<o, w>> # <<"wake">>
  OBVIOUS

\* As long as the operations that have packets stay as they are, their packets
\* stay true.
LEMMA PacketsKept ==
    ASSUME TypeInv, PacketInv, packets' = packets,
           \A o \in Ops : UnderWay(o) /\ o \notin inflight \cup ready =>
               UnderWay(o)' /\ o \notin inflight' \cup ready' /\ moved'[o] = moved[o],
           stop \subseteq stop', aborted \subseteq aborted'
    PROVE  PacketInv'
  BY DEF PacketInv, Told, Asked, Words

\* A wake-up is added.
LEMMA WakeAdded ==
    ASSUME TypeInv, PacketInv, packets' = Append(packets, <<"wake">>),
           UNCHANGED <<pc, inflight, ready, moved, stop, aborted>>
    PROVE  packets' \in Seq(Packets) /\ PacketInv'
  <1>1. packets' \in Seq(Packets) /\ Len(packets') = Len(packets) + 1
    BY AppendProperties DEF TypeInv, Packets
  <1>2. \A i \in 1..Len(packets') : \A o \in Ops, w \in Words :
            packets'[i] = <<o, w>> => i \in 1..Len(packets) /\ packets'[i] = packets[i]
    BY <1>1, AppendProperties, WakeIsNobodys DEF TypeInv
  <1>3. \A i \in 1..Len(packets') : \A o \in Ops, w \in Words :
            packets'[i] = <<o, w>> =>
                UnderWay(o)' /\ o \notin inflight' \cup ready' /\ Told(o, w)'
    BY <1>2 DEF PacketInv, Told, Asked, UnderWay
  <1>4. \A i, j \in 1..Len(packets') : \A o \in Ops, v, w \in Words :
            packets'[i] = <<o, v>> /\ packets'[j] = <<o, w>> => i = j
    <2> TAKE i, j \in 1..Len(packets')
    <2> TAKE o \in Ops
    <2> TAKE v, w \in Words
    <2> HAVE packets'[i] = <<o, v>> /\ packets'[j] = <<o, w>>
    <2>1. /\ i \in 1..Len(packets) /\ packets[i] = <<o, v>>
          /\ j \in 1..Len(packets) /\ packets[j] = <<o, w>>
      BY <1>2
    <2>2. QED BY <2>1 DEF PacketInv
  <1>5. QED BY <1>1, <1>3, <1>4 DEF PacketInv

\* The packets of operations in flight that have none yet are added, once each.
LEMMA WordsAdded ==
    ASSUME TypeInv, PacketInv, OpInv,
           NEW hit \in SUBSET inflight, NEW more \in Seq(hit \X Words),
           packets' = packets \o more,
           inflight' = inflight \ hit,
           \A o \in Ops \ hit : moved'[o] = moved[o],
           UNCHANGED <<pc, ready>>,
           stop \subseteq stop', aborted \subseteq aborted',
           \A i, j \in 1..Len(more) : \A o \in hit, v, w \in Words :
               more[i] = <<o, v>> /\ more[j] = <<o, w>> => i = j,
           \A i \in 1..Len(more) : \A o \in hit, w \in Words : more[i] = <<o, w>> => Told(o, w)'
    PROVE  packets' \in Seq(Packets) /\ PacketInv'
  <1>1. more \in Seq(Packets) /\ hit \subseteq Ops
    BY DEF TypeInv, Packets
  <1>2. /\ packets' \in Seq(Packets)
        /\ Len(packets') = Len(packets) + Len(more)
        /\ \A i \in 1..Len(packets') :
              packets'[i] = IF i <= Len(packets) THEN packets[i] ELSE more[i - Len(packets)]
    BY <1>1, ConcatProperties DEF TypeInv
  <1>3. Len(packets) \in Nat /\ Len(more) \in Nat
    BY <1>1, LenProperties DEF TypeInv
  <1>4. \A k \in 1..Len(more) : more[k] \in hit \X Words
    BY ElementOfSeq
  <1>5. ASSUME NEW i \in 1..Len(packets'), NEW o \in Ops, NEW w \in Words,
               packets'[i] = <<o, w>>
        PROVE  \/ /\ i \in 1..Len(packets) /\ packets[i] = <<o, w>> /\ o \notin hit
               \/ /\ i - Len(packets) \in 1..Len(more) /\ more[i - Len(packets)] = <<o, w>>
                  /\ o \in hit
    <2>1. CASE i <= Len(packets)
      <3>1. i \in 1..Len(packets) /\ packets[i] = <<o, w>>
        BY <1>2, <1>3, <1>5, <2>1
      <3>2. o \notin inflight
        BY <3>1 DEF PacketInv
      <3>3. QED BY <3>1, <3>2
    <2>2. CASE ~(i <= Len(packets))
      <3>1. i - Len(packets) \in 1..Len(more) /\ more[i - Len(packets)] = <<o, w>>
        BY <1>2, <1>3, <1>5, <2>2
      <3>2. <<o, w>> \in hit \X Words
        BY <1>4, <3>1
      <3>3. QED BY <3>1, <3>2
    <2>3. QED BY <2>1, <2>2
  <1>6. \A i \in 1..Len(packets') : \A o \in Ops, w \in Words :
            packets'[i] = <<o, w>> =>
                UnderWay(o)' /\ o \notin inflight' \cup ready' /\ Told(o, w)'
    <2> SUFFICES ASSUME NEW i \in 1..Len(packets'), NEW o \in Ops, NEW w \in Words,
                        packets'[i] = <<o, w>>
                 PROVE  UnderWay(o)' /\ o \notin inflight' \cup ready' /\ Told(o, w)'
      OBVIOUS
    <2>1. CASE i \in 1..Len(packets) /\ packets[i] = <<o, w>> /\ o \notin hit
      BY <2>1 DEF PacketInv, UnderWay, Told, Asked
    <2>2. CASE i - Len(packets) \in 1..Len(more) /\ more[i - Len(packets)] = <<o, w>> /\ o \in hit
      BY <2>2 DEF OpInv, UnderWay
    <2>3. QED BY <1>5, <2>1, <2>2
  <1>7. \A i, j \in 1..Len(packets') : \A o \in Ops, v, w \in Words :
            packets'[i] = <<o, v>> /\ packets'[j] = <<o, w>> => i = j
    <2> TAKE i, j \in 1..Len(packets')
    <2> TAKE o \in Ops
    <2> TAKE v, w \in Words
    <2> HAVE packets'[i] = <<o, v>> /\ packets'[j] = <<o, w>>
    <2>1. CASE o \in hit
      <3>1. /\ i - Len(packets) \in 1..Len(more) /\ more[i - Len(packets)] = <<o, v>>
            /\ j - Len(packets) \in 1..Len(more) /\ more[j - Len(packets)] = <<o, w>>
        BY <1>5, <2>1
      <3>2. i - Len(packets) = j - Len(packets)
        BY <2>1, <3>1
      <3>3. QED BY <1>2, <1>3, <3>2
    <2>2. CASE o \notin hit
      <3>1. /\ i \in 1..Len(packets) /\ packets[i] = <<o, v>>
            /\ j \in 1..Len(packets) /\ packets[j] = <<o, w>>
        BY <1>5, <2>2
      <3>2. QED BY <3>1 DEF PacketInv
    <2>3. QED BY <2>1, <2>2
  <1>8. QED BY <1>2, <1>6, <1>7 DEF PacketInv

\* CancelIoEx() adds one true packet for each operation it meets.
LEMMA AbortAdds ==
    ASSUME IocpAssumption, TypeInv, PacketInv, OpInv,
           NEW hit \in SUBSET inflight, Abort(hit),
           UNCHANGED <<pc, ready, moved>>,
           stop \subseteq stop', aborted \subseteq aborted', hit \subseteq stop' \cup aborted'
    PROVE  packets' \in Seq(Packets) /\ PacketInv' /\ inflight' = inflight \ hit
  <1>1. hit \subseteq Ops /\ IsFiniteSet(hit) /\ Cardinality(hit) \in Nat
    BY FS_Subset, FS_CardinalityType DEF TypeInv, IocpAssumption
  <1>2. PICK order \in SetToSeqs(hit) :
            packets' = packets \o [i \in DOMAIN order |-> <<order[i], "canceled">>]
    BY DEF Abort
  <1>3. /\ order \in [1..Cardinality(hit) -> hit]
        /\ \A i, j \in 1..Cardinality(hit) : i # j => order[i] # order[j]
    BY DEF SetToSeqs
  <1> DEFINE more == [i \in 1..Cardinality(hit) |-> <<order[i], "canceled">>]
  <1>4. more \in [1..Cardinality(hit) -> hit \X Words]
    BY <1>3 DEF Words
  <1>5. more \in Seq(hit \X Words) /\ Len(more) = Cardinality(hit)
    <2> HIDE DEF more
    <2>1. more \in Seq(hit \X Words)
      BY <1>1, <1>4, IsASeq
    <2>2. QED BY <1>1, <1>4, <2>1, LenProperties
  <1>6. packets' = packets \o more
    BY <1>2, <1>3
  <1>7. \A i \in 1..Len(more) : more[i] = <<order[i], "canceled">> /\ order[i] \in hit
    BY <1>3, <1>5
  <1>8. inflight' = inflight \ hit
    BY DEF Abort
  <1> HIDE DEF more
  <1>9. \A i, j \in 1..Len(more) : \A o \in hit, v, w \in Words :
            more[i] = <<o, v>> /\ more[j] = <<o, w>> => i = j
    BY <1>3, <1>5, <1>7
  <1>10. \A i \in 1..Len(more) : \A o \in hit, w \in Words : more[i] = <<o, w>> => Told(o, w)'
    <2> TAKE i \in 1..Len(more)
    <2> TAKE o \in hit, w \in Words
    <2> HAVE more[i] = <<o, w>>
    <2>1. w = "canceled"
      BY <1>7
    <2>2. ~moved'[o] /\ o \in Asked'
      BY <1>1 DEF OpInv, Asked
    <2>3. QED BY <2>1, <2>2 DEF Told
  <1>11. packets' \in Seq(Packets) /\ PacketInv'
    BY <1>5, <1>6, <1>8, <1>9, <1>10, WordsAdded
  <1>12. QED BY <1>8, <1>11

\* The consumer takes the first n packets and answers the operations they are
\* about.
LEMMA PacketsTaken ==
    ASSUME TypeInv, PacketInv, NEW n \in 0..Len(packets),
           packets' = SubSeq(packets, n + 1, Len(packets)),
           \A o \in ready' : \E i \in 1..n, w \in Words : packets[i] = <<o, w>>,
           ready' \subseteq Ops,
           UNCHANGED <<pc, inflight, moved, stop, aborted>>
    PROVE  packets' \in Seq(Packets) /\ PacketInv'
  <1>1. Len(packets) \in Nat
    BY LenProperties DEF TypeInv
  <1>2. /\ packets' \in Seq(Packets)
        /\ \A i \in 1..Len(packets') :
              n + i \in 1..Len(packets) /\ packets'[i] = packets[n + i]
    BY <1>1, SubSeqProperties DEF TypeInv
  <1>3. \A i \in 1..Len(packets') : \A o \in Ops, w \in Words :
            packets'[i] = <<o, w>> =>
                UnderWay(o)' /\ o \notin inflight' \cup ready' /\ Told(o, w)'
    <2> TAKE i \in 1..Len(packets')
    <2> TAKE o \in Ops, w \in Words
    <2> HAVE packets'[i] = <<o, w>>
    <2>1. n + i \in 1..Len(packets) /\ packets[n + i] = <<o, w>>
      BY <1>2
    <2>2. UnderWay(o) /\ o \notin inflight /\ Told(o, w)
      BY <2>1 DEF PacketInv
    <2>3. o \notin ready'
      <3>1. SUFFICES ASSUME o \in ready' PROVE FALSE
        OBVIOUS
      <3>2. PICK k \in 1..n, v \in Words : packets[k] = <<o, v>>
        BY <3>1
      <3>3. k \in 1..Len(packets)
        BY <1>1
      <3>4. k = n + i
        BY <2>1, <3>2, <3>3 DEF PacketInv
      <3>5. i \in Nat /\ i > 0
        BY <1>2, LenProperties
      <3>6. QED BY <3>4, <3>5
    <2>4. QED BY <2>2, <2>3 DEF UnderWay, Told, Asked
  <1>4. \A i, j \in 1..Len(packets') : \A o \in Ops, v, w \in Words :
            packets'[i] = <<o, v>> /\ packets'[j] = <<o, w>> => i = j
    <2> TAKE i, j \in 1..Len(packets')
    <2> TAKE o \in Ops
    <2> TAKE v, w \in Words
    <2> HAVE packets'[i] = <<o, v>> /\ packets'[j] = <<o, w>>
    <2>1. /\ n + i \in 1..Len(packets) /\ packets[n + i] = <<o, v>>
          /\ n + j \in 1..Len(packets) /\ packets[n + j] = <<o, w>>
      BY <1>2
    <2>2. n + i = n + j
      BY <2>1 DEF PacketInv
    <2>3. i \in Nat /\ j \in Nat
      BY <1>2, LenProperties
    <2>4. QED BY <2>2, <2>3
  <1>5. QED BY <1>2, <1>3, <1>4 DEF PacketInv

\* The number of packets that are taken, and what is said in them.
LEMMA DequeueTakes ==
    ASSUME IocpAssumption, TypeInv, PacketInv, Dequeue
    PROVE  \E n \in 0..Len(packets) :
              /\ packets' = SubSeq(packets, n + 1, Len(packets))
              /\ ready' \subseteq Ops
              /\ \A o \in ready' : \E i \in 1..n, w \in Words :
                    /\ packets[i] = <<o, w>>
                    /\ result'[o] = Report(IocpAnswer(request[o], w))
              /\ \A o \in Ops \ ready' : result'[o] = result[o]
              /\ \A i \in 1..n : \A o \in Ops, w \in Words : packets[i] = <<o, w>> => o \in ready'
  <1> DEFINE n == Min({MaxEntries, Len(packets)})
             taken == {packets[i] : i \in {j \in 1..n : packets[j] # <<"wake">>}}
  <1>1. n \in 0..Len(packets)
    <2>1. Len(packets) \in Nat /\ MaxEntries \in Nat
      BY LenProperties DEF TypeInv, IocpAssumption
    <2>2. \E x \in {MaxEntries, Len(packets)} : \A y \in {MaxEntries, Len(packets)} : x <= y
      BY <2>1
    <2>3. n \in {MaxEntries, Len(packets)} /\ n <= Len(packets)
      BY <2>2 DEF Min
    <2>4. QED BY <2>1, <2>3
  <1>2. /\ packets' = SubSeq(packets, n + 1, Len(packets))
        /\ ready' = {packet[1] : packet \in taken}
        /\ result' = [o \in Ops |->
              IF o \in ready'
              THEN Report(IocpAnswer(request[o], (CHOOSE packet \in taken : packet[1] = o)[2]))
              ELSE result[o]]
    BY DEF Dequeue
  <1>3. \A packet \in taken : \E i \in 1..n, o \in Ops, w \in Words :
            packet = <<o, w>> /\ packets[i] = <<o, w>>
    <2> TAKE packet \in taken
    <2>1. PICK i \in 1..n : packet = packets[i] /\ packets[i] # <<"wake">>
      OBVIOUS
    <2>2. i \in 1..Len(packets)
      BY <1>1
    <2>3. packets[i] \in Ops \X Words
      BY <2>1, <2>2, ElementOfSeq DEF TypeInv, Packets
    <2>4. PICK o \in Ops, w \in Words : packets[i] = <<o, w>>
      BY <2>3
    <2>5. QED BY <2>1, <2>4
  <1>8. ASSUME NEW i \in 1..n, NEW o \in Ops, NEW w \in Words, packets[i] = <<o, w>>
        PROVE  o \in ready'
    <2>1. packets[i] # <<"wake">>
      BY <1>8, WakeIsNobodys
    <2>2. packets[i] \in taken
      BY <2>1
    <2>3. packets[i][1] \in ready'
      BY <1>2, <2>2
    <2>4. QED BY <1>8, <2>3
  <1> HIDE DEF n, taken
  <1>4. ready' \subseteq Ops
    BY <1>2, <1>3
  <1>5. \A o \in ready' : \E i \in 1..n, w \in Words :
            packets[i] = <<o, w>> /\ result'[o] = Report(IocpAnswer(request[o], w))
    <2> TAKE o \in ready'
    <2>1. PICK packet \in taken : packet[1] = o
      BY <1>2
    <2> DEFINE said == CHOOSE p \in taken : p[1] = o
    <2>2. said \in taken /\ said[1] = o
      BY <2>1
    <2> HIDE DEF said
    <2>3. PICK i \in 1..n, p \in Ops, w \in Words : said = <<p, w>> /\ packets[i] = <<p, w>>
      BY <1>3, <2>2
    <2>4. p = o /\ said[2] = w
      BY <2>2, <2>3
    <2>5. result'[o] = Report(IocpAnswer(request[o], said[2]))
      BY <1>2, <1>4 DEF said
    <2>6. QED BY <2>3, <2>4, <2>5
  <1>6. \A o \in Ops \ ready' : result'[o] = result[o]
    BY <1>2
  <1>7. QED BY <1>1, <1>2, <1>4, <1>5, <1>6, <1>8

-----------------------------------------------------------------------------
(***************************************************************************)
(* The invariant                                                           *)
(***************************************************************************)

\* Nothing is under way at first.
LEMMA IocpInit == Init => IocpInv
  <1> SUFFICES ASSUME Init PROVE IocpInv
    OBVIOUS
  <1>1. TypeInv
    BY EmptySeq DEF Init, TypeInv, Labels
  <1>2. PacketInv
    BY DEF Init, PacketInv
  <1>3. OpInv /\ AddressInv
    BY DEF Init, OpInv, AddressInv, UnderWay, Outstanding
  <1>4. QED BY <1>1, <1>2, <1>3 DEF IocpInv

\* The steps of an operation that leave the system's part alone.
LEMMA OwnStep ==
    ASSUME IocpAssumption, IocpInv, NEW o \in Ops,
           Start(o) \/ CompletesAtOnce(o) \/ Issue(o) \/ Return(o) \/ Post(o) \/ Finish(o)
    PROVE  IocpInv'
  <1> USE DEF IocpInv, systemVars, stopVars, opVars
  <1>1. CASE Start(o)
    <2>1. PICK r \in Requests, a \in Addresses :
              /\ \A p \in Ops : address[p] # a
              /\ request' = [request EXCEPT ![o] = r] /\ address' = [address EXCEPT ![o] = a]
      BY <1>1 DEF Start
    <2>2. /\ pc[o] = "idle" /\ pc' = [pc EXCEPT ![o] = "starting"]
          /\ UNCHANGED <<inflight, packets, result, moved, stop, calling, aborted, ready>>
      BY <1>1 DEF Start
    <2>3. TypeInv'
      BY <2>1, <2>2 DEF TypeInv, Labels
    <2>4. PacketInv'
      BY <2>2, PacketsKept DEF TypeInv, UnderWay
    <2>5. OpInv'
      BY <2>1, <2>2 DEF TypeInv, OpInv, UnderWay, Answered, Asked
    <2>6. AddressInv'
      BY <2>1, <2>2 DEF TypeInv, AddressInv, Outstanding
    <2>7. QED BY <2>3, <2>4, <2>5, <2>6
  <1>2. CASE CompletesAtOnce(o)
    <2>1. /\ pc[o] = "starting" /\ pc' = [pc EXCEPT ![o] = "complete"]
          /\ UNCHANGED <<inflight, packets, request, address, stop, calling, aborted, ready>>
      BY <1>2 DEF CompletesAtOnce
    <2>2. PICK answer \in {"value", "error"} :
              /\ result' = [result EXCEPT ![o] = answer]
              /\ moved' = [moved EXCEPT ![o] = (answer = "value")]
      <3> DEFINE a == IocpAnswer(request[o], "none")
      <3>1. request[o] \in Requests
        BY <2>1 DEF OpInv
      <3>2. a \in {"pending", "error", "none moved"}
        BY <3>1, Answers
      <3>3. PICK outcome \in IF a = "pending" THEN {"moved", "failed"} ELSE {a} :
                /\ result' = [result EXCEPT ![o] =
                       Report(IF a = "pending" THEN IocpAnswer(request[o], outcome) ELSE a)]
                /\ moved' = [moved EXCEPT ![o] = result'[o] = "value"]
        BY <1>2 DEF CompletesAtOnce
      <3>4. Report(IF a = "pending" THEN IocpAnswer(request[o], outcome) ELSE a)
                \in {"value", "error"}
        <4>1. CASE a = "pending"
          BY <3>1, <3>3, <4>1, Reports
        <4>2. CASE a # "pending"
          BY <3>2, <4>2 DEF Report
        <4>3. QED BY <4>1, <4>2
      <3> HIDE DEF a
      <3>5. PICK answer \in {"value", "error"} : result' = [result EXCEPT ![o] = answer]
        BY <3>3, <3>4
      <3>6. result'[o] = answer
        BY <3>5 DEF TypeInv
      <3>7. QED BY <3>3, <3>5, <3>6
    <2>3. TypeInv'
      BY <2>1, <2>2 DEF TypeInv, Labels, Outcomes
    <2>4. PacketInv'
      BY <2>1, <2>2, PacketsKept DEF TypeInv, UnderWay
    <2>5. OpInv'
      BY <2>1, <2>2 DEF TypeInv, OpInv, UnderWay, Answered, Asked, Outcomes
    <2>6. AddressInv'
      BY <2>1 DEF TypeInv, AddressInv, Outstanding
    <2>7. QED BY <2>3, <2>4, <2>5, <2>6
  <1>3. CASE Issue(o)
    <2>1. /\ pc[o] = "starting" /\ IocpAnswer(request[o], "none") = "pending"
          /\ pc' = [pc EXCEPT ![o] = "issued"] /\ inflight' = inflight \cup {o}
          /\ UNCHANGED <<packets, result, request, address, moved, stop, calling, aborted, ready>>
      BY <1>3 DEF Issue
    <2>2. o \notin ready /\ ~moved[o]
      BY <2>1 DEF OpInv, UnderWay
    <2>3. TypeInv'
      BY <2>1 DEF TypeInv, Labels
    <2>4. PacketInv'
      BY <2>1, PacketsKept DEF TypeInv, UnderWay
    <2>5. OpInv'
      BY <2>1, <2>2 DEF TypeInv, OpInv, UnderWay, Answered, Asked
    <2>6. AddressInv'
      BY <2>1 DEF TypeInv, AddressInv, Outstanding
    <2>7. QED BY <2>3, <2>4, <2>5, <2>6
  <1>4. CASE Return(o)
    <2>1. /\ pc[o] = "issued" /\ pc' = [pc EXCEPT ![o] = "armed"]
          /\ UNCHANGED <<inflight, packets, result, request, address, moved, stop, calling,
                         aborted, ready>>
      BY <1>4 DEF Return
    <2>2. TypeInv'
      BY <2>1 DEF TypeInv, Labels
    <2>3. PacketInv'
      BY <2>1, PacketsKept DEF TypeInv, UnderWay
    <2>4. OpInv'
      BY <2>1 DEF TypeInv, OpInv, UnderWay, Answered, Asked
    <2>5. AddressInv'
      BY <2>1 DEF TypeInv, AddressInv, Outstanding
    <2>6. QED BY <2>2, <2>3, <2>4, <2>5
  <1>5. CASE Post(o)
    <2>1. /\ pc[o] = "complete" /\ pc' = [pc EXCEPT ![o] = "posted"]
          /\ UNCHANGED <<inflight, packets, result, request, address, moved, stop, calling,
                         aborted, ready>>
      BY <1>5 DEF Post
    <2>2. TypeInv'
      BY <2>1 DEF TypeInv, Labels
    <2>3. PacketInv'
      BY <2>1, PacketsKept DEF TypeInv, UnderWay
    <2>4. OpInv'
      BY <2>1 DEF TypeInv, OpInv, UnderWay, Answered, Asked
    <2>5. AddressInv'
      BY <2>1 DEF TypeInv, AddressInv, Outstanding
    <2>6. QED BY <2>2, <2>3, <2>4, <2>5
  <1>6. CASE Finish(o)
    <2>1. /\ pc[o] = "posted" /\ pc' = [pc EXCEPT ![o] = "done"]
          /\ \A call \in calling : call[1] # o
          /\ request' = [request EXCEPT ![o] = "none"]
          /\ address' = [address EXCEPT ![o] = "none"]
          /\ UNCHANGED <<inflight, packets, result, moved, stop, calling, aborted, ready>>
      BY <1>6 DEF Finish
    <2>2. TypeInv'
      BY <2>1 DEF TypeInv, Labels
    <2>3. PacketInv'
      BY <2>1, PacketsKept DEF TypeInv, UnderWay
    <2>4. OpInv'
      BY <2>1 DEF TypeInv, OpInv, UnderWay, Answered, Asked
    <2>5. \A a \in Addresses : <<o, a>> \notin calling
      BY <2>1
    <2>6. AddressInv'
      BY <2>1, <2>5 DEF TypeInv, AddressInv, Outstanding
    <2>7. QED BY <2>2, <2>3, <2>4, <2>6
  <1>7. QED BY <1>1, <1>2, <1>3, <1>4, <1>5, <1>6

\* The system ends an operation: with a packet about it.
LEMMA SystemStep ==
    ASSUME IocpAssumption, IocpInv, NEW o \in Ops, SystemCompletes(o)
    PROVE  IocpInv'
  <1> USE DEF IocpInv, stopVars
  <1>1. PICK outcome \in {"moved", "failed"} :
            /\ packets' = Append(packets, <<o, outcome>>)
            /\ moved' = [moved EXCEPT ![o] = Moves(o, outcome)]
    BY DEF SystemCompletes
  <1>2. /\ o \in inflight /\ inflight' = inflight \ {o}
        /\ UNCHANGED <<pc, result, request, address, stop, calling, aborted, ready>>
    BY DEF SystemCompletes
  <1>3. request[o] \in Requests /\ IocpAnswer(request[o], "none") = "pending"
    BY <1>2 DEF OpInv
  <1>4. Moves(o, outcome) \in BOOLEAN /\ (Moves(o, outcome) <=> outcome = "moved")
    <2>1. Moves(o, outcome) \in BOOLEAN
      BY DEF Moves
    <2>2. Moves(o, "moved") /\ ~Moves(o, "failed")
      BY <1>3, Reports
    <2>3. CASE outcome = "moved"
      BY <2>1, <2>2, <2>3
    <2>4. CASE outcome = "failed"
      BY <2>1, <2>2, <2>4
    <2>5. QED BY <2>3, <2>4
  <1>5. moved' \in [Ops -> BOOLEAN] /\ (moved'[o] <=> outcome = "moved")
        /\ \A p \in Ops \ {o} : moved'[p] = moved[p]
    BY <1>1, <1>4 DEF TypeInv
  <1> DEFINE more == <<<<o, outcome>>>>
  <1>6. /\ more \in Seq({o} \X Words) /\ Len(more) = 1
        /\ more[1] = <<o, outcome>>
    BY DEF Words
  <1>7. packets' = packets \o more
    <2>1. packets \in Seq(Packets) /\ <<o, outcome>> \in Packets
      BY DEF TypeInv, Packets, Words
    <2>2. Append(packets, <<o, outcome>>) = packets \o <<<<o, outcome>>>>
      BY <2>1, AppendIsConcat
    <2>3. QED BY <1>1, <2>2
  <1> HIDE DEF more
  <1>8. {o} \subseteq inflight
    BY <1>2
  <1>9. \A i \in 1..Len(more) : \A p \in {o}, w \in Words : more[i] = <<p, w>> => Told(p, w)'
    BY <1>5, <1>6 DEF Told, Words
  <1>10. packets' \in Seq(Packets) /\ PacketInv'
    <2>1. \A i, j \in 1..Len(more) : \A p \in {o}, v, w \in Words :
              more[i] = <<p, v>> /\ more[j] = <<p, w>> => i = j
      BY <1>6
    <2>2. {o} \in SUBSET inflight /\ UNCHANGED <<pc, ready>>
          /\ stop \subseteq stop' /\ aborted \subseteq aborted'
      BY <1>2, <1>8
    <2>3. QED BY <1>2, <1>5, <1>6, <1>7, <1>9, <2>1, <2>2, WordsAdded
  <1>11. TypeInv'
    BY <1>2, <1>5, <1>10 DEF TypeInv
  <1>12. OpInv'
    BY <1>2, <1>5 DEF OpInv, UnderWay, Answered, Asked
  <1>13. AddressInv'
    BY <1>2 DEF AddressInv, Outstanding
  <1>14. QED BY <1>10, <1>11, <1>12, <1>13

\* Stop requests: a cancellation meets the operation it was meant for.
LEMMA CancelStep ==
    ASSUME IocpAssumption, IocpInv,
           \/ CancelObject
           \/ \E o \in Ops : RequestStop(o) \/ BeginCancel(o) \/ DoCancel(o)
    PROVE  IocpInv'
  <1> USE DEF IocpInv, systemVars, stopVars
  <1>1. ASSUME NEW o \in Ops, RequestStop(o) PROVE IocpInv'
    <2>1. /\ stop' = stop \cup {o}
          /\ UNCHANGED <<inflight, packets, pc, result, request, address, moved, calling,
                         aborted, ready>>
      BY <1>1 DEF RequestStop
    <2>2. PacketInv'
      BY <2>1, PacketsKept DEF UnderWay
    <2>3. TypeInv'
      BY <2>1 DEF TypeInv
    <2>4. OpInv'
      BY <2>1 DEF OpInv, UnderWay, Answered, Asked
    <2>5. AddressInv'
      BY <2>1 DEF AddressInv, Outstanding
    <2>6. QED BY <2>2, <2>3, <2>4, <2>5
  <1>2. ASSUME NEW o \in Ops, BeginCancel(o) PROVE IocpInv'
    <2>1. /\ o \in stop /\ pc[o] = "armed" /\ calling' = calling \cup {<<o, address[o]>>}
          /\ UNCHANGED <<inflight, packets, pc, result, request, address, moved, stop,
                         aborted, ready>>
      BY <1>2 DEF BeginCancel
    <2>2. PacketInv'
      BY <2>1, PacketsKept DEF UnderWay
    <2>3. address[o] \in Addresses
      BY <2>1 DEF AddressInv, Outstanding
    <2>4. TypeInv'
      BY <2>1, <2>3 DEF TypeInv
    <2>5. OpInv'
      BY <2>1 DEF OpInv, UnderWay, Answered, Asked
    <2>6. AddressInv'
      BY <2>1 DEF AddressInv, Outstanding
    <2>7. QED BY <2>2, <2>4, <2>5, <2>6
  <1>3. ASSUME NEW o \in Ops, DoCancel(o) PROVE IocpInv'
    <2>1. PICK a \in Addresses :
              /\ <<o, a>> \in calling /\ calling' = calling \ {<<o, a>>}
              /\ Abort({p \in inflight : address[p] = a})
      BY <1>3 DEF DoCancel
    <2>2. UNCHANGED <<pc, result, request, address, moved, stop, aborted, ready>>
      BY <1>3 DEF DoCancel
    <2> DEFINE hit == {p \in inflight : address[p] = a}
    <2>3. \A p \in hit : p = o /\ p \in stop
      BY <2>1 DEF TypeInv, OpInv, AddressInv, UnderWay, Outstanding
    <2>4. hit \in SUBSET inflight /\ Abort(hit)
      BY <2>1
    <2> HIDE DEF hit
    <2>5. packets' \in Seq(Packets) /\ PacketInv' /\ inflight' = inflight \ hit
      BY <2>2, <2>3, <2>4, AbortAdds
    <2>6. TypeInv'
      BY <2>1, <2>2, <2>5 DEF TypeInv
    <2>7. OpInv'
      BY <2>2, <2>5 DEF OpInv, UnderWay, Answered, Asked
    <2>8. AddressInv'
      BY <2>1, <2>2 DEF AddressInv, Outstanding
    <2>9. QED BY <2>5, <2>6, <2>7, <2>8
  <1>4. CASE CancelObject
    <2>1. /\ aborted' = aborted \cup {o \in Ops : Outstanding(o)} /\ Abort(inflight)
          /\ UNCHANGED <<pc, result, request, address, moved, stop, calling, ready>>
      BY <1>4 DEF CancelObject
    <2>2. inflight \subseteq aborted'
      BY <2>1 DEF TypeInv, OpInv, UnderWay, Outstanding
    <2>3. packets' \in Seq(Packets) /\ PacketInv' /\ inflight' = inflight \ inflight
      BY <2>1, <2>2, AbortAdds
    <2>4. TypeInv'
      BY <2>1, <2>3 DEF TypeInv
    <2>5. OpInv'
      BY <2>1, <2>3 DEF OpInv, UnderWay, Answered, Asked
    <2>6. AddressInv'
      BY <2>1 DEF AddressInv, Outstanding
    <2>7. QED BY <2>3, <2>4, <2>5, <2>6
  <1>5. QED BY <1>1, <1>2, <1>3, <1>4

\* The consumer's steps other than Finish, and the wake-ups it gets.
LEMMA ConsumerStep ==
    ASSUME IocpAssumption, IocpInv,
           \/ NothingPosted \/ Dequeue \/ WaitTimesOut \/ PublishedAll
           \/ \E o \in Ops : PublishReady(o) \/ Interrupt(o)
    PROVE  IocpInv'
  <1> USE DEF IocpInv, systemVars, stopVars, opVars
  <1>1. CASE NothingPosted \/ WaitTimesOut \/ PublishedAll
    <2>1. UNCHANGED <<inflight, packets, pc, result, request, address, moved, stop, calling,
                      aborted, ready>>
      BY <1>1 DEF NothingPosted, WaitTimesOut, PublishedAll
    <2>2. PacketInv'
      BY <2>1, PacketsKept DEF UnderWay
    <2>3. TypeInv' /\ OpInv' /\ AddressInv'
      BY <2>1 DEF TypeInv, OpInv, AddressInv, UnderWay, Answered, Asked, Outstanding
    <2>4. QED BY <2>2, <2>3
  <1>2. CASE Dequeue
    <2>1. UNCHANGED <<inflight, pc, request, address, moved, stop, calling, aborted>>
      BY <1>2 DEF Dequeue
    <2>2. PICK n \in 0..Len(packets) :
              /\ packets' = SubSeq(packets, n + 1, Len(packets))
              /\ ready' \subseteq Ops
              /\ \A o \in ready' : \E i \in 1..n, w \in Words :
                    /\ packets[i] = <<o, w>>
                    /\ result'[o] = Report(IocpAnswer(request[o], w))
              /\ \A o \in Ops \ ready' : result'[o] = result[o]
      BY <1>2, DequeueTakes
    <2>3. packets' \in Seq(Packets) /\ PacketInv'
      BY <2>1, <2>2, PacketsTaken
    <2>4. \A o \in ready' :
              UnderWay(o) /\ o \notin inflight
              /\ result'[o] \in Outcomes
              /\ (result'[o] = "value" <=> moved[o])
              /\ (result'[o] = "stopped" => o \in Asked)
      <3> TAKE o \in ready'
      <3>1. PICK i \in 1..n, w \in Words :
                packets[i] = <<o, w>> /\ result'[o] = Report(IocpAnswer(request[o], w))
        BY <2>2
      <3>2. i \in 1..Len(packets) /\ o \in Ops
        BY <2>2, LenProperties DEF TypeInv
      <3>3. UnderWay(o) /\ o \notin inflight /\ Told(o, w)
        BY <3>1, <3>2 DEF PacketInv
      <3>4. /\ Report(IocpAnswer(request[o], "moved")) = "value"
            /\ Report(IocpAnswer(request[o], "failed")) = "error"
            /\ Report(IocpAnswer(request[o], "canceled")) = "stopped"
        BY <3>2, <3>3, Reports DEF OpInv
      <3>5. QED BY <3>1, <3>3, <3>4 DEF Told, Words, Outcomes
    <2>5. result' \in [Ops -> Outcomes \cup {"none"}]
      <3>1. result' = [o \in Ops |-> result'[o]]
        BY <1>2 DEF Dequeue
      <3>2. \A o \in Ops : result'[o] \in Outcomes \cup {"none"}
        BY <2>2, <2>4 DEF TypeInv
      <3>3. QED BY <3>1, <3>2
    <2>6. TypeInv'
      BY <2>1, <2>2, <2>3, <2>5 DEF TypeInv
    <2>7. OpInv'
      <3>1. \A o \in Ops : o \in ready' => UnderWay(o)' /\ Answered(o)' /\ o \notin inflight'
        BY <2>1, <2>4 DEF UnderWay, Answered, Asked
      <3>2. \A o \in Ops : pc'[o] = "complete" => Answered(o)'
        BY <2>1, <2>2, <2>4 DEF OpInv, UnderWay, Answered, Asked
      <3>3. QED BY <2>1, <3>1, <3>2 DEF OpInv, UnderWay
    <2>8. AddressInv'
      BY <2>1 DEF AddressInv, Outstanding
    <2>9. QED BY <2>3, <2>6, <2>7, <2>8
  <1>3. ASSUME NEW o \in Ops, PublishReady(o) PROVE IocpInv'
    <2>1. PICK place \in {"complete", "posted"} : pc' = [pc EXCEPT ![o] = place]
      BY <1>3 DEF PublishReady
    <2>2. /\ o \in ready /\ ready' = ready \ {o}
          /\ UNCHANGED <<inflight, packets, result, request, address, moved, stop, calling, aborted>>
      BY <1>3 DEF PublishReady
    <2>3. UnderWay(o) /\ Answered(o) /\ o \notin inflight
      BY <2>2 DEF OpInv
    <2>4. PacketInv'
      BY <2>1, <2>2, PacketsKept DEF TypeInv, UnderWay
    <2>5. TypeInv'
      BY <2>1, <2>2 DEF TypeInv, Labels
    <2>6. OpInv'
      BY <2>1, <2>2, <2>3 DEF TypeInv, OpInv, UnderWay, Answered, Asked
    <2>7. AddressInv'
      BY <2>1, <2>2, <2>3 DEF TypeInv, AddressInv, UnderWay, Outstanding
    <2>8. QED BY <2>4, <2>5, <2>6, <2>7
  <1>4. ASSUME NEW o \in Ops, Interrupt(o) PROVE IocpInv'
    <2>1. /\ packets' = Append(packets, <<"wake">>)
          /\ UNCHANGED <<inflight, pc, result, request, address, moved, stop, calling,
                         aborted, ready>>
      BY <1>4 DEF Interrupt
    <2>2. packets' \in Seq(Packets) /\ PacketInv'
      BY <2>1, WakeAdded
    <2>3. TypeInv' /\ OpInv' /\ AddressInv'
      BY <2>1, <2>2 DEF TypeInv, OpInv, AddressInv, UnderWay, Answered, Asked, Outstanding
    <2>4. QED BY <2>2, <2>3
  <1>5. QED BY <1>1, <1>2, <1>3, <1>4

\* Every step keeps the invariant.
LEMMA IocpNext == IocpAssumption /\ IocpInv /\ [Next]_vars => IocpInv'
  <1> SUFFICES ASSUME IocpAssumption, IocpInv, [Next]_vars PROVE IocpInv'
    OBVIOUS
  <1>1. CASE UNCHANGED vars
    <2>1. UNCHANGED <<inflight, packets, pc, result, request, address, moved, stop, calling,
                      aborted, ready>>
      BY <1>1 DEF vars, systemVars, opVars, stopVars
    <2>2. PacketInv'
      BY <2>1, PacketsKept DEF IocpInv, UnderWay
    <2>3. TypeInv' /\ OpInv' /\ AddressInv'
      BY <2>1 DEF IocpInv, TypeInv, OpInv, AddressInv, UnderWay, Answered, Asked, Outstanding
    <2>4. QED BY <2>2, <2>3 DEF IocpInv
  <1>2. CASE Next
    BY <1>2, OwnStep, SystemStep, CancelStep, ConsumerStep
    DEF Next, Starting, Canceling, Posting, DoOne
  <1>3. QED BY <1>1, <1>2

\* Packets, operations and addresses agree in every reachable state.
THEOREM Invariance == ASSUME IocpAssumption PROVE Spec => []IocpInv
  <1>1. IocpInv /\ [Next]_vars => IocpInv'
    BY IocpAssumption, IocpNext
  <1>2. QED BY <1>1, IocpInit, PTL DEF Spec

-----------------------------------------------------------------------------
(***************************************************************************)
(* The refinement                                                          *)
(***************************************************************************)

\* A step that the contract does not see.
LEMMA Unseen ==
    ASSUME UNCHANGED <<moved, stop, aborted>>, \A o \in Ops : Status(o)' = Status(o)
    PROVE  UNCHANGED Contract!ioVars
  BY DEF Contract!ioVars

\* An operation is posted with an answer its contract allows.
LEMMA Completion ==
    ASSUME NEW o \in Ops, NEW Places, pc \in [Ops -> Places], Answered(o),
           pc[o] \notin {"idle", "posted", "done"},
           pc' = [pc EXCEPT ![o] = "posted"], UNCHANGED <<result, moved, stop, aborted>>
    PROVE  Contract!IoNext
  <1>1. \A p \in Ops : pc'[p] = IF p = o THEN "posted" ELSE pc[p]
    OBVIOUS
  <1>2. Status(o) = "started" /\ \A p \in Ops : Status(p)' = IF p = o THEN result[o] ELSE Status(p)
    BY <1>1 DEF Status
  <1>3. Contract!Complete(o, result[o])
    BY <1>2 DEF Contract!Complete, Answered, Asked, Outcomes
  <1>4. QED BY <1>3 DEF Contract!IoNext, Answered, Outcomes

\* The system's transfer is seen when it is made.
LEMMA TransferMade ==
    ASSUME NEW o \in Ops, moved \in [Ops -> BOOLEAN], ~moved[o], Status(o) = "started",
           \A p \in Ops : Status(p)' = Status(p), UNCHANGED <<stop, aborted>>,
           NEW b \in BOOLEAN, moved' = [moved EXCEPT ![o] = b]
    PROVE  [Contract!IoNext]_(Contract!ioVars)
  <1>1. CASE b
    <2>1. moved' = [p \in Ops |-> p \in {o} \/ moved[p]]
      <3>1. \A p \in Ops : moved'[p] = (p \in {o} \/ moved[p])
        BY <1>1
      <3>2. moved' = [p \in Ops |-> moved'[p]]
        OBVIOUS
      <3>3. QED BY <3>1, <3>2
    <2>2. Contract!Transfer({o})
      BY <2>1 DEF Contract!Transfer
    <2>3. QED BY <2>2 DEF Contract!IoNext
  <1>2. CASE ~b
    <2>1. moved' = moved
      BY <1>2
    <2>2. QED BY <2>1, Unseen
  <1>3. QED BY <1>1, <1>2

\* One step per action.
LEMMA RefineNext ==
    IocpAssumption /\ IocpInv /\ [Next]_vars => [Contract!IoNext]_(Contract!ioVars)
  <1> DEFINE Goal == [Contract!IoNext]_(Contract!ioVars)
  <1> SUFFICES ASSUME IocpAssumption, IocpInv, [Next]_vars PROVE Goal
    OBVIOUS
  <1> USE DEF systemVars, stopVars, opVars
  <1>0. pc \in [Ops -> Labels] /\ moved \in [Ops -> BOOLEAN]
    BY DEF IocpInv, TypeInv
  <1>1. CASE UNCHANGED vars
    BY <1>1, Unseen DEF vars, Status
  <1>2. ASSUME NEW o \in Ops, Start(o) PROVE Goal
    <2>1. /\ pc[o] = "idle" /\ pc' = [pc EXCEPT ![o] = "starting"]
          /\ UNCHANGED <<result, moved, stop, aborted>>
      BY <1>2 DEF Start
    <2>2. Status(o) = "idle" /\ \A p \in Ops : Status(p)' = IF p = o THEN "started" ELSE Status(p)
      BY <1>0, <2>1 DEF Status
    <2>3. Contract!StartIo(o)
      BY <2>1, <2>2 DEF Contract!StartIo
    <2>4. QED BY <2>3 DEF Contract!IoNext
  <1>3. ASSUME NEW o \in Ops, CompletesAtOnce(o) PROVE Goal
    <2>1. /\ pc[o] = "starting" /\ pc' = [pc EXCEPT ![o] = "complete"]
          /\ UNCHANGED <<stop, aborted>>
          /\ moved' = [moved EXCEPT ![o] = (result'[o] = "value")]
          /\ \A p \in Ops \ {o} : result'[p] = result[p]
      BY <1>3 DEF CompletesAtOnce, IocpInv, TypeInv
    <2>2. Status(o) = "started" /\ \A p \in Ops : Status(p)' = Status(p)
      BY <1>0, <2>1 DEF Status
    <2>3. ~moved[o]
      BY <2>1 DEF IocpInv, OpInv
    <2>4. QED BY <1>0, <2>1, <2>2, <2>3, TransferMade
  <1>4. ASSUME NEW o \in Ops, Issue(o) \/ Return(o) PROVE Goal
    <2>1. PICK place \in {"issued", "armed"} :
              /\ pc[o] \in {"starting", "issued"} /\ pc' = [pc EXCEPT ![o] = place]
              /\ UNCHANGED <<result, moved, stop, aborted>>
      BY <1>4 DEF Issue, Return
    <2>2. \A p \in Ops : Status(p)' = Status(p)
      BY <1>0, <2>1 DEF Status
    <2>3. QED BY <2>1, <2>2, Unseen
  <1>5. ASSUME NEW o \in Ops, SystemCompletes(o) PROVE Goal
    <2>1. PICK outcome \in {"moved", "failed"} : moved' = [moved EXCEPT ![o] = Moves(o, outcome)]
      BY <1>5 DEF SystemCompletes
    <2>2. o \in inflight /\ UNCHANGED <<pc, result, stop, aborted>>
      BY <1>5 DEF SystemCompletes
    <2>3. UnderWay(o) /\ ~moved[o]
      BY <2>2 DEF IocpInv, OpInv
    <2>4. Status(o) = "started" /\ \A p \in Ops : Status(p)' = Status(p)
      BY <2>2, <2>3 DEF Status, UnderWay
    <2>5. Moves(o, outcome) \in BOOLEAN
      BY DEF Moves
    <2>6. QED BY <1>0, <2>1, <2>2, <2>3, <2>4, <2>5, TransferMade
  <1>6. ASSUME NEW S \in SUBSET Ops, stop' \cup aborted' = Asked \cup S,
               UNCHANGED <<pc, result, moved>>
        PROVE  Goal
    <2>1. \A p \in Ops : Status(p)' = Status(p)
      BY <1>6 DEF Status
    <2>2. Contract!AskToStop(S)
      BY <1>6, <2>1 DEF Contract!AskToStop, Asked
    <2>3. QED BY <2>2 DEF Contract!IoNext
  <1>7. ASSUME NEW o \in Ops, RequestStop(o) PROVE Goal
    <2>1. /\ stop' = stop \cup {o} /\ aborted' = aborted
          /\ UNCHANGED <<pc, result, moved>>
      BY <1>7 DEF RequestStop
    <2>2. stop' \cup aborted' = Asked \cup {o}
      BY <2>1 DEF Asked
    <2>3. QED BY <1>6, <2>1, <2>2
  <1>8. CASE CancelObject
    <2> DEFINE S == {o \in Ops : Outstanding(o)}
    <2>1. /\ aborted' = aborted \cup S /\ stop' = stop
          /\ UNCHANGED <<pc, result, moved>>
      BY <1>8 DEF CancelObject
    <2>2. stop' \cup aborted' = Asked \cup S /\ S \in SUBSET Ops
      BY <2>1 DEF Asked
    <2> HIDE DEF S
    <2>3. QED BY <1>6, <2>1, <2>2
  <1>9. ASSUME NEW o \in Ops, BeginCancel(o) \/ DoCancel(o) \/ Interrupt(o) PROVE Goal
    BY <1>9, Unseen DEF BeginCancel, DoCancel, Interrupt, Status
  <1>10. ASSUME NEW o \in Ops, Post(o) PROVE Goal
    <2>1. /\ pc[o] = "complete" /\ pc' = [pc EXCEPT ![o] = "posted"]
          /\ UNCHANGED <<result, moved, stop, aborted>>
      BY <1>10 DEF Post
    <2>2. Answered(o)
      BY <2>1 DEF IocpInv, OpInv
    <2>3. QED BY <1>0, <2>1, <2>2, Completion
  <1>11. ASSUME NEW o \in Ops, Finish(o) PROVE Goal
    <2>1. /\ pc[o] = "posted" /\ pc' = [pc EXCEPT ![o] = "done"]
          /\ UNCHANGED <<result, moved, stop, aborted>>
      BY <1>11 DEF Finish
    <2>2. \A p \in Ops : Status(p)' = Status(p)
      BY <1>0, <2>1 DEF Status
    <2>3. QED BY <2>1, <2>2, Unseen
  <1>12. CASE NothingPosted \/ WaitTimesOut \/ PublishedAll
    BY <1>12, Unseen DEF NothingPosted, WaitTimesOut, PublishedAll, Status
  <1>13. CASE Dequeue
    <2>1. UNCHANGED <<pc, moved, stop, aborted>>
      BY <1>13 DEF Dequeue
    <2>2. \A o \in Ops : o \in ready' => UnderWay(o)
      <3>1. IocpInv'
        BY <1>13, ConsumerStep
      <3>2. QED BY <2>1, <3>1 DEF IocpInv, OpInv, UnderWay
    <2>3. \A o \in Ops : o \notin ready' => result'[o] = result[o]
      BY <1>13, DequeueTakes DEF IocpInv
    <2>4. \A o \in Ops : Status(o)' = Status(o)
      BY <2>1, <2>2, <2>3 DEF Status, UnderWay
    <2>5. QED BY <2>1, <2>4, Unseen
  <1>14. ASSUME NEW o \in Ops, PublishReady(o) PROVE Goal
    <2>1. /\ o \in ready /\ UNCHANGED <<result, moved, stop, aborted>>
          /\ pc' = [pc EXCEPT ![o] = IF pc[o] = "issued" THEN "complete" ELSE "posted"]
      BY <1>14 DEF PublishReady
    <2>2. UnderWay(o) /\ Answered(o)
      BY <2>1 DEF IocpInv, OpInv
    <2>3. CASE pc[o] = "issued"
      <3>1. \A p \in Ops : Status(p)' = Status(p)
        BY <1>0, <2>1, <2>3 DEF Status
      <3>2. QED BY <2>1, <3>1, Unseen
    <2>4. CASE pc[o] = "armed"
      BY <1>0, <2>1, <2>2, <2>4, Completion
    <2>5. QED BY <2>2, <2>3, <2>4 DEF UnderWay
  <1>15. QED
    BY <1>1, <1>2, <1>3, <1>4, <1>5, <1>7, <1>8, <1>9, <1>10, <1>11, <1>12, <1>13, <1>14
    DEF Next, Starting, Canceling, Posting, DoOne

\* A fresh context is a fresh contract.
LEMMA RefineInit == Init => Contract!IoInit
  BY DEF Init, Contract!IoInit, Status

\* Every run of the context is one the contract allows: an operation completes
\* once, reports a transfer exactly when the system made one, and is stopped
\* only when its own token or its object was asked to, never by a cancellation
\* that was meant for another operation at its address.
THEOREM Implements == ASSUME IocpAssumption PROVE Spec => ImplementsIo
  <1>1. IocpInv /\ [Next]_vars => [Contract!IoNext]_(Contract!ioVars)
    BY IocpAssumption, RefineNext
  <1>2. Spec => []IocpInv
    BY IocpAssumption, Invariance
  <1>3. QED BY <1>1, <1>2, RefineInit, PTL DEF Spec, ImplementsIo, Contract!IoSpec

-----------------------------------------------------------------------------
(***************************************************************************)
(* uring_context: what its states have in common                           *)
(***************************************************************************)

RingEntries ==
    ({"io"} \X Ops) \cup ({"cancel"} \X Addresses) \cup {<<"cancel_fd">>, <<"nop">>}

\* The types.
UringTypes ==
    /\ ring \in Seq(RingEntries)
    /\ pulling \in BOOLEAN /\ wake \in BOOLEAN /\ shorts \in Nat
    /\ inflight \in SUBSET Ops /\ cqes \in SUBSET (Ops \X Words)
    /\ pc \in [Ops -> Uring!Labels]
    /\ result \in [Ops -> Outcomes \cup {"none"}]
    /\ request \in [Ops -> UringRequests \cup {"none"}]
    /\ address \in [Ops -> Addresses \cup {"none"}]
    /\ moved \in [Ops -> BOOLEAN]
    /\ {stop, called, aborted, wakers} \subseteq SUBSET Ops
    /\ calling \in SUBSET (Ops \X Addresses)
    /\ loop \in {"consume", "submit", "wait", "peek", "publish"}

Entered(o, r) == \E i \in 1..Len(r) : r[i] = <<"io", o>>

\* An armed operation is in one place: once in the ring r, with the kernel, or
\* behind one completion.
Placed(r, flying, answers, at) ==
    \A o \in Ops :
        /\ \A i, j \in 1..Len(r) : r[i] = <<"io", o>> /\ r[j] = <<"io", o>> => i = j
        /\ Entered(o, r) => o \notin flying
        /\ \A x \in Words : <<o, x>> \in answers =>
              /\ o \notin flying /\ ~Entered(o, r)
              /\ \A y \in Words : <<o, y>> \in answers => x = y
        /\ at[o] = "armed" <=> Entered(o, r) \/ o \in flying
                                 \/ \E x \in Words : <<o, x>> \in answers

\* An entry cancels only who asked for it.
Justified(r, flying, asked) ==
    \A o \in Ops : \A j \in 1..Len(r) :
        /\ r[j] \in {<<"cancel", address[o]>>, <<"cancel_fd">>}
        /\ o \in flying \/ \E i \in 1..(j - 1) : r[i] = <<"io", o>>
        => o \in asked

\* A transfer is made by its completion.
Truthful(r, flying, answers, asked) ==
    \A o \in Ops :
        /\ Entered(o, r) \/ o \in flying => ~moved[o]
        /\ \A x \in Words : <<o, x>> \in answers =>
              (moved[o] <=> x = "moved") /\ (x = "canceled" => o \in asked)

RingInv ==
    /\ Placed(ring, inflight, cqes, pc)
    /\ Justified(ring, inflight, Asked)
    /\ Truthful(ring, inflight, cqes, Asked)

\* What an operation that is under way is and what its result says.
ResultInv ==
    \A o \in Ops :
        /\ pc[o] \in {"starting", "armed"} => request[o] \in UringRequests
        /\ pc[o] = "armed" => Uring!UringAnswer(request[o], "none") = "pending"
        /\ pc[o] \in {"idle", "starting"} => ~moved[o]
        /\ pc[o] \in {"complete", "taken", "posted", "done"} =>
              /\ result[o] \in Outcomes
              /\ result[o] = "value" <=> moved[o]
              /\ result[o] = "stopped" => o \in Asked

\* While the consumer is about to wait nobody leaves an entry in the ring.
PullInv ==
    /\ pulling <=> loop \in {"submit", "wait", "peek"}
    /\ loop = "wait" /\ ring # <<>> => shorts > 0

UringInv == UringTypes /\ RingInv /\ ResultInv /\ AddressInv /\ PullInv

-----------------------------------------------------------------------------
\* What a ring holds after an append.
LEMMA Appended ==
    ASSUME NEW S, NEW r \in Seq(S), NEW e \in S
    PROVE  /\ Append(r, e) \in Seq(S) /\ Len(Append(r, e)) = Len(r) + 1
           /\ Len(r) \in Nat
           /\ \A i \in 1..Len(r) : Append(r, e)[i] = r[i]
           /\ Append(r, e)[Len(r) + 1] = e
  BY AppendProperties, LenProperties

\* And after the kernel has taken its first entries.
LEMMA Rest ==
    ASSUME NEW S, NEW r \in Seq(S), NEW n \in 0..Len(r)
    PROVE  LET q == SubSeq(r, n + 1, Len(r))
           IN  /\ q \in Seq(S) /\ Len(q) = Len(r) - n /\ Len(r) \in Nat
               /\ \A i \in 1..(Len(r) - n) : q[i] = r[n + i]
  <1>1. Len(r) \in Nat /\ \A i \in 1..Len(r) : r[i] \in S
    BY LenProperties, ElementOfSeq
  <1>2. QED BY <1>1, SubSeqProperties

\* The kernel takes n entries of a ring.
LEMMA KernelTakes ==
    ASSUME NEW r \in Seq(RingEntries), NEW n \in 0..Len(r), NEW at, NEW asked,
           UringTypes, Placed(r, inflight, cqes, at), Justified(r, inflight, asked),
           Truthful(r, inflight, cqes, asked)
    PROVE  LET canceled == Uring!CanceledBy(r, n)
               flying == (inflight \cup {o \in Ops : \E i \in 1..n : r[i] = <<"io", o>>}) \ canceled
               answers == cqes \cup (canceled \X {"canceled"})
               rest == SubSeq(r, n + 1, Len(r))
           IN  /\ flying \in SUBSET Ops /\ answers \in SUBSET (Ops \X Words)
               /\ Placed(rest, flying, answers, at)
               /\ Justified(rest, flying, asked)
               /\ Truthful(rest, flying, answers, asked)
  <1> DEFINE canceled == Uring!CanceledBy(r, n)
             entered == {o \in Ops : \E i \in 1..n : r[i] = <<"io", o>>}
             flying == (inflight \cup entered) \ canceled
             answers == cqes \cup (canceled \X {"canceled"})
             rest == SubSeq(r, n + 1, Len(r))
  <1>1. /\ Len(rest) = Len(r) - n /\ Len(r) \in Nat /\ n \in Nat
        /\ \A i \in 1..(Len(r) - n) : rest[i] = r[n + i] /\ n + i \in 1..Len(r)
    BY Rest
  <1>2. canceled \in SUBSET Ops /\ canceled \subseteq inflight \cup entered /\ canceled \subseteq asked
    <2>1. ASSUME NEW o \in canceled PROVE o \in Ops /\ (o \in inflight \/ o \in entered) /\ o \in asked
      <3>1. PICK j \in 1..n :
              /\ r[j] \in {<<"cancel", address[o]>>, <<"cancel_fd">>}
              /\ o \in inflight \/ \E i \in 1..(j - 1) : r[i] = <<"io", o>>
        BY <2>1 DEF Uring!CanceledBy
      <3>2. o \in Ops /\ j \in 1..Len(r) /\ \A i \in 1..(j - 1) : i \in 1..n
        BY <1>1, <2>1 DEF Uring!CanceledBy
      <3>3. QED BY <3>1, <3>2 DEF Justified
    <2>2. QED BY <2>1
  <1> HIDE DEF canceled
  <1>3. flying \in SUBSET Ops /\ answers \in SUBSET (Ops \X Words)
    BY <1>2 DEF UringTypes, Words
  <1>4. ASSUME NEW o \in Ops
        PROVE  /\ Entered(o, r) <=> Entered(o, rest) \/ o \in entered
               /\ ~(Entered(o, rest) /\ o \in entered)
    <2>1. ASSUME NEW i \in 1..Len(rest), rest[i] = <<"io", o>>
          PROVE  n + i \in 1..Len(r) /\ r[n + i] = <<"io", o>> /\ n + i \notin 1..n
      BY <1>1, <2>1
    <2>2. ASSUME NEW i \in 1..Len(r), r[i] = <<"io", o>>
          PROVE  o \in entered \/ Entered(o, rest)
      <3>1. CASE i \in 1..n
        BY <2>2, <3>1
      <3>2. CASE i \notin 1..n
        <4>1. i - n \in 1..Len(rest) /\ rest[i - n] = <<"io", o>>
          BY <1>1, <2>2, <3>2
        <4>2. QED BY <4>1 DEF Entered
      <3>3. QED BY <3>1, <3>2
    <2>3. o \in entered => Entered(o, r)
      <3>1. \A i \in 1..n : i \in 1..Len(r)
        BY <1>1
      <3>2. QED BY <3>1 DEF Entered
    <2>4. ~(Entered(o, rest) /\ o \in entered)
      <3>1. SUFFICES ASSUME Entered(o, rest), o \in entered PROVE FALSE
        OBVIOUS
      <3>2. PICK i \in 1..Len(rest) : rest[i] = <<"io", o>>
        BY <3>1 DEF Entered
      <3>3. PICK j \in 1..n : r[j] = <<"io", o>>
        BY <3>1
      <3>4. j \in 1..Len(r)
        BY <1>1
      <3>5. QED BY <2>1, <3>2, <3>3, <3>4 DEF Placed
    <2>5. QED BY <2>1, <2>2, <2>3, <2>4 DEF Entered
  <1>5. Placed(rest, flying, answers, at)
    <2> SUFFICES ASSUME NEW o \in Ops
                 PROVE  /\ \A i, j \in 1..Len(rest) :
                              rest[i] = <<"io", o>> /\ rest[j] = <<"io", o>> => i = j
                        /\ Entered(o, rest) => o \notin flying
                        /\ \A x \in Words : <<o, x>> \in answers =>
                              /\ o \notin flying /\ ~Entered(o, rest)
                              /\ \A y \in Words : <<o, y>> \in answers => x = y
                        /\ at[o] = "armed" <=> Entered(o, rest) \/ o \in flying
                                 \/ \E x \in Words : <<o, x>> \in answers
      BY DEF Placed
    <2>1. /\ \A i, j \in 1..Len(r) : r[i] = <<"io", o>> /\ r[j] = <<"io", o>> => i = j
          /\ Entered(o, r) => o \notin inflight
          /\ \A x \in Words : <<o, x>> \in cqes =>
                /\ o \notin inflight /\ ~Entered(o, r)
                /\ \A y \in Words : <<o, y>> \in cqes => x = y
          /\ at[o] = "armed" <=> Entered(o, r) \/ o \in inflight
                                   \/ \E x \in Words : <<o, x>> \in cqes
      BY DEF Placed
    <2>2. \A i, j \in 1..Len(rest) : rest[i] = <<"io", o>> /\ rest[j] = <<"io", o>> => i = j
      <3> SUFFICES ASSUME NEW i \in 1..Len(rest), NEW j \in 1..Len(rest),
                          rest[i] = <<"io", o>>, rest[j] = <<"io", o>>
                   PROVE  i = j
        OBVIOUS
      <3>1. r[n + i] = <<"io", o>> /\ r[n + j] = <<"io", o>>
            /\ n + i \in 1..Len(r) /\ n + j \in 1..Len(r)
        BY <1>1
      <3>2. n + i = n + j
        BY <2>1, <3>1
      <3>3. QED BY <1>1, <3>2
    <2>3. \A x \in Words : <<o, x>> \in answers <=>
              <<o, x>> \in cqes \/ (o \in canceled /\ x = "canceled")
      OBVIOUS
    <2>4. o \in canceled => o \in inflight \/ o \in entered
      BY <1>2
    <2>5. o \in flying <=> (o \in inflight \/ o \in entered) /\ o \notin canceled
      OBVIOUS
    <2>6. "canceled" \in Words
      BY DEF Words
    <2> HIDE DEF flying, answers, entered, rest
    <2>7. QED BY <1>4, <2>1, <2>2, <2>3, <2>4, <2>5, <2>6
  <1>6. Justified(rest, flying, asked)
    <2> SUFFICES ASSUME NEW o \in Ops, NEW j \in 1..Len(rest),
                        rest[j] \in {<<"cancel", address[o]>>, <<"cancel_fd">>},
                        o \in flying \/ \E i \in 1..(j - 1) : rest[i] = <<"io", o>>
                 PROVE  o \in asked
      BY DEF Justified
    <2>1. n + j \in 1..Len(r) /\ r[n + j] \in {<<"cancel", address[o]>>, <<"cancel_fd">>}
      BY <1>1
    <2>2. o \in inflight \/ \E i \in 1..((n + j) - 1) : r[i] = <<"io", o>>
      <3>1. CASE o \in flying
        <4>1. \A i \in 1..n : i \in 1..((n + j) - 1)
          BY <1>1
        <4>2. QED BY <3>1, <4>1
      <3>2. CASE \E i \in 1..(j - 1) : rest[i] = <<"io", o>>
        <4>1. PICK i \in 1..(j - 1) : rest[i] = <<"io", o>>
          BY <3>2
        <4>2. n + i \in 1..((n + j) - 1) /\ r[n + i] = <<"io", o>>
          BY <1>1, <4>1
        <4>3. QED BY <4>2
      <3>3. QED BY <3>1, <3>2
    <2>3. QED BY <2>1, <2>2 DEF Justified
  <1>7. Truthful(rest, flying, answers, asked)
    <2> SUFFICES ASSUME NEW o \in Ops
                 PROVE  /\ Entered(o, rest) \/ o \in flying => ~moved[o]
                        /\ \A x \in Words : <<o, x>> \in answers =>
                              (moved[o] <=> x = "moved") /\ (x = "canceled" => o \in asked)
      BY DEF Truthful
    <2>1. /\ Entered(o, r) \/ o \in inflight => ~moved[o]
          /\ \A x \in Words : <<o, x>> \in cqes =>
                (moved[o] <=> x = "moved") /\ (x = "canceled" => o \in asked)
      BY DEF Truthful
    <2>2. o \in entered => Entered(o, r)
      BY <1>4
    <2> QED BY <1>2, <1>4, <2>1, <2>2
  <1>8. QED BY <1>3, <1>5, <1>6, <1>7 DEF canceled


\* An entry is added: an operation that is armed by it, or a cancellation of those
\* who asked for one.
LEMMA EntryAdded ==
    ASSUME UringTypes, RingInv, NEW e \in RingEntries, NEW at, NEW asked,
           Asked \subseteq asked,
           \A o \in Ops : at[o] = "armed" <=> pc[o] = "armed" \/ e = <<"io", o>>,
           \A o \in Ops : e = <<"io", o>> => pc[o] # "armed" /\ ~moved[o],
           \A o \in Ops : e \in {<<"cancel", address[o]>>, <<"cancel_fd">>} /\ pc[o] = "armed"
                              => o \in asked
    PROVE  LET r == Append(ring, e)
           IN  /\ r \in Seq(RingEntries) /\ Len(r) = Len(ring) + 1 /\ Len(ring) \in Nat
               /\ Placed(r, inflight, cqes, at)
               /\ Justified(r, inflight, asked)
               /\ Truthful(r, inflight, cqes, asked)
  <1> DEFINE r == Append(ring, e)
  <1>1. /\ r \in Seq(RingEntries) /\ Len(r) = Len(ring) + 1 /\ Len(ring) \in Nat
        /\ \A i \in 1..Len(ring) : r[i] = ring[i]
        /\ r[Len(ring) + 1] = e
    BY Appended DEF UringTypes
  <1> HIDE DEF r
  <1>2. \A i \in 1..Len(r) : i \in 1..Len(ring) \/ i = Len(ring) + 1
    BY <1>1
  <1>3. ASSUME NEW o \in Ops PROVE Entered(o, r) <=> Entered(o, ring) \/ e = <<"io", o>>
    <2>1. \A i \in 1..Len(ring) : i \in 1..Len(r)
      BY <1>1
    <2>2. Len(ring) + 1 \in 1..Len(r)
      BY <1>1
    <2>3. QED BY <1>1, <1>2, <2>1, <2>2 DEF Entered
  <1>4. ASSUME NEW o \in Ops
        PROVE  /\ \A i, j \in 1..Len(ring) : ring[i] = <<"io", o>> /\ ring[j] = <<"io", o>> => i = j
               /\ Entered(o, ring) => o \notin inflight
               /\ \A x \in Words : <<o, x>> \in cqes =>
                     /\ o \notin inflight /\ ~Entered(o, ring)
                     /\ \A y \in Words : <<o, y>> \in cqes => x = y
               /\ pc[o] = "armed" <=> Entered(o, ring) \/ o \in inflight
                                        \/ \E x \in Words : <<o, x>> \in cqes
    BY DEF RingInv, Placed
  <1>5. Placed(r, inflight, cqes, at)
    <2> SUFFICES ASSUME NEW o \in Ops
                 PROVE  /\ \A i, j \in 1..Len(r) : r[i] = <<"io", o>> /\ r[j] = <<"io", o>> => i = j
                        /\ Entered(o, r) => o \notin inflight
                        /\ \A x \in Words : <<o, x>> \in cqes =>
                              /\ o \notin inflight /\ ~Entered(o, r)
                              /\ \A y \in Words : <<o, y>> \in cqes => x = y
                        /\ at[o] = "armed" <=> Entered(o, r) \/ o \in inflight
                                 \/ \E x \in Words : <<o, x>> \in cqes
      BY DEF Placed
    <2>1. \A i, j \in 1..Len(r) : r[i] = <<"io", o>> /\ r[j] = <<"io", o>> => i = j
      <3> SUFFICES ASSUME NEW i \in 1..Len(r), NEW j \in 1..Len(r),
                          r[i] = <<"io", o>>, r[j] = <<"io", o>>, i # j
                   PROVE  FALSE
        OBVIOUS
      <3>1. CASE i \in 1..Len(ring) /\ j \in 1..Len(ring)
        BY <1>1, <1>4, <3>1
      <3>2. CASE i = Len(ring) + 1 /\ j \in 1..Len(ring)
        <4>1. e = <<"io", o>> /\ Entered(o, ring)
          BY <1>1, <3>2 DEF Entered
        <4>2. QED BY <1>4, <4>1
      <3>3. CASE j = Len(ring) + 1 /\ i \in 1..Len(ring)
        <4>1. e = <<"io", o>> /\ Entered(o, ring)
          BY <1>1, <3>3 DEF Entered
        <4>2. QED BY <1>4, <4>1
      <3>4. QED BY <1>2, <3>1, <3>2, <3>3
    <2>2. QED BY <1>3, <1>4, <2>1
  <1>6. Justified(r, inflight, asked)
    <2> SUFFICES ASSUME NEW o \in Ops, NEW j \in 1..Len(r),
                        r[j] \in {<<"cancel", address[o]>>, <<"cancel_fd">>},
                        o \in inflight \/ \E i \in 1..(j - 1) : r[i] = <<"io", o>>
                 PROVE  o \in asked
      BY DEF Justified
    <2>1. \A i \in 1..(j - 1) : i \in 1..Len(ring) /\ r[i] = ring[i]
      BY <1>1
    <2>2. CASE j \in 1..Len(ring)
      <3>1. ring[j] \in {<<"cancel", address[o]>>, <<"cancel_fd">>}
        BY <1>1, <2>2
      <3>2. o \in inflight \/ \E i \in 1..(j - 1) : ring[i] = <<"io", o>>
        BY <2>1
      <3>3. QED BY <2>2, <3>1, <3>2 DEF RingInv, Justified
    <2>3. CASE j = Len(ring) + 1
      <3>1. e \in {<<"cancel", address[o]>>, <<"cancel_fd">>}
        BY <1>1, <2>3
      <3>2. o \in inflight \/ Entered(o, ring)
        BY <2>1 DEF Entered
      <3>3. QED BY <1>4, <3>1, <3>2
    <2>4. QED BY <1>2, <2>2, <2>3
  <1>7. Truthful(r, inflight, cqes, asked)
    BY <1>3 DEF RingInv, Truthful
  <1>8. QED BY <1>1, <1>5, <1>6, <1>7 DEF r

\* A submission of the ring r, whole unless the kernel cuts it short.
LEMMA Submitted ==
    ASSUME UringTypes, NEW r \in Seq(RingEntries), NEW at, NEW asked,
           Placed(r, inflight, cqes, at), Justified(r, inflight, asked),
           Truthful(r, inflight, cqes, asked),
           NEW low \in Nat, NEW high \in 0..Len(r), Uring!SubmitFrom(r, low, high)
    PROVE  /\ ring' \in Seq(RingEntries) /\ wake' \in BOOLEAN /\ shorts' \in Nat
           /\ shorts <= shorts'
           /\ inflight' \in SUBSET Ops /\ cqes' \in SUBSET (Ops \X Words)
           /\ Placed(ring', inflight', cqes', at)
           /\ Justified(ring', inflight', asked)
           /\ Truthful(ring', inflight', cqes', asked)
           /\ high = Len(r) /\ ring' # <<>> => shorts' > 0
  <1>1. Len(r) \in Nat
    BY LenProperties
  <1>2. PICK n \in low..high :
            /\ shorts' = IF n < high THEN shorts + 1 ELSE shorts
            /\ LET canceled == Uring!CanceledBy(r, n)
                   entered == {o \in Ops : \E i \in 1..n : r[i] = <<"io", o>>}
               IN  /\ inflight' = (inflight \cup entered) \ canceled
                   /\ cqes' = cqes \cup (canceled \X {"canceled"})
            /\ wake' = (wake \/ \E i \in 1..n : r[i][1] # "io")
            /\ ring' = SubSeq(r, n + 1, Len(r))
    BY DEF Uring!SubmitFrom
  <1>3. n \in 0..Len(r)
    BY <1>1
  <1>4. ring' \in Seq(RingEntries) /\ Len(ring') = Len(r) - n
    BY <1>2, <1>3, Rest
  <1>5. wake' \in BOOLEAN /\ shorts' \in Nat /\ shorts <= shorts'
    BY <1>2 DEF UringTypes
  <1>6. /\ inflight' \in SUBSET Ops /\ cqes' \in SUBSET (Ops \X Words)
        /\ Placed(ring', inflight', cqes', at)
        /\ Justified(ring', inflight', asked)
        /\ Truthful(ring', inflight', cqes', asked)
    <2> DEFINE canceled == Uring!CanceledBy(r, n)
               flying == (inflight \cup {o \in Ops : \E i \in 1..n : r[i] = <<"io", o>>}) \ canceled
               answers == cqes \cup (canceled \X {"canceled"})
               rest == SubSeq(r, n + 1, Len(r))
    <2>1. inflight' = flying /\ cqes' = answers /\ ring' = rest
      BY <1>2
    <2>2. /\ flying \in SUBSET Ops /\ answers \in SUBSET (Ops \X Words)
          /\ Placed(rest, flying, answers, at)
          /\ Justified(rest, flying, asked)
          /\ Truthful(rest, flying, answers, asked)
      BY <1>3, KernelTakes
    <2> HIDE DEF flying, answers, rest
    <2>3. QED BY <2>1, <2>2
  <1>7. high = Len(r) /\ ring' # <<>> => shorts' > 0
    <2>1. ring' # <<>> => Len(ring') > 0
      BY <1>4, EmptySeq, LenProperties
    <2>2. QED BY <1>1, <1>2, <1>4, <2>1 DEF UringTypes
  <1>8. QED BY <1>4, <1>5, <1>6, <1>7

\* What Prepare does, whether the ring has room or is submitted first.
LEMMA Prepared ==
    ASSUME UringTypes, RingInv, Uring!UringAssumption, NEW e \in RingEntries, NEW at, NEW asked,
           Asked \subseteq asked,
           \A o \in Ops : at[o] = "armed" <=> pc[o] = "armed" \/ e = <<"io", o>>,
           \A o \in Ops : e = <<"io", o>> => pc[o] # "armed" /\ ~moved[o],
           \A o \in Ops : e \in {<<"cancel", address[o]>>, <<"cancel_fd">>} /\ pc[o] = "armed"
                              => o \in asked,
           NEW now \in BOOLEAN, Uring!Prepare(e, now)
    PROVE  /\ ring' \in Seq(RingEntries) /\ wake' \in BOOLEAN /\ shorts' \in Nat
           /\ inflight' \in SUBSET Ops /\ cqes' \in SUBSET (Ops \X Words)
           /\ Placed(ring', inflight', cqes', at)
           /\ Justified(ring', inflight', asked)
           /\ Truthful(ring', inflight', cqes', asked)
           /\ now /\ ring' # <<>> => shorts' > 0
  <1> DEFINE r == Append(ring, e)
  <1>1. /\ r \in Seq(RingEntries) /\ Len(r) = Len(ring) + 1 /\ Len(ring) \in Nat
        /\ Placed(r, inflight, cqes, at)
        /\ Justified(r, inflight, asked)
        /\ Truthful(r, inflight, cqes, asked)
    BY EntryAdded
  <1>2. \E low \in Nat, high \in 0..Len(r) :
            Uring!SubmitFrom(r, low, high) /\ (now => high = Len(r))
    <2> HIDE DEF r
    <2>1. CASE Len(ring) < Entries
      <3>1. Uring!SubmitFrom(r, 0, IF now THEN Len(r) ELSE 0)
        BY <2>1 DEF Uring!Prepare, r
      <3>2. (IF now THEN Len(r) ELSE 0) \in 0..Len(r) /\ 0 \in Nat
        BY <1>1
      <3>3. QED BY <3>1, <3>2
    <2>2. CASE ~(Len(ring) < Entries)
      <3>1. Uring!SubmitFrom(r, 1, IF now THEN Len(r) ELSE Len(ring))
        BY <2>2 DEF Uring!Prepare, r
      <3>2. (IF now THEN Len(r) ELSE Len(ring)) \in 0..Len(r) /\ 1 \in Nat
        BY <1>1
      <3>3. QED BY <3>1, <3>2
    <2>3. QED BY <2>1, <2>2
  <1> HIDE DEF r
  <1>3. PICK low \in Nat, high \in 0..Len(r) :
            Uring!SubmitFrom(r, low, high) /\ (now => high = Len(r))
    BY <1>2
  <1>4. QED BY <1>1, <1>3, Submitted

\* The answers of the system to an operation that was prepared.
LEMMA UringAnswers ==
    ASSUME Uring!UringAssumption, NEW q \in UringRequests
    PROVE  /\ Uring!UringAnswer(q, "none") \in {"pending", "error", "none moved"}
           /\ Uring!UringAnswer(q, "none") = "pending" =>
                 /\ Uring!UringAnswer(q, "moved") = "value"
                 /\ Uring!UringAnswer(q, "failed") = "error"
                 /\ Uring!UringAnswer(q, "canceled") = "stopped"
  <1>1. /\ q.kind \in Uring!UringCalls
        /\ q.open \in BOOLEAN /\ q.stream \in BOOLEAN /\ q.empty \in BOOLEAN
    BY DEF Uring!UringAssumption
  <1> USE <1>1 DEF Uring!UringAnswer, Uring!UringStarts, Uring!WithHandle, Uring!Unless,
                   Uring!Reported
  <1>2. CASE q.kind = "read_some"
    BY <1>2 DEF Uring!UringReadSome
  <1>3. CASE q.kind = "read_some_at"
    BY <1>3 DEF Uring!UringReadSomeAt
  <1>4. CASE q.kind = "receive"
    BY <1>4 DEF Uring!UringReceive
  <1>5. CASE q.kind = "receive_from"
    BY <1>5 DEF Uring!UringReceiveFrom
  <1>6. CASE q.kind \notin {"read_some", "read_some_at", "receive", "receive_from"}
    BY <1>6 DEF Uring!UringCompletes
  <1>7. QED BY <1>2, <1>3, <1>4, <1>5, <1>6

-----------------------------------------------------------------------------
(***************************************************************************)
(* The steps of uring_context                                              *)
(***************************************************************************)

\* The ring and the kernel, and the operations they have, are left alone.
LEMMA RingKept ==
    ASSUME UringTypes, RingInv, UNCHANGED <<ring, inflight, cqes>>,
           \A o \in Ops : pc'[o] = "armed" <=> pc[o] = "armed",
           \A o \in Ops : pc[o] = "armed" => address'[o] = address[o] /\ moved'[o] = moved[o],
           Asked \subseteq Asked'
    PROVE  RingInv'
  <1>1. Len(ring) \in Nat
    BY LenProperties DEF UringTypes
  <1>2. Placed(ring, inflight, cqes, pc)'
    BY DEF RingInv, Placed, Entered
  <1>3. Justified(ring, inflight, Asked)'
    <2> SUFFICES ASSUME NEW o \in Ops, NEW j \in 1..Len(ring),
                        ring[j] \in {<<"cancel", address'[o]>>, <<"cancel_fd">>},
                        o \in inflight \/ \E i \in 1..(j - 1) : ring[i] = <<"io", o>>
                 PROVE  o \in Asked'
      BY DEF Justified
    <2>1. \A i \in 1..(j - 1) : i \in 1..Len(ring)
      BY <1>1
    <2>2. pc[o] = "armed"
      BY <2>1 DEF RingInv, Placed, Entered
    <2>3. QED BY <2>2 DEF RingInv, Justified
  <1>4. Truthful(ring, inflight, cqes, Asked)'
    <2>1. \A o \in Ops : Entered(o, ring) \/ o \in inflight \/ (\E x \in Words : <<o, x>> \in cqes)
                           => pc[o] = "armed"
      BY DEF RingInv, Placed
    <2>2. QED BY <2>1 DEF RingInv, Truthful, Entered
  <1>5. QED BY <1>2, <1>3, <1>4 DEF RingInv

\* An entry is prepared by a step that leaves the transfers and places alone.
LEMMA RingGrows ==
    ASSUME UringTypes, RingInv, Uring!UringAssumption, NEW e \in RingEntries,
           NEW now \in BOOLEAN, Uring!Prepare(e, now),
           UNCHANGED <<address, moved>>, Asked \subseteq Asked',
           \A o \in Ops : pc'[o] = "armed" <=> pc[o] = "armed" \/ e = <<"io", o>>,
           \A o \in Ops : e = <<"io", o>> => pc[o] # "armed" /\ ~moved[o],
           \A o \in Ops : e \in {<<"cancel", address[o]>>, <<"cancel_fd">>} /\ pc[o] = "armed"
                              => o \in Asked'
    PROVE  /\ ring' \in Seq(RingEntries) /\ wake' \in BOOLEAN /\ shorts' \in Nat
           /\ inflight' \in SUBSET Ops /\ cqes' \in SUBSET (Ops \X Words)
           /\ RingInv'
           /\ now /\ ring' # <<>> => shorts' > 0
  <1>1. /\ ring' \in Seq(RingEntries) /\ wake' \in BOOLEAN /\ shorts' \in Nat
        /\ inflight' \in SUBSET Ops /\ cqes' \in SUBSET (Ops \X Words)
        /\ Placed(ring', inflight', cqes', pc')
        /\ Justified(ring', inflight', Asked')
        /\ Truthful(ring', inflight', cqes', Asked')
        /\ now /\ ring' # <<>> => shorts' > 0
    BY Prepared
  <1>2. Placed(ring, inflight, cqes, pc)'
    BY <1>1 DEF Placed, Entered
  <1>3. Justified(ring, inflight, Asked)'
    BY <1>1 DEF Justified
  <1>4. Truthful(ring, inflight, cqes, Asked)'
    BY <1>1 DEF Truthful, Entered
  <1>5. QED BY <1>1, <1>2, <1>3, <1>4 DEF RingInv

\* A fresh context has nothing anywhere.
LEMMA UringInitInv == Uring!Init => UringInv
  <1> SUFFICES ASSUME Uring!Init PROVE UringInv
    OBVIOUS
  <1>1. ring = <<>> /\ Len(ring) = 0 /\ ring \in Seq(RingEntries)
    BY EmptySeq DEF Uring!Init
  <1>2. \A o \in Ops : ~Entered(o, ring)
    BY <1>1 DEF Entered
  <1>3. RingInv
    BY <1>1, <1>2 DEF RingInv, Placed, Justified, Truthful, Uring!Init
  <1>4. UringTypes
    BY <1>1 DEF UringTypes, Uring!Init, Uring!Labels
  <1>5. ResultInv /\ AddressInv /\ PullInv
    BY DEF ResultInv, AddressInv, PullInv, Outstanding, Uring!Init
  <1>6. QED BY <1>3, <1>4, <1>5 DEF UringInv

\* start() before the system is asked, and what it does with a result it has.
LEMMA UringOwnStep ==
    ASSUME Uring!UringAssumption, UringInv, NEW o \in Ops,
           Uring!Start(o) \/ Uring!CompletesAtOnce(o) \/ Uring!Post(o)
    PROVE  UringInv'
  <1> USE DEF Uring!ringVars, Uring!Labels
  <1>0. UringTypes /\ RingInv /\ ResultInv /\ AddressInv /\ PullInv
    BY DEF UringInv
  <1>1. CASE Uring!Start(o)
    <2>1. PICK q \in UringRequests, a \in Addresses :
              /\ \A p \in Ops : address[p] # a
              /\ request' = [request EXCEPT ![o] = q] /\ address' = [address EXCEPT ![o] = a]
      BY <1>1 DEF Uring!Start
    <2>2. /\ pc[o] = "idle" /\ pc' = [pc EXCEPT ![o] = "starting"]
          /\ UNCHANGED <<ring, inflight, cqes, wake, shorts, pulling, result, moved, stop, called,
                         calling, aborted, wakers, loop>>
      BY <1>1 DEF Uring!Start
    <2>3. /\ \A p \in Ops : pc'[p] = IF p = o THEN "starting" ELSE pc[p]
          /\ \A p \in Ops : request'[p] = IF p = o THEN q ELSE request[p]
          /\ \A p \in Ops : address'[p] = IF p = o THEN a ELSE address[p]
      BY <1>0, <2>1, <2>2 DEF UringTypes
    <2>4. UringTypes'
      BY <1>0, <2>1, <2>2 DEF UringTypes
    <2>5. RingInv'
      BY <1>0, <2>2, <2>3, RingKept DEF Asked
    <2>6. ResultInv'
      BY <1>0, <2>2, <2>3 DEF ResultInv, Asked
    <2>7. AddressInv'
      BY <1>0, <2>1, <2>2, <2>3 DEF AddressInv, Outstanding
    <2>8. PullInv'
      BY <1>0, <2>2 DEF PullInv
    <2>9. QED BY <2>4, <2>5, <2>6, <2>7, <2>8 DEF UringInv
  <1>2. CASE Uring!CompletesAtOnce(o)
    <2>1. /\ pc[o] = "starting" /\ pc' = [pc EXCEPT ![o] = "complete"]
          /\ UNCHANGED <<ring, inflight, cqes, wake, pulling, request, address, stop, called,
                         calling, aborted, wakers, loop>>
          /\ shorts' \in {shorts, shorts + 1}
      BY <1>2 DEF Uring!CompletesAtOnce, Uring!stateVars
    <2>11. shorts' \in Nat /\ (shorts > 0 => shorts' > 0)
      BY <1>0, <2>1 DEF UringTypes
    <2>2. \/ /\ result' = [result EXCEPT ![o] = "value"] /\ moved' = [moved EXCEPT ![o] = TRUE]
          \/ result' = [result EXCEPT ![o] = "error"] /\ moved' = moved
      BY <1>2 DEF Uring!CompletesAtOnce
    <2>3. ~moved[o]
      BY <1>0, <2>1 DEF ResultInv
    <2>4. /\ \A p \in Ops : pc'[p] = IF p = o THEN "complete" ELSE pc[p]
          /\ \A p \in Ops \ {o} : result'[p] = result[p] /\ moved'[p] = moved[p]
          /\ result'[o] \in {"value", "error"} /\ (result'[o] = "value" <=> moved'[o])
      BY <1>0, <2>1, <2>2, <2>3 DEF UringTypes
    <2>5. UringTypes'
      BY <1>0, <2>1, <2>11, <2>2 DEF UringTypes, Outcomes
    <2>6. RingInv'
      BY <1>0, <2>1, <2>4, RingKept DEF Asked
    <2>7. ResultInv'
      BY <1>0, <2>1, <2>4 DEF ResultInv, Asked, Outcomes
    <2>8. AddressInv'
      BY <1>0, <2>1, <2>4 DEF AddressInv, Outstanding
    <2>9. PullInv'
      BY <1>0, <2>1, <2>11 DEF PullInv
    <2>10. QED BY <2>5, <2>6, <2>7, <2>8, <2>9 DEF UringInv
  <1>3. CASE Uring!Post(o)
    <2>1. /\ pc[o] = "complete" /\ pc' = [pc EXCEPT ![o] = "posted"]
          /\ wakers' = wakers \cup {o}
          /\ UNCHANGED <<ring, inflight, cqes, wake, shorts, pulling, result, request, address, moved,
                         stop, called, calling, aborted, loop>>
      BY <1>3 DEF Uring!Post, Uring!stateVars
    <2>2. \A p \in Ops : pc'[p] = IF p = o THEN "posted" ELSE pc[p]
      BY <1>0, <2>1 DEF UringTypes
    <2>3. UringTypes'
      BY <1>0, <2>1 DEF UringTypes
    <2>4. RingInv'
      BY <1>0, <2>1, <2>2, RingKept DEF Asked
    <2>5. ResultInv'
      BY <1>0, <2>1, <2>2 DEF ResultInv, Asked
    <2>6. AddressInv'
      BY <1>0, <2>1, <2>2 DEF AddressInv, Outstanding
    <2>7. PullInv'
      BY <1>0, <2>1 DEF PullInv
    <2>8. QED BY <2>3, <2>4, <2>5, <2>6, <2>7 DEF UringInv
  <1>4. QED BY <1>1, <1>2, <1>3

\* An operation is prepared.
LEMMA UringSubmitStep ==
    ASSUME Uring!UringAssumption, UringInv, NEW o \in Ops, Uring!Submit(o)
    PROVE  UringInv'
  <1> USE DEF Uring!Labels
  <1>0. UringTypes /\ RingInv /\ ResultInv /\ AddressInv /\ PullInv
    BY DEF UringInv
  <1> DEFINE now == pulling \/ (Len(ring) < Entries /\ Len(ring) + 1 >= Batch)
  <1>1. /\ pc[o] = "starting" /\ Uring!UringAnswer(request[o], "none") = "pending"
        /\ Uring!Prepare(<<"io", o>>, now)
        /\ pc' = [pc EXCEPT ![o] = "armed"]
        /\ UNCHANGED <<request, address, pulling, result, moved, stop, called, calling, aborted,
                       wakers, loop>>
    BY DEF Uring!Submit, Uring!stateVars
  <1>2. now \in BOOLEAN /\ (pulling => now) /\ <<"io", o>> \in RingEntries
    BY <1>0 DEF UringTypes, RingEntries
  <1> HIDE DEF now
  <1>3. /\ \A p \in Ops : pc'[p] = IF p = o THEN "armed" ELSE pc[p]
        /\ ~moved[o] /\ request[o] \in UringRequests
    BY <1>0, <1>1 DEF UringTypes, ResultInv
  <1>4. \A p \in Ops : <<"io", o>> = <<"io", p>> <=> p = o
    OBVIOUS
  <1>5. \A p \in Ops : <<"io", o>> \notin {<<"cancel", address[p]>>, <<"cancel_fd">>}
    OBVIOUS
  <1>6. /\ ring' \in Seq(RingEntries) /\ wake' \in BOOLEAN /\ shorts' \in Nat
        /\ inflight' \in SUBSET Ops /\ cqes' \in SUBSET (Ops \X Words)
        /\ RingInv'
        /\ now /\ ring' # <<>> => shorts' > 0
    <2> DEFINE e == <<"io", o>>
    <2>1. Asked \subseteq Asked'
      BY <1>1 DEF Asked
    <2>2. \A p \in Ops : pc'[p] = "armed" <=> pc[p] = "armed" \/ e = <<"io", p>>
      BY <1>3, <1>4
    <2>3. \A p \in Ops : e = <<"io", p>> => pc[p] # "armed" /\ ~moved[p]
      BY <1>1, <1>3, <1>4
    <2>4. \A p \in Ops : e \in {<<"cancel", address[p]>>, <<"cancel_fd">>} /\ pc[p] = "armed"
                            => p \in Asked'
      BY <1>5
    <2>5. e \in RingEntries /\ Uring!Prepare(e, now)
      BY <1>1, <1>2
    <2> HIDE DEF e
    <2>6. QED BY <1>0, <1>1, <1>2, <2>1, <2>2, <2>3, <2>4, <2>5, RingGrows
  <1>7. UringTypes'
    BY <1>0, <1>1, <1>6 DEF UringTypes
  <1>8. ResultInv'
    BY <1>0, <1>1, <1>3 DEF ResultInv, Asked
  <1>9. AddressInv'
    BY <1>0, <1>1, <1>3 DEF AddressInv, Outstanding
  <1>10. PullInv'
    BY <1>0, <1>1, <1>2, <1>6 DEF PullInv
  <1>11. QED BY <1>6, <1>7, <1>8, <1>9, <1>10 DEF UringInv

\* A stop request before it meets the ring.
LEMMA UringAskStep ==
    ASSUME Uring!UringAssumption, UringInv, NEW o \in Ops,
           Uring!RequestStop(o) \/ Uring!BeginCancel(o)
    PROVE  UringInv'
  <1> USE DEF Uring!Labels
  <1>0. UringTypes /\ RingInv /\ ResultInv /\ AddressInv /\ PullInv
    BY DEF UringInv
  <1>1. /\ UNCHANGED <<ring, inflight, cqes, wake, shorts, pulling, pc, result, request, address,
                       moved, aborted, wakers, loop>>
        /\ stop \subseteq stop'
    BY DEF Uring!RequestStop, Uring!BeginCancel, Uring!stateVars, Uring!ringVars
  <1>2. stop' \subseteq Ops /\ called' \subseteq Ops /\ calling' \subseteq Ops \X Addresses
    <2>1. CASE Uring!RequestStop(o)
      BY <1>0, <2>1 DEF Uring!RequestStop, UringTypes
    <2>2. CASE Uring!BeginCancel(o)
      <3>1. pc[o] \in {"armed", "taken"}
        BY <2>2 DEF Uring!BeginCancel
      <3>2. address[o] \in Addresses
        BY <1>0, <3>1 DEF AddressInv, Outstanding
      <3>3. QED BY <1>0, <2>2, <3>2 DEF Uring!BeginCancel, UringTypes
    <2>3. QED BY <2>1, <2>2
  <1>3. \A p \in Ops, a \in Addresses : <<p, a>> \in calling' =>
            <<p, a>> \in calling \/ (p = o /\ a = address[o] /\ o \in stop' /\ Outstanding(o))
    BY DEF Uring!RequestStop, Uring!BeginCancel, Outstanding
  <1>4. UringTypes'
    BY <1>0, <1>1, <1>2 DEF UringTypes
  <1>5. RingInv'
    BY <1>0, <1>1, RingKept DEF Asked
  <1>6. ResultInv'
    BY <1>0, <1>1 DEF ResultInv, Asked
  <1>7. AddressInv'
    BY <1>0, <1>1, <1>3 DEF AddressInv, Outstanding
  <1>8. PullInv'
    BY <1>0, <1>1 DEF PullInv
  <1>9. QED BY <1>4, <1>5, <1>6, <1>7, <1>8 DEF UringInv

\* An entry that is submitted at once and is not an operation's.
LEMMA UringEntryStep ==
    ASSUME Uring!UringAssumption, UringInv,
           NEW e \in RingEntries, Uring!Prepare(e, TRUE),
           \A o \in Ops : e # <<"io", o>>,
           \A o \in Ops : e \in {<<"cancel", address[o]>>, <<"cancel_fd">>} /\ pc[o] = "armed"
                              => o \in Asked',
           UNCHANGED <<request, address, pulling, pc, result, moved, stop, called, loop>>,
           calling' \subseteq calling, aborted \subseteq aborted',
           aborted' \subseteq Ops, wakers' \subseteq Ops
    PROVE  UringInv'
  <1>0. UringTypes /\ RingInv /\ ResultInv /\ AddressInv /\ PullInv
    BY DEF UringInv
  <1>1. /\ ring' \in Seq(RingEntries) /\ wake' \in BOOLEAN /\ shorts' \in Nat
        /\ inflight' \in SUBSET Ops /\ cqes' \in SUBSET (Ops \X Words)
        /\ RingInv'
        /\ ring' # <<>> => shorts' > 0
    <2>1. Asked \subseteq Asked'
      BY DEF Asked
    <2>2. QED BY <1>0, <2>1, RingGrows
  <1>2. UringTypes'
    BY <1>0, <1>1 DEF UringTypes
  <1>3. ResultInv'
    BY <1>0 DEF ResultInv, Asked
  <1>4. AddressInv'
    BY <1>0 DEF AddressInv, Outstanding
  <1>5. PullInv'
    BY <1>0, <1>1 DEF PullInv
  <1>6. QED BY <1>1, <1>2, <1>3, <1>4, <1>5 DEF UringInv

\* A cancellation meets the operation that asked for it or nobody: its address is
\* not free before the call is over.
LEMMA UringCancelStep ==
    ASSUME Uring!UringAssumption, UringInv
    PROVE  /\ \A o \in Ops : Uring!DoCancel(o) => UringInv'
           /\ Uring!CancelObject => UringInv'
           /\ \A o \in Ops : Uring!Interrupt(o) => UringInv'
  <1>0. UringTypes /\ AddressInv
    BY DEF UringInv
  <1>1. ASSUME NEW o \in Ops, Uring!DoCancel(o) PROVE UringInv'
    <2>1. PICK a \in Addresses :
              /\ <<o, a>> \in calling /\ calling' = calling \ {<<o, a>>}
              /\ Uring!Prepare(<<"cancel", a>>, TRUE)
      BY <1>1 DEF Uring!DoCancel
    <2>2. UNCHANGED <<request, address, pulling, pc, result, moved, stop, called, aborted, wakers, loop>>
      BY <1>1 DEF Uring!DoCancel, Uring!stateVars
    <2>3. o \in stop /\ Outstanding(o) /\ address[o] = a
      BY <1>0, <2>1 DEF AddressInv
    <2> DEFINE e == <<"cancel", a>>
    <2>4. ASSUME NEW p \in Ops, e \in {<<"cancel", address[p]>>, <<"cancel_fd">>}, pc[p] = "armed"
          PROVE  p \in Asked'
      <3>1. address[p] = a
        BY <2>4
      <3>2. p = o
        BY <1>0, <2>3, <2>4, <3>1 DEF AddressInv, Outstanding
      <3>3. QED BY <2>2, <2>3, <3>2 DEF Asked
    <2>5. e \in RingEntries /\ Uring!Prepare(e, TRUE) /\ \A p \in Ops : e # <<"io", p>>
      BY <2>1 DEF RingEntries
    <2> HIDE DEF e
    <2>6. aborted' \subseteq Ops /\ wakers' \subseteq Ops
      BY <1>0, <2>2 DEF UringTypes
    <2>7. QED BY <2>1, <2>2, <2>4, <2>5, <2>6, UringEntryStep
  <1>2. ASSUME Uring!CancelObject PROVE UringInv'
    <2> DEFINE e == <<"cancel_fd">>
    <2>1. /\ aborted' = aborted \cup {o \in Ops : Uring!Outstanding(o)}
          /\ Uring!Prepare(e, TRUE)
          /\ UNCHANGED <<request, address, pulling, pc, result, moved, stop, called, calling, wakers, loop>>
      BY <1>2 DEF Uring!CancelObject, Uring!stateVars
    <2>2. \A p \in Ops : pc[p] = "armed" => p \in Asked'
      BY <2>1 DEF Asked, Uring!Outstanding
    <2>3. e \in RingEntries /\ \A p \in Ops : e # <<"io", p>>
      BY DEF RingEntries
    <2> HIDE DEF e
    <2>4. aborted' \subseteq Ops /\ wakers' \subseteq Ops
      BY <1>0, <2>1 DEF UringTypes
    <2>5. QED BY <2>1, <2>2, <2>3, <2>4, UringEntryStep
  <1>3. ASSUME NEW o \in Ops, Uring!Interrupt(o) PROVE UringInv'
    <2> DEFINE e == <<"nop">>
    <2>1. /\ wakers' = wakers \ {o} /\ Uring!Prepare(e, TRUE)
          /\ UNCHANGED <<request, address, pulling, pc, result, moved, stop, called, calling, aborted, loop>>
      BY <1>3 DEF Uring!Interrupt, Uring!stateVars
    <2>2. e \in RingEntries /\ \A p \in Ops : e # <<"io", p>>
      BY DEF RingEntries
    <2>3. \A p \in Ops : e \notin {<<"cancel", address[p]>>, <<"cancel_fd">>}
      OBVIOUS
    <2> HIDE DEF e
    <2>4. aborted' \subseteq Ops /\ wakers' \subseteq Ops
      BY <1>0, <2>1 DEF UringTypes
    <2>5. QED BY <2>1, <2>2, <2>3, <2>4, UringEntryStep
  <1>4. QED BY <1>1, <1>2, <1>3

\* The kernel completes an operation and tells what became of it.
LEMMA UringKernelStep ==
    ASSUME Uring!UringAssumption, UringInv, NEW o \in Ops, Uring!KernelCompletes(o)
    PROVE  UringInv'
  <1>0. UringTypes /\ RingInv /\ ResultInv /\ AddressInv /\ PullInv
    BY DEF UringInv
  <1>1. PICK outcome \in {"moved", "failed"} :
            /\ cqes' = cqes \cup {<<o, outcome>>}
            /\ moved' = [moved EXCEPT ![o] =
                  Uring!UringAnswer(request[o], outcome) \in {"value", "none moved"}]
    BY DEF Uring!KernelCompletes
  <1>2. /\ o \in inflight /\ inflight' = inflight \ {o}
        /\ UNCHANGED <<request, address, ring, pulling, wake, shorts, pc, result, stop, called, calling,
                       aborted, wakers, loop>>
    BY DEF Uring!KernelCompletes, Uring!stateVars
  <1>3. pc[o] = "armed" /\ ~Entered(o, ring) /\ \A x \in Words : <<o, x>> \notin cqes
    BY <1>0, <1>2 DEF RingInv, Placed
  <1>4. /\ \A p \in Ops \ {o} : moved'[p] = moved[p]
        /\ moved'[o] \in BOOLEAN /\ (moved'[o] <=> outcome = "moved")
        /\ moved' \in [Ops -> BOOLEAN]
    <2>1. request[o] \in UringRequests /\ Uring!UringAnswer(request[o], "none") = "pending"
      BY <1>0, <1>3 DEF ResultInv
    <2> DEFINE b == Uring!UringAnswer(request[o], outcome) \in {"value", "none moved"}
    <2>2. b <=> outcome = "moved"
      BY <2>1, UringAnswers
    <2>3. b \in BOOLEAN
      OBVIOUS
    <2>4. moved' = [moved EXCEPT ![o] = b]
      BY <1>1
    <2> HIDE DEF b
    <2>5. moved \in [Ops -> BOOLEAN]
      BY <1>0 DEF UringTypes
    <2>6. QED BY <2>2, <2>3, <2>4, <2>5
  <1>5. \A p \in Ops, x \in Words : <<p, x>> \in cqes' <=> <<p, x>> \in cqes \/ (p = o /\ x = outcome)
    BY <1>1
  <1>6. outcome \in Words /\ outcome # "canceled"
    BY DEF Words
  <1>7. UringTypes'
    <2>1. cqes' \in SUBSET (Ops \X Words) /\ inflight' \in SUBSET Ops
      <3>1. cqes \in SUBSET (Ops \X Words) /\ inflight \in SUBSET Ops
        BY <1>0 DEF UringTypes
      <3>2. cqes' = cqes \cup {<<o, outcome>>}
        BY <1>1
      <3>3. QED BY <1>2, <1>6, <3>1, <3>2
    <2>2. QED BY <1>0, <1>2, <1>4, <2>1 DEF UringTypes
  <1>8. Placed(ring, inflight, cqes, pc)'
    BY <1>0, <1>2, <1>3, <1>5, <1>6 DEF RingInv, Placed, Entered
  <1>9. Justified(ring, inflight, Asked)'
    BY <1>0, <1>2 DEF RingInv, Justified, Asked
  <1>10. Truthful(ring, inflight, cqes, Asked)'
    BY <1>0, <1>2, <1>3, <1>4, <1>5, <1>6 DEF RingInv, Truthful, Entered, Asked
  <1>11. ResultInv'
    BY <1>0, <1>2, <1>3, <1>4 DEF ResultInv, Asked
  <1>12. AddressInv' /\ PullInv'
    BY <1>0, <1>2 DEF AddressInv, PullInv, Outstanding
  <1>13. QED BY <1>7, <1>8, <1>9, <1>10, <1>11, <1>12 DEF UringInv, RingInv

\* The answers that are taken are true, and there is one for each operation.
LEMMA CompletionsTaken ==
    ASSUME Uring!UringAssumption, UringInv, NEW taken \in SUBSET cqes, Uring!CompleteAll(taken)
    PROVE  LET ops == {c[1] : c \in taken}
           IN  /\ cqes' = cqes \ taken
               /\ \A o \in Ops : o \in ops <=> \E x \in Words : <<o, x>> \in taken
               /\ \A o \in Ops : o \in ops => pc[o] = "armed"
               /\ pc' \in [Ops -> Uring!Labels] /\ result' \in [Ops -> Outcomes \cup {"none"}]
               /\ \A o \in Ops : pc'[o] = IF o \in ops THEN "taken" ELSE pc[o]
               /\ \A o \in Ops \ ops : result'[o] = result[o]
               /\ \A o \in ops : /\ result'[o] \in Outcomes
                                 /\ result'[o] = "value" <=> moved[o]
                                 /\ result'[o] = "stopped" => o \in Asked
  <1> DEFINE ops == {c[1] : c \in taken}
             Outcome(o) == (CHOOSE c \in taken : c[1] = o)[2]
  <1>0. UringTypes /\ RingInv /\ ResultInv
    BY DEF UringInv
  <1>1. /\ cqes' = cqes \ taken
        /\ pc' = [o \in Ops |-> IF o \in ops THEN "taken" ELSE pc[o]]
        /\ result' = [o \in Ops |->
              IF o \notin ops THEN result[o]
              ELSE Uring!Report(Uring!UringAnswer(request[o], Outcome(o)))]
    BY DEF Uring!CompleteAll
  <1>2. ASSUME NEW c \in taken PROVE c[1] \in Ops /\ c[2] \in Words /\ c = <<c[1], c[2]>>
    BY <1>0 DEF UringTypes
  <1>3. \A o \in Ops : o \in ops <=> \E x \in Words : <<o, x>> \in taken
    BY <1>2
  <1>4. \A o \in Ops : o \in ops => pc[o] = "armed"
    BY <1>0, <1>3 DEF RingInv, Placed
  <1>5. ASSUME NEW o \in ops
        PROVE  /\ Uring!Report(Uring!UringAnswer(request[o], Outcome(o))) \in Outcomes
               /\ Uring!Report(Uring!UringAnswer(request[o], Outcome(o))) = "value" <=> moved[o]
               /\ Uring!Report(Uring!UringAnswer(request[o], Outcome(o))) = "stopped" => o \in Asked
    <2>1. o \in Ops
      BY <1>2
    <2>2. PICK c \in taken : c[1] = o /\ Outcome(o) = c[2]
      OBVIOUS
    <2>3. <<o, c[2]>> \in cqes /\ c[2] \in Words
      BY <1>2, <2>2
    <2>4. (moved[o] <=> c[2] = "moved") /\ (c[2] = "canceled" => o \in Asked)
      BY <1>0, <2>1, <2>3 DEF RingInv, Truthful
    <2>5. request[o] \in UringRequests /\ Uring!UringAnswer(request[o], "none") = "pending"
      BY <1>0, <1>4, <2>1 DEF ResultInv
    <2> HIDE DEF ops, Outcome
    <2>6. CASE c[2] = "moved"
      <3>1. Uring!UringAnswer(request[o], Outcome(o)) = "value"
        BY <2>2, <2>5, <2>6, UringAnswers
      <3>2. QED BY <2>4, <2>6, <3>1 DEF Uring!Report, Outcomes
    <2>7. CASE c[2] = "failed"
      <3>1. Uring!UringAnswer(request[o], Outcome(o)) = "error"
        BY <2>2, <2>5, <2>7, UringAnswers
      <3>2. QED BY <2>4, <2>7, <3>1 DEF Uring!Report, Outcomes
    <2>8. CASE c[2] = "canceled"
      <3>1. Uring!UringAnswer(request[o], Outcome(o)) = "stopped"
        BY <2>2, <2>5, <2>8, UringAnswers
      <3>2. QED BY <2>4, <2>8, <3>1 DEF Uring!Report, Outcomes
    <2>9. QED BY <2>3, <2>6, <2>7, <2>8 DEF Words
  <1> HIDE DEF Outcome, ops
  <1>6. pc' \in [Ops -> Uring!Labels]
    BY <1>0, <1>1 DEF UringTypes, Uring!Labels
  <1>7. result' \in [Ops -> Outcomes \cup {"none"}]
    BY <1>0, <1>1, <1>5 DEF UringTypes
  <1>8. ops \subseteq Ops
    BY <1>2 DEF ops
  <1>9. \A o \in ops : result'[o] = Uring!Report(Uring!UringAnswer(request[o], Outcome(o)))
    BY <1>1, <1>8
  <1>10. QED BY <1>1, <1>3, <1>4, <1>5, <1>6, <1>7, <1>9 DEF ops

\* The consumer takes completions.
LEMMA UringTakeStep ==
    ASSUME Uring!UringAssumption, UringInv, Uring!WaitCqe \/ Uring!PeekAll
    PROVE  UringInv'
  <1>0. UringTypes /\ RingInv /\ ResultInv /\ AddressInv /\ PullInv
    BY DEF UringInv
  <1>1. PICK taken \in SUBSET cqes : Uring!CompleteAll(taken)
    BY DEF Uring!WaitCqe, Uring!PeekAll
  <1>2. /\ UNCHANGED <<ring, inflight, shorts, request, address, moved, stop, called, calling, aborted,
                       wakers>>
        /\ wake' \in {wake, FALSE}
        /\ \/ loop = "wait" /\ loop' = "peek" /\ pulling' = pulling
           \/ loop = "peek" /\ loop' = "publish" /\ pulling' = FALSE
    BY DEF Uring!WaitCqe, Uring!PeekAll, Uring!stateVars
  <1> DEFINE ops == {c[1] : c \in taken}
  <1>3. /\ cqes' = cqes \ taken
        /\ \A o \in Ops : o \in ops <=> \E x \in Words : <<o, x>> \in taken
        /\ \A o \in Ops : o \in ops => pc[o] = "armed"
        /\ pc' \in [Ops -> Uring!Labels] /\ result' \in [Ops -> Outcomes \cup {"none"}]
        /\ \A o \in Ops : pc'[o] = IF o \in ops THEN "taken" ELSE pc[o]
        /\ \A o \in Ops \ ops : result'[o] = result[o]
        /\ \A o \in ops : /\ result'[o] \in Outcomes
                          /\ result'[o] = "value" <=> moved[o]
                          /\ result'[o] = "stopped" => o \in Asked
    BY <1>1, CompletionsTaken
  <1> HIDE DEF ops
  <1>4. UringTypes'
    BY <1>0, <1>2, <1>3 DEF UringTypes
  <1>5. Placed(ring, inflight, cqes, pc)'
    <2> SUFFICES ASSUME NEW o \in Ops
                 PROVE  /\ \A i, j \in 1..Len(ring) : ring[i] = <<"io", o>> /\ ring[j] = <<"io", o>> => i = j
                        /\ Entered(o, ring) => o \notin inflight
                        /\ \A x \in Words : <<o, x>> \in cqes' =>
                              /\ o \notin inflight /\ ~Entered(o, ring)
                              /\ \A y \in Words : <<o, y>> \in cqes' => x = y
                        /\ pc'[o] = "armed" <=> Entered(o, ring) \/ o \in inflight
                                                  \/ \E x \in Words : <<o, x>> \in cqes'
      BY <1>2 DEF Placed, Entered
    <2>1. /\ \A i, j \in 1..Len(ring) : ring[i] = <<"io", o>> /\ ring[j] = <<"io", o>> => i = j
          /\ Entered(o, ring) => o \notin inflight
          /\ \A x \in Words : <<o, x>> \in cqes =>
                /\ o \notin inflight /\ ~Entered(o, ring)
                /\ \A y \in Words : <<o, y>> \in cqes => x = y
          /\ pc[o] = "armed" <=> Entered(o, ring) \/ o \in inflight
                                   \/ \E x \in Words : <<o, x>> \in cqes
      BY <1>0 DEF RingInv, Placed
    <2>2. \A x \in Words : <<o, x>> \in cqes' <=> <<o, x>> \in cqes /\ <<o, x>> \notin taken
      BY <1>3
    <2>3. CASE o \in ops
      <3>1. PICK x \in Words : <<o, x>> \in taken /\ <<o, x>> \in cqes
        BY <1>3, <2>3
      <3>2. \A y \in Words : <<o, y>> \notin cqes'
        BY <2>1, <2>2, <3>1
      <3>3. pc'[o] = "taken"
        BY <1>3, <2>3
      <3>4. QED BY <2>1, <3>1, <3>2, <3>3
    <2>4. CASE o \notin ops
      <3>1. \A x \in Words : <<o, x>> \in cqes' <=> <<o, x>> \in cqes
        BY <1>3, <2>2, <2>4
      <3>2. pc'[o] = pc[o]
        BY <1>3, <2>4
      <3>3. QED BY <2>1, <3>1, <3>2
    <2>5. QED BY <2>3, <2>4
  <1>6. Justified(ring, inflight, Asked)'
    BY <1>0, <1>2 DEF RingInv, Justified, Asked
  <1>7. Truthful(ring, inflight, cqes, Asked)'
    BY <1>0, <1>2, <1>3 DEF RingInv, Truthful, Entered, Asked
  <1>8. ResultInv'
    BY <1>0, <1>2, <1>3 DEF ResultInv, Asked
  <1>9. AddressInv'
    BY <1>0, <1>2, <1>3 DEF AddressInv, Outstanding
  <1>10. PullInv'
    BY <1>0, <1>2 DEF PullInv
  <1>11. QED BY <1>4, <1>5, <1>6, <1>7, <1>8, <1>9, <1>10 DEF UringInv, RingInv

\* The other steps of the consumer.
LEMMA UringConsumerStep ==
    ASSUME Uring!UringAssumption, UringInv,
           \/ \E o \in Ops : Uring!Finish(o) \/ Uring!PublishReady(o)
           \/ Uring!BeginPulling \/ Uring!SubmitPending \/ Uring!PublishedAll \/ Uring!WaitTimesOut
    PROVE  UringInv'
  <1>0. UringTypes /\ RingInv /\ ResultInv /\ AddressInv /\ PullInv
    BY DEF UringInv
  <1> USE DEF Uring!ringVars, Uring!stateVars, Uring!opVars, Uring!Labels
  <1>1. ASSUME NEW o \in Ops, Uring!Finish(o) PROVE UringInv'
    <2>1. /\ loop = "consume" /\ pc[o] = "posted" /\ \A call \in calling : call[1] # o
          /\ pc' = [pc EXCEPT ![o] = "done"]
          /\ request' = [request EXCEPT ![o] = "none"] /\ address' = [address EXCEPT ![o] = "none"]
          /\ UNCHANGED <<ring, inflight, cqes, wake, shorts, pulling, result, moved, stop, called,
                         calling, aborted, wakers, loop>>
      BY <1>1 DEF Uring!Finish
    <2>2. /\ \A p \in Ops : pc'[p] = IF p = o THEN "done" ELSE pc[p]
          /\ \A p \in Ops \ {o} : request'[p] = request[p] /\ address'[p] = address[p]
          /\ \A a \in Addresses : <<o, a>> \notin calling
      BY <1>0, <2>1 DEF UringTypes
    <2>3. UringTypes'
      BY <1>0, <2>1 DEF UringTypes
    <2>4. RingInv'
      BY <1>0, <2>1, <2>2, RingKept DEF Asked
    <2>5. ResultInv'
      BY <1>0, <2>1, <2>2 DEF ResultInv, Asked
    <2>6. AddressInv'
      BY <1>0, <2>1, <2>2 DEF AddressInv, Outstanding
    <2>7. PullInv'
      BY <1>0, <2>1 DEF PullInv
    <2>8. QED BY <2>3, <2>4, <2>5, <2>6, <2>7 DEF UringInv
  <1>2. ASSUME NEW o \in Ops, Uring!PublishReady(o) PROVE UringInv'
    <2>1. /\ loop = "publish" /\ pc[o] = "taken" /\ pc' = [pc EXCEPT ![o] = "posted"]
          /\ UNCHANGED <<ring, inflight, cqes, wake, shorts, pulling, result, request, address, moved,
                         stop, called, calling, aborted, wakers, loop>>
      BY <1>2 DEF Uring!PublishReady
    <2>2. \A p \in Ops : pc'[p] = IF p = o THEN "posted" ELSE pc[p]
      BY <1>0, <2>1 DEF UringTypes
    <2>3. UringTypes'
      BY <1>0, <2>1 DEF UringTypes
    <2>4. RingInv'
      BY <1>0, <2>1, <2>2, RingKept DEF Asked
    <2>5. ResultInv'
      BY <1>0, <2>1, <2>2 DEF ResultInv, Asked
    <2>6. AddressInv'
      BY <1>0, <2>1, <2>2 DEF AddressInv, Outstanding
    <2>7. PullInv'
      BY <1>0, <2>1 DEF PullInv
    <2>8. QED BY <2>3, <2>4, <2>5, <2>6, <2>7 DEF UringInv
  <1>3. CASE Uring!SubmitPending
    <2>1. /\ loop = "submit" /\ loop' = "wait" /\ Uring!SubmitFrom(ring, 0, Len(ring))
          /\ UNCHANGED <<pulling, pc, result, request, address, moved, stop, called, calling, aborted,
                         wakers>>
      BY <1>3 DEF Uring!SubmitPending
    <2>2. Len(ring) \in 0..Len(ring) /\ ring \in Seq(RingEntries) /\ 0 \in Nat
      BY <1>0, LenProperties DEF UringTypes
    <2>3. /\ ring' \in Seq(RingEntries) /\ wake' \in BOOLEAN /\ shorts' \in Nat
          /\ inflight' \in SUBSET Ops /\ cqes' \in SUBSET (Ops \X Words)
          /\ Placed(ring', inflight', cqes', pc)
          /\ Justified(ring', inflight', Asked)
          /\ Truthful(ring', inflight', cqes', Asked)
          /\ ring' # <<>> => shorts' > 0
      BY <1>0, <2>1, <2>2, Submitted DEF RingInv
    <2>4. UringTypes'
      BY <1>0, <2>1, <2>3 DEF UringTypes
    <2>5. Placed(ring, inflight, cqes, pc)'
      BY <2>1, <2>3 DEF Placed, Entered
    <2>6. Justified(ring, inflight, Asked)'
      BY <2>1, <2>3 DEF Justified, Asked
    <2>7. Truthful(ring, inflight, cqes, Asked)'
      BY <2>1, <2>3 DEF Truthful, Entered, Asked
    <2>8. ResultInv'
      BY <1>0, <2>1 DEF ResultInv, Asked
    <2>9. AddressInv' /\ PullInv'
      BY <1>0, <2>1, <2>3 DEF AddressInv, Outstanding, PullInv
    <2>10. QED BY <2>4, <2>5, <2>6, <2>7, <2>8, <2>9 DEF UringInv, RingInv
  <1>4. CASE Uring!BeginPulling \/ Uring!PublishedAll \/ Uring!WaitTimesOut
    <2>1. /\ UNCHANGED <<ring, inflight, cqes, wake, shorts, pc, result, request, address, moved, stop,
                         called, calling, aborted, wakers>>
          /\ \/ loop = "consume" /\ loop' = "submit" /\ pulling' = TRUE
             \/ loop = "publish" /\ loop' = "consume" /\ pulling' = pulling
             \/ loop = "wait" /\ loop' = "peek" /\ pulling' = pulling
      BY <1>4 DEF Uring!BeginPulling, Uring!PublishedAll, Uring!WaitTimesOut
    <2>2. UringTypes'
      BY <1>0, <2>1 DEF UringTypes
    <2>3. RingInv'
      BY <1>0, <2>1, RingKept DEF Asked
    <2>4. ResultInv'
      BY <1>0, <2>1 DEF ResultInv, Asked
    <2>5. AddressInv' /\ PullInv'
      BY <1>0, <2>1 DEF AddressInv, Outstanding, PullInv
    <2>6. QED BY <2>2, <2>3, <2>4, <2>5 DEF UringInv
  <1>5. QED BY <1>1, <1>2, <1>3, <1>4

\* All of its variables stay as they are.
LEMMA UringStutters == UringInv /\ UNCHANGED Uring!vars => UringInv'
  <1> SUFFICES ASSUME UringInv, UNCHANGED Uring!vars PROVE UringInv'
    OBVIOUS
  <1>1. UNCHANGED <<ring, inflight, cqes, wake, shorts, pulling, pc, result, request, address, moved,
                    stop, called, calling, aborted, wakers, loop>>
    BY DEF Uring!vars, Uring!ringVars, Uring!opVars, Uring!stateVars
  <1>2. UringTypes /\ RingInv /\ ResultInv /\ AddressInv /\ PullInv
    BY DEF UringInv
  <1>3. UringTypes'
    BY <1>1, <1>2 DEF UringTypes
  <1>4. RingInv'
    BY <1>1, <1>2, RingKept DEF Asked
  <1>5. ResultInv'
    BY <1>1, <1>2 DEF ResultInv, Asked
  <1>6. AddressInv' /\ PullInv'
    BY <1>1, <1>2 DEF AddressInv, Outstanding, PullInv
  <1>7. QED BY <1>3, <1>4, <1>5, <1>6 DEF UringInv

\* Every step keeps the invariant.
LEMMA UringNext ==
    ASSUME Uring!UringAssumption, UringInv, [Uring!Next]_(Uring!vars) PROVE UringInv'
  <1>1. CASE UNCHANGED Uring!vars
    BY <1>1, UringStutters
  <1>2. ASSUME NEW o \in Ops,
               \/ Uring!KernelCompletes(o) \/ Uring!Start(o) \/ Uring!Starting(o)
               \/ Uring!RequestStop(o) \/ Uring!Canceling(o) \/ Uring!Posting(o)
        PROVE  UringInv'
    BY <1>2, UringKernelStep, UringOwnStep, UringSubmitStep, UringAskStep, UringCancelStep
    DEF Uring!Starting, Uring!Canceling, Uring!Posting
  <1>3. CASE Uring!CancelObject
    BY <1>3, UringCancelStep
  <1>4. CASE Uring!DoOne \/ Uring!WaitTimesOut
    BY <1>4, UringTakeStep, UringConsumerStep DEF Uring!DoOne
  <1>5. QED BY <1>1, <1>2, <1>3, <1>4 DEF Uring!Next

\* The completions and the entries are exact, and none is left behind.
LEMMA UringExact == UringInv => Uring!NoEntryLeftBehind
  <1> SUFFICES ASSUME UringInv PROVE Uring!NoEntryLeftBehind
    OBVIOUS
  <1>1. UringTypes /\ RingInv /\ PullInv
    BY DEF UringInv
  <1>2. ASSUME NEW o \in Ops
        PROVE  pc[o] = "armed" <=> \/ \E i \in 1..Len(ring) : ring[i] = <<"io", o>>
                                   \/ o \in inflight
                                   \/ \E c \in cqes : c[1] = o
    <2>1. pc[o] = "armed" <=> Entered(o, ring) \/ o \in inflight
                                \/ \E x \in Words : <<o, x>> \in cqes
      BY <1>1 DEF RingInv, Placed
    <2>2. (\E x \in Words : <<o, x>> \in cqes) <=> \E c \in cqes : c[1] = o
      <3>1. \A c \in cqes : c \in Ops \X Words
        BY <1>1 DEF UringTypes
      <3>2. \A c \in cqes : c = <<c[1], c[2]>> /\ c[2] \in Words
        BY <3>1
      <3>3. QED BY <3>2
    <2>3. QED BY <2>1, <2>2 DEF Entered
  <1>3. QED BY <1>1, <1>2 DEF Uring!NoEntryLeftBehind, PullInv

-----------------------------------------------------------------------------
(***************************************************************************)
(* The contract                                                            *)
(***************************************************************************)

\* How far an operation has got, as the contract sees it in either context.
LEMMA SameContract ==
    /\ [Contract!IoNext]_(Contract!ioVars) <=> [Uring!Contract!IoNext]_(Uring!Contract!ioVars)
    /\ Contract!IoInit <=> Uring!Contract!IoInit
  BY DEF Contract!IoNext, Contract!ioVars, Contract!IoInit, Contract!StartIo, Contract!AskToStop,
         Contract!Transfer, Contract!Complete,
         Uring!Contract!IoNext, Uring!Contract!ioVars, Uring!Contract!IoInit,
         Uring!Contract!StartIo, Uring!Contract!AskToStop,
         Uring!Contract!Transfer, Uring!Contract!Complete, Status

\* One step per action.
LEMMA UringRefineNext ==
    ASSUME Uring!UringAssumption, UringInv, [Uring!Next]_(Uring!vars)
    PROVE  [Contract!IoNext]_(Contract!ioVars)
  <1> DEFINE Goal == [Contract!IoNext]_(Contract!ioVars)
  <1> USE DEF Uring!ringVars, Uring!stateVars, Uring!opVars
  <1>0. pc \in [Ops -> Uring!Labels] /\ moved \in [Ops -> BOOLEAN] /\ ResultInv
    BY DEF UringInv, UringTypes
  <1>1. CASE UNCHANGED Uring!vars
    BY <1>1, Unseen DEF Uring!vars, Status
  <1>2. ASSUME NEW o \in Ops, Uring!Start(o) PROVE Goal
    <2>1. /\ pc[o] = "idle" /\ pc' = [pc EXCEPT ![o] = "starting"]
          /\ UNCHANGED <<result, moved, stop, aborted>>
      BY <1>2 DEF Uring!Start
    <2>2. Status(o) = "idle" /\ \A p \in Ops : Status(p)' = IF p = o THEN "started" ELSE Status(p)
      BY <1>0, <2>1 DEF Status
    <2>3. Contract!StartIo(o)
      BY <2>1, <2>2 DEF Contract!StartIo
    <2>4. QED BY <2>3 DEF Contract!IoNext
  <1>3. ASSUME NEW o \in Ops, Uring!CompletesAtOnce(o) PROVE Goal
    <2>1. /\ pc[o] = "starting" /\ pc' = [pc EXCEPT ![o] = "complete"]
          /\ UNCHANGED <<stop, aborted>>
          /\ moved' \in {moved, [moved EXCEPT ![o] = TRUE]}
          /\ result' \in {[result EXCEPT ![o] = "value"], [result EXCEPT ![o] = "error"]}
      BY <1>3 DEF Uring!CompletesAtOnce
    <2>2. \A p \in Ops \ {o} : result'[p] = result[p]
      BY <2>1 DEF UringInv, UringTypes
    <2>3. Status(o) = "started" /\ \A p \in Ops : Status(p)' = Status(p)
      BY <1>0, <2>1, <2>2 DEF Status
    <2>4. ~moved[o]
      BY <1>0, <2>1 DEF ResultInv
    <2>5. CASE moved' = [moved EXCEPT ![o] = TRUE]
      BY <1>0, <2>1, <2>3, <2>4, <2>5, TransferMade
    <2>6. CASE moved' = moved
      BY <2>1, <2>3, <2>6, Unseen
    <2>7. QED BY <2>1, <2>5, <2>6
  <1>4. ASSUME NEW o \in Ops, Uring!Submit(o) PROVE Goal
    <2>1. /\ pc[o] = "starting" /\ pc' = [pc EXCEPT ![o] = "armed"]
          /\ UNCHANGED <<result, moved, stop, aborted>>
      BY <1>4 DEF Uring!Submit
    <2>2. \A p \in Ops : Status(p)' = Status(p)
      BY <1>0, <2>1 DEF Status
    <2>3. QED BY <2>1, <2>2, Unseen
  <1>5. ASSUME NEW o \in Ops, Uring!KernelCompletes(o) PROVE Goal
    <2>1. \E b \in BOOLEAN : moved' = [moved EXCEPT ![o] = b]
      <3>1. PICK outcome \in {"moved", "failed"} :
                moved' = [moved EXCEPT ![o] =
                             Uring!UringAnswer(request[o], outcome) \in {"value", "none moved"}]
        BY <1>5 DEF Uring!KernelCompletes
      <3> DEFINE b == Uring!UringAnswer(request[o], outcome) \in {"value", "none moved"}
      <3>2. b \in BOOLEAN
        OBVIOUS
      <3>3. moved' = [moved EXCEPT ![o] = b]
        BY <3>1
      <3> HIDE DEF b
      <3>4. QED BY <3>2, <3>3
    <2>2. o \in inflight /\ UNCHANGED <<pc, result, stop, aborted>>
      BY <1>5 DEF Uring!KernelCompletes
    <2>3. pc[o] = "armed" /\ ~moved[o]
      BY <2>2 DEF UringInv, RingInv, Placed, Truthful
    <2>4. Status(o) = "started" /\ \A p \in Ops : Status(p)' = Status(p)
      BY <2>2, <2>3 DEF Status
    <2>5. QED BY <1>0, <2>1, <2>2, <2>3, <2>4, TransferMade
  <1>6. ASSUME NEW S \in SUBSET Ops, stop' \cup aborted' = Asked \cup S,
               UNCHANGED <<pc, result, moved>>
        PROVE  Goal
    <2>1. \A p \in Ops : Status(p)' = Status(p)
      BY <1>6 DEF Status
    <2>2. Contract!AskToStop(S)
      BY <1>6, <2>1 DEF Contract!AskToStop, Asked
    <2>3. QED BY <2>2 DEF Contract!IoNext
  <1>7. ASSUME NEW o \in Ops, Uring!RequestStop(o) PROVE Goal
    <2>1. /\ stop' = stop \cup {o} /\ aborted' = aborted
          /\ UNCHANGED <<pc, result, moved>>
      BY <1>7 DEF Uring!RequestStop
    <2>2. stop' \cup aborted' = Asked \cup {o}
      BY <2>1 DEF Asked
    <2>3. QED BY <1>6, <2>1, <2>2
  <1>8. CASE Uring!CancelObject
    <2> DEFINE S == {o \in Ops : Uring!Outstanding(o)}
    <2>1. /\ aborted' = aborted \cup S /\ stop' = stop
          /\ UNCHANGED <<pc, result, moved>>
      BY <1>8 DEF Uring!CancelObject
    <2>2. stop' \cup aborted' = Asked \cup S /\ S \in SUBSET Ops
      BY <2>1 DEF Asked
    <2> HIDE DEF S
    <2>3. QED BY <1>6, <2>1, <2>2
  <1>9. ASSUME NEW o \in Ops,
               Uring!BeginCancel(o) \/ Uring!DoCancel(o) \/ Uring!Interrupt(o)
        PROVE  Goal
    <2>1. UNCHANGED <<pc, result, moved, stop, aborted>>
      BY <1>9 DEF Uring!BeginCancel, Uring!DoCancel, Uring!Interrupt
    <2>2. QED BY <2>1, Unseen DEF Status
  <1>10. ASSUME NEW o \in Ops, Uring!Post(o) \/ Uring!PublishReady(o) PROVE Goal
    <2>1. /\ pc[o] \in {"complete", "taken"} /\ pc' = [pc EXCEPT ![o] = "posted"]
          /\ UNCHANGED <<result, moved, stop, aborted>>
      BY <1>10 DEF Uring!Post, Uring!PublishReady
    <2>2. Answered(o)
      BY <1>0, <2>1 DEF ResultInv, Answered
    <2>3. QED BY <1>0, <2>1, <2>2, Completion
  <1>11. ASSUME NEW o \in Ops, Uring!Finish(o) PROVE Goal
    <2>1. /\ pc[o] = "posted" /\ pc' = [pc EXCEPT ![o] = "done"]
          /\ UNCHANGED <<result, moved, stop, aborted>>
      BY <1>11 DEF Uring!Finish
    <2>2. \A p \in Ops : Status(p)' = Status(p)
      BY <1>0, <2>1 DEF Status
    <2>3. QED BY <2>1, <2>2, Unseen
  <1>12. CASE Uring!BeginPulling \/ Uring!SubmitPending \/ Uring!PublishedAll \/ Uring!WaitTimesOut
    <2>1. UNCHANGED <<pc, result, moved, stop, aborted>>
      BY <1>12 DEF Uring!BeginPulling, Uring!SubmitPending, Uring!PublishedAll, Uring!WaitTimesOut
    <2>2. QED BY <2>1, Unseen DEF Status
  <1>13. CASE Uring!WaitCqe \/ Uring!PeekAll
    <2>1. PICK taken \in SUBSET cqes : Uring!CompleteAll(taken)
      BY <1>13 DEF Uring!WaitCqe, Uring!PeekAll
    <2>2. UNCHANGED <<moved, stop, aborted>>
      BY <1>13 DEF Uring!WaitCqe, Uring!PeekAll
    <2> DEFINE ops == {c[1] : c \in taken}
    <2>3. /\ \A o \in Ops : o \in ops => pc[o] = "armed"
          /\ \A o \in Ops : pc'[o] = IF o \in ops THEN "taken" ELSE pc[o]
          /\ \A o \in Ops \ ops : result'[o] = result[o]
      BY <2>1, CompletionsTaken
    <2> HIDE DEF ops
    <2>4. \A o \in Ops : Status(o)' = Status(o)
      BY <2>3 DEF Status
    <2>5. QED BY <2>2, <2>4, Unseen
  <1>14. QED
    BY <1>1, <1>2, <1>3, <1>4, <1>5, <1>7, <1>8, <1>9, <1>10, <1>11, <1>12, <1>13
    DEF Uring!Next, Uring!Starting, Uring!Canceling, Uring!Posting, Uring!DoOne

\* A fresh ring is a fresh contract.
LEMMA UringRefineInit == Uring!Init => Contract!IoInit
  BY DEF Uring!Init, Contract!IoInit, Status

-----------------------------------------------------------------------------
(***************************************************************************)
(* What the packets of iocp_context owe                                    *)
(***************************************************************************)

HasPacket(o) == \E i \in 1..Len(packets), w \in Words : packets[i] = <<o, w>>

\* No operation that is under way has slipped through, a consumer that waits
\* beside a posted operation is about to be woken, and it publishes all it took.
Owed ==
    /\ \A o \in Ops : UnderWay(o) => o \in inflight \/ o \in ready \/ HasPacket(o)
    /\ loop = "wait" => \A o \in Ops :
          pc[o] = "posted" => o \in wakers \/ \E i \in 1..Len(packets) : packets[i] = <<"wake">>
    /\ loop # "publish" => ready = {}

\* Packets are only added.
LEMMA OwedMore ==
    ASSUME TypeInv, Owed, NEW more \in Seq(Packets), packets' = packets \o more,
           \A o \in Ops : UnderWay(o)' => UnderWay(o),
           \A o \in inflight \ inflight' : \E w \in Words, i \in 1..Len(more) : more[i] = <<o, w>>,
           UNCHANGED <<loop, ready>>,
           loop = "wait" => \A o \in Ops : pc'[o] = "posted" =>
              \/ pc[o] = "posted" /\ (o \in wakers => o \in wakers')
              \/ \E i \in 1..Len(more) : more[i] = <<"wake">>
    PROVE  Owed'
  <1>1. /\ Len(packets') = Len(packets) + Len(more)
        /\ \A i \in 1..Len(packets') :
              packets'[i] = IF i <= Len(packets) THEN packets[i] ELSE more[i - Len(packets)]
    BY ConcatProperties DEF TypeInv
  <1>2. Len(packets) \in Nat /\ Len(more) \in Nat
    BY LenProperties DEF TypeInv
  <1>3. \A i \in 1..Len(packets) : i \in 1..Len(packets') /\ packets'[i] = packets[i]
    BY <1>1, <1>2
  <1>4. ASSUME NEW i \in 1..Len(more)
        PROVE  Len(packets) + i \in 1..Len(packets') /\ packets'[Len(packets) + i] = more[i]
    <2>1. Len(packets) + i \in 1..Len(packets') /\ ~(Len(packets) + i <= Len(packets))
      BY <1>1, <1>2
    <2>2. Len(packets) + i - Len(packets) = i
      BY <1>2
    <2>3. QED BY <1>1, <2>1, <2>2
  <1>5. ASSUME NEW o \in Ops, UnderWay(o)'
        PROVE  o \in inflight' \/ o \in ready' \/ HasPacket(o)'
    <2>1. HasPacket(o) => HasPacket(o)'
      BY <1>3 DEF HasPacket
    <2>2. (\E w \in Words, i \in 1..Len(more) : more[i] = <<o, w>>) => HasPacket(o)'
      BY <1>4 DEF HasPacket
    <2>3. QED BY <1>5, <2>1, <2>2 DEF Owed
  <1>6. ASSUME loop' = "wait", NEW o \in Ops, pc'[o] = "posted"
        PROVE  o \in wakers' \/ \E i \in 1..Len(packets') : packets'[i] = <<"wake">>
    BY <1>3, <1>4, <1>6 DEF Owed
  <1>7. QED BY <1>5, <1>6 DEF Owed

\* The packets stay as they are.
LEMMA OwedKept ==
    ASSUME Owed, packets' = packets,
           \A o \in Ops : UnderWay(o)' =>
              \/ o \in inflight'
              \/ /\ UnderWay(o)
                 /\ o \in inflight => o \in inflight'
                 /\ o \in ready => o \in ready',
           loop' = "wait" => \A o \in Ops : pc'[o] = "posted" =>
              o \in wakers' \/ (loop = "wait" /\ pc[o] = "posted" /\ o \notin wakers),
           loop' # "publish" => ready' = {}
    PROVE  Owed'
  BY DEF Owed, HasPacket

\* Every operation in hit gets its packet.
LEMMA AllAborted ==
    ASSUME NEW hit, IsFiniteSet(hit), NEW order \in SetToSeqs(hit)
    PROVE  /\ Cardinality(hit) \in Nat /\ order \in [1..Cardinality(hit) -> hit]
           /\ \A o \in hit : \E i \in 1..Cardinality(hit) : order[i] = o
  <1>1. Cardinality(hit) \in Nat
    BY FS_CardinalityType
  <1> DEFINE D == 1..Cardinality(hit)
  <1>2. /\ order \in [D -> hit]
        /\ \A i, j \in D : i # j => order[i] # order[j]
    BY DEF SetToSeqs
  <1>3. Cardinality(D) = Cardinality(hit)
    BY <1>1, FS_Interval
  <1> HIDE DEF D
  <1>4. order \in Injection(D, hit)
    BY <1>2 DEF Injection, IsInjective
  <1>5. order \in Surjection(D, hit)
    BY <1>3, <1>4, FS_Injection
  <1>6. \A o \in hit : \E i \in D : order[i] = o
    BY <1>5 DEF Surjection
  <1>7. QED BY <1>1, <1>2, <1>6 DEF D

\* One step per action.
LEMMA OwedNext ==
    ASSUME IocpAssumption, IocpInv, Owed, [Next]_vars PROVE Owed'
  <1> USE DEF systemVars, stopVars, opVars
  <1>0. TypeInv /\ PacketInv /\ OpInv
    BY DEF IocpInv
  <1>1. CASE UNCHANGED vars
    <2>1. UNCHANGED <<packets, pc, loop, wakers, ready, inflight>>
      BY <1>1 DEF vars
    <2>2. loop' # "publish" => ready' = {}
      BY <2>1 DEF Owed
    <2>3. QED BY <2>1, <2>2, OwedKept DEF UnderWay
  <1>2. ASSUME NEW o \in Ops, NEW place, pc' = [pc EXCEPT ![o] = place],
               UNCHANGED <<packets, loop>>, wakers \subseteq wakers',
               inflight \subseteq inflight', ready \subseteq ready' \cup {o},
               ready' \subseteq ready,
               o \in ready => place \notin {"issued", "armed"},
               place = "issued" => o \in inflight',
               place = "armed" => UnderWay(o) /\ o \notin ready,
               place = "posted" /\ loop = "wait" => o \in wakers'
        PROVE  Owed'
    <2>1. \A p \in Ops : pc'[p] = IF p = o THEN place ELSE pc[p]
      BY <1>0, <1>2 DEF TypeInv
    <2>2. \A p \in Ops : UnderWay(p)' =>
              \/ p \in inflight'
              \/ /\ UnderWay(p)
                 /\ p \in inflight => p \in inflight'
                 /\ p \in ready => p \in ready'
      BY <1>2, <2>1 DEF UnderWay
    <2>3. loop' = "wait" => \A p \in Ops : pc'[p] = "posted" =>
              p \in wakers' \/ (loop = "wait" /\ pc[p] = "posted" /\ p \notin wakers)
      BY <1>2, <2>1
    <2>4. loop' # "publish" => ready' = {}
      BY <1>2 DEF Owed
    <2>5. QED BY <1>2, <2>2, <2>3, <2>4, OwedKept
  <1>3. ASSUME NEW o \in Ops, Start(o) \/ CompletesAtOnce(o) \/ Issue(o) \/ Finish(o) PROVE Owed'
    <2>1. pc[o] \notin {"issued", "armed"}
      BY <1>3 DEF Start, CompletesAtOnce, Issue, Finish
    <2>2. o \notin ready
      BY <1>0, <2>1 DEF OpInv, UnderWay
    <2>3. PICK place \in {"starting", "complete", "issued", "done"} :
              /\ pc' = [pc EXCEPT ![o] = place] /\ UNCHANGED <<packets, loop, wakers, ready>>
              /\ inflight \subseteq inflight' /\ (place = "issued" => o \in inflight')
      BY <1>3 DEF Start, CompletesAtOnce, Issue, Finish
    <2>4. QED BY <1>2, <2>2, <2>3
  <1>4. ASSUME NEW o \in Ops, Return(o) PROVE Owed'
    <2>1. /\ pc[o] = "issued" /\ pc' = [pc EXCEPT ![o] = "armed"]
          /\ UNCHANGED <<packets, loop, wakers, ready, inflight>>
      BY <1>4 DEF Return
    <2>2. \A p \in Ops : pc'[p] = IF p = o THEN "armed" ELSE pc[p]
      BY <1>0, <2>1 DEF TypeInv
    <2>3. loop' # "publish" => ready' = {}
      BY <2>1 DEF Owed
    <2>4. QED BY <2>1, <2>2, <2>3, OwedKept DEF UnderWay
  <1>5. ASSUME NEW o \in Ops, RequestStop(o) \/ BeginCancel(o) PROVE Owed'
    <2>1. UNCHANGED <<packets, pc, loop, wakers, ready, inflight>>
      BY <1>5 DEF RequestStop, BeginCancel
    <2>2. loop' # "publish" => ready' = {}
      BY <2>1 DEF Owed
    <2>3. QED BY <2>1, <2>2, OwedKept DEF UnderWay
  <1>6. ASSUME NEW o \in Ops, Post(o) PROVE Owed'
    <2>1. /\ pc[o] = "complete" /\ pc' = [pc EXCEPT ![o] = "posted"] /\ wakers' = wakers \cup {o}
          /\ UNCHANGED <<packets, loop, ready, inflight>>
      BY <1>6 DEF Post
    <2>2. QED BY <1>2, <2>1
  <1>7. ASSUME NEW o \in Ops, PublishReady(o) PROVE Owed'
    <2>1. /\ loop = "publish" /\ ready' = ready \ {o}
          /\ pc' = [pc EXCEPT ![o] = IF pc[o] = "issued" THEN "complete" ELSE "posted"]
          /\ UNCHANGED <<packets, loop, wakers, inflight>>
      BY <1>7 DEF PublishReady
    <2>2. PICK place \in {"complete", "posted"} : pc' = [pc EXCEPT ![o] = place]
      BY <2>1
    <2>3. QED BY <1>2, <2>1, <2>2
  <1>8. CASE NothingPosted \/ WaitTimesOut \/ PublishedAll
    <2>1. /\ UNCHANGED <<packets, pc, wakers, ready, inflight>>
          /\ loop' = "wait" => \A o \in Ops : pc[o] # "posted"
          /\ loop' # "publish" => ready' = {}
      BY <1>8 DEF NothingPosted, WaitTimesOut, PublishedAll, Owed
    <2>2. QED BY <2>1, OwedKept DEF UnderWay
  <1>9. ASSUME NEW o \in Ops, SystemCompletes(o) PROVE Owed'
    <2>1. PICK outcome \in {"moved", "failed"} : packets' = Append(packets, <<o, outcome>>)
      BY <1>9 DEF SystemCompletes
    <2>2. inflight' = inflight \ {o} /\ UNCHANGED <<pc, loop, wakers, ready>>
      BY <1>9 DEF SystemCompletes
    <2> DEFINE more == <<<<o, outcome>>>>
    <2>3. <<o, outcome>> \in Packets /\ outcome \in Words
      BY DEF Packets, Words
    <2>4. more \in Seq(Packets) /\ Len(more) = 1 /\ more[1] = <<o, outcome>>
      BY <2>3
    <2>5. packets' = packets \o more
      BY <1>0, <2>1, <2>3, AppendIsConcat DEF TypeInv
    <2> HIDE DEF more
    <2>6. \E w \in Words, i \in 1..Len(more) : more[i] = <<o, w>>
      BY <2>3, <2>4
    <2>7. QED BY <1>0, <2>2, <2>4, <2>5, <2>6, OwedMore DEF UnderWay
  <1>10. ASSUME NEW o \in Ops, Interrupt(o) PROVE Owed'
    <2>1. /\ wakers' = wakers \ {o} /\ packets' = Append(packets, <<"wake">>)
          /\ UNCHANGED <<inflight, pc, loop, ready>>
      BY <1>10 DEF Interrupt
    <2> DEFINE more == <<<<"wake">>>>
    <2>2. <<"wake">> \in Packets
      BY DEF Packets
    <2>3. more \in Seq(Packets) /\ Len(more) = 1 /\ more[1] = <<"wake">>
      BY <2>2
    <2>4. packets' = packets \o more
      BY <1>0, <2>1, <2>2, AppendIsConcat DEF TypeInv
    <2> HIDE DEF more
    <2>5. \E i \in 1..Len(more) : more[i] = <<"wake">>
      BY <2>3
    <2>6. QED BY <1>0, <2>1, <2>3, <2>4, <2>5, OwedMore DEF UnderWay
  <1>11. ASSUME NEW hit \in SUBSET inflight, Abort(hit), UNCHANGED <<pc, loop, wakers, ready>>
         PROVE  Owed'
    <2>1. hit \subseteq Ops /\ IsFiniteSet(hit)
      BY <1>0, FS_Subset DEF TypeInv, IocpAssumption
    <2>2. PICK order \in SetToSeqs(hit) :
              packets' = packets \o [i \in DOMAIN order |-> <<order[i], "canceled">>]
      BY <1>11 DEF Abort
    <2>3. /\ Cardinality(hit) \in Nat /\ order \in [1..Cardinality(hit) -> hit]
          /\ \A o \in hit : \E i \in 1..Cardinality(hit) : order[i] = o
      BY <2>1, AllAborted
    <2> DEFINE more == [i \in 1..Cardinality(hit) |-> <<order[i], "canceled">>]
    <2>4. more \in [1..Cardinality(hit) -> Packets]
      BY <2>1, <2>3 DEF Packets, Words
    <2>5. more \in Seq(Packets) /\ Len(more) = Cardinality(hit)
      <3> HIDE DEF more
      <3>1. more \in Seq(Packets)
        BY <2>3, <2>4, IsASeq
      <3>2. QED BY <2>3, <2>4, <3>1, LenProperties
    <2>6. packets' = packets \o more
      BY <2>2, <2>3
    <2>7. \A i \in 1..Len(more) : more[i] = <<order[i], "canceled">>
      BY <2>5
    <2> HIDE DEF more
    <2>8. \A o \in hit : \E w \in Words, i \in 1..Len(more) : more[i] = <<o, w>>
      BY <2>3, <2>5, <2>7 DEF Words
    <2>9. inflight' = inflight \ hit
      BY <1>11 DEF Abort
    <2>10. QED BY <1>0, <1>11, <2>5, <2>6, <2>8, <2>9, OwedMore DEF UnderWay
  <1>12. ASSUME NEW o \in Ops, DoCancel(o) PROVE Owed'
    <2>1. PICK a \in Addresses : Abort({p \in inflight : address[p] = a})
      BY <1>12 DEF DoCancel
    <2>2. UNCHANGED <<pc, loop, wakers, ready>>
      BY <1>12 DEF DoCancel
    <2> DEFINE hit == {p \in inflight : address[p] = a}
    <2>3. hit \in SUBSET inflight /\ Abort(hit)
      BY <2>1
    <2> HIDE DEF hit
    <2>4. QED BY <1>11, <2>2, <2>3
  <1>13. CASE CancelObject
    BY <1>11, <1>13 DEF CancelObject
  <1>14. CASE Dequeue
    <2>1. loop' = "publish" /\ loop = "wait" /\ UNCHANGED <<pc, inflight>>
      BY <1>14 DEF Dequeue
    <2>2. ready = {}
      BY <2>1 DEF Owed
    <2>3. PICK n \in 0..Len(packets) :
              /\ packets' = SubSeq(packets, n + 1, Len(packets))
              /\ \A i \in 1..n : \A o \in Ops, w \in Words : packets[i] = <<o, w>> => o \in ready'
      BY <1>0, <1>14, DequeueTakes
    <2>4. Len(packets) \in Nat
      BY <1>0, LenProperties DEF TypeInv
    <2>5. ASSUME NEW i \in 1..Len(packets), i \notin 1..n
          PROVE  i - n \in 1..Len(packets') /\ packets'[i - n] = packets[i]
      <3>1. /\ Len(packets') = Len(packets) - n
            /\ \A k \in 1..(Len(packets) - n) : packets'[k] = packets[n + k]
        BY <1>0, <2>3, <2>4, SubSeqProperties DEF TypeInv
      <3>2. i - n \in 1..(Len(packets) - n) /\ n + (i - n) = i
        BY <2>4, <2>5
      <3>3. QED BY <3>1, <3>2
    <2>6. ASSUME NEW o \in Ops, UnderWay(o)' PROVE o \in inflight' \/ o \in ready' \/ HasPacket(o)'
      <3>1. CASE o \in inflight
        BY <2>1, <3>1
      <3>2. CASE HasPacket(o)
        <4>1. PICK i \in 1..Len(packets), w \in Words : packets[i] = <<o, w>>
          BY <3>2 DEF HasPacket
        <4>2. CASE i \in 1..n
          BY <2>3, <4>1, <4>2
        <4>3. CASE i \notin 1..n
          BY <2>5, <4>1, <4>3 DEF HasPacket
        <4>4. QED BY <4>2, <4>3
      <3>3. QED BY <2>1, <2>2, <2>6, <3>1, <3>2 DEF Owed, UnderWay
    <2>7. QED BY <2>1, <2>6 DEF Owed
  <1>15. QED
    BY <1>1, <1>3, <1>4, <1>5, <1>6, <1>7, <1>8, <1>9, <1>10, <1>12, <1>13, <1>14
    DEF Next, Starting, Canceling, Posting, DoOne

\* The owed packets are exact.
LEMMA IocpExact == ASSUME IocpAssumption, IocpInv, Owed PROVE PacketsAreExact
  <1>0. TypeInv /\ PacketInv /\ OpInv
    BY DEF IocpInv
  <1>1. DOMAIN packets = 1..Len(packets) /\ Len(packets) \in Nat
    BY <1>0, LenProperties DEF TypeInv
  <1>2. ASSUME NEW o \in Ops
        PROVE  LET owed == {i \in DOMAIN packets : packets[i][1] = o}
               IN  (IF o \in inflight THEN 1 ELSE 0) + Cardinality(owed)
                       + (IF o \in ready THEN 1 ELSE 0)
                     = IF pc[o] \in {"issued", "armed"} THEN 1 ELSE 0
    <2> DEFINE owed == {i \in DOMAIN packets : packets[i][1] = o}
    <2>1. \A i \in 1..Len(packets) : i \in owed <=> \E w \in Words : packets[i] = <<o, w>>
      <3> SUFFICES ASSUME NEW i \in 1..Len(packets)
                   PROVE  i \in owed <=> \E w \in Words : packets[i] = <<o, w>>
        OBVIOUS
      <3>1. packets[i] \in Packets
        BY <1>0, ElementOfSeq DEF TypeInv
      <3>2. CASE packets[i] = <<"wake">>
        <4>1. packets[i][1] # o
          BY <3>2 DEF IocpAssumption
        <4>2. QED BY <1>1, <3>2, <4>1, WakeIsNobodys
      <3>3. CASE packets[i] \in Ops \X Words
        <4>1. PICK p \in Ops, w \in Words : packets[i] = <<p, w>>
          BY <3>3
        <4>2. packets[i][1] = p
          BY <4>1
        <4>3. QED BY <1>1, <4>1, <4>2
      <3>4. QED BY <3>1, <3>2, <3>3 DEF Packets
    <2>2. HasPacket(o) <=> owed # {}
      BY <1>1, <2>1 DEF HasPacket
    <2>3. \A i, j \in owed : i = j
      BY <1>0, <1>1, <2>1 DEF PacketInv
    <2>4. HasPacket(o) => UnderWay(o) /\ o \notin inflight /\ o \notin ready
      BY <1>0 DEF HasPacket, PacketInv
    <2> HIDE DEF owed
    <2>5. Cardinality(owed) = IF HasPacket(o) THEN 1 ELSE 0
      <3>1. CASE owed = {}
        BY <2>2, <3>1, FS_EmptySet
      <3>2. CASE owed # {}
        <4>1. PICK i \in owed : owed = {i}
          BY <2>3, <3>2
        <4>2. QED BY <2>2, <3>2, <4>1, FS_Singleton
      <3>3. QED BY <3>1, <3>2
    <2>6. /\ o \in inflight => UnderWay(o) /\ o \notin ready
          /\ o \in ready => UnderWay(o)
          /\ UnderWay(o) => o \in inflight \/ o \in ready \/ HasPacket(o)
      BY <1>0 DEF OpInv, Owed
    <2>7. (IF o \in inflight THEN 1 ELSE 0) + Cardinality(owed) + (IF o \in ready THEN 1 ELSE 0)
            = IF pc[o] \in {"issued", "armed"} THEN 1 ELSE 0
      BY <2>4, <2>5, <2>6 DEF UnderWay
    <2>8. QED BY <2>7 DEF owed
  <1>3. loop = "wait" /\ packets = <<>> => \A o \in Ops : pc[o] = "posted" => o \in wakers
    BY DEF Owed
  <1>4. QED BY <1>2, <1>3 DEF PacketsAreExact

-----------------------------------------------------------------------------
(***************************************************************************)
(* Both contexts                                                           *)
(***************************************************************************)

ContextsInv ==
    /\ context \in {"uring", "iocp"}
    /\ context = "uring" => UringInv
    /\ context = "iocp" => IocpInv /\ Owed

LEMMA ContextsInitInv == ContextsInit => ContextsInv
  <1> SUFFICES ASSUME ContextsInit PROVE ContextsInv
    OBVIOUS
  <1>1. context \in {"uring", "iocp"} /\ UringInv /\ IocpInv
    BY UringInitInv, IocpInit DEF ContextsInit
  <1>2. Owed
    BY DEF ContextsInit, Init, Owed, UnderWay
  <1>3. QED BY <1>1, <1>2 DEF ContextsInv

\* A step of both is one of the context there is.
LEMMA OneContext ==
    ASSUME [ContextsNext]_contextsVars
    PROVE  /\ context' = context
           /\ context = "uring" => [Uring!Next]_(Uring!vars)
           /\ context # "uring" => [Next]_vars
  <1>1. CASE ContextsNext
    BY <1>1 DEF ContextsNext, InContext
  <1>2. CASE UNCHANGED contextsVars
    BY <1>2 DEF contextsVars, uringOnly, vars, systemVars, opVars, stopVars,
                Uring!vars, Uring!ringVars, Uring!opVars, Uring!stateVars
  <1>3. QED BY <1>1, <1>2

LEMMA ContextsNextInv == ContextsInv /\ [ContextsNext]_contextsVars => ContextsInv'
  <1> SUFFICES ASSUME ContextsInv, [ContextsNext]_contextsVars PROVE ContextsInv'
    OBVIOUS
  <1>1. context' = context /\ context \in {"uring", "iocp"}
    BY OneContext DEF ContextsInv
  <1>2. CASE context = "uring"
    <2>1. UringInv'
      BY <1>2, OneContext, ConstantsAreSound, UringNext DEF ContextsInv
    <2>2. QED BY <1>1, <1>2, <2>1 DEF ContextsInv
  <1>3. CASE context = "iocp"
    <2>1. IocpInv' /\ Owed'
      BY <1>3, OneContext, ConstantsAreSound, IocpNext, OwedNext DEF ContextsInv
    <2>2. QED BY <1>1, <1>3, <2>1 DEF ContextsInv
  <1>4. QED BY <1>1, <1>2, <1>3

\* In every reachable state of either context the operations, what the system
\* has of them, the entries or packets and the addresses agree.
THEOREM ContextsAgree == ContextsSpec => []ContextsInv
  BY ContextsInitInv, ContextsNextInv, PTL DEF ContextsSpec

\* No operation is lost between the program and the system: uring_context has
\* each armed operation in the ring, in the kernel or behind a completion and
\* waits with an empty ring unless the kernel refused entries; iocp_context is
\* owed one packet for each, and does not sleep beside a posted operation.
THEOREM NothingIsLeft == ContextsSpec => []NothingLeftBehind
  <1>1. ContextsInv => NothingLeftBehind
    BY UringExact, IocpExact, ConstantsAreSound DEF ContextsInv, NothingLeftBehind
  <1>2. QED BY <1>1, ContextsAgree, PTL

\* Either context keeps the contract of I/O operations: one completion, a value
\* exactly when the system made the transfer, and no stop for an operation that
\* nobody asked to stop, although do_cancel() names operations by their address.
THEOREM ContextsImplement == ContextsSpec => ImplementsIo /\ Uring!ImplementsIo
  <1>1. ContextsInv /\ [ContextsNext]_contextsVars => [Contract!IoNext]_(Contract!ioVars)
    BY OneContext, ConstantsAreSound, UringRefineNext, RefineNext DEF ContextsInv
  <1>2. ContextsInv /\ [ContextsNext]_contextsVars
            => [Uring!Contract!IoNext]_(Uring!Contract!ioVars)
    BY <1>1, SameContract
  <1>3. ContextsInit => Contract!IoInit /\ Uring!Contract!IoInit
    BY RefineInit, SameContract DEF ContextsInit
  <1>4. QED
    BY <1>1, <1>2, <1>3, ContextsAgree, PTL
    DEF ContextsSpec, ImplementsIo, Contract!IoSpec, Uring!ImplementsIo, Uring!Contract!IoSpec
=============================================================================
