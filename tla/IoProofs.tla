------------------------------ MODULE IoProofs ------------------------------
(***************************************************************************)
(* Proofs about input and output.  Waiting for the outside: the reactor of *)
(* epoll_context, for any number of reads and writes, and signal_wait, for *)
(* any number of waiters and signals and on both platforms.  The answers   *)
(* of the three contexts and of the files of the two platforms.  And what  *)
(* is above them: flat_buffer for any sizes, and the algorithms read,      *)
(* write and read_until for any data and any cut of it.                    *)
(***************************************************************************)
EXTENDS InputOutput, WellFoundedInduction, SequenceTheorems, TLAPS

(***************************************************************************)
(* EpollReactor                                                            *)
(*                                                                         *)
(* SlotInv: an operation is in its slot exactly while it is armed, at most *)
(* one operation per direction is under way, and none on a closed object.  *)
(* EdgeInv, for sockets: when an operation waits in a slot, or has found   *)
(* that it would block and is about to, under a mask that has its          *)
(* direction, then readiness is still on its way: on the kernel's list, in *)
(* the consumer's batch, or remembered for an operation not in the slot.   *)
(*                                                                         *)
(* ResultInv, for the refinement: the result an operation carries says     *)
(* whether its transfer was made and whether a stop was asked for.         *)
(***************************************************************************)

SlotInv ==
    /\ TypeOK
    /\ SlotsAgree
    /\ \A o, p \in Ops : Dir(o) = Dir(p) /\ Outstanding(o) /\ Outstanding(p) => o = p
    /\ object = "closed" => \A o \in Ops : ~Outstanding(o)
    /\ loop # "publish" => readyOps = {}

\* Who is on the way to wait for a direction that the mask has.
Waits(o) == pc[o] \in {"register", "armed"} /\ Dir(o) \in events

EdgeInv ==
    /\ loop \notin {"reset", "handle"} => batch = {}
    /\ \A o \in Ops : Waits(o) /\ Ready(Dir(o)) =>
          \/ queued
          \/ Dir(o) \in batch
          \/ pc[o] = "register" /\ Dir(o) \in remembered

LEMMA DirFacts ==
    /\ \A o \in Ops : Dir(o) \in Dirs /\ o \in OpsOf(Dir(o))
    /\ \A d \in Dirs : \A o \in OpsOf(d) : o \in Ops /\ Dir(o) = d
    /\ None \notin Ops
  BY ReactorAssumption DEF Dir, OpsOf, Dirs, Ops

LEMMA SlotInit == Init => SlotInv
  <1> SUFFICES ASSUME Init PROVE SlotInv
    OBVIOUS
  <1>1. TypeOK
    <2>1. opens \in 0..MaxOpens /\ events \subseteq Dirs /\ remembered \subseteq Flags
      BY ReactorAssumption DEF Init
    <2>2. moved \in [Ops -> BOOLEAN]
      BY DEF Init
    <2>3. /\ slot \in [Dirs -> Ops \cup {None}]
          /\ \A d \in Dirs : slot[d] \in OpsOf(d) \cup {None}
      BY DEF Init
    <2>4. QED BY <2>1, <2>2, <2>3 DEF Init, TypeOK, Labels
  <1>2. SlotsAgree
    BY DirFacts DEF Init, SlotsAgree
  <1>3. QED BY <1>1, <1>2 DEF Init, SlotInv, Outstanding

\* An operation that only moves on keeps the agreement when it neither enters
\* nor leaves its slot, the consumer's list, or the set of those under way.
LEMMA MovesOn ==
    ASSUME SlotInv, NEW o \in Ops, NEW label \in Labels,
           pc' = [pc EXCEPT ![o] = label],
           pc[o] \notin {"armed", "taken"}, label \notin {"armed", "taken"},
           Outstanding(o),
           TypeOK', UNCHANGED <<slot, events, object, readyOps, loop>>
    PROVE  SlotInv'
  <1>1. \A p \in Ops : pc'[p] = IF p = o THEN label ELSE pc[p]
    BY DEF SlotInv, TypeOK
  <1>2. SlotsAgree'
    BY <1>1, DirFacts DEF SlotInv, SlotsAgree
  <1>3. \A p \in Ops : Outstanding(p)' => Outstanding(p)
    BY <1>1 DEF Outstanding
  <1>4. object = "open"
    BY DEF SlotInv, TypeOK
  <1>5. QED BY <1>1, <1>2, <1>3, <1>4 DEF SlotInv

\* The system calls of some operations touch their results and the data only.
LEMMA DoIoTypes ==
    ASSUME TypeOK, NEW S \in SUBSET Ops, DoIo(S)
    PROVE  /\ avail' \subseteq avail
           /\ result' \in [Ops -> {"none", "value", "error"}]
           /\ moved' \in [Ops -> BOOLEAN]
  <1> DEFINE served == {o \in S : Dir(o) \in avail}
  <1>1. \E spent \in SUBSET {Dir(o) : o \in served} : avail' = avail \ spent
    BY DEF DoIo
  <1>2. avail' \subseteq avail
    BY <1>1
  <1>3. result' = [o \in Ops |-> IF o \in served THEN "value"
                                 ELSE IF o \in S THEN "error" ELSE result[o]]
    BY DEF DoIo
  <1>4. result' \in [Ops -> {"none", "value", "error"}]
    <2> HIDE DEF served
    <2> QED BY <1>3 DEF TypeOK
  <1>5. moved' = [o \in Ops |-> moved[o] \/ o \in served]
    BY DEF DoIo
  <1>6. moved' \in [Ops -> BOOLEAN]
    <2>1. \A o \in Ops : (moved[o] \/ o \in served) \in BOOLEAN
      OBVIOUS
    <2> HIDE DEF served
    <2> QED BY <1>5, <2>1
  <1>7. QED BY <1>2, <1>4, <1>6

\* One step per action.
LEMMA TypeNext == SlotInv /\ [Next]_vars => TypeOK'
  <1> SUFFICES ASSUME SlotInv, [Next]_vars PROVE TypeOK'
    OBVIOUS
  <1> USE DirFacts
  <1> USE DEF SlotInv, TypeOK, kernelVars, dataVars, opVars, loopVars
  <1>1. CASE UNCHANGED vars
    BY <1>1 DEF vars
  <1>2. ASSUME NEW d \in Dirs, Arrive(d) PROVE TypeOK'
    BY <1>2 DEF Arrive
  <1>3. CASE HangUp
    BY <1>3 DEF HangUp
  <1>4. CASE Open
    <2>1. opens' \in 0..MaxOpens
      BY <1>4, ReactorAssumption DEF Open
    <2>2. avail' \subseteq Dirs /\ events' \subseteq Dirs /\ remembered' \subseteq Flags
      BY <1>4 DEF Open
    <2>3. /\ slot' \in [Dirs -> Ops \cup {None}]
          /\ \A d \in Dirs : slot'[d] \in OpsOf(d) \cup {None}
      BY <1>4 DEF Open
    <2>4. QED BY <1>4, <2>1, <2>2, <2>3 DEF Open
  <1>5. CASE Close
    BY <1>5 DEF Close
  <1>6. CASE CancelObject
    BY <1>6 DEF CancelObject, Labels
  <1>7. ASSUME NEW o \in Ops, Start(o) PROVE TypeOK'
    BY <1>7 DEF Start, Labels
  <1>8. ASSUME NEW o \in Ops, TryIo(o) PROVE TypeOK'
    <2>1. CASE Ready(Dir(o))
      <3>1. DoIo({o}) /\ {o} \in SUBSET Ops
        BY <1>8, <2>1 DEF TryIo
      <3>2. /\ avail' \subseteq avail
            /\ result' \in [Ops -> {"none", "value", "error"}]
            /\ moved' \in [Ops -> BOOLEAN]
        BY <3>1, DoIoTypes
      <3>3. pc' \in [Ops -> Labels]
        BY <1>8, <2>1 DEF TryIo, Labels
      <3>4. QED BY <1>8, <3>2, <3>3 DEF TryIo
    <2>2. CASE ~Ready(Dir(o))
      BY <1>8, <2>2 DEF TryIo, Labels
    <2>3. QED BY <2>1, <2>2
  <1>9. ASSUME NEW o \in Ops, ConsumeRemembered(o) PROVE TypeOK'
    BY <1>9 DEF ConsumeRemembered, Labels
  <1>10. ASSUME NEW o \in Ops, Register(o) PROVE TypeOK'
    BY <1>10 DEF Register, Mask, Labels
  <1>11. ASSUME NEW o \in Ops, RegisterFails(o) PROVE TypeOK'
    BY <1>11 DEF RegisterFails, Labels
  <1>12. ASSUME NEW o \in Ops, RequestStop(o) PROVE TypeOK'
    BY <1>12 DEF RequestStop
  <1>13. ASSUME NEW o \in Ops, CancelOp(o) PROVE TypeOK'
    BY <1>13 DEF CancelOp, Labels
  <1>14. ASSUME NEW o \in Ops, Post(o) PROVE TypeOK'
    BY <1>14 DEF Post, Labels
  <1>15. ASSUME NEW o \in Ops, Interrupt(o) PROVE TypeOK'
    BY <1>15 DEF Interrupt
  <1>16. ASSUME NEW o \in Ops, Finish(o) PROVE TypeOK'
    BY <1>16 DEF Finish, Labels
  <1>17. CASE NothingPosted
    BY <1>17 DEF NothingPosted
  <1>18. CASE EpollWait
    BY <1>18 DEF EpollWait, Reported, Flags
  <1>19. CASE Reset
    BY <1>19 DEF Reset
  <1>20. CASE HandleEvents
    <2> DEFINE S == {slot[d] : d \in {e \in Dirs : Hit(e) /\ slot[e] # None /\ Ready(e)}}
    <2>1. S \in SUBSET Ops
      OBVIOUS
    <2>2. DoIo(S) /\ readyOps' = S
      BY <1>20 DEF HandleEvents
    <2>3. /\ avail' \subseteq avail
          /\ result' \in [Ops -> {"none", "value", "error"}]
          /\ moved' \in [Ops -> BOOLEAN]
      BY <2>1, <2>2, DoIoTypes
    <2>4. pc' \in [Ops -> Labels]
      BY <1>20 DEF HandleEvents, Labels
    <2>5. /\ slot' \in [Dirs -> Ops \cup {None}]
          /\ \A d \in Dirs : slot'[d] \in OpsOf(d) \cup {None}
      BY <1>20 DEF HandleEvents
    <2>6. remembered' \subseteq Flags /\ batch' \subseteq Flags
      BY <1>20 DEF HandleEvents
    <2>7. loop' = "publish"
      BY <1>20 DEF HandleEvents
    <2>8. QED BY <1>20, <2>1, <2>2, <2>3, <2>4, <2>5, <2>6, <2>7 DEF HandleEvents
  <1>21. ASSUME NEW o \in Ops, PublishReady(o) PROVE TypeOK'
    BY <1>21 DEF PublishReady, Labels
  <1>22. CASE PublishedAll
    BY <1>22 DEF PublishedAll
  <1>23. CASE WaitTimesOut
    BY <1>23 DEF WaitTimesOut
  <1>24. QED
    BY <1>1, <1>2, <1>3, <1>4, <1>5, <1>6, <1>7, <1>8, <1>9, <1>10, <1>11,
       <1>12, <1>13, <1>14, <1>15, <1>16, <1>17, <1>18, <1>19, <1>20, <1>21,
       <1>22, <1>23
    DEF Next, StartProgress, Posting, DoOne

LEMMA SlotNext == SlotInv /\ [Next]_vars => SlotInv'
  <1> SUFFICES ASSUME SlotInv, [Next]_vars PROVE SlotInv'
    OBVIOUS
  <1>0. TypeOK'
    BY TypeNext
  <1> USE DirFacts, <1>0
  <1> USE DEF kernelVars, dataVars, opVars, loopVars
  <1> DEFINE same == UNCHANGED <<events, slot, object, pc, readyOps>>
  <1>a. ASSUME same, loop' # "publish" => readyOps = {} PROVE SlotInv'
    BY <1>a DEF SlotInv, SlotsAgree, Outstanding
  <1>1. CASE UNCHANGED vars
    BY <1>1, <1>a DEF vars, SlotInv
  <1>2. ASSUME NEW d \in Dirs, Arrive(d) PROVE SlotInv'
    BY <1>2, <1>a DEF Arrive, SlotInv
  <1>3. CASE HangUp
    BY <1>3, <1>a DEF HangUp, SlotInv
  <1>4. CASE Open
    BY <1>4 DEF Open, SlotInv, TypeOK, SlotsAgree, Outstanding
  <1>5. CASE Close
    <2>1. \A d \in Dirs : slot[d] = None
      BY <1>5 DEF Close, SlotInv, TypeOK, SlotsAgree, Outstanding
    <2>2. QED BY <1>5, <2>1 DEF Close, SlotInv, SlotsAgree, Outstanding
  <1>6. CASE CancelObject
    <2> DEFINE ops == {slot[d] : d \in Dirs} \ {None}
    <2>1. /\ slot' = [d \in Dirs |-> None]
          /\ pc' = [o \in Ops |-> IF o \in ops THEN "canceled" ELSE pc[o]]
          /\ UNCHANGED <<events, object, readyOps, loop>>
      BY <1>6 DEF CancelObject
    <2>2. \A o \in Ops : o \in ops <=> pc[o] = "armed"
      BY DEF SlotInv, SlotsAgree, TypeOK
    <2> HIDE DEF ops
    <2>3. SlotsAgree'
      BY <2>1, <2>2 DEF SlotInv, SlotsAgree
    <2>4. \A o \in Ops : Outstanding(o)' => Outstanding(o)
      BY <2>1, <2>2 DEF Outstanding
    <2>5. QED BY <2>1, <2>3, <2>4 DEF SlotInv
  <1>7. ASSUME NEW o \in Ops, Start(o) PROVE SlotInv'
    <2>1. /\ \A p \in Ops : pc'[p] = IF p = o THEN "try" ELSE pc[p]
          /\ pc[o] = "idle" /\ object = "open"
          /\ \A p \in OpsOf(Dir(o)) : ~Outstanding(p)
          /\ UNCHANGED <<events, slot, object, readyOps, loop>>
      BY <1>7 DEF Start, SlotInv, TypeOK
    <2>2. SlotsAgree'
      BY <2>1 DEF SlotInv, SlotsAgree
    <2>3. \A p \in Ops : Dir(p) = Dir(o) => ~Outstanding(p)
      BY <2>1
    <2>4. \A p \in Ops : Outstanding(p)' => p = o \/ Outstanding(p)
      BY <2>1 DEF Outstanding
    <2>5. QED BY <2>1, <2>2, <2>3, <2>4 DEF SlotInv
  <1>8. ASSUME NEW o \in Ops, TryIo(o) PROVE SlotInv'
    <2>1. UNCHANGED <<slot, events, object, readyOps, loop>>
      BY <1>8 DEF TryIo
    <2>2. PICK label \in {"complete", "register"} : pc' = [pc EXCEPT ![o] = label]
      BY <1>8 DEF TryIo
    <2>3. QED BY <1>8, <2>1, <2>2, MovesOn DEF TryIo, Labels, Outstanding
  <1>9. ASSUME NEW o \in Ops, ConsumeRemembered(o) PROVE SlotInv'
    BY <1>9, MovesOn DEF ConsumeRemembered, Labels, Outstanding
  <1>10. ASSUME NEW o \in Ops, Register(o) PROVE SlotInv'
    <2>1. /\ \A p \in Ops : pc'[p] = IF p = o THEN "armed" ELSE pc[p]
          /\ \A d \in Dirs : slot'[d] = IF d = Dir(o) THEN o ELSE slot[d]
          /\ pc[o] = "register"
          /\ events' = {Dir(o)} \cup {d \in Dirs : slot[d] # None}
          /\ UNCHANGED <<object, readyOps, loop>>
      BY <1>10 DEF Register, Mask, SlotInv, TypeOK
    <2>2. \A p \in Ops : Outstanding(p)' <=> Outstanding(p)
      BY <2>1 DEF Outstanding
    <2>3. object = "open" /\ Outstanding(o)
      BY <2>1 DEF SlotInv, TypeOK, Outstanding
    <2>4. \A p \in Ops : Dir(p) = Dir(o) /\ p # o => pc[p] # "armed"
      BY <2>3 DEF SlotInv, Outstanding
    <2>5. SlotsAgree'
      BY <2>1, <2>3, <2>4 DEF SlotInv, SlotsAgree
    <2>6. QED BY <2>1, <2>2, <2>5 DEF SlotInv
  <1>11. ASSUME NEW o \in Ops, RegisterFails(o) PROVE SlotInv'
    BY <1>11, MovesOn DEF RegisterFails, Labels, Outstanding
  <1>12. ASSUME NEW o \in Ops, RequestStop(o) PROVE SlotInv'
    BY <1>12, <1>a DEF RequestStop, SlotInv
  <1>13. ASSUME NEW o \in Ops, CancelOp(o) PROVE SlotInv'
    <2>1. CASE slot[Dir(o)] = o
      <3>1. /\ \A p \in Ops : pc'[p] = IF p = o THEN "canceled" ELSE pc[p]
            /\ \A d \in Dirs : slot'[d] = IF d = Dir(o) THEN None ELSE slot[d]
            /\ pc[o] = "armed"
            /\ UNCHANGED <<events, object, readyOps, loop>>
        BY <1>13, <2>1 DEF CancelOp, SlotInv, SlotsAgree, TypeOK
      <3>2. \A p \in Ops : Outstanding(p)' <=> Outstanding(p)
        BY <3>1 DEF Outstanding
      <3>3. SlotsAgree'
        BY <2>1, <3>1 DEF SlotInv, SlotsAgree
      <3>4. QED BY <3>1, <3>2, <3>3 DEF SlotInv
    <2>2. CASE slot[Dir(o)] # o
      BY <1>13, <2>2, <1>a DEF CancelOp, SlotInv
    <2>3. QED BY <2>1, <2>2
  <1>14. ASSUME NEW o \in Ops, Post(o) PROVE SlotInv'
    BY <1>14, MovesOn DEF Post, Labels, Outstanding
  <1>15. ASSUME NEW o \in Ops, Interrupt(o) PROVE SlotInv'
    BY <1>15, <1>a DEF Interrupt, SlotInv
  <1>16. ASSUME NEW o \in Ops, Finish(o) PROVE SlotInv'
    BY <1>16, MovesOn DEF Finish, Labels, Outstanding
  <1>17. CASE NothingPosted
    BY <1>17, <1>a DEF NothingPosted, SlotInv
  <1>18. CASE EpollWait
    BY <1>18, <1>a DEF EpollWait, SlotInv
  <1>19. CASE Reset
    BY <1>19, <1>a DEF Reset, SlotInv
  <1>20. CASE HandleEvents
    <2> DEFINE served == {d \in Dirs : Hit(d) /\ slot[d] # None /\ Ready(d)}
    <2>1. /\ slot' = [d \in Dirs |-> IF d \in served THEN None ELSE slot[d]]
          /\ readyOps' = {slot[d] : d \in served}
          /\ pc' = [o \in Ops |-> IF o \in readyOps' THEN "taken" ELSE pc[o]]
          /\ UNCHANGED <<events, object>>
          /\ loop = "handle" /\ loop' = "publish"
      BY <1>20 DEF HandleEvents
    <2>2. served \subseteq Dirs /\ \A d \in served : slot[d] # None
      OBVIOUS
    <2> HIDE DEF served
    <2>3. \A o \in Ops : o \in readyOps' <=> slot[Dir(o)] = o /\ Dir(o) \in served
      BY <2>1, <2>2 DEF SlotInv, TypeOK
    <2>4. \A o \in Ops : o \in readyOps' => pc[o] = "armed"
      BY <2>3 DEF SlotInv, SlotsAgree
    <2>5. readyOps = {}
      BY <2>1 DEF SlotInv
    <2>6. \A o \in Ops : pc'[o] = IF o \in readyOps' THEN "taken" ELSE pc[o]
      BY <2>1
    <2>7. \A o \in Ops : pc[o] # "taken"
      BY <2>5 DEF SlotInv, SlotsAgree
    <2>8. SlotsAgree'
      <3>1. \A o \in Ops : pc'[o] = "armed" <=> slot'[Dir(o)] = o
        BY <2>1, <2>3, <2>6 DEF SlotInv, SlotsAgree
      <3>2. \A d \in Dirs : slot'[d] # None => d \in events' /\ object' = "open"
        BY <2>1 DEF SlotInv, SlotsAgree
      <3>3. readyOps' = {o \in Ops : pc'[o] = "taken"}
        BY <2>6, <2>7 DEF TypeOK
      <3>4. QED BY <3>1, <3>2, <3>3 DEF SlotsAgree
    <2>9. \A o \in Ops : Outstanding(o)' <=> Outstanding(o)
      BY <2>4, <2>6 DEF Outstanding
    <2>10. QED BY <2>1, <2>8, <2>9 DEF SlotInv
  <1>21. ASSUME NEW o \in Ops, PublishReady(o) PROVE SlotInv'
    <2>1. /\ \A p \in Ops : pc'[p] = IF p = o THEN "posted" ELSE pc[p]
          /\ pc[o] = "taken" /\ readyOps' = readyOps \ {o}
          /\ UNCHANGED <<events, slot, object, loop>> /\ loop = "publish"
      BY <1>21 DEF PublishReady, SlotInv, SlotsAgree, TypeOK
    <2>2. SlotsAgree'
      BY <2>1 DEF SlotInv, SlotsAgree
    <2>3. \A p \in Ops : Outstanding(p)' <=> Outstanding(p)
      BY <2>1 DEF Outstanding
    <2>4. QED BY <2>1, <2>2, <2>3 DEF SlotInv
  <1>22. CASE PublishedAll
    BY <1>22, <1>a DEF PublishedAll, SlotInv
  <1>23. CASE WaitTimesOut
    BY <1>23, <1>a DEF WaitTimesOut, SlotInv
  <1>24. QED
    BY <1>1, <1>2, <1>3, <1>4, <1>5, <1>6, <1>7, <1>8, <1>9, <1>10, <1>11,
       <1>12, <1>13, <1>14, <1>15, <1>16, <1>17, <1>18, <1>19, <1>20, <1>21,
       <1>22, <1>23
    DEF Next, StartProgress, Posting, DoOne

LEMMA SlotsInvariance == Spec => []SlotInv
  <1>1. SlotInv /\ [Next]_vars => SlotInv'
    BY SlotNext
  <1>2. QED BY SlotInit, <1>1, PTL DEF Spec

\* The reactor's state has its type, whatever the calls and their order.
THEOREM TypeCorrect == Spec => []TypeOK
  <1>1. SlotInv => TypeOK
    BY DEF SlotInv
  <1>2. QED BY SlotsInvariance, <1>1, PTL

\* in_op, out_op, the epoll mask and ready_io_ops agree with the operations at
\* every moment between two critical sections of fd_lock.
THEOREM SlotsAreKept == Spec => []SlotsAgree
  <1>1. SlotInv => SlotsAgree
    BY DEF SlotInv
  <1>2. QED BY SlotsInvariance, <1>1, PTL

-----------------------------------------------------------------------------
(* A socket whose peer is gone is ready in both directions, so readiness is  *)
(* what the mask lets the kernel report.                                     *)

LEMMA SocketFacts ==
    ASSUME Terminal = FALSE, TypeOK
    PROVE  /\ \A d \in Dirs : Ready(d) <=> d \in avail \/ hup
           /\ \A d \in events : Ready(d) => d \in Reported
  BY DEF Ready, Reported, Level, TypeOK, Dirs

\* A step keeps EdgeInv when nobody comes to wait and nothing becomes ready,
\* and the reports of readiness stay where they are.
LEMMA EdgeKept ==
    ASSUME Terminal = FALSE, SlotInv, TypeOK', EdgeInv,
           avail' \subseteq avail, hup' = hup,
           \A o \in Ops : Waits(o)' => Waits(o) /\ pc'[o] = pc[o],
           queued => queued', batch' = batch,
           remembered \subseteq remembered',
           loop' \notin {"reset", "handle"} => loop \notin {"reset", "handle"}
    PROVE  EdgeInv'
  <1>1. \A o \in Ops : Ready(Dir(o))' => Ready(Dir(o))
    BY SocketFacts, DirFacts DEF Ready
  <1>2. QED BY <1>1 DEF EdgeInv

LEMMA EdgeNext ==
    ASSUME Terminal = FALSE, SlotInv, SlotInv', EdgeInv, [Next]_vars
    PROVE  EdgeInv'
  <1>0. TypeOK /\ TypeOK'
    BY DEF SlotInv
  <1> USE DirFacts, <1>0
  <1> USE DEF kernelVars, dataVars, opVars, loopVars
  <1>a. /\ \A d \in Dirs : Ready(d) <=> d \in avail \/ hup
        /\ \A d \in Dirs : Ready(d)' <=> d \in avail' \/ hup'
    BY SocketFacts DEF Ready
  <1>b. \A o \in Ops : pc[o] = "register" => slot[Dir(o)] = None
    BY DEF SlotInv, SlotsAgree, Outstanding, TypeOK
  <1>c. \A o, p \in Ops : Waits(o) /\ Waits(p) /\ Dir(o) = Dir(p) => o = p
    BY DEF SlotInv, Outstanding, Waits
  <1>1. CASE UNCHANGED vars
    BY <1>1, EdgeKept DEF vars, Waits
  <1>2. ASSUME NEW d \in Dirs, Arrive(d) PROVE EdgeInv'
    BY <1>2, <1>a DEF Arrive, EdgeInv, Waits
  <1>3. CASE HangUp
    BY <1>3, <1>a DEF HangUp, EdgeInv, Waits
  <1>4. CASE Open
    BY <1>4 DEF Open, SlotInv, EdgeInv, Waits, Outstanding
  <1>5. CASE Close
    BY <1>5 DEF Close, EdgeInv, Waits, Outstanding
  <1>6. CASE CancelObject
    BY <1>6, EdgeKept DEF CancelObject, Waits, TypeOK
  <1>7. ASSUME NEW o \in Ops, Start(o) PROVE EdgeInv'
    BY <1>7, EdgeKept DEF Start, Waits, TypeOK
  <1>8. ASSUME NEW o \in Ops, TryIo(o) PROVE EdgeInv'
    <2>1. CASE Ready(Dir(o))
      <3>1. avail' \subseteq avail
        BY <1>8, <2>1, DoIoTypes DEF TryIo
      <3>2. \A p \in Ops : pc'[p] = IF p = o THEN "complete" ELSE pc[p]
        BY <1>8, <2>1 DEF TryIo, TypeOK
      <3>3. QED BY <1>8, <3>1, <3>2, EdgeKept DEF TryIo, Waits
    <2>2. CASE ~Ready(Dir(o))
      <3>1. \A p \in Ops : pc'[p] = IF p = o THEN "register" ELSE pc[p]
        BY <1>8, <2>2 DEF TryIo, TypeOK
      <3>2. UNCHANGED <<avail, hup, queued, events, remembered, batch, loop>>
        BY <1>8, <2>2 DEF TryIo
      <3>3. QED BY <2>2, <3>1, <3>2, <1>a DEF EdgeInv, Waits
    <2>3. QED BY <2>1, <2>2
  <1>9. ASSUME NEW o \in Ops, ConsumeRemembered(o) PROVE EdgeInv'
    <2>1. /\ \A p \in Ops : pc'[p] = IF p = o THEN "try" ELSE pc[p]
          /\ pc[o] = "register"
          /\ remembered' = remembered \ Flag(Dir(o))
          /\ UNCHANGED <<avail, hup, queued, events, batch, loop>>
      BY <1>9 DEF ConsumeRemembered, TypeOK
    <2>2. ASSUME NEW p \in Ops, Waits(p)', Dir(p) \in remembered
          PROVE  pc'[p] = "register" => Dir(p) \in remembered'
      <3>1. p # o /\ Waits(p)
        BY <2>1, <2>2 DEF Waits
      <3>2. pc[p] = "register" => Dir(p) # Dir(o)
        BY <2>1, <3>1 DEF SlotInv, Outstanding
      <3>3. Dir(p) # "hup"
        BY DEF Dirs
      <3>4. QED BY <2>1, <2>2, <3>1, <3>2, <3>3 DEF Flag
    <2>3. \A p \in Ops : Waits(p)' => Waits(p) /\ pc'[p] = pc[p]
      BY <2>1 DEF Waits
    <2>4. QED BY <2>1, <2>2, <2>3, <1>a DEF EdgeInv
  <1>10. ASSUME NEW o \in Ops, Register(o) PROVE EdgeInv'
    <2>1. /\ \A p \in Ops : pc'[p] = IF p = o THEN "armed" ELSE pc[p]
          /\ pc[o] = "register"
          /\ events' = Mask(o)
          /\ queued' = (queued \/ (events' # events /\ (hup \/ events' \cap avail # {})))
          /\ Dir(o) \notin remembered
          /\ UNCHANGED <<avail, hup, remembered, batch, loop>>
      BY <1>10 DEF Register, TypeOK, Flag
    <2>2. Dir(o) \in events'
      BY <2>1 DEF Mask
    <2>3. Ready(Dir(o)) => queued' \/ Dir(o) \in batch'
      <3>1. CASE Dir(o) \in events
        BY <2>1, <3>1 DEF EdgeInv, Waits
      <3>2. CASE Dir(o) \notin events
        BY <2>1, <2>2, <3>2, <1>a
      <3>3. QED BY <3>1, <3>2
    <2>4. ASSUME NEW p \in Ops, p # o, Waits(p)' PROVE Waits(p) /\ pc'[p] = pc[p]
      <3>1. pc'[p] = pc[p] /\ Dir(p) # Dir(o)
        BY <2>1, <2>4 DEF Waits, SlotInv, Outstanding
      <3>2. slot[Dir(p)] # None
        BY <2>1, <2>4, <3>1 DEF Waits, Mask
      <3>3. Dir(p) \in events
        BY <3>2 DEF SlotInv, SlotsAgree
      <3>4. QED BY <2>4, <3>1, <3>3 DEF Waits
    <2>5. QED BY <2>1, <2>3, <2>4, <1>a DEF EdgeInv
  <1>11. ASSUME NEW o \in Ops, RegisterFails(o) PROVE EdgeInv'
    BY <1>11, EdgeKept DEF RegisterFails, Waits, TypeOK
  <1>12. ASSUME NEW o \in Ops, RequestStop(o) PROVE EdgeInv'
    BY <1>12, EdgeKept DEF RequestStop, Waits
  <1>13. ASSUME NEW o \in Ops, CancelOp(o) PROVE EdgeInv'
    BY <1>13, EdgeKept DEF CancelOp, Waits, TypeOK
  <1>14. ASSUME NEW o \in Ops, Post(o) PROVE EdgeInv'
    BY <1>14, EdgeKept DEF Post, Waits, TypeOK
  <1>15. ASSUME NEW o \in Ops, Interrupt(o) PROVE EdgeInv'
    BY <1>15, EdgeKept DEF Interrupt, Waits
  <1>16. ASSUME NEW o \in Ops, Finish(o) PROVE EdgeInv'
    BY <1>16, EdgeKept DEF Finish, Waits, TypeOK
  <1>17. CASE NothingPosted
    BY <1>17, EdgeKept DEF NothingPosted, Waits
  <1>18. CASE EpollWait
    <2>1. /\ batch' = IF queued THEN Reported ELSE {}
          /\ loop' \in {"reset", "handle"} /\ batch = {}
          /\ UNCHANGED <<avail, hup, events, pc, remembered>>
      BY <1>18 DEF EpollWait, EdgeInv
    <2>2. ASSUME NEW o \in Ops, Waits(o), Ready(Dir(o))
          PROVE  \/ Dir(o) \in batch'
                 \/ pc[o] = "register" /\ Dir(o) \in remembered
      BY <2>1, <2>2, SocketFacts DEF EdgeInv, Waits
    <2>3. \A o \in Ops : (Waits(o)' <=> Waits(o)) /\ (Ready(Dir(o))' <=> Ready(Dir(o)))
      BY <2>1, <1>a DEF Waits
    <2>4. QED BY <2>1, <2>2, <2>3 DEF EdgeInv
  <1>19. CASE Reset
    BY <1>19, EdgeKept DEF Reset, Waits
  <1>20. CASE HandleEvents
    <2> DEFINE served == {d \in Dirs : Hit(d) /\ slot[d] # None /\ Ready(d)}
    <2>1. /\ slot' = [d \in Dirs |-> IF d \in served THEN None ELSE slot[d]]
          /\ pc' = [o \in Ops |-> IF o \in readyOps' THEN "taken" ELSE pc[o]]
          /\ readyOps' = {slot[d] : d \in served}
          /\ remembered' = remembered \cup
                 UNION {batch \cap Flag(d) : d \in {e \in Dirs : slot[e] = None}}
          /\ batch' = {} /\ UNCHANGED <<events, hup, queued>>
          /\ DoIo({slot[d] : d \in served})
      BY <1>20 DEF HandleEvents
    <2>2. {slot[d] : d \in served} \in SUBSET Ops
      BY DEF TypeOK
    <2>3. avail' \subseteq avail
      BY <2>1, <2>2, DoIoTypes
    <2>4. ASSUME NEW o \in Ops, Waits(o)', Ready(Dir(o))'
          PROVE  queued' \/ (pc'[o] = "register" /\ Dir(o) \in remembered')
      <3>1. pc'[o] = pc[o] /\ Waits(o) /\ Ready(Dir(o))
        BY <2>1, <2>3, <2>4, <1>a DEF Waits
      <3>2. CASE Dir(o) \in batch /\ pc[o] = "armed"
        <4>1. slot[Dir(o)] = o
          BY <3>2 DEF SlotInv, SlotsAgree
        <4>2. Dir(o) \in served
          BY <3>1, <3>2, <4>1 DEF Hit, Flag
        <4>3. pc'[o] = "taken"
          BY <2>1, <4>1, <4>2
        <4>4. QED BY <3>1, <3>2, <4>3
      <3>3. CASE Dir(o) \in batch /\ pc[o] = "register"
        <4>1. slot[Dir(o)] = None
          BY <3>3, <1>b
        <4>2. Dir(o) \in batch \cap Flag(Dir(o))
          BY <3>3 DEF Flag
        <4>3. Dir(o) \in remembered'
          BY <2>1, <4>1, <4>2
        <4>4. QED BY <3>1, <3>3, <4>3
      <3>4. CASE Dir(o) \notin batch
        BY <2>1, <3>1, <3>4 DEF EdgeInv
      <3>5. QED BY <3>1, <3>2, <3>3, <3>4 DEF Waits
    <2>5. QED BY <2>1, <2>4 DEF EdgeInv
  <1>21. ASSUME NEW o \in Ops, PublishReady(o) PROVE EdgeInv'
    BY <1>21, EdgeKept DEF PublishReady, Waits, TypeOK
  <1>22. CASE PublishedAll
    BY <1>22, EdgeKept DEF PublishedAll, Waits
  <1>23. CASE WaitTimesOut
    <2>1. /\ ~(queued /\ Reported # {}) /\ batch = {}
          /\ UNCHANGED <<avail, hup, events, pc, remembered, batch>>
      BY <1>23 DEF WaitTimesOut, EdgeInv
    <2>2. ASSUME NEW o \in Ops, Waits(o), Ready(Dir(o))
          PROVE  pc[o] = "register" /\ Dir(o) \in remembered
      BY <2>1, <2>2, SocketFacts DEF EdgeInv, Waits
    <2>3. \A o \in Ops : (Waits(o)' <=> Waits(o)) /\ (Ready(Dir(o))' <=> Ready(Dir(o)))
      BY <2>1, <1>a DEF Waits
    <2>4. QED BY <2>1, <2>2, <2>3 DEF EdgeInv
  <1>24. QED
    BY <1>1, <1>2, <1>3, <1>4, <1>5, <1>6, <1>7, <1>8, <1>9, <1>10, <1>11,
       <1>12, <1>13, <1>14, <1>15, <1>16, <1>17, <1>18, <1>19, <1>20, <1>21,
       <1>22, <1>23
    DEF Next, StartProgress, Posting, DoOne

LEMMA EdgeInit == Init => EdgeInv
  BY DEF Init, EdgeInv, Waits

\* On sockets no edge is lost: whatever starts, stops, objects and the peer's
\* actions interleave, an operation that waits although it is ready is one the
\* kernel is about to report or the consumer is about to serve.  For terminals
\* the run epoll_hang_up shows the opposite.
THEOREM EdgesAreKept ==
    ASSUME Terminal = FALSE
    PROVE  Spec => []EdgeNotLost
  <1>1. SlotInv /\ SlotInv' /\ EdgeInv /\ [Next]_vars => EdgeInv'
    BY EdgeNext
  <1>2. SlotInv /\ EdgeInv => EdgeNotLost
    <2> SUFFICES ASSUME SlotInv, EdgeInv, NEW d \in Dirs, slot[d] # None, Ready(d)
                 PROVE  queued \/ Hit(d)
      BY DEF EdgeNotLost
    <2> DEFINE o == slot[d]
    <2>1. o \in Ops /\ Dir(o) = d
      BY DirFacts DEF SlotInv, TypeOK
    <2>2. pc[o] = "armed" /\ d \in events
      BY <2>1 DEF SlotInv, SlotsAgree
    <2>3. queued \/ d \in batch
      BY <2>1, <2>2 DEF EdgeInv, Waits
    <2>4. QED BY <2>3 DEF Hit, Flag
  <1>3. QED BY <1>1, <1>2, SlotsInvariance, EdgeInit, PTL DEF Spec

-----------------------------------------------------------------------------

\* While the consumer is waiting, only a poster's interrupt() changes the
\* eventfd, and only a poster that still has to interrupt() adds an operation.
LEMMA InterruptNext ==
    ASSUME TypeOK, InterruptNotLost, [Next]_vars PROVE InterruptNotLost'
  <1> USE DEF kernelVars, dataVars, opVars, loopVars
  <1>1. CASE loop' # "wait"
    BY <1>1 DEF InterruptNotLost
  <1>2. CASE NothingPosted
    BY <1>2 DEF NothingPosted, InterruptNotLost
  <1>3. ASSUME NEW o \in Ops, Post(o) PROVE InterruptNotLost'
    BY <1>3 DEF Post, InterruptNotLost
  <1>4. ASSUME NEW o \in Ops, Interrupt(o) PROVE InterruptNotLost'
    BY <1>4 DEF Interrupt, InterruptNotLost
  <1>5. ASSUME loop = "wait", UNCHANGED <<loop, wake, signal, wakers>>,
               \A o \in Ops : pc'[o] = "posted" => pc[o] = "posted"
        PROVE  InterruptNotLost'
    BY <1>5 DEF InterruptNotLost
  <1>6. ASSUME NEW o \in Ops,
               Start(o) \/ StartProgress(o) \/ RequestStop(o) \/ CancelOp(o),
               loop' = "wait"
        PROVE  InterruptNotLost'
    <2>1. UNCHANGED <<loop, wake, signal, wakers>>
      BY <1>6 DEF Start, StartProgress, TryIo, ConsumeRemembered, Register,
                  RegisterFails, RequestStop, CancelOp
    <2>2. CASE Start(o)
      BY <1>5, <1>6, <2>1, <2>2 DEF Start, TypeOK
    <2>3. CASE TryIo(o)
      BY <1>5, <1>6, <2>1, <2>3 DEF TryIo, TypeOK
    <2>4. CASE ConsumeRemembered(o)
      BY <1>5, <1>6, <2>1, <2>4 DEF ConsumeRemembered, TypeOK
    <2>5. CASE Register(o)
      BY <1>5, <1>6, <2>1, <2>5 DEF Register, TypeOK
    <2>6. CASE RegisterFails(o)
      BY <1>5, <1>6, <2>1, <2>6 DEF RegisterFails, TypeOK
    <2>7. CASE RequestStop(o)
      BY <1>5, <1>6, <2>1, <2>7 DEF RequestStop, TypeOK
    <2>8. CASE CancelOp(o)
      BY <1>5, <1>6, <2>1, <2>8 DEF CancelOp, TypeOK
    <2>9. QED BY <1>6, <2>2, <2>3, <2>4, <2>5, <2>6, <2>7, <2>8 DEF StartProgress
  <1>7. ASSUME loop' = "wait",
               \/ \E d \in Dirs : Arrive(d)
               \/ HangUp \/ Open \/ Close \/ CancelObject \/ UNCHANGED vars
        PROVE  InterruptNotLost'
    <2>1. UNCHANGED <<loop, wake, signal, wakers>>
      BY <1>7 DEF Arrive, HangUp, Open, Close, CancelObject, vars
    <2>2. \A o \in Ops : pc'[o] = "posted" => pc[o] = "posted"
      BY <1>7 DEF Arrive, HangUp, Open, Close, CancelObject, vars, TypeOK
    <2>3. QED BY <1>5, <1>7, <2>1, <2>2
  <1>8. ASSUME \/ \E o \in Ops : Finish(o) \/ PublishReady(o)
               \/ EpollWait \/ Reset \/ HandleEvents \/ PublishedAll \/ WaitTimesOut
        PROVE  loop' # "wait"
    BY <1>8 DEF Finish, PublishReady, EpollWait, Reset, HandleEvents, PublishedAll,
                WaitTimesOut
  <1>9. QED
    BY <1>1, <1>2, <1>3, <1>4, <1>6, <1>7, <1>8 DEF Next, Posting, DoOne

\* epoll_wait() never blocks on an operation that is in op_queue_: its poster's
\* write is in the eventfd, or still to come.
THEOREM InterruptsAreKept == Spec => []InterruptNotLost
  <1>1. Init => InterruptNotLost
    BY DEF Init, InterruptNotLost
  <1>2. TypeOK /\ InterruptNotLost /\ [Next]_vars => InterruptNotLost'
    BY InterruptNext
  <1>3. QED BY <1>1, <1>2, TypeCorrect, PTL DEF Spec

-----------------------------------------------------------------------------
(* The reactor implements IoContract.                                        *)

\* What an operation's place says of its result.
ResultInv ==
    \A o \in Ops :
        /\ moved[o] <=> result[o] = "value"
        /\ pc[o] \in {"complete", "taken"} => result[o] # "none"
        /\ pc[o] \in {"idle", "try", "register", "armed", "canceled"} => result[o] = "none"
        /\ pc[o] = "canceled" => o \in stop \cup aborted

\* The system calls of operations that had no result yet.
LEMMA DoIoStep ==
    ASSUME SlotInv, SlotInv', ResultInv, NEW S \in SUBSET Ops, DoIo(S), NEW label,
           label \in {"complete", "taken"},
           \A o \in S : pc[o] \in {"try", "armed"},
           \A o \in Ops : pc'[o] = IF o \in S THEN label ELSE pc[o],
           UNCHANGED <<stop, aborted>>
    PROVE  ResultInv' /\ [Contract!IoNext]_(Contract!ioVars)
  <1> DEFINE served == {o \in S : Dir(o) \in avail}
  <1>1. /\ \A o \in Ops : result'[o] = IF o \in served THEN "value"
                                       ELSE IF o \in S THEN "error" ELSE result[o]
        /\ moved' = [o \in Ops |-> moved[o] \/ o \in served]
    BY DEF DoIo
  <1>2. \A o \in Ops : moved'[o] <=> (moved[o] \/ o \in served)
    BY <1>1
  <1>3. ResultInv'
    BY <1>1, <1>2 DEF ResultInv
  <1>4. \A o \in Ops : Status(o)' = Status(o)
    BY <1>1 DEF Status, ResultInv
  <1>5. \A o \in served : Status(o) = "started" /\ ~moved[o]
    BY DEF Status, ResultInv
  <1>6. moved' = [o \in Ops |-> o \in served \/ moved[o]]
    BY <1>1
  <1>7. Contract!Transfer(served)
    <2> HIDE DEF served
    <2>1. served \subseteq Ops
      BY DEF served
    <2>2. QED BY <1>4, <1>5, <1>6, <2>1 DEF Contract!Transfer
  <1>8. served \in SUBSET Ops
    OBVIOUS
  <1>9. QED BY <1>3, <1>7, <1>8 DEF Contract!IoNext

\* Operations move on to places of the same status, and nobody is asked.
LEMMA SameStatus ==
    ASSUME ResultInv, UNCHANGED <<result, moved, stop, aborted>>,
           \A o \in Ops :
              \/ pc'[o] = pc[o]
              \/ /\ pc[o] \in {"try", "register"}
                 /\ pc'[o] \in {"try", "register", "armed"}
              \/ pc[o] = "posted" /\ pc'[o] = "done"
    PROVE  ResultInv' /\ [Contract!IoNext]_(Contract!ioVars)
  <1>1. ResultInv'
    BY DEF ResultInv
  <1>2. \A o \in Ops : Status(o)' = Status(o)
    BY DEF Status
  <1>3. QED BY <1>1, <1>2 DEF Contract!ioVars

LEMMA RefineNext ==
    ASSUME SlotInv, SlotInv', ResultInv, [Next]_vars
    PROVE  ResultInv' /\ [Contract!IoNext]_(Contract!ioVars)
  <1> DEFINE Goal == ResultInv' /\ [Contract!IoNext]_(Contract!ioVars)
  <1>0. TypeOK /\ TypeOK'
    BY DEF SlotInv
  <1> USE DirFacts, <1>0
  <1> USE DEF kernelVars, dataVars, opVars, loopVars
  <1>1. CASE \/ UNCHANGED vars \/ HangUp \/ Open \/ Close \/ (\E d \in Dirs : Arrive(d))
             \/ NothingPosted \/ EpollWait \/ Reset \/ PublishedAll \/ WaitTimesOut
             \/ (\E o \in Ops : Interrupt(o))
    <2>1. UNCHANGED <<pc, result, moved, stop, aborted>>
      BY <1>1 DEF vars, HangUp, Open, Close, Arrive, NothingPosted, EpollWait, Reset,
                  PublishedAll, WaitTimesOut, Interrupt
    <2>2. QED BY <2>1, SameStatus
  <1>2. CASE CancelObject
    <2> DEFINE ops == {slot[d] : d \in Dirs} \ {None}
    <2>1. /\ \A o \in Ops : pc'[o] = IF o \in ops THEN "canceled" ELSE pc[o]
          /\ aborted' = aborted \cup ops
          /\ UNCHANGED <<result, moved, stop>>
      BY <1>2 DEF CancelObject
    <2>2. ops \subseteq Ops /\ \A o \in ops : pc[o] = "armed"
      BY DEF SlotInv, SlotsAgree, TypeOK
    <2> HIDE DEF ops
    <2>3. ResultInv'
      BY <2>1, <2>2 DEF ResultInv
    <2>4. \A o \in Ops : Status(o)' = Status(o)
      BY <2>1, <2>2 DEF Status
    <2>5. Contract!AskToStop(ops)
      BY <2>1, <2>4 DEF Contract!AskToStop
    <2>6. QED BY <2>2, <2>3, <2>5 DEF Contract!IoNext
  <1>3. ASSUME NEW o \in Ops, Start(o) PROVE Goal
    <2>1. /\ pc[o] = "idle" /\ \A p \in Ops : pc'[p] = IF p = o THEN "try" ELSE pc[p]
          /\ UNCHANGED <<result, moved, stop, aborted>>
      BY <1>3 DEF Start, TypeOK
    <2>2. ResultInv'
      BY <2>1 DEF ResultInv
    <2>3. \A p \in Ops : Status(p)' = IF p = o THEN "started" ELSE Status(p)
      BY <2>1 DEF Status
    <2>4. Status(o) = "idle"
      BY <2>1 DEF Status
    <2>5. Contract!StartIo(o)
      BY <2>1, <2>3, <2>4 DEF Contract!StartIo
    <2>6. QED BY <2>2, <2>5 DEF Contract!IoNext
  <1>4. ASSUME NEW o \in Ops, TryIo(o) PROVE Goal
    <2>1. CASE Ready(Dir(o))
      <3>1. /\ pc[o] = "try" /\ DoIo({o}) /\ UNCHANGED <<stop, aborted>>
            /\ \A p \in Ops : pc'[p] = IF p \in {o} THEN "complete" ELSE pc[p]
        BY <1>4, <2>1 DEF TryIo, TypeOK
      <3>2. QED BY <3>1, DoIoStep
    <2>2. CASE ~Ready(Dir(o))
      <3>1. /\ pc[o] = "try" /\ UNCHANGED <<result, moved, stop, aborted>>
            /\ \A p \in Ops : pc'[p] = IF p = o THEN "register" ELSE pc[p]
        BY <1>4, <2>2 DEF TryIo, TypeOK
      <3>2. QED BY <3>1, SameStatus
    <2>3. QED BY <2>1, <2>2
  <1>5. ASSUME NEW o \in Ops, ConsumeRemembered(o) \/ Register(o) PROVE Goal
    <2>1. PICK label \in {"try", "armed"} :
             /\ pc[o] = "register" /\ UNCHANGED <<result, moved, stop, aborted>>
             /\ \A p \in Ops : pc'[p] = IF p = o THEN label ELSE pc[p]
      BY <1>5 DEF ConsumeRemembered, Register, TypeOK
    <2>2. QED BY <2>1, SameStatus
  <1>6. ASSUME NEW o \in Ops, RegisterFails(o) PROVE Goal
    <2>1. /\ pc[o] = "register" /\ UNCHANGED <<moved, stop, aborted>>
          /\ \A p \in Ops : pc'[p] = IF p = o THEN "complete" ELSE pc[p]
          /\ \A p \in Ops : result'[p] = IF p = o THEN "error" ELSE result[p]
      BY <1>6 DEF RegisterFails, TypeOK
    <2>2. ResultInv'
      BY <2>1 DEF ResultInv
    <2>3. \A p \in Ops : Status(p)' = Status(p)
      BY <2>1 DEF Status
    <2>4. QED BY <2>1, <2>2, <2>3 DEF Contract!ioVars
  <1>7. ASSUME NEW o \in Ops, RequestStop(o) PROVE Goal
    <2>1. stop' = stop \cup {o} /\ UNCHANGED <<pc, result, moved, aborted>>
      BY <1>7 DEF RequestStop
    <2>2. ResultInv'
      BY <2>1 DEF ResultInv
    <2>3. \A p \in Ops : Status(p)' = Status(p)
      BY <2>1 DEF Status
    <2>4. Contract!AskToStop({o}) /\ {o} \in SUBSET Ops
      BY <2>1, <2>3 DEF Contract!AskToStop
    <2>5. QED BY <2>2, <2>4 DEF Contract!IoNext
  <1>8. ASSUME NEW o \in Ops, CancelOp(o) PROVE Goal
    <2>1. CASE slot[Dir(o)] = o
      <3>1. /\ pc[o] = "armed" /\ o \in stop /\ UNCHANGED <<result, moved, stop, aborted>>
            /\ \A p \in Ops : pc'[p] = IF p = o THEN "canceled" ELSE pc[p]
        BY <1>8, <2>1 DEF CancelOp, SlotInv, SlotsAgree, TypeOK
      <3>2. ResultInv'
        BY <3>1 DEF ResultInv
      <3>3. \A p \in Ops : Status(p)' = Status(p)
        BY <3>1 DEF Status
      <3>4. QED BY <3>1, <3>2, <3>3 DEF Contract!ioVars
    <2>2. CASE slot[Dir(o)] # o
      <3>1. UNCHANGED <<pc, result, moved, stop, aborted>>
        BY <1>8, <2>2 DEF CancelOp
      <3>2. QED BY <3>1, SameStatus
    <2>3. QED BY <2>1, <2>2
  <1>9. ASSUME NEW o \in Ops, Post(o) \/ PublishReady(o) PROVE Goal
    <2>1. /\ pc[o] \in {"complete", "canceled", "taken"}
          /\ \A p \in Ops : pc'[p] = IF p = o THEN "posted" ELSE pc[p]
          /\ UNCHANGED <<result, moved, stop, aborted>>
      BY <1>9 DEF Post, PublishReady, SlotInv, SlotsAgree, TypeOK
    <2> DEFINE outcome == IF result[o] = "none" THEN "stopped" ELSE result[o]
    <2>2. ResultInv'
      BY <2>1 DEF ResultInv
    <2>3. \A p \in Ops : Status(p)' = IF p = o THEN outcome ELSE Status(p)
      BY <2>1 DEF Status
    <2>4. Status(o) = "started"
      BY <2>1 DEF Status
    <2>5. /\ outcome \in {"value", "error", "stopped"}
          /\ \/ outcome = "value" /\ moved[o]
             \/ outcome = "error" /\ ~moved[o]
             \/ outcome = "stopped" /\ ~moved[o] /\ o \in stop \cup aborted
      BY <2>1 DEF ResultInv, TypeOK
    <2> HIDE DEF outcome
    <2>6. Contract!Complete(o, outcome)
      BY <2>1, <2>3, <2>4, <2>5 DEF Contract!Complete
    <2>7. QED BY <2>2, <2>5, <2>6 DEF Contract!IoNext
  <1>10. ASSUME NEW o \in Ops, Finish(o) PROVE Goal
    <2>1. /\ pc[o] = "posted" /\ UNCHANGED <<result, moved, stop, aborted>>
          /\ \A p \in Ops : pc'[p] = IF p = o THEN "done" ELSE pc[p]
      BY <1>10 DEF Finish, TypeOK
    <2>2. QED BY <2>1, SameStatus
  <1>11. CASE HandleEvents
    <2> DEFINE S == {slot[d] : d \in {e \in Dirs : Hit(e) /\ slot[e] # None /\ Ready(e)}}
    <2>1. S \in SUBSET Ops /\ \A o \in S : pc[o] = "armed"
      BY DEF SlotInv, SlotsAgree, TypeOK
    <2>2. /\ DoIo(S) /\ readyOps' = S
          /\ pc' = [o \in Ops |-> IF o \in readyOps' THEN "taken" ELSE pc[o]]
          /\ UNCHANGED <<stop, aborted>>
      BY <1>11 DEF HandleEvents
    <2> HIDE DEF S
    <2>3. \A o \in Ops : pc'[o] = IF o \in S THEN "taken" ELSE pc[o]
      BY <2>2
    <2>4. QED BY <2>1, <2>2, <2>3, DoIoStep
  <1>12. QED
    BY <1>1, <1>2, <1>3, <1>4, <1>5, <1>6, <1>7, <1>8, <1>9, <1>10, <1>11
    DEF Next, StartProgress, Posting, DoOne

LEMMA RefineInit == Init => ResultInv /\ Contract!IoInit
  BY DEF Init, ResultInv, Contract!IoInit, Status

\* Every run of the reactor is one the contract allows: an operation completes
\* once, reports a transfer exactly when it made one, and is stopped only when
\* its token or its object asked for it.
THEOREM Implements == Spec => ImplementsIo
  <1>1. SlotInv /\ SlotInv' /\ ResultInv /\ [Next]_vars
           => ResultInv' /\ [Contract!IoNext]_(Contract!ioVars)
    BY RefineNext
  <1>2. QED BY <1>1, RefineInit, SlotsInvariance, PTL
        DEF Spec, ImplementsIo, Contract!IoSpec

(***************************************************************************)
(* SignalWait                                                              *)
(*                                                                         *)
(* The list is described link by link: both directions agree, and the      *)
(* waiters that add() has linked and nobody has taken out are exactly      *)
(* those with a neighbour before them, the head, and the first waiter of   *)
(* the chain that pop_all() has detached.  Who is taken out is finished by *)
(* the thread that did it, and nobody else.                                *)
(***************************************************************************)
WaitPhases == {"starting", "cancel_deferred", "armed", "completed"}

SignalTypes ==
    /\ head \in Waiters \cup {"this", "fired"}
    /\ prev \in [Waiters -> Waiters \cup {None}]
    /\ next \in [Waiters -> Waiters \cup {None}]
    /\ phase \in [Waiters -> WaitPhases]
    /\ outcomes \in [Waiters -> {"none", "value", "stopped", "error"}]
    /\ starter \in [Waiters -> {"idle", "add", "arm", "cancel", "finish", "rearm", "over",
                                "deliver"}]
    /\ callback \in [Waiters -> {"idle", "request", "cancel", "finish", "over"}]
    /\ deliverer \in [Waiters -> {"none", "start", "callback", "watchdog"}]
    /\ done \subseteq Waiters
    /\ notices \in Nat /\ raises \in Nat
    /\ dog \in {"poll", "dispatch", "pop", "walk", "finish"}
    /\ cursor \in Waiters \cup {None} /\ after \in Waiters \cup {None}

\* The waiters that add() has linked and nobody has taken out since.
Listed(o) ==
    /\ starter[o] \notin {"idle", "add", "finish"} /\ phase[o] # "completed"
    /\ callback[o] # "finish"
    /\ ~(dog = "finish" /\ cursor = o)

\* The first waiter of the chain pop_all() works through.
Leads(o) == (dog = "walk" /\ cursor = o) \/ (dog = "finish" /\ after = o)

\* The links go both ways; a waiter is listed exactly when remove() or pop_all()
\* can find it; pop_all() holds the one that has nobody before it.
LinksInv ==
    \A o \in Waiters :
        /\ next[o] # None => prev[next[o]] = o
        /\ prev[o] # None => next[prev[o]] = o
        /\ Listed(o) <=> (prev[o] # None \/ head = o \/ Leads(o))
        /\ head = o \/ Leads(o) => prev[o] = None
        /\ ~Listed(o) => next[o] = None

\* The locals of pop_all(), between two rounds and while a waiter is finished;
\* and nothing happens before the signal was raised.
WatchdogInv ==
    /\ dog \in {"walk", "finish"} => head = "fired"
    /\ dog \in {"poll", "dispatch", "pop"} => cursor = None /\ after = None
    /\ dog = "walk" => cursor = after
    /\ dog = "finish" =>
          /\ cursor \in Waiters /\ after # cursor
          /\ phase[cursor] # "completed"
          /\ starter[cursor] \notin {"idle", "add", "finish"} /\ callback[cursor] # "finish"
    /\ notices > 0 \/ dog # "poll" \/ head = "fired" => raises > 0

\* How the exchanges of start(), the stop callback and finish() have left a wait.
WaitInv(o) ==
    /\ starter[o] = "idle" => phase[o] = "starting" /\ callback[o] = "idle"
    /\ starter[o] = "add" => phase[o] \in {"starting", "cancel_deferred"}
    /\ starter[o] = "arm" => phase[o] # "armed"
    /\ starter[o] \in {"cancel", "rearm"} => phase[o] \in {"cancel_deferred", "completed"}
    /\ starter[o] = "finish" => phase[o] = "cancel_deferred"
    /\ starter[o] = "deliver" => phase[o] = "completed" /\ deliverer[o] = "start"
    /\ starter[o] = "over" => phase[o] \in {"armed", "completed"}
    /\ phase[o] = "armed" => starter[o] = "over"
    /\ deliverer[o] \in {"callback", "watchdog"} => starter[o] = "over"
    /\ deliverer[o] = "start" => starter[o] # "over"
    /\ phase[o] = "completed" <=> deliverer[o] # "none"
    /\ outcomes[o] # "none" <=> phase[o] = "completed"
    /\ phase[o] = "cancel_deferred" => callback[o] # "idle"
    /\ callback[o] \in {"cancel", "finish"} => starter[o] = "over"
    /\ callback[o] = "finish" => phase[o] = "armed"
    /\ deliverer[o] = "callback" => callback[o] = "over"
    /\ o \in done => /\ phase[o] = "completed" /\ starter[o] \in {"over", "deliver"}
                    /\ callback[o] \in {"idle", "over"}

\* The links lead from the waiters added later to those added earlier.
LinksSorted ==
    \E rank \in [Waiters -> Nat] :
        \A o \in Waiters : next[o] # None => rank[next[o]] < rank[o]

SignalInv ==
    /\ SignalTypes /\ LinksInv /\ LinksSorted /\ WatchdogInv
    /\ \A o \in Waiters : WaitInv(o)

\* remove(): the waiter has a neighbour before it or is the head, and is cut out
\* of the list, or of the chain pop_all() has detached, with the rest in order.
LEMMA WaiterIsCut ==
    ASSUME Signal!SignalAssumption, SignalInv, NEW o \in Waiters, Signal!Remove(o),
           UNCHANGED <<dog, cursor, after>>,
           \A w \in Waiters : Listed(w)' <=> (Listed(w) /\ w # o)
    PROVE  LinksInv' /\ LinksSorted'
  <1> USE DEF Signal!SignalAssumption
  <1>1. ASSUME NEW w \in Waiters
        PROVE  /\ next[w] \in Waiters \cup {None} /\ prev[w] \in Waiters \cup {None}
               /\ next[w] # None => prev[next[w]] = w
               /\ prev[w] # None => next[prev[w]] = w
               /\ Listed(w) <=> (prev[w] # None \/ head = w \/ Leads(w))
               /\ head = w \/ Leads(w) => prev[w] = None
               /\ ~Listed(w) => next[w] = None
    BY DEF SignalInv, SignalTypes, LinksInv
  <1>2. Listed(o) /\ ~Leads(o) /\ (Leads(o)' <=> Leads(o))
    BY <1>1 DEF SignalInv, WatchdogInv, Leads, Signal!Remove, Signal!Linked
  <1>3. \A w \in Waiters : Leads(w)' <=> Leads(w)
    BY DEF Leads
  <1>4. \A w \in Waiters :
          /\ next'[w] = IF w = prev[o] THEN next[o] ELSE IF w = o THEN None ELSE next[w]
          /\ prev'[w] = IF w = next[o] THEN prev[o] ELSE IF w = o THEN None ELSE prev[w]
    BY DEF Signal!Remove
  <1>5. head' = IF head # o THEN head ELSE IF next[o] = None THEN "this" ELSE next[o]
    BY DEF Signal!Remove
  <1>6. prev[o] # o /\ next[o] # o
    BY <1>1 DEF SignalInv, LinksSorted
  <1>7. ASSUME NEW w \in Waiters
        PROVE  /\ next'[w] # None => prev'[next'[w]] = w
               /\ prev'[w] # None => next'[prev'[w]] = w
    BY <1>1, <1>4, <1>6
  <1>8. ASSUME NEW w \in Waiters
        PROVE  /\ Listed(w)' <=> (prev'[w] # None \/ head' = w \/ Leads(w)')
               /\ head' = w \/ Leads(w)' => prev'[w] = None
               /\ ~Listed(w)' => next'[w] = None
    BY <1>1, <1>2, <1>3, <1>4, <1>5, <1>6
  <1>9. LinksSorted'
    <2>1. PICK rank \in [Waiters -> Nat] :
              \A w \in Waiters : next[w] # None => rank[next[w]] < rank[w]
      BY DEF SignalInv, LinksSorted
    <2>2. ASSUME NEW w \in Waiters, next'[w] # None PROVE rank[next'[w]] < rank[w]
      <3>1. CASE w = prev[o]
        <4>1. next[w] = o /\ next'[w] = next[o]
          BY <1>1, <1>4, <2>2, <3>1
        <4>2. rank[next[o]] < rank[o] /\ rank[o] < rank[w]
          BY <1>1, <2>1, <2>2, <4>1
        <4>3. rank[next[o]] \in Nat /\ rank[o] \in Nat /\ rank[w] \in Nat
          BY <1>1, <2>2, <4>1
        <4>4. QED BY <4>1, <4>2, <4>3
      <3>2. CASE w # prev[o]
        BY <1>4, <2>1, <2>2, <3>2
      <3>3. QED BY <3>1, <3>2
    <2>3. QED BY <2>2 DEF LinksSorted
  <1>10. QED BY <1>7, <1>8, <1>9 DEF LinksInv

\* At first nobody waits.
LEMMA SignalInit ==
    ASSUME Signal!SignalAssumption
    PROVE  Signal!Init => SignalInv
  <1> SUFFICES ASSUME Signal!Init PROVE SignalInv
    OBVIOUS
  <1> USE DEF Signal!SignalAssumption, Signal!Init
  <1>1. SignalTypes
    BY DEF SignalTypes, WaitPhases
  <1>2. LinksSorted
    <2>1. [o \in Waiters |-> 0] \in [Waiters -> Nat]
      OBVIOUS
    <2>2. QED BY <2>1 DEF LinksSorted
  <1>3. LinksInv /\ WatchdogInv /\ \A o \in Waiters : WaitInv(o)
    BY DEF LinksInv, Listed, Leads, WatchdogInv, WaitInv
  <1>4. QED BY <1>1, <1>2, <1>3 DEF SignalInv

\* One step per action.
LEMMA SignalNext ==
    ASSUME Signal!SignalAssumption
    PROVE  SignalInv /\ [Signal!Next]_(Signal!vars) => SignalInv'
  <1> SUFFICES ASSUME SignalInv, [Signal!Next]_(Signal!vars) PROVE SignalInv'
    OBVIOUS
  <1> USE DEF Signal!SignalAssumption, SignalInv, SignalTypes,
              Signal!listVars, Signal!opVars, Signal!dogVars
  <1>0. CASE UNCHANGED Signal!vars
    BY <1>0
    DEF Signal!vars, LinksInv, LinksSorted, Listed, Leads, WatchdogInv, WaitInv
  <1>1. ASSUME NEW o \in Waiters, Signal!Start(o) PROVE SignalInv'
    <2> USE <1>1 DEF Signal!Start
    <2>1. SignalTypes'
      BY DEF WaitPhases
    <2>2. LinksInv'
      BY DEF LinksInv, Listed, Leads, WatchdogInv, WaitInv
    <2>3. LinksSorted'
      BY DEF LinksSorted
    <2>4. WatchdogInv'
      BY DEF LinksInv, Listed, Leads, WatchdogInv, WaitInv
    <2>5. ASSUME NEW w \in Waiters PROVE WaitInv(w)'
      BY DEF LinksInv, Listed, Leads, WatchdogInv, WaitInv
    <2>6. QED BY <2>1, <2>2, <2>3, <2>4, <2>5
  <1>2. ASSUME NEW o \in Waiters, Signal!AddNothing(o) PROVE SignalInv'
    <2> USE <1>2 DEF Signal!AddNothing, Signal!FinishOp
    <2>1. SignalTypes'
      BY DEF WaitPhases
    <2>2. LinksInv'
      BY DEF LinksInv, Listed, Leads, WatchdogInv, WaitInv
    <2>3. LinksSorted'
      BY DEF LinksSorted
    <2>4. WatchdogInv'
      BY DEF LinksInv, Listed, Leads, WatchdogInv, WaitInv
    <2>5. ASSUME NEW w \in Waiters PROVE WaitInv(w)'
      BY DEF LinksInv, Listed, Leads, WatchdogInv, WaitInv
    <2>6. QED BY <2>1, <2>2, <2>3, <2>4, <2>5
  <1>3. ASSUME NEW o \in Waiters, Signal!Add(o) PROVE SignalInv'
    <2> USE <1>3 DEF Signal!Add
    <2>1. SignalTypes'
      BY DEF WaitPhases
    <2>2. LinksInv'
      BY DEF LinksInv, Listed, Leads, WatchdogInv, WaitInv
    <2>3. LinksSorted'
      <3> DEFINE behind == IF head = "this" THEN None ELSE head
      <3>1. PICK rank \in [Waiters -> Nat] :
                \A w \in Waiters : next[w] # None => rank[next[w]] < rank[w]
        BY DEF LinksSorted
      <3> DEFINE least == IF behind = None THEN 0 ELSE rank[behind] + 1
                 above == [w \in Waiters |-> IF w = o THEN least ELSE rank[w]]
      <3>2. /\ ~Listed(o) /\ behind \in Waiters \cup {None} /\ behind # o
            /\ \A w \in Waiters : next[w] \in Waiters \cup {None} /\ next[w] # o
            /\ next' = [next EXCEPT ![o] = behind]
        BY DEF Listed, LinksInv
      <3>3. above \in [Waiters -> Nat]
        <4>1. \A w \in Waiters : rank[w] \in Nat
          BY <3>1
        <4>2. least \in Nat
          <5> HIDE DEF behind
          <5>1. CASE behind = None
            BY <5>1
          <5>2. CASE behind # None
            BY <3>2, <4>1, <5>2
          <5>3. QED BY <5>1, <5>2
        <4> HIDE DEF least
        <4>3. QED BY <4>1, <4>2
      <3>4. ASSUME NEW w \in Waiters, next'[w] # None PROVE above[next'[w]] < above[w]
        <4>1. CASE w = o
          <5>1. next'[w] = behind /\ behind \in Waiters
            BY <3>2, <3>4, <4>1
          <5>2. /\ above[w] = rank[behind] + 1
                /\ above[behind] = rank[behind]
                /\ rank[behind] \in Nat
            BY <3>2, <4>1, <5>1
          <5>3. QED BY <5>1, <5>2
        <4>2. CASE w # o
          <5>1. next'[w] = next[w] /\ next[w] \in Waiters \ {o}
            BY <3>2, <3>4, <4>2
          <5>2. above[w] = rank[w] /\ above[next[w]] = rank[next[w]]
            BY <4>2, <5>1
          <5>3. QED BY <3>1, <3>4, <5>1, <5>2
        <4>3. QED BY <4>1, <4>2
      <3>5. QED BY <3>3, <3>4 DEF LinksSorted
    <2>4. WatchdogInv'
      BY DEF LinksInv, Listed, Leads, WatchdogInv, WaitInv
    <2>5. ASSUME NEW w \in Waiters PROVE WaitInv(w)'
      BY DEF LinksInv, Listed, Leads, WatchdogInv, WaitInv
    <2>6. QED BY <2>1, <2>2, <2>3, <2>4, <2>5
  <1>4. ASSUME NEW o \in Waiters, Signal!Arm(o) PROVE SignalInv'
    <2> USE <1>4 DEF Signal!Arm
    <2>1. SignalTypes'
      BY DEF WaitPhases
    <2>2. LinksInv'
      BY DEF LinksInv, Listed, Leads, WatchdogInv, WaitInv
    <2>3. LinksSorted'
      BY DEF LinksSorted
    <2>4. WatchdogInv'
      BY DEF LinksInv, Listed, Leads, WatchdogInv, WaitInv
    <2>5. ASSUME NEW w \in Waiters PROVE WaitInv(w)'
      BY DEF LinksInv, Listed, Leads, WatchdogInv, WaitInv
    <2>6. QED BY <2>1, <2>2, <2>3, <2>4, <2>5
  <1>5. ASSUME NEW o \in Waiters, Signal!CancelByStart(o) PROVE SignalInv'
    <2> USE <1>5 DEF Signal!CancelByStart
    <2>1. SignalTypes'
      BY DEF WaitPhases, Signal!Remove
    <2>2. LinksInv' /\ LinksSorted'
      <3>1. CASE ~Signal!Linked(o)
        BY <3>1
        DEF LinksInv, LinksSorted, Listed, Leads, WatchdogInv, WaitInv, Signal!Remove
      <3>2. CASE Signal!Linked(o)
        <4>1. /\ Listed(o) /\ Signal!Remove(o)
              /\ \A w \in Waiters : Listed(w)' <=> (Listed(w) /\ w # o)
          BY <3>2 DEF LinksInv, Listed, WaitInv, Signal!Linked, Signal!Remove
        <4>2. QED BY <4>1, WaiterIsCut
      <3>3. QED BY <3>1, <3>2
    <2>3. WatchdogInv'
      BY DEF LinksInv, Listed, Leads, WatchdogInv, WaitInv, Signal!Remove, Signal!Linked
    <2>4. ASSUME NEW w \in Waiters PROVE WaitInv(w)'
      BY DEF LinksInv, Listed, Leads, WatchdogInv, WaitInv, Signal!Remove, Signal!Linked
    <2>5. QED BY <2>1, <2>2, <2>3, <2>4
  <1>6. ASSUME NEW o \in Waiters, Signal!RequestStop(o) PROVE SignalInv'
    <2> USE <1>6 DEF Signal!RequestStop
    <2>1. SignalTypes'
      BY DEF WaitPhases
    <2>2. LinksInv'
      BY DEF LinksInv, Listed, Leads, WatchdogInv, WaitInv
    <2>3. LinksSorted'
      BY DEF LinksSorted
    <2>4. WatchdogInv'
      BY DEF LinksInv, Listed, Leads, WatchdogInv, WaitInv
    <2>5. ASSUME NEW w \in Waiters PROVE WaitInv(w)'
      BY DEF LinksInv, Listed, Leads, WatchdogInv, WaitInv
    <2>6. QED BY <2>1, <2>2, <2>3, <2>4, <2>5
  <1>7. ASSUME NEW o \in Waiters, Signal!RequestCancel(o) PROVE SignalInv'
    <2> USE <1>7 DEF Signal!RequestCancel
    <2>1. SignalTypes'
      BY DEF WaitPhases
    <2>2. LinksInv'
      BY DEF LinksInv, Listed, Leads, WatchdogInv, WaitInv
    <2>3. LinksSorted'
      BY DEF LinksSorted
    <2>4. WatchdogInv'
      BY DEF LinksInv, Listed, Leads, WatchdogInv, WaitInv
    <2>5. ASSUME NEW w \in Waiters PROVE WaitInv(w)'
      BY DEF LinksInv, Listed, Leads, WatchdogInv, WaitInv
    <2>6. QED BY <2>1, <2>2, <2>3, <2>4, <2>5
  <1>8. ASSUME NEW o \in Waiters, Signal!CancelByCallback(o) PROVE SignalInv'
    <2> USE <1>8 DEF Signal!CancelByCallback
    <2>1. SignalTypes'
      BY DEF WaitPhases, Signal!Remove
    <2>2. LinksInv' /\ LinksSorted'
      <3>1. CASE ~Signal!Linked(o)
        BY <3>1
        DEF LinksInv, LinksSorted, Listed, Leads, WatchdogInv, WaitInv, Signal!Remove
      <3>2. CASE Signal!Linked(o)
        <4>1. /\ Listed(o) /\ Signal!Remove(o)
              /\ \A w \in Waiters : Listed(w)' <=> (Listed(w) /\ w # o)
          BY <3>2 DEF LinksInv, Listed, WaitInv, Signal!Linked, Signal!Remove
        <4>2. QED BY <4>1, WaiterIsCut
      <3>3. QED BY <3>1, <3>2
    <2>3. WatchdogInv'
      BY DEF LinksInv, Listed, Leads, WatchdogInv, WaitInv, Signal!Remove, Signal!Linked
    <2>4. ASSUME NEW w \in Waiters PROVE WaitInv(w)'
      BY DEF LinksInv, Listed, Leads, WatchdogInv, WaitInv, Signal!Remove, Signal!Linked
    <2>5. QED BY <2>1, <2>2, <2>3, <2>4
  <1>9. ASSUME NEW o \in Waiters, Signal!FinishCancelled(o) PROVE SignalInv'
    <2> USE <1>9 DEF Signal!FinishCancelled, Signal!FinishOp
    <2>1. SignalTypes'
      BY DEF WaitPhases
    <2>2. LinksInv'
      BY DEF LinksInv, Listed, Leads, WatchdogInv, WaitInv
    <2>3. LinksSorted'
      BY DEF LinksSorted
    <2>4. WatchdogInv'
      BY DEF LinksInv, Listed, Leads, WatchdogInv, WaitInv
    <2>5. ASSUME NEW w \in Waiters PROVE WaitInv(w)'
      BY DEF LinksInv, Listed, Leads, WatchdogInv, WaitInv
    <2>6. QED BY <2>1, <2>2, <2>3, <2>4, <2>5
  <1>10. ASSUME NEW o \in Waiters, Signal!Deliver(o) PROVE SignalInv'
    <2> USE <1>10 DEF Signal!Deliver
    <2>1. SignalTypes'
      BY DEF WaitPhases
    <2>2. LinksInv'
      BY DEF LinksInv, Listed, Leads, WatchdogInv, WaitInv
    <2>3. LinksSorted'
      BY DEF LinksSorted
    <2>4. WatchdogInv'
      BY DEF LinksInv, Listed, Leads, WatchdogInv, WaitInv
    <2>5. ASSUME NEW w \in Waiters PROVE WaitInv(w)'
      BY DEF LinksInv, Listed, Leads, WatchdogInv, WaitInv
    <2>6. QED BY <2>1, <2>2, <2>3, <2>4, <2>5
  <1>11. ASSUME Signal!RaisePosix PROVE SignalInv'
    <2> USE <1>11 DEF Signal!RaisePosix
    <2>1. SignalTypes'
      BY DEF WaitPhases
    <2>2. LinksInv'
      BY DEF LinksInv, Listed, Leads, WatchdogInv, WaitInv
    <2>3. LinksSorted'
      BY DEF LinksSorted
    <2>4. WatchdogInv'
      BY DEF LinksInv, Listed, Leads, WatchdogInv, WaitInv
    <2>5. ASSUME NEW w \in Waiters PROVE WaitInv(w)'
      BY DEF LinksInv, Listed, Leads, WatchdogInv, WaitInv
    <2>6. QED BY <2>1, <2>2, <2>3, <2>4, <2>5
  <1>12. ASSUME Signal!RaiseWindows PROVE SignalInv'
    <2> USE <1>12 DEF Signal!RaiseWindows
    <2>1. SignalTypes'
      BY DEF WaitPhases
    <2>2. LinksInv'
      BY DEF LinksInv, Listed, Leads, WatchdogInv, WaitInv
    <2>3. LinksSorted'
      BY DEF LinksSorted
    <2>4. WatchdogInv'
      BY DEF LinksInv, Listed, Leads, WatchdogInv, WaitInv
    <2>5. ASSUME NEW w \in Waiters PROVE WaitInv(w)'
      BY DEF LinksInv, Listed, Leads, WatchdogInv, WaitInv
    <2>6. QED BY <2>1, <2>2, <2>3, <2>4, <2>5
  <1>13. ASSUME Signal!Watch PROVE SignalInv'
    <2> USE <1>13 DEF Signal!Watch
    <2>1. SignalTypes'
      BY DEF WaitPhases
    <2>2. LinksInv'
      BY DEF LinksInv, Listed, Leads, WatchdogInv, WaitInv
    <2>3. LinksSorted'
      BY DEF LinksSorted
    <2>4. WatchdogInv'
      BY DEF LinksInv, Listed, Leads, WatchdogInv, WaitInv
    <2>5. ASSUME NEW w \in Waiters PROVE WaitInv(w)'
      BY DEF LinksInv, Listed, Leads, WatchdogInv, WaitInv
    <2>6. QED BY <2>1, <2>2, <2>3, <2>4, <2>5
  <1>14. ASSUME Signal!RestoreDefault PROVE SignalInv'
    <2> USE <1>14 DEF Signal!RestoreDefault
    <2>1. SignalTypes'
      BY DEF WaitPhases
    <2>2. LinksInv'
      BY DEF LinksInv, Listed, Leads, WatchdogInv, WaitInv
    <2>3. LinksSorted'
      BY DEF LinksSorted
    <2>4. WatchdogInv'
      BY DEF LinksInv, Listed, Leads, WatchdogInv, WaitInv
    <2>5. ASSUME NEW w \in Waiters PROVE WaitInv(w)'
      BY DEF LinksInv, Listed, Leads, WatchdogInv, WaitInv
    <2>6. QED BY <2>1, <2>2, <2>3, <2>4, <2>5
  <1>15. ASSUME Signal!PopAll PROVE SignalInv'
    <2> USE <1>15 DEF Signal!PopAll, Signal!Detach
    <2>1. SignalTypes'
      BY DEF WaitPhases
    <2>2. LinksInv'
      BY DEF LinksInv, Listed, Leads, WatchdogInv, WaitInv
    <2>3. LinksSorted'
      BY DEF LinksSorted
    <2>4. WatchdogInv'
      BY DEF LinksInv, Listed, Leads, WatchdogInv, WaitInv
    <2>5. ASSUME NEW w \in Waiters PROVE WaitInv(w)'
      BY DEF LinksInv, Listed, Leads, WatchdogInv, WaitInv
    <2>6. QED BY <2>1, <2>2, <2>3, <2>4, <2>5
  <1>16. ASSUME Signal!FinishPopped PROVE SignalInv'
    <2> USE <1>16 DEF Signal!FinishPopped, Signal!FinishOp
    <2>1. SignalTypes'
      BY DEF WaitPhases
    <2>2. LinksInv'
      BY DEF LinksInv, Listed, Leads, WatchdogInv, WaitInv
    <2>3. LinksSorted'
      BY DEF LinksSorted
    <2>4. WatchdogInv'
      BY DEF LinksInv, Listed, Leads, WatchdogInv, WaitInv
    <2>5. ASSUME NEW w \in Waiters PROVE WaitInv(w)'
      BY DEF LinksInv, Listed, Leads, WatchdogInv, WaitInv
    <2>6. QED BY <2>1, <2>2, <2>3, <2>4, <2>5
  <1>17. ASSUME Signal!Walk PROVE SignalInv'
    <2> USE <1>17 DEF Signal!Walk, Signal!Detach
    <2>1. SignalTypes'
      BY DEF WaitPhases
    <2>2. LinksInv'
      BY DEF LinksInv, Listed, Leads, WatchdogInv, WaitInv
    <2>3. LinksSorted'
      BY DEF LinksSorted
    <2>4. WatchdogInv'
      BY DEF LinksInv, Listed, Leads, WatchdogInv, WaitInv
    <2>5. ASSUME NEW w \in Waiters PROVE WaitInv(w)'
      BY DEF LinksInv, Listed, Leads, WatchdogInv, WaitInv
    <2>6. QED BY <2>1, <2>2, <2>3, <2>4, <2>5
  <1>18. QED
    BY <1>0, <1>1, <1>2, <1>3, <1>4, <1>5, <1>6, <1>7, <1>8, <1>9, <1>10, <1>11, <1>12,
       <1>13, <1>14, <1>15, <1>16, <1>17
    DEF Signal!Next, Signal!Starting, Signal!Canceling, Signal!Watchdog

\* A wait that was delivered is neither listed nor in the hands of anybody.
LEMMA SafeAfterDelivery ==
    ASSUME Signal!SignalAssumption
    PROVE  SignalInv => Signal!NoUseAfterDelivery
  <1> SUFFICES ASSUME SignalInv PROVE Signal!NoUseAfterDelivery
    OBVIOUS
  <1> USE DEF Signal!SignalAssumption
  <1>1. ASSUME NEW o \in done
        PROVE  /\ o \in Waiters /\ ~Listed(o) /\ phase[o] = "completed"
               /\ starter[o] \in {"over", "deliver"} /\ callback[o] \in {"idle", "over"}
    BY DEF SignalInv, SignalTypes, WaitInv, Listed
  <1>2. ASSUME NEW o \in done PROVE o \notin {head, cursor, after}
    BY <1>1 DEF SignalInv, SignalTypes, LinksInv, Leads, WatchdogInv
  <1>3. ASSUME NEW o \in Waiters \ done, NEW w \in done PROVE w \notin {prev[o], next[o]}
    BY <1>1 DEF SignalInv, SignalTypes, LinksInv
  <1>4. QED BY <1>1, <1>2, <1>3 DEF Signal!NoUseAfterDelivery

\* Nothing in signal_wait refers to an operation whose receiver was completed:
\* not the list, not the chain pop_all() walks with the lock released, not a
\* start() or a stop callback that has still to look at it.
THEOREM SignalIsSafe ==
    ASSUME Signal!SignalAssumption
    PROVE  Signal!Spec => []Signal!NoUseAfterDelivery
  <1>1. SignalInv /\ [Signal!Next]_(Signal!vars) => SignalInv'
    BY SignalNext
  <1>2. QED BY SignalInit, <1>1, SafeAfterDelivery, PTL DEF Signal!Spec

\* What the contract calls the status of a wait.
WaitStatus(o) ==
    CASE starter[o] = "idle" -> "idle"
      [] phase[o] = "completed" -> outcomes[o]
      [] OTHER -> "started"

\* Refinement.
LEMMA SignalRefinesInit == Signal!Init => Signal!Contract!SignalInit
  BY DEF Signal!Init, Signal!Contract!SignalInit

AskedToStop == {o \in Waiters : callback[o] # "idle"}
Statuses == [o \in Waiters |-> WaitStatus(o)]

\* A step that tells the user nothing.
LEMMA SignalStutters ==
    ASSUME \A o \in Waiters : WaitStatus(o)' = WaitStatus(o),
           \A o \in Waiters : callback'[o] = "idle" <=> callback[o] = "idle",
           (raises > 0)' <=> raises > 0
    PROVE  UNCHANGED Signal!Contract!signalVars
  <1>1. Statuses' = Statuses
    BY DEF Statuses
  <1>2. AskedToStop' = AskedToStop
    BY DEF AskedToStop
  <1>3. (raises > 0)' = (raises > 0)
    OBVIOUS
  <1>4. QED BY <1>1, <1>2, <1>3 DEF Statuses, AskedToStop, WaitStatus, Signal!Contract!signalVars

\* A wait that is under way gets its outcome.
LEMMA SignalCompletes ==
    ASSUME NEW o \in Waiters, NEW r \in {"value", "stopped", "error"},
           WaitStatus(o) = "started", WaitStatus(o)' = r,
           \A w \in Waiters \ {o} : WaitStatus(w)' = WaitStatus(w),
           \A w \in Waiters : callback'[w] = "idle" <=> callback[w] = "idle",
           UNCHANGED raises,
           r = "value" => raises > 0, r = "stopped" => callback[o] # "idle"
    PROVE  Signal!Contract!SignalNext
  <1>1. /\ Statuses' = [Statuses EXCEPT ![o] = r]
        /\ Statuses[o] = "started"
        /\ AskedToStop' = AskedToStop
    BY DEF Statuses, AskedToStop
  <1>2. r = "stopped" => o \in AskedToStop
    BY DEF AskedToStop
  <1>3. (raises > 0)' = (raises > 0)
    OBVIOUS
  <1>4. Signal!Contract!Complete(o, r)
    BY <1>1, <1>2, <1>3 DEF Signal!Contract!Complete, Statuses, AskedToStop, WaitStatus
  <1>5. QED BY <1>4 DEF Signal!Contract!SignalNext

\* finish() is the step that completes a wait; stop requests and signals are the
\* user's; the steps of the list are none of the contract's business.
LEMMA SignalRefinesNext ==
    ASSUME Signal!SignalAssumption
    PROVE  SignalInv /\ [Signal!Next]_(Signal!vars)
              => [Signal!Contract!SignalNext]_(Signal!Contract!signalVars)
  <1> SUFFICES ASSUME SignalInv, [Signal!Next]_(Signal!vars)
               PROVE  Signal!Contract!SignalNext \/ UNCHANGED Signal!Contract!signalVars
    OBVIOUS
  <1> USE DEF Signal!SignalAssumption
  <1>T. SignalTypes /\ WatchdogInv /\ \A o \in Waiters : WaitInv(o)
    BY DEF SignalInv
  <1>0. CASE UNCHANGED Signal!vars
    BY <1>0, SignalStutters
    DEF Signal!vars, Signal!listVars, Signal!opVars, Signal!dogVars, WaitStatus
  <1>1. ASSUME NEW o \in Waiters, Signal!Start(o) PROVE Signal!Contract!SignalNext
    <2>1. /\ Statuses' = [Statuses EXCEPT ![o] = "started"]
          /\ Statuses[o] = "idle"
          /\ AskedToStop' = AskedToStop
      BY <1>T, <1>1 DEF Signal!Start, Statuses, WaitStatus, AskedToStop, SignalTypes, WaitInv
    <2>2. (raises > 0)' = (raises > 0)
      BY <1>1 DEF Signal!Start, Signal!dogVars
    <2>3. Signal!Contract!StartWait(o)
      BY <2>1, <2>2 DEF Signal!Contract!StartWait, Statuses, WaitStatus, AskedToStop
    <2>4. QED BY <2>3 DEF Signal!Contract!SignalNext
  <1>2. ASSUME NEW o \in Waiters, Signal!AddNothing(o) PROVE Signal!Contract!SignalNext
    <2>1. PICK r \in {"value", "error"} :
              Signal!FinishOp(o, "start", r) /\ (r = "value" => raises > 0)
      BY <1>T, <1>2 DEF Signal!AddNothing, WatchdogInv
    <2>2. /\ WaitStatus(o) = "started" /\ WaitStatus(o)' = r
          /\ \A w \in Waiters \ {o} : WaitStatus(w)' = WaitStatus(w)
          /\ UNCHANGED <<callback, raises>>
      BY <1>T, <1>2, <2>1
      DEF Signal!AddNothing, Signal!FinishOp, WaitStatus, SignalTypes, WaitInv, Signal!dogVars
    <2>3. QED BY <2>1, <2>2, SignalCompletes
  <1>3. ASSUME NEW o \in Waiters, Signal!Add(o) \/ Signal!Arm(o) \/ Signal!CancelByStart(o)
        PROVE  UNCHANGED Signal!Contract!signalVars
    <2>1. /\ \A w \in Waiters : WaitStatus(w)' = WaitStatus(w)
          /\ UNCHANGED <<callback, raises>>
      BY <1>T, <1>3
      DEF Signal!Add, Signal!Arm, Signal!CancelByStart, WaitStatus, SignalTypes, WaitInv,
          Signal!dogVars
    <2>2. QED BY <2>1, SignalStutters
  <1>4. ASSUME NEW o \in Waiters, Signal!RequestStop(o) PROVE Signal!Contract!SignalNext
    <2>1. Statuses' = Statuses /\ AskedToStop' = AskedToStop \cup {o}
      BY <1>T, <1>4 DEF Signal!RequestStop, Statuses, WaitStatus, AskedToStop, SignalTypes
    <2>2. (raises > 0)' = (raises > 0)
      BY <1>4 DEF Signal!RequestStop, Signal!dogVars
    <2>3. Signal!Contract!AskToStop(o)
      BY <2>1, <2>2 DEF Signal!Contract!AskToStop, Statuses, WaitStatus, AskedToStop
    <2>4. QED BY <2>3 DEF Signal!Contract!SignalNext
  <1>5. ASSUME NEW o \in Waiters,
               Signal!RequestCancel(o) \/ Signal!CancelByCallback(o) \/ Signal!Deliver(o)
        PROVE  UNCHANGED Signal!Contract!signalVars
    <2>1. /\ \A w \in Waiters : WaitStatus(w)' = WaitStatus(w)
          /\ \A w \in Waiters : callback'[w] = "idle" <=> callback[w] = "idle"
          /\ UNCHANGED raises
      BY <1>T, <1>5
      DEF Signal!RequestCancel, Signal!CancelByCallback, Signal!Deliver, WaitStatus,
          SignalTypes, WaitInv, Signal!dogVars
    <2>2. QED BY <2>1, SignalStutters
  <1>6. ASSUME NEW o \in Waiters, Signal!FinishCancelled(o) PROVE Signal!Contract!SignalNext
    <2>1. /\ WaitStatus(o) = "started" /\ WaitStatus(o)' = "stopped"
          /\ \A w \in Waiters \ {o} : WaitStatus(w)' = WaitStatus(w)
          /\ \A w \in Waiters : callback'[w] = "idle" <=> callback[w] = "idle"
          /\ callback[o] # "idle"
          /\ UNCHANGED raises
      BY <1>T, <1>6
      DEF Signal!FinishCancelled, Signal!FinishOp, WaitStatus, SignalTypes, WaitInv,
          Signal!dogVars
    <2>2. QED BY <2>1, SignalCompletes
  <1>7. ASSUME Signal!RaisePosix \/ Signal!RaiseWindows PROVE Signal!Contract!SignalNext
    <2>1. UNCHANGED <<Statuses, AskedToStop>> /\ (raises > 0)' = TRUE
      BY <1>T, <1>7
      DEF Signal!RaisePosix, Signal!RaiseWindows, Statuses, WaitStatus, AskedToStop,
          SignalTypes, Signal!opVars
    <2>2. Signal!Contract!Raise
      BY <2>1 DEF Signal!Contract!Raise, Statuses, WaitStatus, AskedToStop
    <2>3. QED BY <2>2 DEF Signal!Contract!SignalNext
  <1>8. ASSUME Signal!Watch \/ Signal!RestoreDefault \/ Signal!PopAll \/ Signal!Walk
        PROVE  UNCHANGED Signal!Contract!signalVars
    BY <1>8, SignalStutters
    DEF Signal!Watch, Signal!RestoreDefault, Signal!PopAll, Signal!Walk, WaitStatus,
        Signal!opVars
  <1>9. ASSUME Signal!FinishPopped PROVE Signal!Contract!SignalNext
    <2>1. PICK o \in Waiters : o = cursor
      BY <1>T, <1>9 DEF Signal!FinishPopped, WatchdogInv
    <2>2. /\ WaitStatus(o) = "started" /\ WaitStatus(o)' = "value"
          /\ \A w \in Waiters \ {o} : WaitStatus(w)' = WaitStatus(w)
          /\ UNCHANGED <<callback, raises>> /\ raises > 0
      BY <1>T, <1>9, <2>1
      DEF Signal!FinishPopped, Signal!FinishOp, WaitStatus, SignalTypes, WatchdogInv
    <2>3. QED BY <2>2, SignalCompletes
  <1>10. QED
    BY <1>0, <1>1, <1>2, <1>3, <1>4, <1>5, <1>6, <1>7, <1>8, <1>9
    DEF Signal!Next, Signal!Starting, Signal!Canceling, Signal!Watchdog

\* signal_wait implements the contract of waiting for a signal: every wait
\* completes once, with the signal only after it was raised, as stopped only when
\* it was asked to, however finish(), the deferred stop request and the walk of
\* the watchdog interleave.
THEOREM SignalImplements ==
    ASSUME Signal!SignalAssumption
    PROVE  Signal!Spec => Signal!ImplementsSignal
  <1>1. SignalInv /\ [Signal!Next]_(Signal!vars) => SignalInv'
    BY SignalNext
  <1>2. QED BY SignalInit, <1>1, SignalRefinesInit, SignalRefinesNext, PTL
        DEF Signal!Spec, Signal!ImplementsSignal, Signal!Contract!SignalSpec

\* What is checked of the two for a few operations holds for any number: neither
\* component loses an event it is told of, or tells an operation of one twice.
THEOREM EventsAreAnswered ==
    ASSUME Signal!SignalAssumption, Terminal = FALSE
    PROVE  Spec /\ Signal!Spec => ContractsAreKept
  <1>1. Spec => [](TypeOK /\ SlotsAgree /\ EdgeNotLost)
    BY TypeCorrect, SlotsAreKept, EdgesAreKept, PTL
  <1>2. QED
    BY <1>1, Implements, SignalIsSafe, SignalImplements, PTL DEF ContractsAreKept

(***************************************************************************)
(* IoBackends                                                              *)
(*                                                                         *)
(* BackendsInv relates what each of the contexts has answered to what the  *)
(* system has decided (Truth): answers that are true agree.                *)
(***************************************************************************)

\* What the system's word, once it is known, may be told as.
Truth ==
    IF ~ioObject.open THEN {"error"}
    ELSE (IF empty THEN {"none moved"} ELSE {}) \cup
         (CASE known = "failed" -> {"error"}
            [] known = "canceled" -> {"stopped"}
            [] known = "moved" -> {"value"}
            [] known = "zero" /\ empty -> {"none moved"}
            [] known = "zero" /\ ~empty ->
                  IF \/ kind \in {"read_some", "read_some_at"}
                     \/ kind = "receive" /\ ioObject.stream
                  THEN {"eof"} ELSE {"none moved"}
            [] OTHER -> {})

\* An answer tells the truth, or it is not there yet.
BackendsInv ==
    /\ ioObject \in Backends!Objects /\ empty \in BOOLEAN
    /\ kind \in Backends!Calls \cup {"none"}
    /\ known \in {"none", "failed", "canceled", "zero", "moved"}
    /\ answers \in [Backends!Backends -> Backends!Answers \cup {"none", "pending"}]
    /\ accepted \in {"none", "open", "closed"}
    /\ kind = "none" => known = "none" /\ \A b \in Backends!Backends : answers[b] = "none"
    /\ empty => kind \in Backends!Reading \cup Backends!Writing /\ known # "moved"
    /\ known = "zero" => empty \/ kind \in Backends!Reading
    /\ \A b \in Backends!Backends : answers[b] \in {"none", "pending"} \cup Truth
    /\ \A b \in Backends!Backends : answers[b] = "pending" => ioObject.open /\ Backends!Supports(b)
    /\ accepted # "none" => kind = "accept"
    /\ accepted = "open" => answers["iocp"] \in {"pending", "value"}
    /\ kind = "accept" /\ answers["iocp"] \in {"pending", "value"} => accepted = "open"

\* Nobody has asked, and nobody was told.
LEMMA BackendsInit == Backends!Init => BackendsInv
  <1> SUFFICES ASSUME Backends!Init PROVE BackendsInv
    OBVIOUS
  <1>1. PICK o \in Backends!Objects : Backends!StartOf(o)
    BY DEF Backends!Init
  <1>2. answers \in [Backends!Backends -> Backends!Answers \cup {"none", "pending"}]
    BY <1>1 DEF Backends!StartOf
  <1>3. \A b \in Backends!Backends : answers[b] = "none"
    BY <1>1 DEF Backends!StartOf
  <1>4. QED
    BY <1>1, <1>2, <1>3 DEF Backends!StartOf, Backends!Backends, BackendsInv

\* An answer that the receiver may get, or that it has still to wait.
Tells(a) ==
    /\ a \in Truth \cup {"pending"} /\ a \in Backends!Answers \cup {"pending"}
    /\ a = "pending" => ioObject.open

LEMMA EpollTells ==
    ASSUME BackendsInv, Backends!Supports("epoll"), NEW word \in {"none", known}, word # "canceled"
    PROVE  Tells(Backends!EpollAnswer(Backends!EpollOperation(ioObject, kind, empty), word))
  <1> DEFINE r == Backends!EpollOperation(ioObject, kind, empty)
  <1>1. /\ r.kind = kind /\ r.open = ioObject.open /\ r.empty = empty
        /\ r.stream = (kind = "receive" /\ ioObject.stream)
    BY DEF Backends!EpollOperation, Backends!Operation
  <1>2. /\ kind \in Backends!EpollCalls /\ ioObject.open \in BOOLEAN /\ ioObject.stream \in BOOLEAN /\ empty \in BOOLEAN
        /\ known \in {"none", "failed", "canceled", "zero", "moved"}
        /\ empty => kind \in Backends!Reading \cup Backends!Writing /\ known # "moved"
        /\ known = "zero" => empty \/ kind \in Backends!Reading
    BY DEF BackendsInv, Backends!Objects, Backends!Supports
  <1> HIDE DEF r
  <1> USE DEF Tells, Truth, Backends!Answers, Backends!WithHandle, Backends!Unless, Backends!Reported, Backends!EpollAnswer, Backends!Reading, Backends!Writing
  <1>3. kind = "read_some" => Tells(Backends!EpollAnswer(r, word))
    BY <1>1, <1>2 DEF Backends!EpollReadSome
  <1>4. kind = "write_some" => Tells(Backends!EpollAnswer(r, word))
    BY <1>1, <1>2 DEF Backends!EpollWriteSome
  <1>5. kind = "receive" => Tells(Backends!EpollAnswer(r, word))
    BY <1>1, <1>2 DEF Backends!EpollReceive
  <1>6. kind = "send" => Tells(Backends!EpollAnswer(r, word))
    BY <1>1, <1>2 DEF Backends!EpollSend
  <1>7. kind = "receive_from" => Tells(Backends!EpollAnswer(r, word))
    BY <1>1, <1>2 DEF Backends!EpollReceiveFrom
  <1>8. kind = "send_to" => Tells(Backends!EpollAnswer(r, word))
    BY <1>1, <1>2 DEF Backends!EpollSendTo
  <1>9. kind = "accept" => Tells(Backends!EpollAnswer(r, word))
    BY <1>1, <1>2 DEF Backends!EpollAccept
  <1>10. kind = "connect" => Tells(Backends!EpollAnswer(r, word))
    BY <1>1, <1>2 DEF Backends!EpollConnect
  <1>11. QED
    BY <1>2, <1>3, <1>4, <1>5, <1>6, <1>7, <1>8, <1>9, <1>10 DEF Backends!EpollCalls, Backends!Calls, r

LEMMA UringTells ==
    ASSUME BackendsInv, Backends!Supports("uring"), NEW word \in {"none", known}
    PROVE  Tells(Backends!UringAnswer(Backends!UringOperation(ioObject, kind, empty), word))
  <1> DEFINE r == Backends!UringOperation(ioObject, kind, empty)
  <1>1. /\ r.kind = kind /\ r.open = ioObject.open /\ r.empty = empty
        /\ r.stream = (kind = "receive" /\ ioObject.stream)
    BY DEF Backends!UringOperation, Backends!Operation
  <1>2. /\ kind \in Backends!Calls /\ ioObject.open \in BOOLEAN /\ ioObject.stream \in BOOLEAN /\ empty \in BOOLEAN
        /\ known \in {"none", "failed", "canceled", "zero", "moved"}
        /\ empty => kind \in Backends!Reading \cup Backends!Writing /\ known # "moved"
        /\ known = "zero" => empty \/ kind \in Backends!Reading
    BY DEF BackendsInv, Backends!Objects, Backends!Supports, Backends!UringCalls
  <1> HIDE DEF r
  <1>3. \/ ~ioObject.open /\ Backends!UringAnswer(r, word) = "error"
        \/ /\ ioObject.open /\ kind = "receive" /\ ioObject.stream /\ empty
           /\ Backends!UringAnswer(r, word) = "none moved"
        \/ /\ ioObject.open /\ ~(kind = "receive" /\ ioObject.stream /\ empty)
           /\ Backends!UringAnswer(r, word) =
                CASE kind = "read_some" -> Backends!UringReadSome(r, word)
                  [] kind = "read_some_at" -> Backends!UringReadSomeAt(r, word)
                  [] kind = "receive" -> Backends!UringReceive(r, word)
                  [] kind = "receive_from" -> Backends!UringReceiveFrom(r, word)
                  [] OTHER -> Backends!UringCompletes(word)
    <2>1. CASE ~ioObject.open
      <3>1. Backends!UringStarts(r, r.kind = "receive" /\ r.stream /\ r.empty) = "error"
        BY <1>1, <1>2, <2>1 DEF Backends!UringStarts, Backends!WithHandle
      <3>2. QED BY <2>1, <3>1 DEF Backends!UringAnswer
    <2>2. CASE ioObject.open /\ kind = "receive" /\ ioObject.stream /\ empty
      <3>1. Backends!UringStarts(r, r.kind = "receive" /\ r.stream /\ r.empty) = "none moved"
        BY <1>1, <1>2, <2>2 DEF Backends!UringStarts, Backends!WithHandle, Backends!Unless
      <3>2. QED BY <2>2, <3>1 DEF Backends!UringAnswer
    <2>3. CASE ioObject.open /\ ~(kind = "receive" /\ ioObject.stream /\ empty)
      <3>1. Backends!UringStarts(r, r.kind = "receive" /\ r.stream /\ r.empty) = "pending"
        BY <1>1, <1>2, <2>3 DEF Backends!UringStarts, Backends!WithHandle, Backends!Unless
      <3>2. QED BY <1>1, <2>3, <3>1 DEF Backends!UringAnswer
    <2>4. QED BY <2>1, <2>2, <2>3
  <1> USE DEF Tells, Truth, Backends!Answers, Backends!Reported, Backends!Reading, Backends!Writing
  <1>4. kind = "read_some" => Tells(Backends!UringAnswer(r, word))
    BY <1>1, <1>2, <1>3 DEF Backends!UringReadSome
  <1>5. kind = "read_some_at" => Tells(Backends!UringAnswer(r, word))
    BY <1>1, <1>2, <1>3 DEF Backends!UringReadSomeAt
  <1>6. kind = "receive" => Tells(Backends!UringAnswer(r, word))
    BY <1>1, <1>2, <1>3 DEF Backends!UringReceive
  <1>7. kind = "receive_from" => Tells(Backends!UringAnswer(r, word))
    BY <1>1, <1>2, <1>3 DEF Backends!UringReceiveFrom
  <1>8. kind \in Backends!Writing \cup {"accept", "connect"} => Tells(Backends!UringAnswer(r, word))
    BY <1>1, <1>2, <1>3 DEF Backends!UringCompletes
  <1>9. QED
    BY <1>2, <1>4, <1>5, <1>6, <1>7, <1>8 DEF Backends!Calls, r

LEMMA IocpTells ==
    ASSUME BackendsInv, Backends!Supports("iocp"), NEW word \in {"none"} \cup Backends!WindowsResults
    PROVE  Tells(Backends!IocpAnswer(Backends!IocpOperation(ioObject, kind, empty), word))
  <1> DEFINE r == Backends!IocpOperation(ioObject, kind, empty)
  <1>1. /\ r.kind = Backends!IocpInitiates(kind) /\ r.open = ioObject.open /\ r.empty = empty
        /\ r.stream = (kind \in {"receive", "send"} /\ ioObject.stream)
    BY DEF Backends!IocpOperation, Backends!Operation
  <1>2. /\ kind \in Backends!Calls /\ ioObject.open \in BOOLEAN /\ ioObject.stream \in BOOLEAN /\ empty \in BOOLEAN
        /\ known \in {"none", "failed", "canceled", "zero", "moved"}
        /\ empty => kind \in Backends!Reading \cup Backends!Writing /\ known # "moved"
        /\ known = "zero" => empty \/ kind \in Backends!Reading
    BY DEF BackendsInv, Backends!Objects, Backends!Supports, Backends!IocpCalls
  <1>A. \/ word \in {"none", known}
        \/ word = "handle_eof" /\ known = "zero" /\ kind \in {"read_some", "read_some_at"} /\ ~empty
    BY DEF Backends!WindowsResults
  <1> HIDE DEF r
  <1> USE DEF Tells, Truth, Backends!Answers, Backends!WithHandle, Backends!Unless, Backends!Reported, Backends!IocpAnswer, Backends!IocpInitiates, Backends!Reading, Backends!Writing
  <1>3. kind \in {"read_some", "read_some_at"} => Tells(Backends!IocpAnswer(r, word))
    BY <1>A, <1>1, <1>2 DEF Backends!IocpReadSomeAt
  <1>4. kind \in {"write_some", "write_some_at"} => Tells(Backends!IocpAnswer(r, word))
    BY <1>A, <1>1, <1>2 DEF Backends!IocpWriteSomeAt
  <1>5. kind = "receive" => Tells(Backends!IocpAnswer(r, word))
    BY <1>A, <1>1, <1>2 DEF Backends!IocpReceive
  <1>6. kind = "send" => Tells(Backends!IocpAnswer(r, word))
    BY <1>A, <1>1, <1>2 DEF Backends!IocpSend
  <1>7. kind = "receive_from" => Tells(Backends!IocpAnswer(r, word))
    BY <1>A, <1>1, <1>2 DEF Backends!IocpReceiveFrom
  <1>8. kind = "send_to" => Tells(Backends!IocpAnswer(r, word))
    BY <1>A, <1>1, <1>2 DEF Backends!IocpSendTo
  <1>9. kind = "accept" => Tells(Backends!IocpAnswer(r, word))
    BY <1>A, <1>1, <1>2 DEF Backends!IocpAccept
  <1>10. kind = "connect" => Tells(Backends!IocpAnswer(r, word))
    BY <1>A, <1>1, <1>2 DEF Backends!IocpConnect
  <1>11. QED
    BY <1>2, <1>3, <1>4, <1>5, <1>6, <1>7, <1>8, <1>9, <1>10 DEF Backends!Calls, r

\* For accept, success and nothing else keeps the socket.
LEMMA IocpAccepts ==
    ASSUME BackendsInv, Backends!Supports("iocp"), kind = "accept", ioObject.open,
           NEW word \in {"none", known}
    PROVE  LET a == Backends!IocpAnswer(Backends!IocpOperation(ioObject, kind, empty), word)
           IN  /\ a = "pending" <=> word = "none"
               /\ a = "value" <=> word = "moved"
  BY DEF BackendsInv, Backends!IocpAnswer, Backends!IocpOperation, Backends!IocpInitiates, Backends!Operation, Backends!IocpAccept,
         Backends!WithHandle, Backends!Reported

LEMMA BackendsNext == BackendsInv /\ [Backends!Next]_(Backends!vars) => BackendsInv'
  <1> SUFFICES ASSUME BackendsInv, [Backends!Next]_(Backends!vars) PROVE BackendsInv'
    OBVIOUS
  <1>0. CASE UNCHANGED (Backends!vars)
    BY <1>0 DEF Backends!vars, BackendsInv, Truth, Backends!Supports
  <1>1. CASE Backends!Call
    <2>1. \A b \in Backends!Backends : answers'[b] = "none"
      BY <1>1 DEF Backends!Call, BackendsInv
    <2>2. kind' \in Backends!Calls /\ empty' \in BOOLEAN /\ (empty' => kind' \in Backends!Reading \cup Backends!Writing)
      BY <1>1 DEF Backends!Call
    <2>3. UNCHANGED <<ioObject, known, answers, accepted>> /\ known = "none" /\ accepted = "none"
      BY <1>1 DEF Backends!Call, BackendsInv, Backends!Calls, Backends!Reading, Backends!Writing
    <2>4. QED BY <2>1, <2>2, <2>3 DEF BackendsInv, Backends!Backends
  <1>2. CASE Backends!Decide
    <2>1. /\ known' \in {"failed", "canceled", "zero", "moved"}
          /\ empty => known' # "moved"
          /\ known' = "zero" => empty \/ kind \in Backends!Reading
          /\ UNCHANGED <<ioObject, kind, empty, answers, accepted>> /\ kind # "none" /\ known = "none"
      BY <1>2 DEF Backends!Decide, BackendsInv
    <2>2. Truth \subseteq Truth'
      BY <2>1 DEF Truth
    <2>3. \A b \in Backends!Backends : Backends!Supports(b)' = Backends!Supports(b)
      BY <2>1 DEF Backends!Supports
    <2>4. QED BY <2>1, <2>2, <2>3 DEF BackendsInv
  <1>B. ASSUME NEW b \in Backends!Backends, Backends!Supports(b) PROVE kind # "none"
    BY <1>B DEF Backends!Supports, Backends!EpollCalls, Backends!UringCalls, Backends!IocpCalls, Backends!Calls, Backends!Reading, Backends!Writing, Backends!Backends
  <1>A. ASSUME NEW b \in Backends!Backends \ {"iocp"}, NEW a, Backends!Answer(b, a), Tells(a),
               UNCHANGED <<ioObject, kind, empty, known, accepted>>, Backends!Supports(b)
        PROVE  BackendsInv'
    <2>1. kind # "none"
      BY <1>A, <1>B
    <2>2. \A c \in Backends!Backends : Backends!Supports(c)' = Backends!Supports(c)
      BY <1>A DEF Backends!Supports
    <2>3. Truth' = Truth
      BY <1>A DEF Truth
    <2>4. answers \in [Backends!Backends -> Backends!Answers \cup {"none", "pending"}]
      BY DEF BackendsInv
    <2>5. /\ answers' \in [Backends!Backends -> Backends!Answers \cup {"none", "pending"}]
          /\ \A c \in Backends!Backends : answers'[c] = IF c = b THEN a ELSE answers[c]
          /\ answers'["iocp"] = answers["iocp"]
      BY <1>A, <2>4 DEF Backends!Answer, Tells, Backends!Backends
    <2>6. /\ \A c \in Backends!Backends : answers'[c] \in {"none", "pending"} \cup Truth
          /\ \A c \in Backends!Backends : answers'[c] = "pending" => ioObject.open /\ Backends!Supports(c)
      BY <1>A, <2>5 DEF Tells, BackendsInv
    <2>7. QED BY <1>A, <2>1, <2>2, <2>3, <2>5, <2>6 DEF BackendsInv
  <1>3. CASE Backends!EpollStart
    BY <1>3, <1>A, <1>B, EpollTells DEF Backends!EpollStart, Backends!Backends
  <1>C. ASSUME NEW b \in Backends!Backends, answers[b] = "pending" PROVE kind # "none" /\ ioObject.open
    BY <1>C DEF BackendsInv
  <1>4. CASE Backends!EpollFinish
    <2>1. CASE known = "canceled"
      <3>1. Tells("stopped")
        BY <1>4, <1>C, <2>1 DEF Backends!EpollFinish, Tells, Truth, Backends!Answers, Backends!Backends
      <3>2. Backends!Supports("epoll") /\ "epoll" \in Backends!Backends \ {"iocp"}
        BY <1>4 DEF Backends!EpollFinish, BackendsInv, Backends!Backends
      <3>3. Backends!Answer("epoll", "stopped") /\ UNCHANGED <<ioObject, kind, empty, known, accepted>>
        BY <1>4, <2>1 DEF Backends!EpollFinish
      <3>4. QED BY <1>A, <3>1, <3>2, <3>3
    <2>2. CASE known # "canceled"
      <3>1. Backends!Supports("epoll")
        BY <1>4 DEF Backends!EpollFinish, BackendsInv, Backends!Backends
      <3>2. QED BY <1>4, <1>A, <1>C, <2>2, <3>1, EpollTells DEF Backends!EpollFinish, Backends!Backends
    <2>3. QED BY <2>1, <2>2
  <1>5. CASE Backends!UringStart
    BY <1>5, <1>A, <1>B, UringTells DEF Backends!UringStart, Backends!Backends
  <1>6. CASE Backends!UringFinish
    <2>1. Backends!Supports("uring")
      BY <1>6, <1>C DEF Backends!UringFinish, BackendsInv, Backends!Supports, Backends!UringCalls, Backends!Backends
    <2>2. QED BY <1>6, <1>A, <1>B, <2>1, UringTells DEF Backends!UringFinish, Backends!Backends
  <1>E. ASSUME NEW a, Backends!Answer("iocp", a), Tells(a), Backends!Supports("iocp"),
               UNCHANGED <<ioObject, kind, empty, known>>,
               accepted' \in {"none", "open", "closed"},
               accepted' # "none" => kind = "accept",
               accepted' = "open" => a \in {"pending", "value"},
               kind = "accept" /\ a \in {"pending", "value"} => accepted' = "open"
        PROVE  BackendsInv'
    <2>1. kind # "none"
      BY <1>E, <1>B DEF Backends!Backends
    <2>2. \A c \in Backends!Backends : Backends!Supports(c)' = Backends!Supports(c)
      BY <1>E DEF Backends!Supports
    <2>3. Truth' = Truth
      BY <1>E DEF Truth
    <2>4. answers \in [Backends!Backends -> Backends!Answers \cup {"none", "pending"}]
      BY DEF BackendsInv
    <2>5. /\ answers' \in [Backends!Backends -> Backends!Answers \cup {"none", "pending"}]
          /\ \A c \in Backends!Backends : answers'[c] = IF c = "iocp" THEN a ELSE answers[c]
          /\ answers'["iocp"] = a
      BY <1>E, <2>4 DEF Backends!Answer, Tells, Backends!Backends
    <2>6. /\ \A c \in Backends!Backends : answers'[c] \in {"none", "pending"} \cup Truth
          /\ \A c \in Backends!Backends : answers'[c] = "pending" => ioObject.open /\ Backends!Supports(c)
      BY <1>E, <2>5 DEF Tells, BackendsInv
    <2>7. QED BY <1>E, <2>1, <2>2, <2>3, <2>5, <2>6 DEF BackendsInv
  <1>7. CASE Backends!IocpStart
    <2> DEFINE a == Backends!IocpAnswer(Backends!IocpOperation(ioObject, kind, empty), "none")
    <2>0. Backends!Supports("iocp") /\ Tells(a) /\ answers["iocp"] = "none"
      BY <1>7, IocpTells DEF Backends!IocpStart
    <2>1. kind = "accept" => a \in {"pending", "error"}
      BY <2>0, IocpAccepts DEF BackendsInv, Tells, Truth
    <2>2. accepted \in {"none", "closed"} /\ (accepted # "none" => kind = "accept")
      BY <2>0 DEF BackendsInv
    <2>3. \/ /\ Backends!Answer("iocp", a)
             /\ accepted' = IF a = "pending" /\ kind = "accept" THEN "open" ELSE accepted
          \/ a = "pending" /\ known = "failed" /\ Backends!Answer("iocp", "error") /\ UNCHANGED accepted
      BY <1>7 DEF Backends!IocpStart
    <2>4. UNCHANGED <<ioObject, kind, empty, known>>
      BY <1>7 DEF Backends!IocpStart
    <2> HIDE DEF a
    <2>5. CASE Backends!Answer("iocp", a) /\ accepted' = IF a = "pending" /\ kind = "accept" THEN "open" ELSE accepted
      BY <1>E, <2>0, <2>1, <2>2, <2>4, <2>5
    <2>6. CASE a = "pending" /\ known = "failed" /\ Backends!Answer("iocp", "error") /\ UNCHANGED accepted
      <3>1. Tells("error")
        BY <2>6 DEF Tells, Truth, Backends!Answers
      <3>2. QED BY <1>E, <2>0, <2>2, <2>4, <2>6, <3>1
    <2>7. QED BY <2>3, <2>5, <2>6
  <1>8. CASE Backends!IocpFinish
    <2>1. PICK word \in Backends!WindowsResults : Backends!IocpReports(word)
      BY <1>8 DEF Backends!IocpFinish
    <2> DEFINE a == Backends!IocpAnswer(Backends!IocpOperation(ioObject, kind, empty), word)
    <2>2. answers["iocp"] = "pending" /\ known # "none" /\ Backends!Supports("iocp") /\ ioObject.open
      BY <1>8 DEF Backends!IocpFinish, BackendsInv, Backends!Backends
    <2>3. Tells(a)
      BY <2>2, IocpTells
    <2>4. kind = "accept" => word = known /\ accepted = "open" /\ (a = "value" <=> word = "moved") /\ a # "pending"
      BY <2>2, IocpAccepts DEF Backends!WindowsResults, BackendsInv
    <2>5. kind # "accept" => accepted = "none"
      BY DEF BackendsInv
    <2>6. /\ Backends!Answer("iocp", a)
          /\ accepted' = IF accepted = "open" /\ word # "moved" THEN "closed" ELSE accepted
          /\ UNCHANGED <<ioObject, kind, empty, known>>
      BY <2>1 DEF Backends!IocpReports
    <2> HIDE DEF a
    <2>7. accepted \in {"none", "open", "closed"}
      BY DEF BackendsInv
    <2>8. QED BY <1>E, <2>2, <2>3, <2>4, <2>5, <2>6, <2>7
  <1>9. QED BY <1>0, <1>1, <1>2, <1>3, <1>4, <1>5, <1>6, <1>7, <1>8 DEF Backends!Next

\* Two contexts that answer a call answer it alike, whatever they try at once and
\* what they leave to the system, and the socket that iocp_context makes for a
\* connection is the receiver's or is closed.
THEOREM ContextsAnswer == Backends!Spec => [](Backends!BackendsAgree /\ Backends!SocketIsOwned)
  <1>1. BackendsInv => Backends!BackendsAgree /\ Backends!SocketIsOwned
    <2> SUFFICES ASSUME BackendsInv PROVE Backends!BackendsAgree /\ Backends!SocketIsOwned
      OBVIOUS
    <2>1. Backends!SocketIsOwned
      BY DEF BackendsInv, Backends!SocketIsOwned
    <2>2. ASSUME NEW b \in Backends!Backends, NEW c \in Backends!Backends, {answers[b], answers[c]} \subseteq Backends!Answers
          PROVE  \/ answers[b] = answers[c]
                 \/ ioObject.open /\ empty /\ "none moved" \in {answers[b], answers[c]}
      <3>1. answers[b] \in Truth /\ answers[c] \in Truth
        BY <2>2 DEF BackendsInv, Backends!Answers
      <3>2. /\ ioObject.open \in BOOLEAN /\ empty \in BOOLEAN
            /\ known \in {"none", "failed", "canceled", "zero", "moved"}
        BY DEF BackendsInv, Backends!Objects
      <3>3. QED BY <3>1, <3>2 DEF Truth
    <2>3. QED BY <2>1, <2>2 DEF Backends!BackendsAgree
  <1>2. QED BY BackendsInit, BackendsNext, <1>1, PTL DEF Backends!Spec

(***************************************************************************)
(* StreamFile                                                              *)
(*                                                                         *)
(* FileInv adds to the agreement of the platforms that, in append mode,    *)
(* offset_ is at the end of the file: the next write is there on POSIX.    *)
(***************************************************************************)

\* What a file may consist of.
Contents == Seq(Bytes \cup {File!Hole})

FileTypes ==
    /\ disk \in [File!Platforms -> Contents \cup {File!Absent}]
    /\ mode \in File!Modes \cup {{"closed"}}
    /\ handles \in [File!Platforms -> Nat]
    /\ position \in Nat /\ pointer \in Nat /\ fileOffset \in Nat
    /\ excused \in BOOLEAN

\* The two files, handles and results are the same; and offset_, which Windows
\* appends at, is the end of the file.
FileInv ==
    /\ FileTypes
    /\ File!PlatformsAgree
    /\ File!IsOpen => disk["posix"] # File!Absent
    /\ File!IsOpen /\ "append" \in mode /\ ~excused => fileOffset = Len(disk["windows"])

LEMMA NotAbsent ==
    ASSUME File!FileAssumption
    PROVE  File!Absent \notin Contents
  BY DEF File!Absent, Contents, File!FileAssumption, File!Hole

LEMMA ResizedIs ==
    ASSUME NEW s \in Contents, NEW n \in Nat PROVE File!Resized(s, n) \in Contents
  BY DEF File!Resized, Contents

LEMMA OverwrittenIs ==
    ASSUME NEW s \in Contents, NEW at \in Nat, NEW n \in Nat, NEW byte \in Bytes
    PROVE  /\ File!Overwritten(s, at, n, byte) \in Contents
           /\ Len(File!Overwritten(s, at, n, byte)) = IF at + n > Len(s) THEN at + n ELSE Len(s)
  <1>1. Len(s) \in Nat
    BY DEF Contents
  <1> DEFINE m == IF at + n > Len(s) THEN at + n ELSE Len(s)
  <1>2. m \in Nat
    BY <1>1
  <1>3. File!Overwritten(s, at, n, byte) \in [1..m -> Bytes \cup {File!Hole}]
    BY <1>1 DEF File!Overwritten, Contents
  <1>4. QED BY <1>2, <1>3 DEF Contents

LEMMA FoundIs ==
    ASSUME NEW s \in Contents, NEW at \in Nat, NEW n \in Nat
    PROVE  /\ File!Found(s, at, n) \in Contents
           /\ Len(File!Found(s, at, n)) \in 0..n
  BY DEF File!Found, Contents, File!Smaller

\* Both platforms open the same files, with the same contents; a file that is
\* opened for appending starts at its end on Windows.
LEMMA OpensAgree ==
    ASSUME NEW s \in Contents \cup {File!Absent}, NEW m \in File!Modes
    PROVE  /\ File!PosixOpens(s, m) <=> File!WindowsOpens(s, m)
           /\ File!PosixOpens(s, m) => /\ File!PosixContents(s, m) \in Contents
                                       /\ File!WindowsContents(s, m) = File!PosixContents(s, m)
           /\ File!PosixOpens(s, m) => File!WindowsPointer(s, m) \in Nat
           /\ File!PosixOpens(s, m) /\ "append" \in m => File!WindowsPointer(s, m) = Len(File!WindowsContents(s, m))
           /\ File!PosixOpens(s, m) /\ "append" \notin m => File!WindowsPointer(s, m) = 0
  <1>1. <<>> \in Contents /\ Len(<<>>) = 0 /\ (s \in Contents => Len(s) \in Nat)
    BY DEF Contents
  <1>2. "exclusive" \in m => "create" \in m
    BY DEF File!Modes
  <1>3. /\ File!PosixOpens(s, m) <=> File!WindowsOpens(s, m)
        /\ File!PosixOpens(s, m) => /\ File!PosixContents(s, m) \in Contents
                                    /\ File!WindowsContents(s, m) = File!PosixContents(s, m)
    BY <1>1, <1>2 DEF File!PosixOpens, File!WindowsOpens, File!PosixContents, File!WindowsContents, File!Disposition
  <1>4. File!PosixOpens(s, m) => Len(File!WindowsContents(s, m)) \in Nat
    BY <1>1, <1>3 DEF Contents
  <1>5. File!PosixOpens(s, m) /\ File!Disposition(m) \notin {"OPEN_ALWAYS", "OPEN_EXISTING"}
           => File!WindowsContents(s, m) = <<>>
    BY <1>1, <1>2 DEF File!PosixOpens, File!WindowsContents, File!Disposition
  <1>6. QED BY <1>1, <1>3, <1>4, <1>5 DEF File!WindowsPointer

LEMMA FileInit == File!Init => FileInv
  <1> SUFFICES ASSUME File!Init PROVE FileInv
    OBVIOUS
  <1>1. PICK there \in {File!Absent, <<>>} \cup {<<b>> : b \in Bytes} : File!StartOf(there)
    BY DEF File!Init
  <1>2. there \in Contents \cup {File!Absent}
    <2>1. ASSUME NEW b \in Bytes PROVE <<b>> \in Contents
      BY DEF Contents
    <2>2. <<>> \in Contents
      BY DEF Contents
    <2>3. QED BY <1>1, <2>1, <2>2
  <1>3. QED
    BY <1>1, <1>2 DEF File!StartOf, FileInv, FileTypes, File!PlatformsAgree, File!Both, File!IsOpen, File!Platforms

LEMMA FileNext ==
    ASSUME File!FileAssumption
    PROVE  FileInv /\ [File!Next]_(File!vars) => FileInv'
  <1> SUFFICES ASSUME FileInv, [File!Next]_(File!vars) PROVE FileInv'
    OBVIOUS
  <1> DEFINE s == disk["posix"]
  <1> USE NotAbsent DEF File!FileAssumption, File!IsOpen, File!Platforms, File!Both, File!places
  <1>0. CASE UNCHANGED (File!vars)
    BY <1>0 DEF File!vars, FileInv, FileTypes, File!PlatformsAgree
  <1>A. /\ disk \in [File!Platforms -> Contents \cup {File!Absent}]
        /\ s \in Contents \cup {File!Absent} /\ disk["windows"] = s
        /\ File!IsOpen => s \in Contents /\ Len(s) \in Nat
        /\ position \in Nat /\ pointer \in Nat /\ fileOffset \in Nat
        /\ mode \in File!Modes \cup {{"closed"}}
        /\ handles \in [File!Platforms -> Nat]
        /\ \A b \in File!Platforms : handles[b] = IF File!IsOpen THEN 1 ELSE 0
        /\ ~excused => /\ "append" \notin mode => position = fileOffset
                       /\ File!IsOpen /\ "append" \in mode => fileOffset = Len(s)
    BY DEF FileInv, FileTypes, File!PlatformsAgree, Contents
  <1>B. \A m \in File!Modes : m # {"closed"}
    BY DEF File!Modes, File!Flags
  <1>C. /\ File!PosixWritesAt \in Nat
        /\ File!IsOpen /\ ~excused => File!PosixWritesAt = fileOffset
    BY <1>A DEF File!PosixWritesAt, Contents
  <1>1. ASSUME NEW m \in File!Modes, File!Open(m), ~excused PROVE FileInv'
    <2>1. PICK associated \in BOOLEAN :
            LET can == File!Both(File!PosixOpens(s, m), File!WindowsOpens(s, m))
            IN  /\ disk' = [b \in File!Platforms |->
                              IF ~can[b] THEN s
                              ELSE IF b = "posix" THEN File!PosixContents(s, m)
                              ELSE File!WindowsContents(s, m)]
                /\ said' = [b \in File!Platforms |-> IF can[b] /\ associated THEN File!Value(0) ELSE File!Error]
                /\ handles' = [b \in File!Platforms |->
                      handles[b] + (IF can[b] /\ associated THEN 1 ELSE 0)]
                /\ mode' = IF associated /\ can["posix"] /\ can["windows"] THEN m ELSE mode
                /\ position' = 0
                /\ pointer' = IF File!IsOpen' THEN File!WindowsPointer(s, m) ELSE 0
                /\ fileOffset' = pointer'
                /\ UNCHANGED excused
      BY <1>1, <1>A DEF File!Open
    <2>2. CASE File!PosixOpens(s, m)
      <3>1. /\ disk' = [b \in File!Platforms |-> File!PosixContents(s, m)]
            /\ said' = [b \in File!Platforms |-> IF associated THEN File!Value(0) ELSE File!Error]
            /\ handles' = [b \in File!Platforms |-> handles[b] + (IF associated THEN 1 ELSE 0)]
            /\ mode' = IF associated THEN m ELSE mode
        BY <2>1, <2>2, <1>A, OpensAgree
      <3>2. File!PosixContents(s, m) \in Contents /\ File!WindowsPointer(s, m) \in Nat
        BY <2>2, <1>A, OpensAgree
      <3>3. ~File!IsOpen
        BY <1>1 DEF File!Open
      <3>4. /\ "append" \in m => File!WindowsPointer(s, m) = Len(File!PosixContents(s, m))
            /\ "append" \notin m => File!WindowsPointer(s, m) = 0
        BY <2>2, <1>A, OpensAgree
      <3>5. File!IsOpen' <=> associated
        BY <3>1, <3>3, <1>B
      <3>6. QED BY <1>1, <1>A, <2>1, <3>1, <3>2, <3>3, <3>4, <3>5 DEF FileInv, FileTypes, File!PlatformsAgree
    <2>3. CASE ~File!PosixOpens(s, m)
      <3>1. ~File!WindowsOpens(s, m) /\ ~File!IsOpen
        BY <2>3, <1>1, <1>A, OpensAgree DEF File!Open
      <3>2. /\ disk' = [b \in File!Platforms |-> s]
            /\ said' = [b \in File!Platforms |-> File!Error]
            /\ handles' = [b \in File!Platforms |-> handles[b] + 0]
            /\ mode' = mode
        BY <2>1, <2>3, <3>1
      <3>3. ~File!IsOpen'
        BY <3>1, <3>2
      <3>4. QED BY <1>1, <1>A, <2>1, <3>1, <3>2, <3>3 DEF FileInv, FileTypes, File!PlatformsAgree
    <2>4. QED BY <2>2, <2>3 DEF FileInv, FileTypes, File!PlatformsAgree
  <1>2. CASE File!OpenAgain \/ File!Close \/ File!CallClosed \/ File!Size
    <2>1. CASE File!Close
      BY <1>A, <2>1 DEF File!Close, FileInv, FileTypes, File!PlatformsAgree
    <2>2. CASE File!OpenAgain
      BY <1>A, <2>2 DEF File!OpenAgain, FileInv, FileTypes, File!PlatformsAgree
    <2>3. CASE File!CallClosed
      BY <1>A, <2>3 DEF File!CallClosed, FileInv, FileTypes, File!PlatformsAgree
    <2>4. CASE File!Size
      BY <1>A, <2>4 DEF File!Size, FileInv, FileTypes, File!PlatformsAgree
    <2>5. QED BY <1>2, <2>1, <2>2, <2>3, <2>4 DEF FileInv, FileTypes, File!PlatformsAgree
  <1>3. ASSUME NEW n \in 0..(Largest + 1), NEW whence \in File!Whence, File!Seek(n, whence), ~excused
        PROVE  FileInv'
    <2> DEFINE appends == "append" \in mode
    <2>a. excused' = appends /\ appends \in BOOLEAN
      BY <1>3 DEF File!Seek
    <2>b. appends <=> "append" \in mode
      OBVIOUS
    <2> HIDE DEF appends
    <2>1. s \in Contents /\ Len(s) \in Nat
      BY <1>3, <1>A DEF File!Seek, Contents
    <2>2. "append" \notin mode => File!PosixSeek(n, whence) = File!WindowsSeek(n, whence)
      BY <1>3, <1>A, <2>1 DEF File!Seek, File!Whence, File!PosixSeek, File!WindowsSeek, File!Target
    <2>3. File!PosixSeek(n, whence).to \in Nat /\ File!WindowsSeek(n, whence).to \in Nat
      BY <1>3, <1>A, <2>1 DEF File!Whence, File!PosixSeek, File!WindowsSeek, File!Target
    <2>4. QED BY <1>3, <1>A, <2>a, <2>b, <2>2, <2>3 DEF File!Seek, FileInv, FileTypes, File!PlatformsAgree
  <1>4. ASSUME NEW n \in 0..Largest, File!Resize(n), ~excused PROVE FileInv'
    <2> DEFINE appends == "append" \in mode
    <2>a. excused' = appends /\ appends \in BOOLEAN
      BY <1>4 DEF File!Resize
    <2>b. appends <=> "append" \in mode
      OBVIOUS
    <2> HIDE DEF appends
    <2>1. File!Resized(s, n) \in Contents
      BY <1>4, <1>A, ResizedIs DEF File!Resize
    <2>2. QED BY <1>4, <1>A, <2>a, <2>b, <2>1 DEF File!Resize, FileInv, FileTypes, File!PlatformsAgree
  <1>5. ASSUME NEW n \in 0..2, File!Read(n), ~excused PROVE FileInv'
    <2> DEFINE appends == "append" \in mode
    <2>a. excused' = appends /\ appends \in BOOLEAN
      BY <1>5 DEF File!Read
    <2>b. appends <=> "append" \in mode
      OBVIOUS
    <2> HIDE DEF appends
    <2>1. /\ Len(File!Found(s, position, n)) \in 0..n
          /\ Len(File!Found(s, fileOffset, n)) \in 0..n
      BY <1>5, <1>A, FoundIs DEF File!Read
    <2>2. QED BY <1>5, <1>A, <2>a, <2>b, <2>1 DEF File!Read, FileInv, FileTypes, File!PlatformsAgree
  <1>6. ASSUME NEW n \in 0..2, File!AsyncRead(n), ~excused PROVE FileInv'
    <2> DEFINE found == File!Found(s, position, n)
    <2>1. PICK stopped \in BOOLEAN :
            /\ said' = IF stopped THEN File!Both(<<"stopped">>, <<"stopped">>)
                       ELSE File!Both(File!ReadResult(s, position, n), File!ReadResult(s, fileOffset, n))
            /\ position' = IF stopped THEN position ELSE position + Len(found)
            /\ excused' = ("append" \in mode \/ (n > 0 /\ (stopped \/ Len(found) < n)))
      BY <1>6, <1>A DEF File!AsyncRead
    <2> DEFINE differs == "append" \in mode \/ (n > 0 /\ (stopped \/ Len(found) < n))
    <2>2. excused' = differs /\ differs \in BOOLEAN
      BY <2>1
    <2>3. ~differs => "append" \notin mode /\ (n = 0 \/ (~stopped /\ ~(Len(found) < n)))
      OBVIOUS
    <2>4. Len(found) \in 0..n
      BY <1>6, <1>A, FoundIs DEF File!AsyncRead
    <2> HIDE DEF differs, found
    <2>5. position' \in Nat /\ (~differs => position' = position + n)
      BY <1>A, <2>1, <2>3, <2>4
    <2>6. said'["posix"] = said'["windows"] \/ "append" \in mode
      BY <1>6, <1>A, <2>1
    <2>7. QED
      BY <1>6, <1>A, <2>2, <2>3, <2>5, <2>6 DEF File!AsyncRead, FileInv, FileTypes, File!PlatformsAgree
  <1>7. ASSUME NEW n \in 0..2, NEW byte \in Bytes, File!Write(n, byte), ~excused PROVE FileInv'
    <2>0. s \in Contents /\ Len(s) \in Nat /\ fileOffset \in Nat /\ n \in Nat
      BY <1>7, <1>A DEF File!Write
    <2>1. /\ File!Overwritten(s, fileOffset, n, byte) \in Contents
          /\ "append" \in mode => Len(File!Overwritten(s, fileOffset, n, byte)) = fileOffset + n
      <3>1. /\ File!Overwritten(s, fileOffset, n, byte) \in Contents
            /\ Len(File!Overwritten(s, fileOffset, n, byte)) = IF fileOffset + n > Len(s) THEN fileOffset + n ELSE Len(s)
        BY <2>0, OverwrittenIs
      <3>2. "append" \in mode => fileOffset = Len(s)
        BY <1>7, <1>A DEF File!Write
      <3>3. QED BY <2>0, <3>1, <3>2
    <2>2. File!Written(n, byte) = [b \in File!Platforms |-> IF n = 0 THEN s ELSE File!Overwritten(s, fileOffset, n, byte)]
      BY <1>7, <1>A, <1>C DEF File!Write, File!Written
    <2>3. QED BY <1>7, <1>A, <1>C, <2>1, <2>2 DEF File!Write, FileInv, FileTypes, File!PlatformsAgree
  <1>8. ASSUME NEW n \in 0..2, NEW byte \in Bytes, File!AsyncWrite(n, byte), ~excused PROVE FileInv'
    <2>0. s \in Contents /\ Len(s) \in Nat /\ fileOffset \in Nat /\ n \in Nat
      BY <1>8, <1>A DEF File!AsyncWrite
    <2>1. /\ File!Overwritten(s, fileOffset, n, byte) \in Contents
          /\ "append" \in mode => Len(File!Overwritten(s, fileOffset, n, byte)) = fileOffset + n
      <3>1. /\ File!Overwritten(s, fileOffset, n, byte) \in Contents
            /\ Len(File!Overwritten(s, fileOffset, n, byte)) = IF fileOffset + n > Len(s) THEN fileOffset + n ELSE Len(s)
        BY <2>0, OverwrittenIs
      <3>2. "append" \in mode => fileOffset = Len(s)
        BY <1>8, <1>A DEF File!AsyncWrite
      <3>3. QED BY <2>0, <3>1, <3>2
    <2>2. File!Written(n, byte) = [b \in File!Platforms |-> IF n = 0 THEN s ELSE File!Overwritten(s, fileOffset, n, byte)]
      BY <1>8, <1>A, <1>C DEF File!AsyncWrite, File!Written
    <2>3. QED BY <1>8, <1>A, <1>C, <2>1, <2>2 DEF File!AsyncWrite, FileInv, FileTypes, File!PlatformsAgree
  <1>9. ASSUME NEW n \in 0..2, NEW at \in 0..Largest, File!ReadAt(at, n), ~excused PROVE FileInv'
    BY <1>9, <1>A DEF File!ReadAt, FileInv, FileTypes, File!PlatformsAgree
  <1>10. ASSUME NEW n \in 0..2, NEW at \in 0..Largest, NEW byte \in Bytes, File!WriteAt(at, n, byte), ~excused
         PROVE  FileInv'
    <2>0. s \in Contents /\ at \in Nat /\ n \in Nat
      BY <1>10, <1>A DEF File!WriteAt
    <2>1. File!Overwritten(s, at, n, byte) \in Contents
      BY <2>0, OverwrittenIs
    <2>2. disk' = [b \in File!Platforms |-> IF n = 0 THEN s ELSE File!Overwritten(s, at, n, byte)]
      BY <1>10, <1>A DEF File!WriteAt
    <2>3. QED BY <1>10, <1>A, <2>1, <2>2 DEF File!WriteAt, FileInv, FileTypes, File!PlatformsAgree
  <1>11. QED BY <1>0, <1>1, <1>2, <1>3, <1>4, <1>5, <1>6, <1>7, <1>8, <1>9, <1>10 DEF File!Next
\* For files and offsets of any size and any sequence of calls, a file of Windows,
\* whose position the library keeps, answers as one of POSIX, up to the calls for
\* which the documentation excuses it.
THEOREM FilesAgree ==
    ASSUME File!FileAssumption
    PROVE  File!Spec => []File!PlatformsAgree
  <1>1. FileInv => File!PlatformsAgree
    BY DEF FileInv
  <1>2. QED BY FileInit, FileNext, <1>1, PTL DEF File!Spec

\* The answers of the three contexts and of the two platforms, together.
THEOREM PlatformsAreAlike ==
    ASSUME File!FileAssumption
    PROVE  Backends!Spec /\ File!Spec => []PlatformsAgree
  BY ContextsAnswer, FilesAgree, PTL DEF PlatformsAgree

(***************************************************************************)
(* FlatBuffer                                                              *)
(*                                                                         *)
(* FlatInv: the positions of each buffer are in order, and the bytes between*)
(* in and out are the history.  It is kept as long as no buffer holds more *)
(* than its maximum, since max_size() - size() then does not wrap.         *)
(***************************************************************************)

\* A buffer, by its fields.
Buffer == [mem : Seq(Nat), in : Nat, out : Nat, last : Nat, max : Nat]

Within(v) == v.in <= v.out /\ v.out <= v.last /\ v.last <= Len(v.mem)

\* A buffer whose positions are in order.
Sound(v) == v \in Buffer /\ Within(v) /\ v.max < Word

\* What is readable in each buffer is what its history says.
FlatInv ==
    /\ buf = [b \in Buffers |-> buf[b]] /\ queue \in [Buffers -> Seq(Nat)] /\ fresh \in Nat \ {0}
    /\ \A b \in Buffers : Sound(buf[b]) /\ Flat!Readable(buf[b]) = queue[b]

LEMMA SameSequence ==
    ASSUME NEW s \in Seq(Nat), NEW t \in Seq(Nat), Len(s) = Len(t),
           \A i \in 1..Len(s) : s[i] = t[i]
    PROVE  s = t
  OBVIOUS

LEMMA IsSequence ==
    ASSUME NEW n \in Nat, NEW f \in [1..n -> Nat]
    PROVE  f \in Seq(Nat) /\ Len(f) = n
  OBVIOUS

LEMMA LargerIs ==
    ASSUME NEW m \in Nat, NEW n \in Nat
    PROVE  /\ Flat!Max({m, n}) = IF m >= n THEN m ELSE n
           /\ Flat!Min({m, n}) = IF m <= n THEN m ELSE n
  BY DEF Flat!Max, Flat!Min

LEMMA PartIs ==
    ASSUME NEW s \in Seq(Nat), NEW i \in Nat, NEW o \in Nat, i <= o, o <= Len(s)
    PROVE  /\ SubSeq(s, i + 1, o) \in Seq(Nat) /\ Len(SubSeq(s, i + 1, o)) = o - i
           /\ \A j \in 1..o - i : SubSeq(s, i + 1, o)[j] = s[i + j]
  <1>1. i + 1 \in Int /\ o \in Int /\ \A j \in i + 1..o : s[j] \in Nat
    OBVIOUS
  <1>2. /\ SubSeq(s, i + 1, o) \in Seq(Nat)
        /\ Len(SubSeq(s, i + 1, o)) = IF i + 1 <= o THEN o - (i + 1) + 1 ELSE 0
        /\ \A j \in 1..o - (i + 1) + 1 : SubSeq(s, i + 1, o)[j] = s[i + 1 + j - 1]
    BY <1>1, SubSeqProperties
  <1> DEFINE t == SubSeq(s, i + 1, o)
  <1>3. /\ t \in Seq(Nat) /\ Len(t) = IF i + 1 <= o THEN o - (i + 1) + 1 ELSE 0
        /\ \A j \in 1..o - (i + 1) + 1 : t[j] = s[i + 1 + j - 1]
    BY <1>2
  <1> HIDE DEF t
  <1>4. ASSUME NEW j \in 1..o - i PROVE t[j] = s[i + j]
    <2>1. j \in 1..o - (i + 1) + 1 /\ i + 1 + j - 1 = i + j
      OBVIOUS
    <2>2. t[j] = s[i + 1 + j - 1]
      BY <1>3, <2>1
    <2>3. QED BY <2>1, <2>2
  <1>5. Len(t) = o - i
    BY <1>3
  <1>6. QED BY <1>3, <1>4, <1>5 DEF t

\* A part that grows by t, and one that shrinks at its front.
WithPart(u, s, o, k, t) ==
    /\ u \in Seq(Nat) /\ Len(u) = Len(s)
    /\ \A j \in 1..Len(s) : u[j] = IF j \in o + 1..o + k THEN t[j - o] ELSE s[j]

SameBeyond(u, s, m) ==
    /\ u \in Seq(Nat) /\ Len(u) = Len(s)
    /\ \A j \in 1..Len(s) : j > m => u[j] = s[j]

Longer(u, s, a, o, e, t) == SubSeq(u, a, e) = SubSeq(s, a, o) \o t
Shorter(u, s, a, c, d, e, o) == SubSeq(u, c, o) = SubSeq(SubSeq(s, a, o), d, e)

LEMMA PartGrows ==
    ASSUME NEW s \in Seq(Nat), NEW i \in Nat, NEW o \in Nat, NEW k \in Nat, i <= o, o + k <= Len(s),
           NEW t \in Seq(Nat), Len(t) = k, NEW u, WithPart(u, s, o, k, t)
    PROVE  Longer(u, s, i + 1, o, o + k, t)
  <1> DEFINE earlier == SubSeq(s, i + 1, o)
             later == SubSeq(u, i + 1, o + k)
             both == earlier \o t
  <1>0. Len(s) \in Nat /\ u \in Seq(Nat) /\ Len(u) = Len(s)
    BY DEF WithPart
  <1>1. earlier \in Seq(Nat) /\ Len(earlier) = o - i /\ \A j \in 1..o - i : earlier[j] = s[i + j]
    <2>1. o <= Len(s)
      BY <1>0
    <2>2. QED BY <1>0, <2>1, PartIs
  <1>2. later \in Seq(Nat) /\ Len(later) = o + k - i /\ \A j \in 1..o + k - i : later[j] = u[i + j]
    <2>1. o + k \in Nat /\ i <= o + k /\ o + k <= Len(u)
      BY <1>0
    <2>2. QED BY <1>0, <2>1, PartIs
  <1> HIDE DEF earlier, later
  <1>3. /\ both \in Seq(Nat) /\ Len(both) = o - i + k
        /\ \A j \in 1..o - i + k : both[j] = IF j <= o - i THEN earlier[j] ELSE t[j - (o - i)]
    <2>1. /\ both \in Seq(Nat) /\ Len(both) = Len(earlier) + Len(t)
          /\ \A j \in 1..Len(earlier) + Len(t) :
                 both[j] = IF j <= Len(earlier) THEN earlier[j] ELSE t[j - Len(earlier)]
      BY <1>1, ConcatProperties
    <2> HIDE DEF both
    <2>2. QED BY <1>1, <2>1
  <1> HIDE DEF both
  <1>4. ASSUME NEW j \in 1..Len(later) PROVE later[j] = both[j]
    <2>1. j \in 1..o + k - i /\ j \in 1..o - i + k /\ i + j \in 1..Len(s)
      BY <1>0, <1>2
    <2>2. later[j] = u[i + j]
      BY <1>2, <2>1
    <2>3. CASE j <= o - i
      <3>1. i + j \notin o + 1..o + k /\ j \in 1..o - i
        BY <2>1, <2>3
      <3>2. u[i + j] = s[i + j]
        BY <2>1, <3>1 DEF WithPart
      <3>3. QED BY <1>1, <1>3, <2>1, <2>2, <2>3, <3>1, <3>2
    <2>4. CASE ~(j <= o - i)
      <3>1. i + j \in o + 1..o + k /\ i + j - o = j - (o - i)
        BY <2>1, <2>4
      <3>2. u[i + j] = t[i + j - o]
        <4> DEFINE x == i + j
        <4>1. x \in 1..Len(s) /\ x \in o + 1..o + k
          BY <2>1, <3>1
        <4> HIDE DEF x
        <4>2. u[x] = t[x - o]
          BY <4>1 DEF WithPart
        <4>3. QED BY <4>2 DEF x
      <3>3. QED BY <1>3, <2>1, <2>2, <2>4, <3>1, <3>2
    <2>5. QED BY <2>3, <2>4
  <1>5. Len(later) = Len(both)
    BY <1>2, <1>3
  <1>6. QED BY <1>2, <1>3, <1>4, <1>5, SameSequence DEF earlier, later, both, Longer

LEMMA PartShrinks ==
    ASSUME NEW s \in Seq(Nat), NEW i \in Nat, NEW o \in Nat, NEW k \in Nat, i + k <= o, o <= Len(s),
           NEW u, SameBeyond(u, s, i + k)
    PROVE  Shorter(u, s, i + 1, i + k + 1, k + 1, o - i, o)
  <1> DEFINE earlier == SubSeq(s, i + 1, o)
             later == SubSeq(u, i + k + 1, o)
             rest == SubSeq(earlier, k + 1, o - i)
  <1>0. /\ Len(s) \in Nat /\ i <= o /\ i + k \in Nat /\ o - i \in Nat /\ k <= o - i
        /\ u \in Seq(Nat) /\ Len(u) = Len(s)
    BY DEF SameBeyond
  <1>1. earlier \in Seq(Nat) /\ Len(earlier) = o - i /\ \A j \in 1..o - i : earlier[j] = s[i + j]
    BY <1>0, PartIs
  <1>2. later \in Seq(Nat) /\ Len(later) = o - (i + k) /\ \A j \in 1..o - (i + k) : later[j] = u[i + k + j]
    BY <1>0, PartIs
  <1> HIDE DEF earlier, later
  <1>3. rest \in Seq(Nat) /\ Len(rest) = o - i - k /\ \A j \in 1..o - i - k : rest[j] = earlier[k + j]
    <2>1. o - i <= Len(earlier)
      BY <1>0, <1>1
    <2>2. QED BY <1>0, <1>1, <2>1, PartIs
  <1> HIDE DEF rest
  <1>4. ASSUME NEW j \in 1..Len(later) PROVE later[j] = rest[j]
    <2>0. /\ j \in 1..o - (i + k)
          /\ Len(s) \in Nat /\ i \in Nat /\ o \in Nat /\ k \in Nat /\ i + k <= o /\ o <= Len(s)
      BY <1>0, <1>2
    <2>1. /\ j \in 1..o - (i + k) /\ j \in 1..o - i - k /\ k + j \in 1..o - i
          /\ i + k + j \in 1..Len(s) /\ i + k + j > i + k /\ i + (k + j) = i + k + j
      BY ONLY <2>0
    <2>2. later[j] = u[i + k + j] /\ u[i + k + j] = s[i + k + j]
      BY <1>2, <2>1 DEF SameBeyond
    <2>3. rest[j] = earlier[k + j] /\ earlier[k + j] = s[i + (k + j)]
      BY <1>1, <1>3, <2>1
    <2>4. QED BY <2>1, <2>2, <2>3
  <1>5. Len(later) = Len(rest)
    BY <1>0, <1>2, <1>3
  <1>6. QED BY <1>2, <1>3, <1>4, <1>5, SameSequence DEF earlier, later, rest, Shorter

LEMMA ReadableIs ==
    ASSUME NEW v \in Buffer, v.in <= v.out, v.out <= Len(v.mem)
    PROVE  /\ Flat!Size(v) \in Nat /\ Flat!Size(v) <= Len(v.mem) - v.in
           /\ Flat!Readable(v) \in Seq(Nat) /\ Len(Flat!Readable(v)) = Flat!Size(v)
           /\ \A i \in 1..Flat!Size(v) : Flat!Readable(v)[i] = v.mem[v.in + i]
  <1>1. /\ v.mem \in Seq(Nat) /\ v.in \in Nat /\ v.out \in Nat
    BY DEF Buffer
  <1>2. Len(v.mem) \in Nat
    BY <1>1
  <1>3. v.out - v.in \in Nat /\ v.out - v.in <= Len(v.mem) - v.in
    BY <1>1, <1>2
  <1>4. /\ SubSeq(v.mem, v.in + 1, v.out) \in Seq(Nat)
        /\ Len(SubSeq(v.mem, v.in + 1, v.out)) = v.out - v.in
        /\ \A j \in 1..v.out - v.in : SubSeq(v.mem, v.in + 1, v.out)[j] = v.mem[v.in + j]
    BY <1>1, PartIs
  <1>5. QED BY <1>3, <1>4 DEF Flat!Readable, Flat!Size

LEMMA AllocationIs ==
    ASSUME NEW n \in Nat, NEW s \in Seq(Nat)
    PROVE  /\ Flat!Allocation(n, s) \in Seq(Nat) /\ Len(Flat!Allocation(n, s)) = n
           /\ \A i \in 1..n : Flat!Allocation(n, s)[i] = IF i <= Len(s) THEN s[i] ELSE 0
  <1>1. Flat!Allocation(n, s) \in [1..n -> Nat]
    BY DEF Flat!Allocation, Flat!Junk
  <1>2. QED BY <1>1 DEF Flat!Allocation, Flat!Junk

\* The readable bytes at the front of an allocation that holds them.
LEMMA FrontIs ==
    ASSUME NEW v \in Buffer, v.in <= v.out, v.out <= Len(v.mem), NEW n \in Nat, Flat!Size(v) <= n,
           NEW w \in Buffer, w.mem = Flat!Allocation(n, Flat!Readable(v)), w.in = 0, w.out = Flat!Size(v)
    PROVE  Flat!Readable(w) = Flat!Readable(v) /\ Len(w.mem) = n /\ Flat!Size(w) = Flat!Size(v)
  <1>1. /\ Flat!Size(v) \in Nat /\ Flat!Readable(v) \in Seq(Nat) /\ Len(Flat!Readable(v)) = Flat!Size(v)
    BY ReadableIs
  <1> DEFINE r == Flat!Readable(v)
             k == Flat!Size(v)
  <1>a. r \in Seq(Nat) /\ Len(r) = k /\ k \in Nat
    BY <1>1
  <1> HIDE DEF r, k
  <1>b. w.mem = Flat!Allocation(n, r)
    BY DEF r
  <1>c. /\ w.mem \in Seq(Nat) /\ Len(w.mem) = n
        /\ \A i \in 1..n : w.mem[i] = IF i <= k THEN r[i] ELSE 0
    <2>1. /\ Flat!Allocation(n, r) \in Seq(Nat) /\ Len(Flat!Allocation(n, r)) = n
          /\ \A i \in 1..n : Flat!Allocation(n, r)[i] = IF i <= Len(r) THEN r[i] ELSE 0
      BY <1>a, AllocationIs
    <2>2. QED BY <1>a, <1>b, <2>1
  <1>2. /\ w.mem \in Seq(Nat) /\ Len(w.mem) = n
        /\ \A i \in 1..n : w.mem[i] = IF i <= Flat!Size(v) THEN Flat!Readable(v)[i] ELSE 0
    BY <1>c DEF r, k
  <1>3. /\ Flat!Readable(w) \in Seq(Nat) /\ Len(Flat!Readable(w)) = Flat!Size(w) /\ Flat!Size(w) = Flat!Size(v)
        /\ \A i \in 1..Flat!Size(w) : Flat!Readable(w)[i] = w.mem[w.in + i]
    <2>1. w.in <= w.out /\ w.out <= Len(w.mem)
      BY <1>1, <1>2
    <2>2. Flat!Size(w) = Flat!Size(v)
      BY <1>1 DEF Flat!Size
    <2>3. QED BY <2>1, <2>2, ReadableIs
  <1>4. \A i \in 1..Len(Flat!Readable(w)) : Flat!Readable(w)[i] = Flat!Readable(v)[i]
    BY <1>1, <1>2, <1>3
  <1>5. QED BY <1>1, <1>2, <1>3, <1>4, SameSequence

LEMMA MovedIs ==
    ASSUME NEW v \in Buffer, v.in <= v.out, v.out <= Len(v.mem), NEW n \in Nat, Flat!Size(v) <= n
    PROVE  LET w == Flat!Moved(v, n)
           IN  /\ w \in Buffer /\ w.in = 0 /\ w.out = Flat!Size(v) /\ Len(w.mem) = n
               /\ w.max = v.max /\ w.last = v.last
               /\ w.mem = Flat!Allocation(n, Flat!Readable(v))
               /\ Flat!Readable(w) = Flat!Readable(v)
  <1> DEFINE w == Flat!Moved(v, n)
  <1>1. Flat!Size(v) \in Nat /\ Flat!Readable(v) \in Seq(Nat)
    BY ReadableIs
  <1>2. Flat!Allocation(n, Flat!Readable(v)) \in Seq(Nat)
    BY <1>1, AllocationIs
  <1>3. /\ w \in Buffer /\ w.in = 0 /\ w.out = Flat!Size(v) /\ w.max = v.max /\ w.last = v.last
        /\ w.mem = Flat!Allocation(n, Flat!Readable(v))
    BY <1>1, <1>2 DEF Flat!Moved, Buffer
  <1> HIDE DEF w
  <1>4. QED BY <1>3, FrontIs DEF w

\* The capacity that prepare() grows to is enough, unless the buffer was larger
\* than its maximum; and it is within the maximum if Floor and the old one are.
LEMMA GrownIs ==
    ASSUME Flat!FlatAssumption,
           NEW v \in Buffer, v.in <= v.out, v.out <= Len(v.mem), NEW n \in Nat,
           Flat!Size(v) + n <= v.max
    PROVE  /\ Flat!Grown(v, n) \in Nat /\ Flat!Grown(v, n) >= Flat!Size(v) + n
           /\ Flat!End(v) <= v.max /\ Floor <= v.max => Flat!Grown(v, n) <= v.max
  <1> DEFINE need == Flat!Size(v) + n
             from == Flat!Max({Flat!End(v), Floor})
             enough == {k \in need..v.max : \E j \in 1..Word : k = from * 2 ^ j}
  <1>1. need \in Nat /\ v.max \in Nat /\ Flat!End(v) \in Nat /\ Floor \in Nat
    BY ReadableIs DEF Flat!FlatAssumption, Buffer, Flat!End
  <1>2. from \in Nat /\ (Flat!End(v) <= v.max /\ Floor <= v.max => from <= v.max)
    BY <1>1, LargerIs
  <1>3. Flat!Min({need, v.max}) = need
    BY <1>1, LargerIs
  <1>4. enough # {} => Flat!Min(enough) \in need..v.max
    <2> SUFFICES ASSUME enough # {} PROVE Flat!Min(enough) \in enough
      OBVIOUS
    <2>1. enough \subseteq Nat
      BY <1>1
    <2> HIDE DEF enough
    <2> DEFINE Less == {p \in Nat \X Nat : p[1] < p[2]}
    <2>2. IsWellFoundedOn(Less, Nat)
      BY NatLessThanWellFounded DEF OpToRel
    <2>3. PICK k \in enough : \A l \in enough : ~(<<l, k>> \in Less)
      <3> HIDE DEF Less
      <3>1. QED BY <2>1, <2>2, WFMin
    <2>4. ASSUME NEW l \in enough PROVE k <= l
      <3>1. k \in Nat /\ l \in Nat /\ ~(<<l, k>> \in Less)
        BY <2>1, <2>3
      <3> HIDE DEF enough
      <3>2. QED BY <3>1
    <2>5. QED BY <2>4 DEF Flat!Min
  <1>5. Flat!Grown(v, n) = IF from >= need THEN from
                           ELSE IF enough # {} THEN Flat!Min(enough) ELSE Flat!Min({need, v.max})
    BY DEF Flat!Grown
  <1> HIDE DEF need, from, enough
  <1>6. QED BY <1>1, <1>2, <1>3, <1>4, <1>5 DEF need

LEMMA PreparedIs ==
    ASSUME Flat!FlatAssumption,
           NEW v, Sound(v), NEW n \in Nat, Flat!Size(v) <= v.max, n > 0 => ~Flat!TooLong(v, n)
    PROVE  /\ Sound(Flat!Prepared(v, n)) /\ Flat!Readable(Flat!Prepared(v, n)) = Flat!Readable(v)
           /\ Flat!Prepared(v, n).max = v.max
           /\ Flat!End(v) <= v.max /\ Floor <= v.max => Flat!End(Flat!Prepared(v, n)) <= v.max
  <1> USE DEF Flat!End
  <1>1. /\ v \in Buffer /\ v.in <= v.out /\ v.out <= Len(v.mem) /\ v.max < Word
        /\ v.in \in Nat /\ v.out \in Nat /\ v.last \in Nat /\ v.max \in Nat
        /\ v.mem \in Seq(Nat) /\ Len(v.mem) \in Nat
    BY DEF Sound, Within, Buffer
  <1>2. Flat!Size(v) \in Nat /\ Flat!Size(v) = v.out - v.in /\ Flat!Size(v) <= v.out
    BY <1>1 DEF Flat!Size
  <1>3. CASE n = 0
    BY <1>3 DEF Flat!Prepared
  <1>4. CASE n > 0 /\ Len(v.mem) > 0 /\ n <= Len(v.mem) - v.out
    <2>1. Flat!Prepared(v, n) = [v EXCEPT !.last = v.out + n]
      BY <1>4 DEF Flat!Prepared
    <2> DEFINE w == [v EXCEPT !.last = v.out + n]
    <2>2. /\ w \in Buffer /\ w.mem = v.mem /\ w.in = v.in /\ w.out = v.out
          /\ w.max = v.max /\ w.last = v.out + n
      <3>1. v.out + n \in Nat
        BY <1>1
      <3> HIDE DEF Flat!End
      <3>2. QED BY <1>1, <3>1 DEF Buffer
    <2> HIDE DEF w
    <2>3. Sound(w) /\ Flat!Readable(w) = Flat!Readable(v)
      BY <1>1, <1>4, <2>2 DEF Sound, Within, Flat!Readable
    <2>4. QED BY <2>1, <2>2, <2>3 DEF w
  <1>5. ASSUME NEW m \in Nat, Flat!Size(v) + n <= m, Flat!Prepared(v, n) = LET w == Flat!Moved(v, m) IN [w EXCEPT !.last = w.out + n]
        PROVE  /\ Sound(Flat!Prepared(v, n)) /\ Flat!Readable(Flat!Prepared(v, n)) = Flat!Readable(v)
               /\ Flat!Prepared(v, n).max = v.max /\ Len(Flat!Prepared(v, n).mem) = m
    <2> DEFINE w == Flat!Moved(v, m)
               u == [w EXCEPT !.last = w.out + n]
    <2>1. /\ w \in Buffer /\ w.in = 0 /\ w.out = Flat!Size(v) /\ Len(w.mem) = m
          /\ w.max = v.max /\ Flat!Readable(w) = Flat!Readable(v)
      <3>1. Flat!Size(v) <= m
        BY <1>2, <1>5
      <3>2. QED BY <1>1, <3>1, MovedIs
    <2>2. Flat!Prepared(v, n) = u
      BY <1>5
    <2> HIDE DEF w
    <2>3. /\ u \in Buffer /\ u.mem = w.mem /\ u.in = 0 /\ u.out = Flat!Size(v)
          /\ u.max = v.max /\ u.last = Flat!Size(v) + n
      BY <1>2, <2>1 DEF Buffer
    <2> HIDE DEF u
    <2>4. Sound(u)
      BY <1>1, <1>2, <1>5, <2>1, <2>3 DEF Sound, Within
    <2>5. Flat!Readable(u) = Flat!Readable(w)
      BY <2>1, <2>3 DEF Flat!Readable
    <2>6. QED BY <2>1, <2>2, <2>3, <2>4, <2>5
  <1>6. CASE n > 0 /\ ~(Len(v.mem) > 0 /\ n <= Len(v.mem) - v.out)
             /\ Len(v.mem) > 0 /\ n <= Len(v.mem) - Flat!Size(v)
    <2>1. Flat!Prepared(v, n) = LET w == Flat!Moved(v, Len(v.mem)) IN [w EXCEPT !.last = w.out + n]
      BY <1>6 DEF Flat!Prepared
    <2>2. Flat!Size(v) + n <= Len(v.mem)
      BY <1>1, <1>2, <1>6
    <2>3. QED BY <1>1, <1>5, <2>1, <2>2
  <1>7. CASE n > 0 /\ ~(Len(v.mem) > 0 /\ n <= Len(v.mem) - v.out)
             /\ ~(Len(v.mem) > 0 /\ n <= Len(v.mem) - Flat!Size(v))
    <2>1. Flat!Prepared(v, n) = LET w == Flat!Moved(v, Flat!Grown(v, n)) IN [w EXCEPT !.last = w.out + n]
      BY <1>7 DEF Flat!Prepared
    <2>2. Flat!Minus(v.max, Flat!Size(v)) = v.max - Flat!Size(v)
      <3>1. Word \in Nat /\ v.max - Flat!Size(v) \in 0..Word - 1
        BY <1>1, <1>2 DEF Flat!FlatAssumption
      <3>2. \A x \in 0..Word - 1 : (x + Word) % Word = x
        BY <3>1
      <3>3. v.max + Word - Flat!Size(v) = (v.max - Flat!Size(v)) + Word
        BY <1>1, <1>2, <3>1
      <3>4. QED BY <3>1, <3>2, <3>3 DEF Flat!Minus
    <2>3. n <= v.max - Flat!Size(v)
      <3>1. n > Len(v.mem) - v.out /\ n > Len(v.mem) - Flat!Size(v)
        BY <1>1, <1>2, <1>7
      <3>2. QED BY <1>1, <1>2, <1>7, <2>2, <3>1 DEF Flat!TooLong
    <2>4. Flat!Size(v) + n <= v.max
      BY <1>1, <1>2, <2>3
    <2>5. /\ Flat!Grown(v, n) \in Nat /\ Flat!Grown(v, n) >= Flat!Size(v) + n
          /\ Len(v.mem) <= v.max /\ Floor <= v.max => Flat!Grown(v, n) <= v.max
      BY <1>1, <2>4, GrownIs
    <2>6. QED BY <1>2, <1>5, <2>1, <2>5
  <1>8. QED BY <1>3, <1>4, <1>6, <1>7

LEMMA CommitIs ==
    ASSUME NEW v, Sound(v), NEW k \in Nat, k <= v.last - v.out,
           NEW written \in Seq(Nat), Len(written) = k
    PROVE  LET w == Flat!Committed(v, written)
           IN  /\ Sound(w) /\ Flat!Readable(w) = Flat!Readable(v) \o written
               /\ w.max = v.max /\ Flat!End(w) = Flat!End(v)
  <1>1. /\ v \in Buffer /\ v.in <= v.out /\ v.out <= v.last /\ v.last <= Len(v.mem) /\ v.max < Word
        /\ v.in \in Nat /\ v.out \in Nat /\ v.last \in Nat /\ v.max \in Nat
        /\ v.mem \in Seq(Nat) /\ Len(v.mem) \in Nat
    BY DEF Sound, Within, Buffer
  <1> DEFINE bytes == [i \in 1..Len(v.mem) |->
                         IF i \in v.out + 1..v.out + k THEN written[i - v.out] ELSE v.mem[i]]
             w == [v EXCEPT !.mem = bytes, !.out = v.out + k]
  <1>2. /\ bytes \in Seq(Nat) /\ Len(bytes) = Len(v.mem)
        /\ \A i \in 1..Len(v.mem) :
               bytes[i] = IF i \in v.out + 1..v.out + k THEN written[i - v.out] ELSE v.mem[i]
    <2>1. bytes \in [1..Len(v.mem) -> Nat]
      <3> SUFFICES ASSUME NEW i \in 1..Len(v.mem)
                   PROVE  (IF i \in v.out + 1..v.out + k THEN written[i - v.out] ELSE v.mem[i]) \in Nat
        OBVIOUS
      <3>1. CASE i \in v.out + 1..v.out + k
        <4>1. i - v.out \in 1..Len(written)
          BY <1>1, <3>1
        <4>2. QED BY <3>1, <4>1
      <3>2. CASE i \notin v.out + 1..v.out + k
        BY <1>1, <3>2
      <3>3. QED BY <3>1, <3>2
    <2>2. \A i \in 1..Len(v.mem) :
             bytes[i] = IF i \in v.out + 1..v.out + k THEN written[i - v.out] ELSE v.mem[i]
      OBVIOUS
    <2> HIDE DEF bytes
    <2>3. Len(bytes) = Len(v.mem)
      BY <1>1, <2>1
    <2>4. bytes \in Seq(Nat)
      BY <1>1, <2>1, IsSequence
    <2>5. QED BY <2>2, <2>3, <2>4
  <1> HIDE DEF bytes
  <1>3. /\ w \in Buffer /\ w.mem = bytes /\ w.in = v.in /\ w.out = v.out + k
        /\ w.last = v.last /\ w.max = v.max
    <2>1. v.out + k \in Nat
      BY <1>1
    <2>2. QED BY <1>1, <1>2, <2>1 DEF Buffer
  <1> HIDE DEF w
  <1>4. Sound(w)
    BY <1>1, <1>2, <1>3 DEF Sound, Within
  <1>5. Flat!Readable(w) = Flat!Readable(v) \o written
    <2>1. v.out + k <= Len(v.mem)
      BY <1>1
    <2>2. SubSeq(bytes, v.in + 1, v.out + k) = SubSeq(v.mem, v.in + 1, v.out) \o written
      <3> DEFINE s == v.mem
                 i == v.in
                 o == v.out
      <3>1. /\ s \in Seq(Nat) /\ i \in Nat /\ o \in Nat /\ i <= o /\ o + k <= Len(s)
            /\ WithPart(bytes, s, o, k, written)
        BY <1>1, <1>2, <2>1 DEF WithPart
      <3> HIDE DEF s, i, o
      <3>a. k \in Nat /\ written \in Seq(Nat) /\ Len(written) = k
        OBVIOUS
      <3>2. Longer(bytes, s, i + 1, o, o + k, written)
        BY ONLY <3>1, <3>a, PartGrows
      <3>3. QED BY <3>2 DEF s, i, o, Longer
    <2>3. QED BY <1>3, <2>2 DEF Flat!Readable
  <1>6. w = Flat!Committed(v, written)
    BY DEF w, bytes, Flat!End, Flat!Committed
  <1>7. QED BY <1>2, <1>3, <1>4, <1>5, <1>6 DEF Flat!End

LEMMA ConsumeIs ==
    ASSUME NEW v, Sound(v), NEW k \in Nat, k <= Flat!Size(v)
    PROVE  LET w == Flat!Consumed(v, k)
           IN  /\ Sound(w) /\ Flat!Readable(w) = SubSeq(Flat!Readable(v), k + 1, Len(Flat!Readable(v)))
               /\ w.max = v.max /\ Flat!End(w) = Flat!End(v)
  <1>1. /\ v \in Buffer /\ v.in <= v.out /\ v.out <= v.last /\ v.last <= Len(v.mem) /\ v.max < Word
        /\ v.in \in Nat /\ v.out \in Nat /\ v.last \in Nat /\ v.max \in Nat
        /\ v.mem \in Seq(Nat) /\ Len(v.mem) \in Nat
    BY DEF Sound, Within, Buffer
  <1> DEFINE bytes == [i \in DOMAIN v.mem |-> IF i \in v.in + 1..v.in + k THEN Flat!Junk ELSE v.mem[i]]
             w == [v EXCEPT !.in = v.in + k, !.mem = bytes]
  <1>2. /\ bytes \in Seq(Nat) /\ Len(bytes) = Len(v.mem)
        /\ \A i \in 1..Len(v.mem) : i > v.in + k => bytes[i] = v.mem[i]
    <2>0. DOMAIN v.mem = 1..Len(v.mem) /\ \A i \in 1..Len(v.mem) : v.mem[i] \in Nat
      BY <1>1
    <2>1. bytes \in [1..Len(v.mem) -> Nat]
      BY <2>0 DEF Flat!Junk
    <2>2. \A i \in 1..Len(v.mem) : i > v.in + k => bytes[i] = v.mem[i]
      BY <1>1, <2>0
    <2> HIDE DEF bytes
    <2>3. Len(bytes) = Len(v.mem)
      BY <1>1, <2>1
    <2>4. bytes \in Seq(Nat)
      BY <1>1, <2>1, IsSequence
    <2>5. QED BY <2>2, <2>3, <2>4
  <1> HIDE DEF bytes
  <1>3. /\ w \in Buffer /\ w.mem = bytes /\ w.in = v.in + k /\ w.out = v.out
        /\ w.last = v.last /\ w.max = v.max
    <2>1. v.in + k \in Nat
      BY <1>1
    <2>2. QED BY <1>1, <1>2, <2>1 DEF Buffer
  <1> HIDE DEF w
  <1>4. v.in + k <= v.out
    BY <1>1 DEF Flat!Size
  <1>5. Sound(w)
    BY <1>1, <1>2, <1>3, <1>4 DEF Sound, Within
  <1>6. Flat!Readable(w) = SubSeq(Flat!Readable(v), k + 1, Len(Flat!Readable(v)))
    <2>1. v.out <= Len(v.mem)
      BY <1>1
    <2>2. SubSeq(bytes, v.in + k + 1, v.out)
            = SubSeq(SubSeq(v.mem, v.in + 1, v.out), k + 1, v.out - v.in)
      <3> DEFINE s == v.mem
                 i == v.in
                 o == v.out
      <3>1. /\ s \in Seq(Nat) /\ i \in Nat /\ o \in Nat /\ i + k <= o /\ o <= Len(s)
            /\ SameBeyond(bytes, s, i + k)
        BY <1>1, <1>2, <1>4, <2>1 DEF SameBeyond
      <3> HIDE DEF s, i, o
      <3>2. Shorter(bytes, s, i + 1, i + k + 1, k + 1, o - i, o)
        BY ONLY <3>1, k \in Nat, PartShrinks
      <3>3. QED BY <3>2 DEF s, i, o, Shorter
    <2>3. Len(Flat!Readable(v)) = v.out - v.in
      BY <1>1, <2>1, ReadableIs DEF Flat!Size
    <2>4. QED BY <1>3, <2>2, <2>3 DEF Flat!Readable
  <1>7. w = Flat!Consumed(v, k)
    BY DEF w, bytes, Flat!Consumed
  <1>8. QED BY <1>2, <1>3, <1>5, <1>6, <1>7 DEF Flat!End

LEMMA EmptyIs ==
    ASSUME NEW v \in Buffer, v.in = 0, v.out = 0
    PROVE  Flat!Readable(v) = <<>> /\ Flat!Size(v) = 0
  <1>1. v.in <= v.out /\ v.out <= Len(v.mem)
    BY DEF Buffer
  <1>2. Flat!Size(v) = 0
    BY DEF Flat!Size
  <1>3. Flat!Readable(v) \in Seq(Nat) /\ Len(Flat!Readable(v)) = 0
    BY <1>1, <1>2, ReadableIs
  <1>4. QED BY <1>2, <1>3

LEMMA ClearedIs ==
    ASSUME NEW v, Sound(v)
    PROVE  /\ Sound(Flat!Cleared(v)) /\ Flat!Readable(Flat!Cleared(v)) = <<>>
           /\ Flat!Cleared(v).max = v.max /\ Flat!End(Flat!Cleared(v)) = Flat!End(v)
  <1> DEFINE bytes == Flat!Allocation(Len(v.mem), <<>>)
             w == [v EXCEPT !.mem = bytes, !.in = 0, !.out = 0, !.last = 0]
  <1>1. v \in Buffer /\ Len(v.mem) \in Nat /\ v.max < Word
    BY DEF Sound, Buffer
  <1>2. bytes \in Seq(Nat) /\ Len(bytes) = Len(v.mem)
    <2>1. <<>> \in Seq(Nat)
      OBVIOUS
    <2>2. QED BY <1>1, <2>1, AllocationIs
  <1> HIDE DEF bytes
  <1>3. /\ w \in Buffer /\ w.mem = bytes /\ w.in = 0 /\ w.out = 0 /\ w.last = 0 /\ w.max = v.max
    BY <1>1, <1>2 DEF Buffer
  <1>4. Flat!Cleared(v) = w
    BY DEF Flat!Cleared, bytes, Flat!End
  <1> HIDE DEF w
  <1>5. Sound(w)
    BY <1>1, <1>2, <1>3 DEF Sound, Within
  <1>6. QED BY <1>2, <1>3, <1>4, <1>5, EmptyIs DEF Flat!End

LEMMA NewIs ==
    ASSUME NEW max \in Nat, max < Word
    PROVE  /\ Sound(Flat!Empty(max)) /\ Flat!Readable(Flat!Empty(max)) = <<>>
           /\ Flat!Empty(max).max = max /\ Flat!End(Flat!Empty(max)) = 0
  <1> DEFINE w == Flat!Empty(max)
  <1>1. w \in Buffer /\ w.mem = <<>> /\ w.in = 0 /\ w.out = 0 /\ w.last = 0 /\ w.max = max
    BY DEF Flat!Empty, Buffer
  <1> HIDE DEF w
  <1>2. Sound(w)
    BY <1>1 DEF Sound, Within
  <1>3. Flat!Readable(w) = <<>> /\ Flat!End(w) = 0
    BY <1>1, EmptyIs DEF Flat!End
  <1>4. QED BY <1>1, <1>2, <1>3 DEF w

LEMMA WithMaxIs ==
    ASSUME NEW v, Sound(v), NEW max \in Nat, max < Word
    PROVE  LET w == [v EXCEPT !.max = max]
           IN  /\ Sound(w) /\ Flat!Readable(w) = Flat!Readable(v) /\ w.max = max /\ Flat!End(w) = Flat!End(v)
  <1> DEFINE w == [v EXCEPT !.max = max]
  <1>1. /\ w \in Buffer /\ w.mem = v.mem /\ w.in = v.in /\ w.out = v.out /\ w.last = v.last
        /\ w.max = max
    BY DEF Sound, Buffer
  <1> HIDE DEF w
  <1>2. QED BY <1>1 DEF Sound, Within, Flat!Readable, Flat!End, w

LEMMA CopiedIs ==
    ASSUME NEW v, Sound(v), NEW w, Sound(w)
    PROVE  /\ Sound(Flat!Copied(v, w)) /\ Flat!Readable(Flat!Copied(v, w)) = Flat!Readable(w)
           /\ Flat!End(Flat!Copied(v, w)) \in {Flat!End(v), Flat!Size(w)}
  <1>1. /\ v \in Buffer /\ Len(v.mem) \in Nat /\ v.max < Word
        /\ w \in Buffer /\ w.in <= w.out /\ w.out <= Len(w.mem)
    BY DEF Sound, Within, Buffer
  <1>2. /\ Flat!Size(w) \in Nat /\ Flat!Readable(w) \in Seq(Nat) /\ Len(Flat!Readable(w)) = Flat!Size(w)
    BY <1>1, ReadableIs
  <1>3. CASE Flat!Size(w) = 0
    <2>1. Flat!Readable(w) = <<>>
      BY <1>2, <1>3
    <2>2. QED BY <1>3, <2>1, ClearedIs DEF Flat!Copied
  <1>4. CASE Flat!Size(w) # 0
    <2> DEFINE n == Flat!Max({Len(v.mem), Flat!Size(w)})
               bytes == Flat!Allocation(n, Flat!Readable(w))
               u == [v EXCEPT !.mem = bytes, !.in = 0, !.out = Flat!Size(w), !.last = Flat!Size(w)]
    <2>1. n \in Nat /\ Flat!Size(w) <= n /\ n \in {Len(v.mem), Flat!Size(w)}
      BY <1>1, <1>2, LargerIs
    <2> HIDE DEF n
    <2>2. bytes \in Seq(Nat) /\ Len(bytes) = n
      BY <1>2, <2>1, AllocationIs
    <2> HIDE DEF bytes
    <2>3. /\ u \in Buffer /\ u.mem = bytes /\ u.in = 0 /\ u.out = Flat!Size(w) /\ u.last = Flat!Size(w)
          /\ u.max = v.max
      BY <1>1, <1>2, <2>2 DEF Buffer
    <2>4. Flat!Copied(v, w) = u
      BY <1>4 DEF Flat!Copied, bytes, n, Flat!End
    <2> HIDE DEF u
    <2>5. Sound(u)
      BY <1>1, <1>2, <2>1, <2>2, <2>3 DEF Sound, Within
    <2>6. Flat!Readable(u) = Flat!Readable(w)
      BY <1>1, <2>1, <2>3, FrontIs DEF bytes
    <2>7. QED BY <2>1, <2>2, <2>3, <2>4, <2>5, <2>6 DEF Flat!End
  <1>5. QED BY <1>3, <1>4

LEMMA AtFrontIs ==
    ASSUME NEW v, Sound(v), NEW n \in Nat, Flat!Size(v) <= n
    PROVE  LET w == [Flat!Moved(v, n) EXCEPT !.last = Flat!Size(v)]
           IN  Sound(w) /\ Flat!Readable(w) = Flat!Readable(v) /\ w.max = v.max /\ Flat!End(w) = n
  <1> DEFINE u == Flat!Moved(v, n)
             w == [u EXCEPT !.last = Flat!Size(v)]
  <1>1. v \in Buffer /\ v.in <= v.out /\ v.out <= Len(v.mem) /\ v.max < Word
    BY DEF Sound, Within, Buffer
  <1>2. Flat!Size(v) \in Nat
    BY <1>1, ReadableIs
  <1>3. /\ u \in Buffer /\ u.in = 0 /\ u.out = Flat!Size(v) /\ Len(u.mem) = n
        /\ u.max = v.max /\ Flat!Readable(u) = Flat!Readable(v)
    BY <1>1, MovedIs
  <1> HIDE DEF u
  <1>4. /\ w \in Buffer /\ w.mem = u.mem /\ w.in = 0 /\ w.out = Flat!Size(v) /\ w.last = Flat!Size(v)
        /\ w.max = v.max
    BY <1>2, <1>3 DEF Buffer
  <1> HIDE DEF w
  <1>5. Sound(w)
    BY <1>1, <1>2, <1>3, <1>4 DEF Sound, Within
  <1>6. Flat!Readable(w) = Flat!Readable(u) /\ Flat!End(w) = n
    BY <1>3, <1>4 DEF Flat!Readable, Flat!End
  <1>7. QED BY <1>3, <1>4, <1>5, <1>6 DEF w, u

LEMMA SizeIs ==
    ASSUME NEW v, Sound(v)
    PROVE  /\ v.max \in Nat /\ Flat!End(v) \in Nat /\ Flat!Size(v) \in Nat /\ Flat!Size(v) <= Flat!End(v)
           /\ Flat!Readable(v) \in Seq(Nat) /\ Len(Flat!Readable(v)) = Flat!Size(v)
           /\ v.last - v.out \in Nat
  <1>1. /\ v \in Buffer /\ v.in \in Nat /\ v.out \in Nat /\ v.last \in Nat /\ v.max \in Nat
        /\ Len(v.mem) \in Nat /\ v.in <= v.out /\ v.out <= v.last /\ v.last <= Len(v.mem)
    BY DEF Sound, Within, Buffer
  <1>2. /\ Flat!Size(v) \in Nat /\ Flat!Size(v) <= Len(v.mem) - v.in
        /\ Flat!Readable(v) \in Seq(Nat) /\ Len(Flat!Readable(v)) = Flat!Size(v)
    BY <1>1, ReadableIs
  <1>3. Flat!Size(v) <= Len(v.mem) /\ v.last - v.out \in Nat
    BY <1>1, <1>2
  <1>4. QED BY <1>1, <1>2, <1>3 DEF Flat!End

\* All buffers have the maximum m, and none has more room than that.
\* No allocation is larger than m.
Capped(m) == \A b \in Buffers : buf[b].max = m /\ Flat!End(buf[b]) <= m

\* A step that makes w of one buffer, which then holds q.
LEMMA OneChanged ==
    ASSUME FlatInv, NEW b \in Buffers, NEW w, Sound(w), NEW q \in Seq(Nat), Flat!Readable(w) = q,
           buf' = [buf EXCEPT ![b] = w], queue' = [queue EXCEPT ![b] = q], fresh' \in Nat \ {0},
           NEW m \in Nat, Capped(m) => w.max = m /\ Flat!End(w) <= m
    PROVE  FlatInv' /\ (Capped(m) => Capped(m)')
  <1>1. buf' = [c \in Buffers |-> IF c = b THEN w ELSE buf[c]]
    BY DEF FlatInv
  <1>2. queue' = [c \in Buffers |-> IF c = b THEN q ELSE queue[c]] /\ queue' \in [Buffers -> Seq(Nat)]
    BY DEF FlatInv
  <1>3. ASSUME NEW c \in Buffers PROVE Sound(buf'[c]) /\ Flat!Readable(buf'[c]) = queue'[c]
    BY <1>1, <1>2 DEF FlatInv
  <1>4. buf' = [c \in Buffers |-> buf'[c]]
    BY <1>1
  <1>5. \A c \in Buffers : Sound(buf[c])' /\ Flat!Readable(buf[c])' = queue[c]'
    BY <1>3 DEF Sound, Within, Flat!Readable
  <1>6. Capped(m) => \A c \in Buffers : buf'[c].max = m /\ Flat!End(buf'[c]) <= m
    BY <1>1 DEF Capped
  <1>7. QED BY <1>2, <1>4, <1>5, <1>6 DEF FlatInv, Capped, Flat!End

\* A step that makes w of one buffer and u of another.
LEMMA TwoChanged ==
    ASSUME FlatInv, NEW a \in Buffers, NEW b \in Buffers, a # b,
           NEW w, Sound(w), NEW q \in Seq(Nat), Flat!Readable(w) = q,
           NEW u, Sound(u), NEW r \in Seq(Nat), Flat!Readable(u) = r,
           buf' = [buf EXCEPT ![a] = w, ![b] = u], queue' = [queue EXCEPT ![a] = q, ![b] = r],
           fresh' \in Nat \ {0},
           NEW m \in Nat, Capped(m) => w.max = m /\ Flat!End(w) <= m /\ u.max = m /\ Flat!End(u) <= m
    PROVE  FlatInv' /\ (Capped(m) => Capped(m)')
  <1>1. buf' = [c \in Buffers |-> IF c = b THEN u ELSE IF c = a THEN w ELSE buf[c]]
    BY DEF FlatInv
  <1>2. /\ queue' = [c \in Buffers |-> IF c = b THEN r ELSE IF c = a THEN q ELSE queue[c]]
        /\ queue' \in [Buffers -> Seq(Nat)]
    BY DEF FlatInv
  <1>3. ASSUME NEW c \in Buffers PROVE Sound(buf'[c]) /\ Flat!Readable(buf'[c]) = queue'[c]
    BY <1>1, <1>2 DEF FlatInv
  <1>4. buf' = [c \in Buffers |-> buf'[c]]
    BY <1>1
  <1>5. \A c \in Buffers : Sound(buf[c])' /\ Flat!Readable(buf[c])' = queue[c]'
    BY <1>3 DEF Sound, Within, Flat!Readable
  <1>6. Capped(m) => \A c \in Buffers : buf'[c].max = m /\ Flat!End(buf'[c]) <= m
    BY <1>1 DEF Capped
  <1>7. QED BY <1>2, <1>4, <1>5, <1>6 DEF FlatInv, Capped, Flat!End

LEMMA FlatInit ==
    ASSUME Flat!FlatAssumption
    PROVE  Flat!Init => FlatInv /\ \A m \in Nat : (\A b \in Buffers : MaxSizes[b] = m) => Capped(m)
  <1> SUFFICES ASSUME Flat!Init PROVE FlatInv /\ \A m \in Nat : (\A b \in Buffers : MaxSizes[b] = m) => Capped(m)
    OBVIOUS
  <1>1. \A b \in Buffers : buf[b] = Flat!Empty(MaxSizes[b]) /\ MaxSizes[b] \in Nat /\ MaxSizes[b] < Word
    BY DEF Flat!Init, Flat!FlatAssumption
  <1>2. \A b \in Buffers : /\ Sound(buf[b]) /\ Flat!Readable(buf[b]) = <<>>
                          /\ buf[b].max = MaxSizes[b] /\ Flat!End(buf[b]) = 0
    BY <1>1, NewIs
  <1>3. /\ buf = [b \in Buffers |-> buf[b]] /\ queue \in [Buffers -> Seq(Nat)] /\ fresh \in Nat \ {0}
        /\ \A b \in Buffers : queue[b] = <<>>
    BY DEF Flat!Init
  <1>4. QED BY <1>2, <1>3 DEF FlatInv, Capped

LEMMA FlatUnchanged ==
    ASSUME UNCHANGED (Flat!vars)
    PROVE  (FlatInv => FlatInv') /\ \A m \in Nat : Capped(m) => Capped(m)'
  BY DEF Flat!vars, FlatInv, Capped, Sound, Within, Flat!Readable, Flat!End

LEMMA FlatNext ==
    ASSUME Flat!FlatAssumption,
           FlatInv, Flat!SizeIsCapped, Flat!Next, NEW m \in Nat, Floor <= m
    PROVE  FlatInv' /\ (Capped(m) => Capped(m)')
  <1>1. /\ \A b \in Buffers : /\ Sound(buf[b]) /\ Flat!Readable(buf[b]) = queue[b] /\ queue[b] \in Seq(Nat)
                             /\ Flat!Size(buf[b]) <= buf[b].max
                             /\ (Capped(m) => buf[b].max = m /\ Flat!End(buf[b]) <= m)
        /\ fresh \in Nat \ {0} /\ Floor \in Nat /\ Sizes \subseteq Nat
        /\ queue = [b \in Buffers |-> queue[b]] /\ buf = [b \in Buffers |-> buf[b]]
    <2>1. Floor \in Nat /\ Sizes \subseteq Nat
      BY DEF Flat!FlatAssumption
    <2>2. QED BY <2>1 DEF FlatInv, Flat!SizeIsCapped, Capped
  <1>2. \A b \in Buffers : queue = [queue EXCEPT ![b] = queue[b]]
    BY <1>1
  <1>3. ASSUME NEW b \in Buffers, NEW n \in Sizes, Flat!Prepare(b, n) PROVE FlatInv' /\ (Capped(m) => Capped(m)')
    <2> DEFINE w == Flat!Prepared(buf[b], n)
    <2>1. /\ Sound(w) /\ Flat!Readable(w) = queue[b] /\ w.max = buf[b].max
          /\ Flat!End(buf[b]) <= buf[b].max /\ Floor <= buf[b].max => Flat!End(w) <= buf[b].max
      BY <1>1, <1>3, PreparedIs DEF Flat!Prepare
    <2>2. /\ buf' = [buf EXCEPT ![b] = w] /\ queue' = [queue EXCEPT ![b] = queue[b]]
          /\ fresh' \in Nat \ {0}
      BY <1>1, <1>2, <1>3 DEF Flat!Prepare
    <2> HIDE DEF w
    <2>3. QED BY <1>1, <2>1, <2>2, OneChanged
  <1>4. ASSUME NEW b \in Buffers, NEW n \in Sizes, Flat!Commit(b, n) PROVE FlatInv' /\ (Capped(m) => Capped(m)')
    <2> DEFINE v == buf[b]
               k == Flat!Min({n, v.last - v.out})
               written == [i \in 1..k |-> ((fresh + i - 2) % Flat!Streams) + 1]
               w == Flat!Committed(v, written)
    <2>1. k \in Nat /\ k <= v.last - v.out
      <3>1. n \in Nat /\ v.last - v.out \in Nat
        BY <1>1, <1>4, SizeIs
      <3>2. k = IF n <= v.last - v.out THEN n ELSE v.last - v.out
        BY <3>1, LargerIs
      <3> HIDE DEF k
      <3>3. QED BY <3>1, <3>2
    <2>2. written \in Seq(Nat) /\ Len(written) = k
      <3> HIDE DEF k
      <3>1. written \in [1..k -> Nat]
        BY <1>1, <2>1 DEF Flat!Streams
      <3>2. QED BY <2>1, <3>1, IsSequence
    <2>3. fresh' \in Nat \ {0}
      <3>1. fresh' = ((fresh + k - 1) % Flat!Streams) + 1
        BY <1>4 DEF Flat!Commit
      <3> HIDE DEF k
      <3>2. QED BY <1>1, <2>1, <3>1 DEF Flat!Streams
    <2>4. buf' = [buf EXCEPT ![b] = w] /\ queue' = [queue EXCEPT ![b] = queue[b] \o written]
      BY <1>4 DEF Flat!Commit
    <2>5. Sound(w) /\ Flat!Readable(w) = Flat!Readable(v) \o written /\ w.max = v.max /\ Flat!End(w) = Flat!End(v)
      <3> HIDE DEF k, written, v
      <3>1. Sound(v)
        BY <1>1 DEF v
      <3>2. QED BY <2>1, <2>2, <3>1, CommitIs
    <2> HIDE DEF w, written, k
    <2>6. queue[b] \o written \in Seq(Nat)
      BY <1>1, <2>2
    <2>7. QED BY <1>1, <2>3, <2>4, <2>5, <2>6, OneChanged
  <1>5. ASSUME NEW b \in Buffers, NEW n \in Sizes, Flat!Consume(b, n) PROVE FlatInv' /\ (Capped(m) => Capped(m)')
    <2> DEFINE v == buf[b]
               k == Flat!Min({n, Flat!Size(v)})
               w == Flat!Consumed(v, k)
               q == SubSeq(queue[b], k + 1, Len(queue[b]))
    <2>1. k \in Nat /\ k <= Flat!Size(v) /\ Len(queue[b]) = Flat!Size(v)
      <3>1. n \in Nat /\ Flat!Size(v) \in Nat /\ Len(queue[b]) = Flat!Size(v)
        BY <1>1, <1>5, SizeIs
      <3>2. k = IF n <= Flat!Size(v) THEN n ELSE Flat!Size(v)
        BY <3>1, LargerIs
      <3> HIDE DEF k
      <3>3. QED BY <3>1, <3>2
    <2>2. buf' = [buf EXCEPT ![b] = w] /\ queue' = [queue EXCEPT ![b] = q] /\ fresh' \in Nat \ {0}
      BY <1>1, <1>5 DEF Flat!Consume
    <2>3. Sound(w) /\ Flat!Readable(w) = q /\ w.max = v.max /\ Flat!End(w) = Flat!End(v)
      <3>1. Sound(v) /\ Flat!Readable(v) = queue[b]
        BY <1>1
      <3> HIDE DEF k, v
      <3>2. QED BY <2>1, <3>1, ConsumeIs
    <2>4. q \in Seq(Nat)
      <3>1. queue[b] \in Seq(Nat) /\ k + 1 \in 1..Len(queue[b]) + 1
        BY <1>1, <2>1, SizeIs
      <3> HIDE DEF k
      <3>2. QED BY <3>1
    <2> HIDE DEF w, q, k
    <2>5. QED BY <1>1, <2>2, <2>3, <2>4, OneChanged
  <1>6. ASSUME NEW b \in Buffers, NEW n \in Sizes, Flat!Reserve(b, n) PROVE FlatInv' /\ (Capped(m) => Capped(m)')
    <2> DEFINE v == buf[b]
               w == [Flat!Moved(v, n) EXCEPT !.last = Flat!Size(v)]
    <2>1. /\ buf' = [buf EXCEPT ![b] = w] /\ queue' = [queue EXCEPT ![b] = queue[b]]
          /\ fresh' \in Nat \ {0} /\ n \in Flat!End(v) + 1..v.max /\ n \in Nat
      BY <1>1, <1>2, <1>6 DEF Flat!Reserve
    <2>2. Sound(v) /\ Flat!Readable(v) = queue[b] /\ Flat!End(v) \in Nat /\ Flat!Size(v) \in Nat /\ Flat!Size(v) <= Flat!End(v) /\ v.max \in Nat
      BY <1>1, SizeIs
    <2>3. Flat!Size(v) <= n /\ n <= v.max
      BY <2>1, <2>2
    <2>4. Sound(w) /\ Flat!Readable(w) = Flat!Readable(v) /\ w.max = v.max /\ Flat!End(w) = n
      BY <2>1, <2>2, <2>3, AtFrontIs
    <2> HIDE DEF w
    <2>5. QED BY <1>1, <2>1, <2>2, <2>3, <2>4, OneChanged
  <1>7. ASSUME NEW b \in Buffers, Flat!Clear(b) PROVE FlatInv' /\ (Capped(m) => Capped(m)')
    <2>1. /\ Sound(Flat!Cleared(buf[b])) /\ Flat!Readable(Flat!Cleared(buf[b])) = <<>>
          /\ Flat!Cleared(buf[b]).max = buf[b].max /\ Flat!End(Flat!Cleared(buf[b])) = Flat!End(buf[b])
      BY <1>1, ClearedIs
    <2>2. /\ buf' = [buf EXCEPT ![b] = Flat!Cleared(buf[b])] /\ queue' = [queue EXCEPT ![b] = <<>>]
          /\ fresh' \in Nat \ {0} /\ <<>> \in Seq(Nat)
      BY <1>1, <1>7 DEF Flat!Clear
    <2>3. QED BY <1>1, <2>1, <2>2, OneChanged
  <1>8. ASSUME NEW b \in Buffers, Flat!ShrinkToFit(b) PROVE FlatInv' /\ (Capped(m) => Capped(m)')
    <2> DEFINE v == buf[b]
               len == Flat!Size(v)
               w == IF len = 0 THEN Flat!Empty(v.max)
                    ELSE IF len = Flat!End(v) /\ v.in = 0 THEN v
                    ELSE [Flat!Moved(v, len) EXCEPT !.last = len]
    <2>1. /\ buf' = [buf EXCEPT ![b] = w] /\ queue' = [queue EXCEPT ![b] = queue[b]]
          /\ fresh' \in Nat \ {0}
      BY <1>1, <1>2, <1>8 DEF Flat!ShrinkToFit
    <2>2. /\ Sound(v) /\ Flat!Readable(v) = queue[b] /\ Flat!End(v) \in Nat /\ len \in Nat /\ len <= Flat!End(v)
          /\ v.max \in Nat /\ Len(Flat!Readable(v)) = len /\ Flat!Readable(v) \in Seq(Nat) /\ v.max < Word
      BY <1>1, SizeIs DEF Sound
    <2>3. Sound(w) /\ Flat!Readable(w) = Flat!Readable(v) /\ w.max = v.max /\ Flat!End(w) <= Flat!End(v)
      <3>1. CASE len = 0
        <4>1. Flat!Readable(v) = <<>>
          BY <2>2, <3>1
        <4>2. QED BY <2>2, <3>1, <4>1, NewIs
      <3>2. CASE len # 0 /\ len = Flat!End(v) /\ v.in = 0
        BY <2>2, <3>2
      <3>3. CASE len # 0 /\ ~(len = Flat!End(v) /\ v.in = 0)
        <4> DEFINE u == [Flat!Moved(v, len) EXCEPT !.last = Flat!Size(v)]
        <4>1. w = u
          BY <3>3
        <4>2. Sound(u) /\ Flat!Readable(u) = Flat!Readable(v) /\ u.max = v.max /\ Flat!End(u) = len
          BY <2>2, AtFrontIs
        <4> HIDE DEF u, w, len
        <4>3. QED BY <2>2, <4>1, <4>2
      <3>4. QED BY <3>1, <3>2, <3>3
    <2> HIDE DEF w
    <2>4. Capped(m) => w.max = m /\ Flat!End(w) <= m
      <3>1. Sound(w) => Flat!End(w) \in Nat
        BY SizeIs
      <3>2. QED BY <1>1, <2>2, <2>3, <3>1
    <2>5. QED BY <1>1, <2>1, <2>2, <2>3, <2>4, OneChanged
  <1>C. ASSUME NEW b \in Buffers, NEW v, Sound(v), Capped(m) => Flat!End(v) <= m
        PROVE  LET w == [Flat!Copied(v, buf[b]) EXCEPT !.max = buf[b].max]
               IN  Sound(w) /\ Flat!Readable(w) = queue[b] /\ (Capped(m) => w.max = m /\ Flat!End(w) <= m)
    <2> DEFINE c == Flat!Copied(v, buf[b])
               w == [c EXCEPT !.max = buf[b].max]
    <2>1. Sound(c) /\ Flat!Readable(c) = queue[b] /\ Flat!End(c) \in {Flat!End(v), Flat!Size(buf[b])}
      BY <1>1, <1>C, CopiedIs
    <2>2. /\ buf[b].max \in Nat /\ buf[b].max < Word
          /\ Flat!Size(buf[b]) \in Nat /\ Flat!Size(buf[b]) <= Flat!End(buf[b]) /\ Flat!End(buf[b]) \in Nat
      BY <1>1, SizeIs DEF Sound
    <2> HIDE DEF c
    <2>3. Sound(w) /\ Flat!Readable(w) = Flat!Readable(c) /\ w.max = buf[b].max /\ Flat!End(w) = Flat!End(c)
      BY <2>1, <2>2, WithMaxIs
    <2> HIDE DEF w
    <2>4. Capped(m) => w.max = m /\ Flat!End(w) <= m
      BY <1>1, <1>C, <2>1, <2>2, <2>3
    <2>5. QED BY <2>1, <2>3, <2>4 DEF w, c
  <1>9. ASSUME NEW a \in Buffers, NEW b \in Buffers, Flat!CopyAssign(a, b) PROVE FlatInv' /\ (Capped(m) => Capped(m)')
    <2>1. PICK v \in {buf[a], Flat!Empty(0)} : buf' = [buf EXCEPT ![a] = [Flat!Copied(v, buf[b]) EXCEPT !.max = buf[b].max]]
      BY <1>9 DEF Flat!CopyAssign
    <2> DEFINE w == [Flat!Copied(v, buf[b]) EXCEPT !.max = buf[b].max]
    <2>2. buf' = [buf EXCEPT ![a] = w] /\ queue' = [queue EXCEPT ![a] = queue[b]] /\ fresh' \in Nat \ {0}
      BY <1>1, <1>9, <2>1 DEF Flat!CopyAssign
    <2>3. Sound(v) /\ (Capped(m) => Flat!End(v) <= m)
      <3>1. 0 \in Nat /\ 0 < Word
        BY DEF Flat!FlatAssumption
      <3>2. Sound(Flat!Empty(0)) /\ Flat!End(Flat!Empty(0)) = 0
        BY <3>1, NewIs
      <3>3. QED BY <1>1, <2>1, <3>2
    <2>4. Sound(w) /\ Flat!Readable(w) = queue[b] /\ (Capped(m) => w.max = m /\ Flat!End(w) <= m)
      BY <1>C, <2>3
    <2> HIDE DEF w
    <2>5. QED BY <1>1, <2>2, <2>4, OneChanged
  <1>10. ASSUME NEW a \in Buffers, NEW b \in Buffers, Flat!MoveAssign(a, b) PROVE FlatInv' /\ (Capped(m) => Capped(m)')
    <2>1. PICK stolen \in BOOLEAN :
            buf' = [buf EXCEPT
               ![a] = [(IF stolen THEN buf[b] ELSE Flat!Copied(buf[a], buf[b])) EXCEPT !.max = buf[b].max],
               ![b] = IF stolen THEN Flat!Empty(buf[b].max) ELSE Flat!Cleared(buf[b])]
      BY <1>1, <1>10 DEF Flat!MoveAssign
    <2> DEFINE w == [(IF stolen THEN buf[b] ELSE Flat!Copied(buf[a], buf[b])) EXCEPT !.max = buf[b].max]
               u == IF stolen THEN Flat!Empty(buf[b].max) ELSE Flat!Cleared(buf[b])
    <2>2. /\ buf' = [buf EXCEPT ![a] = w, ![b] = u] /\ queue' = [queue EXCEPT ![a] = queue[b], ![b] = <<>>]
          /\ fresh' \in Nat \ {0} /\ a # b
      BY <1>1, <1>10, <2>1 DEF Flat!MoveAssign
    <2>3. buf[b].max \in Nat /\ buf[b].max < Word /\ Flat!End(buf[b]) \in Nat
      BY <1>1, SizeIs DEF Sound
    <2>4. Sound(w) /\ Flat!Readable(w) = queue[b] /\ (Capped(m) => w.max = m /\ Flat!End(w) <= m)
      <3>1. CASE stolen
        <4>1. w = [buf[b] EXCEPT !.max = buf[b].max]
          BY <3>1
        <4>2. QED BY <1>1, <2>3, <4>1, WithMaxIs
      <3>2. CASE ~stolen
        <4>1. w = [Flat!Copied(buf[a], buf[b]) EXCEPT !.max = buf[b].max]
          BY <3>2
        <4>2. Sound(buf[a]) /\ (Capped(m) => Flat!End(buf[a]) <= m)
          BY <1>1
        <4>3. QED BY <1>C, <4>1, <4>2
      <3>3. QED BY <3>1, <3>2
    <2>5. Sound(u) /\ Flat!Readable(u) = <<>> /\ (Capped(m) => u.max = m /\ Flat!End(u) <= m)
      BY <1>1, <2>3, NewIs, ClearedIs
    <2>6. <<>> \in Seq(Nat)
      OBVIOUS
    <2> HIDE DEF w, u
    <2>7. QED BY <1>1, <2>2, <2>4, <2>5, <2>6, TwoChanged
  <1>11. ASSUME NEW a \in Buffers, NEW b \in Buffers, Flat!Swap(a, b) PROVE FlatInv' /\ (Capped(m) => Capped(m)')
    <2>1. /\ buf' = [buf EXCEPT ![a] = buf[b], ![b] = buf[a]]
          /\ queue' = [queue EXCEPT ![a] = queue[b], ![b] = queue[a]]
          /\ fresh' \in Nat \ {0} /\ a # b
      BY <1>1, <1>11 DEF Flat!Swap
    <2>2. QED BY <1>1, <2>1, TwoChanged
  <1>12. QED BY <1>3, <1>4, <1>5, <1>6, <1>7, <1>8, <1>9, <1>10, <1>11 DEF Flat!Next

LEMMA FlatSafe == FlatInv => BytesAreKept
  <1> SUFFICES ASSUME FlatInv, NEW b \in Buffers
               PROVE  /\ Flat!Readable(buf[b]) = queue[b]
                      /\ buf[b].in <= buf[b].out /\ buf[b].out <= buf[b].last /\ buf[b].last <= Flat!End(buf[b])
    BY DEF BytesAreKept, Flat!BytesAreKept
  <1>1. QED BY DEF FlatInv, Sound, Within, Flat!End

\* Whatever the maximum sizes, the bytes are kept for as long as no buffer holds
\* more than its maximum.
THEOREM BytesWhileCapped ==
    ASSUME Flat!FlatAssumption
    PROVE  Flat!Spec /\ []Flat!SizeIsCapped => []BytesAreKept
  <1>1. Flat!Init => FlatInv
    BY FlatInit
  <1>2. FlatInv /\ Flat!SizeIsCapped /\ [Flat!Next]_(Flat!vars) => FlatInv'
    <2> SUFFICES ASSUME FlatInv, Flat!SizeIsCapped, [Flat!Next]_(Flat!vars) PROVE FlatInv'
      OBVIOUS
    <2>1. CASE Flat!Next
      <3>1. Floor \in Nat /\ Floor <= Floor
        BY DEF Flat!FlatAssumption
      <3>2. QED BY <2>1, <3>1, FlatNext
    <2>2. CASE UNCHANGED (Flat!vars)
      BY <2>2, FlatUnchanged
    <2>3. QED BY <2>1, <2>2
  <1>3. FlatInv => BytesAreKept
    BY FlatSafe
  <1>4. QED BY <1>1, <1>2, <1>3, PTL DEF Flat!Spec

\* ... which is always when they have one maximum, no less than the smallest
\* allocation.
THEOREM BytesAreAlwaysKept ==
    ASSUME Flat!FlatAssumption,
           NEW m \in Nat, Floor <= m, \A b \in Buffers : MaxSizes[b] = m
    PROVE  Flat!Spec => []BytesAreKept
  <1> DEFINE Inv == FlatInv /\ Capped(m)
  <1>1. Flat!Init => Inv
    BY FlatInit
  <1>2. Inv => Flat!SizeIsCapped
    <2> SUFFICES ASSUME Inv, NEW b \in Buffers PROVE Flat!Size(buf[b]) <= buf[b].max
      BY DEF Flat!SizeIsCapped
    <2>1. Sound(buf[b]) /\ buf[b].max = m /\ Flat!End(buf[b]) <= m
      BY DEF FlatInv, Capped
    <2>2. QED BY <2>1, SizeIs
  <1>3. Inv /\ [Flat!Next]_(Flat!vars) => Inv'
    <2> SUFFICES ASSUME Inv, [Flat!Next]_(Flat!vars) PROVE Inv'
      OBVIOUS
    <2>1. CASE Flat!Next
      BY <1>2, <2>1, FlatNext
    <2>2. CASE UNCHANGED (Flat!vars)
      BY <2>2, FlatUnchanged
    <2>3. QED BY <2>1, <2>2
  <1>4. Inv => BytesAreKept
    BY FlatSafe
  <1>5. QED BY <1>1, <1>3, <1>4, PTL DEF Flat!Spec

(***************************************************************************)
(* Transfer                                                                *)
(*                                                                         *)
(* TransferInv: what moved is a run of the length accumulated.  UntilInv: the*)
(* buffer is a beginning of the input, and no delimiter of the input ends at*)
(* search_pos or before it.                                                *)
(***************************************************************************)

LEMMA LesserIs ==
    ASSUME NEW m \in Nat, NEW n \in Nat
    PROVE  Io!Min({m, n}) = IF m <= n THEN m ELSE n
  BY DEF Io!Min

LEMMA LeastIs ==
    ASSUME NEW S \in SUBSET Nat, S # {}
    PROVE  Io!Min(S) \in S /\ \A x \in S : Io!Min(S) <= x
  <1> DEFINE Less == {p \in Nat \X Nat : p[1] < p[2]}
  <1>1. IsWellFoundedOn(Less, Nat)
    BY NatLessThanWellFounded DEF OpToRel
  <1>2. PICK k \in S : \A l \in S : ~(<<l, k>> \in Less)
    <2> HIDE DEF Less
    <2>1. QED BY <1>1, WFMin
  <1>3. ASSUME NEW l \in S PROVE k <= l
    <2>1. k \in Nat /\ l \in Nat /\ ~(<<l, k>> \in Less)
      BY <1>2
    <2>2. QED BY <2>1
  <1>4. QED BY <1>3 DEF Io!Min

\* What was moved: the span from its beginning, onto the device from where the
\* call said.
Run(n) == [i \in 1..n |-> <<i, IF call.at THEN Offset + i ELSE i>>]

\* What was accumulated is what moved, and the rest of the span remains.
Runs ==
    /\ call.async \in BOOLEAN /\ call.at \in BOOLEAN /\ call.total \in Nat
    /\ accumulated \in 0..call.total /\ remaining = call.total - accumulated
    /\ units = Run(accumulated)
    /\ IF call.at THEN offset = Offset + accumulated ELSE reached = accumulated

\* There is an outcome only at the end.
Outcome ==
    /\ callPc \in {"start", "asks", "done"}
    /\ callPc # "done" => reported = Io!NoOutcome

\* The first kind of call: the run so far, and what was reported at its end.
TransferInv ==
    /\ Outcome
    /\ Io!IsTransfer => /\ Runs
                        /\ callPc = "done" => /\ reported.ec = "ok" => remaining = 0 /\ reported.n = call.total
                                              /\ call.async => reported.n = accumulated /\ reported.handed = accumulated

LEMMA RunIs ==
    ASSUME Io!TransferAssumption,
           NEW n \in Nat
    PROVE  Run(n) \in Seq(Nat \X Nat) /\ Len(Run(n)) = n
  <1>1. \A i \in 1..n : <<i, IF call.at THEN Offset + i ELSE i>> \in Nat \X Nat
    BY DEF Io!TransferAssumption
  <1>2. Run(n) \in [1..n -> Nat \X Nat]
    BY <1>1 DEF Run
  <1>3. QED BY <1>2

\* A run of n, then k more.
RunContinues(n, k, p, m) == Run(n) \o [i \in 1..k |-> <<n + i, p + i>>] = Run(m)

LEMMA RunGrows ==
    ASSUME Io!TransferAssumption,
           NEW n \in Nat, NEW k \in Nat, NEW m, m = n + k,
           NEW p, IF call.at THEN p = Offset + n ELSE p = n
    PROVE  RunContinues(n, k, p, m)
  <1> DEFINE run == Run(n)
             piece == [i \in 1..k |-> <<n + i, p + i>>]
             longer == Run(m)
             both == run \o piece
  <1>1. m \in Nat /\ p \in Nat /\ Offset \in Nat
    BY DEF Io!TransferAssumption
  <1>2. /\ run \in Seq(Nat \X Nat) /\ Len(run) = n
        /\ \A i \in 1..n : run[i] = <<i, IF call.at THEN Offset + i ELSE i>>
    BY RunIs DEF Run
  <1>3. /\ longer \in Seq(Nat \X Nat) /\ Len(longer) = m
        /\ \A i \in 1..m : longer[i] = <<i, IF call.at THEN Offset + i ELSE i>>
    BY <1>1, RunIs DEF Run
  <1>4. piece \in Seq(Nat \X Nat) /\ Len(piece) = k /\ \A i \in 1..k : piece[i] = <<n + i, p + i>>
    <2>1. \A i \in 1..k : <<n + i, p + i>> \in Nat \X Nat
      BY <1>1
    <2>2. piece \in [1..k -> Nat \X Nat]
      BY <2>1
    <2>3. QED BY <2>2
  <1> HIDE DEF run, piece, longer
  <1>5. /\ both \in Seq(Nat \X Nat) /\ Len(both) = n + k
        /\ \A i \in 1..n + k : both[i] = IF i <= n THEN run[i] ELSE piece[i - n]
    <2>1. /\ run \o piece \in Seq(Nat \X Nat) /\ Len(run \o piece) = Len(run) + Len(piece)
          /\ \A i \in 1..Len(run) + Len(piece) :
                (run \o piece)[i] = IF i <= Len(run) THEN run[i] ELSE piece[i - Len(run)]
      <3>1. run \in Seq(Nat \X Nat) /\ piece \in Seq(Nat \X Nat)
        BY <1>2, <1>4
      <3>2. QED BY ONLY <3>1, ConcatProperties, ZenonT(30)
    <2>2. QED BY <1>2, <1>4, <2>1
  <1> HIDE DEF both
  <1>6. ASSUME NEW i \in 1..m PROVE both[i] = longer[i]
    <2>1. CASE i <= n
      <3>1. i \in 1..n /\ i \in 1..n + k
        BY <1>1, <2>1
      <3>2. both[i] = run[i]
        BY <1>5, <3>1
      <3>3. QED BY <1>2, <1>3, <3>1, <3>2
    <2>2. CASE i > n
      <3> DEFINE h == i - n
      <3>1. h \in 1..k /\ n + h = i /\ p + h = (IF call.at THEN Offset + i ELSE i)
        BY <1>1, <2>2
      <3>2. both[i] = piece[h]
        BY <1>5, <2>2
      <3> HIDE DEF h
      <3>3. piece[h] = <<i, IF call.at THEN Offset + i ELSE i>>
        BY <1>4, <3>1
      <3>4. QED BY <1>3, <3>2, <3>3
    <2>3. QED BY <2>1, <2>2
  <1>7. both = longer
    <2>1. Len(both) = Len(longer) /\ \A i \in 1..Len(both) : both[i] = longer[i]
      BY <1>3, <1>5, <1>6
    <2>2. QED BY <1>3, <1>5, <2>1, SeqEqual
  <1>8. QED BY <1>7 DEF RunContinues, both, run, piece, longer

LEMMA TransferInit ==
    ASSUME Io!TransferAssumption
    PROVE  Io!Init => TransferInv
  <1> SUFFICES ASSUME Io!Init PROVE TransferInv
    OBVIOUS
  <1>1. PICK c \in Transfers : Io!StartOf(c)
    BY DEF Io!Init
  <1>2. Outcome
    BY <1>1 DEF Io!StartOf, Outcome
  <1>3. ASSUME Io!IsTransfer PROVE Runs /\ callPc # "done"
    <2>1. call.async \in BOOLEAN /\ call.at \in BOOLEAN /\ call.total \in Nat
      BY <1>1, <1>3 DEF Io!StartOf, Io!IsTransfer, Io!TransferAssumption
    <2>2. Run(0) = <<>>
      BY DEF Run
    <2>3. QED BY <1>1, <1>3, <2>1, <2>2 DEF Io!StartOf, Runs, Io!TransferAssumption
  <1>4. QED BY <1>2, <1>3 DEF TransferInv

LEMMA TransferNext ==
    ASSUME Io!TransferAssumption
    PROVE  TransferInv /\ [Io!Next]_(Io!vars) => TransferInv'
  <1> SUFFICES ASSUME TransferInv, [Io!Next]_(Io!vars) PROVE TransferInv'
    OBVIOUS
  <1>0. CASE UNCHANGED (Io!vars)
    BY <1>0 DEF Io!vars, TransferInv, Outcome, Runs, Run, Io!IsTransfer
  <1>1. CASE Io!StartTransfer
    <2>1. Io!IsTransfer /\ Runs /\ callPc = "start" /\ Io!IsTransfer' = Io!IsTransfer
      BY <1>1 DEF Io!StartTransfer, TransferInv, Io!IsTransfer
    <2>2. Runs'
      BY <1>1, <2>1 DEF Io!StartTransfer, Runs, Run, Io!transferVars
    <2>3. CASE ~call.async /\ call.total = 0
      BY <1>1, <2>1, <2>2, <2>3 DEF Io!StartTransfer, TransferInv, Outcome, Io!Complete, Runs
    <2>4. CASE ~(~call.async /\ call.total = 0)
      BY <1>1, <2>1, <2>2, <2>4 DEF Io!StartTransfer, TransferInv, Outcome
    <2>5. QED BY <2>3, <2>4
  <1>2. CASE Io!Some
    <2>1. Io!IsTransfer /\ Runs /\ callPc = "asks" /\ Io!IsTransfer' = Io!IsTransfer /\ reported = Io!NoOutcome /\ call' = call
      BY <1>2 DEF Io!Some, TransferInv, Io!IsTransfer, Outcome
    <2>2. PICK n \in 0..remaining :
            /\ units' = units \o [i \in 1..n |-> <<call.total - remaining + i, Io!Position + i>>]
            /\ remaining' = remaining - n
            /\ accumulated' = accumulated + n
            /\ offset' = IF call.at THEN Io!Advanced(n) ELSE offset
            /\ reached' = IF call.at THEN reached ELSE reached + n
      BY <1>2 DEF Io!Some
    <2>3. /\ call.async \in BOOLEAN /\ call.at \in BOOLEAN /\ call.total \in Nat /\ Offset \in Nat
          /\ accumulated \in 0..call.total /\ remaining = call.total - accumulated
          /\ units = Run(accumulated)
          /\ IF call.at THEN offset = Offset + accumulated ELSE reached = accumulated
      BY <2>1 DEF Runs, Io!TransferAssumption
    <2>4. n \in Nat /\ accumulated \in Nat /\ accumulated + n \in 0..call.total
          /\ remaining' = call.total - accumulated' /\ accumulated' = accumulated + n
      BY <2>2, <2>3
    <2>5. units' = Run(accumulated')
      <3> DEFINE p == Io!Position
                 m == accumulated + n
      <3>1. (IF call.at THEN p = Offset + accumulated ELSE p = accumulated) /\ m = accumulated + n
        BY <2>3 DEF Io!Position
      <3>2. call.total - remaining = accumulated
        BY <2>3
      <3>3. units' = Run(accumulated) \o [i \in 1..n |-> <<accumulated + i, p + i>>]
        BY <2>2, <2>3, <3>2
      <3> HIDE DEF p, m
      <3>4. units' = Run(m)
        <4>1. RunContinues(accumulated, n, p, m)
          BY <2>4, <3>1, RunGrows
        <4>2. QED BY <3>3, <4>1 DEF RunContinues
      <3>5. QED BY <2>4, <3>4 DEF m
    <2>6. Runs'
      <3>1. Run(accumulated)' = Run(accumulated')
        BY <2>1 DEF Run
      <3>2. IF call.at THEN offset' = Offset + accumulated' ELSE reached' = accumulated'
        BY <2>2, <2>3, <2>4 DEF Io!Advanced
      <3>3. QED BY <2>1, <2>3, <2>4, <2>5, <3>1, <3>2 DEF Runs
    <2>7. CASE remaining' = 0
      <3>1. Io!Complete("ok", IF call.async THEN accumulated' ELSE call.total, accumulated')
        BY <1>2, <2>7 DEF Io!Some
      <3>2. accumulated' = call.total
        BY <2>3, <2>4, <2>7
      <3>3. QED BY <2>1, <2>3, <2>6, <2>7, <3>1, <3>2 DEF Io!Complete, TransferInv, Outcome
    <2>8. CASE remaining' # 0
      BY <1>2, <2>1, <2>6, <2>8 DEF Io!Some, TransferInv, Outcome
    <2>9. QED BY <2>7, <2>8
  <1>3. CASE Io!Fail
    <2>1. Io!IsTransfer /\ Runs /\ callPc = "asks" /\ Io!IsTransfer' = Io!IsTransfer /\ call' = call
      BY <1>3 DEF Io!Fail, TransferInv, Io!IsTransfer
    <2>2. Runs'
      BY <1>3, <2>1 DEF Io!Fail, Runs, Run, Io!transferVars
    <2>3. PICK ec \in Io!Errors : IF call.async THEN Io!Complete(ec, accumulated, accumulated) ELSE Io!Complete(ec, 0, 0)
      BY <1>3 DEF Io!Fail
    <2>4. accumulated' = accumulated /\ call.async \in BOOLEAN
      BY <1>3, <2>1 DEF Io!Fail, Io!transferVars, Runs
    <2>5. QED BY <2>1, <2>2, <2>3, <2>4 DEF Io!Complete, TransferInv, Outcome, Io!Errors
  <1>4. CASE Io!Search \/ Io!ReadMore \/ Io!ReadFails
    <2>1. ~Io!IsTransfer /\ call' = call
      BY <1>4 DEF Io!Search, Io!ReadMore, Io!ReadFails
    <2>2. Outcome'
      BY <1>4 DEF Io!Search, Io!ReadMore, Io!ReadFails, Io!Complete, TransferInv, Outcome
    <2>3. QED BY <2>1, <2>2 DEF TransferInv, Io!IsTransfer
  <1>5. QED BY <1>0, <1>1, <1>2, <1>3, <1>4 DEF Io!Next

LEMMA TransferSafe ==
    ASSUME Io!TransferAssumption
    PROVE  TransferInv => Io!TransferIsExact
  <1> SUFFICES ASSUME TransferInv, Io!IsTransfer PROVE Io!TransferIsExact
    BY DEF Io!TransferIsExact
  <1>1. Runs /\ accumulated \in Nat
    BY DEF TransferInv, Runs
  <1>2. Len(units) = accumulated /\ units = Run(accumulated)
    BY <1>1, RunIs DEF Runs
  <1>3. units = [i \in 1..Len(units) |-> <<i, IF call.at THEN Offset + i ELSE i>>]
    BY <1>2 DEF Run
  <1>4. reported.ec = "ok" => callPc = "done"
    BY DEF TransferInv, Outcome, Io!NoOutcome
  <1>5. QED BY <1>1, <1>2, <1>3, <1>4 DEF TransferInv, Io!TransferIsExact, Runs

-----------------------------------------------------------------------------
\* What there is to read, with what the buffer held before.
Input == call.held \o call.stream

\* The delimiter d ends at the position k of s.
Occurs(s, d, k) == k \in Len(d)..Len(s) /\ \A j \in 1..Len(d) : s[k - Len(d) + j] = d[j]

\* t begins with s.
Begins(s, t) == Len(s) <= Len(t) /\ \A i \in 1..Len(s) : s[i] = t[i]

\* The first place where d ends.
First(s, d, n) == n \in Nat /\ Occurs(s, d, n) /\ \A k \in Nat : Occurs(s, d, k) => k >= n

\* The buffer holds the input up to the cursor.
Read ==
    /\ {call.delim, call.stream, call.held} \subseteq Seq(Bytes) /\ call.max \in Nat
    /\ reached \in 0..Len(call.stream)
    /\ buffer \in Seq(Bytes) /\ Len(buffer) = Len(call.held) + reached /\ Len(buffer) <= call.max
    /\ Begins(buffer, Input)

\* What was looked at has no delimiter.
Looked ==
    /\ search_pos \in 0..Len(buffer)
    /\ callPc = "asks" => search_pos = Len(buffer) /\ call.delim # <<>>
    /\ call.delim # <<>> => \A k \in Nat : Occurs(Input, call.delim, k) => k > search_pos

\* What is reported at the end.
Found ==
    callPc = "done" =>
            /\ reported.ec = "ok" /\ call.delim # <<>> => First(Input, call.delim, reported.n)
            /\ reported.ec \in {"not_found", "eof"} => search_pos = Len(buffer) /\ call.delim # <<>>

\* The second kind of call.
UntilInv == ~Io!IsTransfer => Read /\ Looked /\ Found

\* t is the n bytes of s after c.
Piece(s, c, n, t) ==
    /\ t = SubSeq(s, c + 1, c + n)
    /\ t \in Seq(Bytes) /\ Len(t) = n /\ \A j \in 1..n : t[j] = s[c + j]

LEMMA PieceIs ==
    ASSUME NEW s \in Seq(Bytes), NEW c \in Nat, NEW n \in Nat, c + n <= Len(s)
    PROVE  Piece(s, c, n, SubSeq(s, c + 1, c + n))
  <1>1. c + 1 \in Int /\ c + n \in Int /\ \A j \in c + 1..c + n : s[j] \in Bytes
    OBVIOUS
  <1>2. /\ SubSeq(s, c + 1, c + n) \in Seq(Bytes)
        /\ Len(SubSeq(s, c + 1, c + n)) = IF c + 1 <= c + n THEN c + n - (c + 1) + 1 ELSE 0
        /\ \A j \in 1..c + n - (c + 1) + 1 : SubSeq(s, c + 1, c + n)[j] = s[c + 1 + j - 1]
    BY <1>1, SubSeqProperties
  <1> DEFINE t == SubSeq(s, c + 1, c + n)
  <1>3. /\ t \in Seq(Bytes) /\ Len(t) = IF c + 1 <= c + n THEN c + n - (c + 1) + 1 ELSE 0
        /\ \A j \in 1..c + n - (c + 1) + 1 : t[j] = s[c + 1 + j - 1]
    BY <1>2
  <1>0. t = SubSeq(s, c + 1, c + n)
    OBVIOUS
  <1> HIDE DEF t
  <1>4. ASSUME NEW j \in 1..n PROVE t[j] = s[c + j]
    <2>1. j \in 1..c + n - (c + 1) + 1 /\ c + 1 + j - 1 = c + j
      OBVIOUS
    <2>2. t[j] = s[c + 1 + j - 1]
      BY <1>3, <2>1
    <2>3. QED BY <2>1, <2>2
  <1>5. Len(t) = n
    BY <1>3
  <1>6. Piece(s, c, n, t)
    BY <1>0, <1>3, <1>4, <1>5 DEF Piece
  <1>7. QED BY <1>6 DEF t

LEMMA EndsAre ==
    ASSUME NEW s \in Seq(Bytes), NEW d \in Seq(Bytes), NEW start \in Nat, NEW k \in Nat
    PROVE  k \in Io!Ends(s, d, start) <=> k >= start + Len(d) /\ Occurs(s, d, k)
  <1>0. Len(s) \in Nat /\ Len(d) \in Nat
    OBVIOUS
  <1>1. CASE k \notin Len(d)..Len(s)
    BY <1>0, <1>1 DEF Io!Ends, Occurs
  <1>2. CASE k \in Len(d)..Len(s)
    <2> DEFINE c == k - Len(d)
               t == SubSeq(s, c + 1, c + Len(d))
    <2>1. c \in Nat /\ c + Len(d) = k /\ c + Len(d) <= Len(s)
      BY <1>0, <1>2
    <2>2. Piece(s, c, Len(d), t)
      BY <1>0, <2>1, PieceIs
    <2>3. k \in Io!Ends(s, d, start) <=> k >= start + Len(d) /\ t = d
      BY <1>0, <1>2, <2>1 DEF Io!Ends
    <2> HIDE DEF c, t
    <2>4. t \in Seq(Bytes) /\ Len(t) = Len(d) /\ \A j \in 1..Len(d) : t[j] = s[c + j]
      BY <2>2 DEF Piece
    <2>5. t = d <=> \A j \in 1..Len(d) : s[c + j] = d[j]
      <3>1. ASSUME \A j \in 1..Len(d) : s[c + j] = d[j] PROVE t = d
        <4>1. \A j \in 1..Len(t) : t[j] = d[j]
          BY <2>4, <3>1
        <4>2. QED BY ONLY <2>4, <4>1, s \in Seq(Bytes), d \in Seq(Bytes), SeqEqual
      <3>2. ASSUME t = d PROVE \A j \in 1..Len(d) : s[c + j] = d[j]
        BY <2>4, <3>2
      <3>3. QED BY <3>1, <3>2
    <2>6. Occurs(s, d, k) <=> \A j \in 1..Len(d) : s[c + j] = d[j]
      BY <1>2 DEF Occurs, c
    <2>7. QED BY <2>3, <2>5, <2>6
  <1>3. QED BY <1>1, <1>2

\* A place in what is read is one in the whole, and the other way round.
LEMMA OccursLater ==
    ASSUME NEW s \in Seq(Bytes), NEW t \in Seq(Bytes), NEW d \in Seq(Bytes), NEW k \in Nat,
           Begins(s, t), k <= Len(s)
    PROVE  Occurs(s, d, k) <=> Occurs(t, d, k)
  <1>1. Len(s) \in Nat /\ Len(t) \in Nat /\ Len(d) \in Nat /\ Len(s) <= Len(t)
    BY DEF Begins
  <1>2. ASSUME NEW j \in 1..Len(d), k \in Len(d)..Len(s)
        PROVE  s[k - Len(d) + j] = t[k - Len(d) + j]
    <2>1. k - Len(d) + j \in 1..Len(s)
      BY <1>1, <1>2
    <2>2. QED BY <2>1 DEF Begins
  <1>3. k \in Len(d)..Len(s) <=> k \in Len(d)..Len(t)
    BY <1>1
  <1>4. QED BY <1>2, <1>3 DEF Occurs

LEMMA InputIs ==
    ASSUME NEW h \in Seq(Bytes), NEW s \in Seq(Bytes)
    PROVE  /\ h \o s \in Seq(Bytes) /\ Len(h \o s) = Len(h) + Len(s)
           /\ \A i \in 1..Len(h) + Len(s) : (h \o s)[i] = IF i <= Len(h) THEN h[i] ELSE s[i - Len(h)]
  BY ConcatProperties, ZenonT(30)

\* What a read appends is what the input has there.
Appended(b, n) == b = buffer \o SubSeq(call.stream, reached + 1, reached + n)

LEMMA BufferGrows ==
    ASSUME Read, NEW n \in Nat, reached + n <= Len(call.stream), Len(buffer) + n <= call.max,
           NEW b, Appended(b, n)
    PROVE  b \in Seq(Bytes) /\ Len(b) = Len(call.held) + (reached + n) /\ Begins(b, Input)
  <1> DEFINE h == call.held
             s == call.stream
             t == SubSeq(s, reached + 1, reached + n)
             whole == h \o s
  <1>1. /\ h \in Seq(Bytes) /\ s \in Seq(Bytes) /\ Len(h) \in Nat /\ Len(s) \in Nat /\ reached \in Nat
        /\ buffer \in Seq(Bytes) /\ Len(buffer) = Len(h) + reached
        /\ Begins(buffer, Input)
    BY DEF Read
  <1>2. Piece(s, reached, n, t)
    BY <1>1, PieceIs
  <1>3. /\ whole \in Seq(Bytes) /\ Len(whole) = Len(h) + Len(s)
        /\ \A i \in 1..Len(h) + Len(s) : whole[i] = IF i <= Len(h) THEN h[i] ELSE s[i - Len(h)]
    BY <1>1, InputIs
  <1>4. b = buffer \o t /\ Input = whole
    BY DEF Input, Appended
  <1> HIDE DEF t, whole, h, s
  <1>5. t \in Seq(Bytes) /\ Len(t) = n /\ \A j \in 1..n : t[j] = s[reached + j]
    BY <1>2 DEF Piece
  <1>6. /\ b \in Seq(Bytes) /\ Len(b) = Len(buffer) + n
        /\ \A i \in 1..Len(buffer) + n : b[i] = IF i <= Len(buffer) THEN buffer[i] ELSE t[i - Len(buffer)]
    <2> DEFINE u == buffer
    <2>1. u \in Seq(Bytes) /\ u = buffer
      BY <1>1
    <2> HIDE DEF u
    <2>2. /\ u \o t \in Seq(Bytes) /\ Len(u \o t) = Len(u) + Len(t)
          /\ \A i \in 1..Len(u) + Len(t) : (u \o t)[i] = IF i <= Len(u) THEN u[i] ELSE t[i - Len(u)]
      BY <1>5, <2>1, InputIs
    <2>3. b = u \o t
      BY <1>4, <2>1
    <2>4. /\ b \in Seq(Bytes) /\ Len(b) = Len(u) + Len(t)
          /\ \A i \in 1..Len(u) + Len(t) : b[i] = IF i <= Len(u) THEN u[i] ELSE t[i - Len(u)]
      BY <2>2, <2>3
    <2>5. QED BY <1>5, <2>1, <2>4
  <1>7. ASSUME NEW i \in 1..Len(b) PROVE b[i] = whole[i]
    <2>1. CASE i <= Len(buffer)
      <3>1. i \in 1..Len(buffer) /\ i \in 1..Len(buffer) + n
        BY <1>1, <1>6, <2>1
      <3>2. b[i] = buffer[i]
        BY <1>6, <3>1
      <3>3. QED BY <1>1, <1>4, <3>1, <3>2 DEF Begins
    <2>2. CASE i > Len(buffer)
      <3> DEFINE g == i - Len(buffer)
                 f == i - Len(h)
      <3>1. g \in 1..n /\ i \in 1..Len(h) + Len(s) /\ f = reached + g /\ ~(i <= Len(h))
        BY <1>1, <1>5, <1>6, <2>2 DEF s
      <3>2. b[i] = t[g]
        <4>1. i \in 1..Len(buffer) + n /\ ~(i <= Len(buffer))
          BY <1>1, <1>6, <2>2
        <4>2. QED BY <1>6, <4>1
      <3>3. whole[i] = s[f]
        BY <1>3, <3>1
      <3> HIDE DEF g, f
      <3>4. t[g] = s[reached + g]
        BY <1>5, <3>1
      <3>5. QED BY <3>1, <3>2, <3>3, <3>4
    <2>3. QED BY <1>1, <1>6, <2>1, <2>2
  <1>8. Len(b) <= Len(whole)
    BY <1>1, <1>3, <1>6 DEF s
  <1>9. Begins(b, Input)
    BY <1>4, <1>7, <1>8 DEF Begins
  <1>10. Len(b) = Len(call.held) + (reached + n)
    <2>1. Len(b) = Len(h) + reached + n
      BY <1>1, <1>6
    <2>2. Len(h) = Len(call.held)
      BY DEF h
    <2>3. Len(b) = Len(h) + (reached + n)
      BY <1>1, <2>1
    <2>4. QED BY <2>2, <2>3, Zenon
  <1>11. QED BY <1>6, <1>9, <1>10

LEMMA UntilInit ==
    ASSUME Io!TransferAssumption
    PROVE  Io!Init => UntilInv
  <1> SUFFICES ASSUME Io!Init, ~Io!IsTransfer PROVE Read /\ Looked /\ Found
    BY DEF UntilInv
  <1>1. PICK c \in Transfers : Io!StartOf(c)
    BY DEF Io!Init
  <1>2. /\ call = c /\ callPc = "start" /\ reached = 0 /\ search_pos = 0 /\ buffer = call.held
        /\ reported = Io!NoOutcome
    BY <1>1 DEF Io!StartOf
  <1>3. /\ {call.delim, call.stream, call.held} \subseteq Seq(Bytes)
        /\ call.max \in Nat /\ Len(call.held) <= call.max
    BY <1>2 DEF Io!TransferAssumption, Io!IsTransfer
  <1> DEFINE h == call.held
             s == call.stream
             whole == h \o s
  <1>4. h \in Seq(Bytes) /\ s \in Seq(Bytes) /\ Len(h) \in Nat /\ Len(s) \in Nat
    BY <1>3
  <1>5. /\ whole \in Seq(Bytes) /\ Len(whole) = Len(h) + Len(s)
        /\ \A i \in 1..Len(h) + Len(s) : whole[i] = IF i <= Len(h) THEN h[i] ELSE s[i - Len(h)]
    BY <1>4, InputIs
  <1>6. Input = whole /\ buffer = h
    BY <1>2 DEF Input
  <1>7. Read
    <2> HIDE DEF whole, h, s
    <2>1. Len(h) <= Len(whole) /\ \A i \in 1..Len(h) : h[i] = whole[i]
      BY <1>4, <1>5
    <2>2. Begins(buffer, Input)
      BY <1>6, <2>1 DEF Begins
    <2>3. QED BY <1>2, <1>3, <1>4, <1>6, <2>2 DEF Read, h, s
  <1>8. Looked
    <2>1. ASSUME call.delim # <<>>, NEW k \in Nat, Occurs(Input, call.delim, k) PROVE k > search_pos
      <3>1. Len(call.delim) \in Nat \ {0}
        BY <1>3, <2>1
      <3>2. QED BY <1>2, <2>1, <3>1 DEF Occurs
    <2>2. QED BY <1>2, <1>4, <2>1 DEF Looked
  <1>9. QED BY <1>2, <1>7, <1>8 DEF Found


\* What a look that starts at LookFrom finds is the first of the input, or there
\* is none in what is read.
LEMMA LookFinds ==
    ASSUME Read, Looked, call.delim # <<>>,
           NEW found, found = Io!Ends(buffer, call.delim, Io!LookFrom(call.delim))
    PROVE  /\ found # {} => First(Input, call.delim, Io!Min(found))
           /\ found = {} => \A k \in Nat : Occurs(Input, call.delim, k) => k > Len(buffer)
  <1> DEFINE d == call.delim
             from == Io!LookFrom(call.delim)
  <1>1. /\ d \in Seq(Bytes) /\ Len(d) \in Nat /\ buffer \in Seq(Bytes) /\ Len(buffer) \in Nat
        /\ Begins(buffer, Input) /\ search_pos \in Nat
    <2>1. d \in Seq(Bytes) /\ buffer \in Seq(Bytes)
      BY DEF Read
    <2>2. QED BY <2>1 DEF Read, Looked
  <1>2. Input \in Seq(Bytes)
    <2>1. call.held \in Seq(Bytes) /\ call.stream \in Seq(Bytes)
      BY DEF Read
    <2>2. QED BY <2>1, InputIs DEF Input
  <1>3. from \in Nat /\ (from = 0 \/ from + Len(d) = search_pos + 1)
    <2>1. from = IF search_pos > Len(d) - 1 THEN search_pos - Len(d) + 1 ELSE 0
      BY DEF Io!LookFrom
    <2> HIDE DEF d, from
    <2>2. QED BY <1>1, <2>1
  <1>4. found = Io!Ends(buffer, d, from)
    OBVIOUS
  <1>5. \A k \in Nat : Occurs(Input, d, k) => k > search_pos /\ k >= Len(d)
    <2>1. \A k \in Nat : Occurs(Input, d, k) => k > search_pos
      BY DEF Looked
    <2> HIDE DEF d
    <2>2. \A k \in Nat : Occurs(Input, d, k) => k >= Len(d)
      BY <1>1 DEF Occurs
    <2>3. QED BY <2>1, <2>2
  <1>6. found \subseteq Nat
    BY <1>1, <1>3, <1>4 DEF Io!Ends
  <1> HIDE DEF d, from
  <1>7. ASSUME NEW k \in Nat, k <= Len(buffer), Occurs(Input, d, k) PROVE k \in found
    <2>1. Occurs(buffer, d, k)
      BY <1>1, <1>2, <1>7, OccursLater
    <2>2. k >= from + Len(d)
      BY <1>1, <1>3, <1>5, <1>7
    <2>3. QED BY <1>1, <1>3, <1>4, <2>1, <2>2, EndsAre
  <1>8. ASSUME NEW k \in found PROVE k <= Len(buffer) /\ Occurs(Input, d, k)
    <2>1. k \in Nat /\ Occurs(buffer, d, k)
      BY <1>1, <1>3, <1>4, <1>6, EndsAre
    <2>2. k <= Len(buffer)
      BY <1>1, <2>1 DEF Occurs
    <2>3. QED BY <1>1, <1>2, <2>1, <2>2, OccursLater
  <1>9. ASSUME found # {} PROVE First(Input, d, Io!Min(found))
    <2> DEFINE n == Io!Min(found)
    <2>1. n \in found /\ \A x \in found : n <= x
      BY <1>6, <1>9, LeastIs
    <2> HIDE DEF n
    <2>2. n \in Nat /\ n <= Len(buffer) /\ Occurs(Input, d, n)
      BY <1>6, <1>8, <2>1
    <2>3. ASSUME NEW k \in Nat, Occurs(Input, d, k) PROVE k >= n
      <3>1. CASE k <= Len(buffer)
        <4>1. k \in found
          BY <1>7, <2>3, <3>1
        <4>2. QED BY <2>1, <2>2, <4>1
      <3>2. CASE ~(k <= Len(buffer))
        BY <1>1, <2>2, <3>2
      <3>3. QED BY <3>1, <3>2
    <2>4. First(Input, d, n)
      BY <2>2, <2>3 DEF First
    <2>5. QED BY <2>4 DEF n
  <1>10. ASSUME found = {}, NEW k \in Nat, Occurs(Input, d, k) PROVE k > Len(buffer)
    <2>1. ~(k <= Len(buffer))
      BY <1>7, <1>10
    <2>2. QED BY <1>1, <2>1
  <1>11. QED BY <1>9, <1>10 DEF d

LEMMA UntilNext ==
    ASSUME Io!TransferAssumption
    PROVE  Outcome /\ UntilInv /\ [Io!Next]_(Io!vars) => UntilInv'
  <1> SUFFICES ASSUME Outcome, UntilInv, [Io!Next]_(Io!vars), ~Io!IsTransfer' PROVE (Read /\ Looked /\ Found)'
    BY DEF UntilInv
  <1>0. CASE UNCHANGED (Io!vars)
    <2>1. ~Io!IsTransfer
      BY <1>0 DEF Io!vars, Io!IsTransfer
    <2>2. Read /\ Looked /\ Found
      BY <2>1 DEF UntilInv
    <2>3. Input' = Input
      BY <1>0 DEF Io!vars, Input
    <2>4. QED BY <1>0, <2>2, <2>3 DEF Io!vars, Read, Looked, Found
  <1>1. CASE Io!StartTransfer \/ Io!Some \/ Io!Fail
    BY <1>1 DEF Io!StartTransfer, Io!Some, Io!Fail, Io!IsTransfer
  <1>2. ASSUME Io!Search \/ Io!ReadMore \/ Io!ReadFails
        PROVE  Read /\ Looked /\ Found /\ Input' = Input /\ call' = call /\ callPc # "done"
    <2>1. ~Io!IsTransfer /\ call' = call /\ callPc # "done"
      BY <1>2 DEF Io!Search, Io!ReadMore, Io!ReadFails
    <2>2. QED BY <2>1 DEF UntilInv, Input
  <1>3. CASE Io!Search
    <2>1. Read /\ Looked /\ Input' = Input /\ call' = call /\ buffer' = buffer /\ reached' = reached
      BY <1>2, <1>3 DEF Io!Search
    <2>2. Read'
      BY <2>1 DEF Read
    <2>3. CASE call.delim = <<>>
      <3>1. Io!Complete("ok", 0, 0) /\ search_pos' = search_pos
        BY <1>3, <2>3 DEF Io!Search
      <3>2. QED BY <2>1, <2>2, <2>3, <3>1 DEF Looked, Found, Io!Complete
    <2>4. CASE call.delim # <<>>
      <3> DEFINE found == Io!Ends(buffer, call.delim, Io!LookFrom(call.delim))
      <3>1. /\ found # {} => First(Input, call.delim, Io!Min(found))
            /\ found = {} => \A k \in Nat : Occurs(Input, call.delim, k) => k > Len(buffer)
        BY <2>1, <2>4, LookFinds
      <3>2. CASE found # {}
        <4>1. Io!Complete("ok", Io!Min(found), 0) /\ search_pos' = search_pos
          BY <1>3, <2>4, <3>2 DEF Io!Search
        <4>2. First(Input, call.delim, Io!Min(found))
          BY <3>1, <3>2
        <4> HIDE DEF found
        <4>3. QED BY <2>1, <2>2, <4>1, <4>2 DEF Looked, Found, Io!Complete
      <3>3. CASE found = {}
        <4>1. /\ search_pos' = Len(buffer)
              /\ IF Len(buffer) = call.max THEN Io!Complete("not_found", 0, 0)
                                           ELSE callPc' = "asks" /\ UNCHANGED reported
          BY <1>3, <2>4, <3>3 DEF Io!Search
        <4>2. \A k \in Nat : Occurs(Input, call.delim, k) => k > Len(buffer)
          BY <3>1, <3>3
        <4>3. Len(buffer) \in Nat
          BY <2>1 DEF Read
        <4>4. Looked'
          BY <2>1, <2>4, <4>1, <4>2, <4>3 DEF Looked
        <4>5. Found'
          BY <2>1, <2>4, <4>1 DEF Found, Io!Complete
        <4>6. QED BY <2>2, <4>4, <4>5
      <3>4. QED BY <3>2, <3>3
    <2>5. QED BY <2>3, <2>4
  <1>4. CASE Io!ReadMore
    <2>1. /\ Read /\ Looked /\ Input' = Input /\ call' = call
          /\ callPc = "asks" /\ callPc' = "start" /\ search_pos' = search_pos
      BY <1>2, <1>4 DEF Io!ReadMore
    <2>2. PICK n \in 1..Io!Min({Io!Room, Len(call.stream) - reached}) :
            buffer' = buffer \o SubSeq(call.stream, reached + 1, reached + n) /\ reached' = reached + n
      BY <1>4 DEF Io!ReadMore
    <2>3. /\ call.max \in Nat /\ Len(call.stream) \in Nat /\ reached \in Nat /\ reached <= Len(call.stream)
          /\ Len(buffer) \in Nat /\ Len(buffer) <= call.max /\ Step \in Nat
          /\ Len(buffer) = Len(call.held) + reached
      <3>1. call.stream \in Seq(Bytes) /\ buffer \in Seq(Bytes)
        BY <2>1 DEF Read
      <3>2. QED BY <2>1, <3>1 DEF Read, Io!TransferAssumption
    <2>4. n \in Nat /\ reached + n <= Len(call.stream) /\ Len(buffer) + n <= call.max
      <3> DEFINE rest == Len(call.stream) - reached
                 most == call.max - Len(buffer)
      <3>1. rest \in Nat /\ most \in Nat
        BY <2>3
      <3>2. Io!Room \in Nat /\ Io!Room <= most
        BY <2>3, <3>1, LesserIs DEF Io!Room
      <3>3. Io!Min({Io!Room, rest}) = IF Io!Room <= rest THEN Io!Room ELSE rest
        BY <3>1, <3>2, LesserIs
      <3>4. n \in Nat /\ n <= rest /\ n <= most
        BY <2>2, <3>1, <3>2, <3>3
      <3>5. QED BY <2>3, <3>4
    <2> DEFINE b == buffer'
    <2>5. Appended(b, n)
      BY <2>2 DEF Appended
    <2> HIDE DEF b
    <2>6. b \in Seq(Bytes) /\ Len(b) = Len(call.held) + (reached + n) /\ Begins(b, Input)
      BY <2>1, <2>4, <2>5, BufferGrows
    <2>7. b = buffer' /\ reached' = reached + n
      BY <2>2 DEF b
    <2>8. Begins(buffer, Input)' /\ Len(b) <= call.max /\ Len(b) \in Nat
      <3>1. Begins(buffer, Input)' = Begins(b, Input)
        BY <2>1, <2>7 DEF Begins
      <3>2. Len(b) = Len(buffer) + n
        <4> DEFINE h == Len(call.held)
        <4>1. Len(b) = h + (reached + n) /\ Len(buffer) = h + reached
          BY <2>3, <2>6
        <4>2. h \in Nat
          <5>1. call.held \in Seq(Bytes)
            BY <2>1 DEF Read
          <5>2. QED BY <5>1
        <4> HIDE DEF h
        <4>3. QED BY <2>3, <2>4, <4>1, <4>2
      <3>3. Len(b) <= call.max /\ Len(b) \in Nat
        BY <2>3, <2>4, <3>2
      <3>4. QED BY <2>6, <3>1, <3>3, Zenon
    <2>9. Read'
      <3>1. {call.delim, call.stream, call.held} \subseteq Seq(Bytes)
        BY <2>1 DEF Read
      <3>2. reached + n \in 0..Len(call.stream)
        BY <2>3, <2>4
      <3>3. buffer' \in Seq(Bytes) /\ Len(buffer') <= call.max
        BY <2>6, <2>7, <2>8
      <3>4. Len(buffer') = Len(call.held) + reached'
        BY <2>6, <2>7, Zenon
      <3>5. QED BY <2>1, <2>3, <2>7, <2>8, <3>1, <3>2, <3>3, <3>4 DEF Read
    <2>10. Looked'
      <3>1. search_pos \in 0..Len(b)
        <4> DEFINE h == Len(call.held)
        <4>1. Len(b) = h + (reached + n) /\ Len(buffer) = h + reached
          BY <2>3, <2>6
        <4>2. h \in Nat /\ search_pos \in 0..Len(buffer)
          <5>1. call.held \in Seq(Bytes)
            BY <2>1 DEF Read
          <5>2. QED BY <2>1, <5>1 DEF Looked
        <4> HIDE DEF h
        <4>3. QED BY <2>3, <2>4, <4>1, <4>2
      <3>2. search_pos' = search_pos /\ search_pos \in 0..Len(buffer') /\ callPc' # "asks"
        BY <2>1, <2>7, <3>1
      <3>3. call.delim # <<>> => \A k \in Nat : Occurs(Input, call.delim, k) => k > search_pos
        BY <2>1 DEF Looked
      <3>4. QED BY <2>1, <3>2, <3>3 DEF Looked
    <2>11. QED BY <2>1, <2>9, <2>10 DEF Found
  <1>5. CASE Io!ReadFails
    <2>1. /\ Read /\ Looked /\ Input' = Input /\ call' = call /\ buffer' = buffer /\ reached' = reached
          /\ search_pos' = search_pos /\ callPc = "asks"
      BY <1>2, <1>5 DEF Io!ReadFails
    <2>2. PICK ec \in Io!Errors : Io!Complete(ec, 0, 0)
      BY <1>5 DEF Io!ReadFails
    <2>3. QED BY <2>1, <2>2 DEF Read, Looked, Found, Io!Complete, Io!Errors
  <1>6. QED BY <1>0, <1>1, <1>3, <1>4, <1>5 DEF Io!Next

LEMMA FirstIsLeast ==
    ASSUME NEW s \in Seq(Bytes), NEW d \in Seq(Bytes), NEW n, First(s, d, n)
    PROVE  n = Io!Min(Io!Ends(s, d, 0))
  <1>1. \A k \in Nat : k \in Io!Ends(s, d, 0) <=> Occurs(s, d, k)
    <2>1. TAKE k \in Nat
    <2>2. k \in Io!Ends(s, d, 0) <=> k >= 0 + Len(d) /\ Occurs(s, d, k)
      BY EndsAre
    <2>3. QED BY <2>2 DEF Occurs
  <1>2. Io!Ends(s, d, 0) \subseteq Nat
    BY DEF Io!Ends
  <1>3. n \in Io!Ends(s, d, 0)
    BY <1>1 DEF First
  <1> DEFINE E == Io!Ends(s, d, 0)
             m == Io!Min(E)
  <1> HIDE DEF E
  <1>4. m \in E /\ \A x \in E : m <= x
    BY <1>2, <1>3, LeastIs DEF E
  <1> HIDE DEF m
  <1>5. m \in Nat /\ n \in Nat /\ m <= n /\ n <= m
    BY <1>1, <1>2, <1>3, <1>4 DEF First, E
  <1>6. QED BY <1>5 DEF m, E

LEMMA UntilSafe == Outcome /\ UntilInv => Io!FirstDelimiterIsFound
  <1> SUFFICES ASSUME Outcome, UntilInv, ~Io!IsTransfer, callPc = "done"
               PROVE  /\ buffer = SubSeq(Input, 1, Len(buffer)) /\ Len(buffer) <= call.max
                      /\ reported.ec = "ok" /\ call.delim # <<>> => reported.n = Io!Min(Io!Ends(Input, call.delim, 0))
                      /\ reported.ec \in {"not_found", "eof"} => Io!Ends(buffer, call.delim, 0) = {}
    BY DEF Io!FirstDelimiterIsFound, Input
  <1>1. Read /\ Looked /\ Found
    BY DEF UntilInv
  <1>2. /\ Input \in Seq(Bytes) /\ call.delim \in Seq(Bytes) /\ buffer \in Seq(Bytes)
        /\ Len(buffer) \in Nat /\ Begins(buffer, Input)
    <2>1. call.held \in Seq(Bytes) /\ call.stream \in Seq(Bytes) /\ buffer \in Seq(Bytes)
      BY <1>1 DEF Read
    <2>2. QED BY <1>1, <2>1, InputIs DEF Input, Read
  <1>3. buffer = SubSeq(Input, 1, Len(buffer))
    <2> DEFINE m == Len(buffer)
               t == SubSeq(Input, 0 + 1, 0 + m)
               u == SubSeq(Input, 1, m)
    <2>1. m \in Nat /\ 0 + m <= Len(Input)
      BY <1>2 DEF Begins
    <2>2. Piece(Input, 0, m, t)
      BY <1>2, <2>1, PieceIs
    <2>3. t = u
      BY <2>1
    <2>4. \A i \in 1..m : buffer[i] = Input[i]
      BY <1>2 DEF Begins
    <2>0. Len(buffer) = m
      OBVIOUS
    <2> HIDE DEF t, m, u
    <2>5. t \in Seq(Bytes) /\ Len(t) = m /\ \A j \in 1..m : t[j] = Input[0 + j]
      BY <2>2 DEF Piece
    <2>6. \A j \in 1..m : t[j] = buffer[j]
      <3>1. TAKE j \in 1..m
      <3>2. 0 + j = j
        BY <2>1
      <3>3. QED BY <2>4, <2>5, <3>2
    <2>7. t = buffer
      BY ONLY <1>2, <2>5, <2>6, <2>0, SeqEqual
    <2>8. QED BY <2>3, <2>7 DEF u, m
  <1>4. ASSUME reported.ec = "ok", call.delim # <<>> PROVE reported.n = Io!Min(Io!Ends(Input, call.delim, 0))
    BY <1>1, <1>2, <1>4, FirstIsLeast DEF Found
  <1>5. ASSUME reported.ec \in {"not_found", "eof"} PROVE Io!Ends(buffer, call.delim, 0) = {}
    <2>1. search_pos = Len(buffer) /\ call.delim # <<>>
      BY <1>1, <1>5 DEF Found
    <2>2. \A k \in Nat : Occurs(Input, call.delim, k) => k > Len(buffer)
      BY <1>1, <2>1 DEF Looked
    <2>3. ASSUME NEW k \in Io!Ends(buffer, call.delim, 0) PROVE FALSE
      <3>1. k \in Nat
        BY <1>2, <2>3 DEF Io!Ends
      <3>2. Occurs(buffer, call.delim, k)
        BY <1>2, <2>3, <3>1, EndsAre
      <3>3. k <= Len(buffer)
        BY <1>2, <3>1, <3>2 DEF Occurs
      <3>4. Occurs(Input, call.delim, k)
        BY <1>2, <3>1, <3>2, <3>3, OccursLater
      <3>5. QED BY <1>2, <2>2, <3>1, <3>3, <3>4
    <2>4. QED BY <2>3
  <1>6. QED BY <1>1, <1>3, <1>4, <1>5 DEF Read

\* On every cut of any data into pieces, read, write and their positional and
\* asynchronous forms move one run and report it, and read_until reports the first
\* delimiter, which it never misses although it does not look at a byte twice but
\* for what a delimiter may straddle.
THEOREM AlgorithmsKeepTheirWord ==
    ASSUME Io!TransferAssumption
    PROVE  Io!Spec => []AlgorithmsAreExact
  <1> DEFINE Inv == TransferInv /\ UntilInv
  <1>1. Io!Init => Inv
    BY TransferInit, UntilInit
  <1>2. Inv /\ [Io!Next]_(Io!vars) => Inv'
    BY TransferNext, UntilNext DEF TransferInv
  <1>3. Inv => AlgorithmsAreExact
    BY TransferSafe, UntilSafe DEF AlgorithmsAreExact, Io!AlgorithmsAreExact, TransferInv
  <1>4. QED BY <1>1, <1>2, <1>3, PTL DEF Io!Spec
=============================================================================
