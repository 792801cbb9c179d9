----------------------------- MODULE AsyncLatch -----------------------------
(***************************************************************************)
(* async_latch (include/coio/sync_primitives.h) and the lock-free stack it *)
(* keeps its waiters in (include/coio/detail/atomic_intrusive_stack.h).    *)
(* Whoever brings the counter to zero takes the whole stack and completes  *)
(* it; a waiter that is pushed after that is told so by the stack and does *)
(* the same for itself and those that came after it.                       *)
(***************************************************************************)
EXTENDS IntrusiveChain

CONSTANTS Waiters,      \* the operation states of wait() and arrive_and_wait()
          Counters,     \* the threads that call count_down()
          Count,        \* the initial count
          Never,        \* the stack's own address: never pushed, never popped
          None          \* the null pointer: popped, and nothing pushed since

Clients == Waiters \cup Counters

ASSUME LatchAssumption ==
    /\ IsFiniteSet(Clients)
    /\ Waiters \cap Counters = {}
    /\ Count \in Nat
    /\ Never # None /\ {Never, None} \cap Clients = {}

VARIABLES
    counter,    \* counter_
    top,        \* head_ of the stack
    next,       \* next[w]: next_ of the operation state
    pc,         \* pc[c]: where client c is, see Labels
    seen,       \* seen[w]: old_top in push()
    walk,       \* walk[c]: what notify_waiters_() of c has still to complete
    queued,     \* the waiters that have been pushed
    by          \* by[w]: the client on whose thread w was completed, or None

vars == <<counter, top, next, pc, seen, walk, queued, by>>

\* "read", "cas": in push(); "notify", "walk": in notify_waiters_().
Labels == {"idle", "read", "cas", "notify", "walk", "returned"}

Init ==
    /\ counter = Count
    /\ top = Never
    /\ next = [w \in Waiters |-> None]
    /\ pc = [c \in Clients |-> "idle"]
    /\ seen = [w \in Waiters |-> None]
    /\ walk = [c \in Clients |-> None]
    /\ queued = {}
    /\ by = [w \in Waiters |-> None]

Goto(c, label) == pc' = [pc EXCEPT ![c] = label]

\* count_down(n) of c, up to the call of notify_waiters_() when nothing is
\* left, or to `otherwise'.  The counter is at least n: a precondition.
Subtract(c, n, otherwise) ==
    /\ n <= counter
    /\ counter' = counter - n
    /\ Goto(c, IF counter' = 0 THEN "notify" ELSE otherwise)

CountDown(c) ==
    /\ c \in Counters
    /\ pc[c] = "idle"
    /\ \E n \in 1..2 : Subtract(c, n, "idle")
    /\ UNCHANGED <<top, next, seen, walk, queued, by>>

\* start() of wait(), with 0, or arrive_and_wait(n).
Start(w) ==
    /\ w \in Waiters
    /\ pc[w] = "idle"
    /\ \E n \in 0..1 : Subtract(w, n, "read")
    /\ UNCHANGED <<top, next, seen, walk, queued, by>>

(***************************************************************************)
(* push() and pop_all()                                                    *)
(***************************************************************************)

ReadTop(w) ==
    /\ pc[w] = "read"
    /\ seen' = [seen EXCEPT ![w] = top]
    /\ next' = [next EXCEPT ![w] = IF top = Never THEN None ELSE top]
    /\ Goto(w, "cas")
    /\ UNCHANGED <<counter, top, walk, queued, by>>

\* Faulty variant of PushWaiter: every first waiter notifies.
FaultyNotifyAlways(w) ==
    /\ pc[w] = "cas"
    /\ \/ /\ top = seen[w]
          /\ top' = w
          /\ queued' = queued \cup {w}
          /\ Goto(w, IF seen[w] \in {None, Never} THEN "notify" ELSE "returned")
       \/ Goto(w, "read") /\ UNCHANGED <<top, queued>>
    /\ seen' = [seen EXCEPT ![w] = None]
    /\ UNCHANGED <<counter, next, walk, by>>

\* Faulty variant of PushWaiter: nobody who is pushed late notifies.
FaultyNeverNotifies(w) ==
    /\ pc[w] = "cas"
    /\ \/ /\ top = seen[w]
          /\ top' = w
          /\ queued' = queued \cup {w}
          /\ Goto(w, "returned")
       \/ Goto(w, "read") /\ UNCHANGED <<top, queued>>
    /\ seen' = [seen EXCEPT ![w] = None]
    /\ UNCHANGED <<counter, next, walk, by>>

\* compare_exchange_weak; start() returns, or calls notify_waiters_() when
\* the stack had been taken before.
PushWaiter(w) ==
    /\ pc[w] = "cas"
    /\ \/ /\ top = seen[w]
          /\ top' = w
          /\ queued' = queued \cup {w}
          /\ Goto(w, IF seen[w] = None THEN "notify" ELSE "returned")
       \/ Goto(w, "read") /\ UNCHANGED <<top, queued>>
    /\ seen' = [seen EXCEPT ![w] = None]
    /\ UNCHANGED <<counter, next, walk, by>>

PopAll(c) ==
    /\ pc[c] = "notify"
    /\ walk' = [walk EXCEPT ![c] = IF top = Never THEN None ELSE top]
    /\ top' = None
    /\ Goto(c, "walk")
    /\ UNCHANGED <<counter, next, seen, queued, by>>

\* The loop of notify_waiters_(): the link is read before the completion.
CompleteNext(c) ==
    /\ pc[c] = "walk"
    /\ walk[c] # None
    /\ walk' = [walk EXCEPT ![c] = next[walk[c]]]
    /\ by' = [by EXCEPT ![walk[c]] = c]
    /\ UNCHANGED <<counter, top, next, pc, seen, queued>>

\* notify_waiters_() returns to its caller; a start() that found zero without
\* queueing then completes its own operation.
Notified(c) ==
    /\ pc[c] = "walk"
    /\ walk[c] = None
    /\ Goto(c, IF c \in Counters THEN "idle" ELSE "returned")
    /\ by' = [w \in Waiters |-> IF w = c /\ w \notin queued THEN c ELSE by[w]]
    /\ UNCHANGED <<counter, top, next, seen, walk, queued>>

Continue(c) ==
    \/ ReadTop(c)
    \/ PushWaiter(c)
    \/ PopAll(c)
    \/ CompleteNext(c)
    \/ Notified(c)

Next == \E c \in Clients : CountDown(c) \/ Start(c) \/ Continue(c)

Spec == Init /\ [][Next]_vars

\* A thread inside the latch goes on, and its weak exchange does not fail for
\* ever without a reason; nobody has to count down.
Fairness ==
    \A c \in Clients : /\ WF_vars(Continue(c))
                       /\ SF_vars(PushWaiter(c) /\ top = seen[c] /\ top' = c)

FairSpec == Spec /\ Fairness

-----------------------------------------------------------------------------
(***************************************************************************)
(* Properties                                                              *)
(***************************************************************************)

Completed == {w \in Waiters : by[w] # None}

\* The types, that only pushed operations are walked over, and that the mark
\* of a fresh stack means what empty_and_never_pushed says.
TypeOK ==
    /\ counter \in 0..Count
    /\ top \in Waiters \cup {None, Never}
    /\ next \in [Waiters -> Waiters \cup {None}]
    /\ pc \in [Clients -> Labels]
    /\ seen \in [Waiters -> Waiters \cup {None, Never}]
    /\ walk \in [Clients -> Waiters \cup {None}]
    /\ queued \subseteq Waiters
    /\ by \in [Waiters -> Clients \cup {None}]
    /\ \A c \in Clients : walk[c] # None => pc[c] = "walk" /\ walk[c] \in queued
    /\ top = Never => queued = {}

Stacked == Chain(IF top = Never THEN None ELSE top, next, None)
Walked(c) == Chain(walk[c], next, None)

\* A wait completes only when nothing is left to count down.
CompletesAtZero == Completed # {} => counter = 0

\* Every queued operation is in one place: on the stack, in the hand of one
\* notifying thread, or completed.  None is lost and none completed twice.
QueuedIsInOnePlace ==
    /\ queued \ Completed =
          ToSet(Stacked) \cup UNION {ToSet(Walked(c)) : c \in Clients}
    /\ \A c \in Clients :
          /\ ToSet(Walked(c)) \cap (ToSet(Stacked) \cup Completed) = {}
          /\ \A d \in Clients \ {c} : ToSet(Walked(c)) \cap ToSet(Walked(d)) = {}
    /\ ToSet(Stacked) \cap Completed = {}

\* With the counter at zero nobody is left on the stack unless a thread is
\* about to take it.
NobodyLeftBehind ==
    counter = 0 /\ Stacked # <<>> => \E c \in Clients : pc[c] = "notify"

\* No waiter is lost: the state is well typed, whoever waits is in one place,
\* and somebody will come for it.
WaitersAreKept == TypeOK /\ QueuedIsInOnePlace /\ NobodyLeftBehind

\* Once the counter is zero every wait that was started ends, also one whose
\* push came after the notification.
EveryWaitEnds ==
    \A w \in Waiters : pc[w] # "idle" /\ counter = 0 ~> w \in Completed

\* docs/utils/synchronization.md:151: queued waiters complete on the thread
\* of the count_down() call that reaches zero, so never on that of another
\* waiter whose own count_down() left something and that had to queue.
CompletedByCountDown ==
    \A w \in Completed : by[w] \notin queued \ {w}

=============================================================================
