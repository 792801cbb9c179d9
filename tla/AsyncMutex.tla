----------------------------- MODULE AsyncMutex -----------------------------
(***************************************************************************)
(* async_mutex (include/coio/sync_primitives.h).  state_ is "not locked",  *)
(* "locked but no waiter" or the top of a stack of waiting operations that *)
(* lockers push; head_ is the owner's list of older waiters, which it      *)
(* refills by reversing the stack.  The clients are the operation states   *)
(* of lock(), identified by their address, and try_lock() callers; each    *)
(* may come back after it has unlocked, at the same address (ABA).         *)
(***************************************************************************)
EXTENDS IntrusiveChain

CONSTANTS Lockers,      \* clients of lock()
          Tryers,       \* clients of try_lock()
          NotLocked,    \* not_locked, the tagged value 1
          None          \* the null pointer, also locked_but_no_waiter

Clients == Lockers \cup Tryers

ASSUME MutexAssumption ==
    /\ IsFiniteSet(Clients)
    /\ Lockers \cap Tryers = {}
    /\ NotLocked # None /\ {NotLocked, None} \cap Clients = {}

VARIABLES
    state,  \* state_
    head,   \* head_
    next,   \* next[c]: next_ of the operation state
    seen,   \* seen[c]: old_state of start(), the stack read by unlock()
    pc      \* pc[c]: where client c is, see Labels

vars == <<state, head, next, seen, pc>>

\* "cas", "push": in start(); "waiting": suspended; "owner": has the lock;
\* "release", "exchange", "handoff": in unlock(), "handoff" with the list to
\* serve in hand.
Labels == {"idle", "cas", "push", "waiting", "owner", "release", "exchange", "handoff"}

Owning == {"owner", "release", "exchange", "handoff"}

Init ==
    /\ state = NotLocked
    /\ head = None
    /\ next = [c \in Lockers |-> None]
    /\ seen = [c \in Clients |-> None]
    /\ pc = [c \in Clients |-> "idle"]

Goto(c, label) == pc' = [pc EXCEPT ![c] = label]

(***************************************************************************)
(* lock() and try_lock()                                                   *)
(***************************************************************************)

StartLock(c) ==
    /\ c \in Lockers
    /\ pc[c] = "idle"
    /\ Goto(c, "cas")
    /\ UNCHANGED <<state, head, next, seen>>

\* The guess that the mutex is free: compare_exchange_strong, which reads the
\* actual state when it fails.
GuessFree(c) ==
    /\ pc[c] = "cas"
    /\ IF state = NotLocked
       THEN /\ state' = None
            /\ Goto(c, "owner")
            /\ UNCHANGED <<next, seen>>
       ELSE /\ seen' = [seen EXCEPT ![c] = state]
            /\ next' = [next EXCEPT ![c] = state]
            /\ Goto(c, "push")
            /\ UNCHANGED state
    /\ UNCHANGED head

\* compare_exchange_weak puts the operation on top of what was read; it fails
\* when the state has changed, or spuriously, and start() begins again.
PushWaiter(c) ==
    /\ pc[c] = "push"
    /\ \/ /\ state = seen[c]
          /\ state' = c
          /\ Goto(c, "waiting")
       \/ /\ Goto(c, "cas")
          /\ UNCHANGED state
    /\ seen' = [seen EXCEPT ![c] = None]
    /\ UNCHANGED <<head, next>>

TryLock(c) ==
    /\ c \in Tryers
    /\ pc[c] = "idle"
    /\ state = NotLocked
    /\ state' = None
    /\ Goto(c, "owner")
    /\ UNCHANGED <<head, next, seen>>

(***************************************************************************)
(* unlock()                                                                *)
(***************************************************************************)

\* head_.load(): serve the list if there is one.
Unlock(c) ==
    /\ pc[c] = "owner"
    /\ seen' = [seen EXCEPT ![c] = head]
    /\ Goto(c, IF head = None THEN "release" ELSE "handoff")
    /\ UNCHANGED <<state, head, next>>

\* compare_exchange_strong from "no waiter" to "not locked".
ReleaseLock(c) ==
    /\ pc[c] = "release"
    /\ IF state = None
       THEN state' = NotLocked /\ Goto(c, "idle")
       ELSE Goto(c, "exchange") /\ UNCHANGED state
    /\ UNCHANGED <<head, next, seen>>

\* Faulty variant of TakeStack: exchanges the stack for not_locked.
FaultyFreeStack(c) ==
    LET stack == Chain(state, next, None)
    IN  /\ pc[c] = "exchange"
        /\ next' = ReversedLinks(stack, next, None)
        /\ seen' = [seen EXCEPT ![c] = Last(stack)]
        /\ state' = NotLocked
        /\ Goto(c, "handoff")
        /\ UNCHANGED head

\* Faulty variant of TakeStack: serves the stack as it is.
FaultyTakeStack(c) ==
    /\ pc[c] = "exchange"
    /\ seen' = [seen EXCEPT ![c] = state]
    /\ state' = None
    /\ Goto(c, "handoff")
    /\ UNCHANGED <<head, next>>

\* Take the whole stack and turn it round, the first to come first.
TakeStack(c) ==
    LET stack == Chain(state, next, None)
    IN  /\ pc[c] = "exchange"
        /\ next' = ReversedLinks(stack, next, None)
        /\ seen' = [seen EXCEPT ![c] = Last(stack)]
        /\ state' = None
        /\ Goto(c, "handoff")
        /\ UNCHANGED head

\* Faulty variant of HandOff: forgets to store the rest of the list.
FaultyHandOff(c) ==
    /\ pc[c] = "handoff"
    /\ seen' = [seen EXCEPT ![c] = None]
    /\ pc' = [pc EXCEPT ![c] = "idle", ![seen[c]] = "owner"]
    /\ UNCHANGED <<head, state, next>>

\* head_.store() and complete_(): the first waiter owns the mutex.
HandOff(c) ==
    /\ pc[c] = "handoff"
    /\ head' = next[seen[c]]
    /\ seen' = [seen EXCEPT ![c] = None]
    /\ pc' = [pc EXCEPT ![c] = "idle", ![seen[c]] = "owner"]
    /\ UNCHANGED <<state, next>>

Locking(c) == GuessFree(c) \/ PushWaiter(c)
Unlocking(c) == Unlock(c) \/ ReleaseLock(c) \/ TakeStack(c) \/ HandOff(c)

Next == \E c \in Clients : StartLock(c) \/ Locking(c) \/ TryLock(c) \/ Unlocking(c)

Spec == Init /\ [][Next]_vars

\* An owner unlocks in the end, and a thread inside lock() or unlock() is
\* scheduled.  That the weak exchange of start() succeeds is not assumed.
Fairness == \A c \in Clients : WF_vars(Locking(c) \/ Unlocking(c))

FairSpec == Spec /\ Fairness

-----------------------------------------------------------------------------
(***************************************************************************)
(* Properties                                                              *)
(***************************************************************************)

Owners == {c \in Clients : pc[c] \in Owning}

\* The types, and the tag: state_ says "not locked" exactly when nobody owns
\* the mutex, so a handed-over mutex never looks free in between.
TypeOK ==
    /\ state \in Lockers \cup {NotLocked, None}
    /\ head \in Lockers \cup {None}
    /\ next \in [Lockers -> Lockers \cup {None}]
    /\ seen \in [Clients -> Lockers \cup {None}]
    /\ pc \in [Clients -> Labels]
    /\ state = NotLocked <=> Owners = {}

\* Mutual exclusion, whatever lock(), try_lock() and unlock() overlap with.
MutualExclusion == Cardinality(Owners) <= 1

\* The waiting operations, the longest waiting first: what the unlocking
\* owner holds in its hand or head_, then the stack from its bottom.
FirstInLine ==
    LET inHand == {c \in Clients : pc[c] = "handoff"}
    IN  IF inHand = {} THEN head ELSE seen[CHOOSE c \in inHand : TRUE]
TopOfStack == IF state = NotLocked THEN None ELSE state
Older == Chain(FirstInLine, next, None)
Newer == Chain(TopOfStack, next, None)
Line == Older \o Reverse(Newer)

\* Every suspended operation is in the waiting line once, and nobody else is:
\* no waiter is dropped and none is completed twice.  The state is well typed.
WaitersAreInLine ==
    /\ TypeOK
    /\ ToSet(Line) = {c \in Lockers : pc[c] = "waiting"}
    /\ IsInjective(Line)

Owner == IF Owners = {} THEN None ELSE CHOOSE c \in Owners : TRUE

\* One owner, first come first served, never free while somebody waits: the
\* mutex implements the lock its documentation promises.
Lock == INSTANCE FifoLock WITH Nobody <- None, owner <- Owner, line <- Line

ImplementsFifoLock == Lock!LockSpec

\* An operation that has been queued gets the mutex, whatever the stream of
\* other lockers and try_lock() callers.
WaiterGetsLock == \A c \in Lockers : pc[c] = "waiting" ~> pc[c] = "owner"

=============================================================================
