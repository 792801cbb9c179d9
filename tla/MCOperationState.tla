-------------------------- MODULE MCOperationState --------------------------
(***************************************************************************)
(* The protocols that rest on a single atomic word: phase_ of an operation *)
(* state, on two stoppable operations and one schedule() post; incoming_   *)
(* of the queue that the posted ones go through, with two producers and    *)
(* three operations, enough for a batch of two to race a single enqueue    *)
(* and for an address to come back to a producer that still holds it as    *)
(* the expected head; and state_ of the mutex, with three lockers, so that *)
(* a line of two forms behind an owner, and a try_lock() caller.  A        *)
(* behaviour is about one of them, its subject; the others keep their      *)
(* initial state.                                                          *)
(***************************************************************************)
EXTENDS OperationState, OpQueue, AsyncMutex

CONSTANTS s1, s2, p1,           \* the operation states, as model values
          t1, t2, o1, o2, o3,   \* producers and operations of the queue
          l1, l2, l3, m1        \* users of the mutex

VARIABLE subject

mutexVars == vars

WordInit ==
    /\ subject \in {"operation", "queue", "mutex"}
    /\ OpInit /\ QueueInit /\ Init

WordNext ==
    /\ UNCHANGED subject
    /\ IF subject = "operation" THEN OpNext ELSE UNCHANGED opVars
    /\ IF subject = "queue" THEN QueueNext ELSE UNCHANGED queueVars
    /\ IF subject = "mutex" THEN Next ELSE UNCHANGED mutexVars

\* What is fair is only owed once a user has called into the component.
WordSpec ==
    /\ WordInit /\ [][WordNext]_<<subject, opVars, queueVars, mutexVars>>
    /\ OpFairness /\ QueueFairness /\ Fairness

-----------------------------------------------------------------------------
\* Nothing stays on its way: an operation that was started is delivered, one
\* that was enqueued is taken, and one that waits for the mutex gets it.
AllIsDelivered == Delivered /\ QueuedIsTaken /\ WaiterGetsLock
=============================================================================
