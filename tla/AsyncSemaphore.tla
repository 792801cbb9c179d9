--------------------------- MODULE AsyncSemaphore ---------------------------
(***************************************************************************)
(* async_semaphore (include/coio/sync_primitives.h).  counter_ is atomic:  *)
(* try_acquire() takes from it without the lock.  mtx_ protects the        *)
(* doubly linked waiting list, and start() holds it from its second look   *)
(* at the stop token until it has a permit or is in the list.  A stop      *)
(* callback unregisters its waiter from the list on its own thread.        *)
(***************************************************************************)
EXTENDS IntrusiveChain, Integers

CONSTANTS Waiters,      \* the operation states of acquire()
          Initial,      \* init of the constructor
          Maximum,      \* max()
          MaxReleases,  \* bound: how often release() is called
          None          \* the null pointer, and no holder of mtx_

ASSUME SemaphoreAssumption ==
    /\ IsFiniteSet(Waiters)
    /\ Maximum \in Nat \ {0}
    /\ Initial \in 0..Maximum
    /\ MaxReleases \in Nat
    /\ None \notin Waiters

VARIABLES
    counter,                \* counter_
    mtx,                    \* who is inside the critical section of start()
    listHead, listTail,     \* waiting_list_head_, waiting_list_tail_
    prev, next,             \* the links of the waiters
    pc,                     \* pc[w]: start() or complete() of w, see Labels
    cb,                     \* cb[w]: the stop callback, see Callbacks
    stop,                   \* the waiters whose token has been triggered
    outcome,                \* outcome[w]: what the receiver was told
    releases,               \* how often release() has been called
    terminated              \* std::terminate()

listVars == <<listHead, listTail, prev, next>>
opVars == <<pc, cb, stop, outcome>>
vars == <<counter, mtx, listVars, opVars, releases, terminated>>

\* "complete" and "stopped": about to reset the callback and tell the
\* receiver; "complete" runs in start() or in release().
Labels == {"idle", "emplace", "inline", "lock", "recheck", "try", "append",
           "stopped", "complete", "waiting", "done"}
\* "stopping": the callback has taken its waiter out of the list.
Callbacks == {"none", "registered", "running", "stopping", "returned"}

Init ==
    /\ counter = Initial
    /\ mtx = None
    /\ listHead = None /\ listTail = None
    /\ prev = [w \in Waiters |-> None]
    /\ next = [w \in Waiters |-> None]
    /\ pc = [w \in Waiters |-> "idle"]
    /\ cb = [w \in Waiters |-> "none"]
    /\ stop = {}
    /\ outcome = [w \in Waiters |-> "none"]
    /\ releases = 0
    /\ terminated = FALSE

Goto(w, label) == pc' = [pc EXCEPT ![w] = label]
Tell(w, what) == outcome' = [outcome EXCEPT ![w] = what]

(***************************************************************************)
(* start()                                                                 *)
(***************************************************************************)

\* The first look at the token.
Start(w) ==
    /\ pc[w] = "idle"
    /\ IF w \in stop
       THEN Tell(w, "stopped") /\ Goto(w, "done")
       ELSE Goto(w, "emplace") /\ UNCHANGED outcome
    /\ UNCHANGED <<counter, mtx, listVars, cb, stop, releases, terminated>>

\* Constructing the callback calls it at once, on this thread, if stop has
\* been requested meanwhile.
EmplaceCallback(w) ==
    /\ pc[w] = "emplace"
    /\ cb' = [cb EXCEPT ![w] = IF w \in stop THEN "running" ELSE "registered"]
    /\ Goto(w, IF w \in stop THEN "inline" ELSE "lock")
    /\ UNCHANGED <<counter, mtx, listVars, stop, outcome, releases, terminated>>

Lock(w) ==
    /\ pc[w] = "lock" \/ (pc[w] = "inline" /\ cb[w] = "returned")
    /\ mtx = None
    /\ mtx' = w
    /\ Goto(w, "recheck")
    /\ UNCHANGED <<counter, listVars, cb, stop, outcome, releases, terminated>>

\* Faulty variant of Recheck: the token is not looked at again.
FaultyRecheck(w) ==
    /\ pc[w] = "recheck"
    /\ Goto(w, "try")
    /\ UNCHANGED <<counter, mtx, listVars, cb, stop, outcome, releases, terminated>>

\* The second look: a callback that has already run did not find the waiter
\* in the list.
Recheck(w) ==
    /\ pc[w] = "recheck"
    /\ IF w \in stop
       THEN Goto(w, "stopped") /\ mtx' = None
       ELSE Goto(w, "try") /\ UNCHANGED mtx
    /\ UNCHANGED <<counter, listVars, cb, stop, outcome, releases, terminated>>

\* try_acquire() under the lock.
TryPermit(w) ==
    /\ pc[w] = "try"
    /\ IF counter > 0
       THEN counter' = counter - 1 /\ Goto(w, "complete") /\ mtx' = None
       ELSE Goto(w, "append") /\ UNCHANGED <<counter, mtx>>
    /\ UNCHANGED <<listVars, cb, stop, outcome, releases, terminated>>

AppendWaiter(w) ==
    /\ pc[w] = "append"
    /\ listTail' = w
    /\ prev' = [prev EXCEPT ![w] = listTail]
    /\ IF listTail = None
       THEN listHead' = w /\ next' = [next EXCEPT ![w] = None]
       ELSE next' = [next EXCEPT ![w] = None, ![listTail] = w] /\ UNCHANGED listHead
    /\ mtx' = None
    /\ Goto(w, "waiting")
    /\ UNCHANGED <<counter, cb, stop, outcome, releases, terminated>>

(***************************************************************************)
(* Completion                                                              *)
(***************************************************************************)

\* Faulty variant of Complete: stop_cb_ is not reset.
FaultyComplete(w) ==
    /\ pc[w] \in {"complete", "stopped"}
    /\ Goto(w, "done")
    /\ Tell(w, IF pc[w] = "complete" THEN "value" ELSE "stopped")
    /\ UNCHANGED <<counter, mtx, listVars, cb, stop, releases, terminated>>

\* stop_cb_.reset() deregisters the callback, or waits until it has returned;
\* then set_value() by complete(), or set_stopped() by start().
Complete(w) ==
    /\ pc[w] \in {"complete", "stopped"}
    /\ cb[w] \in {"registered", "returned"}
    /\ cb' = [cb EXCEPT ![w] = "returned"]
    /\ Goto(w, "done")
    /\ Tell(w, IF pc[w] = "complete" THEN "value" ELSE "stopped")
    /\ UNCHANGED <<counter, mtx, listVars, stop, releases, terminated>>

(***************************************************************************)
(* Stop requests                                                           *)
(***************************************************************************)

RequestStop(w) ==
    /\ w \notin stop
    /\ stop' = stop \cup {w}
    /\ UNCHANGED <<counter, mtx, listVars, pc, cb, outcome, releases, terminated>>

InvokeCallback(w) ==
    /\ w \in stop
    /\ cb[w] = "registered"
    /\ cb' = [cb EXCEPT ![w] = "running"]
    /\ UNCHANGED <<counter, mtx, listVars, pc, stop, outcome, releases, terminated>>

\* Faulty variant of Unlink: the tail is not maintained.
FaultyUnlink(w) ==
    /\ listHead' = (IF prev[w] = None THEN next[w] ELSE listHead)
    /\ next' = [v \in Waiters |-> IF v = w THEN None
                                  ELSE IF v = prev[w] THEN next[w] ELSE next[v]]
    /\ prev' = [v \in Waiters |-> IF v = w THEN None
                                  ELSE IF v = next[w] THEN prev[w] ELSE prev[v]]
    /\ UNCHANGED listTail

\* Take w out of the list.
Unlink(w) ==
    /\ listHead' = (IF prev[w] = None THEN next[w] ELSE listHead)
    /\ listTail' = (IF next[w] = None THEN prev[w] ELSE listTail)
    /\ next' = [v \in Waiters |-> IF v = w THEN None
                                  ELSE IF v = prev[w] THEN next[w] ELSE next[v]]
    /\ prev' = [v \in Waiters |-> IF v = w THEN None
                                  ELSE IF v = next[w] THEN prev[w] ELSE prev[v]]

\* unregister_() tells by the links whether the waiter is in the list.
Unregister(w) ==
    /\ cb[w] = "running"
    /\ mtx = None
    /\ IF prev[w] # None \/ listHead = w
       THEN Unlink(w) /\ cb' = [cb EXCEPT ![w] = "stopping"]
       ELSE cb' = [cb EXCEPT ![w] = "returned"] /\ UNCHANGED listVars
    /\ UNCHANGED <<counter, mtx, pc, stop, outcome, releases, terminated>>

\* on_stop_requested() completes the waiter it has taken out.
SetStopped(w) ==
    /\ cb[w] = "stopping"
    /\ cb' = [cb EXCEPT ![w] = "returned"]
    /\ Goto(w, "done")
    /\ Tell(w, "stopped")
    /\ UNCHANGED <<counter, mtx, listVars, stop, releases, terminated>>

(***************************************************************************)
(* release() and try_acquire()                                             *)
(***************************************************************************)

\* Faulty variant of GivePermit: serves the waiter that came last.
FaultyGivePermit ==
    /\ listTail # None
    /\ Goto(listTail, "complete")
    /\ Unlink(listTail)
    /\ UNCHANGED <<counter, terminated>>

\* The permit goes to the head of the list, whose completion this thread
\* calls after the unlock.
GivePermit ==
    /\ listHead # None
    /\ Goto(listHead, "complete")
    /\ Unlink(listHead)
    /\ UNCHANGED <<counter, terminated>>

\* Without waiters the permit goes back; one too many terminates the program.
PutBack ==
    /\ listHead = None
    /\ IF counter = Maximum
       THEN terminated' = TRUE /\ UNCHANGED counter
       ELSE counter' = counter + 1 /\ UNCHANGED terminated
    /\ UNCHANGED <<pc, listVars>>

\* Faulty variant of Release: looks for waiters before it locks.
FaultyRelease ==
    /\ releases < MaxReleases
    /\ releases' = releases + 1
    /\ (mtx = None /\ GivePermit) \/ PutBack
    /\ UNCHANGED <<mtx, cb, stop, outcome>>

Release ==
    /\ releases < MaxReleases
    /\ releases' = releases + 1
    /\ mtx = None
    /\ GivePermit \/ PutBack
    /\ UNCHANGED <<mtx, cb, stop, outcome>>

\* A successful try_acquire() of the user.
TryAcquire ==
    /\ counter > 0
    /\ counter' = counter - 1
    /\ UNCHANGED <<mtx, listVars, opVars, releases, terminated>>

(***************************************************************************)
(* The specification                                                       *)
(***************************************************************************)

Starting(w) ==
    \/ EmplaceCallback(w)
    \/ Lock(w)
    \/ Recheck(w)
    \/ TryPermit(w)
    \/ AppendWaiter(w)

Stopping(w) == InvokeCallback(w) \/ Unregister(w) \/ SetStopped(w)

Next ==
    /\ ~terminated
    /\ \/ \E w \in Waiters : \/ Start(w)
                             \/ Starting(w)
                             \/ Complete(w)
                             \/ RequestStop(w)
                             \/ Stopping(w)
       \/ Release
       \/ TryAcquire

Spec == Init /\ [][Next]_vars

\* A thread inside start(), complete() or a stop callback is scheduled; nobody
\* has to release.  No fairness of the lock is needed: each waiter takes it
\* twice at most.
Fairness ==
    \A w \in Waiters : /\ WF_vars(~terminated /\ Starting(w))
                       /\ WF_vars(~terminated /\ Complete(w))
                       /\ WF_vars(~terminated /\ Stopping(w))

FairSpec == Spec /\ Fairness

-----------------------------------------------------------------------------
(***************************************************************************)
(* Properties                                                              *)
(***************************************************************************)

\* The types, and that mtx_ is held exactly inside the critical section.
TypeOK ==
    /\ counter \in 0..Maximum
    /\ mtx \in Waiters \cup {None}
    /\ {listHead, listTail} \subseteq Waiters \cup {None}
    /\ prev \in [Waiters -> Waiters \cup {None}]
    /\ next \in [Waiters -> Waiters \cup {None}]
    /\ pc \in [Waiters -> Labels]
    /\ cb \in [Waiters -> Callbacks]
    /\ stop \subseteq Waiters
    /\ outcome \in [Waiters -> {"none", "value", "stopped"}]
    /\ releases \in 0..MaxReleases
    /\ terminated \in BOOLEAN
    /\ \A w \in Waiters : mtx = w <=> pc[w] \in {"recheck", "try", "append"}

Line == Chain(listHead, next, None)

\* The list is the same in both directions and holds exactly the operations
\* that wait: neither a grant nor a cancellation loses or leaves anybody.
WaitersAreLinked ==
    /\ IsInjective(Line)
    /\ Reverse(Line) = Chain(listTail, prev, None)
    /\ ToSet(Line) = {w \in Waiters : pc[w] = "waiting" /\ cb[w] # "stopping" /\ outcome[w] = "none"}

\* Type correctness, and the list of waiters holds whoever waits.
WaitersAreSound == TypeOK /\ WaitersAreLinked

\* Nobody waits while a permit is free: the check and the append of start()
\* cannot be separated by a release().
NoIdlePermit == listHead # None => counter = 0

\* The receiver is told once everything else is over with the operation: no
\* thread is in its start(), its callback is not executing and cannot be
\* called, and it is not linked.
NoUseAfterDelivery ==
    \A w \in Waiters : outcome[w] # "none" =>
        /\ pc[w] = "done"
        /\ cb[w] \in {"none", "returned"}
        /\ w \notin {listHead, listTail} /\ prev[w] = None /\ next[w] = None

\* An operation is served when it has its permit, and has given up when it is
\* out of the list for good; the receiver hears of it afterwards.
IsGranted(w) == pc[w] = "complete" \/ outcome[w] = "value"
HasGivenUp(w) == pc[w] = "stopped" \/ cb[w] = "stopping" \/ outcome[w] = "stopped"

\* Permits are conserved, waiters are served in order, and an operation is
\* granted or stopped but never both.
Semaphore == INSTANCE FifoSemaphore
    WITH permits <- counter,
         line <- Line,
         granted <- {w \in Waiters : IsGranted(w)},
         stopped <- {w \in Waiters : HasGivenUp(w)}

ImplementsSemaphore == Semaphore!SemaphoreSpec

\* A stop request that hits an operation anywhere in start() or in the list
\* ends its wait, unless the program is terminated first.
StopIsAnswered ==
    \A w \in Waiters :
        pc[w] # "idle" /\ w \in stop ~> outcome[w] # "none" \/ terminated

=============================================================================
