----------------------------- MODULE SignalWait -----------------------------
(***************************************************************************)
(* signal_wait (include/coio/utils/signal_wait.h and the signal_state of   *)
(* each platform): the waiters of one signal in a doubly linked list, the  *)
(* watchdog that hands a signal to all of them, stop requests that take a  *)
(* waiter out again, and the disposition of the signal.  A signal is       *)
(* delivered once: from then on every wait completes with it at once.      *)
(***************************************************************************)
EXTENDS Naturals

CONSTANTS Waiters,      \* the operation states
          None,         \* nullptr in a link
          Windows,      \* TRUE: the handler sets a flag; FALSE: it writes to a pipe
          MaxRaises     \* bound: how often the signal is raised

SignalAssumption ==
    /\ {None, "this", "fired"} \cap Waiters = {} /\ Windows \in BOOLEAN /\ MaxRaises \in Nat

VARIABLES
    \* waiting_list, under mtx
    head,       \* "this": nobody waits; "fired": nullptr, delivered; or a waiter
    prev, next, \* the links of a waiter
    handler,    \* the disposition: "default" or "signal_handler"
    \* the operations
    phase,      \* phase[o], see operation_phase
    result,     \* result[o]: "none", "value", "stopped", "error"
    starter,    \* starter[o]: where start() is
    callback,   \* callback[o]: where request_cancel() is
    deliverer,  \* deliverer[o]: the thread that is to complete the receiver
    done,       \* the waiters whose receiver was completed
    \* the watchdog
    notices,    \* the signals in the pipe, or the flag
    raises,     \* how often the signal was raised
    dog,        \* "poll", "dispatch", "pop", "walk", "finish"
    cursor,     \* waiter and next of pop_all()
    after

listVars == <<head, prev, next, handler>>
opVars == <<phase, result, starter, callback, deliverer, done>>
dogVars == <<notices, raises, dog, cursor, after>>
vars == <<listVars, opVars, dogVars>>

Init ==
    /\ head = "this" /\ handler = "default"
    /\ prev = [o \in Waiters |-> None] /\ next = [o \in Waiters |-> None]
    /\ phase = [o \in Waiters |-> "starting"]
    /\ result = [o \in Waiters |-> "none"]
    /\ starter = [o \in Waiters |-> "idle"]
    /\ callback = [o \in Waiters |-> "idle"]
    /\ deliverer = [o \in Waiters |-> "none"]
    /\ done = {}
    /\ notices = 0 /\ raises = 0 /\ dog = "poll" /\ cursor = None /\ after = None

(***************************************************************************)
(* The end of an operation                                                 *)
(***************************************************************************)

\* finish(), by the given thread: whoever arms the operation delivers it
\* unless it is armed already.
FinishOp(o, thread, outcome) ==
    /\ result' = [result EXCEPT ![o] = outcome]
    /\ phase' = [phase EXCEPT ![o] = "completed"]
    /\ deliverer' = [deliverer EXCEPT ![o] = IF phase[o] = "armed" THEN thread ELSE "start"]

\* deliver(): reset() of the callback waits for it on another thread.
Deliver(o) ==
    /\ deliverer[o] # "none" /\ o \notin done
    /\ deliverer[o] = "start" => starter[o] = "deliver"
    /\ callback[o] \in {"idle", "over"} \/ deliverer[o] = "callback"
    /\ done' = done \cup {o}
    /\ UNCHANGED <<listVars, phase, result, starter, callback, deliverer, dogVars>>

(***************************************************************************)
(* start()                                                                 *)
(***************************************************************************)

Start(o) ==
    /\ starter[o] = "idle"
    /\ starter' = [starter EXCEPT ![o] = "add"]
    /\ UNCHANGED <<listVars, phase, result, callback, deliverer, done, dogVars>>

\* The signal was delivered before, or its handler cannot be installed.
AddNothing(o) ==
    /\ starter[o] = "add"
    /\ \/ head = "fired" /\ FinishOp(o, "start", "value")
       \/ head = "this" /\ FinishOp(o, "start", "error")
    /\ starter' = [starter EXCEPT ![o] = "deliver"]
    /\ UNCHANGED <<listVars, callback, done, dogVars>>

\* add()
Add(o) ==
    /\ starter[o] = "add" /\ head # "fired"
    /\ handler' = IF head = "this" THEN "signal_handler" ELSE handler
    /\ LET behind == IF head = "this" THEN None ELSE head
       IN  /\ next' = [next EXCEPT ![o] = behind]
           /\ prev' = [w \in Waiters |-> IF w = o THEN None
                                         ELSE IF w = behind THEN o ELSE prev[w]]
    /\ head' = o
    /\ starter' = [starter EXCEPT ![o] = "arm"]
    /\ UNCHANGED <<phase, result, callback, deliverer, done, dogVars>>

\* Faulty variant of Arm: arms the operation over a deferred stop request.
FaultyArm(o) ==
    /\ starter[o] = "arm"
    /\ \/ /\ phase[o] # "completed"
          /\ phase' = [phase EXCEPT ![o] = "armed"]
          /\ starter' = [starter EXCEPT ![o] = "over"]
       \/ /\ phase[o] = "completed"
          /\ starter' = [starter EXCEPT ![o] = "deliver"]
          /\ UNCHANGED phase
    /\ UNCHANGED <<listVars, result, callback, deliverer, done, dogVars>>

\* The exchanges of start() after do_start(): arm the operation, replay a stop
\* request, or deliver what was completed meanwhile.
Arm(o) ==
    /\ starter[o] \in {"arm", "rearm"}
    /\ \/ /\ phase[o] = IF starter[o] = "arm" THEN "starting" ELSE "cancel_deferred"
          /\ phase' = [phase EXCEPT ![o] = "armed"]
          /\ starter' = [starter EXCEPT ![o] = "over"]
       \/ /\ starter[o] = "arm" /\ phase[o] = "cancel_deferred"
          /\ starter' = [starter EXCEPT ![o] = "cancel"]
          /\ UNCHANGED phase
       \/ /\ phase[o] = "completed"
          /\ starter' = [starter EXCEPT ![o] = "deliver"]
          /\ UNCHANGED phase
    /\ UNCHANGED <<listVars, result, callback, deliverer, done, dogVars>>

(***************************************************************************)
(* Cancellation                                                            *)
(***************************************************************************)

\* The stop token is triggered and runs request_cancel(), once.
RequestStop(o) ==
    /\ starter[o] # "idle" /\ callback[o] = "idle" /\ o \notin done
    /\ callback' = [callback EXCEPT ![o] = "request"]
    /\ UNCHANGED <<listVars, phase, result, starter, deliverer, done, dogVars>>

RequestCancel(o) ==
    /\ callback[o] = "request"
    /\ callback' = [callback EXCEPT ![o] = IF phase[o] = "armed" THEN "cancel" ELSE "over"]
    /\ phase' = [phase EXCEPT ![o] = IF @ = "starting" THEN "cancel_deferred" ELSE @]
    /\ UNCHANGED <<listVars, result, starter, deliverer, done, dogVars>>

Linked(o) == prev[o] # None \/ head = o

\* remove(): the waiter is the head, or has one before it.
Remove(o) ==
    /\ Linked(o)
    /\ next' = [w \in Waiters |-> IF w = prev[o] THEN next[o] ELSE IF w = o THEN None ELSE next[w]]
    /\ prev' = [w \in Waiters |-> IF w = next[o] THEN prev[o] ELSE IF w = o THEN None ELSE prev[w]]
    /\ head' = IF head # o THEN head ELSE IF next[o] = None THEN "this" ELSE next[o]
    /\ handler' = IF head' = "this" THEN "default" ELSE handler

\* do_cancel() on the stopping thread, or replayed by start().
CancelByCallback(o) ==
    /\ callback[o] = "cancel"
    /\ \/ Remove(o) /\ callback' = [callback EXCEPT ![o] = "finish"]
       \/ ~Linked(o) /\ callback' = [callback EXCEPT ![o] = "over"] /\ UNCHANGED listVars
    /\ UNCHANGED <<phase, result, starter, deliverer, done, dogVars>>

CancelByStart(o) ==
    /\ starter[o] = "cancel"
    /\ \/ Remove(o) /\ starter' = [starter EXCEPT ![o] = "finish"]
       \/ ~Linked(o) /\ starter' = [starter EXCEPT ![o] = "rearm"] /\ UNCHANGED listVars
    /\ UNCHANGED <<phase, result, callback, deliverer, done, dogVars>>

\* The waiter that was removed is finished as cancelled.
FinishCancelled(o) ==
    /\ \/ /\ callback[o] = "finish" /\ FinishOp(o, "callback", "stopped")
          /\ callback' = [callback EXCEPT ![o] = "over"] /\ UNCHANGED starter
       \/ /\ starter[o] = "finish" /\ FinishOp(o, "start", "stopped")
          /\ starter' = [starter EXCEPT ![o] = "rearm"] /\ UNCHANGED callback
    /\ UNCHANGED <<listVars, done, dogVars>>

(***************************************************************************)
(* The signal and the watchdog                                             *)
(***************************************************************************)

\* The default action would end the program.  On Windows the handler is gone
\* once it ran, and what it sets is a flag.
RaisePosix ==
    /\ ~Windows /\ handler = "signal_handler" /\ raises < MaxRaises
    /\ raises' = raises + 1 /\ notices' = notices + 1
    /\ UNCHANGED <<listVars, opVars, dog, cursor, after>>

RaiseWindows ==
    /\ Windows /\ handler = "signal_handler" /\ raises < MaxRaises
    /\ raises' = raises + 1 /\ notices' = 1
    /\ handler' = "default"
    /\ UNCHANGED <<head, prev, next, opVars, dog, cursor, after>>

Watch ==
    /\ dog = "poll" /\ notices > 0
    /\ dog' = "dispatch" /\ notices' = notices - 1
    /\ UNCHANGED <<listVars, opVars, raises, cursor, after>>

\* dispatch_signal() restores the default action, then pops the waiters.
RestoreDefault ==
    /\ dog = "dispatch"
    /\ dog' = "pop" /\ handler' = "default"
    /\ UNCHANGED <<head, prev, next, opVars, notices, raises, cursor, after>>

\* One round of pop_all() under the lock: the waiter is taken off, and the
\* next one becomes the head of a chain that remove() does not know.
Detach(w) ==
    /\ cursor' = w
    /\ after' = IF w = None THEN None ELSE next[w]
    /\ prev' = [o \in Waiters |-> IF o = after' THEN None ELSE prev[o]]
    /\ next' = [o \in Waiters |-> IF o = w THEN None ELSE next[o]]
    /\ dog' = IF w = None THEN "poll" ELSE "finish"

PopAll ==
    /\ dog = "pop"
    /\ head' = "fired"
    /\ Detach(IF head \in Waiters THEN head ELSE None)
    /\ UNCHANGED <<handler, opVars, notices, raises>>

\* The waiter is finished outside the lock, and delivered if it was armed.
FinishPopped ==
    /\ dog = "finish"
    /\ FinishOp(cursor, "watchdog", "value")
    /\ dog' = "walk" /\ cursor' = after
    /\ UNCHANGED <<listVars, starter, callback, done, notices, raises, after>>

Walk ==
    /\ dog = "walk"
    /\ \A o \in Waiters : deliverer[o] = "watchdog" => o \in done
    /\ Detach(cursor)
    /\ UNCHANGED <<head, handler, opVars, notices, raises>>

(***************************************************************************)
(* The specification                                                       *)
(***************************************************************************)

Starting(o) == AddNothing(o) \/ Add(o) \/ Arm(o) \/ CancelByStart(o)
Canceling(o) == RequestCancel(o) \/ CancelByCallback(o) \/ FinishCancelled(o)
Watchdog == Watch \/ RestoreDefault \/ PopAll \/ FinishPopped \/ Walk

Next ==
    \/ \E o \in Waiters : Start(o) \/ Starting(o) \/ RequestStop(o) \/ Canceling(o) \/ Deliver(o)
    \/ RaisePosix \/ RaiseWindows
    \/ Watchdog

Spec == Init /\ [][Next]_vars

\* The threads inside start(), inside a stop callback and the watchdog are
\* scheduled.
Fairness ==
    /\ \A o \in Waiters : WF_vars(Starting(o)) /\ WF_vars(Canceling(o)) /\ WF_vars(Deliver(o))
    /\ WF_vars(Watchdog)

FairSpec == Spec /\ Fairness

-----------------------------------------------------------------------------
(***************************************************************************)
(* Properties                                                              *)
(***************************************************************************)

\* Nothing refers to a waiter whose receiver was completed and which may be
\* destroyed: no link, no local of pop_all(), no start() or callback.
NoUseAfterDelivery ==
    /\ done \cap {head, cursor, after} = {}
    /\ \A o \in Waiters \ done : {prev[o], next[o]} \cap done = {}
    /\ \A o \in done : starter[o] \in {"over", "deliver"} /\ callback[o] \in {"idle", "over"}

\* Each wait is one of a signal that is delivered once: it completes once,
\* with the signal only if that was raised, as stopped only if it was asked.
Contract == INSTANCE SignalContract
                WITH status <- [o \in Waiters |->
                                  CASE starter[o] = "idle" -> "idle"
                                    [] phase[o] = "completed" -> result[o]
                                    [] OTHER -> "started"],
                     raised <- raises > 0,
                     asked <- {o \in Waiters : callback[o] # "idle"}

ImplementsSignal == Contract!SignalSpec

\* A waiter whose signal was raised, or that was asked to stop, completes; in
\* particular one that is added while the watchdog works through the list.
EveryWaitEnds ==
    \A o \in Waiters :
        starter[o] # "idle" /\ (raises > 0 \/ callback[o] # "idle") ~> o \in done

\* As documented, the disposition of a signal that was delivered is the
\* default, and stays so.
RestoredOnceFired == head = "fired" => handler = "default"
=============================================================================
