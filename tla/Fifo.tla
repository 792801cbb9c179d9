-------------------------------- MODULE Fifo --------------------------------
(***************************************************************************)
(* fifo (include/coio/utils/fifo.h): a channel of a container under a      *)
(* small lock and two semaphores, one that counts the free slots and one   *)
(* that counts the elements.  Each semaphore is the FifoSemaphore that     *)
(* AsyncSemaphore is shown to implement; an operation takes a permit of    *)
(* one, works on the container, and releases the other, and other threads  *)
(* run between any two of these.  A user performs one operation.           *)
(***************************************************************************)
EXTENDS Integers, Sequences, FiniteSets

CONSTANTS Producers, Consumers,     \* the users: each value is its producer's name
          MaxSize,                  \* max_size() of the container: without one it
                                    \* is the largest count of a semaphore
          Preloaded                 \* the elements the container is constructed with

Users == Producers \cup Consumers

ASSUME FifoAssumption ==
    /\ IsFiniteSet(Users)
    /\ MaxSize \in Nat \ {0}
    /\ Producers \cap Consumers = {}
    /\ Preloaded \in Seq(Producers)

VARIABLES underlying,               \* the container
          step,                     \* step[u]: where the operation of u is
          pushed, popped,           \* history: the values in and out
          freeSlots, slotLine,      \* full_sema_: its permits and its line
          elements, elementLine,    \* empty_sema_
          granted, stopped, asked, overflowed

fullVars == <<freeSlots, slotLine>>
emptyVars == <<elements, elementLine>>
sharedVars == <<granted, stopped, asked, overflowed>>
semaVars == <<fullVars, emptyVars, sharedVars>>
channelVars == <<underlying, pushed, popped>>
fifoVars == <<channelVars, step, semaVars>>

Full == INSTANCE FifoSemaphore WITH
    Waiters <- Producers, Initial <- MaxSize, Maximum <- MaxSize,
    permits <- freeSlots, line <- slotLine, stop <- asked, terminated <- overflowed
Empty == INSTANCE FifoSemaphore WITH
    Waiters <- Consumers, Initial <- Len(Preloaded), Maximum <- MaxSize,
    permits <- elements, line <- elementLine, stop <- asked, terminated <- overflowed

FifoInit ==
    /\ underlying = Preloaded
    /\ step = [u \in Users |-> "idle"]
    /\ pushed = Preloaded /\ popped = <<>>
    /\ Full!SemaphoreInit
    /\ Empty!SemaphoreInit

At(u, where) == step[u] = where
Go(u, where) == step' = [step EXCEPT ![u] = where]

\* async_push: acquires a slot, or waits for one; a stop may come instead.
AsyncPush(p) ==
    /\ At(p, "idle")
    /\ Full!TakePermit(p) \/ Full!Wait(p)
    /\ Go(p, "waits")
    /\ UNCHANGED <<channelVars, emptyVars>>

\* try_push: takes a slot or returns false, whether the fifo is closed or not.
TryPush(p) ==
    /\ At(p, "idle")
    /\ \/ Full!TakeAway /\ Go(p, "holds")
       \/ freeSlots = 0 /\ Go(p, "refused") /\ UNCHANGED <<fullVars, sharedVars>>
    /\ UNCHANGED <<channelVars, emptyVars>>

AsyncPop(c) ==
    /\ At(c, "idle")
    /\ Empty!TakePermit(c) \/ Empty!Wait(c)
    /\ Go(c, "waits")
    /\ UNCHANGED <<channelVars, fullVars>>

TryPop(c) ==
    /\ At(c, "idle")
    /\ \/ Empty!TakeAway /\ Go(c, "holds")
       \/ elements = 0 /\ Go(c, "refused") /\ UNCHANGED <<emptyVars, sharedVars>>
    /\ UNCHANGED <<channelVars, fullVars>>

\* The permit has arrived, and the operation goes on where it arrived.
Granted(u) ==
    /\ At(u, "waits")
    /\ u \in granted
    /\ Go(u, "holds")
    /\ UNCHANGED <<channelVars, semaVars>>

\* close() asks every operation to stop, a stop token its own one: a waiter
\* leaves the line, an operation that starts later finds the request.
AskToStop(S) ==
    /\ ~ S \subseteq asked
    /\ asked' = asked \cup S
    /\ UNCHANGED <<channelVars, step, fullVars, emptyVars, granted, stopped, overflowed>>

StopsWaiting(u) ==
    /\ \/ At(u, "waits")
       \/ At(u, "idle")
    /\ \/ Full!GiveUp(u) /\ u \in Producers /\ UNCHANGED emptyVars
       \/ Empty!GiveUp(u) /\ u \in Consumers /\ UNCHANGED fullVars
    /\ Go(u, "stopped")
    /\ UNCHANGED channelVars

\* underlying_.emplace() under the lock.
Store(p) ==
    /\ p \in Producers /\ At(p, "holds")
    /\ underlying' = Append(underlying, p)
    /\ pushed' = Append(pushed, p)
    /\ Go(p, "announces")
    /\ UNCHANGED <<popped, semaVars>>

\* emplace() throws: the error is the outcome, and the slot stays taken.
StoreThrows(p) ==
    /\ p \in Producers /\ At(p, "holds")
    /\ Go(p, "failed")
    /\ UNCHANGED <<channelVars, semaVars>>

\* empty_sema_.release(), with the lock already given back.
Announce(p) ==
    /\ At(p, "announces")
    /\ Empty!GivePermit \/ Empty!PutBack \/ Empty!Overflow
    /\ Go(p, "done")
    /\ UNCHANGED <<channelVars, fullVars>>

\* front() and pop() under the lock.
Take(c) ==
    /\ c \in Consumers /\ At(c, "holds")
    /\ underlying # <<>>
    /\ popped' = Append(popped, Head(underlying))
    /\ underlying' = Tail(underlying)
    /\ Go(c, "frees")
    /\ UNCHANGED <<pushed, semaVars>>

\* full_sema_.release().
FaultyFree(c) ==
    /\ At(c, "frees")
    /\ IF slotLine = <<>> THEN UNCHANGED <<fullVars, sharedVars>>
                          ELSE Full!GivePermit
    /\ Go(c, "done")
    /\ UNCHANGED <<channelVars, emptyVars>>

Free(c) ==
    /\ At(c, "frees")
    /\ Full!GivePermit \/ Full!PutBack \/ Full!Overflow
    /\ Go(c, "done")
    /\ UNCHANGED <<channelVars, emptyVars>>

FifoNext ==
    \/ AskToStop(Users)
    \/ \E u \in Users : AskToStop({u}) \/ Granted(u) \/ StopsWaiting(u)
    \/ \E p \in Producers : \/ AsyncPush(p) \/ TryPush(p)
                            \/ Store(p) \/ StoreThrows(p) \/ Announce(p)
    \/ \E c \in Consumers : \/ AsyncPop(c) \/ TryPop(c) \/ Take(c) \/ Free(c)

FifoSpec == FifoInit /\ [][FifoNext]_fifoVars

-----------------------------------------------------------------------------
In(S, where) == Cardinality({u \in S : step[u] \in where})
Holding(S) == Cardinality({u \in S : At(u, "holds") \/ (At(u, "waits") /\ u \in granted)})

\* The two semaphores and the container agree although no lock covers them
\* together: a consumer that holds a permit finds an element, every slot is
\* free, filled, being filled or being freed (or was lost to a push that
\* threw), the channel never holds more than it may, what comes out is what
\* went in, in order, and no release exceeds a semaphore's maximum.
ChannelIsExact ==
    /\ Len(underlying) = elements + Holding(Consumers) + In(Producers, {"announces"})
    /\ MaxSize - Len(underlying) =
           freeSlots + Holding(Producers) + In(Consumers, {"frees"}) + In(Producers, {"failed"})
    /\ pushed = popped \o underlying
    /\ Len(underlying) <= MaxSize
    /\ ~overflowed

=============================================================================
