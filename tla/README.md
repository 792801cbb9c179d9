# coio in TLA+

TLA+ specifications of [coio](https://github.com/Cra3z/coio), a C++ library of
coroutine tasks, senders/receivers, execution contexts and asynchronous I/O.
The specifications are written from the source in `include/coio` and `src`
(paths below are relative to the repository root), checked with TLC on small
instances, and the central safety properties are proved with TLAPS for every
value of the constants.

`PROJECT.json` is the index: which definition models which lines (`map`), which
run checks which property (`runs`), which variant of a definition breaks which
property (`mutants`; the variants are the `Faulty...` operators of the modules),
where the code is exposed to what (`hazards`), and what is proved (`theorems`).

## 1. The system

### Components and their state

| component | code | state | operations |
|---|---|---|---|
| operation state protocol | `execution_context.h`: `loop_base::node`, `operation_state` | `phase_`, the optional stop callback, the backend's record of the operation | `start`, `request_cancel`, `publish`, `immediately_post`, `finish` |
| `op_queue` | `detail/op_queue.h` | `incoming_` (atomic stack), `front_` (private list), `next_` links | `enqueue`, `bulk_enqueue`, `dequeue` |
| `timer_queue` | `detail/op_queue.h` | pairing heap of intrusive links, `mtx_` | `add`, `remove`, `take_ready_timers`, `earliest` |
| event loop, `time_loop`, `work_guard` | `execution_context.h` | `work_count_`, `consumer_id_`, `stop_source_`, semaphore | `run`, `run_one`, `poll`, `poll_one`, `request_stop`, `work_started/finished`, `schedule`, `schedule_at/after` |
| `epoll_context` | `asyncio/epoll_context.h`, `src/linux/asyncio/epoll_context.cpp` | one `per_fd_data` per descriptor (event mask, remembered edges, an operation per direction), object pool, interrupter | `do_one`, `register_event`, `cancel_op`, `io_object::cancel/close`, one `do_start/perform` per I/O operation |
| `uring_context` | `asyncio/uring_context.h`, `src/linux/asyncio/uring_context.cpp` | `uring_mtx_`, the ring, `pending_sqes_`, `pulling_cqes_` | `do_one`, `submit`, `do_cancel`, `interrupt`, one `prep/complete` per I/O operation |
| `iocp_context` | `asyncio/iocp_context.h`, `src/win/asyncio/iocp_context.cpp` | completion port, an `OVERLAPPED` per operation | `do_one`, `do_cancel`, `interrupt`, one `do_start/complete` per I/O operation |
| `async_mutex` | `sync_primitives.h` | `state_` (flag or stack of waiters), `head_` (private list) | `lock`, `try_lock`, `unlock` |
| `async_semaphore` | `sync_primitives.h` | `counter_`, doubly linked list of waiters under `mtx_` | `acquire`, `try_acquire`, `release`, stop callback |
| `async_latch` | `sync_primitives.h`, `detail/atomic_intrusive_stack.h` | `counter_`, stack of waiters with a "never emptied" mark | `count_down`, `wait`, `arrive_and_wait` |
| `fifo` | `utils/fifo.h` | container under a mutex, two semaphores, a counting scope | `async_push/pop`, `try_push/pop`, `close` |
| `signal_wait` | `utils/signal_wait.h`, `src/{linux,win}/utils/signal_wait.cpp` | list of waiters under `mtx`, "fired" mark, self-pipe or flag, watchdog thread | `start`, `deliver`, `request_cancel`, `add`, `remove`, `pop_all` |
| stop plumbing | `utils/stop_token.h`, `utils/when_any.h` | inner stop source, combined callbacks, arrival counters | `stop_when`, `when_any` |
| coroutines | `task.h`, `utils/async_result.h` | frame, its owner, the result slot, the late members of the promise | create, connect, await, resume, complete, `unhandled_stopped`, destroy |
| `generator` | `generator.h` | `top_` and `prev_` of every coroutine in a nest, `value_or_error_` | `begin`, `operator++`, `co_yield`, `elements_of` |
| `flat_buffer` | `utils/flat_buffer.h` | four positions, allocation, `max_` | `prepare`, `commit`, `consume`, `reserve`, `clear`, `shrink_to_fit`, copy, move, swap |
| I/O algorithms | `asyncio/io.h` | the span that remains, bytes transferred, where to search | `read`, `write`, `read_at`, `write_at`, `read_until` and their asynchronous forms |
| files | `asyncio/file.h`, `src/{linux,win}/asyncio/file.cpp` | the position, in the descriptor (Linux) or in the object (Windows) | `open`, `read_some`, `write_some`, `seek`, `resize`, `..._at` |
| sockets and pipes | `net/*`, `asyncio/pipe.h` and their sources | descriptors | thin layers over system calls |

### How they interact

A sender is connected to a receiver and becomes an operation state. `start()`
registers a stop callback and hands the operation to a *backend*: the timer
heap, an epoll slot, a submission queue entry, a posted `OVERLAPPED`. Later one
of two agents claims the operation from the backend under its lock: the
consumer, because the result is there, or the stop callback, because somebody
asked to stop. The claimant *publishes* the operation through `phase_`; whoever
is responsible then *posts* it into the context's `op_queue_` and wakes the
consumer. The consumer, the one thread inside `run()` or `poll()`, dequeues it,
waits for the stop callback to be gone, and completes the receiver, after which
the memory of the operation belongs to its owner again.

On epoll the library makes the transfer itself, when the descriptor is ready; on
io_uring and the completion port the system makes it, a cancellation is a
request of its own that names the operation by its address, and who claims
is always the consumer. What an operation asks for and what the receiver is
told is a matter of the operation type, and each context has its own.

The synchronization primitives have no thread of their own: waiters are linked
into the primitive and completed by the thread that releases it. `fifo` is built
of two semaphores, `when_any` of its children and a stop source, a wait for a
signal of a list and the watchdog's thread. A `task` is a coroutine whose frame
lives in whoever awaits it; a stopped operation completes the receiver of the whole
stack from within the deepest one.

### What is hard

* **Three agents on one operation.** `start()` may still be running when the
  backend completes or a stop request arrives, on other threads. No lock covers
  this; the `phase_` word decides who posts.
* **Lifetime.** Once the receiver is completed every pointer to the operation is
  dangling. Threads that are in the middle of a callback or about to read a link
  must be ruled out by construction.
* **Addresses that come back.** A cancellation, an epoll entry or a list link
  names an operation by its address, at which the next one may already be.
* **Wakeups.** The consumer sleeps with a deadline it computed earlier; a new
  earlier timer, a post, an unsubmitted entry, the last work item going away, a
  stop request must each wake it, and the consumer skips waking itself.
* **Lock-free stacks** used as queues: stale tops, reversal on the consumer side.
* **Edge-triggered readiness.** An edge that arrives while nobody waits is gone.
* **Cancellation against completion**, in every primitive and every backend.
* **Intrusive links** (heap, lists, nests of generators) from which a node is cut
  out of the middle, and whose state says whether the node is linked at all.

## 2. Modules

Each module that models a component states its properties at its end. A module
named `...Proofs` holds theorems about the modules it extends. An `MC...` module
declares the model values and the definitions a configuration needs.

| module | models | abstract specification it implements |
|---|---|---|
| `OperationState` | `loop_base::node`, `operation_state`, `schedule_sender::state` against any backend; one action per atomic access of each of the three agents | `SenderContract`: started once, completed at most once, stopped only if asked |
| `OpQueue` (with `IntrusiveChain`) | `op_queue` over an explicit `next_` function; compare-exchange loop with stale reads and spurious failure | `FifoQueue`: one sequence |
| `TimerQueue` | the pairing heap of `timer_queue`, link by link | the set of timers it holds (`HeapIsTheSet`) |
| `TimeLoop` | `loop_base`, `time_loop::do_one`, sleep and schedule operations, `work_guard`, the context's stop source, the clock. *Composes* `OperationState`: every step on an operation is one of its actions, the heap is its backend | `OperationState` itself (`FollowsProtocol`) |
| `EpollReactor` | one `per_fd_data` of `epoll_context`, the I/O objects that use it one after the other, the kernel's ready list, the interrupter and `do_one()` | `IoContract`: completed once, a transfer reported exactly when it was made, stopped only if asked |
| `UringContext` | submission and completion on `uring_context`, cancellation by address, interrupts | `IoContract` |
| `IocpContext` | the same on `iocp_context` | `IoContract` |
| `Contexts` | a program on either of the two. *Composes* `UringContext` and `IocpContext` over the operations they share | `IoContract` |
| `IoRequests` | what each of the operation types of each of the three contexts initiates and answers | |
| `IoBackends` | one call made under each of the three contexts, side by side | the three agree (`BackendsAgree`) |
| `StreamFile` | a file on its two platforms, side by side | the two agree (`PlatformsAgree`) |
| `AsyncMutex` | `async_mutex` | `FifoLock`: an owner and a line |
| `AsyncSemaphore` | `async_semaphore` with the stop callback | `FifoSemaphore`: permits and a line |
| `AsyncLatch` | `async_latch` over `atomic_intrusive_stack` | |
| `Fifo` | `fifo`. *Composes* two `FifoSemaphore`, which `AsyncSemaphore` implements | a sequence (`ChannelIsExact`) |
| `SignalWait` | `signal_wait` and the `signal_state` of either platform | `SignalContract`: completed once, with the signal only if it was raised |
| `WhenAny` | `when_any`, and the combined token of `stop_when` | |
| `Task` | `task`, `async_result`: who owns which frame | |
| `Generator` | nests of generators | a depth-first walk (`ValuesAreFlattened`) |
| `FlatBuffer` | `basic_flat_buffer` with sizes of bounded width | the sequence of bytes (`BytesAreKept`) |
| `Transfer` | the algorithms of `io.h` over a device that transfers any part of what is asked | the whole transfer; the first delimiter (`AlgorithmsAreExact`) |
| `InputOutput` | nothing of its own. *Composes* `EpollReactor`, `SignalWait`, `IoBackends`, `StreamFile`, `FlatBuffer` and `Transfer`, and states what a program that does input and output relies on of all of them | |

### Correspondence with the code

**OperationState.** `phase[o]` is `phase_`; `startPc`, `cancelPc` and
`backendPc` are the program counters of the thread inside `start()`, of the one
running the stop callback, and of the one that publishes a result. `pending` is
whatever the backend keeps (heap, slot), `posted` the queue. `Claim` takes an
operation out of `pending` atomically, as the backends do under their locks.
`DoStartCompleted` covers backends that have the result at once,
`DeferredCancel` with the operation left pending those that only forward a
cancellation (io_uring). `Finish` waits for `~CallbackRunning`, which is what
`stop_cb_.reset()` does on another thread than the callback's.

**OpQueue.** `link` is the link of every operation, `incoming` and `front` the two
fields; `Link` and `CompareExchange` are the two accesses of the publishing
loop. `reverse()` is `ReversedLinks`. The refinement reads the abstract queue off
the two chains.

**TimerQueue.** `links` holds `prev`, `child` and `sibling` of every timer; `Meld`,
`Removal` and the two passes of `merge_children()` are the functions of the heap, and every
operation is one action, since each holds the lock. `inside`, `answer` and `wanted` are
history: which timers a caller knows to be queued, what the call returned and what
it had to return.

**TimeLoop.** `loop` is the program counter of the thread that drives the context;
`onLoop` names the call of `start()` or of a stop callback that this very thread
executes inside a completion handler, in which case it does not wake itself.
`sema` is the counting semaphore, `work` is `work_count_`. The heap is the set
`pending` with `deadline`, which `TimerQueue` shows it to be.

**EpollReactor.** `slot[d]`, `events` and `remembered` are the fields of
`per_fd_data`: the operation of each direction, the mask given to `epoll_ctl()`, and
`ready_events`. `queued` says that the kernel has the descriptor on its ready
list, `batch` are the flags `epoll_wait()` returned, which the consumer holds until it
takes the lock; they survive the close of the object and the reuse of the entry
by the next one. `pc[o]` is where the thread of an operation is: its system call,
`register_event()`, armed in the slot, taken by somebody, published. What a
descriptor can transfer (`avail`, `hup`) changes from outside; a system call either
makes the transfer (`moved`) or would block. The entry's lock makes
`register_event()`, `cancel_op()`, `cancel()` and the handling of one event single
actions. `Terminal` says whether the descriptor may report a hang-up without both
directions, which sockets never do.

**UringContext.** `ring` is the submission queue as the entries that were prepared and
not taken by the kernel; an entry is an operation, a cancellation with the
address it names, or a wake-up. `pulling` is `pulling_cqes_`, which tells a
producer whether the consumer will submit for it. `Submit` hands a prefix of the
ring to the kernel, all of it or, `MaxShorts` times, less. The kernel takes entries in order;
a cancellation ends what is in flight at its address, whichever operation that is now.
`calling` are the calls of `do_cancel()` that have been decided on and not made. The
consumer's `do_one()` is its program counter `loop`: consume, submit, wait, peek, publish.

**IocpContext.** `packets` is the completion port. `Issue` may complete at once, with a
packet to come or, where the port is skipped on success, without; a packet may arrive
and be taken before `start()` returns. `DoCancel` is `CancelIoEx()` on the `OVERLAPPED` of
the operation. `ready` is `ready_io_ops`, filled by a batch of `GetQueuedCompletionStatusEx()`.

**IoRequests, IoBackends.** One definition per operation type and context, `EpollReceive`,
`UringReadSomeAt`, `IocpAccept` and so on: what is answered without the system (a closed object,
an empty buffer), and what becomes of the word of the system (bytes, none, an error,
a cancellation). `UringContext` and `IocpContext` take their operations from here. `IoBackends`
makes one call in all three contexts with the same outcome; `accepted` is the socket that
`AcceptEx()` has to be given beforehand.

**StreamFile.** `position` is the offset of the kernel's open file description, `offset` is
`file_object::offset_` and `pointer` the file pointer of the Windows handle, which opening,
seeking and resizing move and transfers do not. Every call is made on both sides in one action; `said`
is what each of them returned.

**AsyncMutex.** `state` is `NotLocked`, `None` (locked, nobody new) or the top of the
stack; `head` is the private list of the owner. `try_lock()` and the two guesses
of `lock()` are single compare-exchanges.

**AsyncSemaphore.** `counter`, `prev`, `next`, `listHead`, `listTail` are the fields; the
lock `mtx_` is explicit, so that the stop callback, which runs between two steps of
`start()`, can be ordered against it. `release()` is one action up to the unlock
(everything under the lock) and the completion another.

**AsyncLatch.** `top` is `head_`, with the values `Never` (the stack's own address:
empty, never pushed), `None` (popped) or a waiter. Two clients can be inside
`notify_waiters_()` at the same time.

**Fifo.** A push takes a permit of the free slots, works on the container under the lock, and
releases a permit of the elements; a pop the other way round. These are separate
actions, between which everybody else runs. `StoreThrows` is an element whose construction throws;
`close()` is a stop request of all users at once, `AskToStop(Users)`.

**SignalWait.** `head`, `prev`, `next` are the list; `head = "fired"` is the null pointer that says
that the signal was delivered. The watchdog's `dog`, `cursor` and `after` are the program counter
and the two locals of `pop_all()`, which unlocks between two waiters. `phase[o]` is the
`operation_phase` that `start()`, the watchdog and the stop callback meet on, `deliverer[o]` the one
of them that is to complete the receiver. `handler` is the disposition.

**WhenAny.** `done_count` and `ready_count` are the counters: the first increment
decides, the last arrival completes. `childPc` is where each child is between the two. `flag` is
`call_once::flag` of the combined callback.

**Task.** Task `t` awaits task `t + 1`. `frame`, `owner`, `built` are the coroutine, who destroys
it, and whether `alloc_` and `sched_` were constructed. A stopped operation
leaves the frames suspended (`abandoned`) until the operation state is destroyed.

**Generator.** A program gives each generator its body, a sequence of "yield", "throw" and nested
generators, and whether it catches what those throw. `active` is the coroutine that runs, `Nobody` while
the consumer does, and the links are moved by the awaiters exactly as in the code. The consumer
may destroy the generator between any two values (`Abandon`).

**FlatBuffer.** A buffer is `[mem, in, out, last, max]`; bytes are numbers of the stream, and
sizes are taken modulo `Word`, so that a difference that would wrap around does.

**Transfer.** One loop for `read` and `write` in their forms, one for `read_until`; the device
answers each call with any length up to what was asked, an error or the end.

### Configurations with several components

A run has a price whatever it checks, so components that are small share one. In
`MCOperationState`, `MCSync`, `MCContexts` and `MCLibrary` a behaviour is about one
of them, its `subject` (or `context`), chosen by the initial state; the variables of the others keep their
initial values, so the state space is the sum and not the product, and each
component is checked exactly as it would be alone. One component of such a module
comes in by `EXTENDS` (two where their names are disjoint), the others by `INSTANCE`;
a property that has the same meaning for several is the conjunction of theirs. Fairness of a component
says nothing where its users have not called: no action that is to be fair is
enabled in its initial state.

## 3. Runs

| run | bounds | what it shows |
|---|---|---|
| `operation_state` | two stoppable operations and one `schedule()`; two producers and three operations on the queue; three lockers and a `try_lock()` caller, again and again | each of the three agents meets each other in every order, and a backend claims two operations at once; bulk and single enqueues overlap a dequeue that reverses a stack of up to three; two new waiters are reversed behind the private list of the mutex. Contract, clean links, both FIFO refinements, mutual exclusion, delivery |
| `sync` | latch: three waiters, one counting thread, count 2; signal: two waiters, raised up to twice, on POSIX and on Windows; `when_any`: three children | late waiters pushing after the pop; a waiter that is added or stopped while the watchdog is between two others; children that complete while `start()` starts their siblings. Nobody is woken early, lost or left behind, a race has one outcome, every wait ends and leaves no dangling link |
| `async_semaphore` | three acquirers, maximum 1, two releases | unlinking the first, middle and last waiter against `release()`; the semaphore refinement; every stop request is answered |
| `time_loop` | two sleeps with deadlines 0 or 1, a work guard, `run_one()` | an earlier timer added while the consumer waits for a later one, the last work going away while it sleeps; no timer early, protocol refinement |
| `time_loop_live` | one sleep, one post, context stop, `run()` and `poll()` | the work count is exact, and everything due, posted or cancelled is delivered |
| `time_loop_teardown` | one post | *violated*: see section 6 |
| `epoll_recycle` | two reads, two objects on one entry | a held event and a late stop callback meet the next operation or the next object; edges, interrupts, the I/O contract, liveness |
| `epoll_hang_up` | two reads, one write, a terminal | *violated*: see section 6 |
| `contexts` | two operations, two addresses; a ring of two entries, batches of two, one short submission; packets taken two at a time | the second operation at the address of the first while a cancellation of the first is on its way; a full ring; an entry that a producer leaves to the consumer; a packet that overtakes `start()`. On both contexts the I/O contract, and a stop that ends |
| `library` | channel: one slot, two producers, two consumers; heap: four timers with deadlines 1 to 3; flat buffers: two of at most 3 bytes, sizes 0 to 2, word 8; transfers of up to 4 units, streams of up to 4 bytes of two letters, delimiters of up to three; every nest of three generators; three tasks; every call of every object on three contexts; a file of up to 3 bytes; three waiters for a signal raised once; one read and one write on a socket | the sequential algorithms are exact, the channel's semaphores agree with its container, the contexts and the platforms with each other, and both directions of a descriptor with the memory they share |
| `async_latch_thread` | as in `sync` | *violated*: see section 6 |
| `flat_buffer_cap` | one buffer, `max_size` 1, smallest allocation 2 | *violated*: see section 6 |

Three waiters are the least for a list with a middle, two operations the least for an order
between operations and for an address that is used again, four timers the least for a heap with
two levels of pairs, two users on each side of the channel for a line of two (both consumers,
before the first push) and for a push that waits for a pop; nothing in the code tells more of
them apart. The ring has to be full when another entry is prepared, and a submission has to be
cut short once; a second time would add nothing but another stay in the same states. Neither
context tells operations or addresses apart by name, so `contexts` calls the operation that
starts first `o1` and its address `a1` (`NamedInOrder`): every other behaviour is one of these
renamed. In `library` only the read of the socket is asked to stop, since the code treats the
directions alike (`epoll_recycle` has all stops).
Deadlock is checked in the two runs where the modelled threads never stop for good
(`time_loop`, `time_loop_live`); in the others every operation completes once, the
epoll entry is given out `MaxOpens` times, a call returns, and the system is then done.

## 4. Fairness

Only steps of threads that are inside a library call are fair (weakly), and for
the loops the thread that drives the context: "exactly one thread calls `run()`"
is the documented duty of the user, so the live runs assume that it keeps calling. In
the reactor that is every thread in a system call or under the entry's lock, the
stop callbacks that were requested, and the consumer; in `uring_context` and `iocp_context`
likewise. The watchdog of a signal is a thread of the library and is scheduled.
A child of `when_any` that was told to stop completes, which is the contract of every
sender of the library. Never
assumed: that a peer sends or the kernel completes an operation nobody cancelled, that an object is closed, that a user starts,
stops, releases, counts down or that the clock
advances. `compare_exchange_weak` may fail spuriously but not for ever; where a
liveness property depends on that, the exchange has strong fairness and the
module says so. For the mutex, holders unlock. On `uring_context` a stop request is answered unless
the kernel cut a submission short (`StopEnds`): nothing submits the rest before the
next wake-up.

## 5. Proofs

All of it is proved for every value of the constants, from the assumptions on them that
the modules name. `PROJECT.json` lists the theorems with the property each of them states, which a
run checks on a small instance.

`OperationStateProofs` (any sets of operations). The inductive invariant `OpInv` says
for each operation and each phase where the three agents can be: while the phase is
`starting` nobody has posted; at most one agent holds the claim, namely when the operation has
left `pending`; in `completed` exactly one of start, publisher, queue and
consumer has it. From it: type correctness, `PostedOnce`, `NoUseAfterDelivery`,
`CompletionNotLost`, and the step simulation of `SenderContract`.

`TimeLoopProofs` (any operations, deadlines and bound of the clock). `LoopInv` is `OpInv`, the types and
one part for each thing that the loop keeps:

* `QueueInv`: an operation is in the queue at most once, and not while it is being finished;
* `TimerInv`: a timer that was handed to the heap stays there until it is claimed by a stop
  callback or taken because it is due, and a value is a claim of the second kind. Hence
  `TimersAreSound`;
* `WorkInv`: the work count is the number of operations started and not taken up, and one for
  the guard. That is `WorkIsBalanced`, by cardinality;
* `WakeInv`: wherever the loop is between its look at a reason to go on and its wait, a
  reason that came since has released the semaphore or has a thread on its way to. It is needed
  because the three reasons (a post, the end of the last work, an earlier timer) come
  from different threads, and `WakeupNotLost` speaks only of the last step.

`LoopFollowsProtocol` is the refinement of `OperationState`: `ThreadStep` and `DriveStep` map each step of the
loop to a step of the protocol. The invariant of the protocol is then carried over by
instantiating the proofs (`Proved`), so that `LoopKeepsPromises` gives the operations of a loop all that
was proved of the protocol.

The same module proves `TimerQueue`, the heap behind `pending` (any timers, any deadlines): `HeapHolds` states
`HeapIsTheSet`. The links say nothing of the trees as such, so `HeapInv` says that there is a choice of parents
(`par`) under which they are a forest with the given roots (`Forest`): every link has a
link that answers it, no parent is later than its child, and neither `prev` nor `sibling` leads in a circle, which is put
without recursion as "every set of the timers has one whose link leads out of it". A forest with one root
and no links on anybody else is the heap (`HeapOf`). `MeldMakes` and `Dismembers` are the two changes of it: two
trees become one, a timer is cut out and its children become roots. The two passes of
`merge_children()` and the loop of `take_ready_timers()` go through recursive functions; what they return is shown to be what
their rounds return one by one (`PairsAre`, `JoinsAre`, `ReadyIs`), and that every round keeps its
invariant (`PairInv`, `JoinInv`, `TakenInv`) carries to the last by the least round that would not.

`IoProofs` proves what `InputOutput` states, component by component.
*EpollReactor* (any numbers of reads, writes and reuses of the entry):
`SlotInv` joins `SlotsAgree` (an operation is in the slot of its direction exactly while it is
armed, and on the consumer's list exactly while it is taken) with "at most one operation per
direction is under way, and none on a closed object". `EdgeInv` strengthens
`EdgeNotLost` by the moment before the slot is filled: an operation that found it would block,
under a mask that already has its direction, has readiness still on the kernel's list,
in the batch or remembered. It needs `Terminal = FALSE`, which the theorem assumes and the run
`epoll_hang_up` shows to be necessary. `InterruptNotLost` is inductive with the types.
For the step simulation of `IoContract`, `ResultInv` relates the result an operation carries to
whether its transfer was made and whether a stop was asked for.
*SignalWait* (any waiters and raises, either platform): the list is described by its nodes rather than by a
sequence, because the watchdog walks it without the lock held. `LinksInv` says, node by node, who is linked, that
`next` and `prev` are each other's inverse and that nobody else has a link; a rank that falls
along `next` rules out a ring apart from the list. `WatchdogInv` says what
the locals of `pop_all()` stand for between two waiters: `cursor` is detached and belongs to the
watchdog, `after` is the first of those that are still linked, or nobody. `WaitInv` says who may
complete a wait in which phase, and that the signal is reported only if it was raised. Hence
`NoUseAfterDelivery` and the refinement of `SignalContract` (`SignalIsSafe`, `SignalImplements`), and with the
reactor, `EventsAreAnswered`.
*IoBackends*: `Truth` is what may be answered given the object, the call and the word of the system, and
`BackendsInv` says that each context's answer is in it or not there yet; since a call has one truth, except where an empty
buffer meets the system, the three agree. The socket of `AcceptEx()` is open exactly while the call owns it.
*StreamFile* (any bytes and size): `FileInv` adds to `PlatformsAgree` that an open file exists and that in a file
open for appending `offset_` is at the end, unless the platforms are excused (section 6). Without it the
invariant is not inductive: where the next transfer of Windows goes to depends on it, and the descriptor's
position says nothing of it.
*FlatBuffer* (any buffers, sizes, smallest allocation and width): `FlatInv` says that the positions are in order within the
allocation and that what is between the first two is what was committed and not consumed. It is
inductive as long as no buffer is larger than its maximum, and that is
how the theorem is stated for buffers with maxima of their own: `BytesWhileCapped` assumes `[]SizeIsCapped`. A
maximum that is at least the smallest allocation and common to all buffers makes the assumption true, and
`BytesAreAlwaysKept` has no other. So exceeding the maximum (run `flat_buffer_cap`; also reached by copying a
buffer into one with a smaller maximum and a larger allocation) is the only way in which bytes could be lost.
*Transfer* (any calls, streams and delimiters): `TransferInv` says that what remains is what was asked for less
what was moved; `UntilInv`, that no delimiter ends before the place where the next search begins, less what
may straddle it. That a search returns the first delimiter is shown with a least element
of a set of numbers, whose existence is the well-foundedness of the order and needs no induction over data.

`ContextsProofs` (any finite set of operations, any addresses; any batch of packets, any size of the ring,
any batch of entries, any number of short submissions), about the specification `Contexts` of a program on
one of the two contexts.
*IocpContext*: `IocpInv` has four parts. `PacketInv` says that there is at most one packet about an operation,
only after the system has let go of it, and that what it says is true; `OpInv`, that the result of an
operation is one its request allows, with the transfer made exactly when it says so; `AddressInv`, that two
operations under way are never at one address and that a call of `do_cancel()` that is about to be made
names an operation that is still there. The last is what keeps a cancellation from hitting the next
operation at the address, and it rests on `finish()` waiting for the stop callback: without that wait the
invariant is not preserved. `Owed` adds what is due: an operation that is under way has its packet or will get
it, and a consumer that waits beside a posted operation is about to be woken, which together with
`PacketInv` makes `PacketsAreExact` by cardinality.
*UringContext*: `UringInv` has `AddressInv` in common with it. `Placed` says that an armed operation is in one
place: once in the ring, with the kernel, or behind one completion. `Justified` is what is needed
because entries lie in the ring while other operations come and go: whenever the kernel takes a cancellation, the
operation that it would meet, be it in flight or in an entry before, asked for one. `Truthful` says that the
transfer is made by its completion, `PullInv` that a ring that is not empty while the consumer waits was refused by the
kernel. One lemma (`KernelTakes`) says that a submission of any length keeps the first three, one
(`EntryAdded`) that preparing an entry does, whether the ring has room or is submitted first (`Prepared`).
`NothingIsLeft` and `ContextsImplement`, the step simulation of `IoContract` in both contexts, follow.

`ChainProofs` holds no theorem but the lemmas on which everything about linked lists rests. `Leads(n, s, x, null)`
says that from node `n` the links `x` spell out the sequence `s`, without a node twice; `ChainIs` that a
walk then visits exactly `s`; the others, what pushing, popping, reversing in place and writing
links elsewhere make of it, and what a sequence holds after each operation on sequences. With them an
invariant about links becomes one about sequences. `LeastNumber`, `Loops` and `Rounds` are the steps of the
arguments by a least counterexample and by rounds.

`StackProofs` (any numbers of clients, producers and operations).
*AsyncMutex*: `TagInv` says that the state word is `NotLocked` exactly while no client is between acquiring
and giving up; mutual exclusion follows without the list. `MutexInv` adds that the stack of new waiters and
the private list are disjoint sequences that together hold exactly those suspended, and what a client that is
about to exchange has linked to what. Hence `WaitersAreInLine` and the refinement of `FifoLock`, whose
line is the private list followed by the reversed stack.
*OpQueue*: no operation is in two of the consumer's list, the stack and the batches; what is in none has no link.
A producer that is about to exchange has linked its batch onto the head it expects: that head may be
taken and come back, but since nothing lies between the batch and whatever node has that address,
an exchange that succeeds extends the stack of that moment. Hence `LinksAreClean` and the refinement of `FifoQueue`.

`AsyncSemaphoreProofs` (any waiters, maximum and releases; any users and capacity of a fifo).
*AsyncSemaphore*: the doubly linked list is described by a sequence of
distinct waiters that the pointers spell out in both directions (`ListIs`). Three lemmas say that appending, removing
the head and unlinking keep such a sequence; one lemma per group of actions lifts this to the
invariant. `NoIdlePermit`, `NoUseAfterDelivery`, `WaitersAreSound` and the refinement of `FifoSemaphore` follow.
*Fifo*: `ChannelIsExact` is inductive together with the types and "who is in a line waits without a permit,
and is there once". Every step is a change of five sets of users (who holds a permit of either
semaphore, who is about to announce an element or free a slot, who failed), and the lemmas `ProducerMoves` and `ConsumerMoves` turn it into
differences of the two sums; `Overflow` is impossible since whoever releases is itself counted. The theorem
assumes that the fifo is constructed empty, because it is false otherwise (section 6, `fifo.h:46`).

`CompletionProofs`.
*AsyncLatch* (any waiters, counting threads and count): `ZeroInv` collects what "implies zero", which it does
for ever because the counter only falls: the stack marks, the notifying threads, what a pusher has seen.
`LatchInv` adds the chains: the stack and what each notifying thread has still to complete
are disjoint sequences that hold exactly those who wait, and at zero a stack with somebody on it is about to be
taken. `CompletesAtZero` and `WaitersAreKept` follow.
*WhenAny* (any number of children): `ArrivalInv` says that `ready_count` is the number of
children that are gone, so the race completes when nobody is left that could touch its state;
`WinnerInv`, that only the child that reported first is ever on its way to the result, and once it has
arrived, what will be delivered is its outcome. `RaceIsDecided` follows by cardinality.
*Task* (stacks of any depth): the invariant says how the frames lie on each other:
of two depths, either the upper frame waits for the next or the lower one is new or does not exist,
so that at most one coroutine runs. `OneCompletionPerStack` follows.

*Generator* (any program of any number of generators; a program's bodies are finite, and a generator is
nested by the one item that hands it over, so that some numbering falls from each to those it nests: `Longest` and
`Levels` bound the two, whatever they are). The reference, `Walk`, is a recursive function of generator and item. That
it exists, once only, is shown without induction over the nests: rounds make its values
for the lower numbers first, and of two walks that differed some least spot would (`WalkExists`, `WalkUnique`).
`GeneratorInv` says that the coroutines which `prev_` leads to from the top are the stack, that
all of them know their top, and that each but the root was nested by the last item of the one below
(`OnStack`). What is still to come when a coroutine is resumed is its own values followed by what comes after its
end; the invariant says that there is a choice of that for each coroutine and either way of ending which agrees
with the links (`Ends`), and under which the output followed by what is to come is the walk. `Nest`
extends the choice, `FinalSuspend` and `Throw` take one part of it, a value moves from one side to the other.
`FlattenedHolds` states `ValuesAreFlattened`.

What is only model-checked: liveness and everything else under fairness (outside the reach of the
proof system). Every safety invariant that a passing run checks is stated by a theorem.

## 6. Where code and documentation disagree

Shown by a run:

* **Teardown** (`time_loop_teardown`). `docs/execution/contexts.md:158` lets the
  context go out of scope once `run()` has returned and all operations have
  completed. `immediately_post()` touches the context after the operation is in the
  queue, so a thread that posted last can still be about to call
  `wakeup_consumer()`.
* **Hang-up** (`epoll_hang_up`). `do_one()` remembers `EPOLLHUP` and `EPOLLERR` for
  whoever registers next; `register_event()` clears them together with its own direction
  (`epoll_context.cpp:98`). If the hang-up came without `EPOLLIN` and `EPOLLOUT` while nobody waited, as the
  master of a terminal reports it, the first operation to register consumes
  it for both, and the other direction waits for an edge that does not come again.
  On a socket both directions are reported with it, and the theorem `EdgesAreKept` holds.
* **Latch** (`async_latch_thread`). `docs/utils/synchronization.md:151` says that a queued waiter
  completes on the thread of the `count_down()` that reaches zero. A waiter that
  pushes after the pop completes itself and everything that was pushed in between.
* **Flat buffer** (`flat_buffer_cap`). `docs/utils/buffers.md:115,118` caps `size()` at `max_size`.
  `prepare()` looks at it only when it has to allocate, and allocates 512 bytes or more
  (`flat_buffer.h:221`): a smaller bound is passed within the first allocation, and once it is, the
  difference that guards the next allocation wraps around.

Seen while modelling, stated in the modules where they have such state, and checked by no run:

* A task that is destroyed before it was connected or awaited: `~task_promise()` destroys an
  allocator and a scheduler that only connecting or awaiting constructs (`task.h:297-300` against
  `docs/coroutines/task.md:86`; `Task!DestroyedMembersWereBuilt` is false).
* A wait for a signal that is added after the watchdog has restored the default action and before it
  has taken the list sets the handler again, and nobody restores it after the list is marked
  as fired (`signal_wait.cpp:148` against `docs/utils/signal-wait.md:11,84`;
  `SignalWait!RestoredOnceFired` is false). The wait itself is served.
* A `fifo` whose container starts with elements gives out `max_size()` permits all the same
  (`fifo.h:46` against `docs/utils/buffers.md:133`); `Fifo` has the initial elements as a parameter,
  and `ChannelIsExact` holds when there are none. An element whose construction throws keeps its slot for good.
* A file that is open for appending: Windows sets the pointer to the end once, at opening
  (`docs/io/files.md:81`, `src/win/asyncio/file.cpp:136`); `PlatformsAgree` says nothing of the position then.
* `iocp_context` reserves the position of a transfer when its sender is made, not when it is started
  (`docs/io/files.md:164` documents it); after a transfer that was cut short the platforms differ, and the model stops
  there (`excused`).
* `inplace_vector::resize(count, value)` destroys a tail and leaves the size as it was
  (`inplace_vector.h:327`); `assign(count, value)` with fewer elements than before keeps
  the old tail (`inplace_vector.h:121`).

## 7. Further work

* `inplace_vector` and `streambuf` against reference definitions, with the lifetime of each element.
* Several descriptors in one batch of `EpollReactor`, and the timer part of the three `do_one()`.

## 8. Not modelled

* **Memory orders.** The models are sequentially consistent, so a missing
  acquire/release would not be found.
* **`retain_ptr`, `object_pool`.** A reference count and a free list under a lock. `EpollReactor` takes
  an entry as given out and recycled, which is what matters to it.
* **`streambuf`, `inplace_vector`.** Sequential containers, whose interest is in the lifetimes of their elements
  rather than in an order of steps.
* **`atomutex`, `intrusive_list`.** A lock and a sequence wherever the models use them.
* **Scopes, `timer`, type-erased schedulers.** They forward to a scheduler, a counting scope of the
  execution library or one of several senders and have no state of their own.
* **Sockets, pipes, resolvers** beyond what `IoRequests` says: addresses, options and name
  resolution are system calls with their arguments.
* **In modelled components:** the timer part of `do_one()` in the three I/O contexts (the same code as the loop's,
  in `TimeLoop`), several descriptors at once on epoll (they share nothing but the batch), synchronous I/O
  (it forwards), the choice of a task's allocator and its hops between schedulers, permissions and names of files.
* Formatting, endpoint and address conversions,
  type traits and concepts, allocation failure, and the contents of buffers outside `FlatBuffer` and `Transfer`.
