-------------------------------- MODULE Task --------------------------------
(***************************************************************************)
(* task (include/coio/task.h): lazy coroutines that await one another.     *)
(* The coroutine frame belongs to the task object until the task is        *)
(* connected or awaited, and then to the operation state or the awaiter,   *)
(* which builds the two members of the promise that are constructed late.  *)
(* Tasks are numbered by depth: task t awaits task t + 1, a frame of which *)
(* lives in the frame of task t.  A stopped operation never resumes its    *)
(* coroutine: unhandled_stopped() completes the whole stack above it.      *)
(***************************************************************************)
EXTENDS Naturals, Sequences

CONSTANT Depth

TaskAssumption == Depth \in Nat \ {0}

VARIABLES frame,        \* frame[t]: where its coroutine is, "none" without one
          owner,        \* owner[t]: "nobody", "task" (the object) or "state"
          built,        \* built[t]: whether alloc_ and sched_ were constructed
          result_,      \* result_[t]: task_state_base::result_
          stopAsked,    \* whether the receiver's stop token was triggered
          completed,    \* what the receiver of task 1 got
          unbuilt       \* whether a promise destroyed members it had not built

taskVars == <<frame, owner, built, result_, stopAsked, completed, unbuilt>>

Tasks == 1..Depth
Running(t) == frame[t] = "running"

TaskInit ==
    /\ frame = [t \in Tasks |-> "none"]
    /\ owner = [t \in Tasks |-> "nobody"]
    /\ built = [t \in Tasks |-> FALSE]
    /\ result_ = [t \in Tasks |-> "none"]
    /\ stopAsked = FALSE /\ completed = <<>> /\ unbuilt = FALSE

\* The call of the coroutine: a frame that is suspended at its start.
Create(t) ==
    /\ frame[t] = "none"
    /\ IF t = 1 THEN completed = <<>> ELSE Running(t - 1)
    /\ frame' = [frame EXCEPT ![t] = "initial"]
    /\ owner' = [owner EXCEPT ![t] = "task"]
    /\ UNCHANGED <<built, result_, stopAsked, completed, unbuilt>>

\* The frames in S are destroyed, and with each ~task_promise() destroys alloc_
\* and sched_.
Destroy(S) ==
    /\ frame' = [t \in Tasks |-> IF t \in S THEN "none" ELSE frame[t]]
    /\ owner' = [t \in Tasks |-> IF t \in S THEN "nobody" ELSE owner[t]]
    /\ built' = [t \in Tasks |-> t \notin S /\ built[t]]
    /\ result_' = [t \in Tasks |-> IF t \in S THEN "none" ELSE result_[t]]
    /\ unbuilt' = (unbuilt \/ \E t \in S : owner[t] # "nobody" /\ ~built[t])

\* ~task() of a task that nobody connected or awaited.
Drop(t) ==
    /\ owner[t] = "task"
    /\ t > 1 => Running(t - 1)
    /\ Destroy({t})
    /\ UNCHANGED <<stopAsked, completed>>

\* The state of the receiver's operation, or the awaiter, takes over.
TakeOver(t) ==
    /\ owner[t] = "task"
    /\ owner' = [owner EXCEPT ![t] = "state"]
    /\ built' = [built EXCEPT ![t] = TRUE]

Connect ==
    /\ TakeOver(1)
    /\ UNCHANGED <<frame, result_, stopAsked, completed, unbuilt>>

StartTask ==
    /\ owner[1] = "state" /\ frame[1] = "initial"
    /\ frame' = [frame EXCEPT ![1] = "running"]
    /\ UNCHANGED <<owner, built, result_, stopAsked, completed, unbuilt>>

\* co_await of a task: the awaiting coroutine is suspended for the awaited one.
AwaitTask(t) ==
    /\ Running(t) /\ t < Depth
    /\ TakeOver(t + 1)
    /\ frame' = [frame EXCEPT ![t] = "waits", ![t + 1] = "running"]
    /\ UNCHANGED <<result_, stopAsked, completed, unbuilt>>

\* co_await of another sender, and its completion with a value or an error.
AwaitSender(t) ==
    /\ Running(t)
    /\ frame' = [frame EXCEPT ![t] = "asks"]
    /\ UNCHANGED <<owner, built, result_, stopAsked, completed, unbuilt>>

Resume(t) ==
    /\ frame[t] = "asks"
    /\ frame' = [frame EXCEPT ![t] = "running"]
    /\ UNCHANGED <<owner, built, result_, stopAsked, completed, unbuilt>>

RequestTaskStop ==
    /\ stopAsked' = TRUE
    /\ UNCHANGED <<frame, owner, built, result_, completed, unbuilt>>

\* complete() of an awaiter without a result, as if it had one.
FaultyStopped(t) ==
    /\ frame[t] = "asks" /\ stopAsked
    /\ frame' = [u \in Tasks |-> IF u = t THEN "abandoned" ELSE IF u = t - 1 THEN "running" ELSE frame[u]]
    /\ completed' = IF t = 1 THEN Append(completed, "stopped") ELSE completed
    /\ UNCHANGED <<owner, built, result_, stopAsked, unbuilt>>

\* The sender is stopped: complete() finds no result at any level and goes up.
Stopped(t) ==
    /\ frame[t] = "asks" /\ stopAsked
    /\ frame' = [frame EXCEPT ![t] = "abandoned"]
    /\ completed' = Append(completed, "stopped")
    /\ UNCHANGED <<owner, built, result_, stopAsked, unbuilt>>

\* The body returns or throws: the receiver is completed, or the awaiting
\* coroutine is resumed and, with its awaiter, destroys the frame.
FinishTask(t) ==
    /\ Running(t)
    /\ t < Depth => owner[t + 1] = "nobody"
    /\ \E r \in {"value", "error"} :
          IF t = 1
          THEN /\ result_' = [result_ EXCEPT ![t] = r]
               /\ frame' = [frame EXCEPT ![t] = "final"]
               /\ completed' = Append(completed, r)
               /\ UNCHANGED <<owner, built, unbuilt>>
          ELSE /\ frame' = [frame EXCEPT ![t] = "none", ![t - 1] = "running"]
               /\ owner' = [owner EXCEPT ![t] = "nobody"]
               /\ built' = [built EXCEPT ![t] = FALSE]
               /\ unbuilt' = (unbuilt \/ ~built[t])
               /\ UNCHANGED <<result_, completed>>
    /\ UNCHANGED stopAsked

\* ~task_operation(), before the start or after the completion: the frames that
\* wait in one another are destroyed with the outermost.
DestroyState ==
    /\ owner[1] = "state"
    /\ frame[1] = "initial" \/ completed # <<>>
    /\ Destroy(Tasks)
    /\ UNCHANGED <<stopAsked, completed>>

TaskNext ==
    \/ Connect \/ StartTask \/ RequestTaskStop \/ DestroyState
    \/ \E t \in Tasks : \/ Create(t) \/ Drop(t) \/ AwaitTask(t) \/ AwaitSender(t)
                        \/ Resume(t) \/ Stopped(t) \/ FinishTask(t)

TaskSpec == TaskInit /\ [][TaskNext]_taskVars

-----------------------------------------------------------------------------
\* The receiver is completed once, and from then on no coroutine of the stack
\* runs or can be resumed; until then exactly the deepest one runs or waits for
\* its operation, and every shallower one waits for the next; and each frame has
\* one owner, so that none is left when the operation state is gone.
OneCompletionPerStack ==
    /\ Len(completed) <= 1
    /\ \A t \in Tasks : (frame[t] = "none") = (owner[t] = "nobody")
    /\ \A t \in Tasks : frame[t] \in {"running", "asks", "abandoned"} =>
          /\ \A u \in Tasks : u < t => frame[u] = "waits"
          /\ \A u \in Tasks : u > t => frame[u] \in {"none", "initial"}
    /\ completed # <<>> => \A t \in Tasks : frame[t] \notin {"running", "asks"}
    /\ (\E t \in Tasks : frame[t] = "abandoned") => completed = <<"stopped">>

\* docs/coroutines/task.md:86, "Destroying a task that was never started destroys
\* the suspended coroutine frame": its promise destroys members that only
\* connecting or awaiting the task would have constructed.
DestroyedMembersWereBuilt == ~unbuilt
=============================================================================
