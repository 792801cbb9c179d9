------------------------------ MODULE WhenAny ------------------------------
(***************************************************************************)
(* when_any (include/coio/utils/when_any.h): a race of child operations.   *)
(* The first child to complete decides the outcome, asks the others to     *)
(* stop through a stop source of the race's own, and writes the result;    *)
(* the last one to arrive completes the race and so ends the state that    *)
(* all of them write to.  The children run on threads of their own and may *)
(* complete while start() is still starting their siblings.                *)
(*                                                                         *)
(* stop_when (include/coio/utils/stop_token.h) gives each child a token    *)
(* that combines the race's source with one from outside; its callback may *)
(* be called for both, and a flag lets the first call through only.        *)
(***************************************************************************)
EXTENDS Naturals, Sequences

CONSTANT ChildCount     \* how many children the race has

WhenAnyAssumption == ChildCount \in Nat \ {0}

VARIABLES first,        \* history: the child that completed first, 0 before
          nextChild,    \* the next child start() will start
          childPc,      \* pc[c]: where child c is
          outcome,      \* outcome[c]: what child c completed with
          done_count, ready_count,
          source,       \* whether stop was requested on the race's source
          outside,      \* outside[c]: whether c's token from outside was triggered
          flag,         \* flag[c]: call_once::flag of c's combined callback
          called,       \* called[c]: how often the operation under c was told to stop
          result,       \* state_value::result
          finished      \* what the race completed with, in order

raceVars == <<first, nextChild, childPc, outcome, done_count, ready_count, source, outside,
              flag, called, result, finished>>
stateVars == <<first, done_count, ready_count, source, result, finished>>
stopVars == <<outside, flag, called>>

Children == 1..ChildCount
Outcomes == {"value", "error", "stopped"}

RaceInit ==
    /\ first = 0
    /\ nextChild = 1
    /\ childPc = [c \in Children |-> "idle"]
    /\ outcome = [c \in Children |-> "none"]
    /\ done_count = 0 /\ ready_count = 0
    /\ source = FALSE
    /\ outside = [c \in Children |-> FALSE]
    /\ flag = [c \in Children |-> TRUE]
    /\ called = [c \in Children |-> 0]
    /\ result = "monostate"
    /\ finished = <<>>

\* start(): the children in their order, each of which registers its callback.
StartChild ==
    /\ nextChild <= ChildCount
    /\ childPc' = [childPc EXCEPT ![nextChild] = "running"]
    /\ nextChild' = nextChild + 1
    /\ UNCHANGED <<stateVars, stopVars, outcome>>

\* Somebody triggers the token that stop_when attached to child c.
StopOutside(c) ==
    /\ ~outside[c]
    /\ outside' = [outside EXCEPT ![c] = TRUE]
    /\ UNCHANGED <<stateVars, nextChild, childPc, outcome, flag, called>>

\* call_once::operator(), for either token of the combination, of a child
\* whose callback is registered: the tokens' threads race for the flag.
OnStop(c) ==
    /\ source \/ outside[c]
    /\ childPc[c] = "running"
    /\ flag[c]
    /\ flag' = [flag EXCEPT ![c] = FALSE]
    /\ called' = [called EXCEPT ![c] = @ + 1]
    /\ UNCHANGED <<stateVars, nextChild, childPc, outcome, outside>>

\* Child c completes, as stopped only when it was told to stop, and reports:
\* the first one goes on to request stop and to write.
Completes(c, wins) ==
    /\ childPc[c] = "running"
    /\ \E r \in Outcomes :
          /\ r = "stopped" => called[c] > 0
          /\ outcome' = [outcome EXCEPT ![c] = r]
    /\ first' = IF first = 0 THEN c ELSE first
    /\ done_count' = done_count + 1
    /\ childPc' = [childPc EXCEPT ![c] = IF wins THEN "request" ELSE "arrive"]
    /\ UNCHANGED <<stopVars, nextChild, ready_count, source, result, finished>>

\* report() with the increment and the test as two steps: two children may win.
FaultyReport(c) == Completes(c, ready_count = 0)

Report(c) == Completes(c, done_count = 0)

\* source.request_stop(), by the winner, which runs the callbacks.
Request(c) ==
    /\ childPc[c] = "request"
    /\ source' = TRUE
    /\ childPc' = [childPc EXCEPT ![c] = "write"]
    /\ UNCHANGED <<stopVars, first, nextChild, outcome, done_count, ready_count, result,
                   finished>>

\* The winner writes its value or error; a stopped one leaves the monostate.
Write(c) ==
    /\ childPc[c] = "write"
    /\ result' = IF outcome[c] = "stopped" THEN result ELSE outcome[c]
    /\ childPc' = [childPc EXCEPT ![c] = "arrive"]
    /\ UNCHANGED <<stopVars, first, nextChild, outcome, done_count, ready_count, source,
                   finished>>

\* What finish() completes the receiver with.
Delivered == IF result = "monostate" THEN "stopped" ELSE result

\* arrive(): the last one finishes.
Arrive(c) ==
    /\ childPc[c] = "arrive"
    /\ ready_count' = ready_count + 1
    /\ childPc' = [childPc EXCEPT ![c] = "gone"]
    /\ finished' = IF ready_count' = ChildCount
                 THEN Append(finished, Delivered) ELSE finished
    /\ UNCHANGED <<stopVars, first, nextChild, outcome, done_count, source, result>>

RaceNext ==
    \/ StartChild
    \/ \E c \in Children : \/ StopOutside(c)
                           \/ OnStop(c)
                           \/ Report(c)
                           \/ Request(c)
                           \/ Write(c)
                           \/ Arrive(c)

\* start() goes on once it was called.  A child that was told to stop
\* completes, whatever it completes with.
Answer(c) == called[c] > 0 /\ Report(c)

RaceFairness ==
    /\ WF_raceVars(nextChild > 1 /\ StartChild)
    /\ \A c \in Children : /\ WF_raceVars(OnStop(c)) /\ WF_raceVars(Answer(c))
                           /\ WF_raceVars(Request(c)) /\ WF_raceVars(Write(c))
                           /\ WF_raceVars(Arrive(c))

RaceSpec == RaceInit /\ [][RaceNext]_raceVars
FairRaceSpec == RaceSpec /\ RaceFairness

-----------------------------------------------------------------------------
\* The race completes once, after every child has left its state for good, and
\* with what the child that reported first completed with: no write, no request
\* and no arrival can come after the completion that destroys the state, and
\* what is delivered is never a result the winner had yet to write.  And a
\* child is told to stop once, even if both its tokens are triggered.
RaceIsDecided ==
    /\ finished # <<>> => /\ finished = <<outcome[first]>>
                         /\ \A c \in Children : childPc[c] = "gone"
    /\ \A c \in Children : called[c] <= 1

\* Once a child has completed, the others are told to stop and the race ends.
RaceEnds == first # 0 ~> finished # <<>>
=============================================================================
