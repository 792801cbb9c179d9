----------------------------- MODULE Generator -----------------------------
(***************************************************************************)
(* generator (include/coio/generator.h): coroutines that yield values and  *)
(* nest other generators (co_yield elements_of).  Each coroutine on the    *)
(* stack keeps a link to the one below it and one to the top of the stack; *)
(* the consumer resumes, and reads the value of, the root's top.  A body   *)
(* is a sequence of what the coroutine does: "yield", "throw", or the      *)
(* generator it nests.                                                     *)
(***************************************************************************)
EXTENDS Naturals, Sequences

CONSTANTS Gens, Nobody,
          Root,         \* the generator that the consumer iterates
          Bodies,       \* the programs: bodies and whether each catches what a nested one throws
          Longest,      \* no body is longer
          Levels        \* nor are nests deeper

\* A generator is nested at most once, since elements_of() takes it by rvalue, and
\* by one whose body made it, so that nests have no circles.
IsProgram(p) ==
    LET Items == {x \in Gens \X (1..Longest) : x[2] \in DOMAIN p.body[x[1]]}
        Nested(x) == p.body[x[1]][x[2]]
    IN  /\ p.body \in [Gens -> Seq(Gens \cup {"yield", "throw"})]
        /\ p.catches \in [Gens -> BOOLEAN]
        /\ \A g \in Gens : Len(p.body[g]) <= Longest
        /\ \A x, y \in Items : Nested(x) \in Gens /\ Nested(x) = Nested(y) => x = y
        /\ \E level \in [Gens -> 0..Levels] :
              \A x \in Items : Nested(x) \in Gens => level[Nested(x)] < level[x[1]]
        /\ \A x \in Items : Nested(x) # Root

ASSUME GeneratorAssumption ==
    /\ Root \in Gens /\ Nobody \notin Gens /\ Gens \cap {"yield", "throw", "return"} = {}
    /\ Longest \in Nat /\ Levels \in Nat
    /\ \A p \in Bodies : IsProgram(p)

VARIABLES body, catches,
          ip,           \* ip[g]: how far g has got
          prev_, top_,  \* of each generator_promise_base
          value_or_error_,  \* what it holds, and which item of the body yielded the value
          active,       \* the coroutine that runs, Nobody when the consumer does
          raised,       \* whether an exception is in flight in the one that runs
          iteration,    \* of the root: "new", "iterating", "done", "destroyed"
          output,       \* what the consumer has read: generators and their items
          threw         \* whether an exception came out of the iteration

generatorVars == <<body, catches, ip, prev_, top_, value_or_error_, active, raised, iteration,
                   output, threw>>

GeneratorOf(p) ==
    /\ body = p.body /\ catches = p.catches
    /\ ip = [g \in Gens |-> 1]
    /\ prev_ = [g \in Gens |-> Nobody] /\ top_ = [g \in Gens |-> Nobody]
    /\ value_or_error_ = [g \in Gens |-> [holds |-> "nothing", item |-> 0]]
    /\ active = Nobody /\ raised = FALSE
    /\ iteration = "new" /\ output = <<>> /\ threw = FALSE

GeneratorInit == \E p \in Bodies : GeneratorOf(p)

\* begin() and ++: the top of the root's stack is resumed.
Begin ==
    /\ iteration = "new"
    /\ top_' = [top_ EXCEPT ![Root] = Root]
    /\ active' = Root
    /\ iteration' = "iterating"
    /\ UNCHANGED <<body, catches, ip, prev_, value_or_error_, raised, output, threw>>

Advance ==
    /\ iteration = "iterating" /\ active = Nobody
    /\ active' = top_[Root]
    /\ UNCHANGED <<body, catches, ip, prev_, top_, value_or_error_, raised, iteration, output,
                   threw>>

Item(g) == IF ip[g] <= Len(body[g]) THEN body[g][ip[g]] ELSE "return"

\* The coroutines from g down to the root.
Below(g) ==
    {h \in Gens : \A S \in SUBSET Gens :
                      g \in S /\ (\A s \in S : prev_[s] \in S \cup {Nobody}) => h \in S}

\* co_yield: the consumer gets control, and reads the value of the root's top.
YieldValue(g) ==
    /\ active = g /\ ~raised /\ Item(g) = "yield"
    /\ value_or_error_' = [value_or_error_ EXCEPT ![g] = [holds |-> "value", item |-> ip[g]]]
    /\ ip' = [ip EXCEPT ![g] = @ + 1]
    /\ active' = Nobody
    /\ output' = Append(output, <<top_[Root], value_or_error_'[top_[Root]].item>>)
    /\ UNCHANGED <<body, catches, prev_, top_, raised, iteration, threw>>

\* The new top n is linked to g, and every coroutine below learns of it.
FaultyTops(g, n) == [h \in Gens |-> IF h \in {g, n} THEN n ELSE top_[h]]

Tops(g, n) == [h \in Gens |-> IF h \in Below(g) \cup {n} THEN n ELSE top_[h]]

\* co_yield elements_of(n): runs n at once.
Nest(g) ==
    /\ active = g /\ ~raised /\ Item(g) \in Gens
    /\ LET n == Item(g)
       IN  /\ prev_' = [prev_ EXCEPT ![n] = g]
           /\ top_' = Tops(g, n)
           /\ active' = n
    /\ ip' = [ip EXCEPT ![g] = @ + 1]
    /\ UNCHANGED <<body, catches, value_or_error_, raised, iteration, output, threw>>

\* final_suspend(): the coroutine below becomes everybody's top and goes on,
\* where await_resume() rethrows what the one above left; or the root is done.
FinalSuspend(g, error) ==
    /\ value_or_error_' = IF error THEN [value_or_error_ EXCEPT ![g].holds = "error"]
                                   ELSE value_or_error_
    /\ IF prev_[g] # Nobody
       THEN /\ top_' = [h \in Gens |-> IF h \in Below(prev_[g]) THEN prev_[g] ELSE top_[h]]
            /\ active' = prev_[g]
            /\ raised' = (value_or_error_'[g].holds = "error")
            /\ UNCHANGED iteration
       ELSE /\ active' = Nobody
            /\ iteration' = "done"
            /\ UNCHANGED <<top_, raised>>

Return(g) ==
    /\ active = g /\ ~raised /\ Item(g) = "return"
    /\ FinalSuspend(g, FALSE)
    /\ UNCHANGED <<body, catches, ip, prev_, output, threw>>

\* A body that catches what it nested threw goes on.
Catch(g) ==
    /\ active = g /\ raised /\ catches[g]
    /\ raised' = FALSE
    /\ UNCHANGED <<body, catches, ip, prev_, top_, value_or_error_, active, iteration, output,
                   threw>>

\* unhandled_exception(): out of begin() or ++ when nothing is below, else into
\* the variant for the coroutine below.
Throw(g) ==
    /\ active = g
    /\ IF raised THEN ~catches[g] ELSE Item(g) = "throw"
    /\ IF prev_[top_[g]] = Nobody
       THEN /\ threw' = TRUE
            /\ iteration' = "done"
            /\ active' = Nobody
            /\ raised' = FALSE
            /\ UNCHANGED <<value_or_error_, top_>>
       ELSE FinalSuspend(g, TRUE) /\ UNCHANGED threw
    /\ ip' = [ip EXCEPT ![g] = @ + 1]
    /\ UNCHANGED <<body, catches, prev_, output>>

\* ~generator(): the frames go with the root's.  The consumer may stop anywhere.
Abandon ==
    /\ active = Nobody /\ iteration # "destroyed"
    /\ iteration' = "destroyed"
    /\ UNCHANGED <<body, catches, ip, prev_, top_, value_or_error_, active, raised, output,
                   threw>>

GeneratorNext ==
    \/ Begin \/ Advance \/ Abandon
    \/ \E g \in Gens : YieldValue(g) \/ Nest(g) \/ Return(g) \/ Catch(g) \/ Throw(g)

GeneratorSpec == GeneratorInit /\ [][GeneratorNext]_generatorVars

-----------------------------------------------------------------------------
\* The values from item i of g on, depth first, up to an exception that g does not
\* catch, where from[x] are those from a later or a deeper item.
ValuesFrom(b, c, from, g, i) ==
    LET rest == from[<<g, i + 1>>]
        inner == from[<<b[g][i], 1>>]
    IN  IF i > Len(b[g]) THEN [values |-> <<>>, threw |-> FALSE]
        ELSE IF b[g][i] = "throw" THEN [values |-> <<>>, threw |-> TRUE]
        ELSE IF b[g][i] = "yield"
        THEN [values |-> <<<<g, i>>>> \o rest.values, threw |-> rest.threw]
        ELSE IF inner.threw /\ ~c[g] THEN inner
        ELSE [values |-> inner.values \o rest.values, threw |-> rest.threw]

\* Those of every generator, from every item.
Walk(b, c) ==
    LET from[x \in Gens \X (1..Longest + 1)] == ValuesFrom(b, c, from, x[1], x[2])
    IN  from

Flattened == Walk(body, catches)[<<Root, 1>>]

\* The consumer reads the values of the nested generators in place, in the order
\* of a depth-first walk, none twice and none stale, whatever throws and catches
\* on the way, and gets the exception that nobody caught.
ValuesAreFlattened ==
    /\ \E n \in 0..Len(Flattened.values) : output = SubSeq(Flattened.values, 1, n)
    /\ iteration = "done" => output = Flattened.values /\ threw = Flattened.threw
=============================================================================
