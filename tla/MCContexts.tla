----------------------------- MODULE MCContexts -----------------------------
(***************************************************************************)
(* Contexts on two operations, at one address after the other or beside    *)
(* each other.                                                             *)
(***************************************************************************)
EXTENDS Contexts

CONSTANTS o1, o2,       \* operations
          a1, a2        \* addresses

\* A stream is read into a buffer, or into an empty one and so at once.
MCRequests == [kind : {"receive"}, open : {TRUE}, stream : {TRUE}, empty : BOOLEAN]

\* Neither module tells the operations, or the addresses, apart by name, so the
\* one that starts first may be called o1, and the place of its state a1.
NamedInOrder ==
    /\ pc'[o2] # "idle" => pc'[o1] # "idle"
    /\ address'[o1] # a2

MCNext == ContextsNext /\ NamedInOrder

MCSpec ==
    /\ ContextsInit /\ [][MCNext]_contextsVars
    /\ \A o \in Ops : /\ WF_contextsVars(InContext(Uring!Starting(o), Starting(o)))
                    /\ WF_contextsVars(InContext(Uring!Canceling(o), Canceling(o)))
                    /\ WF_contextsVars(InContext(Uring!Posting(o), Posting(o)))
    /\ WF_contextsVars(InContext(Uring!DoOne, DoOne))
=============================================================================
