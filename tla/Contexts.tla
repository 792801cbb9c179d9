------------------------------ MODULE Contexts ------------------------------
(***************************************************************************)
(* The two contexts in which the system completes an operation, driven     *)
(* through the same steps of the program.  A behaviour is about one of the *)
(* contexts; the variables that both have are shared.                      *)
(***************************************************************************)
EXTENDS IocpContext

CONSTANTS UringRequests,                \* what the operations of UringContext may ask for
          Entries, Batch, MaxShorts     \* of UringContext alone

VARIABLES context,      \* "uring" or "iocp"
          ring, pulling, cqes, wake, shorts     \* of UringContext alone

uringOnly == <<ring, pulling, cqes, wake, shorts>>
iocpOnly == <<packets, ready>>

Uring == INSTANCE UringContext WITH Requests <- UringRequests

ASSUME ConstantsAreSound == Uring!UringAssumption /\ IocpAssumption

ContextsInit == context \in {"uring", "iocp"} /\ Uring!Init /\ Init

\* Whichever context there is makes its step, one of theirs.
InContext(uring, iocp) ==
    /\ UNCHANGED context
    /\ IF context = "uring"
       THEN uring /\ UNCHANGED iocpOnly
       ELSE iocp /\ UNCHANGED uringOnly

ContextsNext == InContext(Uring!Next, Next)

contextsVars == <<context, uringOnly, vars>>

ContextsSpec == ContextsInit /\ [][ContextsNext]_contextsVars

-----------------------------------------------------------------------------
\* No entry, no completion and no packet is lost or left behind while the
\* consumer waits, in either context.
NothingLeftBehind ==
    IF context = "uring" THEN Uring!NoEntryLeftBehind ELSE PacketsAreExact

\* The ring, too, keeps the contract of I/O operations, and in either context
\* an operation that was asked to stop completes.
RequestsAreAnswered == Uring!ImplementsIo /\ Uring!StopEnds
=============================================================================
