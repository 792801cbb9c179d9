-------------------------- MODULE MCAsyncSemaphore --------------------------
(***************************************************************************)
(* AsyncSemaphore with waiters that compete for one permit.                *)
(***************************************************************************)
EXTENDS AsyncSemaphore

CONSTANTS w1, w2, w3    \* model values
=============================================================================
