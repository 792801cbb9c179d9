---------------------------- MODULE MCAsyncLatch ----------------------------
(***************************************************************************)
(* AsyncLatch with three waiters, so that one can be pushed before, one    *)
(* during and one behind a late notification, and a counting thread.       *)
(***************************************************************************)
EXTENDS AsyncLatch

CONSTANTS w1, w2, w3, c1    \* model values
=============================================================================
