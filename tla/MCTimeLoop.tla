----------------------------- MODULE MCTimeLoop -----------------------------
(***************************************************************************)
(* TimeLoop on two timers, whose deadlines come in either order, and on a  *)
(* timer with a post.                                                      *)
(***************************************************************************)
EXTENDS TimeLoop

CONSTANTS t1, t2, q1    \* the operations, as model values
=============================================================================
