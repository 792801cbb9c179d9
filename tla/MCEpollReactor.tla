--------------------------- MODULE MCEpollReactor ---------------------------
(***************************************************************************)
(* EpollReactor on small instances: one per_fd_data entry, up to two I/O   *)
(* objects that use it one after the other, two reads r1, r2 and a write   *)
(* w1.  Two reads are the least for one operation to find what another of  *)
(* its direction left behind, one write the least for a mask with both     *)
(* directions.                                                             *)
(***************************************************************************)
EXTENDS EpollReactor

CONSTANTS r1, r2, w1
=============================================================================
