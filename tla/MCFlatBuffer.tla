---------------------------- MODULE MCFlatBuffer ----------------------------
(***************************************************************************)
(* A flat buffer whose max_size is smaller than its smallest allocation.   *)
(***************************************************************************)
EXTENDS Naturals, TLC

CONSTANT b1

VARIABLES buf, queue, fresh

Flat == INSTANCE FlatBuffer WITH
    Buffers <- {b1}, MaxSizes <- (b1 :> 1), Sizes <- 0..1, Floor <- 2, Word <- 8

Spec == Flat!Spec

-----------------------------------------------------------------------------
\* As documented (docs/utils/buffers.md:115, 118), prepare() throws when size()
\* and what is asked for exceed max_size(), which caps size().
SizeIsCapped == Flat!SizeIsCapped
=============================================================================
