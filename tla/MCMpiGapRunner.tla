--------------------------- MODULE MCMpiGapRunner ---------------------------
(***************************************************************************)
(* Small instances of MpiGapRunner for TLC.                                *)
(*                                                                         *)
(* MaxGap = 0 is the smallest window the runner works with, one packet;    *)
(* Iters = 3 is more than two windows, so that a node is held up by another. *)
(* The instance with Static needs a second packet under way: MaxGap = 1.   *)
(***************************************************************************)
EXTENDS MpiGapRunner
=============================================================================
