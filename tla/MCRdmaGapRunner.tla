--------------------------- MODULE MCRdmaGapRunner --------------------------
(***************************************************************************)
(* Small instances of RdmaGapRunner for TLC.                               *)
(*                                                                         *)
(* With three nodes a scan has two peers, one of which may overtake it;    *)
(* with two the window closes on both sides of a single link, and each of  *)
(* the two slots is written twice.                                         *)
(***************************************************************************)
EXTENDS RdmaGapRunner
=============================================================================
