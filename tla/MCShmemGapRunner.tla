-------------------------- MODULE MCShmemGapRunner --------------------------
(***************************************************************************)
(* Small instances of ShmemGapRunner for TLC.                              *)
(*                                                                         *)
(* A node that waits scans two peers, one of which may overtake it; the    *)
(* second of two packets is allocated while the first is freed elsewhere.  *)
(* MaxGap = 0 is the least gap: the nodes run in step with any other, too. *)
(***************************************************************************)
EXTENDS ShmemGapRunner
=============================================================================
