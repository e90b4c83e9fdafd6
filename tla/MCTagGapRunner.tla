--------------------------- MODULE MCTagGapRunner ---------------------------
(***************************************************************************)
(* Small instances of TagGapRunner for TLC.                                *)
(*                                                                         *)
(* Three nodes are the least for which m_sent is large enough.  With MaxGap *)
(* = 1 it has three slots: Iters = 6 writes each of them twice.            *)
(***************************************************************************)
EXTENDS TagGapRunner
=============================================================================
