---------------------------- MODULE MCSyncChannel ---------------------------
(***************************************************************************)
(* Small instances of SyncChannel for TLC.                                 *)
(*                                                                         *)
(* MaxSync = 2 lets a node enter the second round of the barrier while acks *)
(* of the first are under way; MaxLog = 2 lets data go before the first sync *)
(* and be followed by it on the same link.                                 *)
(***************************************************************************)
EXTENDS SyncChannel
=============================================================================
