------------------------------ MODULE MCSQueue ------------------------------
(***************************************************************************)
(* Small instances of SQueue for TLC.                                      *)
(*                                                                         *)
(* Two blocking consumers, a timed one and one that never blocks compete for *)
(* the notifications of two producers; four items are one for each consumer. *)
(***************************************************************************)
EXTENDS SQueue
=============================================================================
