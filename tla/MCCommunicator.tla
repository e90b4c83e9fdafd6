--------------------------- MODULE MCCommunicator ---------------------------
(***************************************************************************)
(* Small instances of Communicator for TLC.                                *)
(*                                                                         *)
(* FlushSize = 2 lets a single message wait in a buffer for the timer, or  *)
(* for the broadcast of a sync or an EOF.                                  *)
(***************************************************************************)
EXTENDS Communicator

OneWorker == [c \in Chan |-> "w1"]
WorkerPerChannel == [c \in Chan |-> IF c = 1 THEN "w1" ELSE "w2"]
=============================================================================
