--------------------------- MODULE MCChannelRunner ---------------------------
(***************************************************************************)
(* A small instance of ChannelRunner for TLC: main.cc:42, one channel over *)
(* UCX, with one packet where the program sends two.                       *)
(*                                                                         *)
(* The table routes the first node to the other, which has an empty line:  *)
(* it sends nothing, but synchronizes and marks EOF all the same.          *)
(***************************************************************************)
EXTENDS ChannelRunner

OneWorker == [c \in Chan |-> "w1"]
NoExtra == [c \in Chan |-> 0]

Sender == CHOOSE n \in Node : TRUE
OneWay == [n \in Node |-> IF n = Sender THEN SetToSeq(Node \ {n}) ELSE <<>>]
=============================================================================
