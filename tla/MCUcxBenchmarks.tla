--------------------------- MODULE MCUcxBenchmarks ---------------------------
(***************************************************************************)
(* Small instances of UcxBenchmarks for TLC.                               *)
(*                                                                         *)
(* Rank 3 does not exist among the CommSize = 3 ranks 0..2.  A line of two *)
(* ranks is what completeness takes; it may repeat or omit a rank.  The    *)
(* totals of bench2() do not fit an int of four values.                    *)
(***************************************************************************)
EXTENDS UcxBenchmarks

Uneven == [i \in Rank |-> [j \in Rank |-> i * CommSize + j]]

\* Every table of ranks that exist (a route has no others anyway), with lines that
\* do not name their own rank, nor all the others, as the default does, and in
\* ascending order (what goes to the nodes of a route is posted without waiting,
\* so that their order does not matter); a rank may be named twice.
Plain(routes) ==
  /\ DOMAIN routes \subseteq Rank
  /\ \A from \in DOMAIN routes :
       /\ ToSet(routes[from]) \subseteq Rank \ {from} /\ ToSet(routes[from]) # Rank \ {from}
       /\ \A k, l \in DOMAIN routes[from] : k < l => routes[from][k] <= routes[from][l]
=============================================================================
