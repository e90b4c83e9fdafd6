-------------------------------- MODULE Router --------------------------------
(***************************************************************************)
(* router and load_routing_table (router.h, router.cc): a file lists for   *)
(* each rank, a line each, the ranks it sends to, in order.  A rank with   *)
(* no line sends to all the others, starting with the next: the default.   *)
(*                                                                         *)
(* This module is the table and what is made of it; UcxBenchmarks reads a  *)
(* file and runs a benchmark along its routes.                             *)
(*                                                                         *)
(* The other default, to_none, is not used by the benchmarks, and its      *)
(* routes of ranks with no line would be undefined (line 42).              *)
(***************************************************************************)
EXTENDS Integers, FiniteSets, SequencesExt

CONSTANTS CommSize,    \* m_comm_size
          MaxRank,     \* the largest rank in a file
          MaxLine      \* how many ranks a line lists at most

ASSUME RouterAssumption ==
  /\ CommSize \in Nat \ {0} /\ MaxRank \in Nat /\ MaxLine \in Nat
  /\ MaxRank >= CommSize - 1

Rank == 0..(CommSize - 1)
Listed == 0..MaxRank

VARIABLE table    \* m_routing_table, as far as the file is read

NoTable == table = [r \in {} |-> <<>>]

Lines == UNION {[1..k -> Listed] : k \in 0..MaxLine}

\* The type of the table.
TableOK == \A r \in DOMAIN table : table[r] \in Lines

\* load_routing_table(): a line; insert() keeps what is there.
ReadLine(from, tos) ==
  table' = [r \in DOMAIN table \cup {from} |-> IF r \in DOMAIN table THEN table[r] ELSE tos]

ReadOn == \E from \in Listed, tos \in Lines : ReadLine(from, tos)

-----------------------------------------------------------------------------
Exists(r) == r < CommSize

Ring(rank) == [k \in 1..(CommSize - 1) |-> (rank + k) % CommSize]

\* The places in a line of the ranks that exist, and the k-th of them.
Kept(line) == {p \in DOMAIN line : Exists(line[p])}
Place(line, k) == CHOOSE p \in Kept(line) : Cardinality({q \in Kept(line) : q <= p}) = k

\* router::operator(): the ranks of a line that exist, in their order.
Route(rank) ==
  IF rank \in DOMAIN table
  THEN LET line == table[rank] IN [k \in 1..Cardinality(Kept(line)) |-> line[Place(line, k)]]
  ELSE Ring(rank)

\* Wrong variant: one rank short.
NearlyEnough(from) == Cardinality({from} \cup ToSet(table[from])) + 1 >= CommSize

\* The line of a rank names all of them, its own aside.
Enough(from) == Cardinality({from} \cup ToSet(table[from])) >= CommSize

\* router::is_complete()
IsComplete == \A from \in DOMAIN table : Enough(from)

-----------------------------------------------------------------------------
\* all_to_all_gap_runner.h:75: "complete (all-to-all) routing table": where
\* is_complete() says so every rank sends to every other, provided that the
\* lines name only ranks that exist: the others are counted and then dropped.
LinesInRange == \A from \in DOMAIN table : ToSet(table[from]) \subseteq Rank
CompleteIsAllToAll ==
  LinesInRange /\ IsComplete => \A n \in Rank : Rank \ {n} \subseteq ToSet(Route(n))

\* The default spreads the load: at each turn no two ranks send to the same.
Staggered ==
  \A m, n \in Rank \ DOMAIN table : m # n =>
    \A k \in 1..(CommSize - 1) : Route(m)[k] # Route(n)[k]
=============================================================================
