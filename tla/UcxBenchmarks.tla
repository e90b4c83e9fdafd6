---------------------------- MODULE UcxBenchmarks ----------------------------
(***************************************************************************)
(* The benchmarks that are a loop over a library: main() runs one of       *)
(*   - rdma_all2all_ucx() and rdma_circular_ucx() (ucx.cc);                *)
(*   - the all_to_all() of a library in a loop, which is tag_all2all()     *)
(*     (ucx.cc), and bench2() (bench2.cc), which then gathers how much     *)
(*     everybody sent and received and compares the totals.                *)
(*                                                                         *)
(* The first two follow the routes of a file: every node reads the same    *)
(* file, exchanges metadata with the nodes it sends to                     *)
(* (exchange_metadata.h), and then, in each iteration, puts a packet into  *)
(* the memory of each, and after a fence adds to a counter there.  At the  *)
(* end it waits for the counters that belong to the nodes it sends to, and *)
(* returns, whereby it frees its memory.  Nothing checks that the routes   *)
(* are mutual: it is the exchange that only nodes with mutual routes get   *)
(* out of.                                                                 *)
(*                                                                         *)
(* Nobody reads the data, and a node sends the same memory again and again *)
(* (or, rdma_circular_ucx(), puts chunk after chunk round an area that     *)
(* nobody drains): a packet is its number, and its size and its place      *)
(* where they count.                                                       *)
(***************************************************************************)
EXTENDS Router

CONSTANTS Iters,       \* iterations
          BuffSize,    \* BUFF_SIZE, the size of a circular area
          ChunkSizes,  \* the chunk sizes rdma_circular_ucx() is asked for
          Word,        \* sizeof(uint64_t)
          PacketSize,  \* PacketSize[i][j]: what i sends to j in bench2(), at random
          IntRange,    \* how many values an int has
          Tried(_)     \* the tables that the one-sided benchmarks are run with

ASSUME UcxAssumption ==
  /\ Iters \in Nat \ {0} /\ IntRange \in Nat \ {0}
  /\ BuffSize \in Nat \ {0} /\ Word \in Nat \ {0}
  /\ ChunkSizes \subseteq Nat \ {0}        \* 0 would divide by zero
  /\ PacketSize \in [Rank -> [Rank -> Nat]]

VARIABLES
  route,     \* route[n]: what router() made of the table for n
  bench,     \* which of them, "none" while the file is read
  chunk,     \* chunk_size of rdma_circular_ucx()
  pc,        \* "read" the file, "start", "exchange" metadata, "loop", "run" its own
             \* operations, "wait" for the counters or "gather" them, "done", "threw"
  exposed,   \* how many of its kinds of memory a node has exposed so far
  posted,    \* the iterations whose puts and atomics were posted
  landed,    \* landed[n][i]: the iterations of i whose packets are in the memory of n
  counts,    \* counts[n][i]: the counter at n that belongs to i
  received   \* m_bytes_received of bench2()'s statistics

vars == <<table, route, bench, chunk, pc, exposed, posted, landed, counts, received>>

OneSided == {"rdma_all2all", "rdma_circular"}
Collective == {"tag_all2all", "bench2"}
Benchmarks == OneSided \cup Collective

\* Packets and counters apart, or one area with both.
Exchanges == IF bench = "rdma_all2all" THEN 2 ELSE 1

Dests(n) == ToSet(route[n])

\* How often a route names a rank: a line may do so more than once, and all that is
\* done for the nodes of a route is done as often.
Times(n, j) == Cardinality({k \in DOMAIN route[n] : route[n][k] = j})

Init ==
  /\ NoTable /\ route = [n \in Rank |-> <<>>]
  /\ bench = "none" /\ chunk = 0
  /\ pc = [n \in Rank |-> "read"]
  /\ exposed = [n \in Rank |-> 0]
  /\ posted = [n \in Rank |-> 0]
  /\ landed = [n \in Rank |-> [i \in Rank |-> 0]]
  /\ counts = [n \in Rank |-> [i \in Rank |-> 0]]
  /\ received = [n \in Rank |-> 0]

\* The file, which is the same for all.
ReadFile ==
  /\ \A n \in Rank : pc[n] = "read"
  /\ ReadOn
  /\ UNCHANGED <<route, bench, chunk, pc, exposed, posted, landed, counts, received>>

\* "Buffer size must be a multiple of chunk size"
Fits(size) == BuffSize % size = 0

\* main() runs the one that was asked for.  Bound: the collective ones without a
\* table, which makes no difference to them but for the size of packets that
\* nobody reads.
Start ==
  /\ \A n \in Rank : pc[n] = "read"
  /\ Tried(table)
  /\ route' = [n \in Rank |-> Route(n)]
  /\ \/ /\ bench' = "rdma_circular"
        /\ chunk' \in ChunkSizes
        /\ pc' = [n \in Rank |-> IF Fits(chunk') THEN "start" ELSE "threw"]
     \/ /\ bench' = "rdma_all2all"
        /\ pc' = [n \in Rank |-> "start"]
        /\ UNCHANGED chunk
     \/ /\ bench' \in Collective /\ NoTable
        /\ pc' = [n \in Rank |-> "loop"]
        /\ UNCHANGED chunk
  /\ UNCHANGED <<table, exposed, posted, landed, counts, received>>

\* rdma_circular_ucx() sends a chunk in each of its iterations.
TotalIters == IF bench = "rdma_circular" THEN (BuffSize \div chunk) * Iters ELSE Iters

\* circular_adapter: two counters, of which the peers add to the second, and the
\* data behind them.
Area == 0 .. 2 * Word + BuffSize - 1
Counters == 0 .. 2 * Word - 1
DataArea == Area \ Counters

\* Where the next chunk is put.
ChunkBytes(number) ==
  LET first == 2 * Word + ((chunk * number) % BuffSize) IN first .. first + chunk - 1

\* exchange_metadata() asks every node of the route for its memory, and
\* exposes the node's own to the same nodes ...
Expose(n) ==
  /\ pc[n] = "start"
  /\ exposed' = [exposed EXCEPT ![n] = 1]
  /\ pc' = [pc EXCEPT ![n] = "exchange"]
  /\ UNCHANGED <<table, route, bench, chunk, posted, landed, counts, received>>

\* ... and runs until it has got all it asked for.
\* Wrong variant: a node has its own exposed only after it has got the other's.
ObtainsNext(n, j) == exposed[j] * Times(j, n) > exposed[n] * Times(n, j)
Obtains(n, j) == exposed[j] * Times(j, n) >= exposed[n] * Times(n, j)

Obtain(n) ==
  /\ pc[n] = "exchange"
  /\ \A j \in Dests(n) : Obtains(n, j)
  /\ IF exposed[n] < Exchanges
     THEN exposed' = [exposed EXCEPT ![n] = @ + 1] /\ UNCHANGED pc
     ELSE pc' = [pc EXCEPT ![n] = "loop"] /\ UNCHANGED exposed
  /\ UNCHANGED <<table, route, bench, chunk, posted, landed, counts, received>>

MoreIterations(n) == posted[n] < TotalIters

\* An iteration: all_to_all(), which sends and receives a packet of everybody; or
\* the puts, the fence and the atomics, after which rdma_all2all_ucx() runs until
\* its operations are complete, and rdma_circular_ucx() just polls.
Post(n) ==
  /\ pc[n] = "loop"
  /\ MoreIterations(n)
  /\ posted' = [posted EXCEPT ![n] = @ + 1]
  /\ pc' = [pc EXCEPT ![n] = IF bench = "rdma_circular" THEN "loop" ELSE "run"]
  /\ UNCHANGED <<table, route, bench, chunk, exposed, landed, counts, received>>

\* all_to_all() returns when it has received.
Exchanged(n) == \A i \in Rank : landed[n][i] = posted[n]
PutsComplete(n) == \A j \in Dests(n) : landed[j][n] = posted[n]
Complete(n) == \A j \in Dests(n) : counts[j][n] = Times(n, j) * posted[n]

\* comm.run() in the loop, which waits for the puts alone (an atomic_post has
\* no completion to check); and the flush after it, which waits for everything.
RunOrFlush(n) ==
  /\ bench \in OneSided
  /\ \/ /\ pc[n] = "run" /\ PutsComplete(n)
        /\ pc' = [pc EXCEPT ![n] = "loop"]
     \/ /\ pc[n] = "loop" /\ ~MoreIterations(n) /\ Complete(n)
        /\ pc' = [pc EXCEPT ![n] = "wait"]
  /\ UNCHANGED <<table, route, bench, chunk, exposed, posted, landed, counts, received>>

Total(amount) == FoldFunction(+, 0, amount)

\* tag_all2all() looks at nothing that it receives.
TagAllToAllReturns(n) ==
  /\ bench = "tag_all2all"
  /\ pc[n] = "run" /\ Exchanged(n)
  /\ pc' = [pc EXCEPT ![n] = IF MoreIterations(n) THEN "loop" ELSE "done"]
  /\ UNCHANGED <<table, route, bench, chunk, exposed, posted, landed, counts, received>>

\* bench2() counts what it received in each iteration, and gathers at the end.
Bench2Returns(n) ==
  /\ bench = "bench2"
  /\ pc[n] = "run" /\ Exchanged(n)
  /\ received' = [received EXCEPT ![n] = @ + Total([i \in Rank |-> PacketSize[i][n]])]
  /\ pc' = [pc EXCEPT ![n] = IF MoreIterations(n) THEN "loop" ELSE "gather"]
  /\ UNCHANGED <<table, route, bench, chunk, exposed, posted, landed, counts>>

Sent == [n \in Rank |-> Iters * Total(PacketSize[n])]

\* accumulate() adds in an int.
InInt(amount) == Total(amount) % IntRange

\* all_gather() gives everybody the numbers of all, once all have called it.
Gather(n) ==
  /\ pc[n] = "gather"
  /\ \A i \in Rank : pc[i] \in {"gather", "done", "threw"}
  /\ pc' = [pc EXCEPT ![n] = IF InInt(Sent) = InInt(received) THEN "done" ELSE "threw"]
  /\ UNCHANGED <<table, route, bench, chunk, exposed, posted, landed, counts, received>>

\* Wrong variant: the last packet is not waited for.
NearlyCounted(n, i) == counts[n][i] + 1 >= TotalIters
Counted(n, i) == counts[n][i] >= TotalIters

\* The counters of the nodes on the route, one after the other; none of them
\* ever gets smaller.
Wait(n) ==
  /\ pc[n] = "wait"
  /\ \A i \in Dests(n) : Counted(n, i)
  /\ pc' = [pc EXCEPT ![n] = "done"]
  /\ UNCHANGED <<table, route, bench, chunk, exposed, posted, landed, counts, received>>

\* The network.  A fence orders all that was posted before it before all that
\* was posted after it: an atomic overtakes no put.  rdma_all2all_ucx() has a
\* second fence after the atomics; without it a put may overtake the atomic of
\* the iteration before.
MayOvertake == IF bench = "rdma_all2all" THEN 0 ELSE 1

PutLands(n, i) ==
  /\ bench \in OneSided
  /\ landed[n][i] < posted[i]
  /\ n \in Dests(i)
  /\ Times(i, n) * landed[n][i] <= counts[n][i] + Times(i, n) * MayOvertake
  /\ landed' = [landed EXCEPT ![n][i] = @ + 1]
  /\ UNCHANGED <<table, route, bench, chunk, pc, exposed, posted, counts, received>>

\* A packet of a collective is received once both have called it.
PacketLands(n, i) ==
  /\ bench \in Collective
  /\ landed[n][i] < posted[i] /\ landed[n][i] < posted[n]
  /\ landed' = [landed EXCEPT ![n][i] = @ + 1]
  /\ UNCHANGED <<table, route, bench, chunk, pc, exposed, posted, counts, received>>

AtomicLands(n, i) ==
  /\ bench \in OneSided
  /\ counts[n][i] < Times(i, n) * landed[n][i]
  /\ counts' = [counts EXCEPT ![n][i] = @ + 1]
  /\ UNCHANGED <<table, route, bench, chunk, pc, exposed, posted, landed, received>>

Run(n) ==
  \/ Expose(n) \/ Obtain(n) \/ Post(n) \/ RunOrFlush(n) \/ Wait(n)
  \/ TagAllToAllReturns(n) \/ Bench2Returns(n) \/ Gather(n)

Next ==
  \/ ReadFile \/ Start
  \/ \E n \in Rank : Run(n) \/ \E i \in Rank : PutLands(n, i) \/ AtomicLands(n, i) \/ PacketLands(n, i)

Spec == Init /\ [][Next]_vars

\* The nodes run, and what was posted completes.
Fairness ==
  /\ \A n \in Rank : WF_vars(Run(n))
  /\ \A n, i \in Rank : WF_vars(PutLands(n, i) \/ AtomicLands(n, i) \/ PacketLands(n, i))

FairSpec == Spec /\ Fairness

-----------------------------------------------------------------------------
\* With routes that name no rank twice, mutual or not, no put and no atomic goes to
\* memory that its owner has not exposed, or has freed again, and none is still to
\* leave the memory of a node that is done; and every chunk lies in the data area
\* of its peer, clear of the counters and of what follows.  (With a rank named
\* twice its peer counts to the end before the end.)
NamedOnce == \A n \in Rank : IsInjective(route[n])

MemoryIsThere ==
  \A n, i \in Rank :
    bench \in OneSided /\ counts[n][i] < posted[i] /\ n \in Dests(i) /\ NamedOnce =>
      /\ exposed[n] = Exchanges /\ pc[n] # "done"
      /\ pc[i] # "done"
      /\ bench = "rdma_circular" =>
           \A number \in landed[n][i] .. posted[i] - 1 : ChunkBytes(number) \subseteq DataArea

\* With such routes that are mutual too, or the collectives, everybody comes to the
\* end, and nobody throws, but for a chunk size that is refused.  (With any others,
\* the nodes that do not hear of each other wait in exchange_metadata() for ever.)
Mutual == NamedOnce /\ \A i, j \in Rank : j \in Dests(i) <=> i \in Dests(j)

MutualRoutesFinish ==
  ((\E n \in Rank : pc[n] # "read") /\ Mutual)
    ~> (\A n \in Rank : pc[n] = IF bench = "rdma_circular" /\ BuffSize % chunk # 0
                               THEN "threw" ELSE "done")

-----------------------------------------------------------------------------
(* The inductive invariant of the proofs.  The table needs no type: what   *)
(* matters is who is on whose route.                                       *)

TypeOK ==
  /\ bench \in Benchmarks \cup {"none"}
  /\ pc \in [Rank -> {"read", "start", "exchange", "loop", "run", "wait", "gather", "done", "threw"}]
  /\ exposed \in [Rank -> 0..2] /\ posted \in [Rank -> Nat]
  /\ landed \in [Rank -> [Rank -> Nat]] /\ counts \in [Rank -> [Rank -> Nat]]
  /\ bench = "rdma_circular" => chunk \in ChunkSizes

\* The benchmark is known once the file is read, and nothing was done before.
StartInv ==
  /\ bench = "none" => \A n \in Rank :
       /\ pc[n] = "read" /\ exposed[n] = 0 /\ posted[n] = 0
       /\ \A i \in Rank : landed[n][i] = 0 /\ counts[n][i] = 0
  /\ bench # "none" => \A n \in Rank : pc[n] # "read"

\* What the rest is about.
InOrder == bench \in OneSided /\ NamedOnce

\* A node posts only to nodes that have it on their routes and everything exposed.
ExchangeInv ==
  InOrder => \A n \in Rank :
    /\ exposed[n] <= Exchanges /\ posted[n] <= TotalIters /\ pc[n] # "gather"
    /\ pc[n] = "start" => exposed[n] = 0
    /\ pc[n] = "exchange" => exposed[n] > 0
    /\ pc[n] \in {"start", "exchange", "threw"} => posted[n] = 0
    /\ bench = "rdma_circular" /\ pc[n] # "threw" => Fits(chunk)
    /\ pc[n] \in {"loop", "run", "wait", "done"} =>
         \A j \in Rank : j \in Dests(n) => n \in Dests(j) /\ exposed[j] = Exchanges

\* It waits for what it posted, and then for what the others post.
LandInv ==
  InOrder => \A n, i \in Rank :
    /\ counts[n][i] <= landed[n][i] /\ landed[n][i] <= posted[i]
    /\ pc[i] \in {"wait", "done"} /\ n \in Dests(i) => counts[n][i] = posted[i]
    /\ pc[n] = "done" /\ i \in Dests(n) => counts[n][i] = TotalIters

IInv == TypeOK /\ StartInv /\ ExchangeInv /\ LandInv
=============================================================================
