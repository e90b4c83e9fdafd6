------------------------- MODULE UcxBenchmarksProofs -------------------------
(* The theorems about UcxBenchmarks and the default routes of Router, for  *)
(* any number of ranks, any file, any number of iterations and any sizes.  *)
EXTENDS UcxBenchmarks, TLAPS, FiniteSetTheorems

\* What differs by less than S differs modulo S.
Lemmas == INSTANCE GapWindowProofs WITH Node <- Rank, Window <- Iters, sent <- posted, received <- landed

LEMMA ConstantTypes ==
  /\ CommSize \in Nat /\ CommSize > 0 /\ 0 \in Rank
  /\ Iters \in Nat /\ Iters > 0 /\ BuffSize \in Nat /\ BuffSize > 0 /\ Word \in Nat /\ Word > 0
  /\ \A size \in ChunkSizes : size \in Nat /\ size > 0
  BY RouterAssumption, UcxAssumption DEF Rank

\* What follows from the file and the command line stays.
LEMMA Stays ==
  ASSUME route' = route, bench' = bench, chunk' = chunk
  PROVE  /\ Exchanges' = Exchanges /\ TotalIters' = TotalIters
         /\ \A n \in Rank : Dests(n)' = Dests(n)
         /\ Fits(chunk)' <=> Fits(chunk)
         /\ InOrder' <=> InOrder
<1>1. Exchanges' = Exchanges /\ TotalIters' = TotalIters /\ (Fits(chunk)' <=> Fits(chunk))
  BY DEF Exchanges, TotalIters, Fits
<1>2. (\A n \in Rank : Dests(n)' = Dests(n)) /\ (InOrder' <=> InOrder)
  BY DEF Dests, InOrder, NamedOnce
<1>. QED BY <1>1, <1>2

\* A route that names no rank twice.
LEMMA Once ==
  ASSUME NamedOnce, NEW n \in Rank, NEW j
  PROVE  Times(n, j) = IF j \in Dests(n) THEN 1 ELSE 0
<1>. DEFINE places == {k \in DOMAIN route[n] : route[n][k] = j}
<1>1. j \in Dests(n) <=> places # {}
  BY DEF Dests, ToSet
<1>2. \A k, l \in places : k = l
  BY DEF NamedOnce, IsInjective
<1>3. CASE places = {}
  BY <1>1, <1>3, FS_EmptySet DEF Times
<1>4. CASE places # {}
  <2>1. PICK k \in places : TRUE
    BY <1>4
  <2>2. places = {k}
    BY <1>2, <2>1
  <2>3. Cardinality({k}) = 1
    BY FS_Singleton
  <2>. QED BY <1>1, <1>4, <2>2, <2>3 DEF Times
<1>. QED BY <1>3, <1>4

LEMMA InitInv == Init => IInv
<1>. SUFFICES ASSUME Init PROVE IInv
  OBVIOUS
<1>1. TypeOK
  BY DEF Init, TypeOK
<1>2. StartInv /\ ExchangeInv /\ LandInv
  BY DEF Init, StartInv, ExchangeInv, LandInv, InOrder, OneSided
<1>. QED BY <1>1, <1>2 DEF IInv

-----------------------------------------------------------------------------
(* Before the benchmark.                                                   *)

LEMMA ReadFileInv == ASSUME IInv, ReadFile PROVE IInv'
<1>1. /\ \A n \in Rank : pc[n] = "read"
      /\ UNCHANGED <<bench, chunk, pc, exposed, posted, landed, counts, received>>
  BY DEF ReadFile
<1>2. bench = "none"
  BY <1>1, ConstantTypes DEF IInv, StartInv
<1>. QED BY <1>1, <1>2 DEF IInv, TypeOK, StartInv, ExchangeInv, LandInv, InOrder, OneSided

LEMMA TotalItersType ==
  ASSUME bench = "rdma_circular" => chunk \in ChunkSizes
  PROVE  TotalIters \in Nat /\ Exchanges \in {1, 2}
<1>1. CASE bench = "rdma_circular"
  <2>1. chunk \in Nat /\ chunk > 0
    BY <1>1, ConstantTypes
  <2>2. BuffSize \div chunk \in Nat
    BY <2>1, ConstantTypes
  <2>3. (BuffSize \div chunk) * Iters \in Nat
    BY <2>2, ConstantTypes
  <2>. QED BY <1>1, <2>3 DEF TotalIters, Exchanges
<1>2. CASE bench # "rdma_circular"
  BY <1>2, ConstantTypes DEF TotalIters, Exchanges
<1>. QED BY <1>1, <1>2

LEMMA StartsInv == ASSUME IInv, Start PROVE IInv'
<1>1. /\ \A n \in Rank : pc[n] = "read"
      /\ UNCHANGED <<table, exposed, posted, landed, counts, received>>
      /\ \/ /\ bench' = "rdma_circular" /\ chunk' \in ChunkSizes
            /\ pc' = [n \in Rank |-> IF Fits(chunk') THEN "start" ELSE "threw"]
         \/ /\ bench' = "rdma_all2all" /\ chunk' = chunk
            /\ pc' = [n \in Rank |-> "start"]
         \/ /\ bench' \in Collective /\ chunk' = chunk
            /\ pc' = [n \in Rank |-> "loop"]
  BY DEF Start
<1>2. bench = "none"
  BY <1>1, ConstantTypes DEF IInv, StartInv
<1>3. \A n \in Rank : /\ exposed[n] = 0 /\ posted[n] = 0
                      /\ \A i \in Rank : landed[n][i] = 0 /\ counts[n][i] = 0
  BY <1>2 DEF IInv, StartInv
<1>4. bench' \in Benchmarks /\ bench' # "none"
  BY <1>1 DEF Benchmarks, OneSided, Collective
<1>5. TypeOK'
  <2>1. pc' \in [Rank -> {"read", "start", "exchange", "loop", "run", "wait", "gather", "done", "threw"}]
    BY <1>1
  <2>2. bench' = "rdma_circular" => chunk' \in ChunkSizes
    BY <1>1 DEF Collective
  <2>. QED BY <1>1, <1>4, <2>1, <2>2 DEF IInv, TypeOK
<1>6. StartInv'
  BY <1>1, <1>4 DEF StartInv
<1>7. ExchangeInv'
  <2>. SUFFICES ASSUME bench' \in OneSided, NEW n \in Rank
                PROVE  /\ exposed'[n] <= Exchanges' /\ posted'[n] <= TotalIters' /\ pc'[n] # "gather"
                       /\ pc'[n] \in {"start", "threw"} /\ exposed'[n] = 0 /\ posted'[n] = 0
                       /\ bench' = "rdma_circular" /\ pc'[n] # "threw" => Fits(chunk')
    BY DEF ExchangeInv, InOrder, Fits
  <2>1. TotalIters' \in Nat /\ Exchanges' \in {1, 2}
    <3>1. (bench = "rdma_circular" => chunk \in ChunkSizes)'
      BY <1>5 DEF TypeOK
    <3>2. (TotalIters \in Nat /\ Exchanges \in {1, 2})'
      BY <3>1, TotalItersType, PTL
    <3>. QED BY <3>2
  <2>2. pc'[n] \in {"start", "threw"}
    BY <1>1 DEF OneSided, Collective
  <2>3. bench' = "rdma_circular" /\ pc'[n] # "threw" => Fits(chunk')
    BY <1>1 DEF Collective
  <2>. QED BY <1>1, <1>3, <2>1, <2>2, <2>3
<1>8. LandInv'
  <2>. SUFFICES ASSUME bench' \in OneSided PROVE LandInv'
    BY DEF LandInv, InOrder
  <2>1. \A n \in Rank : pc'[n] \in {"start", "threw"}
    BY <1>1 DEF OneSided, Collective
  <2>. QED BY <1>1, <1>3, <2>1 DEF LandInv
<1>. QED BY <1>5, <1>6, <1>7, <1>8 DEF IInv

-----------------------------------------------------------------------------
(* The exchange.  What follows is shown for the one-sided benchmarks: the  *)
(* rest of the invariant says nothing of the others.                       *)

\* Nobody reads any more, and the file and the command line stay.
Started == bench # "none" /\ route' = route /\ bench' = bench /\ chunk' = chunk

LEMMA Known ==
  ASSUME IInv, Started
  PROVE  /\ bench \in Benchmarks /\ bench' # "none" /\ \A n \in Rank : pc[n] # "read"
         /\ TotalIters \in Nat /\ Exchanges \in {1, 2}
         /\ TotalIters' = TotalIters /\ Exchanges' = Exchanges
         /\ \A n \in Rank : Dests(n)' = Dests(n)
         /\ Fits(chunk)' <=> Fits(chunk)
         /\ InOrder' <=> InOrder
<1>1. bench \in Benchmarks /\ bench' # "none" /\ \A n \in Rank : pc[n] # "read"
  BY DEF IInv, TypeOK, StartInv, Started
<1>2. TotalIters \in Nat /\ Exchanges \in {1, 2}
  BY TotalItersType DEF IInv, TypeOK
<1>. QED BY <1>1, <1>2, Stays DEF Started

\* Somebody that does something has started.
LEMMA Running ==
  ASSUME IInv, NEW n \in Rank, pc[n] # "read" PROVE bench # "none"
  BY DEF IInv, StartInv

\* The collective ones have but their types to keep.
LEMMA CollectiveInv ==
  ASSUME IInv, TypeOK', Started, ~InOrder, \A n \in Rank : pc'[n] # "read"
  PROVE  IInv'
<1>1. ~InOrder' /\ bench' # "none"
  BY Known DEF Started
<1>2. StartInv'
  BY <1>1 DEF StartInv
<1>3. ExchangeInv' /\ LandInv'
  BY <1>1 DEF ExchangeInv, LandInv
<1>. QED BY <1>2, <1>3 DEF IInv

LEMMA ExposeInv == ASSUME IInv, NEW n \in Rank, Expose(n) PROVE IInv'
<1>1. /\ pc[n] = "start"
      /\ exposed' = [exposed EXCEPT ![n] = 1]
      /\ pc' = [pc EXCEPT ![n] = "exchange"]
      /\ posted' = posted /\ landed' = landed /\ counts' = counts
  BY DEF Expose
<1>2. Started
  BY <1>1, Running DEF Expose, Started
<1>3. TypeOK'
  BY <1>1, <1>2 DEF IInv, TypeOK, Started
<1>4. \A m \in Rank : /\ pc'[m] = IF m = n THEN "exchange" ELSE pc[m]
                      /\ exposed'[m] = IF m = n THEN 1 ELSE exposed[m]
  BY <1>1 DEF IInv, TypeOK
<1>5. \A m \in Rank : pc'[m] # "read"
  BY <1>2, <1>4, Known
<1>6. CASE ~InOrder
  BY <1>2, <1>3, <1>5, <1>6, CollectiveInv
<1>7. CASE InOrder
  <2>1. ExchangeInv'
    <3>1. exposed[n] = 0 /\ posted[n] = 0
      BY <1>1, <1>7 DEF IInv, ExchangeInv
    <3>2. \A m \in Rank : pc[m] \in {"loop", "run", "wait", "done"} => n \notin Dests(m)
      BY <1>2, <1>7, <3>1, Known DEF IInv, ExchangeInv
    <3>. SUFFICES ASSUME NEW m \in Rank
                  PROVE  /\ exposed'[m] <= Exchanges' /\ posted'[m] <= TotalIters' /\ pc'[m] # "gather"
                         /\ pc'[m] = "start" => exposed'[m] = 0
                         /\ pc'[m] = "exchange" => exposed'[m] > 0
                         /\ pc'[m] \in {"start", "exchange", "threw"} => posted'[m] = 0
                         /\ bench' = "rdma_circular" /\ pc'[m] # "threw" => Fits(chunk')
                         /\ pc'[m] \in {"loop", "run", "wait", "done"} =>
                              \A j \in Rank : j \in Dests(m)' => m \in Dests(j)' /\ exposed'[j] = Exchanges'
      BY DEF ExchangeInv, Fits
    <3>. QED BY <1>1, <1>2, <1>4, <1>7, <3>1, <3>2, Known DEF IInv, ExchangeInv, Started, Fits
  <2>2. LandInv'
    BY <1>1, <1>2, <1>4, <1>7, Known DEF IInv, LandInv, Started
  <2>3. StartInv'
    BY <1>2, <1>5, Known DEF StartInv
  <2>. QED BY <1>3, <2>1, <2>2, <2>3 DEF IInv
<1>. QED BY <1>6, <1>7

LEMMA ObtainInv == ASSUME IInv, NEW n \in Rank, Obtain(n) PROVE IInv'
<1>1. /\ pc[n] = "exchange"
      /\ \A j \in Dests(n) : exposed[j] * Times(j, n) >= exposed[n] * Times(n, j)
      /\ posted' = posted /\ landed' = landed /\ counts' = counts
      /\ \/ /\ exposed[n] < Exchanges
            /\ exposed' = [exposed EXCEPT ![n] = exposed[n] + 1] /\ pc' = pc
         \/ /\ ~(exposed[n] < Exchanges)
            /\ pc' = [pc EXCEPT ![n] = "loop"] /\ exposed' = exposed
  BY DEF Obtain, Obtains
<1>2. Started
  BY <1>1, Running DEF Obtain, Started
<1>3. exposed[n] \in 0..2 /\ Exchanges \in {1, 2}
  BY <1>2, Known DEF IInv, TypeOK
<1>4. TypeOK'
  <2>1. exposed[n] < Exchanges => exposed[n] + 1 \in 0..2
    BY <1>3
  <2>2. exposed' \in [Rank -> 0..2]
    BY <1>1, <2>1 DEF IInv, TypeOK
  <2>3. pc' \in [Rank -> {"read", "start", "exchange", "loop", "run", "wait", "gather", "done", "threw"}]
    BY <1>1 DEF IInv, TypeOK
  <2>. QED BY <1>1, <1>2, <2>2, <2>3 DEF IInv, TypeOK, Started
<1>5. \A m \in Rank : m # n => pc'[m] = pc[m] /\ exposed'[m] = exposed[m]
  BY <1>1 DEF IInv, TypeOK
<1>6. \/ exposed[n] < Exchanges /\ exposed'[n] = exposed[n] + 1 /\ pc'[n] = "exchange"
      \/ ~(exposed[n] < Exchanges) /\ exposed' = exposed /\ pc'[n] = "loop"
  BY <1>1 DEF IInv, TypeOK
<1>7. \A m \in Rank : pc'[m] # "read"
  BY <1>2, <1>5, <1>6, Known
<1>8. CASE ~InOrder
  BY <1>2, <1>4, <1>7, <1>8, CollectiveInv
<1>9. CASE InOrder
  <2>0. ASSUME NEW j \in Rank, j \in Dests(n) PROVE n \in Dests(j) /\ exposed[j] >= exposed[n]
    <3>1. exposed[j] * Times(j, n) >= exposed[n] * 1 /\ Times(j, n) = IF n \in Dests(j) THEN 1 ELSE 0
      BY <1>1, <1>9, <2>0, Once DEF InOrder
    <3>2. exposed[n] > 0 /\ exposed[n] \in Nat /\ exposed[j] \in Nat
      BY <1>1, <1>3, <1>9 DEF IInv, TypeOK, ExchangeInv
    <3>3. n \in Dests(j)
      <4>. SUFFICES ASSUME n \notin Dests(j) PROVE FALSE
        OBVIOUS
      <4>1. exposed[j] * 0 >= exposed[n] * 1
        BY <3>1
      <4>. QED BY <3>2, <4>1
    <3>4. exposed[j] * 1 >= exposed[n] * 1
      BY <3>1, <3>3
    <3>. QED BY <3>2, <3>3, <3>4
  <2>1. ExchangeInv'
    <3>1. /\ posted[n] = 0 /\ exposed[n] <= Exchanges
          /\ bench = "rdma_circular" => Fits(chunk)
      BY <1>1, <1>9 DEF IInv, ExchangeInv
    <3>2. ASSUME exposed[n] < Exchanges
          PROVE  \A m \in Rank : pc[m] \in {"loop", "run", "wait", "done"} => n \notin Dests(m)
      BY <1>3, <1>9, <3>2 DEF IInv, ExchangeInv
    <3>5. exposed'[n] > 0
      BY <1>1, <1>3, <1>6, <1>9 DEF IInv, ExchangeInv
    <3>. SUFFICES ASSUME NEW m \in Rank
                  PROVE  /\ exposed'[m] <= Exchanges' /\ posted'[m] <= TotalIters' /\ pc'[m] # "gather"
                         /\ pc'[m] = "start" => exposed'[m] = 0
                         /\ pc'[m] = "exchange" => exposed'[m] > 0
                         /\ pc'[m] \in {"start", "exchange", "threw"} => posted'[m] = 0
                         /\ bench' = "rdma_circular" /\ pc'[m] # "threw" => Fits(chunk')
                         /\ pc'[m] \in {"loop", "run", "wait", "done"} =>
                              \A j \in Rank : j \in Dests(m)' => m \in Dests(j)' /\ exposed'[j] = Exchanges'
      BY DEF ExchangeInv, Fits
    <3>3. CASE m # n
      BY <1>1, <1>2, <1>5, <1>6, <1>9, <3>2, <3>3, Known DEF IInv, ExchangeInv, Started, Fits
    <3>4. CASE m = n
      <4>1. exposed'[n] <= Exchanges
        BY <1>3, <1>6, <3>1
      <4>2. ASSUME pc'[n] = "loop", NEW j \in Rank, j \in Dests(n)
            PROVE  n \in Dests(j) /\ exposed'[j] = Exchanges
        <5>1. exposed[j] \in 0..2 /\ exposed[j] <= Exchanges
          BY <1>9 DEF IInv, TypeOK, ExchangeInv
        <5>. QED BY <1>3, <1>6, <2>0, <4>2, <5>1
      <4>3. posted[n] <= TotalIters
        BY <1>9 DEF IInv, ExchangeInv
      <4>. QED BY <1>1, <1>2, <1>6, <3>1, <3>4, <3>5, <4>1, <4>2, <4>3, Known DEF Started, Fits
    <3>. QED BY <3>3, <3>4
  <2>2. LandInv'
    BY <1>1, <1>2, <1>5, <1>6, <1>9, Known DEF IInv, LandInv, Started
  <2>3. StartInv'
    BY <1>2, <1>7, Known DEF StartInv
  <2>. QED BY <1>4, <2>1, <2>2, <2>3 DEF IInv
<1>. QED BY <1>8, <1>9

-----------------------------------------------------------------------------
(* The iterations.                                                         *)

\* A step in which the exchange is over and pc of a node alone changes, from one
\* of the later states to another.
LEMMA LaterInv ==
  ASSUME IInv, Started, TypeOK', InOrder, NEW n \in Rank, exposed' = exposed,
         pc[n] \in {"loop", "run", "wait"}, pc'[n] \in {"loop", "run", "wait", "done"},
         \A m \in Rank : m # n => pc'[m] = pc[m],
         \A m \in Rank : posted'[m] <= TotalIters /\ (m # n => posted'[m] = posted[m])
  PROVE  ExchangeInv' /\ StartInv'
<1>1. ExchangeInv'
  <2>. SUFFICES ASSUME NEW m \in Rank
                PROVE  /\ exposed'[m] <= Exchanges' /\ posted'[m] <= TotalIters' /\ pc'[m] # "gather"
                       /\ pc'[m] = "start" => exposed'[m] = 0
                       /\ pc'[m] = "exchange" => exposed'[m] > 0
                       /\ pc'[m] \in {"start", "exchange", "threw"} => posted'[m] = 0
                       /\ bench' = "rdma_circular" /\ pc'[m] # "threw" => Fits(chunk')
                       /\ pc'[m] \in {"loop", "run", "wait", "done"} =>
                            \A j \in Rank : j \in Dests(m)' => m \in Dests(j)' /\ exposed'[j] = Exchanges'
    BY DEF ExchangeInv, Fits
  <2>1. CASE m # n
    BY <2>1, Known DEF IInv, ExchangeInv, Started, Fits
  <2>2. CASE m = n
    BY <2>2, Known DEF IInv, ExchangeInv, Started, Fits
  <2>. QED BY <2>1, <2>2
<1>2. \A m \in Rank : pc'[m] # "read"
  BY Known
<1>3. StartInv'
  BY <1>2, Known DEF StartInv
<1>. QED BY <1>1, <1>3

LEMMA PostInv == ASSUME IInv, NEW n \in Rank, Post(n) PROVE IInv'
<1>1. /\ pc[n] = "loop" /\ posted[n] < TotalIters
      /\ posted' = [posted EXCEPT ![n] = posted[n] + 1]
      /\ pc' = [pc EXCEPT ![n] = IF bench = "rdma_circular" THEN "loop" ELSE "run"]
      /\ exposed' = exposed /\ landed' = landed /\ counts' = counts
  BY DEF Post, MoreIterations
<1>2. Started
  BY <1>1, Running DEF Post, Started
<1>3. /\ pc'[n] \in {"loop", "run"} /\ posted'[n] = posted[n] + 1 /\ posted[n] \in Nat
      /\ \A m \in Rank : m # n => pc'[m] = pc[m] /\ posted'[m] = posted[m]
  BY <1>1 DEF IInv, TypeOK
<1>4. TypeOK'
  <2>1. posted' \in [Rank -> Nat]
    BY <1>1, <1>3 DEF IInv, TypeOK
  <2>. QED BY <1>1, <1>2, <2>1 DEF IInv, TypeOK, Started
<1>5. \A m \in Rank : pc'[m] # "read"
  BY <1>2, <1>3, Known
<1>6. CASE ~InOrder
  BY <1>2, <1>4, <1>5, <1>6, CollectiveInv
<1>7. CASE InOrder
  <2>1. \A m \in Rank : posted'[m] <= TotalIters /\ (m # n => posted'[m] = posted[m])
    <3>1. posted'[n] <= TotalIters
      BY <1>1, <1>2, <1>3, Known
    <3>2. \A m \in Rank : posted[m] <= TotalIters
      BY <1>7 DEF IInv, ExchangeInv
    <3>. QED BY <1>3, <3>1, <3>2
  <2>2. ExchangeInv' /\ StartInv'
    BY <1>1, <1>2, <1>3, <1>4, <1>7, <2>1, LaterInv
  <2>3. LandInv'
    <3>. SUFFICES ASSUME NEW m \in Rank, NEW i \in Rank
                  PROVE  /\ counts[m][i] <= landed[m][i] /\ landed[m][i] <= posted'[i]
                         /\ pc'[i] \in {"wait", "done"} /\ m \in Dests(i) => counts[m][i] = posted'[i]
                         /\ pc'[m] = "done" /\ i \in Dests(m) => counts[m][i] = TotalIters
      BY <1>1, <1>2, Known DEF LandInv, Started
    <3>1. /\ counts[m][i] \in Nat /\ landed[m][i] \in Nat /\ posted[i] \in Nat
          /\ counts[m][i] <= landed[m][i] /\ landed[m][i] <= posted[i]
          /\ pc[i] \in {"wait", "done"} /\ m \in Dests(i) => counts[m][i] = posted[i]
          /\ pc[m] = "done" /\ i \in Dests(m) => counts[m][i] = TotalIters
      BY <1>7 DEF IInv, TypeOK, LandInv
    <3>2. posted'[i] >= posted[i]
      BY <1>3, <3>1
    <3>. QED BY <1>3, <3>1, <3>2
  <2>. QED BY <1>4, <2>2, <2>3 DEF IInv
<1>. QED BY <1>6, <1>7

LEMMA RunOrFlushInv == ASSUME IInv, NEW n \in Rank, RunOrFlush(n) PROVE IInv'
<1>1. /\ bench \in OneSided
      /\ \/ pc[n] = "run" /\ pc' = [pc EXCEPT ![n] = "loop"]
         \/ pc[n] = "loop" /\ Complete(n) /\ pc' = [pc EXCEPT ![n] = "wait"]
      /\ exposed' = exposed /\ posted' = posted /\ landed' = landed /\ counts' = counts
  BY DEF RunOrFlush
<1>2. Started
  BY <1>1, Running DEF RunOrFlush, Started
<1>3. /\ \A m \in Rank : m # n => pc'[m] = pc[m]
      /\ pc[n] \in {"run", "loop"} /\ pc'[n] \in {"loop", "wait"}
      /\ pc'[n] = "wait" => Complete(n)
  BY <1>1 DEF IInv, TypeOK
<1>4. TypeOK'
  BY <1>1, <1>2 DEF IInv, TypeOK, Started
<1>5. CASE ~InOrder
  <2>1. \A m \in Rank : pc'[m] # "read"
    BY <1>2, <1>3, Known
  <2>. QED BY <1>2, <1>4, <1>5, <2>1, CollectiveInv
<1>6. CASE InOrder
  <2>1. \A m \in Rank : posted'[m] <= TotalIters
    BY <1>1, <1>6 DEF IInv, ExchangeInv
  <2>2. ExchangeInv' /\ StartInv'
    BY <1>1, <1>2, <1>3, <1>4, <1>6, <2>1, LaterInv
  <2>3. LandInv'
    <3>. SUFFICES ASSUME NEW m \in Rank, NEW i \in Rank
                  PROVE  /\ counts[m][i] <= landed[m][i] /\ landed[m][i] <= posted[i]
                         /\ pc'[i] \in {"wait", "done"} /\ m \in Dests(i) => counts[m][i] = posted[i]
                         /\ pc'[m] = "done" /\ i \in Dests(m) => counts[m][i] = TotalIters
      BY <1>1, <1>2, Known DEF LandInv, Started
    <3>1. Complete(n) /\ m \in Dests(n) => counts[m][n] = posted[n]
      <4>1. Complete(n) /\ m \in Dests(n) => counts[m][n] = 1 * posted[n]
        BY <1>6, Once DEF Complete, InOrder
      <4>2. posted[n] \in Nat
        BY DEF IInv, TypeOK
      <4>. QED BY <4>1, <4>2
    <3>. QED BY <1>1, <1>3, <1>6, <3>1 DEF IInv, LandInv
  <2>. QED BY <1>4, <2>2, <2>3 DEF IInv
<1>. QED BY <1>5, <1>6

LEMMA WaitInv == ASSUME IInv, NEW n \in Rank, Wait(n) PROVE IInv'
<1>1. /\ pc[n] = "wait" /\ pc' = [pc EXCEPT ![n] = "done"]
      /\ \A i \in Dests(n) : counts[n][i] >= TotalIters
      /\ exposed' = exposed /\ posted' = posted /\ landed' = landed /\ counts' = counts
  BY DEF Wait, Counted
<1>2. Started
  BY <1>1, Running DEF Wait, Started
<1>3. /\ \A m \in Rank : m # n => pc'[m] = pc[m]
      /\ pc'[n] = "done"
  BY <1>1 DEF IInv, TypeOK
<1>4. TypeOK'
  BY <1>1, <1>2 DEF IInv, TypeOK, Started
<1>5. \A m \in Rank : pc'[m] # "read"
  BY <1>2, <1>3, Known
<1>6. CASE ~InOrder
  BY <1>2, <1>4, <1>5, <1>6, CollectiveInv
<1>7. CASE InOrder
  <2>1. \A m \in Rank : posted[m] <= TotalIters
    BY <1>7 DEF IInv, ExchangeInv
  <2>2. ExchangeInv' /\ StartInv'
    BY <1>1, <1>2, <1>3, <1>4, <1>7, <2>1, LaterInv
  <2>3. LandInv'
    <3>. SUFFICES ASSUME NEW m \in Rank, NEW i \in Rank
                  PROVE  /\ counts[m][i] <= landed[m][i] /\ landed[m][i] <= posted[i]
                         /\ pc'[i] \in {"wait", "done"} /\ m \in Dests(i) => counts[m][i] = posted[i]
                         /\ pc'[m] = "done" /\ i \in Dests(m) => counts[m][i] = TotalIters
      BY <1>1, <1>2, Known DEF LandInv, Started
    <3>1. /\ counts[m][i] \in Nat /\ landed[m][i] \in Nat /\ posted[i] \in Nat /\ posted[i] <= TotalIters
          /\ counts[m][i] <= landed[m][i] /\ landed[m][i] <= posted[i] /\ TotalIters \in Nat
      BY <1>2, <1>7, <2>1, Known DEF IInv, TypeOK, LandInv
    <3>2. m = n /\ i \in Dests(m) => counts[m][i] = TotalIters
      BY <1>1, <3>1
    <3>. QED BY <1>1, <1>3, <1>7, <3>1, <3>2 DEF IInv, LandInv
  <2>. QED BY <1>4, <2>2, <2>3 DEF IInv
<1>. QED BY <1>6, <1>7

LEMMA CollectiveReturnsInv ==
  ASSUME IInv, NEW n \in Rank, TagAllToAllReturns(n) \/ Bench2Returns(n) \/ Gather(n)
  PROVE  IInv'
<1>1. /\ pc[n] \in {"run", "gather"}
      /\ exposed' = exposed /\ posted' = posted /\ landed' = landed /\ counts' = counts
      /\ route' = route /\ bench' = bench /\ chunk' = chunk
  BY DEF TagAllToAllReturns, Bench2Returns, Gather
<1>2. Started
  BY <1>1, Running DEF Started
<1>3. \E next \in {"loop", "gather", "done", "threw"} : pc' = [pc EXCEPT ![n] = next]
  BY DEF TagAllToAllReturns, Bench2Returns, Gather
<1>4. /\ pc' \in [Rank -> {"read", "start", "exchange", "loop", "run", "wait", "gather", "done", "threw"}]
      /\ \A m \in Rank : m # n => pc'[m] = pc[m]
      /\ pc'[n] # "read"
  BY <1>3 DEF IInv, TypeOK
<1>5. TypeOK'
  BY <1>1, <1>2, <1>4 DEF IInv, TypeOK, Started
<1>6. ~InOrder
  <2>1. pc[n] = "gather" => ~InOrder
    BY DEF IInv, ExchangeInv
  <2>2. CASE pc[n] = "gather"
    BY <2>1, <2>2
  <2>3. CASE pc[n] # "gather"
    BY <2>3 DEF TagAllToAllReturns, Bench2Returns, Gather, InOrder, OneSided
  <2>. QED BY <2>2, <2>3
<1>7. \A m \in Rank : pc'[m] # "read"
  BY <1>2, <1>4, Known
<1>. QED BY <1>2, <1>5, <1>6, <1>7, CollectiveInv

-----------------------------------------------------------------------------
(* The network.                                                            *)

LEMMA LandsInv ==
  ASSUME IInv, NEW n \in Rank, NEW i \in Rank, PutLands(n, i) \/ PacketLands(n, i)
  PROVE  IInv'
<1>1. /\ landed[n][i] < posted[i]
      /\ landed' = [landed EXCEPT ![n][i] = landed[n][i] + 1]
      /\ pc' = pc /\ exposed' = exposed /\ posted' = posted /\ counts' = counts
      /\ route' = route /\ bench' = bench /\ chunk' = chunk
  BY DEF PutLands, PacketLands
<1>2. bench # "none"
  BY DEF PutLands, PacketLands, OneSided, Collective
<1>3. Started
  BY <1>1, <1>2 DEF Started
<1>4. landed[n][i] \in Nat /\ posted[i] \in Nat
  BY DEF IInv, TypeOK
<1>5. \A m, j \in Rank : landed'[m][j] = IF m = n /\ j = i THEN landed[n][i] + 1 ELSE landed[m][j]
  BY <1>1 DEF IInv, TypeOK
<1>6. TypeOK'
  <2>1. landed' \in [Rank -> [Rank -> Nat]]
    BY <1>1, <1>4 DEF IInv, TypeOK
  <2>. QED BY <1>1, <2>1 DEF IInv, TypeOK
<1>7. CASE ~InOrder
  BY <1>1, <1>3, <1>6, <1>7, Known, CollectiveInv
<1>8. CASE InOrder
  <2>1. StartInv' /\ ExchangeInv'
    <3>1. StartInv'
      BY <1>1, <1>3, Known DEF StartInv
    <3>2. ExchangeInv'
      BY <1>1, <1>3, <1>8, Known DEF IInv, ExchangeInv, Started
    <3>. QED BY <3>1, <3>2
  <2>2. LandInv'
    <3>1. landed[n][i] + 1 <= posted[i] /\ counts[n][i] <= landed[n][i] + 1
      <4>1. counts[n][i] \in Nat /\ counts[n][i] <= landed[n][i]
        BY <1>8 DEF IInv, TypeOK, LandInv
      <4>. QED BY <1>1, <1>4, <4>1
    <3>. QED BY <1>1, <1>3, <1>5, <1>8, <3>1, Known DEF IInv, LandInv, Started
  <2>. QED BY <1>6, <2>1, <2>2 DEF IInv
<1>. QED BY <1>7, <1>8

LEMMA AtomicLandsInv ==
  ASSUME IInv, NEW n \in Rank, NEW i \in Rank, AtomicLands(n, i) PROVE IInv'
<1>1. /\ bench \in OneSided /\ counts[n][i] < Times(i, n) * landed[n][i]
      /\ counts' = [counts EXCEPT ![n][i] = counts[n][i] + 1]
      /\ pc' = pc /\ exposed' = exposed /\ posted' = posted /\ landed' = landed
      /\ table' = table /\ route' = route /\ bench' = bench /\ chunk' = chunk
  BY DEF AtomicLands
<1>2. Started
  BY <1>1 DEF Started, OneSided
<1>3. counts[n][i] \in Nat /\ landed[n][i] \in Nat /\ posted[i] \in Nat /\ TotalIters \in Nat
  BY <1>1, <1>2, Known DEF IInv, TypeOK
<1>4. \A m, j \in Rank : counts'[m][j] = IF m = n /\ j = i THEN counts[n][i] + 1 ELSE counts[m][j]
  BY <1>1 DEF IInv, TypeOK
<1>5. TypeOK'
  <2>1. counts' \in [Rank -> [Rank -> Nat]]
    BY <1>1, <1>3 DEF IInv, TypeOK
  <2>. QED BY <1>1, <2>1 DEF IInv, TypeOK
<1>6. CASE ~InOrder
  BY <1>1, <1>2, <1>5, <1>6, Known, CollectiveInv
<1>7. CASE InOrder
  <2>1. StartInv' /\ ExchangeInv'
    <3>1. StartInv'
      BY <1>1, <1>2, Known DEF StartInv
    <3>2. ExchangeInv'
      BY <1>1, <1>2, <1>7, Known DEF IInv, ExchangeInv, Started
    <3>. QED BY <3>1, <3>2
  <2>2. counts[n][i] < landed[n][i]
    <3>1. Times(i, n) = IF n \in Dests(i) THEN 1 ELSE 0
      BY <1>7, Once DEF InOrder
    <3>2. CASE n \in Dests(i)
      <4>1. counts[n][i] < 1 * landed[n][i]
        BY <1>1, <3>1, <3>2
      <4>. QED BY <1>3, <4>1
    <3>3. CASE n \notin Dests(i)
      <4>1. counts[n][i] < 0 * landed[n][i]
        BY <1>1, <3>1, <3>3
      <4>. QED BY <1>3, <4>1
    <3>. QED BY <3>2, <3>3
  <2>3. landed[n][i] <= posted[i] /\ posted[i] <= TotalIters
    BY <1>7 DEF IInv, ExchangeInv, LandInv
  <2>4. ~(pc[i] \in {"wait", "done"} /\ n \in Dests(i)) /\ ~(pc[n] = "done" /\ i \in Dests(n))
    <3>1. pc[i] \in {"wait", "done"} /\ n \in Dests(i) => counts[n][i] = posted[i]
      BY <1>7 DEF IInv, LandInv
    <3>2. pc[n] = "done" /\ i \in Dests(n) => counts[n][i] = TotalIters
      BY <1>7 DEF IInv, LandInv
    <3>. QED BY <1>3, <2>2, <2>3, <3>1, <3>2
  <2>5. counts[n][i] + 1 <= landed[n][i]
    BY <1>3, <2>2
  <2>6. LandInv'
    BY <1>1, <1>2, <1>4, <1>7, <2>4, <2>5, Known DEF IInv, LandInv, Started
  <2>. QED BY <1>5, <2>1, <2>6 DEF IInv
<1>. QED BY <1>6, <1>7

LEMMA NextInv == ASSUME IInv, [Next]_vars PROVE IInv'
<1>1. CASE ReadFile
  BY <1>1, ReadFileInv
<1>2. CASE Start
  BY <1>2, StartsInv
<1>3. ASSUME NEW n \in Rank, Run(n) PROVE IInv'
  BY <1>3, ExposeInv, ObtainInv, PostInv, RunOrFlushInv, WaitInv, CollectiveReturnsInv DEF Run
<1>4. ASSUME NEW n \in Rank, NEW i \in Rank, PutLands(n, i) \/ AtomicLands(n, i) \/ PacketLands(n, i)
      PROVE  IInv'
  BY <1>4, LandsInv, AtomicLandsInv
<1>5. CASE UNCHANGED vars
  <2>1. Exchanges' = Exchanges /\ TotalIters' = TotalIters /\ (Fits(chunk)' <=> Fits(chunk))
        /\ (InOrder' <=> InOrder) /\ \A n \in Rank : Dests(n)' = Dests(n)
    BY <1>5, Stays DEF vars
  <2>. QED BY <1>5, <2>1 DEF vars, IInv, TypeOK, StartInv, ExchangeInv, LandInv
<1>. QED BY <1>1, <1>2, <1>3, <1>4, <1>5 DEF Next

\* The inductive invariant, with the types, holds in every reachable state.
THEOREM Invariance == Spec => []IInv
<1>1. IInv /\ [Next]_vars => IInv'
  BY NextInv
<1>. QED BY <1>1, InitInv, PTL DEF Spec

-----------------------------------------------------------------------------
(* The chunks.                                                             *)

\* A place at a multiple of the chunk size has room for a chunk, where the size
\* of the area is a multiple too.
LEMMA RoomForAChunk ==
  ASSUME NEW size \in Nat, size > 0, NEW area \in Nat, area > 0, area % size = 0, NEW number \in Nat
  PROVE  /\ (size * number) % area \in Nat
         /\ ((size * number) % area) + size <= area
<1>. DEFINE k == area \div size
            q == (size * number) \div area
            r == (size * number) % area
            d == number - k * q
<1>1. k \in Int /\ area = size * k
  BY Z3
<1>2. size * number \in Nat
  OBVIOUS
<1>3. q \in Int /\ r \in Int /\ 0 <= r /\ r < area /\ size * number = area * q + r
  BY <1>2
<1>4. r \in Nat
  BY <1>3
<1>. HIDE DEF k, q, r
<1>5. d \in Int /\ r = size * d
  <2>1. k * q \in Int
    BY <1>1, <1>3
  <2>2. (size * k) * q = size * (k * q)
    BY <1>1, <1>3
  <2>3. size * (number - k * q) = size * number - size * (k * q)
    BY <2>1
  <2>. QED BY <1>1, <1>3, <2>1, <2>2, <2>3
<1>. HIDE DEF d
<1>6. d < k
  <2>. SUFFICES ASSUME d >= k PROVE FALSE
    BY <1>1, <1>5
  <2>1. size * d >= size * k
    BY <1>1, <1>5
  <2>. QED BY <1>1, <1>3, <1>5, <2>1
<1>7. size * (d + 1) <= size * k
  BY <1>1, <1>5, <1>6
<1>8. size * (d + 1) = size * d + size
  BY <1>5
<1>. QED BY <1>1, <1>4, <1>5, <1>7, <1>8 DEF r

LEMMA ChunksFit ==
  ASSUME NEW number \in Nat, chunk \in ChunkSizes, Fits(chunk)
  PROVE  ChunkBytes(number) \subseteq DataArea
<1>1. chunk \in Nat /\ chunk > 0 /\ BuffSize \in Nat /\ BuffSize > 0 /\ Word \in Nat
  BY ConstantTypes
<1>. DEFINE r == (chunk * number) % BuffSize
<1>2. r \in Nat /\ r + chunk <= BuffSize
  BY <1>1, RoomForAChunk DEF Fits
<1>3. ChunkBytes(number) = (2 * Word + r) .. (2 * Word + r) + chunk - 1
  BY DEF ChunkBytes
<1>. HIDE DEF r
<1>4. ASSUME NEW b \in (2 * Word + r) .. (2 * Word + r) + chunk - 1
      PROVE  b \in 0 .. 2 * Word + BuffSize - 1 /\ b \notin 0 .. 2 * Word - 1
  BY <1>1, <1>2
<1>. QED BY <1>3, <1>4 DEF DataArea, Area, Counters

-----------------------------------------------------------------------------
(* The theorems.                                                           *)

\* The memory that a packet or an atomic under way goes to is exposed and not
\* freed, its sender's is not freed either, and each chunk lies clear of the
\* counters and within the area: with any routes that name no rank twice, mutual or
\* not, and however the network orders what no fence separates.
LEMMA InvImpliesMemory == IInv => MemoryIsThere
<1>. SUFFICES ASSUME IInv, NEW n \in Rank, NEW i \in Rank,
                     bench \in OneSided, NamedOnce, counts[n][i] < posted[i], n \in Dests(i)
              PROVE  /\ exposed[n] = Exchanges /\ pc[n] # "done" /\ pc[i] # "done"
                     /\ bench = "rdma_circular" =>
                          \A number \in landed[n][i] .. posted[i] - 1 : ChunkBytes(number) \subseteq DataArea
  BY DEF MemoryIsThere
<1>0. InOrder
  BY DEF InOrder
<1>1. /\ counts[n][i] \in Nat /\ landed[n][i] \in Nat /\ posted[i] \in Nat
      /\ posted[i] <= TotalIters /\ TotalIters \in Nat
  BY <1>0, TotalItersType DEF IInv, TypeOK, ExchangeInv
<1>2. posted[i] # 0
  BY <1>1
<1>3. pc[i] \notin {"start", "exchange", "threw", "gather", "read"}
  BY <1>0, <1>2 DEF IInv, StartInv, ExchangeInv, OneSided
<1>4. pc[i] \in {"loop", "run", "wait", "done"}
  BY <1>3 DEF IInv, TypeOK
<1>5. i \in Dests(n) /\ exposed[n] = Exchanges
  BY <1>0, <1>4 DEF IInv, ExchangeInv
<1>6. pc[i] # "done"
  <2>1. pc[i] = "done" => counts[n][i] = posted[i]
    BY <1>0 DEF IInv, LandInv
  <2>. QED BY <1>1, <2>1
<1>7. pc[n] # "done"
  <2>1. pc[n] = "done" => counts[n][i] = TotalIters
    BY <1>0, <1>5 DEF IInv, LandInv
  <2>. QED BY <1>1, <2>1
<1>8. ASSUME bench = "rdma_circular", NEW number \in landed[n][i] .. posted[i] - 1
      PROVE  ChunkBytes(number) \subseteq DataArea
  <2>1. number \in Nat
    BY <1>1
  <2>2. chunk \in ChunkSizes /\ Fits(chunk)
    BY <1>0, <1>3, <1>8 DEF IInv, TypeOK, ExchangeInv
  <2>. QED BY <2>1, <2>2, ChunksFit
<1>. QED BY <1>5, <1>6, <1>7, <1>8

\* Every state of rdma_all2all_ucx() and rdma_circular_ucx() (ucx.cc).
THEOREM MemoryStays == Spec => []MemoryIsThere
  BY Invariance, InvImpliesMemory, PTL

\* Two ranks without a line send to different ranks at each turn (router.cc:35).
LEMMA RoutesDiffer == Staggered
<1>. SUFFICES ASSUME NEW m \in Rank \ DOMAIN table, NEW n \in Rank \ DOMAIN table, m # n,
                     NEW k \in 1..(CommSize - 1)
              PROVE  Route(m)[k] # Route(n)[k]
  BY DEF Staggered
<1>1. /\ Route(m)[k] = (m + k) % CommSize /\ Route(n)[k] = (n + k) % CommSize
      /\ m \in 0..(CommSize - 1) /\ n \in 0..(CommSize - 1) /\ CommSize \in Nat
  BY ConstantTypes DEF Route, Ring, Rank
<1>2. m + k \in Nat /\ n + k \in Nat
  BY <1>1
<1>3. CASE m < n
  <2>1. m + k < n + k /\ (n + k) - (m + k) < CommSize
    BY <1>1, <1>3
  <2>. QED BY <1>1, <1>2, <2>1, Lemmas!ModDiffers
<1>4. CASE n < m
  <2>1. n + k < m + k /\ (m + k) - (n + k) < CommSize
    BY <1>1, <1>4
  <2>. QED BY <1>1, <1>2, <2>1, Lemmas!ModDiffers
<1>. QED BY <1>1, <1>3, <1>4

\* ... whatever the file says of the others, and while it is read too.
THEOREM LoadIsSpread == Spec => []Staggered
  BY RoutesDiffer, PTL

LEMMA RankModulo == ASSUME NEW r \in Rank PROVE r % CommSize = r
<1>1. /\ CommSize \in Nat /\ r \in Nat /\ r \in Int /\ 0 \in Int /\ 0 <= r /\ r < CommSize
      /\ r = CommSize * 0 + r
  BY ConstantTypes DEF Rank
<1>. QED BY <1>1, Lemmas!ModUnique

\* The default of router::operator() names each of the other ranks, and only those.
THEOREM DefaultIsAllToAll ==
  ASSUME NEW n \in Rank \ DOMAIN table PROVE ToSet(Route(n)) = Rank \ {n}
<1>1. /\ Route(n) = [k \in 1..(CommSize - 1) |-> (n + k) % CommSize]
      /\ n \in 0..(CommSize - 1) /\ CommSize \in Nat /\ CommSize > 0
  BY ConstantTypes DEF Route, Ring, Rank
<1>2. ToSet(Route(n)) = {(n + k) % CommSize : k \in 1..(CommSize - 1)}
  BY <1>1 DEF ToSet
<1>3. ASSUME NEW k \in 1..(CommSize - 1) PROVE (n + k) % CommSize \in Rank \ {n}
  <2>1. n + k \in Nat /\ n \in Nat /\ n < n + k /\ (n + k) - n < CommSize
    BY <1>1
  <2>2. (n + k) % CommSize # n % CommSize
    BY <1>1, <2>1, Lemmas!ModDiffers
  <2>3. n % CommSize = n
    BY <1>1, RankModulo DEF Rank
  <2>4. (n + k) % CommSize \in 0..(CommSize - 1)
    BY <1>1, <2>1
  <2>. QED BY <2>2, <2>3, <2>4 DEF Rank
<1>4. ASSUME NEW r \in Rank \ {n} PROVE \E k \in 1..(CommSize - 1) : r = (n + k) % CommSize
  <2>1. r \in 0..(CommSize - 1) /\ r # n
    BY DEF Rank
  <2>2. CASE r > n
    <3>1. r - n \in 1..(CommSize - 1) /\ n + (r - n) = r
      BY <1>1, <2>1, <2>2
    <3>2. r % CommSize = r
      BY RankModulo
    <3>. QED BY <3>1, <3>2
  <2>3. CASE r < n
    <3>1. /\ r - n + CommSize \in 1..(CommSize - 1)
          /\ n + (r - n + CommSize) = r + CommSize
      BY <1>1, <2>1, <2>3
    <3>2. (r + CommSize) % CommSize = r
      <4>1. /\ r + CommSize \in Nat /\ 1 \in Int /\ r \in Int /\ 0 <= r /\ r < CommSize
            /\ r + CommSize = CommSize * 1 + r
        BY <1>1, <2>1
      <4>. QED BY <1>1, <4>1, Lemmas!ModUnique
    <3>. QED BY <3>1, <3>2
  <2>. QED BY <1>1, <2>1, <2>2, <2>3
<1>. QED BY <1>2, <1>3, <1>4

\* What router::is_complete() counts is enough: a rank's own line names all the
\* others, where it names only ranks that exist.
THEOREM CompleteLineNamesAll ==
  ASSUME LinesInRange, IsComplete, NEW n \in Rank, n \in DOMAIN table
  PROVE  Rank \ {n} \subseteq ToSet(table[n])
<1>. DEFINE named == {n} \cup ToSet(table[n])
<1>1. named \subseteq Rank /\ Cardinality(named) >= CommSize
  BY DEF LinesInRange, IsComplete, Enough
<1>2. IsFiniteSet(Rank) /\ Cardinality(Rank) = CommSize
  <2>1. 0 <= CommSize - 1 /\ CommSize - 1 \in Int /\ 0 \in Int
    BY ConstantTypes
  <2>2. IsFiniteSet(0..(CommSize - 1)) /\ Cardinality(0..(CommSize - 1)) = (CommSize - 1) - 0 + 1
    BY <2>1, FS_Interval
  <2>. QED BY <2>2, ConstantTypes DEF Rank
<1>. HIDE DEF named
<1>3. IsFiniteSet(named) /\ Cardinality(named) \in Nat /\ Cardinality(named) <= CommSize
  BY <1>1, <1>2, FS_Subset, FS_CardinalityType
<1>4. named = Rank
  <2>1. Cardinality(named) = Cardinality(Rank)
    BY <1>1, <1>2, <1>3, ConstantTypes
  <2>. QED BY <1>1, <1>2, <2>1, FS_Subset
<1>. QED BY <1>4 DEF named

LEMMA PartHasFewer ==
  ASSUME NEW S, IsFiniteSet(S), NEW T \in SUBSET S, T # S
  PROVE  IsFiniteSet(T) /\ Cardinality(T) \in Nat /\ Cardinality(T) < Cardinality(S)
<1>1. IsFiniteSet(T) /\ Cardinality(T) <= Cardinality(S) /\ Cardinality(S) # Cardinality(T)
  BY FS_Subset
<1>2. Cardinality(T) \in Nat /\ Cardinality(S) \in Nat
  BY <1>1, FS_CardinalityType
<1>. QED BY <1>1, <1>2

\* What a line keeps has a place on the route.
LEMMA KeptIsRouted ==
  ASSUME NEW line \in Lines, NEW p \in Kept(line)
  PROVE  \E k \in 1..Cardinality(Kept(line)) : Place(line, k) = p
<1>. DEFINE K == Kept(line)
            Before(r) == {q \in K : q <= r}
            k == Cardinality(Before(p))
<1>1. PICK m \in Nat : DOMAIN line = 1..m
  BY RouterAssumption DEF Lines
<1>2. IsFiniteSet(K) /\ K \subseteq 1..m
  <2>1. K \subseteq 1..m
    BY <1>1 DEF Kept
  <2>2. IsFiniteSet(1..m)
    BY FS_Interval
  <2>. HIDE DEF K
  <2>. QED BY <2>1, <2>2, FS_Subset
<1>3. \A r \in K : r \in Before(r) /\ Before(r) \subseteq K
  BY <1>2
<1>. HIDE DEF K
<1>4. \A r \in K : IsFiniteSet(Before(r)) /\ Cardinality(Before(r)) \in Nat
  <2>. TAKE r \in K
  <2>1. Before(r) \subseteq K
    BY <1>3
  <2>. HIDE DEF Before
  <2>. QED BY <1>2, <2>1, FS_Subset, FS_CardinalityType
<1>5. p \in K
  BY DEF K
<1>6. k \in 1..Cardinality(K)
  <2>1. Before(p) \subseteq K /\ Before(p) # {}
    BY <1>3, <1>5
  <2>. HIDE DEF Before
  <2>2. k <= Cardinality(K) /\ Cardinality(K) \in Nat /\ k \in Nat /\ k # 0
    BY <1>2, <1>4, <1>5, <2>1, FS_Subset, FS_CardinalityType, FS_EmptySet
  <2>. QED BY <2>2
<1>7. ASSUME NEW r \in K, NEW s \in K, r < s PROVE Cardinality(Before(r)) < Cardinality(Before(s))
  <2>0. r \in Int /\ s \in Int /\ \A q \in K : q \in Int
    BY <1>2
  <2>1. Before(r) \subseteq Before(s) /\ s \in Before(s) /\ s \notin Before(r)
    <3>1. \A q \in K : q <= r => q <= s
      BY <1>7, <2>0
    <3>2. s <= s /\ ~(s <= r)
      BY <1>7, <2>0
    <3>. QED BY <1>7, <3>1, <3>2
  <2>2. Before(r) # Before(s)
    BY <2>1
  <2>3. IsFiniteSet(Before(s))
    BY <1>4
  <2>4. Before(r) \in SUBSET Before(s)
    BY <2>1
  <2>. HIDE DEF Before
  <2>. QED BY <2>2, <2>3, <2>4, PartHasFewer
<1>8. ASSUME NEW r \in K, Cardinality(Before(r)) = k PROVE r = p
  <2>. HIDE DEF Before
  <2>1. ~(r < p) /\ ~(p < r)
    BY <1>4, <1>5, <1>7, <1>8
  <2>. QED BY <1>2, <1>5, <2>1
<1>9. Place(line, k) = p
  <2>1. Place(line, k) = CHOOSE r \in K : Cardinality(Before(r)) = k
    BY DEF Place, K
  <2>. HIDE DEF Before
  <2>2. \E r \in K : Cardinality(Before(r)) = k
    BY <1>5
  <2>. QED BY <1>8, <2>1, <2>2
<1>10. Cardinality(Kept(line)) = Cardinality(K)
  BY DEF K
<1>. QED BY <1>6, <1>9, <1>10

LEMMA TableStays == Spec => []TableOK
<1>1. Init => TableOK
  BY DEF Init, NoTable, TableOK
<1>2. TableOK /\ [Next]_vars => TableOK'
  <2>. SUFFICES ASSUME TableOK, [Next]_vars PROVE TableOK'
    OBVIOUS
  <2>1. CASE ReadFile
    BY <2>1 DEF ReadFile, ReadOn, ReadLine, TableOK
  <2>2. CASE ~ReadFile
    <3>1. table' = table
      BY <2>2 DEF Next, Start, Run, Expose, Obtain, Post, RunOrFlush, Wait, TagAllToAllReturns,
                  Bench2Returns, Gather, PutLands, AtomicLands, PacketLands, vars
    <3>. QED BY <3>1 DEF TableOK
  <2>. QED BY <2>1, <2>2
<1>. QED BY <1>1, <1>2, PTL DEF Spec

\* A table that is_complete() accepts, and that names only ranks that exist, routes
\* each rank to all the others (router.cc:55-72, all_to_all_gap_runner.h:75).
THEOREM CompleteRoutesToAll == Spec => []CompleteIsAllToAll
<1>1. ASSUME TableOK PROVE CompleteIsAllToAll
  <2>. SUFFICES ASSUME LinesInRange, IsComplete, NEW n \in Rank
                PROVE  Rank \ {n} \subseteq ToSet(Route(n))
    BY DEF CompleteIsAllToAll
  <2>1. CASE n \notin DOMAIN table
    BY <2>1, DefaultIsAllToAll
  <2>2. CASE n \in DOMAIN table
    <3>. DEFINE line == table[n]
    <3>1. line \in Lines /\ Rank \ {n} \subseteq ToSet(line) /\ ToSet(line) \subseteq Rank
      BY <1>1, <2>2, CompleteLineNamesAll DEF TableOK, LinesInRange
    <3>2. ToSet(line) = {line[p] : p \in DOMAIN line}
      BY DEF ToSet
    <3>3. ToSet(Route(n)) = {line[Place(line, k)] : k \in 1..Cardinality(Kept(line))}
      BY <2>2 DEF Route, ToSet
    <3>. HIDE DEF line
    <3>4. ASSUME NEW r \in Rank \ {n} PROVE r \in ToSet(Route(n))
      <4>1. PICK p \in DOMAIN line : line[p] = r
        BY <3>1, <3>2
      <4>2. p \in Kept(line)
        BY <4>1, ConstantTypes DEF Kept, Exists, Rank
      <4>3. PICK k \in 1..Cardinality(Kept(line)) : Place(line, k) = p
        BY <3>1, <4>2, KeptIsRouted
      <4>. QED BY <3>3, <4>1, <4>3
    <3>. QED BY <3>4
  <2>. QED BY <2>1, <2>2
<1>. QED BY <1>1, TableStays, PTL
=============================================================================
