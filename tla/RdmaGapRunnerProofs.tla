------------------------- MODULE RdmaGapRunnerProofs -------------------------
(* The theorems about RdmaGapRunner, for any number of nodes, any gap and  *)
(* any number of packets.                                                  *)
EXTENDS RdmaGapRunner, TLAPS, FiniteSetTheorems

\* The lemmas that all gap runners share.
Lemmas == INSTANCE GapWindowProofs
            WITH Node <- Rank, Window <- Width, sent <- posted, received <- Heard

\* There are slots, and a window.
LEMMA SlotsType ==
  /\ Size \in Nat /\ Size > 1 /\ MaxGap \in Nat /\ MaxGap > 0 /\ Iters \in Nat
  /\ Slots \in Nat /\ Slots > 0
  /\ Width \in Nat /\ Width > 0
<1>1. Size \in Nat /\ Size > 1 /\ MaxGap \in Nat /\ MaxGap > 0 /\ Iters \in Nat
  BY RdmaAssumption
<1>2. MaxGap * Size \in Nat /\ MaxGap * Size > 0
  BY <1>1
<1>. QED BY <1>1, <1>2 DEF Slots, Width

-----------------------------------------------------------------------------
\* The counters of any two nodes.
LEMMA Counters ==
  ASSUME IInv, NEW n \in Rank, NEW i \in Rank
  PROVE  /\ id[n] \in Nat /\ posted[n] \in Nat /\ posted[n] <= Iters
         /\ atomics[n][i] \in Nat /\ landed[n][i] \in Nat /\ atomics[n][i] <= Iters
         /\ free[n] \in 0..(Slots - 1)
         /\ i # n => atomics[n][i] <= landed[n][i] /\ landed[n][i] <= posted[i]
         /\ atomics[n][n] = id[n]
  BY SlotsType DEF IInv, TypeOK, LinkInv, Peers

\* The search of any node.
LEMMA ScanType ==
  ASSUME TypeOK, NEW n \in Rank
  PROVE  /\ scan[n] = [next |-> scan[n].next, least |-> scan[n].least, seen |-> scan[n].seen]
         /\ scan[n].next \in 0..Size /\ scan[n].least \in Rank /\ scan[n].seen \in 0..Iters
  BY DEF TypeOK, Least!Scans, Rank

LEMMA StartType == Least!Start \in Least!Scans(Size, 0..Iters) /\ Least!Start.next = 0
  BY SlotsType DEF Least!Start, Least!Scans

\* A step of it, and what it may have come to.
LEMMA StepType ==
  ASSUME TypeOK, NEW n \in Rank, NEW s \in Least!Steps(scan[n], atomics[n], Size)
  PROVE  s \in Least!Scans(Size, 0..Iters)
<1>1. /\ scan[n].next \in 0..Size /\ scan[n].least \in Rank /\ scan[n].seen \in 0..Iters
      /\ \A j \in Rank : atomics[n][j] \in 0..Iters
      /\ Size \in Nat /\ Size > 1
  BY ScanType, SlotsType DEF TypeOK
<1>2. CASE scan[n].next = 0
  <2>1. s = [next |-> 1, least |-> 0, seen |-> atomics[n][0]]
    BY <1>2 DEF Least!Steps
  <2>2. 0 \in Rank
    BY <1>1 DEF Rank
  <2>. QED BY <1>1, <2>1, <2>2 DEF Least!Scans
<1>3. CASE scan[n].next # 0
  <2>1. scan[n].next # Size
    BY <1>3 DEF Least!Steps, Least!Complete
  <2>2. PICK value \in Least!Found(scan[n], atomics[n]) :
          s = IF atomics[n][scan[n].next] < value
              THEN [next |-> scan[n].next + 1, least |-> scan[n].next, seen |-> atomics[n][scan[n].next]]
              ELSE [next |-> scan[n].next + 1, least |-> scan[n].least, seen |-> value]
    BY <1>3, <2>1 DEF Least!Steps, Least!Complete
  <2>3. value \in 0..Iters
    BY <1>1 DEF Least!Found
  <2>4. scan[n].next \in Rank /\ scan[n].next + 1 \in 0..Size /\ Rank = 0..(Size - 1)
    BY <1>1, <2>1 DEF Rank
  <2>. QED BY <1>1, <2>2, <2>3, <2>4 DEF Least!Scans
<1>. QED BY <1>2, <1>3

LEMMA LatestType ==
  ASSUME TypeOK, NEW n \in Rank, NEW latest \in Latest(n)
  PROVE  latest \in Nat /\ (latest = scan[n].seen \/ latest = atomics[n][scan[n].least])
<1>1. latest = scan[n].seen \/ latest = atomics[n][scan[n].least]
  BY DEF Latest, Least!Found
<1>2. scan[n].seen \in 0..Iters /\ scan[n].least \in Rank
  BY ScanType
<1>3. \A j \in Rank : atomics[n][j] \in Nat
  BY SlotsType DEF TypeOK
<1>. QED BY <1>1, <1>2, <1>3, SlotsType

-----------------------------------------------------------------------------
\* The peers ahead can be counted, and there are never all of them.
LEMMA AheadType ==
  ASSUME NEW n \in Rank, NEW k
  PROVE  /\ IsFiniteSet(Ahead(n, k)) /\ Cardinality(Ahead(n, k)) \in Nat
         /\ \A j \in Peers(n) : ~(atomics[n][j] > k) => Cardinality(Ahead(n, k)) <= Size - 2
<1>1. IsFiniteSet(Rank) /\ Cardinality(Rank) = Size
  BY SlotsType, FS_Interval DEF Rank
<1>2. IsFiniteSet(Rank \ {n}) /\ Cardinality(Rank \ {n}) = Size - 1
  BY <1>1, FS_RemoveElement
<1>3. Ahead(n, k) \subseteq Rank \ {n}
  BY DEF Ahead, Peers
<1>4. IsFiniteSet(Ahead(n, k)) /\ Cardinality(Ahead(n, k)) \in Nat
  BY <1>2, <1>3, FS_Subset, FS_CardinalityType
<1>5. ASSUME NEW j \in Peers(n), ~(atomics[n][j] > k)
      PROVE  Cardinality(Ahead(n, k)) <= Size - 2
  <2>1. IsFiniteSet((Rank \ {n}) \ {j}) /\ Cardinality((Rank \ {n}) \ {j}) = Size - 2
    BY <1>2, SlotsType, FS_RemoveElement DEF Peers
  <2>2. Ahead(n, k) \subseteq (Rank \ {n}) \ {j}
    BY <1>3, <1>5 DEF Ahead
  <2>. QED BY <2>1, <2>2, FS_Subset
<1>. QED BY <1>4, <1>5

\* A node that nothing is announced to, and that neither posts nor searches,
\* stays within what was paid.
LEMMA PaidSame ==
  ASSUME IInv, NEW n \in Rank, NEW k \in 0..Iters,
         \A i \in Rank : i # n => atomics'[n][i] = atomics[n][i],
         posted'[n] = posted[n],
         \/ pc'[n] # "wait"
         \/ scan'[n].next = 0
         \/ pc'[n] = pc[n] /\ scan'[n] = scan[n] /\ atomics'[n][n] = atomics[n][n]
  PROVE  PostedPaid(n, k)' /\ FoundPaid(n, k)'
<1>1. Ahead(n, k)' = Ahead(n, k)
  BY DEF Ahead, Peers
<1>2. PostedPaid(n, k) /\ FoundPaid(n, k)
  BY DEF IInv, PaidInv
<1>3. PostedPaid(n, k)'
  BY <1>1, <1>2 DEF PostedPaid, Within, Peers
<1>4. CASE pc'[n] # "wait" \/ scan'[n].next = 0
  BY <1>3, <1>4 DEF FoundPaid
<1>5. CASE pc'[n] = pc[n] /\ scan'[n] = scan[n] /\ atomics'[n][n] = atomics[n][n]
  <2>1. scan[n].next \in 0..Size /\ scan[n].least \in Rank
    BY ScanType DEF IInv
  <2>2. \A j \in Rank : atomics'[n][j] = atomics[n][j]
    BY <1>5
  <2>3. \A j \in 0..(scan[n].next - 1) : j \in Rank
    BY <2>1, SlotsType DEF Rank
  <2>. QED BY <1>1, <1>2, <1>3, <1>5, <2>1, <2>2, <2>3 DEF FoundPaid, Within
<1>. QED BY <1>4, <1>5

-----------------------------------------------------------------------------
\* The invariant holds at the start ...
LEMMA InitInv == Init => IInv
<1>. SUFFICES ASSUME Init PROVE IInv
  OBVIOUS
<1>1. /\ pc \in [Rank -> {"fill", "atomics"}] /\ \A n \in Rank : pc[n] = "atomics" <=> Iters = 0
      /\ id = [n \in Rank |-> 0] /\ posted = [n \in Rank |-> 0] /\ free = [n \in Rank |-> 0]
      /\ landed = [n \in Rank |-> [i \in Rank |-> 0]]
      /\ atomics = [n \in Rank |-> [i \in Rank |-> 0]]
      /\ scan = [n \in Rank |-> Least!Start]
  BY DEF Init
<1>2. TypeOK
  <2>1. Generated \in [0..(Slots - 1) -> Nat]
    BY SlotsType DEF Generated
  <2>. QED BY <1>1, <2>1, SlotsType, StartType DEF Init, TypeOK
<1>3. ProgressInv
  BY <1>1, SlotsType DEF ProgressInv
<1>4. LinkInv
  BY <1>1, SlotsType DEF LinkInv, Peers
<1>5. SlotInv
  <2>1. 0 % Slots = 0
    BY SlotsType
  <2>. QED BY <1>1, <2>1 DEF SlotInv
<1>6. PaidInv
  <2>. SUFFICES ASSUME NEW n \in Rank, NEW k \in 0..Iters PROVE PostedPaid(n, k) /\ FoundPaid(n, k)
    BY DEF PaidInv
  <2>1. Cardinality(Ahead(n, k)) \in Nat
    BY AheadType
  <2>2. PostedPaid(n, k)
    BY <1>1, <2>1, SlotsType DEF PostedPaid, Within
  <2>3. FoundPaid(n, k)
    BY <1>1 DEF FoundPaid
  <2>. QED BY <2>2, <2>3
<1>. QED BY <1>2, <1>3, <1>4, <1>5, <1>6 DEF IInv

\* ... writing the next packet takes the slot of the one Slots before ...
LEMMA FillInv == ASSUME IInv, NEW n \in Rank, Fill(n) PROVE IInv'
<1>1. /\ pc[n] = "fill"
      /\ id' = [id EXCEPT ![n] = id[n] + 1]
      /\ slot' = [slot EXCEPT ![n][free[n]] = id[n] + 1]
      /\ atomics' = [atomics EXCEPT ![n][n] = id[n] + 1]
      /\ pc' = [pc EXCEPT ![n] = "wait"]
      /\ free' = free /\ posted' = posted /\ landed' = landed /\ intact' = intact /\ scan' = scan
  BY DEF Fill, Announced, SetMeta
<1>2. id[n] = posted[n] /\ posted[n] < Iters /\ scan[n] = Least!Start
  BY <1>1 DEF IInv, ProgressInv
<1>3. /\ \A m \in Rank : m # n => id'[m] = id[m] /\ pc'[m] = pc[m] /\ slot'[m] = slot[m]
      /\ id'[n] = id[n] + 1 /\ pc'[n] = "wait" /\ atomics'[n][n] = id[n] + 1
      /\ \A m, i \in Rank : m # n \/ i # n => atomics'[m][i] = atomics[m][i]
      /\ \A k \in 0..(Slots - 1) :
           slot'[n][k] = IF k = free[n] THEN id[n] + 1 ELSE slot[n][k]
  BY <1>1 DEF IInv, TypeOK
<1>4. TypeOK'
  <2>1. id[n] + 1 \in 0..Iters
    BY <1>2, Counters, SlotsType
  <2>2. /\ id' \in [Rank -> 0..Iters] /\ atomics' \in [Rank -> [Rank -> 0..Iters]]
        /\ slot' \in [Rank -> [0..(Slots - 1) -> Nat]]
    BY <1>1, <2>1 DEF IInv, TypeOK
  <2>3. pc' \in [Rank -> {"fill", "wait", "atomics", "done"}]
    BY <1>1 DEF IInv, TypeOK
  <2>. QED BY <1>1, <2>2, <2>3 DEF IInv, TypeOK
<1>5. ProgressInv'
  BY <1>1, <1>2, <1>3 DEF IInv, ProgressInv
<1>6. LinkInv'
  BY <1>1, <1>3, Counters DEF LinkInv, Peers
<1>7. SlotInv'
  <2>. SUFFICES ASSUME NEW m \in Rank
                PROVE  /\ free[m] = posted[m] % Slots
                       /\ \A k \in 0..Iters :
                            k < id'[m] /\ id'[m] - k <= Slots => slot'[m][k % Slots] = k + 1
    BY <1>1 DEF SlotInv
  <2>1. CASE m # n
    BY <2>1, <1>3 DEF IInv, SlotInv
  <2>2. CASE m = n
    <3>1. free[n] = id[n] % Slots
      BY <1>2 DEF IInv, SlotInv
    <3>2. ASSUME NEW k \in 0..Iters, k < id[n] + 1, (id[n] + 1) - k <= Slots
          PROVE  slot'[n][k % Slots] = k + 1
      <4>1. k \in Nat /\ id[n] \in Nat /\ k % Slots \in 0..(Slots - 1)
        BY SlotsType, Counters
      <4>2. CASE k = id[n]
        BY <1>3, <3>1, <4>1, <4>2
      <4>3. CASE k # id[n]
        <5>1. k < id[n] /\ id[n] - k < Slots
          BY <3>2, <4>1, <4>3, SlotsType
        <5>2. k % Slots # free[n]
          BY <3>1, <4>1, <5>1, SlotsType, Lemmas!ModDiffers
        <5>3. slot[n][k % Slots] = k + 1
          BY <5>1, <4>1, SlotsType DEF IInv, SlotInv
        <5>. QED BY <1>3, <4>1, <5>2, <5>3
      <4>. QED BY <4>2, <4>3
    <3>. QED BY <1>2, <1>3, <2>2, <3>1, <3>2
  <2>. QED BY <2>1, <2>2
<1>8. PaidInv'
  <2>. SUFFICES ASSUME NEW m \in Rank, NEW k \in 0..Iters PROVE PostedPaid(m, k)' /\ FoundPaid(m, k)'
    BY DEF PaidInv
  <2>1. m = n => scan'[m].next = 0
    BY <1>1, <1>2, StartType
  <2>2. m # n => pc'[m] = pc[m] /\ scan'[m] = scan[m] /\ atomics'[m][m] = atomics[m][m]
    BY <1>1, <1>3
  <2>. QED BY <1>1, <1>3, <2>1, <2>2, PaidSame
<1>. QED BY <1>4, <1>5, <1>6, <1>7, <1>8 DEF IInv

\* ... a scan that goes on finds no more than what it passed, or has been paid for ...
LEMMA ScanInv == ASSUME IInv, NEW n \in Rank, Scan(n) PROVE IInv'
<1>1. PICK s \in Least!Steps(scan[n], atomics[n], Size) : scan' = [scan EXCEPT ![n] = s]
  BY DEF Scan
<1>2. /\ pc' = pc /\ id' = id /\ slot' = slot /\ free' = free /\ posted' = posted
      /\ landed' = landed /\ intact' = intact /\ atomics' = atomics
      /\ pc[n] \in {"wait", "atomics"}
  BY DEF Scan
<1>3. scan'[n] = s /\ \A m \in Rank : m # n => scan'[m] = scan[m]
  BY <1>1 DEF IInv, TypeOK
<1>4. TypeOK'
  <2>1. s \in Least!Scans(Size, 0..Iters)
    BY StepType DEF IInv
  <2>. QED BY <1>1, <1>2, <2>1 DEF IInv, TypeOK
<1>5. ProgressInv' /\ LinkInv' /\ SlotInv'
  BY <1>2, <1>3 DEF IInv, ProgressInv, LinkInv, SlotInv
<1>6. ASSUME NEW k \in 0..Iters, pc[n] = "wait", ~Within(n, posted[n] + 1, k)
      PROVE  /\ \A j \in 0..(s.next - 1) : atomics[n][j] <= k => s.seen <= k
             /\ s.seen <= k => atomics[n][s.least] <= k
  <2>1. /\ scan[n].next \in 0..Size /\ scan[n].least \in Rank /\ scan[n].seen \in 0..Iters
        /\ \A j \in Rank : atomics[n][j] \in 0..Iters
        /\ Size \in Nat /\ Size > 1 /\ Iters \in Nat
    BY ScanType, SlotsType DEF IInv, TypeOK
  <2>2. CASE scan[n].next = 0
    <3>1. s = [next |-> 1, least |-> 0, seen |-> atomics[n][0]]
      BY <2>2 DEF Least!Steps
    <3>. QED BY <2>1, <3>1
  <2>3. CASE scan[n].next # 0
    <3>1. scan[n].next # Size
      BY <2>3 DEF Least!Steps, Least!Complete
    <3>2. PICK value \in Least!Found(scan[n], atomics[n]) :
            s = IF atomics[n][scan[n].next] < value
                THEN [next |-> scan[n].next + 1, least |-> scan[n].next, seen |-> atomics[n][scan[n].next]]
                ELSE [next |-> scan[n].next + 1, least |-> scan[n].least, seen |-> value]
      BY <2>3, <3>1 DEF Least!Steps, Least!Complete
    <3>3. /\ \A j \in 0..(scan[n].next - 1) : atomics[n][j] <= k => scan[n].seen <= k
          /\ scan[n].seen <= k => atomics[n][scan[n].least] <= k
      BY <1>6, <2>1, <2>3 DEF IInv, PaidInv, FoundPaid
    <3>4. /\ value = scan[n].seen \/ value = atomics[n][scan[n].least]
          /\ value \in 0..Iters
          /\ scan[n].seen <= k => value <= k
          /\ value <= k => atomics[n][scan[n].least] <= k
      BY <2>1, <3>3 DEF Least!Found
    <3>5. scan[n].next \in Rank
      BY <2>1, <3>1 DEF Rank
    <3>6. \A j \in 0..scan[n].next : j # scan[n].next => j \in 0..(scan[n].next - 1)
      BY <2>1
    <3>7. CASE atomics[n][scan[n].next] < value
      <4>1. /\ s.next - 1 = scan[n].next /\ s.least = scan[n].next
            /\ s.seen = atomics[n][scan[n].next]
        BY <2>1, <3>2, <3>7
      <4>2. ASSUME NEW j \in 0..scan[n].next, atomics[n][j] <= k PROVE s.seen <= k
        BY <2>1, <3>3, <3>4, <3>5, <3>6, <3>7, <4>1, <4>2
      <4>. QED BY <4>1, <4>2
    <3>8. CASE ~(atomics[n][scan[n].next] < value)
      <4>1. s.next - 1 = scan[n].next /\ s.least = scan[n].least /\ s.seen = value
        BY <2>1, <3>2, <3>8
      <4>2. ASSUME NEW j \in 0..scan[n].next, atomics[n][j] <= k PROVE value <= k
        BY <2>1, <3>3, <3>4, <3>5, <3>6, <3>8, <4>2
      <4>. QED BY <3>4, <4>1, <4>2
    <3>. QED BY <3>7, <3>8
  <2>. QED BY <2>2, <2>3
<1>7. PaidInv'
  <2>. SUFFICES ASSUME NEW m \in Rank, NEW k \in 0..Iters PROVE PostedPaid(m, k)' /\ FoundPaid(m, k)'
    BY DEF PaidInv
  <2>1. CASE m # n
    BY <1>2, <1>3, <2>1, PaidSame
  <2>2. CASE m = n
    <3>1. Ahead(n, k)' = Ahead(n, k)
      BY <1>2 DEF Ahead
    <3>2. PostedPaid(n, k)'
      BY <1>2, <3>1 DEF IInv, PaidInv, PostedPaid, Within
    <3>3. FoundPaid(n, k)'
      BY <1>2, <1>3, <1>6, <3>1 DEF FoundPaid, Within
    <3>. QED BY <2>2, <3>2, <3>3
  <2>. QED BY <2>1, <2>2
<1>. QED BY <1>4, <1>5, <1>7 DEF IInv

\* ... posting moves on to the next slot, and was paid for ...
LEMMA PostInv == ASSUME IInv, NEW n \in Rank, Post(n) PROVE IInv'
<1>1. /\ pc[n] = "wait" /\ scan[n].next = Size
      /\ posted' = [posted EXCEPT ![n] = id[n]]
      /\ free' = [free EXCEPT ![n] = (free[n] + 1) % Slots]
      /\ pc' = [pc EXCEPT ![n] = IF id[n] < Iters THEN "fill" ELSE "atomics"]
      /\ scan' = [scan EXCEPT ![n] = Least!Start]
      /\ id' = id /\ slot' = slot /\ landed' = landed /\ intact' = intact /\ atomics' = atomics
  BY DEF Post, SlotAfter, Scanned, Least!Complete
<1>2. id[n] = posted[n] + 1 /\ posted[n] < Iters
  BY <1>1 DEF IInv, ProgressInv
<1>3. /\ \A m \in Rank : m # n => /\ posted'[m] = posted[m] /\ pc'[m] = pc[m]
                                  /\ free'[m] = free[m] /\ scan'[m] = scan[m]
      /\ posted'[n] = id[n] /\ free'[n] = (free[n] + 1) % Slots /\ scan'[n] = Least!Start
      /\ pc'[n] = IF id[n] < Iters THEN "fill" ELSE "atomics"
  BY <1>1 DEF IInv, TypeOK
<1>4. TypeOK'
  <2>1. id[n] \in 0..Iters /\ (free[n] + 1) % Slots \in 0..(Slots - 1)
    BY <1>2, Counters, SlotsType
  <2>2. pc' \in [Rank -> {"fill", "wait", "atomics", "done"}]
    BY <1>1 DEF IInv, TypeOK
  <2>3. scan' \in [Rank -> Least!Scans(Size, 0..Iters)]
    BY <1>1, StartType DEF IInv, TypeOK
  <2>. QED BY <1>1, <2>1, <2>2, <2>3 DEF IInv, TypeOK
<1>5. ProgressInv'
  BY <1>1, <1>2, <1>3, Counters, SlotsType DEF IInv, ProgressInv
<1>6. LinkInv'
  BY <1>1, <1>2, <1>3, Counters DEF LinkInv, Peers
<1>7. SlotInv'
  <2>1. free'[n] = posted'[n] % Slots
    <3>1. posted[n] \in Nat /\ free[n] = posted[n] % Slots
      BY Counters DEF IInv, SlotInv
    <3>2. (free[n] + 1) % Slots = (posted[n] + 1) % Slots
      BY <3>1, SlotsType, Lemmas!ModNext
    <3>. QED BY <1>2, <1>3, <3>2
  <2>. QED BY <1>1, <1>3, <2>1 DEF IInv, SlotInv
<1>8. ASSUME NEW k \in 0..Iters, NEW j \in Peers(n), atomics[n][j] <= k
      PROVE  Within(n, posted[n] + 1, k)
  <2>. SUFFICES ASSUME ~Within(n, posted[n] + 1, k) PROVE FALSE
    OBVIOUS
  <2>1. PICK latest \in Latest(n) : MaySend(n, latest)
    BY DEF Post
  <2>2. latest \in Nat /\ (latest = scan[n].seen \/ latest = atomics[n][scan[n].least])
    BY LatestType DEF IInv
  <2>3. j \in 0..(scan[n].next - 1)
    BY <1>1 DEF Peers, Rank
  <2>4. scan[n].seen <= k /\ atomics[n][scan[n].least] <= k
    BY <1>1, <1>8, <2>3, SlotsType DEF IInv, PaidInv, FoundPaid
  <2>5. latest <= k
    BY <2>2, <2>4
  <2>6. id[n] - latest <= MaxGap
    BY <2>1 DEF MaySend
  <2>7. Cardinality(Ahead(n, k)) \in Nat /\ posted[n] \in Nat /\ k \in Nat
    BY AheadType, Counters, SlotsType
  <2>. QED BY <1>2, <2>2, <2>5, <2>6, <2>7, SlotsType DEF Within
<1>9. PaidInv'
  <2>. SUFFICES ASSUME NEW m \in Rank, NEW k \in 0..Iters PROVE PostedPaid(m, k)' /\ FoundPaid(m, k)'
    BY DEF PaidInv
  <2>1. CASE m # n
    BY <1>1, <1>3, <2>1, PaidSame
  <2>2. CASE m = n
    <3>1. Ahead(n, k)' = Ahead(n, k)
      BY <1>1 DEF Ahead
    <3>2. PostedPaid(n, k)'
      BY <1>1, <1>2, <1>3, <1>8, <3>1 DEF PostedPaid, Within
    <3>3. FoundPaid(n, k)'
      BY <1>3 DEF FoundPaid
    <3>. QED BY <2>2, <3>2, <3>3
  <2>. QED BY <2>1, <2>2
<1>. QED BY <1>4, <1>5, <1>6, <1>7, <1>9 DEF IInv

\* ... a put that lands was posted ...
LEMMA PutLandsInv == ASSUME IInv, NEW n \in Rank, NEW i \in Rank, PutLands(n, i) PROVE IInv'
<1>1. /\ i # n /\ landed[n][i] < posted[i]
      /\ landed' = [landed EXCEPT ![n][i] = @ + 1]
      /\ pc' = pc /\ id' = id /\ slot' = slot /\ free' = free /\ posted' = posted
      /\ atomics' = atomics /\ scan' = scan
  BY DEF PutLands
<1>2. /\ landed'[n][i] = landed[n][i] + 1
      /\ \A m, j \in Rank : m # n \/ j # i => landed'[m][j] = landed[m][j]
  BY <1>1 DEF IInv, TypeOK
<1>3. TypeOK'
  <2>1. intact' \in [Rank -> BOOLEAN]
    BY DEF IInv, TypeOK, PutLands
  <2>2. landed[n][i] + 1 \in 0..Iters
    BY <1>1, Counters, SlotsType
  <2>3. landed' \in [Rank -> [Rank -> 0..Iters]]
    BY <1>1, <2>2 DEF IInv, TypeOK
  <2>. QED BY <1>1, <2>1, <2>3 DEF IInv, TypeOK
<1>4. ProgressInv'
  BY <1>1 DEF IInv, ProgressInv
<1>5. LinkInv'
  BY <1>1, <1>2, Counters DEF LinkInv, Peers
<1>6. SlotInv'
  BY <1>1 DEF IInv, SlotInv
<1>7. PaidInv'
  BY <1>1, PaidSame DEF PaidInv
<1>. QED BY <1>3, <1>4, <1>5, <1>6, <1>7 DEF IInv

\* ... so was an atomic, and it pays for a packet ...
LEMMA AtomicLandsInv ==
  ASSUME IInv, NEW n \in Rank, NEW i \in Rank, AtomicLands(n, i) PROVE IInv'
<1>1. /\ i # n /\ atomics[n][i] < landed[n][i]
      /\ atomics' = [atomics EXCEPT ![n][i] = @ + 1]
      /\ pc' = pc /\ id' = id /\ slot' = slot /\ free' = free /\ posted' = posted
      /\ landed' = landed /\ intact' = intact /\ scan' = scan
  BY DEF AtomicLands, Fenced
<1>2. /\ atomics'[n][i] = atomics[n][i] + 1
      /\ \A m, j \in Rank : m # n \/ j # i => atomics'[m][j] = atomics[m][j]
  BY <1>1 DEF IInv, TypeOK
<1>3. atomics[n][i] < Iters
  BY <1>1, Counters, SlotsType
<1>4. TypeOK'
  <2>1. atomics[n][i] + 1 \in 0..Iters
    BY <1>3, Counters, SlotsType
  <2>2. atomics' \in [Rank -> [Rank -> 0..Iters]]
    BY <1>1, <2>1 DEF IInv, TypeOK
  <2>. QED BY <1>1, <2>2 DEF IInv, TypeOK
<1>5. ProgressInv'
  BY <1>1 DEF IInv, ProgressInv
<1>6. LinkInv'
  BY <1>1, <1>2, Counters DEF LinkInv, Peers
<1>7. SlotInv'
  BY <1>1 DEF IInv, SlotInv
<1>8. ASSUME NEW k \in 0..Iters PROVE PostedPaid(n, k)' /\ FoundPaid(n, k)'
  <2>1. /\ i \in Peers(n) /\ PostedPaid(n, k) /\ FoundPaid(n, k)
        /\ posted[n] \in Nat /\ k \in Nat /\ MaxGap \in Nat
        /\ \A j \in Rank : atomics[n][j] \in Nat
        /\ Cardinality(Ahead(n, k)) \in Nat
    BY <1>1, AheadType, Counters, SlotsType DEF IInv, PaidInv, Peers
  <2>2. CASE atomics[n][i] = k
    <3>1. Ahead(n, k)' = Ahead(n, k) \cup {i} /\ i \notin Ahead(n, k)
      BY <1>2, <2>1, <2>2 DEF Ahead, Peers
    <3>2. Cardinality(Ahead(n, k)') = Cardinality(Ahead(n, k)) + 1
      BY <3>1, AheadType, FS_AddElement
    <3>3. posted[n] <= MaxGap + k + Cardinality(Ahead(n, k))
      BY <2>1, <2>2 DEF PostedPaid, Within
    <3>4. Within(n, posted[n], k)' /\ posted'[n] + 1 <= MaxGap + k + Cardinality(Ahead(n, k)')
      BY <1>1, <2>1, <3>2, <3>3 DEF Within
    <3>. QED BY <3>4 DEF PostedPaid, FoundPaid, Within
  <2>3. CASE atomics[n][i] # k
    <3>1. Ahead(n, k)' = Ahead(n, k)
      BY <1>2, <2>1, <2>3 DEF Ahead, Peers
    <3>2. \A j \in Rank : (atomics'[n][j] <= k) <=> (atomics[n][j] <= k)
      BY <1>2, <2>1, <2>3
    <3>3. PostedPaid(n, k)'
      BY <1>1, <2>1, <3>1, <3>2 DEF PostedPaid, Within, Peers
    <3>4. FoundPaid(n, k)'
      <4>1. scan[n].next \in 0..Size /\ scan[n].least \in Rank
        BY ScanType DEF IInv
      <4>2. \A j \in 0..(scan[n].next - 1) : j \in Rank
        BY <4>1, SlotsType DEF Rank
      <4>. QED BY <1>1, <2>1, <3>1, <3>2, <4>1, <4>2 DEF FoundPaid, Within
    <3>. QED BY <3>3, <3>4
  <2>. QED BY <2>2, <2>3
<1>9. PaidInv'
  <2>. SUFFICES ASSUME NEW m \in Rank, NEW k \in 0..Iters PROVE PostedPaid(m, k)' /\ FoundPaid(m, k)'
    BY DEF PaidInv
  <2>1. CASE m # n
    BY <1>1, <1>2, <2>1, PaidSame
  <2>. QED BY <1>8, <2>1
<1>. QED BY <1>4, <1>5, <1>6, <1>7, <1>9 DEF IInv

\* ... and polling, and leaving the last loop, post nothing.
LEMMA PollInv == ASSUME IInv, NEW n \in Rank, Poll(n) \/ WaitForAtomics(n) PROVE IInv'
<1>1. /\ id' = id /\ slot' = slot /\ free' = free /\ posted' = posted
      /\ landed' = landed /\ intact' = intact /\ atomics' = atomics
      /\ scan' = [scan EXCEPT ![n] = Least!Start]
      /\ pc' = pc \/ (pc[n] = "atomics" /\ pc' = [pc EXCEPT ![n] = "done"])
  <2>1. CASE Poll(n)
    BY <2>1 DEF Poll
  <2>2. CASE WaitForAtomics(n)
    BY <2>2 DEF WaitForAtomics
  <2>. QED BY <2>1, <2>2
<1>2. /\ \A m \in Rank : m # n => scan'[m] = scan[m] /\ pc'[m] = pc[m]
      /\ scan'[n] = Least!Start
      /\ pc'[n] = pc[n] \/ (pc[n] = "atomics" /\ pc'[n] = "done")
  BY <1>1 DEF IInv, TypeOK
<1>3. TypeOK'
  <2>1. scan' \in [Rank -> Least!Scans(Size, 0..Iters)]
    BY <1>1, StartType DEF IInv, TypeOK
  <2>2. pc' \in [Rank -> {"fill", "wait", "atomics", "done"}]
    BY <1>1 DEF IInv, TypeOK
  <2>. QED BY <1>1, <2>1, <2>2 DEF IInv, TypeOK
<1>4. ProgressInv'
  BY <1>1, <1>2 DEF IInv, ProgressInv
<1>5. LinkInv' /\ SlotInv'
  BY <1>1 DEF IInv, LinkInv, SlotInv
<1>6. PaidInv'
  <2>. SUFFICES ASSUME NEW m \in Rank, NEW k \in 0..Iters PROVE PostedPaid(m, k)' /\ FoundPaid(m, k)'
    BY DEF PaidInv
  <2>1. m = n => scan'[m].next = 0
    BY <1>2, StartType
  <2>. QED BY <1>1, <1>2, <2>1, PaidSame
<1>. QED BY <1>3, <1>4, <1>5, <1>6 DEF IInv

-----------------------------------------------------------------------------
\* Every step keeps the invariant.
LEMMA NextInv == IInv /\ [Next]_vars => IInv'
<1>. SUFFICES ASSUME IInv, [Next]_vars PROVE IInv'
  OBVIOUS
<1>1. CASE UNCHANGED vars
  <2>1. PaidInv'
    BY <1>1, PaidSame DEF vars, PaidInv
  <2>. QED BY <1>1, <2>1 DEF vars, IInv, TypeOK, ProgressInv, LinkInv, SlotInv
<1>2. ASSUME NEW n \in Rank, Run(n) PROVE IInv'
  BY <1>2, FillInv, ScanInv, PostInv, PollInv DEF Run
<1>3. ASSUME NEW n \in Rank, NEW i \in Rank, PutLands(n, i) \/ AtomicLands(n, i) PROVE IInv'
  BY <1>3, PutLandsInv, AtomicLandsInv
<1>. QED BY <1>1, <1>2, <1>3 DEF Next

\* m_sent always holds the packets that were written last, and every packet that
\* was let past a peer has been paid for.
THEOREM Invariance == Spec => []IInv
  BY InitInv, NextInv, PTL DEF Spec

\* Every variable has its type, whatever lands when.
THEOREM TypeCorrect == Spec => []TypeOK
<1>1. IInv => TypeOK
  BY DEF IInv
<1>. QED BY Invariance, <1>1, PTL

\* The atomic that announces a packet never arrives before it.
THEOREM AtomicsFollowPuts == Spec => []AnnouncedIsThere
<1>1. IInv => AnnouncedIsThere
  BY Counters DEF AnnouncedIsThere
<1>. QED BY Invariance, <1>1, PTL

\* A packet that may_send() lets past a peer costs it another peer, however the
\* atomics land while it searches.
THEOREM PaidFor == Spec => []OvertakingIsPaid
<1>1. IInv => OvertakingIsPaid
  <2>. SUFFICES ASSUME IInv, NEW n \in Rank, NEW j \in Peers(n)
                PROVE  posted[n] <= MaxGap + atomics[n][j] + Cardinality(Ahead(n, atomics[n][j]))
    BY DEF OvertakingIsPaid
  <2>1. atomics[n][j] \in 0..Iters
    BY DEF IInv, TypeOK, Peers
  <2>. QED BY <2>1 DEF IInv, PaidInv, PostedPaid, Within
<1>. QED BY Invariance, <1>1, PTL

\* So that it never gets further ahead of a peer than the gap and all other peers.
LEMMA WithinWidth ==
  ASSUME IInv, NEW n \in Rank, NEW j \in Peers(n)
  PROVE  posted[n] - atomics[n][j] <= Width
<1>1. /\ posted[n] \in Nat /\ atomics[n][j] \in Nat /\ atomics[n][j] \in 0..Iters
  BY Counters DEF Peers, IInv, TypeOK
<1>2. posted[n] <= MaxGap + atomics[n][j] + Cardinality(Ahead(n, atomics[n][j]))
  BY <1>1 DEF IInv, PaidInv, PostedPaid, Within
<1>3. /\ Cardinality(Ahead(n, atomics[n][j])) \in Nat
      /\ Cardinality(Ahead(n, atomics[n][j])) <= Size - 2
  BY <1>1, AheadType
<1>. QED BY <1>1, <1>2, <1>3, SlotsType DEF Width

\* ... nor ahead of what has landed than twice that, and the packet it is writing.
LEMMA Lag == ASSUME IInv PROVE LagBounded
<1>. SUFFICES ASSUME NEW n \in Rank, NEW j \in Peers(n)
              PROVE  id[n] - landed[j][n] <= 2 * Width + 1
  BY DEF LagBounded
<1>1. j \in Rank /\ j # n /\ n \in Peers(j)
  BY DEF Peers
<1>2. /\ id[n] \in Nat /\ posted[n] \in Nat /\ posted[j] \in Nat
      /\ atomics[n][j] \in Nat /\ landed[n][j] \in Nat
      /\ atomics[j][n] \in Nat /\ landed[j][n] \in Nat
      /\ atomics[n][j] <= landed[n][j] /\ landed[n][j] <= posted[j]
      /\ atomics[j][n] <= landed[j][n]
  BY <1>1, Counters
<1>3. id[n] <= posted[n] + 1
  BY <1>2 DEF IInv, ProgressInv
<1>4. posted[n] - atomics[n][j] <= Width /\ posted[j] - atomics[j][n] <= Width
  BY <1>1, WithinWidth
<1>. QED BY <1>2, <1>3, <1>4, SlotsType

\* How far the packet that is written last may be ahead of the last that has
\* landed everywhere: the buffers it takes.
THEOREM LagIsBounded == Spec => []LagBounded
<1>1. IInv => LagBounded
  BY Lag
<1>. QED BY Invariance, <1>1, PTL

\* From a gap of three, and more than two nodes, on, m_sent has as many, and no
\* packet changes while it is being sent.
THEOREM SlotsAreEnough == ASSUME Size > 2, MaxGap > 2 PROVE Spec => []PutsIntact
<1>1. Init => PutsIntact
  BY DEF Init, PutsIntact
<1>2. 2 * Width + 1 <= Slots
  <2>1. Size - 2 \in Nat /\ Size - 2 >= 1 /\ MaxGap - 2 >= 1
    BY SlotsType
  <2>2. (MaxGap - 2) * (Size - 2) >= 1 * (Size - 2)
    BY <2>1, SlotsType, Z3
  <2>3. MaxGap * Size = (MaxGap - 2) * (Size - 2) + 2 * MaxGap + 2 * (Size - 2)
    BY SlotsType, Z3
  <2>. QED BY <2>1, <2>2, <2>3, SlotsType DEF Width, Slots
<1>3. IInv /\ PutsIntact /\ [Next]_vars => PutsIntact'
  <2>. SUFFICES ASSUME IInv, PutsIntact, [Next]_vars PROVE PutsIntact'
    OBVIOUS
  <2>1. ASSUME NEW n \in Rank, NEW i \in Rank, PutLands(n, i) PROVE PutsIntact'
    <3>. DEFINE k == landed[n][i]
    <3>1. i # n /\ k < posted[i] /\ k \in 0..Iters
      BY <2>1 DEF PutLands, IInv, TypeOK
    <3>2. id[i] - k <= 2 * Width + 1
      BY <3>1, Lag DEF LagBounded, Peers
    <3>3. posted[i] <= id[i] /\ id[i] \in Nat /\ posted[i] \in Nat /\ k \in Nat
      BY Counters DEF IInv, ProgressInv
    <3>4. k < id[i] /\ id[i] - k <= Slots
      BY <1>2, <3>1, <3>2, <3>3, SlotsType
    <3>5. slot[i][k % Slots] = k + 1
      BY <3>1, <3>4 DEF IInv, SlotInv
    <3>. QED BY <2>1, <3>5 DEF PutLands, PutsIntact, IInv, TypeOK
  <2>2. CASE intact' = intact
    BY <2>2 DEF PutsIntact
  <2>3. ASSUME NEW n \in Rank, Run(n) PROVE intact' = intact
    BY <2>3 DEF Run, Fill, Scan, Post, Poll, WaitForAtomics
  <2>4. ASSUME NEW n \in Rank, NEW i \in Rank, AtomicLands(n, i) PROVE intact' = intact
    BY <2>4 DEF AtomicLands
  <2>. QED BY <2>1, <2>2, <2>3, <2>4 DEF Next, vars
<1>. QED BY Invariance, <1>1, <1>3, PTL DEF Spec

\* No circular wait, for any number of nodes: of those that wait to send, the one
\* that is behind may.
THEOREM NoCircularWait == Spec => []NeverStuck
<1>1. IInv => NeverStuck
  <2>. SUFFICES ASSUME IInv,
                       \A n \in Rank : \A i \in Peers(n) : atomics[n][i] = posted[i],
                       \E n \in Rank : pc[n] # "done",
                       \A n \in Rank : pc[n] # "fill"
                PROVE  \E n, i \in Rank :
                         /\ \A j \in Rank : atomics[n][i] <= atomics[n][j]
                         /\ \/ pc[n] = "wait" /\ MaySend(n, atomics[n][i])
                            \/ pc[n] = "atomics" /\ Enough(atomics[n][i])
    BY DEF NeverStuck
  <2>1. Rank # {}
    BY SlotsType DEF Rank
  <2>2. \A n \in Rank : \E i \in Rank : \A j \in Rank : atomics[n][i] <= atomics[n][j]
    BY <2>1, SlotsType, Lemmas!SomeLeast DEF IInv, TypeOK
  <2>3. PICK b \in Rank : \A m \in Rank : posted[b] <= posted[m]
    BY <2>1, SlotsType, Lemmas!SomeLeast DEF IInv, TypeOK
  <2>4. \A n \in Rank : pc[n] \in {"wait", "atomics", "done"}
    BY DEF IInv, TypeOK
  <2>5. CASE pc[b] = "wait"
    <3>1. PICK i \in Rank : \A j \in Rank : atomics[b][i] <= atomics[b][j]
      BY <2>2
    <3>2. id[b] = posted[b] + 1 /\ atomics[b][b] = id[b] /\ posted[b] \in Nat /\ posted[i] \in Nat
      BY <2>5, Counters DEF IInv, ProgressInv
    <3>3. atomics[b][i] \in Nat /\ atomics[b][i] <= id[b]
      BY <3>1, <3>2, Counters
    <3>4. posted[b] <= atomics[b][i]
      BY <2>3, <3>2 DEF Peers
    <3>5. MaySend(b, atomics[b][i])
      BY <3>2, <3>3, <3>4, SlotsType DEF MaySend
    <3>. QED BY <2>5, <3>1, <3>5
  <2>6. CASE pc[b] # "wait"
    <3>1. posted[b] = Iters
      BY <2>4, <2>6 DEF IInv, ProgressInv
    <3>2. \A m \in Rank : posted[m] = Iters
      BY <2>3, <3>1, Counters, SlotsType
    <3>3. PICK n \in Rank : pc[n] = "atomics"
      BY <2>4, <3>2, SlotsType DEF IInv, ProgressInv
    <3>4. PICK i \in Rank : \A j \in Rank : atomics[n][i] <= atomics[n][j]
      BY <2>2
    <3>5. id[n] = Iters /\ atomics[n][n] = id[n]
      BY <3>2, <3>3, Counters DEF IInv, ProgressInv
    <3>6. atomics[n][i] = Iters
      BY <3>2, <3>5 DEF Peers
    <3>. QED BY <3>3, <3>4, <3>6, SlotsType DEF Enough
  <2>. QED BY <2>5, <2>6
<1>. QED BY Invariance, <1>1, PTL

-----------------------------------------------------------------------------
\* The runner implements GapWindow: posting is Send, an atomic is Receive.
THEOREM Refinement == Spec => RefinesGapWindow
<1>. DEFINE WidthKept == \A n \in Rank : \A j \in Peers(n) : posted[n] - atomics[n][j] <= Width
<1>1. Init => Gap!Init
  BY DEF Init, Gap!Init, Heard
<1>2. IInv => WidthKept
  BY WithinWidth
<1>3. IInv /\ WidthKept' /\ [Next]_vars => [Gap!Next]_(Gap!vars)
  <2>. SUFFICES ASSUME IInv, WidthKept', [Next]_vars PROVE Gap!Next \/ UNCHANGED <<posted, Heard>>
    BY DEF Gap!vars
  <2>1. ASSUME NEW n \in Rank, Post(n) PROVE Gap!Send(n)
    <3>1. /\ pc[n] = "wait" /\ atomics' = atomics
          /\ posted' = [posted EXCEPT ![n] = id[n]]
      BY <2>1 DEF Post
    <3>2. id[n] = posted[n] + 1 /\ posted[n] < Iters
      BY <3>1 DEF IInv, ProgressInv
    <3>3. Heard' = Heard
      BY <3>1 DEF Heard
    <3>4. \A i \in Gap!Peers(n) : (posted[n] + 1) - Heard[n][i] <= Width
      <4>. SUFFICES ASSUME NEW i \in Peers(n) PROVE (posted[n] + 1) - Heard[n][i] <= Width
        BY DEF Gap!Peers, Peers
      <4>1. (posted[n] - atomics[n][i] <= Width)'
        BY DEF Peers
      <4>2. posted'[n] = posted[n] + 1
        BY <3>1, <3>2 DEF IInv, TypeOK
      <4>3. Heard[n][i] = atomics[n][i]
        BY DEF Heard, Peers
      <4>. QED BY <3>1, <4>1, <4>2, <4>3, SlotsType DEF Width
    <3>5. posted' = [posted EXCEPT ![n] = @ + 1]
      BY <3>1, <3>2
    <3>. QED BY <3>2, <3>3, <3>4, <3>5 DEF Gap!Send, Gap!MaySend
  <2>2. ASSUME NEW n \in Rank, NEW i \in Rank, AtomicLands(n, i) PROVE Gap!Receive(n, i)
    <3>1. /\ i # n /\ atomics[n][i] < landed[n][i] /\ posted' = posted
          /\ atomics' = [atomics EXCEPT ![n][i] = atomics[n][i] + 1]
      BY <2>2 DEF AtomicLands, Fenced
    <3>2. Heard[n][i] < posted[i]
      BY <3>1, Counters DEF Heard
    <3>3. Heard' = [Heard EXCEPT ![n][i] = Heard[n][i] + 1]
      <4>1. atomics'[n] = [atomics[n] EXCEPT ![i] = atomics[n][i] + 1]
        BY <3>1 DEF IInv, TypeOK
      <4>2. Heard'[n] = [Heard[n] EXCEPT ![i] = Heard[n][i] + 1]
        <5>1. \A j \in Rank : atomics'[n][j] = IF j = i THEN atomics[n][i] + 1 ELSE atomics[n][j]
          BY <4>1 DEF IInv, TypeOK
        <5>2. /\ Heard[n] = [j \in Rank |-> IF j = n THEN 0 ELSE atomics[n][j]]
              /\ Heard'[n] = [j \in Rank |-> IF j = n THEN 0 ELSE atomics'[n][j]]
          BY DEF Heard
        <5>3. [Heard[n] EXCEPT ![i] = Heard[n][i] + 1]
                = [j \in Rank |-> IF j = i THEN Heard[n][i] + 1 ELSE Heard[n][j]]
          BY <5>2
        <5>4. \A j \in Rank : Heard'[n][j] = IF j = i THEN Heard[n][i] + 1 ELSE Heard[n][j]
          BY <3>1, <5>1, <5>2
        <5>. QED BY <5>2, <5>3, <5>4
      <4>3. \A m \in Rank : m # n => Heard'[m] = Heard[m]
        BY <3>1 DEF Heard, IInv, TypeOK
      <4>4. /\ Heard' = [m \in Rank |-> Heard'[m]]
            /\ [Heard EXCEPT ![n][i] = Heard[n][i] + 1]
                 = [m \in Rank |-> IF m = n THEN [Heard[n] EXCEPT ![i] = Heard[n][i] + 1]
                                   ELSE Heard[m]]
        BY DEF Heard
      <4>. QED BY <4>2, <4>3, <4>4
    <3>. QED BY <3>1, <3>2, <3>3 DEF Gap!Receive, Gap!UnderWay
  <2>3. ASSUME NEW n \in Rank, Fill(n) PROVE UNCHANGED <<posted, Heard>>
    BY <2>3 DEF Fill, Heard, IInv, TypeOK
  <2>4. ASSUME NEW n \in Rank, NEW i \in Rank,
               Scan(n) \/ Poll(n) \/ WaitForAtomics(n) \/ PutLands(n, i)
        PROVE  UNCHANGED <<posted, Heard>>
    BY <2>4 DEF Scan, Poll, WaitForAtomics, PutLands, Heard
  <2>5. CASE UNCHANGED vars
    BY <2>5 DEF vars, Heard
  <2>. QED BY <2>1, <2>2, <2>3, <2>4, <2>5 DEF Next, Run, Gap!Next
<1>. QED BY Invariance, <1>1, <1>2, <1>3, PTL DEF Spec, RefinesGapWindow, Gap!Spec

\* No node runs more than the window ahead of another: whoever has announced a
\* packet to a node has posted it.
THEOREM SkewIsBounded == Spec => []SkewBounded
<1>1. IInv => SkewBounded
  <2>. SUFFICES ASSUME IInv, NEW i \in Rank, NEW j \in Rank
                PROVE  posted[i] - posted[j] <= Width
    BY DEF SkewBounded, Gap!SkewBounded
  <2>1. /\ posted[i] \in Nat /\ posted[j] \in Nat /\ atomics[i][j] \in Nat /\ landed[i][j] \in Nat
        /\ j # i => atomics[i][j] <= landed[i][j] /\ landed[i][j] <= posted[j]
    BY Counters
  <2>2. CASE i # j
    <3>1. posted[i] - atomics[i][j] <= Width
      BY <2>2, WithinWidth DEF Peers
    <3>. QED BY <2>1, <2>2, <3>1, SlotsType
  <2>3. CASE i = j
    BY <2>1, <2>3, SlotsType
  <2>. QED BY <2>2, <2>3
<1>. QED BY Invariance, <1>1, PTL
=============================================================================
