-------------------------- MODULE TagGapRunnerProofs --------------------------
(* The theorems about TagGapRunner, for any number of nodes above two, any *)
(* gap and any number of packets.                                          *)
EXTENDS TagGapRunner, TLAPS, FiniteSetTheorems

\* The lemmas that all gap runners share.
Lemmas == INSTANCE GapWindowProofs WITH Window <- MaxGap, sent <- posted, received <- arrived

\* They are about the same sets, and about the tally of this module.
LEMMA SameSets ==
  ASSUME NEW S
  PROVE  /\ Gap!Cardinality(S) = Cardinality(S) /\ Lemmas!Cardinality(S) = Cardinality(S)
         /\ Lemmas!IsFiniteSet(S) <=> IsFiniteSet(S)
<1>1. Gap!Cardinality(S) = Cardinality(S)
  BY DEF Gap!Cardinality, Cardinality
<1>2. Lemmas!Cardinality(S) = Cardinality(S)
  BY DEF Lemmas!Cardinality, Cardinality
<1>3. Lemmas!IsFiniteSet(S) <=> IsFiniteSet(S)
  BY DEF Lemmas!IsFiniteSet, IsFiniteSet
<1>. QED BY <1>1, <1>2, <1>3

LEMMA SameTally ==
  ASSUME NEW peers, NEW got, NEW count, NEW last
  PROVE  Gap!Tally(peers, got, count, last) <=> Lemmas!Tally(peers, got, count, last)
  BY SameSets DEF Gap!Tally, Lemmas!Tally

\* There are slots, and a node has as many peers as it waits for.
LEMMA SlotsType ==
  /\ size \in Nat /\ size > 1 /\ Slots \in Nat /\ Slots > 0
  /\ MaxGap \in Nat /\ MaxGap > 0 /\ Iters \in Nat
<1>1. size \in Nat /\ size > 1 /\ MaxGap \in Nat /\ MaxGap > 0 /\ Iters \in Nat
  BY TagAssumption, FS_CardinalityType DEF size
<1>2. MaxGap * size \in Nat /\ MaxGap * size > 0
  BY <1>1
<1>. QED BY <1>1, <1>2 DEF Slots

LEMMA PeersType ==
  ASSUME NEW n \in Node
  PROVE  IsFiniteSet(Peers(n)) /\ Cardinality(Peers(n)) = size - 1 /\ Peers(n) # {}
<1>1. IsFiniteSet(Peers(n)) /\ Cardinality(Peers(n)) = size - 1
  BY TagAssumption, FS_RemoveElement DEF Peers, size
<1>. QED BY <1>1, SlotsType, FS_EmptySet

\* The numbers of any two nodes.
LEMMA Numbers ==
  ASSUME IInv, NEW n \in Node, NEW i \in Peers(n)
  PROVE  /\ i \in Node /\ n \in Peers(i)
         /\ id[n] \in Nat /\ posted[n] \in Nat /\ posted[n] <= Iters /\ id[n] <= Iters
         /\ posted[i] \in Nat /\ latest[n] \in Nat
         /\ read[n][i] \in Nat /\ arrived[n][i] \in Nat /\ Len(wire[n][i]) \in Nat
         /\ wire[n][i] \in Seq(Nat)
         /\ arrived[n][i] <= read[n][i] /\ read[n][i] <= posted[i] /\ arrived[n][i] <= posted[n]
         /\ posted[n] <= id[n] /\ id[n] <= posted[n] + 1
         /\ latest[n] <= arrived[n][i] /\ posted[n] - latest[n] <= MaxGap
<1>1. /\ i \in Node /\ n \in Peers(i)
      /\ id[n] \in 0..Iters /\ posted[n] \in 0..Iters /\ posted[i] \in 0..Iters
      /\ latest[n] \in 0..Iters /\ read[n][i] \in 0..Iters /\ arrived[n][i] \in 0..Iters
      /\ wire[n][i] \in Seq(Nat)
  BY DEF IInv, TypeOK, Peers
<1>2. Len(wire[n][i]) \in Nat
  BY <1>1
<1>3. /\ Len(wire[n][i]) = read[n][i] - arrived[n][i]
      /\ read[n][i] <= posted[i] /\ arrived[n][i] <= posted[n]
  BY DEF IInv, LinkInv
<1>4. posted[n] <= id[n] /\ id[n] <= posted[n] + 1
  <2>1. pc[n] \in {"fill", "wait", "drain", "done"}
    BY DEF IInv, TypeOK
  <2>. QED BY <1>1, <2>1, SlotsType DEF IInv, ProgressInv
<1>5. latest[n] <= arrived[n][i] /\ posted[n] - latest[n] <= MaxGap
  BY DEF IInv, CountInv, Gap!Tally
<1>. QED BY <1>1, <1>2, <1>3, <1>4, <1>5, SlotsType

\* At most two gaps of packets of a node are under way to another, and one
\* more is in its slot.
LEMMA UnderWay ==
  ASSUME IInv, NEW n \in Node, NEW i \in Peers(n)
  PROVE  posted[i] - read[n][i] <= 2 * MaxGap /\ posted[i] <= latest[n] + 2 * MaxGap
<1>1. /\ posted[i] - latest[i] <= MaxGap /\ latest[i] <= arrived[i][n]
      /\ arrived[i][n] <= posted[n] /\ posted[n] - latest[n] <= MaxGap
      /\ latest[n] <= arrived[n][i] /\ arrived[n][i] <= read[n][i]
  <2>1. i \in Node /\ n \in Peers(i)
    BY Numbers
  <2>. QED BY <2>1, Numbers
<1>2. /\ posted[i] \in Nat /\ latest[i] \in Nat /\ arrived[i][n] \in Nat /\ posted[n] \in Nat
      /\ latest[n] \in Nat /\ arrived[n][i] \in Nat /\ read[n][i] \in Nat
  <2>1. i \in Node /\ n \in Peers(i)
    BY Numbers
  <2>. QED BY <2>1, Numbers
<1>. QED BY <1>1, <1>2, SlotsType

LEMMA SlotsAreEnough ==
  ASSUME size > 2, IInv, NEW n \in Node, NEW i \in Peers(n)
  PROVE  id[i] - read[n][i] <= Slots
<1>1. Slots >= 3 * MaxGap
  BY SlotsType DEF Slots
<1>2. i \in Node /\ n \in Peers(i)
  BY Numbers
<1>3. id[i] <= posted[i] + 1 /\ id[i] \in Nat /\ posted[i] \in Nat
  BY <1>2, Numbers
<1>. QED BY <1>1, <1>3, UnderWay, Numbers, SlotsType

-----------------------------------------------------------------------------
\* The invariant holds at the start ...
LEMMA InitInv == Init => IInv
<1>. SUFFICES ASSUME Init PROVE IInv
  OBVIOUS
<1>1. TypeOK
  <2>1. Generated \in [0..(Slots - 1) -> Nat]
    BY SlotsType DEF Generated
  <2>2. \A n \in Node : pc[n] \in {"fill", "drain"}
    BY DEF Init
  <2>3. <<>> \in Seq(Nat)
    OBVIOUS
  <2>. QED BY <2>1, <2>2, <2>3, SlotsType DEF Init, TypeOK
<1>2. ProgressInv
  BY SlotsType DEF Init, ProgressInv
<1>3. LinkInv
  BY DEF Init, LinkInv, Peers
<1>4. SlotInv
  BY SlotsType DEF Init, SlotInv
<1>5. CountInv
  <2>. SUFFICES ASSUME NEW n \in Node
                PROVE  Gap!Tally(Peers(n), arrived[n], ids[n], latest[n]) /\ posted[n] - latest[n] <= MaxGap
    BY DEF CountInv
  <2>1. /\ \A i \in Peers(n) : arrived[n][i] = 0
        /\ \A k \in 0..Iters : ids[n][k] = 0
        /\ latest[n] = 0 /\ posted[n] = 0
    BY DEF Init, Peers
  <2>2. Lemmas!Tally(Peers(n), arrived[n], ids[n], latest[n])
    <3>1. Lemmas!IsFiniteSet(Peers(n)) /\ Peers(n) # {}
      BY PeersType, SameSets
    <3>. QED BY <2>1, <3>1, SlotsType, Lemmas!TallyInit
  <2>. QED BY <2>1, <2>2, SlotsType, SameTally
<1>6. PacketsIntact
  BY DEF Init, PacketsIntact
<1>. QED BY <1>1, <1>2, <1>3, <1>4, <1>5, <1>6 DEF IInv

\* ... the next packet takes the slot of the one Slots before ...
LEMMA FillInv == ASSUME IInv, NEW n \in Node, Fill(n) PROVE IInv'
<1>1. /\ pc[n] = "fill"
      /\ id' = [id EXCEPT ![n] = id[n] + 1]
      /\ slot' = [slot EXCEPT ![n][id[n] % Slots] = id[n] + 1]
      /\ pc' = [pc EXCEPT ![n] = "wait"]
      /\ posted' = posted /\ read' = read /\ wire' = wire /\ arrived' = arrived
      /\ intact' = intact /\ ids' = ids /\ latest' = latest
  BY DEF Fill, NextPacket
<1>2. id[n] = posted[n] /\ posted[n] < Iters /\ id[n] \in 0..Iters
  BY <1>1 DEF IInv, ProgressInv, TypeOK
<1>3. id[n] % Slots \in 0..(Slots - 1)
  BY <1>2, SlotsType
<1>4. /\ \A m \in Node : m # n => id'[m] = id[m] /\ pc'[m] = pc[m] /\ slot'[m] = slot[m]
      /\ id'[n] = id[n] + 1 /\ pc'[n] = "wait"
      /\ \A s \in 0..(Slots - 1) :
           slot'[n][s] = IF s = id[n] % Slots THEN id[n] + 1 ELSE slot[n][s]
  BY <1>1 DEF IInv, TypeOK
<1>5. TypeOK'
  <2>1. id[n] + 1 \in 0..Iters
    BY <1>2, SlotsType
  <2>2. id' \in [Node -> 0..Iters] /\ slot' \in [Node -> [0..(Slots - 1) -> Nat]]
    <3>1. id[n] + 1 \in Nat
      BY <1>2
    <3>2. [slot[n] EXCEPT ![id[n] % Slots] = id[n] + 1] \in [0..(Slots - 1) -> Nat]
      BY <3>1 DEF IInv, TypeOK
    <3>. QED BY <1>1, <2>1, <3>2 DEF IInv, TypeOK
  <2>3. pc' \in [Node -> {"fill", "wait", "drain", "done"}]
    BY <1>1 DEF IInv, TypeOK
  <2>. QED BY <1>1, <2>2, <2>3 DEF IInv, TypeOK
<1>6. ProgressInv'
  BY <1>1, <1>2, <1>4 DEF IInv, ProgressInv
<1>7. SlotInv'
  <2>. SUFFICES ASSUME NEW m \in Node, NEW k \in 0..Iters, k < id'[m], id'[m] - k <= Slots
                PROVE  slot'[m][k % Slots] = k + 1
    BY DEF SlotInv
  <2>1. CASE m # n
    BY <2>1, <1>4 DEF IInv, SlotInv
  <2>2. CASE m = n /\ k = id[n]
    BY <2>2, <1>3, <1>4
  <2>3. CASE m = n /\ k # id[n]
    <3>1. k \in Nat /\ k % Slots \in 0..(Slots - 1)
      BY SlotsType
    <3>2. k < id[n] /\ id[n] - k < Slots
      BY <2>3, <1>2, <1>4, <3>1, SlotsType
    <3>3. k % Slots # id[n] % Slots
      <4>1. id[n] \in Nat
        BY <1>2
      <4>. QED BY <3>1, <3>2, <4>1, SlotsType, Lemmas!ModDiffers
    <3>4. slot[n][k % Slots] = k + 1
      BY <1>2, <3>1, <3>2, SlotsType DEF IInv, SlotInv
    <3>. QED BY <2>3, <1>4, <3>1, <3>3, <3>4
  <2>. QED BY <2>1, <2>2, <2>3
<1>8. LinkInv' /\ CountInv' /\ PacketsIntact'
  BY <1>1 DEF IInv, LinkInv, CountInv, PacketsIntact
<1>. QED BY <1>5, <1>6, <1>7, <1>8 DEF IInv

\* ... is posted inside the gap ...
LEMMA PostInv == ASSUME IInv, NEW n \in Node, Post(n) PROVE IInv'
<1>1. /\ pc[n] = "wait" /\ id[n] - latest[n] <= MaxGap
      /\ posted' = [posted EXCEPT ![n] = id[n]]
      /\ pc' = [pc EXCEPT ![n] = IF id[n] < Iters THEN "fill" ELSE "drain"]
      /\ id' = id /\ slot' = slot /\ read' = read /\ wire' = wire /\ arrived' = arrived
      /\ intact' = intact /\ ids' = ids /\ latest' = latest
  BY DEF Post, MaySend, MoreToSend
<1>2. id[n] = posted[n] + 1 /\ id[n] \in 0..Iters /\ posted[n] \in 0..Iters
  BY <1>1 DEF IInv, ProgressInv, TypeOK
<1>3. /\ \A m \in Node : m # n => posted'[m] = posted[m] /\ pc'[m] = pc[m]
      /\ posted'[n] = id[n] /\ pc'[n] = IF id[n] < Iters THEN "fill" ELSE "drain"
  BY <1>1 DEF IInv, TypeOK
<1>4. TypeOK'
  <2>1. pc' \in [Node -> {"fill", "wait", "drain", "done"}]
    BY <1>1 DEF IInv, TypeOK
  <2>2. posted' \in [Node -> 0..Iters]
    BY <1>1, <1>2 DEF IInv, TypeOK
  <2>. QED BY <1>1, <2>1, <2>2 DEF IInv, TypeOK
<1>5. ProgressInv'
  BY <1>1, <1>2, <1>3, SlotsType DEF IInv, ProgressInv
<1>6. LinkInv'
  <2>1. \A m \in Node : posted[m] \in Nat /\ posted[m] <= posted'[m] /\ posted'[m] \in Nat
    <3>. SUFFICES ASSUME NEW m \in Node
                  PROVE  posted[m] \in Nat /\ posted[m] <= posted'[m] /\ posted'[m] \in Nat
      OBVIOUS
    <3>1. posted[m] \in 0..Iters
      BY DEF IInv, TypeOK
    <3>. QED BY <1>2, <1>3, <3>1, SlotsType
  <2>2. \A m \in Node : \A i \in Peers(m) :
          /\ arrived[m][i] \in Nat /\ read[m][i] \in Nat /\ i \in Node
          /\ arrived[m][i] <= posted[m] /\ read[m][i] <= posted[i]
    BY Numbers
  <2>. QED BY <1>1, <2>1, <2>2 DEF IInv, LinkInv
<1>7. CountInv'
  BY <1>1, <1>3 DEF IInv, CountInv
<1>8. SlotInv' /\ PacketsIntact'
  BY <1>1 DEF IInv, SlotInv, PacketsIntact
<1>. QED BY <1>4, <1>5, <1>6, <1>7, <1>8 DEF IInv

\* ... is read from its slot while it is still there ...
LEMMA TransmitInv ==
  ASSUME size > 2, IInv, NEW n \in Node, NEW i \in Node, Transmit(n, i) PROVE IInv'
<1>. DEFINE k == read[n][i]
<1>1. /\ i # n /\ k < posted[i]
      /\ read' = [read EXCEPT ![n][i] = k + 1]
      /\ wire' = [wire EXCEPT ![n][i] = Append(wire[n][i], slot[i][k % Slots])]
      /\ pc' = pc /\ id' = id /\ slot' = slot /\ posted' = posted /\ arrived' = arrived
      /\ intact' = intact /\ ids' = ids /\ latest' = latest
  BY DEF Transmit
<1>2. i \in Peers(n)
  BY <1>1 DEF Peers
<1>3. /\ k \in Nat /\ k + 1 \in 0..Iters /\ k \in 0..Iters /\ k < id[i] /\ id[i] - k <= Slots
  <2>1. i \in Node /\ n \in Peers(i)
    BY <1>2, Numbers
  <2>2. k \in Nat /\ posted[i] \in Nat /\ posted[i] <= Iters /\ id[i] \in Nat /\ posted[i] <= id[i]
    BY <1>2, <2>1, Numbers
  <2>. QED BY <1>1, <1>2, <2>2, SlotsAreEnough, SlotsType
<1>4. slot[i][k % Slots] = k + 1
  BY <1>3 DEF IInv, SlotInv
<1>5. /\ read'[n][i] = k + 1 /\ wire'[n][i] = Append(wire[n][i], k + 1)
      /\ \A m, j \in Node : m # n \/ j # i => read'[m][j] = read[m][j] /\ wire'[m][j] = wire[m][j]
  BY <1>1, <1>4 DEF IInv, TypeOK
<1>6. TypeOK'
  <2>1. Append(wire[n][i], k + 1) \in Seq(Nat)
    BY <1>2, <1>3, Numbers
  <2>2. read' \in [Node -> [Node -> 0..Iters]]
    BY <1>1, <1>3 DEF IInv, TypeOK
  <2>3. wire' \in [Node -> [Node -> Seq(Nat)]]
    BY <1>1, <1>4, <2>1 DEF IInv, TypeOK
  <2>. QED BY <1>1, <2>2, <2>3 DEF IInv, TypeOK
<1>7. LinkInv'
  <2>. SUFFICES ASSUME NEW m \in Node
                PROVE  /\ wire'[m][m] = <<>>
                       /\ \A j \in Peers(m) :
                            /\ arrived[m][j] <= posted[m]
                            /\ read'[m][j] <= posted[j]
                            /\ Len(wire'[m][j]) = read'[m][j] - arrived[m][j]
                            /\ \A p \in 1..Len(wire'[m][j]) : wire'[m][j][p] = arrived[m][j] + p
    BY <1>1 DEF LinkInv
  <2>1. wire'[m][m] = <<>>
    BY <1>1, <1>5 DEF IInv, LinkInv
  <2>2. ASSUME NEW j \in Peers(m), m # n \/ j # i
        PROVE  /\ arrived[m][j] <= posted[m]
               /\ read'[m][j] <= posted[j]
               /\ Len(wire'[m][j]) = read'[m][j] - arrived[m][j]
               /\ \A p \in 1..Len(wire'[m][j]) : wire'[m][j][p] = arrived[m][j] + p
    <3>1. j \in Node
      BY DEF Peers
    <3>2. wire'[m][j] = wire[m][j] /\ read'[m][j] = read[m][j]
      BY <1>5, <2>2, <3>1
    <3>. QED BY <3>2 DEF IInv, LinkInv
  <2>3. /\ arrived[n][i] <= posted[n]
        /\ read'[n][i] <= posted[i]
        /\ Len(wire'[n][i]) = read'[n][i] - arrived[n][i]
        /\ \A p \in 1..Len(wire'[n][i]) : wire'[n][i][p] = arrived[n][i] + p
    <3>. DEFINE w == wire[n][i]
    <3>1. /\ w \in Seq(Nat) /\ Len(w) = k - arrived[n][i] /\ arrived[n][i] \in Nat
          /\ Len(w) \in Nat /\ arrived[n][i] <= posted[n] /\ posted[i] \in Nat
          /\ \A p \in 1..Len(w) : w[p] = arrived[n][i] + p
      BY <1>2, Numbers DEF IInv, LinkInv
    <3>. HIDE DEF w
    <3>2. Len(Append(w, k + 1)) = Len(w) + 1
      BY <3>1, <1>3
    <3>3. \A p \in 1..(Len(w) + 1) : Append(w, k + 1)[p] = IF p = Len(w) + 1 THEN k + 1 ELSE w[p]
      BY <3>1, <1>3
    <3>4. ASSUME NEW p \in 1..(Len(w) + 1) PROVE Append(w, k + 1)[p] = arrived[n][i] + p
      <4>1. CASE p = Len(w) + 1
        <5>1. Append(w, k + 1)[p] = k + 1 /\ k \in Nat
          BY <3>3, <4>1, <1>3
        <5>. HIDE DEF k
        <5>. QED BY <3>1, <4>1, <5>1
      <4>2. CASE p # Len(w) + 1
        <5>1. p \in 1..Len(w)
          BY <3>1, <4>2
        <5>. QED BY <3>1, <3>3, <4>2, <5>1
      <4>. QED BY <4>1, <4>2
    <3>. QED BY <1>1, <1>3, <1>5, <3>1, <3>2, <3>4 DEF w
  <2>. QED BY <2>1, <2>2, <2>3
<1>8. ProgressInv' /\ SlotInv' /\ CountInv' /\ PacketsIntact'
  BY <1>1 DEF IInv, ProgressInv, SlotInv, CountInv, PacketsIntact
<1>. QED BY <1>6, <1>7, <1>8 DEF IInv

\* ... is counted by the node that receives it ...
LEMMA DeliverInv ==
  ASSUME IInv, NEW n \in Node, NEW i \in Node, Deliver(n, i) PROVE IInv'
<1>. DEFINE w == wire[n][i]
            k == Head(wire[n][i])
<1>1. /\ w # <<>> /\ arrived[n][i] < posted[n]
      /\ intact' = [intact EXCEPT ![n] = intact[n] /\ k = arrived[n][i] + 1]
      /\ latest' = IF FromAll(n, k) THEN [latest EXCEPT ![n] = k] ELSE latest
      /\ ids' = [ids EXCEPT ![n][k] = IF FromAll(n, k) THEN 0 ELSE ids[n][k] + 1]
      /\ wire' = [wire EXCEPT ![n][i] = Tail(w)]
      /\ arrived' = [arrived EXCEPT ![n][i] = arrived[n][i] + 1]
      /\ pc' = pc /\ id' = id /\ slot' = slot /\ posted' = posted /\ read' = read
  BY DEF Deliver, Counted
<1>2. i \in Peers(n)
  BY <1>1 DEF IInv, LinkInv, Peers
<1>3. /\ w \in Seq(Nat) /\ Len(w) = read[n][i] - arrived[n][i] /\ Len(w) \in Nat
      /\ arrived[n][i] \in Nat /\ posted[n] \in Nat /\ posted[n] <= Iters
      /\ read[n][i] \in Nat /\ read[n][i] <= posted[i]
      /\ \A p \in 1..Len(w) : w[p] = arrived[n][i] + p
  BY <1>2, Numbers DEF IInv, LinkInv
<1>4. Len(w) > 0 /\ k = arrived[n][i] + 1 /\ k \in 0..Iters
  <2>1. Len(w) > 0 /\ k = w[1]
    <3>1. k = Head(w) /\ w # <<>> /\ w \in Seq(Nat)
      BY <1>1, <1>3
    <3>. HIDE DEF w, k
    <3>. QED BY <3>1
  <2>2. w[1] = arrived[n][i] + 1
    <3>. HIDE DEF w, k
    <3>. QED BY <1>3, <2>1
  <2>. HIDE DEF w, k
  <2>3. arrived[n][i] + 1 <= Iters
    BY <1>1, <1>3, SlotsType
  <2>. QED BY <1>3, <2>1, <2>2, <2>3, SlotsType
<1>. HIDE DEF k
<1>5. /\ arrived'[n][i] = k /\ wire'[n][i] = Tail(w)
      /\ \A m, j \in Node : m # n \/ j # i =>
           arrived'[m][j] = arrived[m][j] /\ wire'[m][j] = wire[m][j]
      /\ intact'[n] = intact[n] /\ \A m \in Node : m # n => intact'[m] = intact[m]
  BY <1>1, <1>4 DEF IInv, TypeOK
<1>6. TypeOK'
  <2>1. Tail(w) \in Seq(Nat)
    <3>. HIDE DEF w
    <3>. QED BY <1>1, <1>3
  <2>2. wire' \in [Node -> [Node -> Seq(Nat)]]
    BY <1>1, <2>1 DEF IInv, TypeOK
  <2>3. arrived' \in [Node -> [Node -> 0..Iters]]
    BY <1>1, <1>4 DEF IInv, TypeOK
  <2>4. latest' \in [Node -> 0..Iters]
    BY <1>1, <1>4 DEF IInv, TypeOK
  <2>5. ids' \in [Node -> [0..Iters -> Nat]]
    <3>1. (IF FromAll(n, k) THEN 0 ELSE ids[n][k] + 1) \in Nat
      <4>1. ids[n][k] \in Nat
        BY <1>4 DEF IInv, TypeOK
      <4>. QED BY <4>1
    <3>2. [ids[n] EXCEPT ![k] = IF FromAll(n, k) THEN 0 ELSE ids[n][k] + 1] \in [0..Iters -> Nat]
      BY <3>1 DEF IInv, TypeOK
    <3>. QED BY <1>1, <3>2 DEF IInv, TypeOK
  <2>6. intact' \in [Node -> BOOLEAN]
    BY <1>1 DEF IInv, TypeOK
  <2>. QED BY <1>1, <2>2, <2>3, <2>4, <2>5, <2>6 DEF IInv, TypeOK
<1>7. LinkInv'
  <2>. SUFFICES ASSUME NEW m \in Node
                PROVE  /\ wire'[m][m] = <<>>
                       /\ \A j \in Peers(m) :
                            /\ arrived'[m][j] <= posted[m]
                            /\ read[m][j] <= posted[j]
                            /\ Len(wire'[m][j]) = read[m][j] - arrived'[m][j]
                            /\ \A p \in 1..Len(wire'[m][j]) : wire'[m][j][p] = arrived'[m][j] + p
    BY <1>1 DEF LinkInv
  <2>1. wire'[m][m] = <<>>
    BY <1>2, <1>5 DEF IInv, LinkInv, Peers
  <2>2. ASSUME NEW j \in Peers(m), m # n \/ j # i
        PROVE  /\ arrived'[m][j] <= posted[m]
               /\ read[m][j] <= posted[j]
               /\ Len(wire'[m][j]) = read[m][j] - arrived'[m][j]
               /\ \A p \in 1..Len(wire'[m][j]) : wire'[m][j][p] = arrived'[m][j] + p
    <3>1. j \in Node
      BY DEF Peers
    <3>2. wire'[m][j] = wire[m][j] /\ arrived'[m][j] = arrived[m][j]
      BY <1>5, <2>2, <3>1
    <3>. QED BY <3>2 DEF IInv, LinkInv
  <2>3. /\ arrived'[n][i] <= posted[n]
        /\ read[n][i] <= posted[i]
        /\ Len(wire'[n][i]) = read[n][i] - arrived'[n][i]
        /\ \A p \in 1..Len(wire'[n][i]) : wire'[n][i][p] = arrived'[n][i] + p
    <3>. HIDE DEF w
    <3>1. Len(Tail(w)) = Len(w) - 1 /\ Len(w) > 0 /\ \A p \in 1..(Len(w) - 1) : Tail(w)[p] = w[p + 1]
      BY <1>1, <1>3, <1>4
    <3>2. ASSUME NEW p \in 1..(Len(w) - 1) PROVE Tail(w)[p] = k + p
      <4>1. p + 1 \in 1..Len(w) /\ p \in Nat
        BY <1>3
      <4>2. w[p + 1] = arrived[n][i] + (p + 1)
        BY <1>3, <4>1
      <4>3. Tail(w)[p] = w[p + 1]
        BY <3>1
      <4>4. k = arrived[n][i] + 1 /\ arrived[n][i] \in Nat
        BY <1>3, <1>4
      <4>. QED BY <4>1, <4>2, <4>3, <4>4
    <3>3. arrived'[n][i] = k /\ wire'[n][i] = Tail(w)
      BY <1>5
    <3>. HIDE DEF w
    <3>4. k <= posted[n] /\ read[n][i] <= posted[i]
      BY <1>1, <1>3, <1>4
    <3>5. Len(Tail(w)) = read[n][i] - k
      BY <1>3, <1>4, <3>1
    <3>. QED BY <3>1, <3>2, <3>3, <3>4, <3>5
  <2>. QED BY <2>1, <2>2, <2>3
<1>8. CountInv'
  <2>. SUFFICES ASSUME NEW m \in Node
                PROVE  /\ Gap!Tally(Peers(m), arrived'[m], ids'[m], latest'[m])
                       /\ posted[m] - latest'[m] <= MaxGap
    BY <1>1 DEF CountInv, Gap!Tally
  <2>1. Gap!Tally(Peers(m), arrived[m], ids[m], latest[m]) /\ posted[m] - latest[m] <= MaxGap
    BY DEF IInv, CountInv
  <2>2. CASE m # n
    <3>1. ids'[m] = ids[m] /\ latest'[m] = latest[m] /\ arrived'[m] = arrived[m]
      BY <1>1, <1>4, <2>2 DEF IInv, TypeOK
    <3>. QED BY <2>1, <3>1
  <2>3. CASE m = n
    <3>. DEFINE all == FromAll(n, k)
    <3>1. all \in BOOLEAN /\ (all <=> ids[n][k] + 1 = Lemmas!Cardinality(Peers(n)))
      BY PeersType, SameSets DEF FromAll
    <3>2. /\ \A j \in Peers(n) : arrived'[n][j] = IF j = i THEN k ELSE arrived[n][j]
          /\ \A j \in Peers(n) : arrived[n][j] \in 0..Iters
          /\ latest[n] \in 0..Iters
      BY <1>5 DEF IInv, TypeOK, Peers
    <3>3. \A p \in 0..Iters :
            ids'[n][p] = IF p # k THEN ids[n][p] ELSE IF all THEN 0 ELSE ids[n][k] + 1
      BY <1>1, <1>4 DEF IInv, TypeOK
    <3>4. latest'[n] = IF all THEN k ELSE latest[n]
      BY <1>1, <1>4 DEF IInv, TypeOK
    <3>5. Lemmas!IsFiniteSet(Peers(n)) /\ k <= Iters /\ Iters \in Nat
      BY PeersType, SameSets, SlotsType, <1>4
    <3>6. Lemmas!Tally(Peers(n), arrived[n], ids[n], latest[n])
      BY <2>1, <2>3, SameTally
    <3>. HIDE DEF all
    <3>7. Lemmas!Tally(Peers(n), arrived'[n], ids'[n], latest'[n])
      BY <1>2, <1>4, <3>1, <3>2, <3>3, <3>4, <3>5, <3>6, Lemmas!TallyStep
    <3>8. latest[n] <= latest'[n] /\ latest'[n] \in Nat
      <4>1. latest[n] <= arrived[n][i]
        BY <1>2, <3>6 DEF Lemmas!Tally
      <4>. QED BY <1>3, <1>4, <3>2, <3>4, <4>1
    <3>9. posted[n] - latest'[n] <= MaxGap
      BY <1>3, <2>1, <2>3, <3>2, <3>8, SlotsType
    <3>. QED BY <2>3, <3>7, <3>9, SameTally
  <2>. QED BY <2>2, <2>3
<1>9. ProgressInv' /\ SlotInv' /\ PacketsIntact'
  BY <1>1, <1>5 DEF IInv, ProgressInv, SlotInv, PacketsIntact
<1>. QED BY <1>6, <1>7, <1>8, <1>9 DEF IInv

\* ... and so until everything has arrived.
LEMMA DrainInv == ASSUME IInv, NEW n \in Node, Drain(n) PROVE IInv'
<1>1. /\ pc[n] = "drain" /\ pc' = [pc EXCEPT ![n] = "done"]
      /\ UNCHANGED <<id, slot, posted, read, wire, arrived, intact, ids, latest>>
  BY DEF Drain
<1>2. TypeOK' /\ ProgressInv'
  BY <1>1 DEF IInv, TypeOK, ProgressInv
<1>3. LinkInv' /\ SlotInv' /\ CountInv' /\ PacketsIntact'
  BY <1>1 DEF IInv, LinkInv, SlotInv, CountInv, PacketsIntact
<1>. QED BY <1>2, <1>3 DEF IInv

LEMMA NextInv == ASSUME size > 2, IInv, [Next]_vars PROVE IInv'
<1>1. CASE UNCHANGED vars
  BY <1>1 DEF vars, IInv, TypeOK, ProgressInv, LinkInv, SlotInv, CountInv, PacketsIntact
<1>2. ASSUME NEW n \in Node, Run(n) PROVE IInv'
  BY <1>2, FillInv, PostInv, DrainInv DEF Run
<1>3. ASSUME NEW n \in Node, NEW i \in Node, Transmit(n, i) \/ Deliver(n, i) PROVE IInv'
  BY <1>3, TransmitInv, DeliverInv
<1>. QED BY <1>1, <1>2, <1>3 DEF Next

-----------------------------------------------------------------------------
\* Whatever the order of the callbacks, the map holds what has arrived and every
\* packet that is still to be read is in its slot: with more than two nodes.
THEOREM Invariance == ASSUME size > 2 PROVE Spec => []IInv
<1>. QED BY InitInv, NextInv, PTL DEF Spec

\* ucx_2side_gap_runner.h:72: the slots of m_sent are enough for a transport that
\* reads a packet at any time until its send completes, except between two nodes.
THEOREM NothingIsOverwritten == ASSUME size > 2 PROVE Spec => []PacketsIntact
<1>1. IInv => PacketsIntact
  BY DEF IInv
<1>. QED BY Invariance, <1>1, PTL

\* ucx_2side_gap_runner.h:127: m_latest_complete is the last packet that came from
\* every peer, no more and no less.
THEOREM LatestIsExact == ASSUME size > 2 PROVE Spec => []LatestIsLeast
<1>1. IInv => LatestIsLeast
  BY DEF IInv, CountInv, Gap!Tally, LatestIsLeast
<1>. QED BY Invariance, <1>1, PTL

\* m_received_ids holds no more ids than two gaps.
THEOREM MapIsBounded == ASSUME size > 2 PROVE Spec => []MapBounded
<1>1. IInv => MapBounded
  <2>. SUFFICES ASSUME IInv, NEW n \in Node, NEW k \in 0..Iters, ids[n][k] > 0
                PROVE  latest[n] < k /\ k <= latest[n] + 2 * MaxGap
    BY DEF MapBounded
  <2>1. ids[n][k] = IF k <= latest[n] THEN 0 ELSE Cardinality({i \in Peers(n) : arrived[n][i] >= k})
    BY SameSets DEF IInv, CountInv, Gap!Tally
  <2>2. latest[n] \in Nat /\ k \in Nat
    BY SlotsType DEF IInv, TypeOK
  <2>3. ~(k <= latest[n]) /\ {i \in Peers(n) : arrived[n][i] >= k} # {}
    BY <2>1, FS_EmptySet
  <2>4. PICK i \in Peers(n) : arrived[n][i] >= k
    BY <2>3
  <2>5. arrived[n][i] <= posted[i] /\ posted[i] <= latest[n] + 2 * MaxGap
    BY Numbers, UnderWay
  <2>. QED BY <2>2, <2>3, <2>4, <2>5, Numbers, SlotsType
<1>. QED BY Invariance, <1>1, PTL

\* The runner is a gap runner: what it learns from its map is all that may_send()
\* of the abstract one knows.
LEMMA StepRefines == ASSUME IInv, [Next]_vars PROVE [Gap!Next]_(Gap!vars)
<1>1. CASE UNCHANGED vars
  BY <1>1 DEF vars, Gap!vars
<1>2. ASSUME NEW n \in Node, Fill(n) \/ Drain(n) PROVE UNCHANGED Gap!vars
  BY <1>2 DEF Fill, Drain, Gap!vars
<1>3. ASSUME NEW n \in Node, Post(n) PROVE Gap!Send(n)
  <2>1. /\ pc[n] = "wait" /\ id[n] - latest[n] <= MaxGap
        /\ posted' = [posted EXCEPT ![n] = id[n]] /\ arrived' = arrived
    BY <1>3 DEF Post, MaySend
  <2>2. id[n] = posted[n] + 1 /\ posted[n] < Iters /\ posted[n] \in Nat /\ latest[n] \in Nat
    BY <2>1, SlotsType DEF IInv, TypeOK, ProgressInv
  <2>3. ASSUME NEW i \in Gap!Peers(n) PROVE (posted[n] + 1) - arrived[n][i] <= MaxGap
    <3>1. i \in Peers(n)
      BY DEF Gap!Peers, Peers
    <3>2. latest[n] <= arrived[n][i] /\ arrived[n][i] \in Nat
      BY <3>1, Numbers
    <3>. QED BY <2>1, <2>2, <3>2, SlotsType
  <2>. QED BY <2>1, <2>2, <2>3 DEF Gap!Send, Gap!MaySend
<1>4. ASSUME NEW n \in Node, NEW i \in Node, Transmit(n, i) PROVE UNCHANGED Gap!vars
  BY <1>4 DEF Transmit, Gap!vars
<1>5. ASSUME NEW n \in Node, NEW i \in Node, Deliver(n, i) PROVE Gap!Receive(n, i)
  <2>1. /\ wire[n][i] # <<>> /\ posted' = posted
        /\ arrived' = [arrived EXCEPT ![n][i] = @ + 1]
    BY <1>5 DEF Deliver
  <2>2. i # n /\ i \in Peers(n)
    BY <2>1 DEF IInv, LinkInv, Peers
  <2>3. /\ wire[n][i] \in Seq(Nat) /\ Len(wire[n][i]) = read[n][i] - arrived[n][i]
        /\ read[n][i] \in Nat /\ arrived[n][i] \in Nat /\ posted[i] \in Nat
        /\ read[n][i] <= posted[i]
    BY <2>2, Numbers DEF IInv, LinkInv
  <2>4. Len(wire[n][i]) > 0
    BY <2>1, <2>3
  <2>5. arrived[n][i] < posted[i]
    BY <2>3, <2>4
  <2>. QED BY <2>1, <2>2, <2>5 DEF Gap!Receive, Gap!UnderWay
<1>. QED BY <1>1, <1>2, <1>3, <1>4, <1>5 DEF Next, Run, Gap!Next

\* ucx_2side_gap_runner.h implements the gap window of width m_max_gap.
THEOREM Refinement == ASSUME size > 2 PROVE Spec => RefinesGapWindow
<1>1. Init => Gap!Init
  BY DEF Init, Gap!Init
<1>. QED BY Invariance, StepRefines, <1>1, PTL DEF Spec, Gap!Spec, RefinesGapWindow
=============================================================================
