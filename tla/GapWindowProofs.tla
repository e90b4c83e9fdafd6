--------------------------- MODULE GapWindowProofs ---------------------------
(* The theorems about GapWindow, for any number of nodes, any window and   *)
(* any number of packets.                                                  *)
EXTENDS GapWindow, TLAPS, FiniteSetTheorems, WellFoundedInduction

\* The invariant holds at the start ...
LEMMA InitInv == ASSUME GapAssumption PROVE Init => IInv
  BY DEF GapAssumption, Init, IInv, TypeOK, WindowInv

\* ... a packet is sent only inside the window ...
LEMMA SendInv ==
  ASSUME GapAssumption, IInv, NEW n \in Node, Send(n)
  PROVE  IInv'
<1>1. /\ sent' = [sent EXCEPT ![n] = @ + 1] /\ received' = received
      /\ sent[n] < Iters /\ MaySend(n)
  BY DEF Send
<1>2. TypeOK'
  BY <1>1 DEF GapAssumption, IInv, TypeOK
<1>3. WindowInv'
  <2>. SUFFICES ASSUME NEW m \in Node, NEW i \in Node, i # m
                PROVE  /\ received'[m][i] <= sent'[i]
                       /\ sent'[m] - received'[m][i] <= Window
    BY DEF WindowInv
  <2>1. /\ sent[m] \in Nat /\ sent[i] \in Nat /\ received[m][i] \in Nat /\ Window \in Nat
        /\ received[m][i] <= sent[i] /\ sent[m] - received[m][i] <= Window
    BY DEF GapAssumption, IInv, TypeOK, WindowInv
  <2>2. sent'[i] = sent[i] \/ sent'[i] = sent[i] + 1
    BY <1>1 DEF IInv, TypeOK
  <2>3. CASE m = n
    <3>1. (sent[n] + 1) - received[n][i] <= Window
      BY <1>1, <2>3 DEF MaySend, Peers
    <3>. QED BY <1>1, <2>1, <2>2, <2>3, <3>1 DEF IInv, TypeOK
  <2>4. CASE m # n
    BY <1>1, <2>1, <2>2, <2>4 DEF IInv, TypeOK
  <2>. QED BY <2>3, <2>4
<1>. QED BY <1>2, <1>3 DEF IInv

\* ... and receiving one only makes room.
LEMMA ReceiveInv ==
  ASSUME GapAssumption, IInv, NEW n \in Node, NEW i \in Node, Receive(n, i)
  PROVE  IInv'
<1>1. /\ received' = [received EXCEPT ![n][i] = @ + 1] /\ sent' = sent
      /\ received[n][i] < sent[i]
  BY DEF Receive, UnderWay
<1>2. /\ received'[n][i] = received[n][i] + 1
      /\ \A m, k \in Node : m # n \/ k # i => received'[m][k] = received[m][k]
      /\ \A m, k \in Node : received[m][k] \in 0..Iters
      /\ \A m \in Node : sent[m] \in 0..Iters
  BY <1>1 DEF IInv, TypeOK
<1>3. TypeOK'
  BY <1>1 DEF GapAssumption, IInv, TypeOK
<1>4. WindowInv'
  BY <1>1, <1>2 DEF GapAssumption, IInv, WindowInv
<1>. QED BY <1>3, <1>4 DEF IInv

\* Every packet under way fits in the window of the node it is for.
THEOREM Invariance == ASSUME GapAssumption PROVE Spec => []IInv
<1>1. IInv /\ [Next]_vars => IInv'
  <2>. SUFFICES ASSUME IInv, [Next]_vars PROVE IInv'
    OBVIOUS
  <2>1. CASE UNCHANGED vars
    BY <2>1 DEF vars, IInv, TypeOK, WindowInv
  <2>2. ASSUME NEW n \in Node, Send(n) PROVE IInv'
    BY <2>2, SendInv
  <2>3. ASSUME NEW n \in Node, NEW i \in Node, Receive(n, i) PROVE IInv'
    BY <2>3, ReceiveInv
  <2>. QED BY <2>1, <2>2, <2>3 DEF Next
<1>. QED BY InitInv, <1>1, PTL DEF Spec

\* The bounds that follow from the invariant.
LEMMA Bounds ==
  ASSUME GapAssumption, IInv, NEW i \in Node, NEW j \in Node, i # j
  PROVE  /\ sent[i] \in Nat /\ sent[j] \in Nat /\ received[i][j] \in Nat /\ received[j][i] \in Nat
         /\ sent[i] - sent[j] <= Window
         /\ sent[i] - received[j][i] <= 2 * Window
<1>1. /\ sent[i] \in Nat /\ sent[j] \in Nat /\ received[i][j] \in Nat /\ received[j][i] \in Nat
      /\ Window \in Nat
  BY DEF GapAssumption, IInv, TypeOK
<1>2. /\ received[i][j] <= sent[j] /\ sent[i] - received[i][j] <= Window
      /\ sent[j] - received[j][i] <= Window
  BY DEF IInv, WindowInv
<1>. QED BY <1>1, <1>2

\* No node gets more than a window ahead of any other.
THEOREM SkewIsBounded == ASSUME GapAssumption PROVE Spec => []SkewBounded
<1>1. IInv => SkewBounded
  <2>. SUFFICES ASSUME IInv, NEW i \in Node, NEW j \in Node
                PROVE  sent[i] - sent[j] <= Window
    BY DEF SkewBounded
  <2>1. CASE i # j
    BY <2>1, Bounds
  <2>2. CASE i = j
    BY <2>2 DEF GapAssumption, IInv, TypeOK
  <2>. QED BY <2>1, <2>2
<1>. QED BY Invariance, <1>1, PTL

\* At most two windows of packets are under way between two nodes.
THEOREM InFlightIsBounded == ASSUME GapAssumption PROVE Spec => []InFlightBounded
<1>1. IInv => InFlightBounded
  BY Bounds DEF InFlightBounded
<1>. QED BY Invariance, <1>1, PTL

\* Two windows of buffers are enough for a sender that asks may_send() before
\* it writes to a buffer.
THEOREM TwoWindowsAreEnough == ASSUME GapAssumption PROVE Spec => []RoomToSend
<1>1. IInv => RoomToSend
  <2>. SUFFICES ASSUME IInv, NEW n \in Node, MaySend(n), NEW j \in Peers(n)
                PROVE  (sent[n] + 1) - received[j][n] <= 2 * Window
    BY DEF RoomToSend
  <2>1. j \in Node /\ j # n /\ (sent[n] + 1) - received[n][j] <= Window
    BY DEF MaySend, Peers
  <2>2. /\ received[n][j] <= sent[j] /\ sent[j] - received[j][n] <= Window
    BY <2>1 DEF IInv, WindowInv
  <2>3. /\ sent[n] \in Nat /\ sent[j] \in Nat /\ received[n][j] \in Nat
        /\ received[j][n] \in Nat /\ Window \in Nat
    BY <2>1 DEF GapAssumption, IInv, TypeOK
  <2>. QED BY <2>1, <2>2, <2>3
<1>. QED BY Invariance, <1>1, PTL

\* There is a node that is behind nobody: what is below each of the numbers is a
\* set, and sets are ordered by inclusion, which is well-founded on finite sets.
LEMMA SomeLeast ==
  ASSUME NEW S, S # {}, NEW bound \in Nat, NEW f \in [S -> 0..bound]
  PROVE  \E n \in S : \A m \in S : f[n] <= f[m]
<1>. DEFINE U == 1..bound
            P(n) == {k \in U : k <= f[n]}
            R == StrictSubsetOrdering(U)
            T == {P(n) : n \in S}
<1>1. IsWellFoundedOn(R, SUBSET U)
  <2>1. IsFiniteSet(U)
    BY FS_Interval
  <2>. QED BY <2>1, FS_StrictSubsetOrderingWellFounded, FS_FiniteSubsetsOfFinite
<1>2. T \subseteq SUBSET U /\ T # {}
  OBVIOUS
<1>3. PICK x \in T : \A y \in T : ~ (<<y, x>> \in R)
  <2>. HIDE DEF R, T
  <2>. QED BY <1>1, <1>2, WFMin
<1>4. PICK n \in S : x = P(n)
  OBVIOUS
<1>5. ASSUME NEW m \in S PROVE f[n] <= f[m]
  <2>1. f[n] \in 0..bound /\ f[m] \in 0..bound
    OBVIOUS
  <2>. SUFFICES ASSUME f[m] < f[n] PROVE FALSE
    BY <2>1
  <2>2. P(m) \subseteq P(n)
    BY <2>1
  <2>3. f[n] \in P(n) /\ f[n] \notin P(m)
    BY <2>1
  <2>4. <<P(m), P(n)>> \in R
    BY <2>2, <2>3 DEF StrictSubsetOrdering
  <2>. QED BY <1>3, <1>4, <2>4
<1>. QED BY <1>5

\* The runners never wait for each other in a circle.
THEOREM NoCircularWait == ASSUME GapAssumption PROVE Spec => []NeverStuck
<1>1. IInv => NeverStuck
  <2>. SUFFICES ASSUME IInv,
                       \A n, i \in Node : i # n => ~(received[n][i] < sent[i]),
                       \A n \in Node : ~(sent[n] < Iters /\ MaySend(n))
                PROVE  Done
    BY DEF NeverStuck
  <2>1. \A n, i \in Node : i # n => received[n][i] = sent[i]
    <3>1. \A n, i \in Node : received[n][i] \in Int /\ sent[i] \in Int
      BY DEF GapAssumption, IInv, TypeOK
    <3>2. \A n, i \in Node : i # n => received[n][i] <= sent[i]
      BY DEF IInv, WindowInv
    <3>. QED BY <3>1, <3>2
  <2>2. PICK n \in Node : \A m \in Node : sent[n] <= sent[m]
    <3>1. Node # {} /\ Iters \in Nat
      BY FS_EmptySet DEF GapAssumption
    <3>. QED BY <3>1, SomeLeast DEF IInv, TypeOK
  <2>3. MaySend(n)
    <3>. SUFFICES ASSUME NEW i \in Peers(n) PROVE (sent[n] + 1) - received[n][i] <= Window
      BY DEF MaySend
    <3>1. /\ i \in Node /\ received[n][i] = sent[i] /\ sent[n] <= sent[i]
          /\ sent[i] \in Nat /\ sent[n] \in Nat /\ Window \in Nat /\ Window >= 1
      BY <2>1, <2>2 DEF GapAssumption, IInv, TypeOK, Peers
    <3>. QED BY <3>1
  <2>4. \A m \in Node : sent[m] = Iters
    <3>1. ~(sent[n] < Iters) /\ \A m \in Node : sent[n] <= sent[m]
      BY <2>2, <2>3
    <3>2. \A m \in Node : sent[m] \in Int /\ sent[m] <= Iters /\ Iters \in Int
      BY DEF GapAssumption, IInv, TypeOK
    <3>. QED BY <3>1, <3>2
  <2>. QED BY <2>1, <2>4 DEF Done
<1>. QED BY Invariance, <1>1, PTL

-----------------------------------------------------------------------------
(* Lemmas for the runners that implement this module: the slots of their   *)
(* rings, and what they count.                                             *)

\* The remainder is what is left of any multiple ...
LEMMA ModUnique ==
  ASSUME NEW a \in Nat, NEW S \in Nat, NEW q \in Int, NEW r \in Int,
         0 <= r, r < S, a = S * q + r
  PROVE  a % S = r
<1>. DEFINE p == a \div S
<1>1. p \in Int /\ a = S * p + (a % S) /\ a % S \in Int /\ 0 <= a % S /\ a % S < S
  OBVIOUS
<1>2. S * (p - q) = r - (a % S)
  BY <1>1
<1>3. CASE p = q
  BY <1>1, <1>3
<1>4. CASE p - q >= 1
  <2>1. S * (p - q) >= S
    BY <1>1, <1>4
  <2>. QED BY <1>1, <1>2, <2>1
<1>5. CASE q - p >= 1
  <2>1. S * (q - p) >= S
    BY <1>1, <1>5
  <2>2. S * (q - p) = (a % S) - r
    BY <1>1
  <2>. QED BY <1>1, <2>1, <2>2
<1>. QED BY <1>1, <1>3, <1>4, <1>5

\* ... so that consecutive packets take consecutive slots ...
LEMMA ModNext ==
  ASSUME NEW a \in Nat, NEW S \in Nat, S > 0
  PROVE  /\ a % S \in 0..(S - 1)
         /\ ((a % S) + 1) % S = (a + 1) % S
<1>. DEFINE q == a \div S
            r == a % S
<1>1. q \in Int /\ r \in Int /\ a = S * q + r /\ 0 <= r /\ r < S
  OBVIOUS
<1>. HIDE DEF q, r
<1>2. CASE r + 1 < S
  <2>1. a + 1 = S * q + (r + 1)
    BY <1>1
  <2>2. (a + 1) % S = r + 1
    BY <1>1, <1>2, <2>1, ModUnique
  <2>3. (r + 1) % S = r + 1
    BY <1>1, <1>2
  <2>. QED BY <1>1, <2>2, <2>3 DEF r
<1>3. CASE r + 1 = S
  <2>1. a + 1 = S * (q + 1) + 0
    BY <1>1, <1>3
  <2>2. (a + 1) % S = 0
    <3>1. a + 1 \in Nat /\ q + 1 \in Int /\ 0 \in Int /\ 0 < S
      BY <1>1
    <3>. QED BY <2>1, <3>1, ModUnique
  <2>3. (r + 1) % S = 0
    BY <1>3
  <2>. QED BY <1>1, <2>2, <2>3 DEF r
<1>. QED BY <1>1, <1>2, <1>3

\* ... and packets that are less than S apart take different ones of S slots.
LEMMA ModDiffers ==
  ASSUME NEW a \in Nat, NEW b \in Nat, NEW S \in Nat, a < b, b - a < S
  PROVE  a % S # b % S
<1>. DEFINE p == a \div S
            q == b \div S
<1>1. p \in Int /\ q \in Int /\ a = S * p + (a % S) /\ b = S * q + (b % S)
  OBVIOUS
<1>2. SUFFICES ASSUME a % S = b % S PROVE FALSE
  OBVIOUS
<1>3. b - a = S * (q - p)
  BY <1>1, <1>2
<1>4. CASE q - p <= 0
  <2>1. S * (q - p) <= 0
    BY <1>1, <1>4
  <2>. QED BY <1>3, <2>1
<1>5. CASE q - p >= 1
  <2>1. S * (q - p) >= S
    BY <1>1, <1>5
  <2>. QED BY <1>3, <2>1
<1>. QED BY <1>1, <1>4, <1>5

\* A tally starts empty ...
LEMMA TallyInit ==
  ASSUME NEW peers, IsFiniteSet(peers), peers # {}, Iters \in Nat,
         NEW got, \A i \in peers : got[i] = 0,
         NEW count, \A k \in 0..Iters : count[k] = 0
  PROVE  Tally(peers, got, count, 0)
<1>1. \A k \in 0..Iters : ~(k <= 0) => {i \in peers : got[i] >= k} = {}
  OBVIOUS
<1>. QED BY <1>1, FS_EmptySet DEF Tally

\* ... and counts the next packet of a peer, which is the last of its number only
\* if it is the one after the latest.
LEMMA TallyStep ==
  ASSUME NEW peers, IsFiniteSet(peers), Iters \in Nat,
         NEW got, NEW got2, NEW count, NEW count2, NEW latest \in 0..Iters, NEW latest2,
         NEW i \in peers, NEW k, NEW all \in BOOLEAN,
         \A j \in peers : got[j] \in 0..Iters,
         Tally(peers, got, count, latest),
         k = got[i] + 1, k <= Iters,
         all <=> count[k] + 1 = Cardinality(peers),
         \A j \in peers : got2[j] = IF j = i THEN k ELSE got[j],
         \A m \in 0..Iters :
           count2[m] = IF m # k THEN count[m] ELSE IF all THEN 0 ELSE count[k] + 1,
         latest2 = IF all THEN k ELSE latest
  PROVE  Tally(peers, got2, count2, latest2)
<1>. DEFINE From(m) == {j \in peers : got[j] >= m}
            From2(m) == {j \in peers : got2[j] >= m}
<1>1. /\ \A j \in peers : latest <= got[j]
      /\ \A m \in 0..Iters : count[m] = IF m <= latest THEN 0 ELSE Cardinality(From(m))
  BY DEF Tally
<1>2. PICK j0 \in peers : latest = got[j0]
  BY DEF Tally
<1>3. /\ k \in 1..Iters /\ latest \in Nat /\ latest < k
      /\ \A j \in peers : got[j] \in Nat
  BY <1>1
<1>4. \A m \in 0..Iters : m # k => From2(m) = From(m)
  BY <1>3
<1>5. From2(k) = From(k) \cup {i} /\ i \notin From(k)
  BY <1>3
<1>6. \A m : IsFiniteSet(From(m)) /\ IsFiniteSet(From2(m))
  BY FS_Subset
<1>7. count[k] = Cardinality(From(k)) /\ Cardinality(From2(k)) = count[k] + 1
  <2>1. count[k] = Cardinality(From(k))
    BY <1>1, <1>3
  <2>. HIDE DEF From, From2
  <2>. QED BY <2>1, <1>5, <1>6, FS_AddElement
<1>8. all <=> From2(k) = peers
  <2>1. From2(k) \subseteq peers
    OBVIOUS
  <2>. HIDE DEF From, From2
  <2>. QED BY <2>1, <1>7, FS_Subset
<1>9. CASE all
  <2>1. \A j \in peers : got2[j] >= k
    BY <1>8, <1>9
  <2>2. j0 = i \/ got[j0] >= k
    BY <2>1
  <2>3. latest = k - 1
    BY <1>2, <1>3, <2>2
  <2>4. \A m \in 0..Iters : m <= k <=> (m <= latest \/ m = k)
    BY <1>3, <2>3
  <2>5. \A m \in 0..Iters : count2[m] = IF m <= k THEN 0 ELSE Cardinality(From2(m))
    <3>. HIDE DEF From, From2
    <3>. QED BY <1>1, <1>4, <1>9, <2>4
  <2>. QED BY <1>9, <2>1, <2>5 DEF Tally
<1>10. CASE ~all
  <2>1. \E j \in peers : got2[j] = latest
    <3>1. PICK j \in peers : ~(got2[j] >= k)
      BY <1>8, <1>10
    <3>2. j # i /\ got[j] < k
      BY <1>3, <3>1
    <3>3. CASE j0 # i
      BY <1>2, <3>3
    <3>4. CASE j0 = i
      <4>1. latest = k - 1
        BY <1>2, <1>3, <3>4
      <4>. QED BY <1>1, <1>3, <3>2, <4>1
    <3>. QED BY <3>3, <3>4
  <2>2. \A j \in peers : latest <= got2[j]
    BY <1>1, <1>3
  <2>3. \A m \in 0..Iters : count2[m] = IF m <= latest THEN 0 ELSE Cardinality(From2(m))
    <3>. HIDE DEF From, From2
    <3>. QED BY <1>1, <1>3, <1>4, <1>7, <1>10
  <2>. QED BY <1>10, <2>1, <2>2, <2>3 DEF Tally
<1>. QED BY <1>9, <1>10
=============================================================================
