-------------------------- MODULE MpiGapRunnerProofs --------------------------
(* The theorems about MpiGapRunner, for any number of nodes, any gap and   *)
(* any number of packets.                                                  *)
EXTENDS MpiGapRunner, TLAPS, FiniteSetTheorems

\* The lemmas that all gap runners share.
Lemmas == INSTANCE GapWindowProofs WITH Window <- MaxGap + 1, received <- matched

\* They are about the same sets, and about the tally of this module.
LEMMA SameSets ==
  ASSUME NEW S
  PROVE  /\ Gap!Cardinality(S) = Cardinality(S) /\ Lemmas!Cardinality(S) = Cardinality(S)
         /\ Lemmas!IsFiniteSet(S) <=> IsFiniteSet(S)
<1>1. Gap!Cardinality(S) = Cardinality(S)
  BY DEF Gap!Cardinality, Cardinality
<1>2. Lemmas!Cardinality(S) = Cardinality(S)
  BY DEF Lemmas!Cardinality, Cardinality
<1>3. Lemmas!IsFiniteSet(S) <=> IsFiniteSet(S)
  BY DEF Lemmas!IsFiniteSet, IsFiniteSet
<1>. QED BY <1>1, <1>2, <1>3

LEMMA SameTally ==
  ASSUME NEW peers, NEW got, NEW count, NEW last
  PROVE  Gap!Tally(peers, got, count, last) <=> Lemmas!Tally(peers, got, count, last)
  BY SameSets DEF Gap!Tally, Lemmas!Tally

\* A node has as many peers as it waits for.
LEMMA PeersType ==
  ASSUME NEW n \in Node
  PROVE  /\ IsFiniteSet(Peers(n)) /\ Cardinality(Peers(n)) = size - 1 /\ Peers(n) # {}
         /\ size \in Nat /\ size > 1 /\ MaxGap \in Nat /\ Iters \in Nat
<1>1. size \in Nat /\ size > 1 /\ MaxGap \in Nat /\ Iters \in Nat
  BY MpiAssumption, FS_CardinalityType DEF size
<1>2. IsFiniteSet(Peers(n)) /\ Cardinality(Peers(n)) = size - 1
  BY MpiAssumption, FS_RemoveElement DEF Peers, size
<1>. QED BY <1>1, <1>2, FS_EmptySet

\* All packets of all peers are as many as the node expects ...
LEMMA ExpectedIsAll ==
  ASSUME NEW n \in Node, NEW f
  PROVE  /\ IsFiniteSet(UpTo(n, f)) /\ Cardinality(UpTo(n, f)) \in Nat
         /\ Cardinality(UpTo(n, f)) <= Expected
         /\ Cardinality(UpTo(n, f)) = Expected => UpTo(n, f) = Peers(n) \X (1..Iters)
<1>1. IsFiniteSet(1..Iters) /\ Cardinality(1..Iters) = Iters
  <2>1. Iters \in Nat
    BY PeersType
  <2>. QED BY <2>1, FS_Interval
<1>2. /\ IsFiniteSet(Peers(n) \X (1..Iters))
      /\ Cardinality(Peers(n) \X (1..Iters)) = Expected
  <2>1. Cardinality(Peers(n) \X (1..Iters)) = (size - 1) * Iters /\ IsFiniteSet(Peers(n) \X (1..Iters))
    BY <1>1, PeersType, FS_Product
  <2>2. (size - 1) * Iters = Iters * (size - 1)
    BY PeersType
  <2>. QED BY <2>1, <2>2 DEF Expected
<1>3. UpTo(n, f) \in SUBSET (Peers(n) \X (1..Iters))
  BY DEF UpTo
<1>. QED BY <1>2, <1>3, FS_Subset, FS_CardinalityType

\* ... and one more of a peer is one more in all.
LEMMA OneMore ==
  ASSUME NEW n \in Node, NEW f \in [Node -> 0..Iters], NEW i \in Peers(n), f[i] + 1 \in 0..Iters
  PROVE  Cardinality(UpTo(n, [f EXCEPT ![i] = f[i] + 1])) = Cardinality(UpTo(n, f)) + 1
<1>. DEFINE g == [f EXCEPT ![i] = f[i] + 1]
<1>1. f[i] \in Nat /\ i \in Node /\ Iters \in Nat /\ \A j \in Peers(n) : j \in Node /\ f[j] \in Nat
  <2>1. Iters \in Nat /\ i \in Node
    BY MpiAssumption DEF Peers
  <2>2. \A j \in Node : f[j] \in Nat
    BY <2>1
  <2>. QED BY <2>1, <2>2 DEF Peers
<1>2. g[i] = f[i] + 1 /\ \A j \in Node : j # i => g[j] = f[j]
  BY <1>1
<1>. HIDE DEF g
<1>3. UpTo(n, g) = UpTo(n, f) \cup {<<i, f[i] + 1>>}
  <2>1. ASSUME NEW j \in Peers(n), NEW k \in 1..Iters
        PROVE  k <= g[j] <=> (k <= f[j] \/ (j = i /\ k = f[i] + 1))
    BY <1>1, <1>2
  <2>2. f[i] + 1 \in 1..Iters
    BY <1>1
  <2>. QED BY <2>1, <2>2 DEF UpTo
<1>4. <<i, f[i] + 1>> \notin UpTo(n, f)
  BY <1>1 DEF UpTo
<1>. QED BY <1>3, <1>4, ExpectedIsAll, FS_AddElement DEF g

\* What the receive has, and what the loop has, changes nothing for the others.
LEMMA Taken ==
  ASSUME NEW n \in Node, NEW c \in [Node -> 0..Iters], NEW d \in [Node -> 0..Iters],
         NEW underWay, NEW k, Taking(underWay, n, c, d, k)
  PROVE  \A i \in Node : c[i] <= d[i]
<1>1. \A i \in Node : c[i] \in Nat /\ d[i] \in Nat
  BY PeersType
<1>. QED BY <1>1 DEF Taking

\* The accounts of a node change only with its own state.
LEMMA Frame ==
  ASSUME NEW m \in Node, NEW taken, Accounts(m, taken),
         request'[m] = request[m], matched'[m] = matched[m], receives'[m] = receives[m],
         (pc'[m] = "count") = (pc[m] = "count"), value'[m] = value[m],
         ids'[m] = ids[m], latest'[m] = latest[m]
  PROVE  Accounts(m, taken)'
BY DEF Accounts, Taking, UpTo, Gap!Tally

\* ... to what its next state says.
LEMMA NextAccounts ==
  ASSUME NEW n \in Node, NEW taken,
         Taking(request'[n] # 0, n, taken, matched'[n], request'[n]),
         receives'[n] = Cardinality(UpTo(n, taken)),
         ~Static => \E counted \in [Node -> 0..Iters] :
           /\ Taking(pc'[n] = "count", n, counted, taken, value'[n])
           /\ Gap!Tally(Peers(n), counted, ids'[n], latest'[n])
  PROVE  Accounts(n, taken)'
BY DEF Accounts, Taking, UpTo, Gap!Tally

-----------------------------------------------------------------------------
\* The invariant holds at the start ...
LEMMA InitInv == Init => IInv
<1>. SUFFICES ASSUME Init PROVE IInv
  OBVIOUS
<1>. DEFINE zero == [i \in Node |-> 0]
<1>1. Iters \in Nat /\ MaxGap \in Nat
  BY MpiAssumption
<1>2. TypeOK
  BY <1>1 DEF Init, TypeOK
<1>3. ProgressInv
  BY <1>1 DEF Init, ProgressInv
<1>4. LinkInv
  BY <1>1 DEF Init, LinkInv, Peers
<1>5. CountInv
  <2>. SUFFICES ASSUME NEW n \in Node PROVE Accounts(n, zero)
    BY <1>1 DEF CountInv
  <2>1. /\ request[n] = 0 /\ matched[n] = zero /\ pc[n] # "count" /\ receives[n] = 0
        /\ \A k \in 0..Iters : ids[n][k] = 0
        /\ latest[n] = 0
    BY DEF Init
  <2>2. UpTo(n, zero) = {}
    BY DEF UpTo, Peers
  <2>3. Gap!Tally(Peers(n), zero, ids[n], latest[n])
    <3>1. \A i \in Peers(n) : zero[i] = 0
      BY DEF Peers
    <3>2. Lemmas!IsFiniteSet(Peers(n)) /\ Peers(n) # {}
      BY PeersType, SameSets
    <3>. HIDE DEF zero
    <3>3. Lemmas!Tally(Peers(n), zero, ids[n], 0)
      BY <1>1, <2>1, <3>1, <3>2, Lemmas!TallyInit
    <3>. QED BY <2>1, <3>3, SameTally
  <2>4. zero \in [Node -> 0..Iters]
    BY <1>1
  <2>. HIDE DEF zero
  <2>. QED BY <2>1, <2>2, <2>3, <2>4, FS_EmptySet DEF Accounts, Taking
<1>. QED BY <1>2, <1>3, <1>4, <1>5 DEF IInv

\* ... a packet is sent inside the window ...
LEMMA SendInv == ASSUME IInv, NEW n \in Node, Send(n) PROVE IInv'
<1>1. /\ pc[n] = "top" /\ pc' = [pc EXCEPT ![n] = "test"]
      /\ sent' = IF (sent[n] + 1) - latest[n] <= MaxGap + 1
                 THEN [sent EXCEPT ![n] = sent[n] + 1] ELSE sent
      /\ UNCHANGED <<matched, request, value, receives, ids, latest>>
  BY DEF Send, MaySend, NextPacket
<1>2. sent[n] < Iters /\ sent[n] \in Nat /\ latest[n] \in Nat /\ Iters \in Nat /\ MaxGap \in Nat
  BY <1>1, MpiAssumption DEF IInv, ProgressInv, TypeOK
<1>3. /\ \A m \in Node : m # n => sent'[m] = sent[m] /\ pc'[m] = pc[m]
      /\ pc'[n] = "test"
      /\ sent'[n] = sent[n] \/ (sent'[n] = sent[n] + 1 /\ (sent[n] + 1) - latest[n] <= MaxGap + 1)
  BY <1>1 DEF IInv, TypeOK
<1>4. TypeOK'
  <2>1. sent' \in [Node -> 0..Iters]
    <3>1. sent[n] + 1 \in 0..Iters
      BY <1>2
    <3>. QED BY <1>1, <3>1 DEF IInv, TypeOK
  <2>. QED BY <1>1, <2>1 DEF IInv, TypeOK
<1>5. ProgressInv'
  BY <1>1, <1>3 DEF IInv, ProgressInv
<1>6. LinkInv'
  <2>1. \A m \in Node : sent[m] \in Nat /\ sent[m] <= sent'[m] /\ sent'[m] \in Nat
    <3>. SUFFICES ASSUME NEW m \in Node PROVE sent[m] \in Nat /\ sent[m] <= sent'[m] /\ sent'[m] \in Nat
      OBVIOUS
    <3>1. sent[m] \in 0..Iters
      BY DEF IInv, TypeOK
    <3>. QED BY <1>2, <1>3, <3>1
  <2>2. \A m \in Node : \A i \in Peers(m) : i \in Node /\ matched[m][i] \in Nat
    BY <1>2 DEF IInv, TypeOK, Peers
  <2>. QED BY <1>1, <1>3, <2>1, <2>2 DEF IInv, LinkInv
<1>7. CountInv'
  <2>. SUFFICES ASSUME NEW m \in Node PROVE \E taken \in [Node -> 0..Iters] : Accounts(m, taken)'
    BY DEF CountInv
  <2>1. PICK taken \in [Node -> 0..Iters] : Accounts(m, taken)
    BY DEF IInv, CountInv
  <2>2. (pc'[m] = "count") = (pc[m] = "count")
    BY <1>1, <1>3
  <2>. QED BY <1>1, <2>1, <2>2, Frame
<1>. QED BY <1>4, <1>5, <1>6, <1>7 DEF IInv

\* ... it meets a receive, and is all that the node has not counted ...
LEMMA MatchInv == ASSUME IInv, NEW n \in Node, NEW i \in Node, Match(n, i) PROVE IInv'
<1>. DEFINE k == matched[n][i] + 1
<1>1. /\ i # n /\ request[n] = 0 /\ matched[n][i] < sent[i]
      /\ matched' = [matched EXCEPT ![n][i] = k]
      /\ request' = [request EXCEPT ![n] = k]
      /\ value' = IF Static THEN [value EXCEPT ![n] = k] ELSE value
      /\ UNCHANGED <<pc, sent, receives, ids, latest>>
  BY DEF Match
<1>2. /\ i \in Peers(n) /\ matched[n][i] \in Nat /\ k \in 1..Iters /\ k <= sent[i]
      /\ matched[n] \in [Node -> 0..Iters] /\ sent[i] \in Nat /\ sent[i] <= Iters
  <2>1. /\ matched[n][i] \in 0..Iters /\ sent[i] \in 0..Iters /\ Iters \in Nat
        /\ matched[n] \in [Node -> 0..Iters]
    BY MpiAssumption DEF IInv, TypeOK
  <2>. QED BY <1>1, <2>1 DEF Peers
<1>3. /\ matched'[n] = [matched[n] EXCEPT ![i] = k] /\ request'[n] = k
      /\ matched'[n][i] = k
      /\ \A m, j \in Node : m # n \/ j # i => matched'[m][j] = matched[m][j]
      /\ \A m \in Node : m # n => matched'[m] = matched[m] /\ request'[m] = request[m] /\ value'[m] = value[m]
  BY <1>1 DEF IInv, TypeOK
<1>4. TypeOK'
  <2>1. k \in 0..Iters
    BY <1>2, MpiAssumption
  <2>. HIDE DEF k
  <2>2. /\ matched' \in [Node -> [Node -> 0..Iters]] /\ request' \in [Node -> 0..Iters]
        /\ value' \in [Node -> 0..Iters]
    BY <1>1, <2>1 DEF IInv, TypeOK
  <2>. QED BY <1>1, <2>2 DEF IInv, TypeOK
<1>5. LinkInv'
  <2>. SUFFICES ASSUME NEW m \in Node, NEW j \in Peers(m) PROVE matched'[m][j] <= sent[j]
    BY <1>1 DEF IInv, LinkInv
  <2>1. CASE m = n /\ j = i
    BY <1>2, <1>3, <2>1
  <2>2. CASE ~(m = n /\ j = i)
    BY <1>3, <2>2 DEF IInv, LinkInv, Peers
  <2>. QED BY <2>1, <2>2
<1>6. ProgressInv'
  <2>1. \A m \in Node : \A j \in Peers(m) : matched[m][j] = Iters => matched'[m][j] = Iters
    <3>1. matched[n][i] # Iters
      BY <1>1, <1>2
    <3>. QED BY <1>3, <3>1 DEF Peers
  <2>2. \A m \in Node : \A j \in Peers(m) : j \in Node /\ m \in Peers(j)
    BY DEF Peers
  <2>. QED BY <1>1, <2>1, <2>2 DEF IInv, ProgressInv
<1>7. CountInv'
  <2>. SUFFICES ASSUME NEW m \in Node PROVE \E taken \in [Node -> 0..Iters] : Accounts(m, taken)'
    BY DEF CountInv
  <2>1. PICK taken \in [Node -> 0..Iters] : Accounts(m, taken)
    BY DEF IInv, CountInv
  <2>2. CASE m # n
    BY <1>1, <1>3, <2>1, <2>2, Frame
  <2>3. CASE m = n
    <3>1. taken = matched[n]
      BY <1>1, <2>1, <2>3 DEF Accounts, Taking
    <3>2. Taking(TRUE, n, taken, matched'[n], k)
      BY <1>2, <1>3, <3>1 DEF Taking
    <3>3. /\ receives'[n] = Cardinality(UpTo(n, taken))
          /\ ~Static => \E counted \in [Node -> 0..Iters] :
               /\ Taking(pc'[n] = "count", n, counted, taken, value'[n])
               /\ Gap!Tally(Peers(n), counted, ids'[n], latest'[n])
      BY <1>1, <2>1, <2>3 DEF Accounts
    <3>4. Taking(request'[n] # 0, n, taken, matched'[n], request'[n])
      <4>1. request'[n] = k /\ k # 0
        BY <1>2, <1>3
      <4>. HIDE DEF k
      <4>. QED BY <3>2, <4>1 DEF Taking
    <3>5. Accounts(n, taken)'
      BY <3>3, <3>4, NextAccounts
    <3>. QED BY <2>3, <3>5
  <2>. QED BY <2>2, <2>3
<1>. QED BY <1>4, <1>5, <1>6, <1>7 DEF IInv

\* ... until the loop tests the receive, and has it instead ...
LEMMA TestFailsInv == ASSUME IInv, NEW n \in Node, TestFails(n) PROVE IInv'
<1>1. /\ pc[n] = "test" /\ pc' = [pc EXCEPT ![n] = After(n)]
      /\ UNCHANGED <<sent, matched, request, value, receives, ids, latest>>
  BY DEF TestFails
<1>2. After(n) \in {"top", "rest"} /\ (After(n) = "top" => sent[n] < Iters) /\ (After(n) = "rest" => sent[n] = Iters)
  BY MpiAssumption DEF After, IInv, TypeOK
<1>3. pc'[n] = After(n) /\ \A m \in Node : m # n => pc'[m] = pc[m]
  BY <1>1 DEF IInv, TypeOK
<1>4. TypeOK' /\ ProgressInv'
  BY <1>1, <1>2, <1>3 DEF IInv, TypeOK, ProgressInv
<1>5. LinkInv'
  BY <1>1 DEF IInv, LinkInv
<1>6. CountInv'
  <2>. SUFFICES ASSUME NEW m \in Node PROVE \E taken \in [Node -> 0..Iters] : Accounts(m, taken)'
    BY DEF CountInv
  <2>1. PICK taken \in [Node -> 0..Iters] : Accounts(m, taken)
    BY DEF IInv, CountInv
  <2>2. (pc'[m] = "count") = (pc[m] = "count")
    BY <1>1, <1>2, <1>3
  <2>. QED BY <1>1, <2>1, <2>2, Frame
<1>. QED BY <1>4, <1>5, <1>6 DEF IInv

LEMMA TestSucceedsInv == ASSUME IInv, NEW n \in Node, TestSucceeds(n) PROVE IInv'
<1>. DEFINE k == request[n]
<1>1. /\ pc[n] \in {"test", "rest"} /\ k # 0
      /\ value' = IF Static THEN value ELSE [value EXCEPT ![n] = k]
      /\ request' = [request EXCEPT ![n] = 0]
      /\ receives' = [receives EXCEPT ![n] = receives[n] + 1]
      /\ pc' = [pc EXCEPT ![n] = "count"]
      /\ UNCHANGED <<sent, matched, ids, latest>>
  BY DEF TestSucceeds
<1>2. /\ request'[n] = 0 /\ receives'[n] = receives[n] + 1 /\ pc'[n] = "count"
      /\ ~Static => value'[n] = k
      /\ \A m \in Node : m # n =>
           /\ request'[m] = request[m] /\ receives'[m] = receives[m] /\ pc'[m] = pc[m]
           /\ value'[m] = value[m]
  BY <1>1 DEF IInv, TypeOK
<1>3. TypeOK'
  <2>1. k \in 0..Iters /\ 0 \in 0..Iters /\ receives[n] + 1 \in Nat
    BY MpiAssumption DEF IInv, TypeOK
  <2>. HIDE DEF k
  <2>2. /\ request' \in [Node -> 0..Iters] /\ value' \in [Node -> 0..Iters]
        /\ receives' \in [Node -> Nat]
        /\ pc' \in [Node -> {"top", "test", "count", "rest", "sends", "done"}]
    BY <1>1, <2>1 DEF IInv, TypeOK
  <2>. QED BY <1>1, <2>2 DEF IInv, TypeOK
<1>6. ProgressInv'
  BY <1>1, <1>2 DEF IInv, ProgressInv
<1>4. LinkInv'
  BY <1>1 DEF IInv, LinkInv
<1>5. CountInv'
  <2>. SUFFICES ASSUME NEW m \in Node PROVE \E taken \in [Node -> 0..Iters] : Accounts(m, taken)'
    BY DEF CountInv
  <2>1. PICK taken \in [Node -> 0..Iters] : Accounts(m, taken)
    BY DEF IInv, CountInv
  <2>2. CASE m # n
    BY <1>1, <1>2, <2>1, <2>2, Frame
  <2>3. CASE m = n
    <3>1. PICK i \in Peers(n) : k = taken[i] + 1 /\ matched[n] = [taken EXCEPT ![i] = k]
      BY <1>1, <2>1, <2>3 DEF Accounts, Taking
    <3>2. matched[n] \in [Node -> 0..Iters] /\ k \in 0..Iters
      BY DEF IInv, TypeOK
    <3>3. receives'[n] = Cardinality(UpTo(n, matched[n]))
      <4>1. receives[n] = Cardinality(UpTo(n, taken))
        BY <2>1, <2>3 DEF Accounts
      <4>2. Cardinality(UpTo(n, matched[n])) = Cardinality(UpTo(n, taken)) + 1
        <5>1. taken[i] + 1 \in 0..Iters /\ matched[n] = [taken EXCEPT ![i] = taken[i] + 1]
          BY <3>1, <3>2
        <5>2. Cardinality(UpTo(n, [taken EXCEPT ![i] = taken[i] + 1])) = Cardinality(UpTo(n, taken)) + 1
          BY <5>1, OneMore
        <5>. QED BY <5>1, <5>2, Zenon
      <4>. QED BY <1>2, <4>1, <4>2
    <3>4. ~Static => Taking(TRUE, n, taken, matched[n], value'[n])
      BY <1>2, <3>1 DEF Taking
    <3>5. ~Static => Gap!Tally(Peers(n), taken, ids'[n], latest'[n])
      <4>. SUFFICES ASSUME ~Static PROVE Gap!Tally(Peers(n), taken, ids'[n], latest'[n])
        OBVIOUS
      <4>1. PICK counted \in [Node -> 0..Iters] :
              /\ Taking(pc[n] = "count", n, counted, taken, value[n])
              /\ Gap!Tally(Peers(n), counted, ids[n], latest[n])
        BY <2>1, <2>3 DEF Accounts
      <4>2. counted = taken
        BY <1>1, <4>1 DEF Taking
      <4>. QED BY <1>1, <4>1, <4>2
    <3>6. PICK all \in [Node -> 0..Iters] : all = matched[n] /\ all = matched'[n]
      BY <1>1, <3>2
    <3>7. Accounts(n, all)'
      <4>1. Taking(request'[n] # 0, n, all, matched'[n], request'[n])
        BY <1>2, <3>6 DEF Taking
      <4>2. receives'[n] = Cardinality(UpTo(n, all))
        BY <3>3, <3>6
      <4>3. ~Static => \E counted \in [Node -> 0..Iters] :
              /\ Taking(pc'[n] = "count", n, counted, all, value'[n])
              /\ Gap!Tally(Peers(n), counted, ids'[n], latest'[n])
        BY <1>2, <3>4, <3>5, <3>6 DEF Taking
      <4>. QED BY <4>1, <4>2, <4>3, NextAccounts
    <3>. QED BY <2>3, <3>7
  <2>. QED BY <2>2, <2>3
<1>. QED BY <1>3, <1>4, <1>5, <1>6 DEF IInv

\* ... and counts it, which completes a packet if it is the last of its id ...
LEMMA CountedInv == ASSUME IInv, NEW n \in Node, Count(n) PROVE IInv'
<1>. DEFINE k == value[n]
<1>1. /\ pc[n] = "count" /\ pc' = [pc EXCEPT ![n] = After(n)]
      /\ latest' = IF FromAll(n) THEN [latest EXCEPT ![n] = k] ELSE latest
      /\ ids' = [ids EXCEPT ![n][k] = IF FromAll(n) THEN 0 ELSE ids[n][k] + 1]
      /\ UNCHANGED <<sent, matched, request, value, receives>>
  BY DEF Count, Counted
<1>2. /\ After(n) \in {"top", "rest"} /\ (After(n) = "top" => sent[n] < Iters)
      /\ After(n) = "rest" => sent[n] = Iters
  BY MpiAssumption DEF After, IInv, TypeOK
<1>3. /\ pc'[n] = After(n) /\ \A m \in Node : m # n => pc'[m] = pc[m]
      /\ k \in 0..Iters /\ Iters \in Nat /\ ids[n][k] \in Nat
      /\ latest[n] \in 0..Iters /\ sent[n] \in 0..Iters
  BY <1>1, MpiAssumption DEF IInv, TypeOK
<1>4. /\ \A m \in Node : m # n => latest'[m] = latest[m] /\ ids'[m] = ids[m]
      /\ latest'[n] = IF FromAll(n) THEN k ELSE latest[n]
      /\ \A p \in 0..Iters :
           ids'[n][p] = IF p # k THEN ids[n][p] ELSE IF FromAll(n) THEN 0 ELSE ids[n][k] + 1
  <2>. HIDE DEF k
  <2>. QED BY <1>1, <1>3 DEF IInv, TypeOK
<1>5. TypeOK'
  <2>. HIDE DEF k
  <2>1. [ids[n] EXCEPT ![k] = IF FromAll(n) THEN 0 ELSE ids[n][k] + 1] \in [0..Iters -> Nat]
    <3>1. ids[n][k] + 1 \in Nat
      BY <1>3
    <3>. QED BY <3>1 DEF IInv, TypeOK
  <2>2. ids' \in [Node -> [0..Iters -> Nat]]
    BY <1>1, <2>1 DEF IInv, TypeOK
  <2>3. latest' \in [Node -> 0..Iters]
    BY <1>1, <1>3 DEF IInv, TypeOK
  <2>4. pc' \in [Node -> {"top", "test", "count", "rest", "sends", "done"}]
    BY <1>1, <1>2 DEF IInv, TypeOK
  <2>. QED BY <1>1, <2>2, <2>3, <2>4 DEF IInv, TypeOK
<1>6. ProgressInv'
  BY <1>1, <1>2, <1>3 DEF IInv, ProgressInv
<1>7. ASSUME NEW taken \in [Node -> 0..Iters], Accounts(n, taken)
      PROVE  Accounts(n, taken)' /\ (~Static => latest[n] <= latest'[n])
  <2>1. Taking(request'[n] # 0, n, taken, matched'[n], request'[n])
    BY <1>1, <1>7 DEF Accounts, Taking
  <2>2. receives'[n] = Cardinality(UpTo(n, taken))
    BY <1>1, <1>7 DEF Accounts
  <2>3. ASSUME ~Static
        PROVE  Gap!Tally(Peers(n), taken, ids'[n], latest'[n]) /\ latest[n] <= latest'[n]
    <3>1. PICK counted \in [Node -> 0..Iters] :
            /\ Taking(TRUE, n, counted, taken, k)
            /\ Gap!Tally(Peers(n), counted, ids[n], latest[n])
      <4>1. (pc[n] = "count") = TRUE
        BY <1>1
      <4>. QED BY <1>7, <2>3, <4>1 DEF Accounts
    <3>. HIDE DEF k
    <3>2. PICK i \in Peers(n) : k = counted[i] + 1 /\ taken = [counted EXCEPT ![i] = k]
      BY <3>1 DEF Taking
    <3>. DEFINE all == FromAll(n)
    <3>3. all \in BOOLEAN /\ (all <=> ids[n][k] + 1 = Lemmas!Cardinality(Peers(n)))
      BY PeersType, SameSets DEF FromAll, k
    <3>4. /\ \A j \in Peers(n) : taken[j] = IF j = i THEN k ELSE counted[j]
          /\ \A j \in Peers(n) : counted[j] \in 0..Iters
      BY <3>2 DEF Peers
    <3>5. Lemmas!IsFiniteSet(Peers(n)) /\ k <= Iters
      BY PeersType, SameSets, <1>3
    <3>6. Lemmas!Tally(Peers(n), counted, ids[n], latest[n])
      BY <3>1, SameTally
    <3>7. Lemmas!Tally(Peers(n), taken, ids'[n], latest'[n])
      <4>. HIDE DEF all
      <4>1. /\ \A p \in 0..Iters :
                  ids'[n][p] = IF p # k THEN ids[n][p] ELSE IF all THEN 0 ELSE ids[n][k] + 1
            /\ latest'[n] = IF all THEN k ELSE latest[n]
        BY <1>4 DEF all
      <4>2. k = counted[i] + 1 /\ latest[n] \in 0..Iters /\ Iters \in Nat
        BY <1>3, <3>2
      <4>. QED BY <3>3, <3>4, <3>5, <3>6, <4>1, <4>2, Lemmas!TallyStep
    <3>8. latest[n] <= latest'[n]
      <4>1. latest[n] <= counted[i] /\ counted[i] \in Nat
        BY <1>3, <3>4, <3>6 DEF Lemmas!Tally
      <4>. QED BY <1>3, <1>4, <3>2, <4>1
    <3>. QED BY <3>7, <3>8, SameTally
  <2>4. ~Static => \E counted \in [Node -> 0..Iters] :
          /\ Taking(pc'[n] = "count", n, counted, taken, value'[n])
          /\ Gap!Tally(Peers(n), counted, ids'[n], latest'[n])
    <3>1. pc'[n] # "count"
      BY <1>2, <1>3
    <3>. QED BY <1>7, <2>3, <3>1 DEF Taking
  <2>. QED BY <2>1, <2>2, <2>3, <2>4, NextAccounts
<1>8. LinkInv'
  <2>1. PICK taken \in [Node -> 0..Iters] : Accounts(n, taken)
    BY DEF IInv, CountInv
  <2>2. ~Static => \A m \in Node : sent[m] - latest'[m] <= MaxGap + 1
    <3>1. ~Static => latest[n] <= latest'[n]
      BY <1>7, <2>1
    <3>2. latest'[n] \in Nat /\ latest[n] \in Nat /\ sent[n] \in Nat /\ MaxGap \in Nat
      BY <1>3, <1>4, MpiAssumption
    <3>. QED BY <1>4, <3>1, <3>2 DEF IInv, LinkInv
  <2>. QED BY <1>1, <2>2 DEF IInv, LinkInv
<1>9. CountInv'
  <2>. SUFFICES ASSUME NEW m \in Node PROVE \E taken \in [Node -> 0..Iters] : Accounts(m, taken)'
    BY DEF CountInv
  <2>1. PICK taken \in [Node -> 0..Iters] : Accounts(m, taken)
    BY DEF IInv, CountInv
  <2>2. CASE m # n
    BY <1>1, <1>3, <1>4, <2>1, <2>2, Frame
  <2>3. CASE m = n
    BY <1>7, <2>1, <2>3
  <2>. QED BY <2>2, <2>3
<1>. QED BY <1>5, <1>6, <1>8, <1>9 DEF IInv

\* ... until it has counted all that was sent to it.
LEMMA AllTaken ==
  ASSUME IInv, NEW n \in Node, pc[n] = "rest", receives[n] >= Expected
  PROVE  \A i \in Peers(n) : matched[n][i] = Iters
<1>1. PICK taken \in [Node -> 0..Iters] : Accounts(n, taken)
  BY DEF IInv, CountInv
<1>2. Cardinality(UpTo(n, taken)) = Expected
  <2>1. /\ receives[n] = Cardinality(UpTo(n, taken)) /\ Cardinality(UpTo(n, taken)) \in Nat
        /\ Cardinality(UpTo(n, taken)) <= Expected
    BY <1>1, ExpectedIsAll DEF Accounts
  <2>2. Expected \in Int
    BY PeersType DEF Expected
  <2>. QED BY <2>1, <2>2
<1>3. UpTo(n, taken) = Peers(n) \X (1..Iters)
  BY <1>2, ExpectedIsAll
<1>4. /\ matched[n] \in [Node -> 0..Iters] /\ Iters \in Nat
      /\ Taking(request[n] # 0, n, taken, matched[n], request[n])
  BY <1>1, MpiAssumption DEF IInv, TypeOK, Accounts
<1>5. \A i \in Node : taken[i] <= matched[n][i]
  <2>1. PICK m \in [Node -> 0..Iters] : m = matched[n]
    BY <1>4
  <2>2. Taking(request[n] # 0, n, taken, m, request[n])
    BY <1>4, <2>1
  <2>. QED BY <2>1, <2>2, Taken
<1>. SUFFICES ASSUME NEW i \in Peers(n) PROVE matched[n][i] = Iters
  OBVIOUS
<1>6. i \in Node /\ matched[n][i] \in 0..Iters /\ taken[i] \in 0..Iters /\ taken[i] <= matched[n][i]
  BY <1>4, <1>5 DEF Peers
<1>7. CASE Iters = 0
  BY <1>4, <1>6, <1>7
<1>8. CASE Iters > 0
  <2>1. <<i, Iters>> \in UpTo(n, taken)
    BY <1>3, <1>4, <1>8
  <2>2. Iters <= taken[i]
    BY <2>1 DEF UpTo
  <2>. QED BY <1>4, <1>6, <2>2
<1>. QED BY <1>4, <1>7, <1>8

LEMMA FinishInv == ASSUME IInv, NEW n \in Node, AllReceived(n) \/ AllSent(n) PROVE IInv'
<1>1. /\ \/ pc[n] = "rest" /\ receives[n] >= Expected /\ pc' = [pc EXCEPT ![n] = "sends"]
         \/ pc[n] = "sends" /\ pc' = [pc EXCEPT ![n] = "done"]
      /\ UNCHANGED <<sent, matched, request, value, receives, ids, latest>>
  BY DEF AllReceived, AllSent
<1>2. /\ pc'[n] \in {"sends", "done"} /\ pc[n] # "count" /\ sent[n] = Iters
      /\ \A m \in Node : m # n => pc'[m] = pc[m]
      /\ \A i \in Peers(n) : matched[n][i] = Iters
  BY <1>1, AllTaken DEF IInv, TypeOK, ProgressInv
<1>3. TypeOK' /\ LinkInv'
  BY <1>1 DEF IInv, TypeOK, LinkInv
<1>4. ProgressInv'
  BY <1>1, <1>2 DEF IInv, ProgressInv
<1>5. CountInv'
  <2>. SUFFICES ASSUME NEW m \in Node PROVE \E taken \in [Node -> 0..Iters] : Accounts(m, taken)'
    BY DEF CountInv
  <2>1. PICK taken \in [Node -> 0..Iters] : Accounts(m, taken)
    BY DEF IInv, CountInv
  <2>2. (pc'[m] = "count") = (pc[m] = "count")
    BY <1>2
  <2>. QED BY <1>1, <2>1, <2>2, Frame
<1>. QED BY <1>3, <1>4, <1>5 DEF IInv

LEMMA NextInv == ASSUME IInv, [Next]_vars PROVE IInv'
<1>1. CASE UNCHANGED vars
  <2>1. TypeOK' /\ ProgressInv' /\ LinkInv'
    BY <1>1 DEF vars, IInv, TypeOK, ProgressInv, LinkInv
  <2>2. ASSUME NEW m \in Node PROVE \E taken \in [Node -> 0..Iters] : Accounts(m, taken)'
    <3>1. PICK taken \in [Node -> 0..Iters] : Accounts(m, taken)
      BY DEF IInv, CountInv
    <3>. QED BY <1>1, <3>1, Frame DEF vars
  <2>. QED BY <2>1, <2>2 DEF IInv, CountInv
<1>2. ASSUME NEW n \in Node, Run(n) PROVE IInv'
  BY <1>2, SendInv, TestFailsInv, TestSucceedsInv, CountedInv, FinishInv DEF Run, Loop
<1>3. ASSUME NEW n \in Node, NEW i \in Node, Match(n, i) PROVE IInv'
  BY <1>3, MatchInv
<1>. QED BY <1>1, <1>2, <1>3 DEF Next

-----------------------------------------------------------------------------
\* A node has counted all that its receives took but the one under way and the one
\* in hand.
THEOREM Invariance == Spec => []IInv
<1>. QED BY InitInv, NextInv, PTL DEF Spec

\* all_to_all_gap_runner.h:136: a packet that was counted once for each peer has come
\* from each of them, and so have all before it; unless the library writes to the
\* value that the loop has yet to count.
THEOREM LatestHasCome == ASSUME ~Static PROVE Spec => []LatestIsHere
<1>1. IInv => LatestIsHere
  <2>. SUFFICES ASSUME IInv, NEW n \in Node, NEW i \in Peers(n) PROVE latest[n] <= matched[n][i]
    BY DEF LatestIsHere
  <2>1. PICK taken \in [Node -> 0..Iters] : Accounts(n, taken)
    BY DEF IInv, CountInv
  <2>2. PICK counted \in [Node -> 0..Iters] :
          /\ Taking(pc[n] = "count", n, counted, taken, value[n])
          /\ Gap!Tally(Peers(n), counted, ids[n], latest[n])
    BY <2>1 DEF Accounts
  <2>3. PICK m \in [Node -> 0..Iters] : m = matched[n]
    BY DEF IInv, TypeOK
  <2>4. i \in Node /\ latest[n] <= counted[i]
    BY <2>2 DEF Peers, Gap!Tally
  <2>5. Taking(request[n] # 0, n, taken, m, request[n])
    BY <2>1, <2>3 DEF Accounts
  <2>6. counted[i] <= taken[i] /\ taken[i] <= m[i]
    BY <2>2, <2>4, <2>5, Taken
  <2>7. latest[n] \in Nat /\ counted[i] \in Nat /\ taken[i] \in Nat /\ m[i] \in Nat
    BY <2>4, MpiAssumption DEF IInv, TypeOK
  <2>. QED BY <2>3, <2>4, <2>6, <2>7
<1>. QED BY Invariance, <1>1, PTL

\* "ensure that we receive every send from every peer": m_receives reaches its bound
\* only with every packet of every peer, whichever of them came first.
THEOREM DoneIsComplete == Spec => []DoneHasAll
<1>1. IInv => DoneHasAll
  BY DEF IInv, ProgressInv, DoneHasAll
<1>. QED BY Invariance, <1>1, PTL

\* Each send is one that the abstract runner may do too.
LEMMA StepRefines == ASSUME ~Static, IInv, LatestIsHere, [Next]_vars PROVE [Gap!Next]_(Gap!vars)
<1>1. CASE UNCHANGED vars
  BY <1>1 DEF vars, Gap!vars
<1>2. ASSUME NEW n \in Node, TestFails(n) \/ TestSucceeds(n) \/ Count(n) \/ AllReceived(n) \/ AllSent(n)
      PROVE  UNCHANGED Gap!vars
  BY <1>2 DEF TestFails, TestSucceeds, Count, AllReceived, AllSent, Gap!vars
<1>3. ASSUME NEW n \in Node, Send(n) PROVE Gap!Send(n) \/ UNCHANGED Gap!vars
  <2>1. CASE ~MaySend(n)
    BY <1>3, <2>1 DEF Send, Gap!vars
  <2>2. CASE MaySend(n)
    <3>1. /\ sent' = [sent EXCEPT ![n] = @ + 1] /\ matched' = matched
          /\ (sent[n] + 1) - latest[n] <= MaxGap + 1 /\ sent[n] < Iters
      BY <1>3, <2>2 DEF Send, MaySend, NextPacket, IInv, ProgressInv
    <3>2. ASSUME NEW i \in Gap!Peers(n) PROVE (sent[n] + 1) - matched[n][i] <= MaxGap + 1
      <4>1. i \in Peers(n) /\ i \in Node
        BY DEF Gap!Peers, Peers
      <4>2. /\ latest[n] <= matched[n][i] /\ matched[n][i] \in Nat /\ latest[n] \in Nat
            /\ sent[n] \in Nat /\ MaxGap \in Nat
        BY <4>1, MpiAssumption DEF LatestIsHere, IInv, TypeOK
      <4>. QED BY <3>1, <4>2
    <3>. QED BY <3>1, <3>2 DEF Gap!Send, Gap!MaySend
  <2>. QED BY <2>1, <2>2
<1>4. ASSUME NEW n \in Node, NEW i \in Node, Match(n, i) PROVE Gap!Receive(n, i)
  BY <1>4 DEF Match, Gap!Receive, Gap!UnderWay
<1>. QED BY <1>1, <1>2, <1>3, <1>4 DEF Next, Run, Loop, Gap!Next

\* all_to_all_gap_runner.h implements the gap window of width m_max_gap + 1.
THEOREM Refinement == ASSUME ~Static PROVE Spec => RefinesGapWindow
<1>1. Init => Gap!Init
  BY DEF Init, Gap!Init
<1>. QED BY Invariance, LatestHasCome, StepRefines, <1>1, PTL DEF Spec, Gap!Spec, RefinesGapWindow
=============================================================================
