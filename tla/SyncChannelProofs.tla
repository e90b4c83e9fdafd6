-------------------------- MODULE SyncChannelProofs --------------------------
(***************************************************************************)
(* What SyncChannel promises, for every number of nodes, of rounds and of  *)
(* messages.  The theorems are about every member of a family of channels: *)
(* each variable of SyncChannel stands here for a function of the channel, *)
(* and Channel(ch) is the module SyncChannel with the values of channel    *)
(* ch.  One channel is a family of one, and CommunicatorProofs takes the   *)
(* channels of SRCommunicator for the family.                              *)
(***************************************************************************)
EXTENDS SyncChannel, FiniteSetTheorems, TLAPS

CONSTANT Chan

Channel(ch) == INSTANCE SyncChannel WITH
  log <- log[ch], arrived <- arrived[ch], handled <- handled[ch],
  pc <- pc[ch], synchronized <- synchronized[ch],
  syncCounter <- syncCounter[ch], ackCounter <- ackCounter[ch],
  eofCounter <- eofCounter[ch], recvEof <- recvEof[ch], failed <- failed[ch],
  called <- called[ch], returned <- returned[ch],
  acked <- acked[ch], completed <- completed[ch],
  syncsFrom <- syncsFrom[ch], acksFrom <- acksFrom[ch]

-----------------------------------------------------------------------------
(* Sizes of sets of nodes.                                                 *)

\* Cardinality as the instances have it is the Cardinality of the library.
LEMMA Counted == ASSUME NEW ch \in Chan PROVE \A S : Channel(ch)!Cardinality(S) = Cardinality(S)
  BY DEF Channel!Cardinality, Cardinality

\* A message counted from every node is counted size() times: a set of nodes
\* has at most size members, and size members only if it is all of them.
LEMMA SubsetSize ==
  ASSUME NEW ch \in Chan, NEW S \in SUBSET Node
  PROVE  /\ IsFiniteSet(S)
         /\ Cardinality(S) \in Nat
         /\ Cardinality(S) <= Channel(ch)!size
         /\ Cardinality(S) = Channel(ch)!size <=> S = Node
  BY NodeAssumption, FS_Subset, FS_CardinalityType, Counted DEF Channel!size

\* There is at least one node.
LEMMA SizePositive ==
  ASSUME NEW ch \in Chan
  PROVE  Channel(ch)!size \in Nat /\ Channel(ch)!size > 0
  BY NodeAssumption, FS_CardinalityType, FS_EmptySet, Counted DEF Channel!size

\* Counting one more node adds one.
LEMMA AddNode ==
  ASSUME NEW S \in SUBSET Node, NEW i \in Node, i \notin S
  PROVE  Cardinality(S \cup {i}) = Cardinality(S) + 1
  BY NodeAssumption, FS_Subset, FS_AddElement

\* Writing one cell of a table indexed by two nodes.
LEMMA CellUpdate ==
  ASSUME NEW f \in [Node -> [Node -> Nat]], NEW j \in Node, NEW i \in Node, NEW v \in Nat,
         NEW g, g = [f EXCEPT ![j][i] = v]
  PROVE  /\ g \in [Node -> [Node -> Nat]]
         /\ g[j][i] = v
         /\ \A a, b \in Node : a # j \/ b # i => g[a][b] = f[a][b]
<1>1. [f[j] EXCEPT ![i] = v] \in [Node -> Nat]
  OBVIOUS
<1>. QED BY <1>1

\* A matrix of naturals stays one when a cell of it grows.
LEMMA CellIncrement ==
  ASSUME NEW f \in [Node -> [Node -> Nat]], NEW j \in Node, NEW i \in Node,
         NEW g, g = [f EXCEPT ![j][i] = @ + 1]
  PROVE  /\ g \in [Node -> [Node -> Nat]]
         /\ g[j][i] = f[j][i] + 1
         /\ \A a, b \in Node : a # j \/ b # i => g[a][b] = f[a][b]
<1>1. f[j][i] + 1 \in Nat /\ g = [f EXCEPT ![j][i] = f[j][i] + 1]
  OBVIOUS
<1>. QED BY <1>1, CellUpdate

\* A counter that a step may increment keeps its type.
LEMMA MayIncrement ==
  ASSUME NEW f \in [Node -> Nat], NEW j \in Node,
         NEW g, g = [f EXCEPT ![j] = @ + 1] \/ g = f
  PROVE  g \in [Node -> Nat]
<1>1. CASE g = f
  BY <1>1
<1>2. CASE g = [f EXCEPT ![j] = @ + 1]
  BY <1>2
<1>. QED BY <1>1, <1>2

-----------------------------------------------------------------------------
(* Type correctness.                                                       *)

\* Pushing an entry keeps the logs sequences of entries.
LEMMA PushType ==
  ASSUME NEW ch \in Chan, log[ch] \in [Node -> Seq(Channel(ch)!Entry)], NEW n \in Node,
         NEW t \in Channel(ch)!MsgType,
         NEW d \in Node, NEW r \in Nat, Channel(ch)!Push(n, t, d, r)
  PROVE  log'[ch] \in [Node -> Seq(Channel(ch)!Entry)]
<1>. DEFINE e == [type |-> t, dest |-> d, round |-> r]
<1>1. e \in Channel(ch)!Entry
  BY DEF Channel!Entry
<1>2. Append(log[ch][n], e) \in Seq(Channel(ch)!Entry)
  BY <1>1
<1>. QED BY <1>2 DEF Channel!Push

\* The length of a log is a natural number.
LEMMA LenNat ==
  ASSUME NEW ch \in Chan, log[ch] \in [Node -> Seq(Channel(ch)!Entry)], NEW i \in Node
  PROVE  Len(log[ch][i]) \in Nat /\ \A p \in 1..Len(log[ch][i]) : p \in Nat /\ log[ch][i][p] \in Channel(ch)!Entry
  OBVIOUS

\* Taking the next message keeps the cursors natural numbers.
LEMMA TakesNextType ==
  ASSUME NEW ch \in Chan, log[ch] \in [Node -> Seq(Channel(ch)!Entry)],
         handled[ch] \in [Node -> [Node -> Nat]],
         NEW j \in Node, NEW i \in Node, NEW t,
         \E p \in 1..Len(log[ch][i]) : Channel(ch)!TakesNext(j, i, t, p)
  PROVE  handled'[ch] \in [Node -> [Node -> Nat]]
<1>1. PICK p \in Nat : handled'[ch] = [handled[ch] EXCEPT ![j][i] = p]
  BY LenNat DEF Channel!TakesNext
<1>. QED BY <1>1, CellUpdate

\* A fact about the types that every step below starts from.
LEMMA Types ==
  ASSUME NEW ch \in Chan, Channel(ch)!TypeOK
  PROVE  /\ log[ch] \in [Node -> Seq(Channel(ch)!Entry)]
         /\ Channel(ch)!LinksType /\ Channel(ch)!WorkerType /\ Channel(ch)!CountsType
         /\ Channel(ch)!ClosingType /\ Channel(ch)!RoundsType /\ Channel(ch)!FromType
  BY Zenon DEF Channel!TypeOK

\* Every variable keeps its type; no counter goes below zero, because a round
\* is subtracted only when it is complete.
LEMMA TypeStep ==
  ASSUME NEW ch \in Chan
  PROVE  Channel(ch)!TypeOK /\ [Channel(ch)!Next]_(Channel(ch)!vars) => Channel(ch)!TypeOK'
<1> SUFFICES ASSUME Channel(ch)!TypeOK, [Channel(ch)!Next]_(Channel(ch)!vars) PROVE Channel(ch)!TypeOK'
  OBVIOUS
<1>t. /\ log[ch] \in [Node -> Seq(Channel(ch)!Entry)]
      /\ Channel(ch)!LinksType /\ Channel(ch)!WorkerType /\ Channel(ch)!CountsType
      /\ Channel(ch)!ClosingType /\ Channel(ch)!RoundsType /\ Channel(ch)!FromType
  BY Types
<1>a. ASSUME NEW n \in Node, NEW d \in Node, Channel(ch)!Send(n, d) PROVE Channel(ch)!TypeOK'
  <2>1. log'[ch] \in [Node -> Seq(Channel(ch)!Entry)]
    BY <1>a, PushType, <1>t DEF Channel!Send, Channel!MsgType
  <2>2. /\ Channel(ch)!LinksType' /\ Channel(ch)!WorkerType' /\ Channel(ch)!CountsType'
        /\ Channel(ch)!ClosingType' /\ Channel(ch)!RoundsType' /\ Channel(ch)!FromType'
    BY <1>a, <1>t DEF Channel!Send, Channel!links, Channel!counts, Channel!closing, Channel!history,
       Channel!LinksType, Channel!WorkerType,
       Channel!CountsType, Channel!ClosingType, Channel!RoundsType, Channel!FromType
  <2>. QED BY <2>1, <2>2 DEF Channel!TypeOK
<1>b. ASSUME NEW n \in Node, Channel(ch)!Synchronize(n) PROVE Channel(ch)!TypeOK'
  <2>1. Channel(ch)!Push(n, "sync", n, called[ch][n] + 1) /\ called[ch][n] + 1 \in Nat
    BY <1>b, <1>t DEF Channel!Synchronize, Channel!RoundsType
  <2>2. log'[ch] \in [Node -> Seq(Channel(ch)!Entry)]
    BY <2>1, PushType, <1>t DEF Channel!MsgType
  <2>3. Channel(ch)!RoundsType'
    BY <1>b, <1>t DEF Channel!Synchronize, Channel!RoundsType
  <2>4. Channel(ch)!WorkerType'
    BY <1>b, <1>t DEF Channel!Synchronize, Channel!WorkerType
  <2>5. /\ Channel(ch)!LinksType' /\ Channel(ch)!CountsType' /\ Channel(ch)!ClosingType'
        /\ Channel(ch)!FromType'
    BY <1>b, <1>t DEF Channel!Synchronize, Channel!links, Channel!counts, Channel!closing,
       Channel!LinksType, Channel!CountsType,
       Channel!ClosingType, Channel!FromType
  <2>. QED BY <2>2, <2>3, <2>4, <2>5 DEF Channel!TypeOK
<1>c. ASSUME NEW n \in Node, Channel(ch)!SynchronizeReturns(n) PROVE Channel(ch)!TypeOK'
  <2>1. Channel(ch)!RoundsType'
    BY <1>c, <1>t DEF Channel!SynchronizeReturns, Channel!Awakened, Channel!RoundsType
  <2>2. Channel(ch)!WorkerType'
    BY <1>c, <1>t DEF Channel!SynchronizeReturns, Channel!Awakened, Channel!WorkerType
  <2>3. log'[ch] \in [Node -> Seq(Channel(ch)!Entry)]
    BY <1>c, <1>t DEF Channel!SynchronizeReturns, Channel!Awakened
  <2>4. /\ Channel(ch)!LinksType' /\ Channel(ch)!CountsType' /\ Channel(ch)!ClosingType'
        /\ Channel(ch)!FromType'
    BY <1>c, <1>t DEF Channel!SynchronizeReturns, Channel!Awakened, Channel!links, Channel!counts,
       Channel!closing, Channel!LinksType, Channel!CountsType,
       Channel!ClosingType, Channel!FromType
  <2>. QED BY <2>1, <2>2, <2>3, <2>4 DEF Channel!TypeOK
<1>d. ASSUME NEW n \in Node, Channel(ch)!PushEof(n) PROVE Channel(ch)!TypeOK'
  <2>1. log'[ch] \in [Node -> Seq(Channel(ch)!Entry)]
    BY <1>d, PushType, <1>t DEF Channel!PushEof, Channel!MsgType
  <2>2. Channel(ch)!WorkerType'
    BY <1>d, <1>t DEF Channel!PushEof, Channel!WorkerType
  <2>3. /\ Channel(ch)!LinksType' /\ Channel(ch)!CountsType' /\ Channel(ch)!ClosingType'
        /\ Channel(ch)!RoundsType' /\ Channel(ch)!FromType'
    BY <1>d, <1>t DEF Channel!PushEof, Channel!links, Channel!counts, Channel!closing,
       Channel!history, Channel!LinksType, Channel!CountsType,
       Channel!ClosingType, Channel!RoundsType, Channel!FromType
  <2>. QED BY <2>1, <2>2, <2>3 DEF Channel!TypeOK
<1>e. ASSUME NEW n \in Node, Channel(ch)!MarkEof(n) PROVE Channel(ch)!TypeOK'
  <2>1. Channel(ch)!WorkerType'
    BY <1>e, <1>t DEF Channel!MarkEof, Channel!WorkerType
  <2>2. log'[ch] \in [Node -> Seq(Channel(ch)!Entry)]
    BY <1>e, <1>t DEF Channel!MarkEof
  <2>3. /\ Channel(ch)!LinksType' /\ Channel(ch)!CountsType' /\ Channel(ch)!ClosingType'
        /\ Channel(ch)!RoundsType' /\ Channel(ch)!FromType'
    BY <1>e, <1>t DEF Channel!MarkEof, Channel!links, Channel!counts, Channel!closing,
       Channel!history, Channel!LinksType, Channel!CountsType,
       Channel!ClosingType, Channel!RoundsType, Channel!FromType
  <2>. QED BY <2>1, <2>2, <2>3 DEF Channel!TypeOK
<1>f. ASSUME NEW j \in Node, NEW i \in Node, Channel(ch)!Arrive(j, i) PROVE Channel(ch)!TypeOK'
  <2>1. PICK p \in Nat : arrived'[ch] = [arrived[ch] EXCEPT ![j][i] = p]
    BY <1>f, LenNat, <1>t DEF Channel!Arrive, Channel!EofFromAll
  <2>2. Channel(ch)!LinksType'
    <3>1. arrived'[ch] \in [Node -> [Node -> Nat]]
      <4>1. PICK f \in [Node -> [Node -> Nat]] : f = arrived[ch]
        BY <1>t DEF Channel!LinksType
      <4>2. PICK g : g = [f EXCEPT ![j][i] = p]
        OBVIOUS
      <4>3. g \in [Node -> [Node -> Nat]]
        BY <4>2, CellUpdate
      <4>. QED BY <2>1, <4>1, <4>2, <4>3
    <3>2. handled'[ch] = handled[ch]
      BY <1>f DEF Channel!Arrive
    <3>. QED BY <3>1, <3>2, <1>t DEF Channel!LinksType
  <2>c. /\ eofCounter'[ch] = [eofCounter[ch] EXCEPT ![j] = @ + 1] \/ eofCounter'[ch] = eofCounter[ch]
        /\ \/ recvEof'[ch] = [recvEof[ch] EXCEPT ![j] = @ \/ eofCounter[ch][j] + 1 = Channel(ch)!size]
           \/ recvEof'[ch] = recvEof[ch]
    BY <1>f DEF Channel!Arrive, Channel!EofFromAll, Channel!closing
  <2>3. Channel(ch)!ClosingType'
    <3>1. eofCounter'[ch] \in [Node -> Nat]
      BY <2>c, MayIncrement, <1>t DEF Channel!ClosingType
    <3>2. recvEof'[ch] \in [Node -> BOOLEAN]
      BY <2>c, <1>t, Zenon DEF Channel!ClosingType
    <3>. QED BY <3>1, <3>2 DEF Channel!ClosingType
  <2>4. Channel(ch)!WorkerType'
    <3>1. /\ failed'[ch] = [failed[ch] EXCEPT ![j] = @ \/ recvEof[ch][j]] \/ failed'[ch] = failed[ch]
          /\ pc'[ch] = pc[ch] /\ synchronized'[ch] = synchronized[ch]
      BY <1>f DEF Channel!Arrive
    <3>2. failed'[ch] \in [Node -> BOOLEAN]
      BY <3>1, <1>t, Zenon DEF Channel!WorkerType
    <3>3. Channel(ch)!WorkerType
      BY <1>t
    <3>. QED BY <3>1, <3>2, <3>3 DEF Channel!WorkerType
  <2>5. log'[ch] \in [Node -> Seq(Channel(ch)!Entry)]
    BY <1>f, <1>t DEF Channel!Arrive, Channel!EofFromAll
  <2>6. Channel(ch)!CountsType' /\ Channel(ch)!RoundsType' /\ Channel(ch)!FromType'
    BY <1>f, <1>t DEF Channel!Arrive, Channel!EofFromAll, Channel!counts, Channel!history,
       Channel!CountsType, Channel!RoundsType, Channel!FromType
  <2>. QED BY <2>2, <2>3, <2>4, <2>5, <2>6 DEF Channel!TypeOK
<1>g. ASSUME NEW j \in Node, NEW i \in Node, Channel(ch)!HandleData(j, i) PROVE Channel(ch)!TypeOK'
  <2>1. Channel(ch)!LinksType'
    BY <1>g, TakesNextType, <1>t DEF Channel!HandleData, Channel!LinksType
  <2>2. log'[ch] \in [Node -> Seq(Channel(ch)!Entry)]
    BY <1>g, <1>t DEF Channel!HandleData
  <2>3. /\ Channel(ch)!WorkerType' /\ Channel(ch)!CountsType' /\ Channel(ch)!ClosingType'
        /\ Channel(ch)!RoundsType' /\ Channel(ch)!FromType'
    BY <1>g, <1>t DEF Channel!HandleData, Channel!counts, Channel!closing, Channel!history,
       Channel!WorkerType,
       Channel!CountsType, Channel!ClosingType, Channel!RoundsType, Channel!FromType
  <2>. QED BY <2>1, <2>2, <2>3 DEF Channel!TypeOK
<1>h. ASSUME NEW j \in Node, NEW i \in Node, Channel(ch)!HandleSync(j, i) PROVE Channel(ch)!TypeOK'
  <2>1. Channel(ch)!LinksType'
    BY <1>h, TakesNextType, <1>t DEF Channel!HandleSync, Channel!SyncFromAll, Channel!LinksType
  <2>2. Channel(ch)!FromType'
    <3>1. syncsFrom'[ch] = [syncsFrom[ch] EXCEPT ![j][i] = @ + 1] /\ acksFrom'[ch] = acksFrom[ch]
      BY <1>h DEF Channel!HandleSync
    <3>2. syncsFrom[ch] \in [Node -> [Node -> Nat]] /\ acksFrom[ch] \in [Node -> [Node -> Nat]]
      BY <1>t DEF Channel!FromType
    <3>3. syncsFrom'[ch] \in [Node -> [Node -> Nat]]
      BY <3>1, <3>2, CellIncrement
    <3>. QED BY <3>1, <3>2, <3>3 DEF Channel!FromType
  <2>3. Channel(ch)!CountsType'
    BY <1>h, <1>t DEF Channel!HandleSync, Channel!SyncFromAll, Channel!CountsType
  <2>4. Channel(ch)!ClosingType'
    BY <1>h, <1>t DEF Channel!HandleSync, Channel!SyncFromAll, Channel!closing, Channel!ClosingType
  <2>5. log'[ch] \in [Node -> Seq(Channel(ch)!Entry)]
    <3>1. CASE Channel(ch)!Push(j, "ack", j, acked[ch][j] + 1)
      <4>1. acked[ch][j] + 1 \in Nat
        BY <1>t DEF Channel!RoundsType
      <4>. QED BY <3>1, <4>1, PushType, <1>t DEF Channel!MsgType
    <3>2. CASE log'[ch] = log[ch]
      BY <3>2, <1>t
    <3>. QED BY <1>h, <3>1, <3>2 DEF Channel!HandleSync, Channel!SyncFromAll, Channel!SendAck
  <2>6. Channel(ch)!WorkerType'
    <3>1. /\ failed'[ch] = [failed[ch] EXCEPT ![j] = TRUE] \/ failed'[ch] = failed[ch]
          /\ pc'[ch] = pc[ch] /\ synchronized'[ch] = synchronized[ch]
      BY <1>h DEF Channel!HandleSync, Channel!SendAck
    <3>3. Channel(ch)!WorkerType
      BY <1>t
    <3>. QED BY <3>1, <3>3 DEF Channel!WorkerType
  <2>c. /\ acked'[ch] = [acked[ch] EXCEPT ![j] = @ + 1] \/ acked'[ch] = acked[ch]
        /\ UNCHANGED <<called[ch], returned[ch], completed[ch]>>
    BY <1>h DEF Channel!HandleSync, Channel!SyncFromAll, Channel!SendAck
  <2>7. Channel(ch)!RoundsType'
    BY <2>c, MayIncrement, <1>t DEF Channel!RoundsType
  <2>. QED BY <2>1, <2>2, <2>3, <2>4, <2>5, <2>6, <2>7 DEF Channel!TypeOK
<1>i. ASSUME NEW j \in Node, NEW i \in Node, Channel(ch)!HandleAck(j, i) PROVE Channel(ch)!TypeOK'
  <2>1. Channel(ch)!LinksType'
    BY <1>i, TakesNextType, <1>t DEF Channel!HandleAck, Channel!LinksType
  <2>2. Channel(ch)!FromType'
    <3>1. acksFrom'[ch] = [acksFrom[ch] EXCEPT ![j][i] = @ + 1] /\ syncsFrom'[ch] = syncsFrom[ch]
      BY <1>i DEF Channel!HandleAck
    <3>2. syncsFrom[ch] \in [Node -> [Node -> Nat]] /\ acksFrom[ch] \in [Node -> [Node -> Nat]]
      BY <1>t DEF Channel!FromType
    <3>3. acksFrom'[ch] \in [Node -> [Node -> Nat]]
      BY <3>1, <3>2, CellIncrement
    <3>. QED BY <3>1, <3>2, <3>3 DEF Channel!FromType
  <2>c. /\ \/ ackCounter[ch][j] + 1 = Channel(ch)!size /\ Channel(ch)!CompleteRound(j)
           \/ /\ ackCounter'[ch] = [ackCounter[ch] EXCEPT ![j] = @ + 1]
              /\ UNCHANGED <<syncCounter[ch], synchronized[ch], completed[ch], failed[ch]>>
        /\ UNCHANGED <<called[ch], returned[ch], acked[ch]>>
    BY <1>i DEF Channel!HandleAck
  <2>3. Channel(ch)!CountsType'
    <3>1. CASE ackCounter[ch][j] + 1 = Channel(ch)!size /\ Channel(ch)!CompleteRound(j)
      <4>1. ackCounter[ch][j] + 1 \in Nat /\ (ackCounter[ch][j] + 1) - Channel(ch)!size \in Nat
        BY <3>1, SizePositive, <1>t DEF Channel!CountsType
      <4>2. syncCounter[ch][j] >= Channel(ch)!size => syncCounter[ch][j] - Channel(ch)!size \in Nat
        BY SizePositive, <1>t DEF Channel!CountsType
      <4>3. /\ Channel(ch)!OffRound(syncCounter[ch][j]) = syncCounter[ch][j] - Channel(ch)!size
            /\ Channel(ch)!OffRound(ackCounter[ch][j] + 1) = (ackCounter[ch][j] + 1) - Channel(ch)!size
        BY DEF Channel!OffRound
      <4>4. \/ /\ syncCounter[ch][j] >= Channel(ch)!size
               /\ syncCounter'[ch] = [syncCounter[ch] EXCEPT ![j] = syncCounter[ch][j] - Channel(ch)!size]
               /\ ackCounter'[ch] = [ackCounter[ch] EXCEPT ![j] = (ackCounter[ch][j] + 1) - Channel(ch)!size]
            \/ /\ syncCounter'[ch] = syncCounter[ch]
               /\ ackCounter'[ch] = [ackCounter[ch] EXCEPT ![j] = ackCounter[ch][j] + 1]
        BY <3>1, <4>3 DEF Channel!CompleteRound
      <4>. QED BY <4>1, <4>2, <4>4, <1>t DEF Channel!CountsType
    <3>2. CASE UNCHANGED syncCounter[ch] /\ ackCounter'[ch] = [ackCounter[ch] EXCEPT ![j] = @ + 1]
      BY <3>2, <1>t DEF Channel!CountsType
    <3>. QED BY <2>c, <3>1, <3>2
  <2>4. Channel(ch)!WorkerType'
    <3>1. /\ failed'[ch] = [failed[ch] EXCEPT ![j] = TRUE] \/ failed'[ch] = failed[ch]
          /\ synchronized'[ch] = [synchronized[ch] EXCEPT ![j] = TRUE]
               \/ synchronized'[ch] = synchronized[ch]
          /\ pc'[ch] = pc[ch]
      BY <1>i DEF Channel!HandleAck, Channel!CompleteRound
    <3>3. Channel(ch)!WorkerType
      BY <1>t
    <3>. QED BY <3>1, <3>3 DEF Channel!WorkerType
  <2>d. completed'[ch] = [completed[ch] EXCEPT ![j] = @ + 1] \/ completed'[ch] = completed[ch]
    BY <2>c DEF Channel!CompleteRound
  <2>5. Channel(ch)!RoundsType'
    BY <2>c, <2>d, MayIncrement, <1>t DEF Channel!RoundsType
  <2>6. log'[ch] \in [Node -> Seq(Channel(ch)!Entry)]
    BY <1>i, <1>t DEF Channel!HandleAck
  <2>7. Channel(ch)!ClosingType'
    BY <1>i, <1>t DEF Channel!HandleAck, Channel!closing, Channel!ClosingType
  <2>. QED BY <2>1, <2>2, <2>3, <2>4, <2>5, <2>6, <2>7 DEF Channel!TypeOK
<1>j. CASE UNCHANGED Channel(ch)!vars
  BY <1>j, <1>t DEF Channel!vars, Channel!links, Channel!counts, Channel!closing, Channel!history,
     Channel!TypeOK, Channel!LinksType,
     Channel!WorkerType, Channel!CountsType, Channel!ClosingType, Channel!RoundsType, Channel!FromType
<1>. QED
  BY <1>a, <1>b, <1>c, <1>d, <1>e, <1>f, <1>g, <1>h, <1>i, <1>j DEF Channel!Next, Channel!Worker,
     Channel!Handle

\* The types hold at the start.
LEMMA TypeInit == ASSUME NEW ch \in Chan PROVE Channel(ch)!Init => Channel(ch)!TypeOK
  BY DEF Channel!Init, Channel!TypeOK, Channel!LinksType, Channel!WorkerType, Channel!CountsType,
         Channel!ClosingType, Channel!RoundsType, Channel!FromType

\* Every reachable state has the types that TypeOK gives.
THEOREM TypeCorrect == ASSUME NEW ch \in Chan PROVE Channel(ch)!Spec => []Channel(ch)!TypeOK
  BY TypeInit, TypeStep, PTL DEF Channel!Spec

-----------------------------------------------------------------------------
(* Logs.                                                                   *)

\* Appending to a log leaves its positions alone.
LEMMA AppendFacts ==
  ASSUME NEW ch \in Chan, NEW s \in Seq(Channel(ch)!Entry), NEW e \in Channel(ch)!Entry
  PROVE  /\ Append(s, e) \in Seq(Channel(ch)!Entry)
         /\ Len(s) \in Nat
         /\ Len(Append(s, e)) = Len(s) + 1
         /\ \A p \in 1..Len(s) : Append(s, e)[p] = s[p] /\ s[p] \in Channel(ch)!Entry
         /\ Append(s, e)[Len(s) + 1] = e
  OBVIOUS

\* The fields of an entry have their types.
LEMMA EntryFields ==
  ASSUME NEW ch \in Chan, NEW s \in Seq(Channel(ch)!Entry), NEW p \in 1..Len(s)
  PROVE  s[p].type \in Channel(ch)!MsgType /\ s[p].dest \in Node /\ s[p].round \in Nat /\ p \in Nat
<1>1. s[p] \in Channel(ch)!Entry /\ p \in Nat
  OBVIOUS
<1>. QED BY <1>1 DEF Channel!Entry

\* A message of another type does not change the numbering of type t.
LEMMA NumberedOther ==
  ASSUME NEW ch \in Chan, NEW s \in Seq(Channel(ch)!Entry), NEW e \in Channel(ch)!Entry, NEW t,
         NEW k \in Nat,
         Channel(ch)!Numbered(s, t, k), e.type # t
  PROVE  Channel(ch)!Numbered(Append(s, e), t, k)
<1>. DEFINE s2 == Append(s, e)
<1>1. \A p \in 1..Len(s2) : s2[p].type = t => p \in 1..Len(s) /\ s2[p] = s[p]
  BY AppendFacts
<1>2. \A p \in 1..Len(s) : p \in 1..Len(s2) /\ s2[p] = s[p]
  BY AppendFacts
<1>. HIDE DEF s2
<1>3. \A p \in 1..Len(s2) : s2[p].type = t => s2[p].round \in 1..k
  BY <1>1 DEF Channel!Numbered
<1>4. \A p, q \in 1..Len(s2) :
        s2[p].type = t /\ s2[q].type = t /\ p < q => s2[p].round < s2[q].round
  BY <1>1 DEF Channel!Numbered
<1>5. \A r \in 1..k : \E p \in 1..Len(s2) : s2[p].type = t /\ s2[p].round = r
  BY <1>2 DEF Channel!Numbered
<1>6. Channel(ch)!Numbered(s2, t, k)
  BY <1>3, <1>4, <1>5 DEF Channel!Numbered
<1>. QED BY <1>6 DEF s2

\* The next message of type t continues the numbering.
LEMMA NumberedSame ==
  ASSUME NEW ch \in Chan, NEW s \in Seq(Channel(ch)!Entry), NEW e \in Channel(ch)!Entry, NEW t,
         NEW k \in Nat,
         Channel(ch)!Numbered(s, t, k), e.type = t, e.round = k + 1
  PROVE  Channel(ch)!Numbered(Append(s, e), t, k + 1)
<1>. DEFINE s2 == Append(s, e)
<1>1. \A p \in 1..Len(s2) : (p \in 1..Len(s) /\ s2[p] = s[p]) \/ (p = Len(s) + 1 /\ s2[p] = e)
  BY AppendFacts
<1>2. \A p \in 1..Len(s) : p \in 1..Len(s2) /\ s2[p] = s[p]
  BY AppendFacts
<1>2a. Len(s) + 1 \in 1..Len(s2) /\ s2[Len(s) + 1] = e /\ Len(s) \in Nat
  BY AppendFacts
<1>. HIDE DEF s2
<1>3. \A p \in 1..Len(s2) : s2[p].type = t => s2[p].round \in 1..(k + 1)
  BY <1>1 DEF Channel!Numbered
<1>4. ASSUME NEW p \in 1..Len(s2), NEW q \in 1..Len(s2),
             s2[p].type = t, s2[q].type = t, p < q
      PROVE  s2[p].round < s2[q].round
  <2>1. p \in 1..Len(s) /\ s2[p] = s[p] /\ s[p].round \in 1..k
    BY <1>4, <1>1, <1>2a DEF Channel!Numbered
  <2>2. CASE q = Len(s) + 1 /\ s2[q] = e
    BY <2>1, <2>2
  <2>3. CASE q \in 1..Len(s) /\ s2[q] = s[q]
    BY <2>1, <2>3, <1>4 DEF Channel!Numbered
  <2>. QED BY <1>1, <2>2, <2>3
<1>5. ASSUME NEW r \in 1..(k + 1)
      PROVE  \E p \in 1..Len(s2) : s2[p].type = t /\ s2[p].round = r
  <2>1. CASE r = k + 1
    BY <2>1, <1>2a
  <2>2. CASE r \in 1..k
    <3>1. PICK p \in 1..Len(s) : s[p].type = t /\ s[p].round = r
      BY <2>2 DEF Channel!Numbered
    <3>. QED BY <3>1, <1>2
  <2>. QED BY <2>1, <2>2
<1>6. Channel(ch)!Numbered(s2, t, k + 1)
  BY <1>3, <1>4, <1>5 DEF Channel!Numbered
<1>. QED BY <1>6 DEF s2

\* A cursor inside the log is not affected by what is appended to it.
LEMMA UptoAppend ==
  ASSUME NEW ch \in Chan, NEW s \in Seq(Channel(ch)!Entry), NEW e \in Channel(ch)!Entry, NEW t,
         NEW c \in Nat, NEW h \in Nat,
         Channel(ch)!Upto(s, t, c, h), c <= Len(s), e.type = t => e.round > h
  PROVE  Channel(ch)!Upto(Append(s, e), t, c, h)
<1>. DEFINE s2 == Append(s, e)
<1>1. \A p \in 1..Len(s2) : (p \in 1..Len(s) /\ s2[p] = s[p]) \/ (p = Len(s) + 1 /\ s2[p] = e)
  BY AppendFacts
<1>2. Len(s) \in Nat /\ e.round \in Nat
  BY DEF Channel!Entry
<1>. HIDE DEF s2
<1>3. ASSUME NEW p \in 1..Len(s2), s2[p].type = t
      PROVE  p <= c <=> s2[p].round <= h
  <2>1. CASE p \in 1..Len(s) /\ s2[p] = s[p]
    BY <1>3, <2>1 DEF Channel!Upto
  <2>2. CASE p = Len(s) + 1 /\ s2[p] = e
    BY <1>3, <2>2, <1>2
  <2>. QED BY <1>1, <2>1, <2>2
<1>. QED BY <1>3 DEF Channel!Upto, s2

\* The next sync (or ack) that a node receives from a peer is the one of the
\* round after those it has handled: none is lost, repeated or overtaken.
LEMMA NextRound ==
  ASSUME NEW ch \in Chan, NEW s \in Seq(Channel(ch)!Entry), NEW t \in {"sync", "ack"},
         NEW k \in Nat, NEW c \in Nat,
         NEW h \in Nat, NEW j \in Node, NEW p \in 1..Len(s),
         Channel(ch)!Numbered(s, t, k), Channel(ch)!Upto(s, t, c, h), h <= k,
         Channel(ch)!IsNext(s, c, j, p), s[p].type = t
  PROVE  /\ h + 1 <= k
         /\ s[p].round = h + 1
         /\ Channel(ch)!Upto(s, t, p, h + 1)
<1>1. s[p].round \in 1..k /\ p > c /\ p \in Nat
  BY EntryFields DEF Channel!Numbered, Channel!IsNext
<1>2. s[p].round > h
  BY <1>1, EntryFields DEF Channel!Upto
<1>3. h + 1 \in 1..k
  BY <1>1, <1>2
<1>4. PICK q \in 1..Len(s) : s[q].type = t /\ s[q].round = h + 1
  BY <1>3 DEF Channel!Numbered
<1>5. q > c /\ q \in Nat
  BY <1>4, EntryFields DEF Channel!Upto
<1>6. Channel(ch)!Visible(s[q], j)
  BY <1>4 DEF Channel!Visible
<1>7. q >= p
  BY <1>1, <1>5, <1>6 DEF Channel!IsNext
<1>8. ~(q > p)
  BY <1>1, <1>2, <1>4, <1>5 DEF Channel!Numbered
<1>9. q = p
  BY <1>1, <1>5, <1>7, <1>8
<1>10. s[p].round = h + 1
  BY <1>4, <1>9
<1>11. ASSUME NEW r \in 1..Len(s), s[r].type = t
       PROVE  r <= p <=> s[r].round <= h + 1
  <2>1. s[r].round \in Nat /\ r \in Nat
    BY EntryFields
  <2>2. r < p => s[r].round < s[p].round
    BY <1>11 DEF Channel!Numbered
  <2>3. p < r => s[p].round < s[r].round
    BY <1>11 DEF Channel!Numbered
  <2>. QED BY <2>1, <2>2, <2>3, <1>10, <1>1
<1>. QED BY <1>3, <1>10, <1>11 DEF Channel!Upto

\* Taking a message of one type does not move past one of another type that
\* is broadcast.
LEMMA SkipsNone ==
  ASSUME NEW ch \in Chan, NEW s \in Seq(Channel(ch)!Entry), NEW u \in {"sync", "ack"},
         NEW c \in Nat,
         NEW h \in Nat, NEW j \in Node, NEW p \in 1..Len(s),
         Channel(ch)!Upto(s, u, c, h), Channel(ch)!IsNext(s, c, j, p), s[p].type # u
  PROVE  Channel(ch)!Upto(s, u, p, h)
<1>1. p > c /\ p \in Nat
  BY EntryFields DEF Channel!IsNext
<1>2. ASSUME NEW r \in 1..Len(s), s[r].type = u
      PROVE  r <= p <=> r <= c
  <2>1. r \in Nat /\ r # p
    BY <1>2, EntryFields
  <2>2. Channel(ch)!Visible(s[r], j)
    BY <1>2 DEF Channel!Visible
  <2>3. ~(r \in (c + 1)..(p - 1))
    BY <2>2 DEF Channel!IsNext
  <2>. QED BY <1>1, <2>1, <2>3
<1>. QED BY <1>2 DEF Channel!Upto

-----------------------------------------------------------------------------
(* Counting.                                                               *)

\* How far apart the stages of the barrier can be on different nodes.
LEMMA Bounds ==
  ASSUME NEW ch \in Chan, Channel(ch)!IInv, NEW i \in Node, NEW j \in Node
  PROVE  /\ completed[ch][j] \in Nat /\ called[ch][i] \in Nat /\ acked[ch][j] \in Nat
         /\ returned[ch][j] \in Nat
         /\ syncsFrom[ch][j][i] \in Nat /\ acksFrom[ch][j][i] \in Nat
         /\ completed[ch][j] <= acked[ch][i]
         /\ acked[ch][j] <= syncsFrom[ch][j][i]
         /\ syncsFrom[ch][j][i] <= called[ch][i]
         /\ acksFrom[ch][j][i] <= acked[ch][i]
         /\ completed[ch][j] <= acksFrom[ch][j][i]
         /\ called[ch][i] <= completed[ch][i] + 1
         /\ completed[ch][i] <= called[ch][i]
         /\ returned[ch][i] <= completed[ch][i]
<1>t. /\ log[ch] \in [Node -> Seq(Channel(ch)!Entry)]
      /\ Channel(ch)!LinksType /\ Channel(ch)!WorkerType /\ Channel(ch)!CountsType
      /\ Channel(ch)!ClosingType /\ Channel(ch)!RoundsType /\ Channel(ch)!FromType
  BY Types DEF Channel!IInv
<1>1. Channel(ch)!RoundsType /\ Channel(ch)!FromType
  BY <1>t DEF Channel!IInv
<1>2. /\ completed[ch][j] \in Nat /\ called[ch][i] \in Nat /\ acked[ch][j] \in Nat
      /\ returned[ch][j] \in Nat
      /\ completed[ch][i] \in Nat /\ called[ch][j] \in Nat /\ acked[ch][i] \in Nat
      /\ returned[ch][i] \in Nat
  BY <1>1 DEF Channel!RoundsType
<1>3. /\ \A a, b \in Node : syncsFrom[ch][a][b] \in Nat
      /\ \A a, b \in Node : acksFrom[ch][a][b] \in Nat
  BY <1>1 DEF Channel!FromType
<1>4. \A a, b \in Node : /\ completed[ch][a] <= acksFrom[ch][a][b]
                         /\ acksFrom[ch][a][b] <= acked[ch][b]
                         /\ acked[ch][a] <= syncsFrom[ch][a][b]
                         /\ syncsFrom[ch][a][b] <= called[ch][b]
  BY DEF Channel!IInv, Channel!ChainInv
<1>5. returned[ch][i] <= completed[ch][i] /\ called[ch][i] <= returned[ch][i] + 1
  BY <1>2 DEF Channel!IInv, Channel!WorkerInv
<1>6. /\ completed[ch][j] <= acksFrom[ch][j][i] /\ acksFrom[ch][j][i] <= acked[ch][i]
      /\ acked[ch][j] <= syncsFrom[ch][j][i] /\ syncsFrom[ch][j][i] <= called[ch][i]
      /\ completed[ch][i] <= acksFrom[ch][i][i] /\ acksFrom[ch][i][i] <= acked[ch][i]
      /\ acked[ch][i] <= syncsFrom[ch][i][i] /\ syncsFrom[ch][i][i] <= called[ch][i]
  BY <1>4
<1>. QED BY <1>2, <1>3, <1>5, <1>6

\* No node is more than one round ahead of another.
LEMMA OneRoundApart ==
  ASSUME NEW ch \in Chan, Channel(ch)!IInv, NEW i \in Node, NEW j \in Node
  PROVE  completed[ch][i] <= completed[ch][j] + 1
<1>1. completed[ch][i] <= acked[ch][j]
  BY Bounds
<1>2. /\ acked[ch][j] <= syncsFrom[ch][j][j] /\ syncsFrom[ch][j][j] <= called[ch][j]
      /\ called[ch][j] <= completed[ch][j] + 1
  BY Bounds
<1>3. /\ completed[ch][i] \in Nat /\ acked[ch][j] \in Nat /\ called[ch][j] \in Nat
      /\ completed[ch][j] \in Nat
      /\ syncsFrom[ch][j][j] \in Nat
  BY Bounds
<1>. QED BY <1>1, <1>2, <1>3

\* A sync of the round after next cannot be handled before the ack of the
\* next one was sent.
LEMMA AheadNeedsAck ==
  ASSUME NEW ch \in Chan, Channel(ch)!IInv, NEW i \in Node, NEW j \in Node,
         called[ch][i] >= completed[ch][j] + 2
  PROVE  acked[ch][j] = completed[ch][j] + 1 /\ Channel(ch)!SyncsAhead(j, 1) = Node
<1>1. called[ch][i] <= completed[ch][i] + 1 /\ completed[ch][i] <= acked[ch][j]
  BY Bounds
<1>2. acked[ch][j] <= called[ch][j] /\ called[ch][j] <= completed[ch][j] + 1
  BY Bounds
<1>3. /\ completed[ch][i] \in Nat /\ acked[ch][j] \in Nat /\ called[ch][j] \in Nat
      /\ completed[ch][j] \in Nat
      /\ called[ch][i] \in Nat
  BY Bounds
<1>4. acked[ch][j] = completed[ch][j] + 1
  BY <1>1, <1>2, <1>3
<1>5. \A k \in Node : syncsFrom[ch][j][k] >= completed[ch][j] + 1
  BY <1>4, Bounds
<1>. QED BY <1>4, <1>5 DEF Channel!SyncsAhead

\* What HandleSync does to the count of syncs.
LEMMA SyncCount ==
  ASSUME NEW ch \in Chan, Channel(ch)!IInv, NEW j \in Node, NEW i \in Node,
         completed'[ch] = completed[ch],
         syncsFrom'[ch] = [syncsFrom[ch] EXCEPT ![j][i] = @ + 1], syncsFrom[ch][j][i] + 1 <= called[ch][i]
  PROVE  /\ syncCounter[ch][j] + 1 = Cardinality(Channel(ch)!SyncsAhead(j, 1)') + Cardinality(Channel(ch)!SyncsAhead(j, 2)')
         /\ syncCounter[ch][j] + 1 = Channel(ch)!size => Channel(ch)!SyncsAhead(j, 1)' = Node /\ acked[ch][j] = completed[ch][j]
         /\ Channel(ch)!SyncsAhead(j, 1)' = Node =>
              acked[ch][j] = completed[ch][j] + 1 \/ syncCounter[ch][j] + 1 = Channel(ch)!size
<1>t. /\ log[ch] \in [Node -> Seq(Channel(ch)!Entry)]
      /\ Channel(ch)!LinksType /\ Channel(ch)!WorkerType /\ Channel(ch)!CountsType
      /\ Channel(ch)!ClosingType /\ Channel(ch)!RoundsType /\ Channel(ch)!FromType
  BY Types DEF Channel!IInv
<1>. DEFINE S1 == Channel(ch)!SyncsAhead(j, 1)'
            S2 == Channel(ch)!SyncsAhead(j, 2)'
            h == syncsFrom[ch][j][i]
            R == completed[ch][j]
            A1 == Channel(ch)!SyncsAhead(j, 1)
            A2 == Channel(ch)!SyncsAhead(j, 2)
<1>. SUFFICES /\ syncCounter[ch][j] + 1 = Cardinality(S1) + Cardinality(S2)
              /\ syncCounter[ch][j] + 1 = Channel(ch)!size => S1 = Node /\ acked[ch][j] = R
              /\ S1 = Node => acked[ch][j] = R + 1 \/ syncCounter[ch][j] + 1 = Channel(ch)!size
  OBVIOUS
<1>1. syncsFrom'[ch][j][i] = h + 1 /\ \A k \in Node : k # i => syncsFrom'[ch][j][k] = syncsFrom[ch][j][k]
  BY CellIncrement, <1>t DEF Channel!IInv, Channel!FromType
<1>2. h \in Nat /\ R \in Nat /\ R <= h /\ \A k \in Node : syncsFrom[ch][j][k] \in Nat
  <2>1. h \in Nat /\ R \in Nat /\ acked[ch][j] \in Nat /\ R <= acked[ch][j] /\ acked[ch][j] <= h
    BY Bounds
  <2>2. \A k \in Node : syncsFrom[ch][j][k] \in Nat
    BY Bounds
  <2>. QED BY <2>1, <2>2
<1>3. h + 1 <= R + 2
  <2>1. called[ch][i] <= completed[ch][i] + 1 /\ called[ch][i] \in Nat /\ completed[ch][i] \in Nat
    BY Bounds
  <2>2. completed[ch][i] <= R + 1
    BY OneRoundApart
  <2>. QED BY <1>2, <2>1, <2>2
<1>4. /\ A1 \in SUBSET Node /\ A2 \in SUBSET Node
      /\ S1 \in SUBSET Node /\ S2 \in SUBSET Node
  BY DEF Channel!SyncsAhead
<1>5. /\ Cardinality(A1) \in Nat /\ Cardinality(A2) \in Nat
      /\ Cardinality(A1) = Channel(ch)!size <=> A1 = Node
      /\ Cardinality(S1) = Channel(ch)!size <=> S1 = Node
      /\ Channel(ch)!size \in Nat
  BY <1>4, SubsetSize, SizePositive
<1>6. syncCounter[ch][j] = Cardinality(A1) + Cardinality(A2)
  BY Counted DEF Channel!IInv, Channel!CounterInv
<1>7. CASE h = R
  <2>1. i \notin A1 /\ S1 = A1 \cup {i}
    BY <1>1, <1>2, <1>7 DEF Channel!SyncsAhead
  <2>2. S2 = A2
    BY <1>1, <1>2, <1>7 DEF Channel!SyncsAhead
  <2>3. A2 = {}
    <3>. SUFFICES ASSUME NEW k \in A2 PROVE FALSE
      OBVIOUS
    <3>1. k \in Node /\ syncsFrom[ch][j][k] >= R + 2
      BY DEF Channel!SyncsAhead
    <3>2. syncsFrom[ch][j][k] <= called[ch][k] /\ syncsFrom[ch][j][k] \in Nat /\ called[ch][k] \in Nat
      BY <3>1, Bounds
    <3>3. called[ch][k] >= completed[ch][j] + 2
      BY <3>1, <3>2, <1>2
    <3>4. A1 = Node
      BY <3>1, <3>3, AheadNeedsAck
    <3>. QED BY <3>4, <2>1
  <2>4. Cardinality(A2) = 0 /\ Cardinality(S2) = 0
    BY <2>2, <2>3, FS_EmptySet
  <2>5. Cardinality(S1) = Cardinality(A1) + 1
    BY <2>1, <1>4, AddNode
  <2>6. acked[ch][j] = R
    <3>1. R <= acked[ch][j] /\ acked[ch][j] <= h /\ acked[ch][j] \in Nat
      BY Bounds
    <3>. QED BY <3>1, <1>2, <1>7
  <2>. HIDE DEF A1, A2, S1, S2, h, R
  <2>7. syncCounter[ch][j] + 1 = Cardinality(S1)
    BY <1>5, <1>6, <2>4, <2>5
  <2>. QED BY <1>5, <2>4, <2>5, <2>6, <2>7
<1>8. CASE h = R + 1
  <2>1. i \notin A2 /\ S2 = A2 \cup {i}
    BY <1>1, <1>2, <1>8 DEF Channel!SyncsAhead
  <2>2. S1 = A1
    BY <1>1, <1>2, <1>8 DEF Channel!SyncsAhead
  <2>3. called[ch][i] >= completed[ch][j] + 2
    <3>1. called[ch][i] \in Nat
      BY Bounds
    <3>. QED BY <3>1, <1>2, <1>8
  <2>4. acked[ch][j] = R + 1 /\ A1 = Node
    BY <2>3, AheadNeedsAck
  <2>5. Cardinality(S2) = Cardinality(A2) + 1
    BY <2>1, <1>4, AddNode
  <2>. HIDE DEF A1, A2, S1, S2, h, R
  <2>. QED BY <1>5, <1>6, <2>2, <2>4, <2>5
<1>. QED BY <1>2, <1>3, <1>7, <1>8

\* What HandleAck does to the count of acks.
AcksCounted(ch, j) == {k \in Node : acksFrom'[ch][j][k] >= completed[ch][j] + 1}

\* The acks counted of this round, with the one that is handled.
LEMMA AckCount ==
  ASSUME NEW ch \in Chan, Channel(ch)!IInv, NEW j \in Node, NEW i \in Node,
         acksFrom'[ch] = [acksFrom[ch] EXCEPT ![j][i] = @ + 1], acksFrom[ch][j][i] + 1 <= acked[ch][i]
  PROVE  /\ ackCounter[ch][j] + 1 = Cardinality(AcksCounted(ch, j))
         /\ ackCounter[ch][j] + 1 = Channel(ch)!size => AcksCounted(ch, j) = Node
         /\ acked[ch][i] = completed[ch][j] + 1
         /\ acksFrom[ch][j][i] = completed[ch][j]
<1>t. /\ log[ch] \in [Node -> Seq(Channel(ch)!Entry)]
      /\ Channel(ch)!LinksType /\ Channel(ch)!WorkerType /\ Channel(ch)!CountsType
      /\ Channel(ch)!ClosingType /\ Channel(ch)!RoundsType /\ Channel(ch)!FromType
  BY Types DEF Channel!IInv
<1>. DEFINE S == AcksCounted(ch, j)
            h == acksFrom[ch][j][i]
            R == completed[ch][j]
            A == Channel(ch)!AcksAhead(j)
<1>1. acksFrom'[ch][j][i] = h + 1 /\ \A k \in Node : k # i => acksFrom'[ch][j][k] = acksFrom[ch][j][k]
  BY CellIncrement, <1>t DEF Channel!IInv, Channel!FromType
<1>2. h \in Nat /\ R \in Nat /\ R <= h /\ \A k \in Node : acksFrom[ch][j][k] \in Nat
  BY Bounds
<1>3. acked[ch][i] <= R + 1 /\ acked[ch][i] \in Nat
  <2>1. acked[ch][i] <= syncsFrom[ch][i][j] /\ acked[ch][i] \in Nat
    BY Bounds
  <2>2. syncsFrom[ch][i][j] <= called[ch][j] /\ called[ch][j] <= R + 1
    BY Bounds
  <2>3. syncsFrom[ch][i][j] \in Nat /\ called[ch][j] \in Nat
    BY Bounds
  <2>. QED BY <1>2, <2>1, <2>2, <2>3
<1>4. h = R /\ acked[ch][i] = R + 1
  BY <1>2, <1>3
<1>5. i \notin A /\ S = A \cup {i}
  BY <1>1, <1>2, <1>4 DEF Channel!AcksAhead, AcksCounted
<1>6. A \in SUBSET Node /\ S \in SUBSET Node
  BY DEF Channel!AcksAhead, AcksCounted
<1>7. Cardinality(S) = Cardinality(A) + 1
  BY <1>5, <1>6, AddNode
<1>8. ackCounter[ch][j] = Cardinality(A)
  BY Counted DEF Channel!IInv, Channel!CounterInv
<1>9. Cardinality(S) = Channel(ch)!size => S = Node
  BY <1>6, SubsetSize
<1>. QED BY <1>4, <1>7, <1>8, <1>9

-----------------------------------------------------------------------------
(* What pushing to a send queue preserves.                                 *)

\* What a push does to each log, position by position.
LEMMA PushEffect ==
  ASSUME NEW ch \in Chan, Channel(ch)!TypeOK, NEW n \in Node, NEW t \in Channel(ch)!MsgType,
         NEW d \in Node, NEW r \in Nat,
         Channel(ch)!Push(n, t, d, r)
  PROVE  /\ \A a \in Node : a # n => log'[ch][a] = log[ch][a]
         /\ \E e \in Channel(ch)!Entry : e.type = t /\ e.round = r /\ log'[ch][n] = Append(log[ch][n], e)
         /\ \A a \in Node : log[ch][a] \in Seq(Channel(ch)!Entry)
<1>t. /\ log[ch] \in [Node -> Seq(Channel(ch)!Entry)]
      /\ Channel(ch)!LinksType /\ Channel(ch)!WorkerType /\ Channel(ch)!CountsType
      /\ Channel(ch)!ClosingType /\ Channel(ch)!RoundsType /\ Channel(ch)!FromType
  BY Types
<1>. DEFINE e == [type |-> t, dest |-> d, round |-> r]
<1>1. log[ch] \in [Node -> Seq(Channel(ch)!Entry)]
  BY <1>t
<1>2. e \in Channel(ch)!Entry /\ e.type = t /\ e.round = r
  BY DEF Channel!Entry
<1>3. log'[ch] = [log[ch] EXCEPT ![n] = Append(log[ch][n], e)]
  BY DEF Channel!Push
<1>. HIDE DEF e
<1>. QED BY <1>1, <1>2, <1>3

\* A push keeps the messages of a type numbered.
LEMMA LogPush ==
  ASSUME NEW ch \in Chan, Channel(ch)!IInv, NEW n \in Node, NEW t \in Channel(ch)!MsgType,
         NEW d \in Node, NEW r \in Nat,
         Channel(ch)!Push(n, t, d, r),
         t = "sync" => r = called[ch][n] + 1 /\ called'[ch] = [called[ch] EXCEPT ![n] = @ + 1],
         t = "ack" => r = acked[ch][n] + 1 /\ acked'[ch] = [acked[ch] EXCEPT ![n] = @ + 1],
         t # "sync" => called'[ch] = called[ch], t # "ack" => acked'[ch] = acked[ch]
  PROVE  Channel(ch)!LogInv'
<1>t. /\ log[ch] \in [Node -> Seq(Channel(ch)!Entry)]
      /\ Channel(ch)!LinksType /\ Channel(ch)!WorkerType /\ Channel(ch)!CountsType
      /\ Channel(ch)!ClosingType /\ Channel(ch)!RoundsType /\ Channel(ch)!FromType
  BY Types DEF Channel!IInv
<1>1. PICK e \in Channel(ch)!Entry : e.type = t /\ e.round = r /\ log'[ch][n] = Append(log[ch][n], e)
  BY PushEffect DEF Channel!IInv
<1>2. \A a \in Node : /\ a # n => log'[ch][a] = log[ch][a]
                      /\ log[ch][a] \in Seq(Channel(ch)!Entry)
  BY PushEffect DEF Channel!IInv
<1>3. called[ch] \in [Node -> Nat] /\ acked[ch] \in [Node -> Nat]
  BY <1>t DEF Channel!IInv, Channel!RoundsType
<1>4. /\ Channel(ch)!Numbered(log[ch][n], "sync", called[ch][n])
      /\ Channel(ch)!Numbered(log[ch][n], "ack", acked[ch][n])
  BY DEF Channel!IInv, Channel!LogInv
<1>5. Channel(ch)!Numbered(log'[ch][n], "sync", called'[ch][n])
  <2>1. CASE t = "sync"
    <3>1. called'[ch][n] = called[ch][n] + 1 /\ called[ch][n] \in Nat
      BY <2>1, <1>3
    <3>2. e.type = t /\ e.round = called[ch][n] + 1 /\ log[ch][n] \in Seq(Channel(ch)!Entry)
      BY <2>1, <1>1, <1>2
    <3>3. Channel(ch)!Numbered(Append(log[ch][n], e), t, called[ch][n] + 1)
      BY <2>1, <3>1, <3>2, <1>4, NumberedSame
    <3>. QED BY <2>1, <3>1, <3>3, <1>1
  <2>2. CASE t # "sync"
    BY <2>2, <1>1, <1>2, <1>3, <1>4, NumberedOther
  <2>. QED BY <2>1, <2>2
<1>6. Channel(ch)!Numbered(log'[ch][n], "ack", acked'[ch][n])
  <2>1. CASE t = "ack"
    <3>1. acked'[ch][n] = acked[ch][n] + 1 /\ acked[ch][n] \in Nat
      BY <2>1, <1>3
    <3>2. e.type = t /\ e.round = acked[ch][n] + 1 /\ log[ch][n] \in Seq(Channel(ch)!Entry)
      BY <2>1, <1>1, <1>2
    <3>3. Channel(ch)!Numbered(Append(log[ch][n], e), t, acked[ch][n] + 1)
      BY <2>1, <3>1, <3>2, <1>4, NumberedSame
    <3>. QED BY <2>1, <3>1, <3>3, <1>1
  <2>2. CASE t # "ack"
    BY <2>2, <1>1, <1>2, <1>3, <1>4, NumberedOther
  <2>. QED BY <2>1, <2>2
<1>7. ASSUME NEW a \in Node, a # n
      PROVE  /\ Channel(ch)!Numbered(log'[ch][a], "sync", called'[ch][a])
             /\ Channel(ch)!Numbered(log'[ch][a], "ack", acked'[ch][a])
  <2>1. called'[ch][a] = called[ch][a] /\ acked'[ch][a] = acked[ch][a] /\ log'[ch][a] = log[ch][a]
    BY <1>7, <1>2, <1>3
  <2>. QED BY <2>1 DEF Channel!IInv, Channel!LogInv
<1>. QED BY <1>5, <1>6, <1>7 DEF Channel!LogInv

\* The cursors of CursorInv, over the log before a push.
CursorsFit(ch) ==
  \A b, a \in Node :
    /\ handled'[ch][b][a] <= arrived'[ch][b][a]
    /\ arrived'[ch][b][a] <= Len(log[ch][a])
    /\ Channel(ch)!Upto(log[ch][a], "sync", handled'[ch][b][a], syncsFrom'[ch][b][a])
    /\ Channel(ch)!Upto(log[ch][a], "ack", handled'[ch][b][a], acksFrom'[ch][b][a])
    /\ syncsFrom'[ch][b][a] <= called[ch][a]
    /\ acksFrom'[ch][b][a] <= acked[ch][a]

\* A push keeps the cursors and the rounds they have reached in step.
LEMMA CursorPush ==
  ASSUME NEW ch \in Chan, Channel(ch)!IInv, Channel(ch)!TypeOK', NEW n \in Node,
         NEW t \in Channel(ch)!MsgType, NEW d \in Node, NEW r \in Nat,
         Channel(ch)!Push(n, t, d, r), CursorsFit(ch),
         t = "sync" => r = called[ch][n] + 1, t = "ack" => r = acked[ch][n] + 1
  PROVE  Channel(ch)!CursorInv'
<1>1. PICK e \in Channel(ch)!Entry : e.type = t /\ e.round = r /\ log'[ch][n] = Append(log[ch][n], e)
  BY PushEffect DEF Channel!IInv
<1>2. \A a \in Node : /\ a # n => log'[ch][a] = log[ch][a]
                      /\ log[ch][a] \in Seq(Channel(ch)!Entry)
  BY PushEffect DEF Channel!IInv
<1>3. /\ \A b, a \in Node : handled'[ch][b][a] \in Nat /\ arrived'[ch][b][a] \in Nat
      /\ \A b, a \in Node : syncsFrom'[ch][b][a] \in Nat /\ acksFrom'[ch][b][a] \in Nat
  <2>1. Channel(ch)!LinksType' /\ Channel(ch)!FromType'
    BY DEF Channel!TypeOK
  <2>. QED BY <2>1 DEF Channel!LinksType, Channel!FromType
<1>4. called[ch][n] \in Nat /\ acked[ch][n] \in Nat
  BY Bounds
<1>5. ASSUME NEW b \in Node
      PROVE  /\ arrived'[ch][b][n] <= Len(log'[ch][n])
             /\ Channel(ch)!Upto(log'[ch][n], "sync", handled'[ch][b][n], syncsFrom'[ch][b][n])
             /\ Channel(ch)!Upto(log'[ch][n], "ack", handled'[ch][b][n], acksFrom'[ch][b][n])
  <2>1. Len(log'[ch][n]) = Len(log[ch][n]) + 1 /\ Len(log[ch][n]) \in Nat
    BY <1>1, <1>2, AppendFacts
  <2>2. /\ handled'[ch][b][n] \in Nat /\ arrived'[ch][b][n] \in Nat
        /\ syncsFrom'[ch][b][n] \in Nat /\ acksFrom'[ch][b][n] \in Nat
    BY <1>3
  <2>3. /\ handled'[ch][b][n] <= arrived'[ch][b][n] /\ arrived'[ch][b][n] <= Len(log[ch][n])
        /\ Channel(ch)!Upto(log[ch][n], "sync", handled'[ch][b][n], syncsFrom'[ch][b][n])
        /\ Channel(ch)!Upto(log[ch][n], "ack", handled'[ch][b][n], acksFrom'[ch][b][n])
        /\ syncsFrom'[ch][b][n] <= called[ch][n] /\ acksFrom'[ch][b][n] <= acked[ch][n]
    BY DEF CursorsFit
  <2>4. handled'[ch][b][n] <= Len(log[ch][n])
    BY <2>1, <2>2, <2>3
  <2>5. e.type = "sync" => e.round > syncsFrom'[ch][b][n]
    BY <1>1, <1>4, <2>2, <2>3
  <2>6. e.type = "ack" => e.round > acksFrom'[ch][b][n]
    BY <1>1, <1>4, <2>2, <2>3
  <2>7. Channel(ch)!Upto(Append(log[ch][n], e), "sync", handled'[ch][b][n], syncsFrom'[ch][b][n])
    BY <1>2, <2>2, <2>3, <2>4, <2>5, UptoAppend
  <2>8. Channel(ch)!Upto(Append(log[ch][n], e), "ack", handled'[ch][b][n], acksFrom'[ch][b][n])
    BY <1>2, <2>2, <2>3, <2>4, <2>6, UptoAppend
  <2>. QED BY <1>1, <2>1, <2>2, <2>3, <2>7, <2>8
<1>. QED BY <1>2, <1>5 DEF Channel!CursorInv, CursorsFit

\* A push by a node that has not marked EOF keeps EOF the last message.
LEMMA EofPush ==
  ASSUME NEW ch \in Chan, Channel(ch)!IInv, NEW n \in Node, NEW t \in Channel(ch)!MsgType,
         NEW d \in Node, NEW r \in Nat,
         Channel(ch)!Push(n, t, d, r), pc[ch][n] \in {"run", "wait"},
         \A a \in Node : a # n => pc'[ch][a] = pc[ch][a],
         t = "eof" <=> pc'[ch][n] \in {"marking", "closed"}
  PROVE  Channel(ch)!EofInv'
<1>1. PICK e \in Channel(ch)!Entry : e.type = t /\ e.round = r /\ log'[ch][n] = Append(log[ch][n], e)
  BY PushEffect DEF Channel!IInv
<1>2. \A a \in Node : /\ a # n => log'[ch][a] = log[ch][a]
                      /\ log[ch][a] \in Seq(Channel(ch)!Entry)
  BY PushEffect DEF Channel!IInv
<1>3. Channel(ch)!EofLast(log[ch][n]) /\ ~Channel(ch)!EndsInEof(log[ch][n])
  BY DEF Channel!IInv, Channel!EofInv
<1>4. \A p \in 1..Len(log[ch][n]) : log[ch][n][p].type # "eof"
  BY <1>2, <1>3 DEF Channel!EofLast, Channel!EndsInEof
<1>5. /\ Len(log'[ch][n]) = Len(log[ch][n]) + 1 /\ Len(log[ch][n]) \in Nat
      /\ \A p \in 1..Len(log[ch][n]) : log'[ch][n][p] = log[ch][n][p]
      /\ log'[ch][n][Len(log[ch][n]) + 1] = e
  BY <1>1, <1>2, AppendFacts
<1>6. Channel(ch)!EofLast(log'[ch][n])
  <2>1. PICK k \in Nat : k = Len(log[ch][n])
    BY <1>5
  <2>2. \A p \in 1..(k + 1) : p # k + 1 => p \in 1..k
    OBVIOUS
  <2>3. \A p \in 1..Len(log'[ch][n]) : log'[ch][n][p].type = "eof" => p = Len(log'[ch][n])
    BY <1>4, <1>5, <2>1, <2>2
  <2>. QED BY <2>3 DEF Channel!EofLast
<1>7. Channel(ch)!EndsInEof(log'[ch][n]) <=> t = "eof"
  BY <1>1, <1>5 DEF Channel!EndsInEof
<1>8. ASSUME NEW a \in Node, a # n
      PROVE  Channel(ch)!EofLast(log'[ch][a]) /\ (Channel(ch)!EndsInEof(log'[ch][a]) <=> pc'[ch][a] \in {"marking", "closed"})
  <2>1. log'[ch][a] = log[ch][a] /\ pc'[ch][a] = pc[ch][a]
    BY <1>2, <1>8
  <2>. QED BY <2>1 DEF Channel!IInv, Channel!EofInv
<1>. QED BY <1>6, <1>7, <1>8 DEF Channel!EofInv

\* A push changes nothing in what has arrived.
LEMMA ClosingPush ==
  ASSUME NEW ch \in Chan, Channel(ch)!IInv, NEW n \in Node, NEW t \in Channel(ch)!MsgType,
         NEW d \in Node, NEW r \in Nat,
         Channel(ch)!Push(n, t, d, r), UNCHANGED <<arrived[ch], Channel(ch)!closing>>
  PROVE  Channel(ch)!ClosingInv'
<1>t. /\ log[ch] \in [Node -> Seq(Channel(ch)!Entry)]
      /\ Channel(ch)!LinksType /\ Channel(ch)!WorkerType /\ Channel(ch)!CountsType
      /\ Channel(ch)!ClosingType /\ Channel(ch)!RoundsType /\ Channel(ch)!FromType
  BY Types DEF Channel!IInv
<1>1. PICK e \in Channel(ch)!Entry : e.type = t /\ e.round = r /\ log'[ch][n] = Append(log[ch][n], e)
  BY PushEffect DEF Channel!IInv
<1>2. \A a \in Node : /\ a # n => log'[ch][a] = log[ch][a]
                      /\ log[ch][a] \in Seq(Channel(ch)!Entry)
  BY PushEffect DEF Channel!IInv
<1>3. \A p \in 1..Len(log[ch][n]) : log'[ch][n][p] = log[ch][n][p]
  BY <1>1, <1>2, AppendFacts
<1>4. ASSUME NEW j \in Node, NEW a \in Node, arrived[ch][j][a] > 0
      PROVE  log'[ch][a][arrived[ch][j][a]] = log[ch][a][arrived[ch][j][a]]
  <2>1. arrived[ch][j][a] \in Nat /\ arrived[ch][j][a] <= Len(log[ch][a]) /\ Len(log[ch][a]) \in Nat
    BY <1>t, LenNat DEF Channel!IInv, Channel!LinksType, Channel!CursorInv
  <2>2. arrived[ch][j][a] \in 1..Len(log[ch][a])
    BY <2>1, <1>4
  <2>. QED BY <2>2, <1>2, <1>3
<1>5. \A j \in Node : Channel(ch)!EofsArrived(j)' = Channel(ch)!EofsArrived(j)
  BY <1>4 DEF Channel!EofsArrived
<1>. QED BY <1>5 DEF Channel!IInv, Channel!ClosingInv, Channel!closing

\* Steps that touch neither the cursors nor the counters.
LEMMA CounterFrame ==
  ASSUME NEW ch \in Chan, Channel(ch)!IInv,
         UNCHANGED <<syncCounter[ch], ackCounter[ch], completed[ch], acked[ch], syncsFrom[ch],
                     acksFrom[ch]>>
  PROVE  Channel(ch)!CounterInv'
<1>1. \A j \in Node : /\ Channel(ch)!SyncsAhead(j, 1)' = Channel(ch)!SyncsAhead(j, 1)
                      /\ Channel(ch)!SyncsAhead(j, 2)' = Channel(ch)!SyncsAhead(j, 2)
                      /\ Channel(ch)!AcksAhead(j)' = Channel(ch)!AcksAhead(j)
  BY DEF Channel!SyncsAhead, Channel!AcksAhead
<1>. QED BY <1>1 DEF Channel!IInv, Channel!CounterInv

\* ClosingInv depends on the logs, what arrived and the counters only.
LEMMA ClosingFrame ==
  ASSUME NEW ch \in Chan, Channel(ch)!IInv,
         UNCHANGED <<log[ch], arrived[ch], eofCounter[ch], recvEof[ch]>>
  PROVE  Channel(ch)!ClosingInv'
<1>1. \A j \in Node : Channel(ch)!EofsArrived(j)' = Channel(ch)!EofsArrived(j)
  BY DEF Channel!EofsArrived
<1>. QED BY <1>1 DEF Channel!IInv, Channel!ClosingInv

\* Cursors that stay where they are still fit the rounds.
LEMMA CursorsUnmoved ==
  ASSUME NEW ch \in Chan, Channel(ch)!IInv,
         UNCHANGED <<arrived[ch], handled[ch], syncsFrom[ch], acksFrom[ch]>>
  PROVE  CursorsFit(ch)
<1>1. \A b, a \in Node : syncsFrom[ch][b][a] <= called[ch][a] /\ acksFrom[ch][b][a] <= acked[ch][a]
  BY Bounds
<1>. QED BY <1>1 DEF Channel!IInv, Channel!CursorInv, CursorsFit

-----------------------------------------------------------------------------
(* Every action preserves the invariant.                                   *)

\* Each action keeps the invariant: sending data ...
LEMMA InvSend ==
  ASSUME NEW ch \in Chan, Channel(ch)!IInv, Channel(ch)!TypeOK', NEW n \in Node,
         NEW d \in Node, Channel(ch)!Send(n, d)
  PROVE  Channel(ch)!IInv'
<1>1. /\ Channel(ch)!Push(n, "data", d, 0) /\ pc[ch][n] = "run"
      /\ UNCHANGED <<arrived[ch], handled[ch], pc[ch], synchronized[ch], syncCounter[ch],
                     ackCounter[ch],
                     eofCounter[ch], recvEof[ch], failed[ch], called[ch], returned[ch], acked[ch], completed[ch],
                     syncsFrom[ch], acksFrom[ch]>>
  BY DEF Channel!Send, Channel!links, Channel!counts, Channel!closing, Channel!history
<1>2. Channel(ch)!LogInv'
  BY <1>1, LogPush DEF Channel!MsgType
<1>3. Channel(ch)!CursorInv'
  BY <1>1, CursorsUnmoved, CursorPush DEF Channel!MsgType
<1>4. Channel(ch)!EofInv'
  BY <1>1, EofPush DEF Channel!MsgType
<1>5. Channel(ch)!ClosingInv'
  BY <1>1, ClosingPush DEF Channel!MsgType, Channel!closing
<1>6. Channel(ch)!CounterInv'
  BY <1>1, CounterFrame
<1>7. Channel(ch)!ChainInv' /\ Channel(ch)!WorkerInv' /\ Channel(ch)!NeverFails'
  BY <1>1 DEF Channel!IInv, Channel!ChainInv, Channel!WorkerInv, Channel!NeverFails
<1>. QED BY <1>2, <1>3, <1>4, <1>5, <1>6, <1>7 DEF Channel!IInv

\* ... calling synchronize() ...
LEMMA InvSynchronize ==
  ASSUME NEW ch \in Chan, Channel(ch)!IInv, Channel(ch)!TypeOK', NEW n \in Node,
         Channel(ch)!Synchronize(n)
  PROVE  Channel(ch)!IInv'
<1>t. /\ log[ch] \in [Node -> Seq(Channel(ch)!Entry)]
      /\ Channel(ch)!LinksType /\ Channel(ch)!WorkerType /\ Channel(ch)!CountsType
      /\ Channel(ch)!ClosingType /\ Channel(ch)!RoundsType /\ Channel(ch)!FromType
  BY Types DEF Channel!IInv
<1>1. /\ Channel(ch)!Push(n, "sync", n, called[ch][n] + 1) /\ pc[ch][n] = "run"
      /\ called'[ch] = [called[ch] EXCEPT ![n] = @ + 1]
      /\ pc'[ch] = [pc[ch] EXCEPT ![n] = "wait"]
      /\ UNCHANGED <<arrived[ch], handled[ch], synchronized[ch], syncCounter[ch], ackCounter[ch],
                     eofCounter[ch], recvEof[ch], failed[ch], returned[ch], acked[ch], completed[ch],
                     syncsFrom[ch], acksFrom[ch]>>
  BY DEF Channel!Synchronize, Channel!links, Channel!counts, Channel!closing
<1>2. called[ch][n] + 1 \in Nat
  BY Bounds
<1>3. pc[ch] \in [Node -> {"run", "wait", "marking", "closed"}] /\ called[ch] \in [Node -> Nat]
  BY <1>t DEF Channel!IInv, Channel!WorkerType, Channel!RoundsType
<1>4. Channel(ch)!LogInv'
  BY <1>1, <1>2, LogPush DEF Channel!MsgType
<1>5. Channel(ch)!CursorInv'
  BY <1>1, <1>2, CursorsUnmoved, CursorPush DEF Channel!MsgType
<1>6. Channel(ch)!EofInv'
  <2>1. pc'[ch][n] = "wait" /\ \A a \in Node : a # n => pc'[ch][a] = pc[ch][a]
    BY <1>1, <1>3
  <2>. QED BY <1>1, <1>2, <2>1, EofPush DEF Channel!MsgType
<1>7. Channel(ch)!ClosingInv'
  BY <1>1, <1>2, ClosingPush DEF Channel!MsgType, Channel!closing
<1>8. Channel(ch)!CounterInv'
  BY <1>1, CounterFrame
<1>9. Channel(ch)!ChainInv'
  <2>. SUFFICES ASSUME NEW j \in Node, NEW i \in Node
                PROVE  syncsFrom[ch][j][i] <= called'[ch][i]
    BY <1>1 DEF Channel!IInv, Channel!ChainInv
  <2>1. syncsFrom[ch][j][i] <= called[ch][i] /\ syncsFrom[ch][j][i] \in Nat /\ called[ch][i] \in Nat
    BY Bounds
  <2>2. called'[ch][i] = called[ch][i] \/ called'[ch][i] = called[ch][i] + 1
    BY <1>1, <1>3
  <2>. QED BY <2>1, <2>2
<1>10. Channel(ch)!WorkerInv'
  BY <1>1, <1>3 DEF Channel!IInv, Channel!WorkerInv
<1>11. Channel(ch)!NeverFails'
  BY <1>1 DEF Channel!IInv, Channel!NeverFails
<1>. QED BY <1>4, <1>5, <1>6, <1>7, <1>8, <1>9, <1>10, <1>11 DEF Channel!IInv

\* ... returning from it ...
LEMMA InvSynchronizeReturns ==
  ASSUME NEW ch \in Chan, Channel(ch)!IInv, Channel(ch)!TypeOK', NEW n \in Node,
         Channel(ch)!SynchronizeReturns(n)
  PROVE  Channel(ch)!IInv'
<1>t. /\ log[ch] \in [Node -> Seq(Channel(ch)!Entry)]
      /\ Channel(ch)!LinksType /\ Channel(ch)!WorkerType /\ Channel(ch)!CountsType
      /\ Channel(ch)!ClosingType /\ Channel(ch)!RoundsType /\ Channel(ch)!FromType
  BY Types DEF Channel!IInv
<1>1. /\ pc[ch][n] = "wait" /\ synchronized[ch][n]
      /\ synchronized'[ch] = [synchronized[ch] EXCEPT ![n] = FALSE]
      /\ returned'[ch] = [returned[ch] EXCEPT ![n] = @ + 1]
      /\ pc'[ch] = [pc[ch] EXCEPT ![n] = "run"]
      /\ UNCHANGED <<log[ch], arrived[ch], handled[ch], syncCounter[ch], ackCounter[ch],
                     eofCounter[ch], recvEof[ch],
                     failed[ch], called[ch], acked[ch], completed[ch], syncsFrom[ch], acksFrom[ch]>>
  BY DEF Channel!SynchronizeReturns, Channel!Awakened, Channel!links, Channel!counts, Channel!closing
<1>2. /\ pc[ch] \in [Node -> {"run", "wait", "marking", "closed"}]
      /\ synchronized[ch] \in [Node -> BOOLEAN] /\ returned[ch] \in [Node -> Nat]
  BY <1>t DEF Channel!IInv, Channel!WorkerType, Channel!RoundsType
<1>3. /\ Channel(ch)!LogInv' /\ Channel(ch)!CursorInv' /\ Channel(ch)!ChainInv'
      /\ Channel(ch)!NeverFails'
  BY <1>1 DEF Channel!IInv, Channel!LogInv, Channel!CursorInv, Channel!ChainInv, Channel!NeverFails
<1>4. Channel(ch)!CounterInv'
  BY <1>1, CounterFrame
<1>5. Channel(ch)!ClosingInv'
  BY <1>1, ClosingFrame
<1>6. Channel(ch)!EofInv'
  <2>1. pc'[ch][n] = "run" /\ \A a \in Node : a # n => pc'[ch][a] = pc[ch][a]
    BY <1>1, <1>2
  <2>. QED BY <1>1, <2>1 DEF Channel!IInv, Channel!EofInv
<1>7. Channel(ch)!WorkerInv'
  <2>. SUFFICES ASSUME NEW a \in Node
                PROVE  /\ called[ch][a] = IF pc'[ch][a] = "wait" THEN returned'[ch][a] + 1 ELSE returned'[ch][a]
                       /\ completed[ch][a] = IF synchronized'[ch][a] THEN returned'[ch][a] + 1
                                                             ELSE returned'[ch][a]
    BY <1>1 DEF Channel!WorkerInv
  <2>1. CASE a = n
    BY <2>1, <1>1, <1>2 DEF Channel!IInv, Channel!WorkerInv
  <2>2. CASE a # n
    BY <2>2, <1>1, <1>2 DEF Channel!IInv, Channel!WorkerInv
  <2>. QED BY <2>1, <2>2
<1>. QED BY <1>3, <1>4, <1>5, <1>6, <1>7 DEF Channel!IInv

\* ... pushing EOF ...
LEMMA InvPushEof ==
  ASSUME NEW ch \in Chan, Channel(ch)!IInv, Channel(ch)!TypeOK', NEW n \in Node,
         Channel(ch)!PushEof(n)
  PROVE  Channel(ch)!IInv'
<1>t. /\ log[ch] \in [Node -> Seq(Channel(ch)!Entry)]
      /\ Channel(ch)!LinksType /\ Channel(ch)!WorkerType /\ Channel(ch)!CountsType
      /\ Channel(ch)!ClosingType /\ Channel(ch)!RoundsType /\ Channel(ch)!FromType
  BY Types DEF Channel!IInv
<1>1. /\ Channel(ch)!Push(n, "eof", n, 0) /\ pc[ch][n] = "run"
      /\ pc'[ch] = [pc[ch] EXCEPT ![n] = "marking"]
      /\ UNCHANGED <<arrived[ch], handled[ch], synchronized[ch], syncCounter[ch], ackCounter[ch],
                     eofCounter[ch], recvEof[ch], failed[ch], called[ch], returned[ch], acked[ch], completed[ch],
                     syncsFrom[ch], acksFrom[ch]>>
  BY DEF Channel!PushEof, Channel!links, Channel!counts, Channel!closing, Channel!history
<1>2. pc[ch] \in [Node -> {"run", "wait", "marking", "closed"}]
  BY <1>t DEF Channel!IInv, Channel!WorkerType
<1>3. Channel(ch)!LogInv'
  BY <1>1, LogPush DEF Channel!MsgType
<1>4. Channel(ch)!CursorInv'
  BY <1>1, CursorsUnmoved, CursorPush DEF Channel!MsgType
<1>5. pc'[ch][n] = "marking" /\ \A a \in Node : a # n => pc'[ch][a] = pc[ch][a]
  BY <1>1, <1>2
<1>6. Channel(ch)!EofInv'
  BY <1>1, <1>5, EofPush DEF Channel!MsgType
<1>7. Channel(ch)!ClosingInv'
  BY <1>1, ClosingPush DEF Channel!MsgType, Channel!closing
<1>8. Channel(ch)!CounterInv'
  BY <1>1, CounterFrame
<1>9. Channel(ch)!ChainInv' /\ Channel(ch)!NeverFails'
  BY <1>1 DEF Channel!IInv, Channel!ChainInv, Channel!NeverFails
<1>10. Channel(ch)!WorkerInv'
  BY <1>1, <1>5 DEF Channel!IInv, Channel!WorkerInv
<1>. QED BY <1>3, <1>4, <1>6, <1>7, <1>8, <1>9, <1>10 DEF Channel!IInv

\* ... marking the send queue ...
LEMMA InvMarkEof ==
  ASSUME NEW ch \in Chan, Channel(ch)!IInv, Channel(ch)!TypeOK', NEW n \in Node,
         Channel(ch)!MarkEof(n)
  PROVE  Channel(ch)!IInv'
<1>t. /\ log[ch] \in [Node -> Seq(Channel(ch)!Entry)]
      /\ Channel(ch)!LinksType /\ Channel(ch)!WorkerType /\ Channel(ch)!CountsType
      /\ Channel(ch)!ClosingType /\ Channel(ch)!RoundsType /\ Channel(ch)!FromType
  BY Types DEF Channel!IInv
<1>1. /\ pc[ch][n] = "marking"
      /\ pc'[ch] = [pc[ch] EXCEPT ![n] = "closed"]
      /\ UNCHANGED <<log[ch], arrived[ch], handled[ch], synchronized[ch], syncCounter[ch],
                     ackCounter[ch],
                     eofCounter[ch], recvEof[ch], failed[ch], called[ch], returned[ch], acked[ch], completed[ch],
                     syncsFrom[ch], acksFrom[ch]>>
  BY DEF Channel!MarkEof, Channel!links, Channel!counts, Channel!closing, Channel!history
<1>2. pc[ch] \in [Node -> {"run", "wait", "marking", "closed"}]
  BY <1>t DEF Channel!IInv, Channel!WorkerType
<1>3. pc'[ch][n] = "closed" /\ \A a \in Node : a # n => pc'[ch][a] = pc[ch][a]
  BY <1>1, <1>2
<1>4. /\ Channel(ch)!LogInv' /\ Channel(ch)!CursorInv' /\ Channel(ch)!ChainInv'
      /\ Channel(ch)!NeverFails'
  BY <1>1 DEF Channel!IInv, Channel!LogInv, Channel!CursorInv, Channel!ChainInv, Channel!NeverFails
<1>5. Channel(ch)!CounterInv'
  BY <1>1, CounterFrame
<1>6. Channel(ch)!ClosingInv'
  BY <1>1, ClosingFrame
<1>7. Channel(ch)!EofInv' /\ Channel(ch)!WorkerInv'
  BY <1>1, <1>3 DEF Channel!IInv, Channel!EofInv, Channel!WorkerInv
<1>. QED BY <1>4, <1>5, <1>6, <1>7 DEF Channel!IInv

\* ... the main loop dispatching a message ...
LEMMA InvArrive ==
  ASSUME NEW ch \in Chan, Channel(ch)!IInv, Channel(ch)!TypeOK', NEW j \in Node,
         NEW i \in Node, Channel(ch)!Arrive(j, i)
  PROVE  Channel(ch)!IInv'
<1>t. /\ log[ch] \in [Node -> Seq(Channel(ch)!Entry)]
      /\ Channel(ch)!LinksType /\ Channel(ch)!WorkerType /\ Channel(ch)!CountsType
      /\ Channel(ch)!ClosingType /\ Channel(ch)!RoundsType /\ Channel(ch)!FromType
  BY Types DEF Channel!IInv
<1>1. PICK p \in 1..Len(log[ch][i]) :
        /\ Channel(ch)!IsNext(log[ch][i], arrived[ch][j][i], j, p)
        /\ arrived'[ch] = [arrived[ch] EXCEPT ![j][i] = p]
        /\ \/ /\ log[ch][i][p].type = "eof"
              /\ eofCounter'[ch] = [eofCounter[ch] EXCEPT ![j] = @ + 1]
              /\ recvEof'[ch] = [recvEof[ch] EXCEPT ![j] = @ \/ eofCounter[ch][j] + 1 = Channel(ch)!size]
              /\ failed'[ch] = failed[ch]
           \/ /\ log[ch][i][p].type # "eof"
              /\ failed'[ch] = [failed[ch] EXCEPT ![j] = @ \/ recvEof[ch][j]]
              /\ eofCounter'[ch] = eofCounter[ch] /\ recvEof'[ch] = recvEof[ch]
  BY DEF Channel!Arrive, Channel!EofFromAll, Channel!closing
<1>2. UNCHANGED <<log[ch], handled[ch], pc[ch], synchronized[ch], syncCounter[ch], ackCounter[ch],
                  called[ch], returned[ch], acked[ch], completed[ch], syncsFrom[ch], acksFrom[ch]>>
  BY DEF Channel!Arrive, Channel!EofFromAll, Channel!counts, Channel!history
<1>3. /\ log[ch][i] \in Seq(Channel(ch)!Entry) /\ Len(log[ch][i]) \in Nat /\ p \in Nat
      /\ arrived[ch][j][i] \in Nat /\ handled[ch][j][i] \in Nat
  BY <1>t, LenNat DEF Channel!IInv, Channel!LinksType
<1>4. arrived'[ch][j][i] = p /\ \A a, b \in Node : a # j \/ b # i => arrived'[ch][a][b] = arrived[ch][a][b]
  <2>1. PICK f \in [Node -> [Node -> Nat]] : f = arrived[ch]
    BY <1>t DEF Channel!LinksType
  <2>2. PICK g : g = arrived'[ch] /\ g = [f EXCEPT ![j][i] = p]
    BY <1>1, <2>1
  <2>3. g[j][i] = p /\ \A a, b \in Node : a # j \/ b # i => g[a][b] = f[a][b]
    BY <1>3, <2>2, CellUpdate
  <2>. QED BY <2>1, <2>2, <2>3
<1>5. arrived[ch][j][i] < p
  BY <1>1, <1>3 DEF Channel!IsNext
<1>6. handled[ch][j][i] <= arrived[ch][j][i] /\ arrived[ch][j][i] <= Len(log[ch][i])
  BY DEF Channel!IInv, Channel!CursorInv
<1>7. i \notin Channel(ch)!EofsArrived(j)
  <2>. SUFFICES ASSUME arrived[ch][j][i] > 0, log[ch][i][arrived[ch][j][i]].type = "eof" PROVE FALSE
    BY DEF Channel!EofsArrived
  <2>1. arrived[ch][j][i] \in 1..Len(log[ch][i])
    BY <1>3, <1>6
  <2>2. arrived[ch][j][i] = Len(log[ch][i])
    BY <2>1 DEF Channel!IInv, Channel!EofInv, Channel!EofLast
  <2>. QED BY <2>2, <1>3, <1>5
<1>8. ~recvEof[ch][j]
  BY <1>7 DEF Channel!IInv, Channel!ClosingInv
<1>9. /\ eofCounter[ch] \in [Node -> Nat] /\ recvEof[ch] \in [Node -> BOOLEAN]
      /\ failed[ch] \in [Node -> BOOLEAN]
  BY <1>t DEF Channel!IInv, Channel!ClosingType, Channel!WorkerType
<1>10. Channel(ch)!LogInv' /\ Channel(ch)!ChainInv' /\ Channel(ch)!WorkerInv' /\ Channel(ch)!EofInv'
  BY <1>2 DEF Channel!IInv, Channel!LogInv, Channel!ChainInv, Channel!WorkerInv, Channel!EofInv
<1>11. Channel(ch)!CounterInv'
  BY <1>2, CounterFrame
<1>12. Channel(ch)!CursorInv'
  <2>1. ASSUME NEW a \in Node, NEW b \in Node
        PROVE  handled[ch][a][b] <= arrived'[ch][a][b] /\ arrived'[ch][a][b] <= Len(log[ch][b])
    <3>1. CASE a = j /\ b = i
      BY <3>1, <1>3, <1>4, <1>5, <1>6
    <3>2. CASE a # j \/ b # i
      BY <3>2, <1>4 DEF Channel!IInv, Channel!CursorInv
    <3>. QED BY <3>1, <3>2
  <2>. QED BY <2>1, <1>2 DEF Channel!IInv, Channel!CursorInv
<1>13. Channel(ch)!NeverFails'
  BY <1>1, <1>8, <1>9 DEF Channel!IInv, Channel!NeverFails
<1>14. Channel(ch)!ClosingInv'
  <2>1. \A a \in Node : a # j => Channel(ch)!EofsArrived(a)' = Channel(ch)!EofsArrived(a)
    BY <1>2, <1>4 DEF Channel!EofsArrived
  <2>2. Channel(ch)!EofsArrived(j) \in SUBSET Node
    BY DEF Channel!EofsArrived
  <2>3. eofCounter[ch][j] = Cardinality(Channel(ch)!EofsArrived(j))
    BY Counted DEF Channel!IInv, Channel!ClosingInv
  <2>4. CASE log[ch][i][p].type = "eof"
    <3>1. Channel(ch)!EofsArrived(j)' = Channel(ch)!EofsArrived(j) \cup {i}
      BY <2>4, <1>2, <1>3, <1>4 DEF Channel!EofsArrived
    <3>2. Cardinality(Channel(ch)!EofsArrived(j)') = eofCounter[ch][j] + 1
      BY <3>1, <2>2, <2>3, <1>7, AddNode
    <3>3. eofCounter[ch][j] + 1 = Channel(ch)!size <=> Channel(ch)!EofsArrived(j)' = Node
      BY <3>1, <3>2, <2>2, SubsetSize
    <3>4. /\ eofCounter'[ch] = [eofCounter[ch] EXCEPT ![j] = @ + 1]
          /\ recvEof'[ch] = [recvEof[ch] EXCEPT ![j] = @ \/ eofCounter[ch][j] + 1 = Channel(ch)!size]
      BY <2>4, <1>1
    <3>5. eofCounter'[ch][j] = eofCounter[ch][j] + 1 /\ \A a \in Node : a # j => eofCounter'[ch][a] = eofCounter[ch][a]
      BY <3>4, <1>9
    <3>6. /\ recvEof'[ch][j] <=> eofCounter[ch][j] + 1 = Channel(ch)!size
          /\ \A a \in Node : a # j => recvEof'[ch][a] = recvEof[ch][a]
      BY <3>4, <1>8, <1>9
    <3>. QED BY <2>1, <3>2, <3>3, <3>5, <3>6, Counted DEF Channel!IInv, Channel!ClosingInv
  <2>5. CASE log[ch][i][p].type # "eof"
    <3>1. Channel(ch)!EofsArrived(j)' = Channel(ch)!EofsArrived(j)
      BY <2>5, <1>2, <1>4, <1>7 DEF Channel!EofsArrived
    <3>2. eofCounter'[ch] = eofCounter[ch] /\ recvEof'[ch] = recvEof[ch]
      BY <2>5, <1>1
    <3>. QED BY <2>1, <3>1, <3>2 DEF Channel!IInv, Channel!ClosingInv
  <2>. QED BY <2>4, <2>5
<1>. QED BY <1>10, <1>11, <1>12, <1>13, <1>14 DEF Channel!IInv

\* What every step of the receive handler does to its cursor.
LEMMA TakeEffect ==
  ASSUME NEW ch \in Chan, Channel(ch)!IInv, NEW j \in Node, NEW i \in Node, NEW t,
         NEW p \in 1..Len(log[ch][i]),
         Channel(ch)!TakesNext(j, i, t, p)
  PROVE  /\ Channel(ch)!IsNext(log[ch][i], handled[ch][j][i], j, p) /\ log[ch][i][p].type = t
         /\ p <= arrived[ch][j][i] /\ arrived[ch][j][i] <= Len(log[ch][i])
         /\ handled'[ch][j][i] = p
         /\ \A a, b \in Node : a # j \/ b # i => handled'[ch][a][b] = handled[ch][a][b]
         /\ log[ch][i] \in Seq(Channel(ch)!Entry) /\ p \in Nat /\ handled[ch][j][i] \in Nat
<1>t. /\ log[ch] \in [Node -> Seq(Channel(ch)!Entry)]
      /\ Channel(ch)!LinksType /\ Channel(ch)!WorkerType /\ Channel(ch)!CountsType
      /\ Channel(ch)!ClosingType /\ Channel(ch)!RoundsType /\ Channel(ch)!FromType
  BY Types DEF Channel!IInv
<1>1. log[ch][i] \in Seq(Channel(ch)!Entry) /\ p \in Nat /\ handled[ch][j][i] \in Nat
  BY <1>t, LenNat DEF Channel!IInv, Channel!LinksType
<1>2. /\ handled'[ch][j][i] = p
      /\ \A a, b \in Node : a # j \/ b # i => handled'[ch][a][b] = handled[ch][a][b]
  <2>1. PICK f \in [Node -> [Node -> Nat]] : f = handled[ch]
    BY <1>t DEF Channel!LinksType
  <2>2. PICK g : g = handled'[ch] /\ g = [f EXCEPT ![j][i] = p]
    BY <2>1 DEF Channel!TakesNext
  <2>3. g[j][i] = p /\ \A a, b \in Node : a # j \/ b # i => g[a][b] = f[a][b]
    BY <1>1, <2>2, CellUpdate
  <2>. QED BY <2>1, <2>2, <2>3
<1>. QED BY <1>1, <1>2 DEF Channel!TakesNext, Channel!IInv, Channel!CursorInv

\* ... handling data ...
LEMMA InvHandleData ==
  ASSUME NEW ch \in Chan, Channel(ch)!IInv, Channel(ch)!TypeOK', NEW j \in Node,
         NEW i \in Node, Channel(ch)!HandleData(j, i)
  PROVE  Channel(ch)!IInv'
<1>1. PICK p \in 1..Len(log[ch][i]) : Channel(ch)!TakesNext(j, i, "data", p)
  BY DEF Channel!HandleData
<1>2. UNCHANGED <<log[ch], arrived[ch], pc[ch], synchronized[ch], syncCounter[ch], ackCounter[ch],
                  eofCounter[ch],
                  recvEof[ch], failed[ch], called[ch], returned[ch], acked[ch], completed[ch], syncsFrom[ch], acksFrom[ch]>>
  BY DEF Channel!HandleData, Channel!counts, Channel!closing, Channel!history
<1>3. /\ Channel(ch)!LogInv' /\ Channel(ch)!ChainInv' /\ Channel(ch)!WorkerInv'
      /\ Channel(ch)!EofInv' /\ Channel(ch)!NeverFails'
  BY <1>2 DEF Channel!IInv, Channel!LogInv, Channel!ChainInv, Channel!WorkerInv, Channel!EofInv,
     Channel!NeverFails
<1>4. Channel(ch)!CounterInv' /\ Channel(ch)!ClosingInv'
  BY <1>2, CounterFrame, ClosingFrame
<1>5. Channel(ch)!CursorInv'
  <2>1. /\ Channel(ch)!Upto(log[ch][i], "sync", handled[ch][j][i], syncsFrom[ch][j][i])
        /\ Channel(ch)!Upto(log[ch][i], "ack", handled[ch][j][i], acksFrom[ch][j][i])
    BY DEF Channel!IInv, Channel!CursorInv
  <2>2. syncsFrom[ch][j][i] \in Nat /\ acksFrom[ch][j][i] \in Nat
    BY Bounds
  <2>3. /\ Channel(ch)!Upto(log[ch][i], "sync", p, syncsFrom[ch][j][i])
        /\ Channel(ch)!Upto(log[ch][i], "ack", p, acksFrom[ch][j][i])
    BY <1>1, <2>1, <2>2, TakeEffect, SkipsNone
  <2>4. ASSUME NEW a \in Node, NEW b \in Node
        PROVE  /\ handled'[ch][a][b] <= arrived[ch][a][b] /\ arrived[ch][a][b] <= Len(log[ch][b])
               /\ Channel(ch)!Upto(log[ch][b], "sync", handled'[ch][a][b], syncsFrom[ch][a][b])
               /\ Channel(ch)!Upto(log[ch][b], "ack", handled'[ch][a][b], acksFrom[ch][a][b])
    <3>1. CASE a = j /\ b = i
      BY <3>1, <1>1, <2>3, TakeEffect
    <3>2. CASE a # j \/ b # i
      <4>1. handled'[ch][a][b] = handled[ch][a][b]
        BY <3>2, <1>1, TakeEffect
      <4>. QED BY <4>1 DEF Channel!IInv, Channel!CursorInv
    <3>. QED BY <3>1, <3>2
  <2>. QED BY <2>4, <1>2 DEF Channel!CursorInv
<1>. QED BY <1>3, <1>4, <1>5 DEF Channel!IInv

\* ... handling a sync, which may send an ack ...
LEMMA InvHandleSync ==
  ASSUME NEW ch \in Chan, Channel(ch)!IInv, Channel(ch)!TypeOK', NEW j \in Node,
         NEW i \in Node, Channel(ch)!HandleSync(j, i)
  PROVE  Channel(ch)!IInv'
<1>t. /\ log[ch] \in [Node -> Seq(Channel(ch)!Entry)]
      /\ Channel(ch)!LinksType /\ Channel(ch)!WorkerType /\ Channel(ch)!CountsType
      /\ Channel(ch)!ClosingType /\ Channel(ch)!RoundsType /\ Channel(ch)!FromType
  BY Types DEF Channel!IInv
<1>1. PICK p \in 1..Len(log[ch][i]) : Channel(ch)!TakesNext(j, i, "sync", p)
  BY DEF Channel!HandleSync, Channel!SyncFromAll
<1>2. /\ syncsFrom'[ch] = [syncsFrom[ch] EXCEPT ![j][i] = @ + 1]
      /\ syncCounter'[ch] = [syncCounter[ch] EXCEPT ![j] = @ + 1]
      /\ syncCounter[ch][j] + 1 = Channel(ch)!size => Channel(ch)!SendAck(j)
      /\ syncCounter[ch][j] + 1 # Channel(ch)!size => UNCHANGED <<log[ch], acked[ch], failed[ch]>>
      /\ UNCHANGED <<arrived[ch], pc[ch], synchronized[ch], ackCounter[ch], eofCounter[ch],
                     recvEof[ch],
                     called[ch], returned[ch], completed[ch], acksFrom[ch]>>
  BY DEF Channel!HandleSync, Channel!SyncFromAll, Channel!closing
<1>3. /\ syncsFrom'[ch][j][i] = syncsFrom[ch][j][i] + 1
      /\ \A a, b \in Node : a # j \/ b # i => syncsFrom'[ch][a][b] = syncsFrom[ch][a][b]
  <2>1. PICK f \in [Node -> [Node -> Nat]] : f = syncsFrom[ch]
    BY <1>t DEF Channel!FromType
  <2>2. PICK g : g = syncsFrom'[ch] /\ g = [f EXCEPT ![j][i] = @ + 1]
    BY <1>2, <2>1
  <2>3. g[j][i] = f[j][i] + 1 /\ \A a, b \in Node : a # j \/ b # i => g[a][b] = f[a][b]
    BY <2>2, CellIncrement
  <2>. QED BY <2>1, <2>2, <2>3
<1>4. /\ syncsFrom[ch][j][i] + 1 <= called[ch][i]
      /\ Channel(ch)!Upto(log[ch][i], "sync", p, syncsFrom[ch][j][i] + 1)
      /\ Channel(ch)!Upto(log[ch][i], "ack", p, acksFrom[ch][j][i])
  <2>1. /\ Channel(ch)!Upto(log[ch][i], "sync", handled[ch][j][i], syncsFrom[ch][j][i])
        /\ Channel(ch)!Upto(log[ch][i], "ack", handled[ch][j][i], acksFrom[ch][j][i])
        /\ Channel(ch)!Numbered(log[ch][i], "sync", called[ch][i])
    BY DEF Channel!IInv, Channel!CursorInv, Channel!LogInv
  <2>2. /\ syncsFrom[ch][j][i] \in Nat /\ acksFrom[ch][j][i] \in Nat /\ called[ch][i] \in Nat
        /\ syncsFrom[ch][j][i] <= called[ch][i]
    BY Bounds
  <2>3. /\ Channel(ch)!IsNext(log[ch][i], handled[ch][j][i], j, p) /\ log[ch][i][p].type = "sync"
        /\ log[ch][i] \in Seq(Channel(ch)!Entry) /\ handled[ch][j][i] \in Nat
    BY <1>1, TakeEffect
  <2>4. /\ syncsFrom[ch][j][i] + 1 <= called[ch][i]
        /\ Channel(ch)!Upto(log[ch][i], "sync", p, syncsFrom[ch][j][i] + 1)
    BY <2>1, <2>2, <2>3, NextRound
  <2>5. Channel(ch)!Upto(log[ch][i], "ack", p, acksFrom[ch][j][i])
    BY <2>1, <2>2, <2>3, SkipsNone
  <2>. QED BY <2>4, <2>5
<1>5. CursorsFit(ch)
  <2>1. ASSUME NEW a \in Node, NEW b \in Node
        PROVE  /\ handled'[ch][a][b] <= arrived[ch][a][b] /\ arrived[ch][a][b] <= Len(log[ch][b])
               /\ Channel(ch)!Upto(log[ch][b], "sync", handled'[ch][a][b], syncsFrom'[ch][a][b])
               /\ Channel(ch)!Upto(log[ch][b], "ack", handled'[ch][a][b], acksFrom[ch][a][b])
               /\ syncsFrom'[ch][a][b] <= called[ch][b]
               /\ acksFrom[ch][a][b] <= acked[ch][b]
    <3>1. acksFrom[ch][a][b] <= acked[ch][b] /\ syncsFrom[ch][a][b] <= called[ch][b]
      BY Bounds
    <3>2. CASE a = j /\ b = i
      BY <3>1, <3>2, <1>1, <1>3, <1>4, TakeEffect
    <3>3. CASE a # j \/ b # i
      <4>1. handled'[ch][a][b] = handled[ch][a][b] /\ syncsFrom'[ch][a][b] = syncsFrom[ch][a][b]
        BY <3>3, <1>1, <1>3, TakeEffect
      <4>. QED BY <3>1, <4>1 DEF Channel!IInv, Channel!CursorInv
    <3>. QED BY <3>2, <3>3
  <2>. QED BY <2>1, <1>2 DEF CursorsFit
<1>8. /\ syncCounter[ch][j] + 1 = Cardinality(Channel(ch)!SyncsAhead(j, 1)') + Cardinality(Channel(ch)!SyncsAhead(j, 2)')
      /\ syncCounter[ch][j] + 1 = Channel(ch)!size => Channel(ch)!SyncsAhead(j, 1)' = Node /\ acked[ch][j] = completed[ch][j]
      /\ Channel(ch)!SyncsAhead(j, 1)' = Node => acked[ch][j] = completed[ch][j] + 1 \/ syncCounter[ch][j] + 1 = Channel(ch)!size
  BY <1>2, <1>4, SyncCount
<1>9. /\ \A k \in Node : k # j => Channel(ch)!SyncsAhead(k, 1)' = Channel(ch)!SyncsAhead(k, 1)
      /\ \A k \in Node : k # j => Channel(ch)!SyncsAhead(k, 2)' = Channel(ch)!SyncsAhead(k, 2)
      /\ \A k \in Node : Channel(ch)!AcksAhead(k)' = Channel(ch)!AcksAhead(k)
  BY <1>2, <1>3 DEF Channel!SyncsAhead, Channel!AcksAhead
<1>10. /\ syncCounter'[ch][j] = syncCounter[ch][j] + 1
       /\ \A k \in Node : k # j => syncCounter'[ch][k] = syncCounter[ch][k]
  BY <1>2, <1>t DEF Channel!IInv, Channel!CountsType
<1>11. Channel(ch)!WorkerInv'
  BY <1>2 DEF Channel!IInv, Channel!WorkerInv
<1>12. CASE syncCounter[ch][j] + 1 = Channel(ch)!size
  <2>1. \A k \in Node : syncsFrom'[ch][j][k] >= completed[ch][j] + 1
    BY <1>2, <1>8, <1>12 DEF Channel!SyncsAhead
  <2>2. pc[ch][j] = "wait"
    <3>1. syncsFrom'[ch][j][j] >= completed[ch][j] + 1 /\ syncsFrom'[ch][j][j] <= called[ch][j]
      BY <2>1, <1>2, <1>5 DEF CursorsFit
    <3>2. completed[ch][j] >= returned[ch][j] /\ completed[ch][j] \in Nat /\ called[ch][j] \in Nat
          /\ returned[ch][j] \in Nat
      BY Bounds
    <3>3. syncsFrom'[ch][j][j] \in Nat
      BY DEF Channel!TypeOK, Channel!FromType
    <3>4. called[ch][j] # returned[ch][j]
      BY <3>1, <3>2, <3>3
    <3>. QED BY <3>4 DEF Channel!IInv, Channel!WorkerInv
  <2>3. /\ Channel(ch)!Push(j, "ack", j, acked[ch][j] + 1)
        /\ acked'[ch] = [acked[ch] EXCEPT ![j] = @ + 1]
        /\ failed'[ch] = failed[ch]
    BY <2>2, <1>2, <1>12 DEF Channel!SendAck
  <2>4. acked[ch][j] + 1 \in Nat
    BY Bounds
  <2>5. /\ acked'[ch][j] = completed[ch][j] + 1
        /\ \A k \in Node : k # j => acked'[ch][k] = acked[ch][k]
        /\ \A k \in Node : acked'[ch][k] >= acked[ch][k]
    <3>1. acked[ch] \in [Node -> Nat]
      BY <1>t DEF Channel!IInv, Channel!RoundsType
    <3>. QED BY <2>3, <3>1, <1>8, <1>12
  <2>6. Channel(ch)!LogInv'
    BY <2>3, <2>4, <1>2, LogPush DEF Channel!MsgType
  <2>7. Channel(ch)!CursorInv'
    BY <2>3, <2>4, <1>5, CursorPush DEF Channel!MsgType
  <2>8. Channel(ch)!EofInv'
    BY <2>2, <2>3, <2>4, <1>2, EofPush DEF Channel!MsgType
  <2>9. Channel(ch)!ClosingInv'
    BY <2>3, <2>4, <1>2, ClosingPush DEF Channel!MsgType, Channel!closing
  <2>10. Channel(ch)!CounterInv'
    BY <2>5, <1>2, <1>8, <1>9, <1>10, Counted DEF Channel!IInv, Channel!CounterInv
  <2>11. Channel(ch)!ChainInv'
    <3>1. ASSUME NEW a \in Node, NEW b \in Node
          PROVE  /\ completed[ch][a] <= acksFrom[ch][a][b] /\ acksFrom[ch][a][b] <= acked'[ch][b]
                 /\ acked'[ch][a] <= syncsFrom'[ch][a][b] /\ syncsFrom'[ch][a][b] <= called[ch][b]
      <4>1. /\ completed[ch][a] <= acksFrom[ch][a][b] /\ acksFrom[ch][a][b] <= acked[ch][b]
            /\ acksFrom[ch][a][b] \in Nat /\ acked[ch][b] \in Nat
            /\ acked[ch][a] <= syncsFrom[ch][a][b]
        BY Bounds
      <4>2. acked'[ch][b] \in Nat /\ acked'[ch][b] >= acked[ch][b]
        BY <2>5 DEF Channel!TypeOK, Channel!RoundsType
      <4>3. syncsFrom'[ch][a][b] <= called[ch][b]
        BY <1>2, <1>5 DEF CursorsFit
      <4>4. acked'[ch][a] <= syncsFrom'[ch][a][b]
        <5>1. CASE a = j
          BY <5>1, <2>1, <2>5
        <5>2. CASE a # j
          BY <5>2, <4>1, <1>3, <2>5
        <5>. QED BY <5>1, <5>2
      <4>. QED BY <4>1, <4>2, <4>3, <4>4
    <3>. QED BY <3>1, <1>2 DEF Channel!ChainInv
  <2>12. Channel(ch)!NeverFails'
    BY <2>3 DEF Channel!IInv, Channel!NeverFails
  <2>. QED BY <1>11, <2>6, <2>7, <2>8, <2>9, <2>10, <2>11, <2>12 DEF Channel!IInv
<1>13. CASE syncCounter[ch][j] + 1 # Channel(ch)!size
  <2>1. UNCHANGED <<log[ch], acked[ch], failed[ch]>>
    BY <1>2, <1>13
  <2>2. Channel(ch)!LogInv' /\ Channel(ch)!EofInv' /\ Channel(ch)!NeverFails'
    BY <2>1, <1>2 DEF Channel!IInv, Channel!LogInv, Channel!EofInv, Channel!NeverFails
  <2>3. Channel(ch)!ClosingInv'
    BY <2>1, <1>2, ClosingFrame
  <2>4. Channel(ch)!CursorInv'
    BY <2>1, <1>2, <1>5 DEF Channel!CursorInv, CursorsFit
  <2>5. Channel(ch)!CounterInv'
    BY <2>1, <1>2, <1>8, <1>9, <1>10, <1>13, Counted DEF Channel!IInv, Channel!CounterInv
  <2>6. Channel(ch)!ChainInv'
    <3>1. ASSUME NEW a \in Node, NEW b \in Node
          PROVE  acked[ch][a] <= syncsFrom'[ch][a][b] /\ syncsFrom'[ch][a][b] <= called[ch][b]
      <4>1. acked[ch][a] <= syncsFrom[ch][a][b] /\ acked[ch][a] \in Nat /\ syncsFrom[ch][a][b] \in Nat
        BY Bounds
      <4>2. syncsFrom'[ch][a][b] = syncsFrom[ch][a][b] \/ syncsFrom'[ch][a][b] = syncsFrom[ch][a][b] + 1
        BY <1>3
      <4>3. syncsFrom'[ch][a][b] <= called[ch][b]
        BY <1>2, <1>5 DEF CursorsFit
      <4>. QED BY <4>1, <4>2, <4>3
    <3>. QED BY <3>1, <2>1, <1>2 DEF Channel!IInv, Channel!ChainInv
  <2>. QED BY <1>11, <2>2, <2>3, <2>4, <2>5, <2>6 DEF Channel!IInv
<1>. QED BY <1>12, <1>13

\* ... handling an ack, which may complete the round ...
LEMMA InvHandleAck ==
  ASSUME NEW ch \in Chan, Channel(ch)!IInv, Channel(ch)!TypeOK', NEW j \in Node,
         NEW i \in Node, Channel(ch)!HandleAck(j, i)
  PROVE  Channel(ch)!IInv'
<1>t. /\ log[ch] \in [Node -> Seq(Channel(ch)!Entry)]
      /\ Channel(ch)!LinksType /\ Channel(ch)!WorkerType /\ Channel(ch)!CountsType
      /\ Channel(ch)!ClosingType /\ Channel(ch)!RoundsType /\ Channel(ch)!FromType
  BY Types DEF Channel!IInv
<1>1. PICK p \in 1..Len(log[ch][i]) : Channel(ch)!TakesNext(j, i, "ack", p)
  BY DEF Channel!HandleAck
<1>2. /\ acksFrom'[ch] = [acksFrom[ch] EXCEPT ![j][i] = @ + 1]
      /\ ackCounter[ch][j] + 1 = Channel(ch)!size => Channel(ch)!CompleteRound(j)
      /\ ackCounter[ch][j] + 1 # Channel(ch)!size =>
           /\ ackCounter'[ch] = [ackCounter[ch] EXCEPT ![j] = @ + 1]
           /\ UNCHANGED <<syncCounter[ch], synchronized[ch], completed[ch], failed[ch]>>
      /\ UNCHANGED <<log[ch], arrived[ch], pc[ch], eofCounter[ch], recvEof[ch], called[ch],
                     returned[ch], acked[ch], syncsFrom[ch]>>
  BY DEF Channel!HandleAck, Channel!closing
<1>3. /\ acksFrom'[ch][j][i] = acksFrom[ch][j][i] + 1
      /\ \A a, b \in Node : a # j \/ b # i => acksFrom'[ch][a][b] = acksFrom[ch][a][b]
  <2>1. PICK f \in [Node -> [Node -> Nat]] : f = acksFrom[ch]
    BY <1>t DEF Channel!FromType
  <2>2. PICK g : g = acksFrom'[ch] /\ g = [f EXCEPT ![j][i] = @ + 1]
    BY <1>2, <2>1
  <2>3. g[j][i] = f[j][i] + 1 /\ \A a, b \in Node : a # j \/ b # i => g[a][b] = f[a][b]
    BY <2>2, CellIncrement
  <2>. QED BY <2>1, <2>2, <2>3
<1>4. /\ acksFrom[ch][j][i] + 1 <= acked[ch][i]
      /\ Channel(ch)!Upto(log[ch][i], "ack", p, acksFrom[ch][j][i] + 1)
      /\ Channel(ch)!Upto(log[ch][i], "sync", p, syncsFrom[ch][j][i])
  <2>1. /\ Channel(ch)!Upto(log[ch][i], "sync", handled[ch][j][i], syncsFrom[ch][j][i])
        /\ Channel(ch)!Upto(log[ch][i], "ack", handled[ch][j][i], acksFrom[ch][j][i])
        /\ Channel(ch)!Numbered(log[ch][i], "ack", acked[ch][i])
    BY DEF Channel!IInv, Channel!CursorInv, Channel!LogInv
  <2>2. /\ syncsFrom[ch][j][i] \in Nat /\ acksFrom[ch][j][i] \in Nat /\ acked[ch][i] \in Nat
        /\ acksFrom[ch][j][i] <= acked[ch][i]
    BY Bounds
  <2>3. /\ Channel(ch)!IsNext(log[ch][i], handled[ch][j][i], j, p) /\ log[ch][i][p].type = "ack"
        /\ log[ch][i] \in Seq(Channel(ch)!Entry) /\ handled[ch][j][i] \in Nat
    BY <1>1, TakeEffect
  <2>4. /\ acksFrom[ch][j][i] + 1 <= acked[ch][i]
        /\ Channel(ch)!Upto(log[ch][i], "ack", p, acksFrom[ch][j][i] + 1)
    BY <2>1, <2>2, <2>3, NextRound
  <2>5. Channel(ch)!Upto(log[ch][i], "sync", p, syncsFrom[ch][j][i])
    BY <2>1, <2>2, <2>3, SkipsNone
  <2>. QED BY <2>4, <2>5
<1>5. Channel(ch)!CursorInv'
  <2>1. ASSUME NEW a \in Node, NEW b \in Node
        PROVE  /\ handled'[ch][a][b] <= arrived[ch][a][b] /\ arrived[ch][a][b] <= Len(log[ch][b])
               /\ Channel(ch)!Upto(log[ch][b], "sync", handled'[ch][a][b], syncsFrom[ch][a][b])
               /\ Channel(ch)!Upto(log[ch][b], "ack", handled'[ch][a][b], acksFrom'[ch][a][b])
    <3>1. CASE a = j /\ b = i
      BY <3>1, <1>1, <1>3, <1>4, TakeEffect
    <3>2. CASE a # j \/ b # i
      <4>1. handled'[ch][a][b] = handled[ch][a][b] /\ acksFrom'[ch][a][b] = acksFrom[ch][a][b]
        BY <3>2, <1>1, <1>3, TakeEffect
      <4>. QED BY <4>1 DEF Channel!IInv, Channel!CursorInv
    <3>. QED BY <3>1, <3>2
  <2>. QED BY <2>1, <1>2 DEF Channel!CursorInv
<1>6. Channel(ch)!LogInv' /\ Channel(ch)!EofInv'
  BY <1>2 DEF Channel!IInv, Channel!LogInv, Channel!EofInv
<1>7. Channel(ch)!ClosingInv'
  BY <1>2, ClosingFrame
<1>8. /\ ackCounter[ch][j] + 1 = Cardinality(AcksCounted(ch, j))
      /\ ackCounter[ch][j] + 1 = Channel(ch)!size => AcksCounted(ch, j) = Node
  BY <1>2, <1>4, AckCount
<1>9. \A a, b \in Node : /\ acksFrom'[ch][a][b] <= acked[ch][b] /\ acksFrom'[ch][a][b] >= acksFrom[ch][a][b]
                         /\ acksFrom'[ch][a][b] \in Nat
  <2>1. ASSUME NEW a \in Node, NEW b \in Node
        PROVE  /\ acksFrom'[ch][a][b] <= acked[ch][b] /\ acksFrom'[ch][a][b] >= acksFrom[ch][a][b]
               /\ acksFrom'[ch][a][b] \in Nat
    <3>1. acksFrom[ch][a][b] <= acked[ch][b] /\ acksFrom[ch][a][b] \in Nat /\ acked[ch][b] \in Nat
      BY Bounds
    <3>. QED BY <3>1, <1>3, <1>4
  <2>. QED BY <2>1
<1>10. \A k \in Node : k # j => acksFrom'[ch][k] = acksFrom[ch][k]
  BY <1>2, <1>t DEF Channel!IInv, Channel!FromType
<1>11. CASE ackCounter[ch][j] + 1 = Channel(ch)!size
  <2>1. \A k \in Node : acksFrom'[ch][j][k] >= completed[ch][j] + 1
    BY <1>8, <1>11 DEF AcksCounted
  <2>2. /\ completed[ch][j] \in Nat /\ acked[ch][j] \in Nat /\ called[ch][j] \in Nat
        /\ returned[ch][j] \in Nat
        /\ acked[ch][j] <= syncsFrom[ch][j][j] /\ syncsFrom[ch][j][j] <= called[ch][j]
        /\ syncsFrom[ch][j][j] \in Nat
        /\ called[ch][j] <= completed[ch][j] + 1
    BY Bounds
  <2>3. acked[ch][j] = completed[ch][j] + 1 /\ called[ch][j] = completed[ch][j] + 1
    <3>1. /\ acksFrom'[ch][j][j] >= completed[ch][j] + 1 /\ acksFrom'[ch][j][j] <= acked[ch][j]
          /\ acksFrom'[ch][j][j] \in Nat
      BY <2>1, <1>9
    <3>2. PICK a, b, c, d, e \in Nat :
            /\ a = completed[ch][j] /\ b = acksFrom'[ch][j][j] /\ c = acked[ch][j]
            /\ d = syncsFrom[ch][j][j] /\ e = called[ch][j]
      BY <2>2, <3>1
    <3>3. b >= a + 1 /\ b <= c /\ c <= d /\ d <= e /\ e <= a + 1
      BY <2>2, <3>1, <3>2
    <3>4. c = a + 1 /\ e = a + 1
      BY <3>3
    <3>. QED BY <3>2, <3>4
  <2>4. Channel(ch)!SyncsAhead(j, 1) = Node
    <3>1. \A k \in Node : acked[ch][j] <= syncsFrom[ch][j][k]
      BY Bounds
    <3>. QED BY <2>3, <3>1 DEF Channel!SyncsAhead
  <2>5. /\ syncCounter[ch][j] = Channel(ch)!size + Cardinality(Channel(ch)!SyncsAhead(j, 2))
        /\ Cardinality(Channel(ch)!SyncsAhead(j, 2)) \in Nat /\ Channel(ch)!size \in Nat
    <3>1. Channel(ch)!SyncsAhead(j, 2) \in SUBSET Node
      BY DEF Channel!SyncsAhead
    <3>. QED BY <2>4, <3>1, SubsetSize, SizePositive, Counted DEF Channel!IInv, Channel!CounterInv,
                Channel!size
  <2>6. Channel(ch)!CompleteRound(j)
    BY <1>2, <1>11
  <2>7. syncCounter[ch][j] >= Channel(ch)!size
    BY <2>5
  <2>8. /\ synchronized'[ch] = [synchronized[ch] EXCEPT ![j] = TRUE]
        /\ completed'[ch] = [completed[ch] EXCEPT ![j] = @ + 1]
        /\ syncCounter'[ch] = [syncCounter[ch] EXCEPT ![j] = @ - Channel(ch)!size]
        /\ ackCounter'[ch] = [ackCounter[ch] EXCEPT ![j] = (@ + 1) - Channel(ch)!size]
        /\ failed'[ch] = failed[ch]
    <3>1. /\ Channel(ch)!OffRound(syncCounter[ch][j]) = syncCounter[ch][j] - Channel(ch)!size
          /\ Channel(ch)!OffRound(ackCounter[ch][j] + 1) = (ackCounter[ch][j] + 1) - Channel(ch)!size
      BY DEF Channel!OffRound
    <3>. QED BY <2>6, <2>7, <3>1 DEF Channel!CompleteRound
  <2>9. /\ synchronized'[ch][j] /\ completed'[ch][j] = completed[ch][j] + 1
        /\ \A k \in Node : k # j => synchronized'[ch][k] = synchronized[ch][k]
        /\ \A k \in Node : k # j => completed'[ch][k] = completed[ch][k]
    BY <2>8, <1>t DEF Channel!IInv, Channel!WorkerType, Channel!RoundsType
  <2>10. /\ syncCounter'[ch][j] = syncCounter[ch][j] - Channel(ch)!size
         /\ ackCounter'[ch][j] = (ackCounter[ch][j] + 1) - Channel(ch)!size
         /\ \A k \in Node : k # j => syncCounter'[ch][k] = syncCounter[ch][k]
         /\ \A k \in Node : k # j => ackCounter'[ch][k] = ackCounter[ch][k]
    BY <2>8, <1>t DEF Channel!IInv, Channel!CountsType
  <2>11. Channel(ch)!NeverFails'
    BY <2>8 DEF Channel!IInv, Channel!NeverFails
  <2>12. Channel(ch)!ChainInv'
    <3>1. ASSUME NEW a \in Node, NEW b \in Node
          PROVE  completed'[ch][a] <= acksFrom'[ch][a][b]
      <4>1. CASE a = j
        BY <4>1, <2>1, <2>9
      <4>2. CASE a # j
        BY <4>2, <2>9, <1>10 DEF Channel!IInv, Channel!ChainInv
      <4>. QED BY <4>1, <4>2
    <3>. QED BY <3>1, <1>2, <1>9 DEF Channel!IInv, Channel!ChainInv
  <2>13. Channel(ch)!WorkerInv'
    <3>1. returned[ch][j] = completed[ch][j]
      <4>1. called[ch][j] <= returned[ch][j] + 1 /\ returned[ch][j] <= completed[ch][j]
        BY <2>2, Bounds DEF Channel!IInv, Channel!WorkerInv
      <4>. QED BY <4>1, <2>2, <2>3
    <3>2. ASSUME NEW k \in Node
          PROVE  completed'[ch][k] = IF synchronized'[ch][k] THEN returned[ch][k] + 1 ELSE returned[ch][k]
      <4>1. CASE k = j
        BY <4>1, <3>1, <2>9
      <4>2. CASE k # j
        BY <4>2, <2>9 DEF Channel!IInv, Channel!WorkerInv
      <4>. QED BY <4>1, <4>2
    <3>. QED BY <3>2, <1>2 DEF Channel!IInv, Channel!WorkerInv
  <2>14. Channel(ch)!CounterInv'
    <3>1. Channel(ch)!SyncsAhead(j, 1)' = Channel(ch)!SyncsAhead(j, 2)
      <4>1. \A k \in Node : syncsFrom[ch][j][k] \in Nat
        BY Bounds
      <4>. QED BY <4>1, <2>2, <2>9, <1>2 DEF Channel!SyncsAhead
    <3>2. Channel(ch)!SyncsAhead(j, 2)' = {}
      <4>1. ASSUME NEW k \in Node PROVE ~(syncsFrom[ch][j][k] >= completed[ch][j] + 1 + 2)
        <5>1. /\ syncsFrom[ch][j][k] <= called[ch][k] /\ called[ch][k] <= completed[ch][k] + 1
              /\ syncsFrom[ch][j][k] \in Nat /\ called[ch][k] \in Nat /\ completed[ch][k] \in Nat
          BY Bounds
        <5>2. completed[ch][k] <= completed[ch][j] + 1
          BY OneRoundApart
        <5>3. PICK a \in Nat, b \in Nat, c \in Nat, d \in Nat :
                /\ a = syncsFrom[ch][j][k] /\ b = called[ch][k] /\ c = completed[ch][k]
                /\ d = completed[ch][j]
          BY <5>1, Bounds
        <5>4. a <= b /\ b <= c + 1 /\ c <= d + 1
          BY <5>1, <5>2, <5>3
        <5>5. ~(a >= d + 1 + 2)
          BY <5>4
        <5>. QED BY <5>3, <5>5
      <4>. QED BY <4>1, <2>9, <1>2 DEF Channel!SyncsAhead
    <3>3. Channel(ch)!AcksAhead(j)' = {}
      <4>1. ASSUME NEW k \in Node PROVE ~(acksFrom'[ch][j][k] >= completed[ch][j] + 1 + 1)
        <5>1. acked[ch][k] <= syncsFrom[ch][k][j] /\ syncsFrom[ch][k][j] <= called[ch][j]
              /\ acked[ch][k] \in Nat /\ syncsFrom[ch][k][j] \in Nat
          BY Bounds
        <5>2. acksFrom'[ch][j][k] <= acked[ch][k] /\ acksFrom'[ch][j][k] \in Nat
          BY <1>9
        <5>3. PICK a, b, c, d, e \in Nat :
                /\ a = acksFrom'[ch][j][k] /\ b = acked[ch][k] /\ c = syncsFrom[ch][k][j]
                /\ d = called[ch][j] /\ e = completed[ch][j]
          BY <5>1, <5>2, <2>2
        <5>4. a <= b /\ b <= c /\ c <= d /\ d <= e + 1
          BY <5>1, <5>2, <5>3, <2>2
        <5>5. ~(a >= e + 1 + 1)
          BY <5>4
        <5>. QED BY <5>3, <5>5
      <4>. QED BY <4>1, <2>9 DEF Channel!AcksAhead
    <3>4. Channel(ch)!SyncsAhead(j, 2) # Node
      BY <2>2 DEF Channel!SyncsAhead
    <3>5. Cardinality(Channel(ch)!SyncsAhead(j, 2)') = 0 /\ Cardinality(Channel(ch)!AcksAhead(j)') = 0
      BY <3>2, <3>3, FS_EmptySet
    <3>6. syncCounter'[ch][j] = Cardinality(Channel(ch)!SyncsAhead(j, 1)') + Cardinality(Channel(ch)!SyncsAhead(j, 2)')
      BY <3>1, <3>5, <2>5, <2>10
    <3>7. ackCounter'[ch][j] = Cardinality(Channel(ch)!AcksAhead(j)')
      <4>1. ackCounter[ch][j] \in Nat
        BY <1>t DEF Channel!IInv, Channel!CountsType
      <4>. QED BY <4>1, <3>5, <2>10, <1>11
    <3>8. \A k \in Node : k # j => /\ Channel(ch)!SyncsAhead(k, 1)' = Channel(ch)!SyncsAhead(k, 1)
                                   /\ Channel(ch)!SyncsAhead(k, 2)' = Channel(ch)!SyncsAhead(k, 2)
                                   /\ Channel(ch)!AcksAhead(k)' = Channel(ch)!AcksAhead(k)
      BY <2>9, <1>2, <1>10 DEF Channel!SyncsAhead, Channel!AcksAhead
    <3>9. ASSUME NEW k \in Node, k # j
          PROVE  /\ syncCounter'[ch][k] = Cardinality(Channel(ch)!SyncsAhead(k, 1)')
                                      + Cardinality(Channel(ch)!SyncsAhead(k, 2)')
                 /\ ackCounter'[ch][k] = Cardinality(Channel(ch)!AcksAhead(k)')
                 /\ Channel(ch)!SyncsAhead(k, 1)' = Node => acked'[ch][k] = completed'[ch][k] + 1
      BY <3>8, <3>9, <2>9, <2>10, <1>2, Counted DEF Channel!IInv, Channel!CounterInv
    <3>. QED BY <3>1, <3>4, <3>6, <3>7, <3>9, Counted DEF Channel!CounterInv
  <2>. QED BY <1>5, <1>6, <1>7, <2>11, <2>12, <2>13, <2>14 DEF Channel!IInv
<1>12. CASE ackCounter[ch][j] + 1 # Channel(ch)!size
  <2>1. /\ ackCounter'[ch] = [ackCounter[ch] EXCEPT ![j] = @ + 1]
        /\ UNCHANGED <<syncCounter[ch], synchronized[ch], completed[ch], failed[ch]>>
    BY <1>2, <1>12
  <2>2. Channel(ch)!NeverFails' /\ Channel(ch)!WorkerInv'
    BY <2>1, <1>2 DEF Channel!IInv, Channel!NeverFails, Channel!WorkerInv
  <2>3. Channel(ch)!ChainInv'
    <3>1. ASSUME NEW a \in Node, NEW b \in Node
          PROVE  completed[ch][a] <= acksFrom'[ch][a][b]
      <4>1. /\ completed[ch][a] <= acksFrom[ch][a][b] /\ completed[ch][a] \in Nat
            /\ acksFrom[ch][a][b] \in Nat
        BY Bounds
      <4>. QED BY <4>1, <1>9
    <3>. QED BY <3>1, <2>1, <1>2, <1>9 DEF Channel!IInv, Channel!ChainInv
  <2>4. Channel(ch)!CounterInv'
    <3>1. \A k \in Node : /\ Channel(ch)!SyncsAhead(k, 1)' = Channel(ch)!SyncsAhead(k, 1)
                          /\ Channel(ch)!SyncsAhead(k, 2)' = Channel(ch)!SyncsAhead(k, 2)
      BY <2>1, <1>2 DEF Channel!SyncsAhead
    <3>2. /\ Channel(ch)!AcksAhead(j)' = AcksCounted(ch, j)
          /\ \A k \in Node : k # j => Channel(ch)!AcksAhead(k)' = Channel(ch)!AcksAhead(k)
      BY <2>1, <1>10 DEF Channel!AcksAhead, AcksCounted
    <3>3. /\ ackCounter'[ch][j] = ackCounter[ch][j] + 1
          /\ \A k \in Node : k # j => ackCounter'[ch][k] = ackCounter[ch][k]
      BY <2>1, <1>t DEF Channel!IInv, Channel!CountsType
    <3>. QED BY <3>1, <3>2, <3>3, <2>1, <1>2, <1>8, Counted DEF Channel!IInv, Channel!CounterInv
  <2>. QED BY <1>5, <1>6, <1>7, <2>2, <2>3, <2>4 DEF Channel!IInv
<1>. QED BY <1>11, <1>12

\* ... and doing nothing.
LEMMA InvStutter ==
  ASSUME NEW ch \in Chan, Channel(ch)!IInv, Channel(ch)!TypeOK', UNCHANGED Channel(ch)!vars
  PROVE  Channel(ch)!IInv'
<1>1. UNCHANGED <<log[ch], arrived[ch], handled[ch], pc[ch], synchronized[ch], syncCounter[ch],
                  ackCounter[ch], eofCounter[ch],
                  recvEof[ch], failed[ch], called[ch], returned[ch], acked[ch], completed[ch], syncsFrom[ch], acksFrom[ch]>>
  BY DEF Channel!vars, Channel!links, Channel!counts, Channel!closing, Channel!history
<1>2. Channel(ch)!CounterInv' /\ Channel(ch)!ClosingInv'
  BY <1>1, CounterFrame, ClosingFrame
<1>3. /\ Channel(ch)!LogInv' /\ Channel(ch)!CursorInv' /\ Channel(ch)!ChainInv'
      /\ Channel(ch)!WorkerInv' /\ Channel(ch)!EofInv' /\ Channel(ch)!NeverFails'
  BY <1>1 DEF Channel!IInv, Channel!LogInv, Channel!CursorInv, Channel!ChainInv, Channel!WorkerInv,
     Channel!EofInv, Channel!NeverFails
<1>. QED BY <1>2, <1>3 DEF Channel!IInv

-----------------------------------------------------------------------------
(* The theorems.                                                           *)

\* The invariant holds at the start ...
LEMMA InvInit == ASSUME NEW ch \in Chan PROVE Channel(ch)!Init => Channel(ch)!IInv
<1> SUFFICES ASSUME Channel(ch)!Init PROVE Channel(ch)!IInv
  OBVIOUS
<1>1. Channel(ch)!TypeOK
  BY TypeInit
<1>2. \A n \in Node : log[ch][n] = <<>> /\ Len(log[ch][n]) = 0
  BY DEF Channel!Init
<1>3. Channel(ch)!LogInv
  BY <1>2 DEF Channel!Init, Channel!LogInv, Channel!Numbered
<1>4. Channel(ch)!CursorInv
  BY <1>2 DEF Channel!Init, Channel!CursorInv, Channel!Upto
<1>5. Channel(ch)!ChainInv /\ Channel(ch)!WorkerInv /\ Channel(ch)!NeverFails
  BY DEF Channel!Init, Channel!ChainInv, Channel!WorkerInv, Channel!NeverFails
<1>6. Channel(ch)!CounterInv
  <2>1. \A j \in Node : Channel(ch)!SyncsAhead(j, 1) = {} /\ Channel(ch)!SyncsAhead(j, 2) = {} /\ Channel(ch)!AcksAhead(j) = {}
    BY DEF Channel!Init, Channel!SyncsAhead, Channel!AcksAhead
  <2>2. \A j \in Node : syncCounter[ch][j] = 0 /\ ackCounter[ch][j] = 0
    BY DEF Channel!Init
  <2>3. Cardinality({}) = 0 /\ {} # Node
    BY FS_EmptySet, NodeAssumption, Counted
  <2>. QED BY <2>1, <2>2, <2>3, Counted DEF Channel!CounterInv
<1>7. Channel(ch)!EofInv
  BY <1>2 DEF Channel!Init, Channel!EofInv, Channel!EofLast, Channel!EndsInEof
<1>8. Channel(ch)!ClosingInv
  <2>1. \A j \in Node : Channel(ch)!EofsArrived(j) = {}
    BY DEF Channel!Init, Channel!EofsArrived
  <2>2. Cardinality({}) = 0 /\ {} # Node
    BY FS_EmptySet, NodeAssumption
  <2>3. \A j \in Node : eofCounter[ch][j] = 0 /\ ~recvEof[ch][j]
    BY DEF Channel!Init
  <2>. QED BY <2>1, <2>2, <2>3, Counted DEF Channel!ClosingInv
<1>. QED BY <1>1, <1>3, <1>4, <1>5, <1>6, <1>7, <1>8 DEF Channel!IInv

\* ... and every step keeps it.
LEMMA InvStep ==
  ASSUME NEW ch \in Chan
  PROVE  Channel(ch)!IInv /\ [Channel(ch)!Next]_(Channel(ch)!vars) => Channel(ch)!IInv'
<1> SUFFICES ASSUME Channel(ch)!IInv, [Channel(ch)!Next]_(Channel(ch)!vars) PROVE Channel(ch)!IInv'
  OBVIOUS
<1>1. Channel(ch)!TypeOK'
  BY TypeStep DEF Channel!IInv
<1>. QED
  BY <1>1, InvSend, InvSynchronize, InvSynchronizeReturns, InvPushEof, InvMarkEof, InvArrive,
     InvHandleData, InvHandleSync, InvHandleAck, InvStutter
  DEF Channel!Next, Channel!Worker, Channel!Handle

-----------------------------------------------------------------------------
(* What the invariant says of a channel.                                   *)

\* synchronize() that has returned has seen everybody call it, and all that
\* was pushed before.
LEMMA Guaranteed ==
  ASSUME NEW ch \in Chan, Channel(ch)!IInv PROVE Channel(ch)!SyncGuarantee
<1> SUFFICES ASSUME NEW i \in Node, NEW j \in Node, NEW k \in Node
             PROVE  /\ returned[ch][i] <= called[ch][k]
                    /\ \A p \in 1..Len(log[ch][k]) :
                         log[ch][k][p].type = "sync" /\ log[ch][k][p].round <= returned[ch][i]
                           => p <= handled[ch][j][k]
  BY DEF Channel!SyncGuarantee
<1>1. /\ returned[ch][i] <= completed[ch][i] /\ returned[ch][i] \in Nat /\ completed[ch][i] \in Nat
      /\ completed[ch][i] <= acked[ch][j] /\ acked[ch][j] \in Nat
      /\ acked[ch][j] <= syncsFrom[ch][j][k] /\ syncsFrom[ch][j][k] \in Nat
      /\ syncsFrom[ch][j][k] <= called[ch][k] /\ called[ch][k] \in Nat
  BY Bounds
<1>2. ASSUME NEW p \in 1..Len(log[ch][k]), log[ch][k][p].type = "sync",
             log[ch][k][p].round <= returned[ch][i]
      PROVE  p <= handled[ch][j][k]
  <2>1. Channel(ch)!Upto(log[ch][k], "sync", handled[ch][j][k], syncsFrom[ch][j][k])
    BY DEF Channel!IInv, Channel!CursorInv
  <2>2. log[ch][k] \in Seq(Channel(ch)!Entry)
    BY Types DEF Channel!IInv
  <2>3. log[ch][k][p].round \in Nat
    BY <2>2, EntryFields
  <2>. QED BY <1>1, <1>2, <2>1, <2>3 DEF Channel!Upto
<1>. QED BY <1>1, <1>2

\* A closed receive queue has everything it will ever have.
LEMMA Final ==
  ASSUME NEW ch \in Chan, Channel(ch)!IInv PROVE Channel(ch)!ClosedIsFinal
<1> SUFFICES ASSUME NEW j \in Node, NEW i \in Node, recvEof[ch][j]
             PROVE  pc[ch][i] \in {"marking", "closed"} /\ arrived[ch][j][i] = Len(log[ch][i])
  BY DEF Channel!ClosedIsFinal
<1>1. i \in Channel(ch)!EofsArrived(j)
  BY DEF Channel!IInv, Channel!ClosingInv
<1>2. arrived[ch][j][i] > 0 /\ log[ch][i][arrived[ch][j][i]].type = "eof"
  BY <1>1 DEF Channel!EofsArrived
<1>3. arrived[ch][j][i] \in Nat /\ Len(log[ch][i]) \in Nat /\ arrived[ch][j][i] <= Len(log[ch][i])
  BY Types, LenNat DEF Channel!IInv, Channel!LinksType, Channel!CursorInv
<1>4. arrived[ch][j][i] = Len(log[ch][i])
  BY <1>2, <1>3 DEF Channel!IInv, Channel!EofInv, Channel!EofLast
<1>5. Channel(ch)!EndsInEof(log[ch][i])
  BY <1>2, <1>3, <1>4 DEF Channel!EndsInEof
<1>. QED BY <1>4, <1>5 DEF Channel!IInv, Channel!EofInv

\* A sync that some node has not handled keeps the worker that sent it
\* waiting, and an ack the worker of the node that has not handled it.
LEMMA Unhandled ==
  ASSUME NEW ch \in Chan, Channel(ch)!IInv, NEW j \in Node, NEW i \in Node,
         NEW p \in 1..Len(log[ch][i]), handled[ch][j][i] < p
  PROVE  /\ log[ch][i][p].type = "sync" => pc[ch][i] = "wait" /\ ~synchronized[ch][i]
         /\ log[ch][i][p].type = "ack" => pc[ch][j] = "wait" /\ ~synchronized[ch][j]
<1>1. /\ log[ch][i] \in Seq(Channel(ch)!Entry) /\ Len(log[ch][i]) \in Nat /\ p \in Nat
      /\ handled[ch][j][i] \in Nat
  BY Types, LenNat DEF Channel!IInv, Channel!LinksType
<1>2. log[ch][i][p].round \in Nat
  BY <1>1, EntryFields
<1>3. ASSUME NEW k \in Node, called[ch][k] = completed[ch][k] + 1
      PROVE  pc[ch][k] = "wait" /\ ~synchronized[ch][k]
  <2>1. /\ called[ch][k] = IF pc[ch][k] = "wait" THEN returned[ch][k] + 1 ELSE returned[ch][k]
        /\ completed[ch][k] = IF synchronized[ch][k] THEN returned[ch][k] + 1 ELSE returned[ch][k]
    BY DEF Channel!IInv, Channel!WorkerInv
  <2>2. returned[ch][k] \in Nat
    BY Bounds
  <2>. QED BY <1>3, <2>1, <2>2
<1>4. CASE log[ch][i][p].type = "sync"
  <2>1. /\ Channel(ch)!Upto(log[ch][i], "sync", handled[ch][j][i], syncsFrom[ch][j][i])
        /\ Channel(ch)!Numbered(log[ch][i], "sync", called[ch][i])
    BY DEF Channel!IInv, Channel!CursorInv, Channel!LogInv
  <2>2. log[ch][i][p].round > syncsFrom[ch][j][i] /\ log[ch][i][p].round <= called[ch][i]
    <3>1. syncsFrom[ch][j][i] \in Nat /\ called[ch][i] \in Nat
      BY Bounds
    <3>. QED BY <1>1, <1>2, <1>4, <2>1, <3>1 DEF Channel!Upto, Channel!Numbered
  <2>3. called[ch][i] = completed[ch][i] + 1
    <3>1. /\ completed[ch][i] <= acked[ch][j] /\ acked[ch][j] <= syncsFrom[ch][j][i]
          /\ called[ch][i] <= completed[ch][i] + 1
          /\ completed[ch][i] \in Nat /\ acked[ch][j] \in Nat /\ syncsFrom[ch][j][i] \in Nat
          /\ called[ch][i] \in Nat
      BY Bounds
    <3>2. PICK r \in Nat : r = log[ch][i][p].round
      BY <1>2
    <3>3. PICK a, b, c, d \in Nat :
            a = completed[ch][i] /\ b = acked[ch][j] /\ c = syncsFrom[ch][j][i] /\ d = called[ch][i]
      BY <3>1
    <3>4. a <= b /\ b <= c /\ d <= a + 1 /\ r > c /\ r <= d
      BY <2>2, <3>1, <3>2, <3>3
    <3>5. d = a + 1
      BY <3>4
    <3>. QED BY <3>3, <3>5
  <2>. QED BY <1>3, <1>4, <2>3
<1>5. CASE log[ch][i][p].type = "ack"
  <2>1. /\ Channel(ch)!Upto(log[ch][i], "ack", handled[ch][j][i], acksFrom[ch][j][i])
        /\ Channel(ch)!Numbered(log[ch][i], "ack", acked[ch][i])
    BY DEF Channel!IInv, Channel!CursorInv, Channel!LogInv
  <2>2. log[ch][i][p].round > acksFrom[ch][j][i] /\ log[ch][i][p].round <= acked[ch][i]
    <3>1. acksFrom[ch][j][i] \in Nat /\ acked[ch][i] \in Nat
      BY Bounds
    <3>. QED BY <1>1, <1>2, <1>5, <2>1, <3>1 DEF Channel!Upto, Channel!Numbered
  <2>3. called[ch][j] = completed[ch][j] + 1
    <3>1. /\ completed[ch][j] <= acksFrom[ch][j][i] /\ completed[ch][j] \in Nat
          /\ acksFrom[ch][j][i] \in Nat
          /\ called[ch][j] <= completed[ch][j] + 1 /\ called[ch][j] \in Nat
      BY Bounds
    <3>2. /\ acked[ch][i] <= syncsFrom[ch][i][j] /\ acked[ch][i] \in Nat
          /\ syncsFrom[ch][i][j] <= called[ch][j] /\ syncsFrom[ch][i][j] \in Nat
      BY Bounds
    <3>3. PICK r \in Nat : r = log[ch][i][p].round
      BY <1>2
    <3>4. PICK a, b, c, d, e \in Nat :
            /\ a = completed[ch][j] /\ b = acksFrom[ch][j][i] /\ c = acked[ch][i]
            /\ d = syncsFrom[ch][i][j] /\ e = called[ch][j]
      BY <3>1, <3>2
    <3>5. a <= b /\ e <= a + 1 /\ c <= d /\ d <= e /\ r > b /\ r <= c
      BY <2>2, <3>1, <3>2, <3>3, <3>4
    <3>6. e = a + 1
      BY <3>5
    <3>. QED BY <3>4, <3>6
  <2>. QED BY <1>3, <1>5, <2>3
<1>. QED BY <1>4, <1>5

-----------------------------------------------------------------------------
(* The theorems.                                                           *)

\* The counters, the cursors and the threads of the channel stay in step: the
\* strengthening the theorems below follow from.
THEOREM Invariance ==
  ASSUME NEW ch \in Chan PROVE Channel(ch)!Spec => []Channel(ch)!IInv
  BY InvInit, InvStep, PTL DEF Channel!Spec

\* synchronize() keeps its promise (communicator.h:73-79) for every number of
\* nodes, rounds and messages.
THEOREM SynchronizeIsABarrier ==
  ASSUME NEW ch \in Chan PROVE Channel(ch)!Spec => []Channel(ch)!SyncGuarantee
  BY Guaranteed, Invariance, PTL

\* No thread of a node that uses the channel as documented is stopped by an
\* exception of the protocol.
THEOREM ProtocolNeverThrows ==
  ASSUME NEW ch \in Chan PROVE Channel(ch)!Spec => []Channel(ch)!NeverFails
<1>1. Channel(ch)!IInv => Channel(ch)!NeverFails
  BY DEF Channel!IInv
<1>. QED BY <1>1, Invariance, PTL

\* A closed receive queue has everything it will ever have.
THEOREM EofIsFinal ==
  ASSUME NEW ch \in Chan PROVE Channel(ch)!Spec => []Channel(ch)!ClosedIsFinal
  BY Final, Invariance, PTL
=============================================================================
