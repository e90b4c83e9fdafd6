-------------------------- MODULE CommunicatorProofs --------------------------
(* The theorems about Communicator, for any number of nodes, channels,     *)
(* workers and messages, both backends and any size of the buffers.        *)
(* The second half is about a process of one worker thread, the case the   *)
(* class is used in: there every channel implements SyncChannel, so what   *)
(* SyncChannelProofs establishes of the protocol holds of the              *)
(* implementation, and no thread ever throws.  The last part is about      *)
(* ChannelRunner, which has one such thread: it implements Communicator.   *)
EXTENDS ChannelRunner, TLAPS, FiniteSetTheorems, WellFoundedInduction

-----------------------------------------------------------------------------
(* Sequences.                                                              *)

LEMMA SeqFacts ==
  ASSUME NEW T, NEW s \in Seq(T)
  PROVE  /\ Len(s) \in Nat /\ DOMAIN s = 1..Len(s) /\ \A k \in 1..Len(s) : s[k] \in T /\ s[k] \in ToSet(s)
         /\ ToSet(s) \subseteq T /\ \A m \in ToSet(s) : \E k \in 1..Len(s) : m = s[k]
         /\ (s = <<>> <=> Len(s) = 0)
  BY DEF ToSet

LEMMA AppendFacts ==
  ASSUME NEW T, NEW s \in Seq(T), NEW m \in T
  PROVE  /\ Append(s, m) \in Seq(T) /\ Append(s, m) # <<>>
         /\ Len(Append(s, m)) = Len(s) + 1
         /\ \A k \in 1..Len(s) : Append(s, m)[k] = s[k]
         /\ Append(s, m)[Len(s) + 1] = m
         /\ ToSet(Append(s, m)) = ToSet(s) \cup {m}
<1>. DEFINE a == Append(s, m)
<1>1. /\ a \in Seq(T) /\ Len(a) = Len(s) + 1 /\ Len(s) \in Nat
      /\ DOMAIN a = 1..(Len(s) + 1) /\ DOMAIN s = 1..Len(s)
      /\ \A k \in 1..Len(s) : a[k] = s[k]
      /\ a[Len(s) + 1] = m
  OBVIOUS
<1>2. a # <<>>
  BY <1>1
<1>. HIDE DEF a
<1>3. ToSet(a) \subseteq ToSet(s) \cup {m}
  <2>. SUFFICES ASSUME NEW k \in 1..(Len(s) + 1) PROVE a[k] \in ToSet(s) \cup {m}
    BY <1>1 DEF ToSet
  <2>1. CASE k = Len(s) + 1
    BY <1>1, <2>1
  <2>2. CASE k # Len(s) + 1
    <3>1. k \in 1..Len(s)
      BY <1>1, <2>2
    <3>. QED BY <1>1, <3>1 DEF ToSet
  <2>. QED BY <2>1, <2>2
<1>4. ToSet(s) \cup {m} \subseteq ToSet(a)
  <2>1. ASSUME NEW k \in 1..Len(s) PROVE s[k] \in ToSet(a)
    <3>1. k \in 1..(Len(s) + 1) /\ a[k] = s[k]
      BY <1>1
    <3>. QED BY <1>1, <3>1 DEF ToSet
  <2>2. m \in ToSet(a)
    <3>1. Len(s) + 1 \in 1..(Len(s) + 1)
      BY <1>1
    <3>. QED BY <1>1, <3>1 DEF ToSet
  <2>. QED BY <1>1, <2>1, <2>2 DEF ToSet
<1>. QED BY <1>1, <1>2, <1>3, <1>4 DEF a

LEMMA TailFacts ==
  ASSUME NEW T, NEW s \in Seq(T), s # <<>>
  PROVE  /\ Len(s) > 0 /\ Head(s) = s[1] /\ Head(s) \in T /\ Head(s) \in ToSet(s)
         /\ Tail(s) \in Seq(T) /\ Len(Tail(s)) = Len(s) - 1
         /\ \A k \in 1..(Len(s) - 1) : Tail(s)[k] = s[k + 1]
         /\ ToSet(s) = ToSet(Tail(s)) \cup {Head(s)}
<1>. DEFINE t == Tail(s)
<1>1. /\ Len(s) \in Nat /\ Len(s) > 0 /\ Head(s) = s[1] /\ Head(s) \in T
      /\ t \in Seq(T) /\ Len(t) = Len(s) - 1
      /\ DOMAIN t = 1..(Len(s) - 1) /\ DOMAIN s = 1..Len(s)
      /\ \A k \in 1..(Len(s) - 1) : t[k] = s[k + 1]
  OBVIOUS
<1>. HIDE DEF t
<1>2. Head(s) \in ToSet(s)
  BY <1>1 DEF ToSet
<1>3. ToSet(t) \subseteq ToSet(s)
  <2>. SUFFICES ASSUME NEW k \in 1..(Len(s) - 1) PROVE t[k] \in ToSet(s)
    BY <1>1 DEF ToSet
  <2>1. k + 1 \in 1..Len(s) /\ t[k] = s[k + 1]
    BY <1>1
  <2>. QED BY <1>1, <2>1 DEF ToSet
<1>4. ToSet(s) \subseteq ToSet(t) \cup {Head(s)}
  <2>. SUFFICES ASSUME NEW k \in 1..Len(s), k # 1 PROVE s[k] \in ToSet(t)
    BY <1>1 DEF ToSet
  <2>1. k - 1 \in 1..(Len(s) - 1) /\ (k - 1) + 1 = k
    BY <1>1
  <2>2. t[k - 1] = s[k]
    BY <1>1, <2>1
  <2>. QED BY <1>1, <2>1, <2>2 DEF ToSet
<1>. QED BY <1>1, <1>2, <1>3, <1>4 DEF t

LEMMA ConcatFacts ==
  ASSUME NEW T, NEW s \in Seq(T), NEW t \in Seq(T)
  PROVE  /\ s \o t \in Seq(T) /\ Len(s \o t) = Len(s) + Len(t)
         /\ \A k \in 1..Len(s) : (s \o t)[k] = s[k]
         /\ \A k \in 1..Len(t) : (s \o t)[Len(s) + k] = t[k]
         /\ \A k \in 1..Len(s \o t) : k \in 1..Len(s) \/ \E l \in 1..Len(t) : k = Len(s) + l
<1>1. /\ s \o t \in Seq(T) /\ Len(s \o t) = Len(s) + Len(t)
      /\ Len(s) \in Nat /\ Len(t) \in Nat
      /\ \A k \in 1..(Len(s) + Len(t)) :
           (s \o t)[k] = IF k <= Len(s) THEN s[k] ELSE t[k - Len(s)]
  OBVIOUS
<1>2. ASSUME NEW k \in 1..Len(t) PROVE (s \o t)[Len(s) + k] = t[k]
  <2>1. Len(s) + k \in 1..(Len(s) + Len(t)) /\ ~(Len(s) + k <= Len(s)) /\ (Len(s) + k) - Len(s) = k
    BY <1>1
  <2>. QED BY <1>1, <2>1
<1>3. ASSUME NEW k \in 1..Len(s \o t), k \notin 1..Len(s) PROVE \E l \in 1..Len(t) : k = Len(s) + l
  <2>1. k - Len(s) \in 1..Len(t) /\ k = Len(s) + (k - Len(s))
    BY <1>1, <1>3
  <2>. QED BY <2>1
<1>4. \A k \in 1..Len(s) : (s \o t)[k] = s[k]
  BY <1>1
<1>. QED BY <1>1, <1>2, <1>3, <1>4

-----------------------------------------------------------------------------
(* Types.                                                                  *)

\* The places of an array of arrays.
LEMMA CellUpdate ==
  ASSUME NEW D, NEW E, NEW R, NEW f \in [D -> [E -> R]],
         NEW d \in D, NEW e \in E, NEW v \in R
  PROVE  /\ [f EXCEPT ![d][e] = v] \in [D -> [E -> R]]
         /\ \A x \in D, y \in E :
              [f EXCEPT ![d][e] = v][x][y] = IF x = d /\ y = e THEN v ELSE f[x][y]
  OBVIOUS

LEMMA CounterUpdate ==
  ASSUME NEW f \in [Node -> [Chan -> Nat]], NEW n \in Node, NEW c \in Chan, NEW v \in Nat
  PROVE  [f EXCEPT ![n][c] = v] \in [Node -> [Chan -> Nat]]
  OBVIOUS

LEMMA CountType ==
  ASSUME NEW t, NEW s, Len(s) \in Nat PROVE CountOf(t, s) \in Nat
<1>1. IsFiniteSet(1..Len(s))
  BY FS_Interval
<1>2. IsFiniteSet({p \in 1..Len(s) : s[p].type = t})
  BY <1>1, FS_Subset
<1>. QED BY <1>2, FS_CardinalityType DEF CountOf

\* What pushing does.
LEMMA PushEffect ==
  ASSUME TypeOK, NEW n \in Node, NEW c \in Chan, NEW t \in MsgType, NEW d \in Node, Push(n, c, t, d)
  PROVE  \E m \in Message, e \in LogEntry :
           /\ m.chan = c /\ m.from = n /\ m.type = t /\ m.dest = d /\ m.num = Len(log[c][n]) + 1
           /\ e.type = t /\ e.dest = d
           /\ sendq' = [sendq EXCEPT ![n][c] = Append(sendq[n][c], m)]
           /\ log' = [log EXCEPT ![c][n] = Append(log[c][n], e)]
<1>1. Len(log[c][n]) \in Nat
  BY DEF TypeOK
<1>. DEFINE r == IF t \in {"sync", "ack"} THEN CountOf(t, log[c][n]) + 1 ELSE 0
            m == [chan |-> c, type |-> t, from |-> n, dest |-> d, num |-> Len(log[c][n]) + 1]
            e == [type |-> t, dest |-> d, round |-> r]
<1>2. r \in Nat
  BY <1>1, CountType
<1>3. m \in Message
  BY <1>1 DEF Message
<1>4. e \in LogEntry
  BY <1>2 DEF LogEntry
<1>5. /\ sendq' = [sendq EXCEPT ![n][c] = Append(sendq[n][c], m)]
      /\ log' = [log EXCEPT ![c][n] = Append(log[c][n], e)]
  BY DEF Push
<1>. QED BY <1>3, <1>4, <1>5

LEMMA PushType ==
  ASSUME TypeOK, NEW n \in Node, NEW c \in Chan, NEW t \in MsgType, NEW d \in Node, Push(n, c, t, d)
  PROVE  /\ sendq' \in [Node -> [Chan -> MessageQueue]]
         /\ log' \in [Chan -> [Node -> Seq(LogEntry)]]
<1>1. PICK m \in Message, e \in LogEntry :
           /\ sendq' = [sendq EXCEPT ![n][c] = Append(sendq[n][c], m)]
           /\ log' = [log EXCEPT ![c][n] = Append(log[c][n], e)]
  BY PushEffect
<1>2. Append(sendq[n][c], m) \in MessageQueue /\ Append(log[c][n], e) \in Seq(LogEntry)
  BY DEF TypeOK, MessageQueue
<1>3. sendq \in [Node -> [Chan -> MessageQueue]] /\ log \in [Chan -> [Node -> Seq(LogEntry)]]
  BY DEF TypeOK
<1>4. sendq' \in [Node -> [Chan -> MessageQueue]]
  BY <1>1, <1>2, <1>3, CellUpdate
<1>5. log' \in [Chan -> [Node -> Seq(LogEntry)]]
  BY <1>1, <1>2, <1>3, CellUpdate
<1>. QED BY <1>4, <1>5

LEMMA MessageFields ==
  ASSUME NEW m \in Message
  PROVE  m.chan \in Chan /\ m.type \in MsgType /\ m.from \in Node /\ m.dest \in Node /\ m.num \in Nat
  BY DEF Message

\* A buffer goes out as one batch or as several, none of them empty.
LEMMA BatchesFacts ==
  ASSUME NEW s \in MessageQueue, s # <<>>
  PROVE  /\ Batches(s) \in Seq(MessageQueue)
         /\ \/ Len(Batches(s)) = 1 /\ Batches(s)[1] = s
            \/ Len(Batches(s)) = Len(s) /\ \A k \in 1..Len(s) : Batches(s)[k] = <<s[k]>>
         /\ \A b \in 1..Len(Batches(s)) : Batches(s)[b] # <<>>
<1>1. Len(s) \in Nat /\ s \in Seq(Message) /\ \A k \in 1..Len(s) : s[k] \in Message
  BY DEF MessageQueue
<1>2. CASE Batched
  BY <1>2 DEF Batches, MessageQueue
<1>3. CASE ~Batched
  <2>. DEFINE each == [k \in 1..Len(s) |-> <<s[k]>>]
  <2>1. \A k \in 1..Len(s) : <<s[k]>> \in MessageQueue /\ <<s[k]>> # <<>>
    BY <1>1 DEF MessageQueue
  <2>2. each \in Seq(MessageQueue) /\ Len(each) = Len(s)
    BY <1>1, <2>1
  <2>3. Batches(s) = each
    BY <1>3 DEF Batches
  <2>. QED BY <2>1, <2>2, <2>3
<1>. QED BY <1>2, <1>3

\* What flushing the buffers b to the nodes in D does: each is sent, or kept.
LEMMA FlushEffect ==
  ASSUME TypeOK, NEW n \in Node, NEW D \in SUBSET Node, NEW b \in [Node -> MessageQueue], Flush(n, D, b)
  PROVE  /\ buf' \in [Node -> [Node -> MessageQueue]]
         /\ net' \in [Node -> [Node -> Seq(MessageQueue)]]
         /\ pending' \in [Node -> BOOLEAN]
         /\ \A i, d \in Node : i # n => buf'[i][d] = buf[i][d] /\ net'[i][d] = net[i][d]
         /\ \A d \in Node :
              \/ b[d] # <<>> /\ buf'[n][d] = <<>> /\ net'[n][d] = net[n][d] \o Batches(b[d])
              \/ buf'[n][d] = b[d] /\ net'[n][d] = net[n][d]
<1>. DEFINE full == {d \in D : b[d] # <<>>}
            kept == [d \in Node |-> IF d \in full THEN <<>> ELSE b[d]]
            sent == [d \in Node |-> IF d \in full THEN net[n][d] \o Batches(b[d]) ELSE net[n][d]]
<1>1. buf \in [Node -> [Node -> MessageQueue]] /\ net \in [Node -> [Node -> Seq(MessageQueue)]]
      /\ pending \in [Node -> BOOLEAN]
  BY DEF TypeOK
<1>2. kept \in [Node -> MessageQueue]
  BY DEF MessageQueue
<1>3. sent \in [Node -> Seq(MessageQueue)]
  <2>. SUFFICES ASSUME NEW d \in Node
                PROVE  (IF d \in full THEN net[n][d] \o Batches(b[d]) ELSE net[n][d]) \in Seq(MessageQueue)
    OBVIOUS
  <2>1. net[n][d] \in Seq(MessageQueue)
    BY <1>1
  <2>2. d \in full => Batches(b[d]) \in Seq(MessageQueue)
    BY BatchesFacts
  <2>3. d \in full => net[n][d] \o Batches(b[d]) \in Seq(MessageQueue)
    BY <2>1, <2>2, ConcatFacts
  <2>. QED BY <2>1, <2>3
<1>4. buf' = [buf EXCEPT ![n] = kept] /\ net' = [net EXCEPT ![n] = sent]
  BY DEF Flush
<1>5. pending' \in [Node -> BOOLEAN]
  <2>1. pending' = pending \/ \E still \in BOOLEAN : pending' = [pending EXCEPT ![n] = still]
    BY DEF Flush
  <2>. QED BY <1>1, <2>1
<1>6. ASSUME NEW d \in Node
      PROVE  \/ b[d] # <<>> /\ buf'[n][d] = <<>> /\ net'[n][d] = net[n][d] \o Batches(b[d])
             \/ buf'[n][d] = b[d] /\ net'[n][d] = net[n][d]
  <2>1. buf'[n][d] = kept[d] /\ net'[n][d] = sent[d]
    BY <1>1, <1>4
  <2>. QED BY <2>1
<1>. HIDE DEF kept, sent, full
<1>7. \A i, d \in Node : i # n => buf'[i][d] = buf[i][d] /\ net'[i][d] = net[i][d]
  BY <1>1, <1>4
<1>8. buf' \in [Node -> [Node -> MessageQueue]] /\ net' \in [Node -> [Node -> Seq(MessageQueue)]]
  BY <1>1, <1>2, <1>3, <1>4
<1>. QED BY <1>5, <1>6, <1>7, <1>8

LEMMA InitType == Init => TypeOK
<1>1. 1 \in Chan /\ <<>> \in MessageQueue /\ <<>> \in Seq(MessageQueue) /\ <<>> \in Seq(LogEntry)
  BY CommAssumption DEF Chan, MessageQueue
<1>. QED BY <1>1 DEF Init, BackendInit, TypeOK

\* The worker threads ...
LEMMA WorkerTypes ==
  ASSUME TypeOK, NEW n \in Node, WorkerStep(n) PROVE TypeOK'
<1>1. ASSUME NEW c \in Chan, NEW d \in Node, Send(n, c, d) PROVE TypeOK'
  <2>1. Push(n, c, "data", d)
    BY <1>1 DEF Send
  <2>2. sendq' \in [Node -> [Chan -> MessageQueue]] /\ log' \in [Chan -> [Node -> Seq(LogEntry)]]
    BY <2>1, PushType DEF MsgType
  <2>. QED BY <1>1, <2>2 DEF Send, TypeOK, counts, loop, backend, cursors
<1>2. ASSUME NEW c \in Chan, Synchronize(n, c) \/ PushEof(n, c) PROVE TypeOK'
  <2>1. \E t \in MsgType : Push(n, c, t, n)
    BY <1>2 DEF Synchronize, PushEof, MsgType
  <2>2. sendq' \in [Node -> [Chan -> MessageQueue]] /\ log' \in [Chan -> [Node -> Seq(LogEntry)]]
    BY <2>1, PushType
  <2>3. worker' \in [Node -> [Thread -> [at : {"wait", "mark"}, chan : Chan] \cup {Idle}]]
    <3>1. \E at \in {"wait", "mark"} : worker' = [worker EXCEPT ![n][WorkerOf[c]] = [at |-> at, chan |-> c]]
      BY <1>2 DEF Synchronize, PushEof
    <3>2. WorkerOf[c] \in Thread
      BY CommAssumption
    <3>3. worker \in [Node -> [Thread -> [at : {"wait", "mark"}, chan : Chan] \cup {Idle}]]
      BY DEF TypeOK
    <3>4. \A at \in {"wait", "mark"} :
            [at |-> at, chan |-> c] \in [at : {"wait", "mark"}, chan : Chan] \cup {Idle}
      OBVIOUS
    <3>. QED BY <3>1, <3>2, <3>3, <3>4, CellUpdate
  <2>. QED BY <1>2, <2>2, <2>3 DEF Synchronize, PushEof, TypeOK, counts, loop, backend, cursors
<1>3. ASSUME NEW w \in Thread, SynchronizeReturns(n, w) PROVE TypeOK'
  <2>1. worker' \in [Node -> [Thread -> [at : {"wait", "mark"}, chan : Chan] \cup {Idle}]]
    BY <1>3, CellUpdate DEF SynchronizeReturns, TypeOK
  <2>. QED BY <1>3, <2>1 DEF SynchronizeReturns, TypeOK, queues, counts, loop, backend, cursors
<1>4. ASSUME NEW w \in Thread, MarkEof(n, w) PROVE TypeOK'
  <2>1. worker' \in [Node -> [Thread -> [at : {"wait", "mark"}, chan : Chan] \cup {Idle}]]
    <3>1. PICK f \in [Node -> [Thread -> [at : {"wait", "mark"}, chan : Chan] \cup {Idle}]] : f = worker
      BY DEF TypeOK
    <3>2. worker' = [f EXCEPT ![n][w] = Idle]
      BY <1>4, <3>1 DEF MarkEof
    <3>. QED BY <3>2, CellUpdate
  <2>2. worker[n][w].chan \in Chan
    BY <1>4 DEF MarkEof, TypeOK, Idle
  <2>3. sendEof' \in [Node -> [Chan -> BOOLEAN]]
    <3>1. sendEof' = [sendEof EXCEPT ![n][worker[n][w].chan] = TRUE] /\ sendEof \in [Node -> [Chan -> BOOLEAN]]
      BY <1>4 DEF MarkEof, TypeOK
    <3>. QED BY <2>2, <3>1
  <2>. QED BY <1>4, <2>1, <2>3 DEF MarkEof, TypeOK, counts, loop, backend, cursors
<1>. QED BY <1>1, <1>2, <1>3, <1>4 DEF WorkerStep

\* ... the receive handlers ...
LEMMA FinishEffect ==
  ASSUME TypeOK, NEW n \in Node, NEW c \in Chan, NEW t, Finish(n, c, t)
  PROVE  /\ hand[n][c] # <<>> /\ hand[n][c][1] \in Message /\ hand[n][c][1].type = t
         /\ hand' \in [Node -> [Chan -> MessageQueue]]
         /\ \A m \in Node, d \in Chan : hand'[m][d] = IF m = n /\ d = c THEN <<>> ELSE hand[m][d]
         /\ handled' \in [Chan -> [Node -> [Node -> Nat]]]
         /\ \A d \in Chan, m, i \in Node :
              handled'[d][m][i] = IF d = c /\ m = n /\ i = hand[n][c][1].from THEN hand[n][c][1].num
                                  ELSE handled[d][m][i]
<1>1. /\ hand[n][c] # <<>> /\ hand[n][c][1].type = t
      /\ hand' = [hand EXCEPT ![n][c] = <<>>]
      /\ handled' = [handled EXCEPT ![c][n][hand[n][c][1].from] = hand[n][c][1].num]
  BY DEF Finish
<1>2. hand[n][c] \in Seq(Message) /\ <<>> \in MessageQueue
  BY DEF TypeOK, MessageQueue
<1>3. hand[n][c][1] \in Message
  BY <1>1, <1>2, TailFacts
<1>4. hand[n][c][1].from \in Node /\ hand[n][c][1].num \in Nat
  BY <1>3, MessageFields
<1>5. hand \in [Node -> [Chan -> MessageQueue]] /\ handled \in [Chan -> [Node -> [Node -> Nat]]]
  BY DEF TypeOK
<1>6. /\ hand' \in [Node -> [Chan -> MessageQueue]]
      /\ \A m \in Node, d \in Chan : hand'[m][d] = IF m = n /\ d = c THEN <<>> ELSE hand[m][d]
  BY <1>1, <1>2, <1>5, CellUpdate
<1>7. /\ handled' \in [Chan -> [Node -> [Node -> Nat]]]
      /\ \A d \in Chan, m, i \in Node :
              handled'[d][m][i] = IF d = c /\ m = n /\ i = hand[n][c][1].from THEN hand[n][c][1].num
                                  ELSE handled[d][m][i]
  BY <1>1, <1>4, <1>5
<1>. QED BY <1>1, <1>3, <1>6, <1>7

LEMMA HandlerTypes ==
  ASSUME TypeOK, NEW n \in Node, NEW c \in Chan, PopReceived(n, c) \/ Handle(n, c) PROVE TypeOK'
<1>1. CASE PopReceived(n, c)
  <2>1. recvq[n][c] \in Seq(Message) /\ recvq[n][c] # <<>>
    BY <1>1 DEF PopReceived, TypeOK, MessageQueue
  <2>2. <<Head(recvq[n][c])>> \in MessageQueue /\ Tail(recvq[n][c]) \in MessageQueue
    BY <2>1, TailFacts DEF MessageQueue
  <2>3. hand' \in [Node -> [Chan -> MessageQueue]] /\ recvq' \in [Node -> [Chan -> MessageQueue]]
    <3>1. /\ hand' = [hand EXCEPT ![n][c] = <<Head(recvq[n][c])>>]
          /\ recvq' = [recvq EXCEPT ![n][c] = Tail(recvq[n][c])]
          /\ hand \in [Node -> [Chan -> MessageQueue]] /\ recvq \in [Node -> [Chan -> MessageQueue]]
      BY <1>1 DEF PopReceived, TypeOK
    <3>. QED BY <2>2, <3>1, CellUpdate
  <2>. QED BY <1>1, <2>3 DEF PopReceived, TypeOK, counts, loop, backend, cursors
<1>2. CASE HandleData(n, c)
  <2>1. hand' \in [Node -> [Chan -> MessageQueue]] /\ handled' \in [Chan -> [Node -> [Node -> Nat]]]
    BY <1>2, FinishEffect DEF HandleData
  <2>. QED BY <1>2, <2>1 DEF HandleData, TypeOK, queues, counts, loop, backend
<1>3. CASE HandleSync(n, c)
  <2>1. hand' \in [Node -> [Chan -> MessageQueue]] /\ handled' \in [Chan -> [Node -> [Node -> Nat]]]
    BY <1>3, FinishEffect DEF HandleSync
  <2>2. syncCounter' \in [Node -> [Chan -> Nat]]
    BY <1>3 DEF HandleSync, TypeOK
  <2>3. /\ sendq' \in [Node -> [Chan -> MessageQueue]] /\ log' \in [Chan -> [Node -> Seq(LogEntry)]]
        /\ failed' \in [Node -> [Chan -> BOOLEAN]]
    <3>1. CASE Push(n, c, "ack", n) /\ failed' = failed
      BY <3>1, PushType DEF MsgType, TypeOK
    <3>2. CASE sendq' = sendq /\ log' = log
               /\ (failed' = failed \/ failed' = [failed EXCEPT ![n][c] = TRUE])
      <4>1. /\ sendq \in [Node -> [Chan -> MessageQueue]] /\ log \in [Chan -> [Node -> Seq(LogEntry)]]
            /\ failed \in [Node -> [Chan -> BOOLEAN]]
        BY DEF TypeOK
      <4>2. failed' \in [Node -> [Chan -> BOOLEAN]]
        <5>1. [failed EXCEPT ![n][c] = TRUE] \in [Node -> [Chan -> BOOLEAN]]
          BY <4>1
        <5>. QED BY <3>2, <4>1, <5>1
      <4>. QED BY <3>2, <4>1, <4>2
    <3>. QED BY <1>3, <3>1, <3>2 DEF HandleSync, SendAck
  <2>. QED BY <1>3, <2>1, <2>2, <2>3 DEF HandleSync, TypeOK, loop, backend
<1>4. CASE HandleAck(n, c)
  <2>1. hand' \in [Node -> [Chan -> MessageQueue]] /\ handled' \in [Chan -> [Node -> [Node -> Nat]]]
    BY <1>4, FinishEffect DEF HandleAck
  <2>2. /\ syncCounter' \in [Node -> [Chan -> Nat]] /\ ackCounter' \in [Node -> [Chan -> Nat]]
        /\ synchronized' \in [Node -> BOOLEAN] /\ failed' \in [Node -> [Chan -> BOOLEAN]]
    <3>1. size \in Nat
      BY CommAssumption, FS_CardinalityType DEF size
    <3>2. /\ syncCounter[n][c] \in Nat /\ ackCounter[n][c] \in Nat
          /\ syncCounter \in [Node -> [Chan -> Nat]] /\ ackCounter \in [Node -> [Chan -> Nat]]
          /\ synchronized \in [Node -> BOOLEAN] /\ failed \in [Node -> [Chan -> BOOLEAN]]
      BY DEF TypeOK
    <3>3. CASE ackCounter[n][c] + 1 # size
      <4>1. /\ ackCounter' = [ackCounter EXCEPT ![n][c] = ackCounter[n][c] + 1]
            /\ syncCounter' = syncCounter /\ synchronized' = synchronized /\ failed' = failed
        BY <1>4, <3>3 DEF HandleAck
      <4>2. ackCounter[n][c] + 1 \in Nat
        BY <3>2
      <4>3. ackCounter' \in [Node -> [Chan -> Nat]]
        BY <3>2, <4>1, <4>2, CounterUpdate
      <4>. QED BY <3>2, <4>1, <4>3
    <3>4. CASE ackCounter[n][c] + 1 = size /\ syncCounter[n][c] >= size
      <4>1. /\ syncCounter' = [syncCounter EXCEPT ![n][c] = syncCounter[n][c] - size]
            /\ ackCounter' = [ackCounter EXCEPT ![n][c] = ackCounter[n][c] + 1 - size]
            /\ synchronized' = [synchronized EXCEPT ![n] = TRUE] /\ failed' = failed
        BY <1>4, <3>4 DEF HandleAck, CompleteRound, OffRound, TypeOK
      <4>2. syncCounter[n][c] - size \in Nat /\ ackCounter[n][c] + 1 - size \in Nat
        BY <3>1, <3>2, <3>4
      <4>3. syncCounter' \in [Node -> [Chan -> Nat]] /\ ackCounter' \in [Node -> [Chan -> Nat]]
        BY <3>2, <4>1, <4>2, CounterUpdate
      <4>4. synchronized' \in [Node -> BOOLEAN]
        BY <3>2, <4>1
      <4>. QED BY <3>2, <4>1, <4>3, <4>4
    <3>5. CASE ackCounter[n][c] + 1 = size /\ ~(syncCounter[n][c] >= size)
      <4>1. /\ syncCounter' = syncCounter
            /\ ackCounter' = [ackCounter EXCEPT ![n][c] = ackCounter[n][c] + 1]
            /\ synchronized' = [synchronized EXCEPT ![n] = TRUE]
            /\ failed' = [failed EXCEPT ![n][c] = TRUE]
        BY <1>4, <3>5 DEF HandleAck, CompleteRound, TypeOK
      <4>2. ackCounter[n][c] + 1 \in Nat
        BY <3>2
      <4>3. ackCounter' \in [Node -> [Chan -> Nat]]
        BY <3>2, <4>1, <4>2, CounterUpdate
      <4>4. synchronized' \in [Node -> BOOLEAN] /\ failed' \in [Node -> [Chan -> BOOLEAN]]
        BY <3>2, <4>1
      <4>. QED BY <3>2, <4>1, <4>3, <4>4
    <3>. QED BY <3>3, <3>4, <3>5
  <2>. QED BY <1>4, <2>1, <2>2 DEF HandleAck, TypeOK, queues, loop, backend
<1>. QED BY <1>1, <1>2, <1>3, <1>4 DEF Handle

\* ... and the main loop.
LEMMA GotoType ==
  ASSUME TypeOK, NEW n \in Node, NEW c \in Chan,
         NEW at \in {"top", "eof?", "empty?", "poll", "receive", "dispatch", "exited"}, Goto(n, at, c)
  PROVE  /\ main' \in [Node -> {"top", "eof?", "empty?", "poll", "receive", "dispatch", "exited"}]
         /\ chan' \in [Node -> Chan]
         /\ main'[n] = at /\ chan'[n] = c
         /\ \A m \in Node : m # n => main'[m] = main[m] /\ chan'[m] = chan[m]
  BY DEF Goto, TypeOK

\* The scans look at the channels.
LEMMA NextChan ==
  /\ NChan \in Nat /\ 1 \in Chan
  /\ \A c \in Chan : c \in Nat /\ c <= NChan /\ (~LastQueue(c) => c + 1 \in Chan)
  BY CommAssumption DEF Chan, LastQueue

\* A message is put into the buffers of the nodes it is for, and the buffers are
\* flushed, or some of them.
LEMMA BackendSendEffect ==
  ASSUME TypeOK, NEW n \in Node, NEW m \in Message, BackendSend(n, m)
  PROVE  \E b \in [Node -> MessageQueue], D \in SUBSET Node :
           /\ Flush(n, D, b)
           /\ \A d \in Node : b[d] = IF Reaches(m, d) THEN Append(buf[n][d], m) ELSE buf[n][d]
<1>1. buf[n] \in [Node -> MessageQueue] /\ m.dest \in Node
  BY MessageFields DEF TypeOK
<1>2. \A d \in Node : Append(buf[n][d], m) \in MessageQueue
  BY <1>1 DEF MessageQueue
<1>3. CASE m.type = "data"
  <2>. DEFINE b == [buf[n] EXCEPT ![m.dest] = Append(buf[n][m.dest], m)]
  <2>1. b \in [Node -> MessageQueue]
    BY <1>1, <1>2
  <2>2. \A d \in Node : b[d] = IF Reaches(m, d) THEN Append(buf[n][d], m) ELSE buf[n][d]
    BY <1>1, <1>3 DEF Reaches
  <2>3. Flush(n, IF Len(b[m.dest]) >= FlushSize THEN {m.dest} ELSE {}, b)
    BY <1>3 DEF BackendSend
  <2>. DEFINE D == IF Len(b[m.dest]) >= FlushSize THEN {m.dest} ELSE {}
  <2>4. D \in SUBSET Node
    BY <1>1
  <2>5. Flush(n, D, b)
    BY <2>3
  <2>. HIDE DEF b, D
  <2>. QED BY <2>1, <2>2, <2>4, <2>5
<1>4. CASE m.type # "data"
  <2>. DEFINE b == Broadcast(n, m)
  <2>1. b \in [Node -> MessageQueue]
    BY <1>2 DEF Broadcast
  <2>2. \A d \in Node : b[d] = IF Reaches(m, d) THEN Append(buf[n][d], m) ELSE buf[n][d]
    BY <1>4 DEF Reaches, Broadcast
  <2>3. Flush(n, Node, b)
    BY <1>4 DEF BackendSend
  <2>. QED BY <2>1, <2>2, <2>3
<1>. QED BY <1>3, <1>4

LEMMA MaybeFlushEffect ==
  ASSUME TypeOK, NEW n \in Node, MaybeFlush(n)
  PROVE  \/ Flush(n, Node, buf[n]) /\ buf[n] \in [Node -> MessageQueue]
         \/ buf' = buf /\ net' = net /\ pending' = pending
  BY DEF MaybeFlush, FlushAll, backend, TypeOK

LEMMA MaybeFlushType ==
  ASSUME TypeOK, NEW n \in Node, MaybeFlush(n)
  PROVE  /\ buf' \in [Node -> [Node -> MessageQueue]]
         /\ net' \in [Node -> [Node -> Seq(MessageQueue)]]
         /\ pending' \in [Node -> BOOLEAN]
<1>1. CASE Flush(n, Node, buf[n]) /\ buf[n] \in [Node -> MessageQueue]
  BY <1>1, FlushEffect
<1>2. CASE buf' = buf /\ net' = net /\ pending' = pending
  BY <1>2 DEF TypeOK
<1>. QED BY <1>1, <1>2, MaybeFlushEffect

\* The message that is dispatched.
LEMMA DispatchEffect ==
  ASSUME TypeOK, LoopInv, NEW n \in Node, Dispatch(n)
  PROVE  \E m \in Message :
           /\ m = Head(inbox[n]) /\ inbox[n] # <<>> /\ main[n] = "dispatch"
           /\ Enqueue(n, m)
           /\ arrived' = [arrived EXCEPT ![m.chan][n][m.from] = m.num]
           /\ arrived' \in [Chan -> [Node -> [Node -> Nat]]]
           /\ inbox' = [inbox EXCEPT ![n] = Tail(inbox[n])]
           /\ \/ Tail(inbox[n]) = <<>> /\ Goto(n, "top", 1) /\ MaybeFlush(n)
              \/ Tail(inbox[n]) # <<>> /\ UNCHANGED <<main, chan, backend>>
<1>1. inbox[n] # <<>> /\ main[n] = "dispatch" /\ inbox[n] \in Seq(Message)
  BY DEF Dispatch, LoopInv, TypeOK, MessageQueue
<1>2. Head(inbox[n]) \in Message
  BY <1>1, TailFacts
<1>. DEFINE m == Head(inbox[n])
<1>3. /\ Enqueue(n, m) /\ arrived' = [arrived EXCEPT ![m.chan][n][m.from] = m.num]
      /\ inbox' = [inbox EXCEPT ![n] = Tail(inbox[n])]
  BY DEF Dispatch, RestOf
<1>4. arrived' \in [Chan -> [Node -> [Node -> Nat]]]
  <2>1. arrived \in [Chan -> [Node -> [Node -> Nat]]] /\ m.chan \in Chan /\ m.from \in Node /\ m.num \in Nat
    BY <1>2, MessageFields DEF TypeOK
  <2>. QED BY <1>3, <2>1
<1>5. \/ Tail(inbox[n]) = <<>> /\ Goto(n, "top", 1) /\ MaybeFlush(n)
      \/ Tail(inbox[n]) # <<>> /\ UNCHANGED <<main, chan, backend>>
  BY DEF Dispatch, RestOf
<1>. QED BY <1>1, <1>2, <1>3, <1>4, <1>5

LEMMA MainTypes ==
  ASSUME TypeOK, LoopInv, NEW n \in Node, MainStep(n) PROVE TypeOK'
<1>1. CASE Top(n) \/ ReadEof(n)
  <2>1. \E at \in {"top", "eof?", "empty?", "poll", "receive", "dispatch", "exited"}, c \in Chan : Goto(n, at, c)
    BY <1>1, NextChan DEF Top, ReadEof, TypeOK
  <2>2. /\ main' \in [Node -> {"top", "eof?", "empty?", "poll", "receive", "dispatch", "exited"}]
        /\ chan' \in [Node -> Chan]
    BY <2>1, GotoType
  <2>. QED BY <1>1, <2>2 DEF Top, ReadEof, TypeOK, queues, counts, backend, cursors
<1>2. CASE ReadEmpty(n)
  <2>1. \E at \in {"top", "eof?", "empty?", "poll", "receive", "dispatch", "exited"}, c \in Chan : Goto(n, at, c)
    <3>1. chan[n] \in Chan
      BY DEF TypeOK
    <3>. QED BY <1>2, <3>1, NextChan DEF ReadEmpty
  <2>2. /\ main' \in [Node -> {"top", "eof?", "empty?", "poll", "receive", "dispatch", "exited"}]
        /\ chan' \in [Node -> Chan]
    BY <2>1, GotoType
  <2>3. pending' \in [Node -> BOOLEAN] /\ sendDone' \in [Node -> BOOLEAN]
    <3>1. pending \in [Node -> BOOLEAN] /\ sendDone \in [Node -> BOOLEAN]
      BY DEF TypeOK
    <3>2. \/ pending' = pending /\ sendDone' = sendDone
          \/ \E done \in BOOLEAN : DoneSending(n, done) /\ sendDone' = [sendDone EXCEPT ![n] = done]
      BY <1>2 DEF ReadEmpty
    <3>3. ASSUME NEW done \in BOOLEAN, DoneSending(n, done) PROVE pending' \in [Node -> BOOLEAN]
      <4>1. PICK still \in Cleared(n) : pending' = [pending EXCEPT ![n] = still]
        BY <3>3 DEF DoneSending
      <4>2. still \in BOOLEAN
        BY <3>1 DEF Cleared
      <4>. QED BY <3>1, <4>1, <4>2
    <3>. QED BY <3>1, <3>2, <3>3
  <2>. QED BY <1>2, <2>2, <2>3 DEF ReadEmpty, TypeOK, queues, counts, cursors
<1>3. CASE Poll(n)
  <2>1. chan[n] \in Chan /\ sendq[n][chan[n]] \in Seq(Message) /\ sendq[n][chan[n]] # <<>>
    BY <1>3 DEF Poll, TypeOK, MessageQueue
  <2>2. Head(sendq[n][chan[n]]) \in Message /\ Tail(sendq[n][chan[n]]) \in MessageQueue
    BY <2>1, TailFacts DEF MessageQueue
  <2>3. sendq' \in [Node -> [Chan -> MessageQueue]]
    <3>1. sendq' = [sendq EXCEPT ![n][chan[n]] = Tail(sendq[n][chan[n]])] /\ sendq \in [Node -> [Chan -> MessageQueue]]
      BY <1>3 DEF Poll, TypeOK
    <3>. QED BY <2>1, <2>2, <3>1, CellUpdate
  <2>4. PICK b \in [Node -> MessageQueue], D \in SUBSET Node : Flush(n, D, b)
    BY <1>3, <2>2, BackendSendEffect DEF Poll
  <2>5. /\ buf' \in [Node -> [Node -> MessageQueue]]
        /\ net' \in [Node -> [Node -> Seq(MessageQueue)]]
        /\ pending' \in [Node -> BOOLEAN]
    BY <2>4, FlushEffect
  <2>. QED BY <1>3, <2>3, <2>5 DEF Poll, TypeOK, counts, loop, cursors
<1>4. CASE PollNext(n)
  <2>1. \E at \in {"top", "eof?", "empty?", "poll", "receive", "dispatch", "exited"}, c \in Chan : Goto(n, at, c)
    <3>1. chan[n] \in Chan
      BY DEF TypeOK
    <3>. QED BY <1>4, <3>1, NextChan DEF PollNext
  <2>2. /\ main' \in [Node -> {"top", "eof?", "empty?", "poll", "receive", "dispatch", "exited"}]
        /\ chan' \in [Node -> Chan]
    BY <2>1, GotoType
  <2>. QED BY <1>4, <2>2 DEF PollNext, TypeOK, queues, counts, backend, cursors
<1>5. CASE ReceiveNothing(n)
  <2>1. /\ main' \in [Node -> {"top", "eof?", "empty?", "poll", "receive", "dispatch", "exited"}]
        /\ chan' \in [Node -> Chan]
    BY <1>5, NextChan, GotoType DEF ReceiveNothing
  <2>2. /\ buf' \in [Node -> [Node -> MessageQueue]]
        /\ net' \in [Node -> [Node -> Seq(MessageQueue)]]
        /\ pending' \in [Node -> BOOLEAN]
    BY <1>5, MaybeFlushType DEF ReceiveNothing
  <2>. QED BY <1>5, <2>1, <2>2 DEF ReceiveNothing, TypeOK, queues, counts, cursors
<1>6. ASSUME NEW i \in Node, Receive(n, i) PROVE TypeOK'
  <2>1. /\ main' \in [Node -> {"top", "eof?", "empty?", "poll", "receive", "dispatch", "exited"}]
        /\ chan' \in [Node -> Chan]
    BY <1>6, NextChan, GotoType DEF Receive
  <2>2. net[i][n] \in Seq(MessageQueue) /\ net[i][n] # <<>>
    BY <1>6 DEF Receive, Receivable, TypeOK
  <2>3. Head(net[i][n]) \in MessageQueue /\ Tail(net[i][n]) \in Seq(MessageQueue)
    BY <2>2, TailFacts
  <2>4. inbox' \in [Node -> MessageQueue] /\ net' \in [Node -> [Node -> Seq(MessageQueue)]]
    <3>1. /\ inbox' = [inbox EXCEPT ![n] = Head(net[i][n])] /\ net' = [net EXCEPT ![i][n] = Tail(net[i][n])]
          /\ inbox \in [Node -> MessageQueue] /\ net \in [Node -> [Node -> Seq(MessageQueue)]]
      BY <1>6 DEF Receive, TypeOK
    <3>. QED BY <2>3, <3>1, CellUpdate
  <2>. QED BY <1>6, <2>1, <2>4 DEF Receive, TypeOK, queues, counts, cursors
<1>7. CASE Dispatch(n)
  <2>1. PICK m \in Message :
           /\ m = Head(inbox[n]) /\ inbox[n] # <<>>
           /\ Enqueue(n, m)
           /\ arrived' \in [Chan -> [Node -> [Node -> Nat]]]
           /\ inbox' = [inbox EXCEPT ![n] = Tail(inbox[n])]
           /\ \/ Tail(inbox[n]) = <<>> /\ Goto(n, "top", 1) /\ MaybeFlush(n)
              \/ Tail(inbox[n]) # <<>> /\ UNCHANGED <<main, chan, backend>>
    BY <1>7, DispatchEffect
  <2>2. inbox' \in [Node -> MessageQueue]
    <3>1. inbox[n] \in Seq(Message) /\ inbox \in [Node -> MessageQueue]
      BY DEF TypeOK, MessageQueue
    <3>2. Tail(inbox[n]) \in MessageQueue
      BY <2>1, <3>1, TailFacts DEF MessageQueue
    <3>. QED BY <2>1, <3>1, <3>2
  <2>3. /\ main' \in [Node -> {"top", "eof?", "empty?", "poll", "receive", "dispatch", "exited"}]
        /\ chan' \in [Node -> Chan]
        /\ buf' \in [Node -> [Node -> MessageQueue]]
        /\ net' \in [Node -> [Node -> Seq(MessageQueue)]]
        /\ pending' \in [Node -> BOOLEAN]
    <3>1. CASE Goto(n, "top", 1) /\ MaybeFlush(n)
      BY <3>1, NextChan, GotoType, MaybeFlushType
    <3>2. CASE UNCHANGED <<main, chan, backend>>
      BY <3>2 DEF TypeOK, backend
    <3>. QED BY <2>1, <3>1, <3>2
  <2>4. /\ eofCounter' \in [Node -> [Chan -> Nat]] /\ recvEof' \in [Node -> [Chan -> BOOLEAN]]
        /\ recvq' \in [Node -> [Chan -> MessageQueue]] /\ failed' \in [Node -> [Chan -> BOOLEAN]]
    <3>1. /\ eofCounter \in [Node -> [Chan -> Nat]] /\ recvEof \in [Node -> [Chan -> BOOLEAN]]
          /\ recvq \in [Node -> [Chan -> MessageQueue]] /\ failed \in [Node -> [Chan -> BOOLEAN]]
      BY DEF TypeOK
    <3>2. m.chan \in Chan
      BY MessageFields
    <3>. DEFINE c == m.chan
    <3>3. CASE m.type = "eof"
      <4>1. /\ eofCounter' = [eofCounter EXCEPT ![n][c] = eofCounter[n][c] + 1]
            /\ recvEof' = [recvEof EXCEPT ![n][c] = recvEof[n][c] \/ EofFromAll(eofCounter[n][c] + 1)]
            /\ recvq' = recvq /\ failed' = failed
        BY <2>1, <3>3 DEF Enqueue
      <4>2. eofCounter[n][c] + 1 \in Nat
        BY <3>1, <3>2
      <4>3. (recvEof[n][c] \/ EofFromAll(eofCounter[n][c] + 1)) \in BOOLEAN
        BY DEF EofFromAll
      <4>. HIDE DEF c
      <4>4. c \in Chan
        BY <3>2 DEF c
      <4>5. eofCounter' \in [Node -> [Chan -> Nat]]
        BY <3>1, <4>1, <4>2, <4>4, CounterUpdate
      <4>6. recvEof' \in [Node -> [Chan -> BOOLEAN]]
        BY <3>1, <4>1, <4>3, <4>4, CellUpdate
      <4>. QED BY <3>1, <4>1, <4>5, <4>6
    <3>4. CASE m.type # "eof"
      <4>1. /\ eofCounter' = eofCounter /\ recvEof' = recvEof
            /\ \/ failed' = [failed EXCEPT ![n][c] = TRUE] /\ recvq' = recvq
               \/ failed' = failed /\ recvq' = [recvq EXCEPT ![n][c] = Append(recvq[n][c], m)]
        BY <2>1, <3>4 DEF Enqueue
      <4>2. Append(recvq[n][c], m) \in MessageQueue
        <5>1. recvq[n][c] \in Seq(Message)
          BY <3>1, <3>2 DEF MessageQueue
        <5>. QED BY <5>1, AppendFacts DEF MessageQueue
      <4>. HIDE DEF c
      <4>4. c \in Chan
        BY <3>2 DEF c
      <4>5. [recvq EXCEPT ![n][c] = Append(recvq[n][c], m)] \in [Node -> [Chan -> MessageQueue]]
        BY <3>1, <4>2, <4>4, CellUpdate
      <4>6. [failed EXCEPT ![n][c] = TRUE] \in [Node -> [Chan -> BOOLEAN]]
        BY <3>1, <4>4
      <4>. QED BY <3>1, <4>1, <4>5, <4>6
    <3>. QED BY <3>3, <3>4
  <2>5. UNCHANGED <<sendq, sendEof, synchronized, worker, hand, counts, sendDone, log, handled>>
    BY <1>7 DEF Dispatch
  <2>. QED BY <2>1, <2>2, <2>3, <2>4, <2>5 DEF TypeOK, counts
<1>. QED BY <1>1, <1>2, <1>3, <1>4, <1>5, <1>6, <1>7 DEF MainStep

-----------------------------------------------------------------------------
(* The main loop: what a scan has found stays so.                          *)

LEMMA InitLoop == Init => LoopInv
<1>. SUFFICES ASSUME Init PROVE LoopInv
  OBVIOUS
<1>1. /\ main = [n \in Node |-> "top"] /\ inbox = [n \in Node |-> <<>>]
      /\ sendDone = [n \in Node |-> FALSE]
      /\ net = [i \in Node |-> [j \in Node |-> <<>>]]
  BY DEF Init, BackendInit
<1>2. \A i, n \in Node : DOMAIN net[i][n] = {}
  BY <1>1
<1>. QED BY <1>1, <1>2 DEF LoopInv

\* Once the EOF mark is set nothing is pushed any more.
LEMMA PushFinished ==
  ASSUME TypeOK, NEW n \in Node, NEW c \in Chan, NEW t \in MsgType, NEW d \in Node,
         Push(n, c, t, d), ~sendEof[n][c], sendEof' = sendEof
  PROVE  \A m \in Node, e \in Chan : Finished(m, e) => Finished(m, e)'
<1>1. PICK m \in Message : sendq' = [sendq EXCEPT ![n][c] = Append(sendq[n][c], m)]
  BY PushEffect
<1>2. \A i \in Node, e \in Chan : i # n \/ e # c => sendq'[i][e] = sendq[i][e]
  BY <1>1 DEF TypeOK
<1>. QED BY <1>2 DEF Finished

\* What the other threads do leaves the main loop as it is.
LEMMA OthersLoop ==
  ASSUME LoopInv, UNCHANGED <<main, chan, inbox, sendDone, net>>, TypeOK,
         \A n \in Node, c \in Chan : /\ Finished(n, c) => Finished(n, c)'
                                     /\ sendEof[n][c] => sendEof'[n][c]
  PROVE  LoopInv'
<1>1. \A n \in Node : chan[n] \in Chan
  BY DEF TypeOK
<1>. QED BY <1>1 DEF LoopInv

LEMMA WorkerLoop ==
  ASSUME TypeOK, LoopInv, NEW n \in Node, WorkerStep(n) PROVE LoopInv'
<1>1. CASE \E c \in Chan, t \in MsgType, d \in Node :
             Push(n, c, t, d) /\ ~sendEof[n][c] /\ sendEof' = sendEof /\ loop' = loop /\ net' = net
  BY <1>1, PushFinished, OthersLoop DEF loop
<1>2. ASSUME NEW w \in Thread, SynchronizeReturns(n, w) PROVE LoopInv'
  BY <1>2, OthersLoop DEF SynchronizeReturns, loop, backend, queues, Finished
<1>3. ASSUME NEW w \in Thread, MarkEof(n, w) PROVE LoopInv'
  <2>1. /\ sendEof' = [sendEof EXCEPT ![n][worker[n][w].chan] = TRUE] /\ sendq' = sendq
        /\ loop' = loop /\ net' = net
    BY <1>3 DEF MarkEof, backend
  <2>2. \A m \in Node, c \in Chan : sendEof[m][c] => sendEof'[m][c]
    BY <2>1 DEF TypeOK
  <2>. QED BY <2>1, <2>2, OthersLoop DEF loop, Finished
<1>. QED BY <1>1, <1>2, <1>3 DEF WorkerStep, Send, Synchronize, PushEof, MayUse, MsgType, backend

LEMMA HandlerLoop ==
  ASSUME TypeOK, LoopInv, NEW n \in Node, NEW c \in Chan, PopReceived(n, c) \/ Handle(n, c)
  PROVE  LoopInv'
<1>1. sendEof' = sendEof /\ loop' = loop /\ net' = net
  BY DEF PopReceived, Handle, HandleData, HandleSync, HandleAck, queues, backend
<1>2. sendq' = sendq \/ (Push(n, c, "ack", n) /\ ~sendEof[n][c])
  BY DEF PopReceived, Handle, HandleData, HandleSync, SendAck, HandleAck, queues
<1>3. CASE sendq' = sendq
  BY <1>1, <1>3, OthersLoop DEF loop, Finished
<1>4. CASE Push(n, c, "ack", n) /\ ~sendEof[n][c]
  BY <1>1, <1>4, PushFinished, OthersLoop DEF loop, MsgType
<1>. QED BY <1>2, <1>3, <1>4

\* What is flushed is not empty.
LEMMA FlushBatches ==
  ASSUME TypeOK, LoopInv, NEW n \in Node, NEW D \in SUBSET Node, NEW b \in [Node -> MessageQueue], Flush(n, D, b)
  PROVE  \A i, j \in Node : \A x \in DOMAIN net'[i][j] : net'[i][j][x] # <<>>
<1>. SUFFICES ASSUME NEW i \in Node, NEW j \in Node, NEW x \in DOMAIN net'[i][j] PROVE net'[i][j][x] # <<>>
  OBVIOUS
<1>1. \A y \in DOMAIN net[i][j] : net[i][j][y] # <<>>
  BY DEF LoopInv
<1>2. CASE net'[i][j] = net[i][j]
  BY <1>1, <1>2
<1>3. CASE b[j] # <<>> /\ net'[i][j] = net[i][j] \o Batches(b[j])
  <2>1. net[i][j] \in Seq(MessageQueue) /\ Batches(b[j]) \in Seq(MessageQueue)
    BY <1>3, BatchesFacts DEF TypeOK
  <2>2. x \in 1..Len(net[i][j] \o Batches(b[j]))
    BY <1>3, <2>1, ConcatFacts, SeqFacts
  <2>3. CASE x \in 1..Len(net[i][j])
    BY <1>1, <1>3, <2>1, <2>3, ConcatFacts, SeqFacts
  <2>4. CASE \E l \in 1..Len(Batches(b[j])) : x = Len(net[i][j]) + l
    <3>1. PICK l \in 1..Len(Batches(b[j])) : x = Len(net[i][j]) + l
      BY <2>4
    <3>2. Batches(b[j])[l] # <<>>
      BY <1>3, BatchesFacts
    <3>3. (net[i][j] \o Batches(b[j]))[x] = Batches(b[j])[l]
      BY <2>1, <3>1, ConcatFacts
    <3>. QED BY <1>3, <3>2, <3>3
  <2>. QED BY <2>1, <2>2, <2>3, <2>4, ConcatFacts
<1>. QED BY <1>2, <1>3, FlushEffect

LEMMA MainKeepsLoop ==
  ASSUME TypeOK, LoopInv, NEW n \in Node, MainStep(n) PROVE LoopInv'
<1>. DEFINE Batched1 == \A i, j \in Node : \A x \in DOMAIN net'[i][j] : net'[i][j][x] # <<>>
            Inboxes == \A m \in Node : main'[m] = "dispatch" <=> inbox'[m] # <<>>
            Scans == \A m \in Node :
              /\ main'[m] \in {"eof?", "empty?"} => \A c \in Chan : c < chan'[m] => Finished(m, c)'
              /\ main'[m] = "empty?" => sendEof'[m][chan'[m]]
              /\ sendDone'[m] => \A c \in Chan : Finished(m, c)'
<1>. SUFFICES Batched1 /\ Inboxes /\ Scans
  BY DEF LoopInv
<1>0. /\ \A m \in Node : chan[m] \in Chan
      /\ \A i, j \in Node : \A x \in DOMAIN net[i][j] : net[i][j][x] # <<>>
      /\ \A m \in Node : main[m] = "dispatch" <=> inbox[m] # <<>>
      /\ sendEof' = sendEof
  BY DEF TypeOK, LoopInv, MainStep, Top, ReadEof, ReadEmpty, Poll, PollNext, ReceiveNothing, Dispatch, Receive, queues
<1>1. CASE Top(n)
  <2>1. \E at \in {"top", "eof?", "empty?", "poll", "receive", "dispatch", "exited"} :
          /\ at \in {"exited", "receive", "eof?"} /\ Goto(n, at, 1)
    BY <1>1 DEF Top
  <2>2. /\ main[n] = "top" /\ main'[n] \in {"exited", "receive", "eof?"} /\ chan'[n] = 1
        /\ \A m \in Node : m # n => main'[m] = main[m] /\ chan'[m] = chan[m]
    BY <1>1, <2>1, GotoType, NextChan DEF Top
  <2>3. inbox' = inbox /\ net' = net /\ sendDone' = sendDone /\ sendq' = sendq
    BY <1>1 DEF Top, queues, backend
  <2>4. \A c \in Chan : ~(c < 1)
    BY DEF Chan
  <2>. QED BY <1>0, <2>2, <2>3, <2>4 DEF LoopInv, Finished
<1>2. CASE ReadEof(n)
  <2>1. \/ sendEof[n][chan[n]] /\ Goto(n, "empty?", chan[n])
        \/ Goto(n, "poll", 1)
    BY <1>2 DEF ReadEof
  <2>2. /\ main[n] = "eof?"
        /\ \/ sendEof[n][chan[n]] /\ main'[n] = "empty?" /\ chan'[n] = chan[n]
           \/ main'[n] = "poll"
        /\ \A m \in Node : m # n => main'[m] = main[m] /\ chan'[m] = chan[m]
    BY <1>0, <1>2, <2>1, GotoType, NextChan DEF ReadEof
  <2>3. inbox' = inbox /\ net' = net /\ sendDone' = sendDone /\ sendq' = sendq
    BY <1>2 DEF ReadEof, queues, backend
  <2>. QED BY <1>0, <2>2, <2>3 DEF LoopInv, Finished
<1>3. CASE ReadEmpty(n)
  <2>1. \/ Goto(n, "poll", 1) /\ sendDone' = sendDone
        \/ /\ sendq[n][chan[n]] = <<>> /\ ~LastQueue(chan[n])
           /\ Goto(n, "eof?", chan[n] + 1) /\ sendDone' = sendDone
        \/ /\ sendq[n][chan[n]] = <<>> /\ LastQueue(chan[n])
           /\ \E done \in BOOLEAN : /\ sendDone' = [sendDone EXCEPT ![n] = done]
                                    /\ Goto(n, IF done THEN "receive" ELSE "poll", 1)
    BY <1>3 DEF ReadEmpty
  <2>2. /\ main[n] = "empty?"
        /\ \/ main'[n] = "poll" /\ sendDone' = sendDone
           \/ /\ sendq[n][chan[n]] = <<>> /\ ~LastQueue(chan[n])
              /\ main'[n] = "eof?" /\ chan'[n] = chan[n] + 1 /\ sendDone' = sendDone
           \/ /\ sendq[n][chan[n]] = <<>> /\ LastQueue(chan[n])
              /\ main'[n] \in {"receive", "poll"} /\ \A m \in Node : m # n => sendDone'[m] = sendDone[m]
        /\ \A m \in Node : m # n => main'[m] = main[m] /\ chan'[m] = chan[m]
    <3>1. main[n] = "empty?" /\ sendDone \in [Node -> BOOLEAN]
      BY <1>3 DEF ReadEmpty, TypeOK
    <3>2. CASE Goto(n, "poll", 1) /\ sendDone' = sendDone
      BY <3>1, <3>2, GotoType, NextChan
    <3>3. CASE /\ sendq[n][chan[n]] = <<>> /\ ~LastQueue(chan[n])
               /\ Goto(n, "eof?", chan[n] + 1) /\ sendDone' = sendDone
      <4>1. chan[n] + 1 \in Chan
        BY <1>0, <3>3, NextChan
      <4>. QED BY <3>1, <3>3, <4>1, GotoType
    <3>4. ASSUME sendq[n][chan[n]] = <<>>, LastQueue(chan[n]), NEW done \in BOOLEAN,
                 sendDone' = [sendDone EXCEPT ![n] = done], Goto(n, IF done THEN "receive" ELSE "poll", 1)
          PROVE  <2>2
      BY <3>1, <3>4, GotoType, NextChan
    <3>. QED BY <2>1, <3>2, <3>3, <3>4
  <2>3. inbox' = inbox /\ net' = net /\ sendq' = sendq
    BY <1>3 DEF ReadEmpty, queues
  <2>4. sendEof[n][chan[n]] /\ \A c \in Chan : c < chan[n] => Finished(n, c)
    BY <2>2 DEF LoopInv
  <2>5. \A m \in Node, c \in Chan : Finished(m, c)' <=> Finished(m, c)
    BY <1>0, <2>3 DEF Finished
  <2>6. sendq[n][chan[n]] = <<>> => \A c \in Chan : c <= chan[n] => Finished(n, c)
    <3>1. chan[n] \in Chan /\ \A c \in Chan : c <= chan[n] => c < chan[n] \/ c = chan[n]
      <4>1. chan[n] \in Nat /\ \A c \in Chan : c \in Nat
        BY <1>0, NextChan
      <4>2. \A c \in Nat : c <= chan[n] => c < chan[n] \/ c = chan[n]
        BY <4>1
      <4>. QED BY <1>0, <4>1, <4>2
    <3>2. sendq[n][chan[n]] = <<>> => Finished(n, chan[n])
      BY <2>4 DEF Finished
    <3>. QED BY <2>4, <3>1, <3>2
  <2>7. LastQueue(chan[n]) => \A c \in Chan : c <= chan[n]
    BY NextChan DEF LastQueue
  <2>8. \A c \in Chan : c < chan[n] + 1 => c <= chan[n]
    BY <1>0, NextChan
  <2>9. Scans
    BY <1>0, <2>2, <2>3, <2>5, <2>6, <2>7, <2>8 DEF LoopInv
  <2>. QED BY <1>0, <2>2, <2>3, <2>9
<1>4. CASE Poll(n)
  <2>1. chan[n] \in Chan /\ sendq[n][chan[n]] \in Seq(Message) /\ sendq[n][chan[n]] # <<>>
    BY <1>4 DEF Poll, TypeOK, MessageQueue
  <2>2. Head(sendq[n][chan[n]]) \in Message
    BY <2>1, TailFacts
  <2>3. PICK b \in [Node -> MessageQueue], D \in SUBSET Node : Flush(n, D, b)
    BY <1>4, <2>2, BackendSendEffect DEF Poll
  <2>4. main' = main /\ chan' = chan /\ inbox' = inbox /\ sendDone' = sendDone
    BY <1>4 DEF Poll, loop
  <2>5. \A m \in Node, c \in Chan : Finished(m, c) => Finished(m, c)'
    <3>1. sendq' = [sendq EXCEPT ![n][chan[n]] = Tail(sendq[n][chan[n]])]
      BY <1>4 DEF Poll
    <3>2. \A m \in Node, c \in Chan : m # n \/ c # chan[n] => sendq'[m][c] = sendq[m][c]
      BY <3>1 DEF TypeOK
    <3>. QED BY <1>0, <2>1, <3>2 DEF Finished
  <2>. QED BY <1>0, <2>3, <2>4, <2>5, FlushBatches DEF LoopInv
<1>5. CASE PollNext(n)
  <2>1. \E at \in {"top", "eof?", "empty?", "poll", "receive", "dispatch", "exited"}, c \in Chan :
          at \in {"receive", "poll"} /\ Goto(n, at, c)
    BY <1>0, <1>5, NextChan DEF PollNext
  <2>2. /\ main[n] = "poll" /\ main'[n] \in {"receive", "poll"}
        /\ \A m \in Node : m # n => main'[m] = main[m] /\ chan'[m] = chan[m]
    BY <1>5, <2>1, GotoType DEF PollNext
  <2>3. inbox' = inbox /\ net' = net /\ sendDone' = sendDone /\ sendq' = sendq
    BY <1>5 DEF PollNext, queues, backend
  <2>. QED BY <1>0, <2>2, <2>3 DEF LoopInv, Finished
<1>6. CASE ReceiveNothing(n)
  <2>1. /\ main[n] = "receive" /\ main'[n] = "top"
        /\ \A m \in Node : m # n => main'[m] = main[m] /\ chan'[m] = chan[m]
    BY <1>6, GotoType, NextChan DEF ReceiveNothing
  <2>2. inbox' = inbox /\ sendDone' = sendDone /\ sendq' = sendq
    BY <1>6 DEF ReceiveNothing, queues
  <2>3. Batched1
    BY <1>0, <1>6, MaybeFlushEffect, FlushBatches DEF ReceiveNothing
  <2>. QED BY <1>0, <2>1, <2>2, <2>3 DEF LoopInv, Finished
<1>7. ASSUME NEW i \in Node, Receive(n, i) PROVE Batched1 /\ Inboxes /\ Scans
  <2>1. /\ main[n] = "receive" /\ main'[n] = "dispatch"
        /\ \A m \in Node : m # n => main'[m] = main[m] /\ chan'[m] = chan[m]
    BY <1>7, GotoType, NextChan DEF Receive
  <2>2. /\ inbox' = [inbox EXCEPT ![n] = Head(net[i][n])] /\ net' = [net EXCEPT ![i][n] = Tail(net[i][n])]
        /\ sendDone' = sendDone /\ sendq' = sendq
    BY <1>7 DEF Receive, queues
  <2>3. net[i][n] \in Seq(MessageQueue) /\ net[i][n] # <<>>
    BY <1>7 DEF Receive, Receivable, TypeOK
  <2>4. Head(net[i][n]) # <<>>
    <3>1. 1 \in DOMAIN net[i][n] /\ Head(net[i][n]) = net[i][n][1]
      BY <2>3, TailFacts, SeqFacts
    <3>. QED BY <1>0, <3>1
  <2>5. Inboxes
    BY <1>0, <2>1, <2>2, <2>4 DEF TypeOK
  <2>6. Batched1
    <3>1. \A k, j \in Node : net'[k][j] = IF k = i /\ j = n THEN Tail(net[i][n]) ELSE net[k][j]
      BY <2>2 DEF TypeOK
    <3>2. ASSUME NEW x \in DOMAIN Tail(net[i][n]) PROVE Tail(net[i][n])[x] # <<>>
      <4>1. /\ Tail(net[i][n]) \in Seq(MessageQueue) /\ Len(Tail(net[i][n])) = Len(net[i][n]) - 1
            /\ \A k \in 1..(Len(net[i][n]) - 1) : Tail(net[i][n])[k] = net[i][n][k + 1]
            /\ Len(net[i][n]) \in Nat
        BY <2>3, TailFacts, SeqFacts
      <4>2. x \in 1..(Len(net[i][n]) - 1) /\ x + 1 \in 1..Len(net[i][n])
        BY <4>1
      <4>3. x + 1 \in DOMAIN net[i][n]
        BY <2>3, <4>2, SeqFacts
      <4>. QED BY <1>0, <4>1, <4>2, <4>3
    <3>. SUFFICES ASSUME NEW k \in Node, NEW j \in Node, NEW x \in DOMAIN net'[k][j]
                  PROVE  net'[k][j][x] # <<>>
      OBVIOUS
    <3>3. CASE k = i /\ j = n
      BY <3>1, <3>2, <3>3
    <3>4. CASE ~(k = i /\ j = n)
      BY <1>0, <3>1, <3>4
    <3>. QED BY <3>3, <3>4
  <2>7. Scans
    BY <1>0, <2>1, <2>2 DEF LoopInv, Finished
  <2>. QED BY <2>5, <2>6, <2>7
<1>8. CASE Dispatch(n)
  <2>1. /\ inbox[n] # <<>> /\ main[n] = "dispatch"
        /\ inbox' = [inbox EXCEPT ![n] = Tail(inbox[n])]
        /\ \/ Tail(inbox[n]) = <<>> /\ Goto(n, "top", 1) /\ MaybeFlush(n)
           \/ Tail(inbox[n]) # <<>> /\ UNCHANGED <<main, chan, backend>>
    BY <1>8, DispatchEffect
  <2>2. sendDone' = sendDone /\ sendq' = sendq
    BY <1>8 DEF Dispatch
  <2>3. \A m \in Node : inbox'[m] = IF m = n THEN Tail(inbox[n]) ELSE inbox[m]
    BY <2>1 DEF TypeOK
  <2>4. /\ \A m \in Node : m # n => main'[m] = main[m] /\ chan'[m] = chan[m]
        /\ main'[n] \in {"top", "dispatch"} /\ (main'[n] = "dispatch" <=> Tail(inbox[n]) # <<>>)
    BY <2>1, GotoType, NextChan
  <2>5. Batched1
    BY <1>0, <2>1, MaybeFlushEffect, FlushBatches DEF backend
  <2>. QED BY <1>0, <2>2, <2>3, <2>4, <2>5 DEF LoopInv, Finished
<1>. QED BY <1>1, <1>2, <1>3, <1>4, <1>5, <1>6, <1>7, <1>8 DEF MainStep

\* Types and the main loop, together: the types of a dispatch need the inbox.
LoopOK == TypeOK /\ LoopInv

LEMMA NextLoop == ASSUME LoopOK, [Next]_vars PROVE LoopOK'
<1>1. ASSUME NEW n \in Node, WorkerStep(n) PROVE LoopOK'
  BY <1>1, WorkerTypes, WorkerLoop DEF LoopOK
<1>2. ASSUME NEW n \in Node, MainStep(n) PROVE LoopOK'
  BY <1>2, MainTypes, MainKeepsLoop DEF LoopOK
<1>3. ASSUME NEW n \in Node, NEW c \in Chan, PopReceived(n, c) \/ Handle(n, c) PROVE LoopOK'
  BY <1>3, HandlerTypes, HandlerLoop DEF LoopOK
<1>4. CASE UNCHANGED vars
  <2>1. TypeOK'
    BY <1>4 DEF LoopOK, TypeOK, vars, queues, counts, loop, backend, cursors
  <2>2. LoopInv'
    BY <1>4, OthersLoop DEF LoopOK, vars, queues, loop, backend, Finished
  <2>. QED BY <2>1, <2>2 DEF LoopOK
<1>. QED BY <1>1, <1>2, <1>3, <1>4 DEF Next

LEMMA LoopIsOK == Spec => []LoopOK
<1>1. Init => LoopOK
  BY InitType, InitLoop DEF LoopOK
<1>2. LoopOK /\ [Next]_vars => LoopOK'
  BY NextLoop
<1>. QED BY <1>1, <1>2, PTL DEF Spec

\* Every variable has its type, whatever the threads and the network do.
THEOREM TypeCorrect == Spec => []TypeOK
<1>1. LoopOK => TypeOK
  BY DEF LoopOK
<1>. QED BY <1>1, LoopIsOK, PTL

\* send_done() (communicator.inl:271) latches m_send_done only when all the send
\* queues are marked and empty, and then they stay so: that it reads the mark and
\* the queue in two steps and without the mutex makes no difference, as the mark
\* is read first and nothing is pushed after it.
THEOREM SendDoneIsSound == Spec => []SendDoneSound
<1>1. LoopOK => SendDoneSound
  BY DEF LoopOK, LoopInv, SendDoneSound, Finished
<1>. QED BY <1>1, LoopIsOK, PTL

-----------------------------------------------------------------------------
(* The order of the messages.                                              *)

\* What the batches of a sequence hold, and a set of messages in the order of
\* another.
InNet(batches) == UNION {ToSet(batches[x]) : x \in DOMAIN batches}
Precedes(S, T) == \A m \in S, l \in T : Ordered(m, l)

LEMMA LinedSets ==
  ASSUME NEW q, NEW batches, NEW b
  PROVE  /\ AllBefore(q, b) <=> Precedes(ToSet(q), ToSet(b))
         /\ Lined(q, batches, b) <=>
              /\ InOrder(q) /\ InLine(batches) /\ InOrder(b)
              /\ Precedes(ToSet(q), ToSet(b)) /\ Precedes(ToSet(q), InNet(batches))
              /\ Precedes(InNet(batches), ToSet(b))
<1>1. \A s, t : AllBefore(s, t) <=> Precedes(ToSet(s), ToSet(t))
  BY DEF AllBefore, Precedes, ToSet
<1>2. (\A x \in DOMAIN batches : AllBefore(q, batches[x])) <=> Precedes(ToSet(q), InNet(batches))
  BY <1>1 DEF Precedes, InNet
<1>3. (\A x \in DOMAIN batches : AllBefore(batches[x], b)) <=> Precedes(InNet(batches), ToSet(b))
  BY <1>1 DEF Precedes, InNet
<1>. QED BY <1>1, <1>2, <1>3 DEF Lined

LEMMA InNetFacts ==
  ASSUME NEW s \in Seq(MessageQueue)
  PROVE  /\ InNet(s) \subseteq Message
         /\ \A x \in 1..Len(s) : ToSet(s[x]) \subseteq InNet(s)
         /\ \A m \in InNet(s) : \E x \in 1..Len(s) : m \in ToSet(s[x])
<1>1. DOMAIN s = 1..Len(s) /\ \A x \in 1..Len(s) : s[x] \in Seq(Message)
  BY SeqFacts DEF MessageQueue
<1>2. \A x \in 1..Len(s) : ToSet(s[x]) \subseteq Message
  BY <1>1, SeqFacts
<1>. QED BY <1>1, <1>2 DEF InNet

LEMMA InNetConcat ==
  ASSUME NEW s \in Seq(MessageQueue), NEW t \in Seq(MessageQueue)
  PROVE  InNet(s \o t) = InNet(s) \cup InNet(t)
<1>1. s \o t \in Seq(MessageQueue) /\ Len(s \o t) = Len(s) + Len(t) /\ Len(s) \in Nat /\ Len(t) \in Nat
  BY ConcatFacts, SeqFacts
<1>2. ASSUME NEW m \in InNet(s \o t) PROVE m \in InNet(s) \cup InNet(t)
  <2>1. PICK x \in 1..Len(s \o t) : m \in ToSet((s \o t)[x])
    BY <1>1, InNetFacts
  <2>2. CASE x \in 1..Len(s)
    BY <2>1, <2>2, ConcatFacts, InNetFacts
  <2>3. CASE \E l \in 1..Len(t) : x = Len(s) + l
    BY <2>1, <2>3, ConcatFacts, InNetFacts
  <2>. QED BY <2>2, <2>3, ConcatFacts
<1>3. ASSUME NEW m \in InNet(s) PROVE m \in InNet(s \o t)
  <2>1. PICK x \in 1..Len(s) : m \in ToSet(s[x])
    BY InNetFacts
  <2>2. x \in 1..Len(s \o t) /\ (s \o t)[x] = s[x]
    BY <1>1, ConcatFacts
  <2>. QED BY <1>1, <2>1, <2>2, InNetFacts
<1>4. ASSUME NEW m \in InNet(t) PROVE m \in InNet(s \o t)
  <2>1. PICK x \in 1..Len(t) : m \in ToSet(t[x])
    BY InNetFacts
  <2>2. Len(s) + x \in 1..Len(s \o t) /\ (s \o t)[Len(s) + x] = t[x]
    BY <1>1, ConcatFacts
  <2>. QED BY <1>1, <2>1, <2>2, InNetFacts
<1>. QED BY <1>2, <1>3, <1>4

LEMMA InNetTail ==
  ASSUME NEW s \in Seq(MessageQueue), s # <<>>
  PROVE  InNet(s) = ToSet(Head(s)) \cup InNet(Tail(s))
<1>1. /\ Len(s) \in Nat /\ Len(s) > 0 /\ Head(s) = s[1]
      /\ Tail(s) \in Seq(MessageQueue) /\ Len(Tail(s)) = Len(s) - 1
      /\ \A k \in 1..(Len(s) - 1) : Tail(s)[k] = s[k + 1]
  BY TailFacts, SeqFacts
<1>2. ASSUME NEW m \in InNet(s) PROVE m \in ToSet(Head(s)) \cup InNet(Tail(s))
  <2>1. PICK x \in 1..Len(s) : m \in ToSet(s[x])
    BY InNetFacts
  <2>2. CASE x # 1
    <3>1. x - 1 \in 1..Len(Tail(s)) /\ (x - 1) + 1 = x
      BY <1>1, <2>2
    <3>2. Tail(s)[x - 1] = s[x]
      BY <1>1, <3>1
    <3>. QED BY <1>1, <2>1, <3>1, <3>2, InNetFacts
  <2>. QED BY <1>1, <2>1, <2>2
<1>3. ToSet(Head(s)) \subseteq InNet(s)
  <2>1. 1 \in 1..Len(s)
    BY <1>1
  <2>. QED BY <1>1, <2>1, InNetFacts
<1>4. ASSUME NEW m \in InNet(Tail(s)) PROVE m \in InNet(s)
  <2>1. PICK x \in 1..Len(Tail(s)) : m \in ToSet(Tail(s)[x])
    BY <1>1, InNetFacts
  <2>2. x + 1 \in 1..Len(s) /\ Tail(s)[x] = s[x + 1]
    BY <1>1
  <2>. QED BY <2>1, <2>2, InNetFacts
<1>. QED BY <1>2, <1>3, <1>4

LEMMA InNetBatches ==
  ASSUME NEW b \in MessageQueue, b # <<>>
  PROVE  InNet(Batches(b)) = ToSet(b)
<1>1. Batches(b) \in Seq(MessageQueue) /\ Len(b) \in Nat
  BY BatchesFacts, SeqFacts DEF MessageQueue
<1>2. CASE Len(Batches(b)) = 1 /\ Batches(b)[1] = b
  <2>1. 1..1 = {1}
    OBVIOUS
  <2>2. InNet(Batches(b)) \subseteq ToSet(b)
    BY <1>1, <1>2, <2>1, InNetFacts
  <2>3. ToSet(b) \subseteq InNet(Batches(b))
    BY <1>1, <1>2, <2>1, InNetFacts
  <2>. QED BY <2>2, <2>3
<1>3. CASE Len(Batches(b)) = Len(b) /\ \A k \in 1..Len(b) : Batches(b)[k] = <<b[k]>>
  <2>1. \A k \in 1..Len(b) : ToSet(Batches(b)[k]) = {b[k]}
    BY <1>3 DEF ToSet
  <2>2. \A m : m \in InNet(Batches(b)) <=> \E k \in 1..Len(b) : m = b[k]
    <3>1. \A m \in InNet(Batches(b)) : \E k \in 1..Len(b) : m = b[k]
      BY <1>1, <1>3, <2>1, InNetFacts
    <3>2. \A k \in 1..Len(b) : b[k] \in InNet(Batches(b))
      BY <1>1, <1>3, <2>1, InNetFacts
    <3>. QED BY <3>1, <3>2
  <2>3. \A m : m \in ToSet(b) <=> \E k \in 1..Len(b) : m = b[k]
    BY SeqFacts DEF MessageQueue
  <2>. QED BY <2>2, <2>3
<1>. QED BY <1>2, <1>3, BatchesFacts

LEMMA InOrderAppend ==
  ASSUME NEW s \in MessageQueue, NEW m \in Message, InOrder(s), Precedes(ToSet(s), {m})
  PROVE  InOrder(Append(s, m))
<1>. DEFINE a == Append(s, m)
<1>1. /\ a \in Seq(Message) /\ Len(a) = Len(s) + 1 /\ Len(s) \in Nat /\ DOMAIN a = 1..Len(a)
      /\ DOMAIN s = 1..Len(s)
      /\ \A k \in 1..Len(s) : a[k] = s[k] /\ s[k] \in ToSet(s)
      /\ a[Len(s) + 1] = m
  <2>1. s \in Seq(Message)
    BY DEF MessageQueue
  <2>2. DOMAIN s = 1..Len(s) /\ Len(s) \in Nat /\ \A k \in 1..Len(s) : s[k] \in ToSet(s)
    BY <2>1, SeqFacts
  <2>3. /\ a \in Seq(Message) /\ Len(a) = Len(s) + 1 /\ a[Len(s) + 1] = m
        /\ \A k \in 1..Len(s) : a[k] = s[k]
    BY <2>1, AppendFacts
  <2>. HIDE DEF a
  <2>4. DOMAIN a = 1..Len(a)
    BY <2>3, SeqFacts
  <2>. QED BY <2>2, <2>3, <2>4
<1>. HIDE DEF a
<1>2. SUFFICES ASSUME NEW k \in 1..Len(a), NEW l \in 1..Len(a), k < l PROVE Ordered(a[k], a[l])
  BY <1>1 DEF InOrder, a
<1>3. k \in 1..Len(s)
  BY <1>1, <1>2
<1>4. CASE l \in 1..Len(s)
  BY <1>1, <1>2, <1>3, <1>4 DEF InOrder
<1>5. CASE l = Len(s) + 1
  BY <1>1, <1>3, <1>5 DEF Precedes
<1>. QED BY <1>1, <1>4, <1>5

LEMMA InOrderTail ==
  ASSUME NEW s \in MessageQueue, s # <<>>, InOrder(s)
  PROVE  InOrder(Tail(s)) /\ Precedes({Head(s)}, ToSet(Tail(s)))
<1>1. /\ Len(s) \in Nat /\ Len(s) > 0 /\ Head(s) = s[1] /\ DOMAIN s = 1..Len(s)
      /\ Tail(s) \in Seq(Message) /\ Len(Tail(s)) = Len(s) - 1 /\ DOMAIN Tail(s) = 1..(Len(s) - 1)
      /\ \A k \in 1..(Len(s) - 1) : Tail(s)[k] = s[k + 1]
      /\ \A m \in ToSet(Tail(s)) : \E k \in 1..Len(Tail(s)) : m = Tail(s)[k]
  <2>1. s \in Seq(Message)
    BY DEF MessageQueue
  <2>2. /\ Len(s) > 0 /\ Head(s) = s[1]
        /\ Tail(s) \in Seq(Message) /\ Len(Tail(s)) = Len(s) - 1
        /\ \A k \in 1..(Len(s) - 1) : Tail(s)[k] = s[k + 1]
    BY <2>1, TailFacts
  <2>. QED BY <2>1, <2>2, SeqFacts
<1>2. \A k, l \in 1..Len(s) : k < l => Ordered(s[k], s[l])
  BY <1>1 DEF InOrder
<1>3. \A k \in 1..(Len(s) - 1) : k + 1 \in 1..Len(s) /\ 1 \in 1..Len(s) /\ 1 < k + 1
  BY <1>1
<1>4. InOrder(Tail(s))
  <2>. SUFFICES ASSUME NEW k \in 1..(Len(s) - 1), NEW l \in 1..(Len(s) - 1), k < l
                PROVE  Ordered(s[k + 1], s[l + 1])
    BY <1>1 DEF InOrder
  <2>1. k + 1 < l + 1
    OBVIOUS
  <2>. QED BY <1>2, <1>3, <2>1
<1>5. Precedes({Head(s)}, ToSet(Tail(s)))
  <2>. SUFFICES ASSUME NEW k \in 1..(Len(s) - 1) PROVE Ordered(s[1], s[k + 1])
    BY <1>1 DEF Precedes
  <2>. QED BY <1>2, <1>3
<1>. QED BY <1>4, <1>5

LEMMA InLineSets ==
  ASSUME NEW s \in Seq(MessageQueue)
  PROVE  InLine(s) <=>
           /\ \A x \in 1..Len(s) : InOrder(s[x])
           /\ \A x, y \in 1..Len(s) : x < y => Precedes(ToSet(s[x]), ToSet(s[y]))
<1>1. DOMAIN s = 1..Len(s)
  BY SeqFacts
<1>2. \A t, u : AllBefore(t, u) <=> Precedes(ToSet(t), ToSet(u))
  BY LinedSets
<1>. QED BY <1>1, <1>2 DEF InLine

LEMMA InLineConcat ==
  ASSUME NEW s \in Seq(MessageQueue), NEW t \in Seq(MessageQueue),
         InLine(s), InLine(t), Precedes(InNet(s), InNet(t))
  PROVE  InLine(s \o t)
<1>. DEFINE a == s \o t
<1>1. /\ a \in Seq(MessageQueue) /\ Len(s) \in Nat /\ Len(t) \in Nat /\ Len(a) = Len(s) + Len(t)
      /\ \A x \in 1..Len(s) : a[x] = s[x]
      /\ \A x \in 1..Len(t) : a[Len(s) + x] = t[x]
      /\ \A x \in 1..Len(a) : x \in 1..Len(s) \/ \E l \in 1..Len(t) : x = Len(s) + l
  BY ConcatFacts, SeqFacts
<1>2. /\ \A x \in 1..Len(s) : InOrder(s[x]) /\ ToSet(s[x]) \subseteq InNet(s)
      /\ \A x, y \in 1..Len(s) : x < y => Precedes(ToSet(s[x]), ToSet(s[y]))
      /\ \A x \in 1..Len(t) : InOrder(t[x]) /\ ToSet(t[x]) \subseteq InNet(t)
      /\ \A x, y \in 1..Len(t) : x < y => Precedes(ToSet(t[x]), ToSet(t[y]))
  BY InLineSets, InNetFacts
<1>. HIDE DEF a
<1>3. ASSUME NEW x \in 1..Len(a) PROVE InOrder(a[x])
  BY <1>1, <1>2
<1>4. ASSUME NEW x \in 1..Len(a), NEW y \in 1..Len(a), x < y PROVE Precedes(ToSet(a[x]), ToSet(a[y]))
  <2>1. CASE y \in 1..Len(s)
    <3>1. x \in 1..Len(s)
      BY <1>1, <1>4, <2>1
    <3>. QED BY <1>1, <1>2, <1>4, <2>1, <3>1
  <2>2. CASE x \in 1..Len(s) /\ \E l \in 1..Len(t) : y = Len(s) + l
    BY <1>1, <1>2, <2>2 DEF Precedes
  <2>3. ASSUME NEW k \in 1..Len(t), NEW l \in 1..Len(t), x = Len(s) + k, y = Len(s) + l
        PROVE  Precedes(ToSet(a[x]), ToSet(a[y]))
    <3>1. k < l /\ a[x] = t[k] /\ a[y] = t[l]
      BY <1>1, <1>4, <2>3
    <3>. QED BY <1>2, <3>1
  <2>. QED BY <1>1, <2>1, <2>2, <2>3
<1>. QED BY <1>1, <1>3, <1>4, InLineSets DEF a

LEMMA InLineTail ==
  ASSUME NEW s \in Seq(MessageQueue), s # <<>>, InLine(s)
  PROVE  InLine(Tail(s)) /\ InOrder(Head(s)) /\ Precedes(ToSet(Head(s)), InNet(Tail(s)))
<1>1. /\ Len(s) \in Nat /\ Len(s) > 0 /\ Head(s) = s[1]
      /\ Tail(s) \in Seq(MessageQueue) /\ Len(Tail(s)) = Len(s) - 1
      /\ \A k \in 1..(Len(s) - 1) : Tail(s)[k] = s[k + 1]
  BY TailFacts, SeqFacts
<1>2. /\ \A x \in 1..Len(s) : InOrder(s[x])
      /\ \A x, y \in 1..Len(s) : x < y => Precedes(ToSet(s[x]), ToSet(s[y]))
  BY InLineSets
<1>3. 1 \in 1..Len(s) /\ \A k \in 1..(Len(s) - 1) : k + 1 \in 1..Len(s) /\ 1 < k + 1
  BY <1>1
<1>4. InLine(Tail(s))
  <2>1. \A x \in 1..(Len(s) - 1) : InOrder(Tail(s)[x])
    BY <1>1, <1>2, <1>3
  <2>2. ASSUME NEW x \in 1..(Len(s) - 1), NEW y \in 1..(Len(s) - 1), x < y
        PROVE  Precedes(ToSet(Tail(s)[x]), ToSet(Tail(s)[y]))
    <3>1. x + 1 < y + 1
      BY <2>2
    <3>. QED BY <1>1, <1>2, <1>3, <3>1
  <2>. QED BY <1>1, <2>1, <2>2, InLineSets
<1>5. Precedes(ToSet(Head(s)), InNet(Tail(s)))
  <2>. SUFFICES ASSUME NEW l \in InNet(Tail(s)) PROVE Precedes(ToSet(Head(s)), {l})
    BY DEF Precedes
  <2>1. PICK x \in 1..(Len(s) - 1) : l \in ToSet(Tail(s)[x])
    BY <1>1, InNetFacts
  <2>2. Precedes(ToSet(s[1]), ToSet(s[x + 1])) /\ Tail(s)[x] = s[x + 1]
    BY <1>1, <1>2, <1>3
  <2>. QED BY <1>1, <2>1, <2>2 DEF Precedes
<1>. QED BY <1>1, <1>2, <1>3, <1>4, <1>5

LEMMA InLineBatches ==
  ASSUME NEW b \in MessageQueue, b # <<>>, InOrder(b)
  PROVE  InLine(Batches(b))
<1>1. Batches(b) \in Seq(MessageQueue) /\ Len(b) \in Nat /\ DOMAIN b = 1..Len(b)
  BY BatchesFacts, SeqFacts DEF MessageQueue
<1>2. CASE Len(Batches(b)) = 1 /\ Batches(b)[1] = b
  <2>1. \A x \in 1..1 : x = 1
    OBVIOUS
  <2>. QED BY <1>1, <1>2, <2>1, InLineSets
<1>3. CASE Len(Batches(b)) = Len(b) /\ \A k \in 1..Len(b) : Batches(b)[k] = <<b[k]>>
  <2>1. \A k \in 1..Len(b) : ToSet(<<b[k]>>) = {b[k]} /\ InOrder(<<b[k]>>)
    BY DEF ToSet, InOrder
  <2>2. \A k, l \in 1..Len(b) : k < l => Precedes({b[k]}, {b[l]})
    BY <1>1 DEF Precedes, InOrder
  <2>3. \A k \in 1..Len(b) : ToSet(Batches(b)[k]) = {b[k]} /\ InOrder(Batches(b)[k])
    BY <1>3, <2>1
  <2>4. \A k, l \in 1..Len(b) : k < l => Precedes(ToSet(Batches(b)[k]), ToSet(Batches(b)[l]))
    BY <2>2, <2>3
  <2>. QED BY <1>1, <1>3, <2>3, <2>4, InLineSets
<1>. QED BY <1>2, <1>3, BatchesFacts

-----------------------------------------------------------------------------
(* The logs and the send queues.                                           *)

\* What has been pushed is not changed, and the main loop takes nothing.
LogKept ==
  \A c \in Chan, n \in Node :
    /\ Len(log[c][n]) <= Len(log'[c][n])
    /\ \A p \in 1..Len(log[c][n]) : log'[c][n][p] = log[c][n][p]
PolledKept == \A c \in Chan, n \in Node : Polled(c, n)' = Polled(c, n)

\* Logged(m) in the next state.
LoggedNow(m) ==
  LET s == log'[m.chan][m.from] IN
  m.num \in 1..Len(s) /\ s[m.num].type = m.type /\ s[m.num].dest = m.dest

LEMMA LogTypes ==
  ASSUME TypeOK
  PROVE  /\ log \in [Chan -> [Node -> Seq(LogEntry)]] /\ sendq \in [Node -> [Chan -> Seq(Message)]]
  BY DEF TypeOK, MessageQueue

LEMMA LogTypesAfter ==
  ASSUME TypeOK'
  PROVE  /\ log' \in [Chan -> [Node -> Seq(LogEntry)]] /\ sendq' \in [Node -> [Chan -> Seq(Message)]]
  BY DEF TypeOK, MessageQueue

LEMMA LogFacts ==
  ASSUME TypeOK, NEW c \in Chan, NEW n \in Node
  PROVE  /\ sendq[n][c] \in Seq(Message) /\ log[c][n] \in Seq(LogEntry)
         /\ Len(log[c][n]) \in Nat /\ Len(sendq[n][c]) \in Nat /\ Polled(c, n) \in Int
         /\ DOMAIN sendq[n][c] = 1..Len(sendq[n][c])
<1>1. sendq[n][c] \in Seq(Message) /\ log[c][n] \in Seq(LogEntry)
  BY LogTypes
<1>2. /\ Len(log[c][n]) \in Nat /\ Len(sendq[n][c]) \in Nat
      /\ DOMAIN sendq[n][c] = 1..Len(sendq[n][c])
  BY <1>1, SeqFacts
<1>. QED BY <1>1, <1>2 DEF Polled

LEMMA AppendedFacts ==
  ASSUME NEW T, NEW s \in Seq(T), NEW m \in T, NEW a, a = Append(s, m)
  PROVE  /\ Len(s) \in Nat /\ Len(a) = Len(s) + 1 /\ DOMAIN a = 1..(Len(s) + 1)
         /\ \A k \in 1..Len(s) : a[k] = s[k]
         /\ a[Len(s) + 1] = m
  OBVIOUS

LEMMA LoggedKept ==
  ASSUME TypeOK, TypeOK', LogKept, NEW m \in Message, Logged(m)
  PROVE  LoggedNow(m)
<1>. DEFINE s == log[m.chan][m.from]  t == log'[m.chan][m.from]
<1>1. m.chan \in Chan /\ m.from \in Node
  BY MessageFields
<1>2. Len(s) \in Nat /\ Len(t) \in Nat
  BY <1>1, LogTypes, LogTypesAfter
<1>3. Len(s) <= Len(t) /\ \A p \in 1..Len(s) : t[p] = s[p]
  BY <1>1 DEF LogKept
<1>4. m.num \in 1..Len(s) /\ s[m.num].type = m.type /\ s[m.num].dest = m.dest
  BY DEF Logged
<1>. HIDE DEF s, t
<1>5. m.num \in 1..Len(t) /\ t[m.num] = s[m.num]
  BY <1>2, <1>3, <1>4
<1>. QED BY <1>4, <1>5 DEF LoggedNow, t

LEMMA InitSend == Init => SendInv
<1>. SUFFICES ASSUME Init PROVE SendInv
  OBVIOUS
<1>1. /\ \A n \in Node, c \in Chan : sendq[n][c] = <<>> /\ log[c][n] = <<>>
      /\ DOMAIN <<>> = {} /\ Len(<<>>) = 0
  BY DEF Init
<1>. QED BY <1>1 DEF SendInv

\* A cell of the invariant.
SendCell(n, c) ==
  /\ Len(sendq[n][c]) <= Len(log[c][n])
  /\ \A k \in 1..Len(sendq[n][c]) :
       /\ sendq[n][c][k].chan = c /\ sendq[n][c][k].from = n
       /\ sendq[n][c][k].num = Polled(c, n) + k /\ Logged(sendq[n][c][k])

LEMMA SendCells == ASSUME TypeOK PROVE SendInv <=> \A n \in Node, c \in Chan : SendCell(n, c)
<1>1. \A n \in Node, c \in Chan : DOMAIN sendq[n][c] = 1..Len(sendq[n][c])
  BY LogFacts
<1>. QED BY <1>1 DEF SendInv, SendCell

LEMMA SendCellsAfter ==
  ASSUME TypeOK',
         \A n \in Node, c \in Chan :
           /\ Len(sendq'[n][c]) <= Len(log'[c][n])
           /\ \A k \in 1..Len(sendq'[n][c]) :
                /\ sendq'[n][c][k].chan = c /\ sendq'[n][c][k].from = n
                /\ sendq'[n][c][k].num = Polled(c, n)' + k /\ LoggedNow(sendq'[n][c][k])
  PROVE  SendInv'
<1>1. \A n \in Node, c \in Chan : DOMAIN sendq'[n][c] = 1..Len(sendq'[n][c])
  BY LogTypesAfter, SeqFacts
<1>. SUFFICES ASSUME NEW n \in Node, NEW c \in Chan
              PROVE  (/\ Len(sendq[n][c]) <= Len(log[c][n])
                      /\ \A k \in DOMAIN sendq[n][c] :
                           /\ sendq[n][c][k].chan = c /\ sendq[n][c][k].from = n
                           /\ sendq[n][c][k].num = Polled(c, n) + k /\ Logged(sendq[n][c][k]))'
  BY DEF SendInv
<1>2. ASSUME NEW k \in 1..Len(sendq'[n][c]) PROVE Logged(sendq[n][c][k])'
  <2>1. LoggedNow(sendq'[n][c][k])
    OBVIOUS
  <2>. QED BY ONLY <2>1 DEF Logged, LoggedNow
<1>. QED BY <1>1, <1>2

\* The queue and the log grow together.
LEMMA PushSend ==
  ASSUME TypeOK, TypeOK', SendInv, NEW n \in Node, NEW c \in Chan, NEW t \in MsgType, NEW d \in Node,
         Push(n, c, t, d)
  PROVE  SendInv' /\ LogKept /\ PolledKept
<1>1. PICK m \in Message, e \in LogEntry :
           /\ m.chan = c /\ m.from = n /\ m.type = t /\ m.dest = d /\ m.num = Len(log[c][n]) + 1
           /\ e.type = t /\ e.dest = d
           /\ sendq' = [sendq EXCEPT ![n][c] = Append(sendq[n][c], m)]
           /\ log' = [log EXCEPT ![c][n] = Append(log[c][n], e)]
  BY PushEffect
<1>. DEFINE q == sendq[n][c]  q1 == sendq'[n][c]  s == log[c][n]  s1 == log'[c][n]
<1>2. /\ q1 = Append(q, m) /\ s1 = Append(s, e)
      /\ \A i \in Node, x \in Chan :
           ~(i = n /\ x = c) => sendq'[i][x] = sendq[i][x] /\ log'[x][i] = log[x][i]
  BY <1>1, LogTypes
<1>3. q \in Seq(Message) /\ s \in Seq(LogEntry) /\ \A k \in 1..Len(q) : q[k] \in Message
  BY LogTypes, SeqFacts
<1>. HIDE DEF q, q1, s, s1
<1>4. Len(q) \in Nat /\ Len(q1) = Len(q) + 1 /\ q1[Len(q) + 1] = m /\ \A k \in 1..Len(q) : q1[k] = q[k]
  BY <1>2, <1>3, AppendedFacts
<1>5. Len(s) \in Nat /\ Len(s1) = Len(s) + 1 /\ s1[Len(s) + 1] = e /\ \A k \in 1..Len(s) : s1[k] = s[k]
  BY <1>2, <1>3, AppendedFacts
<1>6. LogKept
  <2>. SUFFICES ASSUME NEW x \in Chan, NEW i \in Node
                PROVE  /\ Len(log[x][i]) <= Len(log'[x][i])
                       /\ \A p \in 1..Len(log[x][i]) : log'[x][i][p] = log[x][i][p]
    BY DEF LogKept
  <2>1. CASE i = n /\ x = c
    <3>1. Len(s) <= Len(s1)
      BY <1>5
    <3>. QED BY <1>5, <2>1, <3>1 DEF s, s1
  <2>2. CASE ~(i = n /\ x = c)
    <3>1. log'[x][i] = log[x][i] /\ Len(log[x][i]) \in Nat
      BY <1>2, <2>2, LogFacts
    <3>. QED BY <3>1
  <2>. QED BY <2>1, <2>2
<1>7. PolledKept
  <2>. SUFFICES ASSUME NEW x \in Chan, NEW i \in Node PROVE Polled(x, i)' = Polled(x, i)
    BY DEF PolledKept
  <2>1. CASE i = n /\ x = c
    <3>1. Len(s1) - Len(q1) = Len(s) - Len(q)
      BY <1>4, <1>5
    <3>. QED BY <2>1, <3>1 DEF Polled, s, s1, q, q1
  <2>2. CASE ~(i = n /\ x = c)
    BY <1>2, <2>2 DEF Polled
  <2>. QED BY <2>1, <2>2
<1>8. ASSUME NEW i \in Node, NEW x \in Chan
      PROVE  /\ Len(sendq'[i][x]) <= Len(log'[x][i])
             /\ \A k \in 1..Len(sendq'[i][x]) :
                  /\ sendq'[i][x][k].chan = x /\ sendq'[i][x][k].from = i
                  /\ sendq'[i][x][k].num = Polled(x, i)' + k /\ LoggedNow(sendq'[i][x][k])
  <2>1. SendCell(i, x) /\ Polled(x, i)' = Polled(x, i) /\ \A k \in 1..Len(sendq[i][x]) : sendq[i][x][k] \in Message
    BY <1>7, SendCells, LogTypes, SeqFacts DEF PolledKept
  <2>2. \A k \in 1..Len(sendq[i][x]) : LoggedNow(sendq[i][x][k])
    BY <1>6, <2>1, LoggedKept DEF SendCell
  <2>3. CASE ~(i = n /\ x = c)
    BY <1>2, <2>1, <2>2, <2>3 DEF SendCell
  <2>4. CASE i = n /\ x = c
    <3>1. LoggedNow(m)
      <4>1. m.num \in 1..Len(s1) /\ s1[m.num] = e
        BY <1>1, <1>5 DEF s
      <4>. QED BY <1>1, <4>1 DEF LoggedNow, s1
    <3>2. Len(q) <= Len(s) /\ Polled(c, n) = Len(s) - Len(q)
      BY <2>1, <2>4 DEF SendCell, Polled, q, s
    <3>3. m.num = Polled(c, n) + (Len(q) + 1) /\ Len(q1) <= Len(s1)
      <4>1. m.num = Len(s) + 1
        BY <1>1 DEF s
      <4>. QED BY <1>4, <1>5, <3>2, <4>1
    <3>4. ASSUME NEW k \in 1..Len(q1)
          PROVE  q1[k].chan = c /\ q1[k].from = n /\ q1[k].num = Polled(c, n) + k /\ LoggedNow(q1[k])
      <4>1. CASE k = Len(q) + 1
        BY <1>1, <1>4, <3>1, <3>3, <4>1
      <4>2. CASE k # Len(q) + 1
        <5>1. k \in 1..Len(q) /\ q1[k] = q[k]
          BY <1>4, <4>2
        <5>. QED BY <2>1, <2>2, <2>4, <5>1 DEF SendCell, q
      <4>. QED BY <4>1, <4>2
    <3>. QED BY <2>1, <2>4, <3>3, <3>4 DEF q1, s1
  <2>. QED BY <2>3, <2>4
<1>. QED BY <1>6, <1>7, <1>8, SendCellsAfter

LEMMA StaySend ==
  ASSUME TypeOK, TypeOK', SendInv, sendq' = sendq, log' = log
  PROVE  SendInv' /\ LogKept /\ PolledKept
<1>1. LogKept
  <2>1. \A c \in Chan, n \in Node : Len(log[c][n]) \in Nat
    BY LogFacts
  <2>. QED BY <2>1 DEF LogKept
<1>2. PolledKept
  BY DEF PolledKept, Polled
<1>3. \A m : Logged(m) => LoggedNow(m)
  BY DEF Logged, LoggedNow
<1>4. SendInv'
  BY <1>2, <1>3, SendCells, SendCellsAfter DEF SendCell, PolledKept
<1>. QED BY <1>1, <1>2, <1>4

LEMMA OthersSend ==
  ASSUME TypeOK, TypeOK', SendInv, NEW n \in Node,
         WorkerStep(n) \/ \E c \in Chan : PopReceived(n, c) \/ Handle(n, c)
  PROVE  SendInv' /\ LogKept /\ PolledKept
<1>1. \/ sendq' = sendq /\ log' = log
      \/ \E c \in Chan, t \in MsgType, d \in Node : Push(n, c, t, d)
  <2>1. CASE WorkerStep(n)
    BY <2>1 DEF WorkerStep, Send, Synchronize, PushEof, SynchronizeReturns, MarkEof, MsgType, queues
  <2>2. ASSUME NEW c \in Chan, PopReceived(n, c) \/ Handle(n, c)
        PROVE  (sendq' = sendq /\ log' = log) \/ Push(n, c, "ack", n)
    BY <2>2 DEF PopReceived, Handle, HandleData, HandleSync, SendAck, HandleAck, queues
  <2>. QED BY <2>1, <2>2 DEF MsgType
<1>. QED BY <1>1, PushSend, StaySend

\* The main loop takes the first message of a queue, and the next in the log.
LEMMA PollSend ==
  ASSUME TypeOK, TypeOK', SendInv, NEW n \in Node, Poll(n)
  PROVE  \E c \in Chan, m \in Message :
           /\ BackendSend(n, m) /\ m.chan = c /\ m.from = n /\ Logged(m)
           /\ m.num = Polled(c, n) + 1 /\ Polled(c, n) \in Nat
           /\ log' = log /\ SendInv'
           /\ \A x \in Chan, i \in Node :
                Polled(x, i)' = IF x = c /\ i = n THEN Polled(c, n) + 1 ELSE Polled(x, i)
<1>. DEFINE c == chan[n]  q == sendq[n][c]  m == Head(q)  s == log[c][n]  q1 == sendq'[n][c]
<1>1. /\ c \in Chan /\ q # <<>> /\ BackendSend(n, m) /\ log' = log
      /\ sendq' = [sendq EXCEPT ![n][c] = Tail(q)]
  BY DEF Poll, TypeOK
<1>. HIDE DEF c
<1>2. /\ q1 = Tail(q)
      /\ \A x \in Chan, i \in Node : ~(i = n /\ x = c) => sendq'[i][x] = sendq[i][x]
  BY <1>1, LogTypes
<1>3. /\ q \in Seq(Message) /\ Len(q) \in Nat /\ Len(s) \in Nat /\ SendCell(n, c)
      /\ Polled(c, n) = Len(s) - Len(q)
  BY <1>1, LogFacts, SendCells DEF Polled
<1>. HIDE DEF q, m, s, q1
<1>4. /\ Len(q) > 0 /\ m = q[1] /\ m \in Message /\ Len(q1) = Len(q) - 1
      /\ \A k \in 1..(Len(q) - 1) : q1[k] = q[k + 1]
  BY <1>1, <1>2, <1>3, TailFacts DEF m
<1>5. /\ Len(q) <= Len(s)
      /\ \A k \in 1..Len(q) : q[k].chan = c /\ q[k].from = n /\ q[k].num = Polled(c, n) + k /\ Logged(q[k])
  BY <1>3 DEF SendCell, q, s
<1>6. m.chan = c /\ m.from = n /\ m.num = Polled(c, n) + 1 /\ Logged(m)
  <2>1. 1 \in 1..Len(q)
    BY <1>3, <1>4
  <2>. QED BY <1>4, <1>5, <2>1
<1>7. Polled(c, n) \in Nat
  BY <1>3, <1>5
<1>8. ASSUME NEW x \in Chan, NEW i \in Node
      PROVE  Polled(x, i)' = IF x = c /\ i = n THEN Polled(c, n) + 1 ELSE Polled(x, i)
  <2>1. CASE x = c /\ i = n
    <3>1. Polled(x, i)' = Len(s) - Len(q1)
      BY <1>1, <2>1 DEF Polled, s, q1
    <3>2. Len(s) - Len(q1) = Polled(c, n) + 1
      BY <1>3, <1>4
    <3>. QED BY <2>1, <3>1, <3>2
  <2>2. CASE ~(x = c /\ i = n)
    <3>1. sendq'[i][x] = sendq[i][x]
      BY <1>2, <2>2
    <3>2. Polled(x, i)' = Polled(x, i)
      BY <1>1, <3>1 DEF Polled
    <3>. QED BY <2>2, <3>2
  <2>. QED BY <2>1, <2>2
<1>9. ASSUME NEW i \in Node, NEW x \in Chan
      PROVE  /\ Len(sendq'[i][x]) <= Len(log'[x][i])
             /\ \A k \in 1..Len(sendq'[i][x]) :
                  /\ sendq'[i][x][k].chan = x /\ sendq'[i][x][k].from = i
                  /\ sendq'[i][x][k].num = Polled(x, i)' + k /\ LoggedNow(sendq'[i][x][k])
  <2>1. \A l : Logged(l) => LoggedNow(l)
    BY <1>1 DEF Logged, LoggedNow
  <2>2. CASE i = n /\ x = c
    <3>1. Len(q1) <= Len(s)
      BY <1>3, <1>4, <1>5
    <3>2. Polled(x, i)' = Polled(c, n) + 1
      BY <1>8, <2>2
    <3>3. ASSUME NEW k \in 1..Len(q1)
          PROVE  q1[k].chan = c /\ q1[k].from = n /\ q1[k].num = (Polled(c, n) + 1) + k /\ LoggedNow(q1[k])
      <4>1. k + 1 \in 1..Len(q) /\ q1[k] = q[k + 1] /\ Polled(c, n) + (k + 1) = (Polled(c, n) + 1) + k
        BY <1>3, <1>4, <1>7
      <4>. QED BY <1>5, <2>1, <4>1
    <3>. QED BY <1>1, <2>2, <3>1, <3>2, <3>3 DEF q1, s
  <2>3. CASE ~(i = n /\ x = c)
    <3>1. sendq'[i][x] = sendq[i][x] /\ Polled(x, i)' = Polled(x, i) /\ SendCell(i, x)
      BY <1>2, <1>8, <2>3, SendCells
    <3>. QED BY <1>1, <2>1, <3>1 DEF SendCell
  <2>. QED BY <2>2, <2>3
<1>. QED BY <1>1, <1>4, <1>6, <1>7, <1>8, <1>9, SendCellsAfter

-----------------------------------------------------------------------------
(* The backends and the network.                                           *)

LEMMA TransitTypes ==
  ASSUME TypeOK, NEW i \in Node, NEW j \in Node
  PROVE  /\ inbox[j] \in MessageQueue /\ buf[i][j] \in MessageQueue /\ net[i][j] \in Seq(MessageQueue)
         /\ ToSet(inbox[j]) \subseteq Message /\ ToSet(buf[i][j]) \subseteq Message
         /\ InNet(net[i][j]) \subseteq Message
<1>1. inbox[j] \in MessageQueue /\ buf[i][j] \in MessageQueue /\ net[i][j] \in Seq(MessageQueue)
  BY DEF TypeOK
<1>2. \A s \in MessageQueue : ToSet(s) \subseteq Message
  BY SeqFacts DEF MessageQueue
<1>. QED BY <1>1, <1>2, InNetFacts

LEMMA TransitSets ==
  ASSUME TypeOK, NEW i \in Node, NEW j \in Node
  PROVE  /\ InTransit(i, j) = {m \in ToSet(inbox[j]) : m.from = i} \cup InNet(net[i][j]) \cup ToSet(buf[i][j])
         /\ InTransit(i, j) \subseteq Message
<1>1. InTransit(i, j) = {m \in ToSet(inbox[j]) : m.from = i} \cup InNet(net[i][j]) \cup ToSet(buf[i][j])
  BY DEF InTransit, InNet
<1>. QED BY <1>1, TransitTypes

\* Flushing moves the messages; it neither adds nor loses any ...
LEMMA FlushTransit ==
  ASSUME TypeOK, NEW n \in Node, NEW D \in SUBSET Node, NEW b \in [Node -> MessageQueue], Flush(n, D, b),
         NEW i \in Node, NEW j \in Node
  PROVE  InNet(net'[i][j]) \cup ToSet(buf'[i][j])
           = IF i = n THEN InNet(net[i][j]) \cup ToSet(b[j]) ELSE InNet(net[i][j]) \cup ToSet(buf[i][j])
<1>1. CASE i # n
  <2>1. buf'[i][j] = buf[i][j] /\ net'[i][j] = net[i][j]
    BY <1>1, FlushEffect
  <2>. QED BY <1>1, <2>1
<1>2. CASE i = n /\ buf'[n][j] = b[j] /\ net'[n][j] = net[n][j]
  BY <1>2
<1>3. CASE i = n /\ b[j] # <<>> /\ buf'[n][j] = <<>> /\ net'[n][j] = net[n][j] \o Batches(b[j])
  <2>1. net[n][j] \in Seq(MessageQueue) /\ Batches(b[j]) \in Seq(MessageQueue) /\ b[j] \in MessageQueue
    BY <1>3, BatchesFacts, TransitTypes
  <2>2. InNet(net'[n][j]) = InNet(net[n][j]) \cup ToSet(b[j])
    BY <1>3, <2>1, InNetConcat, InNetBatches
  <2>3. ToSet(buf'[n][j]) = {}
    BY <1>3 DEF ToSet
  <2>. QED BY <1>3, <2>2, <2>3
<1>4. i = n => \/ b[j] # <<>> /\ buf'[n][j] = <<>> /\ net'[n][j] = net[n][j] \o Batches(b[j])
               \/ buf'[n][j] = b[j] /\ net'[n][j] = net[n][j]
  BY FlushEffect
<1>. QED BY <1>1, <1>2, <1>3, <1>4

\* ... and keeps their order.
LEMMA FlushOrder ==
  ASSUME TypeOK, NEW n \in Node, NEW D \in SUBSET Node, NEW b \in [Node -> MessageQueue], Flush(n, D, b),
         NEW j \in Node, NEW q, Lined(q, net[n][j], b[j])
  PROVE  Lined(q, net'[n][j], buf'[n][j])
<1>1. CASE buf'[n][j] = b[j] /\ net'[n][j] = net[n][j]
  BY <1>1
<1>2. CASE b[j] # <<>> /\ buf'[n][j] = <<>> /\ net'[n][j] = net[n][j] \o Batches(b[j])
  <2>1. net[n][j] \in Seq(MessageQueue) /\ Batches(b[j]) \in Seq(MessageQueue) /\ b[j] \in MessageQueue
    BY <1>2, BatchesFacts, TransitTypes
  <2>2. /\ InOrder(q) /\ InLine(net[n][j]) /\ InOrder(b[j])
        /\ Precedes(ToSet(q), ToSet(b[j])) /\ Precedes(ToSet(q), InNet(net[n][j]))
        /\ Precedes(InNet(net[n][j]), ToSet(b[j]))
    BY LinedSets
  <2>3. InNet(Batches(b[j])) = ToSet(b[j]) /\ InLine(Batches(b[j]))
    BY <1>2, <2>1, <2>2, InNetBatches, InLineBatches
  <2>4. InLine(net'[n][j]) /\ InNet(net'[n][j]) = InNet(net[n][j]) \cup ToSet(b[j])
    BY <1>2, <2>1, <2>2, <2>3, InLineConcat, InNetConcat
  <2>5. ToSet(buf'[n][j]) = {} /\ InOrder(buf'[n][j])
    BY <1>2 DEF ToSet, InOrder
  <2>6. Precedes(ToSet(q), InNet(net'[n][j]))
    BY <2>2, <2>4 DEF Precedes
  <2>7. Precedes(ToSet(q), {}) /\ Precedes(InNet(net'[n][j]), {})
    BY DEF Precedes
  <2>. QED BY <2>2, <2>4, <2>5, <2>6, <2>7, LinedSets
<1>. QED BY <1>1, <1>2, FlushEffect

LEMMA MaybeFlushSets ==
  ASSUME TypeOK, NEW n \in Node, MaybeFlush(n)
  PROVE  \A i, j \in Node :
           /\ InNet(net'[i][j]) \cup ToSet(buf'[i][j]) = InNet(net[i][j]) \cup ToSet(buf[i][j])
           /\ \A q : Lined(q, net[i][j], buf[i][j]) => Lined(q, net'[i][j], buf'[i][j])
<1>1. CASE Flush(n, Node, buf[n]) /\ buf[n] \in [Node -> MessageQueue]
  <2>. TAKE i \in Node, j \in Node
  <2>1. InNet(net'[i][j]) \cup ToSet(buf'[i][j]) = InNet(net[i][j]) \cup ToSet(buf[i][j])
    BY <1>1, FlushTransit
  <2>2. \A q : Lined(q, net[i][j], buf[i][j]) => Lined(q, net'[i][j], buf'[i][j])
    <3>1. CASE i = n
      BY <1>1, <3>1, FlushOrder
    <3>2. CASE i # n
      BY <1>1, <3>2, FlushEffect
    <3>. QED BY <3>1, <3>2
  <2>. QED BY <2>1, <2>2
<1>2. CASE buf' = buf /\ net' = net
  BY <1>2
<1>. QED BY <1>1, <1>2, MaybeFlushEffect

\* The invariants, cell by cell and in the next state.
TransitCell(i, j) ==
  /\ \A m \in InTransit(i, j) :
       /\ m.from = i /\ Logged(m) /\ Reaches(m, j)
       /\ arrived[m.chan][j][i] < m.num /\ m.num <= Polled(m.chan, i)
  /\ \A c \in Chan : \A p \in (arrived[c][j][i] + 1)..Polled(c, i) :
       Reaches(log[c][i][p], j) => \E m \in InTransit(i, j) : m.chan = c /\ m.num = p

TransitCellNow(i, j, S) ==
  /\ \A m \in S :
       /\ m.from = i /\ LoggedNow(m) /\ Reaches(m, j)
       /\ arrived'[m.chan][j][i] < m.num /\ m.num <= Polled(m.chan, i)'
  /\ \A c \in Chan : \A p \in (arrived'[c][j][i] + 1)..Polled(c, i)' :
       Reaches(log'[c][i][p], j) => \E m \in S : m.chan = c /\ m.num = p

LEMMA TransitCells ==
  /\ TransitInv <=> \A i, j \in Node : TransitCell(i, j)
  /\ (\A i, j \in Node : \E S : InTransit(i, j)' = S /\ TransitCellNow(i, j, S)) => TransitInv'
<1>1. TransitInv <=> \A i, j \in Node : TransitCell(i, j)
  BY DEF TransitInv, TransitCell
<1>2. ASSUME \A i, j \in Node : \E S : InTransit(i, j)' = S /\ TransitCellNow(i, j, S)
      PROVE  TransitInv'
  <2>. SUFFICES ASSUME NEW i \in Node, NEW j \in Node PROVE TransitCell(i, j)'
    BY DEF TransitInv, TransitCell
  <2>1. PICK S : InTransit(i, j)' = S /\ TransitCellNow(i, j, S)
    BY <1>2
  <2>2. \A m : LoggedNow(m) => Logged(m)'
    BY ONLY DEF Logged, LoggedNow
  <2>. QED BY ONLY <2>1, <2>2 DEF TransitCell, TransitCellNow
<1>. QED BY <1>1, <1>2

LEMMA PolledBound ==
  ASSUME TypeOK, SendInv, NEW c \in Chan, NEW n \in Node
  PROVE  Polled(c, n) \in Nat /\ Polled(c, n) <= Len(log[c][n]) /\ Len(log[c][n]) \in Nat
<1>. DEFINE l == Len(log[c][n])  k == Len(sendq[n][c])
<1>1. k \in Nat /\ l \in Nat /\ k <= l
  BY LogFacts, SendCells DEF SendCell
<1>2. Polled(c, n) = l - k
  BY DEF Polled
<1>. HIDE DEF l, k
<1>3. Polled(c, n) \in Nat /\ Polled(c, n) <= l
  BY <1>1, <1>2
<1>. QED BY <1>1, <1>3 DEF l

\* How far the messages of a node have come.
LEMMA CursorFacts ==
  ASSUME TypeOK, SendInv, ReceivedInv, NEW c \in Chan, NEW i \in Node, NEW j \in Node
  PROVE  /\ handled[c][j][i] \in Nat /\ arrived[c][j][i] \in Nat /\ Polled(c, i) \in Nat
         /\ handled[c][j][i] <= arrived[c][j][i] /\ arrived[c][j][i] <= Polled(c, i)
         /\ Polled(c, i) <= Len(log[c][i]) /\ Len(log[c][i]) \in Nat
<1>1. handled[c][j][i] \in Nat /\ arrived[c][j][i] \in Nat
  BY DEF TypeOK
<1>2. handled[c][j][i] <= arrived[c][j][i] /\ arrived[c][j][i] <= Polled(c, i)
  BY DEF ReceivedInv
<1>. QED BY <1>1, <1>2, PolledBound

LEMMA InitTransit == Init => TransitInv /\ OrderInv
<1>. SUFFICES ASSUME Init PROVE TransitInv /\ OrderInv
  OBVIOUS
<1>1. /\ \A i, j \in Node : inbox[j] = <<>> /\ buf[i][j] = <<>> /\ net[i][j] = <<>>
      /\ \A c \in Chan, i, j \in Node : log[c][i] = <<>> /\ sendq[i][c] = <<>> /\ arrived[c][j][i] = 0
      /\ DOMAIN <<>> = {} /\ Len(<<>>) = 0
  BY DEF Init, BackendInit
<1>2. TypeOK
  BY InitType
<1>3. ToSet(<<>>) = {} /\ InNet(<<>>) = {}
  BY <1>1 DEF ToSet, InNet
<1>4. \A i, j \in Node : InTransit(i, j) = {}
  BY <1>1, <1>2, <1>3, TransitSets
<1>5. \A c \in Chan, i, j \in Node : (arrived[c][j][i] + 1)..Polled(c, i) = {}
  <2>1. \A c \in Chan, i \in Node : Polled(c, i) = 0
    BY <1>1 DEF Polled
  <2>2. (0 + 1)..0 = {}
    OBVIOUS
  <2>. QED BY <1>1, <2>1, <2>2
<1>6. TransitInv
  BY <1>4, <1>5 DEF TransitInv
<1>7. Lined(<<>>, <<>>, <<>>)
  BY <1>1 DEF Lined, InOrder, InLine, AllBefore
<1>8. OrderInv
  BY <1>1, <1>7 DEF OrderInv
<1>. QED BY <1>6, <1>8

LEMMA TransitKept ==
  ASSUME TypeOK, TypeOK', SendInv, TransitInv, LogKept, PolledKept, arrived' = arrived,
         \A i, j \in Node : InTransit(i, j)' = InTransit(i, j)
  PROVE  TransitInv'
<1>. SUFFICES ASSUME NEW i \in Node, NEW j \in Node PROVE TransitCellNow(i, j, InTransit(i, j))
  BY TransitCells
<1>. DEFINE S == InTransit(i, j)
<1>1. TransitCell(i, j) /\ S \subseteq Message
  BY TransitCells, TransitSets
<1>2. ASSUME NEW m \in S
      PROVE  /\ m.from = i /\ LoggedNow(m) /\ Reaches(m, j)
             /\ arrived'[m.chan][j][i] < m.num /\ m.num <= Polled(m.chan, i)'
  <2>1. m \in Message /\ m.chan \in Chan
    BY <1>1, MessageFields
  <2>2. Polled(m.chan, i)' = Polled(m.chan, i)
    BY <2>1 DEF PolledKept
  <2>. QED BY <1>1, <2>1, <2>2, LoggedKept DEF TransitCell
<1>3. ASSUME NEW c \in Chan, NEW p \in (arrived'[c][j][i] + 1)..Polled(c, i)', Reaches(log'[c][i][p], j)
      PROVE  \E m \in S : m.chan = c /\ m.num = p
  <2>1. p \in (arrived[c][j][i] + 1)..Polled(c, i)
    BY <1>3 DEF PolledKept
  <2>2. p \in 1..Len(log[c][i])
    <3>1. arrived[c][j][i] \in Nat
      BY DEF TypeOK
    <3>. QED BY <2>1, <3>1, PolledBound
  <2>3. log'[c][i][p] = log[c][i][p]
    BY <2>2 DEF LogKept
  <2>. QED BY <1>1, <1>3, <2>1, <2>3 DEF TransitCell
<1>. QED BY <1>2, <1>3 DEF TransitCellNow

\* The threads other than the main loop change neither.
LEMMA OthersTransit ==
  ASSUME TypeOK, TypeOK', SendInv, TransitInv, OrderInv, LogKept, PolledKept,
         UNCHANGED <<inbox, buf, net, arrived>>
  PROVE  TransitInv' /\ OrderInv'
<1>1. \A i, j \in Node : InTransit(i, j)' = InTransit(i, j)
  BY DEF InTransit
<1>2. OrderInv'
  BY DEF OrderInv
<1>. QED BY <1>1, <1>2, TransitKept

\* What is taken from a send queue comes behind all that is in transit.
LEMMA LinedAppend ==
  ASSUME NEW q \in MessageQueue, NEW batches \in Seq(MessageQueue), NEW b \in MessageQueue, NEW m \in Message,
         Lined(q, batches, b), Precedes(ToSet(q) \cup InNet(batches) \cup ToSet(b), {m})
  PROVE  Lined(q, batches, Append(b, m))
<1>1. /\ InOrder(q) /\ InLine(batches) /\ InOrder(b)
      /\ Precedes(ToSet(q), ToSet(b)) /\ Precedes(ToSet(q), InNet(batches))
      /\ Precedes(InNet(batches), ToSet(b))
  BY LinedSets
<1>2. ToSet(Append(b, m)) = ToSet(b) \cup {m}
  BY AppendFacts DEF MessageQueue
<1>3. InOrder(Append(b, m))
  BY <1>1, InOrderAppend DEF Precedes
<1>4. Precedes(ToSet(q), ToSet(Append(b, m))) /\ Precedes(InNet(batches), ToSet(Append(b, m)))
  BY <1>1, <1>2 DEF Precedes
<1>. QED BY <1>1, <1>3, <1>4, LinedSets

LEMMA PollTransit ==
  ASSUME TypeOK, TypeOK', SendInv, TransitInv, OrderInv, ReceivedInv, NEW n \in Node, Poll(n)
  PROVE  TransitInv' /\ OrderInv'
<1>1. PICK c \in Chan, m \in Message :
           /\ BackendSend(n, m) /\ m.chan = c /\ m.from = n /\ Logged(m)
           /\ m.num = Polled(c, n) + 1 /\ Polled(c, n) \in Nat
           /\ log' = log
           /\ \A x \in Chan, i \in Node :
                Polled(x, i)' = IF x = c /\ i = n THEN Polled(c, n) + 1 ELSE Polled(x, i)
  BY PollSend
<1>2. PICK b \in [Node -> MessageQueue], D \in SUBSET Node :
           /\ Flush(n, D, b)
           /\ \A d \in Node : b[d] = IF Reaches(m, d) THEN Append(buf[n][d], m) ELSE buf[n][d]
  BY <1>1, BackendSendEffect
<1>3. inbox' = inbox /\ arrived' = arrived
  BY DEF Poll, loop, cursors
<1>4. \A d \in Node : ToSet(b[d]) = ToSet(buf[n][d]) \cup IF Reaches(m, d) THEN {m} ELSE {}
  <2>1. \A d \in Node : buf[n][d] \in Seq(Message)
    BY TransitTypes DEF MessageQueue
  <2>2. \A d \in Node : ToSet(Append(buf[n][d], m)) = ToSet(buf[n][d]) \cup {m}
    BY <2>1, AppendFacts
  <2>. QED BY <1>2, <2>2
<1>5. ASSUME NEW i \in Node, NEW j \in Node
      PROVE  InTransit(i, j)' = InTransit(i, j) \cup IF i = n /\ Reaches(m, j) THEN {m} ELSE {}
  <2>1. InTransit(i, j)' = {l \in ToSet(inbox[j]) : l.from = i} \cup (InNet(net'[i][j]) \cup ToSet(buf'[i][j]))
    BY <1>3 DEF InTransit, InNet
  <2>2. InNet(net'[i][j]) \cup ToSet(buf'[i][j])
          = InNet(net[i][j]) \cup ToSet(buf[i][j]) \cup IF i = n /\ Reaches(m, j) THEN {m} ELSE {}
    <3>0. InNet(net'[i][j]) \cup ToSet(buf'[i][j])
            = IF i = n THEN InNet(net[i][j]) \cup ToSet(b[j]) ELSE InNet(net[i][j]) \cup ToSet(buf[i][j])
      <4>1. Flush(n, D, b)
        BY <1>2
      <4>. QED BY <4>1, FlushTransit, SMTT(30)
    <3>1. CASE i = n
      BY <1>4, <3>0, <3>1
    <3>2. CASE i # n
      BY <3>0, <3>2
    <3>. QED BY <3>1, <3>2
  <2>. QED BY <2>1, <2>2, TransitSets
<1>6. \A l : Logged(l) => LoggedNow(l)
  BY ONLY <1>1 DEF Logged, LoggedNow
<1>7. TransitInv'
  <2>. SUFFICES ASSUME NEW i \in Node, NEW j \in Node
                PROVE  TransitCellNow(i, j, InTransit(i, j) \cup IF i = n /\ Reaches(m, j) THEN {m} ELSE {})
    BY <1>5, TransitCells
  <2>. DEFINE S == InTransit(i, j) \cup IF i = n /\ Reaches(m, j) THEN {m} ELSE {}
  <2>1. TransitCell(i, j) /\ InTransit(i, j) \subseteq Message
    BY TransitCells, TransitSets
  <2>2. ASSUME NEW l \in S
        PROVE  /\ l.from = i /\ LoggedNow(l) /\ Reaches(l, j)
               /\ arrived[l.chan][j][i] < l.num /\ l.num <= Polled(l.chan, i)'
    <3>1. CASE l \in InTransit(i, j)
      <4>1. l.chan \in Chan /\ l.num \in Nat
        BY <2>1, <3>1, MessageFields
      <4>2. /\ l.from = i /\ Logged(l) /\ Reaches(l, j)
            /\ arrived[l.chan][j][i] < l.num /\ l.num <= Polled(l.chan, i)
        BY <2>1, <3>1 DEF TransitCell
      <4>3. l.num <= Polled(l.chan, i)'
        <5>1. CASE l.chan = c /\ i = n
          BY <1>1, <4>1, <4>2, <5>1
        <5>2. CASE ~(l.chan = c /\ i = n)
          BY <1>1, <4>1, <4>2, <5>2
        <5>. QED BY <5>1, <5>2
      <4>. QED BY <1>6, <4>2, <4>3
    <3>2. CASE l = m /\ i = n /\ Reaches(m, j)
      <4>1. arrived[c][j][n] \in Nat /\ arrived[c][j][n] <= Polled(c, n)
        BY CursorFacts
      <4>2. Polled(c, n)' = Polled(c, n) + 1
        BY <1>1
      <4>3. arrived[c][j][n] < m.num /\ m.num <= Polled(c, n)'
        BY <1>1, <4>1, <4>2
      <4>. QED BY <1>1, <1>6, <3>2, <4>3
    <3>. QED BY <3>1, <3>2
  <2>3. ASSUME NEW x \in Chan, NEW p \in (arrived[x][j][i] + 1)..Polled(x, i)', Reaches(log[x][i][p], j)
        PROVE  \E l \in S : l.chan = x /\ l.num = p
    <3>1. CASE p \in (arrived[x][j][i] + 1)..Polled(x, i)
      BY <2>1, <2>3, <3>1 DEF TransitCell
    <3>2. CASE x = c /\ i = n /\ p = m.num
      <4>1. Reaches(m, j)
        BY <1>1, <2>3, <3>2 DEF Logged, Reaches
      <4>. QED BY <1>1, <3>2, <4>1
    <3>3. p \in (arrived[x][j][i] + 1)..Polled(x, i) \/ (x = c /\ i = n /\ p = m.num)
      <4>1. arrived[x][j][i] \in Nat /\ Polled(x, i) \in Nat
        BY CursorFacts
      <4>2. CASE x = c /\ i = n
        BY <1>1, <4>1, <4>2
      <4>3. CASE ~(x = c /\ i = n)
        BY <1>1, <4>3
      <4>. QED BY <4>2, <4>3
    <3>. QED BY <3>1, <3>2, <3>3
  <2>. HIDE DEF S
  <2>. QED BY <1>1, <1>3, <2>2, <2>3 DEF TransitCellNow, S
<1>8. ASSUME NEW i \in Node, NEW j \in Node
      PROVE  Lined(inbox[j], net'[i][j], buf'[i][j])
  <2>1. Lined(inbox[j], net[i][j], buf[i][j])
    BY DEF OrderInv
  <2>2. CASE i # n
    BY <1>2, <2>1, <2>2, FlushEffect
  <2>3. CASE i = n /\ ~Reaches(m, j)
    BY <1>2, <2>1, <2>3, FlushOrder
  <2>4. CASE i = n /\ Reaches(m, j)
    <3>1. ASSUME NEW l \in ToSet(inbox[j]) \cup InNet(net[n][j]) \cup ToSet(buf[n][j]) PROVE Ordered(l, m)
      <4>1. CASE l \in InTransit(n, j)
        <5>1. l \in Message /\ l.num \in Nat /\ l.num <= Polled(l.chan, n)
          BY <4>1, TransitSets, TransitCells, MessageFields DEF TransitCell
        <5>2. l.chan = c => l.num < m.num
          BY <1>1, <5>1
        <5>. QED BY <1>1, <5>2 DEF Ordered
      <4>2. CASE l.from # n
        BY <1>1, <4>2 DEF Ordered
      <4>. QED BY <3>1, <4>1, <4>2, TransitSets
    <3>2. Precedes(ToSet(inbox[j]) \cup InNet(net[n][j]) \cup ToSet(buf[n][j]), {m})
      BY <3>1 DEF Precedes
    <3>3. Lined(inbox[j], net[n][j], b[j])
      BY <1>2, <2>1, <2>4, <3>2, LinedAppend, TransitTypes
    <3>. QED BY <1>2, <2>4, <3>3, FlushOrder
  <2>. QED BY <2>2, <2>3, <2>4
<1>9. OrderInv'
  BY <1>3, <1>8 DEF OrderInv
<1>. QED BY <1>7, <1>9

LEMMA ReceiveTransit ==
  ASSUME TypeOK, TypeOK', LoopInv, SendInv, TransitInv, OrderInv, NEW n \in Node, NEW i \in Node, Receive(n, i)
  PROVE  TransitInv' /\ OrderInv'
<1>. DEFINE h == Head(net[i][n])  t == Tail(net[i][n])
<1>1. /\ net[i][n] \in Seq(MessageQueue) /\ net[i][n] # <<>> /\ inbox[n] = <<>>
      /\ inbox' = [inbox EXCEPT ![n] = h] /\ net' = [net EXCEPT ![i][n] = t]
      /\ buf' = buf /\ log' = log /\ sendq' = sendq /\ arrived' = arrived
  BY DEF Receive, Receivable, TypeOK, LoopInv, queues, cursors
<1>2. /\ \A j \in Node : inbox'[j] = IF j = n THEN h ELSE inbox[j]
      /\ \A k, j \in Node : net'[k][j] = IF k = i /\ j = n THEN t ELSE net[k][j]
  <2>1. inbox \in [Node -> MessageQueue] /\ net \in [Node -> [Node -> Seq(MessageQueue)]]
    BY DEF TypeOK
  <2>. HIDE DEF h, t
  <2>. QED BY <1>1, <2>1
<1>3. InNet(net[i][n]) = ToSet(h) \cup InNet(t)
  BY <1>1, InNetTail
<1>4. InOrder(h) /\ InLine(t) /\ Precedes(ToSet(h), InNet(t))
  BY <1>1, InLineTail, LinedSets DEF OrderInv
<1>. HIDE DEF h, t
<1>5. \A k, j \in Node : \A l \in InNet(net[k][j]) \cup ToSet(buf[k][j]) : l.from = k
  BY TransitSets, TransitCells DEF TransitCell
<1>6. ToSet(inbox[n]) = {}
  BY <1>1 DEF ToSet
<1>7. ASSUME NEW k \in Node, NEW j \in Node PROVE InTransit(k, j)' = InTransit(k, j)
  <2>1. /\ InTransit(k, j) = {l \in ToSet(inbox[j]) : l.from = k} \cup InNet(net[k][j]) \cup ToSet(buf[k][j])
        /\ InTransit(k, j)' = {l \in ToSet(inbox'[j]) : l.from = k} \cup InNet(net'[k][j]) \cup ToSet(buf[k][j])
    BY <1>1 DEF InTransit, InNet
  <2>2. CASE j # n
    BY <1>2, <2>1, <2>2
  <2>3. CASE j = n /\ k = i
    <3>1. {l \in ToSet(h) : l.from = i} = ToSet(h)
      BY <1>3, <1>5
    <3>. QED BY <1>2, <1>3, <1>6, <2>1, <2>3, <3>1
  <2>4. CASE j = n /\ k # i
    <3>1. {l \in ToSet(h) : l.from = k} = {}
      BY <1>3, <1>5, <2>4
    <3>. QED BY <1>2, <1>6, <2>1, <2>4, <3>1
  <2>. QED BY <2>2, <2>3, <2>4
<1>8. TransitInv'
  BY <1>1, <1>7, StaySend, TransitKept
<1>9. ASSUME NEW k \in Node, NEW j \in Node PROVE Lined(inbox'[j], net'[k][j], buf'[k][j])
  <2>1. Lined(inbox[j], net[k][j], buf[k][j])
    BY DEF OrderInv
  <2>2. CASE j # n
    BY <1>1, <1>2, <2>1, <2>2
  <2>3. CASE j = n /\ k = i
    <3>1. InOrder(buf[i][n]) /\ Precedes(InNet(net[i][n]), ToSet(buf[i][n]))
      BY <2>1, <2>3, LinedSets
    <3>2. Precedes(ToSet(h), ToSet(buf[i][n])) /\ Precedes(InNet(t), ToSet(buf[i][n]))
      BY <1>3, <3>1 DEF Precedes
    <3>3. Lined(h, t, buf[i][n])
      BY <1>4, <3>1, <3>2, LinedSets
    <3>. QED BY <1>1, <1>2, <2>3, <3>3
  <2>4. CASE j = n /\ k # i
    <3>1. /\ InLine(net[k][n]) /\ InOrder(buf[k][n]) /\ Precedes(InNet(net[k][n]), ToSet(buf[k][n]))
      BY <2>1, <2>4, LinedSets
    <3>2. \A m \in ToSet(h), l \in InNet(net[k][n]) \cup ToSet(buf[k][n]) : m.from = i /\ l.from = k
      BY <1>3, <1>5
    <3>3. Precedes(ToSet(h), InNet(net[k][n])) /\ Precedes(ToSet(h), ToSet(buf[k][n]))
      BY <2>4, <3>2 DEF Precedes, Ordered
    <3>4. Lined(h, net[k][n], buf[k][n])
      BY <1>4, <3>1, <3>3, LinedSets
    <3>. QED BY <1>1, <1>2, <2>4, <3>4
  <2>. QED BY <2>2, <2>3, <2>4
<1>10. OrderInv'
  BY <1>9 DEF OrderInv
<1>. QED BY <1>8, <1>10

\* The message that is dispatched is the first of those in transit from its sender.
LEMMA DispatchFirst ==
  ASSUME TypeOK, LoopInv, SendInv, TransitInv, OrderInv, NEW n \in Node, Dispatch(n),
         NEW m \in Message, m = Head(inbox[n])
  PROVE  /\ m \in InTransit(m.from, n)
         /\ \A l \in InTransit(m.from, n) : l = m \/ l \in InTransit(m.from, n)'
         /\ \A l \in InTransit(m.from, n)' : l \in InTransit(m.from, n) /\ Ordered(m, l)
         /\ \A k, j \in Node : j # n \/ k # m.from => InTransit(k, j)' = InTransit(k, j)
         /\ OrderInv'
<1>1. /\ inbox[n] # <<>> /\ inbox' = [inbox EXCEPT ![n] = Tail(inbox[n])]
      /\ MaybeFlush(n) \/ UNCHANGED <<buf, net>>
  BY DispatchEffect DEF backend
<1>2. \A j \in Node : inbox'[j] = IF j = n THEN Tail(inbox[n]) ELSE inbox[j]
  BY <1>1 DEF TypeOK
<1>3. inbox[n] \in Seq(Message) /\ m.from \in Node
  BY MessageFields DEF TypeOK, MessageQueue
<1>4. ToSet(inbox[n]) = ToSet(Tail(inbox[n])) \cup {m}
  BY <1>1, <1>3, TailFacts
<1>5. /\ \A k, j \in Node : InNet(net'[k][j]) \cup ToSet(buf'[k][j]) = InNet(net[k][j]) \cup ToSet(buf[k][j])
      /\ \A k, j \in Node : \A q : Lined(q, net[k][j], buf[k][j]) => Lined(q, net'[k][j], buf'[k][j])
  BY <1>1, MaybeFlushSets
<1>. DEFINE R(k, j) == InNet(net[k][j]) \cup ToSet(buf[k][j])
<1>6. \A k, j \in Node :
        /\ InTransit(k, j) = {l \in ToSet(inbox[j]) : l.from = k} \cup R(k, j)
        /\ InTransit(k, j)' = {l \in ToSet(inbox'[j]) : l.from = k} \cup R(k, j)
  <2>. TAKE k \in Node, j \in Node
  <2>1. /\ InTransit(k, j) = {l \in ToSet(inbox[j]) : l.from = k} \cup R(k, j)
        /\ InTransit(k, j)'
             = {l \in ToSet(inbox'[j]) : l.from = k} \cup (InNet(net'[k][j]) \cup ToSet(buf'[k][j]))
    BY DEF InTransit, InNet
  <2>. QED BY <1>5, <2>1
<1>. HIDE DEF R
<1>7. ASSUME NEW k \in Node, NEW j \in Node, j # n \/ k # m.from
      PROVE  InTransit(k, j)' = InTransit(k, j)
  <2>. DEFINE old == {l \in ToSet(inbox[j]) : l.from = k}  new == {l \in ToSet(inbox'[j]) : l.from = k}
  <2>1. new = old
    <3>1. CASE j # n
      BY <1>2, <3>1
    <3>2. CASE j = n /\ k # m.from
      BY <1>2, <1>4, <3>2
    <3>. QED BY <1>7, <3>1, <3>2
  <2>2. InTransit(k, j) = old \cup R(k, j) /\ InTransit(k, j)' = new \cup R(k, j)
    BY <1>6
  <2>. HIDE DEF old, new
  <2>. QED BY <2>1, <2>2
<1>8. m \in InTransit(m.from, n)
  BY <1>3, <1>4, <1>6
<1>9. \A l \in InTransit(m.from, n) : l = m \/ l \in InTransit(m.from, n)'
  BY <1>2, <1>3, <1>4, <1>6
<1>10. Precedes({m}, ToSet(Tail(inbox[n]))) /\ InOrder(Tail(inbox[n]))
  BY <1>1, <1>3, InOrderTail DEF OrderInv, Lined, MessageQueue
<1>11. \A l \in InTransit(m.from, n)' : l \in InTransit(m.from, n) /\ Ordered(m, l)
  <2>1. Precedes(ToSet(inbox[n]), R(m.from, n))
    BY <1>3, LinedSets DEF OrderInv, Precedes, R
  <2>. SUFFICES ASSUME NEW l \in ToSet(Tail(inbox[n])) \cup R(m.from, n)
                PROVE  Ordered(m, l)
    BY <1>2, <1>3, <1>4, <1>6
  <2>. QED BY <1>4, <1>10, <2>1 DEF Precedes
<1>12. ASSUME NEW k \in Node, NEW j \in Node PROVE Lined(inbox'[j], net'[k][j], buf'[k][j])
  <2>1. Lined(inbox'[j], net[k][j], buf[k][j])
    <3>1. Lined(inbox[j], net[k][j], buf[k][j])
      BY DEF OrderInv
    <3>2. CASE j = n
      <4>1. /\ InLine(net[k][n]) /\ InOrder(buf[k][n])
            /\ Precedes(ToSet(inbox[n]), ToSet(buf[k][n])) /\ Precedes(ToSet(inbox[n]), InNet(net[k][n]))
            /\ Precedes(InNet(net[k][n]), ToSet(buf[k][n]))
        BY <3>1, <3>2, LinedSets
      <4>2. /\ Precedes(ToSet(Tail(inbox[n])), ToSet(buf[k][n]))
            /\ Precedes(ToSet(Tail(inbox[n])), InNet(net[k][n]))
        BY <1>4, <4>1 DEF Precedes
      <4>. QED BY <1>2, <1>10, <3>2, <4>1, <4>2, LinedSets
    <3>3. CASE j # n
      BY <1>2, <3>1, <3>3
    <3>. QED BY <3>2, <3>3
  <2>. QED BY <1>5, <2>1
<1>13. OrderInv'
  BY <1>12 DEF OrderInv
<1>. QED BY <1>7, <1>8, <1>9, <1>11, <1>13

LEMMA DispatchTransit ==
  ASSUME TypeOK, TypeOK', LoopInv, SendInv, TransitInv, OrderInv, ReceivedInv, NEW n \in Node, Dispatch(n)
  PROVE  TransitInv'
<1>1. PICK m \in Message :
        /\ m = Head(inbox[n])
        /\ arrived' = [arrived EXCEPT ![m.chan][n][m.from] = m.num]
  BY DispatchEffect
<1>2. log' = log /\ sendq' = sendq
  BY DEF Dispatch
<1>3. /\ m \in InTransit(m.from, n)
      /\ \A l \in InTransit(m.from, n) : l = m \/ l \in InTransit(m.from, n)'
      /\ \A l \in InTransit(m.from, n)' : l \in InTransit(m.from, n) /\ Ordered(m, l)
      /\ \A k, j \in Node : j # n \/ k # m.from => InTransit(k, j)' = InTransit(k, j)
  BY <1>1, DispatchFirst
<1>4. \A c \in Chan, j, k \in Node :
        arrived'[c][j][k] = IF c = m.chan /\ j = n /\ k = m.from THEN m.num ELSE arrived[c][j][k]
  <2>1. arrived \in [Chan -> [Node -> [Node -> Nat]]] /\ m.chan \in Chan /\ m.from \in Node
    BY MessageFields DEF TypeOK
  <2>. QED BY <1>1, <2>1
<1>5. \A l : Logged(l) => LoggedNow(l)
  BY ONLY <1>2 DEF Logged, LoggedNow
<1>6. \A c \in Chan, i \in Node : Polled(c, i)' = Polled(c, i)
  BY <1>2 DEF Polled
<1>. SUFFICES ASSUME NEW i \in Node, NEW j \in Node PROVE TransitCellNow(i, j, InTransit(i, j)')
  BY TransitCells
<1>7. TransitCell(i, j) /\ InTransit(i, j) \subseteq Message
  BY TransitCells, TransitSets
<1>8. \A l \in InTransit(i, j)' : l \in InTransit(i, j)
  BY <1>3
<1>9. ASSUME NEW l \in InTransit(i, j)'
      PROVE  /\ l.from = i /\ LoggedNow(l) /\ Reaches(l, j)
             /\ arrived'[l.chan][j][i] < l.num /\ l.num <= Polled(l.chan, i)'
  <2>1. /\ l.from = i /\ Logged(l) /\ Reaches(l, j)
        /\ arrived[l.chan][j][i] < l.num /\ l.num <= Polled(l.chan, i) /\ l.chan \in Chan
    BY <1>7, <1>8, MessageFields DEF TransitCell
  <2>2. arrived'[l.chan][j][i] < l.num
    <3>1. CASE l.chan = m.chan /\ j = n /\ i = m.from
      BY <1>3, <1>4, <2>1, <3>1 DEF Ordered
    <3>2. CASE ~(l.chan = m.chan /\ j = n /\ i = m.from)
      BY <1>4, <2>1, <3>2
    <3>. QED BY <3>1, <3>2
  <2>. QED BY <1>5, <1>6, <2>1, <2>2
<1>10. ASSUME NEW c \in Chan, NEW p \in (arrived'[c][j][i] + 1)..Polled(c, i)', Reaches(log'[c][i][p], j)
       PROVE  \E l \in InTransit(i, j)' : l.chan = c /\ l.num = p
  <2>1. /\ arrived[c][j][i] \in Nat /\ m.num \in Nat /\ Polled(c, i) \in Nat /\ m.chan \in Chan
        /\ arrived[m.chan][n][m.from] < m.num
    BY <1>3, CursorFacts, MessageFields, TransitCells DEF TransitCell
  <2>2. p \in (arrived[c][j][i] + 1)..Polled(c, i) /\ (c = m.chan /\ j = n /\ i = m.from => p # m.num)
    <3>1. CASE c = m.chan /\ j = n /\ i = m.from
      <4>1. p \in (m.num + 1)..Polled(c, i) /\ arrived[c][j][i] < m.num
        BY <1>4, <1>6, <2>1, <3>1
      <4>. QED BY <2>1, <4>1
    <3>2. CASE ~(c = m.chan /\ j = n /\ i = m.from)
      BY <1>4, <1>6, <3>2
    <3>. QED BY <3>1, <3>2
  <2>3. PICK l \in InTransit(i, j) : l.chan = c /\ l.num = p
    BY <1>2, <1>7, <1>10, <2>2 DEF TransitCell
  <2>4. l \in InTransit(i, j)'
    <3>1. CASE j = n /\ i = m.from
      BY <1>3, <2>2, <2>3, <3>1
    <3>2. CASE ~(j = n /\ i = m.from)
      BY <1>3, <3>2
    <3>. QED BY <3>1, <3>2
  <2>. QED BY <2>3, <2>4
<1>. QED BY <1>9, <1>10 DEF TransitCellNow

-----------------------------------------------------------------------------
(* The receive queues and the handlers.                                    *)

ReceivedCell(n, c) ==
  /\ \A m \in Received(n, c) :
       /\ m.chan = c /\ m.type # "eof" /\ Logged(m) /\ Reaches(m, n)
       /\ handled[c][n][m.from] < m.num /\ m.num <= arrived[c][n][m.from]
  /\ Len(hand[n][c]) <= 1 /\ InOrder(recvq[n][c]) /\ Precedes(ToSet(hand[n][c]), ToSet(recvq[n][c]))
  /\ \A i \in Node :
       /\ handled[c][n][i] <= arrived[c][n][i] /\ arrived[c][n][i] <= Polled(c, i)
       /\ ~failed[n][c] => \A p \in (handled[c][n][i] + 1)..arrived[c][n][i] :
            Reaches(log[c][i][p], n) /\ log[c][i][p].type # "eof" =>
              \E m \in Received(n, c) : m.from = i /\ m.num = p

ReceivedCellNow(n, c, S) ==
  /\ \A m \in S :
       /\ m.chan = c /\ m.type # "eof" /\ LoggedNow(m) /\ Reaches(m, n)
       /\ handled'[c][n][m.from] < m.num /\ m.num <= arrived'[c][n][m.from]
  /\ Len(hand'[n][c]) <= 1 /\ InOrder(recvq'[n][c]) /\ Precedes(ToSet(hand'[n][c]), ToSet(recvq'[n][c]))
  /\ \A i \in Node :
       /\ handled'[c][n][i] <= arrived'[c][n][i] /\ arrived'[c][n][i] <= Polled(c, i)'
       /\ ~failed'[n][c] => \A p \in (handled'[c][n][i] + 1)..arrived'[c][n][i] :
            Reaches(log'[c][i][p], n) /\ log'[c][i][p].type # "eof" =>
              \E m \in S : m.from = i /\ m.num = p

LEMMA ReceivedCells ==
  /\ ReceivedInv => \A n \in Node, c \in Chan : ReceivedCell(n, c)
  /\ (\A n \in Node, c \in Chan : ReceivedCellNow(n, c, ToSet(hand'[n][c]) \cup ToSet(recvq'[n][c])))
       => ReceivedInv'
<1>1. \A s, t : AllBefore(s, t) <=> Precedes(ToSet(s), ToSet(t))
  BY LinedSets
<1>2. ASSUME ReceivedInv, NEW n \in Node, NEW c \in Chan PROVE ReceivedCell(n, c)
  <2>1. AllBefore(hand[n][c], recvq[n][c])
    BY <1>2 DEF ReceivedInv
  <2>2. Precedes(ToSet(hand[n][c]), ToSet(recvq[n][c]))
    BY <1>1, <2>1
  <2>. QED BY <1>2, <2>2 DEF ReceivedInv, ReceivedCell
<1>3. ASSUME \A n \in Node, c \in Chan :
               ReceivedCellNow(n, c, ToSet(hand'[n][c]) \cup ToSet(recvq'[n][c]))
      PROVE  ReceivedInv'
  <2>. SUFFICES ASSUME NEW n \in Node, NEW c \in Chan
                PROVE  (/\ \A m \in Received(n, c) :
                             /\ m.chan = c /\ m.type # "eof" /\ Logged(m) /\ Reaches(m, n)
                             /\ handled[c][n][m.from] < m.num /\ m.num <= arrived[c][n][m.from]
                        /\ Len(hand[n][c]) <= 1 /\ InOrder(recvq[n][c]) /\ AllBefore(hand[n][c], recvq[n][c])
                        /\ \A i \in Node :
                             /\ handled[c][n][i] <= arrived[c][n][i] /\ arrived[c][n][i] <= Polled(c, i)
                             /\ ~failed[n][c] => \A p \in (handled[c][n][i] + 1)..arrived[c][n][i] :
                                  Reaches(log[c][i][p], n) /\ log[c][i][p].type # "eof" =>
                                    \E m \in Received(n, c) : m.from = i /\ m.num = p)'
    BY DEF ReceivedInv
  <2>. DEFINE S == ToSet(hand'[n][c]) \cup ToSet(recvq'[n][c])
  <2>1. ReceivedCellNow(n, c, S) /\ Received(n, c)' = S
    BY <1>3 DEF Received
  <2>2. \A m : LoggedNow(m) => Logged(m)'
    BY ONLY DEF Logged, LoggedNow
  <2>3. AllBefore(hand[n][c], recvq[n][c])' /\ InOrder(recvq[n][c])'
    <3>1. Precedes(ToSet(hand'[n][c]), ToSet(recvq'[n][c])) /\ InOrder(recvq'[n][c])
      BY <2>1 DEF ReceivedCellNow
    <3>2. AllBefore(hand'[n][c], recvq'[n][c])
      BY <1>1, <3>1
    <3>. QED BY <3>1, <3>2
  <2>. HIDE DEF S
  <2>. QED BY ONLY <2>1, <2>2, <2>3 DEF ReceivedCellNow
<1>. QED BY <1>2, <1>3

LEMMA ReceivedTypes ==
  ASSUME TypeOK, NEW n \in Node, NEW c \in Chan
  PROVE  /\ hand[n][c] \in Seq(Message) /\ recvq[n][c] \in Seq(Message)
         /\ Received(n, c) \subseteq Message
         /\ \A i \in Node : handled[c][n][i] \in Nat /\ arrived[c][n][i] \in Nat
<1>1. hand[n][c] \in Seq(Message) /\ recvq[n][c] \in Seq(Message)
  BY DEF TypeOK, MessageQueue
<1>2. Received(n, c) \subseteq Message
  BY <1>1, SeqFacts DEF Received
<1>3. \A i \in Node : handled[c][n][i] \in Nat /\ arrived[c][n][i] \in Nat
  BY DEF TypeOK
<1>. QED BY <1>1, <1>2, <1>3

LEMMA InitReceived == Init => ReceivedInv
<1>. SUFFICES ASSUME Init PROVE ReceivedInv
  OBVIOUS
<1>1. /\ \A n \in Node, c \in Chan : hand[n][c] = <<>> /\ recvq[n][c] = <<>>
      /\ \A c \in Chan, n, i \in Node : handled[c][n][i] = 0 /\ arrived[c][n][i] = 0
      /\ \A c \in Chan, i \in Node : log[c][i] = <<>> /\ sendq[i][c] = <<>>
      /\ DOMAIN <<>> = {} /\ Len(<<>>) = 0
  BY DEF Init
<1>2. \A n \in Node, c \in Chan : Received(n, c) = {}
  BY <1>1 DEF Received, ToSet
<1>3. \A c \in Chan, i \in Node : Polled(c, i) = 0
  BY <1>1 DEF Polled
<1>4. InOrder(<<>>) /\ AllBefore(<<>>, <<>>)
  BY <1>1 DEF InOrder, AllBefore
<1>5. 0 <= 1 /\ 0 <= 0 /\ (0 + 1)..0 = {}
  OBVIOUS
<1>. QED BY <1>1, <1>2, <1>3, <1>4, <1>5 DEF ReceivedInv

\* The main loop takes from the send queues.
PolledGrows == \A c \in Chan, n \in Node : Polled(c, n)' \in Nat /\ Polled(c, n) <= Polled(c, n)'

LEMMA KeptGrows == ASSUME TypeOK, SendInv, PolledKept PROVE PolledGrows
<1>1. \A c \in Chan, n \in Node : Polled(c, n) \in Nat
  BY PolledBound
<1>. QED BY <1>1 DEF PolledKept, PolledGrows

\* What a step leaves alone.
LEMMA ReceivedStays ==
  ASSUME TypeOK, TypeOK', SendInv, ReceivedInv, LogKept, PolledGrows, NEW n \in Node, NEW c \in Chan,
         hand'[n][c] = hand[n][c], recvq'[n][c] = recvq[n][c], failed[n][c] => failed'[n][c],
         \A i \in Node : handled'[c][n][i] = handled[c][n][i] /\ arrived'[c][n][i] = arrived[c][n][i]
  PROVE  ReceivedCellNow(n, c, ToSet(hand'[n][c]) \cup ToSet(recvq'[n][c]))
<1>1. ReceivedCell(n, c) /\ Received(n, c) \subseteq Message
  BY ReceivedCells, ReceivedTypes
<1>2. ToSet(hand'[n][c]) \cup ToSet(recvq'[n][c]) = Received(n, c)
  BY DEF Received
<1>3. ASSUME NEW m \in Received(n, c)
      PROVE  /\ m.chan = c /\ m.type # "eof" /\ LoggedNow(m) /\ Reaches(m, n)
             /\ handled'[c][n][m.from] < m.num /\ m.num <= arrived'[c][n][m.from]
  <2>1. m \in Message /\ m.from \in Node
    BY <1>1, MessageFields
  <2>. QED BY <1>1, <2>1, LoggedKept DEF ReceivedCell
<1>4. ASSUME NEW i \in Node
      PROVE  /\ handled'[c][n][i] <= arrived'[c][n][i] /\ arrived'[c][n][i] <= Polled(c, i)'
             /\ ~failed'[n][c] => \A p \in (handled'[c][n][i] + 1)..arrived'[c][n][i] :
                  Reaches(log'[c][i][p], n) /\ log'[c][i][p].type # "eof" =>
                    \E m \in Received(n, c) : m.from = i /\ m.num = p
  <2>1. /\ handled[c][n][i] \in Nat /\ arrived[c][n][i] \in Nat /\ Polled(c, i) \in Nat /\ Polled(c, i)' \in Nat
        /\ arrived[c][n][i] <= Polled(c, i) /\ Polled(c, i) <= Polled(c, i)'
        /\ Polled(c, i) <= Len(log[c][i]) /\ Len(log[c][i]) \in Nat
    BY CursorFacts DEF PolledGrows
  <2>2. \A p \in (handled[c][n][i] + 1)..arrived[c][n][i] : p \in 1..Len(log[c][i])
    BY <2>1
  <2>3. \A p \in (handled[c][n][i] + 1)..arrived[c][n][i] : log'[c][i][p] = log[c][i][p]
    BY <2>2 DEF LogKept
  <2>4. arrived[c][n][i] <= Polled(c, i)'
    BY <2>1
  <2>. QED BY <1>1, <2>3, <2>4 DEF ReceivedCell
<1>. QED BY <1>1, <1>2, <1>3, <1>4 DEF ReceivedCellNow, ReceivedCell

LEMMA PopReceivedCell ==
  ASSUME TypeOK, TypeOK', SendInv, ReceivedInv, LogKept, PolledGrows, NEW n \in Node, NEW c \in Chan,
         PopReceived(n, c)
  PROVE  ReceivedCellNow(n, c, ToSet(hand'[n][c]) \cup ToSet(recvq'[n][c]))
<1>. DEFINE q == recvq[n][c]  h == Head(q)  t == Tail(q)
<1>1. hand[n][c] = <<>> /\ q # <<>> /\ q \in Seq(Message)
  BY ReceivedTypes DEF PopReceived
<1>2. hand'[n][c] = <<h>> /\ recvq'[n][c] = t
  <2>1. hand' = [hand EXCEPT ![n][c] = <<h>>] /\ recvq' = [recvq EXCEPT ![n][c] = t]
    BY DEF PopReceived
  <2>2. hand \in [Node -> [Chan -> MessageQueue]] /\ recvq \in [Node -> [Chan -> MessageQueue]]
    BY DEF TypeOK
  <2>. HIDE DEF h, t
  <2>. QED BY <2>1, <2>2
<1>3. handled' = handled /\ arrived' = arrived /\ failed' = failed
  BY DEF PopReceived, cursors
<1>4. ReceivedCell(n, c) /\ Received(n, c) \subseteq Message
  BY ReceivedCells, ReceivedTypes
<1>5. ToSet(q) = ToSet(t) \cup {h} /\ InOrder(t) /\ Precedes({h}, ToSet(t))
  BY <1>1, <1>4, TailFacts, InOrderTail DEF ReceivedCell, MessageQueue
<1>6. ToSet(<<>>) = {} /\ ToSet(<<h>>) = {h} /\ Len(<<h>>) <= 1
  BY DEF ToSet
<1>7. ToSet(hand'[n][c]) \cup ToSet(recvq'[n][c]) = Received(n, c)
  BY <1>1, <1>2, <1>5, <1>6 DEF Received
<1>8. ASSUME NEW m \in Received(n, c)
      PROVE  /\ m.chan = c /\ m.type # "eof" /\ LoggedNow(m) /\ Reaches(m, n)
             /\ handled'[c][n][m.from] < m.num /\ m.num <= arrived'[c][n][m.from]
  BY <1>3, <1>4, LoggedKept DEF ReceivedCell
<1>9. ASSUME NEW i \in Node
      PROVE  /\ handled'[c][n][i] <= arrived'[c][n][i] /\ arrived'[c][n][i] <= Polled(c, i)'
             /\ ~failed'[n][c] => \A p \in (handled'[c][n][i] + 1)..arrived'[c][n][i] :
                  Reaches(log'[c][i][p], n) /\ log'[c][i][p].type # "eof" =>
                    \E m \in Received(n, c) : m.from = i /\ m.num = p
  <2>1. /\ handled[c][n][i] \in Nat /\ arrived[c][n][i] \in Nat /\ Polled(c, i) \in Nat /\ Polled(c, i)' \in Nat
        /\ arrived[c][n][i] <= Polled(c, i) /\ Polled(c, i) <= Polled(c, i)'
        /\ Polled(c, i) <= Len(log[c][i]) /\ Len(log[c][i]) \in Nat
    BY CursorFacts DEF PolledGrows
  <2>2. \A p \in (handled[c][n][i] + 1)..arrived[c][n][i] : p \in 1..Len(log[c][i])
    BY <2>1
  <2>3. \A p \in (handled[c][n][i] + 1)..arrived[c][n][i] : log'[c][i][p] = log[c][i][p]
    BY <2>2 DEF LogKept
  <2>4. arrived[c][n][i] <= Polled(c, i)'
    BY <2>1
  <2>. QED BY <1>3, <1>4, <2>3, <2>4 DEF ReceivedCell
<1>10. Precedes(ToSet(hand'[n][c]), ToSet(recvq'[n][c])) /\ InOrder(recvq'[n][c]) /\ Len(hand'[n][c]) <= 1
  BY <1>2, <1>5, <1>6
<1>. QED BY <1>7, <1>8, <1>9, <1>10 DEF ReceivedCellNow

\* The handler is done with the first of what it has received from its sender.
LEMMA FinishCell ==
  ASSUME TypeOK, TypeOK', SendInv, ReceivedInv, LogKept, PolledGrows, NEW n \in Node, NEW c \in Chan, NEW t,
         Finish(n, c, t), recvq' = recvq, arrived' = arrived, failed[n][c] => failed'[n][c]
  PROVE  ReceivedCellNow(n, c, ToSet(hand'[n][c]) \cup ToSet(recvq'[n][c]))
<1>. DEFINE m == hand[n][c][1]  S == ToSet(recvq[n][c])
<1>1. /\ hand[n][c] # <<>> /\ m \in Message /\ hand'[n][c] = <<>>
      /\ \A i \in Node : handled'[c][n][i] = IF i = m.from THEN m.num ELSE handled[c][n][i]
  BY FinishEffect
<1>2. ReceivedCell(n, c) /\ hand[n][c] \in Seq(Message) /\ Received(n, c) \subseteq Message
  BY ReceivedCells, ReceivedTypes
<1>3. ToSet(hand[n][c]) = {m}
  <2>. DEFINE l == Len(hand[n][c])
  <2>1. l \in Nat /\ l # 0 /\ l <= 1
    BY <1>1, <1>2, SeqFacts DEF ReceivedCell
  <2>. HIDE DEF l
  <2>2. l = 1
    BY <2>1
  <2>3. DOMAIN hand[n][c] = {1}
    <3>1. DOMAIN hand[n][c] = 1..l
      BY <1>2, SeqFacts DEF l
    <3>2. 1..1 = {1}
      OBVIOUS
    <3>. QED BY <2>2, <3>1, <3>2
  <2>. QED BY <2>3 DEF ToSet
<1>. HIDE DEF m
<1>4. Received(n, c) = {m} \cup S /\ m.from \in Node /\ m.num \in Nat
  BY <1>1, <1>3, MessageFields DEF Received
<1>5. ToSet(hand'[n][c]) = {} /\ ToSet(recvq'[n][c]) = S
  BY <1>1 DEF ToSet
<1>6. /\ m.chan = c /\ handled[c][n][m.from] < m.num /\ m.num <= arrived[c][n][m.from]
      /\ \A l \in S : Ordered(m, l)
  BY <1>2, <1>3, <1>4 DEF ReceivedCell, Precedes
<1>7. ASSUME NEW l \in S
      PROVE  /\ l.chan = c /\ l.type # "eof" /\ LoggedNow(l) /\ Reaches(l, n)
             /\ handled'[c][n][l.from] < l.num /\ l.num <= arrived'[c][n][l.from]
  <2>1. l \in Message /\ l.from \in Node
    BY <1>2, <1>4, MessageFields
  <2>2. /\ l.chan = c /\ l.type # "eof" /\ Logged(l) /\ Reaches(l, n)
        /\ handled[c][n][l.from] < l.num /\ l.num <= arrived[c][n][l.from]
    BY <1>2, <1>4 DEF ReceivedCell
  <2>3. handled'[c][n][l.from] < l.num
    <3>1. CASE l.from = m.from
      BY <1>1, <1>6, <2>1, <2>2, <3>1 DEF Ordered
    <3>2. CASE l.from # m.from
      BY <1>1, <2>1, <2>2, <3>2
    <3>. QED BY <3>1, <3>2
  <2>. QED BY <2>1, <2>2, <2>3, LoggedKept
<1>8. ASSUME NEW i \in Node
      PROVE  /\ handled'[c][n][i] <= arrived'[c][n][i] /\ arrived'[c][n][i] <= Polled(c, i)'
             /\ ~failed'[n][c] => \A p \in (handled'[c][n][i] + 1)..arrived'[c][n][i] :
                  Reaches(log'[c][i][p], n) /\ log'[c][i][p].type # "eof" =>
                    \E l \in S : l.from = i /\ l.num = p
  <2>1. /\ handled[c][n][i] \in Nat /\ arrived[c][n][i] \in Nat /\ Polled(c, i) \in Nat /\ Polled(c, i)' \in Nat
        /\ arrived[c][n][i] <= Polled(c, i) /\ Polled(c, i) <= Polled(c, i)'
        /\ Polled(c, i) <= Len(log[c][i]) /\ Len(log[c][i]) \in Nat
        /\ handled[c][n][i] <= arrived[c][n][i]
    BY CursorFacts DEF PolledGrows
  <2>2. /\ handled'[c][n][i] \in Nat /\ handled[c][n][i] <= handled'[c][n][i]
        /\ handled'[c][n][i] <= arrived[c][n][i] /\ (i = m.from => handled'[c][n][i] = m.num)
    <3>1. CASE i = m.from
      BY <1>1, <1>4, <1>6, <2>1, <3>1
    <3>2. CASE i # m.from
      BY <1>1, <2>1, <3>2
    <3>. QED BY <3>1, <3>2
  <2>5. PICK h, g, a, b, e, k \in Nat :
          /\ h = handled[c][n][i] /\ g = handled'[c][n][i] /\ a = arrived[c][n][i]
          /\ b = Polled(c, i) /\ e = Polled(c, i)' /\ k = Len(log[c][i])
          /\ a <= b /\ b <= e /\ b <= k /\ h <= g /\ g <= a
    BY <2>1, <2>2
  <2>3. ASSUME ~failed'[n][c], NEW p \in (handled'[c][n][i] + 1)..arrived[c][n][i],
               Reaches(log'[c][i][p], n), log'[c][i][p].type # "eof"
        PROVE  \E l \in S : l.from = i /\ l.num = p
    <3>1. p \in 1..Len(log[c][i]) /\ p \in (handled[c][n][i] + 1)..arrived[c][n][i]
      <4>1. p \in (g + 1)..a
        BY <2>3, <2>5
      <4>2. PICK q \in Int : q = p
        BY <4>1
      <4>3. h <= g /\ g <= a /\ a <= b /\ b <= k /\ g + 1 <= q /\ q <= a
        BY <2>5, <4>1, <4>2
      <4>4. q \in 1..k /\ q \in (h + 1)..a
        BY <4>3
      <4>. QED BY <2>5, <4>2, <4>4
    <3>2. log'[c][i][p] = log[c][i][p]
      BY <3>1 DEF LogKept
    <3>3. PICK l \in Received(n, c) : l.from = i /\ l.num = p
      BY <1>2, <2>3, <3>1, <3>2 DEF ReceivedCell
    <3>4. l # m
      BY <2>2, <3>3
    <3>. QED BY <1>4, <3>3, <3>4
  <2>4. arrived[c][n][i] <= Polled(c, i)'
    BY <2>1
  <2>. QED BY <2>2, <2>3, <2>4
<1>9. Len(hand'[n][c]) <= 1 /\ InOrder(recvq'[n][c]) /\ Precedes({}, S)
  BY <1>1, <1>2 DEF ReceivedCell, Precedes
<1>. QED BY <1>5, <1>7, <1>8, <1>9 DEF ReceivedCellNow

LEMMA HandlerReceived ==
  ASSUME TypeOK, TypeOK', SendInv, ReceivedInv, LogKept, PolledGrows, NEW n \in Node, NEW c \in Chan,
         PopReceived(n, c) \/ Handle(n, c)
  PROVE  ReceivedInv'
<1>1. arrived' = arrived /\ \A x \in Node, d \in Chan : failed[x][d] => failed'[x][d]
  <2>1. arrived' = arrived
    BY DEF PopReceived, Handle, HandleData, HandleSync, HandleAck, cursors
  <2>2. failed' = failed \/ failed' = [failed EXCEPT ![n][c] = TRUE]
    BY DEF PopReceived, Handle, HandleData, HandleSync, SendAck, HandleAck, CompleteRound
  <2>3. failed \in [Node -> [Chan -> BOOLEAN]]
    BY DEF TypeOK
  <2>. QED BY <2>1, <2>2, <2>3
<1>2. /\ \A x \in Node, d \in Chan : ~(x = n /\ d = c) => hand'[x][d] = hand[x][d] /\ recvq'[x][d] = recvq[x][d]
      /\ \A x \in Node, d \in Chan, i \in Node : ~(x = n /\ d = c) => handled'[d][x][i] = handled[d][x][i]
  <2>1. CASE PopReceived(n, c)
    <3>1. /\ hand' = [hand EXCEPT ![n][c] = <<Head(recvq[n][c])>>]
          /\ recvq' = [recvq EXCEPT ![n][c] = Tail(recvq[n][c])] /\ handled' = handled
      BY <2>1 DEF PopReceived, cursors
    <3>2. hand \in [Node -> [Chan -> MessageQueue]] /\ recvq \in [Node -> [Chan -> MessageQueue]]
      BY DEF TypeOK
    <3>. QED BY <3>1, <3>2
  <2>2. ASSUME NEW t, Finish(n, c, t), recvq' = recvq PROVE <1>2
    <3>1. \A x \in Node, d \in Chan : hand'[x][d] = IF x = n /\ d = c THEN <<>> ELSE hand[x][d]
      BY <2>2, FinishEffect
    <3>2. \A d \in Chan, x, i \in Node :
            handled'[d][x][i] = IF d = c /\ x = n /\ i = hand[n][c][1].from THEN hand[n][c][1].num
                                ELSE handled[d][x][i]
      BY <2>2, FinishEffect
    <3>. QED BY <2>2, <3>1, <3>2
  <2>. QED BY <2>1, <2>2 DEF Handle, HandleData, HandleSync, HandleAck, queues
<1>3. ReceivedCellNow(n, c, ToSet(hand'[n][c]) \cup ToSet(recvq'[n][c]))
  <2>1. CASE PopReceived(n, c)
    BY <2>1, PopReceivedCell
  <2>2. CASE \E t : Finish(n, c, t) /\ recvq' = recvq
    BY <1>1, <2>2, FinishCell
  <2>. QED BY <2>1, <2>2 DEF Handle, HandleData, HandleSync, HandleAck, queues
<1>4. ASSUME NEW x \in Node, NEW d \in Chan, ~(x = n /\ d = c)
      PROVE  ReceivedCellNow(x, d, ToSet(hand'[x][d]) \cup ToSet(recvq'[x][d]))
  BY <1>1, <1>2, <1>4, ReceivedStays
<1>. QED BY <1>3, <1>4, ReceivedCells

\* What is dispatched comes behind all that was received from its sender, and
\* nothing for the node lies between.
LEMMA DispatchReceived ==
  ASSUME TypeOK, TypeOK', LoopInv, SendInv, TransitInv, OrderInv, ReceivedInv, LogKept, PolledGrows,
         NEW n \in Node, Dispatch(n)
  PROVE  ReceivedInv'
<1>1. PICK m \in Message :
        /\ m = Head(inbox[n]) /\ Enqueue(n, m)
        /\ arrived' = [arrived EXCEPT ![m.chan][n][m.from] = m.num]
  BY DispatchEffect
<1>. DEFINE c == m.chan  q == recvq[n][c]  S == Received(n, c)
<1>2. hand' = hand /\ handled' = handled
  BY DEF Dispatch
<1>3. /\ m \in InTransit(m.from, n)
      /\ \A l \in InTransit(m.from, n) : l = m \/ l \in InTransit(m.from, n)'
      /\ \A l \in InTransit(m.from, n)' : Ordered(m, l)
  BY <1>1, DispatchFirst
<1>4. c \in Chan /\ m.from \in Node /\ m.num \in Nat
  BY MessageFields
<1>5. \A d \in Chan, x, i \in Node :
        arrived'[d][x][i] = IF d = c /\ x = n /\ i = m.from THEN m.num ELSE arrived[d][x][i]
  <2>1. arrived \in [Chan -> [Node -> [Node -> Nat]]]
    BY DEF TypeOK
  <2>. QED BY <1>1, <1>4, <2>1
<1>6. /\ m.from \in Node /\ Logged(m) /\ Reaches(m, n)
      /\ arrived[c][n][m.from] < m.num /\ m.num <= Polled(c, m.from)
      /\ \A p \in (arrived[c][n][m.from] + 1)..Polled(c, m.from) :
           Reaches(log[c][m.from][p], n) => \E l \in InTransit(m.from, n) : l.chan = c /\ l.num = p
  BY <1>3, <1>4, TransitCells DEF TransitCell
<1>7. \/ m.type = "eof" /\ recvq' = recvq /\ failed' = failed
      \/ m.type # "eof" /\ recvq' = recvq /\ failed' = [failed EXCEPT ![n][c] = TRUE]
      \/ m.type # "eof" /\ recvq' = [recvq EXCEPT ![n][c] = Append(q, m)] /\ failed' = failed
  BY <1>1 DEF Enqueue
<1>8. /\ recvq \in [Node -> [Chan -> MessageQueue]] /\ failed \in [Node -> [Chan -> BOOLEAN]]
      /\ q \in MessageQueue /\ q \in Seq(Message)
  BY <1>4 DEF TypeOK, MessageQueue
<1>. HIDE DEF c
<1>9. /\ \A x \in Node, d \in Chan : failed[x][d] => failed'[x][d]
      /\ \A x \in Node, d \in Chan : ~(x = n /\ d = c) => recvq'[x][d] = recvq[x][d]
      /\ m.type = "eof" => recvq'[n][c] = q
      /\ m.type # "eof" => recvq'[n][c] = Append(q, m) \/ (recvq'[n][c] = q /\ failed'[n][c])
  BY <1>4, <1>7, <1>8
<1>10. ASSUME NEW x \in Node, NEW d \in Chan, ~(x = n /\ d = c)
       PROVE  ReceivedCellNow(x, d, ToSet(hand'[x][d]) \cup ToSet(recvq'[x][d]))
  <2>1. \A i \in Node : handled'[d][x][i] = handled[d][x][i] /\ arrived'[d][x][i] = arrived[d][x][i]
    BY <1>2, <1>5, <1>10
  <2>. QED BY <1>2, <1>9, <1>10, <2>1, ReceivedStays
<1>11. ReceivedCell(n, c) /\ S \subseteq Message /\ S = ToSet(hand[n][c]) \cup ToSet(q)
  BY <1>4, ReceivedCells, ReceivedTypes DEF Received
<1>12. ToSet(Append(q, m)) = ToSet(q) \cup {m} /\ Append(q, m) \in Seq(Message)
  BY <1>8, AppendFacts
<1>13. \A l \in S : Ordered(l, m)
  <2>. SUFFICES ASSUME NEW l \in S, l.from = m.from PROVE l.num < m.num
    BY DEF Ordered
  <2>1. l.num <= arrived[c][n][m.from] /\ l.num \in Nat /\ arrived[c][n][m.from] \in Nat
    BY <1>4, <1>11, CursorFacts, MessageFields DEF ReceivedCell
  <2>. QED BY <1>4, <1>6, <2>1
<1>14. InOrder(q) /\ Precedes(ToSet(hand[n][c]), ToSet(q)) /\ Len(hand[n][c]) <= 1
  BY <1>11 DEF ReceivedCell
<1>15. InOrder(Append(q, m)) /\ Precedes(ToSet(hand[n][c]), ToSet(Append(q, m)))
  BY <1>8, <1>11, <1>12, <1>13, <1>14, InOrderAppend DEF Precedes
<1>. HIDE DEF S, q
<1>. DEFINE R == ToSet(hand'[n][c]) \cup ToSet(recvq'[n][c])
<1>16. /\ R = S \/ (R = S \cup {m} /\ m.type # "eof")
       /\ m.type # "eof" /\ ~failed'[n][c] => m \in R
       /\ S \subseteq R
       /\ InOrder(recvq'[n][c]) /\ Precedes(ToSet(hand'[n][c]), ToSet(recvq'[n][c])) /\ Len(hand'[n][c]) <= 1
  <2>1. CASE recvq'[n][c] = Append(q, m) /\ m.type # "eof"
    BY <1>2, <1>11, <1>12, <1>14, <1>15, <2>1
  <2>2. CASE recvq'[n][c] = q /\ (m.type = "eof" \/ failed'[n][c])
    BY <1>2, <1>11, <1>14, <2>2
  <2>. QED BY <1>9, <2>1, <2>2
<1>. HIDE DEF R
<1>17. ASSUME NEW l \in R
       PROVE  /\ l.chan = c /\ l.type # "eof" /\ LoggedNow(l) /\ Reaches(l, n)
              /\ handled'[c][n][l.from] < l.num /\ l.num <= arrived'[c][n][l.from]
  <2>1. CASE l \in S
    <3>1. l \in Message /\ l.from \in Node /\ l.num \in Nat
      BY <1>11, <2>1, MessageFields
    <3>2. /\ l.chan = c /\ l.type # "eof" /\ Logged(l) /\ Reaches(l, n)
          /\ handled[c][n][l.from] < l.num /\ l.num <= arrived[c][n][l.from]
      BY <1>11, <2>1 DEF ReceivedCell, S
    <3>3. l.num <= arrived'[c][n][l.from]
      <4>1. CASE l.from = m.from
        <5>1. arrived[c][n][l.from] \in Nat
          BY <1>4, <3>1, CursorFacts
        <5>. QED BY <1>4, <1>5, <1>6, <3>1, <3>2, <4>1, <5>1
      <4>2. CASE l.from # m.from
        BY <1>4, <1>5, <3>1, <3>2, <4>2
      <4>. QED BY <4>1, <4>2
    <3>. QED BY <1>2, <3>1, <3>2, <3>3, LoggedKept
  <2>2. CASE l = m /\ m.type # "eof"
    <3>1. handled[c][n][m.from] < m.num /\ arrived'[c][n][m.from] = m.num
      <4>1. /\ handled[c][n][m.from] \in Nat /\ arrived[c][n][m.from] \in Nat
            /\ handled[c][n][m.from] <= arrived[c][n][m.from]
        BY <1>4, CursorFacts
      <4>. QED BY <1>4, <1>5, <1>6, <4>1
    <3>2. LoggedNow(m) /\ m.num <= m.num
      BY <1>4, <1>6, LoggedKept
    <3>. QED BY <1>2, <1>6, <2>2, <3>1, <3>2 DEF c
  <2>. QED BY <1>16, <2>1, <2>2
<1>18. ASSUME NEW i \in Node
       PROVE  /\ handled'[c][n][i] <= arrived'[c][n][i] /\ arrived'[c][n][i] <= Polled(c, i)'
              /\ ~failed'[n][c] => \A p \in (handled'[c][n][i] + 1)..arrived'[c][n][i] :
                   Reaches(log'[c][i][p], n) /\ log'[c][i][p].type # "eof" =>
                     \E l \in R : l.from = i /\ l.num = p
  <2>1. /\ handled[c][n][i] \in Nat /\ arrived[c][n][i] \in Nat /\ Polled(c, i) \in Nat /\ Polled(c, i)' \in Nat
        /\ arrived[c][n][i] <= Polled(c, i) /\ Polled(c, i) <= Polled(c, i)'
        /\ Polled(c, i) <= Len(log[c][i]) /\ Len(log[c][i]) \in Nat
        /\ handled[c][n][i] <= arrived[c][n][i]
    BY <1>4, CursorFacts DEF PolledGrows
  <2>2. /\ arrived'[c][n][i] \in Nat /\ arrived[c][n][i] <= arrived'[c][n][i]
        /\ arrived'[c][n][i] <= Polled(c, i)
        /\ (i = m.from => arrived'[c][n][i] = m.num)
        /\ (i # m.from => arrived'[c][n][i] = arrived[c][n][i])
    <3>1. CASE i = m.from
      BY <1>4, <1>5, <1>6, <2>1, <3>1
    <3>2. CASE i # m.from
      BY <1>4, <1>5, <2>1, <3>2
    <3>. QED BY <3>1, <3>2
  <2>3. ASSUME ~failed'[n][c], NEW p \in (handled[c][n][i] + 1)..arrived'[c][n][i],
               Reaches(log'[c][i][p], n), log'[c][i][p].type # "eof"
        PROVE  \E l \in R : l.from = i /\ l.num = p
    <3>1. p \in 1..Len(log[c][i])
      BY <2>1, <2>2
    <3>2. log'[c][i][p] = log[c][i][p]
      BY <1>4, <3>1 DEF LogKept
    <3>3. CASE p \in (handled[c][n][i] + 1)..arrived[c][n][i]
      <4>1. ~failed[n][c]
        BY <1>4, <1>9, <2>3
      <4>2. PICK l \in S : l.from = i /\ l.num = p
        BY <1>11, <2>3, <3>2, <3>3, <4>1 DEF ReceivedCell, S
      <4>. QED BY <1>16, <4>2
    <3>4. CASE i = m.from /\ p \in (arrived[c][n][i] + 1)..m.num
      <4>1. PICK l \in InTransit(m.from, n) : l.chan = c /\ l.num = p
        <5>1. p \in (arrived[c][n][m.from] + 1)..Polled(c, m.from)
          BY <2>1, <2>2, <3>4
        <5>. QED BY <1>6, <2>3, <3>2, <3>4, <5>1
      <4>2. l = m
        <5>0. l.from = m.from
          BY <1>4, <4>1, TransitCells DEF TransitCell
        <5>1. l # m => m.num < p
          BY <1>3, <4>1, <5>0 DEF Ordered, c
        <5>. QED BY <1>4, <3>4, <5>1
      <4>3. log[c][i][p].type = m.type
        BY <1>6, <3>4, <4>1, <4>2 DEF Logged, c
      <4>. QED BY <1>16, <2>3, <3>2, <3>4, <4>1, <4>2, <4>3
    <3>. QED BY <2>1, <2>2, <3>3, <3>4
  <2>4. handled'[c][n][i] <= arrived'[c][n][i] /\ arrived'[c][n][i] <= Polled(c, i)'
    BY <1>2, <2>1, <2>2
  <2>. QED BY <1>2, <2>3, <2>4
<1>19. ReceivedCellNow(n, c, R)
  BY <1>16, <1>17, <1>18 DEF ReceivedCellNow
<1>. QED BY <1>10, <1>19, ReceivedCells DEF R

-----------------------------------------------------------------------------
(* The invariant.                                                          *)

LEMMA InitInv == Init => IInv
  BY InitType, InitLoop, InitSend, InitTransit, InitReceived DEF IInv

\* Where no receive handler, and no dispatch, is concerned.
LEMMA ReceivedKept ==
  ASSUME TypeOK, TypeOK', SendInv, ReceivedInv, LogKept, PolledGrows,
         UNCHANGED <<hand, recvq, failed, handled, arrived>>
  PROVE  ReceivedInv'
<1>1. \A n \in Node, c \in Chan : ReceivedCellNow(n, c, ToSet(hand'[n][c]) \cup ToSet(recvq'[n][c]))
  BY ReceivedStays
<1>. QED BY <1>1, ReceivedCells

LEMMA MainStays ==
  ASSUME TypeOK, TypeOK', SendInv, TransitInv, OrderInv, ReceivedInv,
         NEW n \in Node, UNCHANGED <<sendq, log, inbox, hand, recvq, failed, handled, arrived>>,
         MaybeFlush(n) \/ UNCHANGED <<buf, net>>
  PROVE  SendInv' /\ TransitInv' /\ OrderInv' /\ ReceivedInv'
<1>1. SendInv' /\ LogKept /\ PolledKept /\ PolledGrows
  BY StaySend, KeptGrows
<1>2. /\ \A i, j \in Node : InNet(net'[i][j]) \cup ToSet(buf'[i][j]) = InNet(net[i][j]) \cup ToSet(buf[i][j])
      /\ \A i, j \in Node : \A q : Lined(q, net[i][j], buf[i][j]) => Lined(q, net'[i][j], buf'[i][j])
  BY MaybeFlushSets
<1>3. ASSUME NEW i \in Node, NEW j \in Node PROVE InTransit(i, j)' = InTransit(i, j)
  <2>. DEFINE h == {l \in ToSet(inbox[j]) : l.from = i}
  <2>1. /\ InTransit(i, j) = h \cup (InNet(net[i][j]) \cup ToSet(buf[i][j]))
        /\ InTransit(i, j)' = h \cup (InNet(net'[i][j]) \cup ToSet(buf'[i][j]))
    BY DEF InTransit, InNet
  <2>. HIDE DEF h
  <2>. QED BY <1>2, <2>1
<1>4. TransitInv'
  BY <1>1, <1>3, TransitKept
<1>5. OrderInv'
  BY <1>2 DEF OrderInv
<1>. QED BY <1>1, <1>4, <1>5, ReceivedKept

LEMMA NextInv == ASSUME IInv, [Next]_vars PROVE IInv'
<1>1. TypeOK /\ LoopInv /\ SendInv /\ TransitInv /\ OrderInv /\ ReceivedInv
  BY DEF IInv
<1>2. TypeOK' /\ LoopInv'
  BY <1>1, NextLoop DEF LoopOK
<1>. SUFFICES SendInv' /\ TransitInv' /\ OrderInv' /\ ReceivedInv'
  BY <1>2 DEF IInv
<1>3. ASSUME NEW n \in Node, WorkerStep(n) PROVE SendInv' /\ TransitInv' /\ OrderInv' /\ ReceivedInv'
  <2>1. UNCHANGED <<hand, recvq, failed, handled, arrived, inbox, buf, net>>
    BY <1>3 DEF WorkerStep, Send, Synchronize, PushEof, SynchronizeReturns, MarkEof, queues, loop, backend, cursors
  <2>2. SendInv' /\ LogKept /\ PolledKept /\ PolledGrows
    BY <1>1, <1>2, <1>3, OthersSend, KeptGrows
  <2>. QED BY <1>1, <1>2, <2>1, <2>2, OthersTransit, ReceivedKept
<1>4. ASSUME NEW n \in Node, NEW c \in Chan, PopReceived(n, c) \/ Handle(n, c)
      PROVE  SendInv' /\ TransitInv' /\ OrderInv' /\ ReceivedInv'
  <2>1. UNCHANGED <<arrived, inbox, buf, net>>
    BY <1>4 DEF PopReceived, Handle, HandleData, HandleSync, HandleAck, loop, backend, cursors
  <2>2. SendInv' /\ LogKept /\ PolledKept /\ PolledGrows
    BY <1>1, <1>2, <1>4, OthersSend, KeptGrows
  <2>. QED BY <1>1, <1>2, <1>4, <2>1, <2>2, OthersTransit, HandlerReceived
<1>5. ASSUME NEW n \in Node, MainStep(n) PROVE SendInv' /\ TransitInv' /\ OrderInv' /\ ReceivedInv'
  <2>1. CASE Top(n) \/ ReadEof(n) \/ ReadEmpty(n) \/ PollNext(n) \/ ReceiveNothing(n)
    <3>1. /\ UNCHANGED <<sendq, log, inbox, hand, recvq, failed, handled, arrived>>
          /\ MaybeFlush(n) \/ UNCHANGED <<buf, net>>
      BY <2>1 DEF Top, ReadEof, ReadEmpty, PollNext, ReceiveNothing, queues, loop, backend, cursors
    <3>. QED BY <1>1, <1>2, <3>1, MainStays
  <2>2. CASE Poll(n)
    <3>1. UNCHANGED <<hand, recvq, failed, handled, arrived>>
      BY <2>2 DEF Poll, cursors
    <3>2. SendInv' /\ TransitInv' /\ OrderInv'
      BY <1>1, <1>2, <2>2, PollSend, PollTransit
    <3>3. LogKept /\ PolledGrows
      <4>1. PICK c \in Chan, m \in Message :
              /\ Polled(c, n) \in Nat /\ log' = log
              /\ \A x \in Chan, i \in Node :
                   Polled(x, i)' = IF x = c /\ i = n THEN Polled(c, n) + 1 ELSE Polled(x, i)
        BY <1>1, <1>2, <2>2, PollSend
      <4>2. \A x \in Chan, i \in Node : Polled(x, i) \in Nat /\ Len(log[x][i]) \in Nat
        BY <1>1, PolledBound
      <4>3. \A x \in Chan, i \in Node : Len(log[x][i]) <= Len(log[x][i])
        BY <4>2
      <4>. QED BY <4>1, <4>2, <4>3 DEF LogKept, PolledGrows
    <3>. QED BY <1>1, <1>2, <3>1, <3>2, <3>3, ReceivedKept
  <2>3. ASSUME NEW i \in Node, Receive(n, i) PROVE SendInv' /\ TransitInv' /\ OrderInv' /\ ReceivedInv'
    <3>1. UNCHANGED <<hand, recvq, failed, handled, arrived, sendq, log>>
      BY <2>3 DEF Receive, cursors, queues
    <3>2. SendInv' /\ LogKept /\ PolledKept /\ PolledGrows
      BY <1>1, <1>2, <3>1, StaySend, KeptGrows
    <3>. QED BY <1>1, <1>2, <2>3, <3>1, <3>2, ReceiveTransit, ReceivedKept
  <2>4. CASE Dispatch(n)
    <3>1. sendq' = sendq /\ log' = log
      BY <2>4 DEF Dispatch
    <3>2. SendInv' /\ LogKept /\ PolledKept /\ PolledGrows
      BY <1>1, <1>2, <3>1, StaySend, KeptGrows
    <3>3. OrderInv'
      <4>1. PICK m \in Message : m = Head(inbox[n])
        BY <1>1, <2>4, DispatchEffect
      <4>. QED BY <1>1, <2>4, <4>1, DispatchFirst
    <3>. QED BY <1>1, <1>2, <2>4, <3>2, <3>3, DispatchTransit, DispatchReceived
  <2>. QED BY <1>5, <2>1, <2>2, <2>3, <2>4 DEF MainStep
<1>6. CASE UNCHANGED vars
  <2>1. UNCHANGED <<sendq, log, inbox, hand, recvq, failed, handled, arrived, buf, net>>
    BY <1>6 DEF vars, queues, loop, backend, cursors
  <2>2. SendInv' /\ LogKept /\ PolledKept /\ PolledGrows
    BY <1>1, <1>2, <2>1, StaySend, KeptGrows
  <2>. QED BY <1>1, <1>2, <2>1, <2>2, OthersTransit, ReceivedKept
<1>. QED BY <1>3, <1>4, <1>5, <1>6 DEF Next

\* What the invariant says at every moment of every behavior.
THEOREM Invariance == Spec => []IInv
<1>. QED BY InitInv, NextInv, PTL DEF Spec

-----------------------------------------------------------------------------
(* What is awaited is on the way.                                          *)

LEMMA PairFacts ==
  ASSUME NEW b \in MessageQueue, NEW s \in MessageQueue
  PROVE  /\ <<b, s>> \in Seq(MessageQueue) /\ InNet(<<b, s>>) = ToSet(b) \cup ToSet(s)
         /\ InOrder(b) /\ InOrder(s) /\ Precedes(ToSet(b), ToSet(s)) => InLine(<<b, s>>)
<1>. DEFINE t == <<b, s>>
<1>1. t \in Seq(MessageQueue) /\ Len(t) = 2 /\ t[1] = b /\ t[2] = s
  OBVIOUS
<1>2. \A x \in 1..2 : x = 1 \/ x = 2
  OBVIOUS
<1>. HIDE DEF t
<1>3. InNet(t) = ToSet(b) \cup ToSet(s)
  <2>1. ToSet(b) \subseteq InNet(t) /\ ToSet(s) \subseteq InNet(t)
    BY <1>1, InNetFacts
  <2>2. \A m \in InNet(t) : m \in ToSet(b) \/ m \in ToSet(s)
    BY <1>1, <1>2, InNetFacts
  <2>. QED BY <2>1, <2>2
<1>4. ASSUME InOrder(b), InOrder(s), Precedes(ToSet(b), ToSet(s)) PROVE InLine(t)
  <2>1. \A x \in 1..2 : InOrder(t[x])
    BY <1>1, <1>2, <1>4
  <2>2. \A x, y \in 1..2 : x < y => Precedes(ToSet(t[x]), ToSet(t[y]))
    <3>1. \A x, y \in 1..2 : x < y => x = 1 /\ y = 2
      OBVIOUS
    <3>. QED BY <1>1, <1>4, <3>1
  <2>. QED BY <1>1, <2>1, <2>2, InLineSets
<1>. QED BY <1>1, <1>3, <1>4 DEF t

LEMMA TripleFacts ==
  ASSUME NEW h \in MessageQueue, NEW r \in MessageQueue, NEW q \in MessageQueue
  PROVE  /\ <<h, r, q>> \in Seq(MessageQueue) /\ InNet(<<h, r, q>>) = ToSet(h) \cup ToSet(r) \cup ToSet(q)
         /\ /\ InOrder(h) /\ InOrder(r) /\ InOrder(q)
            /\ Precedes(ToSet(h), ToSet(r)) /\ Precedes(ToSet(h), ToSet(q)) /\ Precedes(ToSet(r), ToSet(q))
            => InLine(<<h, r, q>>)
<1>. DEFINE t == <<h, r, q>>
<1>1. t \in Seq(MessageQueue) /\ Len(t) = 3 /\ t[1] = h /\ t[2] = r /\ t[3] = q
  OBVIOUS
<1>2. \A x \in 1..3 : x = 1 \/ x = 2 \/ x = 3
  OBVIOUS
<1>. HIDE DEF t
<1>3. InNet(t) = ToSet(h) \cup ToSet(r) \cup ToSet(q)
  <2>1. ToSet(h) \subseteq InNet(t) /\ ToSet(r) \subseteq InNet(t) /\ ToSet(q) \subseteq InNet(t)
    BY <1>1, InNetFacts
  <2>2. \A m \in InNet(t) : m \in ToSet(h) \/ m \in ToSet(r) \/ m \in ToSet(q)
    BY <1>1, <1>2, InNetFacts
  <2>. QED BY <2>1, <2>2
<1>4. ASSUME InOrder(h), InOrder(r), InOrder(q),
             Precedes(ToSet(h), ToSet(r)), Precedes(ToSet(h), ToSet(q)), Precedes(ToSet(r), ToSet(q))
      PROVE  InLine(t)
  <2>1. \A x \in 1..3 : InOrder(t[x])
    BY <1>1, <1>2, <1>4
  <2>2. \A x, y \in 1..3 : x < y => Precedes(ToSet(t[x]), ToSet(t[y]))
    <3>1. \A x, y \in 1..3 : x < y => (x = 1 /\ y = 2) \/ (x = 1 /\ y = 3) \/ (x = 2 /\ y = 3)
      OBVIOUS
    <3>. QED BY <1>1, <1>4, <3>1
  <2>. QED BY <1>1, <2>1, <2>2, InLineSets
<1>. QED BY <1>1, <1>3, <1>4 DEF t

\* The stages are those of the two cursors: what has arrived, what was polled
\* and has not arrived, what was not polled.
LEMMA CursorSplit ==
  ASSUME IInv, NEW c \in Chan, NEW i \in Node, NEW j \in Node
  PROVE  /\ \A m \in Received(j, c) :
              m \in Message /\ m.num <= arrived[m.chan][j][m.from] /\ m.num <= Polled(m.chan, m.from)
         /\ \A m \in ToSet(inbox[j]) \cup InNet(net[i][j]) \cup ToSet(buf[i][j]) :
              m \in Message /\ arrived[m.chan][j][m.from] < m.num /\ m.num <= Polled(m.chan, m.from)
         /\ \A m \in ToSet(sendq[i][c]) : m \in Message /\ Polled(m.chan, m.from) < m.num
         /\ \A d \in Chan, k \in Node : arrived[d][j][k] \in Nat /\ Polled(d, k) \in Nat
<1>1. TypeOK /\ SendInv /\ TransitInv /\ ReceivedInv
  BY DEF IInv
<1>2. \A d \in Chan, k \in Node :
        arrived[d][j][k] \in Nat /\ Polled(d, k) \in Nat /\ arrived[d][j][k] <= Polled(d, k)
  BY <1>1, CursorFacts
<1>3. ASSUME NEW m \in Received(j, c)
      PROVE  m \in Message /\ m.num <= arrived[m.chan][j][m.from] /\ m.num <= Polled(m.chan, m.from)
  <2>1. m \in Message /\ m.chan \in Chan /\ m.from \in Node /\ m.num \in Nat
    BY <1>1, ReceivedTypes, MessageFields
  <2>2. m.num <= arrived[m.chan][j][m.from]
    BY <1>1, ReceivedCells DEF ReceivedCell
  <2>. QED BY <1>2, <2>1, <2>2
<1>4. ASSUME NEW m \in ToSet(inbox[j]) \cup InNet(net[i][j]) \cup ToSet(buf[i][j])
      PROVE  m \in Message /\ arrived[m.chan][j][m.from] < m.num /\ m.num <= Polled(m.chan, m.from)
  <2>1. m \in Message /\ m.from \in Node
    BY <1>1, TransitTypes, MessageFields
  <2>2. PICK k \in Node : m \in InTransit(k, j)
    <3>1. CASE m \in ToSet(inbox[j])
      BY <1>1, <2>1, <3>1, TransitSets
    <3>2. CASE m \in InNet(net[i][j]) \cup ToSet(buf[i][j])
      BY <1>1, <3>2, TransitSets
    <3>. QED BY <3>1, <3>2
  <2>. QED BY <1>1, <2>1, <2>2, TransitCells DEF TransitCell
<1>5. ASSUME NEW m \in ToSet(sendq[i][c]) PROVE m \in Message /\ Polled(m.chan, m.from) < m.num
  <2>1. sendq[i][c] \in Seq(Message)
    BY <1>1, LogFacts
  <2>2. PICK k \in 1..Len(sendq[i][c]) : m = sendq[i][c][k]
    BY <2>1, SeqFacts
  <2>3. m.chan = c /\ m.from = i /\ m.num = Polled(c, i) + k /\ k \in Nat /\ k > 0
    BY <1>1, <2>1, <2>2, SendCells, SeqFacts DEF SendCell
  <2>4. m \in Message
    BY <2>1, <2>2, SeqFacts
  <2>. QED BY <1>2, <2>3, <2>4
<1>. QED BY <1>2, <1>3, <1>4, <1>5

LEMMA StagesFacts ==
  ASSUME IInv, NEW c \in Chan, NEW i \in Node, NEW j \in Node
  PROVE  /\ InLine(Stages(c, i, j))
         /\ UNION {ToSet(Stages(c, i, j)[x]) : x \in DOMAIN Stages(c, i, j)}
              = Received(j, c) \cup ToSet(inbox[j]) \cup InNet(net[i][j]) \cup ToSet(buf[i][j]) \cup ToSet(sendq[i][c])
<1>. DEFINE h == hand[j][c]  r == recvq[j][c]  q == inbox[j]  n == net[i][j]  b == buf[i][j]  s == sendq[i][c]
            front == <<h, r, q>>  back == <<b, s>>
<1>1. /\ TypeOK /\ SendInv /\ OrderInv /\ ReceivedInv
      /\ h \in MessageQueue /\ r \in MessageQueue /\ q \in MessageQueue
      /\ n \in Seq(MessageQueue) /\ b \in MessageQueue /\ s \in MessageQueue
  BY ReceivedTypes, TransitTypes, LogFacts DEF IInv, MessageQueue
<1>2. /\ Received(j, c) = ToSet(h) \cup ToSet(r)
      /\ Stages(c, i, j) = front \o n \o back
  BY DEF Received, Stages
<1>3. /\ InOrder(h) /\ InOrder(r) /\ Precedes(ToSet(h), ToSet(r))
  <2>1. Len(h) <= 1 /\ InOrder(r) /\ Precedes(ToSet(h), ToSet(r))
    BY <1>1, ReceivedCells DEF ReceivedCell
  <2>2. InOrder(h)
    <3>1. DOMAIN h = 1..Len(h) /\ Len(h) \in Nat
      BY <1>1, SeqFacts DEF MessageQueue
    <3>. HIDE DEF h
    <3>2. \A k, l \in DOMAIN h : ~(k < l)
      BY <2>1, <3>1
    <3>. QED BY <3>2 DEF InOrder
  <2>. QED BY <2>1, <2>2
<1>4. /\ InOrder(q) /\ InLine(n) /\ InOrder(b)
      /\ Precedes(ToSet(q), ToSet(b)) /\ Precedes(ToSet(q), InNet(n)) /\ Precedes(InNet(n), ToSet(b))
  <2>1. Lined(q, n, b)
    BY <1>1 DEF OrderInv
  <2>. QED BY <2>1, LinedSets
<1>5. InOrder(s)
  <2>1. DOMAIN s = 1..Len(s) /\ \A k \in 1..Len(s) : s[k].num = Polled(c, i) + k
    BY <1>1, SendCells, LogFacts DEF SendCell
  <2>2. Polled(c, i) \in Int /\ Len(s) \in Nat
    BY <1>1, LogFacts
  <2>. HIDE DEF s
  <2>3. \A k, l \in 1..Len(s) : k < l => Polled(c, i) + k < Polled(c, i) + l
    BY <2>2
  <2>. QED BY <2>1, <2>3 DEF InOrder, Ordered
<1>6. /\ \A m \in ToSet(h) \cup ToSet(r) :
           m \in Message /\ m.num <= arrived[m.chan][j][m.from] /\ m.num <= Polled(m.chan, m.from)
      /\ \A m \in ToSet(q) \cup InNet(n) \cup ToSet(b) :
           m \in Message /\ arrived[m.chan][j][m.from] < m.num /\ m.num <= Polled(m.chan, m.from)
      /\ \A m \in ToSet(s) : m \in Message /\ Polled(m.chan, m.from) < m.num
      /\ \A d \in Chan, k \in Node : arrived[d][j][k] \in Nat /\ Polled(d, k) \in Nat
  BY <1>2, CursorSplit
<1>7. \A m \in Message : m.chan \in Chan /\ m.from \in Node /\ m.num \in Nat
  BY MessageFields
<1>. HIDE DEF h, r, q, n, b, s
<1>8. Precedes(ToSet(h) \cup ToSet(r), ToSet(q) \cup InNet(n) \cup ToSet(b))
  <2>. SUFFICES ASSUME NEW m \in ToSet(h) \cup ToSet(r), NEW l \in ToSet(q) \cup InNet(n) \cup ToSet(b),
                       m.chan = l.chan, m.from = l.from
                PROVE  m.num < l.num
    BY DEF Precedes, Ordered
  <2>1. m \in Message /\ l \in Message /\ m.num <= arrived[m.chan][j][m.from] /\ arrived[m.chan][j][m.from] < l.num
    BY <1>6
  <2>. QED BY <1>6, <1>7, <2>1
<1>9. Precedes(ToSet(h) \cup ToSet(r) \cup ToSet(q) \cup InNet(n) \cup ToSet(b), ToSet(s))
  <2>. SUFFICES ASSUME NEW m \in ToSet(h) \cup ToSet(r) \cup ToSet(q) \cup InNet(n) \cup ToSet(b), NEW l \in ToSet(s),
                       m.chan = l.chan, m.from = l.from
                PROVE  m.num < l.num
    BY DEF Precedes, Ordered
  <2>1. m \in Message /\ l \in Message /\ m.num <= Polled(m.chan, m.from) /\ Polled(m.chan, m.from) < l.num
    BY <1>6
  <2>. QED BY <1>6, <1>7, <2>1
<1>10. /\ front \in Seq(MessageQueue) /\ InNet(front) = ToSet(h) \cup ToSet(r) \cup ToSet(q) /\ InLine(front)
       /\ back \in Seq(MessageQueue) /\ InNet(back) = ToSet(b) \cup ToSet(s) /\ InLine(back)
  <2>1. Precedes(ToSet(h), ToSet(q)) /\ Precedes(ToSet(r), ToSet(q))
    BY <1>8 DEF Precedes
  <2>2. Precedes(ToSet(b), ToSet(s))
    BY <1>9 DEF Precedes
  <2>. QED BY <1>1, <1>3, <1>4, <1>5, <2>1, <2>2, PairFacts, TripleFacts
<1>. HIDE DEF front, back
<1>11. /\ front \o n \in Seq(MessageQueue) /\ InNet(front \o n) = InNet(front) \cup InNet(n)
       /\ InLine(front \o n)
  <2>1. Precedes(InNet(front), InNet(n))
    BY <1>4, <1>8, <1>10 DEF Precedes
  <2>2. front \o n \in Seq(MessageQueue)
    BY <1>1, <1>10, ConcatFacts
  <2>. QED BY <1>1, <1>4, <1>10, <2>1, <2>2, InNetConcat, InLineConcat
<1>12. /\ InLine(front \o n \o back)
       /\ InNet(front \o n \o back) = InNet(front) \cup InNet(n) \cup InNet(back)
  <2>1. Precedes(InNet(front \o n), InNet(back))
    BY <1>4, <1>8, <1>9, <1>10, <1>11 DEF Precedes
  <2>. QED BY <1>10, <1>11, <2>1, InNetConcat, InLineConcat
<1>13. InNet(Stages(c, i, j)) = Received(j, c) \cup ToSet(q) \cup InNet(n) \cup ToSet(b) \cup ToSet(s)
  <2>1. InNet(Stages(c, i, j)) = InNet(front) \cup InNet(n) \cup InNet(back)
    BY <1>2, <1>12
  <2>. QED BY <1>2, <1>10, <2>1
<1>14. InNet(Stages(c, i, j)) = UNION {ToSet(Stages(c, i, j)[x]) : x \in DOMAIN Stages(c, i, j)}
  BY DEF InNet
<1>15. InLine(Stages(c, i, j))
  BY <1>2, <1>12
<1>. QED BY <1>13, <1>14, <1>15 DEF q, n, b, s

\* No message is on the way that is not awaited ...
LEMMA OnTheWayAwaited ==
  ASSUME IInv, NEW c \in Chan, NEW i \in Node, NEW j \in Node
  PROVE  {m.num : m \in OnTheWay(c, i, j)} \subseteq Awaited(c, i, j)
<1>1. TypeOK /\ SendInv /\ TransitInv /\ ReceivedInv
  BY DEF IInv
<1>2. /\ handled[c][j][i] \in Nat /\ arrived[c][j][i] \in Nat /\ Polled(c, i) \in Nat
      /\ handled[c][j][i] <= arrived[c][j][i] /\ arrived[c][j][i] <= Polled(c, i)
  BY <1>1, CursorFacts
<1>. SUFFICES ASSUME NEW m \in OnTheWay(c, i, j) PROVE m.num \in Awaited(c, i, j)
  OBVIOUS
<1>3. /\ m.chan = c /\ m.from = i /\ Reaches(m, j)
      /\ m \in Received(j, c) \cup ToSet(inbox[j]) \cup InNet(net[i][j]) \cup ToSet(buf[i][j]) \cup ToSet(sendq[i][c])
  BY StagesFacts DEF OnTheWay
<1>4. /\ m \in Message /\ Logged(m) /\ handled[c][j][i] < m.num
      /\ m.type = "eof" => arrived[c][j][i] < m.num
  <2>1. CASE m \in Received(j, c)
    BY <1>1, <1>3, <2>1, ReceivedCells, ReceivedTypes DEF ReceivedCell
  <2>2. CASE m \in ToSet(inbox[j]) \cup InNet(net[i][j]) \cup ToSet(buf[i][j])
    <3>1. m \in InTransit(i, j)
      BY <1>1, <1>3, <2>2, TransitSets
    <3>2. m \in Message /\ Logged(m) /\ arrived[c][j][i] < m.num
      BY <1>1, <1>3, <3>1, TransitSets, TransitCells DEF TransitCell
    <3>3. m.num \in Nat
      BY <3>2, MessageFields
    <3>. QED BY <1>2, <3>2, <3>3
  <2>3. CASE m \in ToSet(sendq[i][c])
    <3>1. m \in Message /\ Polled(c, i) < m.num
      BY <1>3, <2>3, CursorSplit
    <3>2. Logged(m)
      <4>1. sendq[i][c] \in Seq(Message) /\ SendCell(i, c)
        BY <1>1, LogFacts, SendCells
      <4>2. PICK k \in 1..Len(sendq[i][c]) : m = sendq[i][c][k]
        BY <2>3, <4>1, SeqFacts
      <4>. QED BY <4>1, <4>2 DEF SendCell
    <3>3. m.num \in Nat
      BY <3>1, MessageFields
    <3>. QED BY <1>2, <3>1, <3>2, <3>3
  <2>. QED BY <1>3, <2>1, <2>2, <2>3
<1>. QED BY <1>3, <1>4 DEF Logged, Awaited, Reaches

\* ... and all that is awaited is, unless the handler has thrown.
LEMMA AwaitedOnTheWay ==
  ASSUME IInv, NEW c \in Chan, NEW i \in Node, NEW j \in Node, ~failed[j][c]
  PROVE  Awaited(c, i, j) \subseteq {m.num : m \in OnTheWay(c, i, j)}
<1>1. TypeOK /\ SendInv /\ TransitInv /\ ReceivedInv
  BY DEF IInv
<1>2. /\ handled[c][j][i] \in Nat /\ arrived[c][j][i] \in Nat /\ Polled(c, i) \in Nat
      /\ Len(log[c][i]) \in Nat /\ Len(sendq[i][c]) \in Nat
      /\ Polled(c, i) = Len(log[c][i]) - Len(sendq[i][c])
  BY <1>1, CursorFacts, LogFacts DEF Polled
<1>. SUFFICES ASSUME NEW p \in Awaited(c, i, j)
              PROVE  \E m \in OnTheWay(c, i, j) : m.num = p
  OBVIOUS
<1>3. /\ p \in 1..Len(log[c][i]) /\ p > handled[c][j][i] /\ Reaches(log[c][i][p], j)
      /\ log[c][i][p].type = "eof" => p > arrived[c][j][i]
  BY DEF Awaited
<1>4. p \in Nat
  BY <1>2, <1>3
<1>5. \/ p <= arrived[c][j][i] /\ p \in (handled[c][j][i] + 1)..arrived[c][j][i]
      \/ p > arrived[c][j][i] /\ p \in (arrived[c][j][i] + 1)..Polled(c, i)
      \/ \E k \in 1..Len(sendq[i][c]) : p = Polled(c, i) + k
  <2>. DEFINE h == handled[c][j][i]  a == arrived[c][j][i]  b == Polled(c, i)
              k == Len(sendq[i][c])  l == Len(log[c][i])
  <2>1. h \in Nat /\ a \in Nat /\ b \in Nat /\ k \in Nat /\ l \in Nat /\ b = l - k
    BY <1>2
  <2>2. p > h /\ p <= l
    BY <1>2, <1>3
  <2>. HIDE DEF h, a, b, k, l
  <2>3. CASE p > b
    <3>1. p - b \in 1..k /\ p = b + (p - b)
      BY <1>4, <2>1, <2>2, <2>3
    <3>2. \E x \in 1..k : p = b + x
      BY <3>1
    <3>. QED BY <3>2 DEF b, k
  <2>4. CASE p <= b
    <3>1. (p <= a /\ p \in (h + 1)..a) \/ (p > a /\ p \in (a + 1)..b)
      BY <1>4, <2>1, <2>2, <2>4
    <3>. QED BY <3>1 DEF h, a, b
  <2>5. p > b \/ p <= b
    BY <1>4, <2>1
  <2>. QED BY <2>3, <2>4, <2>5
<1>6. PICK m \in Received(j, c) \cup ToSet(inbox[j]) \cup InNet(net[i][j]) \cup ToSet(buf[i][j]) \cup ToSet(sendq[i][c]) :
        m.chan = c /\ m.from = i /\ m.num = p /\ Reaches(m, j)
  <2>1. CASE p <= arrived[c][j][i] /\ p \in (handled[c][j][i] + 1)..arrived[c][j][i]
    <3>1. log[c][i][p].type # "eof"
      BY <1>2, <1>3, <1>4, <2>1
    <3>2. ReceivedCell(j, c)
      BY <1>1, ReceivedCells
    <3>3. PICK m \in Received(j, c) : m.from = i /\ m.num = p
      BY <1>3, <2>1, <3>1, <3>2 DEF ReceivedCell
    <3>. QED BY <3>2, <3>3 DEF ReceivedCell
  <2>2. CASE p \in (arrived[c][j][i] + 1)..Polled(c, i)
    <3>1. TransitCell(i, j)
      BY <1>1, TransitCells
    <3>2. PICK m \in InTransit(i, j) : m.chan = c /\ m.num = p
      BY <1>3, <2>2, <3>1 DEF TransitCell
    <3>3. m \in ToSet(inbox[j]) \cup InNet(net[i][j]) \cup ToSet(buf[i][j])
      BY <1>1, <3>2, TransitSets
    <3>. QED BY <3>1, <3>2, <3>3 DEF TransitCell
  <2>3. CASE \E k \in 1..Len(sendq[i][c]) : p = Polled(c, i) + k
    <3>1. PICK k \in 1..Len(sendq[i][c]) : p = Polled(c, i) + k
      BY <2>3
    <3>. DEFINE m == sendq[i][c][k]
    <3>2. sendq[i][c] \in Seq(Message) /\ SendCell(i, c)
      BY <1>1, LogFacts, SendCells
    <3>3. m \in ToSet(sendq[i][c])
      BY <3>1, <3>2, SeqFacts
    <3>4. m.chan = c /\ m.from = i /\ m.num = p /\ Logged(m)
      BY <3>1, <3>2 DEF SendCell
    <3>. HIDE DEF m
    <3>5. Reaches(m, j)
      BY <1>3, <3>4 DEF Logged, Reaches
    <3>. QED BY <3>3, <3>4, <3>5
  <2>. QED BY <1>5, <2>1, <2>2, <2>3
<1>. QED BY <1>6, StagesFacts DEF OnTheWay

\* A receive handler has thrown (receive(), communicator.inl:219-227).
Thrown == \E n \in Node, c \in Chan : failed[n][c]

\* Nothing is on the way twice, out of order, or after it was handled: what is
\* there is awaited, and in the order of the pushes.
OnceAndInOrder ==
  \A c \in Chan, i, j \in Node :
    /\ {m.num : m \in OnTheWay(c, i, j)} \subseteq Awaited(c, i, j)
    /\ InLine(Stages(c, i, j))

\* No message is duplicated or reordered by the queues, the buffers and the main
\* loops, with any number of nodes, channels and workers.
THEOREM Duplicates == Spec => []OnceAndInOrder
<1>1. IInv => OnceAndInOrder
  BY OnTheWayAwaited, StagesFacts DEF OnceAndInOrder
<1>. QED BY <1>1, Invariance, PTL

\* communicator.h:24, "no data is lost", until a receive handler throws.
THEOREM NothingIsLost == Spec => [](Thrown \/ NothingLost)
<1>1. ASSUME IInv, ~Thrown PROVE NothingLost
  <2>1. \A n \in Node, c \in Chan : ~failed[n][c]
    BY <1>1 DEF Thrown
  <2>2. ASSUME NEW c \in Chan, NEW i \in Node, NEW j \in Node
        PROVE  {m.num : m \in OnTheWay(c, i, j)} = Awaited(c, i, j) /\ InLine(Stages(c, i, j))
    BY <1>1, <2>1, AwaitedOnTheWay, OnTheWayAwaited, StagesFacts
  <2>. QED BY <2>2 DEF NothingLost
<1>. QED BY <1>1, Invariance, PTL
-----------------------------------------------------------------------------
(* Counting the entries of a log.                                          *)

\* The entries of type t up to position h of s.
CountUpto(t, s, h) == Cardinality({p \in 1..h : s[p].type = t})

\* Counting up to one position further.
LEMMA CountStep ==
  ASSUME NEW t, NEW s, NEW h \in Nat
  PROVE  /\ CountUpto(t, s, h) \in Nat
         /\ CountUpto(t, s, h + 1) = CountUpto(t, s, h) + (IF s[h + 1].type = t THEN 1 ELSE 0)
<1>. DEFINE S == {p \in 1..h : s[p].type = t}
            T == {p \in 1..(h + 1) : s[p].type = t}
<1>1. IsFiniteSet(S) /\ Cardinality(S) \in Nat
  <2>1. IsFiniteSet(1..h)
    BY FS_Interval
  <2>. QED BY <2>1, FS_Subset, FS_CardinalityType
<1>2. CASE s[h + 1].type = t
  <2>1. T = S \cup {h + 1} /\ h + 1 \notin S
    BY <1>2
  <2>2. Cardinality(S \cup {h + 1}) = Cardinality(S) + 1
    BY <1>1, <2>1, FS_AddElement
  <2>. QED BY <1>1, <1>2, <2>1, <2>2 DEF CountUpto
<1>3. CASE s[h + 1].type # t
  <2>1. T = S
    BY <1>3
  <2>. QED BY <1>1, <1>3, <2>1 DEF CountUpto
<1>. QED BY <1>2, <1>3

\* Only the entries up to the position count.
LEMMA CountSame ==
  ASSUME NEW t, NEW s, NEW r, NEW h \in Nat, \A p \in 1..h : s[p] = r[p]
  PROVE  CountUpto(t, s, h) = CountUpto(t, r, h)
<1>1. {p \in 1..h : s[p].type = t} = {p \in 1..h : r[p].type = t}
  OBVIOUS
<1>. QED BY <1>1 DEF CountUpto

\* Entries of other types do not.
LEMMA CountSkips ==
  ASSUME NEW t, NEW s, NEW h \in Nat, NEW k \in Nat, h <= k, \A p \in (h + 1)..k : s[p].type # t
  PROVE  CountUpto(t, s, k) = CountUpto(t, s, h)
<1>1. {p \in 1..k : s[p].type = t} = {p \in 1..h : s[p].type = t}
  OBVIOUS
<1>. QED BY <1>1 DEF CountUpto

\* CountOf counts them all; of a prefix, those up to its end.
LEMMA CountPrefix ==
  ASSUME NEW T, NEW t, NEW s \in Seq(T), NEW h \in Nat, h <= Len(s)
  PROVE  /\ CountOf(t, s) = CountUpto(t, s, Len(s))
         /\ CountOf(t, SubSeq(s, 1, h)) = CountUpto(t, s, h)
<1>1. Len(SubSeq(s, 1, h)) = h /\ \A p \in 1..h : SubSeq(s, 1, h)[p] = s[p]
  OBVIOUS
<1>2. {p \in 1..h : SubSeq(s, 1, h)[p].type = t} = {p \in 1..h : s[p].type = t}
  BY <1>1
<1>. QED BY <1>1, <1>2 DEF CountOf, CountUpto

\* A push counts one more of its type, and nothing in what was pushed before.
LEMMA CountAppend ==
  ASSUME NEW T, NEW t, NEW s \in Seq(T), NEW e \in T, NEW h \in Nat, h <= Len(s)
  PROVE  /\ CountOf(t, s) \in Nat
         /\ CountOf(t, Append(s, e)) = CountOf(t, s) + (IF e.type = t THEN 1 ELSE 0)
         /\ CountOf(t, SubSeq(Append(s, e), 1, h)) = CountOf(t, SubSeq(s, 1, h))
<1>0. PICK a : a = Append(s, e)
  OBVIOUS
<1>1. /\ Len(s) \in Nat /\ Len(a) = Len(s) + 1 /\ a \in Seq(T)
      /\ \A k \in 1..Len(s) : a[k] = s[k]
      /\ a[Len(s) + 1] = e
  BY <1>0, AppendFacts
<1>2. /\ CountOf(t, s) = CountUpto(t, s, Len(s)) /\ CountOf(t, SubSeq(s, 1, h)) = CountUpto(t, s, h)
  BY <1>1, CountPrefix
<1>3. /\ CountOf(t, a) = CountUpto(t, a, Len(s) + 1) /\ CountOf(t, SubSeq(a, 1, h)) = CountUpto(t, a, h)
  <2>1. h <= Len(a)
    BY <1>1
  <2>. QED BY <1>1, <2>1, CountPrefix
<1>4. CountUpto(t, a, Len(s)) = CountUpto(t, s, Len(s)) /\ CountUpto(t, a, h) = CountUpto(t, s, h)
  BY <1>1, CountSame
<1>5. /\ CountUpto(t, a, Len(s)) \in Nat
      /\ CountUpto(t, a, Len(s) + 1) = CountUpto(t, a, Len(s)) + (IF a[Len(s) + 1].type = t THEN 1 ELSE 0)
  BY <1>1, CountStep
<1>. QED BY <1>0, <1>1, <1>2, <1>3, <1>4, <1>5

\* Handling the next message of a log counts it, and none that was skipped.
LEMMA CountTaken ==
  ASSUME NEW T, NEW t, NEW s \in Seq(T), NEW h \in Nat, NEW p \in 1..Len(s), h < p,
         \A q \in (h + 1)..(p - 1) : s[q].type # t
  PROVE  CountOf(t, SubSeq(s, 1, p)) = CountOf(t, SubSeq(s, 1, h)) + (IF s[p].type = t THEN 1 ELSE 0)
<1>1. p \in Nat /\ p - 1 \in Nat /\ h <= p - 1 /\ p <= Len(s) /\ h <= Len(s) /\ Len(s) \in Nat /\ (p - 1) + 1 = p
  OBVIOUS
<1>2. CountUpto(t, s, p - 1) = CountUpto(t, s, h)
  BY <1>1, CountSkips
<1>3. CountUpto(t, s, p) = CountUpto(t, s, p - 1) + (IF s[p].type = t THEN 1 ELSE 0)
  <2>1. PICK k \in Nat : k = p - 1 /\ k + 1 = p /\ k < Len(s)
    BY <1>1
  <2>2. CountUpto(t, s, k + 1) = CountUpto(t, s, k) + (IF s[k + 1].type = t THEN 1 ELSE 0)
    BY <2>1, CountStep
  <2>. QED BY <2>1, <2>2
<1>. QED BY <1>1, <1>2, <1>3, CountPrefix

-----------------------------------------------------------------------------
(* The channels as SyncChannel has them: what SyncChannelProofs says of    *)
(* them, channel by channel.                                               *)

Abs == INSTANCE SyncChannelProofs WITH
  log <- log, arrived <- arrived, handled <- handled,
  pc <- Pcs, synchronized <- Flags,
  syncCounter <- OfChannel(syncCounter), ackCounter <- OfChannel(ackCounter),
  eofCounter <- OfChannel(eofCounter), recvEof <- OfChannel(recvEof),
  failed <- OfChannel(failed),
  called <- PushedOf("sync"), returned <- Returns,
  acked <- PushedOf("ack"), completed <- Completions,
  syncsFrom <- HandledOf("sync"), acksFrom <- HandledOf("ack")

\* What SyncChannel assumes.
LEMMA AbsNodes == Abs!IsFiniteSet(Node) /\ Node # {} /\ MaxLog \in Nat /\ MaxSync \in Nat
  BY CommAssumption DEF Abs!IsFiniteSet, IsFiniteSet

\* Both modules have the same instances.
LEMMA SameInv ==
  ASSUME NEW c \in Chan
  PROVE  /\ Channel(c)!IInv <=> Abs!Channel(c)!IInv
         /\ Channel(c)!IInv' <=> Abs!Channel(c)!IInv'
  BY Zenon
  DEF Channel!IInv, Abs!Channel!IInv, Channel!TypeOK, Abs!Channel!TypeOK, Channel!Entry, Abs!Channel!Entry,
      Channel!MsgType, Abs!Channel!MsgType, Channel!LinksType, Abs!Channel!LinksType,
      Channel!WorkerType, Abs!Channel!WorkerType, Channel!CountsType, Abs!Channel!CountsType,
      Channel!ClosingType, Abs!Channel!ClosingType, Channel!RoundsType, Abs!Channel!RoundsType,
      Channel!FromType, Abs!Channel!FromType, Channel!LogInv, Abs!Channel!LogInv,
      Channel!Numbered, Abs!Channel!Numbered, Channel!CursorInv, Abs!Channel!CursorInv,
      Channel!Upto, Abs!Channel!Upto, Channel!ChainInv, Abs!Channel!ChainInv,
      Channel!WorkerInv, Abs!Channel!WorkerInv, Channel!CounterInv, Abs!Channel!CounterInv,
      Channel!Cardinality, Abs!Channel!Cardinality, Channel!SyncsAhead, Abs!Channel!SyncsAhead,
      Channel!AcksAhead, Abs!Channel!AcksAhead, Channel!EofInv, Abs!Channel!EofInv,
      Channel!EofLast, Abs!Channel!EofLast, Channel!EndsInEof, Abs!Channel!EndsInEof,
      Channel!ClosingInv, Abs!Channel!ClosingInv, Channel!EofsArrived, Abs!Channel!EofsArrived,
      Channel!NeverFails, Abs!Channel!NeverFails, Channel!size, Abs!Channel!size

LEMMA SameVars ==
  ASSUME NEW c \in Chan PROVE UNCHANGED Channel(c)!vars <=> UNCHANGED Abs!Channel(c)!vars
  BY DEF Channel!vars, Abs!Channel!vars, Channel!links, Abs!Channel!links, Channel!counts, Abs!Channel!counts,
         Channel!closing, Abs!Channel!closing, Channel!history, Abs!Channel!history

LEMMA SameWorker ==
  ASSUME NEW c \in Chan, NEW n \in Node PROVE Channel(c)!Worker(n) <=> Abs!Channel(c)!Worker(n)
  BY Zenon
  DEF Channel!Worker, Abs!Channel!Worker, Channel!Send, Abs!Channel!Send,
      Channel!Synchronize, Abs!Channel!Synchronize, Channel!SynchronizeReturns, Abs!Channel!SynchronizeReturns,
      Channel!Awakened, Abs!Channel!Awakened, Channel!PushEof, Abs!Channel!PushEof,
      Channel!MarkEof, Abs!Channel!MarkEof, Channel!Push, Abs!Channel!Push,
      Channel!links, Abs!Channel!links, Channel!counts, Abs!Channel!counts,
      Channel!closing, Abs!Channel!closing, Channel!history, Abs!Channel!history

LEMMA SameArrive ==
  ASSUME NEW c \in Chan, NEW j \in Node, NEW i \in Node PROVE Channel(c)!Arrive(j, i) <=> Abs!Channel(c)!Arrive(j, i)
  BY Zenon
  DEF Channel!Arrive, Abs!Channel!Arrive, Channel!IsNext, Abs!Channel!IsNext, Channel!Visible, Abs!Channel!Visible,
      Channel!EofFromAll, Abs!Channel!EofFromAll, Channel!size, Abs!Channel!size,
      Channel!Cardinality, Abs!Channel!Cardinality,
      Channel!counts, Abs!Channel!counts, Channel!closing, Abs!Channel!closing, Channel!history, Abs!Channel!history

LEMMA SameHandle ==
  ASSUME NEW c \in Chan, NEW j \in Node, NEW i \in Node PROVE Channel(c)!Handle(j, i) <=> Abs!Channel(c)!Handle(j, i)
  BY Zenon
  DEF Channel!Handle, Abs!Channel!Handle, Channel!HandleData, Abs!Channel!HandleData,
      Channel!HandleSync, Abs!Channel!HandleSync, Channel!HandleAck, Abs!Channel!HandleAck,
      Channel!TakesNext, Abs!Channel!TakesNext, Channel!IsNext, Abs!Channel!IsNext, Channel!Visible, Abs!Channel!Visible,
      Channel!SyncFromAll, Abs!Channel!SyncFromAll, Channel!SendAck, Abs!Channel!SendAck,
      Channel!Push, Abs!Channel!Push, Channel!CompleteRound, Abs!Channel!CompleteRound,
      Channel!OffRound, Abs!Channel!OffRound, Channel!size, Abs!Channel!size,
      Channel!Cardinality, Abs!Channel!Cardinality, Channel!counts, Abs!Channel!counts,
      Channel!closing, Abs!Channel!closing, Channel!history, Abs!Channel!history

LEMMA SameStep ==
  ASSUME NEW c \in Chan
  PROVE  [Channel(c)!Next]_(Channel(c)!vars) <=> [Abs!Channel(c)!Next]_(Abs!Channel(c)!vars)
  BY SameVars, SameWorker, SameArrive, SameHandle DEF Channel!Next, Abs!Channel!Next

\* A channel stays in a state that SyncChannel can be in.
LEMMA ChannelInit == ASSUME NEW c \in Chan, Channel(c)!Init PROVE Channel(c)!IInv
<1>1. Abs!Channel(c)!Init
  BY DEF Channel!Init, Abs!Channel!Init
<1>. QED BY <1>1, AbsNodes, Abs!InvInit, SameInv

LEMMA ChannelStep ==
  ASSUME NEW c \in Chan, Channel(c)!IInv, [Channel(c)!Next]_(Channel(c)!vars) PROVE Channel(c)!IInv'
  BY AbsNodes, Abs!InvStep, SameInv, SameStep

-----------------------------------------------------------------------------
(* A step of Communicator as a step of each of the channels.               *)

\* Functions from their values.
LEMMA Updated ==
  ASSUME NEW D, NEW f, NEW g, f = [x \in D |-> f[x]], g = [x \in D |-> g[x]],
         NEW d \in D, NEW v, \A x \in D : g[x] = IF x = d THEN v ELSE f[x]
  PROVE  g = [f EXCEPT ![d] = v]
  OBVIOUS

\* What the mapping gives for a channel, cell by cell.
LEMMA Views ==
  ASSUME NEW c \in Chan
  PROVE  /\ Pcs[c] = [n \in Node |-> WorkerAt(n, c)] /\ Pcs'[c] = [n \in Node |-> WorkerAt(n, c)']
         /\ Flags[c] = [n \in Node |-> Woken(n, c)] /\ Flags'[c] = [n \in Node |-> Woken(n, c)']
         /\ \A t : /\ PushedOf(t)[c] = [n \in Node |-> CountOf(t, log[c][n])]
                   /\ PushedOf(t)'[c] = [n \in Node |-> CountOf(t, log'[c][n])]
                   /\ HandledOf(t)[c] = [j \in Node |-> [i \in Node |->
                        CountOf(t, SubSeq(log[c][i], 1, handled[c][j][i]))]]
                   /\ HandledOf(t)'[c] = [j \in Node |-> [i \in Node |->
                        CountOf(t, SubSeq(log'[c][i], 1, handled'[c][j][i]))]]
         /\ Returns[c] = [n \in Node |-> CountOf("sync", log[c][n]) - (IF Waits(n, c) THEN 1 ELSE 0)]
         /\ Returns'[c] = [n \in Node |-> CountOf("sync", log'[c][n]) - (IF Waits(n, c)' THEN 1 ELSE 0)]
         /\ Completions[c] = [n \in Node |-> Returns[c][n] + (IF Woken(n, c) THEN 1 ELSE 0)]
         /\ Completions'[c] = [n \in Node |-> Returns'[c][n] + (IF Woken(n, c)' THEN 1 ELSE 0)]
<1>1. /\ Pcs[c] = [n \in Node |-> WorkerAt(n, c)] /\ Pcs'[c] = [n \in Node |-> WorkerAt(n, c)']
      /\ Flags[c] = [n \in Node |-> Woken(n, c)] /\ Flags'[c] = [n \in Node |-> Woken(n, c)']
  BY DEF Pcs, Flags
<1>2. \A t : /\ PushedOf(t)[c] = [n \in Node |-> CountOf(t, log[c][n])]
             /\ HandledOf(t)[c] = [j \in Node |-> [i \in Node |->
                        CountOf(t, SubSeq(log[c][i], 1, handled[c][j][i]))]]
  BY DEF PushedOf, HandledOf
<1>3. \A t : /\ PushedOf(t)'[c] = [n \in Node |-> CountOf(t, log'[c][n])]
             /\ HandledOf(t)'[c] = [j \in Node |-> [i \in Node |->
                        CountOf(t, SubSeq(log'[c][i], 1, handled'[c][j][i]))]]
  BY DEF PushedOf, HandledOf, CountOf
<1>4. /\ Returns[c] = [n \in Node |-> CountOf("sync", log[c][n]) - (IF Waits(n, c) THEN 1 ELSE 0)]
      /\ Completions[c] = [n \in Node |-> Returns[c][n] + (IF Woken(n, c) THEN 1 ELSE 0)]
  BY DEF Returns, Completions
<1>5. /\ Returns'[c] = [n \in Node |-> CountOf("sync", log'[c][n]) - (IF Waits(n, c)' THEN 1 ELSE 0)]
      /\ Completions'[c] = [n \in Node |-> Returns'[c][n] + (IF Woken(n, c)' THEN 1 ELSE 0)]
  BY DEF Returns, Completions, CountOf
<1>. QED BY <1>1, <1>2, <1>3, <1>4, <1>5

\* What the threads of the nodes do not change of channel c.
WorkersKept(c) ==
  \A n \in Node : WorkerAt(n, c)' = WorkerAt(n, c) /\ (Waits(n, c)' <=> Waits(n, c)) /\ (Woken(n, c)' <=> Woken(n, c))
CountersKept(c) ==
  \A n \in Node : syncCounter'[n][c] = syncCounter[n][c] /\ ackCounter'[n][c] = ackCounter[n][c]
ClosingKept(c) ==
  \A n \in Node : eofCounter'[n][c] = eofCounter[n][c] /\ recvEof'[n][c] = recvEof[n][c]
FailedKept(c) == \A n \in Node : failed'[n][c] = failed[n][c]
LinksKept(c) == log'[c] = log[c] /\ arrived'[c] = arrived[c] /\ handled'[c] = handled[c]

LEMMA CountersStay ==
  ASSUME NEW c \in Chan, CountersKept(c)
  PROVE  OfChannel(syncCounter)'[c] = OfChannel(syncCounter)[c] /\ OfChannel(ackCounter)'[c] = OfChannel(ackCounter)[c]
  BY DEF CountersKept, OfChannel

LEMMA ClosingStays ==
  ASSUME NEW c \in Chan, ClosingKept(c)
  PROVE  OfChannel(eofCounter)'[c] = OfChannel(eofCounter)[c] /\ OfChannel(recvEof)'[c] = OfChannel(recvEof)[c]
  BY DEF ClosingKept, OfChannel

LEMMA FailedStays ==
  ASSUME NEW c \in Chan, FailedKept(c) PROVE OfChannel(failed)'[c] = OfChannel(failed)[c]
  BY DEF FailedKept, OfChannel

LEMMA WorkersStay ==
  ASSUME NEW c \in Chan, WorkersKept(c)
  PROVE  Pcs'[c] = Pcs[c] /\ Flags'[c] = Flags[c]
  BY DEF WorkersKept, Pcs, Flags, Woken

LEMMA RoundsStay ==
  ASSUME NEW c \in Chan, WorkersKept(c), \A n \in Node : CountOf("sync", log'[c][n]) = CountOf("sync", log[c][n])
  PROVE  Returns'[c] = Returns[c] /\ Completions'[c] = Completions[c]
<1>1. /\ Returns[c] = [n \in Node |-> CountOf("sync", log[c][n]) - (IF Waits(n, c) THEN 1 ELSE 0)]
      /\ Returns'[c] = [n \in Node |-> CountOf("sync", log'[c][n]) - (IF Waits(n, c)' THEN 1 ELSE 0)]
      /\ Completions[c] = [n \in Node |-> Returns[c][n] + (IF Woken(n, c) THEN 1 ELSE 0)]
      /\ Completions'[c] = [n \in Node |-> Returns'[c][n] + (IF Woken(n, c)' THEN 1 ELSE 0)]
  BY Views
<1>2. Returns'[c] = Returns[c]
  BY <1>1 DEF WorkersKept
<1>. QED BY <1>1, <1>2 DEF WorkersKept

LEMMA UntouchedStutters ==
  ASSUME NEW c \in Chan, WorkersKept(c), CountersKept(c), ClosingKept(c), FailedKept(c), LinksKept(c)
  PROVE  UNCHANGED Channel(c)!vars
<1>1. Pcs'[c] = Pcs[c] /\ Flags'[c] = Flags[c] /\ Returns'[c] = Returns[c] /\ Completions'[c] = Completions[c]
  BY WorkersStay, RoundsStay DEF LinksKept
<1>2. \A t : PushedOf(t)'[c] = PushedOf(t)[c] /\ HandledOf(t)'[c] = HandledOf(t)[c]
  <2>. TAKE t
  <2>1. /\ PushedOf(t)[c] = [n \in Node |-> CountOf(t, log[c][n])]
        /\ PushedOf(t)'[c] = [n \in Node |-> CountOf(t, log'[c][n])]
        /\ HandledOf(t)[c] = [j \in Node |-> [i \in Node |-> CountOf(t, SubSeq(log[c][i], 1, handled[c][j][i]))]]
        /\ HandledOf(t)'[c] = [j \in Node |-> [i \in Node |->
             CountOf(t, SubSeq(log'[c][i], 1, handled'[c][j][i]))]]
    BY Views
  <2>. QED BY <2>1 DEF LinksKept
<1>. QED BY <1>1, <1>2, CountersStay, ClosingStays, FailedStays
  DEF LinksKept, Channel!vars, Channel!links, Channel!counts, Channel!closing, Channel!history

LEMMA Unmoved ==
  ASSUME UNCHANGED <<worker, sendEof, synchronized>>, NEW c \in Chan PROVE WorkersKept(c)
  BY DEF WorkersKept, WorkerAt, Waits, Woken

LEMMA CountsKept == ASSUME UNCHANGED counts, NEW c \in Chan PROVE CountersKept(c)
  BY DEF counts, CountersKept

LEMMA LoopKept == ASSUME UNCHANGED <<eofCounter, recvEof>>, NEW c \in Chan PROVE ClosingKept(c)
  BY DEF ClosingKept

\* A push is one to the channel: the next round, and one more of its type.
LEMMA PushLog ==
  ASSUME TypeOK, NEW n \in Node, NEW c \in Chan, NEW t \in MsgType, NEW d \in Node, Push(n, c, t, d)
  PROVE  /\ \A e \in Chan : e # c => log'[e] = log[e]
         /\ \A u : \A m \in Node :
              /\ CountOf(u, log[c][m]) \in Nat
              /\ CountOf(u, log'[c][m]) = CountOf(u, log[c][m]) + (IF m = n /\ u = t THEN 1 ELSE 0)
         /\ \A u : \A m \in Node, h \in Nat : h <= Len(log[c][m]) =>
              CountOf(u, SubSeq(log'[c][m], 1, h)) = CountOf(u, SubSeq(log[c][m], 1, h))
<1>1. log \in [Chan -> [Node -> Seq(LogEntry)]]
  BY DEF TypeOK
<1>2. PICK e \in LogEntry : e.type = t /\ log' = [log EXCEPT ![c][n] = Append(log[c][n], e)]
  BY PushEffect
<1>3. /\ \A x \in Chan : x # c => log'[x] = log[x]
      /\ \A m \in Node : log'[c][m] = IF m = n THEN Append(log[c][n], e) ELSE log[c][m]
  BY <1>1, <1>2
<1>4. ASSUME NEW m \in Node, NEW u, NEW h \in Nat, h <= Len(log[c][m])
      PROVE  /\ CountOf(u, log[c][m]) \in Nat
             /\ CountOf(u, log'[c][m]) = CountOf(u, log[c][m]) + (IF m = n /\ u = t THEN 1 ELSE 0)
             /\ CountOf(u, SubSeq(log'[c][m], 1, h)) = CountOf(u, SubSeq(log[c][m], 1, h))
  <2>1. log[c][m] \in Seq(LogEntry) /\ Len(log[c][m]) \in Nat
    BY <1>1
  <2>2. CASE m = n
    <3>1. PICK s \in Seq(LogEntry) : s = log[c][n]
      BY <2>1, <2>2
    <3>2. h <= Len(s)
      BY <1>4, <2>2, <3>1
    <3>. QED BY <1>2, <1>3, <2>2, <3>1, <3>2, CountAppend
  <2>3. CASE m # n
    <3>1. log'[c][m] = log[c][m]
      BY <1>3, <2>3
    <3>2. CountOf(u, log[c][m]) \in Nat
      BY <2>1, CountType
    <3>. QED BY <2>3, <3>1, <3>2
  <2>. QED BY <2>2, <2>3
<1>5. \A m \in Node : Len(log[c][m]) \in Nat /\ 0 <= Len(log[c][m])
  BY <1>1
<1>6. 0 \in Nat
  OBVIOUS
<1>. QED BY <1>3, <1>4, <1>5, <1>6

LEMMA PushOfChannel ==
  ASSUME TypeOK, NEW n \in Node, NEW c \in Chan, NEW t \in MsgType, NEW d \in Node, Push(n, c, t, d)
  PROVE  /\ Channel(c)!Push(n, t, d, IF t \in {"sync", "ack"} THEN PushedOf(t)[c][n] + 1 ELSE 0)
         /\ \A u : PushedOf(u)'[c] = IF u = t THEN [PushedOf(u)[c] EXCEPT ![n] = @ + 1] ELSE PushedOf(u)[c]
<1>1. PushedOf(t)[c][n] = CountOf(t, log[c][n])
  BY DEF PushedOf
<1>2. log' = [log EXCEPT ![c][n] = Append(@, [type |-> t, dest |-> d,
                 round |-> IF t \in {"sync", "ack"} THEN PushedOf(t)[c][n] + 1 ELSE 0])]
  BY <1>1 DEF Push
<1>3. log \in [Chan -> [Node -> Seq(LogEntry)]]
  BY DEF TypeOK
<1>4. Channel(c)!Push(n, t, d, IF t \in {"sync", "ack"} THEN PushedOf(t)[c][n] + 1 ELSE 0)
  <2>. DEFINE e == [type |-> t, dest |-> d, round |-> IF t \in {"sync", "ack"} THEN PushedOf(t)[c][n] + 1 ELSE 0]
  <2>1. log' = [log EXCEPT ![c][n] = Append(@, e)]
    BY <1>2
  <2>. HIDE DEF e
  <2>2. log'[c] = [log[c] EXCEPT ![n] = Append(@, e)]
    BY <1>3, <2>1
  <2>. QED BY <2>2 DEF e, Channel!Push
<1>5. ASSUME NEW u
      PROVE  PushedOf(u)'[c] = IF u = t THEN [PushedOf(u)[c] EXCEPT ![n] = @ + 1] ELSE PushedOf(u)[c]
  <2>1. /\ PushedOf(u)[c] = [m \in Node |-> CountOf(u, log[c][m])]
        /\ PushedOf(u)'[c] = [m \in Node |-> CountOf(u, log'[c][m])]
    BY Views
  <2>2. \A w : \A m \in Node :
          /\ CountOf(w, log[c][m]) \in Nat
          /\ CountOf(w, log'[c][m]) = CountOf(w, log[c][m]) + (IF m = n /\ w = t THEN 1 ELSE 0)
    BY PushLog
  <2>. QED BY <2>1, <2>2
<1>. QED BY <1>4, <1>5

\* What was handled before the push stays counted as it was.
LEMMA HandledKept ==
  ASSUME TypeOK, SendInv, ReceivedInv, NEW n \in Node, NEW c \in Chan, NEW t \in MsgType, NEW d \in Node,
         Push(n, c, t, d), handled' = handled
  PROVE  \A u : HandledOf(u)'[c] = HandledOf(u)[c]
<1>. TAKE u
<1>1. /\ HandledOf(u)[c] = [j \in Node |-> [i \in Node |-> CountOf(u, SubSeq(log[c][i], 1, handled[c][j][i]))]]
      /\ HandledOf(u)'[c] = [j \in Node |-> [i \in Node |-> CountOf(u, SubSeq(log'[c][i], 1, handled'[c][j][i]))]]
  <2>1. HandledOf(u)[c] = [j \in Node |-> [i \in Node |-> CountOf(u, SubSeq(log[c][i], 1, handled[c][j][i]))]]
    BY DEF HandledOf
  <2>2. HandledOf(u)'[c] = [j \in Node |-> [i \in Node |-> CountOf(u, SubSeq(log'[c][i], 1, handled'[c][j][i]))]]
    BY DEF HandledOf, CountOf
  <2>. QED BY <2>1, <2>2
<1>2. \A j, i \in Node : handled[c][j][i] \in Nat /\ handled[c][j][i] <= Len(log[c][i])
  <2>. TAKE j \in Node, i \in Node
  <2>1. /\ handled[c][j][i] \in Nat /\ arrived[c][j][i] \in Nat /\ Polled(c, i) \in Nat
        /\ handled[c][j][i] <= arrived[c][j][i] /\ arrived[c][j][i] <= Polled(c, i)
        /\ Polled(c, i) <= Len(log[c][i]) /\ Len(log[c][i]) \in Nat
    BY CursorFacts
  <2>. QED BY <2>1
<1>3. \A j, i \in Node :
        CountOf(u, SubSeq(log'[c][i], 1, handled[c][j][i])) = CountOf(u, SubSeq(log[c][i], 1, handled[c][j][i]))
  <2>. TAKE j \in Node, i \in Node
  <2>1. PICK h \in Nat : h = handled[c][j][i] /\ h <= Len(log[c][i])
    BY <1>2
  <2>2. \A w : \A m \in Node, k \in Nat : k <= Len(log[c][m]) =>
          CountOf(w, SubSeq(log'[c][m], 1, k)) = CountOf(w, SubSeq(log[c][m], 1, k))
    BY PushLog
  <2>. QED BY <2>1, <2>2
<1>. QED BY <1>1, <1>3

\* Of a push to another channel a channel sees nothing.
LEMMA PushElsewhere ==
  ASSUME TypeOK, NEW n \in Node, NEW c \in Chan, NEW t \in MsgType, NEW d \in Node, Push(n, c, t, d),
         UNCHANGED <<arrived, handled>>, NEW e \in Chan, e # c
  PROVE  LinksKept(e)
  BY PushLog DEF LinksKept

-----------------------------------------------------------------------------
(* With one worker for all the channels.                                   *)

\* While the worker is idle the flag is not set, and no channel is waited on.
LEMMA IdleFacts ==
  ASSUME SingleWorker, FlagInv, NEW n \in Node, NEW c \in Chan, MayUse(n, c)
  PROVE  /\ ~synchronized[n] /\ WorkerAt(n, c) = "run"
         /\ \A e \in Chan : ~Waits(n, e) /\ ~Woken(n, e) /\ worker[n][WorkerOf[e]] = Idle
<1>1. worker[n][WorkerOf[c]] = Idle /\ ~sendEof[n][c]
  BY DEF MayUse
<1>2. \A e \in Chan : worker[n][WorkerOf[e]] = Idle
  BY <1>1 DEF SingleWorker
<1>3. \A e \in Chan : Idle # [at |-> "wait", chan |-> e] /\ Idle # [at |-> "mark", chan |-> e]
  BY DEF Idle
<1>4. \A e \in Chan : ~Waits(n, e)
  BY <1>2, <1>3 DEF Waits
<1>. QED BY <1>1, <1>2, <1>3, <1>4 DEF FlagInv, Woken, WorkerAt

\* While it waits or marks it does so on one channel.
LEMMA BusyFacts ==
  ASSUME SingleWorker, TypeOK, WorkerInv, NEW n \in Node, NEW w \in Thread, worker[n][w] # Idle
  PROVE  \E c \in Chan :
           /\ worker[n][w].chan = c /\ WorkerOf[c] = w /\ ~sendEof[n][c]
           /\ worker[n][w] = [at |-> worker[n][w].at, chan |-> c]
           /\ \A e \in Chan : WorkerOf[e] = w
           /\ \A e \in Chan : e # c => ~Waits(n, e) /\ ~Woken(n, e)
           /\ Waits(n, c) <=> worker[n][w].at = "wait"
           /\ WorkerAt(n, c) = IF worker[n][w].at = "wait" THEN "wait" ELSE "marking"
<1>1. worker[n][w] \in [at : {"wait", "mark"}, chan : Chan]
  BY DEF TypeOK
<1>2. PICK a \in {"wait", "mark"}, c \in Chan : worker[n][w] = [at |-> a, chan |-> c]
  BY <1>1
<1>3. worker[n][w].at = a /\ worker[n][w].chan = c
  BY <1>2
<1>4. WorkerOf[c] = w /\ ~sendEof[n][c]
  BY <1>3 DEF WorkerInv
<1>5. \A e \in Chan : WorkerOf[e] = w
  BY <1>4 DEF SingleWorker
<1>6. \A e \in Chan : e # c => ~Waits(n, e)
  <2>1. \A e \in Chan : [at |-> a, chan |-> c] = [at |-> "wait", chan |-> e] => c = e
    OBVIOUS
  <2>. QED BY <1>2, <1>5, <2>1 DEF Waits
<1>7. Waits(n, c) <=> a = "wait"
  <2>1. [at |-> a, chan |-> c] = [at |-> "wait", chan |-> c] <=> a = "wait"
    OBVIOUS
  <2>. QED BY <1>2, <1>5, <2>1 DEF Waits
<1>8. WorkerAt(n, c) = IF a = "wait" THEN "wait" ELSE "marking"
  <2>1. a = "mark" => worker[n][WorkerOf[c]] = [at |-> "mark", chan |-> c]
    BY <1>2, <1>5
  <2>2. CASE a = "wait"
    <3>1. [at |-> "wait", chan |-> c] # [at |-> "mark", chan |-> c]
      OBVIOUS
    <3>2. worker[n][WorkerOf[c]] # [at |-> "mark", chan |-> c]
      BY <1>2, <1>5, <2>2, <3>1
    <3>. QED BY <1>4, <1>7, <2>2, <3>2 DEF WorkerAt
  <2>3. CASE a = "mark"
    <3>1. ~sendEof[n][c] /\ ~Waits(n, c) /\ a # "wait"
      BY <1>4, <1>7, <2>3
    <3>. QED BY <2>1, <2>3, <3>1 DEF WorkerAt
  <2>. QED BY <2>2, <2>3
<1>. QED BY <1>2, <1>3, <1>4, <1>5, <1>6, <1>7, <1>8 DEF Woken

-----------------------------------------------------------------------------
(* The worker's steps are those of the worker of its channel.              *)

\* What of the invariant these steps need.
WorkerOK == TypeOK /\ SendInv /\ ReceivedInv /\ WorkerInv /\ FlagInv

LEMMA SendIsSend ==
  ASSUME SingleWorker, WorkerOK, NEW n \in Node, NEW c \in Chan, NEW d \in Node, Send(n, c, d)
  PROVE  Channel(c)!Send(n, d) /\ \A e \in Chan : e # c => UNCHANGED Channel(e)!vars
<1>0. TypeOK /\ SendInv /\ ReceivedInv /\ FlagInv
  BY DEF WorkerOK
<1>1. /\ MayUse(n, c) /\ Len(log[c][n]) < MaxLog /\ Push(n, c, "data", d)
      /\ UNCHANGED <<worker, sendEof, synchronized, eofCounter, recvEof, arrived, handled, failed>>
      /\ UNCHANGED counts
  BY DEF Send, loop, cursors
<1>2. \A e \in Chan : WorkersKept(e) /\ CountersKept(e) /\ ClosingKept(e) /\ FailedKept(e)
  BY <1>1, Unmoved, CountsKept, LoopKept DEF FailedKept
<1>3. "data" \in MsgType
  BY DEF MsgType
<1>4. ASSUME NEW e \in Chan, e # c PROVE UNCHANGED Channel(e)!vars
  BY <1>0, <1>1, <1>2, <1>3, <1>4, PushElsewhere, UntouchedStutters
<1>5. Channel(c)!Send(n, d)
  <2>1. Pcs[c][n] = "run"
    BY <1>0, <1>1, IdleFacts DEF Pcs
  <2>2. Channel(c)!Push(n, "data", d, 0)
    BY <1>0, <1>1, <1>3, PushOfChannel
  <2>3. PushedOf("sync")'[c] = PushedOf("sync")[c] /\ PushedOf("ack")'[c] = PushedOf("ack")[c]
    <3>1. \A u : PushedOf(u)'[c] = IF u = "data" THEN [PushedOf(u)[c] EXCEPT ![n] = @ + 1] ELSE PushedOf(u)[c]
      BY <1>0, <1>1, <1>3, PushOfChannel
    <3>. QED BY <3>1
  <2>4. HandledOf("sync")'[c] = HandledOf("sync")[c] /\ HandledOf("ack")'[c] = HandledOf("ack")[c]
    BY <1>0, <1>1, <1>3, HandledKept
  <2>5. Pcs'[c] = Pcs[c] /\ Flags'[c] = Flags[c]
    BY <1>2, WorkersStay
  <2>6. Returns'[c] = Returns[c] /\ Completions'[c] = Completions[c]
    <3>1. \A u : \A m \in Node :
            /\ CountOf(u, log[c][m]) \in Nat
            /\ CountOf(u, log'[c][m]) = CountOf(u, log[c][m]) + (IF m = n /\ u = "data" THEN 1 ELSE 0)
      BY <1>0, <1>1, <1>3, PushLog
    <3>2. \A m \in Node : CountOf("sync", log'[c][m]) = CountOf("sync", log[c][m])
      <4>1. \A m \in Node :
              /\ CountOf("sync", log[c][m]) \in Nat
              /\ CountOf("sync", log'[c][m]) =
                   CountOf("sync", log[c][m]) + (IF m = n /\ "sync" = "data" THEN 1 ELSE 0)
        BY <3>1
      <4>. QED BY <4>1
    <3>. QED BY <1>2, <3>2, RoundsStay
  <2>. QED BY <1>1, <1>2, <2>1, <2>2, <2>3, <2>4, <2>5, <2>6, CountersStay, ClosingStays, FailedStays
       DEF Channel!Send, Channel!links, Channel!counts, Channel!closing, Channel!history
<1>. QED BY <1>4, <1>5

LEMMA SynchronizeIsSynchronize ==
  ASSUME SingleWorker, WorkerOK, NEW n \in Node, NEW c \in Chan, Synchronize(n, c)
  PROVE  Channel(c)!Synchronize(n) /\ \A e \in Chan : e # c => UNCHANGED Channel(e)!vars
<1>0. TypeOK /\ SendInv /\ ReceivedInv /\ FlagInv
  BY DEF WorkerOK
<1>1. /\ MayUse(n, c) /\ CountOf("sync", log[c][n]) < MaxSync /\ Push(n, c, "sync", n)
      /\ worker' = [worker EXCEPT ![n][WorkerOf[c]] = [at |-> "wait", chan |-> c]]
      /\ UNCHANGED <<sendEof, synchronized, eofCounter, recvEof, arrived, handled, failed>>
      /\ UNCHANGED counts
  BY DEF Synchronize, loop, cursors
<1>2. \A e \in Chan : CountersKept(e) /\ ClosingKept(e) /\ FailedKept(e)
  BY <1>1, CountsKept, LoopKept DEF FailedKept
<1>3. "sync" \in MsgType
  BY DEF MsgType
<1>4. /\ ~synchronized[n] /\ WorkerAt(n, c) = "run"
      /\ \A e \in Chan : ~Waits(n, e) /\ ~Woken(n, e) /\ worker[n][WorkerOf[e]] = Idle
  BY <1>0, <1>1, IdleFacts
<1>5. \A m \in Node, e \in Chan :
        worker'[m][WorkerOf[e]] = IF m = n THEN [at |-> "wait", chan |-> c] ELSE worker[m][WorkerOf[e]]
  <2>1. PICK v : v = [at |-> "wait", chan |-> c]
    OBVIOUS
  <2>2. worker' = [worker EXCEPT ![n][WorkerOf[c]] = v]
    BY <1>1, <2>1
  <2>3. \A e \in Chan : WorkerOf[e] = WorkerOf[c] /\ WorkerOf[e] \in Thread
    BY CommAssumption DEF SingleWorker
  <2>4. worker \in [Node -> [Thread -> [at : {"wait", "mark"}, chan : Chan] \cup {Idle}]]
    BY <1>0 DEF TypeOK
  <2>5. \A m \in Node, e \in Chan : worker'[m][WorkerOf[e]] = IF m = n THEN v ELSE worker[m][WorkerOf[e]]
    BY <2>2, <2>3, <2>4
  <2>. QED BY <2>1, <2>5
<1>6. \A m \in Node, e \in Chan :
        /\ Waits(m, e)' <=> IF m = n THEN e = c ELSE Waits(m, e)
        /\ (Woken(m, e)' <=> Woken(m, e))
        /\ WorkerAt(m, e)' = IF m = n /\ e = c THEN "wait" ELSE WorkerAt(m, e)
  <2>. TAKE m \in Node, e \in Chan
  <2>1. CASE m # n
    BY <1>1, <1>5, <2>1 DEF Waits, Woken, WorkerAt
  <2>2. CASE m = n
    <3>1. /\ [at |-> "wait", chan |-> c] = [at |-> "wait", chan |-> e] <=> e = c
          /\ [at |-> "wait", chan |-> c] # [at |-> "mark", chan |-> e]
      OBVIOUS
    <3>2. /\ Idle # [at |-> "wait", chan |-> e]
          /\ Idle # [at |-> "mark", chan |-> e]
      BY DEF Idle
    <3>3. Waits(m, e)' <=> e = c
      BY <1>5, <2>2, <3>1 DEF Waits
    <3>4. Woken(m, e)' <=> Woken(m, e)
      BY <1>1, <1>4, <2>2 DEF Woken
    <3>5. WorkerAt(m, e)' = IF e = c THEN "wait" ELSE WorkerAt(m, e)
      <4>1. /\ worker'[n][WorkerOf[e]] # [at |-> "mark", chan |-> e]
            /\ worker[n][WorkerOf[e]] # [at |-> "mark", chan |-> e]
            /\ sendEof'[n][e] = sendEof[n][e] /\ ~Waits(n, e) /\ ~sendEof[n][c]
        BY <1>1, <1>4, <1>5, <3>1, <3>2 DEF MayUse
      <4>. QED BY <2>2, <3>3, <4>1 DEF WorkerAt
    <3>. QED BY <2>2, <3>3, <3>4, <3>5
  <2>. QED BY <2>1, <2>2
<1>7. ASSUME NEW e \in Chan, e # c PROVE UNCHANGED Channel(e)!vars
  <2>1. WorkersKept(e)
    BY <1>4, <1>6, <1>7 DEF WorkersKept
  <2>. QED BY <1>0, <1>1, <1>2, <1>3, <1>7, <2>1, PushElsewhere, UntouchedStutters
<1>8. Channel(c)!Synchronize(n)
  <2>1. Pcs[c][n] = "run" /\ PushedOf("sync")[c][n] < MaxSync
    BY <1>1, <1>4 DEF Pcs, PushedOf
  <2>2. Channel(c)!Push(n, "sync", n, PushedOf("sync")[c][n] + 1)
    BY <1>0, <1>1, <1>3, PushOfChannel
  <2>3. /\ PushedOf("sync")'[c] = [PushedOf("sync")[c] EXCEPT ![n] = @ + 1]
        /\ PushedOf("ack")'[c] = PushedOf("ack")[c]
    <3>1. \A u : PushedOf(u)'[c] = IF u = "sync" THEN [PushedOf(u)[c] EXCEPT ![n] = @ + 1] ELSE PushedOf(u)[c]
      BY <1>0, <1>1, <1>3, PushOfChannel
    <3>. QED BY <3>1
  <2>4. HandledOf("sync")'[c] = HandledOf("sync")[c] /\ HandledOf("ack")'[c] = HandledOf("ack")[c]
    BY <1>0, <1>1, <1>3, HandledKept
  <2>5. Pcs'[c] = [Pcs[c] EXCEPT ![n] = "wait"] /\ Flags'[c] = Flags[c]
    <3>1. /\ Pcs[c] = [m \in Node |-> WorkerAt(m, c)] /\ Pcs'[c] = [m \in Node |-> WorkerAt(m, c)']
          /\ Flags[c] = [m \in Node |-> Woken(m, c)] /\ Flags'[c] = [m \in Node |-> Woken(m, c)']
      BY Views
    <3>2. Pcs'[c] = [Pcs[c] EXCEPT ![n] = "wait"]
      BY <1>6, <3>1
    <3>. QED BY <1>6, <3>1, <3>2 DEF Woken
  <2>6. Returns'[c] = Returns[c] /\ Completions'[c] = Completions[c]
    <3>1. \A m \in Node : /\ CountOf("sync", log[c][m]) \in Nat
                          /\ CountOf("sync", log'[c][m]) =
                               CountOf("sync", log[c][m]) + (IF m = n /\ "sync" = "sync" THEN 1 ELSE 0)
      BY <1>0, <1>1, <1>3, PushLog
    <3>2. /\ Returns[c] = [m \in Node |-> CountOf("sync", log[c][m]) - (IF Waits(m, c) THEN 1 ELSE 0)]
          /\ Returns'[c] = [m \in Node |-> CountOf("sync", log'[c][m]) - (IF Waits(m, c)' THEN 1 ELSE 0)]
          /\ Completions[c] = [m \in Node |-> Returns[c][m] + (IF Woken(m, c) THEN 1 ELSE 0)]
          /\ Completions'[c] = [m \in Node |-> Returns'[c][m] + (IF Woken(m, c)' THEN 1 ELSE 0)]
      BY Views
    <3>3. \A m \in Node : CountOf("sync", log'[c][m]) - (IF Waits(m, c)' THEN 1 ELSE 0)
                            = CountOf("sync", log[c][m]) - (IF Waits(m, c) THEN 1 ELSE 0)
      BY <1>4, <1>6, <3>1
    <3>4. Returns'[c] = Returns[c]
      BY <3>2, <3>3
    <3>. QED BY <1>6, <3>2, <3>4
  <2>. QED BY <1>1, <1>2, <2>1, <2>2, <2>3, <2>4, <2>5, <2>6, CountersStay, ClosingStays, FailedStays
       DEF Channel!Synchronize, Channel!links, Channel!counts, Channel!closing
<1>. QED BY <1>7, <1>8

LEMMA PushEofIsPushEof ==
  ASSUME SingleWorker, WorkerOK, NEW n \in Node, NEW c \in Chan, PushEof(n, c)
  PROVE  Channel(c)!PushEof(n) /\ \A e \in Chan : e # c => UNCHANGED Channel(e)!vars
<1>0. TypeOK /\ SendInv /\ ReceivedInv /\ FlagInv
  BY DEF WorkerOK
<1>1. /\ MayUse(n, c) /\ Push(n, c, "eof", n)
      /\ worker' = [worker EXCEPT ![n][WorkerOf[c]] = [at |-> "mark", chan |-> c]]
      /\ UNCHANGED <<sendEof, synchronized, eofCounter, recvEof, arrived, handled, failed>>
      /\ UNCHANGED counts
  BY DEF PushEof, loop, cursors
<1>2. \A e \in Chan : CountersKept(e) /\ ClosingKept(e) /\ FailedKept(e)
  BY <1>1, CountsKept, LoopKept DEF FailedKept
<1>3. "eof" \in MsgType
  BY DEF MsgType
<1>4. /\ ~synchronized[n] /\ WorkerAt(n, c) = "run"
      /\ \A e \in Chan : ~Waits(n, e) /\ ~Woken(n, e) /\ worker[n][WorkerOf[e]] = Idle
  BY <1>0, <1>1, IdleFacts
<1>5. \A m \in Node, e \in Chan :
        worker'[m][WorkerOf[e]] = IF m = n THEN [at |-> "mark", chan |-> c] ELSE worker[m][WorkerOf[e]]
  <2>1. PICK v : v = [at |-> "mark", chan |-> c]
    OBVIOUS
  <2>2. worker' = [worker EXCEPT ![n][WorkerOf[c]] = v]
    BY <1>1, <2>1
  <2>3. \A e \in Chan : WorkerOf[e] = WorkerOf[c] /\ WorkerOf[e] \in Thread
    BY CommAssumption DEF SingleWorker
  <2>4. worker \in [Node -> [Thread -> [at : {"wait", "mark"}, chan : Chan] \cup {Idle}]]
    BY <1>0 DEF TypeOK
  <2>5. \A m \in Node, e \in Chan : worker'[m][WorkerOf[e]] = IF m = n THEN v ELSE worker[m][WorkerOf[e]]
    BY <2>2, <2>3, <2>4
  <2>. QED BY <2>1, <2>5
<1>6. \A m \in Node, e \in Chan :
        /\ Waits(m, e)' <=> Waits(m, e)
        /\ (Woken(m, e)' <=> Woken(m, e))
        /\ WorkerAt(m, e)' = IF m = n /\ e = c THEN "marking" ELSE WorkerAt(m, e)
  <2>. TAKE m \in Node, e \in Chan
  <2>1. CASE m # n
    BY <1>1, <1>5, <2>1 DEF Waits, Woken, WorkerAt
  <2>2. CASE m = n
    <3>1. /\ [at |-> "mark", chan |-> c] = [at |-> "mark", chan |-> e] <=> e = c
          /\ [at |-> "mark", chan |-> c] # [at |-> "wait", chan |-> e]
      OBVIOUS
    <3>2. /\ Idle # [at |-> "wait", chan |-> e]
          /\ Idle # [at |-> "mark", chan |-> e]
      BY DEF Idle
    <3>3. ~Waits(m, e)' /\ ~Waits(m, e)
      BY <1>4, <1>5, <2>2, <3>1 DEF Waits
    <3>4. Woken(m, e)' <=> Woken(m, e)
      BY <3>3 DEF Woken
    <3>5. WorkerAt(m, e)' = IF e = c THEN "marking" ELSE WorkerAt(m, e)
      <4>1. /\ worker'[n][WorkerOf[e]] = [at |-> "mark", chan |-> e] <=> e = c
            /\ worker[n][WorkerOf[e]] # [at |-> "mark", chan |-> e]
            /\ sendEof'[n][e] = sendEof[n][e] /\ ~sendEof[n][c]
        BY <1>1, <1>4, <1>5, <3>1, <3>2 DEF MayUse
      <4>. QED BY <2>2, <3>3, <4>1 DEF WorkerAt
    <3>. QED BY <2>2, <3>3, <3>4, <3>5
  <2>. QED BY <2>1, <2>2
<1>7. ASSUME NEW e \in Chan, e # c PROVE UNCHANGED Channel(e)!vars
  <2>1. WorkersKept(e)
    BY <1>4, <1>6, <1>7 DEF WorkersKept
  <2>. QED BY <1>0, <1>1, <1>2, <1>3, <1>7, <2>1, PushElsewhere, UntouchedStutters
<1>8. Channel(c)!PushEof(n)
  <2>1. Pcs[c][n] = "run" 
    BY <1>1, <1>4 DEF Pcs
  <2>2. Channel(c)!Push(n, "eof", n, 0)
    BY <1>0, <1>1, <1>3, PushOfChannel
  <2>3. PushedOf("sync")'[c] = PushedOf("sync")[c] /\ PushedOf("ack")'[c] = PushedOf("ack")[c]
    <3>1. \A u : PushedOf(u)'[c] = IF u = "eof" THEN [PushedOf(u)[c] EXCEPT ![n] = @ + 1] ELSE PushedOf(u)[c]
      BY <1>0, <1>1, <1>3, PushOfChannel
    <3>. QED BY <3>1
  <2>4. HandledOf("sync")'[c] = HandledOf("sync")[c] /\ HandledOf("ack")'[c] = HandledOf("ack")[c]
    BY <1>0, <1>1, <1>3, HandledKept
  <2>5. Pcs'[c] = [Pcs[c] EXCEPT ![n] = "marking"] /\ Flags'[c] = Flags[c]
    <3>1. /\ Pcs[c] = [m \in Node |-> WorkerAt(m, c)] /\ Pcs'[c] = [m \in Node |-> WorkerAt(m, c)']
          /\ Flags[c] = [m \in Node |-> Woken(m, c)] /\ Flags'[c] = [m \in Node |-> Woken(m, c)']
      BY Views
    <3>2. Pcs'[c] = [Pcs[c] EXCEPT ![n] = "marking"]
      BY <1>6, <3>1
    <3>. QED BY <1>6, <3>1, <3>2 DEF Woken
  <2>6. Returns'[c] = Returns[c] /\ Completions'[c] = Completions[c]
    <3>1. \A u : \A m \in Node :
            /\ CountOf(u, log[c][m]) \in Nat
            /\ CountOf(u, log'[c][m]) = CountOf(u, log[c][m]) + (IF m = n /\ u = "eof" THEN 1 ELSE 0)
      BY <1>0, <1>1, <1>3, PushLog
    <3>2. \A m \in Node : CountOf("sync", log'[c][m]) = CountOf("sync", log[c][m])
      <4>1. \A m \in Node :
              /\ CountOf("sync", log[c][m]) \in Nat
              /\ CountOf("sync", log'[c][m]) =
                   CountOf("sync", log[c][m]) + (IF m = n /\ "sync" = "eof" THEN 1 ELSE 0)
        BY <3>1
      <4>. QED BY <4>1
    <3>3. /\ Returns[c] = [m \in Node |-> CountOf("sync", log[c][m]) - (IF Waits(m, c) THEN 1 ELSE 0)]
          /\ Returns'[c] = [m \in Node |-> CountOf("sync", log'[c][m]) - (IF Waits(m, c)' THEN 1 ELSE 0)]
          /\ Completions[c] = [m \in Node |-> Returns[c][m] + (IF Woken(m, c) THEN 1 ELSE 0)]
          /\ Completions'[c] = [m \in Node |-> Returns'[c][m] + (IF Woken(m, c)' THEN 1 ELSE 0)]
      BY Views
    <3>4. Returns'[c] = Returns[c]
      BY <1>6, <3>2, <3>3
    <3>. QED BY <1>6, <3>3, <3>4
  <2>. QED BY <1>1, <1>2, <2>1, <2>2, <2>3, <2>4, <2>5, <2>6, CountersStay, ClosingStays, FailedStays
       DEF Channel!PushEof, Channel!links, Channel!counts, Channel!closing, Channel!history
<1>. QED BY <1>7, <1>8

LEMMA SynchronizeReturnsIsThat ==
  ASSUME SingleWorker, WorkerOK, NEW n \in Node, NEW w \in Thread, SynchronizeReturns(n, w)
  PROVE  \E c \in Chan : /\ Channel(c)!SynchronizeReturns(n)
                         /\ \A e \in Chan : e # c => UNCHANGED Channel(e)!vars
<1>0. TypeOK /\ SendInv /\ ReceivedInv /\ WorkerInv /\ FlagInv
  BY DEF WorkerOK
<1>1. /\ worker[n][w].at = "wait" /\ synchronized[n]
      /\ synchronized' = [synchronized EXCEPT ![n] = FALSE]
      /\ worker' = [worker EXCEPT ![n][w] = Idle]
      /\ UNCHANGED <<sendEof, eofCounter, recvEof, log, arrived, handled, failed>>
      /\ UNCHANGED counts
  BY DEF SynchronizeReturns, Awakened, queues, loop, cursors
<1>2. \A e \in Chan : CountersKept(e) /\ ClosingKept(e) /\ FailedKept(e) /\ LinksKept(e)
  BY <1>1, CountsKept, LoopKept DEF FailedKept, LinksKept
<1>3. PICK c \in Chan :
        /\ WorkerOf[c] = w /\ ~sendEof[n][c] /\ \A e \in Chan : WorkerOf[e] = w
        /\ \A e \in Chan : e # c => ~Waits(n, e) /\ ~Woken(n, e)
        /\ Waits(n, c) /\ WorkerAt(n, c) = "wait" /\ worker[n][w] = [at |-> "wait", chan |-> c]
  <2>1. worker[n][w] # Idle
    BY <1>1 DEF Idle
  <2>2. PICK c \in Chan :
           /\ worker[n][w].chan = c /\ WorkerOf[c] = w /\ ~sendEof[n][c]
           /\ worker[n][w] = [at |-> worker[n][w].at, chan |-> c]
           /\ \A e \in Chan : WorkerOf[e] = w
           /\ \A e \in Chan : e # c => ~Waits(n, e) /\ ~Woken(n, e)
           /\ Waits(n, c) <=> worker[n][w].at = "wait"
           /\ WorkerAt(n, c) = IF worker[n][w].at = "wait" THEN "wait" ELSE "marking"
    BY <1>0, <2>1, BusyFacts
  <2>. QED BY <1>1, <2>2
<1>4. /\ \A m \in Node, e \in Chan : worker'[m][WorkerOf[e]] = IF m = n THEN Idle ELSE worker[m][WorkerOf[e]]
      /\ \A m \in Node : synchronized'[m] = IF m = n THEN FALSE ELSE synchronized[m]
  <2>1. \A m \in Node : synchronized'[m] = IF m = n THEN FALSE ELSE synchronized[m]
    BY <1>0, <1>1 DEF TypeOK
  <2>2. ASSUME NEW m \in Node, NEW e \in Chan
        PROVE  worker'[m][WorkerOf[e]] = IF m = n THEN Idle ELSE worker[m][WorkerOf[e]]
    <3>1. WorkerOf[e] = w
      BY <1>0, <1>3
    <3>2. worker[m] \in [Thread -> [at : {"wait", "mark"}, chan : Chan] \cup {Idle}] /\ w \in Thread
      BY <1>0 DEF TypeOK
    <3>3. worker'[m] = IF m = n THEN [worker[m] EXCEPT ![w] = Idle] ELSE worker[m]
      BY <1>0, <1>1 DEF TypeOK
    <3>4. worker'[m][w] = IF m = n THEN Idle ELSE worker[m][w]
      BY <3>2, <3>3
    <3>. QED BY <3>1, <3>4
  <2>. QED BY <2>1, <2>2
<1>5. \A m \in Node, e \in Chan :
        /\ Waits(m, e)' <=> (m # n /\ Waits(m, e))
        /\ Woken(m, e)' <=> (m # n /\ Woken(m, e))
        /\ WorkerAt(m, e)' = IF m = n /\ e = c THEN "run" ELSE WorkerAt(m, e)
  <2>. TAKE m \in Node, e \in Chan
  <2>1. CASE m # n
    BY <1>1, <1>4, <2>1 DEF Waits, Woken, WorkerAt
  <2>2. CASE m = n
    <3>1. Idle # [at |-> "wait", chan |-> e] /\ Idle # [at |-> "mark", chan |-> e]
      BY DEF Idle
    <3>2. ~Waits(m, e)' /\ ~Woken(m, e)'
      BY <1>4, <2>2, <3>1 DEF Waits, Woken
    <3>3. WorkerAt(m, e)' = IF e = c THEN "run" ELSE WorkerAt(m, e)
      <4>1. [at |-> "wait", chan |-> c] # [at |-> "mark", chan |-> e]
        OBVIOUS
      <4>2. /\ worker[n][WorkerOf[e]] # [at |-> "mark", chan |-> e]
            /\ worker'[n][WorkerOf[e]] # [at |-> "mark", chan |-> e]
            /\ sendEof'[n][e] = sendEof[n][e] /\ ~sendEof[n][c] /\ (e # c => ~Waits(n, e))
        BY <1>1, <1>3, <1>4, <3>1, <4>1
      <4>. QED BY <2>2, <3>2, <4>2 DEF WorkerAt
    <3>. QED BY <2>2, <3>2, <3>3
  <2>. QED BY <2>1, <2>2
<1>6. ASSUME NEW e \in Chan, e # c PROVE UNCHANGED Channel(e)!vars
  <2>1. WorkersKept(e)
    BY <1>3, <1>5, <1>6 DEF WorkersKept
  <2>. QED BY <1>2, <2>1, UntouchedStutters
<1>7. Channel(c)!SynchronizeReturns(n)
  <2>1. Pcs[c][n] = "wait" /\ Flags[c][n] /\ Woken(n, c)
    BY <1>1, <1>3 DEF Pcs, Flags, Woken
  <2>2. Pcs'[c] = [Pcs[c] EXCEPT ![n] = "run"] /\ Flags'[c] = [Flags[c] EXCEPT ![n] = FALSE]
    <3>1. /\ Pcs[c] = [m \in Node |-> WorkerAt(m, c)] /\ Pcs'[c] = [m \in Node |-> WorkerAt(m, c)']
          /\ Flags[c] = [m \in Node |-> Woken(m, c)] /\ Flags'[c] = [m \in Node |-> Woken(m, c)']
      BY Views
    <3>2. Pcs'[c] = [Pcs[c] EXCEPT ![n] = "run"]
      BY <1>5, <3>1
    <3>4. \A m \in Node : Flags'[c][m] = IF m = n THEN FALSE ELSE Flags[c][m]
      <4>. TAKE m \in Node
      <4>1. CASE m = n
        BY <1>5, <4>1 DEF Flags, Woken
      <4>2. CASE m # n
        BY <1>5, <4>2 DEF Flags, Woken
      <4>. QED BY <4>1, <4>2
    <3>5. Flags'[c] = [Flags[c] EXCEPT ![n] = FALSE]
      BY <3>1, <3>4, Updated
    <3>. QED BY <3>2, <3>5
  <2>3. Returns'[c] = [Returns[c] EXCEPT ![n] = @ + 1] /\ Completions'[c] = Completions[c]
    <3>1. /\ Returns[c] = [m \in Node |-> CountOf("sync", log[c][m]) - (IF Waits(m, c) THEN 1 ELSE 0)]
          /\ Returns'[c] = [m \in Node |-> CountOf("sync", log'[c][m]) - (IF Waits(m, c)' THEN 1 ELSE 0)]
          /\ Completions[c] = [m \in Node |-> Returns[c][m] + (IF Woken(m, c) THEN 1 ELSE 0)]
          /\ Completions'[c] = [m \in Node |-> Returns'[c][m] + (IF Woken(m, c)' THEN 1 ELSE 0)]
      BY Views
    <3>2. \A m \in Node : CountOf("sync", log'[c][m]) = CountOf("sync", log[c][m]) /\ CountOf("sync", log[c][m]) \in Nat
      <4>1. \A m \in Node : Len(log[c][m]) \in Nat
        BY <1>0, LogFacts
      <4>. QED BY <1>1, <4>1, CountType
    <3>3. \A m \in Node : Returns'[c][m] = Returns[c][m] + (IF m = n THEN 1 ELSE 0) /\ Returns[c][m] \in Int
      BY <1>3, <1>5, <3>1, <3>2
    <3>4. Returns'[c] = [Returns[c] EXCEPT ![n] = @ + 1]
      BY <3>1, <3>3
    <3>5. \A m \in Node : Completions'[c][m] = Completions[c][m]
      BY <1>5, <2>1, <3>1, <3>3
    <3>. QED BY <3>1, <3>4, <3>5
  <2>4. \A t : PushedOf(t)'[c] = PushedOf(t)[c] /\ HandledOf(t)'[c] = HandledOf(t)[c]
    BY <1>1 DEF PushedOf, HandledOf, CountOf
  <2>. QED BY <1>1, <1>2, <2>1, <2>2, <2>3, <2>4, CountersStay, ClosingStays, FailedStays
       DEF Channel!SynchronizeReturns, Channel!Awakened, Channel!links, Channel!counts, Channel!closing
<1>. QED BY <1>6, <1>7

LEMMA MarkEofIsMarkEof ==
  ASSUME SingleWorker, WorkerOK, NEW n \in Node, NEW w \in Thread, MarkEof(n, w)
  PROVE  \E c \in Chan : /\ Channel(c)!MarkEof(n)
                         /\ \A e \in Chan : e # c => UNCHANGED Channel(e)!vars
<1>0. TypeOK /\ SendInv /\ ReceivedInv /\ WorkerInv /\ FlagInv
  BY DEF WorkerOK
<1>1. /\ worker[n][w].at = "mark"
      /\ sendEof' = [sendEof EXCEPT ![n][worker[n][w].chan] = TRUE]
      /\ worker' = [worker EXCEPT ![n][w] = Idle]
      /\ UNCHANGED <<synchronized, eofCounter, recvEof, log, arrived, handled, failed>>
      /\ UNCHANGED counts
  BY DEF MarkEof, loop, cursors
<1>2. \A e \in Chan : CountersKept(e) /\ ClosingKept(e) /\ FailedKept(e) /\ LinksKept(e)
  BY <1>1, CountsKept, LoopKept DEF FailedKept, LinksKept
<1>3. PICK c \in Chan :
        /\ worker[n][w].chan = c /\ ~sendEof[n][c] /\ \A e \in Chan : WorkerOf[e] = w
        /\ \A e \in Chan : ~Waits(n, e)
        /\ WorkerAt(n, c) = "marking" /\ worker[n][w] = [at |-> "mark", chan |-> c]
  <2>1. worker[n][w] # Idle
    BY <1>1 DEF Idle
  <2>2. PICK c \in Chan :
           /\ worker[n][w].chan = c /\ WorkerOf[c] = w /\ ~sendEof[n][c]
           /\ worker[n][w] = [at |-> worker[n][w].at, chan |-> c]
           /\ \A e \in Chan : WorkerOf[e] = w
           /\ \A e \in Chan : e # c => ~Waits(n, e) /\ ~Woken(n, e)
           /\ Waits(n, c) <=> worker[n][w].at = "wait"
           /\ WorkerAt(n, c) = IF worker[n][w].at = "wait" THEN "wait" ELSE "marking"
    BY <1>0, <2>1, BusyFacts
  <2>. QED BY <1>1, <2>2
<1>4. /\ \A m \in Node, e \in Chan : worker'[m][WorkerOf[e]] = IF m = n THEN Idle ELSE worker[m][WorkerOf[e]]
      /\ \A m \in Node, e \in Chan : sendEof'[m][e] = IF m = n /\ e = c THEN TRUE ELSE sendEof[m][e]
  <2>1. worker \in [Node -> [Thread -> [at : {"wait", "mark"}, chan : Chan] \cup {Idle}]]
    BY <1>0 DEF TypeOK
  <2>2. sendEof \in [Node -> [Chan -> BOOLEAN]] /\ sendEof' = [sendEof EXCEPT ![n][c] = TRUE]
    BY <1>0, <1>1, <1>3 DEF TypeOK
  <2>3. \A m \in Node, e \in Chan : worker'[m][WorkerOf[e]] = IF m = n THEN Idle ELSE worker[m][WorkerOf[e]]
    BY <1>1, <1>3, <2>1
  <2>. QED BY <2>2, <2>3
<1>5. \A m \in Node, e \in Chan :
        /\ Waits(m, e)' <=> Waits(m, e)
        /\ Woken(m, e)' <=> Woken(m, e)
        /\ WorkerAt(m, e)' = IF m = n /\ e = c THEN "closed" ELSE WorkerAt(m, e)
  <2>. TAKE m \in Node, e \in Chan
  <2>1. CASE m # n
    BY <1>1, <1>4, <2>1 DEF Waits, Woken, WorkerAt
  <2>2. CASE m = n
    <3>1. Idle # [at |-> "wait", chan |-> e] /\ Idle # [at |-> "mark", chan |-> e]
      BY DEF Idle
    <3>2. ~Waits(m, e)' /\ ~Waits(m, e)
      BY <1>3, <1>4, <2>2, <3>1 DEF Waits
    <3>3. Woken(m, e)' <=> Woken(m, e)
      BY <3>2 DEF Woken
    <3>4. WorkerAt(m, e)' = IF e = c THEN "closed" ELSE WorkerAt(m, e)
      <4>1. [at |-> "mark", chan |-> c] = [at |-> "mark", chan |-> e] => e = c
        OBVIOUS
      <4>2. /\ e # c => worker[n][WorkerOf[e]] # [at |-> "mark", chan |-> e]
            /\ worker'[n][WorkerOf[e]] # [at |-> "mark", chan |-> e]
            /\ e # c => sendEof'[n][e] = sendEof[n][e]
            /\ sendEof'[n][c]
        BY <1>3, <1>4, <3>1, <4>1
      <4>. QED BY <2>2, <3>2, <4>2 DEF WorkerAt
    <3>. QED BY <2>2, <3>2, <3>3, <3>4
  <2>. QED BY <2>1, <2>2
<1>6. ASSUME NEW e \in Chan, e # c PROVE UNCHANGED Channel(e)!vars
  <2>1. WorkersKept(e)
    BY <1>5, <1>6 DEF WorkersKept
  <2>. QED BY <1>2, <2>1, UntouchedStutters
<1>7. Channel(c)!MarkEof(n)
  <2>1. Pcs[c][n] = "marking"
    BY <1>3 DEF Pcs
  <2>2. Pcs'[c] = [Pcs[c] EXCEPT ![n] = "closed"] /\ Flags'[c] = Flags[c]
    <3>1. /\ Pcs[c] = [m \in Node |-> WorkerAt(m, c)] /\ Pcs'[c] = [m \in Node |-> WorkerAt(m, c)']
          /\ Flags[c] = [m \in Node |-> Woken(m, c)] /\ Flags'[c] = [m \in Node |-> Woken(m, c)']
      BY Views
    <3>2. Pcs'[c] = [Pcs[c] EXCEPT ![n] = "closed"]
      BY <1>5, <3>1
    <3>. QED BY <1>5, <3>1, <3>2 DEF Woken
  <2>3. Returns'[c] = Returns[c] /\ Completions'[c] = Completions[c]
    <3>1. /\ Returns[c] = [m \in Node |-> CountOf("sync", log[c][m]) - (IF Waits(m, c) THEN 1 ELSE 0)]
          /\ Returns'[c] = [m \in Node |-> CountOf("sync", log'[c][m]) - (IF Waits(m, c)' THEN 1 ELSE 0)]
          /\ Completions[c] = [m \in Node |-> Returns[c][m] + (IF Woken(m, c) THEN 1 ELSE 0)]
          /\ Completions'[c] = [m \in Node |-> Returns'[c][m] + (IF Woken(m, c)' THEN 1 ELSE 0)]
      BY Views
    <3>2. Returns'[c] = Returns[c]
      BY <1>1, <1>5, <3>1
    <3>. QED BY <1>5, <3>1, <3>2
  <2>4. \A t : PushedOf(t)'[c] = PushedOf(t)[c] /\ HandledOf(t)'[c] = HandledOf(t)[c]
    BY <1>1 DEF PushedOf, HandledOf, CountOf
  <2>. QED BY <1>1, <1>2, <2>1, <2>2, <2>3, <2>4, CountersStay, ClosingStays, FailedStays
       DEF Channel!MarkEof, Channel!links, Channel!counts, Channel!closing, Channel!history
<1>. QED BY <1>6, <1>7

-----------------------------------------------------------------------------
(* The receive handler's steps are those of the handler of its channel.    *)

\* Where the worker is.
LEMMA WorkerAtFacts ==
  ASSUME WorkerInv, NEW n \in Node, NEW c \in Chan, WorkerOf[c] \in Thread
  PROVE  /\ WorkerAt(n, c) = "closed" <=> sendEof[n][c]
         /\ WorkerAt(n, c) = "wait" <=> Waits(n, c)
<1>. DEFINE W == worker[n][WorkerOf[c]]
<1>1. [at |-> "wait", chan |-> c] # [at |-> "mark", chan |-> c]
  OBVIOUS
<1>2. [at |-> "wait", chan |-> c] # Idle /\ [at |-> "mark", chan |-> c] # Idle
  BY DEF Idle
<1>3. W # Idle => ~sendEof[n][W.chan]
  BY DEF WorkerInv
<1>4. W = [at |-> "wait", chan |-> c] \/ W = [at |-> "mark", chan |-> c] => W.chan = c /\ W # Idle
  BY <1>2
<1>. HIDE DEF W
<1>5. sendEof[n][c] => W # [at |-> "wait", chan |-> c] /\ W # [at |-> "mark", chan |-> c]
  BY <1>3, <1>4
<1>6. Waits(n, c) <=> W = [at |-> "wait", chan |-> c]
  BY DEF Waits, W
<1>7. WorkerAt(n, c) = CASE sendEof[n][c] -> "closed"
                        [] Waits(n, c) -> "wait"
                        [] W = [at |-> "mark", chan |-> c] -> "marking"
                        [] OTHER -> "run"
  BY DEF WorkerAt, W
<1>8. CASE sendEof[n][c]
  BY <1>5, <1>6, <1>7, <1>8
<1>9. CASE Waits(n, c)
  BY <1>1, <1>5, <1>6, <1>7, <1>9
<1>10. CASE W = [at |-> "mark", chan |-> c]
  BY <1>1, <1>5, <1>6, <1>7, <1>10
<1>11. CASE ~sendEof[n][c] /\ ~Waits(n, c) /\ W # [at |-> "mark", chan |-> c]
  BY <1>7, <1>11
<1>. QED BY <1>8, <1>9, <1>10, <1>11

\* What SyncChannel says of the channel.
LEMMA ChannelSays ==
  ASSUME NEW c \in Chan, Channel(c)!IInv
  PROVE  /\ \A n \in Node : ~failed[n][c]
         /\ \A i \in Node : \A p \in 1..Len(log[c][i]) : log[c][i][p].type = "eof" => p = Len(log[c][i])
         /\ \A i \in Node : Channel(c)!EndsInEof(log[c][i]) <=> WorkerAt(i, c) \in {"marking", "closed"}
<1>1. \A n \in Node : ~failed[n][c]
  BY DEF Channel!IInv, Channel!NeverFails, OfChannel
<1>2. Channel(c)!EofInv
  BY DEF Channel!IInv
<1>3. \A i \in Node : \A p \in 1..Len(log[c][i]) : log[c][i][p].type = "eof" => p = Len(log[c][i])
  BY <1>2 DEF Channel!EofInv, Channel!EofLast
<1>4. \A i \in Node : Channel(c)!EndsInEof(log[c][i]) <=> WorkerAt(i, c) \in {"marking", "closed"}
  BY <1>2 DEF Channel!EofInv, Pcs
<1>. QED BY <1>1, <1>3, <1>4

LEMMA UnhandledWaits ==
  ASSUME WorkerInv, NEW c \in Chan, Channel(c)!IInv, NEW j \in Node, NEW i \in Node,
         NEW p \in 1..Len(log[c][i]), handled[c][j][i] < p
  PROVE  /\ log[c][i][p].type = "sync" => Waits(i, c) /\ ~synchronized[i]
         /\ log[c][i][p].type = "ack" => Waits(j, c) /\ ~synchronized[j]
<1>1. /\ log[c][i][p].type = "sync" => Pcs[c][i] = "wait" /\ ~Flags[c][i]
      /\ log[c][i][p].type = "ack" => Pcs[c][j] = "wait" /\ ~Flags[c][j]
  BY AbsNodes, SameInv, Abs!Unhandled
<1>2. \A n \in Node : Pcs[c][n] = "wait" /\ ~Flags[c][n] => Waits(n, c) /\ ~synchronized[n]
  <2>1. WorkerOf[c] \in Thread
    BY CommAssumption
  <2>2. \A n \in Node : WorkerAt(n, c) = "wait" <=> Waits(n, c)
    BY <2>1, WorkerAtFacts
  <2>. QED BY <2>2 DEF Pcs, Flags, Woken
<1>. QED BY <1>1, <1>2

LEMMA AtMostOne == ASSUME NEW k \in Nat, k <= 1, k # 0 PROVE k = 1
  OBVIOUS

\* A sequence of at most one message.
LEMMA Single ==
  ASSUME NEW T, NEW s \in Seq(T), s # <<>>, Len(s) <= 1
  PROVE  s[1] \in ToSet(s) /\ \A l \in ToSet(s) : l = s[1]
<1>1. Len(s) \in Nat /\ DOMAIN s = 1..Len(s) /\ Len(s) # 0
  BY SeqFacts
<1>2. Len(s) = 1
  BY ONLY <1>1, Len(s) <= 1, AtMostOne, Zenon
<1>3. ToSet(s) = {s[1]}
  BY <1>1, <1>2 DEF ToSet
<1>. QED BY <1>3

\* The message in the hand of the handler is the next of its sender.
LEMMA InHand ==
  ASSUME TypeOK, SendInv, ReceivedInv, NEW n \in Node, NEW c \in Chan, Channel(c)!IInv, NEW t, Finish(n, c, t)
  PROVE  \E i \in Node : \E p \in 1..Len(log[c][i]) :
           /\ Channel(c)!TakesNext(n, i, t, p)
           /\ handled[c][n][i] \in Nat /\ handled[c][n][i] < p /\ log[c][i][p].type = t
           /\ \A q \in (handled[c][n][i] + 1)..(p - 1) : log[c][i][q].type = "data"
           /\ handled'[c] = [handled[c] EXCEPT ![n][i] = p]
           /\ \A e \in Chan : e # c => handled'[e] = handled[e]
<1>1. /\ hand[n][c] # <<>> /\ hand[n][c][1] \in Message /\ hand[n][c][1].type = t
      /\ handled' = [handled EXCEPT ![c][n][hand[n][c][1].from] = hand[n][c][1].num]
  <2>1. hand[n][c] # <<>> /\ hand[n][c][1] \in Message /\ hand[n][c][1].type = t
    BY FinishEffect
  <2>. QED BY <2>1 DEF Finish
<1>2. PICK m \in Message : m = hand[n][c][1]
  BY <1>1
<1>3. PICK i \in Node, p \in Nat : i = m.from /\ p = m.num
  BY MessageFields
<1>4. hand[n][c] \in Seq(Message) /\ recvq[n][c] \in Seq(Message)
  BY ReceivedTypes
<1>5. m \in ToSet(hand[n][c]) /\ \A l \in ToSet(hand[n][c]) : l = m
  <2>1. PICK s \in Seq(Message) : s = hand[n][c]
    BY <1>4
  <2>2. s # <<>> /\ Len(s) <= 1 /\ m = s[1]
    BY <1>1, <1>2, <2>1 DEF ReceivedInv
  <2>. QED BY <2>1, <2>2, Single
<1>6. ReceivedCell(n, c) /\ m \in Received(n, c)
  BY <1>5, ReceivedCells DEF Received
<1>7. /\ m.chan = c /\ Logged(m) /\ Reaches(m, n) /\ handled[c][n][i] < p /\ p <= arrived[c][n][i]
  BY <1>3, <1>6 DEF ReceivedCell
<1>8. /\ p \in 1..Len(log[c][i]) /\ log[c][i][p].type = t /\ log[c][i][p].dest = m.dest /\ m.type = t
  BY <1>1, <1>2, <1>3, <1>7 DEF Logged
<1>9. /\ handled[c][n][i] \in Nat /\ arrived[c][n][i] \in Nat /\ Len(log[c][i]) \in Nat
  BY CursorFacts
<1>10. ASSUME NEW q \in (handled[c][n][i] + 1)..(p - 1) PROVE ~Reaches(log[c][i][q], n)
  <2>. SUFFICES ASSUME Reaches(log[c][i][q], n) PROVE FALSE
    OBVIOUS
  <2>1. /\ q \in 1..Len(log[c][i]) /\ q # Len(log[c][i]) /\ q < p /\ q \in (handled[c][n][i] + 1)..arrived[c][n][i]
    BY <1>7, <1>8, <1>9
  <2>2. log[c][i][q].type # "eof" /\ ~failed[n][c]
    BY <2>1, ChannelSays
  <2>3. PICK l \in Received(n, c) : l.from = i /\ l.num = q
    BY <1>6, <2>1, <2>2 DEF ReceivedCell
  <2>4. l \in ToSet(recvq[n][c])
    BY <1>3, <1>5, <2>1, <2>3 DEF Received
  <2>5. l.chan = c
    BY <1>6, <2>3 DEF ReceivedCell
  <2>6. Ordered(m, l)
    <3>1. Precedes(ToSet(hand[n][c]), ToSet(recvq[n][c]))
      BY <1>6 DEF ReceivedCell
    <3>. QED BY <1>5, <2>4, <3>1 DEF Precedes
  <2>. QED BY <1>3, <1>7, <2>1, <2>3, <2>5, <2>6 DEF Ordered
<1>11. \A q \in (handled[c][n][i] + 1)..(p - 1) : log[c][i][q].type = "data" /\ ~Channel(c)!Visible(log[c][i][q], n)
  BY <1>10 DEF Reaches, Channel!Visible
<1>12. /\ handled'[c] = [handled[c] EXCEPT ![n][i] = p]
       /\ \A e \in Chan : e # c => handled'[e] = handled[e]
  <2>1. handled \in [Chan -> [Node -> [Node -> Nat]]] /\ handled' = [handled EXCEPT ![c][n][i] = p]
    BY <1>1, <1>2, <1>3 DEF TypeOK
  <2>. QED BY <2>1
<1>13. Channel(c)!TakesNext(n, i, t, p)
  <2>1. Channel(c)!Visible(log[c][i][p], n)
    BY <1>7, <1>8 DEF Reaches, Channel!Visible
  <2>2. p \in (handled[c][n][i] + 1)..Len(log[c][i])
    BY <1>7, <1>8, <1>9
  <2>. QED BY <1>7, <1>8, <1>11, <1>12, <2>1, <2>2 DEF Channel!TakesNext, Channel!IsNext
<1>. QED BY <1>7, <1>8, <1>9, <1>11, <1>12, <1>13

LEMMA CountNat ==
  ASSUME NEW T, NEW t, NEW s \in Seq(T), NEW h \in Nat, h <= Len(s)
  PROVE  CountOf(t, SubSeq(s, 1, h)) \in Nat
<1>1. CountOf(t, SubSeq(s, 1, h)) = CountUpto(t, s, h)
  BY CountPrefix
<1>2. CountUpto(t, s, h) \in Nat
  BY CountStep
<1>. QED BY <1>1, <1>2

\* Handling the message counts it.
LEMMA TakenCounts ==
  ASSUME TypeOK, SendInv, ReceivedInv, NEW c \in Chan, NEW n \in Node, NEW i \in Node,
         NEW p \in 1..Len(log[c][i]), handled[c][n][i] < p,
         \A q \in (handled[c][n][i] + 1)..(p - 1) : log[c][i][q].type = "data",
         handled'[c] = [handled[c] EXCEPT ![n][i] = p],
         log' = log \/ Push(n, c, "ack", n),
         NEW u \in {"sync", "ack"}
  PROVE  HandledOf(u)'[c] = IF u = log[c][i][p].type THEN [HandledOf(u)[c] EXCEPT ![n][i] = @ + 1]
                            ELSE HandledOf(u)[c]
<1>1. /\ HandledOf(u)[c] = [j \in Node |-> [x \in Node |-> CountOf(u, SubSeq(log[c][x], 1, handled[c][j][x]))]]
      /\ HandledOf(u)'[c] = [j \in Node |-> [x \in Node |-> CountOf(u, SubSeq(log'[c][x], 1, handled'[c][j][x]))]]
  <2>1. HandledOf(u)[c] = [j \in Node |-> [x \in Node |-> CountOf(u, SubSeq(log[c][x], 1, handled[c][j][x]))]]
    BY DEF HandledOf
  <2>2. HandledOf(u)'[c] = [j \in Node |-> [x \in Node |-> CountOf(u, SubSeq(log'[c][x], 1, handled'[c][j][x]))]]
    BY DEF HandledOf, CountOf
  <2>. QED BY <2>1, <2>2
<1>2. \A j, x \in Node : /\ handled[c][j][x] \in Nat /\ handled[c][j][x] <= Len(log[c][x])
                         /\ log[c][x] \in Seq(LogEntry) /\ Len(log[c][x]) \in Nat
  <2>. TAKE j \in Node, x \in Node
  <2>1. /\ handled[c][j][x] \in Nat /\ arrived[c][j][x] \in Nat /\ Polled(c, x) \in Nat
        /\ handled[c][j][x] <= arrived[c][j][x] /\ arrived[c][j][x] <= Polled(c, x)
        /\ Polled(c, x) <= Len(log[c][x]) /\ Len(log[c][x]) \in Nat
    BY CursorFacts
  <2>2. log[c][x] \in Seq(LogEntry)
    BY LogFacts
  <2>. QED BY <2>1, <2>2
<1>3. \A j, x \in Node : handled'[c][j][x] = IF j = n /\ x = i THEN p ELSE handled[c][j][x]
  <2>1. PICK f \in [Node -> [Node -> Nat]] : f = handled[c]
    BY DEF TypeOK
  <2>2. PICK k \in Nat : k = p
    BY <1>2
  <2>3. handled'[c] = [f EXCEPT ![n][i] = k]
    BY <2>1, <2>2
  <2>4. \A j, x \in Node : [f EXCEPT ![n][i] = k][j][x] = IF j = n /\ x = i THEN k ELSE f[j][x]
    OBVIOUS
  <2>. QED BY <2>1, <2>2, <2>3, <2>4
<1>4. \A x \in Node, h \in Nat : h <= Len(log[c][x]) =>
        CountOf(u, SubSeq(log'[c][x], 1, h)) = CountOf(u, SubSeq(log[c][x], 1, h))
  <2>1. CASE log' = log
    BY <2>1
  <2>2. CASE Push(n, c, "ack", n)
    <3>1. "ack" \in MsgType
      BY DEF MsgType
    <3>2. \A w : \A x \in Node, h \in Nat : h <= Len(log[c][x]) =>
            CountOf(w, SubSeq(log'[c][x], 1, h)) = CountOf(w, SubSeq(log[c][x], 1, h))
      BY <2>2, <3>1, PushLog
    <3>. QED BY <3>2
  <2>. QED BY <2>1, <2>2
<1>5. CountOf(u, SubSeq(log[c][i], 1, p)) =
        CountOf(u, SubSeq(log[c][i], 1, handled[c][n][i])) + (IF u = log[c][i][p].type THEN 1 ELSE 0)
  <2>1. PICK s \in Seq(LogEntry) : s = log[c][i]
    BY <1>2
  <2>2. PICK h \in Nat : h = handled[c][n][i]
    BY <1>2
  <2>3. h < p /\ p \in 1..Len(s) /\ \A q \in (h + 1)..(p - 1) : s[q].type # u
    BY <2>1, <2>2
  <2>4. CountOf(u, SubSeq(s, 1, p)) = CountOf(u, SubSeq(s, 1, h)) + (IF s[p].type = u THEN 1 ELSE 0)
    BY <2>3, CountTaken
  <2>. QED BY <2>1, <2>2, <2>4
<1>6. ASSUME NEW j \in Node, NEW x \in Node
      PROVE  /\ CountOf(u, SubSeq(log[c][x], 1, handled[c][j][x])) \in Nat
             /\ CountOf(u, SubSeq(log'[c][x], 1, handled'[c][j][x])) =
                  CountOf(u, SubSeq(log[c][x], 1, handled[c][j][x]))
                    + (IF j = n /\ x = i /\ u = log[c][i][p].type THEN 1 ELSE 0)
  <2>1. CountOf(u, SubSeq(log[c][x], 1, handled[c][j][x])) \in Nat
    <3>1. PICK s \in Seq(LogEntry), h \in Nat : s = log[c][x] /\ h = handled[c][j][x] /\ h <= Len(s)
      BY <1>2
    <3>2. CountOf(u, SubSeq(s, 1, h)) \in Nat
      BY <3>1, CountNat
    <3>. QED BY <3>1, <3>2
  <2>2. CASE j = n /\ x = i
    <3>1. p \in Nat /\ p <= Len(log[c][i])
      BY <1>2
    <3>2. CountOf(u, SubSeq(log'[c][i], 1, p)) = CountOf(u, SubSeq(log[c][i], 1, p))
      BY <1>4, <3>1
    <3>. QED BY <1>3, <1>5, <2>1, <2>2, <3>2
  <2>3. CASE ~(j = n /\ x = i)
    <3>1. CountOf(u, SubSeq(log'[c][x], 1, handled[c][j][x])) = CountOf(u, SubSeq(log[c][x], 1, handled[c][j][x]))
      BY <1>2, <1>4
    <3>. QED BY <1>3, <2>1, <2>3, <3>1
  <2>. QED BY <2>2, <2>3
<1>. QED
  <2>. DEFINE f == HandledOf(u)[c]  g == HandledOf(u)'[c]
              F(j, x) == CountOf(u, SubSeq(log[c][x], 1, handled[c][j][x]))
              G(j, x) == CountOf(u, SubSeq(log'[c][x], 1, handled'[c][j][x]))
  <2>4. /\ f = [j \in Node |-> [x \in Node |-> F(j, x)]] /\ g = [j \in Node |-> [x \in Node |-> G(j, x)]]
        /\ \A j, x \in Node : G(j, x) = F(j, x) + (IF j = n /\ x = i /\ u = log[c][i][p].type THEN 1 ELSE 0)
        /\ \A j, x \in Node : F(j, x) \in Nat
    BY <1>1, <1>6
  <2>. HIDE DEF f, g, F, G
  <2>5. \A j, x \in Node : f[j][x] = F(j, x) /\ g[j][x] = G(j, x)
    BY <2>4
  <2>1. /\ f = [j \in Node |-> [x \in Node |-> f[j][x]]] /\ g = [j \in Node |-> [x \in Node |-> g[j][x]]]
        /\ \A j, x \in Node : g[j][x] = f[j][x] + (IF j = n /\ x = i /\ u = log[c][i][p].type THEN 1 ELSE 0)
        /\ \A j, x \in Node : f[j][x] \in Nat
    BY <2>4, <2>5
  <2>2. CASE u = log[c][i][p].type
    <3>1. \A j, x \in Node : g[j][x] = IF j = n /\ x = i THEN f[j][x] + 1 ELSE f[j][x]
      <4>. TAKE j, x \in Node
      <4>1. /\ g[j][x] = f[j][x] + (IF j = n /\ x = i /\ u = log[c][i][p].type THEN 1 ELSE 0)
            /\ f[j][x] \in Nat
        BY <2>1
      <4>2. CASE j = n /\ x = i
        BY <2>2, <4>1, <4>2
      <4>3. CASE ~(j = n /\ x = i)
        BY <4>1, <4>3
      <4>. QED BY <4>2, <4>3
    <3>2. \A j \in Node : g[j] = IF j = n THEN [f[n] EXCEPT ![i] = f[n][i] + 1] ELSE f[j]
      <4>. TAKE j \in Node
      <4>1. g[j] = [x \in Node |-> g[j][x]] /\ f[j] = [x \in Node |-> f[j][x]]
        BY <2>1
      <4>2. CASE j = n
        BY <3>1, <4>1, <4>2
      <4>3. CASE j # n
        BY <3>1, <4>1, <4>3
      <4>. QED BY <4>2, <4>3
    <3>3. g = [f EXCEPT ![n] = [f[n] EXCEPT ![i] = f[n][i] + 1]]
      BY <2>1, <3>2
    <3>. QED BY <2>2, <3>3 DEF f, g
  <2>3. CASE u # log[c][i][p].type
    <3>1. \A j, x \in Node : g[j][x] = f[j][x]
      BY <2>1, <2>3
    <3>2. g = f
      BY <2>1, <3>1
    <3>. QED BY <2>3, <3>2 DEF f, g
  <2>. QED BY <2>2, <2>3

LEMMA SizeSame == ASSUME NEW c \in Chan PROVE Channel(c)!size = size
  BY DEF Channel!size, Channel!Cardinality, size, Cardinality

\* What of the invariant the steps of the handler need.
HandlerOK == TypeOK /\ SendInv /\ ReceivedInv /\ WorkerInv

LEMMA HandleDataIsHandleData ==
  ASSUME HandlerOK, NEW n \in Node, NEW c \in Chan, Channel(c)!IInv, HandleData(n, c)
  PROVE  /\ \E i \in Node : Channel(c)!HandleData(n, i)
         /\ \A e \in Chan : e # c => UNCHANGED Channel(e)!vars
<1>0. TypeOK /\ SendInv /\ ReceivedInv
  BY DEF HandlerOK
<1>1. /\ Finish(n, c, "data")
      /\ UNCHANGED <<worker, sendEof, synchronized, eofCounter, recvEof, log, arrived, failed>>
      /\ UNCHANGED counts
  BY DEF HandleData, loop, queues
<1>2. \A e \in Chan : WorkersKept(e) /\ CountersKept(e) /\ ClosingKept(e) /\ FailedKept(e)
  BY <1>1, Unmoved, CountsKept, LoopKept DEF FailedKept
<1>3. PICK i \in Node : \E p \in 1..Len(log[c][i]) :
           /\ Channel(c)!TakesNext(n, i, "data", p)
           /\ handled[c][n][i] \in Nat /\ handled[c][n][i] < p /\ log[c][i][p].type = "data"
           /\ \A q \in (handled[c][n][i] + 1)..(p - 1) : log[c][i][q].type = "data"
           /\ handled'[c] = [handled[c] EXCEPT ![n][i] = p]
           /\ \A e \in Chan : e # c => handled'[e] = handled[e]
  BY <1>0, <1>1, InHand
<1>4. PICK p \in 1..Len(log[c][i]) :
           /\ Channel(c)!TakesNext(n, i, "data", p)
           /\ handled[c][n][i] \in Nat /\ handled[c][n][i] < p /\ log[c][i][p].type = "data"
           /\ \A q \in (handled[c][n][i] + 1)..(p - 1) : log[c][i][q].type = "data"
           /\ handled'[c] = [handled[c] EXCEPT ![n][i] = p]
           /\ \A e \in Chan : e # c => handled'[e] = handled[e]
  BY <1>3
<1>5. ASSUME NEW e \in Chan, e # c PROVE UNCHANGED Channel(e)!vars
  <2>1. LinksKept(e)
    BY <1>1, <1>4, <1>5 DEF LinksKept
  <2>. QED BY <1>2, <2>1, UntouchedStutters
<1>6. Channel(c)!HandleData(n, i)
  <2>1. HandledOf("sync")'[c] = HandledOf("sync")[c] /\ HandledOf("ack")'[c] = HandledOf("ack")[c]
    <3>1. \A u \in {"sync", "ack"} :
            HandledOf(u)'[c] = IF u = log[c][i][p].type THEN [HandledOf(u)[c] EXCEPT ![n][i] = @ + 1]
                               ELSE HandledOf(u)[c]
      BY <1>0, <1>1, <1>4, TakenCounts
    <3>2. \A u \in {"sync", "ack"} : u # log[c][i][p].type
      BY <1>4
    <3>. QED BY <3>1, <3>2
  <2>2. Pcs'[c] = Pcs[c] /\ Flags'[c] = Flags[c] /\ Returns'[c] = Returns[c] /\ Completions'[c] = Completions[c]
    BY <1>1, <1>2, WorkersStay, RoundsStay
  <2>3. \A t : PushedOf(t)'[c] = PushedOf(t)[c]
    BY <1>1 DEF PushedOf, CountOf
  <2>. QED BY <1>1, <1>2, <1>4, <2>1, <2>2, <2>3, CountersStay, ClosingStays, FailedStays
       DEF Channel!HandleData, Channel!counts, Channel!closing, Channel!history
<1>. QED BY <1>5, <1>6

LEMMA HandleSyncIsHandleSync ==
  ASSUME HandlerOK, NEW n \in Node, NEW c \in Chan, Channel(c)!IInv, HandleSync(n, c)
  PROVE  /\ \E i \in Node : Channel(c)!HandleSync(n, i)
         /\ \A e \in Chan : e # c => UNCHANGED Channel(e)!vars
<1>0. TypeOK /\ SendInv /\ ReceivedInv /\ WorkerInv
  BY DEF HandlerOK
<1>1. /\ Finish(n, c, "sync")
      /\ syncCounter' = [syncCounter EXCEPT ![n][c] = @ + 1]
      /\ UNCHANGED <<worker, sendEof, synchronized, ackCounter, eofCounter, recvEof, arrived>>
  BY DEF HandleSync, loop
<1>2. \/ syncCounter[n][c] + 1 # size /\ UNCHANGED <<log, failed>>
      \/ /\ syncCounter[n][c] + 1 = size /\ sendEof[n][c]
         /\ failed' = [failed EXCEPT ![n][c] = TRUE] /\ log' = log
      \/ syncCounter[n][c] + 1 = size /\ ~sendEof[n][c] /\ Push(n, c, "ack", n) /\ failed' = failed
  BY DEF HandleSync, SyncFromAll, SendAck
<1>3. "ack" \in MsgType
  BY DEF MsgType
<1>4. PICK i \in Node : \E p \in 1..Len(log[c][i]) :
           /\ Channel(c)!TakesNext(n, i, "sync", p)
           /\ handled[c][n][i] \in Nat /\ handled[c][n][i] < p /\ log[c][i][p].type = "sync"
           /\ \A q \in (handled[c][n][i] + 1)..(p - 1) : log[c][i][q].type = "data"
           /\ handled'[c] = [handled[c] EXCEPT ![n][i] = p]
           /\ \A e \in Chan : e # c => handled'[e] = handled[e]
  BY <1>0, <1>1, InHand
<1>5. PICK p \in 1..Len(log[c][i]) :
           /\ Channel(c)!TakesNext(n, i, "sync", p)
           /\ handled[c][n][i] \in Nat /\ handled[c][n][i] < p /\ log[c][i][p].type = "sync"
           /\ \A q \in (handled[c][n][i] + 1)..(p - 1) : log[c][i][q].type = "data"
           /\ handled'[c] = [handled[c] EXCEPT ![n][i] = p]
           /\ \A e \in Chan : e # c => handled'[e] = handled[e]
  BY <1>4
<1>6. \A e \in Chan : WorkersKept(e) /\ ClosingKept(e)
  BY <1>1, Unmoved, LoopKept
<1>t. syncCounter \in [Node -> [Chan -> Nat]] /\ failed \in [Node -> [Chan -> BOOLEAN]]
  BY <1>0 DEF TypeOK
<1>8. PICK v \in Nat : v = syncCounter[n][c] + 1
  BY <1>t
<1>9. \A m \in Node, e \in Chan : syncCounter'[m][e] = IF m = n /\ e = c THEN v ELSE syncCounter[m][e]
  <2>1. syncCounter' = [syncCounter EXCEPT ![n][c] = v]
    BY <1>1, <1>8
  <2>. QED BY <1>t, <2>1, CellUpdate
<1>7. ASSUME NEW e \in Chan, e # c PROVE UNCHANGED Channel(e)!vars
  <2>1. CountersKept(e)
    <3>1. ackCounter' = ackCounter
      BY <1>1
    <3>. QED BY <1>7, <1>9, <3>1 DEF CountersKept
  <2>2. FailedKept(e)
    BY <1>t, <1>2, <1>7 DEF FailedKept
  <2>3. log'[e] = log[e]
    BY <1>0, <1>2, <1>3, <1>7, PushLog
  <2>4. LinksKept(e)
    BY <1>1, <1>5, <1>7, <2>3 DEF LinksKept
  <2>. QED BY <1>6, <2>1, <2>2, <2>4, UntouchedStutters
<1>10. Channel(c)!HandleSync(n, i)
  <2>1. /\ HandledOf("sync")'[c] = [HandledOf("sync")[c] EXCEPT ![n][i] = @ + 1]
        /\ HandledOf("ack")'[c] = HandledOf("ack")[c]
    <3>1. \A u \in {"sync", "ack"} :
            HandledOf(u)'[c] = IF u = log[c][i][p].type THEN [HandledOf(u)[c] EXCEPT ![n][i] = @ + 1]
                               ELSE HandledOf(u)[c]
      BY <1>0, <1>2, <1>5, TakenCounts
    <3>. QED BY <1>5, <3>1
  <2>2. /\ OfChannel(syncCounter)'[c] = [OfChannel(syncCounter)[c] EXCEPT ![n] = @ + 1]
        /\ OfChannel(syncCounter)[c][n] = syncCounter[n][c]
    BY <1>8, <1>9 DEF OfChannel
  <2>3. OfChannel(ackCounter)'[c] = OfChannel(ackCounter)[c]
    BY <1>1 DEF OfChannel
  <2>4. Pcs'[c] = Pcs[c] /\ Flags'[c] = Flags[c]
    BY <1>6, WorkersStay
  <2>5. Returns'[c] = Returns[c] /\ Completions'[c] = Completions[c] /\ PushedOf("sync")'[c] = PushedOf("sync")[c]
    <3>1. \A m \in Node : CountOf("sync", log'[c][m]) = CountOf("sync", log[c][m])
      <4>1. CASE log' = log
        BY <4>1
      <4>2. CASE Push(n, c, "ack", n)
        <5>1. \A u : \A m \in Node :
                /\ CountOf(u, log[c][m]) \in Nat
                /\ CountOf(u, log'[c][m]) = CountOf(u, log[c][m]) + (IF m = n /\ u = "ack" THEN 1 ELSE 0)
          BY <1>0, <1>3, <4>2, PushLog, ZenonT(60)
        <5>2. \A m \in Node :
                /\ CountOf("sync", log[c][m]) \in Nat
                /\ CountOf("sync", log'[c][m]) =
                     CountOf("sync", log[c][m]) + (IF m = n /\ "sync" = "ack" THEN 1 ELSE 0)
          BY <5>1
        <5>. QED BY <5>2
      <4>. QED BY <1>2, <4>1, <4>2
    <3>2. PushedOf("sync")'[c] = [m \in Node |-> CountOf("sync", log'[c][m])]
          /\ PushedOf("sync")[c] = [m \in Node |-> CountOf("sync", log[c][m])]
      BY Views
    <3>. QED BY <1>6, <3>1, <3>2, RoundsStay
  <2>6. IF OfChannel(syncCounter)[c][n] + 1 = Channel(c)!size
        THEN IF Pcs[c][n] = "closed"
             THEN /\ OfChannel(failed)'[c] = [OfChannel(failed)[c] EXCEPT ![n] = TRUE]
                  /\ log'[c] = log[c] /\ PushedOf("ack")'[c] = PushedOf("ack")[c]
             ELSE /\ Channel(c)!Push(n, "ack", n, PushedOf("ack")[c][n] + 1)
                  /\ PushedOf("ack")'[c] = [PushedOf("ack")[c] EXCEPT ![n] = @ + 1]
                  /\ OfChannel(failed)'[c] = OfChannel(failed)[c]
        ELSE /\ log'[c] = log[c] /\ PushedOf("ack")'[c] = PushedOf("ack")[c]
             /\ OfChannel(failed)'[c] = OfChannel(failed)[c]
    <3>1. (Pcs[c][n] = "closed" <=> sendEof[n][c]) /\ Channel(c)!size = size
      <4>1. WorkerOf[c] \in Thread
        BY CommAssumption
      <4>. QED BY <1>0, <4>1, WorkerAtFacts, SizeSame DEF Pcs
    <3>2. log' = log => log'[c] = log[c] /\ PushedOf("ack")'[c] = PushedOf("ack")[c]
      BY DEF PushedOf, CountOf
    <3>3. failed' = failed => OfChannel(failed)'[c] = OfChannel(failed)[c]
      BY DEF OfChannel
    <3>4. CASE syncCounter[n][c] + 1 # size
      BY <1>2, <2>2, <3>1, <3>2, <3>3, <3>4
    <3>5. CASE syncCounter[n][c] + 1 = size /\ sendEof[n][c]
      <4>1. OfChannel(failed)'[c] = [OfChannel(failed)[c] EXCEPT ![n] = TRUE]
        <5>1. /\ failed' = [failed EXCEPT ![n][c] = TRUE] /\ failed \in [Node -> [Chan -> BOOLEAN]]
          BY <1>0, <1>2, <3>5 DEF TypeOK
        <5>. QED BY <5>1 DEF OfChannel
      <4>. QED BY <1>2, <2>2, <3>1, <3>2, <3>5, <4>1
    <3>6. CASE syncCounter[n][c] + 1 = size /\ ~sendEof[n][c]
      <4>1. Push(n, c, "ack", n) /\ failed' = failed
        BY <1>2, <3>6
      <4>2. /\ Channel(c)!Push(n, "ack", n, IF "ack" \in {"sync", "ack"} THEN PushedOf("ack")[c][n] + 1 ELSE 0)
            /\ \A u : PushedOf(u)'[c] = IF u = "ack" THEN [PushedOf(u)[c] EXCEPT ![n] = @ + 1] ELSE PushedOf(u)[c]
        BY <1>0, <1>3, <4>1, PushOfChannel
      <4>3. Channel(c)!Push(n, "ack", n, PushedOf("ack")[c][n] + 1)
        BY <4>2
      <4>4. PushedOf("ack")'[c] = [PushedOf("ack")[c] EXCEPT ![n] = @ + 1]
        BY <4>2
      <4>. QED BY <2>2, <3>1, <3>3, <3>6, <4>1, <4>3, <4>4
    <3>. QED BY <3>4, <3>5, <3>6
  <2>. QED BY <1>1, <1>5, <1>6, <2>1, <2>2, <2>3, <2>4, <2>5, <2>6, ClosingStays
       DEF Channel!HandleSync, Channel!SyncFromAll, Channel!SendAck, Channel!closing
<1>. QED BY <1>7, <1>10

\* The last ack of a round wakes the worker, which waits on this channel.
LEMMA HandleAckIsHandleAck ==
  ASSUME SingleWorker, HandlerOK, NEW n \in Node, NEW c \in Chan, Channel(c)!IInv, HandleAck(n, c)
  PROVE  /\ \E i \in Node : Channel(c)!HandleAck(n, i)
         /\ \A e \in Chan : e # c => UNCHANGED Channel(e)!vars
         /\ synchronized' = synchronized \/ (synchronized' = [synchronized EXCEPT ![n] = TRUE] /\ Waits(n, c))
<1>0. TypeOK /\ SendInv /\ ReceivedInv /\ WorkerInv
  BY DEF HandlerOK
<1>t. /\ syncCounter \in [Node -> [Chan -> Nat]] /\ ackCounter \in [Node -> [Chan -> Nat]]
      /\ failed \in [Node -> [Chan -> BOOLEAN]] /\ synchronized \in [Node -> BOOLEAN]
  BY <1>0 DEF TypeOK
<1>1. /\ Finish(n, c, "ack")
      /\ UNCHANGED <<worker, sendEof, eofCounter, recvEof, log, arrived>>
  BY DEF HandleAck, loop, queues
<1>2. \/ /\ ackCounter[n][c] + 1 # size
         /\ ackCounter' = [ackCounter EXCEPT ![n][c] = @ + 1]
         /\ UNCHANGED <<syncCounter, synchronized, failed>>
      \/ /\ ackCounter[n][c] + 1 = size /\ syncCounter[n][c] >= size
         /\ synchronized' = [synchronized EXCEPT ![n] = TRUE]
         /\ syncCounter' = [syncCounter EXCEPT ![n][c] = @ - size]
         /\ ackCounter' = [ackCounter EXCEPT ![n][c] = (@ + 1) - size]
         /\ failed' = failed
      \/ /\ ackCounter[n][c] + 1 = size /\ ~(syncCounter[n][c] >= size)
         /\ synchronized' = [synchronized EXCEPT ![n] = TRUE]
         /\ ackCounter' = [ackCounter EXCEPT ![n][c] = @ + 1]
         /\ failed' = [failed EXCEPT ![n][c] = TRUE]
         /\ syncCounter' = syncCounter
  BY DEF HandleAck, CompleteRound, OffRound
<1>3. PICK i \in Node : \E p \in 1..Len(log[c][i]) :
           /\ Channel(c)!TakesNext(n, i, "ack", p)
           /\ handled[c][n][i] \in Nat /\ handled[c][n][i] < p /\ log[c][i][p].type = "ack"
           /\ \A q \in (handled[c][n][i] + 1)..(p - 1) : log[c][i][q].type = "data"
           /\ handled'[c] = [handled[c] EXCEPT ![n][i] = p]
           /\ \A e \in Chan : e # c => handled'[e] = handled[e]
  BY <1>0, <1>1, InHand
<1>4. PICK p \in 1..Len(log[c][i]) :
           /\ Channel(c)!TakesNext(n, i, "ack", p)
           /\ handled[c][n][i] \in Nat /\ handled[c][n][i] < p /\ log[c][i][p].type = "ack"
           /\ \A q \in (handled[c][n][i] + 1)..(p - 1) : log[c][i][q].type = "data"
           /\ handled'[c] = [handled[c] EXCEPT ![n][i] = p]
           /\ \A e \in Chan : e # c => handled'[e] = handled[e]
  BY <1>3
<1>5. Waits(n, c) /\ ~synchronized[n]
  BY <1>0, <1>4, UnhandledWaits
<1>6. \A e \in Chan : e # c => ~Waits(n, e)
  <2>1. \A e \in Chan : [at |-> "wait", chan |-> c] = [at |-> "wait", chan |-> e] => e = c
    OBVIOUS
  <2>2. \A e \in Chan : worker[n][WorkerOf[e]] = [at |-> "wait", chan |-> c]
    BY <1>5 DEF Waits, SingleWorker
  <2>. QED BY <2>1, <2>2 DEF Waits
<1>a. PICK a \in Nat, s \in Nat :
        /\ a = IF ackCounter[n][c] + 1 = size /\ syncCounter[n][c] >= size
               THEN (ackCounter[n][c] + 1) - size ELSE ackCounter[n][c] + 1
        /\ s = IF ackCounter[n][c] + 1 = size /\ syncCounter[n][c] >= size
               THEN syncCounter[n][c] - size ELSE syncCounter[n][c]
  <2>1. ackCounter[n][c] \in Nat /\ syncCounter[n][c] \in Nat
    BY <1>t
  <2>2. ackCounter[n][c] + 1 = size => (ackCounter[n][c] + 1) - size = 0
    BY <2>1
  <2>3. ackCounter[n][c] + 1 = size /\ syncCounter[n][c] >= size => syncCounter[n][c] - size \in Nat
    BY <2>1
  <2>. QED BY <2>1, <2>2, <2>3
<1>7. ackCounter' = [ackCounter EXCEPT ![n][c] = a] /\ syncCounter' = [syncCounter EXCEPT ![n][c] = s]
  <2>1. syncCounter' = syncCounter /\ s = syncCounter[n][c] => syncCounter' = [syncCounter EXCEPT ![n][c] = s]
    BY <1>t
  <2>2. CASE ackCounter[n][c] + 1 = size /\ syncCounter[n][c] >= size
    BY <1>2, <1>a, <2>2
  <2>3. CASE ~(ackCounter[n][c] + 1 = size /\ syncCounter[n][c] >= size)
    BY <1>2, <1>a, <2>1, <2>3
  <2>. QED BY <2>2, <2>3
<1>8. /\ \A m \in Node, e \in Chan : ackCounter'[m][e] = IF m = n /\ e = c THEN a ELSE ackCounter[m][e]
      /\ \A m \in Node, e \in Chan : syncCounter'[m][e] = IF m = n /\ e = c THEN s ELSE syncCounter[m][e]
  <2>1. \A m \in Node, e \in Chan : ackCounter'[m][e] = IF m = n /\ e = c THEN a ELSE ackCounter[m][e]
    <3>1. ackCounter \in [Node -> [Chan -> Nat]] /\ ackCounter' = [ackCounter EXCEPT ![n][c] = a]
      BY <1>t, <1>7
    <3>. QED BY <3>1
  <2>2. \A m \in Node, e \in Chan : syncCounter'[m][e] = IF m = n /\ e = c THEN s ELSE syncCounter[m][e]
    <3>1. syncCounter \in [Node -> [Chan -> Nat]] /\ syncCounter' = [syncCounter EXCEPT ![n][c] = s]
      BY <1>t, <1>7
    <3>. QED BY <3>1
  <2>. QED BY <2>1, <2>2
<1>9. \A m \in Node, e \in Chan : (Waits(m, e)' <=> Waits(m, e)) /\ WorkerAt(m, e)' = WorkerAt(m, e)
  BY <1>1 DEF Waits, WorkerAt
<1>10. \A m \in Node : m # n => synchronized'[m] = synchronized[m]
  BY <1>2, <1>t
<1>11. \A e \in Chan : e # c => WorkersKept(e)
  <2>1. \A m \in Node, e \in Chan : e # c => (Woken(m, e)' <=> Woken(m, e))
    BY <1>6, <1>9, <1>10 DEF Woken
  <2>. QED BY <1>9, <2>1 DEF WorkersKept
<1>12. \A e \in Chan : ClosingKept(e)
  BY <1>1, LoopKept
<1>13. ASSUME NEW e \in Chan, e # c PROVE UNCHANGED Channel(e)!vars
  <2>1. CountersKept(e)
    <3>1. \A m \in Node : ackCounter'[m][e] = ackCounter[m][e] /\ syncCounter'[m][e] = syncCounter[m][e]
      BY <1>8, <1>13
    <3>. QED BY <3>1 DEF CountersKept
  <2>2. FailedKept(e)
    <3>1. failed' = failed \/ failed' = [failed EXCEPT ![n][c] = TRUE]
      BY <1>2
    <3>2. failed \in [Node -> [Chan -> BOOLEAN]] /\ e # c
      BY <1>t, <1>13
    <3>. QED BY <3>1, <3>2 DEF FailedKept
  <2>3. LinksKept(e)
    BY <1>1, <1>4, <1>13 DEF LinksKept
  <2>. QED BY <1>11, <1>12, <1>13, <2>1, <2>2, <2>3, UntouchedStutters
<1>14. Channel(c)!HandleAck(n, i)
  <2>1. /\ HandledOf("ack")'[c] = [HandledOf("ack")[c] EXCEPT ![n][i] = @ + 1]
        /\ HandledOf("sync")'[c] = HandledOf("sync")[c]
    <3>1. \A u \in {"sync", "ack"} :
            HandledOf(u)'[c] = IF u = log[c][i][p].type THEN [HandledOf(u)[c] EXCEPT ![n][i] = @ + 1]
                               ELSE HandledOf(u)[c]
      <4>1. /\ handled[c][n][i] < p /\ handled'[c] = [handled[c] EXCEPT ![n][i] = p]
            /\ \A q \in (handled[c][n][i] + 1)..(p - 1) : log[c][i][q].type = "data"
            /\ log' = log \/ Push(n, c, "ack", n)
        BY <1>1, <1>4
      <4>. QED BY <1>0, <4>1, TakenCounts
    <3>. QED BY <1>4, <3>1
  <2>2. /\ OfChannel(ackCounter)'[c] = [OfChannel(ackCounter)[c] EXCEPT ![n] = a]
        /\ OfChannel(ackCounter)[c][n] = ackCounter[n][c]
    <3>1. /\ OfChannel(ackCounter)[c] = [m \in Node |-> ackCounter[m][c]]
          /\ OfChannel(ackCounter)'[c] = [m \in Node |-> ackCounter'[m][c]]
      BY DEF OfChannel
    <3>2. \A m \in Node : ackCounter'[m][c] = IF m = n THEN a ELSE ackCounter[m][c]
      BY <1>8
    <3>. QED BY <3>1, <3>2
  <2>3. /\ OfChannel(syncCounter)'[c] = [OfChannel(syncCounter)[c] EXCEPT ![n] = s]
        /\ OfChannel(syncCounter)[c][n] = syncCounter[n][c]
    <3>1. /\ OfChannel(syncCounter)[c] = [m \in Node |-> syncCounter[m][c]]
          /\ OfChannel(syncCounter)'[c] = [m \in Node |-> syncCounter'[m][c]]
      BY DEF OfChannel
    <3>2. \A m \in Node : syncCounter'[m][c] = IF m = n THEN s ELSE syncCounter[m][c]
      BY <1>8
    <3>. QED BY <3>1, <3>2
  <2>4. Pcs'[c] = Pcs[c]
    BY <1>9 DEF Pcs
  <2>5. /\ Returns[c] = [m \in Node |-> CountOf("sync", log[c][m]) - (IF Waits(m, c) THEN 1 ELSE 0)]
        /\ Returns'[c] = [m \in Node |-> CountOf("sync", log'[c][m]) - (IF Waits(m, c)' THEN 1 ELSE 0)]
        /\ Completions[c] = [m \in Node |-> Returns[c][m] + (IF Woken(m, c) THEN 1 ELSE 0)]
        /\ Completions'[c] = [m \in Node |-> Returns'[c][m] + (IF Woken(m, c)' THEN 1 ELSE 0)]
    BY Views
  <2>6. Returns'[c] = Returns[c]
    BY <1>1, <1>9, <2>5
  <2>7. \A t : PushedOf(t)'[c] = PushedOf(t)[c]
    BY <1>1 DEF PushedOf, CountOf
  <2>8. Channel(c)!size = size
    BY SizeSame
  <2>9. CASE ackCounter[n][c] + 1 # size
    <3>1. synchronized' = synchronized /\ failed' = failed /\ a = ackCounter[n][c] + 1 /\ s = syncCounter[n][c]
          /\ syncCounter' = syncCounter
      BY <1>2, <1>a, <2>9
    <3>2. Flags'[c] = Flags[c] /\ Completions'[c] = Completions[c]
      BY <1>1, <3>1, Unmoved, WorkersStay, RoundsStay
    <3>3. OfChannel(failed)'[c] = OfChannel(failed)[c] /\ OfChannel(syncCounter)'[c] = OfChannel(syncCounter)[c]
      BY <3>1 DEF OfChannel
    <3>. QED BY <1>1, <1>4, <1>12, <2>1, <2>2, <2>4, <2>6, <2>7, <2>8, <2>9, <3>1, <3>2, <3>3, ClosingStays
         DEF Channel!HandleAck, Channel!closing
  <2>10. ASSUME ackCounter[n][c] + 1 = size
         PROVE  Flags'[c] = [Flags[c] EXCEPT ![n] = TRUE] /\ Completions'[c] = [Completions[c] EXCEPT ![n] = @ + 1]
    <3>1. synchronized'[n]
      BY <1>2, <1>t, <2>10
    <3>2. \A m \in Node : Woken(m, c)' <=> (m = n \/ Woken(m, c))
      BY <1>5, <1>9, <1>10, <3>1 DEF Woken
    <3>3. ~Woken(n, c)
      BY <1>5 DEF Woken
    <3>4. /\ Flags[c] = [m \in Node |-> Woken(m, c)] /\ Flags'[c] = [m \in Node |-> Woken(m, c)']
      BY Views
    <3>5. \A m \in Node : Flags'[c][m] = IF m = n THEN TRUE ELSE Flags[c][m]
      <4>. TAKE m \in Node
      <4>1. CASE m = n
        BY <3>2, <4>1 DEF Flags, Woken
      <4>2. CASE m # n
        BY <3>2, <4>2 DEF Flags, Woken
      <4>. QED BY <4>1, <4>2
    <3>6. Flags'[c] = [Flags[c] EXCEPT ![n] = TRUE]
      BY <3>4, <3>5, Updated
    <3>7. \A m \in Node : Returns[c][m] \in Int
      <4>1. \A m \in Node : CountOf("sync", log[c][m]) \in Nat
        <5>1. \A m \in Node : Len(log[c][m]) \in Nat
          BY <1>0, LogFacts
        <5>. QED BY <5>1, CountType
      <4>. QED BY <2>5, <4>1
    <3>8. Completions'[c] = [Completions[c] EXCEPT ![n] = @ + 1]
      BY <2>5, <2>6, <3>2, <3>3, <3>7
    <3>. QED BY <3>6, <3>8
  <2>11. CASE ackCounter[n][c] + 1 = size /\ syncCounter[n][c] >= size
    <3>1. failed' = failed /\ a = (ackCounter[n][c] + 1) - size /\ s = syncCounter[n][c] - size
      BY <1>2, <1>a, <2>11
    <3>2. OfChannel(failed)'[c] = OfChannel(failed)[c]
      BY <3>1 DEF OfChannel
    <3>. QED BY <1>1, <1>4, <1>12, <2>1, <2>2, <2>3, <2>4, <2>6, <2>7, <2>8, <2>10, <2>11, <3>1, <3>2, ClosingStays
         DEF Channel!HandleAck, Channel!CompleteRound, Channel!OffRound, Channel!closing
  <2>12. CASE ackCounter[n][c] + 1 = size /\ ~(syncCounter[n][c] >= size)
    <3>1. failed' = [failed EXCEPT ![n][c] = TRUE] /\ a = ackCounter[n][c] + 1 /\ syncCounter' = syncCounter
      BY <1>2, <1>a, <2>12
    <3>2. OfChannel(failed)'[c] = [OfChannel(failed)[c] EXCEPT ![n] = TRUE]
      BY <1>t, <3>1 DEF OfChannel
    <3>3. OfChannel(syncCounter)'[c] = OfChannel(syncCounter)[c]
      BY <3>1 DEF OfChannel
    <3>. QED BY <1>1, <1>4, <1>12, <2>1, <2>2, <2>3, <2>4, <2>6, <2>7, <2>8, <2>10, <2>12, <3>1, <3>2, <3>3, ClosingStays
         DEF Channel!HandleAck, Channel!CompleteRound, Channel!OffRound, Channel!closing
  <2>. QED BY <2>9, <2>11, <2>12
<1>. QED BY <1>2, <1>5, <1>13, <1>14

-----------------------------------------------------------------------------
(* The main loop's steps: a dispatch is an arrival, the rest is unseen.     *)

LEMMA DispatchIsArrive ==
  ASSUME IInv, NEW n \in Node, Dispatch(n)
  PROVE  \E c \in Chan : /\ \E i \in Node : Channel(c)!Arrive(n, i)
                         /\ \A e \in Chan : e # c => UNCHANGED Channel(e)!vars
<1>0. TypeOK /\ LoopInv /\ SendInv /\ TransitInv /\ OrderInv /\ ReceivedInv
  BY DEF IInv
<1>t. /\ recvEof \in [Node -> [Chan -> BOOLEAN]] /\ failed \in [Node -> [Chan -> BOOLEAN]]
      /\ eofCounter \in [Node -> [Chan -> Nat]] /\ arrived \in [Chan -> [Node -> [Node -> Nat]]]
  BY <1>0 DEF TypeOK
<1>1. PICK m \in Message : /\ m = Head(inbox[n]) /\ Enqueue(n, m)
                           /\ arrived' = [arrived EXCEPT ![m.chan][n][m.from] = m.num]
  BY <1>0, DispatchEffect
<1>2. PICK c \in Chan, i \in Node, p \in Nat : c = m.chan /\ i = m.from /\ p = m.num
  BY MessageFields
<1>3. /\ m \in InTransit(i, n)
      /\ \A l \in InTransit(i, n) : l = m \/ l \in InTransit(i, n)'
      /\ \A l \in InTransit(i, n)' : Ordered(m, l)
  BY <1>0, <1>1, <1>2, DispatchFirst
<1>4. TransitCell(i, n)
  BY <1>0, TransitCells
<1>5. /\ p \in 1..Len(log[c][i]) /\ log[c][i][p].type = m.type /\ log[c][i][p].dest = m.dest
      /\ Reaches(m, n) /\ arrived[c][n][i] < p /\ p <= Polled(c, i)
  BY <1>2, <1>3, <1>4 DEF TransitCell, Logged
<1>6. arrived[c][n][i] \in Nat /\ Polled(c, i) \in Nat /\ Len(log[c][i]) \in Nat
  BY <1>0, CursorFacts
<1>7. ASSUME NEW q \in (arrived[c][n][i] + 1)..(p - 1) PROVE ~Reaches(log[c][i][q], n)
  <2>. SUFFICES ASSUME Reaches(log[c][i][q], n) PROVE FALSE
    OBVIOUS
  <2>1. q \in (arrived[c][n][i] + 1)..Polled(c, i) /\ q < p /\ ~(p < q)
    BY <1>5, <1>6
  <2>2. PICK l \in InTransit(i, n) : l.chan = c /\ l.num = q
    BY <1>4, <2>1 DEF TransitCell
  <2>3. l.from = i
    BY <1>4, <2>2 DEF TransitCell
  <2>. QED BY <1>2, <1>3, <2>1, <2>2, <2>3 DEF Ordered
<1>8. Channel(c)!IsNext(log[c][i], arrived[c][n][i], n, p)
  <2>1. Channel(c)!Visible(log[c][i][p], n)
    BY <1>5 DEF Reaches, Channel!Visible
  <2>2. \A q \in (arrived[c][n][i] + 1)..(p - 1) : ~Channel(c)!Visible(log[c][i][q], n)
    BY <1>7 DEF Reaches, Channel!Visible
  <2>3. p \in (arrived[c][n][i] + 1)..Len(log[c][i])
    BY <1>5, <1>6
  <2>. QED BY <2>1, <2>2, <2>3 DEF Channel!IsNext
<1>9. arrived'[c] = [arrived[c] EXCEPT ![n][i] = p] /\ \A e \in Chan : e # c => arrived'[e] = arrived[e]
  <2>1. arrived' = [arrived EXCEPT ![c][n][i] = p]
    BY <1>1, <1>2
  <2>. QED BY <1>t, <2>1
<1>10. UNCHANGED <<log, handled, worker, sendEof, synchronized, counts>>
  BY DEF Dispatch
<1>11. \A e \in Chan : WorkersKept(e) /\ CountersKept(e)
  BY <1>10, Unmoved, CountsKept
<1>12. \/ /\ m.type = "eof" /\ failed' = failed
          /\ eofCounter' = [eofCounter EXCEPT ![n][c] = @ + 1]
          /\ recvEof' = [recvEof EXCEPT ![n][c] = @ \/ EofFromAll(eofCounter[n][c] + 1)]
       \/ /\ m.type # "eof" /\ recvEof' = recvEof /\ eofCounter' = eofCounter
          /\ \/ recvEof[n][c] /\ failed' = [failed EXCEPT ![n][c] = TRUE]
             \/ ~recvEof[n][c] /\ failed' = failed
  BY <1>1, <1>2 DEF Enqueue
<1>13. ASSUME NEW e \in Chan, e # c PROVE UNCHANGED Channel(e)!vars
  <2>1. /\ failed' = failed \/ failed' = [failed EXCEPT ![n][c] = TRUE]
        /\ eofCounter' = eofCounter \/ eofCounter' = [eofCounter EXCEPT ![n][c] = @ + 1]
        /\ \/ recvEof' = recvEof
           \/ recvEof' = [recvEof EXCEPT ![n][c] = @ \/ EofFromAll(eofCounter[n][c] + 1)]
    BY <1>12
  <2>2. FailedKept(e)
    <3>1. failed \in [Node -> [Chan -> BOOLEAN]] /\ e # c
      BY <1>t, <1>13
    <3>. QED BY <2>1, <3>1 DEF FailedKept
  <2>3. ClosingKept(e)
    <3>1. e # c /\ recvEof \in [Node -> [Chan -> BOOLEAN]] /\ eofCounter \in [Node -> [Chan -> Nat]]
      BY <1>t, <1>13
    <3>2. \A k \in Node : eofCounter'[k][e] = eofCounter[k][e]
      BY <2>1, <3>1
    <3>3. \A k \in Node : recvEof'[k][e] = recvEof[k][e]
      <4>1. CASE recvEof' = recvEof
        BY <4>1
      <4>2. CASE recvEof' = [recvEof EXCEPT ![n][c] = @ \/ EofFromAll(eofCounter[n][c] + 1)]
        BY <3>1, <4>2
      <4>. QED BY <2>1, <4>1, <4>2
    <3>. QED BY <3>2, <3>3 DEF ClosingKept
  <2>4. LinksKept(e)
    BY <1>9, <1>10, <1>13 DEF LinksKept
  <2>. QED BY <1>11, <2>2, <2>3, <2>4, UntouchedStutters
<1>14. /\ Pcs'[c] = Pcs[c] /\ Flags'[c] = Flags[c] /\ Returns'[c] = Returns[c] /\ Completions'[c] = Completions[c]
       /\ OfChannel(syncCounter)'[c] = OfChannel(syncCounter)[c]
       /\ OfChannel(ackCounter)'[c] = OfChannel(ackCounter)[c]
  BY <1>10, <1>11, WorkersStay, RoundsStay, CountersStay
<1>15. \A t : PushedOf(t)'[c] = PushedOf(t)[c] /\ HandledOf(t)'[c] = HandledOf(t)[c]
  BY <1>10 DEF PushedOf, HandledOf, CountOf
<1>16. CASE m.type = "eof"
  <2>1. /\ OfChannel(eofCounter)'[c] = [OfChannel(eofCounter)[c] EXCEPT ![n] = @ + 1]
        /\ OfChannel(eofCounter)[c][n] = eofCounter[n][c] /\ OfChannel(recvEof)[c][n] = recvEof[n][c]
        /\ OfChannel(failed)'[c] = OfChannel(failed)[c]
    <3>1. failed' = failed /\ eofCounter' = [eofCounter EXCEPT ![n][c] = @ + 1]
      BY <1>12, <1>16
    <3>. QED BY <1>t, <3>1 DEF OfChannel
  <2>2. Channel(c)!EofFromAll(eofCounter[n][c] + 1) <=> EofFromAll(eofCounter[n][c] + 1)
    BY SizeSame DEF Channel!EofFromAll, EofFromAll
  <2>3. OfChannel(recvEof)'[c] =
          [OfChannel(recvEof)[c] EXCEPT ![n] = recvEof[n][c] \/ Channel(c)!EofFromAll(eofCounter[n][c] + 1)]
    <3>. DEFINE v == recvEof[n][c] \/ EofFromAll(eofCounter[n][c] + 1)
    <3>1. recvEof' = [recvEof EXCEPT ![n][c] = v]
      BY <1>12, <1>16
    <3>2. v \in BOOLEAN
      BY <1>t DEF EofFromAll
    <3>. HIDE DEF v
    <3>3. OfChannel(recvEof)'[c] = [OfChannel(recvEof)[c] EXCEPT ![n] = v]
      BY <1>t, <3>1, <3>2 DEF OfChannel
    <3>4. (recvEof[n][c] \/ Channel(c)!EofFromAll(eofCounter[n][c] + 1)) = v
      BY <1>t, <2>2 DEF v, EofFromAll, Channel!EofFromAll
    <3>. QED BY <3>3, <3>4
  <2>4. Channel(c)!Arrive(n, i)
    BY <1>5, <1>8, <1>9, <1>10, <1>14, <1>15, <1>16, <2>1, <2>3
    DEF Channel!Arrive, Channel!counts, Channel!history
  <2>. QED BY <1>13, <2>4
<1>17. CASE m.type # "eof"
  <2>1. /\ OfChannel(eofCounter)'[c] = OfChannel(eofCounter)[c] /\ OfChannel(recvEof)'[c] = OfChannel(recvEof)[c]
    BY <1>12, <1>17, LoopKept, ClosingStays
  <2>2. OfChannel(failed)'[c] = [OfChannel(failed)[c] EXCEPT ![n] = @ \/ OfChannel(recvEof)[c][n]]
    <3>1. \/ recvEof[n][c] /\ failed' = [failed EXCEPT ![n][c] = TRUE]
          \/ ~recvEof[n][c] /\ failed' = failed
      BY <1>12, <1>17
    <3>2. /\ OfChannel(recvEof)[c][n] = recvEof[n][c] /\ OfChannel(failed)[c][n] = failed[n][c]
          /\ recvEof[n][c] \in BOOLEAN /\ failed[n][c] \in BOOLEAN
      BY <1>t DEF OfChannel
    <3>3. CASE recvEof[n][c] /\ failed' = [failed EXCEPT ![n][c] = TRUE]
      <4>1. OfChannel(failed)'[c] = [OfChannel(failed)[c] EXCEPT ![n] = TRUE]
        BY <1>t, <3>3 DEF OfChannel
      <4>2. (failed[n][c] \/ recvEof[n][c]) = TRUE
        BY <3>2, <3>3
      <4>. QED BY <3>2, <4>1, <4>2
    <3>4. CASE ~recvEof[n][c] /\ failed' = failed
      <4>1. OfChannel(failed)'[c] = OfChannel(failed)[c]
        BY <3>4 DEF OfChannel
      <4>2. (failed[n][c] \/ recvEof[n][c]) = failed[n][c]
        BY <3>2, <3>4
      <4>3. OfChannel(failed)[c] = [OfChannel(failed)[c] EXCEPT ![n] = OfChannel(failed)[c][n]]
        BY DEF OfChannel
      <4>. QED BY <3>2, <4>1, <4>2, <4>3
    <3>. QED BY <3>1, <3>3, <3>4
  <2>3. Channel(c)!Arrive(n, i)
    BY <1>5, <1>8, <1>9, <1>10, <1>14, <1>15, <1>17, <2>1, <2>2
    DEF Channel!Arrive, Channel!counts, Channel!closing, Channel!history
  <2>. QED BY <1>13, <2>3
<1>. QED BY <1>16, <1>17

\* What the main loop does besides, and the pop of the receive handler.
Unseen(n) ==
  \/ Top(n) \/ ReadEof(n) \/ ReadEmpty(n) \/ Poll(n) \/ PollNext(n) \/ ReceiveNothing(n)
  \/ \E i \in Node : Receive(n, i)
  \/ \E c \in Chan : PopReceived(n, c)

LEMMA UnseenStutters ==
  ASSUME NEW n \in Node, Unseen(n) \/ UNCHANGED vars
  PROVE  \A c \in Chan : UNCHANGED Channel(c)!vars
<1>1. UNCHANGED <<worker, sendEof, synchronized, counts, eofCounter, recvEof, failed, log, cursors>>
  BY DEF Unseen, vars, queues, counts, loop, cursors, Top, ReadEof, ReadEmpty, Poll, PollNext,
         ReceiveNothing, Receive, PopReceived
<1>2. ASSUME NEW c \in Chan
      PROVE  WorkersKept(c) /\ CountersKept(c) /\ ClosingKept(c) /\ FailedKept(c) /\ LinksKept(c)
  BY <1>1, Unmoved, CountsKept, LoopKept DEF FailedKept, LinksKept, cursors
<1>. QED BY <1>2, UntouchedStutters

\* A step of the system is one step of at most one channel.
LEMMA ChannelsStep ==
  ASSUME SingleWorker, SingleWorkerInv, [Next]_vars
  PROVE  \A c \in Chan : [Channel(c)!Next]_(Channel(c)!vars)
<1>1. WorkerOK /\ HandlerOK /\ IInv /\ \A c \in Chan : Channel(c)!IInv
  BY DEF SingleWorkerInv, WorkerOK, HandlerOK, IInv
<1>2. ASSUME NEW c \in Chan, \A e \in Chan : e # c => UNCHANGED Channel(e)!vars, Channel(c)!Next
      PROVE  \A e \in Chan : [Channel(e)!Next]_(Channel(e)!vars)
  BY <1>2
<1>3. ASSUME NEW c \in Chan, NEW n \in Node, Channel(c)!Worker(n) PROVE Channel(c)!Next
  BY <1>3 DEF Channel!Next
<1>4. ASSUME NEW c \in Chan, NEW n \in Node, NEW i \in Node, Channel(c)!Arrive(n, i) \/ Channel(c)!Handle(n, i)
      PROVE  Channel(c)!Next
  BY <1>4 DEF Channel!Next
<1>5. ASSUME NEW n \in Node, WorkerStep(n) PROVE \A e \in Chan : [Channel(e)!Next]_(Channel(e)!vars)
  <2>1. ASSUME NEW c \in Chan, NEW d \in Node, Send(n, c, d) PROVE \A e \in Chan : [Channel(e)!Next]_(Channel(e)!vars)
    <3>1. Channel(c)!Send(n, d) /\ \A e \in Chan : e # c => UNCHANGED Channel(e)!vars
      BY <1>1, <2>1, SendIsSend
    <3>2. Channel(c)!Worker(n)
      BY <3>1 DEF Channel!Worker
    <3>. QED BY <1>2, <1>3, <3>1, <3>2
  <2>2. ASSUME NEW c \in Chan, Synchronize(n, c) PROVE \A e \in Chan : [Channel(e)!Next]_(Channel(e)!vars)
    <3>1. Channel(c)!Synchronize(n) /\ \A e \in Chan : e # c => UNCHANGED Channel(e)!vars
      BY <1>1, <2>2, SynchronizeIsSynchronize
    <3>2. Channel(c)!Worker(n)
      BY <3>1 DEF Channel!Worker
    <3>. QED BY <1>2, <1>3, <3>1, <3>2
  <2>3. ASSUME NEW c \in Chan, PushEof(n, c) PROVE \A e \in Chan : [Channel(e)!Next]_(Channel(e)!vars)
    <3>1. Channel(c)!PushEof(n) /\ \A e \in Chan : e # c => UNCHANGED Channel(e)!vars
      BY <1>1, <2>3, PushEofIsPushEof
    <3>2. Channel(c)!Worker(n)
      BY <3>1 DEF Channel!Worker
    <3>. QED BY <1>2, <1>3, <3>1, <3>2
  <2>4. ASSUME NEW w \in Thread, SynchronizeReturns(n, w) PROVE \A e \in Chan : [Channel(e)!Next]_(Channel(e)!vars)
    <3>1. PICK c \in Chan : Channel(c)!SynchronizeReturns(n) /\ \A e \in Chan : e # c => UNCHANGED Channel(e)!vars
      BY <1>1, <2>4, SynchronizeReturnsIsThat
    <3>2. Channel(c)!Worker(n)
      BY <3>1 DEF Channel!Worker
    <3>. QED BY <1>2, <1>3, <3>1, <3>2
  <2>5. ASSUME NEW w \in Thread, MarkEof(n, w) PROVE \A e \in Chan : [Channel(e)!Next]_(Channel(e)!vars)
    <3>1. PICK c \in Chan : Channel(c)!MarkEof(n) /\ \A e \in Chan : e # c => UNCHANGED Channel(e)!vars
      BY <1>1, <2>5, MarkEofIsMarkEof
    <3>2. Channel(c)!Worker(n)
      BY <3>1 DEF Channel!Worker
    <3>. QED BY <1>2, <1>3, <3>1, <3>2
  <2>. QED BY <1>5, <2>1, <2>2, <2>3, <2>4, <2>5 DEF WorkerStep
<1>6. ASSUME NEW n \in Node, NEW c \in Chan, Handle(n, c) PROVE \A e \in Chan : [Channel(e)!Next]_(Channel(e)!vars)
  <2>1. (\E i \in Node : Channel(c)!Handle(n, i)) /\ \A e \in Chan : e # c => UNCHANGED Channel(e)!vars
    <3>1. CASE HandleData(n, c)
      BY <1>1, <3>1, HandleDataIsHandleData DEF Channel!Handle
    <3>2. CASE HandleSync(n, c)
      BY <1>1, <3>2, HandleSyncIsHandleSync DEF Channel!Handle
    <3>3. CASE HandleAck(n, c)
      BY <1>1, <3>3, HandleAckIsHandleAck DEF Channel!Handle
    <3>. QED BY <1>6, <3>1, <3>2, <3>3 DEF Handle
  <2>. QED BY <1>2, <1>4, <2>1
<1>7. ASSUME NEW n \in Node, Dispatch(n) PROVE \A e \in Chan : [Channel(e)!Next]_(Channel(e)!vars)
  <2>1. PICK c \in Chan : /\ \E i \in Node : Channel(c)!Arrive(n, i)
                          /\ \A e \in Chan : e # c => UNCHANGED Channel(e)!vars
    BY <1>1, <1>7, DispatchIsArrive
  <2>. QED BY <1>2, <1>4, <2>1
<1>8. ASSUME NEW n \in Node, Unseen(n) \/ UNCHANGED vars PROVE \A e \in Chan : [Channel(e)!Next]_(Channel(e)!vars)
  BY <1>8, UnseenStutters
<1>9. CASE UNCHANGED vars
  BY <1>8, <1>9, CommAssumption
<1>10. CASE Next
  BY <1>5, <1>6, <1>7, <1>8, <1>10 DEF Next, MainStep, Unseen
<1>. QED BY <1>9, <1>10

-----------------------------------------------------------------------------
(* The rest of the invariant of the single worker.                         *)

LEMMA NextWorker ==
  ASSUME TypeOK, WorkerInv, [Next]_vars PROVE WorkerInv'
<1>t. /\ worker \in [Node -> [Thread -> [at : {"wait", "mark"}, chan : Chan] \cup {Idle}]]
      /\ sendEof \in [Node -> [Chan -> BOOLEAN]]
  BY DEF TypeOK
<1>1. CASE worker' = worker /\ sendEof' = sendEof
  BY <1>1 DEF WorkerInv
<1>2. ASSUME NEW n \in Node, NEW w \in Thread, worker' = [worker EXCEPT ![n][w] = Idle], sendEof' = sendEof
      PROVE  WorkerInv'
  <2>1. \A m \in Node, v \in Thread : worker'[m][v] = IF m = n /\ v = w THEN Idle ELSE worker[m][v]
    BY <1>t, <1>2
  <2>. QED BY <1>2, <2>1 DEF WorkerInv
<1>3. ASSUME NEW n \in Node, NEW c \in Chan, NEW a, MayUse(n, c), sendEof' = sendEof,
             worker' = [worker EXCEPT ![n][WorkerOf[c]] = [at |-> a, chan |-> c]]
      PROVE  WorkerInv'
  <2>1. WorkerOf[c] \in Thread
    BY CommAssumption
  <2>2. \A m \in Node, v \in Thread :
          worker'[m][v] = IF m = n /\ v = WorkerOf[c] THEN [at |-> a, chan |-> c] ELSE worker[m][v]
    BY <1>t, <1>3, <2>1
  <2>3. ~sendEof[n][c] /\ [at |-> a, chan |-> c].chan = c
    BY <1>3 DEF MayUse
  <2>4. ASSUME NEW m \in Node, NEW v \in Thread, worker'[m][v] # Idle
        PROVE  WorkerOf[worker'[m][v].chan] = v /\ ~sendEof'[m][worker'[m][v].chan]
    <3>1. CASE m = n /\ v = WorkerOf[c]
      BY <1>3, <2>2, <2>3, <3>1
    <3>2. CASE ~(m = n /\ v = WorkerOf[c])
      <4>1. worker'[m][v] = worker[m][v] /\ worker[m][v] # Idle
        BY <2>2, <2>4, <3>2
      <4>. QED BY <1>3, <4>1 DEF WorkerInv
    <3>. QED BY <3>1, <3>2
  <2>. QED BY <2>4 DEF WorkerInv
<1>4. ASSUME NEW n \in Node, NEW w \in Thread, MarkEof(n, w) PROVE WorkerInv'
  <2>1. worker[n][w] # Idle
    BY <1>4 DEF MarkEof, Idle
  <2>2. PICK c \in Chan : c = worker[n][w].chan
    BY <1>t, <2>1
  <2>3. worker' = [worker EXCEPT ![n][w] = Idle] /\ sendEof' = [sendEof EXCEPT ![n][c] = TRUE]
    BY <1>4, <2>2 DEF MarkEof
  <2>4. WorkerOf[c] = w
    BY <2>1, <2>2 DEF WorkerInv
  <2>5. /\ \A m \in Node, v \in Thread : worker'[m][v] = IF m = n /\ v = w THEN Idle ELSE worker[m][v]
        /\ \A m \in Node, e \in Chan : sendEof'[m][e] = IF m = n /\ e = c THEN TRUE ELSE sendEof[m][e]
    BY <1>t, <2>3
  <2>6. ASSUME NEW m \in Node, NEW v \in Thread, worker'[m][v] # Idle
        PROVE  WorkerOf[worker'[m][v].chan] = v /\ ~sendEof'[m][worker'[m][v].chan]
    <3>1. worker'[m][v] = worker[m][v] /\ worker[m][v] # Idle /\ (m # n \/ v # w)
      BY <2>5, <2>6
    <3>2. WorkerOf[worker[m][v].chan] = v /\ ~sendEof[m][worker[m][v].chan] /\ worker[m][v].chan \in Chan
      BY <1>t, <3>1 DEF WorkerInv
    <3>3. sendEof'[m][worker[m][v].chan] = sendEof[m][worker[m][v].chan]
      BY <2>4, <2>5, <3>1, <3>2
    <3>. QED BY <3>1, <3>2, <3>3
  <2>. QED BY <2>6 DEF WorkerInv
<1>5. ASSUME NEW n \in Node, WorkerStep(n) PROVE WorkerInv'
  <2>1. ASSUME NEW c \in Chan, NEW d \in Node, Send(n, c, d) PROVE WorkerInv'
    BY <1>1, <2>1 DEF Send
  <2>2. ASSUME NEW c \in Chan, Synchronize(n, c) PROVE WorkerInv'
    BY <1>3, <2>2 DEF Synchronize
  <2>3. ASSUME NEW c \in Chan, PushEof(n, c) PROVE WorkerInv'
    BY <1>3, <2>3 DEF PushEof
  <2>4. ASSUME NEW w \in Thread, SynchronizeReturns(n, w) PROVE WorkerInv'
    BY <1>2, <2>4 DEF SynchronizeReturns, queues
  <2>. QED BY <1>4, <1>5, <2>1, <2>2, <2>3, <2>4 DEF WorkerStep
<1>6. ASSUME NEW n \in Node, MainStep(n) \/ (\E c \in Chan : PopReceived(n, c) \/ Handle(n, c)) PROVE WorkerInv'
  BY <1>1, <1>6 DEF MainStep, Top, ReadEof, ReadEmpty, Poll, PollNext, ReceiveNothing, Receive, Dispatch,
                    PopReceived, Handle, HandleData, HandleSync, HandleAck, queues
<1>7. CASE UNCHANGED vars
  BY <1>1, <1>7 DEF vars, queues
<1>. QED BY <1>5, <1>6, <1>7 DEF Next

LEMMA NextFlag ==
  ASSUME SingleWorker, SingleWorkerInv, [Next]_vars PROVE FlagInv'
<1>0. TypeOK /\ HandlerOK /\ WorkerInv /\ FlagInv /\ \A c \in Chan : Channel(c)!IInv
  BY DEF SingleWorkerInv, HandlerOK, IInv
<1>t. /\ worker \in [Node -> [Thread -> [at : {"wait", "mark"}, chan : Chan] \cup {Idle}]]
      /\ synchronized \in [Node -> BOOLEAN]
  BY <1>0 DEF TypeOK
<1>1. CASE worker' = worker /\ synchronized' = synchronized
  BY <1>0, <1>1 DEF FlagInv, Waits
<1>2. ASSUME NEW n \in Node, ~synchronized'[n],
             \A m \in Node : m # n => worker'[m] = worker[m] /\ synchronized'[m] = synchronized[m]
      PROVE  FlagInv'
  BY <1>0, <1>2 DEF FlagInv, Waits
<1>3. ASSUME NEW n \in Node, NEW c \in Chan, NEW v, MayUse(n, c), synchronized' = synchronized,
             worker' = [worker EXCEPT ![n][WorkerOf[c]] = v]
      PROVE  FlagInv'
  <2>1. ~synchronized[n]
    BY <1>0, <1>3, IdleFacts
  <2>2. \A m \in Node : m # n => worker'[m] = worker[m]
    BY <1>t, <1>3
  <2>. QED BY <1>2, <1>3, <2>1, <2>2
<1>4. ASSUME NEW n \in Node, NEW w \in Thread, MarkEof(n, w) PROVE FlagInv'
  <2>1. worker[n][w] # Idle /\ worker[n][w].at = "mark"
    BY <1>4 DEF MarkEof, Idle
  <2>2. PICK c \in Chan : /\ \A e \in Chan : e # c => ~Waits(n, e)
                          /\ Waits(n, c) <=> worker[n][w].at = "wait"
    BY <1>0, <2>1, BusyFacts
  <2>3. ~synchronized[n]
    BY <1>0, <2>1, <2>2 DEF FlagInv
  <2>4. synchronized' = synchronized /\ \A m \in Node : m # n => worker'[m] = worker[m]
    BY <1>t, <1>4 DEF MarkEof
  <2>. QED BY <1>2, <2>3, <2>4
<1>5. ASSUME NEW n \in Node, NEW w \in Thread, SynchronizeReturns(n, w) PROVE FlagInv'
  <2>1. /\ synchronized' = [synchronized EXCEPT ![n] = FALSE]
        /\ worker' = [worker EXCEPT ![n][w] = Idle]
    BY <1>5 DEF SynchronizeReturns
  <2>2. ~synchronized'[n] /\ \A m \in Node : m # n => worker'[m] = worker[m] /\ synchronized'[m] = synchronized[m]
    BY <1>t, <2>1
  <2>. QED BY <1>2, <2>2
<1>6. ASSUME NEW n \in Node, WorkerStep(n) PROVE FlagInv'
  <2>1. ASSUME NEW c \in Chan, NEW d \in Node, Send(n, c, d) PROVE FlagInv'
    BY <1>1, <2>1 DEF Send
  <2>2. ASSUME NEW c \in Chan, Synchronize(n, c) PROVE FlagInv'
    BY <1>3, <2>2 DEF Synchronize
  <2>3. ASSUME NEW c \in Chan, PushEof(n, c) PROVE FlagInv'
    BY <1>3, <2>3 DEF PushEof
  <2>. QED BY <1>4, <1>5, <1>6, <2>1, <2>2, <2>3 DEF WorkerStep
<1>7. ASSUME NEW n \in Node, NEW c \in Chan, HandleAck(n, c) PROVE FlagInv'
  <2>1. worker' = worker
    BY <1>7 DEF HandleAck
  <2>2. synchronized' = synchronized \/ (synchronized' = [synchronized EXCEPT ![n] = TRUE] /\ Waits(n, c))
    BY <1>0, <1>7, HandleAckIsHandleAck
  <2>3. CASE synchronized' = [synchronized EXCEPT ![n] = TRUE] /\ Waits(n, c)
    <3>1. \A m \in Node : m # n => synchronized'[m] = synchronized[m]
      BY <1>t, <2>3
    <3>2. \A m \in Node, e \in Chan : Waits(m, e)' <=> Waits(m, e)
      BY <2>1 DEF Waits
    <3>3. ASSUME NEW m \in Node, synchronized'[m] PROVE \E e \in Chan : Waits(m, e)
      <4>1. CASE m = n
        BY <2>3, <4>1
      <4>2. CASE m # n
        BY <1>0, <3>1, <3>3, <4>2 DEF FlagInv
      <4>. QED BY <4>1, <4>2
    <3>. QED BY <3>2, <3>3 DEF FlagInv
  <2>. QED BY <1>1, <2>1, <2>2, <2>3
<1>8. ASSUME NEW n \in Node, MainStep(n) \/ (\E c \in Chan : PopReceived(n, c) \/ HandleData(n, c) \/ HandleSync(n, c))
      PROVE  FlagInv'
  BY <1>1, <1>8 DEF MainStep, Top, ReadEof, ReadEmpty, Poll, PollNext, ReceiveNothing, Receive, Dispatch,
                    PopReceived, HandleData, HandleSync
<1>9. CASE UNCHANGED vars
  BY <1>1, <1>9 DEF vars
<1>. QED BY <1>6, <1>7, <1>8, <1>9 DEF Next, Handle

LEMMA NextExit ==
  ASSUME TypeOK, ExitInv, [Next]_vars PROVE ExitInv'
<1>t. /\ recvEof \in [Node -> [Chan -> BOOLEAN]] /\ recvq \in [Node -> [Chan -> MessageQueue]]
      /\ main \in [Node -> {"top", "eof?", "empty?", "poll", "receive", "dispatch", "exited"}]
  BY DEF TypeOK
<1>1. CASE UNCHANGED <<main, recvq, recvEof>>
  BY <1>1 DEF ExitInv, AllDone, IsClosed
<1>2. ASSUME NEW n \in Node, main'[n] # "exited",
             \A m \in Node : m # n => main'[m] = main[m] /\ recvq'[m] = recvq[m] /\ recvEof'[m] = recvEof[m]
      PROVE  ExitInv'
  BY <1>2 DEF ExitInv, AllDone, IsClosed
<1>3. ASSUME NEW n \in Node, WorkerStep(n) PROVE ExitInv'
  BY <1>1, <1>3 DEF WorkerStep, Send, Synchronize, SynchronizeReturns, PushEof, MarkEof, loop, queues
<1>4. ASSUME NEW n \in Node, NEW c \in Chan, Handle(n, c) PROVE ExitInv'
  BY <1>1, <1>4 DEF Handle, HandleData, HandleSync, HandleAck, loop, queues
<1>5. ASSUME NEW n \in Node, NEW c \in Chan, PopReceived(n, c) PROVE ExitInv'
  <2>1. /\ recvq[n][c] # <<>> /\ recvq' = [recvq EXCEPT ![n][c] = Tail(@)]
        /\ UNCHANGED <<main, recvEof>>
    BY <1>5 DEF PopReceived, loop
  <2>2. main[n] # "exited"
    BY <2>1 DEF ExitInv, AllDone, IsClosed
  <2>3. \A m \in Node : m # n => recvq'[m] = recvq[m]
    BY <1>t, <2>1
  <2>. QED BY <1>2, <2>1, <2>2, <2>3
<1>6. ASSUME NEW n \in Node, MainStep(n) PROVE ExitInv'
  <2>1. CASE Top(n)
    <3>1. \/ AllDone(n) /\ main' = [main EXCEPT ![n] = "exited"]
          \/ ~AllDone(n) /\ main' = [main EXCEPT ![n] = IF sendDone[n] THEN "receive" ELSE "eof?"]
      BY <2>1 DEF Top, Goto
    <3>2. UNCHANGED <<recvq, recvEof>>
      BY <2>1 DEF Top, queues
    <3>3. \A m \in Node : AllDone(m)' <=> AllDone(m)
      BY <3>2 DEF AllDone, IsClosed
    <3>. QED BY <1>t, <3>1, <3>3 DEF ExitInv
  <2>2. CASE ReadEof(n) \/ ReadEmpty(n) \/ Poll(n) \/ PollNext(n) \/ ReceiveNothing(n) \/ \E i \in Node : Receive(n, i)
    <3>1. /\ UNCHANGED <<recvq, recvEof>>
          /\ \/ main' = main
             \/ \E at \in {"eof?", "empty?", "poll", "receive", "top", "dispatch"} :
                  main' = [main EXCEPT ![n] = at]
      <4>1. CASE ReadEof(n)
        BY <4>1 DEF ReadEof, Goto, queues
      <4>2. CASE ReadEmpty(n)
        BY <4>2 DEF ReadEmpty, Goto, queues
      <4>3. CASE Poll(n)
        BY <4>3 DEF Poll, loop
      <4>4. CASE PollNext(n)
        BY <4>4 DEF PollNext, Goto, queues
      <4>5. CASE ReceiveNothing(n)
        BY <4>5 DEF ReceiveNothing, Goto, queues
      <4>6. CASE \E i \in Node : Receive(n, i)
        BY <4>6 DEF Receive, Goto, queues
      <4>. QED BY <2>2, <4>1, <4>2, <4>3, <4>4, <4>5, <4>6
    <3>2. CASE main' = main
      BY <1>1, <3>1, <3>2
    <3>3. ASSUME NEW at \in {"eof?", "empty?", "poll", "receive", "top", "dispatch"}, main' = [main EXCEPT ![n] = at]
          PROVE  ExitInv'
      <4>1. main'[n] = at /\ at # "exited" /\ \A m \in Node : m # n => main'[m] = main[m]
        BY <1>t, <3>3
      <4>. QED BY <1>2, <3>1, <4>1
    <3>. QED BY <3>1, <3>2, <3>3
  <2>3. CASE Dispatch(n)
    <3>1. main'[n] # "exited" /\ \A m \in Node : m # n => main'[m] = main[m]
      <4>1. main[n] = "dispatch" /\ (main' = main \/ main' = [main EXCEPT ![n] = "top"])
        BY <2>3 DEF Dispatch, Goto
      <4>. QED BY <1>t, <4>1
    <3>2. \A m \in Node : m # n => recvq'[m] = recvq[m] /\ recvEof'[m] = recvEof[m]
      <4>1. PICK m : Enqueue(n, m)
        BY <2>3 DEF Dispatch
      <4>2. /\ recvq' = recvq \/ recvq' = [recvq EXCEPT ![n][m.chan] = Append(@, m)]
            /\ \/ recvEof' = recvEof
               \/ recvEof' = [recvEof EXCEPT ![n][m.chan] = @ \/ EofFromAll(eofCounter[n][m.chan] + 1)]
        BY <4>1 DEF Enqueue
      <4>3. \A k \in Node : k # n => recvq'[k] = recvq[k]
        BY <1>t, <4>2
      <4>4. \A k \in Node : k # n => recvEof'[k] = recvEof[k]
        BY <1>t, <4>2
      <4>. QED BY <4>3, <4>4
    <3>. QED BY <1>2, <3>1, <3>2
  <2>. QED BY <1>6, <2>1, <2>2, <2>3 DEF MainStep
<1>7. CASE UNCHANGED vars
  BY <1>1, <1>7 DEF vars, loop, queues
<1>. QED BY <1>3, <1>4, <1>5, <1>6, <1>7 DEF Next

\* A flush of all the buffers leaves them empty.
LEMMA FlushEmpties ==
  ASSUME TypeOK, NEW n \in Node, NEW D \in SUBSET Node, NEW b, Flush(n, D, b)
  PROVE  /\ \A k \in Node : k # n => buf'[k] = buf[k]
         /\ D = Node => \A d \in Node : buf'[n][d] = <<>>
<1>. DEFINE full == {d \in D : b[d] # <<>>}
<1>1. buf \in [Node -> [Node -> MessageQueue]]
  BY DEF TypeOK
<1>2. buf' = [buf EXCEPT ![n] = [d \in Node |-> IF d \in full THEN <<>> ELSE b[d]]]
  BY DEF Flush
<1>3. buf'[n] = [d \in Node |-> IF d \in full THEN <<>> ELSE b[d]] /\ \A k \in Node : k # n => buf'[k] = buf[k]
  BY <1>1, <1>2
<1>. QED BY <1>3

LEMMA MaybeFlushEmpties ==
  ASSUME TypeOK, NEW n \in Node, MaybeFlush(n)
  PROVE  \A k, d \in Node : buf'[k][d] = buf[k][d] \/ buf'[k][d] = <<>>
<1>1. CASE UNCHANGED backend
  BY <1>1 DEF backend
<1>2. CASE FlushAll(n)
  <2>1. /\ \A k \in Node : k # n => buf'[k] = buf[k]
        /\ \A d \in Node : buf'[n][d] = <<>>
    BY <1>2, FlushEmpties DEF FlushAll
  <2>. QED BY <2>1
<1>. QED BY <1>1, <1>2 DEF MaybeFlush

LEMMA PollFlushed ==
  ASSUME TypeOK, SendInv, FlushedInv, NEW n \in Node, Poll(n)
  PROVE  FlushedInv'
<1>0. PICK c \in Chan : c = chan[n]
  BY DEF TypeOK
<1>. DEFINE s == sendq[n][c]  m == Head(s)  l == log[c][n]
<1>1. /\ s # <<>> /\ BackendSend(n, m) /\ log' = log
      /\ sendq' = [sendq EXCEPT ![n][c] = Tail(s)]
  BY <1>0 DEF Poll
<1>2. /\ s \in Seq(Message) /\ Len(l) \in Nat /\ sendq \in [Node -> [Chan -> MessageQueue]]
  BY LogFacts DEF TypeOK
<1>3. /\ m = s[1] /\ m \in Message /\ 1 \in DOMAIN s /\ Len(s) \in Nat /\ Len(s) > 0
      /\ Len(Tail(s)) = Len(s) - 1
  BY <1>1, <1>2, TailFacts, SeqFacts
<1>4. sendq'[n][c] = Tail(s) /\ \A k \in Node : k # n => sendq'[k] = sendq[k]
  BY <1>1, <1>2
<1>5. m.chan = c /\ m.from = n /\ m.num = Polled(c, n) + 1 /\ Logged(m)
  <2>1. SendCell(n, c)
    BY <1>2, SendCells
  <2>. QED BY <1>3, <2>1 DEF SendCell
<1>6. \A k \in Node : k # n => buf'[k] = buf[k]
  <2>1. \E D \in SUBSET Node : \E b : Flush(n, D, b)
    <3>1. m.dest \in Node
      BY <1>3, MessageFields
    <3>. QED BY <1>1, <3>1 DEF BackendSend
  <2>. QED BY <2>1, FlushEmpties
<1>. HIDE DEF s, m, l
<1>. SUFFICES ASSUME NEW k \in Node, \A e \in Chan : EofPolled(k, e)' PROVE \A d \in Node : buf'[k][d] = <<>>
  BY DEF FlushedInv
<1>7. CASE k # n
  <2>1. \A e \in Chan : EofPolled(k, e)
    BY <1>1, <1>4, <1>7 DEF EofPolled, Channel!EndsInEof
  <2>. QED BY <1>6, <1>7, <2>1 DEF FlushedInv
<1>8. CASE k = n
  <2>1. sendq'[n][c] = <<>> /\ log'[c][n][Len(log'[c][n])].type = "eof"
    <3>1. EofPolled(n, c)'
      BY <1>8
    <3>. QED BY <3>1 DEF EofPolled, Channel!EndsInEof
  <2>2. Len(s) = 1
    <3>1. Tail(s) = <<>>
      BY <1>4, <2>1
    <3>2. Len(Tail(s)) = 0
      <4>1. Len(<<>>) = 0
        OBVIOUS
      <4>. QED BY ONLY <3>1, <4>1, Zenon
    <3>3. PICK z \in Nat : z = Len(s)
      BY <1>3
    <3>4. z - 1 = 0
      BY <1>3, <3>2, <3>3
    <3>5. z = 1
      BY <3>4
    <3>. QED BY <3>3, <3>5
  <2>3. m.num = Len(l) /\ l[m.num].type = m.type
    <3>1. Polled(c, n) = Len(l) - Len(s)
      BY DEF Polled, l, s
    <3>2. m.num = Len(l)
      BY <1>2, <1>5, <2>2, <3>1
    <3>. QED BY <1>5, <3>2 DEF Logged, l
  <2>4. m.type = "eof"
    BY <1>1, <2>1, <2>3 DEF l
  <2>5. Flush(n, Node, Broadcast(n, m))
    BY <1>1, <2>4 DEF BackendSend
  <2>. QED BY <1>8, <2>5, FlushEmpties
<1>. QED BY <1>7, <1>8

LEMMA NextFlushed ==
  ASSUME TypeOK, SendInv, FlushedInv, [Next]_vars PROVE FlushedInv'
<1>1. ASSUME sendq' = sendq, log' = log, \A k, d \in Node : buf'[k][d] = buf[k][d] \/ buf'[k][d] = <<>>
      PROVE  FlushedInv'
  BY <1>1 DEF FlushedInv, EofPolled, Channel!EndsInEof
<1>2. ASSUME NEW n \in Node, NEW c \in Chan, NEW t \in MsgType, NEW d \in Node, Push(n, c, t, d), buf' = buf
      PROVE  FlushedInv'
  <2>1. PICK m \in Message, e \in LogEntry :
          /\ sendq' = [sendq EXCEPT ![n][c] = Append(sendq[n][c], m)]
          /\ log' = [log EXCEPT ![c][n] = Append(log[c][n], e)]
    BY <1>2, PushEffect
  <2>2. /\ sendq \in [Node -> [Chan -> MessageQueue]] /\ log \in [Chan -> [Node -> Seq(LogEntry)]]
        /\ sendq[n][c] \in Seq(Message)
    BY DEF TypeOK, MessageQueue
  <2>3. sendq'[n][c] # <<>>
    <3>1. Append(sendq[n][c], m) # <<>>
      <4>1. PICK s \in Seq(Message) : s = sendq[n][c]
        BY <2>2
      <4>. QED BY <4>1, AppendFacts
    <3>2. sendq'[n][c] = Append(sendq[n][c], m)
      BY <2>1, <2>2
    <3>. QED BY <3>1, <3>2
  <2>4. \A k \in Node, x \in Chan : k # n => sendq'[k][x] = sendq[k][x] /\ log'[x][k] = log[x][k]
    BY <2>1, <2>2
  <2>. SUFFICES ASSUME NEW k \in Node, \A x \in Chan : EofPolled(k, x)' PROVE \A x \in Node : buf'[k][x] = <<>>
    BY DEF FlushedInv
  <2>5. k # n
    BY <2>3 DEF EofPolled
  <2>6. \A x \in Chan : EofPolled(k, x)
    BY <2>4, <2>5 DEF EofPolled, Channel!EndsInEof
  <2>. QED BY <1>2, <2>6 DEF FlushedInv
<1>3. ASSUME NEW n \in Node, WorkerStep(n) PROVE FlushedInv'
  <2>1. ASSUME NEW c \in Chan, NEW d \in Node, Send(n, c, d) PROVE FlushedInv'
    BY <1>2, <2>1 DEF Send, backend, MsgType
  <2>2. ASSUME NEW c \in Chan, Synchronize(n, c) PROVE FlushedInv'
    BY <1>2, <2>2 DEF Synchronize, backend, MsgType
  <2>3. ASSUME NEW c \in Chan, PushEof(n, c) PROVE FlushedInv'
    BY <1>2, <2>3 DEF PushEof, backend, MsgType
  <2>4. ASSUME NEW w \in Thread, SynchronizeReturns(n, w) \/ MarkEof(n, w) PROVE FlushedInv'
    BY <1>1, <2>4 DEF SynchronizeReturns, MarkEof, backend, queues
  <2>. QED BY <1>3, <2>1, <2>2, <2>3, <2>4 DEF WorkerStep
<1>4. ASSUME NEW n \in Node, NEW c \in Chan, PopReceived(n, c) \/ Handle(n, c) PROVE FlushedInv'
  <2>1. CASE PopReceived(n, c) \/ HandleData(n, c) \/ HandleAck(n, c)
    BY <1>1, <2>1 DEF PopReceived, HandleData, HandleAck, backend, queues
  <2>2. CASE HandleSync(n, c)
    <3>1. buf' = buf /\ (Push(n, c, "ack", n) \/ UNCHANGED <<sendq, log>>)
      BY <2>2 DEF HandleSync, SendAck, backend
    <3>. QED BY <1>1, <1>2, <3>1 DEF MsgType
  <2>. QED BY <1>4, <2>1, <2>2 DEF Handle
<1>5. ASSUME NEW n \in Node, MainStep(n) PROVE FlushedInv'
  <2>1. CASE Top(n) \/ ReadEof(n) \/ ReadEmpty(n) \/ PollNext(n) \/ \E i \in Node : Receive(n, i)
    BY <1>1, <2>1 DEF Top, ReadEof, ReadEmpty, PollNext, Receive, queues, backend
  <2>2. CASE ReceiveNothing(n) \/ Dispatch(n)
    <3>1. UNCHANGED <<sendq, log>> /\ (MaybeFlush(n) \/ UNCHANGED backend)
      BY <2>2 DEF ReceiveNothing, Dispatch, queues
    <3>. QED BY <1>1, <3>1, MaybeFlushEmpties DEF backend
  <2>. QED BY <1>5, <2>1, <2>2, PollFlushed DEF MainStep
<1>6. CASE UNCHANGED vars
  BY <1>1, <1>6 DEF vars, queues, backend
<1>. QED BY <1>3, <1>4, <1>5, <1>6 DEF Next

-----------------------------------------------------------------------------
(* The theorems of the single worker.                                      *)

\* Every channel starts as SyncChannel does.
LEMMA InitChannels ==
  ASSUME Init, NEW c \in Chan PROVE Channel(c)!Init
<1>1. \A n \in Node : ~Waits(n, c) /\ WorkerAt(n, c) = "run"
  <2>1. Idle # [at |-> "wait", chan |-> c] /\ Idle # [at |-> "mark", chan |-> c] /\ WorkerOf[c] \in Thread
    BY CommAssumption DEF Idle
  <2>. QED BY <2>1 DEF Init, Waits, WorkerAt
<1>2. \A t : \A n \in Node : CountOf(t, log[c][n]) = 0
  <2>1. \A t : CountOf(t, <<>>) = 0
    <3>1. \A t : {p \in 1..Len(<<>>) : <<>>[p].type = t} = {}
      OBVIOUS
    <3>. QED BY <3>1, FS_EmptySet DEF CountOf
  <2>. QED BY <2>1 DEF Init
<1>3. \A t : \A j, i \in Node : CountOf(t, SubSeq(log[c][i], 1, handled[c][j][i])) = 0
  <2>1. \A t : CountOf(t, SubSeq(<<>>, 1, 0)) = 0
    <3>1. Len(SubSeq(<<>>, 1, 0)) = 0
      OBVIOUS
    <3>2. \A t : {p \in 1..Len(SubSeq(<<>>, 1, 0)) : SubSeq(<<>>, 1, 0)[p].type = t} = {}
      BY <3>1
    <3>. QED BY <3>2, FS_EmptySet DEF CountOf
  <2>. QED BY <2>1 DEF Init
<1>4. Pcs[c] = [n \in Node |-> "run"] /\ Flags[c] = [n \in Node |-> FALSE]
  BY <1>1 DEF Pcs, Flags, Woken
<1>5. /\ PushedOf("sync")[c] = [n \in Node |-> 0] /\ PushedOf("ack")[c] = [n \in Node |-> 0]
      /\ Returns[c] = [n \in Node |-> 0]
  BY <1>1, <1>2 DEF PushedOf, Returns
<1>6. Completions[c] = [n \in Node |-> 0]
  BY <1>1, <1>5 DEF Completions, Woken
<1>7. /\ HandledOf("sync")[c] = [j \in Node |-> [i \in Node |-> 0]]
      /\ HandledOf("ack")[c] = [j \in Node |-> [i \in Node |-> 0]]
  BY <1>3 DEF HandledOf
<1>8. /\ OfChannel(syncCounter)[c] = [n \in Node |-> 0] /\ OfChannel(ackCounter)[c] = [n \in Node |-> 0]
      /\ OfChannel(eofCounter)[c] = [n \in Node |-> 0] /\ OfChannel(recvEof)[c] = [n \in Node |-> FALSE]
      /\ OfChannel(failed)[c] = [n \in Node |-> FALSE]
  BY DEF Init, OfChannel
<1>9. /\ log[c] = [n \in Node |-> <<>>] /\ arrived[c] = [j \in Node |-> [i \in Node |-> 0]]
      /\ handled[c] = [j \in Node |-> [i \in Node |-> 0]]
  BY DEF Init
<1>. QED BY <1>4, <1>5, <1>6, <1>7, <1>8, <1>9 DEF Channel!Init

LEMMA InitSingle == Init => SingleWorkerInv
<1>. SUFFICES ASSUME Init PROVE SingleWorkerInv
  OBVIOUS
<1>1. IInv
  BY InitInv
<1>2. WorkerInv /\ FlagInv /\ ExitInv
  BY DEF Init, WorkerInv, FlagInv, ExitInv
<1>3. FlushedInv
  BY DEF Init, FlushedInv, BackendInit
<1>. QED BY <1>1, <1>2, <1>3, InitChannels, ChannelInit DEF SingleWorkerInv

LEMMA NextSingle == ASSUME SingleWorker, SingleWorkerInv, [Next]_vars PROVE SingleWorkerInv'
<1>1. TypeOK /\ SendInv /\ IInv /\ WorkerInv /\ FlagInv /\ FlushedInv /\ ExitInv /\ \A c \in Chan : Channel(c)!IInv
  BY DEF SingleWorkerInv, IInv
<1>2. IInv' /\ WorkerInv' /\ FlagInv' /\ FlushedInv' /\ ExitInv'
  BY <1>1, NextInv, NextWorker, NextFlag, NextFlushed, NextExit
<1>3. \A c \in Chan : Channel(c)!IInv'
  BY <1>1, ChannelsStep, ChannelStep
<1>. QED BY <1>2, <1>3 DEF SingleWorkerInv

\* The state of the channels never leaves that invariant.
THEOREM SingleWorkerInvariance == ASSUME SingleWorker PROVE Spec => []SingleWorkerInv
<1>1. SingleWorkerInv /\ [Next]_vars => SingleWorkerInv'
  BY NextSingle
<1>. QED BY <1>1, InitSingle, PTL DEF Spec

\* Every channel behaves as SyncChannel says.
THEOREM ChannelsImplement == ASSUME SingleWorker PROVE Spec => ChannelsRefine
<1>1. Init => \A c \in Chan : Channel(c)!Init
  BY InitChannels
<1>2. SingleWorkerInv /\ [Next]_vars => [\A c \in Chan : [Channel(c)!Next]_(Channel(c)!vars)]_vars
  BY ChannelsStep
<1>. QED BY <1>1, <1>2, SingleWorkerInvariance, PTL DEF Spec, ChannelsRefine

LEMMA ChannelsSynchronize == SingleWorkerInv => SynchronizeGuarantee
<1>1. ASSUME NEW c \in Chan PROVE Channel(c)!SyncGuarantee <=> Abs!Channel(c)!SyncGuarantee
  BY DEF Channel!SyncGuarantee, Abs!Channel!SyncGuarantee
<1>. SUFFICES ASSUME SingleWorkerInv, NEW c \in Chan PROVE Channel(c)!SyncGuarantee
  BY DEF SynchronizeGuarantee
<1>2. Abs!Channel(c)!IInv
  BY SameInv DEF SingleWorkerInv
<1>. QED BY <1>1, <1>2, AbsNodes, Abs!Guaranteed

\* synchronize() keeps its promise (communicator.h:73-79) over the whole path of
\* the messages: queues, buffers, batches and main loops.
THEOREM SynchronizeHolds == ASSUME SingleWorker PROVE Spec => []SynchronizeGuarantee
  BY ChannelsSynchronize, SingleWorkerInvariance, PTL

\* No thread is stopped by an exception of the protocol.
THEOREM NeverThrown == ASSUME SingleWorker PROVE Spec => []~Thrown
<1>1. SingleWorkerInv => ~Thrown
  BY ChannelSays DEF SingleWorkerInv, Thrown
<1>. QED BY <1>1, SingleWorkerInvariance, PTL

\* communicator.h:24, "no data is lost": nothing throws, so nothing is.
THEOREM NothingIsEverLost == ASSUME SingleWorker PROVE Spec => []NothingLost
  BY NothingIsLost, NeverThrown, PTL

\* Where the main loop has exited, all that was sent on any channel has been taken.
LEMMA ExitHasAll ==
  ASSUME SingleWorkerInv, NEW n \in Node, main[n] = "exited", NEW c \in Chan, NEW i \in Node
  PROVE  /\ recvEof[n][c] /\ recvq[n][c] = <<>>
         /\ Pcs[c][i] \in {"marking", "closed"} /\ arrived[c][n][i] = Len(log[c][i])
<1>1. recvEof[n][c] /\ recvq[n][c] = <<>>
  BY DEF SingleWorkerInv, ExitInv, AllDone, IsClosed
<1>2. Abs!Channel(c)!ClosedIsFinal
  BY AbsNodes, SameInv, Abs!Final DEF SingleWorkerInv
<1>3. OfChannel(recvEof)[c][n]
  BY <1>1 DEF OfChannel
<1>. QED BY <1>1, <1>2, <1>3 DEF Abs!Channel!ClosedIsFinal

\* A main loop that finds every receive queue closed has nothing left to send or
\* to receive, and no thread of its node waits for a message.
LEMMA ExitIsClean ==
  ASSUME SingleWorkerInv, NEW n \in Node, main[n] = "exited"
  PROVE  /\ \A c \in Chan : /\ sendq[n][c] = <<>> /\ ~Waits(n, c)
                            /\ \A k \in 1..Len(hand[n][c]) : hand[n][c][k].type = "data"
         /\ \A d \in Node : buf[n][d] = <<>> /\ net[d][n] = <<>>
<1>0. /\ TypeOK /\ LoopInv /\ SendInv /\ TransitInv /\ ReceivedInv /\ WorkerInv /\ FlushedInv
      /\ \A c \in Chan : Channel(c)!IInv
  BY DEF SingleWorkerInv, IInv
<1>1. \A c \in Chan : recvEof[n][c] /\ recvq[n][c] = <<>>
  BY ExitHasAll
<1>2. ASSUME NEW c \in Chan, NEW i \in Node
      PROVE  Pcs[c][i] \in {"marking", "closed"} /\ arrived[c][n][i] = Len(log[c][i])
  BY ExitHasAll
<1>3. \A c \in Chan, i \in Node : ~Waits(i, c) /\ Channel(c)!EndsInEof(log[c][i])
  <2>. TAKE c \in Chan, i \in Node
  <2>1. WorkerAt(i, c) \in {"marking", "closed"}
    BY <1>2 DEF Pcs
  <2>2. WorkerAt(i, c) = "wait" <=> Waits(i, c)
    BY <1>0, WorkerAtFacts, CommAssumption
  <2>. QED BY <1>0, <2>1, <2>2, ChannelSays
<1>4. ASSUME NEW c \in Chan PROVE sendq[n][c] = <<>>
  <2>1. /\ Polled(c, n) \in Nat /\ arrived[c][n][n] <= Polled(c, n) /\ Polled(c, n) <= Len(log[c][n])
        /\ Len(log[c][n]) \in Nat
    BY <1>0, CursorFacts
  <2>2. Len(sendq[n][c]) \in Nat /\ sendq[n][c] \in Seq(Message)
    BY <1>0, LogFacts
  <2>3. Polled(c, n) = Len(log[c][n]) - Len(sendq[n][c])
    BY DEF Polled
  <2>4. Len(sendq[n][c]) = 0
    <3>1. PICK a \in Nat, p \in Nat, l \in Nat, s \in Nat :
            /\ a = arrived[c][n][n] /\ p = Polled(c, n) /\ l = Len(log[c][n]) /\ s = Len(sendq[n][c])
      BY <1>2, <2>1, <2>2
    <3>2. a <= p /\ p <= l /\ p = l - s /\ a = l
      BY <1>2, <2>1, <2>3, <3>1
    <3>3. s = 0
      BY <3>2
    <3>. QED BY <3>1, <3>3
  <2>. QED BY <2>2, <2>4, SeqFacts
<1>5. ASSUME NEW c \in Chan, NEW k \in 1..Len(hand[n][c]) PROVE hand[n][c][k].type = "data"
  <2>1. hand[n][c] \in Seq(Message)
    BY <1>0, ReceivedTypes
  <2>2. PICK m \in Message : m = hand[n][c][k] /\ m \in ToSet(hand[n][c])
    BY <2>1, SeqFacts
  <2>3. ReceivedCell(n, c) /\ m \in Received(n, c)
    BY <1>0, <2>2, ReceivedCells DEF Received
  <2>4. m.chan = c /\ m.type # "eof" /\ Logged(m) /\ handled[c][n][m.from] < m.num
    BY <2>3 DEF ReceivedCell
  <2>5. /\ m.from \in Node /\ m.type \in MsgType /\ m.num \in 1..Len(log[c][m.from])
        /\ log[c][m.from][m.num].type = m.type
    BY <2>4, MessageFields DEF Logged
  <2>6. m.type # "sync" /\ m.type # "ack"
    BY <1>0, <1>3, <2>4, <2>5, UnhandledWaits
  <2>. QED BY <2>2, <2>4, <2>5, <2>6 DEF MsgType
<1>6. \A d \in Node : buf[n][d] = <<>>
  BY <1>0, <1>3, <1>4 DEF FlushedInv, EofPolled
<1>7. ASSUME NEW d \in Node PROVE net[d][n] = <<>>
  <2>. SUFFICES ASSUME net[d][n] # <<>> PROVE FALSE
    OBVIOUS
  <2>1. net[d][n] \in Seq(MessageQueue)
    BY <1>0, TransitTypes
  <2>2. 1 \in 1..Len(net[d][n]) /\ 1 \in DOMAIN net[d][n] /\ net[d][n][1] \in Seq(Message)
    BY <2>1, SeqFacts DEF MessageQueue
  <2>3. net[d][n][1] # <<>>
    BY <1>0, <2>2 DEF LoopInv
  <2>4. PICK m \in Message : m \in ToSet(net[d][n][1])
    <3>1. Head(net[d][n][1]) \in Message /\ Head(net[d][n][1]) \in ToSet(net[d][n][1])
      BY <2>2, <2>3, TailFacts
    <3>. QED BY <3>1
  <2>5. m \in InTransit(d, n)
    BY <2>2, <2>4 DEF InTransit
  <2>6. m.from = d /\ Logged(m) /\ arrived[m.chan][n][d] < m.num
    BY <1>0, <2>5, TransitCells DEF TransitCell
  <2>7. /\ m.chan \in Chan /\ m.num \in 1..Len(log[m.chan][d]) /\ Len(log[m.chan][d]) \in Nat
    BY <1>0, <2>6, LogFacts, MessageFields DEF Logged
  <2>. QED BY <1>2, <2>6, <2>7
<1>. QED BY <1>3, <1>4, <1>5, <1>6, <1>7

\* run() leaves nothing behind, although it looks at the receive queues only.
THEOREM ExitLeavesNothing == ASSUME SingleWorker PROVE Spec => []ExitsClean
<1>1. SingleWorkerInv => ExitsClean
  BY ExitIsClean DEF ExitsClean
<1>. QED BY <1>1, SingleWorkerInvariance, PTL

-----------------------------------------------------------------------------
(* Counting up: induction over the naturals up to a bound, said of a set.   *)

LEMMA LeastOf ==
  ASSUME NEW N \in Nat, NEW S \in SUBSET (1..N), S # {}
  PROVE  \E x \in S : \A y \in S : x <= y
<1>. DEFINE U == 1..N
            R == StrictSubsetOrdering(U)
            P(k) == 1..k
            T == {P(k) : k \in S}
<1>1. IsWellFoundedOn(R, SUBSET U)
  <2>1. IsFiniteSet(U)
    BY FS_Interval
  <2>. QED BY <2>1, FS_StrictSubsetOrderingWellFounded, FS_FiniteSubsetsOfFinite
<1>2. T \subseteq SUBSET U /\ T # {}
  <2>1. \A k \in S : P(k) \subseteq U
    OBVIOUS
  <2>. HIDE DEF P, U
  <2>. QED BY <2>1
<1>3. PICK t \in T : \A y \in T : ~ (<<y, t>> \in R)
  <2>. HIDE DEF R, T
  <2>. QED BY <1>1, <1>2, WFMin
<1>4. PICK x \in S : t = P(x)
  OBVIOUS
<1>5. ASSUME NEW y \in S PROVE x <= y
  <2>. SUFFICES ASSUME y < x PROVE FALSE
    OBVIOUS
  <2>1. P(y) \subseteq P(x) /\ x \in P(x) /\ x \notin P(y) /\ P(x) \subseteq U /\ P(y) \subseteq U
    OBVIOUS
  <2>2. <<P(y), P(x)>> \in R
    BY <2>1 DEF StrictSubsetOrdering
  <2>. QED BY <1>3, <1>4, <2>2
<1>. QED BY <1>5

LEMMA CountingUp ==
  ASSUME NEW N \in Nat, NEW S, 0 \in S, \A k \in 0..(N - 1) : k \in S => k + 1 \in S
  PROVE  \A k \in 0..N : k \in S
<1>. DEFINE B == {k \in 1..N : k \notin S}
<1>. SUFFICES ASSUME B # {} PROVE FALSE
  OBVIOUS
<1>1. PICK x \in B : \A y \in B : x <= y
  <2>1. B \in SUBSET (1..N)
    OBVIOUS
  <2>. HIDE DEF B
  <2>. QED BY <2>1, LeastOf
<1>2. x - 1 \in 0..(N - 1) /\ (x - 1) + 1 = x
  OBVIOUS
<1>3. x - 1 \in S
  <2>1. CASE x = 1
    BY <2>1
  <2>2. CASE x # 1
    <3>1. x - 1 \in 1..N /\ ~(x <= x - 1)
      BY <2>2
    <3>. QED BY <1>1, <3>1
  <2>. QED BY <2>1, <2>2
<1>. QED BY <1>2, <1>3

-----------------------------------------------------------------------------
(* FlattenSeq: the concatenation of the first k of the sequences, for each k. *)

Flattening(f, ss) ==
  /\ DOMAIN f = 1..Len(ss)
  /\ \A i \in 1..Len(ss) : f[i] = IF i = 1 THEN ss[i] ELSE f[i - 1] \o ss[i]

LEMMA FlatteningExists ==
  ASSUME NEW ss, Len(ss) \in Nat
  PROVE  \E f : Flattening(f, ss)
<1>. DEFINE Upto(f, k) == /\ DOMAIN f = 1..k
                          /\ \A i \in 1..k : f[i] = IF i = 1 THEN ss[i] ELSE f[i - 1] \o ss[i]
            S == {k \in Nat : \E f : Upto(f, k)}
<1>1. 0 \in S
  <2>1. Upto([i \in 1..0 |-> 0], 0)
    OBVIOUS
  <2>. QED BY <2>1
<1>2. ASSUME NEW k \in 0..(Len(ss) - 1), k \in S PROVE k + 1 \in S
  <2>1. PICK f : Upto(f, k)
    BY <1>2
  <2>. DEFINE g == [i \in 1..(k + 1) |->
                      IF i = k + 1 THEN IF i = 1 THEN ss[i] ELSE f[i - 1] \o ss[i] ELSE f[i]]
  <2>2. \A i \in 1..(k + 1) : g[i] = IF i = 1 THEN ss[i] ELSE g[i - 1] \o ss[i]
    <3>. TAKE i \in 1..(k + 1)
    <3>1. i # 1 => i - 1 \in 1..k /\ g[i - 1] = f[i - 1]
      OBVIOUS
    <3>2. i # k + 1 => i \in 1..k /\ g[i] = f[i]
      OBVIOUS
    <3>3. i = k + 1 => g[i] = IF i = 1 THEN ss[i] ELSE f[i - 1] \o ss[i]
      OBVIOUS
    <3>. HIDE DEF g
    <3>. QED BY <2>1, <3>1, <3>2, <3>3
  <2>3. Upto(g, k + 1)
    <3>1. DOMAIN g = 1..(k + 1)
      OBVIOUS
    <3>. HIDE DEF g
    <3>. QED BY <2>2, <3>1
  <2>4. k + 1 \in Nat
    OBVIOUS
  <2>. QED BY <2>3, <2>4
<1>3. Len(ss) \in S
  <2>1. Len(ss) \in 0..Len(ss)
    OBVIOUS
  <2>. HIDE DEF S
  <2>. QED BY <1>1, <1>2, <2>1, CountingUp
<1>4. PICK f : Upto(f, Len(ss))
  BY <1>3
<1>. QED BY <1>4 DEF Flattening

\* FlattenSeq is the last of them.
LEMMA FlattenIs ==
  ASSUME NEW ss, Len(ss) \in Nat, Len(ss) # 0
  PROVE  \E f : Flattening(f, ss) /\ FlattenSeq(ss) = f[Len(ss)]
<1>. DEFINE Rec(f) == f = [i \in 1..Len(ss) |-> IF i = 1 THEN ss[i] ELSE f[i - 1] \o ss[i]]
            F == CHOOSE f : Rec(f)
<1>1. PICK f : Flattening(f, ss)
  BY FlatteningExists
<1>2. FlattenSeq(ss) = F[Len(ss)]
  BY DEF FlattenSeq
<1>3. Rec([i \in 1..Len(ss) |-> f[i]])
  <2>. DEFINE g == [i \in 1..Len(ss) |-> f[i]]
  <2>1. \A i \in 1..Len(ss) : g[i] = IF i = 1 THEN ss[i] ELSE g[i - 1] \o ss[i]
    <3>. TAKE i \in 1..Len(ss)
    <3>1. i # 1 => i - 1 \in 1..Len(ss) /\ g[i - 1] = f[i - 1]
      OBVIOUS
    <3>2. g[i] = f[i]
      OBVIOUS
    <3>. HIDE DEF g
    <3>. QED BY <1>1, <3>1, <3>2 DEF Flattening
  <2>2. g = [i \in 1..Len(ss) |-> g[i]]
    OBVIOUS
  <2>. HIDE DEF g
  <2>3. Rec(g)
    BY <2>1, <2>2
  <2>. HIDE DEF Rec
  <2>. QED BY <2>3 DEF g
<1>4. Rec(F)
  <2>. HIDE DEF Rec
  <2>. QED BY <1>3
<1>5. Flattening(F, ss)
  <2>. HIDE DEF F
  <2>1. F = [i \in 1..Len(ss) |-> IF i = 1 THEN ss[i] ELSE F[i - 1] \o ss[i]]
    BY <1>4
  <2>. QED BY <2>1 DEF Flattening
<1>. HIDE DEF F
<1>. QED BY <1>2, <1>5

\* The concatenation of sequences over T is one.
LEMMA FlatteningType ==
  ASSUME NEW T, NEW ss \in Seq(Seq(T)), NEW f, Flattening(f, ss)
  PROVE  \A i \in 1..Len(ss) : f[i] \in Seq(T)
<1>. DEFINE S == {k \in Nat : k = 0 \/ f[k] \in Seq(T)}
<1>1. Len(ss) \in Nat /\ \A i \in 1..Len(ss) : ss[i] \in Seq(T)
  OBVIOUS
<1>2. ASSUME NEW k \in 0..(Len(ss) - 1), k \in S PROVE k + 1 \in S
  <2>1. k + 1 \in 1..Len(ss) /\ k + 1 \in Nat /\ (k + 1) - 1 = k
    BY <1>1
  <2>2. f[k + 1] = IF k = 0 THEN ss[k + 1] ELSE f[k] \o ss[k + 1]
    <3>1. PICK i \in 1..Len(ss) : i = k + 1 /\ i - 1 = k /\ (i = 1 <=> k = 0)
      BY <2>1
    <3>2. f[i] = IF i = 1 THEN ss[i] ELSE f[i - 1] \o ss[i]
      BY DEF Flattening
    <3>. QED BY <3>1, <3>2
  <2>3. ss[k + 1] \in Seq(T) /\ (k = 0 \/ f[k] \in Seq(T))
    BY <1>1, <1>2, <2>1
  <2>4. f[k + 1] \in Seq(T)
    BY <2>2, <2>3
  <2>. QED BY <2>1, <2>4
<1>3. 0 \in S
  OBVIOUS
<1>. HIDE DEF S
<1>4. \A k \in 0..Len(ss) : k \in S
  BY <1>1, <1>2, <1>3, CountingUp
<1>5. \A i \in 1..Len(ss) : i \in S /\ i # 0
  BY <1>1, <1>4
<1>. QED BY <1>5 DEF S

LEMMA FlattenType ==
  ASSUME NEW T, NEW ss \in Seq(Seq(T))
  PROVE  FlattenSeq(ss) \in Seq(T)
<1>1. Len(ss) \in Nat
  OBVIOUS
<1>2. CASE Len(ss) = 0
  <2>1. FlattenSeq(ss) = ss /\ ss = <<>>
    BY <1>2 DEF FlattenSeq
  <2>. QED BY <2>1
<1>3. CASE Len(ss) # 0
  <2>1. PICK f : Flattening(f, ss) /\ FlattenSeq(ss) = f[Len(ss)]
    BY <1>1, <1>3, FlattenIs
  <2>. QED BY <1>1, <1>3, <2>1, FlatteningType
<1>. QED BY <1>2, <1>3

-----------------------------------------------------------------------------
(* The runner uses the communicator as a process of one worker does.       *)

\* What the sender may call: as many threads as there are workers.
Calls == {Call(f, c, d) : f \in {"send"}, c \in Chan, d \in Node}
           \cup {Call(f, c, d) : f \in {"synchronize", "mark_eof"}, c \in Chan, d \in {0}}

LEMMA OneThread == SingleWorker
<1>1. PICK w : Thread = {w}
  BY RunnerAssumption, FS_Singleton
<1>2. \A c \in Chan : WorkerOf[c] = w
  BY <1>1, CommAssumption
<1>. QED BY <1>2 DEF SingleWorker

LEMMA ProgramType == ASSUME NEW n \in Node PROVE Program[n] \in Seq(Calls)
<1>0. NChan \in Nat /\ Iters \in Nat /\ Chan = 1..NChan /\ Extra \in [Chan -> Nat] /\ RouteOf[n] \in Seq(Node)
  BY CommAssumption, RunnerAssumption DEF Chan
<1>1. ASSUME NEW c \in Chan, NEW d \in Node PROVE Packets(c, d) \in Seq(Calls)
  <2>1. 1 + Extra[c] \in Nat
    BY <1>0
  <2>2. Call("send", c, d) \in Calls
    BY DEF Calls
  <2>. QED BY <2>1, <2>2 DEF Packets
<1>2. ASSUME NEW d \in Node PROVE SendRandom(d) \in Seq(Calls)
  <2>. DEFINE ss == [c \in Chan |-> Packets(c, d)]
  <2>1. ss \in Seq(Seq(Calls))
    BY <1>0, <1>1
  <2>. HIDE DEF ss
  <2>2. FlattenSeq(ss) \in Seq(Calls)
    BY <2>1, FlattenType
  <2>. QED BY <2>2 DEF SendRandom, ss
<1>3. SyncAll \in Seq(Calls) /\ EofAll \in Seq(Calls)
  <2>1. \A c \in Chan : Call("synchronize", c, 0) \in Calls /\ Call("mark_eof", c, 0) \in Calls
    BY DEF Calls
  <2>. QED BY <1>0, <2>1 DEF SyncAll, EofAll
<1>4. ASSUME NEW k \in Nat PROVE Iteration(n, k) \in Seq(Calls)
  <2>. DEFINE ss == [j \in DOMAIN RouteOf[n] |-> SendRandom(RouteOf[n][j])]
  <2>1. DOMAIN RouteOf[n] = 1..Len(RouteOf[n]) /\ Len(RouteOf[n]) \in Nat
    BY <1>0
  <2>2. \A j \in 1..Len(RouteOf[n]) : SendRandom(RouteOf[n][j]) \in Seq(Calls)
    BY <1>0, <1>2
  <2>3. ss \in Seq(Seq(Calls))
    BY <2>1, <2>2
  <2>. HIDE DEF ss
  <2>4. FlattenSeq(ss) \in Seq(Calls)
    BY <2>3, FlattenType
  <2>. QED BY <1>3, <2>4 DEF Iteration, ss
<1>5. FlattenSeq([i \in 1..Iters |-> Iteration(n, i - 1)]) \in Seq(Calls)
  <2>. DEFINE ss == [i \in 1..Iters |-> Iteration(n, i - 1)]
  <2>1. ss \in Seq(Seq(Calls))
    <3>1. \A i \in 1..Iters : Iteration(n, i - 1) \in Seq(Calls)
      BY <1>4
    <3>. QED BY <1>0, <3>1
  <2>. HIDE DEF ss
  <2>2. FlattenSeq(ss) \in Seq(Calls)
    BY <2>1, FlattenType
  <2>. QED BY <2>2 DEF ss
<1>. QED BY <1>3, <1>5 DEF Program

\* A call of the sender is a step of its worker.
LEMMA SenderUses ==
  ASSUME NEW n \in Node, SenderCalls(n), calls \in [Node -> Nat]
  PROVE  WorkerStep(n) /\ UNCHANGED <<turn, stopped, runner, hand, main>>
<1>1. PICK e \in Calls : /\ \/ e.call = "send" /\ Send(n, e.chan, e.dest)
                            \/ e.call = "synchronize" /\ Synchronize(n, e.chan)
                            \/ e.call = "mark_eof" /\ PushEof(n, e.chan)
  <2>1. Program[n] \in Seq(Calls)
    BY ProgramType
  <2>2. calls[n] + 1 \in 1..Len(Program[n])
    BY <2>1 DEF SenderCalls
  <2>3. Program[n][calls[n] + 1] \in Calls
    BY <2>1, <2>2
  <2>. QED BY <2>3 DEF SenderCalls
<1>2. e.chan \in Chan /\ (e.call = "send" => e.dest \in Node)
  BY DEF Calls, Call
<1>3. WorkerStep(n) /\ UNCHANGED <<hand, main>>
  BY <1>1, <1>2 DEF WorkerStep, Send, Synchronize, PushEof, loop
<1>. QED BY <1>3 DEF SenderCalls

LEMMA ReturnUses ==
  ASSUME NEW n \in Node, CallReturns(n)
  PROVE  WorkerStep(n) /\ UNCHANGED <<calls, turn, stopped, runner, hand, main>>
  BY DEF CallReturns, WorkerStep, SynchronizeReturns, MarkEof, threads, loop

\* The receiver handles one channel after the other.
LEMMA ReceiverUses ==
  ASSUME RunnerInv, NEW n \in Node, TryReceive(n)
  PROVE  /\ \E c \in Chan : PopReceived(n, c) \/ Handle(n, c)
         /\ RunnerTypeOK' /\ ThreadsInv'
<1>1. RunnerTypeOK /\ ThreadsInv /\ TypeOK
  BY DEF RunnerInv, SingleWorkerInv, IInv
<1>. DEFINE c == turn[n]
<1>2. c \in Chan /\ NChan \in Nat /\ Chan = 1..NChan /\ turn \in [Node -> 0..NChan]
  <2>1. turn[n] \in 0..NChan /\ turn[n] # 0 /\ NChan \in Nat /\ turn \in [Node -> 0..NChan]
    BY <1>1, CommAssumption DEF RunnerTypeOK, TryReceive
  <2>. QED BY <2>1 DEF Chan
<1>3. /\ \/ PopReceived(n, c) /\ UNCHANGED turn
         \/ (HandleSync(n, c) \/ HandleAck(n, c)) /\ UNCHANGED turn
         \/ HandleData(n, c) /\ Advance(n)
      /\ UNCHANGED <<calls, stopped, runner>>
  BY DEF TryReceive
<1>4. /\ main' = main
      /\ \/ \E m : hand' = [hand EXCEPT ![n][c] = <<m>>] /\ turn' = turn
         \/ hand' = [hand EXCEPT ![n][c] = <<>>] /\ (turn' = turn \/ Advance(n))
  BY <1>3 DEF PopReceived, HandleSync, HandleAck, HandleData, Finish, loop
<1>5. /\ turn' \in [Node -> 0..NChan] /\ \A m \in Node : m # n => turn'[m] = turn[m]
      /\ turn'[n] # 0
  <2>1. CASE turn' = turn
    BY <1>1, <1>2, <2>1 DEF Chan
  <2>2. CASE Advance(n)
    BY <1>2, <2>2 DEF Advance
  <2>. QED BY <1>4, <2>1, <2>2
<1>6. \A m \in Node, e \in Chan : hand'[m][e] # <<>> => turn'[m] = e
  <2>. SUFFICES ASSUME NEW m \in Node, NEW e \in Chan, hand'[m][e] # <<>> PROVE turn'[m] = e
    OBVIOUS
  <2>1. hand \in [Node -> [Chan -> MessageQueue]] /\ (hand[m][e] # <<>> => turn[m] = e)
    BY <1>1 DEF TypeOK, ThreadsInv
  <2>2. CASE m # n
    BY <1>4, <1>5, <2>1, <2>2
  <2>3. CASE m = n /\ e # c
    <3>1. hand'[m][e] = hand[m][e]
      BY <1>4, <2>1, <2>3
    <3>. QED BY <2>1, <2>3, <3>1
  <2>4. CASE m = n /\ e = c
    <3>1. hand' # [hand EXCEPT ![n][c] = <<>>]
      BY <1>2, <2>1, <2>4
    <3>. QED BY <1>4, <2>4, <3>1
  <2>. QED BY <2>2, <2>3, <2>4
<1>7. RunnerTypeOK'
  BY <1>1, <1>3, <1>5 DEF RunnerTypeOK
<1>8. ThreadsInv'
  <2>1. runner[n] \notin {"barrier", "returned"}
    BY <1>1, <1>2 DEF ThreadsInv, TryReceive
  <2>. QED BY <1>1, <1>3, <1>4, <1>5, <1>6, <2>1 DEF ThreadsInv
<1>9. \E e \in Chan : PopReceived(n, e) \/ Handle(n, e)
  BY <1>2, <1>3 DEF Handle
<1>. QED BY <1>7, <1>8, <1>9

LEMMA NothingUses ==
  ASSUME RunnerInv, NEW n \in Node, NothingReceived(n)
  PROVE  UNCHANGED vars /\ RunnerTypeOK' /\ ThreadsInv'
<1>1. RunnerTypeOK /\ ThreadsInv
  BY DEF RunnerInv
<1>2. /\ UNCHANGED vars /\ UNCHANGED <<calls, stopped, runner>>
      /\ turn[n] # 0 /\ hand[n][turn[n]] = <<>>
      /\ turn' = [turn EXCEPT ![n] = 0] \/ Advance(n)
  BY DEF NothingReceived
<1>3. hand' = hand /\ main' = main
  BY <1>2 DEF vars, loop
<1>4. turn' \in [Node -> 0..NChan] /\ \A m \in Node : m # n => turn'[m] = turn[m]
  <2>1. turn \in [Node -> 0..NChan] /\ NChan \in Nat
    BY <1>1, CommAssumption DEF RunnerTypeOK
  <2>. QED BY <1>2, <2>1, CommAssumption DEF Advance
<1>5. \A c \in Chan : hand[n][c] = <<>>
  BY <1>1, <1>2 DEF ThreadsInv
<1>6. RunnerTypeOK'
  BY <1>1, <1>2, <1>4 DEF RunnerTypeOK
<1>7. ThreadsInv'
  <2>1. runner[n] \notin {"barrier", "returned"}
    BY <1>1, <1>2 DEF ThreadsInv
  <2>. QED BY <1>1, <1>2, <1>3, <1>4, <1>5, <2>1 DEF ThreadsInv
<1>. QED BY <1>2, <1>6, <1>7

\* A main loop that has exited does not go on.
LEMMA MainUses ==
  ASSUME TypeOK, NEW n \in Node, MainStep(n)
  PROVE  hand' = hand /\ \A m \in Node : main[m] = "exited" => main'[m] = "exited"
<1>. SUFFICES main[n] # "exited" /\ hand' = hand /\ \A m \in Node : m # n => main'[m] = main[m]
  OBVIOUS
<1>0. main \in [Node -> {"top", "eof?", "empty?", "poll", "receive", "dispatch", "exited"}]
  BY DEF TypeOK
<1>1. CASE Top(n) \/ ReadEof(n) \/ PollNext(n) \/ ReceiveNothing(n)
  BY <1>0, <1>1 DEF Top, ReadEof, PollNext, ReceiveNothing, Goto
<1>2. CASE ReadEmpty(n)
  BY <1>0, <1>2 DEF ReadEmpty, Goto
<1>3. CASE Poll(n)
  BY <1>0, <1>3 DEF Poll, loop
<1>4. CASE Dispatch(n)
  <2>1. /\ main[n] = "dispatch" /\ hand' = hand
        /\ main' = main \/ \E at, c : Goto(n, at, c)
    BY <1>4 DEF Dispatch
  <2>. QED BY <1>0, <2>1 DEF Goto
<1>5. CASE \E i \in Node : Receive(n, i)
  BY <1>0, <1>5 DEF Receive, Goto
<1>. QED BY <1>1, <1>2, <1>3, <1>4, <1>5 DEF MainStep

\* The destructor has nothing to flush.
LEMMA DestroyUses ==
  ASSUME RunnerInv, NEW n \in Node, Destroy(n)
  PROVE  UNCHANGED vars
<1>1. TypeOK /\ SingleWorkerInv /\ main[n] = "exited"
  BY DEF RunnerInv, SingleWorkerInv, IInv, ThreadsInv, Destroy
<1>2. \A d \in Node : buf[n][d] = <<>>
  BY <1>1, ExitIsClean
<1>3. /\ buf \in [Node -> [Node -> MessageQueue]] /\ net \in [Node -> [Node -> Seq(MessageQueue)]]
  BY <1>1 DEF TypeOK
<1>4. /\ buf' = [buf EXCEPT ![n] = [d \in Node |-> buf[n][d]]]
      /\ net' = [net EXCEPT ![n] = [d \in Node |-> net[n][d]]]
      /\ pending' = pending
  <2>1. {d \in Node : buf[n][d] # <<>>} = {}
    BY <1>2
  <2>. QED BY <2>1 DEF Destroy, FlushAll, Flush
<1>5. buf' = buf /\ net' = net
  BY <1>3, <1>4
<1>. QED BY <1>4, <1>5 DEF Destroy, vars, backend, cursors

\* Every step of the runner is one of the communicator, or none.
LEMMA RunnerStep ==
  ASSUME RunnerInv, [RunnerNext]_runnerVars
  PROVE  [Next]_vars /\ RunnerTypeOK' /\ ThreadsInv'
<1>1. RunnerTypeOK /\ ThreadsInv /\ TypeOK
  BY DEF RunnerInv, SingleWorkerInv, IInv
<1>2. ASSUME NEW n \in Node, SenderCalls(n) PROVE [Next]_vars /\ RunnerTypeOK' /\ ThreadsInv'
  <2>1. WorkerStep(n) /\ UNCHANGED <<turn, stopped, runner, hand, main>>
    BY <1>1, <1>2, SenderUses DEF RunnerTypeOK
  <2>2. calls' \in [Node -> Nat]
    BY <1>1, <1>2 DEF RunnerTypeOK, SenderCalls
  <2>. QED BY <1>1, <2>1, <2>2 DEF Next, RunnerTypeOK, ThreadsInv
<1>3. ASSUME NEW n \in Node, CallReturns(n) PROVE [Next]_vars /\ RunnerTypeOK' /\ ThreadsInv'
  BY <1>1, <1>3, ReturnUses DEF Next, RunnerTypeOK, ThreadsInv
<1>4. ASSUME NEW n \in Node, TryReceive(n) PROVE [Next]_vars /\ RunnerTypeOK' /\ ThreadsInv'
  BY <1>4, ReceiverUses DEF Next
<1>5. ASSUME NEW n \in Node, NothingReceived(n) PROVE [Next]_vars /\ RunnerTypeOK' /\ ThreadsInv'
  BY <1>5, NothingUses
<1>6. ASSUME NEW n \in Node, MainLoop(n) PROVE [Next]_vars /\ RunnerTypeOK' /\ ThreadsInv'
  <2>1. MainStep(n) /\ UNCHANGED <<calls, turn, stopped, runner>>
    BY <1>6 DEF MainLoop, threads
  <2>2. hand' = hand /\ \A m \in Node : main[m] = "exited" => main'[m] = "exited"
    BY <1>1, <2>1, MainUses
  <2>. QED BY <1>1, <2>1, <2>2 DEF Next, RunnerTypeOK, ThreadsInv
<1>7. ASSUME NEW n \in Node, Stop(n) PROVE [Next]_vars /\ RunnerTypeOK' /\ ThreadsInv'
  <2>1. /\ UNCHANGED vars /\ UNCHANGED <<calls, turn>> /\ main[n] = "exited"
        /\ stopped' = [stopped EXCEPT ![n] = TRUE] /\ runner' = [runner EXCEPT ![n] = "join"]
    BY <1>7 DEF Stop, Joined
  <2>2. hand' = hand /\ main' = main
    BY <2>1 DEF vars, loop
  <2>3. RunnerTypeOK'
    BY <1>1, <2>1 DEF RunnerTypeOK
  <2>4. /\ \A m \in Node : runner'[m] = IF m = n THEN "join" ELSE runner[m]
        /\ stopped'[n] /\ \A m \in Node : m # n => stopped'[m] = stopped[m]
    BY <1>1, <2>1 DEF RunnerTypeOK
  <2>5. ThreadsInv'
    BY <1>1, <2>1, <2>2, <2>4 DEF ThreadsInv
  <2>. QED BY <2>1, <2>3, <2>5
<1>8. ASSUME NEW n \in Node, NEW at \in {"barrier", "returned"}, UNCHANGED vars,
             UNCHANGED <<calls, turn, stopped>>, runner' = [runner EXCEPT ![n] = at],
             turn[n] = 0, runner[n] # "main"
      PROVE  [Next]_vars /\ RunnerTypeOK' /\ ThreadsInv'
  <2>1. hand' = hand /\ main' = main
    BY <1>8 DEF vars, loop
  <2>2. RunnerTypeOK'
    BY <1>1, <1>8 DEF RunnerTypeOK
  <2>3. \A m \in Node : runner'[m] = IF m = n THEN at ELSE runner[m]
    BY <1>1, <1>8 DEF RunnerTypeOK
  <2>4. ThreadsInv'
    BY <1>1, <1>8, <2>1, <2>3 DEF ThreadsInv
  <2>. QED BY <1>8, <2>2, <2>4
<1>9. ASSUME NEW n \in Node, Destroy(n) PROVE [Next]_vars /\ RunnerTypeOK' /\ ThreadsInv'
  BY <1>8, <1>9, DestroyUses DEF Destroy
<1>10. ASSUME NEW n \in Node, Return(n) PROVE [Next]_vars /\ RunnerTypeOK' /\ ThreadsInv'
  BY <1>1, <1>8, <1>10 DEF Return, ThreadsInv
<1>11. CASE UNCHANGED runnerVars
  <2>1. UNCHANGED vars /\ UNCHANGED <<calls, turn, stopped, runner>> /\ hand' = hand /\ main' = main
    BY <1>11 DEF runnerVars, threads, vars, loop
  <2>. QED BY <1>1, <2>1 DEF RunnerTypeOK, ThreadsInv
<1>. QED BY <1>2, <1>3, <1>4, <1>5, <1>6, <1>7, <1>9, <1>10, <1>11 DEF RunnerNext

LEMMA RunnerStart == RunnerInit => Init /\ RunnerInv
<1>. SUFFICES ASSUME RunnerInit PROVE Init /\ RunnerInv
  OBVIOUS
<1>1. Init /\ SingleWorkerInv
  BY InitSingle DEF RunnerInit
<1>2. RunnerTypeOK
  <2>1. 1 \in 0..NChan
    BY CommAssumption
  <2>. QED BY <2>1 DEF RunnerInit, RunnerTypeOK
<1>3. ThreadsInv
  BY DEF RunnerInit, Init, ThreadsInv
<1>. QED BY <1>1, <1>2, <1>3 DEF RunnerInv

\* The threads of the runner and those of the communicator stay in step.
THEOREM RunnerInvariance == RunnerSpec => []RunnerInv
<1>1. RunnerInv /\ [RunnerNext]_runnerVars => RunnerInv'
  BY OneThread, RunnerStep, NextSingle DEF RunnerInv
<1>. QED BY <1>1, RunnerStart, PTL DEF RunnerSpec

\* The runner implements the communicator, so that all that was proved of a single
\* worker holds of it: its destructor has nothing left to flush.
THEOREM RunnerImplements == RunnerSpec => Spec
<1>1. RunnerInv /\ [RunnerNext]_runnerVars => [Next]_vars
  BY RunnerStep
<1>. QED BY <1>1, RunnerStart, RunnerInvariance, PTL DEF RunnerSpec, Spec

\* Where the receiver is stopped, or has returned, nothing is lost to it.
LEMMA StoppedHasAll ==
  ASSUME SingleWorkerInv, NEW n \in Node, main[n] = "exited", NEW c \in Chan, NEW m \in Node,
         hand[n][c] = <<>>, NEW p \in 1..Len(log[c][m]), log[c][m][p].type = "data", log[c][m][p].dest = n
  PROVE  handled[c][n][m] >= p
<1>1. TypeOK /\ SendInv /\ ReceivedInv /\ Channel(c)!IInv
  BY DEF SingleWorkerInv, IInv
<1>2. arrived[c][n][m] = Len(log[c][m]) /\ recvq[n][c] = <<>>
  BY ExitHasAll
<1>3. Received(n, c) = {}
  BY <1>2 DEF Received, ToSet
<1>4. handled[c][n][m] \in Nat /\ Len(log[c][m]) \in Nat
  BY <1>1, CursorFacts
<1>. SUFFICES ASSUME handled[c][n][m] < p PROVE FALSE
  BY <1>4
<1>5. p \in (handled[c][n][m] + 1)..arrived[c][n][m]
  BY <1>2, <1>4
<1>6. ReceivedCell(n, c) /\ ~failed[n][c]
  BY <1>1, ReceivedCells, ChannelSays
<1>7. \E l \in Received(n, c) : l.from = m /\ l.num = p
  <2>1. Reaches(log[c][m][p], n) /\ log[c][m][p].type # "eof"
    BY DEF Reaches
  <2>. QED BY <1>5, <1>6, <2>1 DEF ReceivedCell
<1>. QED BY <1>3, <1>7

\* Nor is anything in the buffers of the others for a node that has exited.
LEMMA ExitedIsReached ==
  ASSUME SingleWorkerInv, NEW n \in Node, main[n] = "exited", NEW d \in Node
  PROVE  buf[d][n] = <<>>
<1>0. TypeOK /\ TransitInv
  BY DEF SingleWorkerInv, IInv
<1>. SUFFICES ASSUME buf[d][n] # <<>> PROVE FALSE
  OBVIOUS
<1>1. buf[d][n] \in Seq(Message)
  BY <1>0, TransitTypes DEF MessageQueue
<1>2. PICK m \in Message : m \in ToSet(buf[d][n])
  <2>1. Head(buf[d][n]) \in Message /\ Head(buf[d][n]) \in ToSet(buf[d][n])
    BY <1>1, TailFacts
  <2>. QED BY <2>1
<1>3. m \in InTransit(d, n)
  BY <1>2 DEF InTransit
<1>4. m.from = d /\ Logged(m) /\ arrived[m.chan][n][d] < m.num
  BY <1>0, <1>3, TransitCells DEF TransitCell
<1>5. /\ m.chan \in Chan /\ m.num \in 1..Len(log[m.chan][d]) /\ Len(log[m.chan][d]) \in Nat
  BY <1>0, <1>4, LogFacts, MessageFields DEF Logged
<1>6. arrived[m.chan][n][d] = Len(log[m.chan][d])
  BY <1>5, ExitHasAll
<1>. QED BY <1>4, <1>5, <1>6

\* No node stops its receiver, or destroys its communicator, before all that was
\* ever sent to it has come (channel_runner.h:106).
THEOREM RunnerReceivesAll == RunnerSpec => []AllReceived
<1>1. ASSUME RunnerInv PROVE AllReceived
  <2>. SUFFICES ASSUME NEW n \in Node, NEW m \in Node, NEW c \in Chan, stopped[n]
                PROVE  /\ \A p \in 1..Len(log[c][m]) :
                             log[c][m][p].type = "data" /\ log[c][m][p].dest = n =>
                               handled[c][n][m] >= p \/ hand[n][c] # <<>>
                       /\ runner[n] \in {"barrier", "returned"} =>
                            /\ hand[n][c] = <<>> /\ ~Warns(n) /\ net[m][n] = <<>> /\ buf[m][n] = <<>>
    BY <1>1 DEF AllReceived, RunnerInv, ThreadsInv
  <2>1. SingleWorkerInv /\ main[n] = "exited"
    BY <1>1 DEF RunnerInv, ThreadsInv
  <2>2. ASSUME runner[n] \in {"barrier", "returned"} PROVE hand[n][c] = <<>>
    <3>1. turn[n] = 0 /\ (hand[n][c] # <<>> => turn[n] = c)
      BY <1>1, <2>2 DEF RunnerInv, ThreadsInv
    <3>2. c # 0
      BY CommAssumption DEF Chan
    <3>. QED BY <3>1, <3>2
  <2>3. ~Warns(n)
    BY <2>1, ExitHasAll, ExitIsClean DEF Warns
  <2>4. net[m][n] = <<>> /\ buf[m][n] = <<>>
    BY <2>1, ExitIsClean, ExitedIsReached
  <2>. QED BY <2>1, <2>2, <2>3, <2>4, StoppedHasAll
<1>. QED BY <1>1, RunnerInvariance, PTL

-----------------------------------------------------------------------------
(* Counting the members of a set in a sequence.                            *)

\* How many of the first k elements of s are in T, and how many of all.
Hits(s, k, T) == Cardinality({x \in 1..k : s[x] \in T})
AllHits(s, T) == Hits(s, Len(s), T)

\* One position further.
LEMMA HitsStep ==
  ASSUME NEW s, NEW T, NEW k \in Nat
  PROVE  /\ Hits(s, k, T) \in Nat
         /\ Hits(s, k + 1, T) = Hits(s, k, T) + (IF s[k + 1] \in T THEN 1 ELSE 0)
<1>. DEFINE A == {x \in 1..k : s[x] \in T}
            B == {x \in 1..(k + 1) : s[x] \in T}
<1>1. IsFiniteSet(A) /\ Cardinality(A) \in Nat
  <2>1. IsFiniteSet(1..k)
    BY FS_Interval
  <2>. QED BY <2>1, FS_Subset, FS_CardinalityType
<1>2. CASE s[k + 1] \in T
  <2>1. B = A \cup {k + 1} /\ k + 1 \notin A
    BY <1>2
  <2>2. Cardinality(A \cup {k + 1}) = Cardinality(A) + 1
    BY <1>1, <2>1, FS_AddElement
  <2>. QED BY <1>1, <1>2, <2>1, <2>2 DEF Hits
<1>3. CASE s[k + 1] \notin T
  <2>1. B = A
    BY <1>3
  <2>. QED BY <1>1, <1>3, <2>1 DEF Hits
<1>. QED BY <1>2, <1>3

\* Only the positions counted matter.
LEMMA HitsSame ==
  ASSUME NEW s, NEW r, NEW T, NEW k \in Nat, \A x \in 1..k : s[x] = r[x]
  PROVE  Hits(s, k, T) = Hits(r, k, T)
<1>1. {x \in 1..k : s[x] \in T} = {x \in 1..k : r[x] \in T}
  OBVIOUS
<1>. QED BY <1>1 DEF Hits

LEMMA HitsNone ==
  ASSUME NEW s, NEW T, NEW k \in Nat, \A x \in 1..k : s[x] \notin T
  PROVE  Hits(s, k, T) = 0
<1>1. {x \in 1..k : s[x] \in T} = {}
  OBVIOUS
<1>. QED BY <1>1, FS_EmptySet DEF Hits

LEMMA HitsAll ==
  ASSUME NEW s, NEW T, NEW k \in Nat, \A x \in 1..k : s[x] \in T
  PROVE  Hits(s, k, T) = k
<1>1. {x \in 1..k : s[x] \in T} = 1..k
  OBVIOUS
<1>2. Cardinality(1..k) = k
  BY FS_Interval
<1>. QED BY <1>1, <1>2 DEF Hits

\* Those of a concatenation.
LEMMA HitsConcat ==
  ASSUME NEW X, NEW s \in Seq(X), NEW t \in Seq(X), NEW T
  PROVE  /\ \A k \in 0..Len(t) : Hits(s \o t, Len(s) + k, T) = AllHits(s, T) + Hits(t, k, T)
         /\ AllHits(s \o t, T) = AllHits(s, T) + AllHits(t, T)
<1>0. PICK c : c = s \o t
  OBVIOUS
<1>1. /\ Len(s) \in Nat /\ Len(t) \in Nat /\ Len(c) = Len(s) + Len(t)
      /\ \A x \in 1..Len(s) : c[x] = s[x]
      /\ \A x \in 1..Len(t) : c[Len(s) + x] = t[x]
  BY <1>0
<1>. DEFINE S == {k \in Nat : Hits(c, Len(s) + k, T) = AllHits(s, T) + Hits(t, k, T)}
<1>2. 0 \in S
  <2>1. Hits(t, 0, T) = 0
    BY HitsNone
  <2>2. PICK n \in Nat : n = Len(s)
    BY <1>1
  <2>3. Hits(c, n, T) = Hits(s, n, T)
    <3>1. \A x \in 1..n : c[x] = s[x]
      BY <1>1, <2>2
    <3>. QED BY <3>1, HitsSame
  <2>4. Hits(s, n, T) \in Nat
    BY HitsStep
  <2>5. Hits(c, Len(s), T) = AllHits(s, T) /\ AllHits(s, T) \in Nat
    BY <2>2, <2>3, <2>4 DEF AllHits
  <2>. QED BY <1>1, <2>1, <2>5
<1>3. ASSUME NEW k \in 0..(Len(t) - 1), k \in S PROVE k + 1 \in S
  <2>1. k + 1 \in 1..Len(t) /\ k \in Nat /\ Len(s) + k \in Nat /\ (Len(s) + k) + 1 = Len(s) + (k + 1)
    BY <1>1
  <2>2. c[Len(s) + (k + 1)] = t[k + 1]
    BY <1>1, <2>1
  <2>3. Hits(c, (Len(s) + k) + 1, T) = Hits(c, Len(s) + k, T) + (IF c[(Len(s) + k) + 1] \in T THEN 1 ELSE 0)
    BY <2>1, HitsStep
  <2>4. /\ Hits(t, k + 1, T) = Hits(t, k, T) + (IF t[k + 1] \in T THEN 1 ELSE 0)
        /\ Hits(t, k, T) \in Nat /\ AllHits(s, T) \in Nat
    BY <1>1, <2>1, HitsStep DEF AllHits
  <2>5. Hits(c, Len(s) + k, T) = AllHits(s, T) + Hits(t, k, T)
    BY <1>3
  <2>6. Hits(c, Len(s) + (k + 1), T) = AllHits(s, T) + Hits(t, k + 1, T)
    BY <2>1, <2>2, <2>3, <2>4, <2>5
  <2>. QED BY <2>1, <2>6
<1>4. \A k \in 0..Len(t) : k \in S
  <2>. HIDE DEF S
  <2>. QED BY <1>1, <1>2, <1>3, CountingUp
<1>5. Len(t) \in 0..Len(t)
  BY <1>1
<1>. QED BY <1>0, <1>1, <1>4, <1>5 DEF AllHits

\* Those of a flattening add up.
LEMMA HitsFlatten ==
  ASSUME NEW X, NEW T, NEW ss \in Seq(Seq(X)), NEW g, g[0] = 0,
         \A i \in 1..Len(ss) : g[i] = g[i - 1] + AllHits(ss[i], T)
  PROVE  AllHits(FlattenSeq(ss), T) = g[Len(ss)]
<1>1. Len(ss) \in Nat /\ \A i \in 1..Len(ss) : ss[i] \in Seq(X)
  OBVIOUS
<1>2. CASE Len(ss) = 0
  <2>1. FlattenSeq(ss) = <<>>
    <3>1. ss = <<>>
      BY <1>2
    <3>. QED BY <1>2, <3>1 DEF FlattenSeq
  <2>2. Hits(<<>>, 0, T) = 0
    BY HitsNone
  <2>. QED BY <1>2, <2>1, <2>2 DEF AllHits
<1>3. CASE Len(ss) # 0
  <2>1. PICK f : Flattening(f, ss) /\ FlattenSeq(ss) = f[Len(ss)]
    BY <1>1, <1>3, FlattenIs
  <2>2. \A i \in 1..Len(ss) : f[i] \in Seq(X)
    BY <2>1, FlatteningType
  <2>. DEFINE S == {k \in Nat : k = 0 \/ AllHits(f[k], T) = g[k]}
  <2>3. ASSUME NEW k \in 0..(Len(ss) - 1), k \in S PROVE k + 1 \in S
    <3>1. k + 1 \in 1..Len(ss) /\ k + 1 \in Nat /\ (k + 1) - 1 = k /\ (k + 1 = 1 <=> k = 0)
      BY <1>1
    <3>2. f[k + 1] = IF k = 0 THEN ss[k + 1] ELSE f[k] \o ss[k + 1]
      <4>1. PICK i \in 1..Len(ss) : i = k + 1 /\ i - 1 = k /\ (i = 1 <=> k = 0)
        BY <3>1
      <4>2. f[i] = IF i = 1 THEN ss[i] ELSE f[i - 1] \o ss[i]
        BY <2>1 DEF Flattening
      <4>. QED BY <4>1, <4>2
    <3>3. g[k + 1] = g[k] + AllHits(ss[k + 1], T)
      <4>1. PICK i \in 1..Len(ss) : i = k + 1 /\ i - 1 = k
        BY <3>1
      <4>2. g[i] = g[i - 1] + AllHits(ss[i], T)
        OBVIOUS
      <4>. QED BY <4>1, <4>2
    <3>4. ss[k + 1] \in Seq(X) /\ AllHits(ss[k + 1], T) \in Nat
      <4>1. ss[k + 1] \in Seq(X) /\ Len(ss[k + 1]) \in Nat
        BY <1>1, <3>1
      <4>. QED BY <4>1, HitsStep DEF AllHits
    <3>5. CASE k = 0
      <4>1. g[k] = 0
        BY <3>5
      <4>. QED BY <3>1, <3>2, <3>3, <3>4, <3>5, <4>1
    <3>6. CASE k # 0
      <4>1. k \in 1..Len(ss)
        BY <1>1, <3>6
      <4>2. AllHits(f[k], T) = g[k] /\ f[k] \in Seq(X)
        BY <2>2, <2>3, <3>6, <4>1
      <4>3. AllHits(f[k] \o ss[k + 1], T) = AllHits(f[k], T) + AllHits(ss[k + 1], T)
        BY <3>4, <4>2, HitsConcat
      <4>. QED BY <3>1, <3>2, <3>3, <3>6, <4>2, <4>3
    <3>. QED BY <3>5, <3>6
  <2>4. 0 \in S
    OBVIOUS
  <2>5. Len(ss) \in 0..Len(ss)
    BY <1>1
  <2>6. Len(ss) \in S
    <3>. HIDE DEF S
    <3>. QED BY <1>1, <2>3, <2>4, <2>5, CountingUp
  <2>. QED BY <1>3, <2>1, <2>6
<1>. QED BY <1>2, <1>3

-----------------------------------------------------------------------------
(* The packets and syncs of the program.                                   *)

SendsOn(c) == {e \in Calls : e.call = "send" /\ e.chan = c}
SyncsOn(c) == {e \in Calls : e.call = "synchronize" /\ e.chan = c}

\* Which calls are of which kind.
LEMMA CallFacts ==
  ASSUME NEW c \in Chan, NEW e \in Chan
  PROVE  /\ \A d \in Node : /\ Call("send", e, d) \in Calls
                            /\ Call("send", e, d) \in SendsOn(c) <=> e = c
                            /\ Call("send", e, d) \notin SyncsOn(c)
         /\ Call("synchronize", e, 0) \in Calls
         /\ Call("synchronize", e, 0) \notin SendsOn(c)
         /\ Call("synchronize", e, 0) \in SyncsOn(c) <=> e = c
         /\ Call("mark_eof", e, 0) \in Calls
         /\ Call("mark_eof", e, 0) \notin SendsOn(c) /\ Call("mark_eof", e, 0) \notin SyncsOn(c)
<1>1. \A f, d : Call(f, e, d).call = f /\ Call(f, e, d).chan = e
  BY DEF Call
<1>2. /\ \A d \in Node : Call("send", e, d) \in Calls
      /\ Call("synchronize", e, 0) \in Calls /\ Call("mark_eof", e, 0) \in Calls
  BY DEF Calls
<1>. QED BY <1>1, <1>2 DEF SendsOn, SyncsOn

\* The calls of a kind that only send.
SendCalls == {e \in Calls : e.call = "send"}

LEMMA SendsAreNoSyncs ==
  ASSUME NEW s \in Seq(SendCalls), NEW c \in Chan
  PROVE  /\ s \in Seq(Calls)
         /\ \A x \in 1..Len(s) : s[x] \notin SyncsOn(c)
         /\ AllHits(s, SyncsOn(c)) = 0
<1>1. Len(s) \in Nat /\ \A x \in 1..Len(s) : s[x] \in SendCalls
  OBVIOUS
<1>2. \A x \in 1..Len(s) : s[x] \notin SyncsOn(c)
  BY <1>1 DEF SendCalls, SyncsOn
<1>3. s \in Seq(Calls)
  BY <1>1 DEF SendCalls
<1>. QED BY <1>1, <1>2, <1>3, HitsNone DEF AllHits

\* The packets of one channel to one node ...
LEMMA PacketsFacts ==
  ASSUME NEW d \in Node, NEW c \in Chan, NEW e \in Chan
  PROVE  /\ Packets(e, d) \in Seq(SendCalls)
         /\ AllHits(Packets(e, d), SendsOn(c)) = IF e = c THEN 1 + Extra[c] ELSE 0
<1>1. 1 + Extra[e] \in Nat
  BY RunnerAssumption
<1>2. Call("send", e, d) \in SendCalls
  BY CallFacts DEF SendCalls, Call
<1>3. PICK s : s = Packets(e, d)
  OBVIOUS
<1>4. /\ s \in Seq(SendCalls) /\ Len(s) = 1 + Extra[e]
      /\ \A x \in 1..Len(s) : s[x] = Call("send", e, d)
  BY <1>1, <1>2, <1>3 DEF Packets
<1>5. CASE e = c
  <2>1. \A x \in 1..Len(s) : s[x] \in SendsOn(c)
    BY <1>4, <1>5, CallFacts
  <2>2. Hits(s, Len(s), SendsOn(c)) = Len(s)
    BY <1>1, <1>4, <2>1, HitsAll
  <2>. QED BY <1>3, <1>4, <1>5, <2>2 DEF AllHits
<1>6. CASE e # c
  <2>1. \A x \in 1..Len(s) : s[x] \notin SendsOn(c)
    BY <1>4, <1>6, CallFacts
  <2>2. Hits(s, Len(s), SendsOn(c)) = 0
    BY <1>1, <1>4, <2>1, HitsNone
  <2>. QED BY <1>3, <1>4, <1>6, <2>2 DEF AllHits
<1>. QED BY <1>5, <1>6

\* ... those of all channels ...
LEMMA SendRandomFacts ==
  ASSUME NEW d \in Node, NEW c \in Chan
  PROVE  /\ SendRandom(d) \in Seq(SendCalls)
         /\ AllHits(SendRandom(d), SendsOn(c)) = 1 + Extra[c]
<1>. DEFINE ss == [e \in Chan |-> Packets(e, d)]
            g == [i \in 0..NChan |-> IF i < c THEN 0 ELSE 1 + Extra[c]]
<1>0. NChan \in Nat /\ Chan = 1..NChan /\ c \in 1..NChan /\ 1 + Extra[c] \in Nat
  BY CommAssumption, RunnerAssumption DEF Chan
<1>1. ss \in Seq(Seq(SendCalls)) /\ Len(ss) = NChan /\ \A i \in 1..NChan : ss[i] = Packets(i, d)
  BY <1>0, PacketsFacts
<1>2. ss \in Seq(Seq(Calls))
  <2>1. \A i \in 1..NChan : ss[i] \in Seq(Calls)
    BY <1>0, <1>1, PacketsFacts, SendsAreNoSyncs
  <2>. HIDE DEF ss
  <2>. QED BY <1>0, <1>1, <2>1
<1>3. g[0] = 0 /\ g[NChan] = 1 + Extra[c]
  BY <1>0
<1>4. ASSUME NEW i \in 1..NChan PROVE g[i] = g[i - 1] + AllHits(ss[i], SendsOn(c))
  <2>1. AllHits(ss[i], SendsOn(c)) = IF i = c THEN 1 + Extra[c] ELSE 0
    BY <1>0, <1>1, PacketsFacts
  <2>2. g[i] = (IF i < c THEN 0 ELSE 1 + Extra[c]) /\ g[i - 1] = (IF i - 1 < c THEN 0 ELSE 1 + Extra[c])
    BY <1>0
  <2>. HIDE DEF g, ss
  <2>. QED BY <1>0, <2>1, <2>2
<1>. HIDE DEF g, ss
<1>5. AllHits(FlattenSeq(ss), SendsOn(c)) = g[Len(ss)]
  BY <1>1, <1>2, <1>3, <1>4, HitsFlatten
<1>6. FlattenSeq(ss) \in Seq(SendCalls)
  BY <1>1, FlattenType
<1>7. SendRandom(d) = FlattenSeq(ss)
  BY DEF SendRandom, ss
<1>. QED BY <1>1, <1>3, <1>5, <1>6, <1>7

\* The packets of one iteration.
RouteCalls(n) == FlattenSeq([k \in DOMAIN RouteOf[n] |-> SendRandom(RouteOf[n][k])])

\* ... and those to all the nodes of the route.
LEMMA RouteFacts ==
  ASSUME NEW n \in Node, NEW c \in Chan
  PROVE  /\ RouteCalls(n) \in Seq(SendCalls)
         /\ AllHits(RouteCalls(n), SendsOn(c)) = PacketsPer(n, c)
         /\ PacketsPer(n, c) \in Nat
<1>. DEFINE ss == [k \in DOMAIN RouteOf[n] |-> SendRandom(RouteOf[n][k])]
            P == 1 + Extra[c]
            L == Len(RouteOf[n])
            g == [i \in 0..L |-> i * P]
<1>0. RouteOf[n] \in Seq(Node) /\ L \in Nat /\ DOMAIN RouteOf[n] = 1..L /\ P \in Nat
  BY RunnerAssumption
<1>1. \A k \in 1..L : /\ SendRandom(RouteOf[n][k]) \in Seq(SendCalls)
                      /\ SendRandom(RouteOf[n][k]) \in Seq(Calls)
                      /\ AllHits(SendRandom(RouteOf[n][k]), SendsOn(c)) = P
  <2>. TAKE k \in 1..L
  <2>1. RouteOf[n][k] \in Node
    BY <1>0
  <2>. QED BY <2>1, SendRandomFacts, SendsAreNoSyncs
<1>2. /\ ss \in Seq(Seq(SendCalls)) /\ ss \in Seq(Seq(Calls)) /\ Len(ss) = L
      /\ \A i \in 1..L : AllHits(ss[i], SendsOn(c)) = P
  BY <1>0, <1>1
<1>3. g[0] = 0 /\ g[L] = L * P /\ L * P \in Nat
  <2>. HIDE DEF P, L
  <2>. QED BY <1>0
<1>4. ASSUME NEW i \in 1..L PROVE g[i] = g[i - 1] + AllHits(ss[i], SendsOn(c))
  <2>1. AllHits(ss[i], SendsOn(c)) = P
    BY <1>2
  <2>2. i * P = ((i - 1) * P) + P
    <3>. HIDE DEF P, L
    <3>. QED BY <1>0
  <2>3. g[i] = i * P /\ g[i - 1] = (i - 1) * P
    BY <1>0
  <2>. HIDE DEF g, ss, P
  <2>. QED BY <2>1, <2>2, <2>3
<1>. HIDE DEF g, ss
<1>5. AllHits(FlattenSeq(ss), SendsOn(c)) = g[Len(ss)]
  BY <1>2, <1>3, <1>4, HitsFlatten
<1>6. FlattenSeq(ss) \in Seq(SendCalls)
  BY <1>2, FlattenType
<1>7. RouteCalls(n) = FlattenSeq(ss)
  BY DEF RouteCalls, ss
<1>. QED BY <1>2, <1>3, <1>5, <1>6, <1>7 DEF PacketsPer

\* Each channel is synchronized once.
LEMMA SyncAllFacts ==
  ASSUME NEW c \in Chan
  PROVE  /\ SyncAll \in Seq(Calls) /\ Len(SyncAll) = NChan
         /\ \A y \in 1..NChan : /\ SyncAll[y] \in SyncsOn(c) <=> y = c
                                /\ Hits(SyncAll, y, SendsOn(c)) = 0
         /\ Hits(SyncAll, c, SyncsOn(c)) = 1 /\ AllHits(SyncAll, SyncsOn(c)) = 1
         /\ AllHits(SyncAll, SendsOn(c)) = 0
<1>0. NChan \in Nat /\ Chan = 1..NChan /\ c \in Nat /\ c - 1 \in Nat /\ c <= NChan /\ (c - 1) + 1 = c
  BY CommAssumption DEF Chan
<1>1. PICK s : s = SyncAll
  OBVIOUS
<1>2. s \in Seq(Calls) /\ Len(s) = NChan /\ \A y \in 1..NChan : s[y] = Call("synchronize", y, 0)
  BY <1>0, <1>1, CallFacts DEF SyncAll
<1>3. \A y \in 1..NChan : (s[y] \in SyncsOn(c) <=> y = c) /\ s[y] \notin SendsOn(c)
  BY <1>0, <1>2, CallFacts
<1>4. \A y \in 1..NChan : Hits(s, y, SendsOn(c)) = 0
  <2>. TAKE y \in 1..NChan
  <2>1. y \in Nat /\ \A x \in 1..y : s[x] \notin SendsOn(c)
    BY <1>0, <1>3
  <2>. QED BY <2>1, HitsNone
<1>5. Hits(s, c, SyncsOn(c)) = 1
  <2>1. \A x \in 1..(c - 1) : s[x] \notin SyncsOn(c)
    BY <1>0, <1>3
  <2>2. Hits(s, c - 1, SyncsOn(c)) = 0
    BY <1>0, <2>1, HitsNone
  <2>3. Hits(s, (c - 1) + 1, SyncsOn(c)) = Hits(s, c - 1, SyncsOn(c)) + (IF s[(c - 1) + 1] \in SyncsOn(c) THEN 1 ELSE 0)
    BY <1>0, HitsStep
  <2>4. s[c] \in SyncsOn(c)
    BY <1>0, <1>3
  <2>. QED BY <1>0, <2>2, <2>3, <2>4
<1>6. {x \in 1..NChan : s[x] \in SyncsOn(c)} = {x \in 1..c : s[x] \in SyncsOn(c)}
  BY <1>0, <1>3
<1>7. AllHits(s, SyncsOn(c)) = 1
  BY <1>2, <1>5, <1>6 DEF AllHits, Hits
<1>8. AllHits(s, SendsOn(c)) = 0
  BY <1>0, <1>2, <1>3, HitsNone DEF AllHits
<1>. QED BY <1>1, <1>2, <1>3, <1>4, <1>5, <1>7, <1>8

-----------------------------------------------------------------------------
(* Each sync of a program has the packets of its iterations before it.     *)

\* Multiplication is monotonic.
LEMMA Multiples ==
  ASSUME NEW a \in Nat, NEW b \in Nat, NEW m \in Nat, a <= b
  PROVE  a * m <= b * m
<1>1. b * m = (a * m) + ((b - a) * m) /\ b - a \in Nat
  OBVIOUS
<1>2. (b - a) * m \in Nat /\ a * m \in Nat
  BY <1>1
<1>. QED BY <1>1, <1>2

\* k syncs have been called in the first i iterations.
Rounds(i, k) == SyncEvery * k >= i /\ SyncEvery * k < i + SyncEvery

LEMMA RoundsStep ==
  ASSUME NEW i \in Nat, NEW k \in Nat, Rounds(i, k)
  PROVE  /\ ~SyncsAt(i) => Rounds(i + 1, k)
         /\ SyncsAt(i) => SyncEvery * k = i /\ Rounds(i + 1, k + 1) /\ SyncedIterations(k + 1) = i + 1
<1>. DEFINE q == i \div SyncEvery
            r == i % SyncEvery
<1>0. SyncEvery \in Nat /\ SyncEvery > 0
  BY RunnerAssumption
<1>1. q \in Nat /\ r \in Nat /\ i = (SyncEvery * q) + r /\ r < SyncEvery
  BY <1>0
<1>. HIDE DEF q, r
<1>2. /\ SyncEvery * (q + 1) = (SyncEvery * q) + SyncEvery
      /\ SyncEvery * (k + 1) = (SyncEvery * k) + SyncEvery
      /\ SyncEvery * q \in Nat /\ SyncEvery * k \in Nat
  BY <1>0, <1>1
<1>3. \A a, b \in Nat : a <= b => SyncEvery * a <= SyncEvery * b
  <2>. TAKE a, b \in Nat
  <2>1. SyncEvery * a = a * SyncEvery /\ SyncEvery * b = b * SyncEvery
    BY <1>0
  <2>. QED BY <1>0, <2>1, Multiples
<1>4. CASE SyncsAt(i)
  <2>1. r = 0
    BY <1>4 DEF SyncsAt, r
  <2>2. k < q + 1
    <3>1. ~(q + 1 <= k)
      BY <1>0, <1>1, <1>2, <1>3, <2>1 DEF Rounds
    <3>. QED BY <1>1, <3>1
  <2>3. q <= k
    <3>1. ~(k + 1 <= q)
      BY <1>0, <1>1, <1>2, <1>3, <2>1 DEF Rounds
    <3>. QED BY <1>1, <3>1
  <2>4. k = q
    BY <1>1, <2>2, <2>3
  <2>5. SyncEvery * k = i
    <3>1. i = SyncEvery * q
      BY <1>1, <1>2, <2>1
    <3>. QED BY <2>4, <3>1
  <2>6. Rounds(i + 1, k + 1)
    BY <1>0, <1>2, <2>5 DEF Rounds
  <2>7. SyncedIterations(k + 1) = i + 1
    <3>1. k + 1 # 0 /\ (k + 1) - 1 = k /\ k * SyncEvery = SyncEvery * k
      BY <1>0
    <3>. QED BY <2>5, <3>1 DEF SyncedIterations
  <2>. QED BY <1>4, <2>5, <2>6, <2>7
<1>5. CASE ~SyncsAt(i)
  <2>1. r > 0
    BY <1>1, <1>5 DEF SyncsAt, r
  <2>2. q + 1 <= k
    <3>1. ~(k <= q)
      BY <1>0, <1>1, <1>2, <1>3, <2>1 DEF Rounds
    <3>. QED BY <1>1, <3>1
  <2>3. SyncEvery * (q + 1) <= SyncEvery * k
    BY <1>1, <1>3, <2>2
  <2>4. SyncEvery * k >= i + 1
    BY <1>0, <1>1, <1>2, <2>3
  <2>5. SyncEvery * k < (i + 1) + SyncEvery
    BY <1>0, <1>2 DEF Rounds
  <2>. QED BY <1>5, <2>4, <2>5 DEF Rounds
<1>. QED BY <1>4, <1>5

\* What ProgramOK says of one program and one channel, and of what follows it.
Enough(n, c, sends, syncs) == sends >= SyncedIterations(syncs) * PacketsPer(n, c)
EnoughIn(n, c, s) ==
  \A x \in 1..Len(s) : s[x] \in SyncsOn(c) => Enough(n, c, Hits(s, x, SendsOn(c)), Hits(s, x, SyncsOn(c)))

LEMMA EnoughConcat ==
  ASSUME NEW n \in Node, NEW c \in Chan, NEW s \in Seq(Calls), NEW t \in Seq(Calls),
         EnoughIn(n, c, s),
         \A x \in 1..Len(t) : t[x] \in SyncsOn(c) =>
           Enough(n, c, AllHits(s, SendsOn(c)) + Hits(t, x, SendsOn(c)),
                        AllHits(s, SyncsOn(c)) + Hits(t, x, SyncsOn(c)))
  PROVE  EnoughIn(n, c, s \o t)
<1>1. PICK u : u = s \o t
  OBVIOUS
<1>2. /\ Len(s) \in Nat /\ Len(t) \in Nat /\ Len(u) = Len(s) + Len(t)
      /\ \A x \in 1..Len(s) : u[x] = s[x]
      /\ \A x \in 1..Len(t) : u[Len(s) + x] = t[x]
  BY <1>1
<1>3. ASSUME NEW x \in 1..Len(u), u[x] \in SyncsOn(c)
      PROVE  Enough(n, c, Hits(u, x, SendsOn(c)), Hits(u, x, SyncsOn(c)))
  <2>1. CASE x <= Len(s)
    <3>1. x \in 1..Len(s) /\ x \in Nat /\ s[x] \in SyncsOn(c) /\ \A y \in 1..x : u[y] = s[y]
      BY <1>2, <1>3, <2>1
    <3>2. Hits(u, x, SendsOn(c)) = Hits(s, x, SendsOn(c)) /\ Hits(u, x, SyncsOn(c)) = Hits(s, x, SyncsOn(c))
      BY <3>1, HitsSame
    <3>. QED BY <3>1, <3>2 DEF EnoughIn
  <2>2. CASE x > Len(s)
    <3>1. PICK k \in 1..Len(t) : x = Len(s) + k
      <4>1. x - Len(s) \in 1..Len(t) /\ x = Len(s) + (x - Len(s))
        BY <1>2, <2>2
      <4>. QED BY <4>1
    <3>2. t[k] \in SyncsOn(c) /\ k \in 0..Len(t)
      BY <1>2, <1>3, <3>1
    <3>3. \A T : Hits(s \o t, Len(s) + k, T) = AllHits(s, T) + Hits(t, k, T)
      <4>. TAKE T
      <4>. QED BY <3>2, HitsConcat
    <3>4. /\ Hits(u, x, SendsOn(c)) = AllHits(s, SendsOn(c)) + Hits(t, k, SendsOn(c))
          /\ Hits(u, x, SyncsOn(c)) = AllHits(s, SyncsOn(c)) + Hits(t, k, SyncsOn(c))
      BY <1>1, <3>1, <3>3
    <3>. QED BY <3>1, <3>2, <3>4
  <2>. QED BY <1>2, <2>1, <2>2
<1>. QED BY <1>1, <1>3 DEF EnoughIn

\* i iterations.
Iterated(n, c, i, s) ==
  /\ s \in Seq(Calls)
  /\ AllHits(s, SendsOn(c)) = i * PacketsPer(n, c)
  /\ AllHits(s, SyncsOn(c)) \in Nat /\ Rounds(i, AllHits(s, SyncsOn(c)))
  /\ EnoughIn(n, c, s)

LEMMA IterationType ==
  ASSUME NEW n \in Node, NEW i \in Nat
  PROVE  Iteration(n, i) \in Seq(Calls)
<1>1. PICK c \in Chan : TRUE
  BY CommAssumption DEF Chan
<1>2. RouteCalls(n) \in Seq(Calls)
  BY <1>1, RouteFacts, SendsAreNoSyncs
<1>3. (IF SyncsAt(i) THEN SyncAll ELSE <<>>) \in Seq(Calls)
  <2>1. SyncAll \in Seq(Calls)
    BY <1>1, SyncAllFacts
  <2>. QED BY <2>1
<1>4. Iteration(n, i) = RouteCalls(n) \o (IF SyncsAt(i) THEN SyncAll ELSE <<>>)
  BY DEF Iteration, RouteCalls
<1>. QED BY <1>2, <1>3, <1>4

\* One more iteration.
LEMMA IterationFacts ==
  ASSUME NEW n \in Node, NEW c \in Chan, NEW i \in Nat, NEW s, Iterated(n, c, i, s)
  PROVE  Iterated(n, c, i + 1, s \o Iteration(n, i))
<1>. DEFINE R == RouteCalls(n)
            Y == IF SyncsAt(i) THEN SyncAll ELSE <<>>
            P == PacketsPer(n, c)
            K == AllHits(s, SyncsOn(c))
<1>0. P \in Nat /\ K \in Nat /\ Rounds(i, K) /\ s \in Seq(Calls) /\ AllHits(s, SendsOn(c)) = i * P
      /\ EnoughIn(n, c, s)
  BY RouteFacts DEF Iterated
<1>1. /\ R \in Seq(Calls) /\ AllHits(R, SendsOn(c)) = P /\ AllHits(R, SyncsOn(c)) = 0
      /\ \A x \in 1..Len(R) : R[x] \notin SyncsOn(c)
  BY RouteFacts, SendsAreNoSyncs
<1>2. Y \in Seq(Calls) /\ AllHits(Y, SendsOn(c)) = 0 /\ AllHits(Y, SyncsOn(c)) = (IF SyncsAt(i) THEN 1 ELSE 0)
  <2>1. CASE SyncsAt(i)
    BY <2>1, SyncAllFacts
  <2>2. CASE ~SyncsAt(i)
    <3>1. Y = <<>> /\ Len(<<>>) = 0
      BY <2>2
    <3>2. \A T : Hits(<<>>, 0, T) = 0
      BY HitsNone
    <3>. QED BY <2>2, <3>1, <3>2 DEF AllHits
  <2>. QED BY <2>1, <2>2
<1>3. PICK t : t = R \o Y
  OBVIOUS
<1>4. Iteration(n, i) = t
  BY <1>3 DEF Iteration, RouteCalls
<1>. HIDE DEF R, P, K
<1>5. /\ t \in Seq(Calls) /\ Len(R) \in Nat /\ Len(Y) \in Nat /\ Len(t) = Len(R) + Len(Y)
      /\ \A x \in 1..Len(R) : t[x] = R[x]
      /\ \A x \in 1..Len(Y) : t[Len(R) + x] = Y[x]
  <2>. HIDE DEF Y
  <2>. QED BY <1>1, <1>2, <1>3
<1>6. AllHits(t, SendsOn(c)) = P /\ AllHits(t, SyncsOn(c)) = (IF SyncsAt(i) THEN 1 ELSE 0)
  <2>. HIDE DEF Y
  <2>1. \A T : AllHits(R \o Y, T) = AllHits(R, T) + AllHits(Y, T)
    <3>. TAKE T
    <3>. QED BY <1>1, <1>2, HitsConcat
  <2>. QED BY <1>0, <1>1, <1>2, <1>3, <2>1
<1>7. ASSUME NEW x \in 1..Len(t), t[x] \in SyncsOn(c)
      PROVE  Enough(n, c, AllHits(s, SendsOn(c)) + Hits(t, x, SendsOn(c)),
                          AllHits(s, SyncsOn(c)) + Hits(t, x, SyncsOn(c)))
  <2>1. ~(x \in 1..Len(R))
    BY <1>1, <1>5, <1>7
  <2>2. PICK y \in 1..Len(Y) : x = Len(R) + y
    <3>1. x - Len(R) \in 1..Len(Y) /\ x = Len(R) + (x - Len(R))
      <4>. HIDE DEF Y
      <4>. QED BY <1>5, <2>1
    <3>. QED BY <3>1
  <2>3. SyncsAt(i)
    <3>1. ~SyncsAt(i) => Len(Y) = 0
      OBVIOUS
    <3>2. y \in 1..Len(Y) /\ Len(Y) \in Nat
      BY <1>5
    <3>. QED BY <3>1, <3>2
  <2>4. Y = SyncAll /\ y \in 1..NChan
    BY <2>2, <2>3, SyncAllFacts
  <2>5. t[x] = SyncAll[y]
    BY <1>5, <2>2, <2>4
  <2>6. y = c /\ Hits(SyncAll, y, SendsOn(c)) = 0 /\ Hits(SyncAll, y, SyncsOn(c)) = 1
    BY <1>7, <2>4, <2>5, SyncAllFacts
  <2>7. \A T : Hits(R \o Y, Len(R) + y, T) = AllHits(R, T) + Hits(Y, y, T)
    <3>. TAKE T
    <3>1. y \in 0..Len(Y)
      BY <1>5
    <3>. HIDE DEF Y
    <3>. QED BY <1>1, <1>2, <3>1, HitsConcat
  <2>8. Hits(t, x, SendsOn(c)) = P /\ Hits(t, x, SyncsOn(c)) = 1
    <3>1. Hits(t, x, SendsOn(c)) = AllHits(R, SendsOn(c)) + Hits(Y, y, SendsOn(c))
      BY <1>3, <2>2, <2>7
    <3>2. Hits(t, x, SyncsOn(c)) = AllHits(R, SyncsOn(c)) + Hits(Y, y, SyncsOn(c))
      BY <1>3, <2>2, <2>7
    <3>. QED BY <1>0, <1>1, <2>4, <2>6, <3>1, <3>2
  <2>9. SyncedIterations(K + 1) = i + 1
    BY <1>0, <2>3, RoundsStep
  <2>10. (i * P) + P = (i + 1) * P
    BY <1>0
  <2>11. (i + 1) * P >= (i + 1) * P
    <3>1. (i + 1) * P \in Nat
      BY <1>0
    <3>. QED BY <3>1
  <2>12. AllHits(s, SyncsOn(c)) + Hits(t, x, SyncsOn(c)) = K + 1
    BY <2>8 DEF K
  <2>13. AllHits(s, SendsOn(c)) + Hits(t, x, SendsOn(c)) = (i + 1) * P
    BY <1>0, <2>8, <2>10
  <2>. QED BY <2>9, <2>11, <2>12, <2>13 DEF Enough, P
<1>8. EnoughIn(n, c, s \o t)
  BY <1>0, <1>5, <1>7, EnoughConcat
<1>9. s \o t \in Seq(Calls)
  BY <1>0, <1>5
<1>10. \A T : AllHits(s \o t, T) = AllHits(s, T) + AllHits(t, T)
  <2>. TAKE T
  <2>. QED BY <1>0, <1>5, HitsConcat
<1>11. AllHits(s \o t, SendsOn(c)) = (i + 1) * P
  <2>1. (i * P) + P = (i + 1) * P
    BY <1>0
  <2>. QED BY <1>0, <1>6, <1>10, <2>1
<1>12. AllHits(s \o t, SyncsOn(c)) \in Nat /\ Rounds(i + 1, AllHits(s \o t, SyncsOn(c)))
  <2>1. AllHits(s \o t, SyncsOn(c)) = K + (IF SyncsAt(i) THEN 1 ELSE 0)
    BY <1>6, <1>10 DEF K
  <2>2. CASE SyncsAt(i)
    <3>1. Rounds(i + 1, K + 1) /\ K + 1 \in Nat
      BY <1>0, <2>2, RoundsStep
    <3>. QED BY <2>1, <2>2, <3>1
  <2>3. CASE ~SyncsAt(i)
    <3>1. Rounds(i + 1, K) /\ K + 0 = K
      BY <1>0, <2>3, RoundsStep
    <3>. QED BY <1>0, <2>1, <2>3, <3>1
  <2>. QED BY <2>2, <2>3
<1>. QED BY <1>4, <1>8, <1>9, <1>11, <1>12 DEF Iterated, P

LEMMA NoIterations ==
  ASSUME NEW n \in Node, NEW c \in Chan
  PROVE  Iterated(n, c, 0, <<>>)
<1>1. <<>> \in Seq(Calls) /\ Len(<<>>) = 0
  OBVIOUS
<1>2. \A T : AllHits(<<>>, T) = 0
  <2>. TAKE T
  <2>1. Hits(<<>>, 0, T) = 0
    BY HitsNone
  <2>. QED BY <1>1, <2>1 DEF AllHits
<1>3. 0 * PacketsPer(n, c) = 0
  BY RouteFacts
<1>4. Rounds(0, 0)
  BY RunnerAssumption DEF Rounds
<1>5. EnoughIn(n, c, <<>>)
  BY <1>1 DEF EnoughIn
<1>. QED BY <1>1, <1>2, <1>3, <1>4, <1>5 DEF Iterated

\* All of them, by counting up.
LEMMA AllIterations ==
  ASSUME NEW n \in Node, NEW c \in Chan
  PROVE  Iterated(n, c, Iters, FlattenSeq([i \in 1..Iters |-> Iteration(n, i - 1)]))
<1>. DEFINE ss == [i \in 1..Iters |-> Iteration(n, i - 1)]
<1>0. Iters \in Nat
  BY RunnerAssumption
<1>1. /\ Len(ss) = Iters /\ \A k \in Nat : k + 1 \in 1..Iters => ss[k + 1] = Iteration(n, k)
      /\ Iters = 0 => ss = <<>>
  BY <1>0
<1>. HIDE DEF ss
<1>2. CASE Iters = 0
  <2>1. FlattenSeq(ss) = <<>>
    BY <1>1, <1>2 DEF FlattenSeq
  <2>. QED BY <1>2, <2>1, NoIterations DEF ss
<1>3. CASE Iters # 0
  <2>1. PICK f : Flattening(f, ss) /\ FlattenSeq(ss) = f[Len(ss)]
    BY <1>0, <1>1, <1>3, FlattenIs
  <2>. DEFINE F(k) == IF k = 0 THEN <<>> ELSE f[k]
              S == {k \in Nat : Iterated(n, c, k, F(k))}
  <2>2. 0 \in S
    BY NoIterations
  <2>3. ASSUME NEW k \in 0..(Iters - 1), k \in S PROVE k + 1 \in S
    <3>1. k \in Nat /\ k + 1 \in 1..Iters /\ (k + 1) - 1 = k /\ (k + 1 = 1 <=> k = 0) /\ k + 1 # 0
      BY <1>0
    <3>2. Iterated(n, c, k, F(k))
      BY <2>3
    <3>3. f[k + 1] = IF k = 0 THEN ss[k + 1] ELSE f[k] \o ss[k + 1]
      <4>1. PICK i \in 1..Len(ss) : i = k + 1 /\ i - 1 = k /\ (i = 1 <=> k = 0)
        BY <1>1, <3>1
      <4>2. f[i] = IF i = 1 THEN ss[i] ELSE f[i - 1] \o ss[i]
        BY <2>1 DEF Flattening
      <4>. QED BY <4>1, <4>2
    <3>4. ss[k + 1] = Iteration(n, k)
      BY <1>1, <3>1
    <3>5. Iterated(n, c, k + 1, F(k) \o Iteration(n, k))
      BY <3>1, <3>2, IterationFacts
    <3>6. F(k + 1) = F(k) \o Iteration(n, k)
      <4>1. CASE k = 0
        <5>1. Iteration(n, k) \in Seq(Calls)
          BY <3>1, IterationType
        <5>2. <<>> \o Iteration(n, k) = Iteration(n, k)
          BY <5>1
        <5>. QED BY <3>1, <3>3, <3>4, <4>1, <5>2
      <4>2. CASE k # 0
        BY <3>1, <3>3, <3>4, <4>2
      <4>. QED BY <4>1, <4>2
    <3>7. Iterated(n, c, k + 1, F(k + 1))
      <4>. HIDE DEF F
      <4>. QED BY <3>5, <3>6
    <3>8. k + 1 \in Nat
      BY <3>1
    <3>. HIDE DEF F
    <3>. QED BY <3>7, <3>8
  <2>4. Iters \in S
    <3>1. Iters \in 0..Iters
      BY <1>0
    <3>. HIDE DEF S
    <3>. QED BY <1>0, <2>2, <2>3, <3>1, CountingUp
  <2>. QED BY <1>1, <1>3, <2>1, <2>4 DEF ss
<1>. QED BY <1>2, <1>3

LEMMA CallsAreHits ==
  ASSUME NEW s \in Seq(Calls), NEW k \in 0..Len(s), NEW c \in Chan
  PROVE  /\ CallsOf(s, k, "send", c) = Hits(s, k, SendsOn(c))
         /\ CallsOf(s, k, "synchronize", c) = Hits(s, k, SyncsOn(c))
<1>1. \A x \in 1..k : s[x] \in Calls
  OBVIOUS
<1>2. {x \in 1..k : s[x].call = "send" /\ s[x].chan = c} = {x \in 1..k : s[x] \in SendsOn(c)}
  BY <1>1 DEF SendsOn
<1>3. {x \in 1..k : s[x].call = "synchronize" /\ s[x].chan = c} = {x \in 1..k : s[x] \in SyncsOn(c)}
  BY <1>1 DEF SyncsOn
<1>. QED BY <1>2, <1>3 DEF CallsOf, Hits

LEMMA ProgramIsOK == ProgramOK
<1>. SUFFICES ASSUME NEW n \in Node, NEW c \in Chan, NEW x \in 1..Len(Program[n]),
                     Program[n][x].call = "synchronize", Program[n][x].chan = c
              PROVE  CallsOf(Program[n], x, "send", c)
                       >= SyncedIterations(CallsOf(Program[n], x, "synchronize", c)) * PacketsPer(n, c)
  BY DEF ProgramOK
<1>. DEFINE F == FlattenSeq([i \in 1..Iters |-> Iteration(n, i - 1)])
<1>1. Iterated(n, c, Iters, F)
  BY AllIterations
<1>. HIDE DEF F
<1>2. F \in Seq(Calls) /\ EnoughIn(n, c, F)
  BY <1>1 DEF Iterated
<1>3. Program[n] = F \o EofAll
  BY DEF Program, F
<1>4. NChan \in Nat /\ Chan = 1..NChan
  BY CommAssumption DEF Chan
<1>5. EofAll \in Seq(Calls) /\ Len(EofAll) = NChan /\ \A y \in 1..NChan : EofAll[y] \notin SyncsOn(c)
  <2>1. \A y \in Chan : Call("mark_eof", y, 0) \in Calls /\ Call("mark_eof", y, 0) \notin SyncsOn(c)
    BY CallFacts
  <2>. QED BY <1>4, <2>1 DEF EofAll
<1>6. EnoughIn(n, c, Program[n])
  BY <1>2, <1>3, <1>5, EnoughConcat
<1>7. Program[n] \in Seq(Calls) /\ Len(Program[n]) \in Nat
  BY ProgramType
<1>8. CallsOf(Program[n], x, "send", c) = Hits(Program[n], x, SendsOn(c))
      /\ CallsOf(Program[n], x, "synchronize", c) = Hits(Program[n], x, SyncsOn(c))
  BY <1>7, CallsAreHits
<1>9. Program[n][x] \in SyncsOn(c)
  BY <1>7 DEF SyncsOn
<1>. QED BY <1>6, <1>8, <1>9 DEF EnoughIn, Enough

-----------------------------------------------------------------------------
(* The logs are what the programs have pushed.                             *)

\* One call further.
LEMMA CallsStep ==
  ASSUME NEW n \in Node, NEW k \in Nat, k < Len(Program[n]), NEW c \in Chan, NEW f \in {"send", "synchronize"}
  PROVE  /\ CallsOf(Program[n], k, f, c) \in Nat
         /\ CallsOf(Program[n], k + 1, f, c) = CallsOf(Program[n], k, f, c)
              + (IF Program[n][k + 1].call = f /\ Program[n][k + 1].chan = c THEN 1 ELSE 0)
<1>1. /\ Program[n] \in Seq(Calls) /\ Len(Program[n]) \in Nat
      /\ k \in 0..Len(Program[n]) /\ k + 1 \in 0..Len(Program[n]) /\ k + 1 \in 1..Len(Program[n])
  BY ProgramType
<1>2. Program[n][k + 1] \in Calls
  BY <1>1
<1>3. CASE f = "send"
  <2>1. /\ CallsOf(Program[n], k, "send", c) = Hits(Program[n], k, SendsOn(c))
        /\ CallsOf(Program[n], k + 1, "send", c) = Hits(Program[n], k + 1, SendsOn(c))
    BY <1>1, CallsAreHits
  <2>2. Program[n][k + 1] \in SendsOn(c) <=> Program[n][k + 1].call = "send" /\ Program[n][k + 1].chan = c
    BY <1>2 DEF SendsOn
  <2>3. /\ Hits(Program[n], k, SendsOn(c)) \in Nat
        /\ Hits(Program[n], k + 1, SendsOn(c)) = Hits(Program[n], k, SendsOn(c))
             + (IF Program[n][k + 1] \in SendsOn(c) THEN 1 ELSE 0)
    BY HitsStep
  <2>. QED BY <1>3, <2>1, <2>2, <2>3
<1>4. CASE f = "synchronize"
  <2>1. /\ CallsOf(Program[n], k, "synchronize", c) = Hits(Program[n], k, SyncsOn(c))
        /\ CallsOf(Program[n], k + 1, "synchronize", c) = Hits(Program[n], k + 1, SyncsOn(c))
    BY <1>1, CallsAreHits
  <2>2. Program[n][k + 1] \in SyncsOn(c) <=> Program[n][k + 1].call = "synchronize" /\ Program[n][k + 1].chan = c
    BY <1>2 DEF SyncsOn
  <2>3. /\ Hits(Program[n], k, SyncsOn(c)) \in Nat
        /\ Hits(Program[n], k + 1, SyncsOn(c)) = Hits(Program[n], k, SyncsOn(c))
             + (IF Program[n][k + 1] \in SyncsOn(c) THEN 1 ELSE 0)
    BY HitsStep
  <2>. QED BY <1>4, <2>1, <2>2, <2>3
<1>. QED BY <1>3, <1>4

\* a is the log s with the entry e after it: what counts in it.
Appended(s, e, a) ==
  /\ Len(a) = Len(s) + 1 /\ a[Len(s) + 1] = e /\ Len(s) \in Nat
  /\ \A t : CountOf(t, a) = CountOf(t, s) + (IF e.type = t THEN 1 ELSE 0)
  /\ \A t : CountOf(t, s) \in Nat
  /\ \A p \in 1..Len(s) : a[p] = s[p] /\ DataUpto(a, p) = DataUpto(s, p)
  /\ e.type # "data" => DataUpto(a, Len(s) + 1) = CountOf("data", s)

LEMMA LogAppended ==
  ASSUME NEW s \in Seq(LogEntry), NEW e \in LogEntry, NEW a, a = Append(s, e)
  PROVE  Appended(s, e, a)
<1>1. /\ Len(s) \in Nat /\ Len(a) = Len(s) + 1 /\ a \in Seq(LogEntry)
      /\ \A k \in 1..Len(s) : a[k] = s[k]
      /\ a[Len(s) + 1] = e
  BY AppendFacts
<1>2. ASSUME NEW t PROVE CountOf(t, s) \in Nat /\ CountOf(t, a) = CountOf(t, s) + (IF e.type = t THEN 1 ELSE 0)
  <2>1. Len(s) <= Len(s)
    BY <1>1
  <2>. QED BY <1>1, <2>1, CountAppend
<1>3. ASSUME NEW p \in 1..Len(s) PROVE DataUpto(a, p) = DataUpto(s, p)
  <2>1. p \in Nat /\ \A q \in 1..p : a[q] = s[q]
    BY <1>1
  <2>2. CountUpto("data", a, p) = CountUpto("data", s, p)
    BY <2>1, CountSame
  <2>. QED BY <2>2 DEF DataUpto, CountUpto
<1>4. ASSUME e.type # "data" PROVE DataUpto(a, Len(s) + 1) = CountOf("data", s)
  <2>1. CountOf("data", a) = CountOf("data", s)
    BY <1>2, <1>4
  <2>. QED BY <1>1, <2>1 DEF DataUpto, CountOf
<1>. QED BY <1>1, <1>2, <1>3, <1>4 DEF Appended

\* SenderInv of one cell: the calls k of the program of n, the log s of c.
SenderCell(n, c, k, s) ==
  /\ k <= Len(Program[n])
  /\ CountOf("data", s) = CallsOf(Program[n], k, "send", c)
  /\ CountOf("sync", s) = CallsOf(Program[n], k, "synchronize", c)
  /\ \A p \in 1..Len(s) : s[p].type = "sync" =>
       DataUpto(s, p) >= SyncedIterations(s[p].round) * PacketsPer(n, c)

LEMMA SenderCells == SenderInv <=> \A n \in Node, c \in Chan : SenderCell(n, c, calls[n], log[c][n])
  BY DEF SenderInv, SenderCell

LEMMA SenderCellsAfter == SenderInv' <=> \A n \in Node, c \in Chan : SenderCell(n, c, calls'[n], log'[c][n])
  BY DEF SenderInv, SenderCell

\* A call on another channel.
LEMMA CallElsewhere ==
  ASSUME NEW n \in Node, NEW c \in Chan, NEW k \in Nat, NEW s, SenderCell(n, c, k, s),
         k < Len(Program[n]), Program[n][k + 1].chan # c
  PROVE  SenderCell(n, c, k + 1, s)
<1>1. Len(Program[n]) \in Nat
  BY ProgramType
<1>2. k + 1 <= Len(Program[n])
  BY <1>1
<1>3. \A f \in {"send", "synchronize"} : CallsOf(Program[n], k + 1, f, c) = CallsOf(Program[n], k, f, c)
  BY CallsStep
<1>. QED BY <1>2, <1>3 DEF SenderCell

\* A call on the channel pushes what it counts.
LEMMA CallHere ==
  ASSUME NEW n \in Node, NEW c \in Chan, NEW k \in Nat, NEW s \in Seq(LogEntry), SenderCell(n, c, k, s),
         k < Len(Program[n]), Program[n][k + 1].chan = c, NEW e \in LogEntry,
         e.type = "data" <=> Program[n][k + 1].call = "send",
         e.type = "sync" <=> Program[n][k + 1].call = "synchronize",
         e.type = "sync" => e.round = CountOf("sync", s) + 1
  PROVE  SenderCell(n, c, k + 1, Append(s, e))
<1>0. PICK a : a = Append(s, e)
  OBVIOUS
<1>1. /\ Len(a) = Len(s) + 1 /\ a[Len(s) + 1] = e /\ Len(s) \in Nat
      /\ \A t : CountOf(t, a) = CountOf(t, s) + (IF e.type = t THEN 1 ELSE 0)
      /\ \A t : CountOf(t, s) \in Nat
      /\ \A p \in 1..Len(s) : a[p] = s[p] /\ DataUpto(a, p) = DataUpto(s, p)
      /\ e.type # "data" => DataUpto(a, Len(s) + 1) = CountOf("data", s)
  <2>1. Appended(s, e, a)
    BY <1>0, LogAppended
  <2>. QED BY <2>1 DEF Appended
<1>2. Len(Program[n]) \in Nat /\ k + 1 <= Len(Program[n]) /\ k + 1 \in 1..Len(Program[n])
  BY ProgramType
<1>3. \A f \in {"send", "synchronize"} :
        CallsOf(Program[n], k + 1, f, c) = CallsOf(Program[n], k, f, c) + (IF Program[n][k + 1].call = f THEN 1 ELSE 0)
  BY CallsStep
<1>4. CountOf("data", a) = CallsOf(Program[n], k + 1, "send", c)
  BY <1>1, <1>3 DEF SenderCell
<1>5. CountOf("sync", a) = CallsOf(Program[n], k + 1, "synchronize", c)
  BY <1>1, <1>3 DEF SenderCell
<1>6. ASSUME NEW p \in 1..Len(a), a[p].type = "sync"
      PROVE  DataUpto(a, p) >= SyncedIterations(a[p].round) * PacketsPer(n, c)
  <2>1. CASE p \in 1..Len(s)
    BY <1>1, <1>6, <2>1 DEF SenderCell
  <2>2. CASE p = Len(s) + 1
    <3>1. e.type = "sync" /\ a[p].round = CountOf("sync", a)
      <4>1. e.type = "sync" /\ a[p].round = CountOf("sync", s) + 1
        BY <1>1, <1>6, <2>2
      <4>2. CountOf("sync", a) = CountOf("sync", s) + 1
        BY <1>1, <4>1
      <4>. QED BY <4>1, <4>2
    <3>2. DataUpto(a, p) = CountOf("data", s) /\ CountOf("data", a) = CountOf("data", s)
      BY <1>1, <2>2, <3>1
    <3>3. CallsOf(Program[n], k + 1, "send", c)
            >= SyncedIterations(CallsOf(Program[n], k + 1, "synchronize", c)) * PacketsPer(n, c)
      BY <1>2, <3>1, ProgramIsOK DEF ProgramOK
    <3>. QED BY <1>4, <1>5, <3>1, <3>2, <3>3
  <2>. QED BY <1>1, <2>1, <2>2
<1>. QED BY <1>0, <1>2, <1>4, <1>5, <1>6 DEF SenderCell

\* An ack is not counted.
LEMMA AckHere ==
  ASSUME NEW n \in Node, NEW c \in Chan, NEW k \in Nat, NEW s \in Seq(LogEntry), SenderCell(n, c, k, s),
         NEW e \in LogEntry, e.type = "ack"
  PROVE  SenderCell(n, c, k, Append(s, e))
<1>0. PICK a : a = Append(s, e)
  OBVIOUS
<1>1. /\ Len(a) = Len(s) + 1 /\ a[Len(s) + 1] = e /\ Len(s) \in Nat
      /\ \A t : CountOf(t, a) = CountOf(t, s) + (IF e.type = t THEN 1 ELSE 0)
      /\ \A t : CountOf(t, s) \in Nat
      /\ \A p \in 1..Len(s) : a[p] = s[p] /\ DataUpto(a, p) = DataUpto(s, p)
  <2>1. Appended(s, e, a)
    BY <1>0, LogAppended
  <2>. QED BY <2>1 DEF Appended
<1>2. CountOf("data", a) = CountOf("data", s) /\ CountOf("sync", a) = CountOf("sync", s)
  BY <1>1
<1>3. ASSUME NEW p \in 1..Len(a), a[p].type = "sync" PROVE p \in 1..Len(s)
  <2>1. p # Len(s) + 1
    BY <1>1, <1>3
  <2>. QED BY <1>1, <2>1
<1>4. \A p \in 1..Len(a) : a[p].type = "sync" =>
        DataUpto(a, p) >= SyncedIterations(a[p].round) * PacketsPer(n, c)
  BY <1>1, <1>3 DEF SenderCell
<1>. QED BY <1>0, <1>2, <1>4 DEF SenderCell

\* The entry that a push appends.
LEMMA EntryPushed ==
  ASSUME TypeOK, NEW n \in Node, NEW c \in Chan, NEW t \in MsgType, NEW d \in Node, Push(n, c, t, d)
  PROVE  \E e \in LogEntry :
           /\ e.type = t /\ (t = "sync" => e.round = CountOf("sync", log[c][n]) + 1)
           /\ log' = [log EXCEPT ![c][n] = Append(log[c][n], e)]
<1>. DEFINE r == IF t \in {"sync", "ack"} THEN CountOf(t, log[c][n]) + 1 ELSE 0
            e == [type |-> t, dest |-> d, round |-> r]
<1>1. Len(log[c][n]) \in Nat
  BY DEF TypeOK
<1>2. r \in Nat /\ (t = "sync" => r = CountOf("sync", log[c][n]) + 1)
  BY <1>1, CountType
<1>3. log' = [log EXCEPT ![c][n] = Append(log[c][n], e)]
  BY DEF Push
<1>. HIDE DEF r
<1>4. e \in LogEntry /\ e.type = t /\ e.round = r
  BY <1>2 DEF LogEntry
<1>. QED BY <1>2, <1>3, <1>4

\* Nothing but the sender, and the acks, writes the logs.
LEMMA OnlyTheSenderLogs ==
  ASSUME RunnerTypeOK, [RunnerNext]_runnerVars
  PROVE  \/ \E n \in Node : SenderCalls(n)
         \/ calls' = calls /\ \E n \in Node, c \in Chan : Push(n, c, "ack", n)
         \/ calls' = calls /\ log' = log
<1>1. ASSUME NEW n \in Node, CallReturns(n) PROVE calls' = calls /\ log' = log
  BY <1>1 DEF CallReturns, SynchronizeReturns, MarkEof, threads
<1>2. ASSUME NEW n \in Node, TryReceive(n), turn[n] \in Chan
      PROVE  calls' = calls /\ (log' = log \/ \E c \in Chan : Push(n, c, "ack", n))
  <2>1. calls' = calls
    BY <1>2 DEF TryReceive
  <2>2. \/ PopReceived(n, turn[n]) \/ HandleSync(n, turn[n]) \/ HandleAck(n, turn[n]) \/ HandleData(n, turn[n])
    BY <1>2 DEF TryReceive
  <2>3. CASE HandleSync(n, turn[n])
    BY <1>2, <2>1, <2>3 DEF HandleSync, SendAck
  <2>4. CASE PopReceived(n, turn[n]) \/ HandleAck(n, turn[n]) \/ HandleData(n, turn[n])
    BY <2>1, <2>4 DEF PopReceived, HandleAck, HandleData
  <2>. QED BY <2>2, <2>3, <2>4
<1>3. ASSUME NEW n \in Node, MainLoop(n) PROVE calls' = calls /\ log' = log
  <2>1. MainStep(n) /\ calls' = calls
    BY <1>3 DEF MainLoop, threads
  <2>2. log' = log
    BY <2>1 DEF MainStep, Top, ReadEof, ReadEmpty, Poll, PollNext, ReceiveNothing, Receive, Dispatch
  <2>. QED BY <2>1, <2>2
<1>4. ASSUME NEW n \in Node, NothingReceived(n) \/ Stop(n) \/ Destroy(n) \/ Return(n)
      PROVE  calls' = calls /\ log' = log
  <2>1. calls' = calls
    BY <1>4 DEF NothingReceived, Stop, Destroy, Return
  <2>2. CASE Destroy(n)
    BY <2>1, <2>2 DEF Destroy
  <2>3. CASE NothingReceived(n) \/ Stop(n) \/ Return(n)
    <3>1. UNCHANGED vars
      BY <2>3 DEF NothingReceived, Stop, Return
    <3>. QED BY <2>1, <3>1 DEF vars
  <2>. QED BY <1>4, <2>2, <2>3
<1>5. CASE UNCHANGED runnerVars
  BY <1>5 DEF runnerVars, threads, vars
<1>6. ASSUME NEW n \in Node, TryReceive(n) PROVE turn[n] \in Chan
  <2>1. turn[n] \in 0..NChan /\ turn[n] # 0 /\ NChan \in Nat
    BY <1>6, CommAssumption DEF RunnerTypeOK, TryReceive
  <2>. QED BY <2>1 DEF Chan
<1>. QED BY <1>1, <1>2, <1>3, <1>4, <1>5, <1>6 DEF RunnerNext

LEMMA CallFields ==
  ASSUME NEW e \in Calls
  PROVE  /\ e.chan \in Chan /\ e.call \in {"send", "synchronize", "mark_eof"}
         /\ e.call = "send" => e.dest \in Node
  BY DEF Calls, Call

\* A call keeps the log of its channel, and those of the others, in step.
LEMMA CallKeeps ==
  ASSUME TypeOK, RunnerTypeOK, SenderInv, NEW n \in Node, SenderCalls(n)
  PROVE  SenderInv'
<1>. DEFINE k == calls[n]
            P == Program[n]
<1>1. k \in Nat /\ k < Len(P) /\ calls \in [Node -> Nat] /\ calls' = [calls EXCEPT ![n] = k + 1]
  BY DEF RunnerTypeOK, SenderCalls
<1>2. P[k + 1] \in Calls
  <2>1. P \in Seq(Calls) /\ Len(P) \in Nat
    BY ProgramType
  <2>2. k + 1 \in 1..Len(P)
    BY <1>1, <2>1
  <2>. QED BY <2>1, <2>2
<1>3. PICK c \in Chan : c = P[k + 1].chan
  BY <1>2, CallFields
<1>4. PICK t \in {"data", "sync", "eof"}, d \in Node :
        /\ Push(n, c, t, d)
        /\ t = "data" <=> P[k + 1].call = "send"
        /\ t = "sync" <=> P[k + 1].call = "synchronize"
  <2>1. /\ P[k + 1].call = "send" => P[k + 1].dest \in Node
        /\ P[k + 1].call \in {"send", "synchronize", "mark_eof"}
    BY <1>2, CallFields
  <2>2. \/ P[k + 1].call = "send" /\ Send(n, c, P[k + 1].dest)
        \/ P[k + 1].call = "synchronize" /\ Synchronize(n, c)
        \/ P[k + 1].call = "mark_eof" /\ PushEof(n, c)
    BY <1>3 DEF SenderCalls
  <2>3. \/ P[k + 1].call = "send" /\ Push(n, c, "data", P[k + 1].dest)
        \/ P[k + 1].call = "synchronize" /\ Push(n, c, "sync", n)
        \/ P[k + 1].call = "mark_eof" /\ Push(n, c, "eof", n)
    BY <2>2 DEF Send, Synchronize, PushEof
  <2>. QED BY <2>1, <2>3
<1>. HIDE DEF k, P
<1>5. PICK e \in LogEntry :
        /\ e.type = t /\ (t = "sync" => e.round = CountOf("sync", log[c][n]) + 1)
        /\ log' = [log EXCEPT ![c][n] = Append(log[c][n], e)]
  BY <1>4, EntryPushed DEF MsgType
<1>6. log \in [Chan -> [Node -> Seq(LogEntry)]]
  BY DEF TypeOK
<1>7. \A m \in Node, x \in Chan :
        /\ calls'[m] = IF m = n THEN k + 1 ELSE calls[m]
        /\ log'[x][m] = IF m = n /\ x = c THEN Append(log[c][n], e) ELSE log[x][m]
  BY <1>1, <1>5, <1>6
<1>8. ASSUME NEW m \in Node, NEW x \in Chan PROVE SenderCell(m, x, calls'[m], log'[x][m])
  <2>1. SenderCell(m, x, calls[m], log[x][m])
    BY SenderCells
  <2>2. CASE m # n
    BY <1>7, <2>1, <2>2
  <2>3. CASE m = n /\ x # c
    <3>1. SenderCell(n, x, k, log[x][n])
      BY <2>1, <2>3 DEF k
    <3>2. SenderCell(n, x, k + 1, log[x][n])
      BY <1>1, <1>3, <2>3, <3>1, CallElsewhere DEF P
    <3>. QED BY <1>7, <2>3, <3>2
  <2>4. CASE m = n /\ x = c
    <3>1. SenderCell(n, c, k, log[c][n]) /\ log[c][n] \in Seq(LogEntry)
      BY <1>6, <2>1, <2>4 DEF k
    <3>2. SenderCell(n, c, k + 1, Append(log[c][n], e))
      <4>1. PICK s \in Seq(LogEntry) : s = log[c][n]
        BY <3>1
      <4>2. /\ e.type = "data" <=> Program[n][k + 1].call = "send"
            /\ e.type = "sync" <=> Program[n][k + 1].call = "synchronize"
            /\ e.type = "sync" => e.round = CountOf("sync", s) + 1
            /\ k < Len(Program[n]) /\ Program[n][k + 1].chan = c
        BY <1>1, <1>3, <1>4, <1>5, <4>1 DEF P
      <4>3. SenderCell(n, c, k, s)
        BY <3>1, <4>1
      <4>4. SenderCell(n, c, k + 1, Append(s, e))
        BY <1>1, <4>2, <4>3, CallHere
      <4>. QED BY <4>1, <4>4
    <3>. QED BY <1>7, <2>4, <3>2
  <2>. QED BY <2>2, <2>3, <2>4
<1>. QED BY <1>8, SenderCellsAfter

LEMMA AckKeeps ==
  ASSUME TypeOK, SenderInv, RunnerTypeOK, calls' = calls, NEW n \in Node, NEW c \in Chan, Push(n, c, "ack", n)
  PROVE  SenderInv'
<1>1. PICK e \in LogEntry : e.type = "ack" /\ log' = [log EXCEPT ![c][n] = Append(log[c][n], e)]
  BY EntryPushed DEF MsgType
<1>2. log \in [Chan -> [Node -> Seq(LogEntry)]] /\ calls \in [Node -> Nat]
  BY DEF TypeOK, RunnerTypeOK
<1>3. \A m \in Node, x \in Chan :
        log'[x][m] = IF m = n /\ x = c THEN Append(log[c][n], e) ELSE log[x][m]
  BY <1>1, <1>2
<1>4. ASSUME NEW m \in Node, NEW x \in Chan PROVE SenderCell(m, x, calls'[m], log'[x][m])
  <2>1. SenderCell(m, x, calls[m], log[x][m]) /\ log[x][m] \in Seq(LogEntry) /\ calls[m] \in Nat
    BY <1>2, SenderCells
  <2>2. CASE m = n /\ x = c
    <3>1. SenderCell(m, x, calls[m], Append(log[x][m], e))
      BY <1>1, <2>1, AckHere
    <3>. QED BY <1>3, <2>2, <3>1
  <2>3. CASE ~(m = n /\ x = c)
    BY <1>3, <2>1, <2>3
  <2>. QED BY <2>2, <2>3
<1>. QED BY <1>4, SenderCellsAfter

LEMMA SenderStarts == RunnerInit => SenderInv
<1>. SUFFICES ASSUME RunnerInit, NEW n \in Node, NEW c \in Chan PROVE SenderCell(n, c, calls[n], log[c][n])
  BY SenderCells
<1>1. calls[n] = 0 /\ log[c][n] = <<>>
  BY DEF RunnerInit, Init
<1>2. Len(Program[n]) \in Nat /\ Len(<<>>) = 0
  BY ProgramType
<1>3. \A t : CountOf(t, <<>>) = 0
  <2>. TAKE t
  <2>1. {p \in 1..Len(<<>>) : <<>>[p].type = t} = {}
    BY <1>2
  <2>. QED BY <2>1, FS_EmptySet DEF CountOf
<1>4. \A f : CallsOf(Program[n], 0, f, c) = 0
  <2>. TAKE f
  <2>1. {x \in 1..0 : Program[n][x].call = f /\ Program[n][x].chan = c} = {}
    OBVIOUS
  <2>. QED BY <2>1, FS_EmptySet DEF CallsOf
<1>. QED BY <1>1, <1>2, <1>3, <1>4 DEF SenderCell

\* Every step.
LEMMA SenderGoesOn ==
  ASSUME RunnerInv, SenderInv, [RunnerNext]_runnerVars
  PROVE  SenderInv'
<1>1. TypeOK /\ RunnerTypeOK
  BY DEF RunnerInv, SingleWorkerInv, IInv
<1>2. CASE \E n \in Node : SenderCalls(n)
  BY <1>1, <1>2, CallKeeps
<1>3. CASE calls' = calls /\ \E n \in Node, c \in Chan : Push(n, c, "ack", n)
  BY <1>1, <1>3, AckKeeps
<1>4. CASE calls' = calls /\ log' = log
  BY <1>4, SenderCells, SenderCellsAfter
<1>. QED BY <1>1, <1>2, <1>3, <1>4, OnlyTheSenderLogs

\* Further on in a log there are as many or more.
LEMMA CountGrows ==
  ASSUME NEW t, NEW s, NEW h \in Nat, NEW k \in Nat, h <= k
  PROVE  CountUpto(t, s, h) <= CountUpto(t, s, k) /\ CountUpto(t, s, h) \in Nat /\ CountUpto(t, s, k) \in Nat
<1>. DEFINE A == {p \in 1..h : s[p].type = t}
            B == {p \in 1..k : s[p].type = t}
<1>1. A \subseteq B /\ B \subseteq 1..k
  OBVIOUS
<1>2. IsFiniteSet(B)
  <2>1. IsFiniteSet(1..k)
    BY FS_Interval
  <2>. HIDE DEF B
  <2>. QED BY <1>1, <2>1, FS_Subset
<1>3. IsFiniteSet(A) /\ Cardinality(A) <= Cardinality(B)
  BY <1>1, <1>2, FS_Subset
<1>. HIDE DEF A, B
<1>4. Cardinality(A) \in Nat /\ Cardinality(B) \in Nat
  BY <1>2, <1>3, FS_CardinalityType
<1>. QED BY <1>3, <1>4 DEF A, B, CountUpto

\* A packet after position q of a log has more before it than q has.
LEMMA LaterPackets ==
  ASSUME NEW t, NEW s, NEW q \in Nat, NEW p \in Nat, q < p, s[p].type = t
  PROVE  CountUpto(t, s, p) >= CountUpto(t, s, q) + 1
<1>1. p - 1 \in Nat /\ (p - 1) + 1 = p /\ q <= p - 1
  OBVIOUS
<1>2. CountUpto(t, s, p) = CountUpto(t, s, p - 1) + 1
  BY <1>1, CountStep
<1>3. CountUpto(t, s, q) <= CountUpto(t, s, p - 1) /\ CountUpto(t, s, q) \in Nat /\ CountUpto(t, s, p - 1) \in Nat
  BY <1>1, CountGrows
<1>. QED BY <1>2, <1>3

\* The synchronization that a worker has left behind is in every log, and what is
\* before it there has been handled.
LEMMA RoundIsLogged ==
  ASSUME SingleWorkerInv, NEW n \in Node, NEW m \in Node, NEW c \in Chan
  PROVE  /\ Returns[c][n] \in Nat
         /\ Returns[c][n] # 0 => \E q \in 1..Len(log[c][m]) :
              log[c][m][q].type = "sync" /\ log[c][m][q].round = Returns[c][n]
         /\ \A j \in Node : \A q \in 1..Len(log[c][m]) :
              log[c][m][q].type = "sync" /\ log[c][m][q].round = Returns[c][n] => q <= handled[c][j][m]
<1>1. Channel(c)!IInv /\ TypeOK
  BY DEF SingleWorkerInv, IInv
<1>2. Returns[c][n] \in Nat
  BY <1>1 DEF Channel!IInv, Channel!TypeOK, Channel!RoundsType
<1>3. Channel(c)!SyncGuarantee
  BY ChannelsSynchronize DEF SynchronizeGuarantee
<1>4. Returns[c][n] <= PushedOf("sync")[c][m]
  BY <1>3 DEF Channel!SyncGuarantee
<1>5. PushedOf("sync")[c][m] \in Nat
  BY <1>1 DEF Channel!IInv, Channel!TypeOK, Channel!RoundsType
<1>6. \A r \in 1..PushedOf("sync")[c][m] : \E q \in 1..Len(log[c][m]) :
        log[c][m][q].type = "sync" /\ log[c][m][q].round = r
  BY <1>1 DEF Channel!IInv, Channel!LogInv, Channel!Numbered
<1>7. ASSUME NEW j \in Node, NEW q \in 1..Len(log[c][m]),
             log[c][m][q].type = "sync", log[c][m][q].round = Returns[c][n]
      PROVE  q <= handled[c][j][m]
  <2>1. log[c][m][q].round <= Returns[c][n]
    BY <1>2, <1>7
  <2>. QED BY <1>3, <1>7, <2>1 DEF Channel!SyncGuarantee
<1>8. ASSUME Returns[c][n] # 0 PROVE Returns[c][n] \in 1..PushedOf("sync")[c][m]
  BY <1>2, <1>4, <1>5, <1>8
<1>. QED BY <1>2, <1>6, <1>7, <1>8

\* communicator.h:73-79 of the whole benchmark: when a sender has left the
\* synchronization of an iteration behind, the packets of that iteration and of
\* those before have been handled, whoever sent them.
THEOREM RunnerDelivers == RunnerSpec => []IterationsDelivered
<1>1. ASSUME RunnerInv, SenderInv PROVE IterationsDelivered
  <2>. SUFFICES ASSUME NEW n \in Node, NEW m \in Node, NEW c \in Chan
                PROVE  LET due == SyncedIterations(Returns[c][n]) * PacketsPer(m, c)
                           sent == {p \in 1..Len(log[c][m]) : log[c][m][p].type = "data"}
                       IN /\ Cardinality(sent) >= due
                          /\ \A p \in sent :
                               Cardinality({q \in sent : q <= p}) <= due
                                 => handled[c][log[c][m][p].dest][m] >= p
    BY DEF IterationsDelivered
  <2>. DEFINE k == Returns[c][n]
              due == SyncedIterations(k) * PacketsPer(m, c)
              sent == {p \in 1..Len(log[c][m]) : log[c][m][p].type = "data"}
  <2>1. PICK s \in Seq(LogEntry) : s = log[c][m] /\ Len(s) \in Nat
    <3>1. log \in [Chan -> [Node -> Seq(LogEntry)]]
      BY <1>1 DEF RunnerInv, SingleWorkerInv, IInv, TypeOK
    <3>. QED BY <3>1
  <2>2. k \in Nat
    BY <1>1, RoundIsLogged DEF RunnerInv
  <2>. HIDE DEF k
  <2>3. /\ Cardinality(sent) = CountUpto("data", s, Len(s))
        /\ \A p \in 1..Len(s) : Cardinality({q \in sent : q <= p}) = CountUpto("data", s, p)
    <3>1. ASSUME NEW p \in 1..Len(s) PROVE {q \in sent : q <= p} = {q \in 1..p : s[q].type = "data"}
      BY <2>1
    <3>. QED BY <2>1, <3>1 DEF CountUpto
  <2>4. CASE k = 0
    <3>1. due = 0
      BY <2>4, RouteFacts DEF SyncedIterations
    <3>2. CountUpto("data", s, Len(s)) \in Nat
      BY <2>1, CountGrows
    <3>3. ASSUME NEW p \in sent PROVE ~(Cardinality({q \in sent : q <= p}) <= due)
      <4>1. p \in 1..Len(s) /\ p \in Nat /\ 0 < p /\ s[p].type = "data"
        BY <2>1
      <4>2. CountUpto("data", s, p) >= CountUpto("data", s, 0) + 1
        BY <4>1, LaterPackets
      <4>3. CountUpto("data", s, 0) \in Nat /\ CountUpto("data", s, p) \in Nat
        BY <4>1, CountGrows
      <4>. HIDE DEF sent, due
      <4>. QED BY <2>3, <3>1, <4>1, <4>2, <4>3
    <3>4. Cardinality(sent) >= due
      <4>. HIDE DEF sent, due
      <4>. QED BY <2>3, <3>1, <3>2
    <3>. QED BY <3>3, <3>4 DEF k
  <2>5. CASE k # 0
    <3>1. PICK x \in 1..Len(s) : s[x].type = "sync" /\ s[x].round = k
      BY <1>1, <2>1, <2>5, RoundIsLogged DEF RunnerInv, k
    <3>2. \A j \in Node : x <= handled[c][j][m]
      BY <1>1, <2>1, <3>1, RoundIsLogged DEF RunnerInv, k
    <3>3. CountUpto("data", s, x) >= due
      <4>1. DataUpto(s, x) >= SyncedIterations(s[x].round) * PacketsPer(m, c)
        BY <1>1, <2>1, <3>1 DEF SenderInv
      <4>. QED BY <3>1, <4>1 DEF DataUpto, CountUpto
    <3>4. x \in Nat /\ x <= Len(s) /\ due \in Int
      <4>1. PacketsPer(m, c) \in Nat /\ SyncedIterations(k) \in Nat
        <5>1. (k - 1) * SyncEvery \in Nat
          BY <2>2, <2>5, RunnerAssumption
        <5>. QED BY <2>5, <5>1, RouteFacts DEF SyncedIterations
      <4>. QED BY <2>1, <4>1
    <3>. HIDE DEF due
    <3>5. Cardinality(sent) >= due
      <4>1. /\ CountUpto("data", s, x) <= CountUpto("data", s, Len(s))
            /\ CountUpto("data", s, x) \in Nat /\ CountUpto("data", s, Len(s)) \in Nat
        BY <2>1, <3>4, CountGrows
      <4>. HIDE DEF sent
      <4>. QED BY <2>3, <3>3, <3>4, <4>1
    <3>6. ASSUME NEW p \in sent, Cardinality({q \in sent : q <= p}) <= due
          PROVE  handled[c][log[c][m][p].dest][m] >= p
      <4>1. p \in 1..Len(s) /\ p \in Nat /\ s[p].type = "data" /\ s[p] \in LogEntry
        BY <2>1
      <4>2. CountUpto("data", s, p) <= due
        <5>. HIDE DEF sent
        <5>. QED BY <2>3, <3>6, <4>1
      <4>3. ~(x < p)
        <5>. SUFFICES ASSUME x < p PROVE FALSE
          OBVIOUS
        <5>1. CountUpto("data", s, p) >= CountUpto("data", s, x) + 1
          BY <3>4, <4>1, LaterPackets
        <5>2. CountUpto("data", s, x) \in Nat /\ CountUpto("data", s, p) \in Nat
          BY <3>4, <4>1, CountGrows
        <5>. QED BY <3>3, <3>4, <4>2, <5>1, <5>2
      <4>4. p <= x
        BY <3>4, <4>1, <4>3
      <4>5. log[c][m][p].dest \in Node
        BY <2>1, <4>1 DEF LogEntry
      <4>6. handled[c][log[c][m][p].dest][m] \in Nat
        <5>1. handled \in [Chan -> [Node -> [Node -> Nat]]]
          BY <1>1 DEF RunnerInv, SingleWorkerInv, IInv, TypeOK
        <5>. QED BY <4>5, <5>1
      <4>7. x <= handled[c][log[c][m][p].dest][m]
        BY <3>2, <4>5
      <4>. QED BY <3>4, <4>1, <4>4, <4>6, <4>7
    <3>. QED BY <3>5, <3>6 DEF k, due
  <2>. QED BY <2>4, <2>5
<1>2. RunnerInv /\ SenderInv /\ [RunnerNext]_runnerVars => SenderInv'
  BY SenderGoesOn
<1>. QED BY <1>1, <1>2, SenderStarts, RunnerInvariance, PTL DEF RunnerSpec
=============================================================================
