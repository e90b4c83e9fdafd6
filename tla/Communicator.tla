---------------------------- MODULE Communicator ----------------------------
(***************************************************************************)
(* SRCommunicator over one of its backends: communication/communicator.*,  *)
(* backend_mpi.*, backend_ucx.* and util/squeue.*.                         *)
(*                                                                         *)
(* On every node run                                                       *)
(*   - worker threads: send(), synchronize(), mark_eof();                  *)
(*   - one receive handler per channel: receive() / try_receive();         *)
(*   - the main loop run(), the only user of the backend.                  *)
(* They meet in the send queue and the receive queue of each channel.  A   *)
(* message goes                                                            *)
(*   send queue - buffer per destination - network - main loop of the      *)
(*   destination - receive queue - receive handler.                        *)
(*                                                                         *)
(* The variables of the last group are history: they record what was       *)
(* pushed and how far it got, and no guard reads them except the bounds.   *)
(***************************************************************************)
EXTENDS Integers, Sequences, FiniteSets, SequencesExt

CONSTANTS Node,       \* the ranks
          NChan,      \* CHANS_AMOUNT
          Thread,     \* the worker threads of a node ...
          WorkerOf,   \* ... and the one that uses each channel
          FlushSize,  \* m_flush_size of the backend
          Batched,    \* MPI: a buffer is sent as one message; UCX: one by one
          MaxLog,     \* bound: data is sent only while the channel's log is this short
          MaxSync     \* bound on the calls of synchronize() per node and channel

Chan == 1..NChan

ASSUME CommAssumption ==
  /\ IsFiniteSet(Node) /\ Node # {}
  /\ NChan \in Nat \ {0} /\ FlushSize \in Nat
  /\ WorkerOf \in [Chan -> Thread]
  /\ Batched \in BOOLEAN
  /\ MaxLog \in Nat /\ MaxSync \in Nat

VARIABLES
  \* Shared by the threads of a node.
  sendq, sendEof,   \* m_send_queues[c] and its EOF mark
  recvq, recvEof,   \* m_recv_queues[c] and its EOF mark
  synchronized,     \* m_synchronized: one flag for all the channels
  \* The worker threads: [at, chan].
  worker,
  \* The receive handlers: the message each has popped, as a sequence.
  hand, syncCounter, ackCounter,
  \* The main loop.
  main, chan,       \* where it is, and the channel it is looking at
  inbox,            \* what is left of the batch it received
  eofCounter, sendDone,
  \* The backend and the network.
  buf,              \* m_send_buffers[d]
  pending,          \* whether m_send_reqs is not empty
  net,              \* net[i][j]: batches sent by i to j and not received
  \* History.
  log, arrived, handled, failed

queues   == <<sendq, sendEof, recvq, recvEof>>
counts   == <<syncCounter, ackCounter>>
loop     == <<main, chan, inbox, eofCounter, sendDone>>
backend  == <<buf, pending, net>>
cursors  == <<arrived, handled>>
vars == <<queues, synchronized, worker, hand, counts, loop, backend, log, cursors, failed>>

size == Cardinality(Node)

\* A message: the channel, its type, who sent it to whom (dest is meaningful
\* for data only), and its position in the sender's log, which stands for the
\* payload.
MsgType == {"data", "eof", "sync", "ack"}
Message == [chan : Chan, type : MsgType, from : Node, dest : Node, num : Nat]

Idle == [at |-> "idle", chan |-> 0]

BackendInit ==
  /\ buf = [i \in Node |-> [j \in Node |-> <<>>]]
  /\ pending = [n \in Node |-> FALSE]
  /\ net = [i \in Node |-> [j \in Node |-> <<>>]]

Init ==
  /\ sendq = [n \in Node |-> [c \in Chan |-> <<>>]]
  /\ sendEof = [n \in Node |-> [c \in Chan |-> FALSE]]
  /\ recvq = [n \in Node |-> [c \in Chan |-> <<>>]]
  /\ recvEof = [n \in Node |-> [c \in Chan |-> FALSE]]
  /\ synchronized = [n \in Node |-> FALSE]
  /\ worker = [n \in Node |-> [w \in Thread |-> Idle]]
  /\ hand = [n \in Node |-> [c \in Chan |-> <<>>]]
  /\ syncCounter = [n \in Node |-> [c \in Chan |-> 0]]
  /\ ackCounter = [n \in Node |-> [c \in Chan |-> 0]]
  /\ main = [n \in Node |-> "top"]
  /\ chan = [n \in Node |-> 1]
  /\ inbox = [n \in Node |-> <<>>]
  /\ eofCounter = [n \in Node |-> [c \in Chan |-> 0]]
  /\ sendDone = [n \in Node |-> FALSE]
  /\ BackendInit
  /\ log = [c \in Chan |-> [n \in Node |-> <<>>]]
  /\ arrived = [c \in Chan |-> [j \in Node |-> [i \in Node |-> 0]]]
  /\ handled = [c \in Chan |-> [j \in Node |-> [i \in Node |-> 0]]]
  /\ failed = [n \in Node |-> [c \in Chan |-> FALSE]]

-----------------------------------------------------------------------------
(* Pushing to the send queue of a channel.                                 *)

\* The entries of type t in a log; the next one is round number + 1.
CountOf(t, s) == Cardinality({p \in 1..Len(s) : s[p].type = t})

Push(n, c, t, d) ==
  LET r == IF t \in {"sync", "ack"} THEN CountOf(t, log[c][n]) + 1 ELSE 0
      m == [chan |-> c, type |-> t, from |-> n, dest |-> d, num |-> Len(log[c][n]) + 1]
  IN /\ sendq' = [sendq EXCEPT ![n][c] = Append(@, m)]
     /\ log' = [log EXCEPT ![c][n] = Append(@, [type |-> t, dest |-> d, round |-> r])]

-----------------------------------------------------------------------------
(* The worker threads.                                                     *)

\* Wrong variant: synchronize() is not a wait.
MayUseUnreturned(n, c) == ~sendEof[n][c]
MayUse(n, c) == worker[n][WorkerOf[c]] = Idle /\ ~sendEof[n][c]

Send(n, c, d) ==
  /\ MayUse(n, c)
  /\ Len(log[c][n]) < MaxLog
  /\ Push(n, c, "data", d)
  /\ UNCHANGED <<sendEof, recvq, recvEof, synchronized, worker, hand, counts, loop,
                 backend, cursors, failed>>

Synchronize(n, c) ==
  /\ MayUse(n, c)
  /\ CountOf("sync", log[c][n]) < MaxSync
  /\ Push(n, c, "sync", n)
  /\ worker' = [worker EXCEPT ![n][WorkerOf[c]] = [at |-> "wait", chan |-> c]]
  /\ UNCHANGED <<sendEof, recvq, recvEof, synchronized, hand, counts, loop,
                 backend, cursors, failed>>

\* The wait on m_sync_cond ends when the flag is found set.
\* Wrong variant: it is not looked at.
AnyWakeup(n) == TRUE
Awakened(n) == synchronized[n]

SynchronizeReturns(n, w) ==
  /\ worker[n][w].at = "wait"
  /\ Awakened(n)
  /\ synchronized' = [synchronized EXCEPT ![n] = FALSE]
  /\ worker' = [worker EXCEPT ![n][w] = Idle]
  /\ UNCHANGED <<queues, hand, counts, loop, backend, log, cursors, failed>>

\* mark_eof(): the EOF message is pushed, then the queue is marked.
PushEof(n, c) ==
  /\ MayUse(n, c)
  /\ Push(n, c, "eof", n)
  /\ worker' = [worker EXCEPT ![n][WorkerOf[c]] = [at |-> "mark", chan |-> c]]
  /\ UNCHANGED <<sendEof, recvq, recvEof, synchronized, hand, counts, loop,
                 backend, cursors, failed>>

MarkEof(n, w) ==
  /\ worker[n][w].at = "mark"
  /\ sendEof' = [sendEof EXCEPT ![n][worker[n][w].chan] = TRUE]
  /\ worker' = [worker EXCEPT ![n][w] = Idle]
  /\ UNCHANGED <<sendq, recvq, recvEof, synchronized, hand, counts, loop,
                 backend, log, cursors, failed>>

-----------------------------------------------------------------------------
(* The receive handler of channel c: it pops a message, handles it, and    *)
(* only then pops the next.                                                *)

PopReceived(n, c) ==
  /\ hand[n][c] = <<>>
  /\ recvq[n][c] # <<>>
  /\ hand' = [hand EXCEPT ![n][c] = <<Head(recvq[n][c])>>]
  /\ recvq' = [recvq EXCEPT ![n][c] = Tail(@)]
  /\ UNCHANGED <<sendq, sendEof, recvEof, synchronized, worker, counts, loop,
                 backend, log, cursors, failed>>

\* The handler is done with the message of type t in its hand.
Finish(n, c, t) ==
  /\ hand[n][c] # <<>>
  /\ hand[n][c][1].type = t
  /\ hand' = [hand EXCEPT ![n][c] = <<>>]
  /\ handled' = [handled EXCEPT ![c][n][hand[n][c][1].from] = hand[n][c][1].num]

HandleData(n, c) ==
  /\ Finish(n, c, "data")
  /\ UNCHANGED <<queues, synchronized, worker, counts, loop, backend, log, arrived, failed>>

\* The push of the ack throws if the worker has marked the queue EOF.
SendAck(n, c) ==
  IF sendEof[n][c]
  THEN /\ failed' = [failed EXCEPT ![n][c] = TRUE]
       /\ UNCHANGED <<sendq, log>>
  ELSE /\ Push(n, c, "ack", n)
       /\ UNCHANGED failed

\* Wrong variant: own sync not awaited.
SyncFromAllButOne(k) == k + 1 = size
SyncFromAll(k) == k = size

HandleSync(n, c) ==
  /\ Finish(n, c, "sync")
  /\ syncCounter' = [syncCounter EXCEPT ![n][c] = @ + 1]
  /\ IF SyncFromAll(syncCounter[n][c] + 1)
     THEN SendAck(n, c)
     ELSE UNCHANGED <<sendq, log, failed>>
  /\ UNCHANGED <<sendEof, recvq, recvEof, synchronized, worker, ackCounter, loop,
                 backend, arrived>>

OffRound(k) == k - size

\* Under m_sync_mutex: wake the waiting workers, take the round off the counters.
CompleteRound(n, c) ==
  /\ synchronized' = [synchronized EXCEPT ![n] = TRUE]
  /\ IF syncCounter[n][c] >= size
     THEN /\ syncCounter' = [syncCounter EXCEPT ![n][c] = OffRound(@)]
          /\ ackCounter' = [ackCounter EXCEPT ![n][c] = OffRound(@ + 1)]
          /\ UNCHANGED failed
     ELSE /\ ackCounter' = [ackCounter EXCEPT ![n][c] = @ + 1]
          /\ failed' = [failed EXCEPT ![n][c] = TRUE]
          /\ UNCHANGED syncCounter

HandleAck(n, c) ==
  /\ Finish(n, c, "ack")
  /\ IF ackCounter[n][c] + 1 = size
     THEN CompleteRound(n, c)
     ELSE /\ ackCounter' = [ackCounter EXCEPT ![n][c] = @ + 1]
          /\ UNCHANGED <<syncCounter, synchronized, failed>>
  /\ UNCHANGED <<queues, worker, loop, backend, log, arrived>>

-----------------------------------------------------------------------------
(* The backend: called by the main loop only.                              *)

\* A full buffer as it goes to the network.
Batches(s) == IF Batched THEN <<s>> ELSE [k \in 1..Len(s) |-> <<s[k]>>]

\* flush_one_buffer() for the destinations in D, on buffers b; every flush may
\* leave its request pending or clear the ones before it.
Flush(n, D, b) ==
  LET full == {d \in D : b[d] # <<>>} IN
  /\ buf' = [buf EXCEPT ![n] = [d \in Node |-> IF d \in full THEN <<>> ELSE b[d]]]
  /\ net' = [net EXCEPT ![n] = [d \in Node |->
               IF d \in full THEN net[n][d] \o Batches(b[d]) ELSE net[n][d]]]
  /\ \/ full # {} /\ \E still \in BOOLEAN : pending' = [pending EXCEPT ![n] = still]
     \/ full = {} /\ UNCHANGED pending

\* flush_send_buffers()
FlushAll(n) == Flush(n, Node, buf[n])

\* clear_send_requests(): those that have completed; whether any is left.
Cleared(n) == {FALSE, pending[n]}

\* done_sending()
DoneSending(n, done) ==
  \E still \in Cleared(n) : pending' = [pending EXCEPT ![n] = still] /\ done = ~still

\* broadcast(): behind what each buffer holds.
\* Wrong variant: before it.
InFront(n, m) == [d \in Node |-> <<m>> \o buf[n][d]]
Broadcast(n, m) == [d \in Node |-> Append(buf[n][d], m)]

\* Data goes to the buffer of its destination, which is flushed when it
\* reaches FlushSize; the rest is broadcast and all the buffers are flushed.
BackendSend(n, m) ==
  IF m.type = "data"
  THEN LET b == [buf[n] EXCEPT ![m.dest] = Append(@, m)]
       IN Flush(n, IF Len(b[m.dest]) >= FlushSize THEN {m.dest} ELSE {}, b)
  ELSE Flush(n, Node, Broadcast(n, m))

-----------------------------------------------------------------------------
(* The main loop.                                                          *)

Goto(n, at, c) ==
  /\ main' = [main EXCEPT ![n] = at]
  /\ chan' = [chan EXCEPT ![n] = c]

IsClosed(n, c) == recvEof[n][c] /\ recvq[n][c] = <<>>

AllDone(n) == \A c \in Chan : IsClosed(n, c)

\* all_done().  A closed channel stays closed, as only this thread pushes to
\* the receive queues and marks them: the scan is one step.
Top(n) ==
  /\ main[n] = "top"
  /\ IF AllDone(n)
     THEN Goto(n, "exited", 1)
     ELSE Goto(n, IF sendDone[n] THEN "receive" ELSE "eof?", 1)
  /\ UNCHANGED <<queues, synchronized, worker, hand, counts, inbox, eofCounter, sendDone,
                 backend, log, cursors, failed>>

\* The loops over the send queues.
\* Wrong variant: any_of.
LastOfAny(c) == TRUE
\* Wrong variant: i <= CHANS_AMOUNT.
LastTooFar(c) == c > NChan
LastQueue(c) == c = NChan

\* send_done() reads q.eof() and then q.empty() of each send queue, without
\* its mutex: two steps, as a worker may push or mark the queue in between.
ReadEof(n) ==
  /\ main[n] = "eof?"
  /\ IF sendEof[n][chan[n]] THEN Goto(n, "empty?", chan[n]) ELSE Goto(n, "poll", 1)
  /\ UNCHANGED <<queues, synchronized, worker, hand, counts, inbox, eofCounter, sendDone,
                 backend, log, cursors, failed>>

\* After the last queue the backend is asked.
ReadEmpty(n) ==
  /\ main[n] = "empty?"
  /\ \/ /\ sendq[n][chan[n]] # <<>>
        /\ Goto(n, "poll", 1)
        /\ UNCHANGED <<pending, sendDone>>
     \/ /\ sendq[n][chan[n]] = <<>>
        /\ ~LastQueue(chan[n])
        /\ Goto(n, "eof?", chan[n] + 1)
        /\ UNCHANGED <<pending, sendDone>>
     \/ /\ sendq[n][chan[n]] = <<>>
        /\ LastQueue(chan[n])
        /\ \E done \in BOOLEAN :
             /\ DoneSending(n, done)
             /\ sendDone' = [sendDone EXCEPT ![n] = done]
             /\ Goto(n, IF done THEN "receive" ELSE "poll", 1)
  /\ UNCHANGED <<queues, synchronized, worker, hand, counts, inbox, eofCounter,
                 buf, net, log, cursors, failed>>

\* poll_and_handle_send_queues(): the queues in order, each until it is empty.
Poll(n) ==
  /\ main[n] = "poll"
  /\ sendq[n][chan[n]] # <<>>
  /\ BackendSend(n, Head(sendq[n][chan[n]]))
  /\ sendq' = [sendq EXCEPT ![n][chan[n]] = Tail(@)]
  /\ UNCHANGED <<sendEof, recvq, recvEof, synchronized, worker, hand, counts, loop,
                 log, cursors, failed>>

PollNext(n) ==
  /\ main[n] = "poll"
  /\ sendq[n][chan[n]] = <<>>
  /\ IF LastQueue(chan[n]) THEN Goto(n, "receive", 1) ELSE Goto(n, "poll", chan[n] + 1)
  /\ UNCHANGED <<queues, synchronized, worker, hand, counts, inbox, eofCounter, sendDone,
                 backend, log, cursors, failed>>

\* The end of an iteration: flush if the flush timer has expired.
\* Wrong variant: no timer.
NeverFlush(n) == UNCHANGED backend
MaybeFlush(n) == FlushAll(n) \/ UNCHANGED backend

\* new_recv_request(): only a message that has arrived can be received. The receive
\* that UCX keeps posted is no state of its own.
Receivable(n, i) == net[i][n] # <<>>

\* try_receive() of the backend returns nothing: no request, or one that is not
\* complete, whatever is in the network ...
ReceiveNothing(n) ==
  /\ main[n] = "receive"
  /\ Goto(n, "top", 1)
  /\ MaybeFlush(n)
  /\ UNCHANGED <<queues, synchronized, worker, hand, counts, inbox, eofCounter, sendDone,
                 log, cursors, failed>>

\* ... or the next batch of any of the nodes.
Receive(n, i) ==
  /\ main[n] = "receive"
  /\ Receivable(n, i)
  /\ inbox' = [inbox EXCEPT ![n] = Head(net[i][n])]
  /\ net' = [net EXCEPT ![i][n] = Tail(@)]
  /\ Goto(n, "dispatch", 1)
  /\ UNCHANGED <<queues, synchronized, worker, hand, counts, eofCounter, sendDone,
                 buf, pending, log, cursors, failed>>

\* Wrong variant: own EOF not awaited.
EofFromAllButOne(k) == k + 1 = size
EofFromAll(k) == k = size

\* An EOF is counted by the main loop itself; anything else is pushed to the
\* receive queue, which throws if the queue is marked.
Enqueue(n, m) ==
  IF m.type = "eof"
  THEN /\ eofCounter' = [eofCounter EXCEPT ![n][m.chan] = @ + 1]
       /\ recvEof' = [recvEof EXCEPT ![n][m.chan] = @ \/ EofFromAll(eofCounter[n][m.chan] + 1)]
       /\ UNCHANGED <<recvq, failed>>
  ELSE /\ IF recvEof[n][m.chan]
          THEN failed' = [failed EXCEPT ![n][m.chan] = TRUE] /\ UNCHANGED recvq
          ELSE recvq' = [recvq EXCEPT ![n][m.chan] = Append(@, m)] /\ UNCHANGED failed
       /\ UNCHANGED <<recvEof, eofCounter>>

RestOf(batch) == Tail(batch)

Dispatch(n) ==
  /\ main[n] = "dispatch"
  /\ LET m == Head(inbox[n]) IN
       /\ Enqueue(n, m)
       /\ arrived' = [arrived EXCEPT ![m.chan][n][m.from] = m.num]
  /\ inbox' = [inbox EXCEPT ![n] = RestOf(@)]
  /\ IF RestOf(inbox[n]) = <<>>
     THEN Goto(n, "top", 1) /\ MaybeFlush(n)
     ELSE UNCHANGED <<main, chan, backend>>
  /\ UNCHANGED <<sendq, sendEof, synchronized, worker, hand, counts, sendDone, log, handled>>

-----------------------------------------------------------------------------
WorkerStep(n) ==
  \/ \E c \in Chan, d \in Node : Send(n, c, d)
  \/ \E c \in Chan : Synchronize(n, c) \/ PushEof(n, c)
  \/ \E w \in Thread : SynchronizeReturns(n, w) \/ MarkEof(n, w)

Handle(n, c) == HandleData(n, c) \/ HandleSync(n, c) \/ HandleAck(n, c)

MainStep(n) ==
  \/ Top(n) \/ ReadEof(n) \/ ReadEmpty(n) \/ Poll(n) \/ PollNext(n)
  \/ ReceiveNothing(n) \/ Dispatch(n)
  \/ \E i \in Node : Receive(n, i)

Next == \E n \in Node :
  \/ WorkerStep(n)
  \/ MainStep(n)
  \/ \E c \in Chan : PopReceived(n, c) \/ Handle(n, c)

Spec == Init /\ [][Next]_vars

\* The backend is polled forever, and what it was given completes: a message in
\* the network is received, the pending requests are found complete, the flush
\* timer expires.  None of it need happen in a given poll, and a poll that finds
\* nothing comes in between: strong fairness.
BackendProgress(n) ==
  /\ SF_vars(\E i \in Node : Receive(n, i))
  /\ SF_vars(ReadEmpty(n) /\ ~pending'[n])
  /\ SF_vars((ReceiveNothing(n) \/ Dispatch(n)) /\ buf'[n] = [d \in Node |-> <<>>])

\* The threads are scheduled; no worker is obliged to call anything.
Scheduling(n) ==
  /\ WF_vars(MainStep(n))
  /\ \A w \in Thread : WF_vars(SynchronizeReturns(n, w) \/ MarkEof(n, w))
  /\ \A c \in Chan : WF_vars(PopReceived(n, c) \/ Handle(n, c))

FairSpec == Spec /\ \A n \in Node : Scheduling(n) /\ BackendProgress(n)

-----------------------------------------------------------------------------
(* The channel as SyncChannel has it.                                      *)

Waits(n, c) == worker[n][WorkerOf[c]] = [at |-> "wait", chan |-> c]

WorkerAt(n, c) ==
  CASE sendEof[n][c] -> "closed"
    [] Waits(n, c) -> "wait"
    [] worker[n][WorkerOf[c]] = [at |-> "mark", chan |-> c] -> "marking"
    [] OTHER -> "run"

\* The flag is read by the worker that waits on the channel.
Woken(n, c) == Waits(n, c) /\ synchronized[n]

\* What SyncChannel has for each channel, from the variables above.
Pcs   == [c \in Chan |-> [n \in Node |-> WorkerAt(n, c)]]
Flags == [c \in Chan |-> [n \in Node |-> Woken(n, c)]]
OfChannel(f) == [c \in Chan |-> [n \in Node |-> f[n][c]]]
PushedOf(t)  == [c \in Chan |-> [n \in Node |-> CountOf(t, log[c][n])]]
HandledOf(t) == [c \in Chan |-> [j \in Node |-> [i \in Node |->
                   CountOf(t, SubSeq(log[c][i], 1, handled[c][j][i]))]]]
Returns == [c \in Chan |-> [n \in Node |->
              CountOf("sync", log[c][n]) - (IF Waits(n, c) THEN 1 ELSE 0)]]
Completions == [c \in Chan |-> [n \in Node |->
                  Returns[c][n] + (IF Woken(n, c) THEN 1 ELSE 0)]]

Channel(c) == INSTANCE SyncChannel WITH
  log <- log[c], arrived <- arrived[c], handled <- handled[c],
  pc <- Pcs[c], synchronized <- Flags[c],
  syncCounter <- OfChannel(syncCounter)[c], ackCounter <- OfChannel(ackCounter)[c],
  eofCounter <- OfChannel(eofCounter)[c], recvEof <- OfChannel(recvEof)[c],
  failed <- OfChannel(failed)[c],
  called <- PushedOf("sync")[c], returned <- Returns[c],
  acked <- PushedOf("ack")[c], completed <- Completions[c],
  syncsFrom <- HandledOf("sync")[c], acksFrom <- HandledOf("ack")[c]

-----------------------------------------------------------------------------
(* Properties.                                                             *)

MessageQueue == Seq(Message)
LogEntry == [type : MsgType, dest : Node, round : Nat]

\* The type of every variable.
TypeOK ==
  /\ sendq \in [Node -> [Chan -> MessageQueue]] /\ sendEof \in [Node -> [Chan -> BOOLEAN]]
  /\ recvq \in [Node -> [Chan -> MessageQueue]] /\ recvEof \in [Node -> [Chan -> BOOLEAN]]
  /\ synchronized \in [Node -> BOOLEAN]
  /\ worker \in [Node -> [Thread ->
       [at : {"wait", "mark"}, chan : Chan] \cup {Idle}]]
  /\ hand \in [Node -> [Chan -> MessageQueue]]
  /\ syncCounter \in [Node -> [Chan -> Nat]] /\ ackCounter \in [Node -> [Chan -> Nat]]
  /\ main \in [Node -> {"top", "eof?", "empty?", "poll", "receive", "dispatch", "exited"}]
  /\ chan \in [Node -> Chan]
  /\ inbox \in [Node -> MessageQueue]
  /\ eofCounter \in [Node -> [Chan -> Nat]]
  /\ sendDone \in [Node -> BOOLEAN]
  /\ buf \in [Node -> [Node -> MessageQueue]]
  /\ pending \in [Node -> BOOLEAN]
  /\ net \in [Node -> [Node -> Seq(MessageQueue)]]
  /\ log \in [Chan -> [Node -> Seq(LogEntry)]]
  /\ arrived \in [Chan -> [Node -> [Node -> Nat]]]
  /\ handled \in [Chan -> [Node -> [Node -> Nat]]]
  /\ failed \in [Node -> [Chan -> BOOLEAN]]

\* Each channel behaves as SyncChannel says, whatever the other channels, the
\* main loops, the buffers and the network do: \A c \in Chan : Channel(c)!Spec,
\* in the form that TLC can check.
ChannelsRefine ==
  /\ \A c \in Chan : Channel(c)!Init
  /\ [][\A c \in Chan : [Channel(c)!Next]_(Channel(c)!vars)]_vars

\* communicator.h:73-79, for every channel.
SynchronizeGuarantee == \A c \in Chan : Channel(c)!SyncGuarantee

\* A message, or an entry of a log, is for j: data has one destination.
Reaches(e, j) == e.type = "data" => e.dest = j

\* In the order of the pushes, where one node pushed both on one channel.
Ordered(m, l) == m.chan = l.chan /\ m.from = l.from => m.num < l.num
InOrder(s) == \A k, l \in DOMAIN s : k < l => Ordered(s[k], s[l])
AllBefore(s, t) == \A k \in DOMAIN s, l \in DOMAIN t : Ordered(s[k], t[l])
InLine(stages) ==
  /\ \A b \in DOMAIN stages : InOrder(stages[b])
  /\ \A b, d \in DOMAIN stages : b < d => AllBefore(stages[b], stages[d])

\* Where a message of channel c from i to j can be, from the handler backwards
\* (the main loop of j takes the EOF out), and those that are there.
Stages(c, i, j) == <<hand[j][c], recvq[j][c], inbox[j]>> \o net[i][j] \o <<buf[i][j], sendq[i][c]>>
OnTheWay(c, i, j) ==
  LET stages == Stages(c, i, j) IN
  {m \in UNION {ToSet(stages[b]) : b \in DOMAIN stages} :
     m.chan = c /\ m.from = i /\ Reaches(m, j)}

\* What i pushed for j and j has not handled, or counted.
Awaited(c, i, j) ==
  LET s == log[c][i] IN
  {p \in 1..Len(s) : /\ p > handled[c][j][i] /\ Reaches(s[p], j)
                     /\ s[p].type = "eof" => p > arrived[c][j][i]}

\* communicator.h:24, "no data is lost": what is awaited is on the way, once and
\* in the order of the pushes, and nothing else is.
NothingLost ==
  \A c \in Chan, i, j \in Node :
    /\ {m.num : m \in OnTheWay(c, i, j)} = Awaited(c, i, j)
    /\ InLine(Stages(c, i, j))

\* m_send_done is latched only when nothing is left to send and nothing more
\* can be pushed, although send_done() reads the queues without their mutex.
SendDoneSound ==
  \A n \in Node : sendDone[n] =>
    \A c \in Chan : sendEof[n][c] /\ sendq[n][c] = <<>>

\* run() looks at the receive queues only: when it exits, nothing of the node
\* is left to send and none of its threads waits for a message.
ExitsClean ==
  \A n \in Node : main[n] = "exited" =>
    /\ \A c \in Chan : /\ sendq[n][c] = <<>> /\ ~Waits(n, c)
                       /\ \A k \in 1..Len(hand[n][c]) : hand[n][c][k].type = "data"
    /\ \A d \in Node : buf[n][d] = <<>> /\ net[d][n] = <<>>

\* What was sent is handled, also when nothing is sent after it that would fill
\* the buffer.
DataHandled ==
  \A c \in Chan, i, j \in Node : \A p \in 1..MaxLog :
    (p <= Len(log[c][i]) /\ log[c][i][p].type = "data" /\ log[c][i][p].dest = j)
      ~> handled[c][j][i] >= p

-----------------------------------------------------------------------------
(* The inductive invariant of the proofs, for any number of channels and   *)
(* of workers.                                                             *)

\* Nothing is left to send on the channel, and nothing can be pushed any more.
Finished(n, c) == sendEof[n][c] /\ sendq[n][c] = <<>>

\* The channels that a scan of the send queues has passed are finished, and a
\* batch is dispatched to its end before the next is received.
LoopInv ==
  \A n \in Node :
    /\ main[n] \in {"eof?", "empty?"} => \A c \in Chan : c < chan[n] => Finished(n, c)
    /\ main[n] = "empty?" => sendEof[n][chan[n]]
    /\ sendDone[n] => \A c \in Chan : Finished(n, c)
    /\ main[n] = "dispatch" <=> inbox[n] # <<>>
    /\ \A i \in Node : \A b \in DOMAIN net[i][n] : net[i][n][b] # <<>>

\* How much of the log the main loop of n has taken from the send queue, which
\* holds the rest.
Polled(c, n) == Len(log[c][n]) - Len(sendq[n][c])

Logged(m) ==
  LET s == log[m.chan][m.from] IN
  m.num \in 1..Len(s) /\ s[m.num].type = m.type /\ s[m.num].dest = m.dest

SendInv ==
  \A n \in Node, c \in Chan :
    /\ Len(sendq[n][c]) <= Len(log[c][n])
    /\ \A k \in DOMAIN sendq[n][c] :
         LET m == sendq[n][c][k] IN
         m.chan = c /\ m.from = n /\ m.num = Polled(c, n) + k /\ Logged(m)

\* What i has sent to j, and the main loop of j has not dispatched: all that is
\* for j between what has arrived and what was polled.
InTransit(i, j) ==
  {m \in ToSet(inbox[j]) : m.from = i}
    \cup (UNION {ToSet(net[i][j][b]) : b \in DOMAIN net[i][j]}) \cup ToSet(buf[i][j])

TransitInv ==
  \A i, j \in Node :
    /\ \A m \in InTransit(i, j) :
         /\ m.from = i /\ Logged(m) /\ Reaches(m, j)
         /\ arrived[m.chan][j][i] < m.num /\ m.num <= Polled(m.chan, i)
    /\ \A c \in Chan : \A p \in (arrived[c][j][i] + 1)..Polled(c, i) :
         Reaches(log[c][i][p], j) => \E m \in InTransit(i, j) : m.chan = c /\ m.num = p

\* ... in three stages, of which that in the middle has stages of its own.
Lined(q, batches, b) ==
  /\ InOrder(q) /\ InLine(batches) /\ InOrder(b) /\ AllBefore(q, b)
  /\ \A x \in DOMAIN batches : AllBefore(q, batches[x]) /\ AllBefore(batches[x], b)

OrderInv == \A i, j \in Node : Lined(inbox[j], net[i][j], buf[i][j])

\* What has arrived at n and its handler is not done with: all of it, unless a
\* thread has thrown.
Received(n, c) == ToSet(hand[n][c]) \cup ToSet(recvq[n][c])

ReceivedInv ==
  \A n \in Node, c \in Chan :
    /\ \A m \in Received(n, c) :
         /\ m.chan = c /\ m.type # "eof" /\ Logged(m) /\ Reaches(m, n)
         /\ handled[c][n][m.from] < m.num /\ m.num <= arrived[c][n][m.from]
    /\ Len(hand[n][c]) <= 1 /\ InOrder(recvq[n][c]) /\ AllBefore(hand[n][c], recvq[n][c])
    /\ \A i \in Node :
         /\ handled[c][n][i] <= arrived[c][n][i] /\ arrived[c][n][i] <= Polled(c, i)
         /\ ~failed[n][c] => \A p \in (handled[c][n][i] + 1)..arrived[c][n][i] :
              Reaches(log[c][i][p], n) /\ log[c][i][p].type # "eof" =>
                \E m \in Received(n, c) : m.from = i /\ m.num = p

IInv == TypeOK /\ LoopInv /\ SendInv /\ TransitInv /\ OrderInv /\ ReceivedInv

-----------------------------------------------------------------------------
(* More of it where one worker uses all the channels: every channel is in  *)
(* a state that SyncChannel can be in.                                     *)

SingleWorker == \A c, e \in Chan : WorkerOf[c] = WorkerOf[e]

\* A worker that waits or marks does so on a channel of its own, not yet marked.
WorkerInv ==
  \A n \in Node, w \in Thread : worker[n][w] # Idle =>
    /\ WorkerOf[worker[n][w].chan] = w
    /\ ~sendEof[n][worker[n][w].chan]

\* The flag is set only while the worker waits for it.
FlagInv == \A n \in Node : synchronized[n] => \E c \in Chan : Waits(n, c)

\* The EOF of a channel flushes all the buffers, and that of the last channel
\* is the last that they get.
EofPolled(n, c) == sendq[n][c] = <<>> /\ Channel(c)!EndsInEof(log[c][n])
FlushedInv ==
  \A n \in Node : (\A c \in Chan : EofPolled(n, c)) => \A d \in Node : buf[n][d] = <<>>

\* Nothing comes back once the main loop has found all done.
ExitInv == \A n \in Node : main[n] = "exited" => AllDone(n)

SingleWorkerInv ==
  /\ IInv /\ WorkerInv /\ FlagInv /\ FlushedInv /\ ExitInv
  /\ \A c \in Chan : Channel(c)!IInv
=============================================================================
