----------------------------- MODULE SyncChannel -----------------------------
(***************************************************************************)
(* What one channel of SRCommunicator promises to the threads that use it, *)
(* seen from above the transport: communication/communicator.h and .inl.   *)
(*                                                                         *)
(* Everything a node i pushes to the channel's send queue is appended to   *)
(* log[i].  The path from that queue through the peer's main loop to its   *)
(* receive handler is abstracted to two cursors into log[i]: arrived[j][i] *)
(* (dispatched by the main loop of j) and handled[j][i] (handled by the    *)
(* receive handler of j).  Communicator.tla has the queues, buffers and    *)
(* threads in between; that it implements this module is checked, and      *)
(* proved for a process of one worker thread.                              *)
(*                                                                         *)
(* One worker thread and one receive handler use the channel on each node, *)
(* as communicator.h:26-31 and :78 prescribe.                              *)
(***************************************************************************)
EXTENDS Integers, Sequences, FiniteSets

CONSTANTS Node,     \* the ranks
          MaxLog,   \* bound: data is sent only while the log is this short
          MaxSync   \* bound on the calls of synchronize() per node

ASSUME NodeAssumption == IsFiniteSet(Node) /\ Node # {}
ASSUME BoundAssumption == MaxLog \in Nat /\ MaxSync \in Nat

VARIABLES
  log,           \* log[i]: all that i pushed to its send queue, in order
  arrived,       \* arrived[j][i]: position in log[i] dispatched by j's main loop
  handled,       \* handled[j][i]: position in log[i] handled at j
  pc,            \* the worker thread of each node
  synchronized,  \* m_synchronized
  syncCounter,   \* m_sync_counters[chan]
  ackCounter,    \* m_ack_counters[chan]
  eofCounter,    \* m_global_eof_counters[chan]
  recvEof,       \* m_recv_queues[chan].eof()
  failed,        \* some thread of the node threw squeue_eof or failed VALIDATE
  \* History: how many rounds of the barrier reached each stage.
  called,        \* calls of synchronize() by the worker of i
  returned,      \* ... that returned
  acked,         \* acks that i sent
  completed,     \* times i counted size() acks
  syncsFrom,     \* syncsFrom[j][i]: syncs of i handled at j
  acksFrom       \* acksFrom[j][i]: acks of i handled at j

links   == <<arrived, handled>>
counts  == <<syncCounter, ackCounter>>
closing == <<eofCounter, recvEof>>
history == <<called, returned, acked, completed, syncsFrom, acksFrom>>
vars == <<log, links, pc, synchronized, counts, closing, failed, history>>

size == Cardinality(Node)

\* An entry of a log.  dest is meaningful for data only (everything else is
\* broadcast); round numbers the syncs and the acks of a node, from 1.
MsgType == {"data", "eof", "sync", "ack"}
Entry == [type : MsgType, dest : Node, round : Nat]

Push(n, t, d, r) ==
  log' = [log EXCEPT ![n] = Append(@, [type |-> t, dest |-> d, round |-> r])]

\* Data goes to its destination, every other message to all the nodes.
Visible(e, j) == e.type # "data" \/ e.dest = j

\* p is the first position of the log s, after position c, that j receives.
IsNext(s, c, j, p) ==
  /\ p \in (c + 1)..Len(s)
  /\ Visible(s[p], j)
  /\ \A q \in (c + 1)..(p - 1) : ~Visible(s[q], j)

Init ==
  /\ log = [n \in Node |-> <<>>]
  /\ arrived = [j \in Node |-> [i \in Node |-> 0]]
  /\ handled = [j \in Node |-> [i \in Node |-> 0]]
  /\ pc = [n \in Node |-> "run"]
  /\ synchronized = [n \in Node |-> FALSE]
  /\ syncCounter = [n \in Node |-> 0]
  /\ ackCounter = [n \in Node |-> 0]
  /\ eofCounter = [n \in Node |-> 0]
  /\ recvEof = [n \in Node |-> FALSE]
  /\ failed = [n \in Node |-> FALSE]
  /\ called = [n \in Node |-> 0]
  /\ returned = [n \in Node |-> 0]
  /\ acked = [n \in Node |-> 0]
  /\ completed = [n \in Node |-> 0]
  /\ syncsFrom = [j \in Node |-> [i \in Node |-> 0]]
  /\ acksFrom = [j \in Node |-> [i \in Node |-> 0]]

-----------------------------------------------------------------------------
(* The worker thread.                                                      *)

Send(n, d) ==
  /\ pc[n] = "run"
  /\ Len(log[n]) < MaxLog
  /\ Push(n, "data", d, 0)
  /\ UNCHANGED <<links, pc, synchronized, counts, closing, failed, history>>

Synchronize(n) ==
  /\ pc[n] = "run"
  /\ called[n] < MaxSync
  /\ Push(n, "sync", n, called[n] + 1)
  /\ called' = [called EXCEPT ![n] = @ + 1]
  /\ pc' = [pc EXCEPT ![n] = "wait"]
  /\ UNCHANGED <<links, synchronized, counts, closing, failed,
                 returned, acked, completed, syncsFrom, acksFrom>>

\* The wait on m_sync_cond ends when the flag is found set.
\* Wrong variant: the predicate is not waited for.
AnyWakeup(n) == TRUE
Awakened(n) == synchronized[n]

SynchronizeReturns(n) ==
  /\ pc[n] = "wait"
  /\ Awakened(n)
  /\ synchronized' = [synchronized EXCEPT ![n] = FALSE]
  /\ returned' = [returned EXCEPT ![n] = @ + 1]
  /\ pc' = [pc EXCEPT ![n] = "run"]
  /\ UNCHANGED <<log, links, counts, closing, failed,
                 called, acked, completed, syncsFrom, acksFrom>>

\* mark_eof() pushes the EOF message and then marks the send queue: another
\* thread of the node may push between the two.
PushEof(n) ==
  /\ pc[n] = "run"
  /\ Push(n, "eof", n, 0)
  /\ pc' = [pc EXCEPT ![n] = "marking"]
  /\ UNCHANGED <<links, synchronized, counts, closing, failed, history>>

MarkEof(n) ==
  /\ pc[n] = "marking"
  /\ pc' = [pc EXCEPT ![n] = "closed"]
  /\ UNCHANGED <<log, links, synchronized, counts, closing, failed, history>>

-----------------------------------------------------------------------------
(* The main loop of j dispatches the next message of i.  It counts EOFs    *)
(* itself; everything else goes to the receive queue, whose push throws    *)
(* once the queue is marked EOF.                                           *)

\* Wrong variant: own EOF not awaited.
EofFromAllButOne(k) == k + 1 = size
\* Wrong variant: off by one.
EofFromAllTwice(k) == k > size
EofFromAll(k) == k = size

Arrive(j, i) == \E p \in 1..Len(log[i]) :
  /\ IsNext(log[i], arrived[j][i], j, p)
  /\ arrived' = [arrived EXCEPT ![j][i] = p]
  /\ IF log[i][p].type = "eof"
     THEN /\ eofCounter' = [eofCounter EXCEPT ![j] = @ + 1]
          /\ recvEof' = [recvEof EXCEPT ![j] = @ \/ EofFromAll(eofCounter[j] + 1)]
          /\ UNCHANGED failed
     ELSE /\ failed' = [failed EXCEPT ![j] = @ \/ recvEof[j]]
          /\ UNCHANGED closing
  /\ UNCHANGED <<log, handled, pc, synchronized, counts, history>>

-----------------------------------------------------------------------------
(* The receive handler of j takes the next message of i that has arrived.  *)

TakesNext(j, i, t, p) ==
  /\ p <= arrived[j][i]
  /\ IsNext(log[i], handled[j][i], j, p)
  /\ log[i][p].type = t
  /\ handled' = [handled EXCEPT ![j][i] = p]

HandleData(j, i) == \E p \in 1..Len(log[i]) :
  /\ TakesNext(j, i, "data", p)
  /\ UNCHANGED <<log, arrived, pc, synchronized, counts, closing, failed, history>>

\* send_ack(): the push throws if the worker has marked the send queue EOF.
SendAck(j) ==
  IF pc[j] = "closed"
  THEN /\ failed' = [failed EXCEPT ![j] = TRUE]
       /\ UNCHANGED <<log, acked>>
  ELSE /\ Push(j, "ack", j, acked[j] + 1)
       /\ acked' = [acked EXCEPT ![j] = @ + 1]
       /\ UNCHANGED failed

\* Wrong variant: own sync not awaited.
SyncFromAllButOne(k) == k + 1 = size
SyncFromAll(k) == k = size

HandleSync(j, i) == \E p \in 1..Len(log[i]) :
  /\ TakesNext(j, i, "sync", p)
  /\ syncsFrom' = [syncsFrom EXCEPT ![j][i] = @ + 1]
  /\ syncCounter' = [syncCounter EXCEPT ![j] = @ + 1]
  /\ IF SyncFromAll(syncCounter[j] + 1) THEN SendAck(j) ELSE UNCHANGED <<log, acked, failed>>
  /\ UNCHANGED <<arrived, pc, synchronized, ackCounter, closing,
                 called, returned, completed, acksFrom>>

\* Wrong variant: the counters are zeroed.
OffNothing(k) == 0
\* Wrong variant: off by one.
OffOneMore(k) == k - size - 1
OffRound(k) == k - size

\* The last ack of a round wakes the worker and takes one round off both
\* counters; VALIDATE throws in between if the syncs were not all counted.
CompleteRound(j) ==
  /\ synchronized' = [synchronized EXCEPT ![j] = TRUE]
  /\ completed' = [completed EXCEPT ![j] = @ + 1]
  /\ IF syncCounter[j] >= size
     THEN /\ syncCounter' = [syncCounter EXCEPT ![j] = OffRound(syncCounter[j])]
          /\ ackCounter' = [ackCounter EXCEPT ![j] = OffRound(ackCounter[j] + 1)]
          /\ UNCHANGED failed
     ELSE /\ ackCounter' = [ackCounter EXCEPT ![j] = @ + 1]
          /\ failed' = [failed EXCEPT ![j] = TRUE]
          /\ UNCHANGED syncCounter

HandleAck(j, i) == \E p \in 1..Len(log[i]) :
  /\ TakesNext(j, i, "ack", p)
  /\ acksFrom' = [acksFrom EXCEPT ![j][i] = @ + 1]
  /\ IF ackCounter[j] + 1 = size
     THEN CompleteRound(j)
     ELSE /\ ackCounter' = [ackCounter EXCEPT ![j] = @ + 1]
          /\ UNCHANGED <<syncCounter, synchronized, completed, failed>>
  /\ UNCHANGED <<log, arrived, pc, closing, called, returned, acked, syncsFrom>>

-----------------------------------------------------------------------------
Worker(n) ==
  \/ \E d \in Node : Send(n, d)
  \/ Synchronize(n)
  \/ SynchronizeReturns(n)
  \/ PushEof(n)
  \/ MarkEof(n)

Handle(j, i) == HandleData(j, i) \/ HandleSync(j, i) \/ HandleAck(j, i)

Next ==
  \/ \E n \in Node : Worker(n)
  \/ \E j, i \in Node : Arrive(j, i) \/ Handle(j, i)

Spec == Init /\ [][Next]_vars

\* The main loop and the receive handler keep running; a worker is never
\* obliged to call anything, but one that was woken returns, and mark_eof()
\* finishes.
Fairness ==
  /\ \A n \in Node : WF_vars(SynchronizeReturns(n)) /\ WF_vars(MarkEof(n))
  /\ \A j, i \in Node : WF_vars(Arrive(j, i)) /\ WF_vars(Handle(j, i))

FairSpec == Spec /\ Fairness

-----------------------------------------------------------------------------
(* What the channel promises.                                              *)

LinksType   == arrived \in [Node -> [Node -> Nat]] /\ handled \in [Node -> [Node -> Nat]]
WorkerType  == /\ pc \in [Node -> {"run", "wait", "marking", "closed"}]
               /\ synchronized \in [Node -> BOOLEAN]
               /\ failed \in [Node -> BOOLEAN]
CountsType  == syncCounter \in [Node -> Nat] /\ ackCounter \in [Node -> Nat]
ClosingType == eofCounter \in [Node -> Nat] /\ recvEof \in [Node -> BOOLEAN]
RoundsType  == /\ called \in [Node -> Nat] /\ returned \in [Node -> Nat]
               /\ acked \in [Node -> Nat] /\ completed \in [Node -> Nat]
FromType    == syncsFrom \in [Node -> [Node -> Nat]] /\ acksFrom \in [Node -> [Node -> Nat]]

\* The type of every variable.
TypeOK ==
  /\ log \in [Node -> Seq(Entry)]
  /\ LinksType /\ WorkerType /\ CountsType /\ ClosingType /\ RoundsType /\ FromType

\* communicator.h:73-79: when the r-th synchronize() of any node has returned,
\* every node has made its r-th call, and whatever a node k sent before that
\* call has been handled by the receive handler of every node it was sent to.
SyncGuarantee ==
  \A i, j, k \in Node :
    /\ returned[i] <= called[k]
    /\ \A p \in 1..Len(log[k]) :
         log[k][p].type = "sync" /\ log[k][p].round <= returned[i] => p <= handled[j][k]

\* No thread dies of squeue_eof (an ack pushed after the worker's mark_eof(),
\* a message dispatched to a receive queue already marked EOF) or of the
\* "Internal error during comm synchronization" VALIDATE.
NeverFails == \A n \in Node : ~failed[n]

\* communicator.h:22-24, "no data is lost": once a receive queue is marked
\* EOF, all that was ever sent to the node on this channel is in the queue or
\* was handled, and no node will send any more.
ClosedIsFinal ==
  \A j, i \in Node : recvEof[j] =>
    /\ pc[i] \in {"marking", "closed"}
    /\ arrived[j][i] = Len(log[i])

\* A round of the barrier that every node has entered lets every node go.
SyncCompletes ==
  \A r \in 1..MaxSync :
    (\A k \in Node : called[k] >= r) ~> (\A k \in Node : returned[k] >= r)

\* When every node has marked EOF, every receive queue is marked EOF and
\* drained.
EofCloses ==
  (\A k \in Node : pc[k] = "closed") ~>
    (\A j, i \in Node :
       /\ recvEof[j]
       /\ \A p \in (handled[j][i] + 1)..Len(log[i]) :
            ~Visible(log[i][p], j) \/ log[i][p].type = "eof")

-----------------------------------------------------------------------------
(* The inductive invariant behind SyncGuarantee, NeverFails and            *)
(* ClosedIsFinal (SyncChannelProofs.tla).                                  *)

\* The messages of type t in the log s are numbered 1..k, in this order.
Numbered(s, t, k) ==
  /\ \A p \in 1..Len(s) : s[p].type = t => s[p].round \in 1..k
  /\ \A p, q \in 1..Len(s) :
       s[p].type = t /\ s[q].type = t /\ p < q => s[p].round < s[q].round
  /\ \A r \in 1..k : \E p \in 1..Len(s) : s[p].type = t /\ s[p].round = r

LogInv ==
  \A i \in Node : Numbered(log[i], "sync", called[i]) /\ Numbered(log[i], "ack", acked[i])

\* Of the messages of type t in s, those up to position c are rounds 1..h.
Upto(s, t, c, h) ==
  \A p \in 1..Len(s) : s[p].type = t => (p <= c <=> s[p].round <= h)

\* The cursors and the number of syncs and acks handled agree.
CursorInv ==
  \A j, i \in Node :
    /\ handled[j][i] <= arrived[j][i]
    /\ arrived[j][i] <= Len(log[i])
    /\ Upto(log[i], "sync", handled[j][i], syncsFrom[j][i])
    /\ Upto(log[i], "ack", handled[j][i], acksFrom[j][i])

\* completed <= acks handled <= acked <= syncs handled <= called.
ChainInv ==
  \A j, i \in Node :
    /\ completed[j] <= acksFrom[j][i]
    /\ acksFrom[j][i] <= acked[i]
    /\ acked[j] <= syncsFrom[j][i]
    /\ syncsFrom[j][i] <= called[i]

WorkerInv ==
  \A n \in Node :
    /\ called[n] = IF pc[n] = "wait" THEN returned[n] + 1 ELSE returned[n]
    /\ completed[n] = IF synchronized[n] THEN returned[n] + 1 ELSE returned[n]

\* Whose messages of the current round, and of the one after it, j has handled.
SyncsAhead(j, d) == {i \in Node : syncsFrom[j][i] >= completed[j] + d}
AcksAhead(j) == {i \in Node : acksFrom[j][i] >= completed[j] + 1}

\* A sync of the next round may be handled before the last ack of this one:
\* that is why the sync counter is decremented by size() and not zeroed.
CounterInv ==
  \A j \in Node :
    /\ syncCounter[j] = Cardinality(SyncsAhead(j, 1)) + Cardinality(SyncsAhead(j, 2))
    /\ ackCounter[j] = Cardinality(AcksAhead(j))
    /\ SyncsAhead(j, 1) = Node => acked[j] = completed[j] + 1

\* EOF is the last message of a node.
EofLast(s) == \A p \in 1..Len(s) : s[p].type = "eof" => p = Len(s)
EndsInEof(s) == Len(s) > 0 /\ s[Len(s)].type = "eof"

EofInv ==
  \A i \in Node :
    /\ EofLast(log[i])
    /\ EndsInEof(log[i]) <=> pc[i] \in {"marking", "closed"}

EofsArrived(j) == {i \in Node : arrived[j][i] > 0 /\ log[i][arrived[j][i]].type = "eof"}

ClosingInv ==
  \A j \in Node :
    /\ eofCounter[j] = Cardinality(EofsArrived(j))
    /\ recvEof[j] <=> EofsArrived(j) = Node

\* Inductive; implies SyncGuarantee and ClosedIsFinal.
IInv ==
  /\ TypeOK /\ LogInv /\ CursorInv /\ ChainInv /\ WorkerInv
  /\ CounterInv /\ EofInv /\ ClosingInv /\ NeverFails
=============================================================================
