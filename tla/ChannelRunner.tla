----------------------------- MODULE ChannelRunner -----------------------------
(***************************************************************************)
(* channel_runner (over MPI) and ucx_channel_runner: a benchmark of        *)
(* SRCommunicator with three threads on each node,                         *)
(*   - the sender: in each iteration some packets to every node of the     *)
(*     route on every channel, and every SyncEvery iterations a            *)
(*     synchronize() of each channel; after the last, EOF on each;         *)
(*   - the receiver: try_receive() on each channel in turn, until it is    *)
(*     told to stop;                                                       *)
(*   - the main loop of the communicator, in a thread of its own or, over  *)
(*     UCX, in the one that called run(): it joins the others.             *)
(*                                                                         *)
(* The communicator is that of Communicator: here it is used in one way,   *)
(* by loops that end.                                                      *)
(***************************************************************************)
EXTENDS Communicator

CONSTANTS Iters,       \* m_iters_to_run
          SyncEvery,   \* m_iters_to_sync
          Extra,       \* m_channel_priorities
          RouteOf      \* what m_router() yields on each node

ASSUME RunnerAssumption ==
  /\ Iters \in Nat /\ SyncEvery \in Nat \ {0}    \* 0 would divide by zero
  /\ Extra \in [Chan -> Nat]
  /\ RouteOf \in [Node -> Seq(Node)]
  /\ IsFiniteSet(Thread) /\ Cardinality(Thread) = 1

VARIABLES
  calls,      \* how many calls the sender has made of the communicator
  turn,       \* the channel that the receiver tries next, 0 once it has returned
  stopped,    \* m_stopped
  runner      \* run(): "main" until the main loop has returned and the sender is
              \* joined, "join" the receiver, "barrier" of the destructor, "returned"

threads == <<calls, turn, stopped, runner>>
runnerVars == <<vars, threads>>

RunnerInit ==
  /\ Init
  /\ calls = [n \in Node |-> 0]
  /\ turn = [n \in Node |-> 1]
  /\ stopped = [n \in Node |-> FALSE]
  /\ runner = [n \in Node |-> "main"]

-----------------------------------------------------------------------------
(* The sender: the calls it makes, one after the other.                    *)

Call(f, c, d) == [call |-> f, chan |-> c, dest |-> d]

\* send_random_to_channel(), send_random()
Packets(c, d) == [k \in 1..(1 + Extra[c]) |-> Call("send", c, d)]
SendRandom(d) == FlattenSeq([c \in Chan |-> Packets(c, d)])

\* sync(), mark_eof()
\* Wrong variant: the channels are marked up to the last, which is not.
EofAllButLast == [c \in 1..(NChan - 1) |-> Call("mark_eof", c, 0)]
SyncAll == [c \in Chan |-> Call("synchronize", c, 0)]
EofAll == [c \in Chan |-> Call("mark_eof", c, 0)]

SyncsAt(iter) == iter % SyncEvery = 0

\* Wrong variant: it synchronizes before it sends.
SyncFirst(n, iter) ==
  (IF SyncsAt(iter) THEN SyncAll ELSE <<>>)
    \o FlattenSeq([k \in DOMAIN RouteOf[n] |-> SendRandom(RouteOf[n][k])])
Iteration(n, iter) ==
  FlattenSeq([k \in DOMAIN RouteOf[n] |-> SendRandom(RouteOf[n][k])])
    \o (IF SyncsAt(iter) THEN SyncAll ELSE <<>>)

Program == [n \in Node |-> FlattenSeq([i \in 1..Iters |-> Iteration(n, i - 1)]) \o EofAll]

SenderCalls(n) ==
  /\ calls[n] < Len(Program[n])
  /\ LET next == Program[n][calls[n] + 1] IN
       \/ next.call = "send" /\ Send(n, next.chan, next.dest)
       \/ next.call = "synchronize" /\ Synchronize(n, next.chan)
       \/ next.call = "mark_eof" /\ PushEof(n, next.chan)
  /\ calls' = [calls EXCEPT ![n] = @ + 1]
  /\ UNCHANGED <<turn, stopped, runner>>

CallReturns(n) ==
  /\ \E w \in Thread : SynchronizeReturns(n, w) \/ MarkEof(n, w)
  /\ UNCHANGED threads

SenderDone(n) == calls[n] = Len(Program[n]) /\ \A w \in Thread : worker[n][w] = Idle

-----------------------------------------------------------------------------
(* The receiver.                                                           *)

Advance(n) == turn' = [turn EXCEPT ![n] = IF @ = NChan THEN 1 ELSE @ + 1]

\* try_receive() on the channel whose turn it is: syncs and acks are handled
\* until there is a packet, or nothing.
TryReceive(n) ==
  /\ turn[n] # 0
  /\ LET c == turn[n] IN
       \/ PopReceived(n, c) /\ UNCHANGED turn
       \/ (HandleSync(n, c) \/ HandleAck(n, c)) /\ UNCHANGED turn
       \/ HandleData(n, c) /\ Advance(n)
  /\ UNCHANGED <<calls, stopped, runner>>

\* An empty queue: on to the next channel.  m_stopped is read before the first.
NothingReceived(n) ==
  /\ turn[n] # 0
  /\ hand[n][turn[n]] = <<>> /\ recvq[n][turn[n]] = <<>>
  /\ IF turn[n] = NChan /\ stopped[n]
     THEN turn' = [turn EXCEPT ![n] = 0]
     ELSE Advance(n)
  /\ UNCHANGED <<vars, calls, stopped, runner>>

-----------------------------------------------------------------------------
MainLoop(n) == MainStep(n) /\ UNCHANGED threads

\* Wrong variant: the main loop is not joined.
SenderJoined(n) == SenderDone(n)
\* Both are joined, in either order: nothing but their end is waited for.
Joined(n) == main[n] = "exited" /\ SenderDone(n)

Stop(n) ==
  /\ runner[n] = "main"
  /\ Joined(n)
  /\ stopped' = [stopped EXCEPT ![n] = TRUE]
  /\ runner' = [runner EXCEPT ![n] = "join"]
  /\ UNCHANGED <<vars, calls, turn>>

\* The destructor of the communicator warns of a queue that is not empty.
Warns(n) == \E c \in Chan : sendq[n][c] # <<>> \/ recvq[n][c] # <<>>

\* run() is left, and the runner destroyed, with its communicator: the backend
\* flushes its buffers, cancels its receive ...
Destroy(n) ==
  /\ runner[n] = "join"
  /\ turn[n] = 0
  /\ FlushAll(n)
  /\ runner' = [runner EXCEPT ![n] = "barrier"]
  /\ UNCHANGED <<queues, synchronized, worker, hand, counts, loop, log, cursors, failed>>
  /\ UNCHANGED <<calls, turn, stopped>>

\* ... and waits for all nodes to do so.
Return(n) ==
  /\ runner[n] = "barrier"
  /\ \A m \in Node : runner[m] \in {"barrier", "returned"}
  /\ runner' = [runner EXCEPT ![n] = "returned"]
  /\ UNCHANGED <<vars, calls, turn, stopped>>

RunnerNext == \E n \in Node :
  \/ SenderCalls(n) \/ CallReturns(n)
  \/ TryReceive(n) \/ NothingReceived(n)
  \/ MainLoop(n)
  \/ Stop(n) \/ Destroy(n) \/ Return(n)

RunnerSpec == RunnerInit /\ [][RunnerNext]_runnerVars

SenderStep(n) == SenderCalls(n) \/ CallReturns(n) \/ Stop(n) \/ Destroy(n) \/ Return(n)
ReceiverStep(n) == TryReceive(n) \/ NothingReceived(n)

Flushes(n) == MainLoop(n) /\ buf[n] # buf'[n] /\ buf'[n] = [d \in Node |-> <<>>]
Completes(n) == MainLoop(n) /\ ~sendDone[n] /\ sendDone'[n]
Receives(n) == MainLoop(n) /\ inbox[n] = <<>> /\ inbox'[n] # <<>>

\* Threads that poll run on each node.  Of what a run does only so many times
\* it is enough that some node does it while some node can: the sender's calls
\* and returns, and what the backend owes (BackendProgress, but of all nodes at
\* once).
RunnerFairness ==
  /\ \A n \in Node : WF_runnerVars(ReceiverStep(n)) /\ WF_runnerVars(MainLoop(n))
  /\ WF_runnerVars(\E n \in Node : SenderStep(n))
  /\ SF_runnerVars(\E n \in Node : Receives(n))
  /\ SF_runnerVars(\E n \in Node : Completes(n))
  /\ SF_runnerVars(\E n \in Node : Flushes(n))

RunnerFairSpec == RunnerSpec /\ RunnerFairness

-----------------------------------------------------------------------------
(* Properties.                                                             *)

\* communicator.h:73-79 as the loop of the senders has it: when a sender has
\* left the synchronization of an iteration behind on a channel, every packet
\* that any node sent there in that iteration or before has been handled where
\* it went, and so all have got as far.
PacketsPer(n, c) == Len(RouteOf[n]) * (1 + Extra[c])
SyncedIterations(k) == IF k = 0 THEN 0 ELSE (k - 1) * SyncEvery + 1

IterationsDelivered ==
  \A n, m \in Node, c \in Chan :
    LET due == SyncedIterations(Returns[c][n]) * PacketsPer(m, c)
        sent == {p \in 1..Len(log[c][m]) : log[c][m][p].type = "data"}
    IN /\ Cardinality(sent) >= due
       /\ \A p \in sent :
            Cardinality({q \in sent : q <= p}) <= due
              => handled[c][log[c][m][p].dest][m] >= p

\* channel_runner.h:106, "at this point the communicator is closed, stop the
\* receiver": no node stops its receiver with a packet for it on its way, none is
\* in its hand when it has returned, and nothing is left in a queue when the
\* communicator is destroyed, nor to receive when the backend cancels its receive.
AllReceived ==
  \A n, m \in Node, c \in Chan :
    LET mine == {p \in 1..Len(log[c][m]) : log[c][m][p].type = "data" /\ log[c][m][p].dest = n}
    IN /\ stopped[n] => \A p \in mine : handled[c][n][m] >= p \/ hand[n][c] # <<>>
       /\ runner[n] \in {"barrier", "returned"} =>
            /\ \A p \in mine : handled[c][n][m] >= p
            /\ ~Warns(n) /\ net[m][n] = <<>> /\ buf[m][n] = <<>>

\* The three threads of every node come to their end, whoever is first, and all
\* get out of the barrier after it.
AllReturn == <>(\A n \in Node : runner[n] = "returned")

-----------------------------------------------------------------------------
(* What is inductive together with SingleWorkerInv, and implies            *)
(* AllReceived.                                                            *)

RunnerTypeOK ==
  /\ calls \in [Node -> Nat] /\ turn \in [Node -> 0..NChan]
  /\ stopped \in [Node -> BOOLEAN]
  /\ runner \in [Node -> {"main", "join", "barrier", "returned"}]

\* The receiver has a message of one channel at a time, and none when it moves on;
\* it is stopped after the main loop, and joined before the destructor.
ThreadsInv ==
  \A n \in Node :
    /\ \A c \in Chan : hand[n][c] # <<>> => turn[n] = c
    /\ stopped[n] => main[n] = "exited"
    /\ runner[n] # "main" => stopped[n]
    /\ runner[n] \in {"barrier", "returned"} => turn[n] = 0

RunnerInv == SingleWorkerInv /\ RunnerTypeOK /\ ThreadsInv

-----------------------------------------------------------------------------
(* What is inductive together with RunnerInv, and implies                  *)
(* IterationsDelivered.                                                    *)

\* How many of the first k calls of a program are f on channel c.
CallsOf(program, k, f, c) ==
  Cardinality({x \in 1..k : program[x].call = f /\ program[x].chan = c})

\* How many packets there are up to position p of a log.
DataUpto(s, p) == Cardinality({q \in 1..p : s[q].type = "data"})

\* The log has the packets and syncs that the sender has pushed, and before each
\* sync the packets of its iteration and of those before.
SenderInv ==
  \A n \in Node, c \in Chan :
    /\ calls[n] <= Len(Program[n])
    /\ CountOf("data", log[c][n]) = CallsOf(Program[n], calls[n], "send", c)
    /\ CountOf("sync", log[c][n]) = CallsOf(Program[n], calls[n], "synchronize", c)
    /\ \A p \in 1..Len(log[c][n]) : log[c][n][p].type = "sync" =>
         DataUpto(log[c][n], p) >= SyncedIterations(log[c][n][p].round) * PacketsPer(n, c)

\* The program itself has as many packets before each synchronize().
ProgramOK ==
  \A n \in Node, c \in Chan : \A x \in 1..Len(Program[n]) :
    Program[n][x].call = "synchronize" /\ Program[n][x].chan = c =>
      CallsOf(Program[n], x, "send", c)
        >= SyncedIterations(CallsOf(Program[n], x, "synchronize", c)) * PacketsPer(n, c)
=============================================================================
