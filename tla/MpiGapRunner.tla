----------------------------- MODULE MpiGapRunner -----------------------------
(***************************************************************************)
(* all_to_all_gap_runner (all_to_all_gap_runner.h): all to all over MPI.   *)
(* One thread per node sends a packet when it may, and otherwise has one   *)
(* receive from any source under way, which it posts anew as soon as it    *)
(* tests complete.  It counts, for each id, the peers it received that     *)
(* packet from.                                                            *)
(*                                                                         *)
(* MPI delivers the messages of a node to another in the order they were   *)
(* sent.  A packet with a run-time size is serialized, and reaches the     *)
(* value of the runner inside test(); one of a compile-time size is an MPI *)
(* datatype (data.h:337), and MPI writes it straight to the value.         *)
(*                                                                         *)
(* The value is a local of receive_from_peers(), each time another one; a  *)
(* pending receive writes to the one it was posted with, which is gone by  *)
(* then.  The model has one value per node, as a stack that is the same in *)
(* each turn of the loop.                                                  *)
(***************************************************************************)
EXTENDS Integers, FiniteSets

CONSTANTS Node,     \* the ranks; the routing table is complete
          MaxGap,   \* m_max_gap
          Iters,    \* m_iters_to_run
          Static    \* static_packet

\* A lone node would wait for a peer that does not exist.
ASSUME MpiAssumption ==
  /\ IsFiniteSet(Node) /\ Cardinality(Node) > 1
  /\ MaxGap \in Nat /\ Iters \in Nat /\ Static \in BOOLEAN

VARIABLES
  pc,         \* the loop: "top", "test" the receive, "count" what it got;
              \* then "rest" of the receives, "sends", "done"
  sent,       \* m_id of the packet that was sent last
  matched,    \* matched[n][i]: packets of i to n that a receive of n took
  request,    \* m_receive_req_opt: the id it completed with, 0 until then
  value,      \* id of the packet that the receive was posted with
  receives,   \* m_receives
  ids,        \* m_received_ids: the count of an id; 0 stands for no entry
  latest      \* m_latest_complete

vars == <<pc, sent, matched, request, value, receives, ids, latest>>

Peers(n) == Node \ {n}
size == Cardinality(Node)

Init ==
  /\ pc = [n \in Node |-> IF Iters = 0 THEN "rest" ELSE "top"]
  /\ sent = [n \in Node |-> 0]
  /\ matched = [n \in Node |-> [i \in Node |-> 0]]
  /\ request = [n \in Node |-> 0]
  /\ value = [n \in Node |-> 0]
  /\ receives = [n \in Node |-> 0]
  /\ ids = [n \in Node |-> [k \in 0..Iters |-> 0]]
  /\ latest = [n \in Node |-> 0]

\* generator(): a packet with the next id, which is made once and then sent when
\* it may be.
NextPacket(n) == sent[n] + 1

\* Wrong variant: the next one too.
MaySendWider(n) == sent[n] - latest[n] <= MaxGap + 1
MaySend(n) == NextPacket(n) - latest[n] <= MaxGap + 1

\* send_to_peers(), if it may; the loop goes on to the receive.
Send(n) ==
  /\ pc[n] = "top"
  /\ sent' = IF MaySend(n) THEN [sent EXCEPT ![n] = NextPacket(n)] ELSE sent
  /\ pc' = [pc EXCEPT ![n] = "test"]
  /\ UNCHANGED <<matched, request, value, receives, ids, latest>>

\* MPI: a packet of i, the next one, meets the receive of n, which is posted
\* first in the turn that sends the first packet, and anew after each.
Match(n, i) ==
  /\ i # n
  /\ sent[n] > 0 /\ request[n] = 0
  /\ matched[n][i] < sent[i]
  /\ matched' = [matched EXCEPT ![n][i] = @ + 1]
  /\ request' = [request EXCEPT ![n] = matched[n][i] + 1]
  /\ value' = IF Static THEN [value EXCEPT ![n] = matched[n][i] + 1] ELSE value
  /\ UNCHANGED <<pc, sent, receives, ids, latest>>

\* Where a node goes after a receive: to the next packet, or the rest.
After(n) == IF sent[n] < Iters THEN "top" ELSE "rest"

\* Wrong variants: of itself too; not the last.
WithItself == Iters * size
AllButOne == Iters * (size - 1) - 1
Expected == Iters * (size - 1)

\* try_receive() has nothing ...
TestFails(n) ==
  /\ pc[n] = "test"
  /\ request[n] = 0
  /\ pc' = [pc EXCEPT ![n] = After(n)]
  /\ UNCHANGED <<sent, matched, request, value, receives, ids, latest>>

\* ... or has something, and posts the receive anew into the same value.
TestSucceeds(n) ==
  /\ \/ pc[n] = "test"
     \/ pc[n] = "rest" /\ receives[n] < Expected
  /\ request[n] # 0
  /\ value' = IF Static THEN value ELSE [value EXCEPT ![n] = request[n]]
  /\ request' = [request EXCEPT ![n] = 0]
  /\ receives' = [receives EXCEPT ![n] = @ + 1]
  /\ pc' = [pc EXCEPT ![n] = "count"]
  /\ UNCHANGED <<sent, matched, ids, latest>>

\* Wrong variant: one peer short.
FromAllButOne(n) == ids[n][value[n]] + 1 = size - 2
FromAll(n) == ids[n][value[n]] + 1 = size - 1
Counted(n) == [ids EXCEPT ![n][value[n]] = IF FromAll(n) THEN 0 ELSE @ + 1]

\* receive_from_peers(), the rest of it.
Count(n) ==
  /\ pc[n] = "count"
  /\ latest' = IF FromAll(n) THEN [latest EXCEPT ![n] = value[n]] ELSE latest
  /\ ids' = Counted(n)
  /\ pc' = [pc EXCEPT ![n] = After(n)]
  /\ UNCHANGED <<sent, matched, request, value, receives>>

\* All was received ...
AllReceived(n) ==
  /\ pc[n] = "rest" /\ receives[n] >= Expected
  /\ pc' = [pc EXCEPT ![n] = "sends"]
  /\ UNCHANGED <<sent, matched, request, value, receives, ids, latest>>

\* ... and wait_for_sent() returns.  MPI may complete a send before it is matched:
\* the library has copied the packet.
AllSent(n) ==
  /\ pc[n] = "sends"
  /\ pc' = [pc EXCEPT ![n] = "done"]
  /\ UNCHANGED <<sent, matched, request, value, receives, ids, latest>>

AllMatched(n) == \A j \in Peers(n) : matched[j][n] = sent[n]

Loop(n) == Send(n) \/ TestFails(n) \/ TestSucceeds(n) \/ Count(n) \/ AllReceived(n)

Run(n) == Loop(n) \/ AllSent(n)

Next == \E n \in Node : Run(n) \/ \E i \in Node : Match(n, i)

Spec == Init /\ [][Next]_vars

\* Each thread runs; MPI matches a receive that stays posted with a message
\* of any source that stays under way, and completes the sends once all are matched.
Fairness ==
  \A n \in Node :
    /\ WF_vars(Loop(n)) /\ WF_vars(AllMatched(n) /\ AllSent(n))
    /\ WF_vars(\E i \in Node : Match(n, i))

FairSpec == Spec /\ Fairness

-----------------------------------------------------------------------------
\* all_to_all_gap_runner.h:136: "since mpi messages from i to j are sent in
\* order, if we got (id == K) from all the world, then we got every (id < K)
\* for sure".
LatestIsHere == \A n \in Node : \A i \in Peers(n) : latest[n] <= matched[n][i]

\* all_to_all_gap_runner.h:173: "ensure that we receive every send from every peer",
\* though the loop does not look whose packet it counts.
DoneHasAll == \A n \in Node : pc[n] = "done" => \A i \in Peers(n) : matched[n][i] = Iters

\* Every node is done in the end.
AllDone == <>(\A n \in Node : pc[n] = "done")

\* The runner is a gap runner, with a window of one more than the gap.
Gap == INSTANCE GapWindow WITH Window <- MaxGap + 1, received <- matched
RefinesGapWindow == Gap!Spec

\* Does not hold: the window is one wider.
\* all_to_all_gap_runner.h:10: "delays sending i'th packet until (i-gap)'th is
\* received".
DelaysUntilGap == \A n \in Node : \A i \in Peers(n) : sent[n] - matched[n][i] <= MaxGap

-----------------------------------------------------------------------------
(* The inductive invariant of the proofs.                                  *)

TypeOK ==
  /\ pc \in [Node -> {"top", "test", "count", "rest", "sends", "done"}]
  /\ sent \in [Node -> 0..Iters] /\ matched \in [Node -> [Node -> 0..Iters]]
  /\ request \in [Node -> 0..Iters] /\ value \in [Node -> 0..Iters]
  /\ receives \in [Node -> Nat]
  /\ ids \in [Node -> [0..Iters -> Nat]] /\ latest \in [Node -> 0..Iters]

\* Where a node is in its loop, and what it has by then.
ProgressInv ==
  \A n \in Node :
    /\ pc[n] = "top" => sent[n] < Iters
    /\ pc[n] \in {"rest", "sends", "done"} => sent[n] = Iters
    /\ pc[n] \in {"sends", "done"} => \A i \in Peers(n) : matched[n][i] = Iters

\* What was matched was sent, and what was sent was inside the window.
LinkInv ==
  \A n \in Node :
    /\ \A i \in Peers(n) : matched[n][i] <= sent[i]
    /\ ~Static => sent[n] - latest[n] <= MaxGap + 1

\* If under way, packet k of some peer is all that d has and c has not.
Taking(underWay, n, c, d, k) ==
  IF underWay
  THEN \E i \in Peers(n) : k = c[i] + 1 /\ d = [c EXCEPT ![i] = k]
  ELSE d = c

\* Packets by source and id, up to a number of each source.
UpTo(n, f) == {p \in Peers(n) \X (1..Iters) : p[2] <= f[p[1]]}

\* The receive has at most one packet that receives does not count, and the loop at
\* most one that the map does not count.
Accounts(n, taken) ==
  /\ Taking(request[n] # 0, n, taken, matched[n], request[n])
  /\ receives[n] = Cardinality(UpTo(n, taken))
  /\ ~Static => \E counted \in [Node -> 0..Iters] :
       /\ Taking(pc[n] = "count", n, counted, taken, value[n])
       /\ Gap!Tally(Peers(n), counted, ids[n], latest[n])

CountInv == \A n \in Node : \E taken \in [Node -> 0..Iters] : Accounts(n, taken)

IInv == TypeOK /\ ProgressInv /\ LinkInv /\ CountInv
=============================================================================
