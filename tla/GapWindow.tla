------------------------------ MODULE GapWindow ------------------------------
(***************************************************************************)
(* What the all-to-all gap runners have in common, whatever carries their  *)
(* packets: each node sends the packets 1, 2, ..., Iters to all the        *)
(* others, and sends packet k only once it has received packet k - Window  *)
(* of every other node (all_to_all_gap_runner*.h, ucx_*side_gap_runner.h). *)
(*                                                                         *)
(* RdmaGapRunner, TagGapRunner, MpiGapRunner and ShmemGapRunner are shown  *)
(* to implement this module, each with the window its test comes to.       *)
(***************************************************************************)
EXTENDS Integers, FiniteSets

CONSTANTS Node,     \* the ranks; the routing table is complete
          Window,   \* the width of the window
          Iters     \* m_iters_to_run

\* The runners refuse an incomplete routing table, and a lone node would wait
\* for a peer that does not exist.  The modules that implement this one assume
\* it of their constants, and the theorems about it of these.
GapAssumption ==
  /\ IsFiniteSet(Node) /\ Cardinality(Node) > 1
  /\ Window \in Nat \ {0} /\ Iters \in Nat

VARIABLES
  sent,      \* sent[n]: the last packet that n sent to all its peers
  received   \* received[n][i]: the last packet of i that n has accounted for

vars == <<sent, received>>

Peers(n) == Node \ {n}

Init ==
  /\ sent = [n \in Node |-> 0]
  /\ received = [n \in Node |-> [i \in Node |-> 0]]

\* may_send() of the packet after the last.
MaySend(n) == \A i \in Peers(n) : (sent[n] + 1) - received[n][i] <= Window

Send(n) ==
  /\ sent[n] < Iters
  /\ MaySend(n)
  /\ sent' = [sent EXCEPT ![n] = @ + 1]
  /\ UNCHANGED received

UnderWay(n, i) == received[n][i] < sent[i]

\* The packets of a node are accounted for in the order they were sent.
Receive(n, i) ==
  /\ i # n
  /\ UnderWay(n, i)
  /\ received' = [received EXCEPT ![n][i] = @ + 1]
  /\ UNCHANGED sent

Next == \E n \in Node : Send(n) \/ \E i \in Node : Receive(n, i)

Spec == Init /\ [][Next]_vars

-----------------------------------------------------------------------------
\* The types of the variables.
TypeOK ==
  /\ sent \in [Node -> 0..Iters]
  /\ received \in [Node -> [Node -> 0..Iters]]

\* No node runs more than a window ahead of another, though no node is ever
\* told how far another has got.
SkewBounded == \A i, j \in Node : sent[i] - sent[j] <= Window

\* At most two windows of packets are under way from a node to another: how
\* many buffers the sender must not touch.
InFlightBounded == \A i, j \in Node : i # j => sent[i] - received[j][i] <= 2 * Window

\* ... of which the next packet is not one: once may_send() has agreed to it,
\* there is room for it in 2 * Window buffers; before that, it takes one more.
RoomToSend ==
  \A n \in Node : MaySend(n) =>
    \A j \in Peers(n) : (sent[n] + 1) - received[j][n] <= 2 * Window

\* Every node has sent and received everything.
Done == /\ \A n \in Node : sent[n] = Iters
        /\ \A n \in Node, i \in Node : i # n => received[n][i] = Iters

\* Until then no node waits for a packet that nobody will send: packets are
\* under way, or somebody may send.
NeverStuck ==
  \/ Done
  \/ \E n \in Node : sent[n] < Iters /\ MaySend(n)
  \/ \E n, i \in Node : i # n /\ received[n][i] < sent[i]

-----------------------------------------------------------------------------
\* Inductive; implies SkewBounded, InFlightBounded and RoomToSend.
WindowInv ==
  \A n, i \in Node : i # n =>
    /\ received[n][i] <= sent[i]
    /\ sent[n] - received[n][i] <= Window

IInv == TypeOK /\ WindowInv

-----------------------------------------------------------------------------
\* How the two-sided runners keep track of what they received of each peer: for
\* each packet after the last that came from all, the number of peers it came
\* from; an entry that is not in the map counts 0.
Tally(peers, got, count, latest) ==
  /\ \A i \in peers : latest <= got[i]
  /\ \E i \in peers : latest = got[i]
  /\ \A k \in 0..Iters :
       count[k] = IF k <= latest THEN 0 ELSE Cardinality({i \in peers : got[i] >= k})
=============================================================================
