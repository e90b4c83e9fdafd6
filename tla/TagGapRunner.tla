----------------------------- MODULE TagGapRunner -----------------------------
(***************************************************************************)
(* tag_gap_runner (ucx_2side_gap_runner.h): all to all over two-sided UCX. *)
(* Packets are sent with the rank of the sender as their tag from the      *)
(* slots of a circular buffer, and received in the order they were sent.   *)
(* A node counts, for each id, the peers it received that packet from; a   *)
(* packet that came from all of them is complete, and the next may be sent *)
(* once the one MaxGap before it is.                                       *)
(*                                                                         *)
(* The transport reads a packet from its slot when it pleases, until the   *)
(* send is complete.  The runner gives the slot a new packet, and frees    *)
(* the memory of the old one, without asking.                              *)
(***************************************************************************)
EXTENDS Integers, FiniteSets, Sequences

CONSTANTS Node,     \* the ranks; the routing table is complete
          MaxGap,   \* m_max_gap
          Iters     \* m_iters_to_run

ASSUME TagAssumption ==
  /\ IsFiniteSet(Node) /\ Cardinality(Node) > 1
  /\ MaxGap \in Nat \ {0} /\ Iters \in Nat

VARIABLES
  pc,       \* "fill" a slot, "wait" for may_send(), "drain", "done"
  id,       \* m_id of the generator
  slot,     \* slot[n][s]: the packet in m_sent[s]
  posted,   \* the last packet that was sent, and received from each peer
  read,     \* read[n][i]: packets of i to n the transport has read
  wire,     \* wire[n][i]: what it read and has not delivered, a sequence
  arrived,  \* arrived[n][i]: receives from i that n completed
  intact,   \* no packet that n received had changed on the way
  ids,      \* m_received_ids: the count of an id; 0 stands for no entry
  latest    \* m_latest_complete

vars == <<pc, id, slot, posted, read, wire, arrived, intact, ids, latest>>

Peers(n) == Node \ {n}
size == Cardinality(Node)

\* The size of m_sent, and of m_received for each source.  Both indexes of the
\* code go round with the packets: packet k is in slot (k - 1) % Slots.
\* Wrong variant: a gap of them.
SlotsPerGap == MaxGap
Slots == MaxGap * size

\* The constructor fills m_received, and then m_sent, "just to set correct size":
\* the ids of its own generator, which are overwritten before they are sent.
Generated == [s \in 0..(Slots - 1) |-> size * Slots + s + 1]

Init ==
  /\ pc = [n \in Node |-> IF Iters = 0 THEN "drain" ELSE "fill"]
  /\ id = [n \in Node |-> 0]
  /\ slot = [n \in Node |-> Generated]
  /\ posted = [n \in Node |-> 0]
  /\ read = [n \in Node |-> [i \in Node |-> 0]]
  /\ wire = [n \in Node |-> [i \in Node |-> <<>>]]
  /\ arrived = [n \in Node |-> [i \in Node |-> 0]]
  /\ intact = [n \in Node |-> TRUE]
  /\ ids = [n \in Node |-> [k \in 0..Iters |-> 0]]
  /\ latest = [n \in Node |-> 0]

\* generator(): a packet with the next id.
NextPacket(n) == id[n] + 1

\* The generator makes the next packet, which takes the place of an old one.
Fill(n) ==
  /\ pc[n] = "fill"
  /\ id' = [id EXCEPT ![n] = NextPacket(n)]
  /\ slot' = [slot EXCEPT ![n][id[n] % Slots] = NextPacket(n)]
  /\ pc' = [pc EXCEPT ![n] = "wait"]
  /\ UNCHANGED <<posted, read, wire, arrived, intact, ids, latest>>

\* Wrong variant: off by one.
MaySendWider(n) == id[n] - latest[n] <= MaxGap + 1
MaySend(n) == id[n] - latest[n] <= MaxGap

MoreToSend(n) == id[n] < Iters

\* send_to_peers() and receive_from_peers().
Post(n) ==
  /\ pc[n] = "wait"
  /\ MaySend(n)
  /\ posted' = [posted EXCEPT ![n] = id[n]]
  /\ pc' = [pc EXCEPT ![n] = IF MoreToSend(n) THEN "fill" ELSE "drain"]
  /\ UNCHANGED <<id, slot, read, wire, arrived, intact, ids, latest>>

\* The transport reads the next packet of i to n from its slot: that send is
\* complete.
Transmit(n, i) ==
  /\ i # n
  /\ read[n][i] < posted[i]
  /\ read' = [read EXCEPT ![n][i] = @ + 1]
  /\ wire' = [wire EXCEPT ![n][i] = Append(@, slot[i][read[n][i] % Slots])]
  /\ UNCHANGED <<pc, id, slot, posted, arrived, intact, ids, latest>>

\* Wrong variants: one peer short; waiting for itself too; the entry stays in
\* the map.
FromAllButOne(n, k) == ids[n][k] + 1 = size - 2
FromItselfToo(n, k) == ids[n][k] + 1 = size
NotErased(n, k) == [ids EXCEPT ![n][k] = @ + 1]

FromAll(n, k) == ids[n][k] + 1 = size - 1
Counted(n, k) == [ids EXCEPT ![n][k] = IF FromAll(n, k) THEN 0 ELSE @ + 1]

\* It delivers it to the receive that was posted for it: the callback.
Deliver(n, i) ==
  /\ wire[n][i] # <<>>
  /\ arrived[n][i] < posted[n]
  /\ LET k == Head(wire[n][i]) IN
       /\ intact' = [intact EXCEPT ![n] = @ /\ k = arrived[n][i] + 1]
       /\ latest' = IF FromAll(n, k) THEN [latest EXCEPT ![n] = k] ELSE latest
       /\ ids' = Counted(n, k)
  /\ wire' = [wire EXCEPT ![n][i] = Tail(@)]
  /\ arrived' = [arrived EXCEPT ![n][i] = @ + 1]
  /\ UNCHANGED <<pc, id, slot, posted, read>>

\* m_comm.run(): until the node's own sends and receives are complete.
Drain(n) ==
  /\ pc[n] = "drain"
  /\ \A i \in Peers(n) : read[i][n] = posted[n] /\ arrived[n][i] = posted[n]
  /\ pc' = [pc EXCEPT ![n] = "done"]
  /\ UNCHANGED <<id, slot, posted, read, wire, arrived, intact, ids, latest>>

Run(n) == Fill(n) \/ Post(n) \/ Drain(n)

Next == \E n \in Node : Run(n) \/ \E i \in Node : Transmit(n, i) \/ Deliver(n, i)

Spec == Init /\ [][Next]_vars

\* The loops poll until they may go on; what was posted completes.
Fairness ==
  /\ \A n \in Node : WF_vars(Run(n))
  /\ \A n, i \in Node : WF_vars(Transmit(n, i)) /\ WF_vars(Deliver(n, i))

FairSpec == Spec /\ Fairness

-----------------------------------------------------------------------------
\* ucx_2side_gap_runner.h:72: m_sent is large enough that no packet changes
\* while it is being sent.
PacketsIntact == \A n \in Node : intact[n]

\* ucx_2side_gap_runner.h:127: "since ucx messages from i to j are sent in
\* order, if we got (id == K) from all the world, then we got every (id < K)
\* for sure", and never less than that either.
LatestIsLeast ==
  \A n \in Node :
    /\ \A i \in Peers(n) : latest[n] <= arrived[n][i]
    /\ \E i \in Peers(n) : latest[n] = arrived[n][i]

\* m_received_ids stays small ("erasing just to save some memory"): it holds
\* the ids of two gaps after the latest at most.
MapBounded ==
  \A n \in Node, k \in 0..Iters :
    ids[n][k] > 0 => latest[n] < k /\ k <= latest[n] + 2 * MaxGap

\* Every node is done in the end.
AllDone == <>(\A n \in Node : pc[n] = "done")

\* The runner is a gap runner with the window it was given.
Gap == INSTANCE GapWindow WITH Window <- MaxGap, sent <- posted, received <- arrived
RefinesGapWindow == Gap!Spec

-----------------------------------------------------------------------------
(* The inductive invariant of the proofs, for more than two nodes.         *)

TypeOK ==
  /\ pc \in [Node -> {"fill", "wait", "drain", "done"}]
  /\ id \in [Node -> 0..Iters] /\ posted \in [Node -> 0..Iters]
  /\ slot \in [Node -> [0..(Slots - 1) -> Nat]]
  /\ read \in [Node -> [Node -> 0..Iters]] /\ arrived \in [Node -> [Node -> 0..Iters]]
  /\ wire \in [Node -> [Node -> Seq(Nat)]]
  /\ intact \in [Node -> BOOLEAN]
  /\ ids \in [Node -> [0..Iters -> Nat]] /\ latest \in [Node -> 0..Iters]

\* Where a node is in its loop.
ProgressInv ==
  \A n \in Node :
    /\ pc[n] = "fill" => id[n] = posted[n] /\ posted[n] < Iters
    /\ pc[n] = "wait" => id[n] = posted[n] + 1 /\ posted[n] < Iters
    /\ pc[n] \in {"drain", "done"} => id[n] = posted[n] /\ posted[n] = Iters

\* What the transport has is what was posted at both ends, in the order it was sent.
LinkInv ==
  \A n \in Node :
    /\ wire[n][n] = <<>>
    /\ \A i \in Peers(n) :
         /\ arrived[n][i] <= posted[n]
         /\ read[n][i] <= posted[i]
         /\ Len(wire[n][i]) = read[n][i] - arrived[n][i]
         /\ \A k \in 1..Len(wire[n][i]) : wire[n][i][k] = arrived[n][i] + k

\* The slots hold the packets that were written last.
SlotInv ==
  \A n \in Node, k \in 0..Iters :
    k < id[n] /\ id[n] - k <= Slots => slot[n][k % Slots] = k + 1

\* The map counts what arrived, and no packet was sent outside the gap.
CountInv ==
  \A n \in Node :
    /\ Gap!Tally(Peers(n), arrived[n], ids[n], latest[n])
    /\ posted[n] - latest[n] <= MaxGap

IInv == TypeOK /\ ProgressInv /\ LinkInv /\ SlotInv /\ CountInv /\ PacketsIntact
=============================================================================
