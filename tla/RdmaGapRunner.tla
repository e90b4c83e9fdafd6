---------------------------- MODULE RdmaGapRunner ----------------------------
(***************************************************************************)
(* rdma_gap_runner (ucx_1side_gap_runner.h): all to all over one-sided     *)
(* UCX.  A packet is put into the memory of each peer straight from a slot *)
(* of the sender's circular buffer m_sent, and an atomic add that follows  *)
(* it, behind a fence, tells the peer that it is there.                    *)
(*                                                                         *)
(* A node that waits looks for the least of m_atomics while its peers add  *)
(* to it.  It may find an element that is overtaken while it is read: it   *)
(* then goes on although another peer is further behind.                   *)
(*                                                                         *)
(* A slot must not be written again while a put that reads it is under     *)
(* way: that is what the size of m_sent is for, and nothing checks it.     *)
(*                                                                         *)
(* The routing table is complete (the runner refuses any other).  Bound:   *)
(* it lists no node twice.                                                 *)
(***************************************************************************)
EXTENDS Integers, FiniteSets

CONSTANTS Size,     \* the size of the world
          MaxGap,   \* m_max_gap
          Iters     \* m_iters_to_run

ASSUME RdmaAssumption ==
  Size \in Nat \ {0, 1} /\ MaxGap \in Nat \ {0} /\ Iters \in Nat

VARIABLES
  pc,          \* "fill" a slot, "wait" for may_send(), wait for the "atomics"
               \* of the peers, "done"
  id,          \* m_id of the generator: the packet that was written last
  slot,        \* slot[n][s]: the packet in m_sent[s]
  free,        \* m_sent_free_index
  posted,      \* the last packet whose puts and atomics were posted
  landed,      \* landed[n][i]: puts of i that are in the memory of n
  intact,      \* all the puts into the memory of n carried what was sent
  atomics,     \* m_atomics of n
  scan         \* the search for the least of them

vars == <<pc, id, slot, free, posted, landed, intact, atomics, scan>>

Least == INSTANCE LeastScan

Rank == 0..(Size - 1)
Peers(n) == Rank \ {n}

\* The size of m_sent.
Slots == MaxGap * Size

\* The constructor fills m_received, and then m_sent, "just to set correct size":
\* the ids of its own generator, which are overwritten before they are sent.
Generated == [s \in 0..(Slots - 1) |-> Size + s + 1]

Init ==
  /\ pc = [n \in Rank |-> IF Iters = 0 THEN "atomics" ELSE "fill"]
  /\ id = [n \in Rank |-> 0]
  /\ slot = [n \in Rank |-> Generated]
  /\ free = [n \in Rank |-> 0]
  /\ posted = [n \in Rank |-> 0]
  /\ landed = [n \in Rank |-> [i \in Rank |-> 0]]
  /\ intact = [n \in Rank |-> TRUE]
  /\ atomics = [n \in Rank |-> [i \in Rank |-> 0]]
  /\ scan = [n \in Rank |-> Least!Start]

\* set_meta(): the next id of the generator of send_receive().
SetMeta(n) == id[n] + 1

\* Wrong variant: the own entry stays behind.
NotAnnounced(n) == atomics[n][n]
Announced(n) == SetMeta(n)

\* The next packet is written to the free slot, before may_send() is asked; the
\* own entry of m_atomics is not to hold the minimum down.
Fill(n) ==
  /\ pc[n] = "fill"
  /\ id' = [id EXCEPT ![n] = SetMeta(n)]
  /\ slot' = [slot EXCEPT ![n][free[n]] = SetMeta(n)]
  /\ atomics' = [atomics EXCEPT ![n][n] = Announced(n)]
  /\ pc' = [pc EXCEPT ![n] = "wait"]
  /\ UNCHANGED <<free, posted, landed, intact, scan>>

\* The next element of m_atomics is looked at, in may_send() or wait_for_atomics().
Scan(n) ==
  /\ pc[n] \in {"wait", "atomics"}
  /\ \E s \in Least!Steps(scan[n], atomics[n], Size) : scan' = [scan EXCEPT ![n] = s]
  /\ UNCHANGED <<pc, id, slot, free, posted, landed, intact, atomics>>

Scanned(n) == Least!Complete(scan[n], Size)

\* What the search comes to.
Latest(n) == Least!Found(scan[n], atomics[n])

\* Wrong variant: off by one.
MaySendWider(n, latest) == latest <= id[n] /\ id[n] - latest <= MaxGap + 1

\* The difference is unsigned: a peer that is ahead of the packet, where the
\* own entry was not found, makes it wrap, and the packet has to wait.
MaySend(n, latest) == latest <= id[n] /\ id[n] - latest <= MaxGap

SlotAfter(n) == (free[n] + 1) % Slots

\* send_to_peers(): the put, the fence and the atomic of each peer.  After the
\* last packet m_comm.run() has nothing to wait for: neither the puts nor the
\* atomics were posted with a completion to check.
Post(n) ==
  /\ pc[n] = "wait" /\ Scanned(n)
  /\ \E latest \in Latest(n) : MaySend(n, latest)
  /\ posted' = [posted EXCEPT ![n] = id[n]]
  /\ free' = [free EXCEPT ![n] = SlotAfter(n)]
  /\ pc' = [pc EXCEPT ![n] = IF id[n] < Iters THEN "fill" ELSE "atomics"]
  /\ scan' = [scan EXCEPT ![n] = Least!Start]
  /\ UNCHANGED <<id, slot, landed, intact, atomics>>

Enough(latest) == latest >= Iters

\* wait_for_atomics(): until everything has been announced, or so it was found.
WaitForAtomics(n) ==
  /\ pc[n] = "atomics" /\ Scanned(n)
  /\ \E latest \in Latest(n) : Enough(latest)
  /\ pc' = [pc EXCEPT ![n] = "done"]
  /\ scan' = [scan EXCEPT ![n] = Least!Start]
  /\ UNCHANGED <<id, slot, free, posted, landed, intact, atomics>>

\* Neither: poll() and search again.
Poll(n) ==
  /\ Scanned(n)
  /\ \E latest \in Latest(n) :
       \/ pc[n] = "wait" /\ ~MaySend(n, latest)
       \/ pc[n] = "atomics" /\ ~Enough(latest)
  /\ scan' = [scan EXCEPT ![n] = Least!Start]
  /\ UNCHANGED <<pc, id, slot, free, posted, landed, intact, atomics>>

\* A fence, whichever peer it was meant for, orders what was posted to a peer before
\* it before what is posted to that peer after it.  With a single peer the atomic
\* and the put that follow each other have none between them.
MayOvertake == IF Size = 2 THEN 1 ELSE 0

\* The network: a put of i lands at n, reading the slot as it is now.
PutLands(n, i) ==
  /\ i # n
  /\ landed[n][i] < posted[i]
  /\ landed[n][i] <= atomics[n][i] + MayOvertake
  /\ landed' = [landed EXCEPT ![n][i] = @ + 1]
  /\ intact' = [intact EXCEPT ![n] = @ /\ slot[i][landed[n][i] % Slots] = landed[n][i] + 1]
  /\ UNCHANGED <<pc, id, slot, free, posted, atomics, scan>>

\* Wrong variant: without the fence.
PostedAlone(n, i) == atomics[n][i] < posted[i]
Fenced(n, i) == atomics[n][i] < landed[n][i]

AtomicLands(n, i) ==
  /\ i # n
  /\ Fenced(n, i)
  /\ atomics' = [atomics EXCEPT ![n][i] = @ + 1]
  /\ UNCHANGED <<pc, id, slot, free, posted, landed, intact, scan>>

Run(n) == Fill(n) \/ Scan(n) \/ Post(n) \/ Poll(n) \/ WaitForAtomics(n)

Next == \E n \in Rank : Run(n) \/ \E i \in Rank : PutLands(n, i) \/ AtomicLands(n, i)

Spec == Init /\ [][Next]_vars

\* The loops poll until they may go on; what was posted completes.
Fairness ==
  /\ \A n \in Rank : WF_vars(Run(n))
  /\ \A n, i \in Rank : WF_vars(PutLands(n, i)) /\ WF_vars(AtomicLands(n, i))

FairSpec == Spec /\ Fairness

-----------------------------------------------------------------------------
\* The types of the variables.
TypeOK ==
  /\ pc \in [Rank -> {"fill", "wait", "atomics", "done"}]
  /\ id \in [Rank -> 0..Iters] /\ posted \in [Rank -> 0..Iters]
  /\ slot \in [Rank -> [0..(Slots - 1) -> Nat]]
  /\ free \in [Rank -> 0..(Slots - 1)]
  /\ landed \in [Rank -> [Rank -> 0..Iters]]
  /\ intact \in [Rank -> BOOLEAN]
  /\ atomics \in [Rank -> [Rank -> 0..Iters]]
  /\ scan \in [Rank -> Least!Scans(Size, 0..Iters)]

\* The peers of which n has more than the first k packets.
Ahead(n, k) == {i \in Peers(n) : atomics[n][i] > k}

\* may_send() may look past a peer that is more than the gap behind, but each
\* packet that it lets pass so costs it a peer: one that has announced more.
OvertakingIsPaid ==
  \A n \in Rank : \A j \in Peers(n) :
    posted[n] <= MaxGap + atomics[n][j] + Cardinality(Ahead(n, atomics[n][j]))

\* How far a node gets ahead of what a peer has announced to it.
Width == MaxGap + Size - 2

\* ucx_1side_gap_runner.h:69: "TODO: undertand why 2*max_gap circular buffer is
\* not enough".  The packet that was written last is so far ahead, at most, of
\* the last that has landed at every peer.
LagBounded == \A n \in Rank : \A j \in Peers(n) : id[n] - landed[j][n] <= 2 * Width + 1

\* m_sent is large enough that no packet changes while it is being sent.  Holds
\* from a gap of three, and more than two nodes, on.
PutsIntact == \A n \in Rank : intact[n]

\* The atomic that announces a packet never arrives before it.
AnnouncedIsThere == \A n, i \in Rank : i # n => atomics[n][i] <= landed[n][i]

\* ucx_1side_gap_runner.h:10: "delays sending i'th packet until (i-gap)'th is
\* received".  Does not hold: see OvertakingIsPaid.
DelaysUntilGap == \A n \in Rank : \A i \in Peers(n) : posted[n] - atomics[n][i] <= MaxGap

\* ucx_1side_gap_runner.h:162: "must wait for the active side to complete!"  A
\* node that is done, and frees its memory, is not written to any more.  Does
\* not hold: wait_for_atomics() may look past a peer like may_send().
DoneIsQuiet ==
  \A n \in Rank : pc[n] = "done" =>
    \A i \in Peers(n) : landed[n][i] = Iters /\ atomics[n][i] = Iters

\* Nobody waits for nobody: when nothing is under way and not all are done, some
\* node finds, with the search it has yet to make, that it may go on.
NeverStuck ==
  (\A n \in Rank : \A i \in Peers(n) : atomics[n][i] = posted[i]) =>
    \/ \A n \in Rank : pc[n] = "done"
    \/ \E n \in Rank : pc[n] = "fill"
    \/ \E n, i \in Rank :
         /\ \A j \in Rank : atomics[n][i] <= atomics[n][j]
         /\ \/ pc[n] = "wait" /\ MaySend(n, atomics[n][i])
            \/ pc[n] = "atomics" /\ Enough(atomics[n][i])

\* Every node is done in the end.
AllDone == <>(\A n \in Rank : pc[n] = "done")

\* The runner is a gap runner, with a window that grows with the world.
Heard == [n \in Rank |-> [i \in Rank |-> IF i = n THEN 0 ELSE atomics[n][i]]]
Gap == INSTANCE GapWindow WITH Node <- Rank, Window <- Width, sent <- posted, received <- Heard
RefinesGapWindow == Gap!Spec

\* So that no node runs more than the window ahead of another, though no node is
\* ever told how far another has got.
SkewBounded == Gap!SkewBounded

-----------------------------------------------------------------------------
\* Where the node is, and how far its packets have got.
ProgressInv ==
  \A n \in Rank :
    /\ id[n] = IF pc[n] = "wait" THEN posted[n] + 1 ELSE posted[n]
    /\ IF pc[n] \in {"fill", "wait"} THEN posted[n] < Iters ELSE posted[n] = Iters
    /\ pc[n] = "fill" => scan[n] = Least!Start

LinkInv ==
  \A n \in Rank :
    /\ atomics[n][n] = id[n]
    /\ \A i \in Peers(n) : atomics[n][i] <= landed[n][i] /\ landed[n][i] <= posted[i]

\* m_sent holds the packets that were written last.
SlotInv ==
  \A n \in Rank :
    /\ free[n] = posted[n] % Slots
    /\ \A k \in 0..Iters :
         k < id[n] /\ id[n] - k <= Slots => slot[n][k % Slots] = k + 1

\* A packet is within the gap of what a peer has announced, the peers that have
\* announced more on top of it.
Within(n, packet, k) == packet <= MaxGap + k + Cardinality(Ahead(n, k))

\* So is what was posted ...
PostedPaid(n, k) == \A j \in Peers(n) : atomics[n][j] <= k => Within(n, posted[n], k)

\* ... and what will be: a scan that has passed a peer that has announced no more
\* than k has found no more than k, unless a peer got beyond k meanwhile, which
\* pays for the packet.
FoundPaid(n, k) ==
  pc[n] = "wait" /\ scan[n].next > 0 =>
    \/ Within(n, posted[n] + 1, k)
    \/ /\ \A j \in 0..(scan[n].next - 1) : atomics[n][j] <= k => scan[n].seen <= k
       /\ scan[n].seen <= k => atomics[n][scan[n].least] <= k

PaidInv == \A n \in Rank, k \in 0..Iters : PostedPaid(n, k) /\ FoundPaid(n, k)

\* Inductive; implies OvertakingIsPaid and LagBounded.
IInv == TypeOK /\ ProgressInv /\ LinkInv /\ SlotInv /\ PaidInv
=============================================================================
