---------------------------- MODULE ShmemGapRunner ----------------------------
(***************************************************************************)
(* all_to_all_gap_runner_shmem: all to all over OpenSHMEM.  A node puts    *)
(* its packet into the memory of its peers, and after a fence the id of    *)
(* the packet.  After each turn of its loop, whether it sent or not, it    *)
(* waits until every peer has got one further.                             *)
(*                                                                         *)
(* wait_until() looks for the least id in memory that its peers write to   *)
(* meanwhile ("TODO: is it legitimate race?"), and may return too early    *)
(* for it.  What keeps the nodes together all the same is that a packet    *)
(* lies in symmetric memory (data.h): all nodes allocate it and free it    *)
(* together.                                                               *)
(*                                                                         *)
(* Nobody reads the data: only the ids are modelled.  Bound: the routing   *)
(* table, which is complete, lists no node twice.                          *)
(***************************************************************************)
EXTENDS Integers, FiniteSets

CONSTANTS Size,     \* shmem_n_pes()
          MaxGap,   \* m_max_gap
          Iters     \* m_iters_to_run

\* A lone node would wait for its own entry to grow.
ASSUME ShmemAssumption == Size \in Nat \ {0, 1} /\ MaxGap \in Nat /\ Iters \in Nat

VARIABLES
  at,       \* the loop: "alloc" the packet, the "top" of the loop that sends it,
            \* "free" it; wait_until(): "scan" the ids, "wait" for the peers, scan
            \* them "again"; "done"
  made,     \* m_id of the generator: the id of the packet
  sent,     \* the id of the packet that was sent last
  ids,      \* m_received_ids
  latest,   \* m_latest_complete
  target,   \* id, the argument of wait_until()
  ending,   \* the wait_until() after the loop
  scan      \* its search for the least id

shmemVars == <<at, made, sent, ids, latest, target, ending, scan>>

Least == INSTANCE LeastScan

Rank == 0..(Size - 1)
Peers(n) == Rank \ {n}

\* What a node has in its own entry: the limit of an int.
Limit == Iters + 2

ShmemInit ==
  /\ at = [n \in Rank |-> IF Iters = 0 THEN "scan" ELSE "alloc"]
  /\ made = [n \in Rank |-> IF Iters = 0 THEN 0 ELSE 1]
  /\ sent = [n \in Rank |-> 0]
  /\ ids = [n \in Rank |-> [i \in Rank |-> IF i = n THEN Limit ELSE 0]]
  /\ latest = [n \in Rank |-> 0]
  /\ target = [n \in Rank |-> 0]
  /\ ending = [n \in Rank |-> Iters = 0]
  /\ scan = [n \in Rank |-> Least!Start]

\* shmem_malloc() ends, and shmem_free() starts, with a barrier of all nodes: how
\* many of them a node has come to.
Barriers(n) == IF at[n] = "free" \/ ending[n] THEN 2 * made[n] ELSE 2 * made[n] - 1

\* Wrong variants: the memory is not symmetric, or what was put may be under way.
Unordered(i) == TRUE
Alone(n) == TRUE

\* What a node has put lands before it has come to a barrier.
Quiet(i) == \A j \in Peers(i) : ids[j][i] = sent[i]

Gathered(n) ==
  \A i \in Rank : Barriers(i) >= Barriers(n) /\ (Barriers(i) = Barriers(n) => Quiet(i))

\* generator(): a packet with the next id, in memory that all nodes have allocated.
Allocated(n) ==
  /\ at[n] = "alloc" /\ Gathered(n)
  /\ at' = [at EXCEPT ![n] = "top"]
  /\ UNCHANGED <<made, sent, ids, latest, target, ending, scan>>

MaySend(n) == made[n] - latest[n] <= MaxGap + 1

\* Wrong variant: two further.
TargetPast(n) == latest[n] + 2
NextTarget(n) == latest[n] + 1

\* One turn of the loop: send, if it may, and call wait_until().
Turn(n) ==
  /\ at[n] = "top"
  /\ sent' = IF MaySend(n) THEN [sent EXCEPT ![n] = made[n]] ELSE sent
  /\ target' = [target EXCEPT ![n] = NextTarget(n)]
  /\ at' = [at EXCEPT ![n] = "scan"]
  /\ UNCHANGED <<made, ids, latest, ending, scan>>

\* shmem_int_p(): an id lands; the fences keep those of a node in order.
Land(n, i) ==
  /\ i # n
  /\ ids[n][i] < sent[i]
  /\ ids' = [ids EXCEPT ![n][i] = @ + 1]
  /\ UNCHANGED <<at, made, sent, latest, target, ending, scan>>

\* std::min_element: one element.
Scan(n) ==
  /\ at[n] \in {"scan", "again"}
  /\ \E s \in Least!Steps(scan[n], ids[n], Size) : scan' = [scan EXCEPT ![n] = s]
  /\ UNCHANGED <<at, made, sent, ids, latest, target, ending>>

Scanned(n) == Least!Complete(scan[n], Size)
Found(n) == Least!Found(scan[n], ids[n])

\* wait_until() returns with what the scan found: the packet was sent, and is to be
\* freed, or it was not; or it was the last of all calls.
Return(n, found) ==
  /\ latest' = [latest EXCEPT ![n] = found]
  /\ at' = [at EXCEPT ![n] = IF ending[n] THEN "done"
                             ELSE IF sent[n] = made[n] THEN "free" ELSE "top"]
  /\ scan' = [scan EXCEPT ![n] = Least!Start]
  /\ UNCHANGED <<made, sent, ids, target, ending>>

\* The first scan: everyone is there ...
Enough(n) ==
  /\ at[n] = "scan" /\ Scanned(n)
  /\ \E found \in Found(n) : found >= target[n] /\ Return(n, found)

\* ... or not: shmem_int_wait_until() for each peer in turn.
NotEnough(n) ==
  /\ at[n] = "scan" /\ Scanned(n)
  /\ \E found \in Found(n) : found < target[n]
  /\ at' = [at EXCEPT ![n] = "wait"]
  /\ scan' = [scan EXCEPT ![n] = Least!Start]
  /\ UNCHANGED <<made, sent, ids, latest, target, ending>>

Waited(n) == \A i \in Peers(n) : ids[n][i] >= target[n]

\* Ids only grow, so that the waits end once all of them are large enough.
WaitUntil(n) ==
  /\ at[n] = "wait"
  /\ Waited(n)
  /\ at' = [at EXCEPT ![n] = "again"]
  /\ UNCHANGED <<made, sent, ids, latest, target, ending, scan>>

\* The second scan.
Again(n) ==
  /\ at[n] = "again" /\ Scanned(n)
  /\ \E found \in Found(n) : Return(n, found)

MoreToSend(n) == made[n] < Iters

\* The packet is gone.  The next one, or wait_until(last_id) and the end.
Freed(n) ==
  /\ at[n] = "free" /\ Gathered(n)
  /\ IF MoreToSend(n)
     THEN /\ made' = [made EXCEPT ![n] = @ + 1]
          /\ at' = [at EXCEPT ![n] = "alloc"]
          /\ UNCHANGED <<target, ending>>
     ELSE /\ target' = [target EXCEPT ![n] = made[n]]
          /\ ending' = [ending EXCEPT ![n] = TRUE]
          /\ at' = [at EXCEPT ![n] = "scan"]
          /\ UNCHANGED made
  /\ UNCHANGED <<sent, ids, latest, scan>>

Run(n) ==
  \/ Allocated(n) \/ Turn(n) \/ Freed(n)
  \/ Scan(n) \/ Enough(n) \/ NotEnough(n) \/ WaitUntil(n) \/ Again(n)

ShmemNext == \E n \in Rank : Run(n) \/ \E i \in Rank : Land(n, i)

ShmemSpec == ShmemInit /\ [][ShmemNext]_shmemVars

\* Each process runs, and what was put lands.
ShmemFairness == \A n \in Rank : WF_shmemVars(Run(n)) /\ \A i \in Rank : WF_shmemVars(Land(n, i))

ShmemFairSpec == ShmemSpec /\ ShmemFairness

-----------------------------------------------------------------------------
\* all_to_all_gap_runner_shmem.h:83: wait_until() "waits until everyone one
\* sent at least id".  Does not hold: a peer may overtake the scan that has found
\* it, and another one is not looked at again.
WaitedFor ==
  \A n \in Rank : at[n] \in {"free", "done"} => \A i \in Peers(n) : ids[n][i] >= target[n]

\* all_to_all_gap_runner_shmem.h:120: "ensure that we receive every send from
\* every peer".  Though wait_until() does not, a node that goes on to the next
\* packet, or to the wait_until() of line 121, has received all that came before.
EverySendReceived ==
  \A n \in Rank : \A i \in Peers(n) :
    ids[n][i] >= IF ending[n] THEN Iters ELSE made[n] - 1

\* Every node comes to the end: none waits, at line 117, for a packet after the
\* last, as it would if its peers could get ahead of it.
AllDone == <>(\A n \in Rank : at[n] = "done")

\* The nodes run in step, whatever the gap: none sends a packet before it has
\* received the one before of every peer.
Received == [n \in Rank |-> [i \in Rank |-> IF i = n THEN 0 ELSE ids[n][i]]]
Gap == INSTANCE GapWindow WITH Node <- Rank, Window <- 1, received <- Received
InStep == Gap!Spec

-----------------------------------------------------------------------------
(* What is inductive, and implies EverySendReceived and InStep.            *)

ShmemTypeOK ==
  /\ at \in [Rank -> {"alloc", "top", "scan", "wait", "again", "free", "done"}]
  /\ made \in [Rank -> 0..Iters] /\ sent \in [Rank -> 0..Iters]
  /\ ids \in [Rank -> [Rank -> Nat]]
  /\ latest \in [Rank -> Nat] /\ target \in [Rank -> Nat]
  /\ ending \in [Rank -> BOOLEAN]
  /\ scan \in [Rank -> Least!Scans(Size, Nat)]

\* A node sends its packet in the first turn, and wait_until() finds just that
\* one of every peer.
LoopInv ==
  \A n \in Rank :
    /\ at[n] = "done" => ending[n]
    /\ ending[n] => at[n] \in {"scan", "wait", "again", "done"} /\ made[n] = Iters
    /\ ~ending[n] => made[n] > 0
    /\ sent[n] = IF at[n] \in {"alloc", "top"} THEN made[n] - 1 ELSE made[n]
    /\ ~ending[n] => latest[n] = IF at[n] = "free" THEN made[n] ELSE made[n] - 1
    /\ at[n] \in {"scan", "wait", "again"} => target[n] = made[n]
    /\ at[n] \notin {"scan", "again"} => scan[n] = Least!Start

\* The barriers that a node has got past, and the packets that were sent before.
Passed(n) ==
  IF ending[n] THEN 2 * made[n] ELSE IF at[n] = "alloc" THEN 2 * made[n] - 2 ELSE 2 * made[n] - 1
Rounds(n) == IF ending[n] THEN made[n] ELSE made[n] - 1

\* Nobody gets past a barrier that another has not come to, nor before everything
\* has landed that was sent before it.
BarrierInv ==
  /\ \A n, i \in Rank : Passed(n) <= Barriers(i)
  /\ \A n, i, m \in Rank : i # n => Rounds(m) <= ids[n][i]

\* A node has of its peers what they sent, and in its own entry what is never
\* the least.
LinkInv ==
  \A n \in Rank : ids[n][n] = Limit /\ \A i \in Peers(n) : ids[n][i] <= sent[i]

\* A scan finds a peer as soon as it has looked at one, and no more than has
\* arrived; the second scan finds what was waited for.
ScanInv ==
  \A n \in Rank : scan[n].next > 0 =>
    /\ IF scan[n].least = n THEN n = 0 /\ scan[n].next = 1 /\ scan[n].seen = Limit
       ELSE scan[n].seen <= ids[n][scan[n].least]
    /\ at[n] = "again" => scan[n].seen >= target[n]

\* The second scan comes after the waits.
AgainInv == \A n \in Rank : at[n] = "again" => Waited(n)

ShmemInv == ShmemTypeOK /\ LoopInv /\ BarrierInv /\ LinkInv /\ ScanInv /\ AgainInv
=============================================================================
