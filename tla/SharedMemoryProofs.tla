-------------------------- MODULE SharedMemoryProofs --------------------------
(***************************************************************************)
(* The theorems about the three components whose actors meet in memory     *)
(* that they share: SQueue, the queue of the threads of a node, for any    *)
(* threads and any number of items; ShmemGapRunner, whose nodes write to   *)
(* the array that a peer scans, for any number of nodes and packets; and   *)
(* SyncChannel, the counters and the flag that a worker thread and the     *)
(* handlers of its node share, for any number of nodes, rounds and         *)
(* messages.                                                               *)
(***************************************************************************)
EXTENDS SQueue, ShmemGapRunner, SyncChannel, TLAPS, FiniteSetTheorems

-----------------------------------------------------------------------------
(* The queue.                                                              *)

\* Threads are counted.
LEMMA Threads ==
  ASSUME NEW S, S \subseteq Waiter \/ S \subseteq Pusher
  PROVE  IsFiniteSet(S) /\ Cardinality(S) \in Nat
<1>1. IsFiniteSet(Waiter) /\ IsFiniteSet(Pusher)
  BY SQueueAssumption, FS_Union DEF Waiter
<1>. QED BY <1>1, FS_Subset, FS_CardinalityType

LEMMA Counted ==
  /\ IsFiniteSet(Woken) /\ IsFiniteSet(Notifying) /\ IsFiniteSet(Woken') /\ IsFiniteSet(Notifying')
  /\ Cardinality(Woken) \in Nat /\ Cardinality(Notifying) \in Nat
  /\ Cardinality(Woken') \in Nat /\ Cardinality(Notifying') \in Nat
<1>1. /\ Woken \subseteq Waiter /\ Notifying \subseteq Pusher
      /\ Woken' \subseteq Waiter /\ Notifying' \subseteq Pusher
  BY DEF Woken, Notifying
<1>. QED BY <1>1, Threads

LEMMA InitInv == QueueInit => QueueInv
<1>. SUFFICES ASSUME QueueInit PROVE QueueInv
  OBVIOUS
<1>1. QueueTypeOK
  <2>1. 0 \in 0..Items
    BY SQueueAssumption
  <2>2. pushed \in 0..Items /\ queue \in 0..Items /\ queue <= pushed /\ popped \in [Popper -> 0..Items]
    BY <2>1 DEF QueueInit
  <2>3. eof \in BOOLEAN /\ marking \in {"call", "notify", "done"}
    BY DEF QueueInit
  <2>4. /\ pushing \in [Pusher -> {"call", "notify", "threw"}]
        /\ taking \in [Waiter -> {"call", "waiting", "woken", "threw", "none"}]
    BY DEF QueueInit
  <2>. QED BY <2>2, <2>3, <2>4 DEF QueueTypeOK
<1>2. DifferentElements
  <2>1. \A c \in Popper : popped[c] = 0 /\ taking[c] = "call"
    BY DEF QueueInit, Waiter
  <2>2. pushed = 0 /\ queue = 0
    BY DEF QueueInit
  <2>. QED BY <2>1, <2>2 DEF DifferentElements, Front, AtEnd
<1>3. NoLostWakeup
  BY DEF QueueInit, NoLostWakeup, Waiting
<1>. QED BY <1>1, <1>2, <1>3 DEF QueueInv

-----------------------------------------------------------------------------
(* The threads that push.                                                  *)

\* An item comes with a notification ...
LEMMA PushInv == ASSUME QueueInv, NEW p \in Pusher, PushItem(p) PROVE QueueInv'
<1>1. /\ pushing[p] = "call" /\ eof' = eof /\ marking' = marking /\ taking' = taking /\ popped' = popped
      /\ \/ /\ pushing' = [pushing EXCEPT ![p] = "threw"] /\ pushed' = pushed /\ queue' = queue
         \/ /\ pushed < Items /\ pushed' = pushed + 1 /\ queue' = queue + 1
            /\ pushing' = [pushing EXCEPT ![p] = "notify"]
  BY DEF PushItem
<1>2. /\ pushed \in 0..Items /\ queue \in 0..Items /\ Items \in Nat /\ queue <= pushed
      /\ popped \in [Popper -> 0..Items]
  BY SQueueAssumption DEF QueueInv, QueueTypeOK
<1>3. QueueTypeOK'
  <2>1. pushed' \in 0..Items /\ queue' \in 0..Items /\ queue' <= pushed'
    BY <1>1, <1>2
  <2>. QED BY <1>1, <2>1 DEF QueueInv, QueueTypeOK
<1>4. DifferentElements'
  <2>1. Front' = Front /\ pushed <= pushed' /\ pushed' \in Nat
    BY <1>1, <1>2 DEF Front
  <2>2. \A c \in Popper : popped[c] \in Nat
    BY <1>2
  <2>. QED BY <1>1, <1>2, <2>1, <2>2 DEF QueueInv, DifferentElements, AtEnd
<1>5. NoLostWakeup'
  <2>1. Waiting' = Waiting /\ Woken' = Woken
    BY <1>1 DEF Waiting, Woken
  <2>2. p \notin Notifying
    BY <1>1 DEF Notifying
  <2>3. CASE queue' = queue /\ pushing' = [pushing EXCEPT ![p] = "threw"]
    <3>1. Notifying' = Notifying
      BY <1>1, <2>3 DEF QueueInv, QueueTypeOK, Notifying
    <3>. QED BY <2>1, <2>3, <3>1 DEF QueueInv, NoLostWakeup
  <2>4. CASE queue' = queue + 1 /\ pushing' = [pushing EXCEPT ![p] = "notify"]
    <3>1. Notifying' = Notifying \cup {p}
      BY <2>4 DEF QueueInv, QueueTypeOK, Notifying
    <3>2. Cardinality(Notifying') = Cardinality(Notifying) + 1
      BY <2>2, <3>1, Counted, FS_AddElement
    <3>. QED BY <1>2, <2>1, <2>4, <3>2, Counted DEF QueueInv, NoLostWakeup
  <2>. QED BY <1>1, <2>3, <2>4
<1>. QED BY <1>3, <1>4, <1>5 DEF QueueInv

\* ... which wakes a thread, if there is one ...
LEMMA PushedInv == ASSUME QueueInv, NEW p \in Pusher, Pushed(p) PROVE QueueInv'
<1>1. /\ pushing[p] = "notify" /\ pushing' = [pushing EXCEPT ![p] = "call"]
      /\ pushed' = pushed /\ queue' = queue /\ eof' = eof /\ marking' = marking /\ popped' = popped
      /\ \/ Waiting = {} /\ taking' = taking
         \/ \E c \in Waiting : taking' = [taking EXCEPT ![c] = "woken"]
  BY DEF Pushed, NotifyPushed, NotifyOne
<1>2. QueueTypeOK'
  BY <1>1 DEF QueueInv, QueueTypeOK, Waiting
<1>3. DifferentElements'
  <2>1. \A c \in Popper : taking'[c] = "threw" => taking[c] = "threw"
    BY <1>1 DEF QueueInv, QueueTypeOK, Waiting, Waiter
  <2>. QED BY <1>1, <2>1 DEF QueueInv, DifferentElements, Front, AtEnd
<1>4. NoLostWakeup'
  <2>1. CASE Waiting = {} /\ taking' = taking
    BY <2>1 DEF NoLostWakeup, Waiting
  <2>2. ASSUME NEW c \in Waiting, taking' = [taking EXCEPT ![c] = "woken"]
        PROVE  NoLostWakeup'
    <3>1. c \in Waiter /\ taking[c] = "waiting" /\ c \notin Woken
      BY DEF Waiting, Woken
    <3>2. Woken' = Woken \cup {c}
      BY <2>2, <3>1 DEF QueueInv, QueueTypeOK, Woken
    <3>3. Cardinality(Woken') = Cardinality(Woken) + 1
      BY <3>1, <3>2, Counted, FS_AddElement
    <3>4. Notifying' = Notifying \ {p} /\ p \in Notifying
      BY <1>1 DEF QueueInv, QueueTypeOK, Notifying
    <3>5. Cardinality(Notifying') = Cardinality(Notifying) - 1
      BY <3>4, Counted, FS_RemoveElement
    <3>6. queue <= Cardinality(Woken) + Cardinality(Notifying)
      BY DEF QueueInv, NoLostWakeup
    <3>. QED BY <1>1, <3>3, <3>5, <3>6, Counted DEF NoLostWakeup
  <2>. QED BY <1>1, <2>1, <2>2
<1>. QED BY <1>2, <1>3, <1>4 DEF QueueInv

\* ... as EOF does all of them.
LEMMA MarkInv == ASSUME QueueInv, MarkQueueEof \/ Marked PROVE QueueInv'
<1>1. /\ pushed' = pushed /\ queue' = queue /\ pushing' = pushing /\ popped' = popped
      /\ marking' \in {"notify", "done"} /\ eof' \in BOOLEAN
      /\ taking' = taking \/ taking' = [c \in Waiter |-> IF c \in Waiting THEN "woken" ELSE taking[c]]
  BY DEF MarkQueueEof, Marked, NotifyEof, NotifyAll, QueueInv, QueueTypeOK
<1>2. QueueTypeOK'
  BY <1>1 DEF QueueInv, QueueTypeOK, Waiting
<1>3. DifferentElements'
  <2>1. \A c \in Popper : taking'[c] = "threw" => taking[c] = "threw"
    BY <1>1 DEF QueueInv, QueueTypeOK, Waiting, Waiter
  <2>. QED BY <1>1, <2>1 DEF QueueInv, DifferentElements, Front, AtEnd
<1>4. NoLostWakeup'
  <2>1. CASE taking' = taking
    BY <1>1, <2>1 DEF QueueInv, NoLostWakeup, Waiting, Woken, Notifying
  <2>2. CASE taking' = [c \in Waiter |-> IF c \in Waiting THEN "woken" ELSE taking[c]]
    BY <2>2 DEF NoLostWakeup, Waiting
  <2>. QED BY <1>1, <2>1, <2>2
<1>. QED BY <1>2, <1>3, <1>4 DEF QueueInv

-----------------------------------------------------------------------------
(* The threads that pop.                                                   *)

\* An item is taken by one thread, at most one woken for it ...
LEMMA FrontTaken ==
  ASSUME QueueInv, queue > 0, queue' = queue - 1, pushed' = pushed, pushing' = pushing,
         eof' = eof, marking' = marking
  PROVE  /\ pushed' \in 0..Items /\ queue' \in 0..Items /\ queue' <= pushed'
         /\ Front \in 1..pushed /\ Front' = Front + 1 /\ Notifying' = Notifying
         /\ queue \in Nat /\ pushed \in Nat
<1>1. pushed \in 0..Items /\ queue \in 0..Items /\ Items \in Nat /\ queue <= pushed
  BY SQueueAssumption DEF QueueInv, QueueTypeOK
<1>. QED BY <1>1 DEF Front, Notifying

LEMMA TakeInv == ASSUME QueueInv, NEW c \in Waiter, Take(c) PROVE QueueInv'
<1>1. /\ taking[c] \in {"call", "woken"}
      /\ pushed' = pushed /\ eof' = eof /\ pushing' = pushing /\ marking' = marking
      /\ \/ /\ queue > 0 /\ queue' = queue - 1 /\ taking' = [taking EXCEPT ![c] = "call"]
            /\ popped' = IF c \in Popper THEN [popped EXCEPT ![c] = Front] ELSE popped
         \/ /\ queue = 0 /\ c \in Popper /\ taking' = [taking EXCEPT ![c] = "threw"]
            /\ popped' = [popped EXCEPT ![c] = 0] /\ queue' = queue
         \/ /\ queue = 0 /\ taking' = [taking EXCEPT ![c] = "waiting"]
            /\ queue' = queue /\ popped' = popped
  BY DEF Take, MayPop, Popped, Increment, Throws
<1>2. CASE /\ queue > 0 /\ queue' = queue - 1 /\ taking' = [taking EXCEPT ![c] = "call"]
           /\ popped' = IF c \in Popper THEN [popped EXCEPT ![c] = Front] ELSE popped
  <2>1. /\ pushed' \in 0..Items /\ queue' \in 0..Items /\ queue' <= pushed'
        /\ Front \in 1..pushed /\ Front' = Front + 1 /\ Notifying' = Notifying
        /\ queue \in Nat /\ pushed \in Nat
    BY <1>1, <1>2, FrontTaken
  <2>2. Front \in 0..Items
    BY <1>1, <2>1, SQueueAssumption
  <2>3. QueueTypeOK'
    BY <1>1, <1>2, <2>1, <2>2 DEF QueueInv, QueueTypeOK
  <2>4. DifferentElements'
    <3>1. \A d \in Popper : /\ popped'[d] = popped[d] \/ (d = c /\ popped'[d] = Front)
                            /\ popped[d] \in Nat /\ popped[d] < Front /\ popped[d] <= pushed
                            /\ d # c => popped'[d] = popped[d]
      BY <1>2, SQueueAssumption DEF QueueInv, QueueTypeOK, DifferentElements
    <3>2. \A d \in Popper : popped'[d] < Front' /\ popped'[d] <= pushed'
      BY <1>1, <2>1, <3>1
    <3>3. ASSUME NEW d \in Popper, NEW e \in Popper \ {d}, popped'[d] # 0
          PROVE  popped'[d] # popped'[e]
      BY <2>1, <3>1, <3>3 DEF QueueInv, DifferentElements, AtEnd
    <3>4. ASSUME NEW d \in Popper, taking'[d] = "threw" PROVE popped'[d] = 0
      BY <1>2, <3>1, <3>4 DEF QueueInv, QueueTypeOK, DifferentElements, AtEnd, Waiter
    <3>. QED BY <3>2, <3>3, <3>4 DEF DifferentElements, AtEnd
  <2>5. NoLostWakeup'
    <3>1. Waiting' = Waiting
      BY <1>1, <1>2 DEF QueueInv, QueueTypeOK, Waiting
    <3>2. Woken' = Woken \ {c}
      BY <1>2 DEF QueueInv, QueueTypeOK, Woken
    <3>3. Cardinality(Woken') >= Cardinality(Woken) - 1
      BY <3>2, Counted, FS_RemoveElement
    <3>. QED BY <1>2, <2>1, <3>1, <3>3, Counted DEF QueueInv, NoLostWakeup
  <2>. QED BY <2>3, <2>4, <2>5 DEF QueueInv
<1>3. CASE /\ queue = 0 /\ c \in Popper /\ taking' = [taking EXCEPT ![c] = "threw"]
           /\ popped' = [popped EXCEPT ![c] = 0] /\ queue' = queue
  <2>1. QueueTypeOK'
    BY <1>1, <1>3, SQueueAssumption DEF QueueInv, QueueTypeOK
  <2>2. DifferentElements'
    <3>1. \A d \in Popper : /\ popped'[d] = IF d = c THEN 0 ELSE popped[d]
                            /\ taking'[d] = IF d = c THEN "threw" ELSE taking[d]
                            /\ popped[d] \in Nat
      BY <1>3, SQueueAssumption DEF QueueInv, QueueTypeOK, Waiter
    <3>2. Front' = Front /\ Front \in Nat /\ 0 < Front /\ pushed \in Nat
      BY <1>1, <1>3, SQueueAssumption DEF QueueInv, QueueTypeOK, Front
    <3>. QED BY <1>1, <3>1, <3>2 DEF QueueInv, DifferentElements, AtEnd
  <2>3. NoLostWakeup'
    BY <1>3, Counted DEF NoLostWakeup
  <2>. QED BY <2>1, <2>2, <2>3 DEF QueueInv
<1>4. CASE /\ queue = 0 /\ taking' = [taking EXCEPT ![c] = "waiting"]
           /\ queue' = queue /\ popped' = popped
  <2>1. QueueTypeOK'
    BY <1>1, <1>4 DEF QueueInv, QueueTypeOK
  <2>2. DifferentElements'
    <3>1. \A d \in Popper : taking'[d] = "threw" => taking[d] = "threw"
      BY <1>4 DEF QueueInv, QueueTypeOK, Waiter
    <3>. QED BY <1>1, <1>4, <3>1 DEF QueueInv, DifferentElements, Front, AtEnd
  <2>3. NoLostWakeup'
    BY <1>4, Counted DEF NoLostWakeup
  <2>. QED BY <2>1, <2>2, <2>3 DEF QueueInv
<1>. QED BY <1>1, <1>2, <1>3, <1>4

LEMMA TryPopInv == ASSUME QueueInv, TryPop PROVE QueueInv'
<1>1. /\ queue > 0 /\ queue' = queue - 1 /\ pushed' = pushed /\ pushing' = pushing
      /\ eof' = eof /\ marking' = marking /\ taking' = taking /\ popped' = popped
  BY DEF TryPop, Popped
<1>2. /\ pushed' \in 0..Items /\ queue' \in 0..Items /\ queue' <= pushed'
      /\ Front \in 1..pushed /\ Front' = Front + 1 /\ Notifying' = Notifying
      /\ queue \in Nat /\ pushed \in Nat
  BY <1>1, FrontTaken
<1>3. QueueTypeOK'
  BY <1>1, <1>2 DEF QueueInv, QueueTypeOK
<1>4. DifferentElements'
  <2>1. \A d \in Popper : popped[d] \in Nat
    BY SQueueAssumption DEF QueueInv, QueueTypeOK
  <2>. QED BY <1>1, <1>2, <2>1 DEF QueueInv, DifferentElements, AtEnd
<1>5. NoLostWakeup'
  <2>1. Waiting' = Waiting /\ Woken' = Woken
    BY <1>1 DEF Waiting, Woken
  <2>. QED BY <1>1, <1>2, <2>1, Counted DEF QueueInv, NoLostWakeup
<1>. QED BY <1>3, <1>4, <1>5 DEF QueueInv

\* ... and one that wakes up for no reason, or whose time has passed, is counted
\* as if it had been.
LEMMA WakeInv == ASSUME QueueInv, NEW c \in Waiter, Spurious(c) \/ TimeOut(c) PROVE QueueInv'
<1>1. /\ pushed' = pushed /\ queue' = queue /\ eof' = eof /\ pushing' = pushing
      /\ marking' = marking /\ popped' = popped /\ taking[c] \in {"waiting", "woken"}
      /\ \E to \in {"woken", "none"} : taking' = [taking EXCEPT ![c] = to]
  BY DEF Spurious, TimeOut
<1>2. QueueTypeOK'
  BY <1>1 DEF QueueInv, QueueTypeOK
<1>3. DifferentElements'
  <2>1. \A d \in Popper : taking'[d] = "threw" => taking[d] = "threw"
    BY <1>1 DEF QueueInv, QueueTypeOK, Waiter
  <2>. QED BY <1>1, <2>1 DEF QueueInv, DifferentElements, Front, AtEnd
<1>4. NoLostWakeup'
  <2>1. Waiting' # {} => Waiting # {}
    BY <1>1 DEF QueueInv, QueueTypeOK, Waiting
  <2>2. Woken \in SUBSET Woken' /\ Notifying' = Notifying
    BY <1>1 DEF QueueInv, QueueTypeOK, Woken, Notifying
  <2>3. Cardinality(Woken) <= Cardinality(Woken')
    BY <2>2, Counted, FS_Subset
  <2>4. queue \in Nat
    BY SQueueAssumption DEF QueueInv, QueueTypeOK
  <2>. QED BY <1>1, <2>1, <2>2, <2>3, <2>4, Counted DEF QueueInv, NoLostWakeup
<1>. QED BY <1>2, <1>3, <1>4 DEF QueueInv

-----------------------------------------------------------------------------
LEMMA NextInv == ASSUME QueueInv, [QueueNext]_queueVars PROVE QueueInv'
<1>1. CASE UNCHANGED queueVars
  BY <1>1 DEF queueVars, QueueInv, QueueTypeOK, DifferentElements, NoLostWakeup, Front, AtEnd, Waiting,
              Woken, Notifying
<1>2. CASE QueueNext
  BY <1>2, PushInv, PushedInv, MarkInv, TakeInv, TryPopInv, WakeInv DEF QueueNext
<1>. QED BY <1>1, <1>2

\* Who may take an item, who sleeps and whose notification is under way fit together
\* in every state, for any threads and items.
THEOREM QueueInvariance == QueueSpec => []QueueInv
<1>. QED BY InitInv, NextInv, PTL DEF QueueSpec

\* squeue_popper.h:11: no two iterators hold the same element.
THEOREM ElementsDiffer == QueueSpec => []DifferentElements
<1>1. QueueInv => DifferentElements
  BY DEF QueueInv
<1>. QED BY QueueInvariance, <1>1, PTL

\* squeue.h:52: no thread sleeps on an item, although push() notifies after it has
\* let go of the mutex, and a thread may wake up, or its time pass, for no reason.
THEOREM NoWakeupIsLost == QueueSpec => []NoLostWakeup
<1>1. QueueInv => NoLostWakeup
  BY DEF QueueInv
<1>. QED BY QueueInvariance, <1>1, PTL

-----------------------------------------------------------------------------
(* The runner over OpenSHMEM.                                               *)

\* The entries a node has, and one peer at least.
LEMMA ShmemNodes ==
  ASSUME NEW n \in Rank
  PROVE  /\ n \in 0..(Size - 1) /\ 0 \in Rank /\ \E i \in Rank : i \in Peers(n)
         /\ \A i \in Peers(n) : i \in Rank /\ i # n
         /\ \A i \in Rank : i # n => i \in Peers(n)
<1>1. 0 \in 0..(Size - 1) /\ 1 \in 0..(Size - 1)
  BY ShmemAssumption
<1>2. CASE n = 0
  BY <1>1, <1>2 DEF Rank, Peers
<1>3. CASE n # 0
  BY <1>1, <1>3 DEF Rank, Peers
<1>. QED BY <1>2, <1>3

\* The variables of a node.
LEMMA ShmemTypes ==
  ASSUME ShmemTypeOK, NEW n \in Rank
  PROVE  /\ made[n] \in Nat /\ made[n] <= Iters /\ sent[n] \in Nat /\ sent[n] <= Iters
         /\ latest[n] \in Nat /\ target[n] \in Nat
         /\ scan[n] = [next |-> scan[n].next, least |-> scan[n].least, seen |-> scan[n].seen]
         /\ scan[n].next \in Nat /\ scan[n].next <= Size
         /\ scan[n].least \in Rank /\ scan[n].seen \in Nat
         /\ \A i \in Rank : ids[n][i] \in Nat
         /\ at[n] \in {"alloc", "top", "scan", "wait", "again", "free", "done"}
         /\ ending[n] \in BOOLEAN
         /\ Iters \in Nat /\ Size \in Nat /\ Size > 1 /\ MaxGap \in Nat
         /\ Limit = Iters + 2
<1>1. scan[n] \in Least!Scans(Size, Nat)
  BY DEF ShmemTypeOK
<1>2. /\ scan[n] = [next |-> scan[n].next, least |-> scan[n].least, seen |-> scan[n].seen]
      /\ scan[n].next \in 0..Size /\ scan[n].least \in Rank /\ scan[n].seen \in Nat
  BY <1>1 DEF Least!Scans, Rank
<1>3. made[n] \in 0..Iters /\ sent[n] \in 0..Iters
  BY DEF ShmemTypeOK
<1>4. /\ latest[n] \in Nat /\ target[n] \in Nat /\ ending[n] \in BOOLEAN
      /\ at[n] \in {"alloc", "top", "scan", "wait", "again", "free", "done"}
      /\ \A i \in Rank : ids[n][i] \in Nat
  BY DEF ShmemTypeOK
<1>5. Iters \in Nat /\ Size \in Nat /\ Size > 1 /\ MaxGap \in Nat /\ Limit = Iters + 2
  BY ShmemAssumption DEF Limit
<1>6. made[n] \in Nat /\ made[n] <= Iters /\ sent[n] \in Nat /\ sent[n] <= Iters
  BY <1>3, <1>5
<1>7. scan[n].next \in Nat /\ scan[n].next <= Size
  BY <1>2, <1>5
<1>. QED BY <1>2, <1>4, <1>5, <1>6, <1>7

LEMMA ShmemStartType == Least!Start \in Least!Scans(Size, Nat) /\ Least!Start.next = 0
  BY ShmemAssumption DEF Least!Start, Least!Scans

\* How far the peers can be of a node that is in its loop: not behind what was
\* sent before the barriers that it got past, nor ahead of the packet of its own.
LEMMA ShmemPeers ==
  ASSUME ShmemInv, NEW n \in Rank, NEW i \in Peers(n)
  PROVE  /\ i \in Rank /\ i # n /\ ids[n][i] \in Nat
         /\ Rounds(n) <= ids[n][i] /\ ids[n][i] <= sent[i]
         /\ at[n] \in {"top", "scan", "wait", "again"} => ids[n][i] <= made[n]
<1>1. ShmemTypeOK /\ LoopInv /\ BarrierInv /\ LinkInv
  BY DEF ShmemInv
<1>2. i \in Rank /\ i # n
  BY DEF Peers
<1>3. Rounds(n) <= ids[n][i] /\ ids[n][i] <= sent[i]
  BY <1>1, <1>2 DEF BarrierInv, LinkInv
<1>4. /\ made[i] \in Nat /\ made[n] \in Nat /\ sent[i] \in Nat /\ sent[i] <= Iters
      /\ ids[n][i] \in Nat /\ Iters \in Nat
  BY <1>1, <1>2, ShmemTypes
<1>5. ASSUME at[n] \in {"top", "scan", "wait", "again"} PROVE sent[i] <= made[n]
  <2>1. CASE ending[n]
    BY <1>1, <1>4, <2>1 DEF LoopInv
  <2>2. CASE ~ending[n]
    <3>1. Passed(i) <= 2 * made[n] - 1
      BY <1>1, <1>2, <1>5, <2>2 DEF BarrierInv, Barriers
    <3>2. sent[i] = IF at[i] \in {"alloc", "top"} THEN made[i] - 1 ELSE made[i]
      BY <1>1, <1>2 DEF LoopInv
    <3>3. CASE ending[i]
      BY <1>4, <3>1, <3>2, <3>3 DEF Passed
    <3>4. CASE ~ending[i] /\ at[i] = "alloc"
      <4>1. 2 * made[i] - 2 <= 2 * made[n] - 1
        BY <3>1, <3>4 DEF Passed
      <4>. QED BY <1>4, <3>2, <3>4, <4>1
    <3>5. CASE ~ending[i] /\ at[i] # "alloc"
      <4>1. 2 * made[i] - 1 <= 2 * made[n] - 1
        BY <3>1, <3>5 DEF Passed
      <4>. QED BY <1>4, <3>2, <4>1
    <3>. QED BY <3>3, <3>4, <3>5
  <2>. QED BY <2>1, <2>2
<1>. QED BY <1>2, <1>3, <1>4, <1>5

LEMMA ShmemStart == ShmemInit => ShmemInv
<1>. SUFFICES ASSUME ShmemInit PROVE ShmemInv
  OBVIOUS
<1>1. /\ \A n \in Rank : /\ at[n] = IF Iters = 0 THEN "scan" ELSE "alloc"
                         /\ made[n] = IF Iters = 0 THEN 0 ELSE 1
                         /\ ending[n] = (Iters = 0)
                         /\ sent[n] = 0 /\ latest[n] = 0 /\ target[n] = 0 /\ scan[n] = Least!Start
      /\ \A n, i \in Rank : ids[n][i] = IF i = n THEN Limit ELSE 0
      /\ Iters \in Nat /\ Size \in Nat /\ Limit \in Nat
  BY ShmemAssumption DEF ShmemInit, Limit
<1>2. ShmemTypeOK
  BY <1>1, ShmemStartType DEF ShmemInit, ShmemTypeOK
<1>3. LoopInv
  <2>1. CASE Iters = 0
    BY <1>1, <2>1 DEF LoopInv
  <2>2. CASE Iters # 0
    <3>1. \A n \in Rank : ~ending[n] /\ at[n] = "alloc" /\ made[n] = 1
      BY <1>1, <2>2
    <3>. QED BY <1>1, <3>1 DEF LoopInv
  <2>. QED BY <2>1, <2>2
<1>4. BarrierInv
  <2>1. \A n \in Rank : Passed(n) = 0 /\ Barriers(n) \in Nat /\ Rounds(n) = 0
    <3>1. CASE Iters = 0
      <4>1. \A n \in Rank : ending[n] /\ made[n] = 0
        BY <1>1, <3>1
      <4>. QED BY <4>1 DEF Passed, Barriers, Rounds
    <3>2. CASE Iters # 0
      <4>1. \A n \in Rank : ~ending[n] /\ at[n] = "alloc" /\ made[n] = 1
        BY <1>1, <3>2
      <4>. QED BY <4>1 DEF Passed, Barriers, Rounds
    <3>. QED BY <3>1, <3>2
  <2>2. \A n, i \in Rank : i # n => ids[n][i] = 0
    BY <1>1
  <2>. QED BY <2>1, <2>2 DEF BarrierInv
<1>5. LinkInv
  BY <1>1, ShmemNodes DEF LinkInv
<1>6. ScanInv /\ AgainInv
  BY <1>1, ShmemStartType DEF ScanInv, AgainInv
<1>. QED BY <1>2, <1>3, <1>4, <1>5, <1>6 DEF ShmemInv

\* A step that gets past no barrier and sends nothing.
LEMMA ShmemFrame ==
  ASSUME ShmemInv, NEW n \in Rank, UNCHANGED <<made, sent, ids, ending>>,
         \A m \in Rank : m # n => at'[m] = at[m],
         at[n] # "alloc", at'[n] # "alloc", at[n] # "free"
  PROVE  BarrierInv' /\ LinkInv'
<1>1. ShmemTypeOK /\ BarrierInv /\ LinkInv
  BY DEF ShmemInv
<1>2. \A m \in Rank : Passed(m)' = Passed(m) /\ Rounds(m)' = Rounds(m)
  BY DEF Passed, Rounds
<1>0. \A m \in Rank : made[m] \in Nat
  BY <1>1, ShmemTypes
<1>3. \A m \in Rank : Barriers(m) \in Int /\ Barriers(m)' \in Int /\ Barriers(m)' >= Barriers(m)
  BY <1>0 DEF Barriers
<1>4. \A m \in Rank : Passed(m) \in Int
  BY <1>0 DEF Passed
<1>5. BarrierInv'
  BY <1>1, <1>2, <1>3, <1>4 DEF BarrierInv
<1>6. LinkInv'
  BY <1>1 DEF LinkInv, Limit
<1>. QED BY <1>5, <1>6

\* A node gets past the barrier of an allocation when all have come to it.
LEMMA ShmemAllocated ==
  ASSUME ShmemInv, NEW n \in Rank, Allocated(n)
  PROVE  ShmemInv' /\ UNCHANGED <<sent, ids>>
<1>1. /\ at[n] = "alloc" /\ at' = [at EXCEPT ![n] = "top"]
      /\ \A i \in Rank : Barriers(i) >= Barriers(n)
      /\ UNCHANGED <<made, sent, ids, latest, target, ending, scan>>
  BY DEF Allocated, Gathered
<1>2. ShmemTypeOK /\ LoopInv /\ BarrierInv /\ LinkInv /\ ScanInv /\ AgainInv
  BY DEF ShmemInv
<1>3. \A m \in Rank : at'[m] = IF m = n THEN "top" ELSE at[m]
  BY <1>1, <1>2 DEF ShmemTypeOK
<1>4. ShmemTypeOK'
  BY <1>1, <1>2 DEF ShmemTypeOK
<1>5. LoopInv'
  BY <1>1, <1>2, <1>3 DEF LoopInv
<1>6. BarrierInv'
  <2>1. ~ending[n] /\ made[n] \in Nat
    BY <1>1, <1>2, ShmemTypes DEF LoopInv
  <2>2. \A m \in Rank : Barriers(m)' = Barriers(m) /\ Rounds(m)' = Rounds(m)
    BY <1>1, <1>3 DEF Barriers, Rounds
  <2>3. \A m \in Rank : Passed(m)' = IF m = n THEN Barriers(n) ELSE Passed(m)
    BY <1>1, <1>3, <2>1 DEF Passed, Barriers
  <2>. QED BY <1>1, <1>2, <2>2, <2>3 DEF BarrierInv
<1>7. LinkInv' /\ ScanInv' /\ AgainInv'
  BY <1>1, <1>2, <1>3 DEF LinkInv, ScanInv, AgainInv, Waited, Limit
<1>. QED BY <1>1, <1>4, <1>5, <1>6, <1>7 DEF ShmemInv

\* A turn: the node has received the packet before of all, and sends its own at
\* once, whatever the gap.
LEMMA ShmemTurn ==
  ASSUME ShmemInv, NEW n \in Rank, Turn(n)
  PROVE  /\ ShmemInv'
         /\ sent[n] < Iters /\ sent' = [sent EXCEPT ![n] = sent[n] + 1]
         /\ \A i \in Peers(n) : sent[n] <= ids[n][i]
         /\ ids' = ids
<1>1. /\ at[n] = "top" /\ at' = [at EXCEPT ![n] = "scan"]
      /\ sent' = IF MaySend(n) THEN [sent EXCEPT ![n] = made[n]] ELSE sent
      /\ target' = [target EXCEPT ![n] = latest[n] + 1]
      /\ UNCHANGED <<made, ids, latest, ending, scan>>
  BY DEF Turn, NextTarget
<1>2. ShmemTypeOK /\ LoopInv /\ BarrierInv /\ LinkInv /\ ScanInv /\ AgainInv
  BY DEF ShmemInv
<1>3. ~ending[n] /\ made[n] > 0 /\ sent[n] = made[n] - 1 /\ latest[n] = made[n] - 1
  BY <1>1, <1>2 DEF LoopInv
<1>4. made[n] \in Nat /\ made[n] <= Iters /\ MaxGap \in Nat /\ Iters \in Nat
  BY <1>2, ShmemTypes
<1>5. MaySend(n)
  BY <1>3, <1>4 DEF MaySend
<1>6. sent' = [sent EXCEPT ![n] = made[n]] /\ target' = [target EXCEPT ![n] = made[n]]
  <2>1. latest[n] + 1 = made[n]
    BY <1>3, <1>4
  <2>. QED BY <1>1, <1>5, <2>1
<1>7. \A m \in Rank : /\ sent'[m] = IF m = n THEN made[n] ELSE sent[m]
                      /\ target'[m] = IF m = n THEN made[n] ELSE target[m]
                      /\ at'[m] = IF m = n THEN "scan" ELSE at[m]
  BY <1>1, <1>2, <1>6 DEF ShmemTypeOK
<1>8. ShmemTypeOK'
  BY <1>1, <1>2, <1>4, <1>6 DEF ShmemTypeOK
<1>9. LoopInv'
  BY <1>1, <1>2, <1>3, <1>7 DEF LoopInv
<1>10. BarrierInv'
  <2>1. \A m \in Rank : /\ Passed(m)' = Passed(m) /\ Rounds(m)' = Rounds(m)
                        /\ Barriers(m)' = Barriers(m)
    BY <1>1, <1>3, <1>7 DEF Passed, Rounds, Barriers
  <2>. QED BY <1>1, <1>2, <2>1 DEF BarrierInv
<1>11. LinkInv'
  <2>1. \A m \in Rank : sent[m] \in Nat /\ sent'[m] \in Nat /\ sent[m] <= sent'[m]
    <3>1. \A m \in Rank : sent[m] \in Nat
      BY <1>2, ShmemTypes
    <3>. QED BY <1>3, <1>4, <1>7, <3>1
  <2>2. \A m \in Rank : \A i \in Peers(m) : ids[m][i] \in Nat /\ i \in Rank
    BY <1>2, ShmemNodes, ShmemTypes
  <2>. QED BY <1>1, <1>2, <2>1, <2>2 DEF LinkInv, Limit
<1>12. ScanInv' /\ AgainInv'
  <2>1. scan[n].next = 0
    BY <1>1, <1>2, ShmemStartType DEF LoopInv
  <2>. QED BY <1>1, <1>2, <1>7, <2>1 DEF ScanInv, AgainInv, Waited
<1>13. \A i \in Peers(n) : sent[n] <= ids[n][i]
  BY <1>3, ShmemPeers DEF Rounds
<1>14. sent[n] < Iters /\ sent[n] + 1 = made[n]
  BY <1>3, <1>4
<1>. QED BY <1>1, <1>6, <1>8, <1>9, <1>10, <1>11, <1>12, <1>13, <1>14 DEF ShmemInv

\* An id lands: ids only grow.
LEMMA ShmemLand ==
  ASSUME ShmemInv, NEW n \in Rank, NEW i \in Rank, Land(n, i)
  PROVE  ShmemInv'
<1>1. /\ i # n /\ ids[n][i] < sent[i] /\ ids' = [ids EXCEPT ![n][i] = ids[n][i] + 1]
      /\ UNCHANGED <<at, made, sent, latest, target, ending, scan>>
  BY DEF Land
<1>2. ShmemTypeOK /\ LoopInv /\ BarrierInv /\ LinkInv /\ ScanInv /\ AgainInv
  BY DEF ShmemInv
<1>3. \A m, j \in Rank : /\ ids[m][j] \in Nat /\ sent[j] \in Nat /\ target[m] \in Nat
                         /\ scan[m].seen \in Nat /\ scan[m].least \in Rank /\ made[m] \in Nat
  BY <1>2, ShmemTypes
<1>4. \A m, j \in Rank : ids'[m][j] = IF m = n /\ j = i THEN ids[n][i] + 1 ELSE ids[m][j]
  BY <1>1, <1>2 DEF ShmemTypeOK
<1>5. \A m, j \in Rank : ids[m][j] <= ids'[m][j] /\ ids'[m][j] \in Nat
  BY <1>3, <1>4
<1>6. ShmemTypeOK'
  <2>1. ids[n][i] + 1 \in Nat /\ ids \in [Rank -> [Rank -> Nat]]
    BY <1>2, <1>3 DEF ShmemTypeOK
  <2>2. ids' \in [Rank -> [Rank -> Nat]]
    BY <1>1, <2>1
  <2>. QED BY <1>1, <1>2, <2>2 DEF ShmemTypeOK
<1>7. LoopInv'
  BY <1>1, <1>2 DEF LoopInv
<1>8. BarrierInv'
  <2>1. \A m \in Rank : /\ Passed(m)' = Passed(m) /\ Rounds(m)' = Rounds(m)
                        /\ Barriers(m)' = Barriers(m) /\ Rounds(m) \in Int
    BY <1>1, <1>3 DEF Passed, Rounds, Barriers
  <2>2. ASSUME NEW m \in Rank, NEW j \in Rank, NEW k \in Rank, j # m PROVE Rounds(k) <= ids'[m][j]
    <3>1. Rounds(k) <= ids[m][j]
      BY <1>2, <2>2 DEF BarrierInv
    <3>. QED BY <1>3, <1>5, <2>1, <3>1
  <2>. QED BY <1>2, <2>1, <2>2 DEF BarrierInv
<1>9. LinkInv'
  <2>. SUFFICES ASSUME NEW m \in Rank
                PROVE  ids'[m][m] = Limit /\ \A j \in Peers(m) : ids'[m][j] <= sent[j]
    BY <1>1 DEF LinkInv, Limit
  <2>1. ids[m][m] = Limit /\ \A j \in Peers(m) : j \in Rank /\ ids[m][j] <= sent[j]
    BY <1>2, ShmemNodes DEF LinkInv
  <2>. QED BY <1>1, <1>3, <1>4, <2>1
<1>10. ScanInv'
  <2>. SUFFICES ASSUME NEW m \in Rank, scan[m].next > 0
                PROVE  /\ IF scan[m].least = m THEN m = 0 /\ scan[m].next = 1 /\ scan[m].seen = Limit
                          ELSE scan[m].seen <= ids'[m][scan[m].least]
                       /\ at[m] = "again" => scan[m].seen >= target[m]
    BY <1>1 DEF ScanInv
  <2>1. /\ IF scan[m].least = m THEN m = 0 /\ scan[m].next = 1 /\ scan[m].seen = Limit
           ELSE scan[m].seen <= ids[m][scan[m].least]
        /\ at[m] = "again" => scan[m].seen >= target[m]
    BY <1>2 DEF ScanInv
  <2>. QED BY <1>3, <1>5, <2>1
<1>11. AgainInv'
  <2>. SUFFICES ASSUME NEW m \in Rank, at[m] = "again", NEW j \in Peers(m)
                PROVE  ids'[m][j] >= target[m]
    BY <1>1 DEF AgainInv, Waited
  <2>1. j \in Rank /\ ids[m][j] >= target[m]
    BY <1>2, ShmemNodes DEF AgainInv, Waited
  <2>. QED BY <1>3, <1>5, <2>1
<1>. QED BY <1>6, <1>7, <1>8, <1>9, <1>10, <1>11 DEF ShmemInv

\* One element more is scanned.
LEMMA ShmemScan ==
  ASSUME ShmemInv, NEW n \in Rank, Scan(n)
  PROVE  ShmemInv' /\ UNCHANGED <<sent, ids>>
<1>1. PICK s \in Least!Steps(scan[n], ids[n], Size) : scan' = [scan EXCEPT ![n] = s]
  BY DEF Scan
<1>2. /\ at[n] \in {"scan", "again"}
      /\ UNCHANGED <<at, made, sent, ids, latest, target, ending>>
  BY DEF Scan
<1>3. ShmemTypeOK /\ LoopInv /\ BarrierInv /\ LinkInv /\ ScanInv /\ AgainInv
  BY DEF ShmemInv
<1>4. \A m \in Rank : scan'[m] = IF m = n THEN s ELSE scan[m]
  BY <1>1, <1>3 DEF ShmemTypeOK
<1>5. /\ scan[n].next \in Nat /\ scan[n].next <= Size /\ scan[n].least \in Rank /\ scan[n].seen \in Nat
      /\ \A i \in Rank : ids[n][i] \in Nat
      /\ target[n] \in Nat /\ made[n] \in Nat /\ made[n] <= Iters /\ Iters \in Nat
      /\ Size \in Nat /\ Size > 1 /\ Limit = Iters + 2
      /\ n \in 0..(Size - 1) /\ 0 \in Rank /\ Rank = 0..(Size - 1)
  BY <1>3, ShmemNodes, ShmemTypes DEF Rank
<1>6. /\ ids[n][n] = Limit
      /\ \A i \in Rank : i # n => ids[n][i] <= made[n]
      /\ at[n] = "again" => \A i \in Rank : ids[n][i] >= target[n]
  <2>1. target[n] = made[n]
    BY <1>2, <1>3 DEF LoopInv
  <2>2. \A i \in Rank : i # n => ids[n][i] <= made[n]
    BY <1>2, ShmemNodes, ShmemPeers
  <2>3. at[n] = "again" => \A i \in Rank : i # n => ids[n][i] >= target[n]
    BY <1>3, ShmemNodes DEF AgainInv, Waited
  <2>. QED BY <1>3, <1>5, <2>1, <2>2, <2>3 DEF LinkInv
<1>7. /\ s \in Least!Scans(Size, Nat)
      /\ IF s.least = n THEN n = 0 /\ s.next = 1 /\ s.seen = Limit ELSE s.seen <= ids[n][s.least]
      /\ at[n] = "again" => s.seen >= target[n]
  <2>1. CASE scan[n].next = 0
    <3>1. s = [next |-> 1, least |-> 0, seen |-> ids[n][0]]
      BY <2>1 DEF Least!Steps
    <3>. QED BY <1>5, <1>6, <3>1 DEF Least!Scans
  <2>2. CASE scan[n].next # 0
    <3>1. scan[n].next # Size
      BY <2>2 DEF Least!Steps, Least!Complete
    <3>2. PICK value \in Least!Found(scan[n], ids[n]) :
            s = IF ids[n][scan[n].next] < value
                THEN [next |-> scan[n].next + 1, least |-> scan[n].next, seen |-> ids[n][scan[n].next]]
                ELSE [next |-> scan[n].next + 1, least |-> scan[n].least, seen |-> value]
      BY <2>2, <3>1 DEF Least!Steps, Least!Complete
    <3>3. /\ scan[n].next \in Rank /\ scan[n].next + 1 \in 0..Size
          /\ scan[n].least \in 0..(Size - 1)
      BY <1>5, <3>1
    <3>4. /\ value = scan[n].seen \/ value = ids[n][scan[n].least]
          /\ value \in Nat
      BY <1>5 DEF Least!Found
    <3>5. /\ IF scan[n].least = n THEN n = 0 /\ scan[n].next = 1 /\ scan[n].seen = Limit
             ELSE scan[n].seen <= ids[n][scan[n].least]
          /\ at[n] = "again" => scan[n].seen >= target[n]
      BY <1>3, <1>5, <2>2 DEF ScanInv
    <3>6. at[n] = "again" => value >= target[n]
      BY <1>5, <1>6, <3>4, <3>5
    <3>7. CASE ids[n][scan[n].next] < value
      <4>1. /\ s.next = scan[n].next + 1 /\ s.least = scan[n].next /\ s.seen = ids[n][scan[n].next]
            /\ s \in Least!Scans(Size, Nat)
        BY <1>5, <3>2, <3>3, <3>7 DEF Least!Scans
      <4>2. scan[n].next # n
        <5>1. ASSUME scan[n].next = n PROVE FALSE
          <6>1. scan[n].least # n
            BY <2>2, <3>5, <5>1
          <6>2. value <= made[n]
            BY <1>5, <1>6, <3>4, <3>5, <6>1
          <6>. QED BY <1>5, <1>6, <3>4, <3>7, <5>1, <6>2
        <5>. QED BY <5>1
      <4>. QED BY <1>5, <1>6, <3>3, <4>1, <4>2
    <3>8. CASE ~(ids[n][scan[n].next] < value)
      <4>1. /\ s.next = scan[n].next + 1 /\ s.least = scan[n].least /\ s.seen = value
            /\ s \in Least!Scans(Size, Nat)
        BY <1>5, <3>2, <3>3, <3>4, <3>8 DEF Least!Scans
      <4>2. scan[n].least # n /\ value <= ids[n][scan[n].least]
        <5>1. CASE scan[n].least = n
          <6>1. n = 0 /\ scan[n].next = 1 /\ value = Limit
            BY <1>6, <3>4, <3>5, <5>1
          <6>2. 1 \in Rank /\ ids[n][1] <= made[n]
            BY <1>6, <3>3, <6>1
          <6>. QED BY <1>5, <3>8, <6>1, <6>2
        <5>2. CASE scan[n].least # n
          BY <1>5, <3>4, <3>5, <5>2
        <5>. QED BY <5>1, <5>2
      <4>. QED BY <3>6, <4>1, <4>2
    <3>. QED BY <3>7, <3>8
  <2>. QED BY <2>1, <2>2
<1>8. ShmemTypeOK'
  BY <1>1, <1>2, <1>3, <1>7 DEF ShmemTypeOK
<1>9. LoopInv' /\ AgainInv'
  BY <1>2, <1>3, <1>4 DEF LoopInv, AgainInv, Waited
<1>10. BarrierInv' /\ LinkInv'
  BY <1>2, ShmemFrame
<1>11. ScanInv'
  BY <1>2, <1>3, <1>4, <1>7 DEF ScanInv
<1>. QED BY <1>2, <1>8, <1>9, <1>10, <1>11 DEF ShmemInv

\* wait_until() returns with the packet that it was called for, and no later one,
\* whatever became of its scan.
LEMMA ShmemReturn ==
  ASSUME ShmemInv, NEW n \in Rank, NEW found \in Found(n), Return(n, found),
         at[n] \in {"scan", "again"}, Scanned(n), found >= target[n]
  PROVE  ShmemInv' /\ UNCHANGED <<sent, ids>>
<1>1. /\ latest' = [latest EXCEPT ![n] = found]
      /\ at' = [at EXCEPT ![n] = IF ending[n] THEN "done"
                                 ELSE IF sent[n] = made[n] THEN "free" ELSE "top"]
      /\ scan' = [scan EXCEPT ![n] = Least!Start]
      /\ UNCHANGED <<made, sent, ids, target, ending>>
  BY DEF Return
<1>2. ShmemTypeOK /\ LoopInv /\ BarrierInv /\ LinkInv /\ ScanInv /\ AgainInv
  BY DEF ShmemInv
<1>3. target[n] = made[n] /\ sent[n] = made[n]
  BY <1>2 DEF LoopInv
<1>4. found = made[n] /\ made[n] \in Nat
  <2>1. scan[n].next = Size /\ Size > 1 /\ Size \in Nat /\ scan[n].seen \in Nat
        /\ scan[n].least \in Rank /\ made[n] \in Nat
    BY <1>2, ShmemTypes DEF Scanned, Least!Complete
  <2>2. scan[n].least # n /\ scan[n].seen <= ids[n][scan[n].least]
    BY <1>2, <2>1 DEF ScanInv
  <2>3. ids[n][scan[n].least] <= made[n] /\ ids[n][scan[n].least] \in Nat
    BY <2>1, <2>2, ShmemNodes, ShmemPeers
  <2>4. found = scan[n].seen \/ found = ids[n][scan[n].least]
    BY DEF Found, Least!Found
  <2>. QED BY <1>3, <2>1, <2>2, <2>3, <2>4
<1>5. \A m \in Rank : /\ at'[m] = IF m # n THEN at[m] ELSE IF ending[n] THEN "done" ELSE "free"
                      /\ latest'[m] = IF m = n THEN made[n] ELSE latest[m]
                      /\ scan'[m] = IF m = n THEN Least!Start ELSE scan[m]
  BY <1>1, <1>2, <1>3, <1>4 DEF ShmemTypeOK
<1>6. ShmemTypeOK'
  <2>1. at' \in [Rank -> {"alloc", "top", "scan", "wait", "again", "free", "done"}]
    BY <1>1, <1>2 DEF ShmemTypeOK
  <2>2. latest' \in [Rank -> Nat] /\ scan' \in [Rank -> Least!Scans(Size, Nat)]
    BY <1>1, <1>2, <1>4, ShmemStartType DEF ShmemTypeOK
  <2>. QED BY <1>1, <1>2, <2>1, <2>2 DEF ShmemTypeOK
<1>7. LoopInv'
  BY <1>1, <1>2, <1>3, <1>5 DEF LoopInv
<1>8. BarrierInv' /\ LinkInv'
  BY <1>1, <1>5, ShmemFrame
<1>9. ScanInv' /\ AgainInv'
  BY <1>1, <1>2, <1>5, ShmemStartType DEF ScanInv, AgainInv, Waited, Limit
<1>. QED BY <1>1, <1>6, <1>7, <1>8, <1>9 DEF ShmemInv

\* The first scan has found one behind, or the waits are over.
LEMMA ShmemOnward ==
  ASSUME ShmemInv, NEW n \in Rank, NEW to \in {"wait", "again"},
         at[n] \in {"scan", "wait"}, at' = [at EXCEPT ![n] = to],
         scan' = [scan EXCEPT ![n] = Least!Start], to = "again" => Waited(n),
         UNCHANGED <<made, sent, ids, latest, target, ending>>
  PROVE  ShmemInv' /\ UNCHANGED <<sent, ids>>
<1>1. ShmemTypeOK /\ LoopInv /\ ScanInv /\ AgainInv
  BY DEF ShmemInv
<1>2. \A m \in Rank : /\ at'[m] = IF m = n THEN to ELSE at[m]
                      /\ scan'[m] = IF m = n THEN Least!Start ELSE scan[m]
  BY <1>1 DEF ShmemTypeOK
<1>3. ShmemTypeOK'
  BY <1>1, ShmemStartType DEF ShmemTypeOK
<1>4. LoopInv'
  BY <1>1, <1>2 DEF LoopInv
<1>5. BarrierInv' /\ LinkInv'
  BY <1>2, ShmemFrame
<1>6. ScanInv' /\ AgainInv'
  BY <1>1, <1>2, ShmemStartType DEF ScanInv, AgainInv, Waited, Limit
<1>. QED BY <1>3, <1>4, <1>5, <1>6 DEF ShmemInv

\* The other steps of wait_until().
LEMMA ShmemWait ==
  ASSUME ShmemInv, NEW n \in Rank,
         Enough(n) \/ NotEnough(n) \/ WaitUntil(n) \/ Again(n)
  PROVE  ShmemInv' /\ UNCHANGED <<sent, ids>>
<1>1. ShmemTypeOK /\ LoopInv /\ ScanInv /\ AgainInv
  BY DEF ShmemInv
<1>2. CASE Enough(n)
  BY <1>2, ShmemReturn DEF Enough
<1>3. CASE Again(n)
  <2>1. at[n] = "again" /\ Scanned(n)
    BY <1>3 DEF Again
  <2>2. PICK found \in Found(n) : Return(n, found)
    BY <1>3 DEF Again
  <2>3. found >= target[n]
    <3>1. /\ scan[n].next = Size /\ Size > 1 /\ Size \in Nat /\ scan[n].seen \in Nat
          /\ scan[n].least \in Rank /\ target[n] \in Nat
          /\ ids[n][scan[n].least] \in Nat
      BY <1>1, <2>1, ShmemTypes DEF Scanned, Least!Complete
    <3>2. scan[n].seen >= target[n] /\ scan[n].seen <= ids[n][scan[n].least]
      BY <1>1, <2>1, <3>1 DEF ScanInv
    <3>3. found = scan[n].seen \/ found = ids[n][scan[n].least]
      BY DEF Found, Least!Found
    <3>. QED BY <3>1, <3>2, <3>3
  <2>. QED BY <2>1, <2>2, <2>3, ShmemReturn
<1>4. CASE NotEnough(n)
  BY <1>4, ShmemOnward DEF NotEnough
<1>5. CASE WaitUntil(n)
  <2>1. /\ at[n] = "wait" /\ Waited(n) /\ at' = [at EXCEPT ![n] = "again"]
        /\ UNCHANGED <<made, sent, ids, latest, target, ending, scan>>
    BY <1>5 DEF WaitUntil
  <2>2. scan' = [scan EXCEPT ![n] = Least!Start]
    <3>1. scan[n] = Least!Start /\ scan \in [Rank -> Least!Scans(Size, Nat)]
      BY <1>1, <2>1 DEF LoopInv, ShmemTypeOK
    <3>. QED BY <2>1, <3>1
  <2>. QED BY <2>1, <2>2, ShmemOnward
<1>. QED BY <1>2, <1>3, <1>4, <1>5

\* A node gets past the barrier of shmem_free() when all packets of its round have
\* landed at all nodes.
LEMMA ShmemFreed ==
  ASSUME ShmemInv, NEW n \in Rank, Freed(n)
  PROVE  ShmemInv' /\ UNCHANGED <<sent, ids>>
<1>1. /\ at[n] = "free" /\ Gathered(n) /\ UNCHANGED <<sent, ids, latest, scan>>
      /\ \/ /\ made[n] < Iters /\ made' = [made EXCEPT ![n] = made[n] + 1]
            /\ at' = [at EXCEPT ![n] = "alloc"] /\ UNCHANGED <<target, ending>>
         \/ /\ ~(made[n] < Iters) /\ target' = [target EXCEPT ![n] = made[n]]
            /\ ending' = [ending EXCEPT ![n] = TRUE]
            /\ at' = [at EXCEPT ![n] = "scan"] /\ made' = made
  BY DEF Freed, MoreToSend
<1>2. ShmemTypeOK /\ LoopInv /\ BarrierInv /\ LinkInv /\ ScanInv /\ AgainInv
  BY DEF ShmemInv
<1>3. /\ ~ending[n] /\ sent[n] = made[n] /\ latest[n] = made[n] /\ scan[n] = Least!Start
      /\ made[n] \in Nat /\ made[n] <= Iters /\ Iters \in Nat
  BY <1>1, <1>2, ShmemTypes DEF LoopInv
<1>4. \A m \in Rank : /\ m # n => /\ at'[m] = at[m] /\ made'[m] = made[m]
                                  /\ target'[m] = target[m] /\ ending'[m] = ending[m]
                      /\ made[m] \in Nat
  BY <1>1, <1>2, ShmemTypes DEF ShmemTypeOK
<1>5. \/ /\ made[n] < Iters /\ made'[n] = made[n] + 1 /\ at'[n] = "alloc" /\ ~ending'[n]
      \/ made[n] = Iters /\ target'[n] = made[n] /\ ending'[n] /\ at'[n] = "scan" /\ made'[n] = made[n]
  <2>1. /\ at \in [Rank -> {"alloc", "top", "scan", "wait", "again", "free", "done"}]
        /\ made \in [Rank -> 0..Iters] /\ target \in [Rank -> Nat] /\ ending \in [Rank -> BOOLEAN]
    BY <1>2 DEF ShmemTypeOK
  <2>2. CASE made[n] < Iters
    BY <1>1, <1>3, <2>1, <2>2
  <2>3. CASE ~(made[n] < Iters)
    <3>1. made[n] = Iters
      BY <1>3, <2>3
    <3>2. target'[n] = made[n] /\ at'[n] = "scan" /\ made'[n] = made[n] /\ ending' = [ending EXCEPT ![n] = TRUE]
      BY <1>1, <2>1, <2>3
    <3>3. ending'[n]
      BY <2>1, <3>2
    <3>. QED BY <3>1, <3>2, <3>3
  <2>. QED BY <2>2, <2>3
<1>6. ShmemTypeOK'
  <2>1. at' \in [Rank -> {"alloc", "top", "scan", "wait", "again", "free", "done"}]
    BY <1>1, <1>2 DEF ShmemTypeOK
  <2>2. made' \in [Rank -> 0..Iters]
    BY <1>1, <1>2, <1>3 DEF ShmemTypeOK
  <2>3. target' \in [Rank -> Nat] /\ ending' \in [Rank -> BOOLEAN]
    BY <1>1, <1>2, <1>3 DEF ShmemTypeOK
  <2>. QED BY <1>1, <1>2, <2>1, <2>2, <2>3 DEF ShmemTypeOK
<1>7. LoopInv'
  <2>1. ASSUME NEW m \in Rank
        PROVE  /\ at'[m] = "done" => ending'[m]
               /\ ending'[m] => at'[m] \in {"scan", "wait", "again", "done"} /\ made'[m] = Iters
               /\ ~ending'[m] => made'[m] > 0
               /\ sent[m] = IF at'[m] \in {"alloc", "top"} THEN made'[m] - 1 ELSE made'[m]
               /\ ~ending'[m] => latest[m] = IF at'[m] = "free" THEN made'[m] ELSE made'[m] - 1
               /\ at'[m] \in {"scan", "wait", "again"} => target'[m] = made'[m]
               /\ at'[m] \notin {"scan", "again"} => scan[m] = Least!Start
    <3>1. CASE m = n
      BY <1>3, <1>5, <3>1
    <3>2. CASE m # n
      BY <1>2, <1>4, <3>2 DEF LoopInv
    <3>. QED BY <3>1, <3>2
  <2>. QED BY <1>1, <2>1 DEF LoopInv
<1>8. /\ Barriers(n) = 2 * made[n] /\ Passed(n)' = 2 * made[n] /\ Rounds(n)' = made[n]
      /\ Barriers(n)' >= 2 * made[n]
      /\ \A m \in Rank : Barriers(m) \in Int /\ Passed(m) \in Int
      /\ \A m \in Rank : m # n => /\ Barriers(m)' = Barriers(m) /\ Passed(m)' = Passed(m)
                                  /\ Rounds(m)' = Rounds(m)
  <2>1. \A m \in Rank : Barriers(m) \in Int /\ Passed(m) \in Int
    BY <1>4 DEF Barriers, Passed
  <2>2. \A m \in Rank : m # n => /\ Barriers(m)' = Barriers(m) /\ Passed(m)' = Passed(m)
                                 /\ Rounds(m)' = Rounds(m)
    BY <1>4 DEF Barriers, Passed, Rounds
  <2>3. Barriers(n) = 2 * made[n]
    BY <1>1 DEF Barriers
  <2>4. CASE made'[n] = made[n] + 1 /\ at'[n] = "alloc" /\ ~ending'[n]
    BY <1>3, <2>1, <2>2, <2>3, <2>4 DEF Barriers, Passed, Rounds
  <2>5. CASE ending'[n] /\ at'[n] = "scan" /\ made'[n] = made[n]
    BY <1>3, <2>1, <2>2, <2>3, <2>5 DEF Barriers, Passed, Rounds
  <2>. QED BY <1>5, <2>4, <2>5
<1>9. ASSUME NEW k \in Rank, NEW i \in Rank, i # k PROVE made[n] <= ids[k][i]
  <2>1. /\ ids[k][i] \in Nat /\ made[i] \in Nat /\ Rounds(i) <= ids[k][i]
        /\ Barriers(i) >= 2 * made[n]
        /\ Barriers(i) = 2 * made[n] => Quiet(i)
    BY <1>1, <1>2, <1>8, <1>9, ShmemTypes DEF BarrierInv, Gathered
  <2>2. CASE Barriers(i) = 2 * made[n]
    <3>1. at[i] = "free" \/ ending[i]
      BY <1>3, <2>1, <2>2 DEF Barriers
    <3>2. made[i] = made[n] /\ sent[i] = made[i]
      <4>1. 2 * made[i] = 2 * made[n]
        BY <2>2, <3>1 DEF Barriers
      <4>2. sent[i] = made[i]
        BY <1>2, <3>1 DEF LoopInv
      <4>. QED BY <1>3, <2>1, <4>1, <4>2
    <3>3. ids[k][i] = sent[i]
      BY <1>9, <2>1, <2>2 DEF Quiet, Peers
    <3>. QED BY <1>3, <3>2, <3>3
  <2>3. CASE Barriers(i) # 2 * made[n]
    <3>1. made[n] < made[i]
      BY <1>3, <1>8, <2>1, <2>3 DEF Barriers
    <3>2. made[n] <= Rounds(i) /\ Rounds(i) \in Int
      BY <1>3, <2>1, <3>1 DEF Rounds
    <3>. QED BY <1>3, <2>1, <3>2
  <2>. QED BY <2>2, <2>3
<1>10. BarrierInv'
  <2>1. ASSUME NEW m \in Rank, NEW i \in Rank PROVE Passed(m)' <= Barriers(i)'
    <3>1. Passed(m) <= Barriers(i) /\ Passed(m) <= Barriers(n)
      BY <1>2 DEF BarrierInv
    <3>2. Barriers(i) >= 2 * made[n]
      BY <1>1, <1>8 DEF Gathered
    <3>3. Barriers(n)' \in Int
      BY <1>3, <1>5 DEF Barriers
    <3>. QED BY <1>3, <1>8, <3>1, <3>2, <3>3
  <2>2. ASSUME NEW k \in Rank, NEW i \in Rank, NEW m \in Rank, i # k PROVE Rounds(m)' <= ids[k][i]
    BY <1>2, <1>8, <1>9, <2>2 DEF BarrierInv
  <2>. QED BY <1>1, <2>1, <2>2 DEF BarrierInv
<1>11. LinkInv'
  BY <1>1, <1>2 DEF LinkInv, Limit
<1>12. ScanInv' /\ AgainInv'
  <2>1. scan[n].next = 0 /\ at'[n] # "again"
    BY <1>3, <1>5, ShmemStartType
  <2>. QED BY <1>1, <1>2, <1>4, <2>1 DEF ScanInv, AgainInv, Waited, Limit
<1>. QED BY <1>1, <1>6, <1>7, <1>10, <1>11, <1>12 DEF ShmemInv

\* The invariant of the loop, of the barriers, of wait_until() and of its scans.
THEOREM ShmemInvariance == ShmemSpec => []ShmemInv
<1>1. ASSUME ShmemInv, [ShmemNext]_shmemVars PROVE ShmemInv'
  <2>1. CASE ShmemNext
    BY <1>1, <2>1, ShmemAllocated, ShmemTurn, ShmemLand, ShmemScan, ShmemWait, ShmemFreed
       DEF ShmemNext, Run
  <2>2. CASE UNCHANGED shmemVars
    BY <1>1, <2>2 DEF shmemVars, ShmemInv, ShmemTypeOK, LoopInv, BarrierInv, LinkInv, ScanInv, AgainInv,
                      Passed, Barriers, Rounds, Limit, Waited
  <2>. QED BY <1>1, <2>1, <2>2
<1>. QED BY <1>1, ShmemStart, PTL DEF ShmemSpec

\* all_to_all_gap_runner_shmem.h:120: for any number of nodes and packets, every
\* send of every peer has been received, though wait_until() may return too early.
THEOREM ShmemReceives == ShmemSpec => []EverySendReceived
<1>1. ShmemInv => EverySendReceived
  BY ShmemNodes DEF ShmemInv, BarrierInv, LoopInv, Rounds, EverySendReceived
<1>. QED BY <1>1, ShmemInvariance, PTL

\* Whatever its gap, the runner implements GapWindow with a window of one packet:
\* the barriers of the packet's memory keep the nodes together.
THEOREM ShmemRefinement == ShmemSpec => InStep
<1>1. ShmemInit => Gap!Init
  BY DEF ShmemInit, Gap!Init, Received
<1>2. ASSUME ShmemInv, [ShmemNext]_shmemVars PROVE [Gap!Next]_(Gap!vars)
  <2>0. ShmemTypeOK /\ LinkInv
    BY <1>2 DEF ShmemInv
  <2>. DEFINE R == Received
  <2>1. /\ R = [n \in Rank |-> [i \in Rank |-> IF i = n THEN 0 ELSE ids[n][i]]]
        /\ R' = [n \in Rank |-> [i \in Rank |-> IF i = n THEN 0 ELSE ids'[n][i]]]
    BY DEF Received
  <2>2. ASSUME ids' = ids PROVE R' = R
    BY <2>1, <2>2
  <2>3. ASSUME NEW n \in Rank, Turn(n) PROVE Gap!Send(n)
    <3>1. /\ sent[n] < Iters /\ sent' = [sent EXCEPT ![n] = sent[n] + 1]
          /\ \A i \in Peers(n) : sent[n] <= ids[n][i]
          /\ ids' = ids
      BY <1>2, <2>3, ShmemTurn
    <3>2. \A i \in Gap!Peers(n) : (sent[n] + 1) - R[n][i] <= 1
      <4>. SUFFICES ASSUME NEW i \in Rank, i # n PROVE (sent[n] + 1) - R[n][i] <= 1
        BY DEF Gap!Peers
      <4>1. sent[n] <= ids[n][i] /\ R[n][i] = ids[n][i]
        BY <2>1, <3>1, ShmemNodes
      <4>2. sent[n] \in Nat /\ ids[n][i] \in Nat
        BY <2>0, ShmemTypes
      <4>. QED BY <4>1, <4>2
    <3>. QED BY <2>2, <3>1, <3>2 DEF Gap!Send, Gap!MaySend
  <2>4. ASSUME NEW n \in Rank, NEW i \in Rank, Land(n, i) PROVE Gap!Receive(n, i)
    <3>1. /\ i # n /\ ids[n][i] < sent[i] /\ ids' = [ids EXCEPT ![n][i] = ids[n][i] + 1]
          /\ sent' = sent
      BY <2>4 DEF Land
    <3>2. R[n][i] = ids[n][i] /\ R \in [Rank -> [Rank -> Int]]
      <4>1. \A m, j \in Rank : ids[m][j] \in Nat
        BY <2>0, ShmemTypes
      <4>. QED BY <2>1, <3>1, <4>1
    <3>3. \A m, j \in Rank : R'[m][j] = IF m = n /\ j = i THEN R[n][i] + 1 ELSE R[m][j]
      <4>1. \A m, j \in Rank : ids'[m][j] = IF m = n /\ j = i THEN ids[n][i] + 1 ELSE ids[m][j]
        BY <2>0, <3>1 DEF ShmemTypeOK
      <4>. QED BY <2>1, <3>1, <4>1
    <3>4. R' = [R EXCEPT ![n][i] = R[n][i] + 1]
      <4>1. R' = [m \in Rank |-> [j \in Rank |-> R'[m][j]]]
        BY <2>1
      <4>. HIDE DEF R
      <4>2. [R EXCEPT ![n][i] = R[n][i] + 1]
              = [m \in Rank |-> [j \in Rank |-> IF m = n /\ j = i THEN R[n][i] + 1 ELSE R[m][j]]]
        BY <3>2
      <4>. QED BY <3>3, <4>1, <4>2
    <3>. QED BY <3>1, <3>2, <3>4 DEF Gap!Receive, Gap!UnderWay
  <2>5. ASSUME NEW n \in Rank,
               \/ Allocated(n) \/ Freed(n)
               \/ Scan(n) \/ Enough(n) \/ NotEnough(n) \/ WaitUntil(n) \/ Again(n)
        PROVE  UNCHANGED <<sent, R>>
    BY <1>2, <2>2, <2>5, ShmemAllocated, ShmemFreed, ShmemScan, ShmemWait
  <2>6. CASE UNCHANGED shmemVars
    BY <2>2, <2>6 DEF shmemVars, Gap!vars
  <2>. QED BY <1>2, <2>3, <2>4, <2>5, <2>6 DEF ShmemNext, Run, Gap!Next, Gap!vars
<1>. QED BY <1>1, <1>2, ShmemInvariance, PTL DEF ShmemSpec, InStep, Gap!Spec

-----------------------------------------------------------------------------
(* The protocol of a channel, in the counters and the flag that the threads *)
(* of a node share.  SyncChannelProofs is about families of channels: one   *)
(* channel is a family of one.                                              *)

One(value) == [ch \in {0} |-> value]

Family == INSTANCE SyncChannelProofs WITH
  Chan <- {0},
  log <- One(log), arrived <- One(arrived), handled <- One(handled),
  pc <- One(pc), synchronized <- One(synchronized),
  syncCounter <- One(syncCounter), ackCounter <- One(ackCounter),
  eofCounter <- One(eofCounter), recvEof <- One(recvEof), failed <- One(failed),
  called <- One(called), returned <- One(returned), acked <- One(acked), completed <- One(completed),
  syncsFrom <- One(syncsFrom), acksFrom <- One(acksFrom)

\* What SyncChannel assumes.
LEMMA FamilyNodes == Family!IsFiniteSet(Node) /\ Node # {} /\ MaxLog \in Nat /\ MaxSync \in Nat /\ 0 \in {0}
  BY NodeAssumption, BoundAssumption DEF Family!IsFiniteSet, IsFiniteSet

\* The values of the only channel.
LEMMA OneValue == \A value : One(value)[0] = value
  BY DEF One

LEMMA FamilyInit == Init => Family!Channel(0)!Init
  BY OneValue DEF Init, Family!Channel!Init

\* What a step of the channel is made of.
LEMMA FamilyParts ==
  /\ Family!Channel(0)!size = size
  /\ \A n, t, d, r : Push(n, t, d, r) <=> Family!Channel(0)!Push(n, t, d, r)
  /\ \A s, c, j, p : IsNext(s, c, j, p) <=> Family!Channel(0)!IsNext(s, c, j, p)
  /\ \A j, i, t, p : TakesNext(j, i, t, p) <=> Family!Channel(0)!TakesNext(j, i, t, p)
<1>1. Family!Channel(0)!size = size
  BY DEF size, Family!Channel!size, Cardinality, Family!Channel!Cardinality, IsFiniteSet, Family!Channel!IsFiniteSet
<1>2. \A n, t, d, r : Push(n, t, d, r) <=> Family!Channel(0)!Push(n, t, d, r)
  BY DEF One, Push, Family!Channel!Push
<1>3. \A s, c, j, p : IsNext(s, c, j, p) <=> Family!Channel(0)!IsNext(s, c, j, p)
  BY DEF IsNext, Family!Channel!IsNext, Visible, Family!Channel!Visible
<1>4. \A j, i, t, p : TakesNext(j, i, t, p) <=> Family!Channel(0)!TakesNext(j, i, t, p)
  BY <1>3, Zenon DEF One, TakesNext, Family!Channel!TakesNext
<1>. QED BY <1>1, <1>2, <1>3, <1>4

\* Every step of the channel is one of the family's only member.
LEMMA FamilyStep == [Next]_vars => [Family!Channel(0)!Next]_(Family!Channel(0)!vars)
<1> SUFFICES ASSUME [Next]_vars PROVE [Family!Channel(0)!Next]_(Family!Channel(0)!vars)
  OBVIOUS
<1>. USE DEF One, links, counts, closing, history, Family!Channel!links, Family!Channel!counts,
       Family!Channel!closing, Family!Channel!history
<1>a. ASSUME NEW n \in Node, NEW d \in Node, Send(n, d) PROVE Family!Channel(0)!Next
  <2>1. Family!Channel(0)!Send(n, d)
    BY <1>a, FamilyParts DEF Send, Family!Channel!Send
  <2>. QED BY <2>1, Zenon DEF Family!Channel!Next, Family!Channel!Worker
<1>b. ASSUME NEW n \in Node, Synchronize(n) PROVE Family!Channel(0)!Next
  <2>1. Family!Channel(0)!Synchronize(n)
    BY <1>b, FamilyParts DEF Synchronize, Family!Channel!Synchronize
  <2>. QED BY <2>1, Zenon DEF Family!Channel!Next, Family!Channel!Worker
<1>c. ASSUME NEW n \in Node, SynchronizeReturns(n) PROVE Family!Channel(0)!Next
  <2>1. Family!Channel(0)!SynchronizeReturns(n)
    BY <1>c DEF SynchronizeReturns, Family!Channel!SynchronizeReturns, Awakened, Family!Channel!Awakened
  <2>. QED BY <2>1, Zenon DEF Family!Channel!Next, Family!Channel!Worker
<1>d. ASSUME NEW n \in Node, PushEof(n) PROVE Family!Channel(0)!Next
  <2>1. Family!Channel(0)!PushEof(n)
    BY <1>d, FamilyParts DEF PushEof, Family!Channel!PushEof
  <2>. QED BY <2>1, Zenon DEF Family!Channel!Next, Family!Channel!Worker
<1>e. ASSUME NEW n \in Node, MarkEof(n) PROVE Family!Channel(0)!Next
  <2>1. Family!Channel(0)!MarkEof(n)
    BY <1>e DEF MarkEof, Family!Channel!MarkEof
  <2>. QED BY <2>1, Zenon DEF Family!Channel!Next, Family!Channel!Worker
<1>f. ASSUME NEW j \in Node, NEW i \in Node, Arrive(j, i) PROVE Family!Channel(0)!Next
  <2>1. Family!Channel(0)!Arrive(j, i)
    BY <1>f, FamilyParts DEF Arrive, Family!Channel!Arrive, EofFromAll, Family!Channel!EofFromAll
  <2>. QED BY <2>1, Zenon DEF Family!Channel!Next
<1>g. ASSUME NEW j \in Node, NEW i \in Node, HandleData(j, i) PROVE Family!Channel(0)!Next
  <2>1. Family!Channel(0)!HandleData(j, i)
    BY <1>g, FamilyParts DEF HandleData, Family!Channel!HandleData
  <2>. QED BY <2>1, Zenon DEF Family!Channel!Next, Family!Channel!Handle
<1>h. ASSUME NEW j \in Node, NEW i \in Node, HandleSync(j, i) PROVE Family!Channel(0)!Next
  <2>1. Family!Channel(0)!HandleSync(j, i)
    BY <1>h, FamilyParts DEF HandleSync, Family!Channel!HandleSync, SendAck, Family!Channel!SendAck,
       SyncFromAll, Family!Channel!SyncFromAll
  <2>. QED BY <2>1, Zenon DEF Family!Channel!Next, Family!Channel!Handle
<1>i. ASSUME NEW j \in Node, NEW i \in Node, HandleAck(j, i) PROVE Family!Channel(0)!Next
  <2>1. Family!Channel(0)!HandleAck(j, i)
    BY <1>i, FamilyParts DEF HandleAck, Family!Channel!HandleAck, CompleteRound, Family!Channel!CompleteRound,
       OffRound, Family!Channel!OffRound
  <2>. QED BY <2>1, Zenon DEF Family!Channel!Next, Family!Channel!Handle
<1>j. CASE UNCHANGED vars
  BY <1>j DEF vars, Family!Channel!vars
<1>. QED BY <1>a, <1>b, <1>c, <1>d, <1>e, <1>f, <1>g, <1>h, <1>i, <1>j, Zenon DEF Next, Worker, Handle

\* What holds of the family's only member holds of the channel.
LEMMA FamilyPromises ==
  /\ Family!Channel(0)!TypeOK => TypeOK
  /\ Family!Channel(0)!SyncGuarantee => SyncGuarantee
  /\ Family!Channel(0)!NeverFails => NeverFails
  /\ Family!Channel(0)!ClosedIsFinal => ClosedIsFinal
<1>1. Family!Channel(0)!TypeOK => TypeOK
  BY OneValue DEF TypeOK, Family!Channel!TypeOK, Entry, Family!Channel!Entry, MsgType, Family!Channel!MsgType,
     LinksType, Family!Channel!LinksType, WorkerType, Family!Channel!WorkerType,
     CountsType, Family!Channel!CountsType, ClosingType, Family!Channel!ClosingType,
     RoundsType, Family!Channel!RoundsType, FromType, Family!Channel!FromType
<1>2. Family!Channel(0)!SyncGuarantee => SyncGuarantee
  BY DEF One, SyncGuarantee, Family!Channel!SyncGuarantee
<1>3. Family!Channel(0)!NeverFails => NeverFails
  BY DEF One, NeverFails, Family!Channel!NeverFails
<1>4. Family!Channel(0)!ClosedIsFinal => ClosedIsFinal
  BY DEF One, ClosedIsFinal, Family!Channel!ClosedIsFinal
<1>. QED BY <1>1, <1>2, <1>3, <1>4

\* The inductive invariant of SyncChannelProofs holds of the family's only
\* member, whatever the channel does.
LEMMA FamilyInvariance == Spec => []Family!Channel(0)!IInv
<1>1. Init => Family!Channel(0)!IInv
  BY FamilyNodes, FamilyInit, Family!InvInit
<1>2. Family!Channel(0)!IInv /\ [Next]_vars => Family!Channel(0)!IInv'
  BY FamilyNodes, FamilyStep, Family!InvStep
<1>. QED BY <1>1, <1>2, PTL DEF Spec

\* Every variable of a channel keeps its type: no counter of a barrier goes
\* below zero when a round is taken off it.
THEOREM TypeCorrect == Spec => []TypeOK
<1>1. Family!Channel(0)!IInv => TypeOK
  BY FamilyPromises, Zenon DEF Family!Channel!IInv
<1>. QED BY <1>1, FamilyInvariance, PTL

\* synchronize() keeps its promise (communicator.h:73-79) for every number of
\* nodes, rounds and messages: when it returns, every node has made the call
\* and what it sent before the call has been handled wherever it was sent.
THEOREM SynchronizeIsABarrier == Spec => []SyncGuarantee
<1>1. Family!Channel(0)!IInv => SyncGuarantee
  BY FamilyNodes, FamilyPromises, Family!Guaranteed
<1>. QED BY <1>1, FamilyInvariance, PTL

\* No thread of a node that uses the channel as documented is stopped by an
\* exception of a queue or by the VALIDATE of the ack handler.
THEOREM ProtocolNeverThrows == Spec => []NeverFails
<1>1. Family!Channel(0)!IInv => NeverFails
  BY FamilyPromises, Zenon DEF Family!Channel!IInv
<1>. QED BY <1>1, FamilyInvariance, PTL

\* No data is lost (communicator.h:22-24): a receive queue that is marked EOF
\* has all that was ever sent to its node.
THEOREM EofIsFinal == Spec => []ClosedIsFinal
<1>1. Family!Channel(0)!IInv => ClosedIsFinal
  BY FamilyNodes, FamilyPromises, Family!Final
<1>. QED BY <1>1, FamilyInvariance, PTL
=============================================================================
