-------------------------------- MODULE SQueue --------------------------------
(***************************************************************************)
(* squeue (util/squeue.h, squeue.inl): a queue shared by threads, with a   *)
(* mutex and a condition variable.  What a function does between lock and  *)
(* unlock, or the wait that unlocks, is one step; the notification comes   *)
(* after the unlock and is another.                                        *)
(*                                                                         *)
(* Threads push until they have pushed all there is, or until push()       *)
(* throws; others iterate over a squeue_popper, which calls pop() until it *)
(* throws, or call timed_pop() or try_pop().  One marks EOF, whenever it   *)
(* likes.  A waiting thread may wake up for no reason.                     *)
(*                                                                         *)
(* An item is the number of its push: the queue holds those from           *)
(* pushed - queue + 1 to pushed, in this order.                            *)
(***************************************************************************)
EXTENDS Integers, FiniteSets

CONSTANTS Pusher, Popper,
          Timer,           \* threads that call timed_pop(), once
          Trier,           \* threads that call try_pop(), again and again
          Items            \* how many items are pushed in all

ASSUME SQueueAssumption ==
  /\ IsFiniteSet(Pusher) /\ IsFiniteSet(Popper) /\ IsFiniteSet(Timer)
  /\ Items \in Nat

Waiter == Popper \cup Timer

VARIABLES
  pushed,     \* the items that were pushed so far
  queue,      \* m_queue: how many it holds
  eof,        \* m_eof
  pushing,    \* "call" push(), "notify", "threw"
  marking,    \* "call" mark_eof(), "notify", "done"
  taking,     \* "call" pop() or timed_pop(), "waiting", "woken" from it and
              \* about to lock again, "threw", "none" (timed out)
  popped      \* m_popped of each iterator: an item, or 0 for none

queueVars == <<pushed, queue, eof, pushing, marking, taking, popped>>

QueueInit ==
  /\ pushed = 0 /\ queue = 0 /\ eof = FALSE
  /\ pushing = [p \in Pusher |-> "call"]
  /\ marking = "call"
  /\ taking = [c \in Waiter |-> "call"]
  /\ popped = [c \in Popper |-> 0]

Waiting == {c \in Waiter : taking[c] = "waiting"}

PushItem(p) ==
  /\ pushing[p] = "call"
  /\ IF eof
     THEN /\ pushing' = [pushing EXCEPT ![p] = "threw"]
          /\ UNCHANGED <<pushed, queue>>
     ELSE /\ pushed < Items
          /\ pushed' = pushed + 1
          /\ queue' = queue + 1
          /\ pushing' = [pushing EXCEPT ![p] = "notify"]
  /\ UNCHANGED <<eof, marking, taking, popped>>

\* notify_one(): some waiting thread, if there is one.
NotifyOne ==
  IF Waiting = {} THEN UNCHANGED taking
  ELSE \E c \in Waiting : taking' = [taking EXCEPT ![c] = "woken"]

NotifyAll == taking' = [c \in Waiter |-> IF c \in Waiting THEN "woken" ELSE taking[c]]

\* Wrong variant: only the first item of an empty queue is announced.
NotifyFirst == IF queue > 1 THEN UNCHANGED taking ELSE NotifyOne
NotifyPushed == NotifyOne

Pushed(p) ==
  /\ pushing[p] = "notify"
  /\ NotifyPushed
  /\ pushing' = [pushing EXCEPT ![p] = "call"]
  /\ UNCHANGED <<pushed, queue, eof, marking, popped>>

MarkQueueEof ==
  /\ marking = "call"
  /\ eof' = TRUE
  /\ marking' = "notify"
  /\ UNCHANGED <<pushed, queue, pushing, taking, popped>>

\* Wrong variant: one is enough.
NotifyOneOfEof == NotifyOne
NotifyEof == NotifyAll

Marked ==
  /\ marking = "notify"
  /\ NotifyEof
  /\ marking' = "done"
  /\ UNCHANGED <<pushed, queue, eof, pushing, popped>>

\* Wrong variant: an if where the code has a while.
MayPopOnceWoken(c) == queue > 0 \/ taking[c] = "woken"
MayPop(c) == queue > 0

\* With the queue empty pop() throws at EOF; timed_pop() does not look at it,
\* for all that mark_eof() promises (squeue.h:87).
Throws(c) == eof /\ c \in Popper

\* inner_pop()
Front == pushed - queue + 1
Popped == queue - 1

\* increment(): the iterator holds what was popped, or nothing when pop() threw.
Increment(c, item) ==
  popped' = IF c \in Popper THEN [popped EXCEPT ![c] = item] ELSE popped

\* equal(): end() holds nothing, and no other iterator is equal to it.
AtEnd(c) == popped[c] = 0

\* pop(), timed_pop(): from the lock to the unlock.
Take(c) ==
  /\ taking[c] \in {"call", "woken"}
  /\ \/ /\ MayPop(c)
        /\ queue' = Popped
        /\ taking' = [taking EXCEPT ![c] = "call"]
        /\ Increment(c, Front)
     \/ /\ queue = 0 /\ Throws(c)
        /\ taking' = [taking EXCEPT ![c] = "threw"]
        /\ Increment(c, 0)
        /\ UNCHANGED queue
     \/ /\ queue = 0 /\ ~Throws(c)
        /\ taking' = [taking EXCEPT ![c] = "waiting"]
        /\ UNCHANGED <<queue, popped>>
  /\ UNCHANGED <<pushed, eof, pushing, marking>>

\* A wait may return for no reason.
Spurious(c) ==
  /\ taking[c] = "waiting"
  /\ taking' = [taking EXCEPT ![c] = "woken"]
  /\ UNCHANGED <<pushed, queue, eof, pushing, marking, popped>>

\* wait_for() says timeout when the time has passed, notified or not, and
\* timed_pop() returns none without another look at the queue.
TimeOut(c) ==
  /\ c \in Timer /\ taking[c] \in {"waiting", "woken"}
  /\ taking' = [taking EXCEPT ![c] = "none"]
  /\ UNCHANGED <<pushed, queue, eof, pushing, marking, popped>>

\* try_pop() that finds something.
TryPop ==
  /\ Trier # {} /\ queue > 0
  /\ queue' = Popped
  /\ UNCHANGED <<pushed, eof, pushing, marking, taking, popped>>

QueueNext ==
  \/ \E p \in Pusher : PushItem(p) \/ Pushed(p)
  \/ MarkQueueEof \/ Marked
  \/ \E c \in Waiter : Take(c) \/ Spurious(c) \/ TimeOut(c)
  \/ TryPop

QueueSpec == QueueInit /\ [][QueueNext]_queueVars

\* Threads run; EOF is marked some day.
QueueFairness ==
  /\ \A p \in Pusher : WF_queueVars(PushItem(p)) /\ WF_queueVars(Pushed(p))
  /\ WF_queueVars(MarkQueueEof) /\ WF_queueVars(Marked)
  /\ \A c \in Waiter : WF_queueVars(Take(c)) /\ WF_queueVars(TimeOut(c))

QueueFairSpec == QueueSpec /\ QueueFairness

-----------------------------------------------------------------------------
\* squeue_popper.h:11, "using several 'containers' on the same squeue will
\* extract different elements": each was pushed and is not in the queue any more,
\* and an iterator that has come to its end, where pop() threw, has none.
DifferentElements ==
  \A c \in Popper :
    /\ popped[c] < Front /\ popped[c] <= pushed
    /\ \A d \in Popper \ {c} : ~AtEnd(c) => popped[c] # popped[d]
    /\ taking[c] = "threw" => AtEnd(c)

\* squeue.h:52 of pop(): "Will sleep as long as needed if the queue is empty",
\* and no longer: while a thread sleeps, each item in the queue has a thread
\* that was woken for it, or a notification on its way.  Only a timed_pop()
\* that was notified as its time passed takes one notification with it.
Woken == {c \in Waiter : taking[c] \in {"woken", "none"}}
Notifying == {p \in Pusher : pushing[p] = "notify"}
NoLostWakeup == Waiting # {} => queue <= Cardinality(Woken) + Cardinality(Notifying)

\* Nothing that was pushed stays behind: every pop() comes to throw, and only
\* when the queue is empty.
AllTaken == <>[](queue = 0 /\ \A c \in Popper : taking[c] = "threw")

-----------------------------------------------------------------------------
(* With the types, the two safety properties are inductive.                *)

QueueTypeOK ==
  /\ pushed \in 0..Items /\ queue \in 0..Items /\ eof \in BOOLEAN
  /\ pushing \in [Pusher -> {"call", "notify", "threw"}]
  /\ marking \in {"call", "notify", "done"}
  /\ taking \in [Waiter -> {"call", "waiting", "woken", "threw", "none"}]
  /\ popped \in [Popper -> 0..Items]
  /\ queue <= pushed

QueueInv == QueueTypeOK /\ DifferentElements /\ NoLostWakeup
=============================================================================
