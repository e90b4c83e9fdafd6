# A TLA+ model of ib_benchmark

ib_benchmark measures what InfiniBand gives to programs that send a lot of
data from every node to every other. `src/src/main.cc` picks a benchmark by its
name and runs it on all the nodes of a job. This directory models the parts of
it that several threads or nodes have to get right together: the asynchronous
communicator and the benchmark that drives it, the queue its threads meet in,
the four "gap runners", the routing table, and the benchmarks that are a loop of
one-sided operations along its routes or of collectives.

Paths are given as in `PROJECT.json`, from the top of the repository tree:
`src/src/communication/communicator.inl` and so on. Within this text
`communicator.inl:183` is enough.

## 1. The system

| Component | State it keeps | Operations | Talks to |
|---|---|---|---|
| `SRCommunicator` (`communication/communicator.h`, `.inl`) | per channel a send queue, a receive queue, a sync, an ack and an EOF counter; one `m_synchronized` flag with its mutex; `m_send_done` | `send`, `receive`, `try_receive`, `synchronize`, `mark_eof`, `run`, `extract_backend`, `wait_recv` | worker threads above, a backend below |
| Backends (`backend_mpi.*`, `backend_ucx.*`) | a buffer per destination, requests under way, a flush timer | `send`, `broadcast`, `flush_send_buffers`, `try_receive`, `done_sending` | MPI, or the ucp library |
| `squeue`, `squeue_popper` (`util/`) | a deque, an EOF mark, a mutex, a condition | `push`, `pop`, `try_pop`, `timed_pop`, `mark_eof` | every thread |
| `channel_runner`, `ucx_channel_runner` | a communicator and one generator; sender, receiver and main threads | `send_random`, `receive`, `run` | `SRCommunicator` |
| `rdma_gap_runner` (`ucx_1side_gap_runner.h`) | ring `m_sent`, memory the peers put to, `m_atomics` | `send_receive` | one-sided UCX |
| `tag_gap_runner` (`ucx_2side_gap_runner.h`) | rings `m_sent`, `m_received`, map `m_received_ids`, `m_latest_complete` | `send_receive` | two-sided UCX, callbacks |
| `all_to_all_gap_runner` | one receive request, the same map | `send_receive` | MPI |
| `all_to_all_gap_runner_shmem` | `m_received_ids` in symmetric memory | `send_receive` | OpenSHMEM |
| `router`, `load_routing_table` | a table rank -> ranks | `operator()`, `is_complete` | a file, all runners |
| `ucx.cc`, `exchange_metadata.h` | memory keys, counters | `tag_all2all`, `rdma_all2all`, `rdma_circular`, ... | ucp library |
| `data.h` | packets, generators, `circular_adapter` | | all runners |
| `bench2.cc`, `main.cc`, `log/`, most of `util/` | | collectives, command line, output, statistics | |

What is hard in it:

- **The communicator's barrier.** `synchronize()` sends a *sync* to everybody;
  a node that has handled the syncs of all sends an *ack* to everybody; the
  node that has handled the acks of all lets its worker go. The next round may
  begin at one node while acks of the last are still on their way to another.
  Three threads per node share the queues, counters and flags, some without a
  lock (`send_done()`, `is_closed()`).
- **The end.** EOF overtakes data in the receiver, because the main loop counts
  EOFs itself (`communicator.inl:148`) while data waits in a queue. A queue that
  is closed too early makes a thread throw; one that is closed too late, or
  never, keeps `run()` from returning.
- **Buffers without acknowledgement.** The UCX gap runners write the next packet
  into a ring whose size alone is to make sure that the old packet in the slot
  has gone.
- **Counting completions.** The two-sided runners set `m_latest_complete` from
  whatever order the peers' packets come in.
- **Wake-ups.** `squeue` notifies one thread per item after it has unlocked.
- **Ending three threads.** A channel runner stops its receiver when the main
  loop and the sender have ended (`channel_runner.h:110-115`), and then destroys
  the communicator, whose backend cancels its receive and waits for all nodes
  (`backend_ucx.cc:20-26`).
- **Memory of others.** The one-sided benchmarks put to memory of nodes that free
  it when they have counted enough, at an offset they work out themselves.
- **Races by intention.** Two runners look for the least of an array that other nodes
  write to (`ucx_1side_gap_runner.h:93`, `all_to_all_gap_runner_shmem.h:86`, "TODO: is it
  legitimate race?"), and read what they have found once more.

What makes each component correct, in a sentence: the channel keeps the
promise of `communicator.h:22-31` and `:73-79`; the gap runners send every
packet to every peer, never run further ahead than a window, and come
to an end; the queue loses neither items nor wake-ups, and gives an item to one
thread only; a channel runner delivers every packet, in the iteration it is due,
and returns; nothing is put where there is no memory for it; a table that
`is_complete()` accepts routes all to all.

## 2. The modules

```
SyncChannel  <------- refined by ------- Communicator        SQueue    Router
                                            (MPI or UCX backend)          ^ extended by
                                                  ^ extended by     UcxBenchmarks
                                            ChannelRunner

GapWindow  <--- refined by --- TagGapRunner, MpiGapRunner,
                               RdmaGapRunner, ShmemGapRunner ---- instantiate ---> LeastScan
```

The theorems are in modules of their own, which extend what they are about: `SyncChannelProofs`
(of a family of channels, so that all the channels of a communicator are an instance of it),
`CommunicatorProofs` (with `ChannelRunner`), `GapWindowProofs`, `RdmaGapRunnerProofs`, `TagGapRunnerProofs`,
`MpiGapRunnerProofs`, `SharedMemoryProofs` (the actors meet in memory that they share: the threads of `SQueue` in a
queue, the nodes of `ShmemGapRunner` in an array, the worker and the handlers of `SyncChannel` in counters and a
flag; here the channel is one, an instance of `SyncChannelProofs`), and `UcxBenchmarksProofs` (with `Router`). Names such as `QueueSpec`,
`ShmemSpec`, `RunnerSpec` and, for the same reason, `PushItem` and `Rank` let a module extend several specifications. Each `MC<Module>` extends its module for TLC; the `.cfg` files give the
constants. An operator that a comment calls a *wrong variant* is no part of the
model: `PROJECT.json` ("mutants") says which definition it would replace, and
which property then fails. `PROJECT.json` ("map") gives the source lines of
every definition.

**`SyncChannel`**: one channel of the communicator as its users see it. `log[i]`
is what node i pushed to its send queue. Transport is two cursors per link:
`arrived` (the main loop of j dispatched it) and `handled` (the receive handler
is done with it). `Send`, `Synchronize`, `SynchronizeReturns`, `PushEof`,
`MarkEof` are the worker; `Arrive` is `poll_and_handle_recv_backend()`; `HandleData`,
`HandleSync`, `HandleAck` are the receive handler with the three counters, the
VALIDATE of `increment_ack_counter()`, and the exceptions of `squeue::push()`
(variable `failed`).

**`Communicator`**: the same with what is in between: send and receive queues with
their EOF marks, worker threads, one receive handler per channel, the main loop
`run()` step by step (`Top`, `ReadEof`, `ReadEmpty`, `Poll`, `PollNext`, `Receive`,
`ReceiveNothing`, `Dispatch`), the buffers of the backend, their flush by size, by
broadcast and by timer, and a network that keeps order between two nodes and
nothing else. `send_done()` reads each queue in two steps, without its mutex, as
the code does. A flush of the MPI backend sends a buffer as one message
(`Batched`), the UCX backend sends its messages one by one. The receive the
UCX backend keeps posted is no state of its own: the model only says that a message
that has arrived can be received, and that a receive may also find nothing. The history
variables (`log`, `arrived`, `handled`, `failed`) are those of `SyncChannel`, and
`Channel(c)` maps channel c to it.

**`ChannelRunner`**: `channel_runner` and `ucx_channel_runner`, composed with
`Communicator`. The sender is the list of the calls it makes (`Program`: packets by
priority to each node of the route, a `synchronize()` of each channel every
`SyncEvery` iterations, EOF), one action per call and return (`SenderCalls`,
`CallReturns`). The receiver tries the channels in turn (`TryReceive`,
`NothingReceived`); `m_stopped` is read once per turn. `MainLoop` is the main loop
of `Communicator`, unchanged. `Stop` joins the sender and the main loop; `Destroy`
is the destructor of the communicator, with the flush of the backend, and `Return`
its barrier.

**`SQueue`**: `push`, `pop`, `try_pop`, `timed_pop`, `mark_eof` with the mutex (one
step from lock to unlock or wait), the notification after the unlock (a step of its
own), spurious wake-ups and timeouts. A thread that calls `pop()` does so by
iterating over a `squeue_popper`, whose iterator holds what it popped (`popped`). In `Communicator` a queue is a sequence and
pushing to it is atomic: `SQueue` is the reason why that is right for a
thread that waits.

**`GapWindow`**: what the four gap runners promise in common: packet k goes out when
packet k - Window of everybody is in; how wide the window is differs.

**`LeastScan`**: `*std::min_element(...)` as two of the runners evaluate it, over an array that their
peers write to meanwhile. The elements are compared one by one (`Steps`) with the least so far, and where that
is, is read for its value once more at the end. Whenever the least so far is needed, the build may read it again or
still have it in a register: `Found` is both. Nothing of it is assumed away; what the runners do is shown, and
proved, with every outcome. One comparison is one step: a peer that writes an
element between the two reads of a comparison might as well have done so before or after both,
since it learns nothing of the comparison.

**`RdmaGapRunner`**: slots filled before `may_send()` is asked (`Fill`, which only sets the id: `SetMeta`), the search of
`m_atomics` (`Scan`, `Poll`), put, fence and atomic per peer (`Post`, `PutLands`, `AtomicLands`), and the wait for the
atomics of the peers (`WaitForAtomics`). `m_comm.run()` before it waits for nothing, because neither the puts nor the
atomics are posted with a completion to check. A put reads its slot when it lands. The difference in
`may_send()` is unsigned: it wraps when the search has found a peer that is ahead, and the packet waits.

**`TagGapRunner`**: sends that read their slot when the transport pleases, receives whose callbacks count ids.

**`MpiGapRunner`**: the loop with its single receive, which is posted again before its value is read. `AllReceived` ends
the receives; `AllSent` is `wait_for_sent()`, which may return at any time from then on, since MPI may complete a
send that has not been matched. The value a receive writes to is a local of `receive_from_peers()`, and
a receive that is pending when that returns has nothing to write to; the model takes the stack to be
the same in each turn of the loop.

**`ShmemGapRunner`**: the loop of the sender with its ids; `wait_until()` with both of its searches; and the symmetric memory of
a packet, which is allocated (`Allocated`) and freed (`Freed`) in a barrier of all the nodes (`data.h:70-82`; OpenSHMEM puts
a barrier at the end of `shmem_malloc()` and at the start of `shmem_free()`). A barrier completes what was put before it
(`Quiet`).

**`Router`**: reading a file line by line, the routes, and `is_complete()`.
**`UcxBenchmarks`** extends it by the benchmarks that are a loop over a library.
`main()` reads the file (`ReadFile`) and starts one of them (`Start`), of which
`rdma_circular_ucx()` refuses a chunk size that does not divide its area.
`rdma_all2all_ucx()` and `rdma_circular_ucx()` exchange metadata (`Expose`, `Obtain`), post
puts and atomics in each iteration (`Post`, `PutLands`, `AtomicLands`), wait for their
completion (`RunOrFlush`), and for the counters of the nodes they send to (`Wait`). They
share the model because they differ in what it has: how often they exchange
metadata, the fence after the atomics that only the first has, and where a chunk
is put (`ChunkBytes`, in the layout of `circular_adapter`). `flush()` of a worker is taken
to wait, `run()` to wait for the operations that have a completion. `tag_all2all()` and
`bench2()` are an `all_to_all()` in a loop (`Post`, `PacketLands`, `TagAllToAllReturns`,
`Bench2Returns`); `bench2()` then gathers the totals and throws if those of sent
and received differ (`Gather`), added up in an `int`. A line of the file may name a rank more than once, and all that is
done for a route is then done as often (`Times`).

What the models leave out of the modelled components: the contents of packets
and messages (a message is its position in its sender's log, a packet its id),
serialization, message sizes in bytes (`FlushSize` counts messages), logging,
statistics, the throttling of `try_receive` by `m_recv_timer`.
What undefined behaviour may do is a choice of the model: which value a racy read comes to (`LeastScan`), and, with
packets of a compile-time size (`Static`), that MPI writes into the value while it is read.

## 3. The runs

| Run | Instance | What it shows |
|---|---|---|
| `sync_channel` | 2 nodes, 2 rounds, logs of data up to 2 | the barrier, EOF, no exceptions; every round that all entered ends; EOF of all closes and drains everything |
| `comm_channels` | 1 node, 2 channels, 1 worker, MPI backend, 2 rounds | each channel implements `SyncChannel`; scans over several queues; the flush timer |
| `channel_runner` | 2 nodes, UCX backend, packets one way, 2 iterations, one of them synchronized | `ucx_channel_runner` from start to end, through queues, buffers and network: the barrier, nothing lost, duplicated or reordered, `run()` leaves nothing behind; packets are there when their iteration is synchronized, none is left when the receiver is stopped and the communicator destroyed, `Communicator` implements `SyncChannel` over UCX too, every thread and node returns |
| `comm_two_workers` | 1 node, 2 channels, a worker each | **violated**: one flag for all the channels, see section 6 |
| `rdma` | 3 nodes, gap 1, 2 packets | a packet that may go past a peer that is behind costs it one that is ahead, however the search is overtaken; no circular wait |
| `rdma_pair` | 2 nodes, gap 1, 4 packets | how far ahead a packet is written, `GapWindow`, termination |
| `tag` | 3 nodes, gap 1, 6 packets | packets intact, `m_latest_complete` the least of the peers, the map small, `GapWindow`, termination |
| `mpi` | 3 nodes, gap 0, 3 packets of a run-time size | ids counted only when they arrived, everything received at the end, `GapWindow` with a window of gap + 1, termination |
| `mpi_static` | 3 nodes, gap 1, packets of a compile-time size | **violated**: an id is counted that has not arrived, see section 6 |
| `shmem` | 3 nodes, gap 0, 2 packets | every send is received before the next packet; the nodes run in step; termination |
| `squeue` | 2 pushers, 2 `pop()`, 1 `timed_pop()`, 1 `try_pop()`, 4 items | no two iterators hold the same element; no wake-up lost but to a timeout; all is taken, and every `pop()` comes to throw |
| `ucx` | 3 ranks, a fourth in the file, lines of up to 2; 2 iterations of each benchmark; chunks of 3 and 4 in an area of 4 | `is_complete()` means all to all; with routes that name no rank twice no put goes to memory that is not exposed or is freed, or outside the data of an area, and if they are mutual everybody finishes; the totals of `bench2()` agree although they do not fit an `int` |

Bounds. `MaxLog` and `MaxSync` stand in the guards of the worker only (a worker may
stop calling at any time, so the bounded behaviours are behaviours of the
program); `Iters` is `m_iters_to_run`, an argument of the program. Two nodes
and two rounds are where rounds overlap: a sync of the second round is handled
before the last ack of the first, which is why the counters are decreased by
`size()` (`communicator.inl:182`); the mutant that zeroes them is caught in this
instance. Three nodes are the least at which the rings of the UCX runners are
large enough, at which a count of peers can be wrong by one without being
0 or all, and at which a search has a peer to overtake it and another to miss. In `tag`, six packets use every slot of the
ring twice. `rdma` has two packets, the least with which one is let past a peer; what needs more packets
than that is checked with two nodes in `rdma_pair`, where four use each of the two slots twice, and proved for any number: with
three nodes the liveness alone takes more than five minutes. With two nodes a search cannot look past a peer, there is only one.
In `shmem`, gap 0 is the least there is; since the nodes run in step, `may_send()` agrees with any gap, and a wider one would
change nothing. The gap runners have a complete routing table, that names no node twice. The order of two
channels in one main loop needs no second node; what two nodes add is checked
with one channel. The runs over two nodes are over UCX and those over MPI have one: what a batch of MPI does between two
nodes is proved (section 4). `channel_runner` has traffic in one direction: the second node
sends no packet, but it synchronizes and marks EOF, so that the barrier and the end
of the two have to be found with different programs; its two iterations are one that is
synchronized and one that is not, whose packets only the EOF is behind. In `ucx` a benchmark is run with the files whose lines are ascending and name neither
their own rank nor one that does not exist, and may name one twice (`Plain`, for the constant `Tried`); all other
files are read too, and their routes checked. Chunk size 4 fits the area and 3 does not. The totals of
`bench2()` are 72, and an `int` of four values is too small for them; the
collectives start without a table, since they ignore it. The mutants show for every property that its instance is
large enough to break it.

Every run has `CHECK_DEADLOCK FALSE`: these programs end, and a worker
need not call anything. That they end when they should is checked as liveness.

Fairness. `SyncChannel`: the main loop and the receive handler keep going, a woken
worker returns, `mark_eof()` finishes; no worker has to call anything. `Communicator`:
every thread is scheduled (weak fairness). A poll of the backend may
find nothing any number of times, but not for ever: a message in the network is
received, requests are found complete, the flush timer expires (strong fairness,
as an unsuccessful poll comes in between each time). `ChannelRunner`: the receivers and
main loops of every node are scheduled; of the things that are done only so many
times (a call of the sender, a receive, a completion, a flush that finds something) it is
enough that some node does its next while some node can, since each of them
only comes to an end when there is no more of it. The gap runners: each
process runs, and what was posted completes. Of a send of MPI nothing more is assumed than that it completes once it has been
matched (`AllMatched`); `UcxBenchmarks` the same, once the file is read. `SQueue`: threads run, the timeout
passes, and some thread marks EOF some day.

## 4. What is proved

All proofs are for any finite set of nodes and any bounds.

**`SyncChannelProofs`** is about each channel of a family with the same nodes: a variable of
`SyncChannel` is there a function of the channel. This can be cited of the channels of a communicator, which no
theorem about one channel can; of one channel, which is a family of one, `SharedMemoryProofs` states the same
(`FamilyStep`: every step of the channel is one of the family's only member). `Invariance` proves `IInv` of `SyncChannel`. It is needed because the barrier cannot be seen from
the counters: a counter does not say whose syncs it counted, nor of which round.
`IInv` says it with the history: messages of a kind are numbered in the log
(`LogInv`); the cursors cover the same rounds as were counted (`CursorInv`);
completed <= acks handled <= acks sent <= syncs handled <= calls, for every
pair of nodes (`ChainInv`); the sync counter is the number of nodes one round ahead plus the
number two rounds ahead, which is how `increment_ack_counter()` may subtract
`size()` (`CounterInv`); EOF is last in a log and EOFs counted are EOFs arrived
(`EofInv`, `ClosingInv`). From it follow `SynchronizeIsABarrier` (`SyncGuarantee`:
everybody has called, and everything sent before has been handled everywhere),
`ProtocolNeverThrows` (`NeverFails`), `EofIsFinal` (`ClosedIsFinal`) and `TypeCorrect`.
Assumed: `Node` is finite and not empty, the bounds are natural numbers.

**`GapWindowProofs`**. From `WindowInv` (what is received was sent, and a sender is
no more than a window ahead of what it received): `SkewIsBounded`,
`InFlightIsBounded` (at most 2 * Window packets between two nodes),
`TwoWindowsAreEnough` (that is room for the next one, once `may_send()` agreed), and
`NoCircularWait` (until the end, some packet is under way or somebody may send).
Assumed: more than one node and a window of at least one (`GapAssumption`).

**`RdmaGapRunnerProofs`**. `Invariance` proves `IInv`: where each node is (`ProgressInv`), that atomics <= puts landed <=
posted on each link (`LinkInv`), what the slots hold (`SlotInv`), and what `may_send()` lets pass (`PaidInv`). The last is the
heart of it. That a packet is within the gap of what every peer has announced is false: the search may be overtaken. But
to be overtaken a peer has to announce something, and peers do not take that back. So for each number k
a packet is within the gap of k and as many packets more as there are peers that have announced more than k (`PostedPaid`);
and a search that has looked at a peer with no more than k has found no more than k itself, or else a peer
has got beyond k since and pays for the packet (`FoundPaid`). It is for every k because it is not known which peer is overtaken
next. From it follow:
- `PaidFor` (`OvertakingIsPaid`), and with it `Refinement` and `SkewIsBounded`: the runner implements `GapWindow` with a window of
  gap + size - 2. It grows with the world; the gap is the window of two nodes only.
- `LagIsBounded`: a packet is written no further ahead of the last that has landed everywhere than two such windows and
  one, which answers the question of `ucx_1side_gap_runner.h:69` ("undertand why 2*max_gap circular buffer is not enough").
- `SlotsAreEnough` (`PutsIntact`: no packet changes while it is sent), with the assumption that there are **more than two nodes
  and a gap of more than two**: then gap * size is that many. With fewer it is false (section 6), and no run checks it.
- `NoCircularWait` (`NeverStuck`): of the nodes that wait to send, one that is behind nobody may, as soon as nothing is under way.
- `AtomicsFollowPuts`.

**`TagGapRunnerProofs`**. Assumed throughout: **more than two nodes**, for the reason above.
`m_latest_complete` is set from a map of counts, which callbacks fill in whatever order the
packets of different peers come in. `CountInv` says what the map is by `Tally` (in `GapWindow`):
`latest` is the least of what came from the peers, the count of an id after it is the number
of peers that have got so far, and that of an id up to it is 0, erased. `TallyStep` follows
this through one packet. `LinkInv` has the packets of a link in order, `SlotInv` the packets that were written last in
their slots (`ModDiffers`: ids less than the size of the ring apart have different
slots). From them `LatestIsExact`, `MapIsBounded`, `NothingIsOverwritten` and `Refinement`.

**`MpiGapRunnerProofs`**. Each packet that MPI has matched is in one of three places:
counted in the map, in the value that the loop has yet to count, or in the receive
that was posted again. `Accounts` says so: what was matched is what was taken and at most one
more, of some peer; what was taken is what was counted and at most one more; `receives` is the
number of what was taken, and what was counted makes the `Tally`. `LatestHasCome` and `Refinement` assume **`~Static`** (packets of a run-time size),
because with packets of a compile-time size they are false (run `mpi_static`);
`Invariance` and `DoneIsComplete` (`DoneHasAll`) hold of both: when `receives` reaches Iters times the number of peers, no
pair of peer and id is missing. What a node has sent may still be under way when it is done.

**`SharedMemoryProofs`**. Of `SQueue`, `NoLostWakeup` and `DifferentElements` are inductive together with the types. The
proof is for any number of threads of any kind, spurious wake-ups and timeouts included;
what it has to do is count the threads that are woken and the notifications under way.
Of `ShmemGapRunner`, `ShmemInvariance` proves `ShmemInv`. `wait_until()` may return too early, so that the ids alone keep
nobody in step: what does are the barriers. `BarrierInv` says that nobody is past a barrier that another has not come to, and that what
was put before it has landed; `LoopInv` that a node sends its packet in the first turn of its loop, and finds just that one
of its peers; `ScanInv` and `AgainInv` that what a search finds is no more than has arrived, and, after the waits,
no less than what was waited for. From it follow `ShmemReceives` (`EverySendReceived`) and `ShmemRefinement` (`InStep`: the
runner implements `GapWindow` with a window of one packet, whatever its gap). Nothing is assumed of the build.

**`UcxBenchmarksProofs`**. `MemoryStays` follows from what an exchange of metadata and a
counter promise: a node that has begun to post has exchanged metadata with all on its route,
who have it on theirs (`ExchangeInv`); a node that has flushed has all its puts counted where they
went, and one that frees its memory has counted all packets of those it sends to
(`LandInv`). All of this is of routes that name no rank twice (`NamedOnce`): the counter of a node that is named twice is
complete when half of the packets are there. That a chunk is within the data is arithmetic: a multiple of the
chunk size, modulo an area that is a multiple of it too, leaves room for a chunk
(`RoomForAChunk`). `LoadIsSpread` and `DefaultIsAllToAll` are about the default route,
(n + k) modulo the number of ranks; `CompleteLineNamesAll` counts: `is_complete()` compares
cardinalities, and a subset of a finite set with as many members is the set. `CompleteRoutesToAll`
(`CompleteIsAllToAll`) goes from lines to routes: the model states a route by the positions
of a line that are `Kept` and the `Place` of each, since the prover has no facts about the recursive `SelectSeq`; every
member that is kept has its place. `TableOK` is what any file can leave in the table.

**`CommunicatorProofs`**, for any nodes, channels and workers, and both backends.
- `TypeCorrect` and `SendDoneIsSound` come from `LoopInv`: the queues that a scan of `send_done()`
  has passed were marked, then seen empty, and nothing is pushed after the mark.
- `Invariance` proves `IInv`, which says where each message is. A message has a number, its place in the log of
  its sender on its channel. Three cursors divide the log: `handled` <= `arrived` <= `Polled` <=
  length. The send queue is the part after `Polled` (`SendInv`); the buffers, the network and what
  the main loop has received hold what is for j between `arrived` and `Polled` (`TransitInv`), in order
  (`OrderInv`); the receive queue and the hand of the handler hold what is between `handled` and
  `arrived` (`ReceivedInv`). Each step moves one cursor or none. Flushes are the hard
  case: by size, by broadcast and by timer they move a buffer to the network as one batch or
  message by message, and must neither add nor lose a message, nor let it pass another
  (`FlushTransit`, `FlushOrder`).
- `Duplicates`: nothing is on the way twice, out of order or after it was handled, whatever happens.
  `NothingIsLost`: `NothingLost`, **unless a thread has thrown** (`Thrown`): a handler that has thrown
  stops, and a push to a receive queue that is closed does not put the message there. With any number of
  workers the disjunct is needed: two of them (run `comm_two_workers`) share a flag that breaks the
  protocol.

The rest of `CommunicatorProofs` assumes **`SingleWorker`**: one thread serves all the channels. So does every program
of the repository (`channel_runner.h:107` and `ucx_channel_runner.h:113` start one sender); without it the theorems are false
(run `comm_two_workers`).
- `SingleWorkerInvariance` proves `SingleWorkerInv`: `IInv`, a worker waits or marks only on a channel that is
  not marked (`WorkerInv`), the flag is set only while somebody waits for it (`FlagInv`), nothing
  is left in a buffer behind the EOF of the last channel (`FlushedInv`), what `all_done()` found stays so
  (`ExitInv`), and, in each channel, `IInv` of `SyncChannel`. The two halves need each other: that the next
  message of a handler is the one that `SyncChannel` takes follows from `IInv`, and that no push meets a closed
  queue follows from `SyncChannel`'s.
- `ChannelsImplement`: `ChannelsRefine`. Every step of a communicator is, for each channel, a step of `SyncChannel`
  or nothing: one lemma per action (`SynchronizeReturnsIsThat` and so on), with `PushLog`, `TakenCounts`
  and `RoundsStay` for what a step does to the number of syncs and acks of a log.
- What `SyncChannelProofs` has proved then holds of the implementation: `SynchronizeHolds` (`SynchronizeGuarantee`),
  `NeverThrown`, and with it `NothingIsEverLost`, which is `NothingLost` without a disjunct.
- `ExitLeavesNothing` (`ExitsClean`): the main loop of a node returns with all its EOFs counted, each the last of its
  log, so that nothing is left under way or in the hands of a thread.

Of `ChannelRunner` nothing further is assumed: it has one sender.
- `RunnerInvariance` ties the three threads to the communicator; `RunnerImplements`: `RunnerSpec => Spec`. The steps
  of the runner are `Communicator`'s or nothing, and so is the destructor, because it finds no buffer
  to flush. All theorems above hold of the benchmark.
- `RunnerReceivesAll` (`AllReceived`): no receiver is stopped, and no communicator destroyed, before all has come.
- `RunnerDelivers` (`IterationsDelivered`) counts. `ProgramIsOK`: before the r-th `synchronize()` of a channel the
  program has all the packets of the iterations that are due, for any route, priorities and period.
  The program is made by `FlattenSeq`, so that this is an induction over it; it is made of a set, the numbers up to
  which the statement fails, whose least member is impossible (`CountingUp`). `SenderInv`: the log
  has the packets and syncs of the calls that were made. With `SynchronizeGuarantee` the packets that were before the sync
  have been handled.

Model-checked only:

- all liveness, which is out of the prover's reach;
- what holds of `MpiGapRunner` with `Static`, where the theorems about order assume the contrary and TLC shows why.

## 5. What is not modelled

`extract_backend()` and `wait_recv()` (no program calls them); `top()`, `size()` and
`reset()` of the queue; `validate_frontend_type()`, the conversion of messages to bytes
and the size of the receive buffer of the backends; `send_0_to_1_ucx()`, a loop of sends
between two ranks; parsing of arguments, and the functions of `main.cc` that construct a
runner; logging, timers, statistics; the lists of types in `util/list.h` (the compiler
evaluates them, and the communicator uses no more of them than `of` and `get`); the random
contents of packets. A receive of the UCX backend that the library completes at
once would be taken for none (`backend_ucx.cc:109`): that depends on the library, and
the model completes a receive later. `to_none` of the router is
passed by nobody. MPI, ucp and OpenSHMEM are not in the repository: they
are modelled as the code relies on them (order between two nodes, completion, fences).

## 6. Where code and comments disagree

Two runs of the project show a disagreement:

- `comm_two_workers`: `synchronize()` of two channels by two threads, as
  `communicator.h:26-31` suggests, share one flag, and one thread returns by the
  other's round.
- `mpi_static`: `all_to_all_gap_runner.h:122` posts the receive again before line
  133 reads the id; with packets of a compile-time size the id may be that of a
  later packet, against the comment at line 136.

The following hold of the code as well. They are not among the runs; the configuration or the settings
given make TLC show a trace. The first three are one cause: what `std::min_element` has found is read again after the search, when
it may be the least no longer.

| Where | What | To see it |
|---|---|---|
| `ucx_1side_gap_runner.h:93` | a packet is sent that is further than the gap ahead of a peer; line 10 says "delays sending i'th packet until (i-gap)'th is received" | `MCRdmaGap.cfg` (`DelaysUntilGap`) |
| `ucx_1side_gap_runner.h:98` | a node is done, and frees its memory, while a put of a peer is to land there; line 162 says "must wait for the active side to complete!" | `MCRdmaQuiet.cfg` (`DoneIsQuiet`) |
| `all_to_all_gap_runner_shmem.h:86` | `wait_until()` returns before it should; line 83 says it "waits until everyone one sent at least id". No packet is missed by it (run `shmem`) | `MCShmemWait.cfg` (`WaitedFor`) |
| `ucx_1side_gap_runner.h:71,151` | with two nodes (the default of `main.cc:98`), and with a small gap, `m_sent` is too small, and a slot is written while a put reads it | `MCRdmaPair.cfg` with `PutsIntact` |
| `ucx_2side_gap_runner.h:72,158` | the same for the sends of the two-sided runner | `MCTag.cfg` with two nodes, `PacketsIntact` |
| `all_to_all_gap_runner.h:84` | the window is gap + 1; line 10 says "delays sending i'th packet until (i-gap)'th is received" | `MCMpi.cfg`, `DelaysUntilGap` |
| `all_to_all_gap_runner_shmem.h:66` | the gap has no effect: `may_send()` agrees in every first turn | `ShmemRefinement` |
| `squeue.inl:48` | `timed_pop()` does not look at EOF, though `squeue.h:87` says that blocked pops throw | `SQueue`: `Throws` |
| `squeue.inl:49` | a `timed_pop()` that times out may take a notification with it | `NoLostWakeup` without `"none"` |
| `ucx.cc:227,317` | a node waits for the counters of those it sends to, not of those that send to it; with routes that are not mutual it gets no further than `exchange_metadata()` | `MCUcxBenchmarks.cfg`, `MutualRoutesFinish` without `Mutual` |
| `ucx.cc:199,227` | a rank that a line of the file names twice is put to, and added to, twice in each iteration; it counts to the end half way, and frees its memory while it is written (the file `0: 1,1`, `1: 0,0`) | `MCUcxBenchmarks.cfg`, `MemoryIsThere` without `NamedOnce` |
| `all_to_all_gap_runner.h:119,130` | a receive that is pending when `receive_from_peers()` returns writes to a local that is gone | not modelled |
| `router.cc:67` | ranks that do not exist count towards a complete table | `CompleteIsAllToAll` without `LinesInRange` |
| `main.cc:92` | the routing file is read unless the test is 2, for which the usage lists a file (line 80), and also for 3, for which it lists none | not modelled |
| `router.cc:82` | a line that cannot be parsed is inserted as well, as a line of whatever rank was parsed; a blank one as an empty route of rank 0 | `Router` reads such lines as well |
| `communicator.inl:315` | `extract_backend()` waits with a mutex of its own, so that it may miss the notification | not modelled |

## 7. Plan

Done: the channel, the communicator that implements it, the channel runner over it, the
queue with its popper, the gap window and the four runners, the router and all the
benchmarks that are a loop over a library but `send_0_to_1_ucx()`. Every safety property that a passing run
checks is proved, with the hypotheses that section 4 names.

Next, if the code grows: `extract_backend()` and `wait_recv()`, once a program calls them; `send_0_to_1_ucx()`; a
refinement of the atomic queues of `Communicator` by `SQueue`, which needs one model of both.
