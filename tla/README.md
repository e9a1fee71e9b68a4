# TLA+ models of the core of Tor

This directory holds a formal model of parts of Tor 0.4.9.11: TLA+ modules
translated from the C code under `src/src/`, TLC configurations that model-check
them on small instances, and TLAPS proofs for every value of the parameters.
`PROJECT.json` maps each definition to the lines it stands for, lists the runs,
the seeded faults that show each property to be sensitive to the code, the
hazards the properties are aimed at, and the disagreements found between the code
and its own comments.

## Inventory of the system

Tor is one event loop and a pool of worker threads.  Everything below runs in
the event loop unless it says otherwise, so one callback is one atomic step.

| Part | State it keeps | Operations | Interacts with | What makes it correct |
|---|---|---|---|---|
| Circuit flow control (`sendme.c`, `congestion_control_common.c`) | package and deliver windows or `cwnd`/`inflight`, queue of cell digests, one tag buffer | package DATA, receive DATA, receive SENDME | relay cells, edge connections, the peer's flow control | two honest ends never close the circuit on each other; windows do not leak; digests match the SENDMEs; data never stalls |
| Congestion window (`congestion_control_vegas.c`) | `cwnd`, slow start, RTT and BDP estimates | update on each SENDME | flow control | `cwnd` stays within its bounds |
| Stream flow control (`connection_edge.c`, `congestion_control_flow.c`) | stream windows, XON/XOFF, half-closed streams | package, receive, XON, XOFF, half-close | circuits | no honest cell is refused, no stream gets another's data, none stalls |
| Conflux data path (`conflux.c`) | per-leg sequence numbers, current leg, out-of-order queue | send, SWITCH, receive, dequeue, delete a leg | flow control of each leg, `conflux_pool.c` | delivery in the order of sending; from `sendme_inc` lost DATA cells on the set is torn down |
| Conflux pool (`conflux_pool.c`) | unlinked and linked sets, nonces | LINK, LINKED, LINKED_ACK, launch, close, free | circuit list, guards | a set has one owner, legs are linked once |
| Thread pool (`workqueue.c`, `alertsock.c`) | work queues, updates, reply queue, start and exit locks; several threads | queue, cancel, update, run, reply, start, stop | `cpuworker.c`, `consdiffmgr.c`, `hs_pow.c` | each entry runs and is answered once or is cancelled; nothing waits for good; memory is freed after the threads |
| Onion handshakes (`cpuworker.c`, `onion_queue.c`) | pending tasks, queue of CREATE cells | assign, cull, cancel, reply | thread pool, circuit list | the counter matches the tasks; no circuit is freed under a worker; queued cells are served |
| Circuit mux and scheduler (`circuitmux*.c`, `scheduler*.c`) | active circuits, queued cells, scheduler state of channels | attach, detach, flush, wants-writes, has-waiting-cells | channels | a channel with cells and room is pending |
| Channels (`channel.c`, `channeltls.c`, `connection_or.c`) | channel state, listeners, identity maps | open, close, error, deliver | TLS connections | state machine, closed exactly once |
| Circuits (`circuitlist.c`, `circuitbuild.c`, `circuituse.c`, `command.c`) | lists and maps of circuits, circuit state | create, extend, truncate, mark for close, free | all of the above | a circuit is closed once and freed after its last user |
| Circuit padding (`circuitpadding.c`) | padding machines, histograms, negotiation | negotiate, schedule, free | circuits | both ends agree on the machine |
| Entry guards (`entrynodes.c`) | sampled, filtered, primary, confirmed guards; persistent | select, succeed, fail, expire | circuits, state file | order and size of the sets |
| Authorities (`dirvote.c`, `shared_random*.c`) | votes, commits, reveals; persistent | schedule, vote, sign, commit, reveal | other authorities | the protocol phases agree |
| Onion services (`hs_*.c`) | descriptors, introduction points, caches | publish, introduce, rendezvous | circuits, directories | bookkeeping of intro points |
| Directory code, node lists, DNS, hibernation, control port, configuration, cryptography, utility libraries | documents, caches, keys, text | fetch, parse, store, answer | all | mostly I/O, parsing and formatting |

Hard behaviours, and where the properties aim:

* two ends that must agree without talking about it: which cell triggers a
  SENDME, which number a cell has on a conflux leg;
* a leg of a conflux set that fails while its ends learn of it at different times;
* threads: a signal, an alert or an exit flag that comes while a worker is
  between two waits; an entry cancelled while a worker takes it; a shutdown in
  the middle of an update;
* objects that are closed at one time and freed at another, with calls in between
  that still find them: circuits under a worker thread, channels inside the
  scheduler's loop, `conflux_t` objects of closed legs;
* everyone waiting: edges that stop reading, SENDMEs held back by a full outbuf,
  channels that only a write can wake, circuits in the onion queue;
* a retry while the answer to the first attempt is still on its way;
* counters at their edges: unsigned windows, increments of one cell, windows that
  are not a multiple of the increment, a full out-of-order queue.

`PROJECT.json` lists these under `hazards`, each at its line.

## Modules

| Module | Models | Role |
|---|---|---|
| `Sendme` | circuit-level flow control of both ends of a circuit | checked, proved |
| `CreditWindow` | what one direction of a circuit promises | refined by `Sendme` |
| `SendmeProofs` | TLAPS proofs about `Sendme` | 9 theorems |
| `Conflux` | the data path of a linked conflux set | checked, proved |
| `ConfluxProofs` | TLAPS proofs about `Conflux` | 4 theorems |
| `ConfluxPool` | linking handshake and ownership of a conflux set | checked, proved |
| `ConfluxPoolProofs` | TLAPS proofs about `ConfluxPool` | 5 theorems |
| `StreamFlow` | streams on circuits: windows, retries, half-closed streams | checked, proved |
| `StreamFlowInvariant` | its inductive invariant, the lemmas on its parts, and the steps of the exit | used by `StreamFlowProofs` |
| `StreamFlowProofs` | TLAPS proofs about `StreamFlow` | 4 theorems |
| `Workqueue` | the thread pool | checked, proved |
| `WorkqueueProofs` | TLAPS proofs about `Workqueue` | 6 theorems |
| `WorkPool` | what the pool promises to its users | refined by `Workqueue`, used by `OnionHandshake` |
| `OnionHandshake` | CREATE cells, onion queue, cpuworkers, on top of `WorkPool` | checked, proved |
| `OnionHandshakeProofs` | TLAPS proofs about `OnionHandshake` | 5 theorems |
| `ChannelScheduler` | scheduler, circuitmux and outbufs of channels | checked, proved |
| `ChannelSchedulerProofs` | TLAPS proofs about `ChannelScheduler` | 5 theorems |
| `MC...` | constants for TLC | |

`Workqueue` and `OnionHandshake` meet in `WorkPool`: the thread-level model is
shown to implement it (`ImplementsWorkPool`), and the model of the cpuworkers takes
only its steps (`PoolUsedAsPromised`).  Both are model-checked and proved, so that what is checked there on top of the
simple pool holds on top of the real one.

An operator whose name starts with `Faulty` is a seeded fault.  It is never part of
a specification.  It stands right before the definition it changes, the way a plausible bug
would, and shows that a property notices.  Most modules have no separate type
invariant run: `TypeOK` is the first conjunct of the invariant about their structure.

### Sendme

The variables are the fields of `circuit_t` or `crypt_path_t` of the two ends:
`package_window`, `deliver_window`, `cwnd` and `inflight` of `ccontrol`, the FIFO
`sendme_last_digests`, the single buffer `sendme_digest` that every originated or
recognized cell overwrites, and `marked_for_close`.  `link[e]` is the FIFO of cells
that `e` has originated; relays keep the order.  `PackageData` is
`relay_send_command_from_edge` for one DATA cell with the recording of its digest
before the window is decremented, `SendOther` any other cell, `ReceiveData` the
DATA branch of `connection_edge_process_relay_cell` with the loop that sends
SENDMEs, `ReceiveSendme` is `sendme_process_circuit_level` with the
validation, which first looks at the version and, when it accepts that, pops a digest
whatever comes of it.  `AcceptMinVersion` is per end, since an end that took its circuit
from a CREATE_FAST cell accepts version 0 whatever the consensus says.  `UsesCC` selects between
the fixed windows and congestion control; with congestion control a SENDME sets
`cwnd` to any value within its bounds, which covers Vegas and any other
algorithm.  A cell's digest is abstracted to the end and number of the cell:
what matters is which cell it identifies.

### Conflux

Each end has its legs, its current leg, per-leg numbers sent and received, the
number delivered and the out-of-order queue; `link[e][l]` is the FIFO of a leg.
`SendCell` is the decision of `conflux_decide_circ_for_send` together with the
SWITCH it sends and `conflux_note_cell_sent`; any measured leg with room may have the
least RTT, so all scheduling algorithms are covered.  `ReceiveMultiplexed` is
the SENDME of the leg, `conflux_process_relay_msg` and the loop over
`conflux_dequeue_relay_msg`, which run in one callback; handling a cell may mark the leg for
close, and the loop then bails out after any number of cells.  `PickLeg` sets the current leg when
only the room of the set is asked for, and `SendFails` is a SWITCH, or the cell after it, that
cannot be packaged: everything is closed.  `LegFails` breaks the path
of a leg, `LegCloses` is `linked_circuit_closed` at one end with the teardown rules
of `cfx_del_leg`.  After a failure the cells on their way may arrive or not: the
ends notice at any time.  Cells carry their number in the history field `nth`, which no
step of the code looks at.

### Workqueue

Threads take steps of their own; a critical section that cannot block is one step,
taken when its lock is free.  `lock` and `control_lock` are explicit because
`threadpool_start_threads` waits while it holds the first, and a worker waits for the second
while it holds the first.  `pc[w]` says where a worker is in `worker_thread_main`:
the three ways through the inner loop (`StartUpdate`, `ExtractNextWork`,
`WaitForWork`), the end of a work or update function, the alert that
`queue_reply` writes after it has given up its lock, and the exit path on which the
owner of `control_lock` stays for the others.  Only `LoopTop` looks at `exit`, as in
the code.  The main thread queues, cancels, updates, processes replies one at a
time, and frees the pool; `MayFree` restricts when, per configuration.  Which
priority a thread takes is left open, since every thread has a chance to look at a
lower one.  The condition variable may wake a thread without a signal.  `EarlyStart` allows the
same for the main thread's wait in `threadpool_start_threads`, which is not in a loop: the start then
goes on before all threads are in.

### ConfluxPool

One nonce at both ends.  The client's unlinked set is explicit; the exit's exists
only inside `conflux_process_link`.  `circ` is the life of each circuit (`building`,
`open`, `marked`, `freed`), and the important point of the code is that a marked
circuit leaves its set at once but is freed, with its pointer to the `conflux_t`, later
(`CloseAllMarked`).  `UnlinkedLegCloses` includes the replacement of the leg, which
may fail and close again inside the same call; how many launches that recursion uses up
is left open within its limit.  `SendData` and `ReceiveData` put an object in use, first at the client and,
when the cell arrives, at the exit: only then can the close of one leg take the set with it.
Objects are named after the circuit they were allocated for.

### StreamFlow

Both ends keep the same kind of record for an edge connection: its state, windows,
inbuf, what it resends after a retry (`sending_optimistic_data`), what it keeps for
one (`pending_optimistic_data`), the outbuf, and whether it reads.  `Packaged` is
`connection_edge_package_raw_inbuf` with the stops it causes, `Resumed` the rounds of
`circuit_resume_edge_reading`: how large the shares of the streams come out and in which
order their cells leave (`Orders`) is left open within what the rounds guarantee.  `half_streams` is the client's account of a stream it has closed.  Data is
a pair of the connection and the position in what it wrote, so a misdelivered or
repeated cell is visible.  `refused` records every branch in which a cell of the peer is
dropped as invalid or would close the circuit.  A stream id starts at 1 instead of at
a random value.

### OnionHandshake

One step per callback of the main thread; the pool's threads move the entries of
`WorkPool`.  `magic` is the memory of a circuit as its magic number tells: alive, dead
but left to the reply function, freed.  The queue, its count and the circuits'
pointers into it are separate variables, as in the code, because four paths have
to keep them in step.

### ChannelScheduler

`pc` is the place inside a scheduler run, since writes to the kernel inside the loop can
close channels and change scheduler states.  KIST and Vanilla have actions of
their own; which channel the heap prefers, and the limit that KIST computes from the
kernel's figures, are left open.  Sizes are in cells.  `CircuitLeaves` takes the cells of a freed circuit
off the circuitmux, between runs or, as the out of memory handler causes it, when a flush finds the queue
of an active circuit empty.  A connection that breaks in the middle of a Vanilla flush loses all that is
queued (`VanillaDiscards`).  `sched_bug` is set by a channel that would enter the heap twice, where
the code tests for that, and by one that KIST serves without a socket entry.  `Writeable` keeps the unsigned
subtraction of `channel_tls_num_cells_writeable_method`.

## Runs

| Run | What it shows |
|---|---|
| `sendme_fixed` | fixed windows, other cells in between, mixed SENDME versions, circwindow below the deliver window: types, no honest end closes, windows conserved, digests match, the prediction of the sender, delivery of all data, refinement of `CreditWindow` |
| `sendme_cc` | congestion control while `cwnd` moves under the data in flight: `inflight` is exact, all data arrives |
| `conflux_failures` | two legs of which one fails at any time, an out-of-order queue that overflows: an unbroken prefix, coherent numbers, a bounded loss, and everything when no leg is lost |
| `conflux_pool` | launches, retries, closes and late frees of a set: pools usable, each object freed exactly with its last owner, the set settles, the exit lets go |
| `conflux_pool_meet` | violation: the legs of one set may end up in two objects at the exit |
| `stream_flow` | attaching, optimistic data, retry, slow outbufs, closing: no honest cell refused, no foreign or repeated data, no stall |
| `workqueue_safety` | one owner for entries and arguments, no unnoticed answers, memory freed last, refinement of `WorkPool` |
| `workqueue_liveness` | entries and updates are served; shutdown of an idle pool, or after a start that timed out, completes; also when the start went on too early |
| `workqueue_busy_shutdown` | violation: shutdown of a busy pool hangs |
| `onion_handshake` | counters, queue and memory of circuits agree while circuits and channels close; the queue drains; closed circuits are freed |
| `scheduler` | heap and scheduler states agree, no freed channel stays behind, queued cells leave |
| `scheduler_high_water` | violation: an outbuf above the high water mark counts as endless room |

Bounds.  A sender of `Sendme` has 5 to 7 DATA cells, windows of 3 to 6 and
increments of 2: windows run empty, several SENDMEs are under way at once and every
counter goes through its wrap-around point more than once.  `Conflux` has two legs
(what Tor builds) and a handful of cells per direction, enough for switches
back and forth with cells still out on the other leg.  The path of one leg may
fail by itself, which is enough since the legs are interchangeable and the ends close
the other one where the code does.  `ConfluxPool` has two legs and
one retry; `MaxLegs` is 2, below the least value 3 of the parameter, so that three
launches reach the rejection of a leg too many.  `StreamFlow` has two connections and two circuits, of which
one has a single stream id, so that ids are used again and run out, and the other room for
both connections at a time; stream windows of 1 and circuit windows of 2 run empty with
two cells; `MaxCloses` lets one stream be given up, refused or ended by choice, which with the
cells already under way gives every race of a close with data, SENDMEs and CONNECTED.
`Workqueue` has three workers for safety and two for liveness, two entries, two
priorities, and up to two updates; two workers already give the interleavings of a
signal with a thread that is leaving, and the pool never has fewer than two.
`OnionHandshake` has three circuits against a pool for one or two tasks, so a queue
of two.  `ChannelScheduler` has a busy and a quiet channel, three cells, a DESTROY, one
cell that bypasses the scheduler and one change of scheduler; a KIST limit of up to two cells lets a channel
leave a flush with its limit used up and with some of it left, the two ends of the decision that follows.  Symmetry is used
only for safety.

Deadlock checking is off where the system may stop: all data sent, the pool
freed, all channels gone.  In `workqueue_busy_shutdown` the hang is found as a
liveness violation.

Fairness.  Channels deliver what was queued and the event loop calls its handlers:
receiving steps, reply functions, clean-up and the packaging loop are weakly fair; new
work, closes and failures are not.  Threads are scheduled and their functions
return.  Nothing is assumed about when the main thread queues, cancels or
frees, or about wakeups without a signal.  In `Workqueue` locks are never held across
a modelled step except during the start, so weak fairness is enough.  In
`ChannelScheduler` a pending channel is strongly fair to get a positive KIST
limit: acknowledgements open the TCP window again and again.  In `ConfluxPool` a
circuit that is being built opens or times out, an unlinked leg that idles is
closed by the client, and a DESTROY arrives.  `StreamFlow` needs no fairness: its
data is bounded, every step uses some up, so it comes to rest, and `NoStall` says that
it rests only with all data delivered.

## Disagreements between the code and its comments

* `workqueue_busy_shutdown`: `pool->exit` is read only at the head of the outer
  loop.  A worker that is busy when `threadpool_stop_threads` signals goes on
  to wait on the condition, and `threadpool_free` waits for it.  Adding
  the exit test right before the wait removes the hang in the model.
* `scheduler_high_water`: `channel_tls_num_cells_writeable_method` subtracts the
  length of the outbuf from the high water mark in an unsigned type.
* `conflux_pool_meet`: `linked_circuit_free` removes whatever the linked pool has
  under its nonce, also a set made after its own leg closed.

## What does not hold outside the assumptions

Cases in which a checked property fails, or would if it were stated more
broadly.  They are not runs of their own; each is listed as a hazard.

* `PredictsSendme` fails when the consensus parameter `circwindow` is not a multiple
  of the increment (the sender records the digests of other cells than the peer
  acknowledges), and when `sendme_inc` is 1 (the first cell on an idle circuit
  is missed).  Both values are in the ranges the code accepts.
* `LossBounded` is about where the cells are that were sent and not delivered: each one
  waits in the out-of-order queue, is on a leg, or is the one that a full queue turned
  away together with its leg; and on each leg that its sender has given up while it
  keeps the set there are fewer than `sendme_inc` DATA cells.  The comment in
  `cfx_del_leg` says "If the circuit still has inflight data, teardown", the code
  compares with `sendme_inc`: up to `sendme_inc - 1` DATA cells per leg, and any
  number of other multiplexed cells, can be lost while both ends keep the set and wait for
  the missing number.  An earlier form of the property bounded the DATA cells missing from
  a whole set by `sendme_inc - 1` per lost leg.  The attempt to prove it showed that it
  fails with three legs: a cell that a full queue turned away may have been acknowledged
  on its leg already, so that it is missing on top of that number.  TLC finds the case with
  three legs and `MaxOooq = 1`.
* A loop over the out-of-order queue that bails out because the circuit of the cell was marked for
  close (`conflux.c:976`) leaves cells that could be delivered.  When the set survives the
  loss of that leg, nothing looks at them before the next cell arrives in place.
  `AllDelivered` promises nothing once a leg is lost.
* `CleanupAfterExit` fails with `EarlierPool = TRUE` (the static `control_lock_owner` is
  never reset, so a second pool in a process is freed under its workers), in a
  safety run with `StartTimeout = TRUE` (`threadpool_new` frees the pool before a
  worker can have taken `control_lock`), and with `EarlyStart = TRUE` (a thread that the start did
  not wait for cannot count itself in while another keeps `control_lock`, so the last one out does not
  wait for it).  The theorem `Cleanup` assumes that none of these is the case, and nothing
  else.  `workqueue_busy_shutdown` is about none of them: all three constants are FALSE there.
* `UpdatesReachEveryThread` leaves out such a thread too: it gets no update as long as
  `control_lock` is kept.
* At shutdown the arguments of an update that some thread has not run are not freed:
  `free_update_arg_fn` gets the array.
* `QueueDrains` promises that a waiting circuit is served as long as tasks are pending
  in the pool: `cpuworker_cancel_circ_handshake` lowers the counter but does not refill
  the pool, so after a cancellation of the last task the queue waits for the next
  CREATE cell.
* `QueuedCellsLeave` is about channels that the scheduler knows to have cells.
  `circuitmux_append_destroy_cell` does not announce its cell: a DESTROY queued while
  the outbuf is not empty and the channel is WAITING_FOR_CELLS stays until the next
  cell of the channel.
* `SetSettles` holds through the idle timeout only.  When a leg closes and cannot be
  replaced, the remaining legs may all be linked, but nothing finalizes the set then, although
  the comments on `unlinked_circuit_closed` and `conflux_circuit_has_closed` say so.
* `NoStall` is about streams on their first circuit.  An edge that stopped reading for
  the window of its circuit stays stopped when it is detached and attached to another
  one; and data to send again with an empty inbuf is not counted by
  `circuit_resume_edge_reading_helper`.  In both cases the stream goes on only when
  a SENDME for it, or more data, comes.

## Proofs

Seven components have theorems.  For each, a module proves an inductive invariant `IInv`
(theorem `Invariance`), one lemma per action, and derives the properties of the runs from
it; for `StreamFlow` the invariant and the steps of the exit are a module of their own.
TLC checked every `IInv` as an invariant of the component's run first.  The theorems rest on the named assumptions about the constants, which TLC evaluates on every
run, and on nothing else except where this section says so.  They hold for every
number of legs, threads, circuits, streams, channels, cells and retries, and for all windows and limits.

| Theorems | Property |
|---|---|
| `SendmeProofs`: `TypeCorrect`, `HonestOpen`, `Conservation`, `DigestsAgree`, `InflightCorrect`, `PredictionCorrect` | `TypeOK`, `HonestCircuitStaysOpen`, `WindowConservation`, `DigestsAwaitSendmes`, `InflightExact`, `PredictsSendme` |
| `SendmeProofs`: `Refinement`, `OneSendme` | `ImplementsCreditWindow`; at most one SENDME per DATA cell |
| `ConfluxProofs`: `DeliversInOrder`, `SequencesAreCoherent`, `LossIsBounded` | `InOrderDelivery`, `CoherentSequences`, `LossBounded` |
| `ConfluxPoolProofs`: `PoolsAreCoherent`, `ObjectsAreOwned`, `ExitLinksFirst`, `AcksAreExpected` | `PoolCoherent`, `ObjectOwned`, `LinkedAtExitFirst`; a LINKED_ACK closes no circuit |
| `StreamFlowProofs`: `Accepted`, `DataKept`, `NeverStalls` | `HonestCellsAccepted`, `StreamsKeepTheirData`, `NoStall` |
| `WorkqueueProofs`: `NoReplyLost`, `ArgsOnce`, `OneOwner`, `Cleanup`, `Refinement` | `NoLostReply`, `ArgConsumedOnce`, `EntryHasOneOwner`, `CleanupAfterExit`, `ImplementsWorkPool` |
| `OnionHandshakeProofs`: `TasksAreCounted`, `QueueIsCoherent`, `TaskHasCircuit`, `PoolIsUsedAsPromised` | `TasksCounted`, `QueueCoherent`, `TaskKeepsCircuit`, `PoolUsedAsPromised` |
| `ChannelSchedulerProofs`: `HeapCorrect`, `NoStale`, `SchedBugFree`, `RunScheduled` | `HeapMatchesState`, `NoStaleChannel`, `NoSchedBug`, `RunIsScheduled` |

### Sendme

`TypeCorrect` needs no further assumption.  The other theorems are proved under
`AgreeingParameters`: the increment is at least 2, the initial package
window is a multiple of it, and each end accepts the SENDME version of the other.
The first two are needed (see above); Tor's default parameters satisfy all three.

None of the properties is inductive.  `IInv` adds what ties the two ends
together: `CountsInv` (the receiver has sent one SENDME per full increment
received), `WindowsInv` (each window as a function of the counts), `DigestsInv` (the
digest queue holds the tags of exactly the increments sent and not acknowledged)
and `LinksInv` (the DATA cells and the SENDMEs on the links are consecutively
numbered, and each SENDME carries the tag of the cell that completes its increment).
The lemmas `AppendSame`, `AppendAnother` and their like say how the
numbering on a link moves when a cell is appended or taken off, and
`ModBelow`, `ModAbove` and `PredictInflight` carry the arithmetic of the prediction.
`HonestCircuitStaysOpen` is part of `IInv` because a closed end stops
counting.

### Conflux

The two ends never see each other's numbers: the sender counts cells per leg and
tells the receiver only relative numbers, in SWITCH cells.  `IInv` says per direction:

* `SendPart`: the current leg has the largest number, that of all cells sent;
* `LegPart`: the cells on a leg take the receiver's count of the leg to the sender's.
  `Numbering` has the counts in between as a witness `f`; appending a cell extends the
  witness, receiving one shifts it, so no induction over the queue is needed.
  The numbers on a leg are distinct;
* `PlacePart` and `Accounted`: a number is in one place (delivered, queued, on one leg),
  and it is in some place unless the receiver turned it away with its leg;
* `FlowPart`: the DATA cells a leg has in flight are those on it, those received and not
  acknowledged, and those acknowledged by a SENDME under way;
* `DeliverPart`: what the streams got is `1..last_seq_delivered`.

With these, a received cell has either the next number or one above it, and the loop
that empties the queue stops at a gap; that the next number is the least one in the
queue is taken from the well-foundedness of `<` (`LeastNumber`).  A negative relative number
at the sender and a number already delivered at the receiver cannot arise: these are
the two paths on which an end closes legs because of incoherent numbers.  `Count` and `Numbers` are sets and cardinalities over positions, so that
the lemmas on them need no recursion.

### ConfluxPool

`ObjectPart` (the open circuits that point to an object are exactly its legs, and a marked one that still
points to it is alone), `LivePart` (what is in memory is what is pointed to), `UnlinkedPart` (as long as the
client's unlinked set exists, no leg is linked there) and `CellPart` (which cells of the
handshake may be under way for a circuit in which state at both ends).  The last two
make `LinkedAtExitFirst` inductive; `ObjectPart` is what the code relies on when
`linked_circuit_free` frees an object without a reference count.  `LinkedCloseFacts` reduces
the two ways a linked leg closes, alone or with the whole set, to one description that
the proofs use.  `AcksAreExpected` is an action property: the branch of
`conflux_process_linked_ack` that closes the circuit is not reachable between honest ends.

### StreamFlow

The two ends share only a stream id, and the client may use an id again while the exit
still has cells of the stream that had it before.  `IInv` says:

* `OwnPart`: a connection is on a circuit exactly while it waits for its CONNECTED or is
  open, and an id of a circuit belongs to one connection or to one half edge, or to none;
* `Links`, per circuit: package window of one end, DATA cells on the way, and an increment per
  circuit SENDME on the way back make up the deliver window of the other end, and every
  SENDME that is due has been sent;
* `Stream`, per id of a circuit: the client has a `View` of it, either that of its edge or one
  that its half edge stands for (`HalfView`: the half edge has forgotten the numbers, so
  there only has to be a view that fits).  With that view the stream is `Begun` (the
  BEGIN is on the way, with the data sent ahead behind it), `Alive` (the exit has an edge for it; both
  stream windows balance, and the data on the links is exactly what one end has sent and the
  other has not got) or `Over` (the exit has closed it; the END is the last cell on its way
  unless the client has closed too).  Without a view, no BEGIN and no cell to the client
  is left (`Unused`), which is what makes an id safe to use again;
* `EdgePart`, `ClientPart`, `ExitPart`: the buffers of an edge continue what it has sent without a gap,
  and what it keeps for a retry is all that left its inbuf;
* `Exits` and `FlowPart`: an edge with both windows open reads and has nothing left to send.
  For the client's edge this holds on its first circuit only, see above.

`DataAt` leaves out the data in front of a BEGIN of the same id, so the data of an earlier
stream that is still on the link does not count.  The data of a stream on a link is
described by its numbers (`DataRange`), not as a subsequence, so a cell appended or
taken off needs no induction.  `Packaged` and every result of `Resumed` are reduced to one
description of what an end sends, whatever the shares and their order, so that each action is
proved once for the circuit it is about, and all other circuits stay as they are (`Elsewhere`).
`NeverStalls` follows from the invariant without a step: with empty links the stream is
`Alive`, so both ends have what the other sent; with empty outbufs the deliver windows are
above their thresholds, so the package windows are not zero and `Flows` applies.

`Conn # {}` is assumed because the record of an absent stream needs some connection.

### Workqueue

`QueuePart` and `EntryPart` say where an entry is and what has been done to it, `StartPart`
and `LockPart` who holds which lock at which program point, `CountPart` that
`n_worker_threads_running` counts the threads that are in, `ArgPart` whose turn it is to use or
free each copy of an update's argument.  `Cleanup` adds `ExitPart` and assumes
`~EarlierPool`, `~StartTimeout` and `~EarlyStart`: without any one of them the property fails.
`Refinement` maps an entry to its `EntryStatus` and shows for each action
that it is a step of `WorkPool` or leaves the status of every entry alone.  Cancelling removes
an entry from its queue by position (`SubSeq \o SubSeq`); that the rest keeps its
order and loses nothing else is `EntryCancel`.

### OnionHandshake

`QueuePart` (list, count and pointers), `CircPart` (a waiting circuit is in memory and
never had a task; circuits with a channel or marked for close are in memory) and `TaskPart`
(`workqueue_entry` points to a task exactly while the pool has one, and the circuit's
memory stays until then).  `TasksCounted` is part of `IInv`, since otherwise the
counter could pass zero.  The proofs are about cardinalities: `QueueOf` and `Staying` give the
queue after the removal of expired entries by the positions that stay.

### ChannelScheduler

In the middle of a run the heap and the states do not agree, so `HeapPart` and `RunPart`
say per program point which channel is out of the heap and why.  `TablePart` has the fact
that `NoSchedBug` needs: a channel that KIST has served in this run does not wait to
write, so writing its outbuf cannot make it PENDING in the middle of the run, without
an entry in the socket table.  `LifePart` gives the scheduler states that a channel
may have in each state of its life.

### Only model-checked

* Liveness, which needs fairness: `AllDataDelivered`, `AllDelivered`, `SetSettles`,
  `ExitReleasesSet`, `QueueDrains`, `ClosedIsFreed`, `QueuedCellsLeave`, and the properties
  of `workqueue_liveness`.
* The runs that show a violation.

Every invariant and every refinement of a passing run is proved.

## Plan

1. Done: `Sendme`, `Conflux`, `ConfluxPool`, `StreamFlow`, `Workqueue` over `WorkPool`,
   `OnionHandshake`, `ChannelScheduler`.
2. Done: proofs of the safety invariants and refinements of all of these.
3. Candidates after that: XON and XOFF, Vegas as a bounded numeric model, entry
   guards, shared random phases with restarts, padding negotiation.

## Not modelled

Everything with status `not_modelled` in `PROJECT.json`, each with its reason: in
short, what is planned above; parsing, formatting, documents and I/O; cryptography,
of which the models use only that a digest identifies a cell; statistics in
floating point.  Within the modelled parts, these are left out: RTT and BDP
estimates, the blocked state of circuit queues (no edge stops reading because the cell queue of its
circuit is above its high-water mark, `relay.c:1604` and `2569`, where Tor leaves edges stopped until the
queue has drained), the channel state MAINT (nothing calls `scheduler_channel_doesnt_want_writes` for a channel that
is open: only an OR connection that leaves its open state would), resolves, rendezvous streams and
XON/XOFF, a circuit that fails under its streams, failure to create a thread (asserted
against), the emergency release of out-of-order queues, memory pressure inside
`conflux_launch_leg`, the 32-bit field for the 64-bit relative sequence number of a
SWITCH cell, the arithmetic of Vegas, and the exit of the process outside
the thread pool.
