-------------------------- MODULE ChannelScheduler --------------------------
(***************************************************************************)
(* The channel scheduler: which channels may put cells from their circuit  *)
(* queues on the outbuf of their connection, and when.                     *)
(*                                                                         *)
(* A channel is in one of four scheduler states; the PENDING ones are in   *)
(* the heap channels_pending.  The event run_sched_ev runs the scheduler,  *)
(* KIST (full or lite) or Vanilla, which pops channels until the heap is   *)
(* empty.  Everything happens in the main thread, but calls made inside    *)
(* the loop close channels and change scheduler states under it.           *)
(*                                                                         *)
(* Sizes are counted in cells.  Which channel the heap prefers is left     *)
(* open.  A channel and its OR connection are one: the channel is CLOSING  *)
(* when the connection is marked for close, CLOSED when it is gone.        *)
(***************************************************************************)
EXTENDS Integers, FiniteSets

CONSTANTS
    Channel,
    None,          \* the null channel_t
    HighWater,     \* or_conn_highwatermark()
    LowWater,      \* or_conn_lowwatermark()
    MaxLimit,      \* bound: the largest KIST limit of one run
    CellsToQueue,  \* bound: cells the circuits of a channel have to send
    DestroysToSend,\* bound: DESTROY cells for a channel
    DirectWrites,  \* bound: cells that bypass the queues (handshake, padding)
    MaxSwitches    \* bound: changes of the scheduler

ASSUME ConstantsAssumption ==
    /\ None \notin Channel /\ IsFiniteSet(Channel)
    /\ HighWater \in Nat /\ LowWater \in 1..HighWater
    /\ MaxLimit \in Nat \ {0} /\ MaxSwitches \in Nat
    /\ CellsToQueue \in [Channel -> Nat] /\ DestroysToSend \in [Channel -> Nat]
    /\ DirectWrites \in [Channel -> Nat]

VARIABLES
    chan_state,        \* channel_t.state
    scheduler_state,   \* channel_t.scheduler_state
    channels_pending,  \* the heap
    run_sched_ev,      \* the scheduler event is active or its timer runs
    the_scheduler,
    n_cells,           \* circuitmux: cells of the circuits
    destroy_queue,     \* circuitmux: DESTROY cells
    last_cell_was_destroy,
    outbuf,            \* cells in the outbuf of the connection
    socket_table,      \* KIST: what a channel may still write in this run
    pc,                \* "main", or the place inside the run
    chan, prev_chan,   \* the run: the channel served, the one before
    room,              \* Vanilla: cells it may still flush for chan
    outbuf_table,      \* KIST: the channels served
    to_readd,          \* channels to add to the heap after the loop
    todo,              \* inputs still to come, per channel
    switches,          \* changes of the scheduler so far
    sched_bug          \* history: a SCHED_BUG condition was met

queues == <<n_cells, destroy_queue, last_cell_was_destroy>>
run_state == <<pc, chan, prev_chan, room, outbuf_table, to_readd>>
sched == <<scheduler_state, channels_pending, run_sched_ev, sched_bug>>
vars == <<chan_state, sched, the_scheduler, queues, outbuf, socket_table, run_state, todo,
          switches>>

NoEntry == -1

TypeOK ==
    /\ chan_state \in [Channel -> {"OPENING", "OPEN", "CLOSING", "CLOSED", "FREED"}]
    /\ scheduler_state \in [Channel ->
          {"IDLE", "WAITING_FOR_CELLS", "WAITING_TO_WRITE", "PENDING"}]
    /\ channels_pending \subseteq Channel
    /\ run_sched_ev \in BOOLEAN /\ sched_bug \in BOOLEAN
    /\ the_scheduler \in {"KIST", "VANILLA"}
    /\ n_cells \in [Channel -> Nat] /\ destroy_queue \in [Channel -> Nat]
    /\ last_cell_was_destroy \in [Channel -> BOOLEAN]
    /\ outbuf \in [Channel -> Nat]
    /\ socket_table \in [Channel -> NoEntry..MaxLimit]
    /\ pc \in {"main", "loop", "previous", "flush", "vanilla", "write"}
    /\ chan \in Channel \cup {None} /\ prev_chan \in Channel \cup {None}
    /\ room \in Nat
    /\ outbuf_table \subseteq Channel /\ to_readd \subseteq Channel
    /\ todo \in [Channel -> [cells : Nat, destroys : Nat, direct : Nat]]
    /\ switches \in 0..MaxSwitches

Init ==
    /\ chan_state = [c \in Channel |-> "OPENING"]
    /\ scheduler_state = [c \in Channel |-> "IDLE"]
    /\ channels_pending = {} /\ run_sched_ev = FALSE /\ sched_bug = FALSE
    /\ the_scheduler \in {"KIST", "VANILLA"}
    /\ n_cells = [c \in Channel |-> 0] /\ destroy_queue = [c \in Channel |-> 0]
    /\ last_cell_was_destroy = [c \in Channel |-> FALSE]
    /\ outbuf = [c \in Channel |-> 0]
    /\ socket_table = [c \in Channel |-> NoEntry]
    /\ pc = "main" /\ chan = None /\ prev_chan = None /\ room = 0
    /\ outbuf_table = {} /\ to_readd = {}
    /\ todo = [c \in Channel |-> [cells |-> CellsToQueue[c], destroys |-> DestroysToSend[c],
                                  direct |-> DirectWrites[c]]]
    /\ switches = 0

-----------------------------------------------------------------------------
(* Scheduler states.                                                       *)

IsOpen(c) == chan_state[c] = "OPEN"

SetState(c, s) == scheduler_state' = [scheduler_state EXCEPT ![c] = s]

\* The channel enters the heap, and schedule() makes sure that the event comes.
MakePending(c) ==
    /\ SetState(c, "PENDING")
    /\ sched_bug' = (sched_bug \/ c \in channels_pending)
    /\ channels_pending' = channels_pending \cup {c}
    /\ run_sched_ev' = TRUE

OnlyState(c, s) ==
    SetState(c, s) /\ UNCHANGED <<channels_pending, run_sched_ev, sched_bug>>

\* scheduler_channel_has_waiting_cells
HasWaitingCells(c) ==
    CASE scheduler_state[c] = "WAITING_FOR_CELLS" -> MakePending(c)
      [] scheduler_state[c] = "IDLE"              -> OnlyState(c, "WAITING_TO_WRITE")
      [] OTHER                                    -> UNCHANGED sched

\* scheduler_channel_wants_writes
WantsWrites(c) ==
    CASE scheduler_state[c] = "WAITING_TO_WRITE" -> MakePending(c)
      [] scheduler_state[c] = "IDLE"             -> OnlyState(c, "WAITING_FOR_CELLS")
      [] OTHER                                   -> UNCHANGED sched

FaultyRelease(c, s) ==
    /\ SetState(c, s)
    /\ socket_table' = [socket_table EXCEPT ![c] = NoEntry]
    /\ UNCHANGED <<channels_pending, run_sched_ev, sched_bug>>

\* scheduler_release_channel, for a caller that leaves the channel in state s.
Release(c, s) ==
    /\ SetState(c, s)
    /\ socket_table' = IF the_scheduler = "KIST" THEN [socket_table EXCEPT ![c] = NoEntry]
                       ELSE socket_table
    /\ channels_pending' = channels_pending \ {c}
    /\ UNCHANGED <<run_sched_ev, sched_bug>>

\* The connection is marked for close and its channel released.
Condemn(c, s) ==
    /\ chan_state' = [chan_state EXCEPT ![c] = "CLOSING"]
    /\ Release(c, s)

-----------------------------------------------------------------------------
(* The circuitmux and the outbuf.                                          *)

Queued(c) == n_cells[c] + destroy_queue[c]

\* channel_num_cells_writeable and channel_tls_num_cells_writeable_method: the
\* subtraction is unsigned, so an outbuf that is more than a cell above the high
\* water mark counts as INT_MAX cells of room, which is more than is ever queued.
Writeable(c) ==
    IF ~IsOpen(c) THEN 0
    ELSE IF outbuf[c] > HighWater THEN CellsToQueue[c] + DestroysToSend[c] + 1
    ELSE HighWater - outbuf[c]

\* One turn of channel_flush_from_first_active_circuit: the circuitmux alternates
\* between DESTROY cells and the cells of circuits.  A connection that is marked
\* for close takes no more data.
FlushOne(c) ==
    LET destroy == destroy_queue[c] > 0 /\ (~last_cell_was_destroy[c] \/ n_cells[c] = 0)
    IN  /\ destroy_queue' = [destroy_queue EXCEPT ![c] = IF destroy THEN @ - 1 ELSE @]
        /\ n_cells' = [n_cells EXCEPT ![c] = IF destroy THEN @ ELSE @ - 1]
        /\ last_cell_was_destroy' = [last_cell_was_destroy EXCEPT ![c] = destroy]
        /\ outbuf' = [outbuf EXCEPT ![c] = IF IsOpen(c) THEN @ + 1 ELSE @]

FaultyFlushedSome(c) == UNCHANGED sched

\* connection_or_flushed_some
FlushedSome(c) == IF outbuf'[c] < LowWater THEN WantsWrites(c) ELSE UNCHANGED sched

\* connection_handle_write with something to write: the kernel takes k cells.
KernelTakes(c, k) ==
    /\ chan_state[c] \in {"OPENING", "OPEN"}
    /\ outbuf' = [outbuf EXCEPT ![c] = @ - k]
    /\ FlushedSome(c)
    /\ UNCHANGED <<chan_state, socket_table>>

\* connection_handle_write with an error from the socket.
KernelFails(c) ==
    /\ chan_state[c] \in {"OPENING", "OPEN"}
    /\ Condemn(c, "IDLE")
    /\ UNCHANGED outbuf

-----------------------------------------------------------------------------
(* Events of the main loop.                                                *)

AtMain == pc = "main" /\ UNCHANGED <<run_state, the_scheduler, switches>>

\* channel_tls_handle_state_change_on_orconn
Open(c) ==
    /\ AtMain
    /\ chan_state[c] = "OPENING"
    /\ chan_state' = [chan_state EXCEPT ![c] = "OPEN"]
    /\ IF outbuf[c] < HighWater THEN WantsWrites(c) ELSE UNCHANGED sched
    /\ UNCHANGED <<queues, outbuf, socket_table, todo>>

\* connection_or_write_cell_to_buf and its kin, for cells that no circuit queues.
DirectWrite(c) ==
    /\ AtMain
    /\ chan_state[c] \in {"OPENING", "OPEN"}
    /\ todo[c].direct > 0
    /\ todo' = [todo EXCEPT ![c].direct = @ - 1]
    /\ outbuf' = [outbuf EXCEPT ![c] = @ + 1]
    /\ UNCHANGED <<chan_state, sched, queues, socket_table>>

\* append_cell_to_circuit_queue; until the connection is gone circuits also use a
\* channel that is closing.
AppendCell(c) ==
    /\ AtMain
    /\ chan_state[c] \in {"OPEN", "CLOSING"}
    /\ todo[c].cells > 0
    /\ todo' = [todo EXCEPT ![c].cells = @ - 1]
    /\ n_cells' = [n_cells EXCEPT ![c] = @ + 1]
    /\ HasWaitingCells(c)
    /\ UNCHANGED <<chan_state, destroy_queue, last_cell_was_destroy, outbuf, socket_table>>

\* channel_send_destroy, circuitmux_append_destroy_cell: the scheduler is not told;
\* instead one cell goes out at once when the outbuf is empty.
SendDestroy(c) ==
    /\ AtMain
    /\ IsOpen(c)
    /\ todo[c].destroys > 0
    /\ todo' = [todo EXCEPT ![c].destroys = @ - 1]
    /\ \/ /\ outbuf[c] > 0
          /\ destroy_queue' = [destroy_queue EXCEPT ![c] = @ + 1]
          /\ UNCHANGED <<n_cells, last_cell_was_destroy, outbuf>>
       \/ /\ outbuf[c] = 0 /\ (~last_cell_was_destroy[c] \/ n_cells[c] = 0)
          /\ last_cell_was_destroy' = [last_cell_was_destroy EXCEPT ![c] = TRUE]
          /\ outbuf' = [outbuf EXCEPT ![c] = 1]
          /\ UNCHANGED <<n_cells, destroy_queue>>
       \/ /\ outbuf[c] = 0 /\ last_cell_was_destroy[c] /\ n_cells[c] > 0
          /\ destroy_queue' = [destroy_queue EXCEPT ![c] = @ + 1]
          /\ n_cells' = [n_cells EXCEPT ![c] = @ - 1]
          /\ last_cell_was_destroy' = [last_cell_was_destroy EXCEPT ![c] = FALSE]
          /\ outbuf' = [outbuf EXCEPT ![c] = 1]
    /\ UNCHANGED <<chan_state, sched, socket_table>>

\* circuitmux_detach_circuit: a circuit that still has a cell queued is freed.  The out of
\* memory handler empties the queues of the circuits it closes and leaves the circuitmux
\* to a flush that finds them empty, so this may also show in the middle of a run.
CircuitLeaves(c) ==
    /\ n_cells[c] > 0
    /\ pc \in {"flush", "vanilla"} => c = chan
    /\ pc \in {"main", "flush", "vanilla"}
    /\ n_cells' = [n_cells EXCEPT ![c] = @ - 1]
    /\ UNCHANGED <<chan_state, sched, the_scheduler, destroy_queue, last_cell_was_destroy,
                   outbuf, socket_table, run_state, todo, switches>>

\* The connection is writable.
HandleWrite(c) ==
    /\ AtMain
    /\ outbuf[c] > 0
    /\ (\E k \in 1..outbuf[c] : KernelTakes(c, k)) \/ KernelFails(c)
    /\ UNCHANGED <<queues, todo>>

\* channel_mark_for_close, channel_close_from_lower_layer, channel_close_for_error
Close(c) ==
    /\ AtMain
    /\ chan_state[c] \in {"OPENING", "OPEN"}
    /\ Condemn(c, "IDLE")
    /\ UNCHANGED <<queues, outbuf, todo>>

\* connection_or_about_to_close, channel_closed: the circuits leave the channel.
Closed(c) ==
    /\ AtMain
    /\ chan_state[c] = "CLOSING"
    /\ chan_state' = [chan_state EXCEPT ![c] = "CLOSED"]
    /\ n_cells' = [n_cells EXCEPT ![c] = 0]
    /\ Release(c, "IDLE")
    /\ UNCHANGED <<destroy_queue, last_cell_was_destroy, outbuf, todo>>

\* channel_run_cleanup, channel_free_
Free(c) ==
    /\ AtMain
    /\ chan_state[c] = "CLOSED"
    /\ chan_state' = [chan_state EXCEPT ![c] = "FREED"]
    /\ Release(c, "IDLE")
    /\ UNCHANGED <<queues, outbuf, todo>>

\* scheduler_conf_changed, scheduler_notify_networkstatus_changed: set_scheduler
SwitchScheduler ==
    /\ pc = "main"
    /\ switches < MaxSwitches
    /\ switches' = switches + 1
    /\ the_scheduler' = IF the_scheduler = "KIST" THEN "VANILLA" ELSE "KIST"
    /\ socket_table' = [c \in Channel |-> NoEntry]
    /\ UNCHANGED <<chan_state, sched, queues, outbuf, run_state, todo>>

-----------------------------------------------------------------------------
(* The run of the scheduler.                                               *)

FaultyStartRun(limit) ==
    /\ pc = "main" /\ run_sched_ev
    /\ run_sched_ev' = FALSE
    /\ pc' = "loop"
    /\ socket_table' = [c \in Channel |-> IF socket_table[c] = NoEntry THEN NoEntry
                                          ELSE limit[c]]
    /\ UNCHANGED <<chan_state, scheduler_state, channels_pending, sched_bug, the_scheduler,
                   queues, outbuf, chan, prev_chan, room, outbuf_table, to_readd, todo,
                   switches>>

\* The event fires.  KIST asks the kernel how much each pending channel may write.
StartRun(limit) ==
    /\ pc = "main" /\ run_sched_ev
    /\ run_sched_ev' = FALSE
    /\ pc' = "loop"
    /\ socket_table' = IF the_scheduler = "KIST"
                       THEN [c \in Channel |-> IF c \in channels_pending THEN limit[c]
                                               ELSE socket_table[c]]
                       ELSE socket_table
    /\ UNCHANGED <<chan_state, scheduler_state, channels_pending, sched_bug, the_scheduler,
                   queues, outbuf, chan, prev_chan, room, outbuf_table, to_readd, todo,
                   switches>>

Running == UNCHANGED <<the_scheduler, todo, switches>>

\* KIST takes the next channel of the heap.
KistPop(c) ==
    /\ pc = "loop" /\ the_scheduler = "KIST" /\ Running
    /\ c \in channels_pending
    /\ channels_pending' = channels_pending \ {c}
    /\ chan' = c
    /\ outbuf_table' = outbuf_table \cup {c}
    /\ prev_chan' = IF prev_chan = None THEN c ELSE prev_chan
    /\ pc' = IF prev_chan \in {None, c} THEN "flush" ELSE "previous"
    /\ UNCHANGED <<chan_state, scheduler_state, run_sched_ev, sched_bug, queues, outbuf,
                   socket_table, room, to_readd>>

\* Vanilla takes the next channel of the heap; without room it has to wait.
VanillaPop(c) ==
    /\ pc = "loop" /\ the_scheduler = "VANILLA" /\ Running
    /\ c \in channels_pending
    /\ channels_pending' = channels_pending \ {c}
    /\ room' = Writeable(c)
    /\ \/ Writeable(c) > 0 /\ pc' = "vanilla" /\ chan' = c /\ UNCHANGED scheduler_state
       \/ Writeable(c) = 0 /\ SetState(c, "WAITING_TO_WRITE") /\ UNCHANGED <<pc, chan>>
    /\ UNCHANGED <<chan_state, run_sched_ev, sched_bug, queues, outbuf, socket_table,
                   prev_chan, outbuf_table, to_readd>>

\* KIST, channel_write_to_kernel for x: nothing when there is nothing to write or
\* the connection is marked, else the kernel takes some cells, none, or fails.
WriteToKernel(x) ==
    \/ outbuf[x] > 0 /\ \E k \in 1..outbuf[x] : KernelTakes(x, k)
    \/ outbuf[x] > 0 /\ KernelFails(x)
    \/ UNCHANGED <<chan_state, sched, outbuf, socket_table>>

\* KIST has switched to another channel and considers writing the previous one.
WritePrevious ==
    /\ pc = "previous" /\ Running
    /\ pc' = "flush"
    /\ prev_chan' = chan
    /\ \/ WriteToKernel(prev_chan) /\ outbuf_table' = outbuf_table \ {prev_chan}
       \/ UNCHANGED <<chan_state, sched, outbuf, socket_table, outbuf_table>>
    /\ UNCHANGED <<queues, chan, room, to_readd>>

CanWrite(c) == socket_table[c] # 0

\* KIST's decision, with more cells queued or not, and able to write or not.
Decide(c, more, can) ==
    CASE ~more ->
           /\ SetState(c, "WAITING_FOR_CELLS")
           /\ UNCHANGED <<channels_pending, to_readd>>
      [] more /\ ~can ->
           /\ to_readd' = to_readd \cup {c}
           /\ UNCHANGED <<scheduler_state, channels_pending>>
      [] OTHER ->
           /\ SetState(c, "PENDING")
           /\ channels_pending' = channels_pending \cup {c}
           /\ UNCHANGED to_readd

\* KIST serves chan: one cell, if the channel is open and its limit allows it.  (That
\* chan is not in the heap meanwhile, the code checks only when it puts it back.)
KistFlush ==
    /\ pc = "flush" /\ Running /\ pc' = "loop"
    /\ sched_bug' = (sched_bug \/ socket_table[chan] = NoEntry \/ chan \in channels_pending)
    /\ CASE CanWrite(chan) /\ ~IsOpen(chan) ->
              /\ SetState(chan, "IDLE")
              /\ UNCHANGED <<chan_state, channels_pending, queues, outbuf, socket_table,
                             to_readd>>
         [] CanWrite(chan) /\ IsOpen(chan) /\ Queued(chan) = 0 ->
              /\ SetState(chan, "WAITING_FOR_CELLS")
              /\ UNCHANGED <<chan_state, channels_pending, queues, outbuf, socket_table,
                             to_readd>>
         [] CanWrite(chan) /\ IsOpen(chan) /\ Queued(chan) > 0 ->
              /\ FlushOne(chan)
              /\ socket_table' = [socket_table EXCEPT ![chan] = @ - 1]
              /\ Decide(chan, Queued(chan) > 1, socket_table[chan] # 1)
              /\ UNCHANGED chan_state
         [] OTHER ->
              /\ Decide(chan, Queued(chan) > 0, FALSE)
              /\ UNCHANGED <<chan_state, queues, outbuf, socket_table>>
    /\ UNCHANGED <<run_sched_ev, chan, prev_chan, room, outbuf_table>>

\* KIST: the outbuf refuses the cell, and the connection is marked for close.
KistFlushFails ==
    /\ pc = "flush" /\ Running /\ pc' = "loop"
    /\ CanWrite(chan) /\ IsOpen(chan) /\ Queued(chan) > 0
    /\ FlushOne(chan)
    /\ Condemn(chan, "IDLE")
    /\ UNCHANGED <<chan, prev_chan, room, outbuf_table, to_readd>>

\* Vanilla flushes cell after cell, as many as there is room for.
VanillaFlush ==
    /\ pc = "vanilla" /\ Running
    /\ IsOpen(chan) /\ room > 0 /\ Queued(chan) > 0
    /\ room' = room - 1
    /\ FlushOne(chan)
    /\ UNCHANGED <<chan_state, sched, socket_table>> \/ Condemn(chan, "IDLE")
    /\ UNCHANGED <<pc, chan, prev_chan, outbuf_table, to_readd>>

\* One of them has broken the connection: no further cell is written or counted, and the
\* loop throws away all that is queued.
VanillaDiscards ==
    /\ pc = "vanilla" /\ Running
    /\ ~IsOpen(chan) /\ room > 0 /\ Queued(chan) > 0
    /\ n_cells' = [n_cells EXCEPT ![chan] = 0]
    /\ destroy_queue' = [destroy_queue EXCEPT ![chan] = 0]
    /\ \E d \in BOOLEAN :
          last_cell_was_destroy' = [last_cell_was_destroy EXCEPT ![chan] = d]
    /\ UNCHANGED <<chan_state, sched, outbuf, socket_table, run_state>>

\* Vanilla is done with chan.
VanillaDecides ==
    /\ pc = "vanilla" /\ Running
    /\ room = 0 \/ Queued(chan) = 0
    /\ pc' = "loop" /\ room' = 0
    /\ \/ room > 0 /\ SetState(chan, "WAITING_FOR_CELLS") /\ UNCHANGED to_readd
       \/ /\ room = 0 /\ Queued(chan) > 0 /\ Writeable(chan) > 0
          /\ to_readd' = to_readd \cup {chan}
          /\ UNCHANGED scheduler_state
       \/ /\ room = 0 /\ Queued(chan) > 0 /\ Writeable(chan) = 0
          /\ SetState(chan, "WAITING_TO_WRITE")
          /\ UNCHANGED to_readd
       \/ /\ room = 0 /\ Queued(chan) = 0
          /\ SetState(chan, IF Writeable(chan) > 0 THEN "WAITING_FOR_CELLS" ELSE "IDLE")
          /\ UNCHANGED to_readd
    /\ UNCHANGED <<chan_state, channels_pending, run_sched_ev, sched_bug, queues, outbuf,
                   socket_table, chan, prev_chan, outbuf_table>>

\* The heap is empty.
EndLoop ==
    /\ pc = "loop" /\ Running
    /\ channels_pending = {}
    /\ pc' = "write"
    /\ UNCHANGED <<chan_state, sched, queues, outbuf, socket_table, chan, prev_chan, room,
                   outbuf_table, to_readd>>

\* KIST writes the outbufs of the channels it has served.
WriteOutbuf(x) ==
    /\ pc = "write" /\ Running
    /\ x \in outbuf_table
    /\ WriteToKernel(x)
    /\ outbuf_table' = outbuf_table \ {x}
    /\ UNCHANGED <<queues, pc, chan, prev_chan, room, to_readd>>

FaultyFinishRun ==
    /\ pc = "write" /\ Running
    /\ outbuf_table = {}
    /\ scheduler_state' = [c \in Channel |-> IF c \in to_readd THEN "PENDING"
                                             ELSE scheduler_state[c]]
    /\ channels_pending' = channels_pending \cup to_readd
    /\ pc' = "main" /\ to_readd' = {} /\ chan' = None /\ prev_chan' = None
    /\ UNCHANGED <<chan_state, queues, outbuf, socket_table, room, outbuf_table, sched_bug,
                   run_sched_ev>>

\* Channels with cells and no room return to the heap, even those that have closed
\* since; scheduler_evt_callback then asks for the next run if there is work.
FinishRun ==
    /\ pc = "write" /\ Running
    /\ outbuf_table = {}
    /\ scheduler_state' = [c \in Channel |-> IF c \in to_readd THEN "PENDING"
                                             ELSE scheduler_state[c]]
    /\ channels_pending' = channels_pending \cup to_readd
    /\ sched_bug' = \/ sched_bug
                    \/ the_scheduler = "VANILLA" /\ to_readd \cap channels_pending # {}
    /\ run_sched_ev' = (run_sched_ev \/ channels_pending' # {})
    /\ pc' = "main" /\ to_readd' = {} /\ chan' = None /\ prev_chan' = None
    /\ UNCHANGED <<chan_state, queues, outbuf, socket_table, room, outbuf_table>>

RunStep ==
    \/ \E c \in Channel : KistPop(c) \/ VanillaPop(c) \/ WriteOutbuf(c)
    \/ WritePrevious \/ KistFlush \/ KistFlushFails \/ VanillaFlush
    \/ VanillaDiscards \/ VanillaDecides \/ EndLoop \/ FinishRun

Next ==
    \/ \E c \in Channel : Open(c) \/ DirectWrite(c) \/ AppendCell(c) \/ SendDestroy(c)
                            \/ CircuitLeaves(c) \/ HandleWrite(c) \/ Close(c) \/ Closed(c) \/ Free(c)
    \/ SwitchScheduler
    \/ \E limit \in [Channel -> 0..MaxLimit] : StartRun(limit)
    \/ RunStep

Spec == Init /\ [][Next]_vars

\* The main loop serves its events; a writable connection gets rid of its outbuf;
\* acknowledgements open the TCP window of a pending channel again and again.
Fairness ==
    /\ WF_vars(RunStep)
    /\ WF_vars(\E limit \in [Channel -> 0..MaxLimit] : StartRun(limit))
    /\ \A c \in Channel :
         /\ WF_vars(HandleWrite(c))
         /\ SF_vars(\E limit \in [Channel -> 0..MaxLimit] :
                       c \in channels_pending /\ limit[c] > 0 /\ StartRun(limit))

FairSpec == Spec /\ Fairness

-----------------------------------------------------------------------------
(* Properties.                                                             *)

\* Between two runs the heap holds exactly the channels in state PENDING, although
\* channels close while they are outside the heap in the middle of a run; and all state keeps its
\* type.
HeapMatchesState ==
    /\ TypeOK
    /\ pc = "main" => channels_pending = {c \in Channel : scheduler_state[c] = "PENDING"}

\* Nothing in the scheduler refers to a channel that has been freed, and no channel
\* without a connection waits in the heap, not even one that a run put back after
\* it had closed.
NoStaleChannel ==
    /\ \A c \in channels_pending \cup to_readd : chan_state[c] \in {"OPEN", "CLOSING"}
    /\ \A c \in Channel : chan_state[c] = "FREED" => socket_table[c] = NoEntry

\* The SCHED_BUG conditions are never met: no channel enters the heap twice, and KIST
\* has an entry in its socket table for every channel it serves.
NoSchedBug == ~sched_bug

\* A channel in the heap is never forgotten: the scheduler event is on its way.
RunIsScheduled == pc = "main" /\ channels_pending # {} => run_sched_ev

\* Cells that the scheduler knows of, DESTROY cells with them, leave their queues as
\* long as the channel stays open.
QueuedCellsLeave ==
    \A c \in Channel :
        IsOpen(c) /\ Queued(c) > 0 /\ scheduler_state[c] \in {"PENDING", "WAITING_TO_WRITE"}
            ~> Queued(c) = 0 \/ ~IsOpen(c)

\* Vanilla puts a cell on an outbuf only below the high water mark.
StopsAtHighWater ==
    [][pc = "vanilla" => \A c \in Channel : outbuf'[c] > outbuf[c] => outbuf[c] < HighWater]_vars
=============================================================================
