----------------------- MODULE ChannelSchedulerProofs -----------------------
(***************************************************************************)
(* Proofs about ChannelScheduler: for any set of channels, any water marks *)
(* and any number of cells, the heap, the scheduler states and the tables  *)
(* of a run agree, no SCHED_BUG condition is met, nothing refers to a      *)
(* channel that is gone, and a heap with channels in it has its event.     *)
(***************************************************************************)
EXTENDS ChannelScheduler, TLAPS

-----------------------------------------------------------------------------
(* The inductive invariant.                                                *)

\* The run has taken chan out of the heap and has not yet decided about it.
InService == pc \in {"previous", "flush", "vanilla"}

\* A channel is PENDING when it is in the heap, is to return to it, or is being served.
\* Only a channel that a failed write closed waits for its return in another state.
HeapPart ==
    /\ \A c \in channels_pending : scheduler_state[c] = "PENDING"
    /\ \A c \in Channel : scheduler_state[c] = "PENDING" =>
         c \in channels_pending \/ c \in to_readd \/ (InService /\ c = chan)
    /\ \A c \in to_readd : /\ c \notin channels_pending
                           /\ \/ scheduler_state[c] = "PENDING"
                              \/ scheduler_state[c] = "IDLE" /\ chan_state[c] = "CLOSING"

\* What the local variables of a run hold at its program points.
RunPart ==
    /\ pc = "main" => to_readd = {} /\ outbuf_table = {} /\ prev_chan = None
    /\ InService => chan \in Channel /\ chan \notin channels_pending /\ chan \notin to_readd
    /\ pc \in {"previous", "flush"} => scheduler_state[chan] = "PENDING"
    /\ pc \in {"previous", "flush"} => the_scheduler = "KIST"
    /\ pc = "vanilla" => \/ scheduler_state[chan] = "PENDING"
                         \/ scheduler_state[chan] = "IDLE" /\ chan_state[chan] = "CLOSING"
    /\ pc = "vanilla" => the_scheduler = "VANILLA"
    /\ pc = "previous" => prev_chan \in Channel /\ prev_chan # chan

\* The tables of KIST.  Vanilla leaves them empty.  A channel that KIST has served in
\* this run does not wait to write, so that writing its outbuf cannot make it PENDING
\* in the middle of the run, when it would have no entry in the socket table.
TablePart ==
    /\ the_scheduler = "VANILLA" => /\ outbuf_table = {} /\ prev_chan = None
                                    /\ \A c \in Channel : socket_table[c] = NoEntry
    /\ \A c \in Channel : c \in outbuf_table \/ c = prev_chan =>
         scheduler_state[c] # "WAITING_TO_WRITE"
    /\ the_scheduler = "KIST" /\ pc # "main" =>
         \A c \in Channel : c \in channels_pending \/ (InService /\ c = chan) =>
           socket_table[c] # NoEntry

\* A channel becomes PENDING only while it is open or closing.
LifePart ==
    \A c \in Channel :
      /\ chan_state[c] = "OPENING" => scheduler_state[c] \in {"IDLE", "WAITING_FOR_CELLS"}
      /\ chan_state[c] \in {"CLOSED", "FREED"} => scheduler_state[c] = "IDLE"
      /\ chan_state[c] = "FREED" => socket_table[c] = NoEntry

IInv == TypeOK /\ HeapPart /\ RunPart /\ TablePart /\ LifePart /\ NoSchedBug /\ RunIsScheduled

-----------------------------------------------------------------------------
(* The operators of the model.                                             *)

\* One turn of the flush takes a cell from a queue that has one.
LEMMA FlushOneType ==
    ASSUME TypeOK, NEW c \in Channel, FlushOne(c), Queued(c) > 0
    PROVE  /\ n_cells' \in [Channel -> Nat] /\ destroy_queue' \in [Channel -> Nat]
           /\ last_cell_was_destroy' \in [Channel -> BOOLEAN]
           /\ outbuf' \in [Channel -> Nat]
<1> DEFINE destroy == destroy_queue[c] > 0 /\ (~last_cell_was_destroy[c] \/ n_cells[c] = 0)
<1>1. n_cells[c] \in Nat /\ destroy_queue[c] \in Nat /\ outbuf[c] \in Nat
  BY DEF TypeOK
<1>2. CASE destroy
  BY <1>1, <1>2 DEF TypeOK, FlushOne
<1>3. CASE ~destroy
  <2>1. n_cells[c] > 0
    BY <1>1, <1>3 DEF Queued
  <2> QED
    BY <1>1, <1>3, <2>1 DEF TypeOK, FlushOne
<1> QED
  BY <1>2, <1>3

\* What the kernel's answer to a write does to a channel: nothing, the outbuf shrinks
\* and the channel may want writes, or the channel is released.
LEMMA WriteToKernelCases ==
    ASSUME TypeOK, NEW x \in Channel, WriteToKernel(x),
           scheduler_state[x] # "WAITING_TO_WRITE"
    PROVE  /\ outbuf' \in [Channel -> Nat]
           /\ UNCHANGED <<run_sched_ev, sched_bug>>
           /\ \/ /\ UNCHANGED <<chan_state, channels_pending, socket_table>>
                 /\ \/ scheduler_state' = scheduler_state
                    \/ /\ scheduler_state[x] = "IDLE"
                       /\ chan_state[x] \in {"OPENING", "OPEN"}
                       /\ scheduler_state' =
                            [scheduler_state EXCEPT ![x] = "WAITING_FOR_CELLS"]
              \/ /\ chan_state[x] \in {"OPENING", "OPEN"}
                 /\ Condemn(x, "IDLE")
<1>1. CASE \E k \in 1..outbuf[x] : KernelTakes(x, k)
  <2>1. PICK k \in 1..outbuf[x] : KernelTakes(x, k)
    BY <1>1
  <2>2. outbuf' \in [Channel -> Nat]
    BY <2>1 DEF TypeOK, KernelTakes
  <2> QED
    BY <2>1, <2>2 DEF KernelTakes, FlushedSome, WantsWrites, OnlyState, SetState, sched
<1>2. CASE KernelFails(x)
  BY <1>2 DEF TypeOK, KernelFails, Condemn, Release
<1>3. CASE UNCHANGED <<chan_state, sched, outbuf, socket_table>>
  BY <1>3 DEF TypeOK, sched
<1> QED
  BY <1>1, <1>2, <1>3 DEF WriteToKernel

\* The scheduler's variables keep their types when a channel gets cells or room.
LEMMA SchedType ==
    ASSUME TypeOK, NEW c \in Channel, WantsWrites(c) \/ HasWaitingCells(c)
    PROVE  /\ scheduler_state' \in [Channel ->
                {"IDLE", "WAITING_FOR_CELLS", "WAITING_TO_WRITE", "PENDING"}]
           /\ channels_pending' \subseteq Channel
           /\ run_sched_ev' \in BOOLEAN /\ sched_bug' \in BOOLEAN
<1>1. CASE MakePending(c)
  BY <1>1 DEF TypeOK, MakePending, SetState
<1>2. CASE OnlyState(c, "WAITING_FOR_CELLS") \/ OnlyState(c, "WAITING_TO_WRITE")
  BY <1>2 DEF TypeOK, OnlyState, SetState
<1>3. CASE UNCHANGED sched
  BY <1>3 DEF TypeOK, sched
<1> QED
  BY <1>1, <1>2, <1>3 DEF WantsWrites, HasWaitingCells

-----------------------------------------------------------------------------
(* Events of the main loop keep the invariant.                             *)

\* Open.
LEMMA InvOpen ==
    ASSUME IInv, NEW c \in Channel, Open(c)
    PROVE  IInv'
<1> USE DEF IInv, Open, AtMain, queues, run_state
<1>1. TypeOK'
  <2>1. CASE WantsWrites(c)
    BY <2>1, SchedType DEF TypeOK
  <2>2. CASE UNCHANGED sched
    BY <2>2 DEF TypeOK, sched
  <2> QED
    BY <2>1, <2>2
<1>2. HeapPart'
  BY DEF TypeOK, HeapPart, RunPart, InService, WantsWrites, MakePending, OnlyState, SetState, sched
<1>3. RunPart'
  BY DEF TypeOK, RunPart, InService, WantsWrites, MakePending, OnlyState, SetState, sched
<1>4. TablePart'
  BY ConstantsAssumption DEF TypeOK, TablePart, RunPart, InService, WantsWrites, MakePending, OnlyState, SetState, sched
<1>5. LifePart'
  BY DEF TypeOK, LifePart, WantsWrites, MakePending, OnlyState, SetState, sched
<1>6. NoSchedBug'
  BY DEF TypeOK, HeapPart, NoSchedBug, WantsWrites, MakePending, OnlyState, SetState, sched
<1>7. RunIsScheduled'
  BY DEF TypeOK, RunIsScheduled, WantsWrites, MakePending, OnlyState, SetState, sched
<1> QED
  BY <1>1, <1>2, <1>3, <1>4, <1>5, <1>6, <1>7

\* DirectWrite.
LEMMA InvDirectWrite ==
    ASSUME IInv, NEW c \in Channel, DirectWrite(c)
    PROVE  IInv'
<1> USE DEF IInv, DirectWrite, AtMain, sched, queues, run_state
<1>1. TypeOK'
  BY ConstantsAssumption DEF TypeOK
<1>2. HeapPart'
  BY DEF TypeOK, HeapPart, RunPart, InService
<1>3. RunPart'
  BY DEF TypeOK, RunPart, InService
<1>4. TablePart'
  BY ConstantsAssumption DEF TypeOK, TablePart, RunPart, InService
<1>5. LifePart'
  BY DEF TypeOK, LifePart
<1>6. NoSchedBug'
  BY DEF NoSchedBug
<1>7. RunIsScheduled'
  BY DEF RunIsScheduled
<1> QED
  BY <1>1, <1>2, <1>3, <1>4, <1>5, <1>6, <1>7

\* AppendCell, with the MakePending of HasWaitingCells.
LEMMA InvAppendCell ==
    ASSUME IInv, NEW c \in Channel, AppendCell(c)
    PROVE  IInv'
<1> USE DEF IInv, AppendCell, AtMain, queues, run_state
<1>1. TypeOK'
  BY SchedType DEF TypeOK
<1>2. HeapPart'
  BY DEF TypeOK, HeapPart, RunPart, InService, HasWaitingCells, MakePending, OnlyState, SetState, sched
<1>3. RunPart'
  BY DEF TypeOK, RunPart, InService, HasWaitingCells, MakePending, OnlyState, SetState, sched
<1>4. TablePart'
  BY ConstantsAssumption DEF TypeOK, TablePart, RunPart, InService, HasWaitingCells, MakePending, OnlyState, SetState, sched
<1>5. LifePart'
  BY DEF TypeOK, LifePart, HasWaitingCells, MakePending, OnlyState, SetState, sched
<1>6. NoSchedBug'
  BY DEF TypeOK, HeapPart, NoSchedBug, HasWaitingCells, MakePending, OnlyState, SetState, sched
<1>7. RunIsScheduled'
  BY DEF TypeOK, RunIsScheduled, HasWaitingCells, MakePending, OnlyState, SetState, sched
<1> QED
  BY <1>1, <1>2, <1>3, <1>4, <1>5, <1>6, <1>7

\* SendDestroy.
LEMMA InvSendDestroy ==
    ASSUME IInv, NEW c \in Channel, SendDestroy(c)
    PROVE  IInv'
<1> USE DEF IInv, SendDestroy, AtMain, IsOpen, sched, run_state
<1>1. TypeOK'
  <2>1. n_cells[c] \in Nat /\ destroy_queue[c] \in Nat
    BY DEF TypeOK
  <2>2. /\ n_cells' \in [Channel -> Nat] /\ destroy_queue' \in [Channel -> Nat]
        /\ last_cell_was_destroy' \in [Channel -> BOOLEAN]
        /\ outbuf' \in [Channel -> Nat]
    <3> HIDE DEF SendDestroy
    <3>1. CASE /\ destroy_queue' = [destroy_queue EXCEPT ![c] = @ + 1]
               /\ UNCHANGED <<n_cells, last_cell_was_destroy, outbuf>>
      BY <2>1, <3>1 DEF TypeOK
    <3>2. CASE /\ last_cell_was_destroy' = [last_cell_was_destroy EXCEPT ![c] = TRUE]
               /\ outbuf' = [outbuf EXCEPT ![c] = 1]
               /\ UNCHANGED <<n_cells, destroy_queue>>
      BY <2>1, <3>2 DEF TypeOK
    <3>3. CASE /\ n_cells[c] > 0
               /\ destroy_queue' = [destroy_queue EXCEPT ![c] = @ + 1]
               /\ n_cells' = [n_cells EXCEPT ![c] = @ - 1]
               /\ last_cell_was_destroy' = [last_cell_was_destroy EXCEPT ![c] = FALSE]
               /\ outbuf' = [outbuf EXCEPT ![c] = 1]
      BY <2>1, <3>3 DEF TypeOK
    <3> QED
      BY <3>1, <3>2, <3>3, Zenon DEF SendDestroy
  <2>3. todo' \in [Channel -> [cells : Nat, destroys : Nat, direct : Nat]]
    <3>1. /\ todo \in [Channel -> [cells : Nat, destroys : Nat, direct : Nat]]
          /\ todo[c].destroys > 0 /\ todo' = [todo EXCEPT ![c].destroys = @ - 1]
      BY DEF TypeOK
    <3> HIDE DEF SendDestroy, IInv
    <3> QED
      BY <3>1
  <2>4. UNCHANGED <<chan_state, sched, socket_table, the_scheduler, run_state, switches>>
    OBVIOUS
  <2>5. TypeOK
    OBVIOUS
  <2> HIDE DEF SendDestroy, IInv
  <2> QED
    BY <2>2, <2>3, <2>4, <2>5 DEF TypeOK
<1>2. HeapPart'
  BY DEF TypeOK, HeapPart, RunPart, InService
<1>3. RunPart'
  BY DEF TypeOK, RunPart, InService
<1>4. TablePart'
  BY ConstantsAssumption DEF TypeOK, TablePart, RunPart, InService
<1>5. LifePart'
  BY DEF TypeOK, LifePart
<1>6. NoSchedBug'
  BY DEF NoSchedBug
<1>7. RunIsScheduled'
  BY DEF RunIsScheduled
<1> QED
  BY <1>1, <1>2, <1>3, <1>4, <1>5, <1>6, <1>7

\* CircuitLeaves: only the cell count of the channel changes.
LEMMA InvCircuitLeaves ==
    ASSUME IInv, NEW c \in Channel, CircuitLeaves(c)
    PROVE  IInv'
<1> USE DEF IInv, CircuitLeaves, sched, run_state
<1>1. TypeOK'
  BY DEF TypeOK
<1>2. HeapPart'
  BY DEF TypeOK, HeapPart, RunPart, InService
<1>3. RunPart'
  BY DEF TypeOK, RunPart, InService
<1>4. TablePart'
  BY ConstantsAssumption DEF TypeOK, TablePart, RunPart, InService
<1>5. LifePart'
  BY DEF TypeOK, LifePart
<1>6. NoSchedBug'
  BY DEF NoSchedBug
<1>7. RunIsScheduled'
  BY DEF RunIsScheduled
<1> QED
  BY <1>1, <1>2, <1>3, <1>4, <1>5, <1>6, <1>7

\* HandleWrite, when the kernel takes cells.
LEMMA InvKernelTakes ==
    ASSUME IInv, NEW c \in Channel, NEW k \in 1..outbuf[c], AtMain, KernelTakes(c, k),
           UNCHANGED <<queues, todo>>
    PROVE  IInv'
<1> USE DEF IInv, KernelTakes, FlushedSome, AtMain, queues, run_state
<1>1. TypeOK'
  <2>1. outbuf' \in [Channel -> Nat]
    BY DEF TypeOK
  <2>2. CASE WantsWrites(c)
    BY <2>1, <2>2, SchedType DEF TypeOK
  <2>3. CASE UNCHANGED sched
    BY <2>1, <2>3 DEF TypeOK, sched
  <2> QED
    BY <2>2, <2>3
<1>2. HeapPart'
  BY DEF TypeOK, HeapPart, RunPart, InService, WantsWrites, MakePending, OnlyState, SetState, sched
<1>3. RunPart'
  BY DEF TypeOK, RunPart, InService, WantsWrites, MakePending, OnlyState, SetState, sched
<1>4. TablePart'
  BY ConstantsAssumption DEF TypeOK, TablePart, RunPart, InService, WantsWrites, MakePending, OnlyState, SetState, sched
<1>5. LifePart'
  BY DEF TypeOK, LifePart, WantsWrites, MakePending, OnlyState, SetState, sched
<1>6. NoSchedBug'
  BY DEF TypeOK, HeapPart, NoSchedBug, WantsWrites, MakePending, OnlyState, SetState, sched
<1>7. RunIsScheduled'
  BY DEF TypeOK, RunIsScheduled, WantsWrites, MakePending, OnlyState, SetState, sched
<1> QED
  BY <1>1, <1>2, <1>3, <1>4, <1>5, <1>6, <1>7

\* Close, and HandleWrite when the socket has an error.
LEMMA InvClose ==
    ASSUME IInv, NEW c \in Channel, AtMain, chan_state[c] \in {"OPENING", "OPEN"}, Condemn(c, "IDLE"),
           UNCHANGED <<queues, outbuf, todo>>
    PROVE  IInv'
<1> USE DEF IInv, AtMain, Condemn, Release, SetState, queues, run_state
<1>1. TypeOK'
  BY ConstantsAssumption DEF TypeOK, NoEntry
<1>2. HeapPart'
  BY DEF TypeOK, HeapPart, RunPart, InService
<1>3. RunPart'
  BY DEF TypeOK, RunPart, InService
<1>4. TablePart'
  BY ConstantsAssumption DEF TypeOK, TablePart, RunPart, InService
<1>5. LifePart'
  BY DEF TypeOK, LifePart
<1>6. NoSchedBug'
  BY DEF NoSchedBug
<1>7. RunIsScheduled'
  BY DEF RunIsScheduled
<1> QED
  BY <1>1, <1>2, <1>3, <1>4, <1>5, <1>6, <1>7

\* Closed.
LEMMA InvClosed ==
    ASSUME IInv, NEW c \in Channel, Closed(c)
    PROVE  IInv'
<1> USE DEF IInv, Closed, AtMain, Release, SetState, queues, run_state
<1>1. TypeOK'
  BY ConstantsAssumption DEF TypeOK, NoEntry
<1>2. HeapPart'
  BY DEF TypeOK, HeapPart, RunPart, InService
<1>3. RunPart'
  BY DEF TypeOK, RunPart, InService
<1>4. TablePart'
  BY ConstantsAssumption DEF TypeOK, TablePart, RunPart, InService
<1>5. LifePart'
  BY DEF TypeOK, LifePart
<1>6. NoSchedBug'
  BY DEF NoSchedBug
<1>7. RunIsScheduled'
  BY DEF RunIsScheduled
<1> QED
  BY <1>1, <1>2, <1>3, <1>4, <1>5, <1>6, <1>7

\* Free: KIST drops its entry, and Vanilla has none.
LEMMA InvFree ==
    ASSUME IInv, NEW c \in Channel, Free(c)
    PROVE  IInv'
<1> USE DEF IInv, Free, AtMain, Release, SetState, queues, run_state
<1>1. TypeOK'
  BY ConstantsAssumption DEF TypeOK, NoEntry
<1>2. HeapPart'
  BY DEF TypeOK, HeapPart, RunPart, InService
<1>3. RunPart'
  BY DEF TypeOK, RunPart, InService
<1>4. TablePart'
  BY ConstantsAssumption DEF TypeOK, TablePart, RunPart, InService
<1>5. LifePart'
  BY DEF TypeOK, LifePart, TablePart
<1>6. NoSchedBug'
  BY DEF NoSchedBug
<1>7. RunIsScheduled'
  BY DEF RunIsScheduled
<1> QED
  BY <1>1, <1>2, <1>3, <1>4, <1>5, <1>6, <1>7

\* SwitchScheduler.
LEMMA InvSwitchScheduler ==
    ASSUME IInv, SwitchScheduler
    PROVE  IInv'
<1> USE DEF IInv, SwitchScheduler, sched, queues, run_state
<1>1. TypeOK'
  BY ConstantsAssumption DEF TypeOK, NoEntry
<1>2. HeapPart'
  BY DEF TypeOK, HeapPart, RunPart, InService
<1>3. RunPart'
  BY DEF TypeOK, RunPart, InService
<1>4. TablePart'
  BY ConstantsAssumption DEF TypeOK, TablePart, RunPart, InService
<1>5. LifePart'
  BY DEF TypeOK, LifePart
<1>6. NoSchedBug'
  BY DEF NoSchedBug
<1>7. RunIsScheduled'
  BY DEF RunIsScheduled
<1> QED
  BY <1>1, <1>2, <1>3, <1>4, <1>5, <1>6, <1>7

-----------------------------------------------------------------------------
(* The steps of a run keep the invariant.                                  *)

\* StartRun: every channel of the heap gets an entry.
LEMMA InvStartRun ==
    ASSUME IInv, NEW limit \in [Channel -> 0..MaxLimit], StartRun(limit)
    PROVE  IInv'
<1> USE DEF IInv, StartRun, queues
<1>1. TypeOK'
  <2>1. socket_table' \in [Channel -> NoEntry..MaxLimit]
    BY ConstantsAssumption DEF TypeOK, NoEntry
  <2> QED
    BY <2>1 DEF TypeOK
<1>2. HeapPart'
  BY DEF TypeOK, HeapPart, RunPart, InService
<1>3. RunPart'
  BY DEF TypeOK, RunPart, InService
<1>4. TablePart'
  BY ConstantsAssumption DEF TypeOK, TablePart, RunPart, InService, NoEntry
<1>5. LifePart'
  BY DEF TypeOK, LifePart, HeapPart
<1>6. NoSchedBug'
  BY DEF NoSchedBug
<1>7. RunIsScheduled'
  BY DEF RunIsScheduled
<1> QED
  BY <1>1, <1>2, <1>3, <1>4, <1>5, <1>6, <1>7

\* KistPop.
LEMMA InvKistPop ==
    ASSUME IInv, NEW c \in Channel, KistPop(c)
    PROVE  IInv'
<1> USE DEF IInv, KistPop, Running, queues
<1>1. TypeOK'
  BY ConstantsAssumption DEF TypeOK
<1>2. HeapPart'
  BY DEF TypeOK, HeapPart, RunPart, InService
<1>3. RunPart'
  BY DEF TypeOK, RunPart, HeapPart, InService
<1>4. TablePart'
  BY ConstantsAssumption DEF TypeOK, TablePart, HeapPart, InService
<1>5. LifePart'
  BY DEF TypeOK, LifePart
<1>6. NoSchedBug'
  BY DEF NoSchedBug
<1>7. RunIsScheduled'
  BY DEF RunIsScheduled
<1> QED
  BY <1>1, <1>2, <1>3, <1>4, <1>5, <1>6, <1>7

\* VanillaPop.
LEMMA InvVanillaPop ==
    ASSUME IInv, NEW c \in Channel, VanillaPop(c)
    PROVE  IInv'
<1> USE DEF IInv, VanillaPop, Running, Writeable, IsOpen, SetState, queues
<1>1. TypeOK'
  BY ConstantsAssumption DEF TypeOK
<1>2. HeapPart'
  BY DEF TypeOK, HeapPart, RunPart, InService
<1>3. RunPart'
  BY DEF TypeOK, RunPart, HeapPart, InService
<1>4. TablePart'
  BY ConstantsAssumption DEF TypeOK, TablePart, RunPart, InService
<1>5. LifePart'
  BY DEF TypeOK, LifePart, HeapPart
<1>6. NoSchedBug'
  BY DEF NoSchedBug
<1>7. RunIsScheduled'
  BY DEF RunIsScheduled
<1> QED
  BY <1>1, <1>2, <1>3, <1>4, <1>5, <1>6, <1>7

\* WriteOutbuf.
LEMMA InvWriteOutbuf ==
    ASSUME IInv, NEW c \in Channel, WriteOutbuf(c)
    PROVE  IInv'
<1> USE DEF WriteOutbuf, Running, queues
<1>a. /\ TypeOK /\ HeapPart /\ RunPart /\ TablePart /\ LifePart /\ NoSchedBug
      /\ RunIsScheduled /\ c \in outbuf_table
  BY DEF IInv
<1>b. /\ outbuf' \in [Channel -> Nat]
      /\ UNCHANGED <<run_sched_ev, sched_bug>>
      /\ \/ /\ UNCHANGED <<chan_state, channels_pending, socket_table>>
            /\ \/ scheduler_state' = scheduler_state
               \/ /\ scheduler_state[c] = "IDLE" /\ chan_state[c] \in {"OPENING", "OPEN"}
                  /\ scheduler_state' = [scheduler_state EXCEPT ![c] = "WAITING_FOR_CELLS"]
         \/ chan_state[c] \in {"OPENING", "OPEN"} /\ Condemn(c, "IDLE")
  BY <1>a, WriteToKernelCases DEF TablePart
<1>1. TypeOK'
  <2>1. /\ socket_table' \in [Channel -> NoEntry..MaxLimit]
        /\ chan_state' \in [Channel -> {"OPENING", "OPEN", "CLOSING", "CLOSED", "FREED"}]
        /\ scheduler_state' \in [Channel ->
              {"IDLE", "WAITING_FOR_CELLS", "WAITING_TO_WRITE", "PENDING"}]
        /\ channels_pending' \subseteq Channel
    <3>1. CASE UNCHANGED <<chan_state, channels_pending, socket_table>>
      BY <1>a, <1>b, <3>1 DEF TypeOK, Condemn, Release, SetState
    <3>2. CASE Condemn(c, "IDLE")
      BY <1>a, <3>2, ConstantsAssumption DEF TypeOK, Condemn, Release, SetState, NoEntry
    <3> QED
      BY <1>b, <3>1, <3>2
  <2> QED
    BY <1>a, <1>b, <2>1 DEF TypeOK
<1>2. HeapPart'
  BY <1>a, <1>b DEF TypeOK, HeapPart, InService, Condemn, Release, SetState
<1>3. RunPart'
  BY <1>a, <1>b DEF RunPart, InService
<1>4. TablePart'
  BY <1>a, <1>b DEF TypeOK, TablePart, InService, Condemn, Release, SetState
<1>5. LifePart'
  BY <1>a, <1>b DEF TypeOK, LifePart, Condemn, Release, SetState
<1>6. NoSchedBug'
  BY <1>a, <1>b DEF NoSchedBug
<1>7. RunIsScheduled'
  BY DEF RunIsScheduled
<1> QED
  BY <1>1, <1>2, <1>3, <1>4, <1>5, <1>6, <1>7 DEF IInv

\* WritePrevious: the previous channel may change, the one in service does not.
LEMMA InvWritePrevious ==
    ASSUME IInv, WritePrevious
    PROVE  IInv'
<1> USE DEF WritePrevious, Running, queues
<1>a. /\ TypeOK /\ HeapPart /\ RunPart /\ TablePart /\ LifePart /\ NoSchedBug
      /\ RunIsScheduled
      /\ prev_chan \in Channel /\ chan \in Channel /\ prev_chan # chan
      /\ scheduler_state[chan] = "PENDING" /\ the_scheduler = "KIST"
      /\ outbuf_table' \subseteq outbuf_table
  BY DEF IInv, RunPart, InService
<1>b. /\ outbuf' \in [Channel -> Nat]
      /\ UNCHANGED <<run_sched_ev, sched_bug>>
      /\ \/ /\ UNCHANGED <<chan_state, channels_pending, socket_table>>
            /\ \/ scheduler_state' = scheduler_state
               \/ /\ scheduler_state[prev_chan] = "IDLE"
                  /\ chan_state[prev_chan] \in {"OPENING", "OPEN"}
                  /\ scheduler_state' =
                       [scheduler_state EXCEPT ![prev_chan] = "WAITING_FOR_CELLS"]
         \/ chan_state[prev_chan] \in {"OPENING", "OPEN"} /\ Condemn(prev_chan, "IDLE")
  <2>1. CASE WriteToKernel(prev_chan)
    BY <1>a, <2>1, WriteToKernelCases DEF TablePart
  <2>2. CASE UNCHANGED <<chan_state, sched, outbuf, socket_table, outbuf_table>>
    BY <1>a, <2>2 DEF TypeOK, sched
  <2> QED
    BY <2>1, <2>2
<1>1. TypeOK'
  <2>1. /\ socket_table' \in [Channel -> NoEntry..MaxLimit]
        /\ chan_state' \in [Channel -> {"OPENING", "OPEN", "CLOSING", "CLOSED", "FREED"}]
        /\ scheduler_state' \in [Channel ->
              {"IDLE", "WAITING_FOR_CELLS", "WAITING_TO_WRITE", "PENDING"}]
        /\ channels_pending' \subseteq Channel
    <3>1. CASE Condemn(prev_chan, "IDLE")
      BY <1>a, <3>1, ConstantsAssumption DEF TypeOK, Condemn, Release, SetState, NoEntry
    <3>2. CASE ~Condemn(prev_chan, "IDLE")
      BY <1>a, <1>b, <3>2 DEF TypeOK
    <3> QED
      BY <3>1, <3>2
  <2> QED
    BY <1>a, <1>b, <2>1 DEF TypeOK
<1>2. HeapPart'
  <2>1. CASE Condemn(prev_chan, "IDLE")
    BY <1>a, <2>1 DEF TypeOK, HeapPart, InService, Condemn, Release, SetState
  <2>2. CASE ~Condemn(prev_chan, "IDLE")
    BY <1>a, <1>b, <2>2 DEF TypeOK, HeapPart, InService
  <2> QED
    BY <2>1, <2>2
<1>3. RunPart'
  BY <1>a, <1>b DEF TypeOK, RunPart, InService, Condemn, Release, SetState
<1>4. TablePart'
  BY <1>a, <1>b DEF TypeOK, TablePart, InService, Condemn, Release, SetState
<1>5. LifePart'
  BY <1>a, <1>b DEF TypeOK, LifePart, Condemn, Release, SetState
<1>6. NoSchedBug'
  BY <1>a, <1>b DEF NoSchedBug
<1>7. RunIsScheduled'
  BY DEF RunIsScheduled
<1> QED
  BY <1>1, <1>2, <1>3, <1>4, <1>5, <1>6, <1>7 DEF IInv

\* KistFlush has four outcomes: chan is closed, has no cell, is served, or may not write.
LEMMA InvKistFlush ==
    ASSUME IInv, KistFlush
    PROVE  IInv'
<1> USE DEF Running, queues
<1>a. /\ TypeOK /\ HeapPart /\ RunPart /\ TablePart /\ LifePart /\ ~sched_bug
      /\ chan \in Channel /\ chan \notin channels_pending /\ chan \notin to_readd
      /\ scheduler_state[chan] = "PENDING" /\ the_scheduler = "KIST"
      /\ chan_state[chan] \in {"OPEN", "CLOSING"} /\ pc = "flush"
      /\ socket_table[chan] \in 0..MaxLimit
  BY ConstantsAssumption
     DEF IInv, KistFlush, TypeOK, RunPart, TablePart, LifePart, NoSchedBug, InService, NoEntry
<1>b. /\ pc' = "loop" /\ sched_bug' = FALSE /\ UNCHANGED <<the_scheduler, todo, switches>>
      /\ UNCHANGED <<run_sched_ev, chan, prev_chan, room, outbuf_table, chan_state>>
  <2>1. sched_bug' = FALSE
    <3>1. socket_table[chan] # NoEntry
      BY <1>a DEF NoEntry
    <3> QED
      BY <1>a, <3>1, Zenon DEF KistFlush
  <2> QED
    BY <2>1 DEF KistFlush
<1>c. /\ socket_table' \in [Channel -> NoEntry..MaxLimit]
      /\ n_cells' \in [Channel -> Nat] /\ destroy_queue' \in [Channel -> Nat]
      /\ last_cell_was_destroy' \in [Channel -> BOOLEAN] /\ outbuf' \in [Channel -> Nat]
      /\ \A c \in Channel : c # chan => socket_table'[c] = socket_table[c]
  <2>1. CASE UNCHANGED <<queues, outbuf, socket_table>>
    BY <1>a, <2>1 DEF TypeOK
  <2>2. CASE /\ CanWrite(chan) /\ Queued(chan) > 0 /\ FlushOne(chan)
             /\ socket_table' = [socket_table EXCEPT ![chan] = @ - 1]
    <3>1. socket_table' \in [Channel -> NoEntry..MaxLimit]
      BY <1>a, <2>2, ConstantsAssumption DEF TypeOK, CanWrite, NoEntry
    <3> QED
      BY <1>a, <2>2, <3>1, FlushOneType DEF TypeOK
  <2> QED
    BY <2>1, <2>2 DEF KistFlush
<1>d. \/ /\ scheduler_state' = [scheduler_state EXCEPT ![chan] = "IDLE"]
         /\ UNCHANGED <<channels_pending, to_readd>>
      \/ /\ scheduler_state' = [scheduler_state EXCEPT ![chan] = "WAITING_FOR_CELLS"]
         /\ UNCHANGED <<channels_pending, to_readd>>
      \/ /\ to_readd' = to_readd \cup {chan}
         /\ UNCHANGED <<scheduler_state, channels_pending>>
      \/ /\ scheduler_state' = [scheduler_state EXCEPT ![chan] = "PENDING"]
         /\ channels_pending' = channels_pending \cup {chan} /\ UNCHANGED to_readd
         /\ socket_table'[chan] # NoEntry
  <2>1. CASE Decide(chan, Queued(chan) > 0, FALSE)
    BY <2>1 DEF Decide, SetState
  <2>2. CASE /\ CanWrite(chan) /\ Decide(chan, Queued(chan) > 1, socket_table[chan] # 1)
             /\ socket_table' = [socket_table EXCEPT ![chan] = @ - 1]
    BY <1>a, <2>2 DEF TypeOK, Decide, SetState, CanWrite, NoEntry
  <2> QED
    BY <2>1, <2>2 DEF KistFlush, SetState
<1>1. TypeOK'
  BY <1>a, <1>b, <1>c, <1>d DEF TypeOK
<1>2. HeapPart'
  BY <1>a, <1>b, <1>d DEF TypeOK, HeapPart, InService
<1>3. RunPart'
  BY <1>b DEF RunPart, InService
<1>4. TablePart'
  BY <1>a, <1>b, <1>c, <1>d, ConstantsAssumption DEF TypeOK, TablePart, InService
<1>5. LifePart'
  BY <1>a, <1>b, <1>c, <1>d DEF TypeOK, LifePart
<1>6. NoSchedBug'
  BY <1>b DEF NoSchedBug
<1>7. RunIsScheduled'
  BY <1>b DEF RunIsScheduled
<1> QED
  BY <1>1, <1>2, <1>3, <1>4, <1>5, <1>6, <1>7 DEF IInv

\* KistFlushFails.
LEMMA InvKistFlushFails ==
    ASSUME IInv, KistFlushFails
    PROVE  IInv'
<1> USE DEF IInv, KistFlushFails, Running, Condemn, Release, SetState
<1>1. TypeOK'
  BY FlushOneType, ConstantsAssumption DEF TypeOK, RunPart, InService, NoEntry
<1>2. HeapPart'
  BY DEF TypeOK, HeapPart, RunPart, InService
<1>3. RunPart'
  BY DEF TypeOK, RunPart, InService
<1>4. TablePart'
  BY ConstantsAssumption DEF TypeOK, TablePart, RunPart, InService
<1>5. LifePart'
  BY DEF TypeOK, LifePart
<1>6. NoSchedBug'
  BY DEF NoSchedBug
<1>7. RunIsScheduled'
  BY DEF RunIsScheduled
<1> QED
  BY <1>1, <1>2, <1>3, <1>4, <1>5, <1>6, <1>7

\* VanillaFlush.
LEMMA InvVanillaFlush ==
    ASSUME IInv, VanillaFlush
    PROVE  IInv'
<1> USE DEF IInv, VanillaFlush, Running, Condemn, Release, SetState, sched
<1>1. TypeOK'
  <2>1. /\ n_cells' \in [Channel -> Nat] /\ destroy_queue' \in [Channel -> Nat]
        /\ last_cell_was_destroy' \in [Channel -> BOOLEAN] /\ outbuf' \in [Channel -> Nat]
    BY FlushOneType DEF RunPart, InService
  <2>2. CASE UNCHANGED <<chan_state, sched, socket_table>>
    BY <2>1, <2>2 DEF TypeOK
  <2>3. CASE Condemn(chan, "IDLE")
    BY <2>1, <2>3, ConstantsAssumption DEF TypeOK, RunPart, InService, NoEntry
  <2> QED
    BY <2>2, <2>3
<1>2. HeapPart'
  BY DEF TypeOK, HeapPart, RunPart, InService
<1>3. RunPart'
  BY DEF TypeOK, RunPart, InService
<1>4. TablePart'
  BY ConstantsAssumption DEF TypeOK, TablePart, RunPart, InService
<1>5. LifePart'
  BY DEF TypeOK, LifePart
<1>6. NoSchedBug'
  BY DEF NoSchedBug
<1>7. RunIsScheduled'
  BY DEF RunIsScheduled
<1> QED
  BY <1>1, <1>2, <1>3, <1>4, <1>5, <1>6, <1>7

\* VanillaDiscards: the queues of the channel are emptied.
LEMMA InvVanillaDiscards ==
    ASSUME IInv, VanillaDiscards
    PROVE  IInv'
<1> USE DEF IInv, VanillaDiscards, Running, sched, run_state
<1>1. TypeOK'
  BY DEF TypeOK
<1>2. HeapPart'
  BY DEF TypeOK, HeapPart, RunPart, InService
<1>3. RunPart'
  BY DEF TypeOK, RunPart, InService
<1>4. TablePart'
  BY ConstantsAssumption DEF TypeOK, TablePart, RunPart, InService
<1>5. LifePart'
  BY DEF TypeOK, LifePart
<1>6. NoSchedBug'
  BY DEF NoSchedBug
<1>7. RunIsScheduled'
  BY DEF RunIsScheduled
<1> QED
  BY <1>1, <1>2, <1>3, <1>4, <1>5, <1>6, <1>7

\* VanillaDecides.  Only a channel that is still open returns to the heap.
LEMMA InvVanillaDecides ==
    ASSUME IInv, VanillaDecides
    PROVE  IInv'
<1> USE DEF VanillaDecides, Running, queues
<1>a. /\ TypeOK /\ HeapPart /\ RunPart /\ TablePart /\ LifePart /\ NoSchedBug
      /\ chan \in Channel /\ chan \notin channels_pending /\ chan \notin to_readd
      /\ \/ scheduler_state[chan] = "PENDING"
         \/ scheduler_state[chan] = "IDLE" /\ chan_state[chan] = "CLOSING"
      /\ the_scheduler = "VANILLA"
      /\ chan_state[chan] \in {"OPEN", "CLOSING"}
  BY DEF IInv, TypeOK, RunPart, LifePart, InService
<1>b. \/ /\ to_readd' = to_readd \cup {chan} /\ UNCHANGED scheduler_state
         /\ chan_state[chan] = "OPEN"
      \/ /\ to_readd' = to_readd
         /\ \E s \in {"IDLE", "WAITING_FOR_CELLS", "WAITING_TO_WRITE"} :
              scheduler_state' = [scheduler_state EXCEPT ![chan] = s]
  <2>1. room \in Nat /\ Queued(chan) \in Nat /\ Writeable(chan) \in Nat
    BY <1>a, ConstantsAssumption DEF TypeOK, Queued, Writeable
  <2>2. Writeable(chan) > 0 => chan_state[chan] = "OPEN"
    BY DEF Writeable, IsOpen
  <2> QED
    BY <2>1, <2>2 DEF SetState
<1>1. TypeOK'
  BY <1>a, <1>b DEF TypeOK
<1>2. HeapPart'
  BY <1>a, <1>b DEF TypeOK, HeapPart, InService
<1>3. RunPart'
  BY DEF RunPart, InService
<1>4. TablePart'
  BY <1>a, ConstantsAssumption DEF TypeOK, TablePart
<1>5. LifePart'
  BY <1>a, <1>b DEF TypeOK, LifePart
<1>6. NoSchedBug'
  BY <1>a DEF NoSchedBug
<1>7. RunIsScheduled'
  BY DEF RunIsScheduled
<1> QED
  BY <1>1, <1>2, <1>3, <1>4, <1>5, <1>6, <1>7 DEF IInv

\* EndLoop.
LEMMA InvEndLoop ==
    ASSUME IInv, EndLoop
    PROVE  IInv'
<1> USE DEF IInv, EndLoop, Running, sched, queues
<1>1. TypeOK'
  BY ConstantsAssumption DEF TypeOK
<1>2. HeapPart'
  BY DEF TypeOK, HeapPart, RunPart, InService
<1>3. RunPart'
  BY DEF TypeOK, RunPart, InService
<1>4. TablePart'
  BY ConstantsAssumption DEF TypeOK, TablePart, RunPart, InService
<1>5. LifePart'
  BY DEF TypeOK, LifePart
<1>6. NoSchedBug'
  BY DEF NoSchedBug
<1>7. RunIsScheduled'
  BY DEF RunIsScheduled
<1> QED
  BY <1>1, <1>2, <1>3, <1>4, <1>5, <1>6, <1>7

\* FinishRun: what returns to the heap is not in it, and its channels are still there.
LEMMA InvFinishRun ==
    ASSUME IInv, FinishRun
    PROVE  IInv'
<1> USE DEF IInv, FinishRun, Running, queues
<1>1. TypeOK'
  BY ConstantsAssumption DEF TypeOK
<1>2. HeapPart'
  BY DEF TypeOK, HeapPart, RunPart, InService
<1>3. RunPart'
  BY DEF TypeOK, RunPart, InService
<1>4. TablePart'
  BY ConstantsAssumption DEF TypeOK, TablePart
<1>5. LifePart'
  BY DEF TypeOK, LifePart, HeapPart
<1>6. NoSchedBug'
  BY DEF TypeOK, HeapPart, NoSchedBug
<1>7. RunIsScheduled'
  BY DEF RunIsScheduled
<1> QED
  BY <1>1, <1>2, <1>3, <1>4, <1>5, <1>6, <1>7

-----------------------------------------------------------------------------
(* The theorems.                                                           *)

\* Every initial state satisfies the invariant.
LEMMA InvInit == Init => IInv
<1> SUFFICES ASSUME Init PROVE IInv
  OBVIOUS
<1>1. TypeOK
  <2>1. todo \in [Channel -> [cells : Nat, destroys : Nat, direct : Nat]]
    BY ConstantsAssumption DEF Init
  <2>2. NoEntry \in NoEntry..MaxLimit
    BY ConstantsAssumption DEF NoEntry
  <2>3. socket_table \in [Channel -> NoEntry..MaxLimit]
    BY <2>2 DEF Init
  <2>4. switches \in 0..MaxSwitches
    BY ConstantsAssumption DEF Init
  <2> QED
    BY <2>1, <2>3, <2>4 DEF Init, TypeOK
<1>2. HeapPart /\ RunPart /\ TablePart /\ LifePart /\ NoSchedBug /\ RunIsScheduled
  BY ConstantsAssumption DEF Init, HeapPart, RunPart, TablePart, LifePart, NoSchedBug,
     RunIsScheduled, InService
<1> QED
  BY <1>1, <1>2 DEF IInv

\* Every event of the main loop and every step of a run keeps the invariant.
LEMMA InvNext == IInv /\ [Next]_vars => IInv'
<1> SUFFICES ASSUME IInv, [Next]_vars PROVE IInv'
  OBVIOUS
<1>1. ASSUME NEW c \in Channel, HandleWrite(c) PROVE IInv'
  <2>1. CASE \E k \in 1..outbuf[c] : KernelTakes(c, k)
    BY <1>1, <2>1, InvKernelTakes DEF HandleWrite
  <2>2. CASE KernelFails(c)
    BY <1>1, <2>2, InvClose DEF HandleWrite, KernelFails
  <2> QED
    BY <1>1, <2>1, <2>2 DEF HandleWrite
<1>2. ASSUME NEW c \in Channel, Close(c) PROVE IInv'
  BY <1>2, InvClose DEF Close
<1>3. CASE RunStep
  BY <1>3, InvKistPop, InvVanillaPop, InvWriteOutbuf, InvWritePrevious, InvKistFlush,
     InvKistFlushFails, InvVanillaFlush, InvVanillaDiscards, InvVanillaDecides,
     InvEndLoop, InvFinishRun DEF RunStep
<1>4. CASE UNCHANGED vars
  BY <1>4 DEF IInv, TypeOK, HeapPart, RunPart, TablePart, LifePart, NoSchedBug,
     RunIsScheduled, InService, vars, sched, queues, run_state
<1> QED
  BY <1>1, <1>2, <1>3, <1>4, InvOpen, InvDirectWrite, InvAppendCell, InvSendDestroy,
     InvCircuitLeaves, InvClosed, InvFree, InvSwitchScheduler, InvStartRun DEF Next

\* The inductive invariant holds in every state the scheduler can reach.
THEOREM Invariance == Spec => []IInv
BY InvInit, InvNext, PTL DEF Spec

\* Between two runs the heap holds exactly the PENDING channels, for every set of
\* channels, although KIST and Vanilla keep channels outside of it in the middle of a run
\* and release those that fail; and all state keeps its type.
THEOREM HeapCorrect == Spec => []HeapMatchesState
<1>1. IInv => HeapMatchesState
  BY DEF IInv, TypeOK, HeapPart, RunPart, InService, HeapMatchesState
<1> QED
  BY <1>1, Invariance, PTL

\* Neither the heap nor the list of channels that return to it ever names a channel whose
\* connection is gone, and a freed channel has no entry in KIST's socket table.
THEOREM NoStale == Spec => []NoStaleChannel
<1>1. IInv => NoStaleChannel
  BY DEF IInv, TypeOK, HeapPart, LifePart, NoStaleChannel
<1> QED
  BY <1>1, Invariance, PTL

\* No channel enters the heap twice, and KIST serves no channel without a socket entry:
\* the SCHED_BUG conditions of the code are never met.
THEOREM SchedBugFree == Spec => []NoSchedBug
<1>1. IInv => NoSchedBug
  BY DEF IInv
<1> QED
  BY <1>1, Invariance, PTL

\* When channels wait in the heap between two runs, the next run is on its way.
THEOREM RunScheduled == Spec => []RunIsScheduled
<1>1. IInv => RunIsScheduled
  BY DEF IInv
<1> QED
  BY <1>1, Invariance, PTL
=============================================================================
