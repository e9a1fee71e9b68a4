--------------------------- MODULE OnionHandshake ---------------------------
(***************************************************************************)
(* A relay answers CREATE cells: a new circuit's onionskin goes to the     *)
(* thread pool, or to the onion queue when enough work is pending there,   *)
(* and the reply function opens the circuit and refills the pool from the  *)
(* queue.  Meanwhile circuits are marked for close, channels go away, and  *)
(* the clean-up after the event loop frees marked circuits, also ones that *)
(* a worker thread still works for.                                        *)
(*                                                                         *)
(* The pool is WorkPool, with one entry per circuit.  An action is one     *)
(* callback of the main thread, or a step of a pool thread.                *)
(***************************************************************************)
EXTENDS Integers, Sequences, FiniteSets

CONSTANTS
    Circuit,       \* the circuits of CREATE cells
    MaxPending,    \* values of max_pending_tasks (get_num_cpus * consensus parameter)
    AlwaysRoom     \* the length below which the onion queue takes every entry (50)

ASSUME ConstantsAssumption ==
    /\ IsFiniteSet(Circuit)
    /\ MaxPending \subseteq Nat \ {0} /\ MaxPending # {}
    /\ AlwaysRoom \in Nat

VARIABLES
    magic,               \* per circuit: its memory, as its magic number tells
    state,               \* per circuit: circ->state
    p_chan,              \* the circuits whose p_chan is set
    pending_close,       \* circuits_pending_close: the circuits marked for close
    onionqueue_entry,    \* the circuits with an onionqueue_entry
    workqueue_entry,     \* the circuits with a workqueue_entry
    ol_list, ol_entries, \* the ntor queue, and the count of its entries
    n_elderly,           \* how many entries at its head have waited for the cutoff
    total_pending_tasks, max_pending_tasks,
    pool                 \* the thread pool's entries, one per circuit

queue_vars == <<onionqueue_entry, ol_list, ol_entries, n_elderly>>
task_vars == <<workqueue_entry, total_pending_tasks, pool>>
circ_vars == <<magic, state, p_chan, pending_close>>
vars == <<circ_vars, queue_vars, task_vars, max_pending_tasks>>

Pool == INSTANCE WorkPool WITH Item <- Circuit, status <- pool

TypeOK ==
    /\ magic \in [Circuit -> {"none", "OR_CIRCUIT_MAGIC", "DEAD_CIRCUIT_MAGIC", "freed"}]
    /\ state \in [Circuit -> {"none", "ONIONSKIN_PENDING", "OPEN"}]
    /\ p_chan \subseteq Circuit /\ pending_close \subseteq Circuit
    /\ onionqueue_entry \subseteq Circuit /\ workqueue_entry \subseteq Circuit
    /\ ol_list \in Seq(Circuit) /\ ol_entries \in 0..Cardinality(Circuit)
    /\ n_elderly \in 0..Len(ol_list)
    /\ total_pending_tasks \in 0..Cardinality(Circuit)
    /\ max_pending_tasks \in MaxPending
    /\ pool \in [Circuit -> Pool!Status]

Init ==
    /\ magic = [c \in Circuit |-> "none"] /\ state = [c \in Circuit |-> "none"]
    /\ p_chan = {} /\ pending_close = {}
    /\ onionqueue_entry = {} /\ workqueue_entry = {}
    /\ ol_list = <<>> /\ ol_entries = 0 /\ n_elderly = 0
    /\ total_pending_tasks = 0 /\ max_pending_tasks \in MaxPending
    /\ Pool!Init

-----------------------------------------------------------------------------
(* CREATE cells.                                                            *)

\* assign_onionskin_to_cpuworker with room in the pool.
GiveToPool(cs) ==
    /\ pool' = [c \in Circuit |-> IF c \in cs THEN "queued" ELSE pool[c]]
    /\ workqueue_entry' = workqueue_entry \cup cs

\* have_room_for_onionskin: a queue that is not short may or may not have room, as the
\* estimate of the time it takes to clear it says.
RoomForOnionskin == IF ol_entries < AlwaysRoom THEN {TRUE} ELSE BOOLEAN

\* The positions in the onion queue of the entries that do not belong to the circuits cs.
Staying(cs) == {i \in 1..Len(ol_list) : ol_list[i] \notin cs}

\* The entries at the positions in ps, in their order.
QueueOf(ps) ==
    {[k \in 1..Cardinality(ps) |-> ol_list[at[k]]] :
       at \in {f \in [1..Cardinality(ps) -> ps] :
                 /\ \A j, k \in DOMAIN f : j < k => f[j] < f[k]
                 /\ \A i \in ps : \E k \in DOMAIN f : f[k] = i}}

\* Entries of the circuits cs leave the onion queue (onion_queue_entry_remove, which
\* onion_next_task and onion_pending_remove use too), those of the sequence new join it.
FaultyUpdateQueue(cs, new) ==
    /\ \E stay \in QueueOf(Staying(cs)) : ol_list' = stay \o new
    /\ ol_entries' = ol_entries - Cardinality(cs) + Len(new)
    /\ onionqueue_entry' = (onionqueue_entry \ cs) \cup {new[i] : i \in DOMAIN new}
    /\ n_elderly' = Cardinality(Staying(cs) \cap 1..n_elderly)

UpdateQueue(cs, new) ==
    /\ \E stay \in QueueOf(Staying(cs)) : ol_list' = stay \o new
    /\ ol_entries' = ol_entries - Cardinality(cs \cap onionqueue_entry) + Len(new)
    /\ onionqueue_entry' = (onionqueue_entry \ cs) \cup {new[i] : i \in DOMAIN new}
    /\ n_elderly' = Cardinality(Staying(cs) \cap 1..n_elderly)

\* onion_pending_add: the entry goes to the tail, and entries older than the cutoff are
\* culled from the head, their circuits closed.
OnionPendingAdd(c) ==
    LET culled == {ol_list[i] : i \in 1..n_elderly}
    IN  /\ UpdateQueue(culled, <<c>>)
        /\ pending_close' = pending_close \cup culled

\* The tail of command_process_create_cell for an ntor onionskin.
AssignOnionskin(c) ==
    IF total_pending_tasks >= max_pending_tasks
    THEN /\ \E room \in RoomForOnionskin :
              IF room THEN OnionPendingAdd(c)
              ELSE pending_close' = pending_close \cup {c} /\ UNCHANGED queue_vars
         /\ UNCHANGED task_vars
    ELSE /\ GiveToPool({c})
         /\ total_pending_tasks' = total_pending_tasks + 1
         /\ UNCHANGED <<queue_vars, pending_close>>

\* command_process_create_cell, from or_circuit_new on.  A cell that does not parse closes
\* the circuit, CREATE_FAST is answered at once or closes it.
ProcessCreateCell(c) ==
    /\ magic[c] = "none"
    /\ magic' = [magic EXCEPT ![c] = "OR_CIRCUIT_MAGIC"]
    /\ p_chan' = p_chan \cup {c}
    /\ \/ /\ state' = [state EXCEPT ![c] = "ONIONSKIN_PENDING"]
          /\ AssignOnionskin(c)
       \/ /\ state' = [state EXCEPT ![c] = "ONIONSKIN_PENDING"]
          /\ pending_close' = pending_close \cup {c}
          /\ UNCHANGED <<queue_vars, task_vars>>
       \/ /\ state' = [state EXCEPT ![c] = "OPEN"]
          /\ pending_close' \in {pending_close, pending_close \cup {c}}
          /\ UNCHANGED <<queue_vars, task_vars>>
    /\ UNCHANGED max_pending_tasks

-----------------------------------------------------------------------------
(* The pool threads, and the reply function.                                *)

ThreadTakes(c) ==
    /\ pool[c] = "queued"
    /\ pool' = [pool EXCEPT ![c] = "running"]
    /\ UNCHANGED <<circ_vars, queue_vars, workqueue_entry, total_pending_tasks,
                   max_pending_tasks>>

\* cpuworker_onion_handshake_threadfn: whether the handshake worked is told by the reply.
ThreadAnswers(c) ==
    /\ pool[c] = "running"
    /\ pool' = [pool EXCEPT ![c] = "answered"]
    /\ UNCHANGED <<circ_vars, queue_vars, workqueue_entry, total_pending_tasks,
                   max_pending_tasks>>

\* queue_pending_tasks with room for n tasks: entries leave the queue in order until n
\* have been assigned.  A circuit that lost its channel leaves it and is not assigned.
Leaving(n) ==
    {i \in 1..Len(ol_list) : Cardinality({j \in 1..(i - 1) : ol_list[j] \in p_chan}) < n}

\* What becomes of the circuit when its reply arrives: the memory of a dead one is freed,
\* a marked one is left alone, another is opened or closed.  onionskin_answer may fail
\* after it has set the state.
FaultyReplyForCircuit(c) ==
    /\ state' \in {state, [state EXCEPT ![c] = "OPEN"]}
    /\ pending_close' = pending_close
    /\ UNCHANGED magic

ReplyForCircuit(c) ==
    \/ /\ magic[c] = "DEAD_CIRCUIT_MAGIC"
       /\ magic' = [magic EXCEPT ![c] = "freed"]
       /\ UNCHANGED <<state, pending_close>>
    \/ /\ magic[c] = "OR_CIRCUIT_MAGIC" /\ c \in pending_close
       /\ UNCHANGED <<magic, state, pending_close>>
    \/ /\ magic[c] = "OR_CIRCUIT_MAGIC" /\ c \notin pending_close
       /\ state' \in {state, [state EXCEPT ![c] = "OPEN"]}
       /\ pending_close' \in {pending_close, pending_close \cup {c}}
       /\ state' = state => c \in pending_close'
       /\ UNCHANGED magic

\* cpuworker_onion_handshake_replyfn
HandshakeReply(c) ==
    LET out      == {ol_list[i] : i \in Leaving(max_pending_tasks - (total_pending_tasks - 1))}
        assigned == out \cap p_chan
    IN  /\ pool[c] = "answered"
        /\ ReplyForCircuit(c)
        /\ UpdateQueue(out, <<>>)
        /\ pool' = [d \in Circuit |-> IF d = c THEN "replied"
                                      ELSE IF d \in assigned THEN "queued" ELSE pool[d]]
        /\ workqueue_entry' = (workqueue_entry \ {c}) \cup assigned
        /\ total_pending_tasks' = total_pending_tasks - 1 + Cardinality(assigned)
        /\ UNCHANGED <<p_chan, max_pending_tasks>>

-----------------------------------------------------------------------------
(* Circuits that end.                                                       *)

\* A DESTROY cell, a failed relay cell, the OOM handler: circuit_mark_for_close.
MarkForClose(c) ==
    /\ magic[c] = "OR_CIRCUIT_MAGIC" /\ c \notin pending_close
    /\ pending_close' = pending_close \cup {c}
    /\ UNCHANGED <<magic, state, p_chan, queue_vars, task_vars, max_pending_tasks>>

\* circuit_unlink_all_from_channel, for a channel with the circuits cs.
UnlinkFromChannel(cs) ==
    /\ cs # {} /\ cs \subseteq p_chan
    /\ p_chan' = p_chan \ cs
    /\ pending_close' = pending_close \cup cs
    /\ UNCHANGED <<magic, state, queue_vars, task_vars, max_pending_tasks>>

FaultyCancelsTaken(cs) ==
    LET cancelled == cs \cap workqueue_entry
    IN  /\ pool' = [c \in Circuit |-> IF c \in cancelled THEN "cancelled" ELSE pool[c]]
        /\ total_pending_tasks' = total_pending_tasks - Cardinality(cancelled)
        /\ workqueue_entry' = workqueue_entry \ cancelled

FaultyNotCounted(cs) ==
    LET cancelled == {c \in cs \cap workqueue_entry : pool[c] = "queued"}
    IN  /\ pool' = [c \in Circuit |-> IF c \in cancelled THEN "cancelled" ELSE pool[c]]
        /\ workqueue_entry' = workqueue_entry \ cancelled
        /\ UNCHANGED total_pending_tasks

FaultyForgetsTask(cs) ==
    LET cancelled == {c \in cs \cap workqueue_entry : pool[c] = "queued"}
    IN  /\ pool' = [c \in Circuit |-> IF c \in cancelled THEN "cancelled" ELSE pool[c]]
        /\ total_pending_tasks' = total_pending_tasks - Cardinality(cancelled)
        /\ workqueue_entry' = workqueue_entry \ cs

\* cpuworker_cancel_circ_handshake, for each of the circuits cs: no effect on a task that
\* a thread has taken.
CancelHandshakes(cs) ==
    LET cancelled == {c \in cs \cap workqueue_entry : pool[c] = "queued"}
    IN  /\ pool' = [c \in Circuit |-> IF c \in cancelled THEN "cancelled" ELSE pool[c]]
        /\ total_pending_tasks' = total_pending_tasks - Cardinality(cancelled)
        /\ workqueue_entry' = workqueue_entry \ cancelled

\* circuit_about_to_free, for the circuits cs: their entries leave the onion queue, their
\* tasks are cancelled, and they leave their channels.
CircuitAboutToFree(cs) ==
    LET waiting == {c \in cs : state[c] = "ONIONSKIN_PENDING"}
    IN  /\ UpdateQueue(waiting, <<>>)
        /\ CancelHandshakes(waiting)
        /\ p_chan' = p_chan \ cs

\* circuit_free: the memory of a circuit that still has a task is left to the reply function.
CircuitFree(cs) ==
    magic' = [c \in Circuit |-> IF c \notin cs THEN magic[c]
                               ELSE IF c \in workqueue_entry' THEN "DEAD_CIRCUIT_MAGIC"
                               ELSE "freed"]

\* circuit_close_all_marked
CloseAllMarked ==
    /\ pending_close # {}
    /\ CircuitAboutToFree(pending_close)
    /\ CircuitFree(pending_close)
    /\ pending_close' = {}
    /\ UNCHANGED <<state, max_pending_tasks>>

-----------------------------------------------------------------------------

\* Seconds go by: entries reach onion_queue_wait_cutoff, the oldest first.
TimePasses ==
    /\ n_elderly' \in (n_elderly + 1)..Len(ol_list)
    /\ UNCHANGED <<circ_vars, onionqueue_entry, ol_list, ol_entries, task_vars,
                   max_pending_tasks>>

\* cpuworker_consensus_has_changed: tasks that wait are not looked at.
ConsensusHasChanged ==
    /\ max_pending_tasks' \in MaxPending \ {max_pending_tasks}
    /\ UNCHANGED <<circ_vars, queue_vars, task_vars>>

Next ==
    \/ \E c \in Circuit : \/ ProcessCreateCell(c) \/ MarkForClose(c)
                           \/ ThreadTakes(c) \/ ThreadAnswers(c) \/ HandshakeReply(c)
    \/ \E cs \in SUBSET Circuit : UnlinkFromChannel(cs)
    \/ CloseAllMarked \/ TimePasses \/ ConsensusHasChanged

Spec == Init /\ [][Next]_vars

\* Pool threads take what is queued and return, the event loop runs the reply functions
\* and the clean-up.  Nothing makes a CREATE cell arrive.
Fairness ==
    /\ \A c \in Circuit : /\ WF_vars(ThreadTakes(c)) /\ WF_vars(ThreadAnswers(c))
                           /\ WF_vars(HandshakeReply(c))
    /\ WF_vars(CloseAllMarked)

FairSpec == Spec /\ Fairness

-----------------------------------------------------------------------------
(* Properties.                                                              *)

\* total_pending_tasks, which a reply or a cancellation lowers but never both and which
\* both assert to be positive, is the number of tasks the pool still holds.
TasksCounted == total_pending_tasks = Cardinality(Pool!Outstanding)

\* The onion queue, its count and the circuits' pointers into it agree, and what waits
\* there is a circuit in memory that has no task: every path that takes an entry out
\* (assigned, culled, circuit closed, channel gone) updates all three.
\* All state keeps its type.
QueueCoherent ==
    /\ TypeOK
    /\ ol_entries = Len(ol_list)
    /\ Cardinality({ol_list[i] : i \in 1..Len(ol_list)}) = Len(ol_list)
    /\ onionqueue_entry = {ol_list[i] : i \in 1..Len(ol_list)}
    /\ \A c \in onionqueue_entry : /\ magic[c] = "OR_CIRCUIT_MAGIC"
                                  /\ state[c] = "ONIONSKIN_PENDING"
                                  /\ pool[c] = "fresh"

\* The memory of a circuit is there as long as the pool has a task for it, a circuit left
\* dead has such a task, whose reply will free it, and a workqueue_entry is never the
\* pointer to an entry that the pool has freed.
TaskKeepsCircuit ==
    \A c \in Circuit :
      /\ c \in Pool!Outstanding => magic[c] \in {"OR_CIRCUIT_MAGIC", "DEAD_CIRCUIT_MAGIC"}
      /\ magic[c] = "DEAD_CIRCUIT_MAGIC" => pool[c] \in {"running", "answered"}
      /\ magic[c] = "OR_CIRCUIT_MAGIC" => (c \in workqueue_entry <=> c \in Pool!Outstanding)

\* The tasks are given to the pool and taken back the way WorkPool allows: each circuit's
\* once, and only a task that no thread has taken is ever taken back.
PoolUsedAsPromised == Pool!Spec

\* A circuit in the onion queue leaves it, as long as some task is pending: only when all
\* tasks are cancelled before a thread takes one (a cancellation does not refill the
\* pool) may it have to wait for the next CREATE cell.
QueueDrains ==
    \A c \in Circuit : (c \in onionqueue_entry)
                        ~> (c \notin onionqueue_entry \/ total_pending_tasks = 0)

\* A circuit that is closed is freed in the end, also when a thread worked for it.
ClosedIsFreed == \A c \in Circuit : (c \in pending_close) ~> (magic[c] = "freed")
=============================================================================
