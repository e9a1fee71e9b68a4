------------------------------ MODULE Workqueue ------------------------------
(***************************************************************************)
(* The thread pool of workqueue.c: the main thread queues entries and      *)
(* updates, worker threads run them, and a reply queue with an alert       *)
(* socket takes the finished entries back to the main thread's event loop. *)
(* Start and shutdown are part of it: the workers confirm that they run,   *)
(* one of them keeps control_lock for as long as any of them lives, and    *)
(* threadpool_free waits for that lock before it frees the pool.           *)
(*                                                                         *)
(* A critical section that does not block is one step, taken when its lock *)
(* is free.  lock and control_lock are explicit because a thread may block *)
(* while it holds one of them.  The threads' functions always return.      *)
(***************************************************************************)
EXTENDS Integers, Sequences, FiniteSets

CONSTANTS
    Worker,        \* the threads of the pool; n_threads_max is their number
    Main, None,    \* the main thread; no thread
    Item,          \* the entries the main thread may queue
    NoItem,
    Priority,      \* the priorities in use: WQ_PRI_HIGH = 0 to WQ_PRI_LOW = 2
    Result,        \* what the work functions return
    MaxUpdates,    \* bound: calls of threadpool_queue_update
    EarlierPool,   \* an earlier pool of this process was freed
    StartTimeout,  \* the wait for the workers' confirmation may time out
    EarlyStart,    \* the wait for the workers' confirmation may end without a signal
    FreeWhen       \* when the main thread may free the pool: "never", "settled" (from
                   \* when a worker has control_lock), "idle" (when all workers wait)

ASSUME ConstantsAssumption ==
    /\ IsFiniteSet(Worker) /\ Worker # {} /\ IsFiniteSet(Item)
    /\ Main # None /\ {Main, None} \cap Worker = {} /\ NoItem \notin Item
    /\ Priority \subseteq 0..2
    /\ Result \subseteq {"WQ_RPL_REPLY", "WQ_RPL_ERROR", "WQ_RPL_SHUTDOWN"}
    /\ MaxUpdates \in Nat
    /\ EarlierPool \in BOOLEAN /\ StartTimeout \in BOOLEAN /\ EarlyStart \in BOOLEAN
    /\ FreeWhen \in {"never", "settled", "idle"}

VARIABLES
    lock, control_lock,       \* pool->lock, pool->control_lock: who holds them
    control_lock_owner,       \* static of worker_thread_main
    n_worker_threads_running, \* static of worker_thread_main
    exit,                     \* pool->exit
    work,                     \* pool->work[prio]: entries waiting for a worker
    pending,                  \* entries whose pending flag is set
    pool_generation,          \* pool->generation
    update_args,              \* pool->update_args[i]: an update's number, 0 is NULL
    pc, generation,           \* per worker: where it is, thread->generation
    job, arg, result,         \* per worker: entry, update argument, what fn returned
    answers, alert,           \* reply queue; the alert socket is readable
    main_pc,                  \* where the main thread is
    runs, replies, cancelled, \* history: runs and replies of an entry, entries cancelled
    used_args, freed_args     \* history: <<worker, update>> with argument used, freed

pool_vars == <<work, pending, pool_generation, update_args>>
start_vars == <<lock, control_lock, control_lock_owner, n_worker_threads_running>>
worker_vars == <<pc, generation, job, arg, result>>
reply_vars == <<answers, alert>>
args_history == <<used_args, freed_args>>
history == <<runs, replies, cancelled, args_history>>
vars == <<pool_vars, start_vars, exit, worker_vars, reply_vars, main_pc, history>>

WorkerPc == {"spawned", "started", "taking", "woken", "waiting", "updating", "working",
             "alerting", "returned", "lingering", "done"}

TypeOK ==
    /\ lock \in Worker \cup {Main, None} /\ control_lock \in Worker \cup {None}
    /\ control_lock_owner \in Worker \cup {Main, None}
    /\ n_worker_threads_running \in 0..(Cardinality(Worker) + 1)
    /\ exit \in BOOLEAN
    /\ work \in [Priority -> Seq(Item)] /\ pending \subseteq Item
    /\ pool_generation \in 0..MaxUpdates /\ update_args \in [Worker -> 0..MaxUpdates]
    /\ pc \in [Worker -> WorkerPc] /\ generation \in [Worker -> 0..MaxUpdates]
    /\ job \in [Worker -> Item \cup {NoItem}] /\ arg \in [Worker -> 0..MaxUpdates]
    /\ result \in [Worker -> Result \cup {"WQ_RPL_REPLY"}]
    /\ answers \in Seq(Item) /\ alert \in BOOLEAN
    /\ main_pc \in {"starting", "confirmed", "timeout", "failed", "running", "replying",
                    "stopping", "freed"}
    /\ runs \in [Item -> 0..1] /\ replies \in [Item -> 0..1] /\ cancelled \subseteq Item
    /\ used_args \subseteq Worker \X (1..MaxUpdates)
    /\ freed_args \subseteq Worker \X (1..MaxUpdates)

\* threadpool_start_threads has spawned the threads, holds pool->lock and waits on the
\* condition with control_lock.  The two statics keep what an earlier pool left in them:
\* a thread that no longer runs owns the lock (Main stands for it here, being no worker)
\* and that thread did not count itself out.
Init ==
    /\ lock = Main /\ control_lock = None
    /\ control_lock_owner = (IF EarlierPool THEN Main ELSE None)
    /\ n_worker_threads_running = (IF EarlierPool THEN 1 ELSE 0)
    /\ exit = FALSE
    /\ work = [p \in Priority |-> <<>>] /\ pending = {}
    /\ pool_generation = 0 /\ update_args = [w \in Worker |-> 0]
    /\ pc = [w \in Worker |-> "spawned"] /\ generation = [w \in Worker |-> 0]
    /\ job = [w \in Worker |-> NoItem] /\ arg = [w \in Worker |-> 0]
    /\ result = [w \in Worker |-> "WQ_RPL_REPLY"]
    /\ answers = <<>> /\ alert = FALSE
    /\ main_pc = "starting"
    /\ runs = [i \in Item |-> 0] /\ replies = [i \in Item |-> 0] /\ cancelled = {}
    /\ used_args = {} /\ freed_args = {}

-----------------------------------------------------------------------------
(* The condition variable.                                                  *)

Waiting == {w \in Worker : pc[w] = "waiting"}

\* tor_cond_signal_one wakes one waiting worker, whichever, if there is one.
SignalOne ==
    IF Waiting = {} THEN pc' = pc
    ELSE \E w \in Waiting : pc' = [pc EXCEPT ![w] = "woken"]

SignalAll == pc' = [w \in Worker |-> IF pc[w] = "waiting" THEN "woken" ELSE pc[w]]

-----------------------------------------------------------------------------
(* Worker threads: worker_thread_main.                                      *)

\* The thread counts itself in, and the last one wakes the main thread.  (A worker waits
\* only once the main thread has given up pool->lock.  If the last one signals after that,
\* a worker may be the one that is woken, which is a SpuriousWakeup for it.)
ThreadStarts(w) ==
    /\ pc[w] = "spawned" /\ control_lock = None
    /\ n_worker_threads_running' = n_worker_threads_running + 1
    /\ main_pc' = IF n_worker_threads_running' = Cardinality(Worker) /\ main_pc = "starting"
                  THEN "confirmed" ELSE main_pc
    /\ pc' = [pc EXCEPT ![w] = "started"]
    /\ UNCHANGED <<pool_vars, lock, control_lock, control_lock_owner, exit, generation,
                   job, arg, result, reply_vars, history>>

\* worker_thread_has_work, then the update or the entry it found.  An update goes first.
\* The highest priority usually wins, but each thread has a chance to look further.
FaultyStartUpdate(w) ==
    /\ generation[w] # pool_generation
    /\ arg' = [arg EXCEPT ![w] = update_args[w]]
    /\ generation' = [generation EXCEPT ![w] = pool_generation]
    /\ pc' = [pc EXCEPT ![w] = "updating"]
    /\ UNCHANGED <<work, pending, pool_generation, update_args, job>>

StartUpdate(w) ==
    /\ generation[w] # pool_generation
    /\ arg' = [arg EXCEPT ![w] = update_args[w]]
    /\ update_args' = [update_args EXCEPT ![w] = 0]
    /\ generation' = [generation EXCEPT ![w] = pool_generation]
    /\ pc' = [pc EXCEPT ![w] = "updating"]
    /\ UNCHANGED <<work, pending, pool_generation, job>>

FaultyExtractNextWork(w) ==
    /\ generation[w] = pool_generation
    /\ \E p \in Priority :
         /\ work[p] # <<>>
         /\ job' = [job EXCEPT ![w] = Head(work[p])]
         /\ work' = [work EXCEPT ![p] = Tail(@)]
    /\ pc' = [pc EXCEPT ![w] = "working"]
    /\ UNCHANGED <<pending, pool_generation, update_args, generation, arg>>

ExtractNextWork(w) ==
    /\ generation[w] = pool_generation
    /\ \E p \in Priority :
         /\ work[p] # <<>>
         /\ job' = [job EXCEPT ![w] = Head(work[p])]
         /\ work' = [work EXCEPT ![p] = Tail(@)]
         /\ pending' = pending \ {Head(work[p])}
    /\ pc' = [pc EXCEPT ![w] = "working"]
    /\ UNCHANGED <<pool_generation, update_args, generation, arg>>

WaitForWork(w) ==
    /\ generation[w] = pool_generation /\ \A p \in Priority : work[p] = <<>>
    /\ pc' = [pc EXCEPT ![w] = "waiting"]
    /\ UNCHANGED <<pool_vars, generation, job, arg>>

WorkLoop(w) ==
    /\ StartUpdate(w) \/ ExtractNextWork(w) \/ WaitForWork(w)
    /\ UNCHANGED n_worker_threads_running

\* The exit label.  The owner of control_lock stays until the others have counted out.
ExitThread(w, owner) ==
    /\ IF owner = w
       THEN /\ pc' = [pc EXCEPT ![w] = "lingering"]
            /\ UNCHANGED n_worker_threads_running
       ELSE /\ pc' = [pc EXCEPT ![w] = "done"]
            /\ n_worker_threads_running' = n_worker_threads_running - 1
    /\ UNCHANGED <<pool_vars, generation, job, arg>>

\* The head of the outer loop, the only place that looks at pool->exit.
LoopTop(w, owner) == IF exit THEN ExitThread(w, owner) ELSE WorkLoop(w)

\* The thread gets pool->lock for the first time.  If control_lock has no owner, it
\* keeps pool->lock until it has control_lock as well.
EnterPool(w) ==
    /\ pc[w] = "started" /\ lock = None
    /\ IF control_lock_owner = None
       THEN /\ lock' = w
            /\ pc' = [pc EXCEPT ![w] = "taking"]
            /\ UNCHANGED <<pool_vars, n_worker_threads_running, generation, job, arg>>
       ELSE LoopTop(w, control_lock_owner) /\ UNCHANGED lock
    /\ UNCHANGED <<control_lock, control_lock_owner, exit, result, reply_vars, main_pc, history>>

TakeControl(w) ==
    /\ pc[w] = "taking" /\ control_lock = None
    /\ control_lock' = w /\ control_lock_owner' = w
    /\ lock' = None
    /\ LoopTop(w, w)
    /\ UNCHANGED <<exit, result, reply_vars, main_pc, history>>

\* tor_cond_wait returns with pool->lock held.
Wake(w) ==
    /\ pc[w] = "woken" /\ lock = None
    /\ LoopTop(w, control_lock_owner)
    /\ UNCHANGED <<lock, control_lock, control_lock_owner, exit, result, reply_vars, main_pc,
                   history>>

\* A condition variable may also let a waiting thread go without a signal.
SpuriousWakeup(w) ==
    /\ pc[w] = "waiting" /\ main_pc # "freed"
    /\ pc' = [pc EXCEPT ![w] = "woken"]
    /\ UNCHANGED <<pool_vars, start_vars, exit, generation, job, arg, result, reply_vars,
                   main_pc, history>>

\* update_fn returns.  Its argument is used up.
UpdateDone(w) ==
    /\ pc[w] = "updating"
    /\ used_args' = used_args \cup {<<w, arg[w]>>}
    /\ arg' = [arg EXCEPT ![w] = 0]
    /\ \E r \in Result : result' = [result EXCEPT ![w] = r]
    /\ pc' = [pc EXCEPT ![w] = "returned"]
    /\ UNCHANGED <<pool_vars, start_vars, exit, generation, job, reply_vars, main_pc,
                   runs, replies, cancelled, freed_args>>

\* work->fn returns and queue_reply appends the entry.  The alert comes later, without
\* the reply queue's lock, and only when the queue was empty.
FaultyWorkDone(w) ==
    /\ pc[w] = "working"
    /\ runs' = [runs EXCEPT ![job[w]] = @ + 1]
    /\ answers' = Append(answers, job[w])
    /\ job' = [job EXCEPT ![w] = NoItem]
    /\ \E r \in Result : result' = [result EXCEPT ![w] = r]
    /\ pc' = [pc EXCEPT ![w] = IF answers' = <<>> THEN "alerting" ELSE "returned"]
    /\ UNCHANGED <<pool_vars, start_vars, exit, generation, arg, alert, main_pc, replies,
                   cancelled, args_history>>

WorkDone(w) ==
    /\ pc[w] = "working"
    /\ runs' = [runs EXCEPT ![job[w]] = @ + 1]
    /\ answers' = Append(answers, job[w])
    /\ job' = [job EXCEPT ![w] = NoItem]
    /\ \E r \in Result : result' = [result EXCEPT ![w] = r]
    /\ pc' = [pc EXCEPT ![w] = IF answers = <<>> THEN "alerting" ELSE "returned"]
    /\ UNCHANGED <<pool_vars, start_vars, exit, generation, arg, alert, main_pc, replies,
                   cancelled, args_history>>

Alert(w) ==
    /\ pc[w] = "alerting"
    /\ alert' = TRUE
    /\ pc' = [pc EXCEPT ![w] = "returned"]
    /\ UNCHANGED <<pool_vars, start_vars, exit, generation, job, arg, result, answers, main_pc,
                   history>>

\* The thread has pool->lock again, in the inner loop, and leaves or goes on.
Return(w) ==
    /\ pc[w] = "returned" /\ lock = None
    /\ IF result[w] # "WQ_RPL_REPLY" THEN ExitThread(w, control_lock_owner) ELSE WorkLoop(w)
    /\ UNCHANGED <<lock, control_lock, control_lock_owner, exit, result, reply_vars, main_pc,
                   history>>

\* The owner of control_lock sees that it is the last one.
FaultyLastOneOut(w) ==
    /\ pc[w] = "lingering" /\ lock = None
    /\ pc' = [pc EXCEPT ![w] = "done"]
    /\ control_lock' = None
    /\ UNCHANGED <<pool_vars, lock, control_lock_owner, n_worker_threads_running, exit,
                   generation, job, arg, result, reply_vars, main_pc, history>>

LastOneOut(w) ==
    /\ pc[w] = "lingering" /\ lock = None /\ n_worker_threads_running <= 1
    /\ pc' = [pc EXCEPT ![w] = "done"]
    /\ control_lock' = None
    /\ UNCHANGED <<pool_vars, lock, control_lock_owner, n_worker_threads_running, exit,
                   generation, job, arg, result, reply_vars, main_pc, history>>

WorkerStep(w) ==
    /\ main_pc # "freed"
    /\ \/ ThreadStarts(w) \/ EnterPool(w) \/ TakeControl(w) \/ Wake(w)
       \/ UpdateDone(w) \/ WorkDone(w) \/ Alert(w) \/ Return(w) \/ LastOneOut(w)

-----------------------------------------------------------------------------
(* The main thread.                                                         *)

\* The wait of threadpool_start_threads gives up after 30 seconds.
StartTimesOut ==
    /\ StartTimeout /\ main_pc = "starting"
    /\ main_pc' = "timeout"
    /\ UNCHANGED <<pool_vars, start_vars, exit, worker_vars, reply_vars, history>>

\* The wait is not in a loop that looks at how many threads have confirmed, so a wake-up
\* without a signal passes for the confirmation.
StartWakesEarly ==
    /\ EarlyStart /\ main_pc = "starting"
    /\ main_pc' = "confirmed"
    /\ UNCHANGED <<pool_vars, start_vars, exit, worker_vars, reply_vars, history>>

\* The end of threadpool_start_threads, with control_lock held again: after a timeout the
\* threads are told to exit and threadpool_new goes on to free the pool.
FinishStart ==
    /\ main_pc \in {"confirmed", "timeout"} /\ control_lock = None
    /\ exit' = (main_pc = "timeout")
    /\ main_pc' = IF main_pc = "timeout" THEN "failed" ELSE "running"
    /\ lock' = None
    /\ UNCHANGED <<pool_vars, control_lock, control_lock_owner, n_worker_threads_running,
                   worker_vars, reply_vars, history>>

\* The event loop, or a reply function it calls.
InMainLoop == main_pc \in {"running", "replying"}

Fresh(i) == runs[i] = 0 /\ i \notin pending \cup cancelled \cup {job[w] : w \in Worker}

\* threadpool_queue_work_priority.
FaultyQueueWork(i, p) ==
    /\ InMainLoop /\ lock = None
    /\ Fresh(i)
    /\ work' = [work EXCEPT ![p] = Append(@, i)]
    /\ pending' = pending \cup {i}
    /\ UNCHANGED <<pool_generation, update_args, start_vars, exit, worker_vars,
                   reply_vars, main_pc, history>>

QueueWork(i, p) ==
    /\ InMainLoop /\ lock = None
    /\ Fresh(i)
    /\ work' = [work EXCEPT ![p] = Append(@, i)]
    /\ pending' = pending \cup {i}
    /\ SignalOne
    /\ UNCHANGED <<pool_generation, update_args, start_vars, exit, generation, job, arg,
                   result, reply_vars, main_pc, history>>

\* workqueue_entry_cancel, for an entry whose reply function has not run.  On an entry
\* that is no longer pending it has no effect.
Cancel(i) ==
    /\ InMainLoop /\ lock = None
    /\ i \in pending
    /\ \E p \in Priority : \E k \in 1..Len(work[p]) :
         /\ work[p][k] = i
         /\ work' = [work EXCEPT ![p] = SubSeq(@, 1, k - 1) \o SubSeq(@, k + 1, Len(@))]
    /\ cancelled' = cancelled \cup {i}
    /\ pending' = pending \ {i}
    /\ UNCHANGED <<pool_generation, update_args, start_vars, exit, worker_vars, reply_vars,
                   main_pc, runs, replies, args_history>>

\* threadpool_queue_update: arguments no thread has taken are freed, not run.
FaultySignalsOne ==
    /\ InMainLoop /\ lock = None /\ pool_generation < MaxUpdates
    /\ pool_generation' = pool_generation + 1
    /\ update_args' = [w \in Worker |-> pool_generation']
    /\ freed_args' = freed_args \cup
         {<<w, update_args[w]>> : w \in {v \in Worker : update_args[v] # 0}}
    /\ SignalOne
    /\ UNCHANGED <<work, pending, start_vars, exit, generation, job, arg, result, reply_vars,
                   main_pc, runs, replies, cancelled, used_args>>

QueueUpdate ==
    /\ InMainLoop /\ lock = None /\ pool_generation < MaxUpdates
    /\ pool_generation' = pool_generation + 1
    /\ update_args' = [w \in Worker |-> pool_generation']
    /\ freed_args' = freed_args \cup
         {<<w, update_args[w]>> : w \in {v \in Worker : update_args[v] # 0}}
    /\ SignalAll
    /\ UNCHANGED <<work, pending, start_vars, exit, generation, job, arg, result, reply_vars,
                   main_pc, runs, replies, cancelled, used_args>>

\* replyqueue_process, called when the alert socket is readable: drain the socket, then
\* take answers one by one; the reply function runs without the lock.
ReplyEvent ==
    /\ main_pc = "running" /\ alert
    /\ alert' = FALSE
    /\ main_pc' = "replying"
    /\ UNCHANGED <<pool_vars, start_vars, exit, worker_vars, answers, history>>

ProcessReply ==
    /\ main_pc = "replying" /\ answers # <<>>
    /\ replies' = [replies EXCEPT ![Head(answers)] = @ + 1]
    /\ answers' = Tail(answers)
    /\ UNCHANGED <<pool_vars, start_vars, exit, worker_vars, alert, main_pc, runs, cancelled,
                   args_history>>

RepliesDone ==
    /\ main_pc = "replying" /\ answers = <<>>
    /\ main_pc' = "running"
    /\ UNCHANGED <<pool_vars, start_vars, exit, worker_vars, reply_vars, history>>

\* threadpool_free, as far as threadpool_stop_threads.
MayFree ==
    CASE FreeWhen = "never"   -> FALSE
      [] FreeWhen = "settled" -> control_lock # None
      [] FreeWhen = "idle"    -> Waiting = Worker

FaultyStopThreads ==
    /\ (main_pc = "running" /\ MayFree) \/ main_pc = "failed"
    /\ lock = None
    /\ exit' = TRUE
    /\ main_pc' = "stopping"
    /\ UNCHANGED <<pool_vars, start_vars, worker_vars, reply_vars, history>>

StopThreads ==
    /\ (main_pc = "running" /\ MayFree) \/ main_pc = "failed"
    /\ lock = None
    /\ exit' = TRUE
    /\ IF exit THEN UNCHANGED pc ELSE SignalAll
    /\ main_pc' = "stopping"
    /\ UNCHANGED <<pool_vars, start_vars, generation, job, arg, result, reply_vars, history>>

\* The rest of threadpool_free, once control_lock is free.  Answers that are still there
\* are dropped, and free_update_arg_fn gets the array, never one of the arguments.
FreePool ==
    /\ main_pc = "stopping" /\ control_lock = None
    /\ main_pc' = "freed"
    /\ answers' = <<>>
    /\ UNCHANGED <<pool_vars, start_vars, exit, worker_vars, alert, history>>

MainStep ==
    \/ StartTimesOut \/ StartWakesEarly \/ FinishStart
    \/ \E i \in Item, p \in Priority : QueueWork(i, p)
    \/ \E i \in Item : Cancel(i)
    \/ QueueUpdate
    \/ ReplyEvent \/ ProcessReply \/ RepliesDone
    \/ StopThreads \/ FreePool

Next == MainStep \/ \E w \in Worker : WorkerStep(w) \/ SpuriousWakeup(w)

Spec == Init /\ [][Next]_vars

\* Threads are scheduled and functions return; the event loop serves a readable alert
\* socket and runs replyqueue_process to its end; threadpool_new and threadpool_free go
\* on as soon as their locks are free.  Nothing makes the main thread queue, cancel or
\* free, a wait time out or a thread wake up without a signal.
Fairness ==
    /\ \A w \in Worker : WF_vars(WorkerStep(w))
    /\ WF_vars(FinishStart)
    /\ WF_vars(ReplyEvent) /\ WF_vars(ProcessReply) /\ WF_vars(RepliesDone)
    /\ WF_vars(main_pc = "failed" /\ StopThreads) /\ WF_vars(FreePool)

FairSpec == Spec /\ Fairness

-----------------------------------------------------------------------------
(* Properties.                                                              *)

Occurrences(i) ==
      Cardinality({x \in Priority \X (1..Cardinality(Item)) :
                     x[2] <= Len(work[x[1]]) /\ work[x[1]][x[2]] = i})
    + Cardinality({w \in Worker : job[w] = i})
    + Cardinality({k \in 1..Len(answers) : answers[k] = i})

\* Every entry is in one place at most: in a work queue, with a worker, in the reply
\* queue, replied to or cancelled.  A cancelled entry never runs and gets no reply,
\* an entry that gets a reply has run, and the pending flag, which alone decides whether
\* workqueue_entry_cancel may free the entry, is set exactly while it is in a work queue.
\* All state keeps its type.
EntryHasOneOwner ==
    /\ TypeOK
    /\ main_pc # "freed" => \A i \in Item :
      /\ Occurrences(i) + replies[i] + (IF i \in cancelled THEN 1 ELSE 0) <= 1
      /\ i \in pending <=> \E p \in Priority : \E k \in 1..Len(work[p]) : work[p][k] = i
      /\ runs[i] = 1 <=> replies[i] = 1 \/ \E k \in 1..Len(answers) : answers[k] = i
      /\ i \in cancelled => runs[i] = 0

\* No answer is forgotten although queue_reply alerts only when the queue was empty and
\* only after it gave up the lock: while the main thread is in its event loop and there
\* are answers, the alert socket is readable or some worker is about to write to it.
NoLostReply ==
    main_pc = "running" /\ answers # <<>> => alert \/ \E w \in Worker : pc[w] = "alerting"

\* The copy of an update's argument made for a thread is used by it or freed by
\* threadpool_queue_update, never both, and no update runs without its argument.
ArgConsumedOnce ==
    /\ used_args \cap freed_args = {}
    /\ \A w \in Worker : pc[w] = "updating" =>
         arg[w] # 0 /\ <<w, arg[w]>> \notin used_args \cup freed_args

\* The pool's memory is freed only when no worker runs any more: threadpool_stop_threads
\* waits for control_lock, which a worker keeps until all have left worker_thread_main.
CleanupAfterExit == main_pc = "freed" => \A w \in Worker : pc[w] = "done"

\* Where an entry is, as the code that queued it sees it.
EntryStatus(i) ==
    IF i \in cancelled THEN "cancelled"
    ELSE IF replies[i] = 1 THEN "replied"
    ELSE IF \E k \in 1..Len(answers) : answers[k] = i THEN "answered"
    ELSE IF \E w \in Worker : job[w] = i THEN "running"
    ELSE IF i \in pending THEN "queued"
    ELSE IF runs[i] = 1 THEN "dropped" ELSE "fresh"

Pool == INSTANCE WorkPool WITH status <- [i \in Item |-> EntryStatus(i)]

\* The thread pool implements WorkPool: whatever the threads, the signals and the two
\* queues do, an entry moves through its life once and in order, and only an entry that
\* no thread has taken can be cancelled.
ImplementsWorkPool == Pool!Spec

\* The pool is shutting down, or the work functions told all its threads to leave.
NobodyServes == exit \/ \A w \in Worker : pc[w] \in {"lingering", "done"}

\* Every entry that is queued gets its reply in the main thread unless it is cancelled
\* or no thread is left to run it: no signal of the condition and no alert is lost, also
\* when a thread that was signalled leaves or finds nothing.
EveryEntryHandled ==
    \A i \in Item : (i \in pending) ~> (replies[i] = 1 \/ i \in cancelled \/ NobodyServes)

\* Every thread that stays catches up with the newest update.  The one exception is a
\* thread that the start did not wait for: it cannot even count itself in while another
\* one keeps control_lock.
UpdatesReachEveryThread ==
    \A w \in Worker :
      (generation[w] # pool_generation)
        ~> \/ generation[w] = pool_generation \/ exit \/ pc[w] \in {"lingering", "done"}
           \/ pc[w] = "spawned" /\ control_lock # None

\* threadpool_free returns: every worker sees pool->exit and leaves, and control_lock is
\* given up in the end.
ShutdownCompletes == (main_pc = "stopping") ~> (main_pc = "freed")

=============================================================================
