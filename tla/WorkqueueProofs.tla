-------------------------- MODULE WorkqueueProofs --------------------------
(***************************************************************************)
(* Proofs about Workqueue, for any number of threads, entries, priorities  *)
(* and updates: an entry has one owner, no reply and no update argument is *)
(* lost or used twice, the pool implements WorkPool, and its memory is     *)
(* freed after the last thread has left, unless one of the two recorded    *)
(* flaws (an earlier pool, a start that times out) comes into play.        *)
(***************************************************************************)
EXTENDS Workqueue, FiniteSetTheorems, SequenceTheorems, TLAPS

-----------------------------------------------------------------------------
(* The inductive invariant.                                                *)

\* The entries of a queue, and that none of them is in it twice.
Entries(s) == {s[k] : k \in 1..Len(s)}
Distinct(s) == \A k, l \in 1..Len(s) : s[k] = s[l] => k = l

\* No queue holds an entry twice, no two queues and no two threads hold the same one.
QueuePart ==
    /\ \A p \in Priority : Distinct(work[p])
    /\ \A p, q \in Priority : p # q => Entries(work[p]) \cap Entries(work[q]) = {}
    /\ Distinct(answers)
    /\ \A w \in Worker : job[w] # NoItem <=> pc[w] = "working"
    /\ \A v, w \in Worker : job[v] = job[w] /\ job[v] # NoItem => v = w

\* Where an entry is, and what has been done to it so far.
EntryPart ==
    \A i \in Item :
      /\ i \in pending <=> \E p \in Priority : i \in Entries(work[p])
      /\ i \in pending => i \notin cancelled /\ runs[i] = 0 /\ \A w \in Worker : job[w] # i
      /\ (\E w \in Worker : job[w] = i) => i \notin cancelled /\ runs[i] = 0
      /\ i \in cancelled => runs[i] = 0
      /\ i \in Entries(answers) => runs[i] = 1 /\ replies[i] = 0
      /\ replies[i] = 1 => runs[i] = 1
      /\ runs[i] = 1 /\ main_pc # "freed" => replies[i] = 1 \/ i \in Entries(answers)

\* The main thread waits for the workers to start: none has got past its first step.
Starting == main_pc \in {"starting", "confirmed", "timeout"}

StartPart ==
    /\ Starting <=> lock = Main
    /\ Starting => /\ \A w \in Worker : pc[w] \in {"spawned", "started"}
                   /\ answers = <<>>
    /\ EarlierPool <=> control_lock_owner = Main

\* The locks and the owner of control_lock.
LockPart ==
    /\ \A w \in Worker : pc[w] = "taking" <=> lock = w
    /\ \A w \in Worker : pc[w] = "taking" => control_lock_owner = None
    /\ control_lock # None => control_lock_owner = control_lock
    /\ \A w \in Worker : control_lock_owner = w =>
         /\ pc[w] \notin {"spawned", "started", "taking"}
         /\ pc[w] # "done" <=> control_lock = w
    /\ \A w \in Worker : pc[w] = "lingering" => control_lock_owner = w
    /\ \A w \in Worker : pc[w] \notin {"spawned", "started", "taking"} =>
         control_lock_owner # None

\* The threads that n_worker_threads_running counts: those that have counted themselves
\* in and not out, the last one out among them.
Counted == {w \in Worker : pc[w] \notin {"spawned", "done"}
                             \/ (pc[w] = "done" /\ control_lock_owner = w)}

CountPart ==
    n_worker_threads_running = Cardinality(Counted) + (IF EarlierPool THEN 1 ELSE 0)

\* A thread that lags behind has the newest update's argument waiting, any other none.
\* An argument it used is not newer than its generation, a freed one never was its own.
ArgPart ==
    \A w \in Worker :
      /\ generation[w] <= pool_generation
      /\ generation[w] # pool_generation => update_args[w] = pool_generation
      /\ generation[w] = pool_generation => update_args[w] = 0
      /\ pc[w] = "updating" => arg[w] = generation[w] /\ arg[w] # 0
      /\ \A u \in 1..MaxUpdates :
           /\ <<w, u>> \in used_args =>
                u <= generation[w] /\ (pc[w] = "updating" => u # generation[w])
           /\ <<w, u>> \in freed_args => u # generation[w] /\ u < pool_generation
           /\ ~(<<w, u>> \in used_args /\ <<w, u>> \in freed_args)

IInv ==
    /\ TypeOK /\ QueuePart /\ EntryPart /\ StartPart /\ LockPart /\ CountPart /\ ArgPart
    /\ NoLostReply

\* Without an earlier pool, a timeout or an early start: no thread is late once the start is
\* over, threadpool_free begins when control_lock has an owner, and when the owner has
\* given it up all threads are gone.
ExitPart ==
    /\ main_pc \notin {"timeout", "failed"}
    /\ main_pc # "starting" => \A w \in Worker : pc[w] # "spawned"
    /\ main_pc \in {"stopping", "freed"} => control_lock_owner \in Worker
    /\ control_lock_owner \in Worker /\ control_lock = None => \A w \in Worker : pc[w] = "done"
    /\ main_pc = "freed" => control_lock = None
-----------------------------------------------------------------------------
(* Queues.                                                                 *)

\* An entry that is appended to a queue without it.
LEMMA EntriesAppend ==
    ASSUME NEW S, NEW s \in Seq(S), NEW e \in S
    PROVE  /\ Append(s, e) \in Seq(S)
           /\ Entries(Append(s, e)) = Entries(s) \cup {e}
           /\ Distinct(s) /\ e \notin Entries(s) => Distinct(Append(s, e))
<1>1. /\ Append(s, e) \in Seq(S) /\ Len(s) \in Nat
      /\ Len(Append(s, e)) = Len(s) + 1
      /\ \A k \in 1..Len(s) : Append(s, e)[k] = s[k]
      /\ Append(s, e)[Len(s) + 1] = e
  OBVIOUS
<1>2. 1..(Len(s) + 1) = 1..Len(s) \cup {Len(s) + 1}
  BY <1>1
<1> HIDE DEF Entries
<1>3. Entries(Append(s, e)) = Entries(s) \cup {e}
  BY <1>1, <1>2 DEF Entries
<1>4. ASSUME Distinct(s), e \notin Entries(s) PROVE Distinct(Append(s, e))
  BY <1>1, <1>2, <1>4 DEF Entries, Distinct
<1> QED
  BY <1>1, <1>3, <1>4

\* The head of a queue leaves it.
LEMMA EntriesTail ==
    ASSUME NEW S, NEW s \in Seq(S), s # <<>>
    PROVE  /\ Head(s) \in S /\ Head(s) \in Entries(s) /\ Tail(s) \in Seq(S)
           /\ Distinct(s) => /\ Entries(Tail(s)) = Entries(s) \ {Head(s)}
                             /\ Distinct(Tail(s))
<1>1. /\ Tail(s) \in Seq(S) /\ Len(s) \in Nat /\ Len(s) >= 1
      /\ Len(Tail(s)) = Len(s) - 1 /\ Head(s) = s[1] /\ s[1] \in S
      /\ \A k \in 1..(Len(s) - 1) : Tail(s)[k] = s[k + 1]
  OBVIOUS
<1>2. Head(s) \in Entries(s)
  BY <1>1 DEF Entries
<1>3. ASSUME Distinct(s) PROVE Distinct(Tail(s))
  BY <1>1, <1>3 DEF Distinct
<1>4. ASSUME Distinct(s) PROVE Entries(Tail(s)) = Entries(s) \ {Head(s)}
  <2>1. ASSUME NEW x \in Entries(Tail(s)) PROVE x \in Entries(s) /\ x # Head(s)
    <3>1. PICK k \in 1..(Len(s) - 1) : x = s[k + 1]
      BY <1>1, <2>1 DEF Entries
    <3> QED
      BY <1>1, <1>4, <3>1 DEF Entries, Distinct
  <2>2. ASSUME NEW x \in Entries(s), x # Head(s) PROVE x \in Entries(Tail(s))
    <3>1. PICK k \in 1..Len(s) : x = s[k]
      BY <2>2 DEF Entries
    <3>2. k - 1 \in 1..(Len(s) - 1) /\ Tail(s)[k - 1] = x
      BY <1>1, <2>2, <3>1
    <3> QED
      BY <1>1, <3>2 DEF Entries
  <2> QED
    BY <2>1, <2>2
<1> QED
  BY <1>1, <1>2, <1>3, <1>4

\* A queue without its k-th entry.
LEMMA EntriesWithout ==
    ASSUME NEW S, NEW s \in Seq(S), NEW k \in 1..Len(s), NEW t \in Seq(S), Distinct(s),
           Len(t) = Len(s) - 1,
           \A l \in 1..(Len(s) - 1) : l < k => t[l] = s[l],
           \A l \in 1..(Len(s) - 1) : l >= k => t[l] = s[l + 1]
    PROVE  Entries(t) = Entries(s) \ {s[k]} /\ Distinct(t)
<1>1. Len(s) \in Nat /\ k \in Nat /\ k >= 1 /\ k <= Len(s)
  OBVIOUS
<1>2. Distinct(t)
  BY <1>1 DEF Distinct
<1>3. ASSUME NEW x \in Entries(t) PROVE x \in Entries(s) /\ x # s[k]
  <2>1. PICK l \in 1..(Len(s) - 1) : x = t[l]
    BY <1>1, <1>3 DEF Entries
  <2> QED
    BY <1>1, <2>1 DEF Entries, Distinct
<1>4. ASSUME NEW x \in Entries(s), x # s[k] PROVE x \in Entries(t)
  <2>1. PICK l \in 1..Len(s) : x = s[l]
    BY <1>4 DEF Entries
  <2>2. CASE l < k
    BY <1>1, <2>1, <2>2 DEF Entries
  <2>3. CASE l > k
    <3>1. l - 1 \in 1..(Len(s) - 1) /\ t[l - 1] = x
      BY <1>1, <2>1, <2>3
    <3> QED
      BY <3>1 DEF Entries
  <2> QED
    BY <1>1, <1>4, <2>1, <2>2, <2>3
<1> QED
  BY <1>2, <1>3, <1>4

\* An entry is taken out of the middle of a queue (TOR_TAILQ_REMOVE).
LEMMA EntriesRemove ==
    ASSUME NEW S, NEW s \in Seq(S), NEW k \in 1..Len(s)
    PROVE  LET t == SubSeq(s, 1, k - 1) \o SubSeq(s, k + 1, Len(s))
           IN  /\ t \in Seq(S)
               /\ Distinct(s) => Entries(t) = Entries(s) \ {s[k]} /\ Distinct(t)
<1> DEFINE a == SubSeq(s, 1, k - 1)
           b == SubSeq(s, k + 1, Len(s))
           t == a \o b
<1>1. Len(s) \in Nat /\ k \in Nat /\ k >= 1 /\ k <= Len(s) /\ \A l \in 1..Len(s) : s[l] \in S
  OBVIOUS
<1>2. /\ a \in Seq(S) /\ Len(a) = k - 1
      /\ \A l \in 1..(k - 1) : a[l] = s[l]
  BY <1>1, SubSeqProperties
<1>3. /\ b \in Seq(S) /\ Len(b) = Len(s) - k
      /\ \A l \in 1..(Len(s) - k) : b[l] = s[l + k]
  BY <1>1, SubSeqProperties
<1> HIDE DEF a, b
<1>4. /\ t \in Seq(S) /\ Len(t) = Len(a) + Len(b)
      /\ \A l \in 1..(Len(a) + Len(b)) : t[l] = IF l <= Len(a) THEN a[l] ELSE b[l - Len(a)]
  BY <1>2, <1>3, ConcatProperties
<1> HIDE DEF t
<1>5. /\ Len(t) = Len(s) - 1
      /\ \A l \in 1..(Len(s) - 1) : l < k => t[l] = s[l]
      /\ \A l \in 1..(Len(s) - 1) : l >= k => t[l] = s[l + 1]
  <2>1. Len(t) = Len(s) - 1
    BY <1>1, <1>2, <1>3, <1>4
  <2>2. ASSUME NEW l \in 1..(Len(s) - 1), l < k PROVE t[l] = s[l]
    BY <1>1, <1>2, <1>3, <1>4, <2>2
  <2>3. ASSUME NEW l \in 1..(Len(s) - 1), l >= k PROVE t[l] = s[l + 1]
    <3>1. t[l] = b[l - (k - 1)]
      <4>1. Len(a) = k - 1 /\ Len(b) = Len(s) - k
        BY <1>2, <1>3
      <4>2. /\ l \in 1..((k - 1) + (Len(s) - k)) /\ ~(l <= k - 1)
        BY <1>1, <2>3
      <4>3. t[l] = IF l <= k - 1 THEN a[l] ELSE b[l - (k - 1)]
        BY <1>4, <4>1, <4>2, Zenon
      <4> QED
        BY <4>2, <4>3, Zenon
    <3>2. l - (k - 1) \in 1..(Len(s) - k) /\ (l - (k - 1)) + k = l + 1
      BY <1>1, <2>3
    <3> QED
      BY <1>3, <3>1, <3>2
  <2> QED
    BY <2>1, <2>2, <2>3
<1>6. Distinct(s) => Entries(t) = Entries(s) \ {s[k]} /\ Distinct(t)
  BY <1>4, <1>5, EntriesWithout
<1> QED
  BY <1>4, <1>6 DEF t, a, b
-----------------------------------------------------------------------------
(* Entries: QueuePart and EntryPart.                                       *)

\* Steps that leave the queues, the jobs and the history of entries alone.
LEMMA EntryFrame ==
    ASSUME QueuePart, EntryPart,
           UNCHANGED <<work, pending, job, answers, runs, replies, cancelled>>,
           \A w \in Worker : pc'[w] = "working" <=> pc[w] = "working",
           main_pc = "freed" => main_pc' = "freed"
    PROVE  QueuePart' /\ EntryPart'
<1>1. QueuePart'
  <2>1. \A p \in Priority : Distinct(work[p])' /\ Entries(work[p])' = Entries(work[p])
    BY DEF QueuePart
  <2>2. Distinct(answers)'
    BY DEF QueuePart
  <2> QED
    BY <2>1, <2>2 DEF QueuePart
<1>2. EntryPart'
  BY DEF EntryPart, Entries
<1> QED
  BY <1>1, <1>2

\* A thread takes an entry from a work queue.
LEMMA EntryExtract ==
    ASSUME TypeOK, QueuePart, EntryPart, NEW w \in Worker, pc[w] # "working",
           ExtractNextWork(w), UNCHANGED <<answers, main_pc, runs, replies, cancelled>>
    PROVE  QueuePart' /\ EntryPart'
<1>1. PICK p \in Priority :
         /\ work[p] # <<>>
         /\ job' = [job EXCEPT ![w] = Head(work[p])]
         /\ work' = [work EXCEPT ![p] = Tail(@)]
         /\ pending' = pending \ {Head(work[p])}
  BY DEF ExtractNextWork
<1> DEFINE i == Head(work[p])
<1>2. /\ i \in Item /\ i \in Entries(work[p])
      /\ Entries(work'[p]) = Entries(work[p]) \ {i} /\ Distinct(work'[p])
      /\ \A q \in Priority : q # p => work'[q] = work[q]
      /\ job'[w] = i /\ \A v \in Worker : v # w => job'[v] = job[v]
      /\ pc'[w] = "working" /\ \A v \in Worker : v # w => pc'[v] = pc[v]
      /\ pending' = pending \ {i}
  BY <1>1, EntriesTail DEF TypeOK, QueuePart, ExtractNextWork
<1>3. i \in pending /\ i # NoItem /\ job[w] = NoItem
  BY <1>2, ConstantsAssumption DEF EntryPart, QueuePart
<1> HIDE DEF i
<1>4. QueuePart'
  <2>1. \A q \in Priority : Distinct(work'[q]) /\ Entries(work'[q]) \subseteq Entries(work[q])
    BY <1>2 DEF QueuePart
  <2>2. Distinct(answers)'
    BY DEF QueuePart
  <2> QED
    BY <1>2, <1>3, <2>1, <2>2, ConstantsAssumption DEF QueuePart, EntryPart
<1>5. EntryPart'
  <2>1. ASSUME NEW j \in Item
        PROVE  (j \in pending <=> \E q \in Priority : j \in Entries(work[q]))'
    BY <1>2 DEF QueuePart, EntryPart
  <2>2. Entries(answers)' = Entries(answers)
    OBVIOUS
  <2> QED
    BY <1>2, <1>3, <2>1, <2>2 DEF EntryPart
<1> QED
  BY <1>4, <1>5

\* A thread is done with an entry, which joins the reply queue.
LEMMA EntryWorkDone ==
    ASSUME TypeOK, QueuePart, EntryPart, main_pc # "freed", NEW w \in Worker, WorkDone(w)
    PROVE  QueuePart' /\ EntryPart' /\ job[w] \in Item /\ runs[job[w]] = 0
<1> DEFINE i == job[w]
<1>1. i \in Item /\ runs[i] = 0 /\ i \notin cancelled /\ i \notin pending
  BY DEF WorkDone, TypeOK, QueuePart, EntryPart
<1>2. i \notin Entries(answers) /\ replies[i] = 0
  BY <1>1 DEF EntryPart, TypeOK
<1>3. /\ Entries(answers') = Entries(answers) \cup {i} /\ Distinct(answers')
      /\ job'[w] = NoItem /\ \A v \in Worker : v # w => job'[v] = job[v]
      /\ pc'[w] # "working" /\ \A v \in Worker : v # w => pc'[v] = pc[v]
      /\ runs'[i] = 1 /\ \A j \in Item : j # i => runs'[j] = runs[j]
      /\ UNCHANGED <<work, pending, replies, cancelled, main_pc>>
  <2>1. Entries(answers') = Entries(answers) \cup {i} /\ Distinct(answers')
    BY <1>1, <1>2, EntriesAppend DEF WorkDone, TypeOK, QueuePart
  <2> QED
    BY <1>1, <2>1 DEF WorkDone, TypeOK, pool_vars
<1>4. QueuePart'
  <2>1. \A p \in Priority : Distinct(work[p])'
    BY <1>3 DEF QueuePart
  <2>2. \A p, q \in Priority : p # q => (Entries(work[p]) \cap Entries(work[q]) = {})'
    BY <1>3 DEF QueuePart
  <2> QED
    BY <1>3, <2>1, <2>2 DEF QueuePart
<1>5. EntryPart'
  <2>1. \A p \in Priority : Entries(work[p])' = Entries(work[p])
    BY <1>3
  <2>2. \A v \in Worker : v # w => job[v] # i
    BY <1>1, ConstantsAssumption DEF QueuePart
  <2>3. i # NoItem
    BY <1>1, ConstantsAssumption
  <2> QED
    BY <1>1, <1>2, <1>3, <2>1, <2>2, <2>3, ConstantsAssumption DEF EntryPart
<1> QED
  BY <1>1, <1>4, <1>5

\* The main thread queues an entry.
LEMMA EntryQueueWork ==
    ASSUME TypeOK, QueuePart, EntryPart, NEW i \in Item, NEW p \in Priority, QueueWork(i, p),
           \A w \in Worker : pc'[w] = "working" <=> pc[w] = "working"
    PROVE  QueuePart' /\ EntryPart'
<1>1. /\ runs[i] = 0 /\ i \notin pending /\ i \notin cancelled /\ \A w \in Worker : job[w] # i
      /\ UNCHANGED <<job, answers, main_pc, runs, replies, cancelled>>
      /\ pending' = pending \cup {i}
  BY DEF QueueWork, Fresh, reply_vars, history
<1>2. \A q \in Priority : i \notin Entries(work[q])
  BY <1>1 DEF EntryPart
<1>3. /\ Entries(work'[p]) = Entries(work[p]) \cup {i} /\ Distinct(work'[p])
      /\ \A q \in Priority : q # p => work'[q] = work[q]
  BY <1>2, EntriesAppend DEF QueueWork, TypeOK, QueuePart
<1>4. QueuePart'
  <2>1. Distinct(answers)'
    BY <1>1 DEF QueuePart
  <2> QED
    BY <1>1, <1>2, <1>3, <2>1 DEF QueuePart
<1>5. EntryPart'
  <2>1. Entries(answers)' = Entries(answers)
    BY <1>1
  <2> QED
    BY <1>1, <1>3, <2>1 DEF EntryPart
<1> QED
  BY <1>4, <1>5

\* The main thread cancels an entry that no thread has taken.
LEMMA EntryCancel ==
    ASSUME TypeOK, QueuePart, EntryPart, NEW i \in Item, Cancel(i)
    PROVE  QueuePart' /\ EntryPart' /\ work' \in [Priority -> Seq(Item)]
<1>0. PICK p \in Priority : \E k \in 1..Len(work[p]) :
         /\ work[p][k] = i
         /\ work' = [work EXCEPT ![p] = SubSeq(@, 1, k - 1) \o SubSeq(@, k + 1, Len(@))]
  BY DEF Cancel
<1>1. PICK k \in 1..Len(work[p]) :
         /\ work[p][k] = i
         /\ work' = [work EXCEPT ![p] = SubSeq(@, 1, k - 1) \o SubSeq(@, k + 1, Len(@))]
  BY <1>0
<1>2. /\ i \in pending /\ pending' = pending \ {i} /\ cancelled' = cancelled \cup {i}
      /\ UNCHANGED <<job, answers, main_pc, runs, replies, pc>>
  BY DEF Cancel, worker_vars, reply_vars
<1>3. /\ Entries(work'[p]) = Entries(work[p]) \ {i} /\ Distinct(work'[p])
      /\ work'[p] \in Seq(Item) /\ i \in Entries(work[p])
      /\ \A q \in Priority : q # p => work'[q] = work[q]
  <2>1. i \in Entries(work[p])
    BY <1>1 DEF Entries
  <2>2. work[p] \in Seq(Item) /\ Distinct(work[p])
    BY DEF TypeOK, QueuePart
  <2> DEFINE t == SubSeq(work[p], 1, k - 1) \o SubSeq(work[p], k + 1, Len(work[p]))
  <2>3. work'[p] = t
    BY <1>1 DEF TypeOK
  <2>4. \A q \in Priority : q # p => work'[q] = work[q]
    BY <1>1 DEF TypeOK
  <2>5. t \in Seq(Item) /\ Entries(t) = Entries(work[p]) \ {work[p][k]} /\ Distinct(t)
    BY <2>2, EntriesRemove, Zenon
  <2> HIDE DEF t
  <2> QED
    BY <1>1, <2>1, <2>3, <2>4, <2>5
<1>4. QueuePart'
  <2>1. Distinct(answers)'
    BY <1>2 DEF QueuePart
  <2>2. \A q \in Priority : Distinct(work'[q]) /\ Entries(work'[q]) \subseteq Entries(work[q])
    BY <1>3 DEF QueuePart
  <2> QED
    BY <1>2, <2>1, <2>2 DEF QueuePart
<1>5. EntryPart'
  <2>1. Entries(answers)' = Entries(answers)
    BY <1>2
  <2>2. ASSUME NEW j \in Item
        PROVE  (j \in pending <=> \E q \in Priority : j \in Entries(work[q]))'
    <3>1. CASE j = i
      BY <1>2, <1>3, <3>1 DEF QueuePart
    <3>2. CASE j # i
      BY <1>2, <1>3, <3>2 DEF EntryPart
    <3> QED
      BY <3>1, <3>2
  <2> QED
    BY <1>2, <2>1, <2>2 DEF EntryPart
<1>6. work' \in [Priority -> Seq(Item)]
  BY <1>1, <1>3 DEF TypeOK
<1> QED
  BY <1>4, <1>5, <1>6

\* The main thread takes an answer and runs its reply function.
LEMMA EntryProcessReply ==
    ASSUME TypeOK, QueuePart, EntryPart, ProcessReply
    PROVE  /\ QueuePart' /\ EntryPart'
           /\ Head(answers) \in Item /\ replies[Head(answers)] = 0
<1> DEFINE i == Head(answers)
<1>1. /\ i \in Item /\ i \in Entries(answers)
      /\ Entries(answers') = Entries(answers) \ {i} /\ Distinct(answers')
  BY EntriesTail DEF ProcessReply, TypeOK, QueuePart
<1>2. replies[i] = 0 /\ runs[i] = 1
  BY <1>1 DEF EntryPart
<1>3. /\ replies'[i] = 1 /\ \A j \in Item : j # i => replies'[j] = replies[j]
      /\ UNCHANGED <<work, pending, job, pc, main_pc, runs, cancelled>>
  BY <1>1, <1>2 DEF ProcessReply, TypeOK, pool_vars, worker_vars
<1>4. \A p \in Priority : Entries(work[p])' = Entries(work[p]) /\ Distinct(work[p])'
  BY <1>3 DEF QueuePart
<1> HIDE DEF i
<1>5. QueuePart'
  BY <1>1, <1>3, <1>4 DEF QueuePart
<1>6. EntryPart'
  BY <1>1, <1>2, <1>3, <1>4 DEF EntryPart
<1> QED
  BY <1>1, <1>2, <1>5, <1>6 DEF i

\* threadpool_free drops the answers that are left.
LEMMA EntryFree ==
    ASSUME TypeOK, QueuePart, EntryPart, FreePool
    PROVE  QueuePart' /\ EntryPart'
<1>1. answers' = <<>> /\ Entries(answers') = {} /\ Distinct(answers')
  BY DEF FreePool, Entries, Distinct
<1>2. UNCHANGED <<work, pending, job, pc, runs, replies, cancelled>> /\ main_pc' = "freed"
  BY DEF FreePool, pool_vars, worker_vars, history
<1>3. \A p \in Priority : Entries(work[p])' = Entries(work[p]) /\ Distinct(work[p])'
  BY <1>2 DEF QueuePart
<1>4. QueuePart'
  BY <1>1, <1>2, <1>3 DEF QueuePart
<1>5. EntryPart'
  BY <1>1, <1>2, <1>3 DEF EntryPart
<1> QED
  BY <1>4, <1>5
-----------------------------------------------------------------------------
(* Threads: StartPart, LockPart and CountPart.                             *)

ThreadPart == StartPart /\ LockPart /\ CountPart

\* The threads of the pool are counted with a number that fits its type.
LEMMA CountBound ==
    ASSUME CountPart
    PROVE  /\ IsFiniteSet(Counted) /\ Cardinality(Counted) \in 0..Cardinality(Worker)
           /\ Cardinality(Worker) \in Nat
           /\ n_worker_threads_running \in 0..(Cardinality(Worker) + 1)
<1>1. Counted \subseteq Worker /\ IsFiniteSet(Worker)
  BY ConstantsAssumption DEF Counted
<1>2. IsFiniteSet(Counted) /\ Cardinality(Counted) <= Cardinality(Worker)
  BY <1>1, FS_Subset
<1>3. Cardinality(Counted) \in Nat /\ Cardinality(Worker) \in Nat
  BY <1>1, <1>2, FS_CardinalityType
<1> QED
  BY <1>2, <1>3 DEF CountPart

\* Steps that move no thread between the places the three parts speak of.
LEMMA ThreadFrame ==
    ASSUME ThreadPart,
           UNCHANGED <<lock, control_lock, control_lock_owner, n_worker_threads_running>>,
           \A w \in Worker, x \in {"spawned", "started", "taking", "lingering", "done"} :
             pc'[w] = x <=> pc[w] = x,
           Starting' <=> Starting,
           Starting => answers' = <<>>
    PROVE  ThreadPart'
<1>1. \A w \in Worker :
        /\ pc'[w] = "spawned" <=> pc[w] = "spawned"
        /\ pc'[w] = "started" <=> pc[w] = "started"
        /\ pc'[w] = "taking" <=> pc[w] = "taking"
        /\ pc'[w] = "lingering" <=> pc[w] = "lingering"
        /\ pc'[w] = "done" <=> pc[w] = "done"
  OBVIOUS
<1>2. Counted' = Counted
  BY <1>1 DEF Counted
<1>3. StartPart'
  BY <1>1 DEF ThreadPart, StartPart
<1>4. LockPart'
  BY <1>1 DEF ThreadPart, LockPart
<1> QED
  BY <1>2, <1>3, <1>4 DEF ThreadPart, CountPart

\* A thread that has pool->lock goes on with an update, an entry or a wait.
LEMMA ThreadServes ==
    ASSUME TypeOK, ThreadPart, NEW w \in Worker, NEW x \in {"updating", "working", "waiting"},
           pc[w] \in {"started", "woken", "returned"}, lock = None, control_lock_owner # None,
           pc' = [pc EXCEPT ![w] = x], UNCHANGED <<start_vars, main_pc>>
    PROVE  ThreadPart'
<1>1. ~Starting /\ ~Starting'
  BY ConstantsAssumption DEF ThreadPart, StartPart, Starting
<1>2. pc'[w] = x /\ (\A v \in Worker : v # w => pc'[v] = pc[v])
  BY DEF TypeOK
<1>3. Counted' = Counted
  BY <1>2 DEF Counted, start_vars
<1>4. StartPart'
  BY <1>1 DEF ThreadPart, StartPart, start_vars
<1>5. LockPart'
  BY <1>2, ConstantsAssumption DEF ThreadPart, LockPart, start_vars
<1> QED
  BY <1>3, <1>4, <1>5 DEF ThreadPart, CountPart, start_vars

\* A thread takes pool->lock and keeps it until it has control_lock.
LEMMA ThreadEnters ==
    ASSUME TypeOK, ThreadPart, NEW w \in Worker, pc[w] = "started", lock = None,
           control_lock_owner = None, lock' = w, pc' = [pc EXCEPT ![w] = "taking"],
           UNCHANGED <<control_lock, control_lock_owner, n_worker_threads_running, main_pc>>
    PROVE  ThreadPart'
<1>1. ~Starting /\ ~Starting' /\ w # None /\ w # Main
  BY ConstantsAssumption DEF ThreadPart, StartPart, Starting
<1>2. pc'[w] = "taking" /\ (\A v \in Worker : v # w => pc'[v] = pc[v])
  BY DEF TypeOK
<1>3. Counted' = Counted
  BY <1>2 DEF Counted
<1>4. StartPart'
  BY <1>1 DEF ThreadPart, StartPart
<1>5. LockPart'
  BY <1>1, <1>2, ConstantsAssumption DEF ThreadPart, LockPart
<1> QED
  BY <1>3, <1>4, <1>5 DEF ThreadPart, CountPart

\* The thread gets control_lock and goes on, or sees that it has to linger.
LEMMA ThreadTakes ==
    ASSUME TypeOK, ThreadPart, NEW w \in Worker,
           NEW x \in {"updating", "working", "waiting", "lingering"},
           pc[w] = "taking", control_lock = None, pc' = [pc EXCEPT ![w] = x],
           control_lock' = w, control_lock_owner' = w, lock' = None,
           UNCHANGED <<n_worker_threads_running, main_pc>>
    PROVE  ThreadPart'
<1>1. lock = w /\ control_lock_owner = None /\ w # None /\ w # Main /\ None # Main
  BY ConstantsAssumption DEF ThreadPart, LockPart
<1>2. ~Starting /\ ~Starting'
  BY <1>1, ConstantsAssumption DEF ThreadPart, StartPart, Starting
<1>3. pc'[w] = x /\ (\A v \in Worker : v # w => pc'[v] = pc[v])
  BY DEF TypeOK
<1>4. Counted' = Counted
  BY <1>1, <1>3, ConstantsAssumption DEF Counted
<1>5. StartPart'
  BY <1>1, <1>2 DEF ThreadPart, StartPart
<1>6. LockPart'
  BY <1>1, <1>3, ConstantsAssumption DEF ThreadPart, LockPart
<1> QED
  BY <1>4, <1>5, <1>6 DEF ThreadPart, CountPart

\* A thread leaves: the owner of control_lock lingers, any other counts itself out.
LEMMA ThreadLeaves ==
    ASSUME TypeOK, ThreadPart, NEW w \in Worker,
           pc[w] \in {"started", "woken", "returned"}, lock = None, control_lock_owner # None,
           ExitThread(w, control_lock_owner),
           UNCHANGED <<lock, control_lock, control_lock_owner, main_pc>>
    PROVE  ThreadPart'
<1>1. ~Starting /\ ~Starting'
  BY ConstantsAssumption DEF ThreadPart, StartPart, Starting
<1>2. StartPart'
  BY <1>1 DEF ThreadPart, StartPart
<1>3. CASE control_lock_owner = w
  <2>1. /\ pc'[w] = "lingering" /\ (\A v \in Worker : v # w => pc'[v] = pc[v])
        /\ UNCHANGED n_worker_threads_running
    BY <1>3 DEF TypeOK, ExitThread
  <2>2. Counted' = Counted
    BY <2>1 DEF Counted
  <2>3. LockPart'
    BY <1>3, <2>1, ConstantsAssumption DEF ThreadPart, LockPart
  <2> QED
    BY <1>2, <2>1, <2>2, <2>3 DEF ThreadPart, CountPart
<1>4. CASE control_lock_owner # w
  <2>1. /\ pc'[w] = "done" /\ (\A v \in Worker : v # w => pc'[v] = pc[v])
        /\ n_worker_threads_running' = n_worker_threads_running - 1
    BY <1>4 DEF TypeOK, ExitThread
  <2>2. Counted' = Counted \ {w} /\ w \in Counted
    BY <1>4, <2>1 DEF Counted
  <2>3. Cardinality(Counted') = Cardinality(Counted) - 1
    BY <2>2, CountBound, FS_RemoveElement DEF ThreadPart
  <2>4. LockPart'
    BY <1>4, <2>1, ConstantsAssumption DEF ThreadPart, LockPart
  <2>5. CountPart'
    BY <2>1, <2>3, CountBound DEF ThreadPart, CountPart
  <2> QED
    BY <1>2, <2>4, <2>5 DEF ThreadPart
<1> QED
  BY <1>3, <1>4

\* A thread counts itself in.
LEMMA ThreadCountsIn ==
    ASSUME TypeOK, ThreadPart, NEW w \in Worker, ThreadStarts(w)
    PROVE  ThreadPart'
<1>1. /\ pc[w] = "spawned" /\ pc'[w] = "started"
      /\ \A v \in Worker : v # w => pc'[v] = pc[v]
      /\ n_worker_threads_running' = n_worker_threads_running + 1
      /\ UNCHANGED <<lock, control_lock, control_lock_owner, answers>>
      /\ Starting' <=> Starting
  BY DEF ThreadStarts, TypeOK, reply_vars, Starting
<1>2. Counted' = Counted \cup {w} /\ w \notin Counted
  BY <1>1 DEF Counted
<1>3. Cardinality(Counted') = Cardinality(Counted) + 1
  BY <1>2, CountBound, FS_AddElement DEF ThreadPart
<1>4. CountPart'
  BY <1>1, <1>3, CountBound DEF ThreadPart, CountPart
<1>5. StartPart'
  BY <1>1 DEF ThreadPart, StartPart
<1>6. LockPart'
  BY <1>1 DEF ThreadPart, LockPart
<1> QED
  BY <1>4, <1>5, <1>6 DEF ThreadPart

\* The owner of control_lock gives it up and leaves.
LEMMA ThreadLastOut ==
    ASSUME TypeOK, ThreadPart, NEW w \in Worker, LastOneOut(w)
    PROVE  ThreadPart'
<1>1. /\ pc[w] = "lingering" /\ pc'[w] = "done" /\ lock = None
      /\ \A v \in Worker : v # w => pc'[v] = pc[v]
      /\ control_lock_owner = w /\ control_lock' = None
      /\ UNCHANGED <<lock, control_lock_owner, n_worker_threads_running, answers, main_pc>>
  BY DEF LastOneOut, TypeOK, reply_vars, ThreadPart, LockPart
<1>2. Counted' = Counted
  BY <1>1 DEF Counted
<1>3. StartPart'
  BY <1>1, ConstantsAssumption DEF ThreadPart, StartPart, Starting
<1>4. LockPart'
  BY <1>1, ConstantsAssumption DEF ThreadPart, LockPart
<1> QED
  BY <1>1, <1>2, <1>3, <1>4 DEF ThreadPart, CountPart

\* The main thread gives up pool->lock at the end of the start.
LEMMA ThreadStartEnds ==
    ASSUME TypeOK, ThreadPart, FinishStart
    PROVE  ThreadPart'
<1>1. /\ lock = Main /\ lock' = None /\ Starting /\ ~Starting'
      /\ UNCHANGED <<control_lock, control_lock_owner, n_worker_threads_running, pc>>
  BY DEF FinishStart, worker_vars, ThreadPart, StartPart, Starting
<1>2. Counted' = Counted
  BY <1>1 DEF Counted
<1>3. StartPart'
  BY <1>1, ConstantsAssumption DEF ThreadPart, StartPart
<1>4. LockPart'
  BY <1>1, ConstantsAssumption DEF ThreadPart, StartPart, LockPart
<1> QED
  BY <1>1, <1>2, <1>3, <1>4 DEF ThreadPart, CountPart

-----------------------------------------------------------------------------
(* Update arguments: ArgPart.                                              *)

\* Steps that touch no argument.
LEMMA ArgFrame ==
    ASSUME ArgPart, UNCHANGED <<pool_generation, update_args, generation, arg, args_history>>,
           \A w \in Worker : pc'[w] = "updating" => pc[w] = "updating"
    PROVE  ArgPart'
BY DEF ArgPart, args_history

\* A thread takes the argument of the newest update.
LEMMA ArgTaken ==
    ASSUME TypeOK, ArgPart, NEW w \in Worker, StartUpdate(w), UNCHANGED args_history
    PROVE  ArgPart'
<1>1. /\ update_args[w] = pool_generation /\ generation[w] < pool_generation
      /\ arg'[w] = pool_generation /\ generation'[w] = pool_generation /\ update_args'[w] = 0
      /\ pc'[w] = "updating" /\ pool_generation \in Nat /\ generation[w] \in Nat
      /\ \A v \in Worker : v # w =>
           /\ arg'[v] = arg[v] /\ generation'[v] = generation[v]
           /\ update_args'[v] = update_args[v] /\ pc'[v] = pc[v]
      /\ UNCHANGED <<pool_generation, used_args, freed_args>>
  BY ConstantsAssumption DEF TypeOK, ArgPart, StartUpdate, args_history
<1>2. \A u \in 1..MaxUpdates : <<w, u>> \in used_args => u <= generation[w]
  BY DEF ArgPart
<1>3. \A u \in 1..MaxUpdates : <<w, u>> \in freed_args => u < pool_generation
  BY DEF ArgPart
<1> SUFFICES ASSUME NEW v \in Worker
             PROVE  (/\ generation[v] <= pool_generation
                     /\ generation[v] # pool_generation => update_args[v] = pool_generation
                     /\ generation[v] = pool_generation => update_args[v] = 0
                     /\ pc[v] = "updating" => arg[v] = generation[v] /\ arg[v] # 0
                     /\ \A u \in 1..MaxUpdates :
                          /\ <<v, u>> \in used_args =>
                               u <= generation[v] /\ (pc[v] = "updating" => u # generation[v])
                          /\ <<v, u>> \in freed_args => u # generation[v] /\ u < pool_generation
                          /\ ~(<<v, u>> \in used_args /\ <<v, u>> \in freed_args))'
  BY DEF ArgPart
<1>4. CASE v = w
  BY <1>1, <1>2, <1>3, <1>4, ConstantsAssumption DEF ArgPart
<1>5. CASE v # w
  BY <1>1, <1>5 DEF ArgPart
<1> QED
  BY <1>4, <1>5

\* update_fn has used the argument up.
LEMMA ArgUsed ==
    ASSUME TypeOK, ArgPart, NEW w \in Worker, UpdateDone(w)
    PROVE  ArgPart' /\ arg[w] \in 1..MaxUpdates
<1>1. /\ arg[w] = generation[w] /\ arg[w] \in 1..MaxUpdates
      /\ used_args' = used_args \cup {<<w, arg[w]>>} /\ pc'[w] # "updating"
      /\ \A v \in Worker : v # w => pc'[v] = pc[v] /\ arg'[v] = arg[v]
      /\ UNCHANGED <<pool_generation, update_args, generation, freed_args>>
  BY ConstantsAssumption DEF TypeOK, ArgPart, UpdateDone, pool_vars
<1>2. \A v \in Worker, u \in 1..MaxUpdates :
        <<v, u>> \in used_args' => <<v, u>> \in used_args \/ (v = w /\ u = generation[w])
  BY <1>1
<1> QED
  BY <1>1, <1>2 DEF ArgPart

\* threadpool_queue_update frees the arguments that no thread has taken.
LEMMA ArgQueued ==
    ASSUME TypeOK, ArgPart, QueueUpdate,
           \A w \in Worker : pc'[w] = "updating" => pc[w] = "updating"
    PROVE  ArgPart'
<1>1. /\ pool_generation \in Nat /\ pool_generation' = pool_generation + 1
      /\ \A w \in Worker : update_args'[w] = pool_generation + 1 /\ generation[w] \in Nat
      /\ UNCHANGED <<generation, arg, used_args>>
      /\ freed_args' = freed_args \cup
           {<<w, update_args[w]>> : w \in {v \in Worker : update_args[v] # 0}}
  BY ConstantsAssumption DEF TypeOK, QueueUpdate
<1>2. \A w \in Worker, u \in 1..MaxUpdates :
        <<w, u>> \in freed_args' => \/ <<w, u>> \in freed_args
                                    \/ u = pool_generation /\ generation[w] < pool_generation
  <2> SUFFICES ASSUME NEW w \in Worker, NEW u \in 1..MaxUpdates, <<w, u>> \in freed_args',
                      <<w, u>> \notin freed_args
               PROVE  u = pool_generation /\ generation[w] < pool_generation
    OBVIOUS
  <2>1. u = update_args[w] /\ update_args[w] # 0
    BY <1>1
  <2> QED
    BY <1>1, <2>1 DEF ArgPart
<1> SUFFICES ASSUME NEW v \in Worker
             PROVE  (/\ generation[v] <= pool_generation
                     /\ generation[v] # pool_generation => update_args[v] = pool_generation
                     /\ generation[v] = pool_generation => update_args[v] = 0
                     /\ pc[v] = "updating" => arg[v] = generation[v] /\ arg[v] # 0
                     /\ \A u \in 1..MaxUpdates :
                          /\ <<v, u>> \in used_args =>
                               u <= generation[v] /\ (pc[v] = "updating" => u # generation[v])
                          /\ <<v, u>> \in freed_args => u # generation[v] /\ u < pool_generation
                          /\ ~(<<v, u>> \in used_args /\ <<v, u>> \in freed_args))'
  BY DEF ArgPart
<1> QED
  BY <1>1, <1>2 DEF ArgPart
-----------------------------------------------------------------------------
(* Every step keeps the invariant.                                         *)

\* The types of all variables but those of ThreadPart.
DataType ==
    /\ exit \in BOOLEAN
    /\ work \in [Priority -> Seq(Item)] /\ pending \subseteq Item
    /\ pool_generation \in 0..MaxUpdates /\ update_args \in [Worker -> 0..MaxUpdates]
    /\ pc \in [Worker -> WorkerPc] /\ generation \in [Worker -> 0..MaxUpdates]
    /\ job \in [Worker -> Item \cup {NoItem}] /\ arg \in [Worker -> 0..MaxUpdates]
    /\ result \in [Worker -> Result \cup {"WQ_RPL_REPLY"}]
    /\ answers \in Seq(Item) /\ alert \in BOOLEAN
    /\ main_pc \in {"starting", "confirmed", "timeout", "failed", "running", "replying",
                    "stopping", "freed"}
    /\ runs \in [Item -> 0..1] /\ replies \in [Item -> 0..1] /\ cancelled \subseteq Item
    /\ used_args \subseteq Worker \X (1..MaxUpdates)
    /\ freed_args \subseteq Worker \X (1..MaxUpdates)

LockType ==
    /\ lock \in Worker \cup {Main, None} /\ control_lock \in Worker \cup {None}
    /\ control_lock_owner \in Worker \cup {Main, None}

\* The part of the invariant that is about data.
DataInv == DataType /\ QueuePart /\ EntryPart /\ ArgPart /\ NoLostReply

\* The invariant is the one about data and the one about threads.
LEMMA Split == IInv <=> DataInv /\ LockType /\ ThreadPart
<1>1. CountPart => n_worker_threads_running \in 0..(Cardinality(Worker) + 1)
  BY CountBound
<1> QED
  BY <1>1 DEF IInv, TypeOK, DataInv, DataType, LockType, ThreadPart

\* The invariant is kept when both halves are.
LEMMA SplitNext == DataInv' /\ LockType' /\ ThreadPart' => IInv'
<1>1. CountPart' => (n_worker_threads_running \in 0..(Cardinality(Worker) + 1))'
  BY CountBound, PTL
<1> QED
  BY <1>1 DEF IInv, TypeOK, DataInv, DataType, LockType, ThreadPart

\* Types of the data suffice for the lemmas about entries and arguments.
LEMMA DataTypeOK == IInv => TypeOK /\ DataInv /\ LockType /\ ThreadPart
BY Split DEF IInv

\* The body of the inner loop: an update, an entry, or the wait.
LEMMA DataLoop ==
    ASSUME IInv, NEW w \in Worker, pc[w] \in {"started", "taking", "woken", "returned"},
           WorkLoop(w), UNCHANGED <<exit, result, reply_vars, main_pc, history>>
    PROVE  /\ DataInv'
           /\ \E x \in {"updating", "working", "waiting"} : pc' = [pc EXCEPT ![w] = x]
           /\ UNCHANGED n_worker_threads_running
<1>1. TypeOK /\ DataInv
  BY DataTypeOK
<1>2. \E x \in {"updating", "working", "waiting"} : pc' = [pc EXCEPT ![w] = x]
  BY DEF WorkLoop, StartUpdate, ExtractNextWork, WaitForWork
<1>3. \A v \in Worker : v # w => pc'[v] = pc[v]
  BY <1>1, <1>2 DEF TypeOK
<1>4. NoLostReply'
  BY <1>1, <1>3 DEF DataInv, NoLostReply, reply_vars
<1>5. pc' \in [Worker -> WorkerPc]
  BY <1>1, <1>2 DEF TypeOK, WorkerPc
<1>6. CASE StartUpdate(w)
  <2>1. ArgPart'
    BY <1>1, <1>6, ArgTaken DEF DataInv, history
  <2>2. UNCHANGED <<work, pending, pool_generation, job>> /\ pc' = [pc EXCEPT ![w] = "updating"]
    BY <1>6 DEF StartUpdate
  <2>3. QueuePart' /\ EntryPart'
    BY <1>1, <1>3, <2>2, EntryFrame DEF DataInv, TypeOK, reply_vars, history
  <2>4. DataType'
    BY <1>1, <1>5, <1>6, ConstantsAssumption
       DEF DataInv, DataType, StartUpdate, reply_vars, history, args_history
  <2> QED
    BY <1>2, <1>4, <2>1, <2>3, <2>4 DEF DataInv, WorkLoop
<1>7. CASE ExtractNextWork(w)
  <2>1. /\ UNCHANGED <<pool_generation, update_args, generation, arg>>
        /\ pc' = [pc EXCEPT ![w] = "working"]
    BY <1>7 DEF ExtractNextWork
  <2>2. ArgPart'
    BY <1>1, <1>3, <2>1, ArgFrame DEF DataInv, TypeOK, history
  <2>3. QueuePart' /\ EntryPart'
    BY <1>1, <1>7, EntryExtract DEF DataInv, reply_vars, history
  <2>4. DataType'
    <3>1. PICK p \in Priority :
            /\ work[p] # <<>>
            /\ job' = [job EXCEPT ![w] = Head(work[p])]
            /\ work' = [work EXCEPT ![p] = Tail(@)]
            /\ pending' = pending \ {Head(work[p])}
      BY <1>7 DEF ExtractNextWork
    <3>2. Head(work[p]) \in Item /\ Tail(work[p]) \in Seq(Item)
      BY <1>1, <3>1, EntriesTail DEF TypeOK
    <3> QED
      BY <1>1, <1>5, <2>1, <3>1, <3>2 DEF DataInv, DataType, reply_vars, history, args_history
  <2> QED
    BY <1>2, <1>4, <2>2, <2>3, <2>4 DEF DataInv, WorkLoop
<1>8. CASE WaitForWork(w)
  <2>1. UNCHANGED <<pool_vars, generation, job, arg>> /\ pc' = [pc EXCEPT ![w] = "waiting"]
    BY <1>8 DEF WaitForWork
  <2>2. ArgPart'
    BY <1>1, <1>3, <2>1, ArgFrame DEF DataInv, TypeOK, history, pool_vars
  <2>3. QueuePart' /\ EntryPart'
    BY <1>1, <1>3, <2>1, EntryFrame DEF DataInv, TypeOK, reply_vars, history, pool_vars
  <2>4. DataType'
    BY <1>1, <1>5, <2>1 DEF DataInv, DataType, reply_vars, history, args_history, pool_vars
  <2> QED
    BY <1>2, <1>4, <2>2, <2>3, <2>4 DEF DataInv, WorkLoop
<1> QED
  BY <1>6, <1>7, <1>8 DEF WorkLoop

\* Steps of threads that move no data: they leave, linger or enter.
LEMMA DataQuiet ==
    ASSUME IInv, pc' \in [Worker -> WorkerPc], exit' \in BOOLEAN,
           main_pc' \in {"starting", "confirmed", "timeout", "failed", "running", "replying",
                         "stopping", "freed"},
           \A w \in Worker, x \in {"updating", "working", "alerting"} : pc'[w] = x <=> pc[w] = x,
           main_pc = "freed" => main_pc' = "freed",
           main_pc' = "running" => main_pc = "running" \/ answers = <<>>,
           UNCHANGED <<pool_vars, generation, job, arg, result, reply_vars, history>>
    PROVE  DataInv'
<1>1. TypeOK /\ DataInv
  BY DataTypeOK
<1>2. \A w \in Worker : /\ pc'[w] = "updating" <=> pc[w] = "updating"
                        /\ pc'[w] = "working" <=> pc[w] = "working"
                        /\ pc'[w] = "alerting" <=> pc[w] = "alerting"
  OBVIOUS
<1>3. ArgPart'
  BY <1>1, <1>2, ArgFrame DEF DataInv, history, pool_vars
<1>4. QueuePart' /\ EntryPart'
  BY <1>1, <1>2, EntryFrame DEF DataInv, reply_vars, history, pool_vars
<1>5. NoLostReply'
  BY <1>1, <1>2 DEF DataInv, NoLostReply, reply_vars
<1>6. DataType'
  BY <1>1 DEF DataInv, DataType, reply_vars, history, args_history, pool_vars
<1> QED
  BY <1>3, <1>4, <1>5, <1>6 DEF DataInv
\* EnterPool, Wake and Return, when the thread goes on to work or to wait.
LEMMA InvServe ==
    ASSUME IInv, NEW w \in Worker, pc[w] \in {"started", "woken", "returned"}, lock = None,
           control_lock_owner # None, WorkLoop(w),
           UNCHANGED <<lock, control_lock, control_lock_owner, exit, result, reply_vars, main_pc,
                       history>>
    PROVE  IInv'
<1>1. TypeOK /\ LockType /\ ThreadPart
  BY DataTypeOK
<1>2. /\ DataInv' /\ UNCHANGED n_worker_threads_running
      /\ \E x \in {"updating", "working", "waiting"} : pc' = [pc EXCEPT ![w] = x]
  BY DataLoop
<1>3. ThreadPart'
  BY <1>1, <1>2, ThreadServes DEF start_vars
<1>4. LockType'
  BY <1>1 DEF LockType
<1> QED
  BY <1>2, <1>3, <1>4, SplitNext

\* EnterPool, Wake and Return, when the thread leaves.
LEMMA InvLeave ==
    ASSUME IInv, NEW w \in Worker, pc[w] \in {"started", "woken", "returned"}, lock = None,
           control_lock_owner # None, ExitThread(w, control_lock_owner),
           UNCHANGED <<lock, control_lock, control_lock_owner, exit, result, reply_vars, main_pc,
                       history>>
    PROVE  IInv'
<1>1. TypeOK /\ LockType /\ ThreadPart
  BY DataTypeOK
<1>2. ThreadPart'
  BY <1>1, ThreadLeaves
<1>3. LockType'
  BY <1>1 DEF LockType
<1>4. \E x \in {"lingering", "done"} : pc' = [pc EXCEPT ![w] = x]
  BY DEF ExitThread
<1>5. DataInv'
  BY <1>1, <1>4, DataQuiet DEF TypeOK, WorkerPc, ExitThread
<1> QED
  BY <1>2, <1>3, <1>5, SplitNext

\* A thread past its first visit to pool->lock knows that control_lock has an owner.
LEMMA InvEnterPool ==
    ASSUME IInv, NEW w \in Worker, EnterPool(w)
    PROVE  IInv'
<1>1. CASE control_lock_owner = None
  <2>1. TypeOK /\ LockType /\ ThreadPart
    BY DataTypeOK
  <2>2. /\ pc[w] = "started" /\ lock = None /\ lock' = w
        /\ pc' = [pc EXCEPT ![w] = "taking"]
        /\ UNCHANGED <<pool_vars, n_worker_threads_running, generation, job, arg, control_lock,
                       control_lock_owner, exit, result, reply_vars, main_pc, history>>
    BY <1>1 DEF EnterPool
  <2>3. ThreadPart'
    BY <1>1, <2>1, <2>2, ThreadEnters
  <2>4. LockType'
    BY <2>1, <2>2 DEF LockType
  <2>5. DataInv'
    BY <2>1, <2>2, DataQuiet DEF TypeOK, WorkerPc
  <2> QED
    BY <2>3, <2>4, <2>5, SplitNext
<1>2. CASE control_lock_owner # None
  <2>1. LoopTop(w, control_lock_owner) /\ UNCHANGED lock
    BY <1>2 DEF EnterPool
  <2> QED
    BY <1>2, <2>1, InvServe, InvLeave DEF EnterPool, LoopTop
<1> QED
  BY <1>1, <1>2

\* A thread that has waited or worked looks at pool->exit or at what its function returned.
LEMMA InvGoesOn ==
    ASSUME IInv, NEW w \in Worker, Wake(w) \/ Return(w)
    PROVE  IInv'
<1>1. pc[w] \in {"woken", "returned"} /\ lock = None
  BY DEF Wake, Return
<1>2. control_lock_owner # None
  BY <1>1, DataTypeOK DEF ThreadPart, LockPart
<1>3. CASE ExitThread(w, control_lock_owner)
  BY <1>1, <1>2, <1>3, InvLeave DEF Wake, Return
<1>4. CASE WorkLoop(w)
  BY <1>1, <1>2, <1>4, InvServe DEF Wake, Return
<1> QED
  BY <1>3, <1>4 DEF Wake, Return, LoopTop

\* The thread has both locks: it becomes the owner of control_lock.
LEMMA InvTakeControl ==
    ASSUME IInv, NEW w \in Worker, TakeControl(w)
    PROVE  IInv'
<1>1. TypeOK /\ LockType /\ ThreadPart
  BY DataTypeOK
<1>2. LockType'
  BY <1>1 DEF LockType, TakeControl
<1>3. CASE WorkLoop(w)
  <2>1. /\ DataInv' /\ UNCHANGED n_worker_threads_running
        /\ \E x \in {"updating", "working", "waiting"} : pc' = [pc EXCEPT ![w] = x]
    BY <1>3, DataLoop DEF TakeControl
  <2>2. ThreadPart'
    BY <1>1, <2>1, ThreadTakes DEF TakeControl
  <2> QED
    BY <1>2, <2>1, <2>2, SplitNext
<1>4. CASE ExitThread(w, w)
  <2>1. /\ pc' = [pc EXCEPT ![w] = "lingering"] /\ pc[w] = "taking"
        /\ UNCHANGED <<n_worker_threads_running, pool_vars, generation, job, arg>>
    BY <1>4 DEF ExitThread, TakeControl
  <2>2. ThreadPart'
    BY <1>1, <2>1, ThreadTakes DEF TakeControl
  <2>3. DataInv'
    BY <1>1, <2>1, DataQuiet DEF TypeOK, WorkerPc, TakeControl
  <2> QED
    BY <1>2, <2>2, <2>3, SplitNext
<1> QED
  BY <1>3, <1>4 DEF TakeControl, LoopTop

\* ThreadStarts and LastOneOut: the count goes up, and stays when the owner leaves.
LEMMA InvCount ==
    ASSUME IInv, NEW w \in Worker, ThreadStarts(w) \/ LastOneOut(w)
    PROVE  IInv'
<1>1. TypeOK /\ LockType /\ ThreadPart
  BY DataTypeOK
<1>2. CASE ThreadStarts(w)
  <2>1. ThreadPart'
    BY <1>1, <1>2, ThreadCountsIn
  <2>2. LockType'
    BY <1>1, <1>2 DEF LockType, ThreadStarts
  <2>3. pc' = [pc EXCEPT ![w] = "started"] /\ pc[w] = "spawned"
    BY <1>2 DEF ThreadStarts
  <2>4. main_pc' = main_pc \/ (main_pc' = "confirmed" /\ main_pc = "starting")
    BY <1>2 DEF ThreadStarts
  <2>5. DataInv'
    BY <1>1, <1>2, <2>3, <2>4, DataQuiet DEF TypeOK, WorkerPc, ThreadStarts
  <2> QED
    BY <2>1, <2>2, <2>5, SplitNext
<1>3. CASE LastOneOut(w)
  <2>1. ThreadPart'
    BY <1>1, <1>3, ThreadLastOut
  <2>2. LockType'
    BY <1>1, <1>3 DEF LockType, LastOneOut
  <2>3. DataInv'
    BY <1>1, <1>3, DataQuiet DEF TypeOK, WorkerPc, LastOneOut
  <2> QED
    BY <2>1, <2>2, <2>3, SplitNext
<1> QED
  BY <1>2, <1>3

\* UpdateDone, WorkDone and Alert: what a function's return does.
LEMMA InvFunctionReturns ==
    ASSUME IInv, main_pc # "freed", NEW w \in Worker, UpdateDone(w) \/ WorkDone(w) \/ Alert(w)
    PROVE  IInv'
<1>1. TypeOK /\ LockType /\ ThreadPart /\ DataInv
  BY DataTypeOK
<1>2. /\ pc[w] \in {"updating", "working", "alerting"}
      /\ \E x \in {"returned", "alerting"} : pc' = [pc EXCEPT ![w] = x]
      /\ UNCHANGED <<start_vars, exit, main_pc>>
  BY DEF UpdateDone, WorkDone, Alert
<1>3. pc'[w] \in {"returned", "alerting"} /\ \A v \in Worker : v # w => pc'[v] = pc[v]
  BY <1>1, <1>2 DEF TypeOK
<1>4. ThreadPart'
  <2>1. \A v \in Worker, x \in {"spawned", "started", "taking", "lingering", "done"} :
          pc'[v] = x <=> pc[v] = x
    BY <1>2, <1>3
  <2>2. ~Starting
    BY <1>1, <1>2 DEF ThreadPart, StartPart
  <2> QED
    BY <1>1, <1>2, <2>1, <2>2, ThreadFrame DEF start_vars, Starting
<1>5. LockType'
  BY <1>1, <1>2 DEF LockType, start_vars
<1>6. pc' \in [Worker -> WorkerPc]
  BY <1>1, <1>2 DEF TypeOK, WorkerPc
<1>7. CASE UpdateDone(w)
  <2>1. ArgPart' /\ arg[w] \in 1..MaxUpdates
    BY <1>1, <1>7, ArgUsed DEF DataInv
  <2>2. QueuePart' /\ EntryPart'
    BY <1>1, <1>3, <1>7, EntryFrame DEF DataInv, UpdateDone, pool_vars, reply_vars
  <2>3. NoLostReply'
    BY <1>1, <1>3, <1>7 DEF DataInv, NoLostReply, UpdateDone, reply_vars
  <2>4. DataType'
    <3>1. used_args' \subseteq Worker \X (1..MaxUpdates)
      BY <1>1, <1>7, <2>1 DEF TypeOK, UpdateDone
    <3>2. result' \in [Worker -> Result \cup {"WQ_RPL_REPLY"}]
      BY <1>1, <1>7 DEF TypeOK, UpdateDone
    <3>3. arg' \in [Worker -> 0..MaxUpdates]
      BY <1>1, <1>7, ConstantsAssumption DEF TypeOK, UpdateDone
    <3> QED
      BY <1>1, <1>2, <1>6, <1>7, <3>1, <3>2, <3>3
         DEF DataInv, DataType, UpdateDone, pool_vars, reply_vars
  <2> QED
    BY <1>4, <1>5, <2>1, <2>2, <2>3, <2>4, SplitNext DEF DataInv
<1>8. CASE WorkDone(w)
  <2>1. QueuePart' /\ EntryPart' /\ job[w] \in Item /\ runs[job[w]] = 0
    BY <1>1, <1>8, EntryWorkDone DEF DataInv
  <2>2. ArgPart'
    BY <1>1, <1>3, <1>8, ArgFrame DEF DataInv, WorkDone, pool_vars
  <2>3. NoLostReply'
    <3>1. CASE answers = <<>>
      <4>1. pc'[w] = "alerting"
        BY <1>1, <1>8, <3>1 DEF WorkDone, TypeOK
      <4> QED
        BY <4>1 DEF NoLostReply
    <3>2. CASE answers # <<>>
      BY <1>1, <1>3, <1>8, <3>2 DEF DataInv, NoLostReply, WorkDone
    <3> QED
      BY <3>1, <3>2
  <2>4. DataType'
    <3>1. answers' \in Seq(Item)
      BY <1>1, <1>8, <2>1, EntriesAppend DEF WorkDone, TypeOK
    <3>2. runs' \in [Item -> 0..1]
      BY <1>1, <1>8, <2>1 DEF WorkDone, TypeOK
    <3> QED
      BY <1>1, <1>2, <1>6, <1>8, <3>1, <3>2
         DEF DataInv, DataType, WorkDone, pool_vars, args_history
  <2> QED
    BY <1>4, <1>5, <2>1, <2>2, <2>3, <2>4, SplitNext DEF DataInv
<1>9. CASE Alert(w)
  <2>1. QueuePart' /\ EntryPart'
    BY <1>1, <1>3, <1>9, EntryFrame DEF DataInv, Alert, pool_vars, history
  <2>2. ArgPart'
    BY <1>1, <1>3, <1>9, ArgFrame DEF DataInv, Alert, pool_vars, history
  <2>3. NoLostReply'
    BY <1>9 DEF NoLostReply, Alert
  <2>4. DataType'
    BY <1>1, <1>2, <1>6, <1>9
       DEF DataInv, DataType, Alert, pool_vars, history, args_history
  <2> QED
    BY <1>4, <1>5, <2>1, <2>2, <2>3, <2>4, SplitNext DEF DataInv
<1> QED
  BY <1>7, <1>8, <1>9
\* Signals of the condition move waiting threads only.
LEMMA Signals ==
    ASSUME TypeOK, SignalOne \/ SignalAll
    PROVE  /\ pc' \in [Worker -> WorkerPc]
           /\ \A w \in Worker : pc'[w] = pc[w] \/ (pc[w] = "waiting" /\ pc'[w] = "woken")
BY DEF TypeOK, SignalOne, SignalAll, Waiting, WorkerPc

\* Steps that only signal leave ThreadPart as it is.
LEMMA ThreadSignals ==
    ASSUME ThreadPart, UNCHANGED start_vars, Starting' <=> Starting,
           \A w \in Worker : pc'[w] = pc[w] \/ (pc[w] = "waiting" /\ pc'[w] = "woken"),
           Starting => answers' = <<>>
    PROVE  ThreadPart'
BY ThreadFrame DEF start_vars

\* The wait of threadpool_start_threads ends, and the function returns.
LEMMA InvStart ==
    ASSUME IInv, StartTimesOut \/ StartWakesEarly \/ FinishStart
    PROVE  IInv'
<1>1. TypeOK /\ LockType /\ ThreadPart
  BY DataTypeOK
<1>2. answers = <<>>
  BY <1>1 DEF StartTimesOut, StartWakesEarly, FinishStart, ThreadPart, StartPart, Starting
<1>3. DataInv'
  BY <1>1, <1>2, DataQuiet DEF TypeOK, StartTimesOut, StartWakesEarly, FinishStart, worker_vars
<1>4. LockType'
  BY <1>1 DEF LockType, StartTimesOut, StartWakesEarly, FinishStart, start_vars
<1>5. CASE StartTimesOut \/ StartWakesEarly
  <2>1. ThreadPart'
    BY <1>1, <1>2, <1>5, ThreadSignals
       DEF StartTimesOut, StartWakesEarly, Starting, worker_vars, reply_vars
  <2> QED
    BY <1>3, <1>4, <2>1, SplitNext
<1>6. CASE FinishStart
  BY <1>1, <1>3, <1>4, <1>6, ThreadStartEnds, SplitNext
<1> QED
  BY <1>5, <1>6

\* QueueWork.
LEMMA InvQueueWork ==
    ASSUME IInv, NEW i \in Item, NEW p \in Priority, QueueWork(i, p)
    PROVE  IInv'
<1>1. TypeOK /\ LockType /\ ThreadPart /\ DataInv
  BY DataTypeOK
<1>2. /\ pc' \in [Worker -> WorkerPc]
      /\ \A w \in Worker : pc'[w] = pc[w] \/ (pc[w] = "waiting" /\ pc'[w] = "woken")
  BY <1>1, Signals DEF QueueWork
<1>3. QueuePart' /\ EntryPart'
  BY <1>1, <1>2, EntryQueueWork DEF DataInv
<1>4. ArgPart'
  BY <1>1, <1>2, ArgFrame DEF DataInv, QueueWork, history
<1>5. NoLostReply'
  BY <1>1, <1>2 DEF DataInv, NoLostReply, QueueWork, reply_vars
<1>6. work' \in [Priority -> Seq(Item)]
  BY <1>1, EntriesAppend DEF QueueWork, TypeOK
<1>7. DataType'
  BY <1>1, <1>2, <1>6 DEF DataInv, DataType, QueueWork, reply_vars, history, args_history
<1>8. ThreadPart'
  BY <1>1, <1>2, ThreadSignals DEF QueueWork, Starting, InMainLoop
<1>9. LockType'
  BY <1>1 DEF LockType, QueueWork, start_vars
<1> QED
  BY <1>3, <1>4, <1>5, <1>7, <1>8, <1>9, SplitNext DEF DataInv

\* Cancel.
LEMMA InvCancel ==
    ASSUME IInv, NEW i \in Item, Cancel(i)
    PROVE  IInv'
<1>1. TypeOK /\ LockType /\ ThreadPart /\ DataInv
  BY DataTypeOK
<1>2. QueuePart' /\ EntryPart' /\ work' \in [Priority -> Seq(Item)]
  BY <1>1, EntryCancel DEF DataInv
<1>3. /\ UNCHANGED <<pool_generation, update_args, start_vars, exit, worker_vars, reply_vars,
                     main_pc, runs, replies, args_history>>
      /\ cancelled' = cancelled \cup {i} /\ pending' = pending \ {i}
  BY DEF Cancel
<1>4. ArgPart'
  BY <1>1, <1>3, ArgFrame DEF DataInv, worker_vars
<1>5. NoLostReply'
  BY <1>1, <1>3 DEF DataInv, NoLostReply, reply_vars, worker_vars
<1>6. DataType'
  BY <1>1, <1>2, <1>3 DEF DataInv, DataType, reply_vars, worker_vars, args_history
<1>7. ThreadPart'
  BY <1>1, <1>3, ThreadSignals DEF Starting, Cancel, InMainLoop, worker_vars
<1>8. LockType'
  BY <1>1, <1>3 DEF LockType, start_vars
<1> QED
  BY <1>2, <1>4, <1>5, <1>6, <1>7, <1>8, SplitNext DEF DataInv

\* QueueUpdate.
LEMMA InvQueueUpdate ==
    ASSUME IInv, QueueUpdate
    PROVE  IInv'
<1>1. TypeOK /\ LockType /\ ThreadPart /\ DataInv
  BY DataTypeOK
<1>2. /\ pc' \in [Worker -> WorkerPc]
      /\ \A w \in Worker : pc'[w] = pc[w] \/ (pc[w] = "waiting" /\ pc'[w] = "woken")
  BY <1>1, Signals DEF QueueUpdate
<1>3. ArgPart'
  BY <1>1, <1>2, ArgQueued DEF DataInv
<1>4. QueuePart' /\ EntryPart'
  BY <1>1, <1>2, EntryFrame DEF DataInv, QueueUpdate, reply_vars
<1>5. NoLostReply'
  BY <1>1, <1>2 DEF DataInv, NoLostReply, QueueUpdate, reply_vars
<1>6. DataType'
  <2>1. pool_generation' \in 0..MaxUpdates /\ update_args' \in [Worker -> 0..MaxUpdates]
    BY <1>1, ConstantsAssumption DEF TypeOK, QueueUpdate
  <2>2. \A w \in Worker : update_args[w] # 0 => update_args[w] \in 1..MaxUpdates
    BY <1>1, ConstantsAssumption DEF TypeOK
  <2>3. freed_args' \subseteq Worker \X (1..MaxUpdates)
    BY <1>1, <2>2 DEF TypeOK, QueueUpdate
  <2> QED
    BY <1>1, <1>2, <2>1, <2>3 DEF DataInv, DataType, QueueUpdate, reply_vars
<1>7. ThreadPart'
  BY <1>1, <1>2, ThreadSignals DEF QueueUpdate, Starting, InMainLoop
<1>8. LockType'
  BY <1>1 DEF LockType, QueueUpdate, start_vars
<1> QED
  BY <1>3, <1>4, <1>5, <1>6, <1>7, <1>8, SplitNext DEF DataInv

\* ReplyEvent, ProcessReply, RepliesDone and FreePool: the reply queue's other end.
LEMMA InvReplies ==
    ASSUME IInv, ReplyEvent \/ ProcessReply \/ RepliesDone \/ FreePool
    PROVE  IInv'
<1>1. TypeOK /\ LockType /\ ThreadPart /\ DataInv
  BY DataTypeOK
<1>2. /\ UNCHANGED <<pool_vars, start_vars, exit, worker_vars, runs, cancelled, args_history>>
      /\ main_pc \in {"running", "replying", "stopping"}
      /\ main_pc' \in {"running", "replying", "freed"}
      /\ main_pc' = "running" => answers = <<>> /\ answers' = <<>>
  BY DEF ReplyEvent, ProcessReply, RepliesDone, FreePool, history, reply_vars
<1>3. ArgPart'
  BY <1>1, <1>2, ArgFrame DEF DataInv, pool_vars, worker_vars
<1>4. NoLostReply'
  BY <1>2 DEF NoLostReply
<1>5. LockType'
  BY <1>1, <1>2 DEF LockType, start_vars
<1>6. ThreadPart'
  BY <1>1, <1>2, ThreadSignals DEF Starting, worker_vars
<1>7. /\ QueuePart' /\ EntryPart' /\ answers' \in Seq(Item) /\ replies' \in [Item -> 0..1]
      /\ alert' \in BOOLEAN
  <2>1. CASE ReplyEvent \/ RepliesDone
    BY <1>1, <1>2, <2>1, EntryFrame
       DEF DataInv, DataType, ReplyEvent, RepliesDone, pool_vars, worker_vars, reply_vars, history
  <2>2. CASE ProcessReply
    BY <1>1, <2>2, EntryProcessReply, EntriesTail DEF DataInv, DataType, ProcessReply
  <2>3. CASE FreePool
    BY <1>1, <2>3, EntryFree DEF DataInv, DataType, FreePool, history
  <2> QED
    BY <2>1, <2>2, <2>3
<1>8. DataType'
  BY <1>1, <1>2, <1>7 DEF DataInv, DataType, pool_vars, worker_vars, args_history
<1> QED
  BY <1>3, <1>4, <1>5, <1>6, <1>7, <1>8, SplitNext DEF DataInv

\* StopThreads and SpuriousWakeup: threads are woken.
LEMMA InvWakeups ==
    ASSUME IInv, StopThreads \/ \E w \in Worker : SpuriousWakeup(w)
    PROVE  IInv'
<1>1. TypeOK /\ LockType /\ ThreadPart /\ DataInv
  BY DataTypeOK
<1>2. /\ pc' \in [Worker -> WorkerPc]
      /\ \A w \in Worker : pc'[w] = pc[w] \/ (pc[w] = "waiting" /\ pc'[w] = "woken")
  BY <1>1, Signals DEF StopThreads, SpuriousWakeup, TypeOK, WorkerPc
<1>3. /\ UNCHANGED <<pool_vars, start_vars, generation, job, arg, result, reply_vars, history>>
      /\ exit' \in BOOLEAN
      /\ \/ main_pc' = main_pc
         \/ main_pc \in {"running", "failed"} /\ main_pc' = "stopping"
  BY <1>1 DEF StopThreads, SpuriousWakeup, TypeOK
<1>4. DataInv'
  BY <1>1, <1>2, <1>3, DataQuiet DEF TypeOK
<1>5. LockType'
  BY <1>1, <1>3 DEF LockType, start_vars
<1>6. ThreadPart'
  BY <1>1, <1>2, <1>3, ThreadSignals DEF ThreadPart, StartPart, Starting, reply_vars
<1> QED
  BY <1>4, <1>5, <1>6, SplitNext

\* The initial states satisfy the invariant.
LEMMA InvInit == Init => IInv
<1> SUFFICES ASSUME Init PROVE IInv
  OBVIOUS
<1>1. DataType /\ LockType
  <2>1. LockType
    BY DEF Init, LockType
  <2>2. /\ work \in [Priority -> Seq(Item)] /\ answers \in Seq(Item)
        /\ pending \subseteq Item /\ cancelled \subseteq Item
        /\ used_args \subseteq Worker \X (1..MaxUpdates)
        /\ freed_args \subseteq Worker \X (1..MaxUpdates)
    BY DEF Init
  <2>3. 0 \in 0..MaxUpdates
    BY ConstantsAssumption
  <2>4. /\ pool_generation \in 0..MaxUpdates /\ update_args \in [Worker -> 0..MaxUpdates]
        /\ generation \in [Worker -> 0..MaxUpdates] /\ arg \in [Worker -> 0..MaxUpdates]
    BY <2>3 DEF Init
  <2>5. /\ pc \in [Worker -> WorkerPc] /\ job \in [Worker -> Item \cup {NoItem}]
        /\ result \in [Worker -> Result \cup {"WQ_RPL_REPLY"}]
        /\ runs \in [Item -> 0..1] /\ replies \in [Item -> 0..1]
    BY DEF Init, WorkerPc
  <2>6. /\ exit \in BOOLEAN /\ alert \in BOOLEAN
        /\ main_pc \in {"starting", "confirmed", "timeout", "failed", "running", "replying",
                        "stopping", "freed"}
    BY DEF Init
  <2> QED
    BY <2>1, <2>2, <2>4, <2>5, <2>6 DEF DataType
<1>2. ArgPart /\ NoLostReply
  BY ConstantsAssumption DEF Init, ArgPart, NoLostReply
<1>3. QueuePart /\ EntryPart
  <2>1. Entries(answers) = {} /\ Distinct(answers)
    BY DEF Init, Entries, Distinct
  <2>2. \A p \in Priority : Entries(work[p]) = {} /\ Distinct(work[p])
    BY DEF Init, Entries, Distinct
  <2> QED
    BY <2>1, <2>2, ConstantsAssumption DEF Init, QueuePart, EntryPart
<1>4. StartPart /\ LockPart
  BY ConstantsAssumption DEF Init, StartPart, LockPart, Starting
<1>5. CountPart
  <2>1. Counted = {}
    BY DEF Init, Counted
  <2> QED
    BY <2>1, FS_EmptySet DEF Init, CountPart
<1> QED
  BY <1>1, <1>2, <1>3, <1>4, <1>5, Split DEF DataInv, ThreadPart

\* Every step keeps the invariant.
LEMMA InvNext == IInv /\ [Next]_vars => IInv'
<1> SUFFICES ASSUME IInv, [Next]_vars PROVE IInv'
  OBVIOUS
<1>1. ASSUME NEW w \in Worker, WorkerStep(w) PROVE IInv'
  BY <1>1, InvCount, InvEnterPool, InvTakeControl, InvGoesOn, InvFunctionReturns DEF WorkerStep
<1>2. CASE MainStep
  BY <1>2, InvStart, InvQueueWork, InvCancel, InvQueueUpdate, InvReplies, InvWakeups
     DEF MainStep
<1>3. CASE UNCHANGED vars
  <2>1. /\ UNCHANGED <<pool_vars, start_vars, exit, pc, generation, job, arg, result,
                       reply_vars, main_pc, history>>
    BY <1>3 DEF vars, worker_vars
  <2>2. TypeOK /\ LockType /\ ThreadPart
    BY DataTypeOK
  <2>3. DataInv'
    BY <2>1, <2>2, DataQuiet DEF TypeOK
  <2>4. ThreadPart' /\ LockType'
    BY <2>1, <2>2, ThreadSignals
       DEF ThreadPart, StartPart, Starting, LockType, start_vars, reply_vars
  <2> QED
    BY <2>3, <2>4, SplitNext
<1> QED
  BY <1>1, <1>2, <1>3, InvWakeups DEF Next

\* The inductive invariant holds in every state the pool can reach.
THEOREM Invariance == Spec => []IInv
BY InvInit, InvNext, PTL DEF Spec

-----------------------------------------------------------------------------
(* What follows from the invariant.                                        *)

\* NoLostReply: queue_reply's alert, written after the reply queue's lock is given up and
\* only when the queue was empty, never leaves an answer behind unnoticed.
THEOREM NoReplyLost == Spec => []NoLostReply
<1>1. IInv => NoLostReply
  BY DEF IInv
<1> QED
  BY <1>1, Invariance, PTL

\* ArgConsumedOnce: the copy of an update's argument made for a thread is used by it or
\* freed by threadpool_queue_update, never both.
THEOREM ArgsOnce == Spec => []ArgConsumedOnce
<1>1. ASSUME IInv PROVE ArgConsumedOnce
  <2>1. /\ used_args \subseteq Worker \X (1..MaxUpdates)
        /\ freed_args \subseteq Worker \X (1..MaxUpdates)
        /\ arg \in [Worker -> 0..MaxUpdates] /\ MaxUpdates \in Nat
    BY <1>1, ConstantsAssumption DEF IInv, TypeOK
  <2>2. used_args \cap freed_args = {}
    BY <1>1, <2>1 DEF IInv, ArgPart
  <2>3. ASSUME NEW w \in Worker, pc[w] = "updating"
        PROVE  arg[w] # 0 /\ <<w, arg[w]>> \notin used_args \cup freed_args
    <3>1. arg[w] = generation[w] /\ arg[w] # 0 /\ arg[w] \in 1..MaxUpdates
      BY <1>1, <2>1, <2>3 DEF IInv, ArgPart
    <3> QED
      BY <1>1, <2>3, <3>1 DEF IInv, ArgPart
  <2> QED
    BY <2>2, <2>3 DEF ArgConsumedOnce
<1> QED
  BY <1>1, Invariance, PTL

\* A set whose elements are all the same has one element at most.
LEMMA AtMostOne ==
    ASSUME NEW S, \A x, y \in S : x = y
    PROVE  Cardinality(S) = IF S = {} THEN 0 ELSE 1
<1>1. CASE S = {}
  BY <1>1, FS_EmptySet
<1>2. CASE S # {}
  <2>1. PICK x \in S : S = {x}
    BY <1>2
  <2> QED
    BY <1>2, <2>1, FS_Singleton
<1> QED
  BY <1>1, <1>2

\* EntryHasOneOwner: an entry is in one place at most, a cancelled entry never runs, and
\* the pending flag says whether workqueue_entry_cancel may free it.
THEOREM OneOwner == Spec => []EntryHasOneOwner
<1>1. ASSUME IInv PROVE EntryHasOneOwner
  <2>1. TypeOK /\ QueuePart /\ EntryPart
    BY <1>1 DEF IInv
  <2>2. ASSUME NEW i \in Item, main_pc # "freed"
        PROVE  /\ Occurrences(i) + replies[i] + (IF i \in cancelled THEN 1 ELSE 0) <= 1
               /\ i \in pending <=> \E p \in Priority : \E k \in 1..Len(work[p]) : work[p][k] = i
               /\ runs[i] = 1 <=> replies[i] = 1 \/ \E k \in 1..Len(answers) : answers[k] = i
               /\ i \in cancelled => runs[i] = 0
    <3>1. \A p \in Priority : i \in Entries(work[p]) <=>
                                \E k \in 1..Len(work[p]) : work[p][k] = i
      BY DEF Entries
    <3>2. i \in Entries(answers) <=> \E k \in 1..Len(answers) : answers[k] = i
      BY DEF Entries
    <3> DEFINE A == {x \in Priority \X (1..Cardinality(Item)) :
                       x[2] <= Len(work[x[1]]) /\ work[x[1]][x[2]] = i}
               B == {w \in Worker : job[w] = i}
               C == {k \in 1..Len(answers) : answers[k] = i}
    <3>3. Cardinality(A) \in {0, 1} /\ (i \notin pending => Cardinality(A) = 0)
      <4>1. ASSUME NEW x \in A
            PROVE  /\ x[1] \in Priority /\ x[2] \in 1..Len(work[x[1]])
                   /\ work[x[1]][x[2]] = i /\ i \in Entries(work[x[1]])
        <5>1. x[1] \in Priority /\ x[2] \in 1..Cardinality(Item)
          OBVIOUS
        <5>2. Cardinality(Item) \in Nat
          BY ConstantsAssumption, FS_CardinalityType
        <5>3. work[x[1]] \in Seq(Item)
          BY <2>1, <5>1 DEF TypeOK
        <5>4. x[2] \in 1..Len(work[x[1]]) /\ work[x[1]][x[2]] = i
          BY <5>1, <5>2, <5>3
        <5> QED
          BY <5>1, <5>4, <3>1
      <4>2. ASSUME NEW x \in A, NEW y \in A PROVE x = y
        <5>1. x[1] = y[1]
          BY <2>1, <4>1 DEF QueuePart
        <5>2. x[2] = y[2]
          BY <2>1, <4>1, <5>1 DEF QueuePart, Distinct
        <5> QED
          BY <5>1, <5>2
      <4>3. Cardinality(A) = IF A = {} THEN 0 ELSE 1
        BY <4>2, AtMostOne
      <4>4. A # {} => i \in pending
        BY <2>1, <4>1 DEF EntryPart
      <4> QED
        BY <4>3, <4>4
    <3>4. /\ Cardinality(B) \in {0, 1}
          /\ (\A w \in Worker : job[w] # i) => Cardinality(B) = 0
      <4>1. \A v, w \in B : v = w
        BY <2>1, ConstantsAssumption DEF QueuePart
      <4> QED
        BY <4>1, AtMostOne
    <3>5. /\ Cardinality(C) \in {0, 1}
          /\ i \notin Entries(answers) => Cardinality(C) = 0
      <4>1. \A k, l \in C : k = l
        BY <2>1 DEF QueuePart, Distinct
      <4>2. C # {} => i \in Entries(answers)
        BY <3>2
      <4> QED
        BY <4>1, <4>2, AtMostOne
    <3>6. Occurrences(i) = Cardinality(A) + Cardinality(B) + Cardinality(C)
      BY DEF Occurrences
    <3> HIDE DEF A, B, C
    <3>7. replies[i] \in {0, 1} /\ runs[i] \in {0, 1}
      BY <2>1 DEF TypeOK
    <3>8. Occurrences(i) + replies[i] + (IF i \in cancelled THEN 1 ELSE 0) <= 1
      <4>1. CASE i \in cancelled
        BY <2>1, <3>3, <3>4, <3>5, <3>6, <3>7, <4>1 DEF EntryPart
      <4>2. CASE i \notin cancelled /\ replies[i] = 1
        BY <2>1, <3>3, <3>4, <3>5, <3>6, <3>7, <4>2 DEF EntryPart
      <4>3. CASE i \notin cancelled /\ replies[i] = 0
        BY <2>1, <3>3, <3>4, <3>5, <3>6, <3>7, <4>3 DEF EntryPart
      <4> QED
        BY <3>7, <4>1, <4>2, <4>3
    <3>9. i \in pending <=> \E p \in Priority : \E k \in 1..Len(work[p]) : work[p][k] = i
      BY <2>1, <3>1 DEF EntryPart
    <3>10. runs[i] = 1 <=> replies[i] = 1 \/ \E k \in 1..Len(answers) : answers[k] = i
      BY <2>1, <2>2, <3>2 DEF EntryPart
    <3>11. i \in cancelled => runs[i] = 0
      BY <2>1 DEF EntryPart
    <3> QED
      BY <3>8, <3>9, <3>10, <3>11
  <2> QED
    BY <2>1, <2>2 DEF EntryHasOneOwner
<1> QED
  BY <1>1, Invariance, PTL

-----------------------------------------------------------------------------
(* The pool implements WorkPool.                                           *)

EntryVars == <<cancelled, replies, answers, job, pending, runs>>

\* What a step does to the entries: nothing, or it moves one of them along, or it drops
\* all answers.
LEMMA EntryMoves ==
    ASSUME IInv, [Next]_vars
    PROVE  \/ UNCHANGED EntryVars
           \/ \E w \in Worker : /\ pc[w] # "working" /\ ExtractNextWork(w)
                                /\ UNCHANGED <<answers, main_pc, runs, replies, cancelled>>
           \/ \E w \in Worker : main_pc # "freed" /\ WorkDone(w)
           \/ \E i \in Item, p \in Priority : QueueWork(i, p)
           \/ \E i \in Item : Cancel(i)
           \/ ProcessReply
           \/ FreePool
<1> DEFINE Taken(w) == /\ pc[w] # "working" /\ ExtractNextWork(w)
                       /\ UNCHANGED <<answers, main_pc, runs, replies, cancelled>>
<1>1. ASSUME NEW w \in Worker, pc[w] # "working", UNCHANGED <<reply_vars, main_pc, history>>,
             WorkLoop(w) \/ \E o \in Worker \cup {Main, None} : ExitThread(w, o)
      PROVE  UNCHANGED EntryVars \/ Taken(w)
  <2>1. UNCHANGED <<answers, main_pc, runs, replies, cancelled>>
    BY <1>1 DEF reply_vars, history
  <2>2. ASSUME NEW o, ExitThread(w, o) PROVE UNCHANGED EntryVars
    BY <2>1, <2>2 DEF ExitThread, EntryVars, pool_vars
  <2>3. ASSUME StartUpdate(w) \/ WaitForWork(w) PROVE UNCHANGED EntryVars
    BY <2>1, <2>3 DEF StartUpdate, WaitForWork, EntryVars, pool_vars
  <2> QED
    BY <1>1, <2>1, <2>2, <2>3 DEF WorkLoop
<1>2. ASSUME NEW w \in Worker, WorkerStep(w) \/ SpuriousWakeup(w)
      PROVE  UNCHANGED EntryVars \/ Taken(w) \/ (main_pc # "freed" /\ WorkDone(w))
  <2>1. control_lock_owner \in Worker \cup {Main, None}
    BY DEF IInv, TypeOK
  <2>2. CASE EnterPool(w) \/ TakeControl(w) \/ Wake(w) \/ Return(w)
    <3>1. /\ pc[w] # "working" /\ UNCHANGED <<reply_vars, main_pc, history>>
          /\ \/ UNCHANGED <<pool_vars, generation, job, arg>>
             \/ WorkLoop(w)
             \/ \E o \in Worker \cup {Main, None} : ExitThread(w, o)
      BY <2>1, <2>2 DEF EnterPool, TakeControl, Wake, Return, LoopTop
    <3>2. CASE UNCHANGED <<pool_vars, generation, job, arg>>
      BY <3>1, <3>2 DEF EntryVars, pool_vars, reply_vars, history
    <3> QED
      BY <1>1, <3>1, <3>2
  <2>3. CASE ThreadStarts(w) \/ UpdateDone(w) \/ Alert(w) \/ LastOneOut(w) \/ SpuriousWakeup(w)
    BY <2>3 DEF ThreadStarts, UpdateDone, Alert, LastOneOut, SpuriousWakeup, EntryVars,
                pool_vars, reply_vars, history
  <2> QED
    BY <1>2, <2>2, <2>3 DEF WorkerStep
<1>3. CASE \/ StartTimesOut \/ StartWakesEarly \/ FinishStart \/ QueueUpdate \/ ReplyEvent
           \/ RepliesDone \/ StopThreads
  BY <1>3 DEF StartTimesOut, StartWakesEarly, FinishStart, QueueUpdate, ReplyEvent,
              RepliesDone, StopThreads, EntryVars, pool_vars, worker_vars, reply_vars, history
<1>4. CASE UNCHANGED vars
  BY <1>4 DEF vars, EntryVars, pool_vars, worker_vars, reply_vars, history
<1> QED
  BY <1>2, <1>3, <1>4 DEF Next, MainStep

\* The status of an entry, with the reply queue as a set.
LEMMA StatusOf ==
    ASSUME NEW i
    PROVE  EntryStatus(i) =
             IF i \in cancelled THEN "cancelled"
             ELSE IF replies[i] = 1 THEN "replied"
             ELSE IF i \in Entries(answers) THEN "answered"
             ELSE IF \E w \in Worker : job[w] = i THEN "running"
             ELSE IF i \in pending THEN "queued"
             ELSE IF runs[i] = 1 THEN "dropped" ELSE "fresh"
BY DEF EntryStatus, Entries

\* Every step moves every entry along one of WorkPool's steps, or not at all.
LEMMA StatusStep ==
    ASSUME IInv, [Next]_vars, NEW i \in Item
    PROVE  EntryStatus(i)' = EntryStatus(i)
             \/ <<EntryStatus(i), EntryStatus(i)'>> \in Pool!Step
<1> DEFINE St == IF i \in cancelled THEN "cancelled"
                 ELSE IF replies[i] = 1 THEN "replied"
                 ELSE IF i \in Entries(answers) THEN "answered"
                 ELSE IF \E w \in Worker : job[w] = i THEN "running"
                 ELSE IF i \in pending THEN "queued"
                 ELSE IF runs[i] = 1 THEN "dropped" ELSE "fresh"
           Stp == IF i \in cancelled' THEN "cancelled"
                  ELSE IF replies'[i] = 1 THEN "replied"
                  ELSE IF i \in Entries(answers') THEN "answered"
                  ELSE IF \E w \in Worker : job'[w] = i THEN "running"
                  ELSE IF i \in pending' THEN "queued"
                  ELSE IF runs'[i] = 1 THEN "dropped" ELSE "fresh"
<1>1. EntryStatus(i) = St
  BY StatusOf
<1>2. EntryStatus(i)' = Stp
  BY DEF EntryStatus, Entries
<1>3. TypeOK /\ QueuePart /\ EntryPart /\ NoItem \notin Item
  BY ConstantsAssumption DEF IInv
<1>4. /\ i \in pending => /\ i \notin cancelled /\ runs[i] = 0 /\ replies[i] = 0
                          /\ i \notin Entries(answers) /\ \A w \in Worker : job[w] # i
      /\ (\E w \in Worker : job[w] = i) => /\ i \notin cancelled /\ runs[i] = 0
                                           /\ replies[i] = 0 /\ i \notin Entries(answers)
      /\ i \in Entries(answers) => i \notin cancelled /\ runs[i] = 1 /\ replies[i] = 0
      /\ i \in cancelled => runs[i] = 0 /\ replies[i] = 0
      /\ replies[i] \in {0, 1} /\ runs[i] \in {0, 1}
  BY <1>3 DEF EntryPart, TypeOK
<1>5. ASSUME UNCHANGED EntryVars PROVE St = Stp
  BY <1>5 DEF EntryVars
<1>6. ASSUME NEW w \in Worker, pc[w] # "working", ExtractNextWork(w),
             UNCHANGED <<answers, main_pc, runs, replies, cancelled>>
      PROVE  St = Stp \/ <<St, Stp>> \in Pool!Step
  <2>1. PICK p \in Priority :
           /\ work[p] # <<>>
           /\ job' = [job EXCEPT ![w] = Head(work[p])]
           /\ pending' = pending \ {Head(work[p])}
    BY <1>6 DEF ExtractNextWork
  <2>2. Head(work[p]) \in Entries(work[p]) /\ Head(work[p]) \in Item
    BY <1>3, <2>1, EntriesTail DEF TypeOK
  <2>3. Head(work[p]) \in pending /\ job[w] = NoItem
    BY <1>3, <1>6, <2>2 DEF EntryPart, QueuePart
  <2>4. /\ job'[w] = Head(work[p]) /\ \A v \in Worker : v # w => job'[v] = job[v]
    BY <1>3, <2>1 DEF TypeOK
  <2>5. CASE i = Head(work[p])
    <3>1. St = "queued" /\ Stp = "running"
      BY <1>4, <1>6, <2>3, <2>4, <2>5
    <3> QED
      BY <3>1 DEF Pool!Step
  <2>6. CASE i # Head(work[p])
    <3>1. (\E v \in Worker : job'[v] = i) <=> (\E v \in Worker : job[v] = i)
      BY <1>3, <2>3, <2>4, <2>6
    <3> QED
      BY <1>6, <2>1, <2>6, <3>1
  <2> QED
    BY <2>5, <2>6
<1>7. ASSUME NEW w \in Worker, main_pc # "freed", WorkDone(w)
      PROVE  St = Stp \/ <<St, Stp>> \in Pool!Step
  <2>1. job[w] \in Item /\ runs[job[w]] = 0
    BY <1>3, <1>7, EntryWorkDone
  <2>2. Entries(answers') = Entries(answers) \cup {job[w]}
    BY <1>3, <1>7, <2>1, EntriesAppend DEF WorkDone, TypeOK
  <2>3. /\ UNCHANGED <<pending, replies, cancelled>>
        /\ job'[w] = NoItem /\ \A v \in Worker : v # w => job'[v] = job[v]
        /\ \A j \in Item : j # job[w] => runs'[j] = runs[j]
    BY <1>3, <1>7, <2>1 DEF WorkDone, TypeOK, pool_vars
  <2>4. CASE i = job[w]
    <3>1. St = "running" /\ Stp = "answered"
      BY <1>4, <2>2, <2>3, <2>4
    <3> QED
      BY <3>1 DEF Pool!Step
  <2>5. CASE i # job[w]
    <3>1. (\E v \in Worker : job'[v] = i) <=> (\E v \in Worker : job[v] = i)
      BY <1>3, <2>3, <2>5
    <3>2. i \in Entries(answers') <=> i \in Entries(answers)
      BY <2>2, <2>5
    <3> QED
      BY <2>3, <2>5, <3>1, <3>2
  <2> QED
    BY <2>4, <2>5
<1>8. ASSUME NEW j \in Item, NEW p \in Priority, QueueWork(j, p)
      PROVE  St = Stp \/ <<St, Stp>> \in Pool!Step
  <2>1. /\ runs[j] = 0 /\ j \notin pending /\ j \notin cancelled /\ \A w \in Worker : job[w] # j
        /\ UNCHANGED <<job, answers, runs, replies, cancelled>> /\ pending' = pending \cup {j}
    BY <1>8 DEF QueueWork, Fresh, reply_vars, history
  <2>2. j \notin Entries(answers) /\ replies[j] # 1
    BY <1>3, <2>1 DEF EntryPart
  <2>3. CASE i = j
    <3>1. St = "fresh" /\ Stp = "queued"
      BY <2>1, <2>2, <2>3
    <3> QED
      BY <3>1 DEF Pool!Step
  <2>4. CASE i # j
    BY <2>1, <2>4
  <2> QED
    BY <2>3, <2>4
<1>9. ASSUME NEW j \in Item, Cancel(j)
      PROVE  St = Stp \/ <<St, Stp>> \in Pool!Step
  <2>1. /\ j \in pending /\ pending' = pending \ {j} /\ cancelled' = cancelled \cup {j}
        /\ UNCHANGED <<job, answers, runs, replies>>
    BY <1>9 DEF Cancel, worker_vars, reply_vars
  <2>2. CASE i = j
    <3>1. St = "queued" /\ Stp = "cancelled"
      BY <1>4, <2>1, <2>2
    <3> QED
      BY <3>1 DEF Pool!Step
  <2>3. CASE i # j
    BY <2>1, <2>3
  <2> QED
    BY <2>2, <2>3
<1>10. ASSUME ProcessReply PROVE St = Stp \/ <<St, Stp>> \in Pool!Step
  <2>1. /\ Head(answers) \in Item /\ Head(answers) \in Entries(answers)
        /\ Entries(answers') = Entries(answers) \ {Head(answers)}
    BY <1>3, <1>10, EntriesTail DEF ProcessReply, TypeOK, QueuePart
  <2>2. replies[Head(answers)] = 0
    BY <1>3, <1>10, EntryProcessReply
  <2>3. /\ replies'[Head(answers)] = 1
        /\ \A j \in Item : j # Head(answers) => replies'[j] = replies[j]
        /\ UNCHANGED <<pending, job, runs, cancelled>>
    BY <1>3, <1>10, <2>1, <2>2 DEF ProcessReply, TypeOK, pool_vars, worker_vars
  <2>4. CASE i = Head(answers)
    <3>1. St = "answered" /\ Stp = "replied"
      BY <1>4, <2>1, <2>3, <2>4
    <3> QED
      BY <3>1 DEF Pool!Step
  <2>5. CASE i # Head(answers)
    BY <2>1, <2>3, <2>5
  <2> QED
    BY <2>4, <2>5
<1>11. ASSUME FreePool PROVE St = Stp \/ <<St, Stp>> \in Pool!Step
  <2>1. UNCHANGED <<pending, job, runs, replies, cancelled>> /\ answers' = <<>>
    BY <1>11 DEF FreePool, pool_vars, worker_vars, history
  <2>2. Entries(answers') = {}
    BY <2>1 DEF Entries
  <2>3. CASE i \in Entries(answers)
    <3>1. St = "answered" /\ Stp = "dropped"
      BY <1>4, <2>1, <2>2, <2>3
    <3> QED
      BY <3>1 DEF Pool!Step
  <2>4. CASE i \notin Entries(answers)
    BY <2>1, <2>2, <2>4
  <2> QED
    BY <2>3, <2>4
<1> HIDE DEF St, Stp
<1>12. St = Stp \/ <<St, Stp>> \in Pool!Step
  BY <1>5, <1>6, <1>7, <1>8, <1>9, <1>10, <1>11, EntryMoves
<1> QED
  BY <1>1, <1>2, <1>12

\* ImplementsWorkPool: whatever the threads, the signals and the two queues do, an entry
\* goes through its life once and in order, and only one that no thread has taken can be
\* cancelled.
THEOREM Refinement == Spec => ImplementsWorkPool
<1> DEFINE status == [i \in Item |-> EntryStatus(i)]
<1>1. Init => Pool!Init
  <2> SUFFICES ASSUME Init PROVE status = [i \in Item |-> "fresh"]
    BY DEF Pool!Init
  <2>1. ASSUME NEW i \in Item PROVE EntryStatus(i) = "fresh"
    BY ConstantsAssumption DEF Init, EntryStatus
  <2> QED
    BY <2>1
<1>2. IInv /\ [Next]_vars => [Pool!Next]_status
  <2> SUFFICES ASSUME IInv, [Next]_vars PROVE Pool!Next
    OBVIOUS
  <2>1. \A i \in Item : EntryStatus(i)' \in Pool!Status
    BY DEF EntryStatus, Pool!Status
  <2>2. \A i \in Item : status[i] = EntryStatus(i) /\ status'[i] = EntryStatus(i)'
    OBVIOUS
  <2>3. status' \in [Item -> Pool!Status]
    BY <2>1
  <2> QED
    BY <2>2, <2>3, StatusStep DEF Pool!Next
<1> QED
  BY <1>1, <1>2, Invariance, PTL DEF Spec, ImplementsWorkPool, Pool!Spec

-----------------------------------------------------------------------------
(* The pool is freed after its last thread has left.                       *)

\* When no more than one thread is counted, and one is, it is the only one.
LEMMA OneCounted ==
    ASSUME IInv, ~EarlierPool, n_worker_threads_running <= 1, NEW w \in Counted
    PROVE  Counted = {w}
<1>1. CountPart /\ IsFiniteSet(Counted) /\ Cardinality(Counted) \in Nat
  <2>1. CountPart
    BY DEF IInv
  <2> QED
    BY <2>1, CountBound
<1>2. Cardinality(Counted) <= 1
  BY <1>1 DEF CountPart
<1>3. {w} \subseteq Counted /\ Cardinality({w}) = 1 /\ Cardinality({w}) <= Cardinality(Counted)
  BY <1>1, FS_Subset, FS_Singleton
<1> QED
  BY <1>1, <1>2, <1>3, FS_Subset

\* Steps that take and give up no control_lock and bring no thread back.
LEMMA ExitFrame ==
    ASSUME ExitPart, UNCHANGED <<control_lock, control_lock_owner>>,
           \A v \in Worker : /\ pc[v] # "spawned" => pc'[v] # "spawned"
                             /\ pc[v] = "done" => pc'[v] = "done",
           \/ main_pc' = main_pc
           \/ main_pc = "confirmed" /\ main_pc' = "running"
           \/ main_pc # "starting" /\ main_pc' \in {"running", "replying"}
           \/ /\ main_pc # "starting" /\ main_pc' = "stopping"
              /\ control_lock_owner \in Worker
           \/ main_pc = "stopping" /\ control_lock = None /\ main_pc' = "freed"
    PROVE  ExitPart'
BY DEF ExitPart

\* ThreadStarts: the last thread to count itself in ends the start.
LEMMA ExitCountsIn ==
    ASSUME IInv, IInv', ExitPart, ~EarlierPool, NEW w \in Worker, ThreadStarts(w)
    PROVE  ExitPart'
<1>1. /\ UNCHANGED <<control_lock, control_lock_owner>>
      /\ pc[w] = "spawned" /\ pc'[w] = "started" /\ \A v \in Worker : v # w => pc'[v] = pc[v]
      /\ main_pc' = main_pc \/ /\ main_pc = "starting" /\ main_pc' = "confirmed"
                               /\ n_worker_threads_running' = Cardinality(Worker)
  BY DEF ThreadStarts, IInv, TypeOK
<1>2. CASE main_pc' = main_pc
  BY <1>1, <1>2, ExitFrame
<1>3. CASE main_pc = "starting" /\ main_pc' = "confirmed"
           /\ n_worker_threads_running' = Cardinality(Worker)
  <2>0. /\ Counted' \subseteq Worker /\ IsFiniteSet(Worker)
        /\ n_worker_threads_running' = Cardinality(Counted') + 0
    BY ConstantsAssumption DEF Counted, IInv, CountPart
  <2>1. Counted' = Worker
    <3>1. Cardinality(Counted') \in Nat
      BY <2>0, FS_Subset, FS_CardinalityType
    <3>2. Cardinality(Worker) = Cardinality(Counted')
      BY <1>3, <2>0, <3>1
    <3> QED
      BY <2>0, <3>2, FS_Subset
  <2>2. \A v \in Worker : pc'[v] # "spawned"
    BY <2>1 DEF Counted
  <2>3. control_lock_owner \in Worker => pc[control_lock_owner] \notin {"spawned", "started"}
    BY DEF IInv, LockPart
  <2>4. Starting
    BY <1>3 DEF Starting
  <2>5. control_lock_owner \notin Worker
    BY <2>3, <2>4 DEF IInv, StartPart
  <2> QED
    BY <1>1, <1>3, <2>2, <2>5 DEF ExitPart
<1> QED
  BY <1>1, <1>2, <1>3

\* LastOneOut: the owner of control_lock gives it up when the others are gone.
LEMMA ExitLastOut ==
    ASSUME IInv, ExitPart, ~EarlierPool, NEW w \in Worker, LastOneOut(w), main_pc # "freed"
    PROVE  ExitPart'
<1>1. /\ pc[w] = "lingering" /\ pc'[w] = "done" /\ \A v \in Worker : v # w => pc'[v] = pc[v]
      /\ n_worker_threads_running <= 1
      /\ UNCHANGED <<control_lock_owner, main_pc>> /\ control_lock' = None
  BY DEF LastOneOut, IInv, TypeOK
<1>2. w \in Counted
  BY <1>1 DEF Counted
<1>3. Counted = {w}
  BY <1>1, <1>2, OneCounted
<1>4. main_pc # "starting"
  BY <1>1 DEF IInv, StartPart, Starting
<1>5. \A v \in Worker : pc'[v] = "done"
  BY <1>1, <1>3, <1>4 DEF Counted, ExitPart
<1> QED
  BY <1>1, <1>4, <1>5 DEF ExitPart

\* StopThreads: the owner frees a pool whose control_lock has an owner.
LEMMA ExitStops ==
    ASSUME IInv, ExitPart, ~EarlierPool, StopThreads
    PROVE  ExitPart'
<1>1. main_pc = "running" /\ MayFree /\ main_pc' = "stopping"
  BY DEF StopThreads, ExitPart
<1>2. UNCHANGED <<control_lock, control_lock_owner>>
  BY DEF StopThreads, start_vars
<1>3. \A v \in Worker : pc'[v] = pc[v] \/ (pc[v] = "waiting" /\ pc'[v] = "woken")
  BY DEF StopThreads, SignalAll, IInv, TypeOK
<1>4. control_lock # None \/ Waiting = Worker
  BY <1>1, ConstantsAssumption DEF MayFree
<1>5. control_lock_owner \in Worker \cup {Main, None} /\ control_lock_owner # Main
  BY DEF IInv, TypeOK, StartPart
<1>6. control_lock_owner # None
  <2>1. CASE control_lock # None
    BY <2>1 DEF IInv, LockPart
  <2>2. CASE Waiting = Worker
    <3>1. PICK v \in Worker : pc[v] = "waiting"
      BY <2>2, ConstantsAssumption DEF Waiting
    <3> QED
      BY <3>1 DEF IInv, LockPart
  <2> QED
    BY <1>4, <2>1, <2>2
<1>7. control_lock_owner \in Worker
  BY <1>5, <1>6
<1> QED
  BY <1>1, <1>2, <1>3, <1>7, ExitFrame

\* The other steps of a thread.
LEMMA ExitThreadSteps ==
    ASSUME IInv, ExitPart, NEW w \in Worker,
           SpuriousWakeup(w) \/ (main_pc # "freed"
             /\ (EnterPool(w) \/ TakeControl(w) \/ Wake(w) \/ UpdateDone(w) \/ WorkDone(w)
                   \/ Alert(w) \/ Return(w)))
    PROVE  ExitPart'
<1>1. pc \in [Worker -> WorkerPc]
  BY DEF IInv, TypeOK
<1>2. ASSUME NEW o, ExitThread(w, o) \/ WorkLoop(w)
      PROVE  /\ \A v \in Worker : v # w => pc'[v] = pc[v]
             /\ pc'[w] # "spawned"
  BY <1>1, <1>2 DEF ExitThread, WorkLoop, StartUpdate, ExtractNextWork, WaitForWork
<1>3. CASE TakeControl(w)
  <2>1. /\ pc[w] = "taking" /\ control_lock' = w /\ control_lock_owner' = w
        /\ main_pc' = main_pc /\ main_pc # "freed"
        /\ ExitThread(w, w) \/ WorkLoop(w)
    BY <1>3 DEF TakeControl, LoopTop, SpuriousWakeup
  <2>2. w # None
    BY ConstantsAssumption
  <2>3. \A v \in Worker : pc[v] # "spawned" => pc'[v] # "spawned"
    BY <1>2, <2>1
  <2> QED
    BY <2>1, <2>2, <2>3 DEF ExitPart
<1>4. CASE EnterPool(w) \/ Wake(w) \/ Return(w)
  <2>1. /\ pc[w] \in {"started", "woken", "returned"}
        /\ UNCHANGED <<control_lock, control_lock_owner, main_pc>>
        /\ \/ pc' = [pc EXCEPT ![w] = "taking"]
           \/ \E o : ExitThread(w, o) \/ WorkLoop(w)
    BY <1>4 DEF EnterPool, Wake, Return, LoopTop
  <2>2. /\ \A v \in Worker : v # w => pc'[v] = pc[v]
        /\ pc'[w] # "spawned"
    BY <1>1, <1>2, <2>1
  <2> QED
    BY <2>1, <2>2, ExitFrame
<1>5. CASE SpuriousWakeup(w) \/ UpdateDone(w) \/ WorkDone(w) \/ Alert(w)
  <2>1. /\ pc[w] \in {"waiting", "updating", "working", "alerting"}
        /\ UNCHANGED <<control_lock, control_lock_owner, main_pc>>
        /\ \A v \in Worker : v # w => pc'[v] = pc[v]
        /\ pc'[w] # "spawned"
    BY <1>1, <1>5 DEF SpuriousWakeup, UpdateDone, WorkDone, Alert, start_vars
  <2> QED
    BY <2>1, ExitFrame
<1> QED
  BY <1>3, <1>4, <1>5

\* The other steps of the main thread, when the wait for the start ends with the signal.
LEMMA ExitMainSteps ==
    ASSUME IInv, ExitPart, ~StartTimeout, ~EarlyStart, MainStep, ~StopThreads
    PROVE  ExitPart'
<1>1. TypeOK
  BY DEF IInv
<1>2. CASE \E i \in Item, p \in Priority : QueueWork(i, p)
  <2>1. /\ UNCHANGED <<control_lock, control_lock_owner, main_pc>>
        /\ \A v \in Worker : pc'[v] = pc[v] \/ (pc[v] = "waiting" /\ pc'[v] = "woken")
    BY <1>1, <1>2, Signals DEF QueueWork, start_vars
  <2> QED
    BY <2>1, ExitFrame
<1>3. CASE QueueUpdate
  <2>1. /\ UNCHANGED <<control_lock, control_lock_owner, main_pc>>
        /\ \A v \in Worker : pc'[v] = pc[v] \/ (pc[v] = "waiting" /\ pc'[v] = "woken")
    BY <1>1, <1>3, Signals DEF QueueUpdate, start_vars
  <2> QED
    BY <2>1, ExitFrame
<1>4. CASE FinishStart
  <2>1. main_pc = "confirmed" /\ main_pc' = "running"
        /\ UNCHANGED <<control_lock, control_lock_owner, pc>>
    BY <1>4 DEF FinishStart, ExitPart, worker_vars
  <2> QED
    BY <2>1, ExitFrame
<1>5. CASE \/ \E i \in Item : Cancel(i)
           \/ ReplyEvent \/ ProcessReply \/ RepliesDone \/ FreePool
  <2>1. /\ UNCHANGED <<control_lock, control_lock_owner, pc>>
        /\ \/ main_pc' = main_pc
           \/ main_pc \in {"running", "replying"} /\ main_pc' \in {"running", "replying"}
           \/ main_pc = "stopping" /\ control_lock = None /\ main_pc' = "freed"
    BY <1>5 DEF Cancel, ReplyEvent, ProcessReply, RepliesDone, FreePool, start_vars, worker_vars
  <2> QED
    BY <2>1, ExitFrame
<1> QED
  BY <1>2, <1>3, <1>4, <1>5 DEF MainStep, StartTimesOut, StartWakesEarly

\* CleanupAfterExit: threadpool_free frees the pool's memory only when no worker runs any
\* more, for the first pool of a process whose start ends when all threads have confirmed
\* it.  (Without these conditions it does not hold: the statics an earlier pool left behind
\* make control_lock ownerless, a start that timed out is freed before any thread owns it,
\* and a thread that the start did not wait for is not counted when the last one leaves.)
THEOREM Cleanup ==
    ASSUME ~EarlierPool, ~StartTimeout, ~EarlyStart
    PROVE  Spec => []CleanupAfterExit
<1>1. Init => ExitPart
  <2> SUFFICES ASSUME Init PROVE ExitPart
    OBVIOUS
  <2> QED
    BY ConstantsAssumption DEF Init, ExitPart
<1>2. IInv /\ IInv' /\ ExitPart /\ [Next]_vars => ExitPart'
  <2> SUFFICES ASSUME IInv, IInv', ExitPart, [Next]_vars PROVE ExitPart'
    OBVIOUS
  <2>1. ASSUME NEW w \in Worker, WorkerStep(w) \/ SpuriousWakeup(w) PROVE ExitPart'
    BY <2>1, ExitCountsIn, ExitLastOut, ExitThreadSteps DEF WorkerStep
  <2>2. CASE MainStep
    BY <2>2, ExitStops, ExitMainSteps
  <2>3. CASE UNCHANGED vars
    BY <2>3 DEF vars, start_vars, worker_vars, ExitPart
  <2> QED
    BY <2>1, <2>2, <2>3 DEF Next
<1>3. IInv /\ ExitPart => CleanupAfterExit
  BY DEF ExitPart, CleanupAfterExit
<1> QED
  BY <1>1, <1>2, <1>3, Invariance, PTL DEF Spec

=============================================================================
