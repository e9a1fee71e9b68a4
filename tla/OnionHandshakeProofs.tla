------------------------ MODULE OnionHandshakeProofs ------------------------
(***************************************************************************)
(* Proofs about OnionHandshake, for any number of circuits and any room in *)
(* the pool: the count of pending tasks is right, the onion queue and the  *)
(* pointers into it agree, a circuit outlives its task, and the thread     *)
(* pool is used the way WorkPool allows.                                   *)
(***************************************************************************)
EXTENDS OnionHandshake, FiniteSetTheorems, SequenceTheorems, TLAPS

-----------------------------------------------------------------------------
(* The inductive invariant.                                                *)

Entries(s) == {s[k] : k \in 1..Len(s)}
Distinct(s) == \A k, l \in 1..Len(s) : s[k] = s[l] => k = l

\* The onion queue, its count and the pointers into it agree.
QueuePart ==
    /\ ol_list \in Seq(Circuit) /\ Distinct(ol_list)
    /\ ol_entries = Len(ol_list) /\ n_elderly \in 0..Len(ol_list)
    /\ onionqueue_entry = Entries(ol_list)

\* A circuit that waits is in memory and has never had a task.  Circuits with a channel
\* and circuits marked for close are in memory, a circuit not yet created has no task.
CircPart ==
    /\ magic \in [Circuit -> {"none", "OR_CIRCUIT_MAGIC", "DEAD_CIRCUIT_MAGIC", "freed"}]
    /\ state \in [Circuit -> {"none", "ONIONSKIN_PENDING", "OPEN"}]
    /\ p_chan \subseteq Circuit /\ pending_close \subseteq Circuit
    /\ \A c \in p_chan \cup pending_close : magic[c] = "OR_CIRCUIT_MAGIC"
    /\ \A c \in onionqueue_entry : /\ magic[c] = "OR_CIRCUIT_MAGIC"
                                  /\ state[c] = "ONIONSKIN_PENDING"
                                  /\ pool[c] = "fresh"

\* A circuit points to a task exactly while the pool holds one for it, and as long as it
\* does the circuit has not been opened and its memory is there.
TaskPart ==
    /\ pool \in [Circuit -> Pool!Status]
    /\ workqueue_entry = Pool!Outstanding
    /\ \A c \in Circuit :
         /\ magic[c] = "none" => pool[c] = "fresh"
         /\ c \in Pool!Outstanding => /\ magic[c] \in {"OR_CIRCUIT_MAGIC", "DEAD_CIRCUIT_MAGIC"}
                                      /\ state[c] = "ONIONSKIN_PENDING"
         /\ magic[c] = "DEAD_CIRCUIT_MAGIC" => pool[c] \in {"running", "answered"}

IInv ==
    /\ QueuePart /\ CircPart /\ TaskPart /\ TasksCounted
    /\ max_pending_tasks \in MaxPending
-----------------------------------------------------------------------------
(* Queues and counts.                                                      *)

\* A queue without duplicates has as many entries as it is long.
LEMMA QueueCardinality ==
    ASSUME NEW S, NEW s \in Seq(S), Distinct(s)
    PROVE  IsFiniteSet(Entries(s)) /\ Cardinality(Entries(s)) = Len(s)
<1>1. Len(s) \in Nat /\ DOMAIN s = 1..Len(s) /\ s \in [1..Len(s) -> S]
  BY SeqDef
<1>2. IsFiniteSet(1..Len(s)) /\ Cardinality(1..Len(s)) = Len(s)
  BY <1>1, FS_Interval
<1>3. s \in [1..Len(s) -> Entries(s)]
  BY <1>1 DEF Entries
<1>4. s \in Bijection(1..Len(s), Entries(s))
  BY <1>3 DEF Bijection, Injection, Surjection, IsInjective, Entries, Distinct
<1> QED
  BY <1>2, <1>4, FS_Bijection DEF ExistsBijection

\* A finite set is the part inside and the part outside another set.
LEMMA SplitCardinality ==
    ASSUME NEW S, NEW T, IsFiniteSet(S)
    PROVE  /\ Cardinality(S) = Cardinality(S \ T) + Cardinality(T \cap S)
           /\ Cardinality(S) \in Nat /\ Cardinality(S \ T) \in Nat
           /\ Cardinality(T \cap S) \in Nat
<1>1. IsFiniteSet(S \ T) /\ IsFiniteSet(T \cap S)
  BY FS_Subset
<1>2. /\ S = (S \ T) \cup (T \cap S) /\ (S \ T) \cap (T \cap S) = {}
  OBVIOUS
<1>3. Cardinality(S) = Cardinality(S \ T) + Cardinality(T \cap S) - Cardinality({})
  BY <1>1, <1>2, FS_Union
<1> QED
  BY <1>1, <1>3, FS_EmptySet, FS_CardinalityType

\* Adding one set to another that has no element of it.
LEMMA AddCardinality ==
    ASSUME NEW S, NEW T, IsFiniteSet(S), IsFiniteSet(T), S \cap T = {}
    PROVE  /\ IsFiniteSet(S \cup T)
           /\ Cardinality(S \cup T) = Cardinality(S) + Cardinality(T)
           /\ Cardinality(S) \in Nat /\ Cardinality(T) \in Nat
BY FS_Union, FS_EmptySet, FS_CardinalityType

\* Positions of a queue are finitely many.
LEMMA PositionsFinite ==
    ASSUME NEW n \in Nat, NEW ps \in SUBSET (1..n)
    PROVE  IsFiniteSet(ps) /\ Cardinality(ps) \in Nat
<1>1. IsFiniteSet(1..n)
  BY FS_Interval
<1> QED
  BY <1>1, FS_Subset, FS_CardinalityType

\* The entries that stay in the queue are those of no circuit in cs.
LEMMA StayingQueue ==
    ASSUME QueuePart, NEW cs, NEW stay \in QueueOf(Staying(cs))
    PROVE  /\ stay \in Seq(Circuit) /\ Distinct(stay)
           /\ Entries(stay) = Entries(ol_list) \ cs
           /\ Len(stay) = Cardinality(Staying(cs))
<1> DEFINE ps == Staying(cs)
           n == Cardinality(ps)
<1>1. /\ ps \subseteq 1..Len(ol_list) /\ Len(ol_list) \in Nat
      /\ \A i \in 1..Len(ol_list) : i \in ps <=> ol_list[i] \notin cs
      /\ \A i \in 1..Len(ol_list) : ol_list[i] \in Circuit
  BY DEF Staying, QueuePart
<1>2. IsFiniteSet(ps) /\ n \in Nat
  BY <1>1, PositionsFinite
<1> HIDE DEF ps, n
<1>3. PICK at \in [1..n -> ps] :
         /\ \A j, k \in 1..n : j < k => at[j] < at[k]
         /\ \A i \in ps : \E k \in 1..n : at[k] = i
         /\ stay = [k \in 1..n |-> ol_list[at[k]]]
  <2>1. PICK at \in {f \in [1..n -> ps] :
                       /\ \A j, k \in DOMAIN f : j < k => f[j] < f[k]
                       /\ \A i \in ps : \E k \in DOMAIN f : f[k] = i} :
          stay = [k \in 1..n |-> ol_list[at[k]]]
    BY Zenon DEF QueueOf, ps, n
  <2>2. at \in [1..n -> ps] /\ DOMAIN at = 1..n
    OBVIOUS
  <2> QED
    BY <2>1, <2>2
<1>4. /\ stay \in Seq(Circuit) /\ Len(stay) = n
      /\ \A k \in 1..n : stay[k] = ol_list[at[k]]
  <2>1. stay \in [1..n -> Circuit]
    BY <1>1, <1>3
  <2> QED
    BY <1>2, <1>3, <2>1
<1>5. Distinct(stay)
  <2> SUFFICES ASSUME NEW k \in 1..n, NEW l \in 1..n, stay[k] = stay[l] PROVE k = l
    BY <1>4 DEF Distinct
  <2>1. at[k] = at[l]
    BY <1>1, <1>3, <1>4 DEF QueuePart, Distinct
  <2>2. at[k] \in 1..Len(ol_list) /\ at[l] \in 1..Len(ol_list)
    BY <1>1, <1>3
  <2> QED
    BY <1>2, <1>3, <2>1, <2>2
<1>6. Entries(stay) = Entries(ol_list) \ cs
  <2>1. ASSUME NEW x \in Entries(stay) PROVE x \in Entries(ol_list) \ cs
    <3>1. PICK k \in 1..n : x = ol_list[at[k]]
      BY <1>4 DEF Entries
    <3> QED
      BY <1>1, <1>3, <3>1 DEF Entries
  <2>2. ASSUME NEW x \in Entries(ol_list), x \notin cs PROVE x \in Entries(stay)
    <3>1. PICK i \in 1..Len(ol_list) : x = ol_list[i]
      BY DEF Entries
    <3>2. i \in ps
      BY <1>1, <2>2, <3>1
    <3>3. PICK k \in 1..n : at[k] = i
      BY <1>3, <3>2
    <3> QED
      BY <1>4, <3>1, <3>3 DEF Entries
  <2> QED
    BY <2>1, <2>2
<1> QED
  BY <1>4, <1>5, <1>6 DEF ps, n

\* The entries of a queue and another appended to it.
LEMMA EntriesConcat ==
    ASSUME NEW S, NEW s \in Seq(S), NEW t \in Seq(S)
    PROVE  /\ s \o t \in Seq(S) /\ Len(s \o t) = Len(s) + Len(t)
           /\ Entries(s \o t) = Entries(s) \cup Entries(t)
           /\ Distinct(s) /\ Distinct(t) /\ Entries(s) \cap Entries(t) = {} => Distinct(s \o t)
<1> DEFINE u == s \o t
<1>1. /\ u \in Seq(S) /\ Len(u) = Len(s) + Len(t)
      /\ \A k \in 1..(Len(s) + Len(t)) : u[k] = IF k <= Len(s) THEN s[k] ELSE t[k - Len(s)]
  BY ConcatProperties
<1>2. Len(s) \in Nat /\ Len(t) \in Nat
  OBVIOUS
<1> HIDE DEF u
<1>3. ASSUME NEW k \in 1..(Len(s) + Len(t))
      PROVE  /\ k <= Len(s) => k \in 1..Len(s) /\ u[k] = s[k]
             /\ k > Len(s) => k - Len(s) \in 1..Len(t) /\ u[k] = t[k - Len(s)]
  BY <1>1, <1>2
<1>4. \A k \in 1..Len(s) : k \in 1..(Len(s) + Len(t)) /\ u[k] = s[k]
  BY <1>1, <1>2
<1>5. \A k \in 1..Len(t) : /\ k + Len(s) \in 1..(Len(s) + Len(t))
                           /\ u[k + Len(s)] = t[k]
  <2> TAKE k \in 1..Len(t)
  <2>1. k + Len(s) \in 1..(Len(s) + Len(t)) /\ k + Len(s) > Len(s) /\ (k + Len(s)) - Len(s) = k
    BY <1>2
  <2> QED
    BY <1>3, <2>1
<1>6. Entries(u) = Entries(s) \cup Entries(t)
  <2>1. ASSUME NEW x \in Entries(u) PROVE x \in Entries(s) \cup Entries(t)
    <3>1. PICK k \in 1..(Len(s) + Len(t)) : x = u[k]
      BY <1>1 DEF Entries
    <3> QED
      BY <1>2, <1>3, <3>1 DEF Entries
  <2>2. ASSUME NEW x \in Entries(s) PROVE x \in Entries(u)
    BY <1>1, <1>4 DEF Entries
  <2>3. ASSUME NEW x \in Entries(t) PROVE x \in Entries(u)
    BY <1>1, <1>5 DEF Entries
  <2> QED
    BY <2>1, <2>2, <2>3
<1>7. ASSUME Distinct(s), Distinct(t), Entries(s) \cap Entries(t) = {} PROVE Distinct(u)
  <2> SUFFICES ASSUME NEW k \in 1..(Len(s) + Len(t)), NEW l \in 1..(Len(s) + Len(t)), u[k] = u[l]
               PROVE  k = l
    BY <1>1 DEF Distinct
  <2>1. CASE k <= Len(s) /\ l <= Len(s)
    BY <1>3, <1>7, <2>1 DEF Distinct
  <2>2. CASE k > Len(s) /\ l > Len(s)
    <3>1. k - Len(s) = l - Len(s)
      BY <1>3, <1>7, <2>2 DEF Distinct
    <3> QED
      BY <1>2, <3>1
  <2>3. CASE k <= Len(s) /\ l > Len(s)
    <3>1. u[k] \in Entries(s) /\ u[l] \in Entries(t)
      BY <1>3, <2>3 DEF Entries
    <3> QED
      BY <1>7, <3>1
  <2>4. CASE k > Len(s) /\ l <= Len(s)
    <3>1. u[k] \in Entries(t) /\ u[l] \in Entries(s)
      BY <1>3, <2>4 DEF Entries
    <3> QED
      BY <1>7, <3>1
  <2> QED
    BY <1>2, <2>1, <2>2, <2>3, <2>4
<1> QED
  BY <1>1, <1>6, <1>7 DEF u

\* UpdateQueue keeps the queue, its count and the pointers in step.
LEMMA QueueUpdated ==
    ASSUME QueuePart, NEW cs, NEW new \in Seq(Circuit), UpdateQueue(cs, new),
           Distinct(new), Entries(new) \cap onionqueue_entry = {}
    PROVE  QueuePart' /\ onionqueue_entry' = (onionqueue_entry \ cs) \cup Entries(new)
<1>1. PICK stay \in QueueOf(Staying(cs)) : ol_list' = stay \o new
  BY DEF UpdateQueue
<1>2. /\ stay \in Seq(Circuit) /\ Distinct(stay)
      /\ Entries(stay) = Entries(ol_list) \ cs
      /\ Len(stay) = Cardinality(Staying(cs))
  BY StayingQueue
<1>3. /\ ol_list' \in Seq(Circuit) /\ Len(ol_list') = Len(stay) + Len(new)
      /\ Entries(ol_list') = Entries(stay) \cup Entries(new)
      /\ Distinct(stay) /\ Distinct(new) /\ Entries(stay) \cap Entries(new) = {}
         => Distinct(ol_list')
  <2>1. /\ stay \o new \in Seq(Circuit) /\ Len(stay \o new) = Len(stay) + Len(new)
        /\ Entries(stay \o new) = Entries(stay) \cup Entries(new)
        /\ Distinct(stay) /\ Distinct(new) /\ Entries(stay) \cap Entries(new) = {}
           => Distinct(stay \o new)
    BY <1>2, EntriesConcat, Zenon
  <2> QED
    BY <1>1, <2>1, Zenon
<1>4. /\ ol_list \in Seq(Circuit) /\ Distinct(ol_list) /\ onionqueue_entry = Entries(ol_list)
      /\ ol_entries = Len(ol_list) /\ n_elderly \in 0..Len(ol_list)
      /\ Len(ol_list) \in Nat /\ Len(new) \in Nat /\ Len(stay) \in Nat
  BY <1>2 DEF QueuePart
<1>5. Distinct(ol_list')
  BY <1>2, <1>3, <1>4
<1>6. {new[i] : i \in DOMAIN new} = Entries(new)
  <2>1. DOMAIN new = 1..Len(new)
    OBVIOUS
  <2> QED
    BY <2>1 DEF Entries
<1>7. onionqueue_entry' = (onionqueue_entry \ cs) \cup Entries(new)
  BY <1>6 DEF UpdateQueue
<1>8. ol_entries' = Len(ol_list')
  <2>1. Cardinality(Entries(ol_list)) = Len(ol_list) /\ IsFiniteSet(Entries(ol_list))
    BY <1>4, QueueCardinality
  <2>2. Cardinality(Entries(stay)) = Len(stay)
    BY <1>2, QueueCardinality
  <2>3. Len(ol_list) = Len(stay) + Cardinality(cs \cap onionqueue_entry)
    BY <1>2, <1>4, <2>1, <2>2, SplitCardinality
  <2>4. Cardinality(cs \cap onionqueue_entry) \in Nat
    BY <1>4, <2>1, SplitCardinality
  <2>5. ol_entries' = ol_entries - Cardinality(cs \cap onionqueue_entry) + Len(new)
    BY DEF UpdateQueue
  <2> QED
    BY <1>3, <1>4, <2>3, <2>4, <2>5
<1>9. n_elderly' \in 0..Len(ol_list')
  <2>1. Staying(cs) \subseteq 1..Len(ol_list)
    BY DEF Staying
  <2>2. IsFiniteSet(Staying(cs))
    BY <1>4, <2>1, PositionsFinite
  <2>3. n_elderly' = Cardinality(Staying(cs) \cap 1..n_elderly)
    BY DEF UpdateQueue
  <2>4. n_elderly' \in Nat /\ n_elderly' <= Cardinality(Staying(cs))
    BY <2>2, <2>3, FS_Intersection, FS_CardinalityType
  <2> QED
    BY <1>2, <1>3, <1>4, <2>4
<1> QED
  BY <1>2, <1>3, <1>4, <1>5, <1>7, <1>8, <1>9 DEF QueuePart

-----------------------------------------------------------------------------
(* The steps.                                                              *)

\* UpdateQueue with nothing new.
LEMMA QueueShrinks ==
    ASSUME QueuePart, NEW cs, UpdateQueue(cs, <<>>)
    PROVE  QueuePart' /\ onionqueue_entry' = onionqueue_entry \ cs
<1>1. <<>> \in Seq(Circuit) /\ Distinct(<<>>) /\ Entries(<<>>) = {}
  BY DEF Distinct, Entries
<1>2. Entries(<<>>) \cap onionqueue_entry = {}
  BY <1>1
<1>3. QueuePart' /\ onionqueue_entry' = (onionqueue_entry \ cs) \cup Entries(<<>>)
  BY <1>1, <1>2, QueueUpdated, Zenon
<1> QED
  BY <1>1, <1>3

\* The tasks the pool holds are finitely many.
LEMMA OutstandingFinite ==
    ASSUME TasksCounted
    PROVE  /\ IsFiniteSet(Pool!Outstanding) /\ Pool!Outstanding \subseteq Circuit
           /\ total_pending_tasks \in Nat
           /\ total_pending_tasks = Cardinality(Pool!Outstanding)
<1>1. Pool!Outstanding \subseteq Circuit
  BY DEF Pool!Outstanding
<1>2. IsFiniteSet(Pool!Outstanding)
  BY <1>1, ConstantsAssumption, FS_Subset
<1> QED
  BY <1>1, <1>2, FS_CardinalityType DEF TasksCounted

\* Steps that leave the tasks alone.
LEMMA TaskFrame ==
    ASSUME TaskPart, TasksCounted, UNCHANGED task_vars,
           \A c \in Circuit :
             /\ pool[c] # "fresh" => magic'[c] = magic[c] /\ state'[c] = state[c]
             /\ magic'[c] = "DEAD_CIRCUIT_MAGIC" => magic[c] = "DEAD_CIRCUIT_MAGIC"
    PROVE  TaskPart' /\ TasksCounted'
<1>1. UNCHANGED <<pool, workqueue_entry, total_pending_tasks>>
  BY DEF task_vars
<1>2. Pool!Outstanding' = Pool!Outstanding
  BY <1>1 DEF Pool!Outstanding
<1>3. \A c \in Pool!Outstanding : c \in Circuit /\ pool[c] # "fresh"
  BY DEF Pool!Outstanding
<1>4. TasksCounted'
  BY <1>1, <1>2 DEF TasksCounted
<1> QED
  BY <1>1, <1>2, <1>3, <1>4 DEF TaskPart

\* The pool gets tasks for circuits that never had one, and perhaps is done with one.
LEMMA TasksGiven ==
    ASSUME TaskPart, TasksCounted, NEW new \in SUBSET Circuit, NEW done \in SUBSET Pool!Outstanding,
           \A c \in new : pool[c] = "fresh",
           pool' = [c \in Circuit |-> IF c \in done THEN "replied"
                                      ELSE IF c \in new THEN "queued" ELSE pool[c]],
           workqueue_entry' = (workqueue_entry \ done) \cup new,
           total_pending_tasks' = total_pending_tasks - Cardinality(done) + Cardinality(new)
    PROVE  /\ pool' \in [Circuit -> Pool!Status]
           /\ workqueue_entry' = Pool!Outstanding' /\ TasksCounted'
           /\ Pool!Outstanding' = (Pool!Outstanding \ done) \cup new
<1>1. /\ IsFiniteSet(Pool!Outstanding) /\ Pool!Outstanding \subseteq Circuit
      /\ total_pending_tasks \in Nat
      /\ total_pending_tasks = Cardinality(Pool!Outstanding)
  BY OutstandingFinite
<1>2. pool' \in [Circuit -> Pool!Status]
  BY DEF TaskPart, Pool!Status
<1>3. new \cap Pool!Outstanding = {}
  BY DEF Pool!Outstanding
<1>4. Pool!Outstanding' = (Pool!Outstanding \ done) \cup new
  BY <1>1, <1>3 DEF Pool!Outstanding
<1>5. workqueue_entry' = Pool!Outstanding'
  BY <1>4 DEF TaskPart
<1>6. total_pending_tasks' = Cardinality(Pool!Outstanding')
  <2> DEFINE O == Pool!Outstanding
  <2>1. /\ Cardinality(O) = Cardinality(O \ done) + Cardinality(done \cap O)
        /\ Cardinality(O \ done) \in Nat /\ Cardinality(done \cap O) \in Nat
    BY <1>1, SplitCardinality
  <2>2. done \cap O = done
    OBVIOUS
  <2>3. IsFiniteSet(O \ done) /\ IsFiniteSet(new)
    BY <1>1, ConstantsAssumption, FS_Subset
  <2>4. Cardinality((O \ done) \cup new) = Cardinality(O \ done) + Cardinality(new)
        /\ Cardinality(new) \in Nat
    BY <1>3, <2>3, AddCardinality
  <2> HIDE DEF O
  <2>5. Pool!Outstanding' = (O \ done) \cup new /\ total_pending_tasks = Cardinality(O)
    BY <1>1, <1>4 DEF O
  <2>6. /\ Cardinality(done \cap O) = Cardinality(done)
        /\ Cardinality(Pool!Outstanding') = Cardinality((O \ done) \cup new)
    BY <2>2, <2>5
  <2> QED
    BY <2>1, <2>4, <2>5, <2>6
<1> QED
  BY <1>2, <1>4, <1>5, <1>6 DEF TasksCounted

\* ProcessCreateCell for a circuit that gets no task: it is answered or closed at once, or
\* its onionskin has to wait.
LEMMA InvCreateOther ==
    ASSUME IInv, NEW c \in Circuit, ProcessCreateCell(c), UNCHANGED task_vars
    PROVE  IInv'
<1>1. /\ magic[c] = "none" /\ pool[c] = "fresh" /\ c \notin p_chan \cup pending_close
      /\ c \notin onionqueue_entry
  BY DEF ProcessCreateCell, IInv, CircPart, TaskPart
<1>2. /\ magic' \in [Circuit -> {"none", "OR_CIRCUIT_MAGIC", "DEAD_CIRCUIT_MAGIC", "freed"}]
      /\ magic'[c] = "OR_CIRCUIT_MAGIC" /\ \A d \in Circuit : d # c => magic'[d] = magic[d]
      /\ p_chan' = p_chan \cup {c} /\ UNCHANGED max_pending_tasks
      /\ state' \in [Circuit -> {"none", "ONIONSKIN_PENDING", "OPEN"}]
      /\ \A d \in Circuit : d # c => state'[d] = state[d]
  BY DEF ProcessCreateCell, IInv, CircPart
<1>3. /\ QueuePart' /\ onionqueue_entry' \subseteq onionqueue_entry \cup {c}
      /\ c \in onionqueue_entry' => state'[c] = "ONIONSKIN_PENDING"
      /\ pending_close' \subseteq pending_close \cup onionqueue_entry \cup {c}
  <2>1. CASE UNCHANGED queue_vars /\ pending_close' \subseteq pending_close \cup {c}
    BY <1>1, <2>1 DEF queue_vars, IInv, QueuePart
  <2>2. CASE OnionPendingAdd(c) /\ state' = [state EXCEPT ![c] = "ONIONSKIN_PENDING"]
    <3> DEFINE culled == {ol_list[i] : i \in 1..n_elderly}
    <3>1. UpdateQueue(culled, <<c>>) /\ pending_close' = pending_close \cup culled
      BY <2>2 DEF OnionPendingAdd
    <3>2. <<c>> \in Seq(Circuit) /\ Distinct(<<c>>) /\ Entries(<<c>>) = {c}
      BY DEF Distinct, Entries
    <3>3. QueuePart
      BY DEF IInv
    <3>4. culled \subseteq onionqueue_entry
      BY <3>3 DEF QueuePart, Entries
    <3> HIDE DEF culled
    <3>5. QueuePart' /\ onionqueue_entry' = (onionqueue_entry \ culled) \cup {c}
      <4>1. Entries(<<c>>) \cap onionqueue_entry = {}
        BY <1>1, <3>2
      <4>2. QueuePart' /\ onionqueue_entry' = (onionqueue_entry \ culled) \cup Entries(<<c>>)
        BY <3>1, <3>2, <3>3, <4>1, QueueUpdated, Zenon
      <4> QED
        BY <3>2, <4>2
    <3>6. state'[c] = "ONIONSKIN_PENDING"
      BY <2>2 DEF IInv, CircPart
    <3> QED
      BY <3>1, <3>4, <3>5, <3>6
  <2>3. workqueue_entry' = workqueue_entry /\ c \notin workqueue_entry
    BY <1>1 DEF task_vars, IInv, TaskPart, Pool!Outstanding
  <2>4. ~GiveToPool({c})
    BY <2>3 DEF GiveToPool
  <2> QED
    BY <2>1, <2>2, <2>4 DEF ProcessCreateCell, AssignOnionskin
<1>4. TaskPart' /\ TasksCounted'
  BY <1>1, <1>2, TaskFrame DEF IInv
<1>5. CircPart'
  <2>1. pool' = pool
    BY DEF task_vars
  <2>2. pending_close' \subseteq Circuit /\ p_chan' \subseteq Circuit
    BY <1>2, <1>3 DEF IInv, CircPart, QueuePart, Entries
  <2>3. \A d \in p_chan' \cup pending_close' : magic'[d] = "OR_CIRCUIT_MAGIC"
    BY <1>2, <1>3, <2>2 DEF IInv, CircPart
  <2>4. \A d \in onionqueue_entry' : /\ magic'[d] = "OR_CIRCUIT_MAGIC"
                                     /\ state'[d] = "ONIONSKIN_PENDING"
                                     /\ pool'[d] = "fresh"
    <3>1. \A d \in onionqueue_entry : d \in Circuit
      BY DEF IInv, QueuePart, Entries
    <3> QED
      BY <1>1, <1>2, <1>3, <2>1, <3>1 DEF IInv, CircPart
  <2> QED
    BY <1>2, <2>2, <2>3, <2>4 DEF CircPart
<1> QED
  BY <1>2, <1>3, <1>4, <1>5 DEF IInv

\* ProcessCreateCell for a circuit whose onionskin goes to the pool.
LEMMA InvCreateTask ==
    ASSUME IInv, NEW c \in Circuit, ProcessCreateCell(c), GiveToPool({c}),
           total_pending_tasks' = total_pending_tasks + 1,
           UNCHANGED <<queue_vars, pending_close>>,
           state' = [state EXCEPT ![c] = "ONIONSKIN_PENDING"]
    PROVE  IInv'
<1>1. /\ magic[c] = "none" /\ pool[c] = "fresh" /\ c \notin p_chan \cup pending_close
      /\ c \notin onionqueue_entry
  BY DEF ProcessCreateCell, IInv, CircPart, TaskPart
<1>2. /\ magic' \in [Circuit -> {"none", "OR_CIRCUIT_MAGIC", "DEAD_CIRCUIT_MAGIC", "freed"}]
      /\ magic'[c] = "OR_CIRCUIT_MAGIC" /\ \A d \in Circuit : d # c => magic'[d] = magic[d]
      /\ p_chan' = p_chan \cup {c} /\ UNCHANGED max_pending_tasks
      /\ state' \in [Circuit -> {"none", "ONIONSKIN_PENDING", "OPEN"}]
      /\ state'[c] = "ONIONSKIN_PENDING" /\ \A d \in Circuit : d # c => state'[d] = state[d]
      /\ \A d \in Circuit : d # c => pool'[d] = pool[d]
  BY DEF ProcessCreateCell, GiveToPool, IInv, CircPart
<1>3. QueuePart' /\ UNCHANGED <<onionqueue_entry, pending_close>>
  BY DEF queue_vars, IInv, QueuePart
<1>4. /\ pool' \in [Circuit -> Pool!Status]
      /\ workqueue_entry' = Pool!Outstanding' /\ TasksCounted'
      /\ Pool!Outstanding' = Pool!Outstanding \cup {c}
  <2>1. Cardinality({c}) = 1 /\ Cardinality({}) = 0
    BY FS_Singleton, FS_EmptySet
  <2>2. TaskPart /\ TasksCounted /\ total_pending_tasks \in Nat
    BY OutstandingFinite DEF IInv
  <2>3. /\ pool' = [d \in Circuit |-> IF d \in {} THEN "replied"
                                      ELSE IF d \in {c} THEN "queued" ELSE pool[d]]
        /\ workqueue_entry' = (workqueue_entry \ {}) \cup {c}
    BY DEF GiveToPool
  <2>4. total_pending_tasks' = total_pending_tasks - Cardinality({}) + Cardinality({c})
    BY <2>1, <2>2
  <2>5. {c} \in SUBSET Circuit /\ {} \in SUBSET Pool!Outstanding /\ \A d \in {c} : pool[d] = "fresh"
    BY <1>1
  <2> QED
    BY <2>2, <2>3, <2>4, <2>5, TasksGiven
<1>5. TaskPart'
  <2>1. c \in Pool!Outstanding' /\ Pool!Outstanding \subseteq Circuit
    BY <1>4 DEF Pool!Outstanding
  <2>2. TaskPart
    BY DEF IInv
  <2> QED
    BY <1>1, <1>2, <1>4, <2>1, <2>2 DEF TaskPart
<1>6. CircPart'
  <2>1. \A d \in onionqueue_entry : d \in Circuit
    BY DEF IInv, QueuePart, Entries
  <2> QED
    BY <1>1, <1>2, <1>3, <2>1 DEF IInv, CircPart
<1> QED
  BY <1>2, <1>3, <1>4, <1>5, <1>6 DEF IInv

\* command_process_create_cell
LEMMA InvCreate ==
    ASSUME IInv, NEW c \in Circuit, ProcessCreateCell(c)
    PROVE  IInv'
BY InvCreateOther, InvCreateTask DEF ProcessCreateCell, AssignOnionskin

\* ThreadTakes and ThreadAnswers move a task on inside the pool.
LEMMA InvThread ==
    ASSUME IInv, NEW c \in Circuit, ThreadTakes(c) \/ ThreadAnswers(c)
    PROVE  IInv'
<1>1. /\ UNCHANGED <<circ_vars, queue_vars, workqueue_entry, total_pending_tasks,
                     max_pending_tasks>>
      /\ pool[c] \in {"queued", "running"} /\ pool'[c] \in {"running", "answered"}
      /\ \A d \in Circuit : d # c => pool'[d] = pool[d]
      /\ pool' \in [Circuit -> Pool!Status]
  BY DEF ThreadTakes, ThreadAnswers, IInv, TaskPart, Pool!Status
<1>2. Pool!Outstanding' = Pool!Outstanding
  BY <1>1 DEF Pool!Outstanding
<1>3. QueuePart' /\ TasksCounted'
  BY <1>1, <1>2 DEF IInv, QueuePart, TasksCounted, queue_vars
<1>4. CircPart'
  BY <1>1 DEF IInv, CircPart, circ_vars, queue_vars, QueuePart, Entries
<1>5. TaskPart'
  BY <1>1, <1>2 DEF IInv, TaskPart, circ_vars
<1> QED
  BY <1>1, <1>3, <1>4, <1>5 DEF IInv

\* What queue_pending_tasks takes from the queue: circuits that wait there.
LEMMA InvReply ==
    ASSUME IInv, NEW c \in Circuit, HandshakeReply(c)
    PROVE  IInv'
<1> DEFINE room == max_pending_tasks - (total_pending_tasks - 1)
           out == {ol_list[i] : i \in Leaving(room)}
           assigned == out \cap p_chan
<1>1. /\ pool[c] = "answered" /\ ReplyForCircuit(c) /\ UpdateQueue(out, <<>>)
      /\ pool' = [d \in Circuit |-> IF d \in {c} THEN "replied"
                                    ELSE IF d \in assigned THEN "queued" ELSE pool[d]]
      /\ workqueue_entry' = (workqueue_entry \ {c}) \cup assigned
      /\ total_pending_tasks' = total_pending_tasks - 1 + Cardinality(assigned)
      /\ UNCHANGED <<p_chan, max_pending_tasks>>
  BY DEF HandshakeReply
<1>2. out \subseteq onionqueue_entry
  BY DEF Leaving, IInv, QueuePart, Entries
<1> HIDE DEF out
<1>3. \A d \in assigned : /\ d \in Circuit /\ d # c /\ pool[d] = "fresh"
                          /\ magic[d] = "OR_CIRCUIT_MAGIC" /\ state[d] = "ONIONSKIN_PENDING"
  BY <1>1, <1>2 DEF IInv, CircPart
<1>4. QueuePart' /\ onionqueue_entry' = onionqueue_entry \ out
  BY <1>1, QueueShrinks DEF IInv
<1> HIDE DEF assigned
<1>5. /\ pool' \in [Circuit -> Pool!Status]
      /\ workqueue_entry' = Pool!Outstanding' /\ TasksCounted'
      /\ Pool!Outstanding' = (Pool!Outstanding \ {c}) \cup assigned
  <2>1. Cardinality({c}) = 1
    BY FS_Singleton
  <2>2. {c} \in SUBSET Pool!Outstanding /\ assigned \in SUBSET Circuit
    BY <1>1, <1>3 DEF Pool!Outstanding
  <2>3. total_pending_tasks' = total_pending_tasks - Cardinality({c}) + Cardinality(assigned)
    BY <1>1, <2>1
  <2> QED
    BY <1>1, <1>3, <2>2, <2>3, TasksGiven DEF IInv
<1>6. /\ magic' \in [Circuit -> {"none", "OR_CIRCUIT_MAGIC", "DEAD_CIRCUIT_MAGIC", "freed"}]
      /\ state' \in [Circuit -> {"none", "ONIONSKIN_PENDING", "OPEN"}]
      /\ \A d \in Circuit : d # c => magic'[d] = magic[d] /\ state'[d] = state[d]
      /\ magic'[c] \in {"OR_CIRCUIT_MAGIC", "freed"}
      /\ magic[c] = "OR_CIRCUIT_MAGIC" => magic'[c] = "OR_CIRCUIT_MAGIC"
      /\ pending_close' \subseteq pending_close \cup {c}
      /\ c \in pending_close' => magic'[c] = "OR_CIRCUIT_MAGIC"
  BY <1>1 DEF ReplyForCircuit, IInv, CircPart
<1>7. CircPart'
  <2>1. c \notin onionqueue_entry
    BY <1>1 DEF IInv, CircPart
  <2>2. onionqueue_entry' \cap assigned = {}
    BY <1>4 DEF assigned
  <2>3. \A d \in onionqueue_entry' : d \in Circuit /\ d # c /\ pool'[d] = pool[d]
    <3>1. \A d \in onionqueue_entry : d \in Circuit
      BY DEF IInv, QueuePart, Entries
    <3> QED
      BY <1>1, <1>4, <2>1, <2>2, <3>1
  <2>4. pending_close' \subseteq Circuit /\ p_chan' \subseteq Circuit
    BY <1>1, <1>6 DEF IInv, CircPart
  <2> QED
    BY <1>1, <1>4, <1>6, <2>3, <2>4 DEF IInv, CircPart
<1>8. TaskPart'
  <2>1. \A d \in Circuit : /\ d \in assigned => pool'[d] = "queued"
                           /\ d # c /\ d \notin assigned => pool'[d] = pool[d]
    BY <1>1, <1>3
  <2>2. TaskPart
    BY DEF IInv
  <2>3. ASSUME NEW d \in Circuit
        PROVE  /\ magic'[d] = "none" => pool'[d] = "fresh"
               /\ d \in Pool!Outstanding' =>
                    /\ magic'[d] \in {"OR_CIRCUIT_MAGIC", "DEAD_CIRCUIT_MAGIC"}
                    /\ state'[d] = "ONIONSKIN_PENDING"
               /\ magic'[d] = "DEAD_CIRCUIT_MAGIC" => pool'[d] \in {"running", "answered"}
    <3>1. CASE d = c
      BY <1>3, <1>5, <1>6, <3>1
    <3>2. CASE d \in assigned
      BY <1>3, <1>6, <2>1, <3>2
    <3>3. CASE d # c /\ d \notin assigned
      BY <1>5, <1>6, <2>1, <2>2, <3>3 DEF TaskPart
    <3> QED
      BY <3>1, <3>2, <3>3
  <2> QED
    BY <1>5, <2>3 DEF TaskPart
<1> QED
  BY <1>1, <1>4, <1>5, <1>7, <1>8 DEF IInv

\* circuit_close_all_marked
LEMMA InvCloseAllMarked ==
    ASSUME IInv, CloseAllMarked
    PROVE  IInv'
<1> DEFINE waiting == {c \in pending_close : state[c] = "ONIONSKIN_PENDING"}
           cancelled == {c \in waiting \cap workqueue_entry : pool[c] = "queued"}
<1>1. /\ UpdateQueue(waiting, <<>>)
      /\ pool' = [c \in Circuit |-> IF c \in cancelled THEN "cancelled" ELSE pool[c]]
      /\ total_pending_tasks' = total_pending_tasks - Cardinality(cancelled)
      /\ workqueue_entry' = workqueue_entry \ cancelled
      /\ p_chan' = p_chan \ pending_close
      /\ magic' = [c \in Circuit |-> IF c \notin pending_close THEN magic[c]
                                     ELSE IF c \in workqueue_entry' THEN "DEAD_CIRCUIT_MAGIC"
                                     ELSE "freed"]
      /\ pending_close' = {} /\ UNCHANGED <<state, max_pending_tasks>>
  BY DEF CloseAllMarked, CircuitAboutToFree, CancelHandshakes, CircuitFree
<1>2. QueuePart' /\ onionqueue_entry' = onionqueue_entry \ waiting
  <2> HIDE DEF waiting
  <2> QED
    BY <1>1, QueueShrinks DEF IInv
<1>3. /\ \A c \in pending_close \cap Pool!Outstanding : c \in waiting
      /\ \A c \in pending_close \cap onionqueue_entry : c \in waiting
      /\ \A c \in cancelled : c \in Circuit /\ c \in pending_close /\ c \in Pool!Outstanding
      /\ \A c \in waiting \cap workqueue_entry : pool[c] = "queued" => c \in cancelled
      /\ cancelled \subseteq waiting
  BY DEF IInv, CircPart, TaskPart, Pool!Outstanding
<1>4. \A c \in cancelled : pool[c] = "queued"
  OBVIOUS
<1> HIDE DEF waiting, cancelled
<1>5. Pool!Outstanding' = Pool!Outstanding \ cancelled
  BY <1>1, <1>3 DEF Pool!Outstanding
<1>6. TasksCounted' /\ workqueue_entry' = Pool!Outstanding' /\ pool' \in [Circuit -> Pool!Status]
  <2>1. /\ IsFiniteSet(Pool!Outstanding)
        /\ total_pending_tasks = Cardinality(Pool!Outstanding)
    BY OutstandingFinite DEF IInv
  <2> DEFINE O == Pool!Outstanding
  <2>2. /\ Cardinality(O) = Cardinality(O \ cancelled) + Cardinality(cancelled \cap O)
        /\ Cardinality(O \ cancelled) \in Nat /\ Cardinality(cancelled \cap O) \in Nat
    BY <2>1, SplitCardinality
  <2>3. cancelled \cap O = cancelled
    BY <1>3
  <2> HIDE DEF O
  <2>4. Pool!Outstanding' = O \ cancelled /\ total_pending_tasks = Cardinality(O)
    BY <1>5, <2>1 DEF O
  <2>5. total_pending_tasks' = Cardinality(Pool!Outstanding')
    <3>1. /\ Cardinality(cancelled \cap O) = Cardinality(cancelled)
          /\ Cardinality(Pool!Outstanding') = Cardinality(O \ cancelled)
      BY <2>3, <2>4
    <3> QED
      BY <1>1, <2>2, <2>4, <3>1
  <2>6. workqueue_entry' = Pool!Outstanding'
    BY <1>1, <1>5 DEF IInv, TaskPart
  <2>7. pool' \in [Circuit -> Pool!Status]
    BY <1>1 DEF IInv, TaskPart, Pool!Status
  <2> QED
    BY <2>5, <2>6, <2>7 DEF TasksCounted
<1>7. CircPart'
  <2>1. magic' \in [Circuit -> {"none", "OR_CIRCUIT_MAGIC", "DEAD_CIRCUIT_MAGIC", "freed"}]
    BY <1>1 DEF IInv, CircPart
  <2>2. \A c \in onionqueue_entry' : /\ c \in Circuit /\ c \in onionqueue_entry
                                     /\ c \notin pending_close /\ c \notin cancelled
    BY <1>2, <1>3 DEF IInv, QueuePart, Entries
  <2>3. \A c \in p_chan' : c \in p_chan /\ magic'[c] = magic[c]
    BY <1>1 DEF IInv, CircPart
  <2> QED
    BY <1>1, <2>1, <2>2, <2>3 DEF IInv, CircPart
<1>8. TaskPart'
  <2>1. TaskPart /\ \A c \in pending_close : magic[c] = "OR_CIRCUIT_MAGIC"
    BY DEF IInv, CircPart
  <2>2. ASSUME NEW d \in Circuit
        PROVE  /\ magic'[d] = "none" => pool'[d] = "fresh"
               /\ d \in Pool!Outstanding' =>
                    /\ magic'[d] \in {"OR_CIRCUIT_MAGIC", "DEAD_CIRCUIT_MAGIC"}
                    /\ state'[d] = "ONIONSKIN_PENDING"
               /\ magic'[d] = "DEAD_CIRCUIT_MAGIC" => pool'[d] \in {"running", "answered"}
    <3>1. CASE d \notin pending_close
      BY <1>1, <1>3, <1>5, <2>1, <3>1 DEF TaskPart
    <3>2. CASE d \in pending_close /\ d \in workqueue_entry'
      <4>1. d \in Pool!Outstanding /\ d \notin cancelled /\ d \in waiting
        BY <1>1, <1>3, <2>1, <3>2 DEF TaskPart
      <4>2. pool[d] \in {"running", "answered"}
        BY <1>3, <2>1, <4>1 DEF TaskPart, Pool!Outstanding
      <4> QED
        BY <1>1, <2>1, <3>2, <4>1, <4>2 DEF TaskPart
    <3>3. CASE d \in pending_close /\ d \notin workqueue_entry'
      BY <1>1, <1>6, <3>3
    <3> QED
      BY <3>1, <3>2, <3>3
  <2> QED
    BY <1>6, <2>2 DEF TaskPart
<1> QED
  BY <1>1, <1>2, <1>6, <1>7, <1>8 DEF IInv

\* The steps that change neither tasks nor entries: a circuit is marked for close or loses
\* its channel, time passes, the consensus sets another limit.
LEMMA InvOthers ==
    ASSUME IInv,
           \/ \E c \in Circuit : MarkForClose(c)
           \/ \E cs \in SUBSET Circuit : UnlinkFromChannel(cs)
           \/ TimePasses \/ ConsensusHasChanged \/ UNCHANGED vars
    PROVE  IInv'
<1>1. /\ UNCHANGED <<magic, state, onionqueue_entry, ol_list, ol_entries, task_vars>>
      /\ max_pending_tasks' \in MaxPending
      /\ p_chan' \subseteq p_chan
      /\ pending_close' \subseteq Circuit
      /\ \A c \in pending_close' : magic[c] = "OR_CIRCUIT_MAGIC"
      /\ n_elderly' \in 0..Len(ol_list)
  <2>1. CASE \E c \in Circuit : MarkForClose(c)
    BY <2>1 DEF MarkForClose, IInv, CircPart, QueuePart, queue_vars
  <2>2. CASE \E cs \in SUBSET Circuit : UnlinkFromChannel(cs)
    BY <2>2 DEF UnlinkFromChannel, IInv, CircPart, QueuePart, queue_vars
  <2>3. CASE TimePasses
    <3>1. n_elderly \in Nat /\ Len(ol_list) \in Nat
      BY DEF IInv, QueuePart
    <3> QED
      BY <2>3, <3>1 DEF TimePasses, IInv, CircPart, QueuePart, circ_vars
  <2>4. CASE ConsensusHasChanged
    BY <2>4 DEF ConsensusHasChanged, IInv, CircPart, QueuePart, circ_vars, queue_vars
  <2>5. CASE UNCHANGED vars
    BY <2>5 DEF vars, IInv, CircPart, QueuePart, circ_vars, queue_vars
  <2> QED
    BY <2>1, <2>2, <2>3, <2>4, <2>5
<1>2. QueuePart'
  BY <1>1 DEF IInv, QueuePart
<1>3. TaskPart' /\ TasksCounted'
  BY <1>1, TaskFrame DEF IInv
<1>4. CircPart'
  BY <1>1 DEF IInv, CircPart, task_vars
<1> QED
  BY <1>1, <1>2, <1>3, <1>4 DEF IInv

-----------------------------------------------------------------------------
(* Invariance, and what follows.                                           *)

LEMMA InvInit == Init => IInv
<1> SUFFICES ASSUME Init PROVE IInv
  OBVIOUS
<1>1. Pool!Outstanding = {}
  BY DEF Init, Pool!Init, Pool!Outstanding
<1>2. TasksCounted
  BY <1>1, FS_EmptySet DEF Init, TasksCounted
<1>3. QueuePart
  <2>1. <<>> \in Seq(Circuit) /\ Len(<<>>) = 0
    OBVIOUS
  <2> QED
    BY <2>1 DEF Init, QueuePart, Entries, Distinct
<1>4. CircPart
  BY DEF Init, CircPart
<1>5. TaskPart
  BY <1>1 DEF Init, TaskPart, Pool!Init, Pool!Status
<1> QED
  BY <1>2, <1>3, <1>4, <1>5 DEF Init, IInv

LEMMA InvNext == IInv /\ [Next]_vars => IInv'
BY InvCreate, InvThread, InvReply, InvCloseAllMarked, InvOthers DEF Next

\* The inductive invariant holds in every state the relay can reach.
THEOREM Invariance == Spec => []IInv
BY InvInit, InvNext, PTL DEF Spec

\* TasksCounted: total_pending_tasks is the number of tasks the pool holds, so neither the
\* reply function nor cpuworker_cancel_circ_handshake ever lowers it below zero.
THEOREM TasksAreCounted == Spec => []TasksCounted
<1>1. IInv => TasksCounted
  BY DEF IInv
<1> QED
  BY <1>1, Invariance, PTL

\* QueueCoherent: the onion queue, its count and the circuits' pointers into it agree, and
\* a circuit that waits there is in memory and has no task.
THEOREM QueueIsCoherent == Spec => []QueueCoherent
<1>1. ASSUME IInv PROVE QueueCoherent
  <2>1. QueuePart /\ CircPart /\ TaskPart /\ TasksCounted /\ max_pending_tasks \in MaxPending
    BY <1>1 DEF IInv
  <2>2. /\ IsFiniteSet(Entries(ol_list)) /\ Cardinality(Entries(ol_list)) = Len(ol_list)
        /\ Entries(ol_list) \subseteq Circuit
    <3>1. Entries(ol_list) \subseteq Circuit
      BY <2>1 DEF QueuePart, Entries
    <3> QED
      BY <2>1, <3>1, QueueCardinality DEF QueuePart
  <2>3. ol_entries \in 0..Cardinality(Circuit)
    <3>1. Cardinality(Entries(ol_list)) <= Cardinality(Circuit) /\ Cardinality(Circuit) \in Nat
      BY <2>2, ConstantsAssumption, FS_Subset, FS_CardinalityType
    <3>2. Len(ol_list) \in Nat /\ ol_entries = Len(ol_list)
      BY <2>1 DEF QueuePart
    <3> QED
      BY <2>2, <3>1, <3>2
  <2>4. total_pending_tasks \in 0..Cardinality(Circuit) /\ workqueue_entry \subseteq Circuit
    <3>1. /\ Pool!Outstanding \subseteq Circuit /\ total_pending_tasks \in Nat
          /\ total_pending_tasks = Cardinality(Pool!Outstanding)
      BY <2>1, OutstandingFinite
    <3>2. Cardinality(Pool!Outstanding) <= Cardinality(Circuit) /\ Cardinality(Circuit) \in Nat
      BY <3>1, ConstantsAssumption, FS_Subset, FS_CardinalityType
    <3> QED
      BY <2>1, <3>1, <3>2 DEF TaskPart
  <2>5. TypeOK
    BY <2>1, <2>2, <2>3, <2>4 DEF TypeOK, QueuePart, CircPart, TaskPart
  <2>6. {ol_list[i] : i \in 1..Len(ol_list)} = Entries(ol_list)
    BY DEF Entries
  <2> QED
    BY <2>1, <2>2, <2>5, <2>6 DEF QueueCoherent, QueuePart, CircPart
<1> QED
  BY <1>1, Invariance, PTL

\* TaskKeepsCircuit: circuit_free leaves the memory of a circuit with a task to the reply
\* function, and workqueue_entry never points to an entry that the pool has freed.
THEOREM TaskHasCircuit == Spec => []TaskKeepsCircuit
<1>1. ASSUME IInv PROVE TaskKeepsCircuit
  <2>1. TaskPart
    BY <1>1 DEF IInv
  <2>2. ASSUME NEW c \in Circuit
        PROVE  /\ c \in Pool!Outstanding => magic[c] \in {"OR_CIRCUIT_MAGIC", "DEAD_CIRCUIT_MAGIC"}
               /\ magic[c] = "DEAD_CIRCUIT_MAGIC" => pool[c] \in {"running", "answered"}
               /\ magic[c] = "OR_CIRCUIT_MAGIC"
                    => (c \in workqueue_entry <=> c \in Pool!Outstanding)
    BY <2>1 DEF TaskPart
  <2> QED
    BY <2>2 DEF TaskKeepsCircuit
<1> QED
  BY <1>1, Invariance, PTL

\* Every step moves a circuit's task along one of WorkPool's steps, or not at all.
LEMMA PoolStep == IInv /\ [Next]_vars => [Pool!Next]_pool
<1> SUFFICES ASSUME IInv, [Next]_vars PROVE [Pool!Next]_pool
  OBVIOUS
<1>1. pool' \in [Circuit -> Pool!Status]
  BY InvNext DEF IInv, TaskPart
<1>2. ASSUME NEW c \in Circuit, ProcessCreateCell(c) PROVE [Pool!Next]_pool
  <2>1. pool[c] = "fresh"
    BY <1>2 DEF ProcessCreateCell, IInv, TaskPart
  <2>2. pool' = pool \/ pool' = [d \in Circuit |-> IF d \in {c} THEN "queued" ELSE pool[d]]
    BY <1>2 DEF ProcessCreateCell, AssignOnionskin, GiveToPool, task_vars
  <2> QED
    BY <1>1, <2>1, <2>2 DEF Pool!Next, Pool!Step
<1>3. ASSUME NEW c \in Circuit, ThreadTakes(c) \/ ThreadAnswers(c) PROVE [Pool!Next]_pool
  <2>1. \/ pool[c] = "queued" /\ pool'[c] = "running"
        \/ pool[c] = "running" /\ pool'[c] = "answered"
    BY <1>3 DEF ThreadTakes, ThreadAnswers, IInv, TaskPart
  <2>2. \A d \in Circuit : d # c => pool'[d] = pool[d]
    BY <1>3 DEF ThreadTakes, ThreadAnswers, IInv, TaskPart
  <2> QED
    BY <1>1, <2>1, <2>2 DEF Pool!Next, Pool!Step
<1>4. ASSUME NEW c \in Circuit, HandshakeReply(c) PROVE [Pool!Next]_pool
  <2> DEFINE out == {ol_list[i] : i \in Leaving(max_pending_tasks - (total_pending_tasks - 1))}
  <2>1. /\ pool[c] = "answered"
        /\ pool' = [d \in Circuit |-> IF d = c THEN "replied"
                                      ELSE IF d \in out \cap p_chan THEN "queued" ELSE pool[d]]
    BY <1>4 DEF HandshakeReply
  <2>2. \A d \in out : pool[d] = "fresh"
    BY DEF Leaving, IInv, QueuePart, Entries, CircPart
  <2> HIDE DEF out
  <2> QED
    BY <1>1, <2>1, <2>2 DEF Pool!Next, Pool!Step
<1>5. CASE CloseAllMarked
  <2>1. PICK cs : /\ \A c \in cs : pool[c] = "queued"
                  /\ pool' = [c \in Circuit |-> IF c \in cs THEN "cancelled" ELSE pool[c]]
    <3> DEFINE waiting == {c \in pending_close : state[c] = "ONIONSKIN_PENDING"}
               cs == {c \in waiting \cap workqueue_entry : pool[c] = "queued"}
    <3>1. pool' = [c \in Circuit |-> IF c \in cs THEN "cancelled" ELSE pool[c]]
      BY <1>5 DEF CloseAllMarked, CircuitAboutToFree, CancelHandshakes
    <3> QED
      BY <3>1
  <2> QED
    BY <1>1, <2>1 DEF Pool!Next, Pool!Step
<1>6. CASE \/ \E c \in Circuit : MarkForClose(c)
           \/ \E cs \in SUBSET Circuit : UnlinkFromChannel(cs)
           \/ TimePasses \/ ConsensusHasChanged \/ UNCHANGED vars
  BY <1>6 DEF MarkForClose, UnlinkFromChannel, TimePasses, ConsensusHasChanged, vars, task_vars
<1> QED
  BY <1>2, <1>3, <1>4, <1>5, <1>6 DEF Next

\* PoolUsedAsPromised: the relay gives each circuit's task to the pool once and takes back
\* only a task that no thread has taken, which is what WorkPool asks of its user.
THEOREM PoolIsUsedAsPromised == Spec => PoolUsedAsPromised
<1>1. Init => Pool!Init
  BY DEF Init
<1> QED
  BY <1>1, PoolStep, Invariance, PTL DEF Spec, PoolUsedAsPromised, Pool!Spec

=============================================================================
