---------------------------- MODULE ConfluxProofs ----------------------------
(***************************************************************************)
(* Proofs about Conflux, for any set of legs, any windows, queue limit and *)
(* number of cells: the streams get the cells in the order they were sent, *)
(* two honest ends never disagree about a sequence number, and what a leg  *)
(* that is gone has cost is bounded.                                       *)
(***************************************************************************)
EXTENDS Conflux, SequenceTheorems, FunctionTheorems, FiniteSetTheorems,
        WellFoundedInduction, TLAPS

-----------------------------------------------------------------------------
(* The inductive invariant.                                                *)

Mux == {"DATA", "CTRL"}

\* A cell takes the count of a leg from x to y, at either end.
Steps(c, x, y) ==
    /\ c.cmd = "SWITCH" => c.rel >= 0 /\ y = x + c.rel
    /\ c.cmd \in Mux => y = x + 1 /\ c.nth = y
    /\ c.cmd \in {"SENDME", "LINKED_ACK"} => y = x

\* The cells of q, one after the other, take the count of a leg from r to t.  The numbers
\* in between are the witness f: what the sender had after each cell, and what the receiver
\* is going to have.
Numbering(q, r, t) ==
    \E f \in [0..Len(q) -> 0..t] :
      /\ f[0] = r /\ f[Len(q)] = t
      /\ \A i \in 1..Len(q) : Steps(q[i], f[i - 1], f[i])

\* No two multiplexed cells of q have the same number.
Distinct(q) ==
    \A i, j \in DOMAIN q : q[i].cmd \in Mux /\ q[j].cmd \in Mux /\ q[i].nth = q[j].nth => i = j

\* The sender: its current leg has the largest number, which is that of all cells sent;
\* without a current leg it has sent nothing or has closed the set.
SendPart(e) ==
    /\ curr_leg[e] = NoLeg => legs[e] = {} \/ sent[e] = 0
    /\ curr_leg[e] # NoLeg => curr_leg[e] \in legs[e] /\ last_seq_sent[e][curr_leg[e]] = sent[e]
    /\ \A l \in Leg : last_seq_sent[e][l] <= sent[e]

\* A leg in the direction from e: the cells on it tie the receiver's count to the sender's.
LegPart(e) ==
    \A l \in Leg : /\ Numbering(link[e][l], last_seq_recv[Peer(e)][l], last_seq_sent[e][l])
                   /\ Distinct(link[e][l])

\* A number of a cell from e is in one place: delivered, in the queue or on one leg.
PlacePart(e) ==
    LET p == Peer(e)
    IN  /\ \A l \in Leg : \A n \in Numbers(link[e][l]) :
             /\ last_seq_delivered[p] < n /\ n <= sent[e]
             /\ \A m \in ooo_q[p] : m.nth # n
             /\ \A k \in Leg : k # l => n \notin Numbers(link[e][k])
        /\ \A m \in ooo_q[p] :
             m.seq = m.nth /\ last_seq_delivered[p] < m.seq /\ m.seq <= sent[e]

\* A number of a cell from e is in some place.
Accounted(e) ==
    LET p == Peer(e)
    IN  \A n \in (last_seq_delivered[p] + 1)..sent[e] :
          \/ \E m \in ooo_q[p] : m.nth = n
          \/ \E l \in Leg : n \in Numbers(link[e][l])
          \/ \E l \in Leg \ legs[p] : n = last_seq_recv[p][l]

\* The DATA cells of e in flight on a leg: on it, received and not acknowledged yet, or
\* acknowledged by a SENDME on its way.
FlowPart(e) ==
    LET p == Peer(e)
    IN  /\ \A l \in Leg : inflight[e][l] = Count(link[e][l], "DATA") + data_rcvd[p][l]
                                             + SendmeInc * Count(link[p][l], "SENDME")
        /\ legs[e] # {} => \A l \in Leg \ legs[e] : inflight[e][l] < SendmeInc

\* What the streams of e have got.
DeliverPart(e) ==
    /\ delivered[e] = [i \in 1..last_seq_delivered[e] |-> i]
    /\ last_seq_delivered[e] <= sent[Peer(e)]

DirectionInv(e) ==
    SendPart(e) /\ LegPart(e) /\ PlacePart(e) /\ Accounted(e) /\ FlowPart(e) /\ DeliverPart(e)

IInv == TypeOK /\ ~protocol_error /\ \A e \in End : DirectionInv(e)

-----------------------------------------------------------------------------
(* Queues of cells.                                                        *)

LEMMA AppendFacts ==
    ASSUME NEW q \in Seq(Cell), NEW c \in Cell
    PROVE  /\ Append(q, c) \in Seq(Cell) /\ Len(q) \in Nat
           /\ Len(Append(q, c)) = Len(q) + 1
           /\ DOMAIN q = 1..Len(q) /\ DOMAIN Append(q, c) = 1..(Len(q) + 1)
           /\ \A i \in 1..Len(q) : Append(q, c)[i] = q[i]
           /\ Append(q, c)[Len(q) + 1] = c
OBVIOUS

LEMMA TailFacts ==
    ASSUME NEW q \in Seq(Cell), q # <<>>
    PROVE  /\ Tail(q) \in Seq(Cell) /\ Len(q) \in Nat /\ Len(q) >= 1
           /\ Len(Tail(q)) = Len(q) - 1
           /\ DOMAIN q = 1..Len(q) /\ DOMAIN Tail(q) = 1..(Len(q) - 1)
           /\ \A i \in 1..(Len(q) - 1) : Tail(q)[i] = q[i + 1]
           /\ Head(q) = q[1] /\ Head(q) \in Cell
OBVIOUS

LEMMA NumberingAppend ==
    ASSUME NEW q \in Seq(Cell), NEW c \in Cell, NEW r, NEW t \in Nat, NEW u \in Nat,
           t <= u, Numbering(q, r, t), Steps(c, t, u)
    PROVE  Numbering(Append(q, c), r, u)
<1> DEFINE n == Len(q)
           a == Append(q, c)
<1>1. /\ n \in Nat /\ Len(a) = n + 1 /\ a[n + 1] = c /\ \A i \in 1..n : a[i] = q[i]
  BY AppendFacts
<1>2. PICK f \in [0..n -> 0..t] : /\ f[0] = r /\ f[n] = t
                                  /\ \A i \in 1..n : Steps(q[i], f[i - 1], f[i])
  BY DEF Numbering
<1> DEFINE g == [i \in 0..(n + 1) |-> IF i = n + 1 THEN u ELSE f[i]]
<1> HIDE DEF n, a
<1>3. g \in [0..(n + 1) -> 0..u]
  <2>1. ASSUME NEW i \in 0..(n + 1) PROVE (IF i = n + 1 THEN u ELSE f[i]) \in 0..u
    <3>1. CASE i = n + 1
      BY <3>1
    <3>2. CASE i # n + 1
      <4>1. i \in 0..n
        BY <1>1, <3>2
      <4>2. f[i] \in 0..t
        BY <4>1
      <4> QED
        BY <3>2, <4>2
    <3> QED
      BY <3>1, <3>2
  <2> QED
    BY <2>1
<1>4. g[0] = r /\ g[n + 1] = u /\ \A i \in 0..n : g[i] = f[i]
  BY <1>1, <1>2
<1> HIDE DEF g
<1>5. ASSUME NEW i \in 1..(n + 1) PROVE Steps(a[i], g[i - 1], g[i])
  <2>1. CASE i = n + 1
    <3>1. i - 1 = n /\ n \in 0..n
      BY <1>1, <2>1
    <3>2. g[i - 1] = t /\ g[i] = u /\ a[i] = c
      BY <1>1, <1>2, <1>4, <2>1, <3>1
    <3> QED
      BY <3>2
  <2>2. CASE i # n + 1
    <3>1. i \in 1..n /\ i - 1 \in 0..n /\ i \in 0..n
      BY <1>1, <2>2
    <3>2. g[i - 1] = f[i - 1] /\ g[i] = f[i] /\ a[i] = q[i]
      BY <1>1, <1>4, <3>1
    <3> QED
      BY <1>2, <3>1, <3>2
  <2> QED
    BY <2>1, <2>2
<1>6. \E h \in [0..Len(a) -> 0..u] :
         /\ h[0] = r /\ h[Len(a)] = u
         /\ \A i \in 1..Len(a) : Steps(a[i], h[i - 1], h[i])
  BY <1>1, <1>3, <1>4, <1>5
<1> QED
  BY <1>6 DEF Numbering, a

LEMMA NumberingTail ==
    ASSUME NEW q \in Seq(Cell), q # <<>>, NEW r, NEW t \in Nat, Numbering(q, r, t)
    PROVE  \E u \in 0..t : Steps(Head(q), r, u) /\ Numbering(Tail(q), u, t)
<1> DEFINE n == Len(q)
           a == Tail(q)
<1>1. /\ n \in Nat /\ n >= 1 /\ Len(a) = n - 1 /\ Head(q) = q[1]
      /\ \A i \in 1..(n - 1) : a[i] = q[i + 1]
  BY TailFacts
<1>2. PICK f \in [0..n -> 0..t] : /\ f[0] = r /\ f[n] = t
                                  /\ \A i \in 1..n : Steps(q[i], f[i - 1], f[i])
  BY DEF Numbering
<1> DEFINE g == [i \in 0..(n - 1) |-> f[i + 1]]
<1> HIDE DEF n, a
<1>3. \A i \in 0..(n - 1) : i + 1 \in 0..n
  BY <1>1
<1>4. g \in [0..(n - 1) -> 0..t] /\ \A i \in 0..(n - 1) : g[i] = f[i + 1]
  BY <1>3
<1>5. g[0] = f[1] /\ g[n - 1] = t /\ f[1] \in 0..t
  <2>1. 0 \in 0..(n - 1) /\ n - 1 \in 0..(n - 1) /\ (n - 1) + 1 = n /\ 0 + 1 = 1 /\ 1 \in 0..n
    BY <1>1
  <2> QED
    BY <1>2, <1>4, <2>1
<1> HIDE DEF g
<1>6. ASSUME NEW i \in 1..(n - 1) PROVE Steps(a[i], g[i - 1], g[i])
  <2>1. /\ i + 1 \in 1..n /\ i - 1 \in 0..(n - 1) /\ i \in 0..(n - 1)
        /\ (i - 1) + 1 = i /\ (i + 1) - 1 = i
    BY <1>1
  <2>2. g[i - 1] = f[i] /\ g[i] = f[i + 1] /\ a[i] = q[i + 1]
    BY <1>1, <1>4, <2>1
  <2>3. Steps(q[i + 1], f[i], f[i + 1])
    BY <1>2, <2>1
  <2> QED
    BY <2>2, <2>3
<1>7. Steps(q[1], f[0], f[1])
  <2>1. 1 \in 1..n /\ 1 - 1 = 0
    BY <1>1
  <2> QED
    BY <1>2, <2>1
<1>8. \E h \in [0..Len(a) -> 0..t] :
         /\ h[0] = f[1] /\ h[Len(a)] = t
         /\ \A i \in 1..Len(a) : Steps(a[i], h[i - 1], h[i])
  BY <1>1, <1>4, <1>5, <1>6
<1>9. Numbering(a, f[1], t)
  BY <1>8 DEF Numbering
<1> QED
  BY <1>1, <1>2, <1>5, <1>7, <1>9 DEF a

LEMMA NumbersAppend ==
    ASSUME NEW q \in Seq(Cell), NEW c \in Cell
    PROVE  /\ c.cmd \in Mux => Numbers(Append(q, c)) = Numbers(q) \cup {c.nth}
           /\ c.cmd \notin Mux => Numbers(Append(q, c)) = Numbers(q)
<1> DEFINE a == Append(q, c)
           n == Len(q)
<1>1. /\ n \in Nat /\ DOMAIN q = 1..n /\ DOMAIN a = 1..(n + 1)
      /\ \A i \in 1..n : a[i] = q[i]
      /\ a[n + 1] = c
  BY AppendFacts
<1>2. \A i : i \in 1..(n + 1) <=> i \in 1..n \/ i = n + 1
  BY <1>1
<1> HIDE DEF a, n
<1>3. \A x : x \in Numbers(q) <=> \E i \in 1..n : q[i].cmd \in Mux /\ x = q[i].nth
  BY <1>1 DEF Numbers, Mux
<1>4. \A x : x \in Numbers(a) <=> \E i \in 1..(n + 1) : a[i].cmd \in Mux /\ x = a[i].nth
  BY <1>1 DEF Numbers, Mux
<1>5. \A x : x \in Numbers(a) <=> x \in Numbers(q) \/ (c.cmd \in Mux /\ x = c.nth)
  BY <1>1, <1>2, <1>3, <1>4
<1> QED
  BY <1>5 DEF a

LEMMA NumbersTail ==
    ASSUME NEW q \in Seq(Cell), q # <<>>, Distinct(q)
    PROVE  /\ Distinct(Tail(q))
           /\ Head(q).cmd \in Mux => /\ Head(q).nth \in Numbers(q)
                                     /\ Numbers(Tail(q)) = Numbers(q) \ {Head(q).nth}
           /\ Head(q).cmd \notin Mux => Numbers(Tail(q)) = Numbers(q)
<1> DEFINE a == Tail(q)
           n == Len(q)
<1>1. /\ n \in Nat /\ n >= 1 /\ DOMAIN q = 1..n /\ DOMAIN a = 1..(n - 1)
      /\ \A i \in 1..(n - 1) : a[i] = q[i + 1]
      /\ Head(q) = q[1]
  BY TailFacts
<1> HIDE DEF a, n
<1>2. /\ \A i \in 1..(n - 1) : i + 1 \in 1..n /\ i + 1 # 1
      /\ \A i \in 1..n : i # 1 => i - 1 \in 1..(n - 1) /\ (i - 1) + 1 = i
      /\ 1 \in 1..n
      /\ \A i, j \in 1..(n - 1) : i + 1 = j + 1 => i = j
  BY <1>1
<1>3. \A x : x \in Numbers(q) <=> \E i \in 1..n : q[i].cmd \in Mux /\ x = q[i].nth
  BY <1>1 DEF Numbers, Mux
<1>4. \A x : x \in Numbers(a) <=> \E i \in 1..(n - 1) : a[i].cmd \in Mux /\ x = a[i].nth
  BY <1>1 DEF Numbers, Mux
<1>5. Distinct(a)
  <2>1. ASSUME NEW i \in 1..(n - 1), NEW j \in 1..(n - 1),
               a[i].cmd \in Mux, a[j].cmd \in Mux, a[i].nth = a[j].nth
        PROVE  i = j
    <3>1. a[i] = q[i + 1] /\ a[j] = q[j + 1] /\ i + 1 \in 1..n /\ j + 1 \in 1..n
      BY <1>1, <1>2
    <3>2. i + 1 = j + 1
      BY <1>1, <2>1, <3>1 DEF Distinct
    <3> QED
      BY <3>2
  <2> QED
    BY <1>1, <2>1 DEF Distinct
<1>6. ASSUME NEW x \in Numbers(a)
      PROVE  x \in Numbers(q) /\ (q[1].cmd \in Mux => x # q[1].nth)
  <2>1. PICK i \in 1..(n - 1) : a[i].cmd \in Mux /\ x = a[i].nth
    BY <1>4
  <2>2. /\ i + 1 \in 1..n /\ i + 1 # 1 /\ 1 \in 1..n
        /\ q[i + 1].cmd \in Mux /\ x = q[i + 1].nth
    BY <1>1, <1>2, <2>1
  <2> QED
    BY <1>1, <1>3, <2>2 DEF Distinct
<1>7. ASSUME NEW x \in Numbers(q), ~(q[1].cmd \in Mux /\ x = q[1].nth)
      PROVE  x \in Numbers(a)
  <2>1. PICK i \in 1..n : q[i].cmd \in Mux /\ x = q[i].nth
    BY <1>3
  <2>2. i - 1 \in 1..(n - 1) /\ a[i - 1] = q[i]
    BY <1>1, <1>2, <1>7, <2>1
  <2> QED
    BY <1>4, <2>1, <2>2
<1>8. q[1].cmd \in Mux => q[1].nth \in Numbers(q)
  BY <1>2, <1>3
<1> QED
  BY <1>1, <1>5, <1>6, <1>7, <1>8 DEF a

LEMMA DistinctAppend ==
    ASSUME NEW q \in Seq(Cell), NEW c \in Cell, Distinct(q),
           c.cmd \in Mux => c.nth \notin Numbers(q)
    PROVE  Distinct(Append(q, c))
<1> DEFINE a == Append(q, c)
           n == Len(q)
<1>1. /\ n \in Nat /\ DOMAIN q = 1..n /\ DOMAIN a = 1..(n + 1)
      /\ \A i \in 1..n : a[i] = q[i]
      /\ a[n + 1] = c
  BY AppendFacts
<1>2. \A i : i \in 1..(n + 1) <=> i \in 1..n \/ i = n + 1
  BY <1>1
<1> HIDE DEF a, n
<1>3. \A i \in 1..n : q[i].cmd \in Mux => q[i].nth \in Numbers(q)
  BY <1>1 DEF Numbers, Mux
<1>4. \A i, j \in 1..n : q[i].cmd \in Mux /\ q[j].cmd \in Mux /\ q[i].nth = q[j].nth => i = j
  BY <1>1 DEF Distinct
<1>5. ASSUME NEW i \in 1..(n + 1), NEW j \in 1..(n + 1),
             a[i].cmd \in Mux, a[j].cmd \in Mux, a[i].nth = a[j].nth
      PROVE  i = j
  <2>1. CASE i \in 1..n /\ j \in 1..n
    BY <1>1, <1>4, <1>5, <2>1
  <2>2. CASE i = n + 1 /\ j = n + 1
    BY <2>2
  <2>3. CASE i \in 1..n /\ j = n + 1
    BY <1>1, <1>3, <1>5, <2>3
  <2>4. CASE i = n + 1 /\ j \in 1..n
    BY <1>1, <1>3, <1>5, <2>4
  <2> QED
    BY <1>2, <2>1, <2>2, <2>3, <2>4
<1>6. Distinct(a)
  BY <1>1, <1>5 DEF Distinct
<1> QED
  BY <1>6 DEF a

LEMMA CountType ==
    ASSUME NEW q \in Seq(Cell), NEW x
    PROVE  /\ IsFiniteSet({i \in DOMAIN q : q[i].cmd = x})
           /\ Count(q, x) \in Nat
<1>1. DOMAIN q = 1..Len(q) /\ Len(q) \in Nat
  OBVIOUS
<1>2. IsFiniteSet(1..Len(q))
  BY <1>1, FS_Interval
<1>3. {i \in DOMAIN q : q[i].cmd = x} \in SUBSET (1..Len(q))
  BY <1>1
<1>4. IsFiniteSet({i \in DOMAIN q : q[i].cmd = x})
  BY <1>2, <1>3, FS_Subset, Zenon
<1> QED
  BY <1>4, FS_CardinalityType DEF Count

LEMMA CountAppend ==
    ASSUME NEW q \in Seq(Cell), NEW c \in Cell, NEW x
    PROVE  Count(Append(q, c), x) = IF c.cmd = x THEN Count(q, x) + 1 ELSE Count(q, x)
<1> DEFINE a == Append(q, c)
           n == Len(q)
           S == {i \in DOMAIN q : q[i].cmd = x}
           T == {i \in DOMAIN a : a[i].cmd = x}
<1>1. /\ n \in Nat /\ DOMAIN q = 1..n /\ DOMAIN a = 1..(n + 1)
      /\ \A i \in 1..n : a[i] = q[i]
      /\ a[n + 1] = c
  BY AppendFacts
<1>2. /\ \A i : i \in 1..(n + 1) <=> i \in 1..n \/ i = n + 1
      /\ n + 1 \notin 1..n
  BY <1>1
<1>3. IsFiniteSet(S)
  BY CountType
<1>4. Count(q, x) = Cardinality(S) /\ Count(a, x) = Cardinality(T)
  BY DEF Count
<1> HIDE DEF a, n
<1>5. CASE c.cmd = x
  <2>1. T = S \cup {n + 1} /\ n + 1 \notin S
    BY <1>1, <1>2, <1>5
  <2> HIDE DEF S, T
  <2>2. Cardinality(S \cup {n + 1}) = Cardinality(S) + 1
    BY <1>3, <2>1, FS_AddElement
  <2> QED
    BY <1>4, <1>5, <2>1, <2>2 DEF a
<1>6. CASE c.cmd # x
  <2>1. T = S
    BY <1>1, <1>2, <1>6
  <2> QED
    BY <1>4, <1>6, <2>1 DEF a
<1> QED
  BY <1>5, <1>6

LEMMA CountTail ==
    ASSUME NEW q \in Seq(Cell), q # <<>>, NEW x
    PROVE  Count(q, x) = IF Head(q).cmd = x THEN Count(Tail(q), x) + 1 ELSE Count(Tail(q), x)
<1> DEFINE a == Tail(q)
           n == Len(q)
           S == {i \in DOMAIN q : q[i].cmd = x}
           T == {i \in DOMAIN a : a[i].cmd = x}
           U == S \ {1}
           f == [i \in T |-> i + 1]
<1>1. /\ n \in Nat /\ n >= 1 /\ DOMAIN q = 1..n /\ DOMAIN a = 1..(n - 1)
      /\ \A i \in 1..(n - 1) : a[i] = q[i + 1]
      /\ Head(q) = q[1] /\ a \in Seq(Cell)
  BY TailFacts
<1>2. /\ IsFiniteSet(S) /\ IsFiniteSet(T)
      /\ Count(q, x) \in Nat /\ Count(a, x) \in Nat
      /\ Count(q, x) = Cardinality(S) /\ Count(a, x) = Cardinality(T)
  BY <1>1, CountType DEF Count
<1> HIDE DEF a, n
<1>3. /\ \A i \in T : i + 1 \in U
      /\ \A i, j \in T : i + 1 = j + 1 => i = j
      /\ \A j \in U : \E i \in T : i + 1 = j
  <2>1. \A i \in T : i + 1 \in U
    BY <1>1
  <2>2. \A i, j \in T : i + 1 = j + 1 => i = j
    BY <1>1
  <2>3. ASSUME NEW j \in U PROVE \E i \in T : i + 1 = j
    <3>1. j - 1 \in 1..(n - 1) /\ (j - 1) + 1 = j
      BY <1>1
    <3>2. j - 1 \in T
      BY <1>1, <3>1
    <3> QED
      BY <3>1, <3>2
  <2> QED
    BY <2>1, <2>2, <2>3
<1>4. 1 \in S <=> Head(q).cmd = x
  BY <1>1
<1> HIDE DEF S, T, U
<1>5. f \in Bijection(T, U)
  BY <1>3, Fun_IsBij
<1>6. Cardinality(U) = Cardinality(T)
  <2>1. ExistsBijection(T, U)
    BY <1>5 DEF ExistsBijection
  <2> QED
    BY <1>2, <2>1, FS_Bijection
<1>7. Cardinality(S \ {1}) = IF 1 \in S THEN Cardinality(S) - 1 ELSE Cardinality(S)
  BY <1>2, FS_RemoveElement
<1> QED
  BY <1>2, <1>4, <1>6, <1>7 DEF U, a

-----------------------------------------------------------------------------
(* The out-of-order queue.                                                 *)

\* A set of numbers has a least one.
LEMMA LeastNumber ==
    ASSUME NEW S \in SUBSET Nat, S # {}
    PROVE  \E x \in S : \A y \in S : x <= y
<1> DEFINE R == {ss \in Nat \X Nat : ss[1] < ss[2]}
<1>1. OpToRel(<, Nat) = R
  BY Zenon DEF OpToRel
<1>2. IsWellFoundedOn(R, Nat)
  BY <1>1, NatLessThanWellFounded, Zenon
<1> HIDE DEF R
<1>3. PICK x \in S : \A y \in S : ~(<<y, x>> \in R)
  BY <1>2, WFMin
<1>4. ASSUME NEW y \in S PROVE x <= y
  <2>1. y \in Nat /\ x \in Nat
    OBVIOUS
  <2>2. y < x => <<y, x>> \in R
    BY <2>1 DEF R
  <2> QED
    BY <1>3, <2>1, <2>2
<1> QED
  BY <1>4

\* What the loop over the queue hands out after number s: the numbers s+1, s+2 and so on
\* without a gap, in order; the first number missing stays missing.
LEMMA ReadyFacts ==
    ASSUME TypeOK, NEW e \in End, NEW s \in Nat, NEW b \in Nat,
           \A m \in ooo_q[e] : m.seq = m.nth /\ m.seq <= b
    PROVE  LET R == ReadyInQueue(e, s)
               k == Cardinality(R)
           IN  /\ k \in Nat
               /\ R \subseteq ooo_q[e]
               /\ \A m \in R : m.seq \in (s + 1)..(s + k)
               /\ \A j \in (s + 1)..(s + k) : \E m \in R : m.seq = j
               /\ \A m \in ooo_q[e] \ R : m.seq <= s \/ m.seq > s + k
               /\ \A j \in 0..k : InSeqOrder(R, s, j) = [i \in 1..j |-> s + i]
<1> DEFINE R == ReadyInQueue(e, s)
           Q == ooo_q[e]
           missing == {j \in Nat : j > s /\ \A m \in Q : m.seq # j}
<1>1. Q \subseteq [seq : Nat, nth : Nat] /\ \A m \in Q : m.seq \in Nat /\ m.nth \in Nat
  BY DEF TypeOK
<1>2. PICK u \in missing : \A j \in missing : u <= j
  <2>1. s + b + 1 \in missing
    BY <1>1
  <2>2. missing \in SUBSET Nat /\ missing # {}
    BY <2>1
  <2> HIDE DEF missing
  <2> QED
    BY <2>2, LeastNumber
<1> DEFINE k == u - (s + 1)
<1>3. u \in Nat /\ u > s /\ (\A m \in Q : m.seq # u) /\ k \in Nat /\ s + k = u - 1
  BY <1>2
<1>4. ASSUME NEW j \in (s + 1)..(s + k) PROVE \E m \in Q : m.seq = j
  <2>1. j \in Nat /\ j > s /\ j < u
    BY <1>3
  <2>2. j \notin missing
    BY <1>2, <1>3, <2>1
  <2> QED
    BY <2>1, <2>2
<1> HIDE DEF missing
<1>5. \A m : m \in R <=> m \in Q /\ m.seq \in (s + 1)..(s + k)
  <2>1. ASSUME NEW m \in R PROVE m \in Q /\ m.seq \in (s + 1)..(s + k)
    <3>1. /\ m \in Q /\ m.seq > s /\ m.seq \in Nat
          /\ \A j \in (s + 1)..m.seq : \E q \in Q : q.seq = j
      BY <1>1 DEF ReadyInQueue
    <3>2. u \notin (s + 1)..m.seq
      BY <1>3, <3>1
    <3> QED
      BY <1>3, <3>1, <3>2
  <2>2. ASSUME NEW m \in Q, m.seq \in (s + 1)..(s + k) PROVE m \in R
    <3>1. m.seq \in Nat /\ m.seq > s /\ m.seq <= s + k
      BY <1>1, <1>3, <2>2
    <3>2. \A j \in (s + 1)..m.seq : j \in (s + 1)..(s + k)
      BY <1>3, <3>1
    <3> QED
      BY <1>4, <3>1, <3>2 DEF ReadyInQueue
  <2> QED
    BY <2>1, <2>2
<1> HIDE DEF R
<1>6. \A m \in R : m = [seq |-> m.seq, nth |-> m.seq]
  BY <1>1, <1>5
<1>7. \A m1, m2 \in R : m1.seq = m2.seq => m1 = m2
  BY <1>6
<1> DEFINE f == [m \in R |-> m.seq - s]
<1>8. f \in Bijection(R, 1..k)
  <2>1. \A m \in R : m.seq - s \in 1..k
    <3>1. ASSUME NEW m \in R PROVE m.seq - s \in 1..k
      <4>1. m.seq \in (s + 1)..(s + k)
        BY <1>5
      <4> QED
        BY <1>3, <4>1
    <3> QED
      BY <3>1
  <2>2. \A m1, m2 \in R : m1.seq - s = m2.seq - s => m1 = m2
    <3>1. ASSUME NEW m1 \in R, NEW m2 \in R, m1.seq - s = m2.seq - s PROVE m1 = m2
      <4>1. m1.seq \in Nat /\ m2.seq \in Nat
        BY <1>1, <1>5
      <4>2. m1.seq = m2.seq
        BY <3>1, <4>1
      <4> QED
        BY <1>7, <4>2
    <3> QED
      BY <3>1
  <2>3. ASSUME NEW i \in 1..k PROVE \E m \in R : m.seq - s = i
    <3>1. s + i \in (s + 1)..(s + k)
      BY <1>3
    <3>2. PICK m \in Q : m.seq = s + i
      BY <1>4, <3>1
    <3>3. m \in R /\ m.seq - s = i
      BY <1>5, <3>1, <3>2
    <3> QED
      BY <3>3
  <2> HIDE DEF k
  <2> QED
    BY <2>1, <2>2, <2>3, Fun_IsBij
<1>9. Cardinality(R) = k
  <2>1. ExistsBijection(R, 1..k)
    BY <1>8 DEF ExistsBijection
  <2>2. ExistsBijection(1..k, R)
    BY <2>1, Fun_ExistsBijSymmetric
  <2> HIDE DEF k
  <2> QED
    BY <1>3, <2>2, FS_CountingElements
<1>10. ASSUME NEW i \in 1..k PROVE (CHOOSE m \in R : m.seq = s + i).nth = s + i
  <2>1. s + i \in (s + 1)..(s + k)
    BY <1>3
  <2>2. PICK m \in Q : m.seq = s + i
    BY <1>4, <2>1
  <2>3. m \in R
    BY <1>5, <2>1, <2>2
  <2> DEFINE c == CHOOSE x \in R : x.seq = s + i
  <2>4. c \in R /\ c.seq = s + i
    BY <2>2, <2>3
  <2> HIDE DEF c
  <2>5. c.nth = s + i
    BY <1>5, <2>4
  <2> QED
    BY <2>5 DEF c
<1>11. ASSUME NEW j \in 0..k PROVE InSeqOrder(R, s, j) = [i \in 1..j |-> s + i]
  <2>1. \A i \in 1..j : i \in 1..k
    BY <1>3
  <2> QED
    BY <1>10, <2>1 DEF InSeqOrder
<1>12. \A j \in (s + 1)..(s + k) : \E m \in R : m.seq = j
  BY <1>4, <1>5
<1>13. \A m \in Q \ R : m.seq <= s \/ m.seq > s + k
  BY <1>1, <1>3, <1>5
<1> HIDE DEF k
<1> QED
  BY <1>3, <1>5, <1>9, <1>11, <1>12, <1>13 DEF R

-----------------------------------------------------------------------------
(* What each part of the invariant depends on.                             *)

LEMMA Peers ==
    ASSUME NEW e \in End
    PROVE  Peer(e) \in End /\ Peer(Peer(e)) = e /\ Peer(e) # e
BY DEF End, Peer

LEMMA BothDirections ==
    ASSUME NEW e \in End, TypeOK', ~protocol_error', DirectionInv(e)', DirectionInv(Peer(e))'
    PROVE  IInv'
<1>1. \A f \in End : f = e \/ f = Peer(e)
  BY DEF End, Peer
<1> QED
  BY <1>1 DEF IInv

LEMMA FrameSend ==
    ASSUME NEW e \in End, SendPart(e), curr_leg'[e] = curr_leg[e], legs'[e] = legs[e],
           sent'[e] = sent[e], last_seq_sent'[e] = last_seq_sent[e]
    PROVE  SendPart(e)'
BY DEF SendPart

LEMMA FrameLeg ==
    ASSUME NEW e \in End, LegPart(e), link'[e] = link[e],
           last_seq_recv'[Peer(e)] = last_seq_recv[Peer(e)], last_seq_sent'[e] = last_seq_sent[e]
    PROVE  LegPart(e)'
BY DEF LegPart

LEMMA FramePlace ==
    ASSUME NEW e \in End, PlacePart(e),
           \A l \in Leg : Numbers(link'[e][l]) = Numbers(link[e][l]),
           last_seq_delivered'[Peer(e)] = last_seq_delivered[Peer(e)],
           sent'[e] = sent[e], ooo_q'[Peer(e)] = ooo_q[Peer(e)]
    PROVE  PlacePart(e)'
BY DEF PlacePart

\* Legs that are closed keep the number they had received.
LEMMA FrameAccounted ==
    ASSUME NEW e \in End, Accounted(e),
           \A l \in Leg : Numbers(link'[e][l]) = Numbers(link[e][l]),
           last_seq_delivered'[Peer(e)] = last_seq_delivered[Peer(e)],
           sent'[e] = sent[e], ooo_q'[Peer(e)] = ooo_q[Peer(e)],
           legs'[Peer(e)] \subseteq legs[Peer(e)],
           \A l \in Leg \ legs[Peer(e)] :
             last_seq_recv'[Peer(e)][l] = last_seq_recv[Peer(e)][l]
    PROVE  Accounted(e)'
BY DEF Accounted

LEMMA FrameFlow ==
    ASSUME NEW e \in End, FlowPart(e),
           \A l \in Leg : Count(link'[e][l], "DATA") = Count(link[e][l], "DATA"),
           \A l \in Leg : Count(link'[Peer(e)][l], "SENDME") = Count(link[Peer(e)][l], "SENDME"),
           inflight'[e] = inflight[e], data_rcvd'[Peer(e)] = data_rcvd[Peer(e)],
           legs'[e] # {} => \A l \in Leg \ legs'[e] : inflight[e][l] < SendmeInc
    PROVE  FlowPart(e)'
BY DEF FlowPart

LEMMA FrameDeliver ==
    ASSUME NEW e \in End, DeliverPart(e), delivered'[e] = delivered[e],
           last_seq_delivered'[e] = last_seq_delivered[e], sent[Peer(e)] \in Nat,
           sent'[Peer(e)] = sent[Peer(e)] \/ sent'[Peer(e)] = sent[Peer(e)] + 1,
           last_seq_delivered[e] \in Nat
    PROVE  DeliverPart(e)'
BY DEF DeliverPart

\* The types of an end and a leg.
LEMMA Types ==
    ASSUME IInv, NEW e \in End
    PROVE  /\ legs[e] \subseteq Leg /\ measured[e] \subseteq Leg
           /\ curr_leg[e] \in Leg \cup {NoLeg} /\ sent[e] \in Nat
           /\ last_seq_delivered[e] \in Nat /\ delivered[e] \in Seq(Nat)
           /\ ooo_q[e] \subseteq [seq : Nat, nth : Nat]
           /\ \A l \in Leg : /\ link[e][l] \in Seq(Cell)
                              /\ last_seq_sent[e][l] \in Nat /\ last_seq_recv[e][l] \in Nat
                              /\ inflight[e][l] \in 0..Cwnd
                              /\ data_rcvd[e][l] \in 0..(SendmeInc - 1)
           /\ DirectionInv(e) /\ DirectionInv(Peer(e))
           /\ TypeOK /\ ~protocol_error
<1>1. /\ DirectionInv(e) /\ DirectionInv(Peer(e)) /\ TypeOK /\ ~protocol_error
  BY Peers DEF IInv
<1>2. /\ legs[e] \subseteq Leg /\ measured[e] \subseteq Leg
      /\ curr_leg[e] \in Leg \cup {NoLeg} /\ sent[e] \in Nat
      /\ last_seq_delivered[e] \in Nat /\ delivered[e] \in Seq(Nat)
      /\ ooo_q[e] \subseteq [seq : Nat, nth : Nat]
  BY <1>1 DEF TypeOK
<1>3. ASSUME NEW l \in Leg
      PROVE  /\ link[e][l] \in Seq(Cell)
             /\ last_seq_sent[e][l] \in Nat /\ last_seq_recv[e][l] \in Nat
             /\ inflight[e][l] \in 0..Cwnd /\ data_rcvd[e][l] \in 0..(SendmeInc - 1)
  BY <1>1 DEF TypeOK
<1> QED
  BY <1>1, <1>2, <1>3

-----------------------------------------------------------------------------
(* Legs that close.                                                        *)

\* cfx_del_leg and conflux_mark_all_for_close: a set that goes on has its current leg, and
\* fewer than SendmeInc cells in flight on the legs it has lost.
LEMMA CloseFacts ==
    ASSUME IInv, NEW e \in End, NEW l \in legs[e], NEW recv, CloseLeg(e, l, recv),
           UNCHANGED <<sent, last_seq_sent>>
    PROVE  /\ legs' \in [End -> SUBSET Leg] /\ curr_leg' \in [End -> Leg \cup {NoLeg}]
           /\ broken' \subseteq Leg
           /\ legs'[e] \subseteq legs[e] /\ l \notin legs'[e]
           /\ legs'[Peer(e)] = legs[Peer(e)]
           /\ SendPart(e)' /\ SendPart(Peer(e))'
           /\ legs'[e] # {} => \A k \in Leg \ legs'[e] : inflight[e][k] < SendmeInc
<1> DEFINE ls == IF ClosesSet(e, l, recv) THEN legs[e] ELSE {l}
<1>1. /\ legs \in [End -> SUBSET Leg] /\ curr_leg \in [End -> Leg \cup {NoLeg}]
      /\ broken \subseteq Leg /\ ls \subseteq legs[e] /\ l \in ls /\ legs[e] \subseteq Leg
      /\ Peer(e) \in End /\ Peer(e) # e
  BY Peers DEF IInv, TypeOK
<1>2. /\ legs' = [legs EXCEPT ![e] = @ \ ls]
      /\ curr_leg' = [curr_leg EXCEPT ![e] = IF @ \in ls THEN NoLeg ELSE @]
      /\ broken' = broken \cup ls
  BY DEF CloseLeg, CloseLegs
<1>3. /\ ~ClosesSet(e, l, recv) => ls = {l} /\ curr_leg[e] # l /\ inflight[e][l] < SendmeInc
      /\ ClosesSet(e, l, recv) => ls = legs[e]
  <2>1. inflight[e][l] \in Nat /\ SendmeInc \in Nat
    BY <1>1, ConstantsAssumption DEF IInv, TypeOK
  <2>2. ~ClosesSet(e, l, recv) => ~(inflight[e][l] >= SendmeInc) /\ curr_leg[e] # l
    BY DEF ClosesSet
  <2> QED
    BY <2>1, <2>2
<1> HIDE DEF ls
<1>4. /\ legs' \in [End -> SUBSET Leg] /\ curr_leg' \in [End -> Leg \cup {NoLeg}]
      /\ broken' \subseteq Leg
      /\ legs'[e] = legs[e] \ ls /\ legs'[Peer(e)] = legs[Peer(e)]
      /\ curr_leg'[e] = IF curr_leg[e] \in ls THEN NoLeg ELSE curr_leg[e]
      /\ curr_leg'[Peer(e)] = curr_leg[Peer(e)]
  BY <1>1, <1>2
<1>5. SendPart(e) /\ SendPart(Peer(e)) /\ FlowPart(e)
  BY <1>1 DEF IInv, DirectionInv
<1>6. SendPart(Peer(e))'
  BY <1>1, <1>4, <1>5, FrameSend
<1>7. CASE ClosesSet(e, l, recv)
  <2>1. legs'[e] = {}
    BY <1>3, <1>4, <1>7
  <2>2. curr_leg'[e] = NoLeg
    BY <1>3, <1>4, <1>5, <1>7 DEF SendPart
  <2>3. SendPart(e)'
    BY <1>5, <2>1, <2>2 DEF SendPart
  <2> QED
    BY <1>1, <1>4, <1>6, <2>1, <2>3
<1>8. CASE ~ClosesSet(e, l, recv)
  <2>1. curr_leg'[e] = curr_leg[e] /\ legs'[e] = legs[e] \ {l}
    BY <1>3, <1>4, <1>8
  <2>2. SendPart(e)'
    BY <1>3, <1>5, <1>8, <2>1 DEF SendPart
  <2>3. \A k \in Leg \ legs'[e] : inflight[e][k] < SendmeInc
    BY <1>1, <1>3, <1>5, <1>8, <2>1 DEF FlowPart
  <2> QED
    BY <1>1, <1>4, <1>6, <2>1, <2>2, <2>3
<1> QED
  BY <1>7, <1>8

\* linked_circuit_closed
LEMMA InvLegCloses ==
    ASSUME IInv, NEW e \in End, NEW l \in Leg, LegCloses(e, l)
    PROVE  IInv'
<1> DEFINE p == Peer(e)
<1>1. /\ UNCHANGED <<measured, last_seq_sent, last_seq_recv, inflight, data_rcvd>>
      /\ UNCHANGED <<last_seq_delivered, ooo_q, link, sent, delivered, protocol_error>>
      /\ l \in legs[e] /\ CloseLeg(e, l, last_seq_recv)
      /\ p \in End /\ Peer(p) = e /\ p # e
  BY Peers DEF LegCloses, leg_state
<1>2. /\ legs' \in [End -> SUBSET Leg] /\ curr_leg' \in [End -> Leg \cup {NoLeg}]
      /\ broken' \subseteq Leg
      /\ legs'[e] \subseteq legs[e] /\ legs'[p] = legs[p]
      /\ SendPart(e)' /\ SendPart(p)'
      /\ legs'[e] # {} => \A k \in Leg \ legs'[e] : inflight[e][k] < SendmeInc
  BY <1>1, CloseFacts
<1>3. TypeOK' /\ ~protocol_error'
  BY <1>1, <1>2 DEF IInv, TypeOK
<1>4. /\ DirectionInv(e) /\ DirectionInv(p)
      /\ sent[e] \in Nat /\ sent[p] \in Nat
      /\ last_seq_delivered[e] \in Nat /\ last_seq_delivered[p] \in Nat
  BY <1>1, Types
<1>5. /\ LegPart(e)' /\ LegPart(p)' /\ PlacePart(e)' /\ PlacePart(p)'
      /\ DeliverPart(e)' /\ DeliverPart(p)'
  BY <1>1, <1>4, FrameLeg, FramePlace, FrameDeliver DEF DirectionInv
<1>6. Accounted(e)' /\ Accounted(p)'
  <2>1. Accounted(e)'
    BY <1>1, <1>2, <1>4, FrameAccounted DEF DirectionInv
  <2>2. Accounted(p)'
    BY <1>1, <1>2, <1>4, FrameAccounted DEF DirectionInv
  <2> QED
    BY <2>1, <2>2
<1>7. FlowPart(e)'
  BY <1>1, <1>2, <1>4, FrameFlow DEF DirectionInv
<1>8. FlowPart(p)'
  <2>1. legs'[p] # {} => \A k \in Leg \ legs'[p] : inflight[p][k] < SendmeInc
    BY <1>1, <1>2, <1>4 DEF DirectionInv, FlowPart
  <2> QED
    BY <1>1, <1>4, <2>1, FrameFlow DEF DirectionInv
<1> QED
  BY <1>2, <1>3, <1>5, <1>6, <1>7, <1>8, BothDirections DEF DirectionInv

\* A path fails: only the ends' view of it can change, later.
LEMMA InvLegFails ==
    ASSUME IInv, NEW l \in Leg, LegFails(l)
    PROVE  IInv'
<1>1. /\ UNCHANGED <<legs, curr_leg, measured, last_seq_sent, last_seq_recv, inflight, data_rcvd>>
      /\ UNCHANGED <<last_seq_delivered, ooo_q, link, sent, delivered, protocol_error>>
      /\ broken' \subseteq Leg
  BY DEF LegFails, leg_state, IInv, TypeOK
<1>2. TypeOK' /\ ~protocol_error'
  BY <1>1 DEF IInv, TypeOK
<1>3. ASSUME NEW e \in End PROVE DirectionInv(e)'
  <2>1. DirectionInv(e)
    BY DEF IInv
  <2>2. SendPart(e)' /\ LegPart(e)' /\ PlacePart(e)'
    BY <1>1, <2>1 DEF DirectionInv, SendPart, LegPart, PlacePart
  <2>3. Accounted(e)' /\ FlowPart(e)' /\ DeliverPart(e)'
    BY <1>1, <2>1 DEF DirectionInv, Accounted, FlowPart, DeliverPart
  <2> QED
    BY <2>2, <2>3 DEF DirectionInv
<1> QED
  BY <1>2, <1>3 DEF IInv

\* conflux_decide_next_circ: a first leg is only picked before anything is sent.
LEMMA InvPickLeg ==
    ASSUME IInv, NEW e \in End, PickLeg(e)
    PROVE  IInv'
<1> DEFINE p == Peer(e)
<1>1. PICK l \in FirstLegs(e) : curr_leg' = [curr_leg EXCEPT ![e] = l]
  BY DEF PickLeg
<1>2. /\ UNCHANGED <<legs, measured, last_seq_sent, last_seq_recv, inflight, data_rcvd>>
      /\ UNCHANGED <<last_seq_delivered, ooo_q, link, broken, sent, delivered, protocol_error>>
      /\ curr_leg[e] = NoLeg /\ p \in End /\ p # e
  BY Peers DEF PickLeg, leg_state
<1>3. /\ l \in legs[e] /\ legs[e] \subseteq Leg /\ l \in Leg /\ l # NoLeg
      /\ curr_leg'[e] = l /\ curr_leg'[p] = curr_leg[p]
  <2>1. curr_leg \in [End -> Leg \cup {NoLeg}] /\ legs[e] \subseteq Leg
    BY DEF IInv, TypeOK
  <2>2. l \in legs[e]
    BY <1>2 DEF FirstLegs
  <2> QED
    BY <1>1, <1>2, <2>1, <2>2, ConstantsAssumption
<1>4. TypeOK' /\ ~protocol_error'
  BY <1>1, <1>2, <1>3 DEF IInv, TypeOK
<1>5. SendPart(e)'
  <2>1. SendPart(e) /\ \A k \in Leg : last_seq_sent[e][k] \in Nat
    BY Types DEF DirectionInv
  <2>2. sent[e] = 0 /\ last_seq_sent[e][l] = 0
    BY <1>2, <1>3, <2>1 DEF SendPart
  <2> QED
    BY <1>2, <1>3, <2>1, <2>2 DEF SendPart
<1>6. SendPart(p)'
  BY <1>2, <1>3, Types, FrameSend DEF DirectionInv
<1>7. ASSUME NEW d \in End PROVE DirectionInv(d)'
  <2>1. DirectionInv(d)
    BY DEF IInv
  <2>2. SendPart(d)'
    BY <1>5, <1>6 DEF End, Peer
  <2>3. LegPart(d)' /\ PlacePart(d)'
    BY <1>2, <2>1 DEF DirectionInv, LegPart, PlacePart
  <2>4. Accounted(d)' /\ FlowPart(d)' /\ DeliverPart(d)'
    BY <1>2, <2>1 DEF DirectionInv, Accounted, FlowPart, DeliverPart
  <2> QED
    BY <2>2, <2>3, <2>4 DEF DirectionInv
<1> QED
  BY <1>4, <1>7 DEF IInv

\* A SWITCH or a cell that cannot be packaged: the set is closed, and what the new leg has
\* counted of the SWITCH is on it.
LEMMA InvSendFails ==
    ASSUME IInv, NEW e \in End, SendFails(e)
    PROVE  IInv'
<1> DEFINE p == Peer(e)
<1>1. /\ UNCHANGED <<measured, last_seq_recv, inflight, data_rcvd, last_seq_delivered>>
      /\ UNCHANGED <<ooo_q, sent, delivered, protocol_error>>
      /\ p \in End /\ Peer(p) = e /\ p # e
  BY Peers DEF SendFails
<1>2. /\ legs' \in [End -> SUBSET Leg] /\ curr_leg' \in [End -> Leg \cup {NoLeg}]
      /\ broken' \subseteq Leg /\ legs'[e] = {} /\ curr_leg'[e] = NoLeg
      /\ legs'[p] = legs[p] /\ curr_leg'[p] = curr_leg[p]
  <2>1. /\ legs' = [legs EXCEPT ![e] = @ \ legs[e]]
        /\ curr_leg' = [curr_leg EXCEPT ![e] = IF @ \in legs[e] THEN NoLeg ELSE @]
        /\ broken' = broken \cup legs[e]
    BY DEF SendFails, CloseLegs
  <2>2. /\ legs \in [End -> SUBSET Leg] /\ curr_leg \in [End -> Leg \cup {NoLeg}]
        /\ broken \subseteq Leg
    BY DEF IInv, TypeOK
  <2>3. curr_leg[e] = NoLeg \/ curr_leg[e] \in legs[e]
    BY Types DEF DirectionInv, SendPart
  <2> QED
    BY <1>1, <2>1, <2>2, <2>3
<1>3. /\ DirectionInv(e) /\ DirectionInv(p) /\ sent[e] \in Nat /\ sent[p] \in Nat
      /\ last_seq_delivered[e] \in Nat /\ last_seq_delivered[p] \in Nat
      /\ \A k \in Leg : link[e][k] \in Seq(Cell) /\ last_seq_sent[e][k] \in Nat
      /\ link \in [End -> [Leg -> Seq(Cell)]] /\ last_seq_sent \in [End -> [Leg -> Nat]]
  BY <1>1, Types DEF TypeOK
<1>4. /\ link' \in [End -> [Leg -> Seq(Cell)]] /\ last_seq_sent' \in [End -> [Leg -> Nat]]
      /\ link'[p] = link[p] /\ last_seq_sent'[p] = last_seq_sent[p]
      /\ \A k \in Leg :
           /\ last_seq_sent'[e][k] <= sent[e]
           /\ Numbering(link'[e][k], last_seq_recv[p][k], last_seq_sent'[e][k])
           /\ Distinct(link'[e][k]) /\ Numbers(link'[e][k]) = Numbers(link[e][k])
           /\ Count(link'[e][k], "DATA") = Count(link[e][k], "DATA")
           /\ Count(link'[e][k], "SENDME") = Count(link[e][k], "SENDME")
  <2>1. \A k \in Leg : /\ last_seq_sent[e][k] <= sent[e]
                        /\ Numbering(link[e][k], last_seq_recv[p][k], last_seq_sent[e][k])
                        /\ Distinct(link[e][k])
    BY <1>3 DEF DirectionInv, SendPart, LegPart
  <2>2. CASE UNCHANGED <<last_seq_sent, link>>
    BY <1>1, <1>3, <2>1, <2>2
  <2>3. CASE ~UNCHANGED <<last_seq_sent, link>>
    <3>1. PICK prev \in FirstLegs(e), new \in Fragile :
            LET t == last_seq_sent[e][new]
                n == last_seq_sent[e][prev]
            IN  /\ t <= n
                /\ link' = [link EXCEPT ![e][new] =
                              Append(@, [cmd |-> "SWITCH", nth |-> 0, rel |-> n - t])]
                /\ last_seq_sent' = [last_seq_sent EXCEPT ![e][new] = n]
      BY <2>3 DEF SendFails, SeqAfterSwitch
    <3> DEFINE t == last_seq_sent[e][new]
               n == last_seq_sent[e][prev]
               q == link[e][new]
               r == last_seq_recv[p][new]
               c == [cmd |-> "SWITCH", nth |-> 0, rel |-> n - t]
    <3>2. prev \in Leg /\ new \in Leg
      <4>1. legs[e] \subseteq Leg /\ curr_leg[e] \in Leg \cup {NoLeg}
        BY Types
      <4> QED
        BY <3>1, <4>1, ConstantsAssumption DEF FirstLegs
    <3>3. /\ t \in Nat /\ n \in Nat /\ t <= n /\ n <= sent[e] /\ q \in Seq(Cell)
          /\ Numbering(q, r, t) /\ Distinct(q)
      BY <1>3, <2>1, <3>1, <3>2
    <3>4. c \in Cell /\ c.cmd = "SWITCH" /\ c.cmd \notin Mux /\ Steps(c, t, n)
      <4>1. c \in Cell /\ c.cmd = "SWITCH" /\ c.rel = n - t
        BY <3>3 DEF Cell
      <4> QED
        BY <3>3, <4>1 DEF Steps, Mux
    <3>5. /\ link' = [link EXCEPT ![e][new] = Append(@, c)]
          /\ last_seq_sent' = [last_seq_sent EXCEPT ![e][new] = n]
      BY <3>1
    <3> HIDE DEF c, t, n, q, r
    <3>6. Append(q, c) \in Seq(Cell) /\ Numbering(Append(q, c), r, n)
      BY <3>3, <3>4, AppendFacts, NumberingAppend
    <3>7. Distinct(Append(q, c)) /\ Numbers(Append(q, c)) = Numbers(q)
      BY <3>3, <3>4, DistinctAppend, NumbersAppend
    <3>8. /\ Count(Append(q, c), "DATA") = Count(q, "DATA")
          /\ Count(Append(q, c), "SENDME") = Count(q, "SENDME")
      BY <3>3, <3>4, CountAppend
    <3>9. /\ link' \in [End -> [Leg -> Seq(Cell)]] /\ last_seq_sent' \in [End -> [Leg -> Nat]]
          /\ link'[p] = link[p] /\ last_seq_sent'[p] = last_seq_sent[p]
          /\ link'[e][new] = Append(q, c) /\ last_seq_sent'[e][new] = n
          /\ \A k \in Leg : k # new => /\ link'[e][k] = link[e][k]
                                       /\ last_seq_sent'[e][k] = last_seq_sent[e][k]
      BY <1>1, <1>3, <3>2, <3>3, <3>5, <3>6 DEF q
    <3> QED
      BY <2>1, <3>3, <3>6, <3>7, <3>8, <3>9 DEF q, r
  <2> QED
    BY <2>2, <2>3
<1>5. TypeOK' /\ ~protocol_error'
  BY <1>1, <1>2, <1>4 DEF IInv, TypeOK
<1>6. SendPart(e)' /\ SendPart(p)'
  <2>1. SendPart(e)'
    BY <1>1, <1>2, <1>4 DEF SendPart
  <2> QED
    BY <1>1, <1>2, <1>3, <1>4, <2>1, FrameSend DEF DirectionInv
<1>7. LegPart(e)' /\ LegPart(p)'
  <2>1. LegPart(e)'
    BY <1>1, <1>4 DEF LegPart
  <2> QED
    BY <1>1, <1>3, <1>4, <2>1, FrameLeg DEF DirectionInv
<1>8. PlacePart(e)' /\ PlacePart(p)' /\ DeliverPart(e)' /\ DeliverPart(p)'
  BY <1>1, <1>3, <1>4, FramePlace, FrameDeliver DEF DirectionInv
<1>9. Accounted(e)' /\ Accounted(p)'
  <2>1. Accounted(e)'
    BY <1>1, <1>2, <1>3, <1>4, FrameAccounted DEF DirectionInv
  <2>2. Accounted(p)'
    BY <1>1, <1>2, <1>3, <1>4, FrameAccounted DEF DirectionInv
  <2> QED
    BY <2>1, <2>2
<1>10. FlowPart(e)'
  BY <1>1, <1>2, <1>3, <1>4, FrameFlow DEF DirectionInv
<1>11. FlowPart(p)'
  <2>1. legs'[p] # {} => \A k \in Leg \ legs'[p] : inflight[p][k] < SendmeInc
    BY <1>1, <1>2, <1>3 DEF DirectionInv, FlowPart
  <2> QED
    BY <1>1, <1>3, <1>4, <2>1, FrameFlow DEF DirectionInv
<1> QED
  BY <1>1, <1>5, <1>6, <1>7, <1>8, <1>9, <1>10, <1>11, BothDirections DEF DirectionInv

-----------------------------------------------------------------------------
(* Cells that carry no number.                                             *)

\* The first cell of leg l on its way to e is taken off the leg.
LEMMA PopFacts ==
    ASSUME IInv, NEW e \in End, NEW l \in legs[e], link[Peer(e)][l] # <<>>,
           link' = [link EXCEPT ![Peer(e)][l] = Tail(@)]
    PROVE  /\ l \in Leg
           /\ link' \in [End -> [Leg -> Seq(Cell)]]
           /\ link'[e] = link[e]
           /\ link'[Peer(e)][l] = Tail(link[Peer(e)][l])
           /\ \A k \in Leg : k # l => link'[Peer(e)][k] = link[Peer(e)][k]
<1>1. /\ link \in [End -> [Leg -> Seq(Cell)]] /\ l \in Leg
      /\ Peer(e) \in End /\ Peer(e) # e
  BY Peers DEF IInv, TypeOK
<1>2. Tail(link[Peer(e)][l]) \in Seq(Cell)
  BY <1>1, TailFacts
<1>3. link' = [link EXCEPT ![Peer(e)] = [link[Peer(e)] EXCEPT ![l] = Tail(link[Peer(e)][l])]]
  BY <1>1
<1> QED
  BY <1>1, <1>2, <1>3

\* The counts of a leg after its first cell, c, has been taken off: if c has a number it is
\* the next one of the leg.
LEMMA NextCount ==
    ASSUME IInv, NEW e \in End, NEW l \in legs[e], link[Peer(e)][l] # <<>>
    PROVE  LET q == link[Peer(e)][l]
               c == Head(q)
               r == last_seq_recv[e][l]
           IN  /\ c \in Cell
               /\ c.cmd = "SWITCH" => r + c.rel \in Nat /\ Numbering(Tail(q), r + c.rel, last_seq_sent[Peer(e)][l])
               /\ c.cmd \in Mux => /\ c.nth = r + 1
                                   /\ Numbering(Tail(q), r + 1, last_seq_sent[Peer(e)][l])
               /\ c.cmd \in {"SENDME", "LINKED_ACK"} =>
                    Numbering(Tail(q), r, last_seq_sent[Peer(e)][l])
<1> DEFINE q == link[Peer(e)][l]
           c == Head(q)
           r == last_seq_recv[e][l]
           t == last_seq_sent[Peer(e)][l]
<1>1. /\ l \in Leg /\ Peer(e) \in End /\ Peer(Peer(e)) = e /\ q \in Seq(Cell)
      /\ r \in Nat /\ t \in Nat /\ LegPart(Peer(e))
  BY Types, Peers DEF DirectionInv
<1>2. Numbering(q, r, t) /\ c \in Cell
  BY <1>1, TailFacts DEF LegPart
<1> HIDE DEF q, c, r, t
<1>3. q # <<>> /\ c = Head(q)
  BY DEF q, c
<1>4. PICK u \in 0..t : Steps(c, r, u) /\ Numbering(Tail(q), u, t)
  BY <1>1, <1>2, <1>3, NumberingTail
<1>5. c.rel \in Int /\ u \in Nat
  BY <1>1, <1>2, <1>4 DEF Cell
<1>6. c.cmd = "SWITCH" => r + c.rel \in Nat /\ Numbering(Tail(q), r + c.rel, t)
  <2>1. c.cmd = "SWITCH" => u = r + c.rel
    BY <1>4 DEF Steps
  <2> QED
    BY <1>4, <1>5, <2>1
<1>7. c.cmd \in Mux => c.nth = r + 1 /\ Numbering(Tail(q), r + 1, t)
  <2>1. c.cmd \in Mux => u = r + 1 /\ c.nth = u
    BY <1>4 DEF Steps
  <2> QED
    BY <1>4, <2>1
<1>8. c.cmd \in {"SENDME", "LINKED_ACK"} => Numbering(Tail(q), r, t)
  <2>1. c.cmd \in {"SENDME", "LINKED_ACK"} => u = r
    BY <1>4 DEF Steps
  <2> QED
    BY <1>4, <2>1
<1> QED
  BY <1>2, <1>6, <1>7, <1>8 DEF q, c, r, t

\* A cell without a number moves no number: only the counts of its leg can change.
LEMMA PopUnnumbered ==
    ASSUME IInv, NEW e \in End, NEW l \in legs[e], link[Peer(e)][l] # <<>>,
           Head(link[Peer(e)][l]).cmd \in {"SWITCH", "SENDME", "LINKED_ACK"},
           link' = [link EXCEPT ![Peer(e)][l] = Tail(@)],
           last_seq_recv'[Peer(e)] = last_seq_recv[Peer(e)],
           \A k \in Leg : k # l => last_seq_recv'[e][k] = last_seq_recv[e][k],
           last_seq_recv'[e][l] = IF Head(link[Peer(e)][l]).cmd = "SWITCH"
                                  THEN last_seq_recv[e][l] + Head(link[Peer(e)][l]).rel
                                  ELSE last_seq_recv[e][l],
           UNCHANGED <<legs, curr_leg, last_seq_sent, last_seq_delivered, ooo_q, sent, delivered>>
    PROVE  /\ SendPart(e)' /\ LegPart(e)' /\ PlacePart(e)' /\ Accounted(e)' /\ DeliverPart(e)'
           /\ SendPart(Peer(e))' /\ LegPart(Peer(e))' /\ PlacePart(Peer(e))'
           /\ Accounted(Peer(e))' /\ DeliverPart(Peer(e))'
           /\ \A k \in Leg : Count(link'[Peer(e)][k], "DATA") = Count(link[Peer(e)][k], "DATA")
<1> DEFINE p == Peer(e)
           q == link[p][l]
           c == Head(q)
<1>1. /\ l \in Leg /\ link'[e] = link[e] /\ link'[p][l] = Tail(q)
      /\ \A k \in Leg : k # l => link'[p][k] = link[p][k]
      /\ p \in End /\ Peer(p) = e /\ p # e
  <2>1. /\ l \in Leg /\ link'[e] = link[e] /\ link'[p][l] = Tail(q)
        /\ \A k \in Leg : k # l => link'[p][k] = link[p][k]
    BY PopFacts
  <2> QED
    BY <2>1, Peers
<1>2. /\ DirectionInv(e) /\ DirectionInv(p) /\ q \in Seq(Cell)
      /\ sent[e] \in Nat /\ sent[p] \in Nat
      /\ last_seq_delivered[e] \in Nat /\ last_seq_delivered[p] \in Nat
  BY <1>1, Types
<1>3. /\ SendPart(e)' /\ SendPart(p)' /\ DeliverPart(e)' /\ DeliverPart(p)' /\ LegPart(e)'
  BY <1>1, <1>2, FrameSend, FrameDeliver, FrameLeg DEF DirectionInv
<1>4. c.cmd \notin Mux /\ c.cmd # "DATA" /\ q # <<>>
  BY DEF Mux
<1>5. Distinct(q) /\ LegPart(p)
  BY <1>1, <1>2 DEF DirectionInv, LegPart
<1>6. Distinct(Tail(q)) /\ Numbers(Tail(q)) = Numbers(q)
  BY <1>2, <1>4, <1>5, NumbersTail
<1>7. Numbering(Tail(q), last_seq_recv'[e][l], last_seq_sent[p][l])
  BY NextCount
<1>8. LegPart(p)'
  BY <1>1, <1>5, <1>6, <1>7 DEF LegPart
<1>9. \A k \in Leg : Numbers(link'[p][k]) = Numbers(link[p][k])
  BY <1>1, <1>6
<1>10. PlacePart(e)' /\ PlacePart(p)'
  BY <1>1, <1>2, <1>9, FramePlace DEF DirectionInv
<1>11. Accounted(e)'
  BY <1>1, <1>2, FrameAccounted DEF DirectionInv
<1>12. Accounted(p)'
  BY <1>1, <1>2, <1>9, FrameAccounted DEF DirectionInv
<1>13. \A k \in Leg : Count(link'[p][k], "DATA") = Count(link[p][k], "DATA")
  <2>1. Count(q, "DATA") = Count(Tail(q), "DATA")
    BY <1>2, <1>4, CountTail
  <2> QED
    BY <1>1, <2>1
<1> QED
  BY <1>3, <1>8, <1>10, <1>11, <1>12, <1>13

\* conflux_process_switch_command and conflux_process_linked_ack
LEMMA InvSwitchOrAck ==
    ASSUME IInv, NEW e \in End, NEW l \in Leg, ReceiveSwitch(e, l) \/ ReceiveLinkedAck(e, l)
    PROVE  IInv'
<1> DEFINE p == Peer(e)
           q == link[p][l]
           c == Head(q)
<1>1. /\ l \in legs[e] /\ q # <<>> /\ c.cmd \in {"SWITCH", "LINKED_ACK"}
      /\ link' = [link EXCEPT ![p][l] = Tail(@)]
      /\ UNCHANGED <<legs, curr_leg, last_seq_sent, inflight, data_rcvd>>
      /\ UNCHANGED <<last_seq_delivered, ooo_q, broken, sent, delivered, protocol_error>>
      /\ p \in End /\ Peer(p) = e /\ p # e
  BY Peers DEF ReceiveSwitch, ReceiveLinkedAck, Incoming, leg_state
<1>2. /\ last_seq_recv \in [End -> [Leg -> Nat]] /\ measured \in [End -> SUBSET Leg]
      /\ q \in Seq(Cell) /\ DirectionInv(e) /\ DirectionInv(p)
  <2>1. DirectionInv(e) /\ DirectionInv(p) /\ q \in Seq(Cell) /\ TypeOK
    BY <1>1, Types
  <2> HIDE DEF q
  <2> QED
    BY <2>1 DEF TypeOK
<1>3. /\ last_seq_recv' \in [End -> [Leg -> Nat]]
      /\ last_seq_recv'[p] = last_seq_recv[p]
      /\ \A k \in Leg : k # l => last_seq_recv'[e][k] = last_seq_recv[e][k]
      /\ last_seq_recv'[e][l] = IF c.cmd = "SWITCH" THEN last_seq_recv[e][l] + c.rel
                                ELSE last_seq_recv[e][l]
  <2>1. CASE ReceiveSwitch(e, l)
    <3>1. c.cmd = "SWITCH" /\ last_seq_recv[e][l] + c.rel \in Nat
      BY <1>1, <2>1, NextCount DEF ReceiveSwitch, Incoming
    <3>2. last_seq_recv' = [last_seq_recv EXCEPT ![e] =
             [last_seq_recv[e] EXCEPT ![l] = last_seq_recv[e][l] + c.rel]]
      BY <1>2, <2>1 DEF ReceiveSwitch, Switched
    <3> QED
      BY <1>1, <1>2, <3>1, <3>2
  <2>2. CASE ReceiveLinkedAck(e, l)
    <3>1. c.cmd = "LINKED_ACK" /\ last_seq_recv' = last_seq_recv
      BY <2>2 DEF ReceiveLinkedAck, Incoming, leg_state
    <3> QED
      BY <1>2, <3>1
  <2> QED
    BY <2>1, <2>2
<1>4. measured' \in [End -> SUBSET Leg]
  <2>1. measured' = measured \/ measured' = [measured EXCEPT ![e] = @ \cup {l}]
    BY DEF ReceiveSwitch, ReceiveLinkedAck
  <2> QED
    BY <1>2, <2>1
<1>5. link' \in [End -> [Leg -> Seq(Cell)]]
  BY <1>1, PopFacts
<1>6. TypeOK' /\ ~protocol_error'
  BY <1>1, <1>3, <1>4, <1>5 DEF IInv, TypeOK
<1>7. /\ SendPart(e)' /\ LegPart(e)' /\ PlacePart(e)' /\ Accounted(e)' /\ DeliverPart(e)'
      /\ SendPart(p)' /\ LegPart(p)' /\ PlacePart(p)' /\ Accounted(p)' /\ DeliverPart(p)'
      /\ \A k \in Leg : Count(link'[p][k], "DATA") = Count(link[p][k], "DATA")
  <2>1. c.cmd \in {"SWITCH", "SENDME", "LINKED_ACK"}
    BY <1>1
  <2> QED
    BY <1>1, <1>3, <2>1, PopUnnumbered
<1>8. /\ link'[e] = link[e] /\ link'[p][l] = Tail(q)
      /\ \A k \in Leg : k # l => link'[p][k] = link[p][k]
  BY <1>1, PopFacts
<1>9. \A k \in Leg : Count(link'[p][k], "SENDME") = Count(link[p][k], "SENDME")
  <2>1. Count(q, "SENDME") = Count(Tail(q), "SENDME")
    BY <1>1, <1>2, CountTail
  <2> QED
    BY <1>8, <2>1
<1>10. FlowPart(e)' /\ FlowPart(p)'
  <2>1. /\ legs'[e] # {} => \A k \in Leg \ legs'[e] : inflight[e][k] < SendmeInc
        /\ legs'[p] # {} => \A k \in Leg \ legs'[p] : inflight[p][k] < SendmeInc
    BY <1>1, <1>2 DEF DirectionInv, FlowPart
  <2>2. FlowPart(e)'
    BY <1>1, <1>2, <1>8, <1>9, <2>1, FrameFlow DEF DirectionInv
  <2>3. FlowPart(p)'
    BY <1>1, <1>2, <1>7, <1>8, <2>1, FrameFlow DEF DirectionInv
  <2> QED
    BY <2>2, <2>3
<1> QED
  BY <1>6, <1>7, <1>10, BothDirections DEF DirectionInv

\* A SENDME takes k cells out of flight.
LEMMA Acknowledged ==
    ASSUME NEW k \in Nat \ {0}, NEW max \in Nat, NEW d \in Nat, NEW y \in Nat, NEW w \in Nat,
           NEW x \in 0..max, x = d + y + k * (w + 1)
    PROVE  x - k = d + y + k * w /\ x - k \in 0..max /\ x - k < x
<1>1. k * (w + 1) = k * w + k /\ k * w \in Nat
  OBVIOUS
<1> DEFINE kw == k * w
<1> HIDE DEF kw
<1>2. x = d + y + (kw + k) /\ kw \in Nat
  BY <1>1 DEF kw
<1>3. x - k = d + y + kw /\ x - k \in 0..max /\ x - k < x
  BY <1>2
<1> QED
  BY <1>3 DEF kw

\* sendme_process_circuit_level
LEMMA InvReceiveSendme ==
    ASSUME IInv, NEW e \in End, NEW l \in Leg, ReceiveSendme(e, l)
    PROVE  IInv'
<1> DEFINE p == Peer(e)
           q == link[p][l]
           c == Head(q)
<1>1. /\ l \in legs[e] /\ q # <<>> /\ c.cmd = "SENDME"
      /\ link' = [link EXCEPT ![p][l] = Tail(@)]
      /\ inflight' = [inflight EXCEPT ![e][l] = @ - SendmeInc]
      /\ UNCHANGED <<legs, curr_leg, measured, last_seq_sent, last_seq_recv, data_rcvd>>
      /\ UNCHANGED <<last_seq_delivered, ooo_q, broken, sent, delivered, protocol_error>>
      /\ p \in End /\ Peer(p) = e /\ p # e
  BY Peers DEF ReceiveSendme, Incoming
<1>2. /\ SendPart(e)' /\ LegPart(e)' /\ PlacePart(e)' /\ Accounted(e)' /\ DeliverPart(e)'
      /\ SendPart(p)' /\ LegPart(p)' /\ PlacePart(p)' /\ Accounted(p)' /\ DeliverPart(p)'
      /\ \A k \in Leg : Count(link'[p][k], "DATA") = Count(link[p][k], "DATA")
  <2>1. c.cmd \in {"SWITCH", "SENDME", "LINKED_ACK"} /\ c.cmd # "SWITCH"
    BY <1>1
  <2> QED
    BY <1>1, <2>1, PopUnnumbered
<1>3. /\ link' \in [End -> [Leg -> Seq(Cell)]] /\ link'[e] = link[e] /\ link'[p][l] = Tail(q)
      /\ \A k \in Leg : k # l => link'[p][k] = link[p][k]
  BY <1>1, PopFacts
<1>4. /\ q \in Seq(Cell) /\ DirectionInv(e) /\ DirectionInv(p)
      /\ \A k \in Leg : link[e][k] \in Seq(Cell) /\ link[p][k] \in Seq(Cell)
      /\ inflight \in [End -> [Leg -> 0..Cwnd]]
      /\ data_rcvd \in [End -> [Leg -> 0..(SendmeInc - 1)]]
      /\ SendmeInc \in Nat \ {0} /\ Cwnd \in Nat
  <2>1. \A k \in Leg : link[e][k] \in Seq(Cell) /\ link[p][k] \in Seq(Cell)
    BY <1>1, Types
  <2>2. /\ inflight \in [End -> [Leg -> 0..Cwnd]]
        /\ data_rcvd \in [End -> [Leg -> 0..(SendmeInc - 1)]]
    BY DEF IInv, TypeOK
  <2>3. SendmeInc \in Nat \ {0} /\ Cwnd \in Nat
    BY ConstantsAssumption
  <2>4. DirectionInv(e) /\ DirectionInv(p)
    BY <1>1 DEF IInv
  <2> QED
    BY <2>1, <2>2, <2>3, <2>4
<1> DEFINE d == Count(link[e][l], "DATA")
           w == Count(Tail(q), "SENDME")
<1>5. /\ Count(q, "SENDME") = w + 1 /\ d \in Nat /\ w \in Nat /\ data_rcvd[p][l] \in Nat
      /\ inflight[e][l] = d + data_rcvd[p][l] + SendmeInc * Count(q, "SENDME")
      /\ inflight[e][l] \in 0..Cwnd
  <2>1. Tail(q) \in Seq(Cell)
    BY <1>1, <1>4, TailFacts
  <2>2. Count(q, "SENDME") = w + 1
    BY <1>1, <1>4, CountTail
  <2>3. d \in Nat /\ w \in Nat
    BY <1>4, <2>1, CountType
  <2>4. inflight[e][l] = d + data_rcvd[p][l] + SendmeInc * Count(q, "SENDME")
    BY <1>4 DEF DirectionInv, FlowPart
  <2>5. data_rcvd[p][l] \in Nat /\ inflight[e][l] \in 0..Cwnd
    BY <1>1, <1>4
  <2> QED
    BY <2>2, <2>3, <2>4, <2>5
<1>6. /\ inflight[e][l] - SendmeInc = d + data_rcvd[p][l] + SendmeInc * w
      /\ inflight[e][l] - SendmeInc \in 0..Cwnd
      /\ inflight[e][l] - SendmeInc < inflight[e][l]
  <2> DEFINE x == inflight[e][l]
             y == data_rcvd[p][l]
  <2>1. /\ SendmeInc \in Nat \ {0} /\ Cwnd \in Nat /\ d \in Nat /\ y \in Nat /\ w \in Nat
        /\ x \in 0..Cwnd /\ x = d + y + SendmeInc * (w + 1)
    BY <1>4, <1>5
  <2> HIDE DEF d, w, x, y
  <2>2. x - SendmeInc = d + y + SendmeInc * w /\ x - SendmeInc \in 0..Cwnd /\ x - SendmeInc < x
    BY <2>1, Acknowledged
  <2> QED
    BY <2>2 DEF x, y
<1>7. /\ inflight' \in [End -> [Leg -> 0..Cwnd]] /\ inflight'[p] = inflight[p]
      /\ inflight'[e][l] = inflight[e][l] - SendmeInc
      /\ \A k \in Leg : k # l => inflight'[e][k] = inflight[e][k]
  <2>1. inflight' = [inflight EXCEPT ![e] = [inflight[e] EXCEPT ![l] = inflight[e][l] - SendmeInc]]
    BY <1>1, <1>4
  <2> QED
    BY <1>1, <1>4, <1>6, <2>1
<1>8. TypeOK' /\ ~protocol_error'
  BY <1>1, <1>3, <1>7 DEF IInv, TypeOK
<1>9. FlowPart(e)'
  <2>1. ASSUME NEW k \in Leg
        PROVE  inflight'[e][k] = Count(link'[e][k], "DATA") + data_rcvd'[p][k]
                                   + SendmeInc * Count(link'[p][k], "SENDME")
    <3>1. CASE k = l
      BY <1>1, <1>3, <1>6, <1>7, <3>1
    <3>2. CASE k # l
      BY <1>1, <1>3, <1>4, <1>7, <3>2 DEF DirectionInv, FlowPart
    <3> QED
      BY <3>1, <3>2
  <2>2. \A k \in Leg \ legs'[e] : k # l
    BY <1>1
  <2>3. legs'[e] # {} => \A k \in Leg \ legs'[e] : inflight'[e][k] < SendmeInc
    BY <1>1, <1>4, <1>7, <2>2 DEF DirectionInv, FlowPart
  <2> QED
    BY <2>1, <2>3 DEF FlowPart
<1>10. FlowPart(p)'
  <2>1. legs'[p] # {} => \A k \in Leg \ legs'[p] : inflight[p][k] < SendmeInc
    BY <1>1, <1>4 DEF DirectionInv, FlowPart
  <2> QED
    BY <1>1, <1>2, <1>3, <1>4, <1>7, <2>1, FrameFlow DEF DirectionInv
<1> QED
  BY <1>2, <1>8, <1>9, <1>10, BothDirections DEF DirectionInv

-----------------------------------------------------------------------------
(* Sending a numbered cell.                                                *)

\* What conflux_decide_circ_for_send puts on the leg: the cells take its count to the number
\* of all cells sent, and one further.
LEMMA SentCells ==
    ASSUME NEW q \in Seq(Cell), NEW r, NEW t \in Nat, NEW n \in Nat, t <= n,
           Numbering(q, r, t), Distinct(q), \A x \in Numbers(q) : x <= n,
           NEW cmd \in Mux, NEW switch \in BOOLEAN, ~switch => t = n,
           NEW cells, cells = IF ~switch THEN <<[cmd |-> cmd, nth |-> n + 1, rel |-> 0]>>
                              ELSE <<[cmd |-> "SWITCH", nth |-> 0, rel |-> n - t],
                                     [cmd |-> cmd, nth |-> n + 1, rel |-> 0]>>
    PROVE  /\ q \o cells \in Seq(Cell)
           /\ Numbering(q \o cells, r, n + 1) /\ Distinct(q \o cells)
           /\ Numbers(q \o cells) = Numbers(q) \cup {n + 1}
           /\ Count(q \o cells, "DATA") = IF cmd = "DATA" THEN Count(q, "DATA") + 1
                                          ELSE Count(q, "DATA")
           /\ Count(q \o cells, "SENDME") = Count(q, "SENDME")
<1> DEFINE sw == [cmd |-> "SWITCH", nth |-> 0, rel |-> n - t]
           cell == [cmd |-> cmd, nth |-> n + 1, rel |-> 0]
           q1 == IF switch THEN Append(q, sw) ELSE q
<1>1. sw \in Cell /\ cell \in Cell
  BY DEF Cell, Mux
<1>2. q \o cells = Append(q1, cell)
  <2>1. CASE switch
    <3>1. q \o <<sw, cell>> = Append(Append(q, sw), cell)
      BY <1>1
    <3> QED
      BY <2>1, <3>1
  <2>2. CASE ~switch
    <3>1. q \o <<cell>> = Append(q, cell)
      BY <1>1
    <3> QED
      BY <2>2, <3>1
  <2> QED
    BY <2>1, <2>2
<1>3. /\ sw.cmd = "SWITCH" /\ sw.rel = n - t /\ sw.cmd \notin Mux
      /\ cell.cmd = cmd /\ cell.nth = n + 1
  BY DEF Mux
<1>4. Steps(sw, t, n) /\ Steps(cell, n, n + 1)
  BY <1>3 DEF Steps, Mux
<1> HIDE DEF sw, cell
<1>5. /\ q1 \in Seq(Cell) /\ Numbering(q1, r, n) /\ Distinct(q1) /\ Numbers(q1) = Numbers(q)
      /\ Count(q1, "DATA") = Count(q, "DATA") /\ Count(q1, "SENDME") = Count(q, "SENDME")
  <2>1. CASE switch
    <3>1. q1 = Append(q, sw)
      BY <2>1
    <3>2. Append(q, sw) \in Seq(Cell) /\ Numbering(Append(q, sw), r, n)
      BY <1>1, <1>4, AppendFacts, NumberingAppend
    <3>3. Distinct(Append(q, sw)) /\ Numbers(Append(q, sw)) = Numbers(q)
      BY <1>1, <1>3, DistinctAppend, NumbersAppend
    <3>4. /\ Count(Append(q, sw), "DATA") = Count(q, "DATA")
          /\ Count(Append(q, sw), "SENDME") = Count(q, "SENDME")
      BY <1>1, <1>3, CountAppend
    <3> QED
      BY <3>1, <3>2, <3>3, <3>4
  <2>2. CASE ~switch
    BY <2>2
  <2> QED
    BY <2>1, <2>2
<1> HIDE DEF q1
<1>6. n + 1 \notin Numbers(q1) /\ n + 1 \in Nat /\ n <= n + 1
  BY <1>5
<1>7. Append(q1, cell) \in Seq(Cell) /\ Numbering(Append(q1, cell), r, n + 1)
  BY <1>1, <1>4, <1>5, <1>6, AppendFacts, NumberingAppend
<1>8. Distinct(Append(q1, cell)) /\ Numbers(Append(q1, cell)) = Numbers(q) \cup {n + 1}
  BY <1>1, <1>3, <1>5, <1>6, DistinctAppend, NumbersAppend
<1>9. /\ Count(Append(q1, cell), "DATA") = IF cmd = "DATA" THEN Count(q1, "DATA") + 1
                                           ELSE Count(q1, "DATA")
      /\ Count(Append(q1, cell), "SENDME") = Count(q1, "SENDME")
  BY <1>1, <1>3, <1>5, CountAppend DEF Mux
<1> QED
  BY <1>2, <1>5, <1>7, <1>8, <1>9

\* relay_send_command_from_edge_
LEMMA InvSendCell ==
    ASSUME IInv, NEW e \in End, NEW cmd \in Command, SendCell(e, cmd)
    PROVE  IInv'
<1> DEFINE p == Peer(e)
           n == sent[e]
<1>1. /\ p \in End /\ Peer(p) = e /\ p # e /\ NoLeg \notin Leg /\ cmd \in Mux
      /\ SendmeInc \in Nat \ {0} /\ Cwnd \in Nat
  BY Peers, ConstantsAssumption DEF Mux
<1>2. /\ DirectionInv(e) /\ DirectionInv(p) /\ TypeOK /\ n \in Nat
      /\ legs[e] \subseteq Leg /\ legs[e] # {} /\ curr_leg[e] \in Leg \cup {NoLeg}
      /\ \A l \in Leg : /\ last_seq_sent[e][l] \in Nat /\ link[e][l] \in Seq(Cell)
                         /\ last_seq_sent[e][l] <= n
  BY Types DEF DirectionInv, SendPart, SendCell
<1>3. ASSUME NEW prev \in FirstLegs(e) PROVE prev \in legs[e] /\ last_seq_sent[e][prev] = n
  <2>1. CASE curr_leg[e] # NoLeg
    <3>1. prev = curr_leg[e]
      BY <1>3, <2>1 DEF FirstLegs
    <3> QED
      BY <1>2, <2>1, <3>1 DEF DirectionInv, SendPart
  <2>2. CASE curr_leg[e] = NoLeg
    <3>1. prev \in legs[e]
      BY <1>3, <2>2 DEF FirstLegs
    <3>2. n = 0 /\ last_seq_sent[e][prev] \in Nat /\ last_seq_sent[e][prev] <= n
      BY <1>2, <2>2, <3>1 DEF DirectionInv, SendPart
    <3> QED
      BY <3>1, <3>2
  <2> QED
    BY <2>1, <2>2
<1> DEFINE Puts(prev, new) ==
        LET rel   == last_seq_sent[e][prev] - last_seq_sent[e][new]
            base  == SeqAfterSwitch(e, prev, new)
            cell  == [cmd |-> cmd, nth |-> sent[e] + 1, rel |-> 0]
            cells == IF new = prev THEN <<cell>>
                     ELSE <<[cmd |-> "SWITCH", nth |-> 0, rel |-> rel], cell>>
        IN  IF rel < 0
            THEN /\ CloseLegs(e, legs[e])
                 /\ protocol_error' = TRUE
                 /\ UNCHANGED <<last_seq_sent, inflight, link, sent>>
            ELSE /\ curr_leg' = [curr_leg EXCEPT ![e] = new]
                 /\ last_seq_sent' = [last_seq_sent EXCEPT ![e][new] = base + 1]
                 /\ inflight' = IF cmd = "DATA" THEN [inflight EXCEPT ![e][new] = @ + 1]
                                ELSE inflight
                 /\ link' = [link EXCEPT ![e][new] = @ \o cells]
                 /\ sent' = [sent EXCEPT ![e] = @ + 1]
                 /\ UNCHANGED <<legs, broken, protocol_error>>
<1>4. PICK prev \in FirstLegs(e) :
        \E new \in ReadyToSend(e) \cup (IF cmd = "DATA" THEN {} ELSE {prev}) : Puts(prev, new)
  BY Zenon DEF SendCell
<1>5. PICK new \in ReadyToSend(e) \cup (IF cmd = "DATA" THEN {} ELSE {prev}) :
        Puts(prev, new)
  BY <1>4, Zenon
<1>6. prev \in legs[e] /\ prev \in Leg /\ last_seq_sent[e][prev] = n
  BY <1>2, <1>3
<1>7. /\ new \in legs[e] /\ (cmd = "DATA" => inflight[e][new] < Cwnd)
      /\ ~(last_seq_sent[e][prev] - last_seq_sent[e][new] < 0)
  <2>1. new \in legs[e] /\ (cmd = "DATA" => inflight[e][new] < Cwnd)
    BY <1>6 DEF ReadyToSend
  <2>2. new \in Leg /\ last_seq_sent[e][new] \in Nat /\ last_seq_sent[e][new] <= n
    BY <1>2, <2>1
  <2> QED
    BY <1>2, <1>6, <2>1, <2>2
<1> DEFINE t == last_seq_sent[e][new]
           q == link[e][new]
           cells == IF new = prev THEN <<[cmd |-> cmd, nth |-> n + 1, rel |-> 0]>>
                    ELSE <<[cmd |-> "SWITCH", nth |-> 0, rel |-> n - t],
                           [cmd |-> cmd, nth |-> n + 1, rel |-> 0]>>
           s == q \o cells
<1>8. /\ curr_leg' = [curr_leg EXCEPT ![e] = new]
      /\ last_seq_sent' = [last_seq_sent EXCEPT ![e][new] = n + 1]
      /\ inflight' = IF cmd = "DATA" THEN [inflight EXCEPT ![e][new] = @ + 1]
                     ELSE inflight
      /\ link' = [link EXCEPT ![e][new] = @ \o cells]
      /\ sent' = [sent EXCEPT ![e] = n + 1]
      /\ UNCHANGED <<legs, broken, protocol_error>>
  BY <1>5, <1>6, <1>7, Zenon DEF SeqAfterSwitch
<1>9. /\ UNCHANGED <<measured, last_seq_recv, last_seq_delivered, ooo_q, data_rcvd, delivered>>
      /\ UNCHANGED <<legs, broken, protocol_error>>
  BY <1>8 DEF SendCell
<1>10. /\ new \in Leg /\ t \in Nat /\ t <= n /\ q \in Seq(Cell)
       /\ Numbering(q, last_seq_recv[p][new], t) /\ Distinct(q)
       /\ \A x \in Numbers(q) : x <= n
       /\ new = prev => t = n
  BY <1>2, <1>6, <1>7 DEF DirectionInv, LegPart, PlacePart
<1>11. /\ s \in Seq(Cell)
       /\ Numbering(s, last_seq_recv[p][new], n + 1) /\ Distinct(s)
       /\ Numbers(s) = Numbers(q) \cup {n + 1}
       /\ Count(s, "DATA") = IF cmd = "DATA" THEN Count(q, "DATA") + 1 ELSE Count(q, "DATA")
       /\ Count(s, "SENDME") = Count(q, "SENDME")
  <2> DEFINE switch == new # prev
  <2>1. switch \in BOOLEAN
    OBVIOUS
  <2>2. ~switch => t = n
    BY <1>10
  <2>3. cells = IF ~switch THEN <<[cmd |-> cmd, nth |-> n + 1, rel |-> 0]>>
                   ELSE <<[cmd |-> "SWITCH", nth |-> 0, rel |-> n - t],
                          [cmd |-> cmd, nth |-> n + 1, rel |-> 0]>>
    BY Zenon
  <2> HIDE DEF switch, cells, q, t, n
  <2>4. /\ n \in Nat /\ cmd \in Mux /\ t \in Nat /\ t <= n /\ q \in Seq(Cell)
        /\ Numbering(q, last_seq_recv[p][new], t) /\ Distinct(q)
        /\ \A x \in Numbers(q) : x <= n
    BY <1>1, <1>2, <1>10
  <2>5. /\ q \o cells \in Seq(Cell)
        /\ Numbering(q \o cells, last_seq_recv[p][new], n + 1) /\ Distinct(q \o cells)
        /\ Numbers(q \o cells) = Numbers(q) \cup {n + 1}
        /\ Count(q \o cells, "DATA") = IF cmd = "DATA" THEN Count(q, "DATA") + 1
                                       ELSE Count(q, "DATA")
        /\ Count(q \o cells, "SENDME") = Count(q, "SENDME")
    <3> DEFINE r == last_seq_recv[p][new]
    <3>1. Numbering(q, r, t)
      BY <2>4
    <3> HIDE DEF r
    <3>2. Numbering(q \o cells, r, n + 1) /\ Distinct(q \o cells)
      BY <2>1, <2>2, <2>3, <2>4, <3>1, SentCells, SMTT(30)
    <3>3. /\ Numbers(q \o cells) = Numbers(q) \cup {n + 1}
          /\ Count(q \o cells, "DATA") = IF cmd = "DATA" THEN Count(q, "DATA") + 1
                                         ELSE Count(q, "DATA")
          /\ Count(q \o cells, "SENDME") = Count(q, "SENDME")
      BY <2>1, <2>2, <2>3, <2>4, <3>1, SentCells
    <3>4. q \o cells \in Seq(Cell)
      <4>1. [cmd |-> "SWITCH", nth |-> 0, rel |-> n - t] \in Cell
        BY <2>4 DEF Cell
      <4>2. [cmd |-> cmd, nth |-> n + 1, rel |-> 0] \in Cell
        BY <2>4 DEF Cell, Mux
      <4>3. cells \in Seq(Cell)
        BY <2>3, <4>1, <4>2
      <4> QED
        BY <2>4, <4>3
    <3> QED
      BY <3>2, <3>3, <3>4, Zenon DEF r
  <2> QED
    BY <2>5, Zenon DEF s
<1>12. /\ link' \in [End -> [Leg -> Seq(Cell)]] /\ link'[p] = link[p] /\ link'[e][new] = s
       /\ \A k \in Leg : k # new => link'[e][k] = link[e][k]
  <2>1. link \in [End -> [Leg -> Seq(Cell)]] /\ link' = [link EXCEPT ![e][new] = s]
    BY <1>2, <1>8 DEF TypeOK
  <2> HIDE DEF s
  <2>2. link' = [link EXCEPT ![e] = [link[e] EXCEPT ![new] = s]]
    BY <2>1
  <2> QED
    BY <1>1, <1>10, <1>11, <2>1, <2>2
<1>13. /\ last_seq_sent' \in [End -> [Leg -> Nat]] /\ last_seq_sent'[p] = last_seq_sent[p]
       /\ last_seq_sent'[e][new] = n + 1
       /\ \A k \in Leg : k # new => last_seq_sent'[e][k] = last_seq_sent[e][k]
  <2>1. /\ last_seq_sent \in [End -> [Leg -> Nat]]
        /\ last_seq_sent' = [last_seq_sent EXCEPT ![e] = [last_seq_sent[e] EXCEPT ![new] = n + 1]]
    BY <1>2, <1>8 DEF TypeOK
  <2> QED
    BY <1>1, <1>2, <1>10, <2>1
<1>14. /\ sent' \in [End -> Nat] /\ sent'[e] = n + 1 /\ sent'[p] = sent[p]
       /\ curr_leg' \in [End -> Leg \cup {NoLeg}] /\ curr_leg'[e] = new
       /\ curr_leg'[p] = curr_leg[p]
  <2>1. sent \in [End -> Nat] /\ curr_leg \in [End -> Leg \cup {NoLeg}] /\ n + 1 \in Nat
    <3>1. sent \in [End -> Nat] /\ curr_leg \in [End -> Leg \cup {NoLeg}]
      BY <1>2 DEF TypeOK
    <3> QED
      BY <3>1
  <2>2. sent' = [sent EXCEPT ![e] = n + 1] /\ curr_leg' = [curr_leg EXCEPT ![e] = new]
    BY <1>8
  <2> HIDE DEF n
  <2> QED
    BY <1>1, <1>10, <2>1, <2>2
<1>15. /\ inflight' \in [End -> [Leg -> 0..Cwnd]] /\ inflight'[p] = inflight[p]
       /\ inflight'[e][new] = IF cmd = "DATA" THEN inflight[e][new] + 1 ELSE inflight[e][new]
       /\ \A k \in Leg : k # new => inflight'[e][k] = inflight[e][k]
  <2>1. inflight \in [End -> [Leg -> 0..Cwnd]]
    BY <1>2 DEF TypeOK
  <2>2. CASE cmd = "DATA"
    <3>1. /\ inflight' = [inflight EXCEPT ![e] = [inflight[e] EXCEPT ![new] = inflight[e][new] + 1]]
          /\ inflight[e][new] < Cwnd
      BY <1>7, <1>8, <2>1, <2>2
    <3>2. inflight[e][new] + 1 \in 0..Cwnd
      BY <1>1, <1>10, <2>1, <3>1
    <3> QED
      BY <1>1, <1>10, <2>1, <2>2, <3>1, <3>2
  <2>3. CASE cmd # "DATA"
    BY <1>8, <2>1, <2>3
  <2> QED
    BY <2>2, <2>3
<1> HIDE DEF s, cells
<1>16. TypeOK' /\ ~protocol_error'
  BY <1>9, <1>12, <1>13, <1>14, <1>15 DEF IInv, TypeOK
<1>17. SendPart(e)' /\ SendPart(p)'
  <2>1. SendPart(e)'
    <3>1. curr_leg'[e] # NoLeg /\ new \in legs'[e]
      BY <1>1, <1>7, <1>9, <1>10, <1>14
    <3>2. ASSUME NEW k \in Leg PROVE last_seq_sent'[e][k] <= sent'[e]
      <4>1. last_seq_sent'[e][k] = n + 1 \/ last_seq_sent'[e][k] = last_seq_sent[e][k]
        BY <1>13
      <4>2. last_seq_sent[e][k] \in Nat /\ last_seq_sent[e][k] <= n
        BY <1>2
      <4> QED
        BY <1>2, <1>14, <4>1, <4>2
    <3> QED
      BY <1>13, <1>14, <3>1, <3>2 DEF SendPart
  <2>2. SendPart(p)'
    BY <1>1, <1>2, <1>9, <1>13, <1>14, FrameSend DEF DirectionInv
  <2> QED
    BY <2>1, <2>2
<1>18. LegPart(e)' /\ LegPart(p)'
  <2>1. LegPart(e)'
    BY <1>1, <1>2, <1>9, <1>11, <1>12, <1>13 DEF DirectionInv, LegPart
  <2>2. LegPart(p)'
    BY <1>1, <1>2, <1>9, <1>12, <1>13, FrameLeg DEF DirectionInv
  <2> QED
    BY <2>1, <2>2
<1>19. last_seq_delivered[p] \in Nat /\ last_seq_delivered[p] <= n
  BY <1>1, <1>2 DEF DirectionInv, DeliverPart, TypeOK
<1>20. PlacePart(e)'
  <2>1. PlacePart(e)
    BY <1>2 DEF DirectionInv
  <2>2. ASSUME NEW k \in Leg, NEW x \in Numbers(link'[e][k])
        PROVE  \/ k = new /\ x = n + 1
               \/ x \in Numbers(link[e][k]) /\ x <= n
    BY <1>10, <1>11, <1>12, <2>1 DEF PlacePart
  <2>3. \A m \in ooo_q[p] : m.seq \in Nat /\ m.nth \in Nat /\ m.seq = m.nth /\ m.seq <= n
                            /\ last_seq_delivered[p] < m.seq
    BY <1>1, <1>2, <2>1 DEF PlacePart, TypeOK
  <2>4. ASSUME NEW k \in Leg, NEW x \in Numbers(link'[e][k])
        PROVE  /\ last_seq_delivered[p] < x /\ x <= n + 1
               /\ \A m \in ooo_q[p] : m.nth # x
               /\ \A j \in Leg : j # k => x \notin Numbers(link'[e][j])
    <3>1. CASE k = new /\ x = n + 1
      <4>1. \A m \in ooo_q[p] : m.nth # x
        BY <1>2, <2>3, <3>1
      <4>2. \A j \in Leg : j # k => x \notin Numbers(link'[e][j])
        BY <1>2, <2>2, <3>1
      <4> QED
        BY <1>2, <1>19, <3>1, <4>1, <4>2
    <3>2. CASE x \in Numbers(link[e][k]) /\ x <= n
      <4>1. /\ last_seq_delivered[p] < x /\ \A m \in ooo_q[p] : m.nth # x
            /\ \A j \in Leg : j # k => x \notin Numbers(link[e][j])
        BY <2>1, <3>2 DEF PlacePart
      <4>2. x # n + 1 /\ x <= n + 1
        <5>1. x \in Nat
          <6>1. \A i \in DOMAIN link[e][k] : link[e][k][i].nth \in Nat
            <7>1. link[e][k] \in Seq(Cell)
              BY <1>2
            <7>2. \A i \in DOMAIN link[e][k] : link[e][k][i] \in Cell
              BY <7>1
            <7> QED
              BY <7>2 DEF Cell
          <6> QED
            BY <3>2, <6>1 DEF Numbers
        <5> QED
          BY <1>2, <3>2, <5>1
      <4>3. \A j \in Leg : j # k => x \notin Numbers(link'[e][j])
        BY <2>2, <4>1, <4>2
      <4> QED
        BY <4>1, <4>2, <4>3
    <3> QED
      BY <2>2, <3>1, <3>2
  <2>5. \A m \in ooo_q[p] : m.seq <= n + 1
    BY <1>2, <2>3
  <2> QED
    BY <1>9, <1>14, <2>3, <2>4, <2>5 DEF PlacePart
<1>21. PlacePart(p)'
  BY <1>1, <1>2, <1>9, <1>12, <1>14, FramePlace DEF DirectionInv
<1>22. Accounted(e)'
  <2>1. \A k \in Leg : Numbers(link[e][k]) \subseteq Numbers(link'[e][k])
    BY <1>11, <1>12
  <2>2. n + 1 \in Numbers(link'[e][new]) /\ new \in Leg
    BY <1>10, <1>11, <1>12
  <2>3. \A x \in (last_seq_delivered[p] + 1)..(n + 1) :
           x \in (last_seq_delivered[p] + 1)..n \/ x = n + 1
    BY <1>2, <1>19
  <2> QED
    <3>1. ASSUME NEW x \in (last_seq_delivered[p] + 1)..(n + 1)
          PROVE  \/ \E m \in ooo_q[p] : m.nth = x
                 \/ \E k \in Leg : x \in Numbers(link'[e][k])
                 \/ \E k \in Leg \ legs[p] : x = last_seq_recv[p][k]
      <4>1. CASE x = n + 1
        BY <2>2, <4>1
      <4>2. CASE x \in (last_seq_delivered[p] + 1)..n
        <5>1. \/ \E m \in ooo_q[p] : m.nth = x
              \/ \E k \in Leg : x \in Numbers(link[e][k])
              \/ \E k \in Leg \ legs[p] : x = last_seq_recv[p][k]
          BY <1>2, <4>2 DEF DirectionInv, Accounted
        <5> QED
          BY <2>1, <5>1
      <4> QED
        BY <2>3, <4>1, <4>2
    <3> QED
      BY <1>9, <1>14, <3>1 DEF Accounted
<1>23. Accounted(p)'
  BY <1>1, <1>2, <1>9, <1>12, <1>14, FrameAccounted DEF DirectionInv
<1>24. FlowPart(e)'
  <2>1. ASSUME NEW k \in Leg
        PROVE  inflight'[e][k] = Count(link'[e][k], "DATA") + data_rcvd'[p][k]
                                   + SendmeInc * Count(link'[p][k], "SENDME")
    <3>1. inflight[e][k] = Count(link[e][k], "DATA") + data_rcvd[p][k]
                                   + SendmeInc * Count(link[p][k], "SENDME")
      BY <1>2 DEF DirectionInv, FlowPart
    <3>2. CASE k # new
      BY <1>9, <1>12, <1>15, <3>1, <3>2
    <3>3. CASE k = new
      <4> DEFINE d == Count(q, "DATA")
                 y == data_rcvd[p][k]
                 z == SendmeInc * Count(link[p][k], "SENDME")
      <4>1. d \in Nat /\ y \in Nat /\ z \in Nat
        <5>1. Count(link[p][k], "SENDME") \in Nat /\ d \in Nat
          BY <1>1, <1>10, CountType, Types
        <5>2. y \in Nat
          BY <1>1, Types
        <5> QED
          BY <1>1, <5>1, <5>2
      <4>2. inflight[e][k] = d + y + z
        BY <3>1, <3>3
      <4>3. link'[e][k] = s /\ data_rcvd'[p][k] = y /\ link'[p][k] = link[p][k]
        BY <1>9, <1>12, <3>3
      <4>4. CASE cmd = "DATA"
        <5>1. Count(s, "DATA") = d + 1 /\ inflight'[e][k] = inflight[e][k] + 1
          BY <1>11, <1>15, <3>3, <4>4
        <5>2. d + y + z + 1 = (d + 1) + y + z
          BY <4>1
        <5> QED
          BY <4>2, <4>3, <5>1, <5>2
      <4>5. CASE cmd # "DATA"
        BY <1>11, <1>15, <3>3, <4>2, <4>3, <4>5
      <4> QED
        BY <4>4, <4>5
    <3> QED
      BY <3>2, <3>3
  <2>2. legs'[e] # {} => \A k \in Leg \ legs'[e] : inflight'[e][k] < SendmeInc
    <3>1. \A k \in Leg \ legs'[e] : k # new
      BY <1>7, <1>9
    <3> QED
      BY <1>2, <1>9, <1>15, <3>1 DEF DirectionInv, FlowPart
  <2> QED
    BY <2>1, <2>2 DEF FlowPart
<1>25. FlowPart(p)'
  <2>1. \A k \in Leg : Count(link'[e][k], "SENDME") = Count(link[e][k], "SENDME")
    BY <1>11, <1>12
  <2>2. legs'[p] # {} => \A k \in Leg \ legs'[p] : inflight[p][k] < SendmeInc
    BY <1>2, <1>9 DEF DirectionInv, FlowPart
  <2> QED
    BY <1>1, <1>2, <1>9, <1>12, <1>15, <2>1, <2>2, FrameFlow DEF DirectionInv
<1>26. DeliverPart(e)' /\ DeliverPart(p)'
  <2>1. /\ last_seq_delivered[e] \in Nat /\ sent[p] \in Nat
        /\ DeliverPart(e) /\ DeliverPart(p)
    BY <1>1, <1>2 DEF DirectionInv, TypeOK
  <2>2. DeliverPart(e)'
    BY <1>1, <1>9, <1>14, <2>1, FrameDeliver
  <2>3. DeliverPart(p)'
    BY <1>1, <1>2, <1>9, <1>14, <1>19, <2>1, FrameDeliver
  <2> QED
    BY <2>2, <2>3
<1> QED
  BY <1>16, <1>17, <1>18, <1>20, <1>21, <1>22, <1>23, <1>24, <1>25, <1>26, BothDirections
     DEF DirectionInv

-----------------------------------------------------------------------------
(* Receiving a numbered cell.                                              *)

\* The count of DATA cells since the last SENDME.
LEMMA ModStep ==
    ASSUME NEW w \in Nat \ {0}, NEW d \in 0..(w - 1)
    PROVE  (d + 1) % w = IF d + 1 = w THEN 0 ELSE d + 1
<1>1. CASE d + 1 = w
  BY <1>1
<1>2. CASE d + 1 < w
  BY <1>2
<1> QED
  BY <1>1, <1>2

\* The cells given to the streams: those before, the one that arrived, and k of the queue.
LEMMA DeliveredInOrder ==
    ASSUME NEW d \in Nat, NEW k \in Nat
    PROVE  Append([i \in 1..d |-> i], d + 1) \o [i \in 1..k |-> d + 1 + i]
             = [i \in 1..(d + 1 + k) |-> i]
<1> DEFINE a == [i \in 1..d |-> i]
           b == Append(a, d + 1)
           c == [i \in 1..k |-> d + 1 + i]
           r == [i \in 1..(d + 1 + k) |-> i]
<1>1. a \in Seq(Nat) /\ Len(a) = d /\ \A i \in 1..d : a[i] = i
  OBVIOUS
<1> HIDE DEF a
<1>2. b \in Seq(Nat) /\ Len(b) = d + 1 /\ \A i \in 1..(d + 1) : b[i] = i
  BY <1>1
<1>3. c \in Seq(Nat) /\ Len(c) = k /\ \A i \in 1..k : c[i] = d + 1 + i
  OBVIOUS
<1>4. r \in Seq(Nat) /\ Len(r) = d + 1 + k /\ \A i \in 1..(d + 1 + k) : r[i] = i
  OBVIOUS
<1> HIDE DEF b, c, r
<1>5. /\ b \o c \in Seq(Nat) /\ Len(b \o c) = Len(b) + Len(c)
      /\ \A i \in 1..(Len(b) + Len(c)) :
           (b \o c)[i] = IF i <= Len(b) THEN b[i] ELSE c[i - Len(b)]
  BY <1>2, <1>3, ConcatProperties, Zenon
<1>6. ASSUME NEW i \in 1..(d + 1 + k) PROVE (b \o c)[i] = i
  <2>1. (b \o c)[i] = IF i <= d + 1 THEN b[i] ELSE c[i - (d + 1)]
    BY <1>2, <1>3, <1>5
  <2>2. i <= d + 1 => b[i] = i
    BY <1>2
  <2>3. i > d + 1 => i - (d + 1) \in 1..k
    OBVIOUS
  <2>4. i > d + 1 => c[i - (d + 1)] = i
    BY <1>3, <2>3
  <2> QED
    BY <2>1, <2>2, <2>4
<1>7. b \o c = r
  <2> DEFINE z == b \o c
  <2>1. z \in Seq(Nat) /\ Len(z) = d + 1 + k
    BY <1>2, <1>3, <1>5
  <2>2. ASSUME NEW i \in 1..Len(z) PROVE z[i] = r[i]
    BY <1>4, <1>6, <2>1
  <2> HIDE DEF z
  <2>3. Len(z) = Len(r)
    BY <1>4, <2>1
  <2>4. z = r
    BY <1>4, <2>1, <2>2, <2>3, SeqEqual, Zenon
  <2> QED
    BY <2>4 DEF z
<1> QED
  BY <1>7 DEF a, b, c, r

LEMMA NumbersType ==
    ASSUME NEW q \in Seq(Cell)
    PROVE  Numbers(q) \subseteq Nat
<1>1. \A i \in DOMAIN q : q[i] \in Cell
  OBVIOUS
<1>2. \A i \in DOMAIN q : q[i].nth \in Nat
  BY <1>1 DEF Cell
<1> QED
  BY <1>2 DEF Numbers

\* A leg on which a SENDME is sent.
LEMMA SendmeSent ==
    ASSUME NEW q \in Seq(Cell), NEW r, NEW t \in Nat, Numbering(q, r, t), Distinct(q),
           NEW c, c = [cmd |-> "SENDME", nth |-> 0, rel |-> 0]
    PROVE  /\ Append(q, c) \in Seq(Cell) /\ Numbering(Append(q, c), r, t)
           /\ Distinct(Append(q, c)) /\ Numbers(Append(q, c)) = Numbers(q)
           /\ Count(Append(q, c), "DATA") = Count(q, "DATA")
           /\ Count(Append(q, c), "SENDME") = Count(q, "SENDME") + 1
<1>1. c \in Cell /\ c.cmd = "SENDME" /\ c.cmd \notin Mux
  BY DEF Cell, Mux
<1>2. Steps(c, t, t)
  BY <1>1 DEF Steps
<1>3. Append(q, c) \in Seq(Cell) /\ Numbering(Append(q, c), r, t)
  BY <1>1, <1>2, AppendFacts, NumberingAppend
<1>4. Distinct(Append(q, c)) /\ Numbers(Append(q, c)) = Numbers(q)
  BY <1>1, DistinctAppend, NumbersAppend
<1>5. /\ Count(Append(q, c), "DATA") = Count(q, "DATA")
      /\ Count(Append(q, c), "SENDME") = Count(q, "SENDME") + 1
  BY <1>1, CountAppend
<1> QED
  BY <1>3, <1>4, <1>5

\* connection_edge_process_relay_cell: the part that does not depend on the turn of the cell.
LEMMA ReceivedFacts ==
    ASSUME IInv, NEW e \in End, NEW l \in Leg, ReceiveMultiplexed(e, l)
    PROVE  LET p == Peer(e)
               c == Head(link[p][l])
               s == last_seq_recv[e][l] + 1
           IN  /\ l \in legs[e] /\ c.nth = s /\ s \in Numbers(link[p][l])
               /\ last_seq_recv' \in [End -> [Leg -> Nat]] /\ last_seq_recv'[p] = last_seq_recv[p]
               /\ last_seq_recv'[e][l] = s
               /\ \A k \in Leg : k # l => last_seq_recv'[e][k] = last_seq_recv[e][k]
               /\ data_rcvd' \in [End -> [Leg -> 0..(SendmeInc - 1)]]
               /\ link' \in [End -> [Leg -> Seq(Cell)]]
               /\ Numbers(link'[p][l]) = Numbers(link[p][l]) \ {s}
               /\ \A k \in Leg : k # l => link'[p][k] = link[p][k]
               /\ \A k \in Leg : Numbers(link'[e][k]) = Numbers(link[e][k])
               /\ LegPart(e)' /\ LegPart(p)'
               /\ \A k \in Leg : inflight[p][k] = Count(link'[p][k], "DATA") + data_rcvd'[e][k]
                                                    + SendmeInc * Count(link'[e][k], "SENDME")
               /\ \A k \in Leg : inflight[e][k] = Count(link'[e][k], "DATA") + data_rcvd'[p][k]
                                                    + SendmeInc * Count(link'[p][k], "SENDME")
               /\ UNCHANGED <<measured, last_seq_sent, inflight, sent>>
<1> DEFINE p == Peer(e)
           q == link[p][l]
           c == Head(q)
           s == last_seq_recv[e][l] + 1
           d == data_rcvd[e][l]
           acks == c.cmd = "DATA" /\ (d + 1) % SendmeInc = 0
           a == IF acks THEN Append(link[e][l], [cmd |-> "SENDME", nth |-> 0, rel |-> 0])
                ELSE link[e][l]
<1>1. /\ l \in legs[e] /\ q # <<>> /\ c.cmd \in Mux
      /\ last_seq_recv' = [last_seq_recv EXCEPT ![e][l] = s]
      /\ data_rcvd' = IF c.cmd # "DATA" THEN data_rcvd
                      ELSE [data_rcvd EXCEPT ![e][l] = (@ + 1) % SendmeInc]
      /\ UNCHANGED <<measured, last_seq_sent, inflight, sent>>
  BY DEF ReceiveMultiplexed, Incoming, Mux
<1>2. link' = [link EXCEPT ![p][l] = Tail(@),
                           ![e][l] = IF acks THEN Append(@,
                               [cmd |-> "SENDME", nth |-> 0, rel |-> 0]) ELSE @]
  BY DEF ReceiveMultiplexed
<1>3. /\ p \in End /\ Peer(p) = e /\ p # e /\ SendmeInc \in Nat \ {0}
      /\ DirectionInv(e) /\ DirectionInv(p)
      /\ q \in Seq(Cell) /\ link[e][l] \in Seq(Cell)
      /\ last_seq_recv[e][l] \in Nat /\ last_seq_recv[p][l] \in Nat
      /\ last_seq_sent[e][l] \in Nat
      /\ d \in 0..(SendmeInc - 1)
  <2>1. p \in End /\ Peer(p) = e /\ p # e /\ SendmeInc \in Nat \ {0}
    BY Peers, ConstantsAssumption
  <2>2. DirectionInv(e) /\ DirectionInv(p)
    BY Types
  <2>3. /\ q \in Seq(Cell) /\ link[e][l] \in Seq(Cell)
        /\ last_seq_recv[e][l] \in Nat /\ last_seq_recv[p][l] \in Nat
        /\ last_seq_sent[e][l] \in Nat
    BY <2>1, Types
  <2>4. d \in 0..(SendmeInc - 1)
    BY Types
  <2> QED
    BY <2>1, <2>2, <2>3, <2>4
<1>4. /\ link \in [End -> [Leg -> Seq(Cell)]] /\ last_seq_recv \in [End -> [Leg -> Nat]]
      /\ data_rcvd \in [End -> [Leg -> 0..(SendmeInc - 1)]]
  BY DEF IInv, TypeOK
<1>5. c.nth = s /\ Numbering(Tail(q), s, last_seq_sent[p][l])
  BY <1>1, NextCount
<1>6. /\ Tail(q) \in Seq(Cell) /\ Distinct(Tail(q)) /\ s \in Numbers(q)
      /\ Numbers(Tail(q)) = Numbers(q) \ {s}
  <2>1. Distinct(q)
    BY <1>3 DEF DirectionInv, LegPart
  <2>2. Tail(q) \in Seq(Cell)
    BY <1>1, <1>3, TailFacts
  <2> QED
    BY <1>1, <1>3, <1>5, <2>1, <2>2, NumbersTail
<1>7. acks \in BOOLEAN
  OBVIOUS
<1>8. a = IF acks THEN Append(link[e][l], [cmd |-> "SENDME", nth |-> 0, rel |-> 0])
          ELSE link[e][l]
  OBVIOUS
<1>9. /\ (d + 1) % SendmeInc \in 0..(SendmeInc - 1)
  BY <1>3, ModStep
<1>10. acks <=> c.cmd = "DATA" /\ (d + 1) % SendmeInc = 0
  OBVIOUS
<1>11. link' = [link EXCEPT ![p] = [link[p] EXCEPT ![l] = Tail(q)],
                            ![e] = [link[e] EXCEPT ![l] = a]]
  <2> HIDE DEF acks
  <2> QED
    BY <1>2, <1>3, <1>4
<1> HIDE DEF acks, a
<1>12. Numbering(link[e][l], last_seq_recv[p][l], last_seq_sent[e][l]) /\ Distinct(link[e][l])
  BY <1>3 DEF DirectionInv, LegPart
<1>13. /\ a \in Seq(Cell) /\ Numbering(a, last_seq_recv[p][l], last_seq_sent[e][l])
       /\ Distinct(a) /\ Numbers(a) = Numbers(link[e][l])
       /\ Count(a, "DATA") = Count(link[e][l], "DATA")
       /\ Count(a, "SENDME") = IF acks THEN Count(link[e][l], "SENDME") + 1
                               ELSE Count(link[e][l], "SENDME")
  <2>1. CASE ~acks
    BY <1>3, <1>8, <1>12, <2>1
  <2>2. CASE acks
    <3> DEFINE r == last_seq_recv[p][l]
               t == last_seq_sent[e][l]
               o == link[e][l]
               m == [cmd |-> "SENDME", nth |-> 0, rel |-> 0]
    <3>1. /\ t \in Nat /\ o \in Seq(Cell) /\ Numbering(o, r, t) /\ Distinct(o)
      BY <1>3, <1>12
    <3>2. a = Append(o, m)
      BY <1>8, <2>2
    <3> HIDE DEF r, t, o
    <3>3. /\ a \in Seq(Cell) /\ Numbering(a, r, t) /\ Distinct(a) /\ Numbers(a) = Numbers(o)
          /\ Count(a, "DATA") = Count(o, "DATA") /\ Count(a, "SENDME") = Count(o, "SENDME") + 1
      BY <3>1, <3>2, SendmeSent, Zenon
    <3> QED
      BY <2>2, <3>3, Zenon DEF r, t, o
  <2> QED
    BY <1>7, <2>1, <2>2
<1>14. /\ link' \in [End -> [Leg -> Seq(Cell)]]
       /\ link'[p][l] = Tail(q) /\ link'[e][l] = a
       /\ \A k \in Leg : k # l => link'[p][k] = link[p][k]
       /\ \A k \in Leg : k # l => link'[e][k] = link[e][k]
  BY <1>3, <1>4, <1>6, <1>11, <1>13
<1>15. /\ last_seq_recv' \in [End -> [Leg -> Nat]] /\ last_seq_recv'[p] = last_seq_recv[p]
       /\ last_seq_recv'[e][l] = s
       /\ \A k \in Leg : k # l => last_seq_recv'[e][k] = last_seq_recv[e][k]
  <2>1. last_seq_recv' = [last_seq_recv EXCEPT ![e] = [last_seq_recv[e] EXCEPT ![l] = s]]
    BY <1>1, <1>4
  <2>2. s \in Nat
    BY <1>3
  <2> HIDE DEF s
  <2> QED
    BY <1>3, <1>4, <2>1, <2>2
<1>16. /\ data_rcvd' \in [End -> [Leg -> 0..(SendmeInc - 1)]] /\ data_rcvd'[p] = data_rcvd[p]
       /\ data_rcvd'[e][l] = IF c.cmd = "DATA" THEN (d + 1) % SendmeInc ELSE d
       /\ \A k \in Leg : k # l => data_rcvd'[e][k] = data_rcvd[e][k]
  <2>1. CASE c.cmd = "DATA"
    <3> DEFINE v == (d + 1) % SendmeInc
    <3>1. data_rcvd' = [data_rcvd EXCEPT ![e] = [data_rcvd[e] EXCEPT ![l] = v]]
      BY <1>1, <1>4, <2>1
    <3>2. v \in 0..(SendmeInc - 1)
      BY <1>9
    <3> HIDE DEF v
    <3>3. /\ data_rcvd' \in [End -> [Leg -> 0..(SendmeInc - 1)]] /\ data_rcvd'[p] = data_rcvd[p]
          /\ data_rcvd'[e][l] = v
          /\ \A k \in Leg : k # l => data_rcvd'[e][k] = data_rcvd[e][k]
      BY <1>3, <1>4, <3>1, <3>2
    <3> QED
      BY <2>1, <3>3 DEF v
  <2>2. CASE c.cmd # "DATA"
    BY <1>1, <1>4, <2>2
  <2> QED
    BY <2>1, <2>2
<1>17. LegPart(e)'
  BY <1>1, <1>3, <1>13, <1>14, <1>15 DEF DirectionInv, LegPart
<1>18. LegPart(p)'
  <2>1. LegPart(p) /\ UNCHANGED last_seq_sent /\ Peer(p) = e
    BY <1>1, <1>3 DEF DirectionInv
  <2> HIDE DEF s, q
  <2> QED
    BY <1>5, <1>6, <1>14, <1>15, <2>1 DEF LegPart
<1>19. \A k \in Leg : Numbers(link'[e][k]) = Numbers(link[e][k])
  BY <1>13, <1>14
<1>20. ASSUME NEW k \in Leg
       PROVE  inflight[p][k] = Count(link'[p][k], "DATA") + data_rcvd'[e][k]
                                 + SendmeInc * Count(link'[e][k], "SENDME")
  <2>1. inflight[p][k] = Count(link[p][k], "DATA") + data_rcvd[e][k]
                           + SendmeInc * Count(link[e][k], "SENDME")
    BY <1>3 DEF DirectionInv, FlowPart
  <2>2. CASE k # l
    BY <1>14, <1>16, <2>1, <2>2
  <2>3. CASE k = l
    <3> DEFINE x == Count(Tail(q), "DATA")
               z == Count(link[e][l], "SENDME")
    <3>1. x \in Nat /\ z \in Nat
      BY <1>3, <1>6, CountType
    <3>2. link'[p][k] = Tail(q) /\ link'[e][k] = a
      BY <1>14, <2>3
    <3>3. CASE c.cmd = "DATA"
      <4>1. Count(q, "DATA") = x + 1
        BY <1>1, <1>3, <3>3, CountTail
      <4>2. inflight[p][k] = (x + 1) + d + SendmeInc * z
        BY <2>1, <2>3, <4>1
      <4>3. data_rcvd'[e][k] = (d + 1) % SendmeInc
        BY <1>16, <2>3, <3>3
      <4>4. Count(a, "SENDME") = IF data_rcvd'[e][k] = 0 THEN z + 1 ELSE z
        BY <1>10, <1>13, <3>3, <4>3
      <4>5. inflight[p][k] = x + data_rcvd'[e][k] + SendmeInc * Count(a, "SENDME")
        <5> DEFINE v == inflight[p][k]
                   d2 == data_rcvd'[e][k]
                   z2 == Count(a, "SENDME")
                   w == SendmeInc
        <5>1. w \in Nat \ {0} /\ d \in 0..(w - 1) /\ x \in Nat /\ z \in Nat
          BY <1>3, <3>1
        <5>2. d2 = (d + 1) % w /\ v = (x + 1) + d + w * z
          BY <4>2, <4>3
        <5>3. z2 = IF d2 = 0 THEN z + 1 ELSE z
          BY <4>4
        <5> HIDE DEF x, z, d, v, d2, z2, w
        <5>4. v = x + d2 + w * z2
          <6> DEFINE wz == w * z
                     wz1 == w * (z + 1)
          <6>1. wz1 = wz + w /\ wz \in Nat /\ v = (x + 1) + d + wz
            BY <5>1, <5>2
          <6>2. d2 = IF d + 1 = w THEN 0 ELSE d + 1
            BY <5>1, <5>2, ModStep
          <6> HIDE DEF wz, wz1
          <6>3. d2 = 0 => v = x + d2 + wz1
            BY <5>1, <6>1, <6>2
          <6>4. d2 # 0 => v = x + d2 + wz
            BY <5>1, <6>1, <6>2
          <6> QED
            BY <5>3, <6>3, <6>4, Zenon DEF wz, wz1
        <5> QED
          BY <5>4, Zenon DEF v, d2, z2, w
      <4> QED
        BY <3>2, <4>5
    <3>4. CASE c.cmd # "DATA"
      <4>1. Count(q, "DATA") = x
        BY <1>1, <1>3, <3>4, CountTail
      <4>2. Count(a, "SENDME") = z /\ data_rcvd'[e][k] = d
        BY <1>10, <1>13, <1>16, <2>3, <3>4
      <4> QED
        BY <2>1, <2>3, <3>2, <4>1, <4>2
    <3> QED
      BY <3>3, <3>4
  <2> QED
    BY <2>2, <2>3
<1>21. ASSUME NEW k \in Leg
       PROVE  inflight[e][k] = Count(link'[e][k], "DATA") + data_rcvd'[p][k]
                                 + SendmeInc * Count(link'[p][k], "SENDME")
  <2>1. inflight[e][k] = Count(link[e][k], "DATA") + data_rcvd[p][k]
                           + SendmeInc * Count(link[p][k], "SENDME")
    BY <1>3 DEF DirectionInv, FlowPart
  <2>2. Count(q, "SENDME") = Count(Tail(q), "SENDME")
    <3>1. c.cmd # "SENDME"
      BY <1>1 DEF Mux
    <3> QED
      BY <1>1, <1>3, <3>1, CountTail
  <2>3. /\ Count(link'[e][k], "DATA") = Count(link[e][k], "DATA")
        /\ Count(link'[p][k], "SENDME") = Count(link[p][k], "SENDME")
        /\ data_rcvd'[p][k] = data_rcvd[p][k]
    BY <1>13, <1>14, <1>16, <2>2
  <2> QED
    BY <2>1, <2>3
<1> HIDE DEF d
<1> QED
  BY <1>1, <1>5, <1>6, <1>14, <1>15, <1>16, <1>17, <1>18, <1>19, <1>20, <1>21

\* conflux_process_relay_msg and the loop over the queue: the cell is delivered with what it
\* makes ready, is turned away by a full queue, or is queued.  That its number has already
\* been delivered is impossible.
LEMMA InvReceiveMultiplexed ==
    ASSUME IInv, NEW e \in End, NEW l \in Leg, ReceiveMultiplexed(e, l)
    PROVE  IInv'
<1> DEFINE p == Peer(e)
           c == Head(link[p][l])
           s == last_seq_recv[e][l] + 1
           N(k) == Numbers(link[p][k])
           N2(k) == Numbers(link'[p][k])
           D == last_seq_delivered[e]
           Q == ooo_q[e]
<1>1. /\ l \in legs[e] /\ c.nth = s /\ s \in N(l)
      /\ last_seq_recv' \in [End -> [Leg -> Nat]] /\ last_seq_recv'[p] = last_seq_recv[p]
      /\ last_seq_recv'[e][l] = s
      /\ \A k \in Leg : k # l => last_seq_recv'[e][k] = last_seq_recv[e][k]
      /\ data_rcvd' \in [End -> [Leg -> 0..(SendmeInc - 1)]]
      /\ link' \in [End -> [Leg -> Seq(Cell)]]
      /\ N2(l) = N(l) \ {s}
      /\ \A k \in Leg : k # l => link'[p][k] = link[p][k]
      /\ \A k \in Leg : Numbers(link'[e][k]) = Numbers(link[e][k])
      /\ LegPart(e)' /\ LegPart(p)'
      /\ UNCHANGED <<measured, last_seq_sent, inflight, sent>>
  BY ReceivedFacts
<1>2. /\ \A k \in Leg : inflight[p][k] = Count(link'[p][k], "DATA") + data_rcvd'[e][k]
                                           + SendmeInc * Count(link'[e][k], "SENDME")
      /\ \A k \in Leg : inflight[e][k] = Count(link'[e][k], "DATA") + data_rcvd'[p][k]
                                           + SendmeInc * Count(link'[p][k], "SENDME")
  BY ReceivedFacts
<1>3. /\ p \in End /\ Peer(p) = e /\ p # e
      /\ DirectionInv(e) /\ DirectionInv(p) /\ TypeOK /\ ~protocol_error
      /\ sent[e] \in Nat /\ sent[p] \in Nat /\ D \in Nat /\ last_seq_delivered[p] \in Nat
      /\ Q \subseteq [seq : Nat, nth : Nat] /\ last_seq_recv[e][l] \in Nat
  BY Peers, Types
<1>4. PlacePart(p) /\ Accounted(p) /\ DeliverPart(e) /\ D <= sent[p]
  BY <1>3 DEF DirectionInv, DeliverPart
<1>5. ASSUME NEW k \in Leg
      PROVE  /\ \A n \in N(k) : /\ n \in Nat /\ D < n /\ n <= sent[p]
                                /\ \A m \in Q : m.nth # n
                                /\ \A j \in Leg : j # k => n \notin N(j)
             /\ N(k) \subseteq N2(k) \cup {s}
             /\ N2(k) \subseteq N(k) /\ s \notin N2(k)
  <2>1. N(k) \subseteq Nat
    BY <1>3, NumbersType, Types
  <2>2. \A n \in N(k) : /\ D < n /\ n <= sent[p]
                        /\ \A m \in Q : m.nth # n
                        /\ \A j \in Leg : j # k => n \notin N(j)
    BY <1>3, <1>4 DEF PlacePart
  <2>3. k # l => s \notin N(k)
    BY <1>1, <2>2
  <2>4. N(k) \subseteq N2(k) \cup {s} /\ N2(k) \subseteq N(k) /\ s \notin N2(k)
    BY <1>1, <2>3
  <2> QED
    BY <2>1, <2>2, <2>4
<1>6. \A m \in Q : m.seq \in Nat /\ m.seq = m.nth /\ D < m.seq /\ m.seq <= sent[p] /\ m.seq # s
  <2>1. \A m \in Q : m.seq \in Nat /\ m.seq = m.nth /\ D < m.seq /\ m.seq <= sent[p]
    BY <1>3, <1>4 DEF PlacePart
  <2> QED
    BY <1>1, <1>5, <2>1
<1>7. s \in Nat /\ D < s /\ s <= sent[p]
  BY <1>1, <1>5
<1>8. ASSUME NEW n \in (D + 1)..sent[p]
      PROVE  \/ \E m \in Q : m.nth = n
             \/ \E k \in Leg : n \in N(k)
             \/ \E k \in Leg \ legs[e] : n = last_seq_recv[e][k]
  BY <1>3, <1>4 DEF Accounted
<1> HIDE DEF N, N2, D, Q, s
\* What does not depend on the turn of the cell.
<1>9. ASSUME legs'[p] = legs[p], last_seq_delivered'[p] = last_seq_delivered[p],
             ooo_q'[p] = ooo_q[p], delivered'[p] = delivered[p]
      PROVE  PlacePart(e)' /\ Accounted(e)' /\ DeliverPart(p)'
  <2>1. PlacePart(e)'
    BY <1>1, <1>3, <1>9, FramePlace DEF DirectionInv
  <2>2. Accounted(e)'
    <3>1. /\ legs'[p] \subseteq legs[p]
          /\ \A k \in Leg \ legs[p] : last_seq_recv'[p][k] = last_seq_recv[p][k]
      BY <1>1, <1>9
    <3> QED
      BY <1>1, <1>3, <1>9, <3>1, FrameAccounted DEF DirectionInv
  <2>3. DeliverPart(p)'
    BY <1>1, <1>3, <1>9, FrameDeliver DEF DirectionInv
  <2> QED
    BY <2>1, <2>2, <2>3
<1>10. ASSUME legs'[p] = legs[p],
              legs'[e] # {} => \A k \in Leg \ legs'[e] : inflight[e][k] < SendmeInc
       PROVE  FlowPart(e)' /\ FlowPart(p)'
  <2>1. legs'[p] # {} => \A k \in Leg \ legs'[p] : inflight[p][k] < SendmeInc
    BY <1>3, <1>10 DEF DirectionInv, FlowPart
  <2>2. inflight' = inflight
    BY <1>1
  <2>3. FlowPart(e)'
    BY <1>2, <1>10, <2>2 DEF FlowPart
  <2>4. FlowPart(p)'
    BY <1>2, <1>3, <2>1, <2>2 DEF FlowPart
  <2> QED
    BY <2>3, <2>4
<1>11. ASSUME UNCHANGED <<legs, curr_leg>>
       PROVE  /\ SendPart(e)' /\ SendPart(p)' /\ FlowPart(e)' /\ FlowPart(p)'
  <2>1. SendPart(e)' /\ SendPart(p)'
    BY <1>1, <1>3, <1>11, FrameSend DEF DirectionInv
  <2>2. legs'[e] # {} => \A k \in Leg \ legs'[e] : inflight[e][k] < SendmeInc
    BY <1>3, <1>11 DEF DirectionInv, FlowPart
  <2>3. legs'[p] = legs[p]
    BY <1>11
  <2> QED
    BY <1>10, <2>1, <2>2, <2>3
\* It is the turn of the cell.
<1>12. ASSUME NEW k \in 0..Cardinality(ReadyInQueue(e, s)), s = D + 1,
              last_seq_delivered' = [last_seq_delivered EXCEPT ![e] = s + k],
              delivered' = [delivered EXCEPT ![e] =
                              Append(@, c.nth) \o InSeqOrder(ReadyInQueue(e, s), s, k)],
              ooo_q' = [ooo_q EXCEPT ![e] = @ \ {m \in ReadyInQueue(e, s) : m.seq <= s + k}],
              \/ UNCHANGED <<legs, curr_leg, broken>>
              \/ CloseLeg(e, l, [last_seq_recv EXCEPT ![e][l] = s]),
              UNCHANGED protocol_error
       PROVE  IInv'
  <2> DEFINE W == ReadyInQueue(e, s)
             R == {m \in W : m.seq <= s + k}
             new == [i \in 1..(s + k) |-> i]
  <2>1. /\ k \in Nat /\ R \subseteq Q
        /\ \A m \in R : m.seq \in (s + 1)..(s + k)
        /\ \A j \in (s + 1)..(s + k) : \E m \in R : m.seq = j
        /\ \A m \in Q \ R : m.seq <= s \/ m.seq > s + k
        /\ InSeqOrder(W, s, k) = [i \in 1..k |-> s + i]
    <3> DEFINE w == Cardinality(W)
    <3>1. \A m \in ooo_q[e] : m.seq = m.nth /\ m.seq <= sent[p]
      BY <1>6 DEF Q
    <3>2. /\ w \in Nat /\ W \subseteq Q
          /\ \A m \in W : m.seq \in (s + 1)..(s + w)
          /\ \A j \in (s + 1)..(s + w) : \E m \in W : m.seq = j
          /\ \A m \in Q \ W : m.seq <= s \/ m.seq > s + w
          /\ \A j \in 0..w : InSeqOrder(W, s, j) = [i \in 1..j |-> s + i]
      BY <1>3, <1>7, <3>1, ReadyFacts DEF Q
    <3>3. k \in 0..w
      OBVIOUS
    <3> HIDE DEF w, W
    <3>4. k \in Nat /\ k <= w /\ R \subseteq Q
      BY <3>2, <3>3
    <3>5. \A m \in R : m.seq \in (s + 1)..(s + k)
      BY <1>7, <3>2, <3>4
    <3>6. ASSUME NEW j \in (s + 1)..(s + k) PROVE \E m \in R : m.seq = j
      <4>1. j \in (s + 1)..(s + w) /\ j <= s + k
        BY <1>7, <3>2, <3>4
      <4> QED
        BY <3>2, <4>1
    <3>7. ASSUME NEW m \in Q \ R PROVE m.seq <= s \/ m.seq > s + k
      <4>1. m.seq \in Nat
        BY <1>6
      <4>2. CASE m \in W
        BY <1>7, <3>4, <4>1, <4>2
      <4>3. CASE m \notin W
        BY <1>7, <3>2, <3>4, <4>1, <4>3
      <4> QED
        BY <4>2, <4>3
    <3> QED
      BY <3>2, <3>3, <3>4, <3>5, <3>6, <3>7
  <2>2. Append(delivered[e], c.nth) \o InSeqOrder(W, s, k) = new /\ new \in Seq(Nat)
    <3> HIDE DEF W, R
    <3>1. delivered[e] = [i \in 1..D |-> i]
      BY <1>4 DEF DeliverPart, D
    <3>2. c.nth = D + 1 /\ s = D + 1
      BY <1>1, <1>12
    <3>3. Append([i \in 1..D |-> i], D + 1) \o [i \in 1..k |-> D + 1 + i]
            = [i \in 1..(D + 1 + k) |-> i]
      BY <1>3, <2>1, DeliveredInOrder
    <3>4. [i \in 1..(D + 1 + k) |-> i] = new
      BY <3>2
    <3>5. InSeqOrder(W, s, k) = [i \in 1..k |-> D + 1 + i]
      BY <2>1, <3>2
    <3>6. Append(delivered[e], c.nth) \o InSeqOrder(W, s, k)
            = Append([i \in 1..D |-> i], D + 1) \o [i \in 1..k |-> D + 1 + i]
      BY <3>1, <3>2, <3>5, Zenon
    <3>7. new \in Seq(Nat)
      BY <1>7, <2>1
    <3> QED
      BY <3>3, <3>4, <3>6, <3>7, Zenon
  <2>3. s + k \in Nat /\ s <= s + k /\ D < s + k
    BY <1>7, <2>1, <1>3
  <2>4. /\ last_seq_delivered' = [last_seq_delivered EXCEPT ![e] = s + k]
        /\ delivered' = [delivered EXCEPT ![e] = new]
        /\ ooo_q' = [ooo_q EXCEPT ![e] = @ \ R]
    BY <1>12, <2>2, Zenon
  <2> HIDE DEF W, R, new
  <2>5. /\ last_seq_delivered \in [End -> Nat] /\ delivered \in [End -> Seq(Nat)]
        /\ ooo_q \in [End -> SUBSET [seq : Nat, nth : Nat]]
    BY <1>3 DEF TypeOK
  <2>6. /\ last_seq_delivered' \in [End -> Nat] /\ delivered' \in [End -> Seq(Nat)]
        /\ last_seq_delivered'[e] = s + k /\ last_seq_delivered'[p] = last_seq_delivered[p]
        /\ delivered'[e] = new /\ delivered'[p] = delivered[p]
    BY <1>3, <2>2, <2>3, <2>4, <2>5
  <2>7. /\ ooo_q' \in [End -> SUBSET [seq : Nat, nth : Nat]]
        /\ ooo_q'[e] = Q \ R /\ ooo_q'[p] = ooo_q[p]
    BY <1>3, <2>4, <2>5 DEF Q
  <2>8. /\ legs' \in [End -> SUBSET Leg] /\ curr_leg' \in [End -> Leg \cup {NoLeg}]
        /\ broken' \subseteq Leg /\ legs'[e] \subseteq legs[e] /\ legs'[p] = legs[p]
        /\ SendPart(e)' /\ SendPart(p)' /\ FlowPart(e)' /\ FlowPart(p)'
    <3>1. CASE UNCHANGED <<legs, curr_leg, broken>>
      BY <1>3, <1>11, <3>1 DEF TypeOK
    <3>2. CASE CloseLeg(e, l, [last_seq_recv EXCEPT ![e][l] = s])
      <4>1. /\ legs' \in [End -> SUBSET Leg] /\ curr_leg' \in [End -> Leg \cup {NoLeg}]
            /\ broken' \subseteq Leg
            /\ legs'[e] \subseteq legs[e] /\ legs'[p] = legs[p]
            /\ SendPart(e)' /\ SendPart(p)'
            /\ legs'[e] # {} => \A j \in Leg \ legs'[e] : inflight[e][j] < SendmeInc
        BY <1>1, <3>2, CloseFacts
      <4> QED
        BY <1>10, <4>1
    <3> QED
      BY <1>12, <3>1, <3>2
  <2>9. TypeOK' /\ ~protocol_error'
    BY <1>1, <1>3, <1>12, <2>6, <2>7, <2>8 DEF TypeOK
  <2>10. PlacePart(e)' /\ Accounted(e)' /\ DeliverPart(p)'
    BY <1>9, <2>6, <2>7, <2>8
  <2>11. s + k <= sent[p]
    <3>1. CASE k = 0
      BY <1>7, <3>1
    <3>2. CASE k # 0
      <4>1. s + k \in (s + 1)..(s + k)
        BY <1>7, <2>1, <3>2
      <4>2. PICK m \in R : m.seq = s + k
        BY <2>1, <4>1
      <4> QED
        BY <1>6, <2>1, <4>2
    <3> QED
      BY <3>1, <3>2
  <2>12. DeliverPart(e)'
    <3>1. delivered'[e] = [i \in 1..last_seq_delivered'[e] |-> i]
      BY <2>6 DEF new
    <3>2. last_seq_delivered'[e] <= sent'[p]
      BY <1>1, <2>6, <2>11
    <3> QED
      BY <3>1, <3>2 DEF DeliverPart
  <2>13. PlacePart(p)'
    <3>1. ASSUME NEW j \in Leg, NEW n \in N2(j)
          PROVE  /\ s + k < n /\ n <= sent[p]
                 /\ \A m \in Q \ R : m.nth # n
                 /\ \A i \in Leg : i # j => n \notin N2(i)
      <4>1. /\ n \in N(j) /\ n \in Nat /\ D < n /\ n <= sent[p] /\ n # s
            /\ \A m \in Q : m.nth # n
            /\ \A i \in Leg : i # j => n \notin N(i)
        BY <1>5
      <4>2. \A i \in Leg : i # j => n \notin N2(i)
        BY <1>5, <4>1
      <4>3. n \notin (s + 1)..(s + k)
        BY <1>6, <2>1, <4>1
      <4>4. s + k < n
        BY <1>3, <1>7, <1>12, <2>1, <4>1, <4>3
      <4> QED
        BY <4>1, <4>2, <4>4
    <3>2. \A m \in Q \ R : m.seq = m.nth /\ s + k < m.seq /\ m.seq <= sent[p]
      <4>1. ASSUME NEW m \in Q \ R PROVE m.seq = m.nth /\ s + k < m.seq /\ m.seq <= sent[p]
        <5>1. m.seq \in Nat /\ m.seq = m.nth /\ D < m.seq /\ m.seq <= sent[p] /\ m.seq # s
          BY <1>6
        <5>2. m.seq <= s \/ m.seq > s + k
          BY <2>1
        <5>3. m.seq > s + k
          BY <1>3, <1>7, <1>12, <2>1, <5>1, <5>2
        <5> QED
          BY <2>3, <5>1, <5>3
      <4> QED
        BY <4>1
    <3>3. ASSUME NEW j \in Leg, NEW n \in Numbers(link'[p][j])
          PROVE  /\ last_seq_delivered'[e] < n /\ n <= sent'[p]
                 /\ \A m \in ooo_q'[e] : m.nth # n
                 /\ \A i \in Leg : i # j => n \notin Numbers(link'[p][i])
      BY <1>1, <2>6, <2>7, <3>1 DEF N2
    <3>4. \A m \in ooo_q'[e] :
             m.seq = m.nth /\ last_seq_delivered'[e] < m.seq /\ m.seq <= sent'[p]
      BY <1>1, <2>6, <2>7, <3>2
    <3> QED
      BY <1>3, <3>3, <3>4 DEF PlacePart
  <2>14. Accounted(p)'
    <3>1. ASSUME NEW n \in (s + k + 1)..sent[p]
          PROVE  \/ \E m \in ooo_q'[e] : m.nth = n
                 \/ \E j \in Leg : n \in Numbers(link'[p][j])
                 \/ \E j \in Leg \ legs'[e] : n = last_seq_recv'[e][j]
      <4>1. n \in (D + 1)..sent[p] /\ n # s /\ n > s + k
        BY <1>3, <1>7, <2>1, <2>3
      <4>2. CASE \E m \in Q : m.nth = n
        <5>1. PICK m \in Q : m.nth = n
          BY <4>2
        <5>2. m \notin R
          BY <1>6, <1>7, <2>1, <4>1, <5>1
        <5> QED
          BY <2>7, <5>1, <5>2
      <4>3. CASE \E j \in Leg : n \in N(j)
        BY <1>5, <4>1, <4>3 DEF N2
      <4>4. CASE \E j \in Leg \ legs[e] : n = last_seq_recv[e][j]
        BY <1>1, <2>8, <4>4
      <4> QED
        BY <1>8, <4>1, <4>2, <4>3, <4>4
    <3>2. (last_seq_delivered'[e] + 1)..sent'[p] = (s + k + 1)..sent[p]
      BY <1>1, <2>6
    <3> QED
      BY <1>3, <3>1, <3>2, Zenon DEF Accounted
  <2> QED
    BY <1>1, <2>8, <2>9, <2>10, <2>12, <2>13, <2>14, BothDirections DEF DirectionInv
\* Before its turn, and the queue is full.
<1>13. CASE /\ s > D + 1
            /\ CloseLeg(e, l, [last_seq_recv EXCEPT ![e][l] = s])
            /\ UNCHANGED <<last_seq_delivered, delivered, ooo_q, protocol_error>>
  <2>1. /\ legs' \in [End -> SUBSET Leg] /\ curr_leg' \in [End -> Leg \cup {NoLeg}]
        /\ broken' \subseteq Leg
        /\ legs'[e] \subseteq legs[e] /\ l \notin legs'[e] /\ legs'[p] = legs[p]
        /\ SendPart(e)' /\ SendPart(p)'
        /\ legs'[e] # {} => \A k \in Leg \ legs'[e] : inflight[e][k] < SendmeInc
    BY <1>1, <1>13, CloseFacts
  <2>2. TypeOK' /\ ~protocol_error'
    BY <1>1, <1>3, <1>13, <2>1 DEF TypeOK
  <2>3. FlowPart(e)' /\ FlowPart(p)'
    BY <1>10, <2>1
  <2>4. PlacePart(e)' /\ Accounted(e)' /\ DeliverPart(p)'
    BY <1>9, <1>13, <2>1
  <2>5. DeliverPart(e)'
    BY <1>1, <1>3, <1>4, <1>13, FrameDeliver DEF D
  <2>6. PlacePart(p)'
    <3>1. ASSUME NEW j \in Leg, NEW n \in Numbers(link'[p][j])
          PROVE  /\ last_seq_delivered'[e] < n /\ n <= sent'[p]
                 /\ \A m \in ooo_q'[e] : m.nth # n
                 /\ \A i \in Leg : i # j => n \notin Numbers(link'[p][i])
      <4>1. n \in N(j) /\ \A i \in Leg : i # j => n \notin N2(i)
        BY <1>5 DEF N2
      <4>2. D < n /\ n <= sent[p] /\ \A m \in Q : m.nth # n
        BY <1>5, <4>1
      <4> QED
        BY <1>1, <1>13, <4>1, <4>2 DEF N2, D, Q
    <3>2. \A m \in ooo_q'[e] :
             m.seq = m.nth /\ last_seq_delivered'[e] < m.seq /\ m.seq <= sent'[p]
      BY <1>1, <1>6, <1>13 DEF D, Q
    <3> QED
      BY <1>3, <3>1, <3>2 DEF PlacePart
  <2>7. Accounted(p)'
    <3>1. ASSUME NEW n \in (D + 1)..sent[p]
          PROVE  \/ \E m \in ooo_q'[e] : m.nth = n
                 \/ \E j \in Leg : n \in Numbers(link'[p][j])
                 \/ \E j \in Leg \ legs'[e] : n = last_seq_recv'[e][j]
      <4>1. CASE n = s
        BY <1>1, <2>1, <4>1
      <4>2. CASE \E m \in Q : m.nth = n
        BY <1>13, <4>2 DEF Q
      <4>3. CASE n # s /\ \E j \in Leg : n \in N(j)
        BY <1>5, <4>3 DEF N2
      <4>4. CASE \E j \in Leg \ legs[e] : n = last_seq_recv[e][j]
        BY <1>1, <2>1, <4>4
      <4> QED
        BY <1>8, <4>1, <4>2, <4>3, <4>4
    <3>2. (last_seq_delivered'[e] + 1)..sent'[p] = (D + 1)..sent[p]
      BY <1>1, <1>13 DEF D
    <3> QED
      BY <1>3, <3>1, <3>2, Zenon DEF Accounted
  <2> QED
    BY <1>1, <2>1, <2>2, <2>3, <2>4, <2>5, <2>6, <2>7, BothDirections DEF DirectionInv
\* Before its turn, and there is room.
<1>14. CASE /\ s > D + 1
            /\ ooo_q' = [ooo_q EXCEPT ![e] = @ \cup {[seq |-> s, nth |-> c.nth]}]
            /\ UNCHANGED <<legs, curr_leg, broken, last_seq_delivered, delivered, protocol_error>>
  <2> DEFINE new == [seq |-> s, nth |-> s]
  <2>1. /\ ooo_q' \in [End -> SUBSET [seq : Nat, nth : Nat]]
        /\ ooo_q'[e] = Q \cup {new} /\ ooo_q'[p] = ooo_q[p]
    <3>1. ooo_q \in [End -> SUBSET [seq : Nat, nth : Nat]]
      BY <1>3 DEF TypeOK
    <3>2. new \in [seq : Nat, nth : Nat]
      BY <1>7
    <3>3. ooo_q' = [ooo_q EXCEPT ![e] = @ \cup {new}]
      BY <1>1, <1>14
    <3> HIDE DEF new
    <3> QED
      BY <1>3, <3>1, <3>2, <3>3 DEF Q
  <2>2. new.seq = s /\ new.nth = s
    OBVIOUS
  <2> HIDE DEF new
  <2>3. TypeOK' /\ ~protocol_error'
    BY <1>1, <1>3, <1>14, <2>1 DEF TypeOK
  <2>4. /\ SendPart(e)' /\ SendPart(p)' /\ FlowPart(e)' /\ FlowPart(p)'
    BY <1>11, <1>14
  <2>5. PlacePart(e)' /\ Accounted(e)' /\ DeliverPart(p)'
    BY <1>9, <1>14, <2>1
  <2>6. DeliverPart(e)'
    BY <1>1, <1>3, <1>4, <1>14, FrameDeliver DEF D
  <2>7. PlacePart(p)'
    <3>1. ASSUME NEW j \in Leg, NEW n \in Numbers(link'[p][j])
          PROVE  /\ last_seq_delivered'[e] < n /\ n <= sent'[p]
                 /\ \A m \in ooo_q'[e] : m.nth # n
                 /\ \A i \in Leg : i # j => n \notin Numbers(link'[p][i])
      <4>1. n \in N(j) /\ n # s /\ \A i \in Leg : i # j => n \notin N2(i)
        BY <1>5 DEF N2
      <4>2. D < n /\ n <= sent[p] /\ \A m \in Q : m.nth # n
        BY <1>5, <4>1
      <4>3. \A m \in ooo_q'[e] : m.nth # n
        BY <2>1, <2>2, <4>1, <4>2
      <4> QED
        BY <1>1, <1>14, <4>1, <4>2, <4>3 DEF N2, D
    <3>2. \A m \in ooo_q'[e] :
             m.seq = m.nth /\ last_seq_delivered'[e] < m.seq /\ m.seq <= sent'[p]
      BY <1>1, <1>6, <1>7, <1>14, <2>1, <2>2 DEF D
    <3> QED
      BY <1>3, <3>1, <3>2 DEF PlacePart
  <2>8. Accounted(p)'
    <3>1. ASSUME NEW n \in (D + 1)..sent[p]
          PROVE  \/ \E m \in ooo_q'[e] : m.nth = n
                 \/ \E j \in Leg : n \in Numbers(link'[p][j])
                 \/ \E j \in Leg \ legs'[e] : n = last_seq_recv'[e][j]
      <4>1. CASE n = s
        BY <2>1, <2>2, <4>1
      <4>2. CASE \E m \in Q : m.nth = n
        BY <2>1, <4>2
      <4>3. CASE n # s /\ \E j \in Leg : n \in N(j)
        BY <1>5, <4>3 DEF N2
      <4>4. CASE \E j \in Leg \ legs[e] : n = last_seq_recv[e][j]
        BY <1>1, <1>14, <4>4
      <4> QED
        BY <1>8, <4>1, <4>2, <4>3, <4>4
    <3>2. (last_seq_delivered'[e] + 1)..sent'[p] = (D + 1)..sent[p]
      BY <1>1, <1>14 DEF D
    <3> QED
      BY <1>3, <3>1, <3>2, Zenon DEF Accounted
  <2> QED
    BY <1>1, <2>3, <2>4, <2>5, <2>6, <2>7, <2>8, BothDirections DEF DirectionInv
<1>15. ~(s <= D)
  BY <1>3, <1>7
<1>16. CASE s = D + 1
  <2>1. ~(s <= D) /\ ~(s > D + 1)
    BY <1>3, <1>7, <1>16
  <2>2. /\ \E k \in 0..Cardinality(ReadyInQueue(e, s)) :
             /\ last_seq_delivered' = [last_seq_delivered EXCEPT ![e] = s + k]
             /\ delivered' = [delivered EXCEPT ![e] =
                                Append(@, c.nth) \o InSeqOrder(ReadyInQueue(e, s), s, k)]
             /\ ooo_q' = [ooo_q EXCEPT ![e] =
                            @ \ {m \in ReadyInQueue(e, s) : m.seq <= s + k}]
             /\ \/ UNCHANGED <<legs, curr_leg, broken>>
                \/ CloseLeg(e, l, [last_seq_recv EXCEPT ![e][l] = s])
        /\ UNCHANGED protocol_error
    BY <1>16, <2>1, Zenon DEF ReceiveMultiplexed, D, s
  <2> QED
    BY <1>12, <1>16, <2>2
<1> QED
  BY <1>3, <1>7, <1>13, <1>14, <1>15, <1>16 DEF ReceiveMultiplexed, D, s

-----------------------------------------------------------------------------
(* The theorems.                                                           *)

LEMMA EmptyLeg ==
    /\ <<>> \in Seq(Cell) /\ Numbering(<<>>, 0, 0) /\ Distinct(<<>>) /\ Numbers(<<>>) = {}
    /\ Count(<<>>, "DATA") = 0 /\ Count(<<>>, "SENDME") = 0
<1>1. <<>> \in Seq(Cell) /\ Len(<<>>) = 0 /\ DOMAIN <<>> = {}
  OBVIOUS
<1>2. Numbering(<<>>, 0, 0)
  <2> DEFINE f == [i \in 0..0 |-> 0]
  <2>1. f \in [0..Len(<<>>) -> 0..0] /\ f[0] = 0 /\ f[Len(<<>>)] = 0
    BY <1>1
  <2>2. \A i \in 1..Len(<<>>) : Steps(<<>>[i], f[i - 1], f[i])
    BY <1>1
  <2> HIDE DEF f
  <2> QED
    BY <2>1, <2>2 DEF Numbering
<1>3. Distinct(<<>>) /\ Numbers(<<>>) = {}
  BY <1>1 DEF Distinct, Numbers
<1>4. ASSUME NEW x PROVE Count(<<>>, x) = 0
  <2>1. {i \in DOMAIN <<>> : <<>>[i].cmd = x} = {}
    BY <1>1
  <2> QED
    BY <2>1, FS_EmptySet, Zenon DEF Count
<1> QED
  BY <1>1, <1>2, <1>3, <1>4

LEMMA AckedLeg ==
    ASSUME NEW q, q = <<[cmd |-> "LINKED_ACK", nth |-> 0, rel |-> 0]>>
    PROVE  /\ q \in Seq(Cell) /\ Numbering(q, 0, 0) /\ Distinct(q) /\ Numbers(q) = {}
           /\ Count(q, "DATA") = 0 /\ Count(q, "SENDME") = 0
<1> DEFINE c == [cmd |-> "LINKED_ACK", nth |-> 0, rel |-> 0]
           o == <<>>
<1>1. c \in Cell /\ c.cmd = "LINKED_ACK" /\ c.cmd \notin Mux
  BY DEF Cell, Mux
<1>2. Steps(c, 0, 0)
  BY <1>1 DEF Steps
<1>3. q = Append(o, c)
  OBVIOUS
<1>4. /\ o \in Seq(Cell) /\ Numbering(o, 0, 0) /\ Distinct(o) /\ Numbers(o) = {}
      /\ Count(o, "DATA") = 0 /\ Count(o, "SENDME") = 0
  BY EmptyLeg
<1> HIDE DEF c, o
<1>5. q \in Seq(Cell) /\ Numbering(q, 0, 0)
  <2>1. Append(o, c) \in Seq(Cell)
    BY <1>1, <1>4, AppendFacts
  <2>2. 0 \in Nat /\ 0 <= 0
    OBVIOUS
  <2>3. Numbering(Append(o, c), 0, 0)
    BY <1>1, <1>2, <1>4, <2>2, NumberingAppend, Zenon
  <2> QED
    BY <1>3, <2>1, <2>3
<1>6. Distinct(q) /\ Numbers(q) = {}
  BY <1>1, <1>3, <1>4, DistinctAppend, NumbersAppend
<1>7. Count(q, "DATA") = 0 /\ Count(q, "SENDME") = 0
  <2>1. ASSUME NEW x, c.cmd # x PROVE Count(Append(o, c), x) = Count(o, x)
    BY <1>1, <1>4, <2>1, CountAppend
  <2>2. c.cmd # "DATA" /\ c.cmd # "SENDME"
    BY <1>1
  <2> QED
    BY <1>3, <1>4, <2>1, <2>2
<1> QED
  BY <1>5, <1>6, <1>7

\* A set just linked.
LEMMA InvInit == Init => IInv
<1> SUFFICES ASSUME Init PROVE IInv
  OBVIOUS
<1>1. ASSUME NEW e \in End, NEW l \in Leg
      PROVE  /\ link[e][l] \in Seq(Cell) /\ Numbering(link[e][l], 0, 0) /\ Distinct(link[e][l])
             /\ Numbers(link[e][l]) = {}
             /\ Count(link[e][l], "DATA") = 0 /\ Count(link[e][l], "SENDME") = 0
  <2>1. link[e][l] = <<[cmd |-> "LINKED_ACK", nth |-> 0, rel |-> 0]>> \/ link[e][l] = <<>>
    BY DEF Init
  <2>2. CASE link[e][l] = <<>>
    BY <2>2, EmptyLeg
  <2>3. CASE link[e][l] = <<[cmd |-> "LINKED_ACK", nth |-> 0, rel |-> 0]>>
    BY <2>3, AckedLeg, Zenon
  <2> QED
    BY <2>1, <2>2, <2>3
<1>2. TypeOK
  <2>1. link \in [End -> [Leg -> Seq(Cell)]]
    <3>1. /\ link = [e \in End |-> link[e]]
          /\ \A e \in End : link[e] = [l \in Leg |-> link[e][l]]
      BY DEF Init
    <3> QED
      BY <1>1, <3>1
  <2>2. 0 \in 0..Cwnd /\ 0 \in 0..(SendmeInc - 1)
    BY ConstantsAssumption
  <2>3. /\ legs \in [End -> SUBSET Leg] /\ measured \in [End -> SUBSET Leg]
        /\ curr_leg \in [End -> Leg \cup {NoLeg}]
        /\ ooo_q \in [End -> SUBSET [seq : Nat, nth : Nat]] /\ broken \subseteq Leg
    BY DEF Init
  <2>4. /\ last_seq_sent \in [End -> [Leg -> Nat]] /\ last_seq_recv \in [End -> [Leg -> Nat]]
        /\ last_seq_delivered \in [End -> Nat] /\ sent \in [End -> Nat]
        /\ inflight \in [End -> [Leg -> 0..Cwnd]]
        /\ data_rcvd \in [End -> [Leg -> 0..(SendmeInc - 1)]]
    BY <2>2 DEF Init
  <2>5. delivered \in [End -> Seq(Nat)] /\ protocol_error \in BOOLEAN
    <3>1. delivered \in [End -> Seq(Nat)]
      BY DEF Init
    <3>2. protocol_error \in BOOLEAN
      BY Zenon DEF Init
    <3> QED
      BY <3>1, <3>2
  <2> QED
    BY <2>1, <2>3, <2>4, <2>5 DEF TypeOK
<1>3. ASSUME NEW e \in End PROVE DirectionInv(e)
  <2>1. Peer(e) \in End
    BY Peers
  <2>2. /\ sent[e] = 0 /\ sent[Peer(e)] = 0 /\ last_seq_delivered[e] = 0
        /\ last_seq_delivered[Peer(e)] = 0
        /\ legs[e] = Leg /\ curr_leg[e] = NoLeg /\ ooo_q[Peer(e)] = {} /\ delivered[e] = <<>>
        /\ \A l \in Leg : /\ last_seq_sent[e][l] = 0 /\ last_seq_recv[Peer(e)][l] = 0
                          /\ inflight[e][l] = 0 /\ data_rcvd[Peer(e)][l] = 0
    BY <2>1 DEF Init
  <2>3. SendPart(e) /\ PlacePart(e) /\ LegPart(e)
    <3>1. SendPart(e)
      BY <2>2 DEF SendPart
    <3>2. PlacePart(e)
      BY <1>1, <2>2 DEF PlacePart
    <3>3. LegPart(e)
      BY <1>1, <2>2 DEF LegPart
    <3> QED
      BY <3>1, <3>2, <3>3
  <2>4. Accounted(e)
    BY <2>2 DEF Accounted
  <2>5. FlowPart(e)
    <3>1. SendmeInc * 0 = 0 /\ SendmeInc \in Nat
      BY ConstantsAssumption
    <3> QED
      BY <1>1, <2>1, <2>2, <3>1 DEF FlowPart
  <2>6. DeliverPart(e)
    <3>1. <<>> = [i \in 1..0 |-> i]
      OBVIOUS
    <3> QED
      BY <2>2, <3>1 DEF DeliverPart
  <2> QED
    BY <2>3, <2>4, <2>5, <2>6 DEF DirectionInv
<1> QED
  BY <1>2, <1>3 DEF IInv, Init

LEMMA InvNext == IInv /\ [Next]_vars => IInv'
<1> SUFFICES ASSUME IInv, [Next]_vars PROVE IInv'
  OBVIOUS
<1>1. ASSUME NEW e \in End, NEW cmd \in Command, SendCell(e, cmd) PROVE IInv'
  BY <1>1, InvSendCell
<1>2. ASSUME NEW e \in End, NEW l \in Leg, Receive(e, l) PROVE IInv'
  BY <1>2, InvSwitchOrAck, InvReceiveSendme, InvReceiveMultiplexed DEF Receive
<1>3. ASSUME NEW e \in End, NEW l \in Leg, LegCloses(e, l) PROVE IInv'
  BY <1>3, InvLegCloses
<1>4. ASSUME NEW l \in Leg, LegFails(l) PROVE IInv'
  BY <1>4, InvLegFails
<1>5. CASE UNCHANGED vars
  <2>1. UNCHANGED <<legs, curr_leg, measured, last_seq_sent, last_seq_recv, inflight, data_rcvd,
                    last_seq_delivered, ooo_q, link, broken, sent, delivered, protocol_error>>
    BY <1>5 DEF vars, leg_state
  <2>2. TypeOK' /\ ~protocol_error'
    BY <2>1 DEF IInv, TypeOK
  <2>3. ASSUME NEW e \in End PROVE DirectionInv(e)'
    <3>1. DirectionInv(e)
      BY DEF IInv
    <3>2. SendPart(e)' /\ LegPart(e)' /\ PlacePart(e)'
      BY <2>1, <3>1 DEF DirectionInv, SendPart, LegPart, PlacePart
    <3>3. Accounted(e)' /\ FlowPart(e)' /\ DeliverPart(e)'
      BY <2>1, <3>1 DEF DirectionInv, Accounted, FlowPart, DeliverPart
    <3> QED
      BY <3>2, <3>3 DEF DirectionInv
  <2> QED
    BY <2>2, <2>3 DEF IInv
<1>6. ASSUME NEW e \in End, PickLeg(e) \/ SendFails(e) PROVE IInv'
  BY <1>6, InvPickLeg, InvSendFails
<1> QED
  BY <1>1, <1>2, <1>3, <1>4, <1>5, <1>6 DEF Next

\* The numbers of the two ends stay tied to each other by the cells on the legs, whatever
\* the schedule of the legs and wherever they fail.
THEOREM Invariance == Spec => []IInv
  BY InvInit, InvNext, PTL DEF Spec

\* conflux_process_relay_msg, conflux_dequeue_relay_msg: the streams of an end get the cells
\* of the peer in the order they were sent, each once and none skipped.
THEOREM DeliversInOrder == Spec => []InOrderDelivery
<1>1. IInv => InOrderDelivery
  <2> SUFFICES ASSUME IInv PROVE InOrderDelivery
    OBVIOUS
  <2>1. ASSUME NEW e \in End
        PROVE  /\ delivered[e] = [i \in 1..Len(delivered[e]) |-> i]
               /\ Len(delivered[e]) = last_seq_delivered[e]
               /\ last_seq_delivered[e] <= sent[Peer(e)]
    <3>1. DeliverPart(e) /\ last_seq_delivered[e] \in Nat
      BY Types DEF DirectionInv
    <3>2. Len(delivered[e]) = last_seq_delivered[e]
      BY <3>1 DEF DeliverPart
    <3> QED
      BY <3>1, <3>2 DEF DeliverPart
  <2> QED
    BY <2>1 DEF InOrderDelivery, IInv
<1> QED
  BY <1>1, Invariance, PTL

\* Two honest ends never take the paths for incoherent numbers of
\* conflux_decide_circ_for_send and conflux_process_relay_msg.
THEOREM SequencesAreCoherent == Spec => []CoherentSequences
<1>1. IInv => CoherentSequences
  BY DEF IInv, CoherentSequences
<1> QED
  BY <1>1, Invariance, PTL

\* cfx_del_leg: what a leg that is gone has cost, for any number of legs.
THEOREM LossIsBounded == Spec => []LossBounded
<1>1. IInv => LossBounded
  <2> SUFFICES ASSUME IInv, NEW e \in End
               PROVE  LET p == Peer(e)
                      IN  /\ \A n \in (last_seq_delivered[p] + 1)..sent[e] :
                               \/ \E m \in ooo_q[p] : m.nth = n
                               \/ \E l \in Leg : n \in Numbers(link[e][l])
                               \/ \E l \in Leg \ legs[p] : n = last_seq_recv[p][l]
                          /\ legs[e] # {} =>
                               \A l \in Leg \ legs[e] : Count(link[e][l], "DATA") < SendmeInc
    BY Zenon DEF LossBounded
  <2> DEFINE p == Peer(e)
  <2>1. DirectionInv(e) /\ p \in End
    BY Types, Peers
  <2>2. ASSUME legs[e] # {}, NEW l \in Leg \ legs[e]
        PROVE  Count(link[e][l], "DATA") < SendmeInc
    <3> DEFINE d == Count(link[e][l], "DATA")
               z == SendmeInc * Count(link[p][l], "SENDME")
    <3>1. d \in Nat /\ z \in Nat /\ data_rcvd[p][l] \in Nat /\ SendmeInc \in Nat
      <4>1. link[e][l] \in Seq(Cell) /\ link[p][l] \in Seq(Cell)
        BY <2>1, Types
      <4>2. d \in Nat /\ Count(link[p][l], "SENDME") \in Nat
        BY <4>1, CountType
      <4>3. data_rcvd[p][l] \in 0..(SendmeInc - 1) /\ SendmeInc \in Nat
        BY <2>1, Types, ConstantsAssumption
      <4> QED
        BY <4>2, <4>3
    <3>2. inflight[e][l] = d + data_rcvd[p][l] + z /\ inflight[e][l] < SendmeInc
      BY <2>1, <2>2 DEF DirectionInv, FlowPart
    <3> HIDE DEF d, z
    <3>3. d < SendmeInc
      BY <3>1, <3>2
    <3> QED
      BY <3>3 DEF d
  <2>3. Accounted(e)
    BY <2>1 DEF DirectionInv
  <2> QED
    BY <2>2, <2>3 DEF Accounted
<1> QED
  BY <1>1, Invariance, PTL

=============================================================================
