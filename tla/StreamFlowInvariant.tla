------------------------ MODULE StreamFlowInvariant ------------------------
(***************************************************************************)
(* The inductive invariant of StreamFlow, and what its parts are made of:  *)
(* the cells of a stream on the two links of its circuit, what each end    *)
(* knows of the stream, the edges and the windows.  The lemmas say what a  *)
(* step on one end does to these parts, and that every step of the exit    *)
(* keeps the invariant.  StreamFlowProofs has the steps of the client and  *)
(* the theorems.                                                           *)
(***************************************************************************)
EXTENDS StreamFlow, FiniteSetTheorems, FunctionTheorems, SequenceTheorems,
        WellFoundedInduction, TLAPS

-----------------------------------------------------------------------------
(* Cells on a link.                                                        *)

\* How many cells of a queue are in a set.
Count(q, S) == Cardinality({k \in DOMAIN q : q[k] \in S})

DataSet == {x \in Cell : x.cmd = "DATA"}
CircSendmeSet == {x \in Cell : x.cmd = "CIRC_SENDME"}
SendmeSet(i) == {x \in Cell : x.cmd = "SENDME" /\ x.id = i}

\* A queue has a cell of stream i with this command, or none of stream i at all.
Has(q, i, cmd) == \E k \in DOMAIN q : q[k].id = i /\ q[k].cmd = cmd
NoCell(q, i) == \A k \in DOMAIN q : q[k].id # i

\* The DATA cells of stream i that no BEGIN of it follows: those of the stream that has
\* the id now, and not of an earlier one.
DataAt(q, i) ==
    {k \in DOMAIN q : /\ q[k].id = i /\ q[k].cmd = "DATA"
                      /\ \A b \in DOMAIN q : q[b].id = i /\ q[b].cmd = "BEGIN" => b < k}

\* They carry the data of connection o from number r + 1 to t, in order.
DataRange(q, i, o, r, t) ==
    /\ r \in Nat /\ t \in Nat /\ r <= t
    /\ \A k \in DataAt(q, i) : q[k].conn = o /\ q[k].n > r /\ q[k].n <= t
    /\ \A n \in Nat : r < n /\ n <= t => \E k \in DataAt(q, i) : q[k].n = n
    /\ \A j, k \in DataAt(q, i) : j < k => q[j].n < q[k].n

\* A BEGIN of stream i names connection o, and only data and perhaps an END follow it.
BeginFirst(q, i, o, end) ==
    \A j \in DOMAIN q : q[j].id = i /\ q[j].cmd = "BEGIN" =>
      /\ q[j].conn = o
      /\ \A k \in DOMAIN q : q[k].id = i /\ j < k =>
           q[k].cmd = "DATA" \/ (end /\ q[k].cmd = "END")

\* A CONNECTED of stream i comes before its other cells, and an END after them.
ConnectedFirst(q, i) ==
    \A j, k \in DOMAIN q : q[j].id = i /\ q[j].cmd = "CONNECTED" /\ q[k].id = i => j <= k
EndLast(q, i) ==
    \A j, k \in DOMAIN q : q[j].id = i /\ q[j].cmd = "END" /\ q[k].id = i => k <= j

-----------------------------------------------------------------------------
(* The inductive invariant.                                                *)

\* How many cells an edge has sent.
SentOf(edge) == edge.written - Len(edge.in) - Len(edge.sending)

\* What the client knows of a stream: the connection o, the windows w for its packaging
\* and d for its delivery, whether it waits for the CONNECTED, how much it got and sent,
\* and whether it has closed the stream.
View == [o : Conn, w : 0..StreamStart, d : 0..StreamStart, x : BOOLEAN, g : Nat, s : Nat,
         h : BOOLEAN]

ViewOf(edge) ==
    [o |-> edge.conn, w |-> edge.package, d |-> edge.deliver,
     x |-> edge.state = "connect_wait", g |-> Len(edge.got), s |-> SentOf(edge), h |-> FALSE]

\* A half edge keeps of it only what the account needs.
HalfView(h, v) ==
    /\ v.h /\ v.d = h.data /\ v.x = h.connected
    /\ h.sendmes = (StreamStart - v.w) \div StreamInc

\* What the exit knows of it.
Far == [state : {"none", "connecting", "open"}, o : Conn, w : 0..StreamStart,
        d : 0..StreamStart, g : Nat, s : Nat]

FarOf(edge) ==
    [state |-> edge.state, o |-> edge.conn, w |-> edge.package, d |-> edge.deliver,
     g |-> Len(edge.got), s |-> SentOf(edge)]

\* The order of the cells from the exit: the CONNECTED first, the END last, and data and
\* SENDMEs only when the CONNECTED is before them or has arrived.
Opening(i, x, M) ==
    /\ Has(M, i, "CONNECTED") => x
    /\ ConnectedFirst(M, i) /\ EndLast(M, i)
    /\ x /\ ~Has(M, i, "CONNECTED") => ~Has(M, i, "DATA") /\ ~Has(M, i, "SENDME")

\* Stream i of a circuit with the client's view v, the exit's view y and the cells L to
\* the exit and M to the client.  Its BEGIN is on the way.
Begun(i, v, y, L, M) ==
    /\ y.state = "none" /\ NoCell(M, i) /\ Has(L, i, "BEGIN")
    /\ BeginFirst(L, i, v.o, v.h)
    /\ DataRange(L, i, v.o, 0, v.s)
    /\ v.x /\ v.d = StreamStart /\ v.g = 0 /\ v.w + v.s = StreamStart

\* The exit has an edge for it.
Alive(i, v, y, L, M) ==
    /\ y.state \in {"connecting", "open"} /\ y.o = v.o
    /\ ~Has(L, i, "BEGIN") /\ ~Has(M, i, "BEGIN")
    /\ (v.h \/ ~Has(L, i, "END")) /\ ~Has(M, i, "END")
    /\ DataRange(L, i, v.o, y.g, v.s)
    /\ DataRange(M, i, v.o, v.g, y.s)
    /\ v.w + (v.s - y.g) + StreamInc * Count(M, SendmeSet(i)) = y.d
    /\ y.w + (y.s - v.g) + StreamInc * Count(L, SendmeSet(i)) = v.d
    /\ v.x => ~Has(L, i, "SENDME")
    /\ y.state = "connecting" => NoCell(M, i) /\ v.x
    /\ y.state = "open" /\ v.x => Has(M, i, "CONNECTED")
    /\ Opening(i, v.x, M)

\* The exit has closed it.  If the client has not, the END is on the way.
Over(i, v, y, L, M) ==
    /\ y.state = "none" /\ ~Has(L, i, "BEGIN") /\ ~Has(M, i, "BEGIN")
    /\ v.h \/ (Has(M, i, "END") /\ ~Has(L, i, "END"))
    /\ v.w + StreamInc * Count(M, SendmeSet(i)) <= StreamStart
    /\ \E t \in Nat : DataRange(M, i, v.o, v.g, t) /\ t - v.g <= v.d
    /\ Opening(i, v.x, M)

Joined(i, v, y, L, M) == Begun(i, v, y, L, M) \/ Alive(i, v, y, L, M) \/ Over(i, v, y, L, M)

\* An id that the client does not use: only cells of earlier streams are left of it.
Unused(i, y, L, M) == y.state = "none" /\ ~Has(L, i, "BEGIN") /\ NoCell(M, i)

\* Stream i of a circuit to which the connections of at attached it, with the client's
\* edges A and its half edge h.
Stream(i, at, A, h, y, L, M) ==
    /\ \A a \in at : Joined(i, ViewOf(A[a]), y, L, M)
    /\ h.live => \E v \in View : HalfView(h, v) /\ Joined(i, v, y, L, M)
    /\ at = {} /\ ~h.live => Unused(i, y, L, M)

\* All streams of a circuit to which the connections ks are attached, with the client's
\* half edges H and the exit's edges N.
Streams(ks, A, H, N, L, M) ==
    \A i \in Id : Stream(i, {a \in ks : A[a].id = i}, A, H[i], FarOf(N[i]), L, M)

\* Which edges the client has.  A stream id has one user at most at the client.
OwnPart ==
    /\ \A a \in Conn : /\ ap[a].conn = a
                       /\ ap[a].state \in {"circuit_wait", "connect_wait", "open", "closed"}
                       /\ on_circuit[a] # NoCirc <=> ap[a].state \in {"connect_wait", "open"}
                       /\ on_circuit[a] # NoCirc => ap[a].id \in Id
    /\ \A a, b \in Conn : on_circuit[a] # NoCirc /\ on_circuit[a] = on_circuit[b]
                            /\ ap[a].id = ap[b].id => a = b
    /\ \A a \in Conn : on_circuit[a] # NoCirc => ~half_streams[on_circuit[a]][ap[a].id].live

\* The windows of a circuit: what the sender may still package, what is under way in both
\* directions, and what the receiver still accepts.
Balance(package, deliver, Q, R) ==
    package + Count(Q, DataSet) + CircInc * Count(R, CircSendmeSet) = deliver

\* The cells for the circuit are those without a stream id.
Named(q) == \A k \in DOMAIN q : q[k].cmd # "CIRC_SENDME" <=> q[k].id \in Id

\* One end of a circuit packages under p, delivers under d and has L under way; the other
\* end packages under q, delivers under f and has M under way.  Both have sent the SENDMEs
\* that are due.
Links(p, q, d, f, L, M) ==
    /\ Balance(p, f, L, M) /\ Balance(q, d, M, L)
    /\ d > CircStart - CircInc /\ f > CircStart - CircInc
    /\ Named(L) /\ Named(M)

\* An edge holds the data of its connection, without gaps: what it got, what it is to send
\* again and what is on its inbuf.
EdgePart(edge) ==
    /\ edge.written >= Len(edge.in) + Len(edge.sending)
    /\ \A j \in 1..Len(edge.in) : edge.in[j] = Data(edge.conn, edge.written - Len(edge.in) + j)
    /\ \A j \in 1..Len(edge.sending) : edge.sending[j] = Data(edge.conn, SentOf(edge) + j)
    /\ \A j \in 1..Len(edge.got) : edge.got[j] = Data(edge.conn, j)
    /\ edge.out = 0 => edge.deliver > StreamStart - StreamInc

\* A stream that is not open has got nothing, and keeps all that left its inbuf.
ClientPart(edge) ==
    /\ EdgePart(edge)
    /\ edge.state \in {"circuit_wait", "connect_wait"} =>
         /\ edge.got = <<>> /\ edge.out = 0
         /\ Len(edge.pending) = edge.written - Len(edge.in)
         /\ \A j \in 1..Len(edge.pending) : edge.pending[j] = Data(edge.conn, j)
    /\ edge.state = "circuit_wait" => Len(edge.sending) = Len(edge.pending)

ExitPart(edge) ==
    /\ EdgePart(edge) /\ edge.sending = <<>>
    /\ edge.state = "connecting" => edge.written = 0

\* An edge with both windows open reads, and has sent what it read.
Flows(window, edge) ==
    window > 0 /\ edge.package > 0 =>
      edge.reading /\ (edge.state = "open" => edge.in = <<>> /\ edge.sending = <<>>)

\* The edges that the exit has on a circuit with this package window keep going.
Exits(N, window) ==
    \A i \in Id : /\ N[i].state \in {"none", "connecting", "open"}
                  /\ N[i].state # "none" => N[i].id = i
                  /\ ExitPart(N[i])
                  /\ N[i].state = "open" => Flows(window, N[i])

CircuitPart(c) ==
    /\ Links(package_window["client"][c], package_window["exit"][c],
             deliver_window["client"][c], deliver_window["exit"][c],
             link["client"][c], link["exit"][c])
    /\ Streams(On("client", c), ap, half_streams[c], n_streams[c],
               link["client"][c], link["exit"][c])
    /\ Exits(n_streams[c], package_window["exit"][c])

\* The client's edge of a stream on its first circuit keeps going.
FlowPart(a) ==
    /\ IsFiniteSet(tried[a])
    /\ on_circuit[a] # NoCirc => on_circuit[a] \in tried[a]
    /\ ap[a].state = "circuit_wait" /\ tried[a] = {} => ap[a].reading /\ ap[a].sending = <<>>
    /\ on_circuit[a] # NoCirc /\ tried[a] = {on_circuit[a]} =>
         ap[a].sending = <<>> /\ Flows(package_window["client"][on_circuit[a]], ap[a])

IInv ==
    /\ TypeOK /\ refused = {} /\ OwnPart
    /\ \A c \in Circ : CircuitPart(c)
    /\ \A a \in Conn : ClientPart(ap[a]) /\ FlowPart(a)

-----------------------------------------------------------------------------
(* Queues.                                                                 *)

LEMMA TailFacts ==
    ASSUME NEW S, NEW q \in Seq(S), q # <<>>
    PROVE  /\ Tail(q) \in Seq(S) /\ Len(q) \in Nat /\ Len(q) >= 1
           /\ Len(Tail(q)) = Len(q) - 1
           /\ DOMAIN q = 1..Len(q) /\ DOMAIN Tail(q) = 1..(Len(q) - 1)
           /\ \A k \in 1..(Len(q) - 1) : Tail(q)[k] = q[k + 1]
           /\ Head(q) = q[1] /\ Head(q) \in S
OBVIOUS

LEMMA ConcatFacts ==
    ASSUME NEW S, NEW q \in Seq(S), NEW r \in Seq(S)
    PROVE  /\ q \o r \in Seq(S) /\ Len(q) \in Nat /\ Len(r) \in Nat
           /\ Len(q \o r) = Len(q) + Len(r)
           /\ DOMAIN q = 1..Len(q) /\ DOMAIN r = 1..Len(r)
           /\ DOMAIN (q \o r) = 1..(Len(q) + Len(r))
           /\ \A k \in 1..Len(q) : (q \o r)[k] = q[k]
           /\ \A k \in 1..Len(r) : (q \o r)[Len(q) + k] = r[k]
OBVIOUS

\* A concatenation seen from its own indices.
LEMMA ConcatSplit ==
    ASSUME NEW S, NEW q \in Seq(S), NEW r \in Seq(S), NEW k \in DOMAIN (q \o r)
    PROVE  \/ k \in DOMAIN q /\ (q \o r)[k] = q[k]
           \/ k > Len(q) /\ k - Len(q) \in DOMAIN r /\ (q \o r)[k] = r[k - Len(q)]
<1> DEFINE z == q \o r
<1>1. /\ Len(q) \in Nat /\ Len(r) \in Nat
      /\ DOMAIN q = 1..Len(q) /\ DOMAIN r = 1..Len(r)
      /\ DOMAIN z = 1..(Len(q) + Len(r))
      /\ \A m \in 1..Len(q) : z[m] = q[m]
      /\ \A m \in 1..Len(r) : z[Len(q) + m] = r[m]
  BY ConcatFacts
<1>2. k \in DOMAIN z
  OBVIOUS
<1> HIDE DEF z
<1>3. CASE k <= Len(q)
  BY <1>1, <1>2, <1>3 DEF z
<1>4. CASE k > Len(q)
  <2>1. k - Len(q) \in 1..Len(r) /\ Len(q) + (k - Len(q)) = k
    BY <1>1, <1>2, <1>4
  <2> QED
    BY <1>1, <1>4, <2>1 DEF z
<1> QED
  BY <1>1, <1>2, <1>3, <1>4

LEMMA HeadTail ==
    ASSUME NEW S, NEW q \in Seq(S), q # <<>>
    PROVE  q = <<Head(q)>> \o Tail(q) /\ <<Head(q)>> \in Seq(S) /\ Tail(q) \in Seq(S)
OBVIOUS

LEMMA CountType ==
    ASSUME NEW S, NEW q \in Seq(S), NEW T
    PROVE  /\ IsFiniteSet({k \in DOMAIN q : q[k] \in T})
           /\ Count(q, T) \in Nat
<1>1. DOMAIN q = 1..Len(q) /\ Len(q) \in Nat
  OBVIOUS
<1>2. IsFiniteSet(1..Len(q))
  BY <1>1, FS_Interval
<1>3. {k \in DOMAIN q : q[k] \in T} \in SUBSET (1..Len(q))
  BY <1>1
<1>4. IsFiniteSet({k \in DOMAIN q : q[k] \in T})
  BY <1>2, <1>3, FS_Subset, Zenon
<1> QED
  BY <1>4, FS_CardinalityType DEF Count

\* A shift of the indices keeps the count.
LEMMA CountShift ==
    ASSUME NEW S, NEW q \in Seq(S), NEW r \in Seq(S), NEW T, NEW d \in Int,
           \A k \in DOMAIN q : q[k] \in T => k + d \in DOMAIN r /\ r[k + d] \in T,
           \A k \in DOMAIN r : r[k] \in T => k - d \in DOMAIN q /\ q[k - d] \in T
    PROVE  Count(r, T) = Count(q, T)
<1> DEFINE Q == {k \in DOMAIN q : q[k] \in T}
           R == {k \in DOMAIN r : r[k] \in T}
           f == [k \in Q |-> k + d]
<1>1. IsFiniteSet(Q)
  BY CountType
<1>2. DOMAIN q \subseteq Int /\ DOMAIN r \subseteq Int
  OBVIOUS
<1>3. /\ \A k \in Q : k + d \in R
      /\ \A j, k \in Q : j + d = k + d => j = k
  BY <1>2
<1>4. \A k \in R : \E j \in Q : j + d = k
  <2> TAKE k \in R
  <2>1. k - d \in Q /\ (k - d) + d = k
    BY <1>2
  <2> QED
    BY <2>1
<1>5. Count(q, T) = Cardinality(Q) /\ Count(r, T) = Cardinality(R)
  BY DEF Count
<1> HIDE DEF Q, R
<1>6. f \in Bijection(Q, R)
  BY <1>3, <1>4, Fun_IsBij
<1>7. ExistsBijection(Q, R)
  BY <1>6 DEF ExistsBijection
<1> QED
  BY <1>1, <1>5, <1>7, FS_Bijection

LEMMA CountConcat ==
    ASSUME NEW S, NEW q \in Seq(S), NEW r \in Seq(S), NEW T
    PROVE  Count(q \o r, T) = Count(q, T) + Count(r, T)
<1> DEFINE z == q \o r
           Q == {k \in DOMAIN q : q[k] \in T}
           R == {k \in DOMAIN r : r[k] \in T}
           Z == {k \in DOMAIN z : z[k] \in T}
           U == {k \in Z : k > Len(q)}
           f == [k \in R |-> Len(q) + k]
<1>1. /\ Len(q) \in Nat /\ Len(r) \in Nat
      /\ DOMAIN q = 1..Len(q) /\ DOMAIN r = 1..Len(r)
      /\ DOMAIN z = 1..(Len(q) + Len(r))
      /\ \A k \in 1..Len(q) : z[k] = q[k]
      /\ \A k \in 1..Len(r) : z[Len(q) + k] = r[k]
      /\ z \in Seq(S)
  BY ConcatFacts
<1>2. /\ IsFiniteSet(Q) /\ IsFiniteSet(R) /\ IsFiniteSet(Z)
      /\ Count(q, T) = Cardinality(Q) /\ Count(r, T) = Cardinality(R)
      /\ Count(q, T) \in Nat /\ Count(r, T) \in Nat
      /\ Count(z, T) = Cardinality(Z)
  BY <1>1, CountType DEF Count
<1> HIDE DEF z
<1>3. Z = Q \cup U /\ Q \cap U = {} /\ U \in SUBSET Z
  BY <1>1
<1>4. /\ \A k \in R : Len(q) + k \in U
      /\ \A j, k \in R : Len(q) + j = Len(q) + k => j = k
  BY <1>1
<1>5. \A k \in U : \E j \in R : Len(q) + j = k
  <2> TAKE k \in U
  <2>1. k - Len(q) \in 1..Len(r) /\ Len(q) + (k - Len(q)) = k
    BY <1>1
  <2> QED
    BY <1>1, <2>1
<1> HIDE DEF Q, R, U, Z
<1>6. f \in Bijection(R, U)
  BY <1>4, <1>5, Fun_IsBij
<1>7. ExistsBijection(R, U)
  BY <1>6 DEF ExistsBijection
<1>8. IsFiniteSet(U) /\ Cardinality(U) = Cardinality(R)
  BY <1>2, <1>7, FS_Bijection
<1>9. Cardinality(Z) = Cardinality(Q) + Cardinality(U) - Cardinality({})
  BY <1>2, <1>3, <1>8, FS_Union
<1> QED
  BY <1>2, <1>8, <1>9, FS_EmptySet DEF z

LEMMA CountNone ==
    ASSUME NEW S, NEW q \in Seq(S), NEW T, \A k \in DOMAIN q : q[k] \notin T
    PROVE  Count(q, T) = 0
<1>1. {k \in DOMAIN q : q[k] \in T} = {}
  OBVIOUS
<1> QED
  BY <1>1, FS_EmptySet DEF Count

LEMMA CountAll ==
    ASSUME NEW S, NEW q \in Seq(S), NEW T, \A k \in DOMAIN q : q[k] \in T
    PROVE  Count(q, T) = Len(q)
<1> DEFINE n == Len(q)
<1>1. {k \in DOMAIN q : q[k] \in T} = 1..n /\ n \in Nat
  OBVIOUS
<1> HIDE DEF n
<1>2. Cardinality(1..n) = IF 1 > n THEN 0 ELSE n - 1 + 1
  BY <1>1, FS_Interval
<1>3. Cardinality(1..n) = n
  BY <1>1, <1>2
<1> QED
  BY <1>1, <1>3 DEF Count, n

LEMMA CountPositive ==
    ASSUME NEW S, NEW q \in Seq(S), NEW T, NEW k \in DOMAIN q, q[k] \in T
    PROVE  Count(q, T) >= 1
<1> DEFINE Q == {m \in DOMAIN q : q[m] \in T}
<1>1. IsFiniteSet(Q) /\ Cardinality(Q) \in Nat /\ Count(q, T) = Cardinality(Q)
  BY CountType DEF Count
<1>2. Q # {}
  OBVIOUS
<1> HIDE DEF Q
<1>3. Cardinality(Q) # 0
  BY <1>1, <1>2, FS_EmptySet
<1> QED
  BY <1>1, <1>3

LEMMA CountTail ==
    ASSUME NEW S, NEW q \in Seq(S), q # <<>>, NEW T
    PROVE  /\ Count(q, T) \in Nat /\ Count(Tail(q), T) \in Nat
           /\ Head(q) \in T => Count(q, T) = Count(Tail(q), T) + 1
           /\ Head(q) \notin T => Count(q, T) = Count(Tail(q), T)
<1> DEFINE h == <<Head(q)>>
<1>1. q = h \o Tail(q) /\ h \in Seq(S) /\ Tail(q) \in Seq(S)
  BY HeadTail
<1>2. DOMAIN h = {1} /\ h[1] = Head(q) /\ Len(h) = 1
  OBVIOUS
<1> HIDE DEF h
<1>3. Count(q, T) \in Nat /\ Count(Tail(q), T) \in Nat /\ Count(h, T) \in Nat
  BY <1>1, CountType
<1>4. Count(q, T) = Count(h, T) + Count(Tail(q), T)
  <2>1. Count(h \o Tail(q), T) = Count(h, T) + Count(Tail(q), T)
    BY <1>1, CountConcat
  <2> QED
    BY <1>1, <2>1, Zenon
<1>5. Head(q) \in T => Count(h, T) = 1
  BY <1>1, <1>2, CountAll
<1>6. Head(q) \notin T => Count(h, T) = 0
  BY <1>1, <1>2, CountNone
<1> QED
  BY <1>3, <1>4, <1>5, <1>6

-----------------------------------------------------------------------------
(* The cells of a stream on a queue that loses its head or gets more cells. *)

LEMMA TailHas ==
    ASSUME NEW q \in Seq(Cell), q # <<>>, NEW i
    PROVE  /\ Tail(q) \in Seq(Cell) /\ Head(q) \in Cell
           /\ \A cmd : Has(Tail(q), i, cmd) => Has(q, i, cmd)
           /\ \A cmd : Has(q, i, cmd) =>
                Has(Tail(q), i, cmd) \/ (Head(q).id = i /\ Head(q).cmd = cmd)
           /\ Head(q).id = i => Has(q, i, Head(q).cmd) /\ ~NoCell(q, i)
           /\ NoCell(q, i) => NoCell(Tail(q), i)
           /\ NoCell(Tail(q), i) /\ Head(q).id # i => NoCell(q, i)
<1> DEFINE t == Tail(q)
<1>1. /\ t \in Seq(Cell) /\ Len(q) \in Nat /\ Len(q) >= 1
      /\ DOMAIN q = 1..Len(q) /\ DOMAIN t = 1..(Len(q) - 1)
      /\ \A k \in 1..(Len(q) - 1) : t[k] = q[k + 1]
      /\ Head(q) = q[1] /\ Head(q) \in Cell
  BY TailFacts
<1> HIDE DEF t
<1>2. ASSUME NEW cmd, Has(t, i, cmd) PROVE Has(q, i, cmd)
  BY <1>1, <1>2 DEF Has
<1>3. ASSUME NEW k \in DOMAIN q PROVE k = 1 \/ (k - 1 \in DOMAIN t /\ t[k - 1] = q[k])
  BY <1>1
<1>4. ASSUME NEW cmd, Has(q, i, cmd)
      PROVE  Has(t, i, cmd) \/ (Head(q).id = i /\ Head(q).cmd = cmd)
  <2>1. PICK k \in DOMAIN q : q[k].id = i /\ q[k].cmd = cmd
    BY <1>4 DEF Has
  <2> QED
    BY <1>1, <1>3, <2>1 DEF Has
<1>5. Head(q).id = i => Has(q, i, Head(q).cmd) /\ ~NoCell(q, i)
  BY <1>1 DEF Has, NoCell
<1>6. NoCell(q, i) => NoCell(t, i)
  BY <1>1 DEF NoCell
<1>7. NoCell(t, i) /\ Head(q).id # i => NoCell(q, i)
  BY <1>1, <1>3 DEF NoCell
<1> QED
  BY <1>1, <1>2, <1>4, <1>5, <1>6, <1>7 DEF t

LEMMA ConcatHas ==
    ASSUME NEW q \in Seq(Cell), NEW r \in Seq(Cell), NEW i
    PROVE  /\ q \o r \in Seq(Cell)
           /\ \A cmd : Has(q \o r, i, cmd) <=> Has(q, i, cmd) \/ Has(r, i, cmd)
           /\ NoCell(q \o r, i) <=> NoCell(q, i) /\ NoCell(r, i)
<1> DEFINE z == q \o r
<1>1. /\ Len(q) \in Nat /\ Len(r) \in Nat
      /\ DOMAIN q = 1..Len(q) /\ DOMAIN r = 1..Len(r)
      /\ DOMAIN z = 1..(Len(q) + Len(r))
      /\ \A k \in 1..Len(q) : z[k] = q[k]
      /\ \A k \in 1..Len(r) : z[Len(q) + k] = r[k]
      /\ z \in Seq(Cell)
  BY ConcatFacts
<1>2. \A k \in DOMAIN z : \/ k \in DOMAIN q /\ z[k] = q[k]
                          \/ k - Len(q) \in DOMAIN r /\ z[k] = r[k - Len(q)]
  BY ConcatSplit
<1> HIDE DEF z
<1>3. \A k \in DOMAIN q : k \in DOMAIN z /\ z[k] = q[k]
  BY <1>1
<1>4. \A k \in DOMAIN r : Len(q) + k \in DOMAIN z /\ z[Len(q) + k] = r[k]
  BY <1>1
<1>5. \A cmd : Has(z, i, cmd) => Has(q, i, cmd) \/ Has(r, i, cmd)
  BY <1>2 DEF Has
<1>6. \A cmd : Has(q, i, cmd) \/ Has(r, i, cmd) => Has(z, i, cmd)
  BY <1>3, <1>4 DEF Has
<1>7. NoCell(z, i) => NoCell(q, i) /\ NoCell(r, i)
  BY <1>3, <1>4 DEF NoCell
<1>8. NoCell(q, i) /\ NoCell(r, i) => NoCell(z, i)
  BY <1>2 DEF NoCell
<1> QED
  BY <1>1, <1>5, <1>6, <1>7, <1>8 DEF z

\* The orders that the invariant asks for.
LEMMA TailOrders ==
    ASSUME NEW q \in Seq(Cell), q # <<>>, NEW i
    PROVE  /\ \A o, end : BeginFirst(q, i, o, end) => BeginFirst(Tail(q), i, o, end)
           /\ ConnectedFirst(q, i) => ConnectedFirst(Tail(q), i)
           /\ EndLast(q, i) => EndLast(Tail(q), i)
           /\ ConnectedFirst(q, i) /\ Has(Tail(q), i, "CONNECTED") => Head(q).id # i
           /\ EndLast(q, i) /\ Head(q).id = i /\ Head(q).cmd = "END" => NoCell(Tail(q), i)
           /\ \A o, end : BeginFirst(q, i, o, end) /\ Head(q).id = i /\ Head(q).cmd = "BEGIN" =>
                /\ Head(q).conn = o
                /\ ~Has(Tail(q), i, "BEGIN") /\ ~Has(Tail(q), i, "SENDME")
                /\ Has(Tail(q), i, "END") => end
<1> DEFINE t == Tail(q)
<1>1. /\ t \in Seq(Cell) /\ Len(q) \in Nat /\ Len(q) >= 1
      /\ DOMAIN q = 1..Len(q) /\ DOMAIN t = 1..(Len(q) - 1)
      /\ \A k \in 1..(Len(q) - 1) : t[k] = q[k + 1]
      /\ Head(q) = q[1] /\ Head(q) \in Cell
  BY TailFacts
<1> HIDE DEF t
<1>2. \A k \in DOMAIN t : k \in Int /\ k + 1 \in DOMAIN q /\ t[k] = q[k + 1] /\ 1 < k + 1
  BY <1>1
<1>3. ASSUME NEW o, NEW end, BeginFirst(q, i, o, end) PROVE BeginFirst(t, i, o, end)
  <2> SUFFICES ASSUME NEW j \in DOMAIN t, t[j].id = i /\ t[j].cmd = "BEGIN"
               PROVE  /\ t[j].conn = o
                      /\ \A k \in DOMAIN t : t[k].id = i /\ j < k =>
                           t[k].cmd = "DATA" \/ (end /\ t[k].cmd = "END")
    BY DEF BeginFirst
  <2>1. /\ q[j + 1].conn = o
        /\ \A k \in DOMAIN q : q[k].id = i /\ j + 1 < k =>
                           q[k].cmd = "DATA" \/ (end /\ q[k].cmd = "END")
    BY <1>2, <1>3 DEF BeginFirst
  <2>2. ASSUME NEW k \in DOMAIN t, t[k].id = i, j < k
        PROVE  t[k].cmd = "DATA" \/ (end /\ t[k].cmd = "END")
    <3>1. k + 1 \in DOMAIN q /\ q[k + 1] = t[k] /\ j + 1 < k + 1
      BY <1>2, <2>2
    <3> QED
      BY <2>1, <2>2, <3>1
  <2> QED
    BY <1>2, <2>1, <2>2
<1>4. ConnectedFirst(q, i) => ConnectedFirst(t, i)
  BY <1>2 DEF ConnectedFirst
<1>5. EndLast(q, i) => EndLast(t, i)
  BY <1>2 DEF EndLast
<1>6. ConnectedFirst(q, i) /\ Has(t, i, "CONNECTED") => Head(q).id # i
  <2> SUFFICES ASSUME ConnectedFirst(q, i), Has(t, i, "CONNECTED"), q[1].id = i PROVE FALSE
    BY <1>1
  <2>1. PICK k \in DOMAIN t : t[k].id = i /\ t[k].cmd = "CONNECTED"
    BY DEF Has
  <2>2. k + 1 \in DOMAIN q /\ q[k + 1].id = i /\ q[k + 1].cmd = "CONNECTED" /\ 1 < k + 1
        /\ k \in Int
    BY <1>2, <2>1
  <2>3. 1 \in DOMAIN q
    BY <1>1
  <2>4. k + 1 <= 1
    BY <2>2, <2>3 DEF ConnectedFirst
  <2> QED
    BY <2>2, <2>4
<1>7. EndLast(q, i) /\ Head(q).id = i /\ Head(q).cmd = "END" => NoCell(t, i)
  BY <1>1, <1>2 DEF EndLast, NoCell
<1>8. ASSUME NEW o, NEW end, BeginFirst(q, i, o, end), Head(q).id = i, Head(q).cmd = "BEGIN"
      PROVE  /\ Head(q).conn = o
             /\ ~Has(t, i, "BEGIN") /\ ~Has(t, i, "SENDME")
             /\ Has(t, i, "END") => end
  <2>1. /\ q[1].conn = o
        /\ \A k \in DOMAIN q : q[k].id = i /\ 1 < k =>
                           q[k].cmd = "DATA" \/ (end /\ q[k].cmd = "END")
    BY <1>1, <1>8 DEF BeginFirst
  <2> QED
    BY <1>1, <1>2, <2>1 DEF Has
<1> QED
  BY <1>3, <1>4, <1>5, <1>6, <1>7, <1>8 DEF t

LEMMA ConcatOrders ==
    ASSUME NEW q \in Seq(Cell), NEW r \in Seq(Cell), NEW i
    PROVE  /\ \A o, end : BeginFirst(q, i, o, end) /\
                (\A k \in DOMAIN r : r[k].id = i =>
                   r[k].cmd = "DATA" \/ (end /\ r[k].cmd = "END"))
                => BeginFirst(q \o r, i, o, end)
           /\ ConnectedFirst(q, i) /\ ~Has(r, i, "CONNECTED") => ConnectedFirst(q \o r, i)
           /\ EndLast(q, i) /\ ~Has(q, i, "END") /\ EndLast(r, i) => EndLast(q \o r, i)
<1> DEFINE z == q \o r
<1>1. /\ Len(q) \in Nat /\ Len(r) \in Nat /\ DOMAIN q = 1..Len(q)
      /\ DOMAIN z = 1..(Len(q) + Len(r))
  BY ConcatFacts
<1>2. \A k \in DOMAIN z :
         \/ k \in DOMAIN q /\ z[k] = q[k]
         \/ k > Len(q) /\ k - Len(q) \in DOMAIN r /\ z[k] = r[k - Len(q)]
  BY ConcatSplit
<1> HIDE DEF z
<1>3. ASSUME NEW o, NEW end, BeginFirst(q, i, o, end),
             \A k \in DOMAIN r : r[k].id = i => r[k].cmd = "DATA" \/ (end /\ r[k].cmd = "END")
      PROVE  BeginFirst(z, i, o, end)
  <2> SUFFICES ASSUME NEW j \in DOMAIN z, z[j].id = i /\ z[j].cmd = "BEGIN"
               PROVE  /\ z[j].conn = o
                      /\ \A k \in DOMAIN z : z[k].id = i /\ j < k =>
                           z[k].cmd = "DATA" \/ (end /\ z[k].cmd = "END")
    BY DEF BeginFirst
  <2>1. j \in DOMAIN q /\ z[j] = q[j]
    BY <1>2, <1>3
  <2>2. /\ q[j].conn = o
        /\ \A k \in DOMAIN q : q[k].id = i /\ j < k =>
                           q[k].cmd = "DATA" \/ (end /\ q[k].cmd = "END")
    BY <1>3, <2>1 DEF BeginFirst
  <2> QED
    BY <1>2, <1>3, <2>1, <2>2
<1>4. ConnectedFirst(q, i) /\ ~Has(r, i, "CONNECTED") => ConnectedFirst(z, i)
  BY <1>1, <1>2 DEF ConnectedFirst, Has
<1>5. ASSUME EndLast(q, i), ~Has(q, i, "END"), EndLast(r, i) PROVE EndLast(z, i)
  <2> SUFFICES ASSUME NEW j \in DOMAIN z, NEW k \in DOMAIN z, z[j].id = i,
                      z[j].cmd = "END", z[k].id = i
               PROVE  k <= j
    BY DEF EndLast
  <2>1. j > Len(q) /\ j - Len(q) \in DOMAIN r /\ z[j] = r[j - Len(q)]
    BY <1>2, <1>5 DEF Has
  <2>2. CASE k \in DOMAIN q /\ z[k] = q[k]
    BY <1>1, <2>1, <2>2
  <2>3. CASE k > Len(q) /\ k - Len(q) \in DOMAIN r /\ z[k] = r[k - Len(q)]
    <3>1. k - Len(q) <= j - Len(q)
      BY <1>5, <2>1, <2>3 DEF EndLast
    <3> QED
      BY <1>1, <3>1
  <2> QED
    BY <1>2, <2>2, <2>3
<1> QED
  BY <1>3, <1>4, <1>5 DEF z

-----------------------------------------------------------------------------
(* The data of a stream on a queue.                                        *)

\* Two queues with the same data of a stream, up to a shift of the indices.
LEMMA RangeShift ==
    ASSUME NEW q \in Seq(Cell), NEW t \in Seq(Cell), NEW i, NEW d \in Int,
           \A k \in DataAt(q, i) : k + d \in DataAt(t, i) /\ t[k + d] = q[k],
           \A k \in DataAt(t, i) : k - d \in DataAt(q, i) /\ q[k - d] = t[k],
           NEW o, NEW a, NEW b, DataRange(q, i, o, a, b)
    PROVE  DataRange(t, i, o, a, b)
<1>1. DataAt(q, i) \subseteq Int /\ DataAt(t, i) \subseteq Int
  BY DEF DataAt
<1>2. \A j, k \in DataAt(t, i) : j < k => t[j].n < t[k].n
  <2> SUFFICES ASSUME NEW j \in DataAt(t, i), NEW k \in DataAt(t, i), j < k
               PROVE  t[j].n < t[k].n
    OBVIOUS
  <2>1. j - d \in DataAt(q, i) /\ k - d \in DataAt(q, i) /\ j - d < k - d
        /\ q[j - d] = t[j] /\ q[k - d] = t[k]
    BY <1>1
  <2>2. q[j - d].n < q[k - d].n
    BY <2>1 DEF DataRange
  <2> QED
    BY <2>1, <2>2
<1>3. \A k \in DataAt(t, i) : t[k].conn = o /\ t[k].n > a /\ t[k].n <= b
  <2> TAKE k \in DataAt(t, i)
  <2>1. k - d \in DataAt(q, i) /\ q[k - d] = t[k]
    OBVIOUS
  <2>2. q[k - d].conn = o /\ q[k - d].n > a /\ q[k - d].n <= b
    BY <2>1 DEF DataRange
  <2> QED
    BY <2>1, <2>2
<1>4. \A n \in Nat : a < n /\ n <= b => \E k \in DataAt(t, i) : t[k].n = n
  <2> SUFFICES ASSUME NEW n \in Nat, a < n, n <= b
               PROVE  \E k \in DataAt(t, i) : t[k].n = n
    OBVIOUS
  <2>1. PICK k \in DataAt(q, i) : q[k].n = n
    BY DEF DataRange
  <2> QED
    BY <2>1
<1>5. a \in Nat /\ b \in Nat /\ a <= b
  BY DEF DataRange
<1> QED
  BY <1>2, <1>3, <1>4, <1>5 DEF DataRange

LEMMA RangeEmpty ==
    ASSUME NEW q, NEW i, ~Has(q, i, "DATA"), NEW o, NEW a \in Nat
    PROVE  DataRange(q, i, o, a, a)
<1>1. DataAt(q, i) = {}
  BY DEF DataAt, Has
<1> QED
  BY <1>1 DEF DataRange

\* A BEGIN at the end: whatever is before it belongs to an earlier stream.
LEMMA RangeBegin ==
    ASSUME NEW q \in Seq(Cell), NEW x \in Cell, x.cmd = "BEGIN", NEW o
    PROVE  DataRange(Append(q, x), x.id, o, 0, 0)
<1> DEFINE z == Append(q, x)
<1>1. Len(q) \in Nat /\ DOMAIN z = 1..(Len(q) + 1) /\ z[Len(q) + 1] = x
  OBVIOUS
<1> HIDE DEF z
<1>2. Len(q) + 1 \in DOMAIN z /\ \A k \in DOMAIN z : ~(Len(q) + 1 < k)
  BY <1>1
<1>3. DataAt(z, x.id) = {}
  BY <1>1, <1>2 DEF DataAt
<1> QED
  BY <1>3 DEF DataRange, z

LEMMA RangeConcat ==
    ASSUME NEW q \in Seq(Cell), NEW r \in Seq(Cell), NEW i, ~Has(r, i, "BEGIN"),
           NEW o, NEW a, NEW b, NEW e, DataRange(q, i, o, a, b), DataRange(r, i, o, b, e)
    PROVE  DataRange(q \o r, i, o, a, e)
<1> DEFINE z == q \o r
           m == Len(q)
<1>1. /\ m \in Nat /\ Len(r) \in Nat
      /\ DOMAIN q = 1..m /\ DOMAIN r = 1..Len(r)
      /\ DOMAIN z = 1..(m + Len(r))
      /\ \A k \in 1..m : z[k] = q[k]
      /\ \A k \in 1..Len(r) : z[m + k] = r[k]
  BY ConcatFacts
<1>2. \A k \in DOMAIN z :
         \/ k \in DOMAIN q /\ z[k] = q[k]
         \/ k > m /\ k - m \in DOMAIN r /\ z[k] = r[k - m]
  BY ConcatSplit
<1> HIDE DEF z, m
<1>3. \A k \in DataAt(q, i) : k \in DataAt(z, i) /\ z[k] = q[k] /\ k <= m
  <2> TAKE k \in DataAt(q, i)
  <2>1. k \in DOMAIN z /\ z[k] = q[k] /\ k <= m
    BY <1>1 DEF DataAt
  <2>2. \A x \in DOMAIN z : z[x].id = i /\ z[x].cmd = "BEGIN" => x < k
    BY <1>2 DEF DataAt, Has
  <2> QED
    BY <2>1, <2>2 DEF DataAt
<1>4. \A k \in DataAt(r, i) : k \in Int /\ m + k \in DataAt(z, i) /\ z[m + k] = r[k] /\ m + k > m
  <2> TAKE k \in DataAt(r, i)
  <2>1. k \in Int /\ m + k \in DOMAIN z /\ z[m + k] = r[k] /\ m + k > m
    BY <1>1 DEF DataAt
  <2>2. \A x \in DOMAIN z : z[x].id = i /\ z[x].cmd = "BEGIN" => x < m + k
    BY <1>1, <1>2, <2>1 DEF DataAt, Has
  <2> QED
    BY <2>1, <2>2 DEF DataAt
<1>5. ASSUME NEW k \in DataAt(z, i)
      PROVE  \/ k <= m /\ k \in DataAt(q, i) /\ z[k] = q[k]
             \/ k > m /\ k - m \in DataAt(r, i) /\ z[k] = r[k - m]
  <2>1. k \in DOMAIN z /\ z[k].id = i /\ z[k].cmd = "DATA"
        /\ \A x \in DOMAIN z : z[x].id = i /\ z[x].cmd = "BEGIN" => x < k
    BY DEF DataAt
  <2>2. CASE k \in DOMAIN q /\ z[k] = q[k]
    <3>1. \A x \in DOMAIN q : q[x].id = i /\ q[x].cmd = "BEGIN" => x < k
      BY <1>1, <2>1
    <3> QED
      BY <1>1, <2>1, <2>2, <3>1 DEF DataAt
  <2>3. CASE k > m /\ k - m \in DOMAIN r /\ z[k] = r[k - m]
    <3>1. \A x \in DOMAIN r : r[x].id = i /\ r[x].cmd = "BEGIN" => x < k - m
      BY DEF Has
    <3> QED
      BY <2>1, <2>3, <3>1 DEF DataAt
  <2> QED
    BY <1>2, <2>1, <2>2, <2>3
<1>6. /\ a \in Nat /\ b \in Nat /\ e \in Nat /\ a <= b /\ b <= e
      /\ \A k \in DataAt(q, i) : q[k].conn = o /\ q[k].n > a /\ q[k].n <= b
      /\ \A k \in DataAt(r, i) : r[k].conn = o /\ r[k].n > b /\ r[k].n <= e
      /\ \A n \in Nat : a < n /\ n <= b => \E k \in DataAt(q, i) : q[k].n = n
      /\ \A n \in Nat : b < n /\ n <= e => \E k \in DataAt(r, i) : r[k].n = n
      /\ \A j, k \in DataAt(q, i) : j < k => q[j].n < q[k].n
      /\ \A j, k \in DataAt(r, i) : j < k => r[j].n < r[k].n
  BY DEF DataRange
<1>7. /\ \A k \in DataAt(q, i) : q[k].n \in Nat /\ k \in Int
      /\ \A k \in DataAt(r, i) : r[k].n \in Nat /\ k \in Int
      /\ DataAt(z, i) \subseteq Int
  <2>1. /\ \A k \in DOMAIN q : q[k] \in Cell /\ k \in Int
        /\ \A k \in DOMAIN r : r[k] \in Cell /\ k \in Int
    OBVIOUS
  <2>2. \A x \in Cell : x.n \in Nat
    BY DEF Cell
  <2> QED
    BY <1>1, <2>1, <2>2 DEF DataAt
<1>8. \A k \in DataAt(z, i) : z[k].conn = o /\ z[k].n > a /\ z[k].n <= e
  <2> TAKE k \in DataAt(z, i)
  <2>1. CASE k <= m /\ k \in DataAt(q, i) /\ z[k] = q[k]
    BY <1>6, <1>7, <2>1
  <2>2. CASE k > m /\ k - m \in DataAt(r, i) /\ z[k] = r[k - m]
    BY <1>6, <1>7, <2>2
  <2> QED
    BY <1>5, <2>1, <2>2
<1>9. \A n \in Nat : a < n /\ n <= e => \E k \in DataAt(z, i) : z[k].n = n
  <2> SUFFICES ASSUME NEW n \in Nat, a < n, n <= e
               PROVE  \E k \in DataAt(z, i) : z[k].n = n
    OBVIOUS
  <2>1. CASE n <= b
    <3>1. PICK k \in DataAt(q, i) : q[k].n = n
      BY <1>6, <2>1
    <3> QED
      BY <1>3, <3>1
  <2>2. CASE b < n
    <3>1. PICK k \in DataAt(r, i) : r[k].n = n
      BY <1>6, <2>2
    <3> QED
      BY <1>4, <3>1
  <2> QED
    BY <1>6, <2>1, <2>2
<1>10. \A j, k \in DataAt(z, i) : j < k => z[j].n < z[k].n
  <2> SUFFICES ASSUME NEW j \in DataAt(z, i), NEW k \in DataAt(z, i), j < k
               PROVE  z[j].n < z[k].n
    OBVIOUS
  <2>1. CASE k <= m
    <3>1. j \in DataAt(q, i) /\ z[j] = q[j] /\ k \in DataAt(q, i) /\ z[k] = q[k]
      BY <1>1, <1>5, <1>7, <2>1
    <3> QED
      BY <1>6, <3>1
  <2>2. CASE k > m /\ j <= m
    <3>1. j \in DataAt(q, i) /\ z[j] = q[j] /\ k - m \in DataAt(r, i) /\ z[k] = r[k - m]
      BY <1>1, <1>5, <1>7, <2>2
    <3> DEFINE x == z[j].n
               y == z[k].n
    <3>2. x \in Nat /\ x <= b
      BY <1>6, <1>7, <3>1
    <3>3. y \in Nat /\ y > b
      BY <1>6, <1>7, <3>1
    <3>4. b \in Nat
      BY <1>6
    <3> HIDE DEF x, y
    <3>5. x < y
      BY <3>2, <3>3, <3>4
    <3> QED
      BY <3>5 DEF x, y
  <2>3. CASE k > m /\ j > m
    <3>1. /\ j - m \in DataAt(r, i) /\ z[j] = r[j - m]
          /\ k - m \in DataAt(r, i) /\ z[k] = r[k - m] /\ j - m < k - m
      BY <1>1, <1>5, <1>7, <2>3
    <3> QED
      BY <1>6, <3>1
  <2> QED
    BY <1>1, <1>7, <2>1, <2>2, <2>3
<1>11. DataRange(z, i, o, a, e)
  <2>1. a <= e
    BY <1>6
  <2> QED
    BY <1>6, <1>8, <1>9, <1>10, <2>1 DEF DataRange
<1> QED
  BY <1>11 DEF z

\* The head goes, and it is not of the data that counts.
LEMMA RangeTail ==
    ASSUME NEW q \in Seq(Cell), q # <<>>, NEW i,
           Head(q).id # i \/ Head(q).cmd # "DATA" \/ Has(Tail(q), i, "BEGIN"),
           NEW o, NEW a, NEW b, DataRange(q, i, o, a, b)
    PROVE  DataRange(Tail(q), i, o, a, b)
<1> DEFINE t == Tail(q)
<1>1. /\ t \in Seq(Cell) /\ Len(q) \in Nat /\ Len(q) >= 1
      /\ DOMAIN q = 1..Len(q) /\ DOMAIN t = 1..(Len(q) - 1)
      /\ \A k \in 1..(Len(q) - 1) : t[k] = q[k + 1]
      /\ Head(q) = q[1]
  BY TailFacts
<1>2. Head(q).id # i \/ Head(q).cmd # "DATA" \/ Has(t, i, "BEGIN")
  OBVIOUS
<1> HIDE DEF t
<1>3. \A k \in DOMAIN t : k \in Int /\ k + 1 \in DOMAIN q /\ t[k] = q[k + 1] /\ k >= 1
  BY <1>1
<1>4. \A k \in DOMAIN q : k \in Int /\ (k = 1 \/ (k - 1 \in DOMAIN t /\ t[k - 1] = q[k]))
  BY <1>1
<1>5. ASSUME NEW k \in DataAt(q, i) PROVE k + (-1) \in DataAt(t, i) /\ t[k + (-1)] = q[k]
  <2>1. /\ k \in DOMAIN q /\ q[k].id = i /\ q[k].cmd = "DATA"
        /\ \A x \in DOMAIN q : q[x].id = i /\ q[x].cmd = "BEGIN" => x < k
    BY DEF DataAt
  <2>2. k # 1
    <3>1. CASE Has(t, i, "BEGIN")
      <4>1. PICK x \in DOMAIN t : t[x].id = i /\ t[x].cmd = "BEGIN"
        BY <3>1 DEF Has
      <4> QED
        BY <1>3, <2>1, <4>1
    <3> QED
      BY <1>1, <1>2, <2>1, <3>1
  <2>3. k - 1 \in DOMAIN t /\ t[k - 1] = q[k] /\ k + (-1) = k - 1
    BY <1>4, <2>1, <2>2
  <2>4. \A x \in DOMAIN t : t[x].id = i /\ t[x].cmd = "BEGIN" => x < k - 1
    BY <1>3, <1>4, <2>1
  <2> QED
    BY <2>1, <2>3, <2>4 DEF DataAt
<1>6. ASSUME NEW k \in DataAt(t, i) PROVE k - (-1) \in DataAt(q, i) /\ q[k - (-1)] = t[k]
  <2>1. /\ k \in DOMAIN t /\ t[k].id = i /\ t[k].cmd = "DATA"
        /\ \A x \in DOMAIN t : t[x].id = i /\ t[x].cmd = "BEGIN" => x < k
    BY DEF DataAt
  <2>2. k + 1 \in DOMAIN q /\ t[k] = q[k + 1] /\ k - (-1) = k + 1 /\ k >= 1
    BY <1>3, <2>1
  <2>3. \A x \in DOMAIN q : q[x].id = i /\ q[x].cmd = "BEGIN" => x < k + 1
    BY <1>3, <1>4, <2>1
  <2> QED
    BY <2>1, <2>2, <2>3 DEF DataAt
<1>7. -1 \in Int /\ t \in Seq(Cell)
  BY <1>1
<1>8. DataRange(t, i, o, a, b)
  BY <1>5, <1>6, <1>7, RangeShift
<1> QED
  BY <1>8 DEF t

\* The head goes, and it is the first of the data.
LEMMA RangePop ==
    ASSUME NEW q \in Seq(Cell), q # <<>>, NEW i, ~Has(q, i, "BEGIN"),
           Head(q).id = i, Head(q).cmd = "DATA",
           NEW o, NEW a, NEW b, DataRange(q, i, o, a, b)
    PROVE  /\ Head(q).conn = o /\ Head(q).n = a + 1
           /\ a \in Nat /\ b \in Nat /\ a + 1 <= b
           /\ DataRange(Tail(q), i, o, a + 1, b)
<1> DEFINE t == Tail(q)
<1>1. /\ t \in Seq(Cell) /\ Len(q) \in Nat /\ Len(q) >= 1
      /\ DOMAIN q = 1..Len(q) /\ DOMAIN t = 1..(Len(q) - 1)
      /\ \A k \in 1..(Len(q) - 1) : t[k] = q[k + 1]
      /\ Head(q) = q[1] /\ Head(q) \in Cell
  BY TailFacts
<1> HIDE DEF t
<1>2. /\ a \in Nat /\ b \in Nat /\ a <= b
      /\ \A k \in DataAt(q, i) : q[k].conn = o /\ q[k].n > a /\ q[k].n <= b
      /\ \A n \in Nat : a < n /\ n <= b => \E k \in DataAt(q, i) : q[k].n = n
      /\ \A j, k \in DataAt(q, i) : j < k => q[j].n < q[k].n
  BY DEF DataRange
<1>3. /\ \A k : k \in DataAt(q, i) <=> k \in DOMAIN q /\ q[k].id = i /\ q[k].cmd = "DATA"
      /\ \A k : k \in DataAt(t, i) <=> k \in DOMAIN t /\ t[k].id = i /\ t[k].cmd = "DATA"
  <2>1. ~Has(t, i, "BEGIN")
    BY TailHas DEF t
  <2> QED
    BY <2>1 DEF DataAt, Has
<1>4. /\ 1 \in DataAt(q, i)
      /\ \A k \in DataAt(q, i) : q[k].n \in Nat /\ k \in Int /\ (k = 1 \/ 1 < k)
  <2>1. \A k \in DOMAIN q : q[k] \in Cell
    OBVIOUS
  <2>2. \A x \in Cell : x.n \in Nat
    BY DEF Cell
  <2> QED
    BY <1>1, <1>3, <2>1, <2>2
<1>5. q[1].n = a + 1 /\ a + 1 <= b
  <2>1. q[1].n > a /\ q[1].n <= b /\ q[1].n \in Nat
    BY <1>2, <1>4
  <2>2. PICK k \in DataAt(q, i) : q[k].n = a + 1
    BY <1>2, <2>1
  <2>3. k = 1 \/ q[1].n < a + 1
    BY <1>2, <1>4, <2>2
  <2> QED
    BY <1>2, <2>1, <2>2, <2>3
<1>6. \A k \in DataAt(t, i) : k \in Int /\ k + 1 \in DataAt(q, i) /\ q[k + 1] = t[k] /\ 1 < k + 1
  BY <1>1, <1>3
<1>7. \A k \in DataAt(q, i) : k = 1 \/ (k - 1 \in DataAt(t, i) /\ t[k - 1] = q[k])
  BY <1>1, <1>3
<1>8. \A k \in DataAt(t, i) : t[k].conn = o /\ t[k].n > a + 1 /\ t[k].n <= b
  <2> TAKE k \in DataAt(t, i)
  <2>1. q[1].n < q[k + 1].n
    BY <1>2, <1>4, <1>6
  <2> QED
    BY <1>2, <1>4, <1>5, <1>6, <2>1
<1>9. \A n \in Nat : a + 1 < n /\ n <= b => \E k \in DataAt(t, i) : t[k].n = n
  <2> SUFFICES ASSUME NEW n \in Nat, a + 1 < n, n <= b
               PROVE  \E k \in DataAt(t, i) : t[k].n = n
    OBVIOUS
  <2>1. PICK k \in DataAt(q, i) : q[k].n = n
    BY <1>2
  <2>2. k # 1
    BY <1>2, <1>5, <2>1
  <2> QED
    BY <1>7, <2>1, <2>2
<1>10. \A j, k \in DataAt(t, i) : j < k => t[j].n < t[k].n
  <2> SUFFICES ASSUME NEW j \in DataAt(t, i), NEW k \in DataAt(t, i), j < k
               PROVE  t[j].n < t[k].n
    OBVIOUS
  <2>1. j + 1 < k + 1
    BY <1>6
  <2> QED
    BY <1>2, <1>6, <2>1
<1>11. DataRange(t, i, o, a + 1, b)
  BY <1>2, <1>5, <1>8, <1>9, <1>10 DEF DataRange
<1> QED
  BY <1>1, <1>2, <1>4, <1>5, <1>11 DEF t

-----------------------------------------------------------------------------
(* A stream whose cells on a queue stay the same.                          *)

Keeps(q, t, i) ==
    /\ \A cmd : Has(t, i, cmd) <=> Has(q, i, cmd)
    /\ NoCell(q, i) => NoCell(t, i)
    /\ \A o, end : BeginFirst(q, i, o, end) => BeginFirst(t, i, o, end)
    /\ ConnectedFirst(q, i) => ConnectedFirst(t, i)
    /\ EndLast(q, i) => EndLast(t, i)
    /\ \A o, a, b : DataRange(q, i, o, a, b) => DataRange(t, i, o, a, b)
    /\ Count(t, SendmeSet(i)) = Count(q, SendmeSet(i))

LEMMA KeepsSame ==
    ASSUME NEW q, NEW i PROVE Keeps(q, q, i)
BY DEF Keeps

LEMMA KeepsTail ==
    ASSUME NEW q \in Seq(Cell), q # <<>>, NEW i, Head(q).id # i
    PROVE  Keeps(q, Tail(q), i)
<1> DEFINE t == Tail(q)
<1>1. /\ t \in Seq(Cell)
      /\ \A cmd : Has(t, i, cmd) <=> Has(q, i, cmd)
      /\ NoCell(q, i) => NoCell(t, i)
  BY TailHas
<1>2. /\ \A o, end : BeginFirst(q, i, o, end) => BeginFirst(t, i, o, end)
      /\ ConnectedFirst(q, i) => ConnectedFirst(t, i)
      /\ EndLast(q, i) => EndLast(t, i)
  BY TailOrders
<1>3. \A o, a, b : DataRange(q, i, o, a, b) => DataRange(t, i, o, a, b)
  BY RangeTail
<1>4. Count(t, SendmeSet(i)) = Count(q, SendmeSet(i))
  <2>1. Head(q) \notin SendmeSet(i)
    BY DEF SendmeSet
  <2> QED
    BY <2>1, CountTail
<1> QED
  BY <1>1, <1>2, <1>3, <1>4 DEF Keeps

LEMMA KeepsConcat ==
    ASSUME NEW q \in Seq(Cell), NEW r \in Seq(Cell), NEW i, NoCell(r, i)
    PROVE  Keeps(q, q \o r, i)
<1> DEFINE t == q \o r
<1>1. /\ t \in Seq(Cell)
      /\ \A cmd : ~Has(r, i, cmd)
      /\ \A cmd : Has(t, i, cmd) <=> Has(q, i, cmd)
      /\ NoCell(q, i) => NoCell(t, i)
  <2>1. \A cmd : ~Has(r, i, cmd)
    BY DEF Has, NoCell
  <2> QED
    BY <2>1, ConcatHas
<1>2. /\ \A o, end : BeginFirst(q, i, o, end) => BeginFirst(t, i, o, end)
      /\ ConnectedFirst(q, i) => ConnectedFirst(t, i)
  BY <1>1, ConcatOrders DEF NoCell
<1>3. EndLast(q, i) => EndLast(t, i)
  <2>1. \A k \in DOMAIN t :
         \/ k \in DOMAIN q /\ t[k] = q[k]
         \/ k > Len(q) /\ k - Len(q) \in DOMAIN r /\ t[k] = r[k - Len(q)]
    BY ConcatSplit
  <2> HIDE DEF t
  <2> QED
    BY <2>1 DEF EndLast, NoCell
<1>4. ASSUME NEW o, NEW a, NEW b, DataRange(q, i, o, a, b) PROVE DataRange(t, i, o, a, b)
  <2>1. b \in Nat
    BY <1>4 DEF DataRange
  <2>2. DataRange(r, i, o, b, b)
    BY <1>1, <2>1, RangeEmpty
  <2> QED
    BY <1>1, <1>4, <2>2, RangeConcat
<1>5. Count(t, SendmeSet(i)) = Count(q, SendmeSet(i))
  <2>1. \A k \in DOMAIN r : r[k] \notin SendmeSet(i)
    BY DEF SendmeSet, NoCell
  <2>2. Count(r, SendmeSet(i)) = 0
    BY <2>1, CountNone
  <2>3. Count(q, SendmeSet(i)) \in Nat
    BY CountType
  <2>4. Count(t, SendmeSet(i)) = Count(q, SendmeSet(i)) + Count(r, SendmeSet(i))
    BY CountConcat
  <2> QED
    BY <2>2, <2>3, <2>4
<1> QED
  BY <1>1, <1>2, <1>3, <1>4, <1>5 DEF Keeps

\* Only the exit's view of a stream that is not there may change.
SameFar(y, z) == z = y \/ (y.state = "none" /\ z.state = "none")

LEMMA JoinedKeeps ==
    ASSUME NEW i, NEW v, NEW y, NEW z, NEW L, NEW M, NEW L2, NEW M2, SameFar(y, z),
           Keeps(L, L2, i), Keeps(M, M2, i), Joined(i, v, y, L, M)
    PROVE  Joined(i, v, z, L2, M2)
<1>1. /\ \A cmd : Has(L2, i, cmd) <=> Has(L, i, cmd)
      /\ \A o, end : BeginFirst(L, i, o, end) => BeginFirst(L2, i, o, end)
      /\ \A o, a, b : DataRange(L, i, o, a, b) => DataRange(L2, i, o, a, b)
      /\ Count(L2, SendmeSet(i)) = Count(L, SendmeSet(i))
  BY DEF Keeps
<1>2. /\ \A cmd : Has(M2, i, cmd) <=> Has(M, i, cmd)
      /\ NoCell(M, i) => NoCell(M2, i)
      /\ \A o, a, b : DataRange(M, i, o, a, b) => DataRange(M2, i, o, a, b)
      /\ Count(M2, SendmeSet(i)) = Count(M, SendmeSet(i))
  BY DEF Keeps
<1>3. ASSUME NEW x, Opening(i, x, M) PROVE Opening(i, x, M2)
  BY <1>2, <1>3 DEF Opening, Keeps
<1>4. CASE Begun(i, v, y, L, M)
  BY <1>1, <1>2, <1>4 DEF Begun, Joined, SameFar
<1>5. CASE Alive(i, v, y, L, M)
  <2>1. z = y
    BY <1>5 DEF Alive, SameFar
  <2> QED
    BY <1>1, <1>2, <1>3, <1>5, <2>1 DEF Alive, Joined
<1>6. CASE Over(i, v, y, L, M)
  BY <1>1, <1>2, <1>3, <1>6 DEF Over, Joined, SameFar
<1> QED
  BY <1>4, <1>5, <1>6 DEF Joined

LEMMA UnusedKeeps ==
    ASSUME NEW i, NEW y, NEW z, NEW L, NEW M, NEW L2, NEW M2, SameFar(y, z),
           Keeps(L, L2, i), Keeps(M, M2, i), Unused(i, y, L, M)
    PROVE  Unused(i, z, L2, M2)
BY DEF Keeps, Unused, SameFar

-----------------------------------------------------------------------------
(* What the steps of a stream do to its cells and to the two views of it.  *)

LEMMA Sizes ==
    /\ StreamInc \in Nat /\ StreamInc > 0 /\ StreamStart \in Nat /\ StreamInc <= StreamStart
    /\ CircInc \in Nat /\ CircInc > 0 /\ CircStart \in Nat /\ CircInc <= CircStart
    /\ OutbufLimit \in Nat
BY ConstantsAssumption

LEMMA Times ==
    ASSUME NEW u \in Nat, NEW m \in Nat, NEW n \in Nat
    PROVE  /\ u * m \in Nat /\ u * (m + n) = u * m + u * n /\ m * u = u * m
           /\ u * (m + 1) = u * m + u
           /\ m >= 1 => u * m >= u
           /\ u * 0 = 0
OBVIOUS

LEMMA ViewType ==
    ASSUME NEW v \in View
    PROVE  /\ v.o \in Conn /\ v.x \in BOOLEAN /\ v.h \in BOOLEAN
           /\ v.w \in Nat /\ v.w <= StreamStart /\ v.d \in Nat /\ v.d <= StreamStart
           /\ v.g \in Nat /\ v.s \in Nat
BY Sizes DEF View

LEMMA FarType ==
    ASSUME NEW y \in Far
    PROVE  /\ y.o \in Conn /\ y.state \in {"none", "connecting", "open"}
           /\ y.w \in Nat /\ y.w <= StreamStart /\ y.d \in Nat /\ y.d <= StreamStart
           /\ y.g \in Nat /\ y.s \in Nat
BY Sizes DEF Far

\* The client attaches to an unused id.
LEMMA StepBegin ==
    ASSUME NEW i, NEW v \in View, NEW y, NEW L \in Seq(Cell), NEW M,
           Unused(i, y, L, M), NEW x \in Cell, x.cmd = "BEGIN", x.id = i, x.conn = v.o,
           v.w = StreamStart, v.d = StreamStart, v.x, v.g = 0, v.s = 0
    PROVE  Joined(i, v, y, Append(L, x), M)
<1> DEFINE t == Append(L, x)
<1>1. Len(L) \in Nat /\ DOMAIN L = 1..Len(L) /\ DOMAIN t = 1..(Len(L) + 1)
      /\ t[Len(L) + 1] = x /\ \A k \in 1..Len(L) : t[k] = L[k]
  OBVIOUS
<1>2. DataRange(t, i, v.o, 0, 0)
  BY RangeBegin
<1> HIDE DEF t
<1>3. Has(t, i, "BEGIN")
  BY <1>1 DEF Has
<1>4. \A k \in DOMAIN t : k = Len(L) + 1 \/ (k \in DOMAIN L /\ t[k] = L[k])
  BY <1>1
<1>5. \A k \in DOMAIN t : t[k].id = i /\ t[k].cmd = "BEGIN" => k = Len(L) + 1
  BY <1>4 DEF Unused, Has
<1>6. BeginFirst(t, i, v.o, v.h)
  BY <1>1, <1>5 DEF BeginFirst
<1>7. v.w + 0 = StreamStart
  BY Sizes
<1>8. Begun(i, v, y, t, M)
  BY <1>2, <1>3, <1>6, <1>7 DEF Begun, Unused
<1> QED
  BY <1>8 DEF Joined, t

\* Cells that are all data.
AllData(r) == \A k \in DOMAIN r : r[k].cmd = "DATA"

LEMMA AllDataFacts ==
    ASSUME NEW r \in Seq(Cell), AllData(r), NEW i
    PROVE  /\ \A cmd : Has(r, i, cmd) => cmd = "DATA"
           /\ EndLast(r, i)
           /\ Count(r, SendmeSet(i)) = 0
<1>1. \A cmd : Has(r, i, cmd) => cmd = "DATA"
  BY DEF AllData, Has
<1>2. EndLast(r, i)
  BY DEF AllData, EndLast
<1>3. \A k \in DOMAIN r : r[k] \notin SendmeSet(i)
  BY DEF AllData, SendmeSet
<1>4. Count(r, SendmeSet(i)) = 0
  BY <1>3, CountNone
<1> QED
  BY <1>1, <1>2, <1>4

LEMMA ConcatCountSame ==
    ASSUME NEW q \in Seq(Cell), NEW r \in Seq(Cell), NEW T, Count(r, T) = 0
    PROVE  Count(q \o r, T) = Count(q, T)
<1>1. Count(q, T) \in Nat
  BY CountType
<1>2. Count(q \o r, T) = Count(q, T) + Count(r, T)
  BY CountConcat
<1> QED
  BY <1>1, <1>2

\* The client sends m cells of data.
LEMMA StepClientSends ==
    ASSUME NEW i, NEW v \in View, NEW w \in View, NEW y \in Far,
           NEW L \in Seq(Cell), NEW M \in Seq(Cell), NEW r \in Seq(Cell), NEW m \in Nat,
           Joined(i, v, y, L, M), AllData(r), DataRange(r, i, v.o, v.s, v.s + m),
           w.o = v.o, w.w = v.w - m, w.d = v.d, w.x = v.x, w.g = v.g, w.s = v.s + m, w.h = v.h
    PROVE  Joined(i, w, y, L \o r, M)
<1> DEFINE t == L \o r
           c == Count(M, SendmeSet(i))
<1>1. /\ \A cmd : Has(r, i, cmd) => cmd = "DATA"
      /\ Count(r, SendmeSet(i)) = 0
  BY AllDataFacts
<1>2. /\ t \in Seq(Cell)
      /\ \A cmd : cmd # "DATA" => (Has(t, i, cmd) <=> Has(L, i, cmd))
  BY <1>1, ConcatHas
<1>3. Count(t, SendmeSet(i)) = Count(L, SendmeSet(i))
  BY <1>1, ConcatCountSame
<1>4. \A a : DataRange(L, i, v.o, a, v.s) => DataRange(t, i, v.o, a, v.s + m)
  BY <1>1, RangeConcat
<1>5. \A end : BeginFirst(L, i, v.o, end) => BeginFirst(t, i, v.o, end)
  BY ConcatOrders DEF AllData
<1>6. /\ v.w \in Nat /\ v.s \in Nat /\ w.w \in Nat /\ y.g \in Nat /\ y.d \in Nat
      /\ c \in Nat /\ StreamInc * c \in Nat
  BY ViewType, FarType, CountType, Sizes, Times
<1> HIDE DEF t, c
<1>7. CASE Begun(i, v, y, L, M)
  <2>1. w.w + w.s = StreamStart
    BY <1>6, <1>7 DEF Begun
  <2> QED
    BY <1>2, <1>4, <1>5, <1>7, <2>1 DEF Begun, Joined, t
<1>8. CASE Alive(i, v, y, L, M)
  <2>1. w.w + (w.s - y.g) + StreamInc * c = y.d
    <3> DEFINE vw == v.w
               vs == v.s
               yg == y.g
               yd == y.d
               u == StreamInc * c
    <3>1. /\ vw \in Nat /\ vs \in Nat /\ yg \in Nat /\ yd \in Nat /\ u \in Nat
          /\ vw + (vs - yg) + u = yd
      BY <1>6, <1>8 DEF Alive, c
    <3>2. w.w = vw - m /\ w.s = vs + m
      OBVIOUS
    <3> HIDE DEF vw, vs, yg, yd, u
    <3>3. (vw - m) + ((vs + m) - yg) + u = yd
      BY <3>1
    <3> QED
      BY <3>2, <3>3 DEF yg, yd, u
  <2>2. Alive(i, w, y, t, M)
    BY <1>2, <1>3, <1>4, <1>8, <2>1 DEF Alive, c
  <2> QED
    BY <2>2 DEF Joined, t
<1>9. CASE Over(i, v, y, L, M)
  <2>1. w.w + StreamInc * c <= StreamStart
    <3>1. v.w + StreamInc * c <= StreamStart
      BY <1>9 DEF Over, c
    <3> QED
      BY <1>6, <3>1, Sizes
  <2>2. Over(i, w, y, t, M)
    BY <1>2, <1>9, <2>1 DEF Over, c
  <2> QED
    BY <2>2 DEF Joined, t
<1> QED
  BY <1>7, <1>8, <1>9 DEF Joined

\* The exit sends m cells of data.
LEMMA StepExitSends ==
    ASSUME NEW i, NEW v \in View, NEW y \in Far, NEW z \in Far,
           NEW L \in Seq(Cell), NEW M \in Seq(Cell), NEW r \in Seq(Cell), NEW m \in Nat,
           Joined(i, v, y, L, M), AllData(r), y.state = "open",
           DataRange(r, i, y.o, y.s, y.s + m),
           z.state = y.state, z.o = y.o, z.w = y.w - m, z.d = y.d, z.g = y.g, z.s = y.s + m
    PROVE  Joined(i, v, z, L, M \o r)
<1> DEFINE t == M \o r
           c == Count(L, SendmeSet(i))
<1>1. /\ \A cmd : Has(r, i, cmd) => cmd = "DATA"
      /\ Count(r, SendmeSet(i)) = 0 /\ EndLast(r, i)
  BY AllDataFacts
<1>2. /\ t \in Seq(Cell)
      /\ \A cmd : cmd # "DATA" => (Has(t, i, cmd) <=> Has(M, i, cmd))
  BY <1>1, ConcatHas
<1>3. Count(t, SendmeSet(i)) = Count(M, SendmeSet(i))
  BY <1>1, ConcatCountSame
<1>4. \A a : DataRange(M, i, y.o, a, y.s) => DataRange(t, i, y.o, a, y.s + m)
  BY <1>1, RangeConcat
<1>5. /\ ConnectedFirst(M, i) => ConnectedFirst(t, i)
      /\ EndLast(M, i) /\ ~Has(M, i, "END") => EndLast(t, i)
  BY <1>1, ConcatOrders
<1>6. /\ y.w \in Nat /\ y.s \in Nat /\ v.g \in Nat /\ v.d \in Nat
      /\ c \in Nat /\ StreamInc * c \in Nat
  BY ViewType, FarType, CountType, Sizes, Times
<1>7. Alive(i, v, y, L, M)
  BY DEF Joined, Begun, Over
<1> HIDE DEF t, c
<1>8. z.w + (z.s - v.g) + StreamInc * c = v.d
  <2>1. y.w + (y.s - v.g) + StreamInc * c = v.d
    BY <1>7 DEF Alive, c
  <2> QED
    BY <1>6, <2>1
<1>9. Opening(i, v.x, t)
  BY <1>2, <1>5, <1>7 DEF Alive, Opening
<1>10. Alive(i, v, z, L, t)
  BY <1>2, <1>3, <1>4, <1>7, <1>8, <1>9 DEF Alive, c
<1> QED
  BY <1>10 DEF Joined, t

LEMMA OneCell ==
    ASSUME NEW x \in Cell, NEW i
    PROVE  /\ <<x>> \in Seq(Cell)
           /\ DOMAIN <<x>> = {1} /\ <<x>>[1] = x
           /\ \A cmd : Has(<<x>>, i, cmd) <=> x.id = i /\ x.cmd = cmd
           /\ EndLast(<<x>>, i)
           /\ x.cmd # "SENDME" => Count(<<x>>, SendmeSet(i)) = 0
<1>1. <<x>> \in Seq(Cell) /\ DOMAIN <<x>> = {1} /\ <<x>>[1] = x
  OBVIOUS
<1> DEFINE r == <<x>>
<1> HIDE DEF r
<1>2. r \in Seq(Cell) /\ DOMAIN r = {1} /\ r[1] = x
  BY <1>1 DEF r
<1>3. \A cmd : Has(r, i, cmd) <=> x.id = i /\ x.cmd = cmd
  BY <1>2 DEF Has
<1>4. EndLast(r, i)
  BY <1>2 DEF EndLast
<1>5. x.cmd # "SENDME" => Count(r, SendmeSet(i)) = 0
  BY <1>2, CountNone DEF SendmeSet
<1> QED
  BY <1>1, <1>3, <1>4, <1>5 DEF r

\* The client ends a stream: from now on only its half edge is left.
LEMMA StepClientEnds ==
    ASSUME NEW i, NEW v \in View, NEW w \in View, NEW y \in Far,
           NEW L \in Seq(Cell), NEW M \in Seq(Cell), NEW x \in Cell, x.cmd = "END", x.id = i,
           Joined(i, v, y, L, M),
           w.o = v.o, w.w = v.w, w.d = v.d, w.x = v.x, w.g = v.g, w.s = v.s, w.h
    PROVE  Joined(i, w, y, Append(L, x), M)
<1> DEFINE r == <<x>>
           t == L \o r
<1>0. Append(L, x) = t
  OBVIOUS
<1>1. /\ r \in Seq(Cell) /\ DOMAIN r = {1} /\ r[1] = x
      /\ \A cmd : Has(r, i, cmd) <=> cmd = "END"
      /\ Count(r, SendmeSet(i)) = 0
  <2>1. \A cmd : Has(r, i, cmd) <=> x.id = i /\ x.cmd = cmd
    BY OneCell
  <2>2. r \in Seq(Cell) /\ DOMAIN r = {1} /\ r[1] = x /\ EndLast(r, i)
    BY OneCell
  <2>3. Count(r, SendmeSet(i)) = 0
    BY OneCell
  <2> QED
    BY <2>1, <2>2, <2>3
<1> HIDE DEF r
<1>2. /\ t \in Seq(Cell)
      /\ \A cmd : cmd # "END" => (Has(t, i, cmd) <=> Has(L, i, cmd))
  BY <1>1, ConcatHas
<1>3. Count(t, SendmeSet(i)) = Count(L, SendmeSet(i))
  BY <1>1, ConcatCountSame
<1>4. ASSUME NEW a, DataRange(L, i, v.o, a, v.s) PROVE DataRange(t, i, v.o, a, v.s)
  <2>1. DataRange(r, i, v.o, v.s, v.s)
    <3>1. ~Has(r, i, "DATA") /\ v.s \in Nat
      BY <1>1, ViewType
    <3> QED
      BY <3>1, RangeEmpty
  <2>2. ~Has(r, i, "BEGIN")
    BY <1>1
  <2> QED
    BY <1>1, <1>4, <2>1, <2>2, RangeConcat
<1>5. BeginFirst(L, i, v.o, v.h) => BeginFirst(t, i, v.o, TRUE)
  <2>1. BeginFirst(L, i, v.o, v.h) => BeginFirst(L, i, v.o, TRUE)
    BY ViewType DEF BeginFirst
  <2> QED
    BY <1>1, <2>1, ConcatOrders
<1>6. w.h = TRUE
  BY ViewType
<1> HIDE DEF t
<1>7. CASE Begun(i, v, y, L, M)
  BY <1>0, <1>2, <1>4, <1>5, <1>6, <1>7 DEF Begun, Joined
<1>8. CASE Alive(i, v, y, L, M)
  <2>1. Alive(i, w, y, t, M)
    BY <1>2, <1>3, <1>4, <1>8 DEF Alive
  <2> QED
    BY <1>0, <2>1 DEF Joined
<1>9. CASE Over(i, v, y, L, M)
  BY <1>0, <1>2, <1>9 DEF Over, Joined
<1> QED
  BY <1>7, <1>8, <1>9 DEF Joined

\* The BEGIN arrives: the exit has no edge for it yet, and makes one.
LEMMA StepBeginArrives ==
    ASSUME NEW i, NEW v \in View, NEW y \in Far, NEW z \in Far,
           NEW L \in Seq(Cell), NEW M \in Seq(Cell), L # <<>>,
           Head(L).id = i, Head(L).cmd = "BEGIN", Joined(i, v, y, L, M),
           z.state = "connecting", z.o = Head(L).conn, z.w = StreamStart, z.d = StreamStart,
           z.g = 0, z.s = 0
    PROVE  y.state = "none" /\ Joined(i, v, z, Tail(L), M)
<1> DEFINE t == Tail(L)
<1>1. t \in Seq(Cell) /\ Has(L, i, "BEGIN")
  BY TailHas
<1>2. Begun(i, v, y, L, M)
  BY <1>1 DEF Joined, Alive, Over
<1>3. /\ Head(L).conn = v.o /\ ~Has(t, i, "BEGIN") /\ ~Has(t, i, "SENDME")
      /\ Has(t, i, "END") => v.h
  BY <1>2, TailOrders DEF Begun
<1>4. DataRange(t, i, v.o, 0, v.s)
  BY <1>2, RangeTail DEF Begun
<1>5. \A cmd : ~Has(M, i, cmd)
  BY <1>2 DEF Begun, NoCell, Has
<1>6. Count(M, SendmeSet(i)) = 0 /\ Count(t, SendmeSet(i)) = 0
  <2>1. \A k \in DOMAIN M : M[k] \notin SendmeSet(i)
    BY <1>5 DEF SendmeSet, Has
  <2>2. \A k \in DOMAIN t : t[k] \notin SendmeSet(i)
    BY <1>3 DEF SendmeSet, Has
  <2> QED
    BY <1>1, <2>1, <2>2, CountNone
<1>7. DataRange(M, i, v.o, 0, 0)
  BY <1>5, RangeEmpty
<1>8. Opening(i, v.x, M)
  BY <1>2, <1>5 DEF Begun, Opening, ConnectedFirst, EndLast, NoCell
<1>9. /\ v.w + (v.s - 0) + StreamInc * 0 = StreamStart
      /\ StreamStart + (0 - 0) + StreamInc * 0 = StreamStart
      /\ v.w \in Nat /\ v.s \in Nat
  BY <1>2, ViewType, Sizes DEF Begun
<1> HIDE DEF t
<1>10. Alive(i, v, z, t, M)
  BY <1>2, <1>3, <1>4, <1>5, <1>6, <1>7, <1>8, <1>9 DEF Alive, Begun
<1> QED
  BY <1>2, <1>10 DEF Begun, Joined, t

\* The exit is connected and says so.
LEMMA StepConnects ==
    ASSUME NEW i, NEW v \in View, NEW y \in Far, NEW z \in Far,
           NEW L \in Seq(Cell), NEW M \in Seq(Cell), NEW x \in Cell,
           x.id = i, x.cmd = "CONNECTED", Joined(i, v, y, L, M), y.state = "connecting",
           z.state = "open", z.o = y.o, z.w = y.w, z.d = y.d, z.g = y.g, z.s = y.s
    PROVE  Joined(i, v, z, L, M \o <<x>>)
<1> DEFINE r == <<x>>
           t == M \o r
<1>1. /\ r \in Seq(Cell) /\ DOMAIN r = {1} /\ r[1] = x
      /\ \A cmd : Has(r, i, cmd) <=> cmd = "CONNECTED"
      /\ Count(r, SendmeSet(i)) = 0 /\ EndLast(r, i)
  <2>1. \A cmd : Has(r, i, cmd) <=> x.id = i /\ x.cmd = cmd
    BY OneCell
  <2>2. r \in Seq(Cell) /\ DOMAIN r = {1} /\ r[1] = x /\ EndLast(r, i)
    BY OneCell
  <2>3. Count(r, SendmeSet(i)) = 0
    BY OneCell
  <2> QED
    BY <2>1, <2>2, <2>3
<1> HIDE DEF r
<1>2. Alive(i, v, y, L, M) /\ NoCell(M, i) /\ v.x
  BY DEF Joined, Begun, Over, Alive
<1>3. \A cmd : ~Has(M, i, cmd)
  BY <1>2 DEF NoCell, Has
<1>4. t \in Seq(Cell) /\ \A cmd : Has(t, i, cmd) <=> cmd = "CONNECTED"
  BY <1>1, <1>3, ConcatHas
<1>5. Count(t, SendmeSet(i)) = Count(M, SendmeSet(i))
  BY <1>1, ConcatCountSame
<1>6. ASSUME NEW a, DataRange(M, i, v.o, a, y.s) PROVE DataRange(t, i, v.o, a, y.s)
  <2>1. DataRange(r, i, v.o, y.s, y.s)
    <3>1. ~Has(r, i, "DATA") /\ y.s \in Nat
      BY <1>1, FarType
    <3> QED
      BY <3>1, RangeEmpty
  <2>2. ~Has(r, i, "BEGIN")
    BY <1>1
  <2> QED
    BY <1>1, <1>6, <2>1, <2>2, RangeConcat
<1>7. EndLast(t, i)
  BY <1>1, <1>2, <1>3, ConcatOrders DEF Alive, Opening
<1>8. ConnectedFirst(t, i)
  <2>1. \A k \in DOMAIN t :
         \/ k \in DOMAIN M /\ t[k] = M[k]
         \/ k > Len(M) /\ k - Len(M) \in DOMAIN r /\ t[k] = r[k - Len(M)]
    BY <1>1, ConcatSplit
  <2>2. Len(M) \in Nat /\ DOMAIN t \subseteq Int
    BY <1>4
  <2>3. \A k \in DOMAIN t : t[k].id = i => k = Len(M) + 1
    BY <1>1, <1>2, <2>1, <2>2 DEF NoCell
  <2> QED
    BY <2>2, <2>3 DEF ConnectedFirst
<1>9. Opening(i, v.x, t)
  BY <1>2, <1>4, <1>7, <1>8 DEF Opening
<1> HIDE DEF t
<1>10. Alive(i, v, z, L, t)
  <2>1. DataRange(t, i, v.o, v.g, z.s)
    BY <1>2, <1>6 DEF Alive
  <2>2. ~Has(t, i, "BEGIN") /\ ~Has(t, i, "END") /\ Has(t, i, "CONNECTED")
    BY <1>4
  <2> QED
    BY <1>2, <1>5, <1>9, <2>1, <2>2 DEF Alive
<1> QED
  BY <1>10 DEF Joined, t, r

\* The exit gives a stream up or ends it.
LEMMA StepExitEnds ==
    ASSUME NEW i, NEW v \in View, NEW y \in Far, NEW z,
           NEW L \in Seq(Cell), NEW M \in Seq(Cell), NEW x \in Cell,
           x.id = i, x.cmd = "END", Joined(i, v, y, L, M), y.state # "none",
           z.state = "none"
    PROVE  Joined(i, v, z, L, M \o <<x>>)
<1> DEFINE r == <<x>>
           t == M \o r
           c == Count(M, SendmeSet(i))
           b == Count(L, SendmeSet(i))
<1>1. /\ r \in Seq(Cell) /\ DOMAIN r = {1} /\ r[1] = x
      /\ \A cmd : Has(r, i, cmd) <=> cmd = "END"
      /\ Count(r, SendmeSet(i)) = 0 /\ EndLast(r, i)
  <2>1. \A cmd : Has(r, i, cmd) <=> x.id = i /\ x.cmd = cmd
    BY OneCell
  <2>2. r \in Seq(Cell) /\ DOMAIN r = {1} /\ r[1] = x /\ EndLast(r, i)
    BY OneCell
  <2>3. Count(r, SendmeSet(i)) = 0
    BY OneCell
  <2> QED
    BY <2>1, <2>2, <2>3
<1> HIDE DEF r
<1>2. Alive(i, v, y, L, M)
  BY DEF Joined, Begun, Over
<1>3. /\ t \in Seq(Cell) /\ Has(t, i, "END")
      /\ \A cmd : cmd # "END" => (Has(t, i, cmd) <=> Has(M, i, cmd))
  BY <1>1, ConcatHas
<1>4. Count(t, SendmeSet(i)) = c
  BY <1>1, ConcatCountSame
<1>5. DataRange(t, i, v.o, v.g, y.s)
  <2>1. DataRange(r, i, v.o, y.s, y.s)
    <3>1. ~Has(r, i, "DATA") /\ y.s \in Nat
      BY <1>1, FarType
    <3> QED
      BY <3>1, RangeEmpty
  <2> QED
    BY <1>1, <1>2, <2>1, RangeConcat DEF Alive
<1>6. EndLast(t, i) /\ ConnectedFirst(t, i)
  BY <1>1, <1>2, ConcatOrders DEF Alive, Opening
<1>7. Opening(i, v.x, t)
  BY <1>2, <1>3, <1>6 DEF Opening, Alive
<1>8. /\ v.w \in Nat /\ v.s \in Nat /\ y.g \in Nat /\ y.d \in Nat /\ y.d <= StreamStart
      /\ y.w \in Nat /\ y.s \in Nat /\ v.g \in Nat /\ v.d \in Nat
      /\ c \in Nat /\ StreamInc * c \in Nat /\ b \in Nat /\ StreamInc * b \in Nat
  BY ViewType, FarType, CountType, Sizes, Times
<1>9. /\ v.w + (v.s - y.g) + StreamInc * c = y.d /\ y.g <= v.s
      /\ y.w + (y.s - v.g) + StreamInc * b = v.d
  BY <1>2 DEF Alive, DataRange
<1>10. v.w + StreamInc * c <= StreamStart /\ y.s - v.g <= v.d
  <2> DEFINE p == StreamInc * c
             u == StreamInc * b
  <2> HIDE DEF t, c, b, p, u
  <2>1. p \in Nat /\ u \in Nat /\ StreamStart \in Nat
    BY <1>8, Sizes DEF p, u
  <2>2. v.w + (v.s - y.g) + p = y.d /\ y.w + (y.s - v.g) + u = v.d /\ y.g <= v.s
    BY <1>9 DEF p, u
  <2>3. /\ v.w \in Nat /\ v.s \in Nat /\ y.g \in Nat /\ y.d \in Nat /\ y.d <= StreamStart
        /\ y.w \in Nat /\ y.s \in Nat /\ v.g \in Nat /\ v.d \in Nat
    BY <1>8
  <2> DEFINE vw == v.w
             vs == v.s
             vg == v.g
             vd == v.d
             yw == y.w
             ys == y.s
             yg == y.g
             yd == y.d
  <2>4. /\ vw + (vs - yg) + p = yd /\ yw + (ys - vg) + u = vd /\ yg <= vs
        /\ vw \in Nat /\ vs \in Nat /\ yg \in Nat /\ yd \in Nat /\ yd <= StreamStart
        /\ yw \in Nat /\ ys \in Nat /\ vg \in Nat /\ vd \in Nat
    BY <2>2, <2>3
  <2> HIDE DEF vw, vs, vg, vd, yw, ys, yg, yd
  <2>5. vw + p <= StreamStart /\ ys - vg <= vd
    BY <2>1, <2>4
  <2> QED
    BY <2>5 DEF p, vw, vg, vd, ys
<1> HIDE DEF t, c, b
<1>11. Over(i, v, z, L, t)
  BY <1>2, <1>3, <1>4, <1>5, <1>7, <1>8, <1>10 DEF Over, Alive
<1> QED
  BY <1>11 DEF Joined, t, r

\* A cell for a stream that the exit does not have, which is not a BEGIN, is dropped.
LEMMA StepDropped ==
    ASSUME NEW i, NEW v, NEW y, NEW L \in Seq(Cell), NEW M, L # <<>>, Head(L).id = i,
           Head(L).cmd # "BEGIN", y.state = "none", Joined(i, v, y, L, M)
    PROVE  Joined(i, v, y, Tail(L), M)
<1> DEFINE t == Tail(L)
<1>1. /\ \A cmd : Has(t, i, cmd) => Has(L, i, cmd)
      /\ Has(L, i, "BEGIN") => Has(t, i, "BEGIN")
  BY TailHas
<1>2. CASE Begun(i, v, y, L, M)
  <2>1. Has(t, i, "BEGIN")
    BY <1>1, <1>2 DEF Begun
  <2>2. DataRange(t, i, v.o, 0, v.s)
    BY <1>2, <2>1, RangeTail DEF Begun
  <2>3. BeginFirst(t, i, v.o, v.h)
    BY <1>2, TailOrders DEF Begun
  <2> QED
    BY <1>2, <2>1, <2>2, <2>3 DEF Begun, Joined
<1>3. CASE Over(i, v, y, L, M)
  BY <1>1, <1>3 DEF Over, Joined
<1> QED
  BY <1>2, <1>3 DEF Joined, Alive

LEMMA StepDroppedUnused ==
    ASSUME NEW i, NEW y, NEW L \in Seq(Cell), NEW M, L # <<>>, Unused(i, y, L, M)
    PROVE  Unused(i, y, Tail(L), M)
BY TailHas DEF Unused

\* The END of the client arrives at a stream that the exit has: the client has closed it.
LEMMA StepEndArrives ==
    ASSUME NEW i, NEW v \in View, NEW y \in Far, NEW z,
           NEW L \in Seq(Cell), NEW M \in Seq(Cell), L # <<>>, Head(L).id = i,
           Head(L).cmd = "END", Joined(i, v, y, L, M), y.state # "none", z.state = "none"
    PROVE  Joined(i, v, z, Tail(L), M)
<1> DEFINE t == Tail(L)
           c == Count(M, SendmeSet(i))
           b == Count(L, SendmeSet(i))
<1>1. Has(L, i, "END") /\ \A cmd : Has(t, i, cmd) => Has(L, i, cmd)
  BY TailHas
<1>2. Alive(i, v, y, L, M)
  BY DEF Joined, Begun, Over
<1>3. v.h
  BY <1>1, <1>2 DEF Alive
<1>4. /\ v.w \in Nat /\ v.s \in Nat /\ y.g \in Nat /\ y.d \in Nat /\ y.d <= StreamStart
      /\ y.w \in Nat /\ y.s \in Nat /\ v.g \in Nat /\ v.d \in Nat
  BY ViewType, FarType
<1>5. v.w + StreamInc * c <= StreamStart /\ y.s - v.g <= v.d
  <2> DEFINE p == StreamInc * c
             u == StreamInc * b
  <2>1. p \in Nat /\ u \in Nat /\ StreamStart \in Nat
    BY CountType, Sizes, Times
  <2>2. v.w + (v.s - y.g) + p = y.d /\ y.w + (y.s - v.g) + u = v.d /\ y.g <= v.s
    BY <1>2 DEF Alive, DataRange
  <2> HIDE DEF p, u
  <2>3. v.w + p <= StreamStart
    <3> DEFINE vw == v.w
               vs == v.s
               yg == y.g
               yd == y.d
    <3>1. vw \in Nat /\ vs \in Nat /\ yg \in Nat /\ yd \in Nat /\ yd <= StreamStart
      BY <1>4
    <3>2. vw + (vs - yg) + p = yd /\ yg <= vs
      BY <2>2
    <3> HIDE DEF vw, vs, yg, yd
    <3>3. vw + p <= StreamStart
      BY <2>1, <3>1, <3>2
    <3> QED
      BY <3>3 DEF vw
  <2>4. y.s - v.g <= v.d
    <3> DEFINE yw == y.w
               ys == y.s
               vg == v.g
               vd == v.d
    <3>1. yw \in Nat /\ ys \in Nat /\ vg \in Nat /\ vd \in Nat /\ yw + (ys - vg) + u = vd
      BY <1>4, <2>2
    <3> HIDE DEF yw, ys, vg, vd
    <3>2. ys - vg <= vd
      BY <2>1, <3>1
    <3> QED
      BY <3>2 DEF ys, vg, vd
  <2> QED
    BY <2>3, <2>4 DEF p
<1>6. Over(i, v, z, t, M)
  BY <1>1, <1>2, <1>3, <1>4, <1>5 DEF Over, Alive
<1> QED
  BY <1>6 DEF Joined

\* Data arrives at a stream that the exit has: it is the next of its connection, and the
\* window allows it.
LEMMA StepExitGets ==
    ASSUME NEW i, NEW v \in View, NEW y \in Far, NEW L \in Seq(Cell), NEW M \in Seq(Cell),
           L # <<>>, Head(L).id = i, Head(L).cmd = "DATA", Joined(i, v, y, L, M),
           y.state # "none"
    PROVE  /\ Head(L).conn = y.o /\ Head(L).n = y.g + 1 /\ y.d >= 1
           /\ \A z \in Far :
                /\ z.state = y.state /\ z.o = y.o /\ z.w = y.w /\ z.s = y.s
                /\ z.d = y.d - 1 /\ z.g = y.g + 1
                => Joined(i, v, z, Tail(L), M)
<1> DEFINE t == Tail(L)
           p == StreamInc * Count(M, SendmeSet(i))
<1>1. t \in Seq(Cell) /\ \A cmd : Has(t, i, cmd) => Has(L, i, cmd)
  BY TailHas
<1>2. Alive(i, v, y, L, M)
  BY DEF Joined, Begun, Over
<1>3. /\ Head(L).conn = v.o /\ Head(L).n = y.g + 1 /\ y.g + 1 <= v.s
      /\ DataRange(t, i, v.o, y.g + 1, v.s)
  <2>1. ~Has(L, i, "BEGIN") /\ DataRange(L, i, v.o, y.g, v.s)
    BY <1>2 DEF Alive
  <2> DEFINE g == y.g
             s == v.s
             o == v.o
  <2>2. ~Has(L, i, "BEGIN") /\ DataRange(L, i, o, g, s)
    BY <2>1
  <2> HIDE DEF g, s, o, t
  <2>3. Head(L).conn = o /\ Head(L).n = g + 1 /\ g + 1 <= s /\ DataRange(Tail(L), i, o, g + 1, s)
    BY <2>2, RangePop
  <2> QED
    BY <2>3 DEF g, s, o, t
<1>4. Count(t, SendmeSet(i)) = Count(L, SendmeSet(i))
  <2>1. Head(L) \notin SendmeSet(i)
    BY DEF SendmeSet
  <2> QED
    BY <2>1, CountTail
<1>5. v.w \in Nat /\ v.s \in Nat /\ y.g \in Nat /\ y.d \in Nat /\ p \in Nat
  BY ViewType, FarType, CountType, Sizes, Times
<1>6. v.w + (v.s - y.g) + p = y.d
  BY <1>2 DEF Alive
<1> HIDE DEF p
<1>7. y.d >= 1 /\ v.w + (v.s - (y.g + 1)) + p = y.d - 1
  <2> DEFINE vw == v.w
             vs == v.s
             yg == y.g
             yd == y.d
  <2>1. vw \in Nat /\ vs \in Nat /\ yg \in Nat /\ yd \in Nat /\ yg + 1 <= vs
    BY <1>3, <1>5
  <2>2. vw + (vs - yg) + p = yd
    BY <1>6
  <2> HIDE DEF vw, vs, yg, yd
  <2>3. yd >= 1 /\ vw + (vs - (yg + 1)) + p = yd - 1
    BY <1>5, <2>1, <2>2
  <2> QED
    BY <2>3 DEF vw, vs, yg, yd
<1>8. ASSUME NEW z \in Far, z.state = y.state, z.o = y.o, z.w = y.w, z.s = y.s,
             z.d = y.d - 1, z.g = y.g + 1
      PROVE  Alive(i, v, z, t, M)
  <2>1. v.w + (v.s - z.g) + StreamInc * Count(M, SendmeSet(i)) = z.d
    BY <1>7, <1>8 DEF p
  <2> QED
    BY <1>1, <1>2, <1>3, <1>4, <1>8, <2>1 DEF Alive
<1> QED
  BY <1>2, <1>3, <1>7, <1>8 DEF Joined, Alive

\* Copies of a SENDME of stream i.
LEMMA SendmeCopies ==
    ASSUME NEW x \in Cell, x.cmd = "SENDME", NEW i, x.id = i, NEW n \in Nat
    PROVE  /\ Copies(n, x) \in Seq(Cell) /\ Len(Copies(n, x)) = n
           /\ \A cmd : Has(Copies(n, x), i, cmd) => cmd = "SENDME"
           /\ EndLast(Copies(n, x), i)
           /\ Count(Copies(n, x), SendmeSet(i)) = n
<1> DEFINE r == Copies(n, x)
<1>1. r \in Seq(Cell) /\ Len(r) = n /\ \A k \in DOMAIN r : r[k] = x
  BY DEF Copies
<1> HIDE DEF r
<1>2. x \in SendmeSet(i)
  BY DEF SendmeSet
<1>3. Count(r, SendmeSet(i)) = n
  BY <1>1, <1>2, CountAll
<1>4. \A cmd : Has(r, i, cmd) => cmd = "SENDME"
  BY <1>1 DEF Has
<1>5. EndLast(r, i)
  BY <1>1 DEF EndLast
<1> QED
  BY <1>1, <1>3, <1>4, <1>5 DEF r

\* The exit acknowledges n increments.
LEMMA StepExitAcks ==
    ASSUME NEW i, NEW v \in View, NEW y \in Far, NEW z \in Far, NEW n \in Nat,
           NEW L \in Seq(Cell), NEW M \in Seq(Cell), NEW x \in Cell, x.cmd = "SENDME", x.id = i,
           Joined(i, v, y, L, M), y.state = "open",
           z.state = y.state, z.o = y.o, z.w = y.w, z.d = y.d + n * StreamInc, z.g = y.g,
           z.s = y.s
    PROVE  Joined(i, v, z, L, M \o Copies(n, x))
<1> DEFINE r == Copies(n, x)
           t == M \o r
           c == Count(M, SendmeSet(i))
<1>1. /\ r \in Seq(Cell) /\ EndLast(r, i) /\ Count(r, SendmeSet(i)) = n
      /\ \A cmd : Has(r, i, cmd) => cmd = "SENDME"
  BY SendmeCopies
<1> HIDE DEF r
<1>2. /\ t \in Seq(Cell)
      /\ \A cmd : cmd # "SENDME" => (Has(t, i, cmd) <=> Has(M, i, cmd))
  BY <1>1, ConcatHas
<1>3. Count(t, SendmeSet(i)) = c + n
  BY <1>1, CountConcat
<1>4. Alive(i, v, y, L, M)
  BY DEF Joined, Begun, Over
<1>5. DataRange(t, i, v.o, v.g, y.s)
  <2>1. ~Has(r, i, "DATA") /\ y.s \in Nat /\ ~Has(r, i, "BEGIN")
    BY <1>1, FarType
  <2>2. DataRange(r, i, v.o, y.s, y.s)
    BY <2>1, RangeEmpty
  <2> QED
    BY <1>1, <1>4, <2>1, <2>2, RangeConcat DEF Alive
<1>6. EndLast(t, i) /\ ConnectedFirst(t, i)
  <2>1. ~Has(r, i, "CONNECTED")
    BY <1>1
  <2> QED
    BY <1>1, <1>4, <2>1, ConcatOrders DEF Alive, Opening
<1>7. Opening(i, v.x, t)
  BY <1>2, <1>4, <1>6 DEF Opening, Alive
<1>8. v.w + (v.s - y.g) + StreamInc * (c + n) = y.d + n * StreamInc
  <2> DEFINE p == StreamInc * c
             u == StreamInc * n
  <2>0. c \in Nat
    BY CountType
  <2> HIDE DEF c
  <2>1. /\ p \in Nat /\ u \in Nat /\ StreamInc * (c + n) = p + u
        /\ n * StreamInc = u
        /\ v.w \in Nat /\ v.s \in Nat /\ y.g \in Nat /\ y.d \in Nat
    <3>1. v.w \in Nat /\ v.s \in Nat /\ y.g \in Nat /\ y.d \in Nat
      BY ViewType, FarType
    <3>2. p \in Nat /\ u \in Nat /\ StreamInc * (c + n) = p + u /\ n * StreamInc = u
      BY <2>0, Sizes, Times
    <3> QED
      BY <3>1, <3>2
  <2>2. v.w + (v.s - y.g) + p = y.d
    BY <1>4 DEF Alive, c
  <2> HIDE DEF p, u
  <2>3. v.w + (v.s - y.g) + (p + u) = y.d + u
    BY <2>1, <2>2
  <2> QED
    BY <2>1, <2>3
<1> HIDE DEF t, c
<1>9. Alive(i, v, z, L, t)
  <2>1. ~Has(t, i, "BEGIN") /\ ~Has(t, i, "END") /\ (v.x => Has(t, i, "CONNECTED"))
    BY <1>2, <1>4 DEF Alive
  <2> QED
    BY <1>3, <1>4, <1>5, <1>7, <1>8, <2>1 DEF Alive
<1> QED
  BY <1>9 DEF Joined, t, r

\* A SENDME arrives at a stream that the exit has: it is open, and the window has room.
LEMMA StepExitAcked ==
    ASSUME NEW i, NEW v \in View, NEW y \in Far, NEW L \in Seq(Cell), NEW M \in Seq(Cell),
           L # <<>>, Head(L).id = i, Head(L).cmd = "SENDME", Joined(i, v, y, L, M),
           y.state # "none"
    PROVE  /\ y.state = "open" /\ y.w + StreamInc <= StreamStart
           /\ \A z \in Far :
                /\ z.state = y.state /\ z.o = y.o /\ z.w = y.w + StreamInc /\ z.s = y.s
                /\ z.d = y.d /\ z.g = y.g
                => Joined(i, v, z, Tail(L), M)
<1> DEFINE t == Tail(L)
           c == Count(t, SendmeSet(i))
           p == StreamInc * c
<1>1. t \in Seq(Cell) /\ Has(L, i, "SENDME") /\ \A cmd : Has(t, i, cmd) => Has(L, i, cmd)
  BY TailHas
<1>2. Alive(i, v, y, L, M)
  BY DEF Joined, Begun, Over
<1>3. y.state = "open"
  BY <1>1, <1>2 DEF Alive
<1>4. DataRange(t, i, v.o, y.g, v.s)
  BY <1>2, RangeTail DEF Alive
<1>5. Count(L, SendmeSet(i)) = c + 1 /\ c \in Nat
  <2>1. Head(L) \in SendmeSet(i)
    BY TailHas DEF SendmeSet
  <2> QED
    BY <2>1, CountTail
<1>6. /\ y.w \in Nat /\ y.s \in Nat /\ v.g \in Nat /\ v.d \in Nat /\ v.d <= StreamStart
      /\ p \in Nat /\ StreamInc * (c + 1) = p + StreamInc /\ StreamInc \in Nat
      /\ StreamStart \in Nat
  BY <1>5, ViewType, FarType, Sizes, Times
<1>7. y.w + (y.s - v.g) + (p + StreamInc) = v.d /\ v.g <= y.s
  <2>1. y.w + (y.s - v.g) + StreamInc * (c + 1) = v.d
    BY <1>2, <1>5 DEF Alive
  <2> QED
    BY <1>2, <1>6, <2>1 DEF Alive, DataRange
<1> HIDE DEF p
<1>8. y.w + StreamInc <= StreamStart /\ (y.w + StreamInc) + (y.s - v.g) + p = v.d
  <2>1. (y.w + StreamInc) + (y.s - v.g) + p = v.d
    BY <1>6, <1>7
  <2> QED
    BY <1>6, <1>7, <2>1
<1>9. ASSUME NEW z \in Far, z.state = y.state, z.o = y.o, z.w = y.w + StreamInc, z.s = y.s,
             z.d = y.d, z.g = y.g
      PROVE  Alive(i, v, z, t, M)
  <2>1. z.w + (z.s - v.g) + StreamInc * Count(t, SendmeSet(i)) = v.d
    BY <1>8, <1>9 DEF p
  <2> QED
    BY <1>1, <1>2, <1>3, <1>4, <1>9, <2>1 DEF Alive
<1> QED
  BY <1>3, <1>8, <1>9 DEF Joined

\* Data arrives at the client: the stream is open, the data is the next of its connection
\* and the window allows it.
LEMMA StepClientGets ==
    ASSUME NEW i, NEW v \in View, NEW y \in Far, NEW L \in Seq(Cell), NEW M \in Seq(Cell),
           M # <<>>, Head(M).id = i, Head(M).cmd = "DATA", Joined(i, v, y, L, M)
    PROVE  /\ ~v.x /\ Head(M).conn = v.o /\ Head(M).n = v.g + 1 /\ v.d >= 1
           /\ \A w \in View :
                /\ w.o = v.o /\ w.w = v.w /\ w.d = v.d - 1 /\ w.x = v.x /\ w.g = v.g + 1
                /\ w.s = v.s /\ w.h = v.h
                => Joined(i, w, y, L, Tail(M))
<1> DEFINE t == Tail(M)
           vg == v.g
           vd == v.d
<1>1. /\ t \in Seq(Cell) /\ Has(M, i, "DATA") /\ ~NoCell(M, i)
      /\ \A cmd : Has(t, i, cmd) => Has(M, i, cmd)
      /\ \A cmd : cmd # "DATA" => (Has(t, i, cmd) <=> Has(M, i, cmd))
  BY TailHas
<1>2. Count(t, SendmeSet(i)) = Count(M, SendmeSet(i))
  <2>1. Head(M) \notin SendmeSet(i)
    BY DEF SendmeSet
  <2> QED
    BY <2>1, CountTail
<1>3. vg \in Nat /\ vd \in Nat
  BY ViewType
<1>4. ASSUME Opening(i, v.x, M) PROVE ~v.x /\ Opening(i, v.x, t)
  <2>1. ConnectedFirst(t, i) /\ EndLast(t, i)
    BY <1>4, TailOrders DEF Opening
  <2>2. ~Has(M, i, "CONNECTED")
    <3>1. ~Has(t, i, "CONNECTED")
      BY <1>4, TailOrders DEF Opening
    <3> QED
      BY <1>1, <3>1
  <2> QED
    BY <1>1, <1>4, <2>1, <2>2 DEF Opening
<1>5. ASSUME NEW b, DataRange(M, i, v.o, vg, b), ~Has(M, i, "BEGIN")
      PROVE  /\ Head(M).conn = v.o /\ Head(M).n = vg + 1 /\ b \in Nat /\ vg + 1 <= b
             /\ DataRange(t, i, v.o, vg + 1, b)
  <2> DEFINE o == v.o
  <2>1. DataRange(M, i, o, vg, b) /\ ~Has(M, i, "BEGIN")
    BY <1>5
  <2> HIDE DEF o, t, vg
  <2>2. /\ Head(M).conn = o /\ Head(M).n = vg + 1 /\ b \in Nat /\ vg + 1 <= b
        /\ DataRange(Tail(M), i, o, vg + 1, b)
    BY <2>1, RangePop
  <2> QED
    BY <2>2 DEF o, t
<1> HIDE DEF t, vg, vd
<1>6. CASE Alive(i, v, y, L, M)
  <2> DEFINE ys == y.s
             yw == y.w
             p == StreamInc * Count(L, SendmeSet(i))
  <2>1. ys \in Nat /\ yw \in Nat /\ p \in Nat
    BY FarType, CountType, Sizes, Times
  <2>2. yw + (ys - vg) + p = vd
    BY <1>6 DEF Alive, vg, vd
  <2>3. /\ Head(M).conn = v.o /\ Head(M).n = vg + 1 /\ vg + 1 <= ys
        /\ DataRange(t, i, v.o, vg + 1, ys)
    BY <1>5, <1>6 DEF Alive, vg
  <2> HIDE DEF ys, yw, p
  <2>4. vd >= 1 /\ yw + (ys - (vg + 1)) + p = vd - 1
    BY <1>3, <2>1, <2>2, <2>3
  <2>5. ~v.x /\ Opening(i, v.x, t)
    BY <1>4, <1>6 DEF Alive
  <2>6. ASSUME NEW w \in View, w.o = v.o, w.w = v.w, w.d = v.d - 1, w.x = v.x, w.g = v.g + 1,
               w.s = v.s, w.h = v.h
        PROVE  Alive(i, w, y, L, t)
    <3>1. y.w + (y.s - w.g) + StreamInc * Count(L, SendmeSet(i)) = w.d
      BY <2>4, <2>6 DEF ys, yw, p, vg, vd
    <3>2. DataRange(t, i, w.o, w.g, y.s)
      BY <2>3, <2>6 DEF ys, vg
    <3> QED
      BY <1>1, <1>2, <1>6, <2>5, <2>6, <3>1, <3>2 DEF Alive
  <2> QED
    BY <2>3, <2>4, <2>5, <2>6 DEF Joined, t, vg, vd
<1>7. CASE Over(i, v, y, L, M)
  <2>1. PICK b \in Nat : DataRange(M, i, v.o, vg, b) /\ b - vg <= vd
    BY <1>7 DEF Over, vg, vd
  <2>2. /\ Head(M).conn = v.o /\ Head(M).n = vg + 1 /\ vg + 1 <= b
        /\ DataRange(t, i, v.o, vg + 1, b)
    BY <1>5, <1>7, <2>1 DEF Over
  <2>3. vd >= 1 /\ b - (vg + 1) <= vd - 1
    BY <1>3, <2>1, <2>2
  <2>4. ~v.x /\ Opening(i, v.x, t)
    BY <1>4, <1>7 DEF Over
  <2>5. ASSUME NEW w \in View, w.o = v.o, w.w = v.w, w.d = v.d - 1, w.x = v.x, w.g = v.g + 1,
               w.s = v.s, w.h = v.h
        PROVE  Over(i, w, y, L, t)
    <3>1. DataRange(t, i, w.o, w.g, b) /\ b - w.g <= w.d
      BY <2>2, <2>3, <2>5 DEF vg, vd
    <3> QED
      BY <1>1, <1>2, <1>7, <2>4, <2>5, <3>1 DEF Over
  <2> QED
    BY <2>2, <2>3, <2>4, <2>5 DEF Joined, t, vg, vd
<1> QED
  BY <1>1, <1>6, <1>7 DEF Joined, Begun

\* The client acknowledges n increments of an open stream.
LEMMA StepClientAcks ==
    ASSUME NEW i, NEW v \in View, NEW w \in View, NEW y \in Far, NEW n \in Nat,
           NEW L \in Seq(Cell), NEW M \in Seq(Cell), NEW x \in Cell, x.cmd = "SENDME", x.id = i,
           Joined(i, v, y, L, M), ~v.x,
           w.o = v.o, w.w = v.w, w.d = v.d + n * StreamInc, w.x = v.x, w.g = v.g, w.s = v.s,
           w.h = v.h
    PROVE  Joined(i, w, y, L \o Copies(n, x), M)
<1> DEFINE r == Copies(n, x)
           t == L \o r
           vd == v.d
           u == StreamInc * n
<1>1. /\ r \in Seq(Cell) /\ Count(r, SendmeSet(i)) = n
      /\ \A cmd : Has(r, i, cmd) => cmd = "SENDME"
  BY SendmeCopies
<1> HIDE DEF r
<1>2. /\ t \in Seq(Cell)
      /\ \A cmd : cmd # "SENDME" => (Has(t, i, cmd) <=> Has(L, i, cmd))
  BY <1>1, ConcatHas
<1>3. vd \in Nat /\ u \in Nat /\ w.d = vd + u
  BY ViewType, Sizes, Times
<1>4. CASE Alive(i, v, y, L, M)
  <2> DEFINE c == Count(L, SendmeSet(i))
             p == StreamInc * c
             ys == y.s
             yw == y.w
             vg == v.g
  <2>1. c \in Nat /\ ys \in Nat /\ yw \in Nat /\ vg \in Nat
    BY FarType, ViewType, CountType
  <2>2. Count(t, SendmeSet(i)) = c + n
    BY <1>1, CountConcat
  <2>3. yw + (ys - vg) + p = vd
    BY <1>4 DEF Alive
  <2> HIDE DEF c, ys, yw, vg
  <2>4. p \in Nat /\ StreamInc * (c + n) = p + u
    BY <2>1, Sizes, Times
  <2> HIDE DEF p
  <2>5. yw + (ys - vg) + (p + u) = vd + u
    BY <1>3, <2>1, <2>3, <2>4
  <2>6. y.w + (y.s - w.g) + StreamInc * Count(t, SendmeSet(i)) = w.d
    BY <1>3, <2>2, <2>4, <2>5 DEF ys, yw, vg
  <2>7. DataRange(t, i, v.o, y.g, v.s)
    <3>1. ~Has(r, i, "DATA") /\ v.s \in Nat /\ ~Has(r, i, "BEGIN")
      BY <1>1, ViewType
    <3>2. DataRange(r, i, v.o, v.s, v.s)
      BY <3>1, RangeEmpty
    <3> QED
      BY <1>1, <1>4, <3>1, <3>2, RangeConcat DEF Alive
  <2>8. Alive(i, w, y, t, M)
    <3>1. ~Has(t, i, "BEGIN") /\ (v.h \/ ~Has(t, i, "END"))
      BY <1>2, <1>4 DEF Alive
    <3> HIDE DEF t
    <3> QED
      BY <1>4, <2>6, <2>7, <3>1 DEF Alive
  <2> QED
    BY <2>8 DEF Joined, r
<1>5. CASE Over(i, v, y, L, M)
  <2>1. PICK b \in Nat : DataRange(M, i, v.o, v.g, b) /\ b - v.g <= vd
    BY <1>5 DEF Over
  <2>2. b - w.g <= w.d
    <3>1. v.g \in Nat
      BY ViewType
    <3> HIDE DEF vd, u
    <3>2. b - v.g <= vd + u
      BY <1>3, <2>1, <3>1
    <3> QED
      BY <1>3, <3>2
  <2>3. ~Has(t, i, "BEGIN") /\ (v.h \/ (Has(M, i, "END") /\ ~Has(t, i, "END")))
    BY <1>2, <1>5 DEF Over
  <2> HIDE DEF t
  <2>4. Over(i, w, y, t, M)
    BY <1>5, <2>1, <2>2, <2>3 DEF Over
  <2> QED
    BY <2>4 DEF Joined, t, r
<1> QED
  BY <1>4, <1>5 DEF Joined, Begun

\* A SENDME arrives at the client: the stream is open, and the window has room.
LEMMA StepClientAcked ==
    ASSUME NEW i, NEW v \in View, NEW y \in Far, NEW L \in Seq(Cell), NEW M \in Seq(Cell),
           M # <<>>, Head(M).id = i, Head(M).cmd = "SENDME", Joined(i, v, y, L, M)
    PROVE  /\ ~v.x /\ v.w + StreamInc <= StreamStart
           /\ \A w \in View :
                /\ w.o = v.o /\ w.w = v.w + StreamInc /\ w.d = v.d /\ w.x = v.x /\ w.g = v.g
                /\ w.s = v.s /\ w.h = v.h
                => Joined(i, w, y, L, Tail(M))
<1> DEFINE t == Tail(M)
           c == Count(t, SendmeSet(i))
           p == StreamInc * c
           vw == v.w
<1>1. /\ t \in Seq(Cell) /\ Has(M, i, "SENDME") /\ ~NoCell(M, i)
      /\ \A cmd : Has(t, i, cmd) => Has(M, i, cmd)
      /\ \A cmd : cmd # "SENDME" => (Has(t, i, cmd) <=> Has(M, i, cmd))
  BY TailHas
<1>2. Count(M, SendmeSet(i)) = c + 1 /\ c \in Nat
  <2>1. Head(M) \in SendmeSet(i)
    BY TailHas DEF SendmeSet
  <2> QED
    BY <2>1, CountTail
<1>3. vw \in Nat /\ StreamStart \in Nat /\ StreamInc \in Nat
  BY ViewType, Sizes
<1>4. ASSUME Opening(i, v.x, M) PROVE ~v.x /\ Opening(i, v.x, t)
  <2>1. ConnectedFirst(t, i) /\ EndLast(t, i)
    BY <1>4, TailOrders DEF Opening
  <2>2. ~Has(M, i, "CONNECTED")
    <3>1. ~Has(t, i, "CONNECTED")
      BY <1>4, TailOrders DEF Opening
    <3> QED
      BY <1>1, <3>1
  <2> QED
    BY <1>1, <1>4, <2>1, <2>2 DEF Opening
<1>5. ASSUME NEW a, NEW b, DataRange(M, i, v.o, a, b) PROVE DataRange(t, i, v.o, a, b)
  BY <1>5, RangeTail
<1> HIDE DEF t, c, vw
<1>6. p \in Nat /\ StreamInc * (c + 1) = p + StreamInc
  BY <1>2, Sizes, Times
<1>7. CASE Alive(i, v, y, L, M)
  <2> DEFINE vs == v.s
             yg == y.g
             yd == y.d
  <2>1. vs \in Nat /\ yg \in Nat /\ yd \in Nat /\ yd <= StreamStart
    BY ViewType, FarType
  <2>2. vw + (vs - yg) + StreamInc * (c + 1) = yd /\ yg <= vs
    BY <1>2, <1>7 DEF Alive, DataRange, vw
  <2>3. ~v.x /\ Opening(i, v.x, t)
    BY <1>4, <1>7 DEF Alive
  <2> HIDE DEF vs, yg, yd, p
  <2>4. vw + StreamInc <= StreamStart /\ (vw + StreamInc) + (vs - yg) + p = yd
    BY <1>3, <1>6, <2>1, <2>2
  <2>5. ASSUME NEW w \in View, w.o = v.o, w.w = v.w + StreamInc, w.d = v.d, w.x = v.x, w.g = v.g,
               w.s = v.s, w.h = v.h
        PROVE  Alive(i, w, y, L, t)
    <3>1. w.w + (w.s - y.g) + StreamInc * Count(t, SendmeSet(i)) = y.d
      BY <2>4, <2>5 DEF vs, yg, yd, p, c, vw
    <3>2. DataRange(t, i, v.o, v.g, y.s)
      BY <1>5, <1>7 DEF Alive
    <3> QED
      BY <1>1, <1>7, <2>3, <2>5, <3>1, <3>2 DEF Alive
  <2> QED
    BY <2>3, <2>4, <2>5 DEF Joined, t, vw
<1>8. CASE Over(i, v, y, L, M)
  <2>1. PICK b \in Nat : DataRange(M, i, v.o, v.g, b) /\ b - v.g <= v.d
    BY <1>8 DEF Over
  <2>2. DataRange(t, i, v.o, v.g, b)
    BY <1>5, <2>1
  <2>3. vw + StreamInc * (c + 1) <= StreamStart
    BY <1>2, <1>8 DEF Over, vw
  <2>4. ~v.x /\ Opening(i, v.x, t)
    BY <1>4, <1>8 DEF Over
  <2> HIDE DEF p
  <2>5. vw + StreamInc <= StreamStart /\ (vw + StreamInc) + p <= StreamStart
    BY <1>3, <1>6, <2>3
  <2>6. ASSUME NEW w \in View, w.o = v.o, w.w = v.w + StreamInc, w.d = v.d, w.x = v.x, w.g = v.g,
               w.s = v.s, w.h = v.h
        PROVE  Over(i, w, y, L, t)
    <3>1. w.w + StreamInc * Count(t, SendmeSet(i)) <= StreamStart
      BY <2>5, <2>6 DEF p, c, vw
    <3> QED
      BY <1>1, <1>8, <2>1, <2>2, <2>4, <2>6, <3>1 DEF Over
  <2> QED
    BY <2>4, <2>5, <2>6 DEF Joined, t, vw
<1> QED
  BY <1>1, <1>7, <1>8 DEF Joined, Begun

\* The CONNECTED arrives: the client waits for it.
LEMMA StepConnectedArrives ==
    ASSUME NEW i, NEW v \in View, NEW y \in Far, NEW L \in Seq(Cell), NEW M \in Seq(Cell),
           M # <<>>, Head(M).id = i, Head(M).cmd = "CONNECTED", Joined(i, v, y, L, M)
    PROVE  /\ v.x
           /\ \A w \in View :
                /\ w.o = v.o /\ w.w = v.w /\ w.d = v.d /\ ~w.x /\ w.g = v.g
                /\ w.s = v.s /\ w.h = v.h
                => Joined(i, w, y, L, Tail(M))
<1> DEFINE t == Tail(M)
<1>1. /\ t \in Seq(Cell) /\ Has(M, i, "CONNECTED") /\ ~NoCell(M, i)
      /\ \A cmd : Has(t, i, cmd) => Has(M, i, cmd)
      /\ \A cmd : cmd # "CONNECTED" => (Has(t, i, cmd) <=> Has(M, i, cmd))
  BY TailHas
<1>2. Count(t, SendmeSet(i)) = Count(M, SendmeSet(i))
  <2>1. Head(M) \notin SendmeSet(i)
    BY DEF SendmeSet
  <2> QED
    BY <2>1, CountTail
<1>3. ASSUME Opening(i, v.x, M) PROVE v.x /\ Opening(i, FALSE, t)
  <2>1. ConnectedFirst(t, i) /\ EndLast(t, i) /\ ~Has(t, i, "CONNECTED")
    BY <1>3, TailOrders DEF Opening
  <2> QED
    BY <1>1, <1>3, <2>1 DEF Opening
<1>4. ASSUME NEW a, NEW b, DataRange(M, i, v.o, a, b) PROVE DataRange(t, i, v.o, a, b)
  BY <1>4, RangeTail
<1> HIDE DEF t
<1>5. CASE Alive(i, v, y, L, M)
  <2>1. v.x /\ Opening(i, FALSE, t) /\ y.state = "open"
    BY <1>1, <1>3, <1>5 DEF Alive
  <2>2. ASSUME NEW w \in View, w.o = v.o, w.w = v.w, w.d = v.d, ~w.x, w.g = v.g,
               w.s = v.s, w.h = v.h
        PROVE  Alive(i, w, y, L, t)
    <3>1. DataRange(t, i, v.o, v.g, y.s) /\ w.x = FALSE
      BY <1>4, <1>5, <2>2, ViewType DEF Alive
    <3> QED
      BY <1>1, <1>2, <1>5, <2>1, <2>2, <3>1 DEF Alive
  <2> QED
    BY <2>1, <2>2 DEF Joined, t
<1>6. CASE Over(i, v, y, L, M)
  <2>1. v.x /\ Opening(i, FALSE, t)
    BY <1>3, <1>6 DEF Over
  <2>2. PICK b \in Nat : DataRange(M, i, v.o, v.g, b) /\ b - v.g <= v.d
    BY <1>6 DEF Over
  <2>3. DataRange(t, i, v.o, v.g, b)
    BY <1>4, <2>2
  <2>4. ASSUME NEW w \in View, w.o = v.o, w.w = v.w, w.d = v.d, ~w.x, w.g = v.g,
               w.s = v.s, w.h = v.h
        PROVE  Over(i, w, y, L, t)
    <3>1. w.x = FALSE
      BY <2>4, ViewType
    <3> QED
      BY <1>1, <1>2, <1>6, <2>1, <2>2, <2>3, <2>4, <3>1 DEF Over
  <2> QED
    BY <2>1, <2>4 DEF Joined, t
<1> QED
  BY <1>1, <1>5, <1>6 DEF Joined, Begun

\* The END of the exit arrives: nothing of the stream is left.
LEMMA StepEndAtClient ==
    ASSUME NEW i, NEW v, NEW y, NEW L \in Seq(Cell), NEW M \in Seq(Cell),
           M # <<>>, Head(M).id = i, Head(M).cmd = "END", Joined(i, v, y, L, M)
    PROVE  Unused(i, y, L, Tail(M))
<1>1. Has(M, i, "END") /\ ~NoCell(M, i)
  BY TailHas
<1>2. Over(i, v, y, L, M)
  BY <1>1 DEF Joined, Begun, Alive
<1>3. NoCell(Tail(M), i)
  BY <1>2, TailOrders DEF Over, Opening
<1> QED
  BY <1>2, <1>3 DEF Over, Unused

-----------------------------------------------------------------------------
(* Edges, and the data they package.                                       *)

\* The minimum of a set of numbers is in it.
LEMMA MinExists ==
    ASSUME NEW S \in SUBSET Nat, S # {}
    PROVE  Min(S) \in S /\ \A y \in S : Min(S) <= y
<1> DEFINE R == {ss \in Nat \X Nat : ss[1] < ss[2]}
<1>1. OpToRel(<, Nat) = R
  BY Zenon DEF OpToRel
<1>2. IsWellFoundedOn(R, Nat)
  BY <1>1, NatLessThanWellFounded, Zenon
<1> HIDE DEF R
<1>3. PICK x \in S : \A y \in S : ~(<<y, x>> \in R)
  BY <1>2, WFMin
<1>4. ASSUME NEW y \in S PROVE x <= y
  <2>1. y \in Nat /\ x \in Nat
    OBVIOUS
  <2>2. y < x => <<y, x>> \in R
    BY <2>1 DEF R
  <2> QED
    BY <1>3, <2>1, <2>2
<1> QED
  BY <1>4 DEF Min

LEMMA MinTwo ==
    ASSUME NEW a \in Nat, NEW b \in Nat
    PROVE  /\ Min({a, b}) \in Nat /\ Min({a, b}) <= a /\ Min({a, b}) <= b
           /\ Min({a, b}) = a \/ Min({a, b}) = b
<1>1. {a, b} \in SUBSET Nat /\ {a, b} # {}
  OBVIOUS
<1>2. Min({a, b}) \in {a, b} /\ \A y \in {a, b} : Min({a, b}) <= y
  BY <1>1, MinExists
<1> QED
  BY <1>2

LEMMA MinThree ==
    ASSUME NEW a \in Nat, NEW b \in Nat, NEW c \in Nat
    PROVE  LET m == Min({a, b, c})
           IN  m \in Nat /\ m <= a /\ m <= b /\ m <= c /\ (m = a \/ m = b \/ m = c)
<1>1. {a, b, c} \in SUBSET Nat /\ {a, b, c} # {}
  OBVIOUS
<1>2. Min({a, b, c}) \in {a, b, c} /\ \A y \in {a, b, c} : Min({a, b, c}) <= y
  BY <1>1, MinExists
<1> QED
  BY <1>2

EdgeState == {"none", "circuit_wait", "connect_wait", "connecting", "open", "closed"}

LEMMA EdgeType ==
    ASSUME NEW edge \in Edge
    PROVE  /\ edge.state \in EdgeState /\ edge.conn \in Conn /\ edge.id \in {0} \cup Id
           /\ edge.package \in Nat /\ edge.package <= StreamStart
           /\ edge.deliver \in Nat /\ edge.deliver <= StreamStart
           /\ edge.in \in Seq(Conn \X Nat) /\ edge.sending \in Seq(Conn \X Nat)
           /\ edge.pending \in Seq(Conn \X Nat) /\ edge.got \in Seq(Conn \X Nat)
           /\ edge.out \in Nat /\ edge.written \in Nat /\ edge.reading \in BOOLEAN
           /\ Len(edge.in) \in Nat /\ Len(edge.sending) \in Nat
           /\ Len(edge.pending) \in Nat /\ Len(edge.got) \in Nat
<1>1. /\ edge.state \in EdgeState /\ edge.conn \in Conn /\ edge.id \in {0} \cup Id
      /\ edge.package \in 0..StreamStart /\ edge.deliver \in 0..StreamStart
      /\ edge.in \in Seq(Conn \X Nat) /\ edge.sending \in Seq(Conn \X Nat)
      /\ edge.pending \in Seq(Conn \X Nat) /\ edge.got \in Seq(Conn \X Nat)
      /\ edge.out \in Nat /\ edge.written \in Nat /\ edge.reading \in BOOLEAN
  BY DEF Edge, EdgeState
<1> QED
  BY <1>1, Sizes

LEMMA SubSeqFacts ==
    ASSUME NEW S, NEW q \in Seq(S), NEW m \in Nat, m <= Len(q)
    PROVE  /\ SubSeq(q, m + 1, Len(q)) \in Seq(S)
           /\ Len(SubSeq(q, m + 1, Len(q))) = Len(q) - m
           /\ \A j \in 1..(Len(q) - m) : SubSeq(q, m + 1, Len(q))[j] = q[m + j]
           /\ SubSeq(q, 1, m) \in Seq(S) /\ Len(SubSeq(q, 1, m)) = m
           /\ \A j \in 1..m : SubSeq(q, 1, m)[j] = q[j]
OBVIOUS

\* What an edge has to send, in its order.
LEMMA AvailableFacts ==
    ASSUME NEW edge \in Edge, EdgePart(edge)
    PROVE  /\ Available(edge) \in Seq(Conn \X Nat)
           /\ Len(Available(edge)) = Len(edge.sending) + Len(edge.in)
           /\ SentOf(edge) \in Nat
           /\ \A j \in 1..Len(Available(edge)) :
                Available(edge)[j] = Data(edge.conn, SentOf(edge) + j)
<1> DEFINE S == Conn \X Nat
           a == edge.sending
           b == edge.in
           la == Len(a)
           lb == Len(b)
           wr == edge.written
<1>1. /\ a \in Seq(S) /\ b \in Seq(S) /\ la \in Nat /\ lb \in Nat /\ wr \in Nat
  BY EdgeType
<1> HIDE DEF S, a, b
<1>2. /\ a \o b \in Seq(S) /\ Len(a \o b) = la + lb
      /\ \A k \in 1..la : (a \o b)[k] = a[k]
      /\ \A k \in 1..lb : (a \o b)[la + k] = b[k]
  BY <1>1, ConcatFacts
<1>3. /\ wr >= lb + la
      /\ \A j \in 1..lb : b[j] = Data(edge.conn, wr - lb + j)
      /\ \A j \in 1..la : a[j] = Data(edge.conn, SentOf(edge) + j)
      /\ SentOf(edge) = wr - lb - la
  BY DEF EdgePart, SentOf, a, b
<1> HIDE DEF la, lb, wr
<1>4. SentOf(edge) \in Nat
  BY <1>1, <1>3
<1>5. ASSUME NEW j \in 1..(la + lb) PROVE (a \o b)[j] = Data(edge.conn, SentOf(edge) + j)
  <2>1. CASE j <= la
    BY <1>1, <1>2, <1>3, <2>1
  <2>2. CASE j > la
    <3>1. j - la \in 1..lb /\ la + (j - la) = j
      BY <1>1, <2>2
    <3>2. (a \o b)[j] = Data(edge.conn, wr - lb + (j - la))
      BY <1>2, <1>3, <3>1
    <3>3. wr - lb + (j - la) = SentOf(edge) + j
      BY <1>1, <1>3, <3>1
    <3> QED
      BY <3>2, <3>3
  <2>3. j <= la \/ j > la
    BY <1>1
  <2> QED
    BY <2>1, <2>2, <2>3
<1> QED
  BY <1>2, <1>4, <1>5 DEF Available, la, lb, a, b, S

LEMMA MessageFacts ==
    ASSUME NEW edge \in Edge,
           NEW cmd \in {"BEGIN", "CONNECTED", "DATA", "SENDME", "END", "CIRC_SENDME"}
    PROVE  /\ Message(cmd, edge) \in Cell
           /\ Message(cmd, edge).cmd = cmd /\ Message(cmd, edge).id = edge.id
           /\ Message(cmd, edge).conn = edge.conn
<1>1. edge.id \in {0} \cup Id /\ edge.conn \in Conn
  BY EdgeType
<1> QED
  BY <1>1 DEF Message, Cell

LEMMA DataCellFacts ==
    ASSUME NEW edge \in Edge, EdgePart(edge), NEW j \in 1..Len(Available(edge))
    PROVE  /\ DataCell(edge, j) \in Cell
           /\ DataCell(edge, j).cmd = "DATA" /\ DataCell(edge, j).id = edge.id
           /\ DataCell(edge, j).conn = edge.conn /\ DataCell(edge, j).n = SentOf(edge) + j
<1>1. SentOf(edge) \in Nat /\ j \in Nat
      /\ Available(edge)[j] = <<edge.conn, SentOf(edge) + j>>
  <2>1. SentOf(edge) \in Nat /\ Available(edge)[j] = Data(edge.conn, SentOf(edge) + j)
        /\ Available(edge) \in Seq(Conn \X Nat)
    BY AvailableFacts
  <2>2. Len(Available(edge)) \in Nat
    BY <2>1
  <2>3. j \in Nat
    BY <2>2
  <2> QED
    BY <2>1, <2>3 DEF Data
<1>2. /\ Message("DATA", edge) \in Cell /\ Message("DATA", edge).cmd = "DATA"
      /\ Message("DATA", edge).id = edge.id
  BY MessageFacts
<1> DEFINE x == Message("DATA", edge)
           m == SentOf(edge) + j
<1>3. Available(edge)[j][1] = edge.conn /\ Available(edge)[j][2] = m
  BY <1>1
<1>4. DataCell(edge, j) = [x EXCEPT !.conn = edge.conn, !.n = m]
  BY <1>3 DEF DataCell
<1>5. edge.conn \in Conn /\ m \in Nat
  BY <1>1, EdgeType
<1> HIDE DEF x, m
<1>6. x \in Cell /\ x.cmd = "DATA" /\ x.id = edge.id
  BY <1>2 DEF x
<1>7. [x EXCEPT !.conn = edge.conn, !.n = m] \in Cell
  BY <1>5, <1>6 DEF Cell
<1>8. /\ [x EXCEPT !.conn = edge.conn, !.n = m].cmd = "DATA"
      /\ [x EXCEPT !.conn = edge.conn, !.n = m].id = edge.id
      /\ [x EXCEPT !.conn = edge.conn, !.n = m].conn = edge.conn
      /\ [x EXCEPT !.conn = edge.conn, !.n = m].n = m
  BY <1>6 DEF Cell
<1> QED
  BY <1>4, <1>7, <1>8 DEF m

\* The fields of an edge that packaging leaves alone.
SameEdge(f, edge) ==
    /\ f.state = edge.state /\ f.conn = edge.conn /\ f.id = edge.id
    /\ f.deliver = edge.deliver /\ f.out = edge.out /\ f.got = edge.got
    /\ f.written = edge.written

\* Edge f is edge after n cells of it went out, and perhaps a change of its reading.
Packs(f, edge, n) ==
    /\ f \in Edge /\ SameEdge(f, edge) /\ EdgePart(f)
    /\ f.package = edge.package - n /\ SentOf(f) = SentOf(edge) + n
    /\ n = Len(Available(edge)) => f.in = <<>> /\ f.sending = <<>>
    /\ edge.sending = <<>> => f.sending = <<>>
    /\ ClientPart(edge) /\ edge.state \in {"connect_wait", "open"} => ClientPart(f)
    /\ ExitPart(edge) /\ edge.state # "connecting" => ExitPart(f)

LEMMA TakenFacts ==
    ASSUME NEW edge \in Edge, EdgePart(edge), NEW n \in Nat, n <= edge.package,
           n <= Len(Available(edge))
    PROVE  Packs(Taken(edge, n), edge, n) /\ Taken(edge, n).reading = edge.reading
<1> DEFINE S == Conn \X Nat
           a == edge.sending
           b == edge.in
           q == edge.pending
           la == Len(a)
           lb == Len(b)
           lq == Len(q)
           wr == edge.written
           o == edge.conn
           s == Min({n, la})
           a2 == SubSeq(a, s + 1, Len(a))
           b2 == SubSeq(b, n - s + 1, Len(b))
           b1 == SubSeq(b, 1, n - s)
           q2 == IF edge.state = "connect_wait" THEN q \o b1 ELSE q
           f == Taken(edge, n)
<1>1. /\ a \in Seq(S) /\ b \in Seq(S) /\ q \in Seq(S) /\ la \in Nat /\ lb \in Nat /\ lq \in Nat
      /\ wr \in Nat /\ o \in Conn
  BY EdgeType
<1>2. /\ Len(Available(edge)) = la + lb /\ SentOf(edge) \in Nat
      /\ SentOf(edge) = wr - lb - la
  BY AvailableFacts DEF SentOf
<1>3. s \in Nat /\ s <= n /\ s <= la /\ (s = n \/ s = la)
  BY <1>1, MinTwo
<1>4. /\ wr >= lb + la
      /\ \A j \in 1..lb : b[j] = Data(o, wr - lb + j)
      /\ \A j \in 1..la : a[j] = Data(o, SentOf(edge) + j)
  BY DEF EdgePart
<1>5. f = [edge EXCEPT !.package = edge.package - n, !.sending = a2, !.in = b2, !.pending = q2]
  BY DEF Taken
<1> HIDE DEF S, s, la, lb, lq, wr, f, a, b, q, o
<1>6. n - s \in Nat /\ n - s <= lb
  BY <1>1, <1>2, <1>3
<1>7. /\ a2 \in Seq(S) /\ Len(a2) = la - s /\ \A j \in 1..(la - s) : a2[j] = a[s + j]
  BY <1>1, <1>3, SubSeqFacts DEF la
<1>8. /\ b2 \in Seq(S) /\ Len(b2) = lb - (n - s)
      /\ \A j \in 1..(lb - (n - s)) : b2[j] = b[(n - s) + j]
      /\ b1 \in Seq(S) /\ Len(b1) = n - s /\ \A j \in 1..(n - s) : b1[j] = b[j]
  <2> DEFINE k == n - s
  <2>1. k \in Nat /\ k <= Len(b)
    BY <1>6 DEF lb
  <2>3. b \in Seq(S)
    BY <1>1
  <2> HIDE DEF k
  <2>2. /\ SubSeq(b, k + 1, Len(b)) \in Seq(S) /\ Len(SubSeq(b, k + 1, Len(b))) = Len(b) - k
        /\ \A j \in 1..(Len(b) - k) : SubSeq(b, k + 1, Len(b))[j] = b[k + j]
        /\ SubSeq(b, 1, k) \in Seq(S) /\ Len(SubSeq(b, 1, k)) = k
        /\ \A j \in 1..k : SubSeq(b, 1, k)[j] = b[j]
    BY <2>1, <2>3, SubSeqFacts, Zenon
  <2> QED
    BY <2>2 DEF k, lb
<1>9. q2 \in Seq(S)
  BY <1>1, <1>8
<1> HIDE DEF a2, b2, b1, q2
<1>10. edge.package - n \in 0..StreamStart
  BY EdgeType, Sizes
<1>11. f \in Edge
  BY <1>5, <1>7, <1>8, <1>9, <1>10 DEF Edge, S
<1>12. /\ SameEdge(f, edge) /\ f.reading = edge.reading
       /\ f.package = edge.package - n /\ f.sending = a2 /\ f.in = b2 /\ f.pending = q2
  BY <1>5 DEF Edge, SameEdge
<1>13. SentOf(f) = SentOf(edge) + n
  <2>1. SentOf(f) = wr - Len(b2) - Len(a2)
    BY <1>12 DEF SentOf, SameEdge, wr
  <2> QED
    BY <1>1, <1>2, <1>3, <1>7, <1>8, <2>1
<1>14. EdgePart(f)
  <2>1. f.written = wr /\ f.conn = o /\ f.got = edge.got /\ f.out = edge.out
        /\ f.deliver = edge.deliver /\ f.sending = a2 /\ f.in = b2
    BY <1>12 DEF SameEdge, wr, o
  <2>2. wr >= Len(b2) + Len(a2)
    <3>1. Len(a2) = la - s /\ Len(b2) = lb - (n - s) /\ wr >= lb + la
      BY <1>4, <1>7, <1>8
    <3>2. lb - (n - s) + (la - s) <= lb + la
      BY <1>1, <1>3, <1>6
    <3> QED
      BY <1>1, <1>3, <1>6, <3>1, <3>2
  <2>3. ASSUME NEW j \in 1..Len(b2) PROVE b2[j] = Data(o, wr - Len(b2) + j)
    <3>1. b2[j] = b[(n - s) + j] /\ (n - s) + j \in 1..lb
      BY <1>1, <1>6, <1>8
    <3>2. wr - lb + ((n - s) + j) = wr - Len(b2) + j
      BY <1>1, <1>6, <1>8
    <3> QED
      BY <1>4, <3>1, <3>2
  <2>4. ASSUME NEW j \in 1..Len(a2) PROVE a2[j] = Data(o, SentOf(f) + j)
    <3>1. a2[j] = a[s + j] /\ s + j \in 1..la
      BY <1>1, <1>3, <1>7
    <3>2. s = n
      BY <1>1, <1>3, <1>7
    <3>3. SentOf(edge) + (s + j) = SentOf(f) + j
      BY <1>2, <1>3, <1>13, <3>2
    <3> QED
      BY <1>4, <3>1, <3>3
  <2>5. /\ \A j \in 1..Len(f.got) : f.got[j] = Data(f.conn, j)
        /\ f.out = 0 => f.deliver > StreamStart - StreamInc
    BY <2>1 DEF EdgePart, o
  <2> QED
    BY <2>1, <2>2, <2>3, <2>4, <2>5 DEF EdgePart
<1>15. n = Len(Available(edge)) => f.in = <<>> /\ f.sending = <<>>
  <2> SUFFICES ASSUME n = la + lb PROVE Len(b2) = 0 /\ Len(a2) = 0
    BY <1>2, <1>7, <1>8, <1>12
  <2> QED
    BY <1>1, <1>3, <1>7, <1>8
<1>16. edge.sending = <<>> => f.sending = <<>>
  <2> SUFFICES ASSUME la = 0 PROVE Len(a2) = 0
    BY <1>7, <1>12 DEF la, a
  <2> QED
    BY <1>1, <1>3, <1>7
<1>17. ASSUME ClientPart(edge), edge.state \in {"connect_wait", "open"} PROVE ClientPart(f)
  <2>1. CASE edge.state = "open"
    BY <1>12, <1>14, <2>1 DEF ClientPart, SameEdge
  <2>2. CASE edge.state = "connect_wait"
    <3>1. /\ edge.got = <<>> /\ edge.out = 0 /\ lq = wr - lb
          /\ \A j \in 1..lq : q[j] = Data(o, j)
      BY <1>17, <2>2 DEF ClientPart, lq, wr, lb, q, o, b
    <3>2. q2 = q \o b1
      BY <2>2 DEF q2
    <3>3. /\ Len(q \o b1) = lq + (n - s)
          /\ \A k \in 1..lq : (q \o b1)[k] = q[k]
          /\ \A k \in 1..(n - s) : (q \o b1)[lq + k] = b1[k]
      BY <1>1, <1>8, ConcatFacts DEF lq
    <3>4. ASSUME NEW j \in 1..(lq + (n - s)) PROVE q2[j] = Data(o, j)
      <4>1. CASE j <= lq
        BY <1>1, <3>1, <3>2, <3>3, <4>1
      <4>2. CASE j > lq
        <5>1. j - lq \in 1..(n - s) /\ lq + (j - lq) = j
          BY <1>1, <1>6, <4>2
        <5>2. q2[j] = b[j - lq]
          BY <1>8, <3>2, <3>3, <5>1
        <5>3. j - lq \in 1..lb /\ wr - lb + (j - lq) = j
          BY <1>1, <1>6, <3>1, <5>1
        <5> QED
          BY <1>4, <5>2, <5>3
      <4>3. j <= lq \/ j > lq
        BY <1>1
      <4> QED
        BY <4>1, <4>2, <4>3
    <3>5. lq + (n - s) = wr - Len(b2)
      BY <1>1, <1>3, <1>6, <1>8, <3>1
    <3>6. /\ f.state = "connect_wait" /\ f.got = <<>> /\ f.out = 0 /\ f.conn = o /\ f.written = wr
          /\ f.pending = q2 /\ f.in = b2 /\ Len(f.pending) = lq + (n - s)
      BY <1>12, <2>2, <3>1, <3>2, <3>3 DEF SameEdge, wr, o
    <3> QED
      BY <1>14, <3>4, <3>5, <3>6 DEF ClientPart
  <2> QED
    BY <1>17, <2>1, <2>2
<1>18. ASSUME ExitPart(edge), edge.state # "connecting" PROVE ExitPart(f)
  BY <1>12, <1>14, <1>16, <1>18 DEF ExitPart, SameEdge
<1>19. Packs(f, edge, n)
  BY <1>11, <1>12, <1>13, <1>14, <1>15, <1>16, <1>17, <1>18 DEF Packs
<1> QED
  BY <1>12, <1>19 DEF f

\* Whether an edge reads does not matter to its data.
LEMMA PacksReading ==
    ASSUME NEW edge, NEW n, NEW f, Packs(f, edge, n), NEW b \in BOOLEAN
    PROVE  Packs([f EXCEPT !.reading = b], edge, n)
<1> DEFINE g == [f EXCEPT !.reading = b]
<1>1. f \in Edge
  BY DEF Packs
<1>2. g \in Edge
  BY <1>1 DEF Edge
<1>3. /\ g.state = f.state /\ g.conn = f.conn /\ g.id = f.id /\ g.package = f.package
      /\ g.deliver = f.deliver /\ g.in = f.in /\ g.sending = f.sending
      /\ g.pending = f.pending /\ g.out = f.out /\ g.got = f.got /\ g.written = f.written
  BY <1>1 DEF Edge
<1> HIDE DEF g
<1>4. SentOf(g) = SentOf(f) /\ SameEdge(g, edge)
  BY <1>3 DEF SentOf, SameEdge, Packs
<1>5. EdgePart(f) => EdgePart(g)
  BY <1>3, <1>4 DEF EdgePart
<1>6. ClientPart(f) => ClientPart(g)
  BY <1>3, <1>5 DEF ClientPart
<1>7. ExitPart(f) => ExitPart(g)
  BY <1>3, <1>5 DEF ExitPart
<1>8. Packs(g, edge, n)
  BY <1>2, <1>3, <1>4, <1>5, <1>6, <1>7 DEF Packs
<1> QED
  BY <1>8 DEF g

LEMMA PacksNothing ==
    ASSUME NEW edge \in Edge, EdgePart(edge)
    PROVE  Packs(edge, edge, 0)
<1>1. edge.package - 0 = edge.package /\ SentOf(edge) + 0 = SentOf(edge)
  <2>1. edge.package \in Nat /\ SentOf(edge) \in Nat
    BY EdgeType, AvailableFacts
  <2> QED
    BY <2>1
<1>2. 0 = Len(Available(edge)) => edge.in = <<>> /\ edge.sending = <<>>
  <2>1. Len(Available(edge)) = Len(edge.sending) + Len(edge.in)
    BY AvailableFacts
  <2>2. edge.in \in Seq(Conn \X Nat) /\ edge.sending \in Seq(Conn \X Nat)
        /\ Len(edge.in) \in Nat /\ Len(edge.sending) \in Nat
    BY EdgeType
  <2>3. 0 = Len(edge.sending) + Len(edge.in) => Len(edge.in) = 0 /\ Len(edge.sending) = 0
    <3> DEFINE j == Len(edge.sending)
               k == Len(edge.in)
    <3>1. j \in Nat /\ k \in Nat
      BY <2>2
    <3> HIDE DEF j, k
    <3>2. 0 = j + k => k = 0 /\ j = 0
      BY <3>1
    <3> QED
      BY <3>2 DEF j, k
  <2> QED
    BY <2>1, <2>2, <2>3
<1> QED
  BY <1>1, <1>2 DEF Packs, SameEdge

\* Stream ids tell the edges ks apart.
Apart(ks, E) == \A j, k \in ks : E[j].id = E[k].id => j = k

\* The edges E become F when those of ks send the cells of r: of each of them the next m.
Sends(ks, E, F, r) ==
    /\ r \in Seq(Cell) /\ AllData(r)
    /\ \A j \in DOMAIN r : \E k \in ks : r[j].id = E[k].id
    /\ \A k \in DOMAIN E \ ks : F[k] = E[k]
    /\ \A k \in ks : \E m \in Nat :
         /\ Packs(F[k], E[k], m)
         /\ DataRange(r, E[k].id, E[k].conn, SentOf(E[k]), SentOf(E[k]) + m)

\* Cells that leave in n turns: turn t is for cell t[2] of edge t[1].
InTurns(op, E, share, n, order, r) ==
    /\ \A k \in op : share[k] \in Nat /\ share[k] <= Len(Available(E[k]))
    /\ \A i \in 1..n : /\ order[i][1] \in op /\ order[i][2] \in Nat
                       /\ order[i][2] >= 1 /\ order[i][2] <= share[order[i][1]]
    /\ \A k \in op : \A m \in 1..share[k] : \E i \in 1..n : order[i] = <<k, m>>
    /\ \A i, j \in 1..n : i < j /\ order[i][1] = order[j][1] => order[i][2] < order[j][2]
    /\ r = [i \in 1..n |-> DataCell(E[order[i][1]], order[i][2])]

LEMMA Turns ==
    ASSUME NEW ks, NEW E, \A k \in ks : E[k] \in Edge /\ EdgePart(E[k]), Apart(ks, E),
           NEW op, op \subseteq ks, NEW share, NEW n \in Nat, NEW order, NEW r,
           InTurns(op, E, share, n, order, r)
    PROVE  /\ r \in Seq(Cell) /\ Len(r) = n /\ AllData(r)
           /\ \A j \in DOMAIN r : \E k \in op : r[j].id = E[k].id
           /\ \A k \in op :
                DataRange(r, E[k].id, E[k].conn, SentOf(E[k]), SentOf(E[k]) + share[k])
           /\ \A k \in ks \ op : DataRange(r, E[k].id, E[k].conn, SentOf(E[k]), SentOf(E[k]))
<1>0. /\ \A k \in op : share[k] \in Nat /\ share[k] <= Len(Available(E[k]))
      /\ \A i \in 1..n : /\ order[i][1] \in op /\ order[i][2] \in Nat
                         /\ order[i][2] >= 1 /\ order[i][2] <= share[order[i][1]]
      /\ \A k \in op : \A m \in 1..share[k] : \E i \in 1..n : order[i] = <<k, m>>
      /\ \A i, j \in 1..n : i < j /\ order[i][1] = order[j][1] => order[i][2] < order[j][2]
      /\ r = [i \in 1..n |-> DataCell(E[order[i][1]], order[i][2])]
  BY DEF InTurns
<1>1. ASSUME NEW i \in 1..n
      PROVE  /\ r[i] \in Cell /\ r[i].cmd = "DATA"
             /\ order[i][1] \in op /\ r[i].id = E[order[i][1]].id
             /\ r[i].conn = E[order[i][1]].conn
             /\ r[i].n = SentOf(E[order[i][1]]) + order[i][2]
  <2> DEFINE k == order[i][1]
             m == order[i][2]
  <2>1. k \in op /\ k \in ks /\ m \in Nat /\ m >= 1 /\ m <= share[k] /\ r[i] = DataCell(E[k], m)
    BY <1>0
  <2> HIDE DEF k, m
  <2>2. E[k] \in Edge /\ EdgePart(E[k]) /\ share[k] \in Nat /\ share[k] <= Len(Available(E[k]))
    BY <1>0, <2>1
  <2>3. Len(Available(E[k])) \in Nat
    BY <2>2, AvailableFacts
  <2>4. m \in 1..Len(Available(E[k]))
    BY <2>1, <2>2, <2>3
  <2>5. /\ DataCell(E[k], m) \in Cell
        /\ DataCell(E[k], m).cmd = "DATA" /\ DataCell(E[k], m).id = E[k].id
        /\ DataCell(E[k], m).conn = E[k].conn /\ DataCell(E[k], m).n = SentOf(E[k]) + m
    BY <2>2, <2>4, DataCellFacts
  <2> QED
    BY <2>1, <2>5 DEF k, m
<1>2. r \in Seq(Cell) /\ Len(r) = n /\ DOMAIN r = 1..n
  <2>1. r \in [1..n -> Cell]
    <3>1. \A i \in 1..n : DataCell(E[order[i][1]], order[i][2]) \in Cell
      <4> TAKE i \in 1..n
      <4>1. r[i] = DataCell(E[order[i][1]], order[i][2])
        BY <1>0
      <4> QED
        BY <1>1, <4>1
    <3> QED
      BY <1>0, <3>1
  <2> QED
    BY <2>1
<1>3. AllData(r) /\ \A j \in DOMAIN r : \E k \in op : r[j].id = E[k].id
  BY <1>1, <1>2 DEF AllData
<1>4. ASSUME NEW k \in ks, NEW i
      PROVE  i \in DataAt(r, E[k].id) <=> i \in 1..n /\ order[i][1] = k
  <2>1. \A j \in DOMAIN r : r[j].cmd # "BEGIN"
    BY <1>1, <1>2
  <2>2. i \in DataAt(r, E[k].id) <=> i \in 1..n /\ r[i].id = E[k].id
    BY <1>1, <1>2, <2>1 DEF DataAt
  <2>3. i \in 1..n => (r[i].id = E[k].id <=> order[i][1] = k)
    BY <1>1 DEF Apart
  <2> QED
    BY <2>2, <2>3
<1>5. ASSUME NEW k \in op
      PROVE  DataRange(r, E[k].id, E[k].conn, SentOf(E[k]), SentOf(E[k]) + share[k])
  <2> DEFINE sent == SentOf(E[k])
  <2>1. sent \in Nat /\ share[k] \in Nat /\ k \in ks
    BY <1>0, AvailableFacts
  <2>2. \A i \in DataAt(r, E[k].id) :
          i \in 1..n /\ order[i][1] = k /\ r[i].conn = E[k].conn /\ r[i].n = sent + order[i][2]
          /\ order[i][2] \in Nat /\ order[i][2] >= 1 /\ order[i][2] <= share[k]
    <3> TAKE i \in DataAt(r, E[k].id)
    <3>1. i \in 1..n /\ order[i][1] = k
      BY <1>4, <2>1
    <3> QED
      BY <1>0, <1>1, <3>1
  <2> HIDE DEF sent
  <2>3. \A i \in DataAt(r, E[k].id) : r[i].conn = E[k].conn /\ r[i].n > sent
                                      /\ r[i].n <= sent + share[k]
    BY <2>1, <2>2
  <2>4. ASSUME NEW x \in Nat, sent < x, x <= sent + share[k]
        PROVE  \E i \in DataAt(r, E[k].id) : r[i].n = x
    <3>1. x - sent \in 1..share[k] /\ sent + (x - sent) = x
      BY <2>1, <2>4
    <3>2. PICK i \in 1..n : order[i] = <<k, x - sent>>
      BY <1>0, <3>1
    <3>3. order[i][1] = k /\ order[i][2] = x - sent
      BY <3>2
    <3>4. i \in DataAt(r, E[k].id)
      BY <1>4, <2>1, <3>3
    <3> QED
      BY <2>2, <3>1, <3>3, <3>4
  <2>5. \A i, j \in DataAt(r, E[k].id) : i < j => r[i].n < r[j].n
    <3> SUFFICES ASSUME NEW i \in DataAt(r, E[k].id), NEW j \in DataAt(r, E[k].id), i < j
                 PROVE  r[i].n < r[j].n
      OBVIOUS
    <3>1. order[i][2] < order[j][2]
      BY <1>0, <2>2
    <3> QED
      BY <2>1, <2>2, <3>1
  <2>6. sent + share[k] \in Nat /\ sent <= sent + share[k]
    BY <2>1
  <2>7. DataRange(r, E[k].id, E[k].conn, sent, sent + share[k])
    BY <2>1, <2>3, <2>4, <2>5, <2>6 DEF DataRange
  <2> QED
    BY <2>7 DEF sent
<1>6. ASSUME NEW k \in ks \ op
      PROVE  DataRange(r, E[k].id, E[k].conn, SentOf(E[k]), SentOf(E[k]))
  <2>1. SentOf(E[k]) \in Nat
    BY AvailableFacts
  <2>2. DataAt(r, E[k].id) = {}
    <3> SUFFICES ASSUME NEW i \in DataAt(r, E[k].id) PROVE FALSE
      OBVIOUS
    <3>1. i \in 1..n /\ order[i][1] = k
      BY <1>4
    <3> QED
      BY <1>1, <3>1
  <2> QED
    BY <2>1, <2>2 DEF DataRange
<1> QED
  BY <1>2, <1>3, <1>5, <1>6

\* Every cell has a turn.
LEMMA TurnsEnough ==
    ASSUME NEW op, NEW E, NEW share, NEW n \in Nat, NEW order, NEW r,
           InTurns(op, E, share, n, order, r), NEW k \in op
    PROVE  share[k] <= n
<1> DEFINE s == share[k]
           g == [m \in 1..s |-> CHOOSE i \in 1..n : order[i] = <<k, m>>]
<1>1. s \in Nat /\ \A m \in 1..s : \E i \in 1..n : order[i] = <<k, m>>
  BY DEF InTurns
<1> HIDE DEF s
<1>2. \A m \in 1..s : g[m] \in 1..n /\ order[g[m]] = <<k, m>>
  BY <1>1
<1>3. g \in [1..s -> 1..n]
  BY <1>2
<1>4. ASSUME NEW l \in 1..s, NEW m \in 1..s, g[l] = g[m] PROVE l = m
  <2>1. <<k, l>> = <<k, m>>
    BY <1>2, <1>4
  <2> QED
    BY <2>1
<1> HIDE DEF g
<1>5. g \in Injection(1..s, 1..n)
  BY <1>3, <1>4 DEF Injection, IsInjective
<1>6. IsFiniteSet(1..n) /\ Cardinality(1..n) = IF 1 > n THEN 0 ELSE n - 1 + 1
  BY FS_Interval
<1>7. Cardinality(1..s) = IF 1 > s THEN 0 ELSE s - 1 + 1
  <2>1. 1 \in Int /\ s \in Int
    BY <1>1
  <2> QED
    BY <2>1, FS_Interval
<1>8. Cardinality(1..s) <= Cardinality(1..n)
  BY <1>5, <1>6, FS_Injection
<1>9. Cardinality(1..n) = n /\ Cardinality(1..s) = s
  BY <1>1, <1>6, <1>7
<1> QED
  BY <1>8, <1>9 DEF s

\* Stopping only changes whether edges read.
LEMMA StopFacts ==
    ASSUME NEW D, NEW E \in [D -> Edge], NEW ks, NEW st, NEW window
    PROVE  /\ StopReading(E, ks, st, window) \in [D -> Edge]
           /\ \A k \in D : \/ StopReading(E, ks, st, window)[k] = E[k]
                           \/ /\ k \in ks /\ (window = 0 \/ k \in st)
                              /\ StopReading(E, ks, st, window)[k]
                                   = [E[k] EXCEPT !.reading = FALSE]
<1> DEFINE F == StopReading(E, ks, st, window)
<1>1. /\ DOMAIN E = D
      /\ F = [k \in D |-> IF k \in ks /\ (window = 0 \/ k \in st)
                          THEN [E[k] EXCEPT !.reading = FALSE] ELSE E[k]]
  BY DEF StopReading
<1>2. \A k \in D : E[k] \in Edge /\ [E[k] EXCEPT !.reading = FALSE] \in Edge
  <2>1. ASSUME NEW f \in Edge PROVE [f EXCEPT !.reading = FALSE] \in Edge
    BY DEF Edge
  <2> QED
    BY <2>1
<1> HIDE DEF F
<1>3. F \in [D -> Edge]
  BY <1>1, <1>2
<1>4. \A k \in D : \/ F[k] = E[k]
                   \/ /\ k \in ks /\ (window = 0 \/ k \in st)
                      /\ F[k] = [E[k] EXCEPT !.reading = FALSE]
  BY <1>1
<1> QED
  BY <1>3, <1>4 DEF F

\* Packaging for edge k gives P: the cells r of the edges ks go out, and the edges that had
\* read on keep going.
Packed(P, D, k, ks, E, window, Q, r) ==
    /\ P.queue = Q \o r /\ P.window \in Nat /\ P.window = window - Len(r)
    /\ P.edges \in [D -> Edge] /\ Sends(ks, E, P.edges, r)
    /\ \A j \in ks : j # k /\ Flows(window, E[j]) => Flows(P.window, P.edges[j])
    /\ (window > 0 /\ E[k].package > 0 => E[k].reading) => Flows(P.window, P.edges[k])

\* connection_edge_package_raw_inbuf: edge k sends as much as the windows allow.
LEMMA PackagedFacts ==
    ASSUME NEW D, NEW E \in [D -> Edge], NEW ks, ks \subseteq D, NEW k \in ks,
           \A j \in ks : EdgePart(E[j]), Apart(ks, E), NEW window \in Nat, NEW Q
    PROVE  \E r \in Seq(Cell) : Packed(Packaged(k, ks, E, window, Q), D, k, ks, E, window, Q, r)
<1> DEFINE edge == E[k]
           n == Min({window, edge.package, Len(Available(edge))})
           f == Taken(edge, n)
           G == [E EXCEPT ![k] = f]
           st == IF edge.package = n THEN {k} ELSE {}
           left == window - n
           F == StopReading(G, ks, st, left)
           r == DataCells(edge, n)
           P == Packaged(k, ks, E, window, Q)
<1>1. P = [edges |-> F, window |-> left, queue |-> Q \o r]
  BY DEF Packaged
<1>2. edge \in Edge /\ EdgePart(edge) /\ k \in D
  OBVIOUS
<1>3. edge.package \in Nat /\ Len(Available(edge)) \in Nat
  BY <1>2, EdgeType, AvailableFacts
<1>4. /\ n \in Nat /\ n <= window /\ n <= edge.package /\ n <= Len(Available(edge))
      /\ n = window \/ n = edge.package \/ n = Len(Available(edge))
  BY <1>3, MinThree
<1> HIDE DEF n, P
<1>5. Packs(f, edge, n) /\ f.reading = edge.reading
  BY <1>2, <1>4, TakenFacts
<1>6. left \in Nat
  BY <1>4
<1>7. G \in [D -> Edge] /\ G[k] = f /\ \A j \in D : j # k => G[j] = E[j]
  <2>1. f \in Edge
    BY <1>5 DEF Packs
  <2> HIDE DEF f
  <2> QED
    BY <1>2, <2>1
<1> HIDE DEF f, G
<1>8. /\ F \in [D -> Edge]
      /\ \A j \in D : \/ F[j] = G[j]
                      \/ j \in ks /\ (left = 0 \/ j \in st) /\ F[j] = [G[j] EXCEPT !.reading = FALSE]
  BY <1>7, StopFacts
<1> HIDE DEF F
<1>9. /\ r \in Seq(Cell) /\ Len(r) = n /\ AllData(r)
      /\ \A j \in DOMAIN r : r[j].id = edge.id
      /\ DataRange(r, edge.id, edge.conn, SentOf(edge), SentOf(edge) + n)
      /\ \A j \in ks : j # k => DataRange(r, E[j].id, E[j].conn, SentOf(E[j]), SentOf(E[j]))
  <2> DEFINE share == [x \in {k} |-> n]
             order == [x \in 1..n |-> <<k, x>>]
             op == {k}
  <2>1. op \subseteq ks /\ \A x \in op : share[x] = n
    OBVIOUS
  <2>2. \A x \in 1..n : order[x] = <<k, x>> /\ order[x][1] = k /\ order[x][2] = x
    OBVIOUS
  <2>3. r = [x \in 1..n |-> DataCell(E[order[x][1]], order[x][2])]
    BY <2>2 DEF DataCells
  <2>4. InTurns(op, E, share, n, order, r)
    <3> HIDE DEF share, order, r
    <3>1. \A x \in op : share[x] \in Nat /\ share[x] <= Len(Available(E[x]))
      BY <1>4, <2>1
    <3>2. \A x \in 1..n : /\ order[x][1] \in op /\ order[x][2] \in Nat
                          /\ order[x][2] >= 1 /\ order[x][2] <= share[order[x][1]]
      BY <1>4, <2>1, <2>2
    <3>3. \A x \in op : \A m \in 1..share[x] : \E y \in 1..n : order[y] = <<x, m>>
      BY <2>1, <2>2
    <3>4. \A x, y \in 1..n : x < y /\ order[x][1] = order[y][1] => order[x][2] < order[y][2]
      BY <2>2
    <3> QED
      BY <2>3, <3>1, <3>2, <3>3, <3>4 DEF InTurns
  <2>5. \A j \in ks : E[j] \in Edge /\ EdgePart(E[j])
    OBVIOUS
  <2>6. share[k] = n
    OBVIOUS
  <2> HIDE DEF share, order, op, r
  <2>7. /\ r \in Seq(Cell) /\ Len(r) = n /\ AllData(r)
        /\ \A j \in DOMAIN r : \E x \in op : r[j].id = E[x].id
        /\ \A x \in op :
                DataRange(r, E[x].id, E[x].conn, SentOf(E[x]), SentOf(E[x]) + share[x])
        /\ \A x \in ks \ op : DataRange(r, E[x].id, E[x].conn, SentOf(E[x]), SentOf(E[x]))
    BY <1>4, <2>1, <2>4, <2>5, Turns
  <2> QED
    BY <2>6, <2>7 DEF op
<1> HIDE DEF r
<1>10. ASSUME NEW j \in ks
       PROVE  \E m \in Nat :
                /\ Packs(F[j], E[j], m)
                /\ DataRange(r, E[j].id, E[j].conn, SentOf(E[j]), SentOf(E[j]) + m)
  <2> DEFINE m == IF j = k THEN n ELSE 0
  <2>1. j \in D /\ E[j] \in Edge /\ EdgePart(E[j])
    OBVIOUS
  <2>2. Packs(G[j], E[j], m)
    BY <1>5, <1>7, <2>1, PacksNothing
  <2>3. Packs([G[j] EXCEPT !.reading = FALSE], E[j], m)
    BY <2>2, PacksReading
  <2>4. Packs(F[j], E[j], m)
    BY <1>8, <2>1, <2>2, <2>3
  <2>5. SentOf(E[j]) + 0 = SentOf(E[j])
    <3>1. SentOf(E[j]) \in Nat
      BY <2>1, AvailableFacts
    <3> QED
      BY <3>1
  <2>6. DataRange(r, E[j].id, E[j].conn, SentOf(E[j]), SentOf(E[j]) + m)
    BY <1>9, <2>5
  <2>7. m \in Nat
    BY <1>4
  <2> QED
    BY <2>4, <2>6, <2>7
<1>11. Sends(ks, E, F, r)
  <2>1. \A j \in DOMAIN E \ ks : F[j] = E[j]
    BY <1>7, <1>8
  <2>2. \A j \in DOMAIN r : \E x \in ks : r[j].id = E[x].id
    BY <1>9
  <2> QED
    BY <1>9, <1>10, <2>1, <2>2 DEF Sends
<1>12. ASSUME NEW j \in ks, j # k, Flows(window, E[j]) PROVE Flows(left, F[j])
  <2>1. SUFFICES ASSUME left > 0, F[j].package > 0
                 PROVE  F[j].reading /\ (F[j].state = "open" => F[j].in = <<>> /\ F[j].sending = <<>>)
    BY DEF Flows
  <2>2. F[j] = E[j]
    BY <1>6, <1>7, <1>8, <1>12, <2>1
  <2>3. window > 0
    BY <1>4, <2>1
  <2> QED
    BY <1>12, <2>1, <2>2, <2>3 DEF Flows
<1>13. ASSUME window > 0 /\ edge.package > 0 => edge.reading PROVE Flows(left, F[k])
  <2>1. SUFFICES ASSUME left > 0, F[k].package > 0
                 PROVE  F[k].reading /\ (F[k].state = "open" => F[k].in = <<>> /\ F[k].sending = <<>>)
    BY DEF Flows
  <2>2. f.package = edge.package - n /\ f \in Edge
    BY <1>5 DEF Packs
  <2>3. [f EXCEPT !.reading = FALSE].package = f.package
    BY <2>2 DEF Edge
  <2>4. f.package > 0
    BY <1>2, <1>7, <1>8, <2>1, <2>3
  <2>5. edge.package # n /\ n # window /\ window > 0 /\ edge.package > 0
    BY <1>3, <1>4, <2>1, <2>2, <2>4
  <2>6. F[k] = f
    BY <1>2, <1>6, <1>7, <1>8, <2>1, <2>5
  <2>7. n = Len(Available(edge))
    BY <1>4, <2>5
  <2>8. f.in = <<>> /\ f.sending = <<>>
    BY <1>5, <2>7 DEF Packs
  <2> QED
    BY <1>5, <1>13, <2>5, <2>6, <2>8
<1>14. P.edges = F /\ P.window = left /\ P.queue = Q \o r
  BY <1>1
<1> HIDE DEF edge, left
<1>15. /\ P.queue = Q \o r /\ P.window \in Nat /\ P.window = window - Len(r)
       /\ P.edges \in [D -> Edge] /\ Sends(ks, E, P.edges, r)
       /\ \A j \in ks : j # k /\ Flows(window, E[j]) => Flows(P.window, P.edges[j])
       /\ (window > 0 /\ E[k].package > 0 => E[k].reading) => Flows(P.window, P.edges[k])
  <2>1. left = window - Len(r)
    BY <1>9 DEF left
  <2> QED
    BY <1>6, <1>8, <1>11, <1>12, <1>13, <1>14, <2>1 DEF edge
<1> QED
  BY <1>9, <1>15 DEF P, Packed

\* An edge that starts to read.
LEMMA Awake ==
    ASSUME NEW edge \in Edge, EdgePart(edge)
    PROVE  LET aw == [edge EXCEPT !.reading = TRUE]
           IN  /\ aw \in Edge /\ EdgePart(aw) /\ Packs(aw, edge, 0) /\ aw.reading = TRUE
               /\ aw.package = edge.package /\ Len(Available(aw)) = Len(Available(edge))
               /\ \A f, n : Packs(f, aw, n) => Packs(f, edge, n)
               /\ \A n : Taken(aw, n).in = Taken(edge, n).in
<1> DEFINE aw == [edge EXCEPT !.reading = TRUE]
<1>1. Packs(edge, edge, 0)
  BY PacksNothing
<1>2. Packs(aw, edge, 0)
  BY <1>1, PacksReading
<1>3. aw \in Edge /\ EdgePart(aw)
  BY <1>2 DEF Packs
<1>4. /\ aw.state = edge.state /\ aw.conn = edge.conn /\ aw.id = edge.id
      /\ aw.package = edge.package
      /\ aw.deliver = edge.deliver /\ aw.in = edge.in /\ aw.sending = edge.sending
      /\ aw.pending = edge.pending /\ aw.out = edge.out /\ aw.got = edge.got
      /\ aw.written = edge.written /\ aw.reading = TRUE
  BY DEF Edge
<1>5. \A n : Taken(aw, n).in = Taken(edge, n).in
  <2> TAKE n
  <2> DEFINE s == Min({n, Len(edge.sending)})
             b == SubSeq(edge.in, n - s + 1, Len(edge.in))
  <2>1. Taken(edge, n).in = b
    BY DEF Taken, Edge
  <2>2. Taken(aw, n).in = SubSeq(aw.in, n - Min({n, Len(aw.sending)}) + 1, Len(aw.in))
    <3> HIDE DEF aw
    <3> QED
      BY <1>3 DEF Taken, Edge
  <2> QED
    BY <1>4, <2>1, <2>2
<1> HIDE DEF aw
<1>6. Available(aw) = Available(edge) /\ SentOf(aw) = SentOf(edge)
  BY <1>4 DEF Available, SentOf
<1>7. EdgePart(edge) => EdgePart(aw)
  BY <1>3
<1>8. ClientPart(edge) => ClientPart(aw)
  BY <1>3, <1>4 DEF ClientPart
<1>9. ExitPart(edge) => ExitPart(aw)
  BY <1>3, <1>4 DEF ExitPart
<1>10. ASSUME NEW f, NEW n, Packs(f, aw, n) PROVE Packs(f, edge, n)
  <2>1. SameEdge(f, edge)
    BY <1>4, <1>10 DEF Packs, SameEdge
  <2> QED
    BY <1>4, <1>6, <1>8, <1>9, <1>10, <2>1 DEF Packs
<1> QED
  BY <1>2, <1>3, <1>4, <1>5, <1>6, <1>10 DEF aw

\* circuit_resume_edge_reading: the edges send as much as the circuit allows, in turns.
LEMMA ResumedFacts ==
    ASSUME NEW D, NEW E \in [D -> Edge], NEW ks, ks \subseteq D,
           \A j \in ks : EdgePart(E[j]), Apart(ks, E), NEW window \in Nat,
           NEW Q \in Seq(Cell), NEW P \in Resumed(ks, E, window, Q)
    PROVE  \E r \in Seq(Cell) :
             /\ P.queue = Q \o r /\ P.window \in Nat /\ P.window = window - Len(r)
             /\ P.edges \in [D -> Edge] /\ Sends(ks, E, P.edges, r)
             /\ \A j \in ks : E[j].sending = <<>> => Flows(P.window, P.edges[j])
<1> DEFINE op == {k \in ks : E[k].package > 0}
           most(k) == Min({window, E[k].package, Len(Available(E[k]))})
           awake == [k \in DOMAIN E |->
                       IF k \in op THEN [E[k] EXCEPT !.reading = TRUE] ELSE E[k]]
           fair(share, left) ==
               /\ \A k \in op : share[k] <= most(k)
               /\ left > 0 => \A k \in op :
                     /\ share[k] = 0 => most(k) = 0
                     /\ share[k] = most(k) \/ Taken(E[k], share[k]).in = <<>>
           after(share) == [k \in DOMAIN E |->
                               IF k \in op THEN Taken(awake[k], share[k]) ELSE awake[k]]
           empty(share) == {k \in op : after(share)[k].package = 0}
           cells(order) == [i \in 1..Len(order) |-> DataCell(E[order[i][1]], order[i][2])]
           result(share, order) ==
               [edges  |-> StopReading(after(share), ks, empty(share), window - Len(order)),
                window |-> window - Len(order),
                queue  |-> Q \o cells(order)]
<1>1. \/ /\ \A k \in op : E[k].in = <<>>
         /\ P = [edges |-> awake, window |-> window, queue |-> Q]
      \/ \E share \in [op -> 0..window] : \E order \in Orders(op, share, window) :
           fair(share, window - Len(order)) /\ P = result(share, order)
  BY DEF Resumed
<1>2. DOMAIN E = D /\ \A k \in ks : k \in D /\ E[k] \in Edge /\ EdgePart(E[k])
  OBVIOUS
<1>3. \A k \in ks : LET aw == [E[k] EXCEPT !.reading = TRUE]
           IN  /\ aw \in Edge /\ EdgePart(aw) /\ Packs(aw, E[k], 0) /\ aw.reading = TRUE
               /\ aw.package = E[k].package /\ Len(Available(aw)) = Len(Available(E[k]))
               /\ \A f, n : Packs(f, aw, n) => Packs(f, E[k], n)
               /\ \A n : Taken(aw, n).in = Taken(E[k], n).in
  BY <1>2, Awake
<1>4. \A k \in ks : /\ E[k].package \in Nat /\ SentOf(E[k]) \in Nat
                    /\ Len(Available(E[k])) \in Nat /\ Packs(E[k], E[k], 0)
  <2> TAKE k \in ks
  <2>1. E[k].package \in Nat
    BY <1>2, EdgeType
  <2>2. SentOf(E[k]) \in Nat /\ Available(E[k]) \in Seq(Conn \X Nat)
    BY <1>2, AvailableFacts
  <2>3. Packs(E[k], E[k], 0)
    BY <1>2, PacksNothing
  <2> QED
    BY <2>1, <2>2, <2>3
<1>5. op \subseteq ks /\ \A k \in ks : k \in op <=> E[k].package > 0
  OBVIOUS
<1>6. /\ \A k \in D : awake[k] = IF k \in op THEN [E[k] EXCEPT !.reading = TRUE] ELSE E[k]
      /\ awake \in [D -> Edge]
  <2>1. \A k \in D : awake[k] = IF k \in op THEN [E[k] EXCEPT !.reading = TRUE] ELSE E[k]
    BY <1>2
  <2>2. \A k \in D : awake[k] \in Edge
    BY <1>3, <1>5, <2>1
  <2> HIDE DEF op
  <2> QED
    BY <1>2, <2>1, <2>2
<1>7. CASE /\ \A k \in op : E[k].in = <<>>
           /\ P = [edges |-> awake, window |-> window, queue |-> Q]
  <2> DEFINE r == <<>>
  <2>1. /\ r \in Seq(Cell) /\ Q \o r = Q /\ window = window - Len(r) /\ AllData(r)
        /\ DOMAIN r = {}
    BY DEF AllData
  <2>2. \A i : ~Has(r, i, "DATA")
    BY DEF Has
  <2> HIDE DEF op, awake, r
  <2>3. P.edges = awake /\ P.window = window /\ P.queue = Q
    BY <1>7
  <2>4. ASSUME NEW k \in ks
        PROVE  /\ Packs(awake[k], E[k], 0)
               /\ DataRange(r, E[k].id, E[k].conn, SentOf(E[k]), SentOf(E[k]) + 0)
    <3>1. SentOf(E[k]) \in Nat /\ SentOf(E[k]) + 0 = SentOf(E[k])
      BY <1>4
    <3>2. DataRange(r, E[k].id, E[k].conn, SentOf(E[k]), SentOf(E[k]) + 0)
      BY <2>2, <3>1, RangeEmpty
    <3>3. Packs(awake[k], E[k], 0)
      BY <1>2, <1>3, <1>4, <1>6
    <3> QED
      BY <3>2, <3>3
  <2>5. Sends(ks, E, awake, r)
    <3>1. \A k \in DOMAIN E \ ks : awake[k] = E[k]
      BY <1>2, <1>5, <1>6
    <3>2. 0 \in Nat
      OBVIOUS
    <3> QED
      BY <2>1, <2>4, <3>1, <3>2 DEF Sends
  <2>6. ASSUME NEW k \in ks, E[k].sending = <<>> PROVE Flows(window, awake[k])
    <3> SUFFICES ASSUME window > 0, awake[k].package > 0
                 PROVE  /\ awake[k].reading
                        /\ awake[k].state = "open" => awake[k].in = <<>> /\ awake[k].sending = <<>>
      BY DEF Flows
    <3>1. k \in D /\ k \in op /\ awake[k] = [E[k] EXCEPT !.reading = TRUE]
      BY <1>2, <1>3, <1>5, <1>6
    <3>2. awake[k].in = E[k].in /\ awake[k].sending = E[k].sending /\ awake[k].reading = TRUE
      BY <1>2, <3>1 DEF Edge
    <3> QED
      BY <1>7, <2>6, <3>1, <3>2
  <2> QED
    BY <1>6, <2>1, <2>3, <2>5, <2>6
<1>8. CASE \E share \in [op -> 0..window] : \E order \in Orders(op, share, window) :
           fair(share, window - Len(order)) /\ P = result(share, order)
  <2>1. PICK share \in [op -> 0..window] : \E order \in Orders(op, share, window) :
           fair(share, window - Len(order)) /\ P = result(share, order)
    BY <1>8
  <2>2. PICK order \in Orders(op, share, window) :
           fair(share, window - Len(order)) /\ P = result(share, order)
    BY <2>1
  <2> DEFINE n == Len(order)
             left == window - n
             G == after(share)
             st == empty(share)
             F == StopReading(G, ks, st, left)
             r == cells(order)
  <2>3. P.edges = F /\ P.window = left /\ P.queue = Q \o r
    BY <2>2
  <2>4. /\ \A k \in op : share[k] \in Nat /\ share[k] <= most(k)
        /\ left > 0 => \A k \in op : share[k] = most(k) \/ Taken(E[k], share[k]).in = <<>>
    <3> HIDE DEF most, result, op
    <3>1. fair(share, left) /\ \A k \in op : share[k] \in 0..window
      BY <2>2
    <3>2. \A k \in op : share[k] \in Nat
      BY <3>1
    <3> QED
      BY <3>1, <3>2
  <2>5. \A k \in op : /\ share[k] <= window /\ share[k] <= E[k].package
                      /\ share[k] <= Len(Available(E[k]))
                      /\ \/ most(k) = window \/ most(k) = E[k].package
                         \/ most(k) = Len(Available(E[k]))
    <3> TAKE k \in op
    <3>1. /\ most(k) \in Nat /\ most(k) <= window /\ most(k) <= E[k].package
          /\ most(k) <= Len(Available(E[k]))
          /\ \/ most(k) = window \/ most(k) = E[k].package \/ most(k) = Len(Available(E[k]))
      BY <1>4, <1>5, MinThree
    <3> HIDE DEF most
    <3> QED
      BY <1>4, <1>5, <2>4, <3>1
  <2> HIDE DEF most
  <2>6. PICK m \in 0..window : order \in [1..m -> op \X (1..window)]
    BY DEF Orders
  <2>7. n = m /\ n \in Nat /\ left \in Nat /\ DOMAIN order = 1..n
    BY <2>6
  <2>8. InTurns(op, E, share, n, order, r)
    <3> HIDE DEF op
    <3>1. \A i \in 1..n : order[i] \in op \X (1..window)
      BY <2>6, <2>7
    <3>2. \A i \in 1..n : /\ order[i][1] \in op /\ order[i][2] \in Nat /\ order[i][2] >= 1
      BY <3>1
    <3>3. /\ \A i \in 1..n : order[i][2] <= share[order[i][1]]
          /\ \A k \in op : \A x \in 1..share[k] : \E i \in 1..n : order[i] = <<k, x>>
          /\ \A i, j \in 1..n : i < j /\ order[i][1] = order[j][1] => order[i][2] < order[j][2]
      BY <2>7 DEF Orders
    <3>4. r = [i \in 1..n |-> DataCell(E[order[i][1]], order[i][2])]
      OBVIOUS
    <3> HIDE DEF n, r
    <3> QED
      BY <2>4, <2>5, <3>2, <3>3, <3>4 DEF InTurns
  <2> HIDE DEF n, r
  <2>9. /\ r \in Seq(Cell) /\ Len(r) = n /\ AllData(r)
        /\ \A j \in DOMAIN r : \E k \in op : r[j].id = E[k].id
        /\ \A k \in op :
                DataRange(r, E[k].id, E[k].conn, SentOf(E[k]), SentOf(E[k]) + share[k])
        /\ \A k \in ks \ op : DataRange(r, E[k].id, E[k].conn, SentOf(E[k]), SentOf(E[k]))
    <3> HIDE DEF op
    <3>1. op \subseteq ks /\ n \in Nat
      BY <1>5, <2>7
    <3>2. \A k \in ks : E[k] \in Edge /\ EdgePart(E[k])
      BY <1>2
    <3> QED
      BY <2>8, <3>1, <3>2, Turns
  <2>10. \A k \in op : share[k] <= n
    BY <2>7, <2>8, TurnsEnough
  <2>11. ASSUME NEW k \in op
         PROVE  /\ G[k] = Taken(awake[k], share[k]) /\ Packs(G[k], E[k], share[k])
                /\ G[k].reading = TRUE /\ G[k].in = Taken(E[k], share[k]).in
    <3> DEFINE aw == [E[k] EXCEPT !.reading = TRUE]
    <3>1. k \in D /\ k \in ks /\ awake[k] = aw
      BY <1>2, <1>5, <1>6
    <3>2. G[k] = Taken(aw, share[k])
      BY <1>2, <3>1
    <3>3. /\ aw \in Edge /\ EdgePart(aw) /\ aw.reading = TRUE /\ aw.package = E[k].package
          /\ Len(Available(aw)) = Len(Available(E[k]))
          /\ \A f, x : Packs(f, aw, x) => Packs(f, E[k], x)
          /\ Taken(aw, share[k]).in = Taken(E[k], share[k]).in
      BY <1>3, <3>1
    <3> HIDE DEF aw, G
    <3>4. Packs(Taken(aw, share[k]), aw, share[k]) /\ Taken(aw, share[k]).reading = aw.reading
      BY <2>4, <2>5, <3>3, TakenFacts
    <3> QED
      BY <3>1, <3>2, <3>3, <3>4
  <2>12. \A k \in D : k \notin op => G[k] = E[k]
    BY <1>2, <1>6
  <2>13. G \in [D -> Edge]
    <3>1. \A k \in D : G[k] \in Edge
      BY <1>2, <2>11, <2>12 DEF Packs
    <3>2. G = [k \in D |-> G[k]]
      BY <1>2
    <3> HIDE DEF G
    <3> QED
      BY <3>1, <3>2
  <2>14. \A k \in st : k \in op /\ G[k].package = 0
    OBVIOUS
  <2> HIDE DEF op, G, st
  <2>15. /\ F \in [D -> Edge]
         /\ \A k \in D : \/ F[k] = G[k]
                         \/ /\ k \in ks /\ (left = 0 \/ k \in st)
                            /\ F[k] = [G[k] EXCEPT !.reading = FALSE]
    BY <2>13, StopFacts
  <2> HIDE DEF F
  <2>16. ASSUME NEW k \in ks
         PROVE  \E x \in Nat :
                  /\ Packs(F[k], E[k], x)
                  /\ DataRange(r, E[k].id, E[k].conn, SentOf(E[k]), SentOf(E[k]) + x)
    <3> DEFINE x == IF k \in op THEN share[k] ELSE 0
    <3>1. x \in Nat /\ k \in D
      BY <1>2, <2>4
    <3>2. Packs(G[k], E[k], x)
      BY <1>4, <2>11, <2>12, <3>1
    <3>3. Packs([G[k] EXCEPT !.reading = FALSE], E[k], x)
      BY <3>2, PacksReading
    <3>4. Packs(F[k], E[k], x)
      BY <2>15, <3>1, <3>2, <3>3
    <3>5. SentOf(E[k]) + 0 = SentOf(E[k])
      BY <1>4
    <3>6. DataRange(r, E[k].id, E[k].conn, SentOf(E[k]), SentOf(E[k]) + x)
      BY <2>9, <3>5
    <3> QED
      BY <3>1, <3>4, <3>6
  <2>17. Sends(ks, E, F, r)
    <3>1. \A k \in DOMAIN E \ ks : F[k] = E[k]
      BY <1>2, <1>5, <2>12, <2>15
    <3>2. \A j \in DOMAIN r : \E k \in ks : r[j].id = E[k].id
      BY <1>5, <2>9
    <3> QED
      BY <2>9, <2>16, <3>1, <3>2 DEF Sends
  <2>18. ASSUME NEW k \in ks, E[k].sending = <<>> PROVE Flows(left, F[k])
    <3> SUFFICES ASSUME left > 0, F[k].package > 0
                 PROVE  /\ F[k].reading
                        /\ F[k].state = "open" => F[k].in = <<>> /\ F[k].sending = <<>>
      BY DEF Flows
    <3>1. k \in D /\ G[k] \in Edge
      BY <1>2, <2>13
    <3>2. [G[k] EXCEPT !.reading = FALSE].package = G[k].package
      BY <3>1 DEF Edge
    <3>3. G[k].package > 0
      BY <2>15, <3>1, <3>2
    <3>4. k \in op
      BY <1>5, <2>12, <3>1, <3>3
    <3>5. F[k] = G[k]
      BY <2>14, <2>15, <3>1, <3>3
    <3>6. Packs(G[k], E[k], share[k]) /\ G[k].reading = TRUE /\ G[k].in = Taken(E[k], share[k]).in
      BY <2>11, <3>4
    <3>7. G[k].package = E[k].package - share[k] /\ G[k].sending = <<>>
          /\ (share[k] = Len(Available(E[k])) => G[k].in = <<>>)
      BY <2>18, <3>6 DEF Packs
    <3>8. share[k] # E[k].package /\ share[k] # window
      <4>1. share[k] \in Nat /\ share[k] <= n /\ E[k].package \in Nat
        BY <1>4, <2>4, <2>10, <3>4
      <4>2. share[k] # E[k].package
        BY <3>3, <3>7, <4>1
      <4>3. share[k] # window
        BY <2>7, <4>1
      <4> QED
        BY <4>2, <4>3
    <3>9. share[k] = Len(Available(E[k])) \/ Taken(E[k], share[k]).in = <<>>
      BY <2>4, <2>5, <3>4, <3>8
    <3> QED
      BY <3>5, <3>6, <3>7, <3>9
  <2>19. left = window - Len(r)
    BY <2>9
  <2> HIDE DEF left
  <2> QED
    BY <2>3, <2>7, <2>9, <2>15, <2>17, <2>18, <2>19
<1> QED
  BY <1>1, <1>7, <1>8

-----------------------------------------------------------------------------
(* The streams of a circuit.                                               *)

LEMMA ViewOfEdge ==
    ASSUME NEW edge \in Edge, EdgePart(edge)
    PROVE  LET v == ViewOf(edge)
           IN  /\ v \in View
               /\ v.o = edge.conn /\ v.w = edge.package /\ v.d = edge.deliver
               /\ v.x = (edge.state = "connect_wait") /\ v.g = Len(edge.got)
               /\ v.s = SentOf(edge) /\ v.h = FALSE
<1>1. SentOf(edge) \in Nat
  BY AvailableFacts
<1>2. /\ edge.conn \in Conn /\ edge.package \in 0..StreamStart
      /\ edge.deliver \in 0..StreamStart /\ Len(edge.got) \in Nat
      /\ (edge.state = "connect_wait") \in BOOLEAN
  BY EdgeType, Sizes
<1> QED
  BY <1>1, <1>2 DEF ViewOf, View

LEMMA FarOfEdge ==
    ASSUME NEW edge \in Edge, EdgePart(edge), edge.state \in {"none", "connecting", "open"}
    PROVE  LET y == FarOf(edge)
           IN  /\ y \in Far /\ y.state = edge.state
               /\ y.o = edge.conn /\ y.w = edge.package /\ y.d = edge.deliver
               /\ y.g = Len(edge.got) /\ y.s = SentOf(edge)
<1>1. SentOf(edge) \in Nat
  BY AvailableFacts
<1>2. /\ edge.conn \in Conn /\ edge.package \in 0..StreamStart
      /\ edge.deliver \in 0..StreamStart /\ Len(edge.got) \in Nat
  BY EdgeType, Sizes
<1> QED
  BY <1>1, <1>2 DEF FarOf, Far

\* A stream that a step does not touch.
LEMMA StreamOther ==
    ASSUME NEW i, NEW at, NEW A, NEW B, NEW h, NEW y, NEW z, NEW L, NEW M, NEW L2, NEW M2,
           Stream(i, at, A, h, y, L, M), \A a \in at : ViewOf(B[a]) = ViewOf(A[a]),
           SameFar(y, z), Keeps(L, L2, i), Keeps(M, M2, i)
    PROVE  Stream(i, at, B, h, z, L2, M2)
<1>1. \A v : Joined(i, v, y, L, M) => Joined(i, v, z, L2, M2)
  BY JoinedKeeps
<1>2. Unused(i, y, L, M) => Unused(i, z, L2, M2)
  BY UnusedKeeps
<1> QED
  BY <1>1, <1>2 DEF Stream

\* A step that is right for whatever the client knows of the stream.
LEMMA StreamMove ==
    ASSUME NEW i, NEW at, NEW A, NEW h, NEW y, NEW z, NEW L, NEW M, NEW L2, NEW M2,
           Stream(i, at, A, h, y, L, M), \A a \in at : ViewOf(A[a]) \in View,
           \A v \in View : Joined(i, v, y, L, M) => Joined(i, v, z, L2, M2),
           Unused(i, y, L, M) => Unused(i, z, L2, M2)
    PROVE  Stream(i, at, A, h, z, L2, M2)
BY DEF Stream

\* A stream with an edge at the exit, a BEGIN or a cell to the client has a user.
LEMMA StreamUser ==
    ASSUME NEW i, NEW at, NEW A, NEW h, NEW y, NEW L, NEW M,
           Stream(i, at, A, h, y, L, M), \A a \in at : ViewOf(A[a]) \in View,
           y.state # "none" \/ Has(L, i, "BEGIN") \/ ~NoCell(M, i)
    PROVE  /\ \E v \in View : Joined(i, v, y, L, M)
           /\ at = {} => h.live /\ \E v \in View : HalfView(h, v) /\ Joined(i, v, y, L, M)
BY DEF Stream, Unused

LEMMA StreamOne ==
    ASSUME NEW i, NEW a, NEW A, NEW h, NEW y, NEW L, NEW M, ~h.live
    PROVE  Stream(i, {a}, A, h, y, L, M) <=> Joined(i, ViewOf(A[a]), y, L, M)
BY DEF Stream

LEMMA StreamHalf ==
    ASSUME NEW i, NEW A, NEW h, NEW y, NEW L, NEW M, NEW v \in View, HalfView(h, v), h.live,
           Joined(i, v, y, L, M)
    PROVE  Stream(i, {}, A, h, y, L, M)
BY DEF Stream

LEMMA StreamNone ==
    ASSUME NEW i, NEW A, NEW h, NEW y, NEW L, NEW M, ~h.live
    PROVE  Stream(i, {}, A, h, y, L, M) <=> Unused(i, y, L, M)
BY DEF Stream

\* Data without a number of this stream has no cell of it.
LEMMA NothingSent ==
    ASSUME NEW r \in Seq(Cell), AllData(r), NEW i, NEW o, NEW s, DataRange(r, i, o, s, s)
    PROVE  NoCell(r, i)
<1> SUFFICES ASSUME NEW k \in DOMAIN r, r[k].id = i PROVE FALSE
  BY DEF NoCell
<1>1. r[k] \in Cell
  BY ConcatFacts
<1>2. r[k].n \in Nat
  BY <1>1 DEF Cell
<1>3. k \in DataAt(r, i)
  BY DEF DataAt, AllData
<1> QED
  BY <1>2, <1>3 DEF DataRange

\* Data of other streams only.
LEMMA SentByOthers ==
    ASSUME NEW ks, NEW E, NEW F, NEW r, Sends(ks, E, F, r), NEW i, \A k \in ks : E[k].id # i
    PROVE  NoCell(r, i)
BY DEF Sends, NoCell

\* Edges of the client send data: every stream of the circuit stays right.
LEMMA ClientSendsAll ==
    ASSUME NEW E \in [Conn -> Edge], NEW F \in [Conn -> Edge], NEW ks \in SUBSET Conn,
           NEW r, Sends(ks, E, F, r), \A k \in ks : EdgePart(E[k]), Apart(ks, E),
           NEW H, NEW N \in [Id -> Edge], NEW window, Exits(N, window),
           \A k \in ks : E[k].id \in Id /\ ~H[E[k].id].live,
           NEW L \in Seq(Cell), NEW M \in Seq(Cell), Streams(ks, E, H, N, L, M)
    PROVE  Streams(ks, F, H, N, L \o r, M)
<1> SUFFICES ASSUME NEW i \in Id
             PROVE  Stream(i, {a \in ks : F[a].id = i}, F, H[i], FarOf(N[i]), L \o r, M)
  BY DEF Streams
<1> DEFINE at == {a \in ks : E[a].id = i}
           y == FarOf(N[i])
<1>1. Stream(i, at, E, H[i], y, L, M)
  BY DEF Streams
<1>2. {a \in ks : F[a].id = i} = at
  BY DEF Sends, Packs, SameEdge
<1>3. r \in Seq(Cell) /\ AllData(r)
  BY DEF Sends
<1>4. y \in Far
  BY FarOfEdge DEF Exits, ExitPart
<1>5. CASE at = {}
  <2>1. NoCell(r, i)
    BY <1>5, SentByOthers
  <2>2. Keeps(L, L \o r, i) /\ Keeps(M, M, i) /\ SameFar(y, y)
    BY <1>3, <2>1, KeepsConcat, KeepsSame DEF SameFar
  <2>3. Stream(i, at, F, H[i], y, L \o r, M)
    BY <1>1, <1>5, <2>2, StreamOther
  <2> QED
    BY <1>2, <2>3
<1>6. ASSUME NEW k \in at PROVE Stream(i, at, F, H[i], y, L \o r, M)
  <2>1. at = {k} /\ k \in ks /\ E[k].id = i /\ ~H[i].live
    BY <1>6 DEF Apart
  <2>2. PICK m \in Nat : /\ Packs(F[k], E[k], m)
                         /\ DataRange(r, i, E[k].conn, SentOf(E[k]), SentOf(E[k]) + m)
    BY <2>1 DEF Sends
  <2> DEFINE v == ViewOf(E[k])
             w == ViewOf(F[k])
  <2>3. /\ v \in View
        /\ v.o = E[k].conn /\ v.w = E[k].package /\ v.d = E[k].deliver
        /\ v.x = (E[k].state = "connect_wait") /\ v.g = Len(E[k].got)
        /\ v.s = SentOf(E[k]) /\ v.h = FALSE
    BY <2>1, ViewOfEdge
  <2>4. /\ w \in View
        /\ w.o = F[k].conn /\ w.w = F[k].package /\ w.d = F[k].deliver
        /\ w.x = (F[k].state = "connect_wait") /\ w.g = Len(F[k].got)
        /\ w.s = SentOf(F[k]) /\ w.h = FALSE
    <3>1. F[k] \in Edge /\ EdgePart(F[k])
      BY <2>2 DEF Packs
    <3> QED
      BY <3>1, ViewOfEdge
  <2> HIDE DEF v, w, y, at
  <2>5. /\ w.o = v.o /\ w.w = v.w - m /\ w.d = v.d /\ w.x = v.x /\ w.g = v.g
        /\ w.s = v.s + m /\ w.h = v.h
    BY <2>2, <2>3, <2>4 DEF Packs, SameEdge
  <2>6. Joined(i, v, y, L, M)
    BY <1>1, <2>1, StreamOne DEF v
  <2>7. DataRange(r, i, v.o, v.s, v.s + m)
    BY <2>2, <2>3
  <2>8. Joined(i, w, y, L \o r, M)
    BY <1>3, <1>4, <2>3, <2>4, <2>5, <2>6, <2>7, StepClientSends
  <2> QED
    BY <2>1, <2>8, StreamOne DEF w
<1> QED
  BY <1>2, <1>5, <1>6

\* Edges of the exit send data.
LEMMA ExitSendsAll ==
    ASSUME NEW A \in [Conn -> Edge], NEW ks \in SUBSET Conn, \A k \in ks : EdgePart(A[k]),
           NEW E \in [Id -> Edge], NEW F \in [Id -> Edge], NEW window, Exits(E, window),
           NEW r, Sends({i \in Id : E[i].state # "none"}, E, F, r),
           NEW H, NEW L \in Seq(Cell), NEW M \in Seq(Cell), Streams(ks, A, H, E, L, M)
    PROVE  Streams(ks, A, H, F, L, M \o r)
<1> SUFFICES ASSUME NEW i \in Id
             PROVE  Stream(i, {a \in ks : A[a].id = i}, A, H[i], FarOf(F[i]), L, M \o r)
  BY DEF Streams
<1> DEFINE at == {a \in ks : A[a].id = i}
           y == FarOf(E[i])
           z == FarOf(F[i])
           js == {j \in Id : E[j].state # "none"}
<1>1. Stream(i, at, A, H[i], y, L, M)
  BY DEF Streams
<1>2. r \in Seq(Cell) /\ AllData(r)
  BY DEF Sends
<1>3. EdgePart(E[i]) /\ E[i] \in Edge /\ E[i].state \in {"none", "connecting", "open"}
  BY DEF Exits, ExitPart
<1>4. /\ y \in Far /\ y.state = E[i].state
      /\ y.o = E[i].conn /\ y.w = E[i].package /\ y.d = E[i].deliver
      /\ y.g = Len(E[i].got) /\ y.s = SentOf(E[i])
  BY <1>3, FarOfEdge
<1>5. \A a \in at : ViewOf(A[a]) \in View
  BY ViewOfEdge
<1>6. ASSUME NoCell(r, i), z = y PROVE Stream(i, at, A, H[i], z, L, M \o r)
  <2>1. Keeps(M, M \o r, i) /\ Keeps(L, L, i) /\ SameFar(y, z)
    BY <1>2, <1>6, KeepsConcat, KeepsSame DEF SameFar
  <2> QED
    BY <1>1, <2>1, StreamOther
<1>7. CASE E[i].state = "none"
  <2>1. \A j \in js : E[j].id # i
    BY <1>7 DEF Exits
  <2>2. NoCell(r, i)
    BY <2>1, SentByOthers
  <2>3. F[i] = E[i]
    BY <1>7 DEF Sends
  <2> QED
    BY <1>6, <2>2, <2>3
<1>8. CASE E[i].state # "none"
  <2>1. E[i].id = i /\ i \in js
    BY <1>8 DEF Exits
  <2>2. PICK m \in Nat : /\ Packs(F[i], E[i], m)
                         /\ DataRange(r, i, E[i].conn, SentOf(E[i]), SentOf(E[i]) + m)
    BY <2>1 DEF Sends
  <2>3. F[i] \in Edge /\ EdgePart(F[i]) /\ F[i].state = E[i].state
    BY <2>2 DEF Packs, SameEdge
  <2>4. /\ z \in Far /\ z.state = F[i].state
        /\ z.o = F[i].conn /\ z.w = F[i].package /\ z.d = F[i].deliver
        /\ z.g = Len(F[i].got) /\ z.s = SentOf(F[i])
    BY <1>3, <2>3, FarOfEdge
  <2> HIDE DEF y, z, at
  <2>5. /\ z.state = y.state /\ z.o = y.o /\ z.w = y.w - m /\ z.d = y.d /\ z.g = y.g
        /\ z.s = y.s + m
    BY <1>4, <2>2, <2>4 DEF Packs, SameEdge
  <2>6. CASE E[i].state = "connecting"
    <3>1. E[i].written = 0 /\ F[i].written = 0
      BY <2>2, <2>6 DEF Exits, ExitPart, Packs, SameEdge
    <3>2. SentOf(E[i]) \in Nat /\ SentOf(F[i]) = SentOf(E[i]) + m
      BY <1>3, <2>2, AvailableFacts DEF Packs
    <3>3. SentOf(F[i]) <= 0
      BY <2>3, <3>1, EdgeType DEF SentOf
    <3>4. m = 0
      BY <3>2, <3>3
    <3>5. NoCell(r, i)
      <4>1. SentOf(E[i]) + m = SentOf(E[i])
        BY <3>2, <3>4
      <4> QED
        BY <1>2, <2>2, <4>1, NothingSent
    <3>6. z = y
      <4>1. z.w = y.w /\ z.s = y.s
        BY <1>4, <2>5, <3>4, FarType
      <4> QED
        BY <1>4, <2>4, <2>5, <4>1 DEF Far
    <3> QED
      BY <1>6, <3>5, <3>6 DEF z, at
  <2>7. CASE E[i].state = "open"
    <3>1. y.state = "open" /\ DataRange(r, i, y.o, y.s, y.s + m)
      BY <1>4, <2>2, <2>7
    <3>2. \A v \in View : Joined(i, v, y, L, M) => Joined(i, v, z, L, M \o r)
      BY <1>2, <1>4, <2>4, <2>5, <3>1, StepExitSends
    <3>3. ~Unused(i, y, L, M)
      BY <3>1 DEF Unused
    <3>4. Stream(i, at, A, H[i], z, L, M \o r)
      BY <1>1, <1>5, <3>2, <3>3, StreamMove
    <3> QED
      BY <3>4 DEF z, at
  <2> QED
    BY <1>3, <1>8, <2>6, <2>7
<1> QED
  BY <1>7, <1>8

\* What they leave behind keeps going.
LEMMA ExitsSend ==
    ASSUME NEW E \in [Id -> Edge], NEW F \in [Id -> Edge], NEW window, Exits(E, window),
           NEW r, Sends({i \in Id : E[i].state # "none"}, E, F, r), NEW left,
           \A i \in Id : E[i].state = "open" => Flows(left, F[i])
    PROVE  Exits(F, left)
<1> SUFFICES ASSUME NEW i \in Id
             PROVE  /\ F[i].state \in {"none", "connecting", "open"}
                    /\ F[i].state # "none" => F[i].id = i
                    /\ ExitPart(F[i])
                    /\ F[i].state = "open" => Flows(left, F[i])
  BY DEF Exits
<1>1. /\ E[i].state \in {"none", "connecting", "open"} /\ ExitPart(E[i])
      /\ E[i].state # "none" => E[i].id = i
  BY DEF Exits
<1>2. CASE E[i].state = "none"
  <2>1. F[i] = E[i]
    BY <1>2 DEF Sends
  <2> QED
    BY <1>1, <1>2, <2>1
<1>3. CASE E[i].state # "none"
  <2>1. PICK m \in Nat : Packs(F[i], E[i], m)
    BY <1>3 DEF Sends
  <2>2. F[i].state = E[i].state /\ F[i].id = E[i].id /\ F[i].written = E[i].written
    BY <2>1 DEF Packs, SameEdge
  <2>3. ExitPart(F[i])
    BY <1>1, <2>1, <2>2 DEF Packs, ExitPart
  <2> QED
    BY <1>1, <2>2, <2>3
<1> QED
  BY <1>2, <1>3

\* The edges of the client keep their parts.
LEMMA ClientsSend ==
    ASSUME NEW E \in [Conn -> Edge], NEW F, NEW ks \in SUBSET Conn, NEW r,
           Sends(ks, E, F, r), \A k \in Conn : ClientPart(E[k]),
           \A k \in ks : E[k].state \in {"connect_wait", "open"}
    PROVE  \A k \in Conn : /\ ClientPart(F[k])
                           /\ F[k].state = E[k].state /\ F[k].conn = E[k].conn
                           /\ F[k].id = E[k].id
                           /\ E[k].sending = <<>> => F[k].sending = <<>>
                           /\ k \notin ks => F[k] = E[k]
BY DEF Sends, Packs, SameEdge
-----------------------------------------------------------------------------
(* The windows of a circuit.                                               *)

\* The increments due bring a deliver window back above start - inc, and never too far.
LEMMA DueFacts ==
    ASSUME NEW start \in Nat, NEW inc \in Nat, inc > 0, NEW w \in Nat, w <= start
    PROVE  LET n == Due(start, inc, w)
           IN  /\ n \in Nat /\ n * inc \in Nat /\ w + n * inc <= start
               /\ w + n * inc > start - inc
<1> DEFINE u == start - w
           n == u \div inc
<1>1. u \in Nat
  OBVIOUS
<1> HIDE DEF u
<1>2. n \in Nat /\ u = inc * n + (u % inc) /\ u % inc \in 0..(inc - 1)
  BY <1>1
<1> HIDE DEF n
<1>3. n * inc = inc * n /\ inc * n \in Nat
  BY <1>2, Times
<1>4. u % inc \in Nat /\ u % inc < inc
  BY <1>2
<1> DEFINE p == inc * n
           m == u % inc
<1> HIDE DEF p, m
<1>5. u = p + m /\ p \in Nat /\ m \in Nat /\ m < inc
  BY <1>2, <1>3, <1>4 DEF p, m
<1>6. w + p <= start /\ w + p > start - inc
  BY <1>5 DEF u
<1>7. Due(start, inc, w) = n
  BY DEF Due, n, u
<1> QED
  BY <1>2, <1>3, <1>6, <1>7 DEF p

\* Cells without data or SENDMEs for the circuit.
Plain(r) == \A k \in DOMAIN r : r[k].cmd \notin {"DATA", "CIRC_SENDME"} /\ r[k].id \in Id

LEMMA NamedFacts ==
    ASSUME NEW q \in Seq(Cell), NEW r \in Seq(Cell), Named(q)
    PROVE  /\ Named(r) => Named(q \o r)
           /\ q # <<>> => Named(Tail(q))
<1>1. ASSUME Named(r) PROVE Named(q \o r)
  <2> SUFFICES ASSUME NEW k \in DOMAIN (q \o r)
               PROVE  (q \o r)[k].cmd # "CIRC_SENDME" <=> (q \o r)[k].id \in Id
    BY DEF Named
  <2> QED
    BY <1>1, ConcatSplit DEF Named
<1>2. ASSUME q # <<>> PROVE Named(Tail(q))
  <2>1. /\ DOMAIN q = 1..Len(q) /\ DOMAIN Tail(q) = 1..(Len(q) - 1) /\ Len(q) \in Nat
        /\ \A k \in 1..(Len(q) - 1) : Tail(q)[k] = q[k + 1]
    BY <1>2, TailFacts
  <2> QED
    BY <2>1 DEF Named
<1> QED
  BY <1>1, <1>2

LEMMA LinksPeer ==
    ASSUME NEW p, NEW q, NEW d, NEW f, NEW L, NEW M, Links(p, q, d, f, L, M)
    PROVE  Links(q, p, f, d, M, L)
BY DEF Links

LEMMA CountCells ==
    ASSUME NEW r \in Seq(Cell)
    PROVE  /\ Count(r, DataSet) \in Nat /\ Count(r, CircSendmeSet) \in Nat
           /\ CircInc * Count(r, CircSendmeSet) \in Nat
           /\ AllData(r) => Count(r, DataSet) = Len(r) /\ Count(r, CircSendmeSet) = 0
           /\ Plain(r) => Count(r, DataSet) = 0 /\ Count(r, CircSendmeSet) = 0
<1>1. \A k \in DOMAIN r : r[k] \in Cell
  BY ConcatFacts
<1>2. Count(r, DataSet) \in Nat /\ Count(r, CircSendmeSet) \in Nat
  BY CountType
<1>3. CircInc * Count(r, CircSendmeSet) \in Nat
  BY <1>2, Sizes, Times
<1>4. ASSUME AllData(r) PROVE Count(r, DataSet) = Len(r) /\ Count(r, CircSendmeSet) = 0
  <2>1. \A k \in DOMAIN r : r[k] \in DataSet /\ r[k] \notin CircSendmeSet
    BY <1>1, <1>4 DEF AllData, DataSet, CircSendmeSet
  <2> QED
    BY <2>1, CountAll, CountNone
<1>5. ASSUME Plain(r) PROVE Count(r, DataSet) = 0 /\ Count(r, CircSendmeSet) = 0
  <2>1. \A k \in DOMAIN r : r[k] \notin DataSet /\ r[k] \notin CircSendmeSet
    BY <1>1, <1>5 DEF Plain, DataSet, CircSendmeSet
  <2> QED
    BY <2>1, CountNone
<1> QED
  BY <1>2, <1>3, <1>4, <1>5

\* An end sends data.
LEMMA LinksSend ==
    ASSUME NEW p \in Nat, NEW q, NEW d, NEW f \in Nat, NEW L \in Seq(Cell),
           NEW M \in Seq(Cell), Links(p, q, d, f, L, M), NEW r \in Seq(Cell), AllData(r),
           \A k \in DOMAIN r : r[k].id \in Id
    PROVE  Links(p - Len(r), q, d, f, L \o r, M)
<1> DEFINE n == Count(L, DataSet)
           s == CircInc * Count(M, CircSendmeSet)
           m == Len(r)
<1>1. /\ Count(L \o r, DataSet) = n + m
      /\ Count(L \o r, CircSendmeSet) = Count(L, CircSendmeSet)
      /\ n \in Nat /\ s \in Nat /\ m \in Nat
  BY CountCells, CountConcat, CountType, ConcatFacts, ConcatCountSame
<1>2. Named(L \o r)
  BY NamedFacts DEF Links, Named, AllData
<1>3. p + n + s = f
  BY DEF Links, Balance
<1> HIDE DEF n, m, s
<1>4. (p - m) + (n + m) + s = f
  BY <1>1, <1>3
<1>5. Balance(p - m, f, L \o r, M)
  BY <1>1, <1>4 DEF Balance, s
<1>6. Balance(q, d, M, L \o r)
  BY <1>1 DEF Links, Balance
<1> QED
  BY <1>2, <1>5, <1>6 DEF Links, m

\* It sends other cells of streams.
LEMMA LinksSay ==
    ASSUME NEW p, NEW q, NEW d, NEW f, NEW L \in Seq(Cell), NEW M \in Seq(Cell),
           Links(p, q, d, f, L, M), NEW r \in Seq(Cell), Plain(r)
    PROVE  Links(p, q, d, f, L \o r, M)
<1>1. /\ Count(L \o r, DataSet) = Count(L, DataSet)
      /\ Count(L \o r, CircSendmeSet) = Count(L, CircSendmeSet)
  BY CountCells, ConcatCountSame
<1>2. Named(L \o r)
  BY NamedFacts DEF Links, Named, Plain
<1> QED
  BY <1>1, <1>2 DEF Links, Balance

\* It gets such a cell.
LEMMA LinksHear ==
    ASSUME NEW p, NEW q, NEW d, NEW f, NEW L \in Seq(Cell), NEW M \in Seq(Cell),
           Links(p, q, d, f, L, M), M # <<>>, Head(M).cmd \notin {"DATA", "CIRC_SENDME"}
    PROVE  Links(p, q, d, f, L, Tail(M)) /\ Head(M).id \in Id
<1>1. Head(M) \notin DataSet /\ Head(M) \notin CircSendmeSet
  BY DEF DataSet, CircSendmeSet
<1>2. /\ Count(Tail(M), DataSet) = Count(M, DataSet)
      /\ Count(Tail(M), CircSendmeSet) = Count(M, CircSendmeSet)
  BY <1>1, CountTail
<1>3. Named(Tail(M))
  BY NamedFacts DEF Links
<1>4. Head(M).id \in Id
  BY TailFacts DEF Links, Named
<1> QED
  BY <1>2, <1>3, <1>4 DEF Links, Balance

\* Copies of a SENDME for the circuit.
LEMMA CircSendmeFacts ==
    ASSUME NEW c, NEW n \in Nat
    PROVE  /\ CircSendme(c, n) \in Seq(Cell) /\ Named(CircSendme(c, n))
           /\ Count(CircSendme(c, n), DataSet) = 0
           /\ Count(CircSendme(c, n), CircSendmeSet) = n
           /\ \A i \in Id : NoCell(CircSendme(c, n), i)
<1> DEFINE x == [cmd |-> "CIRC_SENDME", id |-> 0, conn |-> CHOOSE a \in Conn : TRUE,
                 n |-> 0, retriable |-> FALSE]
           r == CircSendme(c, n)
<1>1. (CHOOSE a \in Conn : TRUE) \in Conn
  BY ConstantsAssumption
<1>2. x \in Cell /\ x.cmd = "CIRC_SENDME" /\ x.id = 0
  BY <1>1 DEF Cell
<1>3. r = [j \in 1..n |-> x]
  BY DEF CircSendme, Copies
<1> HIDE DEF x, r
<1>4. r \in Seq(Cell) /\ DOMAIN r = 1..n /\ \A j \in DOMAIN r : r[j] = x
  BY <1>2, <1>3
<1>5. Len(r) = n
  BY <1>4
<1>6. \A j \in DOMAIN r : r[j] \notin DataSet /\ r[j] \in CircSendmeSet
  BY <1>2, <1>4 DEF DataSet, CircSendmeSet
<1>7. Count(r, DataSet) = 0 /\ Count(r, CircSendmeSet) = n
  BY <1>4, <1>5, <1>6, CountNone, CountAll
<1>9. \A i \in Id : i # 0
  BY ConstantsAssumption DEF Id, IdOf
<1>8. Named(r)
  BY <1>2, <1>4, <1>9 DEF Named
<1>10. \A i \in Id : NoCell(r, i)
  BY <1>2, <1>4, <1>9 DEF NoCell
<1> QED
  BY <1>4, <1>7, <1>8, <1>10 DEF r

\* An end gets data: the circuit's window allows it, and the SENDMEs that are due go out.
LEMMA LinksData ==
    ASSUME NEW p, NEW q \in Nat, NEW d \in Nat, d <= CircStart, NEW f, NEW L \in Seq(Cell),
           NEW M \in Seq(Cell), Links(p, q, d, f, L, M), M # <<>>, Head(M).cmd = "DATA",
           NEW c
    PROVE  LET n == Due(CircStart, CircInc, d - 1)
           IN  /\ n \in Nat /\ d - 1 + n * CircInc \in 0..CircStart
               /\ Links(p, q, d - 1 + n * CircInc, f, L \o CircSendme(c, n), Tail(M))
               /\ Head(M).id \in Id
<1> DEFINE n == Due(CircStart, CircInc, d - 1)
           k == Count(Tail(M), DataSet)
           m == Count(L, CircSendmeSet)
           s == CircInc * m
           u == n * CircInc
<1>1. Head(M) \in Cell /\ Tail(M) \in Seq(Cell)
  BY TailHas
<1>2. Head(M) \in DataSet /\ Head(M) \notin CircSendmeSet
  BY <1>1 DEF DataSet, CircSendmeSet
<1>3. /\ Count(M, DataSet) = k + 1 /\ k \in Nat
      /\ Count(Tail(M), CircSendmeSet) = Count(M, CircSendmeSet)
  BY <1>2, CountTail
<1>4. m \in Nat /\ s \in Nat
  BY CountCells
<1>5. q + (k + 1) + s = d
  BY <1>3 DEF Links, Balance
<1>6. d >= 1
  <2> HIDE DEF k, s
  <2> QED
    BY <1>3, <1>4, <1>5
<1>7. /\ n \in Nat /\ u \in Nat /\ (d - 1) + u <= CircStart
      /\ (d - 1) + u > CircStart - CircInc
  <2>1. d - 1 \in Nat /\ d - 1 <= CircStart
    BY <1>6, Sizes
  <2> QED
    BY <2>1, DueFacts, Sizes
<1> HIDE DEF n
<1> DEFINE r == CircSendme(c, n)
<1>8. /\ r \in Seq(Cell) /\ Named(r)
      /\ Count(r, DataSet) = 0 /\ Count(r, CircSendmeSet) = n
  BY <1>7, CircSendmeFacts
<1> HIDE DEF r
<1>9. /\ Count(L \o r, DataSet) = Count(L, DataSet)
      /\ Count(L \o r, CircSendmeSet) = m + n
  BY <1>8, CountConcat, CountCells, ConcatCountSame
<1>10. CircInc * (m + n) = s + u
  BY <1>4, <1>7, Sizes, Times
<1> HIDE DEF k, m, s, u
<1>11. q + k + (s + u) = (d - 1) + u
  BY <1>3, <1>4, <1>5, <1>7
<1>12. Balance(q, d - 1 + u, Tail(M), L \o r)
  BY <1>9, <1>10, <1>11 DEF Balance, k
<1>13. Balance(p, f, L \o r, Tail(M))
  BY <1>3, <1>9 DEF Balance, Links
<1>14. Named(L \o r) /\ Named(Tail(M))
  BY <1>1, <1>8, NamedFacts DEF Links
<1>15. Links(p, q, d - 1 + u, f, L \o r, Tail(M))
  BY <1>7, <1>12, <1>13, <1>14 DEF Links
<1>16. Head(M).id \in Id
  BY TailFacts DEF Links, Named
<1>17. d - 1 + u \in 0..CircStart
  BY <1>6, <1>7, Sizes
<1> QED
  BY <1>7, <1>15, <1>16, <1>17 DEF n, r, u

\* An end gets a SENDME for the circuit: the window has room.
LEMMA LinksAcked ==
    ASSUME NEW p \in Nat, NEW q, NEW d, NEW f \in Nat, f <= CircStart, NEW L \in Seq(Cell),
           NEW M \in Seq(Cell), Links(p, q, d, f, L, M), M # <<>>,
           Head(M).cmd = "CIRC_SENDME"
    PROVE  p + CircInc <= CircStart /\ Links(p + CircInc, q, d, f, L, Tail(M))
<1> DEFINE k == Count(L, DataSet)
           m == Count(Tail(M), CircSendmeSet)
           s == CircInc * m
<1>1. Head(M) \in Cell /\ Tail(M) \in Seq(Cell)
  BY TailHas
<1>2. Head(M) \notin DataSet /\ Head(M) \in CircSendmeSet
  BY <1>1 DEF DataSet, CircSendmeSet
<1>3. /\ Count(Tail(M), DataSet) = Count(M, DataSet)
      /\ Count(M, CircSendmeSet) = m + 1 /\ m \in Nat
  BY <1>2, CountTail
<1>4. s \in Nat /\ CircInc * (m + 1) = s + CircInc /\ k \in Nat
  BY <1>3, Sizes, Times, CountCells
<1>5. p + k + (s + CircInc) = f
  BY <1>3, <1>4 DEF Links, Balance
<1> HIDE DEF k, m, s
<1>6. (p + CircInc) + k + s = f /\ p + CircInc <= CircStart
  BY <1>4, <1>5, Sizes
<1>7. Balance(p + CircInc, f, L, Tail(M)) /\ Balance(q, d, Tail(M), L)
  BY <1>3, <1>6 DEF Balance, Links, k, m, s
<1>8. Named(Tail(M))
  BY NamedFacts DEF Links
<1> QED
  BY <1>6, <1>7, <1>8 DEF Links
-----------------------------------------------------------------------------
(* Steps.                                                                  *)

\* A step leaves all circuits but c alone.
Elsewhere(c) ==
    \A d \in Circ \ {c} :
      /\ \A a \in Conn : /\ on_circuit'[a] = d <=> on_circuit[a] = d
                         /\ on_circuit[a] = d => ap'[a] = ap[a]
      /\ n_streams'[d] = n_streams[d] /\ half_streams'[d] = half_streams[d]
      /\ \A e \in End : /\ package_window'[e][d] = package_window[e][d]
                        /\ deliver_window'[e][d] = deliver_window[e][d]
                        /\ link'[e][d] = link[e][d]

LEMMA ElsewhereFacts ==
    ASSUME NEW c, Elsewhere(c), NEW d \in Circ, d # c, CircuitPart(d)
    PROVE  CircuitPart(d)'
<1> DEFINE ks == {a \in Conn : on_circuit[a] = d}
<1>1. On("client", d) = ks /\ On("client", d)' = ks
  BY DEF On, Elsewhere
<1>2. "client" \in End /\ "exit" \in End
  BY DEF End
<1>3. \A a \in ks : ap'[a] = ap[a]
  BY DEF Elsewhere
<1>4. /\ n_streams'[d] = n_streams[d] /\ half_streams'[d] = half_streams[d]
      /\ package_window'["client"][d] = package_window["client"][d]
      /\ package_window'["exit"][d] = package_window["exit"][d]
      /\ deliver_window'["client"][d] = deliver_window["client"][d]
      /\ deliver_window'["exit"][d] = deliver_window["exit"][d]
      /\ link'["client"][d] = link["client"][d] /\ link'["exit"][d] = link["exit"][d]
  BY <1>2 DEF Elsewhere
<1> HIDE DEF ks
<1>5. Streams(ks, ap, half_streams[d], n_streams[d], link["client"][d], link["exit"][d])
  BY <1>1 DEF CircuitPart
<1>6. Streams(ks, ap', half_streams[d], n_streams[d], link["client"][d], link["exit"][d])
  <2> SUFFICES ASSUME NEW i \in Id
               PROVE  Stream(i, {a \in ks : ap'[a].id = i}, ap', half_streams[d][i],
                             FarOf(n_streams[d][i]), link["client"][d], link["exit"][d])
    BY DEF Streams
  <2>1. {a \in ks : ap'[a].id = i} = {a \in ks : ap[a].id = i}
    BY <1>3
  <2>2. \A a \in ks : ViewOf(ap'[a]) = ViewOf(ap[a])
    BY <1>3
  <2> QED
    BY <1>5, <2>1, <2>2 DEF Streams, Stream
<1> QED
  BY <1>1, <1>4, <1>6 DEF CircuitPart

\* What a step on circuit c has to keep.
LEMMA InvStep ==
    ASSUME IInv, NEW c, Elsewhere(c), TypeOK', refused' = {}, OwnPart',
           c \in Circ => CircuitPart(c)', \A a \in Conn : ClientPart(ap[a])' /\ FlowPart(a)'
    PROVE  IInv'
<1>1. \A d \in Circ : CircuitPart(d)'
  BY ElsewhereFacts DEF IInv
<1> QED
  BY <1>1 DEF IInv

\* A table of both ends becomes g: at circuit c it has x for the client and y for the exit.
Put(S, f, g, c, x, y) ==
    /\ g \in [End -> [Circ -> S]] /\ g["client"][c] = x /\ g["exit"][c] = y
    /\ \A e \in End, d \in Circ \ {c} : g[e][d] = f[e][d]

LEMMA PutFacts ==
    ASSUME NEW S, NEW f \in [End -> [Circ -> S]], NEW c \in Circ, NEW x \in S, NEW y \in S
    PROVE  /\ Put(S, f, f, c, f["client"][c], f["exit"][c])
           /\ Put(S, f, [f EXCEPT !["client"][c] = x], c, x, f["exit"][c])
           /\ Put(S, f, [f EXCEPT !["exit"][c] = y], c, f["client"][c], y)
           /\ Put(S, f, [f EXCEPT !["client"][c] = x, !["exit"][c] = y], c, x, y)
           /\ Put(S, f, [f EXCEPT !["exit"][c] = y, !["client"][c] = x], c, x, y)
BY DEF Put, End

\* What the invariant says of a circuit.
LEMMA CircuitNow ==
    ASSUME IInv, NEW c \in Circ
    PROVE  /\ link["client"][c] \in Seq(Cell) /\ link["exit"][c] \in Seq(Cell)
           /\ \A e \in End : /\ package_window[e][c] \in Nat /\ deliver_window[e][c] \in Nat
                             /\ package_window[e][c] <= CircStart
                             /\ deliver_window[e][c] <= CircStart
           /\ n_streams[c] \in [Id -> Edge] /\ half_streams[c] \in [Id -> Half]
           /\ CircuitPart(c) /\ c # NoCirc
           /\ \A i \in Id : EdgePart(n_streams[c][i])
<1>1. "client" \in End /\ "exit" \in End
  BY DEF End
<1>2. /\ link \in [End -> [Circ -> Seq(Cell)]]
      /\ package_window \in [End -> [Circ -> 0..CircStart]]
      /\ deliver_window \in [End -> [Circ -> 0..CircStart]]
      /\ n_streams \in [Circ -> [Id -> Edge]]
      /\ half_streams \in [Circ -> [Id -> Half]]
  BY DEF IInv, TypeOK
<1>3. \A e \in End : /\ package_window[e][c] \in 0..CircStart
                     /\ deliver_window[e][c] \in 0..CircStart
  BY <1>2
<1>4. CircuitPart(c) /\ c # NoCirc
  BY ConstantsAssumption DEF IInv
<1> QED
  BY <1>1, <1>2, <1>3, <1>4, Sizes DEF CircuitPart, Exits, ExitPart

LEMMA DeliverStays ==
    ASSUME IInv, NEW c \in Circ
    PROVE  Put(0..CircStart, deliver_window, deliver_window, c, deliver_window["client"][c],
               deliver_window["exit"][c])
<1> DEFINE S == 0..CircStart
<1>1. deliver_window \in [End -> [Circ -> S]] /\ "client" \in End /\ "exit" \in End
  BY DEF IInv, TypeOK, End
<1> HIDE DEF S
<1>2. deliver_window["client"][c] \in S /\ deliver_window["exit"][c] \in S
  BY <1>1
<1>3. Put(S, deliver_window, deliver_window, c, deliver_window["client"][c],
          deliver_window["exit"][c])
  BY <1>1, <1>2, PutFacts
<1> QED
  BY <1>3 DEF S

LEMMA ClientNow ==
    ASSUME IInv, NEW c \in Circ
    PROVE  LET ks == On("client", c)
           IN  /\ ks \in SUBSET Conn /\ ks = {a \in Conn : on_circuit[a] = c}
               /\ ap \in [Conn -> Edge] /\ \A a \in Conn : EdgePart(ap[a])
               /\ \A k \in ks : /\ ap[k].state \in {"connect_wait", "open"}
                                /\ ap[k].id \in Id /\ ~half_streams[c][ap[k].id].live
                                /\ ViewOf(ap[k]) \in View
               /\ Apart(ks, ap)
<1>1. On("client", c) = {a \in Conn : on_circuit[a] = c}
  BY DEF On
<1>2. ap \in [Conn -> Edge] /\ \A a \in Conn : EdgePart(ap[a])
  BY DEF IInv, TypeOK, ClientPart
<1>3. c # NoCirc
  BY CircuitNow
<1>4. \A k \in On("client", c) : /\ ap[k].state \in {"connect_wait", "open"}
                                 /\ ap[k].id \in Id /\ ~half_streams[c][ap[k].id].live
  BY <1>1, <1>3 DEF IInv, OwnPart
<1>5. \A k \in On("client", c) : ViewOf(ap[k]) \in View
  BY <1>1, <1>2, ViewOfEdge
<1>6. Apart(On("client", c), ap)
  BY <1>1, <1>3 DEF IInv, OwnPart, Apart
<1> QED
  BY <1>1, <1>2, <1>4, <1>5, <1>6

\* Stream i as the client and the exit have it.
LEMMA StreamNow ==
    ASSUME IInv, NEW c \in Circ, NEW i \in Id
    PROVE  /\ Stream(i, {a \in On("client", c) : ap[a].id = i}, ap, half_streams[c][i],
                     FarOf(n_streams[c][i]), link["client"][c], link["exit"][c])
           /\ LET y == FarOf(n_streams[c][i])
                  edge == n_streams[c][i]
              IN  /\ y \in Far /\ y.state = edge.state
                  /\ y.o = edge.conn /\ y.w = edge.package /\ y.d = edge.deliver
                  /\ y.g = Len(edge.got) /\ y.s = SentOf(edge)
           /\ n_streams[c][i] \in Edge /\ EdgePart(n_streams[c][i])
           /\ n_streams[c][i].state # "none" => n_streams[c][i].id = i
<1>1. CircuitPart(c) /\ n_streams[c] \in [Id -> Edge]
  BY CircuitNow
<1>2. /\ n_streams[c][i] \in Edge /\ EdgePart(n_streams[c][i])
      /\ n_streams[c][i].state \in {"none", "connecting", "open"}
      /\ n_streams[c][i].state # "none" => n_streams[c][i].id = i
  BY <1>1 DEF CircuitPart, Exits, ExitPart
<1>3. Stream(i, {a \in On("client", c) : ap[a].id = i}, ap, half_streams[c][i],
             FarOf(n_streams[c][i]), link["client"][c], link["exit"][c])
  BY <1>1 DEF CircuitPart, Streams
<1> QED
  BY <1>2, <1>3, FarOfEdge

\* A step of the exit on circuit c.
LEMMA ExitStep ==
    ASSUME IInv, NEW c \in Circ, NEW N, NEW L, NEW M, NEW q, NEW f,
           UNCHANGED <<ap, on_circuit, tried, half_streams, next_stream_id, unusable>>,
           refused' = refused, closes' \in 0..MaxCloses,
           n_streams' = [n_streams EXCEPT ![c] = N], N \in [Id -> Edge],
           Put(Seq(Cell), link, link', c, L, M),
           Put(0..CircStart, package_window, package_window', c, package_window["client"][c], q),
           Put(0..CircStart, deliver_window, deliver_window', c, deliver_window["client"][c], f),
           Links(package_window["client"][c], q, deliver_window["client"][c], f, L, M),
           Streams(On("client", c), ap, half_streams[c], N, L, M), Exits(N, q)
    PROVE  IInv'
<1>1. n_streams' \in [Circ -> [Id -> Edge]] /\ n_streams'[c] = N
  BY DEF IInv, TypeOK
<1>2. TypeOK'
  BY <1>1 DEF IInv, TypeOK, Put
<1>3. Elsewhere(c)
  BY DEF Elsewhere, Put, IInv, TypeOK
<1>4. OwnPart'
  BY DEF OwnPart, IInv
<1>5. On("client", c)' = On("client", c)
  BY DEF On
<1>6. CircuitPart(c)'
  BY <1>1, <1>5 DEF CircuitPart, Put
<1>7. \A d \in Circ : package_window'["client"][d] = package_window["client"][d]
  BY DEF Put, End
<1>8. ASSUME NEW a \in Conn PROVE FlowPart(a)'
  <2>1. FlowPart(a)
    BY DEF IInv
  <2>2. on_circuit[a] # NoCirc => on_circuit[a] \in Circ
    BY DEF IInv, TypeOK
  <2> QED
    BY <1>7, <2>1, <2>2 DEF FlowPart
<1>9. \A a \in Conn : ClientPart(ap[a])'
  BY DEF IInv
<1>10. refused' = {}
  BY DEF IInv
<1> QED
  BY <1>2, <1>3, <1>4, <1>6, <1>8, <1>9, <1>10, InvStep

\* A step of the client on circuit c, which may change edges attached to c before it or
\* after it.
LEMMA ClientStep ==
    ASSUME IInv, NEW c \in Circ, NEW H, NEW L, NEW M, NEW p, NEW w,
           ap' \in [Conn -> Edge], on_circuit' \in [Conn -> Circ \cup {NoCirc}],
           tried' \in [Conn -> SUBSET Circ], unusable' \in SUBSET Circ,
           next_stream_id' \in [Circ -> Id], refused' = {}, closes' \in 0..MaxCloses,
           \A a \in Conn : \/ ap'[a] = ap[a] /\ on_circuit'[a] = on_circuit[a]
                           \/ on_circuit[a] \in {c, NoCirc} /\ on_circuit'[a] \in {c, NoCirc},
           half_streams' = [half_streams EXCEPT ![c] = H], H \in [Id -> Half],
           UNCHANGED n_streams,
           Put(Seq(Cell), link, link', c, L, M),
           Put(0..CircStart, package_window, package_window', c, p, package_window["exit"][c]),
           Put(0..CircStart, deliver_window, deliver_window', c, w, deliver_window["exit"][c]),
           Links(p, package_window["exit"][c], w, deliver_window["exit"][c], L, M),
           Streams(On("client", c)', ap', H, n_streams[c], L, M),
           OwnPart', \A a \in Conn : ClientPart(ap[a])' /\ FlowPart(a)'
    PROVE  IInv'
<1>1. half_streams' \in [Circ -> [Id -> Half]] /\ half_streams'[c] = H
  BY DEF IInv, TypeOK
<1>2. TypeOK'
  BY <1>1 DEF IInv, TypeOK, Put
<1>3. Elsewhere(c)
  <2>1. \A b \in Circ \ {c} : half_streams'[b] = half_streams[b] /\ n_streams'[b] = n_streams[b]
    BY DEF IInv, TypeOK
  <2>2. \A b \in Circ \ {c}, e \in End :
          /\ package_window'[e][b] = package_window[e][b]
          /\ deliver_window'[e][b] = deliver_window[e][b]
          /\ link'[e][b] = link[e][b]
    BY DEF Put
  <2>3. \A b \in Circ \ {c}, a \in Conn :
          /\ on_circuit'[a] = b <=> on_circuit[a] = b
          /\ on_circuit[a] = b => ap'[a] = ap[a]
    BY ConstantsAssumption
  <2> QED
    BY ONLY <2>1, <2>2, <2>3 DEF Elsewhere
<1>4. Exits(n_streams[c], package_window["exit"][c])
  BY CircuitNow DEF CircuitPart
<1>5. CircuitPart(c)'
  BY <1>1, <1>4 DEF CircuitPart, Put
<1> QED
  BY <1>2, <1>3, <1>5, InvStep

-----------------------------------------------------------------------------
(* Steps of the exit.                                                      *)

\* An edge with the data of another one.
LEMMA SameData ==
    ASSUME NEW edge \in Edge, EdgePart(edge), NEW f \in Edge, f.conn = edge.conn,
           f.in = edge.in, f.sending = edge.sending, f.got = edge.got,
           f.written = edge.written, f.out = 0 => f.deliver > StreamStart - StreamInc
    PROVE  EdgePart(f) /\ SentOf(f) = SentOf(edge)
BY DEF EdgePart, SentOf

\* An edge with the same to send, and as much of its own data.
LEMMA SameInput ==
    ASSUME NEW edge \in Edge, EdgePart(edge), NEW f \in Edge, f.conn = edge.conn,
           f.in = edge.in, f.sending = edge.sending, f.written = edge.written,
           \A j \in 1..Len(f.got) : f.got[j] = Data(f.conn, j),
           f.out = 0 => f.deliver > StreamStart - StreamInc
    PROVE  EdgePart(f)
<1>1. SentOf(f) = SentOf(edge)
  BY DEF SentOf
<1>2. /\ f.written >= Len(f.in) + Len(f.sending)
      /\ \A j \in 1..Len(f.in) : f.in[j] = Data(f.conn, f.written - Len(f.in) + j)
  BY DEF EdgePart
<1>3. \A j \in 1..Len(f.sending) : f.sending[j] = Data(f.conn, SentOf(f) + j)
  BY <1>1 DEF EdgePart
<1> QED
  BY <1>2, <1>3 DEF EdgePart

\* An edge as it is made.
Fresh(f, state, a, id) ==
    /\ f \in Edge /\ f.state = state /\ f.conn = a /\ f.id = id
    /\ f.package = StreamStart /\ f.deliver = StreamStart /\ f.reading = TRUE
    /\ f.in = <<>> /\ f.sending = <<>> /\ f.pending = <<>> /\ f.got = <<>>
    /\ Len(f.got) = 0
    /\ f.out = 0 /\ f.written = 0 /\ SentOf(f) = 0 /\ EdgePart(f) /\ ExitPart(f)

LEMMA NewEdgeFacts ==
    ASSUME NEW state \in EdgeState, NEW a \in Conn, NEW id \in {0} \cup Id
    PROVE  Fresh(NewEdge(state, a, id), state, a, id)
<1> DEFINE f == NewEdge(state, a, id)
<1>1. <<>> \in Seq(Conn \X Nat) /\ Len(<<>>) = 0
  OBVIOUS
<1>2. f \in Edge
  BY <1>1, Sizes DEF NewEdge, Edge, EdgeState
<1>3. /\ f.state = state /\ f.conn = a /\ f.id = id
      /\ f.package = StreamStart /\ f.deliver = StreamStart /\ f.reading = TRUE
      /\ f.in = <<>> /\ f.sending = <<>> /\ f.pending = <<>> /\ f.got = <<>>
      /\ f.out = 0 /\ f.written = 0
  BY DEF NewEdge
<1> HIDE DEF f
<1>4. SentOf(f) = 0
  <2>1. Len(f.in) = 0 /\ Len(f.sending) = 0 /\ f.written = 0
    BY <1>1, <1>3
  <2> QED
    BY <2>1 DEF SentOf
<1>5. EdgePart(f)
  BY <1>1, <1>3, Sizes DEF EdgePart
<1>6. ExitPart(f)
  BY <1>3, <1>5 DEF ExitPart
<1> QED
  BY <1>1, <1>2, <1>3, <1>4, <1>5, <1>6 DEF f, Fresh

\* An edge that stops reading.
LEMMA Asleep ==
    ASSUME NEW edge \in Edge, EdgePart(edge)
    PROVE  LET f == [edge EXCEPT !.reading = FALSE]
           IN  /\ f \in Edge /\ f.state = edge.state /\ f.conn = edge.conn /\ f.id = edge.id
               /\ f.package = edge.package /\ f.deliver = edge.deliver /\ f.got = edge.got
               /\ f.sending = edge.sending /\ f.written = edge.written
               /\ EdgePart(f) /\ SentOf(f) = SentOf(edge)
<1> DEFINE f == [edge EXCEPT !.reading = FALSE]
<1>1. /\ f \in Edge /\ f.state = edge.state /\ f.conn = edge.conn /\ f.id = edge.id
      /\ f.package = edge.package /\ f.deliver = edge.deliver /\ f.got = edge.got
      /\ f.sending = edge.sending /\ f.written = edge.written /\ f.in = edge.in
      /\ f.out = edge.out
  BY DEF Edge
<1> HIDE DEF f
<1>2. EdgePart(f) /\ SentOf(f) = SentOf(edge)
  BY <1>1, SameData DEF EdgePart
<1> QED
  BY <1>1, <1>2 DEF f

LEMMA NoStreamFacts ==
    /\ NoStream \in Edge /\ NoStream.state = "none" /\ ExitPart(NoStream)
    /\ FarOf(NoStream).state = "none"
<1>1. (CHOOSE a \in Conn : TRUE) \in Conn
  BY ConstantsAssumption
<1>2. "none" \in EdgeState /\ 0 \in {0} \cup Id
  BY DEF EdgeState
<1>3. NoStream \in Edge /\ NoStream.state = "none" /\ ExitPart(NoStream)
  <2> DEFINE o == CHOOSE a \in Conn : TRUE
  <2>1. Fresh(NewEdge("none", o, 0), "none", o, 0)
    <3> HIDE DEF o
    <3>1. o \in Conn
      BY <1>1 DEF o
    <3> QED
      BY <1>2, <3>1, NewEdgeFacts
  <2>2. Fresh(NoStream, "none", o, 0)
    BY <2>1 DEF NoStream
  <2> HIDE DEF o, NoStream
  <2> QED
    BY <2>2 DEF Fresh
<1> QED
  BY <1>3 DEF FarOf

\* One edge of the exit changes.
LEMMA ExitsOne ==
    ASSUME NEW N \in [Id -> Edge], NEW q, Exits(N, q), NEW i \in Id, NEW f \in Edge,
           f.state \in {"none", "connecting", "open"}, f.state # "none" => f.id = i,
           ExitPart(f), f.state = "open" => Flows(q, f)
    PROVE  [N EXCEPT ![i] = f] \in [Id -> Edge] /\ Exits([N EXCEPT ![i] = f], q)
<1> DEFINE R == [N EXCEPT ![i] = f]
<1>1. R \in [Id -> Edge] /\ \A j \in Id : R[j] = IF j = i THEN f ELSE N[j]
  OBVIOUS
<1> HIDE DEF R
<1>2. ASSUME NEW j \in Id
      PROVE  /\ R[j].state \in {"none", "connecting", "open"}
             /\ R[j].state # "none" => R[j].id = j
             /\ ExitPart(R[j]) /\ (R[j].state = "open" => Flows(q, R[j]))
  <2>1. CASE j = i
    <3>1. R[j] = f
      BY <1>1, <2>1
    <3> QED
      BY <2>1, <3>1
  <2>2. CASE j # i
    <3>1. R[j] = N[j]
      BY <1>1, <2>2
    <3> QED
      BY <3>1 DEF Exits
  <2> QED
    BY <2>1, <2>2
<1>3. Exits(R, q)
  BY <1>2 DEF Exits
<1> QED
  BY <1>1, <1>3 DEF R

LEMMA ExitOne ==
    ASSUME IInv, NEW c \in Circ, NEW i \in Id, NEW f, NEW L, NEW M,
           \A j \in Id \ {i} : Keeps(link["client"][c], L, j) /\ Keeps(link["exit"][c], M, j),
           \A v \in View :
             Joined(i, v, FarOf(n_streams[c][i]), link["client"][c], link["exit"][c])
               => Joined(i, v, FarOf(f), L, M),
           Unused(i, FarOf(n_streams[c][i]), link["client"][c], link["exit"][c])
             => Unused(i, FarOf(f), L, M)
    PROVE  Streams(On("client", c), ap, half_streams[c], [n_streams[c] EXCEPT ![i] = f], L, M)
<1> DEFINE R == [n_streams[c] EXCEPT ![i] = f]
           ks == On("client", c)
           L0 == link["client"][c]
           M0 == link["exit"][c]
<1>1. n_streams[c] \in [Id -> Edge]
  BY CircuitNow
<1>2. \A j \in Id : R[j] = IF j = i THEN f ELSE n_streams[c][j]
  BY <1>1
<1>3. \A k \in ks : ViewOf(ap[k]) \in View
  BY ClientNow
<1> HIDE DEF R, ks, L0, M0
<1> SUFFICES ASSUME NEW j \in Id
             PROVE  Stream(j, {a \in ks : ap[a].id = j}, ap, half_streams[c][j],
                           FarOf(R[j]), L, M)
  BY DEF Streams, R, ks
<1> DEFINE at == {a \in ks : ap[a].id = j}
<1>4. Stream(j, at, ap, half_streams[c][j], FarOf(n_streams[c][j]), L0, M0)
  BY StreamNow DEF ks, L0, M0
<1>5. CASE j = i
  <2>1. R[j] = f
    BY <1>2, <1>5
  <2>2. \A a \in at : ViewOf(ap[a]) \in View
    BY <1>3
  <2> HIDE DEF at
  <2>3. Stream(i, at, ap, half_streams[c][i], FarOf(f), L, M)
    BY <1>4, <1>5, <2>2, StreamMove DEF L0, M0
  <2> QED
    BY <1>5, <2>1, <2>3 DEF at
<1>6. CASE j # i
  <2>1. R[j] = n_streams[c][j]
    BY <1>2, <1>6
  <2>2. Keeps(L0, L, j) /\ Keeps(M0, M, j)
    BY <1>6 DEF L0, M0
  <2> HIDE DEF at
  <2>3. Stream(j, at, ap, half_streams[c][j], FarOf(n_streams[c][j]), L, M)
    BY <1>4, <2>2, StreamOther DEF SameFar
  <2> QED
    BY <2>1, <2>3 DEF at
<1> QED
  BY <1>5, <1>6

\* Cells of stream i at the end of a queue.
LEMMA SaysFacts ==
    ASSUME NEW q \in Seq(Cell), NEW i \in Id, NEW x \in Cell, x.id = i,
           x.cmd \notin {"DATA", "CIRC_SENDME"}, NEW n \in Nat
    PROVE  /\ <<x>> \in Seq(Cell) /\ Copies(n, x) \in Seq(Cell)
           /\ Plain(<<x>>) /\ Plain(Copies(n, x))
           /\ \A j \in Id \ {i} : /\ NoCell(<<x>>, j) /\ NoCell(Copies(n, x), j)
                                  /\ Keeps(q, q \o <<x>>, j) /\ Keeps(q, q \o Copies(n, x), j)
           /\ q \o <<x>> \in Seq(Cell) /\ q \o Copies(n, x) \in Seq(Cell)
<1> DEFINE r == Copies(n, x)
<1>1. /\ r \in Seq(Cell) /\ DOMAIN r = 1..n /\ \A k \in DOMAIN r : r[k] = x
  BY DEF Copies
<1>2. <<x>> \in Seq(Cell) /\ DOMAIN <<x>> = {1} /\ <<x>>[1] = x
  BY OneCell
<1> HIDE DEF r
<1> DEFINE o == <<x>>
<1>3. o \in Seq(Cell) /\ \A k \in DOMAIN o : o[k] = x
  BY <1>2
<1> HIDE DEF o
<1>4. Plain(o) /\ Plain(r)
  BY <1>1, <1>3 DEF Plain
<1>5. \A j \in Id \ {i} : NoCell(o, j) /\ NoCell(r, j)
  BY <1>1, <1>3 DEF NoCell
<1>6. \A j \in Id \ {i} : Keeps(q, q \o o, j) /\ Keeps(q, q \o r, j)
  BY <1>1, <1>3, <1>5, KeepsConcat
<1>7. q \o o \in Seq(Cell) /\ q \o r \in Seq(Cell)
  BY <1>1, <1>3, ConcatFacts
<1> QED
  BY <1>1, <1>3, <1>4, <1>5, <1>6, <1>7 DEF o, r

\* The exit says something about stream i, which it has.
LEMMA ExitSpeaks ==
    ASSUME IInv, NEW c \in Circ, NEW i \in Id, NEW f \in Edge, NEW x \in Cell, x.id = i,
           x.cmd \notin {"DATA", "CIRC_SENDME"}, n_streams[c][i].state # "none",
           \A v \in View :
             Joined(i, v, FarOf(n_streams[c][i]), link["client"][c], link["exit"][c])
               => Joined(i, v, FarOf(f), link["client"][c], link["exit"][c] \o <<x>>),
           f.state \in {"none", "connecting", "open"}, f.state # "none" => f.id = i,
           ExitPart(f), f.state = "open" => Flows(package_window["exit"][c], f),
           ExitSays(c, [n_streams[c] EXCEPT ![i] = f], <<x>>), closes' \in 0..MaxCloses
    PROVE  IInv'
<1> DEFINE N == [n_streams[c] EXCEPT ![i] = f]
           L == link["client"][c]
           M == link["exit"][c]
           q == package_window["exit"][c]
<1>1. /\ L \in Seq(Cell) /\ M \in Seq(Cell) /\ n_streams[c] \in [Id -> Edge]
      /\ CircuitPart(c)
  BY CircuitNow
<1>2. /\ M \o <<x>> \in Seq(Cell) /\ <<x>> \in Seq(Cell) /\ Plain(<<x>>)
      /\ \A j \in Id \ {i} : Keeps(M, M \o <<x>>, j) /\ Keeps(L, L, j)
  BY <1>1, SaysFacts, KeepsSame
<1>3. ~Unused(i, FarOf(n_streams[c][i]), L, M)
  BY StreamNow DEF Unused
<1>4. Streams(On("client", c), ap, half_streams[c], N, L, M \o <<x>>)
  BY <1>2, <1>3, ExitOne
<1>5. N \in [Id -> Edge] /\ Exits(N, q)
  BY <1>1, ExitsOne DEF CircuitPart
<1>6. /\ Put(Seq(Cell), link, link', c, L, M \o <<x>>)
      /\ Put(0..CircStart, package_window, package_window', c, package_window["client"][c], q)
      /\ Put(0..CircStart, deliver_window, deliver_window', c, deliver_window["client"][c],
             deliver_window["exit"][c])
  <2>1. link' = [link EXCEPT !["exit"][c] = M \o <<x>>]
    BY DEF ExitSays
  <2>2. package_window' = package_window /\ deliver_window' = deliver_window
    BY DEF ExitSays
  <2>3. /\ link \in [End -> [Circ -> Seq(Cell)]]
        /\ package_window \in [End -> [Circ -> 0..CircStart]]
        /\ deliver_window \in [End -> [Circ -> 0..CircStart]]
        /\ \A e \in End : package_window[e][c] \in 0..CircStart
    BY DEF IInv, TypeOK
  <2> QED
    BY <1>1, <1>2, <2>1, <2>2, <2>3, PutFacts DEF End
<1>7. Links(package_window["client"][c], q, deliver_window["client"][c],
            deliver_window["exit"][c], L, M \o <<x>>)
  BY <1>1, <1>2, LinksPeer, LinksSay DEF CircuitPart
<1>8. /\ UNCHANGED <<ap, on_circuit, tried, half_streams, next_stream_id, unusable>>
      /\ refused' = refused /\ n_streams' = [n_streams EXCEPT ![c] = N]
  BY DEF ExitSays, id_vars
<1> QED
  BY <1>4, <1>5, <1>6, <1>7, <1>8, ExitStep

\* The exit is connected.
LEMMA InvFinishConnecting ==
    ASSUME IInv, NEW c \in Circ, NEW i \in Id, FinishConnecting(c, i), closes' \in 0..MaxCloses
    PROVE  IInv'
<1> DEFINE edge == n_streams[c][i]
           f == [edge EXCEPT !.state = "open", !.reading = TRUE]
           x == Message("CONNECTED", edge)
           y == FarOf(edge)
           z == FarOf(f)
<1>1. /\ edge \in Edge /\ EdgePart(edge) /\ edge.id = i /\ edge.state = "connecting"
      /\ y \in Far /\ y.state = edge.state
      /\ y.o = edge.conn /\ y.w = edge.package /\ y.d = edge.deliver
      /\ y.g = Len(edge.got) /\ y.s = SentOf(edge)
  BY StreamNow DEF FinishConnecting
<1>2. ExitPart(edge)
  BY CircuitNow DEF CircuitPart, Exits
<1>3. x \in Cell /\ x.id = i /\ x.cmd = "CONNECTED"
  BY <1>1, MessageFacts
<1> HIDE DEF edge, x, y
<1>4. /\ f \in Edge /\ f.state = "open" /\ f.reading = TRUE /\ f.conn = edge.conn
      /\ f.id = edge.id /\ f.in = edge.in /\ f.sending = edge.sending /\ f.got = edge.got
      /\ f.written = edge.written /\ f.out = edge.out /\ f.deliver = edge.deliver
      /\ f.package = edge.package
  BY <1>1 DEF Edge
<1> HIDE DEF f
<1>5. EdgePart(f) /\ SentOf(f) = SentOf(edge)
  BY <1>1, <1>4, SameData DEF EdgePart
<1>6. edge.written = 0 /\ edge.sending = <<>>
  BY <1>1, <1>2 DEF ExitPart
<1>7. f.in = <<>>
  <2>1. edge.in \in Seq(Conn \X Nat) /\ Len(edge.in) \in Nat /\ Len(edge.sending) \in Nat
    BY <1>1, EdgeType
  <2>2. Len(edge.in) = 0
    BY <1>1, <1>6, <2>1 DEF EdgePart
  <2>3. edge.in = <<>>
    BY <2>1, <2>2
  <2> QED
    BY <1>4, <2>3
<1>8. ExitPart(f) /\ Flows(package_window["exit"][c], f)
  BY <1>4, <1>5, <1>6, <1>7 DEF ExitPart, Flows
<1>9. /\ z \in Far /\ z.state = f.state /\ z.o = f.conn /\ z.w = f.package
      /\ z.d = f.deliver /\ z.g = Len(f.got) /\ z.s = SentOf(f)
  BY <1>4, <1>5, FarOfEdge
<1>10. link["client"][c] \in Seq(Cell) /\ link["exit"][c] \in Seq(Cell)
  BY CircuitNow
<1> HIDE DEF z
<1>11. \A v \in View : Joined(i, v, y, link["client"][c], link["exit"][c])
                         => Joined(i, v, z, link["client"][c], link["exit"][c] \o <<x>>)
  BY <1>1, <1>3, <1>4, <1>5, <1>9, <1>10, StepConnects
<1>12. [n_streams[c] EXCEPT ![i].state = "open", ![i].reading = TRUE]
         = [n_streams[c] EXCEPT ![i] = f]
  <2>1. n_streams[c] \in [Id -> Edge]
    BY CircuitNow
  <2> QED
    BY <2>1 DEF f, edge
<1>13. ExitSays(c, [n_streams[c] EXCEPT ![i] = f], <<x>>)
  BY <1>12 DEF FinishConnecting, x, edge
<1> QED
  BY <1>1, <1>3, <1>4, <1>8, <1>11, <1>13, ExitSpeaks DEF y, z, edge

\* The exit ends a stream that it has.
LEMMA ExitEnds ==
    ASSUME IInv, NEW c \in Circ, NEW i \in Id, n_streams[c][i].state # "none",
           NEW x \in Cell, x.id = i, x.cmd = "END",
           ExitSays(c, Gone(c, i), <<x>>), closes' \in 0..MaxCloses
    PROVE  IInv'
<1> DEFINE y == FarOf(n_streams[c][i])
           z == FarOf(NoStream)
<1>1. y \in Far /\ y.state # "none"
  BY StreamNow
<1>2. NoStream \in Edge /\ NoStream.state = "none" /\ ExitPart(NoStream) /\ z.state = "none"
  BY NoStreamFacts
<1>3. link["client"][c] \in Seq(Cell) /\ link["exit"][c] \in Seq(Cell)
  BY CircuitNow
<1> HIDE DEF y, z
<1>4. \A v \in View : Joined(i, v, y, link["client"][c], link["exit"][c])
                        => Joined(i, v, z, link["client"][c], link["exit"][c] \o <<x>>)
  BY <1>1, <1>2, <1>3, StepExitEnds
<1>5. ExitSays(c, [n_streams[c] EXCEPT ![i] = NoStream], <<x>>)
  BY DEF Gone
<1> QED
  BY <1>2, <1>4, <1>5, ExitSpeaks DEF y, z

LEMMA InvFailConnecting ==
    ASSUME IInv, NEW c \in Circ, NEW i \in Id, FailConnecting(c, i), closes' \in 0..MaxCloses
    PROVE  IInv'
<1> DEFINE edge == n_streams[c][i]
<1>1. edge \in Edge /\ edge.state = "connecting" /\ edge.id = i
  BY StreamNow DEF FailConnecting
<1>2. PICK b \in BOOLEAN : ExitSays(c, Gone(c, i), <<[Message("END", edge) EXCEPT !.retriable = b]>>)
  BY DEF FailConnecting
<1> DEFINE m == Message("END", edge)
           x == [m EXCEPT !.retriable = b]
<1>3. m \in Cell /\ m.id = i /\ m.cmd = "END"
  BY <1>1, MessageFacts
<1> HIDE DEF m
<1>4. x \in Cell /\ x.id = i /\ x.cmd = "END"
  BY <1>3 DEF Cell
<1>5. ExitSays(c, Gone(c, i), <<x>>)
  BY <1>2 DEF m
<1> HIDE DEF x
<1> QED
  BY <1>1, <1>4, <1>5, ExitEnds

LEMMA InvDestinationCloses ==
    ASSUME IInv, NEW c \in Circ, NEW i \in Id, DestinationCloses(c, i),
           closes' \in 0..MaxCloses
    PROVE  IInv'
<1> DEFINE edge == n_streams[c][i]
           x == Message("END", edge)
<1>1. edge \in Edge /\ edge.state = "open" /\ edge.id = i
  BY StreamNow DEF DestinationCloses
<1>2. x \in Cell /\ x.id = i /\ x.cmd = "END"
  BY <1>1, MessageFacts
<1>3. ExitSays(c, Gone(c, i), <<x>>)
  BY DEF DestinationCloses
<1> HIDE DEF x
<1> QED
  BY <1>1, <1>2, <1>3, ExitEnds

LEMMA LookupAtExit ==
    ASSUME IInv, NEW c \in Circ, NEW i \in Id
    PROVE  /\ On("exit", c) = {j \in Id : n_streams[c][j].state # "none"}
           /\ Edges("exit", c) = n_streams[c]
           /\ n_streams[c][i].state = "none" => Lookup("exit", c, i) = {}
           /\ n_streams[c][i].state # "none" => Lookup("exit", c, i) = {i}
<1>1. On("exit", c) = {j \in Id : n_streams[c][j].state # "none"}
  BY DEF On
<1>2. Edges("exit", c) = n_streams[c]
  BY DEF Edges
<1>3. \A j \in Id : n_streams[c][j].state # "none" => n_streams[c][j].id = j
  BY StreamNow
<1> QED
  BY <1>1, <1>2, <1>3 DEF Lookup

\* A cell arrives.
LEMMA ArrivesFacts ==
    ASSUME IInv, NEW c \in Circ
    PROVE  /\ \A cmd : Arrives("exit", c, cmd) =>
                link["client"][c] # <<>> /\ Head(link["client"][c]).cmd = cmd
           /\ First("exit", c) = Head(link["client"][c])
           /\ Rest("exit", c) = Tail(link["client"][c])
           /\ \A cmd : Arrives("client", c, cmd) =>
                link["exit"][c] # <<>> /\ Head(link["exit"][c]).cmd = cmd
           /\ First("client", c) = Head(link["exit"][c])
           /\ Rest("client", c) = Tail(link["exit"][c])
BY DEF Arrives, First, Rest, Peer

LEMMA HeadNamed ==
    ASSUME IInv, NEW c \in Circ
    PROVE  /\ link["client"][c] # <<>> /\ Head(link["client"][c]).cmd # "CIRC_SENDME" =>
                Head(link["client"][c]).id \in Id
           /\ link["exit"][c] # <<>> /\ Head(link["exit"][c]).cmd # "CIRC_SENDME" =>
                Head(link["exit"][c]).id \in Id
<1> DEFINE L == link["client"][c]
           M == link["exit"][c]
<1>1. L \in Seq(Cell) /\ M \in Seq(Cell) /\ Named(L) /\ Named(M)
  BY CircuitNow DEF CircuitPart, Links
<1> HIDE DEF L, M
<1>2. ASSUME NEW q \in Seq(Cell), Named(q), q # <<>>, Head(q).cmd # "CIRC_SENDME"
      PROVE  Head(q).id \in Id
  <2>1. Head(q) = q[1] /\ 1 \in DOMAIN q
    BY <1>2, TailFacts
  <2> QED
    BY <1>2, <2>1 DEF Named
<1> QED
  BY <1>1, <1>2 DEF L, M

\* The exit gets a cell of stream i that is for the stream alone.
LEMMA ExitHears ==
    ASSUME IInv, NEW c \in Circ, NEW i \in Id, NEW f \in Edge, link["client"][c] # <<>>,
           Head(link["client"][c]).id = i,
           Head(link["client"][c]).cmd \notin {"DATA", "CIRC_SENDME"},
           \A v \in View :
             Joined(i, v, FarOf(n_streams[c][i]), link["client"][c], link["exit"][c])
               => Joined(i, v, FarOf(f), Tail(link["client"][c]), link["exit"][c]),
           Unused(i, FarOf(n_streams[c][i]), link["client"][c], link["exit"][c])
               => Unused(i, FarOf(f), Tail(link["client"][c]), link["exit"][c]),
           f.state \in {"none", "connecting", "open"}, f.state # "none" => f.id = i,
           ExitPart(f), f.state = "open" => Flows(package_window["exit"][c], f),
           n_streams' = [n_streams EXCEPT ![c] = [n_streams[c] EXCEPT ![i] = f]],
           link' = [link EXCEPT !["client"][c] = Tail(link["client"][c])],
           UNCHANGED <<ap, on_circuit, tried, id_vars, package_window, deliver_window>>,
           refused' = refused, closes' \in 0..MaxCloses
    PROVE  IInv'
<1> DEFINE N == [n_streams[c] EXCEPT ![i] = f]
           L == link["client"][c]
           M == link["exit"][c]
           q == package_window["exit"][c]
<1>1. /\ L \in Seq(Cell) /\ M \in Seq(Cell) /\ n_streams[c] \in [Id -> Edge]
      /\ CircuitPart(c)
  BY CircuitNow
<1>2. /\ Tail(L) \in Seq(Cell)
      /\ \A j \in Id \ {i} : Keeps(M, M, j) /\ Keeps(L, Tail(L), j)
  BY <1>1, TailHas, KeepsTail, KeepsSame
<1>3. Streams(On("client", c), ap, half_streams[c], N, Tail(L), M)
  BY <1>2, ExitOne
<1>4. N \in [Id -> Edge] /\ Exits(N, q)
  BY <1>1, ExitsOne DEF CircuitPart
<1>5. /\ Put(Seq(Cell), link, link', c, Tail(L), M)
      /\ Put(0..CircStart, package_window, package_window', c, package_window["client"][c], q)
      /\ Put(0..CircStart, deliver_window, deliver_window', c, deliver_window["client"][c],
             deliver_window["exit"][c])
  <2>1. package_window' = package_window /\ deliver_window' = deliver_window
    OBVIOUS
  <2>2. /\ link \in [End -> [Circ -> Seq(Cell)]]
        /\ package_window \in [End -> [Circ -> 0..CircStart]]
        /\ deliver_window \in [End -> [Circ -> 0..CircStart]]
        /\ \A e \in End : package_window[e][c] \in 0..CircStart
    BY DEF IInv, TypeOK
  <2>3. "client" \in End /\ "exit" \in End
    BY DEF End
  <2>4. Put(Seq(Cell), link, link', c, Tail(L), M)
    BY <1>1, <1>2, <2>2, PutFacts
  <2>5. /\ Put(0..CircStart, package_window, package_window, c, package_window["client"][c], q)
        /\ Put(0..CircStart, deliver_window, deliver_window, c, deliver_window["client"][c],
               deliver_window["exit"][c])
    BY <2>2, <2>3, PutFacts
  <2> QED
    BY <2>1, <2>4, <2>5
<1>6. Links(package_window["client"][c], q, deliver_window["client"][c],
            deliver_window["exit"][c], Tail(L), M)
  BY <1>1, LinksPeer, LinksHear DEF CircuitPart
<1>7. UNCHANGED <<ap, on_circuit, tried, half_streams, next_stream_id, unusable>>
  BY DEF id_vars
<1> QED
  BY <1>3, <1>4, <1>5, <1>6, <1>7, ExitStep

LEMMA InvReceiveBegin ==
    ASSUME IInv, NEW c \in Circ, ReceiveBegin(c), closes' \in 0..MaxCloses
    PROVE  IInv'
<1> DEFINE L == link["client"][c]
           M == link["exit"][c]
           x == Head(L)
           i == x.id
           y == FarOf(n_streams[c][i])
<1>1. /\ L # <<>> /\ x.cmd = "BEGIN" /\ First("exit", c) = x /\ Rest("exit", c) = Tail(L)
  BY ArrivesFacts DEF ReceiveBegin
<1>2. L \in Seq(Cell) /\ M \in Seq(Cell) /\ CircuitPart(c)
  BY CircuitNow
<1>3. i \in Id
  BY <1>1, HeadNamed
<1>4. x \in Cell /\ Has(L, i, "BEGIN")
  <2> HIDE DEF L
  <2>1. Head(L) \in Cell /\ Has(L, Head(L).id, Head(L).cmd)
    BY <1>1, <1>2, TailHas
  <2> QED
    BY <1>1, <2>1
<1>5. /\ Stream(i, {a \in On("client", c) : ap[a].id = i}, ap, half_streams[c][i], y, L, M)
      /\ y \in Far /\ y.state = n_streams[c][i].state
  BY <1>3, StreamNow
<1> DEFINE o == x.conn
<1>6. o \in Conn /\ "connecting" \in EdgeState /\ i \in {0} \cup Id
  BY <1>3, <1>4 DEF Cell, EdgeState
<1> DEFINE new == NewEdge("connecting", o, i)
           f == [new EXCEPT !.reading = FALSE]
           z == FarOf(f)
<1> HIDE DEF o, i
<1>7. /\ new \in Edge /\ new.state = "connecting" /\ new.conn = o /\ new.id = i
      /\ new.package = StreamStart /\ new.deliver = StreamStart
      /\ new.sending = <<>> /\ Len(new.got) = 0 /\ new.written = 0 /\ SentOf(new) = 0
      /\ EdgePart(new)
  <2>1. Fresh(new, "connecting", o, i)
    BY <1>6, NewEdgeFacts
  <2> QED
    BY <2>1 DEF Fresh
<1> HIDE DEF new
<1>8. /\ f \in Edge /\ f.state = "connecting" /\ f.conn = o /\ f.id = i
      /\ f.package = StreamStart /\ f.deliver = StreamStart
      /\ f.sending = <<>> /\ f.written = 0
      /\ Len(f.got) = 0 /\ SentOf(f) = 0 /\ EdgePart(f)
  BY <1>7, Asleep
<1>9. /\ z \in Far /\ z.state = "connecting" /\ z.o = o /\ z.w = StreamStart
      /\ z.d = StreamStart /\ z.g = 0 /\ z.s = 0
  BY <1>8, FarOfEdge
<1> DEFINE at == {a \in On("client", c) : ap[a].id = i}
<1>10. \A a \in at : ViewOf(ap[a]) \in View
  BY ClientNow
<1> HIDE DEF y, z, f, at, L, M
<1>11. \E v \in View : Joined(i, v, y, L, M)
  BY <1>4, <1>5, <1>10, StreamUser DEF at
<1>12. \A v \in View : Joined(i, v, y, L, M) => y.state = "none" /\ Joined(i, v, z, Tail(L), M)
  BY <1>1, <1>2, <1>5, <1>9, StepBeginArrives DEF i, o
<1>13. ~Unused(i, y, L, M)
  BY <1>4 DEF Unused
<1>14. n_streams[c][i].state = "none"
  BY <1>5, <1>11, <1>12
<1>15. Lookup("exit", c, i) = {}
  BY <1>3, <1>14, LookupAtExit
<1>16. /\ n_streams' = [n_streams EXCEPT ![c][i] = f] /\ refused' = refused
       /\ link' = [link EXCEPT !["client"][c] = Tail(L)]
       /\ UNCHANGED <<ap, on_circuit, tried, id_vars, package_window, deliver_window>>
  BY <1>1, <1>15 DEF ReceiveBegin, f, new, i, o
<1>17. n_streams' = [n_streams EXCEPT ![c] = [n_streams[c] EXCEPT ![i] = f]]
  BY <1>16 DEF IInv, TypeOK
<1>18. ExitPart(f)
  BY <1>8 DEF ExitPart
<1> QED
  BY <1>1, <1>3, <1>8, <1>12, <1>13, <1>16, <1>17, <1>18, ExitHears DEF L, M, i, y, z

LEMMA InvReceiveEndAtExit ==
    ASSUME IInv, NEW c \in Circ, ReceiveEndAtExit(c), closes' \in 0..MaxCloses
    PROVE  IInv'
<1> DEFINE L == link["client"][c]
           M == link["exit"][c]
           i == Head(L).id
           edge == n_streams[c][i]
           y == FarOf(edge)
<1>1. /\ L # <<>> /\ Head(L).cmd = "END" /\ First("exit", c) = Head(L)
      /\ Rest("exit", c) = Tail(L)
  BY ArrivesFacts DEF ReceiveEndAtExit
<1>2. /\ L \in Seq(Cell) /\ M \in Seq(Cell) /\ CircuitPart(c)
      /\ n_streams[c] \in [Id -> Edge] /\ n_streams \in [Circ -> [Id -> Edge]]
  BY CircuitNow DEF IInv, TypeOK
<1>3. i \in Id
  BY <1>1, HeadNamed
<1>4. /\ y \in Far /\ y.state = edge.state /\ edge \in Edge
      /\ edge.state # "none" => edge.id = i
  BY <1>3, StreamNow
<1>5. /\ link' = [link EXCEPT !["client"][c] = Tail(L)] /\ refused' = refused
      /\ UNCHANGED <<ap, on_circuit, tried, id_vars, package_window, deliver_window>>
  BY <1>1 DEF ReceiveEndAtExit
<1>6. n_streams' = [n_streams EXCEPT ![c] =
                      [j \in Id |-> IF j \in Lookup("exit", c, i) THEN Gone(c, j)[j]
                                    ELSE n_streams[c][j]]]
  BY <1>1, <1>2 DEF ReceiveEndAtExit
<1>7. CASE edge.state = "none"
  <2>1. Lookup("exit", c, i) = {}
    BY <1>3, <1>7, LookupAtExit
  <2>2. [j \in Id |-> IF j \in Lookup("exit", c, i) THEN Gone(c, j)[j] ELSE n_streams[c][j]]
          = [n_streams[c] EXCEPT ![i] = edge]
    BY <1>2, <1>3, <2>1
  <2>3. n_streams' = [n_streams EXCEPT ![c] = [n_streams[c] EXCEPT ![i] = edge]]
    BY <1>6, <2>2
  <2>4. ExitPart(edge)
    BY <1>2, <1>3 DEF CircuitPart, Exits
  <2> HIDE DEF y, i, L, M
  <2>5. \A v : Joined(i, v, y, L, M) => Joined(i, v, y, Tail(L), M)
    BY <1>1, <1>2, <1>4, <1>7, StepDropped DEF i
  <2>6. Unused(i, y, L, M) => Unused(i, y, Tail(L), M)
    BY <1>1, <1>2, StepDroppedUnused
  <2> QED
    BY <1>1, <1>3, <1>4, <1>5, <1>7, <2>3, <2>4, <2>5, <2>6, ExitHears DEF L, M, i, y
<1>8. CASE edge.state # "none"
  <2>1. Lookup("exit", c, i) = {i}
    BY <1>3, <1>8, LookupAtExit
  <2>2. [j \in Id |-> IF j \in Lookup("exit", c, i) THEN Gone(c, j)[j] ELSE n_streams[c][j]]
          = [n_streams[c] EXCEPT ![i] = NoStream]
    BY <1>2, <1>3, <2>1 DEF Gone
  <2>3. n_streams' = [n_streams EXCEPT ![c] = [n_streams[c] EXCEPT ![i] = NoStream]]
    BY <1>6, <2>2
  <2> DEFINE z == FarOf(NoStream)
  <2>4. NoStream \in Edge /\ NoStream.state = "none" /\ ExitPart(NoStream) /\ z.state = "none"
    BY NoStreamFacts
  <2> HIDE DEF y, z, i, L, M
  <2>5. \A v \in View : Joined(i, v, y, L, M) => Joined(i, v, z, Tail(L), M)
    BY <1>1, <1>2, <1>4, <1>8, <2>4, StepEndArrives DEF i
  <2>6. ~Unused(i, y, L, M)
    BY <1>4, <1>8 DEF Unused
  <2> QED
    BY <1>1, <1>3, <1>5, <2>3, <2>4, <2>5, <2>6, ExitHears DEF L, M, i, y, z
<1> QED
  BY <1>7, <1>8

\* The SENDMEs due for an edge.
LEMMA SendmesDueFacts ==
    ASSUME NEW edge \in Edge
    PROVE  LET s == SendmesDue(edge)
           IN  /\ s \in Nat /\ s * StreamInc \in Nat
               /\ edge.deliver + s * StreamInc <= StreamStart
               /\ edge.out = 0 => edge.deliver + s * StreamInc > StreamStart - StreamInc
<1> DEFINE d == edge.deliver
           n == Due(StreamStart, StreamInc, d)
<1>1. d \in Nat /\ d <= StreamStart /\ edge.out \in Nat
  BY EdgeType
<1>2. /\ n \in Nat /\ n * StreamInc \in Nat /\ d + n * StreamInc <= StreamStart
      /\ d + n * StreamInc > StreamStart - StreamInc
  BY <1>1, DueFacts, Sizes
<1>3. 0 * StreamInc = 0
  BY Sizes, Times
<1>4. SendmesDue(edge) = IF edge.out > OutbufLimit THEN 0 ELSE n
  BY DEF SendmesDue
<1> HIDE DEF n, d
<1>5. CASE edge.out > OutbufLimit
  <2>1. SendmesDue(edge) = 0 /\ edge.out # 0
    BY <1>1, <1>4, <1>5, Sizes
  <2> QED
    BY <1>1, <1>3, <2>1 DEF d
<1>6. CASE ~(edge.out > OutbufLimit)
  <2>1. SendmesDue(edge) = n
    BY <1>4, <1>6
  <2> QED
    BY <1>2, <2>1 DEF d
<1> QED
  BY <1>5, <1>6

\* An edge f is edge after it acknowledged s increments.
Acks(f, edge, s) ==
    /\ f \in Edge /\ f.state = edge.state /\ f.conn = edge.conn /\ f.id = edge.id
    /\ f.package = edge.package /\ f.deliver = edge.deliver + s * StreamInc
    /\ f.in = edge.in /\ f.sending = edge.sending /\ f.pending = edge.pending
    /\ f.out = edge.out /\ f.got = edge.got /\ f.written = edge.written
    /\ f.reading = edge.reading

LEMMA AcksFacts ==
    ASSUME NEW edge \in Edge, NEW s \in Nat, edge.deliver + s * StreamInc <= StreamStart
    PROVE  Acks([edge EXCEPT !.deliver = @ + s * StreamInc], edge, s)
<1> DEFINE p == edge.deliver + s * StreamInc
           f == [edge EXCEPT !.deliver = p]
<1>1. s * StreamInc \in Nat /\ edge.deliver \in Nat
  BY EdgeType, Sizes, Times
<1>2. p \in 0..StreamStart
  BY <1>1, Sizes
<1> HIDE DEF p
<1>3. /\ f \in Edge /\ f.state = edge.state /\ f.conn = edge.conn /\ f.id = edge.id
      /\ f.package = edge.package /\ f.deliver = p
      /\ f.in = edge.in /\ f.sending = edge.sending /\ f.pending = edge.pending
      /\ f.out = edge.out /\ f.got = edge.got /\ f.written = edge.written
      /\ f.reading = edge.reading
  BY <1>2 DEF Edge
<1> HIDE DEF f
<1>4. f = [edge EXCEPT !.deliver = @ + s * StreamInc]
  BY DEF f, p
<1> QED
  BY <1>3, <1>4 DEF Acks, p

\* An edge after it got the next cell of its data, and before the SENDMEs for it.
Gets(f, edge) ==
    /\ f \in Edge /\ f.state = edge.state /\ f.conn = edge.conn /\ f.id = edge.id
    /\ f.package = edge.package /\ f.deliver = edge.deliver - 1
    /\ f.in = edge.in /\ f.sending = edge.sending /\ f.pending = edge.pending
    /\ f.out = edge.out + 1 /\ f.got = Append(edge.got, Data(edge.conn, Len(edge.got) + 1))
    /\ f.written = edge.written /\ f.reading = edge.reading

LEMMA GetsFacts ==
    ASSUME NEW edge \in Edge, edge.deliver >= 1
    PROVE  Gets([edge EXCEPT !.deliver = @ - 1, !.out = @ + 1,
                             !.got = Append(@, Data(edge.conn, Len(edge.got) + 1))], edge)
<1> DEFINE g == Append(edge.got, Data(edge.conn, Len(edge.got) + 1))
           d == edge.deliver - 1
           o == edge.out + 1
           f == [edge EXCEPT !.deliver = d, !.out = o, !.got = g]
<1>1. /\ edge.got \in Seq(Conn \X Nat) /\ Len(edge.got) \in Nat /\ edge.conn \in Conn
      /\ edge.deliver \in Nat /\ edge.deliver <= StreamStart /\ edge.out \in Nat
  BY EdgeType
<1>2. Data(edge.conn, Len(edge.got) + 1) \in Conn \X Nat
  BY <1>1 DEF Data
<1>3. g \in Seq(Conn \X Nat) /\ d \in 0..StreamStart /\ o \in Nat
  BY <1>1, <1>2, Sizes
<1> HIDE DEF g, d, o
<1>4. /\ f \in Edge /\ f.state = edge.state /\ f.conn = edge.conn /\ f.id = edge.id
      /\ f.package = edge.package /\ f.deliver = d
      /\ f.in = edge.in /\ f.sending = edge.sending /\ f.pending = edge.pending
      /\ f.out = o /\ f.got = g /\ f.written = edge.written
      /\ f.reading = edge.reading
  BY <1>3 DEF Edge
<1> HIDE DEF f
<1>5. f = [edge EXCEPT !.deliver = @ - 1, !.out = @ + 1,
                       !.got = Append(@, Data(edge.conn, Len(edge.got) + 1))]
  BY DEF f, d, o, g
<1> QED
  BY <1>4, <1>5 DEF Gets, d, o, g

\* Whatever the edge then acknowledges, it keeps its part.
LEMMA GotFacts ==
    ASSUME NEW edge \in Edge, EdgePart(edge), NEW g, Gets(g, edge), NEW s \in Nat, NEW f,
           Acks(f, g, s)
    PROVE  /\ EdgePart(g) /\ EdgePart(f) /\ SentOf(g) = SentOf(edge) /\ SentOf(f) = SentOf(edge)
           /\ Len(g.got) = Len(edge.got) + 1 /\ Len(f.got) = Len(edge.got) + 1
           /\ ExitPart(edge) => ExitPart(f)
           /\ ClientPart(edge) /\ edge.state = "open" => ClientPart(f)
           /\ \A w : Flows(w, edge) => Flows(w, f)
<1>1. /\ edge.got \in Seq(Conn \X Nat) /\ Len(edge.got) \in Nat /\ edge.out \in Nat
      /\ edge.conn \in Conn
  BY EdgeType
<1> DEFINE q == edge.got
           x == Data(edge.conn, Len(q) + 1)
           t == Append(q, x)
<1>2. x \in Conn \X Nat
  BY <1>1 DEF Data
<1>3. Len(t) = Len(q) + 1 /\ \A j \in 1..Len(t) : t[j] = Data(edge.conn, j)
  <2>1. \A j \in 1..Len(q) : q[j] = Data(edge.conn, j)
    BY DEF EdgePart
  <2> HIDE DEF x
  <2>2. Len(t) = Len(q) + 1 /\ (\A j \in 1..Len(q) : t[j] = q[j]) /\ t[Len(q) + 1] = x
    BY <1>1, <1>2
  <2> QED
    BY <1>1, <2>1, <2>2 DEF x
<1>4. g.got = t /\ f.got = t
  BY DEF Gets, Acks
<1> HIDE DEF x, t, q
<1>5. EdgePart(g)
  <2>1. g \in Edge /\ g.conn = edge.conn /\ g.in = edge.in /\ g.sending = edge.sending
        /\ g.written = edge.written /\ g.out = edge.out + 1
    BY DEF Gets
  <2>2. g.out # 0
    BY <1>1, <2>1
  <2>3. \A j \in 1..Len(g.got) : g.got[j] = Data(g.conn, j)
    BY <1>3, <1>4, <2>1
  <2> QED
    BY <2>1, <2>2, <2>3, SameInput
<1>6. EdgePart(f)
  <2>1. f \in Edge /\ f.conn = edge.conn /\ f.in = edge.in /\ f.sending = edge.sending
        /\ f.written = edge.written /\ f.out = edge.out + 1
    BY DEF Gets, Acks
  <2>2. f.out # 0
    BY <1>1, <2>1
  <2>3. \A j \in 1..Len(f.got) : f.got[j] = Data(f.conn, j)
    BY <1>3, <1>4, <2>1
  <2> QED
    BY <2>1, <2>2, <2>3, SameInput
<1>7. SentOf(g) = SentOf(edge) /\ SentOf(f) = SentOf(edge)
  BY DEF SentOf, Gets, Acks
<1>8. ExitPart(edge) => ExitPart(f)
  BY <1>6 DEF ExitPart, Gets, Acks
<1>9. ClientPart(edge) /\ edge.state = "open" => ClientPart(f)
  BY <1>6 DEF ClientPart, Gets, Acks
<1>10. \A w : Flows(w, edge) => Flows(w, f)
  BY DEF Flows, Gets, Acks
<1> QED
  BY <1>3, <1>4, <1>5, <1>6, <1>7, <1>8, <1>9, <1>10 DEF q

\* A cell leaves an outbuf.
LEMMA FlushedFacts ==
    ASSUME NEW edge \in Edge, EdgePart(edge), edge.out > 0
    PROVE  LET f == Flushed(edge).edge
               s == Flushed(edge).sendmes
           IN  /\ s \in Nat /\ f \in Edge /\ f.state = edge.state /\ f.conn = edge.conn
               /\ f.id = edge.id /\ f.package = edge.package
               /\ f.deliver = edge.deliver + s * StreamInc
               /\ f.got = edge.got /\ EdgePart(f) /\ SentOf(f) = SentOf(edge)
               /\ f.sending = edge.sending
               /\ ExitPart(edge) => ExitPart(f)
               /\ ClientPart(edge) /\ edge.state = "open" => ClientPart(f)
               /\ \A w : Flows(w, edge) => Flows(w, f)
<1> DEFINE o == edge.out - 1
           g == [edge EXCEPT !.out = o]
           s == SendmesDue(g)
           f == [g EXCEPT !.deliver = @ + s * StreamInc]
<1>1. edge.out \in Nat
  BY EdgeType
<1>2. o \in Nat
  BY <1>1
<1>3. /\ g \in Edge /\ g.state = edge.state /\ g.conn = edge.conn /\ g.id = edge.id
      /\ g.package = edge.package /\ g.deliver = edge.deliver
      /\ g.in = edge.in /\ g.sending = edge.sending /\ g.pending = edge.pending
      /\ g.out = o /\ g.got = edge.got /\ g.written = edge.written
      /\ g.reading = edge.reading
  <2> HIDE DEF o
  <2> QED
    BY <1>2 DEF Edge
<1>4. g = [edge EXCEPT !.out = @ - 1]
  OBVIOUS
<1> HIDE DEF g
<1>5. /\ s \in Nat /\ g.deliver + s * StreamInc <= StreamStart
      /\ g.out = 0 => g.deliver + s * StreamInc > StreamStart - StreamInc
  BY <1>3, SendmesDueFacts
<1>6. Flushed(edge).edge = f /\ Flushed(edge).sendmes = s
  BY <1>4 DEF Flushed
<1> HIDE DEF s
<1>7. Acks(f, g, s)
  BY <1>3, <1>5, AcksFacts
<1> HIDE DEF f
<1>8. /\ f \in Edge /\ f.state = edge.state /\ f.conn = edge.conn /\ f.id = edge.id
      /\ f.package = edge.package /\ f.deliver = edge.deliver + s * StreamInc
      /\ f.in = edge.in /\ f.sending = edge.sending /\ f.pending = edge.pending
      /\ f.got = edge.got /\ f.written = edge.written /\ f.reading = edge.reading
      /\ f.out = 0 => f.deliver > StreamStart - StreamInc
  BY <1>3, <1>5, <1>7 DEF Acks
<1>9. EdgePart(f) /\ SentOf(f) = SentOf(edge)
  BY <1>8, SameData
<1>10. /\ ExitPart(edge) => ExitPart(f)
       /\ ClientPart(edge) /\ edge.state = "open" => ClientPart(f)
       /\ \A w : Flows(w, edge) => Flows(w, f)
  BY <1>8, <1>9 DEF ExitPart, ClientPart, Flows
<1> QED
  BY <1>5, <1>6, <1>8, <1>9, <1>10

\* The window of the circuit admits every data cell that arrives.
LEMMA DataInWindow ==
    ASSUME IInv, NEW e \in End, NEW c \in Circ, ReceiveData(e, c)
    PROVE  DeliverData(e, c)
<1>1. /\ CircuitPart(c) /\ deliver_window["client"][c] \in Nat
      /\ deliver_window["exit"][c] \in Nat
  BY CircuitNow DEF IInv, TypeOK, End
<1>2. deliver_window["client"][c] >= 1 /\ deliver_window["exit"][c] >= 1
  BY <1>1, Sizes DEF CircuitPart, Links
<1>3. ~(deliver_window[e][c] - 1 < 0)
  <2>1. CASE e = "client"
    BY <1>1, <1>2, <2>1
  <2>2. CASE e = "exit"
    BY <1>1, <1>2, <2>2
  <2> QED
    BY <2>1, <2>2 DEF End
<1> QED
  BY <1>3, Zenon DEF ReceiveData

\* Data arrives at the exit.
LEMMA InvReceiveDataAtExit ==
    ASSUME IInv, NEW c \in Circ, ReceiveData("exit", c), closes' \in 0..MaxCloses
    PROVE  IInv'
<1> DEFINE L == link["client"][c]
           M == link["exit"][c]
           i == Head(L).id
           edge == n_streams[c][i]
           y == FarOf(edge)
           d == deliver_window["exit"][c]
           n == Due(CircStart, CircInc, d - 1)
           M1 == M \o CircSendme(c, n)
           at == {a \in On("client", c) : ap[a].id = i}
           w == d - 1 + n * CircInc
<1>0. DeliverData("exit", c)
  BY DataInWindow DEF End
<1>1. /\ L # <<>> /\ Head(L).cmd = "DATA" /\ First("exit", c) = Head(L)
      /\ Rest("exit", c) = Tail(L)
  BY ArrivesFacts DEF ReceiveData
<1>2. /\ L \in Seq(Cell) /\ M \in Seq(Cell) /\ CircuitPart(c)
      /\ n_streams[c] \in [Id -> Edge] /\ n_streams \in [Circ -> [Id -> Edge]]
      /\ link \in [End -> [Circ -> Seq(Cell)]]
      /\ package_window \in [End -> [Circ -> 0..CircStart]]
      /\ deliver_window \in [End -> [Circ -> 0..CircStart]]
  BY CircuitNow DEF IInv, TypeOK
<1>3. i \in Id
  BY <1>1, HeadNamed
<1>4. /\ y \in Far /\ y.state = edge.state /\ edge \in Edge /\ EdgePart(edge)
      /\ y.o = edge.conn /\ y.w = edge.package /\ y.d = edge.deliver
      /\ y.g = Len(edge.got) /\ y.s = SentOf(edge)
      /\ edge.state # "none" => edge.id = i
      /\ Stream(i, at, ap, half_streams[c][i], y, L, M)
  BY <1>3, StreamNow
<1>5. "client" \in End /\ "exit" \in End /\ Peer("exit") = "client"
  BY DEF End, Peer
<1>6. /\ d \in Nat /\ d <= CircStart /\ package_window["client"][c] \in Nat
      /\ package_window["exit"][c] \in 0..CircStart
  BY <1>2, <1>5, CircuitNow
<1>7. /\ n \in Nat /\ w \in 0..CircStart
      /\ Links(package_window["client"][c], package_window["exit"][c],
               deliver_window["client"][c], w, Tail(L), M1)
  <2>1. Links(package_window["exit"][c], package_window["client"][c],
              d, deliver_window["client"][c], M, L)
    BY <1>2, LinksPeer DEF CircuitPart
  <2>2. /\ n \in Nat /\ w \in 0..CircStart
        /\ Links(package_window["exit"][c], package_window["client"][c],
                 w, deliver_window["client"][c], M1, Tail(L))
    BY <1>1, <1>2, <1>6, <2>1, LinksData
  <2> QED
    BY <2>2, LinksPeer
<1>8. /\ deliver_window' = [deliver_window EXCEPT !["exit"][c] = w]
      /\ UNCHANGED <<on_circuit, tried, next_stream_id, unusable, package_window>>
  BY <1>0 DEF DeliverData
<1>9. /\ Put(0..CircStart, deliver_window, deliver_window', c, deliver_window["client"][c], w)
      /\ Put(0..CircStart, package_window, package_window', c, package_window["client"][c],
             package_window["exit"][c])
  <2>1. package_window' = package_window
    BY <1>8
  <2> HIDE DEF w
  <2>2. Put(0..CircStart, deliver_window, deliver_window', c, deliver_window["client"][c], w)
    BY <1>2, <1>7, <1>8, PutFacts
  <2>3. Put(0..CircStart, package_window, package_window, c, package_window["client"][c],
             package_window["exit"][c])
    BY <1>2, <1>6, PutFacts
  <2> QED
    BY <2>1, <2>2, <2>3
<1>10. /\ M1 \in Seq(Cell) /\ \A j \in Id : Keeps(M, M1, j)
  <2>1. CircSendme(c, n) \in Seq(Cell) /\ \A j \in Id : NoCell(CircSendme(c, n), j)
    BY <1>7, CircSendmeFacts
  <2> QED
    BY <1>2, <2>1, KeepsConcat, ConcatFacts
<1>11. Tail(L) \in Seq(Cell) /\ \A j \in Id \ {i} : Keeps(L, Tail(L), j)
  BY <1>1, <1>2, TailHas, KeepsTail
<1>12. \A z, v : Joined(i, v, z, Tail(L), M) => Joined(i, v, z, Tail(L), M1)
  BY <1>3, <1>10, KeepsSame, JoinedKeeps DEF SameFar
<1>13. Exits(n_streams[c], package_window["exit"][c])
  BY <1>2 DEF CircuitPart
<1>14. CASE edge.state = "none"
  <2>1. Lookup("exit", c, i) = {}
    BY <1>3, <1>14, LookupAtExit
  <2>2. /\ link' = [link EXCEPT !["exit"][c] = M1, !["client"][c] = Tail(L)]
        /\ UNCHANGED <<ap, n_streams, half_streams, refused>>
    BY <1>1, <1>5, <1>0, <2>1 DEF DeliverData, Unattached
  <2> HIDE DEF y, i, L, M, M1, w, at
  <2>3. \A v \in View : Joined(i, v, y, L, M) => Joined(i, v, y, Tail(L), M1)
    BY <1>1, <1>2, <1>4, <1>12, <1>14, StepDropped DEF i
  <2>4. Unused(i, y, L, M) => Unused(i, y, Tail(L), M1)
    <3>1. Unused(i, y, L, M) => Unused(i, y, Tail(L), M)
      BY <1>1, <1>2, StepDroppedUnused
    <3> QED
      BY <1>3, <1>10, <3>1, KeepsSame, UnusedKeeps DEF SameFar
  <2>5. Streams(On("client", c), ap, half_streams[c], [n_streams[c] EXCEPT ![i] = edge],
                Tail(L), M1)
    BY <1>3, <1>10, <1>11, <2>3, <2>4, ExitOne DEF y, L, M
  <2>6. /\ [n_streams[c] EXCEPT ![i] = edge] = n_streams[c]
        /\ n_streams' = [n_streams EXCEPT ![c] = n_streams[c]]
    BY <1>2, <1>3, <2>2
  <2>7. Put(Seq(Cell), link, link', c, Tail(L), M1)
    BY <1>2, <1>10, <1>11, <2>2, PutFacts
  <2> QED
    BY <1>2, <1>7, <1>8, <1>9, <1>13, <2>2, <2>5, <2>6, <2>7, ExitStep
<1>15. CASE edge.state # "none"
  <2> DEFINE x == Head(L)
             g == [edge EXCEPT !.deliver = @ - 1, !.out = @ + 1,
                               !.got = Append(@, Data(x.conn, x.n))]
             s == IF g.state = "open" THEN SendmesDue(g) ELSE 0
             f == [g EXCEPT !.deliver = @ + s * StreamInc]
             r == Copies(s, Message("SENDME", g))
             M2 == M1 \o r
  <2>1. Lookup("exit", c, i) = {i}
    BY <1>3, <1>15, LookupAtExit
  <2>2. \A a \in at : ViewOf(ap[a]) \in View
    BY ClientNow
  <2> HIDE DEF at
  <2>3. PICK v0 \in View : Joined(i, v0, y, L, M)
    BY <1>4, <1>15, <2>2, StreamUser
  <2>4. \A v \in View : Joined(i, v, y, L, M) =>
          /\ x.conn = y.o /\ x.n = y.g + 1 /\ y.d >= 1
          /\ \A z \in Far :
                /\ z.state = y.state /\ z.o = y.o /\ z.w = y.w /\ z.s = y.s
                /\ z.d = y.d - 1 /\ z.g = y.g + 1
                => Joined(i, v, z, Tail(L), M)
    <3> HIDE DEF y, L, M
    <3> QED
      BY <1>1, <1>2, <1>4, <1>15, StepExitGets
  <2>5. x.conn = edge.conn /\ x.n = Len(edge.got) + 1 /\ edge.deliver >= 1
    BY <1>4, <2>3, <2>4
  <2>6. Gets(g, edge)
    <3>1. g = [edge EXCEPT !.deliver = @ - 1, !.out = @ + 1,
                           !.got = Append(@, Data(edge.conn, Len(edge.got) + 1))]
      BY <2>5
    <3> HIDE DEF edge
    <3> QED
      BY <1>4, <2>5, <3>1, GetsFacts
  <2>7. edge.state \in {"connecting", "open"}
    BY <1>3, <1>13, <1>15 DEF Exits
  <2> HIDE DEF g
  <2>8. g \in Edge /\ g.state = edge.state /\ g.deliver \in Nat
    BY <2>6, EdgeType DEF Gets
  <2>9. /\ n_streams' = [n_streams EXCEPT ![c] = [n_streams[c] EXCEPT ![i] = f]]
        /\ link' = [link EXCEPT !["client"][c] = Tail(L), !["exit"][c] = M2]
        /\ UNCHANGED <<ap, half_streams, refused>>
    <3>1. ~(edge.state = "connect_wait" \/ g.deliver < 0)
      BY <2>7, <2>8
    <3>2. Edges("exit", c) = n_streams[c]
      BY DEF Edges
    <3>3. First("exit", c).id = i
      BY <1>1
    <3>4. /\ SetEdges("exit", c, [n_streams[c] EXCEPT ![i] = f])
          /\ link' = [link EXCEPT ![Peer("exit")][c] = Rest("exit", c), !["exit"][c] = M2]
          /\ UNCHANGED <<half_streams, refused>>
      <4> HIDE DEF f
      <4> QED
        BY <1>1, <1>5, <2>1, <3>1, <3>2, <3>3, <1>0 DEF DeliverData, f, g
    <3> HIDE DEF f, M2
    <3> QED
      BY <1>1, <1>5, <3>4 DEF SetEdges
  <2> HIDE DEF x
  <2>10. /\ s \in Nat /\ g.deliver + s * StreamInc <= StreamStart
         /\ edge.state = "connecting" => s = 0
    <3>1. g \in Edge /\ g.state = edge.state /\ g.deliver <= StreamStart /\ g.deliver \in Nat
      BY <2>6, EdgeType DEF Gets
    <3>2. CASE g.state = "open"
      BY <3>1, <3>2, SendmesDueFacts
    <3>3. CASE g.state # "open"
      <4>1. s = 0 /\ 0 * StreamInc = 0
        BY <3>3, Sizes, Times
      <4> QED
        BY <3>1, <4>1
    <3> QED
      BY <3>2, <3>3
  <2> HIDE DEF s
  <2>11. g \in Edge /\ Acks(f, g, s)
    BY <2>6, <2>10, AcksFacts DEF Gets
  <2> HIDE DEF f
  <2>12. /\ EdgePart(g) /\ EdgePart(f) /\ SentOf(g) = SentOf(edge) /\ SentOf(f) = SentOf(edge)
         /\ Len(g.got) = Len(edge.got) + 1 /\ Len(f.got) = Len(edge.got) + 1
         /\ ExitPart(edge) => ExitPart(f)
         /\ \A u : Flows(u, edge) => Flows(u, f)
    BY <1>4, <2>6, <2>10, <2>11, GotFacts
  <2>13. /\ f \in Edge /\ f.state = edge.state /\ f.id = i /\ ExitPart(f)
         /\ f.state = "open" => Flows(package_window["exit"][c], f)
    <3>1. /\ ExitPart(edge) /\ edge.id = i
          /\ edge.state = "open" => Flows(package_window["exit"][c], edge)
      BY <1>3, <1>13, <1>15 DEF Exits
    <3>2. f \in Edge /\ f.state = edge.state /\ f.id = edge.id
      BY <2>6, <2>11 DEF Gets, Acks
    <3> HIDE DEF edge
    <3> QED
      BY <2>12, <3>1, <3>2
  <2> DEFINE z1 == FarOf(g)
             z == FarOf(f)
             m == Message("SENDME", g)
  <2>14. m \in Cell /\ m.cmd = "SENDME" /\ m.id = i
    BY <1>4, <1>15, <2>6, <2>11, MessageFacts DEF Gets
  <2>15. /\ z1 \in Far /\ z1.state = y.state /\ z1.o = y.o /\ z1.w = y.w /\ z1.s = y.s
         /\ z1.d = y.d - 1 /\ z1.g = y.g + 1 /\ z1.d = g.deliver
    BY <1>4, <2>6, <2>7, <2>11, <2>12, FarOfEdge DEF Gets
  <2>16. /\ z \in Far /\ z.state = z1.state /\ z.o = z1.o /\ z.w = z1.w /\ z.s = z1.s
         /\ z.d = z1.d + s * StreamInc /\ z.g = z1.g
    <3>1. /\ z \in Far /\ z.state = f.state /\ z.o = f.conn /\ z.w = f.package
          /\ z.d = f.deliver /\ z.g = Len(f.got) /\ z.s = SentOf(f)
      BY <2>7, <2>12, <2>13, FarOfEdge
    <3>2. /\ z1.state = g.state /\ z1.o = g.conn /\ z1.w = g.package
          /\ z1.d = g.deliver /\ z1.g = Len(g.got) /\ z1.s = SentOf(g)
      BY <2>7, <2>8, <2>12, FarOfEdge
    <3> HIDE DEF z, z1
    <3> QED
      BY <2>11, <2>12, <3>1, <3>2 DEF Acks
  <2>17. /\ M2 \in Seq(Cell) /\ r \in Seq(Cell) /\ Plain(r)
         /\ \A j \in Id \ {i} : Keeps(M1, M2, j)
    BY <1>3, <1>10, <2>10, <2>14, SaysFacts
  <2> HIDE DEF y, i, L, M, M1, M2, z, z1, w
  <2>18. \A v \in View : Joined(i, v, y, L, M) => Joined(i, v, z1, Tail(L), M1)
    BY <1>12, <2>4, <2>15
  <2>19. \A v \in View : Joined(i, v, z1, Tail(L), M1) => Joined(i, v, z, Tail(L), M2)
    <3>1. CASE edge.state = "open"
      <4>1. z1.state = "open"
        BY <1>4, <2>15, <3>1
      <4> HIDE DEF m
      <4> QED
        BY <1>10, <1>11, <2>10, <2>14, <2>15, <2>16, <4>1, StepExitAcks DEF M2, m
    <3>2. CASE edge.state = "connecting"
      <4>1. s = 0
        BY <2>10, <3>2
      <4>2. NoCell(r, i)
        BY <4>1 DEF NoCell, Copies
      <4>3. Keeps(M1, M2, i)
        BY <1>10, <2>17, <4>2, KeepsConcat DEF M2
      <4>4. z = z1
        <5>1. z.d = z1.d
          BY <2>15, <2>16, <4>1, Sizes, Times, FarType
        <5> QED
          BY <2>15, <2>16, <5>1 DEF Far
      <4> QED
        BY <4>3, <4>4, KeepsSame, JoinedKeeps DEF SameFar
    <3> QED
      BY <2>7, <3>1, <3>2
  <2>20. ~Unused(i, y, L, M)
    BY <1>4, <1>15 DEF Unused
  <2>21. \A j \in Id \ {i} : Keeps(M, M2, j)
    BY <1>10, <2>17 DEF Keeps
  <2>22. Streams(On("client", c), ap, half_streams[c], [n_streams[c] EXCEPT ![i] = f],
                 Tail(L), M2)
    BY <1>3, <1>11, <2>18, <2>19, <2>20, <2>21, ExitOne DEF y, z, L, M
  <2>23. /\ [n_streams[c] EXCEPT ![i] = f] \in [Id -> Edge]
         /\ Exits([n_streams[c] EXCEPT ![i] = f], package_window["exit"][c])
    BY <1>2, <1>3, <1>13, <2>7, <2>13, ExitsOne
  <2>24. Links(package_window["client"][c], package_window["exit"][c],
               deliver_window["client"][c], w, Tail(L), M2)
    BY <1>7, <1>10, <1>11, <2>17, LinksPeer, LinksSay DEF M2
  <2>25. Put(Seq(Cell), link, link', c, Tail(L), M2)
    BY <1>2, <1>11, <2>9, <2>17, PutFacts
  <2> QED
    BY <1>8, <1>9, <2>9, <2>22, <2>23, <2>24, <2>25, ExitStep
<1> QED
  BY <1>14, <1>15

\* The exit sends data, after a step that gave it the edges E, the window q and the cells
\* L still to come.
LEMMA ExitTurn ==
    ASSUME IInv, NEW c \in Circ, NEW E \in [Id -> Edge], Exits(E, 0), NEW L \in Seq(Cell),
           NEW q \in Nat, q <= CircStart,
           Streams(On("client", c), ap, half_streams[c], E, L, link["exit"][c]),
           Links(package_window["client"][c], q, deliver_window["client"][c],
                 deliver_window["exit"][c], L, link["exit"][c]),
           NEW r \in Seq(Cell), NEW left \in Nat, left = q - Len(r), NEW F \in [Id -> Edge],
           Sends({i \in Id : E[i].state # "none"}, E, F, r),
           \A i \in Id : E[i].state = "open" => Flows(left, F[i]),
           n_streams' = [n_streams EXCEPT ![c] = F],
           package_window' = [package_window EXCEPT !["exit"][c] = left],
           link' = [link EXCEPT !["exit"][c] = link["exit"][c] \o r, !["client"][c] = L],
           UNCHANGED <<ap, on_circuit, tried, half_streams, next_stream_id, unusable,
                       deliver_window>>,
           refused' = refused, closes' \in 0..MaxCloses
    PROVE  IInv'
<1> DEFINE M == link["exit"][c]
<1>1. /\ M \in Seq(Cell) /\ deliver_window["client"][c] \in Nat
      /\ link \in [End -> [Circ -> Seq(Cell)]]
      /\ package_window \in [End -> [Circ -> 0..CircStart]]
      /\ deliver_window \in [End -> [Circ -> 0..CircStart]]
      /\ "client" \in End /\ "exit" \in End
  BY CircuitNow DEF IInv, TypeOK, End
<1>2. On("client", c) \in SUBSET Conn /\ ap \in [Conn -> Edge]
      /\ \A k \in On("client", c) : EdgePart(ap[k])
  BY ClientNow
<1>3. Streams(On("client", c), ap, half_streams[c], F, L, M \o r)
  BY <1>1, <1>2, ExitSendsAll
<1>4. Exits(F, left)
  BY ExitsSend
<1>5. AllData(r) /\ \A k \in DOMAIN r : r[k].id \in Id
  <2>1. AllData(r) /\ \A j \in DOMAIN r : \E k \in {i \in Id : E[i].state # "none"} :
          r[j].id = E[k].id
    BY DEF Sends
  <2>2. \A k \in Id : E[k].state # "none" => E[k].id = k
    BY DEF Exits
  <2> QED
    BY <2>1, <2>2
<1>6. Links(package_window["client"][c], left, deliver_window["client"][c],
            deliver_window["exit"][c], L, M \o r)
  BY <1>1, <1>5, LinksPeer, LinksSend
<1>7. M \o r \in Seq(Cell) /\ left \in 0..CircStart
  BY <1>1, ConcatFacts, Sizes
<1>8. Put(Seq(Cell), link, link', c, L, M \o r)
  BY <1>1, <1>7, PutFacts
<1>9. Put(0..CircStart, package_window, package_window', c, package_window["client"][c], left)
  BY <1>1, <1>7, PutFacts
<1>10. Put(0..CircStart, deliver_window, deliver_window', c, deliver_window["client"][c],
           deliver_window["exit"][c])
  <2>1. Put(0..CircStart, deliver_window, deliver_window, c, deliver_window["client"][c],
            deliver_window["exit"][c])
    BY <1>1, <1>7, PutFacts
  <2> QED
    BY <2>1
<1> QED
  BY <1>3, <1>4, <1>6, <1>8, <1>9, <1>10, ExitStep

\* One edge of the exit is changed to f, which sends.
LEMMA ExitPackages ==
    ASSUME IInv, NEW c \in Circ, NEW k \in Id, NEW f \in Edge, n_streams[c][k].state = "open",
           f.state = "open", f.id = k, ExitPart(f), f.reading, NEW L \in Seq(Cell),
           Streams(On("client", c), ap, half_streams[c], [n_streams[c] EXCEPT ![k] = f],
                   L, link["exit"][c]),
           Links(package_window["client"][c], package_window["exit"][c],
                 deliver_window["client"][c], deliver_window["exit"][c], L, link["exit"][c]),
           Apply("exit", c,
                 Packaged(k, On("exit", c), [n_streams[c] EXCEPT ![k] = f],
                          package_window["exit"][c], link["exit"][c]), L),
           UNCHANGED <<on_circuit, tried, half_streams, next_stream_id, unusable,
                       deliver_window>>,
           refused' = refused, closes' \in 0..MaxCloses
    PROVE  IInv'
<1> DEFINE E == [n_streams[c] EXCEPT ![k] = f]
           q == package_window["exit"][c]
           M == link["exit"][c]
           ks == {i \in Id : E[i].state # "none"}
           P == Packaged(k, ks, E, q, M)
<1>1. /\ n_streams[c] \in [Id -> Edge] /\ CircuitPart(c) /\ q \in Nat /\ q <= CircStart
      /\ M \in Seq(Cell)
  BY CircuitNow DEF End
<1>2. E \in [Id -> Edge] /\ \A i \in Id : E[i] = IF i = k THEN f ELSE n_streams[c][i]
  BY <1>1
<1>3. Exits(n_streams[c], q)
  BY <1>1 DEF CircuitPart
<1>4. Exits(n_streams[c], 0)
  BY <1>3 DEF Exits, Flows
<1>5. Exits(E, 0)
  BY <1>1, <1>4, ExitsOne DEF Flows
<1>6. On("exit", c) = ks
  <2>1. On("exit", c) = {i \in Id : n_streams[c][i].state # "none"}
    BY LookupAtExit
  <2> HIDE DEF E
  <2> QED
    BY <1>2, <2>1
<1>7. k \in ks /\ ks \subseteq Id /\ E[k] = f
  BY <1>2
<1>8. Apart(ks, E) /\ \A j \in ks : EdgePart(E[j])
  BY <1>5 DEF Apart, Exits, ExitPart
<1> HIDE DEF E, q, M, ks
<1>9. \E r \in Seq(Cell) : Packed(P, Id, k, ks, E, q, M, r)
  BY <1>1, <1>2, <1>7, <1>8, PackagedFacts
<1> HIDE DEF P
<1>10. PICK r \in Seq(Cell) :
        /\ P.queue = M \o r /\ P.window \in Nat /\ P.window = q - Len(r)
        /\ P.edges \in [Id -> Edge] /\ Sends(ks, E, P.edges, r)
        /\ \A j \in ks : j # k /\ Flows(q, E[j]) => Flows(P.window, P.edges[j])
        /\ (q > 0 /\ E[k].package > 0 => E[k].reading) => Flows(P.window, P.edges[k])
  BY <1>9 DEF Packed
<1>11. \A i \in Id : E[i].state = "open" => Flows(P.window, P.edges[i])
  <2>1. Flows(P.window, P.edges[k])
    BY <1>7, <1>10
  <2>2. ASSUME NEW i \in Id, i # k, E[i].state = "open" PROVE Flows(P.window, P.edges[i])
    <3>1. E[i] = n_streams[c][i] /\ i \in ks
      BY <1>2, <2>2 DEF ks
    <3>2. Flows(q, E[i])
      BY <1>3, <2>2, <3>1 DEF Exits
    <3> QED
      BY <1>10, <2>2, <3>1, <3>2
  <2> QED
    BY <2>1, <2>2
<1>12. /\ n_streams' = [n_streams EXCEPT ![c] = P.edges] /\ ap' = ap
       /\ package_window' = [package_window EXCEPT !["exit"][c] = P.window]
       /\ link' = [link EXCEPT !["exit"][c] = M \o r, !["client"][c] = L]
  <2>1. Apply("exit", c, P, L)
    BY <1>6 DEF P, E, q, M
  <2> QED
    BY <1>10, <2>1 DEF Apply, SetEdges, Peer
<1>13. /\ Streams(On("client", c), ap, half_streams[c], E, L, link["exit"][c])
       /\ Links(package_window["client"][c], q, deliver_window["client"][c],
                deliver_window["exit"][c], L, link["exit"][c])
  BY DEF E, q
<1>14. Sends({i \in Id : E[i].state # "none"}, E, P.edges, r)
  BY <1>10 DEF ks
<1>15. UNCHANGED <<ap, on_circuit, tried, half_streams, next_stream_id, unusable,
                   deliver_window>>
  BY <1>12
<1> DEFINE left == P.window
           F == P.edges
<1>16. left \in Nat /\ left = q - Len(r) /\ F \in [Id -> Edge]
  BY <1>10
<1> HIDE DEF left, F
<1>17. Sends({i \in Id : E[i].state # "none"}, E, F, r)
  BY <1>14 DEF F
<1>18. \A i \in Id : E[i].state = "open" => Flows(left, F[i])
  BY <1>11 DEF left, F
<1>19. /\ n_streams' = [n_streams EXCEPT ![c] = F]
       /\ package_window' = [package_window EXCEPT !["exit"][c] = left]
       /\ link' = [link EXCEPT !["exit"][c] = link["exit"][c] \o r, !["client"][c] = L]
  BY <1>12 DEF F, left, M
<1> QED
  BY <1>1, <1>2, <1>5, <1>13, <1>15, <1>16, <1>17, <1>18, <1>19, ExitTurn

\* Data is read into an inbuf.
LEMMA WrittenFacts ==
    ASSUME NEW edge \in Edge, EdgePart(edge)
    PROVE  LET f == Written(edge)
           IN  /\ f \in Edge /\ f.state = edge.state /\ f.conn = edge.conn /\ f.id = edge.id
               /\ f.package = edge.package /\ f.deliver = edge.deliver /\ f.got = edge.got
               /\ f.sending = edge.sending /\ f.reading = edge.reading
               /\ EdgePart(f) /\ SentOf(f) = SentOf(edge)
               /\ ExitPart(edge) /\ edge.state # "connecting" => ExitPart(f)
               /\ ClientPart(edge) => ClientPart(f)
<1> DEFINE q == edge.in
           x == Data(edge.conn, edge.written + 1)
           t == Append(q, x)
           w == edge.written + 1
           f == [edge EXCEPT !.written = w, !.in = t]
<1>1. /\ q \in Seq(Conn \X Nat) /\ Len(q) \in Nat /\ edge.written \in Nat
      /\ edge.conn \in Conn /\ Len(edge.sending) \in Nat /\ edge.out \in Nat
      /\ edge.deliver \in Nat /\ Len(edge.pending) \in Nat
  BY EdgeType
<1>2. x \in Conn \X Nat /\ w \in Nat
  BY <1>1 DEF Data
<1>3. Written(edge) = f
  BY DEF Written
<1> HIDE DEF x, q
<1>4. /\ t \in Seq(Conn \X Nat) /\ Len(t) = Len(q) + 1
      /\ (\A j \in 1..Len(q) : t[j] = q[j]) /\ t[Len(q) + 1] = x
  BY <1>1, <1>2
<1> HIDE DEF t
<1>5. /\ f \in Edge /\ f.state = edge.state /\ f.conn = edge.conn /\ f.id = edge.id
      /\ f.package = edge.package /\ f.deliver = edge.deliver /\ f.got = edge.got
      /\ f.sending = edge.sending /\ f.reading = edge.reading /\ f.out = edge.out
      /\ f.pending = edge.pending /\ f.in = t /\ f.written = w
  <2> HIDE DEF w
  <2> QED
    BY <1>2, <1>4 DEF Edge
<1> HIDE DEF f
<1>6. SentOf(f) = SentOf(edge)
  <2> DEFINE l == Len(edge.in)
             m == Len(edge.sending)
             n == edge.written
  <2>1. SentOf(edge) = n - l - m /\ SentOf(f) = (n + 1) - (l + 1) - m
    BY <1>4, <1>5 DEF SentOf, q
  <2>2. l \in Nat /\ m \in Nat /\ n \in Nat
    BY <1>1 DEF q
  <2> HIDE DEF l, m, n
  <2> QED
    BY <2>1, <2>2
<1>10. w >= Len(t) + Len(edge.sending) /\ w - Len(t) = edge.written - Len(q)
  <2> DEFINE l == Len(q)
             m == Len(edge.sending)
             n == edge.written
  <2>1. n >= l + m
    BY DEF EdgePart, q
  <2>2. l \in Nat /\ m \in Nat /\ n \in Nat /\ w = n + 1 /\ Len(t) = l + 1
    BY <1>1, <1>4
  <2> HIDE DEF l, m, n, w
  <2>3. w >= Len(t) + m /\ w - Len(t) = n - l
    BY <2>1, <2>2
  <2> QED
    BY <2>3 DEF l, m, n
<1>7. EdgePart(f)
  <2>1. /\ edge.written >= Len(q) + Len(edge.sending)
        /\ \A j \in 1..Len(q) : q[j] = Data(edge.conn, edge.written - Len(q) + j)
        /\ \A j \in 1..Len(edge.sending) : edge.sending[j] = Data(edge.conn, SentOf(edge) + j)
        /\ \A j \in 1..Len(edge.got) : edge.got[j] = Data(edge.conn, j)
        /\ edge.out = 0 => edge.deliver > StreamStart - StreamInc
    BY DEF EdgePart, q
  <2>2. w >= Len(t) + Len(edge.sending) /\ w - Len(t) = edge.written - Len(q)
    BY <1>10
  <2>3. ASSUME NEW j \in 1..Len(t) PROVE t[j] = Data(edge.conn, w - Len(t) + j)
    <3>1. CASE j \in 1..Len(q)
      BY <1>4, <2>1, <2>2, <3>1
    <3>2. CASE j = Len(q) + 1
      <4>1. w - Len(t) + j = edge.written + 1
        BY <1>1, <1>4, <3>2
      <4> QED
        BY <1>4, <3>2, <4>1 DEF x
    <3> QED
      BY <1>1, <1>4, <3>1, <3>2
  <2> QED
    BY <1>5, <1>6, <2>1, <2>2, <2>3 DEF EdgePart
<1>8. ExitPart(edge) /\ edge.state # "connecting" => ExitPart(f)
  BY <1>5, <1>7 DEF ExitPart
<1>9. ClientPart(edge) => ClientPart(f)
  <2>1. f.written - Len(f.in) = edge.written - Len(edge.in)
    BY <1>5, <1>10 DEF q
  <2> QED
    BY <1>5, <1>7, <2>1 DEF ClientPart
<1> QED
  BY <1>3, <1>5, <1>6, <1>7, <1>8, <1>9

LEMMA InvProcessInbufAtExit ==
    ASSUME IInv, NEW c \in Circ, NEW k, ProcessInbuf("exit", c, k), closes' \in 0..MaxCloses
    PROVE  IInv'
<1> DEFINE edge == n_streams[c][k]
           f == Written(edge)
           L == link["client"][c]
           M == link["exit"][c]
<1>1. /\ k \in On("exit", c) /\ edge.reading /\ edge.state # "connecting"
      /\ Edges("exit", c) = n_streams[c]
  BY DEF ProcessInbuf, Edges
<1>2. k \in Id /\ edge.state # "none"
  BY <1>1 DEF On
<1>3. /\ CircuitPart(c) /\ L \in Seq(Cell) /\ M \in Seq(Cell)
      /\ n_streams[c] \in [Id -> Edge]
  BY CircuitNow
<1>4. /\ edge \in Edge /\ EdgePart(edge) /\ ExitPart(edge) /\ edge.state = "open"
      /\ edge.id = k
  BY <1>1, <1>2, <1>3, StreamNow DEF CircuitPart, Exits
<1>5. /\ f \in Edge /\ f.state = edge.state /\ f.conn = edge.conn /\ f.id = edge.id
      /\ f.package = edge.package /\ f.deliver = edge.deliver /\ f.got = edge.got
      /\ f.reading = edge.reading /\ SentOf(f) = SentOf(edge) /\ ExitPart(f)
  <2> HIDE DEF edge
  <2> QED
    BY <1>4, WrittenFacts
<1>6. Apply("exit", c, Packaged(k, On("exit", c), [n_streams[c] EXCEPT ![k] = f],
                                package_window["exit"][c], M), L)
  <2>1. [n_streams[c] EXCEPT ![k] = Written(@)] = [n_streams[c] EXCEPT ![k] = f]
    OBVIOUS
  <2> QED
    BY <1>1, <1>4, <2>1 DEF ProcessInbuf, Peer
<1>7. FarOf(f) = FarOf(edge)
  BY <1>5 DEF FarOf
<1>8. Streams(On("client", c), ap, half_streams[c], [n_streams[c] EXCEPT ![k] = f], L, M)
  BY <1>2, <1>7, KeepsSame, ExitOne
<1>9. /\ UNCHANGED <<on_circuit, tried, half_streams, next_stream_id, unusable,
                     deliver_window>>
      /\ refused' = refused
  BY DEF ProcessInbuf, id_vars
<1>10. Links(package_window["client"][c], package_window["exit"][c],
             deliver_window["client"][c], deliver_window["exit"][c], L, M)
  BY <1>3 DEF CircuitPart
<1> HIDE DEF f
<1>11. f.reading /\ f.state = "open" /\ f.id = k
  BY <1>1, <1>4, <1>5
<1> QED
  BY <1>2, <1>3, <1>4, <1>5, <1>6, <1>8, <1>9, <1>10, <1>11, ExitPackages

\* An edge gets room for an increment, and reads.
LEMMA AckedFacts ==
    ASSUME NEW edge \in Edge, EdgePart(edge), edge.package + StreamInc <= StreamStart
    PROVE  LET f == [edge EXCEPT !.package = @ + StreamInc, !.reading = TRUE]
           IN  /\ f \in Edge /\ f.state = edge.state /\ f.conn = edge.conn /\ f.id = edge.id
               /\ f.package = edge.package + StreamInc /\ f.deliver = edge.deliver
               /\ f.got = edge.got /\ f.sending = edge.sending
               /\ f.reading = TRUE /\ EdgePart(f) /\ SentOf(f) = SentOf(edge)
               /\ ExitPart(edge) => ExitPart(f)
               /\ ClientPart(edge) => ClientPart(f)
<1> DEFINE p == edge.package + StreamInc
           f == [edge EXCEPT !.package = p, !.reading = TRUE]
<1>1. p \in 0..StreamStart
  BY EdgeType, Sizes
<1> HIDE DEF p
<1>2. /\ f \in Edge /\ f.state = edge.state /\ f.conn = edge.conn /\ f.id = edge.id
      /\ f.package = p /\ f.deliver = edge.deliver /\ f.got = edge.got
      /\ f.sending = edge.sending /\ f.reading = TRUE /\ f.out = edge.out
      /\ f.pending = edge.pending /\ f.in = edge.in /\ f.written = edge.written
  BY <1>1 DEF Edge
<1>3. f = [edge EXCEPT !.package = @ + StreamInc, !.reading = TRUE]
  BY DEF p
<1> HIDE DEF f
<1>4. EdgePart(f) /\ SentOf(f) = SentOf(edge)
  BY <1>2, SameData DEF EdgePart
<1>5. (ExitPart(edge) => ExitPart(f)) /\ (ClientPart(edge) => ClientPart(f))
  BY <1>2, <1>4 DEF ExitPart, ClientPart
<1> QED
  BY <1>2, <1>3, <1>4, <1>5 DEF p

LEMMA InvReceiveSendmeAtExit ==
    ASSUME IInv, NEW c \in Circ, ReceiveSendme("exit", c), closes' \in 0..MaxCloses
    PROVE  IInv'
<1> DEFINE L == link["client"][c]
           M == link["exit"][c]
           i == Head(L).id
           edge == n_streams[c][i]
           y == FarOf(edge)
           at == {a \in On("client", c) : ap[a].id = i}
<1>1. /\ L # <<>> /\ Head(L).cmd = "SENDME" /\ First("exit", c) = Head(L)
      /\ Rest("exit", c) = Tail(L)
  BY ArrivesFacts DEF ReceiveSendme
<1>2. /\ L \in Seq(Cell) /\ M \in Seq(Cell) /\ CircuitPart(c)
      /\ n_streams[c] \in [Id -> Edge] /\ n_streams \in [Circ -> [Id -> Edge]]
  BY CircuitNow DEF IInv, TypeOK
<1>3. i \in Id
  BY <1>1, HeadNamed
<1>4. /\ y \in Far /\ y.state = edge.state /\ edge \in Edge /\ EdgePart(edge)
      /\ y.o = edge.conn /\ y.w = edge.package /\ y.d = edge.deliver
      /\ y.g = Len(edge.got) /\ y.s = SentOf(edge)
      /\ edge.state # "none" => edge.id = i
      /\ Stream(i, at, ap, half_streams[c][i], y, L, M)
  BY <1>3, StreamNow
<1>5. ExitPart(edge)
  BY <1>2, <1>3 DEF CircuitPart, Exits
<1>6. /\ UNCHANGED <<on_circuit, tried, next_stream_id, unusable, deliver_window>>
      /\ Edges("exit", c) = n_streams[c] /\ Peer("exit") = "client"
  BY DEF ReceiveSendme, Edges, Peer
<1>7. CASE edge.state = "none"
  <2>1. Lookup("exit", c, i) = {}
    BY <1>3, <1>7, LookupAtExit
  <2>2. /\ link' = [link EXCEPT !["client"][c] = Tail(L)] /\ refused' = refused
        /\ UNCHANGED <<ap, n_streams, half_streams, package_window>>
    BY <1>1, <1>6, <2>1 DEF ReceiveSendme, Unattached
  <2>3. n_streams' = [n_streams EXCEPT ![c] = [n_streams[c] EXCEPT ![i] = edge]]
    BY <1>2, <1>3, <2>2
  <2>4. UNCHANGED <<ap, on_circuit, tried, id_vars, package_window, deliver_window>>
    BY <1>6, <2>2 DEF id_vars
  <2> HIDE DEF y, i, L, M
  <2>5. \A v : Joined(i, v, y, L, M) => Joined(i, v, y, Tail(L), M)
    BY <1>1, <1>2, <1>4, <1>7, StepDropped DEF i
  <2>6. Unused(i, y, L, M) => Unused(i, y, Tail(L), M)
    BY <1>1, <1>2, StepDroppedUnused
  <2> QED
    BY <1>1, <1>3, <1>4, <1>5, <1>7, <2>2, <2>3, <2>4, <2>5, <2>6, ExitHears DEF L, M, i, y
<1>8. CASE edge.state # "none"
  <2> DEFINE f == [edge EXCEPT !.package = @ + StreamInc, !.reading = TRUE]
             z == FarOf(f)
  <2>1. Lookup("exit", c, i) = {i}
    BY <1>3, <1>8, LookupAtExit
  <2>2. \A a \in at : ViewOf(ap[a]) \in View
    BY ClientNow
  <2> HIDE DEF at
  <2>3. PICK v0 \in View : Joined(i, v0, y, L, M)
    BY <1>4, <1>8, <2>2, StreamUser
  <2>4. \A v \in View : Joined(i, v, y, L, M) =>
          /\ y.state = "open" /\ y.w + StreamInc <= StreamStart
          /\ \A u \in Far :
                /\ u.state = y.state /\ u.o = y.o /\ u.w = y.w + StreamInc /\ u.s = y.s
                /\ u.d = y.d /\ u.g = y.g
                => Joined(i, v, u, Tail(L), M)
    <3> HIDE DEF y, L, M
    <3> QED
      BY <1>1, <1>2, <1>4, <1>8, StepExitAcked
  <2>5. edge.state = "open" /\ edge.package + StreamInc <= StreamStart
    BY <1>4, <2>3, <2>4
  <2>6. /\ f \in Edge /\ f.state = edge.state /\ f.conn = edge.conn /\ f.id = edge.id
        /\ f.package = edge.package + StreamInc /\ f.deliver = edge.deliver
        /\ f.got = edge.got /\ f.reading = TRUE /\ SentOf(f) = SentOf(edge)
        /\ EdgePart(f) /\ ExitPart(f)
    <3> HIDE DEF edge
    <3> QED
      BY <1>4, <1>5, <2>5, AckedFacts
  <2>7. Apply("exit", c, Packaged(i, On("exit", c), [n_streams[c] EXCEPT ![i] = f],
                                  package_window["exit"][c], M), Tail(L))
        /\ UNCHANGED <<half_streams, refused>>
    <3>1. ~(edge.state # "open" \/ edge.package + StreamInc > StreamStart)
      <4> DEFINE p == edge.package
      <4>1. p \in Nat /\ p + StreamInc <= StreamStart /\ edge.state = "open"
        BY <1>4, <2>5, EdgeType
      <4> HIDE DEF p
      <4>2. ~(p + StreamInc > StreamStart)
        BY <4>1, Sizes
      <4> QED
        BY <4>1, <4>2 DEF p
    <3>2. [n_streams[c] EXCEPT ![i].package = @ + StreamInc, ![i].reading = TRUE]
            = [n_streams[c] EXCEPT ![i] = f]
      BY <1>2, <1>3
    <3> HIDE DEF f
    <3>3. First("exit", c).id = i
      BY <1>1
    <3> QED
      BY <1>1, <1>6, <2>1, <3>1, <3>2, <3>3 DEF ReceiveSendme
  <2> HIDE DEF f
  <2>8. /\ z \in Far /\ z.state = y.state /\ z.o = y.o /\ z.w = y.w + StreamInc /\ z.s = y.s
        /\ z.d = y.d /\ z.g = y.g
    BY <1>4, <2>5, <2>6, FarOfEdge
  <2> HIDE DEF y, z, L, M, i
  <2>9. \A v \in View : Joined(i, v, y, L, M) => Joined(i, v, z, Tail(L), M)
    BY <2>4, <2>8
  <2>10. ~Unused(i, y, L, M)
    BY <1>4, <1>8 DEF Unused
  <2>11. Tail(L) \in Seq(Cell) /\ \A j \in Id \ {i} : Keeps(L, Tail(L), j) /\ Keeps(M, M, j)
    BY <1>1, <1>2, TailHas, KeepsTail, KeepsSame DEF i
  <2>12. Streams(On("client", c), ap, half_streams[c], [n_streams[c] EXCEPT ![i] = f],
                 Tail(L), M)
    BY <1>3, <2>9, <2>10, <2>11, ExitOne DEF y, z, L, M
  <2>13. Links(package_window["client"][c], package_window["exit"][c],
               deliver_window["client"][c], deliver_window["exit"][c], Tail(L), M)
    BY <1>1, <1>2, LinksPeer, LinksHear DEF CircuitPart, L, M
  <2>14. UNCHANGED <<on_circuit, tried, half_streams, next_stream_id, unusable,
                     deliver_window>>
         /\ refused' = refused
    BY <1>6, <2>7
  <2>15. f.id = i /\ f.state = "open" /\ f.reading
    BY <1>4, <1>8, <2>5, <2>6
  <2> QED
    BY <1>3, <2>5, <2>6, <2>7, <2>11, <2>12, <2>13, <2>14, <2>15, ExitPackages DEF M
<1> QED
  BY <1>7, <1>8

\* A SENDME for the circuit arrives at the exit.
LEMMA InvReceiveCircSendmeAtExit ==
    ASSUME IInv, NEW c \in Circ, ReceiveCircSendme("exit", c), closes' \in 0..MaxCloses
    PROVE  IInv'
<1> DEFINE L == link["client"][c]
           M == link["exit"][c]
           E == n_streams[c]
           q == package_window["exit"][c] + CircInc
           ks == {i \in Id : E[i].state # "none"}
<1>1. /\ L # <<>> /\ Head(L).cmd = "CIRC_SENDME" /\ Rest("exit", c) = Tail(L)
  BY ArrivesFacts DEF ReceiveCircSendme
<1>2. /\ L \in Seq(Cell) /\ M \in Seq(Cell) /\ CircuitPart(c) /\ E \in [Id -> Edge]
      /\ package_window["exit"][c] \in Nat /\ deliver_window["client"][c] \in Nat
      /\ deliver_window["client"][c] <= CircStart
  BY CircuitNow DEF End
<1>3. /\ q <= CircStart /\ q \in Nat
      /\ Links(package_window["client"][c], q, deliver_window["client"][c],
               deliver_window["exit"][c], Tail(L), M)
  <2>1. Links(package_window["exit"][c], package_window["client"][c],
              deliver_window["exit"][c], deliver_window["client"][c], M, L)
    BY <1>2, LinksPeer DEF CircuitPart
  <2>2. /\ q <= CircStart
        /\ Links(q, package_window["client"][c], deliver_window["exit"][c],
                 deliver_window["client"][c], M, Tail(L))
    BY <1>1, <1>2, <2>1, LinksAcked
  <2>3. q \in Nat
    BY <1>2, Sizes
  <2> HIDE DEF q
  <2> QED
    BY <2>2, <2>3, LinksPeer
<1>4. \A i \in Id : Head(L).id # i
  <2>1. Named(L)
    BY <1>2 DEF CircuitPart, Links
  <2>2. Head(L) = L[1] /\ 1 \in DOMAIN L
    BY <1>1, <1>2, TailFacts
  <2> QED
    BY <1>1, <2>1, <2>2 DEF Named
<1>5. Tail(L) \in Seq(Cell) /\ \A i \in Id : Keeps(L, Tail(L), i) /\ Keeps(M, M, i)
  BY <1>1, <1>2, <1>4, TailHas, KeepsTail, KeepsSame
<1>6. Streams(On("client", c), ap, half_streams[c], E, Tail(L), M)
  <2> SUFFICES ASSUME NEW i \in Id
               PROVE  Stream(i, {a \in On("client", c) : ap[a].id = i}, ap,
                             half_streams[c][i], FarOf(E[i]), Tail(L), M)
    BY DEF Streams
  <2> DEFINE at == {a \in On("client", c) : ap[a].id = i}
  <2>1. Stream(i, at, ap, half_streams[c][i], FarOf(E[i]), L, M)
    BY StreamNow
  <2> HIDE DEF at, L, M
  <2>2. Stream(i, at, ap, half_streams[c][i], FarOf(E[i]), Tail(L), M)
    BY <1>5, <2>1, StreamOther DEF SameFar
  <2> QED
    BY <2>2 DEF at
<1>7. Exits(E, 0) /\ Exits(E, package_window["exit"][c])
  <2>1. Exits(E, package_window["exit"][c])
    BY <1>2 DEF CircuitPart
  <2> QED
    BY <2>1 DEF Exits, Flows
<1>8. On("exit", c) = ks /\ Edges("exit", c) = E
  BY LookupAtExit DEF On, Edges
<1>9. ks \subseteq Id /\ Apart(ks, E) /\ \A j \in ks : EdgePart(E[j])
  BY <1>7 DEF Apart, Exits, ExitPart
<1>10. PICK P \in Resumed(ks, E, q, M) : Apply("exit", c, P, Tail(L))
  <2>1. ~(package_window["exit"][c] + CircInc > CircStart)
    BY <1>2, <1>3, Sizes
  <2> QED
    BY <1>1, <1>8, <2>1 DEF ReceiveCircSendme
<1>11. /\ UNCHANGED <<on_circuit, tried, half_streams, next_stream_id, unusable,
                      deliver_window>>
       /\ refused' = refused
  <2>1. ~(package_window["exit"][c] + CircInc > CircStart)
    BY <1>2, <1>3, Sizes
  <2> QED
    BY <2>1 DEF ReceiveCircSendme, id_vars
<1> HIDE DEF E, q, ks, M
<1>12. PICK r \in Seq(Cell) :
        /\ P.queue = M \o r /\ P.window \in Nat /\ P.window = q - Len(r)
        /\ P.edges \in [Id -> Edge] /\ Sends(ks, E, P.edges, r)
        /\ \A j \in ks : E[j].sending = <<>> => Flows(P.window, P.edges[j])
  BY <1>2, <1>3, <1>9, <1>10, ResumedFacts
<1>13. /\ n_streams' = [n_streams EXCEPT ![c] = P.edges] /\ ap' = ap
       /\ package_window' = [package_window EXCEPT !["exit"][c] = P.window]
       /\ link' = [link EXCEPT !["exit"][c] = M \o r, !["client"][c] = Tail(L)]
  BY <1>10, <1>12 DEF Apply, SetEdges, Peer
<1> DEFINE left == P.window
           F == P.edges
<1>14. left \in Nat /\ left = q - Len(r) /\ F \in [Id -> Edge]
  BY <1>12
<1>15. Sends({i \in Id : E[i].state # "none"}, E, F, r)
  BY <1>12 DEF ks
<1>16. \A i \in Id : E[i].state = "open" => Flows(left, F[i])
  BY <1>7, <1>12 DEF ks, Exits, ExitPart
<1>17. /\ n_streams' = [n_streams EXCEPT ![c] = F]
       /\ package_window' = [package_window EXCEPT !["exit"][c] = left]
       /\ link' = [link EXCEPT !["exit"][c] = link["exit"][c] \o r, !["client"][c] = Tail(L)]
  BY <1>13 DEF M
<1>18. UNCHANGED <<ap, on_circuit, tried, half_streams, next_stream_id, unusable,
                   deliver_window>>
  BY <1>11, <1>13
<1>19. /\ Streams(On("client", c), ap, half_streams[c], E, Tail(L), link["exit"][c])
       /\ Links(package_window["client"][c], q, deliver_window["client"][c],
                deliver_window["exit"][c], Tail(L), link["exit"][c])
  BY <1>3, <1>6 DEF M
<1> HIDE DEF left, F
<1> QED
  BY <1>2, <1>3, <1>5, <1>7, <1>11, <1>14, <1>15, <1>16, <1>17, <1>18, <1>19, ExitTurn

\* A cell leaves an outbuf at the exit.
LEMMA InvFlushAtExit ==
    ASSUME IInv, NEW c \in Circ, NEW k, Flush("exit", c, k), closes' \in 0..MaxCloses
    PROVE  IInv'
<1> DEFINE edge == n_streams[c][k]
           f == Flushed(edge).edge
           s == Flushed(edge).sendmes
           m == Message("SENDME", edge)
           r == Copies(s, m)
           L == link["client"][c]
           M == link["exit"][c]
           y == FarOf(edge)
           z == FarOf(f)
           q == package_window["exit"][c]
<1>1. /\ k \in On("exit", c) /\ edge.state = "open" /\ edge.out > 0
      /\ n_streams' = [n_streams EXCEPT ![c] = [n_streams[c] EXCEPT ![k] = f]] /\ ap' = ap
      /\ link' = [link EXCEPT !["exit"][c] = M \o r]
      /\ UNCHANGED <<on_circuit, tried, id_vars, package_window, deliver_window, refused>>
  BY DEF Flush, Edges, SetEdges
<1>2. k \in Id
  BY <1>1 DEF On
<1>3. /\ CircuitPart(c) /\ L \in Seq(Cell) /\ M \in Seq(Cell) /\ n_streams[c] \in [Id -> Edge]
      /\ link \in [End -> [Circ -> Seq(Cell)]]
      /\ package_window \in [End -> [Circ -> 0..CircStart]]
      /\ deliver_window \in [End -> [Circ -> 0..CircStart]]
  BY CircuitNow DEF IInv, TypeOK
<1>4. /\ edge \in Edge /\ EdgePart(edge) /\ edge.id = k /\ y \in Far /\ y.state = "open"
      /\ y.o = edge.conn /\ y.w = edge.package /\ y.d = edge.deliver
      /\ y.g = Len(edge.got) /\ y.s = SentOf(edge)
  BY <1>1, <1>2, StreamNow
<1>5. Exits(n_streams[c], q)
  BY <1>3 DEF CircuitPart
<1>6. ExitPart(edge) /\ Flows(q, edge)
  BY <1>1, <1>2, <1>5 DEF Exits
<1> HIDE DEF edge
<1>7. /\ s \in Nat /\ f \in Edge /\ f.state = edge.state /\ f.conn = edge.conn
      /\ f.id = edge.id /\ f.package = edge.package
      /\ f.deliver = edge.deliver + s * StreamInc
      /\ f.got = edge.got /\ EdgePart(f) /\ SentOf(f) = SentOf(edge)
      /\ ExitPart(f) /\ Flows(q, f)
  BY <1>1, <1>4, <1>6, FlushedFacts
<1> HIDE DEF f, s
<1>8. m \in Cell /\ m.cmd = "SENDME" /\ m.id = k
  BY <1>4, MessageFacts
<1>9. /\ z \in Far /\ z.state = y.state /\ z.o = y.o /\ z.w = y.w /\ z.s = y.s
      /\ z.d = y.d + s * StreamInc /\ z.g = y.g
  <2>1. /\ z \in Far /\ z.state = f.state /\ z.o = f.conn /\ z.w = f.package
        /\ z.d = f.deliver /\ z.g = Len(f.got) /\ z.s = SentOf(f)
    BY <1>1, <1>7, FarOfEdge
  <2> HIDE DEF z, y
  <2> QED
    BY <1>1, <1>4, <1>7, <2>1
<1>10. /\ M \o r \in Seq(Cell) /\ r \in Seq(Cell) /\ Plain(r)
       /\ \A j \in Id \ {k} : Keeps(M, M \o r, j) /\ Keeps(L, L, j)
  BY <1>2, <1>3, <1>7, <1>8, SaysFacts, KeepsSame
<1> HIDE DEF y, z, m, L, M
<1>11. \A v \in View : Joined(k, v, y, L, M) => Joined(k, v, z, L, M \o r)
  BY <1>3, <1>4, <1>7, <1>8, <1>9, StepExitAcks
<1>12. ~Unused(k, y, L, M)
  BY <1>4 DEF Unused
<1> DEFINE Q == M \o r
<1> HIDE DEF r, Q
<1>13. Streams(On("client", c), ap, half_streams[c], [n_streams[c] EXCEPT ![k] = f], L, Q)
  BY <1>2, <1>10, <1>11, <1>12, ExitOne DEF y, z, L, M, edge, Q
<1>14. /\ [n_streams[c] EXCEPT ![k] = f] \in [Id -> Edge]
       /\ Exits([n_streams[c] EXCEPT ![k] = f], q)
  BY <1>1, <1>2, <1>3, <1>4, <1>5, <1>7, ExitsOne
<1>15. Links(package_window["client"][c], q, deliver_window["client"][c],
             deliver_window["exit"][c], L, Q)
  BY <1>3, <1>10, LinksPeer, LinksSay DEF CircuitPart, L, M, Q
<1>16. Put(Seq(Cell), link, link', c, L, Q)
  BY <1>1, <1>3, <1>10, PutFacts DEF L, Q
<1>17. /\ Put(0..CircStart, package_window, package_window', c, package_window["client"][c], q)
       /\ Put(0..CircStart, deliver_window, deliver_window', c, deliver_window["client"][c],
              deliver_window["exit"][c])
  <2>1. package_window' = package_window /\ deliver_window' = deliver_window
    BY <1>1
  <2>2. package_window["exit"][c] \in 0..CircStart
    BY <1>3 DEF End
  <2>3. /\ Put(0..CircStart, package_window, package_window, c, package_window["client"][c], q)
        /\ Put(0..CircStart, deliver_window, deliver_window, c, deliver_window["client"][c],
              deliver_window["exit"][c])
    BY <1>3, <2>2, PutFacts
  <2> QED
    BY <2>1, <2>3
<1>18. UNCHANGED <<ap, on_circuit, tried, half_streams, next_stream_id, unusable>>
       /\ refused' = refused
  BY <1>1 DEF id_vars
<1>19. n_streams' = [n_streams EXCEPT ![c] = [n_streams[c] EXCEPT ![k] = f]]
  BY <1>1
<1> QED
  BY <1>13, <1>14, <1>15, <1>16, <1>17, <1>18, <1>19, ExitStep
=============================================================================
