-------------------------- MODULE StreamFlowProofs --------------------------
(***************************************************************************)
(* Proofs about StreamFlow, for any connections, circuits, windows, outbuf *)
(* limit and amount of data: no cell between honest ends is refused, each  *)
(* stream gets the data of its own connection, once and in order, also     *)
(* when an id is used again or a stream is retried, and a stream on its    *)
(* first circuit never stalls.                                             *)
(***************************************************************************)
EXTENDS StreamFlowInvariant

-----------------------------------------------------------------------------
(* Steps of the client.                                                    *)

LEMMA LookupAtClient ==
    ASSUME IInv, NEW c \in Circ, NEW i \in Id
    PROVE  /\ Edges("client", c) = ap
           /\ Lookup("client", c, i) = {a \in On("client", c) : ap[a].id = i}
           /\ \A a \in Lookup("client", c, i) :
                /\ a \in Conn /\ on_circuit[a] = c /\ ap[a].id = i
                /\ ap[a].state \in {"connect_wait", "open"}
                /\ Lookup("client", c, i) = {a} /\ ~half_streams[c][i].live
                /\ ap[a] \in Edge /\ EdgePart(ap[a]) /\ ClientPart(ap[a])
                /\ Joined(i, ViewOf(ap[a]), FarOf(n_streams[c][i]), link["client"][c],
                          link["exit"][c])
<1>1. Edges("client", c) = ap
  BY DEF Edges
<1>2. Lookup("client", c, i) = {a \in On("client", c) : ap[a].id = i}
  BY <1>1 DEF Lookup
<1>3. ASSUME NEW a \in Lookup("client", c, i)
      PROVE  /\ a \in Conn /\ on_circuit[a] = c /\ ap[a].id = i
             /\ ap[a].state \in {"connect_wait", "open"}
             /\ Lookup("client", c, i) = {a} /\ ~half_streams[c][i].live
             /\ ap[a] \in Edge /\ EdgePart(ap[a]) /\ ClientPart(ap[a])
             /\ Joined(i, ViewOf(ap[a]), FarOf(n_streams[c][i]), link["client"][c],
                       link["exit"][c])
  <2>1. a \in On("client", c) /\ ap[a].id = i
    BY <1>2, <1>3
  <2>2. /\ a \in Conn /\ on_circuit[a] = c /\ ap[a].state \in {"connect_wait", "open"}
        /\ ~half_streams[c][i].live /\ ap[a] \in Edge /\ EdgePart(ap[a])
        /\ Apart(On("client", c), ap)
    BY <2>1, ClientNow
  <2>3. Lookup("client", c, i) = {a}
    BY <1>2, <2>1, <2>2 DEF Apart
  <2>4. ClientPart(ap[a])
    BY <2>2 DEF IInv
  <2>5. Stream(i, {a}, ap, half_streams[c][i], FarOf(n_streams[c][i]), link["client"][c],
               link["exit"][c])
    BY <1>2, <2>3, StreamNow
  <2>6. Joined(i, ViewOf(ap[a]), FarOf(n_streams[c][i]), link["client"][c], link["exit"][c])
    BY <2>2, <2>5, StreamOne
  <2> QED
    BY <2>1, <2>2, <2>3, <2>4, <2>6
<1> QED
  BY <1>1, <1>2, <1>3

\* Only stream i of circuit c changes.
LEMMA ClientOne ==
    ASSUME IInv, NEW c \in Circ, NEW i \in Id, NEW ks, NEW B, NEW H, NEW L, NEW M,
           \A a \in On("client", c) : ap[a].id # i => a \in ks /\ B[a] = ap[a],
           \A a \in ks : B[a].id # i => a \in On("client", c) /\ B[a] = ap[a],
           \A j \in Id \ {i} : /\ H[j] = half_streams[c][j]
                               /\ Keeps(link["client"][c], L, j)
                               /\ Keeps(link["exit"][c], M, j),
           Stream(i, {a \in ks : B[a].id = i}, B, H[i], FarOf(n_streams[c][i]), L, M)
    PROVE  Streams(ks, B, H, n_streams[c], L, M)
<1> DEFINE L0 == link["client"][c]
           M0 == link["exit"][c]
           K == On("client", c)
<1> HIDE DEF L0, M0, K
<1> SUFFICES ASSUME NEW j \in Id
             PROVE  Stream(j, {a \in ks : B[a].id = j}, B, H[j], FarOf(n_streams[c][j]), L, M)
  BY DEF Streams
<1>1. CASE j = i
  BY <1>1
<1>2. CASE j # i
  <2> DEFINE at == {a \in K : ap[a].id = j}
  <2>1. Stream(j, at, ap, half_streams[c][j], FarOf(n_streams[c][j]), L0, M0)
    BY StreamNow DEF L0, M0, K
  <2>2. {a \in ks : B[a].id = j} = at
    BY <1>2 DEF K
  <2>3. \A a \in at : ViewOf(B[a]) = ViewOf(ap[a])
    BY <1>2 DEF K
  <2>4. H[j] = half_streams[c][j] /\ Keeps(L0, L, j) /\ Keeps(M0, M, j)
    BY <1>2 DEF L0, M0
  <2> HIDE DEF at
  <2>5. Stream(j, at, B, half_streams[c][j], FarOf(n_streams[c][j]), L, M)
    BY <2>1, <2>3, <2>4, StreamOther DEF SameFar
  <2> QED
    BY <2>2, <2>4, <2>5
<1> QED
  BY <1>1, <1>2

\* The connections stay where they are.
LEMMA OwnSame ==
    ASSUME IInv, on_circuit' = on_circuit,
           \A a \in Conn : /\ ap'[a].conn = ap[a].conn /\ ap'[a].id = ap[a].id
                           /\ \/ ap'[a].state = ap[a].state
                              \/ ap[a].state = "connect_wait" /\ ap'[a].state = "open",
           \A d \in Circ, j \in Id : half_streams'[d][j].live => half_streams[d][j].live
    PROVE  OwnPart'
<1>1. OwnPart /\ on_circuit \in [Conn -> Circ \cup {NoCirc}]
  BY DEF IInv, TypeOK
<1>2. ASSUME NEW a \in Conn
      PROVE  /\ ap'[a].conn = a
             /\ ap'[a].state \in {"circuit_wait", "connect_wait", "open", "closed"}
             /\ on_circuit'[a] # NoCirc <=> ap'[a].state \in {"connect_wait", "open"}
             /\ on_circuit'[a] # NoCirc => ap'[a].id \in Id
  BY <1>1 DEF OwnPart
<1>3. ASSUME NEW a \in Conn, NEW b \in Conn, on_circuit'[a] # NoCirc,
             on_circuit'[a] = on_circuit'[b], ap'[a].id = ap'[b].id
      PROVE  a = b
  BY <1>1, <1>3 DEF OwnPart
<1>4. ASSUME NEW a \in Conn, on_circuit'[a] # NoCirc
      PROVE  ~half_streams'[on_circuit'[a]][ap'[a].id].live
  <2>1. on_circuit[a] \in Circ /\ ap[a].id \in Id
    BY <1>1, <1>4 DEF OwnPart
  <2>2. ~half_streams[on_circuit[a]][ap[a].id].live
    BY <1>1, <1>4 DEF OwnPart
  <2> QED
    BY <2>1, <2>2
<1> QED
  BY <1>2, <1>3, <1>4 DEF OwnPart

LEMMA FlowSame ==
    ASSUME NEW a, FlowPart(a), ap'[a] = ap[a], on_circuit'[a] = on_circuit[a],
           tried'[a] = tried[a],
           on_circuit[a] # NoCirc =>
             package_window'["client"][on_circuit[a]] = package_window["client"][on_circuit[a]]
    PROVE  FlowPart(a)'
BY DEF FlowPart

LEMMA ClientKeeps ==
    ASSUME IInv, NEW c \in Circ, NEW H, NEW L, NEW M, NEW p, NEW w,
           ap' \in [Conn -> Edge], UNCHANGED <<on_circuit, tried, n_streams>>,
           unusable' \in SUBSET Circ, next_stream_id' \in [Circ -> Id], refused' = {},
           closes' \in 0..MaxCloses,
           \A a \in Conn : on_circuit[a] # c => ap'[a] = ap[a],
           \A a \in On("client", c) :
             /\ ap'[a].conn = ap[a].conn /\ ap'[a].id = ap[a].id
             /\ \/ ap'[a].state = ap[a].state
                \/ ap[a].state = "connect_wait" /\ ap'[a].state = "open"
             /\ ClientPart(ap'[a])
             /\ tried[a] = {c} => ap'[a].sending = <<>> /\ Flows(p, ap'[a]),
           half_streams' = [half_streams EXCEPT ![c] = H], H \in [Id -> Half],
           \A j \in Id : H[j].live => half_streams[c][j].live,
           Put(Seq(Cell), link, link', c, L, M),
           Put(0..CircStart, package_window, package_window', c, p, package_window["exit"][c]),
           Put(0..CircStart, deliver_window, deliver_window', c, w, deliver_window["exit"][c]),
           Links(p, package_window["exit"][c], w, deliver_window["exit"][c], L, M),
           Streams(On("client", c), ap', H, n_streams[c], L, M)
    PROVE  IInv'
<1>1. On("client", c) = {a \in Conn : on_circuit[a] = c} /\ On("client", c)' = On("client", c)
  BY DEF On
<1>2. \A d \in Circ, j \in Id : half_streams'[d][j].live => half_streams[d][j].live
  <2>1. half_streams \in [Circ -> [Id -> Half]]
    BY DEF IInv, TypeOK
  <2>2. ASSUME NEW d \in Circ, NEW j \in Id, half_streams'[d][j].live
        PROVE  half_streams[d][j].live
    <3>1. CASE d = c
      BY <2>1, <2>2, <3>1
    <3>2. CASE d # c
      BY <2>1, <2>2, <3>2
    <3> QED
      BY <3>1, <3>2
  <2> QED
    BY <2>2
<1>3. \A a \in Conn : /\ ap'[a].conn = ap[a].conn /\ ap'[a].id = ap[a].id
                      /\ \/ ap'[a].state = ap[a].state
                         \/ ap[a].state = "connect_wait" /\ ap'[a].state = "open"
  BY <1>1
<1>4. on_circuit' = on_circuit /\ tried' = tried /\ n_streams' = n_streams
  OBVIOUS
<1>5. OwnPart'
  BY <1>2, <1>3, <1>4, OwnSame
<1>6. ASSUME NEW a \in Conn PROVE ClientPart(ap'[a]) /\ FlowPart(a)'
  <2>1. ClientPart(ap[a]) /\ FlowPart(a)
    BY DEF IInv
  <2>2. CASE on_circuit[a] # c
    <3>1. ap'[a] = ap[a]
      BY <2>2
    <3>2. on_circuit[a] # NoCirc => on_circuit[a] \in Circ \ {c}
      BY <2>2 DEF IInv, TypeOK
    <3>3. on_circuit[a] # NoCirc =>
             package_window'["client"][on_circuit[a]] = package_window["client"][on_circuit[a]]
      BY <3>2 DEF Put, End
    <3>4. FlowPart(a)'
      BY <1>4, <2>1, <3>1, <3>3, FlowSame
    <3> QED
      BY <2>1, <3>1, <3>4
  <2>3. CASE on_circuit[a] = c
    <3>1. /\ a \in On("client", c) /\ c # NoCirc
          /\ ap'[a].state \in {"connect_wait", "open"}
      BY <1>1, <1>5, <2>3, ConstantsAssumption DEF OwnPart
    <3>2. package_window'["client"][c] = p
      BY DEF Put
    <3>3. tried[a] = {c} => ap'[a].sending = <<>> /\ Flows(p, ap'[a])
      BY <3>1
    <3>4. FlowPart(a)'
      BY <1>4, <2>1, <2>3, <3>1, <3>2, <3>3 DEF FlowPart
    <3> QED
      BY <3>1, <3>4
  <2> QED
    BY <2>2, <2>3
<1>7. /\ on_circuit' \in [Conn -> Circ \cup {NoCirc}] /\ tried' \in [Conn -> SUBSET Circ]
  BY <1>4 DEF IInv, TypeOK
<1>8. \A a \in Conn : \/ ap'[a] = ap[a] /\ on_circuit'[a] = on_circuit[a]
                      \/ on_circuit[a] \in {c, NoCirc} /\ on_circuit'[a] \in {c, NoCirc}
  BY <1>4
<1>9. Streams(On("client", c)', ap', H, n_streams[c], L, M)
  BY <1>1
<1>10. \A a \in Conn : ClientPart(ap[a])' /\ FlowPart(a)'
  BY <1>6
<1> QED
  BY <1>4, <1>5, <1>7, <1>8, <1>9, <1>10, ClientStep

\* What is left at the client of a stream that it ends.
LEMMA HalfEdgeFacts ==
    ASSUME NEW edge \in Edge, EdgePart(edge)
    PROVE  LET h == HalfEdge(edge)
               v == ViewOf(edge)
           IN  /\ h \in Half /\ h.live
               /\ \E w \in View : /\ HalfView(h, w) /\ w.o = v.o /\ w.w = v.w /\ w.d = v.d
                                  /\ w.x = v.x /\ w.g = v.g /\ w.s = v.s /\ w.h
<1> DEFINE h == HalfEdge(edge)
           v == ViewOf(edge)
           w == [v EXCEPT !.h = TRUE]
           p == edge.package
           n == Due(StreamStart, StreamInc, p)
<1>1. /\ v \in View /\ v.w = p /\ v.d = edge.deliver /\ v.x = (edge.state = "connect_wait")
  BY ViewOfEdge
<1>2. p \in Nat /\ p <= StreamStart /\ edge.deliver \in 0..StreamStart
  BY EdgeType, Sizes
<1> HIDE DEF p
<1>3. n \in Nat /\ n * StreamInc \in Nat /\ p + n * StreamInc <= StreamStart
  BY <1>2, DueFacts, Sizes
<1> HIDE DEF n
<1>4. n * StreamInc >= n
  BY <1>3, Times, Sizes
<1>5. n \in 0..StreamStart
  <2> DEFINE m == n * StreamInc
  <2>1. m \in Nat /\ m >= n /\ p + m <= StreamStart
    BY <1>3, <1>4
  <2> HIDE DEF m
  <2> QED
    BY <1>2, <1>3, <2>1, Sizes
<1>6. h.live = TRUE /\ h.data = edge.deliver /\ h.sendmes = n
      /\ h.connected = (edge.state = "connect_wait")
      /\ h = [live |-> TRUE, data |-> edge.deliver, connected |-> edge.state = "connect_wait",
              sendmes |-> n]
  BY DEF HalfEdge, n, Due, p
<1>7. h \in Half
  BY <1>2, <1>5, <1>6 DEF Half
<1> HIDE DEF h, v
<1>8. /\ w \in View /\ w.o = v.o /\ w.w = v.w /\ w.d = v.d /\ w.x = v.x /\ w.g = v.g
      /\ w.s = v.s /\ w.h = TRUE
  BY <1>1 DEF View
<1> HIDE DEF w
<1>9. HalfView(h, w)
  BY <1>1, <1>6, <1>8 DEF HalfView, n, Due
<1> QED
  BY <1>6, <1>7, <1>8, <1>9 DEF h, v

\* An increment less leaves one SENDME less.
LEMMA DivStep ==
    ASSUME NEW u \in Nat, NEW inc \in Nat, inc > 0, u >= inc
    PROVE  /\ u \div inc \in Nat /\ u \div inc >= 1
           /\ (u - inc) \div inc = (u \div inc) - 1
<1> DEFINE t == u - inc
           m == t \div inc
           n == u \div inc
<1>1. t \in Nat
  OBVIOUS
<1>2. n \in Nat /\ u = inc * n + (u % inc) /\ u % inc \in 0..(inc - 1)
  OBVIOUS
<1> HIDE DEF t
<1>3. m \in Nat /\ t = inc * m + (t % inc) /\ t % inc \in 0..(inc - 1)
  BY <1>1
<1> HIDE DEF m, n
<1> DEFINE r == u % inc
           s == t % inc
<1>4. r \in Nat /\ r < inc /\ s \in Nat /\ s < inc
  BY <1>2, <1>3
<1>5. u = inc * n + r /\ u - inc = inc * m + s
  BY <1>2, <1>3 DEF t
<1> HIDE DEF r, s
<1>6. inc * (m + 1) = inc * m + inc /\ inc * m \in Nat /\ inc * n \in Nat
  BY <1>2, <1>3, Times
<1>7. ASSUME n > m + 1 PROVE FALSE
  <2> DEFINE k == n - (m + 1)
  <2>1. k \in Nat /\ k >= 1 /\ m + 1 \in Nat /\ (m + 1) + k = n
    BY <1>2, <1>3, <1>7
  <2> HIDE DEF k
  <2>2. inc * ((m + 1) + k) = inc * (m + 1) + inc * k /\ inc * k >= inc /\ inc * k \in Nat
    BY <2>1, Times
  <2> DEFINE a == inc * n
             b == inc * m
             d == inc * k
  <2>3. a = (b + inc) + d /\ d >= inc /\ a \in Nat /\ b \in Nat /\ d \in Nat
        /\ u = a + r /\ u - inc = b + s
    BY <1>5, <1>6, <2>1, <2>2
  <2> HIDE DEF a, b, d
  <2> QED
    BY <1>4, <2>3
<1>8. ASSUME n < m + 1 PROVE FALSE
  <2> DEFINE k == m - n
  <2>1. k \in Nat /\ n + k = m
    BY <1>2, <1>3, <1>8
  <2> HIDE DEF k
  <2>2. inc * (n + k) = inc * n + inc * k /\ inc * k \in Nat
    BY <1>2, <2>1, Times
  <2> DEFINE a == inc * n
             b == inc * m
             d == inc * k
  <2>3. b = a + d /\ a \in Nat /\ b \in Nat /\ d \in Nat /\ u = a + r /\ u - inc = b + s
    BY <1>5, <1>6, <2>1, <2>2
  <2> HIDE DEF a, b, d
  <2> QED
    BY <1>4, <2>3
<1>9. n = m + 1
  BY <1>2, <1>3, <1>7, <1>8
<1> QED
  BY <1>2, <1>3, <1>9 DEF m, n, t

\* A stream that is retried sends all again that it had sent.
LEMMA DetachedFacts ==
    ASSUME NEW edge \in Edge, ClientPart(edge), edge.state = "connect_wait"
    PROVE  LET f == Detached(edge)
           IN  f \in Edge /\ ClientPart(f) /\ f.state = "circuit_wait" /\ f.conn = edge.conn
<1> DEFINE f == [edge EXCEPT !.state = "circuit_wait", !.id = 0, !.sending = edge.pending]
<1>1. /\ Len(edge.pending) \in Nat /\ Len(edge.in) \in Nat /\ Len(edge.sending) \in Nat
      /\ edge.written \in Nat /\ edge.sending \in Seq(Conn \X Nat)
      /\ edge.pending \in Seq(Conn \X Nat)
  BY EdgeType
<1>2. /\ EdgePart(edge) /\ edge.got = <<>> /\ edge.out = 0
      /\ Len(edge.pending) = edge.written - Len(edge.in)
      /\ \A j \in 1..Len(edge.pending) : edge.pending[j] = Data(edge.conn, j)
  BY DEF ClientPart
<1>3. edge.pending = <<>> => edge.sending = edge.pending
  <2>1. edge.written >= Len(edge.in) + Len(edge.sending)
    BY <1>2 DEF EdgePart
  <2>2. edge.pending = <<>> => Len(edge.pending) = 0
    OBVIOUS
  <2> DEFINE a == Len(edge.in)
             b == Len(edge.sending)
             w == edge.written
  <2>3. a \in Nat /\ b \in Nat /\ w \in Nat /\ w >= a + b /\ Len(edge.pending) = w - a
    BY <1>1, <1>2, <2>1
  <2> HIDE DEF a, b, w
  <2>4. edge.pending = <<>> => b = 0
    BY <2>2, <2>3
  <2> QED
    BY <1>1, <2>4 DEF b
<1>4. Detached(edge) = f
  <2>1. CASE edge.pending # <<>>
    BY <2>1 DEF Detached
  <2>2. CASE edge.pending = <<>>
    BY <1>3, <2>2 DEF Detached
  <2> QED
    BY <2>1, <2>2
<1>5. /\ f \in Edge /\ f.state = "circuit_wait" /\ f.conn = edge.conn
      /\ f.deliver = edge.deliver /\ f.in = edge.in /\ f.sending = edge.pending
      /\ f.pending = edge.pending /\ f.out = edge.out /\ f.got = edge.got
      /\ f.written = edge.written
  BY DEF Edge
<1> HIDE DEF f
<1>6. SentOf(f) = 0
  BY <1>1, <1>2, <1>5 DEF SentOf
<1>7. EdgePart(f)
  <2> DEFINE n == Len(f.in)
             b == Len(f.sending)
             w == f.written
  <2>1. n \in Nat /\ b \in Nat /\ w \in Nat /\ b = w - n
    BY <1>1, <1>2, <1>5
  <2> HIDE DEF n, b, w
  <2>3. w >= n + b
    BY <2>1
  <2>2. \A j \in 1..Len(f.sending) : f.sending[j] = Data(f.conn, SentOf(f) + j)
    BY <1>1, <1>2, <1>5, <1>6
  <2> QED
    BY <1>2, <1>5, <2>2, <2>3 DEF EdgePart, n, b, w
<1>8. ClientPart(f)
  BY <1>2, <1>5, <1>7 DEF ClientPart
<1> QED
  BY <1>4, <1>5, <1>8

LEMMA ClosedFacts ==
    ASSUME NEW a \in Conn
    PROVE  LET f == NewEdge("closed", a, 0)
           IN  f \in Edge /\ ClientPart(f) /\ f.state = "closed" /\ f.conn = a
<1> DEFINE f == NewEdge("closed", a, 0)
<1>1. Fresh(f, "closed", a, 0)
  BY NewEdgeFacts DEF EdgeState
<1> HIDE DEF f
<1>2. f \in Edge /\ EdgePart(f) /\ f.state = "closed" /\ f.conn = a
  BY <1>1 DEF Fresh
<1> QED
  BY <1>2 DEF f, ClientPart

LEMMA PutBoth ==
    ASSUME NEW f \in [End -> [Circ -> Seq(Cell)]], NEW c \in Circ, NEW x \in Seq(Cell),
           NEW y \in Seq(Cell)
    PROVE  Put(Seq(Cell), f, [f EXCEPT !["client"][c] = x, !["exit"][c] = y], c, x, y)
BY PutFacts

\* Connection a leaves circuit c, with the edge f from now on; of its stream there is the
\* half edge h.
LEMMA ClientLeaves ==
    ASSUME IInv, NEW c \in Circ, NEW a \in Conn, on_circuit[a] = c, NEW f \in Edge,
           f.conn = a, f.state \in {"circuit_wait", "closed"}, ClientPart(f), Leave(a, f),
           UNCHANGED <<tried, n_streams, next_stream_id, package_window, deliver_window>>,
           unusable' \in SUBSET Circ, refused' = refused, closes' \in 0..MaxCloses,
           NEW h \in Half,
           half_streams' = [half_streams EXCEPT ![c] = [half_streams[c] EXCEPT ![ap[a].id] = h]],
           NEW L, NEW M, Put(Seq(Cell), link, link', c, L, M),
           Links(package_window["client"][c], package_window["exit"][c],
                 deliver_window["client"][c], deliver_window["exit"][c], L, M),
           \A j \in Id \ {ap[a].id} : /\ Keeps(link["client"][c], L, j)
                                      /\ Keeps(link["exit"][c], M, j),
           Stream(ap[a].id, {}, ap', h, FarOf(n_streams[c][ap[a].id]), L, M)
    PROVE  IInv'
<1> DEFINE i == ap[a].id
           K == On("client", c)
           ks == K \ {a}
           B == ap'
           H == [half_streams[c] EXCEPT ![i] = h]
<1>1. /\ ap' = [ap EXCEPT ![a] = f] /\ on_circuit' = [on_circuit EXCEPT ![a] = NoCirc]
  BY DEF Leave
<1>2. /\ ap \in [Conn -> Edge] /\ on_circuit \in [Conn -> Circ \cup {NoCirc}]
      /\ tried \in [Conn -> SUBSET Circ] /\ next_stream_id \in [Circ -> Id]
      /\ half_streams \in [Circ -> [Id -> Half]] /\ OwnPart /\ refused = {}
      /\ package_window \in [End -> [Circ -> 0..CircStart]]
      /\ deliver_window \in [End -> [Circ -> 0..CircStart]]
      /\ half_streams[c] \in [Id -> Half]
  BY DEF IInv, TypeOK
<1>3. c # NoCirc
  BY ConstantsAssumption
<1>4. /\ K = {b \in Conn : on_circuit[b] = c} /\ a \in K /\ Apart(K, ap)
      /\ i \in Id
  BY ClientNow
<1>5. /\ \A b \in Conn \ {a} : ap'[b] = ap[b] /\ on_circuit'[b] = on_circuit[b]
      /\ ap'[a] = f /\ on_circuit'[a] = NoCirc
      /\ ap' \in [Conn -> Edge] /\ on_circuit' \in [Conn -> Circ \cup {NoCirc}]
  BY <1>1, <1>2
<1>6. On("client", c)' = ks
  BY <1>3, <1>4, <1>5 DEF On
<1>7. H \in [Id -> Half] /\ H[i] = h /\ \A j \in Id \ {i} : H[j] = half_streams[c][j]
  BY <1>2, <1>4
<1> HIDE DEF K, i
<1>8. Streams(ks, B, H, n_streams[c], L, M)
  <2>1. \A b \in On("client", c) : ap[b].id # i => b \in ks /\ B[b] = ap[b]
    BY <1>4, <1>5 DEF K, i
  <2>2. \A b \in ks : b \in On("client", c) /\ B[b] = ap[b] /\ B[b].id # i
    BY <1>4, <1>5 DEF K, i, Apart
  <2>3. {b \in ks : B[b].id = i} = {}
    BY <2>2
  <2>4. Stream(i, {b \in ks : B[b].id = i}, B, H[i], FarOf(n_streams[c][i]), L, M)
    BY <1>7, <2>3 DEF i
  <2>5. \A j \in Id \ {i} : /\ H[j] = half_streams[c][j]
                            /\ Keeps(link["client"][c], L, j)
                            /\ Keeps(link["exit"][c], M, j)
    BY <1>7 DEF i
  <2> HIDE DEF ks, H, B
  <2> QED
    <3>1. i \in Id /\ \A b \in ks : B[b].id # i => b \in On("client", c) /\ B[b] = ap[b]
      BY <1>4, <2>2
    <3> QED
      BY <2>1, <2>4, <2>5, <3>1, ClientOne
<1>9. OwnPart'
  <2>1. ASSUME NEW b \in Conn
        PROVE  /\ ap'[b].conn = b
               /\ ap'[b].state \in {"circuit_wait", "connect_wait", "open", "closed"}
               /\ on_circuit'[b] # NoCirc <=> ap'[b].state \in {"connect_wait", "open"}
               /\ on_circuit'[b] # NoCirc => ap'[b].id \in Id
    <3>1. CASE b = a
      BY <1>5, <3>1
    <3>2. CASE b # a
      BY <1>2, <1>5, <3>2 DEF OwnPart
    <3> QED
      BY <3>1, <3>2
  <2>2. ASSUME NEW b \in Conn, NEW d \in Conn, on_circuit'[b] # NoCirc,
               on_circuit'[b] = on_circuit'[d], ap'[b].id = ap'[d].id
        PROVE  b = d
    <3>1. b # a /\ d # a
      BY <1>5, <2>2
    <3>2. /\ on_circuit[b] # NoCirc /\ on_circuit[b] = on_circuit[d]
          /\ ap[b].id = ap[d].id
      BY <1>5, <2>2, <3>1
    <3> QED
      BY <1>2, <3>2 DEF OwnPart
  <2>3. ASSUME NEW b \in Conn, on_circuit'[b] # NoCirc
        PROVE  ~half_streams'[on_circuit'[b]][ap'[b].id].live
    <3>1. b # a /\ ap'[b] = ap[b] /\ on_circuit'[b] = on_circuit[b]
      BY <1>5, <2>3
    <3>2. on_circuit[b] \in Circ /\ ap[b].id \in Id
          /\ ~half_streams[on_circuit[b]][ap[b].id].live
      BY <1>2, <2>3, <3>1 DEF OwnPart
    <3>3. CASE on_circuit[b] = c
      <4>1. ap[b].id # i
        BY <1>4, <3>1, <3>3 DEF K, i, Apart
      <4>2. half_streams'[c] = H
        BY <1>2 DEF i
      <4> QED
        BY <1>7, <3>1, <3>2, <3>3, <4>1, <4>2
    <3>4. CASE on_circuit[b] # c
      BY <1>2, <3>1, <3>2, <3>4
    <3> QED
      BY <3>3, <3>4
  <2> QED
    BY <2>1, <2>2, <2>3 DEF OwnPart
<1>10. ASSUME NEW b \in Conn PROVE ClientPart(ap[b])' /\ FlowPart(b)'
  <2>1. ClientPart(ap[b]) /\ FlowPart(b) /\ FlowPart(a)
    BY DEF IInv
  <2>2. CASE b # a
    BY <1>5, <2>1, <2>2, FlowSame
  <2>3. CASE b = a
    <3>1. c \in tried[a] /\ IsFiniteSet(tried[a])
      BY <1>3, <2>1 DEF FlowPart
    <3> QED
      BY <1>5, <2>3, <3>1 DEF FlowPart
  <2> QED
    BY <2>2, <2>3
<1>11. /\ Put(0..CircStart, package_window, package_window', c, package_window["client"][c],
              package_window["exit"][c])
       /\ Put(0..CircStart, deliver_window, deliver_window', c, deliver_window["client"][c],
              deliver_window["exit"][c])
  <2>1. /\ package_window["client"][c] \in 0..CircStart
        /\ deliver_window["client"][c] \in 0..CircStart
    BY <1>2 DEF End
  <2>2. /\ Put(0..CircStart, package_window, package_window, c, package_window["client"][c],
               package_window["exit"][c])
        /\ Put(0..CircStart, deliver_window, deliver_window, c, deliver_window["client"][c],
               deliver_window["exit"][c])
    BY <1>2, <2>1, PutFacts
  <2> QED
    BY <2>2
<1>12. Streams(On("client", c)', ap', H, n_streams[c], L, M)
  BY <1>6, <1>8
<1>13. half_streams' = [half_streams EXCEPT ![c] = H]
  BY DEF i
<1>14. \A b \in Conn : \/ ap'[b] = ap[b] /\ on_circuit'[b] = on_circuit[b]
                       \/ on_circuit[b] \in {c, NoCirc} /\ on_circuit'[b] \in {c, NoCirc}
  BY <1>5
<1>15. tried' \in [Conn -> SUBSET Circ] /\ next_stream_id' \in [Circ -> Id] /\ refused' = {}
  BY <1>2
<1> HIDE DEF H
<1> QED
  BY <1>5, <1>7, <1>9, <1>10, <1>11, <1>12, <1>13, <1>14, <1>15, ClientStep

\* Connection a ends its stream, of which it knows what the edge g has, and leaves; M are
\* the cells still to come.
LEMMA ClientEnds ==
    ASSUME IInv, NEW c \in Circ, NEW a \in Conn, on_circuit[a] = c, NEW f \in Edge,
           f.conn = a, f.state \in {"circuit_wait", "closed"}, ClientPart(f), Leave(a, f),
           UNCHANGED <<tried, n_streams, next_stream_id, package_window, deliver_window>>,
           unusable' \in SUBSET Circ, refused' = refused, closes' \in 0..MaxCloses,
           NEW g \in Edge, EdgePart(g),
           half_streams' = [half_streams EXCEPT ![c][ap[a].id] = HalfEdge(g)],
           NEW M \in Seq(Cell),
           link' = [link EXCEPT !["client"][c] = Append(@, Message("END", ap[a])),
                                !["exit"][c] = M],
           Links(package_window["client"][c], package_window["exit"][c],
                 deliver_window["client"][c], deliver_window["exit"][c],
                 link["client"][c], M),
           \A j \in Id \ {ap[a].id} : Keeps(link["exit"][c], M, j),
           Joined(ap[a].id, ViewOf(g), FarOf(n_streams[c][ap[a].id]), link["client"][c], M)
    PROVE  IInv'
<1> DEFINE i == ap[a].id
           L == link["client"][c]
           x == Message("END", ap[a])
           Q == Append(L, x)
           h == HalfEdge(g)
           v == ViewOf(g)
           y == FarOf(n_streams[c][i])
<1>1. /\ link \in [End -> [Circ -> Seq(Cell)]] /\ L \in Seq(Cell)
      /\ half_streams \in [Circ -> [Id -> Half]] /\ "client" \in End
      /\ ap[a] \in Edge
  BY CircuitNow DEF IInv, TypeOK, End
<1>2. i \in Id
  BY ClientNow
<1>3. x \in Cell /\ x.cmd = "END" /\ x.id = i
  BY <1>1, MessageFacts
<1>4. /\ h \in Half /\ h.live /\ v \in View
      /\ \E w \in View : /\ HalfView(h, w) /\ w.o = v.o /\ w.w = v.w /\ w.d = v.d
                         /\ w.x = v.x /\ w.g = v.g /\ w.s = v.s /\ w.h
  BY HalfEdgeFacts, ViewOfEdge
<1>5. y \in Far
  BY <1>2, StreamNow
<1> HIDE DEF i, x, h, v, y
<1>6. Q = L \o <<x>>
  BY <1>1, <1>3
<1>7. /\ Q \in Seq(Cell) /\ <<x>> \in Seq(Cell) /\ Plain(<<x>>)
      /\ \A j \in Id \ {i} : Keeps(L, Q, j)
  <2> HIDE DEF Q, L
  <2> QED
    BY <1>1, <1>2, <1>3, <1>6, SaysFacts
<1>8. PICK w \in View : /\ HalfView(h, w) /\ w.o = v.o /\ w.w = v.w /\ w.d = v.d
                        /\ w.x = v.x /\ w.g = v.g /\ w.s = v.s /\ w.h
  BY <1>4
<1>9. Joined(i, v, y, L, M)
  BY DEF i, v, y
<1> HIDE DEF L
<1>10. Joined(i, w, y, Q, M)
  BY <1>1, <1>3, <1>4, <1>5, <1>8, <1>9, StepClientEnds
<1> HIDE DEF Q
<1>11. Stream(i, {}, ap', h, y, Q, M)
  BY <1>4, <1>8, <1>10, StreamHalf
<1>12. Links(package_window["client"][c], package_window["exit"][c],
             deliver_window["client"][c], deliver_window["exit"][c], Q, M)
  BY <1>1, <1>6, <1>7, LinksSay DEF L
<1>13. Put(Seq(Cell), link, link', c, Q, M)
  <2>1. link' = [link EXCEPT !["client"][c] = Q, !["exit"][c] = M]
    BY <1>1 DEF Q, L, x
  <2>2. Put(Seq(Cell), link, [link EXCEPT !["client"][c] = Q, !["exit"][c] = M], c, Q, M)
    BY <1>1, <1>7, PutBoth
  <2> QED
    BY <2>1, <2>2
<1>14. half_streams' = [half_streams EXCEPT ![c] = [half_streams[c] EXCEPT ![ap[a].id] = h]]
  BY <1>1 DEF h, i
<1>15. /\ \A j \in Id \ {ap[a].id} : /\ Keeps(link["client"][c], Q, j)
                                     /\ Keeps(link["exit"][c], M, j)
       /\ Stream(ap[a].id, {}, ap', h, FarOf(n_streams[c][ap[a].id]), Q, M)
  BY <1>7, <1>11 DEF i, L, y
<1> QED
  BY <1>4, <1>12, <1>13, <1>14, <1>15, ClientLeaves

\* The client ends a stream by itself.
LEMMA ClientGivesUp ==
    ASSUME IInv, NEW c \in Circ, NEW a \in Conn, on_circuit[a] = c, NEW f \in Edge,
           f.conn = a, f.state \in {"circuit_wait", "closed"}, ClientPart(f), Leave(a, f),
           UNCHANGED <<tried, n_streams, next_stream_id, package_window, deliver_window>>,
           unusable' \in SUBSET Circ, refused' = refused, closes' \in 0..MaxCloses,
           SendEnd(a, link["exit"][c])
    PROVE  IInv'
<1> DEFINE i == ap[a].id
           M == link["exit"][c]
<1>1. /\ M \in Seq(Cell) /\ CircuitPart(c) /\ ap[a] \in Edge /\ EdgePart(ap[a])
      /\ i \in Id /\ a \in On("client", c)
  BY CircuitNow, ClientNow
<1>2. Joined(i, ViewOf(ap[a]), FarOf(n_streams[c][i]), link["client"][c], M)
  BY <1>1, LookupAtClient
<1>3. /\ half_streams' = [half_streams EXCEPT ![c][ap[a].id] = HalfEdge(ap[a])]
      /\ link' = [link EXCEPT !["client"][c] = Append(@, Message("END", ap[a])),
                              !["exit"][c] = M]
  BY DEF SendEnd
<1>4. Links(package_window["client"][c], package_window["exit"][c],
            deliver_window["client"][c], deliver_window["exit"][c], link["client"][c], M)
  BY <1>1 DEF CircuitPart
<1>5. \A j \in Id \ {ap[a].id} : Keeps(link["exit"][c], M, j)
  BY KeepsSame
<1> QED
  BY <1>1, <1>2, <1>3, <1>4, <1>5, ClientEnds

LEMMA InvExpireBeginning ==
    ASSUME IInv, NEW a \in Conn, ExpireBeginning(a), closes' \in 0..MaxCloses
    PROVE  IInv'
<1> DEFINE c == on_circuit[a]
           f == Detached(ap[a])
<1>1. /\ ap[a].state = "connect_wait" /\ SendEnd(a, link["exit"][c]) /\ Leave(a, f)
      /\ unusable' = unusable \cup {c}
      /\ UNCHANGED <<tried, n_streams, next_stream_id, package_window, deliver_window>>
      /\ refused' = refused
  BY DEF ExpireBeginning
<1>2. c \in Circ /\ unusable \subseteq Circ /\ ap[a] \in Edge /\ ap[a].conn = a
      /\ ClientPart(ap[a])
  BY <1>1 DEF IInv, TypeOK, OwnPart
<1>3. f \in Edge /\ ClientPart(f) /\ f.state = "circuit_wait" /\ f.conn = a
  BY <1>1, <1>2, DetachedFacts
<1>4. unusable' \in SUBSET Circ
  BY <1>1, <1>2
<1> HIDE DEF f
<1> QED
  BY <1>1, <1>2, <1>3, <1>4, ClientGivesUp

\* Connection a has no circuit before the step nor after it.
LEMMA ClientIdle ==
    ASSUME IInv, NEW a \in Conn, on_circuit[a] = NoCirc, NEW f \in Edge, f.conn = a,
           f.state \in {"circuit_wait", "closed"}, ClientPart(f), ap' = [ap EXCEPT ![a] = f],
           tried' \in [Conn -> SUBSET Circ], \A b \in Conn \ {a} : tried'[b] = tried[b],
           IsFiniteSet(tried'[a]),
           f.state = "circuit_wait" /\ tried'[a] = {} => f.reading /\ f.sending = <<>>,
           UNCHANGED <<on_circuit, n_streams, half_streams, next_stream_id, package_window,
                       deliver_window, link>>,
           unusable' \in SUBSET Circ, refused' = refused, closes' \in 0..MaxCloses
    PROVE  IInv'
<1>1. TypeOK /\ OwnPart /\ refused = {}
  BY DEF IInv
<1>2. /\ ap' \in [Conn -> Edge] /\ ap'[a] = f
      /\ \A b \in Conn \ {a} : ap'[b] = ap[b]
  BY <1>1 DEF TypeOK
<1>3. TypeOK'
  BY <1>1, <1>2 DEF TypeOK
<1>4. OwnPart'
  <2>1. ASSUME NEW b \in Conn
        PROVE  /\ ap'[b].conn = b
               /\ ap'[b].state \in {"circuit_wait", "connect_wait", "open", "closed"}
               /\ on_circuit'[b] # NoCirc <=> ap'[b].state \in {"connect_wait", "open"}
               /\ on_circuit'[b] # NoCirc => ap'[b].id \in Id
    <3>1. CASE b = a
      BY <1>2, <3>1
    <3>2. CASE b # a
      BY <1>1, <1>2, <3>2 DEF OwnPart
    <3> QED
      BY <3>1, <3>2
  <2>2. ASSUME NEW b \in Conn, on_circuit'[b] # NoCirc
        PROVE  b # a /\ ap'[b] = ap[b]
    BY <1>2, <2>2
  <2>3. ASSUME NEW b \in Conn, NEW d \in Conn, on_circuit'[b] # NoCirc,
               on_circuit'[b] = on_circuit'[d], ap'[b].id = ap'[d].id
        PROVE  b = d
    BY <1>1, <2>2, <2>3 DEF OwnPart
  <2>4. ASSUME NEW b \in Conn, on_circuit'[b] # NoCirc
        PROVE  ~half_streams'[on_circuit'[b]][ap'[b].id].live
    BY <1>1, <2>2, <2>4 DEF OwnPart
  <2> QED
    BY <2>1, <2>3, <2>4 DEF OwnPart
<1>5. ASSUME NEW b \in Conn PROVE ClientPart(ap[b])' /\ FlowPart(b)'
  <2>1. ClientPart(ap[b]) /\ FlowPart(b)
    BY DEF IInv
  <2>2. CASE b # a
    BY <1>2, <2>1, <2>2, FlowSame
  <2>3. CASE b = a
    BY <1>2, <2>3 DEF FlowPart
  <2> QED
    BY <2>2, <2>3
<1>6. Elsewhere(NoCirc)
  BY <1>2 DEF Elsewhere
<1>7. NoCirc \notin Circ
  BY ConstantsAssumption
<1> QED
  BY <1>1, <1>3, <1>4, <1>5, <1>6, <1>7, InvStep

LEMMA InvApplicationCloses ==
    ASSUME IInv, NEW a \in Conn, ApplicationCloses(a), closes' \in 0..MaxCloses
    PROVE  IInv'
<1> DEFINE c == on_circuit[a]
           f == NewEdge("closed", a, 0)
<1>1. /\ Leave(a, f) /\ refused' = refused
      /\ UNCHANGED <<tried, n_streams, next_stream_id, unusable, package_window,
                     deliver_window>>
      /\ c = NoCirc => UNCHANGED <<half_streams, link>>
      /\ c # NoCirc => SendEnd(a, link["exit"][c])
  BY DEF ApplicationCloses
<1>2. /\ TypeOK /\ unusable' \in SUBSET Circ /\ c \in Circ \cup {NoCirc}
      /\ ap[a].state \in {"circuit_wait", "connect_wait", "open"}
  BY <1>1 DEF IInv, TypeOK, ApplicationCloses
<1>3. f \in Edge /\ ClientPart(f) /\ f.state = "closed" /\ f.conn = a
  BY ClosedFacts
<1> HIDE DEF f
<1>4. CASE c # NoCirc
  BY <1>1, <1>2, <1>3, <1>4, ClientGivesUp
<1>5. CASE c = NoCirc
  <2>1. on_circuit' = on_circuit /\ ap' = [ap EXCEPT ![a] = f]
    BY <1>1, <1>2, <1>5 DEF Leave, TypeOK
  <2>2. tried' \in [Conn -> SUBSET Circ] /\ IsFiniteSet(tried'[a])
        /\ \A b \in Conn \ {a} : tried'[b] = tried[b]
    BY <1>1, <1>2 DEF TypeOK, IInv, FlowPart
  <2> QED
    BY <1>1, <1>2, <1>3, <1>5, <2>1, <2>2, ClientIdle
<1> QED
  BY <1>4, <1>5

LEMMA InvWriteEarly ==
    ASSUME IInv, NEW a \in Conn, WriteEarly(a), closes' \in 0..MaxCloses
    PROVE  IInv'
<1> DEFINE f == Written(ap[a])
<1>1. /\ ap[a].state = "circuit_wait" /\ ap' = [ap EXCEPT ![a] = f] /\ refused' = refused
      /\ UNCHANGED <<on_circuit, tried, n_streams, half_streams, next_stream_id, unusable,
                     package_window, deliver_window, link>>
  BY DEF WriteEarly, id_vars, circ_vars, IInv, TypeOK
<1>2. /\ ap[a] \in Edge /\ ap[a].conn = a /\ on_circuit[a] = NoCirc /\ ClientPart(ap[a])
      /\ EdgePart(ap[a]) /\ FlowPart(a) /\ unusable \in SUBSET Circ
      /\ tried \in [Conn -> SUBSET Circ]
  BY <1>1 DEF IInv, TypeOK, OwnPart, ClientPart
<1>3. /\ f \in Edge /\ f.state = "circuit_wait" /\ f.conn = a /\ ClientPart(f)
      /\ f.sending = ap[a].sending /\ f.reading = ap[a].reading
  BY <1>1, <1>2, WrittenFacts
<1> HIDE DEF f
<1>4. /\ IsFiniteSet(tried'[a]) /\ unusable' \in SUBSET Circ /\ tried' \in [Conn -> SUBSET Circ]
      /\ tried'[a] = {} => f.reading /\ f.sending = <<>>
      /\ \A b \in Conn \ {a} : tried'[b] = tried[b]
  BY <1>1, <1>2, <1>3 DEF FlowPart
<1> QED
  BY <1>1, <1>2, <1>3, <1>4, ClientIdle

\* A step for a stream that the client has closed, or never had.
LEMMA ClientHalf ==
    ASSUME IInv, NEW c \in Circ, NEW i \in Id, Lookup("client", c, i) = {}, NEW h \in Half,
           h.live => half_streams[c][i].live,
           half_streams' = [half_streams EXCEPT ![c] = [half_streams[c] EXCEPT ![i] = h]],
           UNCHANGED <<ap, on_circuit, tried, n_streams, next_stream_id, unusable,
                       package_window>>,
           refused' = refused, closes' \in 0..MaxCloses, NEW L, NEW M, NEW w,
           Put(Seq(Cell), link, link', c, L, M),
           Put(0..CircStart, deliver_window, deliver_window', c, w, deliver_window["exit"][c]),
           Links(package_window["client"][c], package_window["exit"][c], w,
                 deliver_window["exit"][c], L, M),
           \A j \in Id \ {i} : Keeps(link["client"][c], L, j) /\ Keeps(link["exit"][c], M, j),
           Stream(i, {}, ap, h, FarOf(n_streams[c][i]), L, M)
    PROVE  IInv'
<1> DEFINE H == [half_streams[c] EXCEPT ![i] = h]
           K == On("client", c)
           p == package_window["client"][c]
<1>1. /\ half_streams[c] \in [Id -> Half] /\ ap \in [Conn -> Edge] /\ refused = {}
      /\ unusable \in SUBSET Circ /\ next_stream_id \in [Circ -> Id]
      /\ package_window \in [End -> [Circ -> 0..CircStart]]
      /\ p \in 0..CircStart
  BY DEF IInv, TypeOK, End
<1>2. /\ H \in [Id -> Half] /\ H[i] = h /\ \A j \in Id \ {i} : H[j] = half_streams[c][j]
      /\ \A j \in Id : H[j].live => half_streams[c][j].live
  BY <1>1
<1>3. {a \in K : ap[a].id = i} = {}
  BY LookupAtClient
<1>4. Streams(K, ap, H, n_streams[c], L, M)
  <2>1. Stream(i, {a \in K : ap[a].id = i}, ap, H[i], FarOf(n_streams[c][i]), L, M)
    BY <1>2, <1>3
  <2>2. \A j \in Id \ {i} : /\ H[j] = half_streams[c][j]
                            /\ Keeps(link["client"][c], L, j)
                            /\ Keeps(link["exit"][c], M, j)
    BY <1>2
  <2> HIDE DEF H
  <2> QED
    BY <2>1, <2>2, ClientOne
<1>5. \A a \in K : /\ ClientPart(ap[a])
                   /\ tried[a] = {c} => ap[a].sending = <<>> /\ Flows(p, ap[a])
  <2>1. \A a \in K : a \in Conn /\ on_circuit[a] = c /\ c # NoCirc
    BY ConstantsAssumption DEF On
  <2> QED
    BY <2>1 DEF IInv, FlowPart
<1>6. Put(0..CircStart, package_window, package_window', c, p, package_window["exit"][c])
  <2>1. Put(0..CircStart, package_window, package_window, c, p, package_window["exit"][c])
    BY <1>1, PutFacts
  <2> QED
    BY <2>1
<1>7. /\ ap' \in [Conn -> Edge] /\ UNCHANGED <<on_circuit, tried, n_streams>>
      /\ unusable' \in SUBSET Circ /\ next_stream_id' \in [Circ -> Id] /\ refused' = {}
      /\ \A a \in Conn : on_circuit[a] # c => ap'[a] = ap[a]
      /\ Streams(K, ap', H, n_streams[c], L, M)
  BY <1>1, <1>4
<1>8. \A a \in K :
        /\ ap'[a].conn = ap[a].conn /\ ap'[a].id = ap[a].id
        /\ \/ ap'[a].state = ap[a].state
           \/ ap[a].state = "connect_wait" /\ ap'[a].state = "open"
        /\ ClientPart(ap'[a])
        /\ tried[a] = {c} => ap'[a].sending = <<>> /\ Flows(p, ap'[a])
  BY <1>5
<1>9. half_streams' = [half_streams EXCEPT ![c] = H]
  OBVIOUS
<1> HIDE DEF H, p
<1> QED
  BY <1>2, <1>6, <1>7, <1>8, <1>9, ClientKeeps DEF p

\* The client gets a cell that is for a stream alone.
LEMMA ClientHears ==
    ASSUME IInv, NEW c \in Circ, link["exit"][c] # <<>>,
           Head(link["exit"][c]).cmd # "CIRC_SENDME"
    PROVE  LET L == link["client"][c]
               M == link["exit"][c]
               i == Head(M).id
           IN  /\ i \in Id /\ L \in Seq(Cell) /\ M \in Seq(Cell) /\ Tail(M) \in Seq(Cell)
               /\ \A j \in Id \ {i} : Keeps(L, L, j) /\ Keeps(M, Tail(M), j)
               /\ Head(M).cmd # "DATA" =>
                    Links(package_window["client"][c], package_window["exit"][c],
                          deliver_window["client"][c], deliver_window["exit"][c], L, Tail(M))
               /\ Put(Seq(Cell), link, [link EXCEPT !["exit"][c] = Tail(M)], c, L, Tail(M))
               /\ FarOf(n_streams[c][i]) \in Far
               /\ Lookup("client", c, i) = {} =>
                    /\ half_streams[c][i].live
                    /\ \E v \in View : /\ HalfView(half_streams[c][i], v)
                                       /\ Joined(i, v, FarOf(n_streams[c][i]), L, M)
<1> DEFINE L == link["client"][c]
           M == link["exit"][c]
           i == Head(M).id
           y == FarOf(n_streams[c][i])
           at == {a \in On("client", c) : ap[a].id = i}
           h == half_streams[c][i]
<1>1. i \in Id
  BY HeadNamed
<1>2. /\ L \in Seq(Cell) /\ M \in Seq(Cell) /\ CircuitPart(c)
      /\ link \in [End -> [Circ -> Seq(Cell)]]
  BY CircuitNow DEF IInv, TypeOK
<1>3. Tail(M) \in Seq(Cell) /\ Head(M) \in Cell
  BY <1>2, TailFacts
<1>4. \A j \in Id \ {i} : Keeps(L, L, j) /\ Keeps(M, Tail(M), j)
  BY <1>2, KeepsSame, KeepsTail
<1>5. Head(M).cmd # "DATA" =>
        Links(package_window["client"][c], package_window["exit"][c],
              deliver_window["client"][c], deliver_window["exit"][c], L, Tail(M))
  BY <1>2, LinksHear DEF CircuitPart
<1>6. Put(Seq(Cell), link, [link EXCEPT !["exit"][c] = Tail(M)], c, L, Tail(M))
  BY <1>2, <1>3, PutFacts
<1>7. y \in Far /\ Stream(i, at, ap, h, y, L, M)
  BY <1>1, StreamNow
<1>8. ~NoCell(M, i)
  BY <1>2, TailHas
<1>9. Lookup("client", c, i) = at
  BY <1>1, LookupAtClient
<1>10. \A a \in at : ViewOf(ap[a]) \in View
  BY ClientNow
<1>11. at = {} => h.live /\ \E v \in View : HalfView(h, v) /\ Joined(i, v, y, L, M)
  <2> HIDE DEF at, y, h, L, M, i
  <2> QED
    BY <1>7, <1>8, <1>10, StreamUser
<1> QED
  BY <1>1, <1>2, <1>3, <1>4, <1>5, <1>6, <1>7, <1>9, <1>11

\* The END of the exit arrives.
LEMMA InvReceiveEnd ==
    ASSUME IInv, NEW c \in Circ, ReceiveEnd(c), closes' \in 0..MaxCloses
    PROVE  IInv'
<1> DEFINE L == link["client"][c]
           M == link["exit"][c]
           i == Head(M).id
           y == FarOf(n_streams[c][i])
           ks == Lookup("client", c, i)
<1>1. /\ M # <<>> /\ Head(M).cmd = "END" /\ First("client", c) = Head(M)
      /\ Rest("client", c) = Tail(M)
  BY ArrivesFacts DEF ReceiveEnd
<1>2. /\ i \in Id /\ L \in Seq(Cell) /\ M \in Seq(Cell) /\ Tail(M) \in Seq(Cell)
      /\ \A j \in Id \ {i} : Keeps(L, L, j) /\ Keeps(M, Tail(M), j)
      /\ Links(package_window["client"][c], package_window["exit"][c],
               deliver_window["client"][c], deliver_window["exit"][c], L, Tail(M))
      /\ Put(Seq(Cell), link, [link EXCEPT !["exit"][c] = Tail(M)], c, L, Tail(M))
      /\ y \in Far
      /\ ks = {} => /\ half_streams[c][i].live
                    /\ \E v \in View : /\ HalfView(half_streams[c][i], v)
                                       /\ Joined(i, v, y, L, M)
  BY <1>1, ClientHears
<1>3. /\ link' = [link EXCEPT !["exit"][c] = Tail(M)]
      /\ UNCHANGED <<tried, n_streams, next_stream_id, package_window, deliver_window>>
  BY <1>1 DEF ReceiveEnd
<1>4. Put(Seq(Cell), link, link', c, L, Tail(M))
  BY <1>2, <1>3
<1>5. /\ half_streams \in [Circ -> [Id -> Half]] /\ unusable \in SUBSET Circ /\ refused = {}
      /\ deliver_window \in [End -> [Circ -> 0..CircStart]]
  BY DEF IInv, TypeOK
<1>6. CASE ks = {}
  <2>1. /\ half_streams' = [half_streams EXCEPT ![c][i] = NoHalf] /\ refused' = refused
        /\ UNCHANGED <<ap, on_circuit, unusable>>
    BY <1>1, <1>2, <1>6 DEF ReceiveEnd
  <2>2. PICK v \in View : Joined(i, v, y, L, M)
    BY <1>2, <1>6
  <2>3. Unused(i, y, L, Tail(M))
    BY <1>1, <1>2, <2>2, StepEndAtClient
  <2>4. NoHalf \in Half /\ ~NoHalf.live
    BY Sizes DEF NoHalf, Half
  <2>5. Stream(i, {}, ap, NoHalf, y, L, Tail(M))
    BY <2>3, <2>4, StreamNone
  <2>6. half_streams' = [half_streams EXCEPT ![c] = [half_streams[c] EXCEPT ![i] = NoHalf]]
    BY <1>5, <2>1
  <2>7. Put(0..CircStart, deliver_window, deliver_window', c, deliver_window["client"][c],
            deliver_window["exit"][c])
    <3>1. Put(0..CircStart, deliver_window, deliver_window, c, deliver_window["client"][c],
              deliver_window["exit"][c])
      BY DeliverStays
    <3> QED
      BY <1>3, <3>1
  <2> QED
    BY <1>2, <1>3, <1>4, <1>6, <2>1, <2>4, <2>5, <2>6, <2>7, ClientHalf
<1>7. CASE ks # {}
  <2>1. PICK a \in ks :
          /\ \/ ap[a].state = "connect_wait" /\ Leave(a, Detached(ap[a]))
                /\ unusable' \in {unusable, unusable \cup {c}}
             \/ Leave(a, NewEdge("closed", a, 0)) /\ unusable' = unusable
          /\ half_streams' = half_streams /\ refused' = refused
    BY <1>1, <1>7 DEF ReceiveEnd
  <2>2. /\ a \in Conn /\ on_circuit[a] = c /\ ap[a].id = i /\ ~half_streams[c][i].live
        /\ ap[a] \in Edge /\ ClientPart(ap[a]) /\ Joined(i, ViewOf(ap[a]), y, L, M)
    <3> HIDE DEF i
    <3> QED
      BY <1>2, <2>1, LookupAtClient
  <2>3. Unused(i, y, L, Tail(M))
    BY <1>1, <1>2, <2>2, StepEndAtClient
  <2> DEFINE h == half_streams[c][i]
  <2>4. h \in Half /\ Stream(i, {}, ap', h, y, L, Tail(M))
    <3>1. h \in Half /\ ~h.live
      BY <1>2, <1>5, <2>2
    <3> HIDE DEF h
    <3> QED
      BY <2>3, <3>1, StreamNone
  <2>5. half_streams' = [half_streams EXCEPT ![c] = [half_streams[c] EXCEPT ![ap[a].id] = h]]
    BY <1>2, <1>5, <2>1, <2>2
  <2>6. ap[a].conn = a
    BY <2>2 DEF IInv, OwnPart
  <2>7. PICK f \in Edge : /\ f.conn = a /\ f.state \in {"circuit_wait", "closed"}
                          /\ ClientPart(f) /\ Leave(a, f) /\ unusable' \in SUBSET Circ
    <3>1. CASE /\ ap[a].state = "connect_wait" /\ Leave(a, Detached(ap[a]))
               /\ unusable' \in {unusable, unusable \cup {c}}
      BY <1>5, <2>2, <2>6, <3>1, DetachedFacts
    <3>2. CASE Leave(a, NewEdge("closed", a, 0)) /\ unusable' = unusable
      BY <1>5, <2>2, <3>2, ClosedFacts
    <3> QED
      BY <2>1, <3>1, <3>2
  <2>8. \A j \in Id \ {ap[a].id} : /\ Keeps(link["client"][c], L, j)
                                   /\ Keeps(link["exit"][c], Tail(M), j)
    BY <1>2, <2>2
  <2>9. Stream(ap[a].id, {}, ap', h, FarOf(n_streams[c][ap[a].id]), L, Tail(M))
    BY <2>2, <2>4
  <2>10. refused' = refused
    BY <2>1
  <2> HIDE DEF h
  <2> QED
    BY <1>2, <1>3, <1>4, <2>2, <2>4, <2>5, <2>7, <2>8, <2>9, <2>10, ClientLeaves
<1> QED
  BY <1>6, <1>7

\* The edge of connection a becomes f: only its own stream changes.
LEMMA ClientMove ==
    ASSUME IInv, NEW c \in Circ, NEW a \in On("client", c), NEW f \in Edge, f.id = ap[a].id,
           NEW L, NEW M,
           \A j \in Id \ {ap[a].id} : /\ Keeps(link["client"][c], L, j)
                                      /\ Keeps(link["exit"][c], M, j),
           Joined(ap[a].id, ViewOf(f), FarOf(n_streams[c][ap[a].id]), L, M)
    PROVE  Streams(On("client", c), [ap EXCEPT ![a] = f], half_streams[c], n_streams[c], L, M)
<1> DEFINE i == ap[a].id
           K == On("client", c)
           B == [ap EXCEPT ![a] = f]
           H == half_streams[c]
           at == {b \in K : B[b].id = i}
<1>1. K \in SUBSET Conn /\ ap \in [Conn -> Edge] /\ Apart(K, ap) /\ i \in Id /\ ~H[i].live
  BY ClientNow
<1>2. B[a] = f /\ \A b \in Conn \ {a} : B[b] = ap[b]
  BY <1>1
<1> HIDE DEF B
<1>3. at = {a}
  <2>1. \A b \in K : b # a => ap[b].id # i
    BY <1>1 DEF Apart
  <2> QED
    BY <1>1, <1>2, <2>1
<1>4. Stream(i, at, B, H[i], FarOf(n_streams[c][i]), L, M)
  <2> DEFINE h == H[i]
  <2>1. ~h.live
    BY <1>1
  <2> HIDE DEF h
  <2>2. Stream(i, {a}, B, h, FarOf(n_streams[c][i]), L, M)
    BY <1>2, <2>1, StreamOne
  <2> QED
    BY <1>3, <2>2 DEF h
<1>5. \A b \in K : ap[b].id # i => b \in K /\ B[b] = ap[b]
  BY <1>1, <1>2
<1>6. \A b \in K : B[b].id # i => b \in K /\ B[b] = ap[b]
  BY <1>1, <1>2
<1>7. \A j \in Id \ {i} : /\ H[j] = half_streams[c][j]
                          /\ Keeps(link["client"][c], L, j)
                          /\ Keeps(link["exit"][c], M, j)
  OBVIOUS
<1> HIDE DEF i, H, at
<1>8. Streams(K, B, H, n_streams[c], L, M)
  BY <1>1, <1>4, <1>5, <1>6, <1>7, ClientOne DEF at
<1> QED
  BY <1>8 DEF B, H

\* The edges F of the client's streams on circuit c, with the package window p: they are
\* the same streams, perhaps open now, and keep going.
Onward(c, p, F) ==
    /\ F \in [Conn -> Edge] /\ \A a \in Conn : on_circuit[a] # c => F[a] = ap[a]
    /\ \A a \in On("client", c) :
         /\ F[a].conn = ap[a].conn /\ F[a].id = ap[a].id
         /\ \/ F[a].state = ap[a].state
            \/ ap[a].state = "connect_wait" /\ F[a].state = "open"
         /\ ClientPart(F[a])
         /\ tried[a] = {c} => F[a].sending = <<>> /\ Flows(p, F[a])

LEMMA ClientGoesOn ==
    ASSUME IInv, NEW c \in Circ, NEW L, NEW M, NEW p, NEW w, NEW F, ap' = F, Onward(c, p, F),
           UNCHANGED <<on_circuit, tried, n_streams, half_streams, next_stream_id, unusable>>,
           refused' = refused, closes' \in 0..MaxCloses,
           Put(Seq(Cell), link, link', c, L, M),
           Put(0..CircStart, package_window, package_window', c, p, package_window["exit"][c]),
           Put(0..CircStart, deliver_window, deliver_window', c, w, deliver_window["exit"][c]),
           Links(p, package_window["exit"][c], w, deliver_window["exit"][c], L, M),
           Streams(On("client", c), F, half_streams[c], n_streams[c], L, M)
    PROVE  IInv'
<1> DEFINE H == half_streams[c]
<1>1. /\ refused = {} /\ half_streams \in [Circ -> [Id -> Half]]
      /\ unusable \in SUBSET Circ /\ next_stream_id \in [Circ -> Id]
  BY DEF IInv, TypeOK
<1>2. half_streams' = [half_streams EXCEPT ![c] = H] /\ H \in [Id -> Half]
      /\ \A j \in Id : H[j].live => half_streams[c][j].live
  BY <1>1
<1>3. /\ UNCHANGED <<on_circuit, tried, n_streams>>
      /\ unusable' \in SUBSET Circ /\ next_stream_id' \in [Circ -> Id] /\ refused' = {}
      /\ Streams(On("client", c), ap', H, n_streams[c], L, M)
  BY <1>1
<1>4. /\ ap' \in [Conn -> Edge]
      /\ \A a \in Conn : on_circuit[a] # c => ap'[a] = ap[a]
      /\ \A a \in On("client", c) :
           /\ ap'[a].conn = ap[a].conn /\ ap'[a].id = ap[a].id
           /\ \/ ap'[a].state = ap[a].state
              \/ ap[a].state = "connect_wait" /\ ap'[a].state = "open"
           /\ ClientPart(ap'[a])
           /\ tried[a] = {c} => ap'[a].sending = <<>> /\ Flows(p, ap'[a])
  BY DEF Onward
<1> HIDE DEF H
<1> QED
  BY <1>2, <1>3, <1>4, ClientKeeps

\* The client's edges E with the package window p, before they send.
Ready(c, E, p, M) ==
    /\ E \in [Conn -> Edge] /\ M \in Seq(Cell) /\ p \in Nat /\ p <= CircStart
    /\ \A a \in Conn : ClientPart(E[a]) /\ (on_circuit[a] # c => E[a] = ap[a])
    /\ \A a \in On("client", c) : /\ E[a].conn = ap[a].conn /\ E[a].id = ap[a].id
                                  /\ \/ E[a].state = ap[a].state
                                     \/ ap[a].state = "connect_wait" /\ E[a].state = "open"
    /\ Streams(On("client", c), E, half_streams[c], n_streams[c], link["client"][c], M)
    /\ Links(p, package_window["exit"][c], deliver_window["client"][c],
             deliver_window["exit"][c], link["client"][c], M)

\* They send r, and become F.
Turn(c, E, p, F, r) ==
    /\ r \in Seq(Cell) /\ p - Len(r) \in Nat /\ F \in [Conn -> Edge]
    /\ Sends(On("client", c), E, F, r)
    /\ \A a \in On("client", c) :
         tried[a] = {c} => E[a].sending = <<>> /\ Flows(p - Len(r), F[a])

LEMMA ClientTurn ==
    ASSUME IInv, NEW c \in Circ, NEW E, NEW p, NEW M, Ready(c, E, p, M), NEW F, NEW r,
           Turn(c, E, p, F, r),
           ap' = F, package_window' = [package_window EXCEPT !["client"][c] = p - Len(r)],
           link' = [link EXCEPT !["client"][c] = link["client"][c] \o r, !["exit"][c] = M],
           UNCHANGED <<on_circuit, tried, n_streams, half_streams, next_stream_id, unusable,
                       deliver_window>>,
           refused' = refused, closes' \in 0..MaxCloses
    PROVE  IInv'
<1> DEFINE left == p - Len(r)
           L == link["client"][c]
           K == On("client", c)
           H == half_streams[c]
           N == n_streams[c]
           Q == L \o r
<1>0. /\ E \in [Conn -> Edge] /\ M \in Seq(Cell) /\ p \in Nat /\ p <= CircStart
      /\ r \in Seq(Cell) /\ left \in Nat /\ left = p - Len(r) /\ F \in [Conn -> Edge]
      /\ \A a \in Conn : ClientPart(E[a]) /\ (on_circuit[a] # c => E[a] = ap[a])
      /\ \A a \in On("client", c) : /\ E[a].conn = ap[a].conn /\ E[a].id = ap[a].id
                                    /\ \/ E[a].state = ap[a].state
                                       \/ ap[a].state = "connect_wait" /\ E[a].state = "open"
      /\ Streams(On("client", c), E, half_streams[c], n_streams[c], link["client"][c], M)
      /\ Links(p, package_window["exit"][c], deliver_window["client"][c],
               deliver_window["exit"][c], link["client"][c], M)
      /\ Sends(On("client", c), E, F, r)
      /\ \A a \in On("client", c) : tried[a] = {c} => E[a].sending = <<>> /\ Flows(left, F[a])
      /\ package_window' = [package_window EXCEPT !["client"][c] = left]
  BY DEF Ready, Turn
<1>1. /\ L \in Seq(Cell) /\ N \in [Id -> Edge] /\ H \in [Id -> Half]
      /\ Exits(N, package_window["exit"][c]) /\ deliver_window["exit"][c] \in Nat
  BY CircuitNow DEF CircuitPart, End
<1>2. /\ link \in [End -> [Circ -> Seq(Cell)]] /\ refused = {}
      /\ package_window \in [End -> [Circ -> 0..CircStart]]
      /\ deliver_window \in [End -> [Circ -> 0..CircStart]]
      /\ half_streams \in [Circ -> [Id -> Half]]
      /\ unusable \in SUBSET Circ /\ next_stream_id \in [Circ -> Id]
      /\ "client" \in End /\ "exit" \in End
  BY DEF IInv, TypeOK, End
<1>3. /\ K \in SUBSET Conn /\ K = {a \in Conn : on_circuit[a] = c} /\ Apart(K, ap)
      /\ \A a \in K : /\ ap[a].state \in {"connect_wait", "open"} /\ ap[a].id \in Id
                      /\ ~H[ap[a].id].live
  BY ClientNow
<1>4. /\ \A a \in K : /\ E[a].state \in {"connect_wait", "open"} /\ E[a].id \in Id
                      /\ ~H[E[a].id].live /\ EdgePart(E[a])
      /\ Apart(K, E)
  <2>1. \A a \in K : /\ a \in Conn /\ E[a].id = ap[a].id
                     /\ E[a].state \in {"connect_wait", "open"} /\ EdgePart(E[a])
    BY <1>0, <1>3 DEF ClientPart
  <2>2. \A a \in K : E[a].id \in Id /\ ~H[E[a].id].live
    BY <1>0, <1>3, <2>1
  <2> HIDE DEF K
  <2>3. Apart(K, E)
    BY <1>0, <1>3, <2>1 DEF Apart
  <2> QED
    BY <1>0, <2>1, <2>2, <2>3
<1> HIDE DEF H, N, Q, L, K, left
<1>5. Streams(K, F, H, N, L \o r, M)
  BY <1>0, <1>1, <1>3, <1>4, ClientSendsAll DEF H, N, L, K
<1>6. \A a \in Conn : /\ ClientPart(F[a])
                      /\ F[a].state = E[a].state /\ F[a].conn = E[a].conn
                      /\ F[a].id = E[a].id
                      /\ E[a].sending = <<>> => F[a].sending = <<>>
                      /\ a \notin K => F[a] = E[a]
  <2>1. /\ Sends(K, E, F, r) /\ E \in [Conn -> Edge] /\ F \in [Conn -> Edge]
        /\ r \in Seq(Cell) /\ \A a \in Conn : ClientPart(E[a])
    BY <1>0 DEF K
  <2>2. K \in SUBSET Conn /\ \A a \in K : E[a].state \in {"connect_wait", "open"}
    BY <1>3, <1>4
  <2> QED
    BY <2>1, <2>2, ClientsSend
<1>7. AllData(r) /\ \A k \in DOMAIN r : r[k].id \in Id
  BY <1>0, <1>4 DEF Sends, K
<1>8. Links(left, package_window["exit"][c], deliver_window["client"][c],
            deliver_window["exit"][c], L \o r, M)
  BY <1>0, <1>1, <1>7, LinksSend DEF L
<1>9. Q \in Seq(Cell) /\ left \in 0..CircStart
  BY <1>0, <1>1, ConcatFacts, Sizes DEF Q
<1>10. Put(Seq(Cell), link, link', c, Q, M)
  <2>1. Put(Seq(Cell), link, [link EXCEPT !["client"][c] = Q, !["exit"][c] = M], c, Q, M)
    BY <1>0, <1>2, <1>9, PutBoth
  <2> QED
    BY <1>0, <2>1 DEF Q, L
<1>11. Put(0..CircStart, package_window, package_window', c, left, package_window["exit"][c])
  <2>1. Put(0..CircStart, package_window, [package_window EXCEPT !["client"][c] = left], c,
            left, package_window["exit"][c])
    BY <1>2, <1>9, PutFacts
  <2> QED
    BY <1>0, <2>1
<1>12. Put(0..CircStart, deliver_window, deliver_window', c, deliver_window["client"][c],
           deliver_window["exit"][c])
  <2>1. deliver_window["client"][c] \in 0..CircStart
    BY <1>0, <1>2
  <2>2. Put(0..CircStart, deliver_window, deliver_window, c, deliver_window["client"][c],
            deliver_window["exit"][c])
    BY <1>0, <1>2, <2>1, PutFacts
  <2> QED
    BY <1>0, <2>2
<1>13. Onward(c, left, F)
  BY <1>0, <1>3, <1>6 DEF Onward, K
<1>14. /\ Streams(On("client", c), F, half_streams[c], n_streams[c], Q, M)
       /\ Links(left, package_window["exit"][c], deliver_window["client"][c],
                deliver_window["exit"][c], Q, M)
  BY <1>0, <1>5, <1>8 DEF Q, N, K, H
<1>15. UNCHANGED <<on_circuit, tried, n_streams, half_streams, next_stream_id, unusable>>
  OBVIOUS
<1> QED
  BY <1>0, <1>10, <1>11, <1>12, <1>13, <1>14, <1>15, ClientGoesOn

\* One edge of the client is changed to f, which sends.
LEMMA ClientPackages ==
    ASSUME IInv, NEW c \in Circ, NEW k \in On("client", c), NEW f \in Edge, ClientPart(f),
           f.conn = ap[k].conn, f.id = ap[k].id,
           f.state = ap[k].state \/ (ap[k].state = "connect_wait" /\ f.state = "open"),
           tried[k] = {c} =>
             f.sending = <<>> /\ (package_window["client"][c] > 0 /\ f.package > 0 => f.reading),
           NEW M \in Seq(Cell),
           Joined(f.id, ViewOf(f), FarOf(n_streams[c][f.id]), link["client"][c], M),
           \A j \in Id \ {f.id} : Keeps(link["exit"][c], M, j),
           Links(package_window["client"][c], package_window["exit"][c],
                 deliver_window["client"][c], deliver_window["exit"][c],
                 link["client"][c], M),
           Apply("client", c,
                 Packaged(k, On("client", c), [ap EXCEPT ![k] = f],
                          package_window["client"][c], link["client"][c]), M),
           UNCHANGED <<on_circuit, tried, half_streams, next_stream_id, unusable,
                       deliver_window>>,
           refused' = refused, closes' \in 0..MaxCloses
    PROVE  IInv'
<1> DEFINE E == [ap EXCEPT ![k] = f]
           p == package_window["client"][c]
           L == link["client"][c]
           ks == On("client", c)
           P == Packaged(k, ks, E, p, L)
<1>1. /\ CircuitPart(c) /\ p \in Nat /\ p <= CircStart /\ L \in Seq(Cell) /\ c # NoCirc
  BY CircuitNow DEF End
<1>2. /\ ks \in SUBSET Conn /\ ks = {a \in Conn : on_circuit[a] = c} /\ Apart(ks, ap)
      /\ ap \in [Conn -> Edge] /\ k \in Conn
  BY ClientNow
<1>3. E \in [Conn -> Edge] /\ E[k] = f /\ \A a \in Conn \ {k} : E[a] = ap[a]
  BY <1>2
<1>4. Streams(ks, E, half_streams[c], n_streams[c], L, M)
  <2>1. \A j \in Id \ {ap[k].id} : /\ Keeps(link["client"][c], L, j)
                                   /\ Keeps(link["exit"][c], M, j)
    BY KeepsSame
  <2>2. Joined(ap[k].id, ViewOf(f), FarOf(n_streams[c][ap[k].id]), L, M)
    OBVIOUS
  <2> HIDE DEF L
  <2> QED
    BY <2>1, <2>2, ClientMove
<1> HIDE DEF E
<1>5. \A a \in Conn : ClientPart(E[a]) /\ (on_circuit[a] # c => E[a] = ap[a])
  BY <1>2, <1>3 DEF IInv
<1>6. \A a \in ks : /\ E[a].conn = ap[a].conn /\ E[a].id = ap[a].id
                    /\ \/ E[a].state = ap[a].state
                       \/ ap[a].state = "connect_wait" /\ E[a].state = "open"
  BY <1>2, <1>3
<1>7. Apart(ks, E) /\ \A a \in ks : EdgePart(E[a])
  <2>1. \A a \in ks : EdgePart(E[a])
    BY <1>2, <1>5 DEF ClientPart
  <2> HIDE DEF ks
  <2>2. Apart(ks, E)
    BY <1>2, <1>6 DEF Apart
  <2> QED
    BY <2>1, <2>2
<1>8. Apply("client", c, P, M)
  BY DEF E
<1>9. \A a \in ks : a # k /\ tried[a] = {c} => E[a].sending = <<>> /\ Flows(p, E[a])
  BY <1>1, <1>2, <1>3 DEF IInv, FlowPart
<1>10. k \in ks /\ (tried[k] = {c} => E[k].sending = <<>> /\ (p > 0 /\ E[k].package > 0 => E[k].reading))
  BY <1>3
<1> HIDE DEF p, L, ks
<1>11. \E r \in Seq(Cell) : Packed(P, Conn, k, ks, E, p, L, r)
  BY <1>1, <1>2, <1>3, <1>7, <1>10, PackagedFacts
<1> HIDE DEF P
<1>12. PICK r \in Seq(Cell) :
        /\ P.queue = L \o r /\ P.window \in Nat /\ P.window = p - Len(r)
        /\ P.edges \in [Conn -> Edge] /\ Sends(ks, E, P.edges, r)
        /\ \A j \in ks : j # k /\ Flows(p, E[j]) => Flows(P.window, P.edges[j])
        /\ (p > 0 /\ E[k].package > 0 => E[k].reading) => Flows(P.window, P.edges[k])
  BY <1>11 DEF Packed
<1>13. \A a \in ks : tried[a] = {c} => E[a].sending = <<>> /\ Flows(P.window, P.edges[a])
  BY <1>9, <1>10, <1>12
<1>14. /\ ap' = P.edges /\ n_streams' = n_streams
       /\ package_window' = [package_window EXCEPT !["client"][c] = P.window]
       /\ link' = [link EXCEPT !["client"][c] = L \o r, !["exit"][c] = M]
  BY <1>8, <1>12 DEF Apply, SetEdges, Peer
<1> DEFINE left == P.window
           F == P.edges
<1>15. left \in Nat /\ left = p - Len(r) /\ F \in [Conn -> Edge] /\ Sends(ks, E, F, r)
  BY <1>12
<1>16. \A a \in ks : tried[a] = {c} => E[a].sending = <<>> /\ Flows(left, F[a])
  BY <1>13
<1>17. /\ ap' = F /\ package_window' = [package_window EXCEPT !["client"][c] = left]
       /\ link' = [link EXCEPT !["client"][c] = link["client"][c] \o r, !["exit"][c] = M]
  BY <1>14 DEF L
<1>18. UNCHANGED <<on_circuit, tried, n_streams, half_streams, next_stream_id, unusable,
                   deliver_window>>
  BY <1>14
<1>19. Links(p, package_window["exit"][c], deliver_window["client"][c],
             deliver_window["exit"][c], link["client"][c], M)
  BY DEF p
<1>20. Ready(c, E, p, M)
  BY <1>1, <1>3, <1>4, <1>5, <1>6, <1>19 DEF Ready, ks, L
<1> HIDE DEF left, F
<1>21. Turn(c, E, p, F, r)
  BY <1>15, <1>16 DEF Turn, ks
<1>22. package_window' = [package_window EXCEPT !["client"][c] = p - Len(r)]
  BY <1>15, <1>17
<1> QED
  BY <1>17, <1>18, <1>20, <1>21, <1>22, ClientTurn

\* Data is read into an inbuf at the client.
LEMMA InvProcessInbufAtClient ==
    ASSUME IInv, NEW c \in Circ, NEW k, ProcessInbuf("client", c, k), closes' \in 0..MaxCloses
    PROVE  IInv'
<1> DEFINE f == Written(ap[k])
           L == link["client"][c]
           M == link["exit"][c]
           p == package_window["client"][c]
           sends == ap[k].state = "open" \/ (ap[k].state = "connect_wait" /\ c \in Optimistic)
           i == ap[k].id
<1>1. Edges("client", c) = ap /\ Peer("client") = "exit"
  BY DEF Edges, Peer
<1>2. /\ k \in On("client", c) /\ ap[k].reading
      /\ Apply("client", c,
               IF sends THEN Packaged(k, On("client", c), [ap EXCEPT ![k] = Written(@)], p, L)
               ELSE [edges |-> [ap EXCEPT ![k] = Written(@)], window |-> p, queue |-> L], M)
      /\ UNCHANGED <<on_circuit, tried, id_vars, deliver_window, refused>>
  BY <1>1 DEF ProcessInbuf
<1>3. /\ k \in Conn /\ on_circuit[k] = c /\ ap \in [Conn -> Edge] /\ ap[k] \in Edge
      /\ EdgePart(ap[k]) /\ ap[k].state \in {"connect_wait", "open"} /\ i \in Id
      /\ On("client", c) = {a \in Conn : on_circuit[a] = c}
  BY <1>2, ClientNow
<1>4. /\ CircuitPart(c) /\ L \in Seq(Cell) /\ M \in Seq(Cell) /\ c # NoCirc /\ p \in Nat
      /\ p \in 0..CircStart
      /\ link \in [End -> [Circ -> Seq(Cell)]]
      /\ package_window \in [End -> [Circ -> 0..CircStart]]
      /\ deliver_window \in [End -> [Circ -> 0..CircStart]]
      /\ "client" \in End /\ "exit" \in End
  BY CircuitNow DEF IInv, TypeOK, End
<1>5. ClientPart(ap[k]) /\ FlowPart(k)
  BY <1>3 DEF IInv
<1>6. /\ f \in Edge /\ f.state = ap[k].state /\ f.conn = ap[k].conn /\ f.id = i
      /\ f.package = ap[k].package /\ f.deliver = ap[k].deliver /\ f.got = ap[k].got
      /\ f.sending = ap[k].sending /\ f.reading = ap[k].reading
      /\ EdgePart(f) /\ SentOf(f) = SentOf(ap[k]) /\ ClientPart(f)
  BY <1>3, <1>5, WrittenFacts
<1>7. [ap EXCEPT ![k] = Written(@)] = [ap EXCEPT ![k] = f]
  OBVIOUS
<1>8. tried[k] = {c} => f.sending = <<>> /\ f.reading
  BY <1>2, <1>3, <1>4, <1>5, <1>6 DEF FlowPart
<1> HIDE DEF f
<1>9. ViewOf(f) = ViewOf(ap[k])
  BY <1>6 DEF ViewOf
<1>10. Joined(i, ViewOf(f), FarOf(n_streams[c][i]), L, M)
  <2>1. k \in Lookup("client", c, i)
    BY <1>2, <1>3, LookupAtClient
  <2> QED
    BY <1>3, <1>9, <2>1, LookupAtClient
<1>11. Links(p, package_window["exit"][c], deliver_window["client"][c],
             deliver_window["exit"][c], L, M)
  BY <1>4 DEF CircuitPart
<1>12. \A j \in Id \ {i} : Keeps(L, L, j) /\ Keeps(M, M, j)
  BY KeepsSame
<1>13. /\ UNCHANGED <<on_circuit, tried, half_streams, next_stream_id, unusable,
                      deliver_window>>
       /\ refused' = refused
  BY <1>2 DEF id_vars
<1>14. CASE sends
  <2>1. Apply("client", c, Packaged(k, On("client", c), [ap EXCEPT ![k] = f], p, L), M)
    BY <1>2, <1>7, <1>14
  <2>2. Joined(f.id, ViewOf(f), FarOf(n_streams[c][f.id]), L, M)
    BY <1>6, <1>10
  <2>3. \A j \in Id \ {f.id} : Keeps(link["exit"][c], M, j)
    BY <1>6, <1>12
  <2>4. f.state = ap[k].state /\ f.conn = ap[k].conn /\ f.id = ap[k].id
    BY <1>6
  <2> QED
    BY <1>2, <1>4, <1>6, <1>8, <1>11, <1>13, <2>1, <2>2, <2>3, <2>4, ClientPackages
<1>15. CASE ~sends
  <2>1. /\ ap' = [ap EXCEPT ![k] = f] /\ n_streams' = n_streams
        /\ package_window' = [package_window EXCEPT !["client"][c] = p]
        /\ link' = [link EXCEPT !["client"][c] = L, !["exit"][c] = M]
    BY <1>2, <1>7, <1>15 DEF Apply, SetEdges, Peer
  <2> DEFINE F == [ap EXCEPT ![k] = f]
  <2>2. F \in [Conn -> Edge] /\ F[k] = f /\ \A a \in Conn \ {k} : F[a] = ap[a]
    BY <1>3, <1>6
  <2>3. Streams(On("client", c), F, half_streams[c], n_streams[c], L, M)
    <3> HIDE DEF L, M
    <3> QED
      BY <1>2, <1>6, <1>10, <1>12, ClientMove DEF L, M
  <2> HIDE DEF F
  <2>4. Flows(p, f) \/ tried[k] # {c}
    BY <1>3, <1>4, <1>5, <1>6, <1>15 DEF FlowPart, Flows
  <2>5. Onward(c, p, F)
    <3>1. ASSUME NEW a \in On("client", c)
          PROVE  /\ F[a].conn = ap[a].conn /\ F[a].id = ap[a].id
                 /\ F[a].state = ap[a].state /\ ClientPart(F[a])
                 /\ tried[a] = {c} => F[a].sending = <<>> /\ Flows(p, F[a])
      <4>1. CASE a = k
        BY <1>6, <1>8, <2>2, <2>4, <4>1
      <4>2. CASE a # k
        <5>1. a \in Conn /\ on_circuit[a] = c /\ F[a] = ap[a]
          BY <1>3, <2>2, <4>2
        <5>2. ClientPart(ap[a]) /\ FlowPart(a)
          BY <5>1 DEF IInv
        <5> QED
          BY <1>4, <5>1, <5>2 DEF FlowPart
      <4> QED
        BY <4>1, <4>2
    <3>2. \A a \in Conn : on_circuit[a] # c => F[a] = ap[a]
      BY <1>3, <2>2
    <3> QED
      BY <2>2, <3>1, <3>2 DEF Onward
  <2>6. Put(Seq(Cell), link, link', c, L, M)
    <3>1. Put(Seq(Cell), link, [link EXCEPT !["client"][c] = L, !["exit"][c] = M], c, L, M)
      BY <1>4, PutBoth
    <3> QED
      BY <2>1, <3>1
  <2>7. Put(0..CircStart, package_window, package_window', c, p, package_window["exit"][c])
    <3>1. package_window' = package_window
      BY <1>4, <2>1
    <3>2. Put(0..CircStart, package_window, package_window, c, p, package_window["exit"][c])
      BY <1>4, PutFacts
    <3> QED
      BY <3>1, <3>2
  <2>8. Put(0..CircStart, deliver_window, deliver_window', c, deliver_window["client"][c],
            deliver_window["exit"][c])
    <3>1. Put(0..CircStart, deliver_window, deliver_window, c, deliver_window["client"][c],
              deliver_window["exit"][c])
      BY <1>4, PutFacts
    <3> QED
      BY <1>13, <3>1
  <2>9. ap' = F
    BY <2>1 DEF F
  <2>10. UNCHANGED <<on_circuit, tried, n_streams, half_streams, next_stream_id, unusable>>
    BY <1>13, <2>1
  <2> HIDE DEF p, L, M
  <2> QED
    BY <1>11, <1>13, <2>3, <2>5, <2>6, <2>7, <2>8, <2>9, <2>10, ClientGoesOn
<1> QED
  BY <1>14, <1>15

\* The account of a half edge follows what the client would know of the stream.
LEMMA HalfFacts ==
    ASSUME NEW h \in Half, h.live, NEW v \in View, HalfView(h, v)
    PROVE  /\ v.w + StreamInc <= StreamStart =>
                /\ HalfSendme(h) \in Half /\ HalfSendme(h).live
                /\ \E w \in View : /\ HalfView(HalfSendme(h), w)
                                   /\ w.o = v.o /\ w.w = v.w + StreamInc /\ w.d = v.d
                                   /\ w.x = v.x /\ w.g = v.g /\ w.s = v.s /\ w.h = v.h
           /\ v.d >= 1 =>
                /\ HalfData(h) \in Half /\ HalfData(h).live
                /\ \E w \in View : /\ HalfView(HalfData(h), w)
                                   /\ w.o = v.o /\ w.w = v.w /\ w.d = v.d - 1
                                   /\ w.x = v.x /\ w.g = v.g + 1 /\ w.s = v.s /\ w.h = v.h
           /\ v.x =>
                /\ HalfConnected(h) \in Half /\ HalfConnected(h).live
                /\ \E w \in View : /\ HalfView(HalfConnected(h), w)
                                   /\ w.o = v.o /\ w.w = v.w /\ w.d = v.d
                                   /\ ~w.x /\ w.g = v.g /\ w.s = v.s /\ w.h = v.h
<1>1. /\ v.w \in Nat /\ v.w <= StreamStart /\ v.d \in Nat /\ v.d <= StreamStart /\ v.g \in Nat
      /\ v.x \in BOOLEAN
  BY ViewType
<1>2. /\ h.live = TRUE /\ h.data = v.d /\ h.connected = v.x /\ v.h
      /\ h.sendmes = (StreamStart - v.w) \div StreamInc
      /\ h.sendmes \in 0..StreamStart
  BY DEF Half, HalfView
<1>3. ASSUME v.w + StreamInc <= StreamStart
      PROVE  /\ HalfSendme(h) \in Half /\ HalfSendme(h).live
             /\ \E w \in View : /\ HalfView(HalfSendme(h), w)
                                /\ w.o = v.o /\ w.w = v.w + StreamInc /\ w.d = v.d
                                /\ w.x = v.x /\ w.g = v.g /\ w.s = v.s /\ w.h = v.h
  <2> DEFINE p == v.w
             t == p + StreamInc
             u == StreamStart - p
             n == u \div StreamInc
             s == n - 1
             k == [h EXCEPT !.sendmes = s]
             w == [v EXCEPT !.w = t]
  <2>1. t \in 0..StreamStart /\ u \in Nat /\ u >= StreamInc /\ StreamStart - t = u - StreamInc
    <3> HIDE DEF p
    <3>1. p \in Nat /\ p <= StreamStart /\ p + StreamInc <= StreamStart
      BY <1>1, <1>3 DEF p
    <3> QED
      BY <3>1, Sizes
  <2>2. h.sendmes = n /\ n \in 0..StreamStart
    BY <1>2
  <2> HIDE DEF u
  <2>3. n \in Nat /\ n >= 1 /\ (u - StreamInc) \div StreamInc = n - 1
    BY <2>1, DivStep, Sizes
  <2> HIDE DEF n
  <2>4. s \in 0..StreamStart /\ n > 0
    BY <2>2, <2>3, Sizes
  <2> HIDE DEF t
  <2>5. (StreamStart - t) \div StreamInc = s
    BY <2>1, <2>3
  <2> HIDE DEF s
  <2>6. k \in Half /\ k.live = TRUE /\ k.data = h.data /\ k.sendmes = s
        /\ k.connected = h.connected
    BY <1>2, <2>4 DEF Half
  <2>7. w \in View /\ w.o = v.o /\ w.w = t /\ w.d = v.d /\ w.x = v.x /\ w.g = v.g
        /\ w.s = v.s /\ w.h = v.h
    BY <2>1 DEF View
  <2>8. HalfSendme(h) = k
    BY <1>2, <2>2, <2>4 DEF HalfSendme, s
  <2> HIDE DEF k, w
  <2>9. HalfView(k, w)
    BY <1>2, <2>5, <2>6, <2>7 DEF HalfView
  <2> QED
    BY <2>6, <2>7, <2>8, <2>9 DEF t
<1>4. ASSUME v.d >= 1
      PROVE  /\ HalfData(h) \in Half /\ HalfData(h).live
             /\ \E w \in View : /\ HalfView(HalfData(h), w)
                                /\ w.o = v.o /\ w.w = v.w /\ w.d = v.d - 1
                                /\ w.x = v.x /\ w.g = v.g + 1 /\ w.s = v.s /\ w.h = v.h
  <2> DEFINE d == v.d
             t == d - 1
             m == v.g + 1
             k == [h EXCEPT !.data = t]
             w == [v EXCEPT !.d = t, !.g = m]
  <2>1. t \in 0..StreamStart /\ d > 0 /\ m \in Nat
    <3> HIDE DEF d
    <3>1. d \in Nat /\ d <= StreamStart /\ d >= 1
      BY <1>1, <1>4 DEF d
    <3> QED
      BY <1>1, <3>1, Sizes
  <2> HIDE DEF t, m
  <2>2. k \in Half /\ k.live = TRUE /\ k.data = t /\ k.sendmes = h.sendmes
        /\ k.connected = h.connected
    BY <1>2, <2>1 DEF Half
  <2>3. w \in View /\ w.o = v.o /\ w.w = v.w /\ w.d = t /\ w.x = v.x /\ w.g = m
        /\ w.s = v.s /\ w.h = v.h
    BY <2>1 DEF View
  <2>4. HalfData(h) = k
    BY <1>2, <2>1 DEF HalfData, t
  <2> HIDE DEF k, w
  <2>5. HalfView(k, w)
    BY <1>2, <2>2, <2>3 DEF HalfView
  <2> QED
    BY <2>2, <2>3, <2>4, <2>5 DEF t, m
<1>5. ASSUME v.x
      PROVE  /\ HalfConnected(h) \in Half /\ HalfConnected(h).live
             /\ \E w \in View : /\ HalfView(HalfConnected(h), w)
                                /\ w.o = v.o /\ w.w = v.w /\ w.d = v.d
                                /\ ~w.x /\ w.g = v.g /\ w.s = v.s /\ w.h = v.h
  <2> DEFINE k == [h EXCEPT !.connected = FALSE]
             w == [v EXCEPT !.x = FALSE]
  <2>1. k \in Half /\ k.live = TRUE /\ k.data = h.data /\ k.sendmes = h.sendmes
        /\ k.connected = FALSE
    BY <1>2 DEF Half
  <2>2. w \in View /\ w.o = v.o /\ w.w = v.w /\ w.d = v.d /\ w.x = FALSE /\ w.g = v.g
        /\ w.s = v.s /\ w.h = v.h
    BY DEF View
  <2>3. HalfConnected(h) = k
    BY <1>2, <1>5 DEF HalfConnected
  <2> HIDE DEF k, w
  <2>4. HalfView(k, w)
    BY <1>2, <2>1, <2>2 DEF HalfView
  <2> QED
    BY <2>1, <2>2, <2>3, <2>4
<1> QED
  BY <1>3, <1>4, <1>5

\* A cell for a stream that the client has closed changes the half edge to h.
LEMMA HalfHears ==
    ASSUME IInv, NEW c \in Circ, NEW i \in Id, link["exit"][c] # <<>>,
           i = Head(link["exit"][c]).id,
           Head(link["exit"][c]).cmd \notin {"DATA", "CIRC_SENDME"},
           Lookup("client", c, i) = {}, NEW h \in Half, h.live,
           NEW w \in View, HalfView(h, w),
           Joined(i, w, FarOf(n_streams[c][i]), link["client"][c], Tail(link["exit"][c])),
           half_streams' = [half_streams EXCEPT ![c][i] = h],
           link' = [link EXCEPT !["exit"][c] = Tail(link["exit"][c])],
           UNCHANGED <<ap, on_circuit, tried, n_streams, next_stream_id, unusable,
                       package_window, deliver_window>>,
           refused' = refused, closes' \in 0..MaxCloses
    PROVE  IInv'
<1> DEFINE L == link["client"][c]
           M == link["exit"][c]
           y == FarOf(n_streams[c][i])
<1>1. /\ L \in Seq(Cell) /\ M \in Seq(Cell) /\ Tail(M) \in Seq(Cell)
      /\ \A j \in Id \ {i} : Keeps(L, L, j) /\ Keeps(M, Tail(M), j)
      /\ Links(package_window["client"][c], package_window["exit"][c],
               deliver_window["client"][c], deliver_window["exit"][c], L, Tail(M))
      /\ Put(Seq(Cell), link, [link EXCEPT !["exit"][c] = Tail(M)], c, L, Tail(M))
      /\ half_streams[c][i].live
  BY ClientHears
<1>2. Put(Seq(Cell), link, link', c, L, Tail(M))
  BY <1>1
<1>3. /\ half_streams \in [Circ -> [Id -> Half]]
      /\ deliver_window \in [End -> [Circ -> 0..CircStart]]
  BY DEF IInv, TypeOK
<1>4. Stream(i, {}, ap, h, y, L, Tail(M))
  BY StreamHalf
<1>5. half_streams' = [half_streams EXCEPT ![c] = [half_streams[c] EXCEPT ![i] = h]]
  BY <1>3
<1>6. Put(0..CircStart, deliver_window, deliver_window', c, deliver_window["client"][c],
          deliver_window["exit"][c])
  <2>1. Put(0..CircStart, deliver_window, deliver_window, c, deliver_window["client"][c],
            deliver_window["exit"][c])
    BY DeliverStays
  <2> QED
    BY <2>1
<1> QED
  BY <1>1, <1>2, <1>4, <1>5, <1>6, ClientHalf

LEMMA InvReceiveSendmeAtClient ==
    ASSUME IInv, NEW c \in Circ, ReceiveSendme("client", c), closes' \in 0..MaxCloses
    PROVE  IInv'
<1> DEFINE L == link["client"][c]
           M == link["exit"][c]
           i == Head(M).id
           y == FarOf(n_streams[c][i])
           h == half_streams[c][i]
           ks == Lookup("client", c, i)
<1>1. /\ M # <<>> /\ Head(M).cmd = "SENDME" /\ First("client", c) = Head(M)
      /\ Rest("client", c) = Tail(M)
  BY ArrivesFacts DEF ReceiveSendme
<1>2. /\ i \in Id /\ L \in Seq(Cell) /\ M \in Seq(Cell) /\ Tail(M) \in Seq(Cell)
      /\ \A j \in Id \ {i} : Keeps(L, L, j) /\ Keeps(M, Tail(M), j)
      /\ Links(package_window["client"][c], package_window["exit"][c],
               deliver_window["client"][c], deliver_window["exit"][c], L, Tail(M))
      /\ y \in Far
      /\ ks = {} => h.live /\ \E v \in View : HalfView(h, v) /\ Joined(i, v, y, L, M)
  BY <1>1, ClientHears
<1>3. /\ UNCHANGED <<on_circuit, tried, next_stream_id, unusable, deliver_window>>
      /\ Edges("client", c) = ap /\ Peer("client") = "exit"
  BY DEF ReceiveSendme, Edges, Peer
<1>4. \A v \in View : Joined(i, v, y, L, M) =>
        /\ ~v.x /\ v.w + StreamInc <= StreamStart
        /\ \A w \in View :
             /\ w.o = v.o /\ w.w = v.w + StreamInc /\ w.d = v.d /\ w.x = v.x /\ w.g = v.g
             /\ w.s = v.s /\ w.h = v.h
             => Joined(i, w, y, L, Tail(M))
  <2> HIDE DEF y, L, M
  <2> QED
    BY <1>1, <1>2, StepClientAcked
<1>5. half_streams[c] \in [Id -> Half]
  BY CircuitNow
<1>6. CASE ks = {}
  <2>1. h \in Half
    BY <1>2, <1>5
  <2>2. PICK v \in View : HalfView(h, v) /\ Joined(i, v, y, L, M)
    BY <1>2, <1>6
  <2>3. h.live /\ v.w + StreamInc <= StreamStart
    BY <1>2, <1>4, <1>6, <2>2
  <2> DEFINE g == HalfSendme(h)
  <2>4. /\ g \in Half /\ g.live
        /\ \E w \in View : /\ HalfView(g, w)
                           /\ w.o = v.o /\ w.w = v.w + StreamInc /\ w.d = v.d
                           /\ w.x = v.x /\ w.g = v.g /\ w.s = v.s /\ w.h = v.h
    <3> HIDE DEF h
    <3> QED
      BY <2>1, <2>2, <2>3, HalfFacts
  <2>5. PICK w \in View : /\ HalfView(g, w)
                          /\ w.o = v.o /\ w.w = v.w + StreamInc /\ w.d = v.d
                          /\ w.x = v.x /\ w.g = v.g /\ w.s = v.s /\ w.h = v.h
    BY <2>4
  <2>6. Joined(i, w, y, L, Tail(M))
    BY <1>4, <2>2, <2>5
  <2>7. g # NoHalf
    <3> HIDE DEF g
    <3> QED
      BY <2>4 DEF NoHalf
  <2>8. /\ link' = [link EXCEPT !["exit"][c] = Tail(M)]
        /\ UNCHANGED <<ap, n_streams, package_window>> /\ refused' = refused
        /\ half_streams' = [half_streams EXCEPT ![c][i] = g]
    <3>1. First("client", c).id = i
      BY <1>1
    <3> HIDE DEF i, M, h
    <3> QED
      BY <1>1, <1>3, <1>6, <2>7, <3>1 DEF ReceiveSendme, Unattached, h
  <2> HIDE DEF g
  <2> QED
    BY <1>1, <1>2, <1>3, <1>6, <2>4, <2>5, <2>6, <2>8, HalfHears
<1>7. CASE ks # {}
  <2>1. PICK a : a \in ks
    BY <1>7
  <2>2. /\ a \in Conn /\ on_circuit[a] = c /\ ap[a].id = i
        /\ ap[a].state \in {"connect_wait", "open"}
        /\ ks = {a} /\ ap[a] \in Edge /\ EdgePart(ap[a]) /\ ClientPart(ap[a])
        /\ Joined(i, ViewOf(ap[a]), y, L, M) /\ a \in On("client", c)
    <3> HIDE DEF i
    <3> QED
      BY <1>2, <2>1, LookupAtClient
  <2> DEFINE v == ViewOf(ap[a])
             f == [ap[a] EXCEPT !.package = @ + StreamInc, !.reading = TRUE]
             w == ViewOf(f)
  <2>3. /\ v \in View /\ v.o = ap[a].conn /\ v.w = ap[a].package /\ v.d = ap[a].deliver
        /\ v.x = (ap[a].state = "connect_wait") /\ v.g = Len(ap[a].got)
        /\ v.s = SentOf(ap[a]) /\ v.h = FALSE
    BY <2>2, ViewOfEdge
  <2>4. ap[a].state = "open" /\ ap[a].package + StreamInc <= StreamStart
    BY <1>4, <2>2, <2>3
  <2>5. /\ f \in Edge /\ f.state = ap[a].state /\ f.conn = ap[a].conn /\ f.id = i
        /\ f.package = ap[a].package + StreamInc /\ f.deliver = ap[a].deliver
        /\ f.got = ap[a].got /\ f.reading = TRUE /\ SentOf(f) = SentOf(ap[a])
        /\ f.sending = ap[a].sending
        /\ EdgePart(f) /\ ClientPart(f)
    BY <2>2, <2>4, AckedFacts
  <2>6. Apply("client", c, Packaged(a, On("client", c), [ap EXCEPT ![a] = f],
                                    package_window["client"][c], L), Tail(M))
        /\ UNCHANGED <<half_streams, refused>>
    <3>1. ~(ap[a].state # "open" \/ ap[a].package + StreamInc > StreamStart)
      <4> DEFINE p == ap[a].package
      <4>1. p \in Nat /\ p + StreamInc <= StreamStart /\ ap[a].state = "open"
        BY <2>2, <2>4, EdgeType
      <4> HIDE DEF p
      <4>2. ~(p + StreamInc > StreamStart)
        BY <4>1, Sizes
      <4> QED
        BY <4>1, <4>2 DEF p
    <3>2. [ap EXCEPT ![a].package = @ + StreamInc, ![a].reading = TRUE]
            = [ap EXCEPT ![a] = f]
      BY <2>2 DEF IInv, TypeOK
    <3> HIDE DEF f
    <3>3. First("client", c).id = i
      BY <1>1
    <3> HIDE DEF i, M
    <3> QED
      BY <1>1, <1>3, <2>2, <3>1, <3>2, <3>3 DEF ReceiveSendme
  <2> HIDE DEF f
  <2>7. /\ w \in View /\ w.o = v.o /\ w.w = v.w + StreamInc /\ w.d = v.d /\ w.x = v.x
        /\ w.g = v.g /\ w.s = v.s /\ w.h = v.h
    <3>1. /\ w \in View /\ w.o = f.conn /\ w.w = f.package /\ w.d = f.deliver
          /\ w.x = (f.state = "connect_wait") /\ w.g = Len(f.got)
          /\ w.s = SentOf(f) /\ w.h = FALSE
      BY <2>5, ViewOfEdge
    <3> HIDE DEF w, v
    <3> QED
      BY <2>3, <2>5, <3>1
  <2> HIDE DEF w, v, L, M, y, i
  <2>8. Joined(i, v, y, L, M)
    BY <2>2 DEF v
  <2>9. Joined(i, w, y, L, Tail(M))
    BY <1>4, <2>3, <2>7, <2>8
  <2>10. /\ Joined(f.id, ViewOf(f), FarOf(n_streams[c][f.id]), link["client"][c], Tail(M))
         /\ \A j \in Id \ {f.id} : Keeps(link["exit"][c], Tail(M), j)
    BY <1>2, <2>5, <2>9 DEF w, y, L, M
  <2>11. tried[a] = {c} =>
           f.sending = <<>> /\ (package_window["client"][c] > 0 /\ f.package > 0 => f.reading)
    <3>1. FlowPart(a) /\ c # NoCirc
      BY <2>2, CircuitNow DEF IInv
    <3> QED
      BY <2>2, <2>5, <3>1 DEF FlowPart
  <2>12. f.conn = ap[a].conn /\ f.id = ap[a].id /\ f.state = ap[a].state
    BY <2>2, <2>5
  <2>13. Links(package_window["client"][c], package_window["exit"][c],
               deliver_window["client"][c], deliver_window["exit"][c], link["client"][c], Tail(M))
    BY <1>2 DEF L
  <2>14. /\ UNCHANGED <<on_circuit, tried, half_streams, next_stream_id, unusable,
                        deliver_window>>
         /\ refused' = refused
    BY <1>3, <2>6
  <2>15. Apply("client", c, Packaged(a, On("client", c), [ap EXCEPT ![a] = f],
                                     package_window["client"][c], link["client"][c]), Tail(M))
    BY <2>6 DEF L
  <2> QED
    BY <1>2, <2>2, <2>5, <2>10, <2>11, <2>12, <2>13, <2>14, <2>15, ClientPackages
<1> QED
  BY <1>6, <1>7

\* A stream opens; pending is what it then keeps.
LEMMA OpenedFacts ==
    ASSUME NEW edge \in Edge, EdgePart(edge), NEW p \in Seq(Conn \X Nat)
    PROVE  LET f == [edge EXCEPT !.state = "open", !.pending = p]
               v == ViewOf(edge)
               w == ViewOf(f)
           IN  /\ f \in Edge /\ f.state = "open" /\ f.conn = edge.conn /\ f.id = edge.id
               /\ f.package = edge.package /\ f.sending = edge.sending
               /\ f.reading = edge.reading /\ EdgePart(f) /\ ClientPart(f)
               /\ v \in View /\ w \in View /\ w.o = v.o /\ w.w = v.w /\ w.d = v.d /\ ~w.x
               /\ w.g = v.g /\ w.s = v.s /\ w.h = v.h
<1> DEFINE f == [edge EXCEPT !.state = "open", !.pending = p]
           v == ViewOf(edge)
           w == ViewOf(f)
<1>1. /\ f \in Edge /\ f.state = "open" /\ f.conn = edge.conn /\ f.id = edge.id
      /\ f.package = edge.package /\ f.deliver = edge.deliver /\ f.got = edge.got
      /\ f.sending = edge.sending /\ f.reading = edge.reading /\ f.out = edge.out
      /\ f.in = edge.in /\ f.written = edge.written
  BY DEF Edge
<1> HIDE DEF f
<1>2. EdgePart(f) /\ SentOf(f) = SentOf(edge)
  BY <1>1, SameData DEF EdgePart
<1>3. ClientPart(f)
  BY <1>1, <1>2 DEF ClientPart
<1>4. /\ v \in View /\ v.o = edge.conn /\ v.w = edge.package /\ v.d = edge.deliver
      /\ v.g = Len(edge.got) /\ v.s = SentOf(edge) /\ v.h = FALSE
  BY ViewOfEdge
<1>5. /\ w \in View /\ w.o = f.conn /\ w.w = f.package /\ w.d = f.deliver
      /\ w.x = (f.state = "connect_wait") /\ w.g = Len(f.got)
      /\ w.s = SentOf(f) /\ w.h = FALSE
  BY <1>1, <1>2, ViewOfEdge
<1> HIDE DEF v, w
<1>6. w.o = v.o /\ w.w = v.w /\ w.d = v.d /\ ~w.x /\ w.g = v.g /\ w.s = v.s /\ w.h = v.h
  BY <1>1, <1>2, <1>4, <1>5
<1> QED
  BY <1>1, <1>2, <1>3, <1>4, <1>5, <1>6 DEF f, v, w

\* The CONNECTED of the exit arrives.
LEMMA InvReceiveConnected ==
    ASSUME IInv, NEW c \in Circ, ReceiveConnected(c), closes' \in 0..MaxCloses
    PROVE  IInv'
<1> DEFINE L == link["client"][c]
           M == link["exit"][c]
           i == Head(M).id
           y == FarOf(n_streams[c][i])
           h == half_streams[c][i]
           ks == Lookup("client", c, i)
           p == package_window["client"][c]
<1>1. /\ M # <<>> /\ Head(M).cmd = "CONNECTED" /\ First("client", c) = Head(M)
      /\ Rest("client", c) = Tail(M)
  BY ArrivesFacts DEF ReceiveConnected
<1>2. /\ i \in Id /\ L \in Seq(Cell) /\ M \in Seq(Cell) /\ Tail(M) \in Seq(Cell)
      /\ \A j \in Id \ {i} : Keeps(L, L, j) /\ Keeps(M, Tail(M), j)
      /\ Links(p, package_window["exit"][c],
               deliver_window["client"][c], deliver_window["exit"][c], L, Tail(M))
      /\ y \in Far
      /\ ks = {} => h.live /\ \E v \in View : HalfView(h, v) /\ Joined(i, v, y, L, M)
  BY <1>1, ClientHears
<1>3. UNCHANGED <<tried, n_streams, next_stream_id, unusable, deliver_window>>
  BY DEF ReceiveConnected
<1>4. \A v \in View : Joined(i, v, y, L, M) =>
        /\ v.x
        /\ \A w \in View :
             /\ w.o = v.o /\ w.w = v.w /\ w.d = v.d /\ ~w.x /\ w.g = v.g
             /\ w.s = v.s /\ w.h = v.h
             => Joined(i, w, y, L, Tail(M))
  <2> HIDE DEF y, L, M
  <2> QED
    BY <1>1, <1>2, StepConnectedArrives
<1>5. half_streams[c] \in [Id -> Half]
  BY CircuitNow
<1>6. CASE ks = {}
  <2>1. h \in Half
    BY <1>2, <1>5
  <2>2. PICK v \in View : HalfView(h, v) /\ Joined(i, v, y, L, M)
    BY <1>2, <1>6
  <2>3. h.live /\ v.x
    BY <1>2, <1>4, <1>6, <2>2
  <2> DEFINE g == HalfConnected(h)
  <2>4. /\ g \in Half /\ g.live
        /\ \E w \in View : /\ HalfView(g, w)
                           /\ w.o = v.o /\ w.w = v.w /\ w.d = v.d
                           /\ ~w.x /\ w.g = v.g /\ w.s = v.s /\ w.h = v.h
    <3> HIDE DEF h
    <3> QED
      BY <2>1, <2>2, <2>3, HalfFacts
  <2>5. PICK w \in View : /\ HalfView(g, w)
                          /\ w.o = v.o /\ w.w = v.w /\ w.d = v.d
                          /\ ~w.x /\ w.g = v.g /\ w.s = v.s /\ w.h = v.h
    BY <2>4
  <2>6. Joined(i, w, y, L, Tail(M))
    BY <1>4, <2>2, <2>5
  <2>7. g # NoHalf
    <3> HIDE DEF g
    <3> QED
      BY <2>4 DEF NoHalf
  <2>8. /\ link' = [link EXCEPT !["exit"][c] = Tail(M)]
        /\ UNCHANGED <<ap, on_circuit, package_window>> /\ refused' = refused
        /\ half_streams' = [half_streams EXCEPT ![c][i] = g]
    <3>1. First("client", c).id = i
      BY <1>1
    <3> HIDE DEF i, M, h
    <3> QED
      BY <1>1, <1>3, <1>6, <2>7, <3>1 DEF ReceiveConnected, Unattached, h
  <2> HIDE DEF g
  <2> QED
    BY <1>1, <1>2, <1>3, <1>6, <2>4, <2>5, <2>6, <2>8, HalfHears
<1>7. CASE ks # {}
  <2>1. PICK a \in ks :
          \/ ap[a].state = "open"
          \/ /\ LET r == Packaged(a, On("client", c),
                                  [ap EXCEPT ![a].state = "open", ![a].pending = <<>>], p, L)
                IN  /\ ap' = r.edges
                    /\ package_window' = [package_window EXCEPT !["client"][c] = r.window]
                    /\ link' = [link EXCEPT !["client"][c] = r.queue, !["exit"][c] = Tail(M)]
             /\ UNCHANGED <<on_circuit, half_streams, refused>>
          \/ /\ half_streams' = [half_streams EXCEPT ![c][ap[a].id] =
                                   HalfEdge([ap[a] EXCEPT !.state = "open"])]
             /\ link' = [link EXCEPT !["client"][c] = Append(@, Message("END", ap[a])),
                                     !["exit"][c] = Tail(M)]
             /\ Leave(a, NewEdge("closed", a, 0))
             /\ UNCHANGED <<package_window, refused>>
    <3>1. First("client", c).id = i
      BY <1>1
    <3> HIDE DEF i, M
    <3> QED
      BY <1>1, <1>7, <3>1 DEF ReceiveConnected
  <2>2. /\ a \in Conn /\ on_circuit[a] = c /\ ap[a].id = i
        /\ ap[a].state \in {"connect_wait", "open"}
        /\ ap[a] \in Edge /\ EdgePart(ap[a]) /\ ClientPart(ap[a])
        /\ Joined(i, ViewOf(ap[a]), y, L, M) /\ a \in On("client", c)
    <3> HIDE DEF i
    <3> QED
      BY <1>2, LookupAtClient
  <2> DEFINE v == ViewOf(ap[a])
  <2>3. v \in View /\ v.x = (ap[a].state = "connect_wait")
    BY <2>2, ViewOfEdge
  <2>4. ap[a].state = "connect_wait"
    BY <1>4, <2>2, <2>3
  <2>5. ap \in [Conn -> Edge] /\ <<>> \in Seq(Conn \X Nat) /\ ap[a].pending \in Seq(Conn \X Nat)
    BY <2>2, EdgeType DEF IInv, TypeOK
  <2>6. CASE /\ LET r == Packaged(a, On("client", c),
                                  [ap EXCEPT ![a].state = "open", ![a].pending = <<>>], p, L)
                IN  /\ ap' = r.edges
                    /\ package_window' = [package_window EXCEPT !["client"][c] = r.window]
                    /\ link' = [link EXCEPT !["client"][c] = r.queue, !["exit"][c] = Tail(M)]
             /\ UNCHANGED <<on_circuit, half_streams, refused>>
    <3> DEFINE f == [ap[a] EXCEPT !.state = "open", !.pending = <<>>]
               w == ViewOf(f)
    <3>1. /\ f \in Edge /\ f.state = "open" /\ f.conn = ap[a].conn /\ f.id = ap[a].id
          /\ f.package = ap[a].package /\ f.sending = ap[a].sending
          /\ f.reading = ap[a].reading /\ ClientPart(f)
          /\ w \in View /\ w.o = v.o /\ w.w = v.w /\ w.d = v.d /\ ~w.x
          /\ w.g = v.g /\ w.s = v.s /\ w.h = v.h
      <4>1. ap[a] \in Edge /\ EdgePart(ap[a]) /\ ClientPart(ap[a]) /\ ap[a].state = "connect_wait"
        BY <2>2, <2>4
      <4> DEFINE k == ap[a]
      <4>2. f = [k EXCEPT !.state = "open", !.pending = <<>>] /\ w = ViewOf(f) /\ v = ViewOf(k)
        OBVIOUS
      <4>3. k \in Edge /\ EdgePart(k) /\ ClientPart(k) /\ k.state = "connect_wait"
        BY <4>1
      <4>4. <<>> \in Seq(Conn \X Nat)
        OBVIOUS
      <4> HIDE DEF k, f, w, v
      <4>5. /\ f \in Edge /\ f.state = "open" /\ f.conn = k.conn /\ f.id = k.id
            /\ f.package = k.package /\ f.sending = k.sending
            /\ f.reading = k.reading /\ ClientPart(f)
            /\ w \in View /\ w.o = v.o /\ w.w = v.w /\ w.d = v.d /\ ~w.x
            /\ w.g = v.g /\ w.s = v.s /\ w.h = v.h
        BY <4>2, <4>3, <4>4, OpenedFacts
      <4> QED
        BY <4>5 DEF k
    <3>2. [ap EXCEPT ![a].state = "open", ![a].pending = <<>>] = [ap EXCEPT ![a] = f]
      BY <2>2, <2>5
    <3> HIDE DEF f
    <3>3. Apply("client", c, Packaged(a, On("client", c), [ap EXCEPT ![a] = f], p, L), Tail(M))
      <4> DEFINE r == Packaged(a, On("client", c), [ap EXCEPT ![a] = f], p, L)
      <4>1. /\ ap' = r.edges
            /\ package_window' = [package_window EXCEPT !["client"][c] = r.window]
            /\ link' = [link EXCEPT !["client"][c] = r.queue, !["exit"][c] = Tail(M)]
        BY <2>6, <3>2
      <4> HIDE DEF r
      <4>2. Apply("client", c, r, Tail(M))
        BY <1>3, <4>1 DEF Apply, SetEdges, Peer
      <4> QED
        BY <4>2 DEF r
    <3> HIDE DEF w, v, y, L, M, i
    <3>4. Joined(i, v, y, L, M)
      BY <2>2 DEF v
    <3>5. Joined(i, w, y, L, Tail(M))
      BY <1>4, <2>3, <3>1, <3>4
    <3>6. /\ Joined(f.id, ViewOf(f), FarOf(n_streams[c][f.id]), link["client"][c], Tail(M))
          /\ \A j \in Id \ {f.id} : Keeps(link["exit"][c], Tail(M), j)
      BY <1>2, <2>2, <3>1, <3>5 DEF w, y, L, M
    <3>7. tried[a] = {c} => f.sending = <<>> /\ (p > 0 /\ f.package > 0 => f.reading)
      <4>1. FlowPart(a) /\ c # NoCirc
        BY <2>2, CircuitNow DEF IInv
      <4> QED
        BY <2>2, <3>1, <4>1 DEF FlowPart, Flows
    <3>8. /\ UNCHANGED <<on_circuit, tried, half_streams, next_stream_id, unusable,
                         deliver_window>>
          /\ refused' = refused
      BY <1>3, <2>6
    <3>9. /\ Apply("client", c, Packaged(a, On("client", c), [ap EXCEPT ![a] = f],
                                         package_window["client"][c], link["client"][c]),
                   Tail(M))
          /\ Links(package_window["client"][c], package_window["exit"][c],
                   deliver_window["client"][c], deliver_window["exit"][c],
                   link["client"][c], Tail(M))
          /\ tried[a] = {c} =>
               /\ f.sending = <<>>
               /\ package_window["client"][c] > 0 /\ f.package > 0 => f.reading
      BY <1>2, <3>3, <3>7 DEF L
    <3> QED
      BY <1>2, <2>2, <2>4, <3>1, <3>6, <3>8, <3>9, ClientPackages
  <2>7. CASE /\ half_streams' = [half_streams EXCEPT ![c][ap[a].id] =
                                   HalfEdge([ap[a] EXCEPT !.state = "open"])]
             /\ link' = [link EXCEPT !["client"][c] = Append(@, Message("END", ap[a])),
                                     !["exit"][c] = Tail(M)]
             /\ Leave(a, NewEdge("closed", a, 0))
             /\ UNCHANGED <<package_window, refused>>
    <3> DEFINE g == [ap[a] EXCEPT !.state = "open"]
               w == ViewOf(g)
               f == NewEdge("closed", a, 0)
    <3>1. g = [ap[a] EXCEPT !.state = "open", !.pending = ap[a].pending]
      BY <2>2 DEF Edge
    <3>2. /\ g \in Edge /\ EdgePart(g)
          /\ w \in View /\ w.o = v.o /\ w.w = v.w /\ w.d = v.d /\ ~w.x
          /\ w.g = v.g /\ w.s = v.s /\ w.h = v.h
      <4> DEFINE k == [ap[a] EXCEPT !.state = "open", !.pending = ap[a].pending]
                 u == ViewOf(k)
      <4>1. /\ k \in Edge /\ EdgePart(k)
            /\ u \in View /\ u.o = v.o /\ u.w = v.w /\ u.d = v.d /\ ~u.x
            /\ u.g = v.g /\ u.s = v.s /\ u.h = v.h
        <5> DEFINE e == ap[a]
                   n == ap[a].pending
        <5>1. /\ e \in Edge /\ EdgePart(e) /\ n \in Seq(Conn \X Nat)
              /\ k = [e EXCEPT !.state = "open", !.pending = n] /\ u = ViewOf(k)
              /\ v = ViewOf(e)
          BY <2>2, <2>5
        <5> HIDE DEF e, n, k, u, v
        <5> QED
          BY <5>1, OpenedFacts
      <4>2. g = k
        BY <3>1
      <4> HIDE DEF g, k
      <4>3. w = u
        BY <4>2
      <4> HIDE DEF w, u
      <4> QED
        BY <4>1, <4>2, <4>3
    <3>3. f \in Edge /\ ClientPart(f) /\ f.state = "closed" /\ f.conn = a
      BY <2>2, ClosedFacts
    <3>4. /\ half_streams' = [half_streams EXCEPT ![c][ap[a].id] = HalfEdge(g)]
          /\ link' = [link EXCEPT !["client"][c] = Append(@, Message("END", ap[a])),
                                  !["exit"][c] = Tail(M)]
          /\ Leave(a, f) /\ package_window' = package_window /\ refused' = refused
      BY <2>7
    <3>5. unusable' \in SUBSET Circ
      BY <1>3 DEF IInv, TypeOK
    <3> HIDE DEF g, f, w, v, y, L, i
    <3>6. Joined(i, v, y, L, M)
      BY <2>2 DEF v
    <3>7. Joined(i, w, y, L, Tail(M))
      BY <1>4, <2>3, <3>2, <3>6
    <3>8. /\ Joined(ap[a].id, ViewOf(g), FarOf(n_streams[c][ap[a].id]), link["client"][c],
                    Tail(M))
          /\ \A j \in Id \ {ap[a].id} : Keeps(link["exit"][c], Tail(M), j)
          /\ Links(package_window["client"][c], package_window["exit"][c],
                   deliver_window["client"][c], deliver_window["exit"][c],
                   link["client"][c], Tail(M))
      BY <1>2, <2>2, <3>7 DEF w, y, L
    <3>9. UNCHANGED <<tried, n_streams, next_stream_id, package_window, deliver_window>>
      BY <1>3, <3>4
    <3> HIDE DEF M
    <3>10. Tail(M) \in Seq(Cell)
      BY <1>2
    <3> QED
      BY <2>2, <3>2, <3>3, <3>4, <3>5, <3>8, <3>9, <3>10, ClientEnds DEF M
  <2> QED
    BY <2>1, <2>4, <2>6, <2>7
<1> QED
  BY <1>6, <1>7
\* The edge of connection a becomes f, which has the same to send.
LEMMA ClientGets ==
    ASSUME IInv, NEW c \in Circ, NEW a \in On("client", c), NEW f \in Edge,
           f.conn = ap[a].conn, f.id = ap[a].id, f.state = ap[a].state, ClientPart(f),
           f.sending = ap[a].sending, \A u : Flows(u, ap[a]) => Flows(u, f),
           ap' = [ap EXCEPT ![a] = f],
           UNCHANGED <<on_circuit, tried, n_streams, half_streams, next_stream_id, unusable,
                       package_window>>,
           refused' = refused, closes' \in 0..MaxCloses, NEW L, NEW M, NEW w,
           Put(Seq(Cell), link, link', c, L, M),
           Put(0..CircStart, deliver_window, deliver_window', c, w, deliver_window["exit"][c]),
           Links(package_window["client"][c], package_window["exit"][c], w,
                 deliver_window["exit"][c], L, M),
           \A j \in Id \ {ap[a].id} : /\ Keeps(link["client"][c], L, j)
                                      /\ Keeps(link["exit"][c], M, j),
           Joined(ap[a].id, ViewOf(f), FarOf(n_streams[c][ap[a].id]), L, M)
    PROVE  IInv'
<1> DEFINE F == [ap EXCEPT ![a] = f]
           p == package_window["client"][c]
<1>1. Streams(On("client", c), F, half_streams[c], n_streams[c], L, M)
  BY ClientMove
<1>2. Onward(c, p, F)
  <2>1. /\ a \in Conn /\ on_circuit[a] = c /\ ap \in [Conn -> Edge] /\ c # NoCirc
        /\ \A b \in Conn : ClientPart(ap[b]) /\ FlowPart(b)
    BY ClientNow, CircuitNow DEF IInv
  <2>2. F \in [Conn -> Edge] /\ F[a] = f /\ \A b \in Conn \ {a} : F[b] = ap[b]
    BY <2>1
  <2>3. \A b \in On("client", c) : b \in Conn /\ on_circuit[b] = c
    BY ClientNow
  <2>4. \A b \in On("client", c) : tried[b] = {c} => ap[b].sending = <<>> /\ Flows(p, ap[b])
    BY <2>1, <2>3 DEF FlowPart
  <2> HIDE DEF F, p
  <2>5. ASSUME NEW b \in On("client", c)
        PROVE  /\ F[b].conn = ap[b].conn /\ F[b].id = ap[b].id /\ F[b].state = ap[b].state
               /\ ClientPart(F[b]) /\ (tried[b] = {c} => F[b].sending = <<>> /\ Flows(p, F[b]))
    <3>1. CASE b = a
      BY <2>2, <2>4, <3>1
    <3>2. CASE b # a
      BY <2>1, <2>2, <2>3, <2>4, <3>2
    <3> QED
      BY <3>1, <3>2
  <2> QED
    BY <2>1, <2>2, <2>5 DEF Onward
<1>3. Put(0..CircStart, package_window, package_window', c, p, package_window["exit"][c])
  <2>1. /\ package_window' = package_window
        /\ package_window \in [End -> [Circ -> 0..CircStart]]
    BY DEF IInv, TypeOK
  <2>2. /\ package_window["exit"][c] \in 0..CircStart /\ p \in 0..CircStart
    BY <2>1 DEF End
  <2>3. Put(0..CircStart, package_window, package_window, c, p, package_window["exit"][c])
    BY <2>1, <2>2, PutFacts
  <2> QED
    BY <2>1, <2>3
<1>4. ap' = F
  OBVIOUS
<1> HIDE DEF F, p
<1>5. Links(p, package_window["exit"][c], w, deliver_window["exit"][c], L, M)
  BY DEF p
<1> QED
  BY <1>1, <1>2, <1>3, <1>4, <1>5, ClientGoesOn

\* A cell leaves an outbuf at the client.
LEMMA InvFlushAtClient ==
    ASSUME IInv, NEW c \in Circ, NEW k, Flush("client", c, k), closes' \in 0..MaxCloses
    PROVE  IInv'
<1> DEFINE edge == ap[k]
           f == Flushed(edge).edge
           s == Flushed(edge).sendmes
           m == Message("SENDME", edge)
           r == Copies(s, m)
           L == link["client"][c]
           M == link["exit"][c]
           v == ViewOf(edge)
           w == ViewOf(f)
           y == FarOf(n_streams[c][ap[k].id])
<1>1. /\ k \in On("client", c) /\ edge.state = "open" /\ edge.out > 0
      /\ ap' = [ap EXCEPT ![k] = f] /\ n_streams' = n_streams
      /\ link' = [link EXCEPT !["client"][c] = L \o r]
      /\ UNCHANGED <<on_circuit, tried, id_vars, package_window, deliver_window, refused>>
  BY DEF Flush, Edges, SetEdges
<1>2. k \in Conn /\ ap[k].id \in Id /\ k \in Lookup("client", c, ap[k].id)
  BY <1>1, ClientNow DEF Lookup, Edges
<1>3. /\ CircuitPart(c) /\ L \in Seq(Cell) /\ M \in Seq(Cell)
      /\ link \in [End -> [Circ -> Seq(Cell)]]
      /\ deliver_window \in [End -> [Circ -> 0..CircStart]]
      /\ y \in Far
  BY <1>2, CircuitNow, StreamNow DEF IInv, TypeOK
<1>4. /\ edge \in Edge /\ EdgePart(edge) /\ ClientPart(edge)
      /\ Joined(ap[k].id, v, y, L, M)
  BY <1>2, LookupAtClient
<1>5. /\ v \in View /\ v.o = edge.conn /\ v.w = edge.package /\ v.d = edge.deliver
      /\ v.x = (edge.state = "connect_wait") /\ v.g = Len(edge.got)
      /\ v.s = SentOf(edge) /\ v.h = FALSE
  BY <1>4, ViewOfEdge
<1>6. /\ s \in Nat /\ f \in Edge /\ f.state = edge.state /\ f.conn = edge.conn
      /\ f.id = edge.id /\ f.package = edge.package
      /\ f.deliver = edge.deliver + s * StreamInc
      /\ f.got = edge.got /\ EdgePart(f) /\ SentOf(f) = SentOf(edge)
      /\ f.sending = edge.sending
      /\ ClientPart(f) /\ \A u : Flows(u, edge) => Flows(u, f)
  <2> HIDE DEF edge
  <2> QED
    BY <1>1, <1>4, FlushedFacts
<1>7. m \in Cell /\ m.cmd = "SENDME" /\ m.id = edge.id
  BY <1>4, MessageFacts
<1> HIDE DEF f, s, m
<1>8. /\ w \in View /\ w.o = v.o /\ w.w = v.w /\ w.d = v.d + s * StreamInc /\ w.x = v.x
      /\ w.g = v.g /\ w.s = v.s /\ w.h = v.h /\ ~v.x
  <2>1. /\ w \in View /\ w.o = f.conn /\ w.w = f.package /\ w.d = f.deliver
        /\ w.x = (f.state = "connect_wait") /\ w.g = Len(f.got)
        /\ w.s = SentOf(f) /\ w.h = FALSE
    BY <1>6, ViewOfEdge
  <2> HIDE DEF w, v
  <2> QED
    BY <1>1, <1>5, <1>6, <2>1
<1>9. /\ L \o r \in Seq(Cell) /\ r \in Seq(Cell) /\ Plain(r)
      /\ \A j \in Id \ {ap[k].id} : Keeps(L, L \o r, j) /\ Keeps(M, M, j)
  BY <1>2, <1>3, <1>6, <1>7, SaysFacts, KeepsSame
<1> DEFINE Q == L \o r
           i == ap[k].id
<1>10. Joined(i, w, y, Q, M)
  <2>1. m.id = i /\ Joined(i, v, y, L, M)
    BY <1>4, <1>7
  <2> HIDE DEF v, w, y, L, M, i
  <2> QED
    BY <1>3, <1>5, <1>6, <1>7, <1>8, <2>1, StepClientAcks
<1>11. Links(package_window["client"][c], package_window["exit"][c],
             deliver_window["client"][c], deliver_window["exit"][c], Q, M)
  BY <1>3, <1>9, LinksSay DEF CircuitPart
<1>12. Put(Seq(Cell), link, link', c, Q, M)
  <2> HIDE DEF Q
  <2>1. link' = [link EXCEPT !["client"][c] = Q] /\ Q \in Seq(Cell)
    BY <1>1, <1>9 DEF Q
  <2> QED
    BY <1>3, <2>1, PutFacts
<1>13. Put(0..CircStart, deliver_window, deliver_window', c, deliver_window["client"][c],
           deliver_window["exit"][c])
  <2>1. /\ deliver_window' = deliver_window
        /\ deliver_window["client"][c] \in 0..CircStart
        /\ deliver_window["exit"][c] \in 0..CircStart
    BY <1>1, <1>3 DEF End
  <2>2. Put(0..CircStart, deliver_window, deliver_window, c, deliver_window["client"][c],
            deliver_window["exit"][c])
    BY <1>3, <2>1, PutFacts
  <2> QED
    BY <2>1, <2>2
<1>14. /\ UNCHANGED <<on_circuit, tried, n_streams, half_streams, next_stream_id, unusable,
                      package_window>>
       /\ refused' = refused /\ ap' = [ap EXCEPT ![k] = f]
  BY <1>1 DEF id_vars
<1>15. /\ f.conn = ap[k].conn /\ f.id = ap[k].id /\ f.state = ap[k].state
       /\ f.sending = ap[k].sending /\ \A u : Flows(u, ap[k]) => Flows(u, f)
  BY <1>6
<1>16. /\ \A j \in Id \ {ap[k].id} : /\ Keeps(link["client"][c], Q, j)
                                     /\ Keeps(link["exit"][c], M, j)
       /\ Joined(ap[k].id, ViewOf(f), FarOf(n_streams[c][ap[k].id]), Q, M)
  BY <1>9, <1>10
<1> HIDE DEF Q, M
<1> QED
  BY <1>1, <1>6, <1>11, <1>12, <1>13, <1>14, <1>15, <1>16, ClientGets

\* Data that makes edge k become g, apart from the SENDMEs for it.
Takes(e, c, k, g) ==
    LET s == IF g.state = "open" THEN SendmesDue(g) ELSE 0
        n == Due(CircStart, CircInc, deliver_window[e][c] - 1)
    IN  /\ SetEdges(e, c, [Edges(e, c) EXCEPT ![k] = [g EXCEPT !.deliver = @ + s * StreamInc]])
        /\ link' = [link EXCEPT ![Peer(e)][c] = Rest(e, c), ![e][c] =
                      (link[e][c] \o CircSendme(c, n)) \o Copies(s, Message("SENDME", g))]
        /\ UNCHANGED <<half_streams, refused>>

GotData(e, c, k) ==
    [Edges(e, c)[k] EXCEPT !.deliver = @ - 1, !.out = @ + 1,
                           !.got = Append(@, Data(First(e, c).conn, First(e, c).n))]

LEMMA DataTaken ==
    ASSUME NEW e, NEW c, DeliverData(e, c), NEW k, Lookup(e, c, First(e, c).id) = {k},
           ~(Edges(e, c)[k].state = "connect_wait" \/ GotData(e, c, k).deliver < 0)
    PROVE  Takes(e, c, k, GotData(e, c, k))
<1> DEFINE ks == Lookup(e, c, First(e, c).id)
           taken(j) == ~(Edges(e, c)[j].state = "connect_wait" \/ GotData(e, c, j).deliver < 0)
                         => Takes(e, c, j, GotData(e, c, j))
<1>1. \E j \in ks : taken(j)
  BY Zenon DEF DeliverData, Takes, GotData
<1> HIDE DEF taken
<1>2. taken(k)
  BY <1>1
<1> QED
  BY <1>2 DEF taken

\* Data arrives at the client.
LEMMA InvReceiveDataAtClient ==
    ASSUME IInv, NEW c \in Circ, ReceiveData("client", c), closes' \in 0..MaxCloses
    PROVE  IInv'
<1> DEFINE L == link["client"][c]
           M == link["exit"][c]
           i == Head(M).id
           y == FarOf(n_streams[c][i])
           h == half_streams[c][i]
           ks == Lookup("client", c, i)
           d == deliver_window["client"][c]
           n == Due(CircStart, CircInc, d - 1)
           L1 == L \o CircSendme(c, n)
           dw == d - 1 + n * CircInc
<1>0. DeliverData("client", c)
  BY DataInWindow DEF End
<1>1. /\ M # <<>> /\ Head(M).cmd = "DATA" /\ First("client", c) = Head(M)
      /\ Rest("client", c) = Tail(M)
  BY ArrivesFacts DEF ReceiveData
<1>2. /\ i \in Id /\ L \in Seq(Cell) /\ M \in Seq(Cell) /\ Tail(M) \in Seq(Cell)
      /\ \A j \in Id \ {i} : Keeps(M, Tail(M), j)
      /\ y \in Far
      /\ ks = {} => h.live /\ \E v \in View : HalfView(h, v) /\ Joined(i, v, y, L, M)
  BY <1>1, ClientHears
<1>3. /\ UNCHANGED <<on_circuit, tried, next_stream_id, unusable, package_window>>
      /\ deliver_window' = [deliver_window EXCEPT !["client"][c] = dw]
      /\ Edges("client", c) = ap /\ Peer("client") = "exit"
  BY <1>0 DEF DeliverData, Edges, Peer
<1>4. /\ d \in Nat /\ d <= CircStart /\ package_window["exit"][c] \in Nat
      /\ CircuitPart(c) /\ half_streams \in [Circ -> [Id -> Half]]
      /\ half_streams[c] \in [Id -> Half] /\ n_streams[c] \in [Id -> Edge]
      /\ link \in [End -> [Circ -> Seq(Cell)]]
      /\ deliver_window \in [End -> [Circ -> 0..CircStart]]
  BY CircuitNow DEF IInv, TypeOK, End
<1>5. /\ n \in Nat /\ dw \in 0..CircStart
      /\ Links(package_window["client"][c], package_window["exit"][c],
               dw, deliver_window["exit"][c], L1, Tail(M))
  <2>1. Links(package_window["client"][c], package_window["exit"][c],
              d, deliver_window["exit"][c], L, M)
    BY <1>4 DEF CircuitPart
  <2> QED
    BY <1>1, <1>2, <1>4, <2>1, LinksData
<1>6. L1 \in Seq(Cell) /\ \A j \in Id : Keeps(L, L1, j)
  <2>1. CircSendme(c, n) \in Seq(Cell) /\ \A j \in Id : NoCell(CircSendme(c, n), j)
    BY <1>5, CircSendmeFacts
  <2> QED
    BY <1>2, <2>1, KeepsConcat, ConcatFacts
<1>7. Put(0..CircStart, deliver_window, deliver_window', c, dw, deliver_window["exit"][c])
  <2>1. deliver_window["exit"][c] \in 0..CircStart
    BY <1>4 DEF End
  <2> HIDE DEF dw
  <2> QED
    BY <1>3, <1>4, <1>5, <2>1, PutFacts
<1>8. \A v, z : Joined(i, v, z, L, Tail(M)) => Joined(i, v, z, L1, Tail(M))
  <2> DEFINE R == Tail(M)
  <2>1. Keeps(L, L1, i) /\ Keeps(R, R, i)
    BY <1>2, <1>6, KeepsSame
  <2>2. \A z : SameFar(z, z)
    BY DEF SameFar
  <2> HIDE DEF R, L, L1, i
  <2>3. \A v, z : Joined(i, v, z, L, R) => Joined(i, v, z, L1, R)
    BY <2>1, <2>2, JoinedKeeps
  <2> QED
    BY <2>3 DEF R
<1>9. \A v \in View : Joined(i, v, y, L, M) =>
        /\ ~v.x /\ Head(M).conn = v.o /\ Head(M).n = v.g + 1 /\ v.d >= 1
        /\ \A w \in View :
             /\ w.o = v.o /\ w.w = v.w /\ w.d = v.d - 1 /\ w.x = v.x /\ w.g = v.g + 1
             /\ w.s = v.s /\ w.h = v.h
             => Joined(i, w, y, L1, Tail(M))
  <2> SUFFICES ASSUME NEW v \in View, Joined(i, v, y, L, M)
               PROVE  /\ ~v.x /\ Head(M).conn = v.o /\ Head(M).n = v.g + 1 /\ v.d >= 1
                      /\ \A w \in View :
                           /\ w.o = v.o /\ w.w = v.w /\ w.d = v.d - 1 /\ w.x = v.x
                           /\ w.g = v.g + 1 /\ w.s = v.s /\ w.h = v.h
                           => Joined(i, w, y, L1, Tail(M))
    OBVIOUS
  <2> HIDE DEF y, L, M
  <2>1. /\ ~v.x /\ Head(M).conn = v.o /\ Head(M).n = v.g + 1 /\ v.d >= 1
        /\ \A w \in View :
             /\ w.o = v.o /\ w.w = v.w /\ w.d = v.d - 1 /\ w.x = v.x /\ w.g = v.g + 1
             /\ w.s = v.s /\ w.h = v.h
             => Joined(i, w, y, L, Tail(M))
    BY <1>1, <1>2, StepClientGets
  <2> HIDE DEF i, L1
  <2> QED
    BY <1>8, <2>1
<1> HIDE DEF n, dw
<1>10. CASE ks = {}
  <2>1. h \in Half
    BY <1>2, <1>4
  <2>2. PICK v \in View : HalfView(h, v) /\ Joined(i, v, y, L, M)
    BY <1>2, <1>10
  <2>3. h.live /\ v.d >= 1
    BY <1>2, <1>9, <1>10, <2>2
  <2> DEFINE g == HalfData(h)
  <2>4. /\ g \in Half /\ g.live
        /\ \E w \in View : /\ HalfView(g, w)
                           /\ w.o = v.o /\ w.w = v.w /\ w.d = v.d - 1
                           /\ w.x = v.x /\ w.g = v.g + 1 /\ w.s = v.s /\ w.h = v.h
    <3> HIDE DEF h
    <3> QED
      BY <2>1, <2>2, <2>3, HalfFacts
  <2>5. PICK w \in View : /\ HalfView(g, w)
                          /\ w.o = v.o /\ w.w = v.w /\ w.d = v.d - 1
                          /\ w.x = v.x /\ w.g = v.g + 1 /\ w.s = v.s /\ w.h = v.h
    BY <2>4
  <2>6. Joined(i, w, y, L1, Tail(M))
    BY <1>9, <2>2, <2>5
  <2>7. g # NoHalf
    <3> HIDE DEF g
    <3> QED
      BY <2>4 DEF NoHalf
  <2>8. /\ link' = [link EXCEPT !["client"][c] = L1, !["exit"][c] = Tail(M)]
        /\ UNCHANGED <<ap, n_streams>> /\ refused' = refused
        /\ half_streams' = [half_streams EXCEPT ![c][i] = g]
    <3>1. First("client", c).id = i
      BY <1>1
    <3> HIDE DEF i, M, h
    <3> QED
      BY <1>1, <1>3, <1>10, <2>7, <3>1, <1>0 DEF DeliverData, Unattached, h, n
  <2> HIDE DEF g
  <2>9. half_streams' = [half_streams EXCEPT ![c] = [half_streams[c] EXCEPT ![i] = g]]
    BY <2>8
  <2> HIDE DEF y, L1
  <2>10. Stream(i, {}, ap, g, y, L1, Tail(M))
    BY <2>4, <2>5, <2>6, StreamHalf
  <2>11. Put(Seq(Cell), link, link', c, L1, Tail(M))
    <3>1. Put(Seq(Cell), link, [link EXCEPT !["client"][c] = L1, !["exit"][c] = Tail(M)], c,
              L1, Tail(M))
      BY <1>2, <1>4, <1>6, PutBoth
    <3> QED
      BY <2>8, <3>1
  <2>12. \A j \in Id \ {i} : /\ Keeps(link["client"][c], L1, j)
                             /\ Keeps(link["exit"][c], Tail(M), j)
    BY <1>2, <1>6
  <2>13. /\ Stream(i, {}, ap, g, FarOf(n_streams[c][i]), L1, Tail(M))
         /\ Lookup("client", c, i) = {} /\ (g.live => half_streams[c][i].live)
    BY <2>3, <2>10, <1>10 DEF y
  <2> DEFINE R == Tail(M)
  <2>14. /\ UNCHANGED <<ap, on_circuit, tried, n_streams, next_stream_id, unusable,
                        package_window>>
         /\ refused' = refused
    BY <1>3, <2>8
  <2> HIDE DEF i, R
  <2>15. /\ Put(Seq(Cell), link, link', c, L1, R)
         /\ Links(package_window["client"][c], package_window["exit"][c],
                  dw, deliver_window["exit"][c], L1, R)
         /\ \A j \in Id \ {i} : Keeps(link["client"][c], L1, j) /\ Keeps(link["exit"][c], R, j)
         /\ Stream(i, {}, ap, g, FarOf(n_streams[c][i]), L1, R)
    BY <1>5, <2>11, <2>12, <2>13 DEF R
  <2> HIDE DEF M, L, h, ks
  <2> QED
    BY <1>2, <1>7, <2>4, <2>9, <2>13, <2>14, <2>15, ClientHalf
<1>11. CASE ks # {}
  <2>1. PICK a : a \in ks
    BY <1>11
  <2>2. /\ a \in Conn /\ on_circuit[a] = c /\ ap[a].id = i
        /\ ap[a].state \in {"connect_wait", "open"}
        /\ ks = {a} /\ ap[a] \in Edge /\ EdgePart(ap[a]) /\ ClientPart(ap[a])
        /\ Joined(i, ViewOf(ap[a]), y, L, M) /\ a \in On("client", c)
    <3> HIDE DEF i
    <3> QED
      BY <1>2, <2>1, LookupAtClient
  <2> DEFINE edge == ap[a]
             x == Head(M)
             v == ViewOf(edge)
             g == [edge EXCEPT !.deliver = @ - 1, !.out = @ + 1,
                               !.got = Append(@, Data(x.conn, x.n))]
             s == IF g.state = "open" THEN SendmesDue(g) ELSE 0
             f == [g EXCEPT !.deliver = @ + s * StreamInc]
             m == Message("SENDME", g)
             r == Copies(s, m)
             L2 == L1 \o r
             w1 == ViewOf(g)
             w == ViewOf(f)
  <2>3. /\ v \in View /\ v.o = edge.conn /\ v.w = edge.package /\ v.d = edge.deliver
        /\ v.x = (edge.state = "connect_wait") /\ v.g = Len(edge.got)
        /\ v.s = SentOf(edge) /\ v.h = FALSE
    BY <2>2, ViewOfEdge
  <2>4. /\ edge.state = "open" /\ x.conn = edge.conn /\ x.n = Len(edge.got) + 1
        /\ edge.deliver >= 1
    BY <1>9, <2>2, <2>3
  <2>5. Gets(g, edge)
    <3>1. g = [edge EXCEPT !.deliver = @ - 1, !.out = @ + 1,
                           !.got = Append(@, Data(edge.conn, Len(edge.got) + 1))]
      BY <2>4
    <3>2. edge \in Edge /\ edge.deliver >= 1
      BY <2>2, <2>4
    <3> HIDE DEF edge, g
    <3> QED
      BY <3>1, <3>2, GetsFacts
  <2> HIDE DEF g
  <2>6. /\ g \in Edge /\ g.state = "open" /\ g.deliver \in Nat /\ g.id = i /\ g.deliver >= 0
    <3>1. g \in Edge /\ g.state = "open" /\ g.id = i
      BY <2>2, <2>4, <2>5 DEF Gets
    <3>2. g.deliver \in Nat
      BY <3>1, EdgeType
    <3> QED
      BY <3>1, <3>2
  <2>7. /\ ap' = [ap EXCEPT ![a] = f] /\ n_streams' = n_streams
        /\ link' = [link EXCEPT !["client"][c] = L2, !["exit"][c] = Tail(M)]
        /\ UNCHANGED <<half_streams, refused>>
    <3>1. ~(edge.state = "connect_wait" \/ g.deliver < 0)
      <4> HIDE DEF edge
      <4> QED
        BY <2>4, <2>6
    <3>2. First("client", c).id = i
      BY <1>1
    <3>3. /\ SetEdges("client", c, [ap EXCEPT ![a] = f])
          /\ link' = [link EXCEPT ![Peer("client")][c] = Rest("client", c), !["client"][c] = L2]
          /\ UNCHANGED <<half_streams, refused>>
      <4>1. g = GotData("client", c, a)
        BY <1>1, <1>3 DEF g, GotData
      <4>2. /\ Lookup("client", c, First("client", c).id) = {a}
            /\ ~(Edges("client", c)[a].state = "connect_wait"
                   \/ GotData("client", c, a).deliver < 0)
        BY <1>1, <1>3, <2>2, <3>1, <3>2, <4>1
      <4>3. Takes("client", c, a, g)
        BY <1>0, <4>1, <4>2, DataTaken
      <4> QED
        <5> DEFINE t == IF g.state = "open" THEN SendmesDue(g) ELSE 0
                   j == Due(CircStart, CircInc, deliver_window["client"][c] - 1)
        <5>1. /\ SetEdges("client", c, [Edges("client", c) EXCEPT ![a] =
                                          [g EXCEPT !.deliver = @ + t * StreamInc]])
              /\ link' = [link EXCEPT ![Peer("client")][c] = Rest("client", c), !["client"][c] =
                            (link["client"][c] \o CircSendme(c, j))
                              \o Copies(t, Message("SENDME", g))]
              /\ UNCHANGED <<half_streams, refused>>
          BY <4>3 DEF Takes
        <5>2. j = n /\ t = s
          BY DEF n
        <5> HIDE DEF t, j
        <5> QED
          BY <1>3, <5>1, <5>2
    <3> HIDE DEF f, L2
    <3>4. [link EXCEPT !["exit"][c] = Tail(M), !["client"][c] = L2]
            = [link EXCEPT !["client"][c] = L2, !["exit"][c] = Tail(M)]
      BY <1>4 DEF End
    <3> QED
      BY <1>1, <1>3, <3>3, <3>4 DEF SetEdges
  <2> HIDE DEF x
  <2>8. s \in Nat /\ g.deliver + s * StreamInc <= StreamStart
    BY <2>6, SendmesDueFacts
  <2> HIDE DEF s
  <2>9. Acks(f, g, s)
    BY <2>6, <2>8, AcksFacts
  <2> HIDE DEF f
  <2>10. /\ EdgePart(g) /\ EdgePart(f) /\ SentOf(g) = SentOf(edge) /\ SentOf(f) = SentOf(edge)
         /\ Len(g.got) = Len(edge.got) + 1 /\ Len(f.got) = Len(edge.got) + 1
         /\ ClientPart(f) /\ \A u : Flows(u, edge) => Flows(u, f)
    <3>1. edge \in Edge /\ EdgePart(edge) /\ ClientPart(edge) /\ edge.state = "open"
      BY <2>2, <2>4
    <3> HIDE DEF edge
    <3> QED
      BY <2>5, <2>8, <2>9, <3>1, GotFacts
  <2>11. m \in Cell /\ m.cmd = "SENDME" /\ m.id = i
    BY <2>6, MessageFacts
  <2> HIDE DEF edge
  <2>12. /\ f \in Edge /\ f.conn = edge.conn /\ f.id = edge.id /\ f.state = edge.state
         /\ f.sending = edge.sending /\ f.package = edge.package /\ g.package = edge.package
         /\ g.deliver = edge.deliver - 1 /\ f.deliver = g.deliver + s * StreamInc
         /\ g.conn = edge.conn
    BY <2>5, <2>9 DEF Gets, Acks
  <2>13. /\ w1 \in View /\ w1.o = v.o /\ w1.w = v.w /\ w1.d = v.d - 1 /\ w1.x = v.x
         /\ w1.g = v.g + 1 /\ w1.s = v.s /\ w1.h = v.h /\ w1.d = g.deliver /\ ~w1.x
    <3>1. /\ w1 \in View /\ w1.o = g.conn /\ w1.w = g.package /\ w1.d = g.deliver
          /\ w1.x = (g.state = "connect_wait") /\ w1.g = Len(g.got)
          /\ w1.s = SentOf(g) /\ w1.h = FALSE
      BY <2>6, <2>10, ViewOfEdge
    <3> HIDE DEF w1, v
    <3> QED
      BY <2>3, <2>4, <2>6, <2>10, <2>12, <3>1
  <2>14. /\ w \in View /\ w.o = w1.o /\ w.w = w1.w /\ w.d = w1.d + s * StreamInc
         /\ w.x = w1.x /\ w.g = w1.g /\ w.s = w1.s /\ w.h = w1.h
    <3>1. /\ w \in View /\ w.o = f.conn /\ w.w = f.package /\ w.d = f.deliver
          /\ w.x = (f.state = "connect_wait") /\ w.g = Len(f.got)
          /\ w.s = SentOf(f) /\ w.h = FALSE
      BY <2>12, <2>10, ViewOfEdge
    <3> HIDE DEF w, w1, v
    <3> QED
      BY <2>3, <2>4, <2>10, <2>12, <2>13, <3>1
  <2>15. /\ L2 \in Seq(Cell) /\ r \in Seq(Cell) /\ Plain(r)
         /\ \A j \in Id \ {i} : Keeps(L1, L2, j)
    BY <1>2, <1>6, <2>8, <2>11, SaysFacts
  <2> DEFINE R == Tail(M)
  <2>16. /\ Joined(i, v, y, L, M) /\ R \in Seq(Cell)
         /\ \A j \in Id \ {i} : Keeps(L, L2, j) /\ Keeps(M, R, j)
    <3>1. Joined(i, v, y, L, M)
      BY <2>2 DEF edge
    <3> HIDE DEF L2, L1, r
    <3>2. \A j \in Id \ {i} : Keeps(L, L2, j)
      BY <1>6, <2>15 DEF Keeps
    <3> QED
      BY <1>2, <3>1, <3>2
  <2>17. Joined(i, w1, y, L1, R)
    <3> HIDE DEF w1, v, y, L1, L
    <3> QED
      BY <1>9, <2>3, <2>13, <2>16
  <2>18. Joined(i, w, y, L2, R)
    <3> HIDE DEF w1, w, y, L1, R, i, m
    <3> QED
      BY <1>2, <1>6, <2>8, <2>11, <2>13, <2>14, <2>16, <2>17, StepClientAcks
  <2>19. Links(package_window["client"][c], package_window["exit"][c],
               dw, deliver_window["exit"][c], L2, R)
    <3> HIDE DEF L1, r
    <3> QED
      BY <1>2, <1>5, <1>6, <2>15, LinksSay
  <2>20. Put(Seq(Cell), link, link', c, L2, R)
    <3> HIDE DEF L2, R
    <3>1. Put(Seq(Cell), link, [link EXCEPT !["client"][c] = L2, !["exit"][c] = R], c, L2, R)
      BY <1>4, <2>15, <2>16, PutBoth
    <3>2. link' = [link EXCEPT !["client"][c] = L2, !["exit"][c] = R]
      BY <2>7 DEF R
    <3> QED
      BY <3>1, <3>2
  <2>21. /\ UNCHANGED <<on_circuit, tried, n_streams, half_streams, next_stream_id, unusable,
                        package_window>>
         /\ refused' = refused /\ ap' = [ap EXCEPT ![a] = f]
    BY <1>3, <2>7
  <2>22. /\ f.conn = ap[a].conn /\ f.id = ap[a].id /\ f.state = ap[a].state
         /\ f.sending = ap[a].sending /\ \A u : Flows(u, ap[a]) => Flows(u, f)
    BY <2>10, <2>12 DEF edge
  <2> HIDE DEF L2, R
  <2>23. /\ \A j \in Id \ {ap[a].id} : /\ Keeps(link["client"][c], L2, j)
                                       /\ Keeps(link["exit"][c], R, j)
         /\ Joined(ap[a].id, ViewOf(f), FarOf(n_streams[c][ap[a].id]), L2, R)
    BY <2>2, <2>16, <2>18
  <2> HIDE DEF L1, L, M, i
  <2> QED
    BY <1>7, <2>2, <2>10, <2>12, <2>19, <2>20, <2>21, <2>22, <2>23, ClientGets
<1> QED
  BY <1>10, <1>11

\* A SENDME for the circuit arrives at the client.
LEMMA InvReceiveCircSendmeAtClient ==
    ASSUME IInv, NEW c \in Circ, ReceiveCircSendme("client", c), closes' \in 0..MaxCloses
    PROVE  IInv'
<1> DEFINE L == link["client"][c]
           M == link["exit"][c]
           p == package_window["client"][c] + CircInc
           ks == On("client", c)
<1>1. /\ M # <<>> /\ Head(M).cmd = "CIRC_SENDME" /\ Rest("client", c) = Tail(M)
  BY ArrivesFacts DEF ReceiveCircSendme
<1>2. /\ L \in Seq(Cell) /\ M \in Seq(Cell) /\ CircuitPart(c) /\ n_streams[c] \in [Id -> Edge]
      /\ package_window["client"][c] \in Nat /\ deliver_window["exit"][c] \in Nat
      /\ deliver_window["exit"][c] <= CircStart /\ c # NoCirc
  BY CircuitNow DEF End
<1>3. /\ p <= CircStart /\ p \in Nat
      /\ Links(p, package_window["exit"][c], deliver_window["client"][c],
               deliver_window["exit"][c], L, Tail(M))
  <2>1. Links(package_window["client"][c], package_window["exit"][c],
              deliver_window["client"][c], deliver_window["exit"][c], L, M)
    BY <1>2 DEF CircuitPart
  <2>2. p \in Nat
    BY <1>2, Sizes
  <2> QED
    BY <1>1, <1>2, <2>1, <2>2, LinksAcked
<1>4. \A i \in Id : Head(M).id # i
  <2>1. Named(M)
    BY <1>2 DEF CircuitPart, Links
  <2>2. Head(M) = M[1] /\ 1 \in DOMAIN M
    BY <1>1, <1>2, TailFacts
  <2> QED
    BY <1>1, <2>1, <2>2 DEF Named
<1>5. Tail(M) \in Seq(Cell) /\ \A i \in Id : Keeps(L, L, i) /\ Keeps(M, Tail(M), i)
  BY <1>1, <1>2, <1>4, TailHas, KeepsTail, KeepsSame
<1>6. Streams(ks, ap, half_streams[c], n_streams[c], L, Tail(M))
  <2> SUFFICES ASSUME NEW i \in Id
               PROVE  Stream(i, {a \in ks : ap[a].id = i}, ap,
                             half_streams[c][i], FarOf(n_streams[c][i]), L, Tail(M))
    BY DEF Streams
  <2> DEFINE at == {a \in ks : ap[a].id = i}
  <2>1. Stream(i, at, ap, half_streams[c][i], FarOf(n_streams[c][i]), L, M)
    BY StreamNow
  <2> HIDE DEF at, L, M
  <2>2. Stream(i, at, ap, half_streams[c][i], FarOf(n_streams[c][i]), L, Tail(M))
    BY <1>5, <2>1, StreamOther DEF SameFar
  <2> QED
    BY <2>2 DEF at
<1>7. /\ ks \in SUBSET Conn /\ ks = {a \in Conn : on_circuit[a] = c} /\ ap \in [Conn -> Edge]
      /\ Apart(ks, ap) /\ \A a \in Conn : EdgePart(ap[a]) /\ ClientPart(ap[a]) /\ FlowPart(a)
  BY ClientNow DEF IInv
<1>8. Ready(c, ap, p, Tail(M))
  <2> HIDE DEF p
  <2> QED
    BY <1>3, <1>5, <1>6, <1>7 DEF Ready
<1>9. PICK P \in Resumed(ks, ap, p, L) : Apply("client", c, P, Tail(M))
  <2>1. ~(package_window["client"][c] + CircInc > CircStart)
    BY <1>2, <1>3, Sizes
  <2>2. Edges("client", c) = ap
    BY DEF Edges
  <2> QED
    BY <1>1, <2>1, <2>2 DEF ReceiveCircSendme
<1>10. /\ UNCHANGED <<on_circuit, tried, half_streams, next_stream_id, unusable,
                      deliver_window>>
       /\ refused' = refused
  <2>1. ~(package_window["client"][c] + CircInc > CircStart)
    BY <1>2, <1>3, Sizes
  <2> QED
    BY <2>1 DEF ReceiveCircSendme, id_vars
<1> HIDE DEF p, ks, M
<1>11. PICK r \in Seq(Cell) :
        /\ P.queue = L \o r /\ P.window \in Nat /\ P.window = p - Len(r)
        /\ P.edges \in [Conn -> Edge] /\ Sends(ks, ap, P.edges, r)
        /\ \A j \in ks : ap[j].sending = <<>> => Flows(P.window, P.edges[j])
  <2>1. ks \subseteq Conn /\ Apart(ks, ap) /\ \A j \in ks : EdgePart(ap[j])
    BY <1>7
  <2>2. ap \in [Conn -> Edge] /\ p \in Nat /\ L \in Seq(Cell)
    BY <1>2, <1>3, <1>7
  <2> HIDE DEF L
  <2> QED
    BY <1>9, <2>1, <2>2, ResumedFacts
<1>12. /\ ap' = P.edges /\ n_streams' = n_streams
       /\ package_window' = [package_window EXCEPT !["client"][c] = P.window]
       /\ link' = [link EXCEPT !["client"][c] = L \o r, !["exit"][c] = Tail(M)]
  BY <1>9, <1>11 DEF Apply, SetEdges, Peer
<1> DEFINE F == P.edges
<1>13. Turn(c, ap, p, F, r)
  <2>1. \A a \in ks : tried[a] = {c} => ap[a].sending = <<>> /\ Flows(P.window, P.edges[a])
    BY <1>2, <1>7, <1>11 DEF FlowPart
  <2> QED
    BY <1>11, <2>1 DEF Turn, ks
<1>14. package_window' = [package_window EXCEPT !["client"][c] = p - Len(r)]
  BY <1>11, <1>12
<1>15. UNCHANGED <<on_circuit, tried, n_streams, half_streams, next_stream_id, unusable,
                   deliver_window>>
  BY <1>10, <1>12
<1>16. ap' = F
  BY <1>12
<1> HIDE DEF F
<1> QED
  BY <1>8, <1>10, <1>12, <1>13, <1>14, <1>15, <1>16, ClientTurn

\* get_unique_stream_id_by_circ finds an id that is free, and goes on after it.
LEMMA UniqueIdFacts ==
    ASSUME IInv, NEW c \in Circ, FreeIds(c) # {}
    PROVE  /\ UniqueId(c) \in FreeIds(c) /\ UniqueId(c) \in Id
           /\ (UniqueId(c) % MaxId[c]) + 1 \in Id
<1> DEFINE m == MaxId[c]
           s == next_stream_id[c]
           F == FreeIds(c)
           after(i) == (i - s) % m
           S == {after(i) : i \in F}
<1>1. m \in Nat /\ m > 0 /\ IdOf(c) = 1..m /\ IdOf(c) \subseteq Id
  BY ConstantsAssumption DEF IdOf, Id
<1>2. \A i \in Id : i \in Int
  BY ConstantsAssumption DEF Id, IdOf
<1>3. s \in Int
  BY <1>2 DEF IInv, TypeOK
<1>4. F \subseteq 1..m
  BY <1>1 DEF FreeIds
<1> HIDE DEF m, s, F
<1>5. \A k \in Int : k % m \in Nat /\ k % m < m
  BY <1>1
<1>6. \A i \in F : after(i) \in Nat
  BY <1>3, <1>4, <1>5
<1> HIDE DEF after
<1>7. S \in SUBSET Nat /\ S # {}
  BY <1>6 DEF F
<1>8. PICK i \in F : after(i) = Min(S)
  BY <1>7, MinExists
<1>9. \A j \in F : after(i) <= after(j)
  BY <1>7, <1>8, MinExists
<1>10. UniqueId(c) = CHOOSE k \in F : \A j \in F : after(k) <= after(j)
  BY DEF UniqueId, F, after, m, s
<1>11. UniqueId(c) \in F
  BY <1>9, <1>10
<1>12. UniqueId(c) \in Int
  <2>1. UniqueId(c) \in 1..m
    BY <1>4, <1>11
  <2> QED
    BY <1>1, <2>1
<1>13. (UniqueId(c) % m) + 1 \in 1..m
  <2> DEFINE u == UniqueId(c) % m
  <2>1. u \in Nat /\ u < m
    BY <1>5, <1>12
  <2> HIDE DEF u
  <2>2. u + 1 \in 1..m
    BY <1>1, <2>1
  <2> QED
    BY <2>2 DEF u
<1> QED
  BY <1>1, <1>4, <1>11, <1>13 DEF F, m

\* The edge of a connection when it is attached.
Attached(edge, id) == [edge EXCEPT !.state = "connect_wait", !.id = id,
                                   !.package = StreamStart, !.deliver = StreamStart]

LEMMA AttachedFacts ==
    ASSUME NEW edge \in Edge, ClientPart(edge), edge.state = "circuit_wait", NEW id \in Id
    PROVE  LET f == Attached(edge, id)
           IN  /\ f \in Edge /\ f.state = "connect_wait" /\ f.conn = edge.conn /\ f.id = id
               /\ f.package = StreamStart /\ f.deliver = StreamStart
               /\ f.sending = edge.sending /\ f.reading = edge.reading
               /\ ClientPart(f) /\ EdgePart(f) /\ SentOf(f) = 0 /\ Len(f.got) = 0
<1> DEFINE f == Attached(edge, id)
<1>1. /\ f \in Edge /\ f.state = "connect_wait" /\ f.conn = edge.conn /\ f.id = id
      /\ f.package = StreamStart /\ f.deliver = StreamStart
      /\ f.in = edge.in /\ f.sending = edge.sending /\ f.pending = edge.pending
      /\ f.out = edge.out /\ f.got = edge.got /\ f.written = edge.written
      /\ f.reading = edge.reading
  <2>1. StreamStart \in 0..StreamStart
    BY Sizes
  <2> QED
    BY <2>1 DEF Edge, Attached
<1> HIDE DEF f
<1>2. /\ EdgePart(edge) /\ edge.got = <<>> /\ edge.out = 0
      /\ Len(edge.pending) = edge.written - Len(edge.in)
      /\ \A j \in 1..Len(edge.pending) : edge.pending[j] = Data(edge.conn, j)
      /\ Len(edge.sending) = Len(edge.pending)
  BY DEF ClientPart
<1>3. EdgePart(f) /\ SentOf(f) = SentOf(edge)
  <2>1. f.deliver > StreamStart - StreamInc
    BY <1>1, Sizes
  <2> QED
    BY <1>1, <1>2, <2>1, SameData
<1>4. SentOf(edge) = 0
  <2> DEFINE a == Len(edge.in)
             b == Len(edge.sending)
             w == edge.written
  <2>1. a \in Nat /\ b \in Nat /\ w \in Nat /\ b = w - a
    BY <1>2, EdgeType
  <2> HIDE DEF a, b, w
  <2>2. w - a - b = 0
    BY <2>1
  <2> QED
    BY <2>2 DEF SentOf, a, b, w
<1>5. Len(f.got) = 0
  BY <1>1, <1>2
<1>6. ClientPart(f)
  BY <1>1, <1>2, <1>3 DEF ClientPart
<1> QED
  BY <1>1, <1>3, <1>4, <1>5, <1>6 DEF f

\* Edges that send nothing.
LEMMA SendsNothing ==
    ASSUME NEW E, NEW ks, \A k \in ks : E[k] \in Edge /\ EdgePart(E[k])
    PROVE  Sends(ks, E, E, <<>>) /\ <<>> \in Seq(Cell) /\ Len(<<>>) = 0
<1> DEFINE r == <<>>
<1>1. r \in Seq(Cell) /\ AllData(r) /\ DOMAIN r = {} /\ Len(r) = 0
  BY DEF AllData
<1>2. ASSUME NEW k \in ks
      PROVE  /\ Packs(E[k], E[k], 0) /\ SentOf(E[k]) \in Nat
             /\ DataRange(r, E[k].id, E[k].conn, SentOf(E[k]), SentOf(E[k]) + 0)
  <2>1. Packs(E[k], E[k], 0) /\ SentOf(E[k]) \in Nat
    BY PacksNothing, AvailableFacts
  <2>2. ~Has(r, E[k].id, "DATA")
    BY <1>1 DEF Has
  <2> HIDE DEF r
  <2>3. DataRange(r, E[k].id, E[k].conn, SentOf(E[k]), SentOf(E[k]))
    BY <2>1, <2>2, RangeEmpty
  <2>4. SentOf(E[k]) + 0 = SentOf(E[k])
    BY <2>1
  <2> QED
    BY <2>1, <2>3, <2>4
<1> HIDE DEF r
<1>3. Sends(ks, E, E, r)
  BY <1>1, <1>2 DEF Sends
<1> QED
  BY <1>1, <1>3 DEF r

\* Connection a begins a stream on circuit c: the client's edges are E, and L are the
\* cells that it then has under way, before what it sends ahead.
Begins(a, c, E, L) ==
    /\ a \in Conn /\ on_circuit[a] = NoCirc /\ E \in [Conn -> Edge] /\ L \in Seq(Cell)
    /\ \A b \in Conn \ {a} : E[b] = ap[b]
    /\ E[a].conn = a /\ E[a].state = "connect_wait" /\ E[a].id \in Id /\ ClientPart(E[a])
    /\ ~half_streams[c][E[a].id].live /\ \A b \in On("client", c) : ap[b].id # E[a].id
    /\ Streams(On("client", c) \cup {a}, E, half_streams[c], n_streams[c], L, link["exit"][c])
    /\ Links(package_window["client"][c], package_window["exit"][c],
             deliver_window["client"][c], deliver_window["exit"][c], L, link["exit"][c])

\* They send r ahead, and become F.
Ahead(a, c, E, left, F, r) ==
    /\ r \in Seq(Cell) /\ left = package_window["client"][c] - Len(r) /\ left \in Nat
    /\ F \in [Conn -> Edge] /\ Sends(On("client", c) \cup {a}, E, F, r)
    /\ \A b \in On("client", c) : tried[b] = {c} => Flows(left, F[b])
    /\ tried'[a] = {c} => F[a].sending = <<>> /\ Flows(left, F[a])

\* What is known of the edges after that.
LEMMA AheadFacts ==
    ASSUME IInv, NEW c \in Circ, NEW a, NEW E, NEW L, Begins(a, c, E, L),
           NEW left, NEW F, NEW r, Ahead(a, c, E, left, F, r)
    PROVE  LET ks == On("client", c) \cup {a}
           IN  /\ ks \in SUBSET Conn /\ Apart(ks, E)
               /\ \A b \in ks : /\ E[b].state \in {"connect_wait", "open"} /\ E[b].id \in Id
                                /\ ~half_streams[c][E[b].id].live /\ EdgePart(E[b])
               /\ \A b \in Conn : /\ ClientPart(F[b]) /\ F[b].state = E[b].state
                                  /\ F[b].conn = E[b].conn /\ F[b].id = E[b].id
                                  /\ E[b].sending = <<>> => F[b].sending = <<>>
                                  /\ b \notin ks => F[b] = ap[b]
               /\ L \o r \in Seq(Cell) /\ left \in 0..CircStart
               /\ Streams(ks, F, half_streams[c], n_streams[c], L \o r, link["exit"][c])
               /\ Links(left, package_window["exit"][c], deliver_window["client"][c],
                        deliver_window["exit"][c], L \o r, link["exit"][c])
<1> DEFINE K == On("client", c)
           ks == K \cup {a}
           H == half_streams[c]
           N == n_streams[c]
           M == link["exit"][c]
           p == package_window["client"][c]
<1>0. /\ a \in Conn /\ on_circuit[a] = NoCirc /\ E \in [Conn -> Edge] /\ L \in Seq(Cell)
      /\ \A b \in Conn \ {a} : E[b] = ap[b]
      /\ E[a].conn = a /\ E[a].state = "connect_wait" /\ E[a].id \in Id /\ ClientPart(E[a])
      /\ ~H[E[a].id].live /\ \A b \in K : ap[b].id # E[a].id
      /\ Streams(ks, E, H, N, L, M)
      /\ Links(p, package_window["exit"][c], deliver_window["client"][c],
               deliver_window["exit"][c], L, M)
      /\ r \in Seq(Cell) /\ left = p - Len(r) /\ left \in Nat
      /\ F \in [Conn -> Edge] /\ Sends(ks, E, F, r)
  BY DEF Begins, Ahead
<1>1. /\ M \in Seq(Cell) /\ N \in [Id -> Edge] /\ H \in [Id -> Half] /\ c # NoCirc
      /\ Exits(N, package_window["exit"][c]) /\ deliver_window["exit"][c] \in Nat
      /\ p \in Nat /\ p <= CircStart
  BY CircuitNow DEF CircuitPart, End
<1>2. /\ K \in SUBSET Conn /\ K = {b \in Conn : on_circuit[b] = c} /\ Apart(K, ap)
      /\ \A b \in K : /\ ap[b].state \in {"connect_wait", "open"} /\ ap[b].id \in Id
                      /\ ~H[ap[b].id].live
  BY ClientNow
<1>3. \A b \in Conn : ClientPart(ap[b])
  BY DEF IInv
<1> HIDE DEF K, H, N, M, p
<1>4. ks \in SUBSET Conn /\ \A b \in K : b # a /\ b \in Conn /\ E[b] = ap[b]
  BY <1>0, <1>1, <1>2
<1>5. /\ Apart(ks, E)
      /\ \A b \in ks : /\ E[b].state \in {"connect_wait", "open"} /\ E[b].id \in Id
                       /\ ~H[E[b].id].live /\ EdgePart(E[b])
  <2>1. ASSUME NEW b \in ks
        PROVE  /\ E[b].state \in {"connect_wait", "open"} /\ E[b].id \in Id
               /\ ~H[E[b].id].live /\ EdgePart(E[b])
    <3>1. CASE b = a
      BY <1>0, <3>1 DEF ClientPart
    <3>2. CASE b \in K
      BY <1>2, <1>3, <1>4, <3>2 DEF ClientPart
    <3> QED
      BY <3>1, <3>2
  <2>2. ASSUME NEW b \in ks, NEW d \in ks, E[b].id = E[d].id PROVE b = d
    <3>1. CASE b = a /\ d = a
      BY <3>1
    <3>2. CASE b \in K /\ d = a
      BY <1>0, <1>4, <2>2, <3>2
    <3>3. CASE b = a /\ d \in K
      BY <1>0, <1>4, <2>2, <3>3
    <3>4. CASE b \in K /\ d \in K
      BY <1>2, <1>4, <2>2, <3>4 DEF Apart
    <3> QED
      BY <3>1, <3>2, <3>3, <3>4
  <2> QED
    BY <2>1, <2>2 DEF Apart
<1>6. \A b \in Conn : ClientPart(E[b])
  BY <1>0, <1>3
<1> HIDE DEF ks
<1>7. Streams(ks, F, H, N, L \o r, M)
  BY <1>0, <1>1, <1>4, <1>5, ClientSendsAll
<1>8. \A b \in Conn : /\ ClientPart(F[b])
                      /\ F[b].state = E[b].state /\ F[b].conn = E[b].conn
                      /\ F[b].id = E[b].id
                      /\ E[b].sending = <<>> => F[b].sending = <<>>
                      /\ b \notin ks => F[b] = E[b]
  <2>1. /\ Sends(ks, E, F, r) /\ E \in [Conn -> Edge] /\ F \in [Conn -> Edge]
        /\ r \in Seq(Cell) /\ \A b \in Conn : ClientPart(E[b])
    BY <1>0, <1>6 DEF ks
  <2>2. ks \in SUBSET Conn /\ \A b \in ks : E[b].state \in {"connect_wait", "open"}
    BY <1>4, <1>5
  <2> QED
    BY <2>1, <2>2, ClientsSend
<1>9. \A b \in Conn : b \notin ks => F[b] = ap[b]
  BY <1>0, <1>8 DEF ks
<1>10. AllData(r) /\ \A k \in DOMAIN r : r[k].id \in Id
  BY <1>0, <1>5 DEF Sends
<1>11. Links(left, package_window["exit"][c], deliver_window["client"][c],
             deliver_window["exit"][c], L \o r, M)
  BY <1>0, <1>1, <1>10, LinksSend
<1>12. L \o r \in Seq(Cell) /\ left \in 0..CircStart
  <2>1. Len(r) \in Nat /\ L \o r \in Seq(Cell)
    BY <1>0, ConcatFacts
  <2> QED
    BY <1>0, <1>1, <2>1, Sizes
<1> QED
  BY <1>4, <1>5, <1>7, <1>8, <1>9, <1>11, <1>12 DEF ks, K, H, N, M

\* The step that attaches.
LEMMA ClientBegins ==
    ASSUME IInv, NEW c \in Circ, NEW a, NEW E, NEW L, Begins(a, c, E, L),
           NEW left, NEW F, NEW r, Ahead(a, c, E, left, F, r),
           ap' = F, on_circuit' = [on_circuit EXCEPT ![a] = c],
           package_window' = [package_window EXCEPT !["client"][c] = left],
           link' = [link EXCEPT !["client"][c] = L \o r],
           tried' \in [Conn -> SUBSET Circ], \A b \in Conn \ {a} : tried'[b] = tried[b],
           IsFiniteSet(tried'[a]), c \in tried'[a], next_stream_id' \in [Circ -> Id],
           UNCHANGED <<n_streams, half_streams, unusable, deliver_window>>,
           refused' = refused, closes' \in 0..MaxCloses
    PROVE  IInv'
<1> DEFINE K == On("client", c)
           ks == K \cup {a}
           H == half_streams[c]
           M == link["exit"][c]
           Q == L \o r
<1>0. /\ a \in Conn /\ on_circuit[a] = NoCirc
      /\ \A b \in Conn \ {a} : E[b] = ap[b]
      /\ E[a].conn = a /\ E[a].state = "connect_wait" /\ E[a].id \in Id
      /\ F \in [Conn -> Edge]
      /\ \A b \in K : tried[b] = {c} => Flows(left, F[b])
      /\ tried'[a] = {c} => F[a].sending = <<>> /\ Flows(left, F[a])
  BY DEF Begins, Ahead
<1>1. /\ ks \in SUBSET Conn /\ Apart(ks, E)
      /\ \A b \in ks : /\ E[b].state \in {"connect_wait", "open"} /\ E[b].id \in Id
                       /\ ~H[E[b].id].live /\ EdgePart(E[b])
      /\ \A b \in Conn : /\ ClientPart(F[b]) /\ F[b].state = E[b].state
                         /\ F[b].conn = E[b].conn /\ F[b].id = E[b].id
                         /\ E[b].sending = <<>> => F[b].sending = <<>>
                         /\ b \notin ks => F[b] = ap[b]
      /\ Q \in Seq(Cell) /\ left \in 0..CircStart
      /\ Streams(ks, F, H, n_streams[c], Q, M)
      /\ Links(left, package_window["exit"][c], deliver_window["client"][c],
               deliver_window["exit"][c], Q, M)
  BY AheadFacts
<1>2. /\ TypeOK /\ OwnPart /\ refused = {} /\ c # NoCirc /\ M \in Seq(Cell)
      /\ \A b \in Conn : FlowPart(b)
  BY CircuitNow DEF IInv
<1>3. K = {b \in Conn : on_circuit[b] = c}
  BY DEF On
<1>4. /\ on_circuit' \in [Conn -> Circ \cup {NoCirc}] /\ on_circuit'[a] = c
      /\ \A b \in Conn \ {a} : on_circuit'[b] = on_circuit[b]
  BY <1>0, <1>2 DEF TypeOK
<1>5. On("client", c)' = ks
  <2>1. On("client", c)' = {b \in Conn : on_circuit'[b] = c}
    BY DEF On
  <2> QED
    BY <1>0, <1>3, <1>4, <2>1
<1>6. \A b \in Conn : b # a => F[b].conn = ap[b].conn /\ F[b].id = ap[b].id
                               /\ F[b].state = ap[b].state
  BY <1>0, <1>1
<1>7. OwnPart'
  <2>1. ASSUME NEW b \in Conn
        PROVE  /\ F[b].conn = b
               /\ F[b].state \in {"circuit_wait", "connect_wait", "open", "closed"}
               /\ on_circuit'[b] # NoCirc <=> F[b].state \in {"connect_wait", "open"}
               /\ on_circuit'[b] # NoCirc => F[b].id \in Id
    <3>1. CASE b = a
      BY <1>0, <1>1, <1>2, <1>4, <3>1
    <3>2. CASE b # a
      BY <1>2, <1>4, <1>6, <3>2 DEF OwnPart
    <3> QED
      BY <3>1, <3>2
  <2>2. ASSUME NEW b \in Conn, NEW d \in Conn, on_circuit'[b] # NoCirc,
               on_circuit'[b] = on_circuit'[d], F[b].id = F[d].id
        PROVE  b = d
    <3>1. CASE on_circuit'[b] = c
      <4>1. b \in ks /\ d \in ks
        BY <1>3, <1>4, <2>2, <3>1
      <4>2. E[b].id = E[d].id
        BY <1>1, <2>2
      <4> HIDE DEF ks
      <4> QED
        BY <1>1, <4>1, <4>2 DEF Apart
    <3>2. CASE on_circuit'[b] # c
      <4>1. b # a /\ d # a
        BY <1>4, <2>2, <3>2
      <4> QED
        BY <1>2, <1>4, <1>6, <2>2, <4>1 DEF OwnPart
    <3> QED
      BY <3>1, <3>2
  <2>3. ASSUME NEW b \in Conn, on_circuit'[b] # NoCirc
        PROVE  ~half_streams'[on_circuit'[b]][F[b].id].live
    <3>1. CASE on_circuit'[b] = c
      <4>1. b \in ks
        BY <1>3, <1>4, <2>3, <3>1
      <4> HIDE DEF ks
      <4> QED
        BY <1>1, <3>1, <4>1
    <3>2. CASE on_circuit'[b] # c
      <4>1. b # a
        BY <1>4, <3>2
      <4> QED
        BY <1>2, <1>4, <1>6, <2>3, <4>1 DEF OwnPart
    <3> QED
      BY <3>1, <3>2
  <2> QED
    BY <2>1, <2>2, <2>3 DEF OwnPart
<1>8. /\ link \in [End -> [Circ -> Seq(Cell)]]
      /\ package_window \in [End -> [Circ -> 0..CircStart]]
      /\ deliver_window \in [End -> [Circ -> 0..CircStart]]
      /\ half_streams \in [Circ -> [Id -> Half]] /\ unusable' \in SUBSET Circ
      /\ "client" \in End /\ "exit" \in End
  BY <1>2 DEF TypeOK, End
<1> HIDE DEF Q, M, ks
<1>9. Put(Seq(Cell), link, link', c, Q, M)
  BY <1>1, <1>8, PutFacts DEF Q, M
<1>10. Put(0..CircStart, package_window, package_window', c, left, package_window["exit"][c])
  BY <1>1, <1>8, PutFacts
<1>11. Put(0..CircStart, deliver_window, deliver_window', c, deliver_window["client"][c],
           deliver_window["exit"][c])
  <2>1. /\ deliver_window["client"][c] \in 0..CircStart
        /\ deliver_window["exit"][c] \in 0..CircStart
    BY <1>8
  <2>2. Put(0..CircStart, deliver_window, deliver_window, c, deliver_window["client"][c],
            deliver_window["exit"][c])
    BY <1>8, <2>1, PutFacts
  <2>3. deliver_window' = deliver_window
    OBVIOUS
  <2> QED
    BY <2>2, <2>3
<1>12. ASSUME NEW b \in Conn PROVE ClientPart(ap[b])' /\ FlowPart(b)'
  <2>1. ClientPart(ap'[b])
    BY <1>1
  <2>2. FlowPart(b)'
    <3>1. package_window'["client"][c] = left
      BY <1>10 DEF Put
    <3>2. CASE b = a
      BY <1>0, <1>1, <1>4, <3>1, <3>2 DEF FlowPart
    <3>3. CASE b \in K
      <4>1. /\ b # a /\ on_circuit[b] = c /\ on_circuit'[b] = c /\ tried'[b] = tried[b]
            /\ b \in Conn /\ F[b].state = ap[b].state /\ ap[b].sending = E[b].sending
        BY <1>0, <1>2, <1>3, <1>4, <1>6, <3>3
      <4>2. ap[b].state \in {"connect_wait", "open"}
        BY <1>2, <4>1 DEF OwnPart
      <4>3. tried[b] = {c} => F[b].sending = <<>> /\ Flows(left, F[b])
        <5>1. tried[b] = {c} => ap[b].sending = <<>>
          BY <1>2, <4>1 DEF FlowPart
        <5> QED
          BY <1>0, <1>1, <3>3, <4>1, <5>1
      <4>4. FlowPart(b)
        BY <1>2
      <4> QED
        BY <1>2, <3>1, <4>1, <4>2, <4>3, <4>4 DEF FlowPart
    <3>4. CASE b # a /\ b \notin K
      <4>1. b \notin ks
        BY <3>4 DEF ks
      <4>2. on_circuit[b] # NoCirc => on_circuit[b] \in Circ \ {c}
        BY <1>2, <1>3, <3>4 DEF TypeOK
      <4>3. on_circuit[b] # NoCirc =>
              package_window'["client"][on_circuit[b]] = package_window["client"][on_circuit[b]]
        BY <1>8, <1>10, <4>2 DEF Put
      <4>4. /\ FlowPart(b) /\ ap'[b] = ap[b] /\ on_circuit'[b] = on_circuit[b]
            /\ tried'[b] = tried[b]
        BY <1>1, <1>2, <1>4, <3>4, <4>1
      <4> QED
        BY <4>3, <4>4, FlowSame
    <3> QED
      BY <3>2, <3>3, <3>4
  <2> QED
    BY <2>1, <2>2
<1>13. \A b \in Conn : \/ ap'[b] = ap[b] /\ on_circuit'[b] = on_circuit[b]
                       \/ on_circuit[b] \in {c, NoCirc} /\ on_circuit'[b] \in {c, NoCirc}
  BY <1>0, <1>1, <1>3, <1>4 DEF ks
<1>14. Streams(On("client", c)', ap', H, n_streams[c], Q, M)
  BY <1>1, <1>5
<1>15. half_streams' = [half_streams EXCEPT ![c] = H] /\ H \in [Id -> Half]
  BY <1>8
<1>16. ap' \in [Conn -> Edge] /\ refused' = {} /\ n_streams' = n_streams
  BY <1>0, <1>2
<1>17. \A b \in Conn : ClientPart(ap[b])' /\ FlowPart(b)'
  BY <1>12
<1> HIDE DEF H
<1> QED
  BY <1>1, <1>4, <1>7, <1>8, <1>9, <1>10, <1>11, <1>13, <1>14, <1>15, <1>16, <1>17, ClientStep

\* A free id has no stream: the edge with a new BEGIN makes one.
LEMMA BeginsFacts ==
    ASSUME IInv, NEW c \in Circ, NEW a \in Conn, ap[a].state = "circuit_wait",
           NEW id \in FreeIds(c), id \in Id, NEW f,
           f = Attached(ap[a], id)
    PROVE  Begins(a, c, [ap EXCEPT ![a] = f],
                  Append(link["client"][c], Message("BEGIN", f)))
<1> DEFINE L == link["client"][c]
           M == link["exit"][c]
           K == On("client", c)
           ks == K \cup {a}
           E == [ap EXCEPT ![a] = f]
           x == Message("BEGIN", f)
           Q == Append(L, x)
           H == half_streams[c]
           y == FarOf(n_streams[c][id])
           v == ViewOf(f)
<1>1. /\ TypeOK /\ OwnPart /\ ap \in [Conn -> Edge] /\ ap[a] \in Edge /\ ClientPart(ap[a])
      /\ c # NoCirc /\ L \in Seq(Cell) /\ M \in Seq(Cell) /\ CircuitPart(c)
  BY CircuitNow DEF IInv, TypeOK
<1>2. on_circuit[a] = NoCirc /\ ap[a].conn = a
  BY <1>1 DEF OwnPart
<1>3. /\ f \in Edge /\ f.state = "connect_wait" /\ f.conn = a /\ f.id = id
      /\ f.package = StreamStart /\ f.deliver = StreamStart
      /\ ClientPart(f) /\ EdgePart(f) /\ SentOf(f) = 0 /\ Len(f.got) = 0
  <2> DEFINE e == ap[a]
  <2>1. /\ e \in Edge /\ ClientPart(e) /\ e.state = "circuit_wait" /\ e.conn = a
        /\ f = Attached(e, id)
    BY <1>1, <1>2
  <2> HIDE DEF e
  <2> QED
    BY <2>1, AttachedFacts
<1>4. /\ K = {b \in Conn : on_circuit[b] = c} /\ a \notin K
      /\ ~H[id].live /\ \A b \in K : ap[b].id # id
  BY <1>1, <1>2 DEF On, FreeIds, InUse
<1>5. /\ E \in [Conn -> Edge] /\ E[a] = f /\ \A b \in Conn \ {a} : E[b] = ap[b]
  BY <1>1, <1>3
<1>6. /\ x \in Cell /\ x.cmd = "BEGIN" /\ x.id = id /\ x.conn = a
  BY <1>3, MessageFacts
<1>7. /\ v \in View /\ v.o = a /\ v.w = StreamStart /\ v.d = StreamStart /\ v.x
      /\ v.g = 0 /\ v.s = 0
  BY <1>3, ViewOfEdge
<1>8. Unused(id, y, L, M)
  <2>1. Stream(id, {b \in K : ap[b].id = id}, ap, H[id], y, L, M)
    BY StreamNow
  <2>2. {b \in K : ap[b].id = id} = {}
    BY <1>4
  <2> HIDE DEF H, y, L, M, K
  <2> QED
    BY <1>4, <2>1, <2>2, StreamNone
<1> HIDE DEF x, v, y
<1>9. Joined(id, v, y, Q, M)
  <2> HIDE DEF L, M
  <2> QED
    BY <1>1, <1>6, <1>7, <1>8, StepBegin
<1>10. Q = L \o <<x>>
  <2> HIDE DEF L
  <2> QED
    BY <1>1, <1>6
<1>11. /\ Q \in Seq(Cell) /\ <<x>> \in Seq(Cell) /\ Plain(<<x>>)
       /\ \A j \in Id \ {id} : Keeps(L, Q, j) /\ Keeps(M, M, j)
  <2> HIDE DEF L, M, Q
  <2> QED
    BY <1>1, <1>6, <1>10, SaysFacts, KeepsSame
<1>12. Links(package_window["client"][c], package_window["exit"][c],
             deliver_window["client"][c], deliver_window["exit"][c], Q, M)
  <2>1. Links(package_window["client"][c], package_window["exit"][c],
              deliver_window["client"][c], deliver_window["exit"][c], L, M)
    BY <1>1 DEF CircuitPart
  <2> HIDE DEF L, M, Q
  <2> QED
    BY <1>1, <1>10, <1>11, <2>1, LinksSay
<1> HIDE DEF E, Q
<1>13. Streams(ks, E, H, n_streams[c], Q, M)
  <2>1. {b \in ks : E[b].id = id} = {a}
    BY <1>3, <1>4, <1>5
  <2>2. Stream(id, {b \in ks : E[b].id = id}, E, H[id], FarOf(n_streams[c][id]), Q, M)
    <3>1. ViewOf(E[a]) = v
      BY <1>5 DEF v
    <3>2. Joined(id, ViewOf(E[a]), y, Q, M)
      BY <1>9, <3>1
    <3> DEFINE h == H[id]
    <3>3. ~h.live
      BY <1>4
    <3> HIDE DEF H, M, h, y
    <3>4. Stream(id, {a}, E, h, y, Q, M)
      BY <3>2, <3>3, StreamOne
    <3> QED
      BY <2>1, <3>4 DEF y, h
  <2>3. /\ \A b \in K : ap[b].id # id => b \in ks /\ E[b] = ap[b]
        /\ \A b \in ks : E[b].id # id => b \in K /\ E[b] = ap[b]
    BY <1>3, <1>4, <1>5
  <2>4. \A j \in Id \ {id} : /\ H[j] = half_streams[c][j]
                             /\ Keeps(link["client"][c], Q, j)
                             /\ Keeps(link["exit"][c], M, j)
    BY <1>11
  <2> HIDE DEF ks, H, M
  <2> QED
    BY <2>2, <2>3, <2>4, ClientOne
<1> QED
  BY <1>1, <1>2, <1>3, <1>4, <1>5, <1>11, <1>12, <1>13 DEF Begins, E, Q, x

\* A connection attaches to a circuit, or finds no free id on it.
LEMMA InvAttach ==
    ASSUME IInv, NEW a \in Conn, NEW c \in Circ, Attach(a, c), closes' \in 0..MaxCloses
    PROVE  IInv'
<1>1. /\ TypeOK /\ OwnPart /\ ap \in [Conn -> Edge] /\ ap[a] \in Edge /\ FlowPart(a)
      /\ tried \in [Conn -> SUBSET Circ] /\ unusable \in SUBSET Circ
      /\ next_stream_id \in [Circ -> Id] /\ c # NoCirc
  BY CircuitNow DEF IInv, TypeOK
<1>2. /\ ap[a].state = "circuit_wait" /\ c \notin tried[a]
      /\ tried' = [tried EXCEPT ![a] = tried[a] \cup {c}]
      /\ UNCHANGED <<n_streams, half_streams, deliver_window, refused>>
  BY DEF Attach
<1>3. /\ tried' \in [Conn -> SUBSET Circ] /\ \A b \in Conn \ {a} : tried'[b] = tried[b]
      /\ tried'[a] = tried[a] \cup {c}
  BY <1>1, <1>2
<1>4. IsFiniteSet(tried'[a]) /\ c \in tried'[a] /\ tried'[a] # {}
  BY <1>1, <1>3, FS_AddElement DEF FlowPart
<1>5. tried'[a] = {c} => ap[a].reading /\ ap[a].sending = <<>>
  BY <1>1, <1>2, <1>3 DEF FlowPart
<1>6. on_circuit[a] = NoCirc
  BY <1>1, <1>2 DEF OwnPart
<1>7. CASE FreeIds(c) = {}
  <2> DEFINE f == NewEdge("closed", a, 0)
  <2>1. /\ ap' = [ap EXCEPT ![a] = f] /\ unusable' = unusable \cup {c}
        /\ UNCHANGED <<on_circuit, next_stream_id, package_window, link>>
    BY <1>7 DEF Attach
  <2>2. f \in Edge /\ ClientPart(f) /\ f.state = "closed" /\ f.conn = a
    BY ClosedFacts
  <2> HIDE DEF f
  <2>3. UNCHANGED <<on_circuit, n_streams, half_streams, next_stream_id, package_window,
                    deliver_window, link>>
    BY <1>2, <2>1
  <2>4. unusable' \in SUBSET Circ /\ refused' = refused
    BY <1>1, <1>2, <2>1
  <2> QED
    BY <1>3, <1>4, <1>6, <2>1, <2>2, <2>3, <2>4, ClientIdle
<1>8. CASE FreeIds(c) # {}
  <2> DEFINE id == UniqueId(c)
             f == [ap[a] EXCEPT !.state = "connect_wait", !.id = id,
                                !.package = StreamStart, !.deliver = StreamStart]
             E == [ap EXCEPT ![a] = f]
             L == Append(link["client"][c], Message("BEGIN", f))
             p == package_window["client"][c]
             K == On("client", c)
             ks == K \cup {a}
             sends == c \in Optimistic /\ Available(f) # <<>>
             P == IF sends THEN Packaged(a, ks, E, p, L)
                  ELSE [edges |-> E, window |-> p, queue |-> L]
  <2>1. id \in FreeIds(c) /\ id \in Id /\ (id % MaxId[c]) + 1 \in Id
    BY <1>8, UniqueIdFacts
  <2>2. /\ ap' = P.edges /\ package_window' = [package_window EXCEPT !["client"][c] = P.window]
        /\ link' = [link EXCEPT !["client"][c] = P.queue]
        /\ on_circuit' = [on_circuit EXCEPT ![a] = c]
        /\ next_stream_id' = [next_stream_id EXCEPT ![c] = (id % MaxId[c]) + 1]
        /\ unusable' = unusable
    BY <1>8 DEF Attach
  <2> HIDE DEF id
  <2>3. next_stream_id' \in [Circ -> Id]
    BY <1>1, <2>1, <2>2
  <2>4. Begins(a, c, E, L)
    <3> DEFINE e == f
    <3>1. e = Attached(ap[a], id)
      BY DEF Attached
    <3> HIDE DEF e
    <3>2. Begins(a, c, [ap EXCEPT ![a] = e], Append(link["client"][c], Message("BEGIN", e)))
      BY <1>2, <2>1, <3>1, BeginsFacts
    <3> QED
      BY <3>2 DEF e
  <2>5. f.sending = ap[a].sending /\ f.reading = ap[a].reading /\ f.state = "connect_wait"
    BY <1>1 DEF Edge
  <2>6. E[a] = f /\ E \in [Conn -> Edge] /\ L \in Seq(Cell)
    BY <1>1, <2>4 DEF Begins
  <2> HIDE DEF E, L, f
  <2>7. /\ p \in Nat /\ K \in SUBSET Conn /\ K = {b \in Conn : on_circuit[b] = c}
        /\ a \notin K
    BY <1>1, <1>6, CircuitNow, ClientNow DEF End
  <2>8. \A b \in K : tried[b] = {c} => Flows(p, E[b])
    <3> SUFFICES ASSUME NEW b \in K, tried[b] = {c} PROVE Flows(p, E[b])
      OBVIOUS
    <3>1. b \in Conn /\ on_circuit[b] = c /\ E[b] = ap[b] /\ FlowPart(b)
      BY <2>4, <2>7 DEF IInv, Begins
    <3> QED
      BY <1>1, <3>1 DEF FlowPart
  <2>9. \E r, left, F :
          /\ Ahead(a, c, E, left, F, r)
          /\ ap' = F /\ package_window' = [package_window EXCEPT !["client"][c] = left]
          /\ link' = [link EXCEPT !["client"][c] = L \o r]
    <3>0. \A b \in ks : E[b] \in Edge /\ EdgePart(E[b])
      <4>1. E \in [Conn -> Edge] /\ ClientPart(E[a]) /\ \A b \in Conn \ {a} : E[b] = ap[b]
        BY <2>4 DEF Begins
      <4>2. \A b \in Conn : ClientPart(ap[b])
        BY DEF IInv
      <4> HIDE DEF K
      <4> QED
        BY <2>7, <4>1, <4>2 DEF ClientPart
    <3>1. CASE sends
      <4> DEFINE R == Packaged(a, ks, E, p, L)
      <4>1. /\ ap' = R.edges /\ link' = [link EXCEPT !["client"][c] = R.queue]
            /\ package_window' = [package_window EXCEPT !["client"][c] = R.window]
        BY <2>2, <3>1
      <4>2. Apart(ks, E)
        <5>1. /\ E[a].id # 0 /\ \A b \in K : ap[b].id # E[a].id
              /\ \A b \in Conn \ {a} : E[b] = ap[b]
          BY <2>4, ConstantsAssumption DEF Begins, Id, IdOf
        <5>2. Apart(K, ap)
          BY ClientNow
        <5> HIDE DEF K
        <5> QED
          BY <2>7, <5>1, <5>2 DEF Apart
      <4>3. ks \subseteq Conn /\ a \in ks
        BY <2>7
      <4> HIDE DEF ks
      <4>4. PICK r \in Seq(Cell) : Packed(R, Conn, a, ks, E, p, L, r)
        BY <2>6, <2>7, <3>0, <4>2, <4>3, PackagedFacts
      <4> HIDE DEF R
      <4>5. /\ R.queue = L \o r /\ R.window \in Nat /\ R.window = p - Len(r)
            /\ R.edges \in [Conn -> Edge] /\ Sends(ks, E, R.edges, r)
            /\ \A j \in ks : j # a /\ Flows(p, E[j]) => Flows(R.window, R.edges[j])
            /\ (p > 0 /\ E[a].package > 0 => E[a].reading) => Flows(R.window, R.edges[a])
        BY <4>4 DEF Packed
      <4>6. tried'[a] = {c} => R.edges[a].sending = <<>> /\ Flows(R.window, R.edges[a])
        <5>1. ASSUME tried'[a] = {c} PROVE E[a].reading /\ E[a].sending = <<>>
          BY <1>5, <2>5, <2>6, <5>1
        <5>2. E[a].sending = <<>> => R.edges[a].sending = <<>>
          BY <4>3, <4>5 DEF Sends, Packs
        <5> QED
          BY <4>5, <5>1, <5>2
      <4>7. \A b \in K : tried[b] = {c} => Flows(R.window, R.edges[b])
        BY <2>7, <2>8, <4>5 DEF ks
      <4> DEFINE left == R.window
                 F == R.edges
      <4>8. Ahead(a, c, E, left, F, r)
        BY <4>5, <4>6, <4>7 DEF Ahead, ks
      <4> QED
        BY <4>1, <4>5, <4>8
    <3>2. CASE ~sends
      <4> DEFINE r == <<>>
      <4>1. /\ ap' = E /\ link' = [link EXCEPT !["client"][c] = L]
            /\ package_window' = [package_window EXCEPT !["client"][c] = p]
        BY <2>2, <3>2
      <4>2. Sends(ks, E, E, r) /\ r \in Seq(Cell) /\ Len(r) = 0
        BY <3>0, SendsNothing
      <4>3. L \o r = L
        BY <2>6
      <4> HIDE DEF r
      <4>4. tried'[a] = {c} => E[a].sending = <<>> /\ Flows(p, E[a])
        BY <1>5, <2>5, <2>6 DEF Flows
      <4>5. Ahead(a, c, E, p, E, r)
        BY <2>6, <2>7, <2>8, <4>2, <4>4 DEF Ahead
      <4> QED
        BY <2>7, <4>1, <4>2, <4>3, <4>5
    <3> QED
      BY <3>1, <3>2
  <2>10. PICK r, left, F :
          /\ Ahead(a, c, E, left, F, r)
          /\ ap' = F /\ package_window' = [package_window EXCEPT !["client"][c] = left]
          /\ link' = [link EXCEPT !["client"][c] = L \o r]
    BY <2>9
  <2>11. UNCHANGED <<n_streams, half_streams, unusable, deliver_window>> /\ refused' = refused
    BY <1>2, <2>2
  <2>12. on_circuit' = [on_circuit EXCEPT ![a] = c]
    BY <2>2
  <2> QED
    BY <1>3, <1>4, <2>3, <2>4, <2>10, <2>11, <2>12, ClientBegins
<1> QED
  BY <1>7, <1>8

-----------------------------------------------------------------------------
(* The invariant.                                                          *)

LEMMA InitInv == Init => IInv
<1> SUFFICES ASSUME Init PROVE IInv
  OBVIOUS
<1>1. /\ NoCirc \notin Circ /\ \A c \in Circ : 1 \in IdOf(c) /\ IdOf(c) \subseteq Id
  BY ConstantsAssumption DEF IdOf, Id
<1>2. ASSUME NEW a \in Conn
      PROVE  /\ Fresh(NewEdge("circuit_wait", a, 0), "circuit_wait", a, 0)
             /\ NewEdge("circuit_wait", a, 0) \in Edge
  <2> DEFINE f == NewEdge("circuit_wait", a, 0)
  <2>1. Fresh(f, "circuit_wait", a, 0)
    BY NewEdgeFacts DEF EdgeState
  <2> HIDE DEF f
  <2>2. f \in Edge
    BY <2>1 DEF Fresh
  <2> QED
    BY <2>1, <2>2 DEF f
<1>3. TypeOK
  <2>1. ap \in [Conn -> Edge]
    BY <1>2 DEF Init
  <2>2. /\ on_circuit \in [Conn -> Circ \cup {NoCirc}] /\ tried \in [Conn -> SUBSET Circ]
        /\ unusable \subseteq Circ
    BY DEF Init
  <2>3. n_streams \in [Circ -> [Id -> Edge]]
    <3> HIDE DEF NoStream
    <3> QED
      BY NoStreamFacts DEF Init
  <2>4. half_streams \in [Circ -> [Id -> Half]]
    <3>1. NoHalf \in Half
      BY Sizes DEF NoHalf, Half
    <3> QED
      BY <3>1 DEF Init
  <2>5. next_stream_id \in [Circ -> Id] /\ closes \in 0..MaxCloses
    BY <1>1, ConstantsAssumption DEF Init
  <2>6. /\ package_window \in [End -> [Circ -> 0..CircStart]]
        /\ deliver_window \in [End -> [Circ -> 0..CircStart]]
    <3>1. CircStart \in 0..CircStart
      BY Sizes
    <3> QED
      BY <3>1 DEF Init
  <2>7. link \in [End -> [Circ -> Seq(Cell)]]
    BY DEF Init
  <2> QED
    BY <2>1, <2>2, <2>3, <2>4, <2>5, <2>6, <2>7 DEF TypeOK
<1>4. \A a \in Conn : /\ ap[a] = NewEdge("circuit_wait", a, 0) /\ on_circuit[a] = NoCirc
                      /\ Fresh(ap[a], "circuit_wait", a, 0)
  BY <1>2 DEF Init
<1>5. OwnPart
  BY <1>4 DEF OwnPart, Fresh
<1>6. ASSUME NEW a \in Conn PROVE ClientPart(ap[a]) /\ FlowPart(a)
  <2> DEFINE f == ap[a]
  <2>1. Fresh(f, "circuit_wait", a, 0) /\ on_circuit[a] = NoCirc /\ tried[a] = {}
    BY <1>4 DEF Init
  <2> HIDE DEF f
  <2>2. ClientPart(f)
    <3>1. /\ EdgePart(f) /\ f.state = "circuit_wait" /\ f.got = <<>> /\ f.out = 0
          /\ Len(f.pending) = 0 /\ Len(f.in) = 0 /\ Len(f.sending) = 0 /\ f.written = 0
      BY <2>1 DEF Fresh
    <3>2. Len(f.pending) = f.written - Len(f.in)
      BY <3>1
    <3> QED
      BY <3>1, <3>2 DEF ClientPart
  <2>3. FlowPart(a)
    <3>1. f.reading /\ f.sending = <<>>
      BY <2>1 DEF Fresh
    <3> QED
      BY <2>1, <3>1, FS_EmptySet DEF FlowPart, f
  <2> QED
    BY <2>2, <2>3 DEF f
<1>7. ASSUME NEW c \in Circ PROVE CircuitPart(c)
  <2> DEFINE q == <<>>
  <2>1. /\ q \in Seq(Cell) /\ Named(q) /\ Count(q, DataSet) = 0 /\ Count(q, CircSendmeSet) = 0
        /\ \A i : NoCell(q, i) /\ \A cmd : ~Has(q, i, cmd)
    <3>1. q \in Seq(Cell) /\ DOMAIN q = {}
      OBVIOUS
    <3> HIDE DEF q
    <3>2. Count(q, DataSet) = 0 /\ Count(q, CircSendmeSet) = 0
      BY <3>1, CountNone
    <3> QED
      BY <3>1, <3>2 DEF Named, NoCell, Has
  <2>2. /\ link["client"][c] = q /\ link["exit"][c] = q
        /\ \A e \in End : package_window[e][c] = CircStart /\ deliver_window[e][c] = CircStart
        /\ n_streams[c] = [i \in Id |-> NoStream] /\ half_streams[c] = [i \in Id |-> NoHalf]
    BY DEF Init, End
  <2> HIDE DEF q
  <2>3. Links(CircStart, CircStart, CircStart, CircStart, q, q)
    BY <2>1, Sizes DEF Links, Balance
  <2>4. On("client", c) = {}
    BY <1>1, <1>4 DEF On
  <2>5. Streams({}, ap, half_streams[c], n_streams[c], q, q)
    <3> SUFFICES ASSUME NEW i \in Id
                 PROVE  Stream(i, {}, ap, half_streams[c][i], FarOf(n_streams[c][i]), q, q)
      BY DEF Streams
    <3>1. n_streams[c][i] = NoStream /\ half_streams[c][i] = NoHalf
      BY <2>2
    <3>2. ~NoHalf.live
      BY DEF NoHalf
    <3>3. Unused(i, FarOf(NoStream), q, q)
      BY <2>1, NoStreamFacts DEF Unused
    <3> QED
      BY <3>1, <3>2, <3>3, StreamNone
  <2>6. Exits(n_streams[c], CircStart)
    <3> HIDE DEF NoStream
    <3> QED
      BY <2>2, NoStreamFacts DEF Exits
  <2>7. "client" \in End /\ "exit" \in End
    BY DEF End
  <2> QED
    BY <2>2, <2>3, <2>4, <2>5, <2>6, <2>7 DEF CircuitPart
<1> QED
  BY <1>3, <1>5, <1>6, <1>7 DEF IInv, Init

\* Nothing happens.
LEMMA InvStutter ==
    ASSUME IInv, UNCHANGED vars
    PROVE  IInv'
<1>1. /\ UNCHANGED <<ap, on_circuit, tried, n_streams, half_streams, next_stream_id, unusable>>
      /\ UNCHANGED <<package_window, deliver_window, link, refused, closes>>
  BY DEF vars, id_vars, circ_vars
<1>2. /\ TypeOK' /\ refused' = {} /\ OwnPart'
  BY <1>1 DEF IInv, TypeOK, OwnPart
<1>3. \A a \in Conn : ClientPart(ap[a])' /\ FlowPart(a)'
  BY <1>1 DEF IInv, FlowPart
<1>4. Elsewhere(NoCirc)
  BY <1>1 DEF Elsewhere
<1>5. NoCirc \notin Circ
  BY ConstantsAssumption
<1> QED
  BY <1>2, <1>3, <1>4, <1>5, InvStep

\* A cell arrives at an end.
LEMMA InvReceive ==
    ASSUME IInv, NEW e \in End, NEW c \in Circ, Receive(e, c), closes' \in 0..MaxCloses
    PROVE  IInv'
<1>1. CASE e = "exit"
  <2>1. \/ ReceiveData("exit", c) \/ ReceiveSendme("exit", c) \/ ReceiveCircSendme("exit", c)
        \/ ReceiveBegin(c) \/ ReceiveEndAtExit(c)
    BY <1>1 DEF Receive
  <2> QED
    BY <2>1, InvReceiveDataAtExit, InvReceiveSendmeAtExit, InvReceiveCircSendmeAtExit,
       InvReceiveBegin, InvReceiveEndAtExit
<1>2. CASE e = "client"
  <2>1. \/ ReceiveData("client", c) \/ ReceiveSendme("client", c)
        \/ ReceiveCircSendme("client", c) \/ ReceiveConnected(c) \/ ReceiveEnd(c)
    BY <1>2 DEF Receive
  <2> QED
    BY <2>1, InvReceiveDataAtClient, InvReceiveSendmeAtClient, InvReceiveCircSendmeAtClient,
       InvReceiveConnected, InvReceiveEnd
<1> QED
  BY <1>1, <1>2 DEF End

LEMMA NextInv ==
    ASSUME IInv, [Next]_vars
    PROVE  IInv'
<1>1. CASE UNCHANGED vars
  BY <1>1, InvStutter
<1>2. CASE Flow /\ UNCHANGED closes
  <2>1. closes' \in 0..MaxCloses
    BY <1>2 DEF IInv, TypeOK
  <2>2. CASE \E a \in Conn : WriteEarly(a)
    BY <2>1, <2>2, InvWriteEarly
  <2>3. CASE \E a \in Conn, c \in Circ : Attach(a, c)
    BY <2>1, <2>3, InvAttach
  <2>4. CASE \E c \in Circ, i \in Id : FinishConnecting(c, i)
    BY <2>1, <2>4, InvFinishConnecting
  <2>5. CASE \E e \in End, c \in Circ : Receive(e, c)
    BY <2>1, <2>5, InvReceive
  <2>6. CASE \E e \in End, c \in Circ : \E k \in Key(e) : ProcessInbuf(e, c, k)
    BY <2>1, <2>6, InvProcessInbufAtExit, InvProcessInbufAtClient DEF End
  <2>7. CASE \E e \in End, c \in Circ : \E k \in Key(e) : Flush(e, c, k)
    BY <2>1, <2>7, InvFlushAtExit, InvFlushAtClient DEF End
  <2> QED
    BY <1>2, <2>2, <2>3, <2>4, <2>5, <2>6, <2>7 DEF Flow
<1>3. CASE closes < MaxCloses /\ Close /\ closes' = closes + 1
  <2>1. closes' \in 0..MaxCloses
    <3>1. closes \in Nat /\ MaxCloses \in Nat
      BY ConstantsAssumption DEF IInv, TypeOK
    <3> QED
      BY <1>3, <3>1
  <2>2. CASE \E a \in Conn : ApplicationCloses(a)
    BY <2>1, <2>2, InvApplicationCloses
  <2>3. CASE \E a \in Conn : ExpireBeginning(a)
    BY <2>1, <2>3, InvExpireBeginning
  <2>4. CASE \E c \in Circ, i \in Id : FailConnecting(c, i)
    BY <2>1, <2>4, InvFailConnecting
  <2>5. CASE \E c \in Circ, i \in Id : DestinationCloses(c, i)
    BY <2>1, <2>5, InvDestinationCloses
  <2> QED
    BY <1>3, <2>2, <2>3, <2>4, <2>5 DEF Close
<1> QED
  BY <1>1, <1>2, <1>3 DEF Next

\* The invariant holds in every state, for any connections, circuits, windows and outbuf
\* limit, whatever both ends do and in whichever order the cells of a circuit's two
\* directions are handled.
THEOREM Invariance == Spec => []IInv
<1>1. Init => IInv
  BY InitInv
<1>2. IInv /\ [Next]_vars => IInv'
  BY NextInv
<1> QED
  BY <1>1, <1>2, PTL DEF Spec

\* Between honest ends no cell is refused (connection_edge_process_relay_cell,
\* process_sendme_cell, connection_half_edge_is_valid_data and its like): windows neither
\* overflow nor underflow, a CONNECTED, DATA or SENDME only comes to a stream that is ready
\* for it, and the half edge of a closed stream expects whatever still arrives.
THEOREM Accepted == Spec => []HonestCellsAccepted
<1>1. IInv => HonestCellsAccepted
  BY DEF IInv, HonestCellsAccepted
<1> QED
  BY <1>1, Invariance, PTL

\* Each end of a stream gets the data of its own connection, from the first cell on, in
\* order and without gaps, also when its id was used before or it was retried with the
\* data it had sent ahead (connection_ap_detach_retriable, get_unique_stream_id_by_circ).
THEOREM DataKept == Spec => []StreamsKeepTheirData
<1>1. IInv => StreamsKeepTheirData
  <2> SUFFICES ASSUME IInv, NEW e \in End, NEW c \in Circ, NEW k \in On(e, c)
               PROVE  LET edge == Edges(e, c)[k]
                      IN  edge.got = [n \in DOMAIN edge.got |-> Data(edge.conn, n)]
    BY DEF StreamsKeepTheirData
  <2> DEFINE edge == Edges(e, c)[k]
  <2>1. edge \in Edge /\ EdgePart(edge)
    <3>1. CASE e = "client"
      BY <3>1, ClientNow DEF Edges
    <3>2. CASE e = "exit"
      <4>1. k \in Id /\ edge = n_streams[c][k]
        BY <3>2 DEF On, Edges
      <4> QED
        BY <4>1, StreamNow
    <3> QED
      BY <3>1, <3>2 DEF End
  <2> HIDE DEF edge
  <2>2. /\ edge.got \in Seq(Conn \X Nat)
        /\ \A j \in 1..Len(edge.got) : edge.got[j] = Data(edge.conn, j)
    BY <2>1, EdgeType DEF EdgePart
  <2>3. edge.got = [n \in DOMAIN edge.got |-> Data(edge.conn, n)]
    <3> DEFINE g == edge.got
               d == [n \in DOMAIN g |-> Data(edge.conn, n)]
    <3>1. g \in [1..Len(g) -> Conn \X Nat] /\ DOMAIN g = 1..Len(g)
      <4>1. g \in Seq(Conn \X Nat)
        BY <2>2
      <4> HIDE DEF g
      <4> QED
        BY <4>1
    <3>4. \A j \in DOMAIN g : g[j] = d[j]
      <4>1. \A j \in 1..Len(g) : g[j] = Data(edge.conn, j)
        BY <2>2
      <4> HIDE DEF g
      <4> QED
        BY <3>1, <4>1
    <3>2. DOMAIN d = DOMAIN g /\ d = [n \in DOMAIN d |-> d[n]]
      OBVIOUS
    <3> HIDE DEF d, g
    <3>3. g = d
      BY <3>1, <3>2, <3>4
    <3> QED
      BY <3>3 DEF d, g
  <2> QED
    BY <2>3 DEF edge
<1> QED
  BY <1>1, Invariance, PTL

-----------------------------------------------------------------------------
(* No stall.                                                               *)

\* A stream with nothing under way: both ends have what the other has sent, and the
\* windows agree.
LEMMA NothingUnderWay ==
    ASSUME NEW i, NEW v \in View, NEW y \in Far, Joined(i, v, y, <<>>, <<>>), ~v.h, ~v.x
    PROVE  /\ y.state = "open" /\ y.o = v.o /\ y.g = v.s /\ v.g = y.s
           /\ v.w = y.d /\ y.w = v.d
<1> DEFINE q == <<>>
<1>1. q \in Seq(Cell) /\ DOMAIN q = {}
  OBVIOUS
<1>2. Joined(i, v, y, q, q)
  OBVIOUS
<1> HIDE DEF q
<1>3. /\ \A cmd : ~Has(q, i, cmd)
      /\ DataAt(q, i) = {} /\ Count(q, SendmeSet(i)) = 0
  BY <1>1, CountNone DEF Has, DataAt
<1>4. Alive(i, v, y, q, q)
  BY <1>2, <1>3 DEF Joined, Begun, Over
<1>5. \A o, r, t : DataRange(q, i, o, r, t) => r = t
  <2> SUFFICES ASSUME NEW o, NEW r, NEW t, DataRange(q, i, o, r, t) PROVE r = t
    OBVIOUS
  <2>1. r \in Nat /\ t \in Nat /\ r <= t /\ ~(r < t /\ t <= t)
    BY <1>3 DEF DataRange
  <2> QED
    BY <2>1
<1>6. y.g = v.s /\ v.g = y.s
  BY <1>4, <1>5 DEF Alive
<1>7. y.state = "open" /\ y.o = v.o
  BY <1>3, <1>4 DEF Alive
<1>8. v.w = y.d /\ y.w = v.d
  <2>1. /\ v.w + (v.s - y.g) + StreamInc * Count(q, SendmeSet(i)) = y.d
        /\ y.w + (y.s - v.g) + StreamInc * Count(q, SendmeSet(i)) = v.d
    BY <1>4 DEF Alive
  <2>2. /\ v.w \in Nat /\ v.d \in Nat /\ v.s \in Nat /\ v.g \in Nat
        /\ y.w \in Nat /\ y.d \in Nat /\ y.s \in Nat /\ y.g \in Nat
    BY Sizes DEF View, Far
  <2>3. /\ v.w + (v.s - y.g) + StreamInc * 0 = y.d
        /\ y.w + (y.s - v.g) + StreamInc * 0 = v.d
    BY <1>3, <2>1
  <2> DEFINE vw == v.w
             vd == v.d
             yw == y.w
             yd == y.d
             vs == v.s
             ys == y.s
             vg == v.g
             yg == y.g
  <2>4. /\ vw + (vs - yg) + StreamInc * 0 = yd /\ yw + (ys - vg) + StreamInc * 0 = vd
        /\ yg = vs /\ vg = ys
        /\ vw \in Nat /\ vd \in Nat /\ yw \in Nat /\ yd \in Nat
        /\ vs \in Nat /\ ys \in Nat
    BY <1>6, <2>2, <2>3
  <2>5. StreamInc \in Nat
    BY Sizes
  <2> HIDE DEF vw, vd, yw, yd, vs, ys, vg, yg
  <2>6. vw = yd /\ yw = vd
    BY <2>4, <2>5
  <2> QED
    BY <2>6 DEF vw, vd, yw, yd
<1> QED
  BY <1>6, <1>7, <1>8

\* A circuit with nothing under way has room in both directions.
LEMMA RoomOnCircuit ==
    ASSUME NEW p \in Nat, NEW q \in Nat, NEW d \in Nat, NEW f \in Nat,
           Links(p, q, d, f, <<>>, <<>>)
    PROVE  p > 0 /\ q > 0
<1> DEFINE r == <<>>
<1>1. r \in Seq(Cell) /\ DOMAIN r = {}
  OBVIOUS
<1>2. Links(p, q, d, f, r, r)
  OBVIOUS
<1> HIDE DEF r
<1>3. Count(r, DataSet) = 0 /\ Count(r, CircSendmeSet) = 0
  BY <1>1, CountNone
<1>4. p + 0 + CircInc * 0 = f /\ q + 0 + CircInc * 0 = d
  BY <1>2, <1>3 DEF Links, Balance
<1>5. d > CircStart - CircInc /\ f > CircStart - CircInc
  BY <1>2 DEF Links
<1> QED
  BY <1>4, <1>5, Sizes

\* An edge with room that neither reads more nor has anything left has sent all it wrote.
LEMMA SentAll ==
    ASSUME NEW edge \in Edge, NEW window \in Nat, window > 0, edge.package > 0,
           edge.state = "open", Flows(window, edge),
           NEW m, edge.reading => edge.written = m
    PROVE  SentOf(edge) = m
<1>1. edge.in = <<>> /\ edge.sending = <<>> /\ edge.written = m
  BY DEF Flows
<1>2. Len(edge.in) = 0 /\ Len(edge.sending) = 0 /\ edge.written \in Nat
  BY <1>1, EdgeType
<1> QED
  BY <1>1, <1>2 DEF SentOf

LEMMA Unstalled ==
    ASSUME IInv, NEW a \in Conn, ap[a].state = "open", Cardinality(tried[a]) = 1, Quiet(a)
    PROVE  Settled(a)
<1> DEFINE c == on_circuit[a]
           i == ap[a].id
           x == ap[a]
           y == n_streams[c][i]
<1>1. c \in Circ /\ c # NoCirc /\ i \in Id /\ x.conn = a
  <2>1. c \in Circ \cup {NoCirc}
    BY DEF IInv, TypeOK
  <2>2. c # NoCirc /\ i \in Id /\ x.conn = a
    BY DEF IInv, OwnPart
  <2> QED
    BY <2>1, <2>2
<1>2. tried[a] = {c}
  <2>1. IsFiniteSet(tried[a]) /\ c \in tried[a]
    BY <1>1 DEF IInv, FlowPart
  <2>2. PICK d : tried[a] = {d}
    BY <2>1, FS_Singleton
  <2> QED
    BY <2>1, <2>2
<1>3. Flows(package_window["client"][c], x)
  BY <1>1, <1>2 DEF IInv, FlowPart
<1>4. On("client", c) = {b \in Conn : on_circuit[b] = c} /\ a \in On("client", c)
  BY <1>1 DEF On
<1>5. /\ x \in Edge /\ EdgePart(x) /\ ViewOf(x) \in View
  BY <1>1, <1>4, ClientNow
<1>6. "client" \in End /\ "exit" \in End
  BY DEF End
<1>7. /\ link["client"][c] = <<>> /\ link["exit"][c] = <<>>
      /\ \A k \in Lookup("client", c, i) :
            LET edge == Edges("client", c)[k]
            IN  edge.out = 0 /\ (edge.reading => edge.written = MaxData["client"][a])
      /\ \A k \in Lookup("exit", c, i) :
            LET edge == Edges("exit", c)[k]
            IN  edge.out = 0 /\ (edge.reading => edge.written = MaxData["exit"][a])
  BY <1>6 DEF Quiet
<1>8. a \in Lookup("client", c, i) /\ Edges("client", c)[a] = x
  BY <1>4 DEF Lookup, Edges
<1>9. Joined(i, ViewOf(x), FarOf(y), <<>>, <<>>)
  <2>1. Stream(i, {b \in On("client", c) : ap[b].id = i}, ap, half_streams[c][i],
               FarOf(n_streams[c][i]), link["client"][c], link["exit"][c])
    BY <1>1, StreamNow
  <2>2. a \in {b \in On("client", c) : ap[b].id = i}
    BY <1>4
  <2> QED
    BY <1>7, <2>1, <2>2 DEF Stream
<1>10. /\ FarOf(y) \in Far /\ FarOf(y).state = y.state /\ FarOf(y).w = y.package
       /\ FarOf(y).d = y.deliver /\ FarOf(y).g = Len(y.got) /\ FarOf(y).s = SentOf(y)
       /\ y \in Edge /\ EdgePart(y)
  BY <1>1, StreamNow
<1>11. /\ ~ViewOf(x).h /\ ~ViewOf(x).x
       /\ ViewOf(x).w = x.package /\ ViewOf(x).d = x.deliver
       /\ ViewOf(x).g = Len(x.got) /\ ViewOf(x).s = SentOf(x)
  BY DEF ViewOf
<1>12. /\ y.state = "open" /\ Len(y.got) = SentOf(x) /\ Len(x.got) = SentOf(y)
       /\ x.package = y.deliver /\ y.package = x.deliver
  <2> DEFINE v == ViewOf(x)
             u == FarOf(y)
  <2>1. /\ u \in Far /\ v \in View /\ Joined(i, v, u, <<>>, <<>>) /\ ~v.h /\ ~v.x
        /\ u.state = y.state /\ u.w = y.package /\ u.d = y.deliver /\ u.g = Len(y.got)
        /\ u.s = SentOf(y) /\ v.w = x.package /\ v.d = x.deliver /\ v.g = Len(x.got)
        /\ v.s = SentOf(x)
    BY <1>5, <1>9, <1>10, <1>11
  <2> HIDE DEF v, u, x, y, i, c
  <2>2. /\ u.state = "open" /\ u.g = v.s /\ v.g = u.s /\ v.w = u.d /\ u.w = v.d
    BY <2>1, NothingUnderWay
  <2> QED
    BY <2>1, <2>2
<1>13. i \in Lookup("exit", c, i) /\ Edges("exit", c)[i] = y
  BY <1>1, <1>12, LookupAtExit
<1>14. x.out = 0 /\ (x.reading => x.written = MaxData["client"][a])
  BY <1>7, <1>8
<1>15. y.out = 0 /\ (y.reading => y.written = MaxData["exit"][a])
  BY <1>7, <1>13
<1>16. CircuitPart(c) /\ \A e \in End : package_window[e][c] \in Nat /\ deliver_window[e][c] \in Nat
  BY <1>1, CircuitNow
<1>17. package_window["client"][c] > 0 /\ package_window["exit"][c] > 0
  BY <1>6, <1>7, <1>16, RoomOnCircuit DEF CircuitPart
<1>18. Flows(package_window["exit"][c], y)
  BY <1>1, <1>12, <1>16 DEF CircuitPart, Exits
<1> HIDE DEF x, y, i, c
<1>19. x.package > 0 /\ y.package > 0
  <2>1. x.deliver > StreamStart - StreamInc /\ y.deliver > StreamStart - StreamInc
    BY <1>5, <1>10, <1>14, <1>15 DEF EdgePart
  <2>2. x.deliver \in Nat /\ y.deliver \in Nat
    BY <1>5, <1>10, EdgeType
  <2>3. x.deliver > 0 /\ y.deliver > 0
    BY <2>1, <2>2, Sizes
  <2> QED
    BY <1>12, <2>3
<1>20. SentOf(x) = MaxData["client"][a]
  <2>1. x.state = "open"
    BY DEF x
  <2> QED
    BY <1>3, <1>5, <1>6, <1>14, <1>16, <1>17, <1>19, <2>1, SentAll
<1>21. SentOf(y) = MaxData["exit"][a]
  BY <1>6, <1>10, <1>12, <1>15, <1>16, <1>17, <1>18, <1>19, SentAll
<1>22. /\ Len(x.got) = MaxData["exit"][a]
       /\ i \in Lookup("exit", c, i) /\ Len(y.got) = MaxData["client"][a]
  BY <1>12, <1>13, <1>20, <1>21
<1> QED
  BY <1>22 DEF Settled, x, y, i, c

\* A stream that opened on its first circuit never stalls: once no cell is on the way,
\* its outbufs are empty and neither end reads more from its socket, all that was
\* written has arrived.  So no SENDME is lost (connection_edge_flushed_some sends what a
\* full outbuf held back), and whoever stopped reading for a window starts again
\* (process_sendme_cell, circuit_resume_edge_reading), whatever the other streams do.
THEOREM NeverStalls == Spec => []NoStall
<1>1. IInv => NoStall
  BY Unstalled DEF NoStall
<1> QED
  BY <1>1, Invariance, PTL
=============================================================================
