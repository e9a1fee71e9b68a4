------------------------------ MODULE StreamFlow ------------------------------
(***************************************************************************)
(* Streams on circuits with fixed windows: how a client attaches an        *)
(* application connection to a circuit, how its data and that of the       *)
(* destination flow under a window per stream and one per circuit, how a   *)
(* stream is closed from either end, and how one that is not answered in   *)
(* time moves to another circuit with the data it sent ahead.              *)
(*                                                                         *)
(* A circuit is a FIFO of relay cells in each direction; its relays, its   *)
(* cell queues and its own failure are left out, and the streams of a      *)
(* circuit are the ones of Conn.  Both ends keep the same kind of edge     *)
(* connection.  The unit of data is what one cell carries.                 *)
(***************************************************************************)
EXTENDS Integers, Sequences, FiniteSets, FiniteSetsExt

CONSTANTS
    Conn,                     \* application connections
    Circ,                     \* circuits, all to the same exit
    NoCirc,                   \* the null circuit
    Optimistic,               \* circuits whose purpose allows optimistic data
    MaxId,                    \* per circuit: the largest stream id
    StreamStart, StreamInc,   \* STREAMWINDOW_START, STREAMWINDOW_INCREMENT
    CircStart, CircInc,       \* CIRCWINDOW_START, CIRCWINDOW_INCREMENT
    OutbufLimit,              \* cells an outbuf holds before it is too full
    MaxData,                  \* bound: cells each side of a connection writes
    MaxCloses                 \* bound: streams that are given up, refused or ended

End == {"client", "exit"}
Peer(e) == IF e = "client" THEN "exit" ELSE "client"
IdOf(c) == 1..MaxId[c]
Id == UNION {IdOf(c) : c \in Circ}

ASSUME ConstantsAssumption ==
    /\ Conn # {} /\ NoCirc \notin Circ /\ Optimistic \subseteq Circ
    /\ MaxId \in [Circ -> Nat \ {0}]
    /\ StreamInc \in Nat \ {0} /\ StreamStart \in Nat /\ StreamStart >= StreamInc
    /\ CircInc \in Nat \ {0} /\ CircStart \in Nat /\ CircStart >= CircInc
    /\ OutbufLimit \in Nat
    /\ MaxData \in [End -> [Conn -> Nat]] /\ MaxCloses \in Nat

VARIABLES
    ap,               \* per connection: the client's edge connection
    on_circuit,       \* per connection: the circuit it is attached to
    tried,            \* per connection: the circuits it was attached to
    n_streams,        \* per circuit and id: the exit's edge connection
    half_streams,     \* per circuit and id: the client's account of a closed stream
    next_stream_id,   \* per circuit
    unusable,         \* circuits that take no new streams
    package_window, deliver_window,  \* per end and circuit: the circuit's windows
    link,             \* per end and circuit: the cells on their way to the peer
    refused,          \* history: how a cell of an honest peer was refused
    closes            \* how many streams were given up, refused or ended

circ_vars == <<package_window, deliver_window, link>>
id_vars == <<half_streams, next_stream_id, unusable>>
vars == <<ap, on_circuit, tried, n_streams, id_vars, circ_vars, refused, closes>>

\* The n-th cell of data of connection a, in either direction.
Data(a, n) == <<a, n>>

Edge == [state : {"none", "circuit_wait", "connect_wait", "connecting", "open", "closed"},
         conn : Conn, id : {0} \cup Id,
         package : 0..StreamStart, deliver : 0..StreamStart,
         in : Seq(Conn \X Nat),       \* inbuf
         sending : Seq(Conn \X Nat),  \* sending_optimistic_data
         pending : Seq(Conn \X Nat),  \* pending_optimistic_data
         out : Nat,                   \* outbuf, in cells
         got : Seq(Conn \X Nat),      \* history: data put on the outbuf
         written : Nat,               \* history: cells read into the inbuf
         reading : BOOLEAN]

NewEdge(state, a, id) ==
    [state |-> state, conn |-> a, id |-> id, package |-> StreamStart,
     deliver |-> StreamStart, in |-> <<>>, sending |-> <<>>, pending |-> <<>>, out |-> 0,
     got |-> <<>>, written |-> 0, reading |-> TRUE]

NoStream == NewEdge("none", CHOOSE a \in Conn : TRUE, 0)

Half == [live : BOOLEAN, data : 0..StreamStart, sendmes : 0..StreamStart,
         connected : BOOLEAN]

NoHalf == [live |-> FALSE, data |-> 0, sendmes |-> 0, connected |-> FALSE]

Cell == [cmd : {"BEGIN", "CONNECTED", "DATA", "SENDME", "END", "CIRC_SENDME"},
         id : {0} \cup Id, conn : Conn, n : Nat, retriable : BOOLEAN]

TypeOK ==
    /\ ap \in [Conn -> Edge] /\ on_circuit \in [Conn -> Circ \cup {NoCirc}]
    /\ tried \in [Conn -> SUBSET Circ]
    /\ n_streams \in [Circ -> [Id -> Edge]]
    /\ half_streams \in [Circ -> [Id -> Half]]
    /\ next_stream_id \in [Circ -> Id] /\ closes \in 0..MaxCloses /\ unusable \subseteq Circ
    /\ package_window \in [End -> [Circ -> 0..CircStart]]
    /\ deliver_window \in [End -> [Circ -> 0..CircStart]]
    /\ link \in [End -> [Circ -> Seq(Cell)]]

Init ==
    /\ ap = [a \in Conn |-> NewEdge("circuit_wait", a, 0)]
    /\ on_circuit = [a \in Conn |-> NoCirc]
    /\ tried = [a \in Conn |-> {}]
    /\ n_streams = [c \in Circ |-> [i \in Id |-> NoStream]]
    /\ half_streams = [c \in Circ |-> [i \in Id |-> NoHalf]]
    /\ next_stream_id = [c \in Circ |-> 1]
    /\ unusable = {}
    /\ package_window = [e \in End |-> [c \in Circ |-> CircStart]]
    /\ deliver_window = [e \in End |-> [c \in Circ |-> CircStart]]
    /\ link = [e \in End |-> [c \in Circ |-> <<>>]]
    /\ refused = {} /\ closes = 0

-----------------------------------------------------------------------------
(* The edge connections of a circuit at an end, and changes to them.       *)

Edges(e, c) == IF e = "client" THEN ap ELSE n_streams[c]

\* The keys of the edges an end has on circuit c: p_streams, or n_streams with
\* resolving_streams.
On(e, c) == IF e = "client" THEN {a \in Conn : on_circuit[a] = c}
            ELSE {i \in Id : n_streams[c][i].state # "none"}

\* relay_lookup_conn
Lookup(e, c, id) == {k \in On(e, c) : Edges(e, c)[k].id = id}

SetEdges(e, c, edges) ==
    IF e = "client" THEN ap' = edges /\ UNCHANGED n_streams
    ELSE n_streams' = [n_streams EXCEPT ![c] = edges] /\ UNCHANGED ap

Message(cmd, edge) ==
    [cmd |-> cmd, id |-> edge.id, conn |-> edge.conn, n |-> 0, retriable |-> FALSE]

Copies(n, cell) == [i \in 1..n |-> cell]

CircSendme(c, n) ==
    Copies(n, [cmd |-> "CIRC_SENDME", id |-> 0, conn |-> CHOOSE a \in Conn : TRUE,
               n |-> 0, retriable |-> FALSE])

\* The increments that bring a deliver window w back above start - inc.
Due(start, inc, w) == (start - w) \div inc

\* The SENDMEs that sendme_connection_edge_consider_sending sends for an edge.
SendmesDue(edge) ==
    IF edge.out > OutbufLimit THEN 0 ELSE Due(StreamStart, StreamInc, edge.deliver)

-----------------------------------------------------------------------------
(* Packaging data into cells.                                              *)

Available(edge) == edge.sending \o edge.in

\* n cells of an edge go out: what it resends after a retry before its inbuf.  New data
\* that leaves before the CONNECTED is kept for a retry.
Taken(edge, n) ==
    LET s == Min({n, Len(edge.sending)})
    IN  [edge EXCEPT !.package = @ - n,
                     !.sending = SubSeq(@, s + 1, Len(@)),
                     !.in = SubSeq(@, n - s + 1, Len(@)),
                     !.pending = IF edge.state = "connect_wait"
                                 THEN @ \o SubSeq(edge.in, 1, n - s) ELSE @]

\* The i-th cell of what an edge has to send.
DataCell(edge, i) ==
    [Message("DATA", edge) EXCEPT !.conn = Available(edge)[i][1], !.n = Available(edge)[i][2]]

DataCells(edge, n) == [i \in 1..n |-> DataCell(edge, i)]

\* circuit_consider_stop_edge_reading for the edges ks, and the stop of the edges of
\* stopped, whose own window is empty.
StopReading(edges, ks, stopped, window) ==
    [k \in DOMAIN edges |->
        IF k \in ks /\ (window = 0 \/ k \in stopped)
        THEN [edges[k] EXCEPT !.reading = FALSE] ELSE edges[k]]

\* connection_edge_package_raw_inbuf for edge k, one of the edges ks of a circuit with
\* this package window and outgoing queue.
Packaged(k, ks, edges, window, queue) ==
    LET edge == edges[k]
        n == Min({window, edge.package, Len(Available(edge))})
    IN  [edges  |-> StopReading([edges EXCEPT ![k] = Taken(edge, n)], ks,
                                IF edge.package = n THEN {k} ELSE {}, window - n),
         window |-> window - n,
         queue  |-> queue \o DataCells(edge, n)]

\* The orders in which the edges ks may send their shares: turn t is for cell t[2] of edge
\* t[1], and the cells of an edge keep their order.
Orders(ks, share, window) ==
    {order \in UNION {[1..n -> ks \X (1..window)] : n \in 0..window} :
        /\ \A i \in DOMAIN order : order[i][2] <= share[order[i][1]]
        /\ \A k \in ks : \A m \in 1..share[k] : \E i \in DOMAIN order : order[i] = <<k, m>>
        /\ \A i, j \in DOMAIN order :
             i < j /\ order[i][1] = order[j][1] => order[i][2] < order[j][2]}

\* circuit_resume_edge_reading.  Streams with a window read again.  If any of them has
\* something on its inbuf, rounds follow in which each may package a share; how the
\* shares come out and in which order they leave is left open, but each gets one, and the
\* rounds go on while an inbuf has data.  What is to be resent keeps no round going.
Resumed(ks, edges, window, queue) ==
    LET open == {k \in ks : edges[k].package > 0}
        most(k) == Min({window, edges[k].package, Len(Available(edges[k]))})
        awake == [k \in DOMAIN edges |->
                    IF k \in open THEN [edges[k] EXCEPT !.reading = TRUE] ELSE edges[k]]
        fair(share, left) ==
            /\ \A k \in open : share[k] <= most(k)
            /\ left > 0 => \A k \in open :
                  /\ share[k] = 0 => most(k) = 0
                  /\ share[k] = most(k) \/ Taken(edges[k], share[k]).in = <<>>
        after(share) == [k \in DOMAIN edges |->
                            IF k \in open THEN Taken(awake[k], share[k]) ELSE awake[k]]
        empty(share) == {k \in open : after(share)[k].package = 0}
        result(share, order) ==
            [edges  |-> StopReading(after(share), ks, empty(share), window - Len(order)),
             window |-> window - Len(order),
             queue  |-> queue \o [i \in 1..Len(order) |->
                                    DataCell(edges[order[i][1]], order[i][2])]]
    IN  IF \A k \in open : edges[k].in = <<>>
        THEN {[edges |-> awake, window |-> window, queue |-> queue]}
        ELSE UNION {{result(share, order) :
                       order \in {o \in Orders(open, share, window) :
                                    fair(share, window - Len(o))}}
                    : share \in [open -> 0..window]}

\* An end takes over the result r of packaging on circuit c; popped are the cells of its
\* peer that are still to come.
Apply(e, c, r, popped) ==
    /\ SetEdges(e, c, r.edges)
    /\ package_window' = [package_window EXCEPT ![e][c] = r.window]
    /\ link' = [link EXCEPT ![e][c] = r.queue, ![Peer(e)][c] = popped]

-----------------------------------------------------------------------------
(* The client attaches, detaches and closes.                               *)

InUse(c) == {ap[a].id : a \in On("client", c)} \cup {i \in Id : half_streams[c][i].live}

FreeIds(c) == IdOf(c) \ InUse(c)

\* get_unique_stream_id_by_circ: the first free id from next_stream_id on.
UniqueId(c) ==
    LET after(i) == (i - next_stream_id[c]) % MaxId[c]
    IN  CHOOSE i \in FreeIds(c) : \A j \in FreeIds(c) : after(i) <= after(j)

\* connection_ap_handshake_attach_chosen_circuit, with the BEGIN and what can be sent
\* ahead.  Nothing here starts to read from the application again.
Attach(a, c) ==
    /\ ap[a].state = "circuit_wait" /\ c \notin unusable \cup tried[a]
    /\ tried' = [tried EXCEPT ![a] = @ \cup {c}]
    /\ IF FreeIds(c) = {}
       THEN /\ ap' = [ap EXCEPT ![a] = NewEdge("closed", a, 0)]
            /\ unusable' = unusable \cup {c}
            /\ UNCHANGED <<on_circuit, next_stream_id, package_window, link>>
       ELSE LET id == UniqueId(c)
                edge == [ap[a] EXCEPT !.state = "connect_wait", !.id = id,
                                      !.package = StreamStart, !.deliver = StreamStart]
                edges == [ap EXCEPT ![a] = edge]
                begun == Append(link["client"][c], Message("BEGIN", edge))
                r == IF c \in Optimistic /\ Available(edge) # <<>>
                     THEN Packaged(a, On("client", c) \cup {a}, edges,
                                   package_window["client"][c], begun)
                     ELSE [edges |-> edges, window |-> package_window["client"][c],
                           queue |-> begun]
            IN  /\ ap' = r.edges
                /\ package_window' = [package_window EXCEPT !["client"][c] = r.window]
                /\ link' = [link EXCEPT !["client"][c] = r.queue]
                /\ on_circuit' = [on_circuit EXCEPT ![a] = c]
                /\ next_stream_id' = [next_stream_id EXCEPT ![c] = (id % MaxId[c]) + 1]
                /\ UNCHANGED unusable
    /\ UNCHANGED <<n_streams, half_streams, deliver_window, refused>>

FaultyHalfEdge(edge) ==
    [live |-> TRUE, data |-> edge.deliver, connected |-> edge.state = "connect_wait",
     sendmes |-> edge.package \div StreamInc]

\* connection_half_edge_add: what may still arrive for a stream closed here.
HalfEdge(edge) ==
    [live |-> TRUE, data |-> edge.deliver, connected |-> edge.state = "connect_wait",
     sendmes |-> (StreamStart - edge.package) \div StreamInc]

\* connection_edge_end at the client for connection a on its circuit; popped as above.
SendEnd(a, popped) ==
    LET c == on_circuit[a]
    IN  /\ half_streams' = [half_streams EXCEPT ![c][ap[a].id] = HalfEdge(ap[a])]
        /\ link' = [link EXCEPT !["client"][c] = Append(@, Message("END", ap[a])),
                                !["exit"][c] = popped]

FaultyDetached(edge) == [edge EXCEPT !.state = "circuit_wait", !.id = 0]

\* connection_ap_detach_retriable: what was sent ahead is to be sent again.
Detached(edge) ==
    [edge EXCEPT !.state = "circuit_wait", !.id = 0,
                 !.sending = IF edge.pending # <<>> THEN edge.pending ELSE @]

Leave(a, edge) ==
    /\ ap' = [ap EXCEPT ![a] = edge]
    /\ on_circuit' = [on_circuit EXCEPT ![a] = NoCirc]

\* connection_ap_expire_beginning: no answer in time.
ExpireBeginning(a) ==
    LET c == on_circuit[a]
    IN  /\ ap[a].state = "connect_wait"
        /\ SendEnd(a, link["exit"][c])
        /\ Leave(a, Detached(ap[a]))
        /\ unusable' = unusable \cup {c}
        /\ UNCHANGED <<tried, n_streams, next_stream_id, package_window, deliver_window,
                       refused>>

\* connection_edge_reached_eof at the client: the application is gone.
ApplicationCloses(a) ==
    /\ ap[a].state \in {"circuit_wait", "connect_wait", "open"} /\ ap[a].reading
    /\ ~(ap[a].state = "open" /\ ap[a].in # <<>>)
    /\ IF on_circuit[a] = NoCirc THEN UNCHANGED <<half_streams, link>>
       ELSE SendEnd(a, link["exit"][on_circuit[a]])
    /\ Leave(a, NewEdge("closed", a, 0))
    /\ UNCHANGED <<tried, n_streams, next_stream_id, unusable, package_window,
                   deliver_window, refused>>

-----------------------------------------------------------------------------
(* Data from and to the sockets.                                           *)

Written(edge) ==
    [edge EXCEPT !.written = @ + 1, !.in = Append(@, Data(edge.conn, edge.written + 1))]

\* The application writes while its connection has no circuit.
WriteEarly(a) ==
    /\ ap[a].state = "circuit_wait" /\ ap[a].reading
    /\ ap[a].written < MaxData["client"][a]
    /\ ap' = [ap EXCEPT ![a] = Written(@)]
    /\ UNCHANGED <<on_circuit, tried, n_streams, id_vars, circ_vars, refused>>

\* connection_edge_process_inbuf after data was read from the socket of edge k.
ProcessInbuf(e, c, k) ==
    LET edge == Edges(e, c)[k]
        edges == [Edges(e, c) EXCEPT ![k] = Written(@)]
        sends == edge.state = "open" \/ (edge.state = "connect_wait" /\ c \in Optimistic)
    IN  /\ k \in On(e, c) /\ edge.reading /\ edge.state # "connecting"
        /\ edge.written < MaxData[e][edge.conn]
        /\ Apply(e, c,
                 IF sends THEN Packaged(k, On(e, c), edges, package_window[e][c], link[e][c])
                 ELSE [edges |-> edges, window |-> package_window[e][c],
                       queue |-> link[e][c]],
                 link[Peer(e)][c])
        /\ UNCHANGED <<on_circuit, tried, id_vars, deliver_window, refused>>

FaultyFlushed(edge) == [edge |-> [edge EXCEPT !.out = @ - 1], sendmes |-> 0]

\* connection_edge_flushed_some: an edge after a cell left its outbuf, with the SENDMEs
\* that were held back.
Flushed(edge) ==
    LET less == [edge EXCEPT !.out = @ - 1]
    IN  [edge |-> [less EXCEPT !.deliver = @ + SendmesDue(less) * StreamInc],
         sendmes |-> SendmesDue(less)]

Flush(e, c, k) ==
    LET edge == Edges(e, c)[k]
    IN  /\ k \in On(e, c) /\ edge.state = "open" /\ edge.out > 0
        /\ SetEdges(e, c, [Edges(e, c) EXCEPT ![k] = Flushed(edge).edge])
        /\ link' = [link EXCEPT ![e][c] =
                      @ \o Copies(Flushed(edge).sendmes, Message("SENDME", edge))]
        /\ UNCHANGED <<on_circuit, tried, id_vars, package_window, deliver_window, refused>>

-----------------------------------------------------------------------------
(* The exit.                                                               *)

Arrives(e, c, cmd) == link[Peer(e)][c] # <<>> /\ Head(link[Peer(e)][c]).cmd = cmd
First(e, c) == Head(link[Peer(e)][c])
Rest(e, c) == Tail(link[Peer(e)][c])

ExitSays(c, edges, cells) ==
    /\ n_streams' = [n_streams EXCEPT ![c] = edges]
    /\ link' = [link EXCEPT !["exit"][c] = @ \o cells]
    /\ UNCHANGED <<ap, on_circuit, tried, id_vars, package_window, deliver_window, refused>>

Gone(c, i) == [n_streams[c] EXCEPT ![i] = NoStream]

\* connection_exit_begin_conn: a stream that waits for its address or its socket.  The
\* BEGIN of a known stream is dropped.
ReceiveBegin(c) ==
    /\ Arrives("exit", c, "BEGIN")
    /\ LET cell == First("exit", c)
       IN  IF Lookup("exit", c, cell.id) # {}
           THEN refused' = refused \cup {"begin"} /\ UNCHANGED n_streams
           ELSE /\ n_streams' = [n_streams EXCEPT ![c][cell.id] =
                                   [NewEdge("connecting", cell.conn, cell.id)
                                      EXCEPT !.reading = FALSE]]
                /\ UNCHANGED refused
    /\ link' = [link EXCEPT !["client"][c] = Rest("exit", c)]
    /\ UNCHANGED <<ap, on_circuit, tried, id_vars, package_window, deliver_window>>

\* connection_exit_connect, connection_edge_finished_connecting
FinishConnecting(c, i) ==
    /\ n_streams[c][i].state = "connecting"
    /\ ExitSays(c, [n_streams[c] EXCEPT ![i].state = "open", ![i].reading = TRUE],
                <<Message("CONNECTED", n_streams[c][i])>>)

\* The stream is refused, or its address or its socket fails, for a reason that lets the
\* client try elsewhere or not.
FailConnecting(c, i) ==
    /\ n_streams[c][i].state = "connecting"
    /\ \E retriable \in BOOLEAN :
         ExitSays(c, Gone(c, i),
                  <<[Message("END", n_streams[c][i]) EXCEPT !.retriable = retriable]>>)

\* connection_edge_reached_eof at the exit.
DestinationCloses(c, i) ==
    /\ n_streams[c][i].state = "open" /\ n_streams[c][i].reading
    /\ n_streams[c][i].in = <<>>
    /\ ExitSays(c, Gone(c, i), <<Message("END", n_streams[c][i])>>)

\* The exit sends no END for the END of the client.
ReceiveEndAtExit(c) ==
    /\ Arrives("exit", c, "END")
    /\ n_streams' = [n_streams EXCEPT ![c] =
                       [i \in Id |-> IF i \in Lookup("exit", c, First("exit", c).id)
                                     THEN Gone(c, i)[i] ELSE @[i]]]
    /\ link' = [link EXCEPT !["client"][c] = Rest("exit", c)]
    /\ UNCHANGED <<ap, on_circuit, tried, id_vars, package_window, deliver_window, refused>>

-----------------------------------------------------------------------------
(* Cells that both ends handle.                                            *)

\* A cell for a stream that the client has closed: it is valid when the half edge still
\* expects one like it.
HalfData(h) == IF h.live /\ h.data > 0 THEN [h EXCEPT !.data = @ - 1] ELSE NoHalf
HalfSendme(h) == IF h.live /\ h.sendmes > 0 THEN [h EXCEPT !.sendmes = @ - 1] ELSE NoHalf
HalfConnected(h) == IF h.live /\ h.connected THEN [h EXCEPT !.connected = FALSE] ELSE NoHalf

\* new is what the half edge of the cell becomes; NoHalf if the cell is not valid for it.
Unattached(e, c, new) ==
    LET id == First(e, c).id
    IN  IF e = "exit" THEN UNCHANGED <<half_streams, refused>>
        ELSE IF new = NoHalf
        THEN refused' = refused \cup {"unaccounted"} /\ UNCHANGED half_streams
        ELSE half_streams' = [half_streams EXCEPT ![c][id] = new] /\ UNCHANGED refused

\* connection_edge_process_ordered_relay_cell for DATA that the circuit's window admits,
\* after sendme_circuit_consider_sending.  Optimistic data is not answered with a SENDME.
DeliverData(e, c) ==
    LET cell == First(e, c)
        edges == Edges(e, c)
        ks == Lookup(e, c, cell.id)
        w == deliver_window[e][c] - 1
        more == Due(CircStart, CircInc, w)
        answers == link[e][c] \o CircSendme(c, more)
    IN  /\ deliver_window' = [deliver_window EXCEPT ![e][c] = w + more * CircInc]
        /\ \/ /\ ks = {}
              /\ Unattached(e, c, HalfData(half_streams[c][cell.id]))
              /\ link' = [link EXCEPT ![e][c] = answers, ![Peer(e)][c] = Rest(e, c)]
              /\ UNCHANGED <<ap, n_streams>>
           \/ \E k \in ks :
                LET edge == [edges[k] EXCEPT !.deliver = @ - 1, !.out = @ + 1,
                                             !.got = Append(@, Data(cell.conn, cell.n))]
                    s == IF edge.state = "open" THEN SendmesDue(edge) ELSE 0
                IN  IF edges[k].state = "connect_wait" \/ edge.deliver < 0
                    THEN /\ refused' = refused \cup {"data"}
                         /\ link' = [link EXCEPT ![e][c] = answers, ![Peer(e)][c] = Rest(e, c)]
                         /\ UNCHANGED <<ap, n_streams, half_streams>>
                    ELSE /\ SetEdges(e, c, [edges EXCEPT ![k] =
                                       [edge EXCEPT !.deliver = @ + s * StreamInc]])
                         /\ link' = [link EXCEPT ![Peer(e)][c] = Rest(e, c), ![e][c] =
                                       answers \o Copies(s, Message("SENDME", edge))]
                         /\ UNCHANGED <<half_streams, refused>>
        /\ UNCHANGED <<on_circuit, tried, next_stream_id, unusable, package_window>>

\* connection_edge_process_relay_cell for DATA: the circuit's window is counted first, and
\* a cell beyond it ends the circuit.
ReceiveData(e, c) ==
    /\ Arrives(e, c, "DATA")
    /\ IF deliver_window[e][c] - 1 < 0
       THEN /\ refused' = refused \cup {"circ_data"}
            /\ link' = [link EXCEPT ![Peer(e)][c] = Rest(e, c)]
            /\ UNCHANGED <<ap, on_circuit, tried, n_streams, id_vars, package_window,
                           deliver_window>>
       ELSE DeliverData(e, c)

\* process_sendme_cell for a stream.
ReceiveSendme(e, c) ==
    LET cell == First(e, c)
        edges == Edges(e, c)
        ks == Lookup(e, c, cell.id)
    IN  /\ Arrives(e, c, "SENDME")
        /\ \/ /\ ks = {}
              /\ Unattached(e, c, HalfSendme(half_streams[c][cell.id]))
              /\ link' = [link EXCEPT ![Peer(e)][c] = Rest(e, c)]
              /\ UNCHANGED <<ap, n_streams, package_window>>
           \/ \E k \in ks :
                IF edges[k].state # "open" \/ edges[k].package + StreamInc > StreamStart
                THEN /\ refused' = refused \cup {"sendme"}
                     /\ link' = [link EXCEPT ![Peer(e)][c] = Rest(e, c)]
                     /\ UNCHANGED <<ap, n_streams, package_window, half_streams>>
                ELSE /\ Apply(e, c,
                              Packaged(k, On(e, c),
                                       [edges EXCEPT ![k].package = @ + StreamInc,
                                                     ![k].reading = TRUE],
                                       package_window[e][c], link[e][c]),
                              Rest(e, c))
                     /\ UNCHANGED <<half_streams, refused>>
        /\ UNCHANGED <<on_circuit, tried, next_stream_id, unusable, deliver_window>>

\* process_sendme_cell for the circuit.
ReceiveCircSendme(e, c) ==
    /\ Arrives(e, c, "CIRC_SENDME")
    /\ IF package_window[e][c] + CircInc > CircStart
       THEN /\ refused' = refused \cup {"circ_sendme"}
            /\ link' = [link EXCEPT ![Peer(e)][c] = Rest(e, c)]
            /\ UNCHANGED <<ap, n_streams, package_window>>
       ELSE /\ \E r \in Resumed(On(e, c), Edges(e, c), package_window[e][c] + CircInc,
                                link[e][c]) : Apply(e, c, r, Rest(e, c))
            /\ UNCHANGED refused
    /\ UNCHANGED <<on_circuit, tried, id_vars, deliver_window>>

-----------------------------------------------------------------------------
(* Cells that only the client handles.                                     *)

\* CONNECTED: the stream is open, what was sent ahead is no longer kept, and what waited
\* is packaged; or the address in the cell is not accepted and the stream is closed.
ReceiveConnected(c) ==
    LET cell == First("client", c)
        ks == Lookup("client", c, cell.id)
        rest == Rest("client", c)
    IN  /\ Arrives("client", c, "CONNECTED")
        /\ \/ /\ ks = {}
              /\ Unattached("client", c, HalfConnected(half_streams[c][cell.id]))
              /\ link' = [link EXCEPT !["exit"][c] = rest]
              /\ UNCHANGED <<ap, on_circuit, package_window>>
           \/ \E a \in ks :
                \/ /\ ap[a].state = "open"
                   /\ refused' = refused \cup {"connected"}
                   /\ link' = [link EXCEPT !["exit"][c] = rest]
                   /\ UNCHANGED <<ap, on_circuit, package_window, half_streams>>
                \/ /\ ap[a].state = "connect_wait"
                   /\ LET r == Packaged(a, On("client", c),
                                        [ap EXCEPT ![a].state = "open", ![a].pending = <<>>],
                                        package_window["client"][c], link["client"][c])
                      IN  /\ ap' = r.edges
                          /\ package_window' = [package_window EXCEPT !["client"][c] = r.window]
                          /\ link' = [link EXCEPT !["client"][c] = r.queue, !["exit"][c] = rest]
                   /\ UNCHANGED <<on_circuit, half_streams, refused>>
                \/ /\ ap[a].state = "connect_wait"
                   /\ half_streams' = [half_streams EXCEPT ![c][ap[a].id] =
                                         HalfEdge([ap[a] EXCEPT !.state = "open"])]
                   /\ link' = [link EXCEPT !["client"][c] = Append(@, Message("END", ap[a])),
                                           !["exit"][c] = rest]
                   /\ Leave(a, NewEdge("closed", a, 0))
                   /\ UNCHANGED <<package_window, refused>>
        /\ UNCHANGED <<tried, n_streams, next_stream_id, unusable, deliver_window>>

\* END: a stream that is not open tries another circuit if the reason allows it, and may
\* make this one unusable; otherwise it is closed.  For a stream closed here it ends the
\* account.
ReceiveEnd(c) ==
    LET cell == First("client", c)
        ks == Lookup("client", c, cell.id)
    IN  /\ Arrives("client", c, "END")
        /\ \/ /\ ks = {}
              /\ IF half_streams[c][cell.id].live
                 THEN /\ half_streams' = [half_streams EXCEPT ![c][cell.id] = NoHalf]
                      /\ UNCHANGED refused
                 ELSE refused' = refused \cup {"unaccounted"} /\ UNCHANGED half_streams
              /\ UNCHANGED <<ap, on_circuit, unusable>>
           \/ \E a \in ks :
                /\ IF ap[a].state = "connect_wait" /\ cell.retriable
                   THEN /\ Leave(a, Detached(ap[a]))
                        /\ unusable' \in {unusable, unusable \cup {c}}
                   ELSE /\ Leave(a, NewEdge("closed", a, 0))
                        /\ UNCHANGED unusable
                /\ UNCHANGED <<half_streams, refused>>
        /\ link' = [link EXCEPT !["exit"][c] = Rest("client", c)]
        /\ UNCHANGED <<tried, n_streams, next_stream_id, package_window, deliver_window>>

Receive(e, c) ==
    \/ ReceiveData(e, c) \/ ReceiveSendme(e, c) \/ ReceiveCircSendme(e, c)
    \/ e = "exit" /\ (ReceiveBegin(c) \/ ReceiveEndAtExit(c))
    \/ e = "client" /\ (ReceiveConnected(c) \/ ReceiveEnd(c))

Key(e) == IF e = "client" THEN Conn ELSE Id

\* Someone gives a stream up, refuses it or ends it.
Close ==
    \/ \E a \in Conn : ApplicationCloses(a) \/ ExpireBeginning(a)
    \/ \E c \in Circ, i \in Id : FailConnecting(c, i) \/ DestinationCloses(c, i)

Flow ==
    \/ \E a \in Conn : WriteEarly(a) \/ \E c \in Circ : Attach(a, c)
    \/ \E c \in Circ, i \in Id : FinishConnecting(c, i)
    \/ \E e \in End, c \in Circ :
         \/ Receive(e, c)
         \/ \E k \in Key(e) : ProcessInbuf(e, c, k) \/ Flush(e, c, k)

Next ==
    \/ Flow /\ UNCHANGED closes
    \/ closes < MaxCloses /\ Close /\ closes' = closes + 1

Spec == Init /\ [][Next]_vars

-----------------------------------------------------------------------------
(* Properties.                                                             *)

\* Between honest ends no cell is refused: no check of a window fails, none arrives for a
\* stream that is not ready for it, and what arrives for a stream the client has closed is
\* what its half edge still expects; and all state keeps its type.
HonestCellsAccepted == TypeOK /\ refused = {}

\* Each end of a stream gets what the other side of that connection wrote, from the first
\* cell on and in order: an id that is used again brings no data of an earlier stream, and
\* a retry neither repeats nor drops what was sent ahead.
StreamsKeepTheirData ==
    \A e \in End, c \in Circ : \A k \in On(e, c) :
        LET edge == Edges(e, c)[k]
        IN  edge.got = [n \in DOMAIN edge.got |-> Data(edge.conn, n)]

\* Everything written by both sides has arrived.
Settled(a) ==
    /\ Len(ap[a].got) = MaxData["exit"][a]
    /\ \E i \in Lookup("exit", on_circuit[a], ap[a].id) :
         Len(n_streams[on_circuit[a]][i].got) = MaxData["client"][a]

\* Nothing more will happen to the stream of a by itself: no cell is on its way on its
\* circuit, its outbufs are empty, and neither end reads more from its socket.
Quiet(a) ==
    LET c == on_circuit[a]
    IN  \A e \in End :
          /\ link[e][c] = <<>>
          /\ \A k \in Lookup(e, c, ap[a].id) :
               LET edge == Edges(e, c)[k]
               IN  /\ edge.out = 0
                   /\ edge.reading => edge.written = MaxData[e][a]

\* A stream that opened on its first circuit never stalls: when nothing more will happen
\* to it, all of its data is through, whatever another stream of the circuit does or does
\* not do.  A SENDME that a full outbuf holds back comes later, and an edge that stopped
\* for a window reads again.
NoStall ==
    \A a \in Conn :
        ap[a].state = "open" /\ Cardinality(tried[a]) = 1 /\ Quiet(a) => Settled(a)
=============================================================================
