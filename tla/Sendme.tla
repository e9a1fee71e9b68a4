------------------------------- MODULE Sendme -------------------------------
(***************************************************************************)
(* Circuit-level SENDME flow control between the two ends of a circuit:    *)
(* the client, with the crypt_path_t of its last hop, and the exit, with   *)
(* its circuit_t.  One module covers the two algorithms of the code: the   *)
(* fixed window (a circuit without a congestion_control_t) and congestion  *)
(* control, where the package window is cwnd - inflight.                   *)
(*                                                                         *)
(* Relays forward cells in order, so a direction of the circuit is a FIFO. *)
(* A cell's tag is the running digest of its direction (tor1), or the CGO  *)
(* tag.  It identifies the cell, so the tag of the n-th DATA cell an end   *)
(* originates is [from, nth |-> n].  All other cells share nth = 0: only   *)
(* the tags of DATA cells are ever compared for equality.                  *)
(***************************************************************************)
EXTENDS Integers, Sequences

CONSTANTS
    UsesCC,            \* is there a congestion_control_t on the circuit?
    CircwindowStart,   \* CIRCWINDOW_START (= CIRCWINDOW_START_MAX)
    PackageWindowInit, \* circuit_initial_package_window(): consensus circwindow
    Inc,               \* cells per SENDME: CIRCWINDOW_INCREMENT or cc->sendme_inc
    CwndInit, CwndMin, CwndMax, \* bounds the algorithm keeps cc->cwnd within
    EmitVersion,       \* SENDME version an end emits
    AcceptMinVersion,  \* least SENDME version an end accepts: the consensus
                       \* parameter, or 0 at an exit whose circuit was made
                       \* with CREATE_FAST (used_legacy_circuit_handshake)
    MaxData,           \* bound: DATA cells each end has to send
    MaxOther           \* bound: other non-SENDME cells each end sends

End == {"client", "exit"}

Peer(e) == IF e = "client" THEN "exit" ELSE "client"

ASSUME ConstantsAssumption ==
    /\ UsesCC \in BOOLEAN
    /\ Inc \in Nat \ {0}
    /\ CircwindowStart \in Nat /\ Inc <= CircwindowStart
    /\ PackageWindowInit \in Nat /\ PackageWindowInit <= CircwindowStart
    /\ CwndMin \in Nat /\ CwndMax \in Nat /\ CwndInit \in CwndMin..CwndMax
    /\ EmitVersion \in [End -> {0, 1}] /\ AcceptMinVersion \in [End -> {0, 1}]
    /\ MaxData \in Nat /\ MaxOther \in Nat

VARIABLES
    package_window,      \* fixed algorithm: DATA cells an end may still package
    deliver_window,      \* DATA cells an end still accepts
    inflight, cwnd,      \* congestion control: cells not yet acknowledged, window
    sendme_last_digests, \* tags an end expects in the next SENDMEs (FIFO)
    sendme_digest,       \* the one tag buffer: last cell originated or recognized
    marked_for_close,    \* has an end closed the circuit?
    link,                \* cells an end originated and its peer has not received
    data_sent, data_rcvd,       \* history: DATA cells originated, accepted
    sendmes_sent, sendmes_rcvd, \* history: SENDME cells originated, accepted
    other_sent                  \* history: other cells originated

windows == <<package_window, deliver_window, inflight, cwnd>>
history == <<data_sent, data_rcvd, sendmes_sent, sendmes_rcvd, other_sent>>
vars == <<windows, sendme_last_digests, sendme_digest, marked_for_close, link,
          history>>

Tag == [from : End, nth : Nat]

\* The payload of a version 0 SENDME is empty.
EmptyPayload == [from |-> "nobody", nth |-> 0]

Cell == [cmd : {"DATA", "SENDME", "OTHER"}, nth : Nat,
         ack : Tag \cup {EmptyPayload}]

TypeOK ==
    /\ package_window \in [End -> 0..CircwindowStart]
    /\ deliver_window \in [End -> Int]
    /\ inflight \in [End -> Int]
    /\ cwnd \in [End -> CwndMin..CwndMax]
    /\ sendme_last_digests \in [End -> Seq(Tag)]
    /\ sendme_digest \in [End -> Tag]
    /\ marked_for_close \in [End -> BOOLEAN]
    /\ link \in [End -> Seq(Cell)]
    /\ data_sent \in [End -> Nat] /\ data_rcvd \in [End -> Nat]
    /\ sendmes_sent \in [End -> Nat] /\ sendmes_rcvd \in [End -> Nat]
    /\ other_sent \in [End -> Nat]

Init ==
    /\ package_window = [e \in End |-> PackageWindowInit]
    /\ deliver_window = [e \in End |-> CircwindowStart]
    /\ inflight = [e \in End |-> 0]
    /\ cwnd = [e \in End |-> CwndInit]
    /\ sendme_last_digests = [e \in End |-> <<>>]
    /\ sendme_digest = [e \in End |-> [from |-> e, nth |-> 0]]
    /\ marked_for_close = [e \in End |-> FALSE]
    /\ link = [e \in End |-> <<>>]
    /\ data_sent = [e \in End |-> 0] /\ data_rcvd = [e \in End |-> 0]
    /\ sendmes_sent = [e \in End |-> 0] /\ sendmes_rcvd = [e \in End |-> 0]
    /\ other_sent = [e \in End |-> 0]

-----------------------------------------------------------------------------
(* The operations of sendme.c and congestion_control_common.c.  The        *)
(* operators named Faulty... are seeded faults, never part of Spec: each   *)
(* replaces the definition that follows it to show that a property notices.*)

\* The tag the crypto layer leaves in the buffer for a cell of end e.
TagOf(e, cell) == [from |-> e, nth |-> IF cell.cmd = "DATA" THEN cell.nth ELSE 0]

FaultyGetPackageWindow(e) ==
    IF ~UsesCC THEN package_window[e] + 1 ELSE cwnd[e] - inflight[e] + 1

\* How many DATA cells end e may still package.
GetPackageWindow(e) ==
    IF ~UsesCC THEN package_window[e]
    ELSE IF inflight[e] > cwnd[e] THEN 0 ELSE cwnd[e] - inflight[e]

FaultyCircuitSentCellForSendme(e) ==
    IF UsesCC
    THEN inflight[e] # 0 /\ inflight[e] % Inc = 0
    ELSE package_window[e] # CircwindowStart /\ package_window[e] % Inc = 0

\* Will the DATA cell e is packaging make the peer send a SENDME?  Evaluated
\* before the cell is accounted for in the window.
CircuitSentCellForSendme(e) ==
    IF UsesCC
    THEN inflight[e] # 0 /\ (inflight[e] + 1) % Inc = 0
    ELSE package_window[e] # CircwindowStart /\ (package_window[e] - 1) % Inc = 0

FaultyNoteDataPackaged(e) ==
    IF UsesCC
    THEN /\ inflight' = [inflight EXCEPT ![e] = @ + 1]
         /\ UNCHANGED package_window
    ELSE /\ package_window' = IF CircuitSentCellForSendme(e) THEN package_window
                              ELSE [package_window EXCEPT ![e] = @ - 1]
         /\ UNCHANGED inflight

\* Account for a DATA cell put on the circuit.
NoteDataPackaged(e) ==
    IF UsesCC
    THEN /\ inflight' = [inflight EXCEPT ![e] = @ + 1]
         /\ UNCHANGED package_window
    ELSE /\ package_window' = [package_window EXCEPT ![e] = @ - 1]
         /\ UNCHANGED inflight

FaultySendmesConsidered(e, w, tag) ==
    [i \in 1..(IF w > CircwindowStart - 2 * Inc THEN 0
               ELSE (CircwindowStart - w) \div Inc) |->
        [cmd |-> "SENDME", nth |-> sendmes_sent[e] + i,
         ack |-> IF EmitVersion[e] = 0 THEN EmptyPayload
                 ELSE IF i = 1 THEN tag ELSE [from |-> e, nth |-> 0]]]

\* The cells sent by the loop of sendme_circuit_consider_sending when the
\* deliver window of e is w: one SENDME for each Inc that w lacks.  Every
\* iteration reads the tag buffer, and originating the SENDME overwrites it.
SendmesConsidered(e, w, tag) ==
    [i \in 1..(IF w > CircwindowStart - Inc THEN 0
               ELSE (CircwindowStart - w) \div Inc) |->
        [cmd |-> "SENDME", nth |-> sendmes_sent[e] + i,
         ack |-> IF EmitVersion[e] = 0 THEN EmptyPayload
                 ELSE IF i = 1 THEN tag ELSE [from |-> e, nth |-> 0]]]

\* Can e handle the version of the SENDME?  A cell with an empty payload has
\* version 0.
VersionAccepted(e, cell) ==
    (IF cell.ack = EmptyPayload THEN 0 ELSE 1) >= AcceptMinVersion[e]

FaultySendmeIsValid(e, cell) ==
    /\ (IF cell.ack = EmptyPayload THEN 0 ELSE 1) > AcceptMinVersion[e]
    /\ sendme_last_digests[e] # <<>>
    /\ cell.ack # EmptyPayload => cell.ack = Head(sendme_last_digests[e])

\* Is the SENDME acceptable to e?  Its version must be one e accepts, a digest
\* must be waiting for it, and version 1 must carry exactly that digest.
SendmeIsValid(e, cell) ==
    /\ VersionAccepted(e, cell)
    /\ sendme_last_digests[e] # <<>>
    /\ cell.ack # EmptyPayload => cell.ack = Head(sendme_last_digests[e])

FaultyUpdateWindow(e) ==
    IF UsesCC
    THEN /\ inflight' = [inflight EXCEPT ![e] = IF cwnd[e] = CwndMin THEN @ ELSE @ - Inc]
         /\ \E w \in CwndMin..CwndMax : cwnd' = [cwnd EXCEPT ![e] = w]
         /\ UNCHANGED package_window
    ELSE /\ package_window' = [package_window EXCEPT ![e] = @ + Inc]
         /\ UNCHANGED <<inflight, cwnd>>

\* A valid SENDME reopens the window: the fixed algorithm adds the increment,
\* congestion control runs its algorithm on cwnd (any value within its bounds)
\* and takes the increment off inflight.  A result below zero stands for the
\* wrap-around of the uint64_t.
UpdateWindow(e) ==
    IF UsesCC
    THEN /\ inflight' = [inflight EXCEPT ![e] = @ - Inc]
         /\ \E w \in CwndMin..CwndMax : cwnd' = [cwnd EXCEPT ![e] = w]
         /\ UNCHANGED package_window
    ELSE /\ package_window' = [package_window EXCEPT ![e] = @ + Inc]
         /\ UNCHANGED <<inflight, cwnd>>

-----------------------------------------------------------------------------
(* Originating cells.                                                      *)

\* relay_send_command_from_edge for one DATA cell, called from the edge's
\* packaging loop while the package window is positive.
PackageData(e) ==
    LET cell == [cmd |-> "DATA", nth |-> data_sent[e] + 1, ack |-> EmptyPayload]
    IN  /\ ~marked_for_close[e]
        /\ data_sent[e] < MaxData
        /\ GetPackageWindow(e) > 0
        /\ link' = [link EXCEPT ![e] = Append(@, cell)]
        /\ sendme_digest' = [sendme_digest EXCEPT ![e] = TagOf(e, cell)]
        /\ sendme_last_digests' =
             IF CircuitSentCellForSendme(e)
             THEN [sendme_last_digests EXCEPT ![e] = Append(@, TagOf(e, cell))]
             ELSE sendme_last_digests
        /\ NoteDataPackaged(e)
        /\ data_sent' = [data_sent EXCEPT ![e] = @ + 1]
        /\ UNCHANGED <<deliver_window, cwnd, marked_for_close, data_rcvd,
                       sendmes_sent, sendmes_rcvd, other_sent>>

\* Any other cell (BEGIN, CONNECTED, END, DROP, ...): no window counts it, but
\* it goes through the same crypto state and overwrites the tag buffer.
SendOther(e) ==
    LET cell == [cmd |-> "OTHER", nth |-> other_sent[e] + 1, ack |-> EmptyPayload]
    IN  /\ ~marked_for_close[e]
        /\ other_sent[e] < MaxOther
        /\ link' = [link EXCEPT ![e] = Append(@, cell)]
        /\ sendme_digest' = [sendme_digest EXCEPT ![e] = TagOf(e, cell)]
        /\ other_sent' = [other_sent EXCEPT ![e] = @ + 1]
        /\ UNCHANGED <<windows, sendme_last_digests, marked_for_close, data_sent,
                       data_rcvd, sendmes_sent, sendmes_rcvd>>

-----------------------------------------------------------------------------
(* Receiving cells.                                                        *)

\* The next cell for e is one of command cmd, and e still has the circuit.
Incoming(e, cmd) ==
    /\ ~marked_for_close[e]
    /\ link[Peer(e)] # <<>>
    /\ Head(link[Peer(e)]).cmd = cmd

\* connection_edge_process_relay_cell for DATA: the deliver window, then the
\* SENDMEs, both before the data goes to conflux or to a stream.
ReceiveData(e) ==
    LET cell    == Head(link[Peer(e)])
        tag     == TagOf(Peer(e), cell)
        w       == deliver_window[e] - 1
        sendmes == SendmesConsidered(e, w, tag)
        n       == Len(sendmes)
    IN  /\ Incoming(e, "DATA")
        /\ IF w < 0
           THEN /\ marked_for_close' = [marked_for_close EXCEPT ![e] = TRUE]
                /\ deliver_window' = [deliver_window EXCEPT ![e] = w]
                /\ link' = [link EXCEPT ![Peer(e)] = Tail(@)]
                /\ sendme_digest' = [sendme_digest EXCEPT ![e] = tag]
                /\ UNCHANGED <<sendmes_sent, data_rcvd>>
           ELSE /\ deliver_window' = [deliver_window EXCEPT ![e] = w + n * Inc]
                /\ link' = [link EXCEPT ![Peer(e)] = Tail(@), ![e] = @ \o sendmes]
                /\ sendme_digest' = [sendme_digest EXCEPT ![e] =
                     IF n = 0 THEN tag ELSE [from |-> e, nth |-> 0]]
                /\ sendmes_sent' = [sendmes_sent EXCEPT ![e] = @ + n]
                /\ data_rcvd' = [data_rcvd EXCEPT ![e] = @ + 1]
                /\ UNCHANGED marked_for_close
        /\ UNCHANGED <<package_window, inflight, cwnd, sendme_last_digests, data_sent,
                       sendmes_rcvd, other_sent>>

\* sendme_process_circuit_level: once the version is accepted, validation pops
\* the digest whatever comes of it, and an invalid SENDME or one beyond the
\* largest window closes the circuit.
ReceiveSendme(e) ==
    LET cell  == Head(link[Peer(e)])
        valid == /\ SendmeIsValid(e, cell)
                 /\ UsesCC \/ package_window[e] + Inc <= CircwindowStart
    IN  /\ Incoming(e, "SENDME")
        /\ link' = [link EXCEPT ![Peer(e)] = Tail(@)]
        /\ sendme_digest' = [sendme_digest EXCEPT ![e] = TagOf(Peer(e), cell)]
        /\ sendme_last_digests' =
             IF VersionAccepted(e, cell) /\ sendme_last_digests[e] # <<>>
             THEN [sendme_last_digests EXCEPT ![e] = Tail(@)]
             ELSE sendme_last_digests
        /\ IF valid
           THEN /\ sendmes_rcvd' = [sendmes_rcvd EXCEPT ![e] = @ + 1]
                /\ UpdateWindow(e)
                /\ UNCHANGED marked_for_close
           ELSE /\ marked_for_close' = [marked_for_close EXCEPT ![e] = TRUE]
                /\ UNCHANGED <<package_window, inflight, cwnd, sendmes_rcvd>>
        /\ UNCHANGED <<deliver_window, data_sent, data_rcvd, sendmes_sent, other_sent>>

ReceiveOther(e) ==
    LET cell == Head(link[Peer(e)])
    IN  /\ Incoming(e, "OTHER")
        /\ link' = [link EXCEPT ![Peer(e)] = Tail(@)]
        /\ sendme_digest' = [sendme_digest EXCEPT ![e] = TagOf(Peer(e), cell)]
        /\ UNCHANGED <<windows, sendme_last_digests, marked_for_close, history>>

Receive(e) == ReceiveData(e) \/ ReceiveSendme(e) \/ ReceiveOther(e)

Next == \E e \in End : PackageData(e) \/ SendOther(e) \/ Receive(e)

\* The channels deliver what was queued and the event loop reads an edge whose
\* window is open: the receiving and the packaging steps are fair.
Fairness == \A e \in End : WF_vars(Receive(e)) /\ WF_vars(PackageData(e))

Spec == Init /\ [][Next]_vars

FairSpec == Spec /\ Fairness

-----------------------------------------------------------------------------
(* Properties.                                                             *)

\* Data an end has sent that no SENDME has acknowledged yet.
Unacked(e) == data_sent[e] - Inc * sendmes_rcvd[e]

\* An end that follows the protocol never finds its peer in violation of it: no
\* digest mismatch, no SENDME without a digest, no window over or under its
\* bounds (sendme_is_valid, sendme_process_circuit_level_impl, the check of the
\* deliver window in connection_edge_process_relay_cell).
HonestCircuitStaysOpen == \A e \in End : ~marked_for_close[e]

\* Nothing is lost between the two windows of a direction: what the sender may
\* still package, the DATA on its way, and the SENDMEs on their way back add up
\* to the receiver's deliver window, less the handicap the consensus parameter
\* circwindow gives the sender.
WindowConservation ==
    ~UsesCC => \A e \in End :
        package_window[e] + (data_sent[e] - data_rcvd[Peer(e)])
           + Inc * (sendmes_sent[Peer(e)] - sendmes_rcvd[e])
        = deliver_window[Peer(e)] - (CircwindowStart - PackageWindowInit)

\* The digests an end keeps are exactly the tags of the cells that complete an
\* increment and whose SENDME it has not seen, oldest first: the peer's SENDMEs
\* meet them in this order.
DigestsAwaitSendmes ==
    \A e \in End :
        LET q == sendme_last_digests[e]
        IN  /\ \A i \in DOMAIN q : q[i] = [from |-> e, nth |-> Inc * (sendmes_rcvd[e] + i)]
            /\ sendmes_rcvd[e] + Len(q) = data_sent[e] \div Inc

\* The inflight counter of congestion control is what the circuit really has
\* unacknowledged; it never wraps below zero and never exceeds the largest
\* window.
InflightExact ==
    UsesCC => \A e \in End : inflight[e] = Unacked(e) /\ inflight[e] \in 0..CwndMax

\* Receiving a DATA cell makes an end send at most one SENDME: the assertion in
\* sendme_circuit_consider_sending never fires.
AtMostOneSendme ==
    [][\A e \in End : sendmes_sent'[e] <= sendmes_sent[e] + 1]_vars

\* circuit_sent_cell_for_sendme predicts the peer: it holds for a DATA cell if
\* and only if the peer sends a SENDME on receiving that cell.
PredictsSendme ==
    [][\A e \in End : PackageData(e) =>
          (CircuitSentCellForSendme(e) <=> (data_sent[e] + 1) % Inc = 0)]_vars

\* The windows never stall the circuit for good: all data both ends have is
\* eventually packaged and delivered.
AllDataDelivered == <>(\A e \in End : data_rcvd[e] = MaxData)

\* What each direction promises its user, as an abstract window: see CreditWindow.
WindowSize == IF UsesCC THEN CwndMax ELSE PackageWindowInit

ToExit == INSTANCE CreditWindow WITH
    Window <- WindowSize, sent <- data_sent["client"],
    delivered <- data_rcvd["exit"], acked <- Inc * sendmes_rcvd["client"]

ToClient == INSTANCE CreditWindow WITH
    Window <- WindowSize, sent <- data_sent["exit"],
    delivered <- data_rcvd["client"], acked <- Inc * sendmes_rcvd["exit"]

\* Each direction of the circuit implements the abstract window: data outstanding
\* never exceeds the window, and only delivered data is ever acknowledged.
ImplementsCreditWindow == ToExit!Spec /\ ToClient!Spec

-----------------------------------------------------------------------------
(* The inductive invariant behind the properties.                          *)

\* The parameters under which two honest ends agree on when a SENDME is due: an
\* increment of two cells or more, an initial package window that is a multiple
\* of it, and versions the peer accepts.  The code uses the constants 100 and
\* 1000 and enforces none of this for the consensus parameters.
AgreeingParameters ==
    /\ Inc >= 2
    /\ ~UsesCC => \E m \in Nat : PackageWindowInit = Inc * m
    /\ \A e \in End : EmitVersion[e] >= AcceptMinVersion[Peer(e)]

\* The cells of command c in the sequence s are numbered lo+1 .. hi, in order.
InOrder(s, c, lo, hi) ==
    /\ \A i \in DOMAIN s : s[i].cmd = c => lo < s[i].nth /\ s[i].nth <= hi
    /\ \A i, j \in DOMAIN s :
          i < j /\ s[i].cmd = c /\ s[j].cmd = c => s[i].nth < s[j].nth
    /\ \A n \in (lo + 1)..hi : \E i \in DOMAIN s : s[i].cmd = c /\ s[i].nth = n

\* The receiver has sent one SENDME for each full increment it received.
CountsInv(e) ==
    LET p == Peer(e)
    IN  /\ data_rcvd[p] <= data_sent[e]
        /\ sendmes_rcvd[e] <= sendmes_sent[p]
        /\ Inc * sendmes_sent[p] <= data_rcvd[p]
        /\ data_rcvd[p] < Inc * sendmes_sent[p] + Inc

WindowsInv(e) ==
    LET p == Peer(e)
    IN  /\ deliver_window[p] = CircwindowStart - data_rcvd[p] + Inc * sendmes_sent[p]
        /\ ~UsesCC => package_window[e] = PackageWindowInit - Unacked(e)
        /\ UsesCC => inflight[e] = Unacked(e) /\ inflight[e] <= CwndMax

\* The tags q are those of the cells of e that complete the increments after the
\* a-th, up to the d-th cell, in order.
Awaits(q, e, a, d) ==
    /\ \A i \in DOMAIN q : q[i] = [from |-> e, nth |-> Inc * (a + i)]
    /\ Inc * (a + Len(q)) <= d
    /\ d < Inc * (a + Len(q)) + Inc

DigestsInv(e) ==
    Awaits(sendme_last_digests[e], e, sendmes_rcvd[e], data_sent[e])

\* The SENDMEs among the cells s acknowledge the cells of e that complete an
\* increment, each the one of its own number.
Acknowledge(s, e) ==
    \A i \in DOMAIN s : s[i].cmd = "SENDME" =>
        s[i].ack = IF EmitVersion[Peer(e)] = 0 THEN EmptyPayload
                   ELSE [from |-> e, nth |-> Inc * s[i].nth]

\* Both directions of the path of e's data: the DATA cells, and the SENDMEs that
\* answer them.
LinksInv(e) ==
    LET p == Peer(e)
    IN  /\ InOrder(link[e], "DATA", data_rcvd[p], data_sent[e])
        /\ InOrder(link[p], "SENDME", sendmes_rcvd[e], sendmes_sent[p])
        /\ Acknowledge(link[p], e)

IInv ==
    /\ TypeOK
    /\ HonestCircuitStaysOpen
    /\ \A e \in End : CountsInv(e) /\ WindowsInv(e) /\ DigestsInv(e) /\ LinksInv(e)
=============================================================================
