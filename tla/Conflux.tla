------------------------------- MODULE Conflux -------------------------------
(***************************************************************************)
(* A linked conflux set: several circuits (legs) between one client and    *)
(* one exit that carry one ordered sequence of multiplexed cells in each   *)
(* direction.  The cells carry no sequence numbers.  Each end counts the   *)
(* multiplexed cells of each leg, a SWITCH cell says by how much the       *)
(* sender's count on a leg jumps when it moves to that leg, and the        *)
(* receiver puts the cells back in order with its own counts.              *)
(*                                                                         *)
(* A leg delivers in order until it fails.  Its two ends then learn of the *)
(* failure at different times, and cells on their way may or may not still *)
(* arrive.  The n-th multiplexed cell of a direction has nth = n.          *)
(***************************************************************************)
EXTENDS Integers, Sequences, FiniteSets, FiniteSetsExt

CONSTANTS
    Leg,         \* the circuits of the set
    NoLeg,       \* the null conflux_leg_t
    Fragile,     \* the legs whose path may fail, or that an end may close itself
    Command,     \* multiplexed commands in use: "DATA", and "CTRL" for the others
    SendmeInc,   \* cc->sendme_inc
    Cwnd,        \* cc->cwnd, the same for all legs
    MaxOooq,     \* conflux_params_get_max_oooq(), in cells
    MaxSend      \* bound: multiplexed cells each end has to send

End == {"client", "exit"}

Peer(e) == IF e = "client" THEN "exit" ELSE "client"

ASSUME ConstantsAssumption ==
    /\ NoLeg \notin Leg /\ IsFiniteSet(Leg) /\ Leg # {}
    /\ Fragile \subseteq Leg
    /\ Command \subseteq {"DATA", "CTRL"}
    /\ SendmeInc \in Nat \ {0} /\ Cwnd \in Nat /\ Cwnd >= SendmeInc
    /\ MaxOooq \in Nat
    /\ MaxSend \in [End -> Nat]

VARIABLES
    legs,               \* cfx->legs: the legs an end has not closed
    curr_leg,           \* cfx->curr_leg: the leg an end sends on
    measured,           \* legs with an RTT (circ_rtts_usec > 0)
    last_seq_sent, last_seq_recv, \* per leg: sequence number sent, received
    last_seq_delivered, \* cfx->last_seq_delivered
    ooo_q,              \* cfx->ooo_q: cells that arrived before their turn
    inflight,           \* per leg: DATA cells without a SENDME
    data_rcvd,          \* per leg: DATA cells received, modulo sendme_inc
    link,               \* per leg: cells on their way from an end to its peer
    broken,             \* legs that failed or that an end has closed
    sent, delivered,    \* history: cells sent, cells given to the streams
    protocol_error      \* history: an end closed the set or a leg on a bad number

leg_state == <<last_seq_sent, last_seq_recv, inflight, data_rcvd>>
vars == <<legs, curr_leg, measured, leg_state, last_seq_delivered, ooo_q, link, broken,
          sent, delivered, protocol_error>>

Cell == [cmd : {"DATA", "CTRL", "SWITCH", "SENDME", "LINKED_ACK"}, nth : Nat, rel : Int]

TypeOK ==
    /\ legs \in [End -> SUBSET Leg] /\ measured \in [End -> SUBSET Leg]
    /\ curr_leg \in [End -> Leg \cup {NoLeg}]
    /\ last_seq_sent \in [End -> [Leg -> Nat]] /\ last_seq_recv \in [End -> [Leg -> Nat]]
    /\ last_seq_delivered \in [End -> Nat]
    /\ ooo_q \in [End -> SUBSET [seq : Nat, nth : Nat]]
    /\ inflight \in [End -> [Leg -> 0..Cwnd]]
    /\ data_rcvd \in [End -> [Leg -> 0..(SendmeInc - 1)]]
    /\ link \in [End -> [Leg -> Seq(Cell)]]
    /\ broken \subseteq Leg
    /\ sent \in [End -> Nat] /\ delivered \in [End -> Seq(Nat)]
    /\ protocol_error \in BOOLEAN

\* A set just linked: the client has measured its legs, the exit measures a leg
\* when the LINKED_ACK, the first cell after the handshake, arrives on it.
Init ==
    /\ legs = [e \in End |-> Leg]
    /\ curr_leg = [e \in End |-> NoLeg]
    /\ measured = [e \in End |-> IF e = "client" THEN Leg ELSE {}]
    /\ last_seq_sent = [e \in End |-> [l \in Leg |-> 0]]
    /\ last_seq_recv = [e \in End |-> [l \in Leg |-> 0]]
    /\ last_seq_delivered = [e \in End |-> 0]
    /\ ooo_q = [e \in End |-> {}]
    /\ inflight = [e \in End |-> [l \in Leg |-> 0]]
    /\ data_rcvd = [e \in End |-> [l \in Leg |-> 0]]
    /\ link = [e \in End |-> [l \in Leg |->
                 IF e = "client" THEN <<[cmd |-> "LINKED_ACK", nth |-> 0, rel |-> 0]>>
                 ELSE <<>>]]
    /\ broken = {}
    /\ sent = [e \in End |-> 0]
    /\ delivered = [e \in End |-> <<>>]
    /\ protocol_error = FALSE

-----------------------------------------------------------------------------
(* Closing legs.                                                           *)

\* The largest of the numbers seq over the legs ls; 0 when there is none.
MaxSeq(seq, ls) == Max({0} \cup {seq[l] : l \in ls})

FaultyClosesSet(e, l, recv) ==
    LET rest == legs[e] \ {l}
    IN  \/ rest # {} /\ MaxSeq(last_seq_sent[e], rest) < last_seq_sent[e][l]
        \/ rest # {} /\ MaxSeq(recv[e], rest) < recv[e][l]
        \/ curr_leg[e] = l

\* cfx_del_leg: does the end of leg l tear down the whole set of e?  recv are the
\* received numbers at that moment.
ClosesSet(e, l, recv) ==
    LET rest == legs[e] \ {l}
    IN  \/ inflight[e][l] >= SendmeInc
        \/ rest # {} /\ MaxSeq(last_seq_sent[e], rest) < last_seq_sent[e][l]
        \/ rest # {} /\ MaxSeq(recv[e], rest) < recv[e][l]
        \/ curr_leg[e] = l

\* circuit_mark_for_close on all the legs ls of e, the DESTROYs included.
CloseLegs(e, ls) ==
    /\ legs' = [legs EXCEPT ![e] = @ \ ls]
    /\ curr_leg' = [curr_leg EXCEPT ![e] = IF @ \in ls THEN NoLeg ELSE @]
    /\ broken' = broken \cup ls

\* The close of leg l at e, with its consequences for the set.
CloseLeg(e, l, recv) ==
    CloseLegs(e, IF ClosesSet(e, l, recv) THEN legs[e] ELSE {l})

-----------------------------------------------------------------------------
(* Sending a multiplexed cell.                                             *)

\* The legs the scheduling algorithm may choose: with an RTT and with room in
\* their window.  Which of them has the least RTT, and whose channel is blocked,
\* is left open.
ReadyToSend(e) == {l \in legs[e] \cap measured[e] : inflight[e][l] < Cwnd}

\* conflux_pick_first_leg, for a set without a current leg.
FirstLegs(e) ==
    IF curr_leg[e] # NoLeg THEN {curr_leg[e]}
    ELSE IF legs[e] \cap measured[e] # {} THEN legs[e] \cap measured[e]
    ELSE legs[e]

FaultySeqAfterSwitch(e, prev, new) == last_seq_sent[e][new]

\* The number the new leg continues from: that of the leg sent on before.
SeqAfterSwitch(e, prev, new) == last_seq_sent[e][prev]

\* relay_send_command_from_edge_ for a multiplexed command, with the decision of
\* conflux_decide_circ_for_send: a leg that is ready, or for a command other than
\* DATA the current one when none is.  The first cell on another leg follows a
\* SWITCH.
SendCell(e, cmd) ==
    /\ legs[e] # {}
    /\ sent[e] < MaxSend[e]
    /\ \E prev \in FirstLegs(e) :
       \E new \in ReadyToSend(e) \cup (IF cmd = "DATA" THEN {} ELSE {prev}) :
          LET rel   == last_seq_sent[e][prev] - last_seq_sent[e][new]
              base  == SeqAfterSwitch(e, prev, new)
              cell  == [cmd |-> cmd, nth |-> sent[e] + 1, rel |-> 0]
              cells == IF new = prev THEN <<cell>>
                       ELSE <<[cmd |-> "SWITCH", nth |-> 0, rel |-> rel], cell>>
          IN  IF rel < 0
              THEN /\ CloseLegs(e, legs[e])
                   /\ protocol_error' = TRUE
                   /\ UNCHANGED <<last_seq_sent, inflight, link, sent>>
              ELSE /\ curr_leg' = [curr_leg EXCEPT ![e] = new]
                   /\ last_seq_sent' = [last_seq_sent EXCEPT ![e][new] = base + 1]
                   /\ inflight' = IF cmd = "DATA" THEN [inflight EXCEPT ![e][new] = @ + 1]
                                  ELSE inflight
                   /\ link' = [link EXCEPT ![e][new] = @ \o cells]
                   /\ sent' = [sent EXCEPT ![e] = @ + 1]
                   /\ UNCHANGED <<legs, broken, protocol_error>>
    /\ UNCHANGED <<measured, last_seq_recv, last_seq_delivered, ooo_q, data_rcvd,
                   delivered>>

\* conflux_decide_next_circ, asked how much the package window of a set has room
\* for, picks a first leg although nothing is sent.
PickLeg(e) ==
    /\ curr_leg[e] = NoLeg
    /\ \E l \in FirstLegs(e) : curr_leg' = [curr_leg EXCEPT ![e] = l]
    /\ UNCHANGED <<legs, measured, leg_state, last_seq_delivered, ooo_q, link, broken,
                   sent, delivered, protocol_error>>

\* The SWITCH, or the cell after it, cannot be packaged (its circuit's queue is
\* over its limit): the leg, which is the current one by now, is marked for close
\* and the set goes with it.
SendFails(e) ==
    /\ sent[e] < MaxSend[e]
    /\ \E prev \in FirstLegs(e) : \E new \in Fragile \cap (ReadyToSend(e) \cup {prev}) :
         /\ last_seq_sent[e][new] <= last_seq_sent[e][prev]
         /\ \/ UNCHANGED <<last_seq_sent, link>>
            \/ LET rel == last_seq_sent[e][prev] - last_seq_sent[e][new]
               IN  /\ new # prev
                   /\ link' = [link EXCEPT ![e][new] =
                                 Append(@, [cmd |-> "SWITCH", nth |-> 0, rel |-> rel])]
                   /\ last_seq_sent' = [last_seq_sent EXCEPT ![e][new] =
                                          SeqAfterSwitch(e, prev, new)]
    /\ CloseLegs(e, legs[e])
    /\ UNCHANGED <<measured, last_seq_recv, inflight, data_rcvd, last_seq_delivered,
                   ooo_q, sent, delivered, protocol_error>>

-----------------------------------------------------------------------------
(* Receiving.                                                              *)

Incoming(e, l, cmds) ==
    /\ l \in legs[e]
    /\ link[Peer(e)][l] # <<>>
    /\ Head(link[Peer(e)][l]).cmd \in cmds

FaultySwitched(e, l, rel) == last_seq_recv[e][l]

\* The SWITCH itself is not counted: the delta is all it adds.
Switched(e, l, rel) == last_seq_recv[e][l] + rel

\* conflux_process_switch_command
ReceiveSwitch(e, l) ==
    LET cell == Head(link[Peer(e)][l])
    IN  /\ Incoming(e, l, {"SWITCH"})
        /\ last_seq_recv' = [last_seq_recv EXCEPT ![e][l] = Switched(e, l, cell.rel)]
        /\ link' = [link EXCEPT ![Peer(e)][l] = Tail(@)]
        /\ UNCHANGED <<legs, curr_leg, measured, last_seq_sent, inflight, data_rcvd,
                       last_seq_delivered, ooo_q, broken, sent, delivered,
                       protocol_error>>

\* conflux_process_linked_ack
ReceiveLinkedAck(e, l) ==
    /\ Incoming(e, l, {"LINKED_ACK"})
    /\ measured' = [measured EXCEPT ![e] = @ \cup {l}]
    /\ link' = [link EXCEPT ![Peer(e)][l] = Tail(@)]
    /\ UNCHANGED <<legs, curr_leg, leg_state, last_seq_delivered, ooo_q, broken, sent,
                   delivered, protocol_error>>

\* The circuit-level SENDME of a leg is not multiplexed.
ReceiveSendme(e, l) ==
    /\ Incoming(e, l, {"SENDME"})
    /\ inflight' = [inflight EXCEPT ![e][l] = @ - SendmeInc]
    /\ link' = [link EXCEPT ![Peer(e)][l] = Tail(@)]
    /\ UNCHANGED <<legs, curr_leg, measured, last_seq_sent, last_seq_recv, data_rcvd,
                   last_seq_delivered, ooo_q, broken, sent, delivered, protocol_error>>

FaultyReadyInQueue(e, s) == {m \in ooo_q[e] : m.seq = s + 1}

\* The queued cells that directly follow number s, which conflux_dequeue_relay_msg
\* hands out one after the other.
ReadyInQueue(e, s) ==
    {m \in ooo_q[e] : m.seq > s /\ \A k \in (s + 1)..m.seq :
                         \E q \in ooo_q[e] : q.seq = k}

\* The first k cells of the set q in the order of their sequence numbers, which
\* are the ones after s.
InSeqOrder(q, s, k) == [i \in 1..k |-> (CHOOSE m \in q : m.seq = s + i).nth]

\* connection_edge_process_relay_cell for a multiplexed command: the SENDME of the
\* leg first, then conflux_process_relay_msg and the loop over the queue.  Handling
\* a cell may close the leg, and the loop then leaves the rest in the queue.
ReceiveMultiplexed(e, l) ==
    LET p    == Peer(e)
        cell == Head(link[p][l])
        s    == last_seq_recv[e][l] + 1
        recv == [last_seq_recv EXCEPT ![e][l] = s]
        acks == cell.cmd = "DATA" /\ (data_rcvd[e][l] + 1) % SendmeInc = 0
        ready == ReadyInQueue(e, s)
    IN  /\ Incoming(e, l, {"DATA", "CTRL"})
        /\ last_seq_recv' = recv
        /\ data_rcvd' = IF cell.cmd # "DATA" THEN data_rcvd
                        ELSE [data_rcvd EXCEPT ![e][l] = (@ + 1) % SendmeInc]
        /\ link' = [link EXCEPT ![p][l] = Tail(@),
                                ![e][l] = IF acks THEN Append(@,
                                    [cmd |-> "SENDME", nth |-> 0, rel |-> 0]) ELSE @]
        /\ \/ /\ s = last_seq_delivered[e] + 1
              /\ \E k \in 0..Cardinality(ready) :
                   /\ last_seq_delivered' = [last_seq_delivered EXCEPT ![e] = s + k]
                   /\ delivered' = [delivered EXCEPT ![e] =
                                      Append(@, cell.nth) \o InSeqOrder(ready, s, k)]
                   /\ ooo_q' = [ooo_q EXCEPT ![e] = @ \ {m \in ready : m.seq <= s + k}]
                   /\ \/ /\ k = Cardinality(ready)
                         /\ UNCHANGED <<legs, curr_leg, broken>>
                      \/ /\ l \in Fragile
                         /\ CloseLeg(e, l, recv)
              /\ UNCHANGED protocol_error
           \/ /\ s <= last_seq_delivered[e]
              /\ CloseLeg(e, l, recv)
              /\ protocol_error' = TRUE
              /\ UNCHANGED <<last_seq_delivered, delivered, ooo_q>>
           \/ /\ s > last_seq_delivered[e] + 1
              /\ Cardinality(ooo_q[e]) >= MaxOooq
              /\ CloseLeg(e, l, recv)
              /\ UNCHANGED <<last_seq_delivered, delivered, ooo_q, protocol_error>>
           \/ /\ s > last_seq_delivered[e] + 1
              /\ Cardinality(ooo_q[e]) < MaxOooq
              /\ ooo_q' = [ooo_q EXCEPT ![e] = @ \cup {[seq |-> s, nth |-> cell.nth]}]
              /\ UNCHANGED <<legs, curr_leg, broken, last_seq_delivered, delivered,
                             protocol_error>>
        /\ UNCHANGED <<measured, last_seq_sent, inflight, sent>>

-----------------------------------------------------------------------------
(* Failures.                                                               *)

\* A relay or a channel on the path of the leg goes away.
LegFails(l) ==
    /\ l \in Fragile \ broken
    /\ broken' = broken \cup {l}
    /\ UNCHANGED <<legs, curr_leg, measured, leg_state, last_seq_delivered, ooo_q, link,
                   sent, delivered, protocol_error>>

\* linked_circuit_closed: the DESTROY of a failed or closed leg arrives.
LegCloses(e, l) ==
    /\ l \in broken \cap legs[e]
    /\ CloseLeg(e, l, last_seq_recv)
    /\ UNCHANGED <<measured, leg_state, last_seq_delivered, ooo_q, link, sent, delivered,
                   protocol_error>>

Receive(e, l) == ReceiveSwitch(e, l) \/ ReceiveLinkedAck(e, l) \/ ReceiveSendme(e, l)
                   \/ ReceiveMultiplexed(e, l)

Next ==
    \/ \E e \in End, cmd \in Command : SendCell(e, cmd)
    \/ \E e \in End : PickLeg(e) \/ SendFails(e)
    \/ \E e \in End, l \in Leg : Receive(e, l) \/ LegCloses(e, l)
    \/ \E l \in Leg : LegFails(l)

\* Channels deliver, DESTROYs included, and an edge with data and room sends.
Fairness ==
    /\ \A e \in End, l \in Leg : WF_vars(Receive(e, l)) /\ WF_vars(LegCloses(e, l))
    /\ \A e \in End : WF_vars(\E cmd \in Command : SendCell(e, cmd))

Spec == Init /\ [][Next]_vars

FairSpec == Spec /\ Fairness

-----------------------------------------------------------------------------
(* Properties.                                                             *)

\* The streams of an end get the cells of the peer in the order they were sent,
\* each once and none skipped, however the legs interleave or fail; and all state keeps
\* its type.
InOrderDelivery ==
    /\ TypeOK
    /\ \A e \in End : /\ delivered[e] = [i \in 1..Len(delivered[e]) |-> i]
                      /\ Len(delivered[e]) = last_seq_delivered[e]
                      /\ last_seq_delivered[e] <= sent[Peer(e)]

\* Two honest ends never hit the paths for incoherent sequence numbers: the SWITCH
\* of conflux_decide_circ_for_send never goes backwards, and no cell arrives with
\* a number already delivered (conflux_process_relay_msg).
CoherentSequences == ~protocol_error

\* The numbers of the multiplexed cells of a queue.
Numbers(q) == {q[i].nth : i \in {j \in DOMAIN q : q[j].cmd \in {"DATA", "CTRL"}}}

\* How many cells of a queue have this command.
Count(q, cmd) == Cardinality({i \in DOMAIN q : q[i].cmd = cmd})

\* What a leg that is gone has cost.  A cell that is sent and not delivered is in the
\* receiver's queue, or still on its leg, or it was the one that a full queue turned away
\* and its leg with it.  And as long as an end keeps the set, fewer than SendmeInc of its
\* DATA cells are stuck on each leg it has lost: with more in flight it tears the set
\* down.  The code does not promise less: cfx_del_leg compares inflight with sendme_inc
\* and not with 0, and cells that are not DATA are not in flight at all, so what is lost
\* leaves a gap that both ends keep the set over.
LossBounded ==
    \A e \in End : LET p == Peer(e) IN
      /\ \A n \in (last_seq_delivered[p] + 1)..sent[e] :
           \/ \E m \in ooo_q[p] : m.nth = n
           \/ \E l \in Leg : n \in Numbers(link[e][l])
           \/ \E l \in Leg \ legs[p] : n = last_seq_recv[p][l]
      /\ legs[e] # {} => \A l \in Leg \ legs[e] : Count(link[e][l], "DATA") < SendmeInc

\* As long as no leg fails or is closed, everything both ends have to send is
\* eventually delivered, cells that arrived before their turn included.
AllDelivered ==
    [](broken = {}) => <>(\A e \in End : last_seq_delivered[e] = MaxSend[Peer(e)])
=============================================================================
