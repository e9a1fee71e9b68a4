----------------------------- MODULE ConfluxPool -----------------------------
(***************************************************************************)
(* The pools of conflux_pool.c during the life of one conflux set, that is *)
(* of one nonce, at the client that launches it and at the exit.           *)
(*                                                                         *)
(* The client keeps the set in its unlinked pool while the legs are built  *)
(* and shake hands (LINK, LINKED, LINKED_ACK), replaces legs that close,   *)
(* and moves it to the linked pool when all its legs are linked.  The exit *)
(* links every leg when its LINK arrives, so its unlinked set exists only  *)
(* inside conflux_process_link and is no variable here.  A circuit that is *)
(* marked for close leaves its set at once and is freed later, with all    *)
(* the marked ones, after the current turn of the event loop.              *)
(*                                                                         *)
(* conflux_t objects are named by the circuit they were allocated for.     *)
(* The streams of a set, its sequence numbers (Conflux.tla) and the exit   *)
(* of the process are left out.                                            *)
(***************************************************************************)
EXTENDS Integers, FiniteSets, FiniteSetsExt

CONSTANTS NumLegs,     \* conflux_params_get_num_legs_set
          MaxRetry,    \* conflux_params_get_max_unlinked_leg_retry
          MaxLegs,     \* conflux_params_get_max_legs_set
          None

ASSUME PoolParameters ==
    /\ NumLegs \in Nat \ {0} /\ MaxRetry \in Nat
    /\ MaxLegs \in Nat /\ MaxLegs >= NumLegs
    /\ None \notin Nat

VARIABLES
    circ,            \* [end][circuit]: the life of a circuit
    conflux,         \* [end][circuit]: circ->conflux
    linked_pool,     \* [end]: the entry of the linked pool for the nonce
    legs,            \* [end][object]: cfx->legs
    live,            \* [end]: the conflux_t objects in memory
    used,            \* [end]: the objects that data has passed through
    unlinked_cfx,    \* the cfx of the client's unlinked set, None if there is no set
    unlinked_legs,   \* its legs
    linked,          \* the legs of it that have received LINKED
    num_leg_launch,  \* its count of launches
    cells            \* cells of the handshake, and data, on their way

unlinked_set == <<unlinked_cfx, unlinked_legs, linked, num_leg_launch>>
linked_set == <<conflux, linked_pool, legs, used>>
vars == <<circ, linked_set, live, unlinked_set, cells>>

End == {"client", "exit"}
Peer(e) == IF e = "client" THEN "exit" ELSE "client"

\* launch_leg_is_allowed: with every launch, also one that fails, a circuit.
MaxLaunch == NumLegs + MaxRetry
Circuit == 1..MaxLaunch
ToExit == {"LINK", "LINKED_ACK", "DATA"}

TypeOK ==
    /\ circ \in [End -> [Circuit -> {"none", "building", "open", "marked", "freed"}]]
    /\ conflux \in [End -> [Circuit -> Circuit \cup {None}]]
    /\ linked_pool \in [End -> Circuit \cup {None}]
    /\ legs \in [End -> [Circuit -> SUBSET Circuit]]
    /\ live \in [End -> SUBSET Circuit] /\ used \in [End -> SUBSET Circuit]
    /\ unlinked_cfx \in Circuit \cup {None}
    /\ unlinked_legs \subseteq Circuit /\ linked \subseteq unlinked_legs
    /\ num_leg_launch \in 0..MaxLaunch
    /\ cells \subseteq (ToExit \cup {"LINKED"}) \X Circuit

Init ==
    /\ circ = [e \in End |-> [c \in Circuit |-> "none"]]
    /\ conflux = [e \in End |-> [c \in Circuit |-> None]]
    /\ linked_pool = [e \in End |-> None]
    /\ legs = [e \in End |-> [o \in Circuit |-> {}]]
    /\ live = [e \in End |-> {}] /\ used = [e \in End |-> {}]
    /\ unlinked_cfx = None /\ unlinked_legs = {} /\ linked = {} /\ num_leg_launch = 0
    /\ cells = {}

-----------------------------------------------------------------------------
(* Cells.                                                                  *)

\* A cell for a circuit that the receiver has marked for close is dropped.
Sent(kind, c, to) == IF circ[to][c] = "open" THEN {<<kind, c>>} ELSE {}

\* The cells that are lost when e marks the circuits cs.
Lost(e, cs) == (IF e = "exit" THEN ToExit ELSE {"LINKED"}) \X cs

Marked(e, cs) == [circ EXCEPT ![e] = [c \in Circuit |-> IF c \in cs THEN "marked" ELSE @[c]]]

-----------------------------------------------------------------------------
(* The client launches legs.                                               *)

\* launch_new_set: the first leg must succeed, or the new set is freed again.  When a
\* later one fails, its close launches a replacement, which may fail too (see
\* UnlinkedLegCloses), and no further leg is launched: the set then goes on with the
\* n legs it has, after k launches.
LaunchNewSet ==
    /\ num_leg_launch = 0
    /\ \E n \in 1..NumLegs, k \in 1..MaxLaunch :
         /\ (n = NumLegs /\ k = n) \/ (NumLegs > 1 /\ k > n)
         /\ num_leg_launch' = k
         /\ unlinked_cfx' = 1 /\ unlinked_legs' = 1..n
         /\ circ' = [circ EXCEPT !["client"] =
                        [c \in Circuit |-> IF c \in 1..n THEN "building" ELSE "none"]]
    /\ live' = [live EXCEPT !["client"] = {1}]
    /\ UNCHANGED <<linked_set, linked, cells>>

\* conflux_circuit_has_opened: by then the circuit exists at the exit, too.
HasOpened(c) ==
    /\ circ["client"][c] = "building"
    /\ circ' = [e \in End |-> [circ[e] EXCEPT ![c] = "open"]]
    /\ cells' = cells \cup {<<"LINK", c>>}
    /\ UNCHANGED <<linked_set, live, unlinked_set>>

FaultyUnlinkedLegCloses(c) ==
    /\ circ' = Marked("client", {c})
    /\ unlinked_legs' = unlinked_legs \ {c} /\ linked' = linked \ {c}
    /\ UNCHANGED <<unlinked_cfx, num_leg_launch, live>>

\* unlinked_circuit_closed at the client: the last leg takes the set with it, any other
\* is replaced.  conflux_launch_leg counts the launch before it establishes the circuit,
\* and a circuit that fails at once is closed by this same function, which launches
\* again: until one succeeds, until MaxLaunch is reached, or until there is memory
\* pressure.
UnlinkedLegCloses(c) ==
    LET rest == unlinked_legs \ {c}
        new  == Min({d \in Circuit : circ["client"][d] = "none"})
    IN  /\ linked' = linked \ {c}
        /\ \/ /\ rest = {}
              /\ unlinked_cfx' = None /\ unlinked_legs' = {}
              /\ live' = [live EXCEPT !["client"] = @ \ {unlinked_cfx}]
              /\ circ' = Marked("client", {c})
              /\ UNCHANGED num_leg_launch
           \/ /\ rest # {}
              /\ num_leg_launch' \in num_leg_launch..MaxLaunch
              /\ \/ /\ unlinked_legs' = rest
                    /\ circ' = Marked("client", {c})
                 \/ /\ num_leg_launch' > num_leg_launch
                    /\ unlinked_legs' = rest \cup {new}
                    /\ circ' = [Marked("client", {c}) EXCEPT !["client"][new] = "building"]
              /\ UNCHANGED <<unlinked_cfx, live>>

-----------------------------------------------------------------------------
(* Legs of a linked set that close.                                        *)

FaultyLinkedLegCloses(e, c) ==
    LET o     == conflux[e][c]
        rest  == legs[e][o] \ {c}
    IN  /\ legs' = [legs EXCEPT ![e][o] = rest]
        /\ conflux' = [conflux EXCEPT ![e][c] = None]
        /\ linked_pool' = [linked_pool EXCEPT ![e] = IF rest = {} THEN None ELSE @]
        /\ circ' = Marked(e, {c})
        /\ cells' = cells \ Lost(e, {c})

FaultyKeepsPoolEntry(e, c) ==
    LET o     == conflux[e][c]
        rest  == legs[e][o] \ {c}
    IN  /\ legs' = [legs EXCEPT ![e][o] = rest]
        /\ conflux' = [conflux EXCEPT ![e][c] = IF rest = {} THEN o ELSE None]
        /\ circ' = Marked(e, {c})
        /\ cells' = cells \ Lost(e, {c})
        /\ UNCHANGED linked_pool

\* linked_circuit_closed.  The last leg of an object keeps its pointer, to free the
\* object with; all others lose it.  A leg of a set in use may have data in flight or be
\* the current one (cfx_del_leg), and then conflux_mark_all_for_close closes what the
\* pool has under this nonce, each of those legs through this same function.
LinkedLegCloses(e, c) ==
    LET o    == conflux[e][c]
        rest == legs[e][o] \ {c}
        pool == IF rest = {} THEN None ELSE linked_pool[e]
    IN  \E full_teardown \in IF o \in used[e] THEN BOOLEAN ELSE {FALSE} :
          LET closing == IF full_teardown /\ pool # None THEN legs[e][pool] \ {c} ELSE {}
          IN  \E last \in IF closing = {} THEN {c} ELSE closing :
                /\ legs' = [legs EXCEPT ![e] =
                              [p \in Circuit |-> @[p] \ ({c} \cup closing)]]
                /\ conflux' = [conflux EXCEPT ![e] = [d \in Circuit |->
                     IF d = c THEN IF rest = {} THEN o ELSE None
                     ELSE IF d \in closing /\ d # last THEN None ELSE @[d]]]
                /\ linked_pool' = [linked_pool EXCEPT ![e] =
                                     IF closing # {} THEN None ELSE pool]
                /\ circ' = Marked(e, {c} \cup closing)
                /\ cells' = cells \ Lost(e, {c} \cup closing)

\* circuit_mark_for_close, for any reason (a DESTROY cell, a timeout, an error), and
\* conflux_circuit_has_closed.  A circuit repurposed to measure the build timeout leaves
\* its set the same way.
Closes(e, c) ==
    /\ circ[e][c] \in {"building", "open"}
    /\ \/ /\ e = "client" /\ c \in unlinked_legs
          /\ UnlinkedLegCloses(c)
          /\ cells' = cells \ Lost(e, {c})
          /\ UNCHANGED linked_set
       \/ /\ conflux[e][c] # None
          /\ LinkedLegCloses(e, c)
          /\ UNCHANGED <<live, used, unlinked_set>>
       \/ /\ e = "exit" /\ conflux[e][c] = None
          /\ circ' = Marked(e, {c})
          /\ cells' = cells \ Lost(e, {c})
          /\ UNCHANGED <<linked_set, live, unlinked_set>>

\* circuit_close_all_marked: linked_circuit_free frees the object of a last leg, and
\* takes the entry of the nonce out of the pool whatever object it is.
CloseAllMarked(e) ==
    LET marked == {c \in Circuit : circ[e][c] = "marked"}
        gone   == {conflux[e][c] : c \in marked} \ {None}
    IN  /\ marked # {}
        /\ circ' = [circ EXCEPT ![e] = [c \in Circuit |-> IF c \in marked THEN "freed" ELSE @[c]]]
        /\ conflux' = [conflux EXCEPT ![e] = [c \in Circuit |-> IF c \in marked THEN None ELSE @[c]]]
        /\ live' = [live EXCEPT ![e] = @ \ gone]
        /\ used' = [used EXCEPT ![e] = @ \ gone]
        /\ linked_pool' = [linked_pool EXCEPT ![e] = IF gone # {} THEN None ELSE @]
        /\ UNCHANGED <<legs, unlinked_set, cells>>

-----------------------------------------------------------------------------
(* The handshake.                                                          *)

\* try_finalize_set at end e, for object o and the unlinked legs ls.
Finalize(e, o, ls) ==
    /\ legs' = [legs EXCEPT ![e][o] = @ \cup ls]
    /\ conflux' = [conflux EXCEPT ![e] = [c \in Circuit |-> IF c \in ls THEN o ELSE @[c]]]
    /\ linked_pool' = [linked_pool EXCEPT ![e] = o]

FaultyRejectLeg(c) ==
    /\ circ' = Marked("exit", {c})
    /\ live' = [live EXCEPT !["exit"] = @ \ {linked_pool["exit"]}]
    /\ UNCHANGED <<conflux, linked_pool, legs>>

\* A leg too many is closed, and its unlinked set with it; the conflux_t stays, because
\* is_for_linked_set says that it is another's.
RejectLeg(c) ==
    /\ circ' = Marked("exit", {c})
    /\ UNCHANGED <<conflux, linked_pool, legs, live>>

FaultyReceiveLink(c) ==
    /\ <<"LINK", c>> \in cells
    /\ cells' = (cells \ {<<"LINK", c>>}) \cup Sent("LINKED", c, "client")
    /\ UNCHANGED <<circ, linked_set, live, unlinked_set>>

\* conflux_process_link: unlinked_get_or_create takes the object of the linked set, if
\* there is one, and link_circuit finalizes the set at once, before LINKED is sent.
ReceiveLink(c) ==
    LET known == linked_pool["exit"] # None
        o     == IF known THEN linked_pool["exit"] ELSE c
    IN  /\ <<"LINK", c>> \in cells
        /\ IF Cardinality(legs["exit"][o]) + 1 > MaxLegs
             THEN RejectLeg(c) /\ cells' = cells \ {<<"LINK", c>>}
             ELSE /\ Finalize("exit", o, {c})
                  /\ live' = [live EXCEPT !["exit"] = @ \cup {o}]
                  /\ cells' = (cells \ {<<"LINK", c>>}) \cup Sent("LINKED", c, "client")
                  /\ UNCHANGED circ
        /\ UNCHANGED <<used, unlinked_set>>

\* conflux_process_linked: record_rtt finds the leg slower than the build timeout and
\* closes it, or the leg is linked, and with the last one the set.  The LINKED_ACK does
\* not wait for the others.
ReceiveLinked(c) ==
    /\ <<"LINKED", c>> \in cells
    /\ \/ /\ UnlinkedLegCloses(c)
          /\ cells' = cells \ {<<"LINKED", c>>}
          /\ UNCHANGED linked_set
       \/ /\ cells' = (cells \ {<<"LINKED", c>>}) \cup Sent("LINKED_ACK", c, "exit")
          /\ \/ /\ unlinked_legs \subseteq linked \cup {c}
                /\ Finalize("client", unlinked_cfx, unlinked_legs)
                /\ unlinked_cfx' = None /\ unlinked_legs' = {} /\ linked' = {}
             \/ /\ ~(unlinked_legs \subseteq linked \cup {c})
                /\ linked' = linked \cup {c}
                /\ UNCHANGED <<conflux, linked_pool, legs, unlinked_cfx, unlinked_legs>>
          /\ UNCHANGED <<circ, live, used, num_leg_launch>>

\* conflux_process_linked_ack closes a circuit that is not linked; otherwise it only
\* measures the leg.
ReceiveLinkedAck(c) ==
    /\ <<"LINKED_ACK", c>> \in cells
    /\ cells' = cells \ {<<"LINKED_ACK", c>>}
    /\ circ' = IF conflux["exit"][c] = None THEN Marked("exit", {c}) ELSE circ
    /\ UNCHANGED <<linked_set, live, unlinked_set>>

\* conflux_decide_circ_for_send: the client's streams send on a leg of the linked set.
SendData(c) ==
    /\ conflux["client"][c] # None /\ circ["client"][c] = "open"
    /\ used' = [used EXCEPT !["client"] = @ \cup {conflux["client"][c]}]
    /\ cells' = cells \cup Sent("DATA", c, "exit")
    /\ UNCHANGED <<circ, conflux, linked_pool, legs, live, unlinked_set>>

\* conflux_process_relay_msg: the data passes through the object that the exit has for the
\* leg, which sends its answers from then on.  Data does not overtake a LINKED_ACK.
ReceiveData(c) ==
    /\ <<"DATA", c>> \in cells /\ <<"LINKED_ACK", c>> \notin cells
    /\ used' = [used EXCEPT !["exit"] = @ \cup ({conflux["exit"][c]} \ {None})]
    /\ cells' = cells \ {<<"DATA", c>>}
    /\ UNCHANGED <<circ, conflux, linked_pool, legs, live, unlinked_set>>

Next ==
    \/ LaunchNewSet
    \/ \E c \in Circuit : HasOpened(c) \/ ReceiveLink(c) \/ ReceiveLinked(c)
                            \/ ReceiveLinkedAck(c) \/ SendData(c) \/ ReceiveData(c)
    \/ \E e \in End, c \in Circuit : Closes(e, c)
    \/ \E e \in End : CloseAllMarked(e)

Spec == Init /\ [][Next]_vars

\* Cells arrive; a circuit being built opens or times out (circuit_expire_building); the
\* client closes an unlinked leg that is idle for too long
\* (circuit_expire_old_circuits_clientside); the DESTROY of a freed circuit reaches the
\* other end; the event loop frees what is marked.
Fairness ==
    /\ \A c \in Circuit :
         /\ WF_vars(HasOpened(c)) /\ WF_vars(ReceiveLink(c)) /\ WF_vars(ReceiveLinked(c))
         /\ WF_vars(ReceiveLinkedAck(c))
         /\ WF_vars(c \in unlinked_legs /\ Closes("client", c))
         /\ \A e \in End : WF_vars(circ[Peer(e)][c] = "freed" /\ Closes(e, c))
    /\ \A e \in End : WF_vars(CloseAllMarked(e))

FairSpec == Spec /\ Fairness

-----------------------------------------------------------------------------
(* Properties.                                                             *)

\* What the pools hand out can be used: the object in the linked pool has legs (callers
\* take the first and assert that there is one), they are open and point back to it; the
\* client's unlinked set has legs, and it never exists beside a linked leg of the same
\* nonce, which is what linked_circuit_free asserts.  All state keeps its type.
PoolCoherent ==
    /\ TypeOK
    /\ \A e \in End : linked_pool[e] # None =>
         /\ legs[e][linked_pool[e]] # {}
         /\ \A c \in legs[e][linked_pool[e]] :
              circ[e][c] = "open" /\ conflux[e][c] = linked_pool[e]
    /\ unlinked_cfx # None => /\ unlinked_legs # {}
                              /\ \A c \in Circuit : conflux["client"][c] = None

\* A conflux_t is in memory exactly as long as a circuit or the unlinked set points to
\* it: no close, rejected leg or late free loses one or leaves a pointer behind, and when
\* it has no leg left, one circuit alone will free it.
ObjectOwned ==
    \A e \in End, o \in Circuit :
      LET holders == {c \in Circuit : conflux[e][c] = o}
      IN  /\ o \in live[e] <=> holders # {} \/ (e = "client" /\ unlinked_cfx = o)
          /\ legs[e][o] = {} => Cardinality(holders) <= 1
          /\ legs[e][o] # {} => holders = legs[e][o]

\* A leg is linked at the exit before the client may use it: the first BEGIN of a stream
\* may overtake the LINKED_ACK of another leg, so the exit must not wait for it.
LinkedAtExitFirst ==
    \A c \in Circuit : /\ c \in linked \/ conflux["client"][c] # None
                       /\ circ["exit"][c] = "open"
                       => conflux["exit"][c] # None

\* The client's unlinked set becomes a linked set or is gone: legs that fail are replaced,
\* but not for ever.
SetSettles == (unlinked_cfx # None) ~> (unlinked_cfx = None)

\* When the client has lost or closed all circuits of the set, the exit gives up all that
\* it keeps for it.
ExitReleasesSet ==
    (num_leg_launch > 0 /\ \A c \in Circuit : circ["client"][c] \in {"none", "freed"})
      ~> (live["exit"] = {} /\ linked_pool["exit"] = None)

\* The legs of the client's set meet at one conflux_t of the exit, "so all legs point to
\* the same" (unlinked_get_or_create): otherwise neither of its objects gets all cells.
LegsMeetAtExit ==
    \A c, d \in Circuit :
      /\ conflux["client"][c] # None /\ conflux["client"][d] # None
      /\ circ["exit"][c] = "open" /\ circ["exit"][d] = "open"
      => conflux["exit"][c] = conflux["exit"][d]
=============================================================================
