---------------------------- MODULE CreditWindow ----------------------------
(***************************************************************************)
(* What one direction of a circuit's flow control promises, without cells, *)
(* digests or SENDMEs: the sender never has more than Window cells that    *)
(* are unacknowledged, the receiver gets what was sent, and only what was  *)
(* delivered is acknowledged, any amount at a time.                        *)
(***************************************************************************)
EXTENDS Integers

CONSTANT Window

VARIABLES sent, delivered, acked

vars == <<sent, delivered, acked>>

Init == sent = 0 /\ delivered = 0 /\ acked = 0

Send == /\ sent < acked + Window
        /\ sent' = sent + 1
        /\ UNCHANGED <<delivered, acked>>

Deliver == /\ delivered < sent
           /\ delivered' = delivered + 1
           /\ UNCHANGED <<sent, acked>>

Acknowledge == /\ acked' > acked
               /\ acked' <= delivered
               /\ UNCHANGED <<sent, delivered>>

Next == Send \/ Deliver \/ Acknowledge

Spec == Init /\ [][Next]_vars
=============================================================================
