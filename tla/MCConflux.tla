------------------------------ MODULE MCConflux ------------------------------
(***************************************************************************)
(* Instances of Conflux for TLC: two legs, a short request, a longer       *)
(* answer.                                                                 *)
(***************************************************************************)
EXTENDS Conflux

CONSTANTS l1, l2

MCLeg == {l1, l2}
MCMaxSend == [e \in End |-> IF e = "client" THEN 1 ELSE 4]
=============================================================================
