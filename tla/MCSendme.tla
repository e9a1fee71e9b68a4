------------------------------ MODULE MCSendme ------------------------------
(***************************************************************************)
(* Instances of Sendme for TLC.                                            *)
(***************************************************************************)
EXTENDS Sendme, TLC

MCEmitV1 == [e \in End |-> 1]
MCAcceptV1 == [e \in End |-> 1]
\* The client emits the empty version 0 and the exit still accepts it.
MCEmitMixed == [e \in End |-> IF e = "client" THEN 0 ELSE 1]
MCAcceptMixed == [e \in End |-> IF e = "exit" THEN 0 ELSE 1]
=============================================================================
