---------------------------- MODULE MCConfluxPool ----------------------------
(* ConfluxPool for TLC: constants are given in the configurations.         *)
EXTENDS ConfluxPool
=============================================================================
