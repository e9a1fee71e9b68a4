-------------------------- MODULE MCOnionHandshake --------------------------
(* OnionHandshake for TLC: pools for one or two tasks. *)
EXTENDS OnionHandshake, TLC

MCMaxPending == {1, 2}
=============================================================================
