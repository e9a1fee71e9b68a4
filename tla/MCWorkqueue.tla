---------------------------- MODULE MCWorkqueue ----------------------------
(* Workqueue for TLC.  Workers and items are interchangeable. *)
EXTENDS Workqueue, TLC

Symmetry == Permutations(Worker) \cup Permutations(Item)

OneResult == {"WQ_RPL_REPLY"}
AllResults == {"WQ_RPL_REPLY", "WQ_RPL_ERROR", "WQ_RPL_SHUTDOWN"}
TwoPriorities == {0, 2}
OnePriority == {0}
=============================================================================
