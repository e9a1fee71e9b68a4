------------------------------ MODULE WorkPool ------------------------------
(***************************************************************************)
(* What the thread pool promises to the code that gives it work: an entry  *)
(* goes once through its life, and only the owner's two calls (queue and   *)
(* cancel) and the pool's own progress move it.  A cancelled entry is one  *)
(* that no thread had taken; every other entry keeps its place until its   *)
(* reply function runs in the main thread, or the pool is freed.           *)
(* Workqueue implements this, OnionHandshake is built on it.               *)
(***************************************************************************)
CONSTANT Item       \* the entries the owner may queue

VARIABLE status     \* where each entry is

Status == {"fresh", "queued", "running", "answered", "replied", "cancelled", "dropped"}

\* The steps of one entry.  Several entries may move in one step of the main thread.
Step == {<<"fresh", "queued">>, <<"queued", "running">>, <<"queued", "cancelled">>,
         <<"running", "answered">>, <<"answered", "replied">>, <<"answered", "dropped">>}

Init == status = [i \in Item |-> "fresh"]

Next ==
    /\ status' \in [Item -> Status]
    /\ \A i \in Item : status'[i] = status[i] \/ <<status[i], status'[i]>> \in Step

Spec == Init /\ [][Next]_status

\* The entries whose argument the pool still holds: their owner must not free it.
Outstanding == {i \in Item : status[i] \in {"queued", "running", "answered"}}
=============================================================================
