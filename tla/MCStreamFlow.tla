---------------------------- MODULE MCStreamFlow ----------------------------
(* Two connections and two circuits for TLC: c1 has one stream id, which is used again; *)
(* c2 can carry both connections at a time.                                            *)
EXTENDS StreamFlow

CONSTANTS a, b, c1, c2

MCId == [c \in {c1, c2} |-> IF c = c1 THEN 1 ELSE 2]
MCData == [e \in {"client", "exit"} |->
             [k \in {a, b} |-> IF k = a THEN 2 ELSE IF e = "exit" THEN 1 ELSE 0]]
=============================================================================
