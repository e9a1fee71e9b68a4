------------------------- MODULE MCChannelScheduler -------------------------
(* Two channels for TLC: a busy one, and one with a single cell. *)
EXTENDS ChannelScheduler

CONSTANTS busy, quiet

MCCells == [c \in {busy, quiet} |-> IF c = busy THEN 3 ELSE 1]
MCOneForBusy == [c \in {busy, quiet} |-> IF c = busy THEN 1 ELSE 0]
MCNone == [c \in {busy, quiet} |-> 0]
MCTwoForBusy == [c \in {busy, quiet} |-> IF c = busy THEN 2 ELSE 0]
=============================================================================
