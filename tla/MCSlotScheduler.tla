-------------------------- MODULE MCSlotScheduler --------------------------
(* Instances of SlotScheduler for TLC: one model, workers w1, w2, cloud c1. *)
EXTENDS SlotScheduler, TLC

CONSTANTS r1, r2, r3, m1, w1, w2, c1

WantsM1    == [r \in Requests |-> {m1}]
SamePrio   == [r \in Requests |-> 5]
MixedPrio  == [r \in Requests |-> IF r = r3 THEN 10 ELSE 1]
W1First    == [p \in Providers |-> IF p = w1 THEN 1 ELSE 2]
AllLocal   == LocalPairs
=============================================================================
