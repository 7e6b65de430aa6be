--------------------------- MODULE MCLaneActions ---------------------------
(* Instances of LaneActions: one lane and one request that is tried twice, *)
(* so that an attempt the orchestrator gave up may still be running; two   *)
(* lanes where it matters that there is another one.                       *)
EXTENDS LaneActions
=============================================================================
