--------------------------- MODULE MCLaneManager ---------------------------
(* LaneManager with three lanes, one of them static. *)
EXTENDS LaneManager, TLC

CONSTANTS a, b, c, big, small, r1, r2

(* The server wants b in another configuration and c beside it, or the     *)
(* static lane and c in place of b.                                        *)
Sets(x, y, z) == (a :> x) @@ (b :> y) @@ (c :> z)
SomeDesired == {Sets(None, small, big), Sets(big, None, big)}
=============================================================================
