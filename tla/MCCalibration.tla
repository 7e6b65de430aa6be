--------------------------- MODULE MCCalibration ---------------------------
(* Instances of Calibration for TLC. *)
EXTENDS Calibration

CONSTANTS w1, w2, c1, c2, c3
=============================================================================
