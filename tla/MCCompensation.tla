--------------------------- MODULE MCCompensation ---------------------------
(* Model values for the runs of Compensation.                               *)
EXTENDS Compensation, TLC

CONSTANTS s1, s2

TwoScanners == {s1, s2}
=============================================================================
