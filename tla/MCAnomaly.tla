----------------------------- MODULE MCAnomaly -----------------------------
(***************************************************************************)
(* A window of three samples, long enough to wrap around twice, with a     *)
(* shock below, at and above the point where it echoes.                    *)
(***************************************************************************)
EXTENDS Anomaly

SmallMagnitudes == {0, 3, 6}
SmallThresholds == {1, 2}

============================================================================
