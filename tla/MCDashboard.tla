---------------------------- MODULE MCDashboard ----------------------------
(***************************************************************************)
(* Dashboard small enough for TLC: three temperatures, so that a reading   *)
(* can overtake an animation towards another.                              *)
(***************************************************************************)
EXTENDS Dashboard

ThreeValues == {0, 1, 2}

============================================================================
