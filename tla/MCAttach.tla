------------------------------ MODULE MCAttach ------------------------------
(***************************************************************************)
(* Attach small enough for TLC: a daemon and its successor, which may      *)
(* overlap, and a UI that meets the one, the other or none.                *)
(***************************************************************************)
EXTENDS Attach

CONSTANTS d1, d2, u1

TwoDaemons == {d1, d2}
OneUi == {u1}

============================================================================
