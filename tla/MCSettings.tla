----------------------------- MODULE MCSettings -----------------------------
(***************************************************************************)
(* Settings small enough for TLC: the default threshold and another one,   *)
(* two values for what is only saved, two segments.                        *)
(***************************************************************************)
EXTENDS Settings

CONSTANTS t03, t10, quiet, loud

TwoThresholds == {t03, t10}
TwoRests == {quiet, loud}

============================================================================
