---------------------------- MODULE MCThreshold -----------------------------
(***************************************************************************)
(* The field of five elements; the last secret exceeds it.                 *)
(***************************************************************************)
EXTENDS Threshold

MCSecrets == {0, 3, 7}
=============================================================================
