------------------------- MODULE MCTransparencyLog -------------------------
(***************************************************************************)
(* The calls of `record' differ only in the event they write.              *)
(***************************************************************************)
EXTENDS TransparencyLog, TLC

MCSymmetry == Permutations(Recorders)
=============================================================================
