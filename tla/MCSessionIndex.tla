--------------------------- MODULE MCSessionIndex ---------------------------
(* Two callers and up to three session ids for checking SessionIndex. *)
EXTENDS SessionIndex, TLC

CONSTANTS c1, c2, s1, s2, s3

Symmetry == Permutations(Callers) \cup Permutations(Ids)
=============================================================================
