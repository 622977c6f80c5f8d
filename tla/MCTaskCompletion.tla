-------------------------- MODULE MCTaskCompletion --------------------------
(* Two callers and two tasks for checking TaskCompletion. *)
EXTENDS TaskCompletion, TLC

CONSTANTS c1, c2, t1, t2

Symmetry == Permutations({c1, c2}) \cup Permutations({t1, t2})
=============================================================================
