---------------------- MODULE MCRepositoryIntelligence ----------------------
(* A small instance for checking RepositoryIntelligence. *)
EXTENDS RepositoryIntelligence

CONSTANTS s1, s2
=============================================================================
