----------------------- MODULE MCContentTransaction -----------------------
(* Small plans for checking ContentTransaction. *)
EXTENDS ContentTransaction, TLC

\* One create below a missing directory, then one replace.
MixedKind == <<"create", "replace">>
MixedHome == <<1, 0>>
MixedAbove == <<0>>

Symmetry == Permutations(UserVersions)
=============================================================================
