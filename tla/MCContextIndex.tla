--------------------------- MODULE MCContextIndex ---------------------------
(* Three writers for checking ContextIndex. *)
EXTENDS ContextIndex

CONSTANTS w1, w2, w3
=============================================================================
