------------------------ MODULE MCWindowsOperation ------------------------
(* Small operations for checking WindowsOperation. *)
EXTENDS WindowsOperation

\* A replaced content file, a new evidence record, a replaced manifest.
UpdateKind == <<"replace", "create", "replace">>
=============================================================================
