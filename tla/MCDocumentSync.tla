---------------------------- MODULE MCDocumentSync ----------------------------
(***************************************************************************)
(* Small instances of DocumentSync for TLC.                                *)
(***************************************************************************)
EXTENDS DocumentSync

=============================================================================
