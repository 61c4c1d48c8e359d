--------------------------- MODULE MCRunCoordinator ---------------------------
(***************************************************************************)
(* RunCoordinator on small sets.                                           *)
(***************************************************************************)
EXTENDS RunCoordinator

=============================================================================
