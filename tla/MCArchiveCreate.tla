--------------------------- MODULE MCArchiveCreate --------------------------
(***************************************************************************)
(* Small instances of ArchiveCreate for TLC.                               *)
(***************************************************************************)
EXTENDS ArchiveCreate
=============================================================================
