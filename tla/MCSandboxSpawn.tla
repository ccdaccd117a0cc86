-------------------------- MODULE MCSandboxSpawn --------------------------
(***************************************************************************)
(* Small instances of SandboxSpawn for TLC.                                *)
(***************************************************************************)
EXTENDS SandboxSpawn

CONSTANTS r1, r2, r3
=============================================================================
