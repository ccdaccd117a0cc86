---------------------------- MODULE MCDataStream ----------------------------
(***************************************************************************)
(* Small instances of DataStream for TLC.                                  *)
(***************************************************************************)
EXTENDS DataStream
=============================================================================
