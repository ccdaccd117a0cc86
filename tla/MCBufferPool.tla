---------------------------- MODULE MCBufferPool ----------------------------
(***************************************************************************)
(* Small instances of BufferPool for TLC.                                  *)
(***************************************************************************)
EXTENDS BufferPool, TLC

CONSTANTS t1, t2, v1, v2, v3

MCThreadId == (t1 :> 1) @@ (t2 :> 2)

ValSymmetry == Permutations(Val)
=============================================================================
