------------------------------- MODULE MCPool -------------------------------
(***************************************************************************)
(* A small instance of Pool: values of its constants for TLC.              *)
(***************************************************************************)
EXTENDS Pool, TLC

CONSTANTS t1, t2, t3, v1, v2, v3

\* Thread ids start at 1 and are distinct.  In a pool of two slots, 1 and 3
\* start searches at alternating slots and 2 always at the same one.
MCThreadId == (t1 :> 1) @@ (t2 :> 2) @@ (t3 :> 3)
=============================================================================
