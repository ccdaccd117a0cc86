------------------------------ MODULE MCStore ------------------------------
(***************************************************************************)
(* Small instances of Store for TLC.                                       *)
(***************************************************************************)
EXTENDS Store, TLC

CONSTANTS t1, t2, h1, h2, n1, n2, n3, s1, b1

\* Calls, contents and temporary names are interchangeable.
Symmetry == Permutations(Task) \cup Permutations(Hash) \cup Permutations(Temp)
=============================================================================
