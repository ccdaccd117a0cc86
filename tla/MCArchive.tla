----------------------------- MODULE MCArchive -----------------------------
(***************************************************************************)
(* A small instance of Archive, and one of StableHashing: no state belongs *)
(* to that, and its values are compared once, before an archive is begun.  *)
(***************************************************************************)
EXTENDS Archive, StableHashing

\* A path of the greatest length, and one that is longer.
Long(n) == [k \in 1..n |-> 3]

File(p, h, f) == [Blank EXCEPT !.kind = TYPE_DATA, !.path = p, !.hash = h,
                               !.flags = f]
Link(p, d, f) == [Blank EXCEPT !.kind = TYPE_LINK, !.path = p, !.dest = d,
                               !.flags = f]
Directory(p)  == [Blank EXCEPT !.kind = TYPE_DIR, !.path = p]

MCEntries == {File(<<1>>, <<2, 0>>, 1), Link(<<>>, <<2, 1>>, 0),
              Link(<<3>>, Long(16), 0), Directory(Long(15)),
              Directory(Long(16))}

MCBlobs == {[chunks |-> <<>>, hash |-> <<0, 0>>],
            [chunks |-> <<<<2>>, <<1, 3>>>>, hash |-> <<3, 1>>]}

\* "A trait which allows a value to be hashed": the bytes every impl of
\* StableHash feeds to the hasher tell the values of its type apart.
HashedApart == wst = "none" => FramesDistinct
=============================================================================
