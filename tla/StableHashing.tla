--------------------------- MODULE StableHashing ---------------------------
(***************************************************************************)
(* The bytes a value puts into a hasher (crates/hashing, StableHash).  A   *)
(* hash identifies a value only if values of one type never put the same   *)
(* bytes there, however they are nested; the hash function is a library's. *)
(*                                                                         *)
(* A type is a function from its values to their bytes.  Strings, paths    *)
(* and vectors are sequences, an Option is a sequence of at most one       *)
(* value, a BTreeSet is a set, a BTreeMap a function, a pair a tuple.      *)
(*                                                                         *)
(* A definition marked "Faulty" is no part of the model: it is the mistake *)
(* the definition after it could make, which the properties must detect.   *)
(***************************************************************************)
EXTENDS Naturals, Sequences, SequencesExt

CONSTANTS Radix,     \* values of a byte (256)
          Width,     \* bytes of a u64 (8)
          MaxLen     \* bound: elements of a collection

ASSUME RadixAssumption == Radix \in Nat /\ Radix >= 2
ASSUME WidthAssumption == Width \in Nat \ {0}

\* Radix to the k-th.
Power[k \in 0..Width] == IF k = 0 THEN 1 ELSE Radix * Power[k - 1]

U64Max == Power[Width] - 1

\* The length of a text and of a collection is a u64, and u64::MAX no index.
ASSUME LenAssumption == {2, MaxLen} \subseteq 0..U64Max

-----------------------------------------------------------------------------
(* impl StableHash *)

\* u64::to_be_bytes
U64(n) == [k \in 1..Width |-> (n \div Power[Width - k]) % Radix]

Bool(b) == IF b THEN <<Radix - 1>> ELSE <<0>>

U8(n) == <<n>>

\* [T] of a type f: the length, then the elements.
Slice(f, s) == U64(Len(s)) \o FlattenSeq([k \in 1..Len(s) |-> f[s[k]]])

\* String, &str, PathBuf, OsString: their bytes.
Text(s) == Slice([b \in 0..(Radix - 1) |-> U8(b)], s)

Option(f, o) == IF o = <<>> THEN U8(0) ELSE U8(1) \o f[o[1]]

Pair(f, g, p) == f[p[1]] \o g[p[2]]

\* Faulty: nothing stands behind the last element.
IterOpen(e) == FlattenSeq([k \in 1..Len(e) |-> U64(k - 1) \o e[k]])

\* update_iter of elements with bytes e: each behind its index, u64::MAX
\* behind the last.
Iter(e) == FlattenSeq([k \in 1..Len(e) |-> U64(k - 1) \o e[k]]) \o U64(U64Max)

\* The order of slices of bytes, in which the BTree collections iterate.
Before(a, b) == \/ IsStrictPrefix(a, b)
                \/ \E k \in 1..Len(a) : /\ k <= Len(b) /\ a[k] < b[k]
                                        /\ \A j \in 1..(k - 1) : a[j] = b[j]

Ordered(S) == CHOOSE s \in SetToSeqs(S) :
                  \A i, j \in 1..Len(s) : i < j => Before(s[i], s[j])

Set(f, S) == LET s == Ordered(S) IN Iter([k \in 1..Len(s) |-> f[s[k]]])

Map(f, g, m) ==
    LET keys == Ordered(DOMAIN m)
    IN  Iter([k \in 1..Len(keys) |-> Pair(f, g, <<keys[k], m[keys[k]]>>)])

\* SupportedHash: its type, then its bytes without a length.
Hash(h) == U8(1) \o h

-----------------------------------------------------------------------------
(* Types *)

\* Strings of at most two bytes, and of at most one.
Texts == [s \in BoundedSeq(0..(Radix - 1), 2) |-> Text(s)]
Words == [s \in BoundedSeq(0..(Radix - 1), 1) |-> Text(s)]
Bools == [b \in BOOLEAN |-> Bool(b)]

Options(f) == [o \in BoundedSeq(DOMAIN f, 1) |-> Option(f, o)]
Slices(f)  == [s \in BoundedSeq(DOMAIN f, MaxLen) |-> Slice(f, s)]
Subsets(T) == {S \in SUBSET T : IsFiniteSet(S) /\ Cardinality(S) <= MaxLen}
Sets(f)    == [S \in Subsets(DOMAIN f) |-> Set(f, S)]
Maps(f, g) == [m \in UNION {[S -> DOMAIN g] : S \in Subsets(DOMAIN f)}
                   |-> Map(f, g, m)]
Pairs(f, g) == [p \in (DOMAIN f) \X (DOMAIN g) |-> Pair(f, g, p)]

\* No value's bytes begin another's, so a value ends where its bytes say, and
\* what stands behind it in a collection cannot be taken for a part of it.
Distinct(f) == \A a, b \in DOMAIN f : IsPrefix(f[a], f[b]) => a = b

\* No two values of a type are hashed alike, neither strings nor options, nor
\* collections of them, the empty ones among them, nor one collection behind
\* another.
FramesDistinct ==
    /\ Distinct(Bools)
    /\ Distinct([n \in 0..U64Max |-> U64(n)])
    /\ Distinct([h \in [1..2 -> 0..(Radix - 1)] |-> Hash(h)])
    /\ Distinct(Texts)
    /\ Distinct(Options(Texts))
    /\ Distinct(Slices(Options(Words)))
    /\ Distinct(Sets(Texts))
    /\ Distinct(Maps(Words, Options(Bools)))
    /\ Distinct(Pairs(Sets(Words), Sets(Words)))
=============================================================================
