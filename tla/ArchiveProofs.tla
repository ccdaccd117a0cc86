---------------------------- MODULE ArchiveProofs ----------------------------
(***************************************************************************)
(* A Reader gets out of an archive what the Writer put into it, for any    *)
(* entries, blobs, bounds and interruptions: in order (ArchiveInOrder), to *)
(* an end that is the archive's (ArchiveEndExact), and with an error when  *)
(* it was cut off (ArchiveCutReported).  What is written from outside is   *)
(* given by Entry and Blob; the wire is a sequence of any length.          *)
(*                                                                         *)
(* The argument, in the order of the sections: what an event's bytes are   *)
(* is told twice, as the Writer puts them together and as the reads take   *)
(* them apart.  Reads(p, q, n, e, r) says that a reader at p has read all  *)
(* of e but the bytes r, and EventAdvances that its next read keeps this   *)
(* true of shorter bytes, or hands out e.  ArchiveInv then says of the     *)
(* whole wire that it is what is left of the event being read, the bytes   *)
(* of the events behind it, and what was torn; or that the reader is past  *)
(* all of them, inside what was torn, where only an end is left.           *)
(*                                                                         *)
(* The second half is about the values a hash identifies (StableHashing):  *)
(* no two of one type put the same bytes into the hasher, for any nesting  *)
(* of types (DistinctNested) and for those TLC compares                    *)
(* (ValuesHashedApart).  Told(f) says that values of f with anything       *)
(* behind their bytes are the same if the whole is.  Every impl takes Told *)
(* types to a Told one: a length or an index in front tells how many       *)
(* elements there are, and by one element after the other they are the     *)
(* same.  Sets and maps are lists in the order of Before, which is total,  *)
(* so every finite set has one such list (OrderedIs).                      *)
(***************************************************************************)
EXTENDS MCArchive, Induction, SequenceTheorems

-----------------------------------------------------------------------------
(* An archive found invalid stays invalid *)

\* "invalid" is what a call ended with that has just cleared valid, or found
\* it cleared; no call that begins after it gets past reader().
Refused == res = "invalid" => ~valid /\ rpc = "idle"

\* Every call starts from idle, so an idle reader can only begin one.
LEMMA IdleBegins ==
    ASSUME ReaderStep \/ Interrupt, rpc = "idle"
    PROVE  NextEvent
  <1> USE DEF Take
  <1>1. ~ReadHeader /\ ~ReadTag /\ ~ReadPath /\ ~ReadKind /\ ~ReadDirectory
    BY DEF ReadHeader, ReadTag, ReadPath, ReadKind, ReadDirectory
  <1>2. ~ReadLength
    BY DEF ReadLength
  <1>3. ~ReadKindUnknown /\ ~ReadHashId /\ ~ReadHash /\ ~ReadDest
    BY DEF ReadKindUnknown, ReadHashId, ReadHash, ReadDest
  <1>4. ~ReadFlags /\ ~ReadChunkLength /\ ~ReadChunk /\ ~EndOfStream
    BY DEF ReadFlags, ReadChunkLength, ReadChunk, EndOfStream
  <1>5. ~UnexpectedEof
    BY DEF UnexpectedEof
  <1>6. ~Interrupt
    BY DEF Interrupt
  <1> QED
    BY <1>1, <1>2, <1>3, <1>4, <1>5, <1>6 DEF ReaderStep

\* Any other call refuses, reads on, or ends in another way.
LEMMA RefusedStep ==
    ASSUME Refused, [Next]_vars
    PROVE  /\ Refused'
           /\ res = "invalid" => res' = "invalid" /\ UNCHANGED got
  <1> USE DEF Refused
  <1>1. CASE WriterStep \/ UNCHANGED vars
    <2>1. UNCHANGED rvars
      BY <1>1 DEF WriterStep, New, NewFail, Close, WriteEntry, RefuseEntry,
                  WriteEntryFail, WriteBlob, WriteBlobFail, Written, Broken,
                  rvars, vars
    <2> QED
      BY <2>1 DEF rvars
  <1>2. CASE NextEvent
    <2>1. UNCHANGED <<valid, got>> /\ rpc = "idle"
      BY <1>2 DEF NextEvent
    <2>2. CASE valid
      BY <1>2, <2>1, <2>2 DEF NextEvent
    <2>3. CASE ~valid
      BY <1>2, <2>1, <2>3 DEF NextEvent, Return
    <2> QED
      BY <2>2, <2>3
  <1>3. CASE (ReaderStep \/ Interrupt) /\ ~NextEvent
    <2>1. res # "invalid"
      BY <1>3, IdleBegins
    <2>2. \/ res' = res
          \/ res' # "invalid"
          \/ valid' = FALSE /\ rpc' = "idle"
      <3> USE DEF Goto, Deliver, Return, Invalidate
      <3>1. CASE ReadHeader \/ ReadTag \/ ReadLength
        BY <3>1 DEF ReadHeader, ReadTag, ReadLength
      <3>2. CASE ReadPath \/ ReadKind \/ ReadDirectory \/ ReadKindUnknown
        BY <3>2 DEF ReadPath, ReadKind, ReadDirectory, ReadKindUnknown
      <3>3. CASE ReadHashId \/ ReadHash \/ ReadDest \/ ReadFlags
        BY <3>3 DEF ReadHashId, ReadHash, ReadDest, ReadFlags
      <3>4. CASE ReadChunkLength \/ ReadChunk
        BY <3>4 DEF ReadChunkLength, ReadChunk
      <3>5. CASE EndOfStream \/ UnexpectedEof \/ Interrupt
        BY <3>5 DEF EndOfStream, UnexpectedEof, Interrupt
      <3> QED
        BY <1>3, <3>1, <3>2, <3>3, <3>4, <3>5 DEF ReaderStep
    <2> QED
      BY <2>1, <2>2
  <1> QED
    BY <1>1, <1>2, <1>3 DEF Next

\* Whatever bytes follow, a Reader that has found a wrong magic number, version,
\* tag or type refuses every later call and hands out nothing more.
THEOREM InvalidForEver == Spec => InvalidFinal
  <1>1. Init => Refused
    BY DEF Init, Refused
  <1>2. Refused /\ [Next]_vars => Refused'
    BY RefusedStep
  <1>3. Refused /\ [Next]_vars =>
            [res = "invalid" => res' = "invalid" /\ UNCHANGED got]_vars
    BY RefusedStep
  <1> QED
    BY <1>1, <1>2, <1>3, PTL DEF Spec, InvalidFinal

-----------------------------------------------------------------------------
(* Sequences of bytes, joined and parted *)

\* z is x and y behind it.
Joins(x, y, z) == x \in Seq(Byte) /\ y \in Seq(Byte) /\ z = x \o y

LEMMA JoinsType ==
    ASSUME NEW x, NEW y, NEW z, Joins(x, y, z)
    PROVE  /\ z \in Seq(Byte) /\ Len(z) = Len(x) + Len(y)
           /\ \A i \in 1..Len(x) : z[i] = x[i]
           /\ Len(x) \in Nat /\ Len(y) \in Nat
  BY ConcatProperties DEF Joins

LEMMA JoinsBoth ==
    ASSUME NEW x \in Seq(Byte), NEW y \in Seq(Byte)
    PROVE  \E z : Joins(x, y, z) /\ z = x \o y
  BY DEF Joins

\* (h \o r) \o t = h \o (r \o t)
LEMMA Regroup ==
    ASSUME NEW h, NEW r, NEW x, NEW t, NEW y, Joins(h, r, x), Joins(x, t, y)
    PROVE  \E z : Joins(r, t, z) /\ Joins(h, z, y)
  <1>1. h \in Seq(Byte) /\ r \in Seq(Byte) /\ t \in Seq(Byte)
    BY DEF Joins
  <1>2. r \o t \in Seq(Byte)
    BY <1>1, ConcatProperties
  <1>3. (h \o r) \o t = h \o (r \o t)
    BY <1>1, ConcatAssociative
  <1>4. y = (h \o r) \o t
    BY DEF Joins
  <1>5. Joins(r, t, r \o t) /\ Joins(h, r \o t, y)
    BY <1>1, <1>2, <1>3, <1>4 DEF Joins
  <1> QED
    BY <1>5

\* h \o (r \o t) = (h \o r) \o t
LEMMA RegroupLeft ==
    ASSUME NEW h, NEW r, NEW z, NEW t, NEW y, Joins(r, t, z), Joins(h, z, y)
    PROVE  \E x : Joins(h, r, x) /\ Joins(x, t, y)
  <1>1. h \in Seq(Byte) /\ r \in Seq(Byte) /\ t \in Seq(Byte)
    BY DEF Joins
  <1>2. h \o r \in Seq(Byte)
    BY <1>1, ConcatProperties
  <1>3. (h \o r) \o t = h \o (r \o t)
    BY <1>1, ConcatAssociative
  <1>4. y = h \o (r \o t)
    BY DEF Joins
  <1>5. Joins(h, r, h \o r) /\ Joins(h \o r, t, y)
    BY <1>1, <1>2, <1>3, <1>4 DEF Joins
  <1> QED
    BY <1>5

LEMMA JoinsCancel ==
    ASSUME NEW x, NEW y, NEW z, NEW s, Joins(x, y, s), Joins(x, z, s)
    PROVE  y = z
  <1>1. x \o y = x \o z
    BY DEF Joins
  <1>2. x \in Seq(Byte) /\ y \in Seq(Byte) /\ z \in Seq(Byte)
    BY DEF Joins
  <1> QED
    BY <1>1, <1>2, ConcatSimplifications

\* A sequence is its first n elements and the others.
LEMMA Parts ==
    ASSUME NEW w \in Seq(Byte), NEW n \in Nat, n <= Len(w)
    PROVE  /\ Joins(SubSeq(w, 1, n), SubSeq(w, n + 1, Len(w)), w)
           /\ Len(SubSeq(w, 1, n)) = n
  <1> DEFINE f == SubSeq(w, 1, n)
             g == SubSeq(w, n + 1, Len(w))
  <1>1. f \in Seq(Byte) /\ Len(f) = n
    <2>1. \A i \in 1..n : w[i] \in Byte
      OBVIOUS
    <2>2. f \in Seq(Byte) /\ Len(f) = IF 1 <= n THEN n - 1 + 1 ELSE 0
      BY <2>1, SubSeqProperties
    <2> QED
      BY <2>2
  <1>2. g \in Seq(Byte)
    <2>1. \A i \in (n + 1)..Len(w) : w[i] \in Byte
      OBVIOUS
    <2> QED
      BY <2>1, SubSeqProperties
  <1>3. f \o g = w
    <2>1. /\ 1 \in 1..(Len(w) + 1) /\ n \in (1 - 1)..Len(w)
          /\ Len(w) \in n..Len(w)
      OBVIOUS
    <2>2. f \o g = SubSeq(w, 1, Len(w))
      BY <2>1, ConcatAdjacentSubSeq
    <2> QED
      BY <2>2, SubSeqFull
  <1> HIDE DEF f, g
  <1>4. Joins(f, g, w)
    BY <1>1, <1>2, <1>3 DEF Joins
  <1> QED
    BY <1>1, <1>4 DEF f, g

\* What is taken from the front of a stream is what stands there, and what is
\* left is what stood behind it, with or without bytes still to come.
LEMMA TakeFront ==
    ASSUME NEW w, NEW m, NEW h, NEW r, NEW t, NEW x, NEW y,
           Joins(h, r, x), Joins(x, t, y), Joins(w, m, y), Len(w) >= Len(h)
    PROVE  /\ SubSeq(w, 1, Len(h)) = h
           /\ \E z : /\ Joins(SubSeq(w, Len(h) + 1, Len(w)), m, z)
                     /\ Joins(r, t, z)
  <1>1. w \in Seq(Byte) /\ h \in Seq(Byte) /\ Len(h) \in Nat
    BY DEF Joins
  <1>2. PICK f, g : /\ f = SubSeq(w, 1, Len(h)) /\ Len(f) = Len(h)
                    /\ g = SubSeq(w, Len(h) + 1, Len(w)) /\ Joins(f, g, w)
    BY <1>1, Parts
  <1>3. PICK u : Joins(r, t, u) /\ Joins(h, u, y)
    BY Regroup
  <1>4. PICK v : Joins(g, m, v) /\ Joins(f, v, y)
    BY <1>2, Regroup
  <1>5. f = h
    <2>1. \A i \in 1..Len(h) : y[i] = h[i]
      BY <1>3, JoinsType
    <2>2. \A i \in 1..Len(f) : y[i] = f[i]
      BY <1>4, JoinsType
    <2>3. f \in Seq(Byte)
      BY <1>2 DEF Joins
    <2>4. \A i \in 1..Len(f) : f[i] = h[i]
      BY <1>2, <2>1, <2>2
    <2> QED
      BY <1>1, <1>2, <2>3, <2>4, SeqEqual, Zenon
  <1>6. u = v
    BY <1>3, <1>4, <1>5, JoinsCancel
  <1> QED
    BY <1>2, <1>3, <1>4, <1>5, <1>6

LEMMA CutAt ==
    ASSUME NEW b \in Seq(Byte), NEW n \in Nat, n < Len(b)
    PROVE  /\ Len(SubSeq(b, 1, n)) = n
           /\ \E m : m # <<>> /\ Joins(SubSeq(b, 1, n), m, b)
  <1>1. PICK x, m : /\ x = SubSeq(b, 1, n) /\ Len(x) = n
                    /\ m = SubSeq(b, n + 1, Len(b)) /\ Joins(x, m, b)
    <2>1. /\ Joins(SubSeq(b, 1, n), SubSeq(b, n + 1, Len(b)), b)
          /\ Len(SubSeq(b, 1, n)) = n
      BY Parts
    <2> QED
      BY <2>1
  <1>2. Len(m) > 0
    BY <1>1, JoinsType
  <1>3. m # <<>>
    BY <1>2
  <1> QED
    BY <1>1, <1>3

\* f[c] is the first c pieces of s, r[c] is those behind the c-th.
Fronts(f, s, n, S) == /\ f \in [0..n -> Seq(S)]
                      /\ f[0] = <<>>
                      /\ \A c \in 1..n : f[c] = f[c - 1] \o s[c]

Backs(r, s, n, S) == /\ r \in [0..n -> Seq(S)]
                     /\ r[n] = <<>>
                     /\ \A c \in 1..n : r[c - 1] = s[c] \o r[c]

LEMMA FrontsGrow ==
    ASSUME NEW S, NEW k \in Nat, NEW s, s[k + 1] \in Seq(S),
           NEW f, Fronts(f, s, k, S)
    PROVE  \E g : Fronts(g, s, k + 1, S) /\ g[k + 1] = f[k] \o s[k + 1]
  <1>1. PICK x : x = f[k] \o s[k + 1]
    OBVIOUS
  <1>2. x \in Seq(S)
    <2>1. f[k] \in Seq(S)
      BY DEF Fronts
    <2> QED
      BY <1>1, <2>1, ConcatProperties
  <1> DEFINE g == [c \in 0..(k + 1) |-> IF c = k + 1 THEN x ELSE f[c]]
  <1>3. /\ g \in [0..(k + 1) -> Seq(S)] /\ g[k + 1] = x
        /\ \A c \in 0..k : g[c] = f[c]
    BY <1>2 DEF Fronts
  <1> HIDE DEF g
  <1>4. ASSUME NEW c \in 1..(k + 1)
        PROVE  g[c] = g[c - 1] \o s[c]
    <2>1. CASE c = k + 1
      <3>1. c - 1 = k /\ k \in 0..k
        BY <2>1
      <3> QED
        BY <1>1, <1>3, <2>1, <3>1
    <2>2. CASE c # k + 1
      <3>1. c \in 1..k /\ c \in 0..k /\ c - 1 \in 0..k
        BY <2>2
      <3> QED
        BY <1>3, <3>1 DEF Fronts
    <2> QED
      BY <2>1, <2>2
  <1>5. g[0] = <<>>
    BY <1>3 DEF Fronts
  <1>6. Fronts(g, s, k + 1, S)
    BY <1>3, <1>4, <1>5 DEF Fronts
  <1> QED
    BY <1>1, <1>3, <1>6

\* One piece more at the end.
LEMMA BacksGrow ==
    ASSUME NEW S, NEW k \in Nat, NEW s, s[k + 1] \in Seq(S),
           \A c \in 1..k : s[c] \in Seq(S),
           NEW r, Backs(r, s, k, S)
    PROVE  \E g : Backs(g, s, k + 1, S) /\ g[0] = r[0] \o s[k + 1]
  <1>1. PICK x \in Seq(S) : x = s[k + 1]
    OBVIOUS
  <1> DEFINE g == [c \in 0..(k + 1) |-> IF c = k + 1 THEN <<>> ELSE r[c] \o x]
  <1>2. \A c \in 0..k : r[c] \in Seq(S)
    BY DEF Backs
  <1>3. \A c \in 0..k : r[c] \o x \in Seq(S)
    BY <1>2, ConcatProperties
  <1>4. /\ g \in [0..(k + 1) -> Seq(S)] /\ g[k + 1] = <<>>
        /\ \A c \in 0..k : g[c] = r[c] \o x
    <2>1. <<>> \in Seq(S)
      BY EmptySeq
    <2> QED
      BY <1>3, <2>1
  <1> HIDE DEF g
  <1>5. ASSUME NEW c \in 1..(k + 1)
        PROVE  g[c - 1] = s[c] \o g[c]
    <2>1. CASE c = k + 1
      <3>0. c - 1 = k /\ k \in 0..k
        BY <2>1
      <3>1. g[c - 1] = r[k] \o x /\ g[c] = <<>> /\ s[c] = x
        BY <1>1, <1>4, <2>1, <3>0
      <3>2. r[k] = <<>>
        BY DEF Backs
      <3>3. <<>> \o x = x /\ x \o <<>> = x
        BY ConcatEmptySeq
      <3> QED
        BY <3>1, <3>2, <3>3
    <2>2. CASE c # k + 1
      <3>1. c \in 1..k /\ c \in 0..k /\ c - 1 \in 0..k
        BY <2>2
      <3>2. g[c - 1] = r[c - 1] \o x /\ g[c] = r[c] \o x
        BY <1>4, <3>1
      <3>3. r[c - 1] = s[c] \o r[c]
        BY <3>1 DEF Backs
      <3>4. PICK y \in Seq(S), z \in Seq(S) : y = s[c] /\ z = r[c]
        BY <1>2, <3>1
      <3>5. (y \o z) \o x = y \o (z \o x)
        BY ConcatAssociative
      <3> QED
        BY <3>2, <3>3, <3>4, <3>5
    <2> QED
      BY <2>1, <2>2
  <1>6. Backs(g, s, k + 1, S)
    BY <1>4, <1>5 DEF Backs
  <1>7. g[0] = r[0] \o x
    BY <1>4
  <1> QED
    BY <1>1, <1>6, <1>7

LEMMA FrontsAndBacks ==
    ASSUME NEW S, NEW n \in Nat, NEW s, \A c \in 1..n : s[c] \in Seq(S)
    PROVE  \E f, r : Fronts(f, s, n, S) /\ Backs(r, s, n, S) /\ f[n] = r[0]
  <1> DEFINE Ok(k) == \E f, r : /\ Fronts(f, s, k, S) /\ Backs(r, s, k, S)
                                /\ f[k] = r[0]
             N == {k \in Nat : k <= n => Ok(k)}
  <1>1. Ok(0)
    <2> DEFINE f == [c \in 0..0 |-> <<>>]
    <2>1. f \in [0..0 -> Seq(S)] /\ f[0] = <<>>
      BY EmptySeq
    <2> HIDE DEF f
    <2>2. Fronts(f, s, 0, S) /\ Backs(f, s, 0, S)
      BY <2>1 DEF Fronts, Backs
    <2> QED
      BY <2>2
  <1>2. ASSUME NEW k \in Nat, Ok(k), k + 1 <= n PROVE Ok(k + 1)
    <2>1. PICK f, r : Fronts(f, s, k, S) /\ Backs(r, s, k, S) /\ f[k] = r[0]
      BY <1>2
    <2>2. s[k + 1] \in Seq(S) /\ \A c \in 1..k : s[c] \in Seq(S)
      BY <1>2
    <2>3. PICK g : Fronts(g, s, k + 1, S) /\ g[k + 1] = f[k] \o s[k + 1]
      BY <2>1, <2>2, FrontsGrow
    <2>4. PICK q : Backs(q, s, k + 1, S) /\ q[0] = r[0] \o s[k + 1]
      BY <2>1, <2>2, BacksGrow
    <2>5. g[k + 1] = q[0]
      BY <2>1, <2>3, <2>4
    <2> QED
      BY <2>3, <2>4, <2>5
  <1> HIDE DEF Ok
  <1>3. 0 \in N /\ \A k \in Nat : k \in N => k + 1 \in N
    BY <1>1, <1>2
  <1>4. n \in N
    <2> HIDE DEF N
    <2> QED
      BY <1>3, NumberInduction
  <1> QED
    BY <1>4 DEF Ok

\* The library's flattening adds the pieces in this order.
LEMMA FrontsFlatten ==
    ASSUME NEW S, NEW n \in Nat, NEW s, Len(s) = n, n = 0 => s = <<>>,
           \A c \in 1..n : s[c] \in Seq(S), NEW f, Fronts(f, s, n, S)
    PROVE  FlattenSeq(s) = f[n]
  <1>1. CASE n = 0
    BY <1>1 DEF FlattenSeq, Fronts
  <1>2. CASE n # 0
    <2> DEFINE Adding(g) == [i \in 1..Len(s) |->
                               IF i = 1 THEN s[i] ELSE g[i - 1] \o s[i]]
               Sums(g) == \A i \in 1..n :
                            g[i] = IF i = 1 THEN s[i] ELSE g[i - 1] \o s[i]
               h == CHOOSE g : g = Adding(g)
               e == [i \in 1..n |-> f[i]]
    <2>1. FlattenSeq(s) = h[Len(s)]
      BY <1>2, Zenon DEF FlattenSeq
    <2>2. ASSUME NEW i \in 1..n
          PROVE  f[i] = IF i = 1 THEN s[i] ELSE f[i - 1] \o s[i]
      <3>1. f[i] = f[i - 1] \o s[i]
        BY DEF Fronts
      <3>2. CASE i = 1
        <4>1. f[0] = <<>> /\ s[1] \in Seq(S)
          BY <3>2 DEF Fronts
        <4>2. <<>> \o s[1] = s[1]
          BY <4>1, ConcatEmptySeq
        <4> QED
          BY <3>1, <3>2, <4>1, <4>2
      <3> QED
        BY <3>1, <3>2
    <2>3. Sums(e)
      <3> SUFFICES ASSUME NEW i \in 1..n
                   PROVE  e[i] = IF i = 1 THEN s[i] ELSE e[i - 1] \o s[i]
        OBVIOUS
      <3>1. e[i] = f[i] /\ (i # 1 => e[i - 1] = f[i - 1])
        OBVIOUS
      <3> HIDE DEF e
      <3> QED
        BY <2>2, <3>1
    <2>4. e = Adding(e)
      <3>1. e = [i \in 1..n |-> e[i]]
        OBVIOUS
      <3> HIDE DEF e
      <3> QED
        BY <2>3, <3>1
    <2>5. h = Adding(h)
      <3> HIDE DEF e
      <3> QED
        BY <2>4
    <2> HIDE DEF h, e
    <2>6. Sums(h)
      BY <2>5
    <2> DEFINE N == {k \in Nat : k \in 1..n => h[k] = f[k]}
    <2>7. 0 \in N
      OBVIOUS
    <2>8. ASSUME NEW k \in Nat, k \in N PROVE k + 1 \in N
      <3> SUFFICES ASSUME k + 1 \in 1..n PROVE h[k + 1] = f[k + 1]
        OBVIOUS
      <3>1. h[k + 1] = IF k + 1 = 1 THEN s[k + 1] ELSE h[k + 1 - 1] \o s[k + 1]
        BY <2>6
      <3>2. f[k + 1] = IF k + 1 = 1 THEN s[k + 1] ELSE f[k + 1 - 1] \o s[k + 1]
        BY <2>2
      <3>3. k # 0 => h[k] = f[k]
        BY <2>8
      <3>4. k + 1 - 1 = k
        OBVIOUS
      <3> HIDE DEF N, Sums
      <3> QED
        BY <3>1, <3>2, <3>3, <3>4
    <2>9. \A k \in Nat : k \in N
      <3> HIDE DEF N, Sums
      <3> QED
        BY <2>7, <2>8, NumberInduction
    <2> QED
      BY <1>2, <2>1, <2>9
  <1> QED
    BY <1>1, <1>2

-----------------------------------------------------------------------------
(* Bytes and lengths *)

\* A tag, a kind or a hash type is a byte, and so are the header's.
LEMMA SmallBytes ==
    /\ 0..3 \subseteq Byte
    /\ Header \in Seq(Byte) /\ Len(Header) = 5
    /\ \A x \in Byte : <<x>> \in Seq(Byte)
  <1>1. \A x \in Byte : <<x>> \in Seq(Byte)
    OBVIOUS
  <1>2. 0..3 \subseteq Byte
    BY BaseAssumption DEF Byte
  <1>3. \A n \in Nat : n % Base \in Byte
    BY BaseAssumption DEF Byte
  <1>4. 78 % Base \in Byte /\ 67 % Base \in Byte /\ 75 % Base \in Byte
        /\ 48 % Base \in Byte
    BY <1>3
  <1>5. Header \in Seq(Byte) /\ Len(Header) = 5
    BY <1>4 DEF Header
  <1> QED
    BY <1>1, <1>2, <1>5

\* Two bytes hold a length, and give it back.
LEMMA U16Type ==
    ASSUME NEW n \in Nat
    PROVE  U16(n) \in Seq(Byte) /\ Len(U16(n)) = 2
  <1>1. n % Base \in Byte
    BY BaseAssumption DEF Byte
  <1>2. (n \div Base) % Base \in Byte
    <2>1. n \div Base \in Nat
      BY BaseAssumption
    <2> QED
      BY <2>1, BaseAssumption DEF Byte
  <1> QED
    BY <1>1, <1>2 DEF U16

LEMMA U16Value ==
    ASSUME NEW n \in 0..MAX_LENGTH
    PROVE  FromU16(U16(n)) = n
  <1> DEFINE d == n \div Base
             q == n % Base
  <1>1. Base \in Nat /\ Base >= 4 /\ n \in Nat /\ n <= Base * Base - 1
    <2>1. Base * Base \in Int
      BY BaseAssumption
    <2> QED
      BY <2>1, BaseAssumption DEF MAX_LENGTH
  <1>2. d \in Nat /\ q \in 0..(Base - 1) /\ n = d * Base + q
    BY <1>1, SMTT(30)
  <1>3. d \in 0..(Base - 1)
    <2> HIDE DEF d, q
    <2>1. ASSUME d >= Base PROVE FALSE
      <3>1. d * Base >= Base * Base
        BY <1>1, <1>2, <2>1, SMTT(30)
      <3>2. d * Base \in Int /\ Base * Base \in Int
        BY <1>1, <1>2
      <3> QED
        BY <1>1, <1>2, <3>1, <3>2
    <2> QED
      BY <1>1, <1>2, <2>1
  <1>4. d % Base = d
    <2> HIDE DEF d
    <2> QED
      BY <1>1, <1>3
  <1>5. U16(n) = <<d % Base, q>>
    BY DEF U16
  <1> HIDE DEF d, q
  <1>6. U16(n)[1] = d /\ U16(n)[2] = q
    BY <1>4, <1>5
  <1> QED
    BY <1>2, <1>6 DEF FromU16

LEMMA FromU16Type ==
    ASSUME NEW b \in Seq(Byte), Len(b) = 2
    PROVE  FromU16(b) \in 0..MAX_LENGTH
  <1>1. PICK x \in Byte, y \in Byte : x = b[1] /\ y = b[2]
    OBVIOUS
  <1>2. /\ x \in Nat /\ y \in Nat /\ x <= Base - 1 /\ y <= Base - 1
        /\ Base \in Nat /\ Base >= 4
    BY BaseAssumption DEF Byte
  <1>3. x * Base <= (Base - 1) * Base /\ (Base - 1) * Base = Base * Base - Base
    BY <1>2, SMTT(30)
  <1>4. x * Base \in Nat /\ Base * Base \in Int
    BY <1>2
  <1>5. x * Base + y \in 0..(Base * Base - 1)
    BY <1>2, <1>3, <1>4
  <1> QED
    BY <1>1, <1>5 DEF FromU16, MAX_LENGTH

LEMMA MaxLengthType == MAX_LENGTH \in Nat /\ MAX_LENGTH >= 15
  <1>1. Base * Base \in Nat /\ Base * Base >= 16
    BY BaseAssumption, SMTT(30)
  <1> QED
    BY <1>1 DEF MAX_LENGTH

-----------------------------------------------------------------------------
(* The bytes of an entry, as they are read one after the other *)

Storable == {e \in Entry : Fits(e.path) /\ Fits(e.dest)}

\* The bytes of an entry behind its kind, behind its path and behind its tag.
Fields(e) ==
    CASE e.kind = TYPE_DATA -> HashBytes(e.hash) \o U16(e.flags)
      [] e.kind = TYPE_LINK -> Prefixed(e.dest) \o U16(e.flags)
      [] e.kind = TYPE_DIR  -> <<>>

Kind(e) == <<e.kind>> \o Fields(e)
Body(e) == Prefixed(e.path) \o Kind(e)

LEMMA Kinds == /\ TYPE_DATA # TYPE_LINK /\ TYPE_DATA # TYPE_DIR
               /\ TYPE_LINK # TYPE_DIR
  BY DEF TYPE_DATA, TYPE_LINK, TYPE_DIR

LEMMA EntryFields ==
    ASSUME NEW e \in Entry
    PROVE  /\ e.kind \in {TYPE_DATA, TYPE_LINK, TYPE_DIR}
           /\ e.path \in Seq(Byte) /\ e.dest \in Seq(Byte)
           /\ e.hash \in Seq(Byte) /\ e.flags \in 0..1
           /\ e.content = <<>> /\ e.content \in Seq(Byte)
           /\ e.kind = TYPE_DATA => Len(e.hash) = HashLen
           /\ e.kind # TYPE_DATA => e.hash = <<>>
           /\ e.kind # TYPE_LINK => e.dest = <<>>
           /\ e.kind = TYPE_DIR => e.flags = 0
           /\ e = [kind |-> e.kind, path |-> e.path, dest |-> e.dest,
                   hash |-> e.hash, flags |-> e.flags, content |-> e.content]
  <1>1. /\ e \in Event /\ e.kind # 0 /\ e.content = <<>>
        /\ Len(e.hash) = (IF e.kind = TYPE_DATA THEN HashLen ELSE 0)
        /\ e.kind # TYPE_LINK => e.dest = <<>>
        /\ e.kind = TYPE_DIR => e.flags = 0
    BY DEF Entry
  <1>2. /\ e.kind \in 0..3
        /\ e.path \in Seq(Byte) /\ e.dest \in Seq(Byte)
        /\ e.hash \in Seq(Byte) /\ e.flags \in 0..1
        /\ e.content \in Seq(Byte)
    BY <1>1 DEF Event
  <1>3. e = [kind |-> e.kind, path |-> e.path, dest |-> e.dest,
             hash |-> e.hash, flags |-> e.flags, content |-> e.content]
    BY <1>1 DEF Event
  <1>4. e.kind # TYPE_DATA => e.hash = <<>>
    <2>1. PICK h \in Seq(Byte) : h = e.hash
      BY <1>2
    <2>2. h # <<>> => Len(h) \in Nat \ {0}
      BY EmptySeq
    <2> QED
      BY <1>1, <2>1, <2>2
  <1>5. e.kind \in {TYPE_DATA, TYPE_LINK, TYPE_DIR}
    BY <1>1, <1>2 DEF TYPE_DATA, TYPE_LINK, TYPE_DIR
  <1> QED
    BY <1>1, <1>2, <1>3, <1>4, <1>5

\* A length stands before what it is the length of, the type of a hash before
\* the hash, and any bytes may follow.
LEMMA PrefixedThen ==
    ASSUME NEW b \in Seq(Byte), NEW x \in Seq(Byte)
    PROVE  /\ Prefixed(b) \in Seq(Byte)
           /\ Prefixed(b) \o x = U16(Len(b)) \o (b \o x)
  <1>1. U16(Len(b)) \in Seq(Byte)
    BY LenProperties, U16Type
  <1>2. (U16(Len(b)) \o b) \o x = U16(Len(b)) \o (b \o x)
    BY <1>1, ConcatAssociative
  <1> QED
    BY <1>1, <1>2, ConcatProperties DEF Prefixed

LEMMA HashBytesThen ==
    ASSUME NEW h \in Seq(Byte), NEW x \in Seq(Byte)
    PROVE  /\ HashBytes(h) \in Seq(Byte)
           /\ HashBytes(h) \o x = <<1>> \o (h \o x)
  <1>1. <<1>> \in Seq(Byte)
    BY SmallBytes
  <1>2. (<<1>> \o h) \o x = <<1>> \o (h \o x)
    BY <1>1, ConcatAssociative
  <1> QED
    BY <1>1, <1>2, ConcatProperties DEF HashBytes

LEMMA EntryTags ==
    ASSUME NEW e \in Entry
    PROVE  <<e.kind>> \in Seq(Byte) /\ e.kind \in Byte
  <1>1. e.kind \in 0..3
    BY EntryFields DEF TYPE_DATA, TYPE_LINK, TYPE_DIR
  <1>2. e.kind \in Byte
    BY <1>1, SmallBytes
  <1> QED
    BY <1>2

LEMMA Ones == /\ <<1>> \in Seq(Byte) /\ <<2>> \in Seq(Byte)
              /\ Len(<<1>>) = 1 /\ Len(<<2>>) = 1
              /\ <<>> \in Seq(Byte)
  <1>1. 1 \in Byte /\ 2 \in Byte
    BY SmallBytes
  <1> QED
    BY <1>1

LEMMA FlagBytes ==
    ASSUME NEW e \in Entry
    PROVE  U16(e.flags) \in Seq(Byte) /\ Len(U16(e.flags)) = 2
  <1>1. e.flags \in Nat
    BY EntryFields
  <1> QED
    BY <1>1, U16Type

\* The fields of an entry, by its kind.
LEMMA FieldsOf ==
    ASSUME NEW e
    PROVE  /\ e.kind = TYPE_DATA =>
                Fields(e) = HashBytes(e.hash) \o U16(e.flags)
           /\ e.kind = TYPE_LINK =>
                Fields(e) = Prefixed(e.dest) \o U16(e.flags)
           /\ e.kind = TYPE_DIR => Fields(e) = <<>>
  <1>1. ASSUME e.kind = TYPE_DATA
        PROVE  Fields(e) = HashBytes(e.hash) \o U16(e.flags)
    BY <1>1, Kinds DEF Fields
  <1>2. ASSUME e.kind = TYPE_LINK
        PROVE  Fields(e) = Prefixed(e.dest) \o U16(e.flags)
    BY <1>2, Kinds DEF Fields
  <1>3. ASSUME e.kind = TYPE_DIR PROVE Fields(e) = <<>>
    BY <1>3, Kinds DEF Fields
  <1> QED
    BY <1>1, <1>2, <1>3

LEMMA TargetOf ==
    ASSUME NEW e
    PROVE  /\ e.kind = TYPE_DATA =>
                Target(e) = (<<e.kind>> \o HashBytes(e.hash)) \o U16(e.flags)
           /\ e.kind = TYPE_LINK =>
                Target(e) = (<<e.kind>> \o Prefixed(e.dest)) \o U16(e.flags)
           /\ e.kind = TYPE_DIR => Target(e) = <<e.kind>>
  <1>1. ASSUME e.kind = TYPE_DATA
        PROVE  Target(e) = (<<e.kind>> \o HashBytes(e.hash)) \o U16(e.flags)
    BY <1>1, Kinds DEF Target
  <1>2. ASSUME e.kind = TYPE_LINK
        PROVE  Target(e) = (<<e.kind>> \o Prefixed(e.dest)) \o U16(e.flags)
    BY <1>2, Kinds DEF Target
  <1>3. ASSUME e.kind = TYPE_DIR PROVE Target(e) = <<e.kind>>
    BY <1>3, Kinds DEF Target
  <1> QED
    BY <1>1, <1>2, <1>3

LEMMA FieldsType ==
    ASSUME NEW e \in Entry
    PROVE  /\ HashBytes(e.hash) \in Seq(Byte) /\ Prefixed(e.dest) \in Seq(Byte)
           /\ Fields(e) \in Seq(Byte) /\ Kind(e) \in Seq(Byte)
           /\ Prefixed(e.path) \in Seq(Byte) /\ Body(e) \in Seq(Byte)
  <1>1. \A a \in Seq(Byte), b \in Seq(Byte) : a \o b \in Seq(Byte)
    BY ConcatProperties
  <1>2. /\ e.path \in Seq(Byte) /\ e.dest \in Seq(Byte)
        /\ e.hash \in Seq(Byte) /\ <<e.kind>> \in Seq(Byte)
        /\ e.kind \in {TYPE_DATA, TYPE_LINK, TYPE_DIR}
        /\ U16(e.flags) \in Seq(Byte)
    BY EntryFields, EntryTags, FlagBytes
  <1>3. /\ HashBytes(e.hash) \in Seq(Byte) /\ Prefixed(e.dest) \in Seq(Byte)
        /\ Prefixed(e.path) \in Seq(Byte)
    BY <1>2, PrefixedThen, HashBytesThen
  <1>4. Fields(e) \in Seq(Byte)
    <2>1. /\ HashBytes(e.hash) \o U16(e.flags) \in Seq(Byte)
          /\ Prefixed(e.dest) \o U16(e.flags) \in Seq(Byte)
      BY <1>1, <1>2, <1>3
    <2> QED
      BY <1>2, <2>1, FieldsOf, Ones
  <1>5. Kind(e) \in Seq(Byte)
    BY <1>1, <1>2, <1>4 DEF Kind
  <1>6. Body(e) \in Seq(Byte)
    BY <1>1, <1>3, <1>5 DEF Body
  <1> QED
    BY <1>3, <1>4, <1>5, <1>6

\* An entry is its tag and what is read after it.
LEMMA EntryShape ==
    ASSUME NEW e \in Entry
    PROVE  /\ EntryBytes(e) = <<ENTRY_ENTRY>> \o Body(e)
           /\ EntryBytes(e) \in Seq(Byte)
  <1>1. /\ <<e.kind>> \in Seq(Byte) /\ U16(e.flags) \in Seq(Byte)
        /\ e.kind \in {TYPE_DATA, TYPE_LINK, TYPE_DIR}
        /\ HashBytes(e.hash) \in Seq(Byte) /\ Prefixed(e.dest) \in Seq(Byte)
    BY EntryFields, EntryTags, FlagBytes, FieldsType
  <1>2. Target(e) = Kind(e)
    <2>1. CASE e.kind = TYPE_DATA
      <3>1. (<<e.kind>> \o HashBytes(e.hash)) \o U16(e.flags)
              = <<e.kind>> \o (HashBytes(e.hash) \o U16(e.flags))
        <4>1. PICK a \in Seq(Byte), b \in Seq(Byte), c \in Seq(Byte) :
                /\ a = <<e.kind>> /\ b = HashBytes(e.hash) /\ c = U16(e.flags)
          BY <1>1
        <4>2. (a \o b) \o c = a \o (b \o c)
          BY ConcatAssociative
        <4> QED
          BY <4>1, <4>2
      <3> QED
        BY <2>1, <3>1, FieldsOf, TargetOf DEF Kind
    <2>2. CASE e.kind = TYPE_LINK
      <3>1. (<<e.kind>> \o Prefixed(e.dest)) \o U16(e.flags)
              = <<e.kind>> \o (Prefixed(e.dest) \o U16(e.flags))
        <4>1. PICK a \in Seq(Byte), b \in Seq(Byte), c \in Seq(Byte) :
                /\ a = <<e.kind>> /\ b = Prefixed(e.dest) /\ c = U16(e.flags)
          BY <1>1
        <4>2. (a \o b) \o c = a \o (b \o c)
          BY ConcatAssociative
        <4> QED
          BY <4>1, <4>2
      <3> QED
        BY <2>2, <3>1, FieldsOf, TargetOf DEF Kind
    <2>3. CASE e.kind = TYPE_DIR
      <3>1. <<e.kind>> \o <<>> = <<e.kind>>
        BY <1>1, ConcatEmptySeq
      <3> QED
        BY <2>3, <3>1, FieldsOf, TargetOf DEF Kind
    <2> QED
      BY <1>1, <2>1, <2>2, <2>3
  <1>3. EntryBytes(e) = (<<ENTRY_ENTRY>> \o Prefixed(e.path)) \o Kind(e)
    BY <1>2 DEF EntryBytes
  <1>4. <<ENTRY_ENTRY>> \in Seq(Byte)
    BY Ones DEF ENTRY_ENTRY
  <1>5. EntryBytes(e) = <<ENTRY_ENTRY>> \o Body(e)
    BY <1>3, <1>4, FieldsType, ConcatAssociative DEF Body
  <1>6. EntryBytes(e) \in Seq(Byte)
    BY <1>4, <1>5, FieldsType, ConcatProperties
  <1> QED
    BY <1>5, <1>6

LEMMA BlankType == Blank \in Event
  BY Ones DEF Blank, Event

\* An event with another field is one.
LEMMA EventWith ==
    ASSUME NEW e \in Event
    PROVE  /\ \A k \in 0..3 : [e EXCEPT !.kind = k] \in Event
           /\ \A n \in 0..1 : [e EXCEPT !.flags = n] \in Event
           /\ \A s \in Seq(Byte) : /\ [e EXCEPT !.path = s] \in Event
                                   /\ [e EXCEPT !.dest = s] \in Event
                                   /\ [e EXCEPT !.hash = s] \in Event
                                   /\ [e EXCEPT !.content = s] \in Event
  BY DEF Event

-----------------------------------------------------------------------------
(* The bytes of a blob *)

\* The chunks, each behind its length.
Framed(b) == [c \in 1..Len(b.chunks) |-> Prefixed(b.chunks[c])]

\* f[c] is the content up to the c-th chunk, r[c] are the bytes of the chunks
\* behind it.
Pieces(b, f, r) == /\ Fronts(f, b.chunks, Len(b.chunks), Byte)
                   /\ Backs(r, Framed(b), Len(b.chunks), Byte)

\* The bytes of a blob behind its last chunk.
End(b) == U16(0) \o HashBytes(b.hash)

LEMMA BlobFields ==
    ASSUME NEW b \in Blob
    PROVE  /\ b.chunks \in Seq(Seq(Byte)) /\ Len(b.chunks) \in Nat
           /\ b.hash \in Seq(Byte) /\ Len(b.hash) = HashLen
           /\ \A c \in 1..Len(b.chunks) : /\ b.chunks[c] \in Seq(Byte)
                                          /\ Len(b.chunks[c]) \in 1..MAX_LENGTH
                                          /\ Prefixed(b.chunks[c]) \in Seq(Byte)
           /\ End(b) \in Seq(Byte)
  <1>1. /\ b.chunks \in Seq(Seq(Byte)) /\ b.hash \in Seq(Byte)
        /\ Len(b.hash) = HashLen
        /\ \A c \in 1..Len(b.chunks) : Len(b.chunks[c]) \in 1..MAX_LENGTH
    BY DEF Blob
  <1>2. /\ Len(b.chunks) \in Nat
        /\ \A c \in 1..Len(b.chunks) : b.chunks[c] \in Seq(Byte)
    BY <1>1
  <1>3. \A c \in 1..Len(b.chunks) : Prefixed(b.chunks[c]) \in Seq(Byte)
    BY <1>2, Ones, PrefixedThen
  <1>4. End(b) \in Seq(Byte)
    <2>1. U16(0) \in Seq(Byte) /\ HashBytes(b.hash) \in Seq(Byte)
      BY <1>1, Ones, HashBytesThen, U16Type
    <2> QED
      BY <2>1, ConcatProperties DEF End
  <1> QED
    BY <1>1, <1>2, <1>3, <1>4

LEMMA PiecesType ==
    ASSUME NEW b \in Blob, NEW f, NEW r, Pieces(b, f, r)
    PROVE  /\ f[0] = <<>> /\ r[Len(b.chunks)] = <<>>
           /\ \A c \in 0..Len(b.chunks) : /\ f[c] \in Seq(Byte)
                                          /\ r[c] \in Seq(Byte)
                                          /\ r[c] \o End(b) \in Seq(Byte)
           /\ \A c \in 1..Len(b.chunks) :
                /\ f[c] = f[c - 1] \o b.chunks[c]
                /\ r[c - 1] = Prefixed(b.chunks[c]) \o r[c]
  <1>1. /\ f[0] = <<>> /\ r[Len(b.chunks)] = <<>>
        /\ \A c \in 0..Len(b.chunks) : f[c] \in Seq(Byte) /\ r[c] \in Seq(Byte)
        /\ \A c \in 1..Len(b.chunks) : f[c] = f[c - 1] \o b.chunks[c]
    BY DEF Pieces, Fronts, Backs
  <1>2. \A c \in 1..Len(b.chunks) : r[c - 1] = Prefixed(b.chunks[c]) \o r[c]
    BY DEF Pieces, Backs, Framed
  <1>3. \A c \in 0..Len(b.chunks) : r[c] \o End(b) \in Seq(Byte)
    BY <1>1, BlobFields, ConcatProperties
  <1> QED
    BY <1>1, <1>2, <1>3

\* A blob is its tag, its chunks and its end; the event has all its content.
LEMMA BlobShape ==
    ASSUME NEW b \in Blob
    PROVE  \E f, r :
             /\ Pieces(b, f, r)
             /\ BlobBytes(b) = <<ENTRY_DATA>> \o (r[0] \o End(b))
             /\ BlobEvent(b) = [Blank EXCEPT !.content = f[Len(b.chunks)],
                                             !.hash = b.hash]
  <1> DEFINE n == Len(b.chunks)
  <1>1. n \in Nat /\ \A c \in 1..n : b.chunks[c] \in Seq(Byte)
    BY BlobFields
  <1>2. \A c \in 1..n : Framed(b)[c] \in Seq(Byte)
    BY BlobFields DEF Framed
  <1>3. Len(Framed(b)) = n /\ (n = 0 => Framed(b) = <<>>)
    BY <1>1 DEF Framed
  <1>4. n = 0 => b.chunks = <<>>
    BY BlobFields, EmptySeq
  <1> HIDE DEF n
  <1>5. PICK f : Fronts(f, b.chunks, n, Byte)
    BY <1>1, FrontsAndBacks
  <1>6. FlattenSeq(b.chunks) = f[n]
    BY <1>1, <1>4, <1>5, FrontsFlatten DEF n
  <1>7. PICK g, r : /\ Fronts(g, Framed(b), n, Byte)
                    /\ Backs(r, Framed(b), n, Byte) /\ g[n] = r[0]
    <2>1. PICK s : s = Framed(b)
      OBVIOUS
    <2>2. \A c \in 1..n : s[c] \in Seq(Byte)
      BY <1>2, <2>1
    <2>3. \E g, r : Fronts(g, s, n, Byte) /\ Backs(r, s, n, Byte) /\ g[n] = r[0]
      BY <1>1, <2>2, FrontsAndBacks
    <2> QED
      BY <2>1, <2>3
  <1>8. FlattenSeq(Framed(b)) = r[0]
    <2>1. PICK s : s = Framed(b)
      OBVIOUS
    <2>2. /\ Len(s) = n /\ (n = 0 => s = <<>>) /\ Fronts(g, s, n, Byte)
          /\ \A c \in 1..n : s[c] \in Seq(Byte)
      BY <1>2, <1>3, <1>7, <2>1
    <2>3. FlattenSeq(s) = g[n]
      BY <1>1, <2>2, FrontsFlatten, ZenonT(30)
    <2> QED
      BY <1>7, <2>1, <2>3
  <1>9. Pieces(b, f, r)
    BY <1>5, <1>7 DEF Pieces, n
  <1>10. BlobBytes(b) = <<ENTRY_DATA>> \o (r[0] \o End(b))
    <2>1. BlobBytes(b) =
             ((<<ENTRY_DATA>> \o r[0]) \o U16(0)) \o HashBytes(b.hash)
      BY <1>8 DEF BlobBytes, Framed, n
    <2>2. PICK t \in Seq(Byte), x \in Seq(Byte), u \in Seq(Byte),
               h \in Seq(Byte) :
            /\ t = <<ENTRY_DATA>> /\ x = r[0] /\ u = U16(0)
            /\ h = HashBytes(b.hash)
      <3>1. r[0] \in Seq(Byte)
        BY <1>1, <1>7 DEF Backs
      <3>2. <<ENTRY_DATA>> \in Seq(Byte) /\ U16(0) \in Seq(Byte)
        BY Ones, U16Type DEF ENTRY_DATA
      <3>3. HashBytes(b.hash) \in Seq(Byte)
        BY BlobFields, Ones, HashBytesThen
      <3> QED
        BY <3>1, <3>2, <3>3
    <2>3. PICK v : Joins(t, x, v) /\ v = t \o x
      BY JoinsBoth, Zenon
    <2>4. PICK w : Joins(v, u, w) /\ w = v \o u
      BY <2>3, JoinsType, JoinsBoth, Zenon
    <2>5. PICK y : Joins(w, h, y) /\ y = w \o h
      BY <2>4, JoinsType, JoinsBoth, Zenon
    <2>6. PICK k : Joins(u, h, k) /\ Joins(v, k, y)
      BY <2>4, <2>5, Regroup, Zenon
    <2>7. PICK z : Joins(x, k, z) /\ Joins(t, z, y)
      BY <2>3, <2>6, Regroup, Zenon
    <2>8. k = End(b)
      BY <2>2, <2>6 DEF End, Joins
    <2>9. y = t \o (x \o k)
      BY <2>7 DEF Joins
    <2> QED
      BY <2>1, <2>2, <2>3, <2>4, <2>5, <2>8, <2>9
  <1>11. BlobEvent(b) = [Blank EXCEPT !.content = f[n], !.hash = b.hash]
    BY <1>6 DEF BlobEvent
  <1> QED
    BY <1>9, <1>10, <1>11 DEF n

LEMMA BlobType ==
    ASSUME NEW b \in Blob
    PROVE  BlobBytes(b) \in Seq(Byte) /\ BlobEvent(b) \in Event
  <1>1. PICK f, r : /\ Pieces(b, f, r)
                    /\ BlobBytes(b) = <<ENTRY_DATA>> \o (r[0] \o End(b))
                    /\ BlobEvent(b) = [Blank EXCEPT
                                         !.content = f[Len(b.chunks)],
                                         !.hash = b.hash]
    BY BlobShape
  <1>2. r[0] \o End(b) \in Seq(Byte) /\ f[Len(b.chunks)] \in Seq(Byte)
    <2>1. 0 \in 0..Len(b.chunks) /\ Len(b.chunks) \in 0..Len(b.chunks)
      BY BlobFields
    <2> QED
      BY <1>1, <2>1, PiecesType
  <1>3. BlobBytes(b) \in Seq(Byte)
    BY <1>1, <1>2, Ones, ConcatProperties DEF ENTRY_DATA
  <1>4. BlobEvent(b) \in Event
    <2>1. PICK c \in Seq(Byte), h \in Seq(Byte) :
            c = f[Len(b.chunks)] /\ h = b.hash
      BY <1>2, BlobFields
    <2>2. [Blank EXCEPT !.content = c, !.hash = h] \in Event
      <3>1. PICK e \in Event : e = [Blank EXCEPT !.content = c]
        BY BlankType, EventWith
      <3>2. [Blank EXCEPT !.content = c, !.hash = h]
              = [[Blank EXCEPT !.content = c] EXCEPT !.hash = h]
        OBVIOUS
      <3> QED
        BY <3>1, <3>2, EventWith
    <2> QED
      BY <1>1, <2>1, <2>2
  <1> QED
    BY <1>3, <1>4

-----------------------------------------------------------------------------
(* What a reader does with the bytes of an event *)

\* What it has of an entry when it has read its path and its kind, or all but
\* its flags; and of a blob when it has read its content up to x.
Named(e)   == [Blank EXCEPT !.path = e.path]
Typed(e)   == [Blank EXCEPT !.path = e.path, !.kind = e.kind]
Holding(x) == [Blank EXCEPT !.content = x]

\* A reader that is about to do the read p, has q of an event and has read the
\* length n, is reading the entry e if it gets the bytes r.
EntryAt(p, q, n, e, r) ==
    /\ e \in Storable
    /\ \/ p = "path_len" /\ q = Blank /\ r = Body(e)
       \/ p = "path" /\ q = Blank /\ n = Len(e.path) /\ r = e.path \o Kind(e)
       \/ p = "kind" /\ q = Named(e) /\ r = Kind(e)
       \/ /\ p = "hash_id" /\ e.kind = TYPE_DATA
          /\ q = Typed(e) /\ r = Fields(e)
       \/ /\ p = "hash" /\ e.kind = TYPE_DATA
          /\ q = Typed(e) /\ r = e.hash \o U16(e.flags)
       \/ /\ p = "dest_len" /\ e.kind = TYPE_LINK
          /\ q = Typed(e) /\ r = Fields(e)
       \/ /\ p = "dest" /\ e.kind = TYPE_LINK /\ n = Len(e.dest)
          /\ q = Typed(e) /\ r = e.dest \o U16(e.flags)
       \/ p = "flags" /\ q = [e EXCEPT !.flags = 0] /\ r = U16(e.flags)

\* And it is reading the blob e, which is b with its pieces f and g.
PieceOf(p, q, n, e, r, b, f, g) ==
    \E c \in 0..Len(b.chunks) :
        /\ Pieces(b, f, g)
        /\ e = [Holding(f[Len(b.chunks)]) EXCEPT !.hash = b.hash]
        /\ \/ p = "chunk_len" /\ q = Holding(f[c]) /\ r = g[c] \o End(b)
           \/ /\ p = "chunk" /\ q = Holding(f[c])
              /\ c < Len(b.chunks) /\ n = Len(b.chunks[c + 1])
              /\ r = b.chunks[c + 1] \o (g[c + 1] \o End(b))
           \/ /\ p = "hash_id" /\ q = Holding(f[Len(b.chunks)])
              /\ r = HashBytes(b.hash)
           \/ /\ p = "hash" /\ q = Holding(f[Len(b.chunks)])
              /\ r = b.hash

BlobAt(p, q, n, e, r) ==
    \E b \in Blob : \E f, g : PieceOf(p, q, n, e, r, b, f, g)

Reads(p, q, n, e, r) == EntryAt(p, q, n, e, r) \/ BlobAt(p, q, n, e, r)

\* The reads inside an event.
ReadField == \/ ReadLength \/ ReadPath \/ ReadKind \/ ReadDirectory
             \/ ReadKindUnknown \/ ReadHashId \/ ReadHash \/ ReadDest
             \/ ReadFlags \/ ReadChunkLength \/ ReadChunk

\* Which they are, and what each does.
LEMMA NeedIs ==
    /\ rpc = "header" => Need = Len(Header)
    /\ rpc \in {"tag", "kind", "hash_id"} => Need = 1
    /\ rpc \in {"path_len", "dest_len", "flags", "chunk_len"} => Need = 2
    /\ rpc = "hash" => Need = HashLen
    /\ rpc \in {"path", "dest", "chunk"} => Need = len
    /\ rpc = "idle" => Need = 0
  BY DEF Need

LEMMA LengthRead ==
    ASSUME ReadField, rpc \in {"path_len", "dest_len"}
    PROVE  /\ len' = FromU16(Here) /\ part' = part
           /\ Goto(IF rpc = "path_len" THEN "path" ELSE "dest")
  <1>1. ReadLength
    BY DEF ReadField, Take, ReadPath, ReadKind, ReadDirectory,
           ReadKindUnknown, ReadHashId, ReadHash, ReadDest, ReadFlags,
           ReadChunkLength, ReadChunk
  <1>2. PICK f \in {<<"path_len", "path">>, <<"dest_len", "dest">>} :
          rpc = f[1] /\ len' = FromU16(Here) /\ Goto(f[2]) /\ part' = part
    BY <1>1 DEF ReadLength, Take
  <1>3. CASE f = <<"path_len", "path">>
    BY <1>2, <1>3
  <1>4. CASE f = <<"dest_len", "dest">>
    BY <1>2, <1>4
  <1> QED
    BY <1>3, <1>4

LEMMA FieldRead ==
    ASSUME ReadField
    PROVE  /\ rpc = "path" =>
                /\ part' = [part EXCEPT !.path = Here] /\ len' = len
                /\ Goto("kind")
           /\ rpc = "kind" => ReadKind \/ ReadDirectory \/ ReadKindUnknown
           /\ rpc = "hash_id" => ReadHashId
           /\ rpc = "hash" => ReadHash
           /\ rpc = "dest" =>
                /\ part' = [part EXCEPT !.dest = Here] /\ len' = len
                /\ Goto("flags")
           /\ rpc = "flags" =>
                Deliver([part EXCEPT !.flags = Flags(FromU16(Here))])
           /\ rpc = "chunk_len" => ReadChunkLength
           /\ rpc = "chunk" =>
                /\ part' = [part EXCEPT !.content = @ \o Here] /\ len' = len
                /\ Goto("chunk_len")
  <1>1. ReadLength => rpc \in {"path_len", "dest_len"}
    BY DEF ReadLength, Take
  <1> QED
    BY <1>1 DEF ReadField, Take, ReadPath, ReadKind, ReadDirectory,
           ReadKindUnknown, ReadHashId, ReadHash, ReadDest, ReadFlags,
           ReadChunkLength, ReadChunk

\* A read has got its part of the event: the event is complete, or the bytes s
\* of it are still to be read.
Onward(e, s) ==
    \/ Deliver(e) /\ s = <<>>
    \/ /\ Reads(rpc', part', len', e, s)
       /\ UNCHANGED <<got, res, warned, valid, got_header>>

\* The bytes of an event are those of the read that is next, and others.
Advances(e, r) ==
    \E h, s \in Seq(Byte) : /\ r = h \o s /\ Len(h) = Need
                            /\ ReadField /\ Here = h => Onward(e, s)

LEMMA AdvanceBy ==
    ASSUME NEW e, NEW h \in Seq(Byte), NEW s \in Seq(Byte), Len(h) = Need,
           ReadField /\ Here = h => Onward(e, s)
    PROVE  Advances(e, h \o s)
  BY DEF Advances

LEMMA LengthFits ==
    ASSUME NEW b \in Seq(Byte), Fits(b)
    PROVE  /\ U16(Len(b)) \in Seq(Byte) /\ Len(U16(Len(b))) = 2
           /\ FromU16(U16(Len(b))) = Len(b)
  <1>1. Len(b) \in Nat /\ Len(b) \in 0..MAX_LENGTH
    BY MaxLengthType DEF Fits
  <1> QED
    BY <1>1, U16Type, U16Value

\* With the fields its kind has, what was read is the entry.
LEMMA SameEvent ==
    ASSUME NEW a \in Event, NEW b \in Event, a.kind = b.kind, a.path = b.path,
           a.dest = b.dest, a.hash = b.hash, a.flags = b.flags,
           a.content = b.content
    PROVE  a = b
  BY DEF Event

LEMMA TypedIs ==
    ASSUME NEW e \in Entry
    PROVE  /\ e.kind = TYPE_DIR => Typed(e) = e
           /\ e.kind = TYPE_DATA =>
                [Typed(e) EXCEPT !.hash = e.hash] = [e EXCEPT !.flags = 0]
           /\ e.kind = TYPE_LINK =>
                [Typed(e) EXCEPT !.dest = e.dest] = [e EXCEPT !.flags = 0]
  <1>0. /\ e \in Event /\ e.path \in Seq(Byte) /\ e.kind \in 0..3
        /\ e.hash \in Seq(Byte) /\ e.dest \in Seq(Byte)
        /\ e.content = <<>>
    BY DEF Entry, Event
  <1>1. PICK b \in Event : b = [Blank EXCEPT !.path = e.path]
    BY <1>0, BlankType, EventWith
  <1>2. /\ b.kind = 0 /\ b.path = e.path /\ b.dest = <<>> /\ b.hash = <<>>
        /\ b.flags = 0 /\ b.content = <<>>
    BY <1>1 DEF Blank
  <1>3. PICK t \in Event : t = [b EXCEPT !.kind = e.kind]
    BY <1>0, EventWith
  <1>4. /\ t.kind = e.kind /\ t.path = e.path /\ t.dest = <<>>
        /\ t.hash = <<>> /\ t.flags = 0 /\ t.content = <<>>
    BY <1>2, <1>3 DEF Event
  <1>5. Typed(e) = t
    BY <1>1, <1>3 DEF Typed
  <1>6. PICK f \in Event : f = [e EXCEPT !.flags = 0]
    <2>1. 0 \in 0..1
      OBVIOUS
    <2> QED
      BY <1>0, <2>1, EventWith
  <1>7. /\ f.kind = e.kind /\ f.path = e.path /\ f.dest = e.dest
        /\ f.hash = e.hash /\ f.flags = 0 /\ f.content = <<>>
    BY <1>0, <1>6 DEF Event
  <1>8. e.kind = TYPE_DIR => t = e
    <2> SUFFICES ASSUME e.kind = TYPE_DIR PROVE t = e
      OBVIOUS
    <2>1. e.dest = <<>> /\ e.hash = <<>> /\ e.flags = 0
      BY EntryFields, Kinds
    <2> QED
      BY <1>0, <1>4, <2>1, SameEvent
  <1>9. e.kind = TYPE_DATA => [t EXCEPT !.hash = e.hash] = f
    <2> SUFFICES ASSUME e.kind = TYPE_DATA PROVE [t EXCEPT !.hash = e.hash] = f
      OBVIOUS
    <2>1. PICK g \in Event : g = [t EXCEPT !.hash = e.hash]
      BY <1>0, EventWith
    <2>2. /\ g.kind = t.kind /\ g.path = t.path /\ g.dest = t.dest
          /\ g.hash = e.hash /\ g.flags = t.flags /\ g.content = t.content
      BY <2>1 DEF Event
    <2>3. e.dest = <<>>
      BY EntryFields, Kinds
    <2>4. /\ g.kind = f.kind /\ g.path = f.path /\ g.dest = f.dest
          /\ g.hash = f.hash /\ g.flags = f.flags /\ g.content = f.content
      BY <1>4, <1>7, <2>2, <2>3
    <2>5. g = f
      BY <2>4, SameEvent, Zenon
    <2> QED
      BY <2>1, <2>5
  <1>10. e.kind = TYPE_LINK => [t EXCEPT !.dest = e.dest] = f
    <2> SUFFICES ASSUME e.kind = TYPE_LINK PROVE [t EXCEPT !.dest = e.dest] = f
      OBVIOUS
    <2>1. PICK g \in Event : g = [t EXCEPT !.dest = e.dest]
      BY <1>0, EventWith
    <2>2. /\ g.kind = t.kind /\ g.path = t.path /\ g.dest = e.dest
          /\ g.hash = t.hash /\ g.flags = t.flags /\ g.content = t.content
      BY <2>1 DEF Event
    <2>3. e.hash = <<>>
      BY EntryFields, Kinds
    <2>4. /\ g.kind = f.kind /\ g.path = f.path /\ g.dest = f.dest
          /\ g.hash = f.hash /\ g.flags = f.flags /\ g.content = f.content
      BY <1>4, <1>7, <2>2, <2>3
    <2>5. g = f
      BY <2>4, SameEvent, Zenon
    <2> QED
      BY <2>1, <2>5
  <1> QED
    BY <1>5, <1>6, <1>8, <1>9, <1>10

LEMMA EntryAdvances ==
    ASSUME NEW e, NEW r, EntryAt(rpc, part, len, e, r)
    PROVE  Advances(e, r)
  <1>0. /\ e \in Entry /\ Fits(e.path) /\ Fits(e.dest)
        /\ e \in Storable
    BY DEF EntryAt, Storable
  <1>1. /\ e.path \in Seq(Byte) /\ e.dest \in Seq(Byte)
        /\ e.hash \in Seq(Byte) /\ Fields(e) \in Seq(Byte)
        /\ Kind(e) \in Seq(Byte) /\ <<e.kind>> \in Seq(Byte)
        /\ U16(e.flags) \in Seq(Byte) /\ Len(U16(e.flags)) = 2
    BY <1>0, EntryFields, FieldsType, EntryTags, FlagBytes
  <1>2. CASE rpc = "path_len" /\ part = Blank /\ r = Body(e)
    <2>1. Body(e) = U16(Len(e.path)) \o (e.path \o Kind(e))
      BY <1>1, PrefixedThen DEF Body
    <2>2. ASSUME ReadField, Here = U16(Len(e.path))
          PROVE  Onward(e, e.path \o Kind(e))
      <3>1. /\ rpc' = "path" /\ part' = part /\ len' = Len(e.path)
            /\ UNCHANGED <<got, res, warned, valid, got_header>>
        BY <1>0, <1>1, <1>2, <2>2, LengthRead, LengthFits DEF Goto
      <3>2. EntryAt(rpc', part', len', e, e.path \o Kind(e))
        BY <1>0, <1>2, <3>1 DEF EntryAt
      <3> QED
        BY <3>1, <3>2 DEF Onward, Reads
    <2>3. e.path \o Kind(e) \in Seq(Byte)
      BY <1>1, ConcatProperties
    <2>4. Need = 2
      BY <1>2, NeedIs
    <2>5. U16(Len(e.path)) \in Seq(Byte) /\ Len(U16(Len(e.path))) = 2
      BY <1>0, <1>1, LengthFits
    <2> QED
      BY <1>2, <2>1, <2>2, <2>3, <2>4, <2>5, AdvanceBy
  <1>3. CASE /\ rpc = "path" /\ part = Blank /\ len = Len(e.path)
             /\ r = e.path \o Kind(e)
    <2>1. ASSUME ReadField, Here = e.path
          PROVE  Onward(e, Kind(e))
      <3>1. /\ rpc' = "kind" /\ part' = Named(e)
            /\ UNCHANGED <<got, res, warned, valid, got_header>>
        BY <1>3, <2>1, FieldRead DEF Goto, Named
      <3>2. EntryAt(rpc', part', len', e, Kind(e))
        BY <1>0, <3>1 DEF EntryAt
      <3> QED
        BY <3>1, <3>2 DEF Onward, Reads
    <2>2. Len(e.path) = Need
      BY <1>3, NeedIs
    <2> QED
      BY <1>1, <1>3, <2>1, <2>2, AdvanceBy
  <1>4. CASE rpc = "kind" /\ part = Named(e) /\ r = Kind(e)
    <2>1. ASSUME ReadField, Here = <<e.kind>>
          PROVE  Onward(e, Fields(e))
      <3>0. /\ Here[1] = e.kind /\ [part EXCEPT !.kind = e.kind] = Typed(e)
            /\ e.kind \in {TYPE_DATA, TYPE_LINK, TYPE_DIR}
        BY <1>0, <1>4, <2>1, EntryFields DEF Named, Typed
      <3>1. CASE e.kind = TYPE_DATA \/ e.kind = TYPE_LINK
        <4>1. ReadKind
          BY <1>4, <2>1, <3>0, <3>1, Kinds, FieldRead
                DEF ReadDirectory, ReadKindUnknown
        <4>2. /\ rpc' = IF e.kind = TYPE_DATA THEN "hash_id" ELSE "dest_len"
              /\ part' = Typed(e)
              /\ UNCHANGED <<got, res, warned, valid, got_header>>
          BY <3>0, <3>1, <4>1, Kinds DEF ReadKind, Goto
        <4>3. EntryAt(rpc', part', len', e, Fields(e))
          BY <1>0, <3>1, <4>2, Kinds DEF EntryAt
        <4> QED
          BY <4>2, <4>3 DEF Onward, Reads
      <3>2. CASE e.kind = TYPE_DIR
        <4>1. ReadDirectory
          BY <1>4, <2>1, <3>0, <3>2, Kinds, FieldRead
                DEF ReadKind, ReadKindUnknown
        <4>2. Deliver(Typed(e))
          BY <3>0, <3>2, <4>1 DEF ReadDirectory
        <4>3. Typed(e) = e
          BY <1>0, <3>2, TypedIs
        <4> QED
          BY <3>2, <4>2, <4>3, FieldsOf DEF Onward
      <3> QED
        BY <3>0, <3>1, <3>2
    <2>2. Need = 1 /\ Len(<<e.kind>>) = 1
      BY <1>4, NeedIs
    <2> QED
      BY <1>1, <1>4, <2>1, <2>2, AdvanceBy DEF Kind
  <1>5. CASE /\ rpc = "hash_id" /\ e.kind = TYPE_DATA
             /\ part = Typed(e) /\ r = Fields(e)
    <2>1. Fields(e) = <<1>> \o (e.hash \o U16(e.flags))
      BY <1>1, <1>5, FieldsOf, HashBytesThen
    <2>2. ASSUME ReadField, Here = << 1 >>
          PROVE  Onward(e, e.hash \o U16(e.flags))
      <3>1. /\ rpc' = "hash" /\ part' = part
            /\ UNCHANGED <<got, res, warned, valid, got_header>>
        BY <1>5, <2>2, FieldRead DEF ReadHashId, Goto
      <3>2. EntryAt(rpc', part', len', e, e.hash \o U16(e.flags))
        BY <1>0, <1>5, <3>1 DEF EntryAt
      <3> QED
        BY <3>1, <3>2 DEF Onward, Reads
    <2>3. e.hash \o U16(e.flags) \in Seq(Byte)
      BY <1>1, ConcatProperties
    <2>4. Need = 1
      BY <1>5, NeedIs
    <2> QED
      BY <1>5, <2>1, <2>2, <2>3, <2>4, Ones, AdvanceBy
  <1>6. CASE /\ rpc = "hash" /\ e.kind = TYPE_DATA
             /\ part = Typed(e) /\ r = e.hash \o U16(e.flags)
    <2>1. ASSUME ReadField, Here = e.hash
          PROVE  Onward(e, U16(e.flags))
      <3>0. part.kind = TYPE_DATA
        BY <1>6 DEF Typed, Blank
      <3>1. /\ rpc' = "flags" /\ part' = [part EXCEPT !.hash = e.hash]
            /\ UNCHANGED <<got, res, warned, valid, got_header>>
        BY <1>6, <2>1, <3>0, FieldRead DEF ReadHash, Goto
      <3>2. part' = [e EXCEPT !.flags = 0]
        BY <1>0, <1>6, <3>1, TypedIs
      <3>3. EntryAt(rpc', part', len', e, U16(e.flags))
        BY <1>0, <3>1, <3>2 DEF EntryAt
      <3> QED
        BY <3>1, <3>3 DEF Onward, Reads
    <2>2. Len(e.hash) = Need
      BY <1>0, <1>6, NeedIs, EntryFields
    <2> QED
      BY <1>1, <1>6, <2>1, <2>2, AdvanceBy
  <1>7. CASE /\ rpc = "dest_len" /\ e.kind = TYPE_LINK
             /\ part = Typed(e) /\ r = Fields(e)
    <2>1. Fields(e) = U16(Len(e.dest)) \o (e.dest \o U16(e.flags))
      BY <1>1, <1>7, FieldsOf, PrefixedThen
    <2>2. ASSUME ReadField, Here = U16(Len(e.dest))
          PROVE  Onward(e, e.dest \o U16(e.flags))
      <3>1. /\ rpc' = "dest" /\ part' = part /\ len' = Len(e.dest)
            /\ UNCHANGED <<got, res, warned, valid, got_header>>
        BY <1>0, <1>1, <1>7, <2>2, LengthRead, LengthFits DEF Goto
      <3>2. EntryAt(rpc', part', len', e, e.dest \o U16(e.flags))
        BY <1>0, <1>7, <3>1 DEF EntryAt
      <3> QED
        BY <3>1, <3>2 DEF Onward, Reads
    <2>3. e.dest \o U16(e.flags) \in Seq(Byte)
      BY <1>1, ConcatProperties
    <2>4. Need = 2
      BY <1>7, NeedIs
    <2>5. U16(Len(e.dest)) \in Seq(Byte) /\ Len(U16(Len(e.dest))) = 2
      BY <1>0, <1>1, LengthFits
    <2> QED
      BY <1>7, <2>1, <2>2, <2>3, <2>4, <2>5, AdvanceBy
  <1>8. CASE /\ rpc = "dest" /\ e.kind = TYPE_LINK /\ len = Len(e.dest)
             /\ part = Typed(e) /\ r = e.dest \o U16(e.flags)
    <2>1. ASSUME ReadField, Here = e.dest
          PROVE  Onward(e, U16(e.flags))
      <3>1. /\ rpc' = "flags" /\ part' = [part EXCEPT !.dest = e.dest]
            /\ UNCHANGED <<got, res, warned, valid, got_header>>
        BY <1>8, <2>1, FieldRead DEF Goto
      <3>2. part' = [e EXCEPT !.flags = 0]
        BY <1>0, <1>8, <3>1, TypedIs
      <3>3. EntryAt(rpc', part', len', e, U16(e.flags))
        BY <1>0, <3>1, <3>2 DEF EntryAt
      <3> QED
        BY <3>1, <3>3 DEF Onward, Reads
    <2>2. Len(e.dest) = Need
      BY <1>8, NeedIs
    <2> QED
      BY <1>1, <1>8, <2>1, <2>2, AdvanceBy
  <1>9. CASE rpc = "flags" /\ part = [e EXCEPT !.flags = 0] /\ r = U16(e.flags)
    <2>1. ASSUME ReadField, Here = U16(e.flags)
          PROVE  Onward(e, <<>>)
      <3>1. Deliver([part EXCEPT !.flags = Flags(FromU16(U16(e.flags)))])
        BY <1>9, <2>1, FieldRead
      <3>2. Flags(FromU16(U16(e.flags))) = e.flags
        <4>1. e.flags \in 0..1 /\ e.flags \in 0..MAX_LENGTH
          BY <1>0, EntryFields, MaxLengthType
        <4> QED
          BY <4>1, U16Value DEF Flags
      <3>3. [part EXCEPT !.flags = e.flags] = e
        BY <1>0, <1>9, EntryFields
      <3> QED
        BY <3>1, <3>2, <3>3 DEF Onward
    <2>2. Need = 2
      BY <1>9, NeedIs
    <2>3. U16(e.flags) \o <<>> = U16(e.flags)
      BY <1>1, ConcatEmptySeq
    <2> QED
      BY <1>1, <1>9, <2>1, <2>2, <2>3, Ones, AdvanceBy
  <1> QED
    BY <1>2, <1>3, <1>4, <1>5, <1>6, <1>7, <1>8, <1>9 DEF EntryAt

\* The chunk behind the first c.
LEMMA PieceAt ==
    ASSUME NEW b \in Blob, NEW f, NEW g, Pieces(b, f, g),
           NEW c \in 0..Len(b.chunks), c < Len(b.chunks)
    PROVE  /\ c + 1 \in 0..Len(b.chunks)
           /\ b.chunks[c + 1] \in Seq(Byte)
           /\ Len(b.chunks[c + 1]) \in 1..MAX_LENGTH
           /\ Prefixed(b.chunks[c + 1]) \in Seq(Byte)
           /\ g[c + 1] \in Seq(Byte) /\ g[c + 1] \o End(b) \in Seq(Byte)
  <1>1. Len(b.chunks) \in Nat
    BY BlobFields
  <1>2. PICK k \in 1..Len(b.chunks) :
          k = c + 1 /\ k - 1 = c /\ k \in 0..Len(b.chunks)
    BY <1>1
  <1>3. /\ b.chunks[k] \in Seq(Byte) /\ Len(b.chunks[k]) \in 1..MAX_LENGTH
        /\ Prefixed(b.chunks[k]) \in Seq(Byte)
    BY <1>2, BlobFields
  <1>4. \A i \in 0..Len(b.chunks) : g[i] \in Seq(Byte)
    BY DEF Pieces, Backs
  <1>5. g[k] \in Seq(Byte) /\ g[k] \o End(b) \in Seq(Byte)
    BY <1>2, <1>4, BlobFields, ConcatProperties
  <1> QED
    BY <1>2, <1>3, <1>5

LEMMA BlobAdvances ==
    ASSUME NEW e, NEW r, BlobAt(rpc, part, len, e, r)
    PROVE  Advances(e, r)
  <1>0. PICK b \in Blob : \E f, g : PieceOf(rpc, part, len, e, r, b, f, g)
    BY DEF BlobAt
  <1>1. PICK f, g : PieceOf(rpc, part, len, e, r, b, f, g)
    BY <1>0
  <1> DEFINE n == Len(b.chunks)
             d(c) == b.chunks[c + 1]
  <1>2. /\ n \in Nat /\ Pieces(b, f, g)
        /\ e = [Holding(f[n]) EXCEPT !.hash = b.hash]
        /\ b.hash \in Seq(Byte) /\ Len(b.hash) = HashLen
        /\ End(b) \in Seq(Byte)
        /\ n \in 0..n /\ 0 \in 0..n
    BY <1>1, BlobFields DEF PieceOf
  <1>3. ASSUME NEW c \in 0..n, c < n
        PROVE  /\ c + 1 \in 0..n /\ d(c) \in Seq(Byte)
               /\ Len(d(c)) \in 1..MAX_LENGTH /\ Prefixed(d(c)) \in Seq(Byte)
               /\ g[c + 1] \in Seq(Byte) /\ g[c + 1] \o End(b) \in Seq(Byte)
               /\ g[c] = Prefixed(d(c)) \o g[c + 1]
               /\ f[c + 1] = f[c] \o d(c)
    <2>1. c + 1 \in 0..n /\ d(c) \in Seq(Byte)
      BY <1>2, <1>3, PieceAt, Zenon
    <2>2. Len(d(c)) \in 1..MAX_LENGTH /\ Prefixed(d(c)) \in Seq(Byte)
      BY <1>2, <1>3, PieceAt, Zenon
    <2>3. g[c + 1] \in Seq(Byte) /\ g[c + 1] \o End(b) \in Seq(Byte)
      BY <1>2, <1>3, PieceAt, Zenon
    <2>4. PICK k \in 1..n : k = c + 1 /\ k - 1 = c
      BY <1>2, <1>3
    <2>5. g[k - 1] = Prefixed(b.chunks[k]) \o g[k]
      BY <1>2 DEF Pieces, Backs, Framed
    <2>6. f[k] = f[k - 1] \o b.chunks[k]
      BY <1>2 DEF Pieces, Fronts
    <2> QED
      BY <2>1, <2>2, <2>3, <2>4, <2>5, <2>6
  <1>4. ASSUME NEW c \in 0..n,
               rpc = "chunk_len", part = Holding(f[c]), r = g[c] \o End(b)
        PROVE  Advances(e, r)
    <2>1. CASE c < n
      <3> DEFINE s == d(c) \o (g[c + 1] \o End(b))
      <3>1. /\ d(c) \in Seq(Byte) /\ Len(d(c)) \in 1..MAX_LENGTH
            /\ Prefixed(d(c)) \in Seq(Byte) /\ g[c + 1] \in Seq(Byte)
            /\ g[c + 1] \o End(b) \in Seq(Byte)
            /\ g[c] = Prefixed(d(c)) \o g[c + 1]
        BY <1>3, <2>1
      <3>2. Fits(d(c))
        BY <3>1, MaxLengthType DEF Fits
      <3>3. r = U16(Len(d(c))) \o s
        <4>1. PICK x \in Seq(Byte), y \in Seq(Byte) : x = g[c + 1] /\ y = End(b)
          BY <1>2, <3>1
        <4>2. (Prefixed(d(c)) \o x) \o y = Prefixed(d(c)) \o (x \o y)
          <5>1. PICK p \in Seq(Byte) : p = Prefixed(d(c))
            BY <3>1
          <5>2. (p \o x) \o y = p \o (x \o y)
            BY ConcatAssociative
          <5> QED
            BY <5>1, <5>2
        <4>3. Prefixed(d(c)) \o (g[c + 1] \o End(b)) = U16(Len(d(c))) \o s
          BY <3>1, PrefixedThen
        <4> QED
          BY <1>4, <3>1, <4>1, <4>2, <4>3
      <3>4. s \in Seq(Byte)
        BY <3>1, ConcatProperties
      <3>5. ASSUME ReadField, Here = U16(Len(d(c))) PROVE Onward(e, s)
        <4>1. ReadChunkLength /\ FromU16(Here) = Len(d(c)) /\ Len(d(c)) # 0
          BY <1>4, <3>1, <3>2, <3>5, FieldRead, LengthFits
        <4>2. /\ rpc' = "chunk" /\ part' = part /\ len' = Len(d(c))
              /\ UNCHANGED <<got, res, warned, valid, got_header>>
          BY <4>1 DEF ReadChunkLength, Goto
        <4>3. BlobAt(rpc', part', len', e, s)
          BY <1>2, <1>4, <2>1, <4>2 DEF BlobAt, PieceOf
        <4> QED
          BY <4>2, <4>3 DEF Onward, Reads
      <3>6. /\ Need = 2 /\ U16(Len(d(c))) \in Seq(Byte)
            /\ Len(U16(Len(d(c)))) = 2
        BY <1>4, <3>1, <3>2, NeedIs, LengthFits
      <3> HIDE DEF s
      <3> QED
        BY <3>3, <3>4, <3>5, <3>6, AdvanceBy
    <2>2. CASE c = n
      <3>1. r = U16(0) \o HashBytes(b.hash)
        <4>1. g[c] = <<>>
          BY <1>2, <2>2, PiecesType
        <4> QED
          BY <1>2, <1>4, <4>1, ConcatEmptySeq DEF End
      <3>2. HashBytes(b.hash) \in Seq(Byte)
        BY <1>2, Ones, HashBytesThen
      <3>3. /\ Need = 2 /\ U16(0) \in Seq(Byte) /\ Len(U16(0)) = 2
            /\ FromU16(U16(0)) = 0
        BY <1>4, NeedIs, U16Type, U16Value, MaxLengthType
      <3>4. ASSUME ReadField, Here = U16(0) PROVE Onward(e, HashBytes(b.hash))
        <4>1. ReadChunkLength
          BY <1>4, <3>4, FieldRead
        <4>2. /\ rpc' = "hash_id" /\ part' = part
              /\ UNCHANGED <<got, res, warned, valid, got_header>>
          BY <3>3, <3>4, <4>1 DEF ReadChunkLength, Goto
        <4>3. BlobAt(rpc', part', len', e, HashBytes(b.hash))
          BY <1>2, <1>4, <2>2, <4>2 DEF BlobAt, PieceOf
        <4> QED
          BY <4>2, <4>3 DEF Onward, Reads
      <3> QED
        BY <3>1, <3>2, <3>3, <3>4, AdvanceBy
    <2> QED
      BY <1>2, <2>1, <2>2
  <1>5. ASSUME NEW c \in 0..n, rpc = "chunk", part = Holding(f[c]), c < n,
               len = Len(b.chunks[c + 1]),
               r = b.chunks[c + 1] \o (g[c + 1] \o End(b))
        PROVE  Advances(e, r)
    <2>1. /\ b.chunks[c + 1] \in Seq(Byte) /\ c + 1 \in 0..n
          /\ g[c + 1] \o End(b) \in Seq(Byte)
          /\ f[c + 1] = f[c] \o b.chunks[c + 1]
      BY <1>5, <1>3
    <2>2. Len(b.chunks[c + 1]) = Need
      BY <1>5, NeedIs
    <2>3. ASSUME ReadField, Here = b.chunks[c + 1]
          PROVE  Onward(e, g[c + 1] \o End(b))
      <3>1. /\ rpc' = "chunk_len" /\ part' = [part EXCEPT !.content = @ \o Here]
            /\ UNCHANGED <<got, res, warned, valid, got_header>>
        BY <1>5, <2>3, FieldRead DEF Goto
      <3>2. part' = Holding(f[c + 1])
        BY <1>5, <2>1, <2>3, <3>1 DEF Holding, Blank
      <3>3. BlobAt(rpc', part', len', e, g[c + 1] \o End(b))
        BY <1>2, <2>1, <3>1, <3>2 DEF BlobAt, PieceOf
      <3> QED
        BY <3>1, <3>3 DEF Onward, Reads
    <2> QED
      BY <1>5, <2>1, <2>2, <2>3, AdvanceBy
  <1>6. ASSUME rpc = "hash_id", part = Holding(f[n]), r = HashBytes(b.hash)
        PROVE  Advances(e, r)
    <2>1. r = <<1>> \o b.hash
      BY <1>6 DEF HashBytes
    <2>2. ASSUME ReadField, Here = << 1 >> PROVE Onward(e, b.hash)
      <3>1. /\ rpc' = "hash" /\ part' = part
            /\ UNCHANGED <<got, res, warned, valid, got_header>>
        BY <1>6, <2>2, FieldRead DEF ReadHashId, Goto
      <3>2. BlobAt(rpc', part', len', e, b.hash)
        BY <1>2, <1>6, <3>1 DEF BlobAt, PieceOf
      <3> QED
        BY <3>1, <3>2 DEF Onward, Reads
    <2>3. Need = 1
      BY <1>6, NeedIs
    <2> QED
      BY <1>2, <2>1, <2>2, <2>3, Ones, AdvanceBy
  <1>7. ASSUME rpc = "hash", part = Holding(f[n]), r = b.hash
        PROVE  Advances(e, r)
    <2>1. ASSUME ReadField, Here = b.hash PROVE Onward(e, <<>>)
      <3>1. part.kind # TYPE_DATA
        BY <1>7 DEF Holding, Blank, TYPE_DATA
      <3>2. Deliver([part EXCEPT !.hash = b.hash])
        BY <1>7, <2>1, <3>1, FieldRead DEF ReadHash
      <3> QED
        BY <1>2, <1>7, <3>2 DEF Onward
    <2>2. Need = HashLen /\ b.hash \o <<>> = b.hash
      BY <1>2, <1>7, NeedIs, ConcatEmptySeq
    <2> QED
      BY <1>2, <1>7, <2>1, <2>2, Ones, AdvanceBy
  <1> QED
    BY <1>1, <1>4, <1>5, <1>6, <1>7 DEF PieceOf

\* What a reader is reading goes on, or is complete, when the read that is next
\* has got its bytes.
LEMMA EventAdvances ==
    ASSUME NEW e, NEW r, Reads(rpc, part, len, e, r)
    PROVE  Advances(e, r)
  BY EntryAdvances, BlobAdvances DEF Reads

-----------------------------------------------------------------------------
(* Types *)

\* What a read takes are bytes, and what it leaves.
LEMMA TakenType ==
    ASSUME TypeOK, NEW pc, Take(pc)
    PROVE  /\ rpc = pc /\ Len(wire) >= Need /\ Need \in Nat
           /\ Here \in Seq(Byte) /\ Len(Here) = Need
           /\ wire' = SubSeq(wire, Need + 1, Len(wire)) /\ wire' \in Seq(Byte)
           /\ UNCHANGED <<lost, interrupts, wvars>>
           /\ UNCHANGED <<wst, begun, sent, torn>>
  <1>1. /\ rpc = pc /\ Len(wire) >= Need
        /\ wire' = SubSeq(wire, Need + 1, Len(wire))
        /\ UNCHANGED <<lost, interrupts, wvars>>
    BY DEF Take
  <1>2. wire \in Seq(Byte) /\ Len(wire) \in Nat /\ len \in Nat
    BY MaxLengthType DEF TypeOK
  <1>3. Need \in Nat
    <2>1. Len(Header) \in Nat /\ HashLen \in Nat
      BY SmallBytes, HashLenAssumption
    <2> QED
      BY <1>2, <2>1 DEF Need
  <1> DEFINE n == Need
  <1> HIDE DEF n
  <1>4. SubSeq(wire, 1, n) \in Seq(Byte) /\ Len(SubSeq(wire, 1, n)) = n
    <2>1. n \in Nat /\ n <= Len(wire) /\ \A i \in 1..n : wire[i] \in Byte
      BY <1>1, <1>2, <1>3 DEF n
    <2>2. /\ SubSeq(wire, 1, n) \in Seq(Byte)
          /\ Len(SubSeq(wire, 1, n)) = IF 1 <= n THEN n - 1 + 1 ELSE 0
      BY <1>2, <2>1, SubSeqProperties
    <2> QED
      BY <2>1, <2>2
  <1>5. SubSeq(wire, n + 1, Len(wire)) \in Seq(Byte)
    <2>1. n \in Nat /\ \A i \in (n + 1)..Len(wire) : wire[i] \in Byte
      BY <1>2, <1>3 DEF n
    <2> QED
      BY <1>2, <2>1, SubSeqProperties
  <1> QED
    BY <1>1, <1>3, <1>4, <1>5 DEF n, Here, wvars

\* The first n of some bytes are bytes.
LEMMA FrontType ==
    ASSUME NEW S, NEW b \in Seq(S), NEW n \in 0..Len(b)
    PROVE  SubSeq(b, 1, n) \in Seq(S)
  <1>1. n \in Nat /\ \A i \in 1..n : b[i] \in S
    OBVIOUS
  <1> QED
    BY <1>1, SubSeqProperties

\* So are the bytes of what callers write.
LEMMA RefusedType ==
    ASSUME NEW e \in Entry
    PROVE  RefusedBytes(e) \in Seq(Byte)
  <1>1. /\ <<ENTRY_ENTRY>> \in Seq(Byte) /\ <<TYPE_LINK>> \in Seq(Byte)
        /\ Prefixed(e.path) \in Seq(Byte)
    BY Ones, FieldsType DEF ENTRY_ENTRY, TYPE_LINK
  <1>2. <<ENTRY_ENTRY>> \o Prefixed(e.path) \in Seq(Byte)
    BY <1>1, ConcatProperties
  <1>3. (<<ENTRY_ENTRY>> \o Prefixed(e.path)) \o <<TYPE_LINK>> \in Seq(Byte)
    BY <1>1, <1>2, ConcatProperties
  <1> QED
    BY <1>1, <1>3 DEF RefusedBytes

\* Every step of the Writer keeps them.
LEMMA WriterTypes ==
    ASSUME TypeOK, WriterStep
    PROVE  TypeOK'
  <1> USE DEF TypeOK
  <1>0. /\ \A a \in Seq(Byte), b \in Seq(Byte) : a \o b \in Seq(Byte)
        /\ \A s \in Seq(Event), e \in Event : Append(s, e) \in Seq(Event)
    BY ConcatProperties
  <1>1. ASSUME NEW e \in Event, NEW x \in Seq(Byte), Written(e, x)
        PROVE  TypeOK'
    <2>1. wire' \in Seq(Byte) /\ sent' \in Seq(Event)
      BY <1>0, <1>1 DEF Written, Put
    <2>2. begun' \in 0..MaxEvents
      BY <1>1, BoundAssumption DEF Written
    <2> QED
      BY <1>1, <2>1, <2>2 DEF Written, rvars
  <1>2. ASSUME NEW x \in Seq(Byte), NEW n \in 0..Len(x), Broken(x, n),
               wst' \in {"open", "closed"}
        PROVE  TypeOK'
    <2>1. wire' \in Seq(Byte)
      BY <1>0, <1>2, FrontType DEF Broken, Put
    <2>2. begun' \in 0..MaxEvents
      BY <1>2, BoundAssumption DEF Broken
    <2>3. torn' \in {"no", "end", "mid"}
      BY <1>2 DEF Broken
    <2> QED
      BY <1>2, <2>1, <2>2, <2>3 DEF Broken, rvars
  <1>3. CASE New
    <2>1. wire' \in Seq(Byte)
      BY <1>0, <1>3, SmallBytes DEF New, Put
    <2> QED
      BY <1>3, <2>1 DEF New, rvars
  <1>4. CASE NewFail
    <2>1. wire' \in Seq(Byte)
      <3>1. PICK n \in 0..(Len(Header) - 1) :
                   wire' = wire \o SubSeq(Header, 1, n)
        BY <1>4 DEF NewFail, Put
      <3>2. n \in 0..Len(Header)
        BY SmallBytes
      <3> QED
        BY <1>0, <3>1, <3>2, SmallBytes, FrontType
    <2> QED
      BY <1>4, <2>1 DEF NewFail, rvars
  <1>5. CASE Close
    BY <1>5 DEF Close, rvars
  <1>6. ASSUME NEW e \in Entries,
               WriteEntry(e) \/ RefuseEntry(e) \/ WriteEntryFail(e)
        PROVE  TypeOK'
    <2>1. /\ e \in Entry /\ e \in Event /\ EntryBytes(e) \in Seq(Byte)
          /\ RefusedBytes(e) \in Seq(Byte)
      BY EntriesAssumption, EntryShape, RefusedType DEF Entry
    <2>2. CASE WriteEntry(e)
      BY <1>1, <2>1, <2>2 DEF WriteEntry
    <2>3. CASE RefuseEntry(e)
      <3>1. Len(RefusedBytes(e)) \in 0..Len(RefusedBytes(e))
        BY <2>1
      <3>2. wst = "open"
        BY <2>3 DEF RefuseEntry, Broken
      <3> QED
        BY <1>2, <2>1, <2>3, <3>1, <3>2 DEF RefuseEntry
    <2>4. CASE WriteEntryFail(e)
      <3>1. PICK n \in 0..(Len(EntryBytes(e)) - 1) : Broken(EntryBytes(e), n)
        BY <2>4 DEF WriteEntryFail
      <3>2. n \in 0..Len(EntryBytes(e))
        BY <2>1
      <3>3. wst' = wst /\ wst = "open"
        BY <2>4, <3>1 DEF WriteEntryFail, Broken
      <3> QED
        BY <1>2, <2>1, <3>1, <3>2, <3>3
    <2> QED
      BY <1>6, <2>2, <2>3, <2>4
  <1>7. ASSUME NEW b \in Blobs, WriteBlob(b) \/ WriteBlobFail(b)
        PROVE  TypeOK'
    <2>1. BlobEvent(b) \in Event /\ BlobBytes(b) \in Seq(Byte)
      BY BlobsAssumption, BlobType
    <2>2. CASE WriteBlob(b)
      BY <1>1, <2>1, <2>2 DEF WriteBlob
    <2>3. CASE WriteBlobFail(b)
      <3>1. PICK n \in 0..(Len(BlobBytes(b)) - 1) : Broken(BlobBytes(b), n)
        BY <2>3 DEF WriteBlobFail
      <3>2. n \in 0..Len(BlobBytes(b))
        BY <2>1
      <3>3. wst' = "closed"
        BY <2>3 DEF WriteBlobFail
      <3> QED
        BY <1>2, <2>1, <3>1, <3>2, <3>3
    <2> QED
      BY <1>7, <2>2, <2>3
  <1> QED
    BY <1>3, <1>4, <1>5, <1>6, <1>7 DEF WriterStep

\* What stays as it is when a call of the reader ends or goes on.
LEMMA ReturnTypes ==
    ASSUME TypeOK, NEW r \in {"event", "none", "eof", "failed", "invalid"},
           Return(r), wire' \in Seq(Byte), got' \in Seq(Event),
           {valid', got_header', lost'} \subseteq BOOLEAN,
           interrupts' \in 0..MaxInterrupts,
           UNCHANGED <<wst, begun, sent, torn>>
    PROVE  TypeOK'
  <1>1. warned' \in BOOLEAN
    BY DEF Return, TypeOK
  <1>2. part' \in Event /\ len' \in 0..MAX_LENGTH
    BY BlankType, MaxLengthType DEF Return
  <1> QED
    BY <1>1, <1>2 DEF Return, TypeOK

LEMMA GotoTypes ==
    ASSUME TypeOK, UNCHANGED <<got, res, warned>>,
           rpc' \in {"idle", "header", "tag", "path_len", "path", "kind",
                     "hash_id", "hash", "dest_len", "dest", "flags",
                     "chunk_len", "chunk"},
           wire' \in Seq(Byte), part' \in Event, len' \in 0..MAX_LENGTH,
           {valid', got_header', lost'} \subseteq BOOLEAN,
           interrupts' \in 0..MaxInterrupts,
           UNCHANGED <<wst, begun, sent, torn>>
    PROVE  TypeOK'
  BY DEF TypeOK

LEMMA ReaderTypes ==
    ASSUME TypeOK, ReaderStep \/ Interrupt
    PROVE  TypeOK'
  <1>0. /\ {valid, got_header, lost} \subseteq BOOLEAN
        /\ interrupts \in 0..MaxInterrupts /\ got \in Seq(Event)
        /\ part \in Event /\ len \in 0..MAX_LENGTH /\ wire \in Seq(Byte)
    BY DEF TypeOK
  <1> DEFINE Took == /\ wire' \in Seq(Byte) /\ Here \in Seq(Byte)
                     /\ lost' = lost /\ interrupts' = interrupts
                     /\ UNCHANGED <<wst, begun, sent, torn>>
  <1>1. ASSUME NEW e \in Event, Deliver(e), Took
        PROVE  TypeOK'
    <2>1. got' \in Seq(Event)
      BY <1>0, <1>1 DEF Deliver
    <2> QED
      BY <1>0, <1>1, <2>1, ReturnTypes DEF Deliver
  <1>2. ASSUME Invalidate, Took
        PROVE  TypeOK'
    BY <1>0, <1>2, ReturnTypes DEF Invalidate
  <1>3. ASSUME NEW pc \in {"tag", "path_len", "path", "kind", "hash_id",
                           "hash", "dest_len", "dest", "flags", "chunk_len",
                           "chunk"},
               Goto(pc), Took, part' \in Event, len' \in 0..MAX_LENGTH
        PROVE  TypeOK'
    BY <1>0, <1>3, GotoTypes DEF Goto
  <1>4. ASSUME NEW pc, Take(pc)
        PROVE  Took /\ Len(Here) = Need /\ rpc = pc
    BY <1>4, TakenType
  <1> HIDE DEF Took
  <1>5. CASE NextEvent
    <2>1. CASE valid
      <3>1. rpc' \in {"tag", "header"}
        BY <1>5, <2>1 DEF NextEvent
      <3> QED
        BY <1>0, <1>5, <2>1, <3>1, GotoTypes DEF NextEvent, wvars
    <2>2. CASE ~valid
      BY <1>0, <1>5, <2>2, ReturnTypes DEF NextEvent, wvars
    <2> QED
      BY <2>1, <2>2
  <1>6. CASE ReadHeader
    <2>1. Took
      BY <1>4, <1>6 DEF ReadHeader
    <2>2. CASE Here = Header
      BY <1>0, <1>6, <2>1, <2>2, GotoTypes DEF ReadHeader, Took
    <2>3. CASE Here # Header
      BY <1>2, <1>6, <2>1, <2>3 DEF ReadHeader
    <2> QED
      BY <2>2, <2>3
  <1>7. CASE ReadTag
    <2>1. Took
      BY <1>4, <1>7 DEF ReadTag
    <2>2. Invalidate \/ /\ Goto("chunk_len") \/ Goto("path_len")
                        /\ UNCHANGED <<part, len>>
      BY <1>7 DEF ReadTag
    <2> QED
      BY <1>0, <1>2, <1>3, <2>1, <2>2
  <1>8. CASE ReadLength
    <2>1. PICK f \in {<<"path_len", "path">>, <<"dest_len", "dest">>} :
            /\ Take(f[1]) /\ len' = FromU16(Here)
            /\ Goto(f[2]) /\ UNCHANGED part
      BY <1>8 DEF ReadLength
    <2>2. f[2] \in {"path", "dest"} /\ f[1] \in {"path_len", "dest_len"}
      OBVIOUS
    <2>3. Took /\ Here \in Seq(Byte) /\ Len(Here) = Need /\ rpc = f[1]
      BY <1>4, <2>1 DEF Took
    <2>4. Need = 2
      BY <2>2, <2>3, NeedIs
    <2>5. len' \in 0..MAX_LENGTH
      BY <2>1, <2>3, <2>4, FromU16Type
    <2> QED
      BY <1>0, <1>3, <2>1, <2>2, <2>3, <2>5
  <1>9. CASE ReadPath \/ ReadDest
    <2>1. Took /\ Here \in Seq(Byte)
      BY <1>4, <1>9 DEF ReadPath, ReadDest, Took
    <2>2. part' \in Event /\ len' = len /\ (Goto("kind") \/ Goto("flags"))
      BY <1>0, <1>9, <2>1, EventWith DEF ReadPath, ReadDest
    <2> QED
      BY <1>0, <1>3, <2>1, <2>2
  <1>10. CASE ReadKind
    <2>1. Took
      BY <1>4, <1>10 DEF ReadKind
    <2>2. Here[1] \in 0..3 /\ (Goto("hash_id") \/ Goto("dest_len"))
      BY <1>10 DEF ReadKind, TYPE_DATA, TYPE_LINK
    <2>3. part' \in Event /\ len' = len
      BY <1>0, <1>10, <2>2, EventWith DEF ReadKind
    <2> QED
      BY <1>0, <1>3, <2>1, <2>2, <2>3
  <1>11. CASE ReadDirectory
    <2>1. Took
      BY <1>4, <1>11 DEF ReadDirectory
    <2>2. TYPE_DIR \in 0..3
      BY DEF TYPE_DIR
    <2>3. [part EXCEPT !.kind = TYPE_DIR] \in Event
      BY <1>0, <2>2, EventWith
    <2> QED
      BY <1>1, <1>11, <2>1, <2>3 DEF ReadDirectory
  <1>12. CASE ReadKindUnknown
    BY <1>2, <1>4, <1>12 DEF ReadKindUnknown
  <1>13. CASE ReadHashId
    <2>1. Took
      BY <1>4, <1>13 DEF ReadHashId
    <2>2. Invalidate \/ (Goto("hash") /\ UNCHANGED <<part, len>>)
      BY <1>13 DEF ReadHashId
    <2> QED
      BY <1>0, <1>2, <1>3, <2>1, <2>2
  <1>14. CASE ReadHash
    <2>1. Took /\ Here \in Seq(Byte)
      BY <1>4, <1>14 DEF ReadHash, Took
    <2>2. [part EXCEPT !.hash = Here] \in Event
      BY <1>0, <2>1, EventWith
    <2>3. \/ Deliver([part EXCEPT !.hash = Here])
          \/ /\ Goto("flags") /\ len' = len
             /\ part' = [part EXCEPT !.hash = Here]
      BY <1>14 DEF ReadHash
    <2> QED
      BY <1>0, <1>1, <1>3, <2>1, <2>2, <2>3
  <1>15. CASE ReadFlags
    <2>1. Took /\ Here \in Seq(Byte) /\ Len(Here) = 2
      BY <1>4, <1>15, NeedIs DEF ReadFlags, Took
    <2>2. FromU16(Here) \in Nat
      BY <2>1, FromU16Type, MaxLengthType
    <2>3. Flags(FromU16(Here)) \in 0..1
      BY <2>2 DEF Flags
    <2>4. [part EXCEPT !.flags = Flags(FromU16(Here))] \in Event
      BY <1>0, <2>3, EventWith
    <2> QED
      BY <1>1, <1>15, <2>1, <2>4 DEF ReadFlags
  <1>16. CASE ReadChunkLength
    <2>1. Took /\ Here \in Seq(Byte) /\ Len(Here) = 2
      BY <1>4, <1>16, NeedIs DEF ReadChunkLength, Took
    <2>2. len' \in 0..MAX_LENGTH
      BY <1>16, <2>1, FromU16Type DEF ReadChunkLength
    <2>3. (Goto("hash_id") \/ Goto("chunk")) /\ part' = part
      BY <1>16 DEF ReadChunkLength
    <2> QED
      BY <1>0, <1>3, <2>1, <2>2, <2>3
  <1>17. CASE ReadChunk
    <2>1. Took /\ Here \in Seq(Byte)
      BY <1>4, <1>17 DEF ReadChunk, Took
    <2>2. part.content \o Here \in Seq(Byte)
      BY <1>0, <2>1, ConcatProperties DEF Event
    <2>3. /\ part' = [part EXCEPT !.content = part.content \o Here]
          /\ len' = len /\ Goto("chunk_len")
      BY <1>17 DEF ReadChunk
    <2>4. part' \in Event
      BY <1>0, <2>2, <2>3, EventWith
    <2> QED
      BY <1>0, <1>3, <2>1, <2>3, <2>4
  <1>18. CASE EndOfStream
    BY <1>0, <1>18, ReturnTypes DEF EndOfStream, wvars
  <1>19. CASE UnexpectedEof
    <2>1. wire' \in Seq(Byte)
      BY <1>19, Ones DEF UnexpectedEof
    <2> QED
      BY <1>0, <1>19, <2>1, ReturnTypes DEF UnexpectedEof, wvars
  <1>20. CASE Interrupt
    <2>1. /\ Return("failed") /\ interrupts' = interrupts + 1
          /\ interrupts < MaxInterrupts
          /\ UNCHANGED <<valid, got_header, got>>
          /\ UNCHANGED <<wst, begun, sent, torn>>
      BY <1>20 DEF Interrupt, wvars
    <2>2. PICK k \in 0..Least(Need - 1, Len(wire)) :
            /\ wire' = SubSeq(wire, k + 1, Len(wire))
            /\ lost' = (lost \/ ~(rpc \in {"header", "tag"} /\ k = 0))
      BY <1>20 DEF Interrupt
    <2>3. k \in Nat
      OBVIOUS
    <2>4. wire' \in Seq(Byte)
      <3>1. \A i \in (k + 1)..Len(wire) : wire[i] \in Byte
        BY <1>0, <2>3
      <3> QED
        BY <1>0, <2>2, <2>3, <3>1, SubSeqProperties
    <2>5. interrupts' \in 0..MaxInterrupts /\ lost' \in BOOLEAN
      BY <1>0, <2>1, <2>2, BoundAssumption
    <2> QED
      BY <1>0, <2>1, <2>4, <2>5, ReturnTypes
  <1> QED
    BY <1>5, <1>6, <1>7, <1>8, <1>9, <1>10, <1>11, <1>12, <1>13, <1>14,
       <1>15, <1>16, <1>17, <1>18, <1>19, <1>20 DEF ReaderStep

LEMMA TypesInitially == Init => TypeOK
  <1>1. 0 \in 0..MaxEvents /\ 0 \in 0..MaxInterrupts /\ 0 \in 0..MAX_LENGTH
    BY BoundAssumption, MaxLengthType
  <1>2. <<>> \in Seq(Byte) /\ <<>> \in Seq(Event)
    BY EmptySeq
  <1> QED
    BY <1>1, <1>2, BlankType DEF Init, TypeOK

LEMMA TypesKept == TypeOK /\ [Next]_vars => TypeOK'
  <1>1. TypeOK /\ UNCHANGED vars => TypeOK'
    BY DEF TypeOK, vars
  <1> QED
    BY <1>1, WriterTypes, ReaderTypes DEF Next

\* Whatever is written and whoever gives up, every state has the types TypeOK
\* names: a length that was read has sixteen bits, and what next_event hands
\* out are events.
THEOREM ArchiveTyped == Spec => []TypeOK
  BY TypesInitially, TypesKept, PTL DEF Spec

-----------------------------------------------------------------------------
(* The bytes on the wire *)

\* x are the bytes of the event e.
Encodes(e, x) == \/ e \in Storable /\ x = EntryBytes(e)
                 \/ \E b \in Blob : e = BlobEvent(b) /\ x = BlobBytes(b)

\* The reader is about to read the tag of e, or is inside e, and r are the
\* bytes of e that it has not got.
Reading(e, r) == \/ Reads(rpc, part, len, e, r)
                 \/ rpc = "tag" /\ part = Blank /\ Encodes(e, r)

LEMMA PiecesStart ==
    ASSUME NEW b \in Blob, NEW f, NEW r, Pieces(b, f, r)
    PROVE  /\ 0 \in 0..Len(b.chunks) /\ f[0] = <<>>
           /\ r[0] \o End(b) \in Seq(Byte)
  <1>1. Len(b.chunks) \in Nat /\ End(b) \in Seq(Byte)
    BY BlobFields
  <1>2. 0 \in 0..Len(b.chunks)
    BY <1>1
  <1>3. f[0] = <<>>
    BY DEF Pieces, Fronts
  <1>4. r \in [0..Len(b.chunks) -> Seq(Byte)]
    BY DEF Pieces, Backs
  <1>5. PICK x \in Seq(Byte) : x = r[0]
    BY <1>2, <1>4
  <1> QED
    BY <1>1, <1>2, <1>3, <1>5, ConcatProperties

LEMMA EncodesType ==
    ASSUME NEW e, NEW x, Encodes(e, x)
    PROVE  e \in Event /\ x \in Seq(Byte) /\ x # <<>>
  <1>1. ASSUME NEW y \in Seq(Byte), NEW t \in Byte, x = <<t>> \o y
        PROVE  x \in Seq(Byte) /\ x # <<>>
    <2>1. <<t>> \in Seq(Byte) /\ Len(<<t>>) = 1
      OBVIOUS
    <2>2. x \in Seq(Byte) /\ Len(x) = 1 + Len(y) /\ Len(y) \in Nat
      BY <1>1, <2>1, ConcatProperties
    <2> QED
      BY <2>2
  <1>2. ENTRY_ENTRY \in Byte /\ ENTRY_DATA \in Byte
    BY SmallBytes DEF ENTRY_ENTRY, ENTRY_DATA
  <1>3. CASE e \in Storable /\ x = EntryBytes(e)
    <2>1. e \in Entry /\ e \in Event
      BY <1>3 DEF Storable, Entry
    <2>2. Body(e) \in Seq(Byte) /\ x = <<ENTRY_ENTRY>> \o Body(e)
      BY <1>3, <2>1, FieldsType, EntryShape
    <2> QED
      BY <1>1, <1>2, <2>1, <2>2
  <1>4. ASSUME NEW b \in Blob, e = BlobEvent(b), x = BlobBytes(b)
        PROVE  e \in Event /\ x \in Seq(Byte) /\ x # <<>>
    <2>1. PICK f, r : /\ Pieces(b, f, r)
                      /\ BlobBytes(b) = <<ENTRY_DATA>> \o (r[0] \o End(b))
      BY BlobShape
    <2>3. r[0] \o End(b) \in Seq(Byte)
      BY <2>1, PiecesStart, Zenon
    <2>4. x \in Seq(Byte) /\ x # <<>>
      BY <1>1, <1>2, <1>4, <2>1, <2>3
    <2> QED
      BY <1>4, <2>4, BlobType
  <1> QED
    BY <1>3, <1>4 DEF Encodes

\* A tag, or a read inside an event.
ReadMore == ReadTag \/ ReadField

Continues(e, r) ==
    \E h, s \in Seq(Byte) :
        /\ r = h \o s /\ Len(h) = Need
        /\ ReadMore /\ Here = h => Onward(e, s)

LEMMA TagContinues ==
    ASSUME NEW e, NEW x, rpc = "tag", part = Blank, Encodes(e, x)
    PROVE  Continues(e, x)
  <1>1. Need = 1
    BY NeedIs
  <1>2. ReadMore => ReadTag
    BY DEF ReadMore, ReadField, Take, ReadLength, ReadPath, ReadKind,
           ReadDirectory, ReadKindUnknown, ReadHashId, ReadHash, ReadDest,
           ReadFlags, ReadChunkLength, ReadChunk
  <1>3. CASE e \in Storable /\ x = EntryBytes(e)
    <2>1. x = <<2>> \o Body(e) /\ Body(e) \in Seq(Byte)
      BY <1>3, EntryShape, FieldsType DEF Storable, ENTRY_ENTRY
    <2>2. ASSUME ReadMore, Here = << 2 >> PROVE Onward(e, Body(e))
      <3>1. /\ rpc' = "path_len" /\ part' = part
            /\ UNCHANGED <<got, res, warned, valid, got_header>>
        BY <1>2, <2>2 DEF ReadTag, Goto, ENTRY_DATA, ENTRY_ENTRY
      <3>2. EntryAt(rpc', part', len', e, Body(e))
        BY <1>3, <3>1 DEF EntryAt
      <3> QED
        BY <3>1, <3>2 DEF Onward, Reads
    <2> QED
      BY <1>1, <2>1, <2>2, Ones DEF Continues
  <1>4. ASSUME NEW b \in Blob, e = BlobEvent(b), x = BlobBytes(b)
        PROVE  Continues(e, x)
    <2>1. PICK f, r : /\ Pieces(b, f, r)
                      /\ BlobBytes(b) = <<ENTRY_DATA>> \o (r[0] \o End(b))
                      /\ BlobEvent(b) = [Blank EXCEPT
                                           !.content = f[Len(b.chunks)],
                                           !.hash = b.hash]
      BY BlobShape
    <2>2. 0 \in 0..Len(b.chunks) /\ f[0] = <<>>
      BY <2>1, PiecesStart, Zenon
    <2>3. r[0] \o End(b) \in Seq(Byte)
      BY <2>1, PiecesStart, Zenon
    <2>4. e = [Holding(f[Len(b.chunks)]) EXCEPT !.hash = b.hash]
      BY <1>4, <2>1 DEF Holding
    <2>5. ASSUME ReadMore, Here = << 1 >> PROVE Onward(e, r[0] \o End(b))
      <3>1. /\ rpc' = "chunk_len" /\ part' = Blank
            /\ UNCHANGED <<got, res, warned, valid, got_header>>
        BY <1>2, <2>5 DEF ReadTag, Goto, ENTRY_DATA, ENTRY_ENTRY
      <3>2. Blank = Holding(f[0])
        BY <2>2 DEF Holding, Blank
      <3>3. PieceOf(rpc', part', len', e, r[0] \o End(b), b, f, r)
        BY <2>1, <2>2, <2>4, <3>1, <3>2 DEF PieceOf
      <3> QED
        BY <3>1, <3>3 DEF Onward, Reads, BlobAt
    <2>6. x = <<1>> \o (r[0] \o End(b))
      BY <1>4, <2>1 DEF ENTRY_DATA
    <2> QED
      BY <1>1, <2>3, <2>5, <2>6, Ones DEF Continues
  <1> QED
    BY <1>3, <1>4 DEF Encodes

LEMMA FieldRpc ==
    ASSUME NEW e, NEW r, Reads(rpc, part, len, e, r)
    PROVE  rpc \in {"path_len", "path", "kind", "hash_id", "hash",
                    "dest_len", "dest", "flags", "chunk_len", "chunk"}
  BY DEF Reads, EntryAt, BlobAt, PieceOf

LEMMA ReadingContinues ==
    ASSUME NEW e, NEW r, Reading(e, r)
    PROVE  Continues(e, r)
  <1>1. CASE Reads(rpc, part, len, e, r)
    <2>1. ~ReadTag
      BY <1>1, FieldRpc DEF ReadTag, Take
    <2> QED
      BY <1>1, <2>1, EventAdvances DEF Advances, Continues, ReadMore
  <1>2. CASE rpc = "tag" /\ part = Blank /\ Encodes(e, r)
    BY <1>2, TagContinues
  <1> QED
    BY <1>1, <1>2 DEF Reading

\* The wire has what is left of e, apart from its last m bytes, and then t: a
\* read goes on with e.
LEMMA ReadOn ==
    ASSUME TypeOK, NEW e, NEW r, Reading(e, r), ReadMore,
           NEW m, NEW t, NEW y, Joins(wire, m, y), Joins(r, t, y)
    PROVE  /\ \E s, z : /\ Onward(e, s)
                        /\ Joins(wire', m, z) /\ Joins(s, t, z)
           /\ UNCHANGED <<lost, interrupts, wst, begun, sent, torn>>
  <1>1. PICK pc : Take(pc)
    BY DEF ReadMore, ReadTag, ReadField, ReadLength, ReadPath, ReadKind,
           ReadDirectory, ReadKindUnknown, ReadHashId, ReadHash, ReadDest,
           ReadFlags, ReadChunkLength, ReadChunk
  <1>2. /\ Len(wire) >= Need /\ wire \in Seq(Byte)
        /\ wire' = SubSeq(wire, Need + 1, Len(wire))
        /\ UNCHANGED <<lost, interrupts, wst, begun, sent, torn>>
    BY <1>1, TakenType DEF TypeOK
  <1>3. PICK h, s : /\ Joins(h, s, r) /\ Len(h) = Need
                    /\ (Here = h => Onward(e, s))
    <2>1. PICK h \in Seq(Byte), s \in Seq(Byte) :
            r = h \o s /\ Len(h) = Need /\ (Here = h => Onward(e, s))
      BY ReadingContinues DEF Continues
    <2>2. Joins(h, s, r)
      BY <2>1 DEF Joins
    <2> QED
      BY <2>1, <2>2
  <1>4. PICK w : w = wire
    OBVIOUS
  <1>5. Joins(w, m, y) /\ Len(w) >= Len(h)
    BY <1>2, <1>3, <1>4
  <1>6. /\ SubSeq(w, 1, Len(h)) = h
        /\ \E z : Joins(SubSeq(w, Len(h) + 1, Len(w)), m, z) /\ Joins(s, t, z)
    BY <1>3, <1>5, TakeFront
  <1>7. Here = h /\ \E z : Joins(wire', m, z) /\ Joins(s, t, z)
    BY <1>2, <1>3, <1>4, <1>6 DEF Here
  <1> QED
    BY <1>2, <1>3, <1>7

\* If all of e is there, so is what the next read needs.
LEMMA Enough ==
    ASSUME NEW e, NEW r, Reading(e, r), NEW t, Joins(r, t, wire)
    PROVE  Len(wire) >= Need
  <1>1. PICK h, s : Joins(h, s, r) /\ Len(h) = Need
    <2>1. PICK h \in Seq(Byte), s \in Seq(Byte) : r = h \o s /\ Len(h) = Need
      BY ReadingContinues DEF Continues
    <2>2. Joins(h, s, r)
      BY <2>1 DEF Joins
    <2> QED
      BY <2>1, <2>2
  <1>2. PICK w : w = wire
    OBVIOUS
  <1>3. Joins(r, t, w)
    BY <1>2
  <1>4. Len(w) = Len(r) + Len(t) /\ Len(r) = Len(h) + Len(s)
    BY <1>1, <1>3, JoinsType
  <1>5. Len(h) \in Nat /\ Len(s) \in Nat /\ Len(t) \in Nat
    BY <1>1, <1>3, JoinsType
  <1> QED
    BY <1>1, <1>2, <1>4, <1>5

-----------------------------------------------------------------------------
(* Where the reader is *)

\* t[k] is what was written from the k-th event of s on: its bytes and
\* t[k + 1].  The last of them is what is behind the events of s.
Queue(t, s) ==
    /\ t \in [1..(Len(s) + 1) -> Seq(Byte)]
    /\ \A k \in 1..Len(s) :
          \E x : Encodes(s[k], x) /\ Joins(x, t[k + 1], t[k])

\* There is nothing, or the first part of an event.
Ended(z) ==
    /\ torn = "no" => z = <<>>
    /\ torn = "end" =>
          z # <<>> /\ \E e, x, m : /\ m # <<>> /\ Encodes(e, x)
                                   /\ Joins(z, m, x)

\* The reader gets r before it is at the i-th event.
Place(r, i) ==
    \/ /\ ~got_header /\ got = <<>> /\ rpc \in {"idle", "header"}
       /\ part = Blank /\ i = 1
       /\ r = IF wst = "none" THEN <<>> ELSE Header
    \/ /\ got_header /\ rpc \in {"idle", "tag"} /\ part = Blank
       /\ r = <<>> /\ i = Len(got) + 1
    \/ /\ got_header /\ i = Len(got) + 2
       /\ Reads(rpc, part, len, sent[i - 1], r)

At(t) ==
    \E r : \E i \in 1..(Len(sent) + 1) : Joins(r, t[i], wire) /\ Place(r, i)

\* The reader is at, or before, what is behind the events of sent.
OnTrack ==
    /\ valid /\ res \notin {"eof", "invalid"}
    /\ res = "none" => got = sent /\ wst = "closed" /\ torn # "end"
    /\ \E t : Queue(t, sent) /\ Ended(t[Len(sent) + 1]) /\ At(t)

\* It is inside the event the stream ends in.
Inside ==
    /\ torn = "end" /\ res # "none" /\ wst # "none"
    /\ \E e, r, m : /\ m # <<>> /\ Reads(rpc, part, len, e, r)
                    /\ Joins(wire, m, r)

\* The stream ends in the header.
NoHeader ==
    /\ torn = "end" /\ wst = "closed" /\ valid /\ ~got_header
    /\ rpc \in {"idle", "header"} /\ Len(wire) < Len(Header) /\ res # "none"

\* It has read all events of sent and part of what is behind them.
Past == /\ torn # "no" /\ Len(got) >= Len(sent)
        /\ torn = "mid" \/ warned \/ Inside \/ NoHeader

Early == wst = "none" => /\ torn = "no" /\ sent = <<>> /\ wire = <<>>
                         /\ ~got_header

ArchiveInv == /\ TypeOK /\ EventsInOrder /\ Early
              /\ lost \/ OnTrack \/ Past

-----------------------------------------------------------------------------
(* What the Writer does to the stream *)

\* An event is written whole; a part of one is, or something behind a part; or
\* nothing is.
WholeEvent(e, x) == /\ torn = "no" /\ torn' = "no" /\ sent' = Append(sent, e)
                    /\ Encodes(e, x) /\ wire' = wire \o x

PartOfEvent(x) ==
    /\ sent' = sent /\ torn' # "no" /\ x \in Seq(Byte) /\ wire' = wire \o x
    /\ torn' = "end" => /\ torn = "no" /\ x # <<>>
                        /\ \E e, m, y : /\ m # <<>> /\ Encodes(e, y)
                                        /\ Joins(x, m, y)

Nothing == UNCHANGED <<sent, torn, wire>>

Writes == /\ wst = "open" /\ wst' # "none"
          /\ UNCHANGED rvars
          /\ \/ \E e, x : WholeEvent(e, x)
             \/ \E x : PartOfEvent(x)
             \/ Nothing

LEMMA BrokenWrites ==
    ASSUME TypeOK, NEW e, NEW y, Encodes(e, y), NEW n \in 0..(Len(y) - 1),
           NEW b, SubSeq(b, 1, n) = SubSeq(y, 1, n), Broken(b, n), wst' # "none"
    PROVE  Writes
  <1>1. /\ wst = "open" /\ UNCHANGED <<sent, rvars>>
        /\ wire' = wire \o SubSeq(y, 1, n)
        /\ torn' = CASE n = 0 -> torn
                     [] n > 0 /\ torn = "no" -> "end"
                     [] OTHER -> "mid"
    BY DEF Broken, Put
  <1>2. wire \in Seq(Byte) /\ y \in Seq(Byte) /\ n \in Nat /\ n < Len(y)
    BY EncodesType DEF TypeOK
  <1>3. CASE n = 0
    <2>1. PICK x : x = SubSeq(y, 1, 0)
      OBVIOUS
    <2>2. x \in Seq(Byte) /\ Len(x) = 0
      BY <1>2, <1>3, <2>1, CutAt DEF Joins
    <2>3. x = <<>>
      BY <2>2, EmptySeq
    <2>4. wire' = wire /\ torn' = torn
      BY <1>1, <1>2, <1>3, <2>1, <2>3, ConcatEmptySeq
    <2> QED
      BY <1>1, <2>4 DEF Writes, Nothing
  <1>4. CASE n > 0
    <2>1. PICK x, m : /\ x = SubSeq(y, 1, n) /\ Len(x) = n
                      /\ m # <<>> /\ Joins(x, m, y)
      <3>1. /\ Len(SubSeq(y, 1, n)) = n
            /\ \E m : m # <<>> /\ Joins(SubSeq(y, 1, n), m, y)
        BY <1>2, CutAt
      <3> QED
        BY <3>1
    <2>2. x # <<>> /\ x \in Seq(Byte)
      BY <1>4, <2>1 DEF Joins
    <2>3. torn' = IF torn = "no" THEN "end" ELSE "mid"
      BY <1>1, <1>4
    <2>4. PartOfEvent(x)
      BY <1>1, <2>1, <2>2, <2>3 DEF PartOfEvent
    <2> QED
      BY <1>1, <2>4 DEF Writes
  <1> QED
    BY <1>2, <1>3, <1>4

LEMMA WrittenWrites ==
    ASSUME TypeOK, NEW e, NEW x, Encodes(e, x), Written(e, x)
    PROVE  Writes
  <1>1. /\ wst = "open" /\ UNCHANGED <<wst, rvars>> /\ wire' = wire \o x
        /\ sent' = IF torn = "no" THEN Append(sent, e) ELSE sent
        /\ torn' = IF torn = "no" THEN "no" ELSE "mid"
    BY DEF Written, Put
  <1>2. x \in Seq(Byte)
    BY EncodesType
  <1>3. WholeEvent(e, x) \/ PartOfEvent(x)
    BY <1>1, <1>2 DEF WholeEvent, PartOfEvent
  <1> QED
    BY <1>1, <1>3 DEF Writes

\* What was written of a refused entry is the first part of another entry.
LEMMA RefusedPart ==
    ASSUME NEW e \in Entry, ~(Fits(e.path) /\ Fits(e.dest))
    PROVE  \E d, y, m : /\ Encodes(d, y) /\ m # <<>>
                        /\ Joins(RefusedBytes(e), m, y)
                        /\ Len(RefusedBytes(e)) > 0
  <1>0. /\ <<ENTRY_ENTRY>> \in Seq(Byte) /\ Len(<<ENTRY_ENTRY>>) = 1
        /\ <<TYPE_LINK>> \in Seq(Byte)
    BY Ones DEF ENTRY_ENTRY, TYPE_LINK
  <1>1. CASE Fits(e.path)
    <2>1. e.kind = TYPE_LINK
      <3>1. Fits(<<>>)
        BY MaxLengthType DEF Fits
      <3> QED
        BY <1>1, <3>1, EntryFields
    <2>2. PICK d : d = [e EXCEPT !.dest = <<>>]
      OBVIOUS
    <2>3. /\ d \in Entry /\ d.path = e.path /\ d.kind = TYPE_LINK
          /\ d.dest = <<>>
      BY <2>1, <2>2, EmptySeq DEF Entry, Event
    <2>4. d \in Storable
      <3>1. Fits(<<>>)
        BY MaxLengthType DEF Fits
      <3> QED
        BY <1>1, <2>3, <3>1 DEF Storable
    <2>5. /\ EntryBytes(d) = <<ENTRY_ENTRY>> \o Body(d)
          /\ Body(d) = Prefixed(e.path) \o (<<TYPE_LINK>> \o Fields(d))
      BY <2>3, EntryShape DEF Body, Kind
    <2>6. Fields(d) \in Seq(Byte) /\ Fields(d) # <<>>
      <3>1. PICK a \in Seq(Byte), c \in Seq(Byte) :
              a = Prefixed(d.dest) /\ c = U16(d.flags) /\ Len(c) = 2
        BY <2>3, FieldsType, FlagBytes
      <3>2. Fields(d) = a \o c
        BY <2>3, <3>1, FieldsOf
      <3>3. PICK f : f = Fields(d) /\ Joins(a, c, f)
        BY <3>2 DEF Joins
      <3>4. /\ f \in Seq(Byte) /\ Len(f) = Len(a) + Len(c)
            /\ Len(a) \in Nat
        BY <3>3, JoinsType
      <3>5. Len(c) = 2
        BY <3>1
      <3> QED
        BY <3>3, <3>4, <3>5
    <2>7. PICK p, g : /\ p = Prefixed(e.path) /\ g = Fields(d)
                      /\ p \in Seq(Byte) /\ g \in Seq(Byte) /\ g # <<>>
      BY <2>6, FieldsType
    <2>8. PICK k : Joins(<<TYPE_LINK>>, g, k) /\ k = <<TYPE_LINK>> \o g
      BY <1>0, <2>7, JoinsBoth
    <2>9. PICK q : Joins(p, k, q) /\ q = p \o k
      <3>1. k \in Seq(Byte)
        BY <2>8, JoinsType
      <3> QED
        BY <2>7, <3>1, JoinsBoth
    <2>10. PICK y : Joins(<<ENTRY_ENTRY>>, q, y) /\ y = <<ENTRY_ENTRY>> \o q
      <3>1. q \in Seq(Byte)
        BY <2>9, JoinsType
      <3> QED
        BY <1>0, <3>1, JoinsBoth
    <2>11. Encodes(d, y)
      BY <2>4, <2>5, <2>7, <2>8, <2>9, <2>10 DEF Encodes
    <2>12. PICK u : Joins(<<ENTRY_ENTRY>>, p, u) /\ Joins(u, k, y)
      BY <2>9, <2>10, RegroupLeft
    <2>13. PICK v : Joins(u, <<TYPE_LINK>>, v) /\ Joins(v, g, y)
      BY <2>8, <2>12, RegroupLeft
    <2>14. v = RefusedBytes(e)
      BY <1>1, <2>7, <2>12, <2>13 DEF Joins, RefusedBytes
    <2>15. Len(v) > 0
      <3>1. Len(u) = 1 + Len(p) /\ Len(p) \in Nat
        BY <1>0, <2>12, JoinsType
      <3>2. Len(v) = Len(u) + Len(<<TYPE_LINK>>) /\ Len(<<TYPE_LINK>>) \in Nat
        BY <2>13, JoinsType
      <3> QED
        BY <3>1, <3>2
    <2> QED
      BY <2>7, <2>11, <2>13, <2>14, <2>15
  <1>2. CASE ~Fits(e.path)
    <2>1. PICK d : d = [Blank EXCEPT !.kind = TYPE_DIR]
      OBVIOUS
    <2>2. /\ d \in Event /\ d.kind = TYPE_DIR /\ d.path = <<>>
          /\ d.dest = <<>> /\ d.hash = <<>> /\ d.content = <<>> /\ d.flags = 0
      <3>1. TYPE_DIR \in 0..3
        BY DEF TYPE_DIR
      <3>2. d \in Event
        BY <2>1, <3>1, BlankType, EventWith
      <3> QED
        BY <2>1, <3>2 DEF Blank
    <2>3. d \in Storable
      <3>1. Fits(<<>>)
        BY MaxLengthType DEF Fits
      <3>2. d \in Entry
        BY <2>2, Kinds DEF Entry, TYPE_DIR
      <3> QED
        BY <2>2, <3>1, <3>2 DEF Storable
    <2>4. d \in Entry
      BY <2>3 DEF Storable
    <2>5. PICK m : m = Body(d) /\ m \in Seq(Byte)
      BY <2>4, FieldsType
    <2>6. PICK y : Joins(<<ENTRY_ENTRY>>, m, y) /\ y = <<ENTRY_ENTRY>> \o m
      BY <1>0, <2>5, JoinsBoth
    <2>7. Encodes(d, y)
      BY <2>3, <2>4, <2>5, <2>6, EntryShape DEF Encodes
    <2>8. RefusedBytes(e) = <<ENTRY_ENTRY>>
      BY <1>2 DEF RefusedBytes
    <2>9. m # <<>>
      <3>1. PICK a, c : /\ a = Prefixed(d.path) /\ c = Kind(d)
                        /\ a \in Seq(Byte) /\ c \in Seq(Byte)
        BY <2>4, FieldsType
      <3>2. Len(c) = 1
        <4>1. c = <<TYPE_DIR>> \o <<>>
          BY <2>2, <3>1, FieldsOf DEF Kind
        <4>2. <<TYPE_DIR>> \in Seq(Nat) /\ Len(<<TYPE_DIR>>) = 1
          BY DEF TYPE_DIR
        <4> QED
          BY <4>1, <4>2, ConcatEmptySeq
      <3>3. m = a \o c
        BY <2>5, <3>1 DEF Body
      <3>4. Len(a \o c) = Len(a) + Len(c) /\ Len(a) \in Nat
        BY <3>1, ConcatProperties
      <3> QED
        BY <3>2, <3>3, <3>4
    <2> QED
      BY <1>0, <2>6, <2>7, <2>8, <2>9
  <1> QED
    BY <1>1, <1>2

LEMMA WriterDoes ==
    ASSUME TypeOK, WriterStep
    PROVE  New \/ NewFail \/ Writes
  <1>1. CASE Close
    BY <1>1 DEF Close, Writes, Nothing
  <1>2. ASSUME NEW e \in Entries, WriteEntry(e) \/ WriteEntryFail(e)
        PROVE  Writes
    <2>1. Encodes(e, EntryBytes(e))
      <3>1. e \in Entry /\ Fits(e.path) /\ Fits(e.dest)
        BY <1>2, EntriesAssumption DEF WriteEntry, WriteEntryFail
      <3> QED
        BY <3>1 DEF Encodes, Storable
    <2>2. CASE WriteEntry(e)
      BY <2>1, <2>2, WrittenWrites DEF WriteEntry
    <2>3. CASE WriteEntryFail(e)
      <3>1. PICK n \in 0..(Len(EntryBytes(e)) - 1) : Broken(EntryBytes(e), n)
        BY <2>3 DEF WriteEntryFail
      <3>2. wst' # "none"
        BY <2>3, <3>1 DEF WriteEntryFail, Broken
      <3> QED
        BY <2>1, <3>1, <3>2, BrokenWrites
    <2> QED
      BY <1>2, <2>2, <2>3
  <1>3. ASSUME NEW e \in Entries, RefuseEntry(e)
        PROVE  Writes
    <2>1. e \in Entry /\ ~(Fits(e.path) /\ Fits(e.dest))
      BY <1>3, EntriesAssumption DEF RefuseEntry
    <2>2. PICK d, y, m : /\ Encodes(d, y) /\ m # <<>>
                         /\ Joins(RefusedBytes(e), m, y)
                         /\ Len(RefusedBytes(e)) > 0
      BY <2>1, RefusedPart
    <2>3. PICK x : x = RefusedBytes(e)
      OBVIOUS
    <2>4. x \in Seq(Byte) /\ x # <<>>
      BY <2>2, <2>3 DEF Joins
    <2>5. SubSeq(x, 1, Len(x)) = x /\ Len(x) # 0
      BY <2>2, <2>3, <2>4, SubSeqFull
    <2>6. /\ wst = "open" /\ wst' = "open" /\ UNCHANGED <<sent, rvars>>
          /\ wire' = wire \o x
          /\ torn' = CASE Len(x) = 0 -> torn
                       [] Len(x) > 0 /\ torn = "no" -> "end"
                       [] OTHER -> "mid"
      BY <1>3, <2>3, <2>5 DEF RefuseEntry, Broken, Put
    <2>7. torn' = IF torn = "no" THEN "end" ELSE "mid"
      BY <2>2, <2>3, <2>5, <2>6
    <2>8. PartOfEvent(x)
      BY <2>2, <2>3, <2>4, <2>6, <2>7 DEF PartOfEvent
    <2> QED
      BY <2>6, <2>8 DEF Writes
  <1>4. ASSUME NEW b \in Blobs, WriteBlob(b) \/ WriteBlobFail(b)
        PROVE  Writes
    <2>1. Encodes(BlobEvent(b), BlobBytes(b))
      BY BlobsAssumption DEF Encodes
    <2>2. CASE WriteBlob(b)
      BY <2>1, <2>2, WrittenWrites DEF WriteBlob
    <2>3. CASE WriteBlobFail(b)
      <3>1. PICK n \in 0..(Len(BlobBytes(b)) - 1) : Broken(BlobBytes(b), n)
        BY <2>3 DEF WriteBlobFail
      <3>2. wst' # "none"
        BY <2>3 DEF WriteBlobFail
      <3> QED
        BY <2>1, <3>1, <3>2, BrokenWrites
    <2> QED
      BY <1>4, <2>2, <2>3
  <1> QED
    BY <1>1, <1>2, <1>3, <1>4 DEF WriterStep

\* Some bytes more at the end.
LEMMA QueueLonger ==
    ASSUME NEW s \in Seq(Event), NEW t, Queue(t, s), NEW x \in Seq(Byte)
    PROVE  \E u : /\ Queue(u, s)
                  /\ \A k \in 1..(Len(s) + 1) : Joins(t[k], x, u[k])
  <1> DEFINE n == Len(s)
             u == [k \in 1..(n + 1) |-> t[k] \o x]
  <1>1. n \in Nat
    OBVIOUS
  <1>2. ASSUME NEW k \in 1..(n + 1)
        PROVE  u[k] \in Seq(Byte) /\ Joins(t[k], x, u[k])
    <2>1. t[k] \in Seq(Byte)
      BY <1>2 DEF Queue
    <2>2. u[k] = t[k] \o x
      BY <1>2
    <2> HIDE DEF u, n
    <2>3. PICK a \in Seq(Byte) : a = t[k]
      BY <2>1
    <2>4. a \o x \in Seq(Byte)
      BY ConcatProperties
    <2> QED
      BY <2>2, <2>3, <2>4 DEF Joins
  <1>3. u \in [1..(n + 1) -> Seq(Byte)]
    BY <1>2
  <1> HIDE DEF u
  <1>4. ASSUME NEW k \in 1..n
        PROVE  \E y : Encodes(s[k], y) /\ Joins(y, u[k + 1], u[k])
    <2>1. PICK y : Encodes(s[k], y) /\ Joins(y, t[k + 1], t[k])
      BY <1>4 DEF Queue
    <2>2. k \in 1..(n + 1) /\ k + 1 \in 1..(n + 1)
      BY <1>1, <1>4
    <2>3. PICK a, b, c, d :
                 /\ a = t[k] /\ b = t[k + 1] /\ c = u[k] /\ d = u[k + 1]
                 /\ Joins(y, b, a) /\ Joins(a, x, c) /\ Joins(b, x, d)
      BY <1>2, <2>1, <2>2
    <2>4. PICK z : Joins(b, x, z) /\ Joins(y, z, c)
      BY <2>3, Regroup
    <2>5. z = d
      BY <2>3, <2>4 DEF Joins
    <2> QED
      BY <2>1, <2>3, <2>4, <2>5
  <1>5. Queue(u, s)
    BY <1>3, <1>4 DEF Queue
  <1> QED
    BY <1>2, <1>5

\* An event more at the end.
LEMMA QueueAppend ==
    ASSUME NEW s \in Seq(Event), NEW t, Queue(t, s), t[Len(s) + 1] = <<>>,
           NEW e, NEW x, Encodes(e, x)
    PROVE  \E u : /\ Queue(u, Append(s, e))
                  /\ u[Len(Append(s, e)) + 1] = <<>>
                  /\ \A k \in 1..(Len(s) + 1) : Joins(t[k], x, u[k])
  <1>1. e \in Event /\ x \in Seq(Byte)
    BY EncodesType
  <1>2. PICK v : /\ Queue(v, s)
                 /\ \A k \in 1..(Len(s) + 1) : Joins(t[k], x, v[k])
    BY <1>1, QueueLonger
  <1>3. PICK n \in Nat : n = Len(s)
    OBVIOUS
  <1>4. PICK w : w = Append(s, e)
    OBVIOUS
  <1>5. /\ Len(w) = n + 1 /\ w[n + 1] = e
        /\ \A k \in 1..n : w[k] = s[k]
    BY <1>1, <1>3, <1>4, AppendProperties
  <1> DEFINE u == [k \in 1..(n + 2) |-> IF k <= n + 1 THEN v[k] ELSE <<>>]
  <1>6. /\ \A k \in 1..(n + 1) : u[k] = v[k]
        /\ u[n + 2] = <<>>
    OBVIOUS
  <1>7. u \in [1..(n + 2) -> Seq(Byte)]
    <2>1. \A k \in 1..(n + 1) : v[k] \in Seq(Byte)
      BY <1>2, <1>3 DEF Queue
    <2> QED
      BY <2>1, Ones
  <1> HIDE DEF u
  <1>8. ASSUME NEW k \in 1..n
        PROVE  \E y : Encodes(w[k], y) /\ Joins(y, u[k + 1], u[k])
    <2>1. PICK y : Encodes(s[k], y) /\ Joins(y, v[k + 1], v[k])
      BY <1>2, <1>3, <1>8 DEF Queue
    <2>2. k \in 1..(n + 1) /\ k + 1 \in 1..(n + 1)
      BY <1>8
    <2> QED
      BY <1>5, <1>6, <1>8, <2>1, <2>2
  <1>9. Encodes(w[n + 1], x) /\ Joins(x, u[n + 2], u[n + 1])
    <2>1. n + 1 \in 1..(n + 1)
      OBVIOUS
    <2>2. PICK a : a = v[n + 1] /\ Joins(<<>>, x, a)
      BY <1>2, <1>3, <2>1
    <2>3. a = x
      BY <1>1, <2>2, ConcatEmptySeq DEF Joins
    <2>4. Joins(x, <<>>, x)
      BY <1>1, ConcatEmptySeq, Ones DEF Joins
    <2> QED
      BY <1>5, <1>6, <2>1, <2>2, <2>3, <2>4
  <1>10. ASSUME NEW k \in 1..(n + 1)
         PROVE  \E y : Encodes(w[k], y) /\ Joins(y, u[k + 1], u[k])
    <2>1. k \in 1..n \/ (k = n + 1 /\ k + 1 = n + 2)
      BY <1>10
    <2> QED
      BY <1>8, <1>9, <2>1
  <1>11. Len(w) + 1 = n + 2
    BY <1>5
  <1>12. Queue(u, w)
    BY <1>5, <1>7, <1>10, <1>11 DEF Queue
  <1> QED
    BY <1>2, <1>3, <1>4, <1>6, <1>11, <1>12

\* A reader that does nothing stays where it is.
LEMMA AtStays ==
    ASSUME TypeOK, UNCHANGED rvars, wst # "none", wst' # "none",
           NEW t, At(t), NEW u, NEW x, wire' = wire \o x,
           \A k \in 1..(Len(sent) + 1) : Joins(t[k], x, u[k]),
           Len(sent) <= Len(sent'), Len(sent') \in Nat,
           \A k \in 1..Len(sent) : sent'[k] = sent[k]
    PROVE  At(u)'
  <1>1. PICK r : \E i \in 1..(Len(sent) + 1) :
                   Joins(r, t[i], wire) /\ Place(r, i)
    BY DEF At
  <1>2. PICK i \in 1..(Len(sent) + 1) : Joins(r, t[i], wire) /\ Place(r, i)
    BY <1>1
  <1>3. /\ Len(sent) \in Nat /\ Len(got) \in Nat
        /\ i \in 1..(Len(sent') + 1)
    BY DEF TypeOK
  <1>4. Joins(r, u[i], wire')
    <2>1. PICK a, b, c, d : /\ a = t[i] /\ b = u[i] /\ c = wire /\ d = wire'
                            /\ Joins(r, a, c) /\ Joins(a, x, b) /\ d = c \o x
      BY <1>2
    <2>2. Joins(c, x, d)
      BY <2>1, JoinsType DEF Joins
    <2>3. PICK z : Joins(a, x, z) /\ Joins(r, z, d)
      BY <2>1, <2>2, Regroup
    <2>4. z = b
      BY <2>1, <2>3 DEF Joins
    <2> QED
      BY <2>1, <2>3, <2>4
  <1>5. /\ rpc' = rpc /\ part' = part /\ len' = len /\ got' = got
        /\ got_header' = got_header
    BY DEF rvars
  <1>6. Place(r, i)'
    <2>1. CASE /\ ~got_header /\ got = <<>> /\ rpc \in {"idle", "header"}
               /\ part = Blank /\ i = 1
               /\ r = IF wst = "none" THEN <<>> ELSE Header
      BY <1>5, <2>1 DEF Place
    <2>2. CASE /\ got_header /\ rpc \in {"idle", "tag"} /\ part = Blank
               /\ r = <<>> /\ i = Len(got) + 1
      BY <1>5, <2>2 DEF Place
    <2>3. CASE /\ got_header /\ i = Len(got) + 2
               /\ Reads(rpc, part, len, sent[i - 1], r)
      <3>1. i - 1 \in 1..Len(sent)
        BY <1>3, <2>3
      <3>2. sent'[i - 1] = sent[i - 1]
        BY <3>1
      <3> QED
        BY <1>5, <2>3, <3>2 DEF Place
    <2> QED
      BY <1>2, <2>1, <2>2, <2>3 DEF Place
  <1> QED
    BY <1>3, <1>4, <1>6 DEF At

LEMMA WritesOrder ==
    ASSUME TypeOK, TypeOK', EventsInOrder, UNCHANGED got,
           \/ UNCHANGED sent /\ (torn' = "no" => torn = "no")
           \/ \E e : torn = "no" /\ sent' = Append(sent, e) /\ e \in Event
    PROVE  EventsInOrder'
  <1>1. CASE UNCHANGED sent /\ (torn' = "no" => torn = "no")
    BY <1>1 DEF EventsInOrder
  <1>2. ASSUME NEW e \in Event, torn = "no", sent' = Append(sent, e)
        PROVE  EventsInOrder'
    <2>1. /\ Len(got) \in Nat /\ Len(sent) \in Nat /\ Len(got) <= Len(sent)
      BY <1>2 DEF EventsInOrder, TypeOK
    <2>2. /\ Len(sent') = Len(sent) + 1
          /\ \A k \in 1..Len(sent) : sent'[k] = sent[k]
      BY <1>2, AppendProperties DEF TypeOK
    <2>3. Least(Len(got), Len(sent)) = Len(got)
      BY <2>1 DEF Least
    <2>4. Least(Len(got), Len(sent')) = Len(got) /\ ~(Len(got) > Len(sent'))
      BY <2>1, <2>2 DEF Least
    <2>5. \A k \in 1..Len(got) : got[k] = sent'[k]
      BY <2>1, <2>2, <2>3 DEF EventsInOrder
    <2> QED
      BY <2>4, <2>5 DEF EventsInOrder
  <1> QED
    BY <1>1, <1>2

\* What the Writer does leaves the reader on track, or past the events.
LEMMA WritesOnTrack ==
    ASSUME TypeOK, TypeOK', OnTrack, Writes
    PROVE  OnTrack'
  <1>1. PICK t : Queue(t, sent) /\ Ended(t[Len(sent) + 1]) /\ At(t)
    BY DEF OnTrack
  <1>2. /\ valid' /\ res' \notin {"eof", "invalid", "none"}
        /\ wst # "none" /\ wst' # "none" /\ UNCHANGED rvars
    BY DEF OnTrack, Writes, rvars
  <1>3. PICK s \in Seq(Event) : s = sent
    BY DEF TypeOK
  <1>4. Len(s) \in Nat /\ Len(s) + 1 \in 1..(Len(s) + 1)
    OBVIOUS
  <1>5. ASSUME NEW e, NEW x, WholeEvent(e, x)
        PROVE  OnTrack'
    <2>1. Encodes(e, x) /\ sent' = Append(s, e) /\ torn' = "no"
          /\ t[Len(s) + 1] = <<>> /\ e \in Event /\ wire' = wire \o x
      BY <1>1, <1>3, <1>5, EncodesType DEF WholeEvent, Ended
    <2>2. PICK u : /\ Queue(u, Append(s, e))
                   /\ u[Len(Append(s, e)) + 1] = <<>>
                   /\ \A k \in 1..(Len(s) + 1) : Joins(t[k], x, u[k])
      BY <1>1, <1>3, <2>1, QueueAppend
    <2>3. /\ Len(sent') = Len(s) + 1
          /\ \A k \in 1..Len(s) : sent'[k] = s[k]
      BY <2>1, AppendProperties
    <2>4. At(u)'
      <3>1. \A k \in 1..(Len(sent) + 1) : Joins(t[k], x, u[k])
        BY <1>3, <2>2
      <3>2. /\ Len(sent) <= Len(sent') /\ Len(sent') \in Nat
            /\ \A k \in 1..Len(sent) : sent'[k] = sent[k]
        BY <1>3, <1>4, <2>3
      <3>3. wire' = wire \o x
        BY <2>1
      <3> QED
        BY <1>1, <1>2, <3>1, <3>2, <3>3, AtStays, Zenon
    <2>5. Ended(u[Len(sent) + 1])'
      BY <2>1, <2>2 DEF Ended
    <2>6. Queue(u, sent)'
      BY <2>1, <2>2
    <2> QED
      BY <1>2, <2>4, <2>5, <2>6 DEF OnTrack
  <1>6. ASSUME NEW x, PartOfEvent(x)
        PROVE  OnTrack'
    <2>1. /\ x \in Seq(Byte) /\ sent' = s /\ wire' = wire \o x /\ torn' # "no"
      BY <1>3, <1>6 DEF PartOfEvent
    <2>2. PICK u : /\ Queue(u, s)
                   /\ \A k \in 1..(Len(s) + 1) : Joins(t[k], x, u[k])
      BY <1>1, <1>3, <2>1, QueueLonger
    <2>3. At(u)'
      <3>1. \A k \in 1..(Len(sent) + 1) : Joins(t[k], x, u[k])
        BY <1>3, <2>2
      <3>2. /\ Len(sent) <= Len(sent') /\ Len(sent') \in Nat
            /\ \A k \in 1..Len(sent) : sent'[k] = sent[k]
        BY <1>3, <1>4, <2>1
      <3>3. wire' = wire \o x
        BY <2>1
      <3> QED
        BY <1>1, <1>2, <3>1, <3>2, <3>3, AtStays, Zenon
    <2>4. torn' = "end" => u[Len(s) + 1] = x
      <3> SUFFICES ASSUME torn' = "end" PROVE u[Len(s) + 1] = x
        OBVIOUS
      <3>1. t[Len(s) + 1] = <<>>
        BY <1>1, <1>3, <1>6 DEF PartOfEvent, Ended
      <3>2. PICK a : a = u[Len(s) + 1] /\ Joins(<<>>, x, a)
        BY <1>4, <2>2, <3>1
      <3> QED
        BY <2>1, <3>2, ConcatEmptySeq DEF Joins
    <2>5. Ended(u[Len(sent) + 1])'
      BY <1>6, <2>1, <2>4 DEF Ended, PartOfEvent
    <2>6. Queue(u, sent)'
      BY <2>1, <2>2
    <2> QED
      BY <1>2, <2>3, <2>5, <2>6 DEF OnTrack
  <1>7. CASE Nothing
    <2>1. /\ sent' = sent /\ torn' = torn /\ wire' = wire
          /\ rpc' = rpc /\ part' = part /\ len' = len /\ got' = got
          /\ got_header' = got_header
      BY <1>2, <1>7 DEF Nothing, rvars
    <2>2. Ended(t[Len(sent) + 1])'
      BY <1>1, <2>1 DEF Ended
    <2>3. At(t)'
      BY <1>1, <1>2, <2>1 DEF At, Place
    <2>4. Queue(t, sent)'
      BY <1>1, <2>1
    <2> QED
      BY <1>2, <2>2, <2>3, <2>4 DEF OnTrack
  <1> QED
    BY <1>5, <1>6, <1>7 DEF Writes

LEMMA WritesPast ==
    ASSUME TypeOK, TypeOK', Past, Writes
    PROVE  Past'
  <1>1. /\ wst = "open" /\ wst' # "none" /\ torn # "no"
        /\ rpc' = rpc /\ part' = part /\ len' = len /\ got' = got
        /\ res' = res /\ warned' = warned
    BY DEF Past, Writes, rvars
  <1>2. ASSUME NEW x, PartOfEvent(x)
        PROVE  Past'
    <2>1. sent' = sent /\ torn' = "mid"
      BY <1>1, <1>2 DEF PartOfEvent, TypeOK
    <2> QED
      BY <1>1, <2>1 DEF Past
  <1>3. CASE Nothing
    <2>1. sent' = sent /\ torn' = torn /\ wire' = wire
      BY <1>3 DEF Nothing
    <2>2. Inside => Inside'
      BY <1>1, <2>1 DEF Inside
    <2>3. ~NoHeader
      BY <1>1 DEF NoHeader
    <2> QED
      BY <1>1, <2>1, <2>2, <2>3 DEF Past
  <1> QED
    BY <1>1, <1>2, <1>3 DEF Writes, WholeEvent

LEMMA WriterKeeps ==
    ASSUME ArchiveInv, WriterStep
    PROVE  ArchiveInv'
  <1>0. TypeOK /\ TypeOK' /\ EventsInOrder /\ Early /\ (lost \/ OnTrack \/ Past)
    BY WriterTypes DEF ArchiveInv
  <1>1. CASE Writes
    <2>1. lost' = lost /\ got' = got
      BY <1>1 DEF Writes, rvars
    <2>2. Early'
      BY <1>1 DEF Writes, Early
    <2>3. EventsInOrder'
      <3>1. CASE \E e, x : WholeEvent(e, x)
        <4>1. \E e : torn = "no" /\ sent' = Append(sent, e) /\ e \in Event
          BY <3>1, EncodesType DEF WholeEvent
        <4> QED
          BY <1>0, <2>1, <4>1, WritesOrder
      <3>2. CASE (\E x : PartOfEvent(x)) \/ Nothing
        <4>1. UNCHANGED sent /\ (torn' = "no" => torn = "no")
          BY <3>2 DEF PartOfEvent, Nothing
        <4> QED
          BY <1>0, <2>1, <4>1, WritesOrder
      <3> QED
        BY <1>1, <3>1, <3>2 DEF Writes
    <2>4. lost' \/ OnTrack' \/ Past'
      BY <1>0, <1>1, <2>1, WritesOnTrack, WritesPast
    <2> QED
      BY <1>0, <2>2, <2>3, <2>4 DEF ArchiveInv
  <1>2. ASSUME wst = "none", OnTrack
        PROVE  /\ torn = "no" /\ sent = <<>> /\ wire = <<>> /\ ~got_header
               /\ valid /\ res \notin {"eof", "invalid", "none"}
               /\ rpc \in {"idle", "header"} /\ part = Blank /\ got = <<>>
    <2>1. /\ torn = "no" /\ sent = <<>> /\ wire = <<>> /\ ~got_header
          /\ valid /\ res \notin {"eof", "invalid", "none"}
      BY <1>0, <1>2 DEF Early, OnTrack
    <2>2. PICK t : At(t)
      BY <1>2 DEF OnTrack
    <2>3. PICK r : \E i \in 1..(Len(sent) + 1) : Place(r, i)
      BY <2>2 DEF At
    <2>4. rpc \in {"idle", "header"} /\ part = Blank /\ got = <<>>
      BY <2>1, <2>3 DEF Place
    <2> QED
      BY <2>1, <2>4
  <1>3. CASE New \/ NewFail
    <2>1. /\ wst = "none" /\ wst' # "none" /\ sent' = sent
          /\ rpc' = rpc /\ part' = part /\ len' = len /\ got' = got
          /\ res' = res /\ warned' = warned /\ lost' = lost /\ valid' = valid
          /\ got_header' = got_header
      BY <1>3 DEF New, NewFail, rvars
    <2>2. Early'
      BY <2>1 DEF Early
    <2>3. torn = "no"
      BY <1>0, <2>1 DEF Early
    <2>4. EventsInOrder'
      <3>1. UNCHANGED sent /\ (torn' = "no" => torn = "no") /\ UNCHANGED got
        BY <2>1, <2>3
      <3> QED
        BY <1>0, <3>1, WritesOrder
    <2>5. lost' \/ OnTrack' \/ Past'
      <3>1. CASE lost
        BY <2>1, <3>1
      <3>2. CASE Past
        BY <2>3, <3>2 DEF Past
      <3>3. CASE OnTrack /\ New
        <4>1. wire' = Header /\ torn' = "no" /\ wst' = "open"
          BY <1>2, <2>1, <3>3, SmallBytes, ConcatEmptySeq DEF New, Put
        <4>2. PICK h \in Seq(Byte) : h = Header
          BY SmallBytes
        <4>3. Joins(h, <<>>, h)
          BY Ones, ConcatEmptySeq DEF Joins
        <4>4. PICK t : t = [k \in 1..1 |-> <<>>]
          OBVIOUS
        <4>5. t[1] = <<>> /\ t \in [1..1 -> Seq(Byte)]
          BY <4>4, Ones
        <4>6. sent' = <<>> /\ Len(sent') = 0
          BY <1>2, <2>1, <3>3
        <4>7. Queue(t, sent)'
          BY <4>5, <4>6 DEF Queue
        <4>8. Ended(t[Len(sent) + 1])'
          BY <4>1, <4>5, <4>6 DEF Ended
        <4>9. Place(h, 1)'
          BY <1>2, <2>1, <3>3, <4>1, <4>2 DEF Place
        <4>10. At(t)'
          BY <4>1, <4>2, <4>3, <4>5, <4>6, <4>9 DEF At
        <4> QED
          BY <1>2, <2>1, <3>3, <4>7, <4>8, <4>10 DEF OnTrack
      <3>4. CASE OnTrack /\ NewFail
        <4>1. PICK n \in 0..(Len(Header) - 1) :
                wire' = wire \o SubSeq(Header, 1, n)
          BY <3>4 DEF NewFail, Put
        <4>2. PICK h \in Seq(Byte) : h = Header /\ Len(h) = 5
          BY SmallBytes
        <4>3. n \in Nat /\ n < Len(h)
          BY <4>2
        <4>4. PICK x : x = SubSeq(h, 1, n) /\ x \in Seq(Byte) /\ Len(x) = n
          BY <4>2, <4>3, CutAt DEF Joins
        <4>5. wire' = x
          BY <1>2, <2>1, <3>4, <4>1, <4>2, <4>4, ConcatEmptySeq
        <4>6. torn' = "end" /\ wst' = "closed"
          BY <3>4 DEF NewFail
        <4>7. NoHeader'
          BY <1>2, <2>1, <3>4, <4>2, <4>4, <4>5, <4>6 DEF NoHeader
        <4>8. Len(got') >= Len(sent')
          BY <1>2, <2>1, <3>4
        <4> QED
          BY <4>6, <4>7, <4>8 DEF Past
      <3> QED
        BY <1>0, <1>3, <3>1, <3>2, <3>3, <3>4
    <2> QED
      BY <1>0, <2>2, <2>4, <2>5 DEF ArchiveInv
  <1> QED
    BY <1>0, <1>1, <1>3, WriterDoes

-----------------------------------------------------------------------------
(* What the reader does to the stream *)

\* How a read inside an event, or of its tag, ends.
LEMMA ReadOutcome ==
    ASSUME ReadMore
    PROVE  /\ \E pc : Take(pc)
           /\ \/ \E e : Deliver(e)
              \/ Invalidate
              \/ \E pc : Goto(pc)
  <1> USE DEF ReadMore
  <1>1. CASE ReadTag
    BY <1>1 DEF ReadTag
  <1>2. CASE ReadLength
    BY <1>2 DEF ReadLength
  <1>3. CASE ReadPath \/ ReadDest
    BY <1>3 DEF ReadPath, ReadDest
  <1>4. CASE ReadKind \/ ReadDirectory \/ ReadKindUnknown
    BY <1>4 DEF ReadKind, ReadDirectory, ReadKindUnknown
  <1>5. CASE ReadHashId \/ ReadHash
    BY <1>5 DEF ReadHashId, ReadHash
  <1>6. CASE ReadFlags
    BY <1>6 DEF ReadFlags
  <1>7. CASE ReadChunkLength \/ ReadChunk
    BY <1>7 DEF ReadChunkLength, ReadChunk
  <1> QED
    BY <1>1, <1>2, <1>3, <1>4, <1>5, <1>6, <1>7 DEF ReadField

LEMMA ReaderDoes ==
    ASSUME ReaderStep \/ Interrupt
    PROVE  \/ NextEvent \/ ReadHeader \/ ReadMore \/ EndOfStream
           \/ UnexpectedEof \/ Interrupt
  BY DEF ReaderStep, ReadMore, ReadField

\* What no step of the reader touches, and what it never takes back.
LEMMA ReaderFrame ==
    ASSUME ReaderStep \/ Interrupt
    PROVE  /\ UNCHANGED <<wst, begun, sent, torn>>
           /\ lost => lost'
           /\ warned => warned'
           /\ got' = got \/ (~lost /\ \E e : got' = Append(got, e))
  <1>1. CASE NextEvent
    BY <1>1 DEF NextEvent, Return, wvars
  <1>2. CASE ReadHeader
    BY <1>2 DEF ReadHeader, Take, Invalidate, Return, wvars
  <1>3. CASE ReadMore
    <2>1. UNCHANGED <<wst, begun, sent, torn>> /\ lost' = lost
      BY <1>3, ReadOutcome DEF Take, wvars
    <2>2. CASE \E e : Deliver(e)
      <3>1. PICK e : Deliver(e)
        BY <2>2
      <3>2. /\ warned' = (warned \/ "event" \in {"eof", "invalid"})
            /\ got' = IF lost THEN got ELSE Append(got, e)
        BY <3>1 DEF Deliver, Return
      <3> QED
        BY <2>1, <3>2
    <2>3. CASE Invalidate \/ \E pc : Goto(pc)
      <3>1. CASE Invalidate
        <4>1. /\ warned' = (warned
                           \/ "invalid" \in {"eof", "invalid"})
              /\ got' = got
          BY <3>1 DEF Invalidate, Return
        <4> QED
          BY <2>1, <4>1
      <3>2. CASE \E pc : Goto(pc)
        <4>1. warned' = warned /\ got' = got
          BY <3>2 DEF Goto
        <4> QED
          BY <2>1, <4>1
      <3> QED
        BY <2>3, <3>1, <3>2
    <2> QED
      BY <1>3, <2>2, <2>3, ReadOutcome
  <1>4. CASE EndOfStream
    BY <1>4 DEF EndOfStream, Return, wvars
  <1>5. CASE UnexpectedEof
    BY <1>5 DEF UnexpectedEof, Return, wvars
  <1>6. CASE Interrupt
    BY <1>6 DEF Interrupt, Return, wvars
  <1> QED
    BY <1>1, <1>2, <1>3, <1>4, <1>5, <1>6, ReaderDoes

LEMMA Appended ==
    ASSUME NEW s \in Seq(Event), NEW e
    PROVE  /\ Len(Append(s, e)) = Len(s) + 1 /\ Len(s) \in Nat
           /\ Append(s, e)[Len(s) + 1] = e
           /\ \A k \in 1..Len(s) : Append(s, e)[k] = s[k]
  <1>1. s \in Seq(Event \cup {e}) /\ e \in Event \cup {e}
    OBVIOUS
  <1> QED
    BY <1>1, AppendProperties

\* The bytes of the event end before it is complete: a read goes on, but does
\* not complete it.
LEMMA InsideOn ==
    ASSUME TypeOK, ReadMore, NEW e, NEW r, Reading(e, r),
           NEW m, m # <<>>, Joins(wire, m, r)
    PROVE  \E s : /\ Reads(rpc', part', len', e, s) /\ Joins(wire', m, s)
                  /\ UNCHANGED <<got, res, warned, valid, got_header>>
  <1>1. Joins(r, <<>>, r)
    <2>1. PICK w : w = wire
      OBVIOUS
    <2>2. r \in Seq(Byte)
      BY <2>1, JoinsType
    <2> QED
      BY <2>2, Ones, ConcatEmptySeq DEF Joins
  <1>2. PICK s, z : Onward(e, s) /\ Joins(wire', m, z) /\ Joins(s, <<>>, z)
    BY <1>1, ReadOn
  <1>3. z = s
    BY <1>2, ConcatEmptySeq DEF Joins
  <1>4. s # <<>>
    <2>1. PICK w : w = wire' /\ Joins(w, m, s)
      BY <1>2, <1>3
    <2>2. Len(s) = Len(w) + Len(m) /\ Len(w) \in Nat /\ Len(m) \in Nat
      BY <2>1, JoinsType
    <2>3. m \in Seq(Byte)
      BY <2>1 DEF Joins
    <2>4. Len(m) # 0
      BY <2>3, EmptySeq
    <2> QED
      BY <2>2, <2>4
  <1> QED
    BY <1>2, <1>3, <1>4 DEF Onward

\* A call given up before it has read anything leaves the stream as it was.
LEMMA InterruptedEarly ==
    ASSUME TypeOK, Interrupt, rpc \in {"header", "tag"}
    PROVE  lost' \/ UNCHANGED <<wire, lost>>
  <1>1. PICK k \in 0..Least(Need - 1, Len(wire)) :
          /\ wire' = SubSeq(wire, k + 1, Len(wire))
          /\ lost' = (lost \/ ~(rpc \in {"header", "tag"} /\ k = 0))
    BY DEF Interrupt
  <1>2. lost \in BOOLEAN /\ wire \in Seq(Byte)
    BY DEF TypeOK
  <1>3. CASE k = 0
    <2>1. wire' = wire
      BY <1>1, <1>2, <1>3, SubSeqFull
    <2>2. lost' = lost
      BY <1>1, <1>2, <1>3
    <2> QED
      BY <2>1, <2>2
  <1>4. CASE k # 0
    BY <1>1, <1>4
  <1> QED
    BY <1>3, <1>4

\* Past the events the reader stays, unless it loses its place.
LEMMA ReaderPast ==
    ASSUME TypeOK, TypeOK', Past, ReaderStep \/ Interrupt
    PROVE  Past' \/ lost'
  <1>1. /\ wst' = wst /\ sent' = sent /\ torn' = torn /\ (warned => warned')
        /\ Len(got') >= Len(sent') /\ torn' # "no"
    <2>1. /\ wst' = wst /\ sent' = sent /\ torn' = torn /\ (warned => warned')
          /\ got' = got \/ \E e : got' = Append(got, e)
      BY ReaderFrame
    <2>2. got \in Seq(Event) /\ Len(got) \in Nat /\ Len(sent) \in Nat
      BY DEF TypeOK
    <2>3. Len(got') >= Len(got) /\ Len(got') \in Nat
      BY <2>1, <2>2, Appended
    <2> QED
      BY <2>1, <2>2, <2>3 DEF Past
  <1>2. CASE torn = "mid" \/ warned
    BY <1>1, <1>2 DEF Past
  <1>3. CASE Inside
    <2>1. PICK e, r, m : /\ m # <<>> /\ Reads(rpc, part, len, e, r)
                         /\ Joins(wire, m, r)
      BY <1>3 DEF Inside
    <2>2. rpc \in {"path_len", "path", "kind", "hash_id", "hash", "dest_len",
                   "dest", "flags", "chunk_len", "chunk"}
      BY <2>1, FieldRpc
    <2>3. CASE ReadMore
      <3>1. Reading(e, r)
        BY <2>1 DEF Reading
      <3>2. PICK s : /\ Reads(rpc', part', len', e, s) /\ Joins(wire', m, s)
                     /\ res' = res
        BY <2>1, <2>3, <3>1, InsideOn
      <3>3. Inside'
        BY <1>1, <1>3, <2>1, <3>2 DEF Inside
      <3> QED
        BY <1>1, <3>3 DEF Past
    <2>4. CASE UnexpectedEof
      <3>1. warned'
        BY <2>4 DEF UnexpectedEof, Return
      <3> QED
        BY <1>1, <3>1 DEF Past
    <2>6. CASE Interrupt
      <3>1. lost'
        BY <2>2, <2>6 DEF Interrupt
      <3> QED
        BY <3>1
    <2>5. ~NextEvent /\ ~ReadHeader /\ ~EndOfStream
      BY <2>2 DEF NextEvent, ReadHeader, EndOfStream, Take
    <2> QED
      BY <2>3, <2>4, <2>5, <2>6, ReaderDoes
  <1>4. CASE NoHeader
    <2>1. rpc \in {"idle", "header"} /\ valid /\ ~got_header
      BY <1>4 DEF NoHeader
    <2>2. CASE NextEvent
      <3>1. NoHeader'
        BY <1>1, <1>4, <2>1, <2>2 DEF NextEvent, NoHeader, wvars
      <3> QED
        BY <1>1, <3>1 DEF Past
    <2>3. CASE UnexpectedEof
      <3>1. warned'
        BY <2>3 DEF UnexpectedEof, Return
      <3> QED
        BY <1>1, <3>1 DEF Past
    <2>6. CASE Interrupt
      <3>1. /\ rpc = "header" /\ rpc' = "idle" /\ res' = "failed"
            /\ valid' = valid /\ got_header' = got_header
        BY <2>1, <2>6 DEF Interrupt, Return
      <3>2. lost' \/ wire' = wire
        BY <2>6, <3>1, InterruptedEarly
      <3>3. CASE wire' = wire
        <4>1. NoHeader'
          BY <1>1, <1>4, <3>1, <3>3 DEF NoHeader
        <4> QED
          BY <1>1, <4>1 DEF Past
      <3> QED
        BY <3>2, <3>3
    <2>4. ~ReadMore /\ ~EndOfStream
      <3>1. ~ReadMore
        BY <2>1 DEF ReadMore, ReadTag, ReadField, ReadLength, ReadPath,
             ReadKind, ReadDirectory, ReadKindUnknown, ReadHashId, ReadHash,
             ReadDest, ReadFlags, ReadChunkLength, ReadChunk, Take
      <3> QED
        BY <2>1, <3>1 DEF EndOfStream
    <2>5. ~ReadHeader
      <3> SUFFICES ASSUME ReadHeader PROVE FALSE
        OBVIOUS
      <3>1. rpc = "header" /\ Len(wire) >= Need
        BY DEF ReadHeader, Take
      <3>2. Len(wire) \in Nat /\ Len(Header) \in Nat
        BY SmallBytes DEF TypeOK
      <3> QED
        BY <1>4, <3>1, <3>2, NeedIs DEF NoHeader
    <2> QED
      BY <2>2, <2>3, <2>4, <2>5, <2>6, ReaderDoes
  <1> QED
    BY <1>2, <1>3, <1>4 DEF Past

LEMMA JoinsEmpty ==
    ASSUME NEW x, NEW y
    PROVE  /\ Joins(<<>>, x, y) => y = x
           /\ Joins(x, <<>>, y) => y = x
           /\ x \in Seq(Byte) => Joins(<<>>, x, x) /\ Joins(x, <<>>, x)
  BY Ones, ConcatEmptySeq DEF Joins

\* A reader on track, at the k-th event or inside it, stays on track.
LEMMA StepsOn ==
    ASSUME TypeOK, OnTrack, ~lost, ReadMore,
           NEW t, Queue(t, sent), Ended(t[Len(sent) + 1]),
           NEW k \in 1..Len(sent), k = Len(got) + 1, got_header,
           NEW r, Reading(sent[k], r), Joins(r, t[k + 1], wire)
    PROVE  OnTrack' /\ (got' = got \/ got' = Append(got, sent[k]))
  <1>1. Len(sent) \in Nat /\ k + 1 \in 1..(Len(sent) + 1) /\ k \in Nat
        /\ got \in Seq(Event)
    BY DEF TypeOK
  <1>2. PICK w : w = wire
    OBVIOUS
  <1>3. w \in Seq(Byte)
    BY <1>2, JoinsType
  <1>4. Joins(wire, <<>>, w) /\ Joins(r, t[k + 1], w)
    BY <1>2, <1>3, JoinsEmpty
  <1>5. PICK e : e = sent[k]
    OBVIOUS
  <1>6. <<>> \in Seq(Byte)
    BY Ones
  <1>7. PICK a : a = t[k + 1]
    OBVIOUS
  <1>8. /\ \E s, z : Onward(e, s) /\ Joins(wire', <<>>, z) /\ Joins(s, a, z)
        /\ UNCHANGED <<lost, interrupts, wst, begun, sent, torn>>
    BY <1>4, <1>5, <1>7, ReadOn
  <1>9. PICK s, z : Onward(e, s) /\ Joins(wire', <<>>, z) /\ Joins(s, a, z)
    BY <1>8
  <1>10. Joins(s, t[k + 1], wire')
    BY <1>7, <1>9, JoinsEmpty
  <1>11. Queue(t, sent)' /\ Ended(t[Len(sent) + 1])'
    BY <1>8 DEF Ended
  <1>12. k + 1 \in 1..(Len(sent') + 1)
    BY <1>1, <1>8
  <1>13. CASE Deliver(e) /\ s = <<>>
    <2>1. /\ got' = Append(got, e) /\ rpc' = "idle" /\ part' = Blank
          /\ res' = "event" /\ valid' = valid /\ got_header' = got_header
      BY <1>13 DEF Deliver, Return
    <2>2. Len(got') = Len(got) + 1
      BY <1>1, <2>1, Appended
    <2>3. Place(s, k + 1)'
      BY <1>13, <2>1, <2>2 DEF Place
    <2>4. At(t)'
      BY <1>10, <1>12, <2>3 DEF At
    <2>5. valid' /\ res' \notin {"eof", "invalid", "none"}
      BY <2>1 DEF OnTrack
    <2>6. OnTrack'
      BY <1>11, <2>4, <2>5 DEF OnTrack
    <2> QED
      BY <1>5, <2>1, <2>6
  <1>14. CASE /\ Reads(rpc', part', len', e, s)
              /\ UNCHANGED <<got, res, warned, valid, got_header>>
    <2>1. sent'[(k + 1) - 1] = e /\ k + 1 = Len(got') + 2
      BY <1>1, <1>5, <1>8, <1>14
    <2>2. Place(s, k + 1)'
      BY <1>14, <2>1 DEF Place
    <2>3. At(t)'
      BY <1>10, <1>12, <2>2 DEF At
    <2>4. /\ valid' /\ res' \notin {"eof", "invalid"}
          /\ res' = "none" => got' = sent' /\ wst' = "closed" /\ torn' # "end"
      BY <1>8, <1>14 DEF OnTrack
    <2> QED
      BY <1>11, <1>14, <2>3, <2>4 DEF OnTrack
  <1> QED
    BY <1>9, <1>13, <1>14 DEF Onward

\* On track before the header.
LEMMA StartOn ==
    ASSUME TypeOK, Early, OnTrack, ReaderStep \/ Interrupt,
           NEW t, Queue(t, sent), Ended(t[Len(sent) + 1]),
           ~got_header, got = <<>>, rpc \in {"idle", "header"}, part = Blank,
           NEW r, r = IF wst = "none" THEN <<>> ELSE Header,
           Joins(r, t[1], wire)
    PROVE  (lost' \/ OnTrack') /\ got' = got
  <1>1. /\ valid /\ res \notin {"eof", "invalid"}
        /\ res = "none" => got = sent /\ wst = "closed" /\ torn # "end"
    BY DEF OnTrack
  <1>2. UNCHANGED <<wst, begun, sent, torn>>
    BY ReaderFrame
  <1>3. Queue(t, sent)' /\ Ended(t[Len(sent) + 1])'
    BY <1>2 DEF Ended
  <1>4. 1 \in 1..(Len(sent') + 1)
    BY <1>2 DEF TypeOK
  <1>5. ASSUME UNCHANGED <<wire, got_header, got, valid>>,
               rpc' \in {"idle", "header"}, part' = Blank,
               res' = res \/ res' = "failed"
        PROVE  OnTrack'
    <2>1. Place(r, 1)'
      BY <1>2, <1>5 DEF Place
    <2>2. Joins(r, t[1], wire')
      BY <1>5
    <2>3. At(t)'
      BY <1>4, <2>1, <2>2 DEF At
    <2> QED
      BY <1>1, <1>2, <1>3, <1>5, <2>3 DEF OnTrack
  <1>6. CASE NextEvent
    <2>1. /\ UNCHANGED <<wire, got_header, got, valid, part, res>>
          /\ rpc' \in {"idle", "header"}
      BY <1>1, <1>6 DEF NextEvent
    <2> QED
      BY <1>5, <2>1
  <1>7. CASE ReadHeader
    <2>1. PICK w, h : /\ w = wire /\ h = Header /\ h \in Seq(Byte)
                      /\ Len(h) = 5 /\ w \in Seq(Byte)
      BY SmallBytes DEF TypeOK
    <2>2. /\ rpc = "header" /\ Need = Len(h) /\ Len(w) >= Len(h)
          /\ wire' = SubSeq(w, Len(h) + 1, Len(w))
      BY <1>7, <2>1, NeedIs DEF ReadHeader, Take
    <2>3. wst # "none"
      <3>1. Len(w) # 0
        BY <2>1, <2>2
      <3> QED
        BY <2>1, <3>1 DEF Early
    <2>4. PICK a : a = t[1] /\ Joins(h, a, w)
      BY <2>1, <2>3
    <2>5. Joins(h, <<>>, h) /\ Joins(w, <<>>, w)
      BY <2>1, JoinsEmpty
    <2>6. /\ SubSeq(w, 1, Len(h)) = h
          /\ \E z : /\ Joins(SubSeq(w, Len(h) + 1, Len(w)), <<>>, z)
                    /\ Joins(<<>>, a, z)
      BY <2>2, <2>4, <2>5, TakeFront
    <2>7. PICK z : Joins(wire', <<>>, z) /\ Joins(<<>>, a, z)
      BY <2>2, <2>6
    <2>8. Joins(<<>>, t[1], wire')
      BY <2>4, <2>7, JoinsEmpty
    <2>9. Here = Header
      BY <2>1, <2>2, <2>6 DEF Here
    <2>10. /\ rpc' = "tag" /\ got_header' = TRUE
           /\ UNCHANGED <<part, len, valid, got, res, warned>>
      BY <1>7, <2>9 DEF ReadHeader
    <2>11. Place(<<>>, 1)'
      BY <2>10 DEF Place
    <2>12. At(t)'
      BY <1>4, <2>8, <2>11 DEF At
    <2> QED
      BY <1>1, <1>2, <1>3, <2>10, <2>12 DEF OnTrack
  <1>8. ~ReadMore /\ ~EndOfStream
    <2>1. ~ReadMore
      BY DEF ReadMore, ReadTag, ReadField, ReadLength, ReadPath, ReadKind,
             ReadDirectory, ReadKindUnknown, ReadHashId, ReadHash, ReadDest,
             ReadFlags, ReadChunkLength, ReadChunk, Take
    <2> QED
      BY <2>1 DEF EndOfStream
  <1>9. ~UnexpectedEof
    <2> SUFFICES ASSUME UnexpectedEof PROVE FALSE
      OBVIOUS
    <2>1. rpc = "header" /\ Len(wire) < Need /\ wst # "none"
      BY DEF UnexpectedEof
    <2>2. PICK h, w, a : /\ h = Header /\ w = wire /\ a = t[1]
                         /\ Joins(h, a, w) /\ Len(w) < Len(h)
      BY <2>1, NeedIs
    <2>3. Len(w) = Len(h) + Len(a) /\ Len(h) \in Nat /\ Len(a) \in Nat
      BY <2>2, JoinsType
    <2> QED
      BY <2>2, <2>3
  <1>10. CASE Interrupt
    <2>1. /\ rpc = "header" /\ UNCHANGED <<got_header, got, valid>>
          /\ rpc' = "idle" /\ part' = Blank /\ res' = "failed"
      BY <1>10 DEF Interrupt, Return
    <2>2. lost' \/ UNCHANGED wire
      BY <1>10, <2>1, InterruptedEarly
    <2> QED
      BY <1>5, <2>1, <2>2
  <1> QED
    BY <1>6, <1>7, <1>8, <1>9, <1>10, ReaderDoes

\* On track between two events, or behind the last of them.
LEMMA BetweenOn ==
    ASSUME TypeOK, Early, EventsInOrder, OnTrack, ~lost,
           ReaderStep \/ Interrupt,
           NEW t, Queue(t, sent), Ended(t[Len(sent) + 1]),
           got_header, rpc \in {"idle", "tag"}, part = Blank,
           NEW i \in 1..(Len(sent) + 1), i = Len(got) + 1,
           Joins(<<>>, t[i], wire)
    PROVE  /\ lost' \/ OnTrack' \/ Past'
           /\ \/ got' = got
              \/ i \in 1..Len(sent) /\ got' = Append(got, sent[i])
  <1>1. /\ valid /\ res \notin {"eof", "invalid"}
        /\ res = "none" => got = sent /\ wst = "closed" /\ torn # "end"
    BY DEF OnTrack
  <1>2. UNCHANGED <<wst, begun, sent, torn>>
    BY ReaderFrame
  <1>3. Queue(t, sent)' /\ Ended(t[Len(sent) + 1])'
    BY <1>2 DEF Ended
  <1>4. /\ i \in 1..(Len(sent') + 1) /\ Len(sent) \in Nat /\ Len(got) \in Nat
        /\ got \in Seq(Event) /\ sent \in Seq(Event)
    BY <1>2 DEF TypeOK
  <1>5. wire = t[i] /\ t[i] \in Seq(Byte)
    BY JoinsEmpty DEF Joins
  <1>6. ASSUME UNCHANGED <<wire, got_header, got, valid>>,
               rpc' \in {"idle", "tag"}, part' = Blank,
               \/ res' = res \/ res' = "failed"
               \/ res' = "none" /\ got = sent /\ wst = "closed" /\ torn # "end"
        PROVE  OnTrack'
    <2>1. Place(<<>>, i)'
      BY <1>6 DEF Place
    <2>2. Joins(<<>>, t[i], wire')
      BY <1>6
    <2>3. At(t)'
      BY <1>4, <2>1, <2>2 DEF At
    <2> QED
      BY <1>1, <1>2, <1>3, <1>6, <2>3 DEF OnTrack
  <1>7. CASE NextEvent
    <2>1. /\ UNCHANGED <<wire, got_header, got, valid, part, res>>
          /\ rpc' = "tag"
      BY <1>1, <1>7 DEF NextEvent
    <2> QED
      BY <1>6, <2>1
  <1>8. CASE ReadMore /\ i \in 1..Len(sent)
    <2>1. PICK x : Encodes(sent[i], x) /\ Joins(x, t[i + 1], t[i])
      BY <1>8 DEF Queue
    <2>2. rpc = "tag"
      BY <1>8 DEF ReadMore, ReadTag, ReadField, ReadLength, ReadPath, ReadKind,
           ReadDirectory, ReadKindUnknown, ReadHashId, ReadHash, ReadDest,
           ReadFlags, ReadChunkLength, ReadChunk, Take
    <2>3. Reading(sent[i], x)
      BY <2>1, <2>2 DEF Reading
    <2>4. Joins(x, t[i + 1], wire)
      BY <1>5, <2>1
    <2>5. OnTrack' /\ (got' = got \/ got' = Append(got, sent[i]))
      BY <1>8, <2>3, <2>4, StepsOn
    <2> QED
      BY <1>8, <2>5
  <1>9. CASE ReadMore /\ i = Len(sent) + 1
    <2>1. rpc = "tag" /\ got' = got /\ Len(wire) >= 1
      <3>1. ReadTag
        BY <1>9 DEF ReadMore, ReadField, ReadLength, ReadPath, ReadKind,
             ReadDirectory, ReadKindUnknown, ReadHashId, ReadHash, ReadDest,
             ReadFlags, ReadChunkLength, ReadChunk, Take
      <3>2. rpc = "tag" /\ Len(wire) >= Need
        BY <3>1 DEF ReadTag, Take
      <3>3. got' = got
        BY <3>1 DEF ReadTag, Goto, Invalidate
      <3> QED
        BY <3>2, <3>3, NeedIs
    <2>2. torn # "no"
      <3>1. wire # <<>>
        BY <2>1
      <3> QED
        BY <1>5, <1>9, <3>1 DEF Ended
    <2>3. Len(got') >= Len(sent') /\ torn' # "no"
      BY <1>2, <1>4, <1>9, <2>1, <2>2
    <2>4. CASE torn = "mid"
      BY <1>2, <2>1, <2>3, <2>4 DEF Past
    <2>5. CASE torn = "end"
      <3>1. PICK e, x, m : m # <<>> /\ Encodes(e, x) /\ Joins(wire, m, x)
        BY <1>5, <1>9, <2>5 DEF Ended
      <3>2. Reading(e, x)
        BY <2>1, <3>1 DEF Reading
      <3>3. PICK s : /\ Reads(rpc', part', len', e, s) /\ Joins(wire', m, s)
                     /\ UNCHANGED <<got, res, warned, valid, got_header>>
        BY <1>9, <3>1, <3>2, InsideOn, Zenon
      <3>4. wst' # "none" /\ res' # "none" /\ torn' = "end"
        BY <1>1, <1>2, <2>5, <3>3 DEF Early
      <3>5. Inside'
        BY <3>1, <3>3, <3>4 DEF Inside
      <3> QED
        BY <2>1, <2>3, <3>5 DEF Past
    <2> QED
      BY <2>1, <2>2, <2>4, <2>5 DEF TypeOK
  <1>10. CASE EndOfStream
    <2>1. /\ wire = <<>> /\ wst = "closed" /\ rpc' = "idle" /\ part' = Blank
          /\ res' = "none" /\ UNCHANGED <<valid, got_header, got, wire>>
      BY <1>10 DEF EndOfStream, Return
    <2>2. i = Len(sent) + 1
      <3> SUFFICES ASSUME i \in 1..Len(sent) PROVE FALSE
        BY <1>4
      <3>1. PICK x : Encodes(sent[i], x) /\ Joins(x, t[i + 1], t[i])
        BY DEF Queue
      <3>2. PICK a : a = t[i + 1] /\ Joins(x, a, <<>>)
        BY <1>5, <2>1, <3>1
      <3>3. x \in Seq(Byte) /\ x # <<>>
        BY <3>1, EncodesType
      <3>4. /\ Len(<<>>) = Len(x) + Len(a) /\ Len(x) \in Nat
            /\ Len(a) \in Nat
        BY <3>2, JoinsType
      <3>5. Len(x) # 0
        BY <3>3, EmptySeq
      <3> QED
        BY <3>4, <3>5
    <2>3. torn # "end"
      BY <1>5, <2>1, <2>2 DEF Ended
    <2>4. got = sent
      <3>1. Len(got) = Len(sent)
        BY <1>4, <2>2
      <3>2. \A k \in 1..Len(got) : got[k] = sent[k]
        BY <1>4, <3>1 DEF EventsInOrder, Least
      <3> QED
        BY <1>4, <3>1, <3>2, SeqEqual
    <2> QED
      BY <1>6, <2>1, <2>3, <2>4
  <1>11. ~UnexpectedEof /\ ~ReadHeader
    BY DEF UnexpectedEof, ReadHeader, Take
  <1>12. CASE Interrupt
    <2>1. /\ rpc = "tag" /\ UNCHANGED <<got_header, got, valid>>
          /\ rpc' = "idle" /\ part' = Blank /\ res' = "failed"
      BY <1>12 DEF Interrupt, Return
    <2>2. lost' \/ UNCHANGED wire
      BY <1>12, <2>1, InterruptedEarly
    <2> QED
      BY <1>6, <2>1, <2>2
  <1>13. i \in 1..Len(sent) \/ i = Len(sent) + 1
    BY <1>4
  <1> QED
    BY <1>7, <1>8, <1>9, <1>10, <1>11, <1>12, <1>13, ReaderDoes

\* On track inside an event.
LEMMA WithinOn ==
    ASSUME TypeOK, OnTrack, ~lost, ReaderStep \/ Interrupt,
           NEW t, Queue(t, sent), Ended(t[Len(sent) + 1]),
           got_header, NEW k \in 1..Len(sent), k = Len(got) + 1,
           NEW r, Reads(rpc, part, len, sent[k], r), Joins(r, t[k + 1], wire)
    PROVE  /\ lost' \/ OnTrack'
           /\ got' = got \/ got' = Append(got, sent[k])
  <1>1. rpc \in {"path_len", "path", "kind", "hash_id", "hash", "dest_len",
                 "dest", "flags", "chunk_len", "chunk"}
    BY FieldRpc
  <1>2. Reading(sent[k], r)
    BY DEF Reading
  <1>3. CASE ReadMore
    BY <1>2, <1>3, StepsOn
  <1>4. ~NextEvent /\ ~ReadHeader /\ ~EndOfStream
    BY <1>1 DEF NextEvent, ReadHeader, EndOfStream, Take
  <1>5. ~UnexpectedEof
    <2> SUFFICES ASSUME UnexpectedEof PROVE FALSE
      OBVIOUS
    <2>1. Len(wire) >= Need
      BY <1>2, Enough
    <2>2. Len(wire) < Need
      BY DEF UnexpectedEof
    <2>3. Len(wire) \in Nat
      BY DEF TypeOK
    <2>4. len \in Nat
      BY MaxLengthType DEF TypeOK
    <2>5. Need \in Nat
      BY <1>1, <2>4, NeedIs, HashLenAssumption
    <2> QED
      BY <2>1, <2>2, <2>3, <2>5
  <1>6. CASE Interrupt
    <2>1. got' = got /\ lost'
      BY <1>1, <1>6 DEF Interrupt
    <2> QED
      BY <2>1
  <1> QED
    BY <1>3, <1>4, <1>5, <1>6, ReaderDoes

LEMMA ReaderOnTrack ==
    ASSUME TypeOK, Early, EventsInOrder, OnTrack, ~lost,
           ReaderStep \/ Interrupt
    PROVE  /\ lost' \/ OnTrack' \/ Past'
           /\ \/ got' = got
              \/ \E k \in 1..Len(sent) : /\ k = Len(got) + 1
                                         /\ got' = Append(got, sent[k])
  <1>1. PICK t : Queue(t, sent) /\ Ended(t[Len(sent) + 1]) /\ At(t)
    BY DEF OnTrack
  <1>2. PICK r : \E i \in 1..(Len(sent) + 1) :
                   Joins(r, t[i], wire) /\ Place(r, i)
    BY <1>1 DEF At
  <1>3. PICK i \in 1..(Len(sent) + 1) : Joins(r, t[i], wire) /\ Place(r, i)
    BY <1>2
  <1>4. Len(sent) \in Nat /\ Len(got) \in Nat
    BY DEF TypeOK
  <1>5. CASE /\ ~got_header /\ got = <<>> /\ rpc \in {"idle", "header"}
             /\ part = Blank /\ i = 1
             /\ r = IF wst = "none" THEN <<>> ELSE Header
    BY <1>1, <1>3, <1>5, StartOn
  <1>6. CASE /\ got_header /\ rpc \in {"idle", "tag"} /\ part = Blank
             /\ r = <<>> /\ i = Len(got) + 1
    BY <1>1, <1>3, <1>6, BetweenOn
  <1>7. CASE /\ got_header /\ i = Len(got) + 2
             /\ Reads(rpc, part, len, sent[i - 1], r)
    <2>1. PICK k \in 1..Len(sent) : k = i - 1 /\ k = Len(got) + 1 /\ k + 1 = i
      BY <1>4, <1>7
    <2>2. Reads(rpc, part, len, sent[k], r) /\ Joins(r, t[k + 1], wire)
      BY <1>3, <1>7, <2>1
    <2>3. /\ lost' \/ OnTrack'
          /\ got' = got \/ got' = Append(got, sent[k])
      BY <1>1, <1>7, <2>1, <2>2, WithinOn
    <2> QED
      BY <2>1, <2>3
  <1> QED
    BY <1>3, <1>5, <1>6, <1>7 DEF Place

\* Where nothing is written, nothing is read.
LEMMA NothingRead ==
    ASSUME TypeOK, wire = <<>>, ~got_header, wst # "closed",
           ReaderStep \/ Interrupt
    PROVE  wire' = <<>> /\ ~got_header'
  <1>1. ASSUME NEW n \in Nat, wire' = SubSeq(wire, n + 1, Len(wire))
        PROVE  wire' = <<>>
    <2>1. PICK w \in Seq(Byte) : w = wire /\ Len(w) = 0
      BY DEF TypeOK
    <2>2. \A k \in (n + 1)..0 : w[k] \in Byte
      OBVIOUS
    <2>3. SubSeq(w, n + 1, 0) \in Seq(Byte) /\ Len(SubSeq(w, n + 1, 0)) = 0
      BY <2>1, <2>2, SubSeqProperties
    <2>4. SubSeq(w, n + 1, 0) = <<>>
      BY <2>3, EmptySeq
    <2> QED
      BY <1>1, <2>1, <2>4
  <1>2. CASE NextEvent
    BY <1>2 DEF NextEvent
  <1>3. ~ReadHeader
    <2> SUFFICES ASSUME ReadHeader PROVE FALSE
      OBVIOUS
    <2>1. Len(wire) >= Need /\ Need = Len(Header) /\ Len(wire) = 0
      BY NeedIs DEF ReadHeader, Take
    <2>2. Len(Header) = 5
      BY SmallBytes
    <2> QED
      BY <2>1, <2>2
  <1>4. CASE ReadMore
    <2>1. PICK pc : Take(pc)
      BY <1>4, ReadOutcome
    <2>2. Need \in Nat /\ wire' = SubSeq(wire, Need + 1, Len(wire))
      BY <2>1, TakenType
    <2>3. wire' = <<>>
      BY <1>1, <2>2
    <2>4. got_header' = got_header
      BY <1>4, ReadOutcome DEF Deliver, Invalidate, Goto
    <2> QED
      BY <2>3, <2>4
  <1>5. CASE EndOfStream
    BY <1>5 DEF EndOfStream
  <1>6. ~UnexpectedEof
    BY DEF UnexpectedEof
  <1>7. CASE Interrupt
    <2>1. PICK k \in 0..Least(Need - 1, Len(wire)) :
            wire' = SubSeq(wire, k + 1, Len(wire))
      BY <1>7 DEF Interrupt
    <2>2. k \in Nat
      OBVIOUS
    <2>3. wire' = <<>>
      BY <1>1, <2>1, <2>2
    <2>4. got_header' = got_header
      BY <1>7 DEF Interrupt
    <2> QED
      BY <2>3, <2>4
  <1> QED
    BY <1>2, <1>3, <1>4, <1>5, <1>6, <1>7, ReaderDoes

LEMMA ReaderKeeps ==
    ASSUME ArchiveInv, ReaderStep \/ Interrupt
    PROVE  ArchiveInv'
  <1>0. TypeOK /\ TypeOK' /\ EventsInOrder /\ Early /\ (lost \/ OnTrack \/ Past)
    BY ReaderTypes DEF ArchiveInv
  <1>1. /\ UNCHANGED <<wst, begun, sent, torn>> /\ (lost => lost')
        /\ got' = got \/ (~lost /\ \E e : got' = Append(got, e))
    BY ReaderFrame
  <1>2. got \in Seq(Event) /\ Len(got) \in Nat /\ Len(sent) \in Nat
    BY <1>0 DEF TypeOK
  <1>3. Early'
    <2>1. wst = "none" => wire' = <<>> /\ ~got_header'
      BY <1>0, NothingRead DEF Early
    <2> QED
      BY <1>0, <1>1, <2>1 DEF Early
  <1>4. lost' \/ OnTrack' \/ Past'
    <2>1. CASE lost
      BY <1>1, <2>1
    <2>2. CASE Past
      BY <1>0, <2>2, ReaderPast
    <2>3. CASE OnTrack /\ ~lost
      BY <1>0, <2>3, ReaderOnTrack
    <2> QED
      BY <1>0, <2>1, <2>2, <2>3
  <1>5. EventsInOrder'
    <2>1. CASE got' = got
      BY <1>0, <1>1, <2>1 DEF EventsInOrder
    <2>2. ASSUME NEW e, got' = Append(got, e), Len(got) >= Len(sent),
                 torn # "no"
          PROVE  EventsInOrder'
      <3>1. /\ Len(got') = Len(got) + 1
            /\ \A k \in 1..Len(got) : got'[k] = got[k]
        BY <1>2, <2>2, Appended
      <3>2. Least(Len(got), Len(sent)) = Len(sent)
        BY <1>2, <2>2 DEF Least
      <3>3. Least(Len(got'), Len(sent')) = Len(sent)
        BY <1>1, <1>2, <2>2, <3>1 DEF Least
      <3>4. \A k \in 1..Len(sent) : got[k] = sent[k]
        BY <1>0, <3>2 DEF EventsInOrder
      <3>5. \A k \in 1..Len(sent) : got'[k] = sent'[k]
        BY <1>1, <1>2, <2>2, <3>1, <3>4
      <3> QED
        BY <1>1, <2>2, <3>3, <3>5 DEF EventsInOrder
    <2>3. ASSUME NEW k \in 1..Len(sent), k = Len(got) + 1,
                 got' = Append(got, sent[k])
          PROVE  EventsInOrder'
      <3>1. /\ Len(got') = Len(got) + 1 /\ got'[k] = sent[k]
            /\ \A j \in 1..Len(got) : got'[j] = got[j]
        BY <1>2, <2>3, Appended
      <3>2. Least(Len(got), Len(sent)) = Len(got)
        BY <1>2, <2>3 DEF Least
      <3>3. /\ Least(Len(got'), Len(sent')) = k
            /\ ~(Len(got') > Len(sent'))
        BY <1>1, <1>2, <2>3, <3>1 DEF Least
      <3>4. \A j \in 1..Len(got) : got[j] = sent[j]
        BY <1>0, <3>2 DEF EventsInOrder
      <3>5. \A j \in 1..k : got'[j] = sent'[j]
        <4>1. \A j \in 1..k : j = k \/ j \in 1..Len(got)
          BY <1>2, <2>3
        <4> QED
          BY <1>1, <3>1, <3>4, <4>1
      <3> QED
        BY <3>3, <3>5 DEF EventsInOrder
    <2>4. CASE OnTrack /\ ~lost
      BY <1>0, <2>1, <2>3, <2>4, ReaderOnTrack
    <2>5. CASE Past /\ ~lost
      BY <1>1, <2>1, <2>2, <2>5 DEF Past
    <2>6. CASE lost
      BY <1>1, <2>1, <2>6
    <2> QED
      BY <1>0, <2>4, <2>5, <2>6
  <1> QED
    BY <1>0, <1>3, <1>4, <1>5 DEF ArchiveInv

-----------------------------------------------------------------------------
(* The invariant *)

LEMMA ArchiveInitially == Init => ArchiveInv
  <1> SUFFICES ASSUME Init PROVE ArchiveInv
    OBVIOUS
  <1>1. TypeOK
    BY TypesInitially
  <1>2. EventsInOrder /\ Early
    BY DEF Init, EventsInOrder, Early, Least
  <1>3. PICK t : t = [k \in 1..1 |-> <<>>]
    OBVIOUS
  <1>4. t[1] = <<>> /\ t \in [1..1 -> Seq(Byte)]
    BY <1>3, Ones
  <1>5. /\ wst = "none" /\ sent = <<>> /\ got = <<>> /\ wire = <<>>
        /\ torn = "no" /\ rpc = "idle" /\ part = Blank /\ ~got_header
        /\ valid /\ res = "-"
    BY DEF Init
  <1>6. Queue(t, sent) /\ Ended(t[Len(sent) + 1])
    BY <1>4, <1>5 DEF Queue, Ended
  <1>7. Place(<<>>, 1) /\ Joins(<<>>, t[1], wire)
    BY <1>4, <1>5, JoinsEmpty, Ones DEF Place
  <1>8. At(t)
    BY <1>5, <1>7 DEF At
  <1>9. OnTrack
    BY <1>5, <1>6, <1>8 DEF OnTrack
  <1> QED
    BY <1>1, <1>2, <1>9 DEF ArchiveInv

LEMMA ArchiveKept == ArchiveInv /\ [Next]_vars => ArchiveInv'
  <1>1. ASSUME ArchiveInv, UNCHANGED vars PROVE ArchiveInv'
    <2>1. TypeOK'
      BY <1>1, TypesKept DEF ArchiveInv
    <2>2. EventsInOrder' /\ Early'
      BY <1>1 DEF ArchiveInv, EventsInOrder, Early, vars
    <2>3. Past => Past'
      BY <1>1 DEF Past, Inside, NoHeader, vars
    <2>4. OnTrack => OnTrack'
      <3>1. \A t : At(t) => At(t)'
        BY <1>1 DEF At, Place, vars
      <3>2. \A z : Ended(z) => Ended(z)'
        BY <1>1 DEF Ended, vars
      <3>3. \A t : t[Len(sent) + 1] = t[Len(sent') + 1]
        BY <1>1 DEF vars
      <3> QED
        BY <1>1, <3>1, <3>2, <3>3 DEF OnTrack, vars
    <2> QED
      BY <1>1, <2>1, <2>2, <2>3, <2>4 DEF ArchiveInv, vars
  <1> QED
    BY <1>1, WriterKeeps, ReaderKeeps DEF Next

LEMMA ArchiveInvariant == Spec => []ArchiveInv
  BY ArchiveInitially, ArchiveKept, PTL DEF Spec

-----------------------------------------------------------------------------
(* The theorems *)

\* What next_event hands out, until an interrupted read loses its place, are
\* the events the Writer completed, in their order and as they were written;
\* anything more is of an event that was cut off behind them.
THEOREM ArchiveInOrder == Spec => []EventsInOrder
  <1>1. ArchiveInv => EventsInOrder
    BY DEF ArchiveInv
  <1> QED
    BY <1>1, ArchiveInvariant, PTL

\* When no call of the Writer was cut off, no call of next_event ends with
\* UnexpectedEof or finds the archive invalid, and it reports the end only when
\* all that was written has been handed out.
THEOREM ArchiveEndExact == Spec => []EndExact
  <1>1. ArchiveInv => EndExact
    BY DEF ArchiveInv, OnTrack, Past, EndExact
  <1> QED
    BY <1>1, ArchiveInvariant, PTL

\* An archive that ends in the middle of an event or of its header has made
\* next_event return an error, or be interrupted, before it returns None.
THEOREM ArchiveCutReported == Spec => []CutReported
  <1>1. ArchiveInv => CutReported
    BY DEF ArchiveInv, OnTrack, Past, Inside, NoHeader, CutReported
  <1> QED
    BY <1>1, ArchiveInvariant, PTL

-----------------------------------------------------------------------------
(* Hashed values: numbers as bytes *)

Octet == 0..(Radix - 1)

LEMMA RadixIs == Radix \in Nat /\ Radix >= 2 /\ Width \in Nat /\ Width >= 1
  BY RadixAssumption, WidthAssumption

\* A recursive function is the one of its equation when there is one, which
\* grows here from 0 to Width.
LEMMA PowerIs ==
    /\ Power[0] = 1
    /\ \A k \in 1..Width : Power[k] = Radix * Power[k - 1]
  <1> DEFINE Of(f, n) == f = [k \in 0..n |-> IF k = 0 THEN 1
                                             ELSE Radix * f[k - 1]]
             N == {n \in Nat : \E f : Of(f, n)}
  <1>1. 0 \in N
    <2> DEFINE f == [k \in 0..0 |-> 1]
    <2>1. Of(f, 0)
      OBVIOUS
    <2> HIDE DEF f
    <2> QED
      BY <2>1
  <1>2. ASSUME NEW n \in Nat, n \in N PROVE n + 1 \in N
    <2>1. PICK f : Of(f, n)
      BY <1>2
    <2> DEFINE g == [k \in 0..(n + 1) |->
                       IF k = n + 1 THEN Radix * f[n] ELSE f[k]]
               h == [k \in 0..(n + 1) |-> IF k = 0 THEN 1
                                          ELSE Radix * g[k - 1]]
    <2>2. ASSUME NEW k \in 0..(n + 1) PROVE g[k] = h[k]
      <3>1. CASE k = n + 1
        <4>1. n \in 0..(n + 1) /\ n # n + 1
          OBVIOUS
        <4>2. g[n] = f[n]
          BY <4>1
        <4> QED
          BY <3>1, <4>2
      <3>2. CASE k # n + 1
        <4>1. k \in 0..n
          BY <3>2
        <4>2. f[k] = IF k = 0 THEN 1 ELSE Radix * f[k - 1]
          BY <2>1, <4>1
        <4>3. k # 0 => k - 1 \in 0..(n + 1) /\ k - 1 # n + 1
          BY <4>1
        <4>4. k # 0 => g[k - 1] = f[k - 1]
          BY <4>3
        <4>5. g[k] = f[k]
          BY <3>2
        <4> HIDE DEF Of
        <4> QED
          BY <4>2, <4>4, <4>5
      <3> QED
        BY <3>1, <3>2
    <2>3. g = h
      <3>1. g = [k \in 0..(n + 1) |-> g[k]] /\ h = [k \in 0..(n + 1) |-> h[k]]
        OBVIOUS
      <3> HIDE DEF g, h, Of
      <3> QED
        BY <2>2, <3>1
    <2>4. Of(g, n + 1)
      BY <2>3
    <2> HIDE DEF g
    <2> QED
      BY <2>4
  <1>3. \E f : Of(f, Width)
    <2>1. Width \in N
      <3> HIDE DEF N
      <3> QED
        BY <1>1, <1>2, RadixIs, NumberInduction
    <2> QED
      BY <2>1
  <1>4. Of(Power, Width)
    BY <1>3, Zenon DEF Power
  <1> QED
    BY <1>4, RadixIs

LEMMA PowerType == \A k \in 0..Width : Power[k] \in Nat /\ Power[k] >= 1
  <1> DEFINE N == {k \in Nat : k <= Width => Power[k] \in Nat /\ Power[k] >= 1}
  <1>1. 0 \in N
    BY PowerIs
  <1>2. ASSUME NEW k \in Nat, k \in N PROVE k + 1 \in N
    <2> SUFFICES ASSUME k + 1 <= Width
                 PROVE  Power[k + 1] \in Nat /\ Power[k + 1] >= 1
      OBVIOUS
    <2>1. PICK p \in Nat : p = Power[k] /\ p >= 1
      BY <1>2, RadixIs
    <2>2. Power[k + 1] = Radix * p
      <3>1. k + 1 \in 1..Width /\ (k + 1) - 1 = k
        BY RadixIs
      <3> HIDE DEF N
      <3> QED
        BY <2>1, <3>1, PowerIs
    <2>3. Radix * p \in Nat /\ Radix * p >= 1
      BY <2>1, RadixIs
    <2> QED
      BY <2>2, <2>3
  <1> HIDE DEF N
  <1>3. \A k \in Nat : k \in N
    BY <1>1, <1>2, NumberInduction
  <1> QED
    BY <1>3, RadixIs DEF N

LEMMA U64Bounds == U64Max \in Nat /\ 2 <= U64Max /\ MaxLen \in 0..U64Max
  BY PowerType, RadixIs, LenAssumption DEF U64Max

LEMMA U64Type ==
    ASSUME NEW n \in Nat
    PROVE  U64(n) \in Seq(Octet) /\ Len(U64(n)) = Width
  <1>1. ASSUME NEW k \in 1..Width
        PROVE  (n \div Power[Width - k]) % Radix \in Octet
    <2>1. PICK p \in Nat : p = Power[Width - k] /\ p >= 1
      BY PowerType, RadixIs
    <2>2. n \div p \in Nat
      BY <2>1
    <2>3. (n \div p) % Radix \in 0..(Radix - 1)
      BY <2>2, RadixIs
    <2> QED
      BY <2>1, <2>3 DEF Octet
  <1> QED
    BY <1>1, RadixIs DEF U64

LEMMA Divided ==
    ASSUME NEW n \in Nat, NEW r \in Nat, r >= 1
    PROVE  n = (r * (n \div r)) + (n % r)
  OBVIOUS

\* The bytes from the highest on are the number divided by smaller and smaller
\* powers.
LEMMA U64Value ==
    ASSUME NEW n \in 0..U64Max, NEW m \in 0..U64Max, U64(n) = U64(m)
    PROVE  n = m
  <1> DEFINE Same(j) == n \div Power[Width - j] = m \div Power[Width - j]
             N == {j \in Nat : j <= Width => Same(j)}
  <1>1. 0 \in N
    <2>1. PICK p \in Nat : p = Power[Width] /\ p >= 1
      BY PowerType, RadixIs
    <2>2. n \in Nat /\ m \in Nat /\ n < p /\ m < p
      BY <2>1 DEF U64Max
    <2>3. n \div p = 0 /\ m \div p = 0
      BY <2>1, <2>2
    <2>4. Width - 0 = Width
      BY RadixIs
    <2> QED
      BY <2>1, <2>3, <2>4
  <1>2. ASSUME NEW j \in Nat, j \in N PROVE j + 1 \in N
    <2> SUFFICES ASSUME j + 1 <= Width PROVE Same(j + 1)
      OBVIOUS
    <2>1. PICK p \in Nat : p = Power[Width - (j + 1)] /\ p >= 1
      BY PowerType, RadixIs
    <2>2. Power[Width - j] = Radix * p
      <3>1. Width - j \in 1..Width /\ (Width - j) - 1 = Width - (j + 1)
        BY RadixIs
      <3> HIDE DEF N
      <3> QED
        BY <2>1, <3>1, PowerIs
    <2>3. n \div (Radix * p) = m \div (Radix * p)
      <3>1. Same(j)
        BY <1>2, RadixIs
      <3> QED
        BY <2>2, <3>1
    <2>4. (n \div p) % Radix = (m \div p) % Radix
      <3>1. j + 1 \in 1..Width
        BY RadixIs
      <3>2. U64(n)[j + 1] = U64(m)[j + 1]
        OBVIOUS
      <3> HIDE DEF N
      <3> QED
        BY <2>1, <3>1, <3>2 DEF U64
    <2>5. n \in Nat /\ m \in Nat
      BY U64Bounds
    <2>6. ASSUME NEW i \in Nat
          PROVE  i \div p = (Radix * (i \div (Radix * p)))
                             + ((i \div p) % Radix)
      <3>1. PICK q \in Nat : q = i \div p
        BY <2>1
      <3>2. q \div Radix = i \div (Radix * p)
        BY <2>1, <3>1, RadixIs, Z3
      <3>3. q = (Radix * (q \div Radix)) + (q % Radix)
        BY RadixIs, Divided
      <3> QED
        BY <3>1, <3>2, <3>3
    <2>7. n \div p = m \div p
      <3> HIDE DEF N, Same
      <3>1. /\ n \div p = (Radix * (n \div (Radix * p))) + ((n \div p) % Radix)
            /\ m \div p = (Radix * (m \div (Radix * p))) + ((m \div p) % Radix)
        BY <2>5, <2>6
      <3> QED
        BY <2>3, <2>4, <3>1, Zenon
    <2> QED
      BY <2>1, <2>7
  <1>3. Same(Width)
    <2> HIDE DEF N
    <2>1. Width \in N
      BY <1>1, <1>2, RadixIs, NumberInduction
    <2> QED
      BY <2>1, RadixIs DEF N
  <1>4. Width - Width = 0 /\ Power[0] = 1
    BY RadixIs, PowerIs
  <1>5. n \div 1 = m \div 1
    BY <1>3, <1>4
  <1> QED
    BY <1>5, U64Bounds

(* Bytes behind bytes *)

\* z is s and x behind it.
Then(s, x, z) == s \in Seq(Octet) /\ x \in Seq(Octet) /\ z = s \o x

LEMMA ThenSome ==
    ASSUME NEW s \in Seq(Octet), NEW x \in Seq(Octet)
    PROVE  Then(s, x, s \o x)
  BY DEF Then

LEMMA ThenType ==
    ASSUME NEW s, NEW x, NEW z, Then(s, x, z)
    PROVE  /\ s \in Seq(Octet) /\ x \in Seq(Octet) /\ z \in Seq(Octet)
           /\ Len(z) = Len(s) + Len(x)
           /\ \A k \in 1..Len(s) : z[k] = s[k]
  BY ConcatProperties DEF Then

LEMMA ThenNothing ==
    ASSUME NEW s \in Seq(Octet)
    PROVE  Then(<<>>, s, s) /\ Then(s, <<>>, s)
  BY ConcatEmptySeq, EmptySeq DEF Then

LEMMA ThenAfterNothing ==
    ASSUME NEW x, NEW z, Then(<<>>, x, z)
    PROVE  x = z
  BY ConcatEmptySeq DEF Then

LEMMA ThenCancel ==
    ASSUME NEW s, NEW x, NEW y, NEW z, Then(s, x, z), Then(s, y, z)
    PROVE  x = y
  <1>1. s \o x = s \o y
    BY DEF Then
  <1>2. s \in Seq(Octet) /\ x \in Seq(Octet) /\ y \in Seq(Octet)
    BY DEF Then
  <1> QED
    BY <1>1, <1>2, ConcatSimplifications

\* (s \o g) \o x = s \o (g \o x)
LEMMA ThenRegroup ==
    ASSUME NEW s, NEW g, NEW p, NEW x, NEW z, Then(s, g, p), Then(p, x, z)
    PROVE  \E u : Then(g, x, u) /\ Then(s, u, z)
  <1>1. s \in Seq(Octet) /\ g \in Seq(Octet) /\ x \in Seq(Octet)
    BY DEF Then
  <1>2. g \o x \in Seq(Octet)
    BY <1>1, ConcatProperties
  <1>3. (s \o g) \o x = s \o (g \o x)
    BY <1>1, ConcatAssociative
  <1>4. z = (s \o g) \o x
    BY DEF Then
  <1>5. Then(g, x, g \o x) /\ Then(s, g \o x, z)
    BY <1>1, <1>2, <1>3, <1>4 DEF Then
  <1> QED
    BY <1>5

\* Bytes of one length at the front are the same.
LEMMA ThenSame ==
    ASSUME NEW s, NEW t, NEW x, NEW y, NEW z, Then(s, x, z), Then(t, y, z),
           Len(s) = Len(t)
    PROVE  s = t /\ x = y
  <1>1. s \in Seq(Octet) /\ t \in Seq(Octet)
    BY DEF Then
  <1>2. \A k \in 1..Len(s) : s[k] = t[k]
    BY ThenType
  <1>3. s = t
    BY <1>1, <1>2, SeqEqual
  <1> QED
    BY <1>3, ThenCancel

LEMMA NumberFirst ==
    ASSUME NEW n \in 0..U64Max, NEW m \in 0..U64Max, NEW x, NEW y, NEW z,
           Then(U64(n), x, z), Then(U64(m), y, z)
    PROVE  n = m /\ x = y
  <1>1. n \in Nat /\ m \in Nat
    BY U64Bounds
  <1>2. PICK s, t : s = U64(n) /\ t = U64(m) /\ Len(s) = Len(t)
    BY <1>1, U64Type
  <1>3. s = t /\ x = y
    BY <1>2, ThenSame
  <1> QED
    BY <1>2, <1>3, U64Value

-----------------------------------------------------------------------------
(* Types told apart *)

\* A type that puts bytes into the hasher, and one whose values are told apart
\* whatever stands behind them.
Coded(f) == \A a \in DOMAIN f : f[a] \in Seq(Octet)

Apart(s, t) == \A x, y, z : Then(s, x, z) /\ Then(t, y, z) => s = t

Told(f) == Coded(f) /\ \A a, b \in DOMAIN f :
             \A x, y, z : Then(f[a], x, z) /\ Then(f[b], y, z) => a = b

LEMMA ToldApart ==
    ASSUME NEW f, Told(f), NEW a \in DOMAIN f, NEW b \in DOMAIN f
    PROVE  Apart(f[a], f[b]) /\ (f[a] = f[b] => a = b)
  <1>1. ASSUME f[a] = f[b] PROVE a = b
    <2>1. Then(f[a], <<>>, f[a]) /\ Then(f[b], <<>>, f[a])
      BY <1>1, ThenNothing DEF Told, Coded
    <2> QED
      BY <2>1 DEF Told
  <1> QED
    BY <1>1 DEF Told, Apart

LEMMA PrefixRest ==
    ASSUME NEW s \in Seq(Octet), NEW t \in Seq(Octet), IsPrefix(s, t)
    PROVE  \E x : Then(s, x, t)
  <1>1. Len(s) <= Len(t) /\ SubSeq(s, 1, Len(s)) = SubSeq(t, 1, Len(s))
    BY DEF IsPrefix
  <1>2. ASSUME NEW k \in 1..Len(s) PROVE s[k] = t[k]
    <2>1. SubSeq(s, 1, Len(s))[k] = s[k] /\ SubSeq(t, 1, Len(s))[k] = t[k]
      BY <1>1
    <2> QED
      BY <1>1, <2>1
  <1> DEFINE x == [k \in 1..(Len(t) - Len(s)) |-> t[Len(s) + k]]
  <1>3. x \in Seq(Octet) /\ Len(x) = Len(t) - Len(s)
    BY <1>1
  <1>4. \A k \in 1..Len(x) : x[k] = t[Len(s) + k]
    BY <1>3
  <1> HIDE DEF x
  <1>5. /\ s \o x \in Seq(Octet) /\ Len(s \o x) = Len(s) + Len(x)
        /\ \A k \in 1..(Len(s) + Len(x)) :
             (s \o x)[k] = IF k <= Len(s) THEN s[k] ELSE x[k - Len(s)]
    BY <1>3, ConcatProperties
  <1>6. PICK w \in Seq(Octet) : w = s \o x
    BY <1>5
  <1>7. Len(w) = Len(t) /\ \A k \in 1..Len(t) : w[k] = t[k]
    BY <1>1, <1>2, <1>3, <1>4, <1>5, <1>6
  <1>8. w = t
    BY <1>7, SeqEqual
  <1> QED
    BY <1>3, <1>6, <1>8 DEF Then

LEMMA RestPrefix ==
    ASSUME NEW s, NEW t, NEW x, NEW y, NEW z, Then(s, x, z), Then(t, y, z),
           Len(s) <= Len(t)
    PROVE  IsPrefix(s, t)
  <1>1. s \in Seq(Octet) /\ t \in Seq(Octet)
    BY DEF Then
  <1>2. \A k \in 1..Len(s) : z[k] = s[k]
    BY ThenType
  <1>3. \A k \in 1..Len(t) : z[k] = t[k]
    BY ThenType
  <1>4. \A k \in 1..Len(s) : s[k] = t[k]
    BY <1>1, <1>2, <1>3
  <1>5. SubSeq(s, 1, Len(s)) = SubSeq(t, 1, Len(s))
    BY <1>1, <1>4
  <1> QED
    BY <1>5 DEF IsPrefix

\* What Distinct says of a type, and what its use in another type needs.
LEMMA ToldDistinct ==
    ASSUME NEW f, Coded(f)
    PROVE  Told(f) <=> Distinct(f)
  <1>1. ASSUME Told(f), NEW a \in DOMAIN f, NEW b \in DOMAIN f,
               IsPrefix(f[a], f[b])
        PROVE  a = b
    <2>1. f[a] \in Seq(Octet) /\ f[b] \in Seq(Octet)
      BY DEF Coded
    <2>2. PICK x : Then(f[a], x, f[b])
      BY <1>1, <2>1, PrefixRest
    <2>3. Then(f[b], <<>>, f[b])
      BY <2>1, ThenNothing
    <2> QED
      BY <1>1, <2>2, <2>3 DEF Told
  <1>2. ASSUME Distinct(f), NEW a \in DOMAIN f, NEW b \in DOMAIN f,
               NEW x, NEW y, NEW z, Then(f[a], x, z), Then(f[b], y, z)
        PROVE  a = b
    <2>1. PICK n \in Nat, m \in Nat : n = Len(f[a]) /\ m = Len(f[b])
      BY DEF Coded
    <2>2. IsPrefix(f[a], f[b]) \/ IsPrefix(f[b], f[a])
      BY <1>2, <2>1, RestPrefix
    <2> QED
      BY <1>2, <2>2 DEF Distinct
  <1> QED
    BY <1>1, <1>2 DEF Told, Distinct

-----------------------------------------------------------------------------
(* Elements one behind the other *)

Elements(s, n) == /\ Len(s) = n /\ (n = 0 => s = <<>>)
                  /\ \A c \in 1..n : s[c] \in Seq(Octet)

\* r[c] is what stands behind the c-th element.
LEMMA ElementsFlatten ==
    ASSUME NEW n \in Nat, NEW s, Elements(s, n)
    PROVE  \E r : /\ r[0] = FlattenSeq(s) /\ r[n] = <<>>
                  /\ \A c \in 0..n : r[c] \in Seq(Octet)
                  /\ \A c \in 1..n : Then(s[c], r[c], r[c - 1])
  <1>1. PICK f, r : /\ Fronts(f, s, n, Octet) /\ Backs(r, s, n, Octet)
                    /\ f[n] = r[0]
    BY FrontsAndBacks DEF Elements
  <1>2. FlattenSeq(s) = f[n]
    <2>1. /\ Len(s) = n /\ (n = 0 => s = <<>>)
          /\ \A c \in 1..n : s[c] \in Seq(Octet)
      BY DEF Elements
    <2> QED
      BY <1>1, <2>1, FrontsFlatten, ZenonT(30)
  <1>3. r[n] = <<>> /\ \A c \in 0..n : r[c] \in Seq(Octet)
    BY <1>1 DEF Backs
  <1>4. ASSUME NEW c \in 1..n PROVE Then(s[c], r[c], r[c - 1])
    <2>1. r[c - 1] = s[c] \o r[c]
      BY <1>1 DEF Backs
    <2>2. s[c] \in Seq(Octet) /\ r[c] \in Seq(Octet)
      BY <1>3 DEF Elements
    <2> QED
      BY <2>1, <2>2 DEF Then
  <1> QED
    BY <1>1, <1>2, <1>3, <1>4

LEMMA FlattenType ==
    ASSUME NEW n \in Nat, NEW s, Elements(s, n)
    PROVE  FlattenSeq(s) \in Seq(Octet)
  <1>1. PICK r : r[0] = FlattenSeq(s) /\ \A c \in 0..n : r[c] \in Seq(Octet)
    BY ElementsFlatten
  <1> QED
    BY <1>1

\* Two collections, the second not the shorter one, each element told apart.
LEMMA SameElements ==
    ASSUME NEW n \in Nat, NEW m \in Nat, n <= m, NEW s, NEW t,
           Elements(s, n), Elements(t, m), NEW x, NEW y, NEW z,
           Then(FlattenSeq(s), x, z), Then(FlattenSeq(t), y, z),
           \A c \in 1..n : Apart(s[c], t[c])
    PROVE  /\ \A c \in 1..n : s[c] = t[c]
           /\ n = m => x = y
           /\ n < m => \E w : Then(t[n + 1], w, x)
  <1>1. PICK r : /\ r[0] = FlattenSeq(s) /\ r[n] = <<>>
                 /\ \A c \in 0..n : r[c] \in Seq(Octet)
                 /\ \A c \in 1..n : Then(s[c], r[c], r[c - 1])
    BY ElementsFlatten
  <1>2. PICK q : /\ q[0] = FlattenSeq(t) /\ q[m] = <<>>
                 /\ \A c \in 0..m : q[c] \in Seq(Octet)
                 /\ \A c \in 1..m : Then(t[c], q[c], q[c - 1])
    BY ElementsFlatten
  <1> DEFINE Left(c) == \E w : Then(r[c], x, w) /\ Then(q[c], y, w)
             N == {c \in Nat : c <= n => Left(c)}
  <1> HIDE DEF Left
  <1>3. ASSUME NEW c \in 1..n, Left(c - 1)
        PROVE  s[c] = t[c] /\ Left(c)
    <2>1. PICK w : Then(r[c - 1], x, w) /\ Then(q[c - 1], y, w)
      BY <1>3 DEF Left
    <2>2. Then(s[c], r[c], r[c - 1]) /\ Then(t[c], q[c], q[c - 1])
      <3>1. c \in 1..m
        OBVIOUS
      <3> QED
        BY <1>1, <1>2, <3>1
    <2>3. PICK u : Then(r[c], x, u) /\ Then(s[c], u, w)
      BY <2>1, <2>2, ThenRegroup
    <2>4. PICK v : Then(q[c], y, v) /\ Then(t[c], v, w)
      BY <2>1, <2>2, ThenRegroup
    <2>5. s[c] = t[c]
      BY <2>3, <2>4 DEF Apart
    <2>6. u = v
      BY <2>3, <2>4, <2>5, ThenCancel
    <2> QED
      BY <2>3, <2>4, <2>5, <2>6 DEF Left
  <1>4. 0 \in N
    BY <1>1, <1>2 DEF Left
  <1>5. ASSUME NEW c \in Nat, c \in N PROVE c + 1 \in N
    <2> SUFFICES ASSUME c + 1 <= n PROVE Left(c + 1)
      OBVIOUS
    <2>1. Left(c)
      BY <1>5
    <2>2. c + 1 \in 1..n /\ (c + 1) - 1 = c
      OBVIOUS
    <2> HIDE DEF N
    <2> QED
      BY <1>3, <2>1, <2>2
  <1>6. \A c \in 0..n : Left(c)
    <2> HIDE DEF N
    <2>1. \A c \in Nat : c \in N
      BY <1>4, <1>5, NumberInduction
    <2> QED
      BY <2>1 DEF N
  <1>7. \A c \in 1..n : s[c] = t[c]
    BY <1>3, <1>6
  <1>8. Then(q[n], y, x)
    <2>1. PICK w : Then(r[n], x, w) /\ Then(q[n], y, w)
      BY <1>6 DEF Left
    <2>2. x = w
      BY <1>1, <2>1, ThenAfterNothing
    <2> QED
      BY <2>1, <2>2
  <1>9. ASSUME n = m PROVE x = y
    BY <1>2, <1>8, <1>9, ThenAfterNothing
  <1>10. ASSUME n < m PROVE \E w : Then(t[n + 1], w, x)
    <2>1. n + 1 \in 1..m /\ (n + 1) - 1 = n
      BY <1>10
    <2>2. Then(t[n + 1], q[n + 1], q[n])
      BY <1>2, <2>1
    <2> QED
      BY <1>8, <2>2, ThenRegroup
  <1> QED
    BY <1>7, <1>9, <1>10

-----------------------------------------------------------------------------
(* Types built from types *)

\* The sequences and sets of BoundedSeq and Subsets have at most u64::MAX
\* elements.
LEMMA BoundedIs ==
    ASSUME NEW S, NEW n \in Nat, NEW s \in BoundedSeq(S, n)
    PROVE  /\ Len(s) \in 0..n /\ s \in [1..Len(s) -> S]
           /\ Len(s) = 0 <=> s = <<>>
  BY DEF BoundedSeq, SeqOf

LEMMA SliceTold ==
    ASSUME NEW f, Told(f), NEW n \in 0..U64Max
    PROVE  Told([s \in BoundedSeq(DOMAIN f, n) |-> Slice(f, s)])
  <1> DEFINE g == [s \in BoundedSeq(DOMAIN f, n) |-> Slice(f, s)]
             Codes(s) == [k \in 1..Len(s) |-> f[s[k]]]
  <1>1. n \in Nat
    BY U64Bounds
  <1>2. ASSUME NEW s \in BoundedSeq(DOMAIN f, n)
        PROVE  /\ Len(s) \in 0..U64Max /\ U64(Len(s)) \in Seq(Octet)
               /\ Elements(Codes(s), Len(s))
               /\ FlattenSeq(Codes(s)) \in Seq(Octet)
               /\ Then(U64(Len(s)), FlattenSeq(Codes(s)), g[s])
    <2>1. Len(s) \in 0..n /\ s \in [1..Len(s) -> DOMAIN f]
      BY <1>1, BoundedIs
    <2>2. Len(s) \in 0..U64Max /\ Len(s) \in Nat
      BY <1>1, <2>1, U64Bounds
    <2>3. U64(Len(s)) \in Seq(Octet)
      BY <2>2, U64Type
    <2>4. \A c \in 1..Len(s) : Codes(s)[c] \in Seq(Octet)
      BY <2>1 DEF Told, Coded
    <2>5. Len(Codes(s)) = Len(s) /\ (Len(s) = 0 => Codes(s) = <<>>)
      BY <2>2
    <2> HIDE DEF Codes
    <2>6. Elements(Codes(s), Len(s))
      BY <2>4, <2>5 DEF Elements
    <2>7. FlattenSeq(Codes(s)) \in Seq(Octet)
      BY <2>2, <2>6, FlattenType
    <2>8. g[s] = U64(Len(s)) \o FlattenSeq(Codes(s))
      BY DEF Slice, Codes
    <2> QED
      BY <2>2, <2>3, <2>6, <2>7, <2>8, ThenSome
  <1>3. DOMAIN g = BoundedSeq(DOMAIN f, n)
    OBVIOUS
  <1>4. \A s \in BoundedSeq(DOMAIN f, n) : \A k \in 1..Len(s) :
           Codes(s)[k] = f[s[k]]
    OBVIOUS
  <1> HIDE DEF g, Codes
  <1>5. Coded(g)
    BY <1>2, <1>3, ThenType DEF Coded
  <1>6. ASSUME NEW s \in DOMAIN g, NEW t \in DOMAIN g, NEW x, NEW y, NEW z,
               Then(g[s], x, z), Then(g[t], y, z)
        PROVE  s = t
    <2>1. PICK u : /\ Then(FlattenSeq(Codes(s)), x, u)
                   /\ Then(U64(Len(s)), u, z)
      BY <1>2, <1>3, <1>6, ThenRegroup
    <2>2. PICK v : /\ Then(FlattenSeq(Codes(t)), y, v)
                   /\ Then(U64(Len(t)), v, z)
      BY <1>2, <1>3, <1>6, ThenRegroup
    <2>3. PICK l \in Nat : l = Len(s) /\ l = Len(t) /\ u = v
      BY <1>2, <1>3, <2>1, <2>2, NumberFirst, U64Bounds
    <2>4. s \in [1..l -> DOMAIN f] /\ t \in [1..l -> DOMAIN f]
      <3>1. /\ s \in [1..Len(s) -> DOMAIN f]
            /\ t \in [1..Len(t) -> DOMAIN f]
        BY <1>1, <1>3, BoundedIs, Zenon
      <3> QED
        BY <2>3, <3>1
    <2>5. /\ \A c \in 1..l : Codes(s)[c] = f[s[c]]
          /\ \A c \in 1..l : Codes(t)[c] = f[t[c]]
      BY <1>3, <1>4, <2>3
    <2>6. \A c \in 1..l : Apart(Codes(s)[c], Codes(t)[c])
      BY <2>4, <2>5, ToldApart
    <2>7. Elements(Codes(s), l) /\ Elements(Codes(t), l)
      BY <1>2, <1>3, <2>3
    <2>8. \A c \in 1..l : Codes(s)[c] = Codes(t)[c]
      BY <2>1, <2>2, <2>3, <2>6, <2>7, SameElements
    <2>9. \A c \in 1..l : s[c] = t[c]
      BY <2>4, <2>5, <2>8, ToldApart
    <2> QED
      BY <2>4, <2>9
  <1>7. Told(g)
    BY <1>5, <1>6 DEF Told
  <1> QED
    BY <1>7 DEF g

LEMMA PairTold ==
    ASSUME NEW f, NEW g, Told(f), Told(g)
    PROVE  Told([p \in (DOMAIN f) \X (DOMAIN g) |-> Pair(f, g, p)])
  <1> DEFINE h == [p \in (DOMAIN f) \X (DOMAIN g) |-> Pair(f, g, p)]
  <1>1. ASSUME NEW p \in DOMAIN h
        PROVE  /\ p = <<p[1], p[2]>> /\ p[1] \in DOMAIN f /\ p[2] \in DOMAIN g
               /\ Then(f[p[1]], g[p[2]], h[p])
    <2>1. p = <<p[1], p[2]>> /\ p[1] \in DOMAIN f /\ p[2] \in DOMAIN g
      OBVIOUS
    <2>2. f[p[1]] \in Seq(Octet) /\ g[p[2]] \in Seq(Octet)
      BY <2>1 DEF Told, Coded
    <2>3. h[p] = f[p[1]] \o g[p[2]]
      BY DEF Pair
    <2> QED
      BY <2>1, <2>2, <2>3, ThenSome
  <1> HIDE DEF h
  <1>2. Coded(h)
    BY <1>1, ThenType DEF Coded
  <1>3. ASSUME NEW p \in DOMAIN h, NEW q \in DOMAIN h, NEW x, NEW y, NEW z,
               Then(h[p], x, z), Then(h[q], y, z)
        PROVE  p = q
    <2>1. PICK u : Then(g[p[2]], x, u) /\ Then(f[p[1]], u, z)
      BY <1>1, <1>3, ThenRegroup
    <2>2. PICK v : Then(g[q[2]], y, v) /\ Then(f[q[1]], v, z)
      BY <1>1, <1>3, ThenRegroup
    <2>3. p[1] = q[1]
      BY <1>1, <2>1, <2>2 DEF Told
    <2>4. u = v
      BY <2>1, <2>2, <2>3, ThenCancel
    <2>5. p[2] = q[2]
      BY <1>1, <2>1, <2>2, <2>4 DEF Told
    <2> QED
      BY <1>1, <2>3, <2>5
  <1>4. Told(h)
    BY <1>2, <1>3 DEF Told
  <1> QED
    BY <1>4 DEF h

LEMMA ByteType ==
    ASSUME NEW n \in Octet
    PROVE  /\ U8(n) \in Seq(Octet) /\ Len(U8(n)) = 1 /\ U8(n)[1] = n
  BY DEF U8

LEMMA OptionIs ==
    ASSUME NEW S, NEW o \in BoundedSeq(S, 1), o # <<>>
    PROVE  o = <<o[1]>> /\ o[1] \in S
  <1>1. PICK n \in 0..1 : o \in [1..n -> S]
    BY DEF BoundedSeq, SeqOf
  <1>2. n # 0
    BY <1>1
  <1>3. n = 1
    BY <1>2
  <1> QED
    BY <1>1, <1>3

LEMMA OptionTold ==
    ASSUME NEW f, Told(f)
    PROVE  Told(Options(f))
  <1> DEFINE h == Options(f)
  <1>1. DOMAIN h = BoundedSeq(DOMAIN f, 1)
    BY DEF Options
  <1>2. ASSUME NEW o \in DOMAIN h, o # <<>>
        PROVE  o = <<o[1]>> /\ o[1] \in DOMAIN f /\ Then(U8(1), f[o[1]], h[o])
    <2>1. o \in BoundedSeq(DOMAIN f, 1)
      BY <1>1
    <2>2. o = <<o[1]>> /\ o[1] \in DOMAIN f
      BY <1>2, <2>1, OptionIs
    <2>3. f[o[1]] \in Seq(Octet) /\ U8(1) \in Seq(Octet)
      BY <2>2, ByteType, RadixIs DEF Told, Coded, Octet
    <2>4. h[o] = U8(1) \o f[o[1]]
      BY <1>1, <1>2 DEF Options, Option
    <2> QED
      BY <2>2, <2>3, <2>4, ThenSome
  <1>3. ASSUME NEW o \in DOMAIN h, o = <<>>
        PROVE  Then(U8(0), <<>>, h[o])
    <2>1. U8(0) \in Seq(Octet)
      BY ByteType, RadixIs DEF Octet
    <2>2. h[o] = U8(0)
      BY <1>1, <1>3 DEF Options, Option
    <2> QED
      BY <2>1, <2>2, ThenNothing
  <1> HIDE DEF h
  <1>4. Coded(h)
    BY <1>2, <1>3, ThenType DEF Coded
  <1>5. ASSUME NEW x, NEW y, NEW z, Then(U8(0), x, z), Then(U8(1), y, z)
        PROVE  FALSE
    <2>1. /\ Len(U8(0)) = 1 /\ Len(U8(1)) = 1 /\ U8(0)[1] = 0 /\ U8(1)[1] = 1
      BY ByteType, RadixIs DEF Octet
    <2>2. U8(0) = U8(1)
      BY <1>5, <2>1, ThenSame
    <2> QED
      BY <2>1, <2>2
  <1>6. ASSUME NEW o \in DOMAIN h, NEW p \in DOMAIN h, NEW x, NEW y, NEW z,
               Then(h[o], x, z), Then(h[p], y, z)
        PROVE  o = p
    <2>1. CASE o = <<>> /\ p = <<>>
      BY <2>1
    <2>2. CASE o # <<>> /\ p # <<>>
      <3>1. PICK u : Then(f[o[1]], x, u) /\ Then(U8(1), u, z)
        BY <1>2, <1>6, <2>2, ThenRegroup
      <3>2. PICK v : Then(f[p[1]], y, v) /\ Then(U8(1), v, z)
        BY <1>2, <1>6, <2>2, ThenRegroup
      <3>3. u = v
        BY <3>1, <3>2, ThenCancel
      <3>4. o[1] = p[1]
        BY <1>2, <2>2, <3>1, <3>2, <3>3 DEF Told
      <3> QED
        BY <1>2, <2>2, <3>4
    <2>3. ASSUME o = <<>>, p # <<>> PROVE FALSE
      <3>1. PICK u : Then(U8(0), u, z)
        BY <1>3, <1>6, <2>3, ThenRegroup
      <3>2. PICK v : Then(U8(1), v, z)
        BY <1>2, <1>6, <2>3, ThenRegroup
      <3> QED
        BY <1>5, <3>1, <3>2
    <2>4. ASSUME o # <<>>, p = <<>> PROVE FALSE
      <3>1. PICK u : Then(U8(1), u, z)
        BY <1>2, <1>6, <2>4, ThenRegroup
      <3>2. PICK v : Then(U8(0), v, z)
        BY <1>3, <1>6, <2>4, ThenRegroup
      <3> QED
        BY <1>5, <3>1, <3>2
    <2> QED
      BY <2>1, <2>2, <2>3, <2>4
  <1>7. Told(h)
    BY <1>4, <1>6 DEF Told
  <1> QED
    BY <1>7 DEF h

-----------------------------------------------------------------------------
(* Elements behind their indices *)

Indexed(e) == [k \in 1..Len(e) |-> U64(k - 1) \o e[k]]

LEMMA IterIs ==
    ASSUME NEW n \in 0..U64Max, NEW e, Elements(e, n)
    PROVE  /\ Elements(Indexed(e), n)
           /\ \A c \in 1..n : /\ c - 1 \in 0..U64Max /\ c - 1 # U64Max
                              /\ Then(U64(c - 1), e[c], Indexed(e)[c])
           /\ Then(FlattenSeq(Indexed(e)), U64(U64Max), Iter(e))
  <1>1. n \in Nat /\ U64Max \in Nat /\ Len(e) = n
    BY U64Bounds DEF Elements
  <1>2. \A k \in 0..U64Max : U64(k) \in Seq(Octet)
    BY <1>1, U64Type
  <1>3. ASSUME NEW c \in 1..n
        PROVE  /\ c - 1 \in 0..U64Max /\ c - 1 # U64Max
               /\ Then(U64(c - 1), e[c], Indexed(e)[c])
    <2>1. c - 1 \in 0..U64Max /\ c - 1 # U64Max
      BY <1>1
    <2>2. U64(c - 1) \in Seq(Octet) /\ e[c] \in Seq(Octet)
      BY <1>2, <2>1 DEF Elements
    <2>3. Indexed(e)[c] = U64(c - 1) \o e[c]
      BY <1>1 DEF Indexed
    <2> QED
      BY <2>1, <2>2, <2>3, ThenSome
  <1>4. Len(Indexed(e)) = n /\ (n = 0 => Indexed(e) = <<>>)
    BY <1>1 DEF Indexed
  <1>5. Elements(Indexed(e), n)
    BY <1>3, <1>4, ThenType DEF Elements
  <1>6. FlattenSeq(Indexed(e)) \in Seq(Octet)
    BY <1>1, <1>5, FlattenType
  <1>7. Iter(e) = FlattenSeq(Indexed(e)) \o U64(U64Max)
    BY Zenon DEF Iter, Indexed
  <1>8. U64(U64Max) \in Seq(Octet)
    BY <1>1, U64Type
  <1> QED
    BY <1>3, <1>5, <1>6, <1>7, <1>8, ThenSome

\* The indices end where the last element does: u64::MAX is none of them.
LEMMA IterApart ==
    ASSUME NEW n \in 0..U64Max, NEW m \in 0..U64Max, n <= m, NEW e, NEW d,
           Elements(e, n), Elements(d, m), NEW x, NEW y, NEW z,
           Then(Iter(e), x, z), Then(Iter(d), y, z),
           \A c \in 1..n : Apart(e[c], d[c])
    PROVE  n = m /\ \A c \in 1..n : e[c] = d[c]
  <1> DEFINE end == U64(U64Max)
  <1>1. n \in Nat /\ m \in Nat /\ U64Max \in Nat /\ U64Max \in 0..U64Max
    BY U64Bounds
  <1>4. PICK s, t : s = Indexed(e) /\ t = Indexed(d)
    OBVIOUS
  <1>5. /\ Elements(s, n) /\ Then(FlattenSeq(s), end, Iter(e))
        /\ \A c \in 1..n : /\ c - 1 \in 0..U64Max /\ c - 1 # U64Max
                           /\ Then(U64(c - 1), e[c], s[c])
    BY <1>4, IterIs
  <1>6. /\ Elements(t, m) /\ Then(FlattenSeq(t), end, Iter(d))
        /\ \A c \in 1..m : /\ c - 1 \in 0..U64Max /\ c - 1 # U64Max
                           /\ Then(U64(c - 1), d[c], t[c])
    BY <1>4, IterIs
  <1> HIDE DEF end
  <1>7. PICK u : Then(end, x, u) /\ Then(FlattenSeq(s), u, z)
    BY <1>5, ThenRegroup
  <1>8. PICK v : Then(end, y, v) /\ Then(FlattenSeq(t), v, z)
    BY <1>6, ThenRegroup
  <1>9. ASSUME NEW c \in 1..n, NEW p, NEW q, NEW w,
               Then(s[c], p, w), Then(t[c], q, w)
        PROVE  e[c] = d[c]
    <2>1. c \in 1..m
      BY <1>1
    <2>2. PICK g : Then(e[c], p, g) /\ Then(U64(c - 1), g, w)
      BY <1>5, <1>9, ThenRegroup
    <2>3. PICK h : Then(d[c], q, h) /\ Then(U64(c - 1), h, w)
      BY <1>6, <1>9, <2>1, ThenRegroup
    <2>4. g = h
      BY <2>2, <2>3, ThenCancel
    <2> QED
      BY <2>2, <2>3, <2>4 DEF Apart
  <1>10. ASSUME NEW c \in 1..n, e[c] = d[c] PROVE s[c] = t[c]
    <2>1. c \in 1..m
      BY <1>1
    <2> QED
      BY <1>5, <1>6, <1>10, <2>1 DEF Then
  <1>11. \A c \in 1..n : Apart(s[c], t[c])
    BY <1>9, <1>10 DEF Apart
  <1>12. /\ \A c \in 1..n : s[c] = t[c]
         /\ n < m => \E w : Then(t[n + 1], w, u)
    BY <1>1, <1>5, <1>6, <1>7, <1>8, <1>11, SameElements
  <1>13. ASSUME n < m PROVE FALSE
    <2>1. PICK w : Then(t[n + 1], w, u)
      BY <1>12, <1>13
    <2>2. n + 1 \in 1..m /\ (n + 1) - 1 = n
      BY <1>1, <1>13
    <2>3. n \in 0..U64Max /\ n # U64Max /\ Then(U64(n), d[n + 1], t[n + 1])
      BY <1>6, <2>2
    <2>4. PICK g : Then(U64(n), g, u)
      BY <2>1, <2>3, ThenRegroup
    <2> QED
      BY <1>1, <1>7, <2>3, <2>4, NumberFirst DEF end
  <1>14. n = m
    BY <1>1, <1>13
  <1>15. ASSUME NEW c \in 1..n PROVE e[c] = d[c]
    <2>1. c \in 1..m /\ s[c] = t[c]
      BY <1>1, <1>12
    <2>2. Then(U64(c - 1), e[c], s[c]) /\ Then(U64(c - 1), d[c], s[c])
      BY <1>5, <1>6, <2>1
    <2> QED
      BY <2>2, ThenCancel
  <1> QED
    BY <1>14, <1>15
\* Neither has elements the other has not.
LEMMA IterSame ==
    ASSUME NEW n \in 0..U64Max, NEW m \in 0..U64Max, NEW e, NEW d,
           Elements(e, n), Elements(d, m), NEW x, NEW y, NEW z,
           Then(Iter(e), x, z), Then(Iter(d), y, z),
           \A c \in 1..n : c \in 1..m => Apart(e[c], d[c])
    PROVE  n = m /\ \A c \in 1..n : e[c] = d[c]
  <1>1. n \in Nat /\ m \in Nat
    BY U64Bounds
  <1>2. CASE n <= m
    <2>1. \A c \in 1..n : Apart(e[c], d[c])
      BY <1>1, <1>2
    <2> QED
      BY <1>2, <2>1, IterApart
  <1>3. CASE m <= n
    <2>1. \A c \in 1..m : Apart(d[c], e[c])
      <3>1. \A c \in 1..m : Apart(e[c], d[c])
        BY <1>1, <1>3
      <3> QED
        BY <3>1 DEF Apart
    <2>2. m = n /\ \A c \in 1..m : d[c] = e[c]
      BY <1>3, <2>1, IterApart
    <2> QED
      BY <2>2
  <1> QED
    BY <1>1, <1>2, <1>3

Listed(f, a, n) == [k \in 1..n |-> f[a[k]]]

LEMMA IterTold ==
    ASSUME NEW f, Told(f), NEW n \in 0..U64Max, NEW m \in 0..U64Max,
           NEW a \in [1..n -> DOMAIN f], NEW b \in [1..m -> DOMAIN f]
    PROVE  /\ Iter(Listed(f, a, n)) \in Seq(Octet)
           /\ \A x, y, z : /\ Then(Iter(Listed(f, a, n)), x, z)
                           /\ Then(Iter(Listed(f, b, m)), y, z)
                           => n = m /\ a = b
  <1>1. n \in Nat /\ m \in Nat
    BY U64Bounds
  <1>2. PICK e, d : e = Listed(f, a, n) /\ d = Listed(f, b, m)
    OBVIOUS
  <1>3. /\ \A c \in 1..n : e[c] = f[a[c]] /\ a[c] \in DOMAIN f
        /\ \A c \in 1..m : d[c] = f[b[c]] /\ b[c] \in DOMAIN f
    BY <1>2 DEF Listed
  <1>4. /\ Len(e) = n /\ (n = 0 => e = <<>>)
        /\ Len(d) = m /\ (m = 0 => d = <<>>)
    BY <1>1, <1>2 DEF Listed
  <1>5. Elements(e, n) /\ Elements(d, m)
    BY <1>3, <1>4 DEF Elements, Told, Coded
  <1>6. \A c \in 1..n : c \in 1..m => Apart(e[c], d[c])
    BY <1>3, ToldApart
  <1>7. Iter(e) \in Seq(Octet)
    BY <1>5, IterIs, ThenType
  <1>8. ASSUME NEW x, NEW y, NEW z, Then(Iter(e), x, z), Then(Iter(d), y, z)
        PROVE  n = m /\ a = b
    <2>1. n = m /\ \A c \in 1..n : e[c] = d[c]
      BY <1>5, <1>6, <1>8, IterSame
    <2>2. \A c \in 1..n : a[c] = b[c]
      BY <1>3, <2>1, ToldApart
    <2> QED
      BY <2>1, <2>2
  <1> QED
    BY <1>2, <1>7, <1>8

-----------------------------------------------------------------------------
(* The order of the bytes *)

\* Where a is before b: at the first difference, or at the end of a.
Comes(a, b, k) == /\ k \in 1..Len(b) /\ \A j \in 1..(k - 1) : a[j] = b[j]
                  /\ \/ k = Len(a) + 1
                     \/ k <= Len(a) /\ a[k] < b[k]

LEMMA BeforeAt ==
    ASSUME NEW a \in Seq(Octet), NEW b \in Seq(Octet)
    PROVE  Before(a, b) <=> \E k \in Nat : Comes(a, b, k)
  <1>1. ASSUME IsStrictPrefix(a, b) PROVE Comes(a, b, Len(a) + 1)
    <2>1. /\ Len(a) <= Len(b) /\ a # b
          /\ SubSeq(a, 1, Len(a)) = SubSeq(b, 1, Len(a))
      BY <1>1 DEF IsStrictPrefix, IsPrefix
    <2>2. ASSUME NEW j \in 1..Len(a) PROVE a[j] = b[j]
      <3>1. SubSeq(a, 1, Len(a))[j] = a[j] /\ SubSeq(b, 1, Len(a))[j] = b[j]
        BY <2>1
      <3> QED
        BY <2>1, <3>1
    <2>3. Len(a) # Len(b)
      BY <2>1, <2>2, SeqEqual
    <2> QED
      BY <2>1, <2>2, <2>3 DEF Comes
  <1>2. ASSUME Comes(a, b, Len(a) + 1) PROVE IsStrictPrefix(a, b)
    <2>1. Len(a) < Len(b) /\ \A j \in 1..Len(a) : a[j] = b[j]
      BY <1>2 DEF Comes
    <2>2. SubSeq(a, 1, Len(a)) = SubSeq(b, 1, Len(a))
      BY <2>1
    <2> QED
      BY <2>1, <2>2 DEF IsStrictPrefix, IsPrefix
  <1>3. ASSUME NEW k \in Nat, k <= Len(a)
        PROVE  Comes(a, b, k) <=>
                 /\ k \in 1..Len(a) /\ k <= Len(b) /\ a[k] < b[k]
                 /\ \A j \in 1..(k - 1) : a[j] = b[j]
    BY <1>3 DEF Comes
  <1>4. ASSUME NEW k \in Nat, Comes(a, b, k)
        PROVE  k = Len(a) + 1 \/ k <= Len(a)
    BY <1>4 DEF Comes
  <1> QED
    BY <1>1, <1>2, <1>3, <1>4 DEF Before

LEMMA BeforeNotSame ==
    ASSUME NEW a \in Seq(Octet)
    PROVE  ~Before(a, a)
  <1>1. ASSUME NEW k \in Nat, Comes(a, a, k) PROVE FALSE
    <2>1. k \in 1..Len(a) /\ a[k] < a[k] /\ a[k] \in Octet
      BY <1>1 DEF Comes
    <2> QED
      BY <2>1, RadixIs DEF Octet
  <1> QED
    BY <1>1, BeforeAt

LEMMA BeforeTransitive ==
    ASSUME NEW a \in Seq(Octet), NEW b \in Seq(Octet), NEW c \in Seq(Octet),
           Before(a, b), Before(b, c)
    PROVE  Before(a, c)
  <1>1. PICK k \in Nat : Comes(a, b, k)
    BY BeforeAt
  <1>2. PICK l \in Nat : Comes(b, c, l)
    BY BeforeAt
  <1>3. /\ \A j \in 1..Len(a) : a[j] \in Int
        /\ \A j \in 1..Len(b) : b[j] \in Int
        /\ \A j \in 1..Len(c) : c[j] \in Int
    BY RadixIs DEF Octet
  <1>4. CASE k <= l
    <2>1. Comes(a, c, k)
      BY <1>1, <1>2, <1>3, <1>4 DEF Comes
    <2> QED
      BY <2>1, BeforeAt
  <1>5. CASE l < k
    <2>1. Comes(a, c, l)
      BY <1>1, <1>2, <1>3, <1>5 DEF Comes
    <2> QED
      BY <2>1, BeforeAt
  <1> QED
    BY <1>4, <1>5

LEMMA BeforeTotal ==
    ASSUME NEW a \in Seq(Octet), NEW b \in Seq(Octet), a # b
    PROVE  Before(a, b) \/ Before(b, a)
  <1> DEFINE Same(k) == k <= Len(a) /\ k <= Len(b) /\ a[k] = b[k]
             N == {k \in Nat : \A j \in 1..k : Same(j)}
  <1>1. \E k \in Nat : k \in N /\ k + 1 \notin N
    <2> SUFFICES ASSUME \A k \in Nat : k \in N => k + 1 \in N PROVE FALSE
      OBVIOUS
    <2>1. 0 \in N
      OBVIOUS
    <2>2. \A k \in Nat : k \in N
      <3> HIDE DEF N
      <3> QED
        BY <2>1, NumberInduction
    <2>3. \A k \in Nat : k >= 1 => Same(k)
      BY <2>2
    <2>4. Same(Len(a) + 1)
      <3> HIDE DEF N, Same
      <3> QED
        BY <2>3
    <2> QED
      BY <2>4
  <1>2. PICK k \in Nat : k \in N /\ k + 1 \notin N
    BY <1>1
  <1>3. \A j \in 1..k : Same(j)
    BY <1>2
  <1>4. ~Same(k + 1)
    BY <1>2
  <1>5. k <= Len(a) /\ k <= Len(b)
    BY <1>3
  <1>6. \A j \in 1..k : a[j] = b[j]
    BY <1>3
  <1>7. CASE k + 1 <= Len(a) /\ k + 1 <= Len(b)
    <2>1. a[k + 1] # b[k + 1]
      BY <1>4, <1>7
    <2>2. a[k + 1] \in Int /\ b[k + 1] \in Int
      BY <1>7, RadixIs DEF Octet
    <2>3. a[k + 1] < b[k + 1] \/ b[k + 1] < a[k + 1]
      BY <2>1, <2>2
    <2>4. Comes(a, b, k + 1) \/ Comes(b, a, k + 1)
      BY <1>6, <1>7, <2>3 DEF Comes
    <2> QED
      BY <2>4, BeforeAt
  <1>8. CASE k + 1 > Len(a) /\ k + 1 <= Len(b)
    <2>1. Comes(a, b, k + 1)
      BY <1>5, <1>6, <1>8 DEF Comes
    <2> QED
      BY <2>1, BeforeAt
  <1>9. CASE k + 1 <= Len(a) /\ k + 1 > Len(b)
    <2>1. Comes(b, a, k + 1)
      BY <1>5, <1>6, <1>9 DEF Comes
    <2> QED
      BY <2>1, BeforeAt
  <1>10. CASE k + 1 > Len(a) /\ k + 1 > Len(b)
    <2>1. Len(a) = k /\ Len(b) = k
      BY <1>5, <1>10
    <2> QED
      BY <1>6, <2>1, SeqEqual
  <1> QED
    BY <1>7, <1>8, <1>9, <1>10

-----------------------------------------------------------------------------
(* A set in the order of its elements *)

\* The elements that are not behind x, in number.
Rank(S, x) == Cardinality({y \in S : Before(y, x) \/ y = x})

LEMMA RankRises ==
    ASSUME NEW S \in SUBSET Seq(Octet), IsFiniteSet(S),
           NEW x \in S, NEW y \in S, Before(x, y)
    PROVE  Rank(S, x) < Rank(S, y)
  <1> DEFINE P(u) == {w \in S : Before(w, u) \/ w = u}
  <1>1. P(x) \subseteq P(y)
    BY BeforeTransitive
  <1>2. y \in P(y) /\ y \notin P(x)
    <2>1. ~Before(y, x)
      BY BeforeTransitive, BeforeNotSame
    <2>2. y # x
      BY BeforeNotSame
    <2> QED
      BY <2>1, <2>2
  <1>3. IsFiniteSet(P(y))
    <2>1. P(y) \subseteq S
      OBVIOUS
    <2> HIDE DEF P
    <2> QED
      BY <2>1, FS_Subset
  <1> HIDE DEF P
  <1>4. Cardinality(P(x)) < Cardinality(P(y))
    <2>1. IsFiniteSet(P(x)) /\ Cardinality(P(x)) <= Cardinality(P(y))
      BY <1>1, <1>3, FS_Subset
    <2>2. Cardinality(P(x)) # Cardinality(P(y))
      BY <1>1, <1>2, <1>3, FS_Subset
    <2>3. Cardinality(P(x)) \in Nat /\ Cardinality(P(y)) \in Nat
      BY <1>3, <2>1, FS_CardinalityType
    <2> QED
      BY <2>1, <2>2, <2>3
  <1> QED
    BY <1>4 DEF Rank, P

\* What tells the elements of a set apart in one of its size has all of it.
LEMMA InjectiveOnto ==
    ASSUME NEW A, NEW B, IsFiniteSet(A), IsFiniteSet(B),
           Cardinality(A) = Cardinality(B), NEW f \in [A -> B],
           \A x, y \in A : f[x] = f[y] => x = y
    PROVE  \A b \in B : \E a \in A : f[a] = b
  <1> DEFINE R == {f[a] : a \in A}
  <1>1. R \subseteq B
    OBVIOUS
  <1>2. f \in [A -> R] /\ \A b \in R : \E a \in A : f[a] = b
    OBVIOUS
  <1>3. f \in Bijection(A, R)
    <2> HIDE DEF R
    <2> QED
      BY <1>2 DEF Bijection, Injection, Surjection, IsInjective
  <1>4. ExistsBijection(A, R)
    BY <1>3 DEF ExistsBijection
  <1> HIDE DEF R
  <1>5. Cardinality(R) = Cardinality(B)
    BY <1>4, FS_Bijection
  <1>6. R = B
    BY <1>1, <1>5, FS_Subset
  <1> QED
    BY <1>2, <1>6

\* The ranks are the numbers from 1 to the number of elements.
LEMMA RankOnto ==
    ASSUME NEW S \in SUBSET Seq(Octet), IsFiniteSet(S)
    PROVE  /\ \A x \in S : Rank(S, x) \in 1..Cardinality(S)
           /\ \A x, y \in S : Rank(S, x) = Rank(S, y) => x = y
           /\ \A k \in 1..Cardinality(S) : \E x \in S : Rank(S, x) = k
  <1> DEFINE n == Cardinality(S)
             r == [x \in S |-> Rank(S, x)]
  <1>1. n \in Nat
    BY FS_CardinalityType
  <1>2. ASSUME NEW x \in S PROVE Rank(S, x) \in 1..n
    <2>1. PICK P : P = {y \in S : Before(y, x) \/ y = x}
      OBVIOUS
    <2>2. P \subseteq S /\ x \in P
      BY <2>1
    <2>3. IsFiniteSet(P) /\ Cardinality(P) <= n
      BY <2>2, FS_Subset
    <2>4. Cardinality(P) \in Nat /\ Cardinality(P) # 0
      BY <2>2, <2>3, FS_CardinalityType, FS_EmptySet
    <2>5. Rank(S, x) = Cardinality(P)
      BY <2>1 DEF Rank
    <2> QED
      BY <1>1, <2>3, <2>4, <2>5
  <1>3. ASSUME NEW x \in S, NEW y \in S, Rank(S, x) = Rank(S, y)
        PROVE  x = y
    <2>1. Rank(S, x) \in Nat /\ Rank(S, y) \in Nat
      BY <1>1, <1>2
    <2>2. ~Before(x, y) /\ ~Before(y, x)
      BY <1>3, <2>1, RankRises
    <2>3. x \in Seq(Octet) /\ y \in Seq(Octet)
      OBVIOUS
    <2> QED
      BY <2>2, <2>3, BeforeTotal
  <1>4. r \in [S -> 1..n] /\ \A x, y \in S : r[x] = r[y] => x = y
    BY <1>2, <1>3
  <1>5. IsFiniteSet(1..n) /\ Cardinality(1..n) = n
    <2>1. 1 \in Int /\ n \in Int
      BY <1>1
    <2> HIDE DEF n
    <2> QED
      BY <1>1, <2>1, FS_Interval
  <1>6. \A k \in 1..n : \E x \in S : r[x] = k
    <2>1. PICK B : B = 1..n
      OBVIOUS
    <2>2. IsFiniteSet(B) /\ Cardinality(S) = Cardinality(B) /\ r \in [S -> B]
      BY <1>4, <1>5, <2>1
    <2> HIDE DEF r, n
    <2>3. \A k \in B : \E x \in S : r[x] = k
      BY <1>4, <2>2, InjectiveOnto
    <2> QED
      BY <2>1, <2>3
  <1> QED
    BY <1>2, <1>3, <1>6

\* Ordered lists each element of a set once.
LEMMA OrderedIs ==
    ASSUME NEW S \in SUBSET Seq(Octet), IsFiniteSet(S), NEW n \in Nat,
           n = Cardinality(S)
    PROVE  /\ Len(Ordered(S)) = n /\ Ordered(S) \in [1..n -> S]
           /\ \A x \in S : \E k \in 1..n : Ordered(S)[k] = x
  <1> DEFINE Rises(s) == \A i, j \in 1..Len(s) : i < j => Before(s[i], s[j])
             e == [k \in 1..n |-> CHOOSE x \in S : Rank(S, x) = k]
  <1>1. \A k \in 1..n : e[k] \in S /\ Rank(S, e[k]) = k
    BY RankOnto
  <1>2. e \in [1..n -> S] /\ Len(e) = n
    BY <1>1
  <1> HIDE DEF e
  <1>3. \A i, j \in 1..n : i # j => e[i] # e[j]
    BY <1>1
  <1>4. e \in SetToSeqs(S)
    BY <1>2, <1>3 DEF SetToSeqs
  <1>5. Rises(e)
    <2> SUFFICES ASSUME NEW i \in 1..n, NEW j \in 1..n, i < j
                 PROVE  Before(e[i], e[j])
      BY <1>2
    <2>1. e[i] \in S /\ e[j] \in S /\ Rank(S, e[i]) = i /\ Rank(S, e[j]) = j
      BY <1>1
    <2>2. e[i] # e[j]
      BY <2>1
    <2>3. ~Before(e[j], e[i])
      BY <2>1, RankRises
    <2> QED
      BY <2>1, <2>2, <2>3, BeforeTotal
  <1>6. Ordered(S) \in SetToSeqs(S)
    BY <1>4, <1>5 DEF Ordered
  <1>7. PICK s : s = Ordered(S)
    OBVIOUS
  <1>8. s \in [1..n -> S] /\ \A i, j \in 1..n : i # j => s[i] # s[j]
    BY <1>6, <1>7 DEF SetToSeqs
  <1>9. Len(s) = n
    BY <1>8
  <1>10. PICK A : A = 1..n
    OBVIOUS
  <1>11. IsFiniteSet(A) /\ Cardinality(A) = n
    <2>1. 1 \in Int /\ n \in Int
      OBVIOUS
    <2> QED
      BY <1>10, <2>1, FS_Interval
  <1>12. s \in [A -> S] /\ \A x, y \in A : s[x] = s[y] => x = y
    BY <1>8, <1>10
  <1>13. \A x \in S : \E k \in A : s[k] = x
    BY <1>11, <1>12, InjectiveOnto
  <1> QED
    BY <1>7, <1>8, <1>9, <1>10, <1>13

LEMMA SubsetIs ==
    ASSUME NEW T \in SUBSET Seq(Octet), NEW S \in Subsets(T)
    PROVE  /\ S \in SUBSET Seq(Octet) /\ S \subseteq T /\ IsFiniteSet(S)
           /\ Cardinality(S) \in Nat /\ Cardinality(S) \in 0..U64Max
  <1>1. S \subseteq T /\ IsFiniteSet(S) /\ Cardinality(S) <= MaxLen
    BY DEF Subsets
  <1>2. Cardinality(S) \in Nat
    BY <1>1, FS_CardinalityType
  <1> QED
    BY <1>1, <1>2, U64Bounds

LEMMA SetTold ==
    ASSUME NEW f, Told(f), DOMAIN f \subseteq Seq(Octet)
    PROVE  Told(Sets(f))
  <1> DEFINE h == Sets(f)
             Codes(S) == Listed(f, Ordered(S), Cardinality(S))
  <1>1. DOMAIN h = Subsets(DOMAIN f)
    BY DEF Sets
  <1>2. ASSUME NEW S \in DOMAIN h
        PROVE  /\ Cardinality(S) \in 0..U64Max
               /\ Ordered(S) \in [1..Cardinality(S) -> DOMAIN f]
               /\ \A a : a \in S <=>
                    \E k \in 1..Cardinality(S) : Ordered(S)[k] = a
               /\ h[S] = Iter(Codes(S))
    <2>1. PICK n \in Nat : /\ n = Cardinality(S) /\ n \in 0..U64Max
                           /\ S \in SUBSET Seq(Octet) /\ S \subseteq DOMAIN f
                           /\ IsFiniteSet(S)
      BY <1>1, SubsetIs
    <2>2. /\ Len(Ordered(S)) = n /\ Ordered(S) \in [1..n -> S]
          /\ \A a \in S : \E k \in 1..n : Ordered(S)[k] = a
      BY <2>1, OrderedIs
    <2>3. h[S] = Iter([k \in 1..Len(Ordered(S)) |-> f[Ordered(S)[k]]])
      BY <1>1 DEF Sets, Set
    <2>4. h[S] = Iter(Codes(S))
      BY <2>1, <2>2, <2>3 DEF Listed
    <2> HIDE DEF h, Codes
    <2> QED
      BY <2>1, <2>2, <2>4
  <1> HIDE DEF h
  <1>3. Coded(h)
    BY <1>2, IterTold DEF Coded
  <1>4. ASSUME NEW S \in DOMAIN h, NEW T \in DOMAIN h, NEW x, NEW y, NEW z,
               Then(h[S], x, z), Then(h[T], y, z)
        PROVE  S = T
    <2>1. Cardinality(S) = Cardinality(T) /\ Ordered(S) = Ordered(T)
      <3>0. PICK n \in 0..U64Max, m \in 0..U64Max :
              n = Cardinality(S) /\ m = Cardinality(T)
        BY <1>2
      <3>1. PICK a, b : a = Ordered(S) /\ b = Ordered(T)
        OBVIOUS
      <3>2. /\ a \in [1..n -> DOMAIN f] /\ b \in [1..m -> DOMAIN f]
            /\ Then(Iter(Listed(f, a, n)), x, z)
            /\ Then(Iter(Listed(f, b, m)), y, z)
        BY <1>2, <1>4, <3>0, <3>1
      <3>3. n = m /\ a = b
        BY <3>2, IterTold
      <3> QED
        BY <3>0, <3>1, <3>3
    <2> HIDE DEF Codes
    <2> QED
      BY <1>2, <2>1
  <1>5. Told(h)
    BY <1>3, <1>4 DEF Told
  <1> QED
    BY <1>5 DEF h

Items(m, s, n) == [k \in 1..n |-> <<s[k], m[s[k]]>>]

LEMMA MapTold ==
    ASSUME NEW f, NEW g, Told(f), Told(g), DOMAIN f \subseteq Seq(Octet)
    PROVE  Told(Maps(f, g))
  <1> DEFINE h == Maps(f, g)
             p == Pairs(f, g)
             Listing(m, s, n) ==
                 /\ s = Ordered(DOMAIN m) /\ s \in [1..n -> DOMAIN m]
                 /\ \A a \in DOMAIN m : \E k \in 1..n : s[k] = a
                 /\ Items(m, s, n) \in [1..n -> DOMAIN p]
                 /\ h[m] = Iter(Listed(p, Items(m, s, n), n))
                 /\ m = [a \in DOMAIN m |-> m[a]]
  <1>1. DOMAIN h = UNION {[S -> DOMAIN g] : S \in Subsets(DOMAIN f)}
    BY DEF Maps
  <1>2. Told(p) /\ DOMAIN p = (DOMAIN f) \X (DOMAIN g)
    BY PairTold DEF Pairs
  <1>3. ASSUME NEW m \in DOMAIN h
        PROVE  \E n \in 0..U64Max : \E s : Listing(m, s, n)
    <2>1. PICK S \in Subsets(DOMAIN f) : m \in [S -> DOMAIN g]
      BY <1>1
    <2>2. PICK n \in Nat : /\ n = Cardinality(S) /\ n \in 0..U64Max
                           /\ S \in SUBSET Seq(Octet) /\ S \subseteq DOMAIN f
                           /\ IsFiniteSet(S)
      BY SubsetIs
    <2>3. DOMAIN m = S /\ m = [a \in DOMAIN m |-> m[a]]
      BY <2>1
    <2>4. PICK s : s = Ordered(S) /\ s = Ordered(DOMAIN m)
      BY <2>3
    <2>5. /\ Len(s) = n /\ s \in [1..n -> S]
          /\ \A a \in S : \E k \in 1..n : s[k] = a
      <3>1. /\ Len(Ordered(S)) = n /\ Ordered(S) \in [1..n -> S]
            /\ \A a \in S : \E k \in 1..n : Ordered(S)[k] = a
        BY <2>2, OrderedIs
      <3> QED
        BY <2>4, <3>1
    <2>6. PICK b : b = Items(m, s, n)
      OBVIOUS
    <2>7. b \in [1..n -> DOMAIN p]
      <3>1. \A k \in 1..n : s[k] \in DOMAIN f /\ m[s[k]] \in DOMAIN g
        BY <2>1, <2>2, <2>5
      <3> HIDE DEF p
      <3>2. \A k \in 1..n : <<s[k], m[s[k]]>> \in DOMAIN p
        BY <1>2, <3>1
      <3> QED
        BY <2>6, <3>2 DEF Items
    <2>8. h[m] = Iter([k \in 1..Len(s) |-> Pair(f, g, <<s[k], m[s[k]]>>)])
      BY <2>4, <1>1 DEF Maps, Map
    <2>9. [k \in 1..Len(s) |-> Pair(f, g, <<s[k], m[s[k]]>>)] = Listed(p, b, n)
      <3>1. \A k \in 1..n : p[b[k]] = Pair(f, g, b[k])
        BY <1>2, <2>7 DEF Pairs
      <3>2. \A k \in 1..n : b[k] = <<s[k], m[s[k]]>>
        BY <2>6 DEF Items
      <3> HIDE DEF p
      <3> QED
        BY <2>5, <3>1, <3>2 DEF Listed
    <2> HIDE DEF h, p
    <2>10. h[m] = Iter(Listed(p, b, n))
      BY <2>8, <2>9
    <2> QED
      <3>1. /\ s \in [1..n -> DOMAIN m]
            /\ \A a \in DOMAIN m : \E k \in 1..n : s[k] = a
        BY <2>3, <2>5
      <3>2. /\ Items(m, s, n) \in [1..n -> DOMAIN p]
            /\ h[m] = Iter(Listed(p, Items(m, s, n), n))
        BY <2>6, <2>7, <2>10
      <3> n \in 0..U64Max
        BY <2>2
      <3> WITNESS n \in 0..U64Max
      <3> WITNESS s
      <3> QED
        BY <2>3, <2>4, <3>1, <3>2
  <1> HIDE DEF h, p
  <1>4. Coded(h)
    <2> SUFFICES ASSUME NEW m \in DOMAIN h PROVE h[m] \in Seq(Octet)
      BY DEF Coded
    <2>1. PICK n \in 0..U64Max : \E s : Listing(m, s, n)
      BY <1>3
    <2>2. PICK b : /\ b \in [1..n -> DOMAIN p]
                   /\ h[m] = Iter(Listed(p, b, n))
      BY <2>1
    <2> HIDE DEF Listing
    <2>3. Iter(Listed(p, b, n)) \in Seq(Octet)
      BY <1>2, <2>2, IterTold
    <2> QED
      BY <2>2, <2>3
  <1>5. ASSUME NEW m \in DOMAIN h, NEW l \in DOMAIN h, NEW x, NEW y, NEW z,
               Then(h[m], x, z), Then(h[l], y, z)
        PROVE  m = l
    <2>1. PICK n \in 0..U64Max : \E s : Listing(m, s, n)
      BY <1>3
    <2>2. PICK s : Listing(m, s, n)
      BY <2>1
    <2>3. PICK o \in 0..U64Max : \E t : Listing(l, t, o)
      BY <1>3
    <2>4. PICK t : Listing(l, t, o)
      BY <2>3
    <2>5. n = o /\ Items(m, s, n) = Items(l, t, n)
      <3>1. PICK b, d : b = Items(m, s, n) /\ d = Items(l, t, o)
        OBVIOUS
      <3>2. /\ b \in [1..n -> DOMAIN p] /\ d \in [1..o -> DOMAIN p]
            /\ Then(Iter(Listed(p, b, n)), x, z)
            /\ Then(Iter(Listed(p, d, o)), y, z)
        BY <1>5, <2>2, <2>4, <3>1
      <3>3. n = o /\ b = d
        BY <1>2, <3>2, IterTold
      <3> QED
        BY <3>1, <3>3
    <2>6. ASSUME NEW k \in 1..n
          PROVE  s[k] = t[k] /\ m[s[k]] = l[t[k]]
      <3>1. Items(m, s, n)[k] = <<s[k], m[s[k]]>>
        BY DEF Items
      <3>2. Items(l, t, n)[k] = <<t[k], l[t[k]]>>
        BY DEF Items
      <3>3. <<s[k], m[s[k]]>> = <<t[k], l[t[k]]>>
        BY <2>5, <3>1, <3>2
      <3> QED
        BY <3>3
    <2>7. DOMAIN m = DOMAIN l
      <3>1. ASSUME NEW a \in DOMAIN m PROVE a \in DOMAIN l
        <4>1. PICK k \in 1..n : s[k] = a
          BY <2>2
        <4>2. t[k] \in DOMAIN l
          BY <2>4, <2>5
        <4> QED
          BY <2>6, <4>1, <4>2
      <3>2. ASSUME NEW a \in DOMAIN l PROVE a \in DOMAIN m
        <4>1. PICK k \in 1..n : t[k] = a
          BY <2>4, <2>5
        <4>2. s[k] \in DOMAIN m
          BY <2>2
        <4> QED
          BY <2>6, <4>1, <4>2
      <3> QED
        BY <3>1, <3>2
    <2>8. ASSUME NEW a \in DOMAIN m PROVE m[a] = l[a]
      <3>1. PICK k \in 1..n : s[k] = a
        BY <2>2
      <3> QED
        BY <2>6, <3>1
    <2> QED
      BY <2>2, <2>4, <2>7, <2>8
  <1>6. Told(h)
    BY <1>4, <1>5 DEF Told
  <1> QED
    BY <1>6 DEF h

-----------------------------------------------------------------------------
(* The types of the program *)

\* Values of one length are told apart when they are different.
LEMMA FixedTold ==
    ASSUME NEW f, Coded(f), NEW n, \A a \in DOMAIN f : Len(f[a]) = n,
           \A a, b \in DOMAIN f : f[a] = f[b] => a = b
    PROVE  Told(f)
  BY ThenSame DEF Told

Octets == [b \in Octet |-> U8(b)]

LEMMA OctetsTold == Told(Octets)
  <1>1. \A b \in Octet : /\ Octets[b] \in Seq(Octet) /\ Len(Octets[b]) = 1
                         /\ Octets[b][1] = b
    BY ByteType DEF Octets
  <1>2. DOMAIN Octets = Octet
    BY DEF Octets
  <1>3. Coded(Octets)
    BY <1>1, <1>2 DEF Coded
  <1>4. \A a, b \in DOMAIN Octets : Octets[a] = Octets[b] => a = b
    BY <1>1, <1>2
  <1> QED
    BY <1>1, <1>2, <1>3, <1>4, FixedTold

LEMMA BoolsTold == Told(Bools)
  <1>1. /\ Bools[TRUE] = <<Radix - 1>> /\ Bools[FALSE] = << 0 >>
        /\ DOMAIN Bools = {TRUE, FALSE}
    BY DEF Bools, Bool
  <1>2. \A a \in DOMAIN Bools : Bools[a] \in Seq(Octet) /\ Len(Bools[a]) = 1
    <2>1. /\ Bools[TRUE] \in Seq(Octet) /\ Len(Bools[TRUE]) = 1
          /\ Bools[FALSE] \in Seq(Octet) /\ Len(Bools[FALSE]) = 1
      <3>1. Radix - 1 \in Octet /\ 0 \in Octet
        BY RadixIs DEF Octet
      <3> QED
        BY <1>1, <3>1
    <2>2. \A a \in DOMAIN Bools : a = TRUE \/ a = FALSE
      BY <1>1
    <2> QED
      BY <2>1, <2>2, Zenon
  <1>3. Bools[TRUE] # Bools[FALSE]
    BY <1>1, RadixIs
  <1>4. \A a, b \in DOMAIN Bools : Bools[a] = Bools[b] => a = b
    <2>1. \A a \in DOMAIN Bools : a = TRUE \/ a = FALSE
      BY <1>1
    <2> QED
      BY <1>3, <2>1
  <1>5. Coded(Bools)
    BY <1>2 DEF Coded
  <1> QED
    BY <1>2, <1>4, <1>5, FixedTold

LEMMA NumbersTold == Told([n \in 0..U64Max |-> U64(n)])
  <1> DEFINE f == [n \in 0..U64Max |-> U64(n)]
  <1>1. \A n \in 0..U64Max : /\ f[n] \in Seq(Octet) /\ Len(f[n]) = Width
                             /\ f[n] = U64(n)
    BY U64Type, U64Bounds
  <1>2. DOMAIN f = 0..U64Max
    OBVIOUS
  <1> HIDE DEF f
  <1>3. \A a, b \in DOMAIN f : f[a] = f[b] => a = b
    BY <1>1, <1>2, U64Value
  <1>4. Coded(f)
    BY <1>1, <1>2 DEF Coded
  <1>5. Told(f)
    BY <1>1, <1>2, <1>3, <1>4, FixedTold
  <1> QED
    BY <1>5 DEF f

LEMMA HashesTold ==
    ASSUME NEW n \in Nat
    PROVE  Told([h \in [1..n -> 0..(Radix - 1)] |-> Hash(h)])
  <1> DEFINE f == [h \in [1..n -> 0..(Radix - 1)] |-> Hash(h)]
  <1>1. DOMAIN f = [1..n -> Octet]
    BY DEF Octet
  <1>2. ASSUME NEW h \in [1..n -> Octet]
        PROVE  Len(h) = n /\ Then(U8(1), h, f[h])
    <2>1. h \in Seq(Octet) /\ Len(h) = n
      OBVIOUS
    <2>2. U8(1) \in Seq(Octet)
      BY ByteType, RadixIs DEF Octet
    <2>3. f[h] = U8(1) \o h
      BY <1>1 DEF Hash
    <2> QED
      BY <2>1, <2>2, <2>3, ThenSome
  <1> HIDE DEF f
  <1>3. Coded(f)
    BY <1>1, <1>2, ThenType DEF Coded
  <1>4. \A g, h \in DOMAIN f : f[g] = f[h] => g = h
    BY <1>1, <1>2, ThenCancel
  <1>5. \A h \in DOMAIN f : Len(f[h]) = 1 + n
    <2>1. Len(U8(1)) = 1
      BY ByteType, RadixIs DEF Octet
    <2> SUFFICES ASSUME NEW h \in DOMAIN f PROVE Len(f[h]) = 1 + n
      OBVIOUS
    <2>2. Len(h) = n /\ Then(U8(1), h, f[h])
      BY <1>1, <1>2
    <2>3. Len(f[h]) = Len(U8(1)) + Len(h)
      BY <2>2, ThenType
    <2> QED
      BY <2>1, <2>2, <2>3
  <1>6. Told(f)
    BY <1>3, <1>4, <1>5, FixedTold
  <1> QED
    BY <1>6 DEF f

\* Texts of any bounded length: slices of bytes.
LEMMA TextTold ==
    ASSUME NEW n \in 0..U64Max
    PROVE  /\ Told([s \in BoundedSeq(0..(Radix - 1), n) |-> Text(s)])
           /\ BoundedSeq(0..(Radix - 1), n) \subseteq Seq(Octet)
  <1>1. DOMAIN Octets = Octet /\ Octet = 0..(Radix - 1)
    BY DEF Octets, Octet
  <1>2. [s \in BoundedSeq(0..(Radix - 1), n) |-> Text(s)]
          = [s \in BoundedSeq(DOMAIN Octets, n) |-> Slice(Octets, s)]
    BY <1>1, Zenon DEF Text, Octets
  <1>3. Told([s \in BoundedSeq(DOMAIN Octets, n) |-> Slice(Octets, s)])
    BY OctetsTold, SliceTold
  <1>4. ASSUME NEW s \in BoundedSeq(0..(Radix - 1), n) PROVE s \in Seq(Octet)
    <2>1. n \in Nat
      BY U64Bounds
    <2>2. Len(s) \in 0..n /\ s \in [1..Len(s) -> Octet]
      BY <1>1, <2>1, BoundedIs
    <2> QED
      BY <2>2
  <1> QED
    BY <1>2, <1>3, <1>4

LEMMA SlicesTold ==
    ASSUME NEW f, Told(f)
    PROVE  Told(Slices(f))
  BY SliceTold, U64Bounds DEF Slices

LEMMA PairsTold ==
    ASSUME NEW f, NEW g, Told(f), Told(g)
    PROVE  Told(Pairs(f, g))
  BY PairTold DEF Pairs

\* However values are nested in options, slices, tuples, sets and maps: if no
\* value's bytes begin another's in the types inside, none do in the type.
THEOREM DistinctNested ==
    ASSUME NEW f, NEW g, Coded(f), Coded(g), Distinct(f), Distinct(g)
    PROVE  /\ Distinct(Options(f)) /\ Coded(Options(f))
           /\ Distinct(Slices(f)) /\ Coded(Slices(f))
           /\ Distinct(Pairs(f, g)) /\ Coded(Pairs(f, g))
           /\ DOMAIN f \subseteq Seq(Octet) =>
                /\ Distinct(Sets(f)) /\ Coded(Sets(f))
                /\ Distinct(Maps(f, g)) /\ Coded(Maps(f, g))
  <1>1. Told(f) /\ Told(g)
    BY ToldDistinct
  <1>2. \A h : Told(h) => Coded(h) /\ Distinct(h)
    BY ToldDistinct DEF Told
  <1>3. Told(Options(f)) /\ Told(Slices(f)) /\ Told(Pairs(f, g))
    BY <1>1, OptionTold, SlicesTold, PairsTold
  <1>4. DOMAIN f \subseteq Seq(Octet) => Told(Sets(f)) /\ Told(Maps(f, g))
    BY <1>1, SetTold, MapTold
  <1> QED
    BY <1>2, <1>3, <1>4

LEMMA FramesTold == FramesDistinct
  <1>1. ASSUME NEW f, Told(f) PROVE Distinct(f)
    BY <1>1, ToldDistinct DEF Told
  <1>2. 1 \in 0..U64Max /\ 2 \in 0..U64Max
    BY U64Bounds
  <1>3. Told(Texts) /\ DOMAIN Texts \subseteq Seq(Octet)
    BY <1>2, TextTold DEF Texts
  <1>4. Told(Words) /\ DOMAIN Words \subseteq Seq(Octet)
    BY <1>2, TextTold DEF Words
  <1>5. Distinct(Bools)
    BY <1>1, BoolsTold
  <1>6. Distinct([n \in 0..U64Max |-> U64(n)])
    BY <1>1, NumbersTold
  <1>7. Distinct([h \in [1..2 -> 0..(Radix - 1)] |-> Hash(h)])
    BY <1>1, HashesTold
  <1>8. Distinct(Texts) /\ Distinct(Options(Texts))
    BY <1>1, <1>3, OptionTold
  <1>9. Distinct(Slices(Options(Words)))
    BY <1>1, <1>4, OptionTold, SlicesTold
  <1>10. Distinct(Sets(Texts))
    BY <1>1, <1>3, SetTold
  <1>11. Distinct(Maps(Words, Options(Bools)))
    <2>1. Told(Options(Bools))
      BY BoolsTold, OptionTold
    <2> QED
      BY <1>1, <1>4, <2>1, MapTold
  <1>12. Distinct(Pairs(Sets(Words), Sets(Words)))
    <2>1. Told(Sets(Words))
      BY <1>4, SetTold
    <2> QED
      BY <1>1, <2>1, PairsTold
  <1> QED
    BY <1>5, <1>6, <1>7, <1>8, <1>9, <1>10, <1>11, <1>12 DEF FramesDistinct

\* For any width of a byte and of a number, and collections of any size that a
\* number can count.
THEOREM ValuesHashedApart == Spec => []HashedApart
  <1>1. HashedApart
    BY FramesTold DEF HashedApart
  <1> QED
    BY <1>1, PTL
=============================================================================
