-------------------------- MODULE DataStreamProofs --------------------------
(***************************************************************************)
(* What DataWriter tells its callers, and what it feeds to the hasher, and *)
(* what DataReader::read makes of the bytes, for blobs and buffers of any  *)
(* length, chunks of any size and any cut of the stream below.             *)
(***************************************************************************)
EXTENDS DataStream, SequenceTheorems, TLAPS

\* A call is under way exactly when bytes of a chunk are left, that chunk was
\* cut from the buffer the call has, or from a shorter one, and the hasher is
\* ahead of what the callers know by that chunk.
WriterInv ==
    /\ wpc \in {"idle", "sinking", "pending", "failed", "finished"}
    /\ {accepted, offered, hashed, chunk} \subseteq Nat
    /\ unsent \in Seq(Nat)
    /\ wpc \in {"idle", "finished"} => unsent = <<>>
    /\ wpc \in {"sinking", "pending"} => unsent # <<>>
    /\ unsent # <<>> => chunk <= offered
    /\ hashed = accepted + IF unsent = <<>> THEN 0 ELSE chunk

LEMMA LengthPositive == MAX_LENGTH \in Nat \ {0}
  <1>1. Base * Base >= 2 * Base
    BY BaseAssumption
  <1> QED
    BY <1>1, BaseAssumption DEF MAX_LENGTH

LEMMA ChunkType ==
    ASSUME NEW n \in Nat, accepted \in Nat
    PROVE  Chunk(n) \in Seq(Nat) /\ Chunk(n) # <<>>
  <1> DEFINE body == [p \in 1..n |-> Base + accepted + p]
             head == <<n \div Base, n % Base>>
  <1>1. head \in Seq(Nat) /\ Len(head) = 2
    BY BaseAssumption
  <1>2. body \in Seq(Nat)
    BY BaseAssumption, IsASeq
  <1>3. head \o body \in Seq(Nat) /\ Len(head \o body) = 2 + Len(body)
    BY <1>1, <1>2, ConcatProperties
  <1>4. Len(head \o body) # 0
    BY <1>2, <1>3, LenProperties
  <1> QED
    BY <1>3, <1>4, EmptySeq DEF Chunk

LEMMA WriteBeginInv ==
    ASSUME WriterInv, NEW k \in 0..Total, WriteBegin(k)
    PROVE  WriterInv'
  <1>1. k \in Nat /\ k > 0
    BY SizeAssumption DEF WriteBegin
  <1>2. CASE unsent = <<>>
    <2>1. Least(k, MAX_LENGTH) \in Nat /\ Least(k, MAX_LENGTH) <= k
      BY <1>1, LengthPositive DEF Least
    <2>2. unsent' \in Seq(Nat) /\ unsent' # <<>>
      BY <1>2, <2>1, ChunkType DEF WriteBegin, WriterInv
    <2> QED
      BY <1>1, <1>2, <2>1, <2>2 DEF WriteBegin, WriterInv
  <1>3. CASE unsent # <<>>
    BY <1>1, <1>3 DEF WriteBegin, WriterInv
  <1> QED
    BY <1>2, <1>3

LEMMA SinkInv ==
    ASSUME WriterInv, NEW n, Sink(n)
    PROVE  WriterInv'
  <1>1. n \in 1..Len(unsent) /\ unsent # <<>> /\ unsent \in Seq(Nat)
    BY DEF Sink, WriterInv
  <1>2. unsent' \in Seq(Nat)
    <2>1. Len(unsent) \in Nat
      BY <1>1
    <2> QED
      BY <1>1, <2>1, SubSeqProperties DEF Sink
  <1> QED
    BY <1>1, <1>2 DEF Sink, WriterInv

LEMMA WriterStepInv ==
    ASSUME WriterInv, [Next]_vars
    PROVE  WriterInv'
  <1>1. CASE \E k \in 0..Total : WriteBegin(k)
    BY <1>1, WriteBeginInv
  <1>2. CASE \E n \in 1..(Total + 2) : Sink(n)
    BY <1>2, SinkInv
  <1>3. CASE SinkPending \/ SinkError \/ Finish
    BY <1>3 DEF SinkPending, SinkError, Finish, WriterInv
  <1>4. CASE ReaderStep \/ Done \/ UNCHANGED vars
    <2>1. UNCHANGED wvars
      BY <1>4 DEF ReaderStep, ReadBegin, ReadHead, ReadLength, ReadId,
                  ReadHashLength, ReadHash, ReadEnd, ReadBody, ReadRange, Copy,
                  Done, vars, wvars
    <2> QED
      BY <2>1 DEF wvars, WriterInv
  <1> QED
    BY <1>1, <1>2, <1>3, <1>4 DEF Next, WriterStep

LEMMA WriterInvariant == Spec => []WriterInv
  <1>1. Init => WriterInv
    BY DEF Init, WriterInv
  <1> QED
    BY <1>1, WriterStepInv, PTL DEF Spec

\* A write that is resumed with another buffer returns the length of the chunk
\* cut from the first one, and that is never more than the buffer it was given
\* last, whatever the stream below takes.
THEOREM ReturnsFit == Spec => ReturnWithinBuffer
  <1>1. WriterInv /\ [Next]_vars => [accepted' - accepted <= offered]_vars
    <2> SUFFICES ASSUME WriterInv, [Next]_vars
                 PROVE  [accepted' - accepted <= offered]_vars
      OBVIOUS
    <2>1. CASE \E n \in 1..(Total + 2) : Sink(n)
      <3>1. /\ accepted \in Nat /\ offered \in Nat /\ chunk \in Nat
            /\ chunk <= offered
        BY <2>1 DEF Sink, WriterInv
      <3>2. accepted' = accepted \/ accepted' = accepted + chunk
        BY <2>1 DEF Sink
      <3> QED
        BY <3>1, <3>2
    <2>2. CASE accepted' = accepted
      BY <2>2 DEF WriterInv
    <2>3. CASE ReaderStep
      <3>1. UNCHANGED wvars
        BY <2>3 DEF ReaderStep, ReadBegin, ReadHead, ReadLength, ReadId,
                    ReadHashLength, ReadHash, ReadEnd, ReadBody, ReadRange,
                    Copy
      <3> QED
        BY <2>2, <3>1 DEF wvars
    <2>4. CASE WriterStep /\ ~\E n \in 1..(Total + 2) : Sink(n)
      BY <2>2, <2>4 DEF WriterStep, WriteBegin, SinkPending, SinkError, Finish
    <2> QED
      BY <2>1, <2>3, <2>4 DEF Next, Done
  <1> QED
    BY <1>1, WriterInvariant, PTL DEF Spec, ReturnWithinBuffer

\* The hasher is fed every byte once: between two calls it has seen just the
\* bytes the callers were told are written, also after resumed calls, so the
\* hash in the trailer is that of the content.
HashedAccepted == wpc \in {"idle", "finished"} => hashed = accepted

THEOREM HashedOnce == Spec => []HashedAccepted
  <1>1. WriterInv => HashedAccepted
    BY DEF WriterInv, HashedAccepted
  <1> QED
    BY <1>1, WriterInvariant, PTL

-----------------------------------------------------------------------------
(* What is on its way *)

\* All bytes that DataWriter has put behind each other and that DataReader has
\* not dropped yet.
Stream == (rbuf \o wire) \o unsent

\* A length at position i of s.
LengthAt(s, i) == s[i] * Base + s[i + 1]

\* At position i of the first m bytes of s there is a whole chunk, and its
\* bytes are those of the content behind the first b.
IsChunk(s, m, i, b) ==
    /\ i + 1 < m /\ s[i] < Base /\ s[i + 1] < Base
    /\ LengthAt(s, i) >= 1 /\ i + 1 + LengthAt(s, i) <= m
    /\ \A p \in 1..LengthAt(s, i) : s[i + 1 + p] = Base + b + p
    /\ i + 1 + LengthAt(s, i) < m => s[i + 2 + LengthAt(s, i)] < Base

\* The first m bytes of s are chunks with the bytes of the content behind the
\* first a, up to the first h: a number below Base behind one that is not
\* starts a chunk.
Chunked(s, m, a, h) ==
    /\ \A i \in 1..m : s[i] <= Base + h
    /\ IF m = 0 THEN a = h ELSE IsChunk(s, m, 1, a) /\ s[m] = Base + h
    /\ \A i \in 3..m : s[i - 1] >= Base /\ s[i] < Base
                          => IsChunk(s, m, i, s[i - 1] - Base)

TrailerLength == 3 + HashLen

\* Behind the first m bytes of s there is only the start of the trailer, and
\* that only when the writer ended; it is all there exactly if it finished.
TrailerFrom(s, m) ==
    /\ Len(s) - m <= TrailerLength
    /\ \A i \in 1..(Len(s) - m) : s[m + i] = Trailer[i]
    /\ m < Len(s) => Closed /\ unsent = <<>>
    /\ wpc = "finished" <=> Len(s) = m + TrailerLength

\* The bytes of the content before the first chunk of the stream.
Begun == Len(delivered) - IF rstart < rend THEN rstart - 2 ELSE 0

\* m is where the chunks of the stream end.
Blob(s, m) == Chunked(s, m, Begun, hashed) /\ TrailerFrom(s, m)

\* How far the reader is, by what it is about to do.
Within(m) ==
    /\ rpc = "idle" => rstart < rend \/ rbuf = <<>>
    /\ rpc = "head" => rbuf = <<>>
    /\ rpc \in {"length", "id", "body"} => Len(rbuf) = 2
    /\ rpc = "id" => Length = 0
    /\ rpc = "body" => Length >= 1
    /\ rpc \in {"hash_length", "hash"} => Len(rbuf) = 3 /\ m = 0
    /\ rpc = "end" => Len(rbuf) = TrailerLength /\ m = 0
    /\ rpc = "range" => /\ Length >= 1 /\ Len(rbuf) = 2 + Length
                        /\ Len(rbuf) >= 3
    /\ rpc = "copy" => rstart < rend
    /\ rpc \notin {"idle", "copy"} => rstart = rend

\* The reader has neither the hash nor an error.
Reading == rpc \notin {"failed", "ended"}

\* Types, without a panic.
StreamTypes ==
    /\ rpc \in {"idle", "head", "length", "id", "hash_length", "hash", "end",
                "body", "range", "copy", "ended", "failed"}
    /\ wire \in Seq(Nat) /\ rbuf \in Seq(Nat) /\ delivered \in Seq(Nat)
    /\ want \in 0..MaxRead /\ {hashed, offered, chunk} \subseteq 0..Total
    /\ rend \in 0..(Total + 2) /\ rstart \in 0..rend
    /\ rhash \in Nat \cup {None}

\* The inductive invariant: as long as the reader goes on, what is on its way
\* is chunks that go on where its callers are, and then the trailer.
StreamInv ==
    /\ WriterInv /\ StreamTypes /\ ContentInOrder
    /\ rstart < rend => /\ rstart >= 2 /\ rstart - 2 <= Len(delivered)
                        /\ rend = 2 + Length /\ rend = Len(rbuf)
    /\ Reading => \E m \in 0..Len(Stream) : Blob(Stream, m) /\ Within(m)
    /\ rpc = "ended" => /\ wpc = "finished" /\ rhash = hashed
                        /\ Len(delivered) = hashed
    /\ rpc # "ended" => rhash = None

-----------------------------------------------------------------------------
(* Sequences and lengths *)

\* A length is a number.
LEMMA LengthAtType ==
    ASSUME NEW s, NEW i \in Nat, s[i] \in Nat, s[i + 1] \in Nat
    PROVE  LengthAt(s, i) \in Nat
  <1>1. \A x, y \in Nat : x * y \in Nat
    OBVIOUS
  <1>2. s[i] * Base \in Nat
    BY <1>1, BaseAssumption
  <1> QED
    BY <1>2 DEF LengthAt

\* A chunk is one at another place, with other bytes around it, too.
LEMMA ChunkMoves ==
    ASSUME NEW s, NEW r, NEW i \in Nat, NEW j \in Nat, NEW d \in Int,
           NEW m \in Nat, NEW k \in Nat, NEW b \in Nat, j = i + d, k >= m + d,
           k > m + d => r[m + d + 1] < Base,
           i >= 1, j >= 1, \A q \in 1..m : s[q] \in Nat,
           \A q \in i..m : r[q + d] = s[q], IsChunk(s, m, i, b)
    PROVE  IsChunk(r, k, j, b)
  <1> DEFINE n == LengthAt(s, i)
  <1>0. i + 1 < m
    BY DEF IsChunk
  <1>1. r[j] = s[i] /\ r[j + 1] = s[i + 1]
    <2>1. i \in i..m /\ i + 1 \in i..m /\ (i + 1) + d = j + 1
      BY <1>0
    <2> QED
      BY <2>1
  <1>2. LengthAt(r, j) = n
    BY <1>1 DEF LengthAt
  <1>3. n \in Nat
    BY <1>0, LengthAtType
  <1>4. /\ n >= 1 /\ i + 1 + n <= m
        /\ \A p \in 1..n : s[i + 1 + p] = Base + b + p
        /\ i + 1 + n < m => s[i + 2 + n] < Base
        /\ s[i] < Base /\ s[i + 1] < Base
    BY DEF IsChunk
  <1> HIDE DEF n
  <1>5. \A p \in 1..n : r[j + 1 + p] = Base + b + p
    <2> TAKE p \in 1..n
    <2>1. i + 1 + p \in i..m /\ (i + 1 + p) + d = j + 1 + p
      BY <1>3, <1>4
    <2> QED
      BY <2>1, <1>4
  <1>6. j + 1 + n < k => r[j + 2 + n] < Base
    <2> SUFFICES ASSUME j + 1 + n < k  PROVE r[j + 2 + n] < Base
      OBVIOUS
    <2>1. CASE i + 1 + n < m
      <3>1. i + 2 + n \in i..m /\ (i + 2 + n) + d = j + 2 + n
        BY <1>3, <1>4, <2>1
      <3> QED
        BY <2>1, <3>1, <1>4
    <2>2. CASE i + 1 + n = m
      <3>1. j + 2 + n = m + d + 1 /\ k > m + d
        BY <1>3, <2>2
      <3> QED
        BY <3>1
    <2> QED
      BY <1>3, <1>4, <2>1, <2>2
  <1>7. j + 1 + n <= k
    BY <1>3, <1>4
  <1>8. j + 1 < k
    BY <1>0
  <1> QED
    BY <1>1, <1>2, <1>4, <1>5, <1>6, <1>7, <1>8 DEF IsChunk

\* Another sequence that starts like s.
LEMMA ChunkedSame ==
    ASSUME NEW s, NEW r, NEW m \in Nat, NEW a \in Nat, NEW h \in Nat,
           \A q \in 1..m : s[q] \in Nat, \A q \in 1..m : r[q] = s[q],
           Chunked(s, m, a, h)
    PROVE  Chunked(r, m, a, h)
  <1>1. \A i \in 1..m : r[i] <= Base + h
    <2> TAKE i \in 1..m
    <2>1. r[i] = s[i] /\ s[i] <= Base + h
      BY DEF Chunked
    <2> QED
      BY <2>1
  <1>2. ASSUME NEW i \in 1..m, NEW b \in Nat, IsChunk(s, m, i, b)
        PROVE  IsChunk(r, m, i, b)
    <2> DEFINE d == 0
               j == i
               k == m
    <2>1. /\ i \in Nat /\ i >= 1 /\ d \in Int /\ j = i + d /\ j \in Nat
          /\ j >= 1 /\ k \in Nat /\ k >= m + d /\ ~(k > m + d)
          /\ \A q \in i..m : r[q + d] = s[q]
      OBVIOUS
    <2> HIDE DEF d, j, k
    <2>2. IsChunk(r, k, j, b)
      BY <1>2, <2>1, ChunkMoves
    <2> QED
      BY <2>2 DEF j, k
  <1>3. m # 0 => IsChunk(r, m, 1, a) /\ r[m] = Base + h
    <2> SUFFICES ASSUME m # 0 PROVE IsChunk(r, m, 1, a) /\ r[m] = Base + h
      OBVIOUS
    <2>1. IsChunk(s, m, 1, a) /\ s[m] = Base + h /\ 1 \in 1..m /\ m \in 1..m
      BY DEF Chunked
    <2> QED
      BY <2>1, <1>2
  <1>4. ASSUME NEW i \in 3..m, r[i - 1] >= Base, r[i] < Base
        PROVE  IsChunk(r, m, i, r[i - 1] - Base)
    <2>1. /\ i \in 1..m /\ i - 1 \in 1..m
          /\ r[i - 1] = s[i - 1] /\ r[i] = s[i] /\ s[i - 1] \in Nat
      OBVIOUS
    <2>2. s[i - 1] - Base \in Nat
      BY <1>4, <2>1, BaseAssumption
    <2>3. IsChunk(s, m, i, s[i - 1] - Base)
      BY <1>4, <2>1 DEF Chunked
    <2> QED
      BY <2>1, <2>2, <2>3, <1>2
  <1>5. m = 0 => a = h
    BY DEF Chunked
  <1> QED
    BY <1>1, <1>3, <1>4, <1>5 DEF Chunked

\* The first chunk is taken away.
LEMMA ChunkedDrop ==
    ASSUME NEW s, NEW r, NEW m \in Nat \ {0}, NEW a \in Nat, NEW h \in Nat,
           NEW e, e = 2 + LengthAt(s, 1),
           \A q \in 1..m : s[q] \in Nat,
           \A q \in 1..(m - e) : r[q] = s[e + q],
           Chunked(s, m, a, h)
    PROVE  /\ e \in 3..m
           /\ Chunked(r, m - e, a + LengthAt(s, 1), h)
  <1> DEFINE n == LengthAt(s, 1)
  <1>1. /\ IsChunk(s, m, 1, a) /\ s[m] = Base + h
        /\ \A i \in 1..m : s[i] <= Base + h
    BY DEF Chunked
  <1>2. 1 + 1 < m
    BY <1>1 DEF IsChunk
  <1>3. n \in Nat
    <2>1. 1 \in 1..m /\ 1 + 1 \in 1..m
      BY <1>2
    <2> QED
      BY <2>1, LengthAtType
  <1>4. /\ n >= 1 /\ 1 + 1 + n <= m
        /\ \A p \in 1..n : s[1 + 1 + p] = Base + a + p
        /\ 1 + 1 + n < m => s[1 + 2 + n] < Base
    BY <1>1 DEF IsChunk
  <1> HIDE DEF n
  <1>5. e \in 3..m /\ e = 2 + n
    BY <1>3, <1>4 DEF n
  <1>6. s[e] = Base + (a + n)
    <2>1. n \in 1..n /\ 1 + 1 + n = e
      BY <1>3, <1>4, <1>5
    <2>2. s[e] = Base + a + n
      BY <2>1, <1>4
    <2> QED
      BY <2>2, <1>3, BaseAssumption
  <1> DEFINE k == m - e
  <1>7. k \in Nat
    BY <1>5
  <1>8. ASSUME NEW i \in 3..m, NEW j \in 1..k, i = e + j, NEW b \in Nat,
               IsChunk(s, m, i, b)
        PROVE  IsChunk(r, k, j, b)
    <2> DEFINE d == 0 - e
    <2>1. /\ i \in Nat /\ j \in Nat /\ d \in Int /\ j = i + d
          /\ i >= 1 /\ j >= 1 /\ k >= m + d /\ ~(k > m + d)
      BY <1>5, <1>7, <1>8
    <2>2. \A q \in i..m : r[q + d] = s[q]
      <3> TAKE q \in i..m
      <3>1. q + d \in 1..(m - e) /\ e + (q + d) = q
        BY <1>5, <1>8
      <3> QED
        BY <3>1
    <2> HIDE DEF d, k
    <2> QED
      BY <1>7, <1>8, <2>1, <2>2, ChunkMoves
  <1>9. \A i \in 1..k : r[i] <= Base + h
    <2> TAKE i \in 1..k
    <2>1. e + i \in 1..m /\ r[i] = s[e + i]
      BY <1>5
    <2> QED
      BY <1>1, <2>1
  <1>10. k = 0 => a + n = h
    <2>1. k = 0 => e = m
      BY <1>5
    <2> QED
      BY <1>1, <1>3, <1>6, <2>1, BaseAssumption
  <1>11. k # 0 => IsChunk(r, k, 1, a + n) /\ r[k] = Base + h
    <2> SUFFICES ASSUME k # 0 PROVE IsChunk(r, k, 1, a + n) /\ r[k] = Base + h
      OBVIOUS
    <2>1. /\ e + 1 \in 3..m /\ (e + 1) - 1 = e /\ 1 \in 1..k
          /\ k \in 1..k /\ e + k = m /\ 1 + 1 + n < m /\ 1 + 2 + n = e + 1
      BY <1>3, <1>5, <1>7
    <2>2. /\ s[e + 1] < Base /\ s[e] >= Base /\ s[e] - Base = a + n
          /\ a + n \in Nat
      BY <1>3, <1>4, <1>6, <2>1, BaseAssumption
    <2>3. IsChunk(s, m, e + 1, a + n)
      BY <2>1, <2>2 DEF Chunked
    <2>4. r[k] = s[m]
      BY <2>1
    <2> HIDE DEF k
    <2> QED
      BY <1>1, <2>1, <2>2, <2>3, <2>4, <1>8
  <1>12. ASSUME NEW i \in 3..k, r[i - 1] >= Base, r[i] < Base
         PROVE  IsChunk(r, k, i, r[i - 1] - Base)
    <2>1. /\ e + i \in 3..m /\ (e + i) - 1 = e + (i - 1) /\ i \in 1..k
          /\ i - 1 \in 1..k /\ e + (i - 1) \in 1..m
      BY <1>5, <1>7
    <2>2. r[i - 1] = s[(e + i) - 1] /\ r[i] = s[e + i] /\ r[i - 1] \in Nat
      BY <2>1
    <2>3. r[i - 1] - Base \in Nat
      BY <1>12, <2>2, BaseAssumption
    <2>4. IsChunk(s, m, e + i, r[i - 1] - Base)
      BY <1>12, <2>1, <2>2 DEF Chunked
    <2> HIDE DEF k
    <2> QED
      BY <2>1, <2>3, <2>4, <1>8
  <1> QED
    BY <1>5, <1>9, <1>10, <1>11, <1>12 DEF Chunked, n

\* A chunk of c bytes is put behind the last byte.
LEMMA ChunkedAppend ==
    ASSUME NEW s, NEW r, NEW m \in Nat, NEW a \in Nat, NEW h \in Nat,
           NEW c \in Nat, c >= 1, \A q \in 1..m : s[q] \in Nat,
           \A q \in 1..m : r[q] = s[q],
           r[m + 1] \in 0..(Base - 1), r[m + 2] \in 0..(Base - 1),
           LengthAt(r, m + 1) = c,
           \A p \in 1..c : r[m + 2 + p] = Base + h + p,
           Chunked(s, m, a, h)
    PROVE  Chunked(r, m + 2 + c, a, h + c)
  <1> DEFINE k == m + 2 + c
  <1>1. k \in Nat /\ m + 2 < k
    OBVIOUS
  <1>2. \A i \in 1..k : r[i] \in Nat /\ r[i] <= Base + (h + c)
    <2> TAKE i \in 1..k
    <2>1. CASE i <= m
      <3>1. r[i] = s[i] /\ s[i] <= Base + h /\ s[i] \in Nat
        BY <2>1 DEF Chunked
      <3> QED
        BY <3>1, BaseAssumption
    <2>2. CASE i = m + 1 \/ i = m + 2
      BY <2>2, BaseAssumption
    <2>3. CASE i > m + 2
      <3>1. i - (m + 2) \in 1..c /\ m + 2 + (i - (m + 2)) = i
        BY <2>3
      <3>2. r[i] = Base + h + (i - (m + 2))
        BY <3>1
      <3> QED
        BY <3>1, <3>2, BaseAssumption
    <2> QED
      BY <2>1, <2>2, <2>3
  <1>3. IsChunk(r, k, m + 1, h)
    <2>1. /\ (m + 1) + 1 = m + 2 /\ (m + 1) + 1 < k /\ (m + 1) + 1 + c = k
          /\ r[m + 1] < Base /\ r[m + 2] < Base
      BY BaseAssumption
    <2> HIDE DEF k
    <2> QED
      BY <2>1 DEF IsChunk
  <1>4. ASSUME NEW i \in 1..m, NEW b \in Nat, IsChunk(s, m, i, b)
        PROVE  IsChunk(r, k, i, b)
    <2> DEFINE d == 0
    <2>1. /\ i \in Nat /\ i >= 1 /\ d \in Int /\ i = i + d
          /\ k >= m + d /\ m + d + 1 = m + 1
          /\ \A q \in i..m : r[q + d] = s[q]
      OBVIOUS
    <2>2. r[m + d + 1] < Base
      BY <2>1, BaseAssumption
    <2> HIDE DEF d, k
    <2> QED
      BY <1>1, <1>4, <2>1, <2>2, ChunkMoves
  <1>5. r[k] = Base + (h + c)
    <2>1. c \in 1..c
      OBVIOUS
    <2>2. r[m + 2 + c] = Base + h + c
      BY <2>1
    <2> QED
      BY <2>2, BaseAssumption
  <1>6. IsChunk(r, k, 1, a)
    <2>1. CASE m = 0
      <3>1. a = h /\ m + 1 = 1
        BY <2>1 DEF Chunked
      <3> QED
        BY <1>3, <3>1
    <2>2. CASE m # 0
      <3>1. 1 \in 1..m /\ IsChunk(s, m, 1, a)
        BY <2>2 DEF Chunked
      <3> HIDE DEF k
      <3> QED
        BY <1>4, <3>1
    <2> QED
      BY <2>1, <2>2
  <1>7. ASSUME NEW i \in 3..k, r[i - 1] >= Base, r[i] < Base
        PROVE  IsChunk(r, k, i, r[i - 1] - Base)
    <2>1. CASE i <= m
      <3>1. /\ i \in 1..m /\ i \in 3..m /\ i - 1 \in 1..m
            /\ r[i - 1] = s[i - 1] /\ r[i] = s[i] /\ s[i - 1] \in Nat
        BY <2>1
      <3>2. s[i - 1] - Base \in Nat
        BY <1>7, <3>1, BaseAssumption
      <3>3. IsChunk(s, m, i, s[i - 1] - Base)
        BY <1>7, <3>1 DEF Chunked
      <3> HIDE DEF k
      <3> QED
        BY <1>4, <3>1, <3>2, <3>3
    <2>2. CASE i = m + 1
      <3>1. m # 0 /\ i - 1 = m /\ m \in 1..m
        BY <2>2
      <3>2. r[i - 1] = Base + h
        BY <3>1 DEF Chunked
      <3>3. r[i - 1] - Base = h
        BY <3>2, BaseAssumption
      <3> HIDE DEF k
      <3> QED
        BY <1>3, <2>2, <3>3
    <2>3. CASE i = m + 2
      <3>1. i - 1 = m + 1
        BY <2>3
      <3> QED
        BY <1>7, <3>1, BaseAssumption
    <2>4. CASE i > m + 2
      <3>1. i - (m + 2) \in 1..c /\ m + 2 + (i - (m + 2)) = i
        BY <2>4
      <3>2. r[i] = Base + h + (i - (m + 2))
        BY <3>1
      <3> QED
        BY <1>7, <3>1, <3>2, BaseAssumption
    <2> QED
      BY <2>1, <2>2, <2>3, <2>4
  <1> HIDE DEF k
  <1>8. Chunked(r, k, a, h + c)
    <2>1. k # 0
      BY <1>1
    <2> QED
      BY <2>1, <1>2, <1>5, <1>6, <1>7 DEF Chunked
  <1> QED
    BY <1>8 DEF k

\* The two bytes of a length.
LEMMA Divided ==
    ASSUME NEW n \in Nat
    PROVE  /\ n \div Base \in Nat /\ n % Base \in 0..(Base - 1)
           /\ (n \div Base) * Base + (n % Base) = n
           /\ n <= MAX_LENGTH => n \div Base <= Base - 1
  <1>1. n % Base \in 0..(Base - 1)
    BY BaseAssumption
  <1>2. n \div Base \in Int
    BY BaseAssumption
  <1>3. (n \div Base) * Base + (n % Base) = n
    BY BaseAssumption, SMTT(30)
  <1>4. n \div Base >= 0
    BY BaseAssumption, SMTT(30)
  <1>5. ASSUME n <= MAX_LENGTH  PROVE n \div Base <= Base - 1
    <2> DEFINE q == n \div Base
               e == n % Base
    <2>1. q * Base + e = n /\ q \in Nat /\ e \in 0..(Base - 1)
      BY <1>1, <1>2, <1>3, <1>4
    <2> HIDE DEF q, e
    <2>2. \A x, y \in Nat : x * y \in Nat
      OBVIOUS
    <2>3. q * Base \in Nat /\ Base * Base \in Nat
      BY <2>1, <2>2, BaseAssumption
    <2>4. \A x, y, z \in Nat : x >= y => x * z >= y * z
      OBVIOUS
    <2>5. q >= Base => q * Base >= Base * Base
      BY <2>1, <2>4, BaseAssumption
    <2>6. q * Base <= n /\ n <= Base * Base - 1
      BY <1>5, <2>1, <2>3 DEF MAX_LENGTH
    <2>7. q <= Base - 1
      BY <2>1, <2>3, <2>5, <2>6, BaseAssumption
    <2> QED
      BY <2>7 DEF q
  <1> QED
    BY <1>1, <1>2, <1>3, <1>4, <1>5

\* The parts of a concatenation.
LEMMA Joined ==
    ASSUME NEW s \in Seq(Nat), NEW t \in Seq(Nat)
    PROVE  /\ s \o t \in Seq(Nat) /\ Len(s \o t) = Len(s) + Len(t)
           /\ \A i \in 1..Len(s) : (s \o t)[i] = s[i]
           /\ \A i \in 1..Len(t) : (s \o t)[Len(s) + i] = t[i]
  <1>1. /\ s \o t \in Seq(Nat) /\ Len(s \o t) = Len(s) + Len(t)
        /\ \A i \in 1..(Len(s) + Len(t)) :
               (s \o t)[i] = IF i <= Len(s) THEN s[i] ELSE t[i - Len(s)]
    BY ConcatProperties
  <1>2. Len(s) \in Nat /\ Len(t) \in Nat
    BY LenProperties
  <1>3. \A i \in 1..Len(s) : i \in 1..(Len(s) + Len(t)) /\ i <= Len(s)
    BY <1>2
  <1>4. \A i \in 1..Len(s) : (s \o t)[i] = s[i]
    BY <1>1, <1>3, Zenon
  <1>5. ASSUME NEW i \in 1..Len(t)
        PROVE  (s \o t)[Len(s) + i] = t[i]
    <2>1. /\ Len(s) + i \in 1..(Len(s) + Len(t)) /\ ~(Len(s) + i <= Len(s))
          /\ (Len(s) + i) - Len(s) = i
      BY <1>2
    <2> QED
      BY <1>1, <2>1, Zenon
  <1> QED
    BY <1>1, <1>4, <1>5, Zenon

LEMMA Regrouped ==
    ASSUME NEW s \in Seq(Nat), NEW t \in Seq(Nat), NEW u \in Seq(Nat)
    PROVE  (s \o t) \o u = s \o (t \o u)
  BY ConcatAssociative, SMTT(20)

\* What DataWriter makes of n bytes.
LEMMA ChunkBytes ==
    ASSUME NEW n \in Nat, n <= MAX_LENGTH, accepted \in Nat
    PROVE  /\ Chunk(n) \in Seq(Nat) /\ Len(Chunk(n)) = 2 + n
           /\ Chunk(n)[1] \in 0..(Base - 1) /\ Chunk(n)[2] \in 0..(Base - 1)
           /\ LengthAt(Chunk(n), 1) = n
           /\ \A p \in 1..n : Chunk(n)[2 + p] = Base + accepted + p
  <1> DEFINE body == [p \in 1..n |-> Base + accepted + p]
             head == <<n \div Base, n % Base>>
  <1>1. /\ head \in Seq(Nat) /\ Len(head) = 2
        /\ head[1] = n \div Base /\ head[2] = n % Base
    BY Divided, BaseAssumption
  <1>2. body \in Seq(Nat)
    BY BaseAssumption, IsASeq
  <1>3. Len(body) = n
    BY <1>2, LenProperties
  <1>4. \A p \in 1..n : body[p] = Base + accepted + p
    OBVIOUS
  <1> HIDE DEF head, body
  <1>5. /\ head \o body \in Seq(Nat) /\ Len(head \o body) = 2 + n
        /\ \A i \in 1..2 : (head \o body)[i] = head[i]
        /\ \A i \in 1..n : (head \o body)[2 + i] = body[i]
    <2>1. head \in Seq(Nat) /\ body \in Seq(Nat)
      BY <1>1, <1>2
    <2>2. /\ head \o body \in Seq(Nat)
          /\ Len(head \o body) = Len(head) + Len(body)
          /\ \A i \in 1..Len(head) : (head \o body)[i] = head[i]
          /\ \A i \in 1..Len(body) : (head \o body)[Len(head) + i] = body[i]
      BY <2>1, Joined
    <2> QED
      BY <1>1, <1>3, <2>2, Zenon
  <1>6. (head \o body)[1] = n \div Base /\ (head \o body)[2] = n % Base
    <2>1. 1 \in 1..2 /\ 2 \in 1..2
      OBVIOUS
    <2> QED
      BY <1>1, <1>5, <2>1, Zenon
  <1>7. \A p \in 1..n : (head \o body)[2 + p] = Base + accepted + p
    BY <1>4, <1>5, Zenon
  <1>8. Chunk(n) = head \o body
    BY DEF Chunk, head, body
  <1>9. LengthAt(Chunk(n), 1) = (n \div Base) * Base + (n % Base)
    <2>1. 1 + 1 = 2
      OBVIOUS
    <2> QED
      BY <2>1, <1>6, <1>8 DEF LengthAt
  <1>10. n \div Base \in 0..(Base - 1)
    <2>1. n \div Base \in Nat /\ n \div Base <= Base - 1
      BY Divided
    <2> HIDE DEF head
    <2> QED
      BY <2>1, BaseAssumption
  <1>11. LengthAt(Chunk(n), 1) = n
    BY <1>9, Divided
  <1> QED
    BY <1>5, <1>6, <1>7, <1>8, <1>10, <1>11, Divided

-----------------------------------------------------------------------------
(* The stream *)

\* What DataWriter ends with.
LEMMA TrailerBytes ==
    ASSUME hashed \in Nat
    PROVE  /\ Trailer \in Seq(Nat) /\ Len(Trailer) = TrailerLength
           /\ Trailer[1] = 0 /\ Trailer[2] = 0 /\ Trailer[3] = HashId
           /\ Trailer[TrailerLength] = HashByte(hashed)
           /\ TrailerLength \in Nat /\ TrailerLength >= 4
  <1> DEFINE body == [b \in 1..HashLen |-> HashByte(hashed)]
             head == <<0, 0, HashId>>
  <1>0. HashByte(hashed) \in Nat /\ HashLen \in Nat \ {0} /\ HashId \in Nat
    BY BaseAssumption, SizeAssumption DEF HashByte, HashId
  <1>1. /\ head \in Seq(Nat) /\ Len(head) = 3
        /\ head[1] = 0 /\ head[2] = 0 /\ head[3] = HashId
    BY <1>0
  <1>2. body \in Seq(Nat)
    BY <1>0, IsASeq
  <1>3. Len(body) = HashLen
    BY <1>0, <1>2, LenProperties
  <1>4. body[HashLen] = HashByte(hashed)
    BY <1>0
  <1> HIDE DEF head, body
  <1>5. /\ head \o body \in Seq(Nat) /\ Len(head \o body) = 3 + HashLen
        /\ \A i \in 1..3 : (head \o body)[i] = head[i]
        /\ \A i \in 1..HashLen : (head \o body)[3 + i] = body[i]
    <2>1. head \in Seq(Nat) /\ body \in Seq(Nat)
      BY <1>1, <1>2
    <2>2. /\ head \o body \in Seq(Nat)
          /\ Len(head \o body) = Len(head) + Len(body)
          /\ \A i \in 1..Len(head) : (head \o body)[i] = head[i]
          /\ \A i \in 1..Len(body) : (head \o body)[Len(head) + i] = body[i]
      BY <2>1, Joined
    <2> QED
      BY <1>1, <1>3, <2>2, Zenon
  <1>6. Trailer = head \o body
    BY DEF Trailer, head, body
  <1>7. HashLen \in 1..HashLen /\ 1 \in 1..3 /\ 2 \in 1..3 /\ 3 \in 1..3
    BY <1>0
  <1>8. (head \o body)[3 + HashLen] = HashByte(hashed)
    BY <1>4, <1>5, <1>7, Zenon
  <1>9. /\ (head \o body)[1] = 0 /\ (head \o body)[2] = 0
        /\ (head \o body)[3] = HashId
    BY <1>1, <1>5, <1>7, Zenon
  <1> QED
    BY <1>0, <1>5, <1>6, <1>8, <1>9 DEF TrailerLength

\* Taking n bytes from w and putting them behind r.
LEMMA Taken ==
    ASSUME NEW r \in Seq(Nat), NEW w \in Seq(Nat), NEW n \in 0..Len(w)
    PROVE  /\ SubSeq(w, 1, n) \in Seq(Nat) /\ Len(SubSeq(w, 1, n)) = n
           /\ SubSeq(w, n + 1, Len(w)) \in Seq(Nat)
           /\ Len(SubSeq(w, n + 1, Len(w))) = Len(w) - n
           /\ (r \o SubSeq(w, 1, n)) \o SubSeq(w, n + 1, Len(w)) = r \o w
           /\ r \o SubSeq(w, 1, n) \in Seq(Nat)
           /\ Len(r \o SubSeq(w, 1, n)) = Len(r) + n
  <1>1. Len(w) \in Nat /\ n \in Nat /\ n <= Len(w)
    BY LenProperties
  <1>2. SubSeq(w, 1, n) \in Seq(Nat) /\ Len(SubSeq(w, 1, n)) = n
    <2>1. \A i \in 1..n : w[i] \in Nat
      BY <1>1, ElementOfSeq
    <2> QED
      BY <1>1, <2>1, SubSeqProperties
  <1>3. /\ SubSeq(w, n + 1, Len(w)) \in Seq(Nat)
        /\ Len(SubSeq(w, n + 1, Len(w))) = Len(w) - n
    <2>1. \A i \in (n + 1)..Len(w) : w[i] \in Nat
      BY <1>1, ElementOfSeq
    <2> QED
      BY <1>1, <2>1, SubSeqProperties
  <1>4. SubSeq(w, 1, n) \o SubSeq(w, n + 1, Len(w)) = w
    <2>1. 1 \in 1..(Len(w) + 1) /\ n \in (1 - 1)..Len(w) /\ Len(w) \in n..Len(w)
      BY <1>1
    <2>2. SubSeq(w, 1, n) \o SubSeq(w, n + 1, Len(w)) = SubSeq(w, 1, Len(w))
      BY <2>1, ConcatAdjacentSubSeq
    <2> QED
      BY <2>2, SubSeqFull
  <1>5. (r \o SubSeq(w, 1, n)) \o SubSeq(w, n + 1, Len(w))
          = r \o (SubSeq(w, 1, n) \o SubSeq(w, n + 1, Len(w)))
    <2> DEFINE x == SubSeq(w, 1, n)
               y == SubSeq(w, n + 1, Len(w))
    <2>1. x \in Seq(Nat) /\ y \in Seq(Nat) /\ r \in Seq(Nat)
      BY <1>2, <1>3
    <2> HIDE DEF x, y
    <2>2. (r \o x) \o y = r \o (x \o y)
      BY <2>1, Regrouped
    <2> QED
      BY <2>2 DEF x, y
  <1>6. /\ r \o SubSeq(w, 1, n) \in Seq(Nat)
        /\ Len(r \o SubSeq(w, 1, n)) = Len(r) + n
    BY <1>2, ConcatProperties
  <1> QED
    BY <1>2, <1>3, <1>4, <1>5, <1>6

\* The stream is what the reader has, what is below, what the writer has.
LEMMA StreamParts ==
    ASSUME rbuf \in Seq(Nat), wire \in Seq(Nat), unsent \in Seq(Nat)
    PROVE  /\ Stream \in Seq(Nat) /\ Len(Stream) \in Nat
           /\ Len(Stream) = Len(rbuf) + Len(wire) + Len(unsent)
           /\ Len(rbuf) \in Nat /\ Len(wire) \in Nat /\ Len(unsent) \in Nat
           /\ \A i \in 1..Len(Stream) : Stream[i] \in Nat
           /\ \A i \in 1..Len(rbuf) : Stream[i] = rbuf[i]
           /\ Stream = rbuf \o (wire \o unsent)
           /\ wire \o unsent \in Seq(Nat)
           /\ Len(wire \o unsent) = Len(wire) + Len(unsent)
           /\ \A i \in 1..(Len(wire) + Len(unsent)) :
                  (wire \o unsent)[i] = Stream[Len(rbuf) + i]
  <1>1. Len(rbuf) \in Nat /\ Len(wire) \in Nat /\ Len(unsent) \in Nat
    BY LenProperties
  <1>2. Stream = rbuf \o (wire \o unsent)
    BY Regrouped DEF Stream
  <1>3. /\ wire \o unsent \in Seq(Nat)
        /\ Len(wire \o unsent) = Len(wire) + Len(unsent)
    BY ConcatProperties
  <1> DEFINE rest == wire \o unsent
             l == Len(rbuf)
             k == Len(wire) + Len(unsent)
  <1> HIDE DEF rest, k, l
  <1>4. rest \in Seq(Nat) /\ Len(rest) = k /\ k \in Nat /\ Stream = rbuf \o rest
    BY <1>1, <1>2, <1>3 DEF rest, k
  <1>6. l \in Nat /\ Len(rbuf) = l
    BY <1>1 DEF l
  <1>5. /\ Stream \in Seq(Nat) /\ Len(Stream) = l + k
        /\ \A i \in 1..l : Stream[i] = rbuf[i]
        /\ \A i \in 1..k : Stream[l + i] = rest[i]
    BY <1>4, <1>6, Joined, Zenon
  <1>9. \A i \in 1..Len(Stream) : Stream[i] \in Nat
    BY <1>5, ElementOfSeq
  <1>10. l + k = Len(rbuf) + Len(wire) + Len(unsent) /\ l + k \in Nat
    BY <1>1 DEF l, k
  <1> QED
    BY <1>1, <1>2, <1>3, <1>5, <1>9, <1>10 DEF l, k, rest

\* What the reader has in its buffer is the start of the stream.
LEMMA FirstChunk ==
    ASSUME StreamInv, NEW m \in 0..Len(Stream), Blob(Stream, m),
           Len(rbuf) >= 2
    PROVE  /\ Length \in Nat /\ Length = LengthAt(Stream, 1)
           /\ m = 0 => Length = 0
           /\ m # 0 => /\ Length >= 1 /\ 2 + Length <= m
                       /\ Begun \in Nat /\ Begun + Length <= hashed
                       /\ \A p \in 1..Length :
                              Stream[2 + p] = Base + Begun + p
  <1>1. /\ Len(Stream) \in Nat /\ Len(Stream) >= 2
        /\ \A i \in 1..Len(Stream) : Stream[i] \in Nat
        /\ Stream[1] = rbuf[1] /\ Stream[2] = rbuf[2]
    <2>1. rbuf \in Seq(Nat) /\ wire \in Seq(Nat) /\ unsent \in Seq(Nat)
      BY DEF StreamInv, StreamTypes, WriterInv
    <2> QED
      BY <2>1, StreamParts
  <1>2. Length = LengthAt(Stream, 1)
    <2>1. 1 + 1 = 2
      OBVIOUS
    <2> QED
      BY <1>1, <2>1 DEF Length, LengthAt
  <1>3. Length \in Nat
    <2>1. Stream[1] \in Nat /\ Stream[1 + 1] \in Nat /\ 1 \in Nat
      BY <1>1
    <2> QED
      BY <1>2, <2>1, LengthAtType
  <1>4. hashed \in Nat
    BY DEF StreamInv, WriterInv
  <1>5. ASSUME m = 0  PROVE Length = 0
    <2>1. 1 \in 1..(Len(Stream) - m) /\ 2 \in 1..(Len(Stream) - m)
      BY <1>1, <1>5
    <2>2. Stream[m + 1] = Trailer[1] /\ Stream[m + 2] = Trailer[2]
      BY <2>1 DEF Blob, TrailerFrom
    <2>3. Stream[1] = 0 /\ Stream[2] = 0
      BY <1>4, <1>5, <2>2, TrailerBytes
    <2>4. 0 * Base = 0
      BY BaseAssumption
    <2> QED
      BY <1>1, <2>3, <2>4 DEF Length
  <1>6. ASSUME m # 0
        PROVE  /\ Length >= 1 /\ 2 + Length <= m
               /\ Begun \in Nat /\ Begun + Length <= hashed
               /\ \A p \in 1..Length : Stream[2 + p] = Base + Begun + p
    <2>1. /\ IsChunk(Stream, m, 1, Begun)
          /\ \A i \in 1..m : Stream[i] <= Base + hashed
      BY <1>6 DEF Blob, Chunked
    <2>2. /\ Length >= 1 /\ 1 + 1 + Length <= m
          /\ \A p \in 1..Length : Stream[1 + 1 + p] = Base + Begun + p
      BY <1>2, <2>1 DEF IsChunk
    <2>3. \A p \in 1..Length : Stream[2 + p] = Base + Begun + p
      BY <2>2
    <2>4. Begun \in Nat
      BY DEF Begun, StreamInv, StreamTypes
    <2>5. Length \in 1..Length /\ 2 + Length \in 1..m
      BY <1>1, <1>3, <2>2
    <2>6. Base + Begun + Length <= Base + hashed
      BY <2>1, <2>3, <2>5
    <2> QED
      BY <1>1, <1>3, <1>4, <2>2, <2>3, <2>4, <2>6, BaseAssumption
  <1> QED
    BY <1>2, <1>3, <1>5, <1>6

\* Reading the stream does not change what is on it.
LEMMA FillStream ==
    ASSUME ~Async, StreamInv, NEW len \in Nat, NEW next, Fill(len, next),
           unsent' = unsent, Len(rbuf) <= len
    PROVE  \/ /\ rpc' = next /\ Stream' = Stream /\ Len(rbuf') = len
              /\ rbuf' \in Seq(Nat) /\ wire' \in Seq(Nat)
              /\ \A i \in 1..Len(rbuf) : rbuf'[i] = rbuf[i]
           \/ /\ rpc' = "failed" /\ rbuf' = rbuf /\ wire' = <<>>
  <1>1. /\ rbuf \in Seq(Nat) /\ wire \in Seq(Nat)
        /\ Len(rbuf) \in Nat /\ Len(wire) \in Nat
    BY LenProperties DEF StreamInv, StreamTypes
  <1> DEFINE missing == len - Len(rbuf)
  <1>2. CASE rpc' = next /\ UNCHANGED <<rbuf, wire>> /\ Len(rbuf) >= len
    BY <1>1, <1>2 DEF Stream
  <1>3. CASE /\ Len(rbuf) < len /\ Len(wire) >= missing
             /\ rbuf' = rbuf \o SubSeq(wire, 1, missing)
             /\ wire' = SubSeq(wire, missing + 1, Len(wire))
             /\ rpc' = next
    <2>1. missing \in 0..Len(wire)
      BY <1>1, <1>3
    <2> HIDE DEF missing
    <2>2. /\ rbuf' \o wire' = rbuf \o wire
          /\ rbuf' \in Seq(Nat) /\ wire' \in Seq(Nat)
          /\ Len(rbuf') = Len(rbuf) + missing
      BY <1>1, <1>3, <2>1, Taken
    <2>3. Len(rbuf') = len
      BY <1>1, <2>2 DEF missing
    <2>4. Stream' = Stream
      BY <2>2 DEF Stream
    <2>5. \A i \in 1..Len(rbuf) : rbuf'[i] = rbuf[i]
      <3>1. SubSeq(wire, 1, missing) \in Seq(Nat)
        BY <1>1, <2>1, Taken
      <3> QED
        BY <1>1, <1>3, <3>1, Joined
    <2> QED
      BY <1>3, <2>2, <2>3, <2>4, <2>5
  <1>4. CASE rpc' = "failed" /\ wire' = <<>> /\ UNCHANGED rbuf
    BY <1>4
  <1> QED
    BY <1>1, <1>2, <1>3, <1>4 DEF Fill

\* A step that moves neither the writer nor the bytes.
LEMMA StreamKept ==
    ASSUME StreamInv, WriterInv', UNCHANGED wvars,
           UNCHANGED <<delivered, rhash>>,
           StreamTypes', Stream' = Stream, Begun' = Begun,
           rpc # "ended", rpc' # "ended",
           (rstart < rend => /\ rstart >= 2 /\ rstart - 2 <= Len(delivered)
                             /\ rend = 2 + Length /\ rend = Len(rbuf))',
           NEW m \in 0..Len(Stream), Blob(Stream, m), Within(m)'
    PROVE  StreamInv'
  <1>1. m \in 0..Len(Stream')
    OBVIOUS
  <1>2. Blob(Stream, m)'
    <2>1. Chunked(Stream, m, Begun, hashed)'
      BY DEF Blob, wvars
    <2>2. Trailer' = Trailer
      BY DEF Trailer, HashByte, wvars
    <2>3. TrailerFrom(Stream, m)'
      BY <2>2 DEF Blob, TrailerFrom, Closed, wvars
    <2> QED
      BY <2>1, <2>3 DEF Blob
  <1>3. ContentInOrder'
    BY DEF ContentInOrder, StreamInv
  <1>4. (\E n \in 0..Len(Stream) : Blob(Stream, n) /\ Within(n))'
    BY <1>1, <1>2
  <1> QED
    BY <1>3, <1>4 DEF StreamInv

\* A step that gives up: nothing is claimed of the bytes any more.
LEMMA ReaderFailed ==
    ASSUME StreamInv, WriterInv', UNCHANGED <<delivered, rstart, rend, rhash>>,
           rbuf' = rbuf, StreamTypes', rpc # "ended", rpc' = "failed"
    PROVE  StreamInv'
  <1>1. ContentInOrder'
    BY DEF ContentInOrder, StreamInv
  <1>2. Length' = Length
    BY DEF Length
  <1> QED
    BY <1>1, <1>2 DEF StreamInv, Reading

-----------------------------------------------------------------------------
(* The steps of the reader *)

\* A step of the reader leaves the writer alone.
LEMMA WriterStays ==
    ASSUME StreamInv, UNCHANGED wvars
    PROVE  WriterInv' /\ (hashed' = hashed /\ unsent' = unsent)
  BY DEF StreamInv, WriterInv, wvars

LEMMA ReadBeginInv ==
    ASSUME StreamInv, NEW k \in 1..MaxRead, ReadBegin(k)
    PROVE  StreamInv'
  <1>1. PICK m \in 0..Len(Stream) : Blob(Stream, m) /\ Within(m)
    BY DEF StreamInv, Reading, ReadBegin
  <1>2. WriterInv' /\ UNCHANGED wvars
    BY WriterStays DEF ReadBegin
  <1>3. StreamTypes'
    BY SizeAssumption DEF StreamInv, StreamTypes, ReadBegin, wvars
  <1>4. Stream' = Stream /\ Begun' = Begun /\ Length' = Length
    BY DEF Stream, Begun, Length, ReadBegin, wvars
  <1>5. Within(m)'
    BY <1>1, <1>4 DEF Within, ReadBegin, StreamInv, StreamTypes
  <1> QED
    BY <1>1, <1>2, <1>3, <1>4, <1>5, StreamKept
       DEF ReadBegin, StreamInv

\* A step that fills the buffer up to len bytes.
LEMMA FillInv ==
    ASSUME ~Async, StreamInv, NEW len \in Nat, NEW next, Fill(len, next),
           UNCHANGED <<wvars, want, rstart, rend, delivered, rhash>>,
           rpc \in {"head", "id", "hash", "body"},
           NEW m \in 0..Len(Stream), Blob(Stream, m), Within(m),
           Len(rbuf) <= len, next \in {"length", "hash_length", "end", "range"},
           (rpc' = next /\ Len(rbuf') = len /\ rbuf' \in Seq(Nat)
              /\ \A i \in 1..Len(rbuf) : rbuf'[i] = rbuf[i]) => Within(m)'
    PROVE  StreamInv'
  <1>1. WriterInv' /\ UNCHANGED wvars /\ unsent' = unsent /\ hashed' = hashed
    BY WriterStays
  <1>2. CASE /\ rpc' = next /\ Stream' = Stream /\ Len(rbuf') = len
             /\ rbuf' \in Seq(Nat) /\ wire' \in Seq(Nat)
             /\ \A i \in 1..Len(rbuf) : rbuf'[i] = rbuf[i]
    <2>1. StreamTypes'
      BY <1>2 DEF StreamInv, StreamTypes, wvars
    <2>2. Begun' = Begun
      BY DEF Begun
    <2>3. ~(rstart' < rend')
      <3>1. rstart = rend /\ rend \in Nat
        <4>1. rend \in Nat
          BY SizeAssumption DEF StreamInv, StreamTypes
        <4>2. rstart = rend
          BY DEF Within
        <4> QED
          BY <4>1, <4>2
      <3> QED
        BY <3>1
    <2>4. rpc # "ended" /\ rpc' # "ended" /\ Within(m)'
      BY <1>2
    <2> QED
      BY <1>1, <1>2, <2>1, <2>2, <2>3, <2>4, StreamKept
  <1>3. CASE rpc' = "failed" /\ rbuf' = rbuf /\ wire' = <<>>
    <2>1. StreamTypes'
      BY <1>3 DEF StreamInv, StreamTypes, wvars
    <2>2. rpc # "ended"
      OBVIOUS
    <2> QED
      BY <1>1, <1>3, <2>1, <2>2, ReaderFailed
  <1> QED
    BY <1>1, <1>2, <1>3, FillStream

LEMMA ReadHeadInv ==
    ASSUME ~Async, StreamInv, ReadHead
    PROVE  StreamInv'
  <1>1. PICK m \in 0..Len(Stream) : Blob(Stream, m) /\ Within(m)
    BY DEF StreamInv, Reading, ReadHead
  <1>2. rbuf = <<>> /\ Len(rbuf) <= 2 /\ rstart = rend
    BY <1>1 DEF Within, ReadHead
  <1>3. (rpc' = "length" /\ Len(rbuf') = 2) => Within(m)'
    BY <1>2 DEF Within, ReadHead
  <1> QED
    BY <1>1, <1>2, <1>3, FillInv DEF ReadHead

LEMMA ReadIdInv ==
    ASSUME ~Async, StreamInv, ReadId
    PROVE  StreamInv'
  <1>1. PICK m \in 0..Len(Stream) : Blob(Stream, m) /\ Within(m)
    BY DEF StreamInv, Reading, ReadId
  <1>2. Len(rbuf) = 2 /\ Length = 0 /\ rstart = rend
    BY <1>1 DEF Within, ReadId
  <1>3. m = 0
    BY <1>1, <1>2, FirstChunk
  <1>4. (rpc' = "hash_length" /\ Len(rbuf') = 3) => Within(m)'
    BY <1>2, <1>3 DEF Within, ReadId
  <1>5. Len(rbuf) <= 3
    BY <1>2
  <1> QED
    BY <1>1, <1>4, <1>5, FillInv DEF ReadId

LEMMA ReadHashInv ==
    ASSUME ~Async, StreamInv, ReadHash
    PROVE  StreamInv'
  <1>1. PICK m \in 0..Len(Stream) : Blob(Stream, m) /\ Within(m)
    BY DEF StreamInv, Reading, ReadHash
  <1>2. Len(rbuf) = 3 /\ m = 0 /\ rstart = rend
    BY <1>1 DEF Within, ReadHash
  <1>3. (rpc' = "end" /\ Len(rbuf') = 3 + HashLen) => Within(m)'
    BY <1>2 DEF Within, ReadHash, TrailerLength
  <1>4. Len(rbuf) <= 3 + HashLen /\ 3 + HashLen \in Nat
    BY <1>2, SizeAssumption
  <1> QED
    BY <1>1, <1>3, <1>4, FillInv DEF ReadHash

LEMMA ReadBodyInv ==
    ASSUME ~Async, StreamInv, ReadBody
    PROVE  StreamInv'
  <1>1. PICK m \in 0..Len(Stream) : Blob(Stream, m) /\ Within(m)
    BY DEF StreamInv, Reading, ReadBody
  <1>2. Len(rbuf) = 2 /\ Length >= 1 /\ rstart = rend
    BY <1>1 DEF Within, ReadBody
  <1>3. Length \in Nat
    BY <1>1, <1>2, FirstChunk
  <1>4. (rpc' = "range" /\ Len(rbuf') = 2 + Length
           /\ \A i \in 1..Len(rbuf) : rbuf'[i] = rbuf[i]) => Within(m)'
    <2> SUFFICES ASSUME rpc' = "range", Len(rbuf') = 2 + Length,
                        \A i \in 1..Len(rbuf) : rbuf'[i] = rbuf[i]
                 PROVE  Within(m)'
      OBVIOUS
    <2>1. 1 \in 1..Len(rbuf) /\ 2 \in 1..Len(rbuf)
      BY <1>2
    <2>2. Length' = Length
      BY <2>1 DEF Length
    <2> QED
      BY <1>2, <1>3, <2>2 DEF Within, ReadBody
  <1>5. Len(rbuf) <= 2 + Length /\ 2 + Length \in Nat
    BY <1>2, <1>3
  <1> QED
    BY <1>1, <1>4, <1>5, FillInv DEF ReadBody

LEMMA ReadLengthInv ==
    ASSUME StreamInv, ReadLength
    PROVE  StreamInv'
  <1>1. PICK m \in 0..Len(Stream) : Blob(Stream, m) /\ Within(m)
    BY DEF StreamInv, Reading, ReadLength
  <1>2. Len(rbuf) = 2 /\ rstart = rend
    BY <1>1 DEF Within, ReadLength
  <1>3. Length \in Nat
    BY <1>1, <1>2, FirstChunk
  <1>4. rpc' = IF Length = 0 THEN "id" ELSE "body"
    <2>1. ~(Len(rbuf) < 2) /\ Len(rbuf) >= 2
      BY <1>2
    <2> QED
      BY <2>1, Zenon DEF ReadLength
  <1>5. WriterInv' /\ UNCHANGED wvars
    BY WriterStays DEF ReadLength
  <1>6. UNCHANGED <<wire, want, rbuf, rstart, rend, delivered, rhash>>
    BY DEF ReadLength
  <1>7. StreamTypes'
    BY <1>4, <1>5, <1>6 DEF StreamInv, StreamTypes, wvars
  <1>8. Stream' = Stream /\ Begun' = Begun /\ Length' = Length
    BY <1>5, <1>6 DEF Stream, Begun, Length, wvars
  <1>9. Within(m)'
    BY <1>2, <1>3, <1>4, <1>6, <1>8 DEF Within
  <1>10. rpc # "ended" /\ rpc' # "ended" /\ ~(rstart' < rend')
    BY <1>2, <1>4, <1>6 DEF ReadLength, StreamInv, StreamTypes
  <1> QED
    BY <1>1, <1>5, <1>6, <1>7, <1>8, <1>9, <1>10, StreamKept

LEMMA ReadHashLengthInv ==
    ASSUME StreamInv, ReadHashLength
    PROVE  StreamInv'
  <1>1. PICK m \in 0..Len(Stream) : Blob(Stream, m) /\ Within(m)
    BY DEF StreamInv, Reading, ReadHashLength
  <1>2. Len(rbuf) = 3 /\ m = 0 /\ rstart = rend
    BY <1>1 DEF Within, ReadHashLength
  <1>3. rpc' = "hash" \/ rpc' = "failed"
    <2>1. ~(Len(rbuf) < 3) /\ Len(rbuf) >= 3
      BY <1>2
    <2> QED
      BY <2>1, Zenon DEF ReadHashLength
  <1>4. WriterInv' /\ UNCHANGED wvars
    BY WriterStays DEF ReadHashLength
  <1>5. UNCHANGED <<wire, want, rbuf, rstart, rend, delivered, rhash>>
    BY DEF ReadHashLength
  <1>6. StreamTypes'
    BY <1>3, <1>4, <1>5 DEF StreamInv, StreamTypes, wvars
  <1>7. Stream' = Stream /\ Begun' = Begun /\ Length' = Length
    BY <1>4, <1>5 DEF Stream, Begun, Length, wvars
  <1>8. Within(m)'
    BY <1>2, <1>3, <1>5, <1>7 DEF Within
  <1>9. rpc # "ended" /\ rpc' # "ended" /\ ~(rstart' < rend')
    BY <1>2, <1>3, <1>5 DEF ReadHashLength, StreamInv, StreamTypes
  <1> QED
    BY <1>1, <1>4, <1>5, <1>6, <1>7, <1>8, <1>9, StreamKept

\* Where the hash is read, the reader has the whole trailer: the writer has
\* finished and every byte was handed out.
LEMMA AtEnd ==
    ASSUME StreamInv, ReadEnd
    PROVE  /\ rpc' = "ended" /\ rhash' = hashed /\ wpc = "finished"
           /\ Len(delivered) = hashed /\ rhash = None /\ rstart = rend
  <1>1. PICK m \in 0..Len(Stream) : Blob(Stream, m) /\ Within(m)
    BY DEF StreamInv, Reading, ReadEnd
  <1>2. Len(rbuf) = TrailerLength /\ m = 0 /\ rstart = rend
    BY <1>1 DEF Within, ReadEnd
  <1>3. /\ hashed \in Nat /\ rbuf \in Seq(Nat) /\ wire \in Seq(Nat)
        /\ unsent \in Seq(Nat) /\ rhash = None
    BY DEF StreamInv, StreamTypes, WriterInv, ReadEnd
  <1>4. TrailerLength \in Nat /\ TrailerLength >= 4
    BY <1>3, TrailerBytes
  <1>5. /\ Len(Stream) \in Nat /\ Len(Stream) >= TrailerLength
        /\ Stream[TrailerLength] = rbuf[TrailerLength]
    BY <1>2, <1>3, <1>4, StreamParts
  <1>6. Len(Stream) = TrailerLength /\ wpc = "finished"
    <2>1. Len(Stream) - m <= TrailerLength
      BY <1>1 DEF Blob, TrailerFrom
    <2>2. Len(Stream) = m + TrailerLength
      BY <1>2, <1>4, <1>5, <2>1
    <2> QED
      BY <1>1, <1>2, <1>4, <2>2 DEF Blob, TrailerFrom
  <1>7. rbuf[TrailerLength] = HashByte(hashed)
    <2>1. /\ TrailerLength \in 1..(Len(Stream) - m)
          /\ m + TrailerLength = TrailerLength
      BY <1>2, <1>4, <1>6
    <2>2. Stream[TrailerLength] = Trailer[TrailerLength]
      BY <1>1, <2>1 DEF Blob, TrailerFrom
    <2> QED
      BY <1>3, <1>5, <2>2, TrailerBytes
  <1>8. rpc' = "ended" /\ rhash' = HashByte(hashed) - HashByte(0)
    <2>1. ~(Len(rbuf) < 3 + HashLen)
      BY <1>2, <1>4 DEF TrailerLength
    <2> QED
      BY <1>7, <2>1 DEF ReadEnd, TrailerLength
  <1>9. HashByte(hashed) - HashByte(0) = hashed
    BY <1>3, BaseAssumption, SizeAssumption DEF HashByte
  <1>10. Len(delivered) = hashed
    <2>1. Begun = hashed
      BY <1>1, <1>2 DEF Blob, Chunked
    <2>2. Len(delivered) \in Nat
      BY LenProperties DEF StreamInv, StreamTypes
    <2> QED
      BY <1>2, <2>1, <2>2 DEF Begun, StreamInv, StreamTypes
  <1> QED
    BY <1>2, <1>3, <1>6, <1>8, <1>9, <1>10

LEMMA ReadEndInv ==
    ASSUME StreamInv, ReadEnd
    PROVE  StreamInv'
  <1>1. /\ rpc' = "ended" /\ rhash' = hashed /\ wpc = "finished"
        /\ Len(delivered) = hashed /\ rstart = rend
    BY AtEnd
  <1>2. WriterInv' /\ UNCHANGED wvars /\ hashed' = hashed /\ wpc' = wpc
    BY WriterStays DEF ReadEnd, wvars
  <1>3. UNCHANGED <<wire, want, rbuf, rstart, rend, delivered>>
    BY DEF ReadEnd
  <1>4. StreamTypes'
    BY <1>1, <1>2, <1>3 DEF StreamInv, StreamTypes, WriterInv, wvars
  <1>5. ContentInOrder'
    BY <1>3 DEF StreamInv, ContentInOrder
  <1>6. ~(rstart' < rend')
    BY <1>1, <1>3 DEF StreamInv, StreamTypes
  <1> QED
    BY <1>1, <1>2, <1>3, <1>4, <1>5, <1>6 DEF StreamInv, Reading

LEMMA ReadRangeInv ==
    ASSUME StreamInv, ReadRange
    PROVE  StreamInv'
  <1>1. PICK m \in 0..Len(Stream) : Blob(Stream, m) /\ Within(m)
    BY DEF StreamInv, Reading, ReadRange
  <1>2. Length >= 1 /\ Len(rbuf) = 2 + Length /\ rstart = rend
    BY <1>1 DEF Within, ReadRange
  <1>3. Len(rbuf) \in Nat /\ Len(delivered) \in Nat
    BY LenProperties DEF StreamInv, StreamTypes
  <1>4. Length \in Nat /\ Length = LengthAt(Stream, 1)
    <2>1. Len(rbuf) >= 2
      BY <1>1, <1>3 DEF Within, ReadRange
    <2> QED
      BY <1>1, <2>1, FirstChunk
  <1>5. Begun + Length <= hashed /\ Begun \in Nat
    BY <1>1, <1>2, <1>3, <1>4, FirstChunk
  <1>6. WriterInv' /\ UNCHANGED wvars
    BY WriterStays DEF ReadRange
  <1>7. /\ UNCHANGED <<wire, want, rbuf, delivered, rhash>>
        /\ rstart' = 2 /\ rend' = 2 + Length /\ rpc' = "copy"
    BY DEF ReadRange
  <1>8. StreamTypes'
    <2>1. hashed \in 0..Total /\ Total \in Nat
      BY SizeAssumption DEF StreamInv, StreamTypes
    <2>2. Length <= Total
      BY <1>4, <1>5, <2>1
    <2>3. rend' \in 0..(Total + 2) /\ rstart' \in 0..rend'
      BY <1>4, <1>7, <2>1, <2>2
    <2> QED
      BY <2>3, <1>6, <1>7 DEF StreamInv, StreamTypes, wvars
  <1>9. Stream' = Stream /\ Begun' = Begun /\ Length' = Length
    <2>1. Begun' = Len(delivered) /\ Begun = Len(delivered)
      BY <1>2, <1>3, <1>4, <1>7 DEF Begun, StreamInv, StreamTypes
    <2> QED
      BY <2>1, <1>6, <1>7 DEF Stream, Length, wvars
  <1>10. Within(m)'
    BY <1>2, <1>4, <1>7 DEF Within
  <1>11. /\ rpc # "ended" /\ rpc' # "ended"
         /\ rstart' >= 2 /\ rstart' - 2 <= Len(delivered')
         /\ rend' = 2 + Length' /\ rend' = Len(rbuf')
    BY <1>2, <1>3, <1>7, <1>9 DEF ReadRange
  <1> QED
    BY <1>1, <1>6, <1>7, <1>8, <1>9, <1>10, <1>11, StreamKept

\* The bytes that are handed out are the next ones of the content.
LEMMA Copied ==
    ASSUME StreamInv, Copy
    PROVE  \E n \in Nat :
             /\ rstart + n <= rend /\ rstart < rend
             /\ rstart' = rstart + n /\ rpc' = "idle"
             /\ rbuf' = IF rstart' = rend THEN <<>> ELSE rbuf
             /\ delivered' \in Seq(Nat) /\ Len(delivered') = Len(delivered) + n
             /\ ContentInOrder' /\ Len(delivered) + n <= hashed
  <1>1. PICK m \in 0..Len(Stream) : Blob(Stream, m) /\ Within(m)
    BY DEF StreamInv, Reading, Copy
  <1>2. /\ rstart < rend /\ rstart >= 2 /\ rstart - 2 <= Len(delivered)
        /\ rend = 2 + Length /\ rend = Len(rbuf)
    BY <1>1 DEF Within, Copy, StreamInv
  <1>3. /\ rbuf \in Seq(Nat) /\ delivered \in Seq(Nat) /\ want \in Nat
        /\ rstart \in Nat /\ rend \in Nat /\ Len(delivered) \in Nat
        /\ hashed \in Nat /\ wire \in Seq(Nat) /\ unsent \in Seq(Nat)
    BY LenProperties, SizeAssumption DEF StreamInv, StreamTypes, WriterInv
  <1> DEFINE n == Least(want, rend - rstart)
  <1>4. n \in Nat /\ rstart + n <= rend
    BY <1>2, <1>3 DEF Least
  <1>5. /\ delivered' = delivered \o SubSeq(rbuf, rstart + 1, rstart + n)
        /\ rstart' = rstart + n /\ rpc' = "idle"
        /\ rbuf' = IF rstart' = rend THEN <<>> ELSE rbuf
    <2>1. ~(rstart + n > Len(rbuf))
      BY <1>2, <1>3, <1>4
    <2> QED
      BY <2>1, Zenon DEF Copy
  <1> HIDE DEF n
  <1> DEFINE d == Len(delivered)
  <1>6. /\ Len(rbuf) >= 2 /\ m # 0 /\ Length \in Nat
        /\ Begun + Length <= hashed
        /\ \A p \in 1..Length : Stream[2 + p] = Base + Begun + p
    <2>1. Len(rbuf) >= 2
      BY <1>2, <1>3
    <2>2. Length \in Nat /\ Length # 0
      BY <1>1, <1>2, <1>3, <2>1, FirstChunk
    <2> QED
      BY <1>1, <2>1, <2>2, FirstChunk
  <1>7. Begun = d - (rstart - 2)
    BY <1>2 DEF Begun
  <1>8. \A p \in 1..n : rbuf[rstart + p] = Base + (d + p)
    <2> TAKE p \in 1..n
    <2>1. /\ (rstart - 2) + p \in 1..Length
          /\ 2 + ((rstart - 2) + p) = rstart + p
          /\ rstart + p \in 1..Len(rbuf)
      <3>1. /\ rstart \in Nat /\ rend \in Nat /\ Length \in Nat /\ n \in Nat
            /\ rstart >= 2 /\ rend = 2 + Length /\ rend = Len(rbuf)
            /\ rstart + n <= rend
        BY <1>2, <1>3, <1>4, <1>6
      <3> QED
        BY <3>1
    <2>2. Stream[rstart + p] = Base + Begun + ((rstart - 2) + p)
      BY <1>6, <2>1
    <2>3. Stream[rstart + p] = rbuf[rstart + p]
      BY <1>3, <2>1, StreamParts
    <2> QED
      BY <1>2, <1>3, <1>7, <2>2, <2>3, BaseAssumption
  <1> DEFINE x == SubSeq(rbuf, rstart + 1, rstart + n)
  <1>9. /\ x \in Seq(Nat) /\ Len(x) = n
        /\ \A p \in 1..n : x[p] = Base + (d + p)
    <2>1. /\ rstart + 1 \in Int /\ rstart + n \in Int
          /\ \A i \in (rstart + 1)..(rstart + n) : rbuf[i] \in Nat
      <3>1. \A i \in (rstart + 1)..(rstart + n) : i \in 1..Len(rbuf)
        BY <1>2, <1>3, <1>4
      <3> QED
        BY <1>3, <1>4, <3>1, ElementOfSeq
    <2>2. /\ x \in Seq(Nat)
          /\ Len(x) = IF rstart + 1 <= rstart + n
                      THEN (rstart + n) - (rstart + 1) + 1 ELSE 0
          /\ \A i \in 1..((rstart + n) - (rstart + 1) + 1) :
                 x[i] = rbuf[(rstart + 1) + i - 1]
      BY <2>1, SubSeqProperties
    <2>3. Len(x) = n
      BY <1>3, <1>4, <2>2
    <2>4. ASSUME NEW p \in 1..n  PROVE x[p] = Base + (d + p)
      <3>1. /\ p \in 1..((rstart + n) - (rstart + 1) + 1)
            /\ (rstart + 1) + p - 1 = rstart + p
        BY <1>3, <1>4
      <3>2. x[p] = rbuf[rstart + p]
        BY <2>2, <3>1, Zenon
      <3> QED
        BY <1>8, <3>2, Zenon
    <2> QED
      BY <2>2, <2>3, <2>4
  <1> HIDE DEF x
  <1>10. /\ delivered' \in Seq(Nat) /\ Len(delivered') = d + n
         /\ \A p \in 1..d : delivered'[p] = delivered[p]
         /\ \A p \in 1..n : delivered'[d + p] = x[p]
    <2>1. delivered' = delivered \o x
      BY <1>5 DEF x
    <2>2. /\ delivered \o x \in Seq(Nat)
          /\ Len(delivered \o x) = d + Len(x)
          /\ \A p \in 1..d : (delivered \o x)[p] = delivered[p]
          /\ \A p \in 1..Len(x) : (delivered \o x)[d + p] = x[p]
      BY <1>3, <1>9, Joined
    <2> QED
      BY <1>9, <2>1, <2>2, Zenon
  <1>11. \A p \in 1..(d + n) : delivered'[p] = Base + p
    <2> TAKE p \in 1..(d + n)
    <2>1. CASE p <= d
      <3>1. p \in 1..d /\ delivered = [q \in 1..d |-> Base + q]
        BY <2>1 DEF StreamInv, ContentInOrder
      <3>2. delivered[p] = Base + p
        BY <3>1
      <3> QED
        BY <1>10, <3>1, <3>2
    <2>2. CASE p > d
      <3>1. p - d \in 1..n /\ d + (p - d) = p
        BY <1>3, <1>4, <2>2
      <3>2. delivered'[d + (p - d)] = Base + (d + (p - d))
        BY <1>9, <1>10, <3>1, Zenon
      <3> QED
        BY <3>1, <3>2
    <2> QED
      BY <1>3, <2>1, <2>2
  <1>12. ContentInOrder'
    <2>1. delivered' = [p \in 1..Len(delivered') |-> delivered'[p]]
      BY <1>10, LenProperties
    <2> QED
      BY <1>10, <1>11, <2>1 DEF ContentInOrder
  <1>13. d + n <= hashed
    BY <1>2, <1>3, <1>4, <1>6, <1>7
  <1> QED
    BY <1>2, <1>4, <1>5, <1>10, <1>12, <1>13

LEMMA CopyInv ==
    ASSUME StreamInv, Copy
    PROVE  StreamInv'
  <1>1. PICK m \in 0..Len(Stream) : Blob(Stream, m) /\ Within(m)
    BY DEF StreamInv, Reading, Copy
  <1>2. /\ rstart < rend /\ rstart >= 2 /\ rstart - 2 <= Len(delivered)
        /\ rend = 2 + Length /\ rend = Len(rbuf)
    BY <1>1 DEF Within, Copy, StreamInv
  <1>3. /\ rbuf \in Seq(Nat) /\ delivered \in Seq(Nat)
        /\ rstart \in Nat /\ rend \in Nat /\ Len(delivered) \in Nat
        /\ hashed \in Nat /\ wire \in Seq(Nat) /\ unsent \in Seq(Nat)
        /\ rend \in 0..(Total + 2) /\ rhash = None
    BY LenProperties DEF StreamInv, StreamTypes, WriterInv, Copy
  <1>4. PICK n \in Nat :
             /\ rstart + n <= rend
             /\ rstart' = rstart + n /\ rpc' = "idle"
             /\ rbuf' = IF rstart' = rend THEN <<>> ELSE rbuf
             /\ delivered' \in Seq(Nat) /\ Len(delivered') = Len(delivered) + n
             /\ ContentInOrder'
    BY Copied
  <1>5. WriterInv' /\ UNCHANGED wvars /\ hashed' = hashed /\ unsent' = unsent
    BY WriterStays DEF Copy
  <1>6. UNCHANGED <<wire, want, rend, rhash>>
    BY DEF Copy
  <1>7. rbuf' \in Seq(Nat)
    BY <1>3, <1>4, EmptySeq
  <1>8. StreamTypes'
    BY <1>3, <1>4, <1>5, <1>6, <1>7 DEF StreamInv, StreamTypes, wvars
  <1>9. Trailer' = Trailer
    BY <1>5 DEF Trailer, HashByte
  <1>10. CASE rstart' < rend
    <2>1. rbuf' = rbuf
      BY <1>3, <1>4, <1>10
    <2>2. Stream' = Stream /\ Length' = Length
      BY <1>5, <1>6, <2>1 DEF Stream, Length
    <2>3. Begun' = Begun
      BY <1>2, <1>3, <1>4, <1>6, <1>10 DEF Begun
    <2>4. Blob(Stream, m)'
      <3>1. Chunked(Stream, m, Begun, hashed)'
        BY <1>1, <1>5, <2>2, <2>3 DEF Blob
      <3>2. TrailerFrom(Stream, m)'
        BY <1>1, <1>5, <1>9, <2>2 DEF Blob, TrailerFrom, Closed, wvars
      <3> QED
        BY <3>1, <3>2 DEF Blob
    <2>5. Within(m)'
      BY <1>4, <1>6, <1>10 DEF Within
    <2>6. m \in 0..Len(Stream')
      BY <2>2
    <2>7. /\ rstart' >= 2 /\ rstart' - 2 <= Len(delivered')
          /\ rend' = 2 + Length' /\ rend' = Len(rbuf')
      <3>1. Len(delivered') = Len(delivered) + n /\ rstart' = rstart + n
        BY <1>4
      <3>2. rend' = rend /\ Len(rbuf') = Len(rbuf)
        BY <1>6, <2>1
      <3> QED
        BY <1>2, <1>3, <2>2, <3>1, <3>2
    <2> QED
      BY <1>3, <1>4, <1>5, <1>6, <1>8, <2>4, <2>5, <2>6, <2>7 DEF StreamInv
  <1>11. CASE rstart' = rend
    <2>1. rbuf' = <<>>
      BY <1>4, <1>11
    <2>2. /\ Len(rbuf) >= 2 /\ m # 0 /\ Length \in Nat /\ Begun \in Nat
          /\ Length = LengthAt(Stream, 1)
      <3>1. Len(rbuf) >= 2
        BY <1>2, <1>3
      <3>2. Length \in Nat /\ Length # 0 /\ Length = LengthAt(Stream, 1)
        BY <1>1, <1>2, <1>3, <3>1, FirstChunk
      <3> QED
        BY <1>1, <3>1, <3>2, FirstChunk
    <2> PICK e \in Nat : e = 2 + Length
      BY <2>2
    <2> DEFINE k == m - e
    <2>3. /\ Len(Stream) \in Nat /\ \A i \in 1..Len(Stream) : Stream[i] \in Nat
          /\ Len(Stream) = Len(rbuf) + Len(wire) + Len(unsent)
          /\ Len(wire) \in Nat /\ Len(unsent) \in Nat
          /\ wire \o unsent \in Seq(Nat)
          /\ Len(wire \o unsent) = Len(wire) + Len(unsent)
          /\ \A i \in 1..(Len(wire) + Len(unsent)) :
                (wire \o unsent)[i] = Stream[Len(rbuf) + i]
      BY <1>3, StreamParts
    <2>4. Stream' = wire \o unsent
      BY <1>3, <1>5, <1>6, <2>1, ConcatEmptySeq DEF Stream
    <2>5. /\ Len(Stream') = Len(Stream) - e
          /\ \A i \in 1..(Len(Stream) - e) : Stream'[i] = Stream[e + i]
      <3>1. Len(rbuf) = e /\ e \in Nat
        BY <1>2
      <3>2. Len(wire) + Len(unsent) = Len(Stream) - e
        BY <2>2, <2>3, <3>1
      <3> QED
        BY <2>3, <2>4, <3>1, <3>2, Zenon
    <2>6. /\ e \in 3..m /\ k \in 0..Len(Stream')
          /\ Chunked(Stream', k, Begun + Length, hashed)
      <3>1. /\ m \in Nat \ {0} /\ e = 2 + LengthAt(Stream, 1)
            /\ \A q \in 1..m : Stream[q] \in Nat
            /\ \A q \in 1..(m - e) : Stream'[q] = Stream[e + q]
        <4>1. e = 2 + LengthAt(Stream, 1) /\ e \in Nat
          BY <2>2
        <4>2. \A q \in 1..(m - e) : q \in 1..(Len(Stream) - e)
          <5>1. Len(Stream) \in Nat /\ m \in Nat /\ m <= Len(Stream)
            BY <2>3
          <5> QED
            BY <4>1, <5>1
        <4>3. \A q \in 1..(m - e) : Stream'[q] = Stream[e + q]
          BY <2>5, <4>2, Zenon
        <4>4. \A q \in 1..m : q \in 1..Len(Stream)
          <5>1. Len(Stream) \in Nat /\ m \in Nat /\ m <= Len(Stream)
            BY <2>3
          <5> QED
            BY <5>1
        <4>5. \A q \in 1..m : Stream[q] \in Nat
          BY <2>3, <4>4, Zenon
        <4>6. m \in Nat \ {0}
          BY <2>2, <2>3
        <4> QED
          BY <4>1, <4>3, <4>5, <4>6
      <3>2. Chunked(Stream, m, Begun, hashed)
        BY <1>1 DEF Blob
      <3>3. /\ e \in 3..m
            /\ Chunked(Stream', m - e, Begun + LengthAt(Stream, 1), hashed)
        BY <1>3, <2>2, <3>1, <3>2, ChunkedDrop
      <3>4. Chunked(Stream', k, Begun + Length, hashed)
        BY <2>2, <3>3, Zenon
      <3>5. Len(Stream) \in Nat /\ m \in Nat /\ m <= Len(Stream)
        BY <2>3
      <3>6. k \in 0..Len(Stream')
        BY <2>5, <3>3, <3>5
      <3> QED
        BY <3>3, <3>4, <3>6
    <2>7. Begun' = Begun + Length
      <3>1. Begun' = Len(delivered) + n
        <4>1. ~(rstart' < rend') /\ Len(delivered') = Len(delivered) + n
          BY <1>3, <1>4, <1>6, <1>11
        <4>2. Begun' = Len(delivered') - 0
          BY <4>1 DEF Begun
        <4> QED
          BY <1>3, <4>1, <4>2
      <3>2. Begun = Len(delivered) - (rstart - 2)
        BY <1>2 DEF Begun
      <3>3. 2 + Length = rstart + n
        BY <1>2, <1>4, <1>11
      <3>4. /\ Len(delivered) \in Nat /\ rstart \in Nat /\ Length \in Nat
        BY <1>3, <2>2
      <3> QED
        BY <3>1, <3>2, <3>3, <3>4
    <2>14. /\ Len(Stream) \in Nat /\ m \in Nat /\ m <= Len(Stream)
           /\ e <= m /\ k = m - e
           /\ Len(Stream') = Len(Stream) - e
      BY <2>3, <2>5, <2>6
    <2>8. Len(Stream') - k = Len(Stream) - m /\ Len(Stream') \in Nat
      BY <2>14
    <2>9. \A i \in 1..(Len(Stream) - m) : Stream'[k + i] = Stream[m + i]
      <3> TAKE i \in 1..(Len(Stream) - m)
      <3>1. k + i \in 1..(Len(Stream) - e) /\ e + (k + i) = m + i
        BY <2>14
      <3> QED
        BY <2>5, <3>1
    <2>10. TrailerFrom(Stream, k)'
      <3>1. k < Len(Stream') <=> m < Len(Stream)
        BY <2>3, <2>6, <2>8
      <3>2. Len(Stream') = k + TrailerLength <=> Len(Stream) = m + TrailerLength
        <4>1. TrailerLength \in Nat
          BY <1>3, TrailerBytes
        <4>2. /\ Len(Stream) \in Nat /\ m \in Nat /\ k = m - e
              /\ Len(Stream') = Len(Stream) - e
          BY <2>3, <2>5
        <4> HIDE DEF k
        <4> QED
          BY <4>1, <4>2
      <3>3. TrailerFrom(Stream, m)
        BY <1>1 DEF Blob
      <3>4. /\ Len(Stream') - k <= TrailerLength
            /\ \A i \in 1..(Len(Stream') - k) : Stream'[k + i] = Trailer'[i]
        BY <1>9, <2>8, <2>9, <3>3 DEF TrailerFrom
      <3>5. wpc' = wpc /\ unsent' = unsent
        BY <1>5 DEF wvars
      <3> HIDE DEF k
      <3> QED
        BY <3>1, <3>2, <3>3, <3>4, <3>5 DEF TrailerFrom, TrailerLength, Closed
    <2>11. Blob(Stream, k)'
      BY <1>5, <2>6, <2>7, <2>10 DEF Blob
    <2>12. Within(k)'
      BY <1>4, <1>6, <2>1 DEF Within
    <2>13. ~(rstart' < rend')
      BY <1>3, <1>6, <1>11
    <2> HIDE DEF k
    <2> QED
      BY <1>3, <1>4, <1>5, <1>6, <1>8, <2>6, <2>11, <2>12, <2>13 DEF StreamInv
  <1> QED
    BY <1>3, <1>4, <1>10, <1>11

-----------------------------------------------------------------------------
(* The steps of the writer *)

\* Before the writer has finished, the stream ends with the last chunk.
LEMMA NoTrailerYet ==
    ASSUME StreamInv, NEW m \in 0..Len(Stream), Blob(Stream, m), Within(m),
           wpc \in {"idle", "pending", "sinking"}
    PROVE  /\ m = Len(Stream) /\ Len(rbuf) <= m /\ m \in Nat
           /\ rpc \notin {"hash_length", "hash", "end", "ended"}
  <1>1. rbuf \in Seq(Nat) /\ wire \in Seq(Nat) /\ unsent \in Seq(Nat)
    BY DEF StreamInv, StreamTypes, WriterInv
  <1>2. /\ Len(Stream) = Len(rbuf) + Len(wire) + Len(unsent)
        /\ Len(rbuf) \in Nat /\ Len(wire) \in Nat /\ Len(unsent) \in Nat
        /\ Len(Stream) \in Nat
    BY <1>1, StreamParts
  <1>3. ~(m < Len(Stream))
    BY DEF Blob, TrailerFrom, Closed
  <1>4. m = Len(Stream) /\ Len(rbuf) <= m /\ m \in Nat
    BY <1>2, <1>3
  <1>5. hashed \in Nat
    BY DEF StreamInv, WriterInv
  <1>6. TrailerLength >= 4 /\ TrailerLength \in Nat
    BY <1>5, TrailerBytes
  <1> QED
    BY <1>2, <1>4, <1>6 DEF Within, StreamInv

\* A step of the writer: what it does to the stream decides.
LEMMA WriterKeeps ==
    ASSUME StreamInv, WriterInv', UNCHANGED rvars, wire' \in Seq(Nat),
           {hashed', offered', chunk'} \subseteq 0..Total, rpc # "ended",
           Reading => \E m \in 0..Len(Stream), k \in 0..Len(Stream') :
                         /\ Blob(Stream, m) /\ Within(m) /\ Blob(Stream, k)'
                         /\ m = k \/ rpc \notin {"hash_length", "hash", "end"}
    PROVE  StreamInv'
  <1>1. StreamTypes'
    BY DEF StreamInv, StreamTypes, rvars
  <1>2. Length' = Length /\ Begun' = Begun /\ Reading' = Reading
    BY DEF Length, Begun, Reading, rvars
  <1>3. ContentInOrder'
    BY DEF StreamInv, ContentInOrder, rvars
  <1>4. ASSUME Reading
        PROVE  (\E k \in 0..Len(Stream) : Blob(Stream, k) /\ Within(k))'
    <2>1. PICK m \in 0..Len(Stream), k \in 0..Len(Stream') :
                         /\ Blob(Stream, m) /\ Within(m) /\ Blob(Stream, k)'
                         /\ m = k \/ rpc \notin {"hash_length", "hash", "end"}
      BY <1>4
    <2>2. Within(k)'
      BY <1>2, <2>1 DEF Within, rvars
    <2> QED
      BY <2>1, <2>2
  <1> QED
    BY <1>1, <1>2, <1>3, <1>4 DEF StreamInv, rvars

\* A step of the writer that adds no bytes to the stream.
LEMMA SameBlob ==
    ASSUME StreamInv, NEW m \in 0..Len(Stream), Blob(Stream, m), Within(m),
           wpc \in {"idle", "pending", "sinking"}, Stream' = Stream,
           hashed' = hashed, UNCHANGED rvars, wpc' # "finished"
    PROVE  Blob(Stream, m)'
  <1>1. m = Len(Stream) /\ m \in Nat
    BY NoTrailerYet
  <1>2. hashed \in Nat
    BY DEF StreamInv, WriterInv
  <1>3. TrailerLength >= 4 /\ TrailerLength \in Nat
    BY <1>2, TrailerBytes
  <1>4. TrailerLength' = TrailerLength /\ Begun' = Begun
    BY DEF TrailerLength, Begun, rvars
  <1>5. Chunked(Stream, m, Begun, hashed)'
    BY <1>4 DEF Blob
  <1>6. TrailerFrom(Stream, m)'
    <2>1. Len(Stream') - m = 0 /\ ~(m < Len(Stream'))
      BY <1>1
    <2>2. Len(Stream') # m + TrailerLength'
      BY <1>1, <1>3, <1>4
    <2>3. \A i \in 1..0 : Stream'[m + i] = Trailer'[i]
      OBVIOUS
    <2> QED
      BY <1>3, <1>4, <2>1, <2>2, <2>3 DEF TrailerFrom
  <1> QED
    BY <1>5, <1>6 DEF Blob

LEMMA SinkStream ==
    ASSUME StreamInv, NEW n, Sink(n)
    PROVE  StreamInv'
  <1>1. /\ n \in 0..Len(unsent) /\ unsent \in Seq(Nat) /\ wire \in Seq(Nat)
        /\ rbuf \in Seq(Nat)
    BY DEF Sink, StreamInv, StreamTypes, WriterInv
  <1>2. WriterInv'
    BY SinkInv DEF StreamInv
  <1>3. /\ wire' = wire \o SubSeq(unsent, 1, n)
        /\ unsent' = SubSeq(unsent, n + 1, Len(unsent))
        /\ UNCHANGED rvars /\ UNCHANGED <<hashed, rbuf>>
        /\ wpc = "sinking" /\ wpc' \in {"idle", "sinking"}
    BY DEF Sink, rvars
  <1>4. wire' \in Seq(Nat) /\ Stream' = Stream
    <2> DEFINE x == SubSeq(unsent, 1, n)
               y == SubSeq(unsent, n + 1, Len(unsent))
    <2>1. /\ x \in Seq(Nat) /\ y \in Seq(Nat) /\ wire \o x \in Seq(Nat)
          /\ (wire \o x) \o y = wire \o unsent
      BY <1>1, Taken
    <2> HIDE DEF x, y
    <2>2. (rbuf \o (wire \o x)) \o y = rbuf \o ((wire \o x) \o y)
      <3> DEFINE z == wire \o x
      <3>1. z \in Seq(Nat) /\ y \in Seq(Nat) /\ rbuf \in Seq(Nat)
        BY <1>1, <2>1
      <3> HIDE DEF z
      <3>2. (rbuf \o z) \o y = rbuf \o (z \o y)
        BY <3>1, Regrouped
      <3> QED
        BY <3>2 DEF z
    <2>3. rbuf \o (wire \o unsent) = Stream
      BY <1>1, StreamParts
    <2>4. rbuf' = rbuf /\ wire' = wire \o x /\ unsent' = y
      BY <1>3 DEF x, y
    <2> QED
      BY <2>1, <2>2, <2>3, <2>4 DEF Stream
  <1>5. {hashed', offered', chunk'} \subseteq 0..Total
    BY SizeAssumption DEF Sink, StreamInv, StreamTypes
  <1>6. rpc # "ended"
    BY <1>3 DEF StreamInv
  <1>7. ASSUME Reading
        PROVE  \E m \in 0..Len(Stream), k \in 0..Len(Stream') :
                         /\ Blob(Stream, m) /\ Within(m) /\ Blob(Stream, k)'
                         /\ m = k \/ rpc \notin {"hash_length", "hash", "end"}
    <2>1. PICK m \in 0..Len(Stream) : Blob(Stream, m) /\ Within(m)
      BY <1>7 DEF StreamInv
    <2>2. Blob(Stream, m)'
      BY <1>3, <1>4, <2>1, SameBlob
    <2> QED
      BY <1>4, <2>1, <2>2
  <1> QED
    BY <1>2, <1>3, <1>4, <1>5, <1>6, <1>7, WriterKeeps

LEMMA SinkStopsStream ==
    ASSUME StreamInv, SinkPending \/ SinkError
    PROVE  StreamInv'
  <1>1. /\ wpc = "sinking" /\ wpc' \in {"pending", "failed"} /\ UNCHANGED rvars
        /\ UNCHANGED <<accepted, offered, hashed, unsent, chunk, wire>>
    BY DEF SinkPending, SinkError, rvars
  <1>2. WriterInv'
    BY <1>1 DEF StreamInv, WriterInv
  <1>3. Stream' = Stream
    BY <1>1 DEF Stream, rvars
  <1>4. wire' \in Seq(Nat) /\ {hashed', offered', chunk'} \subseteq 0..Total
    BY <1>1 DEF StreamInv, StreamTypes
  <1>5. rpc # "ended"
    BY <1>1 DEF StreamInv
  <1>6. ASSUME Reading
        PROVE  \E m \in 0..Len(Stream), k \in 0..Len(Stream') :
                         /\ Blob(Stream, m) /\ Within(m) /\ Blob(Stream, k)'
                         /\ m = k \/ rpc \notin {"hash_length", "hash", "end"}
    <2>1. PICK m \in 0..Len(Stream) : Blob(Stream, m) /\ Within(m)
      BY <1>6 DEF StreamInv
    <2>2. Blob(Stream, m)'
      BY <1>1, <1>3, <2>1, SameBlob
    <2> QED
      BY <1>3, <2>1, <2>2
  <1> QED
    BY <1>1, <1>2, <1>4, <1>5, <1>6, WriterKeeps

LEMMA WriteBeginStream ==
    ASSUME StreamInv, NEW k \in 0..Total, WriteBegin(k)
    PROVE  StreamInv'
  <1>1. WriterInv'
    BY WriteBeginInv DEF StreamInv
  <1>2. /\ wpc \in {"idle", "pending"} /\ wpc' = "sinking" /\ UNCHANGED rvars
        /\ UNCHANGED <<wire, rbuf>> /\ k \in Nat /\ k > 0 /\ offered' = k
        /\ accepted + k <= Total
    BY SizeAssumption DEF WriteBegin, rvars
  <1>3. rpc # "ended"
    BY <1>2 DEF StreamInv
  <1>4. wire' \in Seq(Nat) /\ offered' \in 0..Total
    BY <1>2 DEF StreamInv, StreamTypes
  <1>5. CASE unsent # <<>>
    <2>1. UNCHANGED <<hashed, unsent, chunk>> /\ Stream' = Stream
      BY <1>2, <1>5 DEF WriteBegin, Stream
    <2>2. ASSUME Reading
          PROVE  \E m \in 0..Len(Stream), l \in 0..Len(Stream') :
                         /\ Blob(Stream, m) /\ Within(m) /\ Blob(Stream, l)'
                         /\ m = l \/ rpc \notin {"hash_length", "hash", "end"}
      <3>1. PICK m \in 0..Len(Stream) : Blob(Stream, m) /\ Within(m)
        BY <2>2 DEF StreamInv
      <3>2. Blob(Stream, m)'
        BY <1>2, <2>1, <3>1, SameBlob
      <3> QED
        BY <2>1, <3>1, <3>2
    <2>3. {hashed', offered', chunk'} \subseteq 0..Total
      BY <1>4, <2>1 DEF StreamInv, StreamTypes
    <2> QED
      BY <1>1, <1>2, <1>3, <1>4, <2>2, <2>3, WriterKeeps
  <1>6. CASE unsent = <<>>
    <2>1. PICK c \in Nat : c = Least(k, MAX_LENGTH) /\ c >= 1 /\ c <= k
                           /\ c <= MAX_LENGTH
      BY <1>2, LengthPositive DEF Least
    <2>2. /\ unsent' = Chunk(c) /\ chunk' = c
          /\ hashed' = hashed + c /\ hashed = accepted
          /\ hashed \in Nat /\ accepted \in Nat
      BY <1>6, <2>1 DEF WriteBegin, StreamInv, WriterInv
    <2>3. {hashed', offered', chunk'} \subseteq 0..Total
      BY <1>2, <1>4, <2>1, <2>2, SizeAssumption
    <2>4. /\ rbuf \in Seq(Nat) /\ wire \in Seq(Nat) /\ unsent \in Seq(Nat)
          /\ rbuf \o wire \in Seq(Nat) /\ Stream = rbuf \o wire
      <3>1. rbuf \in Seq(Nat) /\ wire \in Seq(Nat) /\ unsent \in Seq(Nat)
        BY DEF StreamInv, StreamTypes, WriterInv
      <3>2. rbuf \o wire \in Seq(Nat)
        BY <3>1, Joined
      <3> DEFINE x == rbuf \o wire
      <3> HIDE DEF x
      <3>3. x \in Seq(Nat)
        BY <3>2 DEF x
      <3>4. x \o <<>> = x
        BY <3>3, ConcatEmptySeq
      <3>5. Stream = x \o <<>>
        BY <1>6 DEF Stream, x
      <3> QED
        BY <3>1, <3>2, <3>4, <3>5 DEF x
    <2>5. /\ Chunk(c) \in Seq(Nat) /\ Len(Chunk(c)) = 2 + c
          /\ Chunk(c)[1] \in 0..(Base - 1) /\ Chunk(c)[2] \in 0..(Base - 1)
          /\ LengthAt(Chunk(c), 1) = c
          /\ \A p \in 1..c : Chunk(c)[2 + p] = Base + hashed + p
      BY <2>1, <2>2, ChunkBytes
    <2>6. /\ Len(Stream) \in Nat /\ Stream \in Seq(Nat)
          /\ \A i \in 1..Len(Stream) : Stream[i] \in Nat
      BY <2>4, StreamParts
    <2>7. /\ Stream' = Stream \o Chunk(c)
      BY <1>2, <2>2, <2>4 DEF Stream
    <2> DEFINE s == Stream
               r == Stream'
               u == Chunk(c)
    <2>8. /\ Len(r) = Len(s) + Len(u)
          /\ \A i \in 1..Len(s) : r[i] = s[i]
          /\ \A i \in 1..Len(u) : r[Len(s) + i] = u[i]
      <3>1. s \in Seq(Nat) /\ u \in Seq(Nat) /\ r = s \o u
        BY <2>5, <2>6, <2>7
      <3> HIDE DEF s, r, u
      <3> QED
        BY <3>1, Joined
    <2>9. ASSUME Reading
          PROVE  \E m \in 0..Len(Stream), l \in 0..Len(Stream') :
                         /\ Blob(Stream, m) /\ Within(m) /\ Blob(Stream, l)'
                         /\ m = l \/ rpc \notin {"hash_length", "hash", "end"}
      <3>1. PICK m \in 0..Len(Stream) : Blob(Stream, m) /\ Within(m)
        BY <2>9 DEF StreamInv
      <3>2. /\ m = Len(Stream) /\ m \in Nat
            /\ rpc \notin {"hash_length", "hash", "end"}
        BY <1>2, <3>1, NoTrailerYet
      <3>3. Len(r) = m + 2 + c
        BY <2>5, <2>8, <3>2
      <3>4. Begun \in Nat /\ Begun' = Begun
        BY <1>2 DEF Begun, rvars, StreamInv, StreamTypes
      <3>5. /\ r[m + 1] = u[1] /\ r[m + 2] = u[2]
            /\ \A p \in 1..c : r[m + 2 + p] = u[2 + p]
        <4>1. 1 \in 1..Len(u) /\ 2 \in 1..Len(u)
          BY <2>5
        <4>2. ASSUME NEW p \in 1..c  PROVE r[m + 2 + p] = u[2 + p]
          <5>1. 2 + p \in 1..Len(u) /\ Len(s) + (2 + p) = m + 2 + p
            BY <2>5, <3>2
          <5> QED
            BY <2>8, <5>1, Zenon
        <4> QED
          BY <2>8, <3>2, <4>1, <4>2, Zenon
      <3>6. LengthAt(r, m + 1) = c
        <4>1. (m + 1) + 1 = m + 2 /\ 1 + 1 = 2
          BY <3>2
        <4>2. LengthAt(u, 1) = c
          BY <2>5
        <4> HIDE DEF r, u
        <4> QED
          BY <3>5, <4>1, <4>2 DEF LengthAt
      <3>7. Chunked(r, m + 2 + c, Begun, hashed + c)
        <4>1. /\ \A q \in 1..m : s[q] \in Nat
              /\ \A q \in 1..m : r[q] = s[q]
              /\ Chunked(s, m, Begun, hashed)
          BY <2>6, <2>8, <3>1, <3>2 DEF Blob
        <4>2. /\ r[m + 1] \in 0..(Base - 1) /\ r[m + 2] \in 0..(Base - 1)
              /\ \A p \in 1..c : r[m + 2 + p] = Base + hashed + p
          BY <2>5, <3>5
        <4> HIDE DEF r, s, u
        <4> QED
          BY <2>1, <2>2, <3>2, <3>4, <3>6, <4>1, <4>2, ChunkedAppend
      <3> DEFINE l == m + 2 + c
      <3>8. l = Len(Stream') /\ l \in Nat /\ l \in 0..Len(Stream')
        BY <3>2, <3>3
      <3> HIDE DEF l
      <3>9. Blob(Stream, l)'
        <4>1. Chunked(Stream', l, Begun', hashed')
          BY <2>2, <3>4, <3>7 DEF l
        <4>2. TrailerFrom(Stream, l)'
          <5>1. TrailerLength \in Nat /\ TrailerLength >= 4
                  /\ TrailerLength' = TrailerLength
            BY <2>2, TrailerBytes DEF TrailerLength
          <5>2. /\ Len(Stream') - l = 0 /\ ~(l < Len(Stream'))
                /\ Len(Stream') # l + TrailerLength'
            BY <3>8, <5>1
          <5>3. \A i \in 1..0 : Stream'[l + i] = Trailer'[i]
            OBVIOUS
          <5> QED
            BY <1>2, <5>1, <5>2, <5>3 DEF TrailerFrom
        <4> QED
          BY <4>1, <4>2 DEF Blob
      <3> QED
        BY <3>1, <3>2, <3>8, <3>9
    <2> QED
      BY <1>1, <1>2, <1>3, <1>4, <2>3, <2>9, WriterKeeps
  <1> QED
    BY <1>5, <1>6

LEMMA FinishStream ==
    ASSUME StreamInv, Finish
    PROVE  StreamInv'
  <1>1. /\ wpc = "idle" /\ UNCHANGED rvars /\ UNCHANGED rbuf
        /\ UNCHANGED <<accepted, offered, hashed, unsent, chunk>>
    BY DEF Finish, rvars
  <1>2. PICK n \in 0..Len(Trailer) :
            /\ wire' = wire \o SubSeq(Trailer, 1, n)
            /\ wpc' = IF n = Len(Trailer) THEN "finished" ELSE "failed"
    BY DEF Finish
  <1>3. /\ unsent = <<>> /\ hashed \in Nat /\ rpc # "ended"
        /\ rbuf \in Seq(Nat) /\ wire \in Seq(Nat) /\ unsent \in Seq(Nat)
    BY <1>1 DEF StreamInv, StreamTypes, WriterInv
  <1>4. WriterInv'
    BY <1>1, <1>2, <1>3 DEF StreamInv, WriterInv
  <1>5. {hashed', offered', chunk'} \subseteq 0..Total
    BY <1>1 DEF StreamInv, StreamTypes
  <1>6. /\ Trailer \in Seq(Nat) /\ Len(Trailer) = TrailerLength
        /\ TrailerLength \in Nat /\ TrailerLength >= 4
    BY <1>3, TrailerBytes
  <1>7. Trailer' = Trailer /\ TrailerLength' = TrailerLength
    BY <1>1 DEF Trailer, HashByte, TrailerLength
  <1> DEFINE x == SubSeq(Trailer, 1, n)
  <1>8. /\ x \in Seq(Nat) /\ Len(x) = n /\ n \in Nat
        /\ \A i \in 1..n : x[i] = Trailer[i]
    <2>1. n \in Nat /\ n <= Len(Trailer)
      BY <1>6
    <2>2. \A i \in 1..n : Trailer[i] \in Nat
      <3>1. \A i \in 1..n : i \in 1..Len(Trailer)
        BY <1>6
      <3> QED
        BY <1>6, <3>1, ElementOfSeq
    <2>3. /\ x \in Seq(Nat) /\ Len(x) = IF 1 <= n THEN n - 1 + 1 ELSE 0
          /\ \A i \in 1..(n - 1 + 1) : x[i] = Trailer[1 + i - 1]
      BY <2>1, <2>2, SubSeqProperties
    <2>4. ASSUME NEW i \in 1..n  PROVE x[i] = Trailer[i]
      <3>1. i \in 1..(n - 1 + 1) /\ 1 + i - 1 = i
        BY <2>1
      <3> QED
        BY <2>3, <3>1, Zenon
    <2> QED
      BY <2>1, <2>3, <2>4
  <1> HIDE DEF x
  <1>9. wire' = wire \o x
    BY <1>2 DEF x
  <1>10. wire' \in Seq(Nat) /\ Stream' = Stream \o x /\ Stream \in Seq(Nat)
    <2>1. wire \o x \in Seq(Nat)
      BY <1>3, <1>8, Joined
    <2>2. (rbuf \o wire) \o x = rbuf \o (wire \o x)
      BY <1>3, <1>8, Regrouped
    <2> DEFINE y == rbuf \o wire
               z == rbuf \o (wire \o x)
    <2>3. y \in Seq(Nat)
      BY <1>3, Joined
    <2>4. z \in Seq(Nat)
      <3> DEFINE v == wire \o x
      <3>1. v \in Seq(Nat)
        BY <2>1
      <3> HIDE DEF v
      <3>2. rbuf \o v \in Seq(Nat)
        BY <1>3, <3>1, Joined
      <3> QED
        BY <3>2 DEF v
    <2>5. Stream = y \o <<>> /\ Stream' = z \o <<>> /\ z = y \o x
      BY <1>1, <1>3, <1>9, <2>2 DEF Stream
    <2> HIDE DEF y, z
    <2>6. y \o <<>> = y /\ z \o <<>> = z
      BY <2>3, <2>4, ConcatEmptySeq
    <2> QED
      BY <1>9, <2>1, <2>3, <2>5, <2>6
  <1> DEFINE s == Stream
             r == Stream'
  <1>11. /\ Len(r) = Len(s) + n /\ Len(s) \in Nat
         /\ \A i \in 1..Len(s) : r[i] = s[i] /\ s[i] \in Nat
         /\ \A i \in 1..n : r[Len(s) + i] = x[i]
    <2>1. s \in Seq(Nat) /\ r = s \o x
      BY <1>10
    <2> HIDE DEF s, r
    <2>2. /\ Len(s \o x) = Len(s) + Len(x) /\ Len(s) \in Nat
          /\ \A i \in 1..Len(s) : (s \o x)[i] = s[i]
          /\ \A i \in 1..Len(s) : s[i] \in Nat
          /\ \A i \in 1..Len(x) : (s \o x)[Len(s) + i] = x[i]
      BY <1>8, <2>1, Joined, LenProperties, ElementOfSeq
    <2> QED
      BY <1>8, <2>1, <2>2, Zenon
  <1>12. ASSUME Reading
         PROVE  \E m \in 0..Len(Stream), k \in 0..Len(Stream') :
                         /\ Blob(Stream, m) /\ Within(m) /\ Blob(Stream, k)'
                         /\ m = k \/ rpc \notin {"hash_length", "hash", "end"}
    <2>1. PICK m \in 0..Len(Stream) : Blob(Stream, m) /\ Within(m)
      BY <1>12 DEF StreamInv
    <2>2. m = Len(s) /\ m \in Nat
      BY <1>1, <2>1, NoTrailerYet
    <2>3. Begun \in Nat /\ Begun' = Begun
      BY <1>1 DEF Begun, rvars, StreamInv, StreamTypes
    <2>4. Chunked(r, m, Begun, hashed)
      <3>1. /\ \A q \in 1..m : s[q] \in Nat
            /\ \A q \in 1..m : r[q] = s[q]
            /\ Chunked(s, m, Begun, hashed)
        BY <1>11, <2>1, <2>2 DEF Blob
      <3> HIDE DEF r, s
      <3> QED
        BY <1>3, <2>2, <2>3, <3>1, ChunkedSame
    <2>5. Chunked(Stream, m, Begun, hashed)'
      BY <1>1, <2>3, <2>4
    <2>6. TrailerFrom(Stream, m)'
      <3>1. /\ Len(Stream') - m = n
            /\ Len(Stream') = m + TrailerLength <=> n = TrailerLength
        BY <1>6, <1>8, <1>11, <2>2
      <3>2. \A i \in 1..n : Stream'[m + i] = Trailer'[i]
        BY <1>7, <1>8, <1>11, <2>2, Zenon
      <3>3. wpc' = "finished" <=> n = TrailerLength
        BY <1>2, <1>6
      <3>4. Closed' /\ unsent' = <<>>
        BY <1>1, <1>2, <1>3 DEF Closed
      <3>5. n <= TrailerLength
        BY <1>6, <1>8
      <3> QED
        BY <1>7, <3>1, <3>2, <3>3, <3>4, <3>5 DEF TrailerFrom
    <2>7. m \in 0..Len(Stream')
      BY <1>8, <1>11, <2>2
    <2> QED
      BY <2>1, <2>5, <2>6, <2>7 DEF Blob
  <1> QED
    BY <1>1, <1>3, <1>4, <1>5, <1>10, <1>12, WriterKeeps

LEMMA StreamStep ==
    ASSUME ~Async, StreamInv, [Next]_vars
    PROVE  StreamInv'
  <1>1. CASE \E k \in 0..Total : WriteBegin(k)
    BY <1>1, WriteBeginStream
  <1>2. CASE \E n \in 1..(Total + 2) : Sink(n)
    BY <1>2, SinkStream
  <1>3. CASE SinkPending \/ SinkError
    BY <1>3, SinkStopsStream
  <1>4. CASE Finish
    BY <1>4, FinishStream
  <1>5. CASE \E k \in 1..MaxRead : ReadBegin(k)
    BY <1>5, ReadBeginInv
  <1>6. CASE ReadHead \/ ReadId \/ ReadHash \/ ReadBody
    BY <1>6, ReadHeadInv, ReadIdInv, ReadHashInv, ReadBodyInv
  <1>7. CASE ReadLength \/ ReadHashLength
    BY <1>7, ReadLengthInv, ReadHashLengthInv
  <1>8. CASE ReadEnd \/ ReadRange \/ Copy
    BY <1>8, ReadEndInv, ReadRangeInv, CopyInv
  <1>9. CASE Done \/ UNCHANGED vars
    <2>1. UNCHANGED vars
      BY <1>9 DEF Done
    <2>2. WriterInv' /\ UNCHANGED wvars /\ UNCHANGED rvars
      BY <2>1, WriterStays DEF vars, wvars, rvars
    <2>3. Stream' = Stream /\ Begun' = Begun /\ Length' = Length
      BY <2>1 DEF vars, Stream, Begun, Length
    <2>4. StreamTypes' /\ ContentInOrder'
      BY <2>1 DEF vars, StreamInv, StreamTypes, ContentInOrder
    <2>5. CASE Reading
      <3>1. PICK m \in 0..Len(Stream) : Blob(Stream, m) /\ Within(m)
        BY <2>5 DEF StreamInv
      <3>2. Within(m)'
        BY <2>2, <2>3, <3>1 DEF Within, TrailerLength, rvars
      <3> QED
        BY <2>2, <2>3, <2>4, <2>5, <3>1, <3>2, StreamKept
           DEF StreamInv, Reading, rvars
    <2>6. CASE ~Reading
      <3>1. UNCHANGED <<wpc, hashed, delivered, rhash, rpc, rstart, rend, rbuf>>
        BY <2>1 DEF vars
      <3> QED
        BY <2>2, <2>3, <2>4, <2>6, <3>1 DEF StreamInv, Reading
    <2> QED
      BY <2>5, <2>6
  <1> QED
    BY <1>1, <1>2, <1>3, <1>4, <1>5, <1>6, <1>7, <1>8, <1>9
       DEF Next, WriterStep, ReaderStep

LEMMA StreamInit == Init => StreamInv
  <1> SUFFICES ASSUME Init PROVE StreamInv
    OBVIOUS
  <1>1. WriterInv
    BY DEF Init, WriterInv
  <1>2. StreamTypes
    BY SizeAssumption DEF Init, StreamTypes
  <1>3. Stream = <<>> /\ Len(Stream) = 0
    BY DEF Init, Stream
  <1>4. Len(delivered) = 0 /\ Begun = 0 /\ hashed = 0
    BY DEF Init, Begun
  <1>5. ContentInOrder
    BY DEF Init, ContentInOrder
  <1>6. Chunked(Stream, 0, Begun, hashed)
    BY <1>4 DEF Chunked
  <1>7. TrailerFrom(Stream, 0)
    <2>1. TrailerLength \in Nat /\ TrailerLength >= 4
      BY <1>4, TrailerBytes
    <2>2. Len(Stream) - 0 = 0 /\ Len(Stream) # 0 + TrailerLength
      BY <1>3, <2>1
    <2> QED
      BY <1>3, <2>1, <2>2 DEF Init, TrailerFrom
  <1>8. Within(0)
    BY DEF Init, Within
  <1> QED
    BY <1>1, <1>2, <1>3, <1>5, <1>6, <1>7, <1>8 DEF Init, StreamInv, Blob

LEMMA StreamInvariant ==
    ASSUME ~Async
    PROVE  Spec => []StreamInv
  BY StreamInit, StreamStep, PTL DEF Spec

\* Reading, rather than polling, keeps every variable within its type: no
\* index of the buffer is beyond the largest chunk, and nothing panics.
THEOREM StreamTyped ==
    ASSUME ~Async
    PROVE  Spec => []TypeOK
  <1>1. StreamInv => TypeOK
    <2> SUFFICES ASSUME StreamInv PROVE TypeOK
      OBVIOUS
    <2>1. accepted \in 0..Total
      <3>1. /\ accepted \in Nat /\ chunk \in Nat /\ hashed \in 0..Total
            /\ hashed = accepted + IF unsent = <<>> THEN 0 ELSE chunk
        BY DEF StreamInv, StreamTypes, WriterInv
      <3> QED
        BY <3>1, SizeAssumption
    <2>2. rstart \in 0..(Total + 2)
      BY SizeAssumption DEF StreamInv, StreamTypes
    <2> QED
      BY <2>1, <2>2 DEF TypeOK, StreamInv, StreamTypes, WriterInv
  <1> QED
    BY <1>1, StreamInvariant, PTL

\* The readers' callers get the content, byte for byte, whatever the stream
\* below takes and gives, and however long chunks, buffers and content are.
THEOREM StreamInOrder ==
    ASSUME ~Async
    PROVE  Spec => []ContentInOrder
  <1>1. StreamInv => ContentInOrder
    BY DEF StreamInv
  <1> QED
    BY <1>1, StreamInvariant, PTL

\* The hash is seen only when the writer has finished and all of what it was
\* given has been handed out, and it is the hash of just that.
THEOREM StreamEndExact ==
    ASSUME ~Async
    PROVE  Spec => []EndExact
  <1>1. StreamInv => EndExact
    <2> SUFFICES ASSUME StreamInv, rpc = "ended"
                 PROVE  /\ wpc = "finished"
                        /\ Len(delivered) = accepted /\ rhash = accepted
      BY DEF EndExact
    <2>1. wpc = "finished" /\ rhash = hashed /\ Len(delivered) = hashed
      BY DEF StreamInv
    <2>2. hashed = accepted
      BY <2>1 DEF StreamInv, WriterInv
    <2> QED
      BY <2>1, <2>2
  <1> QED
    BY <1>1, StreamInvariant, PTL

\* A reader that waits for the bytes it asks for never looks beyond them: the
\* panic of the polling reader comes from resuming after a partial read.
THEOREM ReadNeverPanics ==
    ASSUME ~Async
    PROVE  Spec => []NoPanic
  <1>1. StreamInv => NoPanic
    BY DEF StreamInv, StreamTypes, NoPanic
  <1> QED
    BY <1>1, StreamInvariant, PTL

-----------------------------------------------------------------------------
(* The refinement *)

\* The steps of the writer that take bytes, or finish, are Send and Close.
LEMMA WriterRefines ==
    ASSUME StreamInv, WriterStep
    PROVE  [S!Next]_S!avars
  <1>1. UNCHANGED <<delivered, rhash>>
    BY DEF WriterStep, WriteBegin, Sink, SinkPending, SinkError, Finish, rvars
  <1>2. wpc # "finished"
    BY DEF WriterStep, WriteBegin, Sink, SinkPending, SinkError, Finish
  <1>3. CASE UNCHANGED hashed /\ wpc' # "finished"
    BY <1>1, <1>2, <1>3 DEF S!avars
  <1>4. CASE Finish /\ wpc' = "finished"
    <2>1. UNCHANGED hashed
      BY <1>4 DEF Finish
    <2>2. S!Close
      BY <1>1, <1>2, <1>4, <2>1 DEF S!Close
    <2> QED
      BY <2>2 DEF S!Next
  <1>5. ASSUME NEW k \in 0..Total, WriteBegin(k), unsent = <<>>
        PROVE  S!Send
    <2>1. PICK c \in Nat : c = Least(k, MAX_LENGTH) /\ c >= 1 /\ c <= k
      BY <1>5, LengthPositive, SizeAssumption DEF Least, WriteBegin
    <2>2. /\ hashed' = hashed + c /\ hashed = accepted /\ hashed \in Nat
          /\ accepted + k <= Total /\ k \in Nat /\ Total \in Nat
      BY <1>5, <2>1, SizeAssumption DEF WriteBegin, StreamInv, WriterInv
    <2>3. c \in 1..(Total - hashed)
      BY <2>1, <2>2
    <2>4. wpc' # "finished"
      BY <1>5 DEF WriteBegin
    <2> QED
      BY <1>1, <1>2, <2>2, <2>3, <2>4 DEF S!Send
  <1>6. CASE \E k \in 0..Total : WriteBegin(k)
    <2>1. PICK k \in 0..Total : WriteBegin(k)
      BY <1>6
    <2>2. CASE unsent = <<>>
      BY <1>5, <2>1, <2>2 DEF S!Next
    <2>3. CASE unsent # <<>>
      BY <1>3, <2>1, <2>3 DEF WriteBegin
    <2> QED
      BY <2>2, <2>3
  <1>7. CASE \E n \in 1..(Total + 2) : Sink(n)
    BY <1>3, <1>7 DEF Sink
  <1>8. CASE SinkPending \/ SinkError \/ Finish
    <2>1. UNCHANGED hashed
      BY <1>8 DEF SinkPending, SinkError, Finish
    <2>2. wpc' = "finished" => Finish
      BY <1>8 DEF SinkPending, SinkError
    <2> QED
      BY <1>3, <1>4, <2>1, <2>2
  <1> QED
    BY <1>6, <1>7, <1>8 DEF WriterStep

\* The steps of the reader that hand out bytes, or the hash, are Receive and
\* End.
LEMMA ReaderRefines ==
    ASSUME StreamInv, ReaderStep
    PROVE  [S!Next]_S!avars
  <1>1. UNCHANGED wvars
    BY DEF ReaderStep, ReadBegin, ReadHead, ReadLength, ReadId, ReadHashLength,
           ReadHash, ReadEnd, ReadBody, ReadRange, Copy
  <1>2. UNCHANGED <<hashed, wpc>>
    BY <1>1 DEF wvars
  <1>3. CASE UNCHANGED <<delivered, rhash>>
    BY <1>2, <1>3 DEF S!avars
  <1>4. CASE ReadEnd
    <2>1. /\ rhash' = hashed /\ wpc = "finished" /\ Len(delivered) = hashed
          /\ rhash = None /\ UNCHANGED delivered
      BY <1>4, AtEnd DEF ReadEnd
    <2>2. S!End
      BY <1>2, <2>1 DEF S!End
    <2> QED
      BY <2>2 DEF S!Next
  <1>5. CASE Copy
    <2>1. PICK n \in Nat : /\ Len(delivered') = Len(delivered) + n
                           /\ Len(delivered) + n <= hashed
      BY <1>5, Copied
    <2>2. /\ rhash = None /\ UNCHANGED rhash
          /\ hashed \in Nat /\ Len(delivered) \in Nat
      BY <1>5, LenProperties DEF Copy, StreamInv, StreamTypes, WriterInv
    <2>3. CASE n = 0
      BY <1>2, <2>1, <2>2, <2>3 DEF S!avars
    <2>4. CASE n # 0
      <3>1. n \in 1..(hashed - Len(delivered))
        BY <2>1, <2>2, <2>4
      <3>2. S!Receive
        BY <1>2, <2>1, <2>2, <3>1 DEF S!Receive
      <3> QED
        BY <3>2 DEF S!Next
    <2> QED
      BY <2>3, <2>4
  <1> QED
    BY <1>3, <1>4, <1>5
       DEF ReaderStep, ReadBegin, ReadHead, ReadLength, ReadId, ReadHashLength,
           ReadHash, ReadBody, ReadRange

\* A blob that is written and read is the abstract stream: cutting it into
\* chunks, resuming writes and refilling the reader's buffer change nothing
\* that its users see.
THEOREM StreamRefines ==
    ASSUME ~Async
    PROVE  Spec => RefinesStream
  <1>1. Init => S!Init
    BY DEF Init, S!Init
  <1>2. StreamInv /\ [Next]_vars => [S!Next]_S!avars
    <2> SUFFICES ASSUME StreamInv, [Next]_vars PROVE [S!Next]_S!avars
      OBVIOUS
    <2>1. CASE Done \/ UNCHANGED vars
      <3>1. UNCHANGED <<hashed, wpc, delivered, rhash>>
        BY <2>1 DEF Done, vars
      <3> QED
        BY <3>1 DEF S!avars
    <2> QED
      BY <2>1, WriterRefines, ReaderRefines DEF Next
  <1> QED
    BY <1>1, <1>2, StreamInvariant, PTL DEF Spec, RefinesStream, S!Spec
=============================================================================
