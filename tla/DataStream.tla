----------------------------- MODULE DataStream -----------------------------
(***************************************************************************)
(* A blob of an archive (crates/archive): DataWriter cuts what is written  *)
(* into chunks, each behind a two-byte length, and ends with an empty      *)
(* chunk and the hash of everything; DataReader undoes this.  The stream   *)
(* below takes and gives any number of bytes at a time, is not always      *)
(* ready, and may fail.                                                    *)
(*                                                                         *)
(* A byte on the wire is a number: a length or a hash id is below Base,    *)
(* the p-th byte of the content is Base + p, and a byte of the hash of the *)
(* first n bytes is above all of these (HashByte).                         *)
(*                                                                         *)
(* A definition marked "Faulty" is no part of the model: it is the mistake *)
(* the definition after it could make, which the properties must detect.   *)
(***************************************************************************)
EXTENDS Naturals, Sequences

CONSTANTS Base,      \* values of a byte (256)
          Total,     \* bound: bytes of content
          HashLen,   \* bytes of a hash (32)
          MaxRead,   \* bound: the largest buffer the reader is given
          Async,     \* TRUE for poll_read, FALSE for read
          None       \* no hash yet

ASSUME BaseAssumption == Base \in Nat /\ Base >= 2
ASSUME SizeAssumption == Total \in Nat /\ {HashLen, MaxRead} \subseteq Nat \ {0}
ASSUME AsyncAssumption == Async \in BOOLEAN
ASSUME NoneAssumption == None \notin Nat

MAX_LENGTH == Base * Base - 1

VARIABLES wpc,       \* where the writer is
          accepted,  \* bytes its caller was told are written
          offered,   \* length of the buffer of the write under way
          hashed,    \* bytes the hasher has seen
          unsent,    \* DataWriter::buffer[range]
          chunk,     \* range.end - 2
          wire,      \* bytes written below and not yet read
          rpc,       \* where the reader is
          want,      \* length of the buffer of the read under way
          rbuf,      \* DataReader::remaining
          rstart,    \* DataReader::range
          rend,
          delivered, \* what the reader's callers received
          rhash      \* DataReader::hash

wvars == <<wpc, accepted, offered, hashed, unsent, chunk>>
rvars == <<rpc, want, rbuf, rstart, rend, delivered, rhash>>
vars  == <<wpc, accepted, offered, hashed, unsent, chunk, wire, rpc, want, rbuf,
           rstart, rend, delivered, rhash>>

HashId == 1
HashByte(n) == Base + Total + 1 + n

Init == /\ wpc = "idle" /\ accepted = 0 /\ offered = 0 /\ hashed = 0
        /\ unsent = <<>> /\ chunk = 0 /\ wire = <<>>
        /\ rpc = "idle" /\ want = 0 /\ rbuf = <<>> /\ rstart = 0 /\ rend = 0
        /\ delivered = <<>> /\ rhash = None

Least(a, b) == IF a < b THEN a ELSE b

-----------------------------------------------------------------------------
(* DataWriter: write and poll_write are the same up to the waiting *)

\* Two bytes of length, big-endian, then the content.
Chunk(n) == <<n \div Base, n % Base>> \o [p \in 1..n |-> Base + accepted + p]

\* Faulty: an empty buffer makes an empty chunk.
WriteBeginEmpty(k) ==
    /\ wpc \in {"idle", "pending"}
    /\ k >= offered /\ accepted + k <= Total
    /\ offered' = k
    /\ IF unsent = <<>>
       THEN /\ chunk' = Least(k, MAX_LENGTH)
            /\ hashed' = hashed + chunk'
            /\ unsent' = Chunk(chunk')
       ELSE UNCHANGED <<hashed, unsent, chunk>>
    /\ wpc' = "sinking"
    /\ UNCHANGED <<accepted, wire, rvars>>

\* Faulty: the bytes are hashed on every call, also when it only goes on.
WriteBeginRehash(k) ==
    /\ wpc \in {"idle", "pending"}
    /\ k > 0 /\ k >= offered /\ accepted + k <= Total
    /\ offered' = k
    /\ hashed' = hashed + Least(k, MAX_LENGTH)
    /\ IF unsent = <<>>
       THEN chunk' = Least(k, MAX_LENGTH) /\ unsent' = Chunk(chunk')
       ELSE UNCHANGED <<unsent, chunk>>
    /\ wpc' = "sinking"
    /\ UNCHANGED <<accepted, wire, rvars>>

\* A call with a buffer of k bytes.  After a Pending the caller (write_all,
\* tokio::io::copy) comes back with the same bytes, or with more behind them.
WriteBegin(k) ==
    /\ wpc \in {"idle", "pending"}
    /\ k > 0 /\ k >= offered /\ accepted + k <= Total
    /\ offered' = k
    /\ IF unsent = <<>>
       THEN /\ chunk' = Least(k, MAX_LENGTH)
            /\ hashed' = hashed + chunk'
            /\ unsent' = Chunk(chunk')
       ELSE UNCHANGED <<hashed, unsent, chunk>>
    /\ wpc' = "sinking"
    /\ UNCHANGED <<accepted, wire, rvars>>

\* Faulty: the caller is told about the length prefix too.
SinkWithPrefix(n) ==
    /\ wpc = "sinking" /\ n \in 1..Len(unsent)
    /\ wire' = wire \o SubSeq(unsent, 1, n)
    /\ unsent' = SubSeq(unsent, n + 1, Len(unsent))
    /\ IF unsent' = <<>>
       THEN wpc' = "idle" /\ accepted' = accepted + chunk + 2 /\ offered' = 0
       ELSE UNCHANGED <<wpc, accepted, offered>>
    /\ UNCHANGED <<hashed, chunk, rvars>>

\* One turn of the loop: the stream below takes n bytes.  When it has taken
\* the last one the call returns the length of the chunk.
Sink(n) ==
    /\ wpc = "sinking" /\ n \in 1..Len(unsent)
    /\ wire' = wire \o SubSeq(unsent, 1, n)
    /\ unsent' = SubSeq(unsent, n + 1, Len(unsent))
    /\ IF unsent' = <<>>
       THEN wpc' = "idle" /\ accepted' = accepted + chunk /\ offered' = 0
       ELSE UNCHANGED <<wpc, accepted, offered>>
    /\ UNCHANGED <<hashed, chunk, rvars>>

\* It is not ready, or was interrupted: the caller will try again.
SinkPending ==
    /\ wpc = "sinking"
    /\ wpc' = "pending"
    /\ UNCHANGED <<accepted, offered, hashed, unsent, chunk, wire, rvars>>

SinkError ==
    /\ wpc = "sinking"
    /\ wpc' = "failed"
    /\ UNCHANGED <<accepted, offered, hashed, unsent, chunk, wire, rvars>>

\* Faulty: the id of the hash is left out.
TrailerNoId == <<0, 0>> \o [b \in 1..HashLen |-> HashByte(hashed)]

Trailer == <<0, 0, HashId>> \o [b \in 1..HashLen |-> HashByte(hashed)]

\* finish, between two writes; an error leaves a part of the trailer.
Finish ==
    /\ wpc = "idle"
    /\ \E n \in 0..Len(Trailer) :
           /\ wire' = wire \o SubSeq(Trailer, 1, n)
           /\ wpc' = IF n = Len(Trailer) THEN "finished" ELSE "failed"
    /\ UNCHANGED <<accepted, offered, hashed, unsent, chunk, rvars>>

Closed == wpc \in {"finished", "failed"}

WriterStep == \/ \E k \in 0..Total : WriteBegin(k)
              \/ \E n \in 1..(Total + 2) : Sink(n)
              \/ SinkPending \/ SinkError \/ Finish

-----------------------------------------------------------------------------
(* DataReader *)

\* read_exact_internal and poll_read_exact: make remaining len bytes long,
\* then go on at next.  Reading takes all of the bytes that are missing, and
\* loses what it took of them if the stream ends before.  Polling takes what
\* one poll of the stream gives, and only distinguishes whether it is pending:
\* with fewer bytes, or none at the end of the stream, it goes on just as well.
Fill(len, next) ==
    LET missing == len - Len(rbuf)
        Take(n) == /\ rbuf' = rbuf \o SubSeq(wire, 1, n)
                   /\ wire' = SubSeq(wire, n + 1, Len(wire))
    IN \/ /\ Len(rbuf) >= len
          /\ rpc' = next /\ UNCHANGED <<rbuf, wire>>
       \/ /\ ~Async /\ Len(rbuf) < len /\ Len(wire) >= missing
          /\ Take(missing) /\ rpc' = next
       \/ /\ ~Async /\ Len(rbuf) < len /\ Len(wire) < missing /\ Closed
          /\ rpc' = "failed" /\ wire' = <<>> /\ UNCHANGED rbuf
       \/ /\ Async /\ Len(rbuf) < len /\ wire # <<>>
          /\ \E n \in 1..Least(missing, Len(wire)) : Take(n)
          /\ rpc' = next
       \/ /\ Async /\ Len(rbuf) < len /\ wire = <<>>
          /\ rpc' = IF Closed THEN next ELSE "idle"
          /\ UNCHANGED <<rbuf, wire>>

\* remaining[0..2] as a length.
Length == rbuf[1] * Base + rbuf[2]

ReadBegin(k) ==
    /\ rpc = "idle" /\ k > 0
    /\ want' = k
    /\ rpc' = IF rstart < rend THEN "copy" ELSE "head"
    /\ UNCHANGED <<wvars, wire, rbuf, rstart, rend, delivered, rhash>>

ReadHead == /\ rpc = "head" /\ Fill(2, "length")
            /\ UNCHANGED <<wvars, want, rstart, rend, delivered, rhash>>

ReadLength ==
    /\ rpc = "length"
    /\ rpc' = CASE Len(rbuf) < 2 -> "panic"
                [] Len(rbuf) >= 2 -> IF Length = 0 THEN "id" ELSE "body"
    /\ UNCHANGED <<wvars, wire, want, rbuf, rstart, rend, delivered, rhash>>

ReadId == /\ rpc = "id" /\ Fill(3, "hash_length")
          /\ UNCHANGED <<wvars, want, rstart, rend, delivered, rhash>>

ReadHashLength ==
    /\ rpc = "hash_length"
    /\ rpc' = CASE Len(rbuf) < 3 -> "panic"
                [] Len(rbuf) >= 3 -> IF rbuf[3] = HashId THEN "hash" ELSE "failed"
    /\ UNCHANGED <<wvars, wire, want, rbuf, rstart, rend, delivered, rhash>>

ReadHash == /\ rpc = "hash" /\ Fill(3 + HashLen, "end")
            /\ UNCHANGED <<wvars, want, rstart, rend, delivered, rhash>>

\* The hash is there and the call returns no bytes.
ReadEnd ==
    /\ rpc = "end"
    /\ IF Len(rbuf) < 3 + HashLen THEN rpc' = "panic" /\ UNCHANGED rhash
       ELSE rpc' = "ended" /\ rhash' = rbuf[3 + HashLen] - HashByte(0)
    /\ UNCHANGED <<wvars, wire, want, rbuf, rstart, rend, delivered>>

ReadBody == /\ rpc = "body" /\ Fill(2 + Length, "range")
            /\ UNCHANGED <<wvars, want, rstart, rend, delivered, rhash>>

ReadRange ==
    /\ rpc = "range"
    /\ rstart' = 2 /\ rend' = 2 + Length
    /\ rpc' = "copy"
    /\ UNCHANGED <<wvars, wire, want, rbuf, delivered, rhash>>

\* Faulty: the chunk is not cleared behind its last byte.
CopyKeeping ==
    /\ rpc = "copy"
    /\ LET n == Least(want, rend - rstart)
       IN IF rstart + n > Len(rbuf)
          THEN rpc' = "panic" /\ UNCHANGED <<rbuf, rstart, delivered>>
          ELSE /\ delivered' = delivered \o SubSeq(rbuf, rstart + 1, rstart + n)
               /\ rstart' = rstart + n
               /\ rpc' = "idle" /\ UNCHANGED rbuf
    /\ UNCHANGED <<wvars, wire, want, rend, rhash>>

\* What is left of a chunk, as much as fits the caller's buffer.
Copy ==
    /\ rpc = "copy"
    /\ LET n == Least(want, rend - rstart)
       IN IF rstart + n > Len(rbuf)
          THEN rpc' = "panic" /\ UNCHANGED <<rbuf, rstart, delivered>>
          ELSE /\ delivered' = delivered \o SubSeq(rbuf, rstart + 1, rstart + n)
               /\ rstart' = rstart + n
               /\ rbuf' = IF rstart' = rend THEN <<>> ELSE rbuf
               /\ rpc' = "idle"
    /\ UNCHANGED <<wvars, wire, want, rend, rhash>>

ReaderStep == \/ \E k \in 1..MaxRead : ReadBegin(k)
              \/ ReadHead \/ ReadLength \/ ReadId \/ ReadHashLength \/ ReadHash
              \/ ReadEnd \/ ReadBody \/ ReadRange \/ Copy

-----------------------------------------------------------------------------

Done == Closed /\ rpc \in {"ended", "failed", "panic"} /\ UNCHANGED vars

Next == WriterStep \/ ReaderStep \/ Done

Spec == Init /\ [][Next]_vars

\* The caller of the reader reads until it gets no more bytes.
FairSpec == Spec /\ WF_vars(ReaderStep)

-----------------------------------------------------------------------------
(* Properties *)

\* Types.
TypeOK ==
    /\ wpc \in {"idle", "sinking", "pending", "failed", "finished"}
    /\ rpc \in {"idle", "head", "length", "id", "hash_length", "hash", "end",
                "body", "range", "copy", "ended", "failed", "panic"}
    /\ {accepted, offered, hashed, chunk} \subseteq 0..Total
    /\ unsent \in Seq(Nat) /\ wire \in Seq(Nat) /\ rbuf \in Seq(Nat)
    /\ want \in 0..MaxRead
    /\ rstart \in 0..(Total + 2) /\ rend \in 0..(Total + 2)
    /\ delivered \in Seq(Nat)
    /\ rhash \in Nat \cup {None}

\* A write never returns more than the length of the buffer it was given, also
\* when the chunk it finishes was cut from the buffer of an earlier call:
\* write_all and copy would panic on it.
ReturnWithinBuffer == [][accepted' - accepted <= offered]_vars

\* The readers' callers get the bytes of the content, in order, none twice and
\* none left out, and no byte of the framing.
ContentInOrder == delivered = [p \in 1..Len(delivered) |-> Base + p]

\* The end is only seen when the writer has finished, after the last byte, and
\* the hash is that of these bytes: a truncated blob never looks complete.
EndExact ==
    rpc = "ended" => /\ wpc = "finished"
                     /\ Len(delivered) = accepted /\ rhash = accepted

\* A finished blob can be read to its end.
Completes == wpc = "finished" ~> rpc = "ended"

\* "We need to retain the length at the start so that it's available during the
\* next poll after a partial read": a partial read is resumed, never a panic.
NoPanic == rpc # "panic"

S == INSTANCE AbstractStream WITH sent <- hashed, closed <- (wpc = "finished"),
                                  got <- Len(delivered), hash <- rhash

\* The blob is the abstract stream.
RefinesStream == S!Spec
=============================================================================
