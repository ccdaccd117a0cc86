------------------------------ MODULE Archive ------------------------------
(***************************************************************************)
(* An archive (crates/archive) as a stream of bytes: Writer puts a header, *)
(* entries and blobs on it, and Reader::next_event, called in a loop, gets *)
(* them back.  Calls fail half-way on both sides: the stream reports an    *)
(* error, the future of a call is dropped, an entry is refused after some  *)
(* of it was written, the writer goes away.  What DataWriter and DataReader*)
(* do inside a blob with partial reads and writes is in DataStream; here a *)
(* blob is a sequence of chunks.                                           *)
(*                                                                         *)
(* The sync and the async functions differ in the waiting only and are     *)
(* the same actions.  A read is one step, taken when all its bytes are     *)
(* there: nothing can be observed of it before.                            *)
(*                                                                         *)
(* A definition marked "Faulty" is no part of the model: it is the mistake *)
(* the definition after it could make, which the properties must detect.   *)
(***************************************************************************)
EXTENDS Naturals, Sequences, SequencesExt

CONSTANTS Base,           \* values of a byte (256)
          HashLen,        \* bytes of a hash (32)
          Entries,        \* the entries callers write: see Event
          Blobs,          \* the blobs they write: [chunks, hash]
          MaxEvents,      \* bound: entries and blobs begun
          MaxInterrupts   \* bound: calls of the reader that do not end

ASSUME BaseAssumption == Base \in Nat /\ Base >= 4
ASSUME HashLenAssumption == HashLen \in Nat \ {0}
ASSUME BoundAssumption == {MaxEvents, MaxInterrupts} \subseteq Nat

Byte == 0..(Base - 1)

ENTRY_DATA  == 1
ENTRY_ENTRY == 2
TYPE_DATA   == 1
TYPE_LINK   == 2
TYPE_DIR    == 3

\* u16::MAX
MAX_LENGTH == Base * Base - 1

\* b"NCK00", cut to the width of a byte.
Header == <<78 % Base, 67 % Base, 75 % Base, 48 % Base, 48 % Base>>

\* An Entry or a blob: kind is TYPE_DATA, TYPE_LINK, TYPE_DIR or 0 for a
\* blob, and the fields a kind does not have are empty.
Event == [kind : 0..3, path : Seq(Byte), dest : Seq(Byte), hash : Seq(Byte),
          flags : 0..1, content : Seq(Byte)]

Blank == [kind |-> 0, path |-> <<>>, dest |-> <<>>, hash |-> <<>>,
          flags |-> 0, content |-> <<>>]

\* What callers can write: kinds and hashes are those the types have, paths of
\* any length.  DataWriter cuts a blob into chunks that are not empty.
Entry == {e \in Event : /\ e.kind # 0 /\ e.content = <<>>
                        /\ Len(e.hash) = IF e.kind = TYPE_DATA
                                         THEN HashLen ELSE 0
                        /\ e.kind # TYPE_LINK => e.dest = <<>>
                        /\ e.kind = TYPE_DIR => e.flags = 0}

Blob == {b \in [chunks : Seq(Seq(Byte)), hash : Seq(Byte)] :
            /\ \A c \in 1..Len(b.chunks) : Len(b.chunks[c]) \in 1..MAX_LENGTH
            /\ Len(b.hash) = HashLen}

ASSUME EntriesAssumption == Entries \subseteq Entry
ASSUME BlobsAssumption == Blobs \subseteq Blob

VARIABLES wst,        \* the Writer: "none", "open" or "closed"
          begun,      \* entries and blobs begun
          sent,       \* those wholly written, before anything went wrong
          torn,       \* "no"; "end": the stream ends in part of an event;
                      \* "mid": and something was written behind that part
          wire,       \* bytes written and not yet read
          rpc,        \* the read next_event or the DataReader is about to do
          part,       \* what it has read of the event
          len,        \* the length it has read
          valid,      \* Reader::valid
          got_header, \* Reader::got_header
          got,        \* events handed out before a call was interrupted
          res,        \* how the last call ended, "-" before the first one
          warned,     \* whether a call has found the archive cut or invalid
          lost,       \* whether an interrupted call has lost its place
          interrupts  \* calls interrupted

wvars == <<wst, begun, sent, torn>>
rvars == <<rpc, part, len, valid, got_header, got, res, warned, lost,
           interrupts>>
vars  == <<wst, begun, sent, torn, wire, rpc, part, len, valid, got_header,
           got, res, warned, lost, interrupts>>

Init == /\ wst = "none" /\ begun = 0 /\ sent = <<>> /\ torn = "no"
        /\ wire = <<>>
        /\ rpc = "idle" /\ part = Blank /\ len = 0
        /\ valid = TRUE /\ got_header = FALSE
        /\ got = <<>> /\ res = "-" /\ warned = FALSE
        /\ lost = FALSE /\ interrupts = 0

Least(a, b) == IF a <= b THEN a ELSE b

-----------------------------------------------------------------------------
(* The format *)

\* A length, or the bits of the flags, in two bytes, big-endian.
U16(n) == <<(n \div Base) % Base, n % Base>>

FromU16(b) == b[1] * Base + b[2]

\* Faulty: any length is cut to sixteen bits.
FitsAlways(b) == TRUE

Fits(b) == Len(b) <= MAX_LENGTH

Prefixed(b) == U16(Len(b)) \o b

\* The hash of a data entry or a blob, behind its type.
HashBytes(h) == <<1>> \o h

Target(e) ==
    CASE e.kind = TYPE_DATA -> <<TYPE_DATA>> \o HashBytes(e.hash) \o U16(e.flags)
      [] e.kind = TYPE_LINK -> <<TYPE_LINK>> \o Prefixed(e.dest) \o U16(e.flags)
      [] e.kind = TYPE_DIR  -> <<TYPE_DIR>>

EntryBytes(e) == <<ENTRY_ENTRY>> \o Prefixed(e.path) \o Target(e)

\* What write_entry has written when it refuses a path or a link.
RefusedBytes(e) ==
    IF Fits(e.path) THEN <<ENTRY_ENTRY>> \o Prefixed(e.path) \o <<TYPE_LINK>>
                    ELSE <<ENTRY_ENTRY>>

\* The chunks, an empty one, the hash of all of them.
BlobBytes(b) == <<ENTRY_DATA>> \o FlattenSeq([c \in 1..Len(b.chunks) |->
                                                 Prefixed(b.chunks[c])])
                               \o U16(0) \o HashBytes(b.hash)

BlobEvent(b) == [Blank EXCEPT !.content = FlattenSeq(b.chunks), !.hash = b.hash]

-----------------------------------------------------------------------------
(* Writer *)

Put(bytes) == wire' = wire \o bytes

New == /\ wst = "none"
       /\ Put(Header)
       /\ wst' = "open"
       /\ UNCHANGED <<begun, sent, torn, rvars>>

\* The header is not written, or not all of it; there is no Writer.
NewFail == /\ wst = "none"
           /\ \E n \in 0..(Len(Header) - 1) : Put(SubSeq(Header, 1, n))
           /\ wst' = "closed" /\ torn' = "end"
           /\ UNCHANGED <<begun, sent, rvars>>

\* An event is on the stream.
Written(e, bytes) ==
    /\ wst = "open" /\ begun < MaxEvents
    /\ begun' = begun + 1
    /\ Put(bytes)
    /\ sent' = IF torn = "no" THEN Append(sent, e) ELSE sent
    /\ torn' = IF torn = "no" THEN "no" ELSE "mid"
    /\ UNCHANGED <<wst, rvars>>

\* Only the first n bytes of it are.
Broken(bytes, n) ==
    /\ wst = "open" /\ begun < MaxEvents
    /\ begun' = begun + 1
    /\ Put(SubSeq(bytes, 1, n))
    /\ torn' = CASE n = 0 -> torn
                 [] n > 0 /\ torn = "no" -> "end"
                 [] OTHER -> "mid"
    /\ UNCHANGED <<sent, rvars>>

WriteEntry(e) == /\ Fits(e.path) /\ Fits(e.dest)
                 /\ Written(e, EntryBytes(e))

\* The tag is out before the lengths are looked at.  The caller has the Writer
\* still, and may go on.
RefuseEntry(e) == /\ ~(Fits(e.path) /\ Fits(e.dest))
                  /\ Broken(RefusedBytes(e), Len(RefusedBytes(e)))
                  /\ UNCHANGED wst

\* An error of the stream below, or a dropped write_entry_async.
WriteEntryFail(e) ==
    /\ Fits(e.path) /\ Fits(e.dest)
    /\ \E n \in 0..(Len(EntryBytes(e)) - 1) : Broken(EntryBytes(e), n)
    /\ UNCHANGED wst

\* write_data, the writes and finish.
WriteBlob(b) == Written(BlobEvent(b), BlobBytes(b))

\* The Writer has moved into the DataWriter and is lost with it.
WriteBlobFail(b) ==
    /\ \E n \in 0..(Len(BlobBytes(b)) - 1) : Broken(BlobBytes(b), n)
    /\ wst' = "closed"

\* into_inner or the drop of the Writer, and of the stream.
Close == /\ wst = "open"
         /\ wst' = "closed"
         /\ UNCHANGED <<begun, sent, torn, wire, rvars>>

WriterStep == \/ New \/ NewFail \/ Close
              \/ \E e \in Entries : \/ WriteEntry(e) \/ RefuseEntry(e)
                                    \/ WriteEntryFail(e)
              \/ \E b \in Blobs : WriteBlob(b) \/ WriteBlobFail(b)

-----------------------------------------------------------------------------
(* Reader *)

\* Bytes of the read that is next.
Need == CASE rpc = "header" -> Len(Header)
          [] rpc \in {"tag", "kind", "hash_id"} -> 1
          [] rpc \in {"path_len", "dest_len", "flags", "chunk_len"} -> 2
          [] rpc = "hash" -> HashLen
          [] rpc \in {"path", "dest", "chunk"} -> len
          [] OTHER -> 0

Here == SubSeq(wire, 1, Need)

\* All bytes of the read are there and are taken.
Take(pc) == /\ rpc = pc /\ Len(wire) >= Need
            /\ wire' = SubSeq(wire, Need + 1, Len(wire))
            /\ UNCHANGED <<lost, interrupts, wvars>>

\* The call is over.
Return(r) == /\ rpc' = "idle" /\ part' = Blank /\ len' = 0
             /\ res' = r
             /\ warned' = (warned \/ r \in {"eof", "invalid"})

Goto(pc) == rpc' = pc /\ UNCHANGED <<got, res, warned, valid, got_header>>

Deliver(e) == /\ Return("event")
              /\ got' = IF lost THEN got ELSE Append(got, e)
              /\ UNCHANGED <<valid, got_header>>

\* Faulty: the error is reported once.
InvalidateOnce == /\ Return("invalid")
                  /\ UNCHANGED <<valid, got, got_header>>

Invalidate == /\ Return("invalid")
              /\ valid' = FALSE
              /\ UNCHANGED <<got, got_header>>

\* Faulty: the header counts as read before it is.
NextEventEarly ==
    /\ rpc = "idle"
    /\ IF valid
       THEN /\ rpc' = IF got_header THEN "tag" ELSE "header"
            /\ got_header' = TRUE
            /\ UNCHANGED <<part, len, res, warned>>
       ELSE Return("invalid") /\ UNCHANGED got_header
    /\ UNCHANGED <<valid, got, lost, interrupts, wire, wvars>>

\* A call of next_event.  reader() refuses on an invalid Reader.
NextEvent ==
    /\ rpc = "idle"
    /\ IF valid
       THEN /\ rpc' = IF got_header THEN "tag" ELSE "header"
            /\ UNCHANGED <<part, len, res, warned>>
       ELSE Return("invalid")
    /\ UNCHANGED <<valid, got_header, got, lost, interrupts, wire, wvars>>

ReadHeader ==
    /\ Take("header")
    /\ IF Here = Header
       THEN /\ rpc' = "tag" /\ got_header' = TRUE
            /\ UNCHANGED <<part, len, valid, got, res, warned>>
       ELSE Invalidate

\* read_type; a DataReader is handed out at once and read by the caller.
ReadTag ==
    /\ Take("tag")
    /\ CASE Here[1] = ENTRY_DATA  -> Goto("chunk_len") /\ UNCHANGED <<part, len>>
         [] Here[1] = ENTRY_ENTRY -> Goto("path_len") /\ UNCHANGED <<part, len>>
         [] OTHER -> Invalidate

\* read_length_prefixed, first its length.
ReadLength ==
    \E f \in {<<"path_len", "path">>, <<"dest_len", "dest">>} :
        /\ Take(f[1])
        /\ len' = FromU16(Here)
        /\ Goto(f[2]) /\ UNCHANGED part

ReadPath == /\ Take("path")
            /\ part' = [part EXCEPT !.path = Here]
            /\ Goto("kind") /\ UNCHANGED len

\* read_required_type
ReadKind ==
    /\ Take("kind")
    /\ part' = [part EXCEPT !.kind = Here[1]]
    /\ UNCHANGED len
    /\ \/ Here[1] = TYPE_DATA /\ Goto("hash_id")
       \/ Here[1] = TYPE_LINK /\ Goto("dest_len")

ReadDirectory ==
    /\ Take("kind") /\ Here[1] = TYPE_DIR
    /\ Deliver([part EXCEPT !.kind = TYPE_DIR])

ReadKindUnknown ==
    /\ Take("kind") /\ Here[1] \notin {TYPE_DATA, TYPE_LINK, TYPE_DIR}
    /\ Invalidate

\* hash_length knows one type only.
ReadHashId ==
    /\ Take("hash_id")
    /\ IF Here[1] = 1 THEN Goto("hash") /\ UNCHANGED <<part, len>>
                      ELSE Invalidate

\* create_hash: of an entry, or at the end of a blob.
ReadHash ==
    /\ Take("hash")
    /\ IF part.kind = TYPE_DATA
       THEN /\ part' = [part EXCEPT !.hash = Here]
            /\ Goto("flags") /\ UNCHANGED len
       ELSE Deliver([part EXCEPT !.hash = Here])

ReadDest == /\ Take("dest")
            /\ part' = [part EXCEPT !.dest = Here]
            /\ Goto("flags") /\ UNCHANGED len

\* Faulty: EntryFlags::from_bits_retain.
FlagsRetained(n) == n

\* EntryFlags::from_bits_truncate: EXECUTABLE is the lowest bit.
Flags(n) == n % 2

ReadFlags == /\ Take("flags")
             /\ Deliver([part EXCEPT !.flags = Flags(FromU16(Here))])

\* DataReader::read
ReadChunkLength ==
    /\ Take("chunk_len")
    /\ len' = FromU16(Here)
    /\ Goto(IF len' = 0 THEN "hash_id" ELSE "chunk") /\ UNCHANGED part

ReadChunk == /\ Take("chunk")
             /\ part' = [part EXCEPT !.content = @ \o Here]
             /\ Goto("chunk_len") /\ UNCHANGED len

\* read_type at the end of the stream: no event is left.
EndOfStream ==
    /\ rpc = "tag" /\ wire = <<>> /\ wst = "closed"
    /\ Return("none")
    /\ UNCHANGED <<valid, got_header, got, lost, interrupts, wire, wvars>>

\* Faulty: a read of no bytes is tried again.
UnexpectedEofWaiting ==
    /\ rpc \notin {"idle", "tag"} /\ Len(wire) < Need /\ wst = "closed"
    /\ wire' = <<>>
    /\ UNCHANGED <<rvars, wvars>>

\* Faulty: what is there is taken for what was asked.
UnexpectedEofShort ==
    /\ rpc \notin {"idle", "tag"} /\ Len(wire) < Need /\ wst = "closed"
    /\ wire' = <<>>
    /\ IF rpc = "dest"
       THEN /\ Deliver([part EXCEPT !.dest = wire])
       ELSE Return("eof") /\ UNCHANGED <<valid, got_header, got>>
    /\ UNCHANGED <<lost, interrupts, wvars>>

\* Any other read there: what is left is consumed, and valid stays TRUE.
UnexpectedEof ==
    /\ rpc \notin {"idle", "tag"} /\ Len(wire) < Need /\ wst = "closed"
    /\ wire' = <<>>
    /\ Return("eof")
    /\ UNCHANGED <<valid, got_header, got, lost, interrupts, wvars>>

\* The stream reports an error, the future of the call is dropped, or the
\* DataReader: the bytes the read had got are gone.  Nothing is lost before
\* the first byte of an event, nor while the header was not touched.
Interrupt ==
    /\ rpc # "idle" /\ interrupts < MaxInterrupts /\ Need > 0
    /\ interrupts' = interrupts + 1
    /\ \E k \in 0..Least(Need - 1, Len(wire)) :
        /\ wire' = SubSeq(wire, k + 1, Len(wire))
        /\ lost' = (lost \/ ~(rpc \in {"header", "tag"} /\ k = 0))
    /\ Return("failed")
    /\ UNCHANGED <<valid, got_header, got, wvars>>

ReaderStep == \/ NextEvent \/ ReadHeader \/ ReadTag \/ ReadLength \/ ReadPath
              \/ ReadKind \/ ReadDirectory \/ ReadKindUnknown \/ ReadHashId
              \/ ReadHash \/ ReadDest \/ ReadFlags \/ ReadChunkLength
              \/ ReadChunk \/ EndOfStream \/ UnexpectedEof

Next == WriterStep \/ ReaderStep \/ Interrupt

\* The caller of next_event goes on calling, as a loop over it does, and a
\* read whose bytes are there, or never will be, returns.
Spec == Init /\ [][Next]_vars /\ WF_vars(ReaderStep)

-----------------------------------------------------------------------------
(* Properties *)

\* Types; the fields of what was read are bytes, flags are known flags, and
\* no length is longer than sixteen bits.
TypeOK == /\ wst \in {"none", "open", "closed"}
          /\ begun \in 0..MaxEvents
          /\ torn \in {"no", "end", "mid"}
          /\ wire \in Seq(Byte)
          /\ rpc \in {"idle", "header", "tag", "path_len", "path", "kind",
                      "hash_id", "hash", "dest_len", "dest", "flags",
                      "chunk_len", "chunk"}
          /\ len \in 0..MAX_LENGTH
          /\ part \in Event
          /\ {valid, got_header, warned, lost} \subseteq BOOLEAN
          /\ sent \in Seq(Event) /\ got \in Seq(Event)
          /\ res \in {"-", "event", "none", "eof", "failed", "invalid"}
          /\ interrupts \in 0..MaxInterrupts

\* Whatever is refused, cut off or interrupted later, the events before it
\* are read as they were written and in their order, and nothing is read
\* that was not written unless something was torn.
EventsInOrder ==
    /\ \A k \in 1..Least(Len(got), Len(sent)) : got[k] = sent[k]
    /\ Len(got) > Len(sent) => torn # "no"

\* An archive whose every call succeeded is never reported broken, also not
\* after a call of the reader was given up before its first byte; and its
\* end is seen only behind its last event.
EndExact ==
    torn = "no" /\ ~lost => /\ res \notin {"eof", "invalid"}
                            /\ res = "none" => got = sent

\* An archive that ends inside an event, or inside its header, is reported as
\* broken before its end is, also after a call that was interrupted before its
\* first byte.
CutReported == torn = "end" /\ ~lost /\ res = "none" => warned

\* A Reader that has found the archive invalid never reads from it again, and
\* takes no later bytes for events.
InvalidFinal == [][res = "invalid" => res' = "invalid" /\ UNCHANGED got]_vars

\* Whatever was written, a loop over the events of a closed stream comes to
\* its end, or to an error.
ReaderEnds == wst = "closed" ~> res \in {"none", "eof", "invalid"}
=============================================================================
