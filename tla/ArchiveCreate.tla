--------------------------- MODULE ArchiveCreate ---------------------------
(***************************************************************************)
(* `nck archive create` (crates/cli/src/archive/create.rs).  The command   *)
(* walks the files it was given breadth first.  It sends what is a file    *)
(* through a bounded channel to a writer task, which puts the blobs into   *)
(* the archive, and the entries of everything else through an unbounded    *)
(* channel to itself, where the task adds those of the files.  When the    *)
(* task is done the command writes the entries behind the blobs.           *)
(*                                                                         *)
(* A path is a number, a directory's is less than its children's, and the  *)
(* sorted order is that of the numbers.                                    *)
(*                                                                         *)
(* A definition marked "Faulty" is no part of the model: it is the mistake *)
(* the definition after it could make, which the properties must detect.   *)
(***************************************************************************)
EXTENDS Integers, FiniteSets, Sequences

CONSTANTS N,    \* bound: paths on the disk
          Cap,  \* messages the data channel holds (20)
          None  \* no file at hand

ASSUME NAssumption == N \in Nat \ {0}
ASSUME CapAssumption == Cap \in Nat \ {0}
ASSUME NoneAssumption == None \notin 1..N

Paths == 1..N

VARIABLES kind,     \* what a path is
          parent,   \* the directory it is in; 0 outside
          args,     \* the paths on the command line
          mpc,      \* where the command is
          files,    \* the paths to visit
          cur,      \* the file it is sending
          data,     \* the data channel
          sending,  \* whether the command holds data_send and entry_send
          entries,  \* the entry channel
          tpc,      \* where the writer task is
          job,      \* the file it is writing
          out,      \* blobs and entries written into the BufWriter
          flushed   \* how many of them have reached the file

disk == <<kind, parent, args>>
vars == <<kind, parent, args, mpc, files, cur, data, sending, entries, tpc, job,
          out, flushed>>

Sorted(S) == CHOOSE s \in [1..Cardinality(S) -> S] :
                 \A i, j \in 1..Cardinality(S) : i < j => s[i] < s[j]

\* Any forest, and any of its paths on the command line.
Init == /\ kind \in [Paths -> {"dir", "file", "link", "other"}]
        /\ parent \in [Paths -> 0..N]
        /\ \A p \in Paths : /\ parent[p] < p
                            /\ parent[p] # 0 => kind[parent[p]] = "dir"
        /\ args \in SUBSET Paths
        /\ mpc = "walk" /\ files = Sorted(args) /\ cur = None
        /\ data = <<>> /\ sending = TRUE /\ entries = <<>>
        /\ tpc = "recv" /\ job = None
        /\ out = <<>> /\ flushed = 0

\* A record goes into the buffer.  If that was too full, what was in it goes to
\* the file first, and so does a record larger than the buffer.
Emit(record) == /\ out' = Append(out, record)
                /\ flushed' \in {flushed, Len(out), Len(out) + 1}

-----------------------------------------------------------------------------
(* The command *)

\* The next path, after its symlink_metadata; a directory is listed and its
\* sorted children go to the end of the queue, a link is read, a file opened.
Visit ==
    /\ mpc = "walk" /\ files # <<>>
    /\ LET p == Head(files)
           nested == Sorted({c \in Paths : parent[c] = p})
       IN /\ files' = IF kind[p] = "dir" THEN Tail(files) \o nested ELSE Tail(files)
          /\ entries' = IF kind[p] \in {"dir", "link"} THEN Append(entries, p)
                        ELSE entries
          /\ IF kind[p] = "file" THEN mpc' = "send" /\ cur' = p
             ELSE UNCHANGED <<mpc, cur>>
    /\ UNCHANGED <<disk, data, sending, tpc, job, out, flushed>>

\* A system call of it fails and the command returns the error, which drops
\* its ends of the channels.
Fail == /\ mpc' = "failed" /\ sending' = FALSE
        /\ UNCHANGED <<disk, files, cur, data, entries, tpc, job, out, flushed>>

VisitFail == mpc = "walk" /\ files # <<>> /\ Fail

Receiving == tpc \notin {"ended", "failed"}

\* Faulty: try_send, and a full channel is passed over.
SendTrying ==
    /\ mpc = "send" /\ Receiving
    /\ data' = IF Len(data) < Cap THEN Append(data, cur) ELSE data
    /\ mpc' = "walk" /\ cur' = None
    /\ UNCHANGED <<disk, files, sending, entries, tpc, job, out, flushed>>

\* Faulty: the channel has no bound.
SendUnbounded ==
    /\ mpc = "send" /\ Receiving
    /\ data' = Append(data, cur)
    /\ mpc' = "walk" /\ cur' = None
    /\ UNCHANGED <<disk, files, sending, entries, tpc, job, out, flushed>>

\* data_send.send waits for room,
Send ==
    /\ mpc = "send" /\ Receiving /\ Len(data) < Cap
    /\ data' = Append(data, cur)
    /\ mpc' = "walk" /\ cur' = None
    /\ UNCHANGED <<disk, files, sending, entries, tpc, job, out, flushed>>

\* and fails when the task has ended, which stops the walk.
SendClosed ==
    /\ mpc = "send" /\ ~Receiving
    /\ mpc' = "walk" /\ cur' = None /\ files' = <<>>
    /\ UNCHANGED <<disk, data, sending, entries, tpc, job, out, flushed>>

\* Faulty: the senders live until the end of the function.
EndWalkSending ==
    /\ mpc = "walk" /\ files = <<>>
    /\ mpc' = "join"
    /\ UNCHANGED <<disk, files, cur, data, sending, entries, tpc, job, out, flushed>>

EndWalk ==
    /\ mpc = "walk" /\ files = <<>>
    /\ mpc' = "join" /\ sending' = FALSE
    /\ UNCHANGED <<disk, files, cur, data, entries, tpc, job, out, flushed>>

\* Faulty: the task's own error is not looked at.
JoinAny ==
    /\ mpc = "join" /\ ~Receiving
    /\ mpc' = "write"
    /\ UNCHANGED <<disk, files, cur, data, sending, entries, tpc, job, out, flushed>>

\* writer_task.await??
Join ==
    /\ mpc = "join" /\ ~Receiving
    /\ mpc' = IF tpc = "ended" THEN "write" ELSE "failed"
    /\ UNCHANGED <<disk, files, cur, data, sending, entries, tpc, job, out, flushed>>

WriteEntry ==
    /\ mpc = "write" /\ entries # <<>>
    /\ Emit(<<"entry", Head(entries)>>)
    /\ entries' = Tail(entries)
    /\ UNCHANGED <<disk, mpc, files, cur, data, sending, tpc, job>>

WriteFail == mpc = "write" /\ entries # <<>> /\ Fail

\* The BufWriter is dropped with what it still holds.
Return ==
    /\ mpc = "write" /\ entries = <<>>
    /\ mpc' = "done"
    /\ UNCHANGED <<disk, files, cur, data, sending, entries, tpc, job, out, flushed>>

MainStep == \/ Visit \/ VisitFail \/ Send \/ SendClosed \/ EndWalk
            \/ Join \/ WriteEntry \/ WriteFail \/ Return

-----------------------------------------------------------------------------
(* The writer task *)

TaskRecv ==
    /\ tpc = "recv" /\ data # <<>>
    /\ tpc' = "copy" /\ job' = Head(data) /\ data' = Tail(data)
    /\ UNCHANGED <<disk, mpc, files, cur, sending, entries, out, flushed>>

TaskEnd ==
    /\ tpc = "recv" /\ data = <<>> /\ ~sending
    /\ tpc' = "ended"
    /\ UNCHANGED <<disk, mpc, files, cur, data, sending, entries, job, out, flushed>>

\* The blob of the file, from write_data_async to finish_async.
TaskCopy ==
    /\ tpc = "copy"
    /\ Emit(<<"blob", job>>)
    /\ tpc' = "send"
    /\ UNCHANGED <<disk, mpc, files, cur, data, sending, entries, job>>

\* A read or write fails: the receiver goes away with the files in it.
TaskFail ==
    /\ tpc = "copy"
    /\ tpc' = "failed" /\ data' = <<>> /\ job' = None
    /\ UNCHANGED <<disk, mpc, files, cur, sending, entries, out, flushed>>

\* Faulty: the entry is written straight behind the blob.
TaskSendDirect ==
    /\ tpc = "send"
    /\ tpc' = "recv" /\ job' = None
    /\ Emit(<<"entry", job>>)
    /\ UNCHANGED <<disk, mpc, files, cur, data, sending, entries>>

\* The entry goes to the command, unless that has returned.
TaskSend ==
    /\ tpc = "send"
    /\ job' = None
    /\ IF mpc = "failed"
       THEN tpc' = "ended" /\ data' = <<>> /\ UNCHANGED entries
       ELSE tpc' = "recv" /\ entries' = Append(entries, job) /\ UNCHANGED data
    /\ UNCHANGED <<disk, mpc, files, cur, sending, out, flushed>>

TaskStep == TaskRecv \/ TaskEnd \/ TaskCopy \/ TaskFail \/ TaskSend

-----------------------------------------------------------------------------

Done == mpc \in {"done", "failed"} /\ ~Receiving /\ UNCHANGED vars

Next == MainStep \/ TaskStep \/ Done

Spec == Init /\ [][Next]_vars

\* Both tasks are run by the runtime whenever they are woken.
FairSpec == Spec /\ WF_vars(MainStep) /\ WF_vars(TaskStep)

-----------------------------------------------------------------------------
(* Properties *)

\* Types; the data channel keeps its bound.
TypeOK ==
    /\ mpc \in {"walk", "send", "join", "write", "done", "failed"}
    /\ tpc \in {"recv", "copy", "send", "ended", "failed"}
    /\ files \in Seq(Paths) /\ entries \in Seq(Paths)
    /\ data \in Seq(Paths) /\ Len(data) <= Cap
    /\ cur \in Paths \cup {None} /\ job \in Paths \cup {None}
    /\ sending \in BOOLEAN
    /\ out \in Seq({"blob", "entry"} \X Paths) /\ flushed \in 0..Len(out)

\* A path and the directories it is in.
Above(p) == LET up[q \in Paths] ==
                  {q} \cup IF parent[q] = 0 THEN {} ELSE up[parent[q]]
            IN up[p]

Places(what, p) == {i \in DOMAIN out : out[i] = <<what, p>>}

\* When the command succeeds, every file, directory and link has been archived
\* once for each argument it is under, and every file with as many blobs: no
\* message is lost between two tasks and two channels.
Complete ==
    mpc = "done" => \A p \in Paths :
        LET times == Cardinality(args \cap Above(p))
        IN /\ Cardinality(Places("entry", p)) = IF kind[p] = "other" THEN 0 ELSE times
           /\ Cardinality(Places("blob", p)) = IF kind[p] = "file" THEN times ELSE 0

\* Unless one argument is under another, the entry of a directory comes before
\* the entries of what is in it, whatever the order in which the walk and the
\* writer task send them.
ParentsFirst ==
    (\A p \in args : args \cap Above(p) = {p}) =>
        \A p \in Paths : parent[p] # 0 =>
            \A i \in Places("entry", p), j \in Places("entry", parent[p]) : j < i

\* An error of the writer task is the command's error, also when the walk
\* ended before the task noticed.
FailureReported == mpc = "done" => tpc = "ended"

\* The command returns: neither a full channel nor a task that failed, or waits
\* for more files, keeps it.
Returns == <>(mpc \in {"done", "failed"})

\* "Creates a nck archive.", "Writes an entry to the output stream.": when the
\* command succeeds all it wrote is in the file.
AllFlushed == mpc = "done" => flushed = Len(out)
=============================================================================
