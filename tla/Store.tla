-------------------------------- MODULE Store --------------------------------
(***************************************************************************)
(* The content store of crates/daemon/src/store.rs: the table of           *)
(* reference-counted path locks, the files kept under their hash, and the  *)
(* temporary files uploads are written to before they are copied there.    *)
(*                                                                         *)
(* A task is a call of the store's API by a request handler, from its      *)
(* first step until the StoreLock it returned is dropped.  Every await is  *)
(* a point where another task runs, where the caller may drop the future   *)
(* (the client disconnects) and where the process may die.  File operations*)
(* of tokio run on a blocking pool: a copy or an open that was started     *)
(* goes on when its future is dropped.                                     *)
(*                                                                         *)
(* A definition marked "Faulty" is no part of the model: it is the mistake *)
(* the definition after it could make, which the properties must detect.   *)
(***************************************************************************)
EXTENDS Naturals, FiniteSets

CONSTANTS Task,        \* concurrent calls
          Hash,        \* contents, identified with their paths files/<hash>
          Temp,        \* paths temp/<counter>-<pid>-<suffix>
          OutPath,     \* output paths of build specs
          Build,       \* keys of the builds map
          None,        \* no path, or no entry
          Chunks,      \* number of pieces a content is written and copied in
          MaxRetries,  \* MAX_RETRIES of TempFile
          MayCancel,   \* TRUE if clients may disconnect
          MaxCrash     \* bound: how often the process dies

Path == Hash \cup Temp \cup OutPath

ASSUME PathAssumption == /\ None \notin Path \cup Nat
                         /\ Hash \cap Temp = {} /\ Hash \cap OutPath = {}
                         /\ Temp \cap OutPath = {}
ASSUME NoneAssumption == \A S \in SUBSET (1..Chunks) : S # None
ASSUME FiniteAssumption == IsFiniteSet(Task) /\ IsFiniteSet(Build)
ASSUME ChunksAssumption == Chunks \in Nat \ {0}
ASSUME BoundAssumption == MaxRetries \in Nat \ {0} /\ MaxCrash \in Nat
ASSUME CancelAssumption == MayCancel \in BOOLEAN

VARIABLES locks,   \* StoreState::locks: a count per path, None without entry
          builds,  \* StoreState::builds: the guards of each running build
          file,    \* files/<hash> on disk: the pieces it has, None if absent
          temp,    \* the temporary files on disk
          pc,      \* where each task is
          name,    \* the temporary path a task's guard locks, or None
          hash,    \* the store path a task's guard locks, or None
          specs,   \* the paths locked by a start in progress
          want,    \* the content an upload sends
          tries,   \* turns of the TempFile loop
          sent,    \* pieces the handler has passed to write_all_buf
          landed,  \* pieces that reached the temporary file
          flying,  \* whether the last write is still on the blocking pool
          copy,    \* the copy started by the task: its stage and its pieces
          damaged, \* history: contents some copy of which ended short, or was
                   \* cut by a crash, since a copy last truncated the file
          stray,   \* history: temporary files nobody is left to remove
          crashes  \* bound: see MaxCrash

tab  == <<locks, builds>>
disk == <<file, temp>>
own  == <<name, hash, specs>>
up   == <<want, sent, landed, flying>>
hist == <<damaged, stray, crashes>>
vars == <<locks, builds, file, temp, pc, name, hash, specs, want, tries, sent,
          landed, flying, copy, damaged, stray, crashes>>

Content == 1..Chunks

NoCopy == [stage |-> "none", done |-> 0]

Init == /\ locks = [p \in Path |-> None]
        /\ builds = [b \in Build |-> {}]
        /\ file = [h \in Hash |-> None]
        /\ temp = {}
        /\ pc = [t \in Task |-> "idle"]
        /\ name = [t \in Task |-> None]
        /\ hash = [t \in Task |-> None]
        /\ specs = [t \in Task |-> {}]
        /\ want = [t \in Task |-> None]
        /\ tries = [t \in Task |-> 0]
        /\ sent = [t \in Task |-> 0]
        /\ landed = [t \in Task |-> 0]
        /\ flying = [t \in Task |-> FALSE]
        /\ copy = [t \in Task |-> NoCopy]
        /\ damaged = {} /\ stray = {}
        /\ crashes = 0

-----------------------------------------------------------------------------
(* The lock table.  A DashMap entry is exclusive, so each of these is one  *)
(* atomic step; they are written on a table so that they can be composed.  *)

\* increase_lock
Inc(table, p) == [table EXCEPT ![p] = IF @ = None THEN 1 ELSE @ + 1]

\* Faulty: the entry stays in the map when the last guard is gone.
DecKeeping(table, p) ==
    IF p = None THEN table
    ELSE [table EXCEPT ![p] = IF @ = None THEN None ELSE @ - 1]

\* decrease_lock.  Without an entry there is nothing to do ("excess lock
\* free"), and without a guard (None) nothing is dropped.
Dec(table, p) ==
    IF p = None THEN table
    ELSE [table EXCEPT ![p] = IF @ \in {None, 1} THEN None ELSE @ - 1]

\* The guards on each path of a set.
IncAll(table, S) == [p \in Path |-> IF p \in S THEN Inc(table, p)[p] ELSE table[p]]
DecAll(table, S) == [p \in Path |-> IF p \in S THEN Dec(table, p)[p] ELSE table[p]]

\* A call may start a new copy only when the one it left behind is over.
Ready(t) == pc[t] = "idle" /\ copy[t].stage \in {"none", "ok", "failed"}

\* The call is over.  Its copy, if one is running, is not.
Idle(t) == /\ pc' = [pc EXCEPT ![t] = "idle"]
           /\ name' = [name EXCEPT ![t] = None]
           /\ hash' = [hash EXCEPT ![t] = None]
           /\ tries' = [tries EXCEPT ![t] = 0]

\* TempFile::drop removes the file, or fails to, which nobody is told.
Removed(t) == \/ temp' = temp \ {name[t]} /\ UNCHANGED stray
              \/ stray' = stray \cup {name[t]} /\ UNCHANGED temp

-----------------------------------------------------------------------------
(* get_file *)

\* The lock comes first, then the open.
GetLock(t, h) ==
    /\ Ready(t)
    /\ locks' = Inc(locks, h)
    /\ hash' = [hash EXCEPT ![t] = h]
    /\ pc' = [pc EXCEPT ![t] = "get_open"]
    /\ UNCHANGED <<builds, disk, name, specs, up, tries, copy, hist>>

GetFound(t) ==
    /\ pc[t] = "get_open" /\ file[hash[t]] # None
    /\ pc' = [pc EXCEPT ![t] = "holding"]
    /\ UNCHANGED <<tab, disk, own, up, tries, copy, hist>>

GetMissing(t) ==
    /\ pc[t] = "get_open" /\ file[hash[t]] = None
    /\ locks' = Dec(locks, hash[t])
    /\ Idle(t)
    /\ UNCHANGED <<builds, disk, specs, up, copy, hist>>

\* The StoreLock is dropped: the file is closed, then the lock released.
Release(t) ==
    /\ pc[t] = "holding"
    /\ locks' = Dec(locks, hash[t])
    /\ Idle(t)
    /\ UNCHANGED <<builds, disk, specs, up, copy, hist>>

-----------------------------------------------------------------------------
(* create_file: PendingFile::new over TempFile::new_with_side_effect_in *)

\* A name is chosen and locked before the file is created; storing the new
\* guard drops the one of the previous turn.  COUNTER makes the names of the
\* calls in progress differ.
TempName(t, n, h) ==
    /\ \/ Ready(t) /\ want' = [want EXCEPT ![t] = h]
       \/ pc[t] = "temp_retry" /\ h = want[t] /\ UNCHANGED want
    /\ \A u \in Task : name[u] # n
    /\ locks' = Dec(Inc(locks, n), name[t])
    /\ name' = [name EXCEPT ![t] = n]
    /\ pc' = [pc EXCEPT ![t] = "temp_open"]
    /\ copy' = [copy EXCEPT ![t] = NoCopy]
    /\ UNCHANGED <<builds, disk, hash, specs, tries, sent, landed, flying, hist>>

TempCreate(t) ==
    /\ pc[t] = "temp_open" /\ name[t] \notin temp
    /\ temp' = temp \cup {name[t]}
    /\ pc' = [pc EXCEPT ![t] = "writing"]
    /\ sent' = [sent EXCEPT ![t] = 0]
    /\ landed' = [landed EXCEPT ![t] = 0]
    /\ flying' = [flying EXCEPT ![t] = FALSE]
    /\ UNCHANGED <<tab, file, own, want, tries, copy, hist>>

\* Faulty: one turn too many.
TempRetryOneMore(t) ==
    /\ pc[t] = "temp_open" /\ name[t] \in temp
    /\ tries[t] < MaxRetries
    /\ tries' = [tries EXCEPT ![t] = @ + 1]
    /\ pc' = [pc EXCEPT ![t] = "temp_retry"]
    /\ UNCHANGED <<tab, disk, own, up, copy, hist>>

\* AlreadyExists: another turn, if one is left.
TempRetry(t) ==
    /\ pc[t] = "temp_open" /\ name[t] \in temp
    /\ tries[t] + 1 < MaxRetries
    /\ tries' = [tries EXCEPT ![t] = @ + 1]
    /\ pc' = [pc EXCEPT ![t] = "temp_retry"]
    /\ UNCHANGED <<tab, disk, own, up, copy, hist>>

TempExhausted(t) ==
    /\ pc[t] = "temp_open" /\ name[t] \in temp
    /\ tries[t] + 1 = MaxRetries
    /\ locks' = Dec(locks, name[t])
    /\ Idle(t)
    /\ UNCHANGED <<builds, disk, specs, up, copy, hist>>

-----------------------------------------------------------------------------
(* Writing a PendingFile.  tokio's File returns from a write once the data *)
(* is handed to the blocking pool; the next write waits for it, and reports *)
(* its error.                                                              *)

Write(t) ==
    /\ pc[t] = "writing" /\ sent[t] < Chunks
    /\ ~flying[t] /\ landed[t] = sent[t]
    /\ sent' = [sent EXCEPT ![t] = @ + 1]
    /\ flying' = [flying EXCEPT ![t] = TRUE]
    /\ UNCHANGED <<tab, disk, pc, own, want, tries, landed, copy, hist>>

Land(t) ==
    /\ flying[t]
    /\ \E ok \in {0, 1} : landed' = [landed EXCEPT ![t] = @ + ok]
    /\ flying' = [flying EXCEPT ![t] = FALSE]
    /\ UNCHANGED <<tab, disk, pc, own, want, tries, sent, copy, hist>>

\* Faulty: the temporary file is forgotten instead of removed.
AbandonKeeping(t) ==
    /\ pc[t] = "writing"
    /\ locks' = Dec(locks, name[t])
    /\ Idle(t)
    /\ UNCHANGED <<builds, disk, specs, up, copy, hist>>

\* The PendingFile is dropped: the request body or the write failed.  The
\* temporary file is removed, then closed, then unlocked.
Abandon(t) ==
    /\ pc[t] = "writing"
    /\ Removed(t)
    /\ locks' = Dec(locks, name[t])
    /\ Idle(t)
    /\ UNCHANGED <<builds, file, specs, up, copy, damaged, crashes>>

-----------------------------------------------------------------------------
(* PendingFile::complete, tokio::fs::copy and the open that follows it *)

\* The whole body was passed to write_all_buf; nothing waits for the last
\* write to reach the file.
Complete(t) ==
    /\ pc[t] = "writing" /\ sent[t] = Chunks
    /\ locks' = Inc(locks, want[t])
    /\ hash' = [hash EXCEPT ![t] = want[t]]
    /\ pc' = [pc EXCEPT ![t] = "copying"]
    /\ copy' = [copy EXCEPT ![t] = [NoCopy EXCEPT !.stage = "queued"]]
    /\ UNCHANGED <<builds, disk, name, specs, up, tries, hist>>

\* The copy opens its source, which is gone if the call was dropped before ...
CopySource(t) ==
    /\ copy[t].stage = "queued"
    /\ \E s \in IF pc[t] = "copying" THEN {"source"} ELSE {"source", "failed"} :
           copy' = [copy EXCEPT ![t].stage = s]
    /\ UNCHANGED <<tab, disk, pc, own, up, tries, hist>>

\* ... creates or truncates its destination in place ...
CopyTruncate(t) ==
    /\ copy[t].stage = "source"
    /\ file' = [file EXCEPT ![want[t]] = {}]
    /\ copy' = [copy EXCEPT ![t].stage = "open"]
    /\ damaged' = damaged \ {want[t]}
    /\ UNCHANGED <<tab, temp, pc, own, up, tries, stray, crashes>>

\* Faulty: every piece is written at the end of the file.
CopyPieceAppending(t) ==
    /\ copy[t].stage = "open" /\ copy[t].done < landed[t]
    /\ file' = [file EXCEPT ![want[t]] =
                   IF Cardinality(@) < Chunks THEN 1..(Cardinality(@) + 1) ELSE {}]
    /\ copy' = [copy EXCEPT ![t].done = @ + 1]
    /\ UNCHANGED <<tab, temp, pc, own, up, tries, hist>>

\* ... writes each piece the source has by now at its own offset ...
CopyPiece(t) ==
    /\ copy[t].stage = "open" /\ copy[t].done < landed[t]
    /\ file' = [file EXCEPT ![want[t]] = @ \cup {copy[t].done + 1}]
    /\ copy' = [copy EXCEPT ![t].done = @ + 1]
    /\ UNCHANGED <<tab, temp, pc, own, up, tries, hist>>

\* ... and succeeds at the end of the source, however short that is.
CopyEnd(t) ==
    /\ copy[t].stage = "open" /\ copy[t].done = landed[t]
    /\ copy' = [copy EXCEPT ![t].stage = "ok"]
    /\ damaged' = IF landed[t] < Chunks THEN damaged \cup {want[t]} ELSE damaged
    /\ UNCHANGED <<tab, disk, pc, own, up, tries, stray, crashes>>

\* An I/O error leaves what was written so far.
CopyError(t) ==
    /\ copy[t].stage \in {"source", "open"}
    /\ copy' = [copy EXCEPT ![t].stage = "failed"]
    /\ damaged' = IF copy[t].stage = "open" THEN damaged \cup {want[t]} ELSE damaged
    /\ UNCHANGED <<tab, disk, pc, own, up, tries, stray, crashes>>

\* complete opens the stored file, returns its StoreLock, and drops the
\* PendingFile.
Stored(t) ==
    /\ pc[t] = "copying" /\ copy[t].stage = "ok"
    /\ pc' = [pc EXCEPT ![t] = "holding"]
    /\ Removed(t)
    /\ locks' = Dec(locks, name[t])
    /\ name' = [name EXCEPT ![t] = None]
    /\ tries' = [tries EXCEPT ![t] = 0]
    /\ UNCHANGED <<builds, file, hash, specs, up, copy, damaged, crashes>>

\* The copy or that open failed.
NotStored(t) ==
    /\ pc[t] = "copying" /\ copy[t].stage \in {"ok", "failed"}
    /\ locks' = Dec(Dec(locks, hash[t]), name[t])
    /\ Removed(t)
    /\ Idle(t)
    /\ UNCHANGED <<builds, file, specs, up, copy, damaged, crashes>>

-----------------------------------------------------------------------------
(* start: the output path is locked, the spec written, the dependencies    *)
(* locked, the sandbox spawned; the guards then live in the builds map,    *)
(* which nothing removes from.                                             *)

StartLock(t, p) ==
    /\ Ready(t)
    /\ locks' = Inc(locks, p)
    /\ specs' = [specs EXCEPT ![t] = {p}]
    /\ pc' = [pc EXCEPT ![t] = "start_write"]
    /\ UNCHANGED <<builds, disk, name, hash, up, tries, copy, hist>>

\* The dependencies are locked without an await in between, then comes the
\* spawn.
StartDeps(t, deps) ==
    /\ pc[t] = "start_write"
    /\ locks' = IncAll(locks, deps)
    /\ specs' = [specs EXCEPT ![t] = @ \cup deps]
    /\ pc' = [pc EXCEPT ![t] = "start_spawn"]
    /\ UNCHANGED <<builds, disk, name, hash, up, tries, copy, hist>>

\* The spec could not be written, or the sandbox not spawned.
StartFail(t) ==
    /\ pc[t] \in {"start_write", "start_spawn"}
    /\ locks' = DecAll(locks, specs[t])
    /\ specs' = [specs EXCEPT ![t] = {}]
    /\ Idle(t)
    /\ UNCHANGED <<builds, disk, up, copy, hist>>

\* counter.fetch_add gives every build its own key.
Started(t) ==
    /\ pc[t] = "start_spawn"
    /\ \E b \in Build : /\ builds[b] = {}
                        /\ builds' = [builds EXCEPT ![b] = specs[t]]
    /\ specs' = [specs EXCEPT ![t] = {}]
    /\ Idle(t)
    /\ UNCHANGED <<locks, disk, up, copy, hist>>

-----------------------------------------------------------------------------
(* The environment: dropped futures and crashes *)

\* The handler's future is dropped at an await; its guards and its temporary
\* file go, the blocking operation under way does not.  An open that creates
\* the temporary file may happen after nobody is left to remove it.
Cancel(t) ==
    /\ MayCancel
    /\ pc[t] \notin {"idle", "holding"}
    /\ locks' = DecAll(Dec(Dec(locks, hash[t]), name[t]), specs[t])
    /\ \/ /\ pc[t] = "temp_open"
          /\ temp' = temp \cup {name[t]} /\ stray' = stray \cup {name[t]}
       \/ pc[t] \in {"writing", "copying"} /\ Removed(t)
       \/ pc[t] \notin {"writing", "copying"} /\ UNCHANGED <<temp, stray>>
    /\ specs' = [specs EXCEPT ![t] = {}]
    /\ Idle(t)
    /\ UNCHANGED <<builds, file, up, copy, damaged, crashes>>

\* The process dies: memory is lost, the disk is not.
Crash ==
    /\ crashes < MaxCrash
    /\ crashes' = crashes + 1
    /\ damaged' = damaged \cup
           {want[t] : t \in {u \in Task : copy[u].stage = "open"}}
    /\ stray' = temp
    /\ locks' = [p \in Path |-> None]
    /\ builds' = [b \in Build |-> {}]
    /\ pc' = [t \in Task |-> "idle"]
    /\ name' = [t \in Task |-> None]
    /\ hash' = [t \in Task |-> None]
    /\ specs' = [t \in Task |-> {}]
    /\ want' = [t \in Task |-> None]
    /\ tries' = [t \in Task |-> 0]
    /\ sent' = [t \in Task |-> 0]
    /\ landed' = [t \in Task |-> 0]
    /\ flying' = [t \in Task |-> FALSE]
    /\ copy' = [t \in Task |-> NoCopy]
    /\ UNCHANGED disk

Next == \/ \E t \in Task :
              \/ \E h \in Hash : GetLock(t, h)
              \/ \E n \in Temp, h \in Hash : TempName(t, n, h)
              \/ \E p \in OutPath : StartLock(t, p)
              \/ \E deps \in SUBSET Hash : StartDeps(t, deps)
              \/ GetFound(t) \/ GetMissing(t) \/ Release(t)
              \/ TempCreate(t) \/ TempRetry(t) \/ TempExhausted(t)
              \/ Write(t) \/ Land(t) \/ Abandon(t) \/ Complete(t)
              \/ CopySource(t) \/ CopyTruncate(t) \/ CopyPiece(t)
              \/ CopyEnd(t) \/ CopyError(t) \/ Stored(t) \/ NotStored(t)
              \/ StartFail(t) \/ Started(t) \/ Cancel(t)
        \/ Crash

Spec == Init /\ [][Next]_vars

-----------------------------------------------------------------------------
(* Properties *)

Uploading == {"temp_open", "temp_retry", "writing", "copying"}
Getting   == {"get_open", "holding"}
Starting  == {"start_write", "start_spawn"}

\* Which guards a task owns follows from where it is.
PcOK(t) ==
    /\ name[t] # None <=> pc[t] \in Uploading
    /\ hash[t] # None <=> pc[t] \in Getting \cup {"copying"}
    /\ specs[t] # {} <=> pc[t] \in Starting

Types  == /\ locks \in [Path -> (Nat \ {0}) \cup {None}]
          /\ builds \in [Build -> SUBSET Path]
          /\ file \in [Hash -> (SUBSET Content) \cup {None}]
          /\ temp \subseteq Temp
          /\ pc \in [Task -> {"idle"} \cup Uploading \cup Getting \cup Starting]
          /\ name \in [Task -> Temp \cup {None}]
          /\ hash \in [Task -> Hash \cup {None}]
          /\ specs \in [Task -> SUBSET Path]
          /\ want \in [Task -> Hash \cup {None}]
          /\ tries \in [Task -> 0..(MaxRetries - 1)]
          /\ sent \in [Task -> 0..Chunks] /\ landed \in [Task -> 0..Chunks]
          /\ flying \in [Task -> BOOLEAN]
          /\ copy \in [Task -> [stage : {"none", "queued", "source", "open",
                                         "ok", "failed"},
                               done : 0..Chunks]]
          /\ damaged \subseteq Hash /\ stray \subseteq Temp
          /\ crashes \in 0..MaxCrash

\* Types, and the guards of each task.
TypeOK == Types /\ \A t \in Task : PcOK(t)

\* The DecrementLock guards alive on a path, in tasks and in running builds.
Guards(p) == {<<"temp", t>> : t \in {u \in Task : name[u] = p}}
        \cup {<<"file", t>> : t \in {u \in Task : hash[u] = p}}
        \cup {<<"spec", t>> : t \in {u \in Task : p \in specs[u]}}
        \cup {<<"build", b>> : b \in {c \in Build : p \in builds[c]}}

\* The table counts the live guards of every path exactly, and has an entry
\* for a path only while there is one: no early release while another holder
\* is left, no entry that outlives its holders, on every error path, retry and
\* cancellation.  "excess lock free" is never logged.
LocksExact ==
    \A p \in Path : IF Guards(p) = {} THEN locks[p] = None
                    ELSE locks[p] = Cardinality(Guards(p))

\* Uploads of one content through several builds copy over each other, each
\* truncating what the other wrote.  Still, once the copies are over, the stored
\* file is complete, unless one of them ended short or was cut by a crash after
\* the last truncation: the next full copy repairs what such a copy has left.
CopiesConverge ==
    \A h \in Hash :
        \/ file[h] \in {None, Content}
        \/ h \in damaged
        \/ \E t \in Task : want[t] = h /\ copy[t].stage = "open"

\* A temporary file exists exactly while there is a PendingFile to remove it:
\* every error path tries to, and none removes a file another call, or an
\* earlier process, created.  Left behind are those of a dead process, of an
\* open whose caller had gone, and those that could not be removed.
TempExact ==
    temp = stray \cup {name[t] :
                       t \in {u \in Task : pc[u] \in {"writing", "copying"}}}

\* Whoever got a stored file ("file already cached", or after the upload:
\* "Writes the file into the store") has the whole content of its hash.
HeldComplete ==
    \A t \in Task : pc[t] = "holding" => file[hash[t]] = Content
=============================================================================
