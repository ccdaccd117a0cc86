----------------------------- MODULE StoreProofs -----------------------------
(***************************************************************************)
(* Proofs about Store for any number of calls, contents, paths, builds,    *)
(* retries and crashes.                                                    *)
(***************************************************************************)
EXTENDS Store, FiniteSetTheorems, TLAPS

\* What the types do not say about the variables of one call.
Shape(t) ==
    /\ pc[t] = "start_write" => specs[t] \subseteq OutPath
    /\ specs[t] \cap Temp = {}
    /\ pc[t] \in Uploading => want[t] \in Hash
    /\ copy[t].stage # "none" => want[t] \in Hash
    /\ copy[t].stage = "open" => file[want[t]] \in SUBSET Content
    /\ landed[t] <= sent[t]
    /\ flying[t] => landed[t] < sent[t]

TInv == TypeOK /\ \A t \in Task : Shape(t)

-----------------------------------------------------------------------------
(* The operations of the lock table *)

Table == [Path -> (Nat \ {0}) \cup {None}]

LEMMA IncType ==
    ASSUME NEW table \in Table, NEW p \in Path
    PROVE  /\ Inc(table, p) \in Table
           /\ \A q \in Path : Inc(table, p)[q] =
                 IF q # p THEN table[q]
                 ELSE IF table[q] = None THEN 1 ELSE table[q] + 1
  BY DEF Inc, Table

LEMMA DecType ==
    ASSUME NEW table \in Table, NEW p \in Path \cup {None}
    PROVE  /\ Dec(table, p) \in Table
           /\ \A q \in Path : Dec(table, p)[q] =
                 IF q # p THEN table[q]
                 ELSE IF table[q] \in {None, 1} THEN None ELSE table[q] - 1
  BY PathAssumption DEF Dec, Table

LEMMA AllType ==
    ASSUME NEW table \in Table, NEW S
    PROVE  /\ IncAll(table, S) \in Table /\ DecAll(table, S) \in Table
           /\ \A q \in Path : IncAll(table, S)[q] =
                 IF q \notin S THEN table[q]
                 ELSE IF table[q] = None THEN 1 ELSE table[q] + 1
           /\ \A q \in Path : DecAll(table, S)[q] =
                 IF q \notin S THEN table[q]
                 ELSE IF table[q] \in {None, 1} THEN None ELSE table[q] - 1
  <1>1. \A q \in Path : /\ Inc(table, q)[q] \in (Nat \ {0}) \cup {None}
                        /\ Dec(table, q)[q] \in (Nat \ {0}) \cup {None}
    BY IncType, DecType DEF Table
  <1> QED
    BY <1>1, IncType, DecType DEF IncAll, DecAll, Table

-----------------------------------------------------------------------------
(* Types *)

Local(t) == PcOK(t) /\ Shape(t)

\* Where a call is, and the guards of one path each that it owns.
Where == /\ pc \in [Task -> {"idle"} \cup Uploading \cup Getting \cup Starting]
         /\ name \in [Task -> Temp \cup {None}]
         /\ hash \in [Task -> Hash \cup {None}]
         /\ tries \in [Task -> 0..(MaxRetries - 1)]

\* The other parts of Types, by who changes them.
Kept == /\ builds \in [Build -> SUBSET Path]
        /\ temp \subseteq Temp
        /\ want \in [Task -> Hash \cup {None}]
        /\ landed \in [Task -> 0..Chunks]
        /\ damaged \subseteq Hash /\ stray \subseteq Temp
        /\ crashes \in 0..MaxCrash
Disk == file \in [Hash -> (SUBSET Content) \cup {None}]
Sent == sent \in [Task -> 0..Chunks] /\ flying \in [Task -> BOOLEAN]
Copy == copy \in [Task -> [stage : {"none", "queued", "source", "open", "ok",
                                   "failed"}, done : 0..Chunks]]

LEMMA Parts ==
    Types <=> /\ locks \in Table /\ specs \in [Task -> SUBSET Path]
              /\ Where /\ Kept /\ Disk /\ Sent /\ Copy
  BY DEF Types, Table, Where, Kept, Disk, Sent, Copy

LEMMA KeptKept ==
    Kept /\ UNCHANGED <<builds, temp, want, landed, hist>> => Kept'
  BY DEF Kept, hist

LEMMA DiskKept == Disk /\ UNCHANGED file => Disk'
  BY DEF Disk

LEMMA SentKept == Sent /\ UNCHANGED <<sent, flying>> => Sent'
  BY DEF Sent

LEMMA CopyKept == Copy /\ UNCHANGED copy => Copy'
  BY DEF Copy

LEMMA IdleWhere ==
    ASSUME Types, NEW t \in Task, Idle(t)
    PROVE  Where'
  BY BoundAssumption DEF Types, Where, Idle

LEMMA MoveWhere ==
    ASSUME Types, NEW t \in Task,
           NEW p \in Uploading \cup Getting \cup Starting,
           pc' = [pc EXCEPT ![t] = p]
    PROVE  pc' \in [Task -> {"idle"} \cup Uploading \cup Getting
                              \cup Starting]
  BY DEF Types

\* What a call that ends owns: nothing.
LEMMA IdleLocal ==
    ASSUME Types, NEW t \in Task, Local(t), Idle(t), specs'[t] = {},
           UNCHANGED <<up, copy, file>>
    PROVE  Local(t)'
  <1>1. pc'[t] = "idle" /\ name'[t] = None /\ hash'[t] = None
    BY DEF Types, Idle
  <1>2. PcOK(t)'
    BY <1>1 DEF PcOK, Uploading, Getting, Starting
  <1>3. Shape(t)'
    BY <1>1 DEF Shape, Local, up, Uploading
  <1> QED
    BY <1>2, <1>3 DEF Local

LEMMA TInit == Init => TInv
  <1> SUFFICES ASSUME Init PROVE TInv
    OBVIOUS
  <1>1. Types
    <2>1. copy \in [Task -> [stage : {"none", "queued", "source", "open", "ok",
                                     "failed"}, done : 0..Chunks]]
      BY ChunksAssumption DEF Init, NoCopy
    <2>2. /\ locks \in Table
          /\ builds \in [Build -> SUBSET Path]
          /\ specs \in [Task -> SUBSET Path]
      <3>1. builds \in [Build -> SUBSET Path] /\ specs \in [Task -> SUBSET Path]
        BY DEF Init
      <3>2. locks \in Table
        BY DEF Init, Table
      <3> QED
        BY <3>1, <3>2
    <2>5. file \in [Hash -> (SUBSET Content) \cup {None}]
      BY DEF Init
    <2>3. /\ tries \in [Task -> 0..(MaxRetries - 1)]
          /\ sent \in [Task -> 0..Chunks] /\ landed \in [Task -> 0..Chunks]
          /\ crashes \in 0..MaxCrash
      BY ChunksAssumption, BoundAssumption DEF Init
    <2>4. /\ pc \in [Task -> {"idle"} \cup Uploading \cup Getting \cup Starting]
          /\ name \in [Task -> Temp \cup {None}]
          /\ hash \in [Task -> Hash \cup {None}]
          /\ want \in [Task -> Hash \cup {None}]
          /\ flying \in [Task -> BOOLEAN]
          /\ temp \subseteq Temp /\ stray \subseteq Temp
          /\ damaged \subseteq Hash
      BY DEF Init
    <2> QED
      BY <2>1, <2>2, <2>3, <2>4, <2>5 DEF Types, Table
  <1>2. \A t \in Task : Local(t)
    BY DEF Init, Local, PcOK, Shape, NoCopy, Uploading, Getting, Starting
  <1> QED
    BY <1>1, <1>2 DEF TInv, TypeOK, Local

LEMMA RemovedType ==
    ASSUME NEW t \in Task, Types, Local(t), pc[t] \in Uploading, Removed(t)
    PROVE  temp' \subseteq Temp /\ stray' \subseteq Temp
  <1>1. name[t] \in Temp
    BY DEF Types, Local, PcOK
  <1> QED
    BY <1>1 DEF Types, Removed

LEMMA TStep == TInv /\ [Next]_vars => TInv'
  <1> SUFFICES ASSUME TInv, [Next]_vars PROVE TInv'
    OBVIOUS
  <1> USE PathAssumption, ChunksAssumption, BoundAssumption
  <1> USE DEF tab, disk, own, up, hist, Idle
  <1>a. Types /\ \A t \in Task : Local(t)
    BY DEF TInv, TypeOK, Local
  <1>c. locks \in Table
    BY <1>a DEF Types, Table
  <1>b. Types' /\ (\A t \in Task : Local(t)') => TInv'
    BY DEF TInv, TypeOK, Local
  <1>d. /\ locks' \in Table /\ specs' \in [Task -> SUBSET Path]
        /\ Where' /\ Kept' /\ Disk' /\ Sent' /\ Copy'
        => Types'
    BY DEF Types, Table, Where, Kept, Disk, Sent, Copy
  <1>1. ASSUME NEW t \in Task, NEW h \in Hash, GetLock(t, h)
        PROVE  TInv'
    <2>0. locks' \in Table
      BY <1>1, IncType, <1>a, <1>c DEF Types, Path, GetLock
    <2>1. Types'
      BY <1>1, <2>0, <1>a DEF Types, Uploading,
         Getting, Starting, GetLock, Ready, Table
    <2>2. Local(t)'
      BY <1>1, <1>a DEF Types, Local, PcOK, Shape, Uploading, Getting,
         Starting, GetLock, Ready, Path
    <2>3. \A u \in Task : u # t => Local(u)'
      BY <1>1, <1>a DEF Types, Local, PcOK, Shape, Uploading, Getting,
         Starting, GetLock, Ready
    <2> QED
      BY <2>1, <2>2, <2>3, <1>b
  <1>2. ASSUME NEW t \in Task, NEW n \in Temp, NEW h \in Hash, TempName(t, n, h)
        PROVE  TInv'
    <2>0. locks' \in Table
      BY <1>2, IncType, DecType, <1>a, <1>c DEF Types, Path, TempName
    <2>4. copy' \in [Task -> [stage : {"none", "queued", "source", "open", "ok",
                                      "failed"}, done : 0..Chunks]]
      BY <1>2, <1>a DEF Types, TempName, NoCopy
    <2>1. Types'
      <3>1. want' \in [Task -> Hash \cup {None}]
        BY <1>2, <1>a DEF Types, TempName
      <3>2. /\ name' \in [Task -> Temp \cup {None}]
            /\ pc' \in [Task -> {"idle"} \cup Uploading \cup Getting
                              \cup Starting]
        BY <1>2, <1>a DEF Types, TempName, Uploading
      <3> QED
        BY <1>2, <2>0, <2>4, <3>1, <3>2, <1>a DEF Types, TempName, Table
    <2>2. Local(t)'
      <3>1. /\ pc'[t] = "temp_open" /\ name'[t] = n
            /\ hash'[t] = hash[t] /\ specs'[t] = specs[t]
            /\ copy'[t].stage = "none"
        BY <1>2, <1>a DEF Types, TempName, NoCopy
      <3>2. want'[t] = h
        BY <1>2, <1>a DEF Types, TempName
      <3>3. pc[t] \in {"idle", "temp_retry"}
        BY <1>2 DEF TempName, Ready
      <3>4. PcOK(t)'
        BY <3>1, <3>3, <1>a DEF Local, PcOK, Uploading, Getting, Starting,
           Path
      <3>5. /\ sent' = sent /\ landed' = landed /\ flying' = flying
        BY <1>2 DEF TempName
      <3>6. Shape(t)'
        BY <3>1, <3>2, <3>5, <1>a DEF Local, Shape
      <3> QED
        BY <3>4, <3>6 DEF Local
    <2>3. \A u \in Task : u # t => Local(u)'
      BY <1>2, <1>a DEF Types, Local, PcOK, Shape, Uploading, Getting,
         Starting, TempName, Ready, NoCopy
    <2> QED
      BY <2>1, <2>2, <2>3, <1>b
  <1>3. ASSUME NEW t \in Task, NEW p \in OutPath, StartLock(t, p)
        PROVE  TInv'
    <2>0. locks' \in Table
      BY <1>3, IncType, <1>a, <1>c DEF Types, Path, StartLock
    <2>1. Types'
      <3>1. pc' \in [Task -> {"idle"} \cup Uploading \cup Getting
                              \cup Starting]
        BY <1>3, <1>a, MoveWhere DEF StartLock, Starting
      <3>2. specs' \in [Task -> SUBSET Path]
        BY <1>3, <1>a DEF Types, StartLock, Path
      <3>3. Where'
        BY <1>3, <3>1, <1>a, Parts DEF Where, StartLock
      <3>4. Kept' /\ Disk' /\ Sent' /\ Copy'
        BY <1>3, <1>a, Parts, KeptKept, DiskKept, SentKept, CopyKept
           DEF StartLock
      <3> QED
        BY <2>0, <3>2, <3>3, <3>4, <1>d
    <2>2. Local(t)'
      <3>1. pc'[t] = "start_write" /\ specs'[t] = {p}
        BY <1>3, <1>a DEF Types, StartLock
      <3>2. pc[t] = "idle"
        BY <1>3 DEF StartLock, Ready
      <3>3. UNCHANGED <<file, name, hash, want, sent, landed, flying, copy>>
        BY <1>3 DEF StartLock
      <3>4. PcOK(t)'
        BY <3>1, <3>2, <3>3, <1>a DEF Local, PcOK, Uploading, Getting,
           Starting
      <3>5. Shape(t)'
        BY <3>1, <3>3, <1>a DEF Local, Shape, Uploading
      <3> QED
        BY <3>4, <3>5 DEF Local
    <2>3. \A u \in Task : u # t => Local(u)'
      BY <1>3, <1>a DEF Types, Local, PcOK, Shape, Uploading, Getting,
         Starting, StartLock, Ready
    <2> QED
      BY <2>1, <2>2, <2>3, <1>b
  <1>4. ASSUME NEW t \in Task, NEW deps \in SUBSET Hash, StartDeps(t, deps)
        PROVE  TInv'
    <2>0. locks' \in Table
      BY <1>4, AllType, <1>a, <1>c DEF Types, Path, StartDeps
    <2>1. Types'
      <3>1. pc' \in [Task -> {"idle"} \cup Uploading \cup Getting
                              \cup Starting]
        BY <1>4, <1>a, MoveWhere DEF StartDeps, Starting
      <3>2. specs' \in [Task -> SUBSET Path]
        BY <1>4, <1>a DEF Types, StartDeps, Path
      <3>3. Where'
        BY <1>4, <3>1, <1>a, Parts DEF Where, StartDeps
      <3>4. Kept' /\ Disk' /\ Sent' /\ Copy'
        BY <1>4, <1>a, Parts, KeptKept, DiskKept, SentKept, CopyKept
           DEF StartDeps
      <3> QED
        BY <2>0, <3>2, <3>3, <3>4, <1>d
    <2>2. Local(t)'
      BY <1>4, <1>a DEF Types, Local, PcOK, Shape, Uploading, Getting,
         Starting, StartDeps, Path
    <2>3. \A u \in Task : u # t => Local(u)'
      BY <1>4, <1>a DEF Types, Local, PcOK, Shape, Uploading, Getting,
         Starting, StartDeps
    <2> QED
      BY <2>1, <2>2, <2>3, <1>b
  <1>5. ASSUME NEW t \in Task, GetFound(t)
        PROVE  TInv'
    <2>1. Types'
      BY <1>5, <1>a DEF Types, Uploading, Getting,
         Starting, GetFound
    <2>2. Local(t)'
      BY <1>5, <1>a DEF Types, Local, PcOK, Shape, Uploading, Getting,
         Starting, GetFound
    <2>3. \A u \in Task : u # t => Local(u)'
      BY <1>5, <1>a DEF Types, Local, PcOK, Shape, Uploading, Getting,
         Starting, GetFound
    <2> QED
      BY <2>1, <2>2, <2>3, <1>b
  <1>6. ASSUME NEW t \in Task, GetMissing(t)
        PROVE  TInv'
    <2>0. locks' \in Table
      BY <1>6, DecType, <1>a, <1>c DEF Types, Path, GetMissing
    <2>1. Types'
      <3>1. Where'
        BY <1>6, <1>a, IdleWhere DEF GetMissing
      <3>2. specs' \in [Task -> SUBSET Path]
        BY <1>6, <1>a, Parts DEF GetMissing
      <3>3. Kept' /\ Disk' /\ Sent' /\ Copy'
        BY <1>6, <1>a, Parts, KeptKept, DiskKept, SentKept, CopyKept
           DEF GetMissing
      <3> QED
        BY <2>0, <3>1, <3>2, <3>3, <1>d
    <2>2. Local(t)'
      <3>1. pc[t] \notin Starting
        BY <1>6 DEF GetMissing, Starting
      <3>2. specs'[t] = {}
        BY <1>6, <3>1, <1>a DEF GetMissing, Local, PcOK
      <3> QED
        BY <1>6, <3>2, <1>a, IdleLocal DEF GetMissing
    <2>3. \A u \in Task : u # t => Local(u)'
      BY <1>6, <1>a DEF Types, Local, PcOK, Shape, Uploading, Getting,
         Starting, GetMissing
    <2> QED
      BY <2>1, <2>2, <2>3, <1>b
  <1>7. ASSUME NEW t \in Task, Release(t)
        PROVE  TInv'
    <2>0. locks' \in Table
      BY <1>7, DecType, <1>a, <1>c DEF Types, Path, Release
    <2>1. Types'
      <3>1. Where'
        BY <1>7, <1>a, IdleWhere DEF Release
      <3>2. specs' \in [Task -> SUBSET Path]
        BY <1>7, <1>a, Parts DEF Release
      <3>3. Kept' /\ Disk' /\ Sent' /\ Copy'
        BY <1>7, <1>a, Parts, KeptKept, DiskKept, SentKept, CopyKept
           DEF Release
      <3> QED
        BY <2>0, <3>1, <3>2, <3>3, <1>d
    <2>2. Local(t)'
      <3>1. pc[t] \notin Starting
        BY <1>7 DEF Release, Starting
      <3>2. specs'[t] = {}
        BY <1>7, <3>1, <1>a DEF Release, Local, PcOK
      <3> QED
        BY <1>7, <3>2, <1>a, IdleLocal DEF Release
    <2>3. \A u \in Task : u # t => Local(u)'
      BY <1>7, <1>a DEF Types, Local, PcOK, Shape, Uploading, Getting,
         Starting, Release
    <2> QED
      BY <2>1, <2>2, <2>3, <1>b
  <1>8. ASSUME NEW t \in Task, TempCreate(t)
        PROVE  TInv'
    <2>1. Types'
      <3>1. name[t] \in Temp
        BY <1>8, <1>a DEF Types, Local, PcOK, Uploading, TempCreate
      <3>2. temp' \subseteq Temp
        BY <1>8, <3>1, <1>a DEF Types, TempCreate
      <3>3. pc' \in [Task -> {"idle"} \cup Uploading \cup Getting
                              \cup Starting]
        BY <1>8, <1>a, MoveWhere DEF TempCreate, Uploading
      <3> QED
        BY <1>8, <3>2, <3>3, <1>a DEF Types, TempCreate
    <2>2. Local(t)'
      <3>1. /\ pc'[t] = "writing" /\ name'[t] = name[t]
            /\ hash'[t] = hash[t] /\ specs'[t] = specs[t]
            /\ copy'[t] = copy[t] /\ want'[t] = want[t] /\ file' = file
        BY <1>8, <1>a DEF Types, TempCreate
      <3>2. sent'[t] = 0 /\ landed'[t] = 0 /\ flying'[t] = FALSE
        BY <1>8, <1>a DEF Types, TempCreate
      <3>3. pc[t] = "temp_open"
        BY <1>8 DEF TempCreate
      <3>4. PcOK(t)'
        BY <3>1, <3>3, <1>a DEF Local, PcOK, Uploading, Getting, Starting
      <3>5. Shape(t)'
        BY <3>1, <3>2, <3>3, <1>a DEF Local, Shape, Uploading
      <3> QED
        BY <3>4, <3>5 DEF Local
    <2>3. \A u \in Task : u # t => Local(u)'
      BY <1>8, <1>a DEF Types, Local, PcOK, Shape, Uploading, Getting,
         Starting, TempCreate
    <2> QED
      BY <2>1, <2>2, <2>3, <1>b
  <1>9. ASSUME NEW t \in Task, TempRetry(t)
        PROVE  TInv'
    <2>1. Types'
      BY <1>9, <1>a DEF Types, Uploading, Getting,
         Starting, TempRetry
    <2>2. Local(t)'
      BY <1>9, <1>a DEF Types, Local, PcOK, Shape, Uploading, Getting,
         Starting, TempRetry
    <2>3. \A u \in Task : u # t => Local(u)'
      BY <1>9, <1>a DEF Types, Local, PcOK, Shape, Uploading, Getting,
         Starting, TempRetry
    <2> QED
      BY <2>1, <2>2, <2>3, <1>b
  <1>10. ASSUME NEW t \in Task, TempExhausted(t)
        PROVE  TInv'
    <2>0. locks' \in Table
      BY <1>10, DecType, <1>a, <1>c DEF Types, Path, TempExhausted
    <2>1. Types'
      <3>1. Where'
        BY <1>10, <1>a, IdleWhere DEF TempExhausted
      <3>2. specs' \in [Task -> SUBSET Path]
        BY <1>10, <1>a, Parts DEF TempExhausted
      <3>3. Kept' /\ Disk' /\ Sent' /\ Copy'
        BY <1>10, <1>a, Parts, KeptKept, DiskKept, SentKept, CopyKept
           DEF TempExhausted
      <3> QED
        BY <2>0, <3>1, <3>2, <3>3, <1>d
    <2>2. Local(t)'
      <3>1. pc[t] \notin Starting
        BY <1>10 DEF TempExhausted, Starting
      <3>2. specs'[t] = {}
        BY <1>10, <3>1, <1>a DEF TempExhausted, Local, PcOK
      <3> QED
        BY <1>10, <3>2, <1>a, IdleLocal DEF TempExhausted
    <2>3. \A u \in Task : u # t => Local(u)'
      BY <1>10, <1>a DEF Types, Local, PcOK, Shape, Uploading, Getting,
         Starting, TempExhausted
    <2> QED
      BY <2>1, <2>2, <2>3, <1>b
  <1>11. ASSUME NEW t \in Task, Abandon(t)
        PROVE  TInv'
    <2>0. locks' \in Table
      BY <1>11, DecType, <1>a, <1>c DEF Types, Path, Abandon
    <2>1. Types'
      <3>1. Where'
        BY <1>11, <1>a, IdleWhere DEF Abandon
      <3>2. temp' \subseteq Temp /\ stray' \subseteq Temp
        BY <1>11, <1>a, RemovedType DEF Abandon, Uploading
      <3> QED
        BY <1>11, <2>0, <3>1, <3>2, <1>a DEF Types, Where, Abandon, Table
    <2>2. Local(t)'
      <3>1. specs'[t] = {}
        BY <1>11, <1>a DEF Abandon, Local, PcOK, Starting
      <3> QED
        BY <1>11, <3>1, <1>a, IdleLocal DEF Abandon
    <2>3. \A u \in Task : u # t => Local(u)'
      BY <1>11, <1>a DEF Types, Local, PcOK, Shape, Uploading, Getting,
         Starting, Abandon
    <2> QED
      BY <2>1, <2>2, <2>3, <1>b
  <1>12. ASSUME NEW t \in Task, Write(t)
        PROVE  TInv'
    <2>1. Types'
      <3>1. Sent'
        BY <1>12, <1>a DEF Types, Sent, Write
      <3>2. locks' \in Table /\ specs' \in [Task -> SUBSET Path]
        BY <1>12, <1>a, <1>c, Parts DEF Write
      <3>3. Where'
        BY <1>12, <1>a, Parts DEF Where, Write
      <3>4. Kept' /\ Disk' /\ Copy'
        BY <1>12, <1>a, Parts, KeptKept, DiskKept, CopyKept DEF Write
      <3> QED
        BY <3>1, <3>2, <3>3, <3>4, <1>d
    <2>2. Local(t)'
      <3>1. sent'[t] = sent[t] + 1 /\ landed' = landed
        BY <1>12, <1>a DEF Types, Write
      <3>2. UNCHANGED <<file, pc, name, hash, specs, want, copy>>
        BY <1>12 DEF Write
      <3>3. landed[t] <= sent'[t] /\ landed[t] < sent'[t]
        BY <1>12, <3>1, <1>a DEF Types, Write
      <3>4. PcOK(t)'
        BY <3>2, <1>a DEF Local, PcOK
      <3>5. Shape(t)'
        BY <3>1, <3>2, <3>3, <1>a DEF Local, Shape
      <3> QED
        BY <3>4, <3>5 DEF Local
    <2>3. \A u \in Task : u # t => Local(u)'
      BY <1>12, <1>a DEF Types, Local, PcOK, Shape, Uploading, Getting,
         Starting, Write
    <2> QED
      BY <2>1, <2>2, <2>3, <1>b
  <1>13. ASSUME NEW t \in Task, Land(t)
        PROVE  TInv'
    <2>1. Types'
      BY <1>13, <1>a DEF Types, Local, Shape, Land
    <2>2. Local(t)'
      BY <1>13, <1>a DEF Types, Local, PcOK, Shape, Uploading, Getting,
         Starting, Land
    <2>3. \A u \in Task : u # t => Local(u)'
      BY <1>13, <1>a DEF Types, Local, PcOK, Shape, Uploading, Getting,
         Starting, Land
    <2> QED
      BY <2>1, <2>2, <2>3, <1>b
  <1>14. ASSUME NEW t \in Task, Complete(t)
        PROVE  TInv'
    <2>0. locks' \in Table
      BY <1>14, IncType, <1>a, <1>c DEF Types, Path, Complete, Local, Shape,
         Uploading
    <2>4. copy' \in [Task -> [stage : {"none", "queued", "source", "open", "ok",
                                      "failed"}, done : 0..Chunks]]
      <3>1. [NoCopy EXCEPT !.stage = "queued"]
              = [stage |-> "queued", done |-> 0]
        BY DEF NoCopy
      <3>2. copy' = [copy EXCEPT ![t] = [stage |-> "queued", done |-> 0]]
        BY <1>14, <3>1 DEF Complete
      <3>3. 0 \in 0..Chunks
        BY ChunksAssumption
      <3> QED
        BY <3>2, <3>3, <1>a DEF Types
    <2>1. Types'
      BY <1>14, <2>0, <2>4, <1>a DEF Types, Uploading,
         Getting, Starting, Complete, Table
    <2>2. Local(t)'
      BY <1>14, <1>a DEF Types, Local, PcOK, Shape, Uploading, Getting,
         Starting, Complete, NoCopy, Path
    <2>3. \A u \in Task : u # t => Local(u)'
      BY <1>14, <1>a DEF Types, Local, PcOK, Shape, Uploading, Getting,
         Starting, Complete, NoCopy
    <2> QED
      BY <2>1, <2>2, <2>3, <1>b
  <1>15. ASSUME NEW t \in Task, CopySource(t)
        PROVE  TInv'
    <2>1. Types'
      BY <1>15, <1>a DEF Types, Uploading, Getting,
         Starting, CopySource
    <2>2. Local(t)'
      BY <1>15, <1>a DEF Types, Local, PcOK, Shape, Uploading, Getting,
         Starting, CopySource
    <2>3. \A u \in Task : u # t => Local(u)'
      BY <1>15, <1>a DEF Types, Local, PcOK, Shape, Uploading, Getting,
         Starting, CopySource
    <2> QED
      BY <2>1, <2>2, <2>3, <1>b
  <1>16. ASSUME NEW t \in Task, CopyTruncate(t)
        PROVE  TInv'
    <2>1. Types'
      <3>1. Disk'
        BY <1>16, <1>a, Parts DEF Disk, CopyTruncate
      <3>2. Copy'
        BY <1>16, <1>a, Parts DEF Copy, CopyTruncate
      <3>3. locks' \in Table /\ specs' \in [Task -> SUBSET Path]
        BY <1>16, <1>a, <1>c, Parts DEF CopyTruncate
      <3>4. Where'
        BY <1>16, <1>a, Parts DEF Where, CopyTruncate
      <3>5. Kept' /\ Sent'
        BY <1>16, <1>a, Parts, SentKept DEF CopyTruncate, Kept
      <3> QED
        BY <3>1, <3>2, <3>3, <3>4, <3>5, <1>d
    <2>2. Local(t)'
      BY <1>16, <1>a DEF Types, Local, PcOK, Shape, Uploading, Getting,
         Starting, CopyTruncate
    <2>3. \A u \in Task : u # t => Local(u)'
      BY <1>16, <1>a DEF Types, Local, PcOK, Shape, Uploading, Getting,
         Starting, CopyTruncate
    <2> QED
      BY <2>1, <2>2, <2>3, <1>b
  <1>17. ASSUME NEW t \in Task, CopyPiece(t)
        PROVE  TInv'
    <2>1. Types'
      BY <1>17, <1>a DEF Types, Local, Shape, CopyPiece, Content
    <2>2. Local(t)'
      BY <1>17, <1>a DEF Types, Local, PcOK, Shape, Uploading, Getting,
         Starting, CopyPiece, Content
    <2>3. \A u \in Task : u # t => Local(u)'
      BY <1>17, <1>a DEF Types, Local, PcOK, Shape, Uploading, Getting,
         Starting, CopyPiece, Content
    <2> QED
      BY <2>1, <2>2, <2>3, <1>b
  <1>18. ASSUME NEW t \in Task, CopyEnd(t)
        PROVE  TInv'
    <2>1. Types'
      BY <1>18, <1>a DEF Types, Local, Shape, CopyEnd
    <2>2. Local(t)'
      BY <1>18, <1>a DEF Types, Local, PcOK, Shape, Uploading, Getting,
         Starting, CopyEnd
    <2>3. \A u \in Task : u # t => Local(u)'
      BY <1>18, <1>a DEF Types, Local, PcOK, Shape, Uploading, Getting,
         Starting, CopyEnd
    <2> QED
      BY <2>1, <2>2, <2>3, <1>b
  <1>19. ASSUME NEW t \in Task, CopyError(t)
        PROVE  TInv'
    <2>1. Types'
      BY <1>19, <1>a DEF Types, Local, Shape, CopyError
    <2>2. Local(t)'
      BY <1>19, <1>a DEF Types, Local, PcOK, Shape, Uploading, Getting,
         Starting, CopyError
    <2>3. \A u \in Task : u # t => Local(u)'
      BY <1>19, <1>a DEF Types, Local, PcOK, Shape, Uploading, Getting,
         Starting, CopyError
    <2> QED
      BY <2>1, <2>2, <2>3, <1>b
  <1>20. ASSUME NEW t \in Task, Stored(t)
        PROVE  TInv'
    <2>0. locks' \in Table
      BY <1>20, DecType, <1>a, <1>c DEF Types, Path, Stored
    <2>1. Types'
      <3>1. temp' \subseteq Temp /\ stray' \subseteq Temp
        BY <1>20, <1>a, RemovedType DEF Stored, Uploading
      <3>2. Where'
        BY <1>20, <1>a, Parts DEF Stored, Where, Getting
      <3>3. Kept'
        BY <1>20, <3>1, <1>a, Parts DEF Stored, Kept
      <3>4. Disk' /\ Sent' /\ Copy'
        BY <1>20, <1>a, Parts, DiskKept, SentKept, CopyKept DEF Stored
      <3>5. specs' \in [Task -> SUBSET Path]
        BY <1>20, <1>a DEF Stored, Types
      <3> QED
        BY <2>0, <3>2, <3>3, <3>4, <3>5, <1>d
    <2>2. Local(t)'
      <3>1. /\ pc[t] = "copying" /\ pc'[t] = "holding" /\ name'[t] = None
            /\ UNCHANGED <<hash, specs, want, sent, landed, flying, copy, file>>
        BY <1>20, <1>a DEF Stored, Types
      <3>2. PcOK(t)'
        BY <3>1, <1>a DEF Local, PcOK, Uploading, Getting, Starting
      <3>3. Shape(t)'
        BY <3>1, <1>a DEF Local, Shape, Uploading
      <3> QED
        BY <3>2, <3>3 DEF Local
    <2>3. \A u \in Task : u # t => Local(u)'
      BY <1>20, <1>a DEF Types, Local, PcOK, Shape, Uploading, Getting,
         Starting, Stored
    <2> QED
      BY <2>1, <2>2, <2>3, <1>b
  <1>21. ASSUME NEW t \in Task, NotStored(t)
        PROVE  TInv'
    <2>0. locks' \in Table
      BY <1>21, DecType, <1>a, <1>c DEF Types, Path, NotStored
    <2>1. Types'
      <3>1. temp' \subseteq Temp /\ stray' \subseteq Temp
        BY <1>21, <1>a, RemovedType DEF NotStored, Uploading
      <3> QED
        BY <1>21, <2>0, <3>1, <1>a DEF Types, Uploading,
           Getting, Starting, NotStored, Table
    <2>2. Local(t)'
      BY <1>21, <1>a DEF Types, Local, PcOK, Shape, Uploading, Getting,
         Starting, NotStored, Path
    <2>3. \A u \in Task : u # t => Local(u)'
      BY <1>21, <1>a DEF Types, Local, PcOK, Shape, Uploading, Getting,
         Starting, NotStored
    <2> QED
      BY <2>1, <2>2, <2>3, <1>b
  <1>22. ASSUME NEW t \in Task, StartFail(t)
        PROVE  TInv'
    <2>0. locks' \in Table
      BY <1>22, AllType, <1>a, <1>c DEF Types, Path, StartFail
    <2>1. Types'
      BY <1>22, <2>0, <1>a DEF Types, Uploading,
         Getting, Starting, StartFail, Table
    <2>2. Local(t)'
      BY <1>22, <1>a DEF Types, Local, PcOK, Shape, Uploading, Getting,
         Starting, StartFail, Path
    <2>3. \A u \in Task : u # t => Local(u)'
      BY <1>22, <1>a DEF Types, Local, PcOK, Shape, Uploading, Getting,
         Starting, StartFail
    <2> QED
      BY <2>1, <2>2, <2>3, <1>b
  <1>23. ASSUME NEW t \in Task, Started(t)
        PROVE  TInv'
    <2>1. Types'
      BY <1>23, <1>a DEF Types, Uploading, Getting,
         Starting, Started, Path
    <2>2. Local(t)'
      BY <1>23, <1>a DEF Types, Local, PcOK, Shape, Uploading, Getting,
         Starting, Started, Path
    <2>3. \A u \in Task : u # t => Local(u)'
      BY <1>23, <1>a DEF Types, Local, PcOK, Shape, Uploading, Getting,
         Starting, Started
    <2> QED
      BY <2>1, <2>2, <2>3, <1>b
  <1>24. ASSUME NEW t \in Task, Cancel(t)
        PROVE  TInv'
    <2>0. locks' \in Table
      <3>1. hash[t] \in Path \cup {None} /\ name[t] \in Path \cup {None}
        BY <1>a DEF Types, Path
      <3>2. Dec(Dec(locks, hash[t]), name[t]) \in Table
        BY <3>1, <1>c, DecType
      <3> QED
        BY <1>24, <3>2, AllType DEF Cancel
    <2>1. Types'
      <3>1. pc[t] = "temp_open" => name[t] \in Temp
        BY <1>a DEF Types, Local, PcOK, Uploading
      <3>2. temp' \subseteq Temp /\ stray' \subseteq Temp
        <4>1. CASE pc[t] \in {"writing", "copying"} /\ Removed(t)
          BY <4>1, <1>a, RemovedType DEF Uploading
        <4> QED
          BY <1>24, <3>1, <4>1, <1>a DEF Types, Cancel
      <3> QED
        BY <1>24, <2>0, <3>2, <1>a DEF Types, Cancel, Table
    <2>2. Local(t)'
      BY <1>24, <1>a DEF Types, Local, PcOK, Shape, Uploading, Getting,
         Starting, Cancel, Path
    <2>3. \A u \in Task : u # t => Local(u)'
      BY <1>24, <1>a DEF Types, Local, PcOK, Shape, Uploading, Getting,
         Starting, Cancel
    <2> QED
      BY <2>1, <2>2, <2>3, <1>b
  <1>30. ASSUME Crash
         PROVE  TInv'
    <2>1. copy' \in [Task -> [stage : {"none", "queued", "source", "open", "ok",
                                      "failed"}, done : 0..Chunks]]
      BY <1>30 DEF Crash, NoCopy
    <2>2. /\ locks' \in Table /\ builds' \in [Build -> SUBSET Path]
          /\ specs' \in [Task -> SUBSET Path]
      BY <1>30 DEF Crash, Table
    <2>3. damaged' \subseteq Hash
      BY <1>30, <1>a DEF Crash, Types, Local, Shape
    <2>4. Types'
      BY <1>30, <1>a, <2>1, <2>2, <2>3 DEF Crash, Types, Table
    <2>5. \A t \in Task : Local(t)'
      BY <1>30 DEF Crash, NoCopy, Local, PcOK, Shape, Uploading, Getting,
         Starting
    <2> QED
      BY <2>4, <2>5, <1>b
  <1>31. ASSUME UNCHANGED vars
         PROVE  TInv'
    BY <1>31, <1>a, <1>b DEF vars, Types, Local, PcOK, Shape
  <1> QED
    BY <1>1, <1>2, <1>3, <1>4, <1>5, <1>6, <1>7, <1>8, <1>9, <1>10,
         <1>11, <1>12, <1>13, <1>14, <1>15, <1>16, <1>17, <1>18, <1>19,
         <1>20, <1>21, <1>22, <1>23, <1>24, <1>30, <1>31 DEF Next

\* The table, the disk and the calls keep their types, and a call owns the
\* guards its position says, through errors, disconnects and crashes.
THEOREM TypeCorrect == Spec => []TypeOK
  <1>1. TInv => TypeOK
    BY DEF TInv
  <1> QED
    BY <1>1, TInit, TStep, PTL DEF Spec

-----------------------------------------------------------------------------
(* Counting guards *)

\* What the lock table says of a path with the guards S.
Counts(n, S) == IF S = {} THEN n = None ELSE n = Cardinality(S)

LEMMA CountUp ==
    ASSUME NEW S, IsFiniteSet(S), NEW g, g \notin S, NEW n, Counts(n, S)
    PROVE  Counts(IF n = None THEN 1 ELSE n + 1, S \cup {g})
  <1>1. Cardinality(S) \in Nat /\ (Cardinality(S) = 0 <=> S = {})
    BY FS_CardinalityType, FS_EmptySet
  <1>2. Cardinality(S \cup {g}) = Cardinality(S) + 1
    BY FS_AddElement
  <1> QED
    BY <1>1, <1>2, PathAssumption DEF Counts

LEMMA CountDown ==
    ASSUME NEW S, IsFiniteSet(S), NEW g \in S, NEW n, Counts(n, S)
    PROVE  Counts(IF n \in {None, 1} THEN None ELSE n - 1, S \ {g})
  <1>1. Cardinality(S) \in Nat /\ (Cardinality(S) = 0 <=> S = {})
    BY FS_CardinalityType, FS_EmptySet
  <1>2. /\ IsFiniteSet(S \ {g})
        /\ Cardinality(S \ {g}) = Cardinality(S) - 1
    BY FS_RemoveElement
  <1>3. Cardinality(S \ {g}) = 0 <=> S \ {g} = {}
    BY <1>2, FS_EmptySet
  <1> QED
    BY <1>1, <1>2, <1>3, PathAssumption DEF Counts

LEMMA CountMove ==
    ASSUME NEW S, IsFiniteSet(S), NEW g \in S, NEW h, h \notin S, NEW n,
           Counts(n, S)
    PROVE  Counts(n, (S \ {g}) \cup {h})
  <1>1. Cardinality(S \ {g}) = Cardinality(S) - 1 /\ IsFiniteSet(S \ {g})
    BY FS_RemoveElement
  <1>2. Cardinality((S \ {g}) \cup {h}) = Cardinality(S \ {g}) + 1
    BY <1>1, FS_AddElement
  <1>3. Cardinality(S) \in Nat
    BY FS_CardinalityType
  <1> QED
    BY <1>1, <1>2, <1>3 DEF Counts

LEMMA GuardsFinite == ASSUME NEW p PROVE IsFiniteSet(Guards(p))
  <1> DEFINE kinds == {"temp", "file", "spec"}
             all == (kinds \X Task) \cup ({"build"} \X Build)
  <1>1. /\ IsFiniteSet({"temp"} \cup {"file"} \cup {"spec"})
        /\ IsFiniteSet({"build"})
    BY FS_Singleton, FS_Union
  <1>2. kinds = {"temp"} \cup {"file"} \cup {"spec"}
    OBVIOUS
  <1>3. IsFiniteSet(all)
    BY <1>1, <1>2, FiniteAssumption, FS_Product, FS_Union
  <1>4. Guards(p) \in SUBSET all
    BY DEF Guards
  <1> QED
    BY <1>3, <1>4, FS_Subset

\* The guards of one call on a path: there is at most one.
Own(t, p) == (IF name[t] = p THEN {<<"temp", t>>} ELSE {})
        \cup (IF hash[t] = p THEN {<<"file", t>>} ELSE {})
        \cup (IF p \in specs[t] THEN {<<"spec", t>>} ELSE {})

Holds(t, p) == name[t] = p \/ hash[t] = p \/ p \in specs[t]

Guard(t, p) == IF name[t] = p THEN <<"temp", t>>
               ELSE IF hash[t] = p THEN <<"file", t>> ELSE <<"spec", t>>

Alone == \A t \in Task, p \in Path :
             Own(t, p) = IF Holds(t, p) THEN {Guard(t, p)} ELSE {}

LEMMA OneGuard == TInv => Alone
  <1> SUFFICES ASSUME TInv, NEW t \in Task, NEW p \in Path
               PROVE  Own(t, p) = IF Holds(t, p) THEN {Guard(t, p)} ELSE {}
    BY DEF Alone
  <1>1. /\ name[t] \in Temp \cup {None} /\ hash[t] \in Hash \cup {None}
        /\ specs[t] \cap Temp = {} /\ (hash[t] # None => specs[t] = {})
    BY DEF TInv, TypeOK, Types, PcOK, Shape, Getting, Starting
  <1>2. /\ name[t] = p => hash[t] # p /\ p \notin specs[t]
        /\ hash[t] = p => p \notin specs[t]
    BY <1>1, PathAssumption DEF Path
  <1> QED
    BY <1>2 DEF Own, Holds, Guard

\* A step in which one call takes and drops guards, and the table follows.
Follows(t) ==
    \A p \in Path : locks'[p] =
        IF Holds(t, p) <=> Holds(t, p)' THEN locks[p]
        ELSE IF Holds(t, p) THEN IF locks[p] \in {None, 1} THEN None
                                 ELSE locks[p] - 1
             ELSE IF locks[p] = None THEN 1 ELSE locks[p] + 1

OthersKeep(t) ==
    /\ builds' = builds
    /\ \A u \in Task \ {t} : /\ name'[u] = name[u] /\ hash'[u] = hash[u]
                             /\ specs'[u] = specs[u]

LEMMA LocksUpdate ==
    ASSUME TInv, TInv', LocksExact, NEW t \in Task, OthersKeep(t), Follows(t)
    PROVE  LocksExact'
  <1> SUFFICES ASSUME NEW p \in Path PROVE Counts(locks'[p], Guards(p)')
    BY DEF LocksExact, Counts
  <1> DEFINE S == Guards(p)
             O == Own(t, p)
             P == Own(t, p)'
  <1>1. IsFiniteSet(S) /\ Counts(locks[p], S)
    BY GuardsFinite DEF LocksExact, Counts
  <1>2. O \subseteq S
    BY DEF Own, Guards
  <1>3. P \cap (S \ O) = {}
    BY DEF Own, Guards
  <1>4. Guards(p)' = (S \ O) \cup P
    BY DEF Own, Guards, OthersKeep
  <1>5. PICK g : O = IF Holds(t, p) THEN {g} ELSE {}
    BY OneGuard DEF Alone
  <1>6. PICK h : P = IF Holds(t, p)' THEN {h} ELSE {}
    <2>1. TInv' => Alone'
      BY OneGuard, PTL
    <2> QED
      BY <2>1 DEF Alone
  <1> HIDE DEF S, O, P
  <1>8. CASE ~Holds(t, p) /\ ~Holds(t, p)'
    <2>1. Guards(p)' = S /\ locks'[p] = locks[p]
      BY <1>4, <1>5, <1>6, <1>8 DEF Follows
    <2> QED
      BY <1>1, <2>1
  <1>9. CASE ~Holds(t, p) /\ Holds(t, p)'
    <2>1. Guards(p)' = S \cup {h} /\ h \notin S
      BY <1>3, <1>4, <1>5, <1>6, <1>9
    <2>2. locks'[p] = IF locks[p] = None THEN 1 ELSE locks[p] + 1
      BY <1>9 DEF Follows
    <2> QED
      BY <1>1, <2>1, <2>2, CountUp
  <1>10. CASE Holds(t, p) /\ ~Holds(t, p)'
    <2>1. Guards(p)' = S \ {g} /\ g \in S
      BY <1>2, <1>4, <1>5, <1>6, <1>10
    <2>2. locks'[p] = IF locks[p] \in {None, 1} THEN None ELSE locks[p] - 1
      BY <1>10 DEF Follows
    <2> QED
      BY <1>1, <2>1, <2>2, CountDown
  <1>11. CASE Holds(t, p) /\ Holds(t, p)'
    <2>1. Guards(p)' = (S \ {g}) \cup {h} /\ g \in S /\ h \notin S \ {g}
      BY <1>2, <1>3, <1>4, <1>5, <1>6, <1>11
    <2>2. locks'[p] = locks[p]
      BY <1>11 DEF Follows
    <2>3. CASE h = g
      BY <1>1, <2>1, <2>2, <2>3
    <2>4. CASE h # g
      BY <1>1, <2>1, <2>2, <2>4, CountMove
    <2> QED
      BY <2>3, <2>4
  <1> QED
    BY <1>8, <1>9, <1>10, <1>11

-----------------------------------------------------------------------------
(* The lock table is exact *)

LEMMA LInit == Init => LocksExact
  BY PathAssumption DEF Init, LocksExact, Guards

LEMMA LStep == TInv /\ TInv' /\ LocksExact /\ [Next]_vars => LocksExact'
  <1> SUFFICES ASSUME TInv, TInv', LocksExact, [Next]_vars PROVE LocksExact'
    OBVIOUS
  <1> USE DEF tab, disk, own, up, hist, Idle
  <1>a. /\ Types /\ locks \in Table
        /\ \A t \in Task : PcOK(t) /\ Shape(t)
    BY DEF TInv, TypeOK, Types, Table
  <1>b. UNCHANGED <<locks, builds, name, hash, specs>> => LocksExact'
    BY DEF LocksExact, Guards
  <1>1. ASSUME NEW t \in Task, NEW h \in Hash, GetLock(t, h)
        PROVE  LocksExact'
    <2>1. OthersKeep(t)
      BY <1>1, <1>a DEF GetLock, OthersKeep, Types
    <2>2. name[t] = None /\ hash[t] = None /\ specs[t] = {}
      BY <1>1, <1>a DEF GetLock, Ready, Types, PcOK, Uploading, Getting,
         Starting
    <2>3. name'[t] = None /\ hash'[t] = h /\ specs'[t] = {}
      BY <1>1, <1>a, <2>2 DEF GetLock, Types
    <2>4. \A p \in Path : locks'[p] =
              IF p # h THEN locks[p]
              ELSE IF locks[p] = None THEN 1 ELSE locks[p] + 1
      BY <1>1, <1>a, <2>2, PathAssumption, IncType DEF GetLock, Path
    <2>5. Follows(t)
      BY <2>2, <2>3, <2>4, PathAssumption DEF Follows, Holds, Path
    <2> QED
      BY <2>1, <2>5, LocksUpdate
  <1>2. ASSUME NEW t \in Task, NEW n \in Temp, NEW h \in Hash, TempName(t, n, h)
        PROVE  LocksExact'
    <2>1. OthersKeep(t)
      BY <1>2, <1>a DEF TempName, OthersKeep, Types
    <2>2. name[t] # n /\ hash[t] = None /\ specs[t] = {}
      BY <1>2, <1>a DEF TempName, Ready, Types, PcOK, Uploading, Getting,
         Starting
    <2>3. name'[t] = n /\ hash'[t] = None /\ specs'[t] = {}
      BY <1>2, <1>a, <2>2 DEF TempName, Types
    <2>4. \A p \in Path : locks'[p] =
              IF p = n THEN IF locks[p] = None THEN 1 ELSE locks[p] + 1
              ELSE IF p # name[t] THEN locks[p]
              ELSE IF locks[p] \in {None, 1} THEN None ELSE locks[p] - 1
      <3>1. /\ n \in Path /\ name[t] \in Path \cup {None}
            /\ locks' = Dec(Inc(locks, n), name[t])
        BY <1>2, <1>a DEF TempName, Path, Types
      <3>2. Inc(locks, n) \in Table
        BY <3>1, <1>a, IncType
      <3>3. \A p \in Path : Inc(locks, n)[p] =
                IF p # n THEN locks[p]
                ELSE IF locks[n] = None THEN 1 ELSE locks[n] + 1
        BY <3>1, <1>a, IncType
      <3>4. \A p \in Path : locks'[p] =
                IF p # name[t] THEN Inc(locks, n)[p]
                ELSE IF Inc(locks, n)[p] \in {None, 1} THEN None
                     ELSE Inc(locks, n)[p] - 1
        BY <3>1, <3>2, DecType
      <3> QED
        BY <2>2, <3>3, <3>4
    <2>5. Follows(t)
      BY <2>2, <2>3, <2>4, PathAssumption DEF Follows, Holds, Path
    <2> QED
      BY <2>1, <2>5, LocksUpdate
  <1>3. ASSUME NEW t \in Task, NEW o \in OutPath, StartLock(t, o)
        PROVE  LocksExact'
    <2>1. OthersKeep(t)
      BY <1>3, <1>a DEF StartLock, OthersKeep, Types
    <2>2. name[t] = None /\ hash[t] = None /\ specs[t] = {}
      BY <1>3, <1>a DEF StartLock, Ready, Types, PcOK, Uploading, Getting,
         Starting
    <2>3. name'[t] = None /\ hash'[t] = None /\ specs'[t] = {o}
      BY <1>3, <1>a, <2>2 DEF StartLock, Types
    <2>4. \A p \in Path : locks'[p] =
              IF p # o THEN locks[p]
              ELSE IF locks[p] = None THEN 1 ELSE locks[p] + 1
      BY <1>3, <1>a, <2>2, PathAssumption, IncType DEF StartLock, Path
    <2>5. Follows(t)
      BY <2>2, <2>3, <2>4, PathAssumption DEF Follows, Holds, Path
    <2> QED
      BY <2>1, <2>5, LocksUpdate
  <1>4. ASSUME NEW t \in Task, NEW deps \in SUBSET Hash, StartDeps(t, deps)
        PROVE  LocksExact'
    <2>1. OthersKeep(t)
      BY <1>4, <1>a DEF StartDeps, OthersKeep, Types
    <2>2. name[t] = None /\ hash[t] = None /\ specs[t] \subseteq OutPath
      BY <1>4, <1>a DEF StartDeps, Shape, Types, PcOK, Uploading, Getting,
         Starting
    <2>3. name'[t] = None /\ hash'[t] = None /\ specs'[t] = specs[t] \cup deps
      BY <1>4, <1>a, <2>2 DEF StartDeps, Types
    <2>4. \A p \in Path : locks'[p] =
              IF p \notin deps THEN locks[p]
              ELSE IF locks[p] = None THEN 1 ELSE locks[p] + 1
      BY <1>4, <1>a, <2>2, PathAssumption, AllType DEF StartDeps, Path,
         Types
    <2>5. Follows(t)
      BY <2>2, <2>3, <2>4, PathAssumption DEF Follows, Holds, Path
    <2> QED
      BY <2>1, <2>5, LocksUpdate
  <1>5. ASSUME NEW t \in Task, GetMissing(t)
        PROVE  LocksExact'
    <2>1. OthersKeep(t)
      <3>1. /\ name' = [name EXCEPT ![t] = None]
            /\ hash' = [hash EXCEPT ![t] = None]
            /\ specs' = specs /\ builds' = builds
        BY <1>5 DEF GetMissing
      <3>2. /\ name \in [Task -> Temp \cup {None}]
            /\ hash \in [Task -> Hash \cup {None}]
        BY <1>a DEF Types
      <3> QED
        BY <3>1, <3>2 DEF OthersKeep
    <2>2. name[t] = None /\ hash[t] \in Hash /\ specs[t] = {}
      <3>1. pc[t] = "get_open"
        BY <1>5 DEF GetMissing
      <3>2. name[t] = None /\ hash[t] # None /\ specs[t] = {}
        BY <3>1, <1>a DEF PcOK, Uploading, Getting, Starting
      <3>3. hash \in [Task -> Hash \cup {None}]
        BY <1>a DEF Types
      <3> QED
        BY <3>2, <3>3
    <2>3. name'[t] = None /\ hash'[t] = None /\ specs'[t] = {}
      BY <1>5, <1>a, <2>2 DEF GetMissing, Types
    <2>4. \A p \in Path : locks'[p] =
              IF p # hash[t] THEN locks[p]
              ELSE IF locks[p] \in {None, 1} THEN None ELSE locks[p] - 1
      BY <1>5, <1>a, <2>2, PathAssumption, DecType DEF GetMissing, Path
    <2>5. Follows(t)
      BY <2>2, <2>3, <2>4, PathAssumption DEF Follows, Holds, Path
    <2> QED
      BY <2>1, <2>5, LocksUpdate
  <1>6. ASSUME NEW t \in Task, Release(t)
        PROVE  LocksExact'
    <2>1. OthersKeep(t)
      BY <1>6, <1>a DEF Release, OthersKeep, Types
    <2>2. name[t] = None /\ hash[t] \in Hash /\ specs[t] = {}
      BY <1>6, <1>a DEF Release, Types, PcOK, Uploading, Getting, Starting
    <2>3. name'[t] = None /\ hash'[t] = None /\ specs'[t] = {}
      BY <1>6, <1>a, <2>2 DEF Release, Types
    <2>4. \A p \in Path : locks'[p] =
              IF p # hash[t] THEN locks[p]
              ELSE IF locks[p] \in {None, 1} THEN None ELSE locks[p] - 1
      <3>1. locks \in Table /\ hash[t] \in Path /\ locks' = Dec(locks, hash[t])
        BY <1>6, <1>a, <2>2 DEF Release, Path, Types, Table
      <3> QED
        BY <3>1, DecType
    <2>5. Follows(t)
      BY <2>2, <2>3, <2>4, PathAssumption DEF Follows, Holds, Path
    <2> QED
      BY <2>1, <2>5, LocksUpdate
  <1>7. ASSUME NEW t \in Task, TempExhausted(t)
        PROVE  LocksExact'
    <2>1. OthersKeep(t)
      BY <1>7, <1>a DEF TempExhausted, OthersKeep, Types
    <2>2. name[t] \in Temp /\ hash[t] = None /\ specs[t] = {}
      BY <1>7, <1>a DEF TempExhausted, Types, PcOK, Uploading, Getting,
         Starting
    <2>3. name'[t] = None /\ hash'[t] = None /\ specs'[t] = {}
      BY <1>7, <1>a, <2>2 DEF TempExhausted, Types
    <2>4. \A p \in Path : locks'[p] =
              IF p # name[t] THEN locks[p]
              ELSE IF locks[p] \in {None, 1} THEN None ELSE locks[p] - 1
      BY <1>7, <1>a, <2>2, PathAssumption, DecType DEF TempExhausted, Path
    <2>5. Follows(t)
      BY <2>2, <2>3, <2>4, PathAssumption DEF Follows, Holds, Path
    <2> QED
      BY <2>1, <2>5, LocksUpdate
  <1>8. ASSUME NEW t \in Task, Abandon(t)
        PROVE  LocksExact'
    <2>1. OthersKeep(t)
      BY <1>8, <1>a DEF Abandon, OthersKeep, Types
    <2>2. name[t] \in Temp /\ hash[t] = None /\ specs[t] = {}
      BY <1>8, <1>a DEF Abandon, Types, PcOK, Uploading, Getting, Starting
    <2>3. name'[t] = None /\ hash'[t] = None /\ specs'[t] = {}
      BY <1>8, <1>a, <2>2 DEF Abandon, Types
    <2>4. \A p \in Path : locks'[p] =
              IF p # name[t] THEN locks[p]
              ELSE IF locks[p] \in {None, 1} THEN None ELSE locks[p] - 1
      BY <1>8, <1>a, <2>2, PathAssumption, DecType DEF Abandon, Path
    <2>5. Follows(t)
      BY <2>2, <2>3, <2>4, PathAssumption DEF Follows, Holds, Path
    <2> QED
      BY <2>1, <2>5, LocksUpdate
  <1>9. ASSUME NEW t \in Task, Complete(t)
        PROVE  LocksExact'
    <2>1. OthersKeep(t)
      BY <1>9, <1>a DEF Complete, OthersKeep, Types
    <2>2. hash[t] = None /\ specs[t] = {} /\ want[t] \in Hash
      BY <1>9, <1>a DEF Complete, Shape, Types, PcOK, Uploading, Getting,
         Starting
    <2>3. name'[t] = name[t] /\ hash'[t] = want[t] /\ specs'[t] = {}
      BY <1>9, <1>a, <2>2 DEF Complete, Types
    <2>4. \A p \in Path : locks'[p] =
              IF p # want[t] THEN locks[p]
              ELSE IF locks[p] = None THEN 1 ELSE locks[p] + 1
      BY <1>9, <1>a, <2>2, PathAssumption, IncType DEF Complete, Path
    <2>5. Follows(t)
      <3> SUFFICES ASSUME NEW p \in Path
                   PROVE  /\ Holds(t, p) <=> name[t] = p
                          /\ Holds(t, p)' <=> name[t] = p \/ want[t] = p
                          /\ name[t] # want[t]
        BY <2>4 DEF Follows
      <3> QED
        BY <2>2, <2>3, <1>a, PathAssumption DEF Holds, Types, Path
    <2> QED
      BY <2>1, <2>5, LocksUpdate
  <1>10. ASSUME NEW t \in Task, Stored(t)
        PROVE  LocksExact'
    <2>1. OthersKeep(t)
      BY <1>10, <1>a DEF Stored, OthersKeep, Types
    <2>2. name[t] \in Temp /\ hash[t] \in Hash /\ specs[t] = {}
      BY <1>10, <1>a DEF Stored, Types, PcOK, Uploading, Getting, Starting
    <2>3. name'[t] = None /\ hash'[t] = hash[t] /\ specs'[t] = {}
      BY <1>10, <1>a, <2>2 DEF Stored, Types
    <2>4. \A p \in Path : locks'[p] =
              IF p # name[t] THEN locks[p]
              ELSE IF locks[p] \in {None, 1} THEN None ELSE locks[p] - 1
      <3>1. name[t] \in Path /\ locks' = Dec(locks, name[t])
        BY <1>10, <2>2 DEF Stored, Path
      <3> QED
        BY <3>1, <1>a, DecType
    <2>5. Follows(t)
      BY <2>2, <2>3, <2>4, PathAssumption DEF Follows, Holds, Path
    <2> QED
      BY <2>1, <2>5, LocksUpdate
  <1>11. ASSUME NEW t \in Task, NotStored(t)
        PROVE  LocksExact'
    <2>1. OthersKeep(t)
      BY <1>11, <1>a DEF NotStored, OthersKeep, Types
    <2>2. name[t] \in Temp /\ hash[t] \in Hash /\ specs[t] = {}
      BY <1>11, <1>a DEF NotStored, Types, PcOK, Uploading, Getting,
         Starting
    <2>3. name'[t] = None /\ hash'[t] = None /\ specs'[t] = {}
      BY <1>11, <1>a, <2>2 DEF NotStored, Types
    <2>4. \A p \in Path : locks'[p] =
              IF p \notin {name[t], hash[t]} THEN locks[p]
              ELSE IF locks[p] \in {None, 1} THEN None ELSE locks[p] - 1
      <3>1. hash[t] \in Path /\ name[t] \in Path /\ name[t] # hash[t]
        BY <2>2, PathAssumption DEF Path
      <3>2. Dec(locks, hash[t]) \in Table
        BY <3>1, <1>a, DecType
      <3>3. \A p \in Path : locks'[p] =
                IF p = name[t] THEN Dec(Dec(locks, hash[t]), name[t])[name[t]]
                ELSE Dec(locks, hash[t])[p]
        BY <1>11, <3>1, <3>2, DecType DEF NotStored
      <3>4. Dec(Dec(locks, hash[t]), name[t])[name[t]] =
                IF locks[name[t]] \in {None, 1} THEN None
                ELSE locks[name[t]] - 1
        BY <3>1, <3>2, <1>a, DecType
      <3>5. \A p \in Path : Dec(locks, hash[t])[p] =
                IF p # hash[t] THEN locks[p]
                ELSE IF locks[p] \in {None, 1} THEN None ELSE locks[p] - 1
        BY <3>1, <1>a, DecType
      <3> QED
        BY <3>1, <3>3, <3>4, <3>5
    <2>5. Follows(t)
      BY <2>2, <2>3, <2>4, PathAssumption DEF Follows, Holds, Path
    <2> QED
      BY <2>1, <2>5, LocksUpdate
  <1>12. ASSUME NEW t \in Task, StartFail(t)
        PROVE  LocksExact'
    <2>1. OthersKeep(t)
      BY <1>12, <1>a DEF StartFail, OthersKeep, Types
    <2>2. name[t] = None /\ hash[t] = None
      BY <1>12, <1>a DEF StartFail, Types, PcOK, Uploading, Getting,
         Starting
    <2>3. name'[t] = None /\ hash'[t] = None /\ specs'[t] = {}
      BY <1>12, <1>a, <2>2 DEF StartFail, Types
    <2>4. \A p \in Path : locks'[p] =
              IF p \notin specs[t] THEN locks[p]
              ELSE IF locks[p] \in {None, 1} THEN None ELSE locks[p] - 1
      BY <1>12, <1>a, <2>2, PathAssumption, AllType DEF StartFail, Path,
         Types
    <2>5. Follows(t)
      BY <2>2, <2>3, <2>4, PathAssumption DEF Follows, Holds, Path
    <2> QED
      BY <2>1, <2>5, LocksUpdate
  <1>13. ASSUME NEW t \in Task, Cancel(t)
        PROVE  LocksExact'
    <2>1. OthersKeep(t)
      BY <1>13, <1>a DEF Cancel, OthersKeep, Types
    <2>2. (hash[t] # None => specs[t] = {}) /\ specs[t] \cap Temp = {}
      BY <1>13, <1>a DEF Cancel, Types, PcOK, Shape, Uploading, Getting,
         Starting
    <2>3. name'[t] = None /\ hash'[t] = None /\ specs'[t] = {}
      BY <1>13, <1>a, <2>2 DEF Cancel, Types
    <2>4. \A p \in Path : locks'[p] =
              IF ~Holds(t, p) THEN locks[p]
              ELSE IF locks[p] \in {None, 1} THEN None ELSE locks[p] - 1
      <3>1. /\ hash[t] \in Path \cup {None} /\ name[t] \in Path \cup {None}
            /\ (hash[t] # None /\ name[t] # None => hash[t] # name[t])
        BY <1>a, PathAssumption DEF Types, Path
      <3>2. /\ Dec(locks, hash[t]) \in Table
            /\ Dec(Dec(locks, hash[t]), name[t]) \in Table
        BY <3>1, <1>a, DecType
      <3>3. name[t] \in Temp \cup {None}
        BY <1>a DEF Types
      <3> DEFINE two == Dec(Dec(locks, hash[t]), name[t])
      <3>4. \A p \in Path : Dec(locks, hash[t])[p] =
                IF p # hash[t] THEN locks[p]
                ELSE IF locks[p] \in {None, 1} THEN None ELSE locks[p] - 1
        BY <3>1, <1>a, DecType
      <3>5. \A p \in Path : two[p] =
                IF p # name[t] THEN Dec(locks, hash[t])[p]
                ELSE IF Dec(locks, hash[t])[p] \in {None, 1} THEN None
                     ELSE Dec(locks, hash[t])[p] - 1
        BY <3>1, <3>2, DecType
      <3>6. \A p \in Path : two[p] =
                IF p \notin {hash[t], name[t]} THEN locks[p]
                ELSE IF locks[p] \in {None, 1} THEN None ELSE locks[p] - 1
        BY <3>1, <3>4, <3>5, PathAssumption
      <3>7. \A p \in Path : locks'[p] =
                IF p \notin specs[t] THEN two[p]
                ELSE IF two[p] \in {None, 1} THEN None ELSE two[p] - 1
        BY <1>13, <3>2, AllType DEF Cancel
      <3>8. \A p \in specs[t] : p \notin {hash[t], name[t]}
        BY <2>2, <3>3, <1>a, PathAssumption DEF Types
      <3> HIDE DEF two
      <3> QED
        BY <3>6, <3>7, <3>8 DEF Holds
    <2>5. Follows(t)
      BY <2>2, <2>3, <2>4, PathAssumption DEF Follows, Holds, Path
    <2> QED
      BY <2>1, <2>5, LocksUpdate
  <1>14. ASSUME NEW t \in Task, Started(t)
        PROVE  LocksExact'
    <2>1. PICK b \in Build : /\ builds[b] = {}
                             /\ builds' = [builds EXCEPT ![b] = specs[t]]
      BY <1>14 DEF Started
    <2>2. pc[t] = "start_spawn" /\ name[t] = None /\ hash[t] = None
      BY <1>14, <1>a DEF Started, PcOK, Uploading, Getting, Starting
    <2>3. locks' = locks /\ name' = name /\ hash' = hash
      BY <1>14, <1>a, <2>2 DEF Started, Types
    <2>4. specs' = [specs EXCEPT ![t] = {}]
      BY <1>14 DEF Started
    <2> SUFFICES ASSUME NEW p \in Path PROVE Counts(locks[p], Guards(p)')
      BY <2>3 DEF LocksExact, Counts
    <2>5. IsFiniteSet(Guards(p)) /\ Counts(locks[p], Guards(p))
      BY GuardsFinite DEF LocksExact, Counts
    <2>6. CASE p \in specs[t]
      <3>1. Guards(p)' = (Guards(p) \ {<<"spec", t>>}) \cup {<<"build", b>>}
        BY <1>a, <2>1, <2>3, <2>4, <2>6 DEF Guards, Types
      <3>2. <<"spec", t>> \in Guards(p) /\ <<"build", b>> \notin Guards(p)
        BY <2>1, <2>6 DEF Guards
      <3> QED
        BY <2>5, <3>1, <3>2, CountMove
    <2>7. CASE p \notin specs[t]
      <3>1. Guards(p)' = Guards(p)
        BY <1>a, <2>1, <2>3, <2>4, <2>7 DEF Guards, Types
      <3> QED
        BY <2>5, <3>1
    <2> QED
      BY <2>6, <2>7
  <1>15. ASSUME Crash
        PROVE  LocksExact'
    BY <1>15, PathAssumption DEF Crash, LocksExact, Guards
  <1>16. ASSUME NEW t \in Task,
               \/ GetFound(t) \/ TempCreate(t) \/ TempRetry(t) \/ Write(t)
               \/ Land(t) \/ CopySource(t) \/ CopyTruncate(t) \/ CopyPiece(t)
               \/ CopyEnd(t) \/ CopyError(t)
        PROVE  LocksExact'
    BY <1>16, <1>b DEF GetFound, TempCreate, TempRetry, Write, Land, CopySource,
       CopyTruncate, CopyPiece, CopyEnd, CopyError
  <1>17. ASSUME UNCHANGED vars
        PROVE  LocksExact'
    BY <1>17, <1>b DEF vars
  <1> QED
    BY <1>1, <1>2, <1>3, <1>4, <1>5, <1>6, <1>7, <1>8, <1>9, <1>10, <1>11,
       <1>12, <1>13, <1>14, <1>15, <1>16, <1>17 DEF Next

\* The lock table is exact for any number of calls: no guard is released early,
\* none twice, and no entry outlives its guards.
THEOREM LocksAreExact == Spec => []LocksExact
  BY TInit, TStep, LInit, LStep, PTL DEF Spec

-----------------------------------------------------------------------------
(* Temporary files *)

\* The names of the calls in progress differ, and no call writes to a file
\* that was left behind.
NamesApart ==
    /\ \A t, u \in Task : t # u /\ name[t] # None => name[t] # name[u]
    /\ \A t \in Task : pc[t] \in {"writing", "copying"} => name[t] \notin stray

FInv == TempExact /\ NamesApart

LEMMA FInit == Init => FInv
  BY DEF Init, FInv, TempExact, NamesApart

\* A call that keeps its file, or gives up a name it did not open.
LEMMA FStep == TInv /\ FInv /\ [Next]_vars => FInv'
  <1> SUFFICES ASSUME TInv, FInv, [Next]_vars PROVE FInv'
    OBVIOUS
  <1> USE DEF tab, disk, own, up, hist, Idle, FInv, TempExact, NamesApart
  <1>a. Types /\ \A t \in Task : PcOK(t)
    BY DEF TInv, TypeOK
  <1>1. ASSUME NEW t \in Task, NEW n \in Temp, NEW h \in Hash, TempName(t, n, h)
        PROVE  FInv'
    <2>1. /\ name' = [name EXCEPT ![t] = n]
          /\ pc' = [pc EXCEPT ![t] = "temp_open"]
          /\ temp' = temp /\ stray' = stray
          /\ pc[t] \notin {"writing", "copying"}
          /\ \A u \in Task : name[u] # n
      BY <1>1 DEF TempName, Ready
    <2>2. /\ name'[t] = n /\ pc'[t] = "temp_open"
          /\ \A u \in Task \ {t} : name'[u] = name[u] /\ pc'[u] = pc[u]
      BY <2>1, <1>a DEF Types
    <2>3. TempExact'
      BY <2>1, <2>2
    <2>4. NamesApart'
      BY <2>1, <2>2
    <2> QED
      BY <2>3, <2>4
  <1>2. ASSUME NEW t \in Task, TempCreate(t)
        PROVE  FInv'
    BY <1>2, <1>a, PathAssumption DEF TempCreate, Types
  <1>3. ASSUME NEW t \in Task, Abandon(t) \/ NotStored(t) \/ Stored(t)
        PROVE  FInv'
    <2>1. /\ pc[t] \in {"writing", "copying"} /\ name[t] \in Temp
          /\ \/ temp' = temp \ {name[t]} /\ stray' = stray
             \/ temp' = temp /\ stray' = stray \cup {name[t]}
          /\ name' = [name EXCEPT ![t] = None]
          /\ pc'[t] \notin {"writing", "copying"}
          /\ \A u \in Task \ {t} : pc'[u] = pc[u]
      BY <1>3, <1>a DEF Abandon, NotStored, Stored, Removed, Types, PcOK,
         Uploading
    <2>2. \A u \in Task \ {t} : name'[u] = name[u] /\ name[u] # name[t]
      BY <2>1, <1>a, PathAssumption DEF Types, Path
    <2>3. name'[t] = None
      BY <2>1, <1>a DEF Types
    <2>4. TempExact'
      BY <2>1, <2>2
    <2> QED
      BY <2>1, <2>2, <2>3, <2>4, <1>a DEF Types
  <1>4. ASSUME NEW t \in Task, Cancel(t)
        PROVE  FInv'
    <2>1. /\ name' = [name EXCEPT ![t] = None]
          /\ pc' = [pc EXCEPT ![t] = "idle"]
          /\ \/ pc[t] = "temp_open" /\ temp' = temp \cup {name[t]}
                /\ stray' = stray \cup {name[t]}
             \/ pc[t] \notin {"writing", "copying"} /\ temp' = temp
                /\ stray' = stray
             \/ /\ pc[t] \in {"writing", "copying"}
                /\ \/ temp' = temp \ {name[t]} /\ stray' = stray
                   \/ temp' = temp /\ stray' = stray \cup {name[t]}
      BY <1>4 DEF Cancel, Removed
    <2>2. \A u \in Task \ {t} : name'[u] = name[u] /\ pc'[u] = pc[u]
      BY <2>1, <1>a DEF Types
    <2>3. name'[t] = None /\ pc'[t] = "idle"
      BY <2>1, <1>a DEF Types
    <2>4. \A u \in Task \ {t} : name[t] # None => name[u] # name[t]
      OBVIOUS
    <2>5. pc[t] \in {"temp_open", "writing", "copying"} => name[t] # None
      BY <1>a DEF PcOK, Uploading
    <2>6. TempExact'
      BY <2>1, <2>2, <2>3, <2>4, <2>5
    <2> QED
      BY <2>1, <2>2, <2>3, <2>4, <2>5, <2>6
  <1>5. ASSUME NEW t \in Task, Complete(t) \/ TempRetry(t) \/ TempExhausted(t)
        PROVE  FInv'
    <2>1. /\ temp' = temp /\ stray' = stray
          /\ \A u \in Task \ {t} : name'[u] = name[u] /\ pc'[u] = pc[u]
          /\ name'[t] \in {None, name[t]}
      BY <1>5, <1>a DEF Complete, TempRetry, TempExhausted, Types
    <2>2. /\ pc'[t] \in {"writing", "copying"}
                <=> pc[t] \in {"writing", "copying"}
          /\ pc[t] \in {"writing", "copying"} => name'[t] = name[t]
      BY <1>5, <1>a DEF Complete, TempRetry, TempExhausted, Types
    <2>3. TempExact'
      BY <2>1, <2>2
    <2> QED
      BY <2>1, <2>2, <2>3
  <1>6. ASSUME NEW t \in Task,
               \/ \E h \in Hash : GetLock(t, h)
               \/ \E p \in OutPath : StartLock(t, p)
               \/ \E deps \in SUBSET Hash : StartDeps(t, deps)
               \/ GetFound(t) \/ GetMissing(t) \/ Release(t)
               \/ StartFail(t) \/ Started(t)
        PROVE  FInv'
    BY <1>6, <1>a DEF GetLock, StartLock, StartDeps, GetFound, GetMissing,
       Release, StartFail, Started, Ready, Types, PcOK, Uploading
  <1>7. ASSUME NEW t \in Task,
               \/ Write(t) \/ Land(t) \/ CopySource(t) \/ CopyTruncate(t)
               \/ CopyPiece(t) \/ CopyEnd(t) \/ CopyError(t)
        PROVE  FInv'
    BY <1>7 DEF Write, Land, CopySource, CopyTruncate, CopyPiece, CopyEnd,
       CopyError
  <1>8. ASSUME Crash
        PROVE  FInv'
    BY <1>8 DEF Crash
  <1>9. ASSUME UNCHANGED vars
        PROVE  FInv'
    BY <1>9 DEF vars
  <1> QED
    BY <1>1, <1>2, <1>3, <1>4, <1>5, <1>6, <1>7, <1>8, <1>9 DEF Next

\* A temporary file exists exactly while a call is there to remove it, or is
\* one of those a dead process, a dropped open or a failed removal left behind.
THEOREM TempFilesExact == Spec => []TempExact
  <1>1. FInv => TempExact
    BY DEF FInv
  <1> QED
    BY <1>1, TInit, TStep, FInit, FStep, PTL DEF Spec

-----------------------------------------------------------------------------
(* Concurrent copies *)

\* Some copy of h still runs and has written all it has done since the file
\* was last truncated.
Covered(h) ==
    \E t \in Task : /\ want[t] = h /\ copy[t].stage = "open"
                    /\ 1..copy[t].done \subseteq file[h]

\* A copy has done nothing before it opened its destination, and none runs
\* while its call still writes.
Fresh(t) ==
    /\ copy[t].stage \in {"none", "queued", "source"} => copy[t].done = 0
    /\ pc[t] \in {"temp_open", "temp_retry", "writing"} =>
           copy[t].stage = "none"

Converging(h) == file[h] \in {None, Content} \/ h \in damaged \/ Covered(h)

CopyInv == (\A t \in Task : Fresh(t)) /\ (\A h \in Hash : Converging(h))

LEMMA CInit == Init => CopyInv
  BY DEF Init, CopyInv, Fresh, NoCopy, Converging

LEMMA FreshStep == TInv /\ CopyInv /\ [Next]_vars => \A t \in Task : Fresh(t)'
  <1> SUFFICES ASSUME TInv, CopyInv, [Next]_vars, NEW u \in Task PROVE Fresh(u)'
    OBVIOUS
  <1> USE DEF tab, disk, own, up, hist, Idle
  <1>a. Types /\ Fresh(u)
    BY DEF TInv, TypeOK, CopyInv
  <1>1. ASSUME NEW t \in Task, NEW n \in Temp, NEW h \in Hash, TempName(t, n, h)
        PROVE  Fresh(u)'
    BY <1>1, <1>a DEF TempName, Types, Fresh, NoCopy
  <1>2. ASSUME NEW t \in Task, Complete(t)
        PROVE  Fresh(u)'
    BY <1>2, <1>a DEF Complete, Types, Fresh, NoCopy
  <1>3. ASSUME NEW t \in Task, CopySource(t) \/ CopyTruncate(t) \/ CopyEnd(t)
                               \/ CopyError(t) \/ CopyPiece(t)
        PROVE  Fresh(u)'
    BY <1>3, <1>a DEF CopySource, CopyTruncate, CopyPiece, CopyEnd, CopyError,
       Types, Fresh
  <1>4. ASSUME NEW t \in Task,
               \/ \E h \in Hash : GetLock(t, h)
               \/ \E p \in OutPath : StartLock(t, p)
               \/ \E deps \in SUBSET Hash : StartDeps(t, deps)
               \/ GetFound(t) \/ GetMissing(t) \/ Release(t)
               \/ StartFail(t) \/ Started(t)
        PROVE  Fresh(u)'
    BY <1>4, <1>a DEF GetLock, StartLock, StartDeps, GetFound, GetMissing,
       Release, StartFail, Started, Types, Fresh
  <1>5. ASSUME NEW t \in Task,
               \/ TempCreate(t) \/ TempRetry(t) \/ TempExhausted(t) \/ Write(t)
               \/ Land(t) \/ Abandon(t) \/ Stored(t) \/ NotStored(t)
               \/ Cancel(t)
        PROVE  Fresh(u)'
    BY <1>5, <1>a DEF TempCreate, TempRetry, TempExhausted, Write, Land,
       Abandon, Stored, NotStored, Cancel, Types, Fresh
  <1>6. ASSUME Crash
        PROVE  Fresh(u)'
    BY <1>6 DEF Crash, Fresh, NoCopy
  <1>7. ASSUME UNCHANGED vars
        PROVE  Fresh(u)'
    BY <1>7, <1>a DEF vars, Fresh
  <1> QED
    BY <1>1, <1>2, <1>3, <1>4, <1>5, <1>6, <1>7 DEF Next

\* A step that writes to no stored file and neither starts nor ends a copy
\* that is open.
Quiet ==
    /\ file' = file /\ damaged \subseteq damaged'
    /\ \A t \in Task : copy[t].stage = "open" =>
           want'[t] = want[t] /\ copy'[t] = copy[t]

LEMMA QuietStep == CopyInv /\ Quiet => \A h \in Hash : Converging(h)'
  BY DEF CopyInv, Converging, Quiet, Covered

LEMMA CStep == TInv /\ CopyInv /\ [Next]_vars => CopyInv'
  <1> SUFFICES ASSUME TInv, CopyInv, [Next]_vars, NEW h \in Hash
               PROVE  Converging(h)'
    BY FreshStep DEF CopyInv
  <1> USE DEF tab, disk, own, up, hist, Idle
  <1>a. /\ Types /\ Converging(h)
        /\ \A t \in Task : Fresh(t) /\ Shape(t)
    BY DEF TInv, TypeOK, CopyInv
  <1>1. ASSUME NEW t \in Task, CopyTruncate(t)
        PROVE  Converging(h)'
    <2>1. CASE h = want[t]
      <3>1. /\ file'[h] = {} /\ copy'[t].done = 0 /\ copy'[t].stage = "open"
            /\ want'[t] = h
        BY <1>1, <2>1, <1>a DEF CopyTruncate, Types, Fresh
      <3>2. 1..0 = {}
        OBVIOUS
      <3> QED
        BY <3>1, <3>2 DEF Converging, Covered
    <2>2. CASE h # want[t]
      <3>1. /\ file'[h] = file[h] /\ want' = want
            /\ h \in damaged => h \in damaged'
            /\ \A u \in Task : want[u] = h => copy'[u] = copy[u]
        BY <1>1, <2>2, <1>a DEF CopyTruncate, Types
      <3> QED
        BY <3>1, <1>a DEF Converging, Covered
    <2> QED
      BY <2>1, <2>2
  <1>2. ASSUME NEW t \in Task, CopyPiece(t)
        PROVE  Converging(h)'
    <2>1. CASE h = want[t]
      <3>1. /\ file'[h] = file[h] \cup {copy[t].done + 1}
            /\ copy'[t].done = copy[t].done + 1 /\ copy'[t].stage = "open"
            /\ want' = want /\ damaged' = damaged
            /\ \A u \in Task \ {t} : copy'[u] = copy[u]
            /\ copy[t].done + 1 \in Content /\ copy[t].done \in Nat
            /\ file[h] \in SUBSET Content
        BY <1>2, <2>1, <1>a, ChunksAssumption DEF CopyPiece, Types,
           Shape, Content
      <3>2. CASE file[h] = Content
        BY <3>1, <3>2 DEF Converging
      <3>3. CASE h \in damaged
        BY <3>1, <3>3 DEF Converging
      <3>4. CASE Covered(h)
        <4>1. PICK u \in Task : /\ want[u] = h /\ copy[u].stage = "open"
                                /\ 1..copy[u].done \subseteq file[h]
          BY <3>4 DEF Covered
        <4>2. CASE u = t
          <5>1. 1..(copy[t].done + 1)
                  = (1..copy[t].done) \cup {copy[t].done + 1}
            BY <3>1
          <5> QED
            BY <3>1, <4>1, <4>2, <5>1 DEF Converging, Covered
        <4>3. CASE u # t
          BY <3>1, <4>1, <4>3 DEF Converging, Covered
        <4> QED
          BY <4>2, <4>3
      <3>5. file[h] # None
        BY <3>1, NoneAssumption DEF Content
      <3> QED
        BY <3>2, <3>3, <3>4, <3>5, <1>a DEF Converging
    <2>2. CASE h # want[t]
      <3>1. /\ file'[h] = file[h] /\ want' = want /\ damaged' = damaged
            /\ \A u \in Task : want[u] = h => copy'[u] = copy[u]
        BY <1>2, <2>2, <1>a DEF CopyPiece, Types
      <3> QED
        BY <3>1, <1>a DEF Converging, Covered
    <2> QED
      BY <2>1, <2>2
  <1>3. ASSUME NEW t \in Task, CopyEnd(t)
        PROVE  Converging(h)'
    <2>1. /\ file' = file /\ want' = want /\ damaged \subseteq damaged'
          /\ \A u \in Task \ {t} : copy'[u] = copy[u]
          /\ want[t] \in damaged' \/ copy[t].done = Chunks
      <3>1. /\ UNCHANGED <<file, want>> /\ copy[t].done = landed[t]
            /\ copy' = [copy EXCEPT ![t].stage = "ok"]
            /\ damaged' = IF landed[t] < Chunks THEN damaged \cup {want[t]}
                                                ELSE damaged
        BY <1>3 DEF CopyEnd
      <3>2. landed[t] \in 0..Chunks
        BY <1>a DEF Types
      <3>3. want[t] \in damaged' \/ copy[t].done = Chunks
        BY <3>1, <3>2, ChunksAssumption
      <3>4. \A u \in Task \ {t} : copy'[u] = copy[u]
        BY <3>1, <1>a DEF Types
      <3> QED
        BY <3>1, <3>3, <3>4
    <2>2. ASSUME copy[t].done = Chunks, want[t] = h,
                 1..copy[t].done \subseteq file[h]
          PROVE  file[h] = Content
      BY <2>2, <1>3, <1>a DEF CopyEnd, Shape, Content
    <2> QED
      BY <2>1, <2>2, <1>a DEF Converging, Covered
  <1>4. ASSUME NEW t \in Task, CopyError(t)
        PROVE  Converging(h)'
    <2>1. /\ file' = file /\ want' = want /\ damaged \subseteq damaged'
          /\ \A u \in Task \ {t} : copy'[u] = copy[u]
          /\ copy[t].stage = "open" => want[t] \in damaged'
      BY <1>4, <1>a DEF CopyError, Types
    <2> QED
      BY <2>1, <1>a DEF Converging, Covered
  <1>5. ASSUME Crash
        PROVE  Converging(h)'
    <2>1. /\ file' = file
          /\ \A t \in Task : copy[t].stage = "open" => want[t] \in damaged'
      BY <1>5 DEF Crash
    <2>2. damaged \subseteq damaged'
      BY <1>5 DEF Crash
    <2> QED
      BY <2>1, <2>2, <1>a DEF Converging, Covered
  <1>6. ASSUME NEW t \in Task, NEW n \in Temp, NEW g \in Hash, TempName(t, n, g)
        PROVE  Quiet
    BY <1>6, <1>a DEF TempName, Ready, Types, Fresh, Quiet
  <1>7. ASSUME NEW t \in Task, Complete(t) \/ CopySource(t)
        PROVE  Quiet
    BY <1>7, <1>a DEF Complete, CopySource, Types, Fresh, Quiet
  <1>8. ASSUME NEW t \in Task,
               \/ \E g \in Hash : GetLock(t, g)
               \/ \E p \in OutPath : StartLock(t, p)
               \/ \E deps \in SUBSET Hash : StartDeps(t, deps)
               \/ GetFound(t) \/ GetMissing(t) \/ Release(t)
               \/ TempCreate(t) \/ TempRetry(t) \/ TempExhausted(t) \/ Write(t)
               \/ Land(t) \/ Abandon(t) \/ Stored(t) \/ NotStored(t)
               \/ StartFail(t) \/ Started(t) \/ Cancel(t)
        PROVE  Quiet
    BY <1>8 DEF GetLock, StartLock, StartDeps, GetFound, GetMissing, Release,
       TempCreate, TempRetry, TempExhausted, Write, Land, Abandon, Stored,
       NotStored, StartFail, Started, Cancel, Quiet
  <1>9. ASSUME UNCHANGED vars
        PROVE  Quiet
    BY <1>9 DEF vars, Quiet
  <1> QED
    BY <1>1, <1>2, <1>3, <1>4, <1>5, <1>6, <1>7, <1>8, <1>9, QuietStep DEF Next

\* Copies of one content over each other leave the whole content once they are
\* over, unless one ended short, or was cut by a crash, after the last of them
\* truncated the file: that last one writes all of it again.
THEOREM Converge == Spec => []CopiesConverge
  <1>1. CopyInv => CopiesConverge
    BY DEF CopyInv, Converging, Covered, CopiesConverge
  <1> QED
    BY <1>1, TInit, TStep, CInit, CStep, PTL DEF Spec
=============================================================================
