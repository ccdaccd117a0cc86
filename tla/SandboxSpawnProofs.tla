------------------------- MODULE SandboxSpawnProofs -------------------------
(***************************************************************************)
(* Proofs about SandboxSpawn for any number of requests and any sizes of   *)
(* the sockets' buffers.                                                   *)
(***************************************************************************)
EXTENDS SandboxSpawn, SequenceTheorems, TLAPS

LenOf(r)  == [part |-> "len", req |-> r]
BodyOf(r) == [part |-> "body", req |-> r]

\* The zygote has a request from its body to its response, and a response
\* to write only then.  The queue holds the descriptor of the message that is
\* being read, and of the request that is about to be forked.
ZygoteOK ==
    /\ zreq # None <=> zpc \in {"fork", "map", "await", "kill", "poll",
                                "respond", "spin"}
    /\ zpc = "respond" <=> zres # "none"
    /\ zpc \in {"len", "map", "await", "kill", "poll", "respond", "spin"}
           => zfds = <<>>
    /\ zpc = "body" => \E r \in Req : zfds = <<r>>
    /\ zpc = "fork" => zfds = <<zreq>>

\* Only the holder of the mutex writes.
MutexOK == \A r \in Req : pc[r] \in {"len", "body"} => mutex = r

\* A body follows the length of its own message, on the wire or in the zygote.
BodyFollows ==
    \A k \in 1..Len(wire) :
        wire[k].part = "body" =>
            IF k = 1
            THEN zpc # "dead" => zpc = "body" /\ zfds = <<wire[1].req>>
            ELSE wire[k - 1] = LenOf(wire[k].req)

\* Half a message, of a caller that is about to write the rest of it, is the
\* last thing written.
HalfLast ==
    \A r \in Req : pc[r] = "body" =>
        IF wire = <<>> THEN zpc # "dead" => zpc = "body" /\ zfds = <<r>>
                       ELSE wire[Len(wire)] = LenOf(r)

\* A length is followed by its body, unless that is still to come, or never
\* will; the zygote dies of the latter only.
LengthFollowed ==
    /\ \A k \in 1..Len(wire) :
           wire[k].part = "len" =>
               \/ pc[wire[k].req] = "cut"
               \/ k < Len(wire) /\ wire[k + 1] = BodyOf(wire[k].req)
               \/ k = Len(wire) /\ pc[wire[k].req] = "body"
    /\ \A r \in Req :
           zpc = "body" /\ zfds = <<r>> =>
               \/ pc[r] = "cut"
               \/ wire # <<>> /\ wire[1] = BodyOf(r)
               \/ wire = <<>> /\ pc[r] = "body"
    /\ zpc = "dead" => \E r \in Req : pc[r] = "cut"

\* The zygote has not begun with r.
Fresh(r) == /\ sup[r] = "none" /\ zreq # r
            /\ \A k \in 1..Len(replies) : replies[k].req # r

\* A request is worked on once.
Once ==
    /\ \A r \in Req : pc[r] # "ok" => Fresh(r)
    /\ \A k \in 1..Len(wire) :
           wire[k].part = "body" =>
               /\ pc[wire[k].req] = "ok" /\ Fresh(wire[k].req)
               /\ \A j \in 1..Len(wire) : wire[j] = wire[k] => j = k
    /\ zpc = "fork" => sup[zreq] = "none"
    /\ \A k \in 1..Len(replies) : replies[k].req # zreq

\* The supervisor of r is gone, or was left alive by the drop of its
\* ChildProcess with a SIGKILL under way or after an error.
Dropped(r) == ~Alive(r) \/ drops[r] # "none"

\* A running sandbox has a supervisor, and the failure of a spawn is answered
\* when the supervisor was dropped.
FailureOK ==
    \A r \in Req :
        /\ child[r] = "running" => sup[r] \in {"forked", "answered", "armed"}
        /\ zreq = r /\ zres = "err" => Dropped(r)
        /\ Reported(r) => Dropped(r)

IInv == /\ TypeOK /\ ZygoteOK /\ MutexOK
        /\ BodyFollows /\ HalfLast /\ LengthFollowed
        /\ OwnDescriptor
        /\ Once /\ FailureOK

-----------------------------------------------------------------------------
(* Lemmas about the messages *)

Parts == [part : {"len", "body"}, req : Req]

LEMMA PartType ==
    ASSUME NEW w \in Seq(Parts), NEW k \in 1..Len(w)
    PROVE  w[k] \in Parts /\ w[k].req \in Req /\ w[k].part \in {"len", "body"}
  <1>1. w[k] \in Parts
    BY ElementOfSeq
  <1> QED
    BY <1>1 DEF Parts

LEMMA Popped ==
    ASSUME NEW w \in Seq(Parts), w # <<>>
    PROVE  /\ Tail(w) \in Seq(Parts) /\ Len(w) \in Nat \ {0}
           /\ Len(Tail(w)) = Len(w) - 1
           /\ \A k \in 1..(Len(w) - 1) : Tail(w)[k] = w[k + 1]
           /\ Tail(w) = <<>> <=> Len(w) = 1
           /\ Head(w) = w[1] /\ w[1] \in Parts
  <1>1. /\ Tail(w) \in Seq(Parts) /\ Len(Tail(w)) = Len(w) - 1
        /\ \A k \in 1..Len(Tail(w)) : Tail(w)[k] = w[k + 1]
    BY HeadTailProperties
  <1>2. Len(w) \in Nat \ {0}
    BY EmptySeq
  <1>3. Tail(w) = <<>> <=> Len(w) = 1
    <2>1. Tail(w) # <<>> => Len(Tail(w)) \in Nat \ {0}
      BY <1>1, EmptySeq
    <2>2. Tail(w) = <<>> => Len(Tail(w)) = 0
      BY EmptySeq
    <2> QED
      BY <1>1, <1>2, <2>1, <2>2
  <1>4. Head(w) = w[1]
    OBVIOUS
  <1>5. w[1] \in Parts
    BY <1>2, ElementOfSeq
  <1> QED
    BY <1>1, <1>2, <1>3, <1>4, <1>5

LEMMA ReplyType ==
    ASSUME NEW w \in Seq([req : Req, res : {"ok", "err"}]),
           NEW k \in 1..Len(w)
    PROVE  w[k].req \in Req /\ w[k].res \in {"ok", "err"}
  <1>1. w[k] \in [req : Req, res : {"ok", "err"}]
    BY ElementOfSeq
  <1> QED
    BY <1>1

-----------------------------------------------------------------------------
(* The processes of a sandbox: they touch neither the wire nor the zygote. *)

\* What a step of the processes of one request must keep.
LEMMA SupStep ==
    ASSUME IInv, NEW r \in Req, UNCHANGED <<main, wire, zyg, supfd>>,
           Alive(r), sup'[r] # "none", TypeOK',
           \A q \in Req : q # r => /\ sup'[q] = sup[q] /\ child'[q] = child[q]
                                   /\ drops'[q] = drops[q],
           Dropped(r) => Dropped(r)',
           child'[r] = "running" => sup'[r] \in {"forked", "answered", "armed"}
    PROVE  IInv'
  <1> USE DEF main, zyg
  <1>1. ZygoteOK' /\ MutexOK' /\ OwnDescriptor'
    BY DEF IInv, ZygoteOK, MutexOK, OwnDescriptor
  <1>2. BodyFollows' /\ HalfLast' /\ LengthFollowed'
    BY DEF IInv, BodyFollows, HalfLast, LengthFollowed
  <1>3. \A q \in Req : sup'[q] = "none" <=> sup[q] = "none"
    BY DEF Alive
  <1>4. Once'
    <2>1. \A k \in 1..Len(wire) : wire[k].req \in Req
      BY PartType DEF IInv, TypeOK, Parts
    <2>2. zpc = "fork" => zreq \in Req
      BY DEF IInv, TypeOK, ZygoteOK
    <2>3. Once
      BY DEF IInv
    <2>4. \A q \in Req : pc[q] # "ok" => Fresh(q)'
      BY <1>3, <2>3 DEF Once, Fresh
    <2>5. \A k \in 1..Len(wire) : wire[k].part = "body" =>
              /\ pc[wire[k].req] = "ok"
              /\ sup'[wire[k].req] = "none" /\ zreq # wire[k].req
              /\ \A j \in 1..Len(replies) : replies[j].req # wire[k].req
              /\ \A j \in 1..Len(wire) : wire[j] = wire[k] => j = k
      BY <1>3, <2>1, <2>3 DEF Once, Fresh
    <2>6. zpc = "fork" => sup'[zreq] = "none"
      BY <1>3, <2>2, <2>3 DEF Once
    <2>7. \A k \in 1..Len(replies) : replies[k].req # zreq
      BY <2>3 DEF Once
    <2> QED
      BY <2>4, <2>5, <2>6, <2>7 DEF Once, Fresh
  <1>5. FailureOK'
    <2>1. FailureOK
      BY DEF IInv
    <2>2. \A q \in Req : Dropped(q) => Dropped(q)'
      BY DEF Dropped, Alive
    <2>3. \A q \in Req :
            child'[q] = "running" => sup'[q] \in {"forked", "answered", "armed"}
      BY <2>1 DEF FailureOK
    <2>4. \A q \in Req : Reported(q)' <=> Reported(q)
      BY DEF Reported
    <2> QED
      BY <2>1, <2>2, <2>3, <2>4 DEF FailureOK
  <1> QED
    BY <1>1, <1>2, <1>4, <1>5 DEF IInv

LEMMA SupervisorInv ==
    ASSUME IInv, NEW r \in Req, Supervisor(r)
    PROVE  IInv'
  <1> DEFINE Others == \A q \in Req : q # r => /\ sup'[q] = sup[q]
                                              /\ child'[q] = child[q]
                                              /\ drops'[q] = drops[q]
             Kept == /\ Alive(r) /\ sup'[r] # "none"
                     /\ Dropped(r) => Dropped(r)'
                     /\ child'[r] = "running" =>
                            sup'[r] \in {"forked", "answered", "armed"}
  <1> USE DEF Alive, Dropped, left
  <1>0. /\ TypeOK
        /\ child[r] = "running" => sup[r] \in {"forked", "answered", "armed"}
    BY DEF IInv, FailureOK
  <1>1. CASE SupRead(r)
    <2>1. UNCHANGED <<main, wire, zyg, supfd>>
      BY <1>1 DEF SupRead
    <2>2. TypeOK'
      BY <1>0, <1>1 DEF SupRead, TypeOK, main, zyg
    <2>3. Others
      BY <1>0, <1>1 DEF SupRead, TypeOK
    <2>4. Kept
      BY <1>0, <1>1 DEF SupRead, TypeOK
    <2> QED
      BY <2>1, <2>2, <2>3, <2>4, SupStep
  <1>2. CASE SupFork(r)
    <2>1. UNCHANGED <<main, wire, zyg, supfd>>
      BY <1>2 DEF SupFork
    <2>2. TypeOK'
      BY <1>0, <1>2 DEF SupFork, TypeOK, main, zyg
    <2>3. Others
      BY <1>0, <1>2 DEF SupFork, TypeOK
    <2>4. Kept
      BY <1>0, <1>2 DEF SupFork, TypeOK
    <2> QED
      BY <2>1, <2>2, <2>3, <2>4, SupStep
  <1>3. CASE SupFail(r)
    <2>1. UNCHANGED <<main, wire, zyg, supfd>>
      BY <1>3 DEF SupFail
    <2>2. TypeOK'
      BY <1>0, <1>3 DEF SupFail, TypeOK, main, zyg
    <2>3. Others
      BY <1>0, <1>3 DEF SupFail, TypeOK
    <2>4. Kept
      BY <1>0, <1>3 DEF SupFail, TypeOK
    <2> QED
      BY <2>1, <2>2, <2>3, <2>4, SupStep
  <1>4. CASE SupAnswer(r)
    <2>1. UNCHANGED <<main, wire, zyg, supfd>>
      BY <1>4 DEF SupAnswer
    <2>2. TypeOK'
      BY <1>0, <1>4 DEF SupAnswer, TypeOK, main, zyg
    <2>3. Others
      BY <1>0, <1>4 DEF SupAnswer, TypeOK
    <2>4. Kept
      BY <1>0, <1>4 DEF SupAnswer, TypeOK
    <2> QED
      BY <2>1, <2>2, <2>3, <2>4, SupStep
  <1>5. CASE SupArm(r)
    <2>1. UNCHANGED <<main, wire, zyg, supfd>>
      BY <1>5 DEF SupArm
    <2>2. TypeOK'
      BY <1>0, <1>5 DEF SupArm, TypeOK, main, zyg
    <2>3. Others
      BY <1>0, <1>5 DEF SupArm, TypeOK
    <2>4. Kept
      BY <1>0, <1>5 DEF SupArm, TypeOK
    <2> QED
      BY <2>1, <2>2, <2>3, <2>4, SupStep
  <1>6. CASE SupEnd(r)
    <2>1. UNCHANGED <<main, wire, zyg, supfd>>
      BY <1>6 DEF SupEnd
    <2>2. TypeOK'
      BY <1>0, <1>6 DEF SupEnd, Ends, TypeOK, main, zyg
    <2>3. Others
      BY <1>0, <1>6 DEF SupEnd, Ends, TypeOK
    <2>4. Kept
      BY <1>0, <1>6 DEF SupEnd, Ends, TypeOK
    <2> QED
      BY <2>1, <2>2, <2>3, <2>4, SupStep
  <1> QED
    BY <1>1, <1>2, <1>3, <1>4, <1>5, <1>6 DEF Supervisor

LEMMA SandboxInv ==
    ASSUME IInv, NEW r \in Req, SandboxExit(r) \/ SupKilled(r) \/ Sigkilled(r)
    PROVE  IInv'
  <1>0. TypeOK
    BY DEF IInv
  <1>1. CASE SandboxExit(r)
    <2>1. /\ UNCHANGED <<main, wire, zyg, sup, supfd, order, answer, left>>
          /\ child[r] = "running" /\ child' = [child EXCEPT ![r] = "exited"]
          /\ caught' = [caught EXCEPT ![r] = (@ \/ sup[r] = "armed")]
      BY <1>1 DEF SandboxExit
    <2>2. Alive(r)
      BY <2>1 DEF IInv, FailureOK, Alive
    <2>3. caught' \in [Req -> BOOLEAN]
      BY <1>0, <2>1 DEF TypeOK
    <2>4. TypeOK'
      BY <1>0, <2>1, <2>3 DEF TypeOK, zyg, main, left
    <2>5. /\ child'[r] = "exited" /\ sup' = sup /\ drops' = drops
          /\ \A q \in Req : q # r => child'[q] = child[q]
      BY <1>0, <2>1 DEF TypeOK, left
    <2>6. sup'[r] # "none" /\ (Dropped(r) => Dropped(r)')
      BY <2>2, <2>5 DEF Alive, Dropped
    <2> QED
      BY <2>1, <2>2, <2>4, <2>5, <2>6, SupStep
  <1>2. CASE SupKilled(r) \/ Sigkilled(r)
    <2>1. /\ UNCHANGED <<main, wire, zyg, supfd, answer>>
          /\ Alive(r) /\ Ends(r, "killed")
          /\ faults' = faults \/ (faults < MaxFault /\ faults' = faults + 1)
      BY <1>2 DEF SupKilled, Sigkilled, Fault
    <2>2. /\ child'[r] # "running" /\ sup'[r] = "killed"
          /\ \A q \in Req : q # r => /\ child'[q] = child[q]
                                     /\ sup'[q] = sup[q]
                                     /\ drops'[q] = drops[q]
      BY <1>0, <2>1 DEF Ends, TypeOK
    <2>3. /\ sup' \in [Req -> {"none", "wait", "setup", "forked", "answered",
                               "armed", "failed", "over", "killed"}]
          /\ order' \in [Req -> {"none", "proceed", "exit"}]
          /\ child' \in [Req -> {"none", "running", "exited"}]
          /\ caught' \in [Req -> BOOLEAN]
          /\ drops' \in [Req -> {"none", "sigkill", "error"}]
      BY <1>0, <2>1 DEF TypeOK, Ends
    <2>4. faults' \in 0..MaxFault
      BY <1>0, <2>1, FaultAssumption DEF TypeOK
    <2>5. TypeOK'
      BY <1>0, <2>1, <2>3, <2>4 DEF TypeOK, zyg, main
    <2>6. sup'[r] # "none" /\ Dropped(r)'
      BY <2>2 DEF Alive, Dropped
    <2> QED
      BY <2>1, <2>2, <2>5, <2>6, SupStep
  <1> QED
    BY <1>1, <1>2

-----------------------------------------------------------------------------
(* The main process: it touches neither the zygote nor the sandboxes.      *)

LEMMA LockInv ==
    ASSUME IInv, NEW r \in Req, Lock(r)
    PROVE  IInv'
  <1> USE DEF Lock, zyg, sups
  <1>1. TypeOK' /\ ZygoteOK' /\ OwnDescriptor'
    BY DEF IInv, TypeOK, ZygoteOK, OwnDescriptor
  <1>2. MutexOK'
    BY NoneAssumption DEF IInv, TypeOK, MutexOK
  <1>3. BodyFollows' /\ HalfLast'
    BY DEF IInv, TypeOK, BodyFollows, HalfLast
  <1>4. \A q \in Req : /\ pc[q] = "cut" <=> pc'[q] = "cut"
                       /\ pc[q] = "body" <=> pc'[q] = "body"
                       /\ pc[q] = "ok" <=> pc'[q] = "ok"
    BY DEF IInv, TypeOK
  <1>5. \A k \in 1..Len(wire) : wire[k].req \in Req
    BY PartType DEF IInv, TypeOK, Parts
  <1>6. LengthFollowed'
    BY <1>4, <1>5 DEF IInv, LengthFollowed
  <1>7. Once'
    BY <1>4, <1>5 DEF IInv, Once, Fresh
  <1>8. FailureOK'
    BY DEF IInv, FailureOK, Reported, Dropped, Alive
  <1> QED
    BY <1>1, <1>2, <1>3, <1>6, <1>7, <1>8 DEF IInv

LEMMA CancelInv ==
    ASSUME IInv, NEW r \in Req, Cancel(r)
    PROVE  IInv'
  <1> USE DEF Cancel, zyg, sups
  <1>1. TypeOK' /\ ZygoteOK' /\ OwnDescriptor'
    BY DEF IInv, TypeOK, ZygoteOK, OwnDescriptor
  <1>2. MutexOK'
    BY DEF IInv, TypeOK, MutexOK
  <1>3. BodyFollows' /\ HalfLast'
    BY DEF IInv, TypeOK, BodyFollows, HalfLast
  <1>4. /\ \A q \in Req : /\ pc[q] = "cut" => pc'[q] = "cut"
                          /\ pc[q] = "body" => pc'[q] \in {"body", "cut"}
                          /\ pc[q] = "ok" <=> pc'[q] = "ok"
    BY DEF IInv, TypeOK
  <1>5. \A k \in 1..Len(wire) : wire[k].req \in Req
    BY PartType DEF IInv, TypeOK, Parts
  <1>6. LengthFollowed'
    <2>1. LengthFollowed
      BY DEF IInv
    <2> QED
      BY <1>4, <1>5, <2>1 DEF LengthFollowed
  <1>7. Once'
    BY <1>4, <1>5 DEF IInv, Once, Fresh
  <1>8. FailureOK'
    BY DEF IInv, FailureOK, Reported, Dropped, Alive
  <1> QED
    BY <1>1, <1>2, <1>3, <1>6, <1>7, <1>8 DEF IInv

LEMMA SendLenInv ==
    ASSUME IInv, NEW r \in Req, SendLen(r)
    PROVE  IInv'
  <1> USE DEF SendLen, zyg, sups
  <1> DEFINE n == Len(wire)
  <1>1. /\ wire \in Seq(Parts) /\ n \in Nat
        /\ wire' \in Seq(Parts) /\ Len(wire') = n + 1
        /\ wire'[n + 1] = LenOf(r) /\ wire' # <<>>
        /\ \A k \in 1..n : wire'[k] = wire[k]
    <2>1. LenOf(r) \in Parts /\ wire \in Seq(Parts)
      BY DEF LenOf, Parts, IInv, TypeOK
    <2> QED
      BY <2>1, AppendProperties, LenProperties DEF LenOf
  <1>2. \A k \in 1..n : wire[k].req \in Req
    BY <1>1, PartType
  <1>3. /\ pc[r] = "len" /\ pc'[r] = "body" /\ mutex' = mutex
        /\ \A q \in Req : q # r => pc'[q] = pc[q] /\ pc'[q] # "body"
    BY DEF IInv, TypeOK, MutexOK
  <1> HIDE DEF n
  <1>4. TypeOK'
    <2>1. Len(wire') <= WireCap
      BY <1>1, CapAssumption DEF n
    <2> QED
      BY <1>1, <2>1 DEF IInv, TypeOK, Parts
  <1>5. ZygoteOK' /\ OwnDescriptor'
    BY DEF IInv, ZygoteOK, OwnDescriptor
  <1>6. MutexOK'
    BY <1>3 DEF IInv, MutexOK
  <1>7. BodyFollows'
    BY <1>1 DEF IInv, BodyFollows, LenOf, n
  <1>8. HalfLast'
    BY <1>1, <1>3 DEF HalfLast
  <1>9. LengthFollowed'
    <2>0. LengthFollowed
      BY DEF IInv
    <2>1. ASSUME NEW k \in 1..(n + 1), wire'[k].part = "len"
          PROVE  \/ pc'[wire'[k].req] = "cut"
                 \/ k < n + 1 /\ wire'[k + 1] = BodyOf(wire'[k].req)
                 \/ k = n + 1 /\ pc'[wire'[k].req] = "body"
      <3>1. CASE k = n + 1
        BY <1>1, <1>3, <3>1 DEF LenOf
      <3>2. CASE k \in 1..n
        <4>1. wire'[k] = wire[k] /\ wire[k].req \in Req
          BY <1>1, <1>2, <3>2
        <4>2. k < n => wire'[k + 1] = wire[k + 1]
          BY <1>1, <3>2
        <4>3. pc[wire[k].req] # "body"
          BY <1>3, <4>1
        <4> QED
          BY <1>3, <2>0, <2>1, <3>2, <4>1, <4>2, <4>3 DEF LengthFollowed, n
      <3> QED
        BY <1>1, <3>1, <3>2
    <2>2. ASSUME NEW q \in Req, zpc = "body", zfds = <<q>>
          PROVE  pc'[q] = "cut" \/ wire'[1] = BodyOf(q)
      <3>1. pc[q] # "body"
        BY <1>3
      <3>2. wire # <<>> => wire'[1] = wire[1]
        BY <1>1, EmptySeq DEF n
      <3> QED
        BY <1>3, <2>0, <2>2, <3>1, <3>2 DEF LengthFollowed
    <2>3. zpc = "dead" => \E q \in Req : pc'[q] = "cut"
      BY <1>3, <2>0 DEF LengthFollowed
    <2> QED
      BY <1>1, <2>1, <2>2, <2>3 DEF LengthFollowed
  <1>10. Once'
    <2>1. Once
      BY DEF IInv
    <2>2. \A q \in Req : pc'[q] # "ok" => Fresh(q)'
      BY <1>3, <2>1 DEF Once, Fresh
    <2>3. ASSUME NEW k \in 1..(n + 1), wire'[k].part = "body"
          PROVE  /\ pc'[wire'[k].req] = "ok" /\ sup[wire'[k].req] = "none"
                 /\ zreq # wire'[k].req
                 /\ \A j \in 1..Len(replies) : replies[j].req # wire'[k].req
                 /\ \A j \in 1..(n + 1) : wire'[j] = wire'[k] => j = k
      <3>1. k \in 1..n
        BY <1>1, <2>3 DEF LenOf
      <3>2. wire'[n + 1] # wire'[k] /\ wire'[k] = wire[k]
        BY <1>1, <2>3, <3>1 DEF LenOf
      <3>3. wire[k].req \in Req
        BY <1>2, <3>1
      <3>4. /\ pc[wire[k].req] = "ok" /\ Fresh(wire[k].req)
            /\ \A j \in 1..n : wire[j] = wire[k] => j = k
        BY <2>1, <2>3, <3>1, <3>2 DEF Once, n
      <3>5. pc'[wire[k].req] = "ok"
        BY <1>3, <3>3, <3>4
      <3>6. \A j \in 1..(n + 1) : wire'[j] = wire'[k] => j = k
        BY <1>1, <3>2, <3>4
      <3> QED
        BY <3>2, <3>4, <3>5, <3>6 DEF Fresh
    <2> QED
      BY <1>1, <2>1, <2>2, <2>3 DEF Once, Fresh
  <1>11. FailureOK'
    BY DEF IInv, FailureOK, Reported, Dropped, Alive
  <1> QED
    BY <1>4, <1>5, <1>6, <1>7, <1>8, <1>9, <1>10, <1>11 DEF IInv

LEMMA SendBodyInv ==
    ASSUME IInv, NEW r \in Req, SendBody(r)
    PROVE  IInv'
  <1> USE DEF SendBody, zyg, sups
  <1> DEFINE n == Len(wire)
  <1>1. /\ wire \in Seq(Parts) /\ n \in Nat
        /\ wire' \in Seq(Parts) /\ Len(wire') = n + 1
        /\ wire'[n + 1] = BodyOf(r) /\ wire' # <<>>
        /\ \A k \in 1..n : wire'[k] = wire[k]
        /\ wire = <<>> <=> n = 0
    <2>1. BodyOf(r) \in Parts /\ wire \in Seq(Parts)
      BY DEF BodyOf, Parts, IInv, TypeOK
    <2> QED
      BY <2>1, AppendProperties, LenProperties, EmptySeq DEF BodyOf
  <1>2. \A k \in 1..n : wire[k].req \in Req
    BY <1>1, PartType
  <1>3. /\ pc[r] = "body" /\ pc'[r] = "ok"
        /\ \A q \in Req : q # r => /\ pc'[q] = pc[q]
                                  /\ pc'[q] \notin {"len", "body"}
    BY DEF IInv, TypeOK, MutexOK
  <1>a. IF n = 0 THEN zpc # "dead" => zpc = "body" /\ zfds = <<r>>
                 ELSE wire[n] = LenOf(r)
    BY <1>1, <1>3 DEF IInv, HalfLast
  <1> HIDE DEF n
  <1>4. TypeOK'
    <2>1. Len(wire') <= WireCap
      BY <1>1, CapAssumption DEF n
    <2>2. mutex' = None /\ pc' = [pc EXCEPT ![r] = "ok"]
      OBVIOUS
    <2> QED
      BY <1>1, <2>1, <2>2 DEF IInv, TypeOK, Parts
  <1>5. ZygoteOK' /\ OwnDescriptor'
    BY DEF IInv, ZygoteOK, OwnDescriptor
  <1>6. MutexOK'
    BY <1>3 DEF IInv, MutexOK
  <1>7. BodyFollows'
    <2>1. ASSUME NEW k \in 1..(n + 1), wire'[k].part = "body"
          PROVE  IF k = 1
                 THEN zpc # "dead" => zpc = "body" /\ zfds = <<wire'[1].req>>
                 ELSE wire'[k - 1] = LenOf(wire'[k].req)
      <3>1. CASE k = n + 1
        BY <1>1, <1>a, <3>1 DEF BodyOf
      <3>2. CASE k \in 1..n
        <4>1. wire'[k] = wire[k] /\ (k # 1 => wire'[k - 1] = wire[k - 1])
          BY <1>1, <3>2
        <4> QED
          BY <2>1, <3>2, <4>1 DEF IInv, BodyFollows, n
      <3> QED
        BY <1>1, <3>1, <3>2
    <2> QED
      BY <1>1, <2>1 DEF BodyFollows
  <1>8. HalfLast'
    BY <1>3 DEF HalfLast
  <1>9. LengthFollowed'
    <2>0. LengthFollowed
      BY DEF IInv
    <2>1. ASSUME NEW k \in 1..(n + 1), wire'[k].part = "len"
          PROVE  \/ pc'[wire'[k].req] = "cut"
                 \/ k < n + 1 /\ wire'[k + 1] = BodyOf(wire'[k].req)
      <3>1. k \in 1..n
        BY <1>1, <2>1 DEF BodyOf
      <3>2. wire'[k] = wire[k] /\ wire[k].req \in Req
        BY <1>1, <1>2, <3>1
      <3>3. CASE pc[wire[k].req] = "cut"
        BY <1>3, <3>2, <3>3
      <3>4. CASE k < n /\ wire[k + 1] = BodyOf(wire[k].req)
        BY <1>1, <3>1, <3>2, <3>4
      <3>5. CASE k = n /\ pc[wire[k].req] = "body"
        <4>1. wire[k].req = r
          BY <1>3, <3>2, <3>5
        <4> QED
          BY <1>1, <3>2, <3>5, <4>1
      <3> QED
        BY <2>0, <2>1, <3>1, <3>2, <3>3, <3>4, <3>5 DEF LengthFollowed, n
    <2>2. ASSUME NEW q \in Req, zpc = "body", zfds = <<q>>
          PROVE  pc'[q] = "cut" \/ wire'[1] = BodyOf(q)
      <3>1. CASE pc[q] = "cut"
        BY <1>3, <3>1
      <3>2. CASE wire # <<>> /\ wire[1] = BodyOf(q)
        BY <1>1, <3>2
      <3>3. CASE wire = <<>> /\ pc[q] = "body"
        BY <1>1, <1>3, <3>3
      <3> QED
        BY <2>0, <2>2, <3>1, <3>2, <3>3 DEF LengthFollowed
    <2>3. zpc = "dead" => \E q \in Req : pc'[q] = "cut"
      BY <1>3, <2>0 DEF LengthFollowed
    <2> QED
      BY <1>1, <2>1, <2>2, <2>3 DEF LengthFollowed
  <1>10. Once'
    <2>1. Once
      BY DEF IInv
    <2>2. \A q \in Req : pc'[q] # "ok" => Fresh(q)'
      BY <1>3, <2>1 DEF Once, Fresh
    <2>3. ASSUME NEW k \in 1..(n + 1), wire'[k].part = "body"
          PROVE  /\ pc'[wire'[k].req] = "ok" /\ sup[wire'[k].req] = "none"
                 /\ zreq # wire'[k].req
                 /\ \A j \in 1..Len(replies) : replies[j].req # wire'[k].req
                 /\ \A j \in 1..(n + 1) : wire'[j] = wire'[k] => j = k
      <3>1. \A j \in 1..n : wire[j] # BodyOf(r)
        BY <1>3, <2>1 DEF Once, n, BodyOf
      <3>2. CASE k = n + 1
        <4>1. wire'[k] = BodyOf(r) /\ wire'[k].req = r
          BY <1>1, <3>2 DEF BodyOf
        <4>2. Fresh(r)
          BY <1>3, <2>1 DEF Once
        <4>3. \A j \in 1..(n + 1) : wire'[j] = wire'[k] => j = k
          BY <1>1, <3>1, <3>2, <4>1
        <4> QED
          BY <1>3, <4>1, <4>2, <4>3 DEF Fresh
      <3>3. CASE k \in 1..n
        <4>1. wire'[k] = wire[k] /\ wire[k].req \in Req
          BY <1>1, <1>2, <3>3
        <4>2. /\ pc[wire[k].req] = "ok" /\ Fresh(wire[k].req)
              /\ \A j \in 1..n : wire[j] = wire[k] => j = k
          BY <2>1, <2>3, <3>3, <4>1 DEF Once, n
        <4>3. pc'[wire[k].req] = "ok"
          BY <1>3, <4>1, <4>2
        <4>4. \A j \in 1..(n + 1) : wire'[j] = wire'[k] => j = k
          BY <1>1, <3>1, <3>3, <4>1, <4>2
        <4> QED
          BY <4>1, <4>2, <4>3, <4>4 DEF Fresh
      <3> QED
        BY <1>1, <3>2, <3>3
    <2> QED
      BY <1>1, <2>1, <2>2, <2>3 DEF Once, Fresh
  <1>11. FailureOK'
    BY DEF IInv, FailureOK, Reported, Dropped, Alive
  <1> QED
    BY <1>4, <1>5, <1>6, <1>7, <1>8, <1>9, <1>10, <1>11 DEF IInv

-----------------------------------------------------------------------------
(* The zygote reads.                                                       *)

LEMMA ReadLenInv ==
    ASSUME IInv, ReadLen
    PROVE  IInv'
  <1> USE DEF ReadLen, main, sups
  <1> DEFINE n == Len(wire)  r == wire[1].req
  <1>1. /\ wire \in Seq(Parts) /\ wire' \in Seq(Parts)
        /\ n \in Nat \ {0} /\ Len(wire') = n - 1
        /\ \A k \in 1..(n - 1) : wire'[k] = wire[k + 1]
        /\ Head(wire) = wire[1]
        /\ wire' = <<>> <=> n = 1
    <2>1. wire \in Seq(Parts) /\ wire # <<>> /\ wire' = Tail(wire)
      BY DEF IInv, TypeOK, Parts
    <2> QED
      BY <2>1, Popped
  <1>2. \A k \in 1..n : wire[k].req \in Req /\ wire[k].part \in {"len", "body"}
    BY <1>1, PartType
  <1>3. wire[1] = LenOf(r) /\ r \in Req
    <2>1. wire[1].part # "body"
      BY <1>1 DEF IInv, BodyFollows
    <2>2. wire[1] \in Parts
      BY <1>1, PartType
    <2> QED
      BY <1>1, <1>2, <2>1, <2>2 DEF LenOf, Parts
  <1>4. zpc = "len" /\ zfds = <<>> /\ zreq = None /\ zres = "none"
    BY DEF IInv, TypeOK, ZygoteOK
  <1>5. zpc' = "body" /\ zfds' = <<r>>
    BY <1>1, <1>3, <1>4 DEF LenOf
  <1>6. /\ pc' = pc /\ mutex' = mutex /\ zreq' = zreq /\ zres' = zres
        /\ replies' = replies /\ sups' = sups
    OBVIOUS
  <1> HIDE DEF n, r, ReadLen
  <1>7. TypeOK'
    <2>1. Len(wire') <= WireCap
      BY <1>1, CapAssumption DEF IInv, TypeOK, n
    <2>2. zfds' \in Seq(Req) /\ Len(zfds') <= 1
      BY <1>3, <1>5
    <2> QED
      BY <1>1, <1>5, <1>6, <2>1, <2>2 DEF IInv, TypeOK, Parts
  <1>8. ZygoteOK' /\ MutexOK' /\ OwnDescriptor'
    BY <1>3, <1>4, <1>5, <1>6 DEF IInv, ZygoteOK, MutexOK, OwnDescriptor
  <1>9. BodyFollows'
    <2>1. ASSUME NEW k \in 1..(n - 1), wire'[k].part = "body"
          PROVE  IF k = 1 THEN wire'[1].req = r
                          ELSE wire'[k - 1] = LenOf(wire'[k].req)
      <3>1. wire[k] = LenOf(wire'[k].req)
        BY <1>1, <2>1 DEF IInv, BodyFollows, n
      <3> QED
        BY <1>1, <1>3, <3>1 DEF LenOf
    <2> QED
      BY <1>1, <1>5, <2>1 DEF BodyFollows
  <1>10. HalfLast'
    <2>1. ASSUME NEW q \in Req, pc[q] = "body"
          PROVE  IF wire' = <<>> THEN q = r ELSE wire'[n - 1] = LenOf(q)
      <3>1. wire[n] = LenOf(q)
        BY <1>1, <2>1, EmptySeq DEF IInv, HalfLast, n
      <3> QED
        BY <1>1, <1>3, <3>1 DEF LenOf
    <2> QED
      BY <1>1, <1>5, <1>6, <2>1 DEF HalfLast
  <1>11. LengthFollowed'
    <2>0. LengthFollowed
      BY DEF IInv
    <2>1. ASSUME NEW k \in 1..(n - 1), wire'[k].part = "len"
          PROVE  \/ pc[wire'[k].req] = "cut"
                 \/ k < n - 1 /\ wire'[k + 1] = BodyOf(wire'[k].req)
                 \/ k = n - 1 /\ pc[wire'[k].req] = "body"
      <3>1. wire'[k] = wire[k + 1] /\ k + 1 \in 1..n
        BY <1>1
      <3>2. k < n - 1 => wire'[k + 1] = wire[(k + 1) + 1]
        BY <1>1
      <3>3. \/ pc[wire[k + 1].req] = "cut"
            \/ k + 1 < n /\ wire[(k + 1) + 1] = BodyOf(wire[k + 1].req)
            \/ k + 1 = n /\ pc[wire[k + 1].req] = "body"
        BY <2>0, <2>1, <3>1 DEF LengthFollowed, n
      <3> QED
        BY <1>1, <3>1, <3>2, <3>3
    <2>2. ASSUME NEW q \in Req, zfds' = <<q>>
          PROVE  \/ pc[q] = "cut"
                 \/ wire' # <<>> /\ wire'[1] = BodyOf(q)
                 \/ wire' = <<>> /\ pc[q] = "body"
      <3>1. q = r
        BY <1>5, <2>2
      <3>2. \/ pc[r] = "cut"
            \/ 1 < n /\ wire[1 + 1] = BodyOf(r)
            \/ 1 = n /\ pc[r] = "body"
        BY <1>1, <1>3, <2>0 DEF LengthFollowed, n, LenOf
      <3>3. 1 < n => wire'[1] = wire[1 + 1]
        BY <1>1
      <3> QED
        BY <1>1, <3>1, <3>2, <3>3
    <2> QED
      BY <1>1, <1>5, <1>6, <2>1, <2>2 DEF LengthFollowed
  <1>12. Once'
    <2>1. Once
      BY DEF IInv
    <2>2. ASSUME NEW k \in 1..(n - 1), wire'[k].part = "body"
          PROVE  /\ pc[wire'[k].req] = "ok" /\ sup[wire'[k].req] = "none"
                 /\ zreq # wire'[k].req
                 /\ \A j \in 1..Len(replies) : replies[j].req # wire'[k].req
                 /\ \A j \in 1..(n - 1) : wire'[j] = wire'[k] => j = k
      <3>1. wire'[k] = wire[k + 1] /\ k + 1 \in 1..n
        BY <1>1
      <3>2. /\ pc[wire[k + 1].req] = "ok" /\ Fresh(wire[k + 1].req)
            /\ \A j \in 1..n : wire[j] = wire[k + 1] => j = k + 1
        BY <2>1, <2>2, <3>1 DEF Once, n
      <3>3. \A j \in 1..(n - 1) : wire'[j] = wire'[k] => j = k
        BY <1>1, <3>1, <3>2
      <3> QED
        BY <3>1, <3>2, <3>3 DEF Fresh
    <2> QED
      BY <1>1, <1>5, <1>6, <2>1, <2>2 DEF Once, Fresh
  <1>13. FailureOK'
    BY <1>6 DEF IInv, FailureOK, Dropped, Alive, Reported, sups
  <1> QED
    BY <1>7, <1>8, <1>9, <1>10, <1>11, <1>12, <1>13 DEF IInv

LEMMA ReadBodyInv ==
    ASSUME IInv, ReadBody
    PROVE  IInv'
  <1> USE DEF ReadBody, main, sups
  <1> DEFINE n == Len(wire)  r == wire[1].req
  <1>1. /\ wire \in Seq(Parts) /\ wire' \in Seq(Parts)
        /\ n \in Nat \ {0} /\ Len(wire') = n - 1
        /\ \A k \in 1..(n - 1) : wire'[k] = wire[k + 1]
        /\ Head(wire) = wire[1]
        /\ wire' = <<>> <=> n = 1
    <2>1. wire \in Seq(Parts) /\ wire # <<>> /\ wire' = Tail(wire)
      BY DEF IInv, TypeOK, Parts
    <2> QED
      BY <2>1, Popped
  <1>2. \A k \in 1..n : wire[k].req \in Req /\ wire[k].part \in {"len", "body"}
    BY <1>1, PartType
  <1>3. wire[1] \in Parts /\ r \in Req
    BY <1>1, <1>2, PartType
  <1>4. zpc = "body" /\ zreq = None /\ zres = "none"
        /\ \E q \in Req : zfds = <<q>>
    BY DEF IInv, TypeOK, ZygoteOK
  <1>5. /\ pc' = pc /\ mutex' = mutex /\ zfds' = zfds /\ zres' = zres
        /\ replies' = replies /\ sups' = sups
    OBVIOUS
  <1>6. \/ wire[1].part = "body" /\ zpc' = "fork" /\ zreq' = r
        \/ wire[1].part = "len" /\ zpc' = "dead" /\ zreq' = None
    BY <1>1, <1>2, <1>4
  <1>7. wire[1].part = "body" => /\ zfds = <<r>> /\ wire[1] = BodyOf(r)
                                /\ pc[r] = "ok" /\ Fresh(r)
    BY <1>1, <1>3, <1>4 DEF IInv, BodyFollows, BodyOf, Parts, Once
  <1> HIDE DEF n, r, ReadBody
  <1>8. TypeOK'
    <2>1. Len(wire') <= WireCap
      BY <1>1, CapAssumption DEF IInv, TypeOK, n
    <2>2. zreq' \in Req \cup {None} /\ zpc' \in {"fork", "dead"}
      BY <1>3, <1>6
    <2> QED
      BY <1>1, <1>5, <2>1, <2>2 DEF IInv, TypeOK, Parts
  <1>9. ZygoteOK' /\ MutexOK' /\ OwnDescriptor'
    BY <1>3, <1>4, <1>5, <1>6, <1>7, NoneAssumption
       DEF IInv, ZygoteOK, MutexOK, OwnDescriptor
  <1>10. BodyFollows'
    <2>1. ASSUME NEW k \in 1..(n - 1), wire'[k].part = "body"
          PROVE  IF k = 1 THEN zpc' = "dead"
                          ELSE wire'[k - 1] = LenOf(wire'[k].req)
      <3>1. wire[k] = LenOf(wire'[k].req)
        BY <1>1, <2>1 DEF IInv, BodyFollows, n
      <3>2. k = 1 => zpc' = "dead"
        BY <1>1, <1>6, <2>1, <3>1 DEF LenOf
      <3> QED
        BY <1>1, <3>1, <3>2
    <2> QED
      BY <1>1, <2>1 DEF BodyFollows
  <1>11. HalfLast'
    <2>1. ASSUME NEW q \in Req, pc[q] = "body"
          PROVE  IF wire' = <<>> THEN zpc' = "dead" ELSE wire'[n - 1] = LenOf(q)
      <3>1. wire[n] = LenOf(q)
        BY <1>1, <2>1, EmptySeq DEF IInv, HalfLast, n
      <3> QED
        BY <1>1, <1>6, <3>1 DEF LenOf
    <2> QED
      BY <1>1, <1>5, <2>1 DEF HalfLast
  <1>12. LengthFollowed'
    <2>0. LengthFollowed
      BY DEF IInv
    <2>1. ASSUME NEW k \in 1..(n - 1), wire'[k].part = "len"
          PROVE  \/ pc[wire'[k].req] = "cut"
                 \/ k < n - 1 /\ wire'[k + 1] = BodyOf(wire'[k].req)
                 \/ k = n - 1 /\ pc[wire'[k].req] = "body"
      <3>1. wire'[k] = wire[k + 1] /\ k + 1 \in 1..n
        BY <1>1
      <3>2. k < n - 1 => wire'[k + 1] = wire[(k + 1) + 1]
        BY <1>1
      <3>3. \/ pc[wire[k + 1].req] = "cut"
            \/ k + 1 < n /\ wire[(k + 1) + 1] = BodyOf(wire[k + 1].req)
            \/ k + 1 = n /\ pc[wire[k + 1].req] = "body"
        BY <2>0, <2>1, <3>1 DEF LengthFollowed, n
      <3> QED
        BY <1>1, <3>1, <3>2, <3>3
    <2>2. zpc' = "dead" => \E q \in Req : pc[q] = "cut"
      <3>1. PICK q \in Req : zfds = <<q>>
        BY <1>4
      <3>2. wire[1].part = "len" => wire[1] # BodyOf(q)
        BY DEF BodyOf
      <3> QED
        BY <1>1, <1>4, <1>6, <2>0, <3>1, <3>2, EmptySeq DEF LengthFollowed, n
    <2> QED
      BY <1>1, <1>5, <1>6, <2>1, <2>2 DEF LengthFollowed
  <1>13. Once'
    <2>1. Once
      BY DEF IInv
    <2>2. ASSUME NEW k \in 1..(n - 1), wire'[k].part = "body"
          PROVE  /\ pc[wire'[k].req] = "ok" /\ sup[wire'[k].req] = "none"
                 /\ zreq' # wire'[k].req
                 /\ \A j \in 1..Len(replies) : replies[j].req # wire'[k].req
                 /\ \A j \in 1..(n - 1) : wire'[j] = wire'[k] => j = k
      <3>1. wire'[k] = wire[k + 1] /\ k + 1 \in 1..n
        BY <1>1
      <3>2. /\ pc[wire[k + 1].req] = "ok" /\ Fresh(wire[k + 1].req)
            /\ \A j \in 1..n : wire[j] = wire[k + 1] => j = k + 1
        BY <2>1, <2>2, <3>1 DEF Once, n
      <3>3. \A j \in 1..(n - 1) : wire'[j] = wire'[k] => j = k
        BY <1>1, <3>1, <3>2
      <3>4. zreq' # wire'[k].req
        <4>1. wire[1] # wire[k + 1]
          BY <1>1, <3>1, <3>2
        <4>2. wire[k + 1] = BodyOf(wire[k + 1].req)
          <5>1. wire[k + 1] \in Parts
            BY <1>1, <3>1, PartType
          <5> QED
            BY <2>2, <3>1, <5>1 DEF Parts, BodyOf
        <4>3. wire[k + 1].req \in Req
          BY <1>2, <3>1
        <4> QED
          BY <1>6, <1>7, <3>1, <4>1, <4>2, <4>3, NoneAssumption
      <3> QED
        BY <3>1, <3>2, <3>3, <3>4 DEF Fresh
    <2>3. \A q \in Req : pc[q] # "ok" => Fresh(q)'
      BY <1>4, <1>5, <1>6, <1>7, <2>1, NoneAssumption DEF Once, Fresh
    <2>4. zpc' = "fork" => sup[zreq'] = "none"
      BY <1>6, <1>7 DEF Fresh
    <2>5. \A k \in 1..Len(replies) : replies[k].req # zreq'
      BY <1>4, <1>6, <1>7, <2>1 DEF Once, Fresh
    <2> QED
      BY <1>1, <1>5, <2>2, <2>3, <2>4, <2>5 DEF Once, Fresh
  <1>14. FailureOK'
    BY <1>4, <1>5
       DEF IInv, FailureOK, Dropped, Alive, Reported, sups
  <1> QED
    BY <1>8, <1>9, <1>10, <1>11, <1>12, <1>13, <1>14 DEF IInv

-----------------------------------------------------------------------------
(* The zygote works on a request: it does not touch the wire.              *)

LEMMA AtWork ==
    ASSUME IInv, UNCHANGED <<main, wire>>,
           zpc \notin {"len", "body", "dead"}, zpc' \notin {"body", "dead"}
    PROVE  MutexOK' /\ BodyFollows' /\ HalfLast' /\ LengthFollowed'
  <1> USE DEF main
  <1>1. MutexOK'
    BY DEF IInv, MutexOK
  <1>2. BodyFollows'
    BY DEF IInv, BodyFollows
  <1>3. HalfLast'
    BY DEF IInv, HalfLast
  <1>4. LengthFollowed'
    BY DEF IInv, LengthFollowed
  <1> QED
    BY <1>1, <1>2, <1>3, <1>4

\* The steps between the fork and the response leave the processes alone; they
\* pass messages and signals.
LEMMA BetweenInv ==
    ASSUME IInv, \/ ForkFail \/ Map \/ MapFail \/ Answered \/ AnswerLost \/ Spin
                 \/ Term \/ Reap \/ Sigkill \/ KillError
    PROVE  IInv'
  <1>0. TypeOK /\ (zpc # "respond" => zres = "none")
    BY DEF IInv, ZygoteOK
  <1>1. /\ UNCHANGED <<main, wire, zreq, replies, sup, supfd, child>>
        /\ zpc \in {"fork", "map", "await", "kill", "poll"}
        /\ zpc' \in {"map", "await", "kill", "poll", "respond", "spin"}
        /\ zpc' = "respond" <=> zres' # "none"
        /\ zres' \in {"none", "ok", "err"}
    <2>1. CASE ForkFail
      BY <1>0, <2>1 DEF ForkFail, sups
    <2>2. CASE Map \/ MapFail
      BY <1>0, <2>2 DEF Map, MapFail
    <2>3. CASE Answered \/ AnswerLost \/ Spin
      BY <1>0, <2>3 DEF Answered, AnswerLost, Spin, sups
    <2>4. CASE Term \/ Reap \/ Sigkill \/ KillError
      BY <1>0, <2>4 DEF Term, Reap, Sigkill, KillError, Failed, sups
    <2> QED
      BY <2>1, <2>2, <2>3, <2>4
  <1>2. zfds' = <<>>
    <2>1. CASE ForkFail
      <3>1. zfds = <<zreq>>
        BY <2>1 DEF ForkFail, IInv, ZygoteOK
      <3> QED
        BY <2>1, <3>1 DEF ForkFail
    <2>2. CASE Map \/ MapFail \/ Answered \/ AnswerLost \/ Spin
      BY <2>2 DEF Map, MapFail, Answered, AnswerLost, Spin, IInv, ZygoteOK
    <2>3. CASE Term \/ Reap \/ Sigkill \/ KillError
      BY <2>3 DEF Term, Reap, Sigkill, KillError, IInv, ZygoteOK
    <2> QED
      BY <2>1, <2>2, <2>3
  <1>3. zreq \in Req
    BY <1>1, NoneAssumption DEF IInv, ZygoteOK, TypeOK
  <1>4. /\ order' \in [Req -> {"none", "proceed", "exit"}]
        /\ answer' \in [Req -> {"none", "ok", "err"}]
        /\ caught' \in [Req -> BOOLEAN]
        /\ drops' \in [Req -> {"none", "sigkill", "error"}]
        /\ faults' \in 0..MaxFault
    <2>1. CASE ForkFail \/ Spin \/ Reap
      BY <1>0, <2>1 DEF ForkFail, Spin, Reap, TypeOK, sups
    <2>2. CASE Map \/ MapFail
      BY <1>0, <1>3, <2>2 DEF Map, MapFail, TypeOK, left
    <2>3. CASE Answered
      BY <1>0, <1>3, <2>3 DEF Answered, TypeOK, left
    <2>4. CASE AnswerLost
      BY <1>0, <2>4, FaultAssumption DEF AnswerLost, Fault, TypeOK
    <2>5. CASE Term
      BY <1>0, <1>3, <2>5 DEF Term, TypeOK, left
    <2>6. CASE Sigkill \/ KillError
      BY <1>0, <1>3, <2>6, FaultAssumption
         DEF Sigkill, KillError, Fault, TypeOK
    <2> QED
      BY <2>1, <2>2, <2>3, <2>4, <2>5, <2>6
  <1>5. TypeOK'
    <2>1. zfds' \in Seq(Req) /\ Len(zfds') <= 1
      BY <1>2
    <2> QED
      BY <1>0, <1>1, <1>4, <2>1 DEF TypeOK, main
  <1>6. ZygoteOK' /\ OwnDescriptor'
    BY <1>1, <1>2, <1>3, NoneAssumption DEF IInv, ZygoteOK, OwnDescriptor
  <1>7. MutexOK' /\ BodyFollows' /\ HalfLast' /\ LengthFollowed'
    BY <1>1, AtWork
  <1>8. Once'
    BY <1>1 DEF IInv, Once, Fresh, main
  <1>9. FailureOK'
    <2>1. FailureOK
      BY DEF IInv
    <2>2. \A q \in Req : Dropped(q) => Dropped(q)'
      <3>1. \A q \in Req : drops[q] # "none" => drops'[q] # "none"
        <4>1. CASE drops' = drops
          BY <4>1
        <4>2. CASE Sigkill \/ KillError
          BY <1>0, <1>3, <4>2 DEF Sigkill, KillError, TypeOK
        <4> QED
          BY <4>1, <4>2 DEF ForkFail, Map, MapFail, Answered, AnswerLost, Spin,
             Term, Reap, sups, left
      <3> QED
        BY <1>1, <3>1 DEF Dropped, Alive
    <2>3. zres' = "err" => Dropped(zreq)'
      <3>1. CASE ForkFail
        <4>1. sup[zreq] = "none"
          BY <3>1 DEF ForkFail, IInv, Once
        <4> QED
          BY <1>1, <4>1 DEF Dropped, Alive
      <3>2. CASE Map \/ MapFail \/ Answered \/ AnswerLost \/ Spin \/ Term
        BY <1>0, <3>2
           DEF Map, MapFail, Answered, AnswerLost, Spin, Term
      <3>3. CASE Reap
        BY <1>1, <3>3 DEF Reap, Dropped, Alive
      <3>4. CASE Sigkill \/ KillError
        BY <1>0, <1>1, <1>3, <3>4
           DEF Sigkill, KillError, Dropped, Alive, TypeOK
      <3> QED
        BY <3>1, <3>2, <3>3, <3>4
    <2>4. \A q \in Req : Reported(q)' <=> Reported(q)
      BY <1>1 DEF Reported
    <2> QED
      BY <1>1, <2>1, <2>2, <2>3, <2>4 DEF FailureOK
  <1> QED
    BY <1>5, <1>6, <1>7, <1>8, <1>9 DEF IInv

LEMMA ForkInv ==
    ASSUME IInv, Fork
    PROVE  IInv'
  <1>1. /\ zpc = "fork" /\ zfds = <<zreq>> /\ zreq \in Req /\ zres = "none"
        /\ sup[zreq] = "none"
    BY NoneAssumption DEF Fork, IInv, TypeOK, ZygoteOK, Once
  <1>2. /\ UNCHANGED <<main, wire, zreq, zres, replies, order, answer, child,
                       caught, left>>
        /\ supfd' = [supfd EXCEPT ![zreq] = zreq]
        /\ sup' = [sup EXCEPT ![zreq] = "wait"]
        /\ zfds' = <<>> /\ zpc' = "map"
    BY <1>1 DEF Fork
  <1>3. TypeOK'
    <2>1. zfds' \in Seq(Req) /\ Len(zfds') <= 1
      BY <1>2
    <2> QED
      BY <1>1, <1>2, <2>1 DEF IInv, TypeOK, main, left
  <1>4. ZygoteOK' /\ OwnDescriptor'
    BY <1>1, <1>2, NoneAssumption
       DEF IInv, TypeOK, ZygoteOK, OwnDescriptor
  <1>5. MutexOK' /\ BodyFollows' /\ HalfLast' /\ LengthFollowed'
    BY <1>1, <1>2, AtWork
  <1>6. \A q \in Req : q # zreq => sup'[q] = sup[q]
    BY <1>2
  <1>7. Once'
    <2>1. Once
      BY DEF IInv
    <2>2. \A q \in Req : pc[q] # "ok" => Fresh(q)'
      BY <1>2, <1>6, <2>1 DEF Once, Fresh
    <2>3. ASSUME NEW k \in 1..Len(wire), wire[k].part = "body"
          PROVE  /\ pc[wire[k].req] = "ok" /\ sup'[wire[k].req] = "none"
                 /\ zreq # wire[k].req
                 /\ \A j \in 1..Len(replies) : replies[j].req # wire[k].req
                 /\ \A j \in 1..Len(wire) : wire[j] = wire[k] => j = k
      <3>1. wire[k].req \in Req
        BY PartType DEF IInv, TypeOK, Parts
      <3> QED
        BY <1>6, <2>1, <2>3, <3>1 DEF Once, Fresh
    <2> QED
      BY <1>2, <2>1, <2>2, <2>3 DEF Once, Fresh, main
  <1>8. FailureOK'
    <2>1. FailureOK /\ Once
      BY DEF IInv
    <2>2. \A q \in Req : /\ Reported(q)' <=> Reported(q)
                         /\ Reported(q) => q # zreq
      BY <1>2, <2>1 DEF Reported, Once
    <2>3. child[zreq] # "running"
      BY <1>1, <2>1 DEF FailureOK
    <2>4. \A q \in Req :
            child[q] = "running" => sup'[q] \in {"forked", "answered", "armed"}
      BY <1>6, <2>1, <2>3 DEF FailureOK
    <2>5. \A q \in Req : q # zreq /\ Dropped(q) => Dropped(q)'
      BY <1>2, <1>6 DEF Dropped, Alive, left
    <2> QED
      BY <1>1, <1>2, <2>1, <2>2, <2>4, <2>5 DEF FailureOK
  <1> QED
    BY <1>3, <1>4, <1>5, <1>7, <1>8 DEF IInv

LEMMA RespondInv ==
    ASSUME IInv, Respond
    PROVE  IInv'
  <1> DEFINE Reply == [req |-> zreq, res |-> zres]  n == Len(replies)
             Replies == [req : Req, res : {"ok", "err"}]
  <1>1. /\ zpc = "respond" /\ zreq \in Req /\ zres \in {"ok", "err"}
        /\ pc[zreq] = "ok"
    <2>1. zpc = "respond" /\ zreq \in Req /\ zres \in {"ok", "err"}
      BY NoneAssumption DEF Respond, IInv, TypeOK, ZygoteOK
    <2> QED
      BY <2>1 DEF IInv, Once, Fresh
  <1>2. /\ UNCHANGED <<main, wire, sups>>
        /\ zfds' = <<>> /\ zpc' = "len" /\ zreq' = None /\ zres' = "none"
        /\ replies' = Append(replies, Reply)
    BY DEF Respond
  <1>3. /\ replies \in Seq(Replies) /\ Reply \in Replies
        /\ Reply.req = zreq /\ Reply.res = zres
    BY <1>1 DEF IInv, TypeOK
  <1> HIDE DEF Reply, Replies
  <1>4. /\ replies' \in Seq(Replies) /\ n \in Nat /\ Len(replies') = n + 1
        /\ replies'[n + 1] = Reply
        /\ \A k \in 1..n : replies'[k] = replies[k]
    BY <1>2, <1>3, AppendProperties, LenProperties
  <1> HIDE DEF n
  <1>5. TypeOK'
    <2>1. zfds' \in Seq(Req) /\ Len(zfds') <= 1
      BY <1>2
    <2> QED
      BY <1>2, <1>4, <2>1 DEF IInv, TypeOK, main, sups, Replies
  <1>6. ZygoteOK' /\ OwnDescriptor'
    BY <1>2 DEF IInv, ZygoteOK, OwnDescriptor, sups
  <1>7. MutexOK' /\ BodyFollows' /\ HalfLast' /\ LengthFollowed'
    BY <1>1, <1>2, AtWork
  <1>8. Once'
    <2>1. Once
      BY DEF IInv
    <2>2. ASSUME NEW q \in Req, Fresh(q)
          PROVE  Fresh(q)' /\ \A k \in 1..(n + 1) : replies'[k].req # q
      <3>1. q # zreq /\ \A k \in 1..n : replies[k].req # q
        BY <2>2 DEF Fresh, n
      <3>2. ASSUME NEW k \in 1..(n + 1) PROVE replies'[k].req # q
        <4>1. CASE k = n + 1
          BY <1>3, <1>4, <3>1, <4>1
        <4>2. CASE k \in 1..n
          BY <1>4, <3>1, <4>2
        <4> QED
          BY <1>4, <4>1, <4>2
      <3> QED
        BY <1>2, <1>4, <2>2, <3>2, NoneAssumption DEF Fresh, sups
    <2>3. ASSUME NEW k \in 1..Len(wire), wire[k].part = "body"
          PROVE  /\ pc[wire[k].req] = "ok" /\ sup[wire[k].req] = "none"
                 /\ None # wire[k].req
                 /\ \A j \in 1..(n + 1) : replies'[j].req # wire[k].req
                 /\ \A j \in 1..Len(wire) : wire[j] = wire[k] => j = k
      <3>1. wire[k].req \in Req
        BY PartType DEF IInv, TypeOK, Parts
      <3>2. /\ pc[wire[k].req] = "ok" /\ Fresh(wire[k].req)
            /\ \A j \in 1..Len(wire) : wire[j] = wire[k] => j = k
        BY <2>1, <2>3 DEF Once
      <3>3. \A j \in 1..(n + 1) : replies'[j].req # wire[k].req
        BY <2>2, <3>1, <3>2
      <3> QED
        BY <3>1, <3>2, <3>3, NoneAssumption DEF Fresh
    <2>4. ASSUME NEW k \in 1..(n + 1) PROVE replies'[k].req # None
      <3>1. replies'[k] \in Replies
        BY <1>4, ElementOfSeq
      <3> QED
        BY <3>1, NoneAssumption DEF Replies
    <2>5. \A q \in Req : pc[q] # "ok" => Fresh(q)'
      BY <2>1, <2>2 DEF Once
    <2> QED
      BY <1>2, <1>4, <2>3, <2>4, <2>5 DEF Once, Fresh, main, sups
  <1>9. FailureOK'
    <2>1. FailureOK
      BY DEF IInv
    <2>2. \A q \in Req : Dropped(q)' <=> Dropped(q)
      BY <1>2 DEF Dropped, Alive, sups
    <2>3. \A q \in Req : Reported(q)' => \/ Reported(q)
                                         \/ zreq = q /\ zres = "err"
      <3>1. ASSUME NEW q \in Req, NEW k \in 1..(n + 1),
                   replies'[k] = [req |-> q, res |-> "err"]
            PROVE  Reported(q) \/ (zreq = q /\ zres = "err")
        <4>1. CASE k = n + 1
          BY <1>3, <1>4, <3>1, <4>1
        <4>2. CASE k \in 1..n
          BY <1>4, <3>1, <4>2 DEF Reported, n
        <4> QED
          BY <1>4, <4>1, <4>2
      <3> QED
        BY <1>4, <3>1 DEF Reported
    <2>4. child' = child /\ sup' = sup
      BY <1>2 DEF sups
    <2> QED
      BY <1>2, <2>1, <2>2, <2>3, <2>4 DEF FailureOK
  <1> QED
    BY <1>5, <1>6, <1>7, <1>8, <1>9 DEF IInv

-----------------------------------------------------------------------------

LEMMA InitInv == Init => IInv
  <1> SUFFICES ASSUME Init PROVE IInv
    OBVIOUS
  <1> USE DEF Init
  <1>1. TypeOK
    <2>1. /\ wire \in Seq([part : {"len", "body"}, req : Req]) /\ Len(wire) = 0
          /\ zfds \in Seq(Req) /\ Len(zfds) = 0
          /\ replies \in Seq([req : Req, res : {"ok", "err"}])
      BY EmptySeq
    <2> QED
      BY <2>1, CapAssumption, FaultAssumption DEF TypeOK
  <1>2. ZygoteOK /\ MutexOK /\ OwnDescriptor
    BY DEF ZygoteOK, MutexOK, OwnDescriptor
  <1>3. BodyFollows /\ HalfLast /\ LengthFollowed
    BY DEF BodyFollows, HalfLast, LengthFollowed
  <1>4. Once
    BY NoneAssumption DEF Once, Fresh
  <1>5. FailureOK
    BY NoneAssumption, EmptySeq DEF FailureOK, Reported, Dropped, Alive
  <1> QED
    BY <1>1, <1>2, <1>3, <1>4, <1>5 DEF IInv

LEMMA StepInv == IInv /\ [Next]_vars => IInv'
  <1> SUFFICES ASSUME IInv, [Next]_vars PROVE IInv'
    OBVIOUS
  <1>1. ASSUME NEW r \in Req, Lock(r) \/ SendLen(r) \/ SendBody(r) \/ Cancel(r)
        PROVE  IInv'
    BY <1>1, LockInv, SendLenInv, SendBodyInv, CancelInv
  <1>2. ASSUME NEW r \in Req, \/ Supervisor(r) \/ SandboxExit(r)
                            \/ SupKilled(r) \/ Sigkilled(r)
        PROVE  IInv'
    BY <1>2, SupervisorInv, SandboxInv
  <1>3. CASE Zygote
    BY <1>3, ReadLenInv, ReadBodyInv, ForkInv, BetweenInv, RespondInv
       DEF Zygote
  <1>4. CASE UNCHANGED vars
    BY <1>4 DEF vars, IInv, TypeOK, ZygoteOK, MutexOK, BodyFollows, HalfLast,
       LengthFollowed, OwnDescriptor, Once, Fresh, FailureOK, Reported, Dropped,
       Alive
  <1>5. CASE Rest
    BY <1>4, <1>5 DEF Rest
  <1> QED
    BY <1>1, <1>2, <1>3, <1>4, <1>5 DEF Next

LEMMA Invariant == Spec => []IInv
  BY InitInv, StepInv, PTL DEF Spec

\* The zygote's queue of descriptors never holds more than one, whatever the
\* number of requests, and the variables have their types.
THEOREM TypeCorrect == Spec => []TypeOK
  <1>1. IInv => TypeOK
    BY DEF IInv
  <1> QED
    BY <1>1, Invariant, PTL

\* For any number of requests, and whatever fails, is dropped or killed, a
\* supervisor is given the descriptor of its own request.
THEOREM DescriptorsMatch == Spec => []OwnDescriptor
  <1>1. IInv => OwnDescriptor
    BY DEF IInv
  <1> QED
    BY <1>1, Invariant, PTL

\* While no message was cut in half, the zygote reads each message from its
\* first byte, whichever callers write at the same time.
THEOREM StreamStaysAligned == Spec => []StreamAligned
  <1>1. IInv => StreamAligned
    BY DEF IInv, StreamAligned, BodyFollows, LengthFollowed, LenOf
  <1> QED
    BY <1>1, Invariant, PTL

\* Wherever it failed, a spawn that was answered with an error leaves no process
\* for ever, if a SIGKILL that was sent ends its process in the end.
THEOREM FailedEnd ==
    ASSUME NEW r \in Req
    PROVE  Spec /\ (drops[r] = "sigkill" ~> Gone(r))
               => (Reported(r) ~> Gone(r) \/ drops[r] = "error")
  <1> DEFINE Sent == drops[r] = "sigkill"
             Left == drops[r] = "error"
  <1>1. IInv /\ Reported(r) => Gone(r) \/ Left \/ Sent
    <2> SUFFICES ASSUME IInv, Reported(r) PROVE Gone(r) \/ Left \/ Sent
      OBVIOUS
    <2>1. Dropped(r)
      BY DEF IInv, FailureOK
    <2>2. child[r] = "running" => Alive(r)
      BY DEF IInv, FailureOK, Alive
    <2>3. drops[r] \in {"none", "sigkill", "error"}
      BY DEF IInv, TypeOK
    <2> QED
      BY <2>1, <2>2, <2>3 DEF Dropped, Gone
  <1> HIDE DEF Sent, Left
  <1>2. Spec /\ (Sent ~> Gone(r)) => (Reported(r) ~> Gone(r) \/ Left)
    BY <1>1, Invariant, PTL
  <1> QED
    BY <1>2 DEF Sent, Left

\* The same of the property that is checked: FailedSpawnEnds rests on nothing
\* but the delivery of SIGKILL, in any number of spawns.
THEOREM FailuresEnd ==
    Spec /\ (\A r \in Req : drops[r] = "sigkill" ~> Gone(r)) => FailedSpawnEnds
  BY FailedEnd, WatchedAssumption DEF FailedSpawnEnds
=============================================================================
