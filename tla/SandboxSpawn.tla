---------------------------- MODULE SandboxSpawn ----------------------------
(***************************************************************************)
(* How the daemon starts a sandbox (crates/daemon/src/build/linux): a task *)
(* of the main process sends a request and a descriptor to the zygote over *)
(* a stream socket; the zygote forks a supervisor in new namespaces, maps  *)
(* its ids, tells it to proceed and waits for its answer; the supervisor   *)
(* forks the sandbox, answers, and waits for a signal.  The zygote then    *)
(* answers the main process, on the same socket.                           *)
(*                                                                         *)
(* A message travels as two writes, its length (which carries the          *)
(* descriptors) and its body.  Each request is made once (bound: Req).     *)
(*                                                                         *)
(* A definition marked "Faulty" is no part of the model: it is the mistake *)
(* the definition after it could make, which the properties must detect.   *)
(***************************************************************************)
EXTENDS Naturals, Sequences

CONSTANTS Req,        \* calls of spawn_async, identified with their sandbox fd
          None,       \* no request
          WireCap,    \* writes the socket holds towards the zygote
          ReplyCap,   \* replies it holds towards the main process
          MayCancel,  \* TRUE if a caller may drop the future of spawn_async
          MaxFault,   \* bound: see Fault
          Watched     \* the requests whose progress is checked: all are alike

ASSUME NoneAssumption == None \notin Req
ASSUME CapAssumption == WireCap \in Nat \ {0} /\ ReplyCap \in Nat \ {0}
ASSUME CancelAssumption == MayCancel \in BOOLEAN
ASSUME FaultAssumption == MaxFault \in Nat
ASSUME WatchedAssumption == Watched \subseteq Req

VARIABLES mutex,   \* the holder of Controller's Mutex
          pc,      \* where each spawn_async is
          wire,    \* the writes not yet read by the zygote
          zpc,     \* where the zygote is
          zfds,    \* its queue of received descriptors
          zreq,    \* the request it works on
          zres,    \* the response it is about to write
          replies, \* the responses it wrote: nothing reads them
          sup,     \* the state of each request's supervisor
          supfd,   \* the descriptor each supervisor was given
          order,   \* what the zygote wrote to the supervisor
          answer,  \* what the supervisor wrote to the zygote
          child,   \* the state of each request's sandbox process
          caught,  \* whether a signal reached the supervisor's handler
          drops,   \* what awaits the supervisors a drop has left alive
          faults   \* bound: see Fault

main == <<mutex, pc>>
zyg  == <<zpc, zfds, zreq, zres, replies>>
sups == <<sup, supfd, order, answer, child, caught, drops, faults>>
left == <<drops, faults>>
vars == <<mutex, pc, wire, zpc, zfds, zreq, zres, replies, sup, supfd, order,
          answer, child, caught, drops, faults>>

Init == /\ mutex = None
        /\ pc = [r \in Req |-> "start"]
        /\ wire = <<>>
        /\ zpc = "len" /\ zfds = <<>> /\ zreq = None /\ zres = "none"
        /\ replies = <<>>
        /\ sup = [r \in Req |-> "none"]
        /\ supfd = [r \in Req |-> None]
        /\ order = [r \in Req |-> "none"]
        /\ answer = [r \in Req |-> "none"]
        /\ child = [r \in Req |-> "none"]
        /\ caught = [r \in Req |-> FALSE]
        /\ drops = [r \in Req |-> "none"]
        /\ faults = 0

\* The supervisor was forked and has not ended.
Alive(r) == sup[r] \notin {"none", "over", "killed"}

\* The system kills a supervisor, fails the read of an answer, or refuses kill
\* or waitpid.  Bound: MaxFault of these together.
Fault == faults < MaxFault /\ faults' = faults + 1

\* With a supervisor, the first process of its pid namespace, goes its sandbox,
\* and what was on its way to it.
Ends(r, how) ==
    /\ sup' = [sup EXCEPT ![r] = how]
    /\ child' = [child EXCEPT ![r] = IF @ = "running" THEN "exited" ELSE @]
    /\ order' = [order EXCEPT ![r] = "none"]
    /\ caught' = [caught EXCEPT ![r] = FALSE]
    /\ drops' = [drops EXCEPT ![r] = "none"]

-----------------------------------------------------------------------------
(* Controller::spawn_async *)

\* Faulty: the mutex protects nothing.
LockShared(r) ==
    /\ pc[r] = "start"
    /\ mutex' = r
    /\ pc' = [pc EXCEPT ![r] = "len"]
    /\ UNCHANGED <<wire, zyg, sups>>

Lock(r) ==
    /\ pc[r] = "start" /\ mutex = None
    /\ mutex' = r
    /\ pc' = [pc EXCEPT ![r] = "len"]
    /\ UNCHANGED <<wire, zyg, sups>>

\* First write of write_message: the length, with the descriptor.
SendLen(r) ==
    /\ pc[r] = "len" /\ Len(wire) < WireCap
    /\ wire' = Append(wire, [part |-> "len", req |-> r])
    /\ pc' = [pc EXCEPT ![r] = "body"]
    /\ UNCHANGED <<mutex, zyg, sups>>

\* Second write: the body.  spawn_async returns Ok(Sandbox) without reading
\* the zygote's response.
SendBody(r) ==
    /\ pc[r] = "body" /\ Len(wire) < WireCap
    /\ wire' = Append(wire, [part |-> "body", req |-> r])
    /\ pc' = [pc EXCEPT ![r] = "ok"]
    /\ mutex' = None
    /\ UNCHANGED <<zyg, sups>>

\* The future is dropped while it waits for the mutex or for the socket.  In
\* the second case half of the message may be out.
Cancel(r) ==
    /\ MayCancel /\ pc[r] \in {"start", "len", "body"}
    /\ pc' = [pc EXCEPT ![r] = IF @ = "body" THEN "cut" ELSE "cancelled"]
    /\ mutex' = IF mutex = r THEN None ELSE mutex
    /\ UNCHANGED <<wire, zyg, sups>>

-----------------------------------------------------------------------------
(* zygote_process and its spawn *)

\* A body where a length is expected makes a senseless buffer size; a length
\* read as a body does not decode.  Either ends the zygote.
ReadLen ==
    /\ zpc = "len" /\ wire # <<>>
    /\ wire' = Tail(wire)
    /\ IF Head(wire).part = "len"
       THEN zpc' = "body" /\ zfds' = Append(zfds, Head(wire).req)
       ELSE zpc' = "dead" /\ UNCHANGED zfds
    /\ UNCHANGED <<main, zreq, zres, replies, sups>>

\* Faulty: a cut message is skipped, the next length starts a new one.
ReadBodyResync ==
    /\ zpc = "body" /\ wire # <<>>
    /\ wire' = Tail(wire)
    /\ IF Head(wire).part = "body"
       THEN zpc' = "fork" /\ zreq' = Head(wire).req /\ UNCHANGED zfds
       ELSE zfds' = Append(zfds, Head(wire).req) /\ UNCHANGED <<zpc, zreq>>
    /\ UNCHANGED <<main, zres, replies, sups>>

ReadBody ==
    /\ zpc = "body" /\ wire # <<>>
    /\ wire' = Tail(wire)
    /\ IF Head(wire).part = "body"
       THEN zpc' = "fork" /\ zreq' = Head(wire).req
       ELSE zpc' = "dead" /\ UNCHANGED zreq
    /\ UNCHANGED <<main, zfds, zres, replies, sups>>

\* The supervisor is cloned with the first descriptor of the queue.
Fork ==
    /\ zpc = "fork" /\ zfds # <<>>
    /\ supfd' = [supfd EXCEPT ![zreq] = Head(zfds)]
    /\ sup' = [sup EXCEPT ![zreq] = "wait"]
    /\ zfds' = Tail(zfds)
    /\ zpc' = "map"
    /\ UNCHANGED <<main, wire, zreq, zres, replies, order, answer, child,
                   caught, left>>

\* The socket pair or the clone fails.
ForkFail ==
    /\ zpc = "fork"
    /\ zfds' = IF zfds = <<>> THEN zfds ELSE Tail(zfds)
    /\ zpc' = "respond" /\ zres' = "err"
    /\ UNCHANGED <<main, wire, zreq, replies, sups>>

\* write_mappings succeeds: Proceed.
Map ==
    /\ zpc = "map" /\ sup[zreq] = "wait"
    /\ order' = [order EXCEPT ![zreq] = "proceed"]
    /\ zpc' = "await"
    /\ UNCHANGED <<main, wire, zfds, zreq, zres, replies, sup, supfd, answer,
                   child, caught, left>>

\* It fails: Exit, if that can be written, and the ChildProcess is dropped; so
\* it is when Proceed cannot be written.
MapFail ==
    /\ zpc = "map"
    /\ \/ Alive(zreq) /\ order' = [order EXCEPT ![zreq] = "exit"]
       \/ UNCHANGED order
    /\ zpc' = "kill"
    /\ UNCHANGED <<main, wire, zfds, zreq, zres, replies, sup, supfd, answer,
                   child, caught, left>>

\* The supervisor answered; on success its pid is forgotten.
Answered ==
    /\ zpc = "await" /\ answer[zreq] # "none"
    /\ answer' = [answer EXCEPT ![zreq] = "none"]
    /\ IF answer[zreq] = "ok" THEN zpc' = "respond" /\ zres' = "ok"
                              ELSE zpc' = "kill" /\ UNCHANGED zres
    /\ UNCHANGED <<main, wire, zfds, zreq, replies, sup, supfd, order, child,
                   caught, left>>

\* The read of the answer fails, as it does when the supervisor is gone and
\* left its order unread.
AnswerLost ==
    /\ Fault /\ zpc = "await"
    /\ zpc' = "kill"
    /\ UNCHANGED <<main, wire, zfds, zreq, zres, replies, sup, supfd, order,
                   answer, child, caught, drops>>

\* The supervisor is gone and has not answered: every recv_fds of read_impl
\* returns 0 bytes, which is no error, and the loop has no end.
Spin ==
    /\ zpc = "await" /\ answer[zreq] = "none"
    /\ sup[zreq] \in {"over", "killed"}
    /\ zpc' = "spin"
    /\ UNCHANGED <<main, wire, zfds, zreq, zres, replies, sups>>

-----------------------------------------------------------------------------
(* ChildProcess::drop, by the zygote of a supervisor it could not start.   *)
(* The failure is answered however the drop ends.                          *)

Failed == zpc' = "respond" /\ zres' = "err"

\* SIGTERM does not reach the first process of a pid namespace but in a
\* handler of its own: the supervisor has one when it waits for signals.
Term ==
    /\ zpc = "kill"
    /\ caught' = [caught EXCEPT ![zreq] = @ \/ sup[zreq] = "armed"]
    /\ zpc' = "poll"
    /\ UNCHANGED <<main, wire, zfds, zreq, zres, replies, sup, supfd, order,
                   answer, child, left>>

\* Faulty: the spawn that failed has no result.
ReapUnreported ==
    /\ zpc = "poll" /\ ~Alive(zreq)
    /\ zpc' = "respond"
    /\ UNCHANGED <<main, wire, zfds, zreq, zres, replies, sups>>

\* waitpid finds it gone within CHILD_DROP_WAIT.
Reap ==
    /\ zpc = "poll" /\ ~Alive(zreq)
    /\ Failed
    /\ UNCHANGED <<main, wire, zfds, zreq, replies, sups>>

\* Faulty: the time is over, and so is the drop.
SigkillSkipped ==
    /\ zpc = "poll"
    /\ Failed
    /\ UNCHANGED <<main, wire, zfds, zreq, replies, sups>>

\* The time is over.  SIGKILL is sent; that the process has not ended by the
\* single poll that follows makes no difference.
Sigkill ==
    /\ zpc = "poll"
    /\ drops' = [drops EXCEPT ![zreq] = IF Alive(zreq) THEN "sigkill" ELSE @]
    /\ Failed
    /\ UNCHANGED <<main, wire, zfds, zreq, replies, sup, supfd, order, answer,
                   child, caught, faults>>

\* kill or waitpid fails, which is only logged.
KillError ==
    /\ Fault /\ zpc \in {"kill", "poll"}
    /\ drops' = [drops EXCEPT ![zreq] = IF Alive(zreq) THEN "error" ELSE @]
    /\ Failed
    /\ UNCHANGED <<main, wire, zfds, zreq, replies, sup, supfd, order, answer,
                   child, caught>>

-----------------------------------------------------------------------------
(* The end of the zygote's turn *)

\* The response goes into a buffer the main process never empties.
Respond ==
    /\ zpc = "respond" /\ Len(replies) < ReplyCap
    /\ replies' = Append(replies, [req |-> zreq, res |-> zres])
    /\ zfds' = <<>>
    /\ zpc' = "len" /\ zreq' = None /\ zres' = "none"
    /\ UNCHANGED <<main, wire, sups>>

Zygote == \/ ReadLen \/ ReadBody \/ Fork \/ ForkFail \/ Map \/ MapFail
          \/ Answered \/ AnswerLost \/ Spin
          \/ Term \/ Reap \/ Sigkill \/ KillError
          \/ Respond

-----------------------------------------------------------------------------
(* supervisor_process and sandbox_process *)

SupRead(r) ==
    /\ sup[r] = "wait" /\ order[r] = "proceed"
    /\ sup' = [sup EXCEPT ![r] = "setup"]
    /\ order' = [order EXCEPT ![r] = "none"]
    /\ UNCHANGED <<main, wire, zyg, supfd, answer, child, caught, left>>

\* set_id, the mounts and the clone of the sandbox.
SupFork(r) ==
    /\ sup[r] = "setup"
    /\ sup' = [sup EXCEPT ![r] = "forked"]
    /\ child' = [child EXCEPT ![r] = "running"]
    /\ UNCHANGED <<main, wire, zyg, supfd, order, answer, caught, left>>

\* Faulty: the error ends the process before it is written.
SupFailSilent(r) ==
    /\ sup[r] = "setup"
    /\ sup' = [sup EXCEPT ![r] = "over"]
    /\ UNCHANGED <<main, wire, zyg, supfd, order, answer, child, caught, left>>

\* One of them fails: the error is written, then the process ends (SupEnd).
SupFail(r) ==
    /\ sup[r] = "setup"
    /\ sup' = [sup EXCEPT ![r] = "failed"]
    /\ answer' = [answer EXCEPT ![r] = "err"]
    /\ UNCHANGED <<main, wire, zyg, supfd, order, child, caught, left>>

\* Ok is written before the signal handlers are there.
SupAnswer(r) ==
    /\ sup[r] = "forked"
    /\ answer' = [answer EXCEPT ![r] = "ok"]
    /\ sup' = [sup EXCEPT ![r] = "answered"]
    /\ UNCHANGED <<main, wire, zyg, supfd, order, child, caught, left>>

\* Signals::new in wait.
SupArm(r) ==
    /\ sup[r] = "answered"
    /\ sup' = [sup EXCEPT ![r] = "armed"]
    /\ UNCHANGED <<main, wire, zyg, supfd, order, answer, child, caught, left>>

\* signals.forever().next() returns.  After SIGCHLD waitpid reaps the child,
\* after SIGTERM the drop of the child kills it.
SupEnd(r) ==
    /\ \/ sup[r] = "wait" /\ order[r] = "exit"
       \/ sup[r] = "failed"
       \/ sup[r] = "armed" /\ caught[r]
    /\ Ends(r, "over")
    /\ UNCHANGED <<main, wire, zyg, supfd, answer, faults>>

\* The sandbox process returns.  SIGCHLD is ignored by default: it is caught
\* only by a handler that is already there.
SandboxExit(r) ==
    /\ child[r] = "running"
    /\ child' = [child EXCEPT ![r] = "exited"]
    /\ caught' = [caught EXCEPT ![r] = @ \/ sup[r] = "armed"]
    /\ UNCHANGED <<main, wire, zyg, sup, supfd, order, answer, left>>

\* The system kills the supervisor.
SupKilled(r) ==
    /\ Fault /\ Alive(r)
    /\ Ends(r, "killed")
    /\ UNCHANGED <<main, wire, zyg, supfd, answer>>

\* The SIGKILL of the drop takes effect, some time after it was sent.
Sigkilled(r) ==
    /\ drops[r] = "sigkill" /\ Alive(r)
    /\ Ends(r, "killed")
    /\ UNCHANGED <<main, wire, zyg, supfd, answer, faults>>

Supervisor(r) == \/ SupRead(r) \/ SupFork(r) \/ SupFail(r) \/ SupAnswer(r)
                 \/ SupArm(r) \/ SupEnd(r)

-----------------------------------------------------------------------------

\* Nothing to do: every call has returned and the zygote waits for a request,
\* or the zygote is dead or reads for ever.
Rest == /\ \/ zpc \in {"dead", "spin"}
           \/ /\ \A r \in Req : pc[r] \in {"ok", "cut", "cancelled"}
              /\ wire = <<>> /\ zpc \in {"len", "body"}
        /\ \A r \in Req : ~ENABLED Supervisor(r) /\ child[r] # "running"
        /\ UNCHANGED vars

Next == \/ \E r \in Req : \/ Lock(r) \/ SendLen(r) \/ SendBody(r) \/ Cancel(r)
                          \/ Supervisor(r) \/ SandboxExit(r)
                          \/ SupKilled(r) \/ Sigkilled(r)
        \/ Zygote
        \/ Rest

Spec == Init /\ [][Next]_vars

\* The scheduler runs every process, and tokio every task, whose step is
\* possible; the mutex is fair.  A SIGKILL that was sent ends its process in
\* the end.  A sandbox may run for ever.
Fairness == /\ \A r \in Req : /\ SF_vars(Lock(r))
                              /\ WF_vars(SendLen(r)) /\ WF_vars(SendBody(r))
                              /\ WF_vars(Supervisor(r))
                              /\ WF_vars(Sigkilled(r))
            /\ WF_vars(Zygote)

FairSpec == Spec /\ Fairness

-----------------------------------------------------------------------------
(* Properties *)

\* Types, and the zygote's queue never holds more than one request's fd.
TypeOK ==
    /\ mutex \in Req \cup {None}
    /\ pc \in [Req -> {"start", "len", "body", "ok", "cut", "cancelled"}]
    /\ wire \in Seq([part : {"len", "body"}, req : Req]) /\ Len(wire) <= WireCap
    /\ zpc \in {"len", "body", "fork", "map", "await", "kill", "poll",
                "respond", "dead", "spin"}
    /\ zfds \in Seq(Req) /\ Len(zfds) <= 1
    /\ zreq \in Req \cup {None}
    /\ zres \in {"none", "ok", "err"}
    /\ replies \in Seq([req : Req, res : {"ok", "err"}])
    /\ sup \in [Req -> {"none", "wait", "setup", "forked", "answered", "armed",
                       "failed", "over", "killed"}]
    /\ supfd \in [Req -> Req \cup {None}]
    /\ order \in [Req -> {"none", "proceed", "exit"}]
    /\ answer \in [Req -> {"none", "ok", "err"}]
    /\ child \in [Req -> {"none", "running", "exited"}]
    /\ caught \in [Req -> BOOLEAN]
    /\ drops \in [Req -> {"none", "sigkill", "error"}]
    /\ faults \in 0..MaxFault

\* "Send the fds with the len": a supervisor gets the descriptor of its own
\* request, although descriptors and bodies arrive in separate reads, the queue
\* survives from one request to the next, and a message may be cut in half.
OwnDescriptor == \A r \in Req : supfd[r] \in {None, r}

\* Calls that send at the same time never interleave the two writes of their
\* messages, so the zygote stays aligned with the stream until a dropped future
\* cuts a message in half.
StreamAligned ==
    (\A r \in Req : pc[r] # "cut") =>
        /\ zpc # "dead"
        /\ \A k \in 1..Len(wire) :
               wire[k].part = "body" =>
                   IF k = 1 THEN zpc = "body" /\ zfds = <<wire[1].req>>
                   ELSE wire[k - 1] = [part |-> "len", req |-> wire[k].req]

\* Every request the main process has sent is worked off and answered, whatever
\* fails in its spawn or in the spawns before it, and whenever a supervisor is
\* killed but between its orders and its answer; while the answers fit into the
\* socket and no message was cut in half.
EveryRequestAnswered ==
    \A r \in Watched :
        pc[r] = "ok" ~> \/ \E k \in 1..Len(replies) : replies[k].req = r
                        \/ \E c \in Req : pc[c] = "cut"
                        \/ zpc = "spin" /\ sup[zreq] = "killed"

Reported(r) == \E k \in 1..Len(replies) :
                   replies[k] = [req |-> r, res |-> "err"]

Gone(r) == ~Alive(r) /\ child[r] # "running"

\* "Kills a child process [...] when this value is dropped": after a spawn that
\* was answered with an error no process of the request stays for ever, whether
\* its supervisor waits for an order that was never written, ignores SIGTERM
\* because its handlers are not there yet, or runs a sandbox whose answer was
\* lost.  Only where kill or waitpid fails may they be left behind.
FailedSpawnEnds ==
    \A r \in Watched : Reported(r) ~> Gone(r) \/ drops[r] = "error"

\* "waiting for a signal or child to exit": once the sandbox has exited its
\* supervisor ends.
SupervisorEnds ==
    \A r \in Req : child[r] = "exited" ~> sup[r] \in {"over", "killed"}
=============================================================================
