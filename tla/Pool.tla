-------------------------------- MODULE Pool --------------------------------
(***************************************************************************)
(* The lock-free object pool of crates/io/src/pool.rs: an array of cells,  *)
(* an array of atomic states, one per cell, and a shared counter that      *)
(* spreads the threads over the array.  Every atomic operation, and every  *)
(* plain access of a cell between two of them, is a step of its own.       *)
(*                                                                         *)
(* A thread in an operation holds at most one value in a local variable,   *)
(* val[t]; the values callers hold in a Pooled (or OwnedPooled) are the    *)
(* set out, which belongs to no thread: a Pooled is sent between threads,  *)
(* and dropped, hence returned, by any of them.                            *)
(*                                                                         *)
(* A definition marked "Faulty" is no part of the model: it is the mistake *)
(* the definition after it could make, which the properties must detect.   *)
(***************************************************************************)
EXTENDS Naturals, FiniteSets

CONSTANTS Thread,     \* the threads that share the pool
          Val,        \* identities of the pooled objects
          NoVal,      \* an uninitialized cell, an empty local variable
          CAP,        \* CAPACITY
          MaxSearch,  \* the argument of with_max_search
          SkipMod,    \* 2^usize::BITS, where skip wraps around
          ThreadId,   \* the ThreadId of each thread, as_u64()
          Running     \* the threads the scheduler is sure to run

ASSUME NoValAssumption == NoVal \notin Val
ASSUME CAPAssumption == CAP \in Nat \ {0}
ASSUME SearchAssumption == MaxSearch \in Nat
ASSUME SkipModAssumption == SkipMod \in Nat \ {0}
ASSUME ThreadIdAssumption == ThreadId \in [Thread -> Nat \ {0}]
ASSUME RunningAssumption == Running \subseteq Thread

Slot == 0..(CAP - 1)

State == {"EMPTY", "WRITING", "AVAILABLE", "TAKING", "DESTROYED"}

\* with_max_search: min is not const.
MaxLoop == IF MaxSearch <= CAP THEN MaxSearch ELSE CAP

VARIABLES skip,    \* AtomicUsize, the next start of a search
          states,  \* [AtomicU8; CAPACITY]
          pool,    \* [UnsafeCell<MaybeUninit<T>>; CAPACITY]
          pc,      \* where each thread is in take or return_value
          start,   \* the local id of the search
          i,       \* the loop counter of the search
          val,     \* the local value of take or return_value
          out,     \* the values inside a Pooled or OwnedPooled
          dpc,     \* PoolState::drop: "live", "dropping" or "dropped"
          di,      \* the loop counter of drop
          except   \* the slots drop has not destroyed in this pass

mem  == <<skip, states, pool>>
loc  == <<pc, start, i, val>>
drop == <<dpc, di, except>>
vars == <<skip, states, pool, pc, start, i, val, out, dpc, di, except>>

TakePc   == {"take_probe", "take_read", "take_unlock", "take_hook"}
ReturnPc == {"return_hook", "return_id", "return_probe", "return_write",
             "return_publish"}

Init == /\ skip = 0
        /\ states = [s \in Slot |-> "EMPTY"]
        /\ pool = [s \in Slot |-> NoVal]
        /\ pc = [t \in Thread |-> "idle"]
        /\ start = [t \in Thread |-> 0]
        /\ i = [t \in Thread |-> 0]
        /\ val = [t \in Thread |-> NoVal]
        /\ out = {}
        /\ dpc = "live" /\ di = 0 /\ except = CAP

-----------------------------------------------------------------------------
(* Helpers *)

\* Faulty: the last slots again and again instead of a wrap (saturating_add).
ProbeSaturating(t) == (IF i[t] + start[t] < SkipMod THEN i[t] + start[t]
                       ELSE SkipMod - 1) % CAP

\* The slot a thread's search looks at: i.wrapping_add(id).wrapping_rem(CAP).
Probe(t) == ((i[t] + start[t]) % SkipMod) % CAP

\* The objects that exist.  The identity of a dropped one is free again.
Live == (out \cup {val[t] : t \in Thread} \cup {pool[s] : s \in Slot}) \ {NoVal}

Takers == {t \in Thread : pc[t] = "take_probe"}

\* Faulty: the slot is never released.
SwapStateForgotten(s, old, new) == states' = states

\* A compare_exchange whose failure is ignored (.ok()).
SwapState(s, old, new) ==
    states' = [states EXCEPT ![s] = IF @ = old THEN new ELSE @]

\* Faulty: the counter outgrows its width.
NextIdUnbounded(t) == /\ start' = [start EXCEPT ![t] = skip]
                      /\ i' = [i EXCEPT ![t] = 0]
                      /\ skip' = skip + ThreadId[t]

\* fetch_add returns the old count and wraps.
NextId(t) == /\ start' = [start EXCEPT ![t] = skip]
             /\ i' = [i EXCEPT ![t] = 0]
             /\ skip' = (skip + ThreadId[t]) % SkipMod

\* The call is over; its local variables are gone.
Finish(t) == /\ pc' = [pc EXCEPT ![t] = "idle"]
             /\ start' = [start EXCEPT ![t] = 0]
             /\ i' = [i EXCEPT ![t] = 0]
             /\ val' = [val EXCEPT ![t] = NoVal]

-----------------------------------------------------------------------------
(* PoolState::take *)

\* Identities are finite, so a take starts only while every take under way,
\* and this one, could still create an object (bound: Val).
TakeBegin(t) ==
    /\ dpc = "live" /\ pc[t] = "idle"
    /\ Cardinality(Live) + Cardinality(Takers) < Cardinality(Val)
    /\ NextId(t)
    /\ pc' = [pc EXCEPT ![t] = "take_probe"]
    /\ UNCHANGED <<states, pool, val, out, drop>>

\* Faulty: waits for another thread's take instead of moving on.
TakeProbeWaiting(t) ==
    /\ pc[t] = "take_probe" /\ i[t] < MaxLoop
    /\ states[Probe(t)] # "TAKING"
    /\ IF states[Probe(t)] = "AVAILABLE"
       THEN /\ states' = [states EXCEPT ![Probe(t)] = "TAKING"]
            /\ pc' = [pc EXCEPT ![t] = "take_read"]
            /\ UNCHANGED i
       ELSE /\ i' = [i EXCEPT ![t] = @ + 1]
            /\ UNCHANGED <<states, pc>>
    /\ UNCHANGED <<skip, pool, start, val, out, drop>>

TakeProbe(t) ==
    /\ pc[t] = "take_probe" /\ i[t] < MaxLoop
    /\ IF states[Probe(t)] = "AVAILABLE"
       THEN /\ states' = [states EXCEPT ![Probe(t)] = "TAKING"]
            /\ pc' = [pc EXCEPT ![t] = "take_read"]
            /\ UNCHANGED i
       ELSE /\ i' = [i EXCEPT ![t] = @ + 1]
            /\ UNCHANGED <<states, pc>>
    /\ UNCHANGED <<skip, pool, start, val, out, drop>>

\* Faulty: the slot is given up before its cell is read.
TakeReadUnlocked(t) ==
    /\ pc[t] = "take_read"
    /\ states' = [states EXCEPT ![Probe(t)] = "EMPTY"]
    /\ val' = [val EXCEPT ![t] = pool[Probe(t)]]
    /\ pool' = [pool EXCEPT ![Probe(t)] = NoVal]
    /\ pc' = [pc EXCEPT ![t] = "take_unlock"]
    /\ UNCHANGED <<skip, start, i, out, drop>>

TakeRead(t) ==
    /\ pc[t] = "take_read"
    /\ val' = [val EXCEPT ![t] = pool[Probe(t)]]
    /\ pool' = [pool EXCEPT ![Probe(t)] = NoVal]
    /\ pc' = [pc EXCEPT ![t] = "take_unlock"]
    /\ UNCHANGED <<skip, states, start, i, out, drop>>

TakeUnlock(t) ==
    /\ pc[t] = "take_unlock"
    /\ SwapState(Probe(t), "TAKING", "EMPTY")
    /\ pc' = [pc EXCEPT ![t] = "take_hook"]
    /\ UNCHANGED <<skip, pool, start, i, val, out, drop>>

\* take_hook runs on the value, which is then wrapped in a Pooled.
TakeHook(t) ==
    /\ pc[t] = "take_hook"
    /\ out' = out \cup {val[t]}
    /\ Finish(t)
    /\ UNCHANGED <<mem, drop>>

\* The search found nothing: the factory makes a value, and no hook runs.
Create(t) ==
    /\ pc[t] = "take_probe" /\ i[t] = MaxLoop
    /\ \E v \in Val \ Live : out' = out \cup {v}
    /\ Finish(t)
    /\ UNCHANGED <<mem, drop>>

-----------------------------------------------------------------------------
(* Pooled::forget and return_value *)

\* Pooled::forget, or apply_result whose function failed: the value never
\* comes back.
Forget(v) ==
    /\ v \in out
    /\ out' = out \ {v}
    /\ UNCHANGED <<mem, loc, drop>>

\* Faulty: the wrapper keeps the value it returns.
ReturnBeginCopy(t, v) ==
    /\ pc[t] = "idle" /\ v \in out
    /\ val' = [val EXCEPT ![t] = v]
    /\ pc' = [pc EXCEPT ![t] = "return_hook"]
    /\ UNCHANGED <<mem, start, i, out, drop>>

\* Drop of a Pooled calls return_value, which first calls the hook.
ReturnBegin(t, v) ==
    /\ pc[t] = "idle" /\ v \in out
    /\ out' = out \ {v}
    /\ val' = [val EXCEPT ![t] = v]
    /\ pc' = [pc EXCEPT ![t] = "return_hook"]
    /\ UNCHANGED <<mem, start, i, drop>>

\* No hook, or it returned Some(value).
HookAccept(t) ==
    /\ pc[t] = "return_hook"
    /\ pc' = [pc EXCEPT ![t] = "return_id"]
    /\ UNCHANGED <<mem, start, i, val, out, drop>>

\* The hook returned None: the value is dropped.
HookReject(t) ==
    /\ pc[t] = "return_hook"
    /\ Finish(t)
    /\ UNCHANGED <<mem, out, drop>>

ReturnId(t) ==
    /\ pc[t] = "return_id"
    /\ NextId(t)
    /\ pc' = [pc EXCEPT ![t] = "return_probe"]
    /\ UNCHANGED <<states, pool, val, out, drop>>

\* A destroyed slot ends the search at once.
ReturnProbe(t) ==
    /\ pc[t] = "return_probe" /\ i[t] < MaxLoop
    /\ IF states[Probe(t)] = "EMPTY"
       THEN /\ states' = [states EXCEPT ![Probe(t)] = "WRITING"]
            /\ pc' = [pc EXCEPT ![t] = "return_write"]
            /\ UNCHANGED i
       ELSE /\ i' = [i EXCEPT ![t] = IF states[Probe(t)] = "DESTROYED"
                                     THEN MaxLoop ELSE @ + 1]
            /\ UNCHANGED <<states, pc>>
    /\ UNCHANGED <<skip, pool, start, val, out, drop>>

\* The cell is overwritten; a value left in it would never be dropped.
ReturnWrite(t) ==
    /\ pc[t] = "return_write"
    /\ pool' = [pool EXCEPT ![Probe(t)] = val[t]]
    /\ val' = [val EXCEPT ![t] = NoVal]
    /\ pc' = [pc EXCEPT ![t] = "return_publish"]
    /\ UNCHANGED <<skip, states, start, i, out, drop>>

ReturnPublish(t) ==
    /\ pc[t] = "return_publish"
    /\ SwapState(Probe(t), "WRITING", "AVAILABLE")
    /\ Finish(t)
    /\ UNCHANGED <<skip, pool, out, drop>>

\* The search found no empty slot: the value is dropped.
ReturnGiveUp(t) ==
    /\ pc[t] = "return_probe" /\ i[t] = MaxLoop
    /\ Finish(t)
    /\ UNCHANGED <<mem, out, drop>>

-----------------------------------------------------------------------------
(* Drop of the pool, which owns it: no call is in progress and no Pooled,  *)
(* which borrows the pool, is left.                                        *)

DropBegin ==
    /\ dpc = "live" /\ out = {} /\ \A t \in Thread : pc[t] = "idle"
    /\ dpc' = "dropping" /\ di' = 0 /\ except' = CAP
    /\ UNCHANGED <<mem, loc, out>>

\* Faulty: a slot is destroyed with its value inside.
DropSlotLeaking ==
    /\ dpc = "dropping" /\ di < CAP
    /\ states' = [states EXCEPT ![di] = IF @ = "WRITING" THEN @ ELSE "DESTROYED"]
    /\ except' = IF states[di] = "WRITING" THEN except ELSE except - 1
    /\ di' = di + 1
    /\ UNCHANGED <<skip, pool, loc, out, dpc>>

\* One turn of the for loop.  The three exchanges destroy the slot from any
\* state but WRITING; only an AVAILABLE slot's value is dropped.
DropSlot ==
    /\ dpc = "dropping" /\ di < CAP
    /\ pool' = IF states[di] = "AVAILABLE" THEN [pool EXCEPT ![di] = NoVal]
                                           ELSE pool
    /\ states' = [states EXCEPT ![di] = IF @ = "WRITING" THEN @ ELSE "DESTROYED"]
    /\ except' = IF states[di] = "WRITING" THEN except ELSE except - 1
    /\ di' = di + 1
    /\ UNCHANGED <<skip, loc, out, dpc>>

\* The while loop: another pass until every slot is destroyed.
DropPass ==
    /\ dpc = "dropping" /\ di = CAP
    /\ IF except = 0
       THEN dpc' = "dropped" /\ UNCHANGED <<di, except>>
       ELSE di' = 0 /\ except' = CAP /\ UNCHANGED dpc
    /\ UNCHANGED <<mem, loc, out>>

-----------------------------------------------------------------------------

\* The steps of a call that has begun.
Step(t) == \/ TakeProbe(t) \/ TakeRead(t) \/ TakeUnlock(t) \/ TakeHook(t)
           \/ Create(t) \/ HookAccept(t) \/ HookReject(t) \/ ReturnId(t)
           \/ ReturnProbe(t) \/ ReturnWrite(t) \/ ReturnPublish(t)
           \/ ReturnGiveUp(t)

DropStep == DropSlot \/ DropPass

\* Nothing is left to do with a dropped pool.
Dropped == dpc = "dropped" /\ UNCHANGED vars

Next == \/ \E t \in Thread : \/ TakeBegin(t) \/ Step(t)
                             \/ \E v \in Val : ReturnBegin(t, v)
        \/ \E v \in Val : Forget(v)
        \/ DropBegin \/ DropStep \/ Dropped

Spec == Init /\ [][Next]_vars

\* Wait-freedom needs no other thread to run: only the threads of Running
\* are sure to be scheduled, and a started drop of the pool.
FairSpec == /\ Spec
            /\ \A t \in Running : WF_vars(Step(t))
            /\ WF_vars(DropStep)

-----------------------------------------------------------------------------
(* Properties *)

\* Types of the atomics, the cells and the locals of take and return_value.
TypeOK == /\ skip \in 0..(SkipMod - 1)
          /\ states \in [Slot -> State]
          /\ pool \in [Slot -> Val \cup {NoVal}]
          /\ pc \in [Thread -> {"idle"} \cup TakePc \cup ReturnPc]
          /\ start \in [Thread -> 0..(SkipMod - 1)]
          /\ i \in [Thread -> 0..MaxLoop]
          /\ val \in [Thread -> Val \cup {NoVal}]
          /\ out \subseteq Val
          /\ dpc \in {"live", "dropping", "dropped"}
          /\ di \in 0..CAP
          /\ except \in 0..CAP

\* A thread that won the exchange on a slot and has not released it yet.
Taking(t)  == pc[t] \in {"take_read", "take_unlock"}
Writing(t) == pc[t] \in {"return_write", "return_publish"}
Claims(t)  == Taking(t) \/ Writing(t)

\* No two threads touch the same cell at once, although the cells are plain
\* memory that take and return_value access without any lock.
SlotExclusive ==
    \A t, u \in Thread :
        Claims(t) /\ Claims(u) /\ Probe(t) = Probe(u) => t = u

\* take never reads an uninitialized cell (assume_init), return_value never
\* overwrites a live value (it would leak), and the state a thread finds when
\* it releases its slot is the one it left there, so the ignored result of the
\* second exchange is always a success.
ClaimIntact ==
    \A t \in Thread :
        /\ pc[t] = "take_read" => pool[Probe(t)] # NoVal
        /\ pc[t] = "return_write" => pool[Probe(t)] = NoVal
        /\ Taking(t) => states[Probe(t)] = "TAKING"
        /\ Writing(t) => states[Probe(t)] = "WRITING"

\* An object has one owner: it is never handed to two callers, and never both
\* in the pool and with a caller (the ABA hazard the comment above take names).
OneOwner ==
    /\ \A s, r \in Slot : pool[s] = pool[r] /\ pool[s] # NoVal => s = r
    /\ \A t, u \in Thread : val[t] = val[u] /\ val[t] # NoVal => t = u
    /\ \A s \in Slot, t \in Thread : pool[s] = val[t] => pool[s] = NoVal
    /\ \A v \in out : /\ \A s \in Slot : pool[s] # v
                      /\ \A t \in Thread : val[t] # v

\* A slot out of service is out of service because of a thread that is still
\* there: no slot is lost for good, and an object is in a slot exactly when
\* the state says so.
NoSlotLost ==
    \A s \in Slot :
        /\ states[s] = "TAKING" => \E t \in Thread : Taking(t) /\ Probe(t) = s
        /\ states[s] = "WRITING" => \E t \in Thread : Writing(t) /\ Probe(t) = s
        /\ states[s] \in {"EMPTY", "DESTROYED"} => pool[s] = NoVal
        /\ states[s] = "AVAILABLE" => pool[s] # NoVal

\* Dropping the pool drops every value in it.
DroppedEmpty == dpc = "dropped" => Live = {}

\* "Provides an object pool that is wait-free": a call ends in a bounded number
\* of the thread's own steps, whatever the other threads do or stop doing.
WaitFree ==
    \A t \in Running : pc[t] # "idle" ~> pc[t] = "idle"

OthersStalled(t) == \A u \in Thread \ {t} : pc'[u] = pc[u] /\ i'[u] = i[u]

NothingMissed(t) ==
    MaxLoop = CAP /\ i[t] = MaxLoop
    => /\ pc[t] = "take_probe" => \A s \in Slot : states[s] # "AVAILABLE"
       /\ pc[t] = "return_probe" => \A s \in Slot : states[s] # "EMPTY"

\* Once the other threads take no more steps, wherever in a call they have
\* stopped, a search of the whole array misses nothing: an object is created
\* only when none is in the pool, and dropped only when no slot is free,
\* wherever the counter wraps.
StalledSearchComplete ==
    \A t \in Running : <>[][OthersStalled(t)]_vars => <>[]NothingMissed(t)

\* The drop of the pool, which spins on slots in use, ends.
DropEnds == dpc = "dropping" ~> dpc = "dropped"

\* The pool as its callers see it: a take takes effect when the exchange to
\* TAKING succeeds, a return when the one to AVAILABLE does.
Pooled == {pool[s] : s \in {r \in Slot : states[r] = "AVAILABLE"}}

InHand == (out \cup {val[t] : t \in Thread}
               \cup {pool[s] : s \in {r \in Slot : states[r] \in {"TAKING", "WRITING"}}})
          \ {NoVal}

A == INSTANCE AbstractPool WITH pooled <- Pooled, out <- InHand,
                                open <- (dpc = "live")

\* Every behaviour of the lock-free pool is one of the abstract pool.
RefinesAbstract == A!Spec
=============================================================================
