----------------------------- MODULE BufferPool -----------------------------
(***************************************************************************)
(* BUFFER_POOL of crates/io/src/pool.rs: the pool of byte buffers, whose   *)
(* hooks keep the total capacity of the pooled buffers in a global counter *)
(* and refuse a buffer that is too large, or for which there is no room.   *)
(* It is module Pool with a state for the hooks: every step here is a step *)
(* of Pool, or leaves Pool's variables alone.  BUFFER_POOL is a static, so *)
(* it is never dropped.                                                    *)
(***************************************************************************)
EXTENDS Pool, Integers, FiniteSetsExt

CONSTANTS Capacity,    \* the capacities a BytesMut may have
          DefaultLen,  \* DEFAULT_BUFFER_LEN
          MaxSingle,   \* MAX_SINGLE_BUFFER
          MaxTotal     \* MAX_TOTAL_BUFFERS

ASSUME CapacityAssumption == Capacity \subseteq Nat /\ DefaultLen \in Capacity
ASSUME LimitAssumption == MaxSingle \in Nat /\ MaxTotal \in Nat
ASSUME ThreadAssumption == IsFiniteSet(Thread) /\ Thread # {}

NotLoaded == -1

VARIABLES size,     \* CURRENT_SIZE
          capacity, \* the capacity of each buffer; DefaultLen of a dead one
          loaded,   \* the CURRENT_SIZE each thread read in the return hook
          lost      \* history: the capacity counted for buffers given up

hooks == <<size, capacity, loaded, lost>>
bvars == <<vars, hooks>>

BInit == /\ Init
         /\ size = 0
         /\ capacity = [v \in Val |-> DefaultLen]
         /\ loaded = [t \in Thread |-> NotLoaded]
         /\ lost = 0

\* A buffer that is dropped takes its capacity with it; a new one starts from
\* the factory's.
Forgetting == capacity' = [v \in Val |-> IF v \in Live' THEN capacity[v]
                                                         ELSE DefaultLen]

\* Faulty: a buffer that grew is counted with its first capacity.
CapAtCreation(t) == DefaultLen

Cap(t) == capacity[val[t]]

\* The owner of a buffer grows it, or splits a part off.
Resize(v, c) == /\ v \in out /\ c \in Capacity \ {capacity[v]}
                /\ capacity' = [capacity EXCEPT ![v] = c]
                /\ UNCHANGED <<vars, size, loaded, lost>>

\* The return hook, first half: the load.  A buffer over MAX_SINGLE_BUFFER is
\* refused without it.
HookLoad(t) == /\ pc[t] = "return_hook" /\ loaded[t] = NotLoaded
               /\ Cap(t) <= MaxSingle
               /\ loaded' = [loaded EXCEPT ![t] = size]
               /\ UNCHANGED <<vars, size, capacity, lost>>

\* Faulty: no limit on the total.
HookCountUnlimited(t) == /\ loaded[t] # NotLoaded
                         /\ HookAccept(t)
                         /\ size' = size + Cap(t)
                         /\ loaded' = [loaded EXCEPT ![t] = NotLoaded]
                         /\ UNCHANGED <<capacity, lost>>

\* Faulty: a refused return leaves its load behind for the next one.
HookRefuseStale(t) == /\ pc[t] = "return_hook"
                      /\ \/ Cap(t) > MaxSingle
                         \/ loaded[t] # NotLoaded /\ loaded[t] + Cap(t) > MaxTotal
                      /\ HookReject(t)
                      /\ Forgetting
                      /\ UNCHANGED <<size, loaded, lost>>

\* The return hook, second half: other threads may have counted their buffers
\* since the load.
HookCount(t) == /\ loaded[t] # NotLoaded /\ loaded[t] + Cap(t) <= MaxTotal
                /\ HookAccept(t)
                /\ size' = size + Cap(t)
                /\ loaded' = [loaded EXCEPT ![t] = NotLoaded]
                /\ UNCHANGED <<capacity, lost>>

HookRefuse(t) == /\ pc[t] = "return_hook"
                 /\ \/ Cap(t) > MaxSingle
                    \/ loaded[t] # NotLoaded /\ loaded[t] + Cap(t) > MaxTotal
                 /\ HookReject(t)
                 /\ loaded' = [loaded EXCEPT ![t] = NotLoaded]
                 /\ Forgetting
                 /\ UNCHANGED <<size, lost>>

\* The take hook, after the slot was released.
HookUncount(t) == /\ TakeHook(t)
                  /\ size' = size - Cap(t)
                  /\ UNCHANGED <<capacity, loaded, lost>>

\* No slot was found for a counted buffer.
GiveUp(t) == /\ ReturnGiveUp(t)
             /\ lost' = lost + Cap(t)
             /\ Forgetting
             /\ UNCHANGED <<size, loaded>>

\* Every other step of the pool leaves the hooks' state alone.
PoolStep(t) == /\ \/ TakeBegin(t) \/ TakeProbe(t) \/ TakeRead(t)
                  \/ TakeUnlock(t) \/ Create(t) \/ ReturnId(t)
                  \/ ReturnProbe(t) \/ ReturnWrite(t) \/ ReturnPublish(t)
                  \/ \E v \in Val : ReturnBegin(t, v)
               /\ UNCHANGED hooks

Discard(v) == Forget(v) /\ Forgetting /\ UNCHANGED <<size, loaded, lost>>

BNext == \/ \E t \in Thread : \/ HookLoad(t) \/ HookCount(t) \/ HookRefuse(t)
                              \/ HookUncount(t) \/ GiveUp(t) \/ PoolStep(t)
         \/ \E v \in Val : Discard(v) \/ \E c \in Capacity : Resize(v, c)

BSpec == BInit /\ [][BNext]_bvars

-----------------------------------------------------------------------------
(* Properties *)

\* Types of the counter and of the hooks' locals.
BTypeOK == /\ size \in Int
           /\ capacity \in [Val -> Capacity]
           /\ loaded \in [Thread -> Int]
           /\ \A t \in Thread : loaded[t] # NotLoaded => pc[t] = "return_hook"
           /\ lost \in Nat

\* The buffers in a cell, or carried by a call that has counted them and has
\* not uncounted them yet.
Counted == ({pool[s] : s \in Slot}
            \cup {val[t] : t \in {u \in Thread : pc[u] \notin {"idle", "return_hook"}}})
           \ {NoVal}

\* CURRENT_SIZE is exact up to the buffers that were counted and then found no
\* slot, at every step of every interleaving: no buffer is counted twice or
\* uncounted twice, and the unsigned counter never wraps below zero.
SizeAccounts == /\ size >= 0
                /\ size = MapThenSumSet(LAMBDA v : capacity[v], Counted) + lost

\* "It's a soft limit": the load and the addition are not atomic, but each
\* thread can overshoot by one buffer only.
SoftLimit == size <= MaxTotal + (Cardinality(Thread) - 1) * MaxSingle

\* The limit concerns the buffers in the pool: when no call is in progress and
\* the pool is empty, the pool has room for a buffer of the default size.
EmptyPoolHasRoom ==
    (\A t \in Thread : pc[t] = "idle") /\ Pooled = {}
        => size + DefaultLen <= MaxTotal
=============================================================================
