---------------------------- MODULE AbstractPool ----------------------------
(***************************************************************************)
(* What the object pool of crates/io/src/pool.rs promises its callers,     *)
(* without slots, atomics or threads: a bounded set of pooled values and   *)
(* the set of values that are outside of it, every operation one step.     *)
(* Module Pool implements it.                                              *)
(***************************************************************************)
EXTENDS Naturals, FiniteSets

CONSTANTS Val,    \* identities of the pooled objects
          CAP     \* CAPACITY, the number of slots

VARIABLES pooled, \* the values in the pool
          out,    \* the values a caller, or a call in progress, owns
          open    \* FALSE once the pool is being dropped

avars == <<pooled, out, open>>

Init == pooled = {} /\ out = {} /\ open = TRUE

\* Pool::take finds a pooled value.
Take(v) == /\ open /\ v \in pooled
           /\ pooled' = pooled \ {v}
           /\ out' = out \cup {v}
           /\ UNCHANGED open

\* Pool::take finds none and calls the factory: the value is a new one.
Create(v) == /\ open /\ v \in Val \ (pooled \cup out)
             /\ out' = out \cup {v}
             /\ UNCHANGED <<pooled, open>>

\* A returned value is kept, only while there is room for it ...
Return(v) == /\ open /\ v \in out /\ Cardinality(pooled) < CAP
             /\ pooled' = pooled \cup {v}
             /\ out' = out \ {v}
             /\ UNCHANGED open

\* ... or dropped: refused by the hook, no slot found, or forgotten.
Discard(v) == /\ open /\ v \in out
              /\ out' = out \ {v}
              /\ UNCHANGED <<pooled, open>>

\* Drop needs every borrowed value back, and destroys each pooled one once.
Close == open /\ out = {} /\ open' = FALSE /\ UNCHANGED <<pooled, out>>

Purge(v) == /\ ~open /\ v \in pooled
            /\ pooled' = pooled \ {v}
            /\ UNCHANGED <<out, open>>

Next == \/ \E v \in Val : \/ Take(v) \/ Create(v) \/ Return(v)
                          \/ Discard(v) \/ Purge(v)
        \/ Close

Spec == Init /\ [][Next]_avars
=============================================================================
