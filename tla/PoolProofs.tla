----------------------------- MODULE PoolProofs -----------------------------
(***************************************************************************)
(* Proofs about Pool for any number of threads, slots and objects, any     *)
(* search length and any width of the counter: its invariants, that it     *)
(* implements AbstractPool, and that a search misses no slot.              *)
(***************************************************************************)
EXTENDS Pool, Integers, FiniteSetTheorems, TLAPS

\* The program points at which a call's local variable holds a value.
Carrying == {"take_unlock", "take_hook", "return_hook", "return_id",
             "return_probe", "return_write"}

\* A local variable is set exactly between the read of it and its use, and a
\* claimed cell is empty exactly while the value is in the local variable.
LocalsMatch ==
    \A t \in Thread :
        /\ pc[t] \in Carrying <=> val[t] # NoVal
        /\ pc[t] = "take_unlock" => pool[Probe(t)] = NoVal
        /\ pc[t] = "return_publish" => pool[Probe(t)] # NoVal

\* While the pool is being dropped nothing else happens, and the slots behind
\* the loop counter are destroyed.
DropExclusive ==
    /\ dpc # "live" => out = {} /\ \A t \in Thread : pc[t] = "idle"
    /\ dpc = "dropping" => /\ except + di >= CAP
                           /\ \A s \in Slot : s < di => states[s] = "DESTROYED"
    /\ dpc = "dropped" => \A s \in Slot : states[s] = "DESTROYED"

IInv == /\ TypeOK
        /\ SlotExclusive
        /\ ClaimIntact
        /\ OneOwner
        /\ NoSlotLost
        /\ LocalsMatch
        /\ DropExclusive

-----------------------------------------------------------------------------
(* Lemmas about the slot a thread looks at *)

\* The probed index is inside the arrays, whatever the counter.
LEMMA ProbeInSlot ==
    ASSUME TypeOK, NEW t \in Thread
    PROVE  Probe(t) \in Slot
  <1>1. MaxLoop \in Nat
    BY CAPAssumption, SearchAssumption DEF MaxLoop
  <1>2. i[t] + start[t] \in Nat
    BY DEF TypeOK
  <1>3. (i[t] + start[t]) % SkipMod \in Nat
    BY <1>2, SkipModAssumption
  <1> QED
    BY <1>3, CAPAssumption DEF Probe, Slot

\* A thread's slot is its own business: other threads do not move it.
LEMMA ProbeKept ==
    ASSUME NEW t \in Thread, i'[t] = i[t], start'[t] = start[t]
    PROVE  Probe(t)' = Probe(t)
  BY DEF Probe

\* The counter stays in its width.
LEMMA NextSkip ==
    ASSUME TypeOK, NEW t \in Thread
    PROVE  (skip + ThreadId[t]) % SkipMod \in 0..(SkipMod - 1)
  <1>1. skip + ThreadId[t] \in Nat
    BY ThreadIdAssumption DEF TypeOK
  <1> QED
    BY <1>1, SkipModAssumption

\* MaxLoop is a number of loop turns, at most the number of slots.
LEMMA MaxLoopBound == MaxLoop \in Nat /\ MaxLoop <= CAP
  BY CAPAssumption, SearchAssumption DEF MaxLoop

-----------------------------------------------------------------------------

LEMMA InitInv == Init => IInv
  <1> SUFFICES ASSUME Init PROVE IInv
    OBVIOUS
  <1> USE CAPAssumption, SkipModAssumption, MaxLoopBound DEF Init
  <1>1. TypeOK
    BY DEF TypeOK, State
  <1>2. SlotExclusive /\ ClaimIntact
    BY DEF SlotExclusive, ClaimIntact, Claims, Taking, Writing
  <1>3. OneOwner /\ NoSlotLost
    BY DEF OneOwner, NoSlotLost
  <1>4. LocalsMatch /\ DropExclusive
    BY DEF LocalsMatch, Carrying, DropExclusive
  <1> QED
    BY <1>1, <1>2, <1>3, <1>4 DEF IInv

LEMMA TakeProbeInv ==
    ASSUME IInv, NEW t \in Thread, TakeProbe(t)
    PROVE  IInv'
  <1> USE DEF IInv, TakeProbe, drop
  <1>1. \A u \in Thread : Probe(u) \in Slot
    BY ProbeInSlot
  <1>2. \A u \in Thread : u # t => Probe(u)' = Probe(u)
    BY ProbeKept DEF TypeOK
  <1>3. states[Probe(t)] = "AVAILABLE" => Probe(t)' = Probe(t)
    BY ProbeKept
  <1>4. TypeOK'
    BY MaxLoopBound DEF TypeOK, State, TakePc
  <1>5. SlotExclusive'
    BY <1>2, <1>3 DEF TypeOK, SlotExclusive, ClaimIntact, Claims, Taking,
       Writing
  <1>6. ClaimIntact'
    BY <1>1, <1>2, <1>3 DEF TypeOK, ClaimIntact, NoSlotLost, Taking, Writing
  <1>7. OneOwner'
    BY DEF OneOwner
  <1>8. NoSlotLost'
    BY <1>2, <1>3 DEF TypeOK, NoSlotLost, Taking, Writing
  <1>9. LocalsMatch'
    BY <1>2 DEF TypeOK, LocalsMatch, Carrying
  <1>10. DropExclusive'
    BY DEF DropExclusive
  <1> QED
    BY <1>4, <1>5, <1>6, <1>7, <1>8, <1>9, <1>10

LEMMA TakeBeginInv ==
    ASSUME IInv, NEW t \in Thread, TakeBegin(t)
    PROVE  IInv'
  <1> USE DEF IInv, TakeBegin, NextId, drop
  <1>1. \A u \in Thread : Probe(u) \in Slot
    BY ProbeInSlot
  <1>2. \A u \in Thread : u # t => Probe(u)' = Probe(u)
    BY ProbeKept
  <1>3. TypeOK'
    BY NextSkip, MaxLoopBound DEF TypeOK, TakePc
  <1>4. SlotExclusive'
    BY <1>2 DEF SlotExclusive, Claims, Taking, Writing
  <1>5. ClaimIntact'
    BY <1>2 DEF ClaimIntact, Taking, Writing
  <1>6. OneOwner'
    BY DEF OneOwner
  <1>7. NoSlotLost'
    BY <1>2 DEF NoSlotLost, Taking, Writing
  <1>8. LocalsMatch'
    BY <1>2 DEF LocalsMatch, Carrying
  <1>9. DropExclusive'
    BY DEF DropExclusive
  <1> QED
    BY <1>3, <1>4, <1>5, <1>6, <1>7, <1>8, <1>9

LEMMA TakeReadInv ==
    ASSUME IInv, NEW t \in Thread, TakeRead(t)
    PROVE  IInv'
  <1> USE DEF IInv, TakeRead, drop
  <1>1. \A u \in Thread : Probe(u) \in Slot
    BY ProbeInSlot
  <1>2. \A u \in Thread : Probe(u)' = Probe(u)
    BY ProbeKept
  <1>3. TypeOK'
    BY <1>1 DEF TypeOK, TakePc
  <1>4. SlotExclusive'
    BY <1>2 DEF SlotExclusive, Claims, Taking, Writing
  <1>5. ClaimIntact'
    BY <1>2 DEF TypeOK, ClaimIntact, SlotExclusive, Claims, Taking, Writing
  <1>6. OneOwner'
    BY <1>1, NoValAssumption DEF TypeOK, OneOwner
  <1>7. NoSlotLost'
    BY <1>2 DEF NoSlotLost, ClaimIntact, Taking, Writing
  <1>8. LocalsMatch'
    BY <1>1, <1>2 DEF TypeOK, LocalsMatch, ClaimIntact, Taking, Writing,
       Carrying
  <1>9. DropExclusive'
    BY DEF DropExclusive
  <1> QED
    BY <1>3, <1>4, <1>5, <1>6, <1>7, <1>8, <1>9

LEMMA TakeUnlockInv ==
    ASSUME IInv, NEW t \in Thread, TakeUnlock(t)
    PROVE  IInv'
  <1> USE DEF IInv, TakeUnlock, SwapState, drop
  <1>1. \A u \in Thread : Probe(u) \in Slot
    BY ProbeInSlot
  <1>2. \A u \in Thread : Probe(u)' = Probe(u)
    BY ProbeKept
  <1>3. TypeOK'
    BY DEF TypeOK, State, TakePc
  <1>4. SlotExclusive'
    BY <1>2 DEF SlotExclusive, Claims, Taking, Writing
  <1>5. ClaimIntact'
    BY <1>2 DEF TypeOK, ClaimIntact, SlotExclusive, Claims, Taking, Writing
  <1>6. OneOwner'
    BY DEF OneOwner
  <1>7. NoSlotLost'
    BY <1>2 DEF TypeOK, NoSlotLost, LocalsMatch, Taking, Writing
  <1>8. LocalsMatch'
    BY <1>2 DEF LocalsMatch, Carrying
  <1>9. DropExclusive'
    BY DEF DropExclusive
  <1> QED
    BY <1>3, <1>4, <1>5, <1>6, <1>7, <1>8, <1>9

LEMMA TakeHookInv ==
    ASSUME IInv, NEW t \in Thread, TakeHook(t)
    PROVE  IInv'
  <1> USE DEF IInv, TakeHook, Finish, mem, drop
  <1>1. \A u \in Thread : Probe(u) \in Slot
    BY ProbeInSlot
  <1>2. \A u \in Thread : u # t => Probe(u)' = Probe(u)
    BY ProbeKept
  <1>3. TypeOK'
    BY SkipModAssumption, MaxLoopBound DEF TypeOK, LocalsMatch, Carrying
  <1>4. SlotExclusive'
    BY <1>2 DEF SlotExclusive, Claims, Taking, Writing
  <1>5. ClaimIntact'
    BY <1>2 DEF ClaimIntact, Taking, Writing
  <1>6. OneOwner'
    BY NoValAssumption DEF TypeOK, OneOwner, LocalsMatch, Carrying
  <1>7. NoSlotLost'
    BY <1>2 DEF NoSlotLost, Taking, Writing
  <1>8. LocalsMatch'
    BY <1>2 DEF TypeOK, LocalsMatch, Carrying
  <1>9. DropExclusive'
    BY DEF DropExclusive
  <1> QED
    BY <1>3, <1>4, <1>5, <1>6, <1>7, <1>8, <1>9

LEMMA CreateInv ==
    ASSUME IInv, NEW t \in Thread, Create(t)
    PROVE  IInv'
  <1> USE DEF IInv, Create, Finish, mem, drop
  <1>1. \A u \in Thread : Probe(u) \in Slot
    BY ProbeInSlot
  <1>2. \A u \in Thread : u # t => Probe(u)' = Probe(u)
    BY ProbeKept
  <1>3. TypeOK'
    BY SkipModAssumption DEF TypeOK
  <1>4. SlotExclusive'
    BY <1>2 DEF SlotExclusive, Claims, Taking, Writing
  <1>5. ClaimIntact'
    BY <1>2 DEF ClaimIntact, Taking, Writing
  <1>6. OneOwner'
    BY NoValAssumption DEF OneOwner, LocalsMatch, Carrying, Live
  <1>7. NoSlotLost'
    BY <1>2 DEF NoSlotLost, Taking, Writing
  <1>8. LocalsMatch'
    BY <1>2 DEF LocalsMatch, Carrying
  <1>9. DropExclusive'
    BY DEF DropExclusive
  <1> QED
    BY <1>3, <1>4, <1>5, <1>6, <1>7, <1>8, <1>9

LEMMA ForgetInv ==
    ASSUME IInv, NEW v \in Val, Forget(v)
    PROVE  IInv'
  <1> USE DEF IInv, Forget, mem, loc, drop
  <1>1. \A u \in Thread : Probe(u)' = Probe(u)
    BY ProbeKept
  <1>2. TypeOK'
    BY DEF TypeOK
  <1>3. SlotExclusive'
    BY <1>1 DEF SlotExclusive, Claims, Taking, Writing
  <1>4. ClaimIntact'
    BY <1>1 DEF ClaimIntact, Taking, Writing
  <1>5. OneOwner'
    BY DEF OneOwner
  <1>6. NoSlotLost'
    BY <1>1 DEF NoSlotLost, Taking, Writing
  <1>7. LocalsMatch'
    BY <1>1 DEF LocalsMatch
  <1>8. DropExclusive'
    BY DEF DropExclusive
  <1> QED
    BY <1>2, <1>3, <1>4, <1>5, <1>6, <1>7, <1>8

LEMMA ReturnBeginInv ==
    ASSUME IInv, NEW t \in Thread, NEW v \in Val, ReturnBegin(t, v)
    PROVE  IInv'
  <1> USE DEF IInv, ReturnBegin, mem, drop
  <1>1. \A u \in Thread : Probe(u) \in Slot
    BY ProbeInSlot
  <1>2. \A u \in Thread : Probe(u)' = Probe(u)
    BY ProbeKept
  <1>3. TypeOK'
    BY DEF TypeOK, ReturnPc
  <1>4. SlotExclusive'
    BY <1>2 DEF SlotExclusive, Claims, Taking, Writing
  <1>5. ClaimIntact'
    BY <1>2 DEF ClaimIntact, Taking, Writing
  <1>6. OneOwner'
    BY DEF OneOwner
  <1>7. NoSlotLost'
    BY <1>2 DEF NoSlotLost, Taking, Writing
  <1>8. LocalsMatch'
    BY <1>2, NoValAssumption DEF TypeOK, LocalsMatch, Carrying
  <1>9. DropExclusive'
    BY DEF DropExclusive
  <1> QED
    BY <1>3, <1>4, <1>5, <1>6, <1>7, <1>8, <1>9

LEMMA HookAcceptInv ==
    ASSUME IInv, NEW t \in Thread, HookAccept(t)
    PROVE  IInv'
  <1> USE DEF IInv, HookAccept, mem, drop
  <1>1. \A u \in Thread : Probe(u)' = Probe(u)
    BY ProbeKept
  <1>2. TypeOK'
    BY DEF TypeOK, ReturnPc
  <1>3. SlotExclusive'
    BY <1>1 DEF SlotExclusive, Claims, Taking, Writing
  <1>4. ClaimIntact'
    BY <1>1 DEF ClaimIntact, Taking, Writing
  <1>5. OneOwner'
    BY DEF OneOwner
  <1>6. NoSlotLost'
    BY <1>1 DEF NoSlotLost, Taking, Writing
  <1>7. LocalsMatch'
    BY <1>1 DEF LocalsMatch, Carrying
  <1>8. DropExclusive'
    BY DEF DropExclusive
  <1> QED
    BY <1>2, <1>3, <1>4, <1>5, <1>6, <1>7, <1>8

LEMMA HookRejectInv ==
    ASSUME IInv, NEW t \in Thread, HookReject(t)
    PROVE  IInv'
  <1> USE DEF IInv, HookReject, Finish, mem, drop
  <1>1. \A u \in Thread : Probe(u) \in Slot
    BY ProbeInSlot
  <1>2. \A u \in Thread : u # t => Probe(u)' = Probe(u)
    BY ProbeKept
  <1>3. TypeOK'
    BY SkipModAssumption, MaxLoopBound DEF TypeOK
  <1>4. SlotExclusive'
    BY <1>2 DEF SlotExclusive, Claims, Taking, Writing
  <1>5. ClaimIntact'
    BY <1>2 DEF ClaimIntact, Taking, Writing
  <1>6. OneOwner'
    BY NoValAssumption DEF TypeOK, OneOwner
  <1>7. NoSlotLost'
    BY <1>2 DEF NoSlotLost, Taking, Writing
  <1>8. LocalsMatch'
    BY <1>2 DEF TypeOK, LocalsMatch, Carrying
  <1>9. DropExclusive'
    BY DEF DropExclusive
  <1> QED
    BY <1>3, <1>4, <1>5, <1>6, <1>7, <1>8, <1>9

LEMMA ReturnIdInv ==
    ASSUME IInv, NEW t \in Thread, ReturnId(t)
    PROVE  IInv'
  <1> USE DEF IInv, ReturnId, NextId, drop
  <1>1. \A u \in Thread : Probe(u) \in Slot
    BY ProbeInSlot
  <1>2. \A u \in Thread : u # t => Probe(u)' = Probe(u)
    BY ProbeKept
  <1>3. TypeOK'
    BY NextSkip, MaxLoopBound DEF TypeOK, ReturnPc
  <1>4. SlotExclusive'
    BY <1>2 DEF SlotExclusive, Claims, Taking, Writing
  <1>5. ClaimIntact'
    BY <1>2 DEF ClaimIntact, Taking, Writing
  <1>6. OneOwner'
    BY DEF OneOwner
  <1>7. NoSlotLost'
    BY <1>2 DEF NoSlotLost, Taking, Writing
  <1>8. LocalsMatch'
    BY <1>2 DEF LocalsMatch, Carrying
  <1>9. DropExclusive'
    BY DEF DropExclusive
  <1> QED
    BY <1>3, <1>4, <1>5, <1>6, <1>7, <1>8, <1>9

LEMMA ReturnProbeInv ==
    ASSUME IInv, NEW t \in Thread, ReturnProbe(t)
    PROVE  IInv'
  <1> USE DEF IInv, ReturnProbe, drop
  <1>1. \A u \in Thread : Probe(u) \in Slot
    BY ProbeInSlot
  <1>2. \A u \in Thread : u # t => Probe(u)' = Probe(u)
    BY ProbeKept DEF TypeOK
  <1>3. states[Probe(t)] = "EMPTY" => Probe(t)' = Probe(t)
    BY ProbeKept
  <1>4. TypeOK'
    BY MaxLoopBound DEF TypeOK, State, ReturnPc
  <1>5. SlotExclusive'
    BY <1>2, <1>3 DEF TypeOK, SlotExclusive, ClaimIntact, Claims, Taking,
       Writing
  <1>6. ClaimIntact'
    BY <1>1, <1>2, <1>3 DEF TypeOK, ClaimIntact, NoSlotLost, Taking, Writing
  <1>7. OneOwner'
    BY DEF OneOwner
  <1>8. NoSlotLost'
    BY <1>2, <1>3 DEF TypeOK, NoSlotLost, Taking, Writing
  <1>9. LocalsMatch'
    BY <1>2 DEF TypeOK, LocalsMatch, Carrying
  <1>10. DropExclusive'
    BY DEF DropExclusive
  <1> QED
    BY <1>4, <1>5, <1>6, <1>7, <1>8, <1>9, <1>10

LEMMA ReturnWriteInv ==
    ASSUME IInv, NEW t \in Thread, ReturnWrite(t)
    PROVE  IInv'
  <1> USE DEF IInv, ReturnWrite, drop
  <1>1. \A u \in Thread : Probe(u) \in Slot
    BY ProbeInSlot
  <1>2. \A u \in Thread : Probe(u)' = Probe(u)
    BY ProbeKept
  <1>3. TypeOK'
    BY DEF TypeOK, ReturnPc
  <1>4. SlotExclusive'
    BY <1>2 DEF SlotExclusive, Claims, Taking, Writing
  <1>5. ClaimIntact'
    BY <1>2 DEF TypeOK, ClaimIntact, SlotExclusive, Claims, Taking, Writing
  <1>6. OneOwner'
    BY NoValAssumption DEF TypeOK, OneOwner
  <1>7. NoSlotLost'
    BY <1>2 DEF NoSlotLost, ClaimIntact, Taking, Writing
  <1>8. LocalsMatch'
    BY <1>1, <1>2 DEF TypeOK, LocalsMatch, SlotExclusive, Claims, Taking,
       Writing, Carrying
  <1>9. DropExclusive'
    BY DEF DropExclusive
  <1> QED
    BY <1>3, <1>4, <1>5, <1>6, <1>7, <1>8, <1>9

LEMMA ReturnPublishInv ==
    ASSUME IInv, NEW t \in Thread, ReturnPublish(t)
    PROVE  IInv'
  <1> USE DEF IInv, ReturnPublish, SwapState, Finish, drop
  <1>1. \A u \in Thread : Probe(u) \in Slot
    BY ProbeInSlot
  <1>2. \A u \in Thread : u # t => Probe(u)' = Probe(u)
    BY ProbeKept
  <1>3. TypeOK'
    BY <1>1, SkipModAssumption, MaxLoopBound DEF TypeOK, State
  <1>4. SlotExclusive'
    BY <1>2 DEF TypeOK, SlotExclusive, Claims, Taking, Writing
  <1>5. ClaimIntact'
    BY <1>2 DEF TypeOK, ClaimIntact, SlotExclusive, Claims, Taking, Writing
  <1>6. OneOwner'
    BY DEF OneOwner, LocalsMatch, Carrying
  <1>7. NoSlotLost'
    BY <1>2 DEF TypeOK, NoSlotLost, LocalsMatch, Taking, Writing
  <1>8. LocalsMatch'
    BY <1>2 DEF TypeOK, LocalsMatch, Carrying
  <1>9. DropExclusive'
    BY DEF DropExclusive
  <1> QED
    BY <1>3, <1>4, <1>5, <1>6, <1>7, <1>8, <1>9

LEMMA ReturnGiveUpInv ==
    ASSUME IInv, NEW t \in Thread, ReturnGiveUp(t)
    PROVE  IInv'
  <1> USE DEF IInv, ReturnGiveUp, Finish, mem, drop
  <1>1. \A u \in Thread : Probe(u) \in Slot
    BY ProbeInSlot
  <1>2. \A u \in Thread : u # t => Probe(u)' = Probe(u)
    BY ProbeKept
  <1>3. TypeOK'
    BY SkipModAssumption DEF TypeOK
  <1>4. SlotExclusive'
    BY <1>2 DEF SlotExclusive, Claims, Taking, Writing
  <1>5. ClaimIntact'
    BY <1>2 DEF ClaimIntact, Taking, Writing
  <1>6. OneOwner'
    BY NoValAssumption DEF TypeOK, OneOwner
  <1>7. NoSlotLost'
    BY <1>2 DEF NoSlotLost, Taking, Writing
  <1>8. LocalsMatch'
    BY <1>2 DEF TypeOK, LocalsMatch, Carrying
  <1>9. DropExclusive'
    BY DEF DropExclusive
  <1> QED
    BY <1>3, <1>4, <1>5, <1>6, <1>7, <1>8, <1>9

LEMMA DropBeginInv ==
    ASSUME IInv, DropBegin
    PROVE  IInv'
  <1> USE DEF IInv, DropBegin, mem, loc
  <1>1. \A u \in Thread : Probe(u)' = Probe(u)
    BY ProbeKept
  <1>2. TypeOK'
    BY CAPAssumption DEF TypeOK
  <1>3. SlotExclusive'
    BY DEF SlotExclusive, Claims, Taking, Writing
  <1>4. ClaimIntact'
    BY DEF ClaimIntact, Taking, Writing
  <1>5. OneOwner'
    BY DEF OneOwner
  <1>6. NoSlotLost'
    BY DEF NoSlotLost, Taking, Writing
  <1>7. LocalsMatch'
    BY DEF LocalsMatch
  <1>8. DropExclusive'
    BY CAPAssumption DEF DropExclusive, Slot
  <1> QED
    BY <1>2, <1>3, <1>4, <1>5, <1>6, <1>7, <1>8

LEMMA DropSlotInv ==
    ASSUME IInv, DropSlot
    PROVE  IInv'
  <1> USE DEF IInv, DropSlot, loc
  <1>1. \A u \in Thread : Probe(u)' = Probe(u)
    BY ProbeKept
  <1>2. di \in Slot
    BY CAPAssumption DEF TypeOK, Slot
  <1>3. states[di] \notin {"TAKING", "WRITING"}
    BY <1>2 DEF NoSlotLost, DropExclusive, Taking, Writing
  <1>4. TypeOK'
    BY <1>2, CAPAssumption DEF TypeOK, State, DropExclusive
  <1>5. SlotExclusive'
    BY <1>1 DEF SlotExclusive, Claims, Taking, Writing
  <1>6. ClaimIntact'
    BY <1>1, <1>3 DEF ClaimIntact, Taking, Writing
  <1>7. OneOwner'
    BY NoValAssumption DEF TypeOK, OneOwner
  <1>8. NoSlotLost'
    BY <1>1, <1>3 DEF TypeOK, State, NoSlotLost, Taking, Writing
  <1>9. LocalsMatch'
    BY DEF LocalsMatch, DropExclusive
  <1>10. DropExclusive'
    BY <1>2, <1>3 DEF TypeOK, DropExclusive
  <1> QED
    BY <1>4, <1>5, <1>6, <1>7, <1>8, <1>9, <1>10

LEMMA DropPassInv ==
    ASSUME IInv, DropPass
    PROVE  IInv'
  <1> USE DEF IInv, DropPass, mem, loc
  <1>1. \A u \in Thread : Probe(u)' = Probe(u)
    BY ProbeKept
  <1>2. TypeOK'
    BY DEF TypeOK
  <1>3. SlotExclusive'
    BY <1>1 DEF SlotExclusive, Claims, Taking, Writing
  <1>4. ClaimIntact'
    BY <1>1 DEF ClaimIntact, Taking, Writing
  <1>5. OneOwner'
    BY DEF OneOwner
  <1>6. NoSlotLost'
    BY <1>1 DEF NoSlotLost, Taking, Writing
  <1>7. LocalsMatch'
    BY <1>1 DEF LocalsMatch
  <1>8. DropExclusive'
    BY CAPAssumption DEF DropExclusive, Slot
  <1> QED
    BY <1>2, <1>3, <1>4, <1>5, <1>6, <1>7, <1>8

-----------------------------------------------------------------------------

LEMMA StepInv ==
    ASSUME IInv, [Next]_vars
    PROVE  IInv'
  <1>1. ASSUME NEW t \in Thread, TakeBegin(t) \/ Step(t) \/ \E v \in Val : ReturnBegin(t, v)
        PROVE  IInv'
    BY <1>1, TakeBeginInv, TakeProbeInv, TakeReadInv, TakeUnlockInv,
       TakeHookInv, CreateInv, ReturnBeginInv, HookAcceptInv, HookRejectInv,
       ReturnIdInv, ReturnProbeInv, ReturnWriteInv, ReturnPublishInv,
       ReturnGiveUpInv DEF Step
  <1>2. ASSUME NEW v \in Val, Forget(v)
        PROVE  IInv'
    BY <1>2, ForgetInv
  <1>3. CASE DropBegin \/ DropStep
    BY <1>3, DropBeginInv, DropSlotInv, DropPassInv DEF DropStep
  <1>4. CASE Dropped \/ UNCHANGED vars
    <2>1. UNCHANGED vars
      BY <1>4 DEF Dropped
    <2>2. \A t \in Thread : Probe(t)' = Probe(t)
      BY <2>1, ProbeKept DEF vars
    <2> QED
      BY <2>1, <2>2 DEF IInv, vars, TypeOK, SlotExclusive, ClaimIntact,
         OneOwner, NoSlotLost, LocalsMatch, DropExclusive, Claims, Taking,
         Writing
  <1> QED
    BY <1>1, <1>2, <1>3, <1>4 DEF Next

\* The inductive invariant holds in every reachable state.
THEOREM Invariant == Spec => []IInv
  BY InitInv, StepInv, PTL DEF Spec

-----------------------------------------------------------------------------
(* The properties, for every number of threads, objects and slots *)

\* The atomics, cells and locals keep their types; in particular the probed
\* index never leaves the arrays and drop's count never goes below zero.
THEOREM TypeCorrect == Spec => []TypeOK
  <1>1. IInv => TypeOK
    BY DEF IInv
  <1> QED
    BY <1>1, Invariant, PTL

\* No data race: no two threads ever access the same cell between winning its
\* exchange and releasing it.
THEOREM Exclusion == Spec => []SlotExclusive
  <1>1. IInv => SlotExclusive
    BY DEF IInv
  <1> QED
    BY <1>1, Invariant, PTL

\* No uninitialized read, no overwritten value, and no releasing exchange
\* that fails.
THEOREM Integrity == Spec => []ClaimIntact
  <1>1. IInv => ClaimIntact
    BY DEF IInv
  <1> QED
    BY <1>1, Invariant, PTL

\* An object is never handed out twice.
THEOREM Ownership == Spec => []OneOwner
  <1>1. IInv => OneOwner
    BY DEF IInv
  <1> QED
    BY <1>1, Invariant, PTL

\* No slot goes out of service for good, and states and cells agree.
THEOREM SlotsKept == Spec => []NoSlotLost
  <1>1. IInv => NoSlotLost
    BY DEF IInv
  <1> QED
    BY <1>1, Invariant, PTL

\* Dropping the pool leaks no pooled value.
THEOREM DropComplete == Spec => []DroppedEmpty
  <1>1. ASSUME IInv, dpc = "dropped"
        PROVE  Live = {}
    <2>1. out = {} /\ \A t \in Thread : val[t] = NoVal
      BY <1>1 DEF IInv, DropExclusive, LocalsMatch, Carrying
    <2>2. \A s \in Slot : pool[s] = NoVal
      BY <1>1 DEF IInv, DropExclusive, NoSlotLost
    <2> QED
      BY <2>1, <2>2 DEF Live
  <1>2. IInv => DroppedEmpty
    BY <1>1 DEF DroppedEmpty
  <1> QED
    BY <1>2, Invariant, PTL

-----------------------------------------------------------------------------
(* Refinement.  Room: there are never more pooled values than slots. *)

Available == {s \in Slot : states[s] = "AVAILABLE"}

\* Each pooled value has a slot of its own, so a slot outside of Available is
\* room for one more value.
LEMMA RoomForOne ==
    ASSUME NEW s \in Slot, states[s] # "AVAILABLE"
    PROVE  Cardinality(Pooled) < CAP
  <1>1. IsFiniteSet(Slot) /\ Cardinality(Slot) = CAP
    BY CAPAssumption, FS_Interval DEF Slot
  <1>2. IsFiniteSet(Slot \ {s}) /\ Cardinality(Slot \ {s}) = CAP - 1
    BY <1>1, FS_RemoveElement
  <1>3. Available \in SUBSET (Slot \ {s})
    BY DEF Available
  <1>4. IsFiniteSet(Available) /\ Cardinality(Available) <= CAP - 1
    BY <1>2, <1>3, FS_Subset
  <1> DEFINE cell == [r \in Available |-> pool[r]]
  <1>5. cell \in Surjection(Available, Pooled)
    BY DEF Surjection, Pooled, Available
  <1>6. IsFiniteSet(Pooled) /\ Cardinality(Pooled) <= Cardinality(Available)
    BY <1>4, <1>5, FS_Surjection
  <1>7. Cardinality(Pooled) \in Nat /\ Cardinality(Available) \in Nat
    BY <1>4, <1>6, FS_CardinalityType
  <1> QED
    BY <1>4, <1>6, <1>7, CAPAssumption

\* The abstract module counts with the same Cardinality.
LEMMA SameCardinality == A!Cardinality(Pooled) = Cardinality(Pooled)
  BY DEF A!Cardinality, Cardinality

\* A call in progress keeps the pool from being dropped.
LEMMA BusyIsLive ==
    ASSUME IInv, NEW t \in Thread, pc[t] # "idle"
    PROVE  dpc = "live"
  BY DEF IInv, DropExclusive

-----------------------------------------------------------------------------
(* The steps callers do not see *)

Invisible == UNCHANGED <<Pooled, InHand, dpc>>

LEMMA SearchInvisible ==
    ASSUME IInv, NEW t \in Thread,
           \/ TakeBegin(t) \/ HookAccept(t) \/ ReturnId(t)
           \/ \E v \in Val : ReturnBegin(t, v)
    PROVE  Invisible
  <1> USE DEF Invisible, Pooled, InHand, IInv, TypeOK
  <1>1. CASE TakeBegin(t) \/ HookAccept(t) \/ ReturnId(t)
    BY <1>1 DEF TakeBegin, HookAccept, ReturnId, mem, drop
  <1>2. ASSUME NEW v \in Val, ReturnBegin(t, v)
        PROVE  Invisible
    BY <1>2 DEF ReturnBegin, mem, drop, LocalsMatch, Carrying
  <1> QED
    BY <1>1, <1>2

LEMMA TakeInvisible ==
    ASSUME IInv, NEW t \in Thread, TakeRead(t) \/ TakeUnlock(t) \/ TakeHook(t)
    PROVE  Invisible
  <1> USE ProbeInSlot DEF Invisible, Pooled, InHand, IInv, TypeOK, ClaimIntact,
          LocalsMatch, Carrying, Taking
  <1>1. CASE TakeRead(t)
    BY <1>1 DEF TakeRead, drop
  <1>2. CASE TakeUnlock(t)
    BY <1>2 DEF TakeUnlock, SwapState, drop
  <1>3. CASE TakeHook(t)
    BY <1>3 DEF TakeHook, Finish, mem, drop
  <1> QED
    BY <1>1, <1>2, <1>3

LEMMA ReturnWriteInvisible ==
    ASSUME IInv, NEW t \in Thread, ReturnWrite(t)
    PROVE  Invisible
  BY ProbeInSlot DEF ReturnWrite, drop, Invisible, Pooled, InHand, IInv, TypeOK,
     ClaimIntact, Writing

-----------------------------------------------------------------------------
(* The steps that are operations of the abstract pool *)

LEMMA TakeProbeIsTake ==
    ASSUME IInv, NEW t \in Thread, TakeProbe(t)
    PROVE  Invisible \/ \E v \in Val : A!Take(v)
  <1> USE DEF IInv, TypeOK, TakeProbe, drop, Pooled, InHand
  <1>1. CASE states[Probe(t)] # "AVAILABLE"
    BY <1>1 DEF Invisible
  <1>2. CASE states[Probe(t)] = "AVAILABLE"
    <2> DEFINE v == pool[Probe(t)]
    <2>1. Probe(t) \in Slot /\ v \in Pooled /\ v \in Val
      BY <1>2, ProbeInSlot DEF NoSlotLost
    <2>2. Pooled' = Pooled \ {v}
      BY <2>1, NoValAssumption DEF OneOwner
    <2>3. InHand' = InHand \cup {v}
      BY <1>2, <2>1, NoValAssumption
    <2>4. dpc = "live"
      BY BusyIsLive
    <2> QED
      BY <2>1, <2>2, <2>3, <2>4 DEF A!Take
  <1> QED
    BY <1>1, <1>2

LEMMA CreateIsCreate ==
    ASSUME IInv, NEW t \in Thread, Create(t)
    PROVE  \E v \in Val : A!Create(v)
  <1> USE DEF IInv
  <1>1. PICK v \in Val \ Live : out' = out \cup {v}
    BY DEF Create
  <1>2. v \notin Pooled \cup InHand
    BY NoValAssumption DEF Live, Pooled, InHand
  <1>3. Pooled' = Pooled
    BY DEF Create, mem, Pooled
  <1>4. InHand' = InHand \cup {v}
    BY <1>1, NoValAssumption DEF Create, Finish, mem, InHand, LocalsMatch,
       Carrying
  <1>5. dpc = "live" /\ dpc' = dpc
    BY BusyIsLive DEF Create, drop
  <1> QED
    BY <1>2, <1>3, <1>4, <1>5 DEF A!Create

\* A value refused by the hook, given up after the search, or forgotten.
LEMMA DropValueIsDiscard ==
    ASSUME IInv, NEW t \in Thread, HookReject(t) \/ ReturnGiveUp(t)
    PROVE  \E v \in Val : A!Discard(v)
  <1> USE DEF IInv, TypeOK, HookReject, ReturnGiveUp, Finish, mem, drop
  <1>1. val[t] \in Val /\ val[t] \in InHand
    BY DEF InHand, LocalsMatch, Carrying
  <1>2. Pooled' = Pooled
    BY DEF Pooled
  <1>3. InHand' = InHand \ {val[t]}
    BY DEF InHand, OneOwner
  <1>4. dpc = "live" /\ dpc' = dpc
    BY BusyIsLive
  <1> QED
    BY <1>1, <1>2, <1>3, <1>4 DEF A!Discard

LEMMA ForgetIsDiscard ==
    ASSUME IInv, NEW v \in Val, Forget(v)
    PROVE  A!Discard(v)
  <1> USE DEF IInv, Forget, mem, loc, drop
  <1>1. v \in InHand /\ Pooled' = Pooled
    BY NoValAssumption DEF InHand, Pooled
  <1>2. InHand' = InHand \ {v}
    BY DEF InHand, OneOwner
  <1>3. dpc = "live" /\ dpc' = dpc
    BY DEF DropExclusive
  <1> QED
    BY <1>1, <1>2, <1>3 DEF A!Discard

LEMMA ReturnProbeInvisible ==
    ASSUME IInv, NEW t \in Thread, ReturnProbe(t)
    PROVE  Invisible
  BY DEF IInv, TypeOK, ReturnProbe, drop, Invisible, Pooled, InHand, NoSlotLost

LEMMA PublishIsReturn ==
    ASSUME IInv, NEW t \in Thread, ReturnPublish(t)
    PROVE  \E v \in Val : A!Return(v)
  <1> USE DEF IInv, TypeOK, ReturnPublish, SwapState, Finish, drop
  <1> DEFINE v == pool[Probe(t)]
  <1>1. Probe(t) \in Slot /\ states[Probe(t)] = "WRITING"
    BY ProbeInSlot DEF ClaimIntact, Writing
  <1>2. v \in Val /\ v \in InHand
    BY <1>1 DEF LocalsMatch, InHand
  <1>3. Cardinality(Pooled) < CAP
    BY <1>1, RoomForOne
  <1>7. A!Cardinality(Pooled) < CAP
    BY <1>3, SameCardinality
  <1>4. Pooled' = Pooled \cup {v}
    BY <1>1 DEF Pooled
  <1>5. InHand' = InHand \ {v}
    BY <1>1 DEF InHand, OneOwner, LocalsMatch, Carrying
  <1>6. dpc = "live" /\ dpc' = dpc
    BY BusyIsLive
  <1> QED
    BY <1>2, <1>4, <1>5, <1>6, <1>7 DEF A!Return

LEMMA DropIsPurge ==
    ASSUME IInv, DropSlot
    PROVE  Invisible \/ \E v \in Val : A!Purge(v)
  <1> USE DEF IInv, TypeOK, DropSlot, loc
  <1>1. di \in Slot /\ dpc = "dropping" /\ dpc' = dpc
    BY CAPAssumption DEF Slot
  <1>2. InHand = {} /\ InHand' = {}
    BY DEF InHand, DropExclusive, LocalsMatch, Carrying, NoSlotLost, Taking,
       Writing
  <1>3. CASE states[di] # "AVAILABLE"
    BY <1>2, <1>3 DEF Invisible, Pooled
  <1>4. CASE states[di] = "AVAILABLE"
    <2>1. pool[di] \in Val /\ pool[di] \in Pooled
      BY <1>1, <1>4 DEF NoSlotLost, Pooled
    <2>2. Pooled' = Pooled \ {pool[di]}
      BY <1>1, <2>1, NoValAssumption DEF Pooled, OneOwner
    <2> QED
      BY <1>2, <2>1, <2>2 DEF A!Purge
  <1> QED
    BY <1>3, <1>4

LEMMA DropBeginIsClose ==
    ASSUME IInv, DropBegin
    PROVE  A!Close
  <1> USE DEF IInv, DropBegin, mem, loc
  <1>1. \A s \in Slot : states[s] \notin {"TAKING", "WRITING"}
    BY DEF NoSlotLost, Taking, Writing
  <1>2. \A t \in Thread : val[t] = NoVal
    BY DEF LocalsMatch, Carrying
  <1>3. InHand = {} /\ InHand' = {}
    BY <1>1, <1>2 DEF InHand
  <1> QED
    BY <1>3 DEF A!Close, Pooled

-----------------------------------------------------------------------------

LEMMA AbstractInit == Init => A!Init
  BY DEF Init, A!Init, Pooled, InHand

LEMMA AbstractStep ==
    ASSUME IInv, [Next]_vars
    PROVE  [A!Next]_(A!avars)
  <1>1. ASSUME NEW t \in Thread,
               TakeBegin(t) \/ Step(t) \/ \E v \in Val : ReturnBegin(t, v)
        PROVE  Invisible \/ A!Next
    BY <1>1, SearchInvisible, TakeInvisible, ReturnWriteInvisible,
       ReturnProbeInvisible, TakeProbeIsTake, CreateIsCreate,
       DropValueIsDiscard, PublishIsReturn DEF Step, A!Next
  <1>2. ASSUME NEW v \in Val, Forget(v)
        PROVE  A!Next
    BY <1>2, ForgetIsDiscard DEF A!Next
  <1>3. CASE DropBegin
    BY <1>3, DropBeginIsClose DEF A!Next
  <1>4. ASSUME DropSlot
        PROVE  Invisible \/ A!Next
    BY <1>4, DropIsPurge DEF A!Next
  <1>5. CASE DropPass
    BY <1>5 DEF DropPass, mem, loc, Pooled, InHand, A!avars
  <1>6. CASE Dropped \/ UNCHANGED vars
    BY <1>6 DEF Dropped, vars, Pooled, InHand, A!avars
  <1>7. Invisible => UNCHANGED A!avars
    BY DEF Invisible, A!avars
  <1> QED
    BY <1>1, <1>2, <1>3, <1>4, <1>5, <1>6, <1>7 DEF Next, DropStep

\* The lock-free pool implements the abstract one, for any number of threads
\* and slots: values are taken, returned and dropped as if under a lock, and
\* the pool never holds more values than slots.
THEOREM Refinement == Spec => RefinesAbstract
  BY AbstractInit, AbstractStep, Invariant, PTL DEF Spec, RefinesAbstract,
     A!Spec

-----------------------------------------------------------------------------
(* The search.  Lemmas about remainders *)

LEMMA Remainder ==
    ASSUME NEW n \in Nat \ {0}, NEW x \in Int
    PROVE  /\ x = n * (x \div n) + (x % n)
           /\ x % n \in 0..(n - 1)
           /\ x \div n \in Int
  BY Z3

\* Quotient and remainder are unique.
LEMMA RemainderUnique ==
    ASSUME NEW n \in Nat \ {0}, NEW a \in Int, NEW b \in Int,
           NEW r \in 0..(n - 1), NEW s \in 0..(n - 1),
           n * a + r = n * b + s
    PROVE  r = s
  <1>1. a = b
    <2>1. CASE a >= b + 1
      <3>1. n * (a - b) >= n
        BY <2>1, Z3
      <3> QED
        BY <2>1, <3>1, Z3
    <2>2. CASE b >= a + 1
      <3>1. n * (b - a) >= n
        BY <2>2, Z3
      <3> QED
        BY <2>2, <3>1, Z3
    <2> QED
      BY <2>1, <2>2
  <1> QED
    BY <1>1, Z3

LEMMA RemainderIs ==
    ASSUME NEW n \in Nat \ {0}, NEW x \in Int,
           NEW a \in Int, NEW s \in 0..(n - 1), x = n * a + s
    PROVE  x % n = s
  BY Remainder, RemainderUnique

\* A multiple of the modulus more or less does not change a remainder.
LEMMA RemainderOfWrapped ==
    ASSUME SkipMod % CAP = 0, NEW x \in 0..(2 * SkipMod - 1)
    PROVE  (x % SkipMod) % CAP = x % CAP
  <1> DEFINE q == SkipMod \div CAP
             a == x \div CAP
             s == x % CAP
  <1>1. SkipMod = CAP * q /\ q \in Int
    BY CAPAssumption, SkipModAssumption, Remainder, Z3
  <1>2. x = CAP * a + s /\ a \in Int /\ s \in 0..(CAP - 1)
    BY CAPAssumption, Remainder, Z3
  <1> HIDE DEF q, a, s
  <1>3. CASE x < SkipMod
    BY <1>3, SkipModAssumption, Z3
  <1>4. CASE x >= SkipMod
    <2>1. x = SkipMod * 1 + (x - SkipMod) /\ x - SkipMod \in 0..(SkipMod - 1)
      BY <1>4, SkipModAssumption, Z3
    <2>2. x % SkipMod = x - SkipMod
      BY <2>1, SkipModAssumption, RemainderIs
    <2>3. x - SkipMod = CAP * (a - q) + s
      BY <1>1, <1>2, CAPAssumption, Z3
    <2>4. (x - SkipMod) % CAP = s
      BY <1>1, <1>2, <2>1, <2>3, CAPAssumption, RemainderIs
    <2> QED
      BY <2>2, <2>4 DEF s
  <1> QED
    BY <1>3, <1>4, SkipModAssumption

\* The slot of the k-th turn of a search that started at id.
At(k, id) == ((k + id) % SkipMod) % CAP

\* CAP turns look at every slot.
LEMMA EverySlotLookedAt ==
    ASSUME SkipMod % CAP = 0,
           NEW id \in 0..(SkipMod - 1), NEW s \in Slot
    PROVE  \E k \in 0..(CAP - 1) : At(k, id) = s
  <1> DEFINE a == id \div CAP
             r == id % CAP
  <1>1. id = CAP * a + r /\ a \in Int /\ r \in 0..(CAP - 1)
    BY CAPAssumption, SkipModAssumption, Remainder, Z3
  <1> HIDE DEF a, r
  <1>2. s \in 0..(CAP - 1) /\ CAP <= SkipMod
    <2>1. SkipMod = CAP * (SkipMod \div CAP) /\ SkipMod \div CAP \in Int
      BY CAPAssumption, SkipModAssumption, Remainder, Z3
    <2> QED
      BY <2>1, CAPAssumption, SkipModAssumption, Z3 DEF Slot
  <1>3. ASSUME NEW k \in 0..(CAP - 1), (k + id) % CAP = s
        PROVE  At(k, id) = s
    <2>1. k + id \in 0..(2 * SkipMod - 1)
      BY <1>2, CAPAssumption, SkipModAssumption, Z3
    <2> QED
      BY <1>3, <2>1, RemainderOfWrapped DEF At
  <1>4. CASE s >= r
    <2> DEFINE k == s - r
    <2>1. k \in 0..(CAP - 1) /\ k + id \in Int /\ k + id = CAP * a + s
      BY <1>1, <1>2, <1>4, CAPAssumption, Z3
    <2>2. (k + id) % CAP = s
      BY <1>1, <1>2, <2>1, CAPAssumption, RemainderIs
    <2> QED
      BY <1>3, <2>1, <2>2
  <1>5. CASE s < r
    <2> DEFINE k == s - r + CAP
    <2>1. /\ k \in 0..(CAP - 1) /\ k + id \in Int
          /\ k + id = CAP * (a + 1) + s
      BY <1>1, <1>2, <1>5, CAPAssumption, Z3
    <2>2. (k + id) % CAP = s
      BY <1>1, <1>2, <2>1, CAPAssumption, RemainderIs
    <2> QED
      BY <1>3, <2>1, <2>2
  <1> QED
    BY <1>1, <1>2, <1>4, <1>5

-----------------------------------------------------------------------------
(* The search of a thread while the others have stopped *)

\* The slots behind the loop counter of a search are of no use to it.
Searched(t) ==
    \A k \in 0..(CAP - 1) : k < i[t] =>
        /\ pc[t] = "take_probe" => states[At(k, start[t])] # "AVAILABLE"
        /\ pc[t] = "return_probe" => states[At(k, start[t])] # "EMPTY"

\* The slot being looked at is the next one of the search.
LEMMA ProbeAt ==
    ASSUME NEW t \in Thread PROVE Probe(t) = At(i[t], start[t])
  BY DEF Probe, At

\* No slot is destroyed before the pool is.
Undestroyed == dpc = "live" => \A s \in Slot : states[s] # "DESTROYED"

LEMMA UndestroyedStep ==
    ASSUME IInv, Undestroyed, [Next]_vars
    PROVE  Undestroyed'
  <1> USE DEF drop, mem, loc
  <1> SUFFICES ASSUME dpc' = "live", NEW s \in Slot, states'[s] = "DESTROYED"
               PROVE  states[s] = "DESTROYED" /\ dpc = "live"
    BY DEF Undestroyed
  <1>1. ASSUME NEW t \in Thread,
               TakeBegin(t) \/ Step(t) \/ \E v \in Val : ReturnBegin(t, v)
        PROVE  states[s] = "DESTROYED" /\ dpc = "live"
    <2>1. Probe(t) \in Slot
      BY ProbeInSlot DEF IInv, TypeOK
    <2> QED
      BY <1>1, <2>1 DEF TakeBegin, TakeProbe, TakeRead, TakeUnlock, TakeHook,
         Create, ReturnBegin, HookAccept, HookReject, ReturnId, ReturnProbe,
         ReturnWrite, ReturnPublish, ReturnGiveUp, SwapState, IInv, TypeOK, Step
  <1>2. CASE DropBegin \/ DropStep
    BY <1>2 DEF DropBegin, DropStep, DropSlot, DropPass
  <1>3. CASE \/ (\E v \in Val : Forget(v)) \/ Dropped \/ UNCHANGED vars
    BY <1>3 DEF Forget, Dropped, vars
  <1> QED
    BY <1>1, <1>2, <1>3 DEF Next

LEMMA UndestroyedInvariant == Spec => []Undestroyed
  <1>1. Init => Undestroyed
    BY DEF Init, Undestroyed
  <1>2. IInv /\ Undestroyed /\ [Next]_vars => Undestroyed'
    BY UndestroyedStep
  <1> QED
    BY <1>1, <1>2, Invariant, PTL DEF Spec

\* A thread that takes a step has not stopped.
LEMMA StepsNotStalled ==
    ASSUME TypeOK, NEW t \in Thread, NEW u \in Thread, OthersStalled(t),
           \/ TakeBegin(u) \/ Step(u) \/ \E v \in Val : ReturnBegin(u, v)
    PROVE  u = t
  <1> SUFFICES ASSUME u # t PROVE FALSE
    OBVIOUS
  <1>1. pc'[u] = pc[u] /\ i'[u] = i[u]
    BY DEF OthersStalled
  <1>2. ~TakeProbe(u) /\ ~ReturnProbe(u)
    BY <1>1, MaxLoopBound DEF TakeProbe, ReturnProbe, TypeOK
  <1>3. ~TakeBegin(u) /\ ~(\E v \in Val : ReturnBegin(u, v))
    BY <1>1 DEF TakeBegin, ReturnBegin, TypeOK
  <1>4. ~TakeRead(u) /\ ~TakeUnlock(u) /\ ~TakeHook(u) /\ ~Create(u)
    BY <1>1 DEF TakeRead, TakeUnlock, TakeHook, Create, Finish, TypeOK
  <1>5. ~HookAccept(u) /\ ~HookReject(u) /\ ~ReturnId(u)
    BY <1>1 DEF HookAccept, HookReject, ReturnId, Finish, TypeOK
  <1>6. ~ReturnWrite(u) /\ ~ReturnPublish(u) /\ ~ReturnGiveUp(u)
    BY <1>1 DEF ReturnWrite, ReturnPublish, ReturnGiveUp, Finish, TypeOK
  <1> QED
    BY <1>2, <1>3, <1>4, <1>5, <1>6 DEF Step

LEMMA SearchedStep ==
    ASSUME IInv, Undestroyed, [Next]_vars, NEW t \in Thread,
           [OthersStalled(t)]_vars, Searched(t)
    PROVE  Searched(t)'
  <1> USE DEF drop, mem, loc
  <1>1. CASE TakeProbe(t)
    <2> SUFFICES ASSUME NEW k \in 0..(CAP - 1), k < i'[t],
                        pc'[t] \in {"take_probe", "return_probe"}
                 PROVE  /\ pc'[t] = "take_probe"
                        /\ states'[At(k, start'[t])] # "AVAILABLE"
      BY DEF Searched, At
    <2>1. i[t] \in Nat
      BY MaxLoopBound DEF IInv, TypeOK
    <2>2. /\ states' = states /\ start' = start /\ pc' = pc
          /\ i'[t] = i[t] + 1 /\ states[Probe(t)] # "AVAILABLE"
          /\ pc[t] = "take_probe"
      BY <1>1 DEF TakeProbe, IInv, TypeOK
    <2>3. CASE k < i[t]
      BY <2>2, <2>3 DEF Searched
    <2>4. CASE k = i[t]
      BY <2>2, <2>4, ProbeAt
    <2> QED
      BY <2>1, <2>2, <2>3, <2>4
  <1>2. CASE ReturnProbe(t)
    <2> SUFFICES ASSUME NEW k \in 0..(CAP - 1), k < i'[t],
                        pc'[t] \in {"take_probe", "return_probe"}
                 PROVE  /\ pc'[t] = "return_probe"
                        /\ states'[At(k, start'[t])] # "EMPTY"
      BY DEF Searched, At
    <2>1. i[t] \in Nat
      BY MaxLoopBound DEF IInv, TypeOK
    <2>2. states[Probe(t)] # "DESTROYED"
      <3>1. dpc = "live"
        BY <1>2 DEF ReturnProbe, IInv, TypeOK, DropExclusive
      <3>2. Probe(t) \in Slot
        BY ProbeInSlot DEF IInv, TypeOK
      <3> QED
        BY <3>1, <3>2 DEF Undestroyed
    <2>3. /\ states' = states /\ start' = start /\ pc' = pc
          /\ i'[t] = i[t] + 1 /\ states[Probe(t)] # "EMPTY"
          /\ pc[t] = "return_probe"
      BY <1>2, <2>2 DEF ReturnProbe, IInv, TypeOK
    <2>4. CASE k < i[t]
      BY <2>3, <2>4 DEF Searched
    <2>5. CASE k = i[t]
      BY <2>3, <2>5, ProbeAt
    <2> QED
      BY <2>1, <2>3, <2>4, <2>5
  <1>3. CASE \/ TakeBegin(t) \/ TakeRead(t) \/ TakeUnlock(t) \/ TakeHook(t)
             \/ Create(t) \/ (\E v \in Val : ReturnBegin(t, v))
             \/ HookAccept(t) \/ HookReject(t) \/ ReturnId(t)
             \/ ReturnWrite(t) \/ ReturnPublish(t) \/ ReturnGiveUp(t)
    <2>1. i'[t] = 0 \/ pc'[t] \notin {"take_probe", "return_probe"}
      BY <1>3 DEF TakeBegin, TakeRead, TakeUnlock, TakeHook, Create,
         ReturnBegin, HookAccept, HookReject, ReturnId, ReturnWrite,
         ReturnPublish, ReturnGiveUp, NextId, Finish, IInv, TypeOK
    <2> QED
      BY <2>1 DEF Searched
  <1>4. ASSUME NEW v \in Val, Forget(v) PROVE Searched(t)'
    BY <1>4 DEF Forget, Searched, At
  <1>5. CASE DropBegin \/ DropStep
    <2>1. pc' = pc /\ pc[t] = "idle"
      BY <1>5 DEF DropBegin, DropStep, DropSlot, DropPass, IInv, DropExclusive
    <2> QED
      BY <2>1 DEF Searched
  <1>6. CASE Dropped \/ UNCHANGED vars
    BY <1>6 DEF Dropped, vars, Searched, At
  <1>7. ASSUME NEW u \in Thread, ~UNCHANGED vars,
               \/ TakeBegin(u) \/ Step(u) \/ \E v \in Val : ReturnBegin(u, v)
        PROVE  Searched(t)'
    <2>1. u = t
      BY <1>7, StepsNotStalled DEF IInv
    <2> QED
      BY <1>1, <1>2, <1>3, <1>7, <2>1 DEF Step
  <1> QED
    BY <1>4, <1>5, <1>6, <1>7 DEF Next

\* A search of the whole array has looked at every slot.
LEMMA SearchedAll ==
    ASSUME SkipMod % CAP = 0, IInv, NEW t \in Thread, Searched(t)
    PROVE  NothingMissed(t)
  <1> SUFFICES ASSUME MaxLoop = CAP, i[t] = MaxLoop, NEW s \in Slot
               PROVE  /\ pc[t] = "take_probe" => states[s] # "AVAILABLE"
                      /\ pc[t] = "return_probe" => states[s] # "EMPTY"
    BY DEF NothingMissed
  <1>1. start[t] \in 0..(SkipMod - 1)
    BY DEF IInv, TypeOK
  <1>2. PICK k \in 0..(CAP - 1) : At(k, start[t]) = s
    BY <1>1, EverySlotLookedAt
  <1>3. k < i[t]
    BY <1>2, CAPAssumption
  <1> QED
    BY <1>2, <1>3 DEF Searched

\* From a state on in which a thread is between two calls, and as long as the
\* others take no step, wherever in their calls they have stopped, it creates
\* an object only when none is in the pool and drops one only when no slot is
\* free, wherever the counter wraps.
THEOREM SearchComplete ==
    ASSUME SkipMod % CAP = 0, NEW t \in Thread
    PROVE  Spec => [](/\ pc[t] = "idle" /\ [][OthersStalled(t)]_vars
                      => []NothingMissed(t))
  <1>1. pc[t] = "idle" => Searched(t)
    BY DEF Searched
  <1>2. IInv /\ Undestroyed /\ [Next]_vars /\ [OthersStalled(t)]_vars
           /\ Searched(t) => Searched(t)'
    BY SearchedStep
  <1>3. IInv /\ Searched(t) => NothingMissed(t)
    BY SearchedAll
  <1> QED
    BY <1>1, <1>2, <1>3, Invariant, UndestroyedInvariant, PTL DEF Spec

\* If calls end (WaitFree, a liveness property), then a thread that is sure to
\* run comes to a point between two calls after the others have stopped, and
\* misses nothing from there on.
THEOREM StalledSearch ==
    ASSUME SkipMod % CAP = 0
    PROVE  Spec /\ WaitFree => StalledSearchComplete
  <1> SUFFICES ASSUME NEW t \in Running
               PROVE  Spec /\ WaitFree => (<>[][OthersStalled(t)]_vars
                                           => <>[]NothingMissed(t))
    BY DEF StalledSearchComplete
  <1>1. t \in Thread
    BY RunningAssumption
  <1>2. WaitFree => (pc[t] # "idle" ~> pc[t] = "idle")
    BY DEF WaitFree
  <1>3. Spec => [](/\ pc[t] = "idle" /\ [][OthersStalled(t)]_vars
                   => []NothingMissed(t))
    BY <1>1, SearchComplete
  <1>4. pc[t] = "idle" \/ pc[t] # "idle"
    OBVIOUS
  <1> QED
    BY <1>2, <1>3, <1>4, PTL
=============================================================================
