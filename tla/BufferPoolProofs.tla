-------------------------- MODULE BufferPoolProofs --------------------------
(***************************************************************************)
(* BUFFER_POOL is a pool: the hooks only restrict what Pool may do, so     *)
(* everything proved of Pool holds of it.  Its limit is soft: any number   *)
(* of threads overshoot it by one buffer each, but the first.  And its     *)
(* counter is exact, up to the buffers that found no slot.                 *)
(***************************************************************************)
EXTENDS BufferPool, PoolProofs, Induction

\* Every step of the hooks is a step of the pool or leaves it alone.
LEMMA HooksStep == [BNext]_bvars => [Next]_vars
  <1> SUFFICES ASSUME [BNext]_bvars PROVE [Next]_vars
    OBVIOUS
  <1>1. ASSUME NEW t \in Thread, HookCount(t) \/ HookRefuse(t)
                                 \/ HookUncount(t) \/ GiveUp(t) \/ PoolStep(t)
        PROVE  Next
    BY <1>1 DEF HookCount, HookRefuse, HookUncount, GiveUp, PoolStep, Next, Step
  <1>2. ASSUME NEW t \in Thread, HookLoad(t)
        PROVE  UNCHANGED vars
    BY <1>2 DEF HookLoad
  <1>3. ASSUME NEW v \in Val, Discard(v)
        PROVE  Next
    BY <1>3 DEF Discard, Next
  <1>4. ASSUME NEW v \in Val, NEW c \in Capacity, Resize(v, c)
        PROVE  UNCHANGED vars
    BY <1>4 DEF Resize
  <1>5. CASE UNCHANGED bvars
    BY <1>5 DEF bvars
  <1> QED
    BY <1>1, <1>2, <1>3, <1>4, <1>5 DEF BNext

\* BUFFER_POOL behaves as a Pool.
THEOREM BufferIsPool == BSpec => Spec
  <1>1. BInit => Init
    BY DEF BInit
  <1> QED
    BY <1>1, HooksStep, PTL DEF BSpec, Spec

\* No buffer is ever in the hands of two owners, or both pooled and in use, so
\* no two tasks write the same BytesMut.
THEOREM BufferOwnership == BSpec => []OneOwner
  BY BufferIsPool, Ownership, PTL

-----------------------------------------------------------------------------
(* The soft limit *)

\* The threads between the load and the addition that will add.
Pending == {t \in Thread : /\ loaded[t] # NotLoaded
                           /\ loaded[t] + Cap(t) <= MaxTotal}

\* A buffer over MAX_SINGLE_BUFFER is refused before the load.
Small == \A t \in Thread : loaded[t] # NotLoaded => Cap(t) <= MaxSingle

\* The limit once n more buffers, and c bytes, are counted.
Within(c, n) ==
    size + c + n * MaxSingle <= MaxTotal + (Cardinality(Thread) - 1) * MaxSingle

\* All pending additions together keep the limit: they do when the last of
\* them has loaded a size that leaves room for its own.
Room == IF Pending = {} THEN SoftLimit
        ELSE \E u \in Pending : Within(Cap(u), Cardinality(Pending) - 1)

BInv == IInv /\ BTypeOK /\ Small /\ Room

\* One buffer more, and at most that much for fewer buffers.
LEMMA Products ==
    ASSUME NEW n \in Nat, NEW m \in Nat, n <= m
    PROVE  /\ (n + 1) * MaxSingle = n * MaxSingle + MaxSingle
           /\ n * MaxSingle \in Nat
           /\ n * MaxSingle <= m * MaxSingle
  <1>1. n * MaxSingle \in Nat /\ (m - n) * MaxSingle \in Nat
    BY LimitAssumption
  <1>2. m * MaxSingle = n * MaxSingle + (m - n) * MaxSingle
    BY LimitAssumption
  <1>3. (n + 1) * MaxSingle = n * MaxSingle + MaxSingle
    BY LimitAssumption
  <1> QED
    BY <1>1, <1>2, <1>3, LimitAssumption

\* A value in a call's hands is a buffer with a capacity.
LEMMA CapIsNat ==
    ASSUME IInv, BTypeOK, NEW t \in Thread, pc[t] \in Carrying
    PROVE  Cap(t) \in Nat
  <1>1. val[t] \in Val
    BY DEF IInv, TypeOK, LocalsMatch
  <1> QED
    BY <1>1, CapacityAssumption DEF BTypeOK, Cap

\* A thread that has loaded carries a buffer of a limited capacity.
LEMMA LoadedCap ==
    ASSUME IInv, BTypeOK, Small, NEW t \in Thread, loaded[t] # NotLoaded
    PROVE  /\ pc[t] = "return_hook" /\ val[t] \in Val
           /\ Cap(t) \in Nat /\ Cap(t) <= MaxSingle
  <1>1. pc[t] = "return_hook"
    BY DEF BTypeOK
  <1>2. val[t] \in Val
    BY <1>1 DEF IInv, TypeOK, LocalsMatch, Carrying
  <1> QED
    BY <1>1, <1>2, CapIsNat DEF Small, Carrying

LEMMA PendingFinite ==
    /\ IsFiniteSet(Pending) /\ Cardinality(Pending) \in Nat
    /\ Cardinality(Thread) \in Nat \ {0}
    /\ Cardinality(Pending) <= Cardinality(Thread)
    /\ Pending # {} => Cardinality(Pending) # 0
  BY ThreadAssumption, FS_Subset, FS_CardinalityType, FS_EmptySet DEF Pending

\* A step that leaves the loads and their buffers alone, and adds nothing,
\* keeps the limit.
LEMMA QuietStep ==
    ASSUME BInv, BTypeOK', size' <= size,
           \A t \in Thread : /\ loaded'[t] # NotLoaded
                                <=> loaded[t] # NotLoaded
                             /\ loaded[t] # NotLoaded =>
                                    loaded'[t] = loaded[t] /\ Cap(t)' = Cap(t)
    PROVE  Small' /\ Room'
  <1>1. Pending' = Pending
    BY DEF Pending
  <1>2. Small'
    BY DEF BInv, Small
  <1>a. Cardinality(Thread) \in Nat /\ Cardinality(Pending) \in Nat
    BY PendingFinite
  <1>b. size \in Int /\ size' \in Int
    BY DEF BInv, BTypeOK
  <1>3. CASE Pending = {}
    <2>1. SoftLimit
      BY <1>3 DEF BInv, Room
    <2>c. (Cardinality(Thread) - 1) * MaxSingle \in Int
      BY <1>a, LimitAssumption
    <2>2. SoftLimit'
      BY <2>1, <2>c, <1>b, LimitAssumption DEF SoftLimit
    <2> QED
      BY <1>1, <1>2, <1>3, <2>2 DEF Room
  <1>4. CASE Pending # {}
    <2>1. PICK u \in Pending : Within(Cap(u), Cardinality(Pending) - 1)
      BY <1>4 DEF BInv, Room
    <2>2. loaded[u] # NotLoaded /\ u \in Thread
      BY DEF Pending
    <2>3. Cap(u)' = Cap(u) /\ Cap(u) \in Nat
      BY <2>2, LoadedCap DEF BInv
    <2>c. /\ (Cardinality(Thread) - 1) * MaxSingle \in Int
          /\ (Cardinality(Pending) - 1) * MaxSingle \in Int
      BY <1>a, LimitAssumption
    <2>4. Within(Cap(u), Cardinality(Pending) - 1)'
      BY <2>1, <2>3, <2>c, <1>1, <1>b, LimitAssumption DEF Within
    <2> QED
      BY <1>1, <1>2, <1>4, <2>4 DEF Room
  <1> QED
    BY <1>3, <1>4

\* Dropping a buffer takes no other call's capacity away.
LEMMA ForgettingKeeps ==
    ASSUME BTypeOK, Forgetting,
           NEW u \in Thread, val[u] \in Val, NoVal # val[u], val'[u] = val[u]
    PROVE  Cap(u)' = Cap(u)
  <1>1. val[u] \in Live'
    BY DEF Live
  <1> QED
    BY <1>1 DEF Forgetting, Cap

LEMMA ForgettingType ==
    ASSUME BTypeOK, Forgetting
    PROVE  capacity' \in [Val -> Capacity]
  BY CapacityAssumption DEF BTypeOK, Forgetting

-----------------------------------------------------------------------------
(* The steps *)

\* A load that fails the check is no pending addition; one that passes is the
\* last, and has seen room for itself.
LEMMA LoadInv ==
    ASSUME BInv, NEW t \in Thread, HookLoad(t)
    PROVE  BTypeOK' /\ Small' /\ Room'
  <1>1. /\ pc' = pc /\ val' = val /\ size' = size /\ capacity' = capacity
        /\ lost' = lost /\ pc[t] = "return_hook" /\ loaded[t] = NotLoaded
        /\ loaded' = [loaded EXCEPT ![t] = size] /\ Cap(t) <= MaxSingle
    BY DEF HookLoad, vars
  <1>2. BTypeOK'
    BY <1>1 DEF BInv, BTypeOK
  <1>3. \A u \in Thread : Cap(u)' = Cap(u)
    BY <1>1 DEF Cap
  <1>4. Small'
    BY <1>1, <1>3 DEF BInv, Small, BTypeOK
  <1>5. Cap(t) \in Nat /\ size \in Int /\ size' \in Int
    BY <1>1, <1>2, CapIsNat DEF BInv, Carrying, BTypeOK
  <1>6. loaded'[t] = size /\ t \notin Pending
    BY <1>1 DEF BInv, BTypeOK, Pending
  <1>7. CASE size + Cap(t) <= MaxTotal /\ size # NotLoaded
    <2>1. Pending' = Pending \cup {t}
      BY <1>1, <1>3, <1>6, <1>7 DEF BInv, BTypeOK, Pending
    <2>2. Cardinality(Pending') = Cardinality(Pending) + 1
      BY <1>6, <2>1, PendingFinite, FS_AddElement
    <2>3. Cardinality(Pending') <= Cardinality(Thread)
      <3>1. Pending' \subseteq Thread
        BY <2>1 DEF Pending
      <3> QED
        BY <3>1, ThreadAssumption, FS_Subset
    <2>4. /\ Cardinality(Pending) \in Nat
          /\ Cardinality(Thread) - 1 \in Nat
          /\ Cardinality(Pending) <= Cardinality(Thread) - 1
      BY <2>2, <2>3, PendingFinite
    <2>5. /\ Cardinality(Pending) * MaxSingle
               <= (Cardinality(Thread) - 1) * MaxSingle
          /\ Cardinality(Pending) * MaxSingle \in Nat
          /\ (Cardinality(Thread) - 1) * MaxSingle \in Nat
      BY <2>4, Products
    <2>6. Within(Cap(t), Cardinality(Pending))
      BY <1>5, <1>7, <2>5, LimitAssumption DEF Within
    <2>7. Cardinality(Pending') - 1 = Cardinality(Pending)
      BY <2>2, <2>4
    <2>8. Within(Cap(t), Cardinality(Pending') - 1)
      BY <2>6, <2>7
    <2>9. Within(Cap(t), Cardinality(Pending) - 1)'
      BY <1>1, <1>3, <2>8 DEF Within
    <2> QED
      BY <1>2, <1>4, <2>1, <2>9 DEF Room
  <1>8. CASE ~(size + Cap(t) <= MaxTotal /\ size # NotLoaded)
    <2>1. Pending' = Pending
      BY <1>1, <1>3, <1>5, <1>6, <1>8 DEF BInv, BTypeOK, Pending
    <2>2. Room'
      BY <1>1, <1>3, <2>1 DEF BInv, Room, SoftLimit, Within, Pending
    <2> QED
      BY <1>2, <1>4, <2>2
  <1> QED
    BY <1>7, <1>8

\* A counted buffer is one pending addition less.
LEMMA CountInv ==
    ASSUME BInv, NEW t \in Thread, HookCount(t)
    PROVE  BTypeOK' /\ Small' /\ Room'
  <1>1. /\ val' = val /\ capacity' = capacity /\ lost' = lost
        /\ pc[t] = "return_hook" /\ loaded[t] # NotLoaded
        /\ pc' = [pc EXCEPT ![t] = "return_id"]
        /\ loaded' = [loaded EXCEPT ![t] = NotLoaded]
        /\ size' = size + Cap(t) /\ loaded[t] + Cap(t) <= MaxTotal
    BY DEF HookCount, HookAccept
  <1>2. Cap(t) \in Nat /\ Cap(t) <= MaxSingle /\ size \in Int
    BY <1>1, LoadedCap DEF BInv, BTypeOK
  <1>3. BTypeOK'
    BY <1>1, <1>2 DEF BInv, BTypeOK, IInv, TypeOK, NotLoaded
  <1>4. \A u \in Thread : Cap(u)' = Cap(u)
    BY <1>1 DEF Cap
  <1>5. Small'
    BY <1>1, <1>4 DEF BInv, Small, BTypeOK
  <1>6. t \in Pending /\ Pending' = Pending \ {t}
    BY <1>1, <1>4 DEF BInv, BTypeOK, Pending
  <1>7. /\ Cardinality(Pending) \in Nat \ {0}
        /\ Cardinality(Pending') = Cardinality(Pending) - 1
        /\ Pending' # {} => Cardinality(Pending') \in Nat \ {0}
    <2>1. Cardinality(Pending') = Cardinality(Pending) - 1
          /\ IsFiniteSet(Pending')
      BY <1>6, PendingFinite, FS_RemoveElement
    <2> QED
      BY <1>6, <2>1, PendingFinite, FS_EmptySet, FS_CardinalityType
  <1>8. PICK u \in Pending : Within(Cap(u), Cardinality(Pending) - 1)
    BY <1>6 DEF BInv, Room
  <1>9. Cap(u) \in Nat /\ size' \in Int
    BY <1>3, <1>8, LoadedCap DEF BInv, Pending, BTypeOK
  <1>10. (Cardinality(Thread) - 1) * MaxSingle \in Int
    BY PendingFinite, LimitAssumption
  <1>11. CASE Pending' = {}
    <2>1. u = t /\ Cardinality(Pending) - 1 = 0
      BY <1>6, <1>7, <1>11, FS_EmptySet
    <2>2. SoftLimit'
      BY <1>1, <1>2, <1>8, <1>9, <1>10, <2>1, LimitAssumption
         DEF Within, SoftLimit
    <2> QED
      BY <1>3, <1>5, <1>11, <2>2 DEF Room
  <1>12. CASE Pending' # {}
    <2> DEFINE n == Cardinality(Pending) - 2
    <2>1. n \in Nat /\ n + 1 = Cardinality(Pending) - 1
      BY <1>7, <1>12
    <2>2. (n + 1) * MaxSingle = n * MaxSingle + MaxSingle
          /\ n * MaxSingle \in Nat
      BY <2>1, Products
    <2>3. size + Cap(u) + (n + 1) * MaxSingle
            <= MaxTotal + (Cardinality(Thread) - 1) * MaxSingle
      BY <1>8, <2>1 DEF Within
    <2>4. PICK w \in Pending' :
              size + Cap(t) + Cap(w) + n * MaxSingle
                <= MaxTotal + (Cardinality(Thread) - 1) * MaxSingle
      <3> HIDE DEF n
      <3>1. CASE u = t
        <4>1. PICK w \in Pending' : TRUE
          BY <1>12
        <4>2. Cap(w) \in Nat /\ Cap(w) <= MaxSingle
          BY <1>6, <4>1, LoadedCap DEF BInv, Pending
        <4> QED
          BY <1>2, <1>10, <2>2, <2>3, <3>1, <4>1, <4>2, LimitAssumption
      <3>2. CASE u # t
        <4>1. u \in Pending'
          BY <1>6, <1>8, <3>2
        <4> QED
          BY <1>2, <1>9, <1>10, <2>2, <2>3, <4>1, LimitAssumption
      <3> QED
        BY <3>1, <3>2
    <2>5. Cardinality(Pending') - 1 = n
      BY <1>7
    <2>6. w \in Thread /\ Cap(w)' = Cap(w) /\ Cap(w) \in Nat
      BY <1>4, <1>6, <2>4, LoadedCap DEF BInv, Pending
    <2>7. size' + Cap(w) + n * MaxSingle
            <= MaxTotal + (Cardinality(Thread) - 1) * MaxSingle
      <3> HIDE DEF n
      <3> QED
        BY <1>1, <1>2, <2>2, <2>4, <2>6
    <2>8. Within(Cap(w), Cardinality(Pending) - 1)'
      BY <2>5, <2>6, <2>7 DEF Within
    <2> QED
      BY <1>3, <1>5, <1>12, <2>4, <2>8 DEF Room
  <1> QED
    BY <1>11, <1>12

\* A refused buffer was no pending addition.
LEMMA RefuseInv ==
    ASSUME BInv, NEW t \in Thread, HookRefuse(t)
    PROVE  BTypeOK' /\ Small' /\ Room'
  <1>1. /\ size' = size /\ lost' = lost /\ Forgetting
        /\ pc[t] = "return_hook" /\ pc' = [pc EXCEPT ![t] = "idle"]
        /\ val' = [val EXCEPT ![t] = NoVal]
        /\ loaded' = [loaded EXCEPT ![t] = NotLoaded]
        /\ \/ Cap(t) > MaxSingle
           \/ loaded[t] # NotLoaded /\ loaded[t] + Cap(t) > MaxTotal
    BY DEF HookRefuse, HookReject, Finish
  <1>2. BTypeOK'
    <2>1. capacity' \in [Val -> Capacity]
      BY <1>1, ForgettingType DEF BInv
    <2> QED
      BY <1>1, <2>1 DEF BInv, BTypeOK, IInv, TypeOK, NotLoaded
  <1>3. Cap(t) \in Nat /\ loaded[t] \in Int
    BY <1>1, CapIsNat DEF BInv, BTypeOK, Carrying
  <1>4. t \notin Pending
    <2>1. loaded[t] # NotLoaded => Cap(t) <= MaxSingle
      BY DEF BInv, Small
    <2> QED
      BY <1>1, <1>3, <2>1, LimitAssumption DEF Pending
  <1>5. \A u \in Thread : u # t => loaded'[u] = loaded[u]
    BY <1>1 DEF BInv, BTypeOK
  <1>6. loaded'[t] = NotLoaded
    BY <1>1 DEF BInv, BTypeOK
  <1>7. ASSUME NEW u \in Thread, u # t, loaded[u] # NotLoaded
        PROVE  Cap(u)' = Cap(u)
    <2>1. val[u] \in Val /\ NoVal # val[u]
      BY <1>7, LoadedCap, NoValAssumption DEF BInv
    <2>2. val'[u] = val[u]
      BY <1>1, <1>7 DEF BInv, IInv, TypeOK
    <2> QED
      BY <1>1, <2>1, <2>2, ForgettingKeeps DEF BInv
  <1>8. Small'
    BY <1>5, <1>6, <1>7 DEF BInv, Small
  <1>9. Pending' = Pending
    BY <1>4, <1>5, <1>6, <1>7 DEF Pending
  <1>10. Room'
    <2>1. CASE Pending = {}
      BY <1>1, <1>9, <2>1 DEF BInv, Room, SoftLimit
    <2>2. CASE Pending # {}
      <3>1. PICK u \in Pending : Within(Cap(u), Cardinality(Pending) - 1)
        BY <2>2 DEF BInv, Room
      <3>2. Cap(u)' = Cap(u)
        BY <1>4, <1>7 DEF Pending
      <3>3. Within(Cap(u), Cardinality(Pending) - 1)'
        BY <1>1, <1>9, <3>1, <3>2 DEF Within
      <3> QED
        BY <1>9, <2>2, <3>1, <3>3 DEF Room
    <2> QED
      BY <2>1, <2>2
  <1> QED
    BY <1>2, <1>8, <1>10

\* The take hook gives room back.
LEMMA UncountInv ==
    ASSUME BInv, NEW t \in Thread, HookUncount(t)
    PROVE  BTypeOK' /\ Small' /\ Room'
  <1>1. /\ capacity' = capacity /\ loaded' = loaded /\ lost' = lost
        /\ size' = size - Cap(t)
        /\ pc[t] = "take_hook" /\ pc' = [pc EXCEPT ![t] = "idle"]
        /\ val' = [val EXCEPT ![t] = NoVal]
    BY DEF HookUncount, TakeHook, Finish
  <1>2. Cap(t) \in Nat /\ size \in Int
    BY <1>1, CapIsNat DEF BInv, BTypeOK, Carrying
  <1>3. loaded[t] = NotLoaded
    BY <1>1 DEF BInv, BTypeOK
  <1>4. BTypeOK'
    BY <1>1, <1>2, <1>3 DEF BInv, BTypeOK, IInv, TypeOK
  <1>5. size' <= size
    BY <1>1, <1>2
  <1>6. \A u \in Thread : loaded[u] # NotLoaded => Cap(u)' = Cap(u)
    BY <1>1, <1>3 DEF BInv, IInv, TypeOK, Cap
  <1> QED
    BY <1>1, <1>4, <1>5, <1>6, QuietStep

LEMMA GiveUpInv ==
    ASSUME BInv, NEW t \in Thread, GiveUp(t)
    PROVE  BTypeOK' /\ Small' /\ Room'
  <1>1. /\ loaded' = loaded /\ size' = size /\ Forgetting
        /\ lost' = lost + Cap(t)
        /\ pc[t] = "return_probe" /\ pc' = [pc EXCEPT ![t] = "idle"]
        /\ val' = [val EXCEPT ![t] = NoVal]
    BY DEF GiveUp, ReturnGiveUp, Finish
  <1>2. loaded[t] = NotLoaded /\ Cap(t) \in Nat
    BY <1>1, CapIsNat DEF BInv, BTypeOK, Carrying
  <1>3. BTypeOK'
    <2>1. capacity' \in [Val -> Capacity]
      BY <1>1, ForgettingType DEF BInv
    <2>2. lost' \in Nat
      BY <1>1, <1>2 DEF BInv, BTypeOK
    <2> QED
      BY <1>1, <1>2, <2>1, <2>2 DEF BInv, BTypeOK, IInv, TypeOK
  <1>4. ASSUME NEW u \in Thread, loaded[u] # NotLoaded
        PROVE  Cap(u)' = Cap(u)
    <2>1. val[u] \in Val /\ NoVal # val[u]
      BY <1>4, LoadedCap, NoValAssumption DEF BInv
    <2>2. val'[u] = val[u]
      BY <1>1, <1>2, <1>4 DEF BInv, IInv, TypeOK
    <2> QED
      BY <1>1, <2>1, <2>2, ForgettingKeeps DEF BInv
  <1>5. size' <= size
    BY <1>1 DEF BInv, BTypeOK
  <1> QED
    BY <1>1, <1>3, <1>4, <1>5, QuietStep

LEMMA DiscardInv ==
    ASSUME BInv, NEW v \in Val, Discard(v)
    PROVE  BTypeOK' /\ Small' /\ Room'
  <1>1. /\ loaded' = loaded /\ size' = size /\ Forgetting /\ lost' = lost
        /\ pc' = pc /\ val' = val
    BY DEF Discard, Forget, loc
  <1>2. BTypeOK'
    <2>1. capacity' \in [Val -> Capacity]
      BY <1>1, ForgettingType DEF BInv
    <2> QED
      BY <1>1, <2>1 DEF BInv, BTypeOK
  <1>3. ASSUME NEW u \in Thread, loaded[u] # NotLoaded
        PROVE  Cap(u)' = Cap(u)
    <2>1. val[u] \in Val /\ NoVal # val[u]
      BY <1>3, LoadedCap, NoValAssumption DEF BInv
    <2> QED
      BY <1>1, <2>1, ForgettingKeeps DEF BInv
  <1>4. size' <= size
    BY <1>1 DEF BInv, BTypeOK
  <1> QED
    BY <1>1, <1>2, <1>3, <1>4, QuietStep

\* A buffer that is resized is with a caller, in no call's hands.
LEMMA ResizeInv ==
    ASSUME BInv, NEW v \in Val, NEW c \in Capacity, Resize(v, c)
    PROVE  BTypeOK' /\ Small' /\ Room'
  <1>1. /\ loaded' = loaded /\ size' = size /\ lost' = lost
        /\ pc' = pc /\ val' = val /\ v \in out
        /\ capacity' = [capacity EXCEPT ![v] = c]
    BY DEF Resize, vars
  <1>2. BTypeOK'
    BY <1>1 DEF BInv, BTypeOK
  <1>3. \A u \in Thread : val[u] # v
    BY <1>1 DEF BInv, IInv, OneOwner
  <1>4. \A u \in Thread : loaded[u] # NotLoaded => Cap(u)' = Cap(u)
    BY <1>1, <1>3, LoadedCap DEF BInv, BTypeOK, Cap
  <1>5. size' <= size
    BY <1>1 DEF BInv, BTypeOK
  <1> QED
    BY <1>1, <1>2, <1>4, <1>5, QuietStep

\* The other steps of the pool are taken by threads that have not loaded, and
\* leave the buffers of the others alone.
LEMMA PoolStepInv ==
    ASSUME BInv, NEW t \in Thread, PoolStep(t)
    PROVE  BTypeOK' /\ Small' /\ Room'
  <1>1. /\ size' = size /\ capacity' = capacity
        /\ loaded' = loaded /\ lost' = lost
    BY DEF PoolStep, hooks
  <1>2. /\ pc[t] # "return_hook"
        /\ \A u \in Thread : u # t => pc'[u] = pc[u] /\ val'[u] = val[u]
    <2> USE DEF BInv, IInv, TypeOK, loc, Finish
    <2>1. CASE TakeBegin(t) \/ TakeProbe(t) \/ TakeRead(t)
      BY <2>1 DEF TakeBegin, TakeProbe, TakeRead
    <2>2. CASE TakeUnlock(t) \/ Create(t) \/ ReturnId(t)
      BY <2>2 DEF TakeUnlock, Create, ReturnId
    <2>3. CASE ReturnProbe(t) \/ ReturnWrite(t) \/ ReturnPublish(t)
      BY <2>3 DEF ReturnProbe, ReturnWrite, ReturnPublish
    <2>4. CASE \E v \in Val : ReturnBegin(t, v)
      BY <2>4 DEF ReturnBegin
    <2> QED
      BY <2>1, <2>2, <2>3, <2>4 DEF PoolStep
  <1>3. loaded[t] = NotLoaded
    BY <1>2 DEF BInv, BTypeOK
  <1>4. BTypeOK'
    BY <1>1, <1>2, <1>3 DEF BInv, BTypeOK
  <1>5. \A u \in Thread : loaded[u] # NotLoaded => Cap(u)' = Cap(u)
    BY <1>1, <1>2, <1>3 DEF Cap
  <1>6. size' <= size
    BY <1>1 DEF BInv, BTypeOK
  <1> QED
    BY <1>1, <1>4, <1>5, <1>6, QuietStep

-----------------------------------------------------------------------------

LEMMA BufferInit == BInit => BInv
  <1> SUFFICES ASSUME BInit PROVE BInv
    OBVIOUS
  <1>1. IInv
    BY InitInv DEF BInit
  <1>2. BTypeOK /\ Small
    BY CapacityAssumption DEF BInit, BTypeOK, Small, NotLoaded
  <1>3. Pending = {}
    BY DEF BInit, Pending
  <1>4. (Cardinality(Thread) - 1) * MaxSingle \in Nat
    <2>1. Cardinality(Thread) - 1 \in Nat
      BY PendingFinite
    <2> QED
      BY <2>1, Products
  <1>5. SoftLimit
    BY <1>4, LimitAssumption DEF BInit, SoftLimit
  <1> QED
    BY <1>1, <1>2, <1>3, <1>5 DEF BInv, Room

LEMMA BufferStep == BInv /\ [BNext]_bvars => BInv'
  <1> SUFFICES ASSUME BInv, [BNext]_bvars PROVE BInv'
    OBVIOUS
  <1>1. IInv'
    BY HooksStep, StepInv DEF BInv
  <1>2. ASSUME NEW t \in Thread, HookLoad(t)
        PROVE  BTypeOK' /\ Small' /\ Room'
    BY <1>2, LoadInv
  <1>3. ASSUME NEW t \in Thread, HookCount(t)
        PROVE  BTypeOK' /\ Small' /\ Room'
    BY <1>3, CountInv
  <1>4. ASSUME NEW t \in Thread, HookRefuse(t)
        PROVE  BTypeOK' /\ Small' /\ Room'
    BY <1>4, RefuseInv
  <1>5. ASSUME NEW t \in Thread, HookUncount(t)
        PROVE  BTypeOK' /\ Small' /\ Room'
    BY <1>5, UncountInv
  <1>6. ASSUME NEW t \in Thread, GiveUp(t)
        PROVE  BTypeOK' /\ Small' /\ Room'
    BY <1>6, GiveUpInv
  <1>7. ASSUME NEW t \in Thread, PoolStep(t)
        PROVE  BTypeOK' /\ Small' /\ Room'
    BY <1>7, PoolStepInv
  <1>8. ASSUME NEW v \in Val, Discard(v)
        PROVE  BTypeOK' /\ Small' /\ Room'
    BY <1>8, DiscardInv
  <1>9. ASSUME NEW v \in Val, NEW c \in Capacity, Resize(v, c)
        PROVE  BTypeOK' /\ Small' /\ Room'
    BY <1>9, ResizeInv
  <1>10. ASSUME UNCHANGED bvars PROVE BTypeOK' /\ Small' /\ Room'
    BY <1>10 DEF bvars, vars, hooks, BInv, BTypeOK, Small, Room, Pending,
       Within, SoftLimit, Cap
  <1>11. BTypeOK' /\ Small' /\ Room'
    BY <1>2, <1>3, <1>4, <1>5, <1>6, <1>7, <1>8, <1>9, <1>10 DEF BNext
  <1> QED
    BY <1>1, <1>11 DEF BInv

\* Room for all pending additions is room for none of them.
LEMMA RoomEnough == BInv => SoftLimit
  <1> SUFFICES ASSUME BInv PROVE SoftLimit
    OBVIOUS
  <1>1. CASE Pending = {}
    BY <1>1 DEF BInv, Room
  <1>2. CASE Pending # {}
    <2>1. PICK u \in Pending : Within(Cap(u), Cardinality(Pending) - 1)
      BY <1>2 DEF BInv, Room
    <2>2. Cap(u) \in Nat /\ size \in Int
      BY LoadedCap DEF BInv, Pending, BTypeOK
    <2>3. (Cardinality(Pending) - 1) * MaxSingle \in Nat
      <3>1. Cardinality(Pending) - 1 \in Nat
        BY <1>2, PendingFinite
      <3> QED
        BY <3>1, Products
    <2>4. (Cardinality(Thread) - 1) * MaxSingle \in Int
      BY PendingFinite, LimitAssumption
    <2> QED
      BY <2>1, <2>2, <2>3, <2>4, LimitAssumption DEF Within, SoftLimit
  <1> QED
    BY <1>1, <1>2

\* The types of the counter and of the hooks' locals hold for any number of
\* threads and any limits.
THEOREM BufferTypes == BSpec => []BTypeOK
  <1>1. BInv => BTypeOK
    BY DEF BInv
  <1> QED
    BY <1>1, BufferInit, BufferStep, PTL DEF BSpec

\* However the loads and the additions of the return hooks interleave, the
\* pooled bytes pass MAX_TOTAL_BUFFERS by at most MAX_SINGLE_BUFFER for every
\* thread but one.
THEOREM BufferSoftLimit == BSpec => []SoftLimit
  BY RoomEnough, BufferInit, BufferStep, PTL DEF BSpec

-----------------------------------------------------------------------------
(* Sums *)

\* The library's sum, of the values of a function.
Sum(f, S) == MapThenSumSet(LAMBDA v : f[v], S)

\* A function that adds up the values of f over every subset, in any order.
AddsUp(h, f, X) ==
    /\ h \in [SUBSET X -> Nat]
    /\ h[{}] = 0
    /\ \A S \in SUBSET X : \A x \in S : h[S] = f[x] + h[S \ {x}]

\* Such a function exists on the subsets of a finite set.
LEMMA SumExists ==
    ASSUME NEW X, IsFiniteSet(X), NEW f, \A x \in X : f[x] \in Nat
    PROVE  \E h : AddsUp(h, f, X)
  <1> DEFINE F == {S \in SUBSET X : \E h : AddsUp(h, f, S)}
  <1>1. {} \in F
    <2> DEFINE h == [S \in SUBSET {} |-> 0]
    <2>1. AddsUp(h, f, {})
      BY DEF AddsUp
    <2> HIDE DEF h
    <2> QED
      BY <2>1
  <1>2. ASSUME NEW S \in SUBSET X, NEW y \in X, S \in F, y \notin S
        PROVE  S \cup {y} \in F
    <2>1. PICK h : AddsUp(h, f, S)
      BY <1>2
    <2> DEFINE Y == S \cup {y}
               g == [R \in SUBSET Y |->
                       h[R \ {y}] + IF y \in R THEN f[y] ELSE 0]
    <2>2. \A R \in SUBSET Y : R \ {y} \in SUBSET S
      OBVIOUS
    <2>3. /\ \A R \in SUBSET S : h[R] \in Nat
          /\ h[{}] = 0
          /\ \A R \in SUBSET S : \A x \in R : h[R] = f[x] + h[R \ {x}]
      BY <2>1 DEF AddsUp
    <2>4. \A R \in SUBSET Y :
            /\ g[R] \in Nat
            /\ g[R] = h[R \ {y}] + IF y \in R THEN f[y] ELSE 0
      BY <2>2, <2>3
    <2>5. g[{}] = 0
      <3>1. {} \in SUBSET Y /\ {} \ {y} = {}
        OBVIOUS
      <3> QED
        BY <3>1, <2>3, <2>4
    <2>6. ASSUME NEW R \in SUBSET Y, NEW x \in R
          PROVE  g[R] = f[x] + g[R \ {x}]
      <3> HIDE DEF g, Y
      <3>0. R \ {x} \in SUBSET Y /\ f[x] \in Nat /\ f[y] \in Nat
        BY DEF Y
      <3>1. CASE x = y
        <4>1. (R \ {x}) \ {y} = R \ {y} /\ y \notin R \ {x}
          BY <3>1
        <4>2. h[R \ {y}] \in Nat
          BY <2>2, <2>3
        <4>3. g[R] = h[R \ {y}] + f[y]
          BY <3>1, <2>4
        <4>4. g[R \ {x}] = h[R \ {y}] + 0
          BY <3>0, <4>1, <2>4
        <4>5. f[x] = f[y]
          BY <3>1
        <4> QED
          BY <3>0, <4>2, <4>3, <4>4, <4>5
      <3>2. CASE x # y
        <4>1. /\ x \in R \ {y} /\ R \ {y} \in SUBSET S
              /\ (R \ {x}) \ {y} = (R \ {y}) \ {x}
              /\ (R \ {y}) \ {x} \in SUBSET S
          BY <3>2, <2>2
        <4>2. h[R \ {y}] = f[x] + h[(R \ {y}) \ {x}]
          BY <4>1, <2>3
        <4>3. y \in R \ {x} <=> y \in R
          BY <3>2
        <4>4. g[R \ {x}] = h[(R \ {y}) \ {x}] + IF y \in R THEN f[y] ELSE 0
          BY <3>0, <4>1, <4>3, <2>4
        <4>5. h[(R \ {y}) \ {x}] \in Nat
          BY <4>1, <2>3
        <4>6. g[R] = h[R \ {y}] + IF y \in R THEN f[y] ELSE 0
          BY <2>4
        <4> QED
          BY <3>0, <4>2, <4>4, <4>5, <4>6
      <3> QED
        BY <3>1, <3>2
    <2>7. AddsUp(g, f, Y)
      <3>1. g \in [SUBSET Y -> Nat]
        BY <2>4
      <3> HIDE DEF g, Y
      <3> QED
        BY <3>1, <2>5, <2>6 DEF AddsUp
    <2> HIDE DEF g
    <2> QED
      BY <2>7
  <1>3. X \in F
    <2> HIDE DEF F
    <2> QED
      BY <1>1, <1>2, SetInduction
  <1> QED
    BY <1>3

\* It gives what the library computes, which takes the elements in an order
\* of its own.
LEMMA SumIs ==
    ASSUME NEW X, IsFiniteSet(X), NEW f, NEW h, AddsUp(h, f, X)
    PROVE  Sum(f, X) = h[X]
  <1> DEFINE Adding(g) == [s \in SUBSET X |->
                  IF s = {} THEN 0
                  ELSE LET x == CHOOSE x \in s : TRUE
                       IN  f[x] + g[s \ {x}]]
             iter == CHOOSE g : g = Adding(g)
  <1>1. Sum(f, X) = iter[X]
    BY Zenon DEF Sum, MapThenSumSet, MapThenFoldSet
  <1>2. h = Adding(h)
    <2>1. \A s \in SUBSET X : h[s] = Adding(h)[s]
      BY DEF AddsUp
    <2>2. h = [s \in SUBSET X |-> h[s]]
      BY DEF AddsUp
    <2> QED
      BY <2>1, <2>2
  <1>3. iter = Adding(iter)
    BY <1>2
  <1> HIDE DEF iter
  <1>4. \A s \in SUBSET X : s # {} =>
           \E x \in s : iter[s] = f[x] + iter[s \ {x}]
    BY <1>3
  <1>5. iter[{}] = 0
    BY <1>3
  <1> DEFINE E == {n \in Nat : \A s \in SUBSET X :
                     Cardinality(s) = n => iter[s] = h[s]}
  <1>6. 0 \in E
    <2>1. \A s \in SUBSET X : Cardinality(s) = 0 => s = {}
      BY FS_Subset, FS_EmptySet
    <2> QED
      BY <2>1, <1>5 DEF AddsUp
  <1>7. ASSUME NEW n \in Nat, n \in E PROVE n + 1 \in E
    <2> SUFFICES ASSUME NEW s \in SUBSET X, Cardinality(s) = n + 1
                 PROVE  iter[s] = h[s]
      OBVIOUS
    <2>1. IsFiniteSet(s) /\ s # {}
      BY FS_Subset, FS_EmptySet
    <2>2. PICK x \in s : iter[s] = f[x] + iter[s \ {x}]
      BY <2>1, <1>4
    <2>3. Cardinality(s \ {x}) = Cardinality(s) - 1
      BY <2>1, FS_RemoveElement
    <2>4. Cardinality(s \ {x}) = n /\ s \ {x} \in SUBSET X
      BY <2>3
    <2>5. iter[s \ {x}] = h[s \ {x}]
      BY <2>4, <1>7
    <2>6. h[s] = f[x] + h[s \ {x}]
      BY DEF AddsUp
    <2> QED
      BY <2>2, <2>5, <2>6
  <1>8. \A n \in Nat : n \in E
    <2> HIDE DEF E
    <2> QED
      BY <1>6, <1>7, NumberInduction
  <1>9. Cardinality(X) \in Nat
    BY FS_CardinalityType
  <1>10. iter[X] = h[X]
    BY <1>8, <1>9
  <1> QED
    BY <1>1, <1>10

\* The sum of nothing is zero, and an element adds its value.
LEMMA SumEmpty ==
    ASSUME NEW f
    PROVE  Sum(f, {}) = 0
  <1>1. PICK h : AddsUp(h, f, {})
    BY SumExists, FS_EmptySet
  <1> QED
    BY <1>1, SumIs, FS_EmptySet DEF AddsUp

LEMMA SumAdd ==
    ASSUME NEW S, IsFiniteSet(S), NEW x, x \notin S, NEW f,
           \A y \in S \cup {x} : f[y] \in Nat
    PROVE  /\ Sum(f, S) \in Nat
           /\ Sum(f, S \cup {x}) = Sum(f, S) + f[x]
  <1> DEFINE X == S \cup {x}
  <1>1. IsFiniteSet(X)
    BY FS_AddElement
  <1>2. PICK h : AddsUp(h, f, X)
    BY <1>1, SumExists
  <1>3. Sum(f, X) = h[X]
    BY <1>1, <1>2, SumIs
  <1> DEFINE g == [R \in SUBSET S |-> h[R]]
  <1>4. AddsUp(g, f, S)
    BY <1>2 DEF AddsUp
  <1>5. Sum(f, S) = h[S] /\ h[S] \in Nat
    <2>1. g[S] = h[S] /\ h[S] \in Nat
      BY <1>2 DEF AddsUp
    <2> HIDE DEF g
    <2> QED
      BY <2>1, <1>4, SumIs
  <1>6. X \ {x} = S /\ x \in X /\ X \in SUBSET X
    OBVIOUS
  <1>7. h[X] = f[x] + h[S]
    BY <1>2, <1>6 DEF AddsUp
  <1> QED
    BY <1>3, <1>5, <1>7

\* The sum depends on the values of the elements only.
LEMMA SumSame ==
    ASSUME NEW S, IsFiniteSet(S), NEW f, NEW g,
           \A x \in S : f[x] \in Nat /\ g[x] = f[x]
    PROVE  Sum(g, S) = Sum(f, S)
  <1>1. PICK h : AddsUp(h, f, S)
    BY SumExists
  <1>2. AddsUp(h, g, S)
    BY <1>1 DEF AddsUp
  <1> QED
    BY <1>1, <1>2, SumIs

LEMMA SumIsNat ==
    ASSUME NEW S, IsFiniteSet(S), NEW f, \A x \in S : f[x] \in Nat
    PROVE  Sum(f, S) \in Nat
  <1>1. PICK h : AddsUp(h, f, S)
    BY SumExists
  <1>2. h[S] \in Nat
    BY <1>1 DEF AddsUp
  <1> QED
    BY <1>1, <1>2, SumIs

-----------------------------------------------------------------------------
(* The counter is exact *)

\* A function has finitely many values on a finite set.
LEMMA ImageFinite ==
    ASSUME NEW S, IsFiniteSet(S), NEW f
    PROVE  IsFiniteSet({f[s] : s \in S})
  <1> DEFINE T == {f[s] : s \in S}
             g == [s \in S |-> f[s]]
  <1>1. g \in [S -> T]
    OBVIOUS
  <1>2. \A y \in T : \E s \in S : g[s] = y
    OBVIOUS
  <1>3. g \in Surjection(S, T)
    <2> HIDE DEF g, T
    <2> QED
      BY <1>1, <1>2 DEF Surjection
  <1> HIDE DEF g, T
  <1>4. IsFiniteSet(T)
    BY <1>3, FS_Surjection
  <1> QED
    BY <1>4 DEF T

\* A buffer is counted while a cell holds it, or a call that has counted it.
Held(v) == \/ \E s \in Slot : pool[s] = v
           \/ \E t \in Thread : val[t] = v /\ pc[t] # "return_hook"

HeldOnes == {v \in Val : Held(v)}

LEMMA CountedIs == IInv => Counted = HeldOnes /\ IsFiniteSet(Counted)
  <1> SUFFICES ASSUME IInv PROVE Counted = HeldOnes /\ IsFiniteSet(Counted)
    OBVIOUS
  <1>1. /\ \A s \in Slot : pool[s] \in Val \cup {NoVal}
        /\ \A t \in Thread : val[t] \in Val \cup {NoVal}
        /\ \A t \in Thread : pc[t] = "idle" => val[t] = NoVal
    BY DEF IInv, TypeOK, LocalsMatch, Carrying
  <1>2. Counted = HeldOnes
    BY <1>1, NoValAssumption DEF Counted, Held, HeldOnes
  <1> DEFINE C == {pool[s] : s \in Slot}
             U == {u \in Thread : pc[u] \notin {"idle", "return_hook"}}
             D == {val[t] : t \in U}
  <1>3. IsFiniteSet(C)
    <2>1. IsFiniteSet(Slot)
      BY CAPAssumption, FS_Interval DEF Slot
    <2> QED
      BY <2>1, ImageFinite
  <1>4. IsFiniteSet(D)
    <2>1. IsFiniteSet(U)
      BY ThreadAssumption, FS_Subset
    <2> QED
      BY <2>1, ImageFinite
  <1>5. IsFiniteSet(C \cup D)
    BY <1>3, <1>4, FS_Union
  <1>6. Counted \subseteq C \cup D
    BY DEF Counted
  <1> QED
    BY <1>2, <1>5, <1>6, FS_Subset

\* The counter is exact.
Exact == size = Sum(capacity, Counted) + lost

LEMMA CapacityIsNat ==
    ASSUME BTypeOK, NEW v \in Val
    PROVE  capacity[v] \in Nat
  BY CapacityAssumption DEF BTypeOK

\* Nothing is counted, and nothing uncounted.
LEMMA SameCount ==
    ASSUME IInv, BTypeOK, Exact, IInv',
           size' = size, lost' = lost,
           \A v \in Val : Held(v) <=> Held(v)',
           \A v \in Val : Held(v) => capacity'[v] = capacity[v]
    PROVE  Exact'
  <1>1. Counted' = Counted
    <2>1. Counted = HeldOnes
      BY CountedIs
    <2>2. (Counted = HeldOnes /\ IsFiniteSet(Counted))'
      BY CountedIs, PTL
    <2> QED
      BY <2>1, <2>2 DEF HeldOnes
  <1>2. IsFiniteSet(Counted) /\ \A v \in Counted : v \in Val /\ Held(v)
    BY CountedIs DEF HeldOnes
  <1>3. \A v \in Counted : capacity[v] \in Nat /\ capacity'[v] = capacity[v]
    BY <1>2, CapacityIsNat
  <1>4. PICK g : g = capacity'
    OBVIOUS
  <1>5. Sum(g, Counted) = Sum(capacity, Counted)
    BY <1>2, <1>3, <1>4, SumSame
  <1>6. Sum(capacity, Counted)' = Sum(g, Counted)
    BY <1>1, <1>4
  <1> QED
    BY <1>5, <1>6 DEF Exact

\* One buffer is counted.
LEMMA OneCounted ==
    ASSUME IInv, BTypeOK, Exact, IInv', NEW x \in Val, ~ Held(x),
           size' = size + capacity[x], lost' = lost,
           \A v \in Val : Held(v)' <=> Held(v) \/ v = x,
           capacity' = capacity
    PROVE  Exact'
  <1>1. Counted' = Counted \cup {x} /\ x \notin Counted
    <2>1. Counted = HeldOnes
      BY CountedIs
    <2>2. (Counted = HeldOnes /\ IsFiniteSet(Counted))'
      BY CountedIs, PTL
    <2> QED
      BY <2>1, <2>2 DEF HeldOnes
  <1>2. IsFiniteSet(Counted) /\ \A v \in Counted : v \in Val
    BY CountedIs DEF HeldOnes
  <1>3. \A v \in Counted \cup {x} : capacity[v] \in Nat
    BY <1>2, CapacityIsNat
  <1>4. /\ Sum(capacity, Counted) \in Nat
        /\ Sum(capacity, Counted \cup {x})
             = Sum(capacity, Counted) + capacity[x]
    BY <1>1, <1>2, <1>3, SumAdd
  <1>5. Sum(capacity, Counted)' = Sum(capacity, Counted \cup {x})
    BY <1>1
  <1>6. capacity[x] \in Nat /\ lost \in Nat
    BY CapacityIsNat DEF BTypeOK
  <1> QED
    BY <1>4, <1>5, <1>6 DEF Exact

\* One counted buffer is uncounted, or given up.
LEMMA OneUncounted ==
    ASSUME IInv, BTypeOK, Exact, IInv', NEW x \in Val, Held(x),
           \/ size' = size - capacity[x] /\ lost' = lost
           \/ size' = size /\ lost' = lost + capacity[x],
           \A v \in Val : Held(v)' <=> Held(v) /\ v # x,
           \A v \in Val : Held(v)' => capacity'[v] = capacity[v]
    PROVE  Exact'
  <1>1. Counted = Counted' \cup {x} /\ x \notin Counted'
    <2>1. Counted = HeldOnes
      BY CountedIs
    <2>2. (Counted = HeldOnes /\ IsFiniteSet(Counted))'
      BY CountedIs, PTL
    <2> QED
      BY <2>1, <2>2 DEF HeldOnes
  <1>2. IsFiniteSet(Counted') /\ \A v \in Counted' : v \in Val /\ Held(v)'
    <2>1. (Counted = HeldOnes /\ IsFiniteSet(Counted))'
      BY CountedIs, PTL
    <2> QED
      BY <2>1 DEF HeldOnes
  <1>3. \A v \in Counted' \cup {x} : capacity[v] \in Nat
    BY <1>2, CapacityIsNat
  <1>4. \A v \in Counted' : capacity'[v] = capacity[v]
    BY <1>2
  <1>5. PICK g, C : g = capacity' /\ C = Counted'
    OBVIOUS
  <1>6. /\ Sum(capacity, C) \in Nat
        /\ Sum(capacity, C \cup {x}) = Sum(capacity, C) + capacity[x]
    BY <1>1, <1>2, <1>3, <1>5, SumAdd
  <1>7. Sum(g, C) = Sum(capacity, C)
    BY <1>2, <1>3, <1>4, <1>5, SumSame
  <1>8. Sum(capacity, Counted)' = Sum(g, C)
    BY <1>5
  <1>9. Sum(capacity, Counted) = Sum(capacity, C \cup {x})
    BY <1>1, <1>5
  <1>10. capacity[x] \in Nat /\ lost \in Nat
    BY CapacityIsNat DEF BTypeOK
  <1> QED
    BY <1>6, <1>7, <1>8, <1>9, <1>10 DEF Exact

\* Dropping a buffer takes no counted buffer's capacity away.
LEMMA ForgettingCounted ==
    ASSUME Forgetting, NEW v \in Val, Held(v)'
    PROVE  capacity'[v] = capacity[v]
  <1>1. v \in Live'
    BY NoValAssumption DEF Held, Live
  <1> QED
    BY <1>1 DEF Forgetting

\* The steps that add or take nothing.
LEMMA QuietExact ==
    ASSUME BInv, Exact, IInv', NEW t \in Thread,
           HookLoad(t) \/ HookRefuse(t)
    PROVE  Exact'
  <1>1. CASE HookLoad(t)
    <2>1. /\ pool' = pool /\ val' = val /\ pc' = pc
          /\ size' = size /\ capacity' = capacity /\ lost' = lost
      BY <1>1 DEF HookLoad, vars
    <2>2. \A v \in Val : Held(v) <=> Held(v)'
      BY <2>1 DEF Held
    <2> QED
      BY <2>1, <2>2, SameCount DEF BInv
  <1>2. CASE HookRefuse(t)
    <2>1. /\ pool' = pool /\ size' = size /\ lost' = lost /\ Forgetting
          /\ pc[t] = "return_hook" /\ pc' = [pc EXCEPT ![t] = "idle"]
          /\ val' = [val EXCEPT ![t] = NoVal]
      BY <1>2 DEF HookRefuse, HookReject, Finish, mem
    <2>2. \A v \in Val : Held(v) <=> Held(v)'
      BY <2>1, NoValAssumption DEF Held, BInv, IInv, TypeOK
    <2>3. \A v \in Val : Held(v) => capacity'[v] = capacity[v]
      BY <2>1, <2>2, ForgettingCounted
    <2> QED
      BY <2>1, <2>2, <2>3, SameCount DEF BInv
  <1> QED
    BY <1>1, <1>2

\* The value of a call belongs to no cell and to no other call.
LEMMA OneHolder ==
    ASSUME IInv, NEW t \in Thread, val[t] \in Val
    PROVE  /\ \A s \in Slot : pool[s] # val[t]
           /\ \A u \in Thread : u # t => val[u] # val[t]
  BY NoValAssumption DEF IInv, OneOwner

LEMMA CountExact ==
    ASSUME BInv, Exact, IInv', NEW t \in Thread, HookCount(t)
    PROVE  Exact'
  <1>1. /\ pool' = pool /\ val' = val /\ lost' = lost
        /\ size' = size + Cap(t) /\ capacity' = capacity
        /\ pc[t] = "return_hook" /\ pc' = [pc EXCEPT ![t] = "return_id"]
    BY DEF HookCount, HookAccept, mem
  <1>2. val[t] \in Val
    BY <1>1 DEF BInv, IInv, TypeOK, LocalsMatch, Carrying
  <1>3. PICK x \in Val : x = val[t]
    BY <1>2
  <1>4. ~ Held(x)
    BY <1>1, <1>2, <1>3, OneHolder DEF BInv, Held
  <1>5. \A v \in Val : Held(v)' <=> Held(v) \/ v = x
    BY <1>1, <1>3 DEF Held, BInv, IInv, TypeOK
  <1>6. size' = size + capacity[x]
    BY <1>1, <1>3 DEF Cap
  <1> QED
    BY <1>1, <1>4, <1>5, <1>6, OneCounted DEF BInv

LEMMA UncountExact ==
    ASSUME BInv, Exact, IInv', NEW t \in Thread, HookUncount(t) \/ GiveUp(t)
    PROVE  Exact'
  <1>1. /\ pool' = pool /\ pc[t] \in {"take_hook", "return_probe"}
        /\ pc' = [pc EXCEPT ![t] = "idle"]
        /\ val' = [val EXCEPT ![t] = NoVal]
        /\ \/ size' = size - Cap(t) /\ lost' = lost
           \/ size' = size /\ lost' = lost + Cap(t)
        /\ capacity' = capacity \/ Forgetting
    BY DEF HookUncount, TakeHook, GiveUp, ReturnGiveUp, Finish, mem
  <1>2. val[t] \in Val
    BY <1>1 DEF BInv, IInv, TypeOK, LocalsMatch, Carrying
  <1>3. PICK x \in Val : x = val[t]
    BY <1>2
  <1>4. Held(x)
    BY <1>1, <1>3 DEF Held
  <1>5. \A v \in Val : Held(v)' <=> Held(v) /\ v # x
    <2>1. /\ \A u \in Thread : u # t => val'[u] = val[u] /\ pc'[u] = pc[u]
          /\ val'[t] = NoVal /\ pc'[t] = "idle"
      BY <1>1 DEF BInv, IInv, TypeOK
    <2>2. /\ \A s \in Slot : pool[s] # x
          /\ \A u \in Thread : u # t => val[u] # x
      BY <1>2, <1>3, OneHolder DEF BInv
    <2> QED
      BY <1>1, <1>3, <2>1, <2>2, NoValAssumption DEF Held
  <1>6. \A v \in Val : Held(v)' => capacity'[v] = capacity[v]
    BY <1>1, ForgettingCounted
  <1>7. \/ size' = size - capacity[x] /\ lost' = lost
        \/ size' = size /\ lost' = lost + capacity[x]
    BY <1>1, <1>3 DEF Cap
  <1> QED
    BY <1>4, <1>5, <1>6, <1>7, OneUncounted DEF BInv

\* A buffer that its owner drops or resizes is not counted.
LEMMA OwnerExact ==
    ASSUME BInv, Exact, IInv', NEW v \in Val,
           Discard(v) \/ \E c \in Capacity : Resize(v, c)
    PROVE  Exact'
  <1>1. /\ pool' = pool /\ val' = val /\ pc' = pc
        /\ size' = size /\ lost' = lost
    BY DEF Discard, Forget, Resize, mem, loc, vars
  <1>2. \A w \in Val : Held(w) <=> Held(w)'
    BY <1>1 DEF Held
  <1>3. ASSUME NEW w \in Val, Held(w)
        PROVE  capacity'[w] = capacity[w]
    <2>1. CASE Discard(v)
      BY <1>2, <1>3, <2>1, ForgettingCounted DEF Discard
    <2>2. CASE \E c \in Capacity : Resize(v, c)
      <3>1. v \in out /\ \E c : capacity' = [capacity EXCEPT ![v] = c]
        BY <2>2 DEF Resize
      <3>2. w # v
        BY <1>3, <3>1 DEF Held, BInv, IInv, OneOwner
      <3> QED
        BY <3>1, <3>2 DEF BInv, BTypeOK
    <2> QED
      BY <2>1, <2>2
  <1> QED
    BY <1>1, <1>2, <1>3, SameCount DEF BInv

\* The pool moves a counted buffer from a cell to a call and back.
LEMMA PoolStepHeld ==
    ASSUME IInv, NEW t \in Thread, PoolStep(t), NEW v \in Val
    PROVE  Held(v) <=> Held(v)'
  <1> USE DEF IInv, TypeOK
  <1>1. CASE TakeBegin(t) \/ TakeProbe(t) \/ TakeUnlock(t)
             \/ ReturnId(t) \/ ReturnProbe(t)
    <2>1. /\ pool' = pool /\ val' = val
          /\ \A u \in Thread : pc'[u] = "return_hook" <=> pc[u] = "return_hook"
      BY <1>1 DEF TakeBegin, TakeProbe, TakeUnlock, ReturnId, ReturnProbe
    <2> QED
      BY <2>1 DEF Held
  <1>2. CASE Create(t) \/ ReturnPublish(t)
    <2>1. /\ pool' = pool /\ val' = [val EXCEPT ![t] = NoVal]
          /\ pc[t] \in {"take_probe", "return_publish"}
          /\ pc' = [pc EXCEPT ![t] = "idle"]
      BY <1>2 DEF Create, ReturnPublish, Finish, mem
    <2>2. val[t] = NoVal
      BY <2>1 DEF LocalsMatch, Carrying
    <2>3. val' = val
      BY <2>1, <2>2
    <2> QED
      BY <2>1, <2>3 DEF Held
  <1>3. CASE TakeRead(t)
    <2>1. PICK s \in Slot : s = Probe(t)
      BY ProbeInSlot
    <2>2. /\ pool' = [pool EXCEPT ![s] = NoVal]
          /\ val' = [val EXCEPT ![t] = pool[s]]
          /\ pc[t] = "take_read" /\ pc' = [pc EXCEPT ![t] = "take_unlock"]
      BY <1>3, <2>1 DEF TakeRead
    <2>3. val[t] = NoVal
      BY <2>2 DEF LocalsMatch, Carrying
    <2>4. /\ pool'[s] = NoVal /\ val'[t] = pool[s] /\ pc'[t] = "take_unlock"
          /\ \A r \in Slot : r # s => pool'[r] = pool[r]
          /\ \A u \in Thread : u # t => val'[u] = val[u] /\ pc'[u] = pc[u]
      BY <2>2
    <2> QED
      BY <2>2, <2>3, <2>4, NoValAssumption DEF Held
  <1>4. CASE ReturnWrite(t)
    <2>1. PICK s \in Slot : s = Probe(t)
      BY ProbeInSlot
    <2>2. /\ pool' = [pool EXCEPT ![s] = val[t]]
          /\ val' = [val EXCEPT ![t] = NoVal]
          /\ pc[t] = "return_write"
          /\ pc' = [pc EXCEPT ![t] = "return_publish"]
      BY <1>4, <2>1 DEF ReturnWrite
    <2>3. pool[s] = NoVal
      BY <2>1, <2>2 DEF ClaimIntact
    <2>4. /\ pool'[s] = val[t] /\ val'[t] = NoVal
          /\ \A r \in Slot : r # s => pool'[r] = pool[r]
          /\ \A u \in Thread : u # t => val'[u] = val[u] /\ pc'[u] = pc[u]
      BY <2>2
    <2> QED
      BY <2>2, <2>3, <2>4, NoValAssumption DEF Held
  <1>5. CASE \E w \in Val : ReturnBegin(t, w)
    <2>1. PICK w \in Val : ReturnBegin(t, w)
      BY <1>5
    <2>2. /\ pool' = pool /\ val' = [val EXCEPT ![t] = w]
          /\ pc[t] = "idle" /\ pc' = [pc EXCEPT ![t] = "return_hook"]
      BY <2>1 DEF ReturnBegin, mem
    <2>3. val[t] = NoVal
      BY <2>2 DEF LocalsMatch, Carrying
    <2>4. /\ pc'[t] = "return_hook"
          /\ \A u \in Thread : u # t => val'[u] = val[u] /\ pc'[u] = pc[u]
      BY <2>2
    <2> QED
      BY <2>2, <2>3, <2>4, NoValAssumption DEF Held
  <1> QED
    BY <1>1, <1>2, <1>3, <1>4, <1>5 DEF PoolStep

LEMMA PoolStepExact ==
    ASSUME BInv, Exact, IInv', NEW t \in Thread, PoolStep(t)
    PROVE  Exact'
  <1>1. size' = size /\ capacity' = capacity /\ lost' = lost
    BY DEF PoolStep, hooks
  <1>2. \A v \in Val : Held(v) <=> Held(v)'
    BY PoolStepHeld DEF BInv
  <1> QED
    BY <1>1, <1>2, SameCount DEF BInv

LEMMA ExactInit == BInit => Exact
  <1> SUFFICES ASSUME BInit PROVE Exact
    OBVIOUS
  <1>1. Counted = {}
    BY DEF BInit, Init, Counted
  <1> QED
    BY <1>1, SumEmpty DEF BInit, Exact

LEMMA ExactStep == BInv /\ Exact /\ IInv' /\ [BNext]_bvars => Exact'
  <1> SUFFICES ASSUME BInv, Exact, IInv', [BNext]_bvars PROVE Exact'
    OBVIOUS
  <1>1. ASSUME NEW t \in Thread, HookLoad(t) \/ HookRefuse(t)
        PROVE  Exact'
    BY <1>1, QuietExact
  <1>2. ASSUME NEW t \in Thread, HookCount(t)
        PROVE  Exact'
    BY <1>2, CountExact
  <1>3. ASSUME NEW t \in Thread, HookUncount(t) \/ GiveUp(t)
        PROVE  Exact'
    BY <1>3, UncountExact
  <1>4. ASSUME NEW t \in Thread, PoolStep(t)
        PROVE  Exact'
    BY <1>4, PoolStepExact
  <1>5. ASSUME NEW v \in Val, Discard(v) \/ \E c \in Capacity : Resize(v, c)
        PROVE  Exact'
    BY <1>5, OwnerExact
  <1>6. CASE UNCHANGED bvars
    BY <1>6 DEF bvars, vars, hooks, Exact, Counted
  <1> QED
    BY <1>1, <1>2, <1>3, <1>4, <1>5, <1>6 DEF BNext

\* Sums are natural numbers, so an exact counter is one.
LEMMA ExactEnough == BInv /\ Exact => SizeAccounts
  <1> SUFFICES ASSUME BInv, Exact PROVE SizeAccounts
    OBVIOUS
  <1>1. IsFiniteSet(Counted) /\ \A v \in Counted : v \in Val
    BY CountedIs DEF BInv, HeldOnes
  <1>2. \A v \in Counted : capacity[v] \in Nat
    BY <1>1, CapacityIsNat DEF BInv
  <1>3. Sum(capacity, Counted) \in Nat
    BY <1>1, <1>2, SumIsNat
  <1>4. size = Sum(capacity, Counted) + lost /\ lost \in Nat
    BY DEF Exact, BInv, BTypeOK
  <1>5. size >= 0
    BY <1>3, <1>4
  <1> QED
    BY <1>4, <1>5 DEF SizeAccounts, Sum

\* CURRENT_SIZE is the capacity of the buffers that are counted, and of those
\* that were counted and then found no slot, whatever the interleaving of the
\* hooks' loads, additions and subtractions; it never wraps below zero.
THEOREM BufferAccounts == BSpec => []SizeAccounts
  <1>1. BInv /\ Exact /\ [BNext]_bvars => Exact'
    BY BufferStep, ExactStep DEF BInv
  <1> QED
    BY <1>1, BufferInit, BufferStep, ExactInit, ExactEnough, PTL DEF BSpec
=============================================================================
