------------------------ MODULE ArchiveCreateProofs ------------------------
(***************************************************************************)
(* Proofs about ArchiveCreate for any forest of any size and any bound of  *)
(* the data channel: the command archives everything under its arguments   *)
(* once, parents first, and reports what fails.                            *)
(***************************************************************************)
EXTENDS ArchiveCreate, Induction

-----------------------------------------------------------------------------
(* Counting in sequences *)

Spots(s, v) == {i \in DOMAIN s : s[i] = v}

\* How often v is in s.
Count(s, v) == Cardinality(Spots(s, v))

Bit(b) == IF b THEN 1 ELSE 0

LEMMA CountType ==
    ASSUME NEW T, NEW s \in Seq(T), NEW v
    PROVE  /\ Spots(s, v) \subseteq 1..Len(s)
           /\ IsFiniteSet(Spots(s, v))
           /\ Count(s, v) \in Nat
           /\ Count(s, v) = 0 <=> \A i \in DOMAIN s : s[i] # v
  <1>1. IsFiniteSet(1..Len(s)) /\ DOMAIN s = 1..Len(s)
    BY FS_Interval
  <1>2. Spots(s, v) \in SUBSET (1..Len(s))
    BY <1>1 DEF Spots
  <1>3. IsFiniteSet(Spots(s, v))
    BY <1>1, <1>2, FS_Subset
  <1>4. Count(s, v) \in Nat /\ (Count(s, v) = 0 <=> Spots(s, v) = {})
    BY <1>3, FS_CardinalityType, FS_EmptySet DEF Count
  <1> QED
    BY <1>2, <1>3, <1>4 DEF Spots

LEMMA CountEmpty == \A v : Count(<<>>, v) = 0
  <1>1. \A v : Spots(<<>>, v) = {}
    BY DEF Spots
  <1> QED
    BY <1>1, FS_EmptySet DEF Count

LEMMA CountAppend ==
    ASSUME NEW T, NEW s \in Seq(T), NEW x \in T, NEW v
    PROVE  Count(Append(s, x), v) = Count(s, v) + Bit(x = v)
  <1> DEFINE n == Len(s) + 1
  <1>1. IsFiniteSet(Spots(s, v)) /\ n \notin Spots(s, v)
    BY CountType
  <1>2. Spots(Append(s, x), v) =
          IF x = v THEN Spots(s, v) \cup {n} ELSE Spots(s, v)
    BY DEF Spots
  <1> HIDE DEF n
  <1>3. Cardinality(Spots(s, v) \cup {n}) = Cardinality(Spots(s, v)) + 1
    BY <1>1, OneMore
  <1>4. Count(s, v) \in Nat
    BY CountType
  <1> QED
    BY <1>2, <1>3, <1>4 DEF Count, Bit

LEMMA CountTail ==
    ASSUME NEW T, NEW s \in Seq(T), s # <<>>, NEW v
    PROVE  Count(s, v) = Count(Tail(s), v) + Bit(Head(s) = v)
  <1> DEFINE M == {i + 1 : i \in Spots(Tail(s), v)}
  <1>0. Tail(s) \in Seq(T) /\ Len(Tail(s)) = Len(s) - 1 /\ Len(s) \in Nat
        /\ Len(s) >= 1 /\ Head(s) = s[1]
        /\ \A i \in 1..(Len(s) - 1) : Tail(s)[i] = s[i + 1]
    OBVIOUS
  <1>1. /\ IsFiniteSet(Spots(Tail(s), v)) /\ Count(Tail(s), v) \in Nat
        /\ Spots(Tail(s), v) \subseteq 1..(Len(s) - 1)
    BY <1>0, CountType
  <1>2. IsFiniteSet(M) /\ Cardinality(M) = Count(Tail(s), v) /\ 1 \notin M
    <2>1. Spots(Tail(s), v) \subseteq Int /\ 1 \in Int
      BY <1>1
    <2>2. IsFiniteSet(M) /\ Cardinality(M) = Cardinality(Spots(Tail(s), v))
      BY <1>1, <2>1, Moved
    <2> QED
      BY <2>2, <1>1 DEF Count
  <1>3. Spots(s, v) = IF Head(s) = v THEN M \cup {1} ELSE M
    <2>1. ASSUME NEW i \in Spots(s, v), i # 1 PROVE i \in M
      <3>1. i \in 2..Len(s) /\ s[i] = v
        BY <2>1, <1>0 DEF Spots
      <3>2. i - 1 \in Spots(Tail(s), v) /\ i = (i - 1) + 1
        BY <3>1, <1>0 DEF Spots
      <3> QED
        BY <3>2
    <2>2. ASSUME NEW i \in Spots(Tail(s), v) PROVE i + 1 \in Spots(s, v)
      BY <1>0, <1>1 DEF Spots
    <2>3. 1 \in Spots(s, v) <=> Head(s) = v
      BY <1>0 DEF Spots
    <2> QED
      BY <2>1, <2>2, <2>3, <1>2
  <1> HIDE DEF M
  <1>4. Cardinality(M \cup {1}) = Cardinality(M) + 1
    BY <1>2, OneMore
  <1> QED
    BY <1>1, <1>2, <1>3, <1>4 DEF Count, Bit

LEMMA CountConcat ==
    ASSUME NEW T, NEW s \in Seq(T), NEW t \in Seq(T), NEW v
    PROVE  Count(s \o t, v) = Count(s, v) + Count(t, v)
  <1> DEFINE M == {i + Len(s) : i \in Spots(t, v)}
  <1>0. /\ Len(s) \in Nat /\ Len(t) \in Nat /\ s \o t \in Seq(T)
        /\ Len(s \o t) = Len(s) + Len(t)
        /\ \A i \in 1..Len(s) : (s \o t)[i] = s[i]
        /\ \A i \in 1..Len(t) : (s \o t)[i + Len(s)] = t[i]
    OBVIOUS
  <1>1. /\ IsFiniteSet(Spots(t, v)) /\ Count(t, v) \in Nat
        /\ Spots(t, v) \subseteq 1..Len(t)
        /\ IsFiniteSet(Spots(s, v)) /\ Count(s, v) \in Nat
        /\ Spots(s, v) \subseteq 1..Len(s)
    BY CountType
  <1>2. IsFiniteSet(M) /\ Cardinality(M) = Count(t, v)
    <2>1. Spots(t, v) \subseteq Int /\ Len(s) \in Int
      BY <1>1
    <2>2. IsFiniteSet(M) /\ Cardinality(M) = Cardinality(Spots(t, v))
      BY <1>1, <2>1, Moved
    <2> QED
      BY <2>2 DEF Count
  <1>3. Spots(s, v) \cap M = {}
    BY <1>1
  <1>4. Spots(s \o t, v) = Spots(s, v) \cup M
    <2>1. ASSUME NEW i \in Spots(s \o t, v), i \notin Spots(s, v) PROVE i \in M
      <3>1. i \in 1..(Len(s) + Len(t)) /\ (s \o t)[i] = v
        BY <1>0 DEF Spots
      <3>2. i > Len(s)
        BY <2>1, <3>1, <1>0 DEF Spots
      <3>3. i - Len(s) \in 1..Len(t) /\ i = (i - Len(s)) + Len(s)
        BY <3>1, <3>2, <1>0
      <3>4. t[i - Len(s)] = v
        BY <3>1, <3>3, <1>0
      <3>5. i - Len(s) \in Spots(t, v)
        BY <3>3, <3>4 DEF Spots
      <3> QED
        BY <3>3, <3>5
    <2>2. ASSUME NEW i \in Spots(t, v) PROVE i + Len(s) \in Spots(s \o t, v)
      <3>1. i \in 1..Len(t) /\ t[i] = v
        BY DEF Spots
      <3>2. i + Len(s) \in 1..(Len(s) + Len(t))
        BY <3>1, <1>0
      <3>3. (s \o t)[i + Len(s)] = v
        BY <3>1, <1>0
      <3> QED
        BY <3>2, <3>3, <1>0 DEF Spots
    <2>3. ASSUME NEW i \in Spots(s, v) PROVE i \in Spots(s \o t, v)
      BY <1>0 DEF Spots
    <2> QED
      BY <2>1, <2>2, <2>3
  <1> HIDE DEF M
  <1>5. Cardinality(Spots(s, v) \cup M) =
          Cardinality(Spots(s, v)) + Cardinality(M) - Cardinality({})
    BY <1>1, <1>2, <1>3, FS_Union
  <1> QED
    BY <1>1, <1>2, <1>4, <1>5, FS_EmptySet DEF Count

-----------------------------------------------------------------------------
(* The sorted order, and the forest *)

Increasing(s, n) == \A i, j \in 1..n : i < j => s[i] < s[j]

\* Every set of paths has a sorted order.
LEMMA HasOrder ==
    ASSUME NEW S \in SUBSET Paths
    PROVE  \E s \in [1..Cardinality(S) -> S] : Increasing(s, Cardinality(S))
  <1> DEFINE Has(R) == \E s \in [1..Cardinality(R) -> R] :
                         Increasing(s, Cardinality(R))
             E == {n \in Nat : \A R \in SUBSET (1..n) : Has(R)}
  <1>1. 0 \in E
    <2> SUFFICES ASSUME NEW R \in SUBSET (1..0) PROVE Has(R)
      OBVIOUS
    <2>1. R = {}
      OBVIOUS
    <2>4. Cardinality(R) = 0
      BY <2>1, FS_EmptySet
    <2>2. <<>> \in [1..0 -> R]
      OBVIOUS
    <2>3. Increasing(<<>>, 0)
      BY DEF Increasing
    <2> QED
      BY <2>1, <2>2, <2>3, <2>4
  <1>2. ASSUME NEW n \in Nat, n \in E PROVE n + 1 \in E
    <2> SUFFICES ASSUME NEW R \in SUBSET (1..(n + 1)) PROVE Has(R)
      <3> HIDE DEF Has
      <3> QED
        OBVIOUS
    <2>1. CASE n + 1 \notin R
      <3>1. R \in SUBSET (1..n)
        BY <2>1
      <3> QED
        BY <3>1, <1>2
    <2>2. CASE n + 1 \in R
      <3> DEFINE Q == R \ {n + 1}
                 m == Cardinality(Q)
      <3>1. Q \in SUBSET (1..n)
        OBVIOUS
      <3>2. Has(Q)
        BY <3>1, <1>2
      <3>3. IsFiniteSet(Q) /\ m \in Nat
        <4>1. IsFiniteSet(1..n)
          BY FS_Interval
        <4> QED
          BY <4>1, <3>1, FS_Subset, FS_CardinalityType
      <3>4. Cardinality(R) = m + 1
        <4>1. Cardinality(Q \cup {n + 1}) = m + 1
          BY <3>3, OneMore
        <4>2. R = Q \cup {n + 1}
          BY <2>2
        <4> QED
          BY <4>1, <4>2
      <3>5. PICK s \in [1..m -> Q] : Increasing(s, m)
        BY <3>2
      <3> DEFINE t == [i \in 1..(m + 1) |-> IF i = m + 1 THEN n + 1 ELSE s[i]]
      <3>6. t \in [1..(m + 1) -> R]
        <4> HIDE DEF m, Q
        <4>1. ASSUME NEW i \in 1..(m + 1), i # m + 1 PROVE i \in 1..m
          BY <4>1, <3>3
        <4>2. Q \subseteq R
          BY DEF Q
        <4> QED
          BY <2>2, <4>1, <4>2
      <3>7. Increasing(t, m + 1)
        <4> SUFFICES ASSUME NEW i \in 1..(m + 1), NEW j \in 1..(m + 1), i < j
                     PROVE  t[i] < t[j]
          BY DEF Increasing
        <4> HIDE DEF m, Q
        <4>1. i \in 1..m /\ t[i] = s[i] /\ s[i] \in 1..n
          <5>1. i \in 1..m /\ i # m + 1
            BY <3>3
          <5> QED
            BY <5>1, <3>1
        <4>2. CASE j = m + 1
          BY <4>1, <4>2
        <4>3. CASE j # m + 1
          <5>1. j \in 1..m /\ t[j] = s[j]
            BY <4>3, <3>3
          <5> QED
            BY <5>1, <4>1, <3>5 DEF Increasing
        <4> QED
          BY <4>2, <4>3
      <3> HIDE DEF t, m
      <3> QED
        BY <3>4, <3>6, <3>7
    <2> QED
      BY <2>1, <2>2
  <1>3. \A n \in Nat : n \in E
    <2> HIDE DEF E
    <2> QED
      BY <1>1, <1>2, NumberInduction
  <1> QED
    BY <1>3, NAssumption DEF Paths

\* A directory's list has each of its children once.
LEMMA SortedOnce ==
    ASSUME NEW S \in SUBSET Paths
    PROVE  /\ Sorted(S) \in Seq(Paths)
           /\ \A v : Count(Sorted(S), v) = Bit(v \in S)
  <1> DEFINE n == Cardinality(S)
             s == Sorted(S)
  <1>1. IsFiniteSet(Paths) /\ IsFiniteSet(S) /\ n \in Nat
    <2>1. IsFiniteSet(Paths)
      BY NAssumption, FS_Interval DEF Paths
    <2> QED
      BY <2>1, FS_Subset, FS_CardinalityType
  <1>2. s \in [1..n -> S] /\ Increasing(s, n)
    BY HasOrder DEF Sorted, Increasing
  <1> HIDE DEF s
  <1>3. s \in Seq(Paths) /\ DOMAIN s = 1..n
    BY <1>1, <1>2
  <1>4. ASSUME NEW i \in 1..n, NEW j \in 1..n, s[i] = s[j] PROVE i = j
    <2> HIDE DEF n
    <2>1. s[i] \in Paths /\ s[j] \in Paths
      BY <1>2
    <2>2. s[i] \in Nat /\ s[j] \in Nat
      BY <2>1, NAssumption DEF Paths
    <2> QED
      BY <1>4, <1>2, <2>2, <1>1 DEF Increasing
  <1>5. \A v \in S : \E i \in 1..n : s[i] = v
    <2>1. s \in Injection(1..n, S)
      BY <1>2, <1>4 DEF Injection, IsInjective
    <2>2. IsFiniteSet(1..n) /\ Cardinality(1..n) = Cardinality(S)
      BY <1>1, FS_Interval
    <2>3. s \in Surjection(1..n, S)
      BY <1>1, <2>1, <2>2, FS_Injection
    <2> QED
      BY <2>3 DEF Surjection
  <1>6. ASSUME NEW v PROVE Count(s, v) = Bit(v \in S)
    <2>1. CASE v \in S
      <3>1. PICK i \in 1..n : s[i] = v
        BY <1>5, <2>1
      <3>2. Spots(s, v) = {i}
        BY <3>1, <1>3, <1>4 DEF Spots
      <3> QED
        BY <3>2, <2>1, FS_Singleton DEF Count, Bit
    <2>2. CASE v \notin S
      <3>1. Spots(s, v) = {}
        BY <2>2, <1>2, <1>3 DEF Spots
      <3> QED
        BY <3>1, <2>2, FS_EmptySet DEF Count, Bit
    <2> QED
      BY <2>1, <2>2
  <1> QED
    BY <1>3, <1>6 DEF s

\* What the walk relies on: a path's directory is a directory.
Forest ==
    /\ kind \in [Paths -> {"dir", "file", "link", "other"}]
    /\ parent \in [Paths -> 0..N]
    /\ \A p \in Paths : /\ parent[p] < p
                        /\ parent[p] # 0 => kind[parent[p]] = "dir"
    /\ args \in SUBSET Paths

\* The recursive definition of Above has a solution.
LEMMA AboveIs ==
    ASSUME Forest, NEW p \in Paths
    PROVE  Above(p) = {p} \cup IF parent[p] = 0 THEN {} ELSE Above(parent[p])
  <1> DEFINE Step(f) == [q \in Paths |->
                 {q} \cup IF parent[q] = 0 THEN {} ELSE f[parent[q]]]
             Closed(S) == \A r \in S : parent[r] # 0 => parent[r] \in S
             g == [q \in Paths |->
                 {r \in Paths : \A S \in SUBSET Paths :
                                  q \in S /\ Closed(S) => r \in S}]
             up == CHOOSE f : f = Step(f)
  <1>1. ASSUME NEW q \in Paths, parent[q] # 0 PROVE parent[q] \in Paths
    BY <1>1 DEF Forest, Paths
  <1>2. ASSUME NEW q \in Paths
        PROVE  g[q] = {q} \cup IF parent[q] = 0 THEN {} ELSE g[parent[q]]
    <2> DEFINE U == {q} \cup IF parent[q] = 0 THEN {} ELSE g[parent[q]]
    <2>1. U \subseteq Paths
      BY <1>1
    <2>2. Closed(U)
      <3> SUFFICES ASSUME NEW r \in U, parent[r] # 0 PROVE parent[r] \in U
        OBVIOUS
      <3>1. CASE r = q
        <4>1. parent[q] \in g[parent[q]]
          BY <1>1, <3>1
        <4> QED
          BY <4>1, <3>1
      <3>2. CASE r # q
        <4>1. r \in g[parent[q]] /\ parent[q] # 0
          BY <3>2
        <4>2. parent[r] \in Paths
          BY <4>1, <1>1
        <4>3. parent[r] \in g[parent[q]]
          BY <4>1, <4>2, <1>1
        <4> QED
          BY <4>1, <4>3
      <3> QED
        BY <3>1, <3>2
    <2>3. g[q] \subseteq U
      BY <2>1, <2>2
    <2>4. ASSUME NEW S \in SUBSET Paths, q \in S, Closed(S)
          PROVE  U \subseteq S
      BY <2>4, <1>1
    <2>5. U \subseteq g[q]
      BY <2>1, <2>4
    <2> QED
      BY <2>3, <2>5
  <1>3. g = Step(g)
    <2> HIDE DEF g
    <2>1. \A q \in Paths : g[q] = Step(g)[q]
      BY <1>2
    <2>2. DOMAIN g = Paths /\ g = [q \in Paths |-> g[q]]
      BY DEF g
    <2> QED
      BY <2>1, <2>2
  <1>4. up = Step(up)
    BY <1>3
  <1>5. \A q \in Paths : Above(q) = up[q]
    BY Zenon DEF Above
  <1> HIDE DEF up
  <1>6. up[p] = {p} \cup IF parent[p] = 0 THEN {} ELSE up[parent[p]]
    BY <1>4
  <1> QED
    BY <1>1, <1>5, <1>6

\* What holds of a path if it holds of all smaller ones, holds of every path.
LEMMA PathInduction ==
    ASSUME NEW S,
           \A p \in Paths : (\A q \in Paths : q < p => q \in S) => p \in S
    PROVE  \A p \in Paths : p \in S
  <1> DEFINE E == {n \in Nat : \A q \in Paths : q <= n => q \in S}
  <1>0. Paths \subseteq Nat /\ \A q \in Paths : q >= 1 /\ q <= N
    BY NAssumption DEF Paths
  <1>1. 0 \in E
    BY <1>0
  <1>2. ASSUME NEW n \in Nat, n \in E PROVE n + 1 \in E
    <2> SUFFICES ASSUME NEW q \in Paths, q <= n + 1 PROVE q \in S
      OBVIOUS
    <2>1. \A r \in Paths : r < q => r \in S
      <3> SUFFICES ASSUME NEW r \in Paths, r < q PROVE r \in S
        OBVIOUS
      <3>1. r <= n
        BY <1>0
      <3> QED
        BY <3>1, <1>2
    <2> QED
      BY <2>1
  <1>3. \A n \in Nat : n \in E
    <2> HIDE DEF E
    <2> QED
      BY <1>1, <1>2, NumberInduction
  <1>4. N \in E
    BY <1>3, NAssumption
  <1> QED
    BY <1>0, <1>4

LEMMA AboveBelow ==
    ASSUME Forest
    PROVE  \A p \in Paths : Above(p) \subseteq 1..p
  <1> DEFINE S == {p \in Paths : Above(p) \subseteq 1..p}
  <1>1. ASSUME NEW p \in Paths, \A q \in Paths : q < p => q \in S
        PROVE  p \in S
    <2>0. p \in Nat /\ p >= 1
      BY NAssumption DEF Paths
    <2>1. CASE parent[p] = 0
      <3>1. Above(p) = {p}
        BY <2>1, AboveIs
      <3> QED
        BY <3>1, <2>0
    <2>2. CASE parent[p] # 0
      <3>1. parent[p] \in Paths /\ parent[p] < p /\ parent[p] \in Nat
        BY <2>2, NAssumption DEF Forest, Paths
      <3>2. Above(parent[p]) \subseteq 1..parent[p]
        BY <3>1, <1>1
      <3>3. Above(p) = {p} \cup Above(parent[p])
        BY <2>2, AboveIs
      <3> QED
        BY <3>1, <3>2, <3>3, <2>0
    <2> QED
      BY <2>1, <2>2
  <1>2. \A p \in Paths : p \in S
    <2> HIDE DEF S
    <2> QED
      BY <1>1, PathInduction
  <1> QED
    BY <1>2

\* How often the walk comes to a path: once for each argument it is under.
Times(p) == Cardinality(args \cap Above(p))

LEMMA TimesIs ==
    ASSUME Forest, NEW p \in Paths
    PROVE  /\ Times(p) \in Nat
           /\ Times(p) = Bit(p \in args)
                         + IF parent[p] = 0 THEN 0 ELSE Times(parent[p])
  <1>1. IsFiniteSet(args)
    <2>1. IsFiniteSet(Paths) /\ args \in SUBSET Paths
      BY NAssumption, FS_Interval DEF Paths, Forest
    <2> QED
      BY <2>1, FS_Subset
  <1>2. \A S : IsFiniteSet(args \cap S) /\ Cardinality(args \cap S) \in Nat
    BY <1>1, FS_Intersection, FS_CardinalityType
  <1>3. CASE parent[p] = 0
    <2>1. Above(p) = {p}
      BY <1>3, AboveIs
    <2>2. args \cap {p} = IF p \in args THEN {p} ELSE {}
      OBVIOUS
    <2>3. Times(p) = Bit(p \in args)
      BY <2>1, <2>2, FS_EmptySet, FS_Singleton DEF Times, Bit
    <2> QED
      BY <1>2, <1>3, <2>3 DEF Times, Bit
  <1>4. CASE parent[p] # 0
    <2> DEFINE U == args \cap Above(parent[p])
    <2>1. Above(p) = {p} \cup Above(parent[p])
      BY <1>4, AboveIs
    <2>2. p \notin U
      <3>1. /\ parent[p] \in Paths /\ parent[p] < p
            /\ p \in Nat /\ parent[p] \in Nat
        BY <1>4, NAssumption DEF Forest, Paths
      <3>2. Above(parent[p]) \subseteq 1..parent[p]
        BY <3>1, AboveBelow
      <3>3. p \notin 1..parent[p]
        BY <3>1
      <3> QED
        BY <3>2, <3>3
    <2>3. args \cap Above(p) = IF p \in args THEN U \cup {p} ELSE U
      BY <2>1
    <2>4. Cardinality(U \cup {p}) = Cardinality(U) + 1
      BY <1>2, <2>2, OneMore
    <2> QED
      BY <1>2, <1>4, <2>3, <2>4 DEF Times, Bit
  <1> QED
    BY <1>3, <1>4

LEMMA AboveSame ==
    ASSUME NEW p, UNCHANGED parent
    PROVE  Above(p)' = Above(p)
  BY DEF Above

-----------------------------------------------------------------------------
(* The inductive invariant *)

\* The entries of a path that are written or on their way, its blobs, and the
\* places from which an entry of it is still to be sent.
Archived(p) == Count(out, <<"entry", p>>) + Count(entries, p)
Blobs(p) == Count(out, <<"blob", p>>)
Waiting(p) == Count(data, p) + Bit(cur = p) + Bit(job = p)

\* Only files are sent to the task.  The two have what their positions say,
\* and the command is behind the walk only when the task has ended.
Shape ==
    /\ mpc = "send" <=> cur # None
    /\ cur # None => kind[cur] = "file"
    /\ \A i \in DOMAIN data : kind[data[i]] = "file"
    /\ job # None => kind[job] = "file"
    /\ tpc \in {"copy", "send"} <=> job # None
    /\ sending <=> mpc \in {"walk", "send"}
    /\ mpc \in {"join", "write", "done"} => files = <<>>
    /\ mpc \in {"write", "done"} => tpc = "ended"
    /\ mpc = "done" => entries = <<>>
    /\ tpc = "ended" => mpc \notin {"walk", "send"} /\ data = <<>>

\* A failure drops what is in the queues.
Lossless == mpc # "failed" /\ tpc # "failed"

\* What has been found of a path so far, or is in the queue, is what there is
\* to find: the argument, and a child for each time its directory was listed.
KeptAt(p) ==
    /\ kind[p] # "other" =>
         Archived(p) + Waiting(p) + Count(files, p) =
           Bit(p \in args) + IF parent[p] = 0 THEN 0 ELSE Archived(parent[p])
    /\ kind[p] = "other" => Archived(p) = 0
    /\ Blobs(p) = IF kind[p] = "file"
                  THEN Archived(p) + Bit(tpc = "send" /\ job = p) ELSE 0

Kept == Lossless => \A p \in Paths : KeptAt(p)

\* No argument is under another.
Apart == \A p \in args : args \cap Above(p) = {p}

\* The entries in the channel keep the order, behind the written ones.
OrderedAt(p) ==
    /\ Places("entry", p) # {} =>
         \A k \in DOMAIN entries : entries[k] # parent[p]
    /\ \A i, j \in DOMAIN entries :
         entries[i] = p /\ entries[j] = parent[p] => j < i

Ordered == Lossless /\ Apart => \A p \in Paths : parent[p] # 0 => OrderedAt(p)

\* ParentsFirst, said of every path.
InOrderAt(p) ==
    \A i \in Places("entry", p), j \in Places("entry", parent[p]) : j < i

InOrder == \A p \in Paths : parent[p] # 0 => InOrderAt(p)

LEMMA ParentsFirstIs == ParentsFirst <=> (Apart => InOrder)
  BY DEF ParentsFirst, Apart, InOrder, InOrderAt

CreateInv == TypeOK /\ Forest /\ Shape /\ Kept /\ Ordered /\ ParentsFirst

-----------------------------------------------------------------------------

LEMMA ForestSame ==
    ASSUME Forest, UNCHANGED disk
    PROVE  /\ Forest'
           /\ Apart' <=> Apart
           /\ \A p \in Paths :
                parent[p] # 0 => parent[p] \in Paths /\ parent[p] # p
  <1>1. UNCHANGED <<kind, parent, args>>
    BY DEF disk
  <1>2. \A p : Above(p)' = Above(p)
    BY <1>1, AboveSame
  <1>3. \A p \in Paths : parent[p] # 0 => parent[p] \in Paths /\ parent[p] # p
    BY NAssumption DEF Forest, Paths
  <1> QED
    BY <1>1, <1>2, <1>3 DEF Forest, Apart

\* Every count is a number.
LEMMA Counts ==
    ASSUME TypeOK, NEW v
    PROVE  /\ \A w : Count(out, <<w, v>>) \in Nat
           /\ Count(entries, v) \in Nat
           /\ Count(data, v) \in Nat
           /\ Count(files, v) \in Nat
  BY CountType DEF TypeOK

\* The walk comes to a path no more often than it is under an argument.
LEMMA NotOften ==
    ASSUME TypeOK, Forest, Kept, Lossless
    PROVE  \A p \in Paths : kind[p] # "other" =>
             Archived(p) + Waiting(p) + Count(files, p) <= Times(p)
  <1> DEFINE S == {p \in Paths : kind[p] # "other" =>
             Archived(p) + Waiting(p) + Count(files, p) <= Times(p)}
  <1>1. ASSUME NEW p \in Paths, \A q \in Paths : q < p => q \in S
        PROVE  p \in S
    <2> SUFFICES ASSUME kind[p] # "other"
                 PROVE  Archived(p) + Waiting(p) + Count(files, p) <= Times(p)
      OBVIOUS
    <2>1. Archived(p) + Waiting(p) + Count(files, p) =
           Bit(p \in args) + IF parent[p] = 0 THEN 0 ELSE Archived(parent[p])
      BY DEF Kept, KeptAt
    <2>2. Times(p) = Bit(p \in args)
                     + IF parent[p] = 0 THEN 0 ELSE Times(parent[p])
      BY TimesIs
    <2>3. CASE parent[p] = 0
      BY <2>1, <2>2, <2>3 DEF Bit
    <2>4. CASE parent[p] # 0
      <3> DEFINE q == parent[p]
      <3>1. q \in Paths /\ q < p /\ kind[q] = "dir"
        BY <2>4, NAssumption DEF Forest, Paths
      <3>2. Archived(q) + Waiting(q) + Count(files, q) <= Times(q)
        BY <3>1, <1>1
      <3>3. /\ Archived(q) \in Nat /\ Waiting(q) \in Nat
            /\ Count(files, q) \in Nat /\ Times(q) \in Nat
        BY <3>1, Counts, TimesIs DEF Archived, Waiting, Bit
      <3> HIDE DEF q
      <3>4. Archived(q) <= Times(q)
        BY <3>2, <3>3
      <3>5. Archived(p) + Waiting(p) + Count(files, p)
              = Bit(p \in args) + Archived(q)
        BY <2>1, <2>4 DEF q
      <3>6. Times(p) = Bit(p \in args) + Times(q)
        BY <2>2, <2>4 DEF q
      <3> QED
        BY <3>3, <3>4, <3>5, <3>6 DEF Bit
    <2> QED
      BY <2>3, <2>4
  <1>2. \A p \in Paths : p \in S
    <2> HIDE DEF S
    <2> QED
      BY <1>1, PathInduction
  <1> QED
    BY <1>2

\* If no argument is under another, the walk comes to every path once at most,
\* and to no directory of an argument.
LEMMA AtMostOnce ==
    ASSUME Forest, Apart
    PROVE  \A p \in Paths :
             /\ Times(p) <= 1
             /\ p \in args /\ parent[p] # 0 => Times(parent[p]) = 0
  <1> DEFINE S == {p \in Paths : Times(p) <= 1}
  <1>1. ASSUME NEW p \in Paths, p \in args
        PROVE  Times(p) = 1 /\ (parent[p] # 0 => Times(parent[p]) = 0)
    <2>1. Times(p) = 1
      BY <1>1, FS_Singleton DEF Apart, Times
    <2>2. ASSUME parent[p] # 0 PROVE Times(parent[p]) = 0
      <3>1. parent[p] \in Paths
        BY <2>2, NAssumption DEF Forest, Paths
      <3>2. Times(p) = 1 + Times(parent[p]) /\ Times(parent[p]) \in Nat
        BY <3>1, <2>2, <1>1, TimesIs DEF Bit
      <3> QED
        BY <2>1, <3>2
    <2> QED
      BY <2>1, <2>2
  <1>2. ASSUME NEW p \in Paths, \A q \in Paths : q < p => q \in S
        PROVE  p \in S
    <2>1. CASE p \in args
      BY <2>1, <1>1
    <2>2. CASE p \notin args /\ parent[p] = 0
      BY <2>2, TimesIs DEF Bit
    <2>3. CASE p \notin args /\ parent[p] # 0
      <3>1. parent[p] \in Paths /\ parent[p] < p
        BY <2>3, NAssumption DEF Forest, Paths
      <3>2. Times(p) = 0 + Times(parent[p]) /\ Times(parent[p]) \in Nat
        BY <3>1, <2>3, TimesIs DEF Bit
      <3> QED
        BY <3>1, <3>2, <1>2
    <2> QED
      BY <2>1, <2>2, <2>3
  <1>3. \A p \in Paths : p \in S
    <2> HIDE DEF S
    <2> QED
      BY <1>2, PathInduction
  <1> QED
    BY <1>1, <1>3

\* What is still in the queue has not been seen before, nor its children.
LEMMA Unseen ==
    ASSUME TypeOK, Forest, Kept, Lossless, Apart,
           NEW p \in Paths, Count(files, p) > 0, kind[p] # "other",
           NEW q \in Paths, parent[q] = p
    PROVE  Archived(p) = 0 /\ Archived(q) = 0
  <1>1. /\ Archived(p) \in Nat /\ Waiting(p) \in Nat /\ Count(files, p) \in Nat
        /\ Archived(q) \in Nat /\ Waiting(q) \in Nat /\ Count(files, q) \in Nat
        /\ Times(p) \in Nat
    BY Counts, TimesIs DEF Archived, Waiting, Bit
  <1>2. Archived(p) + Waiting(p) + Count(files, p) <= Times(p) /\ Times(p) <= 1
    BY NotOften, AtMostOnce
  <1>3. Archived(p) = 0 /\ Times(p) = 1
    BY <1>1, <1>2
  <1>4. p # 0
    BY NAssumption DEF Paths
  <1>5. q \notin args
    BY <1>3, <1>4, AtMostOnce
  <1>6. CASE kind[q] = "other"
    BY <1>3, <1>6 DEF Kept, KeptAt
  <1>7. CASE kind[q] # "other"
    <2>1. Archived(q) + Waiting(q) + Count(files, q) = 0 + Archived(p)
      BY <1>4, <1>5, <1>7 DEF Kept, KeptAt, Bit
    <2> QED
      BY <2>1, <1>1, <1>3
  <1> QED
    BY <1>3, <1>6, <1>7

-----------------------------------------------------------------------------
(* Every step keeps it *)

\* A step that writes nothing and sends no entry keeps the order.
LEMMA SameOrder ==
    ASSUME Forest, Ordered, ParentsFirst, Lossless' => Lossless,
           UNCHANGED <<disk, out, entries>>
    PROVE  Forest' /\ Ordered' /\ ParentsFirst'
  <1>1. Forest' /\ (Apart' <=> Apart)
    BY ForestSame
  <1>2. UNCHANGED <<parent, out, entries>>
    BY DEF disk
  <1>3. \A p : Places("entry", p)' = Places("entry", p)
    BY <1>2 DEF Places
  <1>4. Ordered'
    BY <1>1, <1>2, <1>3 DEF Ordered, OrderedAt
  <1>5. InOrder' <=> InOrder
    BY <1>2 DEF InOrder, InOrderAt, Places
  <1>6. ParentsFirst'
    BY <1>1, <1>5, ParentsFirstIs, PTL
  <1> QED
    BY <1>1, <1>4, <1>6

LEMMA FailInv == CreateInv /\ Fail /\ mpc # "send" => CreateInv'
  <1> SUFFICES ASSUME CreateInv, Fail, mpc # "send" PROVE CreateInv'
    OBVIOUS
  <1>1. ~Lossless'
    BY DEF Fail, Lossless
  <1>2. TypeOK'
    BY DEF CreateInv, TypeOK, Fail
  <1>3. Forest' /\ Ordered' /\ ParentsFirst'
    BY <1>1, SameOrder DEF CreateInv, Fail
  <1>4. Shape'
    BY DEF CreateInv, Shape, Fail, disk
  <1> QED
    BY <1>1, <1>2, <1>3, <1>4 DEF CreateInv, Kept

LEMMA SendInv == CreateInv /\ Send => CreateInv'
  <1> SUFFICES ASSUME CreateInv, Send PROVE CreateInv'
    OBVIOUS
  <1>0. cur \in Paths /\ kind[cur] = "file" /\ data \in Seq(Paths)
    BY DEF CreateInv, TypeOK, Shape, Send
  <1>1. TypeOK'
    <2>1. /\ data' \in Seq(Paths) /\ Len(data') = Len(data) + 1
          /\ Len(data) \in Nat
      BY <1>0 DEF Send
    <2>2. Len(data') <= Cap
      BY <2>1, CapAssumption DEF Send
    <2> QED
      BY <2>1, <2>2 DEF CreateInv, TypeOK, Send
  <1>2. Forest' /\ Ordered' /\ ParentsFirst'
    BY SameOrder DEF CreateInv, Send, Lossless
  <1>3. Shape'
    <2>1. \A i \in DOMAIN data' : kind[data'[i]] = "file"
      BY <1>0 DEF CreateInv, Shape, Send
    <2> QED
      BY <2>1, <1>0 DEF CreateInv, Shape, Send, disk, Receiving
  <1>4. Kept'
    <2> SUFFICES ASSUME Lossless', NEW p \in Paths PROVE KeptAt(p)'
      BY DEF Kept
    <2>1. KeptAt(p)
      BY DEF CreateInv, Kept, Lossless, Send
    <2>2. Count(data', p) = Count(data, p) + Bit(cur = p)
      BY <1>0, CountAppend DEF Send
    <2>3. cur' # p
      BY NoneAssumption DEF Send, Paths
    <2>4. Count(data, p) \in Nat
      BY Counts DEF CreateInv
    <2>5. Waiting(p)' = Waiting(p)
      BY <2>2, <2>3, <2>4 DEF Waiting, Bit, Send
    <2>6. UNCHANGED <<kind, parent, args, files, entries, out, tpc, job>>
      BY DEF Send, disk
    <2> QED
      BY <2>1, <2>5, <2>6 DEF KeptAt, Archived, Blobs
  <1> QED
    BY <1>1, <1>2, <1>3, <1>4 DEF CreateInv

LEMMA SendClosedInv == CreateInv /\ SendClosed => CreateInv'
  <1> SUFFICES ASSUME CreateInv, SendClosed PROVE CreateInv'
    OBVIOUS
  <1>0. tpc = "failed"
    BY DEF CreateInv, Shape, SendClosed, Receiving
  <1>1. ~Lossless'
    BY <1>0 DEF SendClosed, Lossless
  <1>2. TypeOK'
    BY DEF CreateInv, TypeOK, SendClosed
  <1>3. Forest' /\ Ordered' /\ ParentsFirst'
    BY <1>1, SameOrder DEF CreateInv, SendClosed
  <1>4. Shape'
    BY <1>0 DEF CreateInv, Shape, SendClosed, disk
  <1> QED
    BY <1>1, <1>2, <1>3, <1>4 DEF CreateInv, Kept

\* A step that moves no path.
LEMMA StillInv ==
    ASSUME CreateInv, UNCHANGED <<disk, files, cur, data, entries, job, out>>,
           tpc' = "send" <=> tpc = "send",
           Lossless' => Lossless,
           TypeOK', Shape'
    PROVE  CreateInv'
  <1>1. Forest' /\ Ordered' /\ ParentsFirst'
    BY SameOrder DEF CreateInv
  <1>2. Kept'
    BY DEF CreateInv, Kept, KeptAt, Archived, Waiting, Blobs, disk
  <1> QED
    BY <1>1, <1>2 DEF CreateInv

LEMMA EndWalkInv == CreateInv /\ EndWalk => CreateInv'
  <1> SUFFICES ASSUME CreateInv, EndWalk PROVE CreateInv'
    OBVIOUS
  <1>1. TypeOK'
    BY DEF CreateInv, TypeOK, EndWalk
  <1>2. Shape'
    BY DEF CreateInv, Shape, EndWalk, disk
  <1> QED
    BY <1>1, <1>2, StillInv DEF EndWalk, Lossless

LEMMA JoinInv == CreateInv /\ Join => CreateInv'
  <1> SUFFICES ASSUME CreateInv, Join PROVE CreateInv'
    OBVIOUS
  <1>1. TypeOK'
    BY DEF CreateInv, TypeOK, Join
  <1>2. Shape'
    BY DEF CreateInv, Shape, Join, disk
  <1> QED
    BY <1>1, <1>2, StillInv DEF Join, Lossless

LEMMA ReturnInv == CreateInv /\ Return => CreateInv'
  <1> SUFFICES ASSUME CreateInv, Return PROVE CreateInv'
    OBVIOUS
  <1>1. TypeOK'
    BY DEF CreateInv, TypeOK, Return
  <1>2. Shape'
    BY DEF CreateInv, Shape, Return, disk
  <1> QED
    BY <1>1, <1>2, StillInv DEF Return, Lossless

LEMMA TaskEndInv == CreateInv /\ TaskEnd => CreateInv'
  <1> SUFFICES ASSUME CreateInv, TaskEnd PROVE CreateInv'
    OBVIOUS
  <1>1. TypeOK'
    BY DEF CreateInv, TypeOK, TaskEnd
  <1>2. Shape'
    BY DEF CreateInv, Shape, TaskEnd, disk
  <1> QED
    BY <1>1, <1>2, StillInv DEF TaskEnd, Lossless

LEMMA TaskFailInv == CreateInv /\ TaskFail => CreateInv'
  <1> SUFFICES ASSUME CreateInv, TaskFail PROVE CreateInv'
    OBVIOUS
  <1>1. ~Lossless'
    BY DEF TaskFail, Lossless
  <1>2. TypeOK'
    BY CapAssumption DEF CreateInv, TypeOK, TaskFail
  <1>3. Forest' /\ Ordered' /\ ParentsFirst'
    BY <1>1, SameOrder DEF CreateInv, TaskFail
  <1>4. Shape'
    BY DEF CreateInv, Shape, TaskFail, disk
  <1> QED
    BY <1>1, <1>2, <1>3, <1>4 DEF CreateInv, Kept

LEMMA TaskRecvInv == CreateInv /\ TaskRecv => CreateInv'
  <1> SUFFICES ASSUME CreateInv, TaskRecv PROVE CreateInv'
    OBVIOUS
  <1>0. /\ data \in Seq(Paths) /\ data # <<>> /\ Head(data) \in Paths
        /\ Tail(data) \in Seq(Paths) /\ Len(Tail(data)) = Len(data) - 1
        /\ Len(data) \in Nat
    BY DEF CreateInv, TypeOK, TaskRecv
  <1>1. TypeOK'
    BY <1>0, CapAssumption DEF CreateInv, TypeOK, TaskRecv
  <1>2. Forest' /\ Ordered' /\ ParentsFirst'
    BY SameOrder DEF CreateInv, TaskRecv, Lossless
  <1>3. Shape'
    <2>1. /\ kind[Head(data)] = "file"
          /\ \A i \in DOMAIN Tail(data) : kind[Tail(data)[i]] = "file"
      BY <1>0 DEF CreateInv, Shape
    <2>2. Head(data) # None
      BY <1>0, NoneAssumption DEF Paths
    <2> QED
      BY <2>1, <2>2 DEF CreateInv, Shape, TaskRecv, disk
  <1>4. Kept'
    <2> SUFFICES ASSUME Lossless', NEW p \in Paths PROVE KeptAt(p)'
      BY DEF Kept
    <2>1. KeptAt(p)
      BY DEF CreateInv, Kept, Lossless, TaskRecv
    <2>2. Count(data, p) = Count(data', p) + Bit(Head(data) = p)
      BY <1>0, CountTail DEF TaskRecv
    <2>3. job # p
      BY NoneAssumption DEF TaskRecv, Paths, CreateInv, Shape
    <2>4. Count(data', p) \in Nat
      BY <1>1, CountType DEF TypeOK
    <2>5. Waiting(p)' = Waiting(p)
      BY <2>2, <2>3, <2>4 DEF Waiting, Bit, TaskRecv
    <2>6. /\ UNCHANGED <<kind, parent, args, files, entries, out>>
          /\ tpc = "recv" /\ tpc' = "copy"
      BY DEF TaskRecv, disk
    <2> QED
      BY <2>1, <2>5, <2>6 DEF KeptAt, Archived, Blobs
  <1> QED
    BY <1>1, <1>2, <1>3, <1>4 DEF CreateInv

\* A path is visited: its entry or it itself goes on its way, and the children
\* of a directory go into the queue.
LEMMA VisitCounts ==
    ASSUME CreateInv, Visit
    PROVE  /\ files' \in Seq(Paths)
           /\ \A q \in Paths :
                Count(files', q) + Bit(Head(files) = q)
                  = Count(files, q)
                    + Bit(kind[Head(files)] = "dir" /\ parent[q] = Head(files))
  <1> DEFINE p == Head(files)
             Children == {c \in Paths : parent[c] = p}
             nested == Sorted(Children)
  <1>1. files \in Seq(Paths) /\ files # <<>> /\ Tail(files) \in Seq(Paths)
    BY DEF CreateInv, TypeOK, Visit
  <1>2. nested \in Seq(Paths) /\ \A v : Count(nested, v) = Bit(v \in Children)
    BY SortedOnce
  <1>3. files' = IF kind[p] = "dir" THEN Tail(files) \o nested ELSE Tail(files)
    BY DEF Visit
  <1>4. ASSUME NEW q \in Paths
        PROVE  Count(files', q) + Bit(p = q)
                 = Count(files, q) + Bit(kind[p] = "dir" /\ parent[q] = p)
    <2>1. Count(files, q) = Count(Tail(files), q) + Bit(p = q)
      BY <1>1, CountTail
    <2>2. Count(Tail(files), q) \in Nat
      BY <1>1, CountType
    <2>3. CASE kind[p] = "dir"
      <3>1. Count(files', q) = Count(Tail(files), q) + Bit(q \in Children)
        <4> HIDE DEF nested
        <4>1. Count(Tail(files) \o nested, q)
                = Count(Tail(files), q) + Count(nested, q)
          BY <1>1, <1>2, CountConcat
        <4> QED
          BY <4>1, <1>2, <1>3, <2>3
      <3>2. q \in Children <=> parent[q] = p
        OBVIOUS
      <3> HIDE DEF p, Children
      <3> QED
        BY <2>1, <2>2, <2>3, <3>1, <3>2 DEF Bit
    <2>4. CASE kind[p] # "dir"
      <3>1. files' = Tail(files)
        BY <1>3, <2>4
      <3> HIDE DEF p
      <3> QED
        BY <2>1, <2>2, <2>4, <3>1 DEF Bit
    <2> QED
      BY <2>3, <2>4
  <1>5. files' \in Seq(Paths)
    <2> HIDE DEF nested
    <2>1. Tail(files) \o nested \in Seq(Paths)
      BY <1>1, <1>2
    <2> QED
      BY <1>1, <1>3, <2>1
  <1> QED
    BY <1>4, <1>5

\* An entry that is sent last keeps the order if its children have none.
LEMMA SentInOrder ==
    ASSUME Forest, TypeOK, Ordered, ParentsFirst, Lossless' => Lossless,
           UNCHANGED <<disk, out>>,
           NEW p \in Paths, entries' = Append(entries, p),
           Lossless /\ Apart =>
             \A q \in Paths : parent[q] = p => Archived(q) = 0
    PROVE  Forest' /\ Ordered' /\ ParentsFirst'
  <1>0. /\ Forest' /\ (Apart' <=> Apart) /\ UNCHANGED <<parent, out>>
        /\ \A q \in Paths :
             parent[q] # 0 => parent[q] \in Paths /\ parent[q] # q
    BY ForestSame DEF disk
  <1>1. InOrder' <=> InOrder
    BY <1>0 DEF InOrder, InOrderAt, Places
  <1>2. ParentsFirst'
    BY <1>0, <1>1, ParentsFirstIs, PTL
  <1>3. Ordered'
    <2> SUFFICES ASSUME Lossless', Apart', NEW q \in Paths, parent'[q] # 0
                 PROVE  OrderedAt(q)'
      BY DEF Ordered
    <2>1. OrderedAt(q) /\ parent'[q] = parent[q] /\ parent[q] # q
          /\ parent[q] \in Paths
      BY <1>0 DEF Ordered
    <2>2. /\ entries \in Seq(Paths) /\ Len(entries) \in Nat
          /\ DOMAIN entries = 1..Len(entries)
          /\ DOMAIN entries' = 1..(Len(entries) + 1)
          /\ entries'[Len(entries) + 1] = p
          /\ \A k \in 1..Len(entries) : entries'[k] = entries[k]
      BY DEF TypeOK
    <2>3. parent[q] = p => /\ Places("entry", q) = {}
                           /\ \A k \in DOMAIN entries : entries[k] # q
      <3> SUFFICES ASSUME parent[q] = p
                   PROVE  /\ Places("entry", q) = {}
                          /\ \A k \in DOMAIN entries : entries[k] # q
        OBVIOUS
      <3>1. Archived(q) = 0
        BY <1>0
      <3>2. Count(out, <<"entry", q>>) = 0 /\ Count(entries, q) = 0
        BY <3>1, Counts DEF Archived
      <3>3. out \in Seq({"blob", "entry"} \X Paths) /\ entries \in Seq(Paths)
        BY DEF TypeOK
      <3>4. \A i \in DOMAIN out : out[i] # <<"entry", q>>
        BY <3>2, <3>3, CountType
      <3>5. \A k \in DOMAIN entries : entries[k] # q
        BY <3>2, <3>3, CountType
      <3> QED
        BY <3>4, <3>5 DEF Places
    <2>4. Places("entry", q)' = Places("entry", q)
      BY <1>0 DEF Places
    <2>5. ASSUME Places("entry", q)' # {}, NEW k \in DOMAIN entries'
          PROVE  entries'[k] # parent[q]
      <3>1. p # parent[q]
        BY <2>3, <2>4, <2>5
      <3>2. \A i \in DOMAIN entries : entries[i] # parent[q]
        BY <2>1, <2>4, <2>5 DEF OrderedAt
      <3>3. k \in 1..Len(entries) \/ k = Len(entries) + 1
        BY <2>2
      <3> QED
        BY <2>2, <3>1, <3>2, <3>3
    <2>6. ASSUME NEW i \in DOMAIN entries', NEW j \in DOMAIN entries',
                 entries'[i] = q, entries'[j] = parent[q]
          PROVE  j < i
      <3>1. CASE i \in 1..Len(entries) /\ j \in 1..Len(entries)
        <4>1. entries[i] = q /\ entries[j] = parent[q]
          BY <3>1, <2>2, <2>6
        <4> QED
          BY <4>1, <3>1, <2>1, <2>2 DEF OrderedAt
      <3>2. CASE i \in 1..Len(entries) /\ j = Len(entries) + 1
        <4>1. parent[q] = p /\ entries[i] = q
          BY <3>2, <2>2, <2>6
        <4> QED
          BY <4>1, <3>2, <2>2, <2>3
      <3>3. CASE i = Len(entries) + 1
        <4>1. j # i
          BY <2>1, <2>6
        <4> QED
          BY <4>1, <3>3, <2>2
      <3> QED
        BY <3>1, <3>2, <3>3, <2>2
    <2> QED
      BY <2>1, <2>5, <2>6 DEF OrderedAt
  <1> QED
    BY <1>0, <1>2, <1>3

LEMMA VisitInv == CreateInv /\ Visit => CreateInv'
  <1> SUFFICES ASSUME CreateInv, Visit PROVE CreateInv'
    OBVIOUS
  <1> DEFINE p == Head(files)
  <1>0. /\ files \in Seq(Paths) /\ files # <<>> /\ p \in Paths
        /\ entries \in Seq(Paths)
        /\ kind[p] \in {"dir", "file", "link", "other"}
        /\ mpc = "walk" /\ cur = None
    BY DEF CreateInv, TypeOK, Shape, Forest, Visit
  <1>1. /\ entries' = IF kind[p] \in {"dir", "link"} THEN Append(entries, p)
                      ELSE entries
        /\ mpc' = IF kind[p] = "file" THEN "send" ELSE "walk"
        /\ cur' = IF kind[p] = "file" THEN p ELSE None
        /\ UNCHANGED <<kind, parent, args>>
        /\ UNCHANGED <<data, sending, tpc, job, out, flushed>>
        /\ UNCHANGED disk
    BY <1>0 DEF Visit, disk
  <1>2. files' \in Seq(Paths)
    BY VisitCounts
  <1>7. Lossless' => Lossless
    BY <1>0, <1>1 DEF Lossless
  <1>3. TypeOK'
    <2> HIDE DEF p
    <2>1. entries' \in Seq(Paths)
      BY <1>0, <1>1
    <2> QED
      BY <1>0, <1>1, <1>2, <2>1 DEF CreateInv, TypeOK
  <1>4. Shape'
    <2>1. p # None
      BY <1>0, NoneAssumption DEF Paths
    <2> HIDE DEF p
    <2> QED
      BY <1>0, <1>1, <2>1 DEF CreateInv, Shape
  <1>5. Forest' /\ Ordered' /\ ParentsFirst'
    <2>1. CASE kind[p] \notin {"dir", "link"}
      <3>1. UNCHANGED <<disk, out, entries>>
        BY <1>1, <2>1
      <3> QED
        BY <3>1, <1>7, SameOrder DEF CreateInv
    <2>2. CASE kind[p] \in {"dir", "link"}
      <3>1. ASSUME Lossless, Apart, NEW q \in Paths, parent[q] = p
            PROVE  Archived(q) = 0
        <4>1. Count(files, p) > 0
          <5>1. Count(files, p) \in Nat /\ files[1] = p /\ 1 \in DOMAIN files
            BY <1>0, CountType
          <5> HIDE DEF p
          <5>2. Count(files, p) # 0
            BY <5>1, <1>0, CountType
          <5> QED
            BY <5>1, <5>2
        <4> HIDE DEF p
        <4> QED
          BY <1>0, <3>1, <2>2, <4>1, Unseen DEF CreateInv
      <3> HIDE DEF p
      <3> QED
        BY <1>0, <1>1, <1>7, <2>2, <3>1, SentInOrder DEF CreateInv
    <2> QED
      BY <2>1, <2>2
  <1>6. Kept'
    <2> SUFFICES ASSUME Lossless', NEW q \in Paths PROVE KeptAt(q)'
      BY DEF Kept
    <2>1. KeptAt(q) /\ (parent[q] # 0 => parent[q] \in Paths)
      <3>1. KeptAt(q)
        BY <1>7 DEF CreateInv, Kept
      <3> QED
        BY <3>1, <1>1, ForestSame DEF CreateInv
    <2>2. Count(files', q) + Bit(p = q)
            = Count(files, q) + Bit(kind[p] = "dir" /\ parent[q] = p)
      BY VisitCounts
    <2>3. \A r : Archived(r)' = Archived(r)
                                + Bit(kind[p] \in {"dir", "link"} /\ p = r)
      <3> SUFFICES ASSUME NEW r
                   PROVE  Archived(r)' = Archived(r)
                                + Bit(kind[p] \in {"dir", "link"} /\ p = r)
        OBVIOUS
      <3>1. Count(out, <<"entry", r>>) \in Nat /\ Count(entries, r) \in Nat
        BY Counts DEF CreateInv
      <3>2. Count(Append(entries, p), r) = Count(entries, r) + Bit(p = r)
        BY <1>0, CountAppend
      <3> HIDE DEF p
      <3>3. Count(entries', r) = Count(entries, r)
                                + Bit(kind[p] \in {"dir", "link"} /\ p = r)
        BY <1>1, <3>1, <3>2 DEF Bit
      <3> QED
        BY <1>1, <3>1, <3>3 DEF Archived, Bit
    <2>4. Waiting(q)' = Waiting(q) + Bit(kind[p] = "file" /\ p = q)
      <3>1. Count(data, q) \in Nat /\ None # q
        BY Counts, NoneAssumption DEF CreateInv, Paths
      <3> HIDE DEF p
      <3> QED
        BY <1>0, <1>1, <3>1 DEF Waiting, Bit
    <2>5. Blobs(q)' = Blobs(q)
      BY <1>1 DEF Blobs
    <2>6. /\ Archived(q) \in Nat /\ Waiting(q) \in Nat
          /\ Count(files, q) \in Nat /\ Count(files', q) \in Nat
          /\ parent[q] # 0 => Archived(parent[q]) \in Nat
                              /\ kind[parent[q]] = "dir"
      <3>1. Count(files', q) \in Nat
        BY <1>2, CountType
      <3> QED
        BY <3>1, <2>1, Counts DEF Archived, Waiting, Bit, CreateInv, Forest
    <2> HIDE DEF p
    <2>7. p # 0
      BY <1>0, NAssumption DEF Paths
    <2>8. ASSUME kind[q] # "other"
          PROVE  Archived(q)' + Waiting(q)' + Count(files', q)
                  = Bit(q \in args)
                    + IF parent[q] = 0 THEN 0 ELSE Archived(parent[q])'
      <3>1. Archived(q) + Waiting(q) + Count(files, q) =
              Bit(q \in args) + IF parent[q] = 0 THEN 0 ELSE Archived(parent[q])
        BY <2>1, <2>8 DEF KeptAt
      <3>2. Archived(q)' + Waiting(q)' = Archived(q) + Waiting(q) + Bit(p = q)
        BY <1>0, <2>3, <2>4, <2>6, <2>8 DEF Bit
      <3>3. CASE parent[q] = 0
        <4>1. Bit(kind[p] = "dir" /\ parent[q] = p) = 0
          BY <3>3, <2>7 DEF Bit
        <4> QED
          BY <3>1, <3>2, <3>3, <4>1, <2>2, <2>6 DEF Bit
      <3>4. CASE parent[q] # 0
        <4>1. Archived(parent[q])' = Archived(parent[q])
                + Bit(kind[p] = "dir" /\ parent[q] = p)
          <5>1. Archived(parent[q])' = Archived(parent[q])
                + Bit(kind[p] \in {"dir", "link"} /\ p = parent[q])
            <6> DEFINE r == parent[q]
            <6>1. r = parent'[q]
              BY <1>1
            <6>2. Count(out', <<"entry", r>>) + Count(entries', r)
                    = Archived(r) + Bit(kind[p] \in {"dir", "link"} /\ p = r)
              BY <2>3 DEF Archived
            <6> QED
              BY <6>1, <6>2 DEF Archived
          <5> QED
            BY <5>1, <2>6, <3>4 DEF Bit
        <4> QED
          BY <3>1, <3>2, <3>4, <4>1, <2>2, <2>6 DEF Bit
      <3> QED
        BY <3>3, <3>4
    <2>9. kind[q] = "other" => Archived(q)' = 0
      BY <2>1, <2>3, <2>6 DEF KeptAt, Bit
    <2>10. kind[q] = "file" => Archived(q)' = Archived(q)
      BY <2>3, <2>6 DEF Bit
    <2> QED
      BY <1>1, <2>1, <2>5, <2>8, <2>9, <2>10 DEF KeptAt
  <1> QED
    BY <1>3, <1>4, <1>5, <1>6 DEF CreateInv

\* A record is counted as itself.
LEMMA EmitCounts ==
    ASSUME TypeOK, NEW w \in {"blob", "entry"}, NEW p \in Paths, Emit(<<w, p>>)
    PROVE  /\ out' \in Seq({"blob", "entry"} \X Paths)
           /\ flushed' \in 0..Len(out')
           /\ \A x, q : Count(out', <<x, q>>)
                          = Count(out, <<x, q>>) + Bit(w = x /\ p = q)
           /\ \A x, q : Places(x, q)' =
                          IF w = x /\ p = q
                          THEN Places(x, q) \cup {Len(out) + 1}
                          ELSE Places(x, q)
           /\ \A x, q : Places(x, q) \subseteq 1..Len(out)
  <1>1. /\ out \in Seq({"blob", "entry"} \X Paths) /\ flushed \in 0..Len(out)
        /\ <<w, p>> \in {"blob", "entry"} \X Paths
        /\ out' = Append(out, <<w, p>>)
        /\ flushed' \in {flushed, Len(out), Len(out) + 1}
    BY DEF TypeOK, Emit
  <1>2. out' \in Seq({"blob", "entry"} \X Paths) /\ flushed' \in 0..Len(out')
    <2>1. Len(out) \in Nat /\ Len(out') = Len(out) + 1
      BY <1>1
    <2>2. flushed' \in 0..(Len(out) + 1)
      BY <1>1, <2>1
    <2>3. out' \in Seq({"blob", "entry"} \X Paths)
      BY <1>1
    <2> QED
      BY <2>1, <2>2, <2>3
  <1>3. ASSUME NEW x, NEW q
        PROVE  /\ Count(out', <<x, q>>)
                    = Count(out, <<x, q>>) + Bit(w = x /\ p = q)
               /\ Places(x, q)' = IF w = x /\ p = q
                    THEN Places(x, q) \cup {Len(out) + 1} ELSE Places(x, q)
               /\ Places(x, q) \subseteq 1..Len(out)
    <2>1. <<w, p>> = <<x, q>> <=> w = x /\ p = q
      OBVIOUS
    <2>2. Count(out', <<x, q>>)
            = Count(out, <<x, q>>) + Bit(<<w, p>> = <<x, q>>)
      <3> DEFINE R == {"blob", "entry"} \X Paths
                 r == <<w, p>>
                 v == <<x, q>>
      <3>1. out \in Seq(R) /\ r \in R /\ out' = Append(out, r)
        BY <1>1
      <3>2. Count(Append(out, r), v) = Count(out, v) + Bit(r = v)
        <4> HIDE DEF R, r, v
        <4> QED
          BY <3>1, CountAppend
      <3> QED
        BY <3>1, <3>2
    <2>3. Places(x, q) = {i \in 1..Len(out) : out[i] = <<x, q>>}
      BY <1>1 DEF Places
    <2>4. /\ Len(out) \in Nat /\ Len(out') = Len(out) + 1
          /\ DOMAIN out' = 1..(Len(out) + 1)
          /\ out'[Len(out) + 1] = <<w, p>>
          /\ \A i \in 1..Len(out) : out'[i] = out[i]
      BY <1>1
    <2>5. Places(x, q)' = {i \in 1..(Len(out) + 1) : out'[i] = <<x, q>>}
      BY <2>4 DEF Places
    <2>6. 1..(Len(out) + 1) = 1..Len(out) \cup {Len(out) + 1}
      BY <2>4
    <2> QED
      BY <2>1, <2>2, <2>3, <2>4, <2>5, <2>6
  <1> QED
    BY <1>2, <1>3

LEMMA TaskCopyInv == CreateInv /\ TaskCopy => CreateInv'
  <1> SUFFICES ASSUME CreateInv, TaskCopy PROVE CreateInv'
    OBVIOUS
  <1>0. TypeOK /\ job \in Paths /\ Emit(<<"blob", job>>) /\ kind[job] = "file"
    BY DEF CreateInv, TypeOK, Shape, TaskCopy
  <1>1. /\ out' \in Seq({"blob", "entry"} \X Paths) /\ flushed' \in 0..Len(out')
        /\ \A q : Count(out', <<"entry", q>>) = Count(out, <<"entry", q>>) + 0
        /\ \A q : Count(out', <<"blob", q>>)
                    = Count(out, <<"blob", q>>) + Bit(job = q)
        /\ \A q : Places("entry", q)' = Places("entry", q)
    BY <1>0, EmitCounts DEF Bit
  <1>2. TypeOK'
    BY <1>1 DEF CreateInv, TypeOK, TaskCopy
  <1>3. Shape'
    BY DEF CreateInv, Shape, TaskCopy, disk
  <1>4. /\ Forest' /\ (Apart' <=> Apart) /\ UNCHANGED <<kind, parent, args>>
        /\ UNCHANGED <<files, cur, data, job, entries>>
        /\ (Lossless' => Lossless)
    BY ForestSame DEF CreateInv, TaskCopy, disk, Lossless
  <1>5. Ordered'
    BY <1>1, <1>4 DEF CreateInv, Ordered, OrderedAt
  <1>6. ParentsFirst'
    <2>1. \A q : parent'[q] = parent[q]
      BY <1>4
    <2>2. ASSUME NEW q \in Paths
          PROVE  InOrderAt(q)' <=> InOrderAt(q)
      <3>1. Places("entry", parent[q])' = Places("entry", parent[q])
        <4>1. PICK r : r = parent[q] /\ r = parent'[q]
          BY <1>4
        <4>2. Places("entry", r)' = Places("entry", r)
          BY <1>1
        <4> QED
          BY <4>1, <4>2 DEF Places
      <3> QED
        BY <1>1, <3>1 DEF InOrderAt
    <2>3. InOrder' <=> InOrder
      BY <1>4, <2>2 DEF InOrder
    <2> QED
      BY <1>4, <2>3, ParentsFirstIs, PTL DEF CreateInv
  <1>7. Kept'
    <2> SUFFICES ASSUME Lossless', NEW q \in Paths PROVE KeptAt(q)'
      BY DEF Kept
    <2>1. KeptAt(q)
      BY <1>4 DEF CreateInv, Kept
    <2>2. \A r : Archived(r)' = Archived(r)
      <3> SUFFICES ASSUME NEW r PROVE Archived(r)' = Archived(r)
        OBVIOUS
      <3>1. Count(out, <<"entry", r>>) \in Nat
        BY <1>0, Counts
      <3>2. Count(out', <<"entry", r>>) = Count(out, <<"entry", r>>)
        BY <1>1, <3>1
      <3> QED
        BY <1>4, <3>2 DEF Archived
    <2>3. Waiting(q)' = Waiting(q)
      BY <1>4 DEF Waiting
    <2>4. Blobs(q)' = Blobs(q) + Bit(job = q)
      BY <1>1 DEF Blobs
    <2>5. tpc = "copy" /\ tpc' = "send"
      BY DEF TaskCopy
    <2>6. Archived(q) \in Nat /\ Blobs(q) \in Nat
      BY <1>0, Counts DEF Archived, Blobs
    <2>7. Archived(parent[q])' = Archived(parent[q])
      <3>1. \A r :
              Count(out', <<"entry", r>>) + Count(entries', r) = Archived(r)
        BY <2>2 DEF Archived
      <3> QED
        BY <1>4, <3>1 DEF Archived
    <2>8. Blobs(q)' = IF kind[q] = "file" THEN Archived(q) + Bit(job = q) ELSE 0
      BY <1>0, <2>1, <2>4, <2>5, <2>6 DEF KeptAt, Bit
    <2> QED
      BY <1>4, <2>1, <2>2, <2>3, <2>5, <2>7, <2>8 DEF KeptAt, Bit
  <1> QED
    BY <1>2, <1>3, <1>4, <1>5, <1>6, <1>7 DEF CreateInv

LEMMA TaskSendInv == CreateInv /\ TaskSend => CreateInv'
  <1> SUFFICES ASSUME CreateInv, TaskSend PROVE CreateInv'
    OBVIOUS
  <1>0. /\ TypeOK /\ job \in Paths /\ kind[job] = "file" /\ tpc = "send"
        /\ job' = None /\ job # None
        /\ UNCHANGED <<kind, parent, args>>
        /\ UNCHANGED <<mpc, files, cur, sending, out, flushed>>
        /\ UNCHANGED disk
    BY NoneAssumption DEF CreateInv, TypeOK, Shape, TaskSend, disk, Paths
  <1>1. CASE mpc = "failed"
    <2>1. tpc' = "ended" /\ data' = <<>> /\ UNCHANGED entries
      BY <1>1 DEF TaskSend
    <2>2. TypeOK'
      BY <1>0, <2>1, CapAssumption DEF TypeOK
    <2>3. Shape'
      BY <1>0, <1>1, <2>1 DEF CreateInv, Shape
    <2>4. ~Lossless'
      BY <1>0, <1>1 DEF Lossless
    <2>5. Forest' /\ Ordered' /\ ParentsFirst'
      BY <1>0, <2>1, <2>4, SameOrder DEF CreateInv
    <2> QED
      BY <2>2, <2>3, <2>4, <2>5 DEF CreateInv, Kept
  <1>2. CASE mpc # "failed"
    <2>1. tpc' = "recv" /\ entries' = Append(entries, job) /\ UNCHANGED data
      BY <1>2 DEF TaskSend
    <2>2. TypeOK'
      BY <1>0, <2>1 DEF TypeOK
    <2>3. Shape'
      BY <1>0, <1>2, <2>1 DEF CreateInv, Shape
    <2>4. Lossless' => Lossless
      BY <1>0 DEF Lossless
    <2>5. Forest' /\ Ordered' /\ ParentsFirst'
      <3>1. \A q \in Paths : parent[q] # job
        BY <1>0, NAssumption DEF CreateInv, Forest, Paths
      <3> QED
        BY <1>0, <2>1, <2>4, <3>1, SentInOrder DEF CreateInv
    <2>6. Kept'
      <3> SUFFICES ASSUME Lossless', NEW q \in Paths PROVE KeptAt(q)'
        BY DEF Kept
      <3>1. KeptAt(q)
        BY <2>4 DEF CreateInv, Kept
      <3>2. \A r : Archived(r)' = Archived(r) + Bit(job = r)
        <4> SUFFICES ASSUME NEW r
                     PROVE  Archived(r)' = Archived(r) + Bit(job = r)
          OBVIOUS
        <4>1. Count(entries', r) = Count(entries, r) + Bit(job = r)
          BY <1>0, <2>1, CountAppend DEF TypeOK
        <4>2. Count(out, <<"entry", r>>) \in Nat /\ Count(entries, r) \in Nat
          BY <1>0, Counts
        <4> QED
          BY <1>0, <4>1, <4>2 DEF Archived, Bit
      <3>3. Waiting(q) = Waiting(q)' + Bit(job = q)
        <4>1. Count(data, q) \in Nat /\ None # q
          BY <1>0, Counts, NoneAssumption DEF Paths
        <4> QED
          BY <1>0, <2>1, <4>1 DEF Waiting, Bit
      <3>4. Blobs(q)' = Blobs(q)
        BY <1>0 DEF Blobs
      <3>5. /\ Archived(q) \in Nat /\ Waiting(q)' \in Nat
            /\ Count(files, q) \in Nat
        BY <1>0, <2>1, Counts, NoneAssumption DEF Archived, Waiting, Bit, Paths
      <3>6. parent[q] # 0 => Archived(parent[q])' = Archived(parent[q])
        <4> SUFFICES ASSUME parent[q] # 0
                     PROVE  Archived(parent[q])' = Archived(parent[q])
          OBVIOUS
        <4>1. parent[q] # job
          BY <1>0 DEF CreateInv, Forest
        <4>2. \A r : Count(out', <<"entry", r>>) + Count(entries', r)
                       = Archived(r) + Bit(job = r)
          BY <3>2 DEF Archived
        <4>3. Archived(parent[q]) \in Nat
          BY <1>0, Counts DEF Archived
        <4> QED
          BY <1>0, <4>1, <4>2, <4>3 DEF Archived, Bit
      <3>7. kind[q] # "other" =>
              Archived(q)' + Waiting(q)' + Count(files, q) =
                Archived(q) + Waiting(q) + Count(files, q)
        BY <3>2, <3>3, <3>5 DEF Bit
      <3>8. kind[q] # "file" => Archived(q)' = Archived(q)
        BY <1>0, <3>2, <3>5 DEF Bit
      <3>9. kind[q] = "file" => Blobs(q)' = Archived(q)'
        BY <1>0, <3>1, <3>2, <3>4, <3>5 DEF KeptAt, Bit
      <3>10. Bit(tpc' = "send" /\ job' = q) = 0
        BY <2>1 DEF Bit
      <3>11. Archived(q)' \in Nat
        BY <3>2, <3>5 DEF Bit
      <3> QED
        BY <1>0, <3>1, <3>4, <3>6, <3>7, <3>8, <3>9, <3>10, <3>11 DEF KeptAt
    <2> QED
      BY <2>2, <2>3, <2>5, <2>6 DEF CreateInv
  <1> QED
    BY <1>1, <1>2

LEMMA WriteEntryInv == CreateInv /\ WriteEntry => CreateInv'
  <1> SUFFICES ASSUME CreateInv, WriteEntry PROVE CreateInv'
    OBVIOUS
  <1> DEFINE h == Head(entries)
  <1>0. /\ TypeOK /\ Emit(<<"entry", h>>) /\ entries \in Seq(Paths)
        /\ entries # <<>> /\ h \in Paths /\ entries' = Tail(entries)
        /\ mpc = "write" /\ tpc = "ended"
        /\ UNCHANGED <<mpc, files, cur, data, sending, tpc, job>>
        /\ UNCHANGED <<kind, parent, args>>
        /\ UNCHANGED disk
    BY DEF CreateInv, TypeOK, Shape, WriteEntry, disk
  <1>1. /\ out' \in Seq({"blob", "entry"} \X Paths) /\ flushed' \in 0..Len(out')
        /\ \A q : Count(out', <<"entry", q>>)
                    = Count(out, <<"entry", q>>) + Bit(h = q)
        /\ \A q : Count(out', <<"blob", q>>) = Count(out, <<"blob", q>>) + 0
        /\ \A q : Places("entry", q)' = IF h = q
                    THEN Places("entry", q) \cup {Len(out) + 1}
                    ELSE Places("entry", q)
        /\ \A q : Places("entry", q) \subseteq 1..Len(out)
    <2> HIDE DEF h
    <2> QED
      BY <1>0, EmitCounts DEF Bit
  <1>2. /\ entries' \in Seq(Paths) /\ Len(entries) \in Nat
        /\ DOMAIN entries = 1..Len(entries)
        /\ DOMAIN entries' = 1..(Len(entries) - 1)
        /\ \A k \in 1..(Len(entries) - 1) : entries'[k] = entries[k + 1]
        /\ Len(entries) >= 1 /\ entries[1] = h
    BY <1>0
  <1> HIDE DEF h
  <1>3. TypeOK'
    BY <1>0, <1>1, <1>2 DEF TypeOK
  <1>4. Shape'
    BY <1>0 DEF CreateInv, Shape
  <1>5. /\ Forest' /\ (Apart' <=> Apart) /\ Lossless
        /\ \A q \in Paths :
             parent[q] # 0 => parent[q] \in Paths /\ parent[q] # q
    BY <1>0, ForestSame DEF CreateInv, Lossless
  <1>6. ASSUME NEW q \in Paths, parent[q] # 0, OrderedAt(q)
        PROVE  OrderedAt(q)'
    <2>1. parent'[q] = parent[q] /\ parent[q] # q
      BY <1>0, <1>5, <1>6
    <2>2. ASSUME Places("entry", q)' # {}, NEW k \in DOMAIN entries'
          PROVE  entries'[k] # parent[q]
      <3>1. k + 1 \in 1..Len(entries) /\ entries'[k] = entries[k + 1]
            /\ k + 1 > 1 /\ k \in Nat
        BY <1>2
      <3>2. CASE Places("entry", q) # {}
        BY <3>1, <3>2, <1>2, <1>6 DEF OrderedAt
      <3>3. CASE Places("entry", q) = {}
        <4>1. entries[1] = q
          BY <3>3, <2>2, <1>1, <1>2
        <4>2. entries[k + 1] = parent[q] => k + 1 < 1
          BY <4>1, <3>1, <1>2, <1>6 DEF OrderedAt
        <4> QED
          BY <4>2, <3>1
      <3> QED
        BY <3>2, <3>3
    <2>3. ASSUME NEW i \in DOMAIN entries', NEW j \in DOMAIN entries',
                 entries'[i] = q, entries'[j] = parent[q]
          PROVE  j < i
      <3>1. /\ i + 1 \in 1..Len(entries) /\ entries'[i] = entries[i + 1]
            /\ j + 1 \in 1..Len(entries) /\ entries'[j] = entries[j + 1]
            /\ i \in Nat /\ j \in Nat
        BY <1>2
      <3>2. j + 1 < i + 1
        BY <3>1, <2>3, <1>2, <1>6 DEF OrderedAt
      <3> QED
        BY <3>1, <3>2
    <2> QED
      BY <2>1, <2>2, <2>3 DEF OrderedAt
  <1>7. Ordered'
    BY <1>0, <1>5, <1>6 DEF CreateInv, Ordered
  <1>8. ASSUME Apart PROVE InOrder'
    <2> SUFFICES ASSUME NEW q \in Paths, parent[q] # 0 PROVE InOrderAt(q)'
      BY <1>0 DEF InOrder
    <2>1. InOrderAt(q) /\ OrderedAt(q)
      BY <1>5, <1>8, ParentsFirstIs DEF CreateInv, Ordered, InOrder
    <2>2. PICK r : r = parent[q] /\ r = parent'[q]
      BY <1>0
    <2>3. r # q
      BY <2>2, <1>5
    <2>4. ASSUME NEW i \in Places("entry", q)', NEW j \in Places("entry", r)'
          PROVE  j < i
      <3>0. Len(out) \in Nat
        BY <1>0 DEF TypeOK
      <3>1. CASE h = q
        <4>1. j \in Places("entry", r)
          BY <3>1, <2>3, <1>1
        <4>2. i \in Places("entry", q) \/ i = Len(out) + 1
          BY <3>1, <1>1
        <4>3. j \in 1..Len(out)
          BY <4>1, <1>1
        <4>4. CASE i = Len(out) + 1
          BY <4>3, <4>4, <3>0
        <4>5. CASE i \in Places("entry", q)
          BY <4>1, <4>5, <2>1, <2>2 DEF InOrderAt
        <4> QED
          BY <4>2, <4>4, <4>5
      <3>2. CASE h # q
        <4>1. i \in Places("entry", q)
          BY <3>2, <1>1
        <4>2. r # h
          BY <4>1, <2>1, <2>2, <1>2 DEF OrderedAt
        <4>3. j \in Places("entry", r)
          BY <4>2, <1>1
        <4> QED
          BY <4>1, <4>3, <2>1, <2>2 DEF InOrderAt
      <3> QED
        BY <3>1, <3>2
    <2>5. {i \in DOMAIN out' : out'[i] = <<"entry", r>>} = Places("entry", r)'
      BY DEF Places
    <2> QED
      BY <2>2, <2>4, <2>5 DEF InOrderAt, Places
  <1>9. ParentsFirst'
    BY <1>5, <1>8, ParentsFirstIs, PTL
  <1>10. Kept'
    <2> SUFFICES ASSUME NEW q \in Paths PROVE KeptAt(q)'
      BY DEF Kept
    <2>1. KeptAt(q)
      BY <1>5 DEF CreateInv, Kept
    <2>2. ASSUME NEW r
          PROVE  Count(out', <<"entry", r>>) + Count(entries', r) = Archived(r)
      <3>1. Count(entries, r) = Count(Tail(entries), r) + Bit(h = r)
        BY <1>0, CountTail DEF h
      <3>2. /\ Count(Tail(entries), r) \in Nat
            /\ Count(out, <<"entry", r>>) \in Nat
        BY <1>0, <1>2, Counts, CountType
      <3> QED
        BY <1>0, <1>1, <3>1, <3>2 DEF Archived, Bit
    <2>3. Archived(q)' = Archived(q)
      BY <2>2 DEF Archived
    <2>4. Archived(parent[q])' = Archived(parent[q])
      <3>1. PICK r : r = parent[q] /\ r = parent'[q]
        BY <1>0
      <3>2. Count(out', <<"entry", r>>) + Count(entries', r) = Archived(r)
        BY <2>2
      <3> QED
        BY <3>1, <3>2 DEF Archived
    <2>5. Waiting(q)' = Waiting(q)
      BY <1>0 DEF Waiting
    <2>6. Blobs(q)' = Blobs(q)
      <3>1. Blobs(q) \in Nat
        BY <1>0, Counts DEF Blobs
      <3> QED
        BY <1>1, <3>1 DEF Blobs
    <2> QED
      BY <1>0, <2>1, <2>3, <2>4, <2>5, <2>6 DEF KeptAt
  <1> QED
    BY <1>3, <1>4, <1>5, <1>7, <1>9, <1>10 DEF CreateInv

LEMMA CreateInit == Init => CreateInv
  <1> SUFFICES ASSUME Init PROVE CreateInv
    OBVIOUS
  <1>1. Forest
    BY DEF Init, Forest
  <1>2. files = Sorted(args) /\ args \in SUBSET Paths
        /\ data = <<>> /\ entries = <<>> /\ out = <<>> /\ cur = None
        /\ job = None /\ tpc = "recv" /\ mpc = "walk" /\ sending = TRUE
        /\ flushed = 0
    BY DEF Init
  <1>3. files \in Seq(Paths) /\ \A v : Count(files, v) = Bit(v \in args)
    BY <1>2, SortedOnce
  <1>4. TypeOK
    <2>1. /\ data \in Seq(Paths) /\ entries \in Seq(Paths)
          /\ out \in Seq({"blob", "entry"} \X Paths)
          /\ Len(data) = 0 /\ Len(out) = 0
      BY <1>2
    <2> QED
      BY <2>1, <1>2, <1>3, CapAssumption DEF TypeOK
  <1>5. Shape
    BY <1>2 DEF Shape
  <1>6. /\ \A p : Archived(p) = 0 /\ Blobs(p) = 0
        /\ \A p \in Paths : Waiting(p) = 0
    BY <1>2, CountEmpty, NoneAssumption
       DEF Archived, Blobs, Waiting, Bit, Paths
  <1>7. Kept
    <2> SUFFICES ASSUME NEW p \in Paths PROVE KeptAt(p)
      BY DEF Kept
    <2>1. Archived(p) = 0 /\ Blobs(p) = 0 /\ Waiting(p) = 0
          /\ Archived(parent[p]) = 0 /\ Count(files, p) = Bit(p \in args)
      BY <1>3, <1>6
    <2> QED
      BY <1>2, <2>1 DEF KeptAt, Bit
  <1>8. \A p : Places("entry", p) = {}
    BY <1>2 DEF Places
  <1> QED
    BY <1>1, <1>2, <1>4, <1>5, <1>7, <1>8
       DEF CreateInv, Ordered, OrderedAt, ParentsFirst

LEMMA CreateStep == CreateInv /\ [Next]_vars => CreateInv'
  <1> SUFFICES ASSUME CreateInv, [Next]_vars PROVE CreateInv'
    OBVIOUS
  <1>1. CASE MainStep
    BY <1>1, VisitInv, FailInv, SendInv, SendClosedInv, EndWalkInv, JoinInv,
       WriteEntryInv, ReturnInv DEF MainStep, VisitFail, WriteFail
  <1>2. CASE TaskStep
    BY <1>2, TaskRecvInv, TaskEndInv, TaskCopyInv, TaskFailInv, TaskSendInv
       DEF TaskStep
  <1>3. CASE UNCHANGED vars
    <2>1. UNCHANGED <<disk, files, cur, data, entries, job, out>>
      BY <1>3 DEF vars, disk
    <2>2. TypeOK' /\ Shape'
      BY <1>3 DEF vars, disk, CreateInv, TypeOK, Shape
    <2>3. tpc' = tpc /\ mpc' = mpc
      BY <1>3 DEF vars
    <2> QED
      BY <2>1, <2>2, <2>3, StillInv DEF Lossless
  <1>4. CASE Done
    BY <1>3, <1>4 DEF Done
  <1> QED
    BY <1>1, <1>2, <1>3, <1>4 DEF Next

LEMMA CreateInvariant == Spec => []CreateInv
  BY CreateInit, CreateStep, PTL DEF Spec

-----------------------------------------------------------------------------
(* Theorems *)

\* The command and its task are what their types say, and the data channel
\* keeps its bound, for any number of paths in any forest.
THEOREM CreateTyped == Spec => []TypeOK
  BY CreateInvariant, PTL DEF CreateInv

\* A directory's entry is in the archive before those of what is in it, however
\* the walk's entries and the task's come into the channel, unless an argument
\* is under another.
THEOREM CreateParentsFirst == Spec => []ParentsFirst
  BY CreateInvariant, PTL DEF CreateInv

\* The command succeeds only if its task did.
THEOREM CreateReportsFailure == Spec => []FailureReported
  <1>1. CreateInv => FailureReported
    BY DEF CreateInv, Shape, FailureReported
  <1> QED
    BY <1>1, CreateInvariant, PTL

\* When the command succeeds, the archive has the entry of every file,
\* directory and link once for each argument it is under, and the blob of every
\* file as often: what is found is the solution of the equation that defines
\* how often a path is found, from the roots of the forest down.
THEOREM CreateComplete == Spec => []Complete
  <1>1. CreateInv => Complete
    <2> SUFFICES ASSUME CreateInv, mpc = "done", NEW p \in Paths
                 PROVE  /\ Cardinality(Places("entry", p))
                             = IF kind[p] = "other" THEN 0
                               ELSE Cardinality(args \cap Above(p))
                        /\ Cardinality(Places("blob", p))
                             = IF kind[p] = "file"
                               THEN Cardinality(args \cap Above(p)) ELSE 0
      BY Zenon DEF Complete
    <2>1. /\ tpc = "ended" /\ entries = <<>> /\ data = <<>> /\ files = <<>>
          /\ cur = None /\ job = None /\ Lossless /\ TypeOK /\ Forest
      BY DEF CreateInv, Shape, Lossless
    <2>2. \A q \in Paths : Waiting(q) = 0 /\ Count(files, q) = 0
                           /\ Archived(q) \in Nat
      BY <2>1, CountEmpty, Counts, NoneAssumption
         DEF Waiting, Bit, Archived, Paths
    <2> DEFINE S == {q \in Paths : kind[q] # "other" => Archived(q) = Times(q)}
    <2>3. ASSUME NEW q \in Paths, \A r \in Paths : r < q => r \in S
          PROVE  q \in S
      <3> SUFFICES ASSUME kind[q] # "other" PROVE Archived(q) = Times(q)
        OBVIOUS
      <3>1. Archived(q) = Bit(q \in args)
                          + IF parent[q] = 0 THEN 0 ELSE Archived(parent[q])
        <4>1. Archived(q) + Waiting(q) + Count(files, q) = Bit(q \in args)
                          + IF parent[q] = 0 THEN 0 ELSE Archived(parent[q])
          BY <2>1 DEF CreateInv, Kept, KeptAt
        <4>2. Archived(q) + Waiting(q) + Count(files, q) = Archived(q)
          BY <2>2
        <4> QED
          BY <4>1, <4>2
      <3>2. Times(q) = Bit(q \in args)
                       + IF parent[q] = 0 THEN 0 ELSE Times(parent[q])
        BY <2>1, TimesIs
      <3>3. parent[q] # 0 => /\ parent[q] \in Paths /\ parent[q] < q
                             /\ kind[parent[q]] = "dir"
        BY <2>1, NAssumption DEF Forest, Paths
      <3>4. parent[q] # 0 => Archived(parent[q]) = Times(parent[q])
        BY <2>3, <3>3
      <3> QED
        BY <3>1, <3>2, <3>4
    <2>4. p \in S
      <3> HIDE DEF S
      <3> QED
        BY <2>3, PathInduction
    <2>5. /\ Archived(p) = Cardinality(Places("entry", p))
          /\ Blobs(p) = Cardinality(Places("blob", p))
      <3>1. Count(entries, p) = 0 /\ Count(out, <<"entry", p>>) \in Nat
        BY <2>1, CountEmpty, Counts
      <3>2. /\ Spots(out, <<"entry", p>>) = Places("entry", p)
            /\ Spots(out, <<"blob", p>>) = Places("blob", p)
        BY DEF Spots, Places
      <3>3. Archived(p) = Count(out, <<"entry", p>>)
        BY <3>1 DEF Archived
      <3> QED
        BY <3>2, <3>3 DEF Blobs, Count
    <2>6. KeptAt(p)
      BY <2>1 DEF CreateInv, Kept
    <2>7. kind[p] = "other" => Archived(p) = 0
      BY <2>6 DEF KeptAt
    <2>8. Blobs(p) = IF kind[p] = "file" THEN Archived(p) ELSE 0
      BY <2>1, <2>2, <2>6 DEF KeptAt, Bit
    <2>9. kind[p] # "other" => Archived(p) = Cardinality(args \cap Above(p))
      BY <2>4 DEF Times
    <2> QED
      BY <2>5, <2>7, <2>8, <2>9
  <1> QED
    BY <1>1, CreateInvariant, PTL
=============================================================================
