------------------------ MODULE ChannelWorkerProofs ------------------------
(***************************************************************************)
(* Proofs about one channel worker process, for every number of tenants,   *)
(* jobs, slots and faults: what its scheduler counts is what runs, nothing *)
(* it has reserved is forgotten, and its rotation serves the tenants in    *)
(* turn.                                                                   *)
(***************************************************************************)
EXTENDS ChannelWorker, FiniteSetTheorems, SequenceTheorems, TLAPS

----------------------------------------------------------------------------
(* The copies of a job in a list.                                          *)

PlacesOf(j, list) == {i \in DOMAIN list : list[i] = j}

LEMMA CopiesAreFinite ==
    ASSUME NEW S, NEW s \in Seq(S), NEW j
    PROVE  IsFiniteSet(PlacesOf(j, s)) /\ Copies(j, s) = Cardinality(PlacesOf(j, s)) /\ Copies(j, s) \in Nat
<1>1. IsFiniteSet(1 .. Len(s)) /\ PlacesOf(j, s) \in SUBSET (1 .. Len(s))
  BY FS_Interval DEF PlacesOf
<1>2. QED
  BY <1>1, FS_Subset, FS_CardinalityType DEF Copies, PlacesOf

\* A list with an element more at its end.
LEMMA CopiesAppend ==
    ASSUME NEW S, NEW s \in Seq(S), NEW e \in S, NEW j
    PROVE  Copies(j, Append(s, e)) = IF e = j THEN Copies(j, s) + 1 ELSE Copies(j, s)
<1>1. PlacesOf(j, Append(s, e)) =
        IF e = j THEN PlacesOf(j, s) \cup {Len(s) + 1} ELSE PlacesOf(j, s)
  BY DEF PlacesOf
<1>2. Len(s) + 1 \notin PlacesOf(j, s)
  BY DEF PlacesOf
<1>3. /\ IsFiniteSet(PlacesOf(j, s)) /\ Copies(j, s) = Cardinality(PlacesOf(j, s))
      /\ Copies(j, Append(s, e)) = Cardinality(PlacesOf(j, Append(s, e)))
  <2>1. Append(s, e) \in Seq(S)
    OBVIOUS
  <2>2. QED
    BY <2>1, CopiesAreFinite
<1>4. Cardinality(PlacesOf(j, s) \cup {Len(s) + 1}) = Cardinality(PlacesOf(j, s)) + 1
  BY <1>2, <1>3, FS_AddElement
<1>5. QED
  BY <1>1, <1>3, <1>4

\* The last element taken away.
LEMMA CopiesFront ==
    ASSUME NEW S, NEW s \in Seq(S), s # <<>>, NEW j
    PROVE  /\ Front(s) \in Seq(S) /\ Last(s) \in S
           /\ Copies(j, s) = IF Last(s) = j THEN Copies(j, Front(s)) + 1 ELSE Copies(j, Front(s))
<1>1. Front(s) \in Seq(S) /\ Last(s) \in S /\ s = Append(Front(s), Last(s))
  BY DEF Front, Last
<1>2. Copies(j, Append(Front(s), Last(s))) =
        IF Last(s) = j THEN Copies(j, Front(s)) + 1 ELSE Copies(j, Front(s))
  BY <1>1, CopiesAppend
<1>3. QED
  BY <1>1, <1>2

\* The first element taken away.
LEMMA CopiesTail ==
    ASSUME NEW S, NEW s \in Seq(S), s # <<>>, NEW j
    PROVE  /\ Tail(s) \in Seq(S) /\ Head(s) \in S
           /\ Copies(j, s) = IF Head(s) = j THEN Copies(j, Tail(s)) + 1 ELSE Copies(j, Tail(s))
<1>1. Tail(s) \in Seq(S) /\ Head(s) \in S
  OBVIOUS
<1> DEFINE A == PlacesOf(j, Tail(s))
           B == PlacesOf(j, s) \ {1}
           f == [i \in A |-> i + 1]
<1>2. f \in Bijection(A, B)
  <2>1. f \in [A -> B]
    BY DEF PlacesOf
  <2>2. \A i, k \in A : f[i] = f[k] => i = k
    BY DEF PlacesOf
  <2>3. \A b \in B : \E i \in A : f[i] = b
    <3> TAKE b \in B
    <3>1. b - 1 \in A /\ f[b - 1] = b
      BY DEF PlacesOf
    <3>2. QED
      BY <3>1
  <2>4. QED
    BY <2>1, <2>2, <2>3 DEF Bijection, Injection, IsInjective, Surjection
<1>3. IsFiniteSet(A) /\ Copies(j, Tail(s)) = Cardinality(A)
  BY <1>1, CopiesAreFinite
<1>4. Cardinality(B) = Copies(j, Tail(s))
  BY <1>2, <1>3, FS_Bijection DEF ExistsBijection
<1>5. 1 \in PlacesOf(j, s) <=> Head(s) = j
  BY DEF PlacesOf
<1>6. IsFiniteSet(PlacesOf(j, s)) /\ Copies(j, s) = Cardinality(PlacesOf(j, s))
      /\ Copies(j, s) \in Nat
  BY CopiesAreFinite
<1>7. Cardinality(B) = IF 1 \in PlacesOf(j, s) THEN Copies(j, s) - 1 ELSE Copies(j, s)
  BY <1>6, FS_RemoveElement
<1>8. QED
  BY <1>1, <1>4, <1>5, <1>6, <1>7

LEMMA CopiesCons ==
    ASSUME NEW S, NEW s \in Seq(S), NEW e \in S, NEW j
    PROVE  /\ <<e>> \o s \in Seq(S)
           /\ Copies(j, <<e>> \o s) = IF e = j THEN Copies(j, s) + 1 ELSE Copies(j, s)
<1>1. <<e>> \o s \in Seq(S) /\ <<e>> \o s # <<>> /\ Head(<<e>> \o s) = e /\ Tail(<<e>> \o s) = s
  OBVIOUS
<1>2. QED
  BY <1>1, CopiesTail

\* A set of natural numbers has a least one.
LEMMA LeastNumber ==
    ASSUME NEW T \in SUBSET Nat, T # {}
    PROVE  Min(T) \in T
<1> DEFINE R == StrictSubsetOrdering(Nat)
           F == {0 .. n : n \in T}
<1>1. F \subseteq FiniteSubsetsOf(Nat) /\ F # {}
  <2>1. ASSUME NEW n \in T PROVE 0 .. n \in FiniteSubsetsOf(Nat)
    <3>1. IsFiniteSet(0 .. n)
      BY FS_Interval
    <3>2. QED
      BY <3>1 DEF FiniteSubsetsOf
  <2>2. QED
    BY <2>1
<1>2. \E x \in F : \A y \in F : ~ (<<y, x>> \in R)
  <2> HIDE DEF R, F
  <2>1. IsWellFoundedOn(R, FiniteSubsetsOf(Nat))
    BY FS_StrictSubsetOrderingWellFounded DEF R
  <2>2. QED
    BY <1>1, <2>1, WFMin
<1>3. PICK n \in T : \A m \in T : ~ (<<0 .. m, 0 .. n>> \in R)
  BY <1>2
<1>4. ASSUME NEW m \in T, m < n PROVE FALSE
  <2>1. 0 .. m \subseteq 0 .. n /\ n \in 0 .. n /\ n \notin 0 .. m
    BY <1>4
  <2>2. <<0 .. m, 0 .. n>> \in R
    BY <2>1 DEF StrictSubsetOrdering
  <2>3. QED
    BY <1>3, <2>2
<1>5. \E x \in T : \A y \in T : x =< y
  BY <1>4
<1>6. QED
  BY <1>5 DEF Min

\* The list without its element k.
LEMMA RemoveAtCloses ==
    ASSUME NEW S, NEW s \in Seq(S), NEW k \in 1 .. Len(s)
    PROVE  /\ RemoveAt(s, k) \in Seq(S) /\ Len(RemoveAt(s, k)) = Len(s) - 1
           /\ \A i \in 1 .. Len(s) - 1 : RemoveAt(s, k)[i] = IF i < k THEN s[i] ELSE s[i + 1]
<1> DEFINE u == SubSeq(s, 1, k - 1)
           v == SubSeq(s, k + 1, Len(s))
           n == Len(s)
<1>0. n \in Nat /\ k \in 1 .. n
  OBVIOUS
<1>1. u \in Seq(S) /\ Len(u) = k - 1 /\ \A i \in 1 .. k - 1 : u[i] = s[i]
  OBVIOUS
<1>2. /\ v \in Seq(S) /\ Len(v) = n - k
      /\ \A i \in 1 .. n - k : v[i] = s[i + k]
  OBVIOUS
<1>3. RemoveAt(s, k) = u \o v
  BY DEF RemoveAt
<1> HIDE DEF u, v, n
<1>4. /\ u \o v \in Seq(S) /\ Len(u \o v) = n - 1
      /\ \A i \in 1 .. n - 1 : (u \o v)[i] = IF i <= k - 1 THEN u[i] ELSE v[i - (k - 1)]
  <2>1. /\ u \o v \in Seq(S) /\ Len(u \o v) = Len(u) + Len(v)
        /\ \A i \in 1 .. Len(u) + Len(v) :
              (u \o v)[i] = IF i <= Len(u) THEN u[i] ELSE v[i - Len(u)]
    BY <1>1, <1>2, ConcatProperties
  <2>2. Len(u) = k - 1 /\ Len(u) + Len(v) = n - 1
    BY <1>0, <1>1, <1>2
  <2>3. QED
    BY <2>1, <2>2
<1>5. ASSUME NEW i \in 1 .. n - 1
      PROVE  (u \o v)[i] = IF i < k THEN s[i] ELSE s[i + 1]
  <2>1. CASE i < k
    <3>1. i <= k - 1 /\ i \in 1 .. k - 1
      BY <1>0, <2>1
    <3>2. QED
      BY <1>1, <1>4, <2>1, <3>1
  <2>2. CASE ~ i < k
    <3>1. ~ i <= k - 1 /\ i - (k - 1) \in 1 .. n - k /\ (i - (k - 1)) + k = i + 1
      BY <1>0, <2>2
    <3>2. QED
      BY <1>2, <1>4, <2>2, <3>1
  <2>3. QED
    BY <2>1, <2>2
<1>6. QED
  BY <1>3, <1>4, <1>5 DEF n

\* The copies in the list without its element k.
LEMMA CopiesRemoveAt ==
    ASSUME NEW S, NEW s \in Seq(S), NEW k \in 1 .. Len(s), NEW j
    PROVE  /\ Copies(j, RemoveAt(s, k)) <= Copies(j, s)
           /\ s[k] = j => Copies(j, RemoveAt(s, k)) < Copies(j, s)
<1> DEFINE r == RemoveAt(s, k)
           n == Len(s)
           A == PlacesOf(j, r)
           B == PlacesOf(j, s) \ {k}
           f == [i \in A |-> IF i < k THEN i ELSE i + 1]
<1>0. n \in Nat /\ k \in 1 .. n /\ DOMAIN s = 1 .. n
  OBVIOUS
<1>1. /\ r \in Seq(S) /\ Len(r) = n - 1
      /\ \A i \in 1 .. n - 1 : r[i] = IF i < k THEN s[i] ELSE s[i + 1]
  BY RemoveAtCloses
<1>a. DOMAIN r = 1 .. n - 1
  BY <1>1
<1> HIDE DEF r, n
<1>2. f \in [A -> B]
  <2>1. ASSUME NEW i \in A PROVE (IF i < k THEN i ELSE i + 1) \in B
    BY <1>0, <1>1, <1>a DEF PlacesOf
  <2> HIDE DEF A, B
  <2>2. QED
    BY <2>1
<1>3. \A i, m \in A : f[i] = f[m] => i = m
  <2>1. \A i \in A : i \in 1 .. n - 1
    BY <1>a DEF PlacesOf
  <2> HIDE DEF A, B
  <2>2. QED
    BY <1>0, <2>1
<1>4. f \in Injection(A, B)
  <2> HIDE DEF f, A, B
  <2>1. QED
    BY <1>2, <1>3 DEF Injection, IsInjective
<1>5. /\ IsFiniteSet(PlacesOf(j, s)) /\ Copies(j, s) = Cardinality(PlacesOf(j, s))
      /\ Copies(j, s) \in Nat
  BY CopiesAreFinite
<1>6. Copies(j, r) = Cardinality(A) /\ Copies(j, r) \in Nat
  BY <1>1, CopiesAreFinite
<1>7. /\ IsFiniteSet(B)
      /\ Cardinality(B) = IF k \in PlacesOf(j, s) THEN Copies(j, s) - 1 ELSE Copies(j, s)
  BY <1>5, FS_RemoveElement
<1>8. Cardinality(A) <= Cardinality(B)
  <2> HIDE DEF f, A, B
  <2>1. QED
    BY <1>4, <1>7, FS_Injection
<1>9. s[k] = j => k \in PlacesOf(j, s)
  BY <1>0 DEF PlacesOf
<1> HIDE DEF A, B
<1>10. Copies(j, r) <= Copies(j, s) /\ (s[k] = j => Copies(j, r) < Copies(j, s))
  BY <1>5, <1>6, <1>7, <1>8, <1>9
<1>11. QED
  BY <1>10 DEF r

\* LREM takes away one copy of its job, if there is one, and nothing else.
LEMMA CopiesRemoveFirst ==
    ASSUME NEW S, NEW s \in Seq(S), NEW e, NEW j
    PROVE  /\ RemoveFirst(s, e) \in Seq(S)
           /\ Copies(j, RemoveFirst(s, e)) <= Copies(j, s)
           /\ Copies(e, s) > 0 => Copies(e, RemoveFirst(s, e)) < Copies(e, s)
<1>1. CASE ~ \E i \in 1 .. Len(s) : s[i] = e
  <2>1. PlacesOf(e, s) = {}
    BY <1>1 DEF PlacesOf
  <2>2. Copies(e, s) = 0
    BY <2>1, FS_EmptySet, CopiesAreFinite
  <2>3. RemoveFirst(s, e) = s
    BY <1>1 DEF RemoveFirst
  <2>4. QED
    BY <2>2, <2>3, CopiesAreFinite
<1>2. CASE \E i \in 1 .. Len(s) : s[i] = e
  <2> DEFINE I == {i \in 1 .. Len(s) : s[i] = e}
             k == Min(I)
  <2>1. I \in SUBSET Nat /\ I # {}
    BY <1>2
  <2>2. k \in I
    <3> HIDE DEF I
    <3>1. QED
      BY <2>1, LeastNumber
  <2>3. RemoveFirst(s, e) = RemoveAt(s, k)
    BY <1>2 DEF RemoveFirst, SelectInSeq
  <2> HIDE DEF k
  <2>4. k \in 1 .. Len(s) /\ s[k] = e
    BY <2>2
  <2>5. /\ RemoveAt(s, k) \in Seq(S)
        /\ Copies(j, RemoveAt(s, k)) <= Copies(j, s)
        /\ Copies(e, RemoveAt(s, k)) < Copies(e, s)
    BY <2>4, RemoveAtCloses, CopiesRemoveAt
  <2>6. QED
    BY <2>3, <2>5
<1>3. QED
  BY <1>1, <1>2

----------------------------------------------------------------------------
(* The rotation.                                                           *)

Distinct(list) == \A i, k \in DOMAIN list : i # k => list[i] # list[k]

LEMMA IntervalSize ==
    ASSUME NEW n \in Nat
    PROVE  IsFiniteSet(1 .. n) /\ Cardinality(1 .. n) = n
<1>1. /\ IsFiniteSet(1 .. n)
      /\ Cardinality(1 .. n) = IF 1 > n THEN 0 ELSE n - 1 + 1
  BY FS_Interval
<1>2. QED
  BY <1>1

\* In a rotation that lists t once, removeTenant closes the gap t leaves.
LEMMA RemovalClosesGap ==
    ASSUME order \in Seq(Tenants), Distinct(order), NEW m \in DOMAIN order
    PROVE  /\ removeTenant(order[m]) \in Seq(Tenants)
           /\ Len(removeTenant(order[m])) = Len(order) - 1
           /\ \A p \in 1 .. Len(order) - 1 :
                 removeTenant(order[m])[p] = IF p < m THEN order[p] ELSE order[p + 1]
<1> DEFINE n == Len(order)
           t == order[m]
           kept == {i \in DOMAIN order : order[i] # t}
           Place(i) == Cardinality({k \in kept : k <= i})
           At(p) == CHOOSE i \in kept : Place(i) = p
           list == [p \in 1 .. Cardinality(kept) |-> order[At(p)]]
<1>1. n \in Nat /\ DOMAIN order = 1 .. n /\ m \in 1 .. n
  OBVIOUS
<1>2. kept = (1 .. n) \ {m}
  BY <1>1 DEF Distinct
<1>3. IsFiniteSet(1 .. n) /\ Cardinality(1 .. n) = n
  BY <1>1, IntervalSize
<1>4. Cardinality(kept) = n - 1
  <2>1. Cardinality((1 .. n) \ {m}) =
          IF m \in 1 .. n THEN Cardinality(1 .. n) - 1 ELSE Cardinality(1 .. n)
    BY <1>3, FS_RemoveElement
  <2>2. QED
    BY <1>1, <1>2, <1>3, <2>1
<1>5. ASSUME NEW i \in kept
      PROVE  Place(i) = IF i < m THEN i ELSE i - 1
  <2>1. i \in Nat /\ IsFiniteSet(1 .. i) /\ Cardinality(1 .. i) = i
    <3>1. i \in 1 .. n
      BY <1>2
    <3>2. QED
      BY <1>1, <3>1, IntervalSize
  <2>2. CASE i < m
    <3>1. {k \in kept : k <= i} = 1 .. i
      BY <1>1, <1>2, <2>2
    <3>2. QED
      BY <2>1, <2>2, <3>1
  <2>3. CASE ~ i < m
    <3>1. {k \in kept : k <= i} = (1 .. i) \ {m} /\ m \in 1 .. i
      BY <1>1, <1>2, <2>1, <2>3
    <3>2. QED
      BY <2>1, <2>3, <3>1, FS_RemoveElement
  <2>4. QED
    BY <2>2, <2>3
<1>6. ASSUME NEW p \in 1 .. n - 1
      PROVE  At(p) = IF p < m THEN p ELSE p + 1
  <2> DEFINE q == IF p < m THEN p ELSE p + 1
  <2>1. q \in kept
    BY <1>1, <1>2
  <2>2. Place(q) = p
    <3> HIDE DEF Place
    <3>1. QED
      BY <1>1, <1>5, <2>1
  <2>3. ASSUME NEW i \in kept, Place(i) = p PROVE i = q
    <3>1. Place(i) = IF i < m THEN i ELSE i - 1
      BY <1>5
    <3>2. i \in 1 .. n /\ i # m
      BY <1>2
    <3> HIDE DEF Place, kept
    <3>3. QED
      BY <1>1, <2>3, <3>1, <3>2
  <2> HIDE DEF q, Place, kept
  <2>4. QED
    BY <2>1, <2>2, <2>3 DEF q
<1>7. removeTenant(t) = list
  BY DEF removeTenant
<1> HIDE DEF Place, kept, At
<1>8. \A p \in 1 .. n - 1 : list[p] = IF p < m THEN order[p] ELSE order[p + 1]
  BY <1>4, <1>6
<1>9. list = [p \in 1 .. n - 1 |-> IF p < m THEN order[p] ELSE order[p + 1]]
  BY <1>4, <1>6
<1> HIDE DEF list
<1>10. \A p \in 1 .. n - 1 : (IF p < m THEN order[p] ELSE order[p + 1]) \in Tenants
  BY <1>1
<1>11. QED
  BY <1>1, <1>7, <1>8, <1>9, <1>10

----------------------------------------------------------------------------
(* The goroutines.                                                         *)

WorkingFor(t) == {g \in Goroutines : TenantOf[g[1]] = t}

LEMMA GoroutinesFinite ==
    ASSUME IsFiniteSet(Goroutines), NEW t
    PROVE  IsFiniteSet(WorkingFor(t)) /\ Cardinality(WorkingFor(t)) \in Nat
           /\ Cardinality(Goroutines) \in Nat
<1>1. WorkingFor(t) \in SUBSET Goroutines
  BY DEF WorkingFor
<1>2. QED
  BY <1>1, FS_Subset, FS_CardinalityType

\* A goroutine is a job and a number up to those that work for it.
LEMMA GoroutineNumbers ==
    ASSUME NEW r, NEW f
    PROVE  \A x : x \in UNION {{i} \X (1 .. r[i] + f[i]) : i \in Jobs} <=>
              \E i \in Jobs, p \in Int : 1 <= p /\ p <= r[i] + f[i] /\ x = <<i, p>>
<1> DEFINE U == UNION {{i} \X (1 .. r[i] + f[i]) : i \in Jobs}
<1>1. ASSUME NEW x, x \in U
      PROVE  \E i \in Jobs, p \in Int : 1 <= p /\ p <= r[i] + f[i] /\ x = <<i, p>>
  <2>1. PICK i \in Jobs : x \in {i} \X (1 .. r[i] + f[i])
    BY <1>1
  <2>2. PICK p \in 1 .. r[i] + f[i] : x = <<i, p>>
    BY <2>1
  <2>3. QED
    BY <2>2
<1>2. ASSUME NEW i \in Jobs, NEW p \in Int, 1 <= p, p <= r[i] + f[i]
      PROVE  <<i, p>> \in U
  BY <1>2
<1>3. QED
  BY <1>1, <1>2

\* A goroutine more for j.
LEMMA GoroutineStarts ==
    ASSUME TypeOK, IsFiniteSet(Goroutines), NEW j \in Jobs,
           running' = [running EXCEPT ![j] = @ + 1], finished' = finished
    PROVE  /\ IsFiniteSet(Goroutines') /\ Cardinality(Goroutines') = Cardinality(Goroutines) + 1
           /\ \A t \in Tenants :
                 Cardinality(WorkingFor(t)') =
                     IF TenantOf[j] = t THEN Cardinality(WorkingFor(t)) + 1
                     ELSE Cardinality(WorkingFor(t))
<1> DEFINE g == <<j, running[j] + finished[j] + 1>>
<1>1. Goroutines' = Goroutines \cup {g} /\ g \notin Goroutines
  <2>1. running \in [Jobs -> Nat] /\ finished \in [Jobs -> Nat]
    BY DEF TypeOK
  <2>2. \A x : x \in Goroutines' <=>
          \E i \in Jobs, p \in Int : 1 <= p /\ p <= running'[i] + finished'[i] /\ x = <<i, p>>
    BY GoroutineNumbers DEF Goroutines
  <2>3. \A x : x \in Goroutines <=>
          \E i \in Jobs, p \in Int : 1 <= p /\ p <= running[i] + finished[i] /\ x = <<i, p>>
    BY GoroutineNumbers DEF Goroutines
  <2>4. QED
    BY <2>1, <2>2, <2>3
<1>2. ASSUME NEW t \in Tenants
      PROVE  /\ WorkingFor(t)' = IF TenantOf[j] = t THEN WorkingFor(t) \cup {g} ELSE WorkingFor(t)
             /\ g \notin WorkingFor(t)
  BY <1>1 DEF WorkingFor
<1> HIDE DEF g
<1>3. IsFiniteSet(Goroutines') /\ Cardinality(Goroutines') = Cardinality(Goroutines) + 1
  BY <1>1, FS_AddElement
<1>4. ASSUME NEW t \in Tenants
      PROVE  Cardinality(WorkingFor(t)') =
                 IF TenantOf[j] = t THEN Cardinality(WorkingFor(t)) + 1
                 ELSE Cardinality(WorkingFor(t))
  <2>1. Cardinality(WorkingFor(t) \cup {g}) = Cardinality(WorkingFor(t)) + 1
    BY <1>2, GoroutinesFinite, FS_AddElement
  <2>2. QED
    BY <1>2, <2>1
<1>5. QED
  BY <1>3, <1>4

\* One of the goroutines of j has freed its slot.
LEMMA GoroutineEnds ==
    ASSUME TypeOK, IsFiniteSet(Goroutines), NEW j \in Jobs, finished[j] > 0,
           finished' = [finished EXCEPT ![j] = @ - 1], running' = running
    PROVE  /\ IsFiniteSet(Goroutines') /\ Cardinality(Goroutines') = Cardinality(Goroutines) - 1
           /\ Cardinality(Goroutines) > 0
           /\ \A t \in Tenants :
                 Cardinality(WorkingFor(t)') =
                     IF TenantOf[j] = t THEN Cardinality(WorkingFor(t)) - 1
                     ELSE Cardinality(WorkingFor(t))
<1> DEFINE g == <<j, running[j] + finished[j]>>
<1>1. Goroutines' = Goroutines \ {g} /\ g \in Goroutines
  <2>1. running \in [Jobs -> Nat] /\ finished \in [Jobs -> Nat]
    BY DEF TypeOK
  <2>2. \A x : x \in Goroutines' <=>
          \E i \in Jobs, p \in Int : 1 <= p /\ p <= running'[i] + finished'[i] /\ x = <<i, p>>
    BY GoroutineNumbers DEF Goroutines
  <2>3. \A x : x \in Goroutines <=>
          \E i \in Jobs, p \in Int : 1 <= p /\ p <= running[i] + finished[i] /\ x = <<i, p>>
    BY GoroutineNumbers DEF Goroutines
  <2>4. QED
    BY <2>1, <2>2, <2>3
<1>2. ASSUME NEW t \in Tenants
      PROVE  /\ WorkingFor(t)' = IF TenantOf[j] = t THEN WorkingFor(t) \ {g} ELSE WorkingFor(t)
             /\ TenantOf[j] = t => g \in WorkingFor(t)
  BY <1>1 DEF WorkingFor
<1> HIDE DEF g
<1>3. IsFiniteSet(Goroutines') /\ Cardinality(Goroutines') = Cardinality(Goroutines) - 1
  BY <1>1, FS_RemoveElement
<1>4. Cardinality(Goroutines) > 0
  <2>1. Cardinality(Goroutines) # 0
    BY <1>1, FS_EmptySet
  <2>2. Cardinality(Goroutines) \in Nat
    BY FS_CardinalityType
  <2>3. QED
    BY <2>1, <2>2
<1>5. ASSUME NEW t \in Tenants
      PROVE  Cardinality(WorkingFor(t)') =
                 IF TenantOf[j] = t THEN Cardinality(WorkingFor(t)) - 1
                 ELSE Cardinality(WorkingFor(t))
  <2>1. TenantOf[j] = t => Cardinality(WorkingFor(t) \ {g}) = Cardinality(WorkingFor(t)) - 1
    BY <1>2, GoroutinesFinite, FS_RemoveElement
  <2>2. QED
    BY <1>2, <2>1
<1>6. QED
  BY <1>3, <1>4, <1>5

\* Processing ends, the slot is still held.
LEMMA GoroutineFinishes ==
    ASSUME TypeOK, NEW j \in Jobs, running[j] > 0,
           running' = [running EXCEPT ![j] = @ - 1], finished' = [finished EXCEPT ![j] = @ + 1]
    PROVE  Goroutines' = Goroutines /\ \A t \in Tenants : WorkingFor(t)' = WorkingFor(t)
<1>1. \A i \in Jobs : running'[i] + finished'[i] = running[i] + finished[i]
  BY DEF TypeOK
<1>2. Goroutines' = Goroutines
  BY <1>1 DEF Goroutines
<1>3. QED
  BY <1>2 DEF WorkingFor

----------------------------------------------------------------------------
(* A hand-out.                                                             *)

\* How many tenants are looked at before order[i].
Ahead(i) == IF i - 1 >= next THEN i - 1 - next ELSE i - 1 - next + Len(order)

\* nextJob and the goroutine it is followed by, for the tenant order[m].
Hands(m) ==
    LET t == order[m]
    IN  /\ t \in Tenants /\ pending[t] \in Seq(Jobs) /\ pending[t] # <<>>
        /\ Head(pending[t]) \in Jobs /\ TenantOf[Head(pending[t])] = t
        /\ Eligible(t)
        /\ \A i \in DOMAIN order : Ahead(i) < Ahead(m) => ~ Eligible(order[i])
        /\ pending' = [pending EXCEPT ![t] = Tail(@)]
        /\ inflight' = [inflight EXCEPT ![t] = @ + 1]
        /\ lastTenant' = t /\ currentBurst' = BurstWith(t)
        /\ order' = IF Len(pending[t]) = 1 THEN removeTenant(t) ELSE order
        /\ next' = IF order' = <<>> THEN 0
                   ELSE IF Len(pending[t]) = 1 \/ BurstWith(t) < Burst THEN (m - 1) % Len(order')
                   ELSE m % Len(order)
        /\ bypassed' = [u \in Tenants |-> IF u # t /\ HasRoom(u) THEN bypassed[u] + 1 ELSE 0]
        /\ running' = [running EXCEPT ![Head(pending[t])] = @ + 1]

LEMMA SmallRemainder ==
    ASSUME NEW n \in Nat \ {0}
    PROVE  n % n = 0 /\ \A x \in Nat : x < n => x % n = x
OBVIOUS

LEMMA HandOutHands ==
    ASSUME TypeOK, OrderListsWaiting, HandOut
    PROVE  \E m \in DOMAIN order : Hands(m)
<1> DEFINE n == Len(order)
<1>1. PICK k \in 0 .. n - 1 :
        Take(k) /\ running' = [running EXCEPT ![Head(pending[TenantAt(k)])] = @ + 1]
  BY DEF HandOut
<1>0. order \in Seq(Tenants) /\ next \in Nat /\ (next < n \/ next = 0)
  BY DEF TypeOK, OrderListsWaiting
<1>2. n \in Nat \ {0} /\ k \in Nat /\ k < n /\ next \in Nat /\ next < n /\ DOMAIN order = 1 .. n
  <2>1. n \in Nat /\ DOMAIN order = 1 .. n
    BY <1>0
  <2>2. k \in Nat /\ k < n
    BY <2>1
  <2>3. QED
    BY <1>0, <2>1, <2>2
<1>3. ASSUME NEW x \in 0 .. n - 1
      PROVE  (next + x) % n = IF next + x < n THEN next + x ELSE next + x - n
  <2> DEFINE y == next + x
  <2> HIDE DEF n
  <2>1. y \in Nat /\ y < 2 * n
    BY <1>2
  <2> HIDE DEF y
  <2>2. y % n = IF y < n THEN y ELSE y - n
    BY <1>2, <2>1
  <2>3. QED
    BY <1>2, <2>1, <2>2 DEF y
<1> DEFINE m == ((next + k) % n) + 1
<1>4. m \in 1 .. n /\ m - 1 = (next + k) % n /\ Ahead(m) = k
  BY <1>2, <1>3 DEF Ahead
<1>5. ASSUME NEW i \in DOMAIN order
      PROVE  Ahead(i) \in 0 .. n - 1 /\ order[i] = TenantAt(Ahead(i))
  <2>0. i \in 1 .. n
    BY <1>2
  <2>1. /\ Ahead(i) \in 0 .. n - 1
        /\ i - 1 = IF next + Ahead(i) < n THEN next + Ahead(i) ELSE next + Ahead(i) - n
    BY <1>2, <2>0 DEF Ahead
  <2>a. ((next + Ahead(i)) % n) + 1 = i
    BY <1>3, <2>0, <2>1
  <2>2. QED
    BY <2>1, <2>a DEF TenantAt
<1>6. TenantAt(k) = order[m] /\ order[m] \in Tenants
  BY <1>4 DEF TenantAt, TypeOK
<1> DEFINE t == order[m]
<1>7. Eligible(t) /\ pending[t] # <<>> /\ pending[t] \in Seq(Jobs)
  BY <1>1, <1>6 DEF Take, Eligible, HasRoom, TypeOK
<1>8. Head(pending[t]) \in Jobs /\ TenantOf[Head(pending[t])] = t
  <2>1. 1 \in DOMAIN pending[t] /\ Head(pending[t]) = pending[t][1] /\ pending[t][1] \in Jobs
    BY <1>7
  <2>2. QED
    BY <1>6, <2>1 DEF TypeOK
<1>9. ASSUME NEW i \in DOMAIN order, Ahead(i) < Ahead(m) PROVE ~ Eligible(order[i])
  <2>1. Ahead(i) \in 0 .. k - 1
    BY <1>2, <1>4, <1>5, <1>9
  <2>2. QED
    BY <1>1, <1>5, <2>1 DEF Take
<1>10. m % n = (((next + k) % n) + 1) % n
  OBVIOUS
<1>11. Hands(m)
  BY <1>1, <1>4, <1>6, <1>7, <1>8, <1>9 DEF Take, Hands
<1>12. QED
  BY <1>2, <1>4, <1>11

----------------------------------------------------------------------------
(* The inductive invariant.                                                *)

\* What is queued, buffered or processed has arrived.
JobsArrived ==
    /\ queue \in Seq(arrived) /\ processing \in Seq(arrived)
    /\ \A t \in Tenants : pending[t] \in Seq(arrived)
    /\ \A j \in Jobs : running[j] > 0 => j \in arrived

SlotsCounted == IsFiniteSet(Goroutines) /\ sem = Cardinality(Goroutines)

\* What the tenant at next has used up of its burst, seen from order[i].
Spent(i) ==
    IF order[next + 1] = lastTenant /\ i # next + 1
      THEN IF currentBurst < Burst THEN currentBurst ELSE Burst
      ELSE 0

\* Hand-outs that may still pass order[i] over are counted with those that did.
TurnComes(i) ==
    bypassed[order[i]] + Ahead(i) * Burst - Spent(i) <= (Cardinality(Tenants) - 1) * Burst

RotationInv ==
    /\ \A t \in Tenants : HasRoom(t) \/ bypassed[t] = 0
    /\ lastTenant \in Tenants => bypassed[lastTenant] = 0
    /\ \A i \in DOMAIN order : TurnComes(i)

WorkerInv ==
    /\ TypeOK /\ JobsArrived /\ SlotsCounted /\ TenantCapHolds
    /\ OrderListsWaiting /\ ReservedIsHeld /\ RotationInv

----------------------------------------------------------------------------
(* The invariant holds at the start, and every step keeps it.              *)

LEMMA WorkerStarts == Init => WorkerInv
<1> SUFFICES ASSUME Init PROVE WorkerInv
  OBVIOUS
<1> USE WorkerAssumption DEF Init
<1>1. options \in OptionChoices /\ Concurrency \in Nat /\ Burst \in Nat /\ MaxFlight \in Nat
  BY DEF Concurrency, Burst, MaxFlight
<1>2. TypeOK
  BY <1>1 DEF TypeOK
<1>3. Goroutines = {}
  BY DEF Goroutines
<1>4. IsFiniteSet({}) /\ Cardinality({}) = 0
  BY FS_EmptySet
<1>5. JobsArrived /\ SlotsCounted
  BY <1>3, <1>4 DEF JobsArrived, SlotsCounted
<1>6. TenantCapHolds
  <2>1. \A t \in Tenants : WorkingFor(t) = {}
    BY <1>3 DEF WorkingFor
  <2>2. \A t \in Tenants : GoroutinesOf(t) = Cardinality(WorkingFor(t)) + released[t]
    BY DEF GoroutinesOf, WorkingFor
  <2>3. ASSUME NEW t \in Tenants PROVE GoroutinesOf(t) = 0
    <3>1. released[t] = 0
      OBVIOUS
    <3>2. Cardinality(WorkingFor(t)) = 0
      BY <1>4, <2>1
    <3>3. GoroutinesOf(t) = Cardinality(WorkingFor(t)) + released[t]
      BY <2>2
    <3>4. QED
      BY <3>1, <3>2, <3>3
  <2>4. QED
    BY <1>1, <2>3 DEF TenantCapHolds
<1>7. OrderListsWaiting
  BY DEF OrderListsWaiting
<1>8. ReservedIsHeld
  <2>1. ASSUME NEW j \in Jobs
        PROVE  Copies(j, <<>>) = 0 /\ pending[TenantOf[j]] = <<>>
    <3>1. PlacesOf(j, <<>>) = {} /\ <<>> \in Seq(Jobs)
      BY DEF PlacesOf
    <3>2. Copies(j, <<>>) = 0
      BY <1>4, <3>1, CopiesAreFinite
    <3>3. QED
      BY <3>2
  <2>2. QED
    BY <2>1 DEF ReservedIsHeld
<1>9. RotationInv
  BY DEF RotationInv, TurnComes
<1>10. QED
  BY <1>2, <1>5, <1>6, <1>7, <1>8, <1>9 DEF WorkerInv

\* What the lemmas below know of the options.
LEMMA OptionsAreNumbers ==
    ASSUME TypeOK
    PROVE  Concurrency \in Nat \ {0} /\ Burst \in Nat \ {0} /\ MaxFlight \in Nat \ {0}
BY WorkerAssumption DEF TypeOK, Concurrency, Burst, MaxFlight

LEMMA OptionsStay ==
    ASSUME [Next]_vars
    PROVE  options' = options /\ Concurrency' = Concurrency /\ Burst' = Burst
           /\ MaxFlight' = MaxFlight
<1>1. options' = options
  BY DEF Next, MainLoop, HandOut, FindFull, LookAgain, GoReserve, ReserveJob, ReserveFails, Finish,
         ReleaseSlot, Complete, Arrive, RecoverJob, queueVars, vars
<1>2. QED
  BY <1>1 DEF Concurrency, Burst, MaxFlight

\* The steps of the main loop that decide and change nothing else.
Decides == UNCHANGED <<queueVars, schedulerVars, goroutineVars, arrived>>

LEMMA StepCases ==
    ASSUME TypeOK, OrderListsWaiting, [Next]_vars
    PROVE  \/ HandOut /\ \E m \in DOMAIN order : Hands(m)
           \/ ReserveJob
           \/ \E j \in Jobs : Finish(j)
           \/ \E j \in Jobs : ReleaseSlot(j)
           \/ \E t \in Tenants : Complete(t)
           \/ \E j \in Jobs : Arrive(j)
           \/ RecoverJob
           \/ Decides
<1>1. CASE HandOut
  BY <1>1, HandOutHands
<1>2. CASE FindFull \/ LookAgain \/ GoReserve \/ ReserveFails \/ UNCHANGED vars
  BY <1>2 DEF FindFull, LookAgain, GoReserve, ReserveFails, Decides, vars
<1>3. QED
  BY <1>1, <1>2 DEF Next, MainLoop

\* What is in a list of one set is in a list of a larger one.
LEMMA SeqGrows ==
    ASSUME NEW S, NEW T, S \subseteq T, NEW s \in Seq(S)
    PROVE  s \in Seq(T)
<1>1. s \in [1 .. Len(s) -> T] /\ Len(s) \in Nat
  OBVIOUS
<1>2. QED
  BY <1>1, SeqDef

\* The type invariant in two parts, and without the jobs' tenants.
NumberTypes ==
    /\ next \in Nat /\ sem \in 0 .. Concurrency /\ currentBurst \in Nat /\ faults \in Nat
    /\ inflight \in [Tenants -> Nat] /\ released \in [Tenants -> Nat]
    /\ bypassed \in [Tenants -> Nat]
    /\ running \in [Jobs -> Nat] /\ finished \in [Jobs -> Nat]

ListTypes ==
    /\ queue \in Seq(Jobs) /\ processing \in Seq(Jobs)
    /\ pending \in [Tenants -> Seq(Jobs)] /\ order \in Seq(Tenants)
    /\ mainLoop \in {"schedule", "full", "reserve"}
    /\ lastTenant \in Tenants \cup {NoTenant}
    /\ processed \subseteq arrived /\ arrived \subseteq Jobs

OwnJobs(t) == \A i \in DOMAIN pending[t] : TenantOf[pending[t][i]] = t

LEMMA TypeParts ==
    ASSUME TypeOK PROVE NumberTypes /\ ListTypes /\ \A t \in Tenants : OwnJobs(t)
BY DEF TypeOK, NumberTypes, ListTypes, OwnJobs

LEMMA TypePartsAfter ==
    ASSUME options' \in OptionChoices, NumberTypes', ListTypes', \A t \in Tenants : OwnJobs(t)'
    PROVE  TypeOK'
BY DEF TypeOK, NumberTypes, ListTypes, OwnJobs

LEMMA NumberStep ==
    ASSUME WorkerInv, [Next]_vars
    PROVE  NumberTypes'
<1> USE WorkerAssumption
<1>0. /\ TypeOK /\ OrderListsWaiting /\ SlotsCounted
      /\ NumberTypes /\ ListTypes /\ \A t \in Tenants : OwnJobs(t)
  BY TypeParts DEF WorkerInv
<1>1. Concurrency' = Concurrency /\ Concurrency \in Nat \ {0}
  BY <1>0, OptionsStay, OptionsAreNumbers
<1>2. CASE HandOut /\ \E m \in DOMAIN order : Hands(m)
  <2>1. PICK m \in DOMAIN order : Hands(m)
    BY <1>2
  <2> DEFINE t == order[m]
  <2>2. next' \in Nat
    <3>0. order \in Seq(Tenants) /\ Distinct(order)
      BY <1>0 DEF ListTypes, Distinct, OrderListsWaiting
    <3>1. removeTenant(t) \in Seq(Tenants)
      BY <2>1, <3>0, RemovalClosesGap
    <3>2. order' \in Seq(Tenants)
      BY <2>1, <3>0, <3>1 DEF Hands
    <3>3. Len(order) \in Nat \ {0} /\ m \in Nat \ {0} /\ (order' # <<>> => Len(order') \in Nat \ {0})
      BY <3>0, <3>2
    <3>4. next' = IF order' = <<>> THEN 0
                  ELSE IF Len(pending[t]) = 1 \/ BurstWith(t) < Burst THEN (m - 1) % Len(order')
                  ELSE m % Len(order)
      BY <2>1 DEF Hands
    <3>5. QED
      BY <3>3, <3>4
  <2>3. inflight' \in [Tenants -> Nat] /\ bypassed' \in [Tenants -> Nat]
    <3>1. /\ t \in Tenants /\ inflight' = [inflight EXCEPT ![t] = @ + 1]
          /\ bypassed' = [u \in Tenants |-> IF u # t /\ HasRoom(u) THEN bypassed[u] + 1 ELSE 0]
      BY <2>1 DEF Hands
    <3>2. inflight' \in [Tenants -> Nat]
      BY <1>0, <3>1 DEF NumberTypes
    <3>3. \A u \in Tenants : (IF u # t /\ HasRoom(u) THEN bypassed[u] + 1 ELSE 0) \in Nat
      BY <1>0 DEF NumberTypes
    <3>4. QED
      BY <3>1, <3>2, <3>3
  <2>4. currentBurst' \in Nat
    <3>1. currentBurst' = BurstWith(t)
      BY <2>1 DEF Hands
    <3>2. QED
      BY <1>0, <3>1 DEF NumberTypes, BurstWith
  <2>5. running' \in [Jobs -> Nat]
    <3>1. Head(pending[t]) \in Jobs /\ running' = [running EXCEPT ![Head(pending[t])] = @ + 1]
      BY <2>1 DEF Hands
    <3> HIDE DEF t
    <3>2. QED
      BY <1>0, <3>1 DEF NumberTypes
  <2>6. /\ sem < Concurrency /\ sem' = sem + 1
        /\ UNCHANGED <<finished, released, faults>>
    BY <1>2 DEF HandOut
  <2>7. QED
    BY <1>0, <1>1, <2>2, <2>3, <2>4, <2>5, <2>6 DEF NumberTypes
<1>3. CASE ReserveJob
  <2>1. /\ UNCHANGED <<next, inflight, currentBurst, goroutineVars, faults>>
        /\ bypassed' = bypassed \/ bypassed' = [t \in Tenants |-> 0]
    BY <1>3 DEF ReserveJob
  <2>2. QED
    BY <1>0, <1>1, <2>1 DEF NumberTypes, goroutineVars
<1>4. ASSUME NEW j \in Jobs, Finish(j) PROVE NumberTypes'
  <2>1. running' \in [Jobs -> Nat] /\ finished' \in [Jobs -> Nat]
    <3>1. /\ running[j] > 0 /\ running' = [running EXCEPT ![j] = @ - 1]
          /\ finished' = [finished EXCEPT ![j] = @ + 1]
      BY <1>4 DEF Finish
    <3>2. QED
      BY <1>0, <3>1 DEF NumberTypes
  <2>2. QED
    BY <1>0, <1>1, <1>4, <2>1 DEF Finish, schedulerVars, NumberTypes
<1>5. ASSUME NEW j \in Jobs, ReleaseSlot(j) PROVE NumberTypes'
  <2>0. /\ finished[j] > 0 /\ finished' = [finished EXCEPT ![j] = @ - 1]
        /\ released' = [released EXCEPT ![TenantOf[j]] = @ + 1]
        /\ sem' = sem - 1
        /\ UNCHANGED <<schedulerVars, running, faults>>
    BY <1>5 DEF ReleaseSlot
  <2>1. sem > 0
    BY <1>0, <2>0, GoroutineEnds DEF SlotsCounted
  <2>2. finished' \in [Jobs -> Nat] /\ released' \in [Tenants -> Nat]
    BY <1>0, <2>0 DEF NumberTypes
  <2>3. QED
    BY <1>0, <1>1, <2>0, <2>1, <2>2 DEF schedulerVars, NumberTypes
<1>6. ASSUME NEW t \in Tenants, Complete(t) PROVE NumberTypes'
  <2>1. /\ released[t] > 0 /\ released' = [released EXCEPT ![t] = @ - 1]
        /\ inflight' = [inflight EXCEPT ![t] = IF @ > 0 THEN @ - 1 ELSE @]
        /\ UNCHANGED <<next, currentBurst, bypassed, sem, running, finished, faults>>
    BY <1>6 DEF Complete
  <2>2. released' \in [Tenants -> Nat] /\ inflight' \in [Tenants -> Nat]
    BY <1>0, <2>1 DEF NumberTypes
  <2>3. QED
    BY <1>0, <1>1, <2>1, <2>2 DEF NumberTypes
<1>7. CASE \/ FindFull \/ LookAgain \/ GoReserve \/ ReserveFails \/ UNCHANGED vars \/ RecoverJob
           \/ \E j \in Jobs : Arrive(j)
  <2>1. UNCHANGED <<schedulerVars, goroutineVars>>
    BY <1>7 DEF FindFull, LookAgain, GoReserve, ReserveFails, RecoverJob, Arrive, vars
  <2>2. faults' \in Nat
    <3>1. faults' = faults \/ (faults > 0 /\ faults' = faults - 1)
      BY <1>7 DEF FindFull, LookAgain, GoReserve, ReserveFails, RecoverJob, Arrive, vars
    <3>2. QED
      BY <1>0, <3>1 DEF NumberTypes
  <2>3. QED
    BY <1>0, <1>1, <2>1, <2>2 DEF schedulerVars, goroutineVars, NumberTypes
<1>8. QED
  BY <1>0, <1>2, <1>3, <1>4, <1>5, <1>6, <1>7, HandOutHands DEF Next, MainLoop

LEMMA ListStep ==
    ASSUME WorkerInv, [Next]_vars
    PROVE  ListTypes' /\ \A t \in Tenants : OwnJobs(t)'
<1> USE WorkerAssumption
<1>0. /\ TypeOK /\ OrderListsWaiting /\ JobsArrived
      /\ NumberTypes /\ ListTypes /\ \A t \in Tenants : OwnJobs(t)
  BY TypeParts DEF WorkerInv
<1> DEFINE Goal == ListTypes' /\ \A t \in Tenants : OwnJobs(t)'
<1>1. CASE HandOut /\ \E m \in DOMAIN order : Hands(m)
  <2>1. PICK m \in DOMAIN order : Hands(m)
    BY <1>1
  <2> DEFINE t == order[m]
  <2>2. /\ order \in Seq(Tenants) /\ m \in 1 .. Len(order) /\ Distinct(order) /\ t \in Tenants
    BY <1>0, <2>1 DEF Hands, ListTypes, Distinct, OrderListsWaiting
  <2>3. order' \in Seq(Tenants)
    <3>1. removeTenant(t) \in Seq(Tenants)
      BY <2>2, RemovalClosesGap
    <3>2. QED
      BY <2>1, <2>2, <3>1 DEF Hands
  <2>4. pending[t] \in Seq(Jobs) /\ pending[t] # <<>> /\ pending' = [pending EXCEPT ![t] = Tail(@)]
    BY <2>1 DEF Hands
  <2>5. /\ Tail(pending[t]) \in Seq(Jobs)
        /\ \A i \in DOMAIN Tail(pending[t]) :
              i + 1 \in DOMAIN pending[t] /\ Tail(pending[t])[i] = pending[t][i + 1]
    BY <2>4
  <2>6. pending' \in [Tenants -> Seq(Jobs)] /\ pending'[t] = Tail(pending[t])
        /\ \A u \in Tenants : u # t => pending'[u] = pending[u]
    BY <1>0, <2>2, <2>4, <2>5 DEF ListTypes
  <2>7. ASSUME NEW u \in Tenants PROVE OwnJobs(u)'
    <3> HIDE DEF t
    <3>1. CASE u = t
      <4>1. ASSUME NEW i \in DOMAIN pending'[t] PROVE TenantOf[pending'[t][i]] = t
        <5>1. i + 1 \in DOMAIN pending[t] /\ pending'[t][i] = pending[t][i + 1]
          BY <2>5, <2>6
        <5>2. QED
          BY <1>0, <2>2, <5>1 DEF OwnJobs
      <4>2. QED
        BY <3>1, <4>1 DEF OwnJobs
    <3>2. CASE u # t
      BY <1>0, <2>6, <3>2 DEF OwnJobs
    <3>3. QED
      BY <3>1, <3>2
  <2>8. lastTenant' = t
    BY <2>1 DEF Hands
  <2>9. QED
    BY <1>0, <1>1, <2>2, <2>3, <2>6, <2>7, <2>8 DEF HandOut, queueVars, ListTypes
<1>2. CASE ReserveJob
  <2> DEFINE j == Last(queue)
             t == TenantOf[j]
  <2>1. /\ queue # <<>> /\ queue' = Front(queue) /\ processing' = <<j>> \o processing
        /\ order' = IF pending[t] = <<>> THEN Append(order, t) ELSE order
        /\ pending' = [pending EXCEPT ![t] = Append(@, j)]
        /\ mainLoop' = "schedule" /\ UNCHANGED <<lastTenant, processed, arrived>>
    BY <1>2 DEF ReserveJob, Add, goroutineVars
  <2>2. Front(queue) \in Seq(Jobs) /\ j \in Jobs /\ t \in Tenants
    <3>1. Front(queue) \in Seq(Jobs) /\ j \in Jobs
      BY <1>0, <2>1, CopiesFront DEF ListTypes
    <3>2. QED
      BY <3>1
  <2> HIDE DEF j
  <2>3. queue' \in Seq(Jobs) /\ processing' \in Seq(Jobs) /\ order' \in Seq(Tenants)
    BY <1>0, <2>1, <2>2 DEF ListTypes
  <2>4. /\ Append(pending[t], j) \in Seq(Jobs) /\ pending[t] \in Seq(Jobs)
        /\ \A i \in DOMAIN Append(pending[t], j) :
              Append(pending[t], j)[i] = j \/ (i \in DOMAIN pending[t] /\ Append(pending[t], j)[i] = pending[t][i])
    <3>1. pending[t] \in Seq(Jobs)
      BY <1>0, <2>2 DEF ListTypes
    <3>2. QED
      BY <2>2, <3>1
  <2>5. pending' \in [Tenants -> Seq(Jobs)] /\ pending'[t] = Append(pending[t], j)
        /\ \A u \in Tenants : u # t => pending'[u] = pending[u]
    BY <1>0, <2>1, <2>2, <2>4 DEF ListTypes
  <2>6. \A u \in Tenants : OwnJobs(u)'
    <3> SUFFICES ASSUME NEW u \in Tenants PROVE OwnJobs(u)'
      OBVIOUS
    <3> HIDE DEF t
    <3>1. CASE u = t
      <4>1. ASSUME NEW i \in DOMAIN pending'[t] PROVE TenantOf[pending'[t][i]] = t
        <5>1. CASE pending'[t][i] = j
          BY <5>1 DEF t
        <5>2. CASE i \in DOMAIN pending[t] /\ pending'[t][i] = pending[t][i]
          BY <1>0, <2>2, <5>2 DEF OwnJobs
        <5>3. QED
          BY <2>4, <2>5, <5>1, <5>2
      <4>2. QED
        BY <3>1, <4>1 DEF OwnJobs
    <3>2. CASE u # t
      BY <1>0, <2>5, <3>2 DEF OwnJobs
    <3>3. QED
      BY <3>1, <3>2
  <2>7. QED
    BY <1>0, <2>1, <2>3, <2>5, <2>6 DEF ListTypes
<1>3. ASSUME NEW j \in Jobs, Finish(j) PROVE Goal
  <2>1. /\ processing' = RemoveFirst(processing, j) /\ processed' = processed \cup {j}
        /\ UNCHANGED <<queue, mainLoop, pending, order, lastTenant, arrived>>
    BY <1>3 DEF Finish, schedulerVars
  <2>2. processing' \in Seq(Jobs)
    BY <1>0, <2>1, CopiesRemoveFirst DEF ListTypes
  <2>3. j \in arrived
    BY <1>0, <1>3 DEF JobsArrived, Finish
  <2>4. QED
    BY <1>0, <2>1, <2>2, <2>3 DEF ListTypes, OwnJobs
<1>4. ASSUME NEW j \in Jobs, Arrive(j) PROVE Goal
  <2>1. /\ queue' = Append(queue, j) /\ arrived' = arrived \cup {j}
        /\ UNCHANGED <<processing, mainLoop, pending, order, lastTenant, processed>>
    BY <1>4 DEF Arrive, schedulerVars, goroutineVars
  <2>2. queue' \in Seq(Jobs)
    BY <1>0, <2>1 DEF ListTypes
  <2>3. QED
    BY <1>0, <2>1, <2>2 DEF ListTypes, OwnJobs
<1>5. CASE RecoverJob
  <2>1. /\ processing # <<>> /\ queue' = <<Last(processing)>> \o queue /\ processing' = Front(processing)
        /\ UNCHANGED <<mainLoop, pending, order, lastTenant, processed, arrived>>
    BY <1>5 DEF RecoverJob, schedulerVars, goroutineVars
  <2>2. Front(processing) \in Seq(Jobs) /\ Last(processing) \in Jobs
    BY <1>0, <2>1, CopiesFront DEF ListTypes
  <2>3. queue' \in Seq(Jobs) /\ processing' \in Seq(Jobs)
    BY <1>0, <2>1, <2>2 DEF ListTypes
  <2>4. QED
    BY <1>0, <2>1, <2>3 DEF ListTypes, OwnJobs
<1>6. CASE \/ FindFull \/ LookAgain \/ GoReserve \/ ReserveFails \/ UNCHANGED vars
           \/ \E j \in Jobs : ReleaseSlot(j)
           \/ \E t \in Tenants : Complete(t)
  <2>1. UNCHANGED <<queue, processing, pending, order, lastTenant, processed, arrived>>
    BY <1>6 DEF FindFull, LookAgain, GoReserve, ReserveFails, ReleaseSlot, Complete, vars, queueVars,
                schedulerVars, goroutineVars
  <2>2. mainLoop' \in {"schedule", "full", "reserve"}
    BY <1>0, <1>6 DEF FindFull, LookAgain, GoReserve, ReserveFails, ReleaseSlot, Complete, vars, ListTypes
  <2>3. QED
    BY <1>0, <2>1, <2>2 DEF ListTypes, OwnJobs
<1>7. QED
  BY <1>0, <1>1, <1>2, <1>3, <1>4, <1>5, <1>6, HandOutHands DEF Next, MainLoop

LEMMA TypeStep ==
    ASSUME WorkerInv, [Next]_vars
    PROVE  TypeOK'
<1>1. options' \in OptionChoices
  BY OptionsStay DEF WorkerInv, TypeOK
<1>2. QED
  BY <1>1, NumberStep, ListStep, TypePartsAfter

LEMMA JobsArrivedStep ==
    ASSUME WorkerInv, [Next]_vars
    PROVE  JobsArrived'
<1> USE WorkerAssumption
<1>0. TypeOK /\ OrderListsWaiting /\ JobsArrived
  BY DEF WorkerInv
<1>1. CASE HandOut /\ \E m \in DOMAIN order : Hands(m)
  <2>1. PICK m \in DOMAIN order : Hands(m)
    BY <1>1
  <2> DEFINE t == order[m]
  <2>2. t \in Tenants /\ pending[t] \in Seq(arrived) /\ pending[t] # <<>>
    BY <1>0, <2>1 DEF Hands, JobsArrived
  <2>3. Tail(pending[t]) \in Seq(arrived) /\ Head(pending[t]) \in arrived
    BY <2>2
  <2>4. \A u \in Tenants : pending'[u] \in Seq(arrived)
    BY <1>0, <2>1, <2>2, <2>3 DEF Hands, JobsArrived, TypeOK
  <2>5. \A j \in Jobs : running'[j] > 0 => j \in arrived
    BY <1>0, <2>1, <2>3 DEF Hands, JobsArrived, TypeOK
  <2>6. QED
    BY <1>0, <1>1, <2>4, <2>5 DEF HandOut, queueVars, JobsArrived
<1>2. CASE ReserveJob
  <2> DEFINE j == Last(queue)
  <2>1. Front(queue) \in Seq(arrived) /\ j \in arrived /\ j \in Jobs
    <3>1. queue \in Seq(arrived) /\ queue \in Seq(Jobs) /\ queue # <<>>
      BY <1>0, <1>2 DEF JobsArrived, ReserveJob, TypeOK
    <3>2. QED
      BY <3>1, CopiesFront
  <2> HIDE DEF j
  <2>2. queue' \in Seq(arrived) /\ processing' \in Seq(arrived)
    BY <1>0, <1>2, <2>1 DEF ReserveJob, JobsArrived, j
  <2>3. \A u \in Tenants : pending'[u] \in Seq(arrived)
    <3>1. pending' = [pending EXCEPT ![TenantOf[j]] = Append(@, j)] /\ TenantOf[j] \in Tenants
      BY <1>2, <2>1 DEF ReserveJob, Add, j
    <3>2. Append(pending[TenantOf[j]], j) \in Seq(arrived)
      BY <1>0, <2>1, <3>1 DEF JobsArrived
    <3>3. QED
      BY <1>0, <3>1, <3>2 DEF JobsArrived, TypeOK
  <2>4. QED
    BY <1>0, <1>2, <2>2, <2>3 DEF ReserveJob, goroutineVars, JobsArrived
<1>3. ASSUME NEW j \in Jobs, Finish(j) PROVE JobsArrived'
  <2>1. processing' \in Seq(arrived)
    BY <1>0, <1>3, CopiesRemoveFirst DEF Finish, JobsArrived
  <2>2. \A i \in Jobs : running'[i] > 0 => i \in arrived
    BY <1>0, <1>3 DEF Finish, JobsArrived, TypeOK
  <2>3. QED
    BY <1>0, <1>3, <2>1, <2>2 DEF Finish, schedulerVars, JobsArrived
<1>4. ASSUME NEW j \in Jobs, Arrive(j) PROVE JobsArrived'
  <2>1. ASSUME NEW s \in Seq(arrived) PROVE s \in Seq(arrived')
    BY <1>4, <2>1, SeqGrows DEF Arrive
  <2>2. queue' \in Seq(arrived')
    BY <1>0, <1>4, <2>1 DEF Arrive, JobsArrived
  <2>3. QED
    BY <1>0, <1>4, <2>1, <2>2 DEF Arrive, schedulerVars, goroutineVars, JobsArrived
<1>5. CASE RecoverJob
  <2>1. Front(processing) \in Seq(arrived) /\ Last(processing) \in arrived
    BY <1>0, <1>5, CopiesFront DEF JobsArrived, RecoverJob
  <2>2. QED
    BY <1>0, <1>5, <2>1 DEF RecoverJob, schedulerVars, goroutineVars, JobsArrived
<1>6. CASE \/ \E j \in Jobs : ReleaseSlot(j)
           \/ \E t \in Tenants : Complete(t)
           \/ Decides
  BY <1>0, <1>6
     DEF ReleaseSlot, Complete, Decides, queueVars, schedulerVars, goroutineVars, JobsArrived
<1>7. QED
  BY <1>0, <1>1, <1>2, <1>3, <1>4, <1>5, <1>6, StepCases

LEMMA CountsOf ==
    \A t : GoroutinesOf(t) = Cardinality(WorkingFor(t)) + released[t]
BY DEF GoroutinesOf, WorkingFor

\* What the scheduler counts for t is what runs for t.
Counted(t) == Cardinality(WorkingFor(t)) + released[t] = inflight[t] /\ inflight[t] <= MaxFlight

LEMMA CapByTenant == TenantCapHolds <=> \A t \in Tenants : Counted(t)
BY CountsOf DEF TenantCapHolds, Counted

LEMMA CapByTenantAfter ==
    ASSUME \A t \in Tenants : Counted(t)' PROVE TenantCapHolds'
BY DEF TenantCapHolds, Counted, GoroutinesOf, WorkingFor

LEMMA SlotStep ==
    ASSUME WorkerInv, [Next]_vars
    PROVE  SlotsCounted' /\ TenantCapHolds'
<1> USE WorkerAssumption
<1>0. /\ TypeOK /\ OrderListsWaiting /\ SlotsCounted /\ NumberTypes
      /\ \A t \in Tenants : Counted(t)
  BY TypeParts, CapByTenant DEF WorkerInv
<1>a. MaxFlight' = MaxFlight /\ MaxFlight \in Nat
  BY <1>0, OptionsStay, OptionsAreNumbers
<1>b. ASSUME NEW t \in Tenants
      PROVE  /\ Cardinality(WorkingFor(t)) \in Nat /\ released[t] \in Nat /\ inflight[t] \in Nat
             /\ Cardinality(WorkingFor(t)) + released[t] = inflight[t] /\ inflight[t] <= MaxFlight
  BY <1>0, GoroutinesFinite DEF SlotsCounted, NumberTypes, Counted
<1>c. Cardinality(Goroutines) \in Nat /\ IsFiniteSet(Goroutines) /\ sem = Cardinality(Goroutines)
  BY <1>0, FS_CardinalityType DEF SlotsCounted
<1> DEFINE Goal == SlotsCounted' /\ \A t \in Tenants : Counted(t)'
<1> SUFFICES Goal
  BY CapByTenantAfter
<1>1. CASE HandOut /\ \E m \in DOMAIN order : Hands(m)
  <2>1. PICK m \in DOMAIN order : Hands(m)
    BY <1>1
  <2> DEFINE t == order[m]
             j == Head(pending[t])
  <2>2. /\ t \in Tenants /\ j \in Jobs /\ TenantOf[j] = t
        /\ inflight[t] < MaxFlight /\ inflight' = [inflight EXCEPT ![t] = @ + 1]
        /\ running' = [running EXCEPT ![j] = @ + 1] /\ sem' = sem + 1
        /\ finished' = finished /\ released' = released
    BY <1>1, <2>1 DEF Hands, HandOut, Eligible, HasRoom
  <2> HIDE DEF t, j
  <2>3. /\ IsFiniteSet(Goroutines') /\ Cardinality(Goroutines') = Cardinality(Goroutines) + 1
        /\ \A u \in Tenants :
              Cardinality(WorkingFor(u)') =
                  IF t = u THEN Cardinality(WorkingFor(u)) + 1 ELSE Cardinality(WorkingFor(u))
    BY <1>0, <1>c, <2>2, GoroutineStarts
  <2>4. SlotsCounted'
    BY <1>c, <2>2, <2>3 DEF SlotsCounted
  <2>5. ASSUME NEW u \in Tenants PROVE Counted(u)'
    <3>1. inflight'[u] = IF t = u THEN inflight[u] + 1 ELSE inflight[u]
      BY <1>0, <2>2 DEF NumberTypes
    <3>2. QED
      BY <1>a, <1>b, <2>2, <2>3, <3>1 DEF Counted
  <2>6. QED
    BY <2>4, <2>5
<1>2. ASSUME NEW j \in Jobs, Finish(j) PROVE Goal
  <2>1. /\ running[j] > 0 /\ running' = [running EXCEPT ![j] = @ - 1]
        /\ finished' = [finished EXCEPT ![j] = @ + 1] /\ UNCHANGED <<sem, released, inflight>>
    BY <1>2 DEF Finish, schedulerVars
  <2>2. Goroutines' = Goroutines /\ \A t \in Tenants : WorkingFor(t)' = WorkingFor(t)
    BY <1>0, <2>1, GoroutineFinishes
  <2>3. QED
    BY <1>0, <1>a, <2>1, <2>2 DEF SlotsCounted, Counted
<1>3. ASSUME NEW j \in Jobs, ReleaseSlot(j) PROVE Goal
  <2> DEFINE t == TenantOf[j]
  <2>1. /\ t \in Tenants /\ finished[j] > 0 /\ finished' = [finished EXCEPT ![j] = @ - 1]
        /\ released' = [released EXCEPT ![t] = @ + 1] /\ sem' = sem - 1
        /\ running' = running /\ inflight' = inflight
    BY <1>3 DEF ReleaseSlot, schedulerVars
  <2>2. /\ IsFiniteSet(Goroutines') /\ Cardinality(Goroutines') = Cardinality(Goroutines) - 1
        /\ \A u \in Tenants :
              Cardinality(WorkingFor(u)') =
                  IF t = u THEN Cardinality(WorkingFor(u)) - 1 ELSE Cardinality(WorkingFor(u))
    BY <1>0, <1>c, <2>1, GoroutineEnds
  <2> HIDE DEF t
  <2>3. SlotsCounted'
    BY <1>c, <2>1, <2>2 DEF SlotsCounted
  <2>4. ASSUME NEW u \in Tenants PROVE Counted(u)'
    <3>1. released'[u] = IF t = u THEN released[u] + 1 ELSE released[u]
      BY <1>0, <2>1 DEF NumberTypes
    <3>2. QED
      BY <1>a, <1>b, <2>1, <2>2, <3>1 DEF Counted
  <2>5. QED
    BY <2>3, <2>4
<1>4. ASSUME NEW t \in Tenants, Complete(t) PROVE Goal
  <2>1. /\ released[t] > 0 /\ released' = [released EXCEPT ![t] = @ - 1]
        /\ inflight' = [inflight EXCEPT ![t] = IF @ > 0 THEN @ - 1 ELSE @]
        /\ UNCHANGED <<sem, running, finished>>
    BY <1>4 DEF Complete
  <2>2. Goroutines' = Goroutines /\ \A u \in Tenants : WorkingFor(u)' = WorkingFor(u)
    BY <2>1 DEF Goroutines, WorkingFor
  <2>3. ASSUME NEW u \in Tenants PROVE Counted(u)'
    <3>1. /\ released'[u] = IF t = u THEN released[u] - 1 ELSE released[u]
          /\ inflight'[u] = IF t = u THEN inflight[u] - 1 ELSE inflight[u]
      BY <1>0, <1>b, <2>1 DEF NumberTypes
    <3>2. QED
      BY <1>a, <1>b, <2>2, <3>1 DEF Counted
  <2>4. QED
    BY <1>0, <2>1, <2>2, <2>3 DEF SlotsCounted
<1>5. CASE \/ ReserveJob \/ RecoverJob \/ Decides \/ \E j \in Jobs : Arrive(j)
  <2>1. UNCHANGED <<sem, running, finished, released, inflight>>
    BY <1>5 DEF ReserveJob, RecoverJob, Decides, Arrive, goroutineVars, schedulerVars
  <2>2. Goroutines' = Goroutines /\ \A u \in Tenants : WorkingFor(u)' = WorkingFor(u)
    BY <2>1 DEF Goroutines, WorkingFor
  <2>3. QED
    BY <1>0, <1>a, <2>1, <2>2 DEF SlotsCounted, Counted
<1>6. QED
  BY <1>0, <1>1, <1>2, <1>3, <1>4, <1>5, StepCases

\* The copies of a job are where its tenant is served, or it runs.
Held(j) == Copies(j, processing) <= Copies(j, pending[TenantOf[j]]) + running[j]

LEMMA HeldStep ==
    ASSUME WorkerInv, [Next]_vars
    PROVE  ReservedIsHeld'
<1> USE WorkerAssumption
<1>0. /\ TypeOK /\ OrderListsWaiting /\ NumberTypes /\ ListTypes
      /\ \A j \in Jobs : Held(j)
  BY TypeParts DEF WorkerInv, ReservedIsHeld, Held
<1> SUFFICES \A j \in Jobs : Held(j)'
  BY DEF ReservedIsHeld, Held
<1> TAKE i \in Jobs
<1> DEFINE u == TenantOf[i]
<1>a. /\ u \in Tenants /\ running[i] \in Nat
      /\ processing \in Seq(Jobs) /\ pending[u] \in Seq(Jobs)
  BY <1>0 DEF ListTypes, NumberTypes
<1>b. /\ Copies(i, processing) \in Nat /\ Copies(i, pending[u]) \in Nat
      /\ Copies(i, processing) <= Copies(i, pending[u]) + running[i]
  BY <1>0, <1>a, CopiesAreFinite DEF Held
<1> HIDE DEF u
<1>1. CASE HandOut /\ \E m \in DOMAIN order : Hands(m)
  <2>1. PICK m \in DOMAIN order : Hands(m)
    BY <1>1
  <2> DEFINE t == order[m]
             j == Head(pending[t])
  <2>2. /\ t \in Tenants /\ pending[t] \in Seq(Jobs) /\ pending[t] # <<>> /\ j \in Jobs
        /\ TenantOf[j] = t
        /\ pending' = [pending EXCEPT ![t] = Tail(@)] /\ running' = [running EXCEPT ![j] = @ + 1]
        /\ processing' = processing
    BY <1>1, <2>1 DEF Hands, HandOut, queueVars
  <2>3. CASE u = t
    <3>1. Copies(i, pending[u]) =
            IF j = i THEN Copies(i, Tail(pending[u])) + 1 ELSE Copies(i, Tail(pending[u]))
      BY <2>2, <2>3, CopiesTail
    <3>2. Copies(i, Tail(pending[u])) \in Nat
      <4>1. Tail(pending[u]) \in Seq(Jobs)
        BY <2>2, <2>3
      <4>2. QED
        BY <4>1, CopiesAreFinite
    <3>3. pending'[u] = Tail(pending[u])
      BY <1>0, <2>2, <2>3 DEF ListTypes
    <3> HIDE DEF j, t
    <3>4. running'[i] = IF j = i THEN running[i] + 1 ELSE running[i]
      BY <1>0, <2>2 DEF NumberTypes
    <3>5. QED
      BY <1>a, <1>b, <2>2, <3>1, <3>2, <3>3, <3>4 DEF Held, u
  <2>4. CASE u # t
    <3>1. i # j
      BY <2>2, <2>4 DEF u
    <3> HIDE DEF j, t
    <3>2. pending'[u] = pending[u] /\ running'[i] = running[i]
      BY <1>0, <1>a, <2>2, <2>4, <3>1 DEF ListTypes, NumberTypes
    <3>3. QED
      BY <1>b, <2>2, <3>2 DEF Held, u
  <2>5. QED
    BY <2>3, <2>4
<1>2. CASE ReserveJob
  <2> DEFINE j == Last(queue)
             t == TenantOf[j]
  <2>1. /\ queue # <<>> /\ processing' = <<j>> \o processing
        /\ pending' = [pending EXCEPT ![t] = Append(@, j)] /\ running' = running
    BY <1>2 DEF ReserveJob, Add, goroutineVars
  <2>2. j \in Jobs /\ t \in Tenants
    <3>1. j \in Jobs
      BY <1>0, <2>1, CopiesFront DEF ListTypes
    <3>2. QED
      BY <3>1
  <2> HIDE DEF j
  <2>3. Copies(i, processing') = IF j = i THEN Copies(i, processing) + 1 ELSE Copies(i, processing)
    BY <1>a, <2>1, <2>2, CopiesCons
  <2>4. CASE u = t
    <3>1. pending'[u] = Append(pending[u], j)
      BY <1>0, <2>1, <2>2, <2>4 DEF ListTypes
    <3>2. Copies(i, Append(pending[u], j)) =
            IF j = i THEN Copies(i, pending[u]) + 1 ELSE Copies(i, pending[u])
      BY <1>a, <2>2, CopiesAppend
    <3>3. QED
      BY <1>a, <1>b, <2>1, <2>3, <3>1, <3>2 DEF Held, u
  <2>5. CASE u # t
    <3>1. i # j
      BY <2>5 DEF u
    <3>2. pending'[u] = pending[u]
      BY <1>0, <1>a, <2>1, <2>5 DEF ListTypes
    <3>3. QED
      BY <1>b, <2>1, <2>3, <3>1, <3>2 DEF Held, u
  <2>6. QED
    BY <2>4, <2>5
<1>3. ASSUME NEW j \in Jobs, Finish(j) PROVE Held(i)'
  <2>1. /\ running[j] > 0 /\ running' = [running EXCEPT ![j] = @ - 1]
        /\ processing' = RemoveFirst(processing, j) /\ pending' = pending
    BY <1>3 DEF Finish, schedulerVars
  <2>2. /\ Copies(i, processing') <= Copies(i, processing)
        /\ i = j /\ Copies(i, processing) > 0 => Copies(i, processing') < Copies(i, processing)
        /\ Copies(i, processing') \in Nat
    <3>1. /\ RemoveFirst(processing, j) \in Seq(Jobs)
          /\ Copies(i, RemoveFirst(processing, j)) <= Copies(i, processing)
          /\ Copies(j, processing) > 0 => Copies(j, RemoveFirst(processing, j)) < Copies(j, processing)
      BY <1>a, CopiesRemoveFirst
    <3>2. QED
      BY <2>1, <3>1, CopiesAreFinite
  <2>3. running'[i] = IF j = i THEN running[i] - 1 ELSE running[i]
    BY <1>0, <2>1 DEF NumberTypes
  <2>4. QED
    BY <1>a, <1>b, <2>1, <2>2, <2>3 DEF Held, u
<1>4. CASE RecoverJob
  <2>1. processing # <<>> /\ processing' = Front(processing) /\ pending' = pending /\ running' = running
    BY <1>4 DEF RecoverJob, schedulerVars, goroutineVars
  <2>2. /\ Front(processing) \in Seq(Jobs)
        /\ Copies(i, processing) = IF Last(processing) = i THEN Copies(i, Front(processing)) + 1
                                   ELSE Copies(i, Front(processing))
    BY <1>a, <2>1, CopiesFront
  <2>3. Copies(i, Front(processing)) \in Nat
    BY <2>2, CopiesAreFinite
  <2>4. QED
    BY <1>a, <1>b, <2>1, <2>2, <2>3 DEF Held, u
<1>5. CASE \/ Decides \/ \E j \in Jobs : ReleaseSlot(j) \/ Arrive(j)
           \/ \E t \in Tenants : Complete(t)
  <2>1. UNCHANGED <<processing, pending, running>>
    BY <1>5 DEF Decides, ReleaseSlot, Arrive, Complete, queueVars, schedulerVars, goroutineVars
  <2>2. QED
    BY <1>0, <2>1 DEF Held
<1>6. QED
  BY <1>0, <1>1, <1>2, <1>3, <1>4, <1>5, StepCases

\* The rotation after order[m] was served: what is left of it, and where the
\* search begins next time.
LEMMA RotationAfter ==
    ASSUME TypeOK, OrderListsWaiting, NEW m \in DOMAIN order, Hands(m)
    PROVE  /\ order \in Seq(Tenants) /\ Len(order) \in Nat \ {0} /\ m \in 1 .. Len(order)
           /\ next \in Nat /\ next < Len(order) /\ Distinct(order)
           /\ \/ /\ Len(pending[order[m]]) = 1 /\ pending'[order[m]] = <<>>
                 /\ order' \in Seq(Tenants) /\ Len(order') = Len(order) - 1
                 /\ \A p \in 1 .. Len(order) - 1 :
                       order'[p] = IF p < m THEN order[p] ELSE order[p + 1]
                 /\ next' = IF m = Len(order) THEN 0 ELSE m - 1
              \/ /\ Len(pending[order[m]]) # 1 /\ pending'[order[m]] # <<>>
                 /\ order' = order
                 /\ next' = IF BurstWith(order[m]) < Burst THEN m - 1
                            ELSE IF m = Len(order) THEN 0 ELSE m
<1> DEFINE t == order[m]
           n == Len(order)
<1>1. /\ order \in Seq(Tenants) /\ n \in Nat \ {0} /\ m \in 1 .. n
      /\ next \in Nat /\ next < n /\ Distinct(order)
  <2>1. order \in Seq(Tenants) /\ next \in Nat
    BY TypeParts DEF ListTypes, NumberTypes
  <2>2. Distinct(order) /\ (next < n \/ next = 0)
    BY DEF OrderListsWaiting, Distinct
  <2>3. n \in Nat \ {0} /\ m \in 1 .. n
    BY <2>1
  <2>4. QED
    BY <2>1, <2>2, <2>3
<1>2. /\ t \in Tenants /\ pending[t] \in Seq(Jobs) /\ pending[t] # <<>>
      /\ pending' = [pending EXCEPT ![t] = Tail(@)]
      /\ order' = IF Len(pending[t]) = 1 THEN removeTenant(t) ELSE order
      /\ next' = IF order' = <<>> THEN 0
                 ELSE IF Len(pending[t]) = 1 \/ BurstWith(t) < Burst THEN (m - 1) % Len(order')
                 ELSE m % n
  BY DEF Hands
<1>3. pending'[t] = Tail(pending[t]) /\ (Tail(pending[t]) = <<>> <=> Len(pending[t]) = 1)
  <2>1. pending'[t] = Tail(pending[t])
    BY <1>2, TypeParts DEF ListTypes
  <2> DEFINE q == pending[t]
  <2>2. q \in Seq(Jobs) /\ q # <<>>
    BY <1>2
  <2> HIDE DEF q
  <2>3. Tail(q) = <<>> <=> Len(q) = 1
    <3>1. Tail(q) \in Seq(Jobs) /\ Len(Tail(q)) = Len(q) - 1 /\ Len(q) \in Nat
      BY <2>2
    <3>2. Tail(q) = <<>> <=> Len(Tail(q)) = 0
      BY <3>1, EmptySeq
    <3>3. QED
      BY <3>1, <3>2
  <2>4. QED
    BY <2>1, <2>3 DEF q
<1>4. CASE Len(pending[t]) = 1
  <2>1. order' = removeTenant(t)
    BY <1>2, <1>4
  <2>2. /\ order' \in Seq(Tenants) /\ Len(order') = n - 1
        /\ \A p \in 1 .. n - 1 : order'[p] = IF p < m THEN order[p] ELSE order[p + 1]
    BY <1>1, <2>1, RemovalClosesGap
  <2>3. next' = IF m = n THEN 0 ELSE m - 1
    <3>0. next' = IF order' = <<>> THEN 0 ELSE (m - 1) % Len(order')
      BY <1>2, <1>4
    <3> HIDE DEF n
    <3>1. CASE n = 1
      <4>1. order' = <<>>
        BY <2>2, <3>1, EmptySeq
      <4>2. QED
        BY <1>1, <3>0, <3>1, <4>1
    <3>2. CASE n # 1
      <4> DEFINE q == n - 1
      <4>1. q \in Nat \ {0} /\ Len(order') = q /\ m - 1 \in Nat /\ (m = n \/ m - 1 < q)
        BY <1>1, <2>2, <3>2
      <4>2. m = n => m - 1 = q
        OBVIOUS
      <4> HIDE DEF q
      <4>3. order' # <<>>
        BY <4>1, EmptySeq
      <4>4. (m = n => (m - 1) % q = 0) /\ (m # n => (m - 1) % q = m - 1)
        BY <4>1, <4>2, SmallRemainder
      <4>5. QED
        BY <3>0, <4>1, <4>3, <4>4
    <3>3. QED
      BY <3>1, <3>2
  <2>4. QED
    BY <1>1, <1>3, <1>4, <2>2, <2>3
<1>5. CASE Len(pending[t]) # 1
  <2>1. order' = order /\ order' # <<>>
    <3>1. order' = order
      BY <1>2, <1>5
    <3>2. QED
      BY <1>1, <3>1
  <2>2. next' = IF BurstWith(t) < Burst THEN (m - 1) % n ELSE m % n
    BY <1>2, <1>5, <2>1
  <2>3. (m - 1) % n = m - 1 /\ m % n = IF m = n THEN 0 ELSE m
    <3> HIDE DEF n
    <3>1. (m - 1) % n = m - 1
      BY <1>1
    <3>2. n % n = 0
      BY <1>1
    <3>3. ASSUME m # n PROVE m % n = m
      BY <1>1, <3>3
    <3>4. QED
      BY <3>1, <3>2, <3>3
  <2>4. QED
    BY <1>1, <1>3, <1>5, <2>1, <2>2, <2>3
<1>6. QED
  BY <1>4, <1>5

\* A job is buffered: the rotation has its tenant, new or already there.
LEMMA RotationAdds ==
    ASSUME TypeOK, OrderListsWaiting, ReserveJob
    PROVE  \E t \in Tenants :
             /\ pending'[t] # <<>> /\ \A u \in Tenants : u # t => pending'[u] = pending[u]
             /\ next' = next /\ inflight' = inflight
             /\ lastTenant' = lastTenant /\ currentBurst' = currentBurst
             /\ \/ pending[t] # <<>> /\ order' = order /\ bypassed' = bypassed
                \/ /\ pending[t] = <<>> /\ order' = Append(order, t) /\ order' # order
                   /\ bypassed' = [u \in Tenants |-> 0]
<1> DEFINE j == Last(queue)
           t == TenantOf[j]
<1>0. ListTypes /\ TenantOf \in [Jobs -> Tenants]
  BY TypeParts, WorkerAssumption
<1>1. /\ queue # <<>> /\ pending' = [pending EXCEPT ![t] = Append(@, j)]
      /\ order' = IF pending[t] = <<>> THEN Append(order, t) ELSE order
      /\ bypassed' = IF order' = order THEN bypassed ELSE [u \in Tenants |-> 0]
      /\ UNCHANGED <<next, inflight, lastTenant, currentBurst>>
  BY DEF ReserveJob, Add
<1>2. j \in Jobs /\ t \in Tenants
  <2>1. j \in Jobs
    BY <1>0, <1>1, CopiesFront DEF ListTypes
  <2>2. QED
    BY <1>0, <2>1
<1> HIDE DEF j, t
<1>3. pending'[t] = Append(pending[t], j) /\ \A u \in Tenants : u # t => pending'[u] = pending[u]
  BY <1>0, <1>1, <1>2 DEF ListTypes
<1>4. pending'[t] # <<>>
  <2>1. pending[t] \in Seq(Jobs)
    BY <1>0, <1>2 DEF ListTypes
  <2>2. Append(pending[t], j) # <<>>
    BY <1>2, <2>1
  <2>3. QED
    BY <1>3, <2>2
<1>5. Append(order, t) # order
  <2>1. order \in Seq(Tenants)
    BY <1>0 DEF ListTypes
  <2>2. Len(Append(order, t)) = Len(order) + 1 /\ Len(order) \in Nat
    BY <1>2, <2>1
  <2>3. QED
    BY <2>2
<1>6. QED
  BY <1>1, <1>2, <1>3, <1>4, <1>5 DEF t

LEMMA OrderStep ==
    ASSUME WorkerInv, [Next]_vars
    PROVE  OrderListsWaiting'
<1> USE WorkerAssumption
<1>0. /\ TypeOK /\ NumberTypes /\ ListTypes /\ OrderListsWaiting
      /\ order \in Seq(Tenants) /\ next \in Nat
  BY TypeParts DEF WorkerInv, ListTypes, NumberTypes
<1>a. /\ \A t \in Tenants : (\E i \in DOMAIN order : order[i] = t) <=> pending[t] # <<>>
      /\ Distinct(order) /\ (next < Len(order) \/ next = 0)
  BY <1>0 DEF OrderListsWaiting, Distinct
<1> SUFFICES /\ \A t \in Tenants : (\E i \in DOMAIN order' : order'[i] = t) <=> pending'[t] # <<>>
             /\ Distinct(order') /\ (next' < Len(order') \/ next' = 0)
  BY DEF OrderListsWaiting, Distinct
<1>1. CASE HandOut /\ \E m \in DOMAIN order : Hands(m)
  <2>1. PICK m \in DOMAIN order : Hands(m)
    BY <1>1
  <2> DEFINE t == order[m]
             n == Len(order)
             Left == /\ order' \in Seq(Tenants) /\ Len(order') = n - 1
                     /\ \A p \in 1 .. n - 1 : order'[p] = IF p < m THEN order[p] ELSE order[p + 1]
                     /\ next' = IF m = n THEN 0 ELSE m - 1
             Stays == /\ order' = order
                      /\ next' = IF BurstWith(t) < Burst THEN m - 1 ELSE IF m = n THEN 0 ELSE m
  <2>2. /\ n \in Nat \ {0} /\ m \in 1 .. n /\ DOMAIN order = 1 .. n
        /\ (pending'[t] = <<>> /\ Left) \/ (pending'[t] # <<>> /\ Stays)
    BY <1>0, <2>1, RotationAfter
  <2>3. t \in Tenants /\ \A u \in Tenants : u # t => pending'[u] = pending[u]
    BY <1>0, <2>1 DEF Hands, ListTypes
  <2> HIDE DEF n
  <2>4. CASE pending'[t] = <<>> /\ Left
    <3>1. DOMAIN order' = 1 .. n - 1
      BY <2>2, <2>4
    <3>2. Distinct(order')
      <4> DEFINE Was(p) == IF p < m THEN p ELSE p + 1
      <4>1. ASSUME NEW p \in 1 .. n - 1 PROVE Was(p) \in DOMAIN order /\ order'[p] = order[Was(p)]
        <5>1. order'[p] = IF p < m THEN order[p] ELSE order[p + 1]
          BY <2>4
        <5>2. Was(p) \in 1 .. n
          BY <2>2
        <5>3. QED
          BY <2>2, <5>1, <5>2
      <4>2. \A p, q \in 1 .. n - 1 : p # q => Was(p) # Was(q)
        BY <2>2
      <4> HIDE DEF Was
      <4>3. QED
        BY <1>a, <3>1, <4>1, <4>2 DEF Distinct
    <3>3. next' < Len(order') \/ next' = 0
      BY <2>2, <2>4
    <3>4. ASSUME NEW u \in Tenants, u # t
          PROVE  (\E i \in DOMAIN order' : order'[i] = u) <=> (\E i \in DOMAIN order : order[i] = u)
      <4>1. ASSUME NEW i \in DOMAIN order' PROVE \E k \in DOMAIN order : order[k] = order'[i]
        BY <2>2, <2>4, <3>1
      <4>2. ASSUME NEW i \in DOMAIN order, order[i] = u
            PROVE  \E k \in DOMAIN order' : order'[k] = u
        <5>1. CASE i < m
          <6>1. i \in 1 .. n - 1 /\ order'[i] = u
            BY <2>2, <2>4, <4>2, <5>1
          <6>2. QED
            BY <3>1, <6>1
        <5>2. CASE i > m
          <6>1. i - 1 \in 1 .. n - 1 /\ order'[i - 1] = u
            BY <2>2, <2>4, <4>2, <5>2
          <6>2. QED
            BY <3>1, <6>1
        <5>3. i \in 1 .. n /\ i # m
          BY <2>2, <3>4, <4>2
        <5>4. QED
          BY <2>2, <5>1, <5>2, <5>3
      <4>3. QED
        BY <4>1, <4>2
    <3>5. ~ \E i \in DOMAIN order' : order'[i] = t
      <4> SUFFICES ASSUME NEW i \in DOMAIN order' PROVE order'[i] # order[m]
        OBVIOUS
      <4>1. /\ i \in 1 .. n /\ i + 1 \in 1 .. n
            /\ order'[i] = IF i < m THEN order[i] ELSE order[i + 1]
        BY <2>2, <2>4, <3>1
      <4>2. i < m => order[i] # order[m]
        BY <1>a, <2>2, <4>1 DEF Distinct
      <4>3. ~ i < m => order[i + 1] # order[m]
        BY <1>a, <2>2, <4>1 DEF Distinct
      <4>4. QED
        BY <4>1, <4>2, <4>3
    <3>6. QED
      BY <1>a, <2>3, <2>4, <3>2, <3>3, <3>4, <3>5
  <2>5. CASE pending'[t] # <<>> /\ Stays
    <3>1. next' < Len(order') \/ next' = 0
      <4>1. order' = order /\ (next' = m - 1 \/ next' = 0 \/ (m # n /\ next' = m))
        BY <2>5
      <4>2. QED
        BY <2>2, <4>1
    <3>2. pending[t] # <<>>
      BY <2>1 DEF Hands
    <3> HIDE DEF t
    <3>3. QED
      BY <1>a, <2>3, <2>5, <3>1, <3>2
  <2>6. QED
    BY <2>2, <2>4, <2>5
<1>2. CASE ReserveJob
  <2>1. PICK t \in Tenants :
             /\ pending'[t] # <<>> /\ \A u \in Tenants : u # t => pending'[u] = pending[u]
             /\ next' = next
             /\ \/ pending[t] # <<>> /\ order' = order
                \/ pending[t] = <<>> /\ order' = Append(order, t)
    BY <1>0, <1>2, RotationAdds
  <2>2. CASE pending[t] # <<>> /\ order' = order
    BY <1>a, <2>1, <2>2
  <2>3. CASE pending[t] = <<>> /\ order' = Append(order, t)
    <3>1. ~ \E i \in DOMAIN order : order[i] = t
      BY <1>a, <2>3
    <3>2. /\ Len(order) \in Nat /\ Len(order') = Len(order) + 1 /\ DOMAIN order = 1 .. Len(order)
          /\ DOMAIN order' = 1 .. Len(order) + 1
          /\ \A i \in 1 .. Len(order) : order'[i] = order[i]
          /\ order'[Len(order) + 1] = t
      BY <1>0, <2>3
    <3>3. Distinct(order')
      BY <1>a, <3>1, <3>2 DEF Distinct
    <3>4. next' < Len(order') \/ next' = 0
      BY <1>0, <1>a, <2>1, <3>2
    <3>5. ASSUME NEW u \in Tenants
          PROVE  (\E i \in DOMAIN order' : order'[i] = u)
                 <=> (u = t \/ \E i \in DOMAIN order : order[i] = u)
      BY <3>2
    <3>6. QED
      BY <1>a, <2>1, <3>3, <3>4, <3>5
  <2>4. QED
    BY <2>1, <2>2, <2>3
<1>3. CASE \/ RecoverJob \/ Decides
           \/ \E j \in Jobs : Finish(j) \/ ReleaseSlot(j) \/ Arrive(j)
           \/ \E t \in Tenants : Complete(t)
  <2>1. UNCHANGED <<order, pending, next>>
    BY <1>3 DEF RecoverJob, Decides, Finish, ReleaseSlot, Arrive, Complete, schedulerVars
  <2>2. QED
    BY <1>a, <2>1
<1>4. QED
  BY <1>0, <1>1, <1>2, <1>3, StepCases

----------------------------------------------------------------------------
(* A tenant that could run has its turn.                                   *)

LEMMA RotationFits ==
    ASSUME NEW s \in Seq(Tenants), Distinct(s)
    PROVE  Cardinality(Tenants) \in Nat /\ Len(s) <= Cardinality(Tenants)
<1>1. IsFiniteSet(Tenants) /\ Cardinality(Tenants) \in Nat
  BY WorkerAssumption, FS_CardinalityType
<1>2. s \in [1 .. Len(s) -> Tenants] /\ Len(s) \in Nat
  OBVIOUS
<1>3. s \in Injection(1 .. Len(s), Tenants)
  BY <1>2 DEF Distinct, Injection, IsInjective
<1>4. Cardinality(1 .. Len(s)) <= Cardinality(Tenants)
  BY <1>1, <1>3, FS_Injection
<1>5. QED
  BY <1>1, <1>2, <1>4, IntervalSize

LEMMA Products ==
    ASSUME NEW b \in Nat \ {0}
    PROVE  /\ \A x, y \in Int : x <= y => x * b <= y * b
           /\ \A x \in Int : x * b \in Int /\ (x - 1) * b = x * b - b
           /\ \A x \in Nat : x * b \in Nat
OBVIOUS

\* The count of those that may still pass a place over, when the one k places
\* ahead is served: it is behind that one, or before it.
LEMMA TurnNearer ==
    ASSUME NEW b \in Nat \ {0}, NEW total \in Int, NEW count \in Nat, NEW a \in Nat, NEW k \in Nat,
           NEW spent \in Nat, NEW burst \in Nat \ {0}, k < a, spent <= b,
           k = 0 => burst = spent + 1 /\ spent < b,
           count + a * b - spent <= total
    PROVE  /\ count + 1 + (a - k - 1) * b <= total
           /\ count + 1 + (a - k) * b - burst <= total
<1>1. a * b \in Int /\ (a - 1) * b \in Int /\ (a - 1) * b = a * b - b
  BY Products
<1>2. CASE k = 0
  BY <1>1, <1>2
<1>3. CASE k # 0
  <2> DEFINE x == a - k
  <2>1. x \in Int /\ x <= a - 1 /\ a - k - 1 = x - 1
    BY <1>3
  <2>2. x * b \in Int /\ x * b <= (a - 1) * b /\ (x - 1) * b = x * b - b
    <3> HIDE DEF x
    <3>1. QED
      BY <2>1, Products
  <2>3. (a - k - 1) * b = x * b - b /\ (a - k) * b = x * b
    BY <2>1, <2>2
  <2> HIDE DEF x
  <2>4. QED
    BY <1>1, <2>2, <2>3
<1>4. QED
  BY <1>2, <1>3

LEMMA TurnBehind ==
    ASSUME NEW b \in Nat \ {0}, NEW size \in Nat, NEW count \in Nat, NEW a \in Nat, NEW spent \in Nat,
           \/ count = 0 /\ a <= size - 1
           \/ count = 1 /\ a <= size - 2
           \/ count = 1 /\ a <= size - 1 /\ spent > 0
    PROVE  count + a * b - spent <= (size - 1) * b
<1> DEFINE c == a * b
           d == (size - 1) * b
<1>1. c \in Int /\ d \in Int
  BY Products
<1>2. a <= size - 1 => c <= d
  BY Products
<1>3. a <= size - 2 => c <= d - b
  <2>1. a <= size - 2 => (a + 1) * b <= d
    BY Products
  <2>2. (a + 1) * b = a * b + b
    BY Products
  <2>3. QED
    BY <2>1, <2>2
<1>4. QED
  <2> HIDE DEF c, d
  <2>1. count + c - spent <= d
    BY <1>1, <1>2, <1>3
  <2>2. QED
    BY <2>1 DEF c, d

LEMMA SpentIsSmall ==
    ASSUME TypeOK, NEW i
    PROVE  Spent(i) \in Nat /\ Spent(i) <= Burst
<1>1. Burst \in Nat \ {0} /\ currentBurst \in Nat
  BY OptionsAreNumbers, TypeParts DEF NumberTypes
<1>2. QED
  BY <1>1 DEF Spent

\* Where the places of the rotation are seen from, after order[m] was served.
LEMMA PlaceAfter ==
    ASSUME TypeOK, OrderListsWaiting, NEW m \in DOMAIN order, Hands(m), Burst' = Burst,
           NEW p \in DOMAIN order'
    PROVE  /\ Ahead(p)' \in Nat /\ Ahead(p)' <= Len(order) - 1
           /\ \/ order'[p] = order[m]
              \/ \E i \in DOMAIN order :
                    /\ i # m /\ order'[p] = order[i]
                    /\ \/ Ahead(p)' = IF Ahead(i) > Ahead(m) THEN Ahead(i) - Ahead(m) - 1
                                      ELSE Ahead(i) - Ahead(m) - 1 + Len(order)
                       \/ /\ Spent(p)' = BurstWith(order[m])
                          /\ Ahead(p)' = IF Ahead(i) > Ahead(m) THEN Ahead(i) - Ahead(m)
                                         ELSE Ahead(i) - Ahead(m) + Len(order)
<1> DEFINE n == Len(order)
           t == order[m]
<1>1. /\ order \in Seq(Tenants) /\ n \in Nat \ {0} /\ m \in 1 .. n /\ next \in Nat /\ next < n
      /\ DOMAIN order = 1 .. n
      /\ \/ /\ order' \in Seq(Tenants) /\ Len(order') = n - 1
            /\ \A q \in 1 .. n - 1 : order'[q] = IF q < m THEN order[q] ELSE order[q + 1]
            /\ next' = IF m = n THEN 0 ELSE m - 1
         \/ /\ order' = order
            /\ next' = IF BurstWith(t) < Burst THEN m - 1 ELSE IF m = n THEN 0 ELSE m
  BY RotationAfter
<1>2. lastTenant' = t /\ currentBurst' = BurstWith(t) /\ BurstWith(t) \in Nat
  <2>1. currentBurst \in Nat
    BY TypeParts DEF NumberTypes
  <2>2. lastTenant' = t /\ currentBurst' = BurstWith(t)
    BY DEF Hands
  <2>3. QED
    BY <2>1, <2>2 DEF BurstWith
<1>a. /\ n \in Nat \ {0} /\ m \in 1 .. n /\ next \in Nat /\ next < n
      /\ \A x : Ahead(x) = IF x - 1 >= next THEN x - 1 - next ELSE x - 1 - next + n
  <2>1. n \in Nat \ {0} /\ m \in 1 .. n /\ next \in Nat /\ next < n
    BY <1>1
  <2>2. \A x : Ahead(x) = IF x - 1 >= next THEN x - 1 - next ELSE x - 1 - next + n
    BY DEF Ahead
  <2>3. QED
    BY <2>1, <2>2
<1>3. CASE /\ order' \in Seq(Tenants) /\ Len(order') = n - 1
           /\ \A q \in 1 .. n - 1 : order'[q] = IF q < m THEN order[q] ELSE order[q + 1]
           /\ next' = IF m = n THEN 0 ELSE m - 1
  <2> DEFINE i == IF p < m THEN p ELSE p + 1
  <2>1. p \in 1 .. n - 1
    BY <1>3
  <2>2. i \in 1 .. n /\ i # m /\ order'[p] = order[i]
    BY <1>1, <1>3, <2>1
  <2>3. Ahead(p)' = IF p - 1 >= next' THEN p - 1 - next' ELSE p - 1 - next' + (n - 1)
    BY <1>3 DEF Ahead
  <2>4. /\ Ahead(p)' \in Nat /\ Ahead(p)' <= n - 1
        /\ Ahead(p)' = IF Ahead(i) > Ahead(m) THEN Ahead(i) - Ahead(m) - 1
                       ELSE Ahead(i) - Ahead(m) - 1 + n
    <3>1. next' = IF m = n THEN 0 ELSE m - 1
      BY <1>3
    <3> HIDE DEF n
    <3>2. Ahead(p)' = IF p >= m THEN p - m ELSE p - m + n - 1
      BY <1>a, <2>1, <2>3, <3>1
    <3>3. Ahead(p)' \in Nat /\ Ahead(p)' <= n - 1
      BY <1>a, <2>1, <3>2
    <3>4. CASE p < m
      BY <1>a, <2>1, <3>2, <3>4
    <3>5. CASE ~ p < m
      BY <1>a, <2>1, <3>2, <3>5
    <3>6. QED
      BY <3>3, <3>4, <3>5
  <2>5. QED
    BY <1>1, <2>2, <2>4
<1>4. CASE /\ order' = order
           /\ next' = IF BurstWith(t) < Burst THEN m - 1 ELSE IF m = n THEN 0 ELSE m
  <2>1. p \in 1 .. n
    BY <1>1, <1>4
  <2>2. Ahead(p)' = IF p - 1 >= next' THEN p - 1 - next' ELSE p - 1 - next' + n
    BY <1>4 DEF Ahead
  <2>3. Ahead(p)' \in Nat /\ Ahead(p)' <= n - 1
    <3> HIDE DEF n
    <3>1. next' \in 0 .. n - 1
      BY <1>1, <1>4
    <3>2. QED
      BY <1>1, <2>1, <2>2, <3>1
  <2>4. CASE p = m
    BY <1>4, <2>3, <2>4
  <2>5. CASE p # m /\ BurstWith(t) < Burst
    <3>1. next' = m - 1
      BY <1>4, <2>5
    <3>2. order'[next' + 1] = lastTenant' /\ p # next' + 1
      <4>1. next' + 1 = m
        BY <1>a, <3>1
      <4>2. QED
        BY <1>2, <1>4, <2>5, <4>1
    <3>3. Spent(p)' = BurstWith(t)
      BY <1>2, <2>5, <3>2 DEF Spent
    <3>4. Ahead(p)' = IF Ahead(p) > Ahead(m) THEN Ahead(p) - Ahead(m)
                      ELSE Ahead(p) - Ahead(m) + n
      <4> HIDE DEF n
      <4>1. p # m
        BY <2>5
      <4>2. Ahead(p)' = IF p >= m THEN p - m ELSE p - m + n
        BY <1>a, <2>1, <2>2, <3>1
      <4>3. QED
        BY <1>a, <2>1, <4>1, <4>2
    <3>5. QED
      BY <1>1, <1>4, <2>1, <2>3, <2>5, <3>3, <3>4
  <2>6. CASE p # m /\ ~ BurstWith(t) < Burst
    <3>1. next' = IF m = n THEN 0 ELSE m
      BY <1>4, <2>6
    <3>2. Ahead(p)' = IF Ahead(p) > Ahead(m) THEN Ahead(p) - Ahead(m) - 1
                      ELSE Ahead(p) - Ahead(m) - 1 + n
      <4> HIDE DEF n
      <4>1. p # m
        BY <2>6
      <4>2. Ahead(p)' = IF p > m THEN p - m - 1 ELSE p - m - 1 + n
        BY <1>a, <2>1, <2>2, <3>1, <4>1
      <4>3. QED
        BY <1>a, <2>1, <4>1, <4>2
    <3>3. QED
      BY <1>1, <1>4, <2>1, <2>3, <2>6, <3>2
  <2>7. QED
    BY <2>4, <2>5, <2>6
<1>5. QED
  BY <1>1, <1>3, <1>4

\* A hand-out leaves every tenant of the rotation within its bound.
LEMMA HandOutTurns ==
    ASSUME TypeOK, OrderListsWaiting, RotationInv, NEW m \in DOMAIN order, Hands(m), Burst' = Burst
    PROVE  \A p \in DOMAIN order' : TurnComes(p)'
<1> DEFINE n == Len(order)
           t == order[m]
           N == Cardinality(Tenants)
           k == Ahead(m)
           c == BurstWith(t)
<1> TAKE p \in DOMAIN order'
<1>1. /\ order \in Seq(Tenants) /\ n \in Nat \ {0} /\ m \in 1 .. n /\ DOMAIN order = 1 .. n
      /\ next \in Nat /\ next < n /\ N \in Nat /\ n <= N
  BY RotationAfter, RotationFits
<1>2. /\ Burst \in Nat \ {0} /\ bypassed \in [Tenants -> Nat] /\ currentBurst \in Nat
      /\ lastTenant \in Tenants \cup {NoTenant}
  BY OptionsAreNumbers, TypeParts DEF NumberTypes, ListTypes
<1>3. /\ t \in Tenants /\ Eligible(t) /\ lastTenant' = t /\ currentBurst' = c
      /\ bypassed' = [u \in Tenants |-> IF u # t /\ HasRoom(u) THEN bypassed[u] + 1 ELSE 0]
      /\ \A i \in DOMAIN order : Ahead(i) < k => ~ Eligible(order[i])
  BY DEF Hands
<1>4. c \in Nat \ {0}
  BY <1>2 DEF BurstWith
<1>5. Spent(p)' \in Nat
  BY <1>2, <1>3, <1>4 DEF Spent
<1>6. /\ Ahead(p)' \in Nat /\ Ahead(p)' <= n - 1
      /\ \/ order'[p] = order[m]
         \/ \E i \in DOMAIN order :
               /\ i # m /\ order'[p] = order[i]
               /\ \/ Ahead(p)' = IF Ahead(i) > k THEN Ahead(i) - k - 1 ELSE Ahead(i) - k - 1 + n
                  \/ /\ Spent(p)' = c
                     /\ Ahead(p)' = IF Ahead(i) > k THEN Ahead(i) - k ELSE Ahead(i) - k + n
  BY PlaceAfter
<1> DEFINE a2 == Ahead(p)'
           s2 == Spent(p)'
           count == bypassed'[order'[p]]
<1>a. TurnComes(p)' <=> count + a2 * Burst - s2 <= (N - 1) * Burst
  BY DEF TurnComes
<1>7. CASE order'[p] = t
  <2>1. count = 0
    BY <1>3, <1>7
  <2> HIDE DEF a2, s2, count, N, n
  <2>2. count + a2 * Burst - s2 <= (N - 1) * Burst
    <3>1. a2 \in Nat /\ a2 <= N - 1 /\ s2 \in Nat /\ N \in Nat
      BY <1>1, <1>5, <1>6 DEF a2, s2
    <3>2. QED
      BY <1>2, <2>1, <3>1, TurnBehind
  <2>3. QED
    BY <1>a, <2>2
<1>8. ASSUME NEW i \in DOMAIN order, i # m, order'[p] = order[i],
             \/ a2 = IF Ahead(i) > k THEN Ahead(i) - k - 1 ELSE Ahead(i) - k - 1 + n
             \/ /\ s2 = c
                /\ a2 = IF Ahead(i) > k THEN Ahead(i) - k ELSE Ahead(i) - k + n
      PROVE  TurnComes(p)'
  <2> DEFINE u == order[i]
             a == Ahead(i)
             sp == Spent(i)
  <2>1. u \in Tenants /\ bypassed[u] \in Nat /\ u # t
    <3>1. u \in Tenants
      BY <1>1
    <3>2. Distinct(order)
      BY RotationAfter
    <3>3. u # t
      BY <1>8, <3>2 DEF Distinct
    <3>4. QED
      BY <1>2, <3>1, <3>3
  <2>2. count = IF HasRoom(u) THEN bypassed[u] + 1 ELSE 0
    BY <1>3, <1>8, <2>1
  <2>3. /\ a \in Nat /\ k \in Nat /\ a # k /\ a <= n - 1 /\ k <= n - 1
        /\ k = 0 => m = next + 1 /\ i # next + 1
    <3>1. i \in 1 .. n /\ m \in 1 .. n /\ i # m /\ n \in Nat \ {0} /\ next \in Nat /\ next < n
      BY <1>1, <1>8
    <3>2. /\ a = IF i - 1 >= next THEN i - 1 - next ELSE i - 1 - next + n
          /\ k = IF m - 1 >= next THEN m - 1 - next ELSE m - 1 - next + n
      BY DEF Ahead
    <3> HIDE DEF n, a, k
    <3>3. QED
      BY <3>1, <3>2
  <2>4. sp \in Nat /\ sp <= Burst /\ bypassed[u] + a * Burst - sp <= (N - 1) * Burst
    BY SpentIsSmall DEF RotationInv, TurnComes
  <2>5. CASE a > k
    <3>1. k = 0 => c = sp + 1 /\ sp < Burst
      <4> SUFFICES ASSUME k = 0 PROVE c = sp + 1 /\ sp < Burst
        OBVIOUS
      <4>1. m = next + 1 /\ i # next + 1
        BY <2>3
      <4>2. n > 1
        BY <1>1, <2>3, <2>5
      <4>3. CASE t = lastTenant
        <5>1. currentBurst < Burst
          BY <1>2, <1>3, <4>2, <4>3 DEF Eligible, BurstSpent
        <5>2. sp = currentBurst
          BY <4>1, <4>3, <5>1 DEF Spent
        <5>3. c = currentBurst + 1
          BY <4>3 DEF BurstWith
        <5>4. QED
          BY <5>1, <5>2, <5>3
      <4>4. CASE t # lastTenant
        <5>1. sp = 0
          BY <4>1, <4>4 DEF Spent
        <5>2. c = 1
          BY <4>4 DEF BurstWith
        <5>3. QED
          BY <1>2, <5>1, <5>2
      <4>5. QED
        BY <4>3, <4>4
    <3> DEFINE total == (N - 1) * Burst
    <3>2. total \in Int
      BY <1>1, <1>2, Products
    <3>3. \/ a2 = a - k - 1
          \/ s2 = c /\ a2 = a - k
      BY <1>8, <2>5
    <3>4. bypassed[u] + a * Burst - sp <= total /\ s2 \in Nat /\ a2 \in Nat
      BY <1>5, <1>6, <2>4
    <3> HIDE DEF a2, s2, count, N, n, a, k, c, sp, u, total
    <3>5. /\ bypassed[u] + 1 + (a - k - 1) * Burst <= total
          /\ bypassed[u] + 1 + (a - k) * Burst - c <= total
      BY <1>2, <1>4, <2>1, <2>3, <2>4, <2>5, <3>1, <3>2, <3>4, TurnNearer
    <3>6. a2 * Burst \in Nat
      BY <1>2, <3>4, Products
    <3>7. bypassed[u] + 1 + a2 * Burst - s2 <= total
      <4>1. CASE a2 = a - k - 1
        BY <2>1, <3>2, <3>4, <3>5, <3>6, <4>1
      <4>2. CASE s2 = c /\ a2 = a - k
        BY <3>5, <4>2
      <4>3. QED
        BY <3>3, <4>1, <4>2
    <3>8. count <= bypassed[u] + 1 /\ count \in Nat
      BY <2>1, <2>2
    <3>9. count + a2 * Burst - s2 <= total
      BY <2>1, <3>2, <3>4, <3>6, <3>7, <3>8
    <3>10. QED
      BY <1>a, <3>9 DEF total
  <2>6. CASE a < k
    <3>1. ~ Eligible(u)
      BY <1>3, <2>6
    <3>2. ~ HasRoom(u) \/ u = lastTenant
      BY <3>1 DEF Eligible, BurstSpent
    <3>3. count = 0 \/ count = 1
      <4>1. HasRoom(u) => bypassed[u] = 0
        BY <2>1, <3>2 DEF RotationInv
      <4>2. QED
        BY <2>2, <4>1
    <3>4. \/ a2 = a - k - 1 + n
          \/ s2 = c /\ a2 = a - k + n
      BY <1>8, <2>6, <2>3
    <3>5. s2 \in Nat /\ a2 \in Nat
      BY <1>5, <1>6
    <3> HIDE DEF a2, s2, count, N, n, a, k, c
    <3>6. a2 <= N - 2 \/ (a2 <= N - 1 /\ s2 > 0)
      BY <1>1, <1>4, <2>3, <2>6, <3>4
    <3>7. a2 <= N - 1
      BY <1>1, <3>5, <3>6
    <3>8. count + a2 * Burst - s2 <= (N - 1) * Burst
      BY <1>1, <1>2, <3>3, <3>5, <3>6, <3>7, TurnBehind
    <3>9. QED
      BY <1>a, <3>8
  <2>7. QED
    BY <2>3, <2>5, <2>6
<1>9. QED
  BY <1>6, <1>7, <1>8

LEMMA RotationStep ==
    ASSUME WorkerInv, [Next]_vars
    PROVE  RotationInv'
<1>0. TypeOK /\ OrderListsWaiting /\ RotationInv /\ NumberTypes /\ ListTypes
  BY TypeParts DEF WorkerInv
<1>a. Burst' = Burst /\ MaxFlight' = MaxFlight /\ Burst \in Nat \ {0} /\ MaxFlight \in Nat
  BY <1>0, OptionsStay, OptionsAreNumbers
<1>b. /\ \A t \in Tenants : HasRoom(t) \/ bypassed[t] = 0
      /\ lastTenant \in Tenants => bypassed[lastTenant] = 0
      /\ \A i \in DOMAIN order : TurnComes(i)
  BY <1>0 DEF RotationInv
<1>1. CASE HandOut /\ \E m \in DOMAIN order : Hands(m)
  <2>1. PICK m \in DOMAIN order : Hands(m)
    BY <1>1
  <2> DEFINE t == order[m]
  <2>2. \A p \in DOMAIN order' : TurnComes(p)'
    BY <1>0, <1>a, <2>1, HandOutTurns
  <2>3. /\ t \in Tenants /\ lastTenant' = t
        /\ pending' = [pending EXCEPT ![t] = Tail(@)]
        /\ inflight' = [inflight EXCEPT ![t] = @ + 1]
        /\ bypassed' = [u \in Tenants |-> IF u # t /\ HasRoom(u) THEN bypassed[u] + 1 ELSE 0]
    BY <2>1 DEF Hands
  <2>4. bypassed'[t] = 0
    BY <2>3
  <2> HIDE DEF t
  <2>5. ASSUME NEW u \in Tenants PROVE HasRoom(u)' \/ bypassed'[u] = 0
    <3>1. CASE u = t
      BY <2>4, <3>1
    <3>2. CASE u # t
      <4>1. pending'[u] = pending[u] /\ inflight'[u] = inflight[u]
        BY <1>0, <2>3, <3>2 DEF ListTypes, NumberTypes
      <4>2. HasRoom(u)' <=> HasRoom(u)
        BY <1>a, <4>1 DEF HasRoom
      <4>3. QED
        BY <2>3, <4>2
    <3>3. QED
      BY <3>1, <3>2
  <2>6. QED
    BY <2>2, <2>3, <2>4, <2>5 DEF RotationInv
<1>2. CASE ReserveJob
  <2>1. PICK t \in Tenants :
          /\ pending'[t] # <<>> /\ \A u \in Tenants : u # t => pending'[u] = pending[u]
          /\ next' = next /\ inflight' = inflight
          /\ lastTenant' = lastTenant /\ currentBurst' = currentBurst
          /\ \/ pending[t] # <<>> /\ order' = order /\ bypassed' = bypassed
             \/ /\ pending[t] = <<>> /\ order' = Append(order, t) /\ order' # order
                /\ bypassed' = [u \in Tenants |-> 0]
    BY <1>0, <1>2, RotationAdds
  <2>2. CASE pending[t] # <<>> /\ order' = order /\ bypassed' = bypassed
    <3>1. \A u \in Tenants : HasRoom(u)' <=> HasRoom(u)
      BY <1>a, <2>1, <2>2 DEF HasRoom
    <3>2. ASSUME NEW i \in DOMAIN order PROVE TurnComes(i)' <=> TurnComes(i)
      BY <1>a, <2>1, <2>2 DEF TurnComes, Ahead, Spent
    <3>3. QED
      BY <1>b, <2>1, <2>2, <3>1, <3>2 DEF RotationInv
  <2>3. CASE order' = Append(order, t) /\ bypassed' = [u \in Tenants |-> 0]
    <3>1. \A u \in Tenants : bypassed'[u] = 0
      BY <2>3
    <3>2. /\ order' \in Seq(Tenants) /\ Distinct(order') /\ next' \in Nat /\ next' < Len(order')
          /\ Len(order') \in Nat /\ DOMAIN order' = 1 .. Len(order')
      <4>1. Distinct(order')
        BY OrderStep DEF OrderListsWaiting, Distinct
      <4>2. order \in Seq(Tenants) /\ next \in Nat /\ (next < Len(order) \/ next = 0)
        BY <1>0 DEF ListTypes, NumberTypes, OrderListsWaiting
      <4>3. QED
        BY <2>1, <2>3, <4>1, <4>2
    <3>3. Cardinality(Tenants) \in Nat /\ Len(order') <= Cardinality(Tenants)
      BY <3>2, RotationFits
    <3>4. ASSUME NEW i \in DOMAIN order' PROVE TurnComes(i)'
      <4> DEFINE n == Len(order')
                 N == Cardinality(Tenants)
                 a == Ahead(i)'
                 s == Spent(i)'
      <4>1. a \in Nat /\ a <= n - 1
        BY <3>2 DEF Ahead
      <4>2. s \in Nat
        BY <1>0, <1>a, <2>1 DEF Spent, NumberTypes
      <4>3. bypassed'[order'[i]] = 0
        BY <3>1, <3>2
      <4> HIDE DEF a, s
      <4>4. 0 + a * Burst - s <= (N - 1) * Burst
        <5>1. a <= N - 1
          BY <3>2, <3>3, <4>1
        <5>2. QED
          BY <1>a, <3>3, <4>1, <4>2, <5>1, TurnBehind
      <4>5. QED
        BY <1>a, <4>3, <4>4 DEF TurnComes, a, s
    <3>5. QED
      BY <3>1, <3>4 DEF RotationInv
  <2>4. QED
    BY <2>1, <2>2, <2>3
<1>3. ASSUME NEW t \in Tenants, Complete(t) PROVE RotationInv'
  <2>1. /\ inflight' = [inflight EXCEPT ![t] = IF @ > 0 THEN @ - 1 ELSE @]
        /\ UNCHANGED <<pending, order, next, lastTenant, currentBurst, bypassed>>
    BY <1>3 DEF Complete
  <2>2. \A u \in Tenants : inflight'[u] \in Nat /\ inflight[u] \in Nat /\ inflight'[u] <= inflight[u]
    BY <1>0, <2>1 DEF NumberTypes
  <2>3. \A u \in Tenants : HasRoom(u) => HasRoom(u)'
    BY <1>a, <2>1, <2>2 DEF HasRoom
  <2>4. ASSUME NEW i \in DOMAIN order PROVE TurnComes(i)' <=> TurnComes(i)
    BY <1>a, <2>1 DEF TurnComes, Ahead, Spent
  <2>5. QED
    BY <1>b, <2>1, <2>3, <2>4 DEF RotationInv
<1>4. CASE \/ RecoverJob \/ Decides
           \/ \E j \in Jobs : Finish(j) \/ ReleaseSlot(j) \/ Arrive(j)
  <2>1. UNCHANGED schedulerVars
    BY <1>4 DEF RecoverJob, Decides, Finish, ReleaseSlot, Arrive
  <2>2. ASSUME NEW i \in DOMAIN order PROVE TurnComes(i)' <=> TurnComes(i)
    BY <1>a, <2>1 DEF TurnComes, Ahead, Spent, schedulerVars
  <2>3. \A u \in Tenants : HasRoom(u)' <=> HasRoom(u)
    BY <1>a, <2>1 DEF HasRoom, schedulerVars
  <2>4. QED
    BY <1>b, <2>1, <2>2, <2>3 DEF RotationInv, schedulerVars
<1>5. QED
  BY <1>0, <1>1, <1>2, <1>3, <1>4, StepCases

LEMMA WorkerStep ==
    ASSUME WorkerInv, [Next]_vars
    PROVE  WorkerInv'
<1>1. /\ TypeOK' /\ JobsArrived' /\ SlotsCounted' /\ TenantCapHolds'
      /\ OrderListsWaiting' /\ ReservedIsHeld' /\ RotationInv'
  BY TypeStep, JobsArrivedStep, SlotStep, OrderStep, HeldStep, RotationStep
<1>2. QED
  BY <1>1 DEF WorkerInv

LEMMA TurnsBound ==
    ASSUME WorkerInv PROVE BypassIsBounded
<1>0. /\ TypeOK /\ OrderListsWaiting /\ RotationInv /\ NumberTypes /\ ListTypes
      /\ order \in Seq(Tenants) /\ Distinct(order) /\ Burst \in Nat \ {0}
      /\ bypassed \in [Tenants -> Nat]
  BY TypeParts, OptionsAreNumbers DEF WorkerInv, ListTypes, NumberTypes, OrderListsWaiting, Distinct
<1> DEFINE N == Cardinality(Tenants)
<1> SUFFICES ASSUME NEW t \in Tenants PROVE bypassed[t] <= Burst * (N - 1)
  BY DEF BypassIsBounded
<1>1. N \in Nat \ {0}
  <2>1. IsFiniteSet(Tenants)
    BY WorkerAssumption
  <2>2. Cardinality(Tenants) \in Nat /\ Cardinality(Tenants) # 0
    BY <2>1, FS_CardinalityType, FS_EmptySet
  <2>3. QED
    BY <2>2
<1> HIDE DEF N
<1>2. (N - 1) * Burst \in Nat /\ (N - 1) * Burst = Burst * (N - 1)
  <2>1. N - 1 \in Nat
    BY <1>1
  <2>2. QED
    BY <1>0, <2>1, Products
<1>3. CASE bypassed[t] = 0
  BY <1>2, <1>3
<1>4. CASE bypassed[t] # 0
  <2>1. pending[t] # <<>>
    BY <1>0, <1>4 DEF RotationInv, HasRoom
  <2>2. PICK i \in DOMAIN order : order[i] = t
    BY <1>0, <2>1 DEF OrderListsWaiting
  <2> DEFINE a == Ahead(i)
             s == Spent(i)
  <2>3. bypassed[t] + a * Burst - s <= (N - 1) * Burst
    BY <1>0, <2>2 DEF RotationInv, TurnComes, N
  <2>4. a \in Nat /\ s \in Nat /\ s <= Burst /\ (a = 0 => s = 0)
    <3>1. i \in 1 .. Len(order) /\ next \in Nat /\ next < Len(order)
      BY <1>0, <2>2 DEF NumberTypes, OrderListsWaiting
    <3>2. a \in Nat /\ (a = 0 => i = next + 1)
      BY <3>1 DEF Ahead
    <3>3. s \in Nat /\ s <= Burst
      BY <1>0, SpentIsSmall
    <3>4. i = next + 1 => s = 0
      BY DEF Spent
    <3>5. QED
      BY <3>2, <3>3, <3>4
  <2> HIDE DEF a, s
  <2>5. a * Burst \in Nat /\ (a >= 1 => Burst <= a * Burst)
    <3>1. 1 <= a => 1 * Burst <= a * Burst
      BY <1>0, <2>4, Products
    <3>2. a * Burst \in Nat /\ 1 * Burst = Burst
      BY <1>0, <2>4, Products
    <3>3. QED
      BY <2>4, <3>1, <3>2
  <2>6. s <= a * Burst
    BY <1>0, <2>4, <2>5
  <2>7. bypassed[t] \in Nat
    BY <1>0
  <2>8. QED
    BY <1>2, <2>3, <2>4, <2>5, <2>6, <2>7
<1>5. QED
  BY <1>3, <1>4

----------------------------------------------------------------------------
(* What every run of a worker has.                                         *)

\* The conjunction the others need of each other: no step of the main loop, of a
\* goroutine or of recovery breaks it.
THEOREM WorkerInvariant == Spec => []WorkerInv
<1>1. Init => WorkerInv
  BY WorkerStarts
<1>2. WorkerInv /\ [Next]_vars => WorkerInv'
  BY WorkerStep
<1>3. QED
  BY <1>1, <1>2, PTL DEF Spec

\* The types of the worker's state; the semaphore of RunChannelWorker stays
\* within Concurrency and buffered jobs are listed under their own tenant.
THEOREM WorkerTypes == Spec => []TypeOK
<1>1. WorkerInv => TypeOK
  BY DEF WorkerInv
<1>2. QED
  BY <1>1, WorkerInvariant, PTL

\* add and the removal in nextJob keep the rotation: every tenant with buffered
\* jobs is in fairScheduler.order once, and no other tenant is.
THEOREM RotationListsWaiting == Spec => []OrderListsWaiting
<1>1. WorkerInv => OrderListsWaiting
  BY DEF WorkerInv
<1>2. QED
  BY <1>1, WorkerInvariant, PTL

\* No more than TenantMaxInFlight goroutines work for a tenant, although runReserved
\* frees its slot before complete lowers the count nextJob looks at.
THEOREM CapHolds == Spec => []TenantCapHolds
<1>1. WorkerInv => TenantCapHolds
  BY DEF WorkerInv
<1>2. QED
  BY <1>1, WorkerInvariant, PTL

\* A reserved job is buffered or being processed for every copy of it in the
\* processing list, with any number of recovery sweeps beside the worker.
THEOREM NothingForgotten == Spec => []ReservedIsHeld
<1>1. WorkerInv => ReservedIsHeld
  BY DEF WorkerInv
<1>2. QED
  BY <1>1, WorkerInvariant, PTL

\* nextJob passes over a tenant that could run for at most TenantBurst hand-outs of
\* each other tenant, for any number of tenants, while no tenant joins the rotation.
THEOREM BypassBounded == Spec => []BypassIsBounded
<1>1. WorkerInv => BypassIsBounded
  BY TurnsBound
<1>2. QED
  BY <1>1, WorkerInvariant, PTL

============================================================================
