--------------------- MODULE MigrateAllDataPagingProofs ---------------------
(***************************************************************************)
(* The model's Batch(o), defined by ranks, is what "ORDER BY id LIMIT      *)
(* BATCH_SIZE OFFSET o" returns, for every batch size, every offset and    *)
(* every set of source speeds.  The argument needs no induction: in an     *)
(* ascending list of the positive-speed ids the entry at position i has    *)
(* exactly i ids at or below it (the entries 1..i), so its rank is i; and  *)
(* rank is a bijection from those ids onto 1..n, so such a list exists and *)
(* the hypothesis of the theorem is never vacuous.                         *)
(***************************************************************************)
EXTENDS MigrateAllDataSpeedProofs

USE ConstAssumption

\* The positive-speed ids form a finite set of naturals, counted by a
\* natural number.
LEMMA PosSpeedIdsFinite ==
    ASSUME srcSpeed \in [MarkerId -> SpeedVal]
    PROVE  /\ PosSpeedIds(srcSpeed) \subseteq Nat
           /\ IsFiniteSet(PosSpeedIds(srcSpeed))
           /\ Cardinality(PosSpeedIds(srcSpeed)) \in Nat
<1>1. PosSpeedIds(srcSpeed) \subseteq MarkerId
  BY DEF PosSpeedIds
<1>2. IsFiniteSet(PosSpeedIds(srcSpeed))
  BY <1>1, FS_Subset
<1>. QED BY <1>1, <1>2, FS_CardinalityType

\* ORDER BY id puts a smaller id strictly earlier.
LEMMA RankStrictlyMonotone ==
    ASSUME srcSpeed \in [MarkerId -> SpeedVal],
           NEW j \in PosSpeedIds(srcSpeed), NEW m \in PosSpeedIds(srcSpeed), j < m
    PROVE  Rank(j) < Rank(m)
<1> DEFINE Sj == {x \in PosSpeedIds(srcSpeed) : x <= j}
           Sm == {x \in PosSpeedIds(srcSpeed) : x <= m}
<1>1. PosSpeedIds(srcSpeed) \subseteq Nat /\ IsFiniteSet(PosSpeedIds(srcSpeed))
  BY PosSpeedIdsFinite
<1>2. IsFiniteSet(Sm) /\ Sj \subseteq Sm /\ Sj # Sm
  BY <1>1, FS_Subset
<1>3. /\ Cardinality(Sj) <= Cardinality(Sm)
      /\ Cardinality(Sm) = Cardinality(Sj) => Sm = Sj
      /\ Cardinality(Sj) \in Nat /\ Cardinality(Sm) \in Nat
  BY <1>2, FS_Subset, FS_CardinalityType
<1>. QED BY <1>2, <1>3 DEF Rank

\* Two positive-speed ids with the same rank are the same id.
LEMMA RankInjective ==
    ASSUME srcSpeed \in [MarkerId -> SpeedVal],
           NEW j \in PosSpeedIds(srcSpeed), NEW m \in PosSpeedIds(srcSpeed),
           Rank(j) = Rank(m)
    PROVE  j = m
<1>1. j \in Nat /\ m \in Nat
  BY PosSpeedIdsFinite
<1>2. j < m => Rank(j) < Rank(m)
  BY RankStrictlyMonotone
<1>3. m < j => Rank(m) < Rank(j)
  BY RankStrictlyMonotone
<1>4. Rank(j) \in Nat
  BY RankPositive
<1>. QED BY <1>1, <1>2, <1>3, <1>4

\* Every position 1..n of the list is the rank of some positive-speed id:
\* rank is an injection into 1..n from a set of n ids, hence onto.
LEMMA RankOnto ==
    ASSUME srcSpeed \in [MarkerId -> SpeedVal],
           NEW i \in 1..Cardinality(PosSpeedIds(srcSpeed))
    PROVE  \E m \in PosSpeedIds(srcSpeed) : Rank(m) = i
<1> DEFINE P == PosSpeedIds(srcSpeed)
           n == Cardinality(P)
           f == [m \in P |-> Rank(m)]
<1>1. IsFiniteSet(P) /\ n \in Nat
  BY PosSpeedIdsFinite
<1>2. f \in [P -> 1..n]
  BY RankPositive, RankBounded
<1>3. f \in Injection(P, 1..n)
  BY <1>2, RankInjective DEF Injection, IsInjective
<1>4. IsFiniteSet(1..n) /\ Cardinality(1..n) = n
  BY <1>1, FS_Interval
<1>5. f \in Surjection(P, 1..n)
  BY <1>3, <1>4, FS_Injection
<1>. QED BY <1>5 DEF Surjection

\* In an ascending list of the positive-speed ids, the id at position i
\* has rank i: the ids at or below it are exactly the entries 1..i.
LEMMA OrderedListRank ==
    ASSUME srcSpeed \in [MarkerId -> SpeedVal],
           NEW s \in OrderedLists(PosSpeedIds(srcSpeed)),
           NEW i \in 1..Cardinality(PosSpeedIds(srcSpeed))
    PROVE  Rank(s[i]) = i
<1> DEFINE P == PosSpeedIds(srcSpeed)
           n == Cardinality(P)
           T == {j \in P : j <= s[i]}
           g == [k \in 1..i |-> s[k]]
<1>1. /\ n \in Nat /\ P \subseteq Nat
      /\ s \in [1..n -> P]
      /\ {s[k] : k \in 1..n} = P
      /\ \A k, l \in 1..n : k < l => s[k] < s[l]
  BY PosSpeedIdsFinite DEF OrderedLists
<1>2. T = {s[k] : k \in 1..i}
  <2>1. ASSUME NEW j \in T PROVE \E k \in 1..i : s[k] = j
    <3>1. PICK k \in 1..n : s[k] = j
      BY <1>1
    <3>2. ~(i < k)
      BY <1>1, <3>1
    <3>. QED BY <1>1, <3>1, <3>2
  <2>2. ASSUME NEW k \in 1..i PROVE s[k] \in T
    <3>1. k \in 1..n /\ i \in 1..n
      BY <1>1
    <3>2. s[k] \in P /\ s[i] \in P /\ s[k] \in Nat /\ s[i] \in Nat
      BY <1>1, <3>1
    <3>3. s[k] <= s[i]
      <4>1. CASE k = i
        BY <4>1, <3>2
      <4>2. CASE k < i
        BY <4>2, <1>1, <3>1
      <4>. QED BY <4>1, <4>2, <3>1
    <3>. QED BY <3>2, <3>3
  <2>. QED BY <2>1, <2>2
<1>3. g \in Bijection(1..i, T)
  <2>1. g \in [1..i -> T]
    BY <1>2
  <2>2. \A k, l \in 1..i : g[k] = g[l] => k = l
    BY <1>1
  <2>3. \A t \in T : \E k \in 1..i : g[k] = t
    BY <1>2
  <2>. QED BY <2>1, <2>2, <2>3 DEF Bijection, Injection, Surjection, IsInjective
<1>4. Cardinality(T) = i
  BY <1>3, FS_CountingElements DEF ExistsBijection
<1>. QED BY <1>4 DEF Rank

\* The list of the positive-speed ids in ascending order exists: position
\* i holds the id of rank i.
LEMMA OrderedListExists ==
    ASSUME srcSpeed \in [MarkerId -> SpeedVal]
    PROVE  OrderedLists(PosSpeedIds(srcSpeed)) # {}
<1> DEFINE P == PosSpeedIds(srcSpeed)
           n == Cardinality(P)
           s == [i \in 1..n |-> CHOOSE m \in P : Rank(m) = i]
<1>1. \A i \in 1..n : s[i] \in P /\ Rank(s[i]) = i
  BY RankOnto
<1>2. {s[i] : i \in 1..n} = P
  <2>1. ASSUME NEW m \in P PROVE \E i \in 1..n : s[i] = m
    <3>1. Rank(m) \in 1..n
      BY RankPositive, RankBounded
    <3>2. s[Rank(m)] = m
      BY <1>1, <3>1, RankInjective
    <3>. QED BY <3>1, <3>2
  <2>. QED BY <1>1, <2>1
<1>3. \A i, j \in 1..n : i < j => s[i] < s[j]
  <2> SUFFICES ASSUME NEW i \in 1..n, NEW j \in 1..n, i < j
               PROVE  s[i] < s[j]
    OBVIOUS
  <2>1. s[i] \in P /\ s[j] \in P /\ Rank(s[i]) = i /\ Rank(s[j]) = j
    BY <1>1
  <2>2. s[i] \in Nat /\ s[j] \in Nat
    BY <2>1, PosSpeedIdsFinite
  <2>3. s[i] # s[j]
    BY <2>1
  <2>4. s[j] < s[i] => Rank(s[j]) < Rank(s[i])
    BY <2>1, RankStrictlyMonotone
  <2>. QED BY <2>1, <2>2, <2>3, <2>4
<1>4. s \in OrderedLists(P)
  BY <1>1, <1>2, <1>3 DEF OrderedLists
<1>. QED BY <1>4

\* ... and it is the only one: two ascending lists of the positive-speed
\* ids hold the id of rank i at every position i.
LEMMA OrderedListUnique ==
    ASSUME srcSpeed \in [MarkerId -> SpeedVal],
           NEW s \in OrderedLists(PosSpeedIds(srcSpeed)),
           NEW t \in OrderedLists(PosSpeedIds(srcSpeed))
    PROVE  s = t
<1> DEFINE n == Cardinality(PosSpeedIds(srcSpeed))
<1>1. s \in [1..n -> PosSpeedIds(srcSpeed)] /\ t \in [1..n -> PosSpeedIds(srcSpeed)]
  BY DEF OrderedLists
<1>2. \A i \in 1..n : s[i] = t[i]
  <2> SUFFICES ASSUME NEW i \in 1..n PROVE s[i] = t[i]
    OBVIOUS
  <2>1. Rank(s[i]) = i /\ Rank(t[i]) = i
    BY OrderedListRank
  <2>. QED BY <1>1, <2>1, RankInjective
<1>3. s = [i \in 1..n |-> s[i]] /\ t = [i \in 1..n |-> t[i]]
  BY <1>1
<1>. QED BY <1>2, <1>3

\* LIMIT/OFFSET paging of the speed loop of migrate_all_data.py, for every
\* batch size and every offset: on the ascending list of the source ids
\* with a positive speed (which exists), the page at OFFSET o is exactly
\* the model's Batch(o), the ids ranked in (o, o + BATCH_SIZE].
THEOREM BatchIsLimitOffsetPage ==
    ASSUME srcSpeed \in [MarkerId -> SpeedVal],
           NEW s \in OrderedLists(PosSpeedIds(srcSpeed)), NEW o \in Nat
    PROVE  Batch(o) = LimitOffsetPage(s, o)
<1> DEFINE P == PosSpeedIds(srcSpeed)
           n == Cardinality(P)
<1>1. DOMAIN s = 1..n /\ {s[k] : k \in 1..n} = P
  BY DEF OrderedLists
<1>2. ASSUME NEW m \in Batch(o) PROVE m \in LimitOffsetPage(s, o)
  <2>1. PICK k \in 1..n : s[k] = m
    BY <1>1 DEF Batch
  <2>2. Rank(m) = k
    BY <2>1, OrderedListRank
  <2>. QED BY <1>1, <2>1, <2>2 DEF Batch, LimitOffsetPage
<1>3. ASSUME NEW m \in LimitOffsetPage(s, o) PROVE m \in Batch(o)
  <2>1. PICK k \in DOMAIN s : o < k /\ k <= o + BatchSize /\ s[k] = m
    BY DEF LimitOffsetPage
  <2>2. m \in P /\ Rank(m) = k
    BY <1>1, <2>1, OrderedListRank
  <2>. QED BY <2>1, <2>2 DEF Batch
<1>. QED BY <1>2, <1>3

=============================================================================
