----------------------------- MODULE RoomLemmas -----------------------------
(***************************************************************************)
(* Facts about the operators RoomStore is built from: clock readings, the  *)
(* order of a sorted set, and the batch one admission tick takes.          *)
(***************************************************************************)
EXTENDS RoomStore, FiniteSetTheorems, TLAPS

LEMMA MaxOfTwo ==
  ASSUME NEW a \in Int, NEW b \in Int
  PROVE  Max({a, b}) = IF a >= b THEN a ELSE b
<1>1. \E x \in {a, b} : \A y \in {a, b} : x >= y
  OBVIOUS
<1> QED BY <1>1 DEF Max

LEMMA MinOfTwo ==
  ASSUME NEW a \in Int, NEW b \in Int
  PROVE  Min({a, b}) = IF a <= b THEN a ELSE b
<1>1. \E x \in {a, b} : \A y \in {a, b} : x <= y
  OBVIOUS
<1> QED BY <1>1 DEF Min

\* The bucket holds at least one whole token, so every rate admits someone
\* (the `1` in math.max(burst, rate, 1)).
LEMMA BucketSizeBounds ==
  /\ BucketSize \in Nat
  /\ BucketSize >= TokenUnit
  /\ Rate <= BucketSize
<1> DEFINE a == Burst * TokenUnit
           b == Rate * Second
<1>1. a \in Nat /\ b \in Nat /\ TokenUnit \in Nat
  BY LimitAssumption, ClockAssumption
<1>2. b >= Rate
  BY LimitAssumption, ClockAssumption
<1> HIDE DEF a, b
<1>3. \E x \in {a, b, TokenUnit} : \A y \in {a, b, TokenUnit} : x >= y
  BY <1>1
<1>4. /\ Max({a, b, TokenUnit}) \in {a, b, TokenUnit}
      /\ \A y \in {a, b, TokenUnit} : Max({a, b, TokenUnit}) >= y
  BY <1>3 DEF Max
<1> QED BY <1>1, <1>2, <1>4, LimitAssumption DEF BucketSize, a, b

\* A clock reading is a time of the past or the present, and so is its second.
LEMMA ReadingsArePast ==
  ASSUME now \in Nat, NEW t \in Sampled
  PROVE  t \in Nat /\ t <= now /\ Sec(t) \in Nat /\ Sec(t) <= t
<1>1. Max({0, now - MaxLag}) \in Nat
  BY MaxOfTwo, ClockAssumption
<1>2. t \in Nat /\ t <= now
  BY <1>1 DEF Sampled
<1>3. t % Second \in Nat /\ t % Second <= t
  <2>1. t = Second * (t \div Second) + (t % Second)
    BY <1>2, ClockAssumption
  <2>2. t % Second \in 0..(Second - 1) /\ t \div Second \in Nat
    BY <1>2, ClockAssumption
  <2>3. Second * (t \div Second) \in Nat
    BY <2>2, ClockAssumption
  <2> QED BY <2>1, <2>2, <2>3, <1>2
<1> QED BY <1>2, <1>3 DEF Sec

----------------------------------------------------------------------------
(* Ranks                                                                   *)

\* A sorted set with natural scores over sids, as TypeOK describes it.
SortedSet(z) == DOMAIN z \subseteq Sids /\ z \in [DOMAIN z -> Nat]

LEMMA RankIsNatural ==
  ASSUME NEW z, SortedSet(z), NEW s \in DOMAIN z
  PROVE  IsFiniteSet(Ahead(z, s)) /\ ZRank(z, s) \in Nat
<1>1. Ahead(z, s) \in SUBSET Sids
  BY DEF Ahead, SortedSet
<1>2. IsFiniteSet(Ahead(z, s))
  BY <1>1, FS_Subset, SidsAssumption
<1> QED BY <1>2, FS_CardinalityType DEF ZRank

\* ZRANK follows the order of the set, so no two members share a rank.
LEMMA RankFollowsOrder ==
  ASSUME NEW z, SortedSet(z), NEW r \in DOMAIN z, NEW s \in DOMAIN z, Before(z, r, s)
  PROVE  ZRank(z, r) < ZRank(z, s)
<1>0. \A x \in DOMAIN z : z[x] \in Nat /\ x \in Nat
  BY SidsAssumption DEF SortedSet
<1>1. Ahead(z, r) \subseteq Ahead(z, s)
  BY <1>0 DEF Ahead, Before
<1>2. r \in Ahead(z, s) /\ r \notin Ahead(z, r)
  BY <1>0 DEF Ahead, Before
<1>3. IsFiniteSet(Ahead(z, s)) /\ ZRank(z, s) \in Nat /\ ZRank(z, r) \in Nat
  BY RankIsNatural
<1>4. Cardinality(Ahead(z, r)) <= Cardinality(Ahead(z, s))
  BY <1>1, <1>3, FS_Subset
<1>5. Cardinality(Ahead(z, r)) # Cardinality(Ahead(z, s))
  BY <1>1, <1>2, <1>3, FS_Subset
<1> QED BY <1>3, <1>4, <1>5 DEF ZRank

\* At most k members have a rank below k.
LEMMA FewBelowRank ==
  ASSUME NEW z, SortedSet(z), NEW S \in SUBSET DOMAIN z, NEW k \in Nat,
         \A s \in S : ZRank(z, s) < k
  PROVE  IsFiniteSet(S) /\ Cardinality(S) \in Nat /\ Cardinality(S) <= k
<1>1. IsFiniteSet(S) /\ Cardinality(S) \in Nat
  BY FS_Subset, FS_CardinalityType, SidsAssumption DEF SortedSet
<1>2. IsFiniteSet(0..(k-1)) /\ Cardinality(0..(k-1)) = k
  BY FS_Interval
<1>3. SUFFICES ASSUME Cardinality(S) > k PROVE FALSE
  BY <1>1
<1> DEFINE f == [s \in S |-> ZRank(z, s)]
<1>4. f \in [S -> 0..(k-1)]
  BY RankIsNatural
<1>5. \E r, s \in S : r # s /\ f[r] = f[s]
  <2>1. Cardinality(0..(k-1)) < Cardinality(S)
    BY <1>1, <1>2, <1>3
  <2> HIDE DEF f
  <2> QED BY <1>1, <1>2, <1>4, <2>1, FS_PigeonHole
<1>6. PICK r \in S, s \in S : r # s /\ ZRank(z, r) = ZRank(z, s)
  BY <1>5
<1>7. Before(z, r, s) \/ Before(z, s, r)
  BY <1>6, SidsAssumption DEF Before, SortedSet
<1>8. ZRank(z, r) < ZRank(z, s) \/ ZRank(z, s) < ZRank(z, r)
  BY <1>7, RankFollowsOrder
<1> QED BY <1>6, <1>8, RankIsNatural

----------------------------------------------------------------------------
(* The batch of an admission tick                                          *)

LEMMA HeldIsFewer ==
  ASSUME TypeOK, NEW t
  PROVE  /\ DOMAIN HeldAfter(t) \subseteq DOMAIN admitted
         /\ IsFiniteSet(DOMAIN admitted) /\ IsFiniteSet(DOMAIN HeldAfter(t))
         /\ Cardinality(DOMAIN admitted) \in Nat
         /\ Cardinality(DOMAIN HeldAfter(t)) \in Nat
         /\ Cardinality(DOMAIN HeldAfter(t)) <= Cardinality(DOMAIN admitted)
<1>1. DOMAIN HeldAfter(t) \subseteq DOMAIN admitted
  BY DEF HeldAfter, Drop, Restrict
<1>2. IsFiniteSet(DOMAIN admitted)
  BY FS_Subset, SidsAssumption DEF TypeOK
<1> QED BY <1>1, <1>2, FS_Subset, FS_CardinalityType

LEMMA RefilledBounds ==
  ASSUME TypeOK, NEW t \in Sampled
  PROVE  Refilled(t) \in Nat /\ Refilled(t) <= BucketSize
<1>1. t \in Nat
  BY ReadingsArePast DEF TypeOK
<1>2. CASE bucket = NoBucket
  BY <1>2, BucketSizeBounds DEF Refilled
<1>3. CASE bucket # NoBucket
  <2>1. bucket.tokens \in Nat /\ bucket.ts \in Nat
    BY <1>3 DEF TypeOK, Bucket
  <2>2. Max({0, t - bucket.ts}) \in Nat
    BY <1>1, <2>1, MaxOfTwo
  <2> DEFINE m == bucket.tokens + Rate * Max({0, t - bucket.ts})
  <2>3. m \in Nat
    BY <2>1, <2>2, LimitAssumption
  <2> HIDE DEF m
  <2>4. Min({BucketSize, m}) \in Nat /\ Min({BucketSize, m}) <= BucketSize
    BY <2>3, BucketSizeBounds, MinOfTwo
  <2> QED BY <1>3, <2>4 DEF Refilled, m
<1> QED BY <1>2, <1>3

\* What fits at some place in line fits at every place before it.
LEMMA FitsDownwards ==
  ASSUME TypeOK, NEW t \in Sampled, NEW maxN \in Nat,
         NEW n \in Nat, NEW k \in Nat, k <= n, Fits(n, maxN, t)
  PROVE  Fits(k, maxN, t)
<1>1. Cardinality(DOMAIN HeldAfter(t)) \in Nat
  BY HeldIsFewer
<1>2. Rate > 0 => k * TokenUnit <= Refilled(t)
  <2>1. k * TokenUnit <= n * TokenUnit
    <3>1. (n - k) * TokenUnit \in Nat
      BY LimitAssumption
    <3>2. n * TokenUnit = k * TokenUnit + (n - k) * TokenUnit
      BY LimitAssumption
    <3> QED BY <3>1, <3>2, LimitAssumption
  <2>2. n * TokenUnit \in Nat /\ k * TokenUnit \in Nat
    BY LimitAssumption
  <2> QED BY <2>1, <2>2, RefilledBounds DEF Fits
<1> QED BY <1>1, <1>2, LimitAssumption DEF Fits

\* The size of the batch is itself within the limits: a batch of k sessions
\* takes the k-th place in line at most.
LEMMA BatchFits ==
  ASSUME TypeOK, NEW t \in Sampled, NEW maxN \in Nat, NEW S \in SUBSET Front(maxN, t)
  PROVE  /\ IsFiniteSet(S) /\ Cardinality(S) \in Nat
         /\ S # {} => Fits(Cardinality(S), maxN, t)
<1>1. SortedSet(queue) /\ S \in SUBSET DOMAIN queue
  BY DEF TypeOK, SortedSet, Front
<1>2. IsFiniteSet(S) /\ Cardinality(S) \in Nat
  BY <1>1, FS_Subset, FS_CardinalityType, SidsAssumption DEF SortedSet
<1>3. ASSUME S # {} PROVE Fits(Cardinality(S), maxN, t)
  <2>1. Cardinality(S) # 0
    BY <1>2, <1>3, FS_EmptySet
  <2>2. \E s \in S : ZRank(queue, s) >= Cardinality(S) - 1
    <3>1. SUFFICES ASSUME \A s \in S : ~(ZRank(queue, s) >= Cardinality(S) - 1)
                   PROVE  FALSE
      OBVIOUS
    <3>2. \A s \in S : ZRank(queue, s) < Cardinality(S) - 1
      BY <3>1, <1>1, <1>2, RankIsNatural
    <3>3. Cardinality(S) <= Cardinality(S) - 1
      BY <3>2, <1>1, <1>2, <2>1, FewBelowRank
    <3> QED BY <3>3, <1>2
  <2>3. PICK s \in S : ZRank(queue, s) >= Cardinality(S) - 1
    BY <2>2
  <2>4. ZRank(queue, s) + 1 \in Nat /\ Cardinality(S) <= ZRank(queue, s) + 1
    BY <1>1, <1>2, <2>3, RankIsNatural
  <2>5. Fits(ZRank(queue, s) + 1, maxN, t)
    BY DEF Front
  <2> QED BY <1>2, <2>4, <2>5, FitsDownwards
<1> QED BY <1>2, <1>3

\* A batch spends no tokens the bucket does not have.
LEMMA SpentIsBucket ==
  ASSUME TypeOK, NEW t \in Sampled, NEW maxN \in Nat, NEW S \in SUBSET Front(maxN, t)
  PROVE  Spent(Cardinality(S), t) \in Bucket \cup {NoBucket}
<1>1. CASE Rate = 0
  BY <1>1 DEF Spent, TypeOK
<1>2. CASE Rate # 0
  <2>1. Rate \in Nat /\ Rate > 0
    BY <1>2, LimitAssumption
  <2>2. Refilled(t) \in Nat /\ t \in Nat /\ now \in Nat
    BY RefilledBounds, ReadingsArePast DEF TypeOK
  <2>3. Cardinality(S) \in Nat /\ Cardinality(S) * TokenUnit \in Nat
    BY BatchFits, LimitAssumption
  <2>4. Cardinality(S) * TokenUnit <= Refilled(t)
    <3>1. CASE S = {}
      BY <3>1, <2>2, FS_EmptySet, LimitAssumption
    <3>2. CASE S # {}
      BY <3>2, <2>1, BatchFits DEF Fits
    <3> QED BY <3>1, <3>2
  <2>5. Refilled(t) - Cardinality(S) * TokenUnit \in Nat
    BY <2>2, <2>3, <2>4
  <2>6. (BucketSize + Rate - 1) \div Rate \in Nat
    <3>1. BucketSize + Rate - 1 \in Nat
      BY <2>1, BucketSizeBounds
    <3> QED BY <2>1, <3>1
  <2>7. now + (BucketSize + Rate - 1) \div Rate + BucketLinger \in Nat
    BY <2>2, <2>6, ClockAssumption
  <2> QED BY <1>2, <2>2, <2>5, <2>7 DEF Spent, Bucket
<1> QED BY <1>1, <1>2

============================================================================
