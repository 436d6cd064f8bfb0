---------------------------- MODULE MeterProofs ----------------------------
(***************************************************************************)
(* The rate, for every instance whose callers' clocks are read as their    *)
(* scripts run (MaxLag = 0; with older readings it is overshot): what the  *)
(* bucket would hold now is a meter that fills at the rate, and every      *)
(* admission is taken from it.  With that, the store implements            *)
(* AdmissionContract, and an engine's own bucket bounds what its ticks     *)
(* admit.                                                                  *)
(***************************************************************************)
EXTENDS Ticker, RoomActionProofs

LEMMA ReadingIsNow ==
  ASSUME MaxLag = 0, now \in Nat
  PROVE  Sampled = {now}
BY MaxOfTwo DEF Sampled

\* Whoever leaves the line into a slot was popped, with metadata.
LEMMA BatchIsAdmitted ==
  ASSUME TypeOK, [Next]_vars, NEW maxN \in Nat, NEW t \in Sampled, AdmitFront(maxN, t)
  PROVE  /\ JustAdmitted = Front(maxN, t) \cap DOMAIN hash
         /\ bucket' = Spent(Cardinality(JustAdmitted), t)
         /\ Cardinality(JustAdmitted) \in Nat /\ Cardinality(JustAdmitted) <= maxN
         /\ Rate > 0 => Cardinality(JustAdmitted) * TokenUnit <= Refilled(t)
<1>1. Front(maxN, t) \cap DOMAIN hash \subseteq JustAdmitted
  BY WhoIsAdmitted
<1>2. DOMAIN hash' = DOMAIN hash
  BY DEF AdmitFront, HashAfter, SetState
<1>3. DOMAIN queue \ DOMAIN queue' \subseteq Front(maxN, t)
  BY DEF AdmitFront, Drop, Restrict
<1>4. JustAdmitted = Front(maxN, t) \cap DOMAIN hash
  BY <1>1, <1>2, <1>3 DEF JustAdmitted
<1>5. bucket' = Spent(Cardinality(JustAdmitted), t)
  BY <1>4 DEF AdmitFront
<1>6. JustAdmitted \in SUBSET Front(maxN, t)
  BY <1>4
<1>7. /\ Cardinality(JustAdmitted) \in Nat
      /\ JustAdmitted # {} => Fits(Cardinality(JustAdmitted), maxN, t)
  BY <1>6, BatchFits
<1>8. CASE JustAdmitted = {}
  <2>1. Cardinality(JustAdmitted) = 0
    BY <1>8, FS_EmptySet
  <2>2. Refilled(t) \in Nat
    BY RefilledBounds
  <2> QED BY <1>4, <1>5, <2>1, <2>2, LimitAssumption
<1>9. CASE JustAdmitted # {}
  BY <1>4, <1>5, <1>7, <1>9 DEF Fits
<1> QED BY <1>8, <1>9

\* What else happens to the clock and the bucket: nothing, or the clock ticks.
LEMMA NoBatchStep ==
  ASSUME TypeOK, [Next]_vars
  PROVE  \/ \E maxN \in Nat, t \in Sampled : AdmitFront(maxN, t)
         \/ Tick /\ JustAdmitted = {}
         \/ UNCHANGED <<now, bucket>> /\ JustAdmitted = {}
<1>1. (\E maxN \in Nat, t \in Sampled : AdmitFront(maxN, t)) \/ JustAdmitted = {}
  BY WhoIsAdmitted
<1>2. ASSUME \/ \E c \in Clients, s \in Sids : Enqueue(c, s)
             \/ \E s \in Sids, t \in Sampled : Position(s, t) \/ Hold(s, t)
             \/ \E t \in Sampled : AdmitNobody(t)
             \/ \E s \in Sids : Release(s) \/ Remove(s)
             \/ \E c, t \in Sampled : Reclaim(c, t)
             \/ \E engaged \in BOOLEAN : SetKillSwitch(engaged)
             \/ UNCHANGED vars
      PROVE  UNCHANGED <<now, bucket>>
  BY <1>2 DEF Enqueue, KeepPlace, JoinLine, Position, Hold, AdmitNobody, Release, Remove,
              Reclaim, SetKillSwitch, vars
<1> QED BY <1>1, <1>2, LimitAssumption DEF Next, AdmitBatch

----------------------------------------------------------------------------
(* The meter                                                               *)

Level == Refilled(now)
FillTime == (BucketSize + Rate - 1) \div Rate

\* In FillTime ticks an empty bucket fills.
LEMMA FillTimeFills ==
  ASSUME Rate > 0
  PROVE  FillTime \in Nat /\ Rate * FillTime >= BucketSize
<1> DEFINE a == BucketSize + Rate - 1
<1>1. a \in Nat /\ Rate \in Nat /\ BucketSize \in Nat
  BY BucketSizeBounds, LimitAssumption
<1> HIDE DEF a
<1>2. a = Rate * (a \div Rate) + (a % Rate) /\ a % Rate \in 0..(Rate - 1) /\ a \div Rate \in Nat
  BY <1>1
<1>3. Rate * (a \div Rate) \in Nat
  BY <1>1, <1>2
<1>4. Rate * (a \div Rate) >= a - (Rate - 1)
  BY <1>1, <1>2, <1>3
<1> QED BY <1>1, <1>2, <1>3, <1>4 DEF FillTime, a

\* The bucket's key lives until the bucket is full again, so that a missing key,
\* which counts as a full bucket, credits nothing that time has not.
BucketOK ==
  bucket # NoBucket =>
    /\ Rate > 0
    /\ bucket.ts <= now
    /\ bucket.exp >= bucket.ts + FillTime

LEMMA BucketStep ==
  ASSUME TypeOK, BucketOK, [Next]_vars
  PROVE  BucketOK'
<1>1. now \in Nat
  BY DEF TypeOK
<1>2. ASSUME NEW maxN \in Nat, NEW t \in Sampled, AdmitFront(maxN, t) PROVE BucketOK'
  <2>1. now' = now /\ bucket' = Spent(Cardinality(JustAdmitted), t)
    BY <1>2, BatchIsAdmitted DEF AdmitFront
  <2>2. CASE Rate = 0
    BY <2>1, <2>2 DEF Spent, BucketOK
  <2>3. CASE Rate # 0
    <3>1. Rate > 0 /\ t \in Nat /\ t <= now /\ FillTime \in Nat
      BY <1>1, <2>3, ReadingsArePast, FillTimeFills, LimitAssumption
    <3>2. bucket'.ts = t /\ bucket'.exp = now + FillTime + BucketLinger
      BY <2>1, <2>3 DEF Spent, FillTime
    <3> QED BY <1>1, <2>1, <3>1, <3>2, ClockAssumption DEF BucketOK
  <2> QED BY <2>2, <2>3
<1>3. CASE Tick
  <2>1. now' = now + 1 /\ bucket' \in {bucket, NoBucket}
    BY <1>3 DEF Tick
  <2>2. bucket # NoBucket => bucket.ts \in Nat
    BY DEF TypeOK, Bucket
  <2> QED BY <1>1, <2>1, <2>2 DEF BucketOK
<1>4. CASE UNCHANGED <<now, bucket>>
  BY <1>4 DEF BucketOK
<1> QED BY <1>2, <1>3, <1>4, NoBatchStep

\* What the bucket holds now, when it was written in the past.
LEMMA LevelIs ==
  ASSUME TypeOK, BucketOK
  PROVE  /\ Level \in Nat /\ Level <= BucketSize
         /\ bucket = NoBucket => Level = BucketSize
         /\ bucket # NoBucket =>
              LET m == bucket.tokens + Rate * (now - bucket.ts)
              IN m \in Nat /\ Level = IF BucketSize <= m THEN BucketSize ELSE m
<1>1. CASE bucket = NoBucket
  BY <1>1, BucketSizeBounds DEF Level, Refilled
<1>2. CASE bucket # NoBucket
  <2>1. bucket.tokens \in Nat /\ bucket.ts \in Nat /\ bucket.ts <= now /\ now \in Nat
    BY <1>2 DEF TypeOK, Bucket, BucketOK
  <2>2. Max({0, now - bucket.ts}) = now - bucket.ts /\ now - bucket.ts \in Nat
    BY <2>1, MaxOfTwo
  <2> DEFINE m == bucket.tokens + Rate * (now - bucket.ts)
  <2>3. m \in Nat
    BY <2>1, <2>2, LimitAssumption
  <2>4. Level = Min({BucketSize, m})
    BY <1>2, <2>2 DEF Level, Refilled
  <2> HIDE DEF m
  <2>5. Level = IF BucketSize <= m THEN BucketSize ELSE m
    BY <2>3, <2>4, MinOfTwo, BucketSizeBounds
  <2> QED BY <1>2, <2>3, <2>5, BucketSizeBounds DEF m
<1> QED BY <1>1, <1>2

\* A batch is taken from the meter.
LEMMA LevelOfBatch ==
  ASSUME TypeOK, BucketOK, MaxLag = 0, [Next]_vars,
         NEW maxN \in Nat, NEW t \in Sampled, AdmitFront(maxN, t)
  PROVE  /\ Rate = 0 => Level' = Level
         /\ Rate > 0 => /\ Level' = Level - Cardinality(JustAdmitted) * TokenUnit
                        /\ Cardinality(JustAdmitted) * TokenUnit <= Level
<1>1. now' = now /\ t = now /\ now \in Nat
  BY ReadingIsNow DEF AdmitFront, TypeOK
<1>2. bucket' = Spent(Cardinality(JustAdmitted), now) /\ Cardinality(JustAdmitted) \in Nat
  BY <1>1, BatchIsAdmitted
<1>3. CASE Rate = 0
  BY <1>1, <1>2, <1>3 DEF Level, Refilled, Spent
<1>4. CASE Rate > 0
  <2> DEFINE spent == Cardinality(JustAdmitted) * TokenUnit
  <2>1. spent <= Level /\ spent \in Nat
    BY <1>1, <1>2, <1>4, BatchIsAdmitted, LimitAssumption DEF Level
  <2>2. bucket'.tokens = Level - spent /\ bucket'.ts = now /\ bucket' # NoBucket
    <3>1. bucket' = [tokens |-> Level - spent, ts |-> now,
                     exp |-> now + FillTime + BucketLinger]
      BY <1>2, <1>4 DEF Spent, FillTime, Level
    <3>2. bucket' \in Bucket
      <4>1. now + FillTime + BucketLinger \in Nat
        BY <1>1, <1>4, FillTimeFills, ClockAssumption
      <4>2. Level - spent \in Nat
        BY <2>1, LevelIs
      <4> QED BY <1>1, <3>1, <4>1, <4>2 DEF Bucket
    <3> QED BY <3>1, <3>2, NoBucketAssumption
  <2> HIDE DEF spent
  <2>3. Level' = Min({BucketSize, (Level - spent) + Rate * Max({0, now - now})})
    BY <1>1, <2>2 DEF Level, Refilled
  <2>4. Rate * Max({0, now - now}) = 0
    BY <1>1, MaxOfTwo, LimitAssumption
  <2>5. Level' = Level - spent
    BY <2>1, <2>3, <2>4, LevelIs, MinOfTwo, BucketSizeBounds
  <2> QED BY <1>4, <2>1, <2>5 DEF spent
<1> QED BY <1>3, <1>4, LimitAssumption

\* A tick fills the meter by the rate, whether the bucket's key stays or expires.
LEMMA LevelOfTick ==
  ASSUME TypeOK, BucketOK, Tick
  PROVE  Level' = Min({BucketSize, Level + Rate})
<1>1. /\ now' = now + 1 /\ now \in Nat /\ Rate \in Nat
      /\ Level \in Nat /\ Level <= BucketSize /\ BucketSize \in Nat
  BY LevelIs, LimitAssumption, BucketSizeBounds DEF Tick, TypeOK
<1>2. Min({BucketSize, Level + Rate})
        = IF BucketSize <= Level + Rate THEN BucketSize ELSE Level + Rate
  BY <1>1, MinOfTwo
<1>3. CASE bucket = NoBucket
  BY <1>1, <1>2, <1>3, LevelIs DEF Tick, Level, Refilled
<1>4. CASE bucket # NoBucket
  <2> DEFINE m == bucket.tokens + Rate * (now - bucket.ts)
  <2>1. m \in Nat /\ Level = IF BucketSize <= m THEN BucketSize ELSE m
    BY <1>4, LevelIs
  <2>2. bucket.tokens \in Nat /\ bucket.ts \in Nat /\ bucket.exp \in Nat /\ bucket.ts <= now
    BY <1>4 DEF TypeOK, Bucket, BucketOK
  <2>3. CASE bucket' = bucket
    <3>1. Max({0, now' - bucket.ts}) = now - bucket.ts + 1 /\ now - bucket.ts \in Nat
      BY <1>1, <2>2, MaxOfTwo
    <3>2. Rate * (now - bucket.ts + 1) = Rate * (now - bucket.ts) + Rate
      BY <1>1, <3>1
    <3>3. Level' = Min({BucketSize, m + Rate})
      <4>0. Level' = Min({BucketSize, bucket.tokens + Rate * Max({0, now' - bucket.ts})})
        BY <1>4, <2>3 DEF Level, Refilled
      <4>1. Level' = Min({BucketSize, bucket.tokens + Rate * (now - bucket.ts + 1)})
        BY <1>1, <3>1, <4>0
      <4>2. bucket.tokens + Rate * (now - bucket.ts + 1) = m + Rate
        <5>1. Rate * (now - bucket.ts) \in Nat
          BY <1>1, <3>1
        <5> QED BY <1>1, <2>2, <3>2, <5>1
      <4> QED BY <4>1, <4>2
    <3> HIDE DEF m
    <3>4. Level' = IF BucketSize <= m + Rate THEN BucketSize ELSE m + Rate
      BY <1>1, <2>1, <3>3, MinOfTwo
    <3>5. CASE BucketSize <= m
      BY <1>1, <1>2, <2>1, <3>4, <3>5
    <3>6. CASE ~(BucketSize <= m)
      BY <1>1, <1>2, <2>1, <3>4, <3>6
    <3> QED BY <3>5, <3>6
  <2>4. CASE bucket' # bucket
    <3>1. bucket' = NoBucket /\ bucket.exp < now + 1
      BY <1>1, <2>4 DEF Tick
    <3>2. Rate > 0 /\ FillTime \in Nat /\ Rate * FillTime >= BucketSize
          /\ bucket.exp >= bucket.ts + FillTime
      BY <1>4, FillTimeFills DEF BucketOK
    <3>3. now - bucket.ts >= FillTime /\ now - bucket.ts \in Nat
      BY <1>1, <2>2, <3>1, <3>2
    <3>4. Rate * (now - bucket.ts) >= Rate * FillTime
      <4>1. Rate * ((now - bucket.ts) - FillTime) \in Nat
        BY <1>1, <3>2, <3>3
      <4>2. Rate * (now - bucket.ts) = Rate * FillTime + Rate * ((now - bucket.ts) - FillTime)
        BY <1>1, <3>2, <3>3
      <4>3. Rate * FillTime \in Nat
        BY <1>1, <3>2
      <4> QED BY <4>1, <4>2, <4>3
    <3>5. m >= BucketSize
      <4>1. Rate * (now - bucket.ts) \in Nat /\ Rate * FillTime \in Nat
        BY <1>1, <3>2, <3>3
      <4> QED BY <1>1, <2>2, <3>2, <3>4, <4>1
    <3> HIDE DEF m
    <3>6. Level = BucketSize /\ Level' = BucketSize
      BY <2>1, <3>1, <3>5 DEF Level, Refilled
    <3> QED BY <1>1, <1>2, <3>6
  <2> QED BY <2>3, <2>4
<1> QED BY <1>3, <1>4

----------------------------------------------------------------------------
(* The rate.  What has been granted and what the meter still shows are      *)
(* never more than the time since the room opened has brought.             *)

MeterInv ==
  /\ granted \in Nat
  /\ Rate > 0 => granted * TokenUnit + Level <= BucketSize + Rate * now

LEMMA MeterStep ==
  ASSUME TypeOK, BucketOK, MaxLag = 0, MeterInv, [MeteredNext]_<<vars, granted>>
  PROVE  MeterInv'
<1>1. CASE UNCHANGED <<vars, granted>>
  BY <1>1 DEF MeterInv, Level, Refilled, vars
<1>2. CASE MeteredNext
  <2> DEFINE n == Cardinality(JustAdmitted)
  <2>1. Next /\ granted' = granted + n /\ granted \in Nat
    BY <1>2 DEF MeteredNext, MeterInv
  <2>2. /\ now \in Nat /\ Level \in Nat /\ BucketSize \in Nat /\ Rate \in Nat /\ TokenUnit \in Nat
        /\ Rate * now \in Nat /\ granted * TokenUnit \in Nat
    BY <2>1, LevelIs, BucketSizeBounds, LimitAssumption DEF TypeOK
  <2>3. ASSUME NEW maxN \in Nat, NEW t \in Sampled, AdmitFront(maxN, t) PROVE MeterInv'
    <3>1. n \in Nat /\ now' = now
      BY <2>1, <2>3, BatchIsAdmitted DEF AdmitFront
    <3>2. Rate > 0 => Level' = Level - n * TokenUnit
      BY <2>1, <2>3, LevelOfBatch
    <3> HIDE DEF n
    <3>3. granted' \in Nat /\ granted' * TokenUnit = granted * TokenUnit + n * TokenUnit
          /\ n * TokenUnit \in Nat
      BY <2>1, <2>2, <3>1
    <3>4. CASE Rate > 0
      <4>1. granted' * TokenUnit + Level' = granted * TokenUnit + Level
        BY <2>2, <3>2, <3>3, <3>4
      <4> QED BY <3>1, <3>3, <3>4, <4>1 DEF MeterInv
    <3> QED BY <3>3, <3>4 DEF MeterInv
  <2>4. ASSUME JustAdmitted = {} PROVE granted' = granted
    BY <2>1, <2>4, FS_EmptySet
  <2>5. ASSUME Tick, JustAdmitted = {} PROVE MeterInv'
    <3>1. Level' <= Level + Rate /\ Level' \in Nat
      BY <2>2, <2>5, LevelOfTick, MinOfTwo
    <3>2. Rate * now' = Rate * now + Rate
      BY <2>2, <2>5 DEF Tick
    <3> QED BY <2>1, <2>2, <2>4, <2>5, <3>1, <3>2 DEF MeterInv
  <2>6. ASSUME UNCHANGED <<now, bucket>>, JustAdmitted = {} PROVE MeterInv'
    <3>1. Level' = Level /\ now' = now /\ granted' = granted
      BY <2>4, <2>6 DEF Level, Refilled
    <3> QED BY <2>1, <2>2, <3>1 DEF MeterInv
  <2> QED BY <2>1, <2>3, <2>5, <2>6, NoBatchStep
<1> QED BY <1>1, <1>2

\* A bucket's key is never written with a reading ahead of the clock, nor with a life
\* shorter than its filling (admit_batch.lua 99-104).
THEOREM MeteredRoomIsTyped == MeteredSpec => [](TypeOK /\ BucketOK)
<1>1. MeteredInit => TypeOK /\ BucketOK
  BY TypeOKInit DEF MeteredInit, Init, BucketOK
<1>2. TypeOK /\ BucketOK /\ [MeteredNext]_<<vars, granted>> => TypeOK' /\ BucketOK'
  BY TypeOKStep, BucketStep DEF MeteredNext, vars
<1> QED BY <1>1, <1>2, PTL DEF MeteredSpec

\* The rate is never overshot, for every rate, burst and interleaving of processes,
\* when clocks are read as the scripts run: a bucket that expires is full, one that
\* is full gains nothing, and no batch spends what is not there (admit_batch.lua).
THEOREM RateHolds ==
  ASSUME MaxLag = 0
  PROVE  MeteredSpec => []RateNeverOvershot
<1>1. MeteredInit => MeterInv
  <2> SUFFICES ASSUME MeteredInit PROVE MeterInv
    OBVIOUS
  <2>1. Level = BucketSize /\ granted = 0 /\ now = 0
    BY DEF MeteredInit, Init, Level, Refilled
  <2> QED BY <2>1, BucketSizeBounds, LimitAssumption DEF MeterInv
<1>2. TypeOK /\ BucketOK /\ MeterInv /\ [MeteredNext]_<<vars, granted>> => MeterInv'
  BY MeterStep
<1>3. TypeOK /\ BucketOK /\ MeterInv => RateNeverOvershot
  <2> SUFFICES ASSUME TypeOK, BucketOK, MeterInv, Rate > 0
               PROVE  granted * TokenUnit <= BucketSize + Rate * now
    BY DEF RateNeverOvershot
  <2>1. granted * TokenUnit \in Nat /\ Rate * now \in Nat /\ Level \in Nat /\ BucketSize \in Nat
    BY LevelIs, BucketSizeBounds, LimitAssumption DEF TypeOK, MeterInv
  <2> QED BY <2>1 DEF MeterInv
<1> QED BY <1>1, <1>2, <1>3, MeteredRoomIsTyped, PTL DEF MeteredSpec

----------------------------------------------------------------------------
(* The contract.  The line is the queue, the holders are the sessions with  *)
(* a deadline, the meter is Level, the door is the kill switch.            *)

\* Sessions leave the line or lose their slots.
LEMMA LeaveStep ==
  ASSUME TypeOK, NEW D \in SUBSET DOMAIN queue, NEW E \in SUBSET DOMAIN admitted,
         queue' = Restrict(queue, DOMAIN queue \ D), DOMAIN admitted' = DOMAIN admitted \ E,
         Level' = Level, killswitch' = killswitch
  PROVE  Contract!Next
<1>1. Contract!Leave(D, E)
  BY DEF Contract!Leave, Contract!Restrict, Restrict, Level
<1> QED BY <1>1 DEF Contract!Next

\* Nothing changes that the contract speaks of.
LEMMA StutterStep ==
  ASSUME queue' = queue, DOMAIN admitted' = DOMAIN admitted, Level' = Level,
         killswitch' = killswitch
  PROVE  UNCHANGED Contract!vars
BY DEF Contract!vars, Level

LEMMA JoinStep ==
  ASSUME TypeOK, NEW c, NEW s \in Sids, NEW score, NEW t, JoinLine(c, s, score, t)
  PROVE  [Contract!Next]_(Contract!vars)
<1>1. Level' = Level /\ killswitch' = killswitch /\ admitted' = admitted /\ ~killswitch
  BY DEF JoinLine, Refused, Level, Refilled
<1>2. CASE s \in DOMAIN queue
  BY <1>1, <1>2, StutterStep DEF JoinLine, Joined
<1>3. CASE s \notin DOMAIN queue
  <2>1. queue' = Put(queue, {s}, score)
    BY <1>3 DEF JoinLine, Joined
  <2>2. DOMAIN queue' = DOMAIN queue \cup {s}
    BY <2>1 DEF Put
  <2>3. Restrict(queue', DOMAIN queue) = queue
    <3>1. \A x \in DOMAIN queue : queue'[x] = queue[x]
      BY <1>3, <2>1 DEF Put
    <3>2. queue = [x \in DOMAIN queue |-> queue[x]]
      BY DEF TypeOK
    <3> QED BY <2>2, <3>1, <3>2 DEF Restrict
  <2>4. Contract!Join(s)
    BY <1>1, <1>3, <2>2, <2>3 DEF Contract!Join, Contract!Restrict, Restrict, Level
  <2> QED BY <2>4 DEF Contract!Next
<1> QED BY <1>2, <1>3

\* The instance has definitions of its own of what it extends.
LEMMA SameCardinality == ASSUME NEW S PROVE Contract!Cardinality(S) = Cardinality(S)
BY DEF Contract!Cardinality, Cardinality

LEMMA GrantStep ==
  ASSUME TypeOK, CapacityRespected', BucketOK, MaxLag = 0, [Next]_vars,
         NEW maxN \in Nat, NEW t \in Sampled, AdmitFront(maxN, t)
  PROVE  Contract!Next
<1> DEFINE A == JustAdmitted
           D == Front(maxN, t) \ DOMAIN hash
<1>1. A = Front(maxN, t) \cap DOMAIN hash /\ Front(maxN, t) \subseteq DOMAIN queue
  BY BatchIsAdmitted DEF Front
<1>2. A \cup D = Front(maxN, t) /\ A \in SUBSET DOMAIN queue /\ D \in SUBSET DOMAIN queue
      /\ A \cap D = {}
  BY <1>1
<1>3. queue' = Restrict(queue, DOMAIN queue \ (A \cup D))
  BY <1>2 DEF AdmitFront, Drop
<1>4. ~killswitch /\ killswitch' = killswitch
  BY DEF AdmitFront
<1>5. \A s \in A, r \in DOMAIN queue' : ~Contract!Ahead(r, s)
  BY FifoStep DEF Contract!Ahead, Before
<1>6. A \subseteq DOMAIN admitted' /\ DOMAIN admitted' \subseteq DOMAIN admitted \cup A
  <2>1. DOMAIN admitted' = DOMAIN HeldAfter(t) \cup (Front(maxN, t) \cap DOMAIN hash)
    BY DEF AdmitFront, Put
  <2> QED BY <1>1, <2>1, HeldIsFewer
<1>7. Capacity > 0 => Cardinality(DOMAIN admitted') <= Capacity
  BY DEF CapacityRespected
<1>8. IF Rate > 0
      THEN /\ Cardinality(A) * TokenUnit <= Level
           /\ Level' = Level - Cardinality(A) * TokenUnit
      ELSE UNCHANGED Level
  BY LevelOfBatch, LimitAssumption
<1> HIDE DEF A, D
<1>9. Contract!Grant(A, D)
  BY <1>3, <1>4, <1>5, <1>6, <1>7, <1>8, SameCardinality
     DEF Contract!Grant, Contract!Restrict, Restrict, Level
<1> QED BY <1>2, <1>9 DEF Contract!Next

LEMMA ContractStep ==
  ASSUME TypeOK, CapacityRespected', BucketOK, MaxLag = 0, [Next]_vars
  PROVE  [Contract!Next]_(Contract!vars)
<1>0. ASSUME bucket' = bucket, now' = now PROVE Level' = Level
  BY <1>0 DEF Level, Refilled
<1>1. ASSUME NEW c \in Clients, NEW s \in Sids, Enqueue(c, s)
      PROVE  [Contract!Next]_(Contract!vars)
  <2>1. ASSUME NEW t, KeepPlace(c, s, t) PROVE [Contract!Next]_(Contract!vars)
    BY <1>0, <2>1, StutterStep DEF KeepPlace
  <2> QED BY <1>1, <2>1, JoinStep DEF Enqueue
<1>2. ASSUME NEW s \in Sids, NEW t \in Sampled, Position(s, t) \/ Hold(s, t)
      PROVE  UNCHANGED Contract!vars
  BY <1>0, <1>2, StutterStep DEF Position, Hold, Extended, Put
<1>3. ASSUME NEW t \in Sampled, AdmitNobody(t) PROVE Contract!Next
  <2>1. queue' = Restrict(queue, DOMAIN queue \ {})
    BY <1>3 DEF AdmitNobody, TypeOK, Restrict
  <2>2. DOMAIN admitted' = DOMAIN admitted \ UpTo(admitted, t) /\ UpTo(admitted, t) \subseteq DOMAIN admitted
    BY <1>3 DEF AdmitNobody, HeldAfter, Drop, Restrict, UpTo
  <2> QED BY <1>0, <1>3, <2>1, <2>2, LeaveStep DEF AdmitNobody
<1>4. ASSUME NEW s \in Sids, Release(s) PROVE Contract!Next
  <2>1. queue' = Restrict(queue, DOMAIN queue \ {})
    BY <1>4 DEF Release, TypeOK, Restrict
  <2>2. DOMAIN admitted' = DOMAIN admitted \ {s} /\ s \in DOMAIN admitted
    BY <1>4 DEF Release, Drop, Restrict
  <2>3. {s} \in SUBSET DOMAIN admitted
    BY <2>2
  <2> QED BY <1>0, <1>4, <2>1, <2>2, <2>3, LeaveStep DEF Release
<1>5. ASSUME NEW s \in Sids, Remove(s) PROVE Contract!Next
  <2> DEFINE D == {s} \cap DOMAIN queue
  <2>1. queue' = Restrict(queue, DOMAIN queue \ D)
    <3>1. DOMAIN queue \ {s} = DOMAIN queue \ D
      OBVIOUS
    <3> QED BY <1>5, <3>1 DEF Remove, Drop
  <2>2. DOMAIN admitted' = DOMAIN admitted \ {} /\ D \in SUBSET DOMAIN queue
    BY <1>5 DEF Remove
  <2> HIDE DEF D
  <2>3. Level' = Level /\ killswitch' = killswitch /\ {} \in SUBSET DOMAIN admitted
    BY <1>0, <1>5 DEF Remove
  <2> QED BY <2>1, <2>2, <2>3, LeaveStep
<1>6. ASSUME NEW c \in Sampled, NEW t \in Sampled, Reclaim(c, t) PROVE Contract!Next
  <2> DEFINE D == IdleSince(c) \cap DOMAIN queue
             E == UpTo(admitted, t)
  <2>1. queue' = Restrict(queue, DOMAIN queue \ D)
    <3>1. DOMAIN queue \ IdleSince(c) = DOMAIN queue \ D
      OBVIOUS
    <3> QED BY <1>6, <3>1 DEF Reclaim, Drop
  <2>2. DOMAIN admitted' = DOMAIN admitted \ E /\ E \in SUBSET DOMAIN admitted
    BY <1>6 DEF Reclaim, Drop, Restrict, UpTo
  <2>3. D \in SUBSET DOMAIN queue
    OBVIOUS
  <2> HIDE DEF D, E
  <2> QED BY <1>0, <1>6, <2>1, <2>2, <2>3, LeaveStep DEF Reclaim
<1>7. ASSUME NEW engaged \in BOOLEAN, SetKillSwitch(engaged)
      PROVE  [Contract!Next]_(Contract!vars)
  <2>1. /\ queue' = queue /\ admitted' = admitted /\ Level' = Level
        /\ killswitch' \in BOOLEAN /\ killswitch \in BOOLEAN
    BY <1>0, <1>7 DEF SetKillSwitch, TypeOK
  <2>2. CASE killswitch' = killswitch
    BY <2>1, <2>2, StutterStep
  <2>3. CASE killswitch' # killswitch
    <3>1. (~killswitch)' = ~(~killswitch)
      BY <2>1, <2>3
    <3>2. Contract!Switch
      BY <2>1, <3>1 DEF Contract!Switch, Level
    <3> QED BY <3>2 DEF Contract!Next
  <2> QED BY <2>2, <2>3
<1>8. CASE Tick
  <2>1. Contract!Refill
    BY <1>8, LevelOfTick DEF Contract!Refill, Contract!Min, Min, Level, Tick
  <2> QED BY <2>1 DEF Contract!Next
<1>9. CASE UNCHANGED vars
  BY <1>0, <1>9, StutterStep DEF vars
<1> QED BY <1>1, <1>2, <1>3, <1>4, <1>5, <1>6, <1>7, <1>8, <1>9, GrantStep, LimitAssumption
        DEF Next, AdmitBatch

\* The store implements the contract of the interface, for every configuration, when
\* clocks are read as the scripts run: scripts, deadlines, metadata and expiring keys
\* never show but as the line, slots, meter and door that StorageBackend promises.
THEOREM StoreKeepsContract ==
  ASSUME MaxLag = 0
  PROVE  Spec => KeepsContract
<1>1. Init => Contract!Init
  <2> SUFFICES ASSUME Init PROVE Contract!Init
    OBVIOUS
  <2>1. queue = [x \in {} |-> 0] /\ DOMAIN admitted = {} /\ Refilled(now) = BucketSize
        /\ ~killswitch
    BY EmptyTyped DEF Init, Empty, Refilled
  <2> QED BY <2>1 DEF Contract!Init
<1>2. Init => BucketOK
  BY DEF Init, BucketOK
<1>3. TypeOK /\ BucketOK /\ [Next]_vars => BucketOK'
  BY BucketStep
<1>4. TypeOK /\ CapacityRespected' /\ BucketOK /\ [Next]_vars => [Contract!Next]_(Contract!vars)
  BY ContractStep
<1> QED BY <1>1, <1>2, <1>3, <1>4, TypeCorrect, CapacityHolds, PTL
        DEF Spec, KeepsContract, Contract!Spec

----------------------------------------------------------------------------
(* Engines with a strategy, whose clocks may be as old as they like.        *)

LEMMA LeastOf ==
  ASSUME NEW a \in Int, NEW b \in Int, NEW T, T = {} \/ \E c \in Int : T = {c}
  PROVE  /\ Min({a, b} \cup T) \in Int
         /\ Min({a, b} \cup T) <= a
         /\ Min({a, b} \cup T) <= b
<1> DEFINE S == {a, b} \cup T
<1>1. CASE T = {}
  <2>1. S = {a, b}
    BY <1>1
  <2> QED BY <2>1, MinOfTwo
<1>2. ASSUME NEW c \in Int, T = {c}
      PROVE  /\ Min({a, b} \cup T) \in Int
         /\ Min({a, b} \cup T) <= a
         /\ Min({a, b} \cup T) <= b
  <2>1. S = {a, b, c}
    BY <1>2
  <2>2. \E x \in {a, b, c} : \A y \in {a, b, c} : x <= y
    BY <1>2
  <2>3. Min({a, b, c}) \in {a, b, c} /\ \A y \in {a, b, c} : Min({a, b, c}) <= y
    BY <2>2 DEF Min
  <2> QED BY <1>2, <2>1, <2>3
<1> QED BY <1>1, <1>2

LEMMA WholeTokens ==
  ASSUME NEW a \in Nat, NEW b \in Nat \ {0}
  PROVE  a \div b \in Nat /\ (a \div b) * b <= a
<1>1. a = b * (a \div b) + (a % b)
  OBVIOUS
<1>2. a % b \in 0..(b - 1) /\ a \div b \in Nat
  OBVIOUS
<1>3. (a \div b) * b = b * (a \div b) /\ b * (a \div b) \in Nat
  BY <1>2
<1> QED BY <1>1, <1>2, <1>3

LEMMA LocalBucketIsNatural == LocalBucket \in Nat
<1> DEFINE a == StrategyBurst * TokenUnit
<1>1. a \in Nat /\ StrategyRate * Second \in Nat /\ TokenUnit \in Nat
  BY StrategyAssumption, LimitAssumption, ClockAssumption
<1> DEFINE r == StrategyRate * Second
<1> HIDE DEF a, r
<1>2. \E x \in {a, r, TokenUnit} : \A y \in {a, r, TokenUnit} : x >= y
  BY <1>1 DEF r
<1>3. Max({a, r, TokenUnit}) \in {a, r, TokenUnit}
  BY <1>2 DEF Max
<1> QED BY <1>1, <1>3 DEF LocalBucket, StrategySize, a, r

\* What a strategy has granted and its tick has not used yet.
Pending(e) == IF step[e][1] = "asked" THEN step[e][2] ELSE 0

EngineOK(e) ==
  /\ step[e][1] = "asked" => step[e][2] \in 1..MaxBatch
  /\ last[e] <= now
  /\ (served[e] + Pending(e)) * TokenUnit + tokens[e] <= LocalBucket + StrategyRate * last[e]

EnginesOK ==
  /\ step \in [Engines -> {"idle", "sized", "asked"} \X Nat]
  /\ tokens \in [Engines -> Nat]
  /\ last \in [Engines -> Nat]
  /\ served \in [Engines -> Nat]
  /\ \A e \in Engines : EngineOK(e)

\* A tick of an engine runs the script as everybody does, so the store's steps are
\* its steps.
LEMMA TickerStepIsMetered ==
  ASSUME EnginesOK, [TickerNext]_<<vars, granted, tickerVars>>
  PROVE  [MeteredNext]_<<vars, granted>>
<1>1. ASSUME NEW e \in Engines, RunScript(e) PROVE MeteredNext
  <2>1. PICK t \in Sampled : AdmitBatch(step[e][2], t)
    BY <1>1 DEF RunScript
  <2>2. step[e][2] \in 1..MaxBatch
    BY <1>1 DEF RunScript, EnginesOK, EngineOK
  <2> QED BY <1>1, <2>1, <2>2 DEF RunScript, MeteredNext, Next
<1>2. ASSUME NEW e \in Engines, ReadSize(e) \/ AskStrategy(e) \/ TickFails(e)
      PROVE  UNCHANGED <<vars, granted>>
  BY <1>2 DEF ReadSize, AskStrategy, TickFails
<1> QED BY <1>1, <1>2 DEF TickerNext

\* The strategy's answer: no more than it has handed out, and tokens taken for it.
LEMMA StrategyAnswers ==
  ASSUME TypeOK, EnginesOK, NEW e \in Engines, step[e][2] # 0
  PROVE  LET h == Handed(e, step[e][2])
         IN /\ h \in Nat
            /\ TokensLeft(e, step[e][2]) \in Nat
            /\ TokensLeft(e, step[e][2]) + h * TokenUnit <= tokens[e] + StrategyRate * (now - last[e])
<1> DEFINE size == step[e][2]
           in == tokens[e] + StrategyRate * (now - last[e])
           full == FilledUp(e)
           h == Handed(e, size)
<1>1. size \in Nat /\ size # 0 /\ TokenUnit \in Nat \ {0}
  BY LimitAssumption DEF EnginesOK
<1>2. in \in Nat
  <2>1. now - last[e] \in Nat /\ tokens[e] \in Nat /\ StrategyRate \in Nat
    BY StrategyAssumption DEF EnginesOK, EngineOK, TypeOK
  <2> QED BY <2>1
<1>3. full \in Nat /\ full <= in
  <2>1. full = Min({LocalBucket, in})
    BY DEF FilledUp, Accrued
  <2> HIDE DEF full, in
  <2> QED BY <1>2, <2>1, MinOfTwo, LocalBucketIsNatural
<1>4. full \div TokenUnit \in Nat /\ (full \div TokenUnit) * TokenUnit <= full
  <2> HIDE DEF full
  <2> QED BY <1>1, <1>3, WholeTokens
<1>5. h \in Nat /\ h <= full \div TokenUnit
  <2>1. h = Min({full \div TokenUnit, size})
    BY <1>1 DEF Handed, TimeBucketSlots
  <2> HIDE DEF full, h, size
  <2> QED BY <1>1, <1>4, <2>1, MinOfTwo
<1>6. h * TokenUnit \in Nat /\ h * TokenUnit <= full
  <2> HIDE DEF full, h
  <2> DEFINE q == full \div TokenUnit
  <2>1. q \in Nat /\ q * TokenUnit <= full /\ h <= q
    BY <1>4, <1>5
  <2> HIDE DEF q
  <2>2. q * TokenUnit = h * TokenUnit + (q - h) * TokenUnit /\ (q - h) * TokenUnit \in Nat
        /\ h * TokenUnit \in Nat /\ q * TokenUnit \in Nat
    BY <1>1, <1>5, <2>1
  <2> QED BY <1>3, <2>1, <2>2
<1>7. TokensLeft(e, size) = full - h * TokenUnit
  BY <1>1 DEF TokensLeft
<1> HIDE DEF full, h, in
<1>8. TokensLeft(e, size) \in Nat /\ TokensLeft(e, size) + h * TokenUnit <= in
  BY <1>2, <1>3, <1>6, <1>7
<1> QED BY <1>5, <1>8 DEF h, in

\* A step of another engine, or of the store, leaves an engine as it is.
LEMMA EngineKept ==
  ASSUME NEW e, EngineOK(e), now \in Nat, last[e] \in Nat, now' = now \/ now' = now + 1,
         step'[e] = step[e], tokens'[e] = tokens[e], last'[e] = last[e], served'[e] = served[e]
  PROVE  EngineOK(e)'
BY DEF EngineOK, Pending

LEMMA AskStep ==
  ASSUME TypeOK, EnginesOK, NEW e \in Engines, AskStrategy(e)
  PROVE  /\ step'[e] \in {"idle", "sized", "asked"} \X Nat
         /\ tokens'[e] \in Nat /\ last'[e] \in Nat
         /\ EngineOK(e)'
<1> DEFINE size == step[e][2]
           h == Handed(e, size)
<1>1. /\ now \in Nat /\ size \in Nat /\ tokens[e] \in Nat /\ last[e] \in Nat /\ served[e] \in Nat
      /\ last[e] <= now /\ TokenUnit \in Nat \ {0} /\ MaxBatch \in Nat
      /\ StrategyRate \in Nat /\ LocalBucket \in Nat
  BY LocalBucketIsNatural, LimitAssumption, StrategyAssumption DEF EnginesOK, EngineOK, TypeOK
<1>2. served[e] * TokenUnit + tokens[e] <= LocalBucket + StrategyRate * last[e]
  <2>1. Pending(e) = 0
    BY DEF AskStrategy, Pending
  <2> QED BY <1>1, <2>1 DEF EnginesOK, EngineOK
<1>3. h \in Nat /\ (size = 0 => h = 0)
  BY StrategyAnswers DEF Handed
<1>4. PICK held \in {0, Cardinality(DOMAIN admitted)} :
        LET free == IF AlsoCapacityAware THEN {CapacityAwareSlots(size, held, Capacity)} ELSE {}
            slots == Min({MaxBatch, h} \cup free)
        IN step' = [step EXCEPT ![e] = IF slots > 0 THEN <<"asked", slots>> ELSE <<"idle", 0>>]
  BY DEF AskStrategy
<1> DEFINE free == IF AlsoCapacityAware THEN {CapacityAwareSlots(size, held, Capacity)} ELSE {}
           slots == Min({MaxBatch, h} \cup free)
<1>5. slots \in Int /\ slots <= MaxBatch /\ slots <= h
  <2>1. CapacityAwareSlots(size, held, Capacity) \in Int
    <3>1. held \in Nat /\ Capacity \in Nat
      BY HeldIsFewer, LimitAssumption
    <3> HIDE DEF size
    <3>2. Min({size, Capacity - held}) \in Int
      BY <1>1, <3>1, MinOfTwo
    <3>3. Max({0, Min({size, Capacity - held})}) \in Int
      BY <3>2, MaxOfTwo
    <3> QED BY <3>3 DEF CapacityAwareSlots
  <2>2. free = {} \/ \E c \in Int : free = {c}
    BY <2>1
  <2>3. MaxBatch \in Int /\ h \in Int
    BY <1>1, <1>3
  <2> HIDE DEF free, h
  <2>4. /\ Min({MaxBatch, h} \cup free) \in Int
        /\ Min({MaxBatch, h} \cup free) <= MaxBatch
        /\ Min({MaxBatch, h} \cup free) <= h
    BY <2>2, <2>3, LeastOf, Zenon
  <2> QED BY <2>4
<1> HIDE DEF slots
<1>6. step'[e] = IF slots > 0 THEN <<"asked", slots>> ELSE <<"idle", 0>>
  BY <1>4 DEF EnginesOK, slots
<1>7. /\ Pending(e)' \in Nat /\ Pending(e)' <= h
      /\ step'[e] \in {"idle", "sized", "asked"} \X Nat
      /\ step'[e][1] = "asked" => step'[e][2] \in 1..MaxBatch
  <2> HIDE DEF h
  <2>1. CASE slots > 0
    <3>1. step'[e] = <<"asked", slots>>
      BY <1>6, <2>1
    <3> QED BY <1>5, <2>1, <3>1 DEF Pending
  <2>2. CASE ~(slots > 0)
    <3>1. step'[e] = <<"idle", 0>>
      BY <1>6, <2>2
    <3> QED BY <1>3, <3>1 DEF Pending
  <2> QED BY <2>1, <2>2
<1>8. /\ tokens'[e] = TokensLeft(e, size) /\ last'[e] = (IF size = 0 THEN last[e] ELSE now)
      /\ served'[e] = served[e] /\ now' = now
  BY DEF AskStrategy, EnginesOK, vars
<1>9. CASE size = 0
  <2>1. Pending(e)' = 0 /\ tokens'[e] = tokens[e] /\ last'[e] = last[e]
    BY <1>3, <1>7, <1>8, <1>9 DEF TokensLeft
  <2> QED BY <1>1, <1>2, <1>7, <1>8, <2>1 DEF EngineOK
<1>10. CASE size # 0
  <2>1. /\ TokensLeft(e, size) \in Nat
        /\ TokensLeft(e, size) + h * TokenUnit <= tokens[e] + StrategyRate * (now - last[e])
    BY <1>10, StrategyAnswers
  <2>2. last'[e] = now
    BY <1>8, <1>10
  <2>3. StrategyRate * now = StrategyRate * last[e] + StrategyRate * (now - last[e])
    BY <1>1
  <2> HIDE DEF h, size
  <2> DEFINE p == Pending(e)'
  <2>4. p \in Nat /\ p <= h
    BY <1>7
  <2> HIDE DEF p
  <2>5. p * TokenUnit <= h * TokenUnit
    <3>1. h * TokenUnit = p * TokenUnit + (h - p) * TokenUnit /\ (h - p) * TokenUnit \in Nat
          /\ p * TokenUnit \in Nat
      BY <1>1, <1>3, <2>4
    <3> QED BY <3>1
  <2>6. (served[e] + p) * TokenUnit = served[e] * TokenUnit + p * TokenUnit
    BY <1>1, <2>4
  <2>7. /\ served[e] * TokenUnit \in Nat /\ p * TokenUnit \in Nat /\ h * TokenUnit \in Nat
        /\ StrategyRate * now \in Nat /\ StrategyRate * last[e] \in Nat
        /\ StrategyRate * (now - last[e]) \in Nat
    BY <1>1, <1>3, <2>4
  <2>8. (served[e] + p) * TokenUnit + TokensLeft(e, size) <= LocalBucket + StrategyRate * now
    BY <1>1, <1>2, <2>1, <2>3, <2>5, <2>6, <2>7
  <2> QED BY <1>1, <1>7, <1>8, <2>1, <2>2, <2>8 DEF EngineOK, p
<1> QED BY <1>9, <1>10

LEMMA EnginesStep ==
  ASSUME TypeOK, EnginesOK, [TickerNext]_<<vars, granted, tickerVars>>
  PROVE  EnginesOK'
<1>1. now \in Nat /\ \A e \in Engines : EngineOK(e) /\ last[e] \in Nat /\ served[e] \in Nat
  BY DEF TypeOK, EnginesOK
<1>2. [Next]_vars
  BY TickerStepIsMetered DEF MeteredNext, vars
<1>3. now' = now \/ now' = now + 1
  BY <1>2, NoBatchStep DEF AdmitFront, Tick
<1>4. ASSUME UNCHANGED tickerVars PROVE EnginesOK'
  <2>1. step' = step /\ tokens' = tokens /\ last' = last /\ served' = served
    BY <1>4 DEF tickerVars
  <2>2. \A e \in Engines : EngineOK(e)'
    BY <1>1, <1>3, <2>1, EngineKept
  <2> QED BY <2>1, <2>2 DEF EnginesOK
<1>5. ASSUME NEW e \in Engines, ReadSize(e) PROVE EnginesOK'
  <2>1. /\ step' = [step EXCEPT ![e] = <<"sized", Cardinality(DOMAIN queue)>>]
        /\ tokens' = tokens /\ last' = last /\ served' = served /\ now' = now
        /\ Pending(e) = 0
    BY <1>5 DEF ReadSize, vars, Pending
  <2>2. Cardinality(DOMAIN queue) \in Nat
    BY FS_Subset, FS_CardinalityType, SidsAssumption DEF TypeOK
  <2>3. step'[e] = <<"sized", Cardinality(DOMAIN queue)>> /\ Pending(e)' = 0
    BY <2>1 DEF EnginesOK, Pending
  <2>4. EngineOK(e)'
    BY <1>1, <2>1, <2>3 DEF EngineOK
  <2>5. \A x \in Engines : EngineOK(x)'
    BY <1>1, <1>3, <2>1, <2>4, EngineKept DEF EnginesOK
  <2> QED BY <2>1, <2>2, <2>5 DEF EnginesOK
<1>6. ASSUME NEW e \in Engines, AskStrategy(e) PROVE EnginesOK'
  <2>1. /\ \A x \in Engines \ {e} : step'[x] = step[x] /\ tokens'[x] = tokens[x] /\ last'[x] = last[x]
        /\ DOMAIN step' = Engines /\ DOMAIN tokens' = Engines /\ DOMAIN last' = Engines
        /\ step' = [x \in Engines |-> step'[x]] /\ tokens' = [x \in Engines |-> tokens'[x]]
        /\ last' = [x \in Engines |-> last'[x]] /\ served' = served
    BY <1>6 DEF AskStrategy, EnginesOK
  <2>2. /\ step'[e] \in {"idle", "sized", "asked"} \X Nat
        /\ tokens'[e] \in Nat /\ last'[e] \in Nat /\ EngineOK(e)'
    BY <1>6, AskStep
  <2>3. \A x \in Engines : EngineOK(x)'
    BY <1>1, <1>3, <2>1, <2>2, EngineKept
  <2> QED BY <2>1, <2>2, <2>3 DEF EnginesOK
<1>7. ASSUME NEW e \in Engines, RunScript(e) \/ TickFails(e) PROVE EnginesOK'
  <2>1. \E n \in Nat : n <= step[e][2] /\ served' = [served EXCEPT ![e] = served[e] + n]
    <3>1. CASE TickFails(e)
      <4>1. served' = [served EXCEPT ![e] = served[e] + 0] /\ step[e][2] \in Nat
        BY <1>1, <3>1 DEF TickFails, EnginesOK
      <4> WITNESS 0 \in Nat
      <4> QED BY <4>1
    <3>2. CASE RunScript(e)
      <4>1. step[e][2] \in Nat
        BY DEF EnginesOK
      <4>2. PICK t \in Sampled : AdmitBatch(step[e][2], t)
        BY <3>2 DEF RunScript
      <4>3. Cardinality(JustAdmitted) \in Nat /\ Cardinality(JustAdmitted) <= step[e][2]
        <5>1. CASE AdmitNobody(t)
          <6>1. JustAdmitted = {}
            BY <5>1 DEF AdmitNobody, JustAdmitted
          <6> QED BY <4>1, <6>1, FS_EmptySet
        <5>2. CASE AdmitFront(step[e][2], t)
          BY <1>2, <4>1, <5>2, BatchIsAdmitted
        <5> QED BY <4>2, <5>1, <5>2 DEF AdmitBatch
      <4>4. served' = [served EXCEPT ![e] = served[e] + Cardinality(JustAdmitted)]
        BY <3>2 DEF RunScript
      <4> QED BY <4>3, <4>4
    <3> QED BY <1>7, <3>1, <3>2
  <2>2. PICK n \in Nat : n <= step[e][2] /\ served' = [served EXCEPT ![e] = served[e] + n]
    BY <2>1
  <2>3. /\ step' = [step EXCEPT ![e] = <<"idle", 0>>] /\ tokens' = tokens /\ last' = last
        /\ Pending(e) = step[e][2] /\ step[e][2] \in Nat
    BY <1>7 DEF RunScript, TickFails, Pending, EnginesOK
  <2>4. step'[e] = <<"idle", 0>> /\ served'[e] = served[e] + n /\ Pending(e)' = 0
    BY <2>2, <2>3 DEF EnginesOK, Pending
  <2>5. served'[e] * TokenUnit <= (served[e] + Pending(e)) * TokenUnit
    <3>1. (served[e] + Pending(e)) * TokenUnit
            = served'[e] * TokenUnit + (step[e][2] - n) * TokenUnit
      BY <1>1, <2>2, <2>3, <2>4, LimitAssumption
    <3>2. (step[e][2] - n) * TokenUnit \in Nat /\ served'[e] * TokenUnit \in Nat
      BY <1>1, <2>2, <2>3, <2>4, LimitAssumption
    <3> QED BY <3>1, <3>2
  <2>6. EngineOK(e)'
    <3>1. /\ served'[e] * TokenUnit \in Nat /\ (served[e] + Pending(e)) * TokenUnit \in Nat
          /\ tokens[e] \in Nat /\ StrategyRate * last[e] \in Nat /\ LocalBucket \in Nat
      BY <1>1, <2>2, <2>3, <2>4, LimitAssumption, StrategyAssumption, LocalBucketIsNatural
         DEF EnginesOK
    <3>2. (served'[e] + 0) * TokenUnit = served'[e] * TokenUnit
      BY <1>1, <2>2, <2>4
    <3>3. (served'[e] + 0) * TokenUnit + tokens[e] <= LocalBucket + StrategyRate * last[e]
      BY <1>1, <2>5, <3>1, <3>2 DEF EngineOK
    <3>4. last[e] <= now'
      BY <1>1, <1>3 DEF EngineOK
    <3> QED BY <2>3, <2>4, <3>3, <3>4 DEF EngineOK
  <2>7. \A x \in Engines : EngineOK(x)'
    BY <1>1, <1>3, <2>2, <2>3, <2>6, EngineKept DEF EnginesOK
  <2> QED BY <1>1, <2>2, <2>3, <2>4, <2>7 DEF EnginesOK
<1> QED BY <1>4, <1>5, <1>6, <1>7 DEF TickerNext

LEMMA EnginesInit == TickerInit => EnginesOK
<1> SUFFICES ASSUME TickerInit PROVE EnginesOK
  OBVIOUS
<1>1. now = 0 /\ LocalBucket \in Nat
  BY LocalBucketIsNatural DEF TickerInit, MeteredInit, Init
<1>2. ASSUME NEW e \in Engines PROVE EngineOK(e)
  <2>1. /\ step[e] = <<"idle", 0>> /\ tokens[e] = LocalBucket /\ last[e] = 0 /\ served[e] = 0
    BY <1>1 DEF TickerInit
  <2>2. Pending(e) = 0
    BY <2>1 DEF Pending
  <2> QED BY <1>1, <2>1, <2>2, LimitAssumption, StrategyAssumption DEF EngineOK
<1> QED BY <1>1, <1>2 DEF TickerInit, EnginesOK

\* An engine that asks a strategy first does nothing to the store that others do not,
\* so that what is proved of the metered store holds beside such engines.
THEOREM TickerRunsTheStore == TickerSpec => MeteredSpec /\ [](TypeOK /\ EnginesOK)
<1>1. TickerInit => MeteredInit /\ TypeOK /\ EnginesOK
  BY EnginesInit, TypeOKInit DEF TickerInit, MeteredInit
<1>2. TypeOK /\ EnginesOK /\ [TickerNext]_<<vars, granted, tickerVars>>
        => [MeteredNext]_<<vars, granted>> /\ TypeOK' /\ EnginesOK'
  <2> SUFFICES ASSUME TypeOK, EnginesOK, [TickerNext]_<<vars, granted, tickerVars>>
               PROVE  [MeteredNext]_<<vars, granted>> /\ TypeOK' /\ EnginesOK'
    OBVIOUS
  <2>1. [MeteredNext]_<<vars, granted>>
    BY TickerStepIsMetered
  <2>2. [Next]_vars
    BY <2>1 DEF MeteredNext, vars
  <2> QED BY <2>1, <2>2, TypeOKStep, EnginesStep
<1> QED BY <1>1, <1>2, PTL DEF TickerSpec, MeteredSpec

\* Beside strategic engines too, the store's rate holds and its contract is kept.
THEOREM TickerKeepsRateAndContract ==
  ASSUME MaxLag = 0
  PROVE  TickerSpec => []RateNeverOvershot /\ KeepsContract
<1>1. MeteredSpec => Spec
  <2>1. MeteredInit => Init
    BY DEF MeteredInit
  <2>2. [MeteredNext]_<<vars, granted>> => [Next]_vars
    BY DEF MeteredNext, vars
  <2> QED BY <2>1, <2>2, PTL DEF MeteredSpec, Spec
<1> QED BY <1>1, TickerRunsTheStore, RateHolds, StoreKeepsContract, PTL

\* However late the script runs that a strategy's answer was meant for, and whatever
\* the clocks of the scripts read, an engine's ticks admit no more than its strategy's
\* rate and one full bucket: what it hands out is paid for when it is handed out.
THEOREM EnginesKeepTheirRate == TickerSpec => []EngineKeepsItsRate
<1>1. TypeOK /\ EnginesOK => EngineKeepsItsRate
  <2> SUFFICES ASSUME TypeOK, EnginesOK, NEW e \in Engines
               PROVE  served[e] * TokenUnit <= LocalBucket + StrategyRate * now
    BY DEF EngineKeepsItsRate
  <2>1. /\ served[e] \in Nat /\ tokens[e] \in Nat /\ last[e] \in Nat /\ last[e] <= now /\ now \in Nat
        /\ Pending(e) \in Nat /\ TokenUnit \in Nat /\ StrategyRate \in Nat /\ LocalBucket \in Nat
    BY LimitAssumption, StrategyAssumption, LocalBucketIsNatural
       DEF EnginesOK, EngineOK, Pending, TypeOK
  <2>2. (served[e] + Pending(e)) * TokenUnit = served[e] * TokenUnit + Pending(e) * TokenUnit
        /\ served[e] * TokenUnit \in Nat /\ Pending(e) * TokenUnit \in Nat
    BY <2>1
  <2>3. StrategyRate * now = StrategyRate * last[e] + StrategyRate * (now - last[e])
        /\ StrategyRate * last[e] \in Nat /\ StrategyRate * (now - last[e]) \in Nat
    BY <2>1
  <2>4. (served[e] + Pending(e)) * TokenUnit + tokens[e] <= LocalBucket + StrategyRate * last[e]
    BY DEF EnginesOK, EngineOK
  <2> QED BY <2>1, <2>2, <2>3, <2>4
<1> QED BY <1>1, TickerRunsTheStore, PTL

============================================================================
