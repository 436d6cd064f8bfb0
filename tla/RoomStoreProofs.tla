--------------------------- MODULE RoomStoreProofs ---------------------------
(***************************************************************************)
(* The invariants of RoomStore, for every set of sessions, every           *)
(* configuration and clocks of any age (RoomLemmas holds the lemmas).      *)
(***************************************************************************)
EXTENDS RoomLemmas

(* How the Redis commands keep the type of a set or of the hashes.         *)

Typed(f, T) == DOMAIN f \subseteq Sids /\ f \in [DOMAIN f -> T]

LEMMA PutTyped ==
  ASSUME NEW T, NEW f, Typed(f, T), NEW S \in SUBSET Sids, NEW v \in T
  PROVE  Typed(Put(f, S, v), T) /\ DOMAIN Put(f, S, v) = DOMAIN f \cup S
BY DEF Typed, Put

LEMMA DropTyped ==
  ASSUME NEW T, NEW f, Typed(f, T), NEW S
  PROVE  Typed(Drop(f, S), T) /\ DOMAIN Drop(f, S) = DOMAIN f \ S
BY DEF Typed, Drop, Restrict

LEMMA SetStateTyped ==
  ASSUME NEW h, Typed(h, Session), NEW S, NEW st \in States
  PROVE  Typed(SetState(h, S, st), Session) /\ DOMAIN SetState(h, S, st) = DOMAIN h
<1>1. \A s \in DOMAIN h : [h[s] EXCEPT !.state = st] \in Session
  BY DEF Typed, Session
<1> QED BY <1>1 DEF Typed, SetState

LEMMA ExpireTyped ==
  ASSUME now \in Nat, NEW h, Typed(h, Session), NEW s, NEW ttl \in Nat
  PROVE  Typed(Expire(h, s, ttl), Session) /\ DOMAIN Expire(h, s, ttl) = DOMAIN h
<1>1. \A x \in DOMAIN h : [h[x] EXCEPT !.exp = now + ttl] \in Session
  BY DEF Typed, Session
<1> QED BY <1>1 DEF Typed, Expire

LEMMA TypeOKIsTyped ==
  TypeOK <=> /\ now \in Nat
             /\ Typed(queue, Nat)
             /\ Typed(hash, Session)
             /\ Typed(seen, Nat)
             /\ Typed(admitted, Nat)
             /\ bucket \in Bucket \cup {NoBucket}
             /\ killswitch \in BOOLEAN
BY DEF TypeOK, Typed

LEMMA TypeOKNextIsTyped ==
  TypeOK' <=> /\ now' \in Nat
              /\ Typed(queue', Nat)
              /\ Typed(hash', Session)
              /\ Typed(seen', Nat)
              /\ Typed(admitted', Nat)
              /\ bucket' \in Bucket \cup {NoBucket}
              /\ killswitch' \in BOOLEAN
BY DEF TypeOK, Typed

----------------------------------------------------------------------------
(* Type correctness.  The one action it is hard for is AdmitFront: the     *)
(* tokens written back are natural because the batch fits.                 *)

LEMMA EmptyTyped ==
  ASSUME NEW T
  PROVE  Typed(Empty, T) /\ DOMAIN Empty = {}
BY DEF Typed, Empty

LEMMA TypeOKInit == Init => TypeOK
<1> SUFFICES ASSUME Init PROVE TypeOK
  OBVIOUS
<1>1. Typed(queue, Nat) /\ Typed(hash, Session) /\ Typed(seen, Nat) /\ Typed(admitted, Nat)
  <2>1. queue = Empty /\ hash = Empty /\ seen = Empty /\ admitted = Empty
    BY DEF Init
  <2>2. Typed(Empty, Nat) /\ Typed(Empty, Session)
    BY EmptyTyped
  <2> QED BY <2>1, <2>2
<1>2. now \in Nat /\ bucket \in Bucket \cup {NoBucket} /\ killswitch \in BOOLEAN
  BY DEF Init
<1> QED BY <1>1, <1>2, TypeOKIsTyped

\* The score a session joins with may be of any age.
LEMMA JoinLineTyped ==
  ASSUME TypeOK, NEW c \in Clients, NEW s \in Sids, NEW score \in Nat, NEW t \in Sampled,
         JoinLine(c, s, score, t)
  PROVE  TypeOK'
<1>0. /\ now \in Nat
      /\ Typed(queue, Nat) /\ Typed(hash, Session)
      /\ Typed(seen, Nat) /\ Typed(admitted, Nat)
      /\ bucket \in Bucket \cup {NoBucket} /\ killswitch \in BOOLEAN
  BY TypeOKIsTyped
<1>1. Typed(queue', Nat)
  BY <1>0, PutTyped DEF JoinLine, Joined
<1>2. Typed(seen', Nat)
  BY <1>0, PutTyped, ReadingsArePast DEF JoinLine
<1>3. [owner |-> c, state |-> "queued", exp |-> now + QueuedTtl] \in Session
  BY <1>0, ClockAssumption DEF Session, States
<1>4. Typed(hash', Session)
  BY <1>0, <1>3, PutTyped DEF JoinLine
<1> QED BY <1>0, <1>1, <1>2, <1>4, TypeOKNextIsTyped DEF JoinLine

LEMMA TypeOKStep == TypeOK /\ [Next]_vars => TypeOK'
<1> SUFFICES ASSUME TypeOK, [Next]_vars PROVE TypeOK'
  OBVIOUS
<1> USE TypeOKNextIsTyped
<1>0. /\ now \in Nat
      /\ Typed(queue, Nat) /\ Typed(hash, Session)
      /\ Typed(seen, Nat) /\ Typed(admitted, Nat)
      /\ bucket \in Bucket \cup {NoBucket} /\ killswitch \in BOOLEAN
  BY TypeOKIsTyped
<1>1. ASSUME NEW c \in Clients, NEW s \in Sids, NEW t \in Sampled, KeepPlace(c, s, t)
      PROVE  TypeOK'
  <2>1. Typed(seen', Nat)
    BY <1>0, <1>1, PutTyped, ReadingsArePast DEF KeepPlace, Touched
  <2>2. Typed(hash', Session)
    BY <1>0, <1>1, ExpireTyped, ClockAssumption DEF KeepPlace, Touched
  <2> QED BY <1>0, <1>1, <2>1, <2>2 DEF KeepPlace, Touched
<1>2. ASSUME NEW c \in Clients, NEW s \in Sids, NEW score \in Sampled, NEW t \in Sampled,
             JoinLine(c, s, score, t)
      PROVE  TypeOK'
  BY <1>0, <1>2, ReadingsArePast, JoinLineTyped
<1>3. ASSUME NEW s \in Sids, NEW t \in Sampled, Position(s, t)
      PROVE  TypeOK'
  <2>1. Typed(seen', Nat)
    BY <1>0, <1>3, PutTyped, ReadingsArePast DEF Position, Touched
  <2>2. Typed(hash', Session)
    BY <1>0, <1>3, ExpireTyped, ClockAssumption DEF Position, Touched
  <2> QED BY <1>0, <1>3, <2>1, <2>2 DEF Position, Touched
<1>4. ASSUME NEW s \in Sids, NEW t \in Sampled, Hold(s, t)
      PROVE  TypeOK'
  <2>1. t + AdmittedTtl \in Nat /\ {s} \cap DOMAIN admitted \in SUBSET Sids
    BY <1>0, ReadingsArePast, ClockAssumption
  <2>2. Typed(admitted', Nat)
    BY <1>0, <1>4, <2>1, PutTyped DEF Hold, Extended
  <2>3. Typed(hash', Session)
    BY <1>0, <1>4, ExpireTyped, ClockAssumption DEF Hold, Extended
  <2> QED BY <1>0, <1>4, <2>2, <2>3 DEF Hold, Extended
<1>5. ASSUME NEW t \in Sampled
      PROVE  Typed(HeldAfter(t), Nat) /\ Typed(HashAfter(t), Session)
  BY <1>0, DropTyped, SetStateTyped DEF HeldAfter, HashAfter, States
<1>6. ASSUME NEW t \in Sampled, AdmitNobody(t)
      PROVE  TypeOK'
  BY <1>0, <1>5, <1>6 DEF AdmitNobody
<1>7. ASSUME NEW maxN \in Nat, NEW t \in Sampled, AdmitFront(maxN, t)
      PROVE  TypeOK'
  <2> DEFINE popped == Front(maxN, t)
             live == popped \cap DOMAIN hash
  <2>1. live \in SUBSET Sids /\ live \in SUBSET Front(maxN, t)
    BY <1>0 DEF Typed
  <2>2. t + Grace \in Nat
    BY <1>0, ReadingsArePast, ClockAssumption
  <2>3. /\ queue' = Drop(queue, popped) /\ seen' = Drop(seen, popped)
        /\ hash' = SetState(HashAfter(t), live, "admitted")
        /\ admitted' = Put(HeldAfter(t), live, t + Grace)
        /\ bucket' = Spent(Cardinality(live), t)
        /\ UNCHANGED <<now, killswitch>>
    BY <1>7 DEF AdmitFront
  <2> HIDE DEF popped, live
  <2>4. Typed(queue', Nat) /\ Typed(seen', Nat)
    BY <1>0, <2>3, DropTyped
  <2>5. Typed(hash', Session)
    BY <1>5, <2>3, SetStateTyped DEF States
  <2>6. Typed(admitted', Nat)
    BY <1>5, <2>1, <2>2, <2>3, PutTyped
  <2>7. bucket' \in Bucket \cup {NoBucket}
    BY <2>1, <2>3, SpentIsBucket
  <2> QED BY <1>0, <2>3, <2>4, <2>5, <2>6, <2>7
<1>8. ASSUME NEW s \in Sids, Release(s)
      PROVE  TypeOK'
  BY <1>0, <1>8, DropTyped, SetStateTyped DEF Release, States
<1>9. ASSUME NEW s \in Sids, Remove(s)
      PROVE  TypeOK'
  BY <1>0, <1>9, DropTyped DEF Remove
<1>10. ASSUME NEW c \in Sampled, NEW t \in Sampled, Reclaim(c, t)
       PROVE  TypeOK'
  <2>1. Typed(queue', Nat) /\ Typed(seen', Nat) /\ Typed(admitted', Nat)
    BY <1>0, <1>10, DropTyped DEF Reclaim
  <2>2. Typed(hash', Session)
    BY <1>0, <1>10, DropTyped, SetStateTyped DEF Reclaim, States
  <2> QED BY <1>0, <1>10, <2>1, <2>2 DEF Reclaim
<1>11. ASSUME NEW engaged \in BOOLEAN, SetKillSwitch(engaged)
       PROVE  TypeOK'
  BY <1>0, <1>11 DEF SetKillSwitch
<1>12. ASSUME Tick
       PROVE  TypeOK'
  <2>1. now' \in Nat
    BY <1>0, <1>12 DEF Tick
  <2>2. Typed(hash', Session)
    BY <1>0, <1>12, DropTyped DEF Tick
  <2>3. bucket' \in Bucket \cup {NoBucket}
    BY <1>0, <1>12 DEF Tick
  <2>4. UNCHANGED <<queue, seen, admitted, killswitch>>
    BY <1>12 DEF Tick
  <2> QED BY <1>0, <2>1, <2>2, <2>3, <2>4
<1>13. CASE UNCHANGED vars
  BY <1>0, <1>13 DEF vars
<1> HIDE TypeOKNextIsTyped
<1> QED BY <1>1, <1>2, <1>3, <1>4, <1>6, <1>7, <1>8, <1>9, <1>10, <1>11, <1>12, <1>13,
           LimitAssumption
        DEF Next, Enqueue, AdmitBatch

\* TypeOK is an invariant; with it, no admission tick writes back a bucket in
\* debt, whatever the clock its caller read (admit_batch.lua 58-101).
THEOREM TypeCorrect == Spec => []TypeOK
<1> QED BY TypeOKInit, TypeOKStep, PTL DEF Spec

----------------------------------------------------------------------------
(* Capacity: a batch fits in the slots that are free once the lapsed ones  *)
(* are gone, and no other action adds a slot.                              *)

LEMMA CapacityStep ==
  ASSUME TypeOK, CapacityRespected, [Next]_vars
  PROVE  CapacityRespected'
<1> USE DEF CapacityRespected
<1>1. SUFFICES ASSUME Capacity > 0 PROVE Cardinality(DOMAIN admitted') <= Capacity
  OBVIOUS
<1>2. Capacity \in Nat /\ Cardinality(DOMAIN admitted) <= Capacity
  BY <1>1, LimitAssumption
<1>3. ASSUME DOMAIN admitted' \subseteq DOMAIN admitted
      PROVE  Cardinality(DOMAIN admitted') <= Capacity
  <2>1. IsFiniteSet(DOMAIN admitted) /\ Cardinality(DOMAIN admitted) \in Nat
    BY HeldIsFewer
  <2>2. /\ IsFiniteSet(DOMAIN admitted')
        /\ Cardinality(DOMAIN admitted') <= Cardinality(DOMAIN admitted)
    BY <1>3, <2>1, FS_Subset
  <2> QED BY <1>2, <2>1, <2>2, FS_CardinalityType
<1>4. ASSUME NEW maxN \in Nat, NEW t \in Sampled, AdmitFront(maxN, t)
      PROVE  Cardinality(DOMAIN admitted') <= Capacity
  <2> DEFINE live == Front(maxN, t) \cap DOMAIN hash
             held == DOMAIN HeldAfter(t)
  <2>1. DOMAIN admitted' = held \cup live
    BY <1>4 DEF AdmitFront, Put
  <2>2. live \in SUBSET Front(maxN, t)
    OBVIOUS
  <2> HIDE DEF live
  <2>3. /\ IsFiniteSet(live) /\ Cardinality(live) \in Nat
        /\ live # {} => Fits(Cardinality(live), maxN, t)
    BY <2>2, BatchFits
  <2>4. IsFiniteSet(held) /\ Cardinality(held) \in Nat /\ Cardinality(held) <= Capacity
    BY <1>2, HeldIsFewer
  <2>5. CASE live = {}
    BY <2>1, <2>4, <2>5
  <2>6. CASE live # {}
    <3>1. Cardinality(live) <= Capacity - Cardinality(held)
      BY <1>1, <2>3, <2>6 DEF Fits
    <3>2. /\ Cardinality(held \cup live)
               = Cardinality(held) + Cardinality(live) - Cardinality(held \cap live)
          /\ Cardinality(held \cap live) \in Nat
      BY <2>3, <2>4, FS_Union, FS_Intersection, FS_CardinalityType
    <3> HIDE DEF held
    <3> QED BY <1>2, <2>1, <2>3, <2>4, <3>1, <3>2
  <2> QED BY <2>5, <2>6
<1>5. ASSUME NEW s \in Sids, NEW t \in Sampled, Hold(s, t)
      PROVE  DOMAIN admitted' \subseteq DOMAIN admitted
  BY <1>5 DEF Hold, Extended, Put
<1>6. ASSUME NEW t \in Sampled, AdmitNobody(t)
      PROVE  DOMAIN admitted' \subseteq DOMAIN admitted
  BY <1>6, HeldIsFewer DEF AdmitNobody
<1>7. ASSUME NEW s \in Sids, Release(s)
      PROVE  DOMAIN admitted' \subseteq DOMAIN admitted
  BY <1>7 DEF Release, Drop, Restrict
<1>8. ASSUME NEW c \in Sampled, NEW t \in Sampled, Reclaim(c, t)
      PROVE  DOMAIN admitted' \subseteq DOMAIN admitted
  BY <1>8 DEF Reclaim, Drop, Restrict
<1>9. ASSUME \/ \E c \in Clients, s \in Sids : Enqueue(c, s)
             \/ \E s \in Sids, t \in Sampled : Position(s, t)
             \/ \E s \in Sids : Remove(s)
             \/ \E engaged \in BOOLEAN : SetKillSwitch(engaged)
             \/ Tick
             \/ UNCHANGED vars
      PROVE  admitted' = admitted
  BY <1>9 DEF Enqueue, KeepPlace, JoinLine, Position, Remove, SetKillSwitch, Tick, vars
<1> QED BY <1>3, <1>4, <1>5, <1>6, <1>7, <1>8, <1>9, LimitAssumption DEF Next, AdmitBatch

\* No more sessions hold a slot than the room has, for every capacity, however
\* many callers tick and however old their clocks (admit_batch.lua 29-56).
THEOREM CapacityHolds == Spec => []CapacityRespected
<1>1. Init => CapacityRespected
  BY EmptyTyped, FS_EmptySet, LimitAssumption DEF Init, CapacityRespected
<1>2. TypeOK /\ CapacityRespected /\ [Next]_vars => CapacityRespected'
  BY CapacityStep
<1> QED BY <1>1, <1>2, TypeCorrect, PTL DEF Spec

----------------------------------------------------------------------------
(* The zsets `queue` and `seen` have the same members.                     *)

LEMMA LineIsTrackedStep ==
  ASSUME LineIsTracked, [Next]_vars
  PROVE  LineIsTracked'
<1> USE DEF LineIsTracked
<1>1. ASSUME NEW c \in Clients, NEW s \in Sids, Enqueue(c, s)
      PROVE  LineIsTracked'
  <2>1. ASSUME NEW t \in Sampled, KeepPlace(c, s, t) PROVE LineIsTracked'
    BY <2>1 DEF KeepPlace, Touched, Put
  <2>2. ASSUME NEW score \in Sampled, NEW t \in Sampled, JoinLine(c, s, score, t)
        PROVE  LineIsTracked'
    BY <2>2 DEF JoinLine, Joined, Put
  <2> QED BY <1>1, <2>1, <2>2 DEF Enqueue
<1>2. ASSUME NEW s \in Sids, NEW t \in Sampled, Position(s, t) PROVE LineIsTracked'
  BY <1>2 DEF Position, Touched, Put
<1>3. ASSUME NEW maxN \in 1..MaxBatch, NEW t \in Sampled, AdmitFront(maxN, t)
      PROVE  LineIsTracked'
  BY <1>3 DEF AdmitFront, Drop, Restrict
<1>4. ASSUME NEW s \in Sids, Remove(s) PROVE LineIsTracked'
  BY <1>4 DEF Remove, Drop, Restrict
<1>5. ASSUME NEW c \in Sampled, NEW t \in Sampled, Reclaim(c, t) PROVE LineIsTracked'
  BY <1>5 DEF Reclaim, Drop, Restrict
<1>6. ASSUME \/ \E s \in Sids, t \in Sampled : Hold(s, t)
             \/ \E t \in Sampled : AdmitNobody(t)
             \/ \E s \in Sids : Release(s)
             \/ \E engaged \in BOOLEAN : SetKillSwitch(engaged)
             \/ Tick
             \/ UNCHANGED vars
      PROVE  UNCHANGED <<queue, seen>>
  BY <1>6 DEF Hold, Extended, AdmitNobody, Release, SetKillSwitch, Tick, vars
<1> QED BY <1>1, <1>2, <1>3, <1>4, <1>5, <1>6 DEF Next, AdmitBatch

\* Every waiting session is watched for idleness, and nobody else is.
THEOREM LineTracked == Spec => []LineIsTracked
<1>1. Init => LineIsTracked
  BY DEF Init, LineIsTracked
<1> QED BY <1>1, LineIsTrackedStep, PTL DEF Spec

----------------------------------------------------------------------------
(* What try_admit reads is true.  The state "admitted" is written only by  *)
(* AdmitFront, together with the slot; every action that frees a slot      *)
(* rewrites or deletes the state, and a session that holds a slot and has  *)
(* metadata cannot join the line.                                          *)

LEMMA TicketableStep ==
  ASSUME TypeOK, TicketableHoldsSlot, [Next]_vars
  PROVE  TicketableHoldsSlot'
<1> DEFINE Ticketable == {s \in DOMAIN hash : hash[s].state = "admitted"}
           TicketableNext == {s \in DOMAIN hash' : hash'[s].state = "admitted"}
<1>1. SUFFICES TicketableNext \subseteq DOMAIN admitted' \ DOMAIN queue'
  BY DEF TicketableHoldsSlot
<1>2. Ticketable \subseteq DOMAIN admitted \ DOMAIN queue
  BY DEF TicketableHoldsSlot
<1>3. hash \in [DOMAIN hash -> Session]
  BY DEF TypeOK
<1>4. ASSUME NEW S, NEW ttl
      PROVE  \A s \in DOMAIN hash : Expire(hash, S, ttl)[s].state = hash[s].state
  BY <1>3 DEF Expire, Session
<1>5. ASSUME NEW h, NEW S, NEW st, h \in [DOMAIN h -> Session], NEW s \in DOMAIN h
      PROVE  SetState(h, S, st)[s].state = IF s \in S THEN st ELSE h[s].state
  BY <1>5 DEF SetState, Session
<1>6. ASSUME NEW c \in Clients, NEW s \in Sids, NEW t \in Sampled, KeepPlace(c, s, t)
      PROVE  TicketableNext \subseteq DOMAIN admitted' \ DOMAIN queue'
  <2>1. DOMAIN hash' = DOMAIN hash
    BY <1>6 DEF KeepPlace, Touched, Expire
  <2> QED BY <1>2, <1>4, <1>6, <2>1 DEF KeepPlace, Touched
<1>7. ASSUME NEW c \in Clients, NEW s \in Sids, NEW score \in Sampled, NEW t \in Sampled,
             JoinLine(c, s, score, t)
      PROVE  TicketableNext \subseteq DOMAIN admitted' \ DOMAIN queue'
  <2>1. TicketableNext \subseteq Ticketable \ {s}
    BY <1>7 DEF JoinLine, Joined, Put
  <2>2. DOMAIN queue' \subseteq DOMAIN queue \cup {s} /\ admitted' = admitted
    BY <1>7 DEF JoinLine, Joined, Put
  <2> QED BY <1>2, <2>1, <2>2
<1>8. ASSUME NEW s \in Sids, NEW t \in Sampled, Position(s, t) \/ Hold(s, t)
      PROVE  TicketableNext \subseteq DOMAIN admitted' \ DOMAIN queue'
  <2>1. DOMAIN hash' = DOMAIN hash /\ queue' = queue
    BY <1>8 DEF Position, Touched, Hold, Extended, Expire
  <2>2. TicketableNext \subseteq Ticketable
    BY <1>4, <1>8, <2>1 DEF Position, Touched, Hold, Extended
  <2>3. DOMAIN admitted' = DOMAIN admitted
    BY <1>8 DEF Position, Touched, Hold, Extended, Put
  <2> QED BY <1>2, <2>1, <2>2, <2>3
<1>9. ASSUME NEW t
      PROVE  /\ DOMAIN HashAfter(t) = DOMAIN hash
             /\ HashAfter(t) \in [DOMAIN hash -> Session]
             /\ \A s \in DOMAIN hash : HashAfter(t)[s].state = "admitted" =>
                  s \in DOMAIN HeldAfter(t) \ DOMAIN queue
  <2>1. DOMAIN HashAfter(t) = DOMAIN hash
    BY DEF HashAfter, SetState
  <2>2. HashAfter(t) \in [DOMAIN hash -> Session]
    BY <1>3, SetStateTyped DEF HashAfter, States, Typed, TypeOK
  <2>3. ASSUME NEW s \in DOMAIN hash, HashAfter(t)[s].state = "admitted"
        PROVE  s \in DOMAIN HeldAfter(t) \ DOMAIN queue
    <3>1. s \notin UpTo(admitted, t) /\ hash[s].state = "admitted"
      BY <1>3, <1>5, <2>3 DEF HashAfter
    <3> QED BY <1>2, <3>1 DEF HeldAfter, Drop, Restrict
  <2> QED BY <2>1, <2>2, <2>3
<1>10. ASSUME NEW t \in Sampled, AdmitNobody(t)
       PROVE  TicketableNext \subseteq DOMAIN admitted' \ DOMAIN queue'
  BY <1>9, <1>10 DEF AdmitNobody
<1>11. ASSUME NEW maxN \in Nat, NEW t \in Sampled, AdmitFront(maxN, t)
       PROVE  TicketableNext \subseteq DOMAIN admitted' \ DOMAIN queue'
  <2> DEFINE popped == Front(maxN, t)
             live == popped \cap DOMAIN hash
  <2>1. /\ queue' = Drop(queue, popped)
        /\ hash' = SetState(HashAfter(t), live, "admitted")
        /\ admitted' = Put(HeldAfter(t), live, t + Grace)
    BY <1>11 DEF AdmitFront
  <2> HIDE DEF popped
  <2>2. DOMAIN hash' = DOMAIN hash
    BY <1>9, <2>1 DEF SetState
  <2>3. ASSUME NEW s \in TicketableNext
        PROVE  s \in DOMAIN admitted' \ DOMAIN queue'
    <3>1. DOMAIN queue' = DOMAIN queue \ popped
      BY <2>1 DEF Drop, Restrict
    <3>2. DOMAIN admitted' = DOMAIN HeldAfter(t) \cup live
      BY <2>1 DEF Put
    <3>3. CASE s \in live
      BY <3>1, <3>2, <3>3
    <3>4. CASE s \notin live
      <4>1. HashAfter(t)[s].state = "admitted"
        BY <1>5, <1>9, <2>1, <2>2, <2>3, <3>4
      <4> QED BY <1>9, <2>2, <2>3, <3>1, <3>2, <4>1
    <3> QED BY <3>3, <3>4
  <2> QED BY <2>3
<1>12. ASSUME NEW s \in Sids, Release(s)
       PROVE  TicketableNext \subseteq DOMAIN admitted' \ DOMAIN queue'
  <2>1. DOMAIN hash' = DOMAIN hash /\ queue' = queue /\ DOMAIN admitted' = DOMAIN admitted \ {s}
    BY <1>12 DEF Release, SetState, Drop, Restrict
  <2>2. TicketableNext \subseteq Ticketable \ {s}
    BY <1>3, <1>5, <1>12, <2>1 DEF Release
  <2> QED BY <1>2, <2>1, <2>2
<1>13. ASSUME NEW s \in Sids, Remove(s)
       PROVE  TicketableNext \subseteq DOMAIN admitted' \ DOMAIN queue'
  BY <1>2, <1>13 DEF Remove, Drop, Restrict
<1>14. ASSUME NEW c \in Sampled, NEW t \in Sampled, Reclaim(c, t)
       PROVE  TicketableNext \subseteq DOMAIN admitted' \ DOMAIN queue'
  <2> DEFINE idle == IdleSince(c)
             lapsed == UpTo(admitted, t)
             kept == Drop(hash, idle)
  <2>1. /\ queue' = Drop(queue, idle)
        /\ hash' = SetState(kept, lapsed, "expired")
        /\ admitted' = Drop(admitted, lapsed)
    BY <1>14 DEF Reclaim
  <2> HIDE DEF idle, lapsed
  <2>2. /\ DOMAIN kept \subseteq DOMAIN hash
        /\ kept \in [DOMAIN kept -> Session]
        /\ \A s \in DOMAIN kept : kept[s] = hash[s]
    BY <1>3 DEF Drop, Restrict
  <2> HIDE DEF kept
  <2>3. DOMAIN hash' = DOMAIN kept
    BY <2>1 DEF SetState
  <2>4. TicketableNext \subseteq Ticketable \ lapsed
    BY <1>5, <2>1, <2>2, <2>3
  <2>5. DOMAIN queue' \subseteq DOMAIN queue /\ DOMAIN admitted' = DOMAIN admitted \ lapsed
    BY <2>1 DEF Drop, Restrict
  <2> QED BY <1>2, <2>4, <2>5
<1>15. ASSUME NEW engaged \in BOOLEAN, SetKillSwitch(engaged)
       PROVE  TicketableNext \subseteq DOMAIN admitted' \ DOMAIN queue'
  BY <1>2, <1>15 DEF SetKillSwitch
<1>16. CASE Tick
  BY <1>2, <1>16 DEF Tick, Drop, Restrict
<1>17. CASE UNCHANGED vars
  BY <1>2, <1>17 DEF vars
<1> HIDE DEF TicketableNext
<1> QED BY <1>6, <1>7, <1>8, <1>10, <1>11, <1>12, <1>13, <1>14, <1>15, <1>16, <1>17,
           LimitAssumption
        DEF Next, Enqueue, AdmitBatch

\* Whoever is offered a ticket holds a slot and has left the line, whatever
\* lapses, releases, reclaims and returns came before (engine.py 293-309 mints
\* on the strength of the hash alone).
THEOREM TicketablesHoldSlots == Spec => []TicketableHoldsSlot
<1>1. Init => TicketableHoldsSlot
  BY EmptyTyped DEF Init, TicketableHoldsSlot
<1>2. TypeOK /\ TicketableHoldsSlot /\ [Next]_vars => TicketableHoldsSlot'
  BY TicketableStep
<1> QED BY <1>1, <1>2, TypeCorrect, PTL DEF Spec

============================================================================
