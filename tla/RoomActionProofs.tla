-------------------------- MODULE RoomActionProofs --------------------------
(***************************************************************************)
(* What a step of RoomStore may never do, for every instance: the action   *)
(* properties the runs check, and what becomes of a session's metadata.    *)
(***************************************************************************)
EXTENDS RoomStoreProofs

\* Sessions leave the line by a batch, by abandoning it or by being idle.
LEMMA LeavesLine ==
  ASSUME TypeOK, [Next]_vars, NEW s \in DOMAIN queue \ DOMAIN queue'
  PROVE  \/ \E maxN \in Nat, t \in Sampled : AdmitFront(maxN, t) /\ s \in Front(maxN, t)
         \/ Remove(s)
         \/ \E c, t \in Sampled : Reclaim(c, t) /\ s \in IdleSince(c)
<1>1. ASSUME NEW maxN \in Nat, NEW t \in Sampled, AdmitFront(maxN, t)
      PROVE  s \in Front(maxN, t)
  BY <1>1 DEF AdmitFront, Drop, Restrict
<1>2. ASSUME NEW x \in Sids, Remove(x)
      PROVE  Remove(s)
  BY <1>2 DEF Remove, Drop, Restrict
<1>3. ASSUME NEW c \in Sampled, NEW t \in Sampled, Reclaim(c, t)
      PROVE  s \in IdleSince(c)
  BY <1>3 DEF Reclaim, Drop, Restrict
<1>4. ASSUME NEW c \in Clients, NEW x \in Sids, Enqueue(c, x)
      PROVE  FALSE
  BY <1>4 DEF Enqueue, KeepPlace, JoinLine, Joined, Put
<1>5. ASSUME \/ \E x \in Sids, t \in Sampled : Position(x, t) \/ Hold(x, t)
             \/ \E t \in Sampled : AdmitNobody(t)
             \/ \E x \in Sids : Release(x)
             \/ \E engaged \in BOOLEAN : SetKillSwitch(engaged)
             \/ Tick
             \/ UNCHANGED vars
      PROVE  FALSE
  BY <1>5 DEF Position, Hold, AdmitNobody, Release, SetKillSwitch, Tick, vars
<1> QED BY <1>1, <1>2, <1>3, <1>4, <1>5, LimitAssumption DEF Next, AdmitBatch

\* Of those who leave, a batch admits the ones whose metadata is there.
LEMMA WhoIsAdmitted ==
  ASSUME TypeOK, [Next]_vars
  PROVE  /\ \A s \in JustAdmitted :
              \E maxN \in Nat, t \in Sampled : AdmitFront(maxN, t) /\ s \in Front(maxN, t)
         /\ \A maxN \in Nat, t \in Sampled :
              AdmitFront(maxN, t) => Front(maxN, t) \cap DOMAIN hash \subseteq JustAdmitted
<1>1. ASSUME NEW s \in JustAdmitted
      PROVE  \E maxN \in Nat, t \in Sampled : AdmitFront(maxN, t) /\ s \in Front(maxN, t)
  <2>1. s \in DOMAIN queue \ DOMAIN queue' /\ s \in DOMAIN hash'
    BY DEF JustAdmitted
  <2>2. ~Remove(s)
    BY <2>1 DEF Remove, Drop, Restrict
  <2>3. ASSUME NEW c \in Sampled, NEW t \in Sampled, Reclaim(c, t)
        PROVE  s \notin IdleSince(c)
    BY <2>1, <2>3 DEF Reclaim, SetState, Drop, Restrict
  <2> QED BY <2>1, <2>2, <2>3, LeavesLine
<1>2. ASSUME NEW maxN \in Nat, NEW t \in Sampled, AdmitFront(maxN, t),
             NEW s \in Front(maxN, t) \cap DOMAIN hash
      PROVE  s \in JustAdmitted
  <2>1. s \in DOMAIN queue \ DOMAIN queue'
    BY <1>2 DEF AdmitFront, Drop, Restrict, Front
  <2>2. DOMAIN HashAfter(t) = DOMAIN hash /\ Typed(HashAfter(t), Session)
    BY SetStateTyped, TypeOKIsTyped DEF HashAfter, States
  <2>3. hash' = SetState(HashAfter(t), Front(maxN, t) \cap DOMAIN hash, "admitted")
    BY <1>2 DEF AdmitFront
  <2>4. s \in DOMAIN hash' /\ hash'[s].state = "admitted"
    BY <2>2, <2>3 DEF SetState, Typed, Session
  <2> QED BY <2>1, <2>4 DEF JustAdmitted
<1> QED BY <1>1, <1>2

----------------------------------------------------------------------------

LEMMA FifoStep ==
  ASSUME TypeOK, [Next]_vars, NEW s \in JustAdmitted, NEW r \in DOMAIN queue'
  PROVE  ~Before(queue, r, s)
<1> SUFFICES ASSUME Before(queue, r, s) PROVE FALSE
  OBVIOUS
<1>1. PICK maxN \in Nat, t \in Sampled : AdmitFront(maxN, t) /\ s \in Front(maxN, t)
  BY WhoIsAdmitted
<1>2. r \in DOMAIN queue \ Front(maxN, t)
  BY <1>1 DEF AdmitFront, Drop, Restrict
<1>3. SortedSet(queue) /\ s \in DOMAIN queue /\ Fits(ZRank(queue, s) + 1, maxN, t)
  BY <1>1 DEF TypeOK, SortedSet, Front
<1>4. /\ ZRank(queue, r) \in Nat /\ ZRank(queue, s) \in Nat
      /\ ZRank(queue, r) < ZRank(queue, s)
  BY <1>2, <1>3, RankIsNatural, RankFollowsOrder
<1>5. Fits(ZRank(queue, r) + 1, maxN, t)
  BY <1>3, <1>4, FitsDownwards
<1> QED BY <1>2, <1>5 DEF Front

\* First come, first served, for every batch size and every interleaving: the
\* batch is closed under "was ahead" (admit_batch.lua 75-96).
THEOREM FifoServed == Spec => FifoAdmission
<1>1. TypeOK /\ [Next]_vars => \A s \in JustAdmitted, r \in DOMAIN queue' : ~Before(queue, r, s)
  BY FifoStep
<1> QED BY <1>1, TypeCorrect, PTL DEF Spec, FifoAdmission

\* A waiter whose metadata is there and who polled within the TTL leaves the line
\* only by being admitted or by abandoning it.
THEOREM LiveWaitersKeepTheirPlace == Spec => LiveWaiterKeepsPlace
<1> DEFINE Kept == \A s \in (DOMAIN queue \cap DOMAIN hash) \ DOMAIN queue' :
                     seen[s] > now - QueuedTtl => s \in JustAdmitted \/ Remove(s)
<1>1. TypeOK /\ [Next]_vars => Kept
  <2> SUFFICES ASSUME TypeOK, [Next]_vars,
                      NEW s \in (DOMAIN queue \cap DOMAIN hash) \ DOMAIN queue',
                      seen[s] > now - QueuedTtl
               PROVE  s \in JustAdmitted \/ Remove(s)
    OBVIOUS
  <2>1. ASSUME NEW c \in Sampled, NEW t \in Sampled, s \in IdleSince(c)
        PROVE  FALSE
    <3>1. c \in Nat /\ c <= now
      BY ReadingsArePast DEF TypeOK
    <3>2. seen[s] \in Nat /\ seen[s] <= c - QueuedTtl
      BY <2>1 DEF IdleSince, UpTo, TypeOK
    <3> QED BY <3>1, <3>2, ClockAssumption DEF TypeOK
  <2> QED BY <2>1, LeavesLine, WhoIsAdmitted
<1> QED BY <1>1, TypeCorrect, PTL DEF Spec, LiveWaiterKeepsPlace

\* A place in line is never moved.
THEOREM PlacesAreStable == Spec => PlaceIsStable
<1> DEFINE Stable == \A s \in DOMAIN queue \cap DOMAIN queue' : queue'[s] = queue[s]
<1>1. TypeOK /\ [Next]_vars => Stable
  <2> SUFFICES ASSUME TypeOK, [Next]_vars PROVE Stable
    OBVIOUS
  <2>1. ASSUME NEW c \in Clients, NEW s \in Sids, Enqueue(c, s) PROVE Stable
    BY <2>1 DEF Enqueue, KeepPlace, JoinLine, Joined, Put
  <2>2. ASSUME NEW maxN, NEW t, AdmitFront(maxN, t) PROVE Stable
    BY <2>2 DEF AdmitFront, Drop, Restrict
  <2>3. ASSUME NEW s, Remove(s) PROVE Stable
    BY <2>3 DEF Remove, Drop, Restrict
  <2>4. ASSUME NEW c, NEW t, Reclaim(c, t) PROVE Stable
    BY <2>4 DEF Reclaim, Drop, Restrict
  <2>5. ASSUME \/ \E s \in Sids, t \in Sampled : Position(s, t) \/ Hold(s, t)
               \/ \E t \in Sampled : AdmitNobody(t)
               \/ \E s \in Sids : Release(s)
               \/ \E engaged \in BOOLEAN : SetKillSwitch(engaged)
               \/ Tick
               \/ UNCHANGED vars
        PROVE  queue' = queue
    BY <2>5 DEF Position, Hold, AdmitNobody, Release, SetKillSwitch, Tick, vars
  <2> QED BY <2>1, <2>2, <2>3, <2>4, <2>5 DEF Next, AdmitBatch
<1> QED BY <1>1, TypeCorrect, PTL DEF Spec, PlaceIsStable

\* A slot is given up only at its deadline or by release, whichever caller's
\* clock decides, because no caller's clock is ahead of the server's.
THEOREM SlotsAreKept == Spec => SlotKeptToDeadline
<1> DEFINE Kept == \A s \in DOMAIN admitted \ DOMAIN admitted' :
                     admitted[s] <= now \/ Release(s)
<1>1. TypeOK /\ [Next]_vars => Kept
  <2> SUFFICES ASSUME TypeOK, [Next]_vars, NEW s \in DOMAIN admitted \ DOMAIN admitted'
               PROVE  admitted[s] <= now \/ Release(s)
    OBVIOUS
  <2>1. ASSUME NEW t \in Sampled, s \in UpTo(admitted, t)
        PROVE  admitted[s] <= now
    <3>1. t \in Nat /\ t <= now /\ now \in Nat
      BY ReadingsArePast DEF TypeOK
    <3>2. admitted[s] \in Nat /\ admitted[s] <= t
      BY <2>1 DEF UpTo, TypeOK
    <3> QED BY <3>1, <3>2
  <2>2. ASSUME NEW maxN, NEW t \in Sampled, AdmitFront(maxN, t) \/ AdmitNobody(t)
        PROVE  s \in UpTo(admitted, t)
    BY <2>2 DEF AdmitFront, AdmitNobody, HeldAfter, Put, Drop, Restrict
  <2>3. ASSUME NEW c, NEW t \in Sampled, Reclaim(c, t)
        PROVE  s \in UpTo(admitted, t)
    BY <2>3 DEF Reclaim, Drop, Restrict
  <2>4. ASSUME NEW x, Release(x)
        PROVE  Release(s)
    BY <2>4 DEF Release, Drop, Restrict
  <2>5. ASSUME \/ \E c \in Clients, x \in Sids : Enqueue(c, x)
               \/ \E x \in Sids, t \in Sampled : Position(x, t) \/ Hold(x, t)
               \/ \E x \in Sids : Remove(x)
               \/ \E engaged \in BOOLEAN : SetKillSwitch(engaged)
               \/ Tick
               \/ UNCHANGED vars
        PROVE  FALSE
    BY <2>5 DEF Enqueue, KeepPlace, JoinLine, Position, Hold, Extended, Put, Remove,
                SetKillSwitch, Tick, vars
  <2> QED BY <2>1, <2>2, <2>3, <2>4, <2>5 DEF Next, AdmitBatch
<1> QED BY <1>1, TypeCorrect, PTL DEF Spec, SlotKeptToDeadline

LEMMA ClosedRoomStep ==
  ASSUME TypeOK, [Next]_vars, killswitch
  PROVE  JustAdmitted = {} /\ DOMAIN queue' \subseteq DOMAIN queue
<1>1. JustAdmitted = {}
  BY WhoIsAdmitted DEF AdmitFront
<1>2. ASSUME NEW c \in Clients, NEW s \in Sids, Enqueue(c, s) PROVE FALSE
  BY <1>2 DEF Enqueue, KeepPlace, JoinLine, Refused
<1>3. ASSUME NEW maxN, NEW t, AdmitFront(maxN, t) PROVE FALSE
  BY <1>3 DEF AdmitFront
<1>4. ASSUME \/ \E s \in Sids : Remove(s)
             \/ \E c, t \in Sampled : Reclaim(c, t)
      PROVE  DOMAIN queue' \subseteq DOMAIN queue
  BY <1>4 DEF Remove, Reclaim, Drop, Restrict
<1>5. ASSUME \/ \E s \in Sids, t \in Sampled : Position(s, t) \/ Hold(s, t)
             \/ \E t \in Sampled : AdmitNobody(t)
             \/ \E s \in Sids : Release(s)
             \/ \E engaged \in BOOLEAN : SetKillSwitch(engaged)
             \/ Tick
             \/ UNCHANGED vars
      PROVE  queue' = queue
  BY <1>5 DEF Position, Hold, AdmitNobody, Release, SetKillSwitch, Tick, vars
<1> QED BY <1>1, <1>2, <1>3, <1>4, <1>5 DEF Next, AdmitBatch

\* A closed room admits nobody and lets nobody into the line.
THEOREM ClosedRoomsStayClosed == Spec => KillSwitchHolds
<1>1. TypeOK /\ [Next]_vars =>
        (killswitch => JustAdmitted = {} /\ DOMAIN queue' \subseteq DOMAIN queue)
  BY ClosedRoomStep
<1> QED BY <1>1, TypeCorrect, PTL DEF Spec, KillSwitchHolds

----------------------------------------------------------------------------
(* The metadata of a session: who owns it, how long it lives, and that it  *)
(* lets a holder come back.                                                *)

LEMMA SetStateFields ==
  ASSUME NEW h, Typed(h, Session), NEW S, NEW st \in States, NEW s \in DOMAIN h
  PROVE  /\ SetState(h, S, st)[s].owner = h[s].owner
         /\ SetState(h, S, st)[s].exp = h[s].exp
         /\ SetState(h, S, st)[s].state = IF s \in S THEN st ELSE h[s].state
BY DEF Typed, Session, SetState

LEMMA ExpireFields ==
  ASSUME NEW x, NEW ttl, Typed(hash, Session), NEW s \in DOMAIN hash
  PROVE  /\ Expire(hash, x, ttl)[s].owner = hash[s].owner
         /\ Expire(hash, x, ttl)[s].exp = IF s = x THEN now + ttl ELSE hash[s].exp
         /\ Expire(hash, x, ttl)[s].state = hash[s].state
BY DEF Typed, Session, Expire

\* What a step leaves of the metadata of s, unless s joins the line in it.
Rewritten(s) ==
  /\ s \in DOMAIN hash
  /\ hash'[s].owner = hash[s].owner
  /\ hash'[s].exp \in {hash[s].exp, now + QueuedTtl, now + AdmittedTtl}
  /\ \/ hash'[s].state = hash[s].state
     \/ hash'[s].state = "admitted"
     \/ s \notin DOMAIN admitted'

\* Every step of the store that puts no session into the line.
StoreMove ==
  \/ \E c \in Clients, x \in Sids, t \in Sampled : KeepPlace(c, x, t)
  \/ \E x \in Sids, t \in Sampled : Position(x, t) \/ Hold(x, t)
  \/ \E maxN \in 1..MaxBatch, t \in Sampled : AdmitBatch(maxN, t)
  \/ \E x \in Sids : Release(x) \/ Remove(x)
  \/ \E c, t \in Sampled : c <= t /\ Reclaim(c, t)
  \/ \E engaged \in BOOLEAN : SetKillSwitch(engaged)
  \/ Tick
  \/ UNCHANGED vars

LEMMA MoveOrJoin ==
  ASSUME [Next]_vars
  PROVE  \/ StoreMove
         \/ \E c \in Clients, x \in Sids, score, t \in Sampled : JoinLine(c, x, score, t)
BY DEF Next, Enqueue, StoreMove

LEMMA MoveIsStep ==
  ASSUME StoreMove
  PROVE  [Next]_vars
BY DEF Next, Enqueue, StoreMove

LEMMA MetadataKept ==
  ASSUME Typed(hash, Session), StoreMove, NEW s \in DOMAIN hash'
  PROVE  Rewritten(s)
<1>0. Typed(hash, Session)
  OBVIOUS
<1>1. ASSUME NEW c \in Clients, NEW x \in Sids, NEW t \in Sampled, KeepPlace(c, x, t)
      PROVE  Rewritten(s)
  <2>1. hash' = Expire(hash, x, QueuedTtl)
    BY <1>1 DEF KeepPlace, Touched
  <2>2. s \in DOMAIN hash
    BY <2>1 DEF Expire
  <2> QED BY <1>0, <2>1, <2>2, ExpireFields DEF Rewritten
<1>2. ASSUME NEW x \in Sids, NEW t \in Sampled, Position(x, t) \/ Hold(x, t)
      PROVE  Rewritten(s)
  <2>1. PICK ttl \in {QueuedTtl, AdmittedTtl} : hash' = Expire(hash, x, ttl)
    BY <1>2 DEF Position, Hold, Touched
  <2>2. s \in DOMAIN hash
    BY <2>1 DEF Expire
  <2> QED BY <1>0, <2>1, <2>2, ExpireFields DEF Rewritten
<1>3. ASSUME NEW t
      PROVE  /\ Typed(HashAfter(t), Session) /\ DOMAIN HashAfter(t) = DOMAIN hash
             /\ \A x \in DOMAIN hash :
                  /\ HashAfter(t)[x].owner = hash[x].owner
                  /\ HashAfter(t)[x].exp = hash[x].exp
                  /\ HashAfter(t)[x].state = hash[x].state \/ x \notin DOMAIN HeldAfter(t)
  <2>1. Typed(HashAfter(t), Session) /\ DOMAIN HashAfter(t) = DOMAIN hash
    BY <1>0, SetStateTyped DEF HashAfter, States
  <2>2. \A x \in DOMAIN hash :
          /\ HashAfter(t)[x].owner = hash[x].owner
          /\ HashAfter(t)[x].exp = hash[x].exp
          /\ HashAfter(t)[x].state = hash[x].state \/ x \in UpTo(admitted, t)
    BY <1>0, SetStateFields DEF HashAfter, States
  <2> QED BY <2>1, <2>2 DEF HeldAfter, Drop, Restrict
<1>4. ASSUME NEW t \in Sampled, AdmitNobody(t)
      PROVE  Rewritten(s)
  BY <1>3, <1>4 DEF AdmitNobody, Rewritten
<1>5. ASSUME NEW maxN \in Nat, NEW t \in Sampled, AdmitFront(maxN, t)
      PROVE  Rewritten(s)
  <2> DEFINE live == Front(maxN, t) \cap DOMAIN hash
  <2>1. hash' = SetState(HashAfter(t), live, "admitted") /\ admitted' = Put(HeldAfter(t), live, t + Grace)
    BY <1>5 DEF AdmitFront
  <2> HIDE DEF live
  <2>2. s \in DOMAIN HashAfter(t)
    BY <2>1 DEF SetState
  <2>3. /\ hash'[s].owner = HashAfter(t)[s].owner
        /\ hash'[s].exp = HashAfter(t)[s].exp
        /\ hash'[s].state = IF s \in live THEN "admitted" ELSE HashAfter(t)[s].state
    BY <1>3, <2>1, <2>2, SetStateFields DEF States
  <2>4. s \notin live => (s \in DOMAIN admitted' <=> s \in DOMAIN HeldAfter(t))
    BY <2>1 DEF Put
  <2> QED BY <1>3, <2>2, <2>3, <2>4 DEF Rewritten
<1>6. ASSUME NEW x \in Sids, Release(x)
      PROVE  Rewritten(s)
  <2>1. s \in DOMAIN hash /\ hash' = SetState(hash, {x}, "released") /\ x \notin DOMAIN admitted'
    BY <1>6 DEF Release, SetState, Drop, Restrict
  <2> QED BY <1>0, <2>1, SetStateFields DEF Rewritten, States
<1>7. ASSUME NEW c \in Sampled, NEW t \in Sampled, Reclaim(c, t)
      PROVE  Rewritten(s)
  <2> DEFINE kept == Drop(hash, IdleSince(c))
             lapsed == UpTo(admitted, t)
  <2>1. hash' = SetState(kept, lapsed, "expired") /\ admitted' = Drop(admitted, lapsed)
    BY <1>7 DEF Reclaim
  <2>2. Typed(kept, Session)
    BY <1>0, DropTyped
  <2>3. \A x \in DOMAIN kept : x \in DOMAIN hash /\ kept[x] = hash[x]
    BY DEF Drop, Restrict
  <2> HIDE DEF kept, lapsed
  <2>4. s \in DOMAIN kept
    BY <2>1 DEF SetState
  <2>5. s \notin DOMAIN admitted' \/ s \notin lapsed
    BY <2>1 DEF Drop, Restrict
  <2> QED BY <2>1, <2>2, <2>3, <2>4, <2>5, SetStateFields DEF Rewritten, States
<1>8. ASSUME \/ \E x \in Sids : Remove(x)
             \/ Tick
      PROVE  Rewritten(s)
  BY <1>8 DEF Remove, Tick, Drop, Restrict, Rewritten
<1>9. ASSUME \/ \E engaged \in BOOLEAN : SetKillSwitch(engaged)
             \/ UNCHANGED vars
      PROVE  Rewritten(s)
  BY <1>9 DEF SetKillSwitch, vars, Rewritten
<1> QED BY <1>1, <1>2, <1>4, <1>5, <1>6, <1>7, <1>8, <1>9, LimitAssumption DEF StoreMove, AdmitBatch

LEMMA MetadataStep ==
  ASSUME Typed(hash, Session), [Next]_vars, NEW s \in DOMAIN hash'
  PROVE  \/ Rewritten(s)
         \/ \E c \in Clients, score, t \in Sampled : JoinLine(c, s, score, t)
<1>1. ASSUME NEW c \in Clients, NEW x \in Sids, NEW score \in Sampled, NEW t \in Sampled,
             JoinLine(c, x, score, t), s # x
      PROVE  Rewritten(s)
  BY <1>1 DEF JoinLine, Put, Rewritten
<1> QED BY <1>1, MoveOrJoin, MetadataKept

\* Where metadata goes: its TTL runs out, or its session leaves the line with it.
LEMMA MetadataLost ==
  ASSUME StoreMove, NEW s \in DOMAIN hash \ DOMAIN hash'
  PROVE  (Tick /\ hash[s].exp < now') \/ s \notin DOMAIN queue'
<1>1. ASSUME NEW x, NEW t, Position(x, t) \/ Hold(x, t) \/ \E c : KeepPlace(c, x, t) PROVE FALSE
  BY <1>1 DEF Position, Hold, KeepPlace, Touched, Expire
<1>2. ASSUME NEW maxN, NEW t, AdmitBatch(maxN, t) PROVE FALSE
  BY <1>2 DEF AdmitBatch, AdmitNobody, AdmitFront, HashAfter, SetState
<1>3. ASSUME NEW x, Release(x) PROVE FALSE
  BY <1>3 DEF Release, SetState
<1>4. ASSUME NEW x, Remove(x) PROVE s \notin DOMAIN queue'
  BY <1>4 DEF Remove, Drop, Restrict
<1>5. ASSUME NEW c, NEW t, Reclaim(c, t) PROVE s \notin DOMAIN queue'
  BY <1>5 DEF Reclaim, SetState, Drop, Restrict
<1>6. ASSUME Tick PROVE hash[s].exp < now'
  BY <1>6 DEF Tick, Drop, Restrict
<1>7. ASSUME (\E engaged : SetKillSwitch(engaged)) \/ UNCHANGED vars PROVE FALSE
  BY <1>7 DEF SetKillSwitch, vars
<1> QED BY <1>1, <1>2, <1>3, <1>4, <1>5, <1>6, <1>7 DEF StoreMove

\* Only joining gives a place, and only the clock's own step moves it.
LEMMA PlacesKept ==
  ASSUME StoreMove
  PROVE  /\ \A s \in DOMAIN queue' : s \in DOMAIN queue /\ queue'[s] = queue[s]
         /\ now' = now \/ Tick
<1>1. ASSUME \/ \E maxN, t : AdmitFront(maxN, t)
             \/ \E x : Remove(x)
             \/ \E c, t : Reclaim(c, t)
      PROVE  now' = now /\ \A s \in DOMAIN queue' : s \in DOMAIN queue /\ queue'[s] = queue[s]
  BY <1>1 DEF AdmitFront, Remove, Reclaim, Drop, Restrict
<1>2. ASSUME \/ \E x, t : Position(x, t) \/ Hold(x, t) \/ \E c : KeepPlace(c, x, t)
             \/ \E t : AdmitNobody(t)
             \/ \E x : Release(x)
             \/ \E engaged : SetKillSwitch(engaged)
             \/ UNCHANGED vars
      PROVE  now' = now /\ queue' = queue
  BY <1>2 DEF Position, Hold, KeepPlace, AdmitNobody, Release, SetKillSwitch, vars
<1>3. Tick => queue' = queue
  BY DEF Tick
<1> QED BY <1>1, <1>2, <1>3 DEF StoreMove, AdmitBatch

LEMMA NowIsReading == now \in Nat => now \in Sampled
BY MaxOfTwo, ClockAssumption DEF Sampled

----------------------------------------------------------------------------

\* As long as the metadata is there, the session stays its owner's.
THEOREM OwnersAreFixed == Spec => OwnerIsFixed
<1> DEFINE Fixed == BindFingerprint =>
                      \A s \in DOMAIN hash \cap DOMAIN hash' : hash'[s].owner = hash[s].owner
<1>1. TypeOK /\ [Next]_vars => Fixed
  <2> SUFFICES ASSUME TypeOK, [Next]_vars, BindFingerprint,
                      NEW s \in DOMAIN hash \cap DOMAIN hash'
               PROVE  hash'[s].owner = hash[s].owner
    OBVIOUS
  <2>1. ASSUME NEW c \in Clients, NEW score, NEW t, JoinLine(c, s, score, t)
        PROVE  hash'[s].owner = hash[s].owner
    BY <2>1 DEF JoinLine, MayUse, Put
  <2> QED BY <2>1, TypeOKIsTyped, MetadataStep DEF Rewritten
<1> QED BY <1>1, TypeCorrect, PTL DEF Spec, OwnerIsFixed

\* A holder who lost an answer can ask again.
THEOREM HoldersCanComeBack == Spec => []HolderCanComeBack
<1>1. Init => HolderCanComeBack
  BY EmptyTyped DEF Init, HolderCanComeBack
<1>2. TypeOK /\ HolderCanComeBack /\ [Next]_vars => HolderCanComeBack'
  <2> SUFFICES ASSUME TypeOK, HolderCanComeBack, [Next]_vars,
                      NEW s \in (DOMAIN admitted' \cap DOMAIN hash') \ DOMAIN queue'
               PROVE  hash'[s].state = "admitted"
    BY DEF HolderCanComeBack
  <2>1. Rewritten(s)
    <3>1. ASSUME NEW c, NEW score, NEW t, JoinLine(c, s, score, t) PROVE s \in DOMAIN queue'
      BY <3>1 DEF JoinLine, Joined, Put
    <3> QED BY <3>1, TypeOKIsTyped, MetadataStep
  <2>2. CASE s \in DOMAIN queue
    <3>1. ~Remove(s)
      BY DEF Remove, Drop, Restrict
    <3>2. \A c, t \in Sampled : Reclaim(c, t) => s \notin IdleSince(c)
      BY DEF Reclaim, SetState, Drop, Restrict
    <3>3. s \in JustAdmitted
      BY <2>1, <2>2, <3>1, <3>2, LeavesLine, WhoIsAdmitted DEF Rewritten
    <3> QED BY <3>3 DEF JustAdmitted
  <2>3. CASE s \notin DOMAIN queue
    <3>1. ASSUME s \notin DOMAIN admitted PROVE FALSE
      <4>1. ASSUME NEW maxN, NEW t, AdmitFront(maxN, t) PROVE FALSE
        BY <2>3, <3>1, <4>1 DEF AdmitFront, Front, HeldAfter, Put, Drop, Restrict
      <4>2. ASSUME NEW x, NEW t, Hold(x, t) PROVE FALSE
        BY <3>1, <4>2 DEF Hold, Extended, Put
      <4>3. ASSUME \/ \E t : AdmitNobody(t)
                   \/ \E x : Release(x)
                   \/ \E c, t : Reclaim(c, t)
            PROVE  FALSE
        BY <3>1, <4>3 DEF AdmitNobody, HeldAfter, Release, Reclaim, Drop, Restrict
      <4>4. ASSUME \/ \E c, x : Enqueue(c, x)
                   \/ \E x, t : Position(x, t)
                   \/ \E x : Remove(x)
                   \/ \E engaged : SetKillSwitch(engaged)
                   \/ Tick
                   \/ UNCHANGED vars
            PROVE  FALSE
        BY <3>1, <4>4 DEF Enqueue, KeepPlace, JoinLine, Position, Remove, SetKillSwitch, Tick, vars
      <4> QED BY <4>1, <4>2, <4>3, <4>4 DEF Next, AdmitBatch
    <3>2. hash[s].state = "admitted"
      BY <2>1, <2>3, <3>1 DEF HolderCanComeBack, Rewritten
    <3> QED BY <2>1, <3>2 DEF Rewritten
  <2> QED BY <2>2, <2>3
<1> QED BY <1>1, <1>2, TypeCorrect, PTL DEF Spec

\* What is recorded of a poll lies in the past, and a poll renews the metadata.
SeenIsPast == \A s \in DOMAIN seen : seen[s] <= now

LEMMA SeenStep ==
  ASSUME TypeOK, [Next]_vars, NEW s \in DOMAIN seen'
  PROVE  \/ /\ \E t \in Sampled : seen'[s] = Sec(t)
            /\ s \in DOMAIN hash' => hash'[s].exp = now + QueuedTtl
            /\ now' = now
         \/ s \in DOMAIN seen /\ seen'[s] = seen[s] /\ now' \in {now, now + 1}
<1>0. Typed(hash, Session)
  BY TypeOKIsTyped
<1> DEFINE Kept == s \in DOMAIN seen /\ seen'[s] = seen[s] /\ now' \in {now, now + 1}
           Polled == /\ \E t \in Sampled : seen'[s] = Sec(t)
                     /\ s \in DOMAIN hash' => hash'[s].exp = now + QueuedTtl
                     /\ now' = now
<1>1. ASSUME NEW x \in Sids, NEW t \in Sampled, seen' = Put(seen, {x}, Sec(t)), now' = now,
             s = x /\ s \in DOMAIN hash' => hash'[s].exp = now + QueuedTtl
      PROVE  Kept \/ Polled
  BY <1>1 DEF Put
<1>2. ASSUME NEW x \in Sids, NEW t \in Sampled,
             Position(x, t) \/ \E c \in Clients : KeepPlace(c, x, t)
      PROVE  Kept \/ Polled
  <2>1. seen' = Put(seen, {x}, Sec(t)) /\ now' = now /\ hash' = Expire(hash, x, QueuedTtl)
    BY <1>2 DEF Position, KeepPlace, Touched
  <2>2. s \in DOMAIN hash' => s \in DOMAIN hash
    BY <2>1 DEF Expire
  <2>3. s = x /\ s \in DOMAIN hash' => hash'[s].exp = now + QueuedTtl
    BY <1>0, <2>1, <2>2, ExpireFields
  <2> QED BY <1>1, <2>1, <2>3
<1>3. ASSUME NEW c \in Clients, NEW x \in Sids, NEW score \in Sampled, NEW t \in Sampled,
             JoinLine(c, x, score, t)
      PROVE  Kept \/ Polled
  <2>1. seen' = Put(seen, {x}, Sec(t)) /\ now' = now
    BY <1>3 DEF JoinLine
  <2>2. s = x /\ s \in DOMAIN hash' => hash'[s].exp = now + QueuedTtl
    BY <1>3 DEF JoinLine, Put
  <2> QED BY <1>1, <2>1, <2>2
<1>4. ASSUME \/ \E maxN, t : AdmitFront(maxN, t)
             \/ \E x : Remove(x)
             \/ \E c, t : Reclaim(c, t)
      PROVE  Kept
  BY <1>4 DEF AdmitFront, Remove, Reclaim, Drop, Restrict
<1>5. ASSUME \/ \E x, t : Hold(x, t)
             \/ \E t : AdmitNobody(t)
             \/ \E x : Release(x)
             \/ \E engaged : SetKillSwitch(engaged)
             \/ Tick
             \/ UNCHANGED vars
      PROVE  Kept
  BY <1>5 DEF Hold, AdmitNobody, Release, SetKillSwitch, Tick, vars
<1> QED BY <1>2, <1>3, <1>4, <1>5 DEF Next, Enqueue, AdmitBatch

\* A waiter's metadata outlives its silence.
THEOREM MetadataOutlives == Spec => []MetadataOutlivesSilence
<1> DEFINE ttl == Min({QueuedTtl, AdmittedTtl})
<1>0. ttl \in Nat /\ ttl <= QueuedTtl /\ ttl <= AdmittedTtl
  BY MinOfTwo, ClockAssumption
<1>1. Init => SeenIsPast /\ MetadataOutlivesSilence /\ LineIsTracked
  BY EmptyTyped DEF Init, SeenIsPast, MetadataOutlivesSilence, LineIsTracked
<1>2. TypeOK /\ SeenIsPast /\ [Next]_vars => SeenIsPast'
  <2> SUFFICES ASSUME TypeOK, SeenIsPast, [Next]_vars, NEW s \in DOMAIN seen'
               PROVE  seen'[s] <= now'
    BY DEF SeenIsPast
  <2>1. ASSUME NEW t \in Sampled PROVE Sec(t) <= now /\ Sec(t) \in Nat
    BY ReadingsArePast DEF TypeOK
  <2> QED BY <2>1, SeenStep DEF SeenIsPast, TypeOK
<1>3. TypeOK /\ SeenIsPast /\ LineIsTracked /\ MetadataOutlivesSilence /\ [Next]_vars
      => MetadataOutlivesSilence'
  <2> SUFFICES ASSUME TypeOK, SeenIsPast, LineIsTracked, MetadataOutlivesSilence, [Next]_vars,
                      NEW s \in DOMAIN queue' \cap DOMAIN hash'
               PROVE  hash'[s].exp >= seen'[s] + ttl
    BY DEF MetadataOutlivesSilence
  <2> HIDE DEF ttl
  <2>1. s \in DOMAIN seen' /\ now \in Nat
    BY LineIsTrackedStep DEF LineIsTracked, TypeOK
  <2>2. CASE /\ \E t \in Sampled : seen'[s] = Sec(t)
             /\ hash'[s].exp = now + QueuedTtl
    <3>1. seen'[s] \in Nat /\ seen'[s] <= now
      BY <2>1, <2>2, ReadingsArePast
    <3> QED BY <1>0, <2>1, <2>2, <3>1, ClockAssumption
  <2>3. CASE s \in DOMAIN seen /\ seen'[s] = seen[s]
    <3>1. seen[s] \in Nat /\ seen[s] <= now /\ s \in DOMAIN queue
      BY <2>3 DEF SeenIsPast, LineIsTracked, TypeOK
    <3>2. CASE Rewritten(s)
      <4>1. hash[s].exp >= seen[s] + ttl
        BY <3>1, <3>2 DEF Rewritten, MetadataOutlivesSilence, ttl
      <4> QED BY <1>0, <2>1, <2>3, <3>1, <3>2, <4>1, ClockAssumption DEF Rewritten
    <3>3. ASSUME NEW c, NEW score, NEW t \in Sampled, JoinLine(c, s, score, t)
          PROVE  hash'[s].exp = now + QueuedTtl
      BY <3>3 DEF JoinLine, Put
    <3>4. CASE hash'[s].exp = now + QueuedTtl
      BY <1>0, <2>1, <2>3, <3>1, <3>4, ClockAssumption
    <3> QED BY <3>2, <3>3, <3>4, TypeOKIsTyped, MetadataStep
  <2> QED BY <2>1, <2>2, <2>3, SeenStep
<1>4. LineIsTracked /\ [Next]_vars => LineIsTracked'
  BY LineIsTrackedStep
<1> QED BY <1>1, <1>2, <1>3, <1>4, TypeCorrect, PTL DEF Spec

============================================================================
