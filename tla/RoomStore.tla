----------------------------- MODULE RoomStore -----------------------------
(***************************************************************************)
(* The storage backend of one room: every operation of                     *)
(* RedisStorageBackend that changes state, with the Lua script or the      *)
(* MULTI pipeline it runs.  Redis runs each of them atomically, so each is *)
(* one action; the processes that call them are not modelled, any of them  *)
(* may call any operation at any time.                                     *)
(*                                                                         *)
(* A definition marked "wrong:" stands for no code.  It is what a slip in   *)
(* the definition below it would do, and the property named with it fails   *)
(* when it takes that definition's place.                                   *)
(***************************************************************************)
EXTENDS RoomState

Init ==
  /\ now = 0
  /\ queue = Empty
  /\ hash = Empty
  /\ seen = Empty
  /\ admitted = Empty
  /\ bucket = NoBucket
  /\ killswitch = FALSE

----------------------------------------------------------------------------
(* enqueue.lua: a refusal (closed room, another client's session) and the  *)
(* answer "already admitted" change nothing.                               *)

\* wrong: the address alone is compared, and the clients share it (OwnerIsFixed)
MayUseAny(c, s) == TRUE

MayUse(c, s) == s \in DOMAIN hash /\ BindFingerprint => hash[s].owner = c

\* wrong: the kill switch is not read (KillSwitchHolds)
NeverRefused == FALSE

Refused == killswitch

\* wrong: the metadata's TTL is not refreshed (MetadataOutlivesSilence)
TouchedNot(s) == hash

\* A waiter who shows up keeps the metadata for another TTL.
Touched(s) == Expire(hash, s, QueuedTtl)

\* wrong: ZADD without NX (PlaceIsStable)
JoinedAgain(s, score) == Put(queue, {s}, score)

\* ZADD NX: a session still in line whose metadata expired keeps its score.
Joined(s, score) == IF s \in DOMAIN queue THEN queue ELSE Put(queue, {s}, score)

\* A returning waiter is marked alive and keeps place and metadata.
KeepPlace(c, s, t) ==
  /\ ~Refused
  /\ s \in DOMAIN hash
  /\ MayUse(c, s)
  /\ s \in DOMAIN queue \ DOMAIN admitted
  /\ seen' = Put(seen, {s}, Sec(t))
  /\ hash' = Touched(s)
  /\ UNCHANGED <<now, queue, admitted, bucket, killswitch>>

\* A new session, or one that neither waits nor holds a slot, joins the line.
JoinLine(c, s, score, t) ==
  /\ ~Refused
  /\ MayUse(c, s)
  /\ s \in DOMAIN hash => s \notin DOMAIN admitted \cup DOMAIN queue
  /\ queue' = Joined(s, score)
  /\ seen' = Put(seen, {s}, Sec(t))
  /\ hash' = Put(hash, {s}, [owner |-> c, state |-> "queued", exp |-> now + QueuedTtl])
  /\ UNCHANGED <<now, admitted, bucket, killswitch>>

\* position.lua with a TTL; for a session that is not in line it only reads.
Position(s, t) ==
  /\ s \in DOMAIN queue
  /\ seen' = Put(seen, {s}, Sec(t))
  /\ hash' = Touched(s)
  /\ UNCHANGED <<now, queue, admitted, bucket, killswitch>>

----------------------------------------------------------------------------
(* admit_batch.lua                                                         *)

\* Slots whose deadline has passed at t are freed first, in every case.
\* wrong: the clock rounded up to a whole second (SlotKeptToDeadline)
HeldAfterRounded(t) == Drop(admitted, UpTo(admitted, Sec(t) + Second))

HeldAfter(t) == Drop(admitted, UpTo(admitted, t))

\* wrong: HSET 'expired' forgotten (TicketableHoldsSlot)
HashAfterUnmarked(t) == hash

HashAfter(t) == SetState(hash, UpTo(admitted, t), "expired")

\* wrong: elapsed time rounded up to a whole tick (RateNeverOvershot)
RefilledRoundedUp(t) ==
  IF bucket = NoBucket
  THEN BucketSize
  ELSE Min({BucketSize, bucket.tokens + Rate * Max({1, t - bucket.ts})})

Refilled(t) ==
  IF bucket = NoBucket
  THEN BucketSize
  ELSE Min({BucketSize, bucket.tokens + Rate * Max({0, t - bucket.ts})})

\* wrong: the slots that are held are not counted (CapacityRespected)
FitsWholeCapacity(n, maxN, t) == n <= maxN /\ (Capacity > 0 => n <= Capacity)

\* wrong: the tokens are not looked at (TypeOK)
FitsIgnoringRate(n, maxN, t) ==
  /\ n <= maxN
  /\ Capacity > 0 => n <= Capacity - Cardinality(DOMAIN HeldAfter(t))

\* The n-th in line fits in this batch.
Fits(n, maxN, t) ==
  /\ n <= maxN
  /\ Capacity > 0 => n <= Capacity - Cardinality(DOMAIN HeldAfter(t))
  /\ Rate > 0 => n * TokenUnit <= Refilled(t)

\* wrong: ZREVRANGE, the batch is taken from the back (FifoAdmission)
Back(maxN, t) ==
  {s \in DOMAIN queue : Fits(Cardinality(DOMAIN queue) - ZRank(queue, s), maxN, t)}

Front(maxN, t) == {s \in DOMAIN queue : Fits(ZRank(queue, s) + 1, maxN, t)}

\* The bucket after n admissions; its key expires once it would be full again.
Spent(n, t) ==
  IF Rate = 0
  THEN bucket
  ELSE [tokens |-> Refilled(t) - n * TokenUnit,
        ts     |-> t,
        exp    |-> now + (BucketSize + Rate - 1) \div Rate + BucketLinger]

\* A closed room, or an empty line: only the lapsed slots are freed.
AdmitNobody(t) ==
  /\ killswitch \/ DOMAIN queue = {}
  /\ admitted' = HeldAfter(t)
  /\ hash' = HashAfter(t)
  /\ UNCHANGED <<now, queue, seen, bucket, killswitch>>

\* The front of the line is popped; those whose metadata expired are dropped,
\* the others hold a slot until t + Grace.
AdmitFront(maxN, t) ==
  /\ ~killswitch
  /\ DOMAIN queue # {}
  /\ LET popped == Front(maxN, t)
         live == popped \cap DOMAIN hash
     IN /\ queue' = Drop(queue, popped)
        /\ seen' = Drop(seen, popped)
        /\ hash' = SetState(HashAfter(t), live, "admitted")
        /\ admitted' = Put(HeldAfter(t), live, t + Grace)
        /\ bucket' = Spent(Cardinality(live), t)
  /\ UNCHANGED <<now, killswitch>>

----------------------------------------------------------------------------
(* The other operations on an admission, and housekeeping.                 *)

\* wrong: ZADD without XX, a slot that is gone is taken again (KeepsContract,
\* HolderCanComeBack)
ExtendedAnyway(s, t) == Put(admitted, {s}, t + AdmittedTtl)

Extended(s, t) == Put(admitted, {s} \cap DOMAIN admitted, t + AdmittedTtl)

\* hold_admission: ZADD XX moves the deadline of a slot that is still held,
\* EXPIRE sets the TTL of the hash whether or not it is.  s may be any session:
\* its ticket may be of an earlier admission, or one minted while Redis was down.
Hold(s, t) ==
  /\ admitted' = Extended(s, t)
  /\ hash' = Expire(hash, s, AdmittedTtl)
  /\ UNCHANGED <<now, queue, seen, bucket, killswitch>>

\* release.lua
Release(s) ==
  /\ s \in DOMAIN admitted
  /\ admitted' = Drop(admitted, {s})
  /\ hash' = SetState(hash, {s}, "released")
  /\ UNCHANGED <<now, queue, seen, bucket, killswitch>>

\* wrong: the pipeline leaves the session in `seen` (LineIsTracked)
RemoveStillSeen(s) ==
  /\ queue' = Drop(queue, {s})
  /\ hash' = Drop(hash, {s})
  /\ UNCHANGED <<now, seen, admitted, bucket, killswitch>>

\* remove: what abandon() runs.
Remove(s) ==
  /\ queue' = Drop(queue, {s})
  /\ seen' = Drop(seen, {s})
  /\ hash' = Drop(hash, {s})
  /\ UNCHANGED <<now, admitted, bucket, killswitch>>

\* wrong: idleness counted from the time of joining (LiveWaiterKeepsPlace)
IdleSinceJoining(c) == UpTo(queue, c - QueuedTtl)

IdleSince(c) == UpTo(seen, c - QueuedTtl)

\* reclaim.lua; the engine reads its clock at c for the idle cutoff, the
\* backend reads it again at t for the slots.
Reclaim(c, t) ==
  /\ LET idle == IdleSince(c)
         lapsed == UpTo(admitted, t)
     IN /\ queue' = Drop(queue, idle)
        /\ seen' = Drop(seen, idle)
        /\ hash' = SetState(Drop(hash, idle), lapsed, "expired")
        /\ admitted' = Drop(admitted, lapsed)
  /\ UNCHANGED <<now, bucket, killswitch>>

SetKillSwitch(engaged) ==
  /\ killswitch' = engaged
  /\ UNCHANGED <<now, queue, hash, seen, admitted, bucket>>

\* A tick of the server's clock; keys whose TTL has run out disappear.
Tick ==
  /\ now < MaxTime
  /\ now' = now + 1
  /\ hash' = Drop(hash, {s \in DOMAIN hash : hash[s].exp < now'})
  /\ bucket' = IF bucket # NoBucket /\ bucket.exp < now' THEN NoBucket ELSE bucket
  /\ UNCHANGED <<queue, seen, admitted, killswitch>>

----------------------------------------------------------------------------
\* enqueue: the session is created, and scored, before the backend reads the clock.
Enqueue(c, s) ==
  \E t \in Sampled :
    \/ KeepPlace(c, s, t)
    \/ \E score \in Sampled : score <= t /\ JoinLine(c, s, score, t)

AdmitBatch(maxN, t) == AdmitNobody(t) \/ AdmitFront(maxN, t)

Next ==
  \/ \E c \in Clients, s \in Sids : Enqueue(c, s)
  \/ \E s \in Sids, t \in Sampled : Position(s, t) \/ Hold(s, t)
  \/ \E maxN \in 1..MaxBatch, t \in Sampled : AdmitBatch(maxN, t)
  \/ \E s \in Sids : Release(s) \/ Remove(s)
  \/ \E c, t \in Sampled : c <= t /\ Reclaim(c, t)
  \/ \E engaged \in BOOLEAN : SetKillSwitch(engaged)
  \/ Tick

Spec == Init /\ [][Next]_vars

----------------------------------------------------------------------------
(* Properties                                                              *)

\* Type invariant: scores, deadlines and clock readings are never negative,
\* and a bucket in debt is never written back (admit_batch.lua 101).
TypeOK ==
  /\ now \in Nat
  /\ DOMAIN queue \subseteq Sids /\ queue \in [DOMAIN queue -> Nat]
  /\ DOMAIN hash \subseteq Sids /\ hash \in [DOMAIN hash -> Session]
  /\ DOMAIN seen \subseteq Sids /\ seen \in [DOMAIN seen -> Nat]
  /\ DOMAIN admitted \subseteq Sids /\ admitted \in [DOMAIN admitted -> Nat]
  /\ bucket \in Bucket \cup {NoBucket}
  /\ killswitch \in BOOLEAN

\* However many processes tick, and however old their clocks, no more sessions
\* hold a slot than the room has (admit_batch.lua 53-56).
CapacityRespected == Capacity > 0 => Cardinality(DOMAIN admitted) <= Capacity

\* Exactly the sessions in line are watched for idleness: nobody waits without
\* ever being reclaimed, and no poll revives someone who left (the zsets
\* `queue` and `seen` are kept by four scripts and a pipeline).
LineIsTracked == DOMAIN seen = DOMAIN queue

\* What try_admit reads before it mints a ticket (hash state "admitted") is
\* true: the session holds a slot and no longer waits in line.
TicketableHoldsSlot ==
  \A s \in DOMAIN hash :
    hash[s].state = "admitted" => s \in DOMAIN admitted /\ s \notin DOMAIN queue

\* A holder whose ticket or pass was lost on the way can ask again: unless it
\* waits in line once more, its metadata, if there, says admitted, which is what
\* try_admit mints the next ticket on (admit_batch.lua 80-96, enqueue.lua 33-35).
HolderCanComeBack ==
  \A s \in (DOMAIN admitted \cap DOMAIN hash) \ DOMAIN queue : hash[s].state = "admitted"

\* A waiter's metadata outlives its silence: it is there for as long after the
\* last poll as the shorter of the two TTLs, even when an old ticket is redeemed
\* for a session that waits again (hold_admission's EXPIRE, line 271).
MetadataOutlivesSilence ==
  \A s \in DOMAIN queue \cap DOMAIN hash :
    hash[s].exp >= seen[s] + Min({QueuedTtl, AdmittedTtl})

\* The sessions this step takes from the line into a slot.
JustAdmitted ==
  {s \in DOMAIN queue \ DOMAIN queue' :
     s \in DOMAIN hash' /\ hash'[s].state = "admitted"}

\* First come, first served: nobody who waits on was ahead of one just admitted.
FifoAdmission ==
  [][\A s \in JustAdmitted, r \in DOMAIN queue' : ~Before(queue, r, s)]_vars

\* A place in line is never moved: neither a return, a poll nor a ticket of an
\* earlier admission changes the score of a session that waits, not even a
\* return after its metadata expired (enqueue.lua 36-46).
PlaceIsStable ==
  [][\A s \in DOMAIN queue \cap DOMAIN queue' : queue'[s] = queue[s]]_vars

\* As long as a session's metadata is there its owner stays the client it was
\* made for, in line or not (enqueue.lua 26-32).
OwnerIsFixed ==
  [][BindFingerprint =>
       \A s \in DOMAIN hash \cap DOMAIN hash' : hash'[s].owner = hash[s].owner]_vars

\* A waiter whose metadata is there and who polled within the TTL leaves the
\* line only by being admitted or by abandoning it.
LiveWaiterKeepsPlace ==
  [][\A s \in (DOMAIN queue \cap DOMAIN hash) \ DOMAIN queue' :
       seen[s] > now - QueuedTtl => s \in JustAdmitted \/ Remove(s)]_vars

\* However the kill switch is raced by joins and ticks, once it is in Redis no
\* script admits anyone and none lets a session into the line
\* (enqueue.lua 19, admit_batch.lua 41).
KillSwitchHolds ==
  [][killswitch => JustAdmitted = {} /\ DOMAIN queue' \subseteq DOMAIN queue]_vars

\* A slot that is held is given up only at its deadline or by release: a session
\* that waits again, polls, is reclaimed from the line or abandons it frees no
\* slot early (the clock that decides may not run ahead of the server's).
SlotKeptToDeadline ==
  [][\A s \in DOMAIN admitted \ DOMAIN admitted' :
       admitted[s] <= now \/ Release(s)]_vars

----------------------------------------------------------------------------
(* What the code's documentation says and the code does not do.            *)

\* StorageBackend.position, interfaces.py 55-56: a poll marks a queued session as
\* seen and refreshes its metadata TTL, "so active waiters are never reclaimed".
ActiveWaiterKept ==
  [][\A s \in DOMAIN queue \ DOMAIN queue' :
       seen[s] > now - QueuedTtl => s \in JustAdmitted \/ Remove(s)]_vars

============================================================================
