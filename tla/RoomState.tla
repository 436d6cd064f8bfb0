----------------------------- MODULE RoomState -----------------------------
(***************************************************************************)
(* What one waiting room keeps in Redis (core/storage/redis_backend.py),   *)
(* and the Redis commands the room's Lua scripts are written with.         *)
(*                                                                         *)
(* A sorted set is a function from its members to their scores; a hash     *)
(* with a TTL is a record with the last tick at which it is still readable *)
(* (exp).  Time is counted in ticks, Second of them to a second, so that   *)
(* the truncation of `int(time.time())` can be told from a millisecond     *)
(* deadline.                                                               *)
(***************************************************************************)
EXTENDS Integers, FiniteSets, FiniteSetsExt

CONSTANTS
  Sids,             \* session ids, numbers so that ties break as Redis breaks them
  Clients,          \* client fingerprints (ip and user-agent hash)
  NoBucket,         \* the token bucket's key does not exist
  BindFingerprint,  \* WaitingRoomConfig.bind_fingerprint
  Capacity,         \* AdmissionLimits.capacity, 0 = unlimited
  Rate,             \* token units refilled per tick, 0 = unlimited
  Burst,            \* AdmissionLimits.burst, whole tokens
  TokenUnit,        \* token units in one whole token
  Second,           \* ticks in a second
  QueuedTtl,        \* queued_session_ttl_seconds, in ticks
  Grace,            \* admission_grace_seconds, in ticks
  AdmittedTtl,      \* admitted_session_ttl_seconds, in ticks
  BucketLinger,     \* the 60 s the bucket's key outlives a full refill, in ticks
  MaxBatch,         \* the largest batch one tick may ask for (_MAX_BATCH)
  MaxLag,           \* how old a caller's clock reading may be when its script runs
  MaxTime           \* bound on the clock of a model

ASSUME SidsAssumption == Sids \subseteq Nat /\ IsFiniteSet(Sids)

ASSUME FlagAssumption == BindFingerprint \in BOOLEAN

ASSUME LimitAssumption ==
  /\ Capacity \in Nat
  /\ Rate \in Nat
  /\ Burst \in Nat
  /\ TokenUnit \in Nat \ {0}
  /\ MaxBatch \in Nat \ {0}

ASSUME ClockAssumption ==
  /\ Second \in Nat \ {0}
  /\ QueuedTtl \in Nat \ {0}
  /\ Grace \in Nat \ {0}
  /\ AdmittedTtl \in Nat \ {0}
  /\ BucketLinger \in Nat
  /\ MaxLag \in Nat
  /\ MaxTime \in Nat

\* math.max(burst, rate, 1), in token units.
BucketSize == Max({Burst * TokenUnit, Rate * Second, TokenUnit})

\* SessionState; "rejected" is never stored.
States == {"queued", "admitted", "expired", "released"}
Session == [owner : Clients, state : States, exp : Nat]
Bucket == [tokens : Nat, ts : Nat, exp : Nat]

ASSUME NoBucketAssumption == NoBucket \notin Bucket

VARIABLES
  now,         \* the Redis server's clock
  queue,       \* zset `queue`: waiting sid -> score (the tick it joined)
  hash,        \* hashes `session:<sid>` that have not expired
  seen,        \* zset `seen`: waiting sid -> second of its last poll
  admitted,    \* zset `admitted`: sid holding a slot -> deadline of the slot
  bucket,      \* hash `bucket`
  killswitch   \* whether the key `killswitch` exists

vars == <<now, queue, hash, seen, admitted, bucket, killswitch>>

----------------------------------------------------------------------------
(* Redis: sorted sets, hashes and key expiry.                              *)

\* No key, or a key with no members.
Empty == [x \in {} |-> 0]

\* ZADD (or HSET) of the value v for every member of S.
Put(f, S, v) == [x \in DOMAIN f \cup S |-> IF x \in S THEN v ELSE f[x]]

\* ZREM, ZREMRANGEBYSCORE, DEL.
Drop(f, S) == Restrict(f, DOMAIN f \ S)

\* ZRANGEBYSCORE z -inf hi.
UpTo(z, hi) == {x \in DOMAIN z : z[x] <= hi}

\* A sorted set's order: by score, then by member.
Before(z, r, s) == z[r] < z[s] \/ (z[r] = z[s] /\ r < s)

\* ZRANK.
Ahead(z, s) == {r \in DOMAIN z : Before(z, r, s)}
ZRank(z, s) == Cardinality(Ahead(z, s))

\* HSET of the state field of those of S whose hash exists.
SetState(h, S, st) ==
  [s \in DOMAIN h |-> IF s \in S THEN [h[s] EXCEPT !.state = st] ELSE h[s]]

\* EXPIRE of one session's hash; a key that does not exist stays so.
Expire(h, s, ttl) ==
  [x \in DOMAIN h |-> IF x = s THEN [h[x] EXCEPT !.exp = now + ttl] ELSE h[x]]

----------------------------------------------------------------------------
(* The callers' clocks.  Every command takes its time from the process that *)
(* issues it, read before the command is sent, while Redis runs commands in *)
(* the order they arrive: a reading may be up to MaxLag ticks old.          *)

Sampled == Max({0, now - MaxLag})..now

\* int(time.time()), in ticks.
Sec(t) == t - (t % Second)

============================================================================
