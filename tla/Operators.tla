----------------------------- MODULE Operators -----------------------------
(***************************************************************************)
(* The room's operator beside its traffic: the admin's button              *)
(* (adapters/django/admin.py), which reads the kill switch and then writes *)
(* its negation, and waiting_room_flush, which scans the room's keys and   *)
(* unlinks them batch by batch (RedisStorageBackend.flush_room).  Between  *)
(* their commands every operation of the store may run.  (The limiter's    *)
(* keys and the nonces are unlinked as well; no state here depends on      *)
(* them.)                                                                  *)
(***************************************************************************)
EXTENDS RoomStore

CONSTANT
  FailClosed  \* failure_mode is FAIL_CLOSED

ASSUME ModeAssumption == FailClosed \in BOOLEAN

VARIABLES
  task,     \* what the operator is at, "none" if nothing
  left,     \* keys there since the flush began, which it has not unlinked yet
  waited,   \* sessions in line ever since the flush began; not part of the code
  held      \* sessions holding a slot ever since; not part of the code

operatorVars == <<task, left, waited, held>>

OperatorInit ==
  /\ Init
  /\ task = "none"
  /\ left = {}
  /\ waited = {}
  /\ held = {}

\* The room's keys: a sorted set without members has none, sessions have one each.
SomeKey(there, name) == IF there THEN {<<name, 0>>} ELSE {}

Keys ==
  SomeKey(DOMAIN queue # {}, "queue") \cup SomeKey(DOMAIN seen # {}, "seen")
  \cup SomeKey(DOMAIN admitted # {}, "admitted") \cup SomeKey(bucket # NoBucket, "bucket")
  \cup SomeKey(killswitch, "killswitch") \cup {<<"session", s>> : s \in DOMAIN hash}

\* What has been there without a break stays so only as long as it is there.
Follow ==
  /\ left' = left \cap Keys'
  /\ waited' = waited \cap DOMAIN queue'
  /\ held' = held \cap DOMAIN admitted'

----------------------------------------------------------------------------
(* toggle_killswitch                                                       *)

\* is_kill_switch_engaged; a read that fails is answered by the failure mode.
ReadSwitch ==
  /\ task = "none"
  /\ \E engaged \in {killswitch, FailClosed} :
       task' = IF engaged THEN "release" ELSE "engage"
  /\ UNCHANGED <<vars, left, waited, held>>

WriteSwitch ==
  /\ task \in {"engage", "release"}
  /\ SetKillSwitch(task = "engage")
  /\ task' = "none"
  /\ UNCHANGED <<left, waited, held>>

----------------------------------------------------------------------------
(* flush_room                                                              *)

StartFlush ==
  /\ task = "none"
  /\ task' = "flush"
  /\ left' = Keys
  /\ waited' = DOMAIN queue
  /\ held' = DOMAIN admitted
  /\ UNCHANGED vars

\* SCAN may return any key of the room, and does return those that were there
\* from the first to the last call.  A batch of them is unlinked at once; here
\* its keys go one by one, which includes every way to cut batches.
Unlink(k) ==
  /\ task = "flush"
  /\ queue' = IF k[1] = "queue" THEN Empty ELSE queue
  /\ seen' = IF k[1] = "seen" THEN Empty ELSE seen
  /\ admitted' = IF k[1] = "admitted" THEN Empty ELSE admitted
  /\ bucket' = IF k[1] = "bucket" THEN NoBucket ELSE bucket
  /\ killswitch' = (killswitch /\ k[1] # "killswitch")
  /\ hash' = IF k[1] = "session" THEN Drop(hash, {k[2]}) ELSE hash
  /\ Follow
  /\ UNCHANGED <<now, task>>

\* wrong: the last batch, shorter than the others, is not unlinked (FlushTakesTheOld)
ScanDoneShort == Cardinality(left) <= 1

ScanDone == left = {}

FinishFlush ==
  /\ task = "flush"
  /\ ScanDone
  /\ task' = "flushed"
  /\ UNCHANGED <<vars, left, waited, held>>

\* A command fails, or the operator has read the result.
Rest ==
  /\ task \in {"flush", "flushed"}
  /\ task' = "none"
  /\ left' = {}
  /\ waited' = {}
  /\ held' = {}
  /\ UNCHANGED vars

OperatorNext ==
  \/ Next /\ Follow /\ UNCHANGED task
  \/ ReadSwitch \/ WriteSwitch
  \/ StartFlush \/ FinishFlush \/ Rest
  \/ \E k \in Keys : Unlink(k)

OperatorSpec == OperatorInit /\ [][OperatorNext]_<<vars, operatorVars>>

----------------------------------------------------------------------------
(* Properties                                                              *)

\* When flush_room returns, nobody is left who waited all the while it ran, and nobody
\* who held a slot all the while, whatever joins and ticks it raced with
\* (redis_backend.py 317-332; "drop all queue and admission state", engine.py 420).
FlushTakesTheOld == task = "flushed" => waited = {} /\ held = {}

============================================================================
