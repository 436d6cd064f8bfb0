--------------------------- MODULE OperatorProofs ---------------------------
(***************************************************************************)
(* What the operator's commands leave of the store's guarantees, and what  *)
(* a flush promises, for every instance of Operators.  A step of the       *)
(* operator is one of the store's, or unlinks a key; so each theorem on    *)
(* the store needs one case more.                                          *)
(***************************************************************************)
EXTENDS Operators, RoomActionProofs

LEMMA OperatorStep ==
  ASSUME [OperatorNext]_<<vars, operatorVars>>
  PROVE  [Next]_vars \/ \E k \in Keys : Unlink(k)
<1>1. WriteSwitch => Next
  BY DEF WriteSwitch, Next
<1> QED
  BY <1>1 DEF OperatorNext, ReadSwitch, StartFlush, FinishFlush, Rest, operatorVars

\* A key is unlinked whole: what is left of each set is the set, or nothing of it.
LEMMA UnlinkStep ==
  ASSUME TypeOK, NEW k \in Keys, Unlink(k)
  PROVE  /\ TypeOK'
         /\ queue' = queue \/ DOMAIN queue' = {}
         /\ admitted' = admitted \/ DOMAIN admitted' = {}
         /\ DOMAIN hash' \subseteq DOMAIN hash
         /\ \A s \in DOMAIN hash' : hash'[s] = hash[s]
<1>1. /\ now \in Nat /\ Typed(queue, Nat) /\ Typed(hash, Session) /\ Typed(seen, Nat)
      /\ Typed(admitted, Nat) /\ bucket \in Bucket \cup {NoBucket} /\ killswitch \in BOOLEAN
  BY TypeOKIsTyped
<1>2. /\ queue' \in {queue, Empty} /\ seen' \in {seen, Empty} /\ admitted' \in {admitted, Empty}
      /\ bucket' \in {bucket, NoBucket} /\ killswitch' \in BOOLEAN /\ now' = now
  BY <1>1 DEF Unlink
<1>3. hash' = hash \/ hash' = Drop(hash, {k[2]})
  BY DEF Unlink
<1>4. Typed(Empty, Nat) /\ DOMAIN Empty = {}
  BY EmptyTyped
<1>5. Typed(hash', Session)
  <2>1. Typed(Drop(hash, {k[2]}), Session)
    BY <1>1, DropTyped
  <2> QED BY <1>1, <1>3, <2>1
<1>6. TypeOK'
  BY <1>1, <1>2, <1>4, <1>5, TypeOKNextIsTyped
<1>7. DOMAIN hash' \subseteq DOMAIN hash /\ \A s \in DOMAIN hash' : hash'[s] = hash[s]
  BY <1>3 DEF Drop, Restrict
<1> QED BY <1>2, <1>4, <1>6, <1>7

\* The types of the store survive a flush, which no script expects.
THEOREM OperatorTypeCorrect == OperatorSpec => []TypeOK
<1>1. OperatorInit => TypeOK
  BY TypeOKInit DEF OperatorInit
<1>2. TypeOK /\ [OperatorNext]_<<vars, operatorVars>> => TypeOK'
  BY OperatorStep, UnlinkStep, TypeOKStep
<1> QED BY <1>1, <1>2, PTL DEF OperatorSpec

\* No more sessions hold a slot than the room has, whatever a flush takes away under
\* a tick that runs (engine.py 420, admit_batch.lua 53-56).
THEOREM OperatorKeepsCapacity == OperatorSpec => []CapacityRespected
<1>1. OperatorInit => CapacityRespected
  BY EmptyTyped, FS_EmptySet, LimitAssumption DEF OperatorInit, Init, CapacityRespected
<1>2. TypeOK /\ CapacityRespected /\ [OperatorNext]_<<vars, operatorVars>> => CapacityRespected'
  <2>1. ASSUME TypeOK, CapacityRespected, NEW k \in Keys, Unlink(k) PROVE CapacityRespected'
    BY <2>1, UnlinkStep, FS_EmptySet, LimitAssumption DEF CapacityRespected
  <2> QED BY <2>1, OperatorStep, CapacityStep
<1> QED BY <1>1, <1>2, OperatorTypeCorrect, PTL DEF OperatorSpec

----------------------------------------------------------------------------
(* The flush.  A set in which somebody stayed since the flush began has     *)
(* never been unlinked, so that its key is still to come.                  *)

StillToCome ==
  /\ waited \subseteq DOMAIN queue
  /\ held \subseteq DOMAIN admitted
  /\ waited # {} => <<"queue", 0>> \in left
  /\ held # {} => <<"admitted", 0>> \in left
  /\ task = "flushed" => left = {}

LEMMA StillToComeStep ==
  ASSUME StillToCome, [OperatorNext]_<<vars, operatorVars>>
  PROVE  StillToCome'
<1> USE DEF StillToCome
<1>1. ASSUME Follow
      PROVE  /\ waited' \subseteq DOMAIN queue' /\ held' \subseteq DOMAIN admitted'
             /\ waited' # {} => <<"queue", 0>> \in left'
             /\ held' # {} => <<"admitted", 0>> \in left'
             /\ left' \subseteq left
  <2>1. waited' # {} => <<"queue", 0>> \in Keys'
    BY <1>1 DEF Follow, Keys, SomeKey
  <2>2. held' # {} => <<"admitted", 0>> \in Keys'
    BY <1>1 DEF Follow, Keys, SomeKey
  <2> QED BY <1>1, <2>1, <2>2 DEF Follow
<1>2. CASE Next /\ Follow /\ UNCHANGED task
  BY <1>1, <1>2
<1>3. ASSUME NEW k \in Keys, Unlink(k) PROVE StillToCome'
  BY <1>1, <1>3 DEF Unlink
<1>4. CASE StartFlush
  BY <1>4 DEF StartFlush, Keys, SomeKey, vars
<1>5. CASE FinishFlush
  BY <1>5 DEF FinishFlush, ScanDone, vars
<1>6. CASE Rest
  BY <1>6 DEF Rest
<1>7. CASE ReadSwitch \/ WriteSwitch
  BY <1>7 DEF ReadSwitch, WriteSwitch, SetKillSwitch, vars
<1>8. CASE UNCHANGED <<vars, operatorVars>>
  BY <1>8 DEF vars, operatorVars
<1> QED BY <1>2, <1>3, <1>4, <1>5, <1>6, <1>7, <1>8 DEF OperatorNext

\* Whatever joins and ticks a flush races with, and however its scan is cut into
\* batches, nobody is left who was in line, or held a slot, all the while it ran
\* (redis_backend.py 317-332).
THEOREM FlushTakesAllOld == OperatorSpec => []FlushTakesTheOld
<1>1. OperatorInit => StillToCome
  BY DEF OperatorInit, StillToCome
<1>2. StillToCome => FlushTakesTheOld
  BY DEF StillToCome, FlushTakesTheOld
<1> QED BY <1>1, <1>2, StillToComeStep, PTL DEF OperatorSpec

----------------------------------------------------------------------------
(* The store's order and its door.  A flush empties the line without a      *)
(* batch; that this admits nobody is because nobody in line is marked       *)
(* "admitted", which TicketableHoldsSlot says of the store and a flush      *)
(* leaves of it.                                                           *)

NotYetAdmitted == \A s \in DOMAIN queue \cap DOMAIN hash : hash[s].state # "admitted"

LEMMA NotYetAdmittedStep ==
  ASSUME TypeOK, NotYetAdmitted, [Next]_vars
  PROVE  NotYetAdmitted'
<1> SUFFICES ASSUME NEW s \in DOMAIN queue' \cap DOMAIN hash'
             PROVE  hash'[s].state # "admitted"
  BY DEF NotYetAdmitted
<1>0. Typed(hash, Session)
  BY TypeOKIsTyped
<1>1. ASSUME s \in DOMAIN queue, s \in DOMAIN hash PROVE hash[s].state # "admitted"
  BY <1>1 DEF NotYetAdmitted
<1>2. ASSUME NEW c \in Clients, NEW x \in Sids, Enqueue(c, x)
      PROVE  hash'[s].state # "admitted"
  <2>1. ASSUME NEW t \in Sampled, KeepPlace(c, x, t) PROVE hash'[s].state # "admitted"
    <3>1. hash' = Expire(hash, x, QueuedTtl) /\ queue' = queue
      BY <2>1 DEF KeepPlace, Touched
    <3>2. s \in DOMAIN hash
      BY <3>1 DEF Expire
    <3> QED BY <1>0, <1>1, <3>1, <3>2, ExpireFields
  <2>2. ASSUME NEW score \in Sampled, NEW t \in Sampled, JoinLine(c, x, score, t)
        PROVE  hash'[s].state # "admitted"
    BY <1>1, <2>2 DEF JoinLine, Joined, Put
  <2> QED BY <1>2, <2>1, <2>2 DEF Enqueue
<1>3. ASSUME NEW x \in Sids, NEW t \in Sampled, Position(x, t) \/ Hold(x, t)
      PROVE  hash'[s].state # "admitted"
  <2>1. PICK ttl \in {QueuedTtl, AdmittedTtl} : hash' = Expire(hash, x, ttl)
    BY <1>3 DEF Position, Hold, Touched
  <2>2. s \in DOMAIN hash /\ queue' = queue
    BY <1>3, <2>1 DEF Expire, Position, Hold
  <2> QED BY <1>0, <1>1, <2>1, <2>2, ExpireFields
<1>4. ASSUME NEW t
      PROVE  /\ Typed(HashAfter(t), Session) /\ DOMAIN HashAfter(t) = DOMAIN hash
             /\ \A x \in DOMAIN hash : HashAfter(t)[x].state \in {hash[x].state, "expired"}
  <2>1. Typed(HashAfter(t), Session) /\ DOMAIN HashAfter(t) = DOMAIN hash
    BY <1>0, SetStateTyped DEF HashAfter, States
  <2>2. \A x \in DOMAIN hash : HashAfter(t)[x].state \in {hash[x].state, "expired"}
    BY <1>0, SetStateFields DEF HashAfter, States
  <2> QED BY <2>1, <2>2
<1>5. ASSUME NEW t \in Sampled, AdmitNobody(t) PROVE hash'[s].state # "admitted"
  BY <1>1, <1>4, <1>5 DEF AdmitNobody
<1>6. ASSUME NEW maxN \in Nat, NEW t \in Sampled, AdmitFront(maxN, t)
      PROVE  hash'[s].state # "admitted"
  <2> DEFINE live == Front(maxN, t) \cap DOMAIN hash
  <2>1. hash' = SetState(HashAfter(t), live, "admitted") /\ queue' = Drop(queue, Front(maxN, t))
    BY <1>6 DEF AdmitFront
  <2>2. s \in DOMAIN queue /\ s \notin live
    BY <2>1 DEF Drop, Restrict
  <2> HIDE DEF live
  <2>3. s \in DOMAIN HashAfter(t)
    BY <2>1 DEF SetState
  <2>4. hash'[s].state = HashAfter(t)[s].state
    BY <1>4, <2>1, <2>2, <2>3, SetStateFields DEF States
  <2> QED BY <1>1, <1>4, <2>2, <2>3, <2>4
<1>7. ASSUME NEW x \in Sids, Release(x) PROVE hash'[s].state # "admitted"
  <2>1. s \in DOMAIN hash /\ hash' = SetState(hash, {x}, "released") /\ queue' = queue
    BY <1>7 DEF Release, SetState
  <2> QED BY <1>0, <1>1, <2>1, SetStateFields DEF States
<1>8. ASSUME NEW c \in Sampled, NEW t \in Sampled, Reclaim(c, t)
      PROVE  hash'[s].state # "admitted"
  <2> DEFINE kept == Drop(hash, IdleSince(c))
  <2>1. hash' = SetState(kept, UpTo(admitted, t), "expired") /\ DOMAIN queue' \subseteq DOMAIN queue
    BY <1>8 DEF Reclaim, Drop, Restrict
  <2>2. Typed(kept, Session) /\ \A x \in DOMAIN kept : x \in DOMAIN hash /\ kept[x] = hash[x]
    BY <1>0, DropTyped DEF Drop, Restrict
  <2> HIDE DEF kept
  <2>3. s \in DOMAIN kept
    BY <2>1 DEF SetState
  <2> QED BY <1>1, <2>1, <2>2, <2>3, SetStateFields DEF States
<1>9. ASSUME \/ \E x \in Sids : Remove(x)
             \/ Tick
      PROVE  hash'[s].state # "admitted"
  BY <1>1, <1>9 DEF Remove, Tick, Drop, Restrict
<1>10. ASSUME \/ \E engaged \in BOOLEAN : SetKillSwitch(engaged)
              \/ UNCHANGED vars
       PROVE  hash'[s].state # "admitted"
  BY <1>1, <1>10 DEF SetKillSwitch, vars
<1> QED BY <1>2, <1>3, <1>5, <1>6, <1>7, <1>8, <1>9, <1>10, LimitAssumption DEF Next, AdmitBatch

\* Nobody in line is marked "admitted", during a flush as before.
THEOREM NobodyInLineIsAdmitted == OperatorSpec => []NotYetAdmitted
<1>1. OperatorInit => NotYetAdmitted
  BY EmptyTyped DEF OperatorInit, Init, NotYetAdmitted
<1>2. TypeOK /\ NotYetAdmitted /\ [OperatorNext]_<<vars, operatorVars>> => NotYetAdmitted'
  <2>1. ASSUME TypeOK, NotYetAdmitted, NEW k \in Keys, Unlink(k) PROVE NotYetAdmitted'
    BY <2>1, UnlinkStep DEF NotYetAdmitted
  <2> QED BY <2>1, OperatorStep, NotYetAdmittedStep
<1> QED BY <1>1, <1>2, OperatorTypeCorrect, PTL DEF OperatorSpec

\* What is unlinked is not admitted.
LEMMA UnlinkAdmitsNobody ==
  ASSUME TypeOK, NotYetAdmitted, NEW k \in Keys, Unlink(k)
  PROVE  JustAdmitted = {}
BY UnlinkStep DEF NotYetAdmitted, JustAdmitted

\* A room that is closed admits nobody and takes nobody in, while the operator's
\* button or a flush is between two of its commands as well: only the command that
\* takes the key away opens it (admin.py 131, enqueue.lua 19, admit_batch.lua 41).
THEOREM OperatorKeepsTheDoor == OperatorSpec => KillSwitchHolds
<1> DEFINE Closed == killswitch => JustAdmitted = {} /\ DOMAIN queue' \subseteq DOMAIN queue
<1>1. TypeOK /\ NotYetAdmitted /\ [OperatorNext]_<<vars, operatorVars>> => [Closed]_vars
  <2>1. ASSUME TypeOK, NotYetAdmitted, NEW k \in Keys, Unlink(k) PROVE Closed
    BY <2>1, UnlinkStep, UnlinkAdmitsNobody
  <2> QED BY <2>1, OperatorStep, ClosedRoomStep
<1> QED BY <1>1, OperatorTypeCorrect, NobodyInLineIsAdmitted, PTL DEF OperatorSpec, KillSwitchHolds

\* First come, first served, under the operator's commands too.
THEOREM OperatorKeepsOrder == OperatorSpec => FifoAdmission
<1> DEFINE Fifo == \A s \in JustAdmitted, r \in DOMAIN queue' : ~Before(queue, r, s)
<1>1. TypeOK /\ NotYetAdmitted /\ [OperatorNext]_<<vars, operatorVars>> => [Fifo]_vars
  <2>1. ASSUME TypeOK, NotYetAdmitted, NEW k \in Keys, Unlink(k) PROVE Fifo
    BY <2>1, UnlinkAdmitsNobody
  <2> QED BY <2>1, OperatorStep, FifoStep
<1> QED BY <1>1, OperatorTypeCorrect, NobodyInLineIsAdmitted, PTL DEF OperatorSpec, FifoAdmission

============================================================================
