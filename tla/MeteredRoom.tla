---------------------------- MODULE MeteredRoom ----------------------------
(***************************************************************************)
(* The store with a count of the admissions it has granted, against which  *)
(* the promised rate is measured, and the store as an implementation of    *)
(* AdmissionContract.                                                      *)
(***************************************************************************)
EXTENDS RoomStore

VARIABLE granted  \* admissions since the room was created; not part of the code

MeteredInit == Init /\ granted = 0

MeteredNext == Next /\ granted' = granted + Cardinality(JustAdmitted)

MeteredSpec == MeteredInit /\ [][MeteredNext]_<<vars, granted>>

\* No more sessions are admitted than the rate allows since the room opened, plus
\* one full bucket, whichever processes tick and whenever (the comment at the head
\* of admit_batch.lua; README, "enforced atomically in Redis").
RateNeverOvershot ==
  Rate > 0 => granted * TokenUnit <= BucketSize + Rate * now

\* The store keeps the contract of the interface: tokens refilled up to now are
\* the meter, the sessions with a deadline are the holders.
Contract ==
  INSTANCE AdmissionContract
    WITH line <- queue, holders <- DOMAIN admitted, level <- Refilled(now), open <- ~killswitch

KeepsContract == Contract!Spec

============================================================================
