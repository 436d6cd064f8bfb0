----------------------------- MODULE Strategies -----------------------------
(***************************************************************************)
(* The admission strategies a host may inject into an engine               *)
(* (core/strategies.py).  Each is asked before a tick how many sessions it *)
(* lets the tick ask the store for; the numbers it is given were read from *)
(* Redis by earlier commands.                                              *)
(***************************************************************************)
EXTENDS Integers, FiniteSetsExt

StrategyNames == {"none", "time_bucket", "capacity_aware", "composite"}

\* CapacityAwareAdmission: what ZCARD counts as admitted holds a slot, lapsed or not.
CapacityAwareSlots(size, held, capacity) ==
  IF size <= 0 \/ capacity <= 0 THEN 0 ELSE Max({0, Min({size, capacity - held})})

\* max(burst, admit_per_second, 1), for a rate in units per second.
StrategySize(burst, perSecond, unit) == Max({burst * unit, perSecond, unit})

\* TimeBucketAdmission: its tokens after the time since it was last asked.
Accrued(level, size, rate, elapsed) == Min({size, level + rate * elapsed})

\* ... and the whole ones of them it hands out, which are then spent.
TimeBucketSlots(level, unit, size) == Min({level \div unit, size})

============================================================================
