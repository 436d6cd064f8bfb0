------------------------------- MODULE Ticker -------------------------------
(***************************************************************************)
(* Engines that were given an admission strategy, among processes that     *)
(* were not: WaitingRoom._tick_admit (core/engine.py) reads two counts     *)
(* from Redis, asks the strategy, and runs the script with its answer.     *)
(* Between these steps every other operation may run.                      *)
(*                                                                         *)
(* The strategy is a CompositeAdmission of a TimeBucketAdmission and, when *)
(* AlsoCapacityAware, a CapacityAwareAdmission.                            *)
(***************************************************************************)
EXTENDS MeteredRoom, Strategies

CONSTANTS
  Engines,            \* engines with a strategy, each in a process of its own
  AlsoCapacityAware,  \* whether the free slots are asked for as well
  StrategyRate,       \* admit_per_second of the strategy, token units per tick
  StrategyBurst       \* its burst, whole tokens

ASSUME StrategyAssumption ==
  /\ AlsoCapacityAware \in BOOLEAN
  /\ StrategyRate \in Nat \ {0}
  /\ StrategyBurst \in Nat

VARIABLES
  step,    \* where each engine's tick is, and the number it carries on
  tokens,  \* TimeBucketAdmission._tokens, in token units
  last,    \* TimeBucketAdmission._last
  served   \* admissions the engine's ticks have made; not part of the code

tickerVars == <<step, tokens, last, served>>

LocalBucket == StrategySize(StrategyBurst, StrategyRate * Second, TokenUnit)

TickerInit ==
  /\ MeteredInit
  /\ step = [e \in Engines |-> <<"idle", 0>>]
  /\ tokens = [e \in Engines |-> LocalBucket]
  /\ last = [e \in Engines |-> now]
  /\ served = [e \in Engines |-> 0]

\* The queue's size is read; a failed read counts as 0, and for 0 no strategy
\* gives a slot or touches its state.
ReadSize(e) ==
  /\ step[e][1] = "idle"
  /\ DOMAIN queue # {}
  /\ step' = [step EXCEPT ![e] = <<"sized", Cardinality(DOMAIN queue)>>]
  /\ UNCHANGED <<vars, granted, tokens, last, served>>

\* The bucket is filled and emptied under the strategy's lock; an empty line
\* leaves it alone.
FilledUp(e) == Accrued(tokens[e], LocalBucket, StrategyRate, now - last[e])
Handed(e, size) == IF size = 0 THEN 0 ELSE TimeBucketSlots(FilledUp(e), TokenUnit, size)

\* wrong: what was handed out is not taken from the bucket (EngineKeepsItsRate)
TokensKept(e, size) == IF size = 0 THEN tokens[e] ELSE FilledUp(e)

TokensLeft(e, size) ==
  IF size = 0 THEN tokens[e] ELSE FilledUp(e) - Handed(e, size) * TokenUnit

\* Every strategy is asked, the smallest answer wins: tokens are spent on slots
\* that are not free.  Without slots the script is not run.
AskStrategy(e) ==
  /\ step[e][1] = "sized"
  /\ \E held \in {0, Cardinality(DOMAIN admitted)} :
       LET size == step[e][2]
           free == IF AlsoCapacityAware THEN {CapacityAwareSlots(size, held, Capacity)} ELSE {}
           slots == Min({MaxBatch, Handed(e, size)} \cup free)
       IN /\ step' = [step EXCEPT ![e] = IF slots > 0 THEN <<"asked", slots>> ELSE <<"idle", 0>>]
          /\ tokens' = [tokens EXCEPT ![e] = TokensLeft(e, size)]
          /\ last' = [last EXCEPT ![e] = IF size = 0 THEN @ ELSE now]
  /\ UNCHANGED <<vars, granted, served>>

\* The script runs, with the answer it was asked for a moment ago.
RunScript(e) ==
  /\ step[e][1] = "asked"
  /\ \E t \in Sampled : AdmitBatch(step[e][2], t)
  /\ granted' = granted + Cardinality(JustAdmitted)
  /\ served' = [served EXCEPT ![e] = @ + Cardinality(JustAdmitted)]
  /\ step' = [step EXCEPT ![e] = <<"idle", 0>>]
  /\ UNCHANGED <<tokens, last>>

\* The script is not reached, or another request ends the tick.
TickFails(e) ==
  /\ step[e][1] = "asked"
  /\ step' = [step EXCEPT ![e] = <<"idle", 0>>]
  /\ UNCHANGED <<vars, granted, tokens, last, served>>

TickerNext ==
  \/ MeteredNext /\ UNCHANGED tickerVars
  \/ \E e \in Engines : ReadSize(e) \/ AskStrategy(e) \/ RunScript(e) \/ TickFails(e)

TickerSpec == TickerInit /\ [][TickerNext]_<<vars, granted, tickerVars>>

\* However late its script runs, an engine's ticks admit no more than its own
\* strategy's rate allows since it was started, plus one full bucket
\* (strategies.py 1-8: "the engine ... never admits more than it returns").
EngineKeepsItsRate ==
  \A e \in Engines : served[e] * TokenUnit <= LocalBucket + StrategyRate * now

============================================================================
