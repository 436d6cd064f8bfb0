------------------------- MODULE AdmissionContract -------------------------
(***************************************************************************)
(* What the storage backend promises (StorageBackend.enqueue, admit_batch  *)
(* in core/interfaces.py), without scripts, deadlines, metadata or clock   *)
(* readings: a line served from the front, slots, a meter that fills at    *)
(* the configured rate, and a door that can be shut.                       *)
(***************************************************************************)
EXTENDS Integers, FiniteSets, FiniteSetsExt

CONSTANTS Sids, Capacity, Rate, TokenUnit, BucketSize

VARIABLES
  line,     \* waiting session -> when it joined
  holders,  \* sessions that hold a slot
  level,    \* token units the meter would show
  open      \* whether the room admits and takes in

vars == <<line, holders, level, open>>

Ahead(r, s) == line[r] < line[s] \/ (line[r] = line[s] /\ r < s)

Init ==
  /\ line = [x \in {} |-> 0]
  /\ holders = {}
  /\ level = BucketSize
  /\ open = TRUE

\* A session joins the line; which place it gets is its arrival's.
Join(s) ==
  /\ open
  /\ s \notin DOMAIN line
  /\ DOMAIN line' = DOMAIN line \cup {s}
  /\ Restrict(line', DOMAIN line) = line
  /\ UNCHANGED <<holders, level, open>>

\* A batch A is admitted, D dropped from the line, and other slots may be freed.
Grant(A, D) ==
  /\ open
  /\ line' = Restrict(line, DOMAIN line \ (A \cup D))
  /\ \A s \in A, r \in DOMAIN line' : ~Ahead(r, s)
  /\ A \subseteq holders' /\ holders' \subseteq holders \cup A
  /\ Capacity > 0 => Cardinality(holders') <= Capacity
  /\ IF Rate > 0
     THEN /\ Cardinality(A) * TokenUnit <= level
          /\ level' = level - Cardinality(A) * TokenUnit
     ELSE UNCHANGED level
  /\ UNCHANGED open

\* Sessions leave the line unadmitted, slots are freed.
Leave(D, E) ==
  /\ line' = Restrict(line, DOMAIN line \ D)
  /\ holders' = holders \ E
  /\ UNCHANGED <<level, open>>

\* Time passes.
Refill ==
  /\ level' = Min({BucketSize, level + Rate})
  /\ UNCHANGED <<line, holders, open>>

Switch ==
  /\ open' = ~open
  /\ UNCHANGED <<line, holders, level>>

Next ==
  \/ \E s \in Sids : Join(s)
  \/ \E A, D \in SUBSET DOMAIN line : A \cap D = {} /\ Grant(A, D)
  \/ \E D \in SUBSET DOMAIN line, E \in SUBSET holders : Leave(D, E)
  \/ Refill
  \/ Switch

Spec == Init /\ [][Next]_vars

============================================================================
