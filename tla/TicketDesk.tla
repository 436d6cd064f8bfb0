----------------------------- MODULE TicketDesk -----------------------------
(***************************************************************************)
(* What web workers do at the end of the line: try_admit mints a ticket,   *)
(* redeem spends it for a pass (core/engine.py, core/tokens.py).  Each is a *)
(* sequence of backend calls; between two of them other workers act, the   *)
(* clock runs, and any of them may fail or lose its answer.  The store is  *)
(* RoomStore's.                                                            *)
(*                                                                         *)
(* Left out: signatures, rooms and fingerprints, which verify compares     *)
(* and which change nothing when they differ.                              *)
(***************************************************************************)
EXTENDS RoomStore, Sequences

CONSTANTS
  Workers,     \* requests in progress at the same time
  FailOpen,    \* failure_mode is FAIL_OPEN
  TicketTtl,   \* token_ttl_seconds, in ticks
  MaxTickets   \* bound on the tickets minted in a model

ASSUME DeskAssumption ==
  /\ FailOpen \in BOOLEAN
  /\ TicketTtl \in Nat \ {0}
  /\ MaxTickets \in Nat

VARIABLES
  tickets,  \* the tickets minted; the n-th carries the nonce n
  nonces,   \* keys `nonce:<n>` -> last tick at which the key exists
  passes,   \* the passes issued
  work      \* what each worker is in the middle of

deskVars == <<tickets, nonces, passes, work>>

\* The claims of a token: session and expiry.  Of a pass also the ticket it was
\* bought with and the deadline its slot was given (neither is in the token).
Ticket == [sid : Sids, exp : Nat]
Pass == [ticket : Nat, sid : Sids, exp : Nat, until : Nat]

\* The last step a worker has done.
\*   ticked    try_admit: the admission tick
\*   turn      try_admit: read that the session is admitted
\*   verified  redeem: the signature and the expiry
\*   spent     redeem: the nonce was new
\*   held      redeem: the slot is held until `until`
Steps == {"idle", "ticked", "turn", "verified", "spent", "held"}
Work == [step : Steps, sid : Nat, ticket : Nat, until : Nat]
Idle == [step |-> "idle", sid |-> 0, ticket |-> 0, until |-> 0]

DeskInit ==
  /\ Init
  /\ tickets = <<>>
  /\ nonces = Empty
  /\ passes = <<>>
  /\ work = [w \in Workers |-> Idle]

At(w, step) == work[w].step = step

Goto(w, step) == work' = [work EXCEPT ![w].step = step]

Finish(w) == work' = [work EXCEPT ![w] = Idle]

----------------------------------------------------------------------------
(* try_admit                                                               *)

Mint(s) == tickets' = Append(tickets, [sid |-> s, exp |-> Sec(now) + TicketTtl])

\* The tick that precedes the look at the session; an injected strategy may
\* leave nothing to ask for.
TickForTurn(w, s) ==
  /\ At(w, "idle")
  /\ Len(tickets) < MaxTickets
  /\ \/ \E maxN \in 1..MaxBatch, t \in Sampled : AdmitBatch(maxN, t)
     \/ UNCHANGED vars
  /\ work' = [work EXCEPT ![w] = [Idle EXCEPT !.step = "ticked", !.sid = s]]
  /\ UNCHANGED <<tickets, nonces, passes>>

\* get_session: a ticket is due when the metadata is there and says admitted.
LookUp(w) ==
  /\ At(w, "ticked")
  /\ LET s == work[w].sid
     IN IF s \in DOMAIN hash /\ hash[s].state = "admitted"
        THEN Goto(w, "turn")
        ELSE Finish(w)
  /\ UNCHANGED <<vars, tickets, nonces, passes>>

MintTicket(w) ==
  /\ At(w, "turn")
  /\ Len(tickets) < MaxTickets
  /\ Mint(work[w].sid)
  /\ Finish(w)
  /\ UNCHANGED <<vars, nonces, passes>>

\* The tick or the look-up failed and the room fails open: a ticket without a slot.
MintOpenTicket(w, s) ==
  /\ FailOpen
  /\ At(w, "idle") \/ (At(w, "ticked") /\ work[w].sid = s)
  /\ Len(tickets) < MaxTickets
  /\ Mint(s)
  /\ Finish(w)
  /\ UNCHANGED <<vars, nonces, passes>>

----------------------------------------------------------------------------
(* redeem                                                                  *)

\* A browser may present the same ticket in several requests at once.
Verify(w, n) ==
  /\ At(w, "idle")
  /\ now <= tickets[n].exp
  /\ work' = [work EXCEPT ![w] =
                [step |-> "verified", sid |-> tickets[n].sid, ticket |-> n, until |-> 0]]
  /\ UNCHANGED <<vars, tickets, nonces, passes>>

Fresh(n, t) == t < tickets[n].exp

\* wrong: ex=int(ttl), the nonce is forgotten before the ticket expires (OnePassPerTicket)
RememberedTooShort(n, t) == Sec(tickets[n].exp - t)

\* wrong: ex=int(ttl) - 1, Redis is sent a lifetime that is over (DeskTypeOK)
RememberedLess(n, t) == Sec(tickets[n].exp - t) - Second

\* ex=int(ttl) + 1
Remembered(n, t) == Sec(tickets[n].exp - t) + Second

\* mark_used: SET NX, with a lifetime computed from a clock read before it is sent.
Claim(w, t) ==
  /\ At(w, "verified")
  /\ LET n == work[w].ticket
     IN /\ Fresh(n, t)
        /\ n \notin DOMAIN nonces
        /\ nonces' = Put(nonces, {n}, now + Remembered(n, t))
  /\ Goto(w, "spent")
  /\ UNCHANGED <<vars, tickets, passes>>

\* The ticket expired since it was verified, or was used: the gate queues again.
ClaimRefused(w, t) ==
  /\ At(w, "verified")
  /\ Fresh(work[w].ticket, t) => work[w].ticket \in DOMAIN nonces
  /\ Finish(w)
  /\ UNCHANGED <<vars, tickets, nonces, passes>>

\* hold_admission answers whether ZADD XX CH changed a score: not when the slot
\* is gone, and not when its deadline was this one already.
HoldSlot(w, t) ==
  /\ At(w, "spent")
  /\ LET s == work[w].sid
         changed == s \in DOMAIN admitted /\ admitted[s] # t + AdmittedTtl
     IN /\ Hold(s, t)
        /\ IF changed
           THEN work' = [work EXCEPT ![w].step = "held", ![w].until = t + AdmittedTtl]
           ELSE Finish(w)
  /\ UNCHANGED <<tickets, nonces, passes>>

IssuePass(w) ==
  /\ At(w, "held")
  /\ passes' = Append(passes, [ticket |-> work[w].ticket,
                               sid    |-> work[w].sid,
                               exp    |-> Sec(now) + AdmittedTtl,
                               until  |-> work[w].until])
  /\ Finish(w)
  /\ UNCHANGED <<vars, tickets, nonces>>

----------------------------------------------------------------------------

\* A backend call raises, before or after it took effect, or the worker dies.
Fail(w) ==
  /\ ~At(w, "idle")
  /\ Finish(w)
  /\ UNCHANGED <<vars, tickets, nonces, passes>>

\* What other requests, commands and tasks do to the store.
Elsewhere ==
  /\ \/ \E c \in Clients, s \in Sids : Enqueue(c, s)
     \/ \E s \in Sids, t \in Sampled : Position(s, t)
     \/ \E maxN \in 1..MaxBatch, t \in Sampled : AdmitBatch(maxN, t)
     \/ \E s \in Sids : Release(s) \/ Remove(s)
     \/ \E c, t \in Sampled : c <= t /\ Reclaim(c, t)
     \/ \E engaged \in BOOLEAN : SetKillSwitch(engaged)
  /\ UNCHANGED deskVars

\* The clock, and the nonces it makes Redis forget.
DeskTick ==
  /\ Tick
  /\ nonces' = Drop(nonces, {n \in DOMAIN nonces : nonces[n] < now'})
  /\ UNCHANGED <<tickets, passes, work>>

TryAdmit(w) ==
  \/ \E s \in Sids : TickForTurn(w, s) \/ MintOpenTicket(w, s)
  \/ LookUp(w)
  \/ MintTicket(w)

Redeem(w) ==
  \/ \E n \in DOMAIN tickets : Verify(w, n)
  \/ \E t \in Sampled : Claim(w, t) \/ ClaimRefused(w, t) \/ HoldSlot(w, t)
  \/ IssuePass(w)

DeskNext ==
  \/ \E w \in Workers : TryAdmit(w) \/ Redeem(w) \/ Fail(w)
  \/ Elsewhere
  \/ DeskTick

DeskSpec == DeskInit /\ [][DeskNext]_<<vars, deskVars>>

----------------------------------------------------------------------------
(* Properties                                                              *)

\* Type invariant: whoever redeems works on a ticket that was minted, for its
\* session, and no nonce is stored with a lifetime that is already over, which
\* Redis refuses (tokens.py 200-206).
DeskTypeOK ==
  /\ tickets \in Seq(Ticket)
  /\ DOMAIN nonces \subseteq DOMAIN tickets
  /\ \A n \in DOMAIN nonces : nonces[n] \in Nat /\ nonces[n] >= now
  /\ passes \in Seq(Pass)
  /\ work \in [Workers -> Work]
  /\ \A w \in Workers :
       /\ work[w].step \in {"ticked", "turn"} => work[w].sid \in Sids
       /\ work[w].step \in {"verified", "spent", "held"} =>
            /\ work[w].ticket \in DOMAIN tickets
            /\ work[w].sid = tickets[work[w].ticket].sid

\* Single use: however many requests present a ticket at the same time, whichever
\* answers are lost, and although Redis forgets nonces, one ticket buys at most one
\* pass (tokens.py, mark_used: "we only need to remember the nonce until the token
\* expires"; README, "redeems the ticket exactly once").
OnePassPerTicket ==
  \A i, j \in DOMAIN passes : passes[i].ticket = passes[j].ticket => i = j

\* The session of the pass p holds a slot for as long as was promised with p.
Covered(p) == p.sid \in DOMAIN admitted /\ admitted[p.sid] >= p.until

\* What was promised with a pass is kept: neither ticks nor reclaims nor another
\* redemption for the same session frees or shortens the slot before that deadline;
\* only release does, or the session's being in line a second time.
PromisedSlotKept ==
  [][\A i \in DOMAIN passes :
       Covered(passes[i]) /\ ~Covered(passes[i])' =>
         \/ passes[i].until <= now
         \/ Release(passes[i].sid)
         \/ passes[i].sid \in DOMAIN queue]_<<vars, deskVars>>

\* README, line 37: the slot "is held for the pass lifetime, or until you call
\* release_admission()".
SlotHeldForPassLifetime ==
  [][\A i \in DOMAIN passes :
       passes[i].sid \in DOMAIN admitted \ DOMAIN admitted' =>
         now > passes[i].exp \/ Release(passes[i].sid)]_<<vars, deskVars>>

============================================================================
