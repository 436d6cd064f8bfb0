-------------------------- MODULE TicketDeskProofs --------------------------
(***************************************************************************)
(* The ticket desk, for every instance: its steps are steps of the store,  *)
(* so all that is proved of the store holds beside it; one ticket buys one *)
(* pass, and promised slots are kept, as long as clock readings are used   *)
(* when they are taken.                                                    *)
(***************************************************************************)
EXTENDS TicketDesk, RoomActionProofs

\* int(x): the second that x falls in.
LEMMA SecondOf ==
  ASSUME NEW x \in Nat
  PROVE  Sec(x) \in Nat /\ Sec(x) <= x /\ x < Sec(x) + Second
<1>1. x = Second * (x \div Second) + (x % Second)
  BY ClockAssumption
<1>2. x % Second \in 0..(Second - 1) /\ x \div Second \in Nat
  BY ClockAssumption
<1>3. Second * (x \div Second) \in Nat
  BY <1>2, ClockAssumption
<1> QED BY <1>1, <1>2, <1>3, ClockAssumption DEF Sec

LEMMA TicketTyped ==
  ASSUME DeskTypeOK, NEW n \in DOMAIN tickets
  PROVE  n \in Nat /\ tickets[n].sid \in Sids /\ tickets[n].exp \in Nat
<1>1. tickets \in Seq(Ticket)
  BY DEF DeskTypeOK
<1>2. n \in Nat /\ tickets[n] \in Ticket
  BY <1>1
<1> QED BY <1>2 DEF Ticket

----------------------------------------------------------------------------
(* Types, and the store under the desk                                     *)

\* Every step of the desk is a step of the store or leaves the store alone.
LEMMA DeskStepIsRoomStep ==
  ASSUME DeskTypeOK, [DeskNext]_<<vars, deskVars>>
  PROVE  [Next]_vars
<1>1. ASSUME NEW w \in Workers, TryAdmit(w) PROVE [Next]_vars
  BY <1>1 DEF TryAdmit, TickForTurn, MintOpenTicket, LookUp, MintTicket, Next
<1>2. ASSUME NEW w \in Workers, NEW t \in Sampled, HoldSlot(w, t) PROVE [Next]_vars
  <2>1. work[w].sid \in Sids
    <3>1. work[w].ticket \in DOMAIN tickets /\ work[w].sid = tickets[work[w].ticket].sid
      BY <1>2 DEF HoldSlot, At, DeskTypeOK
    <3> QED BY <3>1, TicketTyped
  <2>2. Hold(work[w].sid, t)
    BY <1>2 DEF HoldSlot
  <2> QED BY <2>1, <2>2 DEF Next
<1>3. ASSUME NEW w \in Workers, Redeem(w), ~\E t \in Sampled : HoldSlot(w, t)
      PROVE  [Next]_vars
  BY <1>3 DEF Redeem, Verify, Claim, ClaimRefused, IssuePass
<1>4. ASSUME NEW w \in Workers, Fail(w) PROVE [Next]_vars
  BY <1>4 DEF Fail
<1>5. ASSUME Elsewhere PROVE [Next]_vars
  BY <1>5 DEF Elsewhere, Next
<1>6. ASSUME DeskTick PROVE [Next]_vars
  BY <1>6 DEF DeskTick, Next
<1> QED BY <1>1, <1>2, <1>3, <1>4, <1>5, <1>6 DEF DeskNext

\* What a worker is in the middle of, as DeskTypeOK describes it.
WorkOK(x, tks) ==
  /\ x \in Work
  /\ x.step \in {"ticked", "turn"} => x.sid \in Sids
  /\ x.step \in {"verified", "spent", "held"} =>
       x.ticket \in DOMAIN tks /\ x.sid = tks[x.ticket].sid

LEMMA IdleIsWork == ASSUME NEW tks PROVE WorkOK(Idle, tks)
BY DEF WorkOK, Idle, Work, Steps

\* A worker that moves on leaves the others where they are.
LEMMA WorkStep ==
  ASSUME NEW w \in Workers, NEW x, WorkOK(x, tickets), DeskTypeOK,
         work' = [work EXCEPT ![w] = x]
  PROVE  work' \in [Workers -> Work] /\ \A v \in Workers : WorkOK(work'[v], tickets)
BY DEF WorkOK, DeskTypeOK

\* A ticket more changes nothing about those that were minted.
LEMMA MintStep ==
  ASSUME TypeOK, DeskTypeOK, NEW s \in Sids, Mint(s)
  PROVE  /\ tickets' \in Seq(Ticket)
         /\ DOMAIN tickets \subseteq DOMAIN tickets'
         /\ \A n \in DOMAIN tickets : tickets'[n] = tickets[n]
         /\ \A x : WorkOK(x, tickets) => WorkOK(x, tickets')
<1>1. [sid |-> s, exp |-> Sec(now) + TicketTtl] \in Ticket
  BY SecondOf, DeskAssumption DEF TypeOK, Ticket
<1>2. /\ tickets' \in Seq(Ticket)
      /\ DOMAIN tickets \subseteq DOMAIN tickets'
      /\ \A n \in DOMAIN tickets : tickets'[n] = tickets[n]
  BY <1>1 DEF Mint, DeskTypeOK
<1> QED BY <1>2 DEF WorkOK

\* A nonce is stored for longer than its ticket may still be presented.
LEMMA NonceOutlivesTicket ==
  ASSUME TypeOK, DeskTypeOK, NEW n \in DOMAIN tickets, NEW t \in Sampled, Fresh(n, t)
  PROVE  /\ now + Remembered(n, t) \in Nat
         /\ now + Remembered(n, t) > tickets[n].exp
         /\ now + Remembered(n, t) > now
<1>1. t \in Nat /\ t <= now /\ now \in Nat
  BY ReadingsArePast DEF TypeOK
<1>2. tickets[n].exp \in Nat /\ tickets[n].exp > t
  BY <1>1, TicketTyped DEF Fresh
<1>3. /\ Sec(tickets[n].exp - t) \in Nat
      /\ tickets[n].exp - t < Sec(tickets[n].exp - t) + Second
  BY <1>1, <1>2, SecondOf
<1> QED BY <1>1, <1>2, <1>3, ClockAssumption DEF Remembered

LEMMA DeskTypeInit == DeskInit => DeskTypeOK
BY DEF DeskInit, DeskTypeOK, Empty, Idle, Work, Steps

LEMMA DeskTypeStep ==
  ASSUME TypeOK, DeskTypeOK, [DeskNext]_<<vars, deskVars>>
  PROVE  DeskTypeOK'
<1> DEFINE WorkKept == work' \in [Workers -> Work] /\ \A v \in Workers : WorkOK(work'[v], tickets)
           NoncesKept == nonces' = nonces /\ now' = now
<1>0. /\ work \in [Workers -> Work] /\ \A v \in Workers : WorkOK(work[v], tickets)
      /\ TypeOK'
  <2>1. TypeOK'
    BY TypeOKStep, DeskStepIsRoomStep
  <2> QED BY <2>1 DEF DeskTypeOK, WorkOK
\* Most steps touch only one worker.
<1>1. ASSUME WorkKept, NoncesKept, UNCHANGED <<tickets, passes>>
      PROVE  DeskTypeOK'
  BY <1>1 DEF DeskTypeOK, WorkOK
<1>2. ASSUME NEW w \in Workers, Finish(w)
      PROVE  WorkKept
  BY <1>2, IdleIsWork, WorkStep DEF Finish
<1>3. ASSUME NEW w \in Workers, NEW s \in Sids, TickForTurn(w, s)
      PROVE  DeskTypeOK'
  <2> DEFINE x == [Idle EXCEPT !.step = "ticked", !.sid = s]
  <2>1. WorkOK(x, tickets)
    BY SidsAssumption DEF WorkOK, Idle, Work, Steps
  <2>2. WorkKept
    BY <1>3, <2>1, WorkStep DEF TickForTurn
  <2>3. now' = now
    BY <1>3 DEF TickForTurn, AdmitBatch, AdmitNobody, AdmitFront, vars
  <2> QED BY <1>1, <1>3, <2>2, <2>3 DEF TickForTurn
<1>4. ASSUME NEW w \in Workers, LookUp(w)
      PROVE  DeskTypeOK'
  <2>1. CASE Goto(w, "turn")
    <3> DEFINE x == [work[w] EXCEPT !.step = "turn"]
    <3>1. WorkOK(x, tickets)
      BY <1>0, <1>4 DEF LookUp, At, WorkOK, Work, Steps
    <3>2. WorkKept
      BY <2>1, <3>1, WorkStep DEF Goto
    <3> QED BY <1>1, <1>4, <3>2 DEF LookUp, vars
  <2>2. CASE Finish(w)
    BY <1>1, <1>2, <1>4, <2>2 DEF LookUp, vars
  <2> QED BY <1>4, <2>1, <2>2 DEF LookUp
<1>5. ASSUME NEW w \in Workers, NEW s \in Sids, Mint(s), Finish(w),
             UNCHANGED <<vars, nonces, passes>>
      PROVE  DeskTypeOK'
  <2>1. WorkKept
    BY <1>2, <1>5
  <2>2. /\ tickets' \in Seq(Ticket)
        /\ DOMAIN tickets \subseteq DOMAIN tickets'
        /\ \A x : WorkOK(x, tickets) => WorkOK(x, tickets')
    BY <1>5, MintStep
  <2>3. \A v \in Workers : WorkOK(work'[v], tickets')
    BY <2>1, <2>2
  <2> QED BY <1>5, <2>1, <2>2, <2>3 DEF DeskTypeOK, WorkOK, vars
<1>6. ASSUME NEW w \in Workers, NEW n \in DOMAIN tickets, Verify(w, n)
      PROVE  DeskTypeOK'
  <2> DEFINE x == [step |-> "verified", sid |-> tickets[n].sid, ticket |-> n, until |-> 0]
  <2>1. n \in Nat /\ tickets[n].sid \in Nat
    BY TicketTyped, SidsAssumption
  <2>2. WorkOK(x, tickets)
    BY <2>1 DEF WorkOK, Work, Steps
  <2>3. WorkKept
    BY <1>6, <2>2, WorkStep DEF Verify
  <2> QED BY <1>1, <1>6, <2>3 DEF Verify, vars
<1>7. ASSUME NEW w \in Workers, NEW t \in Sampled, Claim(w, t)
      PROVE  DeskTypeOK'
  <2> DEFINE n == work[w].ticket
             x == [work[w] EXCEPT !.step = "spent"]
  <2>1. n \in DOMAIN tickets /\ WorkOK(x, tickets)
    BY <1>0, <1>7 DEF Claim, At, WorkOK, Work, Steps
  <2>2. WorkKept
    BY <1>7, <2>1, WorkStep DEF Claim, Goto
  <2>3. Fresh(n, t) /\ nonces' = Put(nonces, {n}, now + Remembered(n, t))
    BY <1>7 DEF Claim
  <2>4. now + Remembered(n, t) \in Nat /\ now + Remembered(n, t) > now
    BY <2>1, <2>3, NonceOutlivesTicket
  <2>5. DOMAIN nonces' \subseteq DOMAIN tickets
    BY <2>1, <2>3 DEF DeskTypeOK, Put
  <2>6. \A m \in DOMAIN nonces' : nonces'[m] \in Nat /\ nonces'[m] >= now
    BY <2>3, <2>4 DEF TypeOK, DeskTypeOK, Put
  <2> QED BY <1>7, <2>2, <2>5, <2>6 DEF Claim, DeskTypeOK, WorkOK, vars
<1>8. ASSUME NEW w \in Workers, NEW t \in Sampled, ClaimRefused(w, t)
      PROVE  DeskTypeOK'
  BY <1>1, <1>2, <1>8 DEF ClaimRefused, vars
<1>9. ASSUME NEW w \in Workers, NEW t \in Sampled, HoldSlot(w, t)
      PROVE  DeskTypeOK'
  <2>1. now' = now /\ UNCHANGED <<tickets, nonces, passes>>
    BY <1>9 DEF HoldSlot, Hold
  <2>2. CASE work' = [work EXCEPT ![w].step = "held", ![w].until = t + AdmittedTtl]
    <3> DEFINE x == [work[w] EXCEPT !.step = "held", !.until = t + AdmittedTtl]
    <3>1. t + AdmittedTtl \in Nat
      BY ReadingsArePast, ClockAssumption DEF TypeOK
    <3>2. WorkOK(x, tickets)
      BY <1>0, <1>9, <3>1 DEF HoldSlot, At, WorkOK, Work, Steps
    <3>3. work' = [work EXCEPT ![w] = x]
      BY <1>0, <2>2
    <3> QED BY <1>1, <2>1, <3>2, <3>3, WorkStep
  <2>3. CASE Finish(w)
    BY <1>1, <1>2, <2>1, <2>3
  <2> QED BY <1>9, <2>2, <2>3 DEF HoldSlot
<1>10. ASSUME NEW w \in Workers, IssuePass(w)
       PROVE  DeskTypeOK'
  <2> DEFINE p == [ticket |-> work[w].ticket, sid |-> work[w].sid,
                   exp |-> Sec(now) + AdmittedTtl, until |-> work[w].until]
  <2>1. WorkKept
    BY <1>2, <1>10 DEF IssuePass
  <2>2. /\ work[w].ticket \in Nat /\ work[w].until \in Nat
        /\ work[w].ticket \in DOMAIN tickets /\ work[w].sid = tickets[work[w].ticket].sid
    BY <1>0, <1>10 DEF IssuePass, At, WorkOK, Work
  <2>3. Sec(now) + AdmittedTtl \in Nat
    BY SecondOf, ClockAssumption DEF TypeOK
  <2>4. p \in Pass
    BY <2>2, <2>3, TicketTyped DEF Pass
  <2>5. passes' = Append(passes, p) /\ passes \in Seq(Pass)
    BY <1>10 DEF IssuePass, DeskTypeOK
  <2>6. passes' \in Seq(Pass)
    BY <2>4, <2>5
  <2> QED BY <1>10, <2>1, <2>6 DEF IssuePass, DeskTypeOK, WorkOK, vars
<1>11. ASSUME NEW w \in Workers, Fail(w)
       PROVE  DeskTypeOK'
  BY <1>1, <1>2, <1>11 DEF Fail, vars
<1>12. ASSUME Elsewhere
       PROVE  DeskTypeOK'
  <2>1. now' = now
    BY <1>12 DEF Elsewhere, Enqueue, KeepPlace, JoinLine, Position, AdmitBatch, AdmitNobody,
                 AdmitFront, Release, Remove, Reclaim, SetKillSwitch
  <2> QED BY <1>0, <1>1, <1>12, <2>1 DEF Elsewhere, deskVars
<1>13. ASSUME DeskTick
       PROVE  DeskTypeOK'
  <2>1. \A n \in DOMAIN nonces' :
          n \in DOMAIN nonces /\ nonces'[n] = nonces[n] /\ ~(nonces[n] < now')
    BY <1>13 DEF DeskTick, Drop, Restrict
  <2>2. now' \in Nat
    BY <1>0 DEF TypeOK
  <2>3. /\ DOMAIN nonces' \subseteq DOMAIN tickets
        /\ \A n \in DOMAIN nonces' : nonces'[n] \in Nat /\ nonces'[n] >= now'
    BY <2>1, <2>2 DEF DeskTypeOK
  <2> QED BY <1>13, <2>3 DEF DeskTick, DeskTypeOK
<1>14. ASSUME UNCHANGED <<vars, deskVars>>
       PROVE  DeskTypeOK'
  BY <1>0, <1>1, <1>14 DEF vars, deskVars
<1>15. ASSUME NEW w \in Workers, MintTicket(w)
       PROVE  DeskTypeOK'
  <2>1. work[w].sid \in Sids
    BY <1>15 DEF MintTicket, At, DeskTypeOK
  <2> QED BY <1>5, <1>15, <2>1 DEF MintTicket
<1>16. ASSUME NEW w \in Workers, NEW s \in Sids, MintOpenTicket(w, s)
       PROVE  DeskTypeOK'
  BY <1>5, <1>16 DEF MintOpenTicket
<1> QED BY <1>3, <1>4, <1>6, <1>7, <1>8, <1>9, <1>10, <1>11, <1>12, <1>13, <1>14, <1>15, <1>16
        DEF DeskNext, TryAdmit, Redeem

\* The desk runs the store and nothing but the store: every behaviour of the desk
\* is one of RoomStore, so capacity, order and the rest are kept whatever the desk
\* does, fails to do, or does twice.
THEOREM DeskRunsTheStore == DeskSpec => Spec
<1>1. DeskInit => Init /\ TypeOK /\ DeskTypeOK
  BY DeskTypeInit, TypeOKInit DEF DeskInit
<1>2. TypeOK /\ DeskTypeOK /\ [DeskNext]_<<vars, deskVars>> => TypeOK' /\ DeskTypeOK' /\ [Next]_vars
  BY DeskTypeStep, DeskStepIsRoomStep, TypeOKStep
<1> QED BY <1>1, <1>2, PTL DEF DeskSpec, Spec

\* Workers only ever redeem tickets that were minted, and no nonce is stored with
\* a lifetime that is over.
THEOREM DeskTypeCorrect == DeskSpec => []DeskTypeOK
<1>1. DeskInit => TypeOK /\ DeskTypeOK
  BY DeskTypeInit, TypeOKInit DEF DeskInit
<1>2. TypeOK /\ DeskTypeOK /\ [DeskNext]_<<vars, deskVars>> => TypeOK' /\ DeskTypeOK'
  BY DeskTypeStep, DeskStepIsRoomStep, TypeOKStep
<1> QED BY <1>1, <1>2, PTL DEF DeskSpec

\* However much goes on at the desk, no more sessions hold a slot than there are.
THEOREM DeskKeepsCapacity == DeskSpec => []CapacityRespected
BY DeskRunsTheStore, CapacityHolds, PTL

----------------------------------------------------------------------------
(* Single use                                                              *)

\* The ticket n can no longer be claimed.
Gone(n) == n \in DOMAIN nonces \/ now > tickets[n].exp

\* The workers that have claimed a ticket and not yet issued its pass.
Spending == {w \in Workers : work[w].step \in {"spent", "held"}}

\* The inductive invariant: a ticket that is being spent or was spent is gone for
\* good, because its nonce outlives it, and nobody else is spending it.
SingleUse ==
  /\ \A n \in DOMAIN nonces : nonces[n] > tickets[n].exp
  /\ \A w \in Spending : Gone(work[w].ticket)
  /\ \A i \in DOMAIN passes : passes[i].ticket \in DOMAIN tickets /\ Gone(passes[i].ticket)
  /\ \A v, w \in Spending : work[v].ticket = work[w].ticket => v = w
  /\ \A w \in Spending, i \in DOMAIN passes : passes[i].ticket # work[w].ticket
  /\ OnePassPerTicket

\* Tickets are never rewritten, nonces only claimed, or forgotten by the clock.
LEMMA NonceStep ==
  ASSUME TypeOK, DeskTypeOK, [DeskNext]_<<vars, deskVars>>
  PROVE  /\ \A n \in DOMAIN tickets : n \in DOMAIN tickets' /\ tickets'[n] = tickets[n]
         /\ \/ nonces' = nonces /\ now' = now
            \/ DeskTick
            \/ \E w \in Workers, t \in Sampled : Claim(w, t)
<1>1. ASSUME NEW w \in Workers, NEW s \in Sids, TickForTurn(w, s)
      PROVE  nonces' = nonces /\ now' = now /\ tickets' = tickets
  BY <1>1 DEF TickForTurn, AdmitBatch, AdmitNobody, AdmitFront, vars
<1>2. ASSUME NEW w \in Workers,
             \/ LookUp(w) \/ IssuePass(w) \/ Fail(w)
             \/ \E n \in DOMAIN tickets : Verify(w, n)
             \/ \E t \in Sampled : ClaimRefused(w, t) \/ HoldSlot(w, t)
      PROVE  nonces' = nonces /\ now' = now /\ tickets' = tickets
  BY <1>2 DEF LookUp, IssuePass, Fail, Verify, ClaimRefused, HoldSlot, Hold, vars
<1>3. ASSUME NEW w \in Workers, MintTicket(w) \/ \E s \in Sids : MintOpenTicket(w, s)
      PROVE  /\ nonces' = nonces /\ now' = now
             /\ \A n \in DOMAIN tickets : n \in DOMAIN tickets' /\ tickets'[n] = tickets[n]
  <2>1. \E s \in Sids : Mint(s)
    BY <1>3 DEF MintTicket, MintOpenTicket, At, DeskTypeOK
  <2>2. nonces' = nonces /\ now' = now
    BY <1>3 DEF MintTicket, MintOpenTicket, vars
  <2> QED BY <2>1, <2>2, MintStep
<1>4. ASSUME Elsewhere \/ UNCHANGED <<vars, deskVars>>
      PROVE  nonces' = nonces /\ now' = now /\ tickets' = tickets
  BY <1>4 DEF Elsewhere, Enqueue, KeepPlace, JoinLine, Position, AdmitBatch, AdmitNobody,
              AdmitFront, Release, Remove, Reclaim, SetKillSwitch, deskVars, vars
<1>5. ASSUME NEW w \in Workers, NEW t \in Sampled, Claim(w, t)
      PROVE  tickets' = tickets
  BY <1>5 DEF Claim
<1>6. ASSUME DeskTick
      PROVE  tickets' = tickets
  BY <1>6 DEF DeskTick
<1> QED BY <1>1, <1>2, <1>3, <1>4, <1>5, <1>6 DEF DeskNext, TryAdmit, Redeem

\* A nonce outlives its ticket, so a ticket that is gone stays so.
LEMMA GoneForGood ==
  ASSUME TypeOK, DeskTypeOK, SingleUse, [DeskNext]_<<vars, deskVars>>
  PROVE  /\ \A n \in DOMAIN nonces' : nonces'[n] > tickets'[n].exp
         /\ \A n \in DOMAIN tickets : Gone(n) => Gone(n)'
<1>0. /\ \A n \in DOMAIN tickets : n \in DOMAIN tickets' /\ tickets'[n] = tickets[n]
      /\ \A n \in DOMAIN tickets : tickets[n].exp \in Nat
      /\ \A n \in DOMAIN nonces :
           n \in DOMAIN tickets /\ nonces[n] \in Nat /\ nonces[n] > tickets[n].exp
      /\ now \in Nat
  BY NonceStep, TicketTyped DEF DeskTypeOK, SingleUse, TypeOK
<1>1. CASE nonces' = nonces /\ now' = now
  BY <1>0, <1>1 DEF Gone
<1>2. CASE DeskTick
  <2>1. now' = now + 1
    BY <1>2 DEF DeskTick, Tick
  <2>2. /\ \A n \in DOMAIN nonces' : n \in DOMAIN nonces /\ nonces'[n] = nonces[n]
        /\ \A n \in DOMAIN nonces : n \in DOMAIN nonces' \/ nonces[n] < now'
    BY <1>2 DEF DeskTick, Drop, Restrict
  <2> QED BY <1>0, <2>1, <2>2 DEF Gone
<1>3. ASSUME NEW w \in Workers, NEW t \in Sampled, Claim(w, t)
      PROVE  /\ \A n \in DOMAIN nonces' : nonces'[n] > tickets'[n].exp
             /\ \A n \in DOMAIN tickets : Gone(n) => Gone(n)'
  <2> DEFINE m == work[w].ticket
  <2>1. m \in DOMAIN tickets /\ Fresh(m, t) /\ now' = now
    BY <1>3 DEF Claim, At, DeskTypeOK, vars
  <2>2. now + Remembered(m, t) > tickets[m].exp
    BY <2>1, NonceOutlivesTicket
  <2>3. /\ DOMAIN nonces' = DOMAIN nonces \cup {m}
        /\ \A n \in DOMAIN nonces' :
             nonces'[n] = IF n = m THEN now + Remembered(m, t) ELSE nonces[n]
    BY <1>3 DEF Claim, Put
  <2> QED BY <1>0, <2>1, <2>2, <2>3 DEF Gone
<1> QED BY <1>1, <1>2, <1>3, NonceStep

\* All but two kinds of steps issue no pass and claim no ticket.
LEMMA QuietStep ==
  ASSUME DeskTypeOK, [DeskNext]_<<vars, deskVars>>
  PROVE  \/ \E w \in Workers : IssuePass(w) \/ \E t \in Sampled : Claim(w, t)
         \/ /\ passes' = passes
            /\ \A w \in Spending' : w \in Spending /\ work'[w].ticket = work[w].ticket
<1> DEFINE Quiet == /\ passes' = passes
                    /\ \A w \in Spending' : w \in Spending /\ work'[w].ticket = work[w].ticket
<1>0. work \in [Workers -> Work]
  BY DEF DeskTypeOK
<1>1. ASSUME NEW w \in Workers, NEW x, work' = [work EXCEPT ![w] = x],
             x.step \notin {"spent", "held"}, passes' = passes
      PROVE  Quiet
  BY <1>0, <1>1 DEF Spending
<1>2. ASSUME NEW w \in Workers, Finish(w), passes' = passes
      PROVE  Quiet
  BY <1>1, <1>2 DEF Finish, Idle
<1>3. ASSUME NEW w \in Workers, NEW s \in Sids, TickForTurn(w, s)
      PROVE  Quiet
  BY <1>1, <1>3 DEF TickForTurn, Idle
<1>4. ASSUME NEW w \in Workers, LookUp(w)
      PROVE  Quiet
  <2>1. CASE Goto(w, "turn")
    <3> DEFINE x == [work[w] EXCEPT !.step = "turn"]
    <3>1. work' = [work EXCEPT ![w] = x] /\ x.step = "turn"
      BY <1>0, <2>1 DEF Goto, Work
    <3> QED BY <1>1, <1>4, <3>1 DEF LookUp
  <2> QED BY <1>2, <1>4, <2>1 DEF LookUp
<1>5. ASSUME NEW w \in Workers,
             \/ MintTicket(w) \/ Fail(w)
             \/ \E s \in Sids : MintOpenTicket(w, s)
             \/ \E t \in Sampled : ClaimRefused(w, t)
      PROVE  Quiet
  BY <1>2, <1>5 DEF MintTicket, Fail, MintOpenTicket, ClaimRefused
<1>6. ASSUME NEW w \in Workers, NEW n \in DOMAIN tickets, Verify(w, n)
      PROVE  Quiet
  BY <1>1, <1>6 DEF Verify
<1>7. ASSUME NEW w \in Workers, NEW t \in Sampled, HoldSlot(w, t)
      PROVE  Quiet
  <2>1. CASE work' = [work EXCEPT ![w].step = "held", ![w].until = t + AdmittedTtl]
    BY <1>0, <1>7, <2>1 DEF HoldSlot, At, Spending, Work
  <2> QED BY <1>2, <1>7, <2>1 DEF HoldSlot
<1>8. ASSUME Elsewhere \/ DeskTick \/ UNCHANGED <<vars, deskVars>>
      PROVE  Quiet
  BY <1>8 DEF Elsewhere, DeskTick, deskVars, Spending
<1> QED BY <1>3, <1>4, <1>5, <1>6, <1>7, <1>8 DEF DeskNext, TryAdmit, Redeem

LEMMA SingleUseStep ==
  ASSUME MaxLag = 0, TypeOK, DeskTypeOK, SingleUse, [DeskNext]_<<vars, deskVars>>
  PROVE  SingleUse'
<1>0. /\ \A n \in DOMAIN nonces' : nonces'[n] > tickets'[n].exp
      /\ \A n \in DOMAIN tickets : Gone(n) => Gone(n)'
      /\ \A n \in DOMAIN tickets : n \in DOMAIN tickets' /\ tickets'[n] = tickets[n]
      /\ \A w \in Spending : work[w].ticket \in DOMAIN tickets
  BY GoneForGood, NonceStep DEF DeskTypeOK, Spending
<1>1. ASSUME NEW w \in Workers, IssuePass(w)
      PROVE  SingleUse'
  <2> DEFINE k == Len(passes) + 1
  <2>1. /\ Spending' = Spending \ {w} /\ w \in Spending
        /\ \A v \in Spending' : work'[v] = work[v]
    BY <1>1 DEF IssuePass, Finish, At, Idle, Spending, DeskTypeOK
  <2>2. /\ DOMAIN passes' = DOMAIN passes \cup {k} /\ k \notin DOMAIN passes
        /\ \A i \in DOMAIN passes : passes'[i] = passes[i]
        /\ passes'[k].ticket = work[w].ticket
    BY <1>1 DEF IssuePass, DeskTypeOK
  <2> QED BY <1>0, <2>1, <2>2 DEF SingleUse, OnePassPerTicket
<1>2. ASSUME NEW w \in Workers, NEW t \in Sampled, Claim(w, t)
      PROVE  SingleUse'
  <2> DEFINE n == work[w].ticket
  <2>1. t = now
    BY MaxOfTwo DEF Sampled, TypeOK
  <2>2. n \in DOMAIN tickets /\ ~Gone(n)
    BY <1>2, <2>1, TicketTyped DEF Claim, At, Fresh, Gone, DeskTypeOK, TypeOK
  <2>3. /\ \A v \in Spending : work[v].ticket # n
        /\ \A i \in DOMAIN passes : passes[i].ticket # n
    BY <2>2 DEF SingleUse
  <2>4. /\ passes' = passes /\ n \in DOMAIN nonces'
        /\ Spending' = Spending \cup {w} /\ work'[w].ticket = n
        /\ \A v \in Workers \ {w} : work'[v] = work[v]
    BY <1>2 DEF Claim, Goto, At, Spending, DeskTypeOK, Work, Put
  <2>5. Gone(n)'
    BY <2>4 DEF Gone
  <2> QED BY <1>0, <2>2, <2>3, <2>4, <2>5 DEF SingleUse, OnePassPerTicket, Spending
<1>3. CASE /\ passes' = passes
           /\ \A w \in Spending' : w \in Spending /\ work'[w].ticket = work[w].ticket
  BY <1>0, <1>3 DEF SingleUse, OnePassPerTicket
<1> QED BY <1>1, <1>2, <1>3, QuietStep

\* Single use, for any number of workers, tickets and retries, when a clock reading
\* is used before the clock moves on (run desk_spent_twice shows that it must be).
THEOREM OneTicketOnePass ==
  ASSUME MaxLag = 0
  PROVE  DeskSpec => []OnePassPerTicket
<1>1. DeskInit => TypeOK /\ DeskTypeOK /\ SingleUse
  <2>1. DeskInit => SingleUse
    BY DEF DeskInit, SingleUse, OnePassPerTicket, Spending, Idle, Empty
  <2> QED BY <2>1, DeskTypeInit, TypeOKInit DEF DeskInit
<1>2. TypeOK /\ DeskTypeOK /\ SingleUse /\ [DeskNext]_<<vars, deskVars>>
      => TypeOK' /\ DeskTypeOK' /\ SingleUse'
  BY DeskTypeStep, DeskStepIsRoomStep, TypeOKStep, SingleUseStep
<1>3. SingleUse => OnePassPerTicket
  BY DEF SingleUse
<1> QED BY <1>1, <1>2, <1>3, PTL DEF DeskSpec

----------------------------------------------------------------------------
(* The promised slot                                                       *)

\* No promise reaches further than a deadline computed now would.
Promises ==
  /\ \A i \in DOMAIN passes : passes[i].until <= now + AdmittedTtl
  /\ \A w \in Workers : At(w, "held") => work[w].until <= now + AdmittedTtl

\* A worker comes to hold a slot by hold_admission only.
LEMMA HeldStep ==
  ASSUME DeskTypeOK, [DeskNext]_<<vars, deskVars>>, NEW w \in Workers, At(w, "held")'
  PROVE  \/ At(w, "held") /\ work'[w].until = work[w].until
         \/ \E t \in Sampled : work'[w].until = t + AdmittedTtl
<1>0. work \in [Workers -> Work]
  BY DEF DeskTypeOK
<1>1. ASSUME NEW v \in Workers, NEW x, work' = [work EXCEPT ![v] = x], x.step # "held"
      PROVE  v # w /\ work'[w] = work[w]
  BY <1>0, <1>1 DEF At
<1>2. ASSUME NEW v \in Workers, Finish(v)
      PROVE  work'[w] = work[w]
  BY <1>0, <1>2 DEF Finish, Idle, At
<1>3. ASSUME NEW v \in Workers, NEW step \in Steps \ {"held"}, Goto(v, step)
      PROVE  work'[w] = work[w]
  <2> DEFINE x == [work[v] EXCEPT !.step = step]
  <2>1. work' = [work EXCEPT ![v] = x] /\ x.step = step
    BY <1>0, <1>3 DEF Goto, Work
  <2> QED BY <1>1, <1>3, <2>1
<1>4. ASSUME NEW v \in Workers,
             \/ \E s \in Sids : TickForTurn(v, s) \/ MintOpenTicket(v, s)
             \/ LookUp(v) \/ MintTicket(v) \/ IssuePass(v) \/ Fail(v)
             \/ \E n \in DOMAIN tickets : Verify(v, n)
             \/ \E t \in Sampled : Claim(v, t) \/ ClaimRefused(v, t)
      PROVE  work'[w] = work[w]
  <2>1. CASE Finish(v)
    BY <1>2, <2>1
  <2>2. CASE Goto(v, "turn") \/ Goto(v, "spent")
    BY <1>3, <2>2 DEF Steps
  <2>3. ASSUME NEW s \in Sids, TickForTurn(v, s)
        PROVE  work'[w] = work[w]
    BY <1>0, <2>3 DEF TickForTurn, Idle, At
  <2>4. ASSUME NEW n \in DOMAIN tickets, Verify(v, n)
        PROVE  work'[w] = work[w]
    BY <1>0, <2>4 DEF Verify, At
  <2> QED BY <1>4, <2>1, <2>2, <2>3, <2>4
          DEF MintOpenTicket, LookUp, MintTicket, IssuePass, Fail, Claim, ClaimRefused
<1>5. ASSUME NEW v \in Workers, NEW t \in Sampled, HoldSlot(v, t)
      PROVE  \/ work'[w] = work[w]
             \/ work'[w].until = t + AdmittedTtl
  <2>1. CASE work' = [work EXCEPT ![v].step = "held", ![v].until = t + AdmittedTtl]
    BY <1>0, <2>1 DEF Work
  <2> QED BY <1>2, <1>5, <2>1 DEF HoldSlot
<1>6. ASSUME Elsewhere \/ DeskTick \/ UNCHANGED <<vars, deskVars>>
      PROVE  work' = work
  BY <1>6 DEF Elsewhere, DeskTick, deskVars
<1>7. (work'[w] = work[w]) => At(w, "held") /\ work'[w].until = work[w].until
  BY DEF At
<1> QED BY <1>4, <1>5, <1>6, <1>7 DEF DeskNext, TryAdmit, Redeem

\* Passes are never rewritten, and a new one carries its worker's promise.
LEMMA PassStep ==
  ASSUME DeskTypeOK, [DeskNext]_<<vars, deskVars>>
  PROVE  /\ \A i \in DOMAIN passes : i \in DOMAIN passes' /\ passes'[i] = passes[i]
         /\ \A i \in DOMAIN passes' \ DOMAIN passes :
              \E w \in Workers : At(w, "held") /\ passes'[i].until = work[w].until
<1>1. ASSUME NEW w \in Workers, IssuePass(w)
      PROVE  /\ \A i \in DOMAIN passes : i \in DOMAIN passes' /\ passes'[i] = passes[i]
             /\ \A i \in DOMAIN passes' \ DOMAIN passes :
                  At(w, "held") /\ passes'[i].until = work[w].until
  BY <1>1 DEF IssuePass, DeskTypeOK
<1>2. ASSUME NEW w \in Workers, NEW t \in Sampled, Claim(w, t)
      PROVE  passes' = passes
  BY <1>2 DEF Claim
<1> QED BY <1>1, <1>2, QuietStep

LEMMA PromisesStep ==
  ASSUME TypeOK, DeskTypeOK, Promises, [DeskNext]_<<vars, deskVars>>
  PROVE  Promises'
<1>1. now \in Nat /\ (now' = now \/ now' = now + 1)
  BY NonceStep DEF DeskTick, Tick, Claim, TypeOK, vars
<1>2. ASSUME NEW u \in Nat, u <= now + AdmittedTtl
      PROVE  u <= now' + AdmittedTtl
  <2>1. AdmittedTtl \in Nat
    BY ClockAssumption
  <2> QED BY <1>1, <1>2, <2>1
<1>3. /\ \A w \in Workers : work[w].until \in Nat
      /\ \A i \in DOMAIN passes : passes[i].until \in Nat
  <2>1. passes \in Seq(Pass)
    BY DEF DeskTypeOK
  <2>2. \A i \in DOMAIN passes : passes[i] \in Pass
    BY <2>1
  <2> QED BY <2>2 DEF DeskTypeOK, Work, Pass
<1>4. ASSUME NEW i \in DOMAIN passes'
      PROVE  passes'[i].until <= now' + AdmittedTtl
  BY <1>2, <1>3, PassStep DEF Promises
<1>5. ASSUME NEW w \in Workers, At(w, "held")'
      PROVE  work'[w].until <= now' + AdmittedTtl
  <2>1. ASSUME NEW t \in Sampled
        PROVE  t + AdmittedTtl \in Nat /\ t + AdmittedTtl <= now + AdmittedTtl
    BY <1>1, ReadingsArePast, ClockAssumption
  <2> QED BY <1>2, <1>3, <1>5, <2>1, HeldStep DEF Promises
<1> QED BY <1>4, <1>5 DEF Promises

\* In the store: nobody but release shortens a slot below a deadline that is still
\* to come and no later than one computed now.
LEMMA SlotNotShortened ==
  ASSUME MaxLag = 0, TypeOK, [Next]_vars,
         NEW u \in Nat, now < u, u <= now + AdmittedTtl,
         NEW s \in DOMAIN admitted \ DOMAIN queue, admitted[s] >= u, ~Release(s)
  PROVE  s \in DOMAIN admitted' /\ admitted'[s] >= u
<1>1. ASSUME NEW t \in Sampled
      PROVE  t = now /\ s \notin UpTo(admitted, t)
  <2>1. t = now
    BY MaxOfTwo DEF Sampled, TypeOK
  <2> QED BY <2>1 DEF UpTo, TypeOK
<1>2. ASSUME NEW maxN, NEW t \in Sampled, AdmitFront(maxN, t) \/ AdmitNobody(t)
      PROVE  s \in DOMAIN admitted' /\ admitted'[s] = admitted[s]
  BY <1>1, <1>2 DEF AdmitFront, AdmitNobody, HeldAfter, Front, Put, Drop, Restrict
<1>3. ASSUME NEW c, NEW t \in Sampled, Reclaim(c, t)
      PROVE  s \in DOMAIN admitted' /\ admitted'[s] = admitted[s]
  BY <1>1, <1>3 DEF Reclaim, Drop, Restrict
<1>4. ASSUME NEW x \in Sids, NEW t \in Sampled, Hold(x, t)
      PROVE  s \in DOMAIN admitted' /\ (admitted'[s] = admitted[s] \/ admitted'[s] = now + AdmittedTtl)
  BY <1>1, <1>4 DEF Hold, Extended, Put
<1>5. ASSUME NEW x \in Sids, Release(x)
      PROVE  s \in DOMAIN admitted' /\ admitted'[s] = admitted[s]
  BY <1>5 DEF Release, Drop, Restrict
<1>6. ASSUME \/ \E c \in Clients, x \in Sids : Enqueue(c, x)
             \/ \E x \in Sids, t \in Sampled : Position(x, t)
             \/ \E x \in Sids : Remove(x)
             \/ \E engaged \in BOOLEAN : SetKillSwitch(engaged)
             \/ Tick
             \/ UNCHANGED vars
      PROVE  admitted' = admitted
  BY <1>6 DEF Enqueue, KeepPlace, JoinLine, Position, Remove, SetKillSwitch, Tick, vars
<1> QED BY <1>2, <1>3, <1>4, <1>5, <1>6 DEF Next, AdmitBatch

\* What was promised with a pass is kept, whoever redeems, ticks or reclaims.
THEOREM PromisesAreKept ==
  ASSUME MaxLag = 0
  PROVE  DeskSpec => PromisedSlotKept
<1> DEFINE Kept ==
      \A i \in DOMAIN passes :
        Covered(passes[i]) /\ ~Covered(passes[i])' =>
          \/ passes[i].until <= now
          \/ Release(passes[i].sid)
          \/ passes[i].sid \in DOMAIN queue
<1>1. DeskInit => TypeOK /\ DeskTypeOK /\ Promises
  <2>1. DeskInit => Promises
    BY DEF DeskInit, Promises, Idle, At
  <2> QED BY <2>1, DeskTypeInit, TypeOKInit DEF DeskInit
<1>2. TypeOK /\ DeskTypeOK /\ Promises /\ [DeskNext]_<<vars, deskVars>>
      => TypeOK' /\ DeskTypeOK' /\ Promises'
  BY DeskTypeStep, DeskStepIsRoomStep, TypeOKStep, PromisesStep
<1>3. TypeOK /\ DeskTypeOK /\ Promises /\ [DeskNext]_<<vars, deskVars>> => Kept
  <2> SUFFICES ASSUME TypeOK, DeskTypeOK, Promises, [DeskNext]_<<vars, deskVars>>,
                      NEW i \in DOMAIN passes, Covered(passes[i]),
                      ~(passes[i].until <= now), ~Release(passes[i].sid),
                      passes[i].sid \notin DOMAIN queue
               PROVE  Covered(passes[i])'
    OBVIOUS
  <2>1. passes[i].until \in Nat /\ now \in Nat
    <3>1. passes \in Seq(Pass)
      BY DEF DeskTypeOK
    <3>2. passes[i] \in Pass
      BY <3>1
    <3> QED BY <3>2 DEF Pass, TypeOK
  <2>2. passes'[i] = passes[i] /\ [Next]_vars
    BY PassStep, DeskStepIsRoomStep
  <2>3. passes[i].sid \in DOMAIN admitted' /\ admitted'[passes[i].sid] >= passes[i].until
    BY <2>1, <2>2, SlotNotShortened DEF Covered, Promises
  <2> QED BY <2>2, <2>3 DEF Covered
<1> QED BY <1>1, <1>2, <1>3, PTL DEF DeskSpec, PromisedSlotKept

============================================================================
