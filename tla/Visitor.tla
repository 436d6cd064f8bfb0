------------------------------ MODULE Visitor ------------------------------
(***************************************************************************)
(* Browsers in front of the room: the gate (adapters/django/_gate.py), the *)
(* views, and the waiting page's script with its timers and cookies.  A    *)
(* request is a sequence of backend calls, as in TicketDesk; here what     *)
(* matters is what the page does with the answers, and whether it gets in. *)
(*                                                                         *)
(* Time runs for ever, so it is counted from the present: `now` stays 0    *)
(* and Age makes everything one tick older.  A tick is the longest pause   *)
(* between two polls of an open page.                                      *)
(***************************************************************************)
EXTENDS RoomStore, Strategies

CONSTANTS
  Pages,      \* browser tabs
  BrowserOf,  \* whose tab it is, a function from Pages to Clients
  FailOpen,   \* failure_mode is FAIL_OPEN
  Injected,   \* the strategy the engines were given, "none" or "capacity_aware"
  TicketTtl,  \* token_ttl_seconds, in ticks
  MaxFaults,  \* bound on failed calls, lost answers and closings of the room
  MaxVisits   \* bound on how often visitors open or reload the protected page

ASSUME VisitorAssumption ==
  /\ BrowserOf \in [Pages -> Clients]
  /\ FailOpen \in BOOLEAN
  /\ Injected \in {"none", "capacity_aware"}
  /\ TicketTtl \in Nat \ {0}
  /\ MaxFaults \in Nat
  /\ MaxVisits \in Nat

VARIABLES
  page,    \* what each tab shows, or the step its request is at
  jar,     \* the cookies of each browser
  recent,  \* an engine has run a poll tick in this instant
  faults,  \* failures and closings so far
  visits   \* how often visitors have opened the protected page

pageVars == <<page, jar, recent, faults, visits>>

\* A cookie is there or not; exp is the time it has left.  `spent` says of a
\* ticket that its nonce is used, of a pass that its slot was given back.
Cookie == [sid : Sids, exp : Nat \ {0}, spent : BOOLEAN]
Jar == [{"session", "ticket", "pass"} -> SUBSET Cookie]

\* A tab at rest:     inside (the protected page), away (closed, or a page without
\*                    a script: room closed, unavailable, an error)
\* The waiting page:  poll, admit - a timer runs; look, ask - its request is
\*                    between the admission tick and the answer
\* The gate:          gate, hold, join; issue - the slot is held, the pass not yet
\*                    stamped; arrive - the waiting page is being loaded
Rests == {"away", "inside"}
Waits == {"poll", "look", "admit", "ask"}
Enters == {"gate", "hold", "issue", "join", "arrive"}

\* `due`: it is time for the tab's next move.  `placed`: it shows a place in line.
Page == [at : Rests \cup Waits \cup Enters, sid : Nat, due : BOOLEAN, placed : BOOLEAN]
NoPage == [at |-> "away", sid |-> 0, due |-> TRUE, placed |-> FALSE]

VisitorInit ==
  /\ Init
  /\ page = [p \in Pages |-> NoPage]
  /\ jar = [c \in Clients |-> [kind \in {"session", "ticket", "pass"} |-> {}]]
  /\ recent = FALSE
  /\ faults = 0
  /\ visits = 0

At(p, step) == page[p].at = step
Sid(p) == page[p].sid
Cookies(p, kind) == jar[BrowserOf[p]][kind]

\* The next step follows at once, or when the clock has moved on.
Goto(p, step) == page' = [page EXCEPT ![p].at = step, ![p].due = TRUE]
Rest(p, step) == page' = [page EXCEPT ![p].at = step, ![p].due = FALSE]
Settle(p, step) == page' = [page EXCEPT ![p] = [NoPage EXCEPT !.at = step, !.due = FALSE]]
Leave(p) == page' = [page EXCEPT ![p] = [NoPage EXCEPT !.at = "gate"]]

Baked(s, ttl) == {[sid |-> s, exp |-> ttl, spent |-> FALSE]}
\* wrong: set for the path of the request, beside the one of another path
\* (VisitorTypeOK)
SetCookieBeside(p, kind, cookies) == jar' = [jar EXCEPT ![BrowserOf[p]][kind] = @ \cup cookies]

SetCookie(p, kind, cookies) == jar' = [jar EXCEPT ![BrowserOf[p]][kind] = cookies]

----------------------------------------------------------------------------
(* The gate                                                                *)

\* The protected page is asked for: a valid pass opens it; else the ticket's nonce
\* is claimed; else the visitor goes to the line.
Gate(p) ==
  /\ At(p, "gate")
  /\ \/ /\ Cookies(p, "pass") # {}
        /\ Settle(p, "inside")
        /\ UNCHANGED jar
     \/ /\ Cookies(p, "pass") = {}
        /\ \E k \in Cookies(p, "ticket") :
             /\ ~k.spent
             /\ SetCookie(p, "ticket", {[k EXCEPT !.spent = TRUE]})
             /\ page' = [page EXCEPT ![p].at = "hold", ![p].sid = k.sid]
     \/ /\ Cookies(p, "pass") = {}
        /\ \A k \in Cookies(p, "ticket") : k.spent
        /\ Goto(p, "join")
        /\ UNCHANGED jar
  /\ UNCHANGED <<vars, recent, faults, visits>>

\* wrong: the answer "lapsed" is not looked at (PassHasSlot)
HoldSlotUnchecked(p) ==
  /\ At(p, "hold")
  /\ Hold(Sid(p), now)
  /\ Rest(p, "issue")
  /\ UNCHANGED <<jar, recent, faults, visits>>

\* redeem goes on: the slot is held, or its admission has lapsed (two deadlines set
\* in one tick still differ by milliseconds: ZADD CH sees a change).
HoldSlot(p) ==
  /\ At(p, "hold")
  /\ Hold(Sid(p), now)
  /\ \/ Sid(p) \in DOMAIN admitted /\ Rest(p, "issue")
     \/ Sid(p) \notin DOMAIN admitted /\ Goto(p, "join")
  /\ UNCHANGED <<jar, recent, faults, visits>>

\* What a pass has left when it is stamped: the signer's second has begun a moment
\* ago, and that may have been in the tick before.
PassLeft == {AdmittedTtl, AdmittedTtl - 1} \ {0}

\* The answer to a redeemed ticket.
LetIn(p, left) ==
  /\ jar' = [jar EXCEPT ![BrowserOf[p]].pass = Baked(Sid(p), left),
                        ![BrowserOf[p]].ticket = {}]
  /\ Settle(p, "inside")

\* The pass gets a clock reading of its own, which may be one tick later than the
\* slot's: Age does not wait for this step before it has passed it once.
Issue(p) ==
  /\ At(p, "issue")
  /\ \E left \in PassLeft : LetIn(p, left)
  /\ UNCHANGED <<vars, recent, faults, visits>>

\* Ids nobody knows; a new session draws one.
Unused ==
  Sids \ (DOMAIN queue \cup DOMAIN hash \cup DOMAIN admitted \cup {page[p].sid : p \in Pages}
          \cup {k.sid : k \in UNION {jar[c][kind] : c \in Clients,
                                                    kind \in {"session", "ticket", "pass"}}})

\* The session id the browser brings, or a new one (any: here the smallest).
Candidates(p) ==
  IF Cookies(p, "session") # {} THEN {k.sid : k \in Cookies(p, "session")}
  ELSE {s \in Unused : \A r \in Unused : s <= r}

\* enqueue answers that the session is still admitted, or puts it in line.
Queue(p, s) ==
  \/ Enqueue(BrowserOf[p], s)
  \/ ~Refused /\ s \in DOMAIN hash \cap DOMAIN admitted /\ UNCHANGED vars

Join(p) ==
  /\ At(p, "join")
  /\ \E s \in Candidates(p) :
       /\ Queue(p, s)
       /\ SetCookie(p, "session", Baked(s, QueuedTtl))
       /\ page' = [page EXCEPT ![p].at = "arrive", ![p].sid = s]
  /\ UNCHANGED <<recent, faults, visits>>

TurnedAway(p) ==
  /\ At(p, "join")
  /\ Refused
  /\ Settle(p, "away")
  /\ UNCHANGED <<vars, jar, recent, faults, visits>>

\* The engine's position: a poll of whoever is in line.
Seen(s) == Position(s, now) \/ (s \notin DOMAIN queue /\ UNCHANGED vars)

\* waiting_page, whose script polls at once.
Arrive(p) ==
  /\ At(p, "arrive")
  /\ Seen(Sid(p))
  /\ page' = [page EXCEPT ![p].at = "poll", ![p].placed = Sid(p) \in DOMAIN queue]
  /\ UNCHANGED <<jar, recent, faults, visits>>

----------------------------------------------------------------------------
(* The waiting page                                                        *)

\* How many a tick asks the store for: _MAX_BATCH, or fewer if the strategy says so.
Asked ==
  IF Injected = "none"
  THEN MaxBatch
  ELSE Min({MaxBatch, CapacityAwareSlots(Cardinality(DOMAIN queue),
                                         Cardinality(DOMAIN admitted), Capacity)})

\* With nothing to ask for, the store is not called at all.
AdmissionTick == IF Asked > 0 THEN AdmitBatch(Asked, now) ELSE UNCHANGED vars

\* status_payload ticks, unless this engine has done so a moment ago.
Poll(p) ==
  /\ At(p, "poll") /\ page[p].due
  /\ AdmissionTick \/ (recent /\ UNCHANGED vars)
  /\ recent' = TRUE
  /\ Goto(p, "look")
  /\ UNCHANGED <<jar, faults, visits>>

\* wrong: the position -1 is not looked at (VisitorGetsIn)
MustLeaveClosed(p) == killswitch

\* The room is closed, or the session is neither in line nor holds a slot.
MustLeave(p) == killswitch \/ Sid(p) \notin DOMAIN queue \cup DOMAIN admitted

Ready(p) == Sid(p) \in DOMAIN admitted \ DOMAIN queue

\* ... and answers with the place; the script leaves, claims its turn, or waits.
Look(p) ==
  /\ At(p, "look")
  /\ Seen(Sid(p))
  /\ \/ MustLeave(p) /\ Leave(p)
     \/ ~MustLeave(p) /\ Ready(p) /\ Goto(p, "admit")
     \/ /\ ~MustLeave(p) /\ ~Ready(p)
        /\ page' = [page EXCEPT ![p].at = "poll", ![p].due = FALSE, ![p].placed = TRUE]
  /\ UNCHANGED <<jar, recent, faults, visits>>

\* The session cookie must be the page's own.
Owned(p) == \E k \in Cookies(p, "session") : k.sid = Sid(p)

\* admit_callback: try_admit ticks first.
Admit(p) ==
  /\ At(p, "admit") /\ page[p].due
  /\ Owned(p)
  /\ AdmissionTick
  /\ Goto(p, "ask")
  /\ UNCHANGED <<jar, recent, faults, visits>>

\* 403: session does not belong to this browser.
AdmitForbidden(p) ==
  /\ At(p, "admit") /\ page[p].due
  /\ ~Owned(p)
  /\ Leave(p)
  /\ UNCHANGED <<vars, jar, recent, faults, visits>>

\* ... then looks at the session: unknown, admitted, or not yet.
Ask(p) ==
  /\ At(p, "ask")
  /\ \/ /\ Sid(p) \notin DOMAIN hash
        /\ Leave(p)
        /\ UNCHANGED jar
     \/ /\ Sid(p) \in DOMAIN hash /\ hash[Sid(p)].state = "admitted"
        /\ SetCookie(p, "ticket", Baked(Sid(p), TicketTtl))
        /\ Leave(p)
     \/ /\ Sid(p) \in DOMAIN hash /\ hash[Sid(p)].state # "admitted"
        /\ Rest(p, "poll")
        /\ UNCHANGED jar
  /\ UNCHANGED <<vars, recent, faults, visits>>

----------------------------------------------------------------------------
(* Visitors, failures, time                                                *)

\* The visitor opens or reloads the protected page.
Visit(p) ==
  /\ page[p].at \in Rests /\ page[p].due
  /\ visits < MaxVisits /\ visits' = visits + 1
  /\ Leave(p)
  /\ UNCHANGED <<vars, jar, recent, faults>>

CloseTab(p) ==
  /\ page[p].at \in {"poll", "admit"} /\ ~page[p].due
  /\ Settle(p, "away")
  /\ UNCHANGED <<vars, jar, recent, faults, visits>>

\* release_admission, at the end of the protected flow.
FinishUse(p) ==
  /\ At(p, "inside")
  /\ \E k \in Cookies(p, "pass") :
       \/ /\ Release(k.sid) \/ (k.sid \notin DOMAIN admitted /\ UNCHANGED vars)
          /\ \/ SetCookie(p, "pass", {}) /\ UNCHANGED faults
             \/ \* the answer that deletes the cookie is lost
                /\ faults < MaxFaults /\ faults' = faults + 1
                /\ SetCookie(p, "pass", {[k EXCEPT !.spent = TRUE]})
       \/ \* the call fails: the cookie is deleted, the slot stays taken
          /\ faults < MaxFaults /\ faults' = faults + 1
          /\ SetCookie(p, "pass", {})
          /\ UNCHANGED vars
  /\ Settle(p, "away")
  /\ UNCHANGED <<recent, visits>>

\* wrong: r.status is not looked at, an error page's text is (TurnIsKept)
AdmitFailedLeave(p) == Leave(p)

AdmitFailed(p) == Rest(p, "admit")

\* A backend call that did not happen, or whose answer nobody got: what the views
\* and the script make of it.
Failed(p) ==
  \/ page[p].at \in {"poll", "look"} /\ Rest(p, "poll") /\ UNCHANGED jar
  \/ At(p, "poll") /\ Goto(p, "look") /\ UNCHANGED jar
  \/ page[p].at \in {"admit", "ask"} /\ AdmitFailed(p) /\ UNCHANGED jar
  \/ page[p].at \in Enters /\ Settle(p, "away") /\ UNCHANGED jar
  \/ /\ page[p].at \in {"gate", "hold"} /\ Cookies(p, "pass") = {}
     /\ IF FailOpen THEN Settle(p, "inside") ELSE Goto(p, "join")
     /\ UNCHANGED jar
  \/ FailOpen /\ At(p, "join") /\ Settle(p, "inside") /\ UNCHANGED jar
  \/ FailOpen /\ At(p, "arrive") /\ Goto(p, "poll") /\ UNCHANGED jar
  \/ FailOpen /\ At(p, "look") /\ Goto(p, "admit") /\ UNCHANGED jar
  \/ /\ FailOpen /\ page[p].at \in {"admit", "ask"} /\ page[p].due /\ Owned(p)
     /\ SetCookie(p, "ticket", Baked(Sid(p), TicketTtl))
     /\ Leave(p)

Fail(p) ==
  /\ faults < MaxFaults /\ faults' = faults + 1
  /\ page[p].at \in Waits \cup Enters /\ (page[p].due \/ At(p, "issue"))
  /\ \/ UNCHANGED vars
     \/ At(p, "hold") /\ Hold(Sid(p), now)
     \/ At(p, "join") /\ \E s \in Candidates(p) : Queue(p, s)
  /\ Failed(p)
  /\ UNCHANGED <<recent, visits>>

\* The periodic reclaim, and the operator, who closes the room and opens it again.
Operate ==
  /\ \/ Reclaim(now, now) /\ UNCHANGED faults
     \/ ~killswitch /\ SetKillSwitch(TRUE) /\ faults < MaxFaults /\ faults' = faults + 1
     \/ killswitch /\ SetKillSwitch(FALSE) /\ UNCHANGED faults
  /\ UNCHANGED <<page, jar, recent, visits>>

\* A bucket that is a tick older: the refill each reader would work out for itself is
\* put in, and the key is gone once its TTL has run out.
OlderBucket ==
  IF bucket = NoBucket \/ bucket.exp <= now
  THEN NoBucket
  ELSE [tokens |-> Min({BucketSize, bucket.tokens + Rate}), ts |-> now, exp |-> bucket.exp - 1]

\* Everything is a tick older, seen from the new present.  Requests are answered and
\* timers fire within a tick; a redemption may take one tick more.
Older(cookies) == {[k EXCEPT !.exp = @ - 1] : k \in {j \in cookies : j.exp > 1}}

Age ==
  /\ \A p \in Pages : page[p].at \in Rests \/ ~page[p].due
  /\ queue' = [s \in DOMAIN queue |-> ZRank(queue, s) - Cardinality(DOMAIN queue)]
  /\ seen' = [s \in DOMAIN seen |-> Max({seen[s] - 1, -QueuedTtl})]
  /\ hash' = [s \in {r \in DOMAIN hash : hash[r].exp > now} |-> [hash[s] EXCEPT !.exp = @ - 1]]
  /\ admitted' = [s \in DOMAIN admitted |-> Max({admitted[s] - 1, 0})]
  /\ jar' = [c \in Clients |-> [kind \in DOMAIN jar[c] |-> Older(jar[c][kind])]]
  /\ page' = [p \in Pages |-> [page[p] EXCEPT !.due = TRUE]]
  /\ bucket' = OlderBucket
  /\ recent' = FALSE
  /\ UNCHANGED <<now, killswitch, faults, visits>>

\* What the servers and the page's script do by themselves.
Proceed(p) ==
  \/ Gate(p) \/ HoldSlot(p) \/ Issue(p) \/ Join(p) \/ TurnedAway(p) \/ Arrive(p)
  \/ Poll(p) \/ Look(p) \/ Admit(p) \/ AdmitForbidden(p) \/ Ask(p)

VisitorNext ==
  \/ \E p \in Pages : Proceed(p) \/ Visit(p) \/ CloseTab(p) \/ FinishUse(p) \/ Fail(p)
  \/ Operate
  \/ Age

\* Requests are answered and timers fire; nothing is asked of visitors.
VisitorSpec ==
  /\ VisitorInit
  /\ [][VisitorNext]_<<vars, pageVars>>
  /\ \A p \in Pages : WF_<<vars, pageVars>>(Proceed(p))
  /\ WF_<<vars, pageVars>>(Age)

----------------------------------------------------------------------------
(* Properties                                                              *)

\* Type invariant: whoever waits has a session, and a browser has one cookie of a kind.
VisitorTypeOK ==
  /\ page \in [Pages -> Page]
  /\ \A p \in Pages :
       page[p].at \in Waits \cup {"hold", "issue", "arrive"} => page[p].sid \in Sids
  /\ jar \in [Clients -> Jar]
  /\ \A c \in Clients : \A kind \in DOMAIN jar[c] : Cardinality(jar[c][kind]) <= 1
  /\ faults \in 0..MaxFaults
  /\ visits \in 0..MaxVisits

\* Whoever the gate lets in on a pass, without asking Redis, has a slot until the
\* last tick of the pass.  In that one the slot may have lapsed, for its deadline was
\* read before the pass's was (engine.py 332 and 335); and it is gone when the slot was
\* given back and the answer that deletes the cookie got lost (_gate.py 91-98, 174-194).
\* A browser with several tabs, or a room of several slots whose grace is shorter than
\* its passes, can do worse (see VisitorProofs).
PassHasSlot ==
  \A c \in Clients : \A k \in jar[c].pass :
    \/ k.spent \/ k.exp = 1
    \/ k.sid \in DOMAIN admitted /\ admitted[k.sid] >= k.exp - 1

\* This step sends the page away from its place in line, the room being open, and
\* without a ticket.
LosesTurn(p) ==
  /\ page[p].placed /\ page[p].at \in Waits /\ page'[p].at = "gate"
  /\ ~killswitch
  /\ Cookies(p, "ticket")' = {}

\* As long as the browser has its session cookie, a page that shows a place in line
\* loses it neither to the idle reclaim, nor to a TTL, nor because its turn passes
\* while a call fails (waiting.html 62-88, position.lua 25-28).
TurnIsKept == [][\A p \in Pages : LosesTurn(p) => ~Owned(p)]_<<vars, pageVars>>

\* Whoever asks for the page and stays gets in, however the others come, go, and
\* close their tabs while they hold a slot, and although calls fail; unless the
\* visitor leaves or is told that the room is closed or unavailable.
VisitorGetsIn ==
  \A p \in Pages : page[p].at \in Waits \cup Enters ~> page[p].at \in Rests

----------------------------------------------------------------------------
(* What the documentation says and the code does not do.                   *)

\* README.md, line 340: "Waiters keep their place: active waiters are kept alive by
\* their polls".
ActivePageKeepsPlace == [][\A p \in Pages : ~LosesTurn(p)]_<<vars, pageVars>>

Lapsed(s) == s \in DOMAIN admitted /\ admitted[s] <= now
SomebodyWaits == \E p \in Pages : page[p].at \in Waits

\* README.md, line 262: "Expired admission slots are freed automatically on every
\* admission tick"; whoever waits ticks.
LapsedSlotIsFreed == \A s \in Sids : Lapsed(s) /\ SomebodyWaits ~> ~Lapsed(s) \/ ~SomebodyWaits

============================================================================
