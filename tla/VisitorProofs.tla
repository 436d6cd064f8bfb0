--------------------------- MODULE VisitorProofs ---------------------------
(***************************************************************************)
(* What browsers hold, for every number of browsers, tabs and sessions,    *)
(* every TTL, strategy and failure mode: their cookies are their own, and  *)
(* what becomes of the slot behind a pass.                                 *)
(***************************************************************************)
EXTENDS Visitor, RoomActionProofs

CookieKinds == {"session", "ticket", "pass"}

PagesOK ==
  /\ page \in [Pages -> Page]
  /\ \A p \in Pages :
       page[p].at \in Waits \cup {"hold", "issue", "arrive"} => page[p].sid \in Sids

OneCookie == \A c \in Clients : \A kind \in CookieKinds : \A j, k \in jar[c][kind] : j = k

JarsOK == jar \in [Clients -> Jar] /\ OneCookie

CountsOK == faults \in 0..MaxFaults /\ visits \in 0..MaxVisits

BrowsersOK == PagesOK /\ JarsOK /\ CountsOK

LEMMA FewCookies ==
  ASSUME NEW S, \A j, k \in S : j = k
  PROVE  Cardinality(S) <= 1
<1>1. CASE S = {}
  BY <1>1, FS_EmptySet
<1>2. CASE S # {}
  <2>1. PICK x \in S : TRUE
    BY <1>2
  <2>2. S = {x}
    BY <2>1
  <2> QED BY <2>2, FS_Singleton
<1> QED BY <1>1, <1>2

LEMMA BrowsersOKIsTypeOK == BrowsersOK => VisitorTypeOK
<1> SUFFICES ASSUME BrowsersOK PROVE VisitorTypeOK
  OBVIOUS
<1>1. \A c \in Clients : DOMAIN jar[c] = CookieKinds
  BY DEF BrowsersOK, JarsOK, Jar, CookieKinds
<1>2. \A c \in Clients : \A kind \in DOMAIN jar[c] : Cardinality(jar[c][kind]) <= 1
  BY <1>1, FewCookies DEF BrowsersOK, JarsOK, OneCookie
<1> QED BY <1>2 DEF BrowsersOK, PagesOK, JarsOK, CountsOK, VisitorTypeOK

----------------------------------------------------------------------------
(* How a page moves, and how a cookie is set                               *)

Steps == Rests \cup Waits \cup Enters
NeedsSid == Waits \cup {"hold", "issue", "arrive"}

\* Only page p moves.
Moves(p, step, sid) ==
  /\ page' \in [Pages -> Page]
  /\ \A q \in Pages \ {p} : page'[q] = page[q]
  /\ page'[p].at = step /\ page'[p].sid = sid

LEMMA PageStep ==
  ASSUME PagesOK, NEW p \in Pages, NEW step \in Steps
  PROVE  /\ Goto(p, step) \/ Rest(p, step) => Moves(p, step, page[p].sid)
         /\ Settle(p, step) => Moves(p, step, 0)
         /\ Leave(p) => Moves(p, "gate", 0)
<1>1. Goto(p, step) \/ Rest(p, step) => Moves(p, step, page[p].sid)
  BY DEF Goto, Rest, PagesOK, Page, Steps, Moves
<1>2. ASSUME NEW r \in Page, page' = [page EXCEPT ![p] = r]
      PROVE  Moves(p, r.at, r.sid)
  BY <1>2 DEF PagesOK, Page, Moves
<1>3. Settle(p, step) => Moves(p, step, 0)
  <2> DEFINE r == [NoPage EXCEPT !.at = step, !.due = FALSE]
  <2>1. r \in Page /\ r.at = step /\ r.sid = 0
    BY DEF NoPage, Page, Steps
  <2> QED BY <1>2, <2>1 DEF Settle
<1>4. Leave(p) => Moves(p, "gate", 0)
  <2> DEFINE r == [NoPage EXCEPT !.at = "gate"]
  <2>1. r \in Page /\ r.at = "gate" /\ r.sid = 0
    BY DEF NoPage, Page, Enters
  <2> QED BY <1>2, <2>1 DEF Leave
<1> QED BY <1>1, <1>3, <1>4

LEMMA MovesOK ==
  ASSUME PagesOK, NEW p \in Pages, NEW step, NEW sid, Moves(p, step, sid),
         step \in NeedsSid => sid \in Sids
  PROVE  PagesOK'
BY DEF PagesOK, Moves, NeedsSid

LEMMA CookieStep ==
  ASSUME JarsOK, NEW p \in Pages, NEW kind \in CookieKinds, NEW cookies \in SUBSET Cookie,
         \A j, k \in cookies : j = k, SetCookie(p, kind, cookies)
  PROVE  /\ JarsOK'
         /\ \A c \in Clients, other \in CookieKinds :
              jar'[c][other] = IF c = BrowserOf[p] /\ other = kind THEN cookies ELSE jar[c][other]
<1>1. BrowserOf[p] \in Clients
  BY VisitorAssumption
<1>2. jar' \in [Clients -> Jar]
  BY <1>1 DEF JarsOK, SetCookie, Jar, CookieKinds
<1>3. \A c \in Clients, other \in CookieKinds :
        jar'[c][other] = IF c = BrowserOf[p] /\ other = kind THEN cookies ELSE jar[c][other]
  BY <1>1 DEF JarsOK, SetCookie, Jar, CookieKinds
<1> QED BY <1>2, <1>3 DEF JarsOK, OneCookie

LEMMA BakedIsCookie ==
  ASSUME NEW s \in Sids, NEW ttl \in Nat \ {0}
  PROVE  Baked(s, ttl) \in SUBSET Cookie /\ \A j, k \in Baked(s, ttl) : j = k
BY DEF Baked, Cookie

LEMMA SpentIsCookie ==
  ASSUME NEW k \in Cookie
  PROVE  {[k EXCEPT !.spent = TRUE]} \in SUBSET Cookie /\ [k EXCEPT !.spent = TRUE].sid = k.sid
BY DEF Cookie

LEMMA CookiesTyped ==
  ASSUME JarsOK, NEW p \in Pages, NEW kind \in CookieKinds
  PROVE  BrowserOf[p] \in Clients /\ Cookies(p, kind) \in SUBSET Cookie
BY VisitorAssumption DEF JarsOK, Jar, CookieKinds, Cookies

LEMMA CandidatesAreSids ==
  ASSUME JarsOK, NEW p \in Pages
  PROVE  Candidates(p) \subseteq Sids
BY CookiesTyped DEF Candidates, Unused, Cookie, CookieKinds

----------------------------------------------------------------------------
(* Which ids a browser has: those of its cookies, and of the pages that    *)
(* have got one.                                                           *)

HasSid(p) == page[p].at \in NeedsSid

Known(c) == {k.sid : k \in jar[c]["session"] \cup jar[c]["ticket"] \cup jar[c]["pass"]}
            \cup {page[p].sid : p \in {q \in Pages : BrowserOf[q] = c /\ HasSid(q)}}

\* Where a page and its cookies may take an id from.
Brings(p, s) == s \in Sids /\ s \in Known(BrowserOf[p]) \cup Unused

LEMMA KnownAre ==
  ASSUME BrowsersOK, NEW p \in Pages
  PROVE  /\ HasSid(p) => Brings(p, page[p].sid)
         /\ \A kind \in CookieKinds : \A k \in Cookies(p, kind) : Brings(p, k.sid) /\ k \in Cookie
         /\ \A s \in Candidates(p) : Brings(p, s)
<1>1. HasSid(p) => Brings(p, page[p].sid)
  BY DEF BrowsersOK, PagesOK, HasSid, NeedsSid, Known, Brings
<1>2. ASSUME NEW kind \in CookieKinds, NEW k \in Cookies(p, kind)
      PROVE  Brings(p, k.sid) /\ k \in Cookie
  <2>1. k \in Cookie
    BY <1>2, CookiesTyped DEF BrowsersOK
  <2>2. k.sid \in Known(BrowserOf[p])
    BY <1>2 DEF Known, Cookies, CookieKinds
  <2> QED BY <2>1, <2>2 DEF Brings, Cookie
<1>3. ASSUME NEW s \in Candidates(p) PROVE Brings(p, s)
  <2>1. s \in Sids
    BY CandidatesAreSids DEF BrowsersOK
  <2>2. s \in Unused \/ \E k \in Cookies(p, "session") : s = k.sid
    BY DEF Candidates
  <2> QED BY <1>2, <2>1, <2>2 DEF Brings, CookieKinds
<1> QED BY <1>1, <1>2, <1>3

\* A move of page p: a page that has an id has it from its browser, or new; so have
\* the cookies that are set, and of those no pass is unspent but the gate's.
Carried(p, cookies) ==
  /\ cookies \in SUBSET Cookie /\ \A j, k \in cookies : j = k
  /\ \A k \in cookies : Brings(p, k.sid)

Redeemed(p) == At(p, "issue") /\ \E left \in PassLeft : LetIn(p, left)

TabStep(p) ==
  /\ \E step \in Steps : \E sid : Moves(p, step, sid) /\ (step \in NeedsSid => Brings(p, sid))
  /\ \/ jar' = jar
     \/ \E kind \in CookieKinds : \E cookies :
          SetCookie(p, kind, cookies) /\ Carried(p, cookies) /\ (kind = "pass" => \A k \in cookies : k.spent)
     \/ Redeemed(p)

LEMMA TabMoves ==
  ASSUME BrowsersOK, NEW p \in Pages,
         Proceed(p) \/ Visit(p) \/ CloseTab(p) \/ FinishUse(p) \/ Fail(p)
  PROVE  TabStep(p)
<1>0. PagesOK /\ JarsOK
  BY DEF BrowsersOK
<1>1. ASSUME NEW step \in Steps, Goto(p, step) \/ Rest(p, step), step \in NeedsSid => HasSid(p)
      PROVE  \E st \in Steps : \E sid : Moves(p, st, sid) /\ (st \in NeedsSid => Brings(p, sid))
  BY <1>0, <1>1, PageStep, KnownAre
<1>2. ASSUME \/ Leave(p)
             \/ \E step \in Rests : Settle(p, step)
      PROVE  \E st \in Steps : \E sid : Moves(p, st, sid) /\ (st \in NeedsSid => Brings(p, sid))
  <2>1. "gate" \notin NeedsSid /\ "gate" \in Steps /\ Rests \subseteq Steps /\ Rests \cap NeedsSid = {}
    BY DEF Rests, NeedsSid, Waits, Enters, Steps
  <2> QED BY <1>0, <1>2, <2>1, PageStep
<1>3. ASSUME NEW at \in {"hold", "arrive"}, NEW s, Brings(p, s),
             page' = [page EXCEPT ![p].at = at, ![p].sid = s]
      PROVE  \E st \in Steps : \E sid : Moves(p, st, sid) /\ (st \in NeedsSid => Brings(p, sid))
  <2>1. s \in Nat /\ at \in Steps
    BY <1>3, SidsAssumption DEF Brings, Steps, Enters
  <2>2. Moves(p, at, s)
    BY <1>0, <1>3, <2>1 DEF PagesOK, Page, Moves, Enters
  <2> QED BY <1>3, <2>1, <2>2
<1>4. ASSUME NEW kind \in {"session", "ticket"}, NEW ttl \in {QueuedTtl, TicketTtl}, NEW s, Brings(p, s), SetCookie(p, kind, Baked(s, ttl))
      PROVE  \E other \in CookieKinds : \E cookies :
               SetCookie(p, other, cookies) /\ Carried(p, cookies) /\ (other = "pass" => \A k \in cookies : k.spent)
  <2>1. Carried(p, Baked(s, ttl))
    <3>1. s \in Sids
      BY <1>4 DEF Brings
    <3>2. Baked(s, ttl) \in SUBSET Cookie /\ \A j, k \in Baked(s, ttl) : j = k
      BY <3>1, BakedIsCookie, ClockAssumption, VisitorAssumption
    <3>3. \A k \in Baked(s, ttl) : k.sid = s
      BY DEF Baked
    <3> QED BY <1>4, <3>2, <3>3 DEF Carried
  <2> QED BY <1>4, <2>1 DEF CookieKinds
<1>5. ASSUME NEW kind \in CookieKinds, NEW k \in Cookies(p, kind),
             SetCookie(p, kind, {[k EXCEPT !.spent = TRUE]})
      PROVE  \E other \in CookieKinds : \E cookies :
               SetCookie(p, other, cookies) /\ Carried(p, cookies) /\ (other = "pass" => \A j \in cookies : j.spent)
  <2>1. k \in Cookie /\ Brings(p, k.sid)
    BY KnownAre
  <2>2. Carried(p, {[k EXCEPT !.spent = TRUE]}) /\ [k EXCEPT !.spent = TRUE].spent
    BY <2>1, SpentIsCookie DEF Carried, Cookie
  <2> QED BY <1>5, <2>2
<1>6. CASE Gate(p)
  <2>1. CASE Settle(p, "inside") /\ jar' = jar
    BY <1>2, <2>1 DEF TabStep, Rests
  <2>2. CASE Goto(p, "join") /\ jar' = jar
    BY <1>1, <2>2 DEF TabStep, Steps, Enters, NeedsSid, Waits
  <2>3. ASSUME NEW k \in Cookies(p, "ticket"), SetCookie(p, "ticket", {[k EXCEPT !.spent = TRUE]}),
               page' = [page EXCEPT ![p].at = "hold", ![p].sid = k.sid]
        PROVE  TabStep(p)
    <3>1. Brings(p, k.sid)
      BY KnownAre DEF CookieKinds
    <3> QED BY <1>3, <1>5, <2>3, <3>1 DEF TabStep, CookieKinds
  <2> QED BY <1>6, <2>1, <2>2, <2>3 DEF Gate
<1>7. CASE HoldSlot(p) \/ Issue(p)
  <2>1. CASE HoldSlot(p)
    <3>1. HasSid(p) /\ jar' = jar /\ (Goto(p, "join") \/ Rest(p, "issue"))
      BY <2>1 DEF HoldSlot, At, HasSid, NeedsSid
    <3> QED BY <1>1, <3>1 DEF TabStep, Steps, Enters, NeedsSid, Waits
  <2>2. CASE Issue(p)
    BY <1>2, <2>2 DEF TabStep, Issue, Redeemed, LetIn, Rests
  <2> QED BY <1>7, <2>1, <2>2
<1>8. CASE Join(p)
  <2>1. PICK s \in Candidates(p) : /\ SetCookie(p, "session", Baked(s, QueuedTtl))
                                   /\ page' = [page EXCEPT ![p].at = "arrive", ![p].sid = s]
    BY <1>8 DEF Join
  <2>2. Brings(p, s)
    BY KnownAre
  <2> QED BY <1>3, <1>4, <2>1, <2>2 DEF TabStep
<1>9. CASE Arrive(p)
  <2>1. HasSid(p) /\ jar' = jar
    BY <1>9 DEF Arrive, At, HasSid, NeedsSid
  <2>2. Moves(p, "poll", page[p].sid)
    <3>1. (Sid(p) \in DOMAIN queue) \in BOOLEAN
      OBVIOUS
    <3> QED BY <1>0, <1>9, <3>1 DEF Arrive, PagesOK, Page, Moves, Waits
  <2> QED BY <2>1, <2>2, KnownAre DEF TabStep, Steps, Waits
<1>10. CASE Look(p)
  <2>1. HasSid(p) /\ jar' = jar
    BY <1>10 DEF Look, At, HasSid, NeedsSid, Waits
  <2>2. CASE Leave(p) \/ Goto(p, "admit")
    BY <1>1, <1>2, <2>1, <2>2 DEF TabStep, Steps, Waits
  <2>3. CASE page' = [page EXCEPT ![p].at = "poll", ![p].due = FALSE, ![p].placed = TRUE]
    <3>1. Moves(p, "poll", page[p].sid)
      BY <1>0, <2>3 DEF PagesOK, Page, Moves, Waits
    <3> QED BY <2>1, <3>1, KnownAre DEF TabStep, Steps, Waits
  <2> QED BY <1>10, <2>2, <2>3 DEF Look
<1>11. CASE Poll(p) \/ Admit(p)
  <2>1. HasSid(p) /\ jar' = jar /\ (Goto(p, "look") \/ Goto(p, "ask"))
    BY <1>11 DEF Poll, Admit, At, HasSid, NeedsSid, Waits
  <2> QED BY <1>1, <2>1 DEF TabStep, Steps, Waits
<1>12. CASE TurnedAway(p) \/ AdmitForbidden(p) \/ Visit(p) \/ CloseTab(p)
  <2>1. jar' = jar /\ (Leave(p) \/ Settle(p, "away"))
    BY <1>12 DEF TurnedAway, AdmitForbidden, Visit, CloseTab
  <2> QED BY <1>2, <2>1 DEF TabStep, Rests
<1>13. CASE Ask(p)
  <2>1. HasSid(p)
    BY <1>13 DEF Ask, At, HasSid, NeedsSid, Waits
  <2>2. CASE Leave(p) /\ jar' = jar
    BY <1>2, <2>2 DEF TabStep
  <2>3. CASE SetCookie(p, "ticket", Baked(Sid(p), TicketTtl)) /\ Leave(p)
    BY <1>2, <1>4, <2>1, <2>3, KnownAre DEF TabStep, Sid
  <2>4. CASE Rest(p, "poll") /\ jar' = jar
    BY <1>1, <2>1, <2>4 DEF TabStep, Steps, Waits
  <2> QED BY <1>13, <2>2, <2>3, <2>4 DEF Ask
<1>14. CASE FinishUse(p)
  <2>1. PICK k \in Cookies(p, "pass") :
          \/ SetCookie(p, "pass", {})
          \/ SetCookie(p, "pass", {[k EXCEPT !.spent = TRUE]})
    BY <1>14 DEF FinishUse
  <2>2. Carried(p, {})
    BY DEF Carried
  <2>3. \E st \in Steps : \E sid : Moves(p, st, sid) /\ (st \in NeedsSid => Brings(p, sid))
    BY <1>2, <1>14 DEF FinishUse, Rests
  <2> QED BY <1>5, <2>1, <2>2, <2>3 DEF TabStep, CookieKinds
<1>15. CASE Fail(p)
  <2>1. CASE jar' = jar /\ (Leave(p) \/ Settle(p, "away") \/ Settle(p, "inside"))
    BY <1>2, <2>1 DEF TabStep, Rests
  <2>2. CASE jar' = jar /\ Goto(p, "join")
    BY <1>1, <2>2 DEF TabStep, Steps, Enters, NeedsSid, Waits
  <2>3. CASE jar' = jar /\ HasSid(p) /\ \E step \in Waits : Goto(p, step) \/ Rest(p, step)
    BY <1>1, <2>3 DEF TabStep, Steps
  <2>4. CASE HasSid(p) /\ SetCookie(p, "ticket", Baked(Sid(p), TicketTtl)) /\ Leave(p)
    BY <1>2, <1>4, <2>4, KnownAre DEF TabStep, Sid
  <2>5. Failed(p)
    BY <1>15 DEF Fail
  <2>6. page[p].at \in {"poll", "look", "admit", "ask", "arrive"} => HasSid(p)
    BY DEF HasSid, NeedsSid, Waits
  <2> QED BY <2>1, <2>2, <2>3, <2>4, <2>5, <2>6 DEF Failed, At, AdmitFailed, Waits
<1> QED BY <1>6, <1>7, <1>8, <1>9, <1>10, <1>11, <1>12, <1>13, <1>14, <1>15 DEF Proceed

----------------------------------------------------------------------------
(* Type correctness                                                        *)

\* The cookies of the browser that is let in, and of the others.
LEMMA LetInStep ==
  ASSUME JarsOK, NEW p \in Pages, NEW left \in PassLeft, Sid(p) \in Sids,
         LetIn(p, left)
  PROVE  /\ JarsOK'
         /\ \A c \in Clients, kind \in CookieKinds :
              jar'[c][kind] = IF c = BrowserOf[p] /\ kind = "pass" THEN Baked(Sid(p), left)
                              ELSE IF c = BrowserOf[p] /\ kind = "ticket" THEN {}
                              ELSE jar[c][kind]
<1> DEFINE baked == Baked(Sid(p), left)
<1>1. BrowserOf[p] \in Clients
  BY VisitorAssumption
<1>2. baked \in SUBSET Cookie /\ \A j, k \in baked : j = k
  <2>1. left \in Nat \ {0}
    BY ClockAssumption DEF PassLeft
  <2> QED BY <2>1, BakedIsCookie
<1>3. jar' = [jar EXCEPT ![BrowserOf[p]].pass = baked, ![BrowserOf[p]].ticket = {}]
  BY DEF LetIn
<1> HIDE DEF baked
<1>4. /\ jar' \in [Clients -> Jar]
      /\ \A c \in Clients, kind \in CookieKinds :
           jar'[c][kind] = IF c = BrowserOf[p] /\ kind = "pass" THEN baked
                           ELSE IF c = BrowserOf[p] /\ kind = "ticket" THEN {}
                           ELSE jar[c][kind]
  BY <1>1, <1>2, <1>3 DEF JarsOK, Jar, CookieKinds
<1>5. OneCookie'
  BY <1>2, <1>4 DEF JarsOK, OneCookie
<1> QED BY <1>4, <1>5 DEF JarsOK, baked

LEMMA OlderCookies ==
  ASSUME NEW cookies \in SUBSET Cookie, \A j, k \in cookies : j = k
  PROVE  /\ Older(cookies) \in SUBSET Cookie
         /\ \A j, k \in Older(cookies) : j = k
         /\ \A k \in Older(cookies) : \E j \in cookies :
              k.sid = j.sid /\ k.spent = j.spent /\ k.exp = j.exp - 1
BY DEF Older, Cookie

LEMMA AgeJars ==
  ASSUME JarsOK, Age
  PROVE  /\ JarsOK'
         /\ \A c \in Clients, kind \in CookieKinds : \A k \in jar'[c][kind] :
              \E j \in jar[c][kind] : k.sid = j.sid /\ k.spent = j.spent /\ k.exp = j.exp - 1
<1>1. jar' = [c \in Clients |-> [kind \in CookieKinds |-> Older(jar[c][kind])]]
  BY DEF JarsOK, Jar, CookieKinds, Age
<1>2. ASSUME NEW c \in Clients, NEW kind \in CookieKinds
      PROVE  jar[c][kind] \in SUBSET Cookie /\ \A j, k \in jar[c][kind] : j = k
  BY DEF JarsOK, Jar, CookieKinds, OneCookie
<1>3. \A c \in Clients, kind \in CookieKinds : jar'[c][kind] = Older(jar[c][kind])
  BY <1>1
<1>4. \A c \in Clients, kind \in CookieKinds :
        /\ Older(jar[c][kind]) \in SUBSET Cookie
        /\ \A j, k \in Older(jar[c][kind]) : j = k
        /\ \A k \in Older(jar[c][kind]) :
             \E j \in jar[c][kind] : k.sid = j.sid /\ k.spent = j.spent /\ k.exp = j.exp - 1
  BY <1>2, OlderCookies
<1>5. jar' \in [Clients -> Jar]
  BY <1>1, <1>4 DEF Jar, CookieKinds
<1>6. OneCookie'
  BY <1>3, <1>4 DEF OneCookie
<1> QED BY <1>3, <1>4, <1>5, <1>6 DEF JarsOK

LEMMA AgePages ==
  ASSUME PagesOK, Age
  PROVE  /\ PagesOK'
         /\ \A p \in Pages : page'[p].at = page[p].at /\ page'[p].sid = page[p].sid
         /\ \A p \in Pages : page'[p].due /\ (At(p, "issue") => ~page[p].due)
BY DEF PagesOK, Age, Page, At, Rests

\* A step is of one tab, or of nobody in front of a browser, or of time.
LEMMA VisitorMoves ==
  ASSUME BrowsersOK, [VisitorNext]_<<vars, pageVars>>
  PROVE  \/ \E p \in Pages : TabStep(p)
         \/ page' = page /\ jar' = jar
         \/ Age
BY TabMoves DEF VisitorNext, Operate, pageVars

LEMMA CountsStep ==
  ASSUME CountsOK, [VisitorNext]_<<vars, pageVars>>
  PROVE  CountsOK'
<1>1. faults' = faults \/ (faults < MaxFaults /\ faults' = faults + 1)
  BY DEF VisitorNext, Operate, pageVars, Age, Proceed, Gate, HoldSlot, Issue, Join, TurnedAway, Arrive,
         Poll, Look, Admit, AdmitForbidden, Ask, Visit, CloseTab, FinishUse, Fail
<1>2. visits' = visits \/ (visits < MaxVisits /\ visits' = visits + 1)
  BY DEF VisitorNext, Operate, pageVars, Age, Proceed, Gate, HoldSlot, Issue, Join, TurnedAway, Arrive,
         Poll, Look, Admit, AdmitForbidden, Ask, Visit, CloseTab, FinishUse, Fail
<1> QED BY <1>1, <1>2, VisitorAssumption DEF CountsOK

LEMMA BrowsersStep ==
  ASSUME BrowsersOK, [VisitorNext]_<<vars, pageVars>>
  PROVE  BrowsersOK'
<1>0. PagesOK /\ JarsOK /\ CountsOK'
  BY CountsStep DEF BrowsersOK
<1>1. ASSUME NEW p \in Pages, TabStep(p) PROVE PagesOK' /\ JarsOK'
  <2>1. PagesOK'
    BY <1>0, <1>1, MovesOK DEF TabStep, Brings
  <2>2. ASSUME jar' = jar PROVE JarsOK'
    BY <1>0, <2>2 DEF JarsOK, OneCookie
  <2>3. ASSUME NEW kind \in CookieKinds, NEW cookies, SetCookie(p, kind, cookies), Carried(p, cookies)
        PROVE  JarsOK'
    BY <1>0, <2>3, CookieStep DEF Carried
  <2>4. ASSUME Redeemed(p) PROVE JarsOK'
    <3>1. Sid(p) \in Sids
      BY <1>0, <2>4 DEF Redeemed, At, PagesOK, Sid
    <3>2. PICK left \in PassLeft : LetIn(p, left)
      BY <2>4 DEF Redeemed
    <3> QED BY <1>0, <3>1, <3>2, LetInStep
  <2> QED BY <1>1, <2>1, <2>2, <2>3, <2>4 DEF TabStep
<1>2. ASSUME page' = page /\ jar' = jar PROVE PagesOK' /\ JarsOK'
  BY <1>0, <1>2 DEF PagesOK, JarsOK, OneCookie
<1>3. ASSUME Age PROVE PagesOK' /\ JarsOK'
  BY <1>0, <1>3, AgeJars, AgePages
<1> QED BY <1>0, <1>1, <1>2, <1>3, VisitorMoves DEF BrowsersOK

LEMMA BrowsersInit == VisitorInit => BrowsersOK
<1> SUFFICES ASSUME VisitorInit PROVE BrowsersOK
  OBVIOUS
<1>1. NoPage \in Page /\ NoPage.at \notin NeedsSid
  BY DEF NoPage, Page, Rests, NeedsSid, Waits, Enters
<1>2. PagesOK
  BY <1>1 DEF VisitorInit, PagesOK, NeedsSid
<1>3. JarsOK
  BY DEF VisitorInit, JarsOK, Jar, OneCookie, CookieKinds
<1>4. CountsOK
  BY VisitorAssumption DEF VisitorInit, CountsOK
<1> QED BY <1>2, <1>3, <1>4 DEF BrowsersOK

\* A tab that waits has a session, and a browser has one cookie of a kind, however
\* its tabs' requests and their answers cross.
THEOREM VisitorTypesHold == VisitorSpec => []VisitorTypeOK
<1>1. BrowsersOK /\ [VisitorNext]_<<vars, pageVars>> => BrowsersOK'
  BY BrowsersStep
<1> QED BY <1>1, BrowsersInit, BrowsersOKIsTypeOK, PTL DEF VisitorSpec

----------------------------------------------------------------------------
(* No two browsers have an id in common: a cookie is set to an id of its   *)
(* own browser, or to one nobody has.                                      *)

Apart == \A c, d \in Clients : c # d => Known(c) \cap Known(d) = {}

LEMMA UnusedIsUnknown ==
  ASSUME NEW c \in Clients
  PROVE  Known(c) \cap Unused = {}
<1>1. \A kind \in CookieKinds : \A k \in jar[c][kind] : k.sid \notin Unused
  BY DEF Unused, CookieKinds
<1>2. \A p \in Pages : page[p].sid \notin Unused
  BY DEF Unused
<1> QED BY <1>1, <1>2 DEF Known, CookieKinds

LEMMA KnownStep ==
  ASSUME BrowsersOK, NEW p \in Pages, TabStep(p), NEW c \in Clients
  PROVE  /\ Known(c)' \subseteq Known(c) \cup Unused
         /\ c # BrowserOf[p] => Known(c)' \subseteq Known(c)
<1>0. JarsOK /\ PagesOK /\ BrowserOf[p] \in Clients
  BY VisitorAssumption DEF BrowsersOK
<1> DEFINE Own(s) == s \in Known(c) \/ (c = BrowserOf[p] /\ s \in Unused)
<1>1. ASSUME NEW q \in Pages, BrowserOf[q] = c, HasSid(q)' PROVE Own(page'[q].sid)
  <2>1. CASE q = p
    BY <1>1, <2>1 DEF TabStep, Moves, HasSid, Brings
  <2>2. CASE q # p
    <3>1. page'[q] = page[q]
      BY <2>2 DEF TabStep, Moves
    <3> QED BY <1>1, <3>1 DEF HasSid, Known
  <2> QED BY <2>1, <2>2
<1>2. ASSUME NEW kind \in CookieKinds, NEW k \in jar'[c][kind] PROVE Own(k.sid)
  <2>0. k \in jar[c][kind] => Own(k.sid)
    BY DEF Known, CookieKinds
  <2>1. CASE jar' = jar
    BY <1>2, <2>0, <2>1
  <2>2. ASSUME NEW other \in CookieKinds, NEW cookies, SetCookie(p, other, cookies), Carried(p, cookies)
        PROVE  Own(k.sid)
    <3>1. jar'[c][kind] = IF c = BrowserOf[p] /\ kind = other THEN cookies ELSE jar[c][kind]
      BY <1>0, <2>2, CookieStep DEF Carried
    <3> QED BY <1>2, <2>0, <2>2, <3>1 DEF Carried, Brings
  <2>3. CASE Redeemed(p)
    <3>1. HasSid(p)
      BY <2>3 DEF Redeemed, At, HasSid, NeedsSid
    <3>2. Brings(p, Sid(p))
      BY <3>1, KnownAre DEF Sid
    <3>0. PICK left \in PassLeft : LetIn(p, left)
      BY <2>3 DEF Redeemed
    <3>3. \/ k \in jar[c][kind]
          \/ c = BrowserOf[p] /\ k \in Baked(Sid(p), left)
      <4>1. Sid(p) \in Sids
        BY <3>2 DEF Brings
      <4> QED BY <1>0, <1>2, <3>0, <4>1, LetInStep
    <3>4. \A j \in Baked(Sid(p), left) : j.sid = Sid(p)
      BY DEF Baked
    <3> QED BY <2>0, <3>2, <3>3, <3>4 DEF Brings
  <2> QED BY <2>1, <2>2, <2>3 DEF TabStep
<1>3. \A s \in Known(c)' : Own(s)
  BY <1>1, <1>2 DEF Known, CookieKinds
<1> QED BY <1>3

LEMMA ApartStep ==
  ASSUME BrowsersOK, Apart, [VisitorNext]_<<vars, pageVars>>
  PROVE  Apart'
<1>1. ASSUME NEW p \in Pages, TabStep(p) PROVE Apart'
  <2> SUFFICES ASSUME NEW c \in Clients, NEW d \in Clients, c # d
               PROVE  Known(c)' \cap Known(d)' = {}
    BY DEF Apart
  <2>1. Known(c) \cap Known(d) = {} /\ Known(c) \cap Unused = {} /\ Known(d) \cap Unused = {}
    BY UnusedIsUnknown DEF Apart
  <2>2. CASE c # BrowserOf[p]
    BY <1>1, <2>1, <2>2, KnownStep
  <2>3. CASE d # BrowserOf[p]
    BY <1>1, <2>1, <2>3, KnownStep
  <2> QED BY <2>2, <2>3
<1>2. CASE page' = page /\ jar' = jar
  <2>1. \A c \in Clients : Known(c)' = Known(c)
    BY <1>2 DEF Known, HasSid
  <2> QED BY <2>1 DEF Apart
<1>3. CASE Age
  <2>1. \A c \in Clients, kind \in CookieKinds : \A k \in jar'[c][kind] :
          \E j \in jar[c][kind] : k.sid = j.sid
    BY <1>3, AgeJars DEF BrowsersOK
  <2>2. \A p \in Pages : page'[p].at = page[p].at /\ page'[p].sid = page[p].sid
    BY <1>3, AgePages DEF BrowsersOK
  <2>3. \A c \in Clients : Known(c)' \subseteq Known(c)
    BY <2>1, <2>2 DEF Known, HasSid, CookieKinds
  <2> QED BY <2>3 DEF Apart
<1> QED BY <1>1, <1>2, <1>3, VisitorMoves

LEMMA ApartInit == VisitorInit => Apart
BY DEF VisitorInit, NoPage, Apart, Known, HasSid, NeedsSid, Waits, CookieKinds

----------------------------------------------------------------------------
(* The slot behind a pass.  The clock of this module stands at 0, so a     *)
(* slot has lapsed when its deadline is 0.                                 *)

SlotsOK == now = 0 /\ DOMAIN queue \subseteq Sids /\ Typed(admitted, Nat)

\* What a step that is not Age and frees no slot early may do to the store.
SlotMove ==
  \/ UNCHANGED vars
  \/ \E c \in Clients, s \in Sids : Enqueue(c, s)
  \/ \E s : Position(s, now) \/ Hold(s, now)
  \/ \E n : AdmitBatch(n, now)
  \/ Reclaim(now, now)
  \/ \E engaged : SetKillSwitch(engaged)

\* This step pops a place its session had taken again, and gives it a new slot; where
\* there is one slot, nobody is popped while it is held.
Readmitted(s) ==
  /\ Capacity # 1
  /\ s \in DOMAIN queue \ DOMAIN queue'
  /\ s \in DOMAIN admitted' /\ admitted'[s] = now + Grace

\* A slot that has e left has it afterwards, unless its session is admitted anew.
KeepsSlots ==
  \A s \in DOMAIN admitted, e \in Nat \ {0} :
    e <= AdmittedTtl /\ admitted[s] >= e
      => \/ s \in DOMAIN admitted' /\ admitted'[s] >= e
         \/ Readmitted(s)

LEMMA OneSlot ==
  ASSUME SlotsOK, Capacity = 1, NEW n, NEW s \in Front(n, 0)
  PROVE  s \notin DOMAIN HeldAfter(0)
<1> DEFINE held == DOMAIN HeldAfter(0)
           ahead == Ahead(queue, s)
<1>1. IsFiniteSet(held) /\ IsFiniteSet(ahead)
  <2>1. held \subseteq DOMAIN admitted /\ DOMAIN admitted \subseteq Sids
    BY DEF HeldAfter, Drop, Restrict, SlotsOK, Typed
  <2>2. ahead \subseteq Sids
    BY DEF Ahead, SlotsOK
  <2> HIDE DEF held, ahead
  <2> QED BY <2>1, <2>2, SidsAssumption, FS_Subset
<1>2. Cardinality(ahead) + 1 <= 1 - Cardinality(held)
  BY DEF Front, Fits, ZRank
<1> HIDE DEF held, ahead
<1>3. Cardinality(held) \in Nat /\ Cardinality(ahead) \in Nat
  BY <1>1, FS_CardinalityType
<1>4. held = {}
  BY <1>1, <1>2, <1>3, FS_EmptySet
<1> QED BY <1>4 DEF held

LEMMA SlotsKept ==
  ASSUME SlotsOK, SlotMove
  PROVE  SlotsOK' /\ KeepsSlots
<1>0. /\ now = 0 /\ DOMAIN queue \subseteq Sids /\ Typed(admitted, Nat)
      /\ AdmittedTtl \in Nat /\ Grace \in Nat
  BY ClockAssumption DEF SlotsOK
<1>1. ASSUME now' = now, DOMAIN queue' \subseteq Sids, admitted' = admitted
      PROVE  SlotsOK' /\ KeepsSlots
  <2>1. SlotsOK'
    BY <1>0, <1>1 DEF SlotsOK
  <2>2. KeepsSlots
    BY <1>1 DEF KeepsSlots
  <2> QED BY <2>1, <2>2
<1>2. \A S : DOMAIN Drop(queue, S) \subseteq Sids
  BY <1>0 DEF Drop, Restrict
<1>3. Typed(HeldAfter(0), Nat) /\ \A s \in DOMAIN admitted :
        admitted[s] > 0 => s \in DOMAIN HeldAfter(0) /\ HeldAfter(0)[s] = admitted[s]
  <2>1. Typed(HeldAfter(0), Nat)
    BY <1>0, DropTyped DEF HeldAfter
  <2>2. ASSUME NEW s \in DOMAIN admitted, admitted[s] > 0
        PROVE  s \in DOMAIN HeldAfter(0) /\ HeldAfter(0)[s] = admitted[s]
    <3>1. admitted[s] \in Nat /\ ~(admitted[s] <= 0)
      BY <1>0, <2>2 DEF Typed
    <3> QED BY <3>1 DEF HeldAfter, Drop, Restrict, UpTo
  <2> QED BY <2>1, <2>2
<1>4. ASSUME now' = now, DOMAIN queue' \subseteq Sids, admitted' = HeldAfter(0)
      PROVE  SlotsOK' /\ KeepsSlots
  <2>1. SlotsOK'
    BY <1>0, <1>3, <1>4 DEF SlotsOK, Typed
  <2>2. ASSUME NEW s \in DOMAIN admitted, NEW e \in Nat \ {0}, admitted[s] >= e
        PROVE  s \in DOMAIN admitted' /\ admitted'[s] >= e
    <3>1. admitted[s] \in Nat /\ admitted[s] > 0
      BY <1>0, <2>2 DEF Typed
    <3> QED BY <1>3, <1>4, <2>2, <3>1
  <2> QED BY <2>1, <2>2 DEF KeepsSlots
<1>5. CASE UNCHANGED vars
  BY <1>0, <1>1, <1>5 DEF vars
<1>6. ASSUME NEW c \in Clients, NEW s \in Sids, Enqueue(c, s)
      PROVE  SlotsOK' /\ KeepsSlots
  <2>1. now' = now /\ admitted' = admitted /\ (queue' = queue \/ \E score : queue' = Joined(s, score))
    BY <1>6 DEF Enqueue, KeepPlace, JoinLine
  <2>2. \A score : DOMAIN Joined(s, score) \subseteq Sids
    BY <1>0 DEF Joined, Put
  <2> QED BY <1>0, <1>1, <2>1, <2>2
<1>7. ASSUME NEW s, Position(s, now) PROVE SlotsOK' /\ KeepsSlots
  BY <1>0, <1>1, <1>7 DEF Position
<1>8. ASSUME NEW s, Hold(s, now) PROVE SlotsOK' /\ KeepsSlots
  <2>1. now' = now /\ queue' = queue /\ admitted' = Put(admitted, {s} \cap DOMAIN admitted, AdmittedTtl)
    BY <1>0, <1>8 DEF Hold, Extended
  <2>2. Typed(admitted', Nat) /\ DOMAIN admitted' = DOMAIN admitted
    <3>1. admitted' = [r \in DOMAIN admitted |-> IF r = s THEN AdmittedTtl ELSE admitted[r]]
      <4>1. DOMAIN admitted \cup ({s} \cap DOMAIN admitted) = DOMAIN admitted
        OBVIOUS
      <4> QED BY <2>1, <4>1 DEF Put
    <3> QED BY <1>0, <3>1 DEF Typed
  <2>3. SlotsOK'
    BY <1>0, <2>1, <2>2 DEF SlotsOK, Typed
  <2>4. \A r \in DOMAIN admitted : admitted'[r] \in {admitted[r], AdmittedTtl}
    BY <2>1 DEF Put
  <2>5. KeepsSlots
    BY <1>0, <2>2, <2>4 DEF KeepsSlots
  <2> QED BY <2>3, <2>5
<1>9. ASSUME NEW n, AdmitNobody(now) PROVE SlotsOK' /\ KeepsSlots
  BY <1>0, <1>4, <1>9 DEF AdmitNobody
<1>10. ASSUME NEW n, AdmitFront(n, now) PROVE SlotsOK' /\ KeepsSlots
  <2> DEFINE live == Front(n, 0) \cap DOMAIN hash
  <2>1. /\ now' = now /\ queue' = Drop(queue, Front(n, 0))
        /\ admitted' = Put(HeldAfter(0), live, Grace)
    BY <1>0, <1>10 DEF AdmitFront
  <2>2. live \subseteq Front(n, 0) /\ Front(n, 0) \subseteq DOMAIN queue
    BY DEF Front
  <2> HIDE DEF live
  <2>3. SlotsOK'
    <3>1. Typed(admitted', Nat)
      BY <1>0, <1>3, <2>1, <2>2, PutTyped
    <3> QED BY <1>0, <1>2, <2>1, <3>1 DEF SlotsOK, Typed
  <2>4. ASSUME NEW s \in DOMAIN admitted, NEW e \in Nat \ {0}, admitted[s] >= e
        PROVE  (s \in DOMAIN admitted' /\ admitted'[s] >= e) \/ Readmitted(s)
    <3>1. s \in DOMAIN HeldAfter(0) /\ HeldAfter(0)[s] >= e
      <4>1. admitted[s] \in Nat /\ admitted[s] > 0
        BY <1>0, <2>4 DEF Typed
      <4> QED BY <1>3, <2>4, <4>1
    <3>2. CASE s \in live
      <4>1. Capacity # 1
        BY <2>2, <3>1, <3>2, OneSlot
      <4> QED BY <1>0, <2>1, <2>2, <3>2, <4>1 DEF Readmitted, Put, Drop, Restrict
    <3>3. CASE s \notin live
      BY <2>1, <3>1, <3>3 DEF Put
    <3> QED BY <3>2, <3>3
  <2> QED BY <2>3, <2>4 DEF KeepsSlots
<1>11. CASE Reclaim(now, now)
  <2>1. now' = now /\ queue' = Drop(queue, IdleSince(now)) /\ admitted' = HeldAfter(0)
    BY <1>0, <1>11 DEF Reclaim, HeldAfter
  <2> QED BY <1>2, <1>4, <2>1
<1>12. ASSUME NEW engaged, SetKillSwitch(engaged) PROVE SlotsOK' /\ KeepsSlots
  BY <1>0, <1>1, <1>12 DEF SetKillSwitch
<1> QED BY <1>5, <1>6, <1>7, <1>8, <1>9, <1>10, <1>11, <1>12 DEF SlotMove, AdmitBatch

\* What a tab does to the store, unless it gives its slot back.
LEMMA TabSlotMove ==
  ASSUME BrowsersOK, NEW p \in Pages, Proceed(p) \/ Visit(p) \/ CloseTab(p) \/ Fail(p)
  PROVE  SlotMove
<1>1. \A s \in Sids : Queue(p, s) => SlotMove
  BY VisitorAssumption DEF Queue, SlotMove
<1>2. \A s : Seen(s) \/ Hold(s, now) => SlotMove
  BY DEF Seen, SlotMove
<1>3. AdmissionTick \/ UNCHANGED vars => SlotMove
  BY DEF AdmissionTick, SlotMove
<1>4. Candidates(p) \subseteq Sids /\ BrowserOf[p] \in Clients
  BY CandidatesAreSids, VisitorAssumption DEF BrowsersOK
<1> QED BY <1>1, <1>2, <1>3, <1>4 DEF Proceed, Gate, HoldSlot, Issue, Join, TurnedAway, Arrive, Poll, Look,
      Admit, AdmitForbidden, Ask, Visit, CloseTab, Fail

\* What a browser may count on a slot for: its unspent passes, and the passes its tabs
\* are about to be given.  One of those ends at most AdmittedTtl after its reading,
\* which may be one tick later than the slot's.
Coming(p) == [sid |-> page[p].sid, exp |-> AdmittedTtl + (IF page[p].due THEN 0 ELSE 1)]

Claims(c) ==
  {[sid |-> k.sid, exp |-> k.exp] : k \in {j \in jar[c]["pass"] : ~j.spent}}
  \cup {Coming(p) : p \in {q \in Pages : BrowserOf[q] = c /\ At(q, "issue")}}

\* There is a slot for the claim until its last tick.
Backed(k) == k.exp = 1 \/ (k.sid \in DOMAIN admitted /\ admitted[k.sid] >= k.exp - 1)

\* No pass is good for longer than AdmittedTtl.
PassesBounded == \A c \in Clients : \A k \in jar[c]["pass"] : ~k.spent => k.exp <= AdmittedTtl

ClaimsTyped ==
  \A c \in Clients : \A k \in Claims(c) : k.exp \in Nat \ {0} /\ k.exp <= AdmittedTtl + 1

LEMMA PassesAreTyped ==
  ASSUME BrowsersOK, PassesBounded
  PROVE  ClaimsTyped
<1>0. AdmittedTtl \in Nat \ {0}
  BY ClockAssumption
<1>1. ASSUME NEW c \in Clients, NEW j \in jar[c]["pass"], ~j.spent
      PROVE  j.exp \in Nat \ {0} /\ j.exp <= AdmittedTtl
  <2>1. j \in Cookie
    BY DEF BrowsersOK, JarsOK, Jar
  <2> QED BY <1>1, <2>1 DEF Cookie, PassesBounded
<1>2. \A p : Coming(p).exp \in {AdmittedTtl, AdmittedTtl + 1}
  BY <1>0 DEF Coming
<1> QED BY <1>0, <1>1, <1>2 DEF Claims, ClaimsTyped

\* Where an unspent pass comes from: it was there, or it is the one just stamped.
LEMMA PassOrigin ==
  ASSUME BrowsersOK, NEW p \in Pages, TabStep(p),
         NEW c \in Clients, NEW k \in jar'[c]["pass"], ~k.spent
  PROVE  \/ k \in jar[c]["pass"]
         \/ /\ At(p, "issue") /\ c = BrowserOf[p] /\ k.sid = Sid(p)
            /\ k.exp \in Nat \ {0} /\ k.exp <= AdmittedTtl
<1>0. JarsOK /\ PagesOK /\ "pass" \in CookieKinds
  BY DEF BrowsersOK, CookieKinds
<1>1. CASE jar' = jar
  BY <1>1
<1>2. ASSUME NEW kind \in CookieKinds, NEW cookies, SetCookie(p, kind, cookies), Carried(p, cookies),
             kind = "pass" => \A j \in cookies : j.spent
      PROVE  k \in jar[c]["pass"]
  <2>1. jar'[c]["pass"] = IF c = BrowserOf[p] /\ "pass" = kind THEN cookies ELSE jar[c]["pass"]
    BY <1>0, <1>2, CookieStep DEF Carried
  <2> QED BY <1>2, <2>1
<1>3. CASE Redeemed(p)
  <2>1. Sid(p) \in Sids /\ At(p, "issue")
    BY <1>0, <1>3 DEF Redeemed, At, PagesOK, Sid
  <2>2. PICK left \in PassLeft : LetIn(p, left)
    BY <1>3 DEF Redeemed
  <2>3. k \in IF c = BrowserOf[p] THEN Baked(Sid(p), left) ELSE jar[c]["pass"]
    BY <1>0, <2>1, <2>2, LetInStep
  <2>4. left \in Nat \ {0} /\ left <= AdmittedTtl
    BY ClockAssumption DEF PassLeft
  <2> QED BY <2>1, <2>3, <2>4 DEF Baked
<1> QED BY <1>1, <1>2, <1>3 DEF TabStep

\* A pass is about to be stamped only when its slot has just been held.
LEMMA IssueFollowsHold ==
  ASSUME BrowsersOK, NEW p \in Pages, page'[p].at = "issue",
         Proceed(p) \/ Visit(p) \/ CloseTab(p) \/ FinishUse(p) \/ Fail(p)
  PROVE  /\ Hold(Sid(p), now) /\ Sid(p) \in DOMAIN admitted
         /\ Rest(p, "issue")
<1>0. PagesOK
  BY DEF BrowsersOK
<1>1. ASSUME NEW step \in Steps \ {"issue"}
      PROVE  ~Goto(p, step) /\ ~Rest(p, step) /\ ~Settle(p, step) /\ ~Leave(p)
  BY <1>0, <1>1, PageStep DEF Moves
<1>2. ASSUME NEW step \in Steps \ {"issue"}, NEW r, NEW b, NEW d
      PROVE  /\ page' # [page EXCEPT ![p].at = step, ![p].sid = r]
             /\ page' # [page EXCEPT ![p].at = step, ![p].placed = b]
             /\ page' # [page EXCEPT ![p].at = step, ![p].due = d, ![p].placed = b]
  BY <1>0, <1>2 DEF PagesOK, Page
<1>3. {"gate", "hold", "join", "arrive", "poll", "look", "admit", "ask", "away", "inside"}
        \subseteq Steps \ {"issue"}
  BY DEF Steps, Rests, Waits, Enters
<1>4. ~Visit(p) /\ ~CloseTab(p) /\ ~FinishUse(p)
  BY <1>1, <1>3 DEF Visit, CloseTab, FinishUse
<1>5. ~Fail(p)
  BY <1>1, <1>3 DEF Fail, Failed, AdmitFailed
<1>6. ~Gate(p) /\ ~Issue(p) /\ ~Join(p) /\ ~TurnedAway(p) /\ ~Arrive(p)
  BY <1>1, <1>2, <1>3 DEF Gate, Issue, LetIn, Join, TurnedAway, Arrive
<1>7. ~Poll(p) /\ ~Look(p) /\ ~Admit(p) /\ ~AdmitForbidden(p) /\ ~Ask(p)
  BY <1>1, <1>2, <1>3 DEF Poll, Look, Admit, AdmitForbidden, Ask
<1>8. HoldSlot(p)
  BY <1>4, <1>5, <1>6, <1>7 DEF Proceed
<1> QED BY <1>1, <1>3, <1>8 DEF HoldSlot

\* Where a claim comes from: there was one as long or longer, or its slot has just
\* been held.
LEMMA ClaimOrigin ==
  ASSUME BrowsersOK, PassesBounded, NEW p \in Pages, NEW c \in Clients, NEW k \in Claims(c)',
         Proceed(p) \/ Visit(p) \/ CloseTab(p) \/ FinishUse(p) \/ Fail(p)
  PROVE  /\ k.exp \in Nat \ {0} /\ k.exp <= AdmittedTtl + 1
         /\ \/ \E j \in Claims(c) : j.sid = k.sid /\ j.exp \in Nat /\ k.exp <= j.exp
            \/ Hold(k.sid, now) /\ k.sid \in DOMAIN admitted
<1>0. TabStep(p) /\ AdmittedTtl \in Nat \ {0}
  BY TabMoves, ClockAssumption
<1>1. ASSUME NEW i \in jar'[c]["pass"], ~i.spent, k = [sid |-> i.sid, exp |-> i.exp]
      PROVE  /\ k.exp \in Nat \ {0} /\ k.exp <= AdmittedTtl + 1
             /\ \E j \in Claims(c) : j.sid = k.sid /\ j.exp \in Nat /\ k.exp <= j.exp
  <2>1. CASE i \in jar[c]["pass"]
    <3>1. i \in Cookie
      BY <2>1 DEF BrowsersOK, JarsOK, Jar
    <3>2. k.exp \in Nat \ {0} /\ k.exp <= AdmittedTtl
      BY <1>1, <2>1, <3>1 DEF Cookie, PassesBounded
    <3>3. k \in Claims(c)
      BY <1>1, <2>1 DEF Claims
    <3> QED BY <1>0, <3>2, <3>3
  <2>2. CASE /\ At(p, "issue") /\ c = BrowserOf[p] /\ i.sid = Sid(p)
             /\ i.exp \in Nat \ {0} /\ i.exp <= AdmittedTtl
    <3>1. Coming(p) \in Claims(c) /\ Coming(p).sid = i.sid
      BY <2>2 DEF Claims, Coming, Sid
    <3>2. Coming(p).exp \in {AdmittedTtl, AdmittedTtl + 1}
      BY <1>0 DEF Coming
    <3> QED BY <1>0, <1>1, <2>2, <3>1, <3>2
  <2> QED BY <1>0, <1>1, <2>1, <2>2, PassOrigin
<1>2. ASSUME NEW q \in Pages, BrowserOf[q] = c, At(q, "issue")', k = Coming(q)'
      PROVE  /\ k.exp \in Nat \ {0} /\ k.exp <= AdmittedTtl + 1
             /\ \/ \E j \in Claims(c) : j.sid = k.sid /\ j.exp \in Nat /\ k.exp <= j.exp
                \/ Hold(k.sid, now) /\ k.sid \in DOMAIN admitted
  <2>1. k.exp \in {AdmittedTtl, AdmittedTtl + 1}
    BY <1>0, <1>2 DEF Coming
  <2>2. CASE q = p
    <3>1. Hold(Sid(p), now) /\ Sid(p) \in DOMAIN admitted /\ Rest(p, "issue")
      BY <1>2, <2>2, IssueFollowsHold DEF At
    <3>2. k.sid = Sid(p)
      BY <1>2, <2>2, <3>1 DEF Coming, Rest, Sid, BrowsersOK, PagesOK, Page
    <3> QED BY <1>0, <2>1, <3>1, <3>2
  <2>3. CASE q # p
    <3>1. page'[q] = page[q]
      BY <1>0, <2>3 DEF TabStep, Moves
    <3>2. k = Coming(q) /\ k \in Claims(c)
      BY <1>2, <3>1 DEF Coming, Claims, At
    <3> QED BY <1>0, <2>1, <3>2
  <2> QED BY <2>2, <2>3
<1>3. \/ \E i \in jar'[c]["pass"] : ~i.spent /\ k = [sid |-> i.sid, exp |-> i.exp]
      \/ \E q \in Pages : BrowserOf[q] = c /\ At(q, "issue")' /\ k = Coming(q)'
  BY DEF Claims
<1> QED BY <1>1, <1>2, <1>3

\* Another tab of browser c is done and gives the slot back while the pass for the
\* same session is on its way to this one.
GivenBack(c, s) ==
  \E p, q \in Pages :
    /\ BrowserOf[p] = c /\ BrowserOf[q] = c
    /\ FinishUse(p)
    /\ At(q, "issue") /\ Sid(q) = s

\* What this step may take from the slot behind a claim k of browser c.
Uncovered(c, k) ==
  \/ \E j \in Claims(c) : j.sid = k.sid /\ ~Backed(j)
  \/ Readmitted(k.sid)
  \/ GivenBack(c, k.sid)

PassesKept == \A c \in Clients : \A k \in Claims(c)' : Backed(k)' \/ Uncovered(c, k)

LEMMA TabKeepsPasses ==
  ASSUME BrowsersOK, PassesBounded, SlotsOK, NEW p \in Pages,
         Proceed(p) \/ Visit(p) \/ CloseTab(p) \/ Fail(p)
  PROVE  SlotsOK' /\ PassesKept
<1>0. SlotsOK' /\ KeepsSlots /\ AdmittedTtl \in Nat \ {0}
  BY TabSlotMove, SlotsKept, ClockAssumption
<1>1. ASSUME NEW c \in Clients, NEW k \in Claims(c)'
      PROVE  Backed(k)' \/ Uncovered(c, k)
  <2>1. k.exp \in Nat \ {0} /\ k.exp <= AdmittedTtl + 1
    BY <1>1, ClaimOrigin
  <2>2. ASSUME NEW j \in Claims(c), j.sid = k.sid, j.exp \in Nat, k.exp <= j.exp
        PROVE  Backed(k)' \/ Uncovered(c, k)
    <3>1. CASE ~Backed(j)
      BY <2>2, <3>1 DEF Uncovered
    <3>2. CASE k.exp = 1
      BY <3>2 DEF Backed
    <3>3. CASE Backed(j) /\ k.exp # 1
      <4>1. k.sid \in DOMAIN admitted /\ admitted[k.sid] >= j.exp - 1
        BY <2>1, <2>2, <3>3 DEF Backed
      <4>2. admitted[k.sid] \in Nat
        BY <4>1 DEF SlotsOK, Typed
      <4>3. admitted[k.sid] >= k.exp - 1 /\ k.exp - 1 \in Nat \ {0} /\ k.exp - 1 <= AdmittedTtl
        BY <1>0, <2>1, <2>2, <3>3, <4>1, <4>2
      <4> QED BY <1>0, <4>1, <4>3 DEF KeepsSlots, Backed, Uncovered
    <3> QED BY <3>1, <3>2, <3>3
  <2>3. CASE Hold(k.sid, now) /\ k.sid \in DOMAIN admitted
    <3>1. k.sid \in DOMAIN admitted' /\ admitted'[k.sid] = AdmittedTtl
      BY <1>0, <2>3 DEF Hold, Extended, Put, SlotsOK
    <3> QED BY <1>0, <2>1, <3>1 DEF Backed
  <2> QED BY <1>1, <2>2, <2>3, ClaimOrigin
<1> QED BY <1>0, <1>1 DEF PassesKept

\* A browser gives back no slot but its own.
LEMMA FinishUseKeepsPasses ==
  ASSUME BrowsersOK, Apart, SlotsOK, PassesBounded, NEW p \in Pages, FinishUse(p)
  PROVE  SlotsOK' /\ PassesKept
<1>0. JarsOK /\ BrowserOf[p] \in Clients /\ "pass" \in CookieKinds
  BY VisitorAssumption DEF BrowsersOK, CookieKinds
<1>1. PICK k \in Cookies(p, "pass") :
        /\ Release(k.sid) \/ UNCHANGED vars
        /\ \/ SetCookie(p, "pass", {})
           \/ SetCookie(p, "pass", {[k EXCEPT !.spent = TRUE]})
  BY DEF FinishUse
<1>2. k \in Cookie /\ k \in jar[BrowserOf[p]]["pass"]
  BY <1>0, CookiesTyped DEF Cookies
<1>3. /\ now' = now /\ queue' = queue
      /\ \A s \in DOMAIN admitted : s # k.sid => s \in DOMAIN admitted' /\ admitted'[s] = admitted[s]
      /\ Typed(admitted', Nat)
  <2>1. CASE UNCHANGED vars
    BY <2>1 DEF vars, SlotsOK
  <2>2. CASE Release(k.sid)
    <3>1. Typed(Drop(admitted, {k.sid}), Nat)
      BY DropTyped DEF SlotsOK
    <3> QED BY <2>2, <3>1 DEF Release, Drop, Restrict
  <2> QED BY <1>1, <2>1, <2>2
<1>4. SlotsOK'
  BY <1>3 DEF SlotsOK, Typed
<1>5. k.sid \in Known(BrowserOf[p])
  BY <1>2 DEF Known
<1>6. ASSUME NEW c \in Clients, NEW j \in jar'[c]["pass"], ~j.spent
      PROVE  j \in jar[c]["pass"] /\ c # BrowserOf[p]
  <2>1. /\ {[k EXCEPT !.spent = TRUE]} \in SUBSET Cookie
        /\ \A i \in {[k EXCEPT !.spent = TRUE]} : i.spent
    BY <1>2 DEF Cookie
  <2>2. PICK cookies \in SUBSET Cookie : /\ SetCookie(p, "pass", cookies)
                                        /\ \A g, h \in cookies : g = h
                                        /\ \A i \in cookies : i.spent
    <3>1. CASE SetCookie(p, "pass", {})
      BY <3>1
    <3>2. CASE SetCookie(p, "pass", {[k EXCEPT !.spent = TRUE]})
      BY <2>1, <3>2
    <3> QED BY <1>1, <3>1, <3>2
  <2>3. jar'[c]["pass"] = IF c = BrowserOf[p] THEN cookies ELSE jar[c]["pass"]
    BY <1>0, <2>2, CookieStep
  <2> QED BY <1>6, <2>2, <2>3
<1>7. ASSUME NEW q \in Pages, At(q, "issue")'
      PROVE  At(q, "issue") /\ Coming(q)' = Coming(q)
  <2>1. Moves(p, "away", 0)
    BY PageStep DEF FinishUse, BrowsersOK, Steps, Rests
  <2>2. page'[q] = page[q]
    BY <1>7, <2>1 DEF Moves, At
  <2> QED BY <1>7, <2>2 DEF At, Coming
<1>8. ASSUME NEW c \in Clients, NEW i \in Claims(c)'
      PROVE  Backed(i)' \/ Uncovered(c, i)
  <2>1. i \in Claims(c) /\ (i.sid = k.sid => GivenBack(c, i.sid))
    <3>1. ASSUME NEW j \in jar'[c]["pass"], ~j.spent, i = [sid |-> j.sid, exp |-> j.exp]
          PROVE  i \in Claims(c) /\ i.sid # k.sid
      <4>1. j \in jar[c]["pass"] /\ c # BrowserOf[p]
        BY <1>6, <3>1
      <4>2. j.sid \in Known(c)
        BY <4>1 DEF Known
      <4> QED BY <1>0, <1>5, <3>1, <4>1, <4>2 DEF Apart, Claims
    <3>2. ASSUME NEW q \in Pages, BrowserOf[q] = c, At(q, "issue")', i = Coming(q)'
          PROVE  i \in Claims(c) /\ (i.sid = k.sid => GivenBack(c, i.sid))
      <4>1. At(q, "issue") /\ i = Coming(q)
        BY <1>7, <3>2
      <4>2. i \in Claims(c) /\ i.sid = Sid(q)
        BY <3>2, <4>1 DEF Claims, Coming, Sid
      <4>3. CASE c = BrowserOf[p]
        BY <3>2, <4>1, <4>2, <4>3 DEF GivenBack
      <4>4. CASE c # BrowserOf[p]
        <5>1. i.sid \in Known(c)
          BY <3>2, <4>1, <4>2 DEF Known, HasSid, NeedsSid, At, Sid
        <5> QED BY <1>0, <1>5, <4>2, <4>4, <5>1 DEF Apart
      <4> QED BY <4>2, <4>3, <4>4
    <3>3. \/ \E j \in jar'[c]["pass"] : ~j.spent /\ i = [sid |-> j.sid, exp |-> j.exp]
          \/ \E q \in Pages : BrowserOf[q] = c /\ At(q, "issue")' /\ i = Coming(q)'
      BY <1>8 DEF Claims
    <3> QED BY <3>1, <3>2, <3>3
  <2>2. CASE i.sid = k.sid
    BY <2>1, <2>2 DEF Uncovered
  <2>3. CASE i.sid # k.sid /\ Backed(i)
    BY <1>3, <2>3 DEF Backed
  <2>4. CASE ~Backed(i)
    BY <2>1, <2>4 DEF Uncovered
  <2> QED BY <2>2, <2>3, <2>4
<1> QED BY <1>4, <1>8 DEF PassesKept

\* Claims and slots age together, and a claim that waits for its stamp waits one tick.
LEMMA AgeKeepsPasses ==
  ASSUME BrowsersOK, PassesBounded, SlotsOK, Age
  PROVE  SlotsOK' /\ PassesKept
<1>1. now' = now /\ now = 0 /\ Typed(admitted, Nat) /\ AdmittedTtl \in Nat \ {0}
  BY ClockAssumption DEF Age, SlotsOK
<1>2. /\ DOMAIN admitted' = DOMAIN admitted
      /\ \A s \in DOMAIN admitted : admitted'[s] \in Nat /\ admitted'[s] >= admitted[s] - 1
  <2>1. admitted' = [s \in DOMAIN admitted |-> Max({admitted[s] - 1, 0})]
    BY DEF Age
  <2>2. \A s \in DOMAIN admitted : admitted[s] \in Nat
    BY <1>1 DEF Typed
  <2>3. \A s \in DOMAIN admitted :
          Max({admitted[s] - 1, 0}) = IF admitted[s] - 1 >= 0 THEN admitted[s] - 1 ELSE 0
    BY <2>2, MaxOfTwo
  <2> QED BY <2>1, <2>2, <2>3
<1>3. SlotsOK'
  <2>1. DOMAIN queue' = DOMAIN queue
    BY DEF Age
  <2>2. Typed(admitted', Nat)
    BY <1>1, <1>2 DEF Typed, Age
  <2> QED BY <1>1, <2>1, <2>2 DEF SlotsOK
<1>4. ASSUME NEW c \in Clients, NEW k \in Claims(c)'
      PROVE  /\ k.exp \in Nat \ {0}
             /\ \E j \in Claims(c) : j.sid = k.sid /\ j.exp \in Nat /\ k.exp = j.exp - 1
  <2>1. ASSUME NEW i \in jar'[c]["pass"], ~i.spent, k = [sid |-> i.sid, exp |-> i.exp]
        PROVE  /\ k.exp \in Nat \ {0}
               /\ \E j \in Claims(c) : j.sid = k.sid /\ j.exp \in Nat /\ k.exp = j.exp - 1
    <3>1. PICK j \in jar[c]["pass"] : i.sid = j.sid /\ i.spent = j.spent /\ i.exp = j.exp - 1
      BY <2>1, AgeJars DEF BrowsersOK, CookieKinds
    <3>2. j.exp \in Nat /\ i.exp \in Nat \ {0}
      <4>1. JarsOK'
        BY AgeJars DEF BrowsersOK
      <4>2. i \in Cookie /\ j \in Cookie
        BY <2>1, <4>1 DEF BrowsersOK, JarsOK, Jar
      <4> QED BY <4>2 DEF Cookie
    <3>3. [sid |-> j.sid, exp |-> j.exp] \in Claims(c)
      BY <2>1, <3>1 DEF Claims
    <3> QED BY <2>1, <3>1, <3>2, <3>3
  <2>2. ASSUME NEW q \in Pages, BrowserOf[q] = c, At(q, "issue")', k = Coming(q)'
        PROVE  /\ k.exp \in Nat \ {0}
               /\ \E j \in Claims(c) : j.sid = k.sid /\ j.exp \in Nat /\ k.exp = j.exp - 1
    <3>1. At(q, "issue") /\ ~page[q].due /\ page'[q].due /\ page'[q].sid = page[q].sid
      BY <2>2, AgePages DEF BrowsersOK, At
    <3>2. Coming(q) = [sid |-> page[q].sid, exp |-> AdmittedTtl + 1]
      BY <3>1 DEF Coming
    <3>3. k.sid = page[q].sid /\ k.exp = AdmittedTtl
      BY <1>1, <2>2, <3>1 DEF Coming
    <3>4. Coming(q) \in Claims(c)
      BY <2>2, <3>1 DEF Claims
    <3> QED BY <1>1, <3>2, <3>3, <3>4
  <2>3. \/ \E i \in jar'[c]["pass"] : ~i.spent /\ k = [sid |-> i.sid, exp |-> i.exp]
        \/ \E q \in Pages : BrowserOf[q] = c /\ At(q, "issue")' /\ k = Coming(q)'
    BY <1>4 DEF Claims
  <2> QED BY <2>1, <2>2, <2>3
<1>5. ASSUME NEW c \in Clients, NEW k \in Claims(c)'
      PROVE  Backed(k)' \/ Uncovered(c, k)
  <2>1. PICK j \in Claims(c) : j.sid = k.sid /\ j.exp \in Nat /\ k.exp = j.exp - 1
    BY <1>4, <1>5
  <2>2. CASE Backed(j) /\ j.exp # 1
    <3>1. j.sid \in DOMAIN admitted /\ admitted[j.sid] \in Nat /\ admitted[j.sid] >= j.exp - 1
      BY <1>1, <2>2 DEF Backed, Typed
    <3> QED BY <1>2, <2>1, <3>1 DEF Backed
  <2>3. CASE ~Backed(j)
    BY <2>1, <2>3 DEF Uncovered
  <2>4. j.exp # 1
    BY <1>4, <1>5, <2>1
  <2> QED BY <2>2, <2>3, <2>4
<1> QED BY <1>3, <1>5 DEF PassesKept

LEMMA PassStep ==
  ASSUME BrowsersOK, Apart, SlotsOK, PassesBounded, [VisitorNext]_<<vars, pageVars>>
  PROVE  SlotsOK' /\ PassesKept
<1>1. ASSUME NEW p \in Pages, Proceed(p) \/ Visit(p) \/ CloseTab(p) \/ Fail(p)
      PROVE  SlotsOK' /\ PassesKept
  BY <1>1, TabKeepsPasses
<1>2. CASE \E p \in Pages : FinishUse(p)
  BY <1>2, FinishUseKeepsPasses
<1>3. CASE Operate \/ UNCHANGED <<vars, pageVars>>
  <2>1. SlotMove /\ jar' = jar /\ page' = page
    BY <1>3 DEF Operate, SlotMove, pageVars
  <2>2. SlotsOK' /\ KeepsSlots
    BY <2>1, SlotsKept
  <2>3. ASSUME NEW c \in Clients, NEW k \in Claims(c)'
        PROVE  Backed(k)' \/ Uncovered(c, k)
    <3>1. k \in Claims(c)
      BY <2>1, <2>3 DEF Claims, Coming, At
    <3>2. k.exp \in Nat \ {0} /\ k.exp <= AdmittedTtl + 1
      BY <3>1, PassesAreTyped DEF ClaimsTyped
    <3>3. AdmittedTtl \in Nat
      BY ClockAssumption
    <3> QED BY <2>2, <3>1, <3>2, <3>3 DEF Backed, KeepsSlots, Uncovered
  <2> QED BY <2>2, <2>3 DEF PassesKept
<1>4. CASE Age
  BY <1>4, AgeKeepsPasses
<1> QED BY <1>1, <1>2, <1>3, <1>4 DEF VisitorNext

LEMMA PassesBoundedStep ==
  ASSUME BrowsersOK, PassesBounded, [VisitorNext]_<<vars, pageVars>>
  PROVE  PassesBounded'
<1>0. AdmittedTtl \in Nat
  BY ClockAssumption
<1>1. \A c \in Clients : \A k \in jar[c]["pass"] : k.exp \in Nat
  BY DEF BrowsersOK, JarsOK, Jar, Cookie
<1> SUFFICES ASSUME NEW c \in Clients, NEW k \in jar'[c]["pass"], ~k.spent
             PROVE  k.exp <= AdmittedTtl
  BY DEF PassesBounded
<1>2. CASE k \in jar[c]["pass"]
  BY <1>2 DEF PassesBounded
<1>3. ASSUME NEW p \in Pages, TabStep(p) PROVE k.exp <= AdmittedTtl
  BY <1>2, <1>3, PassOrigin
<1>4. CASE Age
  <2>1. PICK j \in jar[c]["pass"] : k.spent = j.spent /\ k.exp = j.exp - 1
    BY <1>4, AgeJars DEF BrowsersOK, CookieKinds
  <2> QED BY <1>0, <1>1, <2>1 DEF PassesBounded
<1> QED BY <1>2, <1>3, <1>4, VisitorMoves

PassInv == BrowsersOK /\ Apart /\ SlotsOK /\ PassesBounded

LEMMA PassInvHolds == VisitorSpec => []PassInv
<1>1. VisitorInit => PassInv
  <2> SUFFICES ASSUME VisitorInit PROVE SlotsOK /\ PassesBounded
    BY BrowsersInit, ApartInit DEF PassInv
  <2> QED BY EmptyTyped DEF VisitorInit, Init, SlotsOK, PassesBounded
<1>2. PassInv /\ [VisitorNext]_<<vars, pageVars>> => PassInv'
  BY BrowsersStep, ApartStep, PassStep, PassesBoundedStep DEF PassInv
<1> QED BY <1>1, <1>2, PTL DEF VisitorSpec

\* Whatever the room's limits, and whatever time passes between holding a slot and
\* stamping the pass for it: an unspent pass, or one on its way, that has no slot until
\* its last tick was so before this step, or this step gives its session, which had
\* taken a new place in line, the shorter deadline of a fresh admission
\* (admit_batch.lua 86-94), or another tab of its browser gives the slot back between
\* the two (engine.py 332-335).  No other browser, no reclaim and no tick takes the
\* slot behind a pass.
THEOREM PassesLoseSlotsOnlyToTheirOwnPlace == VisitorSpec => [][PassesKept]_<<vars, pageVars>>
<1>1. PassInv /\ [VisitorNext]_<<vars, pageVars>> => PassesKept
  BY PassStep DEF PassInv
<1> QED BY <1>1, PassInvHolds, PTL DEF VisitorSpec

ClaimsBacked == \A c \in Clients : \A k \in Claims(c) : Backed(k)

LEMMA ClaimsBackedIsPassHasSlot ==
  ASSUME ClaimsBacked
  PROVE  PassHasSlot
<1> SUFFICES ASSUME NEW c \in Clients, NEW k \in jar[c]["pass"], ~k.spent, k.exp # 1
             PROVE  k.sid \in DOMAIN admitted /\ admitted[k.sid] >= k.exp - 1
  BY DEF PassHasSlot
<1>1. [sid |-> k.sid, exp |-> k.exp] \in Claims(c)
  BY DEF Claims
<1> QED BY <1>1 DEF ClaimsBacked, Backed

\* A pass is good for a slot until its last tick where a browser has one tab, in every
\* room of one slot and in every room whose fresh admissions last as long as its
\* passes.  Elsewhere a session can be in line and in a slot at once, and then the
\* batch that pops its place shortens the slot; and of two tabs that are let in
\* together, one can give back the slot of the other before it has its pass.
THEOREM PassesHaveSlots ==
  ASSUME Capacity = 1 \/ Grace >= AdmittedTtl,
         \A p, q \in Pages : BrowserOf[p] = BrowserOf[q] => p = q
  PROVE  VisitorSpec => []PassHasSlot
<1>1. VisitorInit => ClaimsBacked
  BY DEF VisitorInit, ClaimsBacked, Claims, At, NoPage
<1>2. PassInv => ClaimsTyped
  BY PassesAreTyped DEF PassInv
<1>3. PassInv /\ ClaimsTyped' /\ ClaimsBacked /\ [VisitorNext]_<<vars, pageVars>> => ClaimsBacked'
  <2> SUFFICES ASSUME PassInv, ClaimsTyped', ClaimsBacked, [VisitorNext]_<<vars, pageVars>>,
                      NEW c \in Clients, NEW k \in Claims(c)'
               PROVE  Backed(k)'
    BY DEF ClaimsBacked
  <2>1. PassesKept
    BY PassStep DEF PassInv
  <2>2. ~GivenBack(c, k.sid)
    BY DEF GivenBack, FinishUse, At
  <2>3. CASE Readmitted(k.sid)
    <3>1. k.exp \in Nat /\ k.exp <= AdmittedTtl + 1
      BY DEF ClaimsTyped
    <3>2. Grace \in Nat /\ AdmittedTtl \in Nat /\ now = 0
      BY ClockAssumption DEF PassInv, SlotsOK
    <3> QED BY <2>3, <3>1, <3>2 DEF Readmitted, Backed
  <2> QED BY <2>1, <2>2, <2>3 DEF PassesKept, Uncovered, ClaimsBacked
<1> QED BY <1>1, <1>2, <1>3, PassInvHolds, ClaimsBackedIsPassHasSlot, PTL DEF VisitorSpec

============================================================================
