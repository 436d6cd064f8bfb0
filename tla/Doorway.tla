------------------------------ MODULE Doorway ------------------------------
(***************************************************************************)
(* The way into the line: a process starts with its settings and builds    *)
(* its registry, the middleware decides which requests a room guards and   *)
(* which client sent them, and WaitingRoom.enqueue asks the rate limiter   *)
(* and then the store, which may answer that the session is another        *)
(* client's.  Each thread of the process serves a request step by step;    *)
(* all that is done to the store elsewhere may happen between the steps.   *)
(***************************************************************************)
EXTENDS RoomStore, Settings

CONSTANTS
  Threads,       \* threads that serve requests
  SettingsRead,  \* the settings a process may be started with
  Served,        \* the setting whose room Main the constants of RoomStore describe
  Main,          \* the room whose store is modelled
  Requests,      \* what may be asked for: [path, forged, user], with the hops the
                 \* client puts into X-Forwarded-For and the user id, "" if none
  Proxies,       \* reverse proxies in front of the process
  Limit,         \* rate_limit_per_ip_per_minute
  Window         \* the limiter's window_seconds, in ticks

ServedRoom == Served.rooms[Main]

\* What parses as an address.
IsIp(text) == text # "junk"

\* A client is its address and its user-agent hash, as Fingerprint has it.
ASSUME DoorwayAssumption ==
  /\ \A c \in Clients : c \in STRING \X STRING /\ IsIp(c[1])
  /\ \A r \in Requests : r.forged \in Seq(STRING)
  /\ \A read \in SettingsRead : \A name \in DOMAIN read.rooms : read.rooms[name] \in Raw
  /\ Served \in SettingsRead /\ Loads(Served) /\ Main \in DOMAIN RoomsAsked(Served)
  /\ AdmissionLimits(ServedRoom).capacity = Capacity
  /\ ServedRoom.limit = Limit /\ Limit \in Nat \ {0}
  /\ ServedRoom.proxies = Proxies /\ Proxies \in Nat
  /\ Window \in Nat \ {0}

VARIABLES
  process,  \* whether the process is "starting", "serving" or "dead"
  setting,  \* its WAITING_ROOM
  rooms,    \* registry._rooms: name -> what the room was built from
  request,  \* each thread's request, and the step it is at
  hits,     \* the limiter's keys: address -> requests counted, last tick of the window
  refused   \* address -> first refusal since one was let through; not part of the code

site == <<process, setting, rooms>>
doorVars == <<site, request, hits, refused>>

Nothing == [at |-> "none", path |-> "", user |-> "", sender |-> <<>>, client |-> <<>>,
            sid |-> 0, score |-> 0]

DoorInit ==
  /\ Init
  /\ process = "starting"
  /\ setting \in SettingsRead
  /\ rooms = NoRooms
  /\ request = [w \in Threads |-> Nothing]
  /\ hits = Empty
  /\ refused = Empty

At(w, step) == request[w].at = step
Goto(w, step) == request' = [request EXCEPT ![w].at = step]
Done(w) == request' = [request EXCEPT ![w] = Nothing]

----------------------------------------------------------------------------
(* AppConfig.ready and the registry                                        *)

Built == Restrict(RoomsAsked(setting),
                  {name \in DOMAIN RoomsAsked(setting) : EngineBuilds(setting.rooms[name])})

\* wrong: a room that cannot be built is left out (ProtectedIsGuarded)
MayServeRest == Loads(setting)

\* What raises while rooms are read or built ends the process before it serves.
MayServe == Loads(setting) /\ Built = RoomsAsked(setting)

StartProcess ==
  /\ process = "starting"
  /\ MayServe
  /\ process' = "serving"
  /\ rooms' = Built
  /\ UNCHANGED <<vars, setting, request, hits, refused>>

ProcessDies ==
  /\ process = "starting"
  /\ ~MayServe
  /\ process' = "dead"
  /\ UNCHANGED <<vars, setting, rooms, request, hits, refused>>

----------------------------------------------------------------------------
(* The middleware                                                          *)

Covers(prefix, path) == prefix \in {"/", path}

\* The first entry of PROTECT that covers the path, if there is one.
Specs(path) == SelectSeq(ProtectedPathSpecs(setting), LAMBDA spec : Covers(spec[1], path))

\* _match_room: a room that is not registered is logged, and guards nothing.
MatchRoom(path) == IF Specs(path) = <<>> THEN {} ELSE {Specs(path)[1][2]} \cap DOMAIN rooms

\* The routes of the waiting room itself.
IsInternalPath(path) == path = "page"

\* What the last proxy, or the client itself, connects from, and the header as it
\* arrives: each proxy has appended the address it was reached from.
Remote(c) == IF Proxies = 0 THEN c[1] ELSE "proxy"
Header(c, forged) ==
  forged \o (IF Proxies = 0 THEN <<>> ELSE <<c[1]>> \o [i \in 1..(Proxies - 1) |-> "proxy"])

\* wrong: the hops are counted from the left (SenderIsKnown)
CandidateFromLeft(hops, trusted) == hops[Min({trusted, Len(hops)})]

Candidate(hops, trusted) ==
  IF Len(hops) >= trusted THEN hops[Len(hops) - trusted + 1] ELSE hops[1]

ClientIp(remote, hops, trusted) ==
  IF trusted > 0 /\ hops # <<>> /\ IsIp(Candidate(hops, trusted))
  THEN Candidate(hops, trusted)
  ELSE IF IsIp(remote) THEN remote ELSE ""

IsAllowlisted(raw, ip, user) == ip \in raw.allowed \ {""} \/ user \in raw.users \ {""}

\* guard, for a client without a pass or a ticket.
ClientIpFor(name, c, r) == ClientIp(Remote(c), Header(c, r.forged), rooms[name].proxies)

GuardedBy(name, c, r) ==
  ~IsInternalPath(r.path) /\ ~IsAllowlisted(rooms[name], ClientIpFor(name, c, r), r.user)

\* The request goes to the view it is for.
PassThrough(w, c, r) ==
  /\ process = "serving" /\ At(w, "none")
  /\ \A name \in MatchRoom(r.path) : ~GuardedBy(name, c, r)
  /\ request' = [request EXCEPT ![w] = [Nothing EXCEPT !.at = "passed", !.path = r.path,
                                                       !.user = r.user, !.sender = c]]
  /\ UNCHANGED <<vars, site, hits, refused>>

\* The request is for the line: the session is made, and scored, with the id the
\* cookie brings, whoever's it is, or a new one.
StartEnqueue(w, c, r, s) ==
  /\ process = "serving" /\ At(w, "none")
  /\ setting = Served
  /\ Main \in MatchRoom(r.path)
  /\ GuardedBy(Main, c, r)
  /\ request' = [request EXCEPT
       ![w] = [Nothing EXCEPT !.at = "acquire", !.sender = c, !.sid = s, !.score = now,
                              !.client = <<ClientIpFor(Main, c, r), c[2]>>]]
  /\ UNCHANGED <<vars, site, hits, refused>>

----------------------------------------------------------------------------
(* RedisRateLimiter.acquire: INCR, and EXPIRE by the request that made the *)
(* key.  What is counted beyond Limit + 1 makes no difference.             *)

Hit(a, count, last) == Put(hits, {a}, [count |-> count, last |-> last])

\* wrong: EXPIRE by every request (RefusedNotForLong)
CountedSliding(a) ==
  IF a \in DOMAIN hits
  THEN Hit(a, Min({hits[a].count + 1, Limit + 1}), now + Window)
  ELSE Hit(a, 1, now + Window)

Counted(a) ==
  IF a \in DOMAIN hits
  THEN Hit(a, Min({hits[a].count + 1, Limit + 1}), hits[a].last)
  ELSE Hit(a, 1, now + Window)

\* wrong: one request more is let through (PlacesWithinLimit)
WithinAlmost(a) == Counted(a)[a].count <= Limit + 1

Within(a) == Counted(a)[a].count <= Limit

Count(a) ==
  /\ hits' = Counted(a)
  /\ refused' = IF Within(a) THEN Drop(refused, {a})
                ELSE IF a \in DOMAIN refused THEN refused ELSE Put(refused, {a}, now)
  /\ UNCHANGED <<vars, site>>

\* "Too many requests" ends the request.
Acquire(w) ==
  /\ At(w, "acquire")
  /\ Count(request[w].client[1])
  /\ IF Within(request[w].client[1]) THEN Goto(w, "store") ELSE Done(w)

----------------------------------------------------------------------------
(* _store_session                                                          *)

Foreign(c, s) == s \in DOMAIN hash /\ ~MayUse(c, s)
NewIds == Sids \ (DOMAIN queue \cup DOMAIN hash \cup DOMAIN admitted)

\* A place is kept or taken; or the room is closed, or the session still admitted.
Store(w) ==
  /\ At(w, "store")
  /\ LET c == request[w].client
         s == request[w].sid
     IN \/ KeepPlace(c, s, now)
        \/ JoinLine(c, s, request[w].score, now)
        \/ /\ Refused \/ (s \in DOMAIN hash \cap DOMAIN admitted /\ MayUse(c, s))
           /\ UNCHANGED vars
  /\ Done(w)
  /\ UNCHANGED <<site, hits, refused>>

StoreForeign(w) ==
  /\ At(w, "store")
  /\ ~Refused
  /\ Foreign(request[w].client, request[w].sid)
  /\ request' = [request EXCEPT ![w].at = "again", ![w].sid = 0]
  /\ UNCHANGED <<vars, site, hits, refused>>

\* With a new id, and the score of before.
StoreAgain(w) ==
  /\ At(w, "again")
  /\ \/ \E s \in NewIds : JoinLine(request[w].client, s, request[w].score, now)
     \/ Refused /\ UNCHANGED vars
  /\ Done(w)
  /\ UNCHANGED <<site, hits, refused>>

\* A command fails; the request may have been counted all the same.  (A place that
\* was taken although the answer got lost is what Store leaves.)
Fail(w) ==
  /\ request[w].at \in {"acquire", "store", "again"}
  /\ \/ At(w, "acquire") /\ Count(request[w].client[1])
     \/ UNCHANGED <<vars, site, hits, refused>>
  /\ IF rooms[Main].mode = "fail_open" THEN Goto(w, "failed open") ELSE Done(w)

\* The answer is sent.
Answer(w) ==
  /\ request[w].at \in {"passed", "failed open"}
  /\ Done(w)
  /\ UNCHANGED <<vars, site, hits, refused>>

----------------------------------------------------------------------------
(* What the other requests, the operator and the clock do meanwhile.       *)

Others ==
  /\ process = "serving" /\ setting = Served
  /\ \/ \E s \in Sids : Position(s, now) \/ Hold(s, now) \/ Release(s) \/ Remove(s)
     \/ \E maxN \in 1..MaxBatch : AdmitBatch(maxN, now)
     \/ Reclaim(now, now)
     \/ SetKillSwitch(~killswitch)
  /\ UNCHANGED doorVars

DoorTick ==
  /\ process = "serving" /\ setting = Served
  /\ Tick
  /\ hits' = Drop(hits, {a \in DOMAIN hits : hits[a].last < now'})
  /\ UNCHANGED <<site, request, refused>>

DoorNext ==
  \/ StartProcess \/ ProcessDies
  \/ \E w \in Threads, c \in Clients, r \in Requests :
       PassThrough(w, c, r) \/ \E s \in Sids : StartEnqueue(w, c, r, s)
  \/ \E w \in Threads :
       Acquire(w) \/ Store(w) \/ StoreForeign(w) \/ StoreAgain(w) \/ Fail(w) \/ Answer(w)
  \/ Others
  \/ DoorTick

DoorSpec == DoorInit /\ [][DoorNext]_<<vars, doorVars>>

----------------------------------------------------------------------------
(* Properties                                                              *)

\* Every room a process serves has limits the store can enforce, and one of them
\* at least: 0 means "unlimited" to the scripts, so a capacity_aware room whose
\* slots fall back to CAPACITY 0 must not get that far.  The exception is a rate of
\* NaN, which is let through and limits nothing (settings.py 46, admit_batch.lua 61).
\* And in a setting made of dicts, what was let through here is what the system
\* checks, which read it a second time, have nothing against; they refuse other
\* mappings that are served (conf.py 39-97 and 139-153, settings.py 43-61 and
\* 162-192, checks.py 50-70 and 103-111).
ServedRoomsAreSound ==
  /\ \A name \in DOMAIN rooms :
       LET limits == AdmissionLimits(rooms[name])
       IN /\ limits.capacity \in Nat /\ limits.rate \in Nat \cup {NaN}
          /\ limits.capacity > 0 \/ limits.rate > 0 \/ limits.rate = NaN
          /\ rooms[name].ttl > 0
  /\ rooms # NoRooms /\ setting.shape \in Dicts => CheckErrors(setting) = {}

\* The client a request is counted against, and that will own its session, is the
\* one that sent it, whatever it writes into X-Forwarded-For (_request.py 24-31).
SenderIsKnown ==
  \A w \in Threads : request[w].client # <<>> => request[w].client = request[w].sender

\* A request for a path under PROTECT reaches the view unguarded only on the room's
\* own routes or for someone on the allowlist, never because a configured room is
\* missing from the registry or a client names an address that is on the list
\* (middleware.py 39-60, registry.py 16-35).  What the first entry covering the
\* path names must be in the setting, and TRUSTED_PROXY_COUNT be true.
ProtectedIsGuarded ==
  \A w \in Threads : At(w, "passed") =>
    LET passed == request[w]
    IN \/ IsInternalPath(passed.path)
       \/ Specs(passed.path) = <<>>
       \/ LET name == Specs(passed.path)[1][2]
          IN \/ name \notin DOMAIN RoomsAsked(setting)
             \/ setting.rooms[name].proxies # Proxies
             \/ passed.sender[1] \in setting.rooms[name].allowed
             \/ passed.user \in setting.rooms[name].users

\* Whatever else arrives from an address, it is not refused for longer than one
\* window without a request let through (ratelimit.py 3-7: "a key is always
\* released window_seconds after its window opened").
RefusedNotForLong ==
  \A a \in DOMAIN refused : ~Within(a) => now <= refused[a] + Window

\* The places in line taken from an address since its window opened.
PlacesOf(a) ==
  {s \in DOMAIN queue \cap DOMAIN hash :
     hash[s].owner[1] = a /\ queue[s] >= hits[a].last - Window}

\* However many requests are under way, and however late they reach the store, an
\* address takes no more places in a window than the limit, a new id for another
\* client's session included (engine.py 227-237).
PlacesWithinLimit == \A a \in DOMAIN hits : Cardinality(PlacesOf(a)) <= Limit

============================================================================
