--------------------------- MODULE DoorwayProofs ---------------------------
(***************************************************************************)
(* Who is let in without waiting, for whom the line is joined, and how     *)
(* often: for every setting, every number of proxies and threads, and      *)
(* whatever a client writes into X-Forwarded-For.                          *)
(***************************************************************************)
EXTENDS Doorway, RoomActionProofs, SequenceTheorems

\* The address appended by the first trusted proxy is found behind any number of
\* forged ones.
LEMMA SenderFound ==
  ASSUME NEW c \in Clients, NEW forged \in Seq(STRING)
  PROVE  ClientIp(Remote(c), Header(c, forged), Proxies) = c[1]
<1> DEFINE Text == STRING \cup {"proxy"}
<1>1. c[1] \in Text /\ IsIp(c[1]) /\ Proxies \in Nat
  BY DoorwayAssumption
<1>2. CASE Proxies = 0
  BY <1>1, <1>2 DEF ClientIp, Remote
<1>3. CASE Proxies # 0
  <2> DEFINE tail == [i \in 1..(Proxies - 1) |-> "proxy"]
             own == <<c[1]>> \o tail
             hops == forged \o own
  <2>0. forged \in Seq(Text)
    BY SeqMonotonic
  <2>1. Proxies - 1 \in Nat /\ Proxies > 0
    BY <1>1, <1>3
  <2>2. tail \in Seq(Text) /\ Len(tail) = Proxies - 1
    <3> DEFINE n == Proxies - 1
    <3>1. tail \in [1..n -> Text] /\ n \in Nat
      BY <2>1
    <3>2. tail \in Seq(Text)
      BY <3>1, SeqDef
    <3>3. DOMAIN tail = 1..Len(tail) /\ Len(tail) \in Nat /\ DOMAIN tail = 1..n
      BY <3>1, <3>2, LenProperties
    <3> HIDE DEF n, tail
    <3>4. Len(tail) = n
      <4>1. \A i \in Nat : i \in 1..n <=> i \in 1..Len(tail)
        BY <3>3
      <4> QED BY <3>1, <3>3, <4>1
    <3> QED BY <3>2, <3>4 DEF n
  <2>3. <<c[1]>> \in Seq(Text) /\ Len(<<c[1]>>) = 1
    BY <1>1
  <2> HIDE DEF tail
  <2>4. own \in Seq(Text) /\ Len(own) = Proxies /\ own[1] = c[1]
    <3>1. Len(own) = 1 + (Proxies - 1) /\ own \in Seq(Text)
      BY <2>2, <2>3, ConcatProperties
    <3>2. own[1] = <<c[1]>>[1]
      BY <2>1, <2>2, <2>3, ConcatProperties
    <3> QED BY <1>1, <3>1, <3>2
  <2> HIDE DEF own
  <2>5. hops \in Seq(Text) /\ Len(hops) = Len(forged) + Proxies /\ Len(forged) \in Nat
    BY <2>0, <2>4, ConcatProperties, LenProperties
  <2>6. hops[Len(forged) + 1] = c[1]
    <3>1. Len(forged) + 1 \in 1 .. Len(forged) + Len(own)
      BY <2>1, <2>4, <2>5
    <3>2. hops[Len(forged) + 1] = own[Len(forged) + 1 - Len(forged)]
      BY <2>0, <2>4, <2>5, <3>1, ConcatProperties
    <3>3. Len(forged) + 1 - Len(forged) = 1
      BY <2>5
    <3> QED BY <2>4, <3>2, <3>3
  <2>7. Header(c, forged) = hops
    BY <1>3 DEF Header, own, tail
  <2> HIDE DEF hops
  <2>8. hops # <<>> /\ Len(hops) >= Proxies /\ Len(hops) - Proxies + 1 = Len(forged) + 1
    BY <1>1, <2>1, <2>5, EmptySeq
  <2>9. Candidate(hops, Proxies) = c[1]
    BY <2>6, <2>8 DEF Candidate
  <2> QED BY <1>1, <2>1, <2>7, <2>8, <2>9 DEF ClientIp
<1> QED BY <1>2, <1>3

----------------------------------------------------------------------------
(* The registry: a process that serves has built every room of its setting. *)

RegistryOK ==
  /\ setting \in SettingsRead
  /\ process = "serving" => rooms = RoomsAsked(setting) /\ MayServe
  /\ process # "serving" => rooms = NoRooms

RequestsOK ==
  /\ DOMAIN request = Threads
  /\ \A w \in Threads : DOMAIN request[w] = DOMAIN Nothing

\* A request keeps what was found out about its sender until it is answered.
SameSender(w) ==
  /\ request'[w].path = request[w].path
  /\ request'[w].user = request[w].user
  /\ request'[w].sender = request[w].sender
  /\ request'[w].client = request[w].client

Forgotten(w) == request'[w].at = "none" /\ request'[w].client = <<>>

\* A request gets past the middleware, or into the line.
Passes(w, c, r) ==
  /\ PassThrough(w, c, r)
  /\ request'[w].path = r.path /\ request'[w].user = r.user
  /\ request'[w].sender = c /\ request'[w].client = <<>>

Enters(w, c, r, s) ==
  /\ StartEnqueue(w, c, r, s)
  /\ request'[w].at = "acquire" /\ request'[w].sender = c
  /\ request'[w].client = <<ClientIpFor(Main, c, r), c[2]>>

\* Where a request comes from and where it goes, as far as the theorems tell.
LEMMA RequestStep ==
  ASSUME RequestsOK, [DoorNext]_<<vars, doorVars>>, NEW w \in Threads
  PROVE  \/ Forgotten(w)
         \/ SameSender(w) /\ request'[w].at \in {request[w].at, "store", "again", "failed open"}
         \/ \E c \in Clients, r \in Requests : Passes(w, c, r)
         \/ \E c \in Clients, r \in Requests, s \in Sids : Enters(w, c, r, s)
<1> USE DEF RequestsOK
<1> DEFINE Goal == \/ Forgotten(w)
                   \/ SameSender(w) /\ request'[w].at \in {request[w].at, "store", "again", "failed open"}
<1>1. ASSUME request' = request PROVE Goal
  BY <1>1 DEF SameSender
<1>2. ASSUME NEW v \in Threads, Done(v) PROVE Goal
  BY <1>2 DEF Done, Nothing, Forgotten, SameSender
<1>3. ASSUME NEW v \in Threads, NEW step \in {"store", "failed open"}, Goto(v, step) PROVE Goal
  <2>1. DOMAIN request[v] = {"at", "path", "user", "sender", "client", "sid", "score"}
    BY DEF Nothing
  <2>2. SameSender(w)
    BY <1>3, <2>1 DEF Goto, SameSender
  <2>3. request'[w].at \in {request[w].at, step}
    BY <1>3, <2>1 DEF Goto
  <2> QED BY <2>2, <2>3
<1>4. ASSUME NEW v \in Threads, StoreForeign(v) PROVE Goal
  BY <1>4 DEF StoreForeign, Nothing, SameSender
<1>5. ASSUME NEW v \in Threads, Acquire(v) \/ Store(v) \/ StoreAgain(v) \/ Fail(v) \/ Answer(v)
      PROVE  Goal
  BY <1>2, <1>3, <1>5 DEF Acquire, Store, StoreAgain, Fail, Answer
<1>6. ASSUME StartProcess \/ ProcessDies \/ Others \/ DoorTick \/ UNCHANGED <<vars, doorVars>>
      PROVE  Goal
  BY <1>1, <1>6 DEF StartProcess, ProcessDies, Others, DoorTick, doorVars
<1>7. ASSUME NEW v \in Threads, NEW c \in Clients, NEW r \in Requests, PassThrough(v, c, r)
      PROVE  Goal \/ Passes(w, c, r)
  BY <1>7 DEF PassThrough, SameSender, Nothing, Passes
<1>8. ASSUME NEW v \in Threads, NEW c \in Clients, NEW r \in Requests, NEW s \in Sids,
             StartEnqueue(v, c, r, s)
      PROVE  Goal \/ Enters(w, c, r, s)
  BY <1>8 DEF StartEnqueue, SameSender, Nothing, Enters
<1> HIDE DEF Goal
<1>9. \/ Goal
      \/ \E v \in Threads, c \in Clients, r \in Requests : PassThrough(v, c, r)
      \/ \E v \in Threads, c \in Clients, r \in Requests, s \in Sids : StartEnqueue(v, c, r, s)
  BY <1>4, <1>5, <1>6 DEF DoorNext
<1> QED BY <1>7, <1>8, <1>9, Zenon DEF Goal

LEMMA RequestsStep ==
  ASSUME RequestsOK, [DoorNext]_<<vars, doorVars>>
  PROVE  RequestsOK'
<1> USE DEF RequestsOK
<1>1. ASSUME request' = request PROVE RequestsOK'
  BY <1>1
<1>2. ASSUME NEW v \in Threads, Done(v) PROVE RequestsOK'
  BY <1>2 DEF Done
<1>3. ASSUME NEW v \in Threads, Goto(v, "store") \/ Goto(v, "failed open") PROVE RequestsOK'
  BY <1>3 DEF Goto
<1>4. ASSUME NEW v \in Threads, Acquire(v) \/ Store(v) \/ StoreAgain(v) \/ Fail(v) \/ Answer(v)
      PROVE  RequestsOK'
  BY <1>2, <1>3, <1>4 DEF Acquire, Store, StoreAgain, Fail, Answer
<1>5. ASSUME NEW v \in Threads, StoreForeign(v) PROVE RequestsOK'
  BY <1>5 DEF StoreForeign
<1>6. ASSUME NEW v \in Threads, NEW c \in Clients, NEW r \in Requests, PassThrough(v, c, r)
      PROVE  RequestsOK'
  BY <1>6 DEF PassThrough
<1>7. ASSUME NEW v \in Threads, NEW c \in Clients, NEW r \in Requests, NEW s \in Sids,
             StartEnqueue(v, c, r, s)
      PROVE  RequestsOK'
  BY <1>7 DEF StartEnqueue
<1>8. ASSUME StartProcess \/ ProcessDies \/ Others \/ DoorTick \/ UNCHANGED <<vars, doorVars>>
      PROVE  RequestsOK'
  BY <1>1, <1>8 DEF StartProcess, ProcessDies, Others, DoorTick, doorVars
<1> QED BY <1>4, <1>5, <1>6, <1>7, <1>8 DEF DoorNext

LEMMA RegistryStep ==
  ASSUME RegistryOK, [DoorNext]_<<vars, doorVars>>
  PROVE  RegistryOK' /\ setting' = setting
<1>1. ASSUME UNCHANGED site PROVE RegistryOK' /\ setting' = setting
  BY <1>1 DEF site, RegistryOK, MayServe, Built
<1>2. CASE StartProcess
  BY <1>2 DEF StartProcess, MayServe, Built, RegistryOK
<1>3. CASE ProcessDies
  BY <1>3 DEF ProcessDies, RegistryOK
<1>4. ASSUME NEW v \in Threads, Acquire(v) \/ Fail(v) PROVE UNCHANGED site
  BY <1>4 DEF Acquire, Fail, Count
<1>5. ASSUME NEW v \in Threads, Store(v) \/ StoreForeign(v) \/ StoreAgain(v) \/ Answer(v)
      PROVE  UNCHANGED site
  BY <1>5 DEF Store, StoreForeign, StoreAgain, Answer
<1>6. ASSUME NEW v \in Threads, NEW c \in Clients, NEW r \in Requests,
             PassThrough(v, c, r) \/ \E s \in Sids : StartEnqueue(v, c, r, s)
      PROVE  UNCHANGED site
  BY <1>6 DEF PassThrough, StartEnqueue
<1>7. ASSUME Others \/ DoorTick \/ UNCHANGED <<vars, doorVars>> PROVE UNCHANGED site
  BY <1>7 DEF Others, DoorTick, doorVars
<1> QED BY <1>1, <1>2, <1>3, <1>4, <1>5, <1>6, <1>7 DEF DoorNext

DoorOK == RegistryOK /\ RequestsOK

\* A process that serves has the rooms of the setting it was started with, all of them
\* built, and each thread a request (registry.py 16-35, apps.py ready).
THEOREM DoorHolds == DoorSpec => []DoorOK
<1>1. DoorInit => DoorOK
  BY DEF DoorInit, DoorOK, RegistryOK, RequestsOK
<1>2. DoorOK /\ [DoorNext]_<<vars, doorVars>> => DoorOK'
  BY RegistryStep, RequestsStep DEF DoorOK
<1> QED BY <1>1, <1>2, PTL DEF DoorSpec

\* A serving process has a room for every name its setting gives one, with the values
\* that were read for it.
LEMMA RoomsServed ==
  ASSUME RegistryOK, process = "serving", NEW name \in DOMAIN rooms
  PROVE  /\ name \in DOMAIN RoomsAsked(setting) /\ DOMAIN rooms = DOMAIN RoomsAsked(setting)
         /\ rooms[name] = setting.rooms[name] /\ rooms[name] \in Raw
         /\ RoomBuilds(name, rooms[name]) /\ setting.shape \in HasRooms /\ rooms = setting.rooms
<1>1. rooms = RoomsAsked(setting) /\ Loads(setting) /\ setting \in SettingsRead
  BY DEF RegistryOK, MayServe
<1>2. setting.shape \in HasRooms
  BY <1>1 DEF RoomsAsked, NoRooms
<1>3. rooms = setting.rooms
  BY <1>1, <1>2 DEF RoomsAsked
<1>4. RoomBuilds(name, rooms[name])
  BY <1>1, <1>3 DEF Loads
<1> QED BY <1>1, <1>2, <1>3, <1>4, DoorwayAssumption

LEMMA ClientIsSender ==
  ASSUME DoorOK, NEW w, NEW c \in Clients, NEW r \in Requests, NEW s, StartEnqueue(w, c, r, s)
  PROVE  <<ClientIpFor(Main, c, r), c[2]>> = c
<1>1. rooms = RoomsAsked(Served) /\ Main \in DOMAIN rooms
  BY DoorwayAssumption DEF StartEnqueue, DoorOK, RegistryOK
<1>2. rooms[Main].proxies = Proxies
  BY <1>1, RoomsServed, DoorwayAssumption DEF StartEnqueue, DoorOK, ServedRoom
<1>3. ClientIpFor(Main, c, r) = c[1]
  BY <1>2, SenderFound, DoorwayAssumption DEF ClientIpFor
<1> QED BY <1>3, DoorwayAssumption

\* The client that a request is counted against, and that will own its session, is its
\* sender, for any number of proxies and whatever addresses are forged
\* (_request.py 24-31).
THEOREM SendersAreKnown == DoorSpec => []SenderIsKnown
<1>1. DoorInit => SenderIsKnown
  <2>1. Nothing.client = <<>>
    BY DEF Nothing
  <2> QED BY <2>1 DEF DoorInit, SenderIsKnown
<1>2. DoorOK /\ SenderIsKnown /\ [DoorNext]_<<vars, doorVars>> => SenderIsKnown'
  <2> SUFFICES ASSUME DoorOK, SenderIsKnown, [DoorNext]_<<vars, doorVars>>,
                      NEW w \in Threads, request'[w].client # <<>>
               PROVE  request'[w].client = request'[w].sender
    BY DEF SenderIsKnown
  <2> QED BY RequestStep, ClientIsSender
         DEF DoorOK, SenderIsKnown, SameSender, Forgotten, Passes, Enters
<1> QED BY <1>1, <1>2, DoorHolds, PTL DEF DoorSpec

\* What ProtectedIsGuarded says of a request, by the setting that is read.
SpecsIn(read, path) ==
  SelectSeq(ProtectedPathSpecs(read), LAMBDA spec : Covers(spec[1], path))

RightIn(read, passed) ==
  \/ IsInternalPath(passed.path)
  \/ SpecsIn(read, passed.path) = <<>>
  \/ LET name == SpecsIn(read, passed.path)[1][2]
     IN \/ name \notin DOMAIN RoomsAsked(read)
        \/ read.rooms[name].proxies # Proxies
        \/ passed.sender[1] \in read.rooms[name].allowed
        \/ passed.user \in read.rooms[name].users

AllRight == \A w \in Threads : At(w, "passed") => RightIn(setting, request[w])

\* Nobody passes a room's guard unseen: a protected path is reached without a pass
\* only through the waiting room's own routes or from the allowlist, whatever a
\* setting contains beside it (middleware.py 39-60, registry.py 16-35).
THEOREM ProtectedRoomsAreGuarded == DoorSpec => []ProtectedIsGuarded
<1>1. DoorInit => AllRight
  <2>1. Nothing.at = "none"
    BY DEF Nothing
  <2> QED BY <2>1 DEF DoorInit, AllRight, At
<1>2. DoorOK /\ AllRight /\ [DoorNext]_<<vars, doorVars>> => AllRight'
  <2> SUFFICES ASSUME DoorOK, AllRight, [DoorNext]_<<vars, doorVars>>,
                      NEW w \in Threads, request'[w].at = "passed"
               PROVE  RightIn(setting', request'[w])
    BY DEF AllRight, At
  <2>1. setting' = setting
    BY RegistryStep DEF DoorOK
  <2>2. CASE request[w].at = "passed" /\ SameSender(w)
    <3>1. RightIn(setting, request[w])
      BY <2>2 DEF AllRight, At
    <3> QED BY <2>1, <2>2, <3>1 DEF SameSender, RightIn
  <2>3. ASSUME NEW c \in Clients, NEW r \in Requests, Passes(w, c, r)
        PROVE  RightIn(setting, request'[w])
    <3> DEFINE name == SpecsIn(setting, r.path)[1][2]
    <3>1. SUFFICES ASSUME SpecsIn(setting, r.path) # <<>>, name \in DOMAIN RoomsAsked(setting),
                          setting.rooms[name].proxies = Proxies, ~IsInternalPath(r.path)
                   PROVE  \/ c[1] \in setting.rooms[name].allowed
                          \/ r.user \in setting.rooms[name].users
      BY <2>3 DEF Passes, RightIn
    <3>2. Specs(r.path) = SpecsIn(setting, r.path)
      BY DEF Specs, SpecsIn
    <3>3. process = "serving" /\ name \in DOMAIN rooms
      BY <2>3, <3>1 DEF Passes, PassThrough, DoorOK, RegistryOK
    <3>4. rooms[name] = setting.rooms[name]
      BY <3>3, RoomsServed DEF DoorOK
    <3>5. ~GuardedBy(name, c, r)
      BY <2>3, <3>1, <3>2, <3>3 DEF Passes, PassThrough, MatchRoom
    <3>6. ClientIpFor(name, c, r) = c[1]
      BY <3>1, <3>4, SenderFound, DoorwayAssumption DEF ClientIpFor
    <3> QED BY <3>1, <3>4, <3>5, <3>6 DEF GuardedBy, IsAllowlisted
  <2>4. CASE Forgotten(w)
    BY <2>4 DEF Forgotten
  <2>5. CASE \E c \in Clients, r \in Requests, s \in Sids : Enters(w, c, r, s)
    BY <2>5 DEF Enters
  <2> QED BY <2>1, <2>2, <2>3, <2>4, <2>5, RequestStep DEF DoorOK
<1>3. AllRight => ProtectedIsGuarded
  BY DEF AllRight, RightIn, SpecsIn, ProtectedIsGuarded, Specs
<1> QED BY <1>1, <1>2, <1>3, DoorHolds, PTL DEF DoorSpec

\* Whatever a setting contains, a process that serves enforces a limit in every room
\* whose rate is not NaN, and if the setting is made of dicts, has nothing to fear from
\* the system checks (conf.py, settings.py, checks.py).
THEOREM ServedRoomsHold == DoorSpec => []ServedRoomsAreSound
<1>1. RegistryOK => ServedRoomsAreSound
  <2> SUFFICES ASSUME RegistryOK PROVE ServedRoomsAreSound
    OBVIOUS
  <2>1. CASE process # "serving"
    BY <2>1 DEF RegistryOK, ServedRoomsAreSound, NoRooms
  <2>2. CASE process = "serving"
    <3>1. ASSUME NEW name \in DOMAIN rooms
          PROVE  LET limits == AdmissionLimits(rooms[name])
                 IN /\ limits.capacity \in Nat /\ limits.rate \in Nat \cup {NaN}
                    /\ limits.capacity > 0 \/ limits.rate > 0 \/ limits.rate = NaN
                    /\ rooms[name].ttl > 0
      <4>1. RoomBuilds(name, rooms[name]) /\ rooms[name] \in Raw
        BY <2>2, RoomsServed
      <4> DEFINE limits == AdmissionLimits(rooms[name])
      <4>2. rooms[name].ttl > 0 /\ rooms[name].capacity \in Nat
        BY <4>1 DEF RoomBuilds, ConfigBuilds, Raw
      <4>3. CASE rooms[name].policy.kind = "capacity_aware"
        <5>1. limits.rate = 0 /\ limits.capacity = SlotsOf(rooms[name])
          BY <4>3 DEF AdmissionLimits
        <5>2. SlotsOf(rooms[name]) \in Nat \ {0}
          BY <4>1, <4>3 DEF RoomBuilds, PolicyBuilds, CapacityAwareBuilds, SlotsOf, Raw
        <5> QED BY <4>2, <5>1, <5>2
      <4>4. CASE rooms[name].policy.kind # "capacity_aware"
        <5>1. limits.rate = rooms[name].policy.rate /\ limits.capacity = rooms[name].capacity
          BY <4>4 DEF AdmissionLimits
        <5>2. rooms[name].policy.rate = NaN \/ ~(rooms[name].policy.rate <= 0)
          BY <4>1, <4>4 DEF RoomBuilds, PolicyBuilds, TimeBucketBuilds, Kinds
        <5>3. rooms[name].policy.rate \in Int
          BY <4>1 DEF Raw
        <5> QED BY <4>2, <5>1, <5>2, <5>3
      <4> QED BY <4>3, <4>4
    <3>2. ASSUME rooms # NoRooms, setting.shape \in Dicts PROVE CheckErrors(setting) = {}
      <4>1. Loads(setting) /\ rooms = RoomsAsked(setting)
        BY <2>2 DEF RegistryOK, MayServe
      <4>2. RoomsAsked(setting) = setting.rooms
        BY <3>2 DEF RoomsAsked, HasRooms, Dicts
      <4>3. RoomsChecked(setting) = setting.rooms /\ setting.rooms # NoRooms
        BY <3>2, <4>1, <4>2 DEF RoomsChecked
      <4>4. \A name \in DOMAIN setting.rooms :
              setting.rooms[name].secret = "long" /\ setting.rooms[name].target = "path"
        BY <4>1, <4>2 DEF Loads, RoomBuilds, ConfigBuilds
      <4> QED BY <3>2, <4>3, <4>4 DEF CheckErrors, Dicts
    <3> QED BY <3>1, <3>2 DEF ServedRoomsAreSound
  <2> QED BY <2>1, <2>2
<1>2. DoorOK => RegistryOK
  BY DEF DoorOK
<1> QED BY <1>1, <1>2, DoorHolds, PTL

----------------------------------------------------------------------------
(* The rate limiter.  A window that is open ends within Window; who is      *)
(* refused was let through, or first refused, after the window opened.      *)

WindowsOK ==
  /\ hits \in [DOMAIN hits -> [count : 1..(Limit + 1), last : Int]]
  /\ \A a \in DOMAIN hits : now <= hits[a].last /\ hits[a].last <= now + Window

RefusedSince ==
  /\ refused \in [DOMAIN refused -> Int]
  /\ \A a \in DOMAIN refused \cap DOMAIN hits : refused[a] >= hits[a].last - Window

\* The step a request is at says what it brings to the store.
Enqueues == {"acquire", "store", "again"}

RequestsTyped ==
  \A w \in Threads : request[w].at \in Enqueues =>
    /\ request[w].client \in Clients
    /\ request[w].score \in Nat /\ request[w].score <= now
    /\ request[w].at # "again" => request[w].sid \in Sids

\* A place that outlives its session's metadata is older than any window that is
\* open (with TTLs no shorter than the window).
StalePlacesAreOld ==
  \A s \in DOMAIN queue :
    /\ queue[s] <= now
    /\ IF s \in DOMAIN hash THEN hash[s].exp >= queue[s] + Window
       ELSE queue[s] + Window < now

\* What an address has used up of its window: places taken since it opened, and
\* requests that were counted and will take one.
Addresses == {c[1] : c \in Clients}
Opened(a) == IF a \in DOMAIN hits THEN hits[a].last - Window ELSE now
Placed(a) == {s \in DOMAIN queue \cap DOMAIN hash : hash[s].owner[1] = a /\ queue[s] >= Opened(a)}
Passed(a) == {w \in Threads : /\ request[w].at \in {"store", "again"}
                              /\ request[w].client[1] = a
                              /\ request[w].score >= Opened(a)}
Taken(a) == {<<0, s>> : s \in Placed(a)} \cup {<<1, w>> : w \in Passed(a)}
Budget(a) == IF a \in DOMAIN hits THEN Min({hits[a].count, Limit}) ELSE 0

WithinBudget ==
  \A a \in Addresses : IsFiniteSet(Taken(a)) /\ Cardinality(Taken(a)) <= Budget(a)

----------------------------------------------------------------------------
(* What a step does to the requests, the limiter and the store.            *)

SameErrand(w) ==
  /\ request'[w].client = request[w].client
  /\ request'[w].score = request[w].score

\* A request that is for the line keeps its errand until it is answered.
Carries(w) ==
  /\ SameErrand(w)
  /\ request[w].at \in Enqueues
  /\ request'[w].at # "again" => request[w].at # "again" /\ request'[w].sid = request[w].sid

NoFurther(w) ==
  request'[w].at \in {"store", "again"} => request[w].at \in {"store", "again"} /\ SameErrand(w)

LEMMA ErrandStep ==
  ASSUME RequestsOK, [DoorNext]_<<vars, doorVars>>, NEW w \in Threads, request'[w].at \in Enqueues
  PROVE  \/ Carries(w)
         \/ \E c \in Clients, r \in Requests, s \in Sids :
              /\ StartEnqueue(w, c, r, s)
              /\ request'[w].client = <<ClientIpFor(Main, c, r), c[2]>>
              /\ request'[w].sid = s /\ request'[w].score = now
              /\ request'[w].at = "acquire"
<1> USE DEF RequestsOK
<1>1. ASSUME request' = request PROVE Carries(w)
  BY <1>1 DEF Carries, SameErrand
<1>2. ASSUME NEW v \in Threads, Done(v) PROVE Carries(w)
  BY <1>2 DEF Done, Nothing, Carries, SameErrand, Enqueues
<1>3. ASSUME NEW v \in Threads, Goto(v, "failed open") PROVE Carries(w)
  BY <1>3 DEF Goto, Nothing, Carries, SameErrand, Enqueues
<1>4. ASSUME NEW v \in Threads, At(v, "acquire"), Goto(v, "store") PROVE Carries(w)
  BY <1>4 DEF Goto, Nothing, Carries, SameErrand, Enqueues, At
<1>5. ASSUME NEW v \in Threads, StoreForeign(v) PROVE Carries(w)
  BY <1>5 DEF StoreForeign, Nothing, Carries, SameErrand, Enqueues, At
<1>6. ASSUME NEW v \in Threads, Acquire(v) \/ Store(v) \/ StoreAgain(v) \/ Fail(v) \/ Answer(v)
      PROVE  Carries(w)
  BY <1>2, <1>3, <1>4, <1>6 DEF Acquire, Store, StoreAgain, Fail, Answer
<1>7. ASSUME StartProcess \/ ProcessDies \/ Others \/ DoorTick \/ UNCHANGED <<vars, doorVars>>
      PROVE  Carries(w)
  BY <1>1, <1>7 DEF StartProcess, ProcessDies, Others, DoorTick, doorVars
<1>8. ASSUME NEW v \in Threads, NEW c \in Clients, NEW r \in Requests, PassThrough(v, c, r)
      PROVE  Carries(w)
  BY <1>8 DEF PassThrough, Nothing, Carries, SameErrand, Enqueues
<1>9. ASSUME NEW v \in Threads, NEW c \in Clients, NEW r \in Requests, NEW s \in Sids,
             StartEnqueue(v, c, r, s)
      PROVE  \/ Carries(w)
             \/ /\ v = w
                /\ request'[w].client = <<ClientIpFor(Main, c, r), c[2]>>
                /\ request'[w].sid = s /\ request'[w].score = now
                /\ request'[w].at = "acquire"
  BY <1>9 DEF StartEnqueue, Nothing, Carries, SameErrand, Enqueues
<1>10. \/ Carries(w)
       \/ \E v \in Threads, c \in Clients, r \in Requests, s \in Sids : StartEnqueue(v, c, r, s)
  BY <1>5, <1>6, <1>7, <1>8 DEF DoorNext
<1> QED BY <1>9, <1>10

\* Nothing is counted, and no request gets past the limiter.
Quiet == now' = now /\ UNCHANGED <<hits, refused>> /\ \A w \in Threads : NoFurther(w)

\* A request is counted; if its address has some of its window left, it may get past.
Counts(v) ==
  /\ request[v].at = "acquire"
  /\ Count(request[v].client[1])
  /\ \A w \in Threads : NoFurther(w) \/ (w = v /\ Within(request[v].client[1]) /\ SameErrand(w))

LEMMA LimiterStep ==
  ASSUME RequestsOK, [DoorNext]_<<vars, doorVars>>
  PROVE  Quiet \/ (\E v \in Threads : Counts(v)) \/ DoorTick
<1> USE DEF RequestsOK
<1> DEFINE Unmoved == \A w \in Threads : NoFurther(w)
<1>1. ASSUME request' = request PROVE Unmoved
  BY <1>1 DEF NoFurther, SameErrand
<1>2. ASSUME NEW v \in Threads, Done(v) PROVE Unmoved
  BY <1>2 DEF Done, Nothing, NoFurther, SameErrand
<1>3. ASSUME NEW v \in Threads, Goto(v, "failed open") PROVE Unmoved
  BY <1>3 DEF Goto, Nothing, NoFurther, SameErrand
<1>4. ASSUME NEW v \in Threads, Acquire(v) PROVE Counts(v)
  <2>1. CASE Within(request[v].client[1])
    BY <1>4, <2>1 DEF Acquire, At, Goto, Nothing, Counts, NoFurther, SameErrand
  <2>2. CASE ~Within(request[v].client[1])
    BY <1>2, <1>4, <2>2 DEF Acquire, At, Counts
  <2> QED BY <2>1, <2>2
<1>5. ASSUME NEW v \in Threads, StoreForeign(v) PROVE Quiet
  BY <1>5 DEF StoreForeign, At, Nothing, Quiet, NoFurther, SameErrand, vars
<1>6. ASSUME NEW v \in Threads, Store(v) \/ StoreAgain(v) PROVE Quiet
  <2>1. now' = now /\ UNCHANGED <<hits, refused>>
    BY <1>6 DEF Store, StoreAgain, KeepPlace, JoinLine, vars
  <2> QED BY <1>2, <1>6, <2>1 DEF Store, StoreAgain, Quiet
<1>7. ASSUME NEW v \in Threads, Fail(v) PROVE Quiet \/ Counts(v)
  <2>1. Unmoved
    BY <1>2, <1>3, <1>7 DEF Fail
  <2>2. CASE At(v, "acquire") /\ Count(request[v].client[1])
    BY <2>1, <2>2 DEF At, Counts
  <2>3. CASE UNCHANGED <<vars, site, hits, refused>>
    BY <2>1, <2>3 DEF vars, Quiet
  <2> QED BY <1>7, <2>2, <2>3 DEF Fail
<1>8. ASSUME NEW v \in Threads, Answer(v) PROVE Quiet
  BY <1>2, <1>8 DEF Answer, Quiet, vars
<1>9. ASSUME StartProcess \/ ProcessDies \/ UNCHANGED <<vars, doorVars>> PROVE Quiet
  <2>1. request' = request /\ now' = now /\ UNCHANGED <<hits, refused>>
    BY <1>9 DEF StartProcess, ProcessDies, doorVars, vars
  <2> QED BY <1>1, <2>1 DEF Quiet
<1>10. ASSUME Others PROVE Quiet
  <2>1. request' = request /\ UNCHANGED <<hits, refused>>
    BY <1>10 DEF Others, doorVars
  <2>2. now' = now
    BY <1>10 DEF Others, Position, Hold, Release, Remove, AdmitBatch, AdmitNobody, AdmitFront,
                 Reclaim, SetKillSwitch
  <2> QED BY <1>1, <2>1, <2>2 DEF Quiet
<1>11. ASSUME NEW v \in Threads, NEW c \in Clients, NEW r \in Requests,
              PassThrough(v, c, r) \/ \E s \in Sids : StartEnqueue(v, c, r, s)
       PROVE  Quiet
  <2>1. now' = now /\ UNCHANGED <<hits, refused>>
    BY <1>11 DEF PassThrough, StartEnqueue, vars
  <2>2. (\A w \in Threads \ {v} : request'[w] = request[w]) /\ request'[v].at \in {"passed", "acquire"}
    <3>1. CASE PassThrough(v, c, r)
      BY <3>1 DEF PassThrough, Nothing
    <3>2. CASE \E s \in Sids : StartEnqueue(v, c, r, s)
      BY <3>2 DEF StartEnqueue, Nothing
    <3> QED BY <1>11, <3>1, <3>2
  <2>3. Unmoved
    BY <2>2 DEF NoFurther, SameErrand
  <2> QED BY <2>1, <2>3 DEF Quiet
<1> QED BY <1>4, <1>5, <1>6, <1>7, <1>8, <1>9, <1>10, <1>11 DEF DoorNext

\* A request joins the line, with the score it was given when it came.
Joins(w, s) ==
  /\ request[w].at \in {"store", "again"}
  /\ JoinLine(request[w].client, s, request[w].score, now)
  /\ Done(w)
  /\ UNCHANGED <<hits, refused>>

LEMMA StoreStep ==
  ASSUME TypeOK, RequestsTyped, [DoorNext]_<<vars, doorVars>>
  PROVE  StoreMove \/ \E w \in Threads, s \in Sids : Joins(w, s)
<1>0. now \in Sampled
  BY NowIsReading DEF TypeOK
<1>1. ASSUME UNCHANGED vars PROVE StoreMove
  BY <1>1 DEF StoreMove
<1>2. ASSUME NEW w \in Threads, Store(w)
      PROVE  StoreMove \/ \E s \in Sids : Joins(w, s)
  <2>1. request[w].client \in Clients /\ request[w].sid \in Sids
    BY <1>2 DEF Store, At, RequestsTyped, Enqueues
  <2>2. KeepPlace(request[w].client, request[w].sid, now) => StoreMove
    BY <1>0, <2>1 DEF StoreMove
  <2> QED BY <1>1, <1>2, <2>1, <2>2 DEF Store, At, Joins
<1>3. ASSUME NEW w \in Threads, StoreAgain(w)
      PROVE  StoreMove \/ \E s \in Sids : Joins(w, s)
  BY <1>1, <1>3 DEF StoreAgain, At, Joins, NewIds
<1>4. ASSUME NEW w \in Threads, Acquire(w) \/ StoreForeign(w) \/ Fail(w) \/ Answer(w)
      PROVE  UNCHANGED vars
  BY <1>4 DEF Acquire, StoreForeign, Fail, Answer, Count
<1>5. ASSUME \/ StartProcess \/ ProcessDies \/ UNCHANGED <<vars, doorVars>>
             \/ \E w \in Threads, c \in Clients, r \in Requests :
                  PassThrough(w, c, r) \/ \E s \in Sids : StartEnqueue(w, c, r, s)
      PROVE  UNCHANGED vars
  BY <1>5 DEF StartProcess, ProcessDies, PassThrough, StartEnqueue
<1>6. ASSUME Others PROVE StoreMove
  <2>1. now <= now
    BY DEF TypeOK
  <2>2. (~killswitch) \in BOOLEAN
    OBVIOUS
  <2> QED BY <1>0, <1>6, <2>1, <2>2 DEF Others, StoreMove
<1>7. DoorTick => StoreMove
  BY DEF DoorTick, StoreMove
<1> QED BY <1>1, <1>2, <1>3, <1>4, <1>5, <1>6, <1>7 DEF DoorNext

DoorTyped == TypeOK /\ RequestsTyped

\* A request brings to the store what the store's scripts expect: a known client, a
\* session id, and a score that is not of the future (engine.py 227-237).
THEOREM DoorTypesHold == DoorSpec => []DoorTyped
<1>1. DoorInit => DoorTyped
  <2>1. Nothing.at \notin Enqueues
    BY DEF Nothing, Enqueues
  <2> QED BY <2>1, TypeOKInit DEF DoorInit, DoorTyped, RequestsTyped
<1>2. DoorOK /\ DoorTyped /\ [DoorNext]_<<vars, doorVars>> => DoorTyped'
  <2> SUFFICES ASSUME DoorOK, TypeOK, RequestsTyped, [DoorNext]_<<vars, doorVars>>
               PROVE  TypeOK' /\ RequestsTyped'
    BY DEF DoorTyped
  <2>0. now \in Nat /\ now \in Sampled
    BY NowIsReading DEF TypeOK
  <2>1. TypeOK'
    <3>1. ASSUME NEW w \in Threads, NEW s \in Sids, Joins(w, s) PROVE TypeOK'
      BY <2>0, <3>1, JoinLineTyped DEF Joins, RequestsTyped, Enqueues
    <3> QED BY <3>1, StoreStep, MoveIsStep, TypeOKStep
  <2>2. ASSUME NEW w \in Threads, request'[w].at \in Enqueues
        PROVE  /\ request'[w].client \in Clients
               /\ request'[w].score \in Nat /\ request'[w].score <= now'
               /\ request'[w].at # "again" => request'[w].sid \in Sids
    <3>1. now' \in Nat /\ now <= now'
      <4>1. \A v : Counts(v) => now' = now
        BY DEF Counts, Count, vars
      <4>2. DoorTick => now' = now + 1
        BY DEF DoorTick, Tick
      <4> QED BY <2>0, <4>1, <4>2, LimiterStep DEF DoorOK, Quiet
    <3>2. CASE Carries(w)
      BY <2>0, <2>2, <3>1, <3>2 DEF Carries, SameErrand, RequestsTyped
    <3>3. ASSUME NEW c \in Clients, NEW r \in Requests, NEW s \in Sids, StartEnqueue(w, c, r, s),
                 request'[w].client = <<ClientIpFor(Main, c, r), c[2]>>,
                 request'[w].sid = s, request'[w].score = now
          PROVE  /\ request'[w].client \in Clients
                 /\ request'[w].score \in Nat /\ request'[w].score <= now'
                 /\ request'[w].sid \in Sids
      BY <2>0, <3>1, <3>3, ClientIsSender
    <3> QED BY <2>2, <3>2, <3>3, ErrandStep DEF DoorOK
  <2> QED BY <2>1, <2>2 DEF RequestsTyped
<1> QED BY <1>1, <1>2, DoorHolds, PTL DEF DoorSpec

\* The session in the line stays its owner's, whoever brings its id to the door and
\* however late (enqueue.lua 26-32).
THEOREM DoorOwnersAreFixed == DoorSpec => OwnerIsFixed
<1>1. DoorTyped /\ [DoorNext]_<<vars, doorVars>> =>
        [BindFingerprint =>
           \A s \in DOMAIN hash \cap DOMAIN hash' : hash'[s].owner = hash[s].owner]_vars
  <2> SUFFICES ASSUME DoorTyped, [DoorNext]_<<vars, doorVars>>, BindFingerprint,
                      NEW s \in DOMAIN hash \cap DOMAIN hash'
               PROVE  hash'[s].owner = hash[s].owner
    OBVIOUS
  <2>1. StoreMove => Rewritten(s)
    BY TypeOKIsTyped, MetadataKept DEF DoorTyped
  <2>2. ASSUME NEW w \in Threads, NEW x \in Sids, Joins(w, x)
        PROVE  hash'[s].owner = hash[s].owner
    BY <2>2 DEF Joins, JoinLine, MayUse, Put
  <2> QED BY <2>1, <2>2, StoreStep DEF DoorTyped, Rewritten
<1> QED BY <1>1, DoorTypesHold, PTL DEF DoorSpec, OwnerIsFixed

----------------------------------------------------------------------------
(* How long an address can be refused                                      *)

LEMMA CountedIs ==
  ASSUME WindowsOK, now \in Nat, NEW a
  PROVE  /\ Within(a) <=> (a \notin DOMAIN hits \/ hits[a].count < Limit)
         /\ DOMAIN Counted(a) = DOMAIN hits \cup {a}
         /\ Counted(a) \in [DOMAIN hits \cup {a} -> [count : 1..(Limit + 1), last : Int]]
         /\ \A b \in DOMAIN hits \ {a} : Counted(a)[b] = hits[b]
         /\ Counted(a)[a].last = IF a \in DOMAIN hits THEN hits[a].last ELSE now + Window
         /\ Counted(a)[a].count = IF a \notin DOMAIN hits THEN 1
                                  ELSE IF hits[a].count <= Limit THEN hits[a].count + 1
                                  ELSE Limit + 1
<1>0. Limit \in Nat /\ Limit > 0 /\ Window \in Nat
  BY DoorwayAssumption
<1>1. CASE a \notin DOMAIN hits
  BY <1>0, <1>1 DEF Within, Counted, Hit, Put, WindowsOK
<1>2. CASE a \in DOMAIN hits
  <2>1. hits[a].count \in 1..(Limit + 1) /\ hits[a].last \in Int
    BY <1>2 DEF WindowsOK
  <2> DEFINE n == Min({hits[a].count + 1, Limit + 1})
  <2>2. n = IF hits[a].count <= Limit THEN hits[a].count + 1 ELSE Limit + 1
    BY <1>0, <2>1, MinOfTwo
  <2>3. Counted(a) = Put(hits, {a}, [count |-> n, last |-> hits[a].last])
    BY <1>2 DEF Counted, Hit
  <2> HIDE DEF n
  <2>4. n \in 1..(Limit + 1)
    BY <1>0, <2>1, <2>2
  <2>5. Counted(a)[a].count = n /\ Counted(a)[a].last = hits[a].last
    BY <2>3 DEF Put
  <2>6. /\ DOMAIN Counted(a) = DOMAIN hits \cup {a}
        /\ Counted(a) \in [DOMAIN hits \cup {a} -> [count : 1..(Limit + 1), last : Int]]
        /\ \A b \in DOMAIN hits \ {a} : Counted(a)[b] = hits[b]
    BY <2>1, <2>3, <2>4 DEF Put, WindowsOK
  <2>7. Within(a) <=> hits[a].count < Limit
    BY <1>0, <2>1, <2>2, <2>5 DEF Within
  <2> QED BY <1>2, <2>2, <2>5, <2>6, <2>7
<1> QED BY <1>1, <1>2

LEMMA WindowsStep ==
  ASSUME TypeOK, RequestsOK, WindowsOK, [DoorNext]_<<vars, doorVars>>
  PROVE  WindowsOK'
<1>0. Window \in Nat /\ now \in Nat
  BY DoorwayAssumption DEF TypeOK
<1>1. CASE Quiet
  BY <1>1 DEF Quiet, WindowsOK
<1>2. ASSUME NEW v \in Threads, Counts(v) PROVE WindowsOK'
  <2> DEFINE b == request[v].client[1]
  <2>1. hits' = Counted(b) /\ now' = now
    BY <1>2 DEF Counts, Count, vars
  <2> HIDE DEF b
  <2>4. /\ DOMAIN hits' = DOMAIN hits \cup {b}
        /\ \A a \in DOMAIN hits \ {b} : hits'[a] = hits[a]
        /\ hits'[b].last = IF b \in DOMAIN hits THEN hits[b].last ELSE now + Window
    BY <1>0, <2>1, CountedIs, Zenon
  <2>2. \A a \in DOMAIN hits' : hits'[a].last = IF a \in DOMAIN hits THEN hits[a].last
                                                ELSE now + Window
    BY <2>4
  <2>3. hits' \in [DOMAIN hits' -> [count : 1..(Limit + 1), last : Int]]
    BY <1>0, <2>1, CountedIs
  <2> QED BY <1>0, <2>1, <2>2, <2>3 DEF WindowsOK
<1>3. CASE DoorTick
  <2>1. now' = now + 1 /\ hits' = Drop(hits, {a \in DOMAIN hits : hits[a].last < now'})
    BY <1>3 DEF DoorTick, Tick
  <2>2. /\ hits' \in [DOMAIN hits' -> [count : 1..(Limit + 1), last : Int]]
        /\ \A a \in DOMAIN hits' : a \in DOMAIN hits /\ hits'[a] = hits[a] /\ ~(hits[a].last < now')
    BY <2>1 DEF Drop, Restrict, WindowsOK
  <2>3. \A a \in DOMAIN hits : hits[a].last \in Int
    BY DEF WindowsOK
  <2> QED BY <1>0, <2>1, <2>2, <2>3 DEF WindowsOK
<1> QED BY <1>1, <1>2, <1>3, LimiterStep

LEMMA RefusedStep ==
  ASSUME TypeOK, RequestsOK, WindowsOK, RefusedSince, [DoorNext]_<<vars, doorVars>>
  PROVE  RefusedSince'
<1>0. Window \in Nat /\ now \in Nat
  BY DoorwayAssumption DEF TypeOK
<1>1. CASE Quiet
  BY <1>1 DEF Quiet, RefusedSince
<1>2. ASSUME NEW v \in Threads, Counts(v) PROVE RefusedSince'
  <2> DEFINE b == request[v].client[1]
  <2>1. /\ hits' = Counted(b)
        /\ refused' = IF Within(b) THEN Drop(refused, {b})
                      ELSE IF b \in DOMAIN refused THEN refused ELSE Put(refused, {b}, now)
    BY <1>2 DEF Counts, Count
  <2> HIDE DEF b
  <2>2. refused' \in [DOMAIN refused' -> Int]
    BY <1>0, <2>1 DEF RefusedSince, Drop, Restrict, Put
  <2>3. \A a \in DOMAIN refused' : \/ a \in DOMAIN refused /\ refused'[a] = refused[a]
                                   \/ refused'[a] = now
    BY <2>1 DEF Drop, Restrict, Put
  <2>4. \A a \in DOMAIN refused' \cap DOMAIN hits' : a \in DOMAIN hits /\ hits'[a].last = hits[a].last
    <3>1. b \notin DOMAIN hits => b \notin DOMAIN refused'
      BY <1>0, <2>1, CountedIs DEF Drop, Restrict
    <3>2. /\ DOMAIN hits' = DOMAIN hits \cup {b}
          /\ \A a \in DOMAIN hits \ {b} : hits'[a] = hits[a]
          /\ hits'[b].last = IF b \in DOMAIN hits THEN hits[b].last ELSE now + Window
      BY <1>0, <2>1, CountedIs, Zenon
    <3> QED BY <3>1, <3>2
  <2>5. \A a \in DOMAIN hits : hits[a].last \in Int /\ now >= hits[a].last - Window
    BY <1>0 DEF WindowsOK
  <2> QED BY <2>2, <2>3, <2>4, <2>5 DEF RefusedSince
<1>3. CASE DoorTick
  <2>1. refused' = refused /\ hits' = Drop(hits, {a \in DOMAIN hits : hits[a].last < now'})
    BY <1>3 DEF DoorTick
  <2> QED BY <2>1 DEF RefusedSince, Drop, Restrict
<1> QED BY <1>1, <1>2, <1>3, LimiterStep

LimiterOK == WindowsOK /\ RefusedSince

LEMMA LimiterHolds == DoorSpec => []LimiterOK
<1>1. DoorInit => LimiterOK
  BY DEF DoorInit, LimiterOK, WindowsOK, RefusedSince, Empty
<1>2. DoorOK /\ DoorTyped /\ LimiterOK /\ [DoorNext]_<<vars, doorVars>> => LimiterOK'
  BY WindowsStep, RefusedStep DEF DoorOK, DoorTyped, LimiterOK
<1> QED BY <1>1, <1>2, DoorHolds, DoorTypesHold, PTL DEF DoorSpec

\* An address that is refused is let through again one window later at most, however
\* often it asks meanwhile and however its requests interleave (ratelimit.py 3-7).
THEOREM RefusalsEnd == DoorSpec => []RefusedNotForLong
<1>1. DoorTyped /\ LimiterOK => RefusedNotForLong
  <2> SUFFICES ASSUME TypeOK, WindowsOK, RefusedSince, NEW a \in DOMAIN refused, ~Within(a)
               PROVE  now <= refused[a] + Window
    BY DEF DoorTyped, LimiterOK, RefusedNotForLong
  <2>1. a \in DOMAIN hits /\ now \in Nat
    BY CountedIs DEF TypeOK
  <2>2. hits[a].last \in Int /\ now <= hits[a].last /\ refused[a] >= hits[a].last - Window
    BY <2>1 DEF WindowsOK, RefusedSince
  <2>3. refused[a] \in Int /\ Window \in Nat
    BY DoorwayAssumption DEF RefusedSince
  <2> QED BY <2>1, <2>2, <2>3
<1> QED BY <1>1, DoorTypesHold, LimiterHolds, PTL

----------------------------------------------------------------------------
(* How many places an address takes                                        *)

LEMMA OneMore ==
  ASSUME NEW S, IsFiniteSet(S), NEW y, NEW T \in SUBSET (S \cup {y})
  PROVE  IsFiniteSet(T) /\ Cardinality(T) \in Nat /\ Cardinality(T) <= Cardinality(S) + 1
<1>0. Cardinality(S) \in Nat
  BY FS_CardinalityType
<1>1. /\ IsFiniteSet(S \cup {y}) /\ Cardinality(S \cup {y}) \in Nat
      /\ Cardinality(S \cup {y}) <= Cardinality(S) + 1
  <2>1. /\ IsFiniteSet(S \cup {y})
        /\ Cardinality(S \cup {y}) = IF y \in S THEN Cardinality(S) ELSE Cardinality(S) + 1
    BY FS_AddElement
  <2> QED BY <1>0, <2>1
<1>2. IsFiniteSet(T) /\ Cardinality(T) <= Cardinality(S \cup {y})
  BY <1>1, FS_Subset
<1>3. Cardinality(T) \in Nat
  BY <1>2, FS_CardinalityType
<1> QED BY <1>0, <1>1, <1>2, <1>3

LEMMA Exchanged ==
  ASSUME NEW S, IsFiniteSet(S), NEW x \in S, NEW y, NEW T \in SUBSET ((S \ {x}) \cup {y})
  PROVE  IsFiniteSet(T) /\ Cardinality(T) \in Nat /\ Cardinality(T) <= Cardinality(S)
<1>1. IsFiniteSet(S \ {x}) /\ Cardinality(S \ {x}) = Cardinality(S) - 1 /\ Cardinality(S) \in Nat
  BY FS_RemoveElement, FS_CardinalityType
<1>2. IsFiniteSet(T) /\ Cardinality(T) \in Nat /\ Cardinality(T) <= Cardinality(S \ {x}) + 1
  BY <1>1, OneMore, Zenon
<1> QED BY <1>1, <1>2

LEMMA StalePlacesStep ==
  ASSUME Window <= QueuedTtl, Window <= AdmittedTtl,
         TypeOK, RequestsTyped, StalePlacesAreOld, [DoorNext]_<<vars, doorVars>>
  PROVE  StalePlacesAreOld'
<1>0. /\ Window \in Nat /\ now \in Nat /\ QueuedTtl \in Nat /\ AdmittedTtl \in Nat
      /\ Typed(hash, Session) /\ Typed(queue, Nat)
  BY DoorwayAssumption, ClockAssumption, TypeOKIsTyped
<1>1. CASE StoreMove
  <2> SUFFICES ASSUME NEW s \in DOMAIN queue'
               PROVE  /\ queue'[s] <= now'
                      /\ IF s \in DOMAIN hash' THEN hash'[s].exp >= queue'[s] + Window
                         ELSE queue'[s] + Window < now'
    BY DEF StalePlacesAreOld
  <2>1. s \in DOMAIN queue /\ queue'[s] = queue[s] /\ queue[s] \in Nat
    BY <1>0, <1>1, PlacesKept DEF Typed
  <2>2. queue[s] <= now /\ now' \in {now, now + 1}
    BY <1>1, <2>1, PlacesKept DEF StalePlacesAreOld, Tick
  <2>3. CASE s \in DOMAIN hash'
    <3>1. s \in DOMAIN hash /\ hash'[s].exp \in {hash[s].exp, now + QueuedTtl, now + AdmittedTtl}
      BY <1>0, <1>1, <2>3, MetadataKept DEF Rewritten
    <3>2. hash[s].exp >= queue[s] + Window
      BY <2>1, <3>1 DEF StalePlacesAreOld
    <3>3. now + QueuedTtl >= queue[s] + Window /\ now + AdmittedTtl >= queue[s] + Window
      BY <1>0, <2>1, <2>2
    <3> QED BY <1>0, <2>1, <2>2, <2>3, <3>1, <3>2, <3>3
  <2>4. CASE s \in DOMAIN hash \ DOMAIN hash'
    <3>1. hash[s].exp < now' /\ hash[s].exp >= queue[s] + Window
      BY <1>1, <2>1, <2>4, MetadataLost DEF StalePlacesAreOld
    <3>2. hash[s].exp \in Nat
      BY <1>0, <2>4 DEF Typed, Session
    <3> QED BY <1>0, <2>1, <2>2, <2>4, <3>1, <3>2
  <2>5. CASE s \notin DOMAIN hash \cup DOMAIN hash'
    <3>1. queue[s] + Window < now
      BY <2>1, <2>5 DEF StalePlacesAreOld
    <3> QED BY <1>0, <2>1, <2>2, <2>5, <3>1
  <2> QED BY <2>3, <2>4, <2>5
<1>2. ASSUME NEW w \in Threads, NEW x \in Sids, Joins(w, x) PROVE StalePlacesAreOld'
  <2>1. request[w].score \in Nat /\ request[w].score <= now
    BY <1>2 DEF Joins, RequestsTyped, Enqueues
  <2>2. /\ queue' = Joined(x, request[w].score) /\ now' = now
        /\ DOMAIN hash' = DOMAIN hash \cup {x}
        /\ hash'[x].exp = now + QueuedTtl
        /\ \A s \in DOMAIN hash \ {x} : hash'[s] = hash[s]
    BY <1>2 DEF Joins, JoinLine, Put
  <2>3. /\ queue'[x] \in Nat /\ queue'[x] <= now
        /\ \A s \in DOMAIN queue' \ {x} : s \in DOMAIN queue /\ queue'[s] = queue[s]
    BY <1>0, <2>1, <2>2 DEF Joined, Put, StalePlacesAreOld, Typed
  <2>4. hash'[x].exp >= queue'[x] + Window
    BY <1>0, <2>2, <2>3
  <2> QED BY <2>2, <2>3, <2>4 DEF StalePlacesAreOld
<1> QED BY <1>1, <1>2, StoreStep

\* While nothing is counted an address takes no more than it had: a place is taken
\* in exchange for a request.
LEMMA QuietTaken ==
  ASSUME TypeOK, RequestsOK, RequestsTyped, WindowsOK, StalePlacesAreOld,
         [DoorNext]_<<vars, doorVars>>, Quiet, NEW a \in Addresses
  PROVE  \/ Taken(a)' \subseteq Taken(a)
         \/ \E x \in Taken(a) : \E y : Taken(a)' \subseteq (Taken(a) \ {x}) \cup {y}
<1>0. now \in Nat /\ Window \in Nat /\ Typed(hash, Session) /\ Typed(queue, Nat)
  BY DoorwayAssumption, TypeOKIsTyped
<1>1. Opened(a)' = Opened(a)
  BY DEF Quiet, Opened
<1>2. Passed(a)' \subseteq Passed(a)
  BY <1>1 DEF Quiet, Passed, NoFurther, SameErrand
<1>3. CASE StoreMove
  <2>1. Placed(a)' \subseteq Placed(a)
    <3> SUFFICES ASSUME NEW s \in Placed(a)' PROVE s \in Placed(a)
      OBVIOUS
    <3>1. /\ s \in DOMAIN queue' /\ s \in DOMAIN hash'
          /\ hash'[s].owner[1] = a /\ queue'[s] >= Opened(a)
      BY <1>1 DEF Placed
    <3> QED BY <1>0, <1>3, <3>1, PlacesKept, MetadataKept DEF Rewritten, Placed
  <2> QED BY <1>2, <2>1 DEF Taken
<1>4. ASSUME NEW w \in Threads, NEW s \in Sids, Joins(w, s)
      PROVE  \/ Taken(a)' \subseteq Taken(a)
             \/ \E x \in Taken(a) : \E y : Taken(a)' \subseteq (Taken(a) \ {x}) \cup {y}
  <2> DEFINE c == request[w].client
             score == request[w].score
  <2>1. score \in Nat /\ score <= now /\ JoinLine(c, s, score, now)
    BY <1>4 DEF Joins, RequestsTyped, Enqueues
  <2> HIDE DEF c, score
  <2>2. /\ queue' = Joined(s, score)
        /\ DOMAIN hash' = DOMAIN hash \cup {s}
        /\ hash'[s].owner = c
        /\ \A r \in DOMAIN hash \ {s} : hash'[r] = hash[r]
    BY <2>1 DEF JoinLine, Put
  <2>3. /\ \A r \in DOMAIN queue' \ {s} : r \in DOMAIN queue /\ queue'[r] = queue[r]
        /\ s \in DOMAIN queue => queue'[s] = queue[s]
        /\ s \notin DOMAIN queue => queue'[s] = score
    BY <2>2 DEF Joined, Put
  <2>4. Placed(a)' \subseteq Placed(a) \cup {s}
    BY <1>1, <2>2, <2>3 DEF Placed
  <2>5. w \notin Passed(a)'
    BY <1>4 DEF Joins, Done, Nothing, Passed, RequestsOK
  <2>6. CASE s \notin Placed(a)'
    <3>1. Placed(a)' \subseteq Placed(a)
      BY <2>4, <2>6
    <3> QED BY <1>2, <3>1 DEF Taken
  <2>7. CASE s \in Placed(a)'
    <3>1. c[1] = a /\ queue'[s] >= Opened(a) /\ s \in DOMAIN queue'
      BY <1>1, <2>2, <2>7 DEF Placed
    <3>2. Opened(a) \in Int /\ now <= Opened(a) + Window
      BY <1>0 DEF Opened, WindowsOK
    <3>3. s \notin DOMAIN queue
      <4> SUFFICES ASSUME s \in DOMAIN queue PROVE FALSE
        OBVIOUS
      <4>1. s \notin DOMAIN hash
        BY <2>1 DEF JoinLine
      <4>2. queue[s] + Window < now /\ queue[s] \in Nat
        BY <1>0, <4>1 DEF StalePlacesAreOld, Typed
      <4> QED BY <1>0, <2>3, <3>1, <3>2, <4>2
    <3>4. w \in Passed(a)
      BY <1>4, <2>3, <3>1, <3>3 DEF Joins, Passed, c, score
    <3>5. <<1, w>> \in Taken(a)
      BY <3>4 DEF Taken
    <3>6. Taken(a)' \subseteq (Taken(a) \ {<<1, w>>}) \cup {<<0, s>>}
      BY <1>2, <2>4, <2>5 DEF Taken
    <3> QED BY <3>5, <3>6
  <2> QED BY <2>6, <2>7
<1> QED BY <1>3, <1>4, StoreStep

LEMMA BudgetIs ==
  ASSUME WindowsOK, NEW a
  PROVE  /\ Budget(a) \in Nat /\ Budget(a) <= Limit
         /\ a \in DOMAIN hits => Budget(a) = IF hits[a].count <= Limit THEN hits[a].count ELSE Limit
<1>1. Limit \in Nat
  BY DoorwayAssumption
<1>2. CASE a \in DOMAIN hits
  <2>1. hits[a].count \in 1..(Limit + 1)
    BY <1>2 DEF WindowsOK
  <2>2. Min({hits[a].count, Limit}) = IF hits[a].count <= Limit THEN hits[a].count ELSE Limit
    BY <1>1, <2>1, MinOfTwo
  <2> QED BY <1>1, <1>2, <2>1, <2>2 DEF Budget
<1>3. CASE a \notin DOMAIN hits
  BY <1>1, <1>3 DEF Budget
<1> QED BY <1>2, <1>3

LEMMA BudgetStep ==
  ASSUME TypeOK, RequestsOK, RequestsTyped, WindowsOK, StalePlacesAreOld, WithinBudget,
         [DoorNext]_<<vars, doorVars>>
  PROVE  WithinBudget'
<1>0. now \in Nat /\ Window \in Nat /\ Limit \in Nat /\ WindowsOK'
  BY WindowsStep, DoorwayAssumption DEF TypeOK
<1> SUFFICES ASSUME NEW a \in Addresses
             PROVE  IsFiniteSet(Taken(a)') /\ Cardinality(Taken(a)') <= Budget(a)'
  BY DEF WithinBudget
<1>1. IsFiniteSet(Taken(a)) /\ Cardinality(Taken(a)) <= Budget(a) /\ Cardinality(Taken(a)) \in Nat
  BY FS_CardinalityType DEF WithinBudget
<1>2. Budget(a) \in Nat /\ Budget(a)' \in Nat
  <2>1. Budget(a) \in Nat
    BY BudgetIs
  <2>2. Budget(a)' \in Nat
    <3>1. a \in DOMAIN hits' => hits'[a].count \in 1..(Limit + 1)
      BY <1>0 DEF WindowsOK
    <3> QED BY <1>0, <3>1, MinOfTwo DEF Budget
  <2> QED BY <2>1, <2>2
<1>3. ASSUME Taken(a)' \subseteq Taken(a), Budget(a)' >= Budget(a)
      PROVE  IsFiniteSet(Taken(a)') /\ Cardinality(Taken(a)') <= Budget(a)'
  BY <1>1, <1>2, <1>3, FS_Subset, FS_CardinalityType
<1>4. CASE Quiet
  <2>1. Budget(a)' = Budget(a)
    BY <1>4 DEF Quiet, Budget
  <2> QED BY <1>1, <1>2, <1>3, <1>4, <2>1, QuietTaken, Exchanged
<1>5. ASSUME NEW v \in Threads, Counts(v)
      PROVE  IsFiniteSet(Taken(a)') /\ Cardinality(Taken(a)') <= Budget(a)'
  <2> DEFINE b == request[v].client[1]
  <2>1. /\ hits' = Counted(b)
        /\ now' = now /\ queue' = queue /\ hash' = hash
        /\ \A w \in Threads : NoFurther(w) \/ (w = v /\ Within(b) /\ SameErrand(w))
    BY <1>5 DEF Counts, Count, vars
  <2>2. request[v].at = "acquire"
    BY <1>5 DEF Counts
  <2> HIDE DEF b
  <2>3. /\ DOMAIN hits' = DOMAIN hits \cup {b}
        /\ \A d \in DOMAIN hits \ {b} : hits'[d] = hits[d]
        /\ hits'[b].last = IF b \in DOMAIN hits THEN hits[b].last ELSE now + Window
    BY <1>0, <2>1, CountedIs, Zenon
  <2>4. Opened(a)' = Opened(a)
    BY <1>0, <2>1, <2>3 DEF Opened
  <2>5. Placed(a)' = Placed(a)
    BY <2>1, <2>4 DEF Placed
  <2>6. CASE a # b \/ ~Within(b)
    <3>1. Passed(a)' \subseteq Passed(a)
      BY <2>1, <2>4, <2>6 DEF Passed, NoFurther, SameErrand, b
    <3>2. Taken(a)' \subseteq Taken(a)
      BY <2>5, <3>1 DEF Taken
    <3>3. Budget(a)' >= Budget(a)
      <4>1. CASE a # b
        BY <1>2, <2>3, <4>1 DEF Budget
      <4>2. CASE a = b /\ ~Within(b)
        <5>1. b \in DOMAIN hits /\ ~(hits[b].count < Limit)
          BY <1>0, <4>2, CountedIs, Zenon
        <5>2. hits[b].count \in 1..(Limit + 1)
          BY <5>1 DEF WindowsOK
        <5>3. /\ b \in DOMAIN hits'
              /\ hits'[b].count = IF hits[b].count <= Limit THEN hits[b].count + 1 ELSE Limit + 1
          BY <1>0, <2>1, <2>3, <5>1, CountedIs
        <5>4. hits'[b].count = Limit + 1
          BY <1>0, <5>1, <5>2, <5>3
        <5>5. Min({Limit + 1, Limit}) = Limit
          BY <1>0, MinOfTwo
        <5>6. Budget(a)' = Limit
          BY <4>2, <5>3, <5>4, <5>5 DEF Budget
        <5> QED BY <1>0, <1>2, <5>6, BudgetIs
      <4> QED BY <2>6, <4>1, <4>2
    <3> QED BY <1>3, <3>2, <3>3
  <2>7. CASE a = b /\ Within(b)
    <3>1. Passed(a)' \subseteq Passed(a) \cup {v}
      BY <2>1, <2>4 DEF Passed, NoFurther, SameErrand
    <3>2. Taken(a)' \subseteq Taken(a) \cup {<<1, v>>}
      BY <2>5, <3>1 DEF Taken
    <3>3. Budget(a)' >= Budget(a) + 1
      <4>1. b \in DOMAIN hits => hits[b].count < Limit
        BY <1>0, <2>7, CountedIs, Zenon
      <4>2. b \in DOMAIN hits => hits[b].count \in 1..(Limit + 1)
        BY DEF WindowsOK
      <4>3. /\ b \in DOMAIN hits'
            /\ hits'[b].count = IF b \notin DOMAIN hits THEN 1
                               ELSE IF hits[b].count <= Limit THEN hits[b].count + 1
                               ELSE Limit + 1
        BY <1>0, <2>1, <2>3, CountedIs
      <4> DEFINE n == IF b \in DOMAIN hits THEN hits[b].count + 1 ELSE 1
      <4>4. hits'[b].count = n /\ n \in Nat /\ n <= Limit
        BY <1>0, <4>1, <4>2, <4>3, DoorwayAssumption
      <4>5. Budget(a)' = n
        <5> HIDE DEF n
        <5>1. Min({n, Limit}) = n
          BY <1>0, <4>4, MinOfTwo
        <5> QED BY <2>7, <4>3, <4>4, <5>1 DEF Budget
      <4>6. Budget(a) = IF b \in DOMAIN hits THEN hits[b].count ELSE 0
        BY <1>0, <2>7, <4>1, <4>2, BudgetIs DEF Budget
      <4> QED BY <4>2, <4>5, <4>6
    <3>4. IsFiniteSet(Taken(a)') /\ Cardinality(Taken(a)') <= Cardinality(Taken(a)) + 1
             /\ Cardinality(Taken(a)') \in Nat
      BY <1>1, <3>2, OneMore, Zenon
    <3> QED BY <1>1, <1>2, <3>3, <3>4
  <2> QED BY <2>6, <2>7
<1>6. CASE DoorTick
  <2>1. /\ now' = now + 1 /\ queue' = queue /\ request' = request
        /\ hits' = Drop(hits, {d \in DOMAIN hits : hits[d].last < now'})
        /\ hash' = Drop(hash, {s \in DOMAIN hash : hash[s].exp < now'})
    BY <1>6 DEF DoorTick, Tick
  <2>2. CASE a \in DOMAIN hits'
    <3>1. a \in DOMAIN hits /\ hits'[a] = hits[a]
      BY <2>1, <2>2 DEF Drop, Restrict
    <3>2. Opened(a)' = Opened(a) /\ Budget(a)' = Budget(a)
      BY <2>2, <3>1 DEF Opened, Budget
    <3>3. Placed(a)' \subseteq Placed(a) /\ Passed(a)' = Passed(a)
      BY <2>1, <3>2 DEF Placed, Passed, Drop, Restrict
    <3>4. Taken(a)' \subseteq Taken(a)
      BY <3>3 DEF Taken
    <3> QED BY <1>2, <1>3, <3>2, <3>4
  <2>3. CASE a \notin DOMAIN hits'
    <3>1. Opened(a)' = now + 1 /\ Budget(a)' = 0
      BY <2>1, <2>3 DEF Opened, Budget
    <3>2. Placed(a)' = {}
      <4>1. \A s \in DOMAIN queue : queue[s] \in Nat /\ queue[s] <= now
        BY DEF StalePlacesAreOld, TypeOK
      <4> QED BY <1>0, <2>1, <3>1, <4>1 DEF Placed
    <3>3. Passed(a)' = {}
      BY <1>0, <2>1, <3>1 DEF Passed, RequestsTyped, Enqueues
    <3>4. Taken(a)' = {}
      BY <3>2, <3>3 DEF Taken
    <3> QED BY <3>1, <3>4, FS_EmptySet
  <2> QED BY <2>2, <2>3
<1> QED BY <1>4, <1>5, <1>6, LimiterStep

LEMMA PlacesWithinBudget ==
  ASSUME TypeOK, WindowsOK, WithinBudget, DOMAIN hits \subseteq Addresses
  PROVE  PlacesWithinLimit
<1> SUFFICES ASSUME NEW a \in DOMAIN hits
             PROVE  Cardinality(PlacesOf(a)) <= Limit
  BY DEF PlacesWithinLimit
<1>1. PlacesOf(a) = Placed(a)
  BY DEF PlacesOf, Placed, Opened
<1>2. IsFiniteSet(Taken(a)) /\ Cardinality(Taken(a)) <= Budget(a)
  BY DEF WithinBudget
<1> DEFINE f == [s \in Placed(a) |-> <<0, s>>]
<1>3. f \in Injection(Placed(a), Taken(a))
  <2>1. f \in [Placed(a) -> Taken(a)]
    BY DEF Taken
  <2>2. \A r, s \in Placed(a) : f[r] = f[s] => r = s
    OBVIOUS
  <2> QED BY <2>1, <2>2 DEF Injection, IsInjective
<1>4. IsFiniteSet(Placed(a)) /\ Cardinality(Placed(a)) <= Cardinality(Taken(a))
  BY <1>2, <1>3, FS_Injection
<1>5. Cardinality(Placed(a)) \in Nat /\ Cardinality(Taken(a)) \in Nat
  BY <1>2, <1>4, FS_CardinalityType
<1>6. Limit \in Nat /\ Budget(a) \in Nat /\ Budget(a) <= Limit
  BY BudgetIs, DoorwayAssumption
<1> QED BY <1>1, <1>2, <1>4, <1>5, <1>6

BudgetOK == StalePlacesAreOld /\ WithinBudget /\ DOMAIN hits \subseteq Addresses

\* However many threads serve an address's requests, and however long each of them
\* stalls between being counted and being stored, it takes no more places in a window
\* than its limit (engine.py 227-237).  The TTLs must be no shorter than the window:
\* with a shorter one a place that somebody else took in this window may lose its
\* metadata, and then go to a request that was counted in an earlier one.
THEOREM PlacesAreLimited ==
  ASSUME Window <= QueuedTtl, Window <= AdmittedTtl
  PROVE  DoorSpec => []PlacesWithinLimit
<1>1. DoorInit => BudgetOK
  <2> SUFFICES ASSUME DoorInit PROVE BudgetOK
    OBVIOUS
  <2>1. queue = Empty /\ hits = Empty /\ DOMAIN Empty = {}
    BY EmptyTyped DEF DoorInit, Init
  <2>2. \A a \in Addresses : Taken(a) = {} /\ Budget(a) = 0
    BY <2>1 DEF DoorInit, Nothing, Taken, Placed, Passed, Budget
  <2> QED BY <2>1, <2>2, FS_EmptySet DEF BudgetOK, StalePlacesAreOld, WithinBudget
<1>2. DoorOK /\ DoorTyped /\ LimiterOK /\ BudgetOK /\ [DoorNext]_<<vars, doorVars>> => BudgetOK'
  <2> SUFFICES ASSUME DoorOK, DoorTyped, LimiterOK, BudgetOK, [DoorNext]_<<vars, doorVars>>
               PROVE  BudgetOK'
    OBVIOUS
  <2>1. StalePlacesAreOld' /\ WithinBudget'
    BY StalePlacesStep, BudgetStep DEF DoorOK, DoorTyped, LimiterOK, BudgetOK
  <2>2. DOMAIN hits' \subseteq Addresses
    <3>1. ASSUME NEW v \in Threads, Counts(v) PROVE DOMAIN hits' \subseteq Addresses
      <4>1. request[v].client[1] \in Addresses
        BY <3>1 DEF Counts, DoorTyped, RequestsTyped, Enqueues, Addresses
      <4>2. DOMAIN hits' = DOMAIN hits \cup {request[v].client[1]}
        BY <3>1 DEF Counts, Count, Counted, Hit, Put
      <4> QED BY <4>1, <4>2 DEF BudgetOK
    <3>2. CASE DoorTick
      BY <3>2 DEF DoorTick, Drop, Restrict, BudgetOK
    <3> QED BY <3>1, <3>2, LimiterStep DEF DoorOK, Quiet, BudgetOK
  <2> QED BY <2>1, <2>2 DEF BudgetOK, Addresses
<1>3. DoorTyped /\ LimiterOK /\ BudgetOK => PlacesWithinLimit
  BY PlacesWithinBudget DEF DoorTyped, LimiterOK, BudgetOK
<1> QED BY <1>1, <1>2, <1>3, DoorHolds, DoorTypesHold, LimiterHolds, PTL DEF DoorSpec

============================================================================
