------------------------------ MODULE Settings ------------------------------
(***************************************************************************)
(* From the setting WAITING_ROOM to the rooms of a process: reading it     *)
(* (adapters/django/conf.py), the checks of the dataclasses it ends in     *)
(* (core/settings.py), the limits the store is given (core/engine.py) and  *)
(* the system checks (adapters/django/checks.py), which read it a second   *)
(* time.                                                                   *)
(*                                                                         *)
(* A setting is [shape, rooms, protect]: what kind of value it is, its     *)
(* rooms by name, and PROTECT.  A room's raw values are members of small   *)
(* sets; one that has a default is given it when it is left out, so only   *)
(* the ones whose absence matters can be "unset".  ttl stands for the      *)
(* least of the four lifetimes.                                            *)
(*                                                                         *)
(* A definition marked "wrong:" stands for no code.  It is what a slip in   *)
(* the definition below it would do, and the property named with it fails   *)
(* when it takes that definition's place.                                   *)
(***************************************************************************)
EXTENDS Integers, Sequences, FiniteSetsExt

Unset == -99

\* float("nan"), of which every comparison is false.
NaN == -98

Kinds == {"time_bucket", "capacity_aware"}
Modes == {"fail_open", "fail_closed"}

\* The values of a room that are read, right or wrong: "//" is a target that starts
\* with two slashes, "url" one that starts with none, "junk" is not an address.  A rate
\* is finite or NaN.
Raw == [secret : {"long", "short"}, target : {"path", "//", "url"}, allowed : SUBSET STRING,
        users : SUBSET STRING, proxies : Int, capacity : Int, ttl : Int, limit : Int,
        mode : STRING, policy : [kind : STRING, rate : Int, burst : Int, capacity : Int]]

\* AdmissionPolicy.time_bucket and .capacity_aware raise nothing.
TimeBucketBuilds(policy) == policy.rate = NaN \/ ~(policy.rate <= 0)

\* wrong: no slots at all are let through (ServedRoomsAreSound)
CapacityAwareBuildsAny(slots) == slots >= 0

CapacityAwareBuilds(slots) == slots > 0

\* POLICY.CAPACITY, or else the room's.
SlotsOf(raw) == IF raw.policy.capacity = Unset THEN raw.capacity ELSE raw.policy.capacity

\* _coerce_policy.
PolicyBuilds(raw) ==
  /\ raw.policy.kind \in Kinds
  /\ raw.policy.kind = "time_bucket" => TimeBucketBuilds(raw.policy)
  /\ raw.policy.kind = "capacity_aware" => CapacityAwareBuilds(SlotsOf(raw))

\* WaitingRoomConfig.__post_init__.
HasName(name) == name # ""

ConfigBuilds(name, raw) ==
  /\ HasName(name)
  /\ raw.secret = "long"
  /\ raw.target = "path"
  /\ "junk" \notin raw.allowed
  /\ raw.proxies >= 0
  /\ raw.capacity >= 0
  /\ raw.ttl > 0

\* _build_one.
RoomBuilds(name, raw) == PolicyBuilds(raw) /\ raw.mode \in Modes /\ ConfigBuilds(name, raw)

\* _admission_limits: with capacity 0 slots are unlimited, and with a rate that is not
\* above 0, so also with NaN, is the rate.
AdmissionLimits(raw) ==
  IF raw.policy.kind = "capacity_aware"
  THEN [capacity |-> SlotsOf(raw), rate |-> 0, burst |-> 0]
  ELSE [capacity |-> raw.capacity, rate |-> raw.policy.rate, burst |-> Max({0, raw.policy.burst})]

\* The shapes: "none" (not set), "empty", "not a mapping", a dict that is a "flat" room
\* (the shorthand) or has "rooms" by name, and "odd" (ROOMS is no mapping); "frozen" is
\* a mapping that is no dict, like a MappingProxyType, and "frozen rooms" a dict whose
\* ROOMS is one.
HasRooms == {"flat", "rooms", "frozen", "frozen rooms"}
Dicts == {"flat", "rooms"}
NoRooms == [name \in {} |-> Unset]

\* load_configs: the rooms a setting asks for, by name, and whether it raises nothing.
RoomsAsked(setting) == IF setting.shape \in HasRooms THEN setting.rooms ELSE NoRooms

Loads(setting) ==
  /\ setting.shape \notin {"not a mapping", "odd"}
  /\ \A name \in DOMAIN RoomsAsked(setting) : RoomBuilds(name, setting.rooms[name])

\* RedisRateLimiter refuses a limit of 0 only when the room's engine is built.
EngineBuilds(raw) == raw.limit > 0

\* What a dict of ROOMS has as a room of its own: no key that is looked for.
Bare == [secret |-> "short", target |-> "url"]

\* _rooms_from_setting, which reads the setting anew and knows dicts only: any other
\* WAITING_ROOM has no rooms, and any other ROOMS makes a flat room of what is beside it.
RoomsChecked(setting) ==
  IF setting.shape \in Dicts \cup {"odd"} THEN setting.rooms
  ELSE IF setting.shape = "frozen rooms" THEN [name \in {"default"} |-> Bare]
  ELSE NoRooms

\* The errors (not the warnings) of check_waiting_room_settings.
CheckErrors(setting) ==
  LET checked == RoomsChecked(setting)
      Some(P(_)) == \E name \in DOMAIN checked : P(checked[name])
      Short(raw) == raw.secret # "long"
      Elsewhere(raw) == raw.target = "url"
  IN {e \in {"E001", "E002", "E003"} :
        /\ setting.shape # "none"
        /\ \/ e = "E001" /\ setting.shape # "empty" /\ checked = NoRooms
           \/ e = "E002" /\ (setting.shape = "empty" \/ Some(Short))
           \/ e = "E003" /\ (setting.shape = "empty" \/ Some(Elsewhere))}

\* protected_path_specs reads PROTECT of whatever mapping is there.
ProtectedPathSpecs(setting) ==
  IF setting.shape \in HasRooms \cup {"odd"} THEN setting.protect ELSE <<>>

=============================================================================
