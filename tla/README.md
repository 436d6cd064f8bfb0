# A verified model of waiting_room

`waiting_room` puts a virtual queue in front of a Django application. A browser
that asks for a protected page is placed in a line kept in Redis, polls a waiting
page, is admitted when rate and capacity allow, redeems a single-use ticket, and
then carries a signed pass. No process owns the line: every web worker runs the
same Lua scripts against the same keys.

This directory models that system in TLA+, checks the models with TLC and proves
the central invariants with TLAPS.

## 1. Inventory

| Part | State | Operations | Hard behaviour |
|---|---|---|---|
| **Room store** `core/storage/redis_backend.py`, `core/lua/*.lua` | zsets `queue`, `seen`, `admitted`; hashes `session:<id>` (TTL) and `bucket` (TTL); key `killswitch` | enqueue, position, admit_batch, hold_admission, release, remove, reclaim, set_kill_switch, flush_room | atomic scripts called from any process with the *caller's* clock; keys that expire one by one; relations between five keys kept by different scripts |
| **Engine** `core/engine.py` | a score counter, the time of the last poll tick | enqueue, position, try_admit, redeem, verify_pass, release, abandon, reclaim, status_payload, flush | several backend calls per operation, any of which can fail or lose its answer; failure modes; nobody ticks unless somebody polls |
| **Token signer** `core/tokens.py` | a Redis key per spent nonce (TTL) | issue, verify, mark_used | truncated seconds against running clocks, nonce lifetime against ticket lifetime |
| **Rate limiter** `core/ratelimit.py` | a counter with TTL per client address | acquire | fixed window; INCR and EXPIRE; asked before the store, in a command of its own |
| **Strategies** `core/strategies.py` | a per-process token bucket | slots_available | decide on values read before the script runs; several of them share one tick |
| **Configuration** `core/settings.py`, `conf.py`, `checks.py` | the setting `WAITING_ROOM`, read twice | load_configs, protected_path_specs, system checks | defaults that fall back on each other, 0 as "unlimited", two readers that must agree |
| **Gate** `adapters/django/_gate.py`, middleware, decorator, `_request.py` | cookies in the browser: session, ticket, pass | guard, enqueue_and_redirect, release_admission, client_ip | decides from cookies that may have expired or be stale, and from a header that clients write into |
| **Waiting page and views** `views.py`, `waiting.html` | the page's timers | poll, admit, leave | relative timers, lost answers, closed tabs |
| **Registry** `registry.py` | dictionary of rooms | build, get_room | filled room by room while the process starts; a room that is missing guards nothing |
| **Admin and commands** | - | toggle, reclaim, kill switch, flush, status | read-then-write toggle; a flush that scans and unlinks beside traffic |
| **Events, audit, metrics** | audit rows, counters | emit | what is counted when an operation is repeated |

How they interact: the page polls `status_payload`, which ticks (`admit_batch`)
and reads the position; at position 0 the page calls the admit callback, which
ticks again, reads the session's hash and mints a ticket when its state is
"admitted"; the gate redeems the ticket (nonce, then slot, then pass) and from
then on trusts the pass without asking Redis. Slots are freed by their deadline,
by `release`, and by nothing else.

What makes each part correct:

* **store** - never more holders than slots, never more admissions than the rate,
  first come first served, a waiter who polls keeps the place, a closed room
  admits nobody, a hash that says "admitted" tells the truth;
* **engine and tokens** - one pass per ticket, no pass without a slot, a lost
  answer can be repeated, the pass does not outlive the slot;
* **gate and page** - whoever keeps the page open is eventually let in;
* **rate limiter** - never more places in line from an address than the limit, and no
  address locked out for ever;
* **strategies** - an engine admits no more than its strategy allows, and the store's promise
  is kept all the same;
* **configuration, registry** - a process that serves has every room it was asked for, each
  with a limit that is enforced;
* **operator** - a flush leaves nobody behind, and no command of a toggle or a flush lets
  anybody past a closed door.

`PROJECT.json` lists the hazards behind these, each at its line.

## 2. Plan

1. `RoomState`, `RoomStore` - the store, every operation (done).
2. `AdmissionContract`, `MeteredRoom` - the abstract promise, the refinement, the
   rate (done).
3. `RoomLemmas`, `RoomStoreProofs` - type correctness, capacity, the tracked line,
   truthful metadata; `RoomActionProofs` - order, places, slots, the closed room, and
   the owners, lifetime and state of the metadata (done).
4. `TicketDesk` - try_admit and redeem as sequences of steps with failures and lost
   answers; nonces, tickets and passes with their clocks; on top of the store (done);
   `TicketDeskProofs` - one pass per ticket, promised slots are kept (done).
5. `Visitor` - gate, cookies and waiting page; liveness under the page's timer;
   `VisitorProofs` - the cookies, and the slot behind a pass (done).
6. `Strategies`, `Ticker` - engines that ask a strategy first, on top of `MeteredRoom`;
   `MeterProofs` - the rate, the refinement, the engines' own rate (done).
7. `Operators` - toggle and flush beside the traffic, on top of `RoomStore`; `OperatorProofs`
   (done).
8. `Settings`, `Doorway` - from the setting to the served rooms, the middleware, the client's
   address, the limiter, enqueue in its steps; `DoorwayProofs` (done).
9. Worth proving next: that the store's capacity and order also hold behind the browsers, where
   time is counted from the present (the store's lemmas assume scores that are not negative).
   Worth modelling next: two rooms in one browser, the counts of events and audit rows.

What extends what: `Settings` stands alone; `RoomState` < `RoomStore` < `MeteredRoom` < `Ticker`
(with `Strategies`); `RoomStore` < `TicketDesk`, `Operators`, `Doorway` (with `Settings`) and
`Visitor` (with `Strategies`).

## 3. The store: `RoomState` and `RoomStore`

State, variable by variable:

| TLA+ | Redis |
|---|---|
| `queue[s]` | score of `s` in zset `queue` (`Session.enqueued_at`) |
| `seen[s]` | score in zset `seen`, whole seconds |
| `hash[s]` | hash `session:<s>`: the fields `ip`+`ua` as `owner`, `state`, and the TTL as the last tick `exp` at which the key is readable |
| `admitted[s]` | deadline in zset `admitted` |
| `bucket` | hash `bucket` with its TTL, or `NoBucket` |
| `killswitch` | key `killswitch` |
| `now` | the clock |

Redis runs a script or a MULTI pipeline atomically, so each operation is one
action: `KeepPlace` and `JoinLine` (enqueue.lua), `Position`, `AdmitNobody` and
`AdmitFront` (admit_batch.lua), `Hold`, `Release`, `Remove`, `Reclaim`,
`SetKillSwitch`. `Tick` advances the clock and drops expired keys. Who calls is
left open: any operation may happen at any time, for any session, which covers
every interleaving of web workers, commands and browsers.

Points where the model follows the code closely:

* **Clocks.** Scripts take their time from `ARGV`. `Sampled` is the set of readings
  a caller may have taken, up to `MaxLag` ticks before the script runs; this also
  stands for clocks of different hosts that trail each other. Enqueue and reclaim read the
  clock twice, in order. TTLs are counted by Redis itself, from `now`.
* **Seconds.** `seen` is `int(time.time())`, so `Sec` truncates; deadlines are not.
* **The bucket** counts in fractions: `TokenUnit` units are one token, `Rate` units
  flow in per tick. `BucketSize` is `max(burst, rate, 1)`. The key's TTL is rounded
  up and prolonged by `BucketLinger` (60 s in the code; 0 in the runs, the tightest case).
* **The batch.** The code computes n as a minimum and pops ranks 0..n-1. `Front` is the
  same set stated per member: those whose place in line is within every limit.
* **Score ties** break by member, as in Redis. The engine adds `n * 1e-9` to a score,
  less than a double can hold at today's epoch, so ties are left possible.

Left out: the fields of the hash no script reads (`enqueued_at`, `user_id`,
`admitted_at`), `update_session` (no caller), errors of the connection (an
operation that did not happen, or happened without its answer being read: the
store's state is that of one of the two).

### The operator: `Operators`

| TLA+ | Code |
|---|---|
| `task` | what the operator is at: the toggle between its two commands, or a flush |
| `left` | keys that were there when the flush began and have not been unlinked |
| `waited`, `held` | who has been in line, or held a slot, ever since; history variables |
| `ReadSwitch`, `WriteSwitch` | `toggle_killswitch`: the switch is read (a failed read answers as the failure mode says), its negation written |
| `StartFlush`, `Unlink`, `FinishFlush`, `Rest` | `flush_room`: SCAN and UNLINK of any key of the room, until all that were there are gone; or the command fails |

All the traffic of the store runs between these steps. The runs of `RoomStore` alone hold relations
that a flush breaks for a while, since its keys go one by one: in the middle of one there
are places without metadata, metadata that says "admitted" without a slot, and a line nobody
watches (`LineIsTracked`, `TicketableHoldsSlot`). What holds throughout is what
`room_crowd` checks. Two things a reader of the code should know: the flush
unlinks the kill switch too, so a closed room is open afterwards; and a tick in the middle of a
flush may turn somebody who waited before it into a new holder of a slot, which
`FlushTakesTheOld` rightly does not forbid. The limiter's windows and the spent nonces go as well.

## 4. The contract: `AdmissionContract` and `MeteredRoom`

`AdmissionContract` says what `StorageBackend` promises without scripts, deadlines,
metadata or clock readings: a line served from the front, a set of holders, a meter that fills
at the rate up to the bucket's size, and a door. `MeteredRoom` maps the store to it
(`level` is what the bucket would hold if refilled now) and adds a count of the
admissions granted, a history variable that no action reads.

### Engines that ask first: `Strategies` and `Ticker`

An engine may be given a strategy. Its tick is then several commands between which anything may
happen: the queue's size is read, the number of holders is read and the strategy answers, the
script runs with the answer as its limit. `Strategies` has the three strategies of
`core/strategies.py` as operators, `Ticker` runs a composite of them beside processes
that have none.

| TLA+ | Code |
|---|---|
| `step[e]` | where the engine's tick is, and the number it carries: the size it read, or the slots it was given |
| `tokens[e]`, `last[e]` | `TimeBucketAdmission._tokens`, `_last` |
| `served[e]` | admissions made by the engine's ticks, a history variable |
| `ReadSize` | `queue_size` |
| `AskStrategy` | `admitted_count` (a failed read counts as 0) and `slots_available` of every member |
| `RunScript`, `TickFails` | `admit_batch`, or no answer from it |

The second read and the answer, a computation of the process right after it, are one
step; how stale a read can be is told by the steps before and after it. `EnginesKeepTheirRate` does not
depend on what was read at all. What the composite burns shows in `AskStrategy`: a time bucket pays for what it
hands out although a fellow strategy, or the script, then grants less. A
capacity-aware strategy made with capacity 0 gives nothing, while 0 means "unlimited" to the
script; the tick is then never run.

## 5. The ticket desk: `TicketDesk`

A web worker serves `try_admit` or `redeem` by a sequence of calls to Redis; `work[w]`
is the last step the worker `w` has done, and everything it still knows from it.

| TLA+ | Code |
|---|---|
| `tickets[n]` | the n-th ticket minted, with `sid` and `exp` (whole seconds); the nonce is its number |
| `nonces[n]` | key `<prefix>:<nonce>`, as the last tick it exists |
| `passes` | passes issued, with the ticket that was spent and the deadline the slot was given |
| `TickForTurn`, `LookUp`, `MintTicket` | `try_admit`: the admission tick, `get_session`, `issue` |
| `MintOpenTicket` | the same when the backend is down and the room fails open |
| `Verify`, `Claim` / `ClaimRefused`, `HoldSlot`, `IssuePass` | `redeem`: `verify`, `mark_used`, `hold_admission`, `issue` |
| `Fail` | after any step: the next call raises or the worker dies, whether or not the call took effect |
| `Elsewhere` | what all other requests and commands do to the store |

The module extends `RoomStore`: a step either is a step of the store or leaves the store
alone (`DeskRunsTheStore` proves it). A call that takes effect and loses its answer
is the call's action followed by `Fail`; a call that never arrives is `Fail` alone. A
browser may present one ticket in many requests at once, and retry with it later.

`Claim` and `HoldSlot` take their clock reading from `Sampled`, as the store's callers do:
`mark_used` computes the nonce's lifetime in the worker and Redis counts it from the moment
SET arrives. `Verify` and `IssuePass` need no Redis and read the clock as they happen.
ZADD's answer under `CH` is the code's: no change is taken for no slot.

Left out: signatures, fingerprints, room and purpose (comparisons that change no
state), and a signer without Redis, which does not claim single use.

## 6. The browsers: `Visitor`

`TicketDesk` asks what a worker's steps may do to tickets and slots; `Visitor` asks what a
person in front of the page experiences. A tab is at a step of the gate, of the waiting
page's script, or at rest.

| TLA+ | Code |
|---|---|
| `page[p].at` = `gate`, `hold`, `issue`, `join`, `arrive` | `guard`: the cookies are looked at, the slot is held, the pass is issued, the line is joined; `waiting_page` is rendered |
| `poll`, `admit` | a timer of the script runs (`due`: it fires now) |
| `look`, `ask` | `status_payload`, `try_admit` after their admission tick |
| `inside`, `away` | the protected page; a closed tab, or a page that ends there (room closed, unavailable) |
| `page[p].placed` | the page shows a place in line |
| `jar[b]` | session, ticket and pass cookie of browser `b`, with what is left of their `max_age` |
| `recent` | `_last_poll_tick`: a poll in the same instant may skip the tick |

The tick and the read after it are two actions, so requests of several tabs interleave
between them. A ticket or pass cookie stands for its signed content too, whose expiry
the cookie's `max_age` equals. `Fail` is any backend call that raises, or whose answer
gets lost on the way to the browser, with what the failure mode, the views and the
script's `catch` make of it: the retry keeps its step, the gate lets in or shows "unavailable",
the poll's tick is skipped, or an open ticket is minted. `FinishUse` has failures of its own: the answer
that deletes the pass cookie is lost, or the release fails, and then the cookie is
deleted all the same and the slot stays taken until its deadline.

A redemption reads the clock twice: `HoldSlot` sets the slot's deadline, `Issue` stamps the pass
(engine.py 332 and 335). Between the two other tabs, ticks, the operator and one `Age` may come, so the pass
may end a tick after its slot, and a redemption that takes longer than that tick is not modelled.
The signer cuts its reading to whole seconds, which may end the pass a tick earlier
(`PassLeft`). `TicketDesk` has the same two readings with real seconds.

Time runs for ever here, or "eventually" would mean "before the clock ends". So it is
counted from the present: `now` stays 0, and `Age` lowers every deadline, score and TTL by one.
The store's actions only compare times and add TTLs to `now`, so shifting all of them changes no
decision; what is long past (`seen` beyond the TTL, lapsed deadlines) is cut off at the value where no
comparison can tell it from older ones, and scores, of which only the order matters, are renumbered
below 0. The bucket is aged by giving it the refill each reader would work out for itself
(`OlderBucket`), and its key expires. A tick is the longest pause between two polls of an open page; `Age`
waits until every request is answered and every timer has fired, except for a
redemption between slot and pass, which it passes once.

Fairness: `WF(Proceed(p))`, the servers answer and the timers of an open page fire; `WF(Age)`,
time passes. Nothing is asked of visitors (`Visit`, `CloseTab`, `FinishUse`), of failures, or of the
operator, who need not run the periodic reclaim. Bounds: `MaxFaults` failures and closings of
the room, `MaxVisits` openings of the page by hand (pages the script reloads do not count), a new
session takes the smallest unused id (ids are alike except in ties of the score).

`Injected` gives all engines a `CapacityAwareAdmission`: a poll's tick then asks it first
(`Asked`) and runs the script only when it answers more than 0 (`visitor_stuck`).

Left out: the allowlist and the rate limiter (`Doorway`), a client whose address changes, a second
room in the same browser (two rooms left at the default cookie names overwrite each other's tickets
and passes), the event stream, which the page does not use, and the coincidence in ZADD CH that
`TicketDesk` has.

## 7. The way into the line: `Settings` and `Doorway`

`Settings` has what becomes of the setting `WAITING_ROOM`, as operators on a record of raw
values: `Loads` and `RoomsAsked` (`load_configs`, with `_coerce_policy` and the dataclasses' own checks),
`AdmissionLimits` (what the engine hands to the scripts), `EngineBuilds` (the limiter refuses a
limit of 0 only when it is constructed), and `CheckErrors` (`manage.py check`, which reads the
setting a second time by rules of its own).

Two of those rules matter here. `load_configs` takes any `Mapping` for WAITING_ROOM and for ROOMS, the
system checks take dicts only, so the shapes of a setting tell the two apart: what is "frozen" loads,
serves, and is reported (E001; with frozen ROOMS, E002 and E003 about a room that is not there). And a
rate of `NaN` is not `<= 0`, so it is accepted, and limits nothing because it is not `> 0`
either. An infinite rate is not modelled; all other rates are whole numbers per tick. The checks' warnings
change nothing and are left out.

`Doorway` starts a process with one of the settings of `SettingsRead` and lets its threads serve
requests.

| TLA+ | Code |
|---|---|
| `process`, `setting`, `rooms` | `AppConfig.ready`, `settings.WAITING_ROOM`, `registry._rooms` |
| `request[w]` | what thread `w` serves: the path, the sender, what was found out about it, and its step |
| `hits` | the limiter's keys, with the last tick they exist |
| `refused` | since when an address has been refused, a history variable |
| `StartProcess`, `ProcessDies` | every room is read and built, or what raises ends the process |
| `PassThrough`, `StartEnqueue` | the middleware and the gate, for a client without pass or ticket: the first entry of PROTECT, the room's own routes, the client's address, the allowlist; `Session.new` with its score |
| `Acquire` | `RedisRateLimiter.acquire` |
| `Store`, `StoreForeign`, `StoreAgain` | `_store_session`: enqueue.lua; its answer that the id is somebody else's; once more with a new id |
| `Fail` | a command fails, counted or not, and the failure mode decides |
| `Answer` | the response is sent |
| `Others`, `DoorTick` | everything else that is done to the room, and time |

The header a request arrives with is built from who sent it: a client writes any hops (`forged`), each
of the `Proxies` proxies appends where it was reached from. The session's score is read before
the limiter is asked, so it may be older than any reading of `RoomStore`'s own enqueue, and
`OwnerIsFixed` is checked here once more.

What the properties except, and a reader should know: a PROTECT entry that names a room the
settings do not have is logged and lets everybody through, in a room that fails closed too, and no
system check looks at the names; with a TRUSTED_PROXY_COUNT larger than the proxies there are, a
client chooses its own address. `apps.ready` loads the setting before the checks run, so of their
errors only E001 is ever printed (E002 and E003 describe settings that have already
raised; a target of `//` passes E003 and is only refused in `__post_init__`); and
a limit of 0 or less ends the process with a plain `ValueError` from the limiter.

Left out: the redirects and pages sent, and clients with a pass or ticket (`Visitor`).


## 8. Runs

| Run | Instance | Shows |
|---|---|---|
| `room_line` | 2 sessions, 1 slot, 6 instants, queued TTL of 4, grace and pass of 2 ticks, 2 ticks a second, lag 1 | the relations between line, metadata and slots survive expiry of each of them, returns and old tickets |
| `room_crowd` | `Operators`: 2 sessions, 1 slot, batches up to 2, all TTLs 1 tick, fails closed | capacity, order and kill switch under the operator's commands; a flush leaves nobody of before |
| `room_contract` | `Ticker`: 2 sessions, 2 slots, a rate of 1.5 tokens a tick with a bucket of 1.5, lag 0, one engine with a composite strategy of half a token a tick | the store implements the contract, the rate, the engine's own rate, types |
| `doorway_line` | `Doorway`: 1718 settings, 2 threads, 2 browsers at one address, a proxy, 5 kinds of request, a limit of 1 per window of 1 tick | served rooms, guarded paths, senders, the limit, owners |
| `room_stale_tick` | 2 sessions, 2 slots, half a token per tick, lag 1 | **violation**: the rate is overshot |
| `room_active_waiter` | as `room_line`, both TTLs 4 | **violation**: a polling waiter is dropped |
| `visitor_waits` | 2 browsers with a tab each, 3 ids, 1 slot, fail-open, 3 visits, 1 failure; line 6, grace 3, pass 4, ticket 4 ticks; a token every 3 ticks | liveness, turns, passes |
| `visitor_cookie` | 2 visits, no failure, line of 4 ticks | **violation**: a page that polls without a break loses its turn |
| `visitor_stuck` | as `visitor_cookie`, engines with `CapacityAwareAdmission` | **violation**: a lapsed slot is never freed while a page polls |
| `desk_tickets` | 2 workers, 2 tickets, 1 session, fail-open, 6 instants, all TTLs one second of 3 ticks, lag 0 | single use, kept slots, types of the desk |
| `desk_pass_outlives` | 1 ticket, 2 ticks a second, pass of 2 and line of 4 ticks | **violation**: the pass outlives the slot |
| `desk_spent_twice` | 1 ticket, 4 ticks a second, lag 3 | **violation**: a stalled worker spends a ticket again |

Why the bounds are enough: every guard compares two times or a rank with a limit, so
one tick before, at and after each deadline and two sessions for a relation reach each
branch; a batch that leaves somebody behind needs two in line and one slot. The clock runs past the longest TTL in
`room_line` (metadata of a waiting session expires and the session comes back) and past the bucket's
expiry in `room_contract`, whose rate of three units to a token of two makes fractions that a refill
completes and, with TTLs of one tick, a full line of lapses and returns, in three instants. What
larger crowds, batches and rates might add is covered by the theorems, which hold for any.
In `room_crowd` two sessions give a flush every kind of key, and the race it could lose: one of
before that stays while another joins.

In `doorway_line` a setting deviates from the one served in its shape and in up to two fields, so that
every check and every pair of fields that fall back on each other meets; the two
threads are interchangeable (nothing orders or names them; `request` is the only variable
indexed by them), which makes the symmetry sound. Two browsers share an address, so one
uses up what the other is limited by, and bring each other's session ids. The
counter saturates at the limit plus one, from where all numbers mean "refused"; the clock
passes one whole window. The run does not check deadlock: a process that died stays dead, and the clock ends. In `desk_tickets` two workers suffice for any race about one
ticket, since each step only meets the nonce and the slot as the others left them; two
tickets of one session let an old redemption meet a new one; the clock passes a ticket's expiry,
the nonce's and the slot's; a second has three ticks so that a nonce's lifetime cut to
whole seconds would be short by more than the tick it is last seen. Several sessions meet only in the store, whose theorems hold for
any number. Its lag is 0, because with a lag single use fails (`desk_spent_twice`).

In `visitor_waits` one slot and two browsers make one wait for the other, who may hold the slot
through a pass, a grace period after a closed tab, or an orphan session whose cookie was lost;
three visits let one of them come back. With a token every three ticks the
bucket is empty when a slot becomes free, and its key expires in quiet times. The line's TTL of 6 is shorter than the longest wait,
so cookies do expire under a waiting page. The grace is one tick longer than the poll
interval and one failed call take together: with a shorter one, or with more failures in a row than it
covers, a turn passes unclaimed, which is what the grace is for (the code's is 60 s, polls come
every 2.5 s and back off to at most 37.5 s). Only `VisitorGetsIn` needs
fairness; all other properties are safety.
Because visits are bounded, `VisitorGetsIn` says nothing of a line that others join for
ever; that they join behind is `FifoServed` and `PlacesAreStable`. The run fails open, where
a failure has more outcomes; failing closed is a value of the same constant.

| Property | Run | Says |
|---|---|---|
| `LineIsTracked` | `room_line` | the sessions watched for idleness are those in line |
| `TicketableHoldsSlot` | `room_line` | metadata that says "admitted" is true |
| `HolderCanComeBack` | `room_line` | a holder who lost an answer finds metadata to mint a ticket on |
| `MetadataOutlivesSilence` | `room_line` | a waiter's metadata lasts for the shorter TTL after its poll |
| `PlaceIsStable`, `LiveWaiterKeepsPlace` | `room_line` | nobody moves in line; live waiters leave it by admission only |
| `SlotKeptToDeadline` | `room_line` | only release frees a slot early |
| `CapacityRespected`, `FifoAdmission`, `KillSwitchHolds` | `room_crowd` | batches obey slots, order and the door, also in the middle of a toggle or a flush |
| `FlushTakesTheOld` | `room_crowd` | when a flush ends, nobody is left who was there all the while |
| `RateNeverOvershot`, `KeepsContract` | `room_contract` | rate and refinement, beside engines that ask a strategy |
| `EngineKeepsItsRate` | `room_contract` | such an engine admits no more than its own bucket |
| `ServedRoomsAreSound` | `doorway_line` | a served room has a limit the scripts enforce, unless its rate is NaN, and the system checks agree, if the setting is made of dicts |
| `ProtectedIsGuarded` | `doorway_line` | nobody passes by a room that is missing or an address made up |
| `SenderIsKnown` | `doorway_line` | a request is counted for, and its session owned by, its sender |
| `PlacesWithinLimit` | `doorway_line` | however requests overlap, an address gets no more places in a window than the limit |
| `RefusedNotForLong` | `doorway_line` | no address is refused for longer than one window |
| `OwnerIsFixed` | `doorway_line` | sessions stay their owner's, whatever ids requests bring |
| `PassHasSlot` | `visitor_waits` | a pass the gate honours without asking Redis has its slot, until its last tick |
| `TurnIsKept` | `visitor_waits` | with its cookie, a page in line is not sent away without a ticket |
| `VisitorGetsIn` | `visitor_waits` | whoever stays gets in, or is told that the room is closed or unavailable |
| `OnePassPerTicket` | `desk_tickets` | a ticket buys one pass, whatever is retried, raced or forgotten |
| `PromisedSlotKept` | `desk_tickets` | nobody but release frees or shortens the slot a pass was issued with |

## 9. Findings

* **Stale ticks overshoot the rate** (`room_stale_tick`). `admit_batch.lua` stores the
  caller's `now` as the bucket's `ts` even when it is older than the stored one. A worker
  that stalls between reading its clock and running the script moves `ts` back, and
  the next tick is credited the same time again. The comments at lines 3-5 and 98-99
  promise otherwise. With readings in order (`room_contract`) the promise holds.
* **A lapsed slot is never freed** (`visitor_stuck`). README 262-264, a docstring of the engine and
  the changelog say that every admission tick frees lapsed slots, and that the periodic reclaim is optional. With
  `CapacityAwareAdmission` injected, a lapsed slot still counts as admitted (`ZCARD`), the
  strategy answers 0, `_tick_admit` returns before the script, and the script is
  what frees slots: with all slots lapsed the room stands still until somebody runs the
  reclaim command or releases.
* **A waiter who polls can be dropped** (`room_active_waiter`). After a pause longer
  than the TTL the hash is gone while the place remains; polls refresh `seen` only, and
  the pop drops sessions without a hash. `LiveWaiterKeepsPlace` is what does hold:
  a waiter whose metadata is there keeps the place.
* **The pass outlives the slot** (`desk_pass_outlives`). The slot's deadline is read
  from the clock before the pass's expiry is, and a pass is honoured without asking
  Redis. `PromisedSlotKept` is what holds: the slot is kept up to the deadline computed at
  redemption.
* **A ticket can be spent twice** (`desk_spent_twice`). A nonce claimed late in the
  ticket's life is forgotten up to a second after the ticket's expiry, possibly at once
  after it. A worker that found the ticket fresh but whose SET arrives after that
  claims it again. With a reading used at once (`desk_tickets`, `OneTicketOnePass`) it cannot.
* **A page that polls loses its turn to its cookie** (`visitor_cookie`). Polls keep the session
  alive in Redis, but no answer sets the session cookie again. Once the wait is longer than
  `queued_session_ttl_seconds` the admit callback answers 403 at the very moment the turn
  comes; the page joins the line anew, at the back, and the slot idles through the grace
  period. `TurnIsKept` is what holds while the cookie lives.

Not runs, but worth knowing: a rate of NaN switches the rate off, and settings made of other mappings
than dicts are served but reported (section 7); of two tabs of one browser one can give back the slot
of the other while its pass is on its way (section 10); the comment in `abandon` says that it lets a slot free up, while
`remove` never touches the zset `admitted`; the slot stays occupied until its deadline
(`SlotsAreKept` has no exception for it).

## 10. Proofs

`RoomLemmas` proves facts about the operators, `RoomStoreProofs` the theorems, for
every set of sessions, every configuration and every `MaxLag` (where a theorem does not say
`MaxLag = 0`), from the assumptions on the constants in `RoomState`, `Ticker`, `Operators`,
`TicketDesk`, `Visitor` and `Doorway`.

* `TypeCorrect` (`TypeOK`). Inductive as it stands. The hard case is `AdmitFront`: the
  tokens written back are natural. `FewBelowRank` shows by the pigeonhole principle
  that at most k members of a sorted set have a rank below k; `BatchFits` concludes
  that the *size* of a batch obeys the limits its members' places obey.
* `CapacityHolds` (`CapacityRespected`). Inductive together with `TypeOK`, by `BatchFits` and the
  cardinality of the union of holders and newcomers.
* `LineTracked` (`LineIsTracked`). Inductive alone.
* `TicketablesHoldSlots` (`TicketableHoldsSlot`). Inductive together with `TypeOK`: the state
  "admitted" is written only with a slot, and whatever frees a slot rewrites the state.

`RoomActionProofs` proves the action properties. None of them needs more than `TypeOK`;
two lemmas carry them: `LeavesLine` lists the only actions that take a session out of the
line, `WhoIsAdmitted` that a session which leaves with the state "admitted" left in a batch.

* `FifoServed` (`FifoAdmission`): `RankFollowsOrder` and `FitsDownwards`, whoever is ahead
  of a member of the batch has a smaller rank and so is in the batch.
* `PlacesAreStable`, `LiveWaitersKeepTheirPlace`, `SlotsAreKept`, `ClosedRoomsStayClosed`:
  one case per action. For reclaim and the lapsing slots the readings are not ahead of
  the server's clock (`ReadingsArePast`), which is what the code's deadlines rely on.

It also follows the hash. `MetadataStep` says once how a step may rewrite it;
`OwnersAreFixed`, `HoldersCanComeBack` and `MetadataOutlives` each need little beyond it.
`HoldersCanComeBack` is inductive with `TypeOK` alone; `MetadataOutlives` strengthens with
"a poll is never ahead of the clock".

`TicketDeskProofs` proves about the desk, for any number of workers and tickets:

* `DeskRunsTheStore`: `DeskSpec => Spec`, so every theorem above holds under the desk;
  `DeskKeepsCapacity` is the example. The step needs `DeskTypeOK` (whom a worker holds
  a slot for is a session), proved inductive in `DeskTypeCorrect`.
* `OneTicketOnePass` (`OnePassPerTicket`), for `MaxLag = 0`. The inductive invariant `SingleUse`: a nonce
  outlives its ticket, a spent ticket is remembered or past its expiry, no two
  workers are spending one ticket, and none spends a ticket that has bought a pass. It needs all
  four: the nonce is what excludes the second claim, and when it is forgotten the expiry does.
* `PromisesAreKept` (`PromisedSlotKept`), for `MaxLag = 0`. The invariant `Promises` says that no deadline
  of a slot lies further ahead than a new one would, so that a later redemption never shortens it.

`OperatorProofs` proves what `room_crowd` checks, under traffic, toggles and flushes:

* `OperatorTypeCorrect`, `OperatorKeepsCapacity`, `OperatorKeepsTheDoor`, `OperatorKeepsOrder`: the store's
  step lemmas for the traffic, and `UnlinkStep` (a key taken away only takes away) for the flush.
  Nobody is "just admitted" by an unlink because nobody in line is marked "admitted"
  (`NobodyInLineIsAdmitted`), the one relation of place and metadata that a flush does not break.
* `FlushTakesAllOld` (`FlushTakesTheOld`): the invariant `StillToCome` says that while any of `waited` is
  left, the line's key has not been unlinked since the flush began and is still to come, and likewise the
  slots' for `held`.

`MeterProofs` proves what `room_contract` checks:

* `RateHolds` (`RateNeverOvershot`), for `MaxLag = 0`. The invariant `MeterInv` is a balance: what was granted
  and what the bucket would hold now never exceed one bucket and the inflow. It needs
  `BucketOK`, the key outlives the filling of the bucket, so that an expired bucket
  counts as full with right.
* `StoreKeepsContract` (`KeepsContract`), for `MaxLag = 0`: each action of the store is an action of
  `AdmissionContract` under the mapping, or a stutter.
* `TickerRunsTheStore`: `TickerSpec => MeteredSpec`, and so `TickerKeepsRateAndContract`.
* `EnginesKeepTheirRate` (`EngineKeepsItsRate`), for any lag: `EnginesOK` adds to the engine's
  balance what was handed out and is on its way to the script.

`DoorwayProofs` proves for any settings, any number of proxies and threads, and any hops a client sends:

* `SendersAreKnown` (`SenderIsKnown`): `SenderFound`, the address the first trusted proxy appended is
  the one counted from the right, behind any number of forged hops.
* `ProtectedRoomsAreGuarded` (`ProtectedIsGuarded`) and `ServedRoomsHold` (`ServedRoomsAreSound`): from
  `DoorHolds`, a serving process has exactly the rooms its setting asks for. `RequestStep` says once
  where a request comes from and where it goes. `ServedRoomsHold` says of any setting, in the values `Settings`
  tells apart, that each room served has a limit or a rate of NaN; that the system checks have no errors it
  says of settings made of dicts only, because of others it is false.

* `DoorTypesHold` (`TypeOK` behind the door) and `DoorOwnersAreFixed` (`OwnerIsFixed`): the door brings
  scores older than any reading of `RoomStore`'s own enqueue, so both are proved anew for `DoorSpec`, from
  `RequestsTyped`, what a request carries between its steps. `MetadataStep` does the rest.
* `RefusalsEnd` (`RefusedNotForLong`): `WindowsOK`, an open window ends within `Window`, and `RefusedSince`,
  an address is refused only since a time in its own window. What a hit may not do is move the end.
* `PlacesAreLimited` (`PlacesWithinLimit`), if `Window` is no longer than `QueuedTtl` and `AdmittedTtl`
  (60 s against 1800 s and 900 s by default). `PlacesWithinLimit` counts places only; the invariant
  `WithinBudget` counts beside them the requests that were let through in this window and have not reached
  the store, and bounds both by the limiter's count. A place taken then *exchanges* a request for a place
  (`Exchanged`), and only `Acquire` adds to the sum (`OneMore`). The hypothesis is needed: a place whose
  metadata is gone can be joined again under another owner, with its old score kept, and
  `StalePlacesAreOld` says that such a place is older than the window. With `Window` = 2 and
  `QueuedTtl` = 1 TLC finds an address with one place too many: one somebody else took in this window, whose
  metadata expired and which a stalled request of an earlier window then claims.

`VisitorProofs` proves about the browsers, for any number of browsers and tabs, any TTLs, either failure
mode and with or without a strategy:

* `VisitorTypesHold` (`VisitorTypeOK`). `TabMoves` says once, for every action of a tab, where the tab
  goes and where the cookie it sets has its id from: its own browser, or the ids nobody has. A browser's one
  cookie of a kind is proved as "any two are equal" (`OneCookie`), which is what is inductive.
* `PassesLoseSlotsOnlyToTheirOwnPlace`, for all constants, with the slot's deadline and the pass's expiry
  from separate clock readings. `Claims` are the unspent passes of a browser and the passes its tabs are
  about to be given, counted for the longest they can last; a claim is `Backed` if there is a slot for it
  until its last tick. A claim is without it after a step only if one of the browser's for that session was
  before, or if the step pops a new place in line of its own session, which then holds the slot for
  `Grace` (`Readmitted`), or if another tab of the same browser gives the slot back between `HoldSlot` and
  `Issue` (`GivenBack`). No other browser, redemption, tick or reclaim takes it. The last tick cannot be had: the
  slot's reading may be one tick older than the pass's. The invariants are
  `Apart`, no two browsers know an id in common (or one would release the other's slot),
  `PassesBounded`, no pass is good for longer than a redemption holds a slot (or a later redemption would
  shorten it), and `SlotsOK`.
* `PassesHaveSlots` (`PassHasSlot`), if each browser has one tab, and there is one slot, as in
  `visitor_waits`, or `Grace` is at least `AdmittedTtl`. The claims are all backed, which is inductive: with
  one tab nothing is given back between the two readings; in a room of one slot nobody is popped while it
  is held (`OneSlot`); with such a grace the slot of the new admission lasts as long as the pass. Neither of
  the last two is the default (60 s against 900 s), and each hypothesis is needed. Without the second, with
  one tab each: a tab rejoins the line after the metadata expired, while the session's slot has lapsed but
  has not been freed; three calls fail and the room fails open, so it gets a ticket, redeems it, which extends
  that slot, and gets a pass; then the batch that pops the new place overwrites the deadline with the
  shorter grace (admit_batch.lua 93 is a ZADD without GT), and the pass is honoured after the slot is free.
  TLC finds this with two slots, a grace of 1, passes of 3 and a line of 7 ticks. With two tabs
  nothing needs to fail: the ticket may be one the other tab still has. Without the first: one tab is inside on an
  earlier pass of the session and finishes while the other is between `HoldSlot` and `Issue`; the slot is free
  and the pass is issued.

Only model-checked: `TurnIsKept`, which holds because of how often pages poll, how long the grace is and how
many calls fail in a row, quantities the runs fix and no theorem bounds; the properties of the runs that
expect a violation; and liveness (`VisitorGetsIn`), which is out of the prover's reach, like everything that
needs ENABLED. No module with a theorem has a recursive operator, so no result depends on induction over data.

## 11. Not modelled

* Events, audit rows and metrics change nothing the queue depends on; `ADMITTED` is emitted for
  every ticket minted, so a page that asks twice is counted twice.
* Signatures, fingerprints' hashing, formats and wording, routes, templates' layout, logging.
* The status command and the admin's list, which only read; `update_session`, which nothing calls;
  the functions with which tests replace rooms in a running process.
* Wait estimates and the arithmetic of score tiebreaks (scores may tie here).
* Packaging, the demo shop and its load generator.
