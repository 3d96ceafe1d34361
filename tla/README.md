# LumiPanel in TLA+

Models, model checks and proofs for the core logic of LumiPanel, a proxy
subscription panel in Go: how traffic is charged to subscriptions and reaches
the ledger, how domain events fan out, what a plan change costs, how an order is
paid and shipped, when an allowance is reset, and which nodes a client is
served. Source references are to files below `src/`; section numbers (§7.3) are
those of `docs/design/v1.0.md`.

## 1. The system

The repository holds the decision logic and the schema. Handlers, store layer,
node plane, Flusher, renderers and jobs are designed but not written
(`README.md`, "Current state"), so the callers of the code below are known from
its comments, tests and the design document only.

| Component | State | Operations | Interacts with |
|---|---|---|---|
| Quota ladder, `internal/metering/ladder.go` | `ladders`: user to subscriptions in deduction order; an RWMutex | `Rebuild` `Sync` `Drop` `Snapshot` `Users` `Attribute` `Reconcile` `Reset` | called by flush loop, hourly rebuild, event subscribers (`metering.update_ladder`, `metering.reset_ladder`), invariant checker, diagnose endpoint; calls attribution and period arithmetic |
| Attribution, `internal/domain/quota.go` | none, works on lists | `SortForDeduction` `Attribute` `ApplyAttribution` | ladder |
| Periods, `internal/domain/reset.go` | none | `AlignBucket` `NextReset` `CountsTowardCurrentPeriod` `Entitled` | ladder, authorisation, reset job |
| Event bus, `internal/events/bus.go` | `subs`: event type to named handlers; an RWMutex | `Subscribe` `Subscribers` `Publish` `VerifyWiring` | handlers of any package, which may call the bus again |
| Plan changes, `internal/domain/plan.go` | none; `subscriptions` row and a plan snapshot come in, an outcome goes out | `ApplyChange` `RemainingDays` | order service (unwritten) |
| Orders, `internal/domain/order.go` | `orders.status` | `Transition` `IsPaid` `IsTerminal` `IsKnown` | payment callbacks, provisioning (unwritten) |
| Billing, `internal/domain/traffic.go` | none | `ValidateDelta` `BilledBytes` | ingest (unwritten) |
| Money, periods, `money.go` `period.go` | none | `Deduct` `PeriodDays` | orders |
| Subscription output, `internal/subplane/` | none; the skeleton is meant to be cached per selector | `Resolve` `DetectUA` `Supports` `FilterProtocols` `BuildSkeleton` | subscription endpoint and its cache (unwritten) |
| Platform, `internal/platform/{httpx,secret}` | none | `WriteJSON` `WriteErrorCode`; `Secret` | every handler |
| Schema, `migrations/` | tables, partial unique indexes, ledger partitions | `lumi_ensure_ledger_partition` `lumi_detach_expired_ledger_partitions` | scheduler, Flusher (unwritten) |

### What is hard about it

* **The ladder** is shared by at least five callers. Splitting a bill and
  deducting it are two loops that must be one step for everybody else; a reset
  may land between the traffic and its flush; subscription lists come from
  tables that trail by an hour and from joins that repeat rows; nothing may be
  left locked on any path. Correct means: allowance is handed out once, no
  counter passes its allowance by attribution, only an authoritative source
  hands allowance back, traffic is never lost, and the result does not depend
  on row order or batching.
* **The bus** runs foreign code between reading its registry and finishing a
  fan-out. Handlers fail, panic and call back. Correct means: every subscriber
  present at the call is reached, none twice, no handler runs under the lock,
  and what startup verified stays true.
* **Plan changes** round twice per change and are chained without limit.
  Correct means: the rounding never costs the user anything, and no chain of
  changes makes money.
* **Orders** are moved by payment callbacks that arrive twice, late or for a
  second trade, by cancellation, and by provisioning that is retried while a
  refund is under way. Correct means: one trade pays, the product is shipped
  once, what is over stays over, no money is lost.
* **Traffic on its way to the ledger** crosses a write-ahead log, memory, a
  gate and a table that trails, with a crash possible between any two and a
  reset or a rebuild in between. Correct means: every batch is in the ledger
  once, no counter forgets usage, and no period is billed past its allowance
  (which the code meets for the period that runs, not for one that is over).
* **Calendars**: the next reset is computed from local midnights, which some
  timezones skip or show twice, and from anchor days some months lack. Correct
  means: it lies ahead, on the anchor, and passes no month over.
* **Client detection** is an ordered list of overlapping substrings, with word
  boundaries, versions read out of free text and a matrix behind it. Correct
  means: a client is served what it parses, and everything of it that its
  version is known to parse.
* **Words**: bytes times a rate in `int64`, after an accumulator has merged
  reports. Correct means: nothing wraps, nobody pays for a wrap.
* **Partitions**: missed days, month boundaries in the session's timezone.

`PROJECT.json` lists each hazard at its line with the properties that cover it.

## 2. Modules

| Module | Models |
|---|---|
| `Deduction` | pure: `quota.go`, the bucket arithmetic of `reset.go`, `prepare` of `ladder.go` |
| `Waterfall` | abstract: attribution without its loop; billed traffic is poured over the allowances in order |
| `BatchSplit` | `Deduction` driven over every short list: prepare, one batch, a second one |
| `RWMutex` | external: Go's `sync.RWMutex`, as operators on a lock record |
| `LadderOps` | what the ladder's methods do to one user's list |
| `QuotaLadder` | `ladder.go`: every method, the lock, the loops under it one iteration at a time |
| `LadderAtomic` | abstract: the ladder's promise, every operation one instant, attribution the waterfall |
| `Metering` | the ladder at work: Flusher, write-ahead log, ledger and gate of `0001_core.sql`, rollup, rebuild, Sync from a trailing table, resets, crashes |
| `EventBus` | `bus.go`: goroutines as stacks of calls, handlers with four ways to end |
| `BusAtomic` | abstract: the bus's promise, every call deals with the registry at one instant |
| `Linkage` | what the bus is for: a state, its side effects under concurrent Publishes, failures and a retry queue |
| `PlanChange` | pure: `plan.go` with a fixed offset |
| `Membership` | one subscriber changing plans over the days, with books (history) |
| `Calendar` | pure: `NextReset`, its anchors, `RemainingLocalDays`, over Go's `Date` and `AddDate` in a timezone that changes its clocks |
| `ResetCycle` | one subscription through the months, its reset job as late as it likes |
| `OrderLifecycle` | `order.go` and the keys of `0002_business.sql`, driven by the service their comments ask for |
| `Billing` | `traffic.go` in wrapping machine words, under an accumulator |
| `Balance` | `Deduct` of `money.go`, the conditional UPDATE, `balance_logs` |
| `LedgerPartitions` | the partition functions and the bootstrap of `0001_core.sql` under a scheduler that may be down |
| `ClientDetection` | pure: `detect.go` over lexed texts |
| `Subplane` | `capability.go` and `ir.go`: requests, skeletons, a shared cache under edits |
| `HttpResponse` | `httpx/json.go` over `net/http`'s rules, with `Secret.MarshalJSON` |
| `...Proofs` | theorems about the modules of those names; `AccountProofs` about `BatchSplit`, `Billing`, `Balance`, `LedgerPartitions`, `Membership` and `ResetCycle`, `SubplaneProofs` about `HttpResponse` too |
| `MC...` | instances for TLC |

`QuotaLadder` and `Metering` extend `LadderOps`, which extends `Deduction`;
`QuotaLadder` and `EventBus` extend the same `RWMutex`; `LadderAtomic` extends
`Waterfall` and is instantiated by `QuotaLadder` with the mapping between them,
`BusAtomic` by `EventBus`;
`Membership` extends `PlanChange`, `ResetCycle` `Calendar`, which takes the
alignment to buckets from `Deduction`, `Subplane` `ClientDetection`.
`MCAccounts` puts six modules about one user side by side; they share no state,
so a behaviour works one and leaves the others at rest. `MCSubplane` does the same
with the feed and a JSON answer.

### QuotaLadder and the code

`held` is the key set of the map `ladders`, `subs` its values; a missing key
reads as the empty list, as a nil slice does. A goroutine has a program counter
`pc`, the call it makes `req`, its loop counter `cur`, the locals of
`domain.Attribute` in `split`, and the value to be returned in `reply`. `Call`
picks any request; `AnnounceWriter`/`EnterWriter` are the two halves of `Lock`,
`EnterReader` is `RLock`, `ExitWriter`/`ExitReader` are the deferred unlocks.
The short methods do their work in one action, since nobody else can be inside
(`LockInv`, proved). The loops are stepped: `ScanStep` is one iteration of the
split, `ChargeStep` one row written back, `SnapshotStep` one entry copied; the
property that nobody can tell is `ImplementsAtomic`. `Attribute`'s two early
returns are `AttributeNothing`, before the lock, and `AttributeMissing`, under
it.

### Metering and the code

The ladder's methods are those of `LadderOps`; that they are one instant each
is what `QuotaLadder` shows. Everything around them is external, in the order
the comments of `ladder.go` and §7.3, §7.6 and §7.8 give: `Log` writes a batch
ahead, `AttributeBatch` splits and charges it in memory, `Commit` upserts its
rows behind the `traffic_batches` gate in one transaction, `Ack` forgets it.
`Crash` loses the memory anywhere; `Hydrate` rebuilds it from sums over the
ledger, as `ladder.go:46-51` says (§7.6 reads `subscriptions` instead, which
is `HydrateMutant` and bills an allowance twice); the log is replayed by
`AttributeBatch`. `Rollup` brings the table up to date, `ReadTable` and `Sync`
are a handler's read of it and its later call, `Rebuild` runs between two
flushes, and `Reset` writes table and ladder, on a bucket boundary when no batch
of the bucket is on its way. `ladder.go` asks for neither: both are left to the
jobs that will call it, and `Disturbances` ("midFlush", "midBucket") takes them
away, as "resync" takes away that a dropped user stays dropped. A batch that had been committed
when the Flusher died is charged to the ladder again by the replay, until the
next `Rebuild`: the counter covers the ledger then and does not equal it.

### EventBus, Linkage and the code

A goroutine is a stack of frames, one per call into the bus: a handler that
calls the bus pushes a frame. Publish's copy of the registry is `subs` in its
frame, made under the read lock (`CopySubscribers`); `StartFanOut` gives the
lock back, and every handler runs after that. A handler returns nil, returns
an error, panics, or returns an error whose `Error` method panics
(`Outcomes`). `Recovered` is `deliver`'s recover, `Unwound` a panic that is not
caught there: it ends the call and surfaces in the handler that made it, whose
own `deliver` stops it. `Subscribe` looks for the name (`CheckDuplicate`) and appends (`Register`) in
two steps, between which only the lock keeps a second one out; its duplicate
panic is `RefuseDuplicate` followed by the deferred unlock (`ExitPanicking`). The field `owed` is history:
who was subscribed when the call was made.

`BusAtomic` has the registry and the stacks, and neither lock nor copy nor walk.
A `Subscribe` is performed by the append or by finding the name, a
`VerifyWiring` when its walk over the matrix ends, a `Publish` and a
`Subscribers` when they copy; `Seen` hides everything else of a frame: where it
waits, what a walk has collected so far, and the part of a copy that is behind.
`CallsTakeTurns` says that `EventBus` implements it.

In `Linkage` a Publish is seen from outside: a copy, and a fan-out under no
lock. Two handlers commit opposite states and publish in any order, subscribers
fail, and the queue publishes a failed event again. `EffectFrom` says what a
subscriber looks at, the event or the state; in the latter case it reads the
state and applies its effect as one, in a statement or transaction of its own.
The bus asks that of nobody, and what is shown depends on it.

### PlanChange, Membership, Calendar, ResetCycle and the code

`ApplyChange` is a CASE over the policies in the order of the code's guards;
the `deny` fallthrough into `reset` is the call of `StartOver` by both. Instants
are integers, a day is `DayLength` of them, the billing timezone has the fixed
offset `UTCOffset`, and callers pass instants in UTC. In `Membership` time
passes, traffic is used, and `Change` applies an outcome whole; the service
that will do that is external and is taken to hold the row. The books keep
values in units of 1/`Common` so that a day's share of any price is a whole
number.

`Calendar` has the timezones `PlanChange` leaves out: an offset that changes
once, months of any lengths, and `time.Date` as Go computes it, two lookups of
the offset, which puts a reading the clocks skip before or after the gap
depending on the sign of the offset. `ResetCycle` drives `NextReset` the way
its `next_reset_at` column is used.

### OrderLifecycle and the code

One order row and one `payments` row per trade. The table, `CanTransition`,
`IsTerminal` and `IsPaid` are those of `order.go`. Nothing calls them yet, so
the actions are external: a worker reads the status with the row held
(`HoldRow`), decides by the table, writes and commits in one action, and may
roll back or crash before that. What a callback does is what the comments say:
`AcceptPayment` along an edge, `CreditSurplus` for what `IsPaid` calls a
duplicate, `BouncePayment` for everything else, `RepeatedCallback` when the
unique key knows the trade. `granted` counts subscriptions, so shipping twice
shows.

### Billing, Balance, LedgerPartitions and the code

`Billing` has the arithmetic of a signed word of any width; `Report` is a
validated pair added to the accumulator, `Flush` a bill of what it holds. The
assumption `HeadroomAssumption` says how many reports one bill may merge, which
the bound of `traffic.go:33-45` leaves open (with the real numbers two: 2^47
times 2^15 - 1 is 2^62 less 2^47, and two of them are 2^48 short of 2^63).
`Balance` has sessions that read, pass `Deduct` and spend by the conditional
UPDATE later, credits, and clawbacks that may go below zero. Where the pair of a
`balance_logs` row comes from is not said, so both values may be from an earlier
read; the CHECK lets through what fits the amount, a stale pair too.
`LedgerPartitions` is the two functions as written, including that a table of
the right name is enough for the first, and the bootstrap.

### ClientDetection, Subplane, HttpResponse and the code

A lowercased User-Agent is a sequence of lexemes; needles are sequences too,
`ContainsNeedle` finds them with their word boundaries, and the first rule of
`uaRules` that matches decides. `ParseVersion` is the scan of detect.go:172-199
over lexemes, including that it skips one digit of a run in a name and goes on.
`Subplane`: `Ask` resolves, `Hit` serves from the cache, `Query` and `Build`
read rows and build; `Edit` changes a node and empties the cache, and a
skeleton of rows that are no longer the table's is not kept. Endpoint, table
and cache are external: of the code, `AnswerWasTrue` shows that the selector
is all a cache needs for its key.

`HttpResponse` writes an answer one line of the source at a time, over
`net/http`: the first status stands, headers count if set before it, a body
without a status commits 200, and the client may leave at any leaf. The encode
fills a buffer first; `json.go:16-19` says that `json.NewEncoder` would stream a
partial document instead, which `encoding/json` does not do (it marshals the
value whole before it writes), and the order of the writer is right either way.

## 3. Runs

| Run | Question | Instance |
|---|---|---|
| `QuotaLadder` | Is the ladder, with its real lock and loops, the atomic ladder? Never overdrawn by a split, refunded by authority only? | 2 goroutines, 1 user, two subscription lists (wrong order and repeated row; a trailing counter and an expiry), bills of 0, some and more than all, buckets on both sides of a reset |
| `QuotaLadderLive` | Does every call come back? | 2 goroutines, 1 subscription, every method, fair |
| `Metering` | Is every batch in the ledger once, no usage forgotten, the running period not overbilled, the ladder the ledger? | a primary of 3 and a pack of 1, three batches of 2 or 3, two buckets, a crash, a reset of each, `Disturbances` that drop the user or crash and install stale rows |
| `EventBus` | Fan-out complete, no double registration, nobody can tell that calls do not take turns? | 2 goroutines, 2 types, 2 names, calls nested 3 deep, failing and panicking handlers |
| `EventBusLive` | Do re-entrant handlers ever deadlock with a waiting Subscribe? | the same at depth 2, fair |
| `Linkage` | Do the effects end up where the state is, and does each happen? | 3 goroutines, 4 events, 2 subscribers each, 2 failures |
| `OrderLifecycle` | Paid by one trade, shipped once, over when over, settled in the end? | 2 workers, 3 trades, fair |
| `Accounts` | Split, billing, partitions, plan changes, resets, balance: the claims of their comments | lists of 0 to 3 of 7 subscriptions; an 8-bit word; 3 month boundaries in units of 8 hours; 3 changes of 2 plans in 9 half-days; 28 timezones over 7 short months; 2 sessions and 4 movements |
| `Subplane` | Is everybody served exactly what they are entitled to and parse? Is a refusal clean? | 16 applications of one product each, explicit targets and preferences, 8 protocols; 2 requests of 5 users, 2 edited nodes, one edit; documents of up to 4 leaves |

Three runs end in a violation on purpose, each a disagreement between a comment
and the code.

| Run | Comment | What the code does |
|---|---|---|
| `EventBusBadError` | bus.go:125: every handler runs even if an earlier one failed | `err.Error()` is called at line 152, outside `deliver`'s recover; if it panics, the rest of the fan-out is abandoned. With errors that can be printed the claim holds (`FanOutComplete` in `EventBus`). |
| `AccountsFirst` | reset.go:30: the next replenishment after now | `NextReset` answers with the instant just executed, in a timezone west of Greenwich whose clocks skip midnight of a first (Paraguay, October 2017 and 2023): `Date` lands in the month before and the month added leads back to it. |
| `SubplaneCompound` | detect.go:167: the first run of digits belongs to the application the rules matched | A wrapper that also names its core is matched by the core's rule and credited with the wrapper's version, which opens the gates of the matrix. |

### Settings that break a claim

The passing runs fix a few constants and leave out a few definitions because the
code does not meet the claim beyond them. Each is reproduced by the change named
here and, but for the last two, a finding of `PROJECT.json`: those are what the
callers that are not written will have to see to.

| Instance | Change | TLC violates | Because |
|---|---|---|---|
| `MCMetering` | `Disturbances = {{}}`, invariant `LatePeriodNotOverbilled` | it | rows of a bucket before a reset are offered the fresh balance and not charged for it (ladder.go:182,196) |
| `MCMetering` | `Disturbances = {{"midBucket"}}` | `LadderIsTheLedger` | a reset inside a bucket zeroes traffic that belongs to the new period (ladder.go:235) |
| `MCMetering` | `Disturbances = {{"drop", "resync"}}` | `CounterCoversTheLedger` | Drop and then Sync installs the trailing counter (ladder.go:74-84,125) |
| `MCLinkage` | `EffectFrom = "event"`, property `BannedStaysOut` | it | fan-outs and retries interleave; an idempotent subscriber that trusts the event ends with the wrong effect (bus.go:139) |
| `OrderLifecycle` | invariant `EveryPaymentAccounted` | it | `IsPaid("cancelled")` is false, money that comes after a cancellation bounces, §8.3 wants it credited (order.go:91-96) |
| `MCAccounts` | invariant `AllowanceFavoursUser` | it | the prorated allowance is floored, against the user (plan.go:245) |
| `MCAccounts` | `Mixed = TRUE`, invariant `WhatLiesAheadWasPaid` | it | days stacked from a cheap plan are surrendered at the dear one's price (plan.go:195-219,233) |
| `MCAccounts` | `Zones <- LastOfMonthZones`, invariant `ClampsToLastDay` | it | the last day is read back from a midnight the clocks skipped (reset.go:78) |
| `MCAccounts` | `Zones <- EastFirstZones` | `LandsOnTheNextAnchor` | where the clocks skip the midnight of a first to the east (Syria, 1 April 2011), the month is added to one in the morning, and the next reset is an hour after its midnight (reset.go:50) |
| `MCAccounts` | `Zones <- WestAnchorZones` | `LandsOnTheNextAnchor` | where they skip the midnight of an anchor to the west (Chile, 8 September 2024, Cuba, 10 March 2024), the next reset is at 23:00 the day before (reset.go:82) |
| `MCAccounts` | `SessionZone = 0` | `EveryRowHasAHome` | bounds are DATEs cast in the session's timezone; two sessions, a gap of eight hours (0001_core.sql:306-315) |
| `MCSubplane` | `Askers <- GluedAskers`, invariant `GluedDigitsAreAName` | it | the scan skips one digit of a run glued to a name and reads on (detect.go:172-184) |
| `MCSubplane` | `Askers <- VergeAskers` | `EntitledAndParseable` | the Clash Verge with the Premium core is taken for a mihomo and served VLESS, before which there is no gate (detect.go:90-94, capability.go:77) |
| `MCMetering` | `Disturbances = {{"midFlush"}}` | `CounterCoversTheLedger`, `AllowanceNotOverbilled`, `LadderIsTheLedger` | a Rebuild between a split and its commit installs a sum without the rows in hand (ladder.go:43-56) |
| `MCAccounts` | invariant `RowsChain` | it | a `balance_logs` row may hold a pair from one stale read (0002_business.sql:114-122) |

### Bounds, and why they are enough

* Two goroutines: every hazard of the ladder and the bus is a conflict of two
  calls, and a third can only queue at the same lock. The proofs lift the bound
  for the properties they cover. One user: calls for different users share
  nothing but the lock; again the proofs have any number.
* `MaxDepth` bounds nested calls of handlers. Three levels are a publish in a
  handler of a publish whose handler subscribes; a deeper call meets the same
  code.
* `MaxBatches`, `MaxClock`, `MaxCrashes`, `MaxResets` of `Metering`: three
  batches are one committed, one in hand and one after; two buckets are before
  and after a reset; a second crash starts from a state the first leaves behind
  too, since hydrate forgets everything.
* `MaxEvents`, `MaxFailures` of `Linkage`: two of each are one event overtaking
  the other and its retry; four leave room for two bans around an unban.
* `Horizon` and `MaxChanges` end the membership; periods of 2 and 3 days have
  remainders of every kind. `Mixed = FALSE`: stacking renews the plan held, for
  a mixed subscription cannot be priced by the one snapshot (see the table).
* `Half` = 128 keeps the proportions of `traffic.go`: the largest report times
  the largest rate is a little under half a word. The proof has any width.
* `LastInstant` covers seven months of 3 to 5 days with two-unit buckets: every
  order of longer and shorter months, and anchors that the shortest lacks. The
  28 timezones have the gap or the repeated hour at midnights of all kinds, east,
  west and at Greenwich, but for four gaps: on the first, to the west or the
  east, and to the west on the last day of a month or on an anchor. These are
  the four findings.
* `LastUnit` crosses three months; `MaxOutage` is the seven days the scheduler
  looks ahead, and one unit more does violate `EveryRowHasAHome`.
* `MaxLog` = 4 movements: credit, two spends and a clawback.
* `MaxChanges` of `Subplane`: one edit is enough for a request to read before
  and build after it; a second only empties the cache again.
* Two workers on an order are one that holds the row and one that waits with a
  decision of its own; the proofs have any number. Three trades are the one that
  pays, a second, and one that is still to come.
* `CHECK_DEADLOCK FALSE` stands where the system ends: accounts reach their last
  instant, answers are written, linkages have published every event. In all
  other runs deadlock is checked, and means everybody waits for everybody.

### Fairness

* `QuotaLadder`, `EventBus`: a goroutine that is inside a call keeps running
  (weak fairness of its steps), which is what the Go scheduler gives a runnable
  goroutine, and for handlers the assumption that they end. Acquiring the lock
  is strongly fair: `sync.Mutex`, under the writers of an RWMutex, goes into
  starvation mode and hands the lock over in order, and readers held off by a
  writer are let in when it leaves. Nobody is obliged to make a call.
* `Linkage`: goroutines run and the queue is worked off; failures are finite.
* `OrderLifecycle`: the retry queue tries a paid order again and again and an
  operator refunds by hand what cannot be provisioned (§8.2); neither meets a
  locked row or a crash for ever. A callback or a cancellation owes nothing.

## 4. Properties

Every property has a mutant (`PROJECT.json`): a plausible bug in a mapped
definition under which TLC finds the property violated. The comment above each
property says what it means and which lines claim it.

* `QuotaLadder`: `IInv` (the inductive invariant), `NoOverdraw`,
  `NoRefundWithoutAuthority`, `EveryCallReturns`, `ImplementsAtomic`.
* `Metering`: `LedgerExactlyOnce`, `CounterCoversTheLedger`,
  `AllowanceNotOverbilled`, `LadderIsTheLedger`.
* `EventBus`, `Linkage`: `OneDeliveryEach`, `FanOutComplete`,
  `CallsTakeTurns`, `EveryCallEnds`; `AccessFollowsState`,
  `EveryEffectHappens`.
* `BatchSplit`: `OrderIndependent`, `LoopIsWaterfall`, `BatchingDoesNotMatter`,
  `EntitlementAgreesWithOverflow`.
* `Membership`: `RoundingFavoursUser`, `FavourIsBounded`,
  `DetourSavesAtMostOne`, `NothingSoldDead`. `ResetCycle`:
  `LandsOnTheNextAnchor`, `DaysCountDown`, `NextIsAhead`.
* `OrderLifecycle`: `ShippedOnce`, `PaidByOneTrade`, `OnlyCancelledBounces`,
  `OverIsOver`, `PaidIsSettled`.
* `Billing`: `BilledToTheByte`. `Balance`: `SpendsStayCovered`.
  `LedgerPartitions`: `EveryRowHasAHome`, `ReportedMeansAttached`.
* `Subplane`: `AnswerWasTrue`, `EntitledAndParseable`, `CoreMissesNothing`,
  `NoClientIsDemoted`, `ForcedDialectSuitsEveryBuild`. `HttpResponse`:
  `NothingBesideTheRefusal`. What an application really parses is data of the
  instance, written down from the comments and fixtures, not computed by the
  rules under test.

## 5. Proofs

Checked by TLAPS, for every value of the constants that meets the assumptions
named in the modules; `PROJECT.json` lists the results. TLC evaluates the
assumptions on the instances of the runs.

What the assumptions say: the nil timestamp is no integer and buckets have a
length (`DeductionAssumption`); nobody is not a goroutine or a worker
(`RWMutexAssumption`, `OrderAssumption`); what callers pass has the types of the
method signatures and no subscription has the overflow's ID
(`QuotaLadderAssumption`, `BatchSplitAssumption`, `EventBusAssumption`,
`LinkageAssumption`, `BalanceAssumption`, `SubplaneAssumption`); plans start
unused, one row each, and batches bill something (`MeteringAssumption`); runs of
digits read as versions (`RunsAssumption`); the proportions of a report to a
word (`BillingAssumption`, `HeadroomAssumption`); periods divide the unit of the
books (`MembershipAssumption`); months and days have a length
(`LedgerPartitionsAssumption`, `PlanChangeAssumption`, `CalendarAssumption`, where
a day is a whole number of buckets); offsets are whole buckets and the calendar
goes a month beyond the last instant looked at (`ResetCycleAssumption`).

Some theorems have hypotheses of their own. Each is a condition the code leaves
to somebody else, the passing runs meet it, and section 3 names what happens
without it.

| Hypothesis | Of | Means |
|---|---|---|
| `"badError" \notin Outcomes` | `FanOutIsComplete`, `BusIsAtomic` | describing an error does not itself panic |
| `EffectFrom = "state"`, `Requires(NodePlane)` | `BannedStayOut` | the node plane acts on what the state is, and hears of every event |
| `OnTime` | `CounterCovers`, `NeverOverbilled`, `LadderAgreesWithLedger` | no reset inside a bucket, no `Rebuild` between a split and its commit, no `Sync` of a dropped user |
| `Punctual` | `RowsHaveAHome`, `ReportedIsAttached` | the scheduler is never down longer than it looks ahead, at most a month; migration and sessions have one timezone |
| `ZonesChangeCleanly` | `ResetsLeaveTheNextAhead`, `ResetsLandOnAnchors`, `DaysAreCountedDown` | clocks go forward from a midnight on, or far enough from one, and never back into the day before |
| `ZonesKeepMonthEnds` | `ResetsLeaveTheNextAhead`, `ResetsLandOnAnchors` | no clock skips the midnight of a first nor, behind UTC, of the last day of a month |
| `WestKeepsAnchors` | `ResetsLandOnAnchors` | no clock behind UTC skips the midnight of an anchor |
| `~Mixed` | `NobodyOverpays`, `NobodyProfits` | stacking renews the plan held |
| `Statuses \subseteq Nat \ {0}` | `SecretsStayHome` | 0 stands for no status sent |

### Attribution (`DeductionProofs`, `AccountProofs`)

The comparator is a strict total order on subscriptions with different IDs,
unknown kinds included (`BeforeTotal`, `BeforeTransitive`), and `prepare`
returns a duplicate-free list in that order (`PreparedInOrder`). So there is one
sorted list of given entries (`OneOrder`), and what arrives first does not
matter (`PreparedIsDetermined`, `ArrivalOrderDoesNotMatter`).

The split, the write-back and all sums are folds. A fold is a recursive
function under a CHOOSE; it exists and is unique by least counterexample
(`LeastNumber`, `SmallestSet`: an induction without an operator parameter), and
from then on it is used by its equations (`SumStep`, `SplitTrace`,
`WritesAreFolds`). The invariant of the split is what has been poured so far:
the rows add up to what was taken from the remaining bill (`SplitConserves`) and
each entry passed was emptied or the bill was (`LoopPours`, `LoopPoursRows`).
The counters follow the rows (`CountersFollowRows`); a second batch finds the
waterfall where the first left it (`BatchesAddUp`); the overflow is billed only
when no active subscription has anything left (`OverflowMeansNobody`).
`AccountProofs` turns these into the four properties of `BatchSplit`, through
`SplitInv`, which says of every stage what it was computed from.

### The ladder (`QuotaLadderProofs`)

`NoOverdraw` is about writing a row back, long after the row was computed, so
the invariant has to say that what the split saw is still true. `IInv` has six
parts. `TypeOK`. `CallInv`: the program counter agrees with the call being made.
`LockInv`: whoever is in a critical section as a writer is alone there.
`LadderOrdered`: one entry per subscription, so that "the entry of this row" is
one entry. `SplitInv`: while splitting, every row is covered by what an entry
already passed has available (`Covered`); while writing back, every row still to
come fits its entry (`Fits`). `LocalsInv`: the locals of a loop are a prefix of
the run of the fold it computes. A step of another goroutine cannot disturb
these, since by `LockInv` it is not inside (`OthersUndisturbed`). A step of the
own goroutine moves one row from "to come" to "written", and because owners are
distinct it takes room from no other (`ChargeStepFits`). `NoRefunds` follows:
only `Rebuild`, `Reset` and `Reconcile` lower the counter of an entry that stays.

The refinement (`LadderIsAtomic`). An attribution takes effect when its split is
complete; what callers see from then on is the list with the rows still to come
written back already (`Visible`, for the user whose attribution holds the lock).
The last step of the split is the atomic attribution, since by `LocalsInv` the
rows are what `Attribute` returns, by `LoopWritesTheWaterfall` these are the
waterfall's, and the counters follow them (`CountersFollowRows`). Each step of the write-back moves a row across the border
of `Visible` and changes nothing that can be seen (`WritingUnseen`). Every other
operation takes effect in its one step, and lock steps stutter (`QuietSteps`).

### Metering (`MeteringProofs`)

`Books` says what is where: a logged batch is behind the gate or in the log, a
bucket of the ledger is the sum of the batches that passed, and rows in hand are
a split of the batch they belong to. That gives `EveryByteOnce`, through any
crash and replay. The other three are about the time between a split and its
commit, when the ladder is ahead of the ledger. What a period costs is therefore
`Owed`: the ledger's sum and the rows in hand. `PeriodInv`: no counter is below
what its period costs, no period costs more than the allowance, and no copy of a
row, in the ladder or in a handler's hands, is of a later period than the table.
A commit moves rows from one summand to the other; a reset begins a period that
costs nothing, because it runs between two buckets; a hydrate sums up what is
there. `ExactInv` is the same with equality, for behaviours without a crash or
stale rows.

### The bus and its effects (`EventBusProofs`, `LinkageProofs`)

A goroutine is a stack of calls, so the invariant is about every frame:
all but the innermost wait in a handler (`StackInv`), the lock counts exactly
the innermost frames that are inside (`LockInv`), and a copy has no name twice
(`CopyInv`). That the registry has none needs what a call knows before its
instant (`WalksInv`, part of the invariant): a `Subscribe` about to append has
found no such name, and since it holds the lock nobody has added one. A handler runs in no critical section (`HandlersRunUnlocked`), so it
may call the bus. The registry only grows, which keeps a verdict
of `VerifyWiring` true (`VerifiedForGood`). For `FanOutIsComplete` the frame
remembers who was subscribed when the call was made: the copy contains them,
and the loop leaves only at its end.

The refinement (`BusIsAtomic`) maps frame by frame. `WalksInv` also says what other calls
have before their instant: no copy, and of a `VerifyWiring` exactly what the
registry of now lacks in the part of the matrix it has passed (`Walked`). That is
inductive because a registration would need the lock that the walk holds
(`OthersWalkOn`, from `LockInv`); so the last step of the walk is the verdict on
one registry (`VerdictSeen`). Lock steps, the walk and the release before the
fan-out stutter (`QuietSteps`); a handler that ends takes the head off what
there is left to tell (`SeenEnded`), also when a panic unwinds into it
(`SeenUnwound`). `VerifyWiring` releasing the lock between two types keeps
`VerifiedForGood`, since the registry only grows, but not this: it could report
together what was never missing at one time.

In `Linkage`, an effect not yet there is pending: its event is queued, or some
fan-out has still to reach a subscriber that will bring it, or has failed on one
and will queue the event (`Pending`). `EffectsArePending` holds for each
effect, `NothingIsLost` when everything is quiet, and `BannedStayOut` takes the
same invariant for the newest commit.

### Money, plans, partitions (`AccountProofs`)

Billing: `AccumulatorInv` bounds what is merged by the number of reports,
`HeadroomAssumption` bounds the product, so no `Wrap` does anything
(`ExactBill`); division then loses less than one unit per flush (`BilledInv`).
Balance: a session holds no negative amount to spend, because `Deduct` let it
through, and the UPDATE's own condition does the rest. Nothing is proved of the
log, whose rows need not chain (`RowsChain`, section 3).

Plans: `MemberInv` keeps what a user received between what was paid and two
units of money per prorated change above it. A change of plan exchanges the
worth of the days left for a charge; that charge is a difference of two rounded
prices, one down and one up (`RoundedPrice`), so a proration costs the user
nothing and gives away less than two units (`ProrationIsFair`); starting over
and stacking are exact. A day that passes moves its worth from one
account to the other. `DetoursDoNotPay` and `NothingIsSoldDead` need the row's
types only (`RowOK`), and no hypothesis.

Partitions: `PartitionInv` says that the months from the installation's to the
last one asked for have no gap, each attached with its own bounds or detached
because its end is past the retention. The scheduler asks for two instants; that
no month lies between is `Ahead <= MonthLength`, and that none lies between one
call and the next is `MaxOutage <= Ahead`. Bounds of one timezone do not overlap
(`MonthsApart`), so nothing is refused.

### Resets (`AccountProofs`)

The calendar is any sequence of months of any lengths, a timezone any two
offsets with a change between them. An instant read in a timezone is a day and
a clock (`DayAndClock`), and the day moves forward with time even where the
clock goes back (`LocalDaysInOrder`). `time.Date` gives an instant that shows
the reading asked for (`DateShows`), unless the clocks skip it; the midnight of
a skipped beginning becomes the change of the clocks in the east, and the last
hour of the day before in the west (`SkippedMidnight`). `FirstDay` is a sum over
the months before, so the month of a day exists by least counterexample
(`MonthOfDay`) and is the only one (`MonthOfDayIs`). An anchor lies in its month
(`AnchorInMonth`), so the anchors of two months are in the order of the months
(`AnchorsInOrder`).

`NextResetIsGood` goes through the policies: the anchor of this month if it is
still ahead, or else that of the next, which is ahead because the day of `asked`
is before the first of that month (`NextMonthIsAhead`); between the two there is
no third. `ZonesKeepMonthEnds` is what makes the code's readings of a first and
of a last day come back on their own month. Behind UTC it is `WestKeepsAnchors`
that keeps `time.Date` from answering with the day before. The invariant of the cycle,
`CycleInv`, only says that `next_reset_at` is what `NextReset` said at `asked`,
however late the job came. For `DaysAreCountedDown`, days added in the timezone
stay on the date asked for (`DayKept`); added in UTC they come out at most one
date off, because an offset changes by at most a day (`ShiftIsADay`).

### Orders (`OrderLifecycleProofs`)

None of the properties is inductive alone, since a worker writes what it decided
earlier. `ReadIsCurrent` closes the gap: whoever has read the status holds the
row, so what it read is still true when it writes. Every write then follows an
edge of the table (`Edges`), and a terminal status has none.

### The feed and the answers (`SubplaneProofs`)

An answer served from the cache was built for somebody else at some other time.
`CacheIsCurrent` says that a kept skeleton is what its selector would get now:
`Edit` empties the cache, `Build` keeps only what it built from the present
table. So a hit answers with the table of this moment, which is one the request
has seen (`AnswersAreTrue`). Since an answer is the skeleton of the user's own
selector (`ResolvedInv`), what is served is decided by detection and matrix
alone: whom nodes are shown to by the groups (`ServedIsEntitled`), what opens a
gate by the rules.

About the rules, the first match wins (`FirstMatchWins`), and that is enough to
say of every text, whatever else it contains, that a mention of mihomo, sing-box
or one of their wrappers is not lost to a later rule (`EnginesAreNotDemoted`) and
that a version comes from a text that mentions a core (`OnlyCoresHaveVersions`).
Of the matrix, a newer version of a core supports every protocol an older one
does (`UpgradeLosesNothing`), so an unknown version is granted what all known
ones are (`UnknownGetsTheLeast`). Together: an application that names no core is
never served what a gate holds back (`WrappersOpenNoGate`), nor is anybody who
forces a dialect, since that has no version (`ForcedDialectIsSafe`). What an
application really parses is no matter of proof: `EntitledAndParseable`,
`CoreMissesNothing` and `NoClientIsDemoted` are shown for the applications of
the instance, and where a core is taken for another one or the version is a
wrapper's they fail (section 3).

`HttpInv` ties what is on the wire to the steps still ahead: nothing before the
encode has succeeded or been refused, the status with the headers, and then a
prefix of the buffer, which holds the whole document or the refusal.

### Only model-checked

* Liveness, which TLAPS does not do under fairness: `EveryCallReturns`,
  `EveryCallEnds`, `EveryEffectHappens`, `PaidIsSettled`.
* `NextIsAhead` where a midnight of a first is skipped: `AccountsFirst` shows
  that it fails there.
* Whether what is served is what an application parses, a matter of the
  applications there are: `EntitledAndParseable`, `CoreMissesNothing`,
  `NoClientIsDemoted`, and `VersionIsTheCores`, which fails.

## 6. Not modelled

* Memory sharing: `copyQuota` and the copies of `Snapshot` are values here.
* A second Flusher and its fencing token, and merging a batch back after N
  failed retries (§7.3): not written, and what they do depends on where the
  check sits.
* Two services writing one subscription row: an outcome of `ApplyChange` is
  absolute, so whoever writes it must hold the row (listed as a hazard).
* `int64` counters of the ladder: naturals; `Billing` shows that what reaches
  them is bounded.
* Handlers that never return, and `runtime.Goexit` in one.
* Log lines, error texts, context values.
* `Secret` but for `MarshalJSON`: its other methods are one constant each
  towards Go's fmt and log/slog.
* Letter case and needles that begin inside a word of a User-Agent; the 77
  fixtures test the strings themselves.
* The order of nodes in a skeleton, `Userinfo`, and the renderers.
* Amounts of payments, coupons and commissions, statuses outside the order
  table (`IsKnown`), and the table of period lengths.
* `scripts/verify-schema`: a test, without a state of its own.
* Everything that is not written: node plane, handlers, store, renderers.

## 7. Plan

When they are written: the order service with its amounts, the Flusher's
retries, the subscription endpoint.
