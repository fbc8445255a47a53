# SeaAir mobile API: TLA+ models, model checking and proofs

The program is a Node.js/Express server between the phones of boat owners, the
firmware of their controllers and a support dashboard. Phones post commands,
controllers poll for them and post heartbeats, phones poll the heartbeats. This
directory holds TLA+ modules translated from the source, TLC configurations
that check them on small instances, and TLAPS proofs that hold for every value of
the constants. Paths such as `redisStreamQueue.ts` are below `src/src/`.

## 1. The system

| Component | State | Operations | Modelled in |
|---|---|---|---|
| Command channel on Redis (`redisStreamQueue.ts`, routes `mobile.ts`, `controller.ts`, `dashboard.ts`) | stream `mobile2fw:{id}`, consumer group `fw` (cursor, pending list), per process `groupsEnsured` | post, poll (XREADGROUP+XACK), mark-all-received, queue depth | `CommandStream` |
| Broker contract (`types.ts`, `messageBroker.ts`) | - | what both brokers promise about commands | `CommandChannel` |
| In-memory broker (`messageQueue.ts`) | command array with expiry, one heartbeat slot | post, poll, heartbeat, two reads, two cleanups | `MemoryBroker` |
| Rate limiter (`rateLimiter.ts`) | timestamps per key | check, record, cleanup | `RateLimiter` |
| Archive store (`services/archiveStore.ts`) | DynamoDB change-points, per process a dedup entry | fire-and-forget write; reads | `ArchiveStore` (writes) |
| Status feed (`redisStreamQueue.ts`, `mobile.ts`) | stream `fw2mobile:{id}`, the phone's high-water mark | heartbeat, single-latest read, since-read with archive backfill | `StatusFeed` |
| Device list, stream history, search (`dashboard.ts`, `SearchBar.tsx`, `DevicesPage.tsx`) | none of their own | list with beacons, merged and filtered history, pages | `Beacons`, `Views` |
| Analytics (`archiveStore.query`, `getRange`, `routes/analytics.ts`, `dashboard.ts`) | none of its own | bucketing, live-edge merge | `Analytics` |
| Charts of the web page (`web/src/lib/chartSeries.ts`, `tempScale.ts`, `Analytics.tsx`) | none of their own | strip, shading, coloured line, alarm marks, usage line | `Charts` |
| Payload decoding (`protoDecoder.ts`, `heartbeat.ts`, `decodeInto`, `extractTelemetry`) | none | cockpit, samples, fingerprint of a heartbeat | `Telemetry` |
| Beacons and alerts (`services/beacons.ts`, `beaconAlerts.ts`) | DynamoDB items with expiry | raise, clear, list, notify | `Beacons` |
| Admin gate (`middleware/requireDashboardAdmin.ts`, `services/dashboardAdmin.ts`) | per-process cache, Cognito group | check, grant, revoke | `AdminGate` |
| Cognito user cache (`services/cognitoUser.ts`) | bounded per-process cache | lookup | `CognitoUser` |
| Consents, user-device table (`services/consents.ts`, `services/dynamodb.ts`) | DynamoDB items | put, get, delete | `Ledgers` |
| Redis client, server start and shutdown (`redisClient.ts`, `server.ts`, `/health` of `app.ts`) | one client per process | connect, time out, reconnect, probe, shut down | `ServerLife` |
| Operator's panel (`web/src/pages/DeviceDetail/index.tsx`, `hooks/`) | page, staged confirmation, query cache | mark all received, queue count | `OperatorPanel` |
| Authentication, app assembly, other web pages | none to speak of | cryptography, mounting, layout | not planned |

How they interact. Phone messages, status reads and config calls pass the rate limiter, dashboard calls the admin
gate; both then use the broker in `app.locals.messageBroker`, which
is the Redis or the in-memory one. On Redis, App Runner may run several
processes over the same streams; they share nothing else. A heartbeat goes to
the stream, to the firehose and, not awaited, to the archive; a phone's
since-read combines the stream with the archive when its mark is older than the
stream.

What is hard here:

* **Concurrency** - each request awaits Redis or DynamoDB several times;
  overlapping polls, posts and mark-alls interleave at each await, in one process
  and across processes; archive writes overlap because nobody awaits them.
* **Failure** - a request can fail, or the process be replaced, between any
  two commands; a reconnecting client may execute a command twice; Redis may lose its data;
  DynamoDB may take a write whose reply is lost.
* **Staleness** - mark-all works with a cursor and a count it read earlier,
  `groupsEnsured` and the dedup entry outlive what they describe.
* **Boundaries** - sliding windows, expiry at the exact millisecond,
  `maxCount + 1` fetches, trimming that is approximate, limits applied before a filter,
  the first and last sample of a series.
* **Several readings of one thing** - the cockpit, the strip, the shading and the alarm
  marks are computed separately from messages that leave zeros off the wire, and a
  filter is parsed by two parsers.

What makes each part correct: a command is answered at most once, in order, and
never lost silently; mark-all clears and empties what it promises; the depth
never hides waiting work; the limiter neither exceeds its limit nor refuses
early; the archive loses no reading and neither hides nor invents a silence; the
phone misses and repeats nothing, gets its gap filled and catches up; a raised beacon
is shown and announced, a cleared one is gone; whoever passes the gate was a member a
short while ago; a 200 says what the table holds; the charts show what was
reported. The hazards behind these, each at its line, are in `PROJECT.json`.

## 2. Modules

**`CommandChannel`** is the abstract specification: each command waits, is taken, is
delivered or is gone; nothing comes back and no poll takes a command while an
older one goes on waiting. `CommandStream` and `MemoryBroker` instantiate it with a `fate`
computed from their own state, and `ImplementsChannel` is checked for both.

**`CommandStream`**: one controller's command stream. One action is one Redis
command plus the code up to the next await, so all interleavings of requests are
interleavings of actions. `log` holds every command ever added (ids are positions, since the code
uses nothing of a stream id but its order), `trimmed` how many are gone, `group`,
`cursor` and `pel` the consumer group, `ensured` the processes whose
`groupsEnsured` has the stream, `pc` the next command of each request, and
`cmd`, `held`, `report`, `reading` its local variables. Post/AddCommand,
Poll/ReadCommand/AckRead/Respond, MarkAll ... MarkDone and Measure ... MeasureDone follow
`addMobileAppMessage`, `getMobileAppMessage`, `markAllReceived` and `getQueueDepth`
line by line. `Fail`, `Crash`, `Resend`, `LoseData` are the environment, each with a
bound. MAXLEN `~` may trim anything from nothing to all beyond `MaxLen`; the lag in
XINFO may be missing, as Redis documents. `MCCommandStream` says which process
serves which slot.

**`MemoryBroker`**: the in-process queue. Its operations are synchronous, so each is one action;
only the response of a poll is a step of its own. The clock may be set back, and
the process restart.

**`RateLimiter`**: account and address keys, `calls` as the list of recorded
requests, `kept` as the timestamps that survive pruning. The two checks and the two records
happen without an await; time may pass between them.

**`ArchiveStore`**: writes of one controller's heartbeats. `heap` and `cache`
model the shared mutable `DedupEntry` objects: a write keeps a reference to
the entry while another may replace it. A write is
`xadd -> (query -> seed) -> update -> updated` or `... -> put -> stored`, one
request's effect and the code after its reply being separate steps. A reading is
abstracted to its fingerprint. `LoseReply` is a write that took effect without
the process learning of it, `Purge` DynamoDB's TTL.

**`StatusFeed`**: the stream as phones read it, with the archive reduced to what
`getSince` returns (the change-point's first entry and, latest-wins, the id of its newest).
A since-read is up to three steps (XRANGE, the oldest entry, `getSince`), with
posts, trims, archive writes and faults between them; a failing XRANGE answers with the
same mark and is no step, a failing backfill falls back to the stream. The phone's mark starts from a mode-1 read.

`RateLimiter` and the modules from here on share **`ServiceClock`**, one clock that only moves forward.

**`Beacons`**: the items (`raised`, `items`), POST /mobile/beacon as three steps (the code up
to PutItem, PutItem with the start of the alert, the 201), the alert as a race of `Publish`/`PublishFails` with
`PublishTimeout`, an operator's Clear as a request on its way (`clears` keeps its
`:now`), the /devices request as query, then rows, in the order of `RowBefore` with rows that tie in any order (so does
the code's sort of what a scan returns). `PurgeBeacon` is DynamoDB's TTL, `ServerRestart` drops
what is in progress. A beacon is its position in the order of `createdAt`.

**`AdminGate`**: one process's cache and Cognito's group, which other requests of the same
gate change. `in` and `out` are history: when a user was last, and last was not, a member. A request
is decided by the token's groups claim (which is also cached), by the cache, or by a lookup in two steps.

**`CognitoUser`**: the Map as a sequence, because eviction takes the first key and
setting a key that is there keeps its place. `held` is history.

**`Ledgers`**: association writes and consents. A request is sent, executed by DynamoDB
(`StoreAssociation`, ...), perhaps sent again by the AWS client, and answered. `told` is history: what the answered writes leave
possible for an item, namely what a write leaves that is in progress, ended without an answer, or that no answered write came after; a write carries the effects of those
that overlap it (`rivals`).

**`ServerLife`**: start, the stored client that is not ready yet, the ten-second timer that is
never cleared, reconnection, /health, both signals.

**`OperatorPanel`**: the page stays mounted when the operator opens another machine, so
the staged confirmation, the mutation and the queue count of TanStack Query may belong to different machines.
A page opens without a count (`NoData`), as it does again when the cache has dropped it (`Forget`); its first fetch, which a
failed request prolongs (`PollRetries`), is joined by an invalidation, while later ones are started again (`Invalidate`).

**`Charts`**, **`Analytics`**, **`Telemetry`**, **`Views`** are computations: the
initial state is an input, one action computes the answer, and the properties compare the answer with
another reading of the same input - the strip at an instant, the heartbeats themselves, the set of all
messages. `Analytics` builds the change-points that `ArchiveStore` leaves of every small
history and joins them with the live stream for the strip of `Charts`; a query of the archive returns
one page of at most `Pages` items, as DynamoDB does and nobody asks for the next. **`Sorting`** puts finite sets in
order for them, as `Array.sort` does, by a definition that a proof can use (the library's
`SetToSortSeq` rests on an operator without one); binary searches and the like are recursive functions.

`MCAdmission`, `MCReads` and `MCWrites` put the components side by side: `part` says which one a
behaviour is about, the others stay in one state, so the state spaces add up and do not multiply.

Definitions marked "Slip" are faulty variants used by no action: each is the
mistake that a property has been seen to detect.

## 3. Runs

All bounds are small on purpose; they are named constants (`Max...`). Properties that belong together are
conjunctions of named parts: a part is discussed under its own name, a run checks the whole.

| Run | What it asks | Bounds, and why they suffice |
|---|---|---|
| `commandstream_faults` | `AtMostOnce`, `Accounted` (no silent loss, the pending list), the channel | two posts and two polls at once over two processes, 3 commands, 2 faults, one data loss: enough for a poll to fail at each step while another overtakes it, and for the group to be created late on one process |
| `commandstream_markall` | `MarkAllHolds`: mark-all's promises and its `skipped` count; the channel | one mark-all against a post, a poll, one fault, one resend, one data loss, at every step of each |
| `commandstream_live` | `CommandsSettle`; `DepthCountsWaiting` | two polls on two processes and a gauge; stream limit 1 so that trimming bites; one data loss |
| `memorybroker` | `ExpiryHolds` (both cleanups), the channel, `PhoneMovesForward` | 3 commands, 2 heartbeats, ttl 1, clock set back once, one restart: out-of-order expiry needs two commands and one set-back |
| `admission` | what lets a request in: the rate limiter (`WindowBound`, `RefusedOnlyWhenFull`), the dashboard's gate (`GateIsRecent`) | limiter: limit 2, window 2, time 4, two accounts behind two addresses, 4 accepted requests; gate: 2 users, 2 requests, every lifetime 1, time 3: a claim, a lookup and a change overlap and expire |
| `archivestore` | no reading lost (`HeartbeatCovered`), `SilenceIsShown`, `Compressed`, `ValueHolds` | one write at a time, 4 heartbeats, 2 readings, gap 3, retention 5, time 8: a run, a gap, a change and an expiry fit, and the newest item may be purged before an older one; restarts unbounded, one fault, one lost reply |
| `archivestore_purge` | violation: items without ttl | retention 2, gap 1 |
| `statusfeed_live` | `EachOnce`: once, in order, nothing skipped (no archive) | cap 2, stream limit 2, 6 entries, one fault, one data loss |
| `statusfeed_archive` | `GapIsFilled`, `MarkAdvances`, `CatchesUp` | cap 1, stream limit 1, 4 entries: a gap of several runs needs more than one answer |
| `statusfeed_skip` | violation: entries passed over | cap 2, stream limit 2 |
| `reads` | what is answered: beacons on the device list (`BoardIsCurrent`), the cache of Cognito users (`CacheIsSound`), queries and charts of every small history (`ArchiveAnswersTrue`, `ChartIsTrue`, `PictureAgreesWithStrip`, `LinesAreTrue`), the three readings of a heartbeat (`ReadingsAgree`), filters (`FilterSurvives`), merged history and pages (`ListsAreTrue`) | beacons: 2 machines, 2 beacons, fetch limit 1 so that it bites, one clear, a restartless board up to instant 2; users: 2 lookups, 2 users, cache of 1; analytics: every history of 7 instants and 2 readings (the first one named "low"), gap 3, retention 6, long-held 2, pages of 1 point (any window may overflow) and of 4; charts: 5 instants, 4 mode samples, temperatures 50..96 (every band edge and border), usage samples at 9 instants; telemetry: two heartbeats that differ in two groups of leaves; filters of up to 3 parts; 3 messages per stream, over 3 milliseconds; 4 machines on pages of 2 |
| `writes` | what is changed and must end: beacon and alert (`ConfirmedIsDurable`, `PhoneIsAnswered`), start and end of a process (`ListensWithBroker`, `ServesUntilSignalled`, `LifeGoesOn`), associations and consents (`AnswersHold`, `ConsentsHold`), the operator's panel (`MarkIsDeliberate`, `CountIsFresh`) | 2 phones, 2 beacons, 1 fault or restart; 2 drops of the connection, both signals; 3 requests in 2 slots on one association and one consent type, 1 failure or lost reply: a write overtakes, one is sent again; 2 machines, 2 marks, timers of 1, retries unbounded |

`CHECK_DEADLOCK` is left on except in `reads` and `writes`, whose computations and
bounded histories end.

**Fairness.** `CommandStream!FairSpec`: the firmware polls on a timer (WF on each `Poll`) and
a request that began is served (WF on `Serve(r)`: Redis answers, the event loop runs the
continuation); posts, mark-alls and faults have no fairness. `CommandsSettle`
therefore says nothing when Redis lost its data: a process that still believes
in the group it ensured returns null for ever (hazard at
`redisStreamQueue.ts:161`). `StatusFeed!FairSpec`: a phone polls every
five seconds (WF on its steps and on the first read); entries, faults and losses have
none. WF is enough because a begun request disables itself only by being served,
failing (bounded) or crashing (bounded). In `writes`, `PostSteps(p)` is fair (DynamoDB answers
and the event loop goes on) while nothing is assumed of SNS or of the alert's timer, which is what
`PhoneIsAnswered` is about. `MCWrites!Fairness` also gives the process its own steps (`start`, the armed timer, the
quit that settles) and the platform its probes; Redis may hang for ever, so neither `BecomesReady` nor
`ConnectionDrops` is fair: `StartEnds` rests on the timer. Each of these conditions is restricted to the part
its component is in, for a part never takes another one's steps and would otherwise have no fair behaviour.

### Deviations the runs show

* `archivestore_purge`: UpdateItem on an item that TTL removed creates one
  without `ttl` and `kind`: never purged, never visible.
* `statusfeed_skip`: a backfilled point carries the id of the newest
  heartbeat of its run; as `highWaterMark` it passes live entries.

### Deviations noted

Met while modelling, most of them seen with TLC, but without a run of their own.

Commands and limits:

* at-most-once (`redisStreamQueue.ts:17`) fails when the client executes XADD again after a
  reconnect (`maxRetriesPerRequest: 3`, no idempotency key); `AtMostOnce` is checked and proved
  without resends, `EntriesOnce` (an *entry* is handed out once) proved with them.
* the limit documented as "per controller" (`README.md:271`, `rateLimiter.ts:3`) is per account and
  per address over all controllers.
* mark-all's `skipped` is counted between XINFO and SETID, so a post or poll
  there makes it differ from what SETID passes. What holds is
  `SkippedCountsQueued`: nothing that was queued from the start goes uncounted.
* mark-all's `cursorAdvancedTo` is read after SETID and may name a
  command that still waits.
* two overlapping archive writes may set `lastTs` back (`archiveStore.ts:296`).
* a PutItem whose reply is lost leaves the dedup entry on the item before;
  later readings extend that one, a value no longer holds until the next point, and
  after a restart a false `commsResumed` can follow. `ValueHolds` and `GapsAreReal` therefore
  speak of runs without a lost reply; the other properties hold with one.
* DynamoDB purges expired items in any order. When the newest item is gone while an older one,
  expired too, is still there, a restarted process takes that one for the newest and stamps `commsResumed` on
  the next change although no heartbeat was missing. `GapsAreReal` leaves out heartbeats whose item has
  expired; the attempt to prove it without that condition led to this corner, and TLC finds it at the run's bounds.
* a reading unchanged for longer than the retention disappears from all
  queries, since `ttl` counts from the first heartbeat of the run.
* with the archive on, an answer may repeat an entry: a backfilled run whose
  newest heartbeat is still in Redis comes twice (`InOrder` holds without the archive).

Beacons, accounts and tables:

* "a raised beacon must NEVER be invisible" (`dashboard.ts:174`) fails beyond
  `ACTIVE_BEACONS_FETCH_LIMIT`: the limit counts resolved items too (`beacons.ts:164`).
  `RecentIsVisible` speaks of beacons among the newest ones. The page after the first filters on the sort key
  (`beacons.ts:155`), which DynamoDB does not allow; no page of the dashboard asks for it.
* two admins may revoke each other at once and leave the group empty; the list of users is not paged beyond 60.
* a DELETE of an association that was answered 200 may be undone: an older POST that is still on its way, or one the AWS client
  sends again, stores the item afterwards (`dynamodb.ts:85`, a put without a condition). `AnswersHold` promises that only a write that
  overlapped the answered one, or came later, can do so.
* a consent whose reply was lost is recorded, and the resent put answers 500.
* "every device-scoped query is invalidated so the UI reflects the cleared queue immediately" (`useDeviceMutations.ts:10`) fails for
  the first count of a page: TanStack starts a query on its way again only if it has data, otherwise it joins the fetch. The button is enabled
  meanwhile, so a mark during the first GET of the queue, which `retry: 1` (`main.tsx:13`) prolongs, is followed by the count read
  before it, until the next poll. `CountIsFresh` speaks of a count that replaces another.
* POST /config/device again overwrites `createdAt` (`dynamodb.ts:71-80`).

Histories and charts:

* `getRange` leaves out a run that began before the window, and `powerTotal` at the live edge is
  stamped one millisecond before it: `StripIsTrue` and `UsageIsTrue` name both.
* until the archive knows that a run is long-held, it is drawn at its end only: for the time between
  its start and that end the strip shows the run before. `StripIsTrue` names it; without that condition it was false for a
  gap of three instants and an archive that lags, which the proof attempt brought up and TLC confirmed.
* a query of the archive is one `QueryCommand` (`archiveStore.ts:403`, and `:521` for `getRange`) whose `LastEvaluatedKey` nobody
  follows, and DynamoDB returns at most 1 MB. A window with more than that silently loses its newest change-points: the later
  buckets go on with the last value read, and a raw answer may stay below `ANALYTICS_MAX_RAW_POINTS` (5000) and never escalate, ending early. A chart
  loses its oldest ones, since `getRange` reads backwards, before its own limit is reached. `BucketsAreTrue` and `RawIsComplete` say what holds
  up to a full page.
* a bucket that starts exactly at a change-point also carries the value before it, a point exactly at `to`
  on a bucket border is dropped, the average ignores durations, and a raw query drops the value carried in.
  The resolution `1m` can not be the result of an escalation.
* the temperature axis is not always even-numbered: it is widened by an odd number when it is 6 wide.
* the setpoint, the target humidity and the budget are not fingerprinted; a fan at 0 is a dash on one
  side and "Auto" on the other; an optional alarm flag or a setpoint that is no longer sent leaves the strip
  at its last value; a temperature of 0 makes a message unrecognisable.
* the filter `exists:false` and `eq:<operator>` do not survive being written out; a filter applied after the
  count hides older matches; `count` may exceed the messages that are sent.
* the summary of machine A's mark-all may be shown on the page of machine B.

## 4. Proofs

TLC first, TLAPS then. The safety properties proved here are checked by a run too, except
`EntriesOnce`, `OutcomeStands` and the type invariants, which the proofs establish for every instance. Hardly any
of the properties is inductive; each paragraph names the invariant that is, and why it is needed. Strengthenings
with parts that TLC can enumerate were first run as invariants of the run that checks the property.

**`CommandStreamProofs`** - for any slots, processes and bounds.
* `TypeCorrect`: `Spec => []TypeOK`. `TypeOK` relates program counters to local
  variables (a poll holds an entry exactly between XREADGROUP and its answer), which
  makes it inductive.
* `EntriesCorrect`: `Spec => []EntriesOnce`. The strengthening is in `EntriesOnce`
  itself: what was handed out is behind the cursor, and what a poll holds or
  answered was handed out, so XREADGROUP, which returns an entry beyond the
  cursor, cannot return a second copy. It holds with resends, crashes and data losses.
* `AtMostOnceCorrect`: with `MaxResends = 0`, `Spec => []AtMostOnce`.
  `CommandsOnce` says that without resends a command is in one entry or with
  one sender; with `EntriesOnce` it implies `AtMostOnce`. The hypothesis is
  needed: a resent XADD is a second entry with the same command.
* `AccountedCorrect`: no command disappears silently, and the pending list holds what is in flight or what a fault left.
  `AccountedInv` adds `Spent` (a post past its XADD has its command in the log), `GroupKnown` (while no data was lost, the group
  exists for every request that is past `ensureGroup`), `PassedKnown` (what the cursor passed was handed out, stepped over by a
  mark-all, or trimmed) and `PelIsInFlight`.
* `MarkAllCorrect`: mark-all's promises. `MarkAllInv` says for each of its commands what the marker
  knows there: the bounds of its cursor and of its count against the log of that moment, which entries it must still pass, and that
  everything pending is behind the cursor (`PelBehindCursor`), so that clearing what is pending and setting the cursor leaves nothing between them.
* `DepthCorrect`: the gauge never hides waiting work. `DepthInv` keeps, for each gauge, the commands that have waited since
  it began: there are only ever fewer of them, and the lag it read, or its answer, counts at least these.
* `ChannelImplemented`: `Spec => ImplementsChannel`, the refinement of `CommandChannel` under the mapping
  `fate <- Fates`. Each Redis command is one step of the channel: XADD is `Add` (with what trimming costs), XREADGROUP `Take`, the answer `Deliver`,
  and everything else - SETID, a fault, a crash, a data loss - `Lose` of what it costs, often nothing. It rests on `TypeOK` and
  `EntriesOnce`: the entry a poll takes was never handed out, and what stays behind is younger.

**`MemoryBrokerProofs`** - for any number of polls, lifetimes, commands and set-backs of the clock. `TypeCorrect`; `ExpiryCorrect` (an expired
command is not handed out, and the cleanups drop what expired and nothing else); `PhoneCorrect` (the heartbeat a
phone reads never goes back); `ChannelImplemented`, the second refinement of `CommandChannel`. It needs `OnePlace`: a command
is in the queue, in one answer or gone, never in two of them, which the array alone does not say.

**`RateLimiterProofs`** - for any keys, window and limit.
* `RateTypeCorrect`: the type invariant.
* `WindowBoundCorrect` and `RefusalCorrect`: both need `KeptExact`, the fact that
  pruning keeps, for each key, calls of that key and all of those within the
  last window. It is what checks, records and the cleanup timer each preserve.
  The clock is monotone.

**`ArchiveStoreProofs`** - for any readings, gap, retention and number of heartbeats, faults and restarts, and one write at a time
(`OneWrite`). The assumption is needed: two overlapping writes share one dedup entry, and `lastTs` may go back.
`ArchiveTypeCorrect`; `CoveredCorrect` (no reading is lost), `SilenceCorrect` (no run hides a silence longer than the gap, and a
silence that is shown was real), `ValueCorrect` (a query's value is the one that was reported) and `CompressedCorrect` (only a
change or a silence makes a new item). `ArchiveInv` ties the dedup entry, the write's own reference to it and
the newest item: a new item begins after everything archived, an entry never claims more than its item. `RepliesInv`
holds while no reply was lost (the entry then says what the item says) and `FaultsInv` while nothing failed; these
are the conditions the properties themselves carry. `GapsAreReal` was false as it stood, see "Deviations noted".

**`StatusFeedProofs`** - for any caps, stream limits, number of entries, faults and losses. `FeedTypeCorrect`, `EachOnceCorrect`,
`GapCorrect` (the backfill leaves out nothing that the archive has between the phone's mark and the stream) and
`MarkCorrect` (the mark never goes back). `FeedInv` adds `PointsSound` (change-points lie in order among the entries they stand
for), `ReadSound` (what a read collected, against what was in the stream when it was collected; both may have moved since),
`Delivered`, `GotInOrder` and `Filled`. `EachOnceCorrect` assumes `Archiving = FALSE`, as with the archive an answer may repeat an entry.

**`ReadsProofs`** - the caches of Cognito's answers, the readings of a heartbeat, and the composition `MCReads`.
* Admin gate, for any users, requests and lifetimes: `GateCorrect` (from `AccessCorrect` and `RefusalCorrect`) and `GateTypeCorrect`. A verdict
  rests on the cache, the cache on a claim or an answered lookup, both on
  the history of the group. The invariant bounds the age of each: the history is current, an answered
  lookup is at most `LookupDelay` old, and a cached membership counts back from its expiry. `LookupDelay`
  is what makes it true: the code sets the expiry after the await, so a lookup that hangs makes a verdict as old
  as it hung.
* Cache of users, for any users, lookups, lifetimes and bound: `CacheCorrect` and `UsersTypeCorrect`. `UsersInv` dates the pool, the
  answers on their way and the entries (an entry expires a lifetime after its e-mail was last seen in the pool), and keeps the
  Map's keys distinct and within the bound through removal, eviction and insertion, which are proved as lemmas about `RemoveAt` and `Append`.
* Heartbeats: `ReadingsCorrect`, for any two heartbeats (TLC takes those that differ in two groups of leaves), any rates and
  threshold. The lemmas say what each reading makes of one leaf: `WireAt`, `FullAt`, `EmittedAt`, `LatestAt`; equal fingerprints mean equal
  leaves (`SameFingerprint`) because only an optional leaf can be unset.
* Composition: `PartsCorrect` says that every behaviour of the run `reads` is one of the component's specification it is about
  (`BeaconsSpec`, `UsersSpec`, `ChartsSpec`, `AnalyticsSpec`, `TelemetrySpec`, `ViewsSpec`), which is what lets a theorem about a component stand for
  the run. `TypesCorrect` proves `TypesOK` of the composition itself: `ReadsInv` is the invariant of the component at work and the
  types of those at rest, whose steps share the one clock.

**`WritesProofs`** - beacons, the operator's panel, the life of a process, the ledgers.
* Beacons, for any phones, machines, limits and faults: `BeaconsTypeCorrect`, `ConfirmedCorrect` and
  `OutcomeCorrect`: no two requests have one beacon, a beacon not stored has no alert, one about to be confirmed has
  its item (or its day is over) and its alert. `BoardCorrect`: a device list that is shown has every beacon among the newest that was raised before it was
  asked for, and none that was cleared before. `BoardInv` says what the request holds between its query and its rows: what was stored is in it
  or was settled meanwhile (`HadIsStored`, `GoneIsSettled`), and each row is complete and has a beacon to show for it
  (`ActiveIsComplete`, `ActiveIsEarned`).
* Panel, for any machines and timers: `DeliberateCorrect` (a staged
  confirmation remembers the click that made it), `FreshCountCorrect` (a count that is read for a page that shows
  one is at least what the page knows, because the mutation restarts such a query) and `PanelTypeCorrect`.
* Process, for any number of failing connections: `LifeTypeCorrect`, `ListeningCorrect`,
  `ServingCorrect`; the type invariant, which says that a wait is timed, is inductive with `ListensWithBroker`.
* Ledgers, for any requests, users, devices and faults: `AnswersCorrect`,
  `ConsentsCorrect` (from `ConsentOnceCorrect` and `LatestConsentCorrect`), `LedgersTypeCorrect`. The invariant adds what a request in
  progress knows: what a write may still make of its item stays possible (`EffectsAreTold`), writes in progress on one item know each
  other's effect (`RivalsAreKnown`), and one whose reply is there knows what the item is (`RepliesAreHeld`), so an answer only rules
  out what no write in progress can bring back; a number belongs to one request and its record to that number
  (`NumbersAreOwn`); what a read has to reach was in the ledger when it was sent (`ReadsReachTheLatest`). That the latest record exists
  is well-founded induction on the distance to the clock (`LatestExists`).

**`DashboardProofs`** - what the dashboard shows, for inputs of any size. `ViewsInv`, `ChartInv` and `AnalyticsInv` only say what an
input is and that an answer is that of its input; the work is in what is computed. A sorted list is a set in order (`Lists`: an element
stands where the number of elements before it says), and facts about lists follow from counting.
* Views: `FiltersSurvive`, for any set of words and any number of parts of a filter, and `ListsTrue`, for streams and lists of
  any length: the history is the newest messages in order with no one twice (two streams with repeated milliseconds, each cut first),
  and each machine is on exactly one page, the ones with a beacon first.
* Charts: `PictureTrue` - the strip's binary search (`Search`, a recursive function on its intervals) exists and finds the latest sample
  (`SearchExists`, `SearchFacts`, by the shortest interval for which it would not), and with that the shading and the alarm marks,
  computed without a search, never contradict the strip. `LinesTrue` - two neighbouring samples of the coloured line are joined exactly once, in the
  first span that ends after the second of them, which has the scale of the mode there (`LineTrue`); the stops of its gradient never go back and
  have at each temperature, apart from the blend at an edge, the colour of its band (`GradientTrue`); where most samples are one
  instant apart the median is one (`MedianOne`) and the usage line has nothing in an outage (`OutageBlank`).
* Analytics: `ArchiveTrue` - the buckets have the readings that held in them and no others (`BucketsTrue`), a raw answer has every change-point of
  its window once, both as far as the store's page reaches, in order, within its limit (`RawTrue`). `ChartTrue` - the strip of a chart shows what the machine
  reported when it reported it (`StripTrue`), from change-points alone because a reading cannot change without a new run (`PointHolds`),
  and the samples of the archive and of the stream are told apart by their instants (`ReadingApart`).

Assumptions: the named ones on constants in each module, which every run evaluates - slots of different kinds are
distinct and each has a process, bounds and lifetimes are naturals, `Nobody` is no user - and the three hypotheses above
(`MaxResends = 0`, `OneWrite`, `Archiving = FALSE`), each stated in its theorem.

Model-checked only:
* liveness (`CommandsSettle`, `CatchesUp`, `PhoneIsAnswered`, `LifeGoesOn`), which the prover cannot do;
* two overlapping archive writes: the run has one write at a time, like the theorems.

## 5. Abstractions and limits

* One controller at a time: streams, queues and items of different controllers
  are disjoint in the code. The rate limiter, which is shared, has several.
* Stream ids are positions; ids stay ordered across a data loss because they begin with
  the time of day.
* Heartbeats of one controller have distinct timestamps (one every five seconds), and
  the archive's key is that timestamp.
* `StatusFeed` orders change-points and stream entries by one position. In the code a
  point carries the time at which the route stamped the heartbeat, a little before
  the time in its stream id, so the point of the oldest retained entry may be sent
  once from the archive and once from the stream. Points do not expire in `StatusFeed`.
* DynamoDB reads see every completed write. The code's queries are eventually
  consistent; a stale seed after a restart is not modelled.
* The 11-minute freshness cut of the single-latest read is a free choice in
  `StatusFeed` (`BootstrapNothing`); malformed checkpoints are not modelled.
* `MarkAllReceived` and the gauge run on the Redis broker only, as in the code.
* Client retries are modelled for the three commands whose repetition matters (XADD, XREADGROUP,
  SETID); the others are idempotent.
* `powerTotal` is the instant at which it was measured, and readings are two fingerprints: `Analytics` checks
  which samples are shown and when, not their arithmetic (averages, rounding, units).
* Amounts that only matter as larger or smaller (TTL, timers, page sizes, limits) are scaled
  down together: hits live longer than misses, a gap is shorter than the retention.
* In `Ledgers` a write's number stands for its `recordId`; `createdAt` is the time of the request.
* The charts' time is a few instants; series never repeat an instant, as the merge of the server
  ensures.

### Not modelled

* `stream:firehose` and the stream statistics: a second, best-effort XADD that nothing reads back into
  the state above, and paged reads of it (`SCAN` and `XREVRANGE` cursors are Redis's own).
* JWT verification, the JWKS cache of the library, the admin tokens: cryptography and configuration.
* Which protobuf type bytes are decoded as (a score over all types), names of devices.
* CORS, static files, mounting of routes, page layout, sign-in, the build and the infrastructure files.

## 6. Plan

Written so far, in order: `CommandChannel`, `CommandStream`, `MemoryBroker`,
`RateLimiter`, `ArchiveStore`, `StatusFeed`, `Beacons`, `AdminGate`, `CognitoUser`, `Charts`, `Analytics`,
`Telemetry`, `Views`, `Ledgers`, `ServerLife`, `OperatorPanel`, `Sorting`. Every safety property a run checks has a theorem.

Left, the most important first:

1. A composition of `ArchiveStore` (two writes) and `StatusFeed`, to check the backfill on the
   items that the write path really produces.
2. What two overlapping writes of one controller still guarantee, as a property of `ArchiveStore`.
3. Several processes behind one admin gate, each with a cache of its own.
4. The firehose's cursor paging.
