# Guildest: verification project

TLA+ models of Guildest's ingestion pipeline, its dead-letter operations and
dashboards, its request limiter, its analytics and public statistics; TLC
configurations that check them on small instances; and TLAPS proofs of the
properties that matter most for every value of the constants. Paths below are
relative to the repository. `worker` stands for `crates/worker/src/main.rs`,
`gateway` for `crates/gateway/src/main.rs`, `api` for `crates/api/src/main.rs`,
`queue` for `crates/common/src/queue.rs`.

## The system

Guildest ingests Discord events of guilds, keeps each one in Postgres
(`raw_events`), queues a reference to the row in a Redis stream, derives
analytics tables from it in a worker, and serves them to a dashboard. Gateway,
worker and API are separate processes that share Postgres and Redis and nothing
else; there are no transactions around the statements of a handler.

```
Discord --> gateway --(1) INSERT raw_events --> Postgres <-- dashboard reads -- API
               |                                   ^   ^                         |
               +--(2) XADD reference --> Redis ----+   |                         |
                                         streams   worker (one task per stream)  |
                                         groups       |  ^                       |
                                         retries <----+  +-- backfill <-- jobs --+
                                         dead letters <------ replay, discard ---+
```

### Inventory

| Component | Code | State | Operations | What is hard |
|---|---|---|---|---|
| Event delivery | gateway `Pipeline::publish`; worker `run_stream_worker`, `handle_failed_delivery`, `run_retry_scheduler`; queue consume, ack, retries | `raw_events`; per stream: entries, consumer group with pending list, retry counters with a time to live, scheduled-retry set, dead-letter stream | publish, consume, process, count a failure, schedule a retry, bury, acknowledge, republish due retries | every call can fail, or take effect and lose its reply; crashes; several processes on one stream; tasks that end and are not restarted |
| Discord request limiter | worker `DiscordRequestLimiter`, `discord_get_json` | in memory: permits in use, adaptive limit, success streak, backoff; `Notify` | acquire, success, rate limit, release, retry, abort | the gaps between mutex and `Notify`; permits given back by tasks spawned in `Drop`; lost wake-ups |
| Dead-letter operations | api `replay_dashboard_pipeline_incident`, `discard_dashboard_pipeline_incident` and helpers | lock keys with a time to live, dead-letter stream, audit tables | lock, read, publish, delete, clear, audit, unlock | chains of calls that stop anywhere; two operators; a lock that outlives or is outlived by its request; the worker runs beside it |
| Member analytics | worker `process_event` and the `mark_*`, `sync_*`, `increment_*` helpers, `ensure_analytics_schema` | `member_lifecycle`, marker tables, cohorts, daily counters, funnel | join, roles, message, reaction, voice, leave, each a sequence of statements; what startup fills; the rebuild of these tables by a job | streams of one member are handled by different workers in any order; inserting a marker and counting it are two statements; retries; restarts; twenty tables rebuilt one by one beside the handlers |
| Message indexing and backfill | worker `process_event` (messages), `process_backfill_job`, `run_backfill_job`, `run_backfill_channel`, `rebuild_*_in_scope`, `enqueue_backfill_job` | `message_index`, message counters, channel health, the job's row | index and count live, read pages, rebuild statement by statement, fail and retry | two writers of the same counters; pages that move; a JoinSet that drops its tasks; a rebuild that is not atomic |
| Voice sessions | gateway `voice_state_update`; worker `process_voice_state_update`, `close_active_voice_session`, `allocate_voice_seconds` | active session, recorded sessions, seconds by day | close, record, add by day, open | late retries, missed events, sessions over midnight |
| Guild inventory | gateway `guild_create`, `guild_delete`; worker `process_event` (guilds), `refresh_public_stats_cache`, `enqueue_install_backfill` | `guild_inventory`, one row of sums, rows and entries of jobs | upsert, refresh, ask for a backfill; the refresh a job ends with | a late retry or a swapped publication behind a newer event; two refreshes that overlap; failure between a job's row and its entry |
| Channel inventory | worker `ensure_channel_inventory_entry` | one row per channel | fetch on first sight | competes for permits |
| AI capture | worker `process_ai_classify_job` | observation rows | capture, classify | an external model |
| Dashboard and cache | api `read_dashboard_cache`, `write_dashboard_cache`, `invalidate_dashboard_ops_cache` | Redis keys with a time to live | read, query, write, delete keys | an answer computed before an action and cached after it |
| Public statistics | api `run_public_stats_cache_updater`, `public_stats_stream` | a watch channel, a stream for each visitor | tick, connect, subscribe, show | first value and subscription are two steps |
| Login and sessions | api OAuth | session rows | log in, out | request and response |
| Configuration, metrics, intake lab, mock Discord, scripts, web front end | `crates/common`, `crates/intake-lab`, `scripts`, `web` | none that matters here | | |

What makes each correct, and which property says so, is in the section on runs.
Every hazard of the code that a test would hardly reach is listed in
`PROJECT.json` at its line, with the properties that watch it.

## Plan

Delivery comes first, because everything else runs inside it; then the parts
whose concurrency nobody can test (limiter, dead letters); then the tables.

| Order | Module | Builds on | State |
|---|---|---|---|
| 1 | `DeliveryLedger` | | abstract specification |
| 1 | `DeliveryPipeline`, `DeliveryProperties` | implements `DeliveryLedger` | complete |
| 1 | `DeliveryProofs` | `DeliveryProperties` | every safety invariant and the refinement proved |
| 2 | `DiscordLimiter`, `LimiterProofs` | | complete, safety proved |
| 3 | `DeadLetterOps`, `DeadLetterProofs` | | complete, safety proved |
| 3 | `IncidentDashboard` (proofs in `DeadLetterProofs`) | composes `DeadLetterOps` with the cache and its viewers | complete, safety proved |
| 4 | `MemberAnalytics`, `MemberProofs` | | complete, safety proved |
| 4 | `MemberRebuild`, `RebuildProofs` | composes `MemberAnalytics` with the job | complete, safety proved |
| 5 | `MessageIndexing`, `MessageProofs` | | one guild, one job; safety proved |
| 6 | `VoiceSessions`, `VoiceProofs` | | complete, safety proved |
| 7 | `GuildInventory`, `GuildProofs` | | complete, safety proved |
| 7 | `PublicStats` | composes `GuildInventory` with the API's task and visitors | complete |

What could be added: overlapping jobs and the limiter under one JoinSet
(`MessageIndexing` with `DiscordLimiter`), which needs larger instances than
TLC finishes in minutes. Modules that may be proved about declare no RECURSIVE operator;
none in this project does.

## Modules and code

**`DeliveryPipeline`** has one stream. An event is one envelope; an entry of
`stream` is one XADD of a reference to it, so a retry is a new entry. `step[w]`
is where the stream worker of process `w` stands in `run_stream_worker` and
`handle_failed_delivery`; `due`, `popped` and `requeueing` are the local
variables of its `run_retry_scheduler`. Each Redis or Postgres call is an
action, and has a failing twin whose `applied` says whether the call took
effect before its reply was lost. `Panic` ends a task, `Crash` a process,
`Restart` starts it with `XREADGROUP >`, which never reads the pending list.
The handler is a success or a failure here; what it writes is in the modules
below. `processed`, `failures` and `faulted` are history.

**`DeliveryLedger`** is what the queue promises for an event whatever the
mechanism. A running attempt ends done or failed; after a failure the event is
deferred while attempts are left, buried when none is, and attempted again only
once deferred; it is stranded only in a step that adds an incident.
`DeliveryProperties` defines `Status` from the streams, the schedule and the
worker that has the event in hand, and instantiates it.

**`DiscordLimiter`** gives a requester (a slot of the job's JoinSet, or the
message worker) a place `pc`. A method of the limiter holds its mutex and is one
step; what the code leaves open is left open: registering with `Notify` after
the mutex is released, the release spawned by `Drop`, and a task that is aborted
and stops at its next await. Timers count down together in `Tick`.

**`DeadLetterOps`** makes each call of a replay or discard a step. The worker
keeps only its outcomes, and its retry counter may run out (`Lapse`). `replays`,
`discards`, `clears`, `lapses`, `failures` and `audited` tell what happened;
`faulted` which call failed.

**`IncidentDashboard`** adds one guild's cached answers about the pipeline.
`key` picks the one looked at: the list of incidents, read from the streams that
all guilds share, or the histories, read from the guild's audit rows. A viewer
that misses the cache takes two steps, `Query` and `Write`; a request of the
guild drops the keys, `Drop`; a request of another guild does not.

**`MemberAnalytics`** runs a handler as the sequence of statements it has left;
inserting a marker puts those that count it in front. Three streams have a
worker each, and its entries come in any order of the events, since the gateway
publishes each in a task of its own. A voice leave that is run again finds the
session closed and ends (`FindsClosed`). `Restart` is the death of the process
and the statements of `ensure_analytics_schema` at the next start. The histories `lost` and `surplus`
say which increments a failed handler or a start left out or made twice.

**`MemberRebuild`** runs `rebuild_message_analytics_for_scope` beside these
handlers: `todo` is the list of DELETE and INSERT statements it has left.
Members may have joined before the job (`JoinedBefore`), so that cohorts older
than it matter, and messages may be older than the join, of an earlier stay. A
job that breaks off begins again.

**`MessageIndexing`** has the gateway, the message worker's handler and the
backfill job, whose rebuild is the list of DELETE and INSERT statements it has
left. `counts` is a bag of cells: a table, a key and a day. A run that fails
(`Return`) is scheduled again until its retry counter exceeds `MaxRetries` and is
then a dead letter (`buried`); the counter may have lapsed between two failures,
as a job may run for longer than the hour it lives. Handling the failure may fail
(`Abandon`), a task's request may wait in the limiter without end (`Hang`), and a
call to Redis between two deliveries may end the worker's task (`WorkerStops`).

**`VoiceSessions`** keeps the member's moves in truth beside the rows the worker
writes, so that sessions and seconds can be compared with what really happened.
Serenity runs each event in a task of its own: `publishing` holds what is
persisted and not yet queued, and `Publish` takes any of it. `overtaken` says
that one event has been queued before an earlier one; `retried`, that a handler
has been run again. A move has the time its task read from the clock.

**`GuildInventory`** keeps what happened in the order of `occurred_at` (`log`)
beside its way through the queue, where publications may be swapped and retries
come late. The handler takes a step a statement. A job's refresh of the sums is
an UPDATE from a subquery and takes two, as under READ COMMITTED it writes what
it saw when it began. `halfway`, `overtaken` and `raced` are history.

**`PublicStats`** reads that row into a watch channel (`cell`) at every `Tick`;
`Connect` and `Subscribe` are two steps, as in `public_stats_stream`.

The `map` of `PROJECT.json` gives the source lines of each definition.

## Runs

Eight runs pass; four find what a document says of the code violated.

| Run | Bounds | Shows |
|---|---|---|
| `delivery_faults` | 1 process, 2 events, 1 retry, batch 2, any 2 faults of 7 kinds | `PersistedBeforeQueued`; `OneCopy` (no crash, failed call or retry doubles an event unless a reply is lost); `DeadLetterEarned`; `AttemptsBounded`; `NothingVanishes` (only the scheduler or a crash can lose an event); `ImplementsLedger`; `SettledUnlessFaulted` under fairness |
| `limiter` | 3 requesters, limit 1 to 2, delays 1 and 2, 1 retry | `PermitsAccounted`, `RetryAfterRespected`; `WokenByOthers`: who waits on somebody is woken |
| `limiter_retry` | 2 requesters, 2 retries | violation: `RetriesGoOn` |
| `dead_letters` | 1 event, an operator here and one in another guild, 1 viewer, 2 dead letters, 1 fault | `OneActor`, `ActedOnOnce`, `LeavesOnPurpose`, `AuditTruthful`, `AttemptsPaidFor`; `ActsShown`: what an operator did shows on the dashboard |
| `members` | 3 of 7 happenings on day 0, a week and a month later, 1 fault | `EveryMarkerCounted` (every missing increment is explained, none is doubled), `OneCohort`, `MarkersJustified`, `StepsRecorded`, `FilledFromMarkers` |
| `members_joins` | joins and a role, no fault | violation: `JoinsCounted` |
| `members_retry` | a join and two messages, 1 fault | violation: `RetriesSafe` |
| `rebuild` | 4 sequences of two or three of: missed messages before, at and after the join, a message, a reaction, a role, voice; a job over fifteen days; 1 fault | `RebuildExact` (a job nobody overlapped leaves its scope as derived from the index), `NothingForgotten` (what an overlap takes away is derived again; a step that was recorded goes only if the member is found to have taken it before it joined) |
| `messages` | 5 messages, 2 channels, pages of 1, 1 task at a time, 1 retry, 1 fault | `CompletedMeansIndexed`, `NeverOvercounted`, `RebuildRepairs`; `JobSettles` under fairness: each job in the stream completes or is a dead letter, except when the fault stops its worker, a request or its retry |
| `messages_empty` | a guild without channels | violation: `JobSettles` |
| `voice` | 2 channels, 3 days of 2 seconds, 4 moves published in any order, 2 faults | `SessionsTrue` and `SecondsExact` without faults and while publications keep the order of the moves; `OrderedOnce` with faults and, as to the seconds, in any order |
| `guilds` | 1 guild, 3 events in 3 scripts, 1 retry, 2 faults, 1 visitor | `InventoryTrue`, `StatsTrue`, `InstallsBackfilled`; `StatsShown` under fairness: every open stream ends up with the sums |

Each run's type invariant (`TypeOK` or its composed form) also says which pieces
of state belong together: a batch in hand is delivered, an entry has a row.

The four violations are disagreements between the code and what its documents
say of it:

- **`limiter_retry`**: whoever finds `backoff_until` in the past clears it and
  then awaits `notified()` without trying for a permit. With nobody else
  active, nobody is left to notify. An abort of a task that sleeps out a 429,
  and a release that runs before the registration, end the same way.
- **`members_joins`**: counters are inserted with 0 and incremented only ON
  CONFLICT, so the increment that creates a row counts nothing.
- **`members_retry`**: a message that is indexed before its aggregates are made,
  by a handler that then fails or by startup's indexing of `raw_events`, is
  never counted: its handler takes the index row for a sign that it was.
- **`messages_empty`**: `backfillable_channels[0]` of an empty list panics, and
  with it the task that reads `jobs.backfill`.

### Bounds, and why they are enough

Two events are needed for a batch in which one delivery fails before another,
and for two due retries of which one is removed; one retry, for an event to be
scheduled once and buried once. Two faults let a failure meet the handling of
another (a crash while a failed publish is put back). The run has one process;
what a second one may do to the same retry set and consumer group is covered by
the theorems, which are about any number. Three requesters over a limit of two
have one that waits while two hold permits; limits of one and two contain
halving, growing and the floor. Two operators and two entries contain a replay
of an event that fails again and is buried a second time while the first request
is still clearing its counter; the second operator belongs to another guild, so
that a dashboard sees acts of its own guild and of others. Seven happenings are
placed on both sides of the boundaries of a cohort (a day, a week, a month), and
three at once occupy all three workers. The rebuild's member joined on day 8 of its fifteen; `Together` picks what
happens: a message missed on its first day and one handled at the join, so that
the step is recorded and then taken away, and a return that only the job finds;
returns by reaction and voice after its days; and a role and voice, so that two
workers run beside it. Their statements run in every order.
Messages before, in and after the scope, on its first, inner and last day, make
every cut of the message rebuild matter; pages of one message make every page a
boundary, and with one retry a job is buried by conflicts with the message
worker alone, or after a fault and a conflict. Days of two seconds and four moves give sessions within a day, over
one midnight and over a whole day. A guild is removed and installed again or
stays and grows; three events allow a retry behind two newer ones, and sums of
one guild differ in servers and in members. A run that needed more faults or
events to go wrong would not be found: that is what the theorems are for.

### Fairness

`DeliveryPipeline`: weak fairness of each process's worker and scheduler tasks
and of its restart. Tokio polls every ready task of a live process, and the
container of a dead one is started again; nothing is assumed of the gateway or
of calls that fail. `DiscordLimiter`: requests are answered, spawned releases
run, aborted tasks stop, timers expire. `PatientSpec` adds strong fairness of
taking a free permit, which the code does not promise: it is used in the
violation run only, to show that the wait there is not starvation.
`MessageIndexing`: the backfill worker runs while it has a statement left. It need
not, when its task has ended or waits in the limiter: these are faults
(`WorkerStops`, `Hang`) that leave it nothing enabled, and `JobSettles` excludes
them by name. Nothing is assumed of the message worker. `PublicStats`: the guild handler
and the jobs run, publications and retries that are due arrive, the API's task
ticks and woken streams are polled; visitors need neither come nor leave. Failures and restarts are never
fair, and each liveness property names those it does not survive.

## Proofs

Each module of proofs proves its component's `Spec => []...` for every value of
the constants that its named assumption allows (`ConstantsAssumption`,
`LimiterAssumption`, `OpsAssumption`, `DashboardAssumption`,
`InventoryAssumption`, `VoiceAssumption`, `IndexingAssumption`,
`AnalyticsAssumption`, `RebuildAssumption`: sets of processes, requests, members
or events are finite, bounds are natural numbers, batch sizes, limits and days
positive). Every property that a passing run checks is a theorem, except
liveness: the invariants, the action properties and the refinement of the
ledger.

- **`DeliveryProofs`**: `TypeOK` is not inductive, since a step reads
  `stream[first[w]]`; `TypeInv` adds `BatchOK`: a batch in hand is a nonempty
  range of delivered entries. One lemma per group of calls.
  `PersistedBeforeQueued` with "a handler that has persisted its event has a
  row"; neither retries nor republications queue anything that was not queued
  before. `DeadLetterEarned` with "the counter in Redis plus the failures seen
  and not counted never exceed the failures", a cardinality argument that
  survives expiry and lost replies. Three more inductive invariants follow the
  copies of an event. `OneCopy` speaks of copies that are unread, open,
  scheduled or settled, and is broken in between, when a scheduler holds a
  popped retry: `OneInv` gives each copy a token with its place, says that an
  event has one token, and one lemma moves a token from a place to another.
  `AttemptsBounded` needs the Redis counter to tell the failures of every copy
  that may still be attempted (`Counted`), which holds because of `OneInv`.
  `NothingVanishes` needs to know whose a pending entry is (`TraceInv`): batches
  of workers are disjoint, the last entry of an event is kept somewhere, and a
  worker accounts for its batch until it acknowledges. `ImplementsLedger` rests
  on all of them: while no reply is lost, the place of an event's one token is
  its status (`StatusByPlace`), so each step is read backwards, from where a
  token is to where it came from (`Effects`, `OpenFrom`, `DecidedFrom`).
  `Counted` makes a deferral legal, the argument of `DeadLetterEarned` a burial;
  a copy vanishes only in a step in which something fails (`FailsOrNot`,
  `CopiesStay`), so stranding costs an incident. Once a reply is lost the ledger
  promises nothing, and the step needs no argument.
- **`LimiterProofs`**: type correctness, with the limit between 1 and its
  maximum; `PermitsAccounted` by moving one requester into or out of the finite
  set of holders against one spawned release; `RetryAfterRespected`, which is
  inductive with the types.
- **`DeadLetterProofs`**: type correctness; `OneActor`, inductive with the
  types; `LeavesOnPurpose` and `AuditTruthful` from `CausesInv`, which adds what
  a request has achieved by the step it is at (a replay about to delete has
  published; a request about to audit has its entry gone). `ActedOnOnce` from
  `OnceInv`: who may still act on an entry holds its lock, or the act is excused
  by a lock that ran out or a request that stopped. `AttemptsPaidFor` counts
  attempts against publications, clearings and lapses of the counter, with those
  of a queued publication bounded by what the counter remembers. `IncidentDashboard`
  implements `DeadLetterOps` (a viewer's step is a stutter), so these theorems
  carry over; `ActsShown` from `ShownInv`, which says of a viewer's answer in
  hand what `ActsShown` says of the cached one.
- **`GuildProofs`**: type correctness with the row in hand; `InventoryTrue`
  without `Max` (the event whose data the row has is the newest told);
  `StatsTrue` with what a job is about to write (`StatsInv`); `InstallsBackfilled`
  by bounding the rows of an event by its attempts (`BackfillInv`). `PublicStats`
  implements the inventory, and the three hold there too.
- **`VoiceProofs`**: everything `VoiceSessions` checks. `LeftShape`, which holds
  always, says what statements a handler may have left. `Fresh`: until a handler
  is run again no two sessions begin with the same move, in whatever order the
  events come; so `Record` adds a new session, and with `SumsInv` the seconds
  added and those still to be added are as many as the sessions lasted, the first
  clause of `OrderedOnce`. The second, and `SessionsTrue` and `SecondsExact`,
  need the events in order. `Pending`, the stream followed by what is still to be
  published, does not change when the gateway publishes the first of it.
  `OrderInv`: pending events, rows and the statement in hand are ordered in time,
  until one event overtakes another. `TruthInv`: without faults what is pending
  is the rest of the member's moves, the recorded sessions are the stays before
  the move in hand, and the active one is where the member then was, at each
  statement of the handler; `Segments` of a session adds to each day what the
  session has in it, and sessions that do not overlap share no second
  (`SecondsApart`).

- **`MemberProofs`**: `TypeInv` says which statements a handler may have left
  (`Ahead`, `Due`): about its own member, with a cohort only of the day the
  member joined. `OneCohort` follows because `joined_at` is written once.
  `MarkersJustified` needs the order of the statements (`WorkReasoned`): a day
  of activity is written before the marker that asks for retention, and
  retention is looked at on such a day only. `EveryMarkerCounted` from
  `CountInv`, for each cell: its count, the increments pending and lost, and the
  one that opened its row make up what the markers call for and the surplus of
  startups; a marker that is inserted moves both sides at once, as its handler
  then holds the increments. `StepsRecorded` from `StepsInv`: a handler has the
  step ahead of it or nothing left to count, and an event is in one place.
  `FilledFromMarkers` is about one step: only a restart touches a table as a
  whole, and a column it fills held nothing before, so that what startup adds is
  what its markers say.
- **`RebuildProofs`**: a job has a suffix of `Rebuild` left (`JobOK`), and what
  it has deleted and not derived again is `Awaited`. `NothingForgotten` is false
  during a rebuild. `ForgottenInv` says what holds then: steps are recorded
  except in awaited tables and days (`StepsInv(Waived)`), if their dates are
  not before the join, and every date of a step is that of an event which was
  handled or is in the index (`LifecycleDated`), so that a date that a job moved
  before the join has an event to show for it; who is owed a day of
  activity and its marker has both, or a handler has the statement ahead of it,
  or the day is in the scope and the table awaited (`ActiveInv`, and
  `CoveredInv` for what a job found). A handler that says a member was active
  marks it afterwards, and it dates its own step only (`Arranged`); and a job that inserts activity has still
  to insert the markers, so neither is lost between the two. `RebuildExact`
  from `ExactInv`, about a job nobody has overlapped: what it has no more to
  derive agrees with the index, the activity, the markers and the counters in
  this order (`Derivation`), and when an insertion is next, what its deletion
  concerned is empty. `Rebuild` is a constant sequence of 34 statements;
  that a deletion precedes its insertion, and what is read is derived earlier,
  is established once for each place in it (`DeletionFirst`, `GoesLater`).
- **`MessageProofs`**: everything `MessageIndexing` checks of states.
  `CompletedMeansIndexed` from `Progress`: all that the job covers has been sent
  when it is asked for, what a channel's task has passed is indexed
  (`ReadSoFar`), and the rebuild begins when every task is done.
  `NeverOvercounted` from `Bounded`: a cell and what the handler and the tasks
  are yet to add to it never exceed the indexed messages that belong to it.
  `RebuildRepairs` from `MadeAgain`: what the rebuild has made again stays equal
  to the index, but for what a handler that began since is yet to count.

Checked by TLC only: liveness, which is out of the prover's reach.

## Not modelled

- Channel inventory: names of channels fetched on first sight.
- AI capture: nothing in the repository writes `ai_channel_settings`, so it is
  switched on from outside; what follows is an observation row, a job that
  `DeliveryPipeline` delivers, an external model's answer and one UPDATE.
- Login: exchanges whose state no second actor touches.
- Dashboard queries: the SQL behind the cached answers, and the answers about
  analytics, which are never dropped by the API and only expire.
- Of the public statistics: nothing in the repository writes the hot key or
  publishes to `guildest.public_stats`, so the updater's fast paths are no
  actions; a restart of the API closes all streams and begins with the row.
- The histories of the dashboard show the last ten audit rows; `History` is the
  whole log, which is shorter in the run.
- `MemberRebuild` indexes what a job finds in one step; the pages, and handlers
  between them, are in `MessageIndexing`.
- In `GuildInventory`, the refresh inside `recount_public_message_count`, just
  before the job's own: two writes of the same row by the same job, which
  `raced` covers like one. `PublicStats` leaves `messages_tracked` out and reads
  the row and compares it in one step.
- The health score: floating point, of no use without real numbers.
- Configuration, metrics, test doubles, scripts and the front end.
- In `MessageIndexing`: several guilds and jobs, reply and response-time columns.
  Guild identity appears elsewhere only as `OtherGuild`, because startup asks
  whether a table is empty over all guilds.

## Observations without a run

- One failed XREADGROUP or XACK leaves `run_stream_worker` through `?`; `main`
  logs it and keeps the process alive, so that stream is not read again.
  `SettledUnlessFaulted` and `JobSettles` exclude it.
- Two live messages that meet two tries of a rebuild between DELETE and INSERT
  cost a backfill job two of its retries without any fault.
- A late retry of `GuildAvailable` reactivates a guild that has removed the bot,
  since `last_seen_at` is never compared; `InventoryTrue` excludes it by
  `overtaken`.
- A job's refresh of the public statistics that began before an upsert can be
  written after the handler's own; the row is wrong until the next refresh.
  `StatsTrue` excludes it by `raced`.
- A stream of statistics reads its first value before it subscribes; a change in
  between is shown only with the next one (`missed`).
- A rebuild of the members' tables deletes activity that has no message, reaction
  or voice alone, in the days of its scope; `NothingForgotten` is about messages.
- A rebuild that finds a message of a member from before its `joined_at` moves
  `first_message_at` there (LEAST, worker `main.rs` 2753-2757), and with it the
  first message after the join, which was counted as a step of the funnel, is
  deleted and not derived again, now or later; `NothingForgotten` says that no
  step is lost otherwise.
- A voice leave whose handler failed after it closed the session is done when it
  is run again: its day of activity, its marker and its seconds are not made up
  (worker `main.rs` 1938-1940); `NothingForgotten` leaves failed leaves out.
- A rebuild deletes channel rows of the whole first and last day and inserts
  only those with messages in the scope; `RebuildRepairs` leaves them out.
- A handler between indexing and counting while the rebuild counts is counted
  twice; `NeverOvercounted` excludes it by `raced`.
- A voice move retried after it opened its session, behind later moves, opens a
  closed session again and its seconds are added twice; `OrderedOnce` excludes
  retries.
- A member's voice events are queued by tasks of their own. A leave queued before
  its join closes nothing, and the session opened after it stays open until the
  next leave; sessions may then overlap. `SessionsTrue`, `SecondsExact` and the
  second clause of `OrderedOnce` exclude it by `overtaken`.
- `reactions_added` has no marker: each retry of a reaction adds one.
- A job's row stays "running" after a crash, and "queued" when its XADD fails
  after the row was written.
- Startup marks as onboarded members whose join is unknown; no counter follows.
- With two members and two faults startup can count a join from the lifecycle
  table that a retry then counts again (`surplus`).
