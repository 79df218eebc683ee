--------------------------- MODULE MemberAnalytics ---------------------------
(***************************************************************************)
(* What the worker's event handlers make of members: the lifecycle row of  *)
(* each, the marker tables that say what has been counted, and the daily   *)
(* counters the dashboard reads.  Three stream workers run beside each     *)
(* other, one SQL statement at a time and without transactions: a handler  *)
(* is the sequence of statements it has left, and inserting a marker puts  *)
(* the statements that count it in front of the rest.                      *)
(*                                                                         *)
(* A handler that fails is run again from its start (DeliveryPipeline says *)
(* how); a crash leaves its event behind, and the process that starts next *)
(* indexes every message there is a raw event of and fills the tables it   *)
(* finds empty.  The counters that belong to channels rather than members  *)
(* are in MessageIndexing, voice sessions in VoiceSessions.                *)
(***************************************************************************)
EXTENDS Integers, SequencesExt, FiniteSetsExt, Bags

CONSTANTS
  Members,
  Channels,
  OtherGuild, \* whether another guild has rows in every table
  Happenings, \* bound: the events that may happen, and when
  MaxEvents,  \* bound: how many
  MaxFaults   \* bound: failed statements and crashes

EventKinds ==
  {"join",         \* MemberJoined without roles
   "joinWithRole",
   "joinUndated",  \* MemberJoined without joined_at
   "leave",
   "roles",        \* MemberRolesUpdated, roles left
   "rolesCleared", \* MemberRolesUpdated, no roles left
   "message",
   "botMessage",
   "missedMessage", \* one the gateway never published (MemberRebuild)
   "reaction",
   "voiceJoin",
   "voiceLeave"}   \* closes a session opened the same day

ASSUME AnalyticsAssumption ==
  /\ IsFiniteSet(Members) /\ IsFiniteSet(Channels)
  /\ OtherGuild \in BOOLEAN
  /\ IsFiniteSet(Happenings)
  /\ Happenings \subseteq [kind : EventKinds, member : Members, channel : Channels, at : Nat]
  /\ MaxEvents \in Nat
  /\ MaxFaults \in Nat

VARIABLES
  log,        \* every event, in the order it happened
  queue,      \* queue[s]: events of stream s that are waiting, as they came
  current,    \* current[s]: the event s's worker handles, or 0
  work,       \* work[s]: the statements left of its handler
  lifecycle,  \* member_lifecycle
  activity,   \* member_daily_activity: who was seen on which day
  markers,    \* rows of the marker tables and of message_index
  reindexed,  \* messages whose message_index.source is raw_event_bootstrap
  counts,     \* the counters: a bag of the cells incremented
  opener,     \* the counter rows there are, and the column whose increment created each
  lost,       \* the bag of increments that failed handlers and startup dropped, history
  surplus,    \* the bag of what startup counted without a marker, history
  failed,     \* events whose handler has failed, history
  done,       \* events handled to the end, history
  sawJoin,    \* events handled when the member's joined_at was known, history
  faultCount  \* bound

tableVars == <<lifecycle, activity, markers, reindexed, counts, opener>>
workerVars == <<queue, current, work>>
historyVars == <<lost, surplus, failed, done, sawJoin>>
vars == <<log, workerVars, tableVars, historyVars, faultCount>>

None == -1
Whole == 0  \* the guild, where a channel or a message may be meant
PerDay == 2
Day(t) == t \div PerDay
Times == {e.at : e \in Happenings}
Days == {Day(t) : t \in Times}

Streams == {"events.member", "events.message", "events.voice"}

StreamOf(kind) ==
  CASE kind \in {"message", "botMessage", "reaction"} -> "events.message"
    [] kind \in {"voiceJoin", "voiceLeave"} -> "events.voice"
    [] kind = "missedMessage" -> "none"
    [] OTHER -> "events.member"

Milestones == {"first_role_at", "first_message_at", "first_reaction_at", "first_voice_at"}
LifecycleColumns == Milestones \union {"joined_at", "left_at"}

-----------------------------------------------------------------------------
(* Counters and what is counted in them.                                    *)

Columns ==
  [guild_daily_activity |-> {"messages"},
   guild_summary_daily |->
     {"messages", "active_members", "joined_members", "left_members", "onboarded_members"},
   retention_cohorts |->
     {"joined_members", "d7_retained_members", "d30_retained_members"},
   activation_funnel_daily |->
     {"joined_members", "returned_next_week_members"} \union Milestones,
   channel_retention_daily |-> {"d7_retained_members", "d30_retained_members"},
   public_stats_cache |-> {"messages"}]

Rows ==
  UNION {[table : {"guild_daily_activity", "guild_summary_daily", "retention_cohorts",
                   "activation_funnel_daily"}, of : {Whole}, day : Days],
         [table : {"channel_retention_daily"}, of : Channels, day : Days],
         [table : {"public_stats_cache"}, of : {Whole}, day : {0}]}

Cells == {c \in Rows \X UNION Range(Columns) : c[2] \in Columns[c[1].table]}

Cell(table, of, day, column) == <<[table |-> table, of |-> of, day |-> day], column>>

\* The value of a cell; one that is missing has counted nothing.
Copies(c, B) == IF c \in DOMAIN B THEN B[c] ELSE 0

\* A marker's day is the day it is counted on: None for a member marked as
\* onboarded at startup whose join is not known, who is not counted.
Marker(table, m, of, day) == [table |-> table, member |-> m, of |-> of, day |-> day]

\* The primary keys: these have no day.
ByMember == {"guild_joined_members", "guild_left_members", "guild_onboarded_members"}

SameKey(a, b) ==
  /\ a.table = b.table /\ a.member = b.member /\ a.of = b.of
  /\ a.table \in ByMember \/ a.day = b.day

\* Mutant: a counter column named like the marker's table.
CountedInMisnamed(mk) == <<Cell("guild_summary_daily", Whole, mk.day, mk.table)>>

\* The increments that follow a marker's insertion.
CountedIn(mk) ==
  LET in(table, column) == Cell(table, Whole, mk.day, column)
      inChannel(column) == Cell("channel_retention_daily", mk.of, mk.day, column)
  IN  IF mk.day = None THEN << >> ELSE
      CASE mk.table = "guild_joined_members" ->
             <<in("guild_summary_daily", "joined_members"),
               in("retention_cohorts", "joined_members"),
               in("activation_funnel_daily", "joined_members")>>
        [] mk.table = "guild_left_members" -> <<in("guild_summary_daily", "left_members")>>
        [] mk.table = "guild_onboarded_members" ->
             <<in("guild_summary_daily", "onboarded_members")>>
        [] mk.table = "guild_daily_active_members" ->
             <<in("guild_summary_daily", "active_members")>>
        [] mk.table = "retention_cohort_d7_members" ->
             <<in("retention_cohorts", "d7_retained_members"),
               in("activation_funnel_daily", "returned_next_week_members")>>
        [] mk.table = "retention_cohort_d30_members" ->
             <<in("retention_cohorts", "d30_retained_members")>>
        [] mk.table = "channel_retention_d7_members" -> <<inChannel("d7_retained_members")>>
        [] mk.table = "channel_retention_d30_members" -> <<inChannel("d30_retained_members")>>
        [] mk.table = "message_index" ->
             <<Cell("public_stats_cache", Whole, 0, "messages"),
               in("guild_daily_activity", "messages"),
               in("guild_summary_daily", "messages")>>
        [] mk.table \in Milestones -> <<in("activation_funnel_daily", mk.table)>>

-----------------------------------------------------------------------------
(* Statements and handlers.                                                 *)

Do(op, arg) == [op |-> op, arg |-> arg]
Upsert(fields) == Do("upsert", fields)
Mark(mk) == Do("mark", mk)
Milestone(table) == Do("milestone", table)
Count(cell) == Do("count", cell)

\* The statements a handler starts with; a milestone field names its own
\* activation_funnel_*_members table.
Handler(i) ==
  LET e == log[i]
      mark(table, of) == Mark(Marker(table, e.member, of, Day(e.at)))
  IN  CASE e.kind = "join" ->
             <<Upsert({"joined_at"}), mark("guild_joined_members", Whole)>>
        [] e.kind = "joinWithRole" ->
             <<Upsert({"joined_at", "first_role_at"}), mark("guild_joined_members", Whole),
               Milestone("first_role_at")>>
        [] e.kind = "joinUndated" -> <<Upsert({})>>
        [] e.kind = "leave" -> <<Upsert({"left_at"}), mark("guild_left_members", Whole)>>
        [] e.kind = "roles" ->
             <<Upsert({"first_role_at"}), Milestone("guild_onboarded_members"),
               Milestone("first_role_at")>>
        [] e.kind = "rolesCleared" ->
             <<Upsert({}), Milestone("guild_onboarded_members"), Milestone("first_role_at")>>
        [] e.kind \in {"message", "botMessage"} -> <<mark("message_index", i)>>
        [] e.kind = "reaction" ->
             <<Do("activity", Day(e.at)), mark("guild_daily_active_members", Whole),
               Upsert({"first_reaction_at"}), Milestone("first_reaction_at")>>
        [] e.kind = "voiceJoin" -> <<Upsert({"first_voice_at"}), Milestone("first_voice_at")>>
        [] e.kind = "voiceLeave" ->
             <<Do("activity", Day(e.at)), mark("guild_daily_active_members", Whole)>>

\* Mutant: the step is looked for before it is written down.
MessageStepsLateUpsert(e) ==
  IF e.kind = "botMessage" THEN << >>
  ELSE <<Milestone("guild_onboarded_members"), Milestone("first_message_at"),
         Upsert({"first_message_at"}), Do("activity", Day(e.at)),
         Mark(Marker("guild_daily_active_members", e.member, Whole, Day(e.at)))>>

\* apply_message_aggregates, as far as members go.
MessageSteps(e) ==
  IF e.kind = "botMessage" THEN << >>
  ELSE <<Upsert({"first_message_at"}), Milestone("guild_onboarded_members"),
         Milestone("first_message_at"), Do("activity", Day(e.at)),
         Mark(Marker("guild_daily_active_members", e.member, Whole, Day(e.at)))>>

\* What the handler does next once mk is in, before what it had left.
FollowUps(mk, e) ==
  [j \in DOMAIN CountedIn(mk) |-> Count(CountedIn(mk)[j])] \o
  CASE mk.table = "message_index" -> MessageSteps(e)
    [] mk.table = "guild_daily_active_members" -> <<Do("retention", mk.day)>>
    [] mk.table = "retention_cohort_d7_members" ->
         <<Do("contribution", "channel_retention_d7_members")>>
    [] mk.table = "retention_cohort_d30_members" ->
         <<Do("contribution", "channel_retention_d30_members")>>
    [] OTHER -> << >>

-----------------------------------------------------------------------------
(* The stream workers.                                                      *)

Busy(s) == current[s] # 0
Next1(s) == Head(work[s])
Event(s) == log[current[s]]
Joined(m) == lifecycle[m]["joined_at"]

\* The bag of increments among statements.
Increments(statements) ==
  LET counting == {j \in DOMAIN statements : statements[j].op = "count"}
  IN  [c \in {statements[j].arg : j \in counting} |->
         Cardinality({j \in counting : statements[j].arg = c})]

\* The increments that handlers have yet to execute.
Pending ==
  Increments(work["events.member"]) (+) Increments(work["events.message"])
  (+) Increments(work["events.voice"])

Begin(s) ==
  /\ ~Busy(s)
  /\ queue[s] # << >>
  /\ current' = [current EXCEPT ![s] = Head(queue[s])]
  /\ work' = [work EXCEPT ![s] = Handler(Head(queue[s]))]
  /\ queue' = [queue EXCEPT ![s] = Tail(@)]
  /\ UNCHANGED <<log, tableVars, historyVars, faultCount>>

\* A leave whose handler failed may find that it closed the session then, which
\* is the first that it does, and has nothing left to do.
FindsClosed(s) ==
  /\ ~Busy(s)
  /\ queue[s] # << >>
  /\ Head(queue[s]) \in failed /\ log[Head(queue[s])].kind = "voiceLeave"
  /\ done' = done \union {Head(queue[s])}
  /\ queue' = [queue EXCEPT ![s] = Tail(@)]
  /\ UNCHANGED <<log, current, work, tableVars, lost, surplus, failed, sawJoin, faultCount>>

\* The handler returns an error with rest undone; its event comes back later.
Fail(s, rest) ==
  /\ faultCount < MaxFaults
  /\ faultCount' = faultCount + 1
  /\ queue' = [queue EXCEPT ![s] = Append(@, current[s])]
  /\ current' = [current EXCEPT ![s] = 0]
  /\ work' = [work EXCEPT ![s] = << >>]
  /\ lost' = lost (+) Increments(rest)
  /\ failed' = failed \union {current[s]}
  /\ UNCHANGED <<log, surplus, done>>

\* The statement has taken effect: the handler goes on with rest, or ends, or
\* gets no reply.
Proceed(s, rest) ==
  \/ /\ rest # << >>
     /\ work' = [work EXCEPT ![s] = rest]
     /\ UNCHANGED <<log, queue, current, lost, surplus, failed, done, faultCount>>
  \/ /\ rest = << >>
     /\ work' = [work EXCEPT ![s] = << >>]
     /\ current' = [current EXCEPT ![s] = 0]
     /\ done' = done \union {current[s]}
     /\ UNCHANGED <<log, queue, lost, surplus, failed, faultCount>>
  \/ Fail(s, rest)

\* A statement without effect.
StatementFails(s) ==
  /\ Busy(s)
  /\ Fail(s, work[s])
  /\ UNCHANGED <<tableVars, sawJoin>>

\* Mutant: COALESCE the wrong way round.
Coalesced(old, new) == IF new # None THEN new ELSE old

\* INSERT ... ON CONFLICT DO UPDATE SET f = COALESCE(f, EXCLUDED.f); left_at
\* alone is overwritten.
Coalesce(old, new) == IF old # None THEN old ELSE new

RunUpsert(s) ==
  LET e == Event(s)
      set == Next1(s).arg
      updated(row) ==
        [f \in DOMAIN row |-> IF f = "left_at" /\ f \in set THEN e.at
                              ELSE Coalesce(row[f], IF f \in set THEN e.at ELSE None)]
  IN  /\ Busy(s) /\ Next1(s).op = "upsert"
      /\ lifecycle' = [lifecycle EXCEPT ![e.member] = updated(@)]
      /\ sawJoin' = IF lifecycle'[e.member]["joined_at"] # None THEN sawJoin \union {current[s]} ELSE sawJoin
      /\ Proceed(s, Tail(work[s]))
      /\ UNCHANGED <<activity, markers, reindexed, counts, opener>>

\* Before the member is marked as active for the day.
RunActivity(s) ==
  /\ Busy(s) /\ Next1(s).op = "activity"
  /\ activity' = activity \union {<<Event(s).member, Next1(s).arg>>}
  /\ Proceed(s, Tail(work[s]))
  /\ UNCHANGED <<lifecycle, markers, reindexed, counts, opener, sawJoin>>

\* Mutant: what was inserted before is counted again.
InsertCountedAnyway(s, mk) ==
  /\ markers' = markers \union {mk}
  /\ Proceed(s, FollowUps(mk, Event(s)) \o Tail(work[s]))
  /\ UNCHANGED <<lifecycle, activity, reindexed, counts, opener, sawJoin>>

\* INSERT ... ON CONFLICT DO NOTHING, and its count only if it did something.
Insert(s, mk) ==
  /\ IF \E old \in markers : SameKey(old, mk)
     THEN UNCHANGED markers /\ Proceed(s, Tail(work[s]))
     ELSE /\ markers' = markers \union {mk}
          /\ Proceed(s, FollowUps(mk, Event(s)) \o Tail(work[s]))
  /\ UNCHANGED <<lifecycle, activity, reindexed, counts, opener, sawJoin>>

RunMark(s) ==
  /\ Busy(s) /\ Next1(s).op = "mark"
  /\ Insert(s, Next1(s).arg)

\* Mutant: the step may have come before the member joined.
EligibleEver(table, m) ==
  Joined(m) # None /\ IF table = "guild_onboarded_members"
                      THEN lifecycle[m]["first_role_at"] # None
                      ELSE lifecycle[m][table] # None

Eligible(table, m) ==
  /\ Joined(m) # None
  /\ IF table = "guild_onboarded_members"
     THEN lifecycle[m]["first_role_at"] # None /\ lifecycle[m]["first_message_at"] # None
     ELSE lifecycle[m][table] # None /\ lifecycle[m][table] >= Joined(m)

\* The test and the insertion are one statement.
RunMilestone(s) ==
  LET table == Next1(s).arg
      m == Event(s).member
  IN  /\ Busy(s) /\ Next1(s).op = "milestone"
      /\ IF Eligible(table, m) THEN Insert(s, Marker(table, m, Whole, Day(Joined(m))))
         ELSE Proceed(s, Tail(work[s])) /\ UNCHANGED <<tableVars, sawJoin>>

\* The rows there are once those of rows are made that are missing.
Opened(rows, how) ==
  [row \in rows \union DOMAIN opener |-> IF row \in DOMAIN opener THEN opener[row] ELSE how]

\* The INSERT of an increment that finds no row sets every counter to 0,
\* except for messages, which start at 1.
RunCount(s) ==
  LET cell == Next1(s).arg
      row == cell[1]
      opens == row \notin DOMAIN opener
  IN  /\ Busy(s) /\ Next1(s).op = "count"
      /\ opener' = Opened({row}, cell[2])
      /\ counts' = IF opens /\ cell[2] # "messages" THEN counts ELSE counts (+) SetToBag({cell})
      /\ Proceed(s, Tail(work[s]))
      /\ UNCHANGED <<lifecycle, activity, markers, reindexed, sawJoin>>

\* Reads joined_at; the markers it decides on are separate statements.
RunRetention(s) ==
  LET m == Event(s).member
      cohort == Day(Joined(m))
      age == Next1(s).arg - cohort
      mark(table) == Mark(Marker(table, m, Whole, cohort))
      marks == IF Joined(m) = None THEN << >>
               ELSE (IF age \in 7 .. 13 THEN <<mark("retention_cohort_d7_members")>> ELSE << >>)
                    \o (IF age \in 30 .. 36 THEN <<mark("retention_cohort_d30_members")>> ELSE << >>)
  IN  /\ Busy(s) /\ Next1(s).op = "retention"
      /\ Proceed(s, marks \o Tail(work[s]))
      /\ UNCHANGED <<tableVars, sawJoin>>

\* Where the member wrote in the first week.
FirstWeekChannels(m) ==
  {log[mk.of].channel : mk \in {x \in markers :
      /\ x.table = "message_index" /\ x.member = m
      /\ log[x.of].at >= Joined(m) /\ log[x.of].at < Joined(m) + 7 * PerDay}}

RunContribution(s) ==
  LET m == Event(s).member
      mark(c) == Mark(Marker(Next1(s).arg, m, c, Day(Joined(m))))
  IN  /\ Busy(s) /\ Next1(s).op = "contribution"
      /\ LET channels == SetToSeq(FirstWeekChannels(m))
         IN  Proceed(s, [j \in DOMAIN channels |-> mark(channels[j])] \o Tail(work[s]))
      /\ UNCHANGED <<tableVars, sawJoin>>

Run(s) ==
  \/ RunUpsert(s) \/ RunActivity(s) \/ RunMark(s) \/ RunMilestone(s) \/ RunCount(s)
  \/ RunRetention(s) \/ RunContribution(s)

-----------------------------------------------------------------------------
(* A restart: ensure_analytics_schema runs before the workers do.           *)

\* What each marker table is filled with, if it has no row, after the index
\* and the tables before it.
ActiveMarkers == {Marker("guild_daily_active_members", a[1], Whole, a[2]) : a \in activity}

LifecycleMarkers(table, column) ==
  {Marker(table, m, Whole, Day(lifecycle[m][column])) :
     m \in {m \in Members : lifecycle[m][column] # None}}

\* Unlike maybe_record_onboarding_completion, startup does not ask for a join.
OnboardedMarkers ==
  {Marker("guild_onboarded_members", m, Whole, IF Joined(m) = None THEN None ELSE Day(Joined(m))) :
     m \in {m \in Members : /\ lifecycle[m]["first_role_at"] # None
                            /\ lifecycle[m]["first_message_at"] # None}}

RetainedMarkers(table, ages) ==
  {Marker(table, m, Whole, Day(Joined(m))) :
     m \in {m \in Members : /\ Joined(m) # None
                            /\ \E a \in activity : a[1] = m /\ a[2] - Day(Joined(m)) \in ages}}

ContributionMarkers(table, retained, mks) ==
  UNION {{Marker(table, r.member, log[x.of].channel, r.day) :
            x \in {x \in mks : /\ x.table = "message_index" /\ x.member = r.member
                               /\ log[x.of].at >= Joined(r.member)
                               /\ log[x.of].at < Joined(r.member) + 7 * PerDay}} :
         r \in {r \in mks : r.table = retained /\ Joined(r.member) # None}}

StepMarkers(step) ==
  {Marker(step, m, Whole, Day(Joined(m))) : m \in {m \in Members : Eligible(step, m)}}

StartupMarkers(table, mks) ==
  CASE table = "guild_daily_active_members" -> ActiveMarkers
    [] table = "guild_joined_members" -> LifecycleMarkers(table, "joined_at")
    [] table = "guild_left_members" -> LifecycleMarkers(table, "left_at")
    [] table = "guild_onboarded_members" -> OnboardedMarkers
    [] table = "retention_cohort_d7_members" -> RetainedMarkers(table, 7 .. 13)
    [] table = "retention_cohort_d30_members" -> RetainedMarkers(table, 30 .. 36)
    [] table = "channel_retention_d7_members" ->
         ContributionMarkers(table, "retention_cohort_d7_members", mks)
    [] table = "channel_retention_d30_members" ->
         ContributionMarkers(table, "retention_cohort_d30_members", mks)
    [] OTHER -> StepMarkers(table)

FirstFilled ==
  ByMember \union Milestones \union
  {"guild_daily_active_members", "retention_cohort_d7_members", "retention_cohort_d30_members"}

FilledFromThose == {"channel_retention_d7_members", "channel_retention_d30_members"}

\* Each of these tables that has no row gets its own; none is made from another.
FillMarkers(tables, mks) ==
  LET empty == {t \in tables : ~OtherGuild /\ ~\E mk \in mks : mk.table = t}
  IN  mks \union UNION {StartupMarkers(t, mks) : t \in empty}

FillAll(mks) == FillMarkers(FilledFromThose, FillMarkers(FirstFilled, mks))

\* Every message_created among the raw events is indexed, handled or not.
Indexed(now) ==
  {Marker("message_index", log[i].member, i, Day(log[i].at)) :
     i \in {i \in 1 .. now : log[i].kind \in {"message", "botMessage"}}}

MarkersAtStart(now) == FillAll(markers \union Indexed(now))

\* The increments that a set of markers calls for.
Called(mks) ==
  LET cells == [mk \in mks |-> Range(CountedIn(mk))]
  IN  [c \in UNION Range(cells) |-> Cardinality({mk \in mks : c \in cells[mk]})]

OfTables(B, tables) == [c \in {c \in DOMAIN B : c[1].table \in tables} |-> B[c]]
OfTable(B, table) == OfTables(B, {table})

OfColumns(B, columns) == [c \in {c \in DOMAIN B : c[2] \in columns} |-> B[c]]

\* The bag of cells of a column, one per member of ms, by day of joining.
ByCohort(table, column, ms) ==
  LET dated == {m \in ms : Joined(m) # None}
      of(m) == Cell(table, Whole, Day(Joined(m)), column)
  IN  [c \in {of(m) : m \in dated} |-> Cardinality({m \in dated : of(m) = c})]

\* Cohorts and the funnel take joins from the lifecycle rows.
CohortRows(marked) ==
  OfColumns(marked, {"d7_retained_members", "d30_retained_members"})
  (+) ByCohort("retention_cohorts", "joined_members", Members)

FunnelRows(marked) ==
  OfColumns(marked, Milestones \union {"returned_next_week_members"})
  (+) ByCohort("activation_funnel_daily", "joined_members", Members)

\* The summary takes its messages from guild_daily_activity, and the day of an
\* onboarding from the lifecycle row.
SummaryRows(marked, onboarded, daily) ==
  OfColumns(marked, {"active_members", "joined_members", "left_members"})
  (+) ByCohort("guild_summary_daily", "onboarded_members", onboarded)
  (+) [c \in {Cell("guild_summary_daily", Whole, d[1].day, "messages") : d \in DOMAIN daily} |->
         daily[Cell("guild_daily_activity", Whole, c[1].day, "messages")]]

\* Mutant: the counters are filled before the markers they are filled from.
FillCountersFirst(table, mks, daily) ==
  OfTable(Called(markers), table)

\* What an empty counter table is filled with.
FillCounters(table, mks, daily) ==
  LET marked == OfTable(Called(mks), table)
      onboarded == {mk.member : mk \in {mk \in mks : mk.table = "guild_onboarded_members"}}
  IN  CASE table = "retention_cohorts" -> CohortRows(marked)
        [] table = "activation_funnel_daily" -> FunnelRows(marked)
        [] table = "guild_summary_daily" -> SummaryRows(marked, onboarded, daily)
        [] OTHER -> marked

FilledTables(tables, mks, daily) ==
  LET rows == [t \in tables |-> FillCounters(t, mks, daily)]
  IN  [c \in UNION {DOMAIN rows[t] : t \in tables} |-> rows[c[1].table][c]]

Unfilled ==
  IF OtherGuild THEN {}
  ELSE (DOMAIN Columns \ {"public_stats_cache"}) \ {row.table : row \in DOMAIN opener}

Handled == failed \union done \union (Range(current) \ {0})

\* The process dies with its handlers, whose events stay in the pending list,
\* and starts again.  Its statements at startup change nothing when they are
\* run twice, so dying between them comes to starting once.
Restart(now) ==
  LET mks == MarkersAtStart(now)
      unfilled == Unfilled
      daily == IF "guild_daily_activity" \in unfilled
               THEN FillCounters("guild_daily_activity", mks, EmptyBag)
               ELSE OfTable(counts, "guild_daily_activity")
      filled == FilledTables(unfilled, mks, daily)
      due == OfTables(Called(mks), unfilled)
      dropped == lost (+) Pending (+) Called(mks \ markers)
  IN  /\ faultCount < MaxFaults
      /\ \A i \in Handled : i <= now
      /\ faultCount' = faultCount + 1
      /\ failed' = failed \union (Range(current) \ {0})
      /\ current' = [s \in Streams |-> 0]
      /\ work' = [s \in Streams |-> << >>]
      /\ markers' = mks
      /\ reindexed' = reindexed \union {x.of : x \in Indexed(now) \ markers}
      /\ counts' = counts (+) filled
      /\ opener' = Opened({c[1] : c \in DOMAIN filled}, "startup")
      /\ lost' = OfTables(dropped, DOMAIN Columns \ unfilled) (+) (due (-) filled)
      /\ surplus' = surplus (+) (filled (-) due)
      /\ UNCHANGED <<log, queue, lifecycle, activity, done, sawJoin>>

-----------------------------------------------------------------------------
(* The initial states: what happened is chosen, and nothing handled yet.    *)

InOrder(events) == \A i, j \in DOMAIN events : i < j => events[i].at <= events[j].at

\* The gateway publishes each event in a task of its own: the entries of a stream
\* come in any order.
Arrivals ==
  LET arrivals == [s \in Streams |-> SetToSeqs({i \in DOMAIN log : StreamOf(log[i].kind) = s})]
  IN  {q \in [Streams -> UNION Range(arrivals)] : \A s \in Streams : q[s] \in arrivals[s]}

\* Startup has filled the tables from the lifecycle rows there are, of members
\* who joined at these times.
InitWith(joined) ==
  /\ log \in {events \in SeqOf(Happenings, MaxEvents) : InOrder(events)}
  /\ queue \in Arrivals
  /\ current = [s \in Streams |-> 0]
  /\ work = [s \in Streams |-> << >>]
  /\ lifecycle = [m \in Members |->
                    [f \in LifecycleColumns |-> IF f = "joined_at" THEN joined[m] ELSE None]]
  /\ activity = {}
  /\ markers = FillAll({})
  /\ reindexed = {}
  /\ counts = FilledTables(DOMAIN Columns, markers, EmptyBag)
  /\ opener = LET stats == Cell("public_stats_cache", Whole, 0, "messages")
              IN  [row \in {c[1] : c \in DOMAIN counts \union {stats}} |->
                     IF row = stats[1] THEN stats[2] ELSE "startup"]
  /\ lost = EmptyBag
  /\ surplus = EmptyBag
  /\ failed = {}
  /\ done = {}
  /\ sawJoin = {}
  /\ faultCount = 0

Init == InitWith([m \in Members |-> None])

Next ==
  \/ \E s \in Streams : Begin(s) \/ FindsClosed(s) \/ Run(s) \/ StatementFails(s)
  \/ \E now \in 0 .. Len(log) : Restart(now)

Spec == Init /\ [][Next]_vars

-----------------------------------------------------------------------------
AllMarkers ==
  LET tables == ByMember \union Milestones \union
                {"guild_daily_active_members", "message_index",
                 "retention_cohort_d7_members", "retention_cohort_d30_members",
                 "channel_retention_d7_members", "channel_retention_d30_members"}
  IN  [table : tables, member : Members, of : {Whole} \union Channels \union DOMAIN log,
       day : Days \union {None}]

\* Every table, counter and history has its shape, and a worker holds an event
\* exactly while its handler has statements left.
TypeOK ==
  /\ log \in Seq(Happenings)
  /\ queue \in [Streams -> Seq(DOMAIN log)]
  /\ current \in [Streams -> DOMAIN log \union {0}]
  /\ \A s \in Streams : Busy(s) <=> work[s] # << >>
  /\ lifecycle \in [Members -> [LifecycleColumns -> Times \union {None}]]
  /\ activity \subseteq Members \X Days
  /\ \A mk \in markers : mk \in AllMarkers
  /\ IsABag(counts) /\ BagToSet(counts) \subseteq Cells
  /\ \A row \in DOMAIN opener : opener[row] \in Columns[row.table] \union {"startup"}
  /\ IsABag(lost) /\ BagToSet(lost) \subseteq Cells
  /\ IsABag(surplus) /\ BagToSet(surplus) \subseteq Cells
  /\ reindexed \subseteq DOMAIN log
  /\ failed \subseteq DOMAIN log /\ done \subseteq DOMAIN log /\ sawJoin \subseteq DOMAIN log
  /\ faultCount \in 0 .. MaxFaults

Marked(c) == Cardinality({mk \in markers : c \in Range(CountedIn(mk))})

\* Counters and markers agree to the last increment, with three workers
\* inserting and counting at once and whatever fails: what is missing from a
\* counter is still to come, was dropped by a handler that failed or by a
\* startup that marked without counting, or is the one increment that created
\* the row and counted nothing; what is too much was counted at startup.
EveryMarkerCounted ==
  LET creating == {<<row, opener[row]>> : row \in DOMAIN opener}
      accounted == counts (+) Pending (+) lost
                   (+) SetToBag({c \in creating : c[2] \notin {"messages", "startup"}})
      due == Called(markers) (+) surplus
  IN  \A c \in BagToSet(accounted) \union BagToSet(due) : Copies(c, accounted) = Copies(c, due)

\* The columns that startup counts from marker tables.
MarkerColumns ==
  {c \in Cells : \/ c[1].table \in {"guild_daily_activity", "channel_retention_daily"}
                 \/ c[1].table \in {"retention_cohorts", "activation_funnel_daily"}
                    /\ c[2] # "joined_members"
                 \/ c[2] \in {"active_members", "left_members"}
                 \/ c[1].table = "guild_summary_daily" /\ c[2] = "joined_members"}

\* A counter table that a restart finds empty leaves it in agreement with the
\* marker tables, those that the same restart fills included, whatever
\* increments of it the handlers that died had not made.
FilledFromMarkers ==
  [][faultCount' # faultCount /\ queue' = queue  \* a restart: nothing is queued again
       => LET unfilled == Unfilled
              marked == Called(markers')
          IN  \A c \in MarkerColumns :
                c[1].table \in unfilled => Copies(c, counts') = Copies(c, marked)]_vars

CohortTables ==
  Milestones \union
  {"guild_onboarded_members", "retention_cohort_d7_members", "retention_cohort_d30_members",
   "channel_retention_d7_members", "channel_retention_d30_members"}

\* A member belongs to one cohort for ever: whatever it does again and however
\* often a handler runs, all that is counted of it is counted on the day of
\* the dated join that was handled first.
OneCohort ==
  \A mk \in markers : mk.table \in CohortTables /\ mk.day # None =>
    Joined(mk.member) # None /\ mk.day = Day(Joined(mk.member))

Took(m, step) == Joined(m) # None /\ lifecycle[m][step] >= Joined(m)

\* A step that was counted still is one by the member's lifecycle row, and a
\* member counted as retained has a day of activity in the week that says so,
\* marked by a handler or at startup.
MarkersJustified ==
  \A mk \in markers :
    /\ mk.table \in Milestones => Took(mk.member, mk.table)
    /\ mk.table = "guild_onboarded_members" =>
         /\ mk.day # None => Joined(mk.member) # None
         /\ lifecycle[mk.member]["first_role_at"] # None
         /\ lifecycle[mk.member]["first_message_at"] # None
    /\ mk.table = "retention_cohort_d7_members" =>
         \E a \in activity : a[1] = mk.member /\ a[2] - mk.day \in 7 .. 13
    /\ mk.table = "retention_cohort_d30_members" =>
         \E a \in activity : a[1] = mk.member /\ a[2] - mk.day \in 30 .. 36

StepOf(kind) ==
  CASE kind \in {"joinWithRole", "roles"} -> "first_role_at"
    [] kind = "message" -> "first_message_at"
    [] kind = "reaction" -> "first_reaction_at"
    [] kind = "voiceJoin" -> "first_voice_at"
    [] OTHER -> "joined_at"

\* A step that a member takes after joining is counted once its event has been
\* handled, if the join had been handled by then; and a message, whose handler
\* stops when it finds it indexed, only if it did not fail and no restart
\* indexed it.
StepsRecorded ==
  \A i \in done \intersect sawJoin :
    LET step == StepOf(log[i].kind)
        m == log[i].member
    IN  step \in Milestones /\ (step = "first_message_at" => i \notin failed \union reindexed) /\ Took(m, step)
          => \E mk \in markers : mk.table = step /\ mk.member = m

Quiet == \A s \in Streams : ~Busy(s) /\ queue[s] = << >>

\* docs/analytics-tracking.md lists "Joined" first in the funnel: when all is
\* handled and nothing has failed, every member who joined is counted as such.
JoinsCounted ==
  Quiet /\ faultCount = 0 =>
    \A d \in Days : LET c == Cell("activation_funnel_daily", Whole, d, "joined_members")
                    IN  Copies(c, counts) = Marked(c)

\* docs/architecture.md wants consumers idempotent and "retries safe": when all
\* is handled, failed handlers again, each message of the index is counted.
RetriesSafe ==
  Quiet /\ failed \subseteq done =>
    \A d \in Days : LET c == Cell("guild_summary_daily", Whole, d, "messages")
                    IN  Copies(c, counts) = Marked(c)
=============================================================================
