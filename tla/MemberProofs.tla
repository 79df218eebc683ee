---------------------------- MODULE MemberProofs ----------------------------
(***************************************************************************)
(* Proofs about MemberAnalytics, for any number of members, channels,      *)
(* happenings and faults.                                                  *)
(***************************************************************************)
EXTENDS MemberAnalytics, FiniteSetTheorems, TLAPS

-----------------------------------------------------------------------------
(* Times, days and cells.                                                   *)

LEMMA EventsAre ==
  ASSUME NEW e \in Happenings
  PROVE  /\ e.kind \in EventKinds /\ e.member \in Members /\ e.channel \in Channels
         /\ e.at \in Times /\ Day(e.at) \in Days
BY AnalyticsAssumption DEF Times, Days

LEMMA TimesAre ==
  \A t \in Times : t \in Nat /\ Day(t) \in Nat /\ Day(t) \in Days
BY AnalyticsAssumption DEF Day, Days, Times, PerDay

LEMMA DaysAre ==
  \A d \in Days : d \in Nat /\ d # None
<1>1. \A d \in Days : \E t \in Times : d = Day(t)
  BY DEF Days
<1> QED
  BY <1>1, TimesAre DEF None

CohortCounters ==
  {"guild_daily_activity", "guild_summary_daily", "retention_cohorts", "activation_funnel_daily"}

LEMMA CounterTablesAre ==
  DOMAIN Columns = CohortCounters \union {"channel_retention_daily", "public_stats_cache"}
BY DEF Columns, CohortCounters

LEMMA ColumnsAre ==
  /\ Columns["guild_daily_activity"] = {"messages"}
  /\ Columns["guild_summary_daily"] =
       {"messages", "active_members", "joined_members", "left_members", "onboarded_members"}
  /\ Columns["retention_cohorts"] =
       {"joined_members", "d7_retained_members", "d30_retained_members"}
  /\ Columns["activation_funnel_daily"] =
       {"joined_members", "returned_next_week_members"} \union Milestones
  /\ Columns["channel_retention_daily"] = {"d7_retained_members", "d30_retained_members"}
  /\ Columns["public_stats_cache"] = {"messages"}
BY DEF Columns

LEMMA CellIs ==
  \A table, of, day, column :
    LET c == Cell(table, of, day, column)
    IN  c[1].table = table /\ c[1].of = of /\ c[1].day = day /\ c[2] = column
BY DEF Cell

LEMMA CellIn ==
  ASSUME NEW row \in Rows, NEW column \in Columns[row.table]
  PROVE  <<row, column>> \in Cells
<1>1. row.table \in DOMAIN Columns
  BY CounterTablesAre DEF Rows, CohortCounters
<1>2. column \in UNION Range(Columns)
  BY <1>1 DEF Range
<1> QED
  BY <1>2 DEF Cells

LEMMA DayCell ==
  ASSUME NEW table \in CohortCounters, NEW day \in Days, NEW column \in Columns[table]
  PROVE  Cell(table, Whole, day, column) \in Cells
<1> DEFINE row == [table |-> table, of |-> Whole, day |-> day]
<1>1. row \in Rows /\ row.table = table
  BY DEF Rows, CohortCounters
<1> QED
  BY <1>1, CellIn DEF Cell

LEMMA ChannelCell ==
  ASSUME NEW c \in Channels, NEW day \in Days, NEW column \in {"d7_retained_members",
           "d30_retained_members"}
  PROVE  Cell("channel_retention_daily", c, day, column) \in Cells
<1> DEFINE row == [table |-> "channel_retention_daily", of |-> c, day |-> day]
<1>1. row \in Rows /\ row.table = "channel_retention_daily"
  BY DEF Rows
<1> QED
  BY <1>1, CellIn, ColumnsAre DEF Cell

LEMMA StatsCell ==
  Cell("public_stats_cache", Whole, 0, "messages") \in Cells
<1> DEFINE row == [table |-> "public_stats_cache", of |-> Whole, day |-> 0]
<1>1. row \in Rows /\ row.table = "public_stats_cache"
  BY DEF Rows
<1> QED
  BY <1>1, CellIn, ColumnsAre DEF Cell

LEMMA CellsAre ==
  ASSUME NEW c \in Cells
  PROVE  /\ c = <<c[1], c[2]>> /\ c[1] \in Rows /\ c[2] \in Columns[c[1].table]
         /\ c[1].table \in DOMAIN Columns
         /\ c[1] = [table |-> c[1].table, of |-> c[1].of, day |-> c[1].day]
         /\ c[1].table \in CohortCounters => c[1].of = Whole /\ c[1].day \in Days
         /\ c = Cell(c[1].table, c[1].of, c[1].day, c[2])
BY CounterTablesAre DEF Cells, Rows, CohortCounters, Cell

-----------------------------------------------------------------------------
(* Markers and the increments that follow them.                             *)

MarkerNames ==
  FirstFilled \union FilledFromThose \union {"message_index"}

\* What a marker of the table refers to, and what its day tells.
Fits(mk, events) ==
  /\ mk.table \in FilledFromThose => mk.of \in Channels
  /\ mk.table = "message_index" =>
       mk.of \in DOMAIN events /\ mk.member = events[mk.of].member /\ mk.day = Day(events[mk.of].at)
  /\ mk.day = None => mk.table = "guild_onboarded_members"

MarkersOf(events) ==
  {mk \in [table : MarkerNames, member : Members, of : {Whole} \union Channels \union DOMAIN events,
           day : Days \union {None}] : Fits(mk, events)}

LEMMA MarkersAre ==
  MarkersOf(log) \subseteq AllMarkers
BY DEF MarkersOf, AllMarkers, MarkerNames, FirstFilled, FilledFromThose

LEMMA MarkerIn ==
  ASSUME NEW events, NEW table \in MarkerNames \ (FilledFromThose \union {"message_index"}),
         NEW m \in Members, NEW d \in Days
  PROVE  Marker(table, m, Whole, d) \in MarkersOf(events)
BY DaysAre DEF MarkersOf, Fits, Marker

LEMMA ChannelMarkerIn ==
  ASSUME NEW events, NEW table \in FilledFromThose, NEW m \in Members, NEW c \in Channels,
           NEW d \in Days
  PROVE  Marker(table, m, c, d) \in MarkersOf(events)
BY DaysAre DEF MarkersOf, Fits, Marker, MarkerNames, FilledFromThose

LEMMA IndexMarkerIn ==
  ASSUME NEW events \in Seq(Happenings), NEW i \in DOMAIN events
  PROVE  Marker("message_index", events[i].member, i, Day(events[i].at)) \in MarkersOf(events)
<1>1. events[i].member \in Members /\ Day(events[i].at) \in Days
  BY EventsAre
<1> QED
  BY <1>1, DaysAre DEF MarkersOf, Fits, Marker, MarkerNames, FilledFromThose

\* Which increments follow a marker: none without a day, else its table's.
LEMMA CountedInCells ==
  ASSUME NEW events, NEW mk \in MarkersOf(events)
  PROVE  CountedIn(mk) \in Seq(Cells)
<1>1. /\ mk.table \in MarkerNames /\ mk.day \in Days \union {None}
      /\ mk.table \in FilledFromThose => mk.of \in Channels
  BY DEF MarkersOf, Fits
<1>2. CASE mk.day = None
  BY <1>2 DEF CountedIn
<1>3. CASE mk.day # None
  <2> DEFINE day(t, c) == Cell(t, Whole, mk.day, c)
  <2>1. mk.day \in Days
    BY <1>1, <1>3
  <2>2. \A t \in CohortCounters : \A c \in Columns[t] : day(t, c) \in Cells
    BY <2>1, DayCell
  <2>3. /\ day("guild_summary_daily", "joined_members") \in Cells
        /\ day("guild_summary_daily", "left_members") \in Cells
        /\ day("guild_summary_daily", "onboarded_members") \in Cells
        /\ day("guild_summary_daily", "active_members") \in Cells
        /\ day("guild_summary_daily", "messages") \in Cells
        /\ day("guild_daily_activity", "messages") \in Cells
    BY <2>2, ColumnsAre DEF CohortCounters
  <2>4. /\ day("retention_cohorts", "joined_members") \in Cells
        /\ day("retention_cohorts", "d7_retained_members") \in Cells
        /\ day("retention_cohorts", "d30_retained_members") \in Cells
        /\ day("activation_funnel_daily", "joined_members") \in Cells
        /\ day("activation_funnel_daily", "returned_next_week_members") \in Cells
        /\ \A step \in Milestones : day("activation_funnel_daily", step) \in Cells
    BY <2>2, ColumnsAre DEF CohortCounters
  <2>5. mk.table \in FilledFromThose =>
          /\ Cell("channel_retention_daily", mk.of, mk.day, "d7_retained_members") \in Cells
          /\ Cell("channel_retention_daily", mk.of, mk.day, "d30_retained_members") \in Cells
    BY <1>1, <2>1, ChannelCell
  <2>6. CASE mk.table = "guild_joined_members"
    BY <1>3, <2>3, <2>4, <2>6 DEF CountedIn, Milestones
  <2>7. CASE mk.table = "guild_left_members"
    BY <1>3, <2>3, <2>7 DEF CountedIn, Milestones
  <2>8. CASE mk.table = "guild_onboarded_members"
    BY <1>3, <2>3, <2>8 DEF CountedIn, Milestones
  <2>9. CASE mk.table = "guild_daily_active_members"
    BY <1>3, <2>3, <2>9 DEF CountedIn, Milestones
  <2>10. CASE mk.table = "retention_cohort_d7_members"
    BY <1>3, <2>4, <2>10 DEF CountedIn, Milestones
  <2>11. CASE mk.table = "retention_cohort_d30_members"
    BY <1>3, <2>4, <2>11 DEF CountedIn, Milestones
  <2>12. CASE mk.table = "channel_retention_d7_members"
    BY <1>3, <2>5, <2>12 DEF CountedIn, Milestones, FilledFromThose
  <2>13. CASE mk.table = "channel_retention_d30_members"
    BY <1>3, <2>5, <2>13 DEF CountedIn, Milestones, FilledFromThose
  <2>14. CASE mk.table = "message_index"
    BY <1>3, <2>3, <2>14, StatsCell DEF CountedIn, Milestones
  <2>15. CASE mk.table \in Milestones
    BY <1>3, <2>4, <2>15 DEF CountedIn, Milestones
  <2> QED
    BY <1>1, <2>6, <2>7, <2>8, <2>9, <2>10, <2>11, <2>12, <2>13, <2>14, <2>15
    DEF MarkerNames, FirstFilled, FilledFromThose, ByMember
<1> QED BY <1>2, <1>3

-----------------------------------------------------------------------------
(* The statements of a handler of an event of member m.                     *)

Steps == Milestones \union {"guild_onboarded_members"}

StatementsOf(m, events) ==
  {Upsert(fields) : fields \in SUBSET LifecycleColumns}
  \union {Mark(mk) : mk \in {x \in MarkersOf(events) : x.member = m}}
  \union {Milestone(step) : step \in Steps}
  \union {Count(c) : c \in Cells}
  \union {Do("activity", d) : d \in Days}
  \union {Do("retention", d) : d \in Days}
  \union {Do("contribution", table) : table \in FilledFromThose}

LEMMA StatementIn ==
  ASSUME NEW m, NEW events
  PROVE  /\ \A fields \in SUBSET LifecycleColumns : Upsert(fields) \in StatementsOf(m, events)
         /\ \A mk \in MarkersOf(events) : mk.member = m => Mark(mk) \in StatementsOf(m, events)
         /\ \A step \in Steps : Milestone(step) \in StatementsOf(m, events)
         /\ \A c \in Cells : Count(c) \in StatementsOf(m, events)
         /\ \A d \in Days : Do("activity", d) \in StatementsOf(m, events)
         /\ \A d \in Days : Do("retention", d) \in StatementsOf(m, events)
         /\ \A table \in FilledFromThose : Do("contribution", table) \in StatementsOf(m, events)
BY DEF StatementsOf

LEMMA StatementsAre ==
  ASSUME NEW m, NEW events, NEW st \in StatementsOf(m, events)
  PROVE  /\ st = Do(st.op, st.arg)
         /\ st.op \in {"upsert", "mark", "milestone", "count", "activity", "retention",
              "contribution"}
         /\ st.op = "upsert" => st.arg \in SUBSET LifecycleColumns
         /\ st.op = "mark" => st.arg \in MarkersOf(events) /\ st.arg.member = m
         /\ st.op = "milestone" => st.arg \in Steps
         /\ st.op = "count" => st.arg \in Cells
         /\ st.op \in {"activity", "retention"} => st.arg \in Days
         /\ st.op = "contribution" => st.arg \in FilledFromThose
BY DEF StatementsOf, Do, Upsert, Mark, Milestone, Count

\* A member marked in a cohort, or looked at as one retained, has joined.
Founded(st, joined) ==
  /\ st.op = "contribution" => joined # None
  /\ st.op = "mark" /\ st.arg.table \in CohortTables => joined # None /\ st.arg.day = Day(joined)

Due(m, events, joined) == {st \in StatementsOf(m, events) : Founded(st, joined)}

LEMMA DueIn ==
  ASSUME NEW m, NEW events, NEW joined
  PROVE  /\ \A fields \in SUBSET LifecycleColumns : Upsert(fields) \in Due(m, events, joined)
         /\ \A mk \in MarkersOf(events) :
              mk.member = m /\ (mk.table \in CohortTables => joined # None /\ mk.day = Day(joined))
                => Mark(mk) \in Due(m, events, joined)
         /\ \A step \in Steps : Milestone(step) \in Due(m, events, joined)
         /\ \A c \in Cells : Count(c) \in Due(m, events, joined)
         /\ \A d \in Days : Do("activity", d) \in Due(m, events, joined)
         /\ \A d \in Days : Do("retention", d) \in Due(m, events, joined)
         /\ \A table \in FilledFromThose :
              joined # None => Do("contribution", table) \in Due(m, events, joined)
BY StatementIn DEF Due, Founded, Do, Upsert, Mark, Milestone, Count

LEMMA DueAre ==
  ASSUME NEW m, NEW events, NEW joined, NEW st \in Due(m, events, joined)
  PROVE  st \in StatementsOf(m, events) /\ Founded(st, joined)
BY DEF Due

LEMMA DueLater ==
  ASSUME NEW m, NEW events, NEW joined, NEW later, later = joined \/ joined = None,
         NEW statements \in Seq(Due(m, events, joined))
  PROVE  statements \in Seq(Due(m, events, later))
<1>1. Due(m, events, joined) \subseteq Due(m, events, later)
  BY DEF Due, Founded
<1> HIDE DEF Due
<1> QED BY <1>1

LEMMA MarkIs ==
  \A table, m, of, d :
    LET mk == Marker(table, m, of, d)
    IN  mk.table = table /\ mk.member = m /\ mk.of = of /\ mk.day = d
BY DEF Marker

HandlerKinds == EventKinds \ {"missedMessage"}

LEMMA StreamsAre ==
  \A kind \in EventKinds : StreamOf(kind) \in Streams <=> kind \in HandlerKinds
BY DEF StreamOf, EventKinds, HandlerKinds, Streams

LEMMA HandlerIn ==
  ASSUME NEW i \in DOMAIN log, log \in Seq(Happenings), StreamOf(log[i].kind) \in Streams,
           NEW joined
  PROVE  Handler(i) \in Seq(Due(log[i].member, log, joined)) /\ Handler(i) # << >>
<1> DEFINE e == log[i]
           S == Due(e.member, log, joined)
           mk(table) == Marker(table, e.member, Whole, Day(e.at))
<1>1. e \in Happenings
  OBVIOUS
<1>2. e.kind \in HandlerKinds /\ e.member \in Members /\ Day(e.at) \in Days
  BY <1>1, EventsAre, StreamsAre
<1>3. \A table \in FirstFilled \ CohortTables : Mark(mk(table)) \in S
  <2> TAKE table \in FirstFilled \ CohortTables
  <2>1. table \in MarkerNames \ (FilledFromThose \union {"message_index"})
    BY DEF MarkerNames, FirstFilled, FilledFromThose, ByMember, Milestones
  <2>2. mk(table) \in MarkersOf(log) /\ mk(table).member = e.member
          /\ mk(table).table \notin CohortTables
    BY <1>2, <2>1, MarkerIn, MarkIs
  <2> QED BY <2>2, DueIn
<1>4. /\ Mark(mk("guild_joined_members")) \in S
      /\ Mark(mk("guild_left_members")) \in S
      /\ Mark(mk("guild_daily_active_members")) \in S
  BY <1>3 DEF FirstFilled, ByMember, CohortTables, Milestones
<1>5. Mark(Marker("message_index", e.member, i, Day(e.at))) \in S
  <2> DEFINE x == Marker("message_index", e.member, i, Day(e.at))
  <2>1. x \in MarkersOf(log) /\ x.member = e.member /\ x.table \notin CohortTables
    BY IndexMarkerIn, MarkIs DEF CohortTables, Milestones
  <2> HIDE DEF x
  <2>2. Mark(x) \in S
    BY <2>1, DueIn
  <2> QED BY <2>2 DEF x
<1>6. \A fields \in SUBSET LifecycleColumns : Upsert(fields) \in S
  BY DueIn
<1>7. /\ Upsert({}) \in S /\ Upsert({"joined_at"}) \in S
           /\ Upsert({"joined_at", "first_role_at"}) \in S
      /\ Upsert({"left_at"}) \in S /\ Upsert({"first_role_at"}) \in S
      /\ Upsert({"first_reaction_at"}) \in S /\ Upsert({"first_voice_at"}) \in S
  BY <1>6 DEF LifecycleColumns, Milestones
<1>8. /\ Milestone("first_role_at") \in S /\ Milestone("guild_onboarded_members") \in S
      /\ Milestone("first_reaction_at") \in S /\ Milestone("first_voice_at") \in S
  BY DueIn DEF Steps, Milestones
<1>9. Do("activity", Day(e.at)) \in S
  BY <1>2, DueIn
<1> SUFFICES Handler(i) \in Seq(S) /\ Handler(i) # << >>
  OBVIOUS
<1> HIDE DEF S
<1>10. CASE e.kind = "join"
  BY <1>4, <1>7, <1>10 DEF Handler
<1>11. CASE e.kind = "joinWithRole"
  BY <1>4, <1>7, <1>8, <1>11 DEF Handler
<1>12. CASE e.kind = "joinUndated"
  BY <1>7, <1>12 DEF Handler
<1>13. CASE e.kind = "leave"
  BY <1>4, <1>7, <1>13 DEF Handler
<1>14. CASE e.kind = "roles"
  BY <1>7, <1>8, <1>14 DEF Handler
<1>15. CASE e.kind = "rolesCleared"
  BY <1>7, <1>8, <1>15 DEF Handler
<1>16. CASE e.kind \in {"message", "botMessage"}
  BY <1>5, <1>16 DEF Handler
<1>17. CASE e.kind = "reaction"
  BY <1>4, <1>7, <1>8, <1>9, <1>17 DEF Handler
<1>18. CASE e.kind = "voiceJoin"
  BY <1>7, <1>8, <1>18 DEF Handler
<1>19. CASE e.kind = "voiceLeave"
  BY <1>4, <1>9, <1>19 DEF Handler
<1> QED
  BY <1>2, <1>10, <1>11, <1>12, <1>13, <1>14, <1>15, <1>16, <1>17, <1>18, <1>19
  DEF HandlerKinds, EventKinds

LEMMA MessageStepsIn ==
  ASSUME NEW e \in Happenings, NEW events, NEW joined
  PROVE  MessageSteps(e) \in Seq(Due(e.member, events, joined))
<1> DEFINE S == Due(e.member, events, joined)
           mk == Marker("guild_daily_active_members", e.member, Whole, Day(e.at))
<1>1. e.member \in Members /\ Day(e.at) \in Days
  BY EventsAre
<1>2. mk \in MarkersOf(events) /\ mk.member = e.member /\ mk.table \notin CohortTables
  <2>1. "guild_daily_active_members" \in MarkerNames \ (FilledFromThose \union {"message_index"})
    BY DEF MarkerNames, FirstFilled, FilledFromThose
  <2>2. "guild_daily_active_members" \notin CohortTables
    BY DEF CohortTables, Milestones
  <2> QED BY <1>1, <2>1, <2>2, MarkerIn, MarkIs
<1>3. Mark(mk) \in S
  BY <1>2, DueIn
<1>4. Upsert({"first_message_at"}) \in S
  BY DueIn DEF LifecycleColumns, Milestones
<1>5. Milestone("first_message_at") \in S /\ Milestone("guild_onboarded_members") \in S
  BY DueIn DEF Steps, Milestones
<1>6. Do("activity", Day(e.at)) \in S
  BY <1>1, DueIn
<1> HIDE DEF S
<1>7. MessageSteps(e) \in Seq(S)
  BY <1>3, <1>4, <1>5, <1>6 DEF MessageSteps
<1> QED BY <1>7 DEF S

LEMMA FollowUpsIn ==
  ASSUME NEW e \in Happenings, NEW events, NEW mk \in MarkersOf(events), NEW joined,
         mk.table \in {"retention_cohort_d7_members", "retention_cohort_d30_members"}
           => joined # None
  PROVE  FollowUps(mk, e) \in Seq(Due(e.member, events, joined))
<1> DEFINE S == Due(e.member, events, joined)
           counts0 == [j \in DOMAIN CountedIn(mk) |-> Count(CountedIn(mk)[j])]
<1>1. CountedIn(mk) \in Seq(Cells)
  BY CountedInCells
<1>2. \A c \in Cells : Count(c) \in S
  BY DueIn
<1>3. counts0 \in Seq(S)
  BY <1>1, <1>2
<1>4. MessageSteps(e) \in Seq(S)
  BY MessageStepsIn
<1>5. mk.table = "guild_daily_active_members" => <<Do("retention", mk.day)>> \in Seq(S)
  <2> SUFFICES ASSUME mk.table = "guild_daily_active_members" PROVE Do("retention", mk.day) \in S
    OBVIOUS
  <2>1. mk.day \in Days
    BY DEF MarkersOf, Fits
  <2> QED BY <2>1, DueIn
<1>6. joined # None => /\ <<Do("contribution", "channel_retention_d7_members")>> \in Seq(S)
                       /\ <<Do("contribution", "channel_retention_d30_members")>> \in Seq(S)
  BY DueIn DEF FilledFromThose
<1> HIDE DEF S, counts0
<1>7. FollowUps(mk, e) \in Seq(S)
  BY <1>3, <1>4, <1>5, <1>6 DEF FollowUps, counts0
<1> QED BY <1>7 DEF S

-----------------------------------------------------------------------------
(* Bags of cells.                                                           *)

BagOf(S, B) == IsABag(B) /\ DOMAIN B \subseteq S

LEMMA EmptyBagOf ==
  ASSUME NEW S
  PROVE  BagOf(S, EmptyBag)
BY DEF BagOf, EmptyBag, SetToBag, IsABag

LEMMA AddedBag ==
  ASSUME NEW S, NEW A, NEW B, BagOf(S, A), BagOf(S, B)
  PROVE  BagOf(S, A (+) B)
BY DEF (+), IsABag, BagOf

LEMMA AddedCopies ==
  ASSUME NEW S, NEW A, NEW B, BagOf(S, A), BagOf(S, B), NEW c
  PROVE  Copies(c, A (+) B) = Copies(c, A) + Copies(c, B)
BY DEF (+), IsABag, BagOf, Copies

LEMMA SubtractedBag ==
  ASSUME NEW S, NEW A, NEW B, BagOf(S, A), BagOf(S, B)
  PROVE  BagOf(S, A (-) B)
BY DEF (-), IsABag, BagOf, Copies

LEMMA SubtractedCopies ==
  ASSUME NEW S, NEW A, NEW B, BagOf(S, A), BagOf(S, B), NEW c
  PROVE  Copies(c, A (-) B) = IF Copies(c, A) > Copies(c, B) THEN Copies(c, A) - Copies(c, B) ELSE 0
BY DEF (-), IsABag, BagOf, Copies

LEMMA OneBag ==
  ASSUME NEW S, NEW cell \in S
  PROVE  /\ BagOf(S, SetToBag({cell}))
         /\ \A c : Copies(c, SetToBag({cell})) = IF c = cell THEN 1 ELSE 0
BY DEF SetToBag, IsABag, BagOf, Copies

LEMMA CopiesAre ==
  ASSUME NEW S, NEW B, BagOf(S, B)
  PROVE  \A c : Copies(c, B) \in Nat /\ (Copies(c, B) > 0 <=> c \in DOMAIN B)
BY DEF IsABag, BagOf, Copies

LEMMA PositionsFinite ==
  ASSUME NEW S, NEW statements \in Seq(S), NEW I \in SUBSET DOMAIN statements
  PROVE  IsFiniteSet(I) /\ Cardinality(I) \in Nat /\ (I # {} => Cardinality(I) > 0)
<1>1. DOMAIN statements = 1 .. Len(statements) /\ Len(statements) \in Nat
  OBVIOUS
<1>2. IsFiniteSet(1 .. Len(statements))
  BY <1>1, FS_Interval
<1>3. IsFiniteSet(I)
  BY <1>1, <1>2, FS_Subset
<1> QED
  BY <1>3, FS_CardinalityType, FS_EmptySet

\* Where among the statements cell c is incremented.
Counting(c, statements) == {j \in DOMAIN statements : statements[j].op = "count"
  /\ statements[j].arg = c}

LEMMA IncrementsBag ==
  ASSUME NEW m, NEW events, NEW joined, NEW statements \in Seq(Due(m, events, joined))
  PROVE  /\ BagOf(Cells, Increments(statements))
         /\ \A c : Copies(c, Increments(statements)) = Cardinality(Counting(c, statements))
<1> DEFINE at == {j \in DOMAIN statements : statements[j].op = "count"}
           of(c) == {j \in at : statements[j].arg = c}
           B == [c \in {statements[j].arg : j \in at} |-> Cardinality(of(c))]
<1>1. B = Increments(statements)
  BY DEF Increments
<1>2. \A c : of(c) = Counting(c, statements) /\ of(c) \in SUBSET DOMAIN statements
  BY DEF Counting
<1>3. \A c : Cardinality(of(c)) \in Nat /\ (of(c) # {} => Cardinality(of(c)) > 0)
  <2> TAKE c
  <2>1. of(c) \in SUBSET DOMAIN statements
    BY <1>2
  <2> HIDE DEF of
  <2> QED BY <2>1, PositionsFinite
<1>4. \A c : c \in DOMAIN B => c \in Cells /\ of(c) # {}
  BY StatementsAre, DueAre
<1>5. \A c : c \notin DOMAIN B => of(c) = {}
  OBVIOUS
<1>6. DOMAIN B \subseteq Cells /\ B = [c \in DOMAIN B |-> Cardinality(of(c))]
  BY <1>4
<1> HIDE DEF B, of
<1>7. BagOf(Cells, B)
  BY <1>3, <1>4, <1>6 DEF BagOf, IsABag
<1>8. \A c : Copies(c, B) = Cardinality(of(c))
  BY <1>5, <1>6, FS_EmptySet DEF Copies
<1> QED
  BY <1>1, <1>2, <1>7, <1>8

-----------------------------------------------------------------------------
(* Types.                                                                   *)

QueuesOK ==
  /\ queue \in [Streams -> Seq(DOMAIN log)]
  /\ \A s \in Streams : \A k \in DOMAIN queue[s] : StreamOf(log[queue[s][k]].kind) = s

\* The statements that may be left to the handler at work on stream s.
Ahead(s) == Due(Event(s).member, log, Joined(Event(s).member))

WorkersOK ==
  /\ current \in [Streams -> DOMAIN log \union {0}]
  /\ \A s \in Streams : Busy(s) => StreamOf(Event(s).kind) = s
  /\ DOMAIN work = Streams
  /\ \A s \in Streams :
       IF Busy(s) THEN work[s] \in Seq(Ahead(s)) \ {<< >>} ELSE work[s] = << >>

MemberTablesOK ==
  /\ lifecycle \in [Members -> [LifecycleColumns -> Times \union {None}]]
  /\ activity \subseteq Members \X Days
  /\ markers \subseteq MarkersOf(log)

CountersOK ==
  /\ BagOf(Cells, counts)
  /\ DOMAIN opener \subseteq Rows
  /\ \A row \in DOMAIN opener : opener[row] \in Columns[row.table] \union {"startup"}

HistoryOK ==
  /\ BagOf(Cells, lost) /\ BagOf(Cells, surplus)
  /\ reindexed \subseteq DOMAIN log
  /\ failed \subseteq DOMAIN log /\ done \subseteq DOMAIN log /\ sawJoin \subseteq DOMAIN log
  /\ faultCount \in 0 .. MaxFaults

\* TypeOK, with the statements that may stand in a handler and what the rows
\* of each marker table refer to.
TypeInv ==
  /\ log \in Seq(Happenings)
  /\ QueuesOK /\ WorkersOK /\ MemberTablesOK /\ CountersOK /\ HistoryOK

LEMMA TypesImplied ==
  TypeInv => TypeOK
<1> SUFFICES ASSUME TypeInv PROVE TypeOK
  OBVIOUS
<1>1. \A s \in Streams : Busy(s) <=> work[s] # << >>
  BY DEF TypeInv, WorkersOK
<1>2. \A mk \in markers : mk \in AllMarkers
  BY MarkersAre DEF TypeInv, MemberTablesOK
<1> QED
  BY <1>1, <1>2
  DEF TypeInv, QueuesOK, WorkersOK, MemberTablesOK, CountersOK, HistoryOK, TypeOK, BagOf, BagToSet

\* An event at work and its statements.
LEMMA AtWork ==
  ASSUME TypeInv, NEW s \in Streams, Busy(s)
  PROVE  /\ current[s] \in DOMAIN log /\ current[s] \in Nat \ {0}
         /\ Event(s) \in Happenings /\ Event(s).kind \in HandlerKinds /\ Event(s).member \in Members
         /\ work[s] \in Seq(Ahead(s)) /\ work[s] # << >>
         /\ Next1(s) \in Ahead(s)
         /\ Tail(work[s]) \in Seq(Ahead(s))
<1>1. current[s] \in DOMAIN log /\ log \in Seq(Happenings)
  BY DEF TypeInv, WorkersOK, Busy
<1>2. Event(s) \in Happenings
  BY <1>1 DEF Event
<1>3. StreamOf(Event(s).kind) = s
  BY DEF TypeInv, WorkersOK
<1>4. work[s] \in Seq(Ahead(s)) /\ work[s] # << >>
  BY DEF TypeInv, WorkersOK
<1>5. current[s] \in Nat \ {0}
  BY <1>1
<1> HIDE DEF Event
<1> DEFINE S == Ahead(s)
<1> HIDE DEF S
<1>6. work[s] \in Seq(S) /\ work[s] # << >>
  BY <1>4 DEF S
<1>7. Head(work[s]) \in S /\ Tail(work[s]) \in Seq(S)
  BY <1>6
<1> QED
  BY <1>1, <1>2, <1>3, <1>4, <1>5, <1>7, EventsAre, StreamsAre DEF Next1, S

\* Who has joined has joined for good.
JoinedKept == \A m \in Members : Joined(m)' = Joined(m) \/ Joined(m) = None

LEMMA AheadKept ==
  ASSUME TypeInv, JoinedKept, log' = log, NEW s \in Streams, Busy(s), current'[s] = current[s],
         NEW statements \in Seq(Ahead(s))
  PROVE  statements \in Seq(Ahead(s))'
<1>1. Event(s)' = Event(s) /\ Event(s).member \in Members
  BY AtWork DEF Event
<1>2. Joined(Event(s).member)' = Joined(Event(s).member) \/ Joined(Event(s).member) = None
  BY <1>1 DEF JoinedKept
<1> DEFINE m == Event(s).member
           old == Joined(m)
           new == Joined(m)'
<1>3. Ahead(s) = Due(m, log, old) /\ Ahead(s)' = Due(m, log, new)
  BY <1>1 DEF Ahead
<1> HIDE DEF m, old, new
<1>4. statements \in Seq(Due(m, log, new))
  BY <1>2, <1>3, DueLater DEF m, old, new
<1> QED BY <1>3, <1>4

LEMMA WorkersKept ==
  ASSUME TypeInv, JoinedKept, log' = log, NEW s \in Streams, NEW rest,
         current' = [current EXCEPT ![s] = current'[s]], work' = [work EXCEPT ![s] = rest],
         current'[s] \in DOMAIN log \union {0},
         ~Busy(s)' => rest = << >>,
         Busy(s)' => StreamOf(Event(s).kind)' = s /\ rest \in Seq(Ahead(s))' \ {<< >>}
  PROVE  WorkersOK'
<1>1. /\ current \in [Streams -> DOMAIN log \union {0}] /\ DOMAIN work = Streams
      /\ \A t \in Streams : Busy(t) => StreamOf(Event(t).kind) = t
      /\ \A t \in Streams : IF Busy(t) THEN work[t] \in Seq(Ahead(t)) \ {<< >>} ELSE work[t] = << >>
  BY DEF TypeInv, WorkersOK
<1>2. current' \in [Streams -> DOMAIN log' \union {0}] /\ DOMAIN work' = Streams
  BY <1>1
<1>3. \A t \in Streams : t # s => current'[t] = current[t] /\ work'[t] = work[t]
  BY <1>1
<1>4. work'[s] = rest
  BY <1>1
<1>5. ASSUME NEW t \in Streams, Busy(t)'
      PROVE  StreamOf(Event(t).kind)' = t /\ work'[t] \in Seq(Ahead(t))' \ {<< >>}
  <2>1. CASE t = s
    BY <1>4, <1>5, <2>1
  <2>2. CASE t # s
    <3>1. current'[t] = current[t] /\ Busy(t) /\ Event(t)' = Event(t)
      BY <1>3, <1>5, <2>2 DEF Busy, Event
    <3>2. \A statements \in Seq(Ahead(t)) : statements \in Seq(Ahead(t))'
      BY <3>1, AheadKept
    <3>3. work'[t] \in Seq(Ahead(t)) /\ work'[t] # << >>
      BY <1>1, <1>3, <2>2, <3>1
    <3> QED
      BY <1>1, <3>1, <3>2, <3>3
  <2> QED BY <2>1, <2>2
<1>6. ASSUME NEW t \in Streams, ~Busy(t)'
      PROVE  work'[t] = << >>
  BY <1>1, <1>3, <1>4, <1>6 DEF Busy
<1> QED
  BY <1>2, <1>5, <1>6 DEF WorkersOK

LEMMA Leaves ==
  ASSUME TypeInv, JoinedKept, log' = log, NEW s \in Streams,
         current' = [current EXCEPT ![s] = 0], work' = [work EXCEPT ![s] = << >>]
  PROVE  WorkersOK'
<1>1. current'[s] = 0
  BY DEF TypeInv, WorkersOK
<1> QED
  BY <1>1, WorkersKept DEF Busy

LEMMA GoesOn ==
  ASSUME TypeInv, JoinedKept, log' = log, NEW s \in Streams, Busy(s),
         NEW rest \in Seq(Ahead(s)), rest # << >>, current' = current, work' = [work EXCEPT ![s]
           = rest]
  PROVE  WorkersOK'
<1>1. current' = [current EXCEPT ![s] = current'[s]] /\ current'[s] \in DOMAIN log \union {0}
  BY DEF TypeInv, WorkersOK
<1>2. Busy(s)' /\ Event(s)' = Event(s) /\ current'[s] = current[s]
  BY DEF Busy, Event
<1>3. rest \in Seq(Ahead(s))'
  BY <1>2, AheadKept
<1>4. StreamOf(Event(s).kind)' = s
  BY <1>2 DEF TypeInv, WorkersOK
<1> QED
  BY <1>1, <1>2, <1>3, <1>4, WorkersKept

LEMMA FailTypes ==
  ASSUME TypeInv, NEW s \in Streams, Busy(s),
         NEW rest \in Seq(Ahead(s)), Fail(s, rest), JoinedKept
  PROVE  /\ log' = log /\ QueuesOK' /\ WorkersOK' /\ BagOf(Cells, lost)' /\ BagOf(Cells, surplus)'
         /\ failed' \subseteq DOMAIN log /\ done' \subseteq DOMAIN log
              /\ faultCount' \in 0 .. MaxFaults
<1>1. current[s] \in DOMAIN log /\ current[s] # 0
  BY AtWork
<1>2. log' = log /\ failed' = failed \union {current[s]} /\ done' = done /\ surplus' = surplus
  BY DEF Fail
<1>3. BagOf(Cells, lost)'
  BY IncrementsBag, AddedBag DEF TypeInv, HistoryOK, Fail, Ahead
<1>4. QueuesOK'
  <2> DEFINE q == Append(queue[s], current[s])
  <2>1. queue[s] \in Seq(DOMAIN log) /\ \A k \in DOMAIN queue[s]
          : StreamOf(log[queue[s][k]].kind) = s
    BY DEF TypeInv, QueuesOK
  <2>2. /\ q \in Seq(DOMAIN log)
        /\ \A k \in DOMAIN q : (k \in DOMAIN queue[s] /\ q[k] = queue[s][k]) \/ q[k] = current[s]
    BY <1>1, <2>1
  <2>3. StreamOf(log[current[s]].kind) = s
    BY DEF TypeInv, WorkersOK, Event
  <2>4. \A k \in DOMAIN q : StreamOf(log[q[k]].kind) = s
    BY <2>1, <2>2, <2>3
  <2>5. queue' = [queue EXCEPT ![s] = q]
    BY DEF Fail
  <2> HIDE DEF q
  <2> QED
    BY <1>2, <2>2, <2>4, <2>5 DEF TypeInv, QueuesOK
<1>5. WorkersOK'
  <2>1. current' = [current EXCEPT ![s] = 0] /\ work' = [work EXCEPT ![s] = << >>]
    BY DEF Fail
  <2> QED
    BY <1>2, <2>1, Leaves
<1>6. faultCount' \in 0 .. MaxFaults
  BY AnalyticsAssumption DEF TypeInv, HistoryOK, Fail
<1> QED
  BY <1>1, <1>2, <1>3, <1>4, <1>5, <1>6 DEF TypeInv, HistoryOK

LEMMA ProceedTypes ==
  ASSUME TypeInv, NEW s \in Streams, Busy(s),
         NEW rest \in Seq(Ahead(s)), Proceed(s, rest), JoinedKept
  PROVE  /\ log' = log /\ QueuesOK' /\ WorkersOK' /\ BagOf(Cells, lost)' /\ BagOf(Cells, surplus)'
         /\ failed' \subseteq DOMAIN log /\ done' \subseteq DOMAIN log
              /\ faultCount' \in 0 .. MaxFaults
<1>0. current[s] \in DOMAIN log
  BY AtWork
<1>1. CASE Fail(s, rest)
  BY <1>1, FailTypes
<1>2. CASE ~Fail(s, rest)
  <2>1. UNCHANGED <<log, queue, lost, surplus, failed, faultCount>>
          /\ done' \subseteq done \union {current[s]}
    BY <1>2 DEF Proceed
  <2>2. QueuesOK'
    BY <2>1 DEF TypeInv, QueuesOK
  <2>3. WorkersOK'
    <3>1. CASE rest # << >>
      <4>1. work' = [work EXCEPT ![s] = rest] /\ current' = current
        BY <1>2, <3>1 DEF Proceed
      <4> QED
        BY <2>1, <3>1, <4>1, GoesOn
    <3>2. CASE rest = << >>
      <4>1. work' = [work EXCEPT ![s] = << >>] /\ current' = [current EXCEPT ![s] = 0]
        BY <1>2, <3>2 DEF Proceed
      <4> QED
        BY <2>1, <4>1, Leaves
    <3> QED BY <3>1, <3>2
  <2> QED
    BY <1>0, <2>1, <2>2, <2>3 DEF TypeInv, HistoryOK, BagOf
<1> QED BY <1>1, <1>2

LEMMA SameRows ==
  ASSUME lifecycle' = lifecycle
  PROVE  JoinedKept
BY DEF JoinedKept, Joined

LEMMA BeginTypes ==
  ASSUME TypeInv, NEW s \in Streams, Begin(s)
  PROVE  TypeInv'
<1> DEFINE i == Head(queue[s])
<1>1. /\ queue[s] \in Seq(DOMAIN log) /\ queue[s] # << >>
      /\ \A k \in DOMAIN queue[s] : StreamOf(log[queue[s][k]].kind) = s
  BY DEF TypeInv, QueuesOK, Begin
<1>2. i \in DOMAIN log /\ StreamOf(log[i].kind) = s
  BY <1>1
<1>3. log' = log /\ log \in Seq(Happenings)
  BY DEF Begin, TypeInv
<1>4. /\ queue' = [queue EXCEPT ![s] = Tail(queue[s])]
      /\ current' = [current EXCEPT ![s] = i]
      /\ work' = [work EXCEPT ![s] = Handler(i)]
      /\ UNCHANGED <<tableVars, historyVars, faultCount>>
  BY DEF Begin
<1>5. \A joined : Handler(i) \in Seq(Due(log[i].member, log, joined)) /\ Handler(i) # << >>
  BY <1>2, <1>3, HandlerIn
<1>6. /\ Tail(queue[s]) \in Seq(DOMAIN log)
      /\ \A k \in DOMAIN Tail(queue[s]) : StreamOf(log[Tail(queue[s])[k]].kind) = s
  <2> DEFINE q == queue[s]
  <2> HIDE DEF q
  <2>1. q \in Seq(DOMAIN log) /\ q # << >> /\ \A k \in DOMAIN q : StreamOf(log[q[k]].kind) = s
    BY <1>1 DEF q
  <2>2. Tail(q) \in Seq(DOMAIN log) /\ \A k \in DOMAIN Tail(q) : k + 1 \in DOMAIN q
          /\ Tail(q)[k] = q[k + 1]
    BY <2>1
  <2> QED
    BY <2>1, <2>2 DEF q
<1> DEFINE t == Tail(queue[s])
           h == Handler(i)
<1> HIDE DEF i, t, h
<1>7. QueuesOK'
  BY <1>3, <1>4, <1>6 DEF TypeInv, QueuesOK, t
<1>8. WorkersOK'
  <2>1. JoinedKept
    BY <1>4, SameRows DEF tableVars
  <2>2. current'[s] = i /\ Event(s)' = log[i] /\ current'[s] \in DOMAIN log
    BY <1>2, <1>3, <1>4 DEF TypeInv, WorkersOK, Event
  <2>3. Ahead(s)' = Due(log[i].member, log, lifecycle'[log[i].member]["joined_at"])
    BY <1>3, <2>2 DEF Ahead, Joined
  <2>4. h \in Seq(Ahead(s))' \ {<< >>} /\ StreamOf(Event(s).kind)' = s
    BY <1>2, <1>5, <2>2, <2>3 DEF h
  <2>5. current' = [current EXCEPT ![s] = current'[s]]
    <3>1. current' = [current EXCEPT ![s] = i] /\ current'[s] = i
      BY <1>4, <2>2
    <3> QED BY <3>1
  <2>6. Busy(s)'
    BY <1>3, <2>2 DEF Busy
  <2> QED
    BY <1>3, <1>4, <2>1, <2>2, <2>4, <2>5, <2>6, WorkersKept DEF h
<1>9. MemberTablesOK' /\ CountersOK' /\ HistoryOK'
  BY <1>3, <1>4
  DEF TypeInv, MemberTablesOK, CountersOK, HistoryOK, BagOf, tableVars, historyVars
<1> QED
  BY <1>3, <1>7, <1>8, <1>9 DEF TypeInv

LEMMA FindsClosedTypes ==
  ASSUME TypeInv, NEW s \in Streams, FindsClosed(s)
  PROVE  TypeInv'
<1>1. PICK i, q : q = queue[s] /\ i = Head(q)
  OBVIOUS
<1>2. /\ q # << >> /\ queue' = [queue EXCEPT ![s] = Tail(q)] /\ done' = done \union {i}
      /\ UNCHANGED <<log, current, work, tableVars, lost, surplus, failed, sawJoin, faultCount>>
  BY <1>1 DEF FindsClosed
<1>3. q \in Seq(DOMAIN log) /\ \A k \in DOMAIN q : StreamOf(log[q[k]].kind) = s
  BY <1>1 DEF TypeInv, QueuesOK
<1>4. /\ i \in DOMAIN log /\ Tail(q) \in Seq(DOMAIN log)
      /\ \A k \in DOMAIN Tail(q) : k + 1 \in DOMAIN q /\ Tail(q)[k] = q[k + 1]
  <2>1. i = q[1] /\ 1 \in DOMAIN q
    BY <1>1, <1>2, <1>3
  <2>2. Tail(q) \in Seq(DOMAIN log)
    BY <1>2, <1>3
  <2>3. \A k \in DOMAIN Tail(q) : k + 1 \in DOMAIN q /\ Tail(q)[k] = q[k + 1]
    BY <1>2, <1>3
  <2>4. i \in DOMAIN log
    BY <1>3, <2>1
  <2> QED BY <2>2, <2>3, <2>4
<1>5. QueuesOK'
  BY <1>2, <1>3, <1>4 DEF TypeInv, QueuesOK
<1>6. WorkersOK'
  BY <1>2 DEF TypeInv, WorkersOK, Busy, Event, Ahead, Joined, tableVars
<1>7. HistoryOK'
  BY <1>2, <1>4 DEF TypeInv, HistoryOK, BagOf, tableVars
<1>8. MemberTablesOK' /\ CountersOK' /\ log' = log
  BY <1>2 DEF TypeInv, MemberTablesOK, CountersOK, BagOf, tableVars
<1> QED BY <1>5, <1>6, <1>7, <1>8 DEF TypeInv

LEMMA StatementFailsTypes ==
  ASSUME TypeInv, NEW s \in Streams, StatementFails(s)
  PROVE  TypeInv'
<1>1. Busy(s) /\ Fail(s, work[s]) /\ UNCHANGED <<tableVars, sawJoin>>
  BY DEF StatementFails
<1>2. work[s] \in Seq(Ahead(s))
  BY <1>1, AtWork
<1>3. JoinedKept
  BY <1>1, SameRows DEF tableVars
<1>4. /\ log' = log /\ QueuesOK' /\ WorkersOK' /\ BagOf(Cells, lost)' /\ BagOf(Cells, surplus)'
      /\ failed' \subseteq DOMAIN log /\ done' \subseteq DOMAIN log
           /\ faultCount' \in 0 .. MaxFaults
  BY <1>1, <1>2, <1>3, FailTypes
<1> QED
  BY <1>1, <1>4 DEF TypeInv, MemberTablesOK, CountersOK, HistoryOK, BagOf, tableVars

\* What is left to show of a statement that has taken effect.
LEMMA RunTypes ==
  ASSUME TypeInv, NEW s \in Streams, Busy(s),
         NEW rest \in Seq(Ahead(s)), Proceed(s, rest),
         JoinedKept, MemberTablesOK', CountersOK', reindexed'
           = reindexed, sawJoin' \subseteq sawJoin \union {current[s]}
  PROVE  TypeInv'
<1>1. /\ log' = log /\ QueuesOK' /\ WorkersOK' /\ BagOf(Cells, lost)' /\ BagOf(Cells, surplus)'
      /\ failed' \subseteq DOMAIN log /\ done' \subseteq DOMAIN log
           /\ faultCount' \in 0 .. MaxFaults
  BY ProceedTypes
<1>2. current[s] \in DOMAIN log
  BY AtWork
<1>3. HistoryOK'
  BY <1>1, <1>2 DEF TypeInv, HistoryOK
<1> QED
  BY <1>1, <1>3 DEF TypeInv

LEMMA SameLog ==
  ASSUME NEW s, NEW rest, Proceed(s, rest)
  PROVE  log' = log
BY DEF Proceed, Fail

\* Every column but left_at is written once.
LEMMA UpsertKeeps ==
  ASSUME TypeInv, NEW s \in Streams, RunUpsert(s)
  PROVE  \A m \in Members : \A f \in LifecycleColumns \ {"left_at"} :
           /\ lifecycle'[m][f] = lifecycle[m][f] \/ lifecycle[m][f] = None
           /\ m = Event(s).member /\ f \in Next1(s).arg => lifecycle'[m][f] # None
<1>1. lifecycle \in [Members -> [LifecycleColumns -> Times \union {None}]]
  BY DEF TypeInv, MemberTablesOK
<1>2. Event(s).member \in Members /\ Event(s).at \in Times
  BY AtWork, EventsAre DEF RunUpsert
<1>3. Event(s).at # None
  BY <1>2, TimesAre DEF None
<1> DEFINE old == lifecycle[Event(s).member]
           new == [f \in DOMAIN old |->
                     IF f = "left_at" /\ f \in Next1(s).arg THEN Event(s).at
                     ELSE Coalesce(old[f], IF f \in Next1(s).arg THEN Event(s).at ELSE None)]
<1>4. lifecycle' = [lifecycle EXCEPT ![Event(s).member] = new]
  BY DEF RunUpsert
<1>5. \A f \in LifecycleColumns \ {"left_at"} :
        new[f] = IF old[f] # None THEN old[f] ELSE IF f \in Next1(s).arg THEN Event(s).at ELSE None
  BY <1>1, <1>2 DEF Coalesce
<1> HIDE DEF new
<1> QED
  BY <1>1, <1>2, <1>3, <1>4, <1>5

LEMMA UpsertTypes ==
  ASSUME TypeInv, NEW s \in Streams, RunUpsert(s)
  PROVE  TypeInv'
<1>1. Busy(s) /\ Proceed(s, Tail(work[s])) /\ Next1(s).op = "upsert"
      /\ UNCHANGED <<activity, markers, reindexed, counts, opener>>
  BY DEF RunUpsert
<1>2. Tail(work[s]) \in Seq(Ahead(s))
  BY <1>1, AtWork
<1>3. log' = log
  BY <1>1, SameLog
<1>4. Event(s).member \in Members /\ Event(s).at \in Times
  BY <1>1, AtWork, EventsAre
<1>5. lifecycle' \in [Members -> [LifecycleColumns -> Times \union {None}]]
  <2> DEFINE old == lifecycle[Event(s).member]
             new == [f \in DOMAIN old |->
                       IF f = "left_at" /\ f \in Next1(s).arg THEN Event(s).at
                       ELSE Coalesce(old[f], IF f \in Next1(s).arg THEN Event(s).at ELSE None)]
  <2>1. old \in [LifecycleColumns -> Times \union {None}]
    BY <1>4 DEF TypeInv, MemberTablesOK
  <2>2. new \in [LifecycleColumns -> Times \union {None}]
    BY <1>4, <2>1 DEF Coalesce
  <2>3. lifecycle' = [lifecycle EXCEPT ![Event(s).member] = new]
    BY DEF RunUpsert
  <2> HIDE DEF new
  <2> QED
    BY <1>4, <2>2, <2>3 DEF TypeInv, MemberTablesOK
<1>6. MemberTablesOK' /\ CountersOK'
  BY <1>1, <1>3, <1>5 DEF TypeInv, MemberTablesOK, CountersOK, BagOf
<1>7. sawJoin' \subseteq sawJoin \union {current[s]}
  BY DEF RunUpsert
<1>8. JoinedKept
  BY UpsertKeeps DEF JoinedKept, Joined, LifecycleColumns
<1> QED
  BY <1>1, <1>2, <1>6, <1>7, <1>8, RunTypes

LEMMA ActivityTypes ==
  ASSUME TypeInv, NEW s \in Streams, RunActivity(s)
  PROVE  TypeInv'
<1>1. Busy(s) /\ Proceed(s, Tail(work[s])) /\ Next1(s).op = "activity"
      /\ activity' = activity \union {<<Event(s).member, Next1(s).arg>>}
      /\ UNCHANGED <<lifecycle, markers, reindexed, counts, opener, sawJoin>>
  BY DEF RunActivity
<1>2. /\ Tail(work[s]) \in Seq(Ahead(s))
      /\ Next1(s) \in Ahead(s) /\ Event(s).member \in Members
  BY <1>1, AtWork
<1>3. log' = log
  BY <1>1, SameLog
<1>4. Next1(s).arg \in Days
  BY <1>1, <1>2, StatementsAre, DueAre DEF Ahead
<1>5. MemberTablesOK' /\ CountersOK'
  BY <1>1, <1>2, <1>3, <1>4 DEF TypeInv, MemberTablesOK, CountersOK, BagOf
<1> QED
  BY <1>1, <1>2, <1>5, SameRows, RunTypes

LEMMA InsertTypes ==
  ASSUME TypeInv, NEW s \in Streams, Busy(s),
         NEW mk \in MarkersOf(log), mk.member = Event(s).member, Insert(s, mk),
         mk.table \in CohortTables => Joined(Event(s).member) # None
  PROVE  TypeInv'
<1>1. UNCHANGED <<lifecycle, activity, reindexed, counts, opener, sawJoin>>
      /\ markers' \subseteq markers \union {mk}
  BY DEF Insert
<1>2. PICK rest \in {Tail(work[s]), FollowUps(mk, Event(s)) \o Tail(work[s])} : Proceed(s, rest)
  BY DEF Insert
<1>3. Tail(work[s]) \in Seq(Ahead(s)) /\ Event(s) \in Happenings
  BY AtWork
<1>4. FollowUps(mk, Event(s)) \in Seq(Ahead(s))
  BY <1>3, FollowUpsIn DEF Ahead, CohortTables
<1>5. rest \in Seq(Ahead(s))
  <2> DEFINE S == Ahead(s)
             first == FollowUps(mk, Event(s))
             last == Tail(work[s])
  <2>1. first \in Seq(S) /\ last \in Seq(S) /\ rest \in {last, first \o last}
    BY <1>2, <1>3, <1>4
  <2> HIDE DEF S, first, last
  <2>2. first \in Seq(S) /\ last \in Seq(S)
    BY <2>1
  <2>3. first \o last \in Seq(S)
    BY <2>2
  <2>4. rest \in Seq(S)
    BY <2>1, <2>2, <2>3
  <2> QED BY <2>4 DEF S
<1>6. log' = log
  BY <1>2, SameLog
<1>7. MemberTablesOK' /\ CountersOK'
  BY <1>1, <1>6 DEF TypeInv, MemberTablesOK, CountersOK, BagOf
<1> QED
  BY <1>1, <1>2, <1>5, <1>7, SameRows, RunTypes

LEMMA MarkTypes ==
  ASSUME TypeInv, NEW s \in Streams, RunMark(s)
  PROVE  TypeInv'
<1>1. Busy(s) /\ Next1(s).op = "mark" /\ Insert(s, Next1(s).arg)
  BY DEF RunMark
<1>2. Next1(s) \in Ahead(s)
  BY <1>1, AtWork
<1>3. /\ Next1(s).arg \in MarkersOf(log) /\ Next1(s).arg.member = Event(s).member
      /\ Next1(s).arg.table \in CohortTables => Joined(Event(s).member) # None
  BY <1>1, <1>2, StatementsAre, DueAre DEF Ahead, Founded
<1> QED
  BY <1>1, <1>3, InsertTypes

LEMMA JoinedIs ==
  ASSUME TypeInv, NEW m \in Members
  PROVE  /\ Joined(m) \in Times \union {None}
         /\ Joined(m) # None => Joined(m) \in Nat /\ Day(Joined(m)) \in Days
              /\ Day(Joined(m)) \in Nat
         /\ \A f \in LifecycleColumns : lifecycle[m][f] \in Times \union {None}
<1>1. \A f \in LifecycleColumns : lifecycle[m][f] \in Times \union {None}
  BY DEF TypeInv, MemberTablesOK
<1>2. Joined(m) \in Times \union {None}
  BY <1>1 DEF Joined, LifecycleColumns
<1> QED
  BY <1>1, <1>2, TimesAre

LEMMA MilestoneTypes ==
  ASSUME TypeInv, NEW s \in Streams, RunMilestone(s)
  PROVE  TypeInv'
<1> DEFINE step == Next1(s).arg
           m == Event(s).member
           mk == Marker(step, m, Whole, Day(Joined(m)))
<1>1. Busy(s) /\ Next1(s).op = "milestone"
  BY DEF RunMilestone
<1>2. /\ Tail(work[s]) \in Seq(Ahead(s))
      /\ Next1(s) \in Ahead(s) /\ m \in Members
  BY <1>1, AtWork
<1>3. step \in Steps
  BY <1>1, <1>2, StatementsAre, DueAre DEF Ahead
<1>4. CASE Eligible(step, m)
  <2>1. Joined(m) # None /\ Insert(s, mk)
    BY <1>4 DEF Eligible, RunMilestone
  <2>2. Day(Joined(m)) \in Days
    BY <1>2, <2>1, JoinedIs
  <2>3. step \in MarkerNames \ (FilledFromThose \union {"message_index"})
    BY <1>3 DEF Steps, MarkerNames, FirstFilled, FilledFromThose, ByMember, Milestones
  <2>4. mk \in MarkersOf(log) /\ mk.member = m
    BY <1>2, <2>2, <2>3, MarkerIn, MarkIs
  <2> QED
    BY <1>1, <2>1, <2>4, InsertTypes
<1>5. CASE ~Eligible(step, m)
  <2>1. Proceed(s, Tail(work[s])) /\ UNCHANGED <<tableVars, sawJoin>>
    BY <1>5 DEF RunMilestone
  <2>2. log' = log
    BY <2>1, SameLog
  <2>3. MemberTablesOK' /\ CountersOK' /\ reindexed' = reindexed
    BY <2>1, <2>2 DEF TypeInv, MemberTablesOK, CountersOK, BagOf, tableVars
  <2> QED
    BY <1>1, <1>2, <2>1, <2>3, SameRows, RunTypes DEF tableVars
<1> QED BY <1>4, <1>5

LEMMA CountTypes ==
  ASSUME TypeInv, NEW s \in Streams, RunCount(s)
  PROVE  TypeInv'
<1> DEFINE cell == Next1(s).arg
<1>1. Busy(s) /\ Next1(s).op = "count" /\ Proceed(s, Tail(work[s]))
      /\ UNCHANGED <<lifecycle, activity, markers, reindexed, sawJoin>>
      /\ opener' = Opened({cell[1]}, cell[2])
      /\ counts' \in {counts, counts (+) SetToBag({cell})}
  BY DEF RunCount
<1>2. /\ Tail(work[s]) \in Seq(Ahead(s))
      /\ Next1(s) \in Ahead(s)
  BY <1>1, AtWork
<1>3. cell \in Cells
  BY <1>1, <1>2, StatementsAre, DueAre DEF Ahead
<1>4. BagOf(Cells, counts)'
  <2>1. BagOf(Cells, counts)
    BY DEF TypeInv, CountersOK
  <2>2. BagOf(Cells, SetToBag({cell}))
    BY <1>3, OneBag
  <2>3. BagOf(Cells, counts (+) SetToBag({cell}))
    BY <2>1, <2>2, AddedBag
  <2> QED BY <1>1, <2>1, <2>3
<1>5. cell[1] \in Rows /\ cell[2] \in Columns[cell[1].table]
  BY <1>3, CellsAre
<1>6. /\ DOMAIN opener' \subseteq Rows
      /\ \A row \in DOMAIN opener' : opener'[row] \in Columns[row.table] \union {"startup"}
  BY <1>1, <1>5 DEF TypeInv, CountersOK, Opened
<1>7. log' = log
  BY <1>1, SameLog
<1>8. MemberTablesOK' /\ CountersOK'
  BY <1>1, <1>4, <1>6, <1>7 DEF TypeInv, MemberTablesOK, CountersOK
<1> QED
  BY <1>1, <1>2, <1>8, SameRows, RunTypes

\* A statement that only puts markers to be inserted in front of the rest.
MarksNext(s) ==
  /\ Busy(s) /\ Next1(s).op \in {"retention", "contribution"} /\ UNCHANGED <<tableVars, sawJoin>>
  /\ \E marks \in Seq(Ahead(s)) :
       /\ \A k \in DOMAIN marks : marks[k].op = "mark" /\ marks[k].arg.table \in CohortTables
       /\ marks \o Tail(work[s]) \in Seq(Ahead(s))
       /\ Proceed(s, marks \o Tail(work[s]))

LEMMA MarksTypes ==
  ASSUME TypeInv, NEW s \in Streams, MarksNext(s)
  PROVE  TypeInv'
<1>1. PICK marks \in Seq(Ahead(s)) : marks \o Tail(work[s]) \in Seq(Ahead(s))
             /\ Proceed(s, marks \o Tail(work[s]))
  BY DEF MarksNext
<1>2. Busy(s) /\ UNCHANGED <<tableVars, sawJoin>>
  BY DEF MarksNext
<1>3. log' = log
  BY <1>1, SameLog
<1>4. MemberTablesOK' /\ CountersOK' /\ reindexed' = reindexed
  BY <1>2, <1>3 DEF TypeInv, MemberTablesOK, CountersOK, BagOf, tableVars
<1> QED
  BY <1>1, <1>2, <1>4, SameRows, RunTypes DEF tableVars

LEMMA RetentionMarks ==
  ASSUME TypeInv, NEW s \in Streams, RunRetention(s)
  PROVE  MarksNext(s)
<1> DEFINE m == Event(s).member
           age == Next1(s).arg - Day(Joined(m))
           mark(table) == Mark(Marker(table, m, Whole, Day(Joined(m))))
           d7 == IF age \in 7 .. 13 THEN <<mark("retention_cohort_d7_members")>> ELSE << >>
           d30 == IF age \in 30 .. 36 THEN <<mark("retention_cohort_d30_members")>> ELSE << >>
           marks == IF Joined(m) = None THEN << >> ELSE d7 \o d30
           S == Ahead(s)
<1>1. Busy(s) /\ Proceed(s, marks \o Tail(work[s])) /\ UNCHANGED <<tableVars, sawJoin>>
      /\ Next1(s).op = "retention"
  BY DEF RunRetention
<1>2. Tail(work[s]) \in Seq(S) /\ m \in Members
  BY <1>1, AtWork
<1>3. marks \in Seq(S)
  <2>1. CASE Joined(m) = None
    BY <2>1
  <2>2. CASE Joined(m) # None
    <3>1. Day(Joined(m)) \in Days
      BY <1>2, <2>2, JoinedIs
    <3>2. mark("retention_cohort_d7_members") \in S /\ mark("retention_cohort_d30_members") \in S
      <4>1. {"retention_cohort_d7_members", "retention_cohort_d30_members"} \subseteq
              MarkerNames \ (FilledFromThose \union {"message_index"})
        BY DEF MarkerNames, FirstFilled, FilledFromThose
      <4> QED
        BY <1>2, <2>2, <3>1, <4>1, MarkerIn, MarkIs, DueIn DEF Ahead
    <3> HIDE DEF S, mark, age
    <3>3. d7 \in Seq(S) /\ d30 \in Seq(S)
      BY <3>2
    <3> HIDE DEF d7, d30
    <3>4. d7 \o d30 \in Seq(S)
      BY <3>3
    <3> QED BY <2>2, <3>4
  <2> QED BY <2>1, <2>2
<1>4. \A k \in DOMAIN marks : marks[k].op = "mark" /\ marks[k].arg.table \in CohortTables
  <2> DEFINE a == mark("retention_cohort_d7_members")
             b == mark("retention_cohort_d30_members")
  <2>1. /\ a.op = "mark" /\ a.arg.table = "retention_cohort_d7_members"
        /\ b.op = "mark" /\ b.arg.table = "retention_cohort_d30_members"
    BY MarkIs DEF Mark, Do
  <2>2. marks \in {<< >>, << >> \o << >>, << >> \o <<b>>, <<a>> \o << >>, <<a>> \o <<b>>}
    OBVIOUS
  <2> HIDE DEF marks, a, b
  <2> QED BY <2>1, <2>2 DEF CohortTables
<1> HIDE DEF marks, S
<1>5. marks \o Tail(work[s]) \in Seq(S)
  BY <1>2, <1>3
<1> QED
  BY <1>1, <1>3, <1>4, <1>5 DEF MarksNext, S

-----------------------------------------------------------------------------
(* Finite sets.                                                             *)

LEMMA SomeFinite ==
  \A a, b, c, d : IsFiniteSet({a, b, c, d})
<1> TAKE a, b, c, d
<1>1. IsFiniteSet({a} \union {b}) /\ IsFiniteSet({c} \union {d})
  BY FS_Singleton, FS_AddElement
<1>2. IsFiniteSet(({a} \union {b}) \union ({c} \union {d}))
  BY <1>1, FS_Union
<1>3. ({a} \union {b}) \union ({c} \union {d}) = {a, b, c, d}
  OBVIOUS
<1> QED BY <1>2, <1>3

LEMMA DaysFinite ==
  IsFiniteSet(Days)
<1> DEFINE f == [e \in Happenings |-> Day(e.at)]
<1>1. f \in [Happenings -> Days] /\ \A d \in Days : \E e \in Happenings : f[e] = d
  BY DEF Days, Times
<1>2. f \in Surjection(Happenings, Days)
  BY <1>1 DEF Surjection
<1> HIDE DEF f
<1> QED
  BY <1>2, AnalyticsAssumption, FS_Surjection

LEMMA MarkersFinite ==
  ASSUME log \in Seq(Happenings), NEW mks \in SUBSET MarkersOf(log)
  PROVE  IsFiniteSet(mks) /\ Cardinality(mks) \in Nat /\ (mks # {} => Cardinality(mks) > 0)
<1> DEFINE ofs == {Whole} \union Channels \union DOMAIN log
           days == Days \union {None}
           all == [table : MarkerNames, member : Members, of : ofs, day : days]
           parts == (MarkerNames \X Members) \X (ofs \X days)
           f == [p \in parts |-> [table |-> p[1][1], member |-> p[1][2], of |-> p[2][1], day
             |-> p[2][2]]]
<1>1. IsFiniteSet(MarkerNames)
  <2> DEFINE a == {"guild_joined_members", "guild_left_members", "guild_onboarded_members",
               "message_index"}
             b == {"first_role_at", "first_message_at", "first_reaction_at", "first_voice_at"}
             c == {"guild_daily_active_members", "retention_cohort_d7_members",
                   "retention_cohort_d30_members", "channel_retention_d7_members"}
             d == {"channel_retention_d30_members", "channel_retention_d30_members",
                   "channel_retention_d30_members", "channel_retention_d30_members"}
  <2>1. IsFiniteSet(a) /\ IsFiniteSet(b) /\ IsFiniteSet(c) /\ IsFiniteSet(d)
    BY SomeFinite
  <2>2. MarkerNames = (a \union b) \union (c \union d)
    BY DEF MarkerNames, FirstFilled, FilledFromThose, ByMember, Milestones
  <2> HIDE DEF a, b, c, d
  <2>3. IsFiniteSet(a \union b) /\ IsFiniteSet(c \union d)
    BY <2>1, FS_Union
  <2>4. IsFiniteSet((a \union b) \union (c \union d))
    BY <2>3, FS_Union
  <2> QED BY <2>2, <2>4
<1>2. IsFiniteSet(ofs)
  <2>1. DOMAIN log = 1 .. Len(log) /\ Len(log) \in Nat
    OBVIOUS
  <2>2. IsFiniteSet(DOMAIN log)
    BY <2>1, FS_Interval
  <2>3. IsFiniteSet({Whole} \union Channels)
    BY AnalyticsAssumption, FS_Singleton, FS_Union
  <2> QED
    BY <2>2, <2>3, FS_Union
<1>3. IsFiniteSet(days)
  BY DaysFinite, FS_Singleton, FS_Union
<1>4. IsFiniteSet(parts)
  <2> HIDE DEF ofs, days
  <2>1. IsFiniteSet(MarkerNames \X Members) /\ IsFiniteSet(ofs \X days)
    BY <1>1, <1>2, <1>3, AnalyticsAssumption, FS_Product
  <2> QED BY <2>1, FS_Product
<1>5. f \in Surjection(parts, all)
  <2> HIDE DEF ofs, days
  <2>1. f \in [parts -> all]
    OBVIOUS
  <2>2. ASSUME NEW mk \in all PROVE \E p \in parts : f[p] = mk
    <3> DEFINE p == <<<<mk.table, mk.member>>, <<mk.of, mk.day>>>>
    <3>1. p \in parts
      OBVIOUS
    <3>2. f[p] = mk
      BY <3>1
    <3> QED BY <3>1, <3>2
  <2> HIDE DEF f, parts, all
  <2> QED
    BY <2>1, <2>2 DEF Surjection
<1>6. MarkersOf(log) \subseteq all
  BY DEF MarkersOf
<1> HIDE DEF f, parts, all
<1>7. IsFiniteSet(all)
  BY <1>4, <1>5, FS_Surjection
<1>8. mks \in SUBSET all
  BY <1>6
<1>9. IsFiniteSet(mks)
  BY <1>7, <1>8, FS_Subset
<1> QED
  BY <1>9, FS_CardinalityType, FS_EmptySet

LEMMA SequenceOfSet ==
  ASSUME NEW S, IsFiniteSet(S)
  PROVE  SetToSeq(S) \in Seq(S) /\ IsInjective(SetToSeq(S)) /\ Len(SetToSeq(S)) = Cardinality(S)
<1>1. Cardinality(S) \in Nat /\ ExistsBijection(1 .. Cardinality(S), S)
  BY FS_CardinalityType
<1>2. \E f \in [1 .. Cardinality(S) -> S] : IsInjective(f)
  BY <1>1 DEF ExistsBijection, Bijection, Injection, IsInjective
<1>3. SetToSeq(S) \in [1 .. Cardinality(S) -> S] /\ IsInjective(SetToSeq(S))
  BY <1>2 DEF SetToSeq
<1> QED
  BY <1>1, <1>3

LEMMA ContributionMarks ==
  ASSUME TypeInv, NEW s \in Streams, RunContribution(s)
  PROVE  MarksNext(s)
<1> DEFINE m == Event(s).member
           table == Next1(s).arg
           channels == SetToSeq(FirstWeekChannels(m))
           mark(c) == Mark(Marker(table, m, c, Day(Joined(m))))
           marks == [j \in DOMAIN channels |-> mark(channels[j])]
           S == Ahead(s)
<1>1. Busy(s) /\ Next1(s).op = "contribution" /\ Proceed(s, marks \o Tail(work[s]))
      /\ UNCHANGED <<tableVars, sawJoin>>
  BY DEF RunContribution
<1>2. Tail(work[s]) \in Seq(S) /\ m \in Members /\ Next1(s) \in S
  BY <1>1, AtWork
<1>3. table \in FilledFromThose /\ Joined(m) # None
  BY <1>1, <1>2, StatementsAre, DueAre DEF Ahead, Founded
<1>4. channels \in Seq(Channels)
  <2>1. FirstWeekChannels(m) \subseteq Channels
    BY EventsAre DEF TypeInv, MemberTablesOK, FirstWeekChannels, MarkersOf, Fits
  <2>2. IsFiniteSet(FirstWeekChannels(m))
    BY <2>1, AnalyticsAssumption, FS_Subset
  <2>3. channels \in Seq(FirstWeekChannels(m))
    BY <2>2, SequenceOfSet
  <2> QED BY <2>1, <2>3
<1>5. \A c \in Channels : mark(c) \in S
  <2> TAKE c \in Channels
  <2>1. Day(Joined(m)) \in Days
    BY <1>2, <1>3, JoinedIs
  <2>2. /\ Marker(table, m, c, Day(Joined(m))) \in MarkersOf(log)
        /\ Marker(table, m, c, Day(Joined(m))).member = m
        /\ Marker(table, m, c, Day(Joined(m))).day = Day(Joined(m))
    BY <1>2, <1>3, <2>1, ChannelMarkerIn, MarkIs
  <2> QED
    BY <1>3, <2>2, DueIn DEF Ahead
<1>8. \A c : mark(c).op = "mark" /\ mark(c).arg.table \in CohortTables
  BY <1>3, MarkIs DEF Mark, Do, CohortTables, FilledFromThose
<1> HIDE DEF S, mark, channels
<1>6. marks \in Seq(S)
  BY <1>4, <1>5
<1>9. \A k \in DOMAIN marks : marks[k].op = "mark" /\ marks[k].arg.table \in CohortTables
  BY <1>8
<1> HIDE DEF marks
<1>7. marks \o Tail(work[s]) \in Seq(Ahead(s))
  BY <1>2, <1>6 DEF S
<1> QED
  BY <1>1, <1>6, <1>7, <1>9 DEF MarksNext, S

LEMMA AllRunTypes ==
  ASSUME TypeInv, NEW s \in Streams, Run(s)
  PROVE  TypeInv'
BY UpsertTypes, ActivityTypes, MarkTypes, MilestoneTypes, CountTypes, RetentionMarks,
   ContributionMarks, MarksTypes
DEF Run

-----------------------------------------------------------------------------
(* What startup fills the tables with.                                      *)

RowsOK ==
  /\ log \in Seq(Happenings)
  /\ lifecycle \in [Members -> [LifecycleColumns -> Times \union {None}]]
  /\ activity \subseteq Members \X Days

LEMMA TypedRows ==
  TypeInv => RowsOK
BY DEF TypeInv, MemberTablesOK, RowsOK

LEMMA ColumnDays ==
  ASSUME RowsOK, NEW m \in Members, NEW f \in LifecycleColumns, lifecycle[m][f] # None
  PROVE  lifecycle[m][f] \in Nat /\ Day(lifecycle[m][f]) \in Days
<1>1. lifecycle[m][f] \in Times
  BY DEF RowsOK
<1> QED BY <1>1, TimesAre

LEMMA JoinedDays ==
  ASSUME RowsOK, NEW m \in Members, Joined(m) # None
  PROVE  Joined(m) \in Nat /\ Day(Joined(m)) \in Days
BY ColumnDays DEF Joined, LifecycleColumns

\* Markers of the tables that are filled first: one to each member and day.
LEMMA WholeMarker ==
  ASSUME NEW table \in FirstFilled, NEW m \in Members, NEW d \in Days
  PROVE  Marker(table, m, Whole, d) \in {mk \in MarkersOf(log) : mk.table = table}
<1>1. table \in MarkerNames \ (FilledFromThose \union {"message_index"})
  BY DEF MarkerNames, FirstFilled, FilledFromThose, ByMember, Milestones
<1> QED
  BY <1>1, MarkerIn, MarkIs

LEMMA StartupMarkersAre ==
  ASSUME RowsOK, NEW mks \in SUBSET MarkersOf(log), NEW table \in FirstFilled \union FilledFromThose
  PROVE  StartupMarkers(table, mks) \subseteq {mk \in MarkersOf(log) : mk.table = table}
<1> DEFINE T == {mk \in MarkersOf(log) : mk.table = table}
<1> SUFFICES StartupMarkers(table, mks) \subseteq T
  OBVIOUS
<1> HIDE DEF T
<1>0. table \in FirstFilled => \A m \in Members : \A d \in Days : Marker(table, m, Whole, d) \in T
  BY WholeMarker DEF T
<1>1. CASE table = "guild_daily_active_members"
  <2>1. ActiveMarkers \subseteq T
    BY <1>0, <1>1 DEF ActiveMarkers, RowsOK, FirstFilled
  <2> QED
    BY <1>1, <2>1 DEF StartupMarkers
<1>2. CASE table \in {"guild_joined_members", "guild_left_members"}
  <2>1. \A f \in LifecycleColumns : LifecycleMarkers(table, f) \subseteq T
    BY <1>0, <1>2, ColumnDays DEF LifecycleMarkers, FirstFilled, ByMember
  <2>2. "joined_at" \in LifecycleColumns /\ "left_at" \in LifecycleColumns
    BY DEF LifecycleColumns
  <2> QED
    BY <1>2, <2>1, <2>2 DEF StartupMarkers
<1>3. CASE table = "guild_onboarded_members"
  <2>1. \A m \in Members : Marker(table, m, Whole, None) \in T
    BY <1>3 DEF MarkersOf, Marker, Fits, MarkerNames, FirstFilled, ByMember, FilledFromThose, T
  <2>2. \A m \in Members : Joined(m) # None => Marker(table, m, Whole, Day(Joined(m))) \in T
    BY <1>0, <1>3, JoinedDays DEF FirstFilled, ByMember
  <2>3. OnboardedMarkers \subseteq T
    BY <1>3, <2>1, <2>2 DEF OnboardedMarkers
  <2> QED
    BY <1>3, <2>3 DEF StartupMarkers
<1>4. CASE table \in {"retention_cohort_d7_members", "retention_cohort_d30_members"}
  <2>1. \A ages : RetainedMarkers(table, ages) \subseteq T
    BY <1>0, <1>4, JoinedDays DEF RetainedMarkers, FirstFilled
  <2> QED
    BY <1>4, <2>1 DEF StartupMarkers
<1>5. CASE table \in FilledFromThose
  <2>1. ASSUME NEW retained \in {"retention_cohort_d7_members", "retention_cohort_d30_members"},
               NEW mk \in ContributionMarkers(table, retained, mks)
        PROVE  mk \in T
    <3>1. PICK r \in mks, x \in mks :
            /\ r.table = retained /\ x.table = "message_index" /\ x.member = r.member
            /\ mk = Marker(table, r.member, log[x.of].channel, r.day)
      BY <2>1 DEF ContributionMarkers
    <3>2. r.member \in Members /\ r.day \in Days
      BY <2>1, <3>1 DEF MarkersOf, Fits
    <3>3. log[x.of].channel \in Channels
      BY <3>1, EventsAre DEF MarkersOf, Fits, RowsOK
    <3> QED
      BY <1>5, <3>1, <3>2, <3>3, ChannelMarkerIn, MarkIs DEF T
  <2> QED
    BY <1>5, <2>1 DEF StartupMarkers, FilledFromThose
<1>6. CASE table \in Milestones
  <2>1. StepMarkers(table) \subseteq T
    BY <1>0, <1>6, JoinedDays DEF StepMarkers, Eligible, FirstFilled
  <2> QED
    BY <1>6, <2>1 DEF StartupMarkers, Milestones
<1> QED
  BY <1>1, <1>2, <1>3, <1>4, <1>5, <1>6 DEF FirstFilled, ByMember

LEMMA FillMarkersAre ==
  ASSUME RowsOK, NEW mks \in SUBSET MarkersOf(log),
           NEW tables \in SUBSET (FirstFilled \union FilledFromThose)
  PROVE  mks \subseteq FillMarkers(tables, mks) /\ FillMarkers(tables,
           mks) \in SUBSET MarkersOf(log)
<1>1. \A t \in tables : StartupMarkers(t, mks) \subseteq MarkersOf(log)
  BY StartupMarkersAre
<1> QED
  BY <1>1 DEF FillMarkers

LEMMA FillAllAre ==
  ASSUME RowsOK, NEW mks \in SUBSET MarkersOf(log)
  PROVE  mks \subseteq FillAll(mks) /\ FillAll(mks) \in SUBSET MarkersOf(log)
<1>1. mks \subseteq FillMarkers(FirstFilled, mks) /\ FillMarkers(FirstFilled,
        mks) \in SUBSET MarkersOf(log)
  BY FillMarkersAre
<1> DEFINE first == FillMarkers(FirstFilled, mks)
<1> HIDE DEF first
<1>2. first \in SUBSET MarkersOf(log)
  BY <1>1 DEF first
<1>3. first \subseteq FillMarkers(FilledFromThose, first)
        /\ FillMarkers(FilledFromThose, first) \in SUBSET MarkersOf(log)
  BY <1>2, FillMarkersAre
<1> QED
  BY <1>1, <1>3 DEF FillAll, first

LEMMA IndexedAre ==
  ASSUME log \in Seq(Happenings), NEW now \in 0 .. Len(log)
  PROVE  /\ Indexed(now) \in SUBSET MarkersOf(log)
         /\ \A mk \in Indexed(now) : mk.table = "message_index" /\ mk.of \in DOMAIN log
<1>1. \A i \in 1 .. now : i \in DOMAIN log
  OBVIOUS
<1>2. \A i \in DOMAIN log : Marker("message_index", log[i].member, i,
        Day(log[i].at)) \in MarkersOf(log)
  BY IndexMarkerIn
<1> QED
  BY <1>1, <1>2, MarkIs DEF Indexed

LEMMA MarkersAtStartAre ==
  ASSUME TypeInv, NEW now \in 0 .. Len(log)
  PROVE  /\ markers \union Indexed(now) \subseteq MarkersAtStart(now)
         /\ MarkersAtStart(now) \in SUBSET MarkersOf(log)
<1> DEFINE known == markers \union Indexed(now)
<1>1. RowsOK /\ log \in Seq(Happenings)
  BY TypedRows DEF TypeInv
<1>2. Indexed(now) \in SUBSET MarkersOf(log)
  BY <1>1, IndexedAre
<1>3. known \in SUBSET MarkersOf(log)
  BY <1>2 DEF TypeInv, MemberTablesOK
<1> HIDE DEF known
<1> QED
  BY <1>1, <1>3, FillAllAre DEF MarkersAtStart, known

-----------------------------------------------------------------------------
(* The counters that startup makes.                                         *)

\* The markers of a set that call for an increment of c.
CalledBy(c, mks) == {mk \in mks : c \in Range(CountedIn(mk))}

LEMMA CalledBag ==
  ASSUME log \in Seq(Happenings), NEW mks \in SUBSET MarkersOf(log)
  PROVE  /\ BagOf(Cells, Called(mks))
         /\ \A c : Copies(c, Called(mks)) = Cardinality(CalledBy(c, mks))
<1> DEFINE cells == [mk \in mks |-> Range(CountedIn(mk))]
           of(c) == {mk \in mks : c \in cells[mk]}
           B == [c \in UNION Range(cells) |-> Cardinality(of(c))]
<1>1. B = Called(mks)
  BY DEF Called
<1>2. \A c : of(c) = CalledBy(c, mks)
  BY DEF CalledBy
<1>3. \A c : of(c) \in SUBSET MarkersOf(log)
  OBVIOUS
<1>4. \A c : Cardinality(of(c)) \in Nat /\ (of(c) # {} => Cardinality(of(c)) > 0)
  <2> HIDE DEF of
  <2> QED BY <1>3, MarkersFinite
<1>5. \A c : c \in DOMAIN B <=> of(c) # {}
  BY DEF Range
<1>6. \A mk \in mks : Range(CountedIn(mk)) \subseteq Cells
  BY CountedInCells DEF Range
<1>7. DOMAIN B \subseteq Cells
  BY <1>6 DEF Range
<1>8. B = [c \in DOMAIN B |-> Cardinality(of(c))]
  OBVIOUS
<1> HIDE DEF B, of
<1>9. BagOf(Cells, B)
  BY <1>4, <1>5, <1>7, <1>8 DEF BagOf, IsABag
<1>10. \A c : Copies(c, B) = Cardinality(of(c))
  BY <1>5, <1>8, FS_EmptySet DEF Copies
<1> QED
  BY <1>1, <1>2, <1>9, <1>10

LEMMA TablesBag ==
  ASSUME NEW S, NEW B, BagOf(S, B), NEW tables
  PROVE  /\ BagOf(S, OfTables(B, tables))
         /\ \A c \in DOMAIN OfTables(B, tables) : c[1].table \in tables
         /\ \A c : Copies(c, OfTables(B, tables)) = IF c[1].table \in tables
              THEN Copies(c, B) ELSE 0
BY DEF OfTables, BagOf, IsABag, Copies

LEMMA ColumnsBag ==
  ASSUME NEW S, NEW B, BagOf(S, B), NEW columns
  PROVE  /\ BagOf(S, OfColumns(B, columns)) /\ DOMAIN OfColumns(B, columns) \subseteq DOMAIN B
         /\ \A c : Copies(c, OfColumns(B, columns)) = IF c[2] \in columns THEN Copies(c, B) ELSE 0
BY DEF OfColumns, BagOf, IsABag, Copies

LEMMA CohortBag ==
  ASSUME RowsOK, NEW table \in CohortCounters, NEW column \in Columns[table],
           NEW ms \in SUBSET Members
  PROVE  /\ BagOf(Cells, ByCohort(table, column, ms))
         /\ \A c \in DOMAIN ByCohort(table, column, ms) : c[1].table = table /\ c[2] = column
<1> DEFINE dated == {m \in ms : Joined(m) # None}
           at(m) == Cell(table, Whole, Day(Joined(m)), column)
           of(c) == {m \in dated : at(m) = c}
           B == [c \in {at(m) : m \in dated} |-> Cardinality(of(c))]
<1>1. B = ByCohort(table, column, ms)
  BY DEF ByCohort
<1>2. \A c : of(c) \in SUBSET Members
  OBVIOUS
<1>3. \A c : IsFiniteSet(of(c))
  <2> HIDE DEF of
  <2> QED BY <1>2, AnalyticsAssumption, FS_Subset
<1>4. \A c : Cardinality(of(c)) \in Nat /\ (of(c) # {} => Cardinality(of(c)) > 0)
  <2> HIDE DEF of
  <2> QED BY <1>3, FS_CardinalityType, FS_EmptySet
<1>5. \A c \in DOMAIN B : of(c) # {}
  OBVIOUS
<1>6. \A m \in dated : at(m) \in Cells
  BY JoinedDays, DayCell
<1>7. \A m \in dated : at(m)[1].table = table /\ at(m)[2] = column
  BY CellIs
<1>8. DOMAIN B \subseteq Cells /\ \A c \in DOMAIN B : c[1].table = table /\ c[2] = column
  <2> HIDE DEF at, dated, of
  <2> QED BY <1>6, <1>7
<1>9. B = [c \in DOMAIN B |-> Cardinality(of(c))]
  OBVIOUS
<1> HIDE DEF B, of
<1>10. BagOf(Cells, B)
  BY <1>4, <1>5, <1>8, <1>9 DEF BagOf, IsABag
<1> QED
  BY <1>1, <1>8, <1>10

\* The part of a bag that is about one counter table.
Part(table) == {c \in Cells : c[1].table = table}

LEMMA PartOf ==
  ASSUME NEW table, NEW B, BagOf(Cells, B), \A c \in DOMAIN B : c[1].table = table
  PROVE  BagOf(Part(table), B)
BY DEF BagOf, Part

LEMMA SummaryMessages ==
  ASSUME NEW daily, BagOf(Part("guild_daily_activity"), daily)
  PROVE  BagOf(Part("guild_summary_daily"),
               [c \in {Cell("guild_summary_daily", Whole, d[1].day,
                 "messages") : d \in DOMAIN daily} |->
                  daily[Cell("guild_daily_activity", Whole, c[1].day, "messages")]])
<1> DEFINE of(d) == Cell("guild_summary_daily", Whole, d[1].day, "messages")
           at(c) == Cell("guild_daily_activity", Whole, c[1].day, "messages")
           B == [c \in {of(d) : d \in DOMAIN daily} |-> daily[at(c)]]
<1>1. ASSUME NEW d \in DOMAIN daily
      PROVE  of(d) \in Part("guild_summary_daily") /\ at(of(d)) = d
  <2>1. d \in Cells /\ d[1].table = "guild_daily_activity"
    BY DEF BagOf, Part
  <2>2. d[2] = "messages" /\ d[1].day \in Days /\ d[1].of = Whole
    BY <2>1, CellsAre, ColumnsAre DEF CohortCounters
  <2>3. d = Cell("guild_daily_activity", Whole, d[1].day, "messages")
    BY <2>1, <2>2, CellsAre
  <2>4. of(d) \in Cells /\ of(d)[1].table = "guild_summary_daily" /\ of(d)[1].day = d[1].day
    BY <2>2, DayCell, ColumnsAre, CellIs DEF CohortCounters
  <2> QED
    BY <2>3, <2>4 DEF Part
<1>2. \A d \in DOMAIN daily : daily[d] \in Nat /\ daily[d] > 0
  BY DEF BagOf, IsABag
<1> HIDE DEF of, at
<1>3. DOMAIN B \subseteq Part("guild_summary_daily") /\ \A c \in DOMAIN B : B[c] \in Nat /\ B[c] > 0
  BY <1>1, <1>2
<1>4. B = [c \in DOMAIN B |-> B[c]]
  OBVIOUS
<1> HIDE DEF B
<1>5. BagOf(Part("guild_summary_daily"), B)
  BY <1>3, <1>4 DEF BagOf, IsABag
<1> QED
  BY <1>5 DEF B, of, at

LEMMA FillCountersBag ==
  ASSUME RowsOK, NEW mks \in SUBSET MarkersOf(log), NEW table \in DOMAIN Columns,
         NEW daily, BagOf(Part("guild_daily_activity"), daily)
  PROVE  BagOf(Part(table), FillCounters(table, mks, daily))
<1> DEFINE marked == OfTable(Called(mks), table)
           onboarded == {mk.member : mk \in {mk \in mks : mk.table = "guild_onboarded_members"}}
           P == Part(table)
<1>1. BagOf(P, marked)
  <2>1. BagOf(Cells, Called(mks))
    BY CalledBag DEF RowsOK
  <2>2. BagOf(Cells, marked) /\ \A c \in DOMAIN marked : c[1].table = table
    BY <2>1, TablesBag DEF OfTable
  <2> HIDE DEF marked
  <2> QED BY <2>2, PartOf
<1>2. \A columns : BagOf(P, OfColumns(marked, columns))
  BY <1>1, ColumnsBag
<1>3. ASSUME table \in CohortCounters, NEW column \in Columns[table], NEW ms \in SUBSET Members
      PROVE  BagOf(P, ByCohort(table, column, ms))
  BY <1>3, CohortBag, PartOf
<1> HIDE DEF marked, P
<1>4. CASE table = "retention_cohorts"
  <2>1. BagOf(P, ByCohort(table, "joined_members", Members))
    BY <1>3, <1>4, ColumnsAre DEF CohortCounters
  <2>2. BagOf(P, CohortRows(marked))
    BY <1>2, <1>4, <2>1, AddedBag DEF CohortRows
  <2> QED
    BY <1>4, <2>2 DEF FillCounters, marked, P
<1>5. CASE table = "activation_funnel_daily"
  <2>1. BagOf(P, ByCohort(table, "joined_members", Members))
    BY <1>3, <1>5, ColumnsAre DEF CohortCounters
  <2>2. BagOf(P, FunnelRows(marked))
    BY <1>2, <1>5, <2>1, AddedBag DEF FunnelRows
  <2> QED
    BY <1>5, <2>2 DEF FillCounters, marked, P
<1>6. CASE table = "guild_summary_daily"
  <2>1. onboarded \in SUBSET Members
    BY DEF MarkersOf
  <2> DEFINE told == [c \in {Cell("guild_summary_daily", Whole, d[1].day,
               "messages") : d \in DOMAIN daily} |->
                        daily[Cell("guild_daily_activity", Whole, c[1].day, "messages")]]
             first == OfColumns(marked, {"active_members", "joined_members", "left_members"})
             joins == ByCohort("guild_summary_daily", "onboarded_members", onboarded)
  <2>2. BagOf(P, joins)
    <3>1. "onboarded_members" \in Columns["guild_summary_daily"]
            /\ "guild_summary_daily" \in CohortCounters
      BY ColumnsAre DEF CohortCounters
    <3> QED
      BY <1>3, <1>6, <2>1, <3>1
  <2>3. BagOf(P, told)
    BY <1>6, SummaryMessages DEF P
  <2>4. BagOf(P, first)
    BY <1>2
  <2> HIDE DEF told, first, joins
  <2>5. BagOf(P, (first (+) joins) (+) told)
    BY <2>2, <2>3, <2>4, AddedBag
  <2>6. SummaryRows(marked, onboarded, daily) = (first (+) joins) (+) told
    BY DEF SummaryRows, told, first, joins
  <2>7. FillCounters(table, mks, daily) = SummaryRows(marked, onboarded, daily)
    BY <1>6 DEF FillCounters, marked
  <2> QED
    BY <2>5, <2>6, <2>7 DEF P
<1>7. CASE table \notin {"retention_cohorts", "activation_funnel_daily", "guild_summary_daily"}
  <2>1. FillCounters(table, mks, daily) = marked
    BY <1>7 DEF FillCounters, marked
  <2> QED
    BY <1>1, <2>1 DEF P
<1> QED BY <1>4, <1>5, <1>6, <1>7

LEMMA FilledTablesBag ==
  ASSUME RowsOK, NEW mks \in SUBSET MarkersOf(log), NEW tables \in SUBSET DOMAIN Columns,
         NEW daily, BagOf(Part("guild_daily_activity"), daily)
  PROVE  /\ BagOf(Cells, FilledTables(tables, mks, daily))
         /\ \A c \in DOMAIN FilledTables(tables, mks, daily) : c[1].table \in tables
         /\ \A c : Copies(c, FilledTables(tables, mks, daily)) =
              IF c[1].table \in tables THEN Copies(c, FillCounters(c[1].table, mks, daily)) ELSE 0
<1> DEFINE rows(t) == FillCounters(t, mks, daily)
           R == [t \in tables |-> rows(t)]
           B == [c \in UNION {DOMAIN R[t] : t \in tables} |-> R[c[1].table][c]]
<1>1. B = FilledTables(tables, mks, daily)
  BY DEF FilledTables
<1>2. \A t \in tables : BagOf(Part(t), rows(t))
  BY FillCountersBag
<1> HIDE DEF rows
<1>3. \A t \in tables : \A c \in DOMAIN rows(t) :
        c \in Cells /\ c[1].table = t /\ rows(t)[c] \in Nat /\ rows(t)[c] > 0
  BY <1>2 DEF BagOf, Part, IsABag
<1>4. \A c : c \in DOMAIN B <=> c[1].table \in tables /\ c \in DOMAIN rows(c[1].table)
  BY <1>3
<1>5. \A c \in DOMAIN B : B[c] = rows(c[1].table)[c]
  BY <1>4
<1>6. B = [c \in DOMAIN B |-> B[c]]
  OBVIOUS
<1> HIDE DEF B
<1>7. BagOf(Cells, B)
  <2>1. DOMAIN B \subseteq Cells /\ \A c \in DOMAIN B : B[c] \in Nat /\ B[c] > 0
    BY <1>3, <1>4, <1>5
  <2> QED
    BY <1>6, <2>1 DEF BagOf, IsABag
<1>8. \A c : Copies(c, B) = IF c[1].table \in tables THEN Copies(c, rows(c[1].table)) ELSE 0
  BY <1>4, <1>5 DEF Copies
<1>9. \A c \in DOMAIN B : c[1].table \in tables
  BY <1>4
<1> QED
  BY <1>1, <1>7, <1>8, <1>9 DEF rows

LEMMA UnfilledAre ==
  Unfilled \in SUBSET DOMAIN Columns
BY DEF Unfilled

\* The bag of increments waiting in handlers.
LEMMA PendingBag ==
  ASSUME TypeInv
  PROVE  /\ BagOf(Cells, Pending)
         /\ \A c : Copies(c, Pending) = Copies(c, Increments(work["events.member"]))
                                        + Copies(c, Increments(work["events.message"]))
                                        + Copies(c, Increments(work["events.voice"]))
<1>1. ASSUME NEW s \in Streams
      PROVE  BagOf(Cells, Increments(work[s]))
  <2> DEFINE D == Due(Event(s).member, log, Joined(Event(s).member))
  <2> HIDE DEF D
  <2>1. work[s] \in Seq(D) \/ work[s] = << >>
    BY DEF TypeInv, WorkersOK, Ahead, D
  <2>2. << >> \in Seq(D)
    OBVIOUS
  <2>3. work[s] \in Seq(D)
    BY <2>1, <2>2
  <2> QED BY <2>3, IncrementsBag DEF D
<1> DEFINE a == Increments(work["events.member"])
           b == Increments(work["events.message"])
           v == Increments(work["events.voice"])
<1>2. BagOf(Cells, a) /\ BagOf(Cells, b) /\ BagOf(Cells, v)
  BY <1>1 DEF Streams
<1>3. Pending = (a (+) b) (+) v
  BY DEF Pending
<1> HIDE DEF a, b, v
<1>4. BagOf(Cells, a (+) b) /\ \A c : Copies(c, a (+) b) = Copies(c, a) + Copies(c, b)
  BY <1>2, AddedBag, AddedCopies
<1> DEFINE ab == a (+) b
<1> HIDE DEF ab
<1>5. BagOf(Cells, ab (+) v) /\ \A c : Copies(c, ab (+) v) = Copies(c, ab) + Copies(c, v)
  BY <1>2, <1>4, AddedBag, AddedCopies DEF ab
<1>6. \A c : Copies(c, ab) = Copies(c, a) + Copies(c, b)
  BY <1>4 DEF ab
<1>7. Pending = ab (+) v
  BY <1>3 DEF ab
<1>8. BagOf(Cells, Pending) /\ \A c : Copies(c, Pending)
        = Copies(c, a) + Copies(c, b) + Copies(c, v)
  BY <1>5, <1>6, <1>7
<1> QED BY <1>8 DEF a, b, v

\* guild_daily_activity, as the tables after it see it.
Daily(mks, unfilled) ==
  IF "guild_daily_activity" \in unfilled
  THEN FillCounters("guild_daily_activity", mks, EmptyBag)
  ELSE OfTable(counts, "guild_daily_activity")

LEMMA DailyBag ==
  ASSUME TypeInv, NEW mks \in SUBSET MarkersOf(log), NEW unfilled
  PROVE  BagOf(Part("guild_daily_activity"), Daily(mks, unfilled))
<1>1. BagOf(Part("guild_daily_activity"), FillCounters("guild_daily_activity", mks, EmptyBag))
  <2>1. BagOf(Part("guild_daily_activity"), EmptyBag)
    BY EmptyBagOf
  <2>2. "guild_daily_activity" \in DOMAIN Columns
    BY CounterTablesAre DEF CohortCounters
  <2> QED BY <2>1, <2>2, TypedRows, FillCountersBag
<1>2. BagOf(Part("guild_daily_activity"), OfTable(counts, "guild_daily_activity"))
  <2> DEFINE B == OfTable(counts, "guild_daily_activity")
  <2>1. BagOf(Cells, counts)
    BY DEF TypeInv, CountersOK
  <2>2. BagOf(Cells, B) /\ \A c \in DOMAIN B : c[1].table = "guild_daily_activity"
    BY <2>1, TablesBag DEF OfTable
  <2> HIDE DEF B
  <2>3. BagOf(Part("guild_daily_activity"), B)
    BY <2>2, PartOf
  <2> QED BY <2>3 DEF B
<1> QED BY <1>1, <1>2 DEF Daily

\* What a restart leaves in the bags.
LEMMA RestartBags ==
  ASSUME TypeInv, NEW now \in 0 .. Len(log), Restart(now)
  PROVE  LET mks == MarkersAtStart(now)
             filled == FilledTables(Unfilled, mks, Daily(mks, Unfilled))
             called(c) == Copies(c, Called(mks))
         IN  /\ BagOf(Cells, filled)
             /\ \A c \in DOMAIN filled : c[1].table \in Unfilled
             /\ \A c : Copies(c, filled) =
                  IF c[1].table \in Unfilled THEN Copies(c, FillCounters(c[1].table, mks,
                    Daily(mks, Unfilled))) ELSE 0
             /\ BagOf(Cells, counts)' /\ BagOf(Cells, lost)' /\ BagOf(Cells, surplus)'
             /\ counts' = counts (+) filled
             /\ opener' = Opened({c[1] : c \in DOMAIN filled}, "startup")
             /\ \A c : Copies(c, counts') = Copies(c, counts) + Copies(c, filled)
             /\ \A c : Copies(c, lost') =
                  IF c[1].table \in Unfilled
                  THEN IF called(c) > Copies(c, filled) THEN called(c) - Copies(c, filled) ELSE 0
                  ELSE IF c[1].table \in DOMAIN Columns
                  THEN Copies(c, lost) + Copies(c, Pending) + Copies(c, Called(mks \ markers))
                  ELSE 0
             /\ \A c : Copies(c, surplus') =
                  Copies(c, surplus) +
                  IF c[1].table \in Unfilled
                  THEN IF Copies(c, filled) > called(c) THEN Copies(c, filled) - called(c) ELSE 0
                  ELSE 0
<1> DEFINE mks == MarkersAtStart(now)
           unfilled == Unfilled
           daily == Daily(mks, unfilled)
           filled == FilledTables(unfilled, mks, daily)
           marked == Called(mks)
           due == OfTables(marked, unfilled)
           fresh == Called(mks \ markers)
           pending == Pending
           waiting == lost (+) pending
           dropped == waiting (+) fresh
           kept == OfTables(dropped, DOMAIN Columns \ unfilled)
           lacking == due (-) filled
           more == filled (-) due
<1>1. mks \in SUBSET MarkersOf(log) /\ (mks \ markers) \in SUBSET MarkersOf(log)
  BY MarkersAtStartAre
<1>2. /\ counts' = counts (+) filled
      /\ opener' = Opened({c[1] : c \in DOMAIN filled}, "startup")
      /\ lost' = kept (+) lacking
      /\ surplus' = surplus (+) more
  BY DEF Restart, Daily
<1>3. BagOf(Cells, marked) /\ BagOf(Cells, fresh)
  BY <1>1, CalledBag DEF TypeInv
<1>4. BagOf(Cells, lost) /\ BagOf(Cells, surplus) /\ BagOf(Cells, counts) /\ BagOf(Cells, pending)
  BY PendingBag DEF TypeInv, HistoryOK, CountersOK
<1>5. BagOf(Part("guild_daily_activity"), daily) /\ RowsOK /\ unfilled \in SUBSET DOMAIN Columns
  BY <1>1, DailyBag, TypedRows, UnfilledAre
<1>6. /\ BagOf(Cells, filled)
      /\ \A c \in DOMAIN filled : c[1].table \in unfilled
      /\ \A c : Copies(c, filled) =
              IF c[1].table \in unfilled THEN Copies(c, FillCounters(c[1].table, mks, daily)) ELSE 0
  <2> HIDE DEF mks, unfilled, daily
  <2> QED BY <1>1, <1>5, FilledTablesBag
<1> HIDE DEF filled, marked, fresh, pending
<1>7. BagOf(Cells, due) /\ \A c : Copies(c, due) = IF c[1].table \in unfilled
        THEN Copies(c, marked) ELSE 0
  <2> HIDE DEF unfilled
  <2> QED BY <1>3, TablesBag
<1>8. BagOf(Cells, waiting) /\ \A c : Copies(c, waiting) = Copies(c, lost) + Copies(c, pending)
  BY <1>4, AddedBag, AddedCopies
<1> HIDE DEF waiting
<1>9. BagOf(Cells, dropped) /\ \A c : Copies(c, dropped) = Copies(c, waiting) + Copies(c, fresh)
  BY <1>3, <1>8, AddedBag, AddedCopies
<1> HIDE DEF dropped
<1>10. BagOf(Cells, kept) /\ \A c : Copies(c, kept) =
         IF c[1].table \in DOMAIN Columns \ unfilled THEN Copies(c, dropped) ELSE 0
  <2> HIDE DEF unfilled
  <2> QED BY <1>9, TablesBag
<1> HIDE DEF kept, due
<1>11. BagOf(Cells, lacking) /\ \A c : Copies(c, lacking) =
         IF Copies(c, due) > Copies(c, filled) THEN Copies(c, due) - Copies(c, filled) ELSE 0
  BY <1>6, <1>7, SubtractedBag, SubtractedCopies
<1>12. BagOf(Cells, more) /\ \A c : Copies(c, more) =
         IF Copies(c, filled) > Copies(c, due) THEN Copies(c, filled) - Copies(c, due) ELSE 0
  BY <1>6, <1>7, SubtractedBag, SubtractedCopies
<1> HIDE DEF lacking, more
<1>13. BagOf(Cells, counts (+) filled) /\ \A c : Copies(c, counts (+) filled)
         = Copies(c, counts) + Copies(c, filled)
  BY <1>4, <1>6, AddedBag, AddedCopies
<1>14. BagOf(Cells, kept (+) lacking) /\ \A c : Copies(c, kept (+) lacking)
         = Copies(c, kept) + Copies(c, lacking)
  BY <1>10, <1>11, AddedBag, AddedCopies
<1>15. BagOf(Cells, surplus (+) more) /\ \A c : Copies(c, surplus (+) more)
         = Copies(c, surplus) + Copies(c, more)
  BY <1>4, <1>12, AddedBag, AddedCopies
<1>16. \A c : Copies(c, marked) \in Nat /\ Copies(c, filled) \in Nat
         /\ Copies(c, surplus) \in Nat /\ Copies(c, lost) \in Nat /\ Copies(c, fresh) \in Nat
              /\ Copies(c, pending) \in Nat
  BY <1>3, <1>4, <1>6, CopiesAre
<1> DEFINE n(c) == Copies(c, marked)
           k(c) == Copies(c, filled)
<1>17. \A c : Copies(c, lost') =
                  IF c[1].table \in unfilled
                  THEN IF n(c) > k(c) THEN n(c) - k(c) ELSE 0
                  ELSE IF c[1].table \in DOMAIN Columns
                  THEN Copies(c, lost) + Copies(c, pending) + Copies(c, fresh)
                  ELSE 0
  <2> TAKE c
  <2> HIDE DEF unfilled
  <2>1. Copies(c, lost') = Copies(c, kept) + Copies(c, lacking)
    BY <1>2, <1>14
  <2>2. Copies(c, kept) = IF c[1].table \in DOMAIN Columns \ unfilled
          THEN Copies(c, lost) + Copies(c, pending) + Copies(c, fresh) ELSE 0
    BY <1>10, <1>9, <1>8
  <2>3. Copies(c, lacking) = IF c[1].table \in unfilled THEN IF n(c) > k(c) THEN n(c) - k(c)
          ELSE 0 ELSE 0
    BY <1>11, <1>7, <1>16
  <2> QED BY <2>1, <2>2, <2>3, <1>16
<1>18. \A c : Copies(c, surplus') =
                  Copies(c, surplus) +
                  IF c[1].table \in unfilled THEN IF k(c) > n(c) THEN k(c) - n(c) ELSE 0 ELSE 0
  <2> TAKE c
  <2> HIDE DEF unfilled
  <2>1. Copies(c, surplus') = Copies(c, surplus) + Copies(c, more)
    BY <1>2, <1>15
  <2>2. Copies(c, more) = IF c[1].table \in unfilled THEN IF k(c) > n(c) THEN k(c) - n(c)
          ELSE 0 ELSE 0
    BY <1>6, <1>12, <1>7, <1>16
  <2> QED BY <2>1, <2>2
<1>19. BagOf(Cells, counts)' /\ BagOf(Cells, lost)' /\ BagOf(Cells, surplus)'
  BY <1>2, <1>13, <1>14, <1>15 DEF BagOf
<1>20. \A c : Copies(c, counts') = Copies(c, counts) + Copies(c, filled)
  BY <1>2, <1>13
<1> QED
  BY <1>2, <1>6, <1>17, <1>18, <1>19, <1>20 DEF filled, marked, fresh, pending

LEMMA RestartTypes ==
  ASSUME TypeInv, NEW now \in 0 .. Len(log), Restart(now)
  PROVE  TypeInv'
<1>1. /\ UNCHANGED <<log, queue, lifecycle, activity, done, sawJoin>>
      /\ faultCount < MaxFaults /\ faultCount' = faultCount + 1
      /\ failed' = failed \union (Range(current) \ {0})
      /\ current' = [s \in Streams |-> 0]
      /\ work' = [s \in Streams |-> << >>]
      /\ markers' = MarkersAtStart(now)
      /\ reindexed' = reindexed \union {x.of : x \in Indexed(now) \ markers}
  BY DEF Restart
<1> DEFINE filled == FilledTables(Unfilled, MarkersAtStart(now), Daily(MarkersAtStart(now),
             Unfilled))
           rows == {c[1] : c \in DOMAIN filled}
<1>2. /\ BagOf(Cells, filled) /\ BagOf(Cells, counts)' /\ BagOf(Cells, lost)'
           /\ BagOf(Cells, surplus)'
      /\ opener' = Opened(rows, "startup")
  BY RestartBags
<1>3. QueuesOK'
  BY <1>1 DEF TypeInv, QueuesOK
<1>4. WorkersOK'
  BY <1>1 DEF WorkersOK, Busy
<1>5. MemberTablesOK'
  BY <1>1, MarkersAtStartAre DEF TypeInv, MemberTablesOK
<1>6. CountersOK'
  <2> HIDE DEF filled
  <2>1. rows \subseteq Rows
    BY <1>2, CellsAre DEF BagOf
  <2> HIDE DEF rows
  <2> QED
    BY <1>2, <2>1 DEF TypeInv, CountersOK, Opened
<1>7. HistoryOK'
  <2>1. reindexed' \subseteq DOMAIN log
    BY <1>1, IndexedAre DEF TypeInv, HistoryOK
  <2>2. failed' \subseteq DOMAIN log
    BY <1>1 DEF TypeInv, HistoryOK, WorkersOK, Range
  <2>3. faultCount' \in 0 .. MaxFaults
    BY <1>1, AnalyticsAssumption DEF TypeInv, HistoryOK
  <2> QED
    BY <1>1, <1>2, <2>1, <2>2, <2>3 DEF TypeInv, HistoryOK
<1> QED
  BY <1>1, <1>3, <1>4, <1>5, <1>6, <1>7 DEF TypeInv

-----------------------------------------------------------------------------
(* The initial states.                                                      *)

\* The events of a stream in any order, each once.
LEMMA ArrivalsAre ==
  ASSUME log \in Seq(Happenings), queue \in Arrivals, NEW s \in Streams,
         NEW here, here = {i \in DOMAIN log : StreamOf(log[i].kind) = s}
  PROVE  /\ queue[s] \in Seq(here) /\ DOMAIN queue = Streams /\ queue = [t \in Streams |-> queue[t]]
         /\ \A j, k \in DOMAIN queue[s] : queue[s][j] = queue[s][k] => j = k
<1> DEFINE size == Cardinality(here)
<1>1. size \in Nat
  <2>1. IsFiniteSet(1 .. Len(log)) /\ here \subseteq 1 .. Len(log)
    BY FS_Interval
  <2>2. IsFiniteSet(here)
    BY <2>1, FS_Subset
  <2> QED BY <2>2, FS_CardinalityType
<1>2. queue[s] \in SetToSeqs(here)
  BY DEF Arrivals
<1> HIDE DEF size
<1>3. queue[s] \in [1 .. size -> here]
      /\ \A j, k \in 1 .. size : j # k => queue[s][j] # queue[s][k]
  BY <1>2 DEF SetToSeqs, size
<1>4. DOMAIN queue = Streams /\ queue = [t \in Streams |-> queue[t]]
  BY DEF Arrivals
<1> QED BY <1>1, <1>3, <1>4

Joins == [Members -> Times \union {None}]

LEMMA InitTypes ==
  ASSUME NEW joined \in Joins, InitWith(joined)
  PROVE  TypeInv
<1>1. log \in Seq(Happenings) /\ DOMAIN log = 1 .. Len(log) /\ Len(log) \in Nat
  BY AnalyticsAssumption DEF InitWith, SeqOf
<1>2. /\ current = [s \in Streams |-> 0]
      /\ work = [s \in Streams |-> << >>]
      /\ activity = {} /\ reindexed = {} /\ lost = EmptyBag /\ surplus = EmptyBag
      /\ failed = {} /\ done = {} /\ sawJoin = {} /\ faultCount = 0
      /\ markers = FillAll({})
      /\ counts = FilledTables(DOMAIN Columns, markers, EmptyBag)
  BY DEF InitWith
<1>3. QueuesOK
  <2> DEFINE at(s) == {i \in DOMAIN log : StreamOf(log[i].kind) = s}
  <2>1. queue \in Arrivals
    BY DEF InitWith
  <2>2. \A s \in Streams : at(s) \in SUBSET (1 .. Len(log))
    BY <1>1
  <2>3. \A s \in Streams : queue[s] \in Seq(at(s)) /\ queue = [t \in Streams |-> queue[t]]
    BY <1>1, <2>1, ArrivalsAre
  <2> HIDE DEF at
  <2>4. \A s \in Streams : queue[s] \in Seq(DOMAIN log)
          /\ \A k \in DOMAIN queue[s] : queue[s][k] \in at(s)
    BY <1>1, <2>2, <2>3
  <2>5. queue \in [Streams -> Seq(DOMAIN log)]
    <3>1. queue = [t \in Streams |-> queue[t]]
      BY <2>3 DEF Streams
    <3> QED BY <2>4, <3>1
  <2> QED
    BY <2>4, <2>5 DEF QueuesOK, at
<1>4. WorkersOK
  BY <1>2 DEF WorkersOK, Busy
<1>5. lifecycle \in [Members -> [LifecycleColumns -> Times \union {None}]]
  BY DEF InitWith, Joins
<1>6. RowsOK
  BY <1>1, <1>2, <1>5 DEF RowsOK
<1>7. markers \in SUBSET MarkersOf(log)
  BY <1>2, <1>6, FillAllAre
<1>8. BagOf(Part("guild_daily_activity"), EmptyBag) /\ BagOf(Cells, EmptyBag)
  BY EmptyBagOf
<1>9. BagOf(Cells, counts)
  BY <1>2, <1>6, <1>7, <1>8, FilledTablesBag
<1>10. CountersOK
  <2> DEFINE stats == Cell("public_stats_cache", Whole, 0, "messages")
             rows == {c[1] : c \in DOMAIN counts \union {stats}}
  <2>1. stats \in Cells
    BY StatsCell
  <2>2. rows \subseteq Rows
    BY <1>9, <2>1, CellsAre DEF BagOf
  <2>3. opener = [row \in rows |-> IF row = stats[1] THEN stats[2] ELSE "startup"]
    BY DEF InitWith
  <2>4. stats[2] \in Columns[stats[1].table]
    BY <2>1, CellsAre
  <2> HIDE DEF stats, rows
  <2> QED
    BY <1>9, <2>2, <2>3, <2>4 DEF CountersOK
<1>11. HistoryOK
  BY <1>2, <1>8, AnalyticsAssumption DEF HistoryOK
<1> QED
  BY <1>1, <1>2, <1>3, <1>4, <1>5, <1>7, <1>10, <1>11 DEF TypeInv, MemberTablesOK

LEMMA NoJoins ==
  [m \in Members |-> None] \in Joins
BY DEF Joins

LEMMA StutteringTypes ==
  ASSUME TypeInv, UNCHANGED vars
  PROVE  TypeInv'
BY DEF TypeInv, QueuesOK, WorkersOK, Busy, Event, Ahead, Joined, MemberTablesOK, CountersOK,
   HistoryOK,
       BagOf, vars, tableVars, workerVars, historyVars

LEMMA StepTypes ==
  TypeInv /\ [Next]_vars => TypeInv'
BY BeginTypes, FindsClosedTypes, AllRunTypes, StatementFailsTypes, RestartTypes, StutteringTypes
   DEF Next

\* Every table, counter and history keeps its shape, and a handler only holds
\* statements about its own member that the member's lifecycle row allows.
THEOREM MemberTypes ==
  Spec => []TypeOK
<1>1. Init => TypeInv
  BY InitTypes, NoJoins DEF Init
<1>2. TypeInv => TypeOK
  BY TypesImplied
<1> QED
  BY <1>1, <1>2, StepTypes, PTL DEF Spec

-----------------------------------------------------------------------------
(* A step of a handler: what it leaves, and the markers it adds.            *)

\* What is left of a handler once its first statement is done.
LEMMA RunLeaves ==
  ASSUME NEW s \in Streams, Run(s)
  PROVE  /\ Busy(s)
         /\ \/ Proceed(s, Tail(work[s]))
            \/ \E mk : /\ Next1(s).op \in {"mark", "milestone"}
                       /\ markers' = markers \union {mk} /\ mk \notin markers
                       /\ ~\E old \in markers : SameKey(old, mk)
                       /\ Proceed(s, FollowUps(mk, Event(s)) \o Tail(work[s]))
            \/ RunRetention(s) \/ RunContribution(s)
<1>1. ASSUME NEW mk, Insert(s, mk), Next1(s).op \in {"mark", "milestone"}
      PROVE  \/ Proceed(s, Tail(work[s]))
             \/ /\ Next1(s).op \in {"mark", "milestone"}
                /\ markers' = markers \union {mk} /\ mk \notin markers
                /\ ~\E old \in markers : SameKey(old, mk)
                /\ Proceed(s, FollowUps(mk, Event(s)) \o Tail(work[s]))
  <2>1. SameKey(mk, mk)
    BY DEF SameKey
  <2> QED
    BY <1>1, <2>1 DEF Insert
<1>2. Busy(s)
  BY DEF Run, RunUpsert, RunActivity, RunMark, RunMilestone, RunCount, RunRetention, RunContribution
<1>3. CASE RunMark(s)
  BY <1>1, <1>2, <1>3 DEF RunMark
<1>4. CASE RunMilestone(s)
  BY <1>1, <1>2, <1>4 DEF RunMilestone
<1>5. CASE RunUpsert(s) \/ RunActivity(s) \/ RunCount(s)
  BY <1>2, <1>5 DEF RunUpsert, RunActivity, RunCount
<1> QED
  BY <1>2, <1>3, <1>4, <1>5 DEF Run

\* A marker comes from a statement that has it, or from a milestone that the
\* member has reached.
LEMMA NewMarker ==
  ASSUME NEW s \in Streams, Run(s), NEW mk \in markers' \ markers
  PROVE  /\ Busy(s) /\ markers' = markers \union {mk}
         /\ UNCHANGED <<lifecycle, activity>>
         /\ \/ Next1(s).op = "mark" /\ mk = Next1(s).arg
            \/ /\ Next1(s).op = "milestone"
               /\ mk = Marker(Next1(s).arg, Event(s).member, Whole, Day(Joined(Event(s).member)))
               /\ Eligible(Next1(s).arg, Event(s).member)
<1>1. CASE RunMark(s)
  BY <1>1 DEF RunMark, Insert
<1>2. CASE RunMilestone(s)
  <2>1. Eligible(Next1(s).arg, Event(s).member)
    BY <1>2 DEF RunMilestone, tableVars
  <2> QED
    BY <1>2, <2>1 DEF RunMilestone, Insert
<1>3. CASE ~RunMark(s) /\ ~RunMilestone(s)
  BY <1>3 DEF Run, RunUpsert, RunActivity, RunCount, RunRetention, RunContribution, tableVars
<1> QED BY <1>1, <1>2, <1>3

\* No row loses a column it has, left_at aside, and no marker goes.
ColumnsKept ==
  \A m \in Members : \A f \in LifecycleColumns \ {"left_at"} :
    lifecycle'[m][f] = lifecycle[m][f] \/ lifecycle[m][f] = None

LEMMA RunKeeps ==
  ASSUME TypeInv, NEW s \in Streams, Run(s)
  PROVE  ColumnsKept /\ markers \subseteq markers' /\ activity \subseteq activity' /\ log' = log
<1>1. markers \subseteq markers' /\ activity \subseteq activity'
  BY DEF Run, RunUpsert, RunActivity, RunMark, RunMilestone, RunCount, RunRetention,
     RunContribution,
         Insert, tableVars
<1>2. log' = log
  BY SameLog DEF Run, RunUpsert, RunActivity, RunMark, RunMilestone, RunCount, RunRetention,
                 RunContribution, Insert
<1>3. RunUpsert(s) => ColumnsKept
  BY UpsertKeeps DEF ColumnsKept
<1>4. ASSUME ~RunUpsert(s)
      PROVE  ColumnsKept
  BY <1>4 DEF Run, RunActivity, RunMark, RunMilestone, RunCount, RunRetention, RunContribution,
              Insert, tableVars, ColumnsKept
<1> QED BY <1>1, <1>2, <1>3, <1>4

\* A step that takes no statement leaves the tables as they are.
StoodStill ==
  UNCHANGED <<log, lifecycle, activity, markers>>

-----------------------------------------------------------------------------
(* One cohort to a member.                                                  *)

InCohort(mk) ==
  mk.table \in CohortTables /\ mk.day # None =>
    Joined(mk.member) # None /\ mk.day = Day(Joined(mk.member))

LEMMA CohortsAre ==
  OneCohort <=> \A mk \in markers : InCohort(mk)
BY DEF OneCohort, InCohort

LEMMA CohortStays ==
  ASSUME TypeInv, ColumnsKept, NEW mk \in MarkersOf(log), InCohort(mk)
  PROVE  InCohort(mk)'
<1>1. mk.member \in Members
  BY DEF MarkersOf
<1>2. Joined(mk.member)' = Joined(mk.member) \/ Joined(mk.member) = None
  BY <1>1 DEF ColumnsKept, Joined, LifecycleColumns
<1> QED BY <1>2 DEF InCohort

LEMMA CohortRuns ==
  ASSUME TypeInv, OneCohort, NEW s \in Streams, Run(s)
  PROVE  OneCohort'
<1>1. ColumnsKept /\ log' = log
  BY RunKeeps
<1>2. markers \subseteq MarkersOf(log)
  BY DEF TypeInv, MemberTablesOK
<1>3. \A mk \in markers : InCohort(mk)'
  BY <1>1, <1>2, CohortStays, CohortsAre
<1>4. ASSUME NEW mk \in markers' \ markers
      PROVE  InCohort(mk)'
  <2>1. Busy(s) /\ lifecycle' = lifecycle
    BY NewMarker
  <2>2. Event(s).member \in Members /\ Next1(s) \in Ahead(s)
    BY <2>1, AtWork
  <2>3. CASE Next1(s).op = "mark" /\ mk = Next1(s).arg
    <3>1. mk.member = Event(s).member /\ Founded(Next1(s), Joined(Event(s).member))
      BY <2>2, <2>3, StatementsAre, DueAre DEF Ahead
    <3> QED
      BY <2>1, <2>3, <3>1 DEF InCohort, Founded, Joined
  <2>4. CASE ~(Next1(s).op = "mark" /\ mk = Next1(s).arg)
    <3>1. /\ mk = Marker(Next1(s).arg, Event(s).member, Whole, Day(Joined(Event(s).member)))
          /\ Eligible(Next1(s).arg, Event(s).member)
      BY <2>4, NewMarker
    <3>2. mk.member = Event(s).member /\ mk.day = Day(Joined(Event(s).member))
            /\ Joined(Event(s).member) # None
      BY <3>1, MarkIs DEF Eligible
    <3> QED
      BY <2>1, <3>2 DEF InCohort, Joined
  <2> QED BY <2>3, <2>4
<1> QED
  BY <1>3, <1>4 DEF OneCohort, InCohort

LEMMA StartupCohorts ==
  ASSUME RowsOK, NEW mks \in SUBSET MarkersOf(log), \A mk \in mks : InCohort(mk),
         NEW table \in FirstFilled \union FilledFromThose, NEW mk \in StartupMarkers(table, mks)
  PROVE  InCohort(mk)
<1>1. mk.table = table
  BY StartupMarkersAre
<1>2. CASE table \notin CohortTables
  BY <1>1, <1>2 DEF InCohort
<1>3. CASE table = "guild_onboarded_members"
  <2>1. mk \in OnboardedMarkers
    BY <1>3 DEF StartupMarkers
  <2> QED BY <2>1, MarkIs DEF OnboardedMarkers, InCohort
<1>4. CASE table \in {"retention_cohort_d7_members", "retention_cohort_d30_members"}
  <2>1. PICK ages : mk \in RetainedMarkers(table, ages)
    BY <1>4 DEF StartupMarkers
  <2> QED BY <2>1, MarkIs DEF RetainedMarkers, InCohort
<1>5. CASE table \in FilledFromThose
  <2>1. PICK retained \in {"retention_cohort_d7_members", "retention_cohort_d30_members"} :
          mk \in ContributionMarkers(table, retained, mks)
    BY <1>5 DEF StartupMarkers, FilledFromThose
  <2>2. PICK r \in mks, x \in mks :
          r.table = retained /\ mk = Marker(table, r.member, log[x.of].channel, r.day)
    BY <2>1 DEF ContributionMarkers
  <2>3. mk.member = r.member /\ mk.day = r.day
    BY <2>2, MarkIs
  <2>4. r.table \in CohortTables
    BY <2>1, <2>2 DEF CohortTables
  <2> QED BY <2>2, <2>3, <2>4 DEF InCohort
<1>6. CASE table \in Milestones
  <2>1. mk \in StepMarkers(table)
    BY <1>6 DEF StartupMarkers, Milestones
  <2> QED BY <2>1, MarkIs DEF StepMarkers, Eligible, InCohort
<1> QED
  BY <1>2, <1>3, <1>4, <1>5, <1>6 DEF FilledFromThose, CohortTables

LEMMA FilledCohorts ==
  ASSUME RowsOK, NEW mks \in SUBSET MarkersOf(log), \A mk \in mks : InCohort(mk)
  PROVE  \A mk \in FillAll(mks) : InCohort(mk)
<1>1. ASSUME NEW given \in SUBSET MarkersOf(log), \A mk \in given : InCohort(mk),
             NEW tables \in SUBSET (FirstFilled \union FilledFromThose)
      PROVE  \A mk \in FillMarkers(tables, given) : InCohort(mk)
  <2> TAKE mk \in FillMarkers(tables, given)
  <2>1. mk \in given \/ \E t \in tables : mk \in StartupMarkers(t, given)
    BY DEF FillMarkers
  <2> QED BY <1>1, <2>1, StartupCohorts
<1> DEFINE first == FillMarkers(FirstFilled, mks)
<1>2. first \in SUBSET MarkersOf(log) /\ \A mk \in first : InCohort(mk)
  BY <1>1, FillMarkersAre
<1> HIDE DEF first
<1>3. \A mk \in FillMarkers(FilledFromThose, first) : InCohort(mk)
  BY <1>1, <1>2
<1> QED BY <1>3 DEF FillAll, first

LEMMA IndexedCohorts ==
  ASSUME log \in Seq(Happenings), NEW now \in 0 .. Len(log), NEW mk \in Indexed(now)
  PROVE  InCohort(mk)
<1>1. mk.table = "message_index"
  BY IndexedAre
<1> QED BY <1>1 DEF InCohort, CohortTables, Milestones

LEMMA CohortRestarts ==
  ASSUME TypeInv, OneCohort, NEW now \in 0 .. Len(log), Restart(now)
  PROVE  OneCohort'
<1> DEFINE known == markers \union Indexed(now)
<1>1. RowsOK /\ log \in Seq(Happenings)
  BY TypedRows DEF TypeInv
<1>2. known \in SUBSET MarkersOf(log) /\ \A mk \in known : InCohort(mk)
  BY <1>1, IndexedAre, IndexedCohorts, CohortsAre DEF TypeInv, MemberTablesOK
<1> HIDE DEF known
<1>3. \A mk \in FillAll(known) : InCohort(mk)
  BY <1>1, <1>2, FilledCohorts
<1>4. markers' = FillAll(known) /\ lifecycle' = lifecycle
  BY DEF Restart, MarkersAtStart, known
<1> QED
  BY <1>3, <1>4 DEF OneCohort, InCohort, Joined

LEMMA CohortStep ==
  ASSUME TypeInv, OneCohort, [Next]_vars
  PROVE  OneCohort'
<1>1. CASE StoodStill
  BY <1>1 DEF OneCohort, Joined, StoodStill
<1>2. ASSUME NEW s \in Streams, Run(s)
      PROVE  OneCohort'
  BY <1>2, CohortRuns
<1>3. ASSUME NEW now \in 0 .. Len(log), Restart(now)
      PROVE  OneCohort'
  BY <1>3, CohortRestarts
<1> QED
  BY <1>1, <1>2, <1>3
  DEF Next, Begin, FindsClosed, StatementFails, Fail, StoodStill, vars, tableVars

LEMMA InitCohorts ==
  ASSUME NEW joined \in Joins, InitWith(joined)
  PROVE  OneCohort
<1>1. RowsOK /\ markers = FillAll({})
  BY InitTypes, TypedRows DEF InitWith
<1>2. \A mk \in FillAll({}) : InCohort(mk)
  BY <1>1, FilledCohorts
<1> QED BY <1>1, <1>2, CohortsAre

\* A member belongs to one cohort for ever: whatever it does again, however
\* often a handler runs and whenever the worker restarts, all that is counted
\* of it is counted on the day of its first dated join.
THEOREM Cohorts ==
  Spec => []OneCohort
<1>1. Init => TypeInv /\ OneCohort
  BY InitTypes, InitCohorts, NoJoins DEF Init
<1>2. TypeInv /\ OneCohort /\ [Next]_vars => TypeInv' /\ OneCohort'
  BY StepTypes, CohortStep
<1> QED
  BY <1>1, <1>2, PTL DEF Spec

-----------------------------------------------------------------------------
(* Markers and the rows that justify them.                                  *)

\* A day of activity that puts a member of this cohort into the week.
Returned(m, day, ages, act) == \E a \in act : a[1] = m /\ a[2] - day \in ages

\* Only milestones mark steps, and retention is looked at on a day of activity.
Reasoned(st, m, act) ==
  /\ st.op = "mark" =>
       /\ st.arg.table \notin Steps
       /\ st.arg.table = "retention_cohort_d7_members" => Returned(m, st.arg.day, 7 .. 13, act)
       /\ st.arg.table = "retention_cohort_d30_members" => Returned(m, st.arg.day, 30 .. 36, act)
  /\ st.op = "retention" => <<m, st.arg>> \in act

ActiveMark(st) == st.op = "mark" /\ st.arg.table = "guild_daily_active_members"

\* A day is written down as one of activity before the member is marked active.
Reasons(statements, m, act) ==
  \A k \in DOMAIN statements :
    /\ Reasoned(statements[k], m, act)
    /\ ActiveMark(statements[k]) =>
         \/ <<m, statements[k].arg.day>> \in act
         \/ \E j \in DOMAIN statements : j < k /\ statements[j]
              = Do("activity", statements[k].arg.day)

LEMMA ReasonedMore ==
  ASSUME NEW st, NEW m, NEW act, NEW more, act \subseteq more, Reasoned(st, m, act)
  PROVE  Reasoned(st, m, more)
BY DEF Reasoned, Returned

LEMMA ReasonsMore ==
  ASSUME NEW statements, NEW m, NEW act, NEW more, act \subseteq more, Reasons(statements, m, act)
  PROVE  Reasons(statements, m, more)
BY ReasonedMore DEF Reasons

LEMMA ReasonsTail ==
  ASSUME NEW S, NEW statements \in Seq(S), statements # << >>, NEW m,
           NEW act, Reasons(statements, m, act),
         NEW more, act \subseteq more,
         Head(statements).op = "activity" => <<m, Head(statements).arg>> \in more
  PROVE  Reasons(Tail(statements), m, more)
<1> DEFINE rest == Tail(statements)
<1>1. /\ rest \in Seq(S) /\ statements[1] = Head(statements)
      /\ \A k \in DOMAIN rest : k \in Nat /\ k + 1 \in DOMAIN statements
           /\ rest[k] = statements[k + 1]
      /\ \A j \in DOMAIN statements : j = 1 \/ (j - 1 \in DOMAIN rest
           /\ rest[j - 1] = statements[j] /\ j \in Nat)
  OBVIOUS
<1> HIDE DEF rest
<1> SUFFICES ASSUME NEW k \in DOMAIN rest
             PROVE  /\ Reasoned(rest[k], m, more)
                    /\ ActiveMark(rest[k]) =>
                         \/ <<m, rest[k].arg.day>> \in more
                         \/ \E j \in DOMAIN rest : j < k
                              /\ rest[j] = Do("activity", rest[k].arg.day)
  BY DEF Reasons, rest
<1>2. k + 1 \in DOMAIN statements /\ rest[k] = statements[k + 1] /\ k \in Nat
  BY <1>1
<1>3. Reasoned(rest[k], m, more)
  BY <1>2, ReasonedMore DEF Reasons
<1>4. ASSUME ActiveMark(rest[k]), <<m, rest[k].arg.day>> \notin more
      PROVE  \E j \in DOMAIN rest : j < k /\ rest[j] = Do("activity", rest[k].arg.day)
  <2>1. PICK j \in DOMAIN statements : j < k + 1 /\ statements[j] = Do("activity", rest[k].arg.day)
    BY <1>2, <1>4 DEF Reasons
  <2>2. j # 1
    <3>1. Do("activity", rest[k].arg.day).op = "activity"
            /\ Do("activity", rest[k].arg.day).arg = rest[k].arg.day
      BY DEF Do
    <3> QED BY <1>1, <1>4, <2>1, <3>1
  <2>3. j - 1 \in DOMAIN rest /\ rest[j - 1] = statements[j] /\ j \in Nat
    BY <1>1, <2>2
  <2>4. j - 1 < k
    BY <1>2, <2>1, <2>3
  <2> QED BY <2>1, <2>3, <2>4
<1> QED BY <1>3, <1>4

LEMMA ReasonsBoth ==
  ASSUME NEW S, NEW first \in Seq(S), NEW last \in Seq(S), NEW m, NEW act,
         Reasons(first, m, act), Reasons(last, m, act)
  PROVE  Reasons(first \o last, m, act)
<1> DEFINE both == first \o last
           n == Len(first)
<1>1. n \in Nat
  OBVIOUS
<1>2. \A k \in DOMAIN both :
        \/ k \in DOMAIN first /\ both[k] = first[k]
        \/ k \in Nat /\ k > n /\ k - n \in DOMAIN last /\ both[k] = last[k - n]
  OBVIOUS
<1>3. /\ \A k \in DOMAIN first : k \in DOMAIN both /\ both[k] = first[k]
      /\ \A k \in DOMAIN last : k \in Nat /\ k + n \in DOMAIN both /\ both[k + n] = last[k]
  OBVIOUS
<1> HIDE DEF both, n
<1> SUFFICES ASSUME NEW k \in DOMAIN both
             PROVE  /\ Reasoned(both[k], m, act)
                    /\ ActiveMark(both[k]) =>
                         \/ <<m, both[k].arg.day>> \in act
                         \/ \E j \in DOMAIN both : j < k
                              /\ both[j] = Do("activity", both[k].arg.day)
  BY DEF Reasons, both
<1>4. CASE k \in DOMAIN first /\ both[k] = first[k]
  BY <1>3, <1>4 DEF Reasons
<1>5. CASE k \in Nat /\ k > n /\ k - n \in DOMAIN last /\ both[k] = last[k - n]
  <2>1. Reasoned(both[k], m, act)
    BY <1>5 DEF Reasons
  <2>2. ASSUME ActiveMark(both[k]), <<m, both[k].arg.day>> \notin act
        PROVE  \E j \in DOMAIN both : j < k /\ both[j] = Do("activity", both[k].arg.day)
    <3>1. PICK j \in DOMAIN last : j < k - n /\ last[j] = Do("activity", both[k].arg.day)
      BY <1>5, <2>2 DEF Reasons
    <3>2. j + n \in DOMAIN both /\ both[j + n] = last[j] /\ j + n < k
      BY <1>1, <1>3, <1>5, <3>1
    <3> QED BY <3>1, <3>2
  <2> QED BY <2>1, <2>2
<1> QED BY <1>2, <1>4, <1>5

\* Statements that need no reason.
LEMMA Reasonless ==
  ASSUME NEW statements, NEW m, NEW act,
         \A k \in DOMAIN statements : ~ActiveMark(statements[k]) /\ Reasoned(statements[k], m, act)
  PROVE  Reasons(statements, m, act)
BY DEF Reasons

LEMMA StatementIs ==
  /\ \A op, arg : Do(op, arg).op = op /\ Do(op, arg).arg = arg
  /\ \A x : Upsert(x) = Do("upsert", x) /\ Mark(x) = Do("mark", x)
            /\ Milestone(x) = Do("milestone", x) /\ Count(x) = Do("count", x)
BY DEF Do, Upsert, Mark, Milestone, Count

LEMMA ReasonsHandler ==
  ASSUME NEW i \in DOMAIN log, log \in Seq(Happenings), StreamOf(log[i].kind) \in Streams, NEW act
  PROVE  Reasons(Handler(i), log[i].member, act)
<1> DEFINE e == log[i]
           mk(table, of) == Mark(Marker(table, e.member, of, Day(e.at)))
<1>1. e.kind \in HandlerKinds
  BY EventsAre, StreamsAre
<1>2. \A table, of : mk(table, of).op = "mark" /\ mk(table, of).arg.table = table
        /\ mk(table, of).arg.day = Day(e.at)
  BY StatementIs, MarkIs
<1>3. \A x : /\ Reasoned(Upsert(x), e.member, act) /\ ~ActiveMark(Upsert(x))
             /\ Reasoned(Milestone(x), e.member, act) /\ ~ActiveMark(Milestone(x))
             /\ Reasoned(Do("activity", x), e.member, act) /\ ~ActiveMark(Do("activity", x))
  BY StatementIs DEF Reasoned, ActiveMark
<1>4. \A table \in {"guild_joined_members", "guild_left_members", "message_index",
        "guild_daily_active_members"} :
        \A of : Reasoned(mk(table, of), e.member, act)
  BY <1>2 DEF Reasoned, Steps, Milestones
<1>5. \A table \in {"guild_joined_members", "guild_left_members", "message_index"} :
        \A of : ~ActiveMark(mk(table, of))
  BY <1>2 DEF ActiveMark
<1> HIDE DEF mk
<1>6. CASE e.kind = "join"
  BY <1>3, <1>4, <1>5, <1>6 DEF Handler, Reasons, mk
<1>7. CASE e.kind = "joinWithRole"
  BY <1>3, <1>4, <1>5, <1>7 DEF Handler, Reasons, mk
<1>8. CASE e.kind = "joinUndated"
  BY <1>3, <1>8 DEF Handler, Reasons
<1>9. CASE e.kind = "leave"
  BY <1>3, <1>4, <1>5, <1>9 DEF Handler, Reasons, mk
<1>10. CASE e.kind \in {"roles", "rolesCleared"}
  BY <1>3, <1>10 DEF Handler, Reasons
<1>11. CASE e.kind \in {"message", "botMessage"}
  BY <1>4, <1>5, <1>11 DEF Handler, Reasons, mk
<1>12. CASE e.kind = "reaction"
  <2> DEFINE h == Handler(i)
  <2>1. h = <<Do("activity", Day(e.at)), mk("guild_daily_active_members", Whole),
               Upsert({"first_reaction_at"}), Milestone("first_reaction_at")>>
    BY <1>12 DEF Handler, mk
  <2> HIDE DEF h
  <2>2. \A k \in DOMAIN h : Reasoned(h[k], e.member, act)
    BY <1>3, <1>4, <2>1
  <2>3. \A k \in DOMAIN h : ActiveMark(h[k]) => k = 2
    BY <1>3, <2>1
  <2>4. h[1] = Do("activity", h[2].arg.day) /\ 1 \in DOMAIN h
    BY <1>2, <2>1
  <2> QED BY <2>2, <2>3, <2>4 DEF Reasons, h
<1>13. CASE e.kind = "voiceJoin"
  BY <1>3, <1>13 DEF Handler, Reasons
<1>14. CASE e.kind = "voiceLeave"
  <2> DEFINE h == Handler(i)
  <2>1. h = <<Do("activity", Day(e.at)), mk("guild_daily_active_members", Whole)>>
    BY <1>14 DEF Handler, mk
  <2> HIDE DEF h
  <2>2. \A k \in DOMAIN h : Reasoned(h[k], e.member, act)
    BY <1>3, <1>4, <2>1
  <2>3. \A k \in DOMAIN h : ActiveMark(h[k]) => k = 2
    BY <1>3, <2>1
  <2>4. h[1] = Do("activity", h[2].arg.day) /\ 1 \in DOMAIN h
    BY <1>2, <2>1
  <2> QED BY <2>2, <2>3, <2>4 DEF Reasons, h
<1> QED
  BY <1>1, <1>6, <1>7, <1>8, <1>9, <1>10, <1>11, <1>12, <1>13, <1>14 DEF HandlerKinds, EventKinds

LEMMA ReasonsMessage ==
  ASSUME NEW e, NEW act
  PROVE  Reasons(MessageSteps(e), e.member, act)
<1> DEFINE mk == Mark(Marker("guild_daily_active_members", e.member, Whole, Day(e.at)))
           h == MessageSteps(e)
<1>1. mk.op = "mark" /\ mk.arg.table = "guild_daily_active_members" /\ mk.arg.day = Day(e.at)
  BY StatementIs, MarkIs
<1>2. Reasoned(mk, e.member, act)
  BY <1>1 DEF Reasoned, Steps, Milestones
<1>3. \A x : /\ Reasoned(Upsert(x), e.member, act) /\ ~ActiveMark(Upsert(x))
             /\ Reasoned(Milestone(x), e.member, act) /\ ~ActiveMark(Milestone(x))
             /\ Reasoned(Do("activity", x), e.member, act) /\ ~ActiveMark(Do("activity", x))
  BY StatementIs DEF Reasoned, ActiveMark
<1>4. h = << >> \/ h = <<Upsert({"first_message_at"}), Milestone("guild_onboarded_members"),
                         Milestone("first_message_at"), Do("activity", Day(e.at)), mk>>
  BY DEF MessageSteps
<1> HIDE DEF mk, h
<1>5. \A k \in DOMAIN h : Reasoned(h[k], e.member, act)
  BY <1>2, <1>3, <1>4
<1>6. \A k \in DOMAIN h : ActiveMark(h[k]) => k = 5 /\ h[4] = Do("activity", h[5].arg.day)
        /\ 4 \in DOMAIN h
  BY <1>1, <1>3, <1>4
<1> QED BY <1>5, <1>6 DEF Reasons, h

LEMMA ReasonsFollow ==
  ASSUME NEW e \in Happenings, NEW mk \in MarkersOf(log), NEW act,
         mk.table = "guild_daily_active_members" => <<e.member, mk.day>> \in act
  PROVE  Reasons(FollowUps(mk, e), e.member, act)
<1> DEFINE first == [j \in DOMAIN CountedIn(mk) |-> Count(CountedIn(mk)[j])]
           S == Due(e.member, log, 0)
<1>1. CountedIn(mk) \in Seq(Cells)
  BY CountedInCells
<1>2. \A c \in Cells : Count(c) \in S
  BY DueIn
<1>3. first \in Seq(S)
  BY <1>1, <1>2
<1>4. Reasons(first, e.member, act)
  <2>1. \A c : Reasoned(Count(c), e.member, act) /\ ~ActiveMark(Count(c))
    BY StatementIs DEF Reasoned, ActiveMark
  <2>2. \A k \in DOMAIN first : ~ActiveMark(first[k]) /\ Reasoned(first[k], e.member, act)
    BY <2>1
  <2> HIDE DEF first
  <2> QED BY <2>2, Reasonless
<1>5. MessageSteps(e) \in Seq(S) /\ Reasons(MessageSteps(e), e.member, act)
  BY MessageStepsIn, ReasonsMessage
<1>6. ASSUME mk.table = "guild_daily_active_members"
      PROVE  <<Do("retention", mk.day)>> \in Seq(S)
               /\ Reasons(<<Do("retention", mk.day)>>, e.member, act)
  <2>1. mk.day \in Days
    BY <1>6 DEF MarkersOf, Fits
  <2>2. Do("retention", mk.day) \in S
    BY <2>1, DueIn
  <2>3. Reasoned(Do("retention", mk.day), e.member, act) /\ ~ActiveMark(Do("retention", mk.day))
    BY <1>6, StatementIs DEF Reasoned, ActiveMark
  <2> HIDE DEF S
  <2> QED BY <2>2, <2>3 DEF Reasons
<1>7. ASSUME NEW table \in FilledFromThose
      PROVE  <<Do("contribution", table)>> \in Seq(S)
               /\ Reasons(<<Do("contribution", table)>>, e.member, act)
  <2>1. Do("contribution", table) \in S
    BY DueIn DEF None
  <2>2. Reasoned(Do("contribution", table), e.member, act) /\ ~ActiveMark(Do("contribution", table))
    BY StatementIs DEF Reasoned, ActiveMark
  <2> HIDE DEF S
  <2> QED BY <2>1, <2>2 DEF Reasons
<1>8. << >> \in Seq(S) /\ Reasons(<< >>, e.member, act)
  BY DEF Reasons
<1> HIDE DEF S, first
<1>9. PICK last \in Seq(S) : FollowUps(mk, e) = first \o last /\ Reasons(last, e.member, act)
  BY <1>5, <1>6, <1>7, <1>8 DEF FollowUps, FilledFromThose, first
<1> QED
  BY <1>3, <1>4, <1>9, ReasonsBoth

WorkReasoned == \A s \in Streams : Busy(s) => Reasons(work[s], Event(s).member, activity)

LEMMA ProceedWork ==
  ASSUME TypeInv, NEW s \in Streams, Busy(s), NEW rest, Proceed(s, rest)
  PROVE  /\ log' = log
         /\ \A t \in Streams : t # s => current'[t] = current[t] /\ work'[t] = work[t]
         /\ ~Busy(s)' \/ (current'[s] = current[s] /\ work'[s] = rest)
BY DEF TypeInv, WorkersOK, Proceed, Fail, Busy

LEMMA ReasonsProceed ==
  ASSUME TypeInv, WorkReasoned, NEW s \in Streams, Busy(s), NEW rest, Proceed(s, rest),
         activity \subseteq activity', Reasons(rest, Event(s).member, activity')
  PROVE  WorkReasoned'
<1> SUFFICES ASSUME NEW t \in Streams, Busy(t)'
             PROVE  Reasons(work[t], Event(t).member, activity)'
  BY DEF WorkReasoned
<1>1. CASE t = s
  <2>1. work'[t] = rest /\ Event(t)' = Event(s)
    BY <1>1, ProceedWork DEF Event
  <2>2. Reasons(work'[t], Event(t)'.member, activity')
    BY <2>1
  <2> QED BY <2>2 DEF Reasons
<1>2. CASE t # s
  <2>1. work'[t] = work[t] /\ Event(t)' = Event(t) /\ Busy(t)
    BY <1>2, ProceedWork DEF Event, Busy
  <2>2. Reasons(work[t], Event(t).member, activity')
    BY <2>1, ReasonsMore DEF WorkReasoned
  <2>3. Reasons(work'[t], Event(t)'.member, activity')
    BY <2>1, <2>2
  <2> QED BY <2>3 DEF Reasons
<1> QED BY <1>1, <1>2

LEMMA ReasonsRest ==
  ASSUME TypeInv, WorkReasoned, NEW s \in Streams, Busy(s), NEW more, activity \subseteq more,
         Next1(s).op = "activity" => <<Event(s).member, Next1(s).arg>> \in more
  PROVE  Reasons(Tail(work[s]), Event(s).member, more)
<1> DEFINE S == Ahead(s)
<1>1. work[s] \in Seq(S) /\ work[s] # << >>
  BY AtWork
<1>2. Reasons(work[s], Event(s).member, activity)
  BY DEF WorkReasoned
<1> HIDE DEF S
<1> QED BY <1>1, <1>2, ReasonsTail DEF Next1

\* What the first statement of a handler has as a reason.
LEMMA FirstReasoned ==
  ASSUME TypeInv, WorkReasoned, NEW s \in Streams, Busy(s)
  PROVE  /\ Reasoned(Next1(s), Event(s).member, activity)
         /\ ActiveMark(Next1(s)) => <<Event(s).member, Next1(s).arg.day>> \in activity
<1> DEFINE S == Ahead(s)
<1>1. work[s] \in Seq(S) /\ work[s] # << >>
  BY AtWork
<1> HIDE DEF S
<1>2. 1 \in DOMAIN work[s] /\ work[s][1] = Next1(s) /\ ~\E j \in DOMAIN work[s] : j < 1
  BY <1>1 DEF Next1
<1> QED
  BY <1>2 DEF WorkReasoned, Reasons

LEMMA ReasonsRetention ==
  ASSUME TypeInv, WorkReasoned, NEW s \in Streams, RunRetention(s)
  PROVE  WorkReasoned'
<1> DEFINE m == Event(s).member
           age == Next1(s).arg - Day(Joined(m))
           mark(table) == Mark(Marker(table, m, Whole, Day(Joined(m))))
           d7 == IF age \in 7 .. 13 THEN <<mark("retention_cohort_d7_members")>> ELSE << >>
           d30 == IF age \in 30 .. 36 THEN <<mark("retention_cohort_d30_members")>> ELSE << >>
           marks == IF Joined(m) = None THEN << >> ELSE d7 \o d30
           S == {mark("retention_cohort_d7_members"), mark("retention_cohort_d30_members")}
<1>1. Busy(s) /\ Proceed(s, marks \o Tail(work[s])) /\ Next1(s).op = "retention"
      /\ UNCHANGED <<tableVars, sawJoin>>
  BY DEF RunRetention
<1>2. <<m, Next1(s).arg>> \in activity
  BY <1>1, FirstReasoned DEF Reasoned
<1>3. \A table : /\ mark(table).op = "mark" /\ mark(table).arg.table = table
                 /\ mark(table).arg.day = Day(Joined(m))
  BY StatementIs, MarkIs
<1>4. age \in 7 .. 13 => Returned(m, Day(Joined(m)), 7 .. 13, activity)
  BY <1>2 DEF Returned
<1>5. age \in 30 .. 36 => Returned(m, Day(Joined(m)), 30 .. 36, activity)
  BY <1>2 DEF Returned
<1> HIDE DEF mark, age, m
<1>6. Reasons(d7, m, activity)
  <2>1. age \in 7 .. 13 => Reasoned(mark("retention_cohort_d7_members"), m, activity)
                           /\ ~ActiveMark(mark("retention_cohort_d7_members"))
    BY <1>3, <1>4 DEF Reasoned, Steps, Milestones, ActiveMark
  <2>2. \A k \in DOMAIN d7 : ~ActiveMark(d7[k]) /\ Reasoned(d7[k], m, activity)
    BY <2>1
  <2> HIDE DEF d7
  <2> QED BY <2>2, Reasonless
<1>7. Reasons(d30, m, activity)
  <2>1. age \in 30 .. 36 => Reasoned(mark("retention_cohort_d30_members"), m, activity)
                            /\ ~ActiveMark(mark("retention_cohort_d30_members"))
    BY <1>3, <1>5 DEF Reasoned, Steps, Milestones, ActiveMark
  <2>2. \A k \in DOMAIN d30 : ~ActiveMark(d30[k]) /\ Reasoned(d30[k], m, activity)
    BY <2>1
  <2> HIDE DEF d30
  <2> QED BY <2>2, Reasonless
<1>8. d7 \in Seq(S) /\ d30 \in Seq(S)
  <2> DEFINE a == mark("retention_cohort_d7_members")
             b == mark("retention_cohort_d30_members")
  <2>1. a \in S /\ b \in S
    OBVIOUS
  <2> HIDE DEF S, a, b
  <2>2. <<a>> \in Seq(S) /\ <<b>> \in Seq(S) /\ << >> \in Seq(S)
    BY <2>1
  <2>3. d7 \in {<<a>>, << >>} /\ d30 \in {<<b>>, << >>}
    BY DEF a, b
  <2> QED BY <2>2, <2>3
<1> HIDE DEF d7, d30
<1>9. marks \in Seq(S) /\ Reasons(marks, m, activity)
  <2>1. << >> \in Seq(S) /\ Reasons(<< >>, m, activity)
    BY DEF Reasons
  <2> HIDE DEF S
  <2>2. d7 \o d30 \in Seq(S) /\ Reasons(d7 \o d30, m, activity)
    BY <1>6, <1>7, <1>8, ReasonsBoth
  <2> QED BY <2>1, <2>2
<1> DEFINE T == S \union Ahead(s)
           rest == Tail(work[s])
<1>10. marks \in Seq(T) /\ rest \in Seq(T)
  <2>1. rest \in Seq(Ahead(s))
    BY <1>1, AtWork
  <2> DEFINE A == Ahead(s)
  <2> HIDE DEF S, marks, rest, A
  <2>2. rest \in Seq(A) /\ marks \in Seq(S)
    BY <1>9, <2>1 DEF A
  <2>3. marks \in Seq(S \union A) /\ rest \in Seq(S \union A)
    BY <2>2
  <2> QED BY <2>3 DEF A
<1>11. Reasons(rest, m, activity)
  BY <1>1, ReasonsRest DEF m
<1> HIDE DEF T, marks, rest
<1>12. Reasons(marks \o rest, m, activity)
  BY <1>9, <1>10, <1>11, ReasonsBoth
<1>13. activity' = activity
  BY <1>1 DEF tableVars
<1> QED
  BY <1>1, <1>12, <1>13, ReasonsProceed DEF m, rest

LEMMA ReasonsContribution ==
  ASSUME TypeInv, WorkReasoned, NEW s \in Streams, RunContribution(s)
  PROVE  WorkReasoned'
<1> DEFINE m == Event(s).member
           table == Next1(s).arg
           channels == SetToSeq(FirstWeekChannels(m))
           mark(c) == Mark(Marker(table, m, c, Day(Joined(m))))
           marks == [j \in DOMAIN channels |-> mark(channels[j])]
           rest == Tail(work[s])
<1>1. Busy(s) /\ Proceed(s, marks \o rest) /\ Next1(s).op = "contribution"
      /\ UNCHANGED <<tableVars, sawJoin>>
  BY DEF RunContribution
<1>2. m \in Members /\ rest \in Seq(Ahead(s)) /\ Next1(s) \in Ahead(s)
  BY <1>1, AtWork
<1>3. table \in FilledFromThose
  BY <1>1, <1>2, StatementsAre, DueAre DEF Ahead
<1>4. \A c : /\ mark(c).op = "mark" /\ mark(c).arg.table = table
  BY StatementIs, MarkIs
<1>5. \A c : Reasoned(mark(c), m, activity) /\ ~ActiveMark(mark(c))
  BY <1>3, <1>4 DEF Reasoned, FilledFromThose, Steps, Milestones, ActiveMark
<1>6. channels \in Seq(FirstWeekChannels(m))
  <2>1. IsFiniteSet(FirstWeekChannels(m))
    <3>1. FirstWeekChannels(m) \in SUBSET Channels
      BY EventsAre DEF FirstWeekChannels, TypeInv, MemberTablesOK, MarkersOf, Fits
    <3> QED BY <3>1, AnalyticsAssumption, FS_Subset
  <2> QED BY <2>1, SequenceOfSet
<1> DEFINE S == {mark(c) : c \in FirstWeekChannels(m)}
<1>7. marks \in Seq(S)
  <2> HIDE DEF channels, mark
  <2> QED BY <1>6
<1>8. Reasons(marks, m, activity)
  <2>1. \A k \in DOMAIN marks : ~ActiveMark(marks[k]) /\ Reasoned(marks[k], m, activity)
    BY <1>5
  <2> HIDE DEF marks
  <2> QED BY <2>1, Reasonless
<1>9. Reasons(rest, m, activity)
  BY <1>1, ReasonsRest
<1> DEFINE A == Ahead(s)
<1> HIDE DEF A, S, marks, rest
<1>10. marks \in Seq(S \union A) /\ rest \in Seq(S \union A)
  BY <1>2, <1>7 DEF A
<1>11. Reasons(marks \o rest, m, activity)
  BY <1>8, <1>9, <1>10, ReasonsBoth
<1>12. activity' = activity
  BY <1>1 DEF tableVars
<1> QED
  BY <1>1, <1>11, <1>12, ReasonsProceed

LEMMA ReasonsRun ==
  ASSUME TypeInv, WorkReasoned, NEW s \in Streams, Run(s)
  PROVE  WorkReasoned'
<1>1. activity \subseteq activity'
  BY RunKeeps
<1>2. Busy(s)
  BY RunLeaves
<1>3. ASSUME Proceed(s, Tail(work[s]))
      PROVE  WorkReasoned'
  <2>1. Next1(s).op = "activity" => <<Event(s).member, Next1(s).arg>> \in activity'
    BY DEF Run, RunUpsert, RunActivity, RunMark, RunMilestone, RunCount, RunRetention,
       RunContribution
  <2>2. Reasons(Tail(work[s]), Event(s).member, activity')
    BY <1>1, <1>2, <2>1, ReasonsRest
  <2> QED BY <1>1, <1>2, <1>3, <2>2, ReasonsProceed
<1>4. ASSUME NEW mk, mk \notin markers, markers' = markers \union {mk},
             Next1(s).op \in {"mark", "milestone"}, Proceed(s, FollowUps(mk,
               Event(s)) \o Tail(work[s]))
      PROVE  WorkReasoned'
  <2> DEFINE m == Event(s).member
             first == FollowUps(mk, Event(s))
             rest == Tail(work[s])
             A == Ahead(s)
  <2>1. mk \in MarkersOf(log) /\ activity' = activity
    <3>1. TypeInv' /\ log' = log
      BY AllRunTypes, RunKeeps
    <3>2. mk \in MarkersOf(log)
      BY <1>4, <3>1 DEF TypeInv, MemberTablesOK
    <3> QED BY <1>4, <3>2, NewMarker
  <2>2. Event(s) \in Happenings /\ rest \in Seq(A) /\ Next1(s) \in A
    BY <1>2, AtWork
  <2>3. mk.table = "guild_daily_active_members" => <<m, mk.day>> \in activity
    <3> SUFFICES ASSUME mk.table = "guild_daily_active_members" PROVE <<m, mk.day>> \in activity
      OBVIOUS
    <3>1. CASE Next1(s).op = "mark" /\ mk = Next1(s).arg
      BY <1>2, <3>1, FirstReasoned DEF ActiveMark
    <3>2. CASE ~(Next1(s).op = "mark" /\ mk = Next1(s).arg)
      <4>1. mk.table = Next1(s).arg /\ Next1(s).op = "milestone"
        BY <1>4, <3>2, NewMarker, MarkIs
      <4>2. Next1(s).arg \in Steps
        BY <2>2, <4>1, StatementsAre, DueAre DEF Ahead
      <4> QED BY <4>1, <4>2 DEF Steps, Milestones
    <3> QED BY <3>1, <3>2
  <2>4. Reasons(first, m, activity)
    BY <2>1, <2>2, <2>3, ReasonsFollow
  <2>5. Reasons(rest, m, activity)
    BY <1>2, <1>4, ReasonsRest
  <2>6. first \in Seq(StatementsOf(m, log)) /\ rest \in Seq(StatementsOf(m, log))
    <3>0. 0 # None
      BY DEF None
    <3>1. first \in Seq(Due(m, log, 0))
      BY <2>1, <2>2, <3>0, FollowUpsIn
    <3>2. rest \in Seq(Due(m, log, Joined(m)))
      BY <2>2 DEF Ahead
    <3> DEFINE D == Due(m, log, Joined(m))
               Z == Due(m, log, 0)
               T == StatementsOf(m, log)
    <3>3. D \subseteq T /\ Z \subseteq T
      BY DEF Due
    <3> HIDE DEF D, Z, T, first, rest
    <3>4. first \in Seq(T) /\ rest \in Seq(T)
      BY <3>1, <3>2, <3>3 DEF D, Z
    <3> QED BY <3>4 DEF T
  <2> HIDE DEF first, rest
  <2>7. Reasons(first \o rest, m, activity)
    BY <2>4, <2>5, <2>6, ReasonsBoth
  <2> QED
    BY <1>2, <1>4, <2>1, <2>7, ReasonsProceed DEF first, rest
<1> QED
  BY <1>3, <1>4, ReasonsRetention, ReasonsContribution, RunLeaves

LEMMA ReasonsStep ==
  ASSUME TypeInv, WorkReasoned, [Next]_vars
  PROVE  WorkReasoned'
<1>1. ASSUME NEW s \in Streams, Begin(s)
      PROVE  WorkReasoned'
  <2> DEFINE i == Head(queue[s])
  <2>1. /\ queue[s] \in Seq(DOMAIN log) /\ queue[s] # << >>
        /\ \A k \in DOMAIN queue[s] : StreamOf(log[queue[s][k]].kind) = s
    BY <1>1 DEF TypeInv, QueuesOK, Begin
  <2>2. i \in DOMAIN log /\ StreamOf(log[i].kind) \in Streams
    BY <2>1
  <2>3. Reasons(Handler(i), log[i].member, activity)
    BY <2>2, ReasonsHandler DEF TypeInv
  <2>4. /\ log' = log /\ activity' = activity
        /\ current'[s] = i /\ work'[s] = Handler(i)
        /\ \A t \in Streams : t # s => current'[t] = current[t] /\ work'[t] = work[t]
    BY <1>1 DEF Begin, TypeInv, WorkersOK, tableVars
  <2> SUFFICES ASSUME NEW t \in Streams, Busy(t)'
               PROVE  Reasons(work'[t], log[current'[t]].member, activity)
    BY <2>4 DEF WorkReasoned, Event, Reasons
  <2> HIDE DEF i
  <2> QED
    BY <2>3, <2>4 DEF WorkReasoned, Event, Busy
<1>2. ASSUME NEW s \in Streams, StatementFails(s)
      PROVE  WorkReasoned'
  <2>1. Busy(s) /\ Proceed(s, work[s]) /\ activity' = activity
    BY <1>2 DEF StatementFails, Proceed, tableVars
  <2>2. Reasons(work[s], Event(s).member, activity')
    BY <2>1 DEF WorkReasoned
  <2> QED BY <2>1, <2>2, ReasonsProceed
<1>3. ASSUME NEW s \in Streams, Run(s)
      PROVE  WorkReasoned'
  BY <1>3, ReasonsRun
<1>4. ASSUME NEW now \in 0 .. Len(log), Restart(now)
      PROVE  WorkReasoned'
  BY <1>4 DEF Restart, WorkReasoned, Busy
<1>5. CASE UNCHANGED vars \/ \E s \in Streams : FindsClosed(s)
  <2>1. UNCHANGED <<log, current, work, activity>>
    BY <1>5 DEF vars, workerVars, tableVars, FindsClosed
  <2> QED BY <2>1 DEF WorkReasoned, Busy, Event, Reasons
<1> QED
  BY <1>1, <1>2, <1>3, <1>4, <1>5 DEF Next

Justified(mk) ==
  /\ mk.table \in Milestones => Took(mk.member, mk.table)
  /\ mk.table = "guild_onboarded_members" =>
       /\ mk.day # None => Joined(mk.member) # None
       /\ lifecycle[mk.member]["first_role_at"] # None
       /\ lifecycle[mk.member]["first_message_at"] # None
  /\ mk.table = "retention_cohort_d7_members" => Returned(mk.member, mk.day, 7 .. 13, activity)
  /\ mk.table = "retention_cohort_d30_members" => Returned(mk.member, mk.day, 30 .. 36, activity)

LEMMA JustifiedAre ==
  MarkersJustified <=> \A mk \in markers : Justified(mk)
BY DEF MarkersJustified, Justified, Returned

LEMMA StepColumns ==
  /\ Milestones \subseteq LifecycleColumns \ {"left_at"}
  /\ "first_role_at" \in Milestones /\ "first_message_at" \in Milestones
  /\ "joined_at" \in LifecycleColumns \ {"left_at"}
BY DEF Milestones, LifecycleColumns

LEMMA JustifiedStays ==
  ASSUME TypeInv, ColumnsKept, activity \subseteq activity',
           NEW mk \in MarkersOf(log), Justified(mk)
  PROVE  Justified(mk)'
<1>1. mk.member \in Members
  BY DEF MarkersOf
<1>2. \A f \in LifecycleColumns \ {"left_at"} :
        lifecycle'[mk.member][f] = lifecycle[mk.member][f] \/ lifecycle[mk.member][f] = None
  BY <1>1 DEF ColumnsKept
<1>3. ASSUME mk.table \in Milestones
      PROVE  Took(mk.member, mk.table)'
  <2>1. Took(mk.member, mk.table)
    BY <1>3 DEF Justified
  <2>2. Joined(mk.member) # None /\ Joined(mk.member) \in Nat
    BY <1>1, <2>1, JoinedIs DEF Took
  <2>3. lifecycle[mk.member][mk.table] # None
    BY <2>1, <2>2 DEF Took, None
  <2>4. lifecycle'[mk.member][mk.table] = lifecycle[mk.member][mk.table]
    BY <1>2, <1>3, <2>3, StepColumns
  <2>5. Joined(mk.member)' = Joined(mk.member)
    BY <1>2, <2>2, StepColumns DEF Joined
  <2> QED BY <2>1, <2>4, <2>5 DEF Took
<1>4. ASSUME mk.table = "guild_onboarded_members"
      PROVE  /\ mk.day # None => Joined(mk.member)' # None
             /\ lifecycle'[mk.member]["first_role_at"] # None
             /\ lifecycle'[mk.member]["first_message_at"] # None
  BY <1>2, <1>4, StepColumns DEF Justified, Joined
<1>5. \A ages : Returned(mk.member, mk.day, ages, activity)
        => Returned(mk.member, mk.day, ages, activity')
  BY DEF Returned
<1>6. /\ mk.table = "retention_cohort_d7_members" => Returned(mk.member, mk.day, 7 .. 13, activity')
      /\ mk.table = "retention_cohort_d30_members"
           => Returned(mk.member, mk.day, 30 .. 36, activity')
  BY <1>5 DEF Justified
<1> QED BY <1>3, <1>4, <1>6 DEF Justified, Returned

LEMMA JustifiedRuns ==
  ASSUME TypeInv, WorkReasoned, MarkersJustified, NEW s \in Streams, Run(s)
  PROVE  MarkersJustified'
<1>1. \A mk \in markers : Justified(mk)'
  BY RunKeeps, JustifiedStays, JustifiedAre DEF TypeInv, MemberTablesOK
<1>2. ASSUME NEW mk \in markers' \ markers
      PROVE  Justified(mk)
  <2>1. Busy(s)
    BY NewMarker
  <2>2. Event(s).member \in Members /\ Next1(s) \in Ahead(s)
    BY <2>1, AtWork
  <2>3. CASE Next1(s).op = "mark" /\ mk = Next1(s).arg
    <3>1. mk.member = Event(s).member
      BY <2>2, <2>3, StatementsAre, DueAre DEF Ahead
    <3>2. Reasoned(Next1(s), Event(s).member, activity)
      BY <2>1, FirstReasoned
    <3> QED BY <2>3, <3>1, <3>2 DEF Justified, Reasoned, Steps
  <2>4. CASE ~(Next1(s).op = "mark" /\ mk = Next1(s).arg)
    <3>1. /\ mk = Marker(Next1(s).arg, Event(s).member, Whole, Day(Joined(Event(s).member)))
          /\ Eligible(Next1(s).arg, Event(s).member) /\ Next1(s).op = "milestone"
      BY <2>4, NewMarker
    <3>2. mk.member = Event(s).member /\ mk.table = Next1(s).arg
      BY <3>1, MarkIs
    <3>3. mk.table \in Steps
      BY <2>2, <3>1, <3>2, StatementsAre, DueAre DEF Ahead
    <3> QED BY <3>1, <3>2, <3>3 DEF Justified, Eligible, Took, Steps, Milestones
  <2> QED BY <2>3, <2>4
<1>3. ASSUME NEW mk \in markers' \ markers
      PROVE  Justified(mk)'
  <2>1. UNCHANGED <<lifecycle, activity>> /\ Justified(mk)
    BY <1>2, NewMarker
  <2> QED BY <2>1 DEF Justified, Took, Joined, Returned
<1>4. \A mk \in markers' : Justified(mk)'
  BY <1>1, <1>3
<1> QED BY <1>4 DEF MarkersJustified, Justified, Returned

LEMMA StartupJustified ==
  ASSUME RowsOK, NEW mks \in SUBSET MarkersOf(log),
         NEW table \in FirstFilled \union FilledFromThose, NEW mk \in StartupMarkers(table, mks)
  PROVE  Justified(mk)
<1>1. mk.table = table
  BY StartupMarkersAre
<1>2. CASE table = "guild_onboarded_members"
  <2>1. mk \in OnboardedMarkers
    BY <1>2 DEF StartupMarkers
  <2> QED BY <1>1, <1>2, <2>1, MarkIs DEF OnboardedMarkers, Justified, Milestones
<1>3. CASE table = "retention_cohort_d7_members"
  <2>1. mk \in RetainedMarkers(table, 7 .. 13)
    BY <1>3 DEF StartupMarkers
  <2> QED BY <1>1, <1>3, <2>1, MarkIs DEF RetainedMarkers, Justified, Returned, Milestones
<1>4. CASE table = "retention_cohort_d30_members"
  <2>1. mk \in RetainedMarkers(table, 30 .. 36)
    BY <1>4 DEF StartupMarkers
  <2> QED BY <1>1, <1>4, <2>1, MarkIs DEF RetainedMarkers, Justified, Returned, Milestones
<1>5. CASE table \in Milestones
  <2>1. mk \in StepMarkers(table)
    BY <1>5 DEF StartupMarkers, Milestones
  <2>2. PICK m \in Members : Eligible(table, m) /\ mk = Marker(table, m, Whole, Day(Joined(m)))
    BY <2>1 DEF StepMarkers
  <2> QED BY <1>1, <1>5, <2>2, MarkIs DEF Eligible, Took, Justified, Milestones
<1>6. CASE table \notin Milestones \union {"guild_onboarded_members", "retention_cohort_d7_members",
                                           "retention_cohort_d30_members"}
  BY <1>1, <1>6 DEF Justified
<1> QED BY <1>2, <1>3, <1>4, <1>5, <1>6

LEMMA FilledJustified ==
  ASSUME RowsOK, NEW mks \in SUBSET MarkersOf(log), \A mk \in mks : Justified(mk)
  PROVE  \A mk \in FillAll(mks) : Justified(mk)
<1>1. ASSUME NEW given \in SUBSET MarkersOf(log), \A mk \in given : Justified(mk),
             NEW tables \in SUBSET (FirstFilled \union FilledFromThose)
      PROVE  \A mk \in FillMarkers(tables, given) : Justified(mk)
  <2> TAKE mk \in FillMarkers(tables, given)
  <2>1. mk \in given \/ \E t \in tables : mk \in StartupMarkers(t, given)
    BY DEF FillMarkers
  <2> QED BY <1>1, <2>1, StartupJustified
<1> DEFINE first == FillMarkers(FirstFilled, mks)
<1>2. first \in SUBSET MarkersOf(log) /\ \A mk \in first : Justified(mk)
  BY <1>1, FillMarkersAre
<1> HIDE DEF first
<1>3. \A mk \in FillMarkers(FilledFromThose, first) : Justified(mk)
  BY <1>1, <1>2
<1> QED BY <1>3 DEF FillAll, first

LEMMA JustifiedRestarts ==
  ASSUME TypeInv, MarkersJustified, NEW now \in 0 .. Len(log), Restart(now)
  PROVE  MarkersJustified'
<1> DEFINE known == markers \union Indexed(now)
<1>1. RowsOK /\ log \in Seq(Happenings)
  BY TypedRows DEF TypeInv
<1>2. \A mk \in Indexed(now) : Justified(mk)
  <2>1. \A mk \in Indexed(now) : mk.table = "message_index"
    BY <1>1, IndexedAre
  <2> QED BY <2>1 DEF Justified, Milestones
<1>3. known \in SUBSET MarkersOf(log) /\ \A mk \in known : Justified(mk)
  BY <1>1, <1>2, IndexedAre, JustifiedAre DEF TypeInv, MemberTablesOK
<1> HIDE DEF known
<1>4. \A mk \in FillAll(known) : Justified(mk)
  BY <1>1, <1>3, FilledJustified
<1>5. markers' = FillAll(known) /\ UNCHANGED <<lifecycle, activity>>
  BY DEF Restart, MarkersAtStart, known
<1> QED
  BY <1>4, <1>5 DEF MarkersJustified, Justified, Returned, Took, Joined

LEMMA JustifiedStep ==
  ASSUME TypeInv, WorkReasoned, MarkersJustified, [Next]_vars
  PROVE  MarkersJustified'
<1>1. CASE StoodStill
  BY <1>1 DEF MarkersJustified, Took, Joined, StoodStill
<1>2. ASSUME NEW s \in Streams, Run(s)
      PROVE  MarkersJustified'
  BY <1>2, JustifiedRuns
<1>3. ASSUME NEW now \in 0 .. Len(log), Restart(now)
      PROVE  MarkersJustified'
  BY <1>3, JustifiedRestarts
<1> QED
  BY <1>1, <1>2, <1>3
  DEF Next, Begin, FindsClosed, StatementFails, Fail, StoodStill, vars, tableVars

LEMMA InitJustified ==
  ASSUME NEW joined \in Joins, InitWith(joined)
  PROVE  WorkReasoned /\ MarkersJustified
<1>1. RowsOK /\ markers = FillAll({}) /\ current = [s \in Streams |-> 0]
  BY InitTypes, TypedRows DEF InitWith
<1>2. \A mk \in FillAll({}) : Justified(mk)
  BY <1>1, FilledJustified
<1>3. WorkReasoned
  BY <1>1 DEF WorkReasoned, Busy
<1> QED BY <1>1, <1>2, <1>3, JustifiedAre

\* A step that was counted is still one by the member's lifecycle row, and who
\* is counted as retained was active in the week that says so: the day of
\* activity is written before the member is marked active, and retention is
\* looked at after.
THEOREM MarkersHaveReasons ==
  Spec => []MarkersJustified
<1>1. Init => TypeInv /\ WorkReasoned /\ MarkersJustified
  BY InitTypes, InitJustified, NoJoins DEF Init
<1>2. TypeInv /\ WorkReasoned /\ MarkersJustified /\ [Next]_vars => (TypeInv /\ WorkReasoned
        /\ MarkersJustified)'
  BY StepTypes, ReasonsStep, JustifiedStep
<1> QED
  BY <1>1, <1>2, PTL DEF Spec

-----------------------------------------------------------------------------
(* How often a cell is incremented.                                         *)

Number(c, statements) == Cardinality(Counting(c, statements))

IsCount(c, st) == st.op = "count" /\ st.arg = c

LEMMA NumberIs ==
  ASSUME NEW S, NEW statements \in Seq(S), NEW c
  PROVE  Number(c, statements) \in Nat /\ IsFiniteSet(Counting(c, statements))
<1>1. Counting(c, statements) \in SUBSET DOMAIN statements
  BY DEF Counting
<1> HIDE DEF Counting
<1> QED BY <1>1, PositionsFinite DEF Number

LEMMA NumberBoth ==
  ASSUME NEW S, NEW first \in Seq(S), NEW last \in Seq(S), NEW c
  PROVE  Number(c, first \o last) = Number(c, first) + Number(c, last)
<1> DEFINE both == first \o last
           n == Len(first)
           A == Counting(c, first)
           L == Counting(c, last)
           B == Counting(c, both)
           shifted == {j \in B : j > n}
           shift == [j \in L |-> j + n]
<1>1. n \in Nat /\ DOMAIN first = 1 .. n /\ DOMAIN last = 1 .. Len(last) /\ Len(last) \in Nat
      /\ DOMAIN both = 1 .. (n + Len(last))
  OBVIOUS
<1>2. /\ \A k \in DOMAIN first : both[k] = first[k]
      /\ \A k \in DOMAIN last : both[k + n] = last[k]
  OBVIOUS
<1> HIDE DEF both, n
<1>3. \A j \in A : j \in B /\ j <= n /\ j \in Nat
  BY <1>1, <1>2 DEF Counting
<1>4. \A j \in B : j \in Nat /\ (j <= n => j \in A) /\ (j > n => j - n \in L)
  <2> TAKE j \in B
  <2>1. j \in DOMAIN both /\ both[j].op = "count" /\ both[j].arg = c
    BY DEF Counting
  <2>2. CASE j <= n
    <3>1. j \in DOMAIN first /\ both[j] = first[j]
      BY <1>1, <1>2, <2>1, <2>2
    <3> QED BY <1>1, <2>1, <2>2, <3>1 DEF Counting
  <2>3. CASE ~(j <= n)
    <3>1. j - n \in DOMAIN last
      BY <1>1, <2>1, <2>3
    <3>2. both[(j - n) + n] = last[j - n] /\ (j - n) + n = j
      BY <1>1, <1>2, <2>1, <3>1
    <3> QED BY <1>1, <2>1, <2>3, <3>1, <3>2 DEF Counting
  <2> QED BY <2>2, <2>3
<1>5. \A j \in L : j \in Nat /\ j + n \in B /\ j + n > n
  <2> TAKE j \in L
  <2>1. j \in DOMAIN last /\ last[j].op = "count" /\ last[j].arg = c
    BY DEF Counting
  <2>2. both[j + n] = last[j] /\ j + n \in DOMAIN both
    BY <1>1, <1>2, <2>1
  <2> QED BY <1>1, <2>1, <2>2 DEF Counting
<1>6. IsFiniteSet(A) /\ IsFiniteSet(L) /\ Cardinality(A) \in Nat /\ Cardinality(L) \in Nat
  BY NumberIs DEF Number
<1> HIDE DEF A, L, B
<1>7. Cardinality(shifted) = Cardinality(L) /\ IsFiniteSet(shifted)
  <2>1. shift \in [L -> shifted]
    BY <1>5
  <2>2. \A j, k \in L : shift[j] = shift[k] => j = k
    BY <1>1, <1>5
  <2>3. \A k \in shifted : \E j \in L : shift[j] = k
    <3> TAKE k \in shifted
    <3>1. k - n \in L /\ (k - n) + n = k
      BY <1>1, <1>4
    <3> QED BY <3>1
  <2> HIDE DEF shift, shifted
  <2>4. shift \in Bijection(L, shifted)
    BY <2>1, <2>2, <2>3 DEF Bijection, Injection, Surjection, IsInjective
  <2>5. ExistsBijection(L, shifted)
    BY <2>4 DEF ExistsBijection
  <2> QED BY <1>6, <2>5, FS_Bijection
<1>8. B = A \union shifted /\ A \cap shifted = {}
  BY <1>1, <1>3, <1>4
<1> HIDE DEF shifted
<1>9. Cardinality(B) = Cardinality(A) + Cardinality(L)
  <2>1. Cardinality(A \union shifted)
          = Cardinality(A) + Cardinality(shifted) - Cardinality(A \cap shifted)
    BY <1>6, <1>7, FS_Union
  <2>2. Cardinality(A \cap shifted) = 0
    BY <1>8, FS_EmptySet
  <2> QED BY <1>6, <1>7, <1>8, <2>1, <2>2
<1> QED BY <1>9 DEF Number, A, L, B, both

LEMMA NumberNone ==
  ASSUME NEW statements, NEW c, \A k \in DOMAIN statements : ~IsCount(c, statements[k])
  PROVE  Number(c, statements) = 0
<1>1. Counting(c, statements) = {}
  BY DEF Counting, IsCount
<1> QED BY <1>1, FS_EmptySet DEF Number

\* A sequence of which one element, and no other, increments c.
LEMMA NumberOne ==
  ASSUME NEW statements, NEW c, NEW i \in DOMAIN statements, IsCount(c, statements[i]),
         \A k \in DOMAIN statements : IsCount(c, statements[k]) => k = i
  PROVE  Number(c, statements) = 1
<1>1. Counting(c, statements) = {i}
  BY DEF Counting, IsCount
<1> QED BY <1>1, FS_Singleton DEF Number

LEMMA NumberTail ==
  ASSUME NEW S, NEW statements \in Seq(S), statements # << >>, NEW c
  PROVE  Number(c, statements) = Number(c, Tail(statements)) + IF IsCount(c,
           Head(statements)) THEN 1 ELSE 0
<1> DEFINE first == <<Head(statements)>>
           rest == Tail(statements)
<1>1. first \in Seq(S) /\ rest \in Seq(S) /\ statements = first \o rest
  OBVIOUS
<1>2. DOMAIN first = {1} /\ first[1] = Head(statements)
  OBVIOUS
<1> HIDE DEF first, rest
<1>3. Number(c, statements) = Number(c, first) + Number(c, rest)
  BY <1>1, NumberBoth
<1>4. IsCount(c, Head(statements)) => Number(c, first) = 1
  BY <1>2, NumberOne
<1>5. ~IsCount(c, Head(statements)) => Number(c, first) = 0
  BY <1>2, NumberNone
<1>6. Number(c, rest) \in Nat
  BY <1>1, NumberIs
<1> QED BY <1>3, <1>4, <1>5, <1>6 DEF rest

\* A marker counts no cell twice.
LEMMA CountedOnce ==
  ASSUME NEW mk \in MarkersOf(log), NEW j \in DOMAIN CountedIn(mk), NEW k \in DOMAIN CountedIn(mk),
         CountedIn(mk)[j] = CountedIn(mk)[k]
  PROVE  j = k
<1> DEFINE in(table, column) == Cell(table, Whole, mk.day, column)
<1>1. mk.table \in MarkerNames
  BY DEF MarkersOf
<1>2. in("guild_summary_daily", "joined_members") # in("retention_cohorts", "joined_members")
  BY CellIs
<1>3. in("guild_summary_daily", "joined_members") # in("activation_funnel_daily", "joined_members")
  BY CellIs
<1>4. in("retention_cohorts", "joined_members") # in("activation_funnel_daily", "joined_members")
  BY CellIs
<1>5. in("retention_cohorts", "d7_retained_members") # in("activation_funnel_daily",
        "returned_next_week_members")
  BY CellIs
<1>6. Cell("public_stats_cache", Whole, 0, "messages") # in("guild_daily_activity", "messages")
  BY CellIs
<1>7. Cell("public_stats_cache", Whole, 0, "messages") # in("guild_summary_daily", "messages")
  BY CellIs
<1>8. in("guild_daily_activity", "messages") # in("guild_summary_daily", "messages")
  BY CellIs
<1>9. CASE mk.day = None
  BY <1>9 DEF CountedIn
<1>10. CASE mk.day # None
  <2> HIDE DEF in
  <2>1. CASE mk.table = "guild_joined_members"
    <3>1. CountedIn(mk) = <<in("guild_summary_daily", "joined_members"),
               in("retention_cohorts", "joined_members"), in("activation_funnel_daily",
                 "joined_members")>>
      BY <1>10, <2>1 DEF CountedIn, Milestones, in
    <3> QED BY <1>2, <1>3, <1>4, <3>1
  <2>2. CASE mk.table = "retention_cohort_d7_members"
    <3>1. CountedIn(mk) = <<in("retention_cohorts", "d7_retained_members"),
               in("activation_funnel_daily", "returned_next_week_members")>>
      BY <1>10, <2>2 DEF CountedIn, Milestones, in
    <3> QED BY <1>5, <3>1
  <2>3. CASE mk.table = "message_index"
    <3>1. CountedIn(mk) = <<Cell("public_stats_cache", Whole, 0, "messages"),
               in("guild_daily_activity", "messages"), in("guild_summary_daily", "messages")>>
      BY <1>10, <2>3 DEF CountedIn, Milestones, in
    <3> QED BY <1>6, <1>7, <1>8, <3>1
  <2>4. CASE mk.table \notin {"guild_joined_members", "retention_cohort_d7_members",
               "message_index"}
    <3>1. DOMAIN CountedIn(mk) = {1}
      BY <1>1, <1>10, <2>4 DEF CountedIn, Milestones, MarkerNames, FirstFilled, FilledFromThose,
         ByMember
    <3> QED BY <3>1
  <2> QED BY <2>1, <2>2, <2>3, <2>4
<1> QED BY <1>9, <1>10

LEMMA NumberCounted ==
  ASSUME log \in Seq(Happenings), NEW mk \in MarkersOf(log), NEW e \in Happenings, NEW c
  PROVE  Number(c, FollowUps(mk, e)) = IF c \in Range(CountedIn(mk)) THEN 1 ELSE 0
<1> DEFINE cells == CountedIn(mk)
           first == [j \in DOMAIN cells |-> Count(cells[j])]
           T == {Count(x) : x \in Cells}
<1>1. cells \in Seq(Cells)
  BY CountedInCells
<1>2. first \in Seq(T) /\ DOMAIN first = DOMAIN cells
  BY <1>1
<1>3. \A k \in DOMAIN first : IsCount(c, first[k]) <=> cells[k] = c
  BY StatementIs DEF IsCount
<1>4. \A j, k \in DOMAIN cells : cells[j] = cells[k] => j = k
  BY CountedOnce
<1> HIDE DEF cells, first, T
<1>5. Number(c, first) = IF c \in Range(cells) THEN 1 ELSE 0
  <2>1. CASE c \in Range(cells)
    <3>1. PICK i \in DOMAIN cells : cells[i] = c
      BY <2>1 DEF Range
    <3> QED BY <1>2, <1>3, <1>4, <2>1, <3>1, NumberOne
  <2>2. CASE c \notin Range(cells)
    <3>1. \A k \in DOMAIN first : ~IsCount(c, first[k])
      BY <1>2, <1>3, <2>2 DEF Range
    <3> QED BY <2>2, <3>1, NumberNone
  <2> QED BY <2>1, <2>2
<1>6. \A st : st.op # "count" => ~IsCount(c, st)
  BY DEF IsCount
<1> DEFINE S == Due(e.member, log, 0)
<1>7. MessageSteps(e) \in Seq(S) /\ \A k \in DOMAIN MessageSteps(e) : ~IsCount(c,
        MessageSteps(e)[k])
  <2> DEFINE mark == Mark(Marker("guild_daily_active_members", e.member, Whole, Day(e.at)))
             h == MessageSteps(e)
  <2>1. h = << >> \/ h = <<Upsert({"first_message_at"}), Milestone("guild_onboarded_members"),
                           Milestone("first_message_at"), Do("activity", Day(e.at)), mark>>
    BY DEF MessageSteps
  <2>2. /\ \A x : ~IsCount(c, Upsert(x)) /\ ~IsCount(c, Milestone(x))
             /\ ~IsCount(c, Do("activity", x))
        /\ ~IsCount(c, mark)
    BY <1>6, StatementIs
  <2> HIDE DEF h, mark
  <2>3. \A k \in DOMAIN h : ~IsCount(c, h[k])
    BY <2>1, <2>2
  <2> QED BY <2>3, MessageStepsIn DEF h
<1>8. ASSUME NEW st \in S, st.op # "count"
      PROVE  <<st>> \in Seq(S) /\ \A k \in DOMAIN <<st>> : ~IsCount(c, <<st>>[k])
  <2> HIDE DEF S
  <2>1. ~IsCount(c, st)
    BY <1>6, <1>8
  <2> QED BY <2>1
<1>9. /\ mk.table = "guild_daily_active_members" => Do("retention", mk.day) \in S
      /\ \A table \in FilledFromThose : Do("contribution", table) \in S
  BY DueIn DEF MarkersOf, Fits, None
<1>10. << >> \in Seq(S) /\ \A k \in DOMAIN << >> : ~IsCount(c, << >>[k])
  OBVIOUS
<1> HIDE DEF S
<1>11. PICK last \in Seq(S) : FollowUps(mk, e) = first \o last
              /\ \A k \in DOMAIN last : ~IsCount(c, last[k])
  <2>1. mk.table = "guild_daily_active_members" =>
          /\ <<Do("retention", mk.day)>> \in Seq(S)
          /\ \A k \in DOMAIN <<Do("retention", mk.day)>> : ~IsCount(c, <<Do("retention",
               mk.day)>>[k])
    BY <1>8, <1>9, StatementIs
  <2>2. \A table \in FilledFromThose :
          /\ <<Do("contribution", table)>> \in Seq(S)
          /\ \A k \in DOMAIN <<Do("contribution", table)>> : ~IsCount(c, <<Do("contribution",
               table)>>[k])
    BY <1>8, <1>9, StatementIs
  <2> QED BY <1>7, <1>10, <2>1, <2>2 DEF FollowUps, first, cells, FilledFromThose
<1>12. first \in Seq(S \union T) /\ last \in Seq(S \union T)
  BY <1>2
<1>13. Number(c, FollowUps(mk, e)) = Number(c, first) + Number(c, last)
  BY <1>11, <1>12, NumberBoth
<1>14. Number(c, last) = 0
  BY <1>11, NumberNone
<1> QED BY <1>5, <1>13, <1>14 DEF cells

-----------------------------------------------------------------------------
(* Every marker is counted, cell by cell.                                   *)

PendingSums ==
  \A c : Copies(c, Pending) = Number(c, work["events.member"]) + Number(c, work["events.message"])
                              + Number(c, work["events.voice"])

LEMMA PendingIs ==
  TypeInv => PendingSums
<1> SUFFICES ASSUME TypeInv, NEW c
             PROVE  Copies(c, Pending) = Number(c, work["events.member"]) + Number(c,
                      work["events.message"])
                                         + Number(c, work["events.voice"])
  BY DEF PendingSums
<1>1. ASSUME NEW s \in Streams
      PROVE  Copies(c, Increments(work[s])) = Number(c, work[s])
  <2> DEFINE D == Due(Event(s).member, log, Joined(Event(s).member))
  <2> HIDE DEF D
  <2>1. work[s] \in Seq(D) \/ work[s] = << >>
    BY DEF TypeInv, WorkersOK, Ahead, D
  <2>2. << >> \in Seq(D)
    OBVIOUS
  <2>3. work[s] \in Seq(D)
    BY <2>1, <2>2
  <2> QED BY <2>3, IncrementsBag DEF D, Number
<1> QED BY <1>1, PendingBag DEF Streams

LEMMA ProceedPending ==
  ASSUME TypeInv, TypeInv', NEW s \in Streams, Busy(s),
           NEW rest \in Seq(Ahead(s)), Proceed(s, rest), NEW c
  PROVE  /\ Copies(c, Pending') + Copies(c, lost') + Number(c, work[s])
            = Copies(c, Pending) + Copies(c, lost) + Number(c, rest)
         /\ surplus' = surplus /\ Copies(c, Pending') \in Nat /\ Copies(c, lost') \in Nat
<1>1. \A t \in Streams : Number(c, work[t]) \in Nat
  <2> TAKE t \in Streams
  <2>1. work[t] \in Seq(Ahead(t)) \/ work[t] = << >>
    BY DEF TypeInv, WorkersOK
  <2>2. Number(c, << >>) = 0
    BY NumberNone
  <2> QED BY <2>1, <2>2, NumberIs
<1>2. Number(c, rest) \in Nat
  BY NumberIs
<1>3. Copies(c, Pending) = Number(c, work["events.member"]) + Number(c, work["events.message"])
                           + Number(c, work["events.voice"])
  BY PendingIs DEF PendingSums
<1>4. Copies(c, Pending') = Number(c, work'["events.member"]) + Number(c, work'["events.message"])
                            + Number(c, work'["events.voice"])
  <2>1. TypeInv' => PendingSums'
    BY PendingIs, PTL
  <2> QED BY <2>1 DEF PendingSums, Number, Counting, Copies
<1>5. \A t \in Streams : t # s => work'[t] = work[t]
  BY ProceedWork
<1>6. /\ Number(c, work'[s]) + Copies(c, lost') = Number(c, rest) + Copies(c, lost)
      /\ surplus' = surplus /\ Number(c, work'[s]) \in Nat /\ Copies(c, lost') \in Nat
  <2>1. Copies(c, lost) \in Nat
    BY CopiesAre DEF TypeInv, HistoryOK
  <2>2. CASE Fail(s, rest)
    <3>1. lost' = lost (+) Increments(rest) /\ surplus' = surplus /\ work'[s] = << >>
      BY <2>2 DEF Fail, TypeInv, WorkersOK
    <3>2. BagOf(Cells, Increments(rest)) /\ Copies(c, Increments(rest)) = Number(c, rest)
      BY IncrementsBag DEF Ahead, Number
    <3>3. Copies(c, lost') = Copies(c, lost) + Number(c, rest)
      BY <3>1, <3>2, AddedCopies DEF TypeInv, HistoryOK
    <3>4. Number(c, work'[s]) = 0
      BY <3>1, NumberNone
    <3> QED BY <1>2, <2>1, <3>1, <3>3, <3>4
  <2>3. CASE ~Fail(s, rest)
    <3>1. lost' = lost /\ surplus' = surplus /\ work'[s] = rest
      BY <2>3 DEF Proceed, TypeInv, WorkersOK
    <3> QED BY <1>2, <2>1, <3>1
  <2> QED BY <2>2, <2>3
<1>7. Copies(c, lost) \in Nat
  BY CopiesAre DEF TypeInv, HistoryOK
<1> DEFINE p == Copies(c, Pending)
           q == Copies(c, Pending')
           n(t) == Number(c, work[t])
           k(t) == Number(c, work'[t])
<1>8. q + n(s) = p + k(s)
  <2>1. \A t \in Streams : n(t) \in Nat /\ (t # s => k(t) = n(t))
    BY <1>1, <1>5
  <2>2. k(s) \in Nat
    BY <1>6
  <2>3. p = n("events.member") + n("events.message") + n("events.voice")
    BY <1>3
  <2>4. q = k("events.member") + k("events.message") + k("events.voice")
    BY <1>4
  <2> HIDE DEF p, q, n, k
  <2> QED BY <2>1, <2>2, <2>3, <2>4 DEF Streams
<1>9. p \in Nat /\ q \in Nat /\ n(s) \in Nat
  <2> QED BY <1>1, <1>3, <1>4, <1>5, <1>6 DEF Streams
<1> DEFINE l == Copies(c, lost)
           l2 == Copies(c, lost')
           r == Number(c, rest)
<1>10. k(s) + l2 = r + l /\ k(s) \in Nat /\ l2 \in Nat /\ l \in Nat /\ r \in Nat
  BY <1>2, <1>6, <1>7
<1> HIDE DEF p, q, n, k, l, l2, r
<1>11. q + l2 + n(s) = p + l + r
  BY <1>8, <1>9, <1>10
<1> QED BY <1>6, <1>9, <1>11 DEF p, q, n, k, l, l2, r

\* The increment that created the row of c, if it was one of c.
Creates(c) ==
  IF c[1] \in DOMAIN opener /\ opener[c[1]] = c[2]
    /\ c[2] \notin {"messages", "startup"} THEN 1 ELSE 0

Balanced(c) ==
  Copies(c, counts) + Copies(c, Pending) + Copies(c, lost) + Creates(c)
  = Copies(c, Called(markers)) + Copies(c, surplus)

\* Nothing is counted in a row that is not there.
Rooted == \A c \in DOMAIN counts \union DOMAIN surplus : c[1] \in DOMAIN opener

CountInv == (\A c \in Cells : Balanced(c)) /\ Rooted

LEMMA NumbersAre ==
  ASSUME TypeInv, NEW c
  PROVE  /\ Copies(c, counts) \in Nat /\ Copies(c, Pending) \in Nat /\ Copies(c, lost) \in Nat
         /\ Creates(c) \in {0, 1}
         /\ Copies(c, Called(markers)) \in Nat /\ Copies(c, surplus) \in Nat
<1>1. BagOf(Cells, Called(markers)) /\ BagOf(Cells, Pending)
  BY CalledBag, PendingBag DEF TypeInv, MemberTablesOK
<1> QED BY <1>1, CopiesAre DEF TypeInv, HistoryOK, CountersOK, Creates

LEMMA CountInvImplies ==
  ASSUME TypeInv, CountInv
  PROVE  EveryMarkerCounted
<1> DEFINE creating == {<<row, opener[row]>> : row \in DOMAIN opener}
           X == {c \in creating : c[2] \notin {"messages", "startup"}}
           made == SetToBag(X)
           p == Pending
           accounted == ((counts (+) p) (+) lost) (+) made
           k == Called(markers)
           due == k (+) surplus
<1>1. X \subseteq Cells
  <2>1. \A row \in DOMAIN opener : opener[row] # "startup" => <<row, opener[row]>> \in Cells
    BY CellIn DEF TypeInv, CountersOK
  <2> QED BY <2>1
<1>2. BagOf(Cells, made) /\ \A c : Copies(c, made) = IF c \in X THEN 1 ELSE 0
  <2> HIDE DEF X
  <2> QED BY <1>1 DEF SetToBag, BagOf, IsABag, Copies
<1>3. \A c \in Cells : Copies(c, made) = Creates(c)
  <2> TAKE c \in Cells
  <2>1. c = <<c[1], c[2]>>
    BY CellsAre
  <2>2. c \in X <=> c[1] \in DOMAIN opener /\ opener[c[1]] = c[2]
          /\ c[2] \notin {"messages", "startup"}
    BY <2>1
  <2> QED BY <1>2, <2>2 DEF Creates
<1>4. /\ BagOf(Cells, k) /\ BagOf(Cells, p) /\ BagOf(Cells, counts) /\ BagOf(Cells, lost)
           /\ BagOf(Cells, surplus)
  BY CalledBag, PendingBag DEF TypeInv, MemberTablesOK, HistoryOK, CountersOK
<1> HIDE DEF made, p, k
<1>5. BagOf(Cells, counts (+) p) /\ \A c : Copies(c, counts (+) p)
        = Copies(c, counts) + Copies(c, p)
  BY <1>4, AddedBag, AddedCopies
<1> DEFINE ab == counts (+) p
<1> HIDE DEF ab
<1>6. BagOf(Cells, ab (+) lost) /\ \A c : Copies(c, ab (+) lost) = Copies(c, ab) + Copies(c, lost)
  BY <1>4, <1>5, AddedBag, AddedCopies DEF ab
<1> DEFINE abl == ab (+) lost
<1> HIDE DEF abl
<1>7. BagOf(Cells, abl (+) made) /\ \A c : Copies(c, abl (+) made)
        = Copies(c, abl) + Copies(c, made)
  BY <1>2, <1>6, AddedBag, AddedCopies DEF abl
<1>8. BagOf(Cells, due) /\ \A c : Copies(c, due) = Copies(c, k) + Copies(c, surplus)
  BY <1>4, AddedBag, AddedCopies
<1>9. accounted = abl (+) made
  BY DEF ab, abl
<1> HIDE DEF accounted, due
<1>10. \A c : Copies(c, accounted) = Copies(c, counts) + Copies(c, p) + Copies(c,
         lost) + Copies(c, made)
  BY <1>5, <1>6, <1>7, <1>9 DEF ab, abl
<1>11. ASSUME NEW c \in Cells
       PROVE  Copies(c, accounted) = Copies(c, due)
  BY <1>3, <1>8, <1>10 DEF CountInv, Balanced, p, k
<1>12. BagToSet(accounted) \union BagToSet(due) \subseteq Cells
  BY <1>7, <1>8, <1>9 DEF BagOf, BagToSet
<1> QED
  BY <1>11, <1>12 DEF EveryMarkerCounted, accounted, due, made, p, k

LEMMA CalledSplit ==
  ASSUME log \in Seq(Happenings), NEW old, NEW new, old \in SUBSET MarkersOf(log),
           new \in SUBSET MarkersOf(log),
         old \cap new = {}, NEW c
  PROVE  Copies(c, Called(old \union new)) = Copies(c, Called(old)) + Copies(c, Called(new))
<1> DEFINE both == old \union new
           A == CalledBy(c, old)
           B == CalledBy(c, new)
<1>1. both \in SUBSET MarkersOf(log)
  OBVIOUS
<1>2. CalledBy(c, both) = A \union B /\ A \cap B = {}
  BY DEF CalledBy
<1>3. A \in SUBSET MarkersOf(log) /\ B \in SUBSET MarkersOf(log)
  BY DEF CalledBy
<1> HIDE DEF A, B, both
<1>4. IsFiniteSet(A) /\ IsFiniteSet(B) /\ Cardinality(A) \in Nat /\ Cardinality(B) \in Nat
  BY <1>3, MarkersFinite
<1>5. Cardinality(A \union B) = Cardinality(A) + Cardinality(B) - Cardinality(A \cap B)
  BY <1>4, FS_Union
<1>6. Cardinality(A \cap B) = 0
  BY <1>2, FS_EmptySet
<1>7. Copies(c, Called(both)) = Cardinality(A \union B)
  BY <1>1, <1>2, CalledBag
<1>8. Copies(c, Called(old)) = Cardinality(A) /\ Copies(c, Called(new)) = Cardinality(B)
  BY CalledBag DEF A, B
<1> QED BY <1>4, <1>5, <1>6, <1>7, <1>8 DEF both

LEMMA CalledOne ==
  ASSUME log \in Seq(Happenings), NEW mk \in MarkersOf(log), NEW c
  PROVE  Copies(c, Called({mk})) = IF c \in Range(CountedIn(mk)) THEN 1 ELSE 0
<1>1. Copies(c, Called({mk})) = Cardinality(CalledBy(c, {mk}))
  BY CalledBag
<1>2. CASE c \in Range(CountedIn(mk))
  <2>1. CalledBy(c, {mk}) = {mk}
    BY <1>2 DEF CalledBy
  <2> QED BY <1>1, <1>2, <2>1, FS_Singleton
<1>3. CASE c \notin Range(CountedIn(mk))
  <2>1. CalledBy(c, {mk}) = {}
    BY <1>3 DEF CalledBy
  <2> QED BY <1>1, <1>3, <2>1, FS_EmptySet
<1> QED BY <1>2, <1>3

\* A statement keeps the balance if what it takes from the handler goes where
\* it belongs.
LEMMA Balances ==
  ASSUME TypeInv, TypeInv', CountInv, NEW s \in Streams, Busy(s),
           NEW rest \in Seq(Ahead(s)), Proceed(s, rest),
         NEW c \in Cells,
         Copies(c, counts') + Creates(c)' + Number(c, rest) + Copies(c, Called(markers))
           = Copies(c, counts) + Creates(c) + Number(c, work[s]) + Copies(c, Called(markers'))
  PROVE  Balanced(c)'
<1>1. log' = log
  BY ProceedWork
<1> DEFINE n == Copies(c, counts)
           n2 == Copies(c, counts')
           p == Copies(c, Pending)
           p2 == Copies(c, Pending')
           l == Copies(c, lost)
           l2 == Copies(c, lost')
           k == Creates(c)
           k2 == Creates(c)'
           m == Copies(c, Called(markers))
           m2 == Copies(c, Called(markers'))
           u == Copies(c, surplus)
           w == Number(c, work[s])
           r == Number(c, rest)
<1>2. n \in Nat /\ p \in Nat /\ l \in Nat /\ k \in Nat /\ m \in Nat /\ u \in Nat
  BY NumbersAre
<1>3. n2 \in Nat
  BY CopiesAre DEF TypeInv, CountersOK
<1>4. k2 \in Nat
  BY DEF Creates
<1>5. m2 \in Nat
  <2>1. BagOf(Cells, Called(markers'))
    BY <1>1, CalledBag DEF TypeInv, MemberTablesOK
  <2> QED BY <2>1, CopiesAre
<1>6. r \in Nat /\ w \in Nat
  <2>1. work[s] \in Seq(Ahead(s))
    BY AtWork
  <2> QED BY <2>1, NumberIs
<1>7. p2 + l2 + w = p + l + r /\ surplus' = surplus /\ p2 \in Nat /\ l2 \in Nat
  BY ProceedPending
<1>8. n + p + l + k = m + u
  BY DEF CountInv, Balanced
<1>9. n2 + k2 + r + m = n + k + w + m2
  OBVIOUS
<1>10. n2 + p2 + l2 + k2 = m2 + u
  <2> HIDE DEF n, n2, p, p2, l, l2, k, k2, m, m2, u, w, r
  <2> QED BY <1>2, <1>3, <1>4, <1>5, <1>6, <1>7, <1>8, <1>9
<1> QED BY <1>7, <1>10 DEF Balanced, Copies

LEMMA RestTyped ==
  ASSUME TypeInv, NEW s \in Streams, Busy(s)
  PROVE  /\ Tail(work[s]) \in Seq(Ahead(s))
         /\ \A c : Number(c, work[s]) = Number(c, Tail(work[s])) + IF IsCount(c, Next1(s))
              THEN 1 ELSE 0
         /\ \A c : Number(c, Tail(work[s])) \in Nat
<1> DEFINE S == Ahead(s)
<1>1. work[s] \in Seq(S) /\ work[s] # << >> /\ Tail(work[s]) \in Seq(S)
  BY AtWork
<1> HIDE DEF S
<1>2. \A c : Number(c, work[s]) = Number(c, Tail(work[s])) + IF IsCount(c, Head(work[s]))
        THEN 1 ELSE 0
  BY <1>1, NumberTail
<1>3. \A c : Number(c, Tail(work[s])) \in Nat
  BY <1>1, NumberIs
<1> QED BY <1>1, <1>2, <1>3 DEF Next1, S

\* A statement that counts nothing and says what is to be counted next.
LEMMA CountsFollow ==
  ASSUME TypeInv, TypeInv', CountInv, NEW s \in Streams, Busy(s), Next1(s).op # "count",
         NEW T, NEW first \in Seq(T), first \o Tail(work[s]) \in Seq(Ahead(s)), Proceed(s,
           first \o Tail(work[s])),
         UNCHANGED <<counts, opener>>,
         \A c \in Cells : Copies(c, Called(markers'))
           = Copies(c, Called(markers)) + Number(c, first)
  PROVE  CountInv'
<1>1. ASSUME NEW c \in Cells
      PROVE  Balanced(c)'
  <2> DEFINE rest == Tail(work[s])
             A == Ahead(s)
  <2>1. rest \in Seq(A) /\ Number(c, work[s]) = Number(c, rest) + (IF IsCount(c, Next1(s))
          THEN 1 ELSE 0)
        /\ Number(c, rest) \in Nat
    BY RestTyped
  <2>2. ~IsCount(c, Next1(s))
    BY DEF IsCount
  <2>3. Number(c, work[s]) = Number(c, rest)
    BY <2>1, <2>2
  <2> HIDE DEF rest, A
  <2>4. first \in Seq(T \union A) /\ rest \in Seq(T \union A)
    BY <2>1
  <2>5. Number(c, first \o rest) = Number(c, first) + Number(c, rest)
    BY <2>4, NumberBoth
  <2>6. Creates(c)' = Creates(c) /\ Copies(c, counts') = Copies(c, counts)
    BY DEF Creates
  <2>7. Number(c, first) \in Nat /\ Copies(c, Called(markers)) \in Nat
          /\ Copies(c, counts) \in Nat /\ Creates(c) \in Nat
    BY NumberIs, NumbersAre
  <2>8. Copies(c, counts') + Creates(c)' + Number(c, first \o rest) + Copies(c, Called(markers))
           = Copies(c, counts) + Creates(c) + Number(c, work[s]) + Copies(c, Called(markers'))
    BY <2>1, <2>3, <2>5, <2>6, <2>7
  <2> QED BY <2>8, Balances DEF rest
<1>2. surplus' = surplus
  BY ProceedPending
<1>3. Rooted'
  BY <1>2 DEF CountInv, Rooted
<1> QED BY <1>1, <1>3 DEF CountInv

LEMMA CountsGoOn ==
  ASSUME TypeInv, TypeInv', CountInv, NEW s \in Streams, Busy(s), Next1(s).op # "count",
         Proceed(s, Tail(work[s])), UNCHANGED <<counts, opener, markers>>
  PROVE  CountInv'
<1>1. << >> \o Tail(work[s]) = Tail(work[s]) /\ Tail(work[s]) \in Seq(Ahead(s))
  <2> DEFINE rest == Tail(work[s])
             A == Ahead(s)
  <2>1. rest \in Seq(A)
    BY AtWork
  <2> HIDE DEF rest, A
  <2>2. << >> \o rest = rest
    BY <2>1
  <2> QED BY <2>1, <2>2 DEF rest, A
<1>2. \A c : Number(c, << >>) = 0
  BY NumberNone
<1>3. \A c \in Cells : Copies(c, Called(markers')) = Copies(c, Called(markers)) + Number(c, << >>)
  BY <1>2, NumbersAre
<1>4. << >> \in Seq({})
  OBVIOUS
<1> QED BY <1>1, <1>3, <1>4, CountsFollow

\* What follows a statement stays among the statements that may stand.
LEMMA RunRest ==
  ASSUME TypeInv, NEW s \in Streams, Busy(s), NEW mk \in MarkersOf(log),
         mk.table \in CohortTables => Joined(Event(s).member) # None
  PROVE  /\ FollowUps(mk, Event(s)) \in Seq(Ahead(s))
         /\ FollowUps(mk, Event(s)) \o Tail(work[s]) \in Seq(Ahead(s))
<1>1. Tail(work[s]) \in Seq(Ahead(s)) /\ Event(s) \in Happenings
  BY AtWork
<1>2. FollowUps(mk, Event(s)) \in Seq(Ahead(s))
  BY <1>1, FollowUpsIn DEF Ahead, CohortTables
<1> DEFINE S == Ahead(s)
           first == FollowUps(mk, Event(s))
           last == Tail(work[s])
<1> HIDE DEF S, first, last
<1>3. first \in Seq(S) /\ last \in Seq(S)
  BY <1>1, <1>2 DEF S, first, last
<1>4. first \o last \in Seq(S)
  BY <1>3
<1> QED BY <1>3, <1>4 DEF S, first, last

LEMMA CountsInsert ==
  ASSUME TypeInv, CountInv, NEW s \in Streams, Run(s), NEW mk,
         Next1(s).op \in {"mark", "milestone"}, markers' = markers \union {mk}, mk \notin markers,
         Proceed(s, FollowUps(mk, Event(s)) \o Tail(work[s]))
  PROVE  CountInv'
<1>1. TypeInv' /\ Busy(s) /\ log' = log
  BY AllRunTypes, RunLeaves, RunKeeps
<1>2. mk \in MarkersOf(log) /\ log \in Seq(Happenings)
  BY <1>1 DEF TypeInv, MemberTablesOK
<1>3. Event(s) \in Happenings /\ Event(s).member \in Members /\ Next1(s) \in Ahead(s)
  BY <1>1, AtWork
<1>4. mk.table \in CohortTables => Joined(Event(s).member) # None
  <2>1. CASE Next1(s).op = "mark" /\ mk = Next1(s).arg
    BY <1>3, <2>1, DueAre DEF Ahead, Founded
  <2>2. CASE ~(Next1(s).op = "mark" /\ mk = Next1(s).arg)
    BY <2>2, NewMarker DEF Eligible
  <2> QED BY <2>1, <2>2
<1>5. /\ FollowUps(mk, Event(s)) \in Seq(Ahead(s))
      /\ FollowUps(mk, Event(s)) \o Tail(work[s]) \in Seq(Ahead(s))
  BY <1>1, <1>2, <1>4, RunRest
<1>6. \A c \in Cells : Copies(c, Called(markers'))
        = Copies(c, Called(markers)) + Number(c, FollowUps(mk, Event(s)))
  <2> TAKE c \in Cells
  <2>1. Copies(c, Called(markers \union {mk})) = Copies(c, Called(markers)) + Copies(c,
          Called({mk}))
    <3>1. markers \in SUBSET MarkersOf(log) /\ {mk} \in SUBSET MarkersOf(log)
            /\ markers \cap {mk} = {}
      BY <1>2 DEF TypeInv, MemberTablesOK
    <3> QED BY <1>2, <3>1, CalledSplit
  <2>2. Copies(c, Called({mk})) = Number(c, FollowUps(mk, Event(s)))
    BY <1>2, <1>3, CalledOne, NumberCounted
  <2> QED BY <2>1, <2>2
<1>7. UNCHANGED <<counts, opener>>
  BY DEF Run, RunUpsert, RunActivity, RunMark, RunMilestone, RunCount, RunRetention,
     RunContribution,
         Insert, tableVars
<1> QED
  BY <1>1, <1>5, <1>6, <1>7, CountsFollow

LEMMA CountsCount ==
  ASSUME TypeInv, CountInv, NEW s \in Streams, RunCount(s)
  PROVE  CountInv'
<1> DEFINE cell == Next1(s).arg
           opens == cell[1] \notin DOMAIN opener
           rest == Tail(work[s])
<1>1. /\ Busy(s) /\ Next1(s).op = "count"
      /\ opener' = Opened({cell[1]}, cell[2])
      /\ counts' = IF opens /\ cell[2] # "messages" THEN counts ELSE counts (+) SetToBag({cell})
      /\ Proceed(s, rest) /\ markers' = markers
  BY DEF RunCount
<1>2. TypeInv' /\ rest \in Seq(Ahead(s))
  BY <1>1, CountTypes, RestTyped
<1>3. cell \in Cells
  <2>1. Next1(s) \in Ahead(s)
    BY <1>1, AtWork
  <2> QED BY <1>1, <2>1, StatementsAre, DueAre DEF Ahead
<1>4. cell[2] # "startup" /\ cell = <<cell[1], cell[2]>>
  <2>1. cell[2] \in Columns[cell[1].table] /\ cell[1].table \in DOMAIN Columns
    BY <1>3, CellsAre
  <2>2. \A t \in DOMAIN Columns : "startup" \notin Columns[t]
    BY ColumnsAre, CounterTablesAre DEF CohortCounters, Milestones
  <2>3. cell = <<cell[1], cell[2]>>
    BY <1>3, CellsAre
  <2> HIDE DEF cell
  <2> QED BY <2>1, <2>2, <2>3
<1>5. BagOf(Cells, SetToBag({cell})) /\ \A c : Copies(c, SetToBag({cell})) = IF c = cell
        THEN 1 ELSE 0
  BY <1>3, OneBag
<1>6. \A c : Copies(c, counts (+) SetToBag({cell})) = Copies(c, counts) + IF c = cell THEN 1 ELSE 0
  <2> DEFINE B == SetToBag({cell})
  <2>1. BagOf(Cells, B) /\ \A c : Copies(c, B) = IF c = cell THEN 1 ELSE 0
    BY <1>5
  <2> HIDE DEF B
  <2>2. \A c : Copies(c, counts (+) B) = Copies(c, counts) + Copies(c, B)
    BY <2>1, AddedCopies DEF TypeInv, CountersOK
  <2> QED BY <2>1, <2>2 DEF B
<1> HIDE DEF cell
<1>7. ASSUME NEW c \in Cells
      PROVE  Copies(c, counts') + Creates(c)' = Copies(c, counts) + Creates(c) + IF c = cell
               THEN 1 ELSE 0
  <2>1. c = <<c[1], c[2]>>
    BY CellsAre
  <2>2. Copies(c, counts) \in Nat
    BY NumbersAre
  <2>3. CASE opens /\ cell[2] # "messages"
    <3>1. counts' = counts
      BY <1>1, <2>3
    <3>2. CASE c = cell
      <4>1. Creates(c)' = 1
        BY <1>1, <1>4, <2>3, <3>2 DEF Creates, Opened
      <4>2. Creates(c) = 0
        BY <2>3, <3>2 DEF Creates
      <4> QED BY <2>2, <3>1, <3>2, <4>1, <4>2
    <3>3. CASE c # cell
      <4>1. Creates(c)' = Creates(c)
        BY <1>1, <1>4, <2>1, <2>3, <3>3 DEF Creates, Opened
      <4> QED BY <2>2, <3>1, <3>3, <4>1 DEF Creates
    <3> QED BY <3>2, <3>3
  <2>4. CASE ~(opens /\ cell[2] # "messages")
    <3>1. Copies(c, counts') = Copies(c, counts) + IF c = cell THEN 1 ELSE 0
      BY <1>1, <1>6, <2>4
    <3>2. Creates(c)' = Creates(c)
      BY <1>1, <2>4 DEF Creates, Opened
    <3>3. Creates(c) \in Nat
      BY DEF Creates
    <3> QED BY <2>2, <3>1, <3>2, <3>3
  <2> QED BY <2>3, <2>4
<1>8. \A c \in Cells : Number(c, work[s]) = Number(c, rest) + IF c = cell THEN 1 ELSE 0
  BY <1>1, RestTyped DEF IsCount, cell
<1>9. ASSUME NEW c \in Cells
      PROVE  Balanced(c)'
  <2>1. Number(c, rest) \in Nat /\ Copies(c, Called(markers)) \in Nat
        /\ Copies(c, counts) \in Nat /\ Creates(c) \in Nat
    BY <1>1, RestTyped, NumbersAre
  <2>2. Copies(c, counts') \in Nat /\ Creates(c)' \in Nat
    BY <1>2, CopiesAre DEF TypeInv, CountersOK, Creates
  <2> DEFINE a == Copies(c, counts')
             b == Creates(c)'
             x == Copies(c, counts)
             y == Creates(c)
             one == IF c = cell THEN 1 ELSE 0
             r == Number(c, rest)
             w == Number(c, work[s])
             k == Copies(c, Called(markers))
  <2>3. a + b = x + y + one /\ w = r + one /\ one \in {0, 1}
    BY <1>7, <1>8
  <2>4. a \in Nat /\ b \in Nat /\ x \in Nat /\ y \in Nat /\ r \in Nat /\ k \in Nat
    BY <2>1, <2>2
  <2>5. Copies(c, Called(markers')) = k
    BY <1>1
  <2>6. a + b + r + k = x + y + w + k
    <3> HIDE DEF a, b, x, y, one, r, w, k
    <3> QED BY <2>3, <2>4
  <2> QED BY <1>1, <1>2, <2>5, <2>6, Balances
<1>10. Rooted'
  <2>1. surplus' = surplus
    BY <1>1, <1>2, ProceedPending
  <2>2. \A c \in DOMAIN counts' : c \in DOMAIN counts \/ c = cell
    <3>1. \A c : c \in DOMAIN counts' => Copies(c, counts') > 0
      BY <1>2, CopiesAre DEF TypeInv, CountersOK
    <3>2. \A c : Copies(c, counts) \in Nat /\ (Copies(c, counts) > 0 <=> c \in DOMAIN counts)
      BY CopiesAre DEF TypeInv, CountersOK
    <3> QED BY <1>1, <1>6, <3>1, <3>2
  <2>3. DOMAIN opener' = {cell[1]} \union DOMAIN opener
    BY <1>1 DEF Opened
  <2> QED BY <2>1, <2>2, <2>3 DEF CountInv, Rooted
<1> QED BY <1>9, <1>10 DEF CountInv

LEMMA CountsMarks ==
  ASSUME TypeInv, CountInv, NEW s \in Streams, MarksNext(s)
  PROVE  CountInv'
<1>1. PICK marks \in Seq(Ahead(s)) :
        /\ \A k \in DOMAIN marks : marks[k].op = "mark"
        /\ marks \o Tail(work[s]) \in Seq(Ahead(s)) /\ Proceed(s, marks \o Tail(work[s]))
  BY DEF MarksNext
<1>2. Busy(s) /\ UNCHANGED <<counts, opener, markers>> /\ Next1(s).op # "count"
  BY DEF MarksNext, tableVars
<1>3. \A c : Number(c, marks) = 0
  BY <1>1, NumberNone DEF IsCount
<1>4. \A c \in Cells : Copies(c, Called(markers')) = Copies(c, Called(markers)) + Number(c, marks)
  BY <1>2, <1>3, NumbersAre
<1> QED BY <1>1, <1>2, <1>4, MarksTypes, CountsFollow

LEMMA CountsRun ==
  ASSUME TypeInv, CountInv, NEW s \in Streams, Run(s)
  PROVE  CountInv'
<1>1. TypeInv' /\ Busy(s)
  BY AllRunTypes, RunLeaves
<1>2. CASE RunCount(s)
  BY <1>2, CountsCount
<1>3. CASE RunRetention(s) \/ RunContribution(s)
  BY <1>3, RetentionMarks, ContributionMarks, CountsMarks
<1>4. CASE ~(RunCount(s) \/ RunRetention(s) \/ RunContribution(s))
  <2>1. UNCHANGED <<counts, opener>> /\ Next1(s).op # "count"
    BY <1>4 DEF Run, RunUpsert, RunActivity, RunMark, RunMilestone, Insert, tableVars
  <2>2. ASSUME NEW mk, Next1(s).op \in {"mark", "milestone"}, markers'
                 = markers \union {mk}, mk \notin markers,
               Proceed(s, FollowUps(mk, Event(s)) \o Tail(work[s]))
        PROVE  CountInv'
    BY <2>2, CountsInsert
  <2>3. CASE markers' = markers
    <3>1. Proceed(s, Tail(work[s])) \/ \E mk : mk \notin markers /\ markers' = markers \union {mk}
      BY <1>4, RunLeaves
    <3>2. Proceed(s, Tail(work[s]))
      BY <2>3, <3>1
    <3> QED BY <1>1, <2>1, <2>3, <3>2, CountsGoOn
  <2>4. CASE markers' # markers
    <3>1. RunMark(s) \/ RunMilestone(s)
      BY <1>4, <2>4 DEF Run, RunUpsert, RunActivity, tableVars
    <3>2. \E mk : /\ Next1(s).op \in {"mark", "milestone"} /\ markers' = markers \union {mk}
            /\ mk \notin markers
                  /\ Proceed(s, FollowUps(mk, Event(s)) \o Tail(work[s]))
      <4>1. ASSUME NEW mk, Insert(s, mk)
            PROVE  markers' = markers \union {mk} /\ mk \notin markers
                   /\ Proceed(s, FollowUps(mk, Event(s)) \o Tail(work[s]))
        BY <2>4, <4>1 DEF Insert
      <4> QED BY <2>4, <3>1, <4>1 DEF RunMark, RunMilestone, tableVars
    <3> QED BY <2>2, <3>2
  <2> QED BY <2>3, <2>4
<1> QED BY <1>2, <1>3, <1>4

\* No handler starts with an increment.
LEMMA HandlerCountsNothing ==
  ASSUME NEW i \in DOMAIN log, log \in Seq(Happenings), StreamOf(log[i].kind) \in Streams, NEW c
  PROVE  Number(c, Handler(i)) = 0
<1> DEFINE e == log[i]
           mk(table, of) == Mark(Marker(table, e.member, of, Day(e.at)))
           h == Handler(i)
<1>1. e.kind \in HandlerKinds
  BY EventsAre, StreamsAre
<1>2. \A x : /\ ~IsCount(c, Upsert(x)) /\ ~IsCount(c, Milestone(x))
        /\ ~IsCount(c, Do("activity", x))
             /\ ~IsCount(c, Mark(x))
  BY StatementIs DEF IsCount
<1>3. \A table, of : ~IsCount(c, mk(table, of))
  BY <1>2
<1> HIDE DEF mk
<1>4. \A k \in DOMAIN h : ~IsCount(c, h[k])
  <2>1. CASE e.kind \in {"join", "joinWithRole"}
    BY <1>2, <1>3, <2>1 DEF Handler, mk
  <2>2. CASE e.kind \in {"joinUndated", "leave"}
    BY <1>2, <1>3, <2>2 DEF Handler, mk
  <2>3. CASE e.kind \in {"roles", "rolesCleared"}
    BY <1>2, <2>3 DEF Handler
  <2>4. CASE e.kind \in {"message", "botMessage"}
    BY <1>2, <1>3, <2>4 DEF Handler, mk
  <2>5. CASE e.kind = "reaction"
    BY <1>2, <1>3, <2>5 DEF Handler, mk
  <2>6. CASE e.kind \in {"voiceJoin", "voiceLeave"}
    BY <1>2, <1>3, <2>6 DEF Handler, mk
  <2> QED BY <1>1, <2>1, <2>2, <2>3, <2>4, <2>5, <2>6 DEF HandlerKinds, EventKinds
<1> HIDE DEF h
<1> QED BY <1>4, NumberNone DEF h

\* A step that leaves the tables alone, and no increment behind.
LEMMA SameBalance ==
  ASSUME TypeInv, TypeInv', CountInv, UNCHANGED <<counts, opener, markers, lost, surplus>>,
         \A s \in Streams : \A c : Number(c, work'[s]) = Number(c, work[s])
  PROVE  CountInv'
<1>1. \A c \in Cells : Copies(c, Pending') = Copies(c, Pending)
  <2> TAKE c \in Cells
  <2>1. Copies(c, Pending) = Number(c, work["events.member"]) + Number(c, work["events.message"])
                             + Number(c, work["events.voice"])
    BY PendingIs DEF PendingSums
  <2>2. TypeInv' => PendingSums'
    BY PendingIs, PTL
  <2>3. Copies(c, Pending') = Number(c, work'["events.member"]) + Number(c, work'["events.message"])
                              + Number(c, work'["events.voice"])
    BY <2>2 DEF PendingSums, Number, Counting, Copies
  <2> QED BY <2>1, <2>3 DEF Streams
<1> QED
  BY <1>1 DEF CountInv, Balanced, Rooted, Creates, Copies

LEMMA CountsBegin ==
  ASSUME TypeInv, CountInv, NEW s \in Streams, Begin(s)
  PROVE  CountInv'
<1> DEFINE i == Head(queue[s])
<1>1. /\ queue[s] \in Seq(DOMAIN log) /\ queue[s] # << >>
      /\ \A k \in DOMAIN queue[s] : StreamOf(log[queue[s][k]].kind) = s
  BY DEF TypeInv, QueuesOK, Begin
<1>2. i \in DOMAIN log /\ StreamOf(log[i].kind) \in Streams
  BY <1>1
<1>3. \A c : Number(c, Handler(i)) = 0
  BY <1>2, HandlerCountsNothing DEF TypeInv
<1>4. work' = [work EXCEPT ![s] = Handler(i)] /\ work[s] = << >>
  BY DEF Begin, TypeInv, WorkersOK
<1>5. \A c : Number(c, << >>) = 0
  BY NumberNone
<1>6. \A t \in Streams : \A c : Number(c, work'[t]) = Number(c, work[t])
  <2> TAKE t \in Streams
  <2> TAKE c
  <2>1. t = s \/ work'[t] = work[t]
    BY <1>4 DEF TypeInv, WorkersOK
  <2>2. work'[s] = Handler(i)
    BY <1>4 DEF TypeInv, WorkersOK
  <2> HIDE DEF i
  <2> QED BY <1>3, <1>4, <1>5, <2>1, <2>2
<1> QED
  BY <1>6, BeginTypes, SameBalance DEF Begin, tableVars, historyVars

LEMMA CountsClosed ==
  ASSUME TypeInv, CountInv, NEW s \in Streams, FindsClosed(s)
  PROVE  CountInv'
<1>1. UNCHANGED <<work, counts, opener, markers, lost, surplus>>
  BY DEF FindsClosed, tableVars
<1> QED BY <1>1, FindsClosedTypes, SameBalance

LEMMA CountsFail ==
  ASSUME TypeInv, CountInv, NEW s \in Streams, StatementFails(s)
  PROVE  CountInv'
<1>1. Busy(s) /\ Proceed(s, work[s]) /\ UNCHANGED <<counts, opener, markers>>
  BY DEF StatementFails, Proceed, tableVars
<1>2. work[s] \in Seq(Ahead(s)) /\ TypeInv'
  BY <1>1, AtWork, StatementFailsTypes
<1>3. ASSUME NEW c \in Cells
      PROVE  Balanced(c)'
  <2>1. Creates(c)' = Creates(c) /\ Copies(c, counts') = Copies(c, counts)
        /\ Copies(c, Called(markers')) = Copies(c, Called(markers))
    BY <1>1 DEF Creates
  <2>2. Copies(c, counts') + Creates(c)' + Number(c, work[s]) + Copies(c, Called(markers))
           = Copies(c, counts) + Creates(c) + Number(c, work[s]) + Copies(c, Called(markers'))
    BY <2>1
  <2> QED BY <1>1, <1>2, <2>2, Balances
<1>4. surplus' = surplus
  BY <1>1, <1>2, ProceedPending
<1>5. Rooted'
  BY <1>1, <1>4 DEF CountInv, Rooted
<1> QED BY <1>3, <1>5 DEF CountInv

\* A restart: in the tables it finds empty, what it counts and what the markers
\* call for are settled against each other; in the others, what it marks and
\* what the handlers were about to count is lost.
LEMMA CountsRestart ==
  ASSUME TypeInv, CountInv, NEW now \in 0 .. Len(log), Restart(now)
  PROVE  CountInv'
<1> DEFINE mks == MarkersAtStart(now)
           unfilled == Unfilled
           filled == FilledTables(unfilled, mks, Daily(mks, unfilled))
           called(c) == Copies(c, Called(mks))
           fresh == mks \ markers
<1>1. /\ BagOf(Cells, filled)
      /\ \A c \in DOMAIN filled : c[1].table \in unfilled
      /\ opener' = Opened({c[1] : c \in DOMAIN filled}, "startup")
      /\ \A c : Copies(c, counts') = Copies(c, counts) + Copies(c, filled)
  BY RestartBags
<1>2. \A c : Copies(c, lost') =
        IF c[1].table \in unfilled
        THEN IF called(c) > Copies(c, filled) THEN called(c) - Copies(c, filled) ELSE 0
        ELSE IF c[1].table \in DOMAIN Columns
        THEN Copies(c, lost) + Copies(c, Pending) + Copies(c, Called(fresh))
        ELSE 0
  BY RestartBags
<1>3. \A c : Copies(c, surplus') =
        Copies(c, surplus) +
        IF c[1].table \in unfilled
        THEN IF Copies(c, filled) > called(c) THEN Copies(c, filled) - called(c) ELSE 0
        ELSE 0
  BY RestartBags
<1>4. markers' = mks /\ TypeInv' /\ work' = [s \in Streams |-> << >>]
  BY RestartTypes DEF Restart
<1>5. markers \subseteq mks /\ mks \in SUBSET MarkersOf(log) /\ log \in Seq(Happenings)
  BY MarkersAtStartAre DEF TypeInv
<1>6. \A c : called(c) = Copies(c, Called(markers)) + Copies(c, Called(fresh))
  <2>1. mks = markers \union fresh /\ markers \cap fresh = {} /\ fresh \in SUBSET MarkersOf(log)
        /\ markers \in SUBSET MarkersOf(log)
    BY <1>5
  <2> HIDE DEF mks, fresh
  <2>2. \A c : Copies(c, Called(markers \union fresh))
          = Copies(c, Called(markers)) + Copies(c, Called(fresh))
    BY <1>5, <2>1, CalledSplit
  <2> QED BY <2>1, <2>2
<1>7. \A c : Copies(c, filled) \in Nat /\ (Copies(c, filled) > 0 <=> c \in DOMAIN filled)
  <2> HIDE DEF filled
  <2> QED BY <1>1, CopiesAre
<1>8. \A c : Copies(c, Called(fresh)) \in Nat
  <2>1. BagOf(Cells, Called(fresh))
    BY <1>5, CalledBag
  <2> QED BY <2>1, CopiesAre
<1> HIDE DEF mks, filled, fresh
<1>9. \A c : Copies(c, Pending') = 0
  <2>1. TypeInv' => PendingSums'
    BY PendingIs, PTL
  <2>2. \A c : Number(c, << >>) = 0
    BY NumberNone
  <2> TAKE c
  <2>3. Copies(c, Pending') = Number(c, work'["events.member"]) + Number(c, work'["events.message"])
                              + Number(c, work'["events.voice"])
    BY <1>4, <2>1 DEF PendingSums, Number, Counting, Copies
  <2> QED BY <1>4, <2>2, <2>3 DEF Streams
<1>10. ASSUME NEW c \in Cells, c[1].table \in unfilled
       PROVE  c[1] \notin DOMAIN opener /\ Copies(c, counts) = 0 /\ Copies(c, surplus) = 0
  <2>1. c[1] \notin DOMAIN opener
    BY <1>10 DEF Unfilled
  <2> QED BY <2>1 DEF CountInv, Rooted, Copies
<1>11. \A c \in Cells : Creates(c)' = Creates(c)
  <2> TAKE c \in Cells
  <2>1. c[1] \in DOMAIN opener => c[1] \in DOMAIN opener' /\ opener'[c[1]] = opener[c[1]]
    BY <1>1 DEF Opened
  <2>2. c[1] \in DOMAIN opener' /\ c[1] \notin DOMAIN opener => opener'[c[1]] = "startup"
    BY <1>1 DEF Opened
  <2> QED BY <2>1, <2>2 DEF Creates
<1>12. ASSUME NEW c \in Cells
       PROVE  Balanced(c)'
  <2> DEFINE n == Copies(c, counts)
             n2 == Copies(c, counts')
             p == Copies(c, Pending)
             p2 == Copies(c, Pending')
             l == Copies(c, lost)
             l2 == Copies(c, lost')
             k == Creates(c)
             k2 == Creates(c)'
             m == Copies(c, Called(markers))
             m2 == Copies(c, Called(markers'))
             u == Copies(c, surplus)
             u2 == Copies(c, surplus')
             f == Copies(c, filled)
             x == Copies(c, Called(fresh))
  <2>1. n \in Nat /\ p \in Nat /\ l \in Nat /\ k \in {0, 1} /\ m \in Nat /\ u \in Nat
    BY NumbersAre
  <2>2. f \in Nat /\ x \in Nat /\ n2 = n + f /\ p2 = 0 /\ k2 = k /\ m2 = m + x
    BY <1>1, <1>4, <1>6, <1>7, <1>8, <1>9, <1>11
  <2>3. n + p + l + k = m + u
    BY DEF CountInv, Balanced
  <2>4. n2 + p2 + l2 + k2 = m2 + u2
    <3>1. CASE c[1].table \in unfilled
      <4>1. n = 0 /\ u = 0 /\ k = 0
        BY <1>10, <3>1 DEF Creates
      <4>2. l2 = IF m2 > f THEN m2 - f ELSE 0
        BY <1>2, <1>4, <3>1
      <4>3. u2 = u + IF f > m2 THEN f - m2 ELSE 0
        BY <1>3, <1>4, <3>1
      <4> HIDE DEF n, n2, p, p2, l, l2, k, k2, m, m2, u, u2, f, x
      <4> QED BY <2>1, <2>2, <4>1, <4>2, <4>3
    <3>2. CASE c[1].table \notin unfilled
      <4>1. c[1].table \in DOMAIN Columns
        BY CellsAre
      <4>2. l2 = l + p + x
        BY <1>2, <3>2, <4>1
      <4>3. u2 = u + 0 /\ f = 0
        BY <1>1, <1>3, <1>7, <3>2
      <4> HIDE DEF n, n2, p, p2, l, l2, k, k2, m, m2, u, u2, f, x
      <4> QED BY <2>1, <2>2, <2>3, <4>2, <4>3
    <3> QED BY <3>1, <3>2
  <2> QED BY <2>4 DEF Balanced, Copies
<1>13. Rooted'
  <2>1. DOMAIN opener' = {c[1] : c \in DOMAIN filled} \union DOMAIN opener
    BY <1>1 DEF Opened
  <2>2. ASSUME NEW c \in DOMAIN counts'
        PROVE  c \in DOMAIN counts \/ c \in DOMAIN filled
    <3>1. Copies(c, counts') > 0
      BY <1>4, CopiesAre DEF TypeInv, CountersOK
    <3>2. Copies(c, counts) \in Nat /\ (Copies(c, counts) > 0 <=> c \in DOMAIN counts)
      BY CopiesAre DEF TypeInv, CountersOK
    <3> QED BY <1>1, <1>7, <3>1, <3>2
  <2>3. ASSUME NEW c \in DOMAIN surplus'
        PROVE  c \in DOMAIN surplus \/ c \in DOMAIN filled
    <3>1. Copies(c, surplus') > 0
      BY <1>4, CopiesAre DEF TypeInv, HistoryOK
    <3>2. Copies(c, surplus) \in Nat /\ (Copies(c, surplus) > 0 <=> c \in DOMAIN surplus)
      BY CopiesAre DEF TypeInv, HistoryOK
    <3>3. called(c) \in Nat
      <4>1. BagOf(Cells, Called(mks))
        BY <1>5, CalledBag
      <4> QED BY <4>1, CopiesAre
    <3> QED BY <1>3, <1>7, <3>1, <3>2, <3>3
  <2> QED BY <2>1, <2>2, <2>3 DEF CountInv, Rooted
<1> QED BY <1>12, <1>13 DEF CountInv

\* Where nobody has joined there is nothing to start from.
LEMMA NothingStarted ==
  ASSUME InitWith([m \in Members |-> None])
  PROVE  /\ \A m \in Members : \A f \in LifecycleColumns : lifecycle[m][f] = None
         /\ activity = {} /\ markers = {}
<1>1. \A m \in Members : \A f \in LifecycleColumns : lifecycle[m][f] = None
  BY DEF InitWith
<1>2. activity = {} /\ markers = FillAll({})
  BY DEF InitWith
<1>3. \A m \in Members : Joined(m) = None
  BY <1>1 DEF Joined, LifecycleColumns
<1>4. ASSUME NEW table \in FirstFilled \union FilledFromThose
      PROVE  StartupMarkers(table, {}) = {}
  <2>1. ActiveMarkers = {} /\ OnboardedMarkers = {}
    BY <1>1, <1>2 DEF ActiveMarkers, OnboardedMarkers, LifecycleColumns, Milestones
  <2>2. \A t : LifecycleMarkers(t, "joined_at") = {} /\ LifecycleMarkers(t, "left_at") = {}
    BY <1>1 DEF LifecycleMarkers, LifecycleColumns
  <2>3. \A t, ages : RetainedMarkers(t, ages) = {}
    BY <1>3 DEF RetainedMarkers
  <2>4. \A t, retained : ContributionMarkers(t, retained, {}) = {}
    BY DEF ContributionMarkers
  <2>5. \A t : StepMarkers(t) = {}
    BY <1>3 DEF StepMarkers, Eligible
  <2> QED BY <2>1, <2>2, <2>3, <2>4, <2>5 DEF StartupMarkers
<1>5. FillMarkers(FirstFilled, {}) = {} /\ FillMarkers(FilledFromThose, {}) = {}
  <2>1. ASSUME NEW tables \in SUBSET (FirstFilled \union FilledFromThose)
        PROVE  FillMarkers(tables, {}) = {}
    BY <1>4, <2>1 DEF FillMarkers
  <2> QED BY <2>1
<1> QED BY <1>1, <1>2, <1>5 DEF FillAll

\* Bags with nothing in them add up to nothing.
LEMMA NothingAdded ==
  ASSUME NEW A, NEW B, DOMAIN A = {}, DOMAIN B = {}
  PROVE  DOMAIN (A (+) B) = {}
BY DEF (+)

LEMMA InitCounts ==
  ASSUME InitWith([m \in Members |-> None])
  PROVE  CountInv
<1>1. TypeInv
  BY InitTypes, NoJoins
<1>2. /\ markers = {} /\ \A m \in Members : Joined(m) = None
  BY NothingStarted DEF Joined, LifecycleColumns
<1>3. /\ counts = FilledTables(DOMAIN Columns, markers, EmptyBag)
      /\ lost = EmptyBag /\ surplus = EmptyBag /\ work = [s \in Streams |-> << >>]
  BY DEF InitWith
<1>4. \A c : Copies(c, EmptyBag) = 0
  BY DEF Copies, EmptyBag, SetToBag
<1>5. Called({}) = EmptyBag
  <2> DEFINE cells == [mk \in {} |-> Range(CountedIn(mk))]
  <2>1. UNION Range(cells) = {}
    BY DEF Range
  <2> QED BY <2>1 DEF Called, EmptyBag, SetToBag
<1>6. ASSUME NEW table \in DOMAIN Columns
      PROVE  DOMAIN FillCounters(table, {}, EmptyBag) = {}
  <2> DEFINE marked == OfTable(Called({}), table)
             onboarded == {mk.member : mk \in {mk \in {} : mk.table = "guild_onboarded_members"}}
  <2>1. DOMAIN marked = {}
    BY <1>5 DEF OfTable, OfTables, EmptyBag, SetToBag
  <2> HIDE DEF marked
  <2>2. \A columns : DOMAIN OfColumns(marked, columns) = {}
    BY <2>1 DEF OfColumns
  <2>3. \A t, column : DOMAIN ByCohort(t, column, Members) = {}
    BY <1>2 DEF ByCohort
  <2>4. \A t, column : DOMAIN ByCohort(t, column, {}) = {}
    BY DEF ByCohort
  <2>6. DOMAIN CohortRows(marked) = {} /\ DOMAIN FunnelRows(marked) = {}
    <3> DEFINE retained == OfColumns(marked, {"d7_retained_members", "d30_retained_members"})
               stepped == OfColumns(marked, {"returned_next_week_members"} \union Milestones)
               joins == ByCohort("retention_cohorts", "joined_members", Members)
               funnel == ByCohort("activation_funnel_daily", "joined_members", Members)
    <3>1. DOMAIN retained = {} /\ DOMAIN stepped = {}
      BY <2>2
    <3>2. DOMAIN joins = {} /\ DOMAIN funnel = {}
      BY <2>3
    <3>3. PICK x, y : CohortRows(marked) = x (+) y /\ DOMAIN x = {} /\ DOMAIN y = {}
      BY <3>1, <3>2 DEF CohortRows
    <3>4. PICK p, q : FunnelRows(marked) = p (+) q /\ DOMAIN p = {} /\ DOMAIN q = {}
      BY <3>1, <3>2 DEF FunnelRows
    <3> QED BY <3>3, <3>4, NothingAdded
  <2>7. DOMAIN SummaryRows(marked, {}, EmptyBag) = {}
    <3> DEFINE told == [c \in {Cell("guild_summary_daily", Whole, d[1].day,
                 "messages") : d \in DOMAIN EmptyBag} |->
                          EmptyBag[Cell("guild_daily_activity", Whole, c[1].day, "messages")]]
               seen == OfColumns(marked, {"active_members", "joined_members", "left_members"})
               onboards == ByCohort("guild_summary_daily", "onboarded_members", {})
    <3>1. DOMAIN told = {}
      BY DEF EmptyBag, SetToBag
    <3>2. SummaryRows(marked, {}, EmptyBag) = (seen (+) onboards) (+) told
      BY DEF SummaryRows
    <3>3. DOMAIN seen = {} /\ DOMAIN onboards = {}
      BY <2>2, <2>4
    <3> HIDE DEF told, seen, onboards
    <3>4. DOMAIN (seen (+) onboards) = {}
      BY <3>3, NothingAdded
    <3> QED BY <3>1, <3>2, <3>4, NothingAdded
  <2>8. onboarded = {}
    OBVIOUS
  <2> HIDE DEF onboarded
  <2>9. FillCounters(table, {}, EmptyBag) \in
          {CohortRows(marked), FunnelRows(marked), SummaryRows(marked, onboarded, EmptyBag), marked}
    BY DEF FillCounters, marked, onboarded
  <2> QED BY <2>1, <2>6, <2>7, <2>8, <2>9
<1>7. DOMAIN counts = {}
  BY <1>2, <1>3, <1>6 DEF FilledTables
<1>8. \A c : Creates(c) = 0
  <2>1. \A row \in DOMAIN opener : opener[row] \in {"messages", "startup"}
    BY CellIs DEF InitWith
  <2> QED BY <2>1 DEF Creates
<1>9. \A c : Copies(c, Pending) = 0
  <2>1. \A c : Number(c, << >>) = 0
    BY NumberNone
  <2> QED BY <1>1, <1>3, <2>1, PendingIs DEF PendingSums, Streams
<1>10. \A c : Copies(c, counts) = 0
  BY <1>7 DEF Copies
<1>11. DOMAIN surplus = {}
  BY <1>3 DEF EmptyBag, SetToBag
<1> QED
  BY <1>2, <1>3, <1>4, <1>5, <1>7, <1>8, <1>9, <1>10, <1>11 DEF CountInv, Balanced, Rooted

LEMMA CountsStep ==
  ASSUME TypeInv, CountInv, [Next]_vars
  PROVE  CountInv'
<1>1. CASE UNCHANGED vars
  BY <1>1, SameBalance, StutteringTypes DEF vars, tableVars, workerVars, historyVars
<1>2. ASSUME NEW s \in Streams, Begin(s) \/ FindsClosed(s) \/ Run(s) \/ StatementFails(s)
      PROVE  CountInv'
  BY <1>2, CountsBegin, CountsClosed, CountsRun, CountsFail
<1>3. ASSUME NEW now \in 0 .. Len(log), Restart(now)
      PROVE  CountInv'
  BY <1>3, CountsRestart
<1> QED BY <1>1, <1>2, <1>3 DEF Next

\* Counters and markers agree to the last increment, for any number of events,
\* failures and restarts: what a counter lacks is still to come, was dropped,
\* or is the increment that created its row.
THEOREM MarkersCounted ==
  Spec => []EveryMarkerCounted
<1>1. Init => TypeInv /\ CountInv
  BY InitTypes, NoJoins, InitCounts DEF Init
<1>2. TypeInv /\ CountInv /\ [Next]_vars => TypeInv' /\ CountInv'
  BY StepTypes, CountsStep
<1>3. TypeInv /\ CountInv => EveryMarkerCounted
  BY CountInvImplies
<1> QED
  BY <1>1, <1>2, <1>3, PTL DEF Spec

-----------------------------------------------------------------------------
(* Steps taken and steps counted.                                           *)

\* Whatever is written down of the step is looked at afterwards; only a message
\* is put into the index.
Followed(statements, step) ==
  \A j \in DOMAIN statements :
    /\ statements[j].op = "upsert" =>
         /\ step \in statements[j].arg
         /\ \E k \in DOMAIN statements : j < k /\ statements[k] = Milestone(step)
    /\ statements[j].op = "mark" /\ statements[j].arg.table = "message_index"
         => step = "first_message_at"

StepAhead(statements, step) == \E k \in DOMAIN statements : statements[k] = Milestone(step)

StepIn(i) == StepOf(log[i].kind)

\* The step of event i is counted, if it was taken and the join was known; or
\* its table and day are among those that are waived.
Recorded(i, W) ==
  i \in sawJoin /\ (StepIn(i) = "first_message_at" => i \notin failed \union reindexed)
    /\ Took(log[i].member, StepIn(i))
    => \/ \E mk \in markers : mk.table = StepIn(i) /\ mk.member = log[i].member
       \/ <<StepIn(i), Day(Joined(log[i].member))>> \in W

DoneRecorded(W) == \A i \in done : StepIn(i) \in Milestones => Recorded(i, W)

\* A handler at work has the step ahead of it, or nothing left to count.
WorkRecorded(W) ==
  \A s \in Streams : Busy(s) /\ StepIn(current[s]) \in Milestones =>
    /\ Followed(work[s], StepIn(current[s]))
    /\ StepAhead(work[s], StepIn(current[s])) \/ Recorded(current[s], W)

\* An event that saw the join saw its own step written down, too.
StepsKnown ==
  \A i \in sawJoin : StepIn(i) \in Milestones =>
    Joined(log[i].member) # None /\ lifecycle[log[i].member][StepIn(i)] # None

\* An event is in one place, and comes back only after a failure.
InOnePlace ==
  \A s \in Streams :
    /\ \A j, k \in DOMAIN queue[s] : queue[s][j] = queue[s][k] => j = k
    /\ \A k \in DOMAIN queue[s] :
         /\ queue[s][k] \notin done
         /\ queue[s][k] # current[s]
         /\ queue[s][k] \in sawJoin => queue[s][k] \in failed
    /\ Busy(s) => current[s] \notin done

StepsInv(W) == DoneRecorded(W) /\ WorkRecorded(W) /\ StepsKnown /\ InOnePlace

LEMMA FollowedTail ==
  ASSUME NEW S, NEW statements \in Seq(S), statements # << >>, NEW step, Followed(statements, step)
  PROVE  /\ Followed(Tail(statements), step)
         /\ Head(statements).op = "upsert" => StepAhead(Tail(statements), step)
         /\ StepAhead(statements, step) /\ Head(statements) # Milestone(step)
              => StepAhead(Tail(statements), step)
<1> DEFINE rest == Tail(statements)
<1>1. /\ rest \in Seq(S) /\ statements[1] = Head(statements) /\ 1 \in DOMAIN statements
      /\ \A k \in DOMAIN rest : k \in Nat /\ k + 1 \in DOMAIN statements
           /\ rest[k] = statements[k + 1]
      /\ \A j \in DOMAIN statements : j = 1 \/ (j - 1 \in DOMAIN rest
           /\ rest[j - 1] = statements[j] /\ j \in Nat)
      /\ \A j \in DOMAIN statements : j \in Nat
  OBVIOUS
<1> HIDE DEF rest
<1>2. \A k \in DOMAIN statements : statements[k] = Milestone(step) /\ k # 1 =>
        k - 1 \in DOMAIN rest /\ rest[k - 1] = Milestone(step)
  BY <1>1
<1>3. Followed(rest, step)
  <2> SUFFICES ASSUME NEW j \in DOMAIN rest
               PROVE  /\ rest[j].op = "upsert" =>
                           /\ step \in rest[j].arg
                           /\ \E k \in DOMAIN rest : j < k /\ rest[k] = Milestone(step)
                      /\ rest[j].op = "mark" /\ rest[j].arg.table = "message_index"
                           => step = "first_message_at"
    BY DEF Followed
  <2>1. j \in Nat /\ j + 1 \in DOMAIN statements /\ rest[j] = statements[j + 1]
    BY <1>1
  <2>2. ASSUME rest[j].op = "upsert"
        PROVE  step \in rest[j].arg /\ \E k \in DOMAIN rest : j < k /\ rest[k] = Milestone(step)
    <3>1. step \in rest[j].arg /\ \E k \in DOMAIN statements : j + 1 < k
            /\ statements[k] = Milestone(step)
      BY <2>1, <2>2 DEF Followed
    <3>2. PICK k \in DOMAIN statements : j + 1 < k /\ statements[k] = Milestone(step)
      BY <3>1
    <3>3. k \in Nat /\ k # 1 /\ j < k - 1
      BY <1>1, <2>1, <3>2
    <3> QED BY <1>2, <3>1, <3>2, <3>3
  <2> QED BY <2>1, <2>2 DEF Followed
<1>4. ASSUME Head(statements).op = "upsert"
      PROVE  StepAhead(rest, step)
  <2>1. PICK k \in DOMAIN statements : 1 < k /\ statements[k] = Milestone(step)
    BY <1>1, <1>4 DEF Followed
  <2> QED BY <1>2, <2>1 DEF StepAhead
<1>5. ASSUME StepAhead(statements, step), Head(statements) # Milestone(step)
      PROVE  StepAhead(rest, step)
  BY <1>1, <1>2, <1>5 DEF StepAhead
<1> QED BY <1>3, <1>4, <1>5 DEF rest

LEMMA FollowedBoth ==
  ASSUME NEW S, NEW first \in Seq(S), NEW last \in Seq(S), NEW step
  PROVE  /\ Followed(first, step) /\ Followed(last, step) => Followed(first \o last, step)
         /\ StepAhead(first, step) \/ StepAhead(last, step) => StepAhead(first \o last, step)
<1> DEFINE both == first \o last
           n == Len(first)
<1>1. n \in Nat
  OBVIOUS
<1>2. /\ \A k \in DOMAIN first : k \in DOMAIN both /\ both[k] = first[k]
      /\ \A k \in DOMAIN last : k \in Nat /\ n + k \in DOMAIN both /\ both[n + k] = last[k]
      /\ \A k \in DOMAIN both : \/ k \in DOMAIN first
                                \/ k - n \in DOMAIN last /\ k = n + (k - n)
  OBVIOUS
<1> HIDE DEF both, n
<1>3. ASSUME Followed(first, step), Followed(last, step)
      PROVE  Followed(both, step)
  <2> SUFFICES ASSUME NEW j \in DOMAIN both
               PROVE  /\ both[j].op = "upsert" =>
                           /\ step \in both[j].arg
                           /\ \E k \in DOMAIN both : j < k /\ both[k] = Milestone(step)
                      /\ both[j].op = "mark" /\ both[j].arg.table = "message_index"
                           => step = "first_message_at"
    BY DEF Followed
  <2>1. CASE j \in DOMAIN first
    <3>1. both[j] = first[j]
      BY <1>2, <2>1
    <3> QED BY <1>2, <1>3, <2>1, <3>1 DEF Followed
  <2>2. CASE j \notin DOMAIN first
    <3> DEFINE i == j - n
    <3>1. i \in DOMAIN last /\ j = n + i /\ i \in Nat
      BY <1>2, <2>2
    <3> HIDE DEF i
    <3>2. both[j] = last[i]
      BY <1>2, <3>1
    <3>3. ASSUME NEW k \in DOMAIN last, i < k, last[k] = Milestone(step)
          PROVE  \E h \in DOMAIN both : j < h /\ both[h] = Milestone(step)
      <4>1. n + k \in DOMAIN both /\ both[n + k] = last[k] /\ k \in Nat
        BY <1>2
      <4>2. j < n + k
        BY <1>1, <3>1, <3>3, <4>1
      <4> QED BY <3>3, <4>1, <4>2
    <3> QED BY <1>3, <3>1, <3>2, <3>3 DEF Followed
  <2> QED BY <2>1, <2>2
<1>4. StepAhead(first, step) \/ StepAhead(last, step) => StepAhead(both, step)
  BY <1>2 DEF StepAhead
<1> QED BY <1>3, <1>4 DEF both

\* Statements that neither write steps down nor index messages.
LEMMA FollowedNothing ==
  ASSUME NEW statements, NEW step,
         \A k \in DOMAIN statements :
           /\ statements[k].op # "upsert"
           /\ statements[k].op = "mark" => statements[k].arg.table # "message_index"
  PROVE  Followed(statements, step)
BY DEF Followed

LEMMA StepsAre ==
  \A kind \in HandlerKinds :
    /\ StepOf(kind) \in Milestones <=> kind \in {"joinWithRole", "roles", "message", "reaction",
         "voiceJoin"}
    /\ StepOf(kind) = "first_message_at" <=> kind = "message"
BY DEF StepOf, HandlerKinds, EventKinds, Milestones

LEMMA FollowedHandler ==
  ASSUME NEW i \in DOMAIN log, log \in Seq(Happenings), StreamOf(log[i].kind) \in Streams,
         StepIn(i) \in Milestones
  PROVE  /\ Followed(Handler(i), StepIn(i))
         /\ StepIn(i) # "first_message_at" => StepAhead(Handler(i), StepIn(i))
<1> DEFINE e == log[i]
           mk(table, of) == Mark(Marker(table, e.member, of, Day(e.at)))
           step == StepIn(i)
           h == Handler(i)
<1>1. e.kind \in {"joinWithRole", "roles", "message", "reaction", "voiceJoin"}
  BY EventsAre, StreamsAre, StepsAre DEF StepIn
<1>2. \A table, of : mk(table, of).op = "mark" /\ mk(table, of).arg.table = table
  BY StatementIs, MarkIs
<1>3. \A x : Upsert(x).op = "upsert" /\ Upsert(x).arg = x /\ Milestone(x).op = "milestone"
             /\ Do("activity", x).op = "activity"
  BY StatementIs
<1> HIDE DEF mk
<1>4. CASE e.kind = "joinWithRole"
  <2>1. /\ step = "first_role_at"
        /\ h = <<Upsert({"joined_at", "first_role_at"}), mk("guild_joined_members", Whole),
                 Milestone("first_role_at")>>
    BY <1>4 DEF Handler, mk, StepIn, StepOf
  <2> HIDE DEF step, h
  <2>2. /\ DOMAIN h = 1 .. 3 /\ h[3] = Milestone(step)
        /\ h[1].op = "upsert" /\ step \in h[1].arg
        /\ h[2].op = "mark" /\ h[2].arg.table # "message_index" /\ h[3].op = "milestone"
    BY <1>2, <1>3, <2>1
  <2> QED BY <2>2 DEF Followed, StepAhead, step, h
<1>5. CASE e.kind = "roles"
  <2>1. /\ step = "first_role_at"
        /\ h = <<Upsert({"first_role_at"}), Milestone("guild_onboarded_members"),
             Milestone("first_role_at")>>
    BY <1>5 DEF Handler, StepIn, StepOf
  <2> HIDE DEF step, h
  <2>2. /\ DOMAIN h = 1 .. 3 /\ h[3] = Milestone(step)
        /\ h[1].op = "upsert" /\ step \in h[1].arg /\ h[2].op = "milestone" /\ h[3].op = "milestone"
    BY <1>2, <1>3, <2>1
  <2> QED BY <2>2 DEF Followed, StepAhead, step, h
<1>6. CASE e.kind = "message"
  <2>1. step = "first_message_at" /\ h = <<mk("message_index", i)>>
    BY <1>6 DEF Handler, mk, StepIn, StepOf
  <2> HIDE DEF step, h
  <2>2. DOMAIN h = 1 .. 1 /\ h[1].op = "mark"
    BY <1>2, <2>1
  <2> QED BY <2>1, <2>2 DEF Followed, step, h
<1>7. CASE e.kind = "reaction"
  <2>1. /\ step = "first_reaction_at"
        /\ h = <<Do("activity", Day(e.at)), mk("guild_daily_active_members", Whole),
                 Upsert({"first_reaction_at"}), Milestone("first_reaction_at")>>
    BY <1>7 DEF Handler, mk, StepIn, StepOf
  <2> HIDE DEF step, h
  <2>2. /\ DOMAIN h = 1 .. 4 /\ h[4] = Milestone(step)
        /\ h[1].op = "activity" /\ h[2].op = "mark" /\ h[2].arg.table # "message_index"
        /\ h[3].op = "upsert" /\ step \in h[3].arg /\ h[4].op = "milestone"
    BY <1>2, <1>3, <2>1
  <2> QED BY <2>2 DEF Followed, StepAhead, step, h
<1>8. CASE e.kind = "voiceJoin"
  <2>1. /\ step = "first_voice_at"
        /\ h = <<Upsert({"first_voice_at"}), Milestone("first_voice_at")>>
    BY <1>8 DEF Handler, StepIn, StepOf
  <2> HIDE DEF step, h
  <2>2. /\ DOMAIN h = 1 .. 2 /\ h[2] = Milestone(step)
        /\ h[1].op = "upsert" /\ step \in h[1].arg /\ h[2].op = "milestone"
    BY <1>3, <2>1
  <2> QED BY <2>2 DEF Followed, StepAhead, step, h
<1> QED BY <1>1, <1>4, <1>5, <1>6, <1>7, <1>8

LEMMA FollowedMessage ==
  ASSUME NEW e, NEW step, step = "first_message_at"
  PROVE  Followed(MessageSteps(e), step)
<1> DEFINE mk == Mark(Marker("guild_daily_active_members", e.member, Whole, Day(e.at)))
           h == MessageSteps(e)
<1>1. mk.op = "mark" /\ mk.arg.table = "guild_daily_active_members"
  BY StatementIs, MarkIs
<1>2. \A x : Upsert(x).op = "upsert" /\ Upsert(x).arg = x /\ Milestone(x).op = "milestone"
             /\ Do("activity", x).op = "activity"
  BY StatementIs
<1>3. h = << >> \/ h = <<Upsert({"first_message_at"}), Milestone("guild_onboarded_members"),
                         Milestone("first_message_at"), Do("activity", Day(e.at)), mk>>
  BY DEF MessageSteps
<1> HIDE DEF mk, h
<1>4. CASE h = << >>
  BY <1>4 DEF Followed, h
<1>5. CASE h # << >>
  <2>1. /\ DOMAIN h = 1 .. 5 /\ h[3] = Milestone(step)
        /\ h[1].op = "upsert" /\ step \in h[1].arg /\ h[2].op = "milestone" /\ h[3].op = "milestone"
        /\ h[4].op = "activity" /\ h[5].op = "mark" /\ h[5].arg.table # "message_index"
    BY <1>1, <1>2, <1>3, <1>5
  <2> QED BY <2>1 DEF Followed, h
<1> QED BY <1>4, <1>5

LEMMA FollowedFollow ==
  ASSUME NEW e \in Happenings, NEW mk \in MarkersOf(log), NEW step,
         mk.table = "message_index" => step = "first_message_at"
  PROVE  Followed(FollowUps(mk, e), step)
<1> DEFINE first == [j \in DOMAIN CountedIn(mk) |-> Count(CountedIn(mk)[j])]
           S == Due(e.member, log, 0)
<1>1. CountedIn(mk) \in Seq(Cells)
  BY CountedInCells
<1>2. \A c \in Cells : Count(c) \in S
  BY DueIn
<1>3. first \in Seq(S)
  BY <1>1, <1>2
<1>4. Followed(first, step)
  <2>1. \A c : Count(c).op = "count"
    BY StatementIs
  <2>2. \A k \in DOMAIN first : first[k].op = "count"
    BY <2>1
  <2> HIDE DEF first
  <2> QED BY <2>2, FollowedNothing
<1>5. MessageSteps(e) \in Seq(S) /\ (mk.table = "message_index" => Followed(MessageSteps(e), step))
  BY MessageStepsIn, FollowedMessage
<1>6. ASSUME mk.table = "guild_daily_active_members"
      PROVE  <<Do("retention", mk.day)>> \in Seq(S) /\ Followed(<<Do("retention", mk.day)>>, step)
  <2>1. mk.day \in Days
    BY <1>6 DEF MarkersOf, Fits
  <2>2. Do("retention", mk.day) \in S /\ Do("retention", mk.day).op = "retention"
    BY <2>1, DueIn, StatementIs
  <2> HIDE DEF S
  <2> QED BY <2>2 DEF Followed
<1>7. ASSUME NEW table \in FilledFromThose
      PROVE  <<Do("contribution", table)>> \in Seq(S)
               /\ Followed(<<Do("contribution", table)>>, step)
  <2>1. Do("contribution", table) \in S /\ Do("contribution", table).op = "contribution"
    BY DueIn, StatementIs DEF None
  <2> HIDE DEF S
  <2> QED BY <2>1 DEF Followed
<1>8. << >> \in Seq(S) /\ Followed(<< >>, step)
  BY DEF Followed
<1> HIDE DEF S, first
<1>9. PICK last \in Seq(S) : FollowUps(mk, e) = first \o last /\ Followed(last, step)
  BY <1>5, <1>6, <1>7, <1>8 DEF FollowUps, FilledFromThose, first
<1> QED
  BY <1>3, <1>4, <1>9, FollowedBoth

\* What is counted stays so; what is not taken with the join known, too.
LEMMA RecordedStays ==
  ASSUME NEW W, TypeInv, StepsKnown, ColumnsKept, markers \subseteq markers', log' = log,
         failed \subseteq failed', reindexed \subseteq reindexed',
         NEW i \in DOMAIN log, StepIn(i) \in Milestones, i \in sawJoin' => i \in sawJoin,
         Recorded(i, W)
  PROVE  Recorded(i, W)'
<1> DEFINE m == log[i].member
           step == StepIn(i)
<1>1. StepIn(i)' = step /\ log'[i].member = m
  BY DEF StepIn
<1> SUFFICES ASSUME i \in sawJoin', step = "first_message_at" => i \notin failed' \union reindexed',
                    Took(m, step)'
             PROVE  \/ \E mk \in markers' : mk.table = step /\ mk.member = m
                    \/ <<step, Day(Joined(m)')>> \in W
  BY <1>1 DEF Recorded, Joined
<1>2. i \in sawJoin /\ (step = "first_message_at" => i \notin failed \union reindexed)
  OBVIOUS
<1>3. Joined(m) # None /\ lifecycle[m][step] # None
  BY <1>2 DEF StepsKnown
<1>4. m \in Members /\ step \in LifecycleColumns \ {"left_at"}
  BY EventsAre, StepColumns DEF TypeInv
<1>5. Joined(m)' = Joined(m) /\ lifecycle'[m][step] = lifecycle[m][step]
  BY <1>3, <1>4, StepColumns DEF ColumnsKept, Joined
<1>6. Took(m, step)
  BY <1>1, <1>3, <1>5 DEF Took
<1>7. \/ \E mk \in markers : mk.table = step /\ mk.member = m
      \/ <<step, Day(Joined(m))>> \in W
  BY <1>2, <1>6 DEF Recorded
<1> QED BY <1>5, <1>7

LEMMA ProceedEnds ==
  ASSUME NEW s \in Streams, NEW rest, Proceed(s, rest)
  PROVE  /\ failed \subseteq failed'
         /\ done' = done \/ (rest = << >> /\ done' = done \union {current[s]})
BY DEF Proceed, Fail

LEMMA PlacesProceed ==
  ASSUME TypeInv, InOnePlace, NEW s \in Streams, Busy(s), NEW rest, Proceed(s, rest),
         sawJoin' \subseteq sawJoin \union {current[s]}
  PROVE  InOnePlace'
<1> DEFINE i == current[s]
<1>1. /\ i \in DOMAIN log /\ i # 0 /\ 0 \notin DOMAIN log
      /\ queue \in [Streams -> Seq(DOMAIN log)] /\ current \in [Streams -> DOMAIN log \union {0}]
  BY AtWork DEF TypeInv, QueuesOK, WorkersOK
<1>2. /\ \A t \in Streams : \A k \in DOMAIN queue[t] : queue[t][k] # i
      /\ \A t \in Streams : t # s => current[t] # i
  <2>1. StreamOf(log[i].kind) = s
    BY DEF TypeInv, WorkersOK, Event
  <2>2. \A t \in Streams : \A k \in DOMAIN queue[t] : StreamOf(log[queue[t][k]].kind) = t
    BY DEF TypeInv, QueuesOK
  <2>3. \A t \in Streams : current[t] # 0 => StreamOf(log[current[t]].kind) = t
    BY DEF TypeInv, WorkersOK, Event, Busy
  <2> QED BY <1>1, <2>1, <2>2, <2>3 DEF InOnePlace
<1>3. failed \subseteq failed'
  BY ProceedEnds
<1>4. CASE Fail(s, rest)
  <2> DEFINE q == Append(queue[s], i)
  <2>1. /\ queue' = [queue EXCEPT ![s] = q] /\ current' = [current EXCEPT ![s] = 0]
        /\ failed' = failed \union {i} /\ done' = done
    BY <1>4 DEF Fail
  <2>2. /\ q \in Seq(DOMAIN log) /\ Len(queue[s]) \in Nat
        /\ \A k \in DOMAIN q : (k \in DOMAIN queue[s]
             /\ q[k] = queue[s][k]) \/ (k = Len(queue[s]) + 1 /\ q[k] = i)
    BY <1>1
  <2> HIDE DEF q
  <2>3. \A j, k \in DOMAIN q : q[j] = q[k] => j = k
    BY <1>2, <2>2 DEF InOnePlace
  <2>4. \A k \in DOMAIN q : q[k] \notin done /\ q[k] # 0 /\ (q[k] \in sawJoin' => q[k] \in failed')
    BY <1>1, <1>2, <2>1, <2>2 DEF InOnePlace, Busy
  <2>5. ASSUME NEW t \in Streams, t # s
        PROVE  queue'[t] = queue[t] /\ current'[t] = current[t]
    BY <1>1, <2>1, <2>5
  <2>6. queue'[s] = q /\ current'[s] = 0
    BY <1>1, <2>1
  <2> SUFFICES ASSUME NEW t \in Streams
               PROVE  /\ \A j, k \in DOMAIN queue'[t] : queue'[t][j] = queue'[t][k] => j = k
                      /\ \A k \in DOMAIN queue'[t] :
                           /\ queue'[t][k] \notin done'
                           /\ queue'[t][k] # current'[t]
                           /\ queue'[t][k] \in sawJoin' => queue'[t][k] \in failed'
                      /\ current'[t] # 0 => current'[t] \notin done'
    BY DEF InOnePlace, Busy
  <2>7. CASE t = s
    BY <2>1, <2>3, <2>4, <2>6, <2>7
  <2>8. CASE t # s
    BY <1>2, <1>3, <2>1, <2>5, <2>8 DEF InOnePlace, Busy
  <2> QED BY <2>7, <2>8
<1>5. CASE ~Fail(s, rest)
  <2>1. /\ queue' = queue
        /\ \/ current' = current /\ done' = done
           \/ /\ current' = [current EXCEPT ![s] = 0]
              /\ done' = done \union {i}
    BY <1>5 DEF Proceed
  <2>2. \A t \in Streams : \A k \in DOMAIN queue[t] : queue[t][k] # 0
    BY <1>1
  <2>3. \A t \in Streams : (current'[t] = current[t] /\ done' = done) \/ current'[t] = 0
                           \/ (t # s /\ current'[t] = current[t] /\ done' = done \union {i})
    BY <1>1, <2>1
  <2> SUFFICES ASSUME NEW t \in Streams
               PROVE  /\ \A j, k \in DOMAIN queue[t] : queue[t][j] = queue[t][k] => j = k
                      /\ \A k \in DOMAIN queue[t] :
                           /\ queue[t][k] \notin done'
                           /\ queue[t][k] # current'[t]
                           /\ queue[t][k] \in sawJoin' => queue[t][k] \in failed'
                      /\ current'[t] # 0 => current'[t] \notin done'
    BY <2>1 DEF InOnePlace, Busy
  <2> QED
    BY <1>2, <1>3, <2>1, <2>2, <2>3 DEF InOnePlace, Busy
<1> QED BY <1>4, <1>5

LEMMA StepsProceed ==
  ASSUME NEW W, TypeInv, StepsInv(W), NEW s \in Streams, Busy(s), NEW rest, Proceed(s, rest),
         NEW i, i = current[s], ColumnsKept, markers \subseteq markers', reindexed' = reindexed,
         sawJoin' \subseteq sawJoin \union {i},
         StepIn(i) \in Milestones =>
           /\ i \in sawJoin' =>
                lifecycle'[log[i].member]["joined_at"] # None
                  /\ lifecycle'[log[i].member][StepIn(i)] # None
           /\ Followed(rest, StepIn(i))
           /\ StepAhead(rest, StepIn(i)) \/ Recorded(i, W)'
  PROVE  StepsInv(W)'
<1>1. /\ i \in DOMAIN log /\ log' = log /\ failed \subseteq failed' /\ sawJoin \subseteq DOMAIN log
      /\ done \subseteq DOMAIN log /\ log \in Seq(Happenings)
  BY AtWork, ProceedWork, ProceedEnds DEF TypeInv, HistoryOK
<1>2. \A j : StepIn(j)' = StepIn(j) /\ log'[j] = log[j]
  BY <1>1 DEF StepIn
<1>3. ASSUME NEW j \in DOMAIN log, j # i, StepIn(j) \in Milestones, Recorded(j, W)
      PROVE  Recorded(j, W)'
  BY <1>1, <1>3, RecordedStays DEF StepsInv
<1>4. InOnePlace'
  BY PlacesProceed DEF StepsInv
<1>5. StepsKnown'
  <2> SUFFICES ASSUME NEW j \in sawJoin', StepIn(j) \in Milestones
               PROVE  /\ lifecycle'[log[j].member]["joined_at"] # None
                      /\ lifecycle'[log[j].member][StepIn(j)] # None
    BY <1>1, <1>2 DEF StepsKnown, Joined
  <2>1. CASE j = i
    BY <2>1
  <2>2. CASE j # i
    <3> DEFINE m == log[j].member
               step == StepIn(j)
    <3>1. j \in sawJoin
      BY <2>2
    <3>2. Joined(m) # None /\ lifecycle[m][step] # None
      BY <3>1 DEF StepsInv, StepsKnown
    <3>3. m \in Members /\ step \in LifecycleColumns \ {"left_at"}
      BY <1>1, <3>1, EventsAre, StepColumns
    <3>4. lifecycle'[m]["joined_at"] = Joined(m) /\ lifecycle'[m][step] = lifecycle[m][step]
      BY <1>1, <1>2, <3>2, <3>3, StepColumns DEF ColumnsKept, Joined
    <3> QED BY <3>2, <3>4
  <2> QED BY <2>1, <2>2
<1>6. WorkRecorded(W)'
  <2> SUFFICES ASSUME NEW t \in Streams, Busy(t)', StepIn(current'[t]) \in Milestones
               PROVE  /\ Followed(work'[t], StepIn(current'[t]))
                      /\ StepAhead(work'[t], StepIn(current'[t])) \/ Recorded(current[t], W)'
    BY <1>2 DEF WorkRecorded, Followed, StepAhead
  <2>1. CASE t = s
    <3>1. current'[t] = i /\ work'[t] = rest
      BY <2>1, ProceedWork
    <3>2. Recorded(i, W)' => Recorded(current[t], W)'
      BY <3>1 DEF Recorded, StepIn
    <3> QED BY <3>1, <3>2
  <2>2. CASE t # s
    <3>1. current'[t] = current[t] /\ work'[t] = work[t] /\ Busy(t)
      BY <2>2, ProceedWork DEF Busy
    <3>2. current[t] # i /\ current[t] \in DOMAIN log
      <4>1. StreamOf(log[i].kind) = s /\ StreamOf(log[current[t]].kind) = t
        BY <3>1 DEF TypeInv, WorkersOK, Event
      <4> QED BY <2>2, <3>1, <4>1, AtWork
    <3>3. Followed(work[t], StepIn(current[t])) /\ (StepAhead(work[t],
            StepIn(current[t])) \/ Recorded(current[t], W))
      BY <3>1 DEF StepsInv, WorkRecorded
    <3>4. Recorded(current[t], W) => Recorded(current[t], W)'
      <4> DEFINE j == current[t]
      <4>1. ASSUME NEW k \in DOMAIN log, k = j, Recorded(k, W)
            PROVE  Recorded(k, W)'
        BY <1>3, <3>1, <3>2, <4>1
      <4>2. \A k : k = j /\ Recorded(k, W)' => Recorded(j, W)'
        BY <3>1 DEF Recorded, StepIn
      <4> QED BY <3>2, <4>1, <4>2
    <3> QED BY <3>1, <3>3, <3>4
  <2> QED BY <2>1, <2>2
<1>7. DoneRecorded(W)'
  <2> SUFFICES ASSUME NEW j \in done', StepIn(j) \in Milestones
               PROVE  Recorded(j, W)'
    BY <1>2 DEF DoneRecorded
  <2>1. CASE j \in done
    <3>1. j # i /\ Recorded(j, W)
      BY <2>1 DEF StepsInv, InOnePlace, DoneRecorded
    <3> QED BY <1>1, <1>3, <2>1, <3>1
  <2>2. CASE j \notin done
    <3>1. rest = << >> /\ j = i
      BY <2>2, ProceedEnds
    <3>2. ~StepAhead(rest, StepIn(i))
      BY <3>1 DEF StepAhead
    <3>3. Recorded(i, W)'
      BY <3>1, <3>2
    <3> QED BY <3>1, <3>3
  <2> QED BY <2>1, <2>2
<1> QED BY <1>4, <1>5, <1>6, <1>7 DEF StepsInv

\* Only an upsert sees whether the join is known.
LEMMA RunSees ==
  ASSUME NEW s \in Streams, Run(s)
  PROVE  /\ reindexed' = reindexed
         /\ Next1(s).op # "upsert" => sawJoin' = sawJoin
         /\ Next1(s).op = "upsert" => RunUpsert(s)
BY DEF Run, RunUpsert, RunActivity, RunMark, RunMilestone, RunCount, RunRetention, RunContribution,
       Insert, tableVars

LEMMA UpsertSees ==
  ASSUME TypeInv, NEW s \in Streams, RunUpsert(s), NEW f \in Next1(s).arg, f \in Milestones
  PROVE  /\ sawJoin' \subseteq sawJoin \union {current[s]}
         /\ lifecycle'[Event(s).member][f] # None
         /\ lifecycle'[Event(s).member]["joined_at"] # None \/ (sawJoin' = sawJoin)
         /\ Proceed(s, Tail(work[s]))
<1> DEFINE e == Event(s)
           set == Next1(s).arg
           updated(row) ==
             [g \in DOMAIN row |-> IF g = "left_at" /\ g \in set THEN e.at
                                   ELSE Coalesce(row[g], IF g \in set THEN e.at ELSE None)]
<1>1. /\ Busy(s) /\ Proceed(s, Tail(work[s]))
      /\ lifecycle' = [lifecycle EXCEPT ![e.member] = updated(@)]
      /\ sawJoin' = IF lifecycle'[e.member]["joined_at"] # None
           THEN sawJoin \union {current[s]} ELSE sawJoin
  BY DEF RunUpsert
<1>2. e \in Happenings /\ e.member \in Members /\ e.at \in Nat
  BY <1>1, AtWork, EventsAre, TimesAre
<1>3. DOMAIN lifecycle[e.member] = LifecycleColumns /\ f \in LifecycleColumns /\ f # "left_at"
      /\ lifecycle \in [Members -> [LifecycleColumns -> Times \union {None}]]
  BY <1>2, StepColumns DEF TypeInv, MemberTablesOK
<1>4. updated(lifecycle[e.member])[f] = Coalesce(lifecycle[e.member][f], e.at)
  BY <1>3
<1>5. Coalesce(lifecycle[e.member][f], e.at) # None
  BY <1>2 DEF Coalesce, None
<1> HIDE DEF updated, e
<1>6. lifecycle'[e.member] = updated(lifecycle[e.member])
  BY <1>1, <1>2, <1>3
<1> QED BY <1>1, <1>4, <1>5, <1>6 DEF e

\* After the look at the step there is nothing left to count of it.
LEMMA MilestoneRecords ==
  ASSUME NEW W, TypeInv, StepsKnown, NEW s \in Streams, NEW i, i = current[s], StepIn(i) \in Milestones,
         Run(s), Next1(s) = Milestone(StepIn(i))
  PROVE  Recorded(i, W)'
<1> DEFINE m == log[i].member
           step == StepIn(i)
           mk == Marker(step, m, Whole, Day(Joined(m)))
<1>1. RunMilestone(s) /\ Next1(s).arg = step
  BY StatementIs DEF Run, RunUpsert, RunActivity, RunMark, RunCount, RunRetention, RunContribution
<1>2. Busy(s) /\ Event(s).member = m
  BY <1>1 DEF RunMilestone, Event
<1>3. log' = log /\ UNCHANGED lifecycle /\ sawJoin' = sawJoin
  <2>1. UNCHANGED lifecycle /\ sawJoin' = sawJoin
    BY <1>1 DEF RunMilestone, Insert, tableVars
  <2> QED BY <1>1, <2>1, RunKeeps DEF Run
<1>4. StepIn(i)' = step /\ log'[i].member = m /\ i \in DOMAIN log /\ m \in Members
  BY <1>2, <1>3, AtWork, EventsAre DEF StepIn, TypeInv
<1> SUFFICES ASSUME i \in sawJoin', Took(log[i].member, StepIn(i))'
             PROVE  \E x \in markers' : x.table = step /\ x.member = m
  BY <1>4 DEF Recorded
<1>5. Took(m, step)
  BY <1>3, <1>4 DEF Took, Joined
<1>6. i \in sawJoin /\ lifecycle[m][step] # None
  BY <1>3 DEF StepsKnown
<1>7. Eligible(step, m)
  BY <1>5, <1>6 DEF Took, Eligible, Milestones
<1>8. Insert(s, mk)
  BY <1>1, <1>2, <1>7 DEF RunMilestone
<1>9. mk.table = step /\ mk.member = m
  BY MarkIs
<1>10. CASE \E old \in markers : SameKey(old, mk)
  <2>1. PICK old \in markers : SameKey(old, mk)
    BY <1>10
  <2>2. old \in markers'
    BY <1>8, <1>10 DEF Insert
  <2> QED BY <1>9, <2>1, <2>2 DEF SameKey
<1>11. CASE ~\E old \in markers : SameKey(old, mk)
  BY <1>8, <1>9, <1>11 DEF Insert
<1> QED BY <1>10, <1>11

LEMMA RunProceeds ==
  ASSUME NEW s \in Streams, Run(s)
  PROVE  \E rest : Proceed(s, rest)
BY DEF Run, RunUpsert, RunActivity, RunMark, RunMilestone, RunCount, RunRetention, RunContribution,
       Insert

\* What is left after a statement that puts others in front.
LEMMA StepsFront ==
  ASSUME NEW W, TypeInv, StepsInv(W), NEW s \in Streams, Run(s), NEW i, i = current[s],
         StepIn(i) \in Milestones, NEW S, NEW first \in Seq(S), Tail(work[s]) \in Seq(S),
         Followed(first, StepIn(i))
  PROVE  /\ Followed(first \o Tail(work[s]), StepIn(i))
         /\ StepAhead(first \o Tail(work[s]), StepIn(i)) \/ Recorded(i, W)'
<1> DEFINE step == StepIn(i)
           rest == Tail(work[s])
           A == Ahead(s)
<1>1. Busy(s)
  BY RunLeaves
<1>2. work[s] \in Seq(A) /\ work[s] # << >> /\ i \in DOMAIN log
  BY <1>1, AtWork
<1>3. Followed(work[s], step) /\ (StepAhead(work[s], step) \/ Recorded(i, W))
  BY <1>1 DEF StepsInv, WorkRecorded
<1> HIDE DEF A
<1>4. /\ Followed(rest, step)
      /\ Head(work[s]).op = "upsert" => StepAhead(rest, step)
      /\ StepAhead(work[s], step) /\ Head(work[s]) # Milestone(step) => StepAhead(rest, step)
  BY <1>2, <1>3, FollowedTail
<1>5. /\ Followed(first \o rest, step)
      /\ StepAhead(rest, step) => StepAhead(first \o rest, step)
  BY <1>4, FollowedBoth
<1>6. CASE Head(work[s]) = Milestone(step)
  BY <1>5, <1>6, MilestoneRecords DEF Next1, StepsInv
<1>7. CASE Head(work[s]).op = "upsert" \/ (StepAhead(work[s], step)
             /\ Head(work[s]) # Milestone(step))
  BY <1>4, <1>5, <1>7
<1>8. CASE Head(work[s]).op # "upsert" /\ ~StepAhead(work[s], step)
  <2>1. Recorded(i, W) /\ sawJoin' = sawJoin /\ reindexed' = reindexed
    BY <1>3, <1>8, RunSees DEF Next1
  <2>2. failed \subseteq failed'
    BY RunProceeds, ProceedEnds
  <2>3. ColumnsKept /\ markers \subseteq markers' /\ log' = log
    BY RunKeeps
  <2>4. Recorded(i, W)'
    BY <1>2, <2>1, <2>2, <2>3, RecordedStays DEF StepsInv
  <2> QED BY <1>5, <2>4
<1> QED BY <1>6, <1>7, <1>8

LEMMA SeesKnown ==
  ASSUME NEW W, TypeInv, StepsInv(W), NEW s \in Streams, Run(s), NEW i, i = current[s]
  PROVE  /\ sawJoin' \subseteq sawJoin \union {i}
         /\ StepIn(i) \in Milestones /\ i \in sawJoin' =>
              lifecycle'[log[i].member]["joined_at"] # None
                /\ lifecycle'[log[i].member][StepIn(i)] # None
<1> DEFINE m == log[i].member
           step == StepIn(i)
<1>1. Busy(s) /\ ColumnsKept
  BY RunLeaves, RunKeeps
<1>2. i \in DOMAIN log /\ m \in Members /\ Event(s).member = m
  BY <1>1, AtWork DEF Event
<1>3. sawJoin' \subseteq sawJoin \union {i}
  BY RunSees DEF RunUpsert
<1>4. ASSUME step \in Milestones, i \in sawJoin
      PROVE  lifecycle'[m]["joined_at"] # None /\ lifecycle'[m][step] # None
  <2>1. lifecycle[m]["joined_at"] # None /\ lifecycle[m][step] # None
    BY <1>4 DEF StepsInv, StepsKnown, Joined
  <2>2. step \in LifecycleColumns \ {"left_at"} /\ "joined_at" \in LifecycleColumns \ {"left_at"}
    BY <1>4, StepColumns
  <2> QED BY <1>1, <1>2, <2>1, <2>2 DEF ColumnsKept
<1>5. ASSUME step \in Milestones, i \in sawJoin', i \notin sawJoin
      PROVE  lifecycle'[m]["joined_at"] # None /\ lifecycle'[m][step] # None
  <2>1. Next1(s).op = "upsert" /\ RunUpsert(s)
    BY <1>5, RunSees
  <2>2. Followed(work[s], step) /\ work[s] # << >>
    BY <1>1, <1>5, AtWork DEF StepsInv, WorkRecorded
  <2>3. 1 \in DOMAIN work[s] /\ work[s][1] = Next1(s)
    <3> DEFINE A == Ahead(s)
    <3>1. work[s] \in Seq(A)
      BY <1>1, AtWork
    <3> HIDE DEF A
    <3> QED BY <2>2, <3>1 DEF Next1
  <2>4. step \in Next1(s).arg
    BY <2>1, <2>2, <2>3 DEF Followed
  <2> QED BY <1>2, <1>5, <2>1, <2>4, UpsertSees
<1> QED BY <1>3, <1>4, <1>5

LEMMA StepsFrontRuns ==
  ASSUME NEW W, TypeInv, StepsInv(W), NEW s \in Streams, Run(s), NEW S,
           NEW first \in Seq(S), Tail(work[s]) \in Seq(S),
         StepIn(current[s]) \in Milestones => Followed(first, StepIn(current[s])),
         Proceed(s, first \o Tail(work[s]))
  PROVE  StepsInv(W)'
<1>1. PICK i : i = current[s]
  OBVIOUS
<1>2. Busy(s) /\ ColumnsKept /\ markers \subseteq markers' /\ reindexed' = reindexed
  BY RunLeaves, RunKeeps, RunSees
<1>3. StepIn(i) \in Milestones =>
        /\ Followed(first \o Tail(work[s]), StepIn(i))
        /\ StepAhead(first \o Tail(work[s]), StepIn(i)) \/ Recorded(i, W)'
  BY <1>1, StepsFront
<1>4. /\ sawJoin' \subseteq sawJoin \union {i}
      /\ StepIn(i) \in Milestones /\ i \in sawJoin' =>
           lifecycle'[log[i].member]["joined_at"] # None
             /\ lifecycle'[log[i].member][StepIn(i)] # None
  BY <1>1, SeesKnown
<1> DEFINE rest == first \o Tail(work[s])
<1>5. Proceed(s, rest)
  OBVIOUS
<1> HIDE DEF rest
<1>6. StepIn(i) \in Milestones => Followed(rest, StepIn(i))
        /\ (StepAhead(rest, StepIn(i)) \/ Recorded(i, W)')
  BY <1>3 DEF rest
<1> QED BY <1>1, <1>2, <1>4, <1>5, <1>6, StepsProceed

LEMMA StepsRun ==
  ASSUME NEW W, TypeInv, StepsInv(W), NEW s \in Streams, Run(s)
  PROVE  StepsInv(W)'
<1> DEFINE A == Ahead(s)
           m == Event(s).member
           T == StatementsOf(m, log)
           step == StepIn(current[s])
           rest == Tail(work[s])
<1>1. Busy(s) /\ rest \in Seq(A) /\ Next1(s) \in A /\ Event(s) \in Happenings
  BY RunLeaves, AtWork
<1>2. A \subseteq T /\ Due(m, log, 0) \subseteq T
  BY DEF Due, Ahead
<1>3. ASSUME Proceed(s, rest)
      PROVE  StepsInv(W)'
  <2> HIDE DEF A
  <2>1. << >> \in Seq(A) /\ << >> \o rest = rest
    BY <1>1
  <2>2. Followed(<< >>, step)
    BY DEF Followed
  <2>3. Proceed(s, << >> \o Tail(work[s]))
    BY <1>3, <2>1
  <2> QED BY <1>1, <2>1, <2>2, <2>3, StepsFrontRuns
<1>4. ASSUME NEW mk, mk \notin markers, markers' = markers \union {mk},
             Next1(s).op \in {"mark", "milestone"}, Proceed(s, FollowUps(mk, Event(s)) \o rest)
      PROVE  StepsInv(W)'
  <2> DEFINE first == FollowUps(mk, Event(s))
  <2>1. mk \in MarkersOf(log)
    <3>1. TypeInv' /\ log' = log
      BY AllRunTypes, RunKeeps
    <3> QED BY <1>4, <3>1 DEF TypeInv, MemberTablesOK
  <2>2. step \in Milestones /\ mk.table = "message_index" => step = "first_message_at"
    <3> SUFFICES ASSUME step \in Milestones, mk.table = "message_index" PROVE step
          = "first_message_at"
      OBVIOUS
    <3>1. CASE Next1(s).op = "mark" /\ mk = Next1(s).arg
      <4>1. work[s] \in Seq(A) /\ work[s] # << >>
        BY <1>1, AtWork
      <4> HIDE DEF A
      <4>2. 1 \in DOMAIN work[s] /\ work[s][1] = Next1(s)
        BY <4>1 DEF Next1
      <4>3. Followed(work[s], step)
        BY <1>1 DEF StepsInv, WorkRecorded
      <4> QED BY <3>1, <4>2, <4>3 DEF Followed
    <3>2. CASE ~(Next1(s).op = "mark" /\ mk = Next1(s).arg)
      <4>1. mk.table = Next1(s).arg /\ Next1(s).op = "milestone"
        BY <1>4, <3>2, NewMarker, MarkIs
      <4>2. Next1(s).arg \in Steps
        BY <1>1, <4>1, StatementsAre, DueAre DEF Ahead
      <4> QED BY <4>1, <4>2 DEF Steps, Milestones
    <3> QED BY <3>1, <3>2
  <2>3. step \in Milestones => Followed(first, step)
    BY <1>1, <2>1, <2>2, FollowedFollow
  <2>4. first \in Seq(Due(m, log, 0))
    <3>1. 0 # None
      BY DEF None
    <3> QED BY <1>1, <2>1, <3>1, FollowUpsIn
  <2> HIDE DEF first
  <2> DEFINE Z == Due(m, log, 0)
  <2>5. first \in Seq(Z) /\ Z \subseteq T
    BY <1>2, <2>4
  <2> HIDE DEF A, T, Z
  <2>6. first \in Seq(T) /\ rest \in Seq(T)
    BY <1>1, <1>2, <2>5
  <2>7. Proceed(s, first \o Tail(work[s]))
    BY <1>4 DEF first
  <2> QED BY <2>3, <2>6, <2>7, StepsFrontRuns
<1>5. ASSUME MarksNext(s)
      PROVE  StepsInv(W)'
  <2>1. PICK marks \in Seq(A) :
          /\ \A k \in DOMAIN marks : marks[k].op = "mark" /\ marks[k].arg.table \in CohortTables
          /\ Proceed(s, marks \o rest)
    BY <1>5 DEF MarksNext
  <2>2. "message_index" \notin CohortTables
    BY DEF CohortTables, Milestones
  <2>3. Followed(marks, step)
    BY <2>1, <2>2, FollowedNothing
  <2> HIDE DEF A
  <2> QED BY <1>1, <2>1, <2>3, StepsFrontRuns
<1> QED
  BY <1>3, <1>4, <1>5, RetentionMarks, ContributionMarks, RunLeaves

LEMMA StepsBegin ==
  ASSUME NEW W, TypeInv, StepsInv(W), NEW s \in Streams, Begin(s)
  PROVE  StepsInv(W)'
<1> DEFINE q == queue[s]
<1>1. PICK i : i = Head(q)
  OBVIOUS
<1>2. /\ ~Busy(s) /\ q # << >>
      /\ current' = [current EXCEPT ![s] = i] /\ work' = [work EXCEPT ![s] = Handler(i)]
      /\ queue' = [queue EXCEPT ![s] = Tail(q)]
      /\ UNCHANGED <<log, lifecycle, markers, reindexed, failed, done, sawJoin>>
  BY <1>1 DEF Begin, tableVars, historyVars
<1>3. /\ queue \in [Streams -> Seq(DOMAIN log)] /\ current \in [Streams -> DOMAIN log \union {0}]
      /\ DOMAIN work = Streams /\ log \in Seq(Happenings)
      /\ \A t \in Streams : \A k \in DOMAIN queue[t] : StreamOf(log[queue[t][k]].kind) = t
  BY DEF TypeInv, QueuesOK, WorkersOK
<1>4. q \in Seq(DOMAIN log)
  BY <1>3
<1>5. /\ 1 \in DOMAIN q /\ q[1] = i
      /\ \A k \in DOMAIN Tail(q) : k + 1 \in DOMAIN q /\ k + 1 # 1 /\ Tail(q)[k] = q[k + 1]
           /\ k \in Nat
  BY <1>1, <1>2, <1>4
<1>6. i \in DOMAIN log /\ StreamOf(log[i].kind) = s
  BY <1>3, <1>4, <1>5
<1>7. /\ i \notin done /\ (i \in sawJoin => i \in failed)
      /\ \A k \in DOMAIN Tail(q) : Tail(q)[k] # i
  BY <1>5 DEF StepsInv, InOnePlace
<1>8. /\ queue'[s] = Tail(q) /\ current'[s] = i /\ work'[s] = Handler(i)
      /\ \A t \in Streams : t # s => queue'[t] = queue[t] /\ current'[t] = current[t]
           /\ work'[t] = work[t]
  BY <1>2, <1>3
<1>9. \A j : /\ StepIn(j)' = StepIn(j)
             /\ Recorded(j, W) => Recorded(j, W)'
  BY <1>2 DEF StepIn, Recorded, Took, Joined
<1>10. InOnePlace'
  <2> HIDE DEF q
  <2>1. \A j, k \in DOMAIN Tail(q) : Tail(q)[j] = Tail(q)[k] => j = k
    <3>1. \A j, k \in DOMAIN q : q[j] = q[k] => j = k
      BY DEF StepsInv, InOnePlace, q
    <3> SUFFICES ASSUME NEW j \in DOMAIN Tail(q), NEW k \in DOMAIN Tail(q), Tail(q)[j] = Tail(q)[k]
                 PROVE  j = k
      OBVIOUS
    <3>2. j + 1 = k + 1 /\ j \in Nat /\ k \in Nat
      BY <1>5, <3>1
    <3> QED BY <3>2
  <2>2. \A k \in DOMAIN Tail(q) : Tail(q)[k] \notin done
          /\ (Tail(q)[k] \in sawJoin => Tail(q)[k] \in failed)
    BY <1>5 DEF StepsInv, InOnePlace, q
  <2> SUFFICES ASSUME NEW t \in Streams
               PROVE  /\ \A j, k \in DOMAIN queue'[t] : queue'[t][j] = queue'[t][k] => j = k
                      /\ \A k \in DOMAIN queue'[t] :
                           /\ queue'[t][k] \notin done
                           /\ queue'[t][k] # current'[t]
                           /\ queue'[t][k] \in sawJoin => queue'[t][k] \in failed
                      /\ current'[t] # 0 => current'[t] \notin done
    BY <1>2 DEF InOnePlace, Busy
  <2>3. CASE t = s
    BY <1>7, <1>8, <2>1, <2>2, <2>3
  <2>4. CASE t # s
    BY <1>8, <2>4 DEF StepsInv, InOnePlace, Busy
  <2> QED BY <2>3, <2>4
<1>11. StepsKnown' /\ DoneRecorded(W)'
  BY <1>2, <1>9 DEF StepsInv, StepsKnown, DoneRecorded, Joined
<1>12. WorkRecorded(W)'
  <2>a. \A t \in Streams : StepIn(current[t])' = StepIn(current'[t])
    BY <1>2 DEF StepIn
  <2>b. \A t \in Streams : Recorded(current'[t], W) => Recorded(current[t], W)'
    BY <1>2 DEF Recorded, Took, Joined, StepIn
  <2> SUFFICES ASSUME NEW t \in Streams, current'[t] # 0, StepIn(current'[t]) \in Milestones
               PROVE  /\ Followed(work'[t], StepIn(current'[t]))
                      /\ StepAhead(work'[t], StepIn(current'[t])) \/ Recorded(current'[t], W)
    BY <2>a, <2>b DEF WorkRecorded, Busy, Followed, StepAhead
  <2>1. CASE t = s
    <3>1. StepIn(i) \in Milestones
      BY <1>8, <2>1
    <3>2. /\ Followed(Handler(i), StepIn(i))
          /\ StepIn(i) # "first_message_at" => StepAhead(Handler(i), StepIn(i))
      BY <1>3, <1>6, <3>1, FollowedHandler
    <3>3. StepIn(i) = "first_message_at" => Recorded(i, W)
      BY <1>7 DEF Recorded
    <3> QED BY <1>8, <2>1, <3>2, <3>3
  <2>2. CASE t # s
    BY <1>8, <2>2 DEF StepsInv, WorkRecorded, Busy
  <2> QED BY <2>1, <2>2
<1> QED BY <1>10, <1>11, <1>12 DEF StepsInv

LEMMA StepsClosed ==
  ASSUME NEW W, TypeInv, StepsInv(W), NEW s \in Streams, FindsClosed(s)
  PROVE  StepsInv(W)'
<1>1. PICK i, q : q = queue[s] /\ i = Head(q)
  OBVIOUS
<1>2. /\ q # << >> /\ queue' = [queue EXCEPT ![s] = Tail(q)] /\ done' = done \union {i}
      /\ log[i].kind = "voiceLeave"
      /\ UNCHANGED <<log, current, work, lifecycle, markers, reindexed, failed, sawJoin>>
  BY <1>1 DEF FindsClosed, tableVars
<1>3. /\ queue \in [Streams -> Seq(DOMAIN log)] /\ log \in Seq(Happenings)
      /\ \A t \in Streams : \A k \in DOMAIN queue[t] : StreamOf(log[queue[t][k]].kind) = t
      /\ \A t \in Streams : current[t] # 0 => StreamOf(log[current[t]].kind) = t
  BY DEF TypeInv, QueuesOK, WorkersOK, Busy, Event
<1>4. q \in Seq(DOMAIN log)
  BY <1>1, <1>3
<1>5. /\ 1 \in DOMAIN q /\ q[1] = i
      /\ \A k \in DOMAIN Tail(q) : k + 1 \in DOMAIN q /\ k + 1 # 1 /\ Tail(q)[k] = q[k + 1]
           /\ k \in Nat
  BY <1>1, <1>2, <1>4
<1>6. i \in DOMAIN log /\ StreamOf(log[i].kind) = s
  BY <1>1, <1>3, <1>4, <1>5
<1>7. StepIn(i) \notin Milestones
  BY <1>2 DEF StepIn, StepOf, Milestones
<1>8. /\ queue'[s] = Tail(q) /\ \A t \in Streams : t # s => queue'[t] = queue[t]
  BY <1>2, <1>3
<1>9. InOnePlace'
  <2>1. \A j, k \in DOMAIN q : q[j] = q[k] => j = k
    BY <1>1 DEF StepsInv, InOnePlace
  <2>2. \A j, k \in DOMAIN Tail(q) : Tail(q)[j] = Tail(q)[k] => j = k
    <3> SUFFICES ASSUME NEW j \in DOMAIN Tail(q), NEW k \in DOMAIN Tail(q), Tail(q)[j] = Tail(q)[k]
                 PROVE  j = k
      OBVIOUS
    <3>1. j + 1 = k + 1 /\ j \in Nat /\ k \in Nat
      BY <1>5, <2>1
    <3> QED BY <3>1
  <2>3. \A k \in DOMAIN Tail(q) : /\ Tail(q)[k] \notin done /\ Tail(q)[k] # i
                                  /\ Tail(q)[k] # current[s]
                                  /\ (Tail(q)[k] \in sawJoin => Tail(q)[k] \in failed)
    BY <1>1, <1>5, <2>1 DEF StepsInv, InOnePlace
  <2>4. i # current[s]
    BY <1>1, <1>5 DEF StepsInv, InOnePlace
  <2>5. ASSUME NEW t \in Streams, t # s
        PROVE  i # current[t] /\ \A k \in DOMAIN queue[t] : queue[t][k] # i
    <3>1. current[t] # 0 => current[t] # i
      BY <1>3, <1>6, <2>5
    <3>2. i # 0
      BY <1>3, <1>6
    <3> QED BY <1>3, <1>6, <2>5, <3>1, <3>2
  <2> SUFFICES ASSUME NEW t \in Streams
               PROVE  /\ \A j, k \in DOMAIN queue'[t] : queue'[t][j] = queue'[t][k] => j = k
                      /\ \A k \in DOMAIN queue'[t] :
                           /\ queue'[t][k] \notin done'
                           /\ queue'[t][k] # current[t]
                           /\ queue'[t][k] \in sawJoin => queue'[t][k] \in failed
                      /\ current[t] # 0 => current[t] \notin done'
    BY <1>2 DEF InOnePlace, Busy
  <2>6. current[t] # 0 => current[t] \notin done
    BY DEF StepsInv, InOnePlace, Busy
  <2>7. CASE t = s
    BY <1>2, <1>8, <2>2, <2>3, <2>4, <2>6, <2>7
  <2>8. CASE t # s
    <3>1. queue'[t] = queue[t]
      BY <1>8, <2>8
    <3>2. /\ \A j, k \in DOMAIN queue[t] : queue[t][j] = queue[t][k] => j = k
          /\ \A k \in DOMAIN queue[t] :
               /\ queue[t][k] \notin done /\ queue[t][k] # current[t]
               /\ queue[t][k] \in sawJoin => queue[t][k] \in failed
      BY DEF StepsInv, InOnePlace
    <3> QED BY <1>2, <2>5, <2>6, <2>8, <3>1, <3>2
  <2> QED BY <2>7, <2>8
<1>10. \A j : /\ StepIn(j)' = StepIn(j)
              /\ Recorded(j, W) => Recorded(j, W)'
  BY <1>2 DEF StepIn, Recorded, Took, Joined
<1>11. StepsKnown' /\ WorkRecorded(W)'
  BY <1>2, <1>10
  DEF StepsInv, StepsKnown, WorkRecorded, Joined, Busy, Recorded, Took, StepIn, Followed, StepAhead
<1>12. DoneRecorded(W)'
  <2>1. DoneRecorded(W)
    BY DEF StepsInv
  <2> QED BY <1>2, <1>7, <1>10, <2>1 DEF DoneRecorded
<1> QED BY <1>9, <1>11, <1>12 DEF StepsInv

LEMMA StepsFails ==
  ASSUME NEW W, TypeInv, StepsInv(W), NEW s \in Streams, StatementFails(s)
  PROVE  StepsInv(W)'
<1>1. PICK i : i = current[s]
  OBVIOUS
<1>2. /\ Busy(s) /\ Proceed(s, work[s]) /\ UNCHANGED <<lifecycle, markers, reindexed, sawJoin>>
  BY DEF StatementFails, Proceed, tableVars
<1>3. /\ ColumnsKept /\ failed \subseteq failed' /\ log' = log /\ i \in DOMAIN log
  BY <1>1, <1>2, ProceedEnds, ProceedWork, AtWork DEF ColumnsKept
<1>4. StepIn(i) \in Milestones /\ i \in sawJoin' =>
        lifecycle'[log[i].member]["joined_at"] # None /\ lifecycle'[log[i].member][StepIn(i)] # None
  BY <1>2 DEF StepsInv, StepsKnown, Joined
<1>5. ASSUME StepIn(i) \in Milestones
      PROVE  Followed(work[s], StepIn(i)) /\ (StepAhead(work[s], StepIn(i)) \/ Recorded(i, W)')
  <2>1. Followed(work[s], StepIn(i)) /\ (StepAhead(work[s], StepIn(i)) \/ Recorded(i, W))
    BY <1>1, <1>2, <1>5 DEF StepsInv, WorkRecorded
  <2>2. Recorded(i, W) => Recorded(i, W)'
    BY <1>2, <1>3, <1>5, RecordedStays DEF StepsInv
  <2> QED BY <2>1, <2>2
<1> QED BY <1>1, <1>2, <1>3, <1>4, <1>5, StepsProceed

LEMMA StepsRestart ==
  ASSUME NEW W, TypeInv, StepsInv(W), NEW now \in 0 .. Len(log), Restart(now)
  PROVE  StepsInv(W)'
<1>1. /\ UNCHANGED <<log, queue, lifecycle, done, sawJoin>>
      /\ current' = [s \in Streams |-> 0]
      /\ failed \subseteq failed' /\ reindexed \subseteq reindexed'
      /\ markers' = MarkersAtStart(now)
  BY DEF Restart
<1>2. ColumnsKept /\ markers \subseteq markers'
  BY <1>1 DEF ColumnsKept, MarkersAtStart, FillAll, FillMarkers
<1>3. \A j \in done : StepIn(j)' = StepIn(j) /\ j \in DOMAIN log
  BY <1>1 DEF StepIn, TypeInv, HistoryOK
<1>4. DoneRecorded(W)'
  <2> SUFFICES ASSUME NEW j \in done, StepIn(j) \in Milestones
               PROVE  Recorded(j, W)'
    BY <1>1, <1>3 DEF DoneRecorded
  <2>1. Recorded(j, W)
    BY DEF StepsInv, DoneRecorded
  <2> QED BY <1>1, <1>2, <1>3, <2>1, RecordedStays DEF StepsInv
<1>5. StepsKnown'
  BY <1>1 DEF StepsInv, StepsKnown, StepIn, Joined
<1>6. WorkRecorded(W)'
  BY <1>1 DEF WorkRecorded, Busy
<1>7. InOnePlace'
  <2>1. 0 \notin DOMAIN log /\ queue \in [Streams -> Seq(DOMAIN log)]
    BY DEF TypeInv, QueuesOK
  <2>2. \A s \in Streams : \A k \in DOMAIN queue[s] : queue[s][k] # 0
    BY <2>1
  <2> QED BY <1>1, <2>2 DEF StepsInv, InOnePlace, Busy
<1> QED BY <1>4, <1>5, <1>6, <1>7 DEF StepsInv

LEMMA StepsStep ==
  ASSUME NEW W, TypeInv, StepsInv(W), [Next]_vars
  PROVE  StepsInv(W)'
<1>1. CASE UNCHANGED vars
  BY <1>1 DEF vars, tableVars, workerVars, historyVars, StepsInv, DoneRecorded, WorkRecorded,
     StepsKnown,
              InOnePlace, Recorded, StepIn, Took, Joined, Busy, Followed, StepAhead
<1>2. ASSUME NEW s \in Streams, Begin(s) \/ FindsClosed(s) \/ Run(s) \/ StatementFails(s)
      PROVE  StepsInv(W)'
  BY <1>2, StepsBegin, StepsClosed, StepsRun, StepsFails
<1>3. ASSUME NEW now \in 0 .. Len(log), Restart(now)
      PROVE  StepsInv(W)'
  BY <1>3, StepsRestart
<1> QED BY <1>1, <1>2, <1>3 DEF Next

LEMMA InitSteps ==
  ASSUME NEW W, NEW joined \in Joins, InitWith(joined)
  PROVE  StepsInv(W)
<1>1. /\ current = [s \in Streams |-> 0] /\ done = {} /\ sawJoin = {}
      /\ queue \in Arrivals
  BY DEF InitWith
<1>2. TypeInv
  BY InitTypes
<1>3. DoneRecorded(W) /\ StepsKnown /\ WorkRecorded(W)
  BY <1>1 DEF DoneRecorded, StepsKnown, WorkRecorded, Busy
<1>4. InOnePlace
  <2> SUFFICES ASSUME NEW s \in Streams
               PROVE  /\ \A j, k \in DOMAIN queue[s] : queue[s][j] = queue[s][k] => j = k
                      /\ \A k \in DOMAIN queue[s] : queue[s][k] # 0
    BY <1>1 DEF InOnePlace, Busy
  <2> DEFINE here == {i \in DOMAIN log : StreamOf(log[i].kind) = s}
  <2>1. log \in Seq(Happenings)
    BY <1>2 DEF TypeInv
  <2>2. /\ queue[s] \in Seq(here)
        /\ \A j, k \in DOMAIN queue[s] : queue[s][j] = queue[s][k] => j = k
    BY <1>1, <2>1, ArrivalsAre
  <2>3. 0 \notin here
    BY <2>1
  <2> HIDE DEF here
  <2> QED BY <2>2, <2>3
<1> QED BY <1>3, <1>4 DEF StepsInv

LEMMA StepsImplied ==
  StepsInv({}) => StepsRecorded
BY DEF StepsInv, DoneRecorded, Recorded, StepsRecorded, StepIn

\* A step that is taken after joining is counted once its event is handled, if
\* the join was known by then, in whatever order the streams are handled and
\* however often handlers fail.
THEOREM StepsCounted ==
  Spec => []StepsRecorded
<1>1. Init => TypeInv /\ StepsInv({})
  BY InitTypes, NoJoins, InitSteps DEF Init
<1>2. TypeInv /\ StepsInv({}) /\ [Next]_vars => TypeInv' /\ StepsInv({})'
  BY StepTypes, StepsStep
<1>3. StepsInv({}) => StepsRecorded
  BY StepsImplied
<1> QED
  BY <1>1, <1>2, <1>3, PTL DEF Spec

-----------------------------------------------------------------------------
(* What a restart fills from the marker tables.                             *)

LEMMA FilledColumns ==
  ASSUME RowsOK, NEW mks \in SUBSET MarkersOf(log),
         NEW daily, BagOf(Part("guild_daily_activity"), daily),
         NEW c \in MarkerColumns
  PROVE  Copies(c, FillCounters(c[1].table, mks, daily)) = Copies(c, Called(mks))
<1> DEFINE table == c[1].table
           marked == OfTable(Called(mks), table)
           onboarded == {mk.member : mk \in {mk \in mks : mk.table = "guild_onboarded_members"}}
           n == Copies(c, Called(mks))
<1>1. c \in Cells /\ table \in DOMAIN Columns /\ c[2] \in Columns[table]
  BY CellsAre DEF MarkerColumns
<1>2. BagOf(Cells, marked) /\ Copies(c, marked) = n /\ n \in Nat
  <2>1. BagOf(Cells, Called(mks))
    BY CalledBag DEF RowsOK
  <2>2. n \in Nat
    BY <2>1, CopiesAre
  <2> QED BY <2>1, <2>2, TablesBag DEF OfTable
<1>3. \A columns : /\ BagOf(Cells, OfColumns(marked, columns))
                   /\ c[2] \in columns => Copies(c, OfColumns(marked, columns)) = n
  <2> HIDE DEF marked, n
  <2> QED BY <1>2, ColumnsBag
<1>4. ASSUME NEW t \in CohortCounters, NEW column \in Columns[t], NEW ms \in SUBSET Members,
             c[2] # column
      PROVE  BagOf(Cells, ByCohort(t, column, ms)) /\ Copies(c, ByCohort(t, column, ms)) = 0
  BY <1>4, CohortBag DEF Copies
<1> HIDE DEF marked, n
<1>5. CASE table = "retention_cohorts"
  <2> DEFINE A == OfColumns(marked, {"d7_retained_members", "d30_retained_members"})
             J == ByCohort("retention_cohorts", "joined_members", Members)
  <2>1. c[2] \in {"d7_retained_members", "d30_retained_members"}
    BY <1>1, <1>5, ColumnsAre DEF MarkerColumns
  <2>2. BagOf(Cells, A) /\ Copies(c, A) = n
    BY <1>3, <2>1
  <2>3. BagOf(Cells, J) /\ Copies(c, J) = 0
    BY <1>4, <2>1, ColumnsAre DEF CohortCounters
  <2>4. FillCounters(table, mks, daily) = A (+) J
    BY <1>5 DEF FillCounters, CohortRows, marked
  <2> HIDE DEF A, J
  <2>5. Copies(c, A (+) J) = n + 0
    BY <2>2, <2>3, AddedCopies
  <2> QED BY <1>2, <2>4, <2>5 DEF n
<1>6. CASE table = "activation_funnel_daily"
  <2> DEFINE A == OfColumns(marked, Milestones \union {"returned_next_week_members"})
             J == ByCohort("activation_funnel_daily", "joined_members", Members)
  <2>1. c[2] \in Milestones \union {"returned_next_week_members"} /\ c[2] # "joined_members"
    BY <1>1, <1>6, ColumnsAre DEF MarkerColumns
  <2>2. BagOf(Cells, A) /\ Copies(c, A) = n
    BY <1>3, <2>1
  <2>3. BagOf(Cells, J) /\ Copies(c, J) = 0
    BY <1>4, <2>1, ColumnsAre DEF CohortCounters
  <2>4. FillCounters(table, mks, daily) = A (+) J
    BY <1>6 DEF FillCounters, FunnelRows, marked
  <2> HIDE DEF A, J
  <2>5. Copies(c, A (+) J) = n + 0
    BY <2>2, <2>3, AddedCopies
  <2> QED BY <1>2, <2>4, <2>5 DEF n
<1>7. CASE table = "guild_summary_daily"
  <2> DEFINE A == OfColumns(marked, {"active_members", "joined_members", "left_members"})
             J == ByCohort("guild_summary_daily", "onboarded_members", onboarded)
             T == [x \in {Cell("guild_summary_daily", Whole, d[1].day,
                     "messages") : d \in DOMAIN daily} |->
                     daily[Cell("guild_daily_activity", Whole, x[1].day, "messages")]]
  <2>1. /\ c[2] \in {"active_members", "joined_members", "left_members"}
        /\ c[2] # "onboarded_members" /\ c[2] # "messages"
    BY <1>1, <1>7, ColumnsAre DEF MarkerColumns
  <2>2. BagOf(Cells, A) /\ Copies(c, A) = n
    BY <1>3, <2>1
  <2>3. BagOf(Cells, J) /\ Copies(c, J) = 0
    <3>1. onboarded \in SUBSET Members
      BY DEF MarkersOf
    <3>2. "onboarded_members" \in Columns["guild_summary_daily"]
            /\ "guild_summary_daily" \in CohortCounters
      BY ColumnsAre DEF CohortCounters
    <3> HIDE DEF onboarded
    <3> QED BY <1>4, <2>1, <3>1, <3>2
  <2>4. BagOf(Cells, T) /\ Copies(c, T) = 0
    <3>1. BagOf(Part("guild_summary_daily"), T)
      BY SummaryMessages
    <3>2. c \notin DOMAIN T
      BY <2>1, CellIs
    <3> HIDE DEF T
    <3> QED BY <3>1, <3>2 DEF BagOf, Part, Copies
  <2>5. FillCounters(table, mks, daily) = (A (+) J) (+) T
    BY <1>7 DEF FillCounters, SummaryRows, marked
  <2> HIDE DEF A, J, T
  <2>6. BagOf(Cells, A (+) J) /\ Copies(c, A (+) J) = n + 0
    BY <2>2, <2>3, AddedBag, AddedCopies
  <2>7. Copies(c, (A (+) J) (+) T) = n + 0 + 0
    BY <2>4, <2>6, AddedCopies
  <2> QED BY <1>2, <2>5, <2>7 DEF n
<1>8. CASE table \notin {"retention_cohorts", "activation_funnel_daily", "guild_summary_daily"}
  <2>1. FillCounters(table, mks, daily) = marked
    BY <1>8 DEF FillCounters, marked
  <2> QED
    BY <1>2, <2>1 DEF n
<1> QED BY <1>5, <1>6, <1>7, <1>8

LEMMA RestartFills ==
  ASSUME TypeInv, CountInv, NEW now \in 0 .. Len(log), Restart(now),
         NEW c \in MarkerColumns, c[1].table \in Unfilled
  PROVE  Copies(c, counts') = Copies(c, Called(markers'))
<1> DEFINE mks == MarkersAtStart(now)
           daily == Daily(mks, Unfilled)
           filled == FilledTables(Unfilled, mks, daily)
<1>1. /\ Copies(c, counts') = Copies(c, counts) + Copies(c, filled)
      /\ Copies(c, filled) = Copies(c, FillCounters(c[1].table, mks, daily))
  BY RestartBags
<1>2. mks \in SUBSET MarkersOf(log)
  BY MarkersAtStartAre DEF TypeInv
<1>3. RowsOK
  BY TypedRows
<1>4. markers' = mks
  BY DEF Restart
<1> HIDE DEF mks
<1>5. BagOf(Part("guild_daily_activity"), daily)
  BY <1>2, DailyBag
<1> HIDE DEF daily
<1>6. Copies(c, FillCounters(c[1].table, mks, daily)) = Copies(c, Called(mks))
  BY <1>2, <1>3, <1>5, FilledColumns
<1>7. Copies(c, counts) = 0
  <2>1. c[1] \notin DOMAIN opener
    BY DEF Unfilled
  <2> QED BY <2>1 DEF CountInv, Rooted, Copies
<1>8. Copies(c, Called(mks)) \in Nat
  <2>1. BagOf(Cells, Called(mks))
    BY <1>2, CalledBag DEF TypeInv
  <2> QED BY <2>1, CopiesAre
<1> HIDE DEF filled
<1> QED BY <1>1, <1>4, <1>6, <1>7, <1>8

\* A handler that fails queues its event again.
LEMMA FailQueues ==
  ASSUME TypeInv, NEW s \in Streams, NEW rest, Fail(s, rest)
  PROVE  queue' # queue
<1>1. queue \in [Streams -> Seq(Nat)]
  BY DEF TypeInv, QueuesOK
<1>2. queue'[s] = Append(queue[s], current[s])
  BY <1>1 DEF Fail
<1>3. Len(queue'[s]) = Len(queue[s]) + 1 /\ Len(queue[s]) \in Nat
  BY <1>1, <1>2
<1> QED BY <1>3

LEMMA OnlyRestarts ==
  ASSUME TypeInv, Next, faultCount' # faultCount, queue' = queue
  PROVE  \E now \in 0 .. Len(log) : Restart(now)
<1>1. ASSUME NEW s \in Streams, NEW rest, Proceed(s, rest)
      PROVE  FALSE
  BY <1>1, FailQueues DEF Proceed
<1>2. ASSUME NEW s \in Streams, Begin(s)
      PROVE  FALSE
  BY <1>2 DEF Begin
<1>3. ASSUME NEW s \in Streams, StatementFails(s)
      PROVE  FALSE
  BY <1>3, FailQueues DEF StatementFails
<1>4. ASSUME NEW s \in Streams, Run(s)
      PROVE  FALSE
  BY <1>1, <1>4, RunLeaves DEF RunRetention, RunContribution
<1>5. ASSUME NEW s \in Streams, FindsClosed(s)
      PROVE  FALSE
  BY <1>5 DEF FindsClosed
<1> QED BY <1>2, <1>3, <1>4, <1>5 DEF Next

\* A counter table that a restart finds empty agrees with the marker tables
\* afterwards, for any markers and whatever increments the handlers that died
\* had not made: a table without a row has counted nothing, so that what
\* startup adds is all there is.
THEOREM RestartsFill ==
  Spec => FilledFromMarkers
<1> DEFINE Fills == faultCount' # faultCount /\ queue' = queue
       => LET unfilled == Unfilled
              marked == Called(markers')
          IN  \A c \in MarkerColumns :
                c[1].table \in unfilled => Copies(c, counts') = Copies(c, marked)
<1>1. Init => TypeInv /\ CountInv
  BY InitTypes, NoJoins, InitCounts DEF Init
<1>2. TypeInv /\ CountInv /\ [Next]_vars => TypeInv' /\ CountInv'
  BY StepTypes, CountsStep
<1>3. TypeInv /\ CountInv /\ [Next]_vars => [Fills]_vars
  <2>1. ASSUME TypeInv, CountInv, Next, faultCount' # faultCount, queue' = queue
        PROVE  \A c \in MarkerColumns :
                 c[1].table \in Unfilled => Copies(c, counts') = Copies(c, Called(markers'))
    BY <2>1, OnlyRestarts, RestartFills
  <2> QED BY <2>1
<1> QED
  BY <1>1, <1>2, <1>3, PTL DEF Spec, FilledFromMarkers
=============================================================================
