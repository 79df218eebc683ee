----------------------------- MODULE MemberRebuild -----------------------------
(***************************************************************************)
(* What a backfill job does to the members' tables of MemberAnalytics once *)
(* it has indexed the messages of its days (MessageIndexing reads them     *)
(* page by page): rebuild_message_analytics_for_scope deletes and derives  *)
(* again every marker table and every counter of the days and the cohorts  *)
(* concerned, a statement at a time and without a transaction, beside the  *)
(* three workers and under their crashes and restarts.                     *)
(*                                                                         *)
(* The tables it rebuilds that are the channels' alone are in              *)
(* MessageIndexing.                                                        *)
(***************************************************************************)
EXTENDS MemberAnalytics

CONSTANTS
  JoinedBefore, \* members who joined before, None where that is not known
  From, To,     \* the job's start_at and end_at
  Together,     \* bound: the events that happen together, in their order
  MaxJobs       \* bound: jobs that are requested

ASSUME RebuildAssumption ==
  /\ JoinedBefore \in [Members -> Times \union {None}]
  /\ From \in Nat /\ To \in Nat /\ From <= To
  /\ MaxJobs \in Nat

VARIABLES
  status,    \* of the job: "idle", "running" its rebuild, or "broken" off
  todo,      \* the statements left of the rebuild
  jobs,      \* bound
  raced,     \* a handler ran a statement since the job began, history
  covering,  \* human messages that the job found or put in the index, history
  covered    \* those of a job that completed, history

jobVars == <<status, todo, jobs, raced, covering, covered>>
rebuildVars == <<vars, jobVars>>

-----------------------------------------------------------------------------
(* The scope.                                                               *)

ActivityDays == Day(From) .. Day(To)
CohortDays == Day(From) - 36 .. Day(To)

Human(i) == log[i].kind \in {"message", "missedMessage"}

\* Messages of the index, by everybody or by humans; it has the bots' too.
IndexedMessages == {mk.of : mk \in {x \in markers : x.table = "message_index"}}
HumanMessages == {i \in IndexedMessages : Human(i)}

InTime(i) == log[i].at \in From .. To
Authors == {log[i].member : i \in {i \in HumanMessages : InTime(i)}}

\* The markers of table that the rebuild deletes and derives again.
Concerned(mk) ==
  CASE mk.table = "guild_daily_active_members" -> mk.day \in ActivityDays
    [] mk.table = "guild_onboarded_members" -> mk.member \in Authors
    [] OTHER -> mk.day \in CohortDays

\* The rows of the counter tables that it does the same to.
ConcernedRow(row) ==
  row.day \in IF row.table = "guild_daily_activity" THEN ActivityDays ELSE CohortDays

OfConcern(B) == [c \in {c \in DOMAIN B : ConcernedRow(c[1])} |-> B[c]]

-----------------------------------------------------------------------------
(* The statements, in their order.                                          *)

MarkerTables ==
  <<"guild_onboarded_members",
    "first_role_at", "first_message_at", "first_reaction_at", "first_voice_at",
    "retention_cohort_d7_members", "retention_cohort_d30_members",
    "channel_retention_d7_members", "channel_retention_d30_members">>

CounterTables ==
  <<"retention_cohorts", "channel_retention_daily", "activation_funnel_daily",
    "guild_summary_daily">>

\* A DELETE and an INSERT for each table.
Each(tables, delete, insert) ==
  [j \in 1 .. 2 * Len(tables) |->
     IF j % 2 = 1 THEN Do(delete, tables[(j + 1) \div 2]) ELSE Do(insert, tables[j \div 2])]

\* Mutant: counters are derived before the markers they are derived from.
CountersFirst ==
  <<Do("lifecycle", "member_lifecycle"),
    Do("deleteActivity", "member_daily_activity"), Do("insertActivity", "member_daily_activity")>>
  \o Each(<<"guild_daily_active_members">>, "deleteMarkers", "insertMarkers")
  \o Each(<<"guild_daily_activity">> \o CounterTables, "deleteCounters", "insertCounters")
  \o Each(MarkerTables, "deleteMarkers", "insertMarkers")
  \o <<Do("recount", "public_stats_cache")>>

\* Mutant: members are marked as active before their activity is derived.
MarkersBeforeActivity ==
  <<Do("lifecycle", "member_lifecycle"), Do("deleteActivity", "member_daily_activity")>>
  \o Each(<<"guild_daily_active_members">>, "deleteMarkers", "insertMarkers")
  \o <<Do("insertActivity", "member_daily_activity")>>
  \o Each(<<"guild_daily_activity">>, "deleteCounters", "insertCounters")
  \o Each(MarkerTables, "deleteMarkers", "insertMarkers")
  \o Each(CounterTables, "deleteCounters", "insertCounters")
  \o <<Do("recount", "public_stats_cache")>>

Rebuild ==
  <<Do("lifecycle", "member_lifecycle"),
    Do("deleteActivity", "member_daily_activity"), Do("insertActivity", "member_daily_activity")>>
  \o Each(<<"guild_daily_active_members">>, "deleteMarkers", "insertMarkers")
  \o Each(<<"guild_daily_activity">>, "deleteCounters", "insertCounters")
  \o Each(MarkerTables, "deleteMarkers", "insertMarkers")
  \o Each(CounterTables, "deleteCounters", "insertCounters")
  \o <<Do("recount", "public_stats_cache")>>

-----------------------------------------------------------------------------
(* The job.                                                                 *)

RebuildInit ==
  /\ InitWith(JoinedBefore)
  /\ log \in Together
  /\ status = "idle"
  /\ todo = << >>
  /\ jobs = 0
  /\ raced = FALSE
  /\ covering = {}
  /\ covered = {}

\* A job that failed is delivered again, and another may be requested after a
\* crash.  What its channels hold by now of its days is indexed, whether the
\* worker has come to it or not, and counted among the public statistics: in one
\* step, as the pages and what runs between them are in MessageIndexing.
StartJob(now) ==
  LET found == {i \in 1 .. now : log[i].kind \in {"message", "botMessage", "missedMessage"}
                                 /\ InTime(i)}
      new == found \ IndexedMessages
      stats == Cell("public_stats_cache", Whole, 0, "messages")
  IN  /\ status = "broken" \/ (status = "idle" /\ jobs < MaxJobs)
      /\ \A i \in Handled : i <= now
      /\ status' = "running"
      /\ todo' = Rebuild
      /\ jobs' = IF status = "idle" THEN jobs + 1 ELSE jobs
      /\ markers' = markers \union
                    {Marker("message_index", log[i].member, i, Day(log[i].at)) : i \in new}
      /\ reindexed' = reindexed \union new
      /\ counts' = IF new = {} THEN counts ELSE counts (+) [c \in {stats} |-> Cardinality(new)]
      /\ raced' = \E s \in Streams : Busy(s)
      /\ covering' = {i \in found : Human(i)}
      /\ UNCHANGED <<log, workerVars, lifecycle, activity, opener, historyVars, faultCount, covered>>

Rebuilding(op) == todo # << >> /\ Head(todo).op = op

\* The statement has taken effect; after the last one the job is completed.
Goes ==
  /\ todo' = Tail(todo)
  /\ status' = IF todo' = << >> THEN "idle" ELSE status
  /\ covered' = IF todo' = << >> THEN covered \union covering ELSE covered
  /\ UNCHANGED <<log, workerVars, historyVars, faultCount, jobs, raced, covering>>

BreaksOff ==
  /\ status' = "broken"
  /\ todo' = << >>
  /\ UNCHANGED <<log, workerVars, tableVars, historyVars, jobs, raced, covering, covered>>

\* The first message of each author becomes the earliest known.
RebuildLifecycle ==
  LET first(m) == Min({log[i].at : i \in {i \in HumanMessages : InTime(i) /\ log[i].member = m}})
      least(old, new) == IF old = None THEN new ELSE Min({old, new})
  IN  /\ Rebuilding("lifecycle")
      /\ lifecycle' = [m \in Members |->
                         IF m \in Authors
                         THEN [lifecycle[m] EXCEPT !["first_message_at"] = least(@, first(m))]
                         ELSE lifecycle[m]]
      /\ Goes
      /\ UNCHANGED <<activity, markers, reindexed, counts, opener>>

DeleteActivity ==
  /\ Rebuilding("deleteActivity")
  /\ activity' = {a \in activity : a[2] \notin ActivityDays}
  /\ Goes
  /\ UNCHANGED <<lifecycle, markers, reindexed, counts, opener>>

\* From the messages alone: who only reacted or talked that day was deleted.
ActivityFromMessages ==
  {a \in {<<log[i].member, Day(log[i].at)>> : i \in HumanMessages} : a[2] \in ActivityDays}

InsertActivity ==
  /\ Rebuilding("insertActivity")
  /\ activity' = activity \union ActivityFromMessages
  /\ Goes
  /\ UNCHANGED <<lifecycle, markers, reindexed, counts, opener>>

DeleteMarkers ==
  /\ Rebuilding("deleteMarkers")
  /\ markers' = {mk \in markers : mk.table = Head(todo).arg => ~Concerned(mk)}
  /\ Goes
  /\ UNCHANGED <<lifecycle, activity, reindexed, counts, opener>>

\* The same SELECTs as at startup, within the scope; ON CONFLICT DO NOTHING.
InsertMarkers ==
  LET derived == {mk \in StartupMarkers(Head(todo).arg, markers) : Concerned(mk)}
  IN  /\ Rebuilding("insertMarkers")
      /\ markers' = markers \union {mk \in derived : ~\E old \in markers : SameKey(old, mk)}
      /\ Goes
      /\ UNCHANGED <<lifecycle, activity, reindexed, counts, opener>>

DeleteCounters ==
  LET stays(row) == row.table = Head(todo).arg => ~ConcernedRow(row)
  IN  /\ Rebuilding("deleteCounters")
      /\ counts' = [c \in {c \in DOMAIN counts : stays(c[1])} |-> counts[c]]
      /\ opener' = [row \in {row \in DOMAIN opener : stays(row)} |-> opener[row]]
      /\ Goes
      /\ UNCHANGED <<lifecycle, activity, markers, reindexed>>

Derived(table) == OfConcern(FillCounters(table, markers, OfTable(counts, "guild_daily_activity")))

InsertCounters ==
  LET rows == {c[1] : c \in DOMAIN Derived(Head(todo).arg)}
  IN  /\ Rebuilding("insertCounters")
      /\ rows \intersect DOMAIN opener = {}
      /\ counts' = counts (+) Derived(Head(todo).arg)
      /\ opener' = Opened(rows, "startup")
      /\ Goes
      /\ UNCHANGED <<lifecycle, activity, markers, reindexed>>

\* Without an ON CONFLICT the INSERT fails if a handler has made a row since
\* the DELETE.
InsertConflicts ==
  LET rows == {c[1] : c \in DOMAIN Derived(Head(todo).arg)}
  IN  /\ Rebuilding("insertCounters")
      /\ rows \intersect DOMAIN opener # {}
      /\ BreaksOff
      /\ UNCHANGED faultCount

Recount ==
  LET stats == Cell("public_stats_cache", Whole, 0, "messages")
      others == [c \in DOMAIN counts \ {stats} |-> counts[c]]
      n == Cardinality(IndexedMessages)
  IN  /\ Rebuilding("recount")
      /\ counts' = IF n = 0 THEN others ELSE others (+) [c \in {stats} |-> n]
      /\ Goes
      /\ UNCHANGED <<lifecycle, activity, markers, reindexed, opener>>

JobFails ==
  /\ status = "running"
  /\ faultCount < MaxFaults
  /\ faultCount' = faultCount + 1
  /\ BreaksOff

-----------------------------------------------------------------------------
(* Beside it, the workers and the restarts.                                 *)

Handling(s) ==
  /\ Begin(s) \/ FindsClosed(s) \/ Run(s) \/ StatementFails(s)
  /\ raced' = (raced \/ status = "running")
  /\ UNCHANGED <<status, todo, jobs, covering, covered>>

Dies(now) ==
  /\ Restart(now)
  /\ status' = IF status = "running" THEN "broken" ELSE status
  /\ todo' = << >>
  /\ UNCHANGED <<jobs, raced, covering, covered>>

JobStep ==
  \/ RebuildLifecycle \/ DeleteActivity \/ InsertActivity
  \/ DeleteMarkers \/ InsertMarkers
  \/ DeleteCounters \/ InsertCounters \/ InsertConflicts
  \/ Recount

RebuildNext ==
  \/ \E s \in Streams : Handling(s)
  \/ \E now \in 0 .. Len(log) : StartJob(now) \/ Dies(now)
  \/ JobStep \/ JobFails

RebuildSpec == RebuildInit /\ [][RebuildNext]_rebuildVars

-----------------------------------------------------------------------------
\* The members' tables keep their shape, and a job has statements left exactly
\* while it runs.
RebuildTypeOK ==
  /\ TypeOK
  /\ status \in {"idle", "running", "broken"}
  /\ Len(todo) <= Len(Rebuild)
  /\ todo = SubSeq(Rebuild, Len(Rebuild) - Len(todo) + 1, Len(Rebuild))
  /\ status = "running" <=> todo # << >>
  /\ jobs \in 0 .. MaxJobs
  /\ raced \in BOOLEAN
  /\ covering \subseteq DOMAIN log /\ covered \subseteq DOMAIN log

RebuiltTables == {"guild_daily_active_members"} \union Range(MarkerTables)

\* In the job's scope the tables say what startup would make of empty ones.
InAgreement ==
  /\ {a \in activity : a[2] \in ActivityDays} = ActivityFromMessages
  /\ \A table \in RebuiltTables :
       {mk \in markers : mk.table = table /\ Concerned(mk)}
         = {mk \in StartupMarkers(table, markers) : Concerned(mk)}
  /\ \A table \in {"guild_daily_activity"} \union Range(CounterTables) :
       \A c \in Cells : c[1].table = table /\ ConcernedRow(c[1]) =>
         Copies(c, counts) = Copies(c, Derived(table))

\* However often it was broken off before, a job that completes with no handler
\* at work meanwhile leaves every marker and every counter of its scope as
\* startup would derive it, from the index and the lifecycle rows: those that
\* handlers lost or counted twice are repaired.
RebuildExact ==
  [][status = "running" /\ status' = "idle" /\ ~raced => InAgreement']_rebuildVars

MarkedActive(i) ==
  \E mk \in markers : /\ mk.table = "guild_daily_active_members"
                      /\ mk.member = log[i].member /\ mk.day = Day(log[i].at)

\* The step that event i is of: a message nobody published is one, too, once it
\* is in the index.
StepAt(i) == IF Human(i) THEN "first_message_at" ELSE StepOf(log[i].kind)

\* The member took the step of event i before it joined, as far as is known by
\* now: by an event that a handler began with, or a message of the index.
TakenBefore(i) ==
  \E j \in Handled \union IndexedMessages :
    log[j].member = log[i].member /\ StepAt(j) = StepAt(i) /\ log[j].at < Joined(log[i].member)

\* What was recorded as the member's step is recorded still, unless the member
\* is found to have taken that step before it joined.
StepsKept ==
  \A i \in done \intersect sawJoin :
    /\ StepOf(log[i].kind) \in Milestones
    /\ log[i].kind = "message" => i \notin failed \union reindexed
    => \/ \E mk \in markers : mk.table = StepOf(log[i].kind) /\ mk.member = log[i].member
       \/ TakenBefore(i)

\* What a rebuild takes away is derived again, however it interleaves with the
\* handlers.  Between jobs a member whose message was handled, or found by a job
\* that completed, is marked as active that day; a reaction or a voice session,
\* which the rebuild does not look at, counts as activity outside its days only.
\* A step that was recorded is recorded still, but for a first message: when the
\* job finds one from before the join in the index, first_message_at moves there
\* and the step is gone for good, with all that the member wrote since.
NothingForgotten ==
  status = "idle" =>
    /\ StepsKept
    /\ \A i \in covered : MarkedActive(i)
    /\ \A i \in done :
         \/ log[i].kind = "message" /\ i \notin failed \union reindexed
         \/ /\ log[i].kind = "reaction" \/ (log[i].kind = "voiceLeave" /\ i \notin failed)
            /\ jobs = 0 \/ Day(log[i].at) \notin ActivityDays
         => MarkedActive(i)
=============================================================================
