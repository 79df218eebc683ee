--------------------------- MODULE MessageIndexing ---------------------------
(***************************************************************************)
(* message_index, the counters of messages, and the two writers they have: *)
(* the message worker, which indexes and counts what the gateway           *)
(* published, and the backfill job, which reads a guild's channels page by *)
(* page from Discord, indexes what it finds and then rebuilds the counters *)
(* of the days it was asked for from the index.  Both run beside each      *)
(* other, a statement at a time.  One guild and one job are modelled; what *)
(* a message does to members is in MemberAnalytics.                        *)
(***************************************************************************)
EXTENDS Integers, SequencesExt, FiniteSetsExt, Bags

CONSTANTS
  Messages,    \* bound: the messages there may be
  History,     \* those sent before the gateway listened
  Channels,    \* the guild's channels that can be backfilled
  From, To,    \* the job's start_at and end_at, the time it is requested
  PageSize,    \* messages in one answer of Discord
  Concurrency, \* WORKER_BACKFILL_CHANNEL_CONCURRENCY
  MaxRetries,  \* MAX_DELIVERY_RETRIES
  MaxFaults    \* bound: failures and crashes

\* Discord numbers messages in the order they are sent: at is the number too.
ASSUME IndexingAssumption ==
  /\ IsFiniteSet(Messages) /\ IsFiniteSet(Channels)
  /\ \A m, n \in Messages : m.at = n.at => m = n
  /\ \A m \in Messages : m.at \in Nat /\ m.channel \in Channels /\ m.bot \in BOOLEAN
  /\ History \subseteq {m \in Messages : m.at <= To}
  /\ From \in Nat /\ To \in Nat /\ From <= To
  /\ PageSize \in Nat \ {0} /\ Concurrency \in Nat \ {0}
  /\ MaxRetries \in Nat /\ MaxFaults \in Nat

VARIABLES
  sent,       \* messages in Discord's channels
  raw,        \* those of raw_events
  queue,      \* events.message: those to handle
  handling,   \* the one the message worker handles, if any: a set
  left,       \* the statements left of its handler
  index,      \* message_index
  counts,     \* the counters: a bag of cells
  job,        \* [status: of its row, waiting: in the stream or scheduled for it,
              \*  phase: of its run, attempts: its retry counter]
  task,       \* task[c]: how far the backfill of channel c is
  rebuild,    \* the statements left of the rebuild
  raced,      \* a handler and the rebuild overlapped, history
  faultCount  \* bound

gatewayVars == <<sent, raw>>
handlerVars == <<queue, handling, left>>
jobVars == <<job, task, rebuild>>
vars == <<gatewayVars, handlerVars, jobVars, index, counts, raced, faultCount>>

PerDay == 2
Day(t) == t \div PerDay
ScopeDays == Day(From) .. Day(To)

-----------------------------------------------------------------------------
(* Counters.                                                                *)

GuildTables == {"guild_daily_activity", "guild_summary_daily"}
HumanTables == {"member_daily_activity", "channel_daily_activity", "channel_health_daily"}
Tables == GuildTables \union HumanTables \union {"public_stats_cache"}

\* Where the tables count message m: by guild, member or channel, and by day.
KeyOf(m) ==
  [public_stats_cache |-> "global",
   guild_daily_activity |-> "guild", guild_summary_daily |-> "guild",
   member_daily_activity |-> m.author,
   channel_daily_activity |-> m.channel, channel_health_daily |-> m.channel]

CellOf(table, m) ==
  <<table, KeyOf(m)[table], IF table = "public_stats_cache" THEN 0 ELSE Day(m.at)>>

Counted(table, messages) ==
  IF table \in HumanTables THEN {m \in messages : ~m.bot} ELSE messages

\* The rows of table that count exactly these messages.
CountOf(table, messages) ==
  LET of(cell) == {m \in Counted(table, messages) : CellOf(table, m) = cell}
  IN  [cell \in {CellOf(table, m) : m \in Counted(table, messages)} |-> Cardinality(of(cell))]

\* The part of B in the rows with property P.
Only(B, P(_)) == [cell \in {c \in DOMAIN B : P(c)} |-> B[cell]]

\* The value of a row; one that is missing has counted nothing.
Copies(cell, B) == IF cell \in DOMAIN B THEN B[cell] ELSE 0

Row(cell, n) == [c \in {cell} |-> n]

\* B with rows written over its own.
Written(rows, B) ==
  [cell \in DOMAIN rows \union DOMAIN B |-> IF cell \in DOMAIN rows THEN rows[cell] ELSE B[cell]]

Do(op, arg) == [op |-> op, arg |-> arg]

\* What the handler does for a message it has indexed.
Aggregates(m) ==
  LET count(table) == Do("count", CellOf(table, m))
  IN  <<count("public_stats_cache"), count("guild_daily_activity"), count("guild_summary_daily")>>
      \o IF m.bot THEN << >>
         ELSE <<count("member_daily_activity"), count("channel_daily_activity"),
                Do("read", CellOf("channel_health_daily", m))>>

\* rebuild_message_analytics_for_scope, as far as messages are counted.
Rebuild ==
  <<Do("delete", "member_daily_activity"), Do("insert", "member_daily_activity"),
    Do("delete", "channel_daily_activity"), Do("insert", "channel_daily_activity"),
    Do("delete", "channel_health_daily"), Do("insert", "channel_health_daily"),
    Do("delete", "guild_daily_activity"), Do("insert", "guild_daily_activity"),
    Do("delete", "guild_summary_daily"), Do("insert", "guild_summary_daily"),
    Do("recount", "public_stats_cache")>>

-----------------------------------------------------------------------------
Unread == [at |-> "todo", cursor |-> 0, new |-> 0]

Init ==
  /\ sent = History
  /\ raw = {}
  /\ queue = << >>
  /\ handling = {}
  /\ left = << >>
  /\ index = {}
  /\ counts = EmptyBag
  /\ job = [status |-> "none", waiting |-> FALSE, phase |-> "idle", attempts |-> 0]
  /\ task = [c \in Channels |-> Unread]
  /\ rebuild = << >>
  /\ raced = FALSE
  /\ faultCount = 0

Fault == faultCount < MaxFaults /\ faultCount' = faultCount + 1

-----------------------------------------------------------------------------
(* Discord and the gateway.                                                 *)

\* m is the next to be sent; the job covers what was there when it was asked for.
Follows(m) ==
  /\ m \notin sent
  /\ \A n \in Messages : n.at < m.at => n \in sent
  /\ m.at > To => job.status # "none"

Send(m) ==
  /\ Follows(m)
  /\ sent' = sent \union {m}
  /\ raw' = raw \union {m}
  /\ queue' = Append(queue, m)
  /\ UNCHANGED <<handling, left, jobVars, index, counts, raced, faultCount>>

\* The gateway was down, or could not store or publish the event.
Miss(m) ==
  /\ Follows(m)
  /\ Fault
  /\ sent' = sent \union {m}
  /\ raw' \in {raw, raw \union {m}}
  /\ UNCHANGED <<handlerVars, jobVars, index, counts, raced>>

Requestable == job.status = "none" /\ \A m \in Messages : m.at <= To => m \in sent

RequestJob ==
  /\ Requestable
  /\ job' = [job EXCEPT !.status = "queued", !.waiting = TRUE]
  /\ UNCHANGED <<gatewayVars, handlerVars, task, rebuild, index, counts, raced, faultCount>>

\* The row is written first; the job may not get into the stream.
EnqueueFails ==
  /\ Requestable
  /\ Fault
  /\ job' = [job EXCEPT !.status = "queued"]
  /\ UNCHANGED <<gatewayVars, handlerVars, task, rebuild, index, counts, raced>>

-----------------------------------------------------------------------------
(* The message worker.                                                      *)

Busy == handling # {}
Rebuilding == job.phase = "rebuild"

Begin ==
  /\ ~Busy
  /\ queue # << >>
  /\ handling' = {Head(queue)}
  /\ left' = <<Do("index", Head(queue))>>
  /\ queue' = Tail(queue)
  /\ UNCHANGED <<gatewayVars, jobVars, index, counts, raced, faultCount>>

HandlerFails ==
  /\ Busy
  /\ Fault
  /\ queue' = queue \o SetToSeq(handling)
  /\ handling' = {}
  /\ left' = << >>
  /\ raced' = (raced \/ Rebuilding)
  /\ UNCHANGED <<gatewayVars, jobVars, index, counts>>

\* A statement has taken effect; what it leaves to do, and the end.
Proceed(rest) ==
  /\ left' = rest
  /\ handling' = IF rest = << >> THEN {} ELSE handling
  /\ UNCHANGED <<gatewayVars, queue, jobVars, raced, faultCount>>

Running(op) == Busy /\ Head(left).op = op

\* Mutant: what was indexed before is counted again.
IndexAnyway ==
  /\ Running("index")
  /\ index' = index \union handling
  /\ Proceed(Aggregates(Head(left).arg))
  /\ UNCHANGED counts

Index ==
  /\ Running("index")
  /\ index' = index \union handling
  /\ Proceed(IF handling \subseteq index THEN << >> ELSE Aggregates(Head(left).arg))
  /\ UNCHANGED counts

Count ==
  /\ Running("count")
  /\ counts' = counts (+) SetToBag({Head(left).arg})
  /\ Proceed(Tail(left))
  /\ UNCHANGED index

\* refresh_channel_health_daily reads the channel's counter, and fails when the
\* rebuild has deleted it.
ReadActivity ==
  LET of == Head(left).arg
      n == Copies(<<"channel_daily_activity", of[2], of[3]>>, counts)
  IN  /\ Running("read")
      /\ n > 0
      /\ Proceed(<<Do("write", Row(of, n))>>)
      /\ UNCHANGED <<index, counts>>

ActivityGone ==
  LET of == Head(left).arg
  IN  /\ Running("read")
      /\ <<"channel_daily_activity", of[2], of[3]>> \notin DOMAIN counts
      /\ queue' = queue \o SetToSeq(handling)
      /\ handling' = {}
      /\ left' = << >>
      /\ UNCHANGED <<gatewayVars, jobVars, index, counts, raced, faultCount>>

WriteHealth ==
  /\ Running("write")
  /\ counts' = Written(Head(left).arg, counts)
  /\ Proceed(Tail(left))
  /\ UNCHANGED index

-----------------------------------------------------------------------------
(* The backfill job.                                                        *)

StartJob ==
  /\ job.waiting
  /\ job.phase = "idle"
  /\ job' = [job EXCEPT !.status = "running", !.waiting = FALSE,
                        !.phase = IF Channels = {} THEN "panicked" ELSE "channels"]
  /\ task' = [c \in Channels |-> Unread]
  /\ UNCHANGED <<gatewayVars, handlerVars, rebuild, index, counts, raced, faultCount>>

At(c, step) == job.phase = "channels" /\ task[c].at = step
InFlight == {c \in Channels : task[c].at \in {"page", "hung", "count"}}

Reading == [at |-> "page", cursor |-> Max({0} \union {m.at : m \in Messages}) + 1, new |-> 0]

\* Mutant: tasks are started without waiting for one to end.
StartTaskAtOnce(c) ==
  /\ At(c, "todo")
  /\ task' = [task EXCEPT ![c] = Reading]
  /\ UNCHANGED <<gatewayVars, handlerVars, job, rebuild, index, counts, raced, faultCount>>

StartTask(c) ==
  /\ At(c, "todo")
  /\ Cardinality(InFlight) < Concurrency
  /\ task' = [task EXCEPT ![c] = Reading]
  /\ UNCHANGED <<gatewayVars, handlerVars, job, rebuild, index, counts, raced, faultCount>>

\* Discord's answer: the newest messages of c before the cursor.
PageOf(c) ==
  LET older == {m \in sent : m.channel = c /\ m.at < task[c].cursor}
  IN  {m \in older : Cardinality({n \in older : n.at > m.at}) < PageSize}

\* What the INSERT ... ON CONFLICT DO NOTHING RETURNING of a page returns.
Inserted(c) == {m \in PageOf(c) : m.at \in From .. To} \ index

\* Mutant: the page after a full one is not asked for.
ReadPageOnce(c) ==
  LET new == Inserted(c)
  IN  /\ At(c, "page")
      /\ index' = index \union new
      /\ task' = [task EXCEPT ![c] = [at |-> IF new = {} THEN "done" ELSE "count",
                                      cursor |-> 0, new |-> Cardinality(new)]]
      /\ UNCHANGED <<gatewayVars, handlerVars, job, rebuild, counts, raced, faultCount>>

\* Mutant: every page is the first one.
ReadPageAgain(c) ==
  LET page == PageOf(c)
      new == Inserted(c)
      ends == Cardinality(page) < PageSize \/ \E m \in page : m.at < From
  IN  /\ At(c, "page")
      /\ index' = index \union new
      /\ task' = [task EXCEPT ![c] =
                    [at |-> IF new # {} THEN "count" ELSE IF ends THEN "done" ELSE "page",
                     cursor |-> IF ends THEN 0 ELSE @.cursor,
                     new |-> Cardinality(new)]]
      /\ UNCHANGED <<gatewayVars, handlerVars, job, rebuild, counts, raced, faultCount>>

\* DiscordLimiter: a request may wait for a permit that nobody signals.
Hang(c) ==
  /\ At(c, "page")
  /\ Fault
  /\ task' = [task EXCEPT ![c].at = "hung"]
  /\ UNCHANGED <<gatewayVars, handlerVars, job, rebuild, index, counts, raced>>

\* Reads a page and indexes what of it is in scope; a cursor of 0 is the end.
\* What is in scope has all been sent, so it makes no difference when the page
\* is asked for.
ReadPage(c) ==
  LET page == PageOf(c)
      new == Inserted(c)
      ends == Cardinality(page) < PageSize \/ \E m \in page : m.at < From
  IN  /\ At(c, "page")
      /\ index' = index \union new
      /\ task' = [task EXCEPT ![c] =
                    [at |-> IF new # {} THEN "count" ELSE IF ends THEN "done" ELSE "page",
                     cursor |-> IF ends THEN 0 ELSE Min({m.at : m \in page}),
                     new |-> Cardinality(new)]]
      /\ UNCHANGED <<gatewayVars, handlerVars, job, rebuild, counts, raced, faultCount>>

CountPage(c) ==
  /\ At(c, "count")
  /\ counts' = counts (+) Row(<<"public_stats_cache", "global", 0>>, task[c].new)
  /\ task' = [task EXCEPT ![c].at = IF task[c].cursor = 0 THEN "done" ELSE "page", ![c].new = 0]
  /\ UNCHANGED <<gatewayVars, handlerVars, job, rebuild, index, raced, faultCount>>

StartRebuild ==
  /\ job.phase = "channels"
  /\ \A c \in Channels : task[c].at = "done"
  /\ job' = [job EXCEPT !.phase = "rebuild"]
  /\ rebuild' = Rebuild
  /\ UNCHANGED <<gatewayVars, handlerVars, task, index, counts, raced, faultCount>>

\* The job's Err: the row says so if that UPDATE succeeds.  Tasks that are still
\* running are dropped.
Leave(status, waiting, phase, attempts) ==
  /\ job' = [status |-> status, waiting |-> waiting, phase |-> phase, attempts |-> attempts]
  /\ task' = [c \in Channels |-> Unread]
  /\ rebuild' = << >>
  /\ UNCHANGED <<gatewayVars, handlerVars, index>>

\* handle_failed_delivery: the job is scheduled again, or a dead letter after
\* MaxRetries.  Its counter lives for an hour and a job may run for longer.
Return(status) ==
  \E n \in {job.attempts + 1, 1} :
    IF n <= MaxRetries THEN Leave(status, TRUE, "idle", n) ELSE Leave(status, FALSE, "buried", 0)

\* handle_failed_delivery fails too: the entry stays in the pending list.
Abandon(status) == Leave(status, FALSE, "lost", job.attempts)

JobFails ==
  /\ job.phase \in {"channels", "rebuild"}
  /\ Fault
  /\ \E status \in {"failed", "running"} : Return(status) \/ Abandon(status)
  /\ UNCHANGED <<counts, raced>>

\* An XREADGROUP or XACK that fails ends the worker's task until the process is
\* started again; with the reply lost, the job is in the pending list.
WorkerStops ==
  /\ job.phase = "idle"
  /\ Fault
  /\ \/ job' = [job EXCEPT !.phase = "stopped"]
     \/ job.waiting /\ job' = [job EXCEPT !.waiting = FALSE, !.phase = "lost"]
  /\ UNCHANGED <<gatewayVars, handlerVars, task, rebuild, index, counts, raced>>

Rebuilds(op) == Rebuilding /\ rebuild # << >> /\ Head(rebuild).op = op

Rebuilt(table) ==
  /\ rebuild' = Tail(rebuild)
  /\ raced' = (raced \/ Busy)
  /\ UNCHANGED <<gatewayVars, handlerVars, job, task, index, faultCount>>

\* guild_summary_daily is rebuilt from 36 days before the scope.
InScope(table, day) ==
  day <= Day(To) /\ (day >= Day(From) \/ table = "guild_summary_daily")

Delete ==
  LET table == Head(rebuild).arg
      Stays(cell) == ~(cell[1] = table /\ InScope(table, cell[3]))
  IN  /\ Rebuilds("delete")
      /\ counts' = Only(counts, Stays)
      /\ Rebuilt(table)

\* Mutant: the scope's days are cut to its times.
InDaysByTime == {m \in index : m.at \in From .. To}

InDays == {m \in index : Day(m.at) \in ScopeDays}

\* The counters of table as the INSERT ... SELECT makes them.
Source(table) ==
  LET affected == {m.channel : m \in {x \in index : x.at \in From .. To}}
      renamed(from) == [cell \in {<<table, c[2], c[3]>> : c \in
                          {x \in DOMAIN counts : x[1] = from /\ InScope(table, x[3])}}
                        |-> counts[<<from, cell[2], cell[3]>>]]
  IN  CASE table \in {"member_daily_activity", "guild_daily_activity"} -> CountOf(table, InDays)
        [] table = "channel_daily_activity" ->
             CountOf(table, {m \in InDays : m.at <= To /\ m.channel \in affected})
        [] table = "channel_health_daily" -> renamed("channel_daily_activity")
        [] table = "guild_summary_daily" -> renamed("guild_daily_activity")

Conflicts(table) == table # "member_daily_activity" /\ DOMAIN Source(table) \intersect DOMAIN counts # {}

Insert ==
  LET table == Head(rebuild).arg
  IN  /\ Rebuilds("insert")
      /\ ~Conflicts(table)
      /\ counts' = Written(Source(table), counts)
      /\ Rebuilt(table)

\* A handler has made one of the rows again since they were deleted, and only
\* member_daily_activity is inserted with ON CONFLICT.
InsertConflicts ==
  /\ Rebuilds("insert")
  /\ Conflicts(Head(rebuild).arg)
  /\ \/ Return("failed") /\ UNCHANGED faultCount
     \/ Abandon("failed") /\ Fault
  /\ raced' = (raced \/ Busy)
  /\ UNCHANGED counts

Recount ==
  /\ Rebuilds("recount")
  /\ counts' = Written(CountOf("public_stats_cache", index), counts)
  /\ Rebuilt("public_stats_cache")

Complete ==
  /\ Rebuilding
  /\ rebuild = << >>
  /\ job' = [job EXCEPT !.status = "completed", !.phase = "idle"]
  /\ UNCHANGED <<gatewayVars, handlerVars, task, rebuild, index, counts, raced, faultCount>>

-----------------------------------------------------------------------------
(* The process dies; the job and the message it had in hand stay in the    *)
(* pending lists of their streams.  Before the workers run again, what     *)
(* raw_events has is indexed, and guild counters are made if there are     *)
(* none.                                                                    *)
Restart ==
  LET indexed == index \union raw
      none(table) == \A cell \in DOMAIN counts : cell[1] # table
      daily == IF none("guild_daily_activity") THEN CountOf("guild_daily_activity", indexed)
               ELSE Only(counts, LAMBDA cell : cell[1] = "guild_daily_activity")
      summary == IF none("guild_summary_daily")
                 THEN [cell \in {<<"guild_summary_daily", c[2], c[3]>> : c \in DOMAIN daily}
                       |-> daily[<<"guild_daily_activity", cell[2], cell[3]>>]]
                 ELSE EmptyBag
  IN  /\ Fault
      /\ index' = indexed
      /\ counts' = Written(summary, Written(daily, counts))
      /\ handling' = {}
      /\ left' = << >>
      /\ job' = [job EXCEPT !.phase = CASE @ \in {"channels", "rebuild", "panicked"} -> "lost"
                                        [] @ = "stopped" -> "idle"
                                        [] OTHER -> @]
      /\ task' = [c \in Channels |-> Unread]
      /\ rebuild' = << >>
      /\ UNCHANGED <<gatewayVars, queue, raced>>

-----------------------------------------------------------------------------
Gateway == \E m \in Messages : Send(m) \/ Miss(m)
Handler ==
  Begin \/ Index \/ Count \/ ReadActivity \/ ActivityGone \/ WriteHealth
Backfill ==
  \/ StartJob \/ StartRebuild \/ Delete \/ Insert \/ InsertConflicts \/ Recount \/ Complete
  \/ \E c \in Channels : StartTask(c) \/ ReadPage(c) \/ CountPage(c)

Next ==
  \/ Gateway \/ RequestJob \/ EnqueueFails
  \/ Handler \/ HandlerFails \/ Restart
  \/ Backfill \/ JobFails \/ WorkerStops \/ \E c \in Channels : Hang(c)

\* The job stream has a worker task of its own, which runs while there is work
\* unless WorkerStops or Hang has stopped it.  Nothing is asked of the message
\* worker.
Spec == Init /\ [][Next]_vars /\ WF_vars(Backfill)

-----------------------------------------------------------------------------
\* Each record and counter has its shape, the handler and the job hold work
\* exactly while they run, and no more tasks read channels than configured.
TypeOK ==
  /\ raw \subseteq sent /\ sent \subseteq Messages /\ index \subseteq sent
  /\ queue \in Seq(raw)
  /\ handling \subseteq raw /\ Cardinality(handling) <= 1
  /\ Busy <=> left # << >>
  /\ IsABag(counts) /\ \A cell \in DOMAIN counts : cell[1] \in Tables
  /\ job \in [status : {"none", "queued", "running", "completed", "failed"}, waiting : BOOLEAN,
              phase : {"idle", "channels", "rebuild", "lost", "buried", "stopped", "panicked"},
              attempts : 0 .. MaxRetries]
  /\ job.waiting => job.phase \in {"idle", "stopped"}
  /\ task \in [Channels -> [at : {"todo", "page", "hung", "count", "done"}, cursor : Nat, new : Nat]]
  /\ Cardinality(InFlight) <= Concurrency
  /\ rebuild # << >> => Rebuilding
  /\ raced \in BOOLEAN
  /\ faultCount \in 0 .. MaxFaults

\* The job's row says completed only when every message its channels had in the
\* days asked for is indexed, whatever failed or was running at the same time:
\* pages that were cut, retried or read while new messages moved them.
CompletedMeansIndexed ==
  job.status = "completed" => {m \in sent : m.at \in From .. To} \subseteq index

\* The gateway's copy of a message, the backfill's and the one from raw_events
\* are counted at most once together, in every table and on every day, over any
\* failures, retries and restarts; except when a handler overlaps the rebuild,
\* which counts from the index what the handler has yet to count.
NeverOvercounted ==
  ~raced => \A table \in Tables :
    LET all == CountOf(table, index)
    IN  \A cell \in DOMAIN counts : cell[1] = table => counts[cell] <= Copies(cell, all)

\* Where a table has a row for every indexed message of the rebuilt days: not
\* the channel tables on the first and last day, of which rows are deleted that
\* are not inserted again.
Repaired(table, cell) ==
  CASE table = "public_stats_cache" -> TRUE
    [] table \in {"channel_daily_activity", "channel_health_daily"} ->
         cell[3] > Day(From) /\ cell[3] < Day(To)
    [] OTHER -> cell[3] \in ScopeDays

\* A rebuild that no handler overlapped leaves the counters of its days equal to
\* the index, whatever failed handlers, crashes and earlier tries left in them.
RebuildRepairs ==
  Rebuilding /\ rebuild = << >> /\ ~raced /\ ~Busy =>
    \A table \in Tables :
      LET all == CountOf(table, index)
      IN  \A cell \in DOMAIN all \union {c \in DOMAIN counts : c[1] = table} :
            Repaired(table, cell) => Copies(cell, counts) = Copies(cell, all)

\* What a job that is in the stream may come to wait for without end: a worker
\* task that is gone, the process's next start, a permit, an operator.
Stuck == job.phase \in {"lost", "stopped", "buried"} \/ \E c \in Channels : task[c].at = "hung"

\* A job that is queued is completed, or a dead letter after its retries: its
\* pages come to an end, and each failure, also from a row that the message worker
\* made between a DELETE and its INSERT, is followed by another try that ends.
\* Except when a fault stops the job's worker, its request, or what would schedule
\* it again; and a run that panics is neither.
JobSettles == job.waiting ~> (job.status = "completed" \/ Stuck)
=============================================================================
