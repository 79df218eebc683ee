---------------------------- MODULE GuildInventory ----------------------------
(***************************************************************************)
(* Which guilds have the bot, and how many members they have: events from  *)
(* Discord through the gateway and the stream events.guild to a handler of *)
(* the worker, the table guild_inventory, the row of public_stats_cache    *)
(* that is summed up from it, and the backfill jobs that the handler asks  *)
(* for when a guild is new.                                                *)
(*                                                                         *)
(* A statement is a step, except that a job's refresh of the sums is two.  *)
(* It is an UPDATE from a subquery, and under READ COMMITTED Postgres      *)
(* writes what the subquery saw of guild_inventory as the statement began, *)
(* even if it had to wait for, or came after, another UPDATE of the row.   *)
(* The handler's own refresh is one step: nobody else upserts guilds.      *)
(***************************************************************************)
EXTENDS Naturals, Sequences, FiniteSets, FiniteSetsExt, SequencesExt

CONSTANTS
  Guilds,
  Occurrences,  \* bound: the events that may happen first, second, and so on
  MaxRetries,   \* MAX_DELIVERY_RETRIES
  MaxFaults     \* bound: statements that fail, replies that are lost, crashes

\* new: the guild was not there before; members of a guild removed are not told.
GuildEvents ==
  [kind : {"available", "removed"}, guild : Guilds, members : Nat, new : BOOLEAN]

ASSUME InventoryAssumption ==
  /\ Occurrences \in Seq(SUBSET GuildEvents)
  /\ MaxRetries \in Nat /\ MaxFaults \in Nat

VARIABLES
  log,        \* what happened, in the order of occurred_at
  unsent,     \* events whose publication by the gateway is under way
  queue,      \* the entries of events.guild that were not read yet
  waiting,    \* events scheduled for a retry
  hand, at,   \* the handler: the event it has, 0 for none, and its place
  inventory,  \* guild_inventory
  stats,      \* servers and members in public_stats_cache
  jobSaw,     \* the sums that the job's refresh saw, while it is to write
  rows,       \* historical_backfill_jobs
  entries,    \* the stream jobs.backfill
  taken,      \* how many of its entries were read
  job,        \* the job being run, 0 for none, and
  jobAt,      \* its place
  failures,   \* failed attempts at each event
  buried,     \* events in the dead-letter stream
  lost,       \* events that were in hand as the process died
  done,       \* events that were handled and acknowledged
  faultCount, \* bound
  applied,    \* events whose upsert took effect, history
  overtaken,  \* guilds whose row an older event wrote last, history
  halfway,    \* events upserted with no refresh since, history
  overlaps,   \* an upsert took effect since the job's refresh began, history
  raced       \* the refresh that wrote last was such a one, history

streamVars == <<unsent, queue, waiting, failures, buried, lost, done>>
handlerVars == <<hand, at>>
tableVars == <<inventory, stats>>
jobVars == <<rows, entries, taken, job, jobAt>>
historyVars == <<applied, overtaken, halfway, overlaps, raced>>
vars == <<log, streamVars, handlerVars, tableVars, jobSaw, jobVars, faultCount, historyVars>>

Absent == [known |-> FALSE, active |-> FALSE, members |-> 0, seen |-> 0]

Active(inv) == {g \in Guilds : inv[g].active}

\* The subquery of refresh_public_stats_cache.
Sums(inv) ==
  [servers |-> Cardinality(Active(inv)),
   members |-> MapThenSumSet(LAMBDA g : inv[g].members, Active(inv))]

NothingSeen == [servers |-> 0, members |-> 0]

Init ==
  /\ log = << >>
  /\ unsent = {} /\ queue = << >> /\ waiting = {}
  /\ hand = 0 /\ at = "idle"
  /\ inventory = [g \in Guilds |-> Absent]
  /\ stats = Sums([g \in Guilds |-> Absent])
  /\ jobSaw = NothingSeen
  /\ rows = << >> /\ entries = << >> /\ taken = 0
  /\ job = 0 /\ jobAt = "idle"
  /\ failures = [i \in DOMAIN Occurrences |-> 0]
  /\ buried = {} /\ lost = {} /\ done = {}
  /\ faultCount = 0
  /\ applied = {} /\ overtaken = {} /\ halfway = {}
  /\ overlaps = FALSE /\ raced = FALSE

-----------------------------------------------------------------------------
(* Discord and the gateway.                                                 *)

InLog(g) == {i \in DOMAIN log : log[i].guild = g}
Member(g) == InLog(g) # {} /\ log[Max(InLog(g))].kind = "available"

\* The bot is added (new), Discord tells of a guild again, after an outage or
\* as the gateway reconnects, or the bot is removed or the guild unavailable.
Happens(e) ==
  /\ e.new => e.kind = "available" /\ ~Member(e.guild)
  /\ e.kind = "removed" => Member(e.guild) /\ e.members = 0
  /\ log' = Append(log, e)
  /\ unsent' = unsent \union {Len(log) + 1}
  /\ UNCHANGED <<queue, waiting, failures, buried, lost, done, handlerVars, tableVars, jobSaw,
                 jobVars, faultCount, historyVars>>

\* Serenity runs each event in a task: publications may overtake one another.
Publish(i) ==
  /\ i \in unsent
  /\ unsent' = unsent \ {i}
  /\ queue' = Append(queue, i)
  /\ UNCHANGED <<log, waiting, failures, buried, lost, done, handlerVars, tableVars, jobSaw,
                 jobVars, faultCount, historyVars>>

-----------------------------------------------------------------------------
(* The handler.                                                             *)

Begin ==
  /\ at = "idle" /\ queue # << >>
  /\ hand' = Head(queue)
  /\ queue' = Tail(queue)
  /\ at' = "upsert"
  /\ UNCHANGED <<log, unsent, waiting, failures, buried, lost, done, tableVars, jobSaw,
                 jobVars, faultCount, historyVars>>

Event == log[hand]

\* It fails, or took effect and seems to have failed: the delivery is counted,
\* and scheduled again or buried.
Fails ==
  /\ faultCount < MaxFaults
  /\ faultCount' = faultCount + 1
  /\ failures' = [failures EXCEPT ![hand] = @ + 1]
  /\ IF failures[hand] < MaxRetries
     THEN waiting' = waiting \union {hand} /\ UNCHANGED buried
     ELSE buried' = buried \union {hand} /\ UNCHANGED waiting
  /\ hand' = 0 /\ at' = "idle"
  /\ UNCHANGED <<unsent, queue, lost, done>>

Proceeds(place) ==
  /\ at' = place
  /\ UNCHANGED <<streamVars, hand, faultCount>>

\* Acknowledged.
Ends ==
  /\ done' = done \union {hand}
  /\ hand' = 0 /\ at' = "idle"
  /\ UNCHANGED <<unsent, queue, waiting, failures, buried, lost, faultCount>>

StatementFails ==
  /\ at # "idle"
  /\ Fails
  /\ UNCHANGED <<log, tableVars, jobSaw, jobVars, historyVars>>

\* Mutant: a guild that comes back stays inactive.
UpsertedOnce(row, i) ==
  IF log[i].kind = "available"
  THEN [known |-> TRUE, active |-> row.active \/ ~row.known, members |-> log[i].members, seen |-> i]
  ELSE [row EXCEPT !.known = TRUE, !.active = FALSE, !.seen = i]

\* Neither statement compares last_seen_at.
Upserted(row, i) ==
  IF log[i].kind = "available"
  THEN [known |-> TRUE, active |-> TRUE, members |-> log[i].members, seen |-> i]
  ELSE [row EXCEPT !.known = TRUE, !.active = FALSE, !.seen = i]

\* Mutant: the sums are not refreshed when a guild leaves.
UpsertOnly ==
  LET g == Event.guild
  IN  /\ at = "upsert"
      /\ inventory' = [inventory EXCEPT ![g] = Upserted(@, hand)]
      /\ applied' = applied \union {hand}
      /\ overtaken' = IF \E i \in applied \intersect InLog(g) : i > hand
                      THEN overtaken \union {g} ELSE overtaken \ {g}
      /\ halfway' = halfway \union {hand}
      /\ overlaps' = (jobAt = "write")
      /\ (IF Event.kind = "available" THEN Proceeds("refresh") ELSE Ends) \/ Fails
      /\ UNCHANGED <<log, stats, jobSaw, jobVars, raced>>

Upsert ==
  LET g == Event.guild
  IN  /\ at = "upsert"
      /\ inventory' = [inventory EXCEPT ![g] = Upserted(@, hand)]
      /\ applied' = applied \union {hand}
      /\ overtaken' = IF \E i \in applied \intersect InLog(g) : i > hand
                      THEN overtaken \union {g} ELSE overtaken \ {g}
      /\ halfway' = halfway \union {hand}
      /\ overlaps' = (jobAt = "write")
      /\ Proceeds("refresh") \/ Fails
      /\ UNCHANGED <<log, stats, jobSaw, jobVars, raced>>

\* A new guild's handler goes on to ask for the messages of its last week.
Refresh ==
  /\ at = "refresh"
  /\ stats' = Sums(inventory)
  /\ halfway' = {}
  /\ raced' = FALSE
  /\ (IF Event.new THEN Proceeds("insert") ELSE Ends) \/ Fails
  /\ UNCHANGED <<log, inventory, jobSaw, jobVars, applied, overtaken, overlaps>>

Row(g, i) == [guild |-> g, event |-> i, status |-> "queued"]

\* The job's number is a new one at every attempt.
InsertJob ==
  /\ at = "insert"
  /\ rows' = Append(rows, Row(Event.guild, hand))
  /\ Proceeds("enqueue") \/ Fails
  /\ UNCHANGED <<log, tableVars, jobSaw, entries, taken, job, jobAt, historyVars>>

\* The row this attempt has inserted.
RowInHand == Max({r \in DOMAIN rows : rows[r].event = hand})

\* Mutant: a failed XADD is logged only.
EnqueueIgnoringErrors ==
  /\ at = "enqueue"
  /\ \/ entries' = Append(entries, RowInHand) /\ UNCHANGED faultCount
     \/ faultCount < MaxFaults /\ faultCount' = faultCount + 1 /\ UNCHANGED entries
  /\ done' = done \union {hand}
  /\ hand' = 0 /\ at' = "idle"
  /\ UNCHANGED <<unsent, queue, waiting, failures, buried, lost, jobSaw, log, tableVars, rows,
                 taken, job, jobAt, historyVars>>

Enqueue ==
  /\ at = "enqueue"
  /\ entries' = Append(entries, RowInHand)
  /\ Ends \/ Fails
  /\ UNCHANGED <<log, tableVars, jobSaw, rows, taken, job, jobAt, historyVars>>

Retry(i) ==
  /\ i \in waiting
  /\ waiting' = waiting \ {i}
  /\ queue' = Append(queue, i)
  /\ UNCHANGED <<log, unsent, failures, buried, lost, done, handlerVars, tableVars, jobSaw,
                 jobVars, faultCount, historyVars>>

-----------------------------------------------------------------------------
(* Backfill jobs.  MessageIndexing has what they do to messages; here, only *)
(* that they end with a refresh of the sums.                                *)

SetStatus(r, status) == rows' = [rows EXCEPT ![r].status = status]

StartJob ==
  /\ jobAt = "idle" /\ taken < Len(entries)
  /\ taken' = taken + 1
  /\ job' = entries[taken + 1]
  /\ jobAt' = "sum"
  /\ SetStatus(job', "running")
  /\ UNCHANGED <<log, streamVars, handlerVars, tableVars, jobSaw, entries, faultCount,
                 historyVars>>

JobSums ==
  /\ jobAt = "sum"
  /\ jobSaw' = Sums(inventory)
  /\ overlaps' = FALSE
  /\ jobAt' = "write"
  /\ UNCHANGED <<log, streamVars, handlerVars, tableVars, rows, entries, taken, job,
                 faultCount, applied, overtaken, halfway, raced>>

\* Also the last statement of the job but for its row; recount_public_message_count
\* makes the same two steps just before, and raced is about both.
JobWrites ==
  /\ jobAt = "write"
  /\ stats' = jobSaw
  /\ jobSaw' = NothingSeen
  /\ halfway' = IF overlaps THEN halfway ELSE {}
  /\ raced' = overlaps
  /\ overlaps' = FALSE
  /\ jobAt' = "complete"
  /\ UNCHANGED <<log, streamVars, handlerVars, inventory, rows, entries, taken, job,
                 faultCount, applied, overtaken>>

CompleteJob ==
  /\ jobAt = "complete"
  /\ SetStatus(job, "completed")
  /\ job' = 0 /\ jobAt' = "idle"
  /\ UNCHANGED <<log, streamVars, handlerVars, tableVars, jobSaw, entries, taken,
                 faultCount, historyVars>>

\* The job goes back to its stream, or to the dead letters.
JobFails ==
  /\ jobAt # "idle" /\ faultCount < MaxFaults
  /\ faultCount' = faultCount + 1
  /\ SetStatus(job, "failed")
  /\ entries' = Append(entries, job) \/ UNCHANGED entries
  /\ job' = 0 /\ jobAt' = "idle"
  /\ jobSaw' = NothingSeen
  /\ overlaps' = FALSE
  /\ UNCHANGED <<log, streamVars, handlerVars, tableVars, taken, applied, overtaken,
                 halfway, raced>>

\* The process dies; what was in hand stays in the pending lists.  At its start
\* the sums are left alone: the row is there.
Crash ==
  /\ faultCount < MaxFaults
  /\ hand # 0 \/ job # 0
  /\ faultCount' = faultCount + 1
  /\ lost' = lost \union ({hand} \ {0})
  /\ hand' = 0 /\ at' = "idle" /\ job' = 0 /\ jobAt' = "idle"
  /\ jobSaw' = NothingSeen
  /\ overlaps' = FALSE
  /\ UNCHANGED <<log, unsent, queue, waiting, failures, buried, done, tableVars, rows, entries,
                 taken, applied, overtaken, halfway, raced>>

-----------------------------------------------------------------------------
Handle == Begin \/ Upsert \/ Refresh \/ InsertJob \/ Enqueue
RunJob == StartJob \/ JobSums \/ JobWrites \/ CompleteJob

Next ==
  \/ Len(log) < Len(Occurrences) /\ \E e \in Occurrences[Len(log) + 1] : Happens(e)
  \/ \E i \in DOMAIN Occurrences : Publish(i) \/ Retry(i)
  \/ Handle \/ StatementFails
  \/ RunJob \/ JobFails
  \/ Crash

Spec == Init /\ [][Next]_vars

\* The tasks of a process that lives, or was started again, are polled.
Fairness ==
  /\ WF_vars(Handle) /\ WF_vars(RunJob)
  /\ \A i \in DOMAIN Occurrences : WF_vars(Publish(i)) /\ WF_vars(Retry(i))

-----------------------------------------------------------------------------
\* Every variable has its shape; the handler has an event, and the worker of
\* jobs.backfill a job, exactly while it is at a statement; and no entry of
\* that stream is without its row.
TypeOK ==
  /\ log \in Seq(GuildEvents) /\ Len(log) <= Len(Occurrences)
  /\ unsent \subseteq DOMAIN log /\ waiting \subseteq DOMAIN log
  /\ buried \subseteq DOMAIN log /\ lost \subseteq DOMAIN log /\ done \subseteq DOMAIN log
  /\ applied \subseteq DOMAIN log /\ halfway \subseteq DOMAIN log
  /\ queue \in Seq(DOMAIN log)
  /\ hand \in DOMAIN log \union {0}
  /\ at \in {"idle", "upsert", "refresh", "insert", "enqueue"}
  /\ hand = 0 <=> at = "idle"
  /\ inventory \in [Guilds -> [known : BOOLEAN, active : BOOLEAN, members : Nat, seen : Nat]]
  /\ failures \in [DOMAIN Occurrences -> Nat]
  /\ overtaken \subseteq Guilds
  /\ overlaps \in BOOLEAN /\ raced \in BOOLEAN
  /\ jobAt \in {"idle", "sum", "write", "complete"}
  /\ job \in DOMAIN rows \union {0}
  /\ job = 0 <=> jobAt = "idle"
  /\ rows \in Seq([guild : Guilds, event : DOMAIN log,
                   status : {"queued", "running", "completed", "failed"}])
  /\ entries \in Seq(DOMAIN rows)
  /\ taken \in 0 .. Len(entries)
  /\ faultCount \in 0 .. MaxFaults

\* However handlers fail and are run again, and publications are swapped, a
\* guild's row says what the newest event that reached it says, unless it is
\* one that an older event was handled after: nothing compares last_seen_at.
InventoryTrue ==
  \A g \in Guilds :
    LET told == applied \intersect InLog(g)
    IN  /\ inventory[g].known <=> told # {}
        /\ told # {} /\ g \notin overtaken =>
             /\ inventory[g].seen = Max(told)
             /\ inventory[g].active <=> log[Max(told)].kind = "available"
             /\ inventory[g].active => inventory[g].members = log[Max(told)].members

\* The public statistics are the inventory's sums at every moment, but while an
\* upsert waits for its refresh (its handler may have broken off for good), or
\* after a job's refresh that summed up before an upsert and wrote after the
\* refresh that followed it.  An event that was acknowledged was refreshed.
StatsTrue ==
  /\ stats = Sums(inventory) \/ halfway # {} \/ raced
  /\ halfway \intersect done = {}

RowsOf(i) == {r \in DOMAIN rows : rows[r].event = i}

\* A job may have its row and no entry while its handler goes on, and for
\* ever after an attempt that failed.
Enqueuing(r) ==
  LET i == rows[r].event IN hand = i \/ failures[i] > 0 \/ i \in lost

\* A new guild's messages are asked for: by the time its event is acknowledged
\* a job is in the stream, whose row was there before it (TypeOK); one job for
\* each attempt at most, so that only failures make two.  Every row that waits
\* has an entry ahead of the reader, but for handlers broken off.
InstallsBackfilled ==
  /\ \A i \in DOMAIN log : log[i].new =>
       /\ i \in done => \E r \in RowsOf(i) : r \in Range(entries)
       /\ Cardinality(RowsOf(i)) <= failures[i] + 1
  /\ \A r \in DOMAIN rows : rows[r].status = "queued" =>
       \/ r \in Range(SubSeq(entries, taken + 1, Len(entries)))
       \/ r \notin Range(entries) /\ Enqueuing(r)
=============================================================================
