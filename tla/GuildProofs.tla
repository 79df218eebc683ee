----------------------------- MODULE GuildProofs -----------------------------
(***************************************************************************)
(* Proofs about GuildInventory and PublicStats, for any guilds, any script *)
(* of events and any number of retries, faults and visitors.               *)
(***************************************************************************)
EXTENDS PublicStats, FiniteSetTheorems, SequenceTheorems, TLAPS

-----------------------------------------------------------------------------
(* Types.                                                                   *)

\* The part of TypeOK about events on their way and the handler.
StreamOK ==
  /\ unsent \subseteq DOMAIN log /\ waiting \subseteq DOMAIN log
  /\ buried \subseteq DOMAIN log /\ lost \subseteq DOMAIN log /\ done \subseteq DOMAIN log
  /\ queue \in Seq(DOMAIN log)
  /\ hand \in DOMAIN log \union {0}
  /\ at \in {"idle", "upsert", "refresh", "insert", "enqueue"}
  /\ hand = 0 <=> at = "idle"
  /\ failures \in [DOMAIN Occurrences -> Nat]
  /\ faultCount \in 0 .. MaxFaults

\* The part about the tables, the jobs and the history.
TableOK ==
  /\ log \in Seq(GuildEvents) /\ Len(log) <= Len(Occurrences)
  /\ applied \subseteq DOMAIN log /\ halfway \subseteq DOMAIN log
  /\ inventory \in [Guilds -> [known : BOOLEAN, active : BOOLEAN, members : Nat, seen : Nat]]
  /\ overtaken \subseteq Guilds
  /\ overlaps \in BOOLEAN /\ raced \in BOOLEAN

JobOK ==
  /\ jobAt \in {"idle", "sum", "write", "complete"}
  /\ job \in DOMAIN rows \union {0}
  /\ job = 0 <=> jobAt = "idle"
  /\ rows \in Seq([guild : Guilds, event : DOMAIN log,
                   status : {"queued", "running", "completed", "failed"}])
  /\ entries \in Seq(DOMAIN rows)
  /\ taken \in 0 .. Len(entries)

LEMMA TypeParts == TypeOK <=> StreamOK /\ TableOK /\ JobOK
BY DEF TypeOK, StreamOK, TableOK, JobOK

LEMMA LogType ==
  ASSUME TypeOK
  PROVE  /\ DOMAIN log = 1 .. Len(log) /\ Len(log) \in Nat
         /\ DOMAIN log \subseteq DOMAIN Occurrences
         /\ \A i \in DOMAIN log : i \in Nat \ {0} /\ log[i] \in GuildEvents
<1>1. log \in Seq(GuildEvents) /\ Len(log) <= Len(Occurrences)
  BY DEF TypeOK
<1>2. Occurrences \in Seq(SUBSET GuildEvents)
  BY InventoryAssumption
<1>3. DOMAIN log = 1 .. Len(log) /\ Len(log) \in Nat /\ \A i \in 1 .. Len(log) : log[i] \in GuildEvents
  BY <1>1
<1>4. DOMAIN Occurrences = 1 .. Len(Occurrences) /\ Len(Occurrences) \in Nat
  BY <1>2
<1> QED BY <1>1, <1>3, <1>4

LEMMA HandType ==
  ASSUME TypeOK, at # "idle"
  PROVE  /\ hand \in DOMAIN log /\ hand \in DOMAIN Occurrences /\ hand \in Nat \ {0}
         /\ Event \in GuildEvents /\ Event.guild \in Guilds /\ Event.members \in Nat
<1>1. hand \in DOMAIN log
  BY DEF TypeOK
<1>2. Event \in GuildEvents
  BY <1>1, LogType DEF Event
<1> QED BY <1>1, <1>2, LogType DEF GuildEvents

LEMMA FailsType ==
  ASSUME TypeOK, at # "idle", Fails, UNCHANGED log
  PROVE  StreamOK'
<1>1. hand \in DOMAIN log /\ hand \in DOMAIN Occurrences
  BY HandType
<1>2. failures' \in [DOMAIN Occurrences -> Nat]
  <2>1. failures' = [failures EXCEPT ![hand] = @ + 1]
    BY DEF Fails
  <2>2. failures \in [DOMAIN Occurrences -> Nat]
    BY DEF TypeOK
  <2>3. failures[hand] + 1 \in Nat
    BY <1>1, <2>2
  <2> QED BY <2>1, <2>2, <2>3
<1>3. waiting' \subseteq DOMAIN log /\ buried' \subseteq DOMAIN log
  BY <1>1 DEF Fails, TypeOK
<1>4. faultCount' \in 0 .. MaxFaults
  BY InventoryAssumption DEF Fails, TypeOK
<1> QED BY <1>2, <1>3, <1>4 DEF Fails, TypeOK, StreamOK

LEMMA ProceedsType ==
  ASSUME TypeOK, at # "idle", UNCHANGED log,
         NEW place \in {"refresh", "insert", "enqueue"}, Proceeds(place)
  PROVE  StreamOK'
BY DEF Proceeds, streamVars, TypeOK, StreamOK

LEMMA EndsType ==
  ASSUME TypeOK, at # "idle", Ends, UNCHANGED log
  PROVE  StreamOK'
BY HandType DEF Ends, TypeOK, StreamOK

\* A statement of the handler ends in one of these ways.
HandlerMoves ==
  /\ at # "idle"
  /\ Fails \/ Ends \/ \E place \in {"refresh", "insert", "enqueue"} : Proceeds(place)

LEMMA MovesType ==
  ASSUME TypeOK, HandlerMoves, UNCHANGED log
  PROVE  StreamOK'
BY FailsType, EndsType, ProceedsType DEF HandlerMoves

LEMMA SetStatusType ==
  ASSUME TypeOK, NEW r \in DOMAIN rows,
         NEW status \in {"queued", "running", "completed", "failed"}, SetStatus(r, status)
  PROVE  /\ rows' \in Seq([guild : Guilds, event : DOMAIN log,
                           status : {"queued", "running", "completed", "failed"}])
         /\ DOMAIN rows' = DOMAIN rows /\ Len(rows') = Len(rows)
         /\ \A s \in DOMAIN rows : rows'[s].event = rows[s].event
         /\ \A s \in DOMAIN rows : rows'[s].status = IF s = r THEN status ELSE rows[s].status
<1> DEFINE R == [guild : Guilds, event : DOMAIN log,
                 status : {"queued", "running", "completed", "failed"}]
<1>1. rows \in Seq(R) /\ DOMAIN rows = 1 .. Len(rows)
  BY DEF TypeOK
<1>2. \A s \in DOMAIN rows : rows[s] \in R
  BY <1>1, ElementOfSeq
<1>3. rows' = [rows EXCEPT ![r] = [rows[r] EXCEPT !.status = status]]
  BY DEF SetStatus
<1>4. [rows[r] EXCEPT !.status = status] \in R
  BY <1>2
<1>5. rows' \in Seq(R) /\ Len(rows') = Len(rows)
  BY <1>1, <1>3, <1>4, ExceptSeq
<1>6. DOMAIN rows' = DOMAIN rows
  BY <1>3
<1>7. \A s \in DOMAIN rows : rows'[s] = IF s = r THEN [rows[r] EXCEPT !.status = status] ELSE rows[s]
  BY <1>3
<1>8. [rows[r] EXCEPT !.status = status].event = rows[r].event
  /\ [rows[r] EXCEPT !.status = status].status = status
  BY <1>2
<1> QED BY <1>5, <1>6, <1>7, <1>8

LEMMA InitType == Init => TypeOK
<1> SUFFICES ASSUME Init PROVE TypeOK
  OBVIOUS
<1>1. log \in Seq(GuildEvents) /\ Len(log) = 0 /\ Len(Occurrences) \in Nat
  BY InventoryAssumption DEF Init
<1>2. queue \in Seq(DOMAIN log) /\ entries \in Seq(DOMAIN rows) /\ taken \in 0 .. Len(entries)
  BY DEF Init
<1>3. rows \in Seq([guild : Guilds, event : DOMAIN log,
                    status : {"queued", "running", "completed", "failed"}])
  BY DEF Init
<1>4. failures \in [DOMAIN Occurrences -> Nat] /\ faultCount \in 0 .. MaxFaults
  BY InventoryAssumption DEF Init
<1>5. inventory \in [Guilds -> [known : BOOLEAN, active : BOOLEAN, members : Nat, seen : Nat]]
  BY DEF Init, Absent
<1>6. StreamOK
  BY <1>2, <1>4 DEF Init, StreamOK
<1>7. TableOK
  <2>1. Len(log) <= Len(Occurrences)
    BY <1>1
  <2> QED BY <1>1, <1>5, <2>1 DEF Init, TableOK
<1>8. JobOK
  BY <1>2, <1>3 DEF Init, JobOK
<1> QED BY <1>6, <1>7, <1>8, TypeParts

LEMMA HappensType ==
  ASSUME TypeOK, Len(log) < Len(Occurrences),
         NEW e \in Occurrences[Len(log) + 1], Happens(e)
  PROVE  /\ TypeOK'
         /\ e \in GuildEvents /\ log' = Append(log, e)
         /\ DOMAIN log' = DOMAIN log \union {Len(log) + 1} /\ Len(log) + 1 \notin DOMAIN log
         /\ log'[Len(log) + 1] = e /\ \A i \in DOMAIN log : log'[i] = log[i]
<1>1. e \in GuildEvents
  <2>1. Len(log) + 1 \in 1 .. Len(Occurrences)
    BY LogType, InventoryAssumption
  <2> QED BY <2>1, InventoryAssumption, ElementOfSeq
<1>2. log \in Seq(GuildEvents) /\ log' = Append(log, e)
  BY DEF Happens, TypeOK
<1>3. /\ log' \in Seq(GuildEvents) /\ Len(log') = Len(log) + 1
      /\ DOMAIN log' = DOMAIN log \union {Len(log) + 1} /\ Len(log) + 1 \notin DOMAIN log
      /\ log'[Len(log) + 1] = e /\ \A i \in DOMAIN log : log'[i] = log[i]
  BY <1>1, <1>2
<1>4. Len(log') <= Len(Occurrences)
  BY <1>3, LogType, InventoryAssumption
<1>5. /\ queue' \in Seq(DOMAIN log') /\ entries' \in Seq(DOMAIN rows')
      /\ rows' \in Seq([guild : Guilds, event : DOMAIN log',
                        status : {"queued", "running", "completed", "failed"}])
  <2>1. queue' = queue /\ entries' = entries /\ rows' = rows
    BY DEF Happens, jobVars
  <2>2. queue \in Seq(DOMAIN log) /\ entries \in Seq(DOMAIN rows)
        /\ rows \in Seq([guild : Guilds, event : DOMAIN log,
                         status : {"queued", "running", "completed", "failed"}])
    BY DEF TypeOK
  <2>3. [guild : Guilds, event : DOMAIN log, status : {"queued", "running", "completed", "failed"}]
        \subseteq [guild : Guilds, event : DOMAIN log',
                   status : {"queued", "running", "completed", "failed"}]
    BY <1>3
  <2> QED BY <2>1, <2>2, <2>3, <1>3, SeqMonotonic
<1>6. StreamOK'
  BY <1>3, <1>5 DEF Happens, handlerVars, TypeOK, StreamOK
<1>7. TableOK'
  BY <1>3, <1>4 DEF Happens, tableVars, historyVars, TypeOK, TableOK
<1>8. JobOK'
  BY <1>3, <1>5 DEF Happens, jobVars, TypeOK, JobOK
<1> QED BY <1>1, <1>2, <1>3, <1>6, <1>7, <1>8, TypeParts DEF TypeOK, StreamOK, TableOK, JobOK

LEMMA PublishType ==
  ASSUME TypeOK, NEW i, Publish(i) \/ Retry(i)
  PROVE  TypeOK' /\ i \in DOMAIN log /\ queue' = Append(queue, i)
<1>1. i \in DOMAIN log /\ queue' = Append(queue, i)
  BY DEF Publish, Retry, TypeOK
<1>2. queue' \in Seq(DOMAIN log)
  BY <1>1 DEF TypeOK
<1> QED BY ZenonT(30), <1>1, <1>2 DEF Publish, Retry, TypeOK, handlerVars, tableVars, jobVars, historyVars

LEMMA BeginType ==
  ASSUME TypeOK, Begin
  PROVE  /\ TypeOK'
         /\ hand' \in DOMAIN log /\ hand' \in Nat \ {0} /\ 1 \in DOMAIN queue /\ hand' = queue[1]
         /\ DOMAIN queue' = 1 .. Len(queue) - 1
         /\ \A k \in DOMAIN queue' : k + 1 \in DOMAIN queue /\ queue'[k] = queue[k + 1]
<1>1. queue \in Seq(DOMAIN log) /\ queue # << >>
  BY DEF Begin, TypeOK
<1>2. queue' = Tail(queue) /\ hand' = Head(queue) /\ at' = "upsert"
  BY DEF Begin
<1>3. /\ queue' \in Seq(DOMAIN log) /\ hand' \in DOMAIN log
      /\ 1 \in DOMAIN queue /\ hand' = queue[1]
      /\ DOMAIN queue' = 1 .. Len(queue) - 1
      /\ \A k \in DOMAIN queue' : k + 1 \in DOMAIN queue /\ queue'[k] = queue[k + 1]
  BY <1>1, <1>2, HeadTailProperties, LenProperties
<1>4. hand' \in Nat \ {0}
  BY <1>3, LogType
<1> QED BY <1>2, <1>3, <1>4 DEF Begin, TypeOK, tableVars, jobVars, historyVars

LEMMA UpsertType ==
  ASSUME TypeOK, Upsert
  PROVE  /\ TypeOK' /\ HandlerMoves
         /\ inventory' = [inventory EXCEPT ![Event.guild] = Upserted(inventory[Event.guild], hand)]
<1>1. at # "idle" /\ UNCHANGED <<log, jobVars>>
  BY DEF Upsert
<1>2. HandlerMoves
  BY <1>1 DEF Upsert, HandlerMoves
<1>3. inventory' = [inventory EXCEPT ![Event.guild] = Upserted(inventory[Event.guild], hand)]
  BY DEF Upsert
<1> DEFINE R == [known : BOOLEAN, active : BOOLEAN, members : Nat, seen : Nat]
<1>4. Upserted(inventory[Event.guild], hand) \in R
  <2>1. inventory[Event.guild] \in R /\ hand \in Nat /\ log[hand].members \in Nat
    BY <1>1, HandType DEF TypeOK, Event
  <2> QED BY <2>1 DEF Upserted
<1>5. inventory \in [Guilds -> R]
  BY DEF TypeOK
<1>6. inventory' \in [Guilds -> R]
  BY <1>3, <1>4, <1>5
<1>7. applied' \subseteq DOMAIN log /\ halfway' \subseteq DOMAIN log
  BY <1>1, HandType DEF Upsert, TypeOK
<1>8. overtaken' \subseteq Guilds
  BY <1>1, HandType DEF Upsert, TypeOK
<1>9. overlaps' \in BOOLEAN /\ raced' \in BOOLEAN
  BY DEF Upsert, TypeOK
<1>10. StreamOK'
  BY <1>1, <1>2, MovesType
<1>11. TableOK'
  BY <1>1, <1>6, <1>7, <1>8, <1>9 DEF TypeOK, TableOK
<1>12. JobOK'
  BY <1>1 DEF TypeOK, JobOK, jobVars
<1> QED BY <1>2, <1>3, <1>10, <1>11, <1>12, TypeParts DEF TypeOK, StreamOK, TableOK, JobOK

LEMMA RefreshType ==
  ASSUME TypeOK, Refresh
  PROVE  TypeOK' /\ HandlerMoves
<1>1. at # "idle" /\ UNCHANGED <<log, jobVars>>
  BY DEF Refresh
<1>2. HandlerMoves
  BY <1>1 DEF Refresh, HandlerMoves
<1>3. StreamOK'
  BY <1>1, <1>2, MovesType
<1>4. TableOK' /\ JobOK'
  BY <1>1 DEF Refresh, TypeOK, TableOK, JobOK, jobVars
<1> QED BY <1>2, <1>3, <1>4, TypeParts DEF TypeOK, StreamOK, TableOK, JobOK

LEMMA InsertJobType ==
  ASSUME TypeOK, InsertJob
  PROVE  /\ TypeOK' /\ HandlerMoves
         /\ DOMAIN rows = 1 .. Len(rows) /\ Len(rows) \in Nat
         /\ Len(rows') = Len(rows) + 1 /\ DOMAIN rows' = DOMAIN rows \union {Len(rows) + 1}
         /\ rows'[Len(rows) + 1] = Row(Event.guild, hand)
         /\ \A r \in DOMAIN rows : rows'[r] = rows[r]
<1> DEFINE R == [guild : Guilds, event : DOMAIN log,
                 status : {"queued", "running", "completed", "failed"}]
<1>1. at # "idle" /\ UNCHANGED <<log, tableVars, entries, taken, job, jobAt, historyVars>>
  BY DEF InsertJob
<1>2. HandlerMoves
  BY <1>1 DEF InsertJob, HandlerMoves
<1>3. Row(Event.guild, hand) \in R
  BY <1>1, HandType DEF Row
<1>4. rows \in Seq(R) /\ rows' = Append(rows, Row(Event.guild, hand))
  BY DEF InsertJob, TypeOK
<1>5. /\ rows' \in Seq(R)
      /\ DOMAIN rows = 1 .. Len(rows) /\ Len(rows) \in Nat
      /\ Len(rows') = Len(rows) + 1 /\ DOMAIN rows' = DOMAIN rows \union {Len(rows) + 1}
      /\ rows'[Len(rows) + 1] = Row(Event.guild, hand)
      /\ \A r \in DOMAIN rows : rows'[r] = rows[r]
  BY <1>3, <1>4
<1>6. StreamOK'
  BY <1>1, <1>2, MovesType
<1>7. TableOK'
  BY <1>1 DEF TypeOK, TableOK, tableVars, historyVars
<1>8. entries' \in Seq(DOMAIN rows')
  BY <1>1, <1>5, SeqMonotonic DEF TypeOK
<1>9. JobOK'
  BY <1>1, <1>5, <1>8 DEF TypeOK, JobOK
<1> QED BY <1>2, <1>5, <1>6, <1>7, <1>9, TypeParts DEF TypeOK, StreamOK, TableOK, JobOK

\* The row of the attempt under way is the last one.
RowLast == at = "enqueue" => Len(rows) > 0 /\ rows[Len(rows)].event = hand

LEMMA RowInHandLast ==
  ASSUME TypeOK, RowLast, at = "enqueue"
  PROVE  RowInHand = Len(rows) /\ Len(rows) \in DOMAIN rows
<1>1. DOMAIN rows = 1 .. Len(rows) /\ Len(rows) \in Nat
  BY DEF TypeOK
<1> DEFINE S == {r \in DOMAIN rows : rows[r].event = hand}
<1>2. Len(rows) \in S /\ \A r \in S : r \in Nat /\ Len(rows) >= r
  BY <1>1 DEF RowLast
<1>3. \A x \in S : (\A y \in S : x >= y) => x = Len(rows)
  BY <1>1, <1>2
<1>4. Max(S) = Len(rows)
  BY <1>2, <1>3 DEF Max
<1> QED BY <1>2, <1>4 DEF RowInHand

LEMMA AppendEntry ==
  ASSUME TypeOK, NEW r \in DOMAIN rows, entries' = Append(entries, r), UNCHANGED rows
  PROVE  /\ entries' \in Seq(DOMAIN rows) /\ Len(entries') = Len(entries) + 1
         /\ DOMAIN entries = 1 .. Len(entries) /\ Len(entries) \in Nat
         /\ DOMAIN entries' = DOMAIN entries \union {Len(entries) + 1}
         /\ entries'[Len(entries) + 1] = r
         /\ \A k \in DOMAIN entries : entries'[k] = entries[k]
<1>1. entries \in Seq(DOMAIN rows)
  BY DEF TypeOK
<1> QED BY <1>1

LEMMA EnqueueType ==
  ASSUME TypeOK, RowLast, Enqueue
  PROVE  TypeOK' /\ HandlerMoves
<1>1. at = "enqueue" /\ UNCHANGED <<log, tableVars, rows, taken, job, jobAt, historyVars>>
  BY DEF Enqueue
<1>2. HandlerMoves
  BY <1>1 DEF Enqueue, HandlerMoves
<1>3. StreamOK'
  BY <1>1, <1>2, MovesType
<1>4. TableOK'
  BY <1>1 DEF TypeOK, TableOK, tableVars, historyVars
<1>5. RowInHand \in DOMAIN rows /\ entries' = Append(entries, RowInHand)
  BY <1>1, RowInHandLast DEF Enqueue
<1>6. entries' \in Seq(DOMAIN rows) /\ taken \in 0 .. Len(entries')
  BY <1>1, <1>5, AppendEntry DEF TypeOK
<1>7. JobOK'
  BY <1>1, <1>6 DEF TypeOK, JobOK
<1> QED BY <1>2, <1>3, <1>4, <1>7, TypeParts DEF TypeOK, StreamOK, TableOK, JobOK

LEMMA StatementFailsType ==
  ASSUME TypeOK, StatementFails
  PROVE  TypeOK' /\ HandlerMoves
<1>1. HandlerMoves /\ UNCHANGED <<log, tableVars, jobVars, historyVars>>
  BY DEF StatementFails, HandlerMoves
<1>2. StreamOK'
  BY <1>1, MovesType
<1>3. TableOK' /\ JobOK'
  BY <1>1 DEF TypeOK, TableOK, JobOK, tableVars, jobVars, historyVars
<1> QED BY <1>1, <1>2, <1>3, TypeParts DEF TypeOK, StreamOK, TableOK, JobOK

LEMMA StartJobType ==
  ASSUME TypeOK, StartJob
  PROVE  /\ TypeOK' /\ taken + 1 \in DOMAIN entries /\ job' \in DOMAIN rows
         /\ job' = entries[taken + 1] /\ SetStatus(job', "running")
<1>1. /\ taken' = taken + 1 /\ job' = entries[taken + 1] /\ jobAt' = "sum"
      /\ SetStatus(job', "running") /\ taken < Len(entries)
      /\ UNCHANGED <<log, streamVars, handlerVars, tableVars, entries, faultCount, historyVars>>
  BY DEF StartJob
<1>2. entries \in Seq(DOMAIN rows) /\ taken \in 0 .. Len(entries)
  BY DEF TypeOK
<1>3. taken + 1 \in 1 .. Len(entries) /\ DOMAIN entries = 1 .. Len(entries)
  BY <1>1, <1>2
<1>4. job' \in DOMAIN rows
  BY <1>1, <1>2, <1>3, ElementOfSeq
<1>5. /\ rows' \in Seq([guild : Guilds, event : DOMAIN log,
                        status : {"queued", "running", "completed", "failed"}])
      /\ DOMAIN rows' = DOMAIN rows
  <2>1. \A r \in DOMAIN rows : SetStatus(r, "running") =>
          /\ rows' \in Seq([guild : Guilds, event : DOMAIN log,
                            status : {"queued", "running", "completed", "failed"}])
          /\ DOMAIN rows' = DOMAIN rows
    BY SetStatusType
  <2> QED BY <1>1, <1>4, <2>1
<1>6. job' # 0
  <2>1. rows \in Seq([guild : Guilds, event : DOMAIN log,
                      status : {"queued", "running", "completed", "failed"}])
    BY DEF TypeOK
  <2> QED BY <1>4, <2>1
<1>7. taken' \in 0 .. Len(entries)
  BY <1>1, <1>2
<1>8. StreamOK' /\ TableOK'
  BY <1>1 DEF TypeOK, StreamOK, TableOK, streamVars, handlerVars, tableVars, historyVars
<1>9. JobOK'
  BY <1>1, <1>2, <1>4, <1>5, <1>6, <1>7 DEF JobOK
<1> QED BY <1>1, <1>3, <1>4, <1>8, <1>9, TypeParts DEF TypeOK, StreamOK, TableOK, JobOK

LEMMA JobStepType ==
  ASSUME TypeOK, JobSums \/ JobWrites
  PROVE  TypeOK'
<1>1. /\ UNCHANGED <<log, streamVars, handlerVars, inventory, rows, entries, taken, job,
                     faultCount, applied, overtaken>>
      /\ jobAt # "idle" /\ jobAt' \in {"write", "complete"}
      /\ halfway' \subseteq halfway /\ overlaps' \in BOOLEAN /\ raced' \in BOOLEAN
  BY DEF JobSums, JobWrites, tableVars, TypeOK
<1>2. StreamOK'
  BY <1>1 DEF TypeOK, StreamOK, streamVars, handlerVars
<1>3. TableOK'
  BY <1>1 DEF TypeOK, TableOK
<1>4. JobOK'
  BY <1>1 DEF TypeOK, JobOK
<1> QED BY <1>2, <1>3, <1>4, TypeParts DEF TypeOK, StreamOK, TableOK, JobOK

LEMMA CompleteJobType ==
  ASSUME TypeOK, CompleteJob
  PROVE  TypeOK' /\ job \in DOMAIN rows /\ SetStatus(job, "completed")
<1>1. /\ jobAt = "complete" /\ SetStatus(job, "completed") /\ job' = 0 /\ jobAt' = "idle"
      /\ UNCHANGED <<log, streamVars, handlerVars, tableVars, entries, taken, faultCount,
                     historyVars>>
  BY DEF CompleteJob
<1>2. job \in DOMAIN rows
  BY <1>1 DEF TypeOK
<1>3. /\ rows' \in Seq([guild : Guilds, event : DOMAIN log,
                        status : {"queued", "running", "completed", "failed"}])
      /\ DOMAIN rows' = DOMAIN rows
  BY <1>1, <1>2, SetStatusType
<1>4. StreamOK' /\ TableOK'
  BY <1>1 DEF TypeOK, StreamOK, TableOK, streamVars, handlerVars, tableVars, historyVars
<1>5. JobOK'
  BY <1>1, <1>3 DEF TypeOK, JobOK
<1> QED BY <1>1, <1>2, <1>4, <1>5, TypeParts DEF TypeOK, StreamOK, TableOK, JobOK

LEMMA JobFailsType ==
  ASSUME TypeOK, JobFails
  PROVE  TypeOK' /\ job \in DOMAIN rows /\ SetStatus(job, "failed")
<1>1. /\ jobAt # "idle" /\ SetStatus(job, "failed") /\ job' = 0 /\ jobAt' = "idle"
      /\ entries' = Append(entries, job) \/ UNCHANGED entries
      /\ faultCount < MaxFaults /\ faultCount' = faultCount + 1 /\ overlaps' = FALSE
      /\ UNCHANGED <<log, streamVars, handlerVars, tableVars, taken, applied, overtaken,
                     halfway, raced>>
  BY DEF JobFails
<1>2. job \in DOMAIN rows
  BY <1>1 DEF TypeOK
<1>3. /\ rows' \in Seq([guild : Guilds, event : DOMAIN log,
                        status : {"queued", "running", "completed", "failed"}])
      /\ DOMAIN rows' = DOMAIN rows
  BY <1>1, <1>2, SetStatusType
<1>4. faultCount' \in 0 .. MaxFaults
  BY <1>1, InventoryAssumption DEF TypeOK
<1>5. StreamOK' /\ TableOK'
  BY <1>1, <1>4 DEF TypeOK, StreamOK, TableOK, streamVars, handlerVars, tableVars
<1>6. entries' \in Seq(DOMAIN rows) /\ taken \in 0 .. Len(entries')
  <2>1. entries \in Seq(DOMAIN rows) /\ taken \in 0 .. Len(entries) /\ Len(entries) \in Nat
    BY DEF TypeOK
  <2> QED BY <1>1, <1>2, <2>1
<1>7. JobOK'
  BY <1>1, <1>3, <1>6 DEF TypeOK, JobOK
<1> QED BY <1>1, <1>2, <1>5, <1>7, TypeParts DEF TypeOK, StreamOK, TableOK, JobOK

LEMMA CrashType ==
  ASSUME TypeOK, Crash
  PROVE  TypeOK' /\ lost' = lost \union ({hand} \ {0}) /\ hand' = 0 /\ at' = "idle"
<1>1. /\ faultCount < MaxFaults /\ faultCount' = faultCount + 1
      /\ lost' = lost \union ({hand} \ {0})
      /\ hand' = 0 /\ at' = "idle" /\ job' = 0 /\ jobAt' = "idle" /\ overlaps' = FALSE
      /\ UNCHANGED <<log, unsent, queue, waiting, failures, buried, done, tableVars, rows,
                     entries, taken, applied, overtaken, halfway, raced>>
  BY DEF Crash
<1>2. faultCount' \in 0 .. MaxFaults
  BY <1>1, InventoryAssumption DEF TypeOK
<1>3. lost' \subseteq DOMAIN log
  BY <1>1 DEF TypeOK
<1>4. StreamOK'
  BY <1>1, <1>2, <1>3 DEF TypeOK, StreamOK
<1>5. TableOK' /\ JobOK'
  BY <1>1 DEF TypeOK, TableOK, JobOK, tableVars
<1> QED BY <1>1, <1>4, <1>5, TypeParts DEF TypeOK, StreamOK, TableOK, JobOK

\* The step of the type invariant, and of the row in hand that it rests on:
\* only InsertJob moves the handler to the enqueueing, and rows keep their events.
LEMMA TypeStep ==
  ASSUME TypeOK, RowLast, [Next]_vars
  PROVE  TypeOK' /\ RowLast'
<1>1. ASSUME Len(log) < Len(Occurrences), NEW e \in Occurrences[Len(log) + 1], Happens(e)
      PROVE  TypeOK' /\ RowLast'
  BY <1>1, HappensType DEF Happens, RowLast, jobVars, handlerVars
<1>2. ASSUME NEW i \in DOMAIN Occurrences, Publish(i) \/ Retry(i)
      PROVE  TypeOK' /\ RowLast'
  BY <1>2, PublishType DEF Publish, Retry, RowLast, jobVars, handlerVars
<1>3. CASE Begin
  BY <1>3, BeginType DEF Begin, RowLast
<1>4. CASE Upsert
  <2>1. at' # "enqueue"
    BY <1>4 DEF Upsert, Proceeds, Fails
  <2> QED BY <1>4, <2>1, UpsertType DEF RowLast
<1>5. CASE Refresh
  <2>1. at' # "enqueue"
    BY <1>5 DEF Refresh, Proceeds, Fails, Ends
  <2> QED BY <1>5, <2>1, RefreshType DEF RowLast
<1>6. CASE InsertJob
  <2>1. at' = "enqueue" => hand' = hand
    BY <1>6 DEF InsertJob, Proceeds, Fails
  <2>2. Row(Event.guild, hand).event = hand
    BY DEF Row
  <2> QED BY <1>6, <2>1, <2>2, InsertJobType DEF RowLast
<1>7. CASE Enqueue \/ StatementFails
  <2>1. at' # "enqueue"
    BY <1>7 DEF Enqueue, StatementFails, Fails, Ends
  <2> QED BY <1>7, <2>1, EnqueueType, StatementFailsType DEF RowLast
<1>8. CASE JobSums \/ JobWrites
  BY <1>8, JobStepType DEF JobSums, JobWrites, RowLast, handlerVars
<1>9. ASSUME NEW r \in DOMAIN rows, NEW status \in {"queued", "running", "completed", "failed"},
             SetStatus(r, status), UNCHANGED handlerVars
      PROVE  RowLast'
  <2>1. DOMAIN rows' = DOMAIN rows /\ Len(rows') = Len(rows)
        /\ \A s \in DOMAIN rows : rows'[s].event = rows[s].event
    BY <1>9, SetStatusType
  <2>2. at = "enqueue" => Len(rows) \in DOMAIN rows
    BY RowInHandLast
  <2> QED BY <1>9, <2>1, <2>2 DEF RowLast, handlerVars
<1>10. CASE StartJob
  <2>1. job' \in DOMAIN rows /\ SetStatus(job', "running") /\ UNCHANGED handlerVars
    BY <1>10, StartJobType DEF StartJob
  <2>2. \A r \in DOMAIN rows : SetStatus(r, "running") /\ UNCHANGED handlerVars => RowLast'
    BY <1>9
  <2> QED BY <1>10, <2>1, <2>2, StartJobType
<1>11. CASE CompleteJob
  BY <1>9, <1>11, CompleteJobType DEF CompleteJob
<1>12. CASE JobFails
  BY <1>9, <1>12, JobFailsType DEF JobFails
<1>13. CASE Crash
  BY <1>13, CrashType DEF RowLast
<1>14. CASE UNCHANGED vars
  BY <1>14 DEF vars, streamVars, handlerVars, tableVars, jobVars, historyVars, TypeOK, RowLast
<1> QED BY <1>1, <1>2, <1>3, <1>4, <1>5, <1>6, <1>7, <1>8, <1>10, <1>11, <1>12, <1>13, <1>14
        DEF Next, Handle, RunJob

LEMMA TypeInvariant == Spec => [](TypeOK /\ RowLast)
<1>1. Init => TypeOK /\ RowLast
  BY InitType DEF Init, RowLast
<1>2. TypeOK /\ RowLast /\ [Next]_vars => (TypeOK /\ RowLast)'
  BY TypeStep
<1> QED BY <1>1, <1>2, PTL DEF Spec

\* Every variable of the inventory keeps its shape: the handler has an event
\* exactly while it is at a statement, and no entry of the backfill stream is
\* ever without its row.
THEOREM InventoryTypeCorrect == Spec => []TypeOK
BY TypeInvariant, PTL

-----------------------------------------------------------------------------
(* An event is in one place: to be published, in the stream, in hand,       *)
(* waiting for a retry, handled, or lost (or buried, of which nothing more  *)
(* needs to be known).  Without that, a second delivery could still be      *)
(* halfway through an event that was acknowledged.                          *)

OnePlace ==
  /\ \A a, b \in DOMAIN queue : queue[a] = queue[b] => a = b
  /\ \A a \in DOMAIN queue : queue[a] \notin unsent \union waiting \union done \union lost \union {hand}
  /\ unsent \intersect (waiting \union done \union lost \union {hand}) = {}
  /\ waiting \intersect (done \union lost \union {hand}) = {}
  /\ done \intersect lost = {}
  /\ hand \notin done /\ hand \notin lost

LEMMA AppendPlace ==
  ASSUME TypeOK, OnePlace, NEW i \in unsent \union waiting, queue' = Append(queue, i),
         unsent' = unsent \ {i}, waiting' = waiting \ {i}, UNCHANGED <<done, lost, hand>>
  PROVE  OnePlace'
<1>1. queue \in Seq(DOMAIN log) /\ i \in DOMAIN log
  BY DEF TypeOK
<1>2. /\ DOMAIN queue' = DOMAIN queue \union {Len(queue) + 1} /\ queue'[Len(queue) + 1] = i
      /\ \A k \in DOMAIN queue : queue'[k] = queue[k]
  BY <1>1
<1>3. \A k \in DOMAIN queue : queue[k] # i
  BY DEF OnePlace
<1>4. i \notin done /\ i \notin lost /\ i # hand
  BY DEF OnePlace
<1>5. \A a, b \in DOMAIN queue' : queue'[a] = queue'[b] => a = b
  BY <1>2, <1>3 DEF OnePlace
<1>6. \A a \in DOMAIN queue' :
        queue'[a] \notin unsent' \union waiting' \union done' \union lost' \union {hand'}
  BY <1>2, <1>4 DEF OnePlace
<1> QED BY <1>5, <1>6 DEF OnePlace

LEMMA BeginPlace ==
  ASSUME TypeOK, OnePlace, Begin
  PROVE  OnePlace'
<1>1. UNCHANGED <<unsent, waiting, done, lost>>
  BY DEF Begin
<1>2. /\ hand' \in DOMAIN log /\ 1 \in DOMAIN queue /\ hand' = queue[1]
      /\ \A k \in DOMAIN queue' : k \in Nat \ {0} /\ k + 1 \in DOMAIN queue /\ queue'[k] = queue[k + 1]
  BY BeginType
<1>3. \A a, b \in DOMAIN queue' : queue'[a] = queue'[b] => a = b
  <2> SUFFICES ASSUME NEW a \in DOMAIN queue', NEW b \in DOMAIN queue', queue'[a] = queue'[b]
               PROVE  a = b
    OBVIOUS
  <2>1. a + 1 = b + 1
    BY <1>2 DEF OnePlace
  <2> QED BY <1>2, <2>1
<1>4. \A a \in DOMAIN queue' : queue'[a] # hand'
  <2> SUFFICES ASSUME NEW a \in DOMAIN queue', queue'[a] = hand' PROVE FALSE
    OBVIOUS
  <2>1. a + 1 = 1
    BY <1>2 DEF OnePlace
  <2> QED BY <1>2, <2>1
<1>5. \A a \in DOMAIN queue' : queue'[a] \notin unsent \union waiting \union done \union lost
  BY <1>2 DEF OnePlace
<1>6. hand' \notin unsent \union waiting \union done \union lost
  BY <1>2 DEF OnePlace
<1> QED BY <1>1, <1>3, <1>4, <1>5, <1>6 DEF OnePlace

LEMMA MovesPlace ==
  ASSUME TypeOK, OnePlace, HandlerMoves
  PROVE  OnePlace'
<1>1. hand # 0 /\ 0 \notin unsent /\ 0 \notin waiting /\ 0 \notin done /\ 0 \notin lost
  BY LogType DEF TypeOK, HandlerMoves
<1>2. \A a \in DOMAIN queue : queue[a] # 0
  BY LogType DEF TypeOK
<1>3. CASE Fails
  <2>1. /\ UNCHANGED <<unsent, queue, lost, done>> /\ hand' = 0
        /\ waiting' \subseteq waiting \union {hand}
    BY <1>3 DEF Fails
  <2> QED BY <1>1, <1>2, <2>1 DEF OnePlace
<1>4. CASE Ends
  BY <1>1, <1>2, <1>4 DEF Ends, OnePlace
<1>5. ASSUME NEW place, Proceeds(place) PROVE OnePlace'
  BY <1>5 DEF Proceeds, streamVars, OnePlace
<1> QED BY <1>3, <1>4, <1>5 DEF HandlerMoves

LEMMA CrashPlace ==
  ASSUME TypeOK, OnePlace, Crash
  PROVE  OnePlace'
<1>1. 0 \notin unsent /\ 0 \notin waiting /\ 0 \notin done /\ 0 \notin lost
  BY LogType DEF TypeOK
<1>2. \A a \in DOMAIN queue : queue[a] # 0
  BY LogType DEF TypeOK
<1>3. hand' = 0 /\ lost' = lost \union ({hand} \ {0}) /\ UNCHANGED <<unsent, queue, waiting, done>>
  BY DEF Crash
<1> QED BY <1>1, <1>2, <1>3 DEF OnePlace

LEMMA HappensPlace ==
  ASSUME TypeOK, OnePlace, Len(log) < Len(Occurrences),
         NEW e \in Occurrences[Len(log) + 1], Happens(e)
  PROVE  OnePlace'
<1> DEFINE n == Len(log) + 1
<1>1. /\ n \notin DOMAIN log /\ n # 0
  BY HappensType, LogType
<1>2. /\ unsent' = unsent \union {n} /\ UNCHANGED <<queue, waiting, lost, done, hand>>
  BY DEF Happens, handlerVars
<1>3. n \notin waiting /\ n \notin done /\ n \notin lost /\ n # hand
  BY <1>1 DEF TypeOK
<1>4. \A a \in DOMAIN queue : queue[a] # n
  BY <1>1 DEF TypeOK
<1> QED BY <1>2, <1>3, <1>4 DEF OnePlace

LEMMA PlaceStep ==
  ASSUME TypeOK, RowLast, OnePlace, [Next]_vars
  PROVE  OnePlace'
<1>1. CASE Upsert \/ Refresh \/ InsertJob \/ Enqueue \/ StatementFails
  BY <1>1, MovesPlace, UpsertType, RefreshType, InsertJobType, EnqueueType, StatementFailsType
<1>2. ASSUME NEW i \in DOMAIN Occurrences, Publish(i) \/ Retry(i)
      PROVE  OnePlace'
  <2>1. CASE Publish(i)
    <3>1. waiting' = waiting \ {i}
      BY <2>1 DEF Publish, OnePlace
    <3> QED BY <2>1, <3>1, AppendPlace DEF Publish, handlerVars
  <2>2. CASE Retry(i)
    <3>1. unsent' = unsent \ {i}
      BY <2>2 DEF Retry, OnePlace
    <3> QED BY <2>2, <3>1, AppendPlace DEF Retry, handlerVars
  <2> QED BY <1>2, <2>1, <2>2
<1>3. CASE RunJob \/ JobFails \/ UNCHANGED vars
  BY <1>3 DEF RunJob, StartJob, JobSums, JobWrites, CompleteJob, JobFails, vars, streamVars,
              handlerVars, OnePlace
<1> QED BY <1>1, <1>2, <1>3, HappensPlace, BeginPlace, CrashPlace DEF Next, Handle

LEMMA PlaceInvariant == Spec => [](TypeOK /\ RowLast /\ OnePlace)
<1>1. Init => OnePlace
  BY DEF Init, OnePlace
<1>2. TypeOK /\ RowLast /\ OnePlace /\ [Next]_vars => OnePlace'
  BY PlaceStep
<1> QED BY <1>1, <1>2, TypeInvariant, PTL DEF Spec

-----------------------------------------------------------------------------
(* The sums.                                                                *)

\* What makes StatsTrue inductive: what a job is to write is the sums, unless
\* an upsert overlaps; and the handler that goes on after its refresh has
\* nothing more to be refreshed.
StatsInv ==
  /\ StatsTrue
  /\ jobAt = "write" => overlaps \/ jobSaw = Sums(inventory)
  /\ at \in {"insert", "enqueue"} => hand \notin halfway

\* Steps that touch neither the tables nor what is known of the sums.
LEMMA StatsQuiet ==
  ASSUME StatsInv, UNCHANGED <<tableVars, halfway, raced>>, done' = done,
         jobAt' = "write" => jobAt = "write" /\ UNCHANGED <<overlaps, jobSaw>>,
         at' \in {"insert", "enqueue"} => at \in {"insert", "enqueue"} /\ hand' = hand
  PROVE  StatsInv'
BY DEF StatsInv, StatsTrue, tableVars

LEMMA StatsHandler ==
  ASSUME TypeOK, RowLast, OnePlace, StatsInv, Handle \/ StatementFails
  PROVE  StatsInv'
<1>1. CASE Begin
  BY <1>1, StatsQuiet DEF Begin, jobVars, historyVars
<1>2. CASE Upsert
  <2>1. /\ halfway' = halfway \union {hand} /\ overlaps' = (jobAt = "write")
        /\ jobAt' = jobAt /\ done' = done /\ at' \notin {"insert", "enqueue"}
    BY <1>2 DEF Upsert, Proceeds, Fails, streamVars, jobVars
  <2>2. hand \notin done
    BY DEF OnePlace
  <2> QED BY <2>1, <2>2 DEF StatsInv, StatsTrue
<1>3. CASE Refresh
  BY <1>3 DEF Refresh, StatsInv, StatsTrue, jobVars
<1>4. CASE InsertJob
  <2>1. at' \in {"insert", "enqueue"} => at \in {"insert", "enqueue"} /\ hand' = hand
    BY <1>4 DEF InsertJob, Proceeds, Fails
  <2>2. done' = done
    BY <1>4 DEF InsertJob, Proceeds, Fails, streamVars
  <2> QED BY <1>4, <2>1, <2>2, StatsQuiet DEF InsertJob, historyVars
<1>5. CASE Enqueue
  <2>1. /\ UNCHANGED <<tableVars, halfway, raced, overlaps, jobSaw, jobAt>>
        /\ at = "enqueue" /\ at' = "idle" /\ done' \subseteq done \union {hand}
    BY <1>5 DEF Enqueue, Ends, Fails, historyVars
  <2> QED BY <2>1 DEF StatsInv, StatsTrue, tableVars
<1>6. CASE StatementFails
  BY <1>6, StatsQuiet DEF StatementFails, Fails, jobVars, historyVars
<1> QED BY <1>1, <1>2, <1>3, <1>4, <1>5, <1>6 DEF Handle

LEMMA StatsJobs ==
  ASSUME StatsInv, RunJob \/ JobFails
  PROVE  StatsInv'
<1>1. CASE StartJob \/ CompleteJob \/ JobFails
  BY <1>1, StatsQuiet DEF StartJob, CompleteJob, JobFails, streamVars, handlerVars, historyVars,
                          tableVars
<1>2. CASE JobSums
  BY <1>2 DEF JobSums, StatsInv, StatsTrue, tableVars, streamVars, handlerVars
<1>3. CASE JobWrites
  <2>1. /\ UNCHANGED <<inventory, at, hand, done>> /\ stats' = jobSaw /\ raced' = overlaps
        /\ halfway' \subseteq halfway /\ jobAt = "write" /\ jobAt' = "complete"
    BY <1>3 DEF JobWrites, streamVars, handlerVars
  <2>2. overlaps \/ jobSaw = Sums(inventory)
    BY <2>1 DEF StatsInv
  <2>3. stats' = Sums(inventory)' \/ raced'
    BY <2>1, <2>2
  <2> QED BY <2>1, <2>3 DEF StatsInv, StatsTrue
<1> QED BY <1>1, <1>2, <1>3 DEF RunJob

LEMMA StatsStep ==
  ASSUME TypeOK, RowLast, OnePlace, StatsInv, [Next]_vars
  PROVE  StatsInv'
<1>1. ASSUME NEW e, Happens(e) PROVE StatsInv'
  BY <1>1, StatsQuiet DEF Happens, handlerVars, jobVars, historyVars
<1>2. ASSUME NEW i, Publish(i) \/ Retry(i) PROVE StatsInv'
  BY <1>2, StatsQuiet DEF Publish, Retry, handlerVars, jobVars, historyVars
<1>3. CASE Crash
  BY <1>3, StatsQuiet DEF Crash
<1>4. CASE UNCHANGED vars
  BY <1>4, StatsQuiet DEF vars, streamVars, handlerVars, jobVars, historyVars
<1> QED BY <1>1, <1>2, <1>3, <1>4, StatsHandler, StatsJobs DEF Next, Handle

\* The public statistics are the sums of the inventory, but where an upsert
\* still waits for its refresh or a job's refresh wrote what it saw before it;
\* and no event is acknowledged before its refresh.
THEOREM StatsTrueHolds == Spec => []StatsTrue
<1>1. Init => StatsInv
  BY DEF Init, StatsInv, StatsTrue
<1>2. TypeOK /\ RowLast /\ OnePlace /\ StatsInv /\ [Next]_vars => StatsInv'
  BY StatsStep
<1>3. StatsInv => StatsTrue
  BY DEF StatsInv
<1> QED BY <1>1, <1>2, <1>3, PlaceInvariant, PTL DEF Spec

-----------------------------------------------------------------------------
(* The rows of the inventory.                                               *)

Told(g) == applied \intersect InLog(g)

\* InventoryTrue without Max: the event whose data the row has is the newest.
RowTrue(g) ==
  /\ inventory[g].known <=> Told(g) # {}
  /\ Told(g) # {} /\ g \notin overtaken =>
       LET i == inventory[g].seen
       IN  /\ i \in Told(g) /\ \A j \in Told(g) : j <= i
           /\ inventory[g].active <=> log[i].kind = "available"
           /\ inventory[g].active => inventory[g].members = log[i].members

InventoryInv == \A g \in Guilds : RowTrue(g)

LEMMA InventoryQuiet ==
  ASSUME InventoryInv, UNCHANGED <<log, inventory, applied, overtaken>>
  PROVE  InventoryInv'
<1>1. \A g \in Guilds : Told(g)' = Told(g)
  BY DEF Told, InLog
<1> QED BY <1>1 DEF InventoryInv, RowTrue

LEMMA InventoryHappens ==
  ASSUME TypeOK, InventoryInv, Len(log) < Len(Occurrences),
         NEW e \in Occurrences[Len(log) + 1], Happens(e)
  PROVE  InventoryInv'
<1>1. /\ \A i \in DOMAIN log : log'[i] = log[i]
      /\ DOMAIN log' = DOMAIN log \union {Len(log) + 1} /\ Len(log) + 1 \notin DOMAIN log
  BY HappensType
<1>2. UNCHANGED <<inventory, applied, overtaken>>
  BY DEF Happens, tableVars, historyVars
<1>3. applied \subseteq DOMAIN log
  BY DEF TypeOK
<1>4. \A g \in Guilds : Told(g)' = Told(g) /\ Told(g) \subseteq DOMAIN log
  BY <1>1, <1>2, <1>3 DEF Told, InLog
<1>5. ASSUME NEW g \in Guilds PROVE RowTrue(g)'
  <2>1. RowTrue(g)
    BY DEF InventoryInv
  <2> QED BY <1>1, <1>2, <1>4, <2>1 DEF RowTrue
<1> QED BY <1>5 DEF InventoryInv

LEMMA InventoryUpsert ==
  ASSUME TypeOK, InventoryInv, Upsert
  PROVE  InventoryInv'
<1>0. PICK h \in Guilds : h = Event.guild
  BY HandType DEF Upsert
<1>1. /\ UNCHANGED log /\ applied' = applied \union {hand}
      /\ overtaken' = IF \E i \in applied \intersect InLog(h) : i > hand
                      THEN overtaken \union {h} ELSE overtaken \ {h}
  BY <1>0 DEF Upsert
<1>2. hand \in DOMAIN log /\ hand \in Nat /\ h = log[hand].guild /\ h \in Guilds
  BY <1>0, HandType DEF Upsert, Event
<1>3. inventory' = [inventory EXCEPT ![h] = Upserted(inventory[h], hand)]
  BY <1>0, UpsertType
<1>4. h \in DOMAIN inventory
  BY <1>2 DEF TypeOK
<1>5. \A g \in Guilds : Told(g)' = IF g = h THEN Told(g) \union {hand} ELSE Told(g)
  BY <1>1, <1>2 DEF Told, InLog
<1>6. ASSUME NEW g \in Guilds, g # h PROVE RowTrue(g)'
  <2>1. inventory'[g] = inventory[g] /\ Told(g)' = Told(g) /\ (g \in overtaken' <=> g \in overtaken)
    BY <1>1, <1>3, <1>5, <1>6
  <2>2. RowTrue(g)
    BY DEF InventoryInv
  <2> QED BY <1>1, <2>1, <2>2 DEF RowTrue
<1>7. RowTrue(h)'
  <2> DEFINE row == Upserted(inventory[h], hand)
  <2>1. inventory'[h] = row
    BY <1>3, <1>4
  <2>2. row.known /\ row.seen = hand
        /\ (row.active <=> log[hand].kind = "available")
        /\ (row.active => row.members = log[hand].members)
    <3>1. inventory[h] \in [known : BOOLEAN, active : BOOLEAN, members : Nat, seen : Nat]
      BY <1>2 DEF TypeOK
    <3> QED BY <3>1 DEF Upserted
  <2>3. Told(h)' = Told(h) \union {hand} /\ hand \in Told(h)'
    BY <1>2, <1>5
  <2>4. ASSUME h \notin overtaken' PROVE \A j \in Told(h)' : j <= hand
    <3>1. \A i \in Told(h) : ~(i > hand)
      BY <1>1, <2>4 DEF Told
    <3>2. \A i \in Told(h) : i \in Nat
      BY LogType DEF TypeOK, Told
    <3> QED BY <1>2, <2>3, <3>1, <3>2
  <2> QED BY <1>1, <2>1, <2>2, <2>3, <2>4 DEF RowTrue
<1> QED BY <1>6, <1>7 DEF InventoryInv

LEMMA InventoryStep ==
  ASSUME TypeOK, InventoryInv, [Next]_vars
  PROVE  InventoryInv'
<1>1. ASSUME NEW i, Publish(i) \/ Retry(i) PROVE InventoryInv'
  BY <1>1, InventoryQuiet DEF Publish, Retry, tableVars, historyVars
<1>2. CASE Begin \/ Refresh \/ InsertJob \/ Enqueue \/ StatementFails
  BY <1>2, InventoryQuiet DEF Begin, Refresh, InsertJob, Enqueue, StatementFails, tableVars,
                              historyVars
<1>3. CASE RunJob \/ JobFails \/ Crash
  BY <1>3, InventoryQuiet DEF RunJob, StartJob, JobSums, JobWrites, CompleteJob, JobFails, Crash,
                              tableVars, historyVars
<1>4. CASE UNCHANGED vars
  BY <1>4, InventoryQuiet DEF vars, tableVars, historyVars
<1> QED BY <1>1, <1>2, <1>3, <1>4, InventoryHappens, InventoryUpsert DEF Next, Handle

LEMMA InventoryInvTrue ==
  ASSUME TypeOK, InventoryInv
  PROVE  InventoryTrue
<1> SUFFICES ASSUME NEW g \in Guilds
             PROVE  LET told == applied \intersect InLog(g)
                    IN  /\ inventory[g].known <=> told # {}
                        /\ told # {} /\ g \notin overtaken =>
                             /\ inventory[g].seen = Max(told)
                             /\ inventory[g].active <=> log[Max(told)].kind = "available"
                             /\ inventory[g].active =>
                                  inventory[g].members = log[Max(told)].members
  BY DEF InventoryTrue
<1>1. RowTrue(g)
  BY DEF InventoryInv
<1>2. \A j \in Told(g) : j \in Nat
  BY LogType DEF TypeOK, Told
<1>3. ASSUME NEW i \in Told(g), \A j \in Told(g) : j <= i PROVE Max(Told(g)) = i
  <2>1. \A x \in Told(g) : (\A y \in Told(g) : x >= y) => x = i
    BY <1>2, <1>3
  <2>2. \A y \in Told(g) : i >= y
    BY <1>2, <1>3
  <2> QED BY <2>1, <2>2 DEF Max
<1> QED BY <1>1, <1>3 DEF RowTrue, Told

\* A guild's row says what the newest event says that reached it, unless an
\* older event was handled after it.
THEOREM InventoryTrueHolds == Spec => []InventoryTrue
<1>1. Init => InventoryInv
  BY DEF Init, InventoryInv, RowTrue, Told, Absent
<1>2. TypeOK /\ InventoryInv /\ [Next]_vars => InventoryInv'
  BY InventoryStep
<1>3. TypeOK /\ InventoryInv => InventoryTrue
  BY InventoryInvTrue
<1> QED BY <1>1, <1>2, <1>3, InventoryTypeCorrect, PTL DEF Spec

-----------------------------------------------------------------------------
(* The jobs of new guilds.                                                  *)

EnqueuingNow(i) == hand = i /\ at = "enqueue"

\* What the attempts at event i leave behind: a row for each that failed, and
\* one for the attempt at hand, or the one that ended it.
Attempts(i) == failures[i] + (IF EnqueuingNow(i) \/ i \in done \union lost THEN 1 ELSE 0)

RowsBounded == \A i \in DOMAIN log : Cardinality(RowsOf(i)) <= Attempts(i)

HasEntry(r) == \E k \in DOMAIN entries : entries[k] = r

\* The row of an attempt that did not end is in the stream, or its handler is
\* about to put it there, or has broken off.
RowsExplained ==
  \A r \in DOMAIN rows :
    LET i == rows[r].event
    IN  \/ HasEntry(r)
        \/ EnqueuingNow(i) /\ r = Len(rows)
        \/ failures[i] > 0
        \/ i \in lost

\* A job that was taken up does not look queued.
TakenMarked == \A k \in DOMAIN entries : k <= taken => rows[entries[k]].status # "queued"

HandledAsked ==
  \A i \in DOMAIN log : log[i].new /\ i \in done => \E r \in RowsOf(i) : HasEntry(r)

BackfillInv == RowsBounded /\ RowsExplained /\ TakenMarked /\ HandledAsked

LEMMA RowEvent ==
  ASSUME TypeOK, NEW r \in DOMAIN rows
  PROVE  rows[r].event \in DOMAIN log /\ rows[r].event \in DOMAIN Occurrences
<1> DEFINE R == [guild : Guilds, event : DOMAIN log,
                 status : {"queued", "running", "completed", "failed"}]
<1>1. rows \in Seq(R) /\ DOMAIN rows = 1 .. Len(rows)
  BY DEF TypeOK
<1>2. rows[r] \in R
  BY <1>1, ElementOfSeq
<1> QED BY <1>2, LogType

LEMMA RowsFinite ==
  ASSUME TypeOK, NEW i
  PROVE  IsFiniteSet(RowsOf(i)) /\ Cardinality(RowsOf(i)) \in Nat
<1>1. DOMAIN rows = 1 .. Len(rows) /\ Len(rows) \in Nat
  BY DEF TypeOK
<1>2. IsFiniteSet(DOMAIN rows)
  BY <1>1, FS_Interval
<1> QED BY <1>2, FS_Subset, FS_CardinalityType DEF RowsOf

LEMMA FailureCounted ==
  ASSUME TypeOK, NEW i \in DOMAIN Occurrences
  PROVE  /\ failures[i] \in Nat
         /\ HandlerMoves => \/ failures'[i] = failures[i]
                            \/ failures'[i] = failures[i] + 1
         /\ Fails /\ hand = i => failures'[i] = failures[i] + 1
<1>1. failures \in [DOMAIN Occurrences -> Nat]
  BY DEF TypeOK
<1>2. ASSUME Fails
      PROVE  failures'[i] = IF hand = i THEN failures[i] + 1 ELSE failures[i]
  <2>1. failures' = [failures EXCEPT ![hand] = @ + 1]
    BY <1>2 DEF Fails
  <2> QED BY <1>1, <2>1
<1>3. Ends \/ (\E place : Proceeds(place)) => failures' = failures
  BY DEF Ends, Proceeds, streamVars
<1> QED BY <1>1, <1>2, <1>3 DEF HandlerMoves

\* What the handler's end of an attempt does to the counts.
LEMMA AttemptsGrow ==
  ASSUME TypeOK, OnePlace, HandlerMoves, NEW i \in DOMAIN log, at = "enqueue" => at' = "idle"
  PROVE  /\ Attempts(i) <= Attempts(i)' /\ Attempts(i) \in Nat /\ Attempts(i)' \in Nat
<1>1. i \in DOMAIN Occurrences /\ failures[i] \in Nat
  BY LogType DEF TypeOK
<1>2. CASE Fails
  <2>1. failures'[i] = IF hand = i THEN failures[i] + 1 ELSE failures[i]
    <3>1. failures' = [failures EXCEPT ![hand] = @ + 1]
      BY <1>2 DEF Fails
    <3>2. failures \in [DOMAIN Occurrences -> Nat]
      BY DEF TypeOK
    <3> QED BY <1>1, <3>1, <3>2
  <2>2. UNCHANGED <<done, lost>> /\ at' = "idle"
    BY <1>2 DEF Fails
  <2>3. hand = i => i \notin done \union lost
    BY DEF OnePlace
  <2> QED BY <1>1, <2>1, <2>2, <2>3 DEF Attempts, EnqueuingNow
<1>3. CASE Ends
  BY <1>1, <1>3 DEF Ends, Attempts, EnqueuingNow
<1>4. ASSUME NEW place \in {"refresh", "insert", "enqueue"}, Proceeds(place)
      PROVE  /\ Attempts(i) <= Attempts(i)' /\ Attempts(i) \in Nat /\ Attempts(i)' \in Nat
  <2>1. UNCHANGED <<failures, done, lost, hand>> /\ at # "enqueue"
    BY <1>4 DEF Proceeds, streamVars
  <2>2. i \in done \union lost => ~(hand = i)
    BY DEF OnePlace
  <2> QED BY <1>1, <2>1, <2>2 DEF Attempts, EnqueuingNow
<1> QED BY <1>2, <1>3, <1>4 DEF HandlerMoves

\* Steps of the handler that leave the jobs alone.
LEMMA BackfillHandler ==
  ASSUME TypeOK, TypeOK', OnePlace, BackfillInv, HandlerMoves, UNCHANGED <<log, rows, entries, taken>>,
         at \notin {"insert", "enqueue"} \/ Fails, at' # "enqueue",
         \A i \in done' \ done : ~log[i].new
  PROVE  BackfillInv'
<1>1. at = "enqueue" => at' = "idle"
  BY DEF Fails
<1>2. RowsBounded'
  <2> SUFFICES ASSUME NEW i \in DOMAIN log PROVE Cardinality(RowsOf(i)') <= Attempts(i)'
    BY DEF RowsBounded
  <2>1. RowsOf(i)' = RowsOf(i)
    BY DEF RowsOf
  <2>2. Cardinality(RowsOf(i)) <= Attempts(i)
    BY DEF BackfillInv, RowsBounded
  <2> QED BY <1>1, <2>1, <2>2, AttemptsGrow, RowsFinite
<1>3. \A i : HasEntry(i)' <=> HasEntry(i)
  BY DEF HasEntry
<1>4. RowsExplained'
  <2> SUFFICES ASSUME NEW r \in DOMAIN rows
               PROVE  \/ HasEntry(r)' \/ (EnqueuingNow(rows[r].event)' /\ r = Len(rows))
                      \/ failures'[rows[r].event] > 0 \/ rows[r].event \in lost'
    BY DEF RowsExplained
  <2> DEFINE i == rows[r].event
  <2>1. i \in DOMAIN log /\ i \in DOMAIN Occurrences
    BY RowEvent
  <2>2. lost' = lost
    BY DEF HandlerMoves, Fails, Ends, Proceeds, streamVars
  <2>4. failures[i] > 0 => failures'[i] > 0
    BY <2>1, FailureCounted
  <2>5. EnqueuingNow(i) => failures'[i] > 0
    BY <2>1, FailureCounted DEF EnqueuingNow
  <2> QED BY <1>3, <2>2, <2>4, <2>5 DEF BackfillInv, RowsExplained
<1>5. TakenMarked'
  BY DEF BackfillInv, TakenMarked
<1>6. HandledAsked'
  <2>1. \A i : RowsOf(i)' = RowsOf(i)
    BY DEF RowsOf
  <2> QED BY <1>3, <2>1 DEF BackfillInv, HandledAsked
<1> QED BY <1>2, <1>4, <1>5, <1>6 DEF BackfillInv

LEMMA BackfillInsert ==
  ASSUME TypeOK, OnePlace, BackfillInv, InsertJob
  PROVE  BackfillInv'
<1> DEFINE n == Len(rows) + 1
<1>1. /\ DOMAIN rows = 1 .. Len(rows) /\ Len(rows) \in Nat
      /\ Len(rows') = n /\ DOMAIN rows' = DOMAIN rows \union {n} /\ n \notin DOMAIN rows
      /\ rows'[n].event = hand
      /\ \A r \in DOMAIN rows : rows'[r] = rows[r]
  BY InsertJobType DEF Row
<1>2. /\ at = "insert" /\ UNCHANGED <<log, entries, taken, done, lost>>
      /\ HandlerMoves
      /\ Proceeds("enqueue") \/ Fails
  BY InsertJobType DEF InsertJob, Proceeds, Fails, streamVars
<1>3. hand \in DOMAIN log /\ hand \in DOMAIN Occurrences /\ failures[hand] \in Nat
  BY <1>2, HandType DEF TypeOK
<1>4. TypeOK'
  BY InsertJobType
<1>5. RowsBounded'
  <2> SUFFICES ASSUME NEW i \in DOMAIN log PROVE Cardinality(RowsOf(i)') <= Attempts(i)'
    BY <1>2 DEF RowsBounded
  <2>1. Cardinality(RowsOf(i)) <= Attempts(i) /\ Cardinality(RowsOf(i)) \in Nat
    BY RowsFinite DEF BackfillInv, RowsBounded
  <2>2. CASE hand # i
    <3>1. RowsOf(i)' = RowsOf(i)
      BY <1>1, <2>2 DEF RowsOf
    <3>2. Attempts(i) <= Attempts(i)' /\ Attempts(i) \in Nat /\ Attempts(i)' \in Nat
      BY <1>2, AttemptsGrow
    <3> QED BY <2>1, <3>1, <3>2
  <2>3. CASE hand = i
    <3>1. RowsOf(i)' = RowsOf(i) \union {n} /\ n \notin RowsOf(i)
      BY <1>1, <2>3 DEF RowsOf
    <3>2. Cardinality(RowsOf(i)') = Cardinality(RowsOf(i)) + 1
      BY <3>1, RowsFinite, FS_AddElement
    <3>3. Attempts(i) = failures[i]
      BY <1>2, <1>3, <2>3 DEF Attempts, EnqueuingNow, OnePlace
    <3>4. Attempts(i)' = failures[i] + 1
      <4>1. i \notin done \union lost
        BY <2>3 DEF OnePlace
      <4>2. CASE Fails
        <5>1. failures'[i] = failures[i] + 1 /\ at' = "idle"
          BY <1>3, <2>3, <4>2, FailureCounted DEF Fails
        <5> QED BY <1>2, <1>3, <2>3, <4>1, <5>1 DEF Attempts, EnqueuingNow
      <4>3. CASE Proceeds("enqueue")
        <5>1. failures' = failures /\ at' = "enqueue" /\ hand' = hand
          BY <4>3 DEF Proceeds, streamVars
        <5> QED BY <2>3, <5>1 DEF Attempts, EnqueuingNow
      <4> QED BY <1>2, <4>2, <4>3
    <3> QED BY <1>3, <2>1, <2>3, <3>2, <3>3, <3>4
  <2> QED BY <2>2, <2>3
<1>6. \A r : HasEntry(r)' <=> HasEntry(r)
  BY <1>2 DEF HasEntry
<1>7. RowsExplained'
  <2> SUFFICES ASSUME NEW r \in DOMAIN rows'
               PROVE  \/ HasEntry(r)' \/ (hand' = rows'[r].event /\ at' = "enqueue" /\ r = Len(rows'))
                      \/ failures'[rows'[r].event] > 0 \/ rows'[r].event \in lost'
    BY DEF RowsExplained, EnqueuingNow
  <2>1. CASE r \in DOMAIN rows
    <3> DEFINE i == rows[r].event
    <3>1. i \in DOMAIN log /\ i \in DOMAIN Occurrences
      BY <2>1, RowEvent
    <3>2. failures[i] \in Nat /\ (failures[i] > 0 => failures'[i] > 0)
      BY <1>2, <3>1, FailureCounted
    <3>3. ~EnqueuingNow(i)
      BY <1>2 DEF EnqueuingNow
    <3> QED BY <1>1, <1>2, <1>6, <2>1, <3>2, <3>3 DEF BackfillInv, RowsExplained
  <2>2. CASE r = n
    <3>1. CASE Fails
      BY <1>1, <1>3, <2>2, <3>1, FailureCounted
    <3>2. CASE Proceeds("enqueue")
      BY <1>1, <2>2, <3>2 DEF Proceeds, EnqueuingNow
    <3> QED BY <1>2, <3>1, <3>2
  <2> QED BY <1>1, <2>1, <2>2
<1>8. TakenMarked'
  <2>1. \A k \in DOMAIN entries : entries[k] \in DOMAIN rows
    BY DEF TypeOK
  <2> QED BY <1>1, <1>2, <2>1 DEF BackfillInv, TakenMarked
<1>9. HandledAsked'
  <2>1. \A i : RowsOf(i) \subseteq RowsOf(i)'
    BY <1>1 DEF RowsOf
  <2> QED BY <1>2, <1>6, <2>1 DEF BackfillInv, HandledAsked
<1> QED BY <1>5, <1>7, <1>8, <1>9 DEF BackfillInv

LEMMA BackfillEnqueue ==
  ASSUME TypeOK, RowLast, OnePlace, BackfillInv, Enqueue
  PROVE  BackfillInv'
<1> DEFINE n == Len(rows)
<1>1. /\ at = "enqueue" /\ HandlerMoves /\ UNCHANGED <<log, rows, taken>>
      /\ Ends \/ Fails
      /\ at' = "idle" /\ lost' = lost /\ done' \subseteq done \union {hand}
  BY EnqueueType DEF Enqueue, Ends, Fails
<1>2. n \in DOMAIN rows /\ rows[n].event = hand /\ entries' = Append(entries, n)
  BY <1>1, RowInHandLast DEF Enqueue, RowLast
<1>3. /\ DOMAIN entries = 1 .. Len(entries) /\ Len(entries) \in Nat
      /\ DOMAIN entries' = DOMAIN entries \union {Len(entries) + 1}
      /\ entries'[Len(entries) + 1] = n
      /\ \A k \in DOMAIN entries : entries'[k] = entries[k]
  BY <1>1, <1>2, AppendEntry
<1>4. \A r : HasEntry(r)' <=> HasEntry(r) \/ r = n
  BY <1>3 DEF HasEntry
<1>5. RowsBounded'
  <2> SUFFICES ASSUME NEW i \in DOMAIN log PROVE Cardinality(RowsOf(i)') <= Attempts(i)'
    BY <1>1 DEF RowsBounded
  <2>1. RowsOf(i)' = RowsOf(i) /\ Cardinality(RowsOf(i)) <= Attempts(i)
    BY <1>1 DEF RowsOf, BackfillInv, RowsBounded
  <2> QED BY <1>1, <2>1, AttemptsGrow, RowsFinite
<1>6. RowsExplained'
  <2> SUFFICES ASSUME NEW r \in DOMAIN rows, r # n
               PROVE  HasEntry(r)' \/ failures'[rows[r].event] > 0 \/ rows[r].event \in lost'
    BY <1>1, <1>4 DEF RowsExplained
  <2>1. \/ HasEntry(r) \/ failures[rows[r].event] > 0 \/ rows[r].event \in lost
    BY DEF BackfillInv, RowsExplained
  <2> QED BY <1>1, <1>4, <2>1, RowEvent, FailureCounted
<1>7. TakenMarked'
  <2>1. taken <= Len(entries) /\ taken \in Nat
    BY DEF TypeOK
  <2>2. \A k \in DOMAIN entries' : k <= taken' => k \in DOMAIN entries
    BY <1>1, <1>3, <2>1
  <2> QED BY <1>1, <1>3, <2>2 DEF BackfillInv, TakenMarked
<1>8. HandledAsked'
  <2>1. \A i : RowsOf(i)' = RowsOf(i)
    BY <1>1 DEF RowsOf
  <2>2. n \in RowsOf(hand)
    BY <1>2 DEF RowsOf
  <2> QED BY <1>1, <1>4, <2>1, <2>2 DEF BackfillInv, HandledAsked
<1> QED BY <1>5, <1>6, <1>7, <1>8 DEF BackfillInv

\* Steps that only mark rows, or append to the stream the entry of one marked:
\* what is marked is not queued.
LEMMA BackfillMarks ==
  ASSUME TypeOK, BackfillInv, NEW m \in DOMAIN rows, NEW status \in {"running", "completed", "failed"},
         SetStatus(m, status), UNCHANGED <<log, streamVars, handlerVars>>,
         entries' = entries \/ entries' = Append(entries, m),
         taken' = taken \/ (taken' = taken + 1 /\ m = entries[taken + 1] /\ taken + 1 \in DOMAIN entries)
  PROVE  BackfillInv'
<1>1. /\ DOMAIN rows' = DOMAIN rows /\ Len(rows') = Len(rows)
      /\ \A r \in DOMAIN rows : rows'[r].event = rows[r].event
      /\ \A r \in DOMAIN rows : rows'[r].status = IF r = m THEN status ELSE rows[r].status
  BY SetStatusType
<1>2. /\ DOMAIN entries = 1 .. Len(entries) /\ Len(entries) \in Nat /\ taken \in 0 .. Len(entries)
      /\ \A k \in DOMAIN entries : entries[k] \in DOMAIN rows
  <2>1. entries \in Seq(DOMAIN rows) /\ taken \in 0 .. Len(entries)
    BY DEF TypeOK
  <2> QED BY <2>1
<1>3. /\ DOMAIN entries \subseteq DOMAIN entries'
      /\ \A k \in DOMAIN entries : entries'[k] = entries[k]
      /\ \A k \in DOMAIN entries' \ DOMAIN entries : entries'[k] = m
  <2>1. CASE entries' = Append(entries, m)
    <3>1. entries \in Seq(DOMAIN rows)
      BY DEF TypeOK
    <3> QED BY <2>1, <3>1
  <2> QED BY <2>1
<1>4. \A r : HasEntry(r) => HasEntry(r)'
  BY <1>3 DEF HasEntry
<1>5. \A i : RowsOf(i)' = RowsOf(i)
  BY <1>1 DEF RowsOf
<1>6. \A i : Attempts(i)' = Attempts(i) /\ (EnqueuingNow(i)' <=> EnqueuingNow(i))
  BY DEF Attempts, EnqueuingNow, streamVars, handlerVars
<1>7. RowsBounded'
  BY <1>5, <1>6 DEF BackfillInv, RowsBounded
<1>8. RowsExplained'
  BY <1>1, <1>4, <1>6 DEF BackfillInv, RowsExplained, EnqueuingNow, streamVars, handlerVars
<1>9. TakenMarked'
  <2> SUFFICES ASSUME NEW k \in DOMAIN entries', k <= taken' PROVE rows'[entries'[k]].status # "queued"
    BY DEF TakenMarked
  <2>1. CASE entries'[k] = m
    BY <1>1, <2>1
  <2>2. CASE entries'[k] # m
    <3>1. k \in DOMAIN entries /\ entries'[k] = entries[k]
      BY <1>3, <2>2
    <3>2. k <= taken
      BY <1>2, <2>2, <3>1
    <3> QED BY <1>1, <1>2, <2>2, <3>1, <3>2 DEF BackfillInv, TakenMarked
  <2> QED BY <2>1, <2>2
<1>10. HandledAsked'
  BY <1>4, <1>5 DEF BackfillInv, HandledAsked, streamVars
<1> QED BY <1>7, <1>8, <1>9, <1>10 DEF BackfillInv

\* Steps that leave the jobs alone and end no attempt but by losing it.
LEMMA BackfillQuiet ==
  ASSUME TypeOK, BackfillInv, UNCHANGED <<log, rows, entries, taken, failures, done>>,
         lost \subseteq lost',
         \A i \in DOMAIN log : EnqueuingNow(i) => EnqueuingNow(i)' \/ i \in lost'
  PROVE  BackfillInv'
<1>1. \A i : RowsOf(i)' = RowsOf(i) /\ (HasEntry(i)' <=> HasEntry(i))
  BY DEF RowsOf, HasEntry
<1>2. ASSUME NEW i \in DOMAIN log PROVE Attempts(i) <= Attempts(i)' /\ Attempts(i)' \in Nat
  <2>1. failures[i] \in Nat
    BY LogType, FailureCounted
  <2> QED BY <2>1 DEF Attempts
<1>3. RowsBounded'
  <2> SUFFICES ASSUME NEW i \in DOMAIN log PROVE Cardinality(RowsOf(i)') <= Attempts(i)'
    BY DEF RowsBounded
  <2>1. Cardinality(RowsOf(i)) <= Attempts(i) /\ Cardinality(RowsOf(i)) \in Nat
    BY RowsFinite DEF BackfillInv, RowsBounded
  <2>2. Attempts(i) \in Nat
    BY LogType, FailureCounted DEF Attempts
  <2> QED BY <1>1, <1>2, <2>1, <2>2
<1>4. RowsExplained'
  <2> SUFFICES ASSUME NEW r \in DOMAIN rows
               PROVE  \/ HasEntry(r)' \/ (EnqueuingNow(rows[r].event)' /\ r = Len(rows))
                      \/ failures[rows[r].event] > 0 \/ rows[r].event \in lost'
    BY DEF RowsExplained
  <2> QED BY <1>1, RowEvent DEF BackfillInv, RowsExplained
<1>5. TakenMarked' /\ HandledAsked'
  BY <1>1 DEF BackfillInv, TakenMarked, HandledAsked
<1> QED BY <1>3, <1>4, <1>5 DEF BackfillInv

LEMMA BackfillHappens ==
  ASSUME TypeOK, BackfillInv, Len(log) < Len(Occurrences),
         NEW e \in Occurrences[Len(log) + 1], Happens(e)
  PROVE  BackfillInv'
<1> DEFINE n == Len(log) + 1
<1>1. /\ \A i \in DOMAIN log : log'[i] = log[i]
      /\ DOMAIN log' = DOMAIN log \union {n} /\ n \notin DOMAIN log
      /\ n \in DOMAIN Occurrences
  <2>1. n \in 1 .. Len(Occurrences) /\ DOMAIN Occurrences = 1 .. Len(Occurrences)
    BY LogType, InventoryAssumption
  <2>2. /\ \A i \in DOMAIN log : log'[i] = log[i]
        /\ DOMAIN log' = DOMAIN log \union {n} /\ n \notin DOMAIN log
    BY HappensType
  <2> QED BY <2>1, <2>2
<1>2. UNCHANGED <<rows, entries, taken, failures, done, lost, hand, at>>
  BY DEF Happens, jobVars, handlerVars
<1>3. \A i : RowsOf(i)' = RowsOf(i) /\ (HasEntry(i)' <=> HasEntry(i))
             /\ (EnqueuingNow(i)' <=> EnqueuingNow(i))
  BY <1>2 DEF RowsOf, HasEntry, EnqueuingNow
<1>4. RowsBounded'
  <2>1. RowsOf(n) = {}
    BY <1>1, RowEvent DEF RowsOf
  <2>2. Cardinality(RowsOf(n)) = 0 /\ failures[n] \in Nat
    BY <1>1, <2>1, FS_EmptySet, FailureCounted
  <2>3. \A i : Attempts(i)' = Attempts(i)
    BY <1>2, <1>3 DEF Attempts
  <2>4. Cardinality(RowsOf(n)) <= Attempts(n)
    BY <2>2 DEF Attempts
  <2> QED BY <1>1, <1>3, <2>3, <2>4 DEF BackfillInv, RowsBounded
<1>5. RowsExplained' /\ TakenMarked'
  BY <1>2, <1>3 DEF BackfillInv, RowsExplained, TakenMarked, EnqueuingNow
<1>6. HandledAsked'
  <2>1. n \notin done
    BY <1>1 DEF TypeOK
  <2> QED BY <1>1, <1>2, <1>3, <2>1 DEF BackfillInv, HandledAsked
<1> QED BY <1>4, <1>5, <1>6 DEF BackfillInv

LEMMA BackfillStep ==
  ASSUME TypeOK, RowLast, OnePlace, BackfillInv, [Next]_vars
  PROVE  BackfillInv'
<1>1. ASSUME NEW i, Publish(i) \/ Retry(i) PROVE BackfillInv'
  BY <1>1, BackfillQuiet DEF Publish, Retry, handlerVars, jobVars, EnqueuingNow
<1>2. CASE Begin
  BY <1>2, BackfillQuiet DEF Begin, jobVars, EnqueuingNow
<1>3. CASE Upsert
  <2>1. UNCHANGED <<log, rows, entries, taken, done>> /\ at = "upsert" /\ at' # "enqueue"
    BY <1>3 DEF Upsert, Proceeds, Fails, jobVars, streamVars
  <2> QED BY <1>3, <2>1, UpsertType, BackfillHandler
<1>4. CASE Refresh
  <2>1. /\ UNCHANGED <<log, rows, entries, taken>> /\ at = "refresh" /\ at' # "enqueue"
        /\ done' = done \/ (done' = done \union {hand} /\ ~Event.new)
    BY <1>4 DEF Refresh, Proceeds, Ends, Fails, jobVars, streamVars
  <2>2. \A i \in done' \ done : ~log[i].new
    BY <2>1 DEF Event
  <2> QED BY <1>4, <2>1, <2>2, RefreshType, BackfillHandler
<1>5. CASE StatementFails
  <2>1. UNCHANGED <<log, rows, entries, taken, done>> /\ Fails /\ at' = "idle"
    BY <1>5 DEF StatementFails, Fails, jobVars
  <2> QED BY <1>5, <2>1, StatementFailsType, BackfillHandler
<1>6. CASE StartJob
  <2>1. /\ job' \in DOMAIN rows /\ taken + 1 \in DOMAIN entries
        /\ job' = entries[taken + 1] /\ SetStatus(job', "running")
        /\ taken' = taken + 1 /\ UNCHANGED <<log, streamVars, handlerVars, entries>>
    BY <1>6, StartJobType DEF StartJob
  <2>2. PICK m \in DOMAIN rows : m = job'
    BY <2>1
  <2>3. SetStatus(m, "running") /\ m = entries[taken + 1]
    BY <2>1, <2>2 DEF SetStatus
  <2> QED BY <2>1, <2>3, BackfillMarks
<1>7. CASE CompleteJob \/ JobFails
  <2>1. PICK status \in {"running", "completed", "failed"} :
          /\ job \in DOMAIN rows /\ SetStatus(job, status) /\ taken' = taken
          /\ entries' = entries \/ entries' = Append(entries, job)
          /\ UNCHANGED <<log, streamVars, handlerVars>>
    BY <1>7, CompleteJobType, JobFailsType DEF CompleteJob, JobFails
  <2>2. PICK m \in DOMAIN rows : m = job
    BY <2>1
  <2> QED BY <2>1, <2>2, BackfillMarks
<1>8. CASE JobSums \/ JobWrites
  BY <1>8, BackfillQuiet DEF JobSums, JobWrites, streamVars, handlerVars, EnqueuingNow
<1>9. CASE Crash
  <2>1. /\ lost' = lost \union ({hand} \ {0})
        /\ UNCHANGED <<log, rows, entries, taken, failures, done>>
    BY <1>9 DEF Crash
  <2>2. \A i \in DOMAIN log : i # 0
    BY LogType
  <2> QED BY <2>1, <2>2, BackfillQuiet DEF EnqueuingNow
<1>10. CASE UNCHANGED vars
  BY <1>10, BackfillQuiet DEF vars, streamVars, handlerVars, jobVars, EnqueuingNow
<1> QED BY <1>1, <1>2, <1>3, <1>4, <1>5, <1>6, <1>7, <1>8, <1>9, <1>10, BackfillHappens,
           BackfillInsert, BackfillEnqueue DEF Next, Handle, RunJob

LEMMA BackfillInvTrue ==
  ASSUME TypeOK, BackfillInv
  PROVE  InstallsBackfilled
<1>1. /\ DOMAIN entries = 1 .. Len(entries) /\ Len(entries) \in Nat /\ taken \in 0 .. Len(entries)
  <2>1. entries \in Seq(DOMAIN rows) /\ taken \in 0 .. Len(entries)
    BY DEF TypeOK
  <2> QED BY <2>1
<1>2. \A r : HasEntry(r) <=> r \in Range(entries)
  BY DEF HasEntry, Range
<1>3. ASSUME NEW i \in DOMAIN log, log[i].new
      PROVE  /\ i \in done => \E r \in RowsOf(i) : r \in Range(entries)
             /\ Cardinality(RowsOf(i)) <= failures[i] + 1
  <2>1. i \in done => \E r \in RowsOf(i) : r \in Range(entries)
    BY <1>2, <1>3 DEF BackfillInv, HandledAsked
  <2>2. Cardinality(RowsOf(i)) <= Attempts(i) /\ Cardinality(RowsOf(i)) \in Nat
    BY RowsFinite DEF BackfillInv, RowsBounded
  <2>3. failures[i] \in Nat
    BY LogType, FailureCounted
  <2>4. Attempts(i) <= failures[i] + 1 /\ Attempts(i) \in Nat
    BY <2>3 DEF Attempts
  <2> QED BY <2>1, <2>2, <2>3, <2>4
<1>4. ASSUME NEW r \in DOMAIN rows, rows[r].status = "queued"
      PROVE  \/ r \in Range(SubSeq(entries, taken + 1, Len(entries)))
             \/ r \notin Range(entries) /\ Enqueuing(r)
  <2>1. CASE HasEntry(r)
    <3>1. PICK k \in DOMAIN entries : entries[k] = r
      BY <2>1 DEF HasEntry
    <3>2. k > taken
      BY <1>1, <1>4, <3>1 DEF BackfillInv, TakenMarked
    <3> DEFINE rest == SubSeq(entries, taken + 1, Len(entries))
    <3>3. /\ Len(rest) = Len(entries) - taken
          /\ \A j \in 1 .. Len(entries) - taken : rest[j] = entries[taken + j]
          /\ DOMAIN rest = 1 .. Len(rest)
      <4>1. \A j \in taken + 1 .. Len(entries) : entries[j] \in DOMAIN rows
        <5>1. entries \in Seq(DOMAIN rows)
          BY DEF TypeOK
        <5> QED BY <1>1, <5>1
      <4>2. taken + 1 \in Int /\ Len(entries) \in Int
        BY <1>1
      <4>3. /\ rest \in Seq(DOMAIN rows)
            /\ Len(rest) = IF taken + 1 <= Len(entries) THEN Len(entries) - (taken + 1) + 1 ELSE 0
            /\ \A j \in 1 .. Len(entries) - (taken + 1) + 1 : rest[j] = entries[taken + 1 + j - 1]
        BY <4>1, <4>2, SubSeqProperties
      <4> HIDE DEF rest
      <4>4. Len(rest) = Len(entries) - taken
        <5>1. taken + 1 <= Len(entries)
          BY <1>1, <3>1, <3>2
        <5> QED BY <1>1, <4>3, <5>1
      <4>5. \A j \in 1 .. Len(entries) - taken : rest[j] = entries[taken + j]
        <5> SUFFICES ASSUME NEW j \in 1 .. Len(entries) - taken PROVE rest[j] = entries[taken + j]
          OBVIOUS
        <5>1. taken + 1 + j - 1 = taken + j /\ j \in 1 .. Len(entries) - (taken + 1) + 1
          BY <1>1
        <5> QED BY <4>3, <5>1
      <4> QED BY <4>3, <4>4, <4>5
    <3> HIDE DEF rest
    <3>4. k - taken \in DOMAIN rest /\ rest[k - taken] = r
      BY <1>1, <3>1, <3>2, <3>3
    <3> QED BY <3>4 DEF Range, rest
  <2>2. CASE ~HasEntry(r)
    BY <1>2, <2>2 DEF BackfillInv, RowsExplained, EnqueuingNow, Enqueuing
  <2> QED BY <2>1, <2>2
<1> QED BY <1>3, <1>4 DEF InstallsBackfilled

\* A new guild's messages are asked for before its event is acknowledged, once
\* but for attempts that failed, and a job that waits is in the stream unless
\* its handler broke off between the row and the entry.
THEOREM InstallsBackfilledHolds == Spec => []InstallsBackfilled
<1>1. Init => BackfillInv
  BY DEF Init, BackfillInv, RowsBounded, RowsExplained, TakenMarked, HandledAsked
<1>2. TypeOK /\ RowLast /\ OnePlace /\ BackfillInv /\ [Next]_vars => BackfillInv'
  BY BackfillStep
<1>3. TypeOK /\ BackfillInv => InstallsBackfilled
  BY BackfillInvTrue
<1> QED BY <1>1, <1>2, <1>3, PlaceInvariant, PTL DEF Spec

-----------------------------------------------------------------------------
(* The site.                                                                *)

\* Visitors and the API's task only read: what they do is a stutter of the
\* inventory, which keeps its properties under them.
THEOREM SiteImplementsInventory == SiteSpec => Spec
<1>1. SiteInit => Init
  BY DEF SiteInit
<1>2. [SiteNext]_siteAndVars => [Next]_vars
  BY DEF SiteNext, siteAndVars, Tick, Connect, Subscribe, Show, Leave
<1> QED BY <1>1, <1>2, PTL DEF SiteSpec, Spec

THEOREM SiteSafety == SiteSpec => [](InventoryTrue /\ StatsTrue /\ InstallsBackfilled)
BY SiteImplementsInventory, InventoryTrueHolds, StatsTrueHolds, InstallsBackfilledHolds, PTL
=============================================================================
