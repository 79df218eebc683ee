---------------------------- MODULE MessageProofs ----------------------------
(***************************************************************************)
(* Proofs about MessageIndexing, for any messages, channels, scope, page   *)
(* size, number of concurrent tasks and faults.                            *)
(***************************************************************************)
EXTENDS MessageIndexing, FiniteSetTheorems, SequenceTheorems, WellFoundedInduction, TLAPS

-----------------------------------------------------------------------------
(* Types.                                                                   *)

Keys == {"global", "guild"} \union Channels \union {m.author : m \in Messages}
Cells == Tables \X Keys \X Nat
Stats == <<"public_stats_cache", "global", 0>>

\* The tables in the order in which a handler counts, and how many it counts.
TableAt ==
  <<"public_stats_cache", "guild_daily_activity", "guild_summary_daily",
    "member_daily_activity", "channel_daily_activity", "channel_health_daily">>
CellAt(k, m) == CellOf(TableAt[k], m)
Steps(m) == IF m.bot THEN 3 ELSE 6

\* The handler of m is at step k: 0 to index it, 7 to write what step 6 read.
Stage(h, l, m, k) ==
  /\ h = {m}
  /\ \/ k = 0 /\ l = <<Do("index", m)>>
     \/ /\ k \in 1 .. Steps(m)
        /\ l \in Seq(Range(Aggregates(m))) /\ Len(l) = Steps(m) - k + 1
        /\ \A i \in 1 .. Len(l) : l[i] = Aggregates(m)[k - 1 + i]
     \/ /\ k = 7 /\ ~m.bot
        /\ \E n \in Nat \ {0} : l = <<Do("write", Row(CellOf("channel_health_daily", m), n))>>

HandlerOK ==
  \/ handling = {} /\ left = << >>
  \/ \E m \in raw, k \in 0 .. 7 : Stage(handling, left, m, k) /\ (k # 0 => m \in index)

StreamsOK ==
  /\ raw \subseteq sent /\ sent \subseteq Messages /\ index \subseteq sent
  /\ queue \in Seq(raw)

CountsOK == IsABag(counts) /\ DOMAIN counts \subseteq Cells

\* A job that is in the stream, or runs, has been asked for.
JobOK ==
  /\ job \in [status : {"none", "queued", "running", "completed", "failed"}, waiting : BOOLEAN,
              phase : {"idle", "channels", "rebuild", "lost", "buried", "stopped", "panicked"},
              attempts : 0 .. MaxRetries]
  /\ job.waiting => job.phase \in {"idle", "stopped"}
  /\ job.status = "none" => ~job.waiting /\ job.phase \in {"idle", "stopped"}

Tasks == [at : {"todo", "page", "hung", "count", "done"}, cursor : Nat, new : Nat]

TaskOK ==
  /\ task \in [Channels -> Tasks]
  /\ \A c \in Channels : task[c].at = "count" <=> task[c].new # 0
  /\ Cardinality(InFlight) <= Concurrency

RebuildStatements == [op : {"delete", "insert", "recount"}, arg : Tables]

\* What is left of the rebuild when its first k statements are done.
DoneRebuild(r, k) ==
  /\ r \in Seq(RebuildStatements)
  /\ Len(r) = 11 - k
  /\ \A i \in 1 .. 11 - k : r[i] = Rebuild[k + i]

RebuildOK ==
  /\ \E k \in 0 .. 11 : DoneRebuild(rebuild, k)
  /\ rebuild # << >> => Rebuilding

TypeInv ==
  /\ StreamsOK /\ HandlerOK /\ CountsOK /\ JobOK /\ TaskOK /\ RebuildOK
  /\ raced \in BOOLEAN /\ faultCount \in 0 .. MaxFaults

-----------------------------------------------------------------------------
(* Cells, counters and days.                                                *)

LEMMA DayType == \A t \in Nat : Day(t) \in Nat
BY DEF Day, PerDay

LEMMA DayOrder == \A s, t \in Nat : s <= t => Day(s) <= Day(t)
BY DEF Day, PerDay

LEMMA TableNames ==
  /\ GuildTables \subseteq Tables /\ HumanTables \subseteq Tables
  /\ "public_stats_cache" \in Tables
  /\ "public_stats_cache" \notin GuildTables \union HumanTables
  /\ GuildTables \intersect HumanTables = {}
  /\ \A t \in Tables : t = "public_stats_cache" \/ t \in GuildTables \/ t \in HumanTables
BY DEF Tables, GuildTables, HumanTables

LEMMA CellIs ==
  ASSUME NEW m
  PROVE  /\ CellOf("public_stats_cache", m) = Stats
         /\ \A t \in GuildTables : CellOf(t, m) = <<t, "guild", Day(m.at)>>
         /\ CellOf("member_daily_activity", m) = <<"member_daily_activity", m.author, Day(m.at)>>
         /\ \A t \in {"channel_daily_activity", "channel_health_daily"} :
              CellOf(t, m) = <<t, m.channel, Day(m.at)>>
BY DEF CellOf, KeyOf, GuildTables, Stats

LEMMA CellTypes ==
  ASSUME NEW m \in Messages, NEW t \in Tables
  PROVE  CellOf(t, m) \in Cells /\ CellOf(t, m)[1] = t
<1>1. m.at \in Nat /\ Day(m.at) \in Nat /\ 0 \in Nat
  BY IndexingAssumption, DayType
<1>2. KeyOf(m)[t] \in Keys
  BY IndexingAssumption DEF Keys, KeyOf, Tables, GuildTables, HumanTables
<1> QED BY <1>1, <1>2 DEF Cells, CellOf

\* The messages that a cell counts.
Of(cell, messages) == {m \in Counted(cell[1], messages) : CellOf(cell[1], m) = cell}

LEMMA CountedSubset == \A t, messages : Counted(t, messages) \subseteq messages
BY DEF Counted

\* What a set of messages counts for is finite, and nothing only if it is empty.
LEMMA Counting ==
  ASSUME NEW S, S \subseteq Messages
  PROVE  /\ IsFiniteSet(S) /\ Cardinality(S) \in Nat
         /\ Cardinality(S) = 0 <=> S = {}
<1>1. IsFiniteSet(Messages) /\ S \in SUBSET Messages
  BY IndexingAssumption
<1>2. IsFiniteSet(S)
  BY <1>1, FS_Subset
<1> QED BY <1>2, FS_CardinalityType, FS_EmptySet

LEMMA CountOfValues ==
  ASSUME NEW t \in Tables, NEW messages \in SUBSET Messages
  PROVE  /\ IsABag(CountOf(t, messages))
         /\ DOMAIN CountOf(t, messages) = {CellOf(t, m) : m \in Counted(t, messages)}
         /\ DOMAIN CountOf(t, messages) \subseteq Cells
         /\ \A cell : cell[1] = t =>
              Copies(cell, CountOf(t, messages)) = Cardinality(Of(cell, messages))
         /\ \A cell \in DOMAIN CountOf(t, messages) :
              cell[1] = t /\ CountOf(t, messages)[cell] = Cardinality(Of(cell, messages))
<1> DEFINE D == {CellOf(t, m) : m \in Counted(t, messages)}
<1>1. CountOf(t, messages) =
        [cell \in D |-> Cardinality({m \in Counted(t, messages) : CellOf(t, m) = cell})]
  BY DEF CountOf
<1>2. Counted(t, messages) \subseteq Messages
  BY CountedSubset
<1>3. \A cell \in D : cell[1] = t /\ cell \in Cells
  BY <1>2, CellTypes
<1>4. ASSUME NEW cell, cell[1] = t
      PROVE  /\ Of(cell, messages) = {m \in Counted(t, messages) : CellOf(t, m) = cell}
             /\ Of(cell, messages) \subseteq Messages
             /\ Of(cell, messages) # {} <=> cell \in D
  BY <1>2, <1>4 DEF Of
<1> HIDE DEF D
<1>5. /\ DOMAIN CountOf(t, messages) = D
      /\ \A cell \in D : CountOf(t, messages)[cell] = Cardinality(Of(cell, messages))
  BY <1>1, <1>3, <1>4
<1>6. ASSUME NEW cell, cell[1] = t
      PROVE  /\ Cardinality(Of(cell, messages)) \in Nat
             /\ Cardinality(Of(cell, messages)) # 0 <=> cell \in D
  BY <1>4, <1>6, Counting
<1>7. \A cell \in D : CountOf(t, messages)[cell] \in {n \in Nat : n > 0}
  BY <1>3, <1>5, <1>6
<1>8. IsABag(CountOf(t, messages))
  <2>1. CountOf(t, messages) = [cell \in D |-> CountOf(t, messages)[cell]]
    BY <1>1, <1>5
  <2> QED BY <1>5, <1>7, <2>1 DEF IsABag
<1> QED BY <1>3, <1>5, <1>6, <1>8 DEF Copies, D

LEMMA WrittenBag ==
  ASSUME NEW A, NEW B, IsABag(A), IsABag(B)
  PROVE  /\ IsABag(Written(A, B)) /\ DOMAIN Written(A, B) = DOMAIN A \union DOMAIN B
         /\ \A cell : Copies(cell, Written(A, B)) =
              IF cell \in DOMAIN A THEN A[cell] ELSE Copies(cell, B)
BY DEF Written, IsABag, Copies

LEMMA AddedBag ==
  ASSUME NEW A, NEW B, IsABag(A), IsABag(B)
  PROVE  /\ IsABag(A (+) B) /\ DOMAIN (A (+) B) = DOMAIN A \union DOMAIN B
         /\ \A cell : Copies(cell, A (+) B) = Copies(cell, A) + Copies(cell, B)
BY DEF (+), IsABag, Copies

LEMMA RowBag ==
  ASSUME NEW cell, NEW n \in Nat \ {0}
  PROVE  IsABag(Row(cell, n)) /\ DOMAIN Row(cell, n) = {cell}
BY DEF Row, IsABag

LEMMA RowCopies ==
  ASSUME NEW cell, NEW n \in Nat \ {0}, NEW c
  PROVE  Copies(c, Row(cell, n)) = IF c = cell THEN n ELSE 0
BY DEF Row, Copies

LEMMA OneBag ==
  ASSUME NEW cell
  PROVE  /\ IsABag(SetToBag({cell})) /\ DOMAIN SetToBag({cell}) = {cell}
         /\ SetToBag({cell})[cell] = 1
BY DEF SetToBag, IsABag

LEMMA CopiesType ==
  ASSUME NEW B, IsABag(B), NEW cell
  PROVE  /\ Copies(cell, B) \in Nat
         /\ Copies(cell, B) > 0 <=> cell \in DOMAIN B
BY DEF Copies, IsABag

-----------------------------------------------------------------------------
(* The handler.                                                             *)

\* What a handler has left, as far as it is still to be counted.
Owed(m, k) ==
  IF k = 0 THEN {} ELSE IF k = 7 THEN {"channel_health_daily"}
  ELSE {TableAt[j] : j \in k .. Steps(m)}

LEMMA AggregatesAre ==
  ASSUME NEW m \in Messages
  PROVE  /\ Len(Aggregates(m)) = Steps(m) /\ Steps(m) \in {3, 6}
         /\ Aggregates(m) \in Seq(Range(Aggregates(m)))
         /\ \A j \in 1 .. Steps(m) :
              /\ Aggregates(m)[j] = Do(IF j = 6 THEN "read" ELSE "count", CellAt(j, m))
              /\ TableAt[j] \in Tables
              /\ m \in Counted(TableAt[j], {m})
<1>1. m.bot \in BOOLEAN
  BY IndexingAssumption
<1>2. CASE m.bot
  <2>1. /\ Aggregates(m) =
             <<Do("count", CellAt(1, m)), Do("count", CellAt(2, m)),
               Do("count", CellAt(3, m))>>
        /\ Steps(m) = 3
    BY <1>2 DEF Aggregates, CellAt, TableAt, Steps
  <2>2. \A j \in 1 .. 3 : TableAt[j] \in Tables /\ m \in Counted(TableAt[j], {m})
    BY <1>2 DEF TableAt, Tables, GuildTables, HumanTables, Counted
  <2> QED BY <2>1, <2>2 DEF Range
<1>3. CASE ~m.bot
  <2> DEFINE A == <<Do("count", CellAt(1, m)), Do("count", CellAt(2, m)),
                    Do("count", CellAt(3, m))>>
             B == <<Do("count", CellAt(4, m)), Do("count", CellAt(5, m)),
                    Do("read", CellAt(6, m))>>
  <2>1. Aggregates(m) = A \o B
    BY <1>3 DEF Aggregates, CellAt, TableAt
  <2>2. Len(A) = 3 /\ Len(B) = 3 /\ Steps(m) = 6
    BY <1>3 DEF Steps
  <2>3. \A j \in 1 .. 3 : A[j] = Do("count", CellAt(j, m))
    OBVIOUS
  <2>4. \A j \in 1 .. 3 : B[j] = Do(IF j = 3 THEN "read" ELSE "count", CellAt(j + 3, m))
    OBVIOUS
  <2>5. \A j \in 1 .. 6 : TableAt[j] \in Tables /\ m \in Counted(TableAt[j], {m})
    BY <1>3 DEF TableAt, Tables, GuildTables, HumanTables, Counted
  <2> DEFINE S == {Do(op, CellAt(j, m)) : op \in {"count", "read"}, j \in 1 .. 6}
  <2>6. A \in Seq(S) /\ B \in Seq(S)
    OBVIOUS
  <2> HIDE DEF A, B, S
  <2>7. /\ Len(A \o B) = 6
        /\ \A j \in 1 .. 6 : (A \o B)[j] = IF j <= 3 THEN A[j] ELSE B[j - 3]
        /\ A \o B \in Seq(S) /\ A \o B = [j \in 1 .. 6 |-> (A \o B)[j]]
    <3>1. /\ A \o B \in Seq(S) /\ Len(A \o B) = Len(A) + Len(B)
          /\ \A j \in 1 .. Len(A) + Len(B) : (A \o B)[j] = IF j <= Len(A) THEN A[j] ELSE B[j - Len(A)]
      BY <2>6, ConcatProperties
    <3>2. Len(A \o B) = 6 /\ \A j \in 1 .. 6 : (A \o B)[j] = IF j <= 3 THEN A[j] ELSE B[j - 3]
      BY <2>2, <3>1
    <3>3. \A seq \in Seq(S) : seq = [j \in 1 .. Len(seq) |-> seq[j]]
      OBVIOUS
    <3> QED BY <3>1, <3>2, <3>3
  <2>8. \A j \in 1 .. 6 : Aggregates(m)[j] = Do(IF j = 6 THEN "read" ELSE "count", CellAt(j, m))
    <3> SUFFICES ASSUME NEW j \in 1 .. 6
                 PROVE  Aggregates(m)[j] = Do(IF j = 6 THEN "read" ELSE "count", CellAt(j, m))
      OBVIOUS
    <3>1. CASE j \in 1 .. 3
      BY <2>1, <2>3, <2>7, <3>1
    <3>2. CASE j \in 4 .. 6
      <4>1. j - 3 \in 1 .. 3 /\ (j - 3) + 3 = j /\ (j - 3 = 3 <=> j = 6) /\ ~(j <= 3)
        BY <3>2
      <4>2. Aggregates(m)[j] = B[j - 3]
        BY <2>1, <2>7, <4>1, <3>2
      <4>3. B[j - 3] = Do(IF j - 3 = 3 THEN "read" ELSE "count", CellAt((j - 3) + 3, m))
        BY <2>4, <4>1
      <4> QED BY <4>1, <4>2, <4>3
    <3> QED BY <3>1, <3>2
  <2>9. Aggregates(m) \in Seq(Range(Aggregates(m)))
    BY <2>1, <2>7 DEF Range
  <2> QED BY <2>1, <2>2, <2>5, <2>7, <2>8, <2>9
<1> QED BY <1>1, <1>2, <1>3

LEMMA OwedAre ==
  ASSUME NEW m \in Messages
  PROVE  /\ Owed(m, 0) = {}
         /\ Owed(m, 1) = {t \in Tables : m \in Counted(t, {m})}
         /\ \A k \in 0 .. 6 : Owed(m, k) \subseteq Owed(m, 1)
         /\ \A k \in 0 .. 7 : Owed(m, k) \subseteq Tables
         /\ \A k \in 1 .. Steps(m) : TableAt[k] \in Owed(m, k)
         /\ \A k \in 1 .. Steps(m) - 1 : Owed(m, k + 1) = Owed(m, k) \ {TableAt[k]}
         /\ Steps(m) = 3 => Owed(m, 3) = {TableAt[3]}
         /\ Steps(m) = 6 => Owed(m, 6) = {"channel_health_daily"} /\ Owed(m, 7) = Owed(m, 6)
         /\ Steps(m) = 6 <=> ~m.bot
<1>1. m.bot \in BOOLEAN /\ (Steps(m) = IF m.bot THEN 3 ELSE 6)
  BY IndexingAssumption DEF Steps
<1>2. CASE m.bot
  <2> USE <1>2
  <2>1. /\ Steps(m) = 3 /\ Owed(m, 0) = {}
        /\ Owed(m, 1) = {"public_stats_cache", "guild_daily_activity", "guild_summary_daily"}
        /\ Owed(m, 2) = {"guild_daily_activity", "guild_summary_daily"}
        /\ Owed(m, 3) = {"guild_summary_daily"}
        /\ Owed(m, 4) = {} /\ Owed(m, 5) = {} /\ Owed(m, 6) = {}
        /\ Owed(m, 7) = {"channel_health_daily"}
    BY <1>1 DEF Owed, TableAt
  <2>2. {t \in Tables : m \in Counted(t, {m})} =
          {"public_stats_cache", "guild_daily_activity", "guild_summary_daily"}
    BY DEF Tables, GuildTables, HumanTables, Counted
  <2>3. Owed(m, 1) \subseteq Tables /\ Owed(m, 7) \subseteq Tables
    BY <2>1, <2>2 DEF Tables, HumanTables
  <2> QED BY <2>1, <2>2, <2>3 DEF TableAt
<1>3. CASE ~m.bot
  <2> USE <1>3
  <2>1. /\ Steps(m) = 6 /\ Owed(m, 0) = {}
        /\ Owed(m, 1) = {"public_stats_cache", "guild_daily_activity", "guild_summary_daily",
                         "member_daily_activity", "channel_daily_activity", "channel_health_daily"}
        /\ Owed(m, 2) = {"guild_daily_activity", "guild_summary_daily",
                         "member_daily_activity", "channel_daily_activity", "channel_health_daily"}
        /\ Owed(m, 3) = {"guild_summary_daily",
                         "member_daily_activity", "channel_daily_activity", "channel_health_daily"}
        /\ Owed(m, 4) = {"member_daily_activity", "channel_daily_activity", "channel_health_daily"}
        /\ Owed(m, 5) = {"channel_daily_activity", "channel_health_daily"}
        /\ Owed(m, 6) = {"channel_health_daily"}
        /\ Owed(m, 7) = {"channel_health_daily"}
    BY <1>1 DEF Owed, TableAt
  <2>2. {t \in Tables : m \in Counted(t, {m})} =
          {"public_stats_cache", "guild_daily_activity", "guild_summary_daily",
           "member_daily_activity", "channel_daily_activity", "channel_health_daily"}
    BY DEF Tables, GuildTables, HumanTables, Counted
  <2>3. Owed(m, 1) \subseteq Tables
    BY <2>1 DEF Tables, GuildTables, HumanTables
  <2> QED BY <2>1, <2>2, <2>3 DEF TableAt
<1> QED BY <1>1, <1>2, <1>3

\* What the handler has in hand, and what it does next.
LEMMA StageFacts ==
  ASSUME NEW h, NEW l, NEW m \in Messages, NEW k, Stage(h, l, m, k)
  PROVE  /\ k \in 0 .. 7 /\ h = {m} /\ l # << >>
         /\ k = 0 => Head(l) = Do("index", m)
         /\ k \in 1 .. Steps(m) =>
              /\ k = 6 => Head(l) = Do("read", CellAt(k, m))
              /\ k # 6 => Head(l) = Do("count", CellAt(k, m))
         /\ k \notin {0, 7} => k \in 1 .. Steps(m) /\ Len(l) = Steps(m) - k + 1
<1>1. Steps(m) \in {3, 6}
  BY AggregatesAre
<1>2. CASE k = 0
  BY <1>1, <1>2 DEF Stage
<1>3. CASE k = 7
  <2>1. /\ h = {m} /\ ~m.bot
        /\ \E n \in Nat \ {0} : l = <<Do("write", Row(CellOf("channel_health_daily", m), n))>>
    BY <1>1, <1>3 DEF Stage
  <2>2. PICK n \in Nat \ {0} : l = <<Do("write", Row(CellOf("channel_health_daily", m), n))>>
    BY <2>1
  <2>3. l # << >> /\ Tail(l) = << >> /\ Head(l).op = "write"
    BY <2>2 DEF Do
  <2> QED BY <1>1, <1>3, <2>1, <2>3
<1>4. CASE k \notin {0, 7}
  <2>1. /\ k \in 1 .. Steps(m) /\ h = {m}
        /\ l \in Seq(Range(Aggregates(m))) /\ Len(l) = Steps(m) - k + 1
        /\ \A i \in 1 .. Len(l) : l[i] = Aggregates(m)[k - 1 + i]
    BY <1>4 DEF Stage
  <2>2. Len(l) \in Nat /\ Len(l) >= 1 /\ k \in 0 .. 7
    BY <1>1, <2>1
  <2>3. l # << >> /\ Head(l) = Aggregates(m)[k]
    <3>1. l[1] = Aggregates(m)[k - 1 + 1] /\ k - 1 + 1 = k
      BY <1>1, <2>1, <2>2
    <3> QED BY <2>1, <2>2, <3>1
  <2>4. Aggregates(m)[k] = Do(IF k = 6 THEN "read" ELSE "count", CellAt(k, m))
    BY <2>1, AggregatesAre
  <2> QED BY <1>4, <2>1, <2>2, <2>3, <2>4
<1> QED BY <1>2, <1>3, <1>4

LEMMA StageLast ==
  ASSUME NEW h, NEW l, NEW m \in Messages, Stage(h, l, m, 7)
  PROVE  /\ Tail(l) = << >> /\ ~m.bot
         /\ \E n \in Nat \ {0} : Head(l) = Do("write", Row(CellOf("channel_health_daily", m), n))
<1>1. Steps(m) \in {3, 6}
  BY AggregatesAre
<1>2. /\ ~m.bot
      /\ \E n \in Nat \ {0} : l = <<Do("write", Row(CellOf("channel_health_daily", m), n))>>
  BY <1>1 DEF Stage
<1> QED BY <1>2

LEMMA StageIs ==
  ASSUME NEW h, NEW l, NEW m \in Messages, NEW k, Stage(h, l, m, k)
  PROVE  k = IF Head(l).op = "index" THEN 0 ELSE IF Head(l).op = "write" THEN 7
             ELSE Steps(m) - Len(l) + 1
<1>1. Steps(m) \in {3, 6}
  BY AggregatesAre
<1>2. k \in 0 .. 7
  BY StageFacts
<1>3. \A op, arg : Do(op, arg).op = op
  BY DEF Do
<1>4. k = 0 => Head(l) = Do("index", m)
  BY StageFacts
<1>5. k = 7 => Head(l).op = "write"
  BY <1>3, StageLast
<1>6. k # 0 /\ k # 7 => k \in 1 .. Steps(m) /\ Len(l) = Steps(m) - k + 1
  BY <1>2, StageFacts
<1>7. k \in 1 .. Steps(m) =>
        Head(l) = Do("read", CellAt(k, m)) \/ Head(l) = Do("count", CellAt(k, m))
  <2>1. CASE k = 6
    BY <2>1, StageFacts
  <2>2. CASE k # 6
    BY <2>2, StageFacts
  <2> QED BY <2>1, <2>2
<1> QED BY <1>1, <1>2, <1>3, <1>4, <1>5, <1>6, <1>7

LEMMA StageUnique ==
  ASSUME NEW h, NEW l, NEW m \in Messages, NEW k, Stage(h, l, m, k),
         NEW n \in Messages, NEW j, Stage(h, l, n, j)
  PROVE  m = n /\ k = j
<1>1. m = n
  BY DEF Stage
<1>2. Stage(h, l, m, j)
  BY <1>1
<1> QED BY <1>1, <1>2, StageIs

LEMMA StageBegins ==
  ASSUME NEW m \in Messages
  PROVE  Stage({m}, <<Do("index", m)>>, m, 0) /\ Stage({m}, Aggregates(m), m, 1)
<1>1. Steps(m) \in {3, 6}
  BY AggregatesAre
<1>2. \A i \in 1 .. Steps(m) : 1 - 1 + i = i
  BY <1>1
<1>3. Steps(m) - 1 + 1 = Steps(m) /\ 1 \in 1 .. Steps(m)
  BY <1>1
<1>4. Stage({m}, Aggregates(m), m, 1)
  BY <1>2, <1>3, AggregatesAre DEF Stage
<1> QED BY <1>4 DEF Stage

LEMMA StageWrites ==
  ASSUME NEW m \in Messages, ~m.bot, NEW n \in Nat \ {0}
  PROVE  Stage({m}, <<Do("write", Row(CellOf("channel_health_daily", m), n))>>, m, 7)
BY DEF Stage

\* After a count comes the next, and after the third nothing for a bot's message.
LEMMA StageTail ==
  ASSUME NEW h, NEW l, NEW m \in Messages, NEW k \in 1 .. Steps(m), k # 6, Stage(h, l, m, k)
  PROVE  /\ k < Steps(m) => Stage(h, Tail(l), m, k + 1) /\ Tail(l) # << >>
         /\ k = Steps(m) => Tail(l) = << >>
<1>1. Steps(m) \in {3, 6}
  BY AggregatesAre
<1>2. /\ h = {m} /\ l \in Seq(Range(Aggregates(m))) /\ Len(l) = Steps(m) - k + 1
      /\ \A i \in 1 .. Len(l) : l[i] = Aggregates(m)[k - 1 + i]
  BY <1>1 DEF Stage
<1>3. l # << >>
  BY StageFacts
<1>4. /\ Tail(l) \in Seq(Range(Aggregates(m))) /\ Len(Tail(l)) = Len(l) - 1
      /\ \A i \in 1 .. Len(Tail(l)) : Tail(l)[i] = l[i + 1]
  BY <1>2, <1>3, HeadTailProperties
<1>5. Len(Tail(l)) = Steps(m) - k
  BY <1>1, <1>2, <1>4
<1>6. \A i \in 1 .. Len(Tail(l)) : Tail(l)[i] = Aggregates(m)[(k + 1) - 1 + i]
  <2> TAKE i \in 1 .. Len(Tail(l))
  <2>1. i \in Int /\ i + 1 \in 1 .. Len(l) /\ k - 1 + (i + 1) = (k + 1) - 1 + i
    BY <1>1, <1>2, <1>5
  <2> QED BY <1>2, <1>4, <2>1
<1>7. CASE k = Steps(m)
  BY <1>1, <1>4, <1>5, <1>7, EmptySeq
<1>8. CASE k < Steps(m)
  <2>1. k + 1 \in 1 .. Steps(m) /\ Len(Tail(l)) = Steps(m) - (k + 1) + 1
    BY <1>1, <1>5, <1>8
  <2>2. Tail(l) # << >>
    BY <1>1, <1>5, <1>8, EmptySeq
  <2> QED BY <1>2, <1>4, <1>6, <1>8, <2>1, <2>2 DEF Stage
<1> QED BY <1>1, <1>7, <1>8

-----------------------------------------------------------------------------
(* What is still to be counted.                                             *)

\* The handler is yet to count its message in the cell.
Owing(h, l, cell) ==
  \E m \in Messages, k \in 0 .. 7 :
    Stage(h, l, m, k) /\ \E t \in Owed(m, k) : cell = CellOf(t, m)

LEMMA OwingIs ==
  ASSUME NEW h, NEW l, NEW m \in Messages, NEW k, Stage(h, l, m, k), NEW cell
  PROVE  Owing(h, l, cell) <=> cell[1] \in Owed(m, k) /\ cell = CellOf(cell[1], m)
<1>1. k \in 0 .. 7
  BY StageFacts
<1>2. \A t \in Owed(m, k) : CellOf(t, m)[1] = t
  BY <1>1, OwedAre, CellTypes
<1> QED BY <1>1, <1>2, StageUnique DEF Owing

LEMMA IdleOwesNothing == \A l, cell : ~Owing({}, l, cell)
BY DEF Owing, Stage

-----------------------------------------------------------------------------
(* The invariants.                                                          *)

\* The messages that pages have indexed and not yet counted.
NewOnes(tasks) == UNION {{c} \X (1 .. tasks[c].new) : c \in Channels}

\* What the handler and the tasks are yet to add to a cell.
Owes(h, l, cell) == IF Owing(h, l, cell) THEN 1 ELSE 0
Fresh(tasks, cell) == IF cell = Stats THEN Cardinality(NewOnes(tasks)) ELSE 0

\* Every indexed message is counted, will be counted or is lost to the counters.
Bounded ==
  ~raced => \A cell \in Cells :
    Copies(cell, counts) + Owes(handling, left, cell) + Fresh(task, cell) <= Cardinality(Of(cell, index))

ActivityOf(m) == CellOf("channel_daily_activity", m)
HealthWrite(m, n) == <<Do("write", Row(CellOf("channel_health_daily", m), n))>>

\* Nothing comes between the counting of a message for its channel and the copy
\* of that row.
CopiesActivity ==
  ~raced => \A m \in Messages :
    /\ Stage(handling, left, m, 6) => Copies(ActivityOf(m), counts) > 0
    /\ Stage(handling, left, m, 7) =>
         left = HealthWrite(m, Copies(ActivityOf(m), counts))

\* All that the job covers has been sent when it is asked for.
ScopeSent == job.status # "none" => \A m \in Messages : m.at <= To => m \in sent

Wanted(c) == {m \in sent : m.channel = c /\ m.at \in From .. To}

\* What a task has passed is indexed.
ReadSoFar ==
  job.phase = "channels" => \A c \in Channels :
    /\ task[c].at \in {"page", "count"} => {m \in Wanted(c) : m.at >= task[c].cursor} \subseteq index
    /\ task[c].at = "done" => Wanted(c) \subseteq index

AllRead == Rebuilding \/ job.status = "completed" => \A c \in Channels : Wanted(c) \subseteq index

TasksDone == Rebuilding => \A c \in Channels : task[c].at = "done"

\* The statement of the rebuild that makes each table again.
MadeBy ==
  [member_daily_activity |-> 2, channel_daily_activity |-> 4, channel_health_daily |-> 6,
   guild_daily_activity |-> 8, guild_summary_daily |-> 10, public_stats_cache |-> 11]

\* What the rebuild has made again stays equal to the index, but for what the
\* handler that has begun since is yet to count.
MadeAgain ==
  Rebuilding /\ ~raced => \A k \in 0 .. 11, cell \in Cells :
    DoneRebuild(rebuild, k) /\ MadeBy[cell[1]] <= k /\ Repaired(cell[1], cell) =>
      Copies(cell, counts) + Owes(handling, left, cell) = Cardinality(Of(cell, index))

-----------------------------------------------------------------------------
(* The handler's steps.                                                     *)

LEMMA HeadOps ==
  ASSUME NEW h, NEW l, NEW m \in Messages, NEW k, Stage(h, l, m, k)
  PROVE  /\ Head(l).op = "index" <=> k = 0
         /\ Head(l).op = "count" <=> k \notin {0, 6, 7}
         /\ Head(l).op = "read" <=> k = 6
         /\ Head(l).op = "write" <=> k = 7
<1>1. Steps(m) \in {3, 6}
  BY AggregatesAre
<1>2. k \in 0 .. 7
  BY StageFacts
<1>3. \A op, arg : Do(op, arg).op = op
  BY DEF Do
<1>4. k = 0 => Head(l) = Do("index", m)
  BY StageFacts
<1>5. k = 7 => Head(l).op = "write"
  BY <1>3, StageLast
<1>6. k # 0 /\ k # 7 => k \in 1 .. Steps(m)
  BY <1>2, StageFacts
<1>7. k = 6 /\ k \in 1 .. Steps(m) => Head(l) = Do("read", CellAt(k, m))
  BY StageFacts
<1>8. k # 6 /\ k \in 1 .. Steps(m) => Head(l) = Do("count", CellAt(k, m))
  BY StageFacts
<1> QED BY <1>1, <1>2, <1>3, <1>4, <1>5, <1>6, <1>7, <1>8

LEMMA HasStage ==
  ASSUME TypeInv, Busy
  PROVE  \E m \in raw, k \in 0 .. 7 :
           /\ Stage(handling, left, m, k) /\ m \in Messages /\ (k # 0 => m \in index)
           /\ handling = {m} /\ left # << >>
<1>1. PICK m \in raw, k \in 0 .. 7 : Stage(handling, left, m, k) /\ (k # 0 => m \in index)
  BY DEF TypeInv, HandlerOK, Busy
<1>2. m \in Messages
  BY DEF TypeInv, StreamsOK
<1>3. handling = {m} /\ left # << >>
  BY <1>1, <1>2, StageFacts
<1> QED BY <1>1, <1>2, <1>3

LEMMA BeginStep ==
  ASSUME TypeInv, Begin
  PROVE  /\ handling = {}
         /\ \E m \in raw : m \in Messages /\ Stage(handling', left', m, 0)
         /\ queue' \in Seq(raw)
<1>1. queue # << >> /\ queue \in Seq(raw)
  BY DEF Begin, TypeInv, StreamsOK
<1>2. Head(queue) \in raw /\ Tail(queue) \in Seq(raw)
  BY <1>1, HeadTailProperties
<1>3. Head(queue) \in Messages
  BY <1>2 DEF TypeInv, StreamsOK
<1>4. Stage(handling', left', Head(queue), 0)
  BY <1>3, StageBegins DEF Begin
<1> QED BY <1>2, <1>3, <1>4 DEF Begin, Busy

LEMMA IndexStep ==
  ASSUME TypeInv, Index
  PROVE  \E m \in raw :
           /\ m \in Messages /\ Stage(handling, left, m, 0) /\ index' = index \union {m}
           /\ m \in index => handling' = {} /\ left' = << >>
           /\ m \notin index => Stage(handling', left', m, 1)
<1>1. PICK m \in raw, k \in 0 .. 7 :
        /\ Stage(handling, left, m, k) /\ m \in Messages /\ handling = {m}
  BY HasStage DEF Index, Running
<1>2. k = 0
  BY <1>1, HeadOps DEF Index, Running
<1>3. Head(left).arg = m
  <2>1. Head(left) = Do("index", m)
    BY <1>1, <1>2, StageFacts
  <2> QED BY <2>1 DEF Do
<1>4. index' = index \union {m}
  BY <1>1 DEF Index
<1>5. ASSUME m \in index PROVE handling' = {} /\ left' = << >>
  BY <1>1, <1>5 DEF Index, Proceed
<1>6. ASSUME m \notin index PROVE Stage(handling', left', m, 1)
  <2>1. left' = Aggregates(m) /\ Stage({m}, Aggregates(m), m, 1)
    BY <1>1, <1>3, <1>6, StageBegins DEF Index, Proceed
  <2>2. Aggregates(m) # << >>
    BY <1>1, <2>1, StageFacts
  <2>3. handling' = {m}
    BY <1>1, <1>3, <1>6, <2>2 DEF Index, Proceed
  <2> QED BY <2>1, <2>3
<1> QED BY <1>1, <1>2, <1>4, <1>5, <1>6

LEMMA CountStep ==
  ASSUME TypeInv, Count
  PROVE  \E m \in raw, k \in 1 .. 5 :
           /\ m \in Messages /\ m \in index /\ k \in 1 .. Steps(m)
           /\ Stage(handling, left, m, k)
           /\ counts' = counts (+) SetToBag({CellAt(k, m)})
           /\ k < Steps(m) => Stage(handling', left', m, k + 1)
           /\ k = Steps(m) => handling' = {} /\ left' = << >>
<1>1. PICK m \in raw, k \in 0 .. 7 :
        /\ Stage(handling, left, m, k) /\ m \in Messages /\ handling = {m} /\ (k # 0 => m \in index)
  BY HasStage DEF Count, Running
<1>2. k \notin {0, 6, 7}
  BY <1>1, HeadOps DEF Count, Running
<1>3. k \in 1 .. 5 /\ k \in 1 .. Steps(m) /\ k # 6 /\ m \in index
  BY <1>1, <1>2, StageFacts
<1>4. Head(left) = Do("count", CellAt(k, m))
  BY <1>1, <1>3, StageFacts
<1>5. Head(left).arg = CellAt(k, m)
  BY <1>4 DEF Do
<1>6. /\ k < Steps(m) => Stage(handling, Tail(left), m, k + 1) /\ Tail(left) # << >>
      /\ k = Steps(m) => Tail(left) = << >>
  <2>1. k < Steps(m) => Stage(handling, Tail(left), m, k + 1)
    BY <1>1, <1>3, StageTail
  <2>2. k < Steps(m) => Tail(left) # << >>
    BY <1>1, <2>1, StageFacts
  <2>3. k = Steps(m) => Tail(left) = << >>
    BY <1>1, <1>3, StageTail
  <2> QED BY <2>1, <2>2, <2>3
<1>7. /\ left' = Tail(left) /\ handling' = (IF Tail(left) = << >> THEN {} ELSE handling)
      /\ counts' = counts (+) SetToBag({CellAt(k, m)})
  BY <1>5 DEF Count, Proceed
<1>8. /\ k < Steps(m) => Stage(handling', left', m, k + 1)
      /\ k = Steps(m) => handling' = {} /\ left' = << >>
  BY <1>6, <1>7
<1> QED BY <1>1, <1>3, <1>7, <1>8, Zenon

LEMMA ReadStep ==
  ASSUME TypeInv, ReadActivity \/ ActivityGone
  PROVE  \E m \in raw :
           /\ m \in Messages /\ m \in index /\ ~m.bot /\ Stage(handling, left, m, 6)
           /\ ReadActivity =>
                /\ Copies(ActivityOf(m), counts) > 0
                /\ handling' = handling /\ left' = HealthWrite(m, Copies(ActivityOf(m), counts))
           /\ ActivityGone => ActivityOf(m) \notin DOMAIN counts
<1>1. PICK m \in raw, k \in 0 .. 7 :
        /\ Stage(handling, left, m, k) /\ m \in Messages /\ handling = {m} /\ (k # 0 => m \in index)
  BY HasStage DEF ReadActivity, ActivityGone, Running
<1>2. k = 6
  BY <1>1, HeadOps DEF ReadActivity, ActivityGone, Running
<1>3. 6 \in 1 .. Steps(m) /\ ~m.bot
  <2>1. 6 \in 1 .. Steps(m)
    BY <1>1, <1>2, StageFacts
  <2>2. Steps(m) = IF m.bot THEN 3 ELSE 6
    BY DEF Steps
  <2> QED BY <2>1, <2>2
<1>4. Head(left).arg = CellOf("channel_health_daily", m)
  <2>1. Head(left) = Do("read", CellAt(6, m))
    BY <1>1, <1>2, <1>3, StageFacts
  <2> QED BY <2>1 DEF Do, CellAt, TableAt
<1>5. ActivityOf(m) = <<"channel_daily_activity", Head(left).arg[2], Head(left).arg[3]>>
  <2>1. /\ CellOf("channel_health_daily", m) = <<"channel_health_daily", m.channel, Day(m.at)>>
        /\ CellOf("channel_daily_activity", m) = <<"channel_daily_activity", m.channel, Day(m.at)>>
    BY CellIs
  <2> QED BY <1>4, <2>1 DEF ActivityOf
<1>6. ASSUME ReadActivity
      PROVE  /\ Copies(ActivityOf(m), counts) > 0
             /\ handling' = handling /\ left' = HealthWrite(m, Copies(ActivityOf(m), counts))
  BY <1>4, <1>5, <1>6 DEF ReadActivity, Proceed, HealthWrite
<1>7. ASSUME ActivityGone PROVE ActivityOf(m) \notin DOMAIN counts
  BY <1>5, <1>7 DEF ActivityGone
<1> QED BY <1>1, <1>2, <1>3, <1>6, <1>7

LEMMA WriteStep ==
  ASSUME TypeInv, WriteHealth
  PROVE  \E m \in raw, n \in Nat \ {0} :
           /\ m \in Messages /\ m \in index /\ ~m.bot /\ Stage(handling, left, m, 7)
           /\ left = HealthWrite(m, n)
           /\ counts' = Written(Row(CellOf("channel_health_daily", m), n), counts)
           /\ handling' = {} /\ left' = << >>
<1>1. PICK m \in raw, k \in 0 .. 7 :
        /\ Stage(handling, left, m, k) /\ m \in Messages /\ handling = {m} /\ (k # 0 => m \in index)
  BY HasStage DEF WriteHealth, Running
<1>2. k = 7
  BY <1>1, HeadOps DEF WriteHealth, Running
<1>3. Steps(m) \in {3, 6}
  BY <1>1, AggregatesAre
<1>4. ~m.bot /\ \E n \in Nat \ {0} : left = HealthWrite(m, n)
  BY <1>1, <1>2, <1>3 DEF Stage, HealthWrite
<1>5. PICK n \in Nat \ {0} : left = HealthWrite(m, n)
  BY <1>4
<1>6. Head(left) = Do("write", Row(CellOf("channel_health_daily", m), n)) /\ Tail(left) = << >>
  BY <1>5 DEF HealthWrite
<1>7. Head(left).arg = Row(CellOf("channel_health_daily", m), n)
  BY <1>6 DEF Do
<1>8. /\ counts' = Written(Row(CellOf("channel_health_daily", m), n), counts)
      /\ handling' = {} /\ left' = << >>
  BY <1>6, <1>7 DEF WriteHealth, Proceed
<1> QED BY <1>1, <1>2, <1>4, <1>5, <1>8

\* A message that is handed back is at the end of the queue again.
LEMMA RequeueTypes ==
  ASSUME TypeInv, Busy
  PROVE  queue \o SetToSeq(handling) \in Seq(raw)
<1>1. PICK e \in raw : handling = {e}
  BY HasStage
<1>2. Cardinality(handling) = 1
  BY <1>1, FS_Singleton, Zenon
<1>3. SetToSeq(handling) = CHOOSE f \in [1 .. 1 -> handling] : IsInjective(f)
  BY <1>2 DEF SetToSeq
<1>4. [i \in 1 .. 1 |-> e] \in [1 .. 1 -> handling]
  BY <1>1
<1>5. IsInjective([i \in 1 .. 1 |-> e])
  BY DEF IsInjective
<1>6. SetToSeq(handling) \in [1 .. 1 -> handling]
  BY <1>3, <1>4, <1>5
<1>7. SetToSeq(handling) \in [1 .. 1 -> raw]
  BY <1>6, <1>1
<1>8. SetToSeq(handling) \in Seq(raw)
  BY <1>7, SeqDef
<1> QED BY <1>8, ConcatProperties DEF TypeInv, StreamsOK

-----------------------------------------------------------------------------
(* Least and greatest numbers, and Discord's pages.                         *)

Before == {p \in Nat \X Nat : p[1] < p[2]}

LEMMA BeforeIsWellFounded == IsWellFoundedOn(Before, Nat)
<1>1. OpToRel(<, Nat) = Before
  BY DEF OpToRel, Before
<1> QED BY <1>1, NatLessThanWellFounded

LEMMA Smallest ==
  ASSUME NEW S \in SUBSET Nat, S # {}
  PROVE  \E n \in S : \A k \in S : n <= k
<1>1. PICK n \in S : \A k \in S : ~(<<k, n>> \in Before)
  BY BeforeIsWellFounded, WFMin
<1>2. ASSUME NEW k \in S PROVE n <= k
  <2>1. k \in Nat /\ n \in Nat /\ ~(<<k, n>> \in Before)
    BY <1>1
  <2> QED BY <2>1 DEF Before
<1> QED BY <1>2

LEMMA Largest ==
  ASSUME NEW S \in SUBSET Nat, S # {}, IsFiniteSet(S)
  PROVE  \E n \in S : \A k \in S : k <= n
<1> DEFINE Above(x) == {y \in S : y > x}
<1>1. \A x : IsFiniteSet(Above(x)) /\ Cardinality(Above(x)) \in Nat
  <2> SUFFICES ASSUME NEW x PROVE IsFiniteSet(Above(x)) /\ Cardinality(Above(x)) \in Nat
    OBVIOUS
  <2>1. Above(x) \in SUBSET S
    OBVIOUS
  <2> QED BY <2>1, FS_Subset, FS_CardinalityType
<1> DEFINE C == {Cardinality(Above(x)) : x \in S}
<1>2. C \in SUBSET Nat /\ C # {}
  BY <1>1
<1>3. PICK c \in C : \A k \in C : c <= k
  <2> HIDE DEF C
  <2> QED BY <1>2, Smallest
<1>4. PICK n \in S : \A x \in S : Cardinality(Above(n)) <= Cardinality(Above(x))
  BY <1>3
<1>5. ASSUME NEW k \in S, ~(k <= n) PROVE FALSE
  <2>1. n \in Nat /\ k \in Nat /\ n < k
    BY <1>5
  <2>2. Above(k) \in SUBSET Above(n) /\ k \in Above(n) /\ k \notin Above(k)
    <3>1. \A y \in S : y \in Nat
      OBVIOUS
    <3>2. \A y \in S : y > k => y > n
      BY <2>1, <3>1
    <3>3. Above(k) \in SUBSET Above(n)
      BY <3>2
    <3>4. k \in Above(n) /\ k \notin Above(k)
      BY <2>1
    <3> QED BY <3>3, <3>4
  <2>3. Cardinality(Above(k)) <= Cardinality(Above(n))
        /\ (Cardinality(Above(n)) = Cardinality(Above(k)) => Above(n) = Above(k))
    <3> HIDE DEF Above
    <3> QED BY <1>1, <2>2, FS_Subset
  <2>4. Cardinality(Above(n)) <= Cardinality(Above(k))
    BY <1>4
  <2>5. Cardinality(Above(n)) = Cardinality(Above(k))
    <3> HIDE DEF Above
    <3> QED BY <1>1, <2>3, <2>4
  <2> QED BY <2>2, <2>3, <2>5
<1> QED BY <1>5

LEMMA LeastIs ==
  ASSUME NEW S \in SUBSET Nat, S # {}
  PROVE  Min(S) \in S /\ \A k \in S : Min(S) <= k
BY Smallest DEF Min

LEMMA GreatestIs ==
  ASSUME NEW S \in SUBSET Nat, S # {}, IsFiniteSet(S)
  PROVE  Max(S) \in S /\ \A k \in S : k <= Max(S)
<1>1. \E n \in S : \A k \in S : n >= k
  BY Largest
<1> QED BY <1>1 DEF Max

LEMMA AtsAre ==
  ASSUME NEW S, S \subseteq Messages
  PROVE  {m.at : m \in S} \in SUBSET Nat /\ IsFiniteSet({m.at : m \in S})
<1> DEFINE T == {m.at : m \in S}
           f == [m \in S |-> m.at]
<1>1. f \in Surjection(S, T)
  BY DEF Surjection
<1>2. IsFiniteSet(S)
  BY Counting
<1>3. IsFiniteSet(T)
  <2> HIDE DEF T, f
  <2> QED BY <1>1, <1>2, FS_Surjection
<1> QED BY <1>3, IndexingAssumption

\* The first page is read from after the last message there may be.
LEMMA FirstCursor ==
  /\ Reading.at = "page" /\ Reading.cursor \in Nat /\ Reading.new = 0
  /\ \A m \in Messages : m.at < Reading.cursor
<1> DEFINE S == {m.at : m \in Messages}
           T == {0} \union S
<1>1. IsFiniteSet(S) /\ S \in SUBSET Nat
  BY AtsAre
<1>2. IsFiniteSet(T) /\ T \in SUBSET Nat /\ T # {}
  <2>1. T = S \union {0}
    OBVIOUS
  <2> HIDE DEF S
  <2> QED BY <1>1, <2>1, FS_AddElement
<1>3. Max(T) \in T /\ \A k \in T : k <= Max(T)
  <2> HIDE DEF T
  <2> QED BY <1>2, GreatestIs
<1>4. Max(T) \in Nat /\ \A m \in Messages : m.at \in Nat /\ m.at < Max(T) + 1
  <2>1. \A m \in Messages : m.at \in T
    OBVIOUS
  <2>2. Max(T) \in Nat /\ \A m \in Messages : m.at \in Nat /\ m.at <= Max(T)
    <3> HIDE DEF T
    <3> QED BY <1>2, <1>3, <2>1
  <2> HIDE DEF T
  <2> QED BY <2>2
<1> QED BY <1>4 DEF Reading

\* The messages of channel c that a page is taken from.
OlderIn(c) == {m \in sent : m.channel = c /\ m.at < task[c].cursor}
Newer(c, m) == {n \in OlderIn(c) : n.at > m.at}

LEMMA PageIs == \A c : PageOf(c) = {m \in OlderIn(c) : Cardinality(Newer(c, m)) < PageSize}
BY DEF PageOf, OlderIn, Newer

LEMMA NewerCounts ==
  ASSUME StreamsOK, NEW c, NEW S, S \subseteq OlderIn(c)
  PROVE  /\ S \subseteq Messages /\ IsFiniteSet(S) /\ Cardinality(S) \in Nat
         /\ \A T \in SUBSET S : Cardinality(T) <= Cardinality(S)
<1>1. S \subseteq Messages
  BY DEF StreamsOK, OlderIn
<1>2. IsFiniteSet(S) /\ Cardinality(S) \in Nat
  BY <1>1, Counting
<1> QED BY <1>1, <1>2, FS_Subset

\* A page has no gap: it reaches up from its oldest message.
LEMMA PageReachesUp ==
  ASSUME StreamsOK, NEW c, NEW m \in PageOf(c), NEW n \in OlderIn(c), n.at >= m.at
  PROVE  n \in PageOf(c)
<1>1. m \in OlderIn(c) /\ Cardinality(Newer(c, m)) < PageSize
  BY PageIs
<1>2. m.at \in Nat /\ n.at \in Nat /\ \A x \in OlderIn(c) : x.at \in Nat
  BY <1>1, IndexingAssumption DEF StreamsOK, OlderIn
<1>3. Newer(c, n) \subseteq Newer(c, m) /\ Newer(c, m) \subseteq OlderIn(c)
  BY <1>2 DEF Newer
<1>4. Cardinality(Newer(c, n)) <= Cardinality(Newer(c, m))
      /\ Cardinality(Newer(c, n)) \in Nat /\ Cardinality(Newer(c, m)) \in Nat
  BY <1>3, NewerCounts
<1>5. Cardinality(Newer(c, n)) < PageSize
  BY <1>1, <1>4, IndexingAssumption
<1> QED BY <1>5, PageIs

\* A page that is not full is all there is.
LEMMA ShortPageIsAll ==
  ASSUME StreamsOK, NEW c, Cardinality(PageOf(c)) < PageSize
  PROVE  PageOf(c) = OlderIn(c)
<1> DEFINE R == OlderIn(c) \ PageOf(c)
           Ats == {m.at : m \in R}
<1>1. PageOf(c) \subseteq OlderIn(c)
  BY PageIs
<1>2. SUFFICES ASSUME R # {} PROVE FALSE
  BY <1>1
<1>3. R \subseteq Messages /\ IsFiniteSet(R)
  BY NewerCounts
<1>4. IsFiniteSet(Ats) /\ Ats \in SUBSET Nat /\ Ats # {}
  BY <1>2, <1>3, AtsAre
<1>5. PICK t \in Ats : \A k \in Ats : k <= t
  <2> HIDE DEF Ats
  <2> QED BY <1>4, Largest
<1>6. PICK m \in R : \A n \in R : n.at <= m.at
  BY <1>5
<1>7. Newer(c, m) \subseteq PageOf(c)
  <2>1. \A n \in OlderIn(c) : n.at \in Nat
    BY IndexingAssumption DEF StreamsOK, OlderIn
  <2> QED BY <1>6, <2>1 DEF Newer
<1>8. /\ Cardinality(Newer(c, m)) \in Nat /\ Cardinality(PageOf(c)) \in Nat
      /\ Cardinality(Newer(c, m)) <= Cardinality(PageOf(c))
  BY <1>1, <1>7, NewerCounts
<1>9. ~(Cardinality(Newer(c, m)) < PageSize)
  BY PageIs
<1> QED BY <1>8, <1>9, IndexingAssumption

\* A full page has a message, and an oldest one.
LEMMA FullPageGoesOn ==
  ASSUME StreamsOK, NEW c, ~(Cardinality(PageOf(c)) < PageSize)
  PROVE  /\ Min({m.at : m \in PageOf(c)}) \in Nat
         /\ \E m \in PageOf(c) : Min({n.at : n \in PageOf(c)}) = m.at
<1> DEFINE Ats == {m.at : m \in PageOf(c)}
<1>1. PageOf(c) \subseteq OlderIn(c)
  BY PageIs
<1>2. PageOf(c) \subseteq Messages /\ Cardinality(PageOf(c)) \in Nat
  BY <1>1, NewerCounts
<1>3. PageOf(c) # {}
  BY <1>2, Counting, IndexingAssumption
<1>4. Ats \in SUBSET Nat /\ Ats # {}
  BY <1>2, <1>3, IndexingAssumption
<1>5. Min(Ats) \in Ats
  <2> HIDE DEF Ats
  <2> QED BY <1>4, LeastIs
<1> QED BY <1>4, <1>5

-----------------------------------------------------------------------------
(* What the rebuild writes.                                                 *)

\* The rows D of table from, as rows of table to.
Renamed(from, to, D, B) ==
  [cell \in {<<to, c[2], c[3]>> : c \in D} |-> B[<<from, cell[2], cell[3]>>]]

LEMMA CellParts ==
  ASSUME NEW cell \in Cells
  PROVE  /\ cell[1] \in Tables /\ cell[2] \in Keys /\ cell[3] \in Nat
         /\ cell = <<cell[1], cell[2], cell[3]>>
         /\ \A t \in Tables : <<t, cell[2], cell[3]>> \in Cells
BY DEF Cells

LEMMA RenamedBag ==
  ASSUME NEW B, IsABag(B), DOMAIN B \subseteq Cells, NEW from \in Tables, NEW to \in Tables,
         NEW D, \A c \in D : c \in DOMAIN B /\ c[1] = from
  PROVE  /\ IsABag(Renamed(from, to, D, B)) /\ DOMAIN Renamed(from, to, D, B) \subseteq Cells
         /\ \A cell \in DOMAIN Renamed(from, to, D, B) :
              /\ cell[1] = to /\ <<from, cell[2], cell[3]>> \in D
              /\ Renamed(from, to, D, B)[cell] = B[<<from, cell[2], cell[3]>>]
         /\ \A cell \in Cells : cell[1] = to /\ <<from, cell[2], cell[3]>> \in D =>
              cell \in DOMAIN Renamed(from, to, D, B)
<1> DEFINE E == {<<to, c[2], c[3]>> : c \in D}
           R == Renamed(from, to, D, B)
<1>1. R = [cell \in E |-> B[<<from, cell[2], cell[3]>>]]
  BY DEF Renamed
<1>2. \A c \in D : c \in Cells /\ c \in DOMAIN B /\ c = <<from, c[2], c[3]>>
  BY CellParts
<1>3. \A cell \in E : cell \in Cells /\ cell[1] = to /\ <<from, cell[2], cell[3]>> \in D
  <2> SUFFICES ASSUME NEW c \in D
               PROVE  LET cell == <<to, c[2], c[3]>>
                      IN  cell \in Cells /\ cell[1] = to /\ <<from, cell[2], cell[3]>> \in D
    OBVIOUS
  <2> QED BY <1>2, CellParts
<1>4. \A cell \in E : B[<<from, cell[2], cell[3]>>] \in {n \in Nat : n > 0}
  BY <1>2, <1>3 DEF IsABag
<1>5. \A cell \in Cells : cell[1] = to /\ <<from, cell[2], cell[3]>> \in D => cell \in E
  <2> TAKE cell \in Cells
  <2>1. cell = <<cell[1], cell[2], cell[3]>>
    BY CellParts
  <2> QED BY <2>1
<1> HIDE DEF E
<1>6. DOMAIN R = E /\ \A cell \in E : R[cell] = B[<<from, cell[2], cell[3]>>]
  BY <1>1
<1>7. IsABag(R)
  BY <1>1, <1>4 DEF IsABag
<1> QED BY <1>3, <1>5, <1>6, <1>7

LEMMA RenamedTypes ==
  ASSUME NEW B, IsABag(B), DOMAIN B \subseteq Cells, NEW from \in Tables, NEW to \in Tables,
         NEW D, \A c \in D : c \in DOMAIN B /\ c[1] = from
  PROVE  /\ IsABag(Renamed(from, to, D, B)) /\ DOMAIN Renamed(from, to, D, B) \subseteq Cells
         /\ \A cell \in DOMAIN Renamed(from, to, D, B) : cell[1] = to
<1>1. /\ IsABag(Renamed(from, to, D, B)) /\ DOMAIN Renamed(from, to, D, B) \subseteq Cells
      /\ \A cell \in DOMAIN Renamed(from, to, D, B) :
              /\ cell[1] = to /\ <<from, cell[2], cell[3]>> \in D
              /\ Renamed(from, to, D, B)[cell] = B[<<from, cell[2], cell[3]>>]
  BY RenamedBag
<1> QED BY <1>1

Affected == {m.channel : m \in {x \in index : x.at \in From .. To}}

LEMMA SourceIs ==
  /\ Source("member_daily_activity") = CountOf("member_daily_activity", InDays)
  /\ Source("guild_daily_activity") = CountOf("guild_daily_activity", InDays)
  /\ Source("channel_daily_activity") =
       CountOf("channel_daily_activity", {m \in InDays : m.at <= To /\ m.channel \in Affected})
  /\ Source("channel_health_daily") =
       Renamed("channel_daily_activity", "channel_health_daily",
               {x \in DOMAIN counts : x[1] = "channel_daily_activity" /\ InScope("channel_health_daily", x[3])}, counts)
  /\ Source("guild_summary_daily") =
       Renamed("guild_daily_activity", "guild_summary_daily",
               {x \in DOMAIN counts : x[1] = "guild_daily_activity" /\ InScope("guild_summary_daily", x[3])}, counts)
<1>1. Source("member_daily_activity") = CountOf("member_daily_activity", InDays)
  BY DEF Source
<1>2. Source("guild_daily_activity") = CountOf("guild_daily_activity", InDays)
  BY DEF Source
<1>3. Source("channel_daily_activity") =
       CountOf("channel_daily_activity", {m \in InDays : m.at <= To /\ m.channel \in Affected})
  BY DEF Source, Affected
<1>4. Source("channel_health_daily") =
       Renamed("channel_daily_activity", "channel_health_daily",
               {x \in DOMAIN counts : x[1] = "channel_daily_activity" /\ InScope("channel_health_daily", x[3])}, counts)
  BY DEF Source, Renamed
<1>5. Source("guild_summary_daily") =
       Renamed("guild_daily_activity", "guild_summary_daily",
               {x \in DOMAIN counts : x[1] = "guild_daily_activity" /\ InScope("guild_summary_daily", x[3])}, counts)
  BY DEF Source, Renamed
<1> QED BY <1>1, <1>2, <1>3, <1>4, <1>5

Inserts ==
  {"member_daily_activity", "channel_daily_activity", "channel_health_daily",
   "guild_daily_activity", "guild_summary_daily"}

LEMMA IndexTypes ==
  ASSUME StreamsOK
  PROVE  /\ index \in SUBSET Messages /\ InDays \in SUBSET index /\ InDays \in SUBSET Messages
         /\ {m \in InDays : m.at <= To /\ m.channel \in Affected} \in SUBSET index
         /\ {m \in InDays : m.at <= To /\ m.channel \in Affected} \in SUBSET Messages
BY DEF StreamsOK, InDays

LEMMA SourceTypes ==
  ASSUME StreamsOK, CountsOK, NEW t \in Inserts
  PROVE  /\ IsABag(Source(t)) /\ DOMAIN Source(t) \subseteq Cells
         /\ \A cell \in DOMAIN Source(t) : cell[1] = t
<1>1. t \in Tables /\ {"channel_daily_activity", "guild_daily_activity"} \subseteq Tables
  BY DEF Inserts, Tables, HumanTables, GuildTables
<1>2. ASSUME NEW S, S \in SUBSET Messages, Source(t) = CountOf(t, S)
      PROVE  /\ IsABag(Source(t)) /\ DOMAIN Source(t) \subseteq Cells
             /\ \A cell \in DOMAIN Source(t) : cell[1] = t
  <2>1. /\ IsABag(CountOf(t, S)) /\ DOMAIN CountOf(t, S) \subseteq Cells
        /\ \A cell \in DOMAIN CountOf(t, S) : cell[1] = t
    BY <1>1, <1>2, CountOfValues
  <2> QED BY <1>2, <2>1
<1>3. ASSUME NEW from \in {"channel_daily_activity", "guild_daily_activity"}, NEW D,
             \A c \in D : c \in DOMAIN counts /\ c[1] = from
      PROVE  /\ IsABag(Renamed(from, t, D, counts)) /\ DOMAIN Renamed(from, t, D, counts) \subseteq Cells
             /\ \A cell \in DOMAIN Renamed(from, t, D, counts) : cell[1] = t
  <2>1. IsABag(counts) /\ DOMAIN counts \subseteq Cells /\ from \in Tables
    BY <1>1 DEF CountsOK
  <2> QED BY <1>1, <1>3, <2>1, RenamedTypes
<1>4. CASE t \in {"member_daily_activity", "guild_daily_activity"}
  <2>1. Source(t) = CountOf(t, InDays)
    BY <1>4, SourceIs
  <2> QED BY <1>2, <2>1, IndexTypes
<1>5. CASE t = "channel_daily_activity"
  <2> DEFINE S == {m \in InDays : m.at <= To /\ m.channel \in Affected}
  <2>1. Source(t) = CountOf(t, S) /\ S \in SUBSET Messages
    BY <1>5, SourceIs, IndexTypes
  <2> HIDE DEF S
  <2> QED BY <1>2, <2>1
<1>6. CASE t = "channel_health_daily"
  <2> DEFINE D == {x \in DOMAIN counts : x[1] = "channel_daily_activity" /\ InScope("channel_health_daily", x[3])}
  <2>1. Source(t) = Renamed("channel_daily_activity", t, D, counts)
    BY <1>6, SourceIs
  <2>2. \A c \in D : c \in DOMAIN counts /\ c[1] = "channel_daily_activity"
    OBVIOUS
  <2> HIDE DEF D
  <2> QED BY <1>3, <2>1, <2>2
<1>7. CASE t = "guild_summary_daily"
  <2> DEFINE D == {x \in DOMAIN counts : x[1] = "guild_daily_activity" /\ InScope("guild_summary_daily", x[3])}
  <2>1. Source(t) = Renamed("guild_daily_activity", t, D, counts)
    BY <1>7, SourceIs
  <2>2. \A c \in D : c \in DOMAIN counts /\ c[1] = "guild_daily_activity"
    OBVIOUS
  <2> HIDE DEF D
  <2> QED BY <1>3, <2>1, <2>2
<1> QED BY <1>4, <1>5, <1>6, <1>7 DEF Inserts

\* What the guild's counters are filled with when the worker starts.
LEMMA RestartFills ==
  ASSUME TypeInv, Restart
  PROVE  \E daily, summary :
           /\ counts' = Written(summary, Written(daily, counts))
           /\ IsABag(daily) /\ DOMAIN daily \subseteq Cells
           /\ IsABag(summary) /\ DOMAIN summary \subseteq Cells
           /\ \A cell \in DOMAIN daily : cell[1] = "guild_daily_activity"
           /\ \/ daily = CountOf("guild_daily_activity", index')
              \/ \A cell \in DOMAIN daily : cell \in DOMAIN counts /\ daily[cell] = counts[cell]
           /\ \A cell \in DOMAIN summary :
                LET of == <<"guild_daily_activity", cell[2], cell[3]>>
                IN  /\ cell[1] = "guild_summary_daily"
                    /\ of \in DOMAIN daily /\ summary[cell] = daily[of]
<1> DEFINE none(t) == \A cell \in DOMAIN counts : cell[1] # t
           kept == [cell \in {c \in DOMAIN counts : c[1] = "guild_daily_activity"} |-> counts[cell]]
           daily == IF none("guild_daily_activity") THEN CountOf("guild_daily_activity", index') ELSE kept
           summary == IF none("guild_summary_daily")
                      THEN Renamed("guild_daily_activity", "guild_summary_daily", DOMAIN daily, daily)
                      ELSE EmptyBag
<1>1. index' = index \union raw /\ index' \in SUBSET Messages
  BY DEF Restart, TypeInv, StreamsOK
<1>2. counts' = Written(summary, Written(daily, counts))
  BY <1>1 DEF Restart, Only, Renamed
<1>3. IsABag(counts) /\ DOMAIN counts \subseteq Cells
  BY DEF TypeInv, CountsOK
<1>4. {"guild_daily_activity", "guild_summary_daily"} \subseteq Tables
  BY DEF Tables, GuildTables
<1>5. /\ IsABag(kept) /\ DOMAIN kept \subseteq Cells
      /\ \A cell \in DOMAIN kept : cell[1] = "guild_daily_activity"
      /\ \A cell \in DOMAIN kept : cell \in DOMAIN counts /\ kept[cell] = counts[cell]
  BY <1>3 DEF IsABag
<1>6. /\ IsABag(CountOf("guild_daily_activity", index'))
      /\ DOMAIN CountOf("guild_daily_activity", index') \subseteq Cells
      /\ \A cell \in DOMAIN CountOf("guild_daily_activity", index') : cell[1] = "guild_daily_activity"
  BY <1>1, <1>4, CountOfValues
<1> HIDE DEF kept
<1>7. /\ IsABag(daily) /\ DOMAIN daily \subseteq Cells
      /\ \A cell \in DOMAIN daily : cell[1] = "guild_daily_activity"
      /\ \/ daily = CountOf("guild_daily_activity", index')
         \/ \A cell \in DOMAIN daily : cell \in DOMAIN counts /\ daily[cell] = counts[cell]
  <2>1. CASE daily = kept
    BY <1>5, <2>1
  <2>2. CASE daily = CountOf("guild_daily_activity", index')
    BY <1>6, <2>2
  <2> QED BY <2>1, <2>2
<1> HIDE DEF daily
<1>8. \A c \in DOMAIN daily : c \in DOMAIN daily /\ c[1] = "guild_daily_activity"
  BY <1>7
<1> DEFINE R == Renamed("guild_daily_activity", "guild_summary_daily", DOMAIN daily, daily)
<1>9. /\ IsABag(R) /\ DOMAIN R \subseteq Cells
      /\ \A cell \in DOMAIN R :
           /\ cell[1] = "guild_summary_daily" /\ <<"guild_daily_activity", cell[2], cell[3]>> \in DOMAIN daily
           /\ R[cell] = daily[<<"guild_daily_activity", cell[2], cell[3]>>]
  BY <1>4, <1>7, <1>8, RenamedBag
<1>10. IsABag(EmptyBag) /\ DOMAIN EmptyBag = {}
  BY DEF EmptyBag, IsABag, SetToBag
<1>11. summary = R \/ summary = EmptyBag
  OBVIOUS
<1> HIDE DEF R, summary
<1>12. /\ IsABag(summary) /\ DOMAIN summary \subseteq Cells
       /\ \A cell \in DOMAIN summary :
            /\ cell[1] = "guild_summary_daily" /\ <<"guild_daily_activity", cell[2], cell[3]>> \in DOMAIN daily
            /\ summary[cell] = daily[<<"guild_daily_activity", cell[2], cell[3]>>]
  <2>1. CASE summary = R
    BY <1>9, <2>1
  <2>2. CASE summary = EmptyBag
    BY <1>10, <2>2
  <2> QED BY <1>11, <2>1, <2>2
<1> QED BY <1>2, <1>7, <1>12

-----------------------------------------------------------------------------
(* Types are kept.                                                          *)

LEMMA NextCases ==
  ASSUME [Next]_vars
  PROVE  \/ UNCHANGED vars \/ (\E m \in Messages : Send(m) \/ Miss(m)) \/ RequestJob \/ EnqueueFails
         \/ Begin \/ Index \/ Count \/ ReadActivity \/ ActivityGone \/ WriteHealth \/ HandlerFails
         \/ StartJob \/ StartRebuild \/ Delete \/ Insert \/ InsertConflicts \/ Recount \/ Complete
         \/ (\E c \in Channels : StartTask(c) \/ ReadPage(c) \/ CountPage(c))
         \/ JobFails \/ Restart \/ WorkerStops \/ (\E c \in Channels : Hang(c))
BY DEF Next, Gateway, Handler, Backfill

\* A run of the job that ends in an error, however that is handled.
LEMMA ErrIs ==
  ASSUME TypeInv, InsertConflicts \/ JobFails
  PROVE  /\ job.phase \in {"channels", "rebuild"} /\ job.status # "none"
         /\ JobOK' /\ job'.status \in {"failed", "running"} /\ job'.phase \in {"idle", "lost", "buried"}
         /\ task' = [c \in Channels |-> Unread] /\ rebuild' = << >>
         /\ UNCHANGED <<gatewayVars, queue, handling, left, index, counts>>
<1> USE DEF TypeInv, JobOK
<1>1. job.phase \in {"channels", "rebuild"}
  BY DEF InsertConflicts, JobFails, Rebuilds, Rebuilding
<1>2. job.status # "none" /\ counts' = counts
  BY <1>1 DEF InsertConflicts, JobFails
<1>3. PICK status \in {"failed", "running"} : Return(status) \/ Abandon(status)
  BY DEF InsertConflicts, JobFails
<1>4. MaxRetries \in Nat /\ job.attempts \in 0 .. MaxRetries
  BY IndexingAssumption
<1>5. PICK waiting \in BOOLEAN, phase \in {"idle", "lost", "buried"}, attempts \in 0 .. MaxRetries :
        (waiting => phase = "idle") /\ Leave(status, waiting, phase, attempts)
  <2>1. CASE Abandon(status)
    BY <2>1, <1>4 DEF Abandon
  <2>2. CASE Return(status)
    <3>1. PICK n \in {job.attempts + 1, 1} :
            IF n <= MaxRetries THEN Leave(status, TRUE, "idle", n) ELSE Leave(status, FALSE, "buried", 0)
      BY <2>2 DEF Return
    <3>2. n \in Nat /\ 0 \in 0 .. MaxRetries
      BY <1>4
    <3>3. CASE n <= MaxRetries
      <4>1. Leave(status, TRUE, "idle", n)
        BY <3>1, <3>3, Zenon
      <4>2. n \in 0 .. MaxRetries
        BY <1>4, <3>2, <3>3
      <4> QED BY <4>1, <4>2, Zenon
    <3>4. CASE ~(n <= MaxRetries)
      <4>1. Leave(status, FALSE, "buried", 0)
        BY <3>1, <3>4
      <4> QED BY <3>2, <4>1, Zenon
    <3> QED BY <3>3, <3>4
  <2> QED BY <1>3, <2>1, <2>2
<1>6. /\ job' = [status |-> status, waiting |-> waiting, phase |-> phase, attempts |-> attempts]
      /\ task' = [c \in Channels |-> Unread] /\ rebuild' = << >>
      /\ UNCHANGED <<gatewayVars, queue, handling, left, index>>
  BY <1>5 DEF Leave, handlerVars
<1>7. JobOK'
  BY <1>3, <1>5, <1>6
<1> QED BY <1>1, <1>2, <1>3, <1>5, <1>6, <1>7

\* The worker's task ends between two deliveries.
LEMMA StopIs ==
  ASSUME TypeInv, WorkerStops
  PROVE  /\ JobOK' /\ job.phase = "idle" /\ job'.phase \in {"stopped", "lost"} /\ job'.status = job.status
         /\ UNCHANGED <<gatewayVars, queue, handling, left, task, rebuild, index, counts>>
BY DEF WorkerStops, TypeInv, JobOK, handlerVars

LEMMA HangIs ==
  ASSUME TypeInv, NEW c \in Channels, Hang(c)
  PROVE  /\ task[c].at = "page" /\ task' = [task EXCEPT ![c].at = "hung"]
         /\ UNCHANGED <<gatewayVars, queue, handling, left, job, rebuild, index, counts>>
BY DEF Hang, At, handlerVars

\* What a page adds to the index has been sent and is in the scope.
LEMMA InsertedTypes ==
  ASSUME StreamsOK, NEW c
  PROVE  /\ Inserted(c) \subseteq sent /\ Inserted(c) \subseteq Messages
         /\ IsFiniteSet(Inserted(c)) /\ Cardinality(Inserted(c)) \in Nat
         /\ Cardinality(Inserted(c)) = 0 <=> Inserted(c) = {}
<1>1. Inserted(c) \subseteq sent /\ Inserted(c) \subseteq Messages
  BY DEF Inserted, PageOf, StreamsOK
<1> QED BY <1>1, Counting

LEMMA SequenceWidens ==
  ASSUME NEW S, NEW T, S \subseteq T, NEW q \in Seq(S)
  PROVE  q \in Seq(T)
BY SeqMonotonic

LEMMA StreamsKept ==
  ASSUME TypeInv, [Next]_vars
  PROVE  StreamsOK' /\ index \subseteq index' /\ sent \subseteq sent' /\ raw \subseteq raw'
<1> USE DEF TypeInv, StreamsOK
<1>1. CASE UNCHANGED <<gatewayVars, queue, index>>
  BY <1>1 DEF gatewayVars
<1>2. ASSUME NEW m \in Messages, Send(m)
      PROVE  StreamsOK' /\ index \subseteq index' /\ sent \subseteq sent' /\ raw \subseteq raw'
  <2>1. /\ sent' = sent \union {m} /\ raw' = raw \union {m} /\ queue' = Append(queue, m)
        /\ index' = index
    BY <1>2 DEF Send
  <2>2. queue \in Seq(raw') /\ m \in raw'
    BY <2>1, SequenceWidens
  <2>3. queue' \in Seq(raw')
    BY <2>1, <2>2, AppendProperties
  <2> QED BY <2>1, <2>3
<1>3. ASSUME NEW m \in Messages, Miss(m)
      PROVE  StreamsOK' /\ index \subseteq index' /\ sent \subseteq sent' /\ raw \subseteq raw'
  <2>1. /\ sent' = sent \union {m} /\ raw' \in {raw, raw \union {m}} /\ queue' = queue /\ index' = index
    BY <1>3 DEF Miss, handlerVars
  <2>2. queue' \in Seq(raw')
    BY <2>1, SequenceWidens
  <2> QED BY <2>1, <2>2
<1>4. CASE Begin
  BY <1>4, BeginStep DEF Begin, gatewayVars
<1>5. CASE HandlerFails \/ ActivityGone
  BY <1>5, RequeueTypes DEF HandlerFails, ActivityGone, Running, gatewayVars
<1>6. CASE Index
  <2>1. PICK m \in raw : index' = index \union {m}
    BY <1>6, IndexStep
  <2> QED BY <1>6, <2>1 DEF Index, Proceed, gatewayVars
<1>7. ASSUME NEW c \in Channels, ReadPage(c)
      PROVE  StreamsOK' /\ index \subseteq index' /\ sent \subseteq sent' /\ raw \subseteq raw'
  BY <1>7, InsertedTypes DEF ReadPage, gatewayVars, handlerVars
<1>8. CASE Restart
  BY <1>8 DEF Restart, gatewayVars
<1>9. CASE RequestJob \/ EnqueueFails \/ Count \/ ReadActivity \/ WriteHealth
           \/ StartJob \/ StartRebuild \/ Delete \/ Insert \/ InsertConflicts \/ Recount \/ Complete \/ JobFails
           \/ WorkerStops \/ (\E c \in Channels : StartTask(c) \/ CountPage(c) \/ Hang(c))
  <2>1. UNCHANGED <<gatewayVars, queue, index>>
    BY <1>9, ErrIs, StopIs, HangIs DEF RequestJob, EnqueueFails, Count, ReadActivity, WriteHealth, Proceed,
         handlerVars, StartJob, StartRebuild, Delete, Insert, Recount, Complete, Rebuilt, StartTask, CountPage
  <2> QED BY <2>1, <1>1
<1> QED BY <1>1, <1>2, <1>3, <1>4, <1>5, <1>6, <1>7, <1>8, <1>9, NextCases DEF vars, handlerVars

LEMMA HandlerKept ==
  ASSUME TypeInv, [Next]_vars
  PROVE  HandlerOK'
<1>1. index \subseteq index' /\ raw \subseteq raw'
  BY StreamsKept
<1>2. CASE UNCHANGED <<handling, left>>
  BY <1>1, <1>2 DEF TypeInv, HandlerOK
<1>3. ASSUME handling' = {}, left' = << >> PROVE HandlerOK'
  BY <1>3 DEF HandlerOK
<1>4. ASSUME NEW m \in raw, NEW k \in 0 .. 7, Stage(handling', left', m, k), k # 0 => m \in index'
      PROVE  HandlerOK'
  BY <1>1, <1>4 DEF HandlerOK
<1>5. CASE Begin
  BY <1>4, <1>5, BeginStep
<1>6. CASE Index
  <2>1. PICK m \in raw :
           /\ index' = index \union {m}
           /\ m \in index => handling' = {} /\ left' = << >>
           /\ m \notin index => Stage(handling', left', m, 1)
    BY <1>6, IndexStep
  <2> QED BY <2>1, <1>3, <1>4
<1>7. CASE Count
  <2>1. PICK m \in raw, k \in 1 .. 5 :
           /\ m \in Messages /\ m \in index /\ k \in 1 .. Steps(m)
           /\ k < Steps(m) => Stage(handling', left', m, k + 1)
           /\ k = Steps(m) => handling' = {} /\ left' = << >>
    BY <1>7, CountStep
  <2>2. Steps(m) \in {3, 6}
    BY <2>1, AggregatesAre
  <2>3. k + 1 \in 0 .. 7 /\ k + 1 # 0 /\ m \in index'
    BY <1>1, <2>1
  <2> QED BY <2>1, <2>2, <2>3, <1>3, <1>4
<1>8. CASE ReadActivity
  <2>1. PICK m \in raw :
           /\ m \in Messages /\ m \in index /\ ~m.bot /\ Stage(handling, left, m, 6)
           /\ Copies(ActivityOf(m), counts) > 0
           /\ handling' = handling /\ left' = HealthWrite(m, Copies(ActivityOf(m), counts))
    BY <1>8, ReadStep
  <2>2. Copies(ActivityOf(m), counts) \in Nat \ {0} /\ handling = {m}
    BY <2>1, CopiesType, StageFacts DEF TypeInv, CountsOK
  <2>3. Stage(handling', left', m, 7)
    BY <2>1, <2>2, StageWrites DEF HealthWrite
  <2> QED BY <1>1, <2>1, <2>3, <1>4
<1>9. CASE WriteHealth
  BY <1>3, <1>9, WriteStep
<1>10. CASE ActivityGone \/ HandlerFails \/ Restart
  BY <1>3, <1>10 DEF ActivityGone, HandlerFails, Restart
<1>11. ASSUME NEW m \in Messages, Send(m) \/ Miss(m) PROVE HandlerOK'
  BY <1>2, <1>11 DEF Send, Miss, handlerVars
<1>12. CASE RequestJob \/ EnqueueFails
           \/ StartJob \/ StartRebuild \/ Delete \/ Insert \/ InsertConflicts \/ Recount \/ Complete \/ JobFails
           \/ (\E c \in Channels : StartTask(c) \/ ReadPage(c) \/ CountPage(c) \/ Hang(c))
           \/ WorkerStops \/ UNCHANGED vars
  <2>1. UNCHANGED <<handling, left>>
    BY <1>12, ErrIs, StopIs, HangIs DEF RequestJob, EnqueueFails, handlerVars, ReadPage, vars,
         StartJob, StartRebuild, Delete, Insert, Recount, Complete, Rebuilt, StartTask, CountPage
  <2> QED BY <2>1, <1>2
<1> QED BY <1>5, <1>6, <1>7, <1>8, <1>9, <1>10, <1>11, <1>12, NextCases

LEMMA RebuildIs ==
  /\ Rebuild \in Seq(RebuildStatements) /\ Len(Rebuild) = 11
  /\ Rebuild[1] = Do("delete", "member_daily_activity")
  /\ Rebuild[2] = Do("insert", "member_daily_activity")
  /\ Rebuild[3] = Do("delete", "channel_daily_activity")
  /\ Rebuild[4] = Do("insert", "channel_daily_activity")
  /\ Rebuild[5] = Do("delete", "channel_health_daily")
  /\ Rebuild[6] = Do("insert", "channel_health_daily")
  /\ Rebuild[7] = Do("delete", "guild_daily_activity")
  /\ Rebuild[8] = Do("insert", "guild_daily_activity")
  /\ Rebuild[9] = Do("delete", "guild_summary_daily")
  /\ Rebuild[10] = Do("insert", "guild_summary_daily")
  /\ Rebuild[11] = Do("recount", "public_stats_cache")
<1>1. Inserts \union {"public_stats_cache"} \subseteq Tables
  BY DEF Inserts, Tables, HumanTables, GuildTables
<1>2. \A op \in {"delete", "insert", "recount"}, t \in Tables : Do(op, t) \in RebuildStatements
  BY DEF Do, RebuildStatements
<1>3. \A t \in Inserts : Do("delete", t) \in RebuildStatements /\ Do("insert", t) \in RebuildStatements
  BY <1>1, <1>2
<1>4. Rebuild \in Seq(RebuildStatements)
  BY <1>1, <1>2, <1>3 DEF Rebuild, Inserts
<1> QED BY <1>4 DEF Rebuild

LEMMA RebuildBegins ==
  DoneRebuild(Rebuild, 0) /\ DoneRebuild(<< >>, 11)
<1>1. DoneRebuild(Rebuild, 0)
  BY RebuildIs DEF DoneRebuild
<1> QED BY <1>1 DEF DoneRebuild

\* The statement that is next, and what it leaves.
LEMMA RebuildGoesOn ==
  ASSUME NEW r, NEW k \in 0 .. 11, DoneRebuild(r, k)
  PROVE  /\ r # << >> <=> k # 11
         /\ r # << >> => k + 1 \in 1 .. 11 /\ Head(r) = Rebuild[k + 1] /\ DoneRebuild(Tail(r), k + 1)
<1>1. r \in Seq(RebuildStatements) /\ Len(r) = 11 - k /\ \A i \in 1 .. 11 - k : r[i] = Rebuild[k + i]
  BY DEF DoneRebuild
<1>2. r # << >> <=> k # 11
  BY <1>1, EmptySeq
<1>3. ASSUME r # << >>
      PROVE  k + 1 \in 1 .. 11 /\ Head(r) = Rebuild[k + 1] /\ DoneRebuild(Tail(r), k + 1)
  <2>1. k + 1 \in 1 .. 11 /\ 11 - k >= 1
    BY <1>2, <1>3
  <2>2. /\ Tail(r) \in Seq(RebuildStatements) /\ Len(Tail(r)) = Len(r) - 1
        /\ \A i \in 1 .. Len(Tail(r)) : Tail(r)[i] = r[i + 1]
    BY <1>1, <1>3, HeadTailProperties
  <2>3. Len(Tail(r)) = 11 - (k + 1)
    BY <1>1, <2>1, <2>2
  <2>4. ASSUME NEW i \in 1 .. 11 - (k + 1) PROVE Tail(r)[i] = Rebuild[(k + 1) + i]
    <3>1. i \in Int /\ i + 1 \in 1 .. 11 - k /\ k + (i + 1) = (k + 1) + i
      BY <2>1
    <3> QED BY <1>1, <2>2, <2>3, <3>1
  <2>5. Head(r) = Rebuild[k + 1]
    BY <1>1, <1>3, <2>1
  <2> QED BY <2>1, <2>2, <2>3, <2>4, <2>5 DEF DoneRebuild
<1> QED BY <1>2, <1>3

LEMMA RebuildOnce ==
  ASSUME NEW r, NEW j \in 0 .. 11, NEW k \in 0 .. 11, DoneRebuild(r, j), DoneRebuild(r, k)
  PROVE  j = k
BY DEF DoneRebuild

\* The statements by their place.
LEMMA RebuildPlaces ==
  ASSUME NEW k \in 1 .. 11
  PROVE  /\ Rebuild[k].op = "delete" =>
              /\ k \in {1, 3, 5, 7, 9} /\ Rebuild[k].arg \in Inserts
              /\ MadeBy[Rebuild[k].arg] = k + 1
         /\ Rebuild[k].op = "insert" =>
              /\ k \in {2, 4, 6, 8, 10} /\ Rebuild[k].arg \in Inserts
              /\ MadeBy[Rebuild[k].arg] = k
         /\ Rebuild[k].op = "recount" => k = 11
<1>1. k \in {1, 2, 3, 4, 5, 6, 7, 8, 9, 10, 11}
  OBVIOUS
<1>2. \A op, t : Do(op, t).op = op /\ Do(op, t).arg = t
  BY DEF Do
<1>3. CASE k = 11
  BY <1>2, <1>3, RebuildIs
<1>4. CASE k \in {1, 2, 3, 4}
  BY <1>2, <1>4, RebuildIs DEF MadeBy, Inserts
<1>5. CASE k \in {5, 6, 7}
  BY <1>2, <1>5, RebuildIs DEF MadeBy, Inserts
<1>6. CASE k \in {8, 9, 10}
  BY <1>2, <1>6, RebuildIs DEF MadeBy, Inserts
<1> QED BY <1>1, <1>3, <1>4, <1>5, <1>6

LEMMA RebuildRuns ==
  ASSUME RebuildOK, NEW op, Rebuilds(op)
  PROVE  \E k \in 0 .. 10 :
           /\ DoneRebuild(rebuild, k) /\ DoneRebuild(Tail(rebuild), k + 1) /\ k + 1 \in 1 .. 11
           /\ Head(rebuild) = Rebuild[k + 1] /\ Rebuild[k + 1].op = op
<1>1. PICK k \in 0 .. 11 : DoneRebuild(rebuild, k)
  BY DEF RebuildOK
<1>2. rebuild # << >> /\ Head(rebuild).op = op
  BY DEF Rebuilds
<1>3. k # 11 /\ k + 1 \in 1 .. 11 /\ Head(rebuild) = Rebuild[k + 1] /\ DoneRebuild(Tail(rebuild), k + 1)
  BY <1>1, <1>2, RebuildGoesOn
<1>4. k \in 0 .. 10
  BY <1>3
<1> QED BY <1>1, <1>2, <1>3, <1>4

LEMMA RebuildKept ==
  ASSUME TypeInv, [Next]_vars
  PROVE  RebuildOK'
<1>1. RebuildOK
  BY DEF TypeInv
<1>2. CASE UNCHANGED rebuild /\ (Rebuilding => Rebuilding')
  BY <1>1, <1>2 DEF RebuildOK
<1>3. CASE rebuild' = << >>
  <2>1. \E k \in 0 .. 11 : DoneRebuild(rebuild', k)
    BY <1>3, RebuildBegins
  <2> QED BY <2>1, <1>3 DEF RebuildOK
<1>4. CASE StartRebuild
  <2>1. \E k \in 0 .. 11 : DoneRebuild(rebuild', k)
    BY <1>4, RebuildBegins DEF StartRebuild
  <2>2. Rebuilding'
    BY <1>4 DEF StartRebuild, Rebuilding, TypeInv, JobOK
  <2> QED BY <2>1, <2>2 DEF RebuildOK
<1>5. CASE Delete \/ Insert \/ Recount
  <2>1. PICK op : Rebuilds(op)
    BY <1>5 DEF Delete, Insert, Recount
  <2>2. rebuild' = Tail(rebuild) /\ job' = job /\ Rebuilding
    BY <1>5 DEF Delete, Insert, Recount, Rebuilt, Rebuilds
  <2>3. PICK k \in 0 .. 10 : DoneRebuild(Tail(rebuild), k + 1) /\ k + 1 \in 1 .. 11
    BY <1>1, <2>1, RebuildRuns
  <2>4. \E i \in 0 .. 11 : DoneRebuild(rebuild', i)
    BY <2>2, <2>3
  <2> QED BY <2>2, <2>4 DEF RebuildOK, Rebuilding
<1>6. CASE StartJob
  <2>1. ~Rebuilding
    BY <1>6 DEF StartJob, TypeInv, JobOK, Rebuilding
  <2>2. rebuild' = rebuild
    BY <1>6 DEF StartJob
  <2> QED BY <2>1, <2>2, <1>1 DEF RebuildOK
<1>7. CASE RequestJob \/ EnqueueFails
  <2>1. rebuild' = rebuild /\ job'.phase = job.phase
    BY <1>7 DEF RequestJob, EnqueueFails, TypeInv, JobOK
  <2> QED BY <2>1, <1>2 DEF Rebuilding
<1>8. CASE Complete
  BY <1>3, <1>8 DEF Complete
<1>9. CASE InsertConflicts \/ JobFails \/ Restart
  BY <1>3, <1>9, ErrIs DEF Restart
<1>11. CASE WorkerStops \/ \E c \in Channels : Hang(c)
  <2>1. UNCHANGED rebuild /\ (Rebuilding => Rebuilding')
    BY <1>11, StopIs, HangIs DEF Rebuilding
  <2> QED BY <2>1, <1>2
<1>10. CASE (\E m \in Messages : Send(m) \/ Miss(m)) \/ UNCHANGED vars
         \/ Begin \/ Index \/ Count \/ ReadActivity \/ ActivityGone \/ WriteHealth \/ HandlerFails
         \/ (\E c \in Channels : StartTask(c) \/ ReadPage(c) \/ CountPage(c))
  <2>1. UNCHANGED <<job, rebuild>>
    BY <1>10 DEF Send, Miss, vars, jobVars, Begin, Index, Count, ReadActivity, ActivityGone, WriteHealth,
         HandlerFails, Proceed, StartTask, ReadPage, CountPage
  <2> QED BY <2>1, <1>2 DEF Rebuilding
<1> QED BY <1>4, <1>5, <1>6, <1>7, <1>8, <1>9, <1>10, <1>11, NextCases

LEMMA JobKept ==
  ASSUME TypeInv, [Next]_vars
  PROVE  JobOK'
<1> USE DEF TypeInv, JobOK
<1>1. CASE UNCHANGED job
  BY <1>1
<1>2. CASE RequestJob \/ EnqueueFails
  BY <1>2 DEF RequestJob, EnqueueFails, Requestable
<1>3. CASE StartJob
  BY <1>3 DEF StartJob
<1>4. CASE StartRebuild \/ Complete
  BY <1>4 DEF StartRebuild, Complete, Rebuilding
<1>5. CASE WorkerStops \/ \E c \in Channels : Hang(c)
  BY <1>1, <1>5, StopIs, HangIs
<1>6. CASE InsertConflicts \/ JobFails
  BY <1>6, ErrIs
<1>8. CASE Restart
  BY <1>8 DEF Restart
<1>7. CASE (\E m \in Messages : Send(m) \/ Miss(m)) \/ UNCHANGED vars
         \/ Begin \/ Index \/ Count \/ ReadActivity \/ ActivityGone \/ WriteHealth \/ HandlerFails
         \/ Delete \/ Insert \/ Recount
         \/ (\E c \in Channels : StartTask(c) \/ ReadPage(c) \/ CountPage(c))
  <2>1. UNCHANGED job
    BY <1>7 DEF Send, Miss, vars, jobVars, Begin, Index, Count, ReadActivity, ActivityGone, WriteHealth,
         HandlerFails, Proceed, StartTask, ReadPage, CountPage, Delete, Insert, Recount, Rebuilt
  <2> QED BY <2>1, <1>1
<1> QED BY <1>2, <1>3, <1>4, <1>5, <1>6, <1>7, <1>8, NextCases

LEMMA ChannelsCount ==
  ASSUME NEW S, S \subseteq Channels
  PROVE  IsFiniteSet(S) /\ Cardinality(S) \in Nat /\ \A T \in SUBSET S : Cardinality(T) <= Cardinality(S)
<1>1. IsFiniteSet(S)
  BY IndexingAssumption, FS_Subset
<1> QED BY <1>1, FS_Subset, FS_CardinalityType

LEMMA UnreadTasks ==
  ASSUME task' = [c \in Channels |-> Unread]
  PROVE  TaskOK'
<1>1. Unread \in Tasks /\ Unread.at = "todo" /\ Unread.new = 0 /\ Unread.cursor = 0
  BY DEF Unread, Tasks
<1>2. task' \in [Channels -> Tasks] /\ \A c \in Channels : task'[c] = Unread
  BY <1>1
<1>3. InFlight' = {}
  BY <1>1, <1>2 DEF InFlight
<1> QED BY <1>1, <1>2, <1>3, FS_EmptySet, IndexingAssumption DEF TaskOK

LEMMA TaskKept ==
  ASSUME TypeInv, [Next]_vars
  PROVE  TaskOK'
<1>1. TaskOK /\ InFlight \subseteq Channels
  BY DEF TypeInv, InFlight
<1>2. CASE UNCHANGED task
  BY <1>1, <1>2 DEF TaskOK, InFlight
<1>3. CASE StartJob \/ InsertConflicts \/ JobFails \/ Restart
  <2>1. task' = [c \in Channels |-> Unread]
    BY <1>3, ErrIs DEF StartJob, Restart
  <2> QED BY <2>1, UnreadTasks
\* One task takes a step to value t.
<1>4. ASSUME NEW c \in Channels, NEW t \in Tasks, task' = [task EXCEPT ![c] = t],
             t.at = "count" <=> t.new # 0, Cardinality(InFlight') <= Concurrency
      PROVE  TaskOK'
  BY <1>1, <1>4 DEF TaskOK
<1>5. ASSUME NEW c \in Channels, StartTask(c) PROVE TaskOK'
  <2>1. Reading \in Tasks /\ Reading.at = "page" /\ Reading.new = 0
    BY FirstCursor DEF Reading, Tasks
  <2>2. task' = [task EXCEPT ![c] = Reading] /\ Cardinality(InFlight) < Concurrency
    BY <1>5 DEF StartTask
  <2>3. InFlight' \subseteq InFlight \union {c}
    BY <1>1, <2>2 DEF InFlight, TaskOK
  <2>4. InFlight \union {c} \subseteq Channels
    BY <1>1
  <2>5. Cardinality(InFlight') <= Cardinality(InFlight \union {c}) /\ Cardinality(InFlight') \in Nat
    BY <2>3, <2>4, ChannelsCount
  <2>6. Cardinality(InFlight \union {c}) <= Cardinality(InFlight) + 1 /\ Cardinality(InFlight) \in Nat
        /\ Cardinality(InFlight \union {c}) \in Nat
    BY <1>1, <2>4, ChannelsCount, FS_AddElement
  <2>7. Cardinality(InFlight') <= Concurrency
    BY <2>2, <2>5, <2>6, IndexingAssumption
  <2> QED BY <1>4, <2>1, <2>2, <2>7
<1>6. ASSUME NEW c \in Channels, NEW t \in Tasks, task' = [task EXCEPT ![c] = t],
             t.at = "count" <=> t.new # 0, c \in InFlight
      PROVE  TaskOK'
  <2>1. InFlight' \subseteq InFlight
    BY <1>1, <1>6 DEF InFlight, TaskOK
  <2>2. Cardinality(InFlight') <= Cardinality(InFlight) /\ Cardinality(InFlight) \in Nat
        /\ Cardinality(InFlight') \in Nat
    BY <1>1, <2>1, ChannelsCount
  <2>3. Cardinality(InFlight') <= Concurrency
    BY <1>1, <2>2, IndexingAssumption DEF TaskOK
  <2> QED BY <1>4, <1>6, <2>3
<1>7. ASSUME NEW c \in Channels, ReadPage(c) PROVE TaskOK'
  <2> DEFINE new == Inserted(c)
             ends == Cardinality(PageOf(c)) < PageSize \/ \E m \in PageOf(c) : m.at < From
             t == [at |-> IF new # {} THEN "count" ELSE IF ends THEN "done" ELSE "page",
                   cursor |-> IF ends THEN 0 ELSE Min({m.at : m \in PageOf(c)}),
                   new |-> Cardinality(new)]
  <2>1. task' = [task EXCEPT ![c] = t]
    BY <1>7 DEF ReadPage
  <2>2. /\ Cardinality(new) \in Nat /\ (Cardinality(new) = 0 <=> new = {})
        /\ ~ends => Min({m.at : m \in PageOf(c)}) \in Nat
    BY InsertedTypes, FullPageGoesOn DEF TypeInv
  <2>3. t \in Tasks /\ (t.at = "count" <=> t.new # 0)
    <3> HIDE DEF new, ends
    <3> QED BY <2>2 DEF Tasks
  <2>4. c \in InFlight
    BY <1>7 DEF ReadPage, At, InFlight
  <2> HIDE DEF t
  <2> QED BY <1>6, <2>1, <2>3, <2>4
<1>8. ASSUME NEW c \in Channels, CountPage(c) PROVE TaskOK'
  <2> DEFINE t == [task[c] EXCEPT !.at = IF task[c].cursor = 0 THEN "done" ELSE "page", !.new = 0]
  <2>1. task' = [task EXCEPT ![c] = t]
    BY <1>1, <1>8 DEF CountPage, TaskOK, Tasks
  <2>2. t \in Tasks /\ t.at # "count" /\ t.new = 0
    BY <1>1 DEF TaskOK, Tasks
  <2>3. c \in InFlight
    BY <1>8 DEF CountPage, At, InFlight
  <2> HIDE DEF t
  <2> QED BY <1>6, <2>1, <2>2, <2>3
<1>9. CASE (\E m \in Messages : Send(m) \/ Miss(m)) \/ UNCHANGED vars \/ RequestJob \/ EnqueueFails
         \/ Begin \/ Index \/ Count \/ ReadActivity \/ ActivityGone \/ WriteHealth \/ HandlerFails
         \/ StartRebuild \/ Complete \/ Delete \/ Insert \/ Recount
  <2>1. UNCHANGED task
    BY <1>9 DEF Send, Miss, vars, jobVars, RequestJob, EnqueueFails, Begin, Index, Count, ReadActivity,
         ActivityGone, WriteHealth, HandlerFails, Proceed, StartRebuild, Complete, Delete, Insert, Recount, Rebuilt
  <2> QED BY <2>1, <1>2
<1>10. ASSUME NEW c \in Channels, Hang(c) PROVE TaskOK'
  <2> DEFINE t == [task[c] EXCEPT !.at = "hung"]
  <2>1. task' = [task EXCEPT ![c] = t] /\ task[c].at = "page"
    BY <1>1, <1>10, HangIs DEF TypeInv, TaskOK, Tasks
  <2>2. t \in Tasks /\ t.at = "hung" /\ t.new = 0
    BY <1>1, <2>1 DEF TaskOK, Tasks
  <2>3. c \in InFlight
    BY <2>1 DEF InFlight
  <2> HIDE DEF t
  <2> QED BY <1>6, <2>1, <2>2, <2>3
<1>11. CASE WorkerStops
  BY <1>2, <1>11, StopIs
<1> QED BY <1>3, <1>5, <1>7, <1>8, <1>9, <1>10, <1>11, NextCases

\* What a deletion leaves.
LEMMA DeleteIs ==
  ASSUME TypeInv, Delete
  PROVE  LET t == Head(rebuild).arg
             Gone(cell) == cell[1] = t /\ InScope(t, cell[3])
         IN  /\ IsABag(counts') /\ DOMAIN counts' = {cell \in DOMAIN counts : ~Gone(cell)}
             /\ \A cell : Copies(cell, counts') = IF Gone(cell) THEN 0 ELSE Copies(cell, counts)
<1> DEFINE t == Head(rebuild).arg
           Gone(cell) == cell[1] = t /\ InScope(t, cell[3])
           D == {cell \in DOMAIN counts : ~Gone(cell)}
<1>1. counts' = [cell \in D |-> counts[cell]]
  BY DEF Delete, Only
<1>2. IsABag(counts)
  BY DEF TypeInv, CountsOK
<1>3. \A cell \in D : cell \in DOMAIN counts /\ ~Gone(cell)
  OBVIOUS
<1>4. \A cell : cell \in D <=> cell \in DOMAIN counts /\ ~Gone(cell)
  OBVIOUS
<1> HIDE DEF D, Gone
<1>5. IsABag(counts') /\ DOMAIN counts' = D /\ \A cell \in D : counts'[cell] = counts[cell]
  BY <1>1, <1>2, <1>3 DEF IsABag
<1>6. \A cell : Copies(cell, counts') = IF Gone(cell) THEN 0 ELSE Copies(cell, counts)
  BY <1>4, <1>5 DEF Copies
<1> QED BY <1>5, <1>6 DEF D, Gone

\* A statement of the rebuild, and the table it is about.
LEMMA InsertIs ==
  ASSUME TypeInv, Insert
  PROVE  LET t == Head(rebuild).arg
         IN  t \in Inserts /\ counts' = Written(Source(t), counts)
<1>1. PICK k \in 0 .. 10 : k + 1 \in 1 .. 11 /\ Head(rebuild) = Rebuild[k + 1] /\ Rebuild[k + 1].op = "insert"
  BY RebuildRuns DEF TypeInv, Insert
<1>2. Head(rebuild).arg \in Inserts
  BY <1>1, RebuildPlaces
<1> QED BY <1>2 DEF Insert

LEMMA CountsKept ==
  ASSUME TypeInv, [Next]_vars
  PROVE  CountsOK'
<1>1. IsABag(counts) /\ DOMAIN counts \subseteq Cells
  BY DEF TypeInv, CountsOK
<1>2. CASE UNCHANGED counts
  BY <1>1, <1>2 DEF CountsOK
<1>3. ASSUME NEW B, IsABag(B), DOMAIN B \subseteq Cells, counts' = counts (+) B \/ counts' = Written(B, counts)
      PROVE  CountsOK'
  <2>1. IsABag(counts') /\ DOMAIN counts' \subseteq Cells
    <3>1. CASE counts' = counts (+) B
      <4>1. IsABag(counts (+) B) /\ DOMAIN (counts (+) B) = DOMAIN counts \union DOMAIN B
        BY <1>1, <1>3, AddedBag
      <4> QED BY <1>1, <1>3, <3>1, <4>1
    <3>2. CASE counts' = Written(B, counts)
      <4>1. IsABag(Written(B, counts)) /\ DOMAIN Written(B, counts) = DOMAIN B \union DOMAIN counts
        BY <1>1, <1>3, WrittenBag
      <4> QED BY <1>1, <1>3, <3>2, <4>1
    <3> QED BY <1>3, <3>1, <3>2
  <2> QED BY <2>1 DEF CountsOK
<1>4. CASE Count
  <2>1. PICK m \in raw, k \in 1 .. 5 :
          m \in Messages /\ k \in 1 .. Steps(m) /\ counts' = counts (+) SetToBag({CellAt(k, m)})
    BY <1>4, CountStep
  <2>2. CellAt(k, m) \in Cells
    BY <2>1, AggregatesAre, CellTypes DEF CellAt
  <2>3. IsABag(SetToBag({CellAt(k, m)})) /\ DOMAIN SetToBag({CellAt(k, m)}) \subseteq Cells
    BY <2>2, OneBag
  <2> QED BY <1>3, <2>1, <2>3
<1>5. CASE WriteHealth
  <2>1. PICK m \in raw, n \in Nat \ {0} :
          m \in Messages /\ counts' = Written(Row(CellOf("channel_health_daily", m), n), counts)
    BY <1>5, WriteStep
  <2>2. CellOf("channel_health_daily", m) \in Cells
    BY <2>1, CellTypes DEF Tables, HumanTables
  <2>3. /\ IsABag(Row(CellOf("channel_health_daily", m), n))
        /\ DOMAIN Row(CellOf("channel_health_daily", m), n) \subseteq Cells
    BY <2>1, <2>2 DEF Row, IsABag
  <2> QED BY <1>3, <2>1, <2>3
<1>6. ASSUME NEW c \in Channels, CountPage(c) PROVE CountsOK'
  <2>1. counts' = counts (+) Row(Stats, task[c].new)
    BY <1>6 DEF CountPage, Stats
  <2>2. task[c].new \in Nat \ {0}
    BY <1>6 DEF CountPage, At, TypeInv, TaskOK, Tasks
  <2>3. Stats \in Cells
    BY DEF Stats, Cells, Keys, Tables
  <2>4. IsABag(Row(Stats, task[c].new)) /\ DOMAIN Row(Stats, task[c].new) \subseteq Cells
    BY <2>2, <2>3 DEF Row, IsABag
  <2> QED BY <1>3, <2>1, <2>4
<1>7. CASE Delete
  <2>1. IsABag(counts') /\ DOMAIN counts' \subseteq DOMAIN counts
    BY <1>7, DeleteIs
  <2> QED BY <1>1, <2>1 DEF CountsOK
<1>8. CASE Insert
  <2> DEFINE t == Head(rebuild).arg
  <2>1. t \in Inserts /\ counts' = Written(Source(t), counts)
    BY <1>8, InsertIs
  <2>2. IsABag(Source(t)) /\ DOMAIN Source(t) \subseteq Cells
    BY <2>1, SourceTypes DEF TypeInv
  <2> QED BY <1>3, <2>1, <2>2
<1>9. CASE Recount
  <2>1. counts' = Written(CountOf("public_stats_cache", index), counts)
    BY <1>9 DEF Recount
  <2>2. /\ IsABag(CountOf("public_stats_cache", index))
        /\ DOMAIN CountOf("public_stats_cache", index) \subseteq Cells
    BY CountOfValues, IndexTypes, TableNames DEF TypeInv
  <2> QED BY <1>3, <2>1, <2>2
<1>10. CASE Restart
  <2>1. PICK daily, summary :
           /\ counts' = Written(summary, Written(daily, counts))
           /\ IsABag(daily) /\ DOMAIN daily \subseteq Cells
           /\ IsABag(summary) /\ DOMAIN summary \subseteq Cells
    BY <1>10, RestartFills
  <2>2. IsABag(Written(daily, counts)) /\ DOMAIN Written(daily, counts) = DOMAIN daily \union DOMAIN counts
    BY <1>1, <2>1, WrittenBag
  <2> DEFINE W == Written(daily, counts)
  <2>3. IsABag(W) /\ DOMAIN W \subseteq Cells
    BY <1>1, <2>1, <2>2
  <2> HIDE DEF W
  <2>4. IsABag(Written(summary, W)) /\ DOMAIN Written(summary, W) = DOMAIN summary \union DOMAIN W
    BY <2>1, <2>3, WrittenBag
  <2>5. counts' = Written(summary, W)
    BY <2>1 DEF W
  <2> QED BY <2>1, <2>3, <2>4, <2>5 DEF CountsOK
<1>11. CASE (\E m \in Messages : Send(m) \/ Miss(m)) \/ UNCHANGED vars \/ RequestJob \/ EnqueueFails
         \/ Begin \/ Index \/ ReadActivity \/ ActivityGone \/ HandlerFails
         \/ StartJob \/ StartRebuild \/ InsertConflicts \/ Complete \/ JobFails \/ WorkerStops
         \/ (\E c \in Channels : StartTask(c) \/ ReadPage(c) \/ Hang(c))
  <2>1. UNCHANGED counts
    BY <1>11, ErrIs, StopIs, HangIs DEF Send, Miss, vars, RequestJob, EnqueueFails, Begin, Index, ReadActivity,
         ActivityGone, HandlerFails, StartJob, StartRebuild, Complete, StartTask, ReadPage
  <2> QED BY <2>1, <1>2
<1> QED BY <1>4, <1>5, <1>6, <1>7, <1>8, <1>9, <1>10, <1>11, NextCases

LEMMA FlagsKept ==
  ASSUME TypeInv, [Next]_vars
  PROVE  raced' \in BOOLEAN /\ faultCount' \in 0 .. MaxFaults /\ (raced => raced')
<1>1. raced \in BOOLEAN /\ faultCount \in Nat /\ MaxFaults \in Nat /\ faultCount <= MaxFaults
  BY IndexingAssumption DEF TypeInv
<1>2. faultCount' = faultCount \/ Fault
  BY NextCases DEF vars, Send, Miss, RequestJob, EnqueueFails, Begin, Index, Count, ReadActivity, ActivityGone,
       WriteHealth, HandlerFails, Proceed, StartJob, StartRebuild, Delete, Insert, InsertConflicts, Recount,
       Rebuilt, Complete, JobFails, StartTask, ReadPage, CountPage, Restart, WorkerStops, Hang
<1>3. raced' \in {raced, TRUE}
  BY <1>1, NextCases DEF vars, Send, Miss, RequestJob, EnqueueFails, Begin, Index, Count, ReadActivity, ActivityGone,
       WriteHealth, HandlerFails, Proceed, StartJob, StartRebuild, Delete, Insert, InsertConflicts, Recount,
       Rebuilt, Complete, JobFails, StartTask, ReadPage, CountPage, Restart, WorkerStops, Hang, Rebuilding, Busy
<1>4. faultCount' \in 0 .. MaxFaults
  BY <1>1, <1>2 DEF Fault
<1>5. raced' \in BOOLEAN /\ (raced => raced')
  BY <1>1, <1>3
<1> QED BY <1>4, <1>5

LEMMA TypesKept == TypeInv /\ [Next]_vars => TypeInv'
BY StreamsKept, HandlerKept, CountsKept, JobKept, TaskKept, RebuildKept, FlagsKept DEF TypeInv

LEMMA TypesBegin == Init => TypeInv
<1> SUFFICES ASSUME Init PROVE TypeInv
  OBVIOUS
<1> USE DEF Init
<1>1. StreamsOK
  BY IndexingAssumption, EmptySeq DEF StreamsOK
<1>2. HandlerOK
  BY DEF HandlerOK
<1>3. CountsOK
  BY DEF CountsOK, EmptyBag, SetToBag, IsABag
<1>4. JobOK
  <2>1. 0 \in 0 .. MaxRetries
    BY IndexingAssumption
  <2> QED BY <2>1 DEF JobOK
<1>5. TaskOK
  <2>1. Unread \in Tasks /\ Unread.at = "todo" /\ Unread.new = 0
    BY DEF Unread, Tasks
  <2>2. task \in [Channels -> Tasks] /\ \A c \in Channels : task[c] = Unread
    BY <2>1
  <2>3. InFlight = {}
    BY <2>1, <2>2 DEF InFlight
  <2> QED BY <2>1, <2>2, <2>3, FS_EmptySet, IndexingAssumption DEF TaskOK
<1>6. RebuildOK
  BY RebuildBegins DEF RebuildOK
<1>7. raced \in BOOLEAN /\ faultCount \in 0 .. MaxFaults
  <2>1. MaxFaults \in Nat
    BY IndexingAssumption
  <2>2. faultCount \in 0 .. MaxFaults
    BY <2>1
  <2> QED BY <2>2
<1> QED BY <1>1, <1>2, <1>3, <1>4, <1>5, <1>6, <1>7 DEF TypeInv

LEMMA TypesImply == TypeInv => TypeOK
<1> SUFFICES ASSUME TypeInv PROVE TypeOK
  OBVIOUS
<1>1. handling \subseteq raw /\ Cardinality(handling) <= 1 /\ (Busy <=> left # << >>)
  <2>1. CASE handling = {}
    <3>1. left = << >>
      BY <2>1 DEF TypeInv, HandlerOK, Stage
    <3> QED BY <2>1, <3>1, FS_EmptySet DEF Busy
  <2>2. CASE Busy
    <3>1. PICK m \in raw : handling = {m} /\ left # << >>
      BY <2>2, HasStage
    <3>2. Cardinality({m}) = 1
      BY FS_Singleton
    <3> QED BY <2>2, <3>1, <3>2
  <2> QED BY <2>1, <2>2 DEF Busy
<1>2. \A cell \in DOMAIN counts : cell[1] \in Tables
  BY CellParts DEF TypeInv, CountsOK
<1> QED BY <1>1, <1>2 DEF TypeInv, StreamsOK, CountsOK, JobOK, TaskOK, Tasks, RebuildOK, TypeOK

\* The stream, the handler, the counters, the job and its tasks keep their shape,
\* no more tasks read channels than WORKER_BACKFILL_CHANNEL_CONCURRENCY allows,
\* and the handler and the rebuild have statements left exactly while they run.
THEOREM Types == Spec => []TypeOK
<1>1. Spec => []TypeInv
  BY TypesBegin, TypesKept, PTL DEF Spec
<1> QED BY <1>1, TypesImply, PTL

-----------------------------------------------------------------------------
(* A completed job has read everything.                                     *)

Progress == ScopeSent /\ ReadSoFar /\ AllRead /\ TasksDone

\* Where the job's row and the run of the job can go.
LEMMA JobMoves ==
  ASSUME TypeInv, [Next]_vars
  PROVE  \/ UNCHANGED job
         \/ /\ Requestable /\ job'.status = "queued" /\ job'.phase \in {"idle", "stopped"}
            /\ UNCHANGED <<sent, index, task>>
         \/ StartJob \/ StartRebuild \/ Complete
         \/ /\ job'.status \in {"failed", "running"} /\ job'.phase \in {"idle", "lost", "buried"}
            /\ job.status # "none"
         \/ WorkerStops \/ Restart
<1> USE DEF TypeInv, JobOK
<1>1. CASE RequestJob \/ EnqueueFails
  BY <1>1 DEF RequestJob, EnqueueFails, Requestable, gatewayVars
<1>2. CASE InsertConflicts \/ JobFails
  BY <1>2, ErrIs
<1>3. CASE (\E m \in Messages : Send(m) \/ Miss(m)) \/ UNCHANGED vars
         \/ Begin \/ Index \/ Count \/ ReadActivity \/ ActivityGone \/ WriteHealth \/ HandlerFails
         \/ Delete \/ Insert \/ Recount
         \/ (\E c \in Channels : StartTask(c) \/ ReadPage(c) \/ CountPage(c) \/ Hang(c))
  BY <1>3, HangIs DEF Send, Miss, vars, jobVars, Begin, Index, Count, ReadActivity, ActivityGone, WriteHealth,
         HandlerFails, Proceed, StartTask, ReadPage, CountPage, Delete, Insert, Recount, Rebuilt
<1> QED BY <1>1, <1>2, <1>3, NextCases

\* Once it is asked for, nothing is sent any more that the job covers.
LEMMA WantedKept ==
  ASSUME TypeInv, ScopeSent, job.status # "none", [Next]_vars
  PROVE  \A c : Wanted(c)' = Wanted(c)
<1>1. CASE sent' = sent
  BY <1>1 DEF Wanted
<1>2. ASSUME NEW m \in Messages, Send(m) \/ Miss(m) PROVE \A c : Wanted(c)' = Wanted(c)
  <2>1. sent' = sent \union {m} /\ m \notin sent
    BY <1>2 DEF Send, Miss, Follows
  <2>2. m.at \notin From .. To
    BY <2>1, IndexingAssumption DEF ScopeSent
  <2> QED BY <2>1, <2>2 DEF Wanted
<1>3. CASE ~\E m \in Messages : Send(m) \/ Miss(m)
  <2>1. sent' = sent
    BY <1>3, NextCases, ErrIs, StopIs, HangIs DEF vars, gatewayVars, RequestJob, EnqueueFails, Begin, Index, Count,
       ReadActivity, ActivityGone, WriteHealth, HandlerFails, Proceed, StartJob, StartRebuild, Delete, Insert,
       Recount, Rebuilt, Complete, StartTask, ReadPage, CountPage, Restart
  <2> QED BY <2>1, <1>1
<1> QED BY <1>2, <1>3

LEMMA ScopeSentKept ==
  ASSUME TypeInv, ScopeSent, [Next]_vars
  PROVE  ScopeSent'
<1>1. sent \subseteq sent'
  BY StreamsKept
<1>2. CASE job.status # "none"
  BY <1>1, <1>2 DEF ScopeSent
<1>3. CASE job.status = "none"
  <2>1. job'.status = "none" \/ Requestable
    BY <1>3, JobMoves, StopIs DEF StartJob, StartRebuild, Complete, Restart, TypeInv, JobOK, Rebuilding
  <2> QED BY <1>1, <2>1 DEF ScopeSent, Requestable
<1> QED BY <1>2, <1>3

\* A page brings everything wanted from its oldest message up into the index;
\* the last one everything.
LEMMA PageBrings ==
  ASSUME TypeInv, NEW c \in Channels, ReadPage(c),
         {m \in Wanted(c) : m.at >= task[c].cursor} \subseteq index
  PROVE  /\ {m \in Wanted(c) : m.at >= task'[c].cursor} \subseteq index'
         /\ task'[c].at = "done" => Wanted(c) \subseteq index'
<1> DEFINE ends == Cardinality(PageOf(c)) < PageSize \/ \E m \in PageOf(c) : m.at < From
<1>1. /\ task'[c].cursor = IF ends THEN 0 ELSE Min({m.at : m \in PageOf(c)})
      /\ task'[c].at = "done" => ends
      /\ index' = index \union Inserted(c)
  BY DEF ReadPage, TypeInv, TaskOK
<1>2. StreamsOK /\ task[c].cursor \in Nat
  BY DEF TypeInv, TaskOK, Tasks
<1>3. \A m \in Wanted(c) : m.at \in Nat /\ m.at >= From /\ m.at \in From .. To
  BY <1>2, IndexingAssumption DEF Wanted, StreamsOK
<1>4. ASSUME NEW m \in Wanted(c), m \in PageOf(c) PROVE m \in index'
  BY <1>1, <1>3, <1>4 DEF Inserted
<1>5. ASSUME NEW m \in Wanted(c), m \notin OlderIn(c) PROVE m \in index'
  <2>1. m.at >= task[c].cursor
    BY <1>2, <1>3, <1>5 DEF OlderIn, Wanted
  <2> QED BY <1>1, <2>1
<1>6. ASSUME ends, NEW m \in Wanted(c) PROVE m \in index'
  <2>1. CASE Cardinality(PageOf(c)) < PageSize
    BY <1>2, <1>4, <1>5, <2>1, ShortPageIsAll
  <2>2. ASSUME NEW p \in PageOf(c), p.at < From PROVE m \in index'
    <3>1. p.at \in Nat
      BY <1>2, IndexingAssumption DEF PageOf, StreamsOK
    <3>2. m.at >= p.at
      BY <1>3, <2>2, <3>1, IndexingAssumption
    <3> QED BY <1>2, <1>4, <1>5, <3>2, PageReachesUp
  <2> QED BY <1>6, <2>1, <2>2
<1>7. ASSUME ~ends, NEW m \in Wanted(c), m.at >= task'[c].cursor PROVE m \in index'
  <2>1. ~(Cardinality(PageOf(c)) < PageSize)
    BY <1>7
  <2>2. PICK p \in PageOf(c) : Min({n.at : n \in PageOf(c)}) = p.at
    BY <1>2, <2>1, FullPageGoesOn
  <2>3. m.at >= p.at
    BY <1>1, <1>7, <2>2
  <2> QED BY <1>2, <1>4, <1>5, <2>3, PageReachesUp
<1> HIDE DEF ends
<1> QED BY <1>1, <1>6, <1>7

LEMMA ReadSoFarKept ==
  ASSUME TypeInv, ScopeSent, ReadSoFar, [Next]_vars
  PROVE  ReadSoFar'
<1>1. index \subseteq index'
  BY StreamsKept
<1>2. CASE StartJob
  <2>1. \A c \in Channels : task'[c].at = "todo"
    BY <1>2 DEF StartJob, Unread
  <2> QED BY <2>1 DEF ReadSoFar
<1>3. CASE job.phase # "channels" /\ ~StartJob
  <2>1. job'.phase # "channels"
    BY <1>3, JobMoves, StopIs DEF StartRebuild, Complete, Restart, TypeInv, JobOK
  <2> QED BY <2>1 DEF ReadSoFar
<1>4. CASE job.phase = "channels" /\ ~StartJob
  <2>1. \A c : Wanted(c)' = Wanted(c)
    BY <1>4, WantedKept DEF TypeInv, JobOK
  <2>2. ASSUME NEW c \in Channels, task'[c] = task[c]
        PROVE  /\ task'[c].at \in {"page", "count"} => {m \in Wanted(c)' : m.at >= task'[c].cursor} \subseteq index'
               /\ task'[c].at = "done" => Wanted(c)' \subseteq index'
    BY <1>1, <1>4, <2>1, <2>2 DEF ReadSoFar
  <2>3. CASE UNCHANGED task
    BY <2>2, <2>3 DEF ReadSoFar
  <2>4. ASSUME NEW c \in Channels, \A d \in Channels \ {c} : task'[d] = task[d],
               task'[c].at \in {"page", "count"} => {m \in Wanted(c) : m.at >= task'[c].cursor} \subseteq index',
               task'[c].at = "done" => Wanted(c) \subseteq index'
        PROVE  ReadSoFar'
    BY <2>1, <2>2, <2>4 DEF ReadSoFar
  <2>5. ASSUME NEW c \in Channels, StartTask(c) PROVE ReadSoFar'
    <3>1. task'[c] = Reading /\ \A d \in Channels \ {c} : task'[d] = task[d]
      BY <2>5 DEF StartTask, TypeInv, TaskOK
    <3>2. {m \in Wanted(c) : m.at >= Reading.cursor} = {}
      BY FirstCursor, IndexingAssumption DEF Wanted, TypeInv, StreamsOK
    <3> QED BY <2>4, <3>1, <3>2, FirstCursor
  <2>6. ASSUME NEW c \in Channels, ReadPage(c) PROVE ReadSoFar'
    <3>1. \A d \in Channels \ {c} : task'[d] = task[d]
      BY <2>6 DEF ReadPage, TypeInv, TaskOK
    <3>2. {m \in Wanted(c) : m.at >= task[c].cursor} \subseteq index
      BY <1>4, <2>6 DEF ReadPage, At, ReadSoFar
    <3> QED BY <2>4, <2>6, <3>1, <3>2, PageBrings
  <2>7. ASSUME NEW c \in Channels, CountPage(c) PROVE ReadSoFar'
    <3>1. /\ \A d \in Channels \ {c} : task'[d] = task[d]
          /\ task'[c].cursor = task[c].cursor
          /\ task'[c].at = IF task[c].cursor = 0 THEN "done" ELSE "page"
      BY <2>7 DEF CountPage, TypeInv, TaskOK, Tasks
    <3>2. {m \in Wanted(c) : m.at >= task[c].cursor} \subseteq index
      BY <1>4, <2>7 DEF CountPage, At, ReadSoFar
    <3>3. \A m \in Wanted(c) : m.at >= 0
      BY IndexingAssumption DEF Wanted, TypeInv, StreamsOK
    <3>4. task'[c].at = "done" => Wanted(c) \subseteq index'
      BY <1>1, <3>1, <3>2, <3>3
    <3> QED BY <1>1, <2>4, <3>1, <3>2, <3>4
  <2>8. CASE job'.phase # "channels"
    BY <2>8 DEF ReadSoFar
  <2>10. ASSUME NEW c \in Channels, Hang(c) PROVE ReadSoFar'
    <3>1. task[c].at = "page" /\ task' = [task EXCEPT ![c].at = "hung"]
      BY <2>10, HangIs
    <3>2. task'[c].at = "hung" /\ \A d \in Channels \ {c} : task'[d] = task[d]
      BY <3>1 DEF TypeInv, TaskOK, Tasks
    <3> QED BY <2>4, <3>2
  <2>9. CASE /\ job'.phase = "channels"
             /\ ~\E c \in Channels : StartTask(c) \/ ReadPage(c) \/ CountPage(c) \/ Hang(c)
    <3>1. ~Restart /\ ~InsertConflicts /\ ~JobFails
      BY <1>4, <2>9, ErrIs DEF Restart, TypeInv, JobOK
    <3>2. UNCHANGED task
      BY <1>4, <2>9, <3>1, NextCases, StopIs DEF vars, jobVars, Send, Miss, RequestJob, EnqueueFails, Begin, Index, Count,
         ReadActivity, ActivityGone, WriteHealth, HandlerFails, Proceed, StartRebuild, Delete, Insert,
         Recount, Rebuilt, Complete
    <3> QED BY <2>3, <3>2
  <2> QED BY <2>5, <2>6, <2>7, <2>8, <2>9, <2>10
<1> QED BY <1>2, <1>3, <1>4

LEMMA AllReadKept ==
  ASSUME TypeInv, Progress, [Next]_vars
  PROVE  AllRead' /\ TasksDone'
<1>1. index \subseteq index'
  BY StreamsKept
<1>2. ASSUME job.status # "none", \A c \in Channels : Wanted(c) \subseteq index PROVE AllRead'
  BY <1>1, <1>2, WantedKept DEF AllRead, Progress
<1>3. CASE StartRebuild
  <2>1. job.status # "none" /\ \A c \in Channels : Wanted(c) \subseteq index
    BY <1>3 DEF StartRebuild, TypeInv, JobOK, Progress, ReadSoFar
  <2>2. TasksDone'
    BY <1>3 DEF StartRebuild, TasksDone
  <2> QED BY <1>2, <2>1, <2>2
<1>4. CASE Complete
  <2>1. job.status # "none" /\ \A c \in Channels : Wanted(c) \subseteq index
    BY <1>4 DEF Complete, TypeInv, JobOK, Progress, AllRead, Rebuilding
  <2>2. TasksDone'
    BY <1>4 DEF Complete, TasksDone, Rebuilding, TypeInv, JobOK
  <2> QED BY <1>2, <2>1, <2>2
<1>5. CASE UNCHANGED job
  <2>1. AllRead'
    BY <1>1, <1>5, WantedKept DEF AllRead, Progress, Rebuilding, TypeInv, JobOK
  <2>2. CASE Rebuilding
    <3>1. ~\E c \in Channels : StartTask(c) \/ ReadPage(c) \/ CountPage(c) \/ Hang(c)
      BY <2>2 DEF StartTask, ReadPage, CountPage, Hang, At, Rebuilding
    <3>2. ~Restart /\ ~InsertConflicts /\ ~JobFails /\ ~StartJob
      BY <1>5, <2>2, ErrIs DEF Restart, StartJob, TypeInv, JobOK, Rebuilding
    <3>3. UNCHANGED task
      BY <3>1, <3>2, NextCases, StopIs DEF vars, jobVars, Send, Miss, RequestJob, EnqueueFails, Begin, Index, Count,
         ReadActivity, ActivityGone, WriteHealth, HandlerFails, Proceed, StartRebuild, Delete, Insert,
         Recount, Rebuilt, Complete
    <3> QED BY <1>5, <2>1, <3>3 DEF TasksDone, Progress, Rebuilding
  <2>3. CASE ~Rebuilding
    BY <1>5, <2>1, <2>3 DEF TasksDone, Rebuilding
  <2> QED BY <2>2, <2>3
<1>6. CASE Restart \/ WorkerStops
  <2>1. job'.status = job.status /\ ~Rebuilding'
    BY <1>6, StopIs DEF Restart, TypeInv, JobOK, Rebuilding
  <2> QED BY <1>1, <2>1, WantedKept DEF AllRead, TasksDone, Progress
<1>7. CASE StartJob
  <2>1. job'.status = "running" /\ ~Rebuilding'
    BY <1>7 DEF StartJob, Rebuilding
  <2> QED BY <2>1 DEF AllRead, TasksDone
<1>8. CASE job'.status \in {"failed", "running", "queued"} /\ job'.phase \notin {"channels", "rebuild"}
  BY <1>8 DEF AllRead, TasksDone, Rebuilding
<1> QED BY <1>3, <1>4, <1>5, <1>6, <1>7, <1>8, JobMoves

LEMMA ProgressKept == TypeInv /\ Progress /\ [Next]_vars => Progress'
BY ScopeSentKept, ReadSoFarKept, AllReadKept DEF Progress

LEMMA ProgressBegins == Init => Progress
BY DEF Init, Progress, ScopeSent, ReadSoFar, AllRead, TasksDone, Rebuilding

\* Whatever is sent, fails or runs beside it, a job whose row says completed
\* has every message of its channels and times in the index.
THEOREM CompletedJobs == Spec => []CompletedMeansIndexed
<1>1. TypeInv /\ Progress => CompletedMeansIndexed
  <2> SUFFICES ASSUME TypeInv, Progress, job.status = "completed",
                      NEW m \in sent, m.at \in From .. To
               PROVE  m \in index
    BY DEF CompletedMeansIndexed
  <2>1. m.channel \in Channels /\ m \in Wanted(m.channel)
    BY IndexingAssumption DEF TypeInv, StreamsOK, Wanted
  <2> QED BY <2>1 DEF Progress, AllRead
<1>2. Spec => [](TypeInv /\ Progress)
  <2>1. TypeInv /\ Progress /\ [Next]_vars => (TypeInv /\ Progress)'
    BY TypesKept, ProgressKept
  <2> QED BY <2>1, TypesBegin, ProgressBegins, PTL DEF Spec
<1> QED BY <1>1, <1>2, PTL

-----------------------------------------------------------------------------
(* Nothing is counted twice.                                                *)

\* The messages a cell counts are of the index, one more for each new one.
LEMMA OfTypes ==
  ASSUME NEW S, S \subseteq Messages, NEW cell
  PROVE  /\ Of(cell, S) \subseteq S /\ IsFiniteSet(Of(cell, S)) /\ Cardinality(Of(cell, S)) \in Nat
         /\ Cardinality(Of(cell, S)) = 0 <=> Of(cell, S) = {}
<1>1. Of(cell, S) \subseteq S /\ Of(cell, S) \subseteq Messages
  BY CountedSubset DEF Of
<1> QED BY <1>1, Counting

LEMMA OfGrows ==
  ASSUME NEW S, NEW T, S \subseteq T, T \subseteq Messages, NEW cell
  PROVE  Cardinality(Of(cell, S)) <= Cardinality(Of(cell, T))
<1>1. Of(cell, S) \in SUBSET Of(cell, T)
  BY DEF Of, Counted
<1> QED BY <1>1, OfTypes, FS_Subset

LEMMA OfStats == \A S : Of(Stats, S) = S
<1>1. \A S : Counted("public_stats_cache", S) = S
  BY DEF Counted, HumanTables
<1>2. \A m : CellOf("public_stats_cache", m) = Stats
  BY CellIs
<1>3. Stats[1] = "public_stats_cache"
  BY DEF Stats
<1> QED BY <1>1, <1>2, <1>3 DEF Of

\* The channel's health counts what its activity does, the guild's summary what
\* its activity does.
LEMMA OfCopies ==
  ASSUME NEW S, NEW a, NEW d
  PROVE  /\ Of(<<"channel_health_daily", a, d>>, S) = Of(<<"channel_daily_activity", a, d>>, S)
         /\ Of(<<"guild_summary_daily", a, d>>, S) = Of(<<"guild_daily_activity", a, d>>, S)
<1>1. /\ Counted("channel_health_daily", S) = Counted("channel_daily_activity", S)
      /\ Counted("guild_summary_daily", S) = Counted("guild_daily_activity", S)
  BY DEF Counted, HumanTables
<1>2. \A m : /\ CellOf("channel_health_daily", m) = <<"channel_health_daily", m.channel, Day(m.at)>>
             /\ CellOf("channel_daily_activity", m) = <<"channel_daily_activity", m.channel, Day(m.at)>>
             /\ CellOf("guild_summary_daily", m) = <<"guild_summary_daily", "guild", Day(m.at)>>
             /\ CellOf("guild_daily_activity", m) = <<"guild_daily_activity", "guild", Day(m.at)>>
  BY CellIs DEF GuildTables
<1>3. \A m : /\ CellOf("channel_health_daily", m) = <<"channel_health_daily", a, d>> <=>
                 CellOf("channel_daily_activity", m) = <<"channel_daily_activity", a, d>>
             /\ CellOf("guild_summary_daily", m) = <<"guild_summary_daily", a, d>> <=>
                 CellOf("guild_daily_activity", m) = <<"guild_daily_activity", a, d>>
  <2> TAKE m
  <2>1. \A t, b, e : <<t, b, e>> = <<t, a, d>> <=> b = a /\ e = d
    OBVIOUS
  <2>2. CellOf("channel_health_daily", m) = <<"channel_health_daily", a, d>> <=>
          m.channel = a /\ Day(m.at) = d
    BY <2>1 DEF CellOf, KeyOf
  <2>3. CellOf("channel_daily_activity", m) = <<"channel_daily_activity", a, d>> <=>
          m.channel = a /\ Day(m.at) = d
    BY <2>1 DEF CellOf, KeyOf
  <2>4. CellOf("guild_summary_daily", m) = <<"guild_summary_daily", a, d>> <=>
          "guild" = a /\ Day(m.at) = d
    BY <2>1 DEF CellOf, KeyOf
  <2>5. CellOf("guild_daily_activity", m) = <<"guild_daily_activity", a, d>> <=>
          "guild" = a /\ Day(m.at) = d
    BY <2>1 DEF CellOf, KeyOf
  <2> QED BY <2>2, <2>3, <2>4, <2>5
<1>4. /\ <<"channel_health_daily", a, d>>[1] = "channel_health_daily"
      /\ <<"channel_daily_activity", a, d>>[1] = "channel_daily_activity"
      /\ <<"guild_summary_daily", a, d>>[1] = "guild_summary_daily"
      /\ <<"guild_daily_activity", a, d>>[1] = "guild_daily_activity"
  OBVIOUS
<1>5. Of(<<"channel_health_daily", a, d>>, S) = Of(<<"channel_daily_activity", a, d>>, S)
  BY <1>1, <1>3, <1>4 DEF Of
<1>6. Of(<<"guild_summary_daily", a, d>>, S) = Of(<<"guild_daily_activity", a, d>>, S)
  BY <1>1, <1>3, <1>4 DEF Of
<1> QED BY <1>5, <1>6

LEMMA OfGains ==
  ASSUME NEW S, S \subseteq Messages, NEW m \in Messages, m \notin S, NEW cell \in Cells
  PROVE  Cardinality(Of(cell, S \union {m})) =
           Cardinality(Of(cell, S)) + IF cell[1] \in Owed(m, 1) /\ cell = CellOf(cell[1], m) THEN 1 ELSE 0
<1>1. cell[1] \in Tables
  BY CellParts
<1>2. cell[1] \in Owed(m, 1) <=> m \in Counted(cell[1], {m})
  BY <1>1, OwedAre
<1>3. CASE cell[1] \in Owed(m, 1) /\ cell = CellOf(cell[1], m)
  <2>1. Of(cell, S \union {m}) = Of(cell, S) \union {m} /\ m \notin Of(cell, S)
    BY <1>2, <1>3 DEF Of, Counted
  <2>2. IsFiniteSet(Of(cell, S)) /\ Cardinality(Of(cell, S)) \in Nat
    BY OfTypes
  <2>3. Cardinality(Of(cell, S) \union {m}) = Cardinality(Of(cell, S)) + 1
    BY <2>1, <2>2, FS_AddElement
  <2> QED BY <1>3, <2>1, <2>3
<1>4. CASE ~(cell[1] \in Owed(m, 1) /\ cell = CellOf(cell[1], m))
  <2>1. Of(cell, S \union {m}) = Of(cell, S)
    BY <1>2, <1>4 DEF Of, Counted
  <2> QED BY <1>4, <2>1, OfTypes
<1> QED BY <1>3, <1>4

LEMMA OwesIs ==
  ASSUME NEW h, NEW l, NEW m \in Messages, NEW k, Stage(h, l, m, k), NEW cell
  PROVE  Owes(h, l, cell) = IF cell[1] \in Owed(m, k) /\ cell = CellOf(cell[1], m) THEN 1 ELSE 0
BY OwingIs DEF Owes

LEMMA OwesTypes == \A h, l, cell : Owes(h, l, cell) \in {0, 1}
BY DEF Owes

LEMMA IdleOwes == \A l, cell : Owes({}, l, cell) = 0
BY IdleOwesNothing DEF Owes

-----------------------------------------------------------------------------
(* Pages that are indexed and not yet counted.                              *)

LEMMA OnesOf ==
  ASSUME NEW c, NEW n \in Nat
  PROVE  IsFiniteSet({c} \X (1 .. n)) /\ Cardinality({c} \X (1 .. n)) = n
<1>1. IsFiniteSet({c}) /\ Cardinality({c}) = 1
  BY FS_Singleton
<1>2. IsFiniteSet(1 .. n) /\ Cardinality(1 .. n) = n
  BY FS_Interval
<1>3. /\ IsFiniteSet({c} \X (1 .. n))
      /\ Cardinality({c} \X (1 .. n)) = Cardinality({c}) * Cardinality(1 .. n)
  BY <1>1, <1>2, FS_Product
<1> QED BY <1>1, <1>2, <1>3

LEMMA NewOnesTypes ==
  ASSUME NEW tasks \in [Channels -> Tasks]
  PROVE  IsFiniteSet(NewOnes(tasks)) /\ Cardinality(NewOnes(tasks)) \in Nat
<1> DEFINE ones(c) == {c} \X (1 .. tasks[c].new)
           T == {ones(c) : c \in Channels}
           f == [c \in Channels |-> ones(c)]
<1>1. \A c \in Channels : tasks[c].new \in Nat
  BY DEF Tasks
<1>2. f \in Surjection(Channels, T)
  BY DEF Surjection
<1>3. \A U \in T : IsFiniteSet(U)
  <2>1. ASSUME NEW c \in Channels PROVE IsFiniteSet(ones(c))
    BY <1>1, OnesOf
  <2> HIDE DEF ones
  <2> QED BY <2>1
<1>4. IsFiniteSet(T)
  <2> HIDE DEF T, f
  <2> QED BY <1>2, IndexingAssumption, FS_Surjection
<1>5. IsFiniteSet(UNION T)
  <2> HIDE DEF T
  <2> QED BY <1>3, <1>4, FS_UNION
<1> QED BY <1>5, FS_CardinalityType DEF NewOnes

\* One task finds n messages.
LEMMA NewOnesGain ==
  ASSUME NEW tasks \in [Channels -> Tasks], NEW after \in [Channels -> Tasks], NEW c \in Channels,
         tasks[c].new = 0, \A d \in Channels \ {c} : after[d].new = tasks[d].new
  PROVE  Cardinality(NewOnes(after)) = Cardinality(NewOnes(tasks)) + after[c].new
<1> DEFINE n == after[c].new
           ones == {c} \X (1 .. n)
<1>1. n \in Nat /\ IsFiniteSet(ones) /\ Cardinality(ones) = n
  BY OnesOf DEF Tasks
<1>2. 1 .. 0 = {}
  OBVIOUS
<1>3. NewOnes(after) = NewOnes(tasks) \union ones /\ NewOnes(tasks) \intersect ones = {}
  BY <1>2 DEF NewOnes
<1>4. IsFiniteSet(NewOnes(tasks)) /\ Cardinality(NewOnes(tasks)) \in Nat
  BY NewOnesTypes
<1> HIDE DEF ones, n
<1>5. Cardinality(NewOnes(after)) =
        Cardinality(NewOnes(tasks)) + Cardinality(ones) - Cardinality(NewOnes(tasks) \intersect ones)
  BY <1>1, <1>3, <1>4, FS_Union
<1>6. Cardinality(NewOnes(tasks) \intersect ones) = 0
  BY <1>3, FS_EmptySet
<1> QED BY <1>1, <1>4, <1>5, <1>6 DEF n

LEMMA NoNewOnes ==
  ASSUME NEW tasks \in [Channels -> Tasks], \A c \in Channels : tasks[c].new = 0
  PROVE  Cardinality(NewOnes(tasks)) = 0 /\ \A cell : Fresh(tasks, cell) = 0
<1>1. 1 .. 0 = {}
  OBVIOUS
<1>2. NewOnes(tasks) = {}
  BY <1>1 DEF NewOnes
<1> QED BY <1>2, FS_EmptySet DEF Fresh

-----------------------------------------------------------------------------
(* The handler's balance: what it indexes it owes, what it counts it no     *)
(* longer owes.                                                             *)

LEMMA IndexBalance ==
  ASSUME TypeInv, Index, NEW cell \in Cells
  PROVE  Cardinality(Of(cell, index')) + Owes(handling, left, cell) =
           Cardinality(Of(cell, index)) + Owes(handling', left', cell)
<1>1. PICK m \in raw :
        /\ m \in Messages /\ Stage(handling, left, m, 0) /\ index' = index \union {m}
        /\ m \in index => handling' = {} /\ left' = << >>
        /\ m \notin index => Stage(handling', left', m, 1)
  BY IndexStep
<1>2. Owes(handling, left, cell) = 0
  <2>1. Owed(m, 0) = {}
    BY DEF Owed
  <2> QED BY <1>1, <2>1, OwesIs
<1>3. index \subseteq Messages /\ Cardinality(Of(cell, index)) \in Nat
  BY OfTypes, IndexTypes DEF TypeInv
<1>4. CASE m \in index
  <2>1. index' = index /\ Owes(handling', left', cell) = 0
    BY <1>1, <1>4, IdleOwes
  <2> QED BY <1>2, <1>3, <2>1
<1>5. CASE m \notin index
  <2>1. Owes(handling', left', cell) = IF cell[1] \in Owed(m, 1) /\ cell = CellOf(cell[1], m) THEN 1 ELSE 0
    BY <1>1, <1>5, OwesIs
  <2>2. Cardinality(Of(cell, index \union {m})) = Cardinality(Of(cell, index)) + Owes(handling', left', cell)
    BY <1>1, <1>3, <1>5, <2>1, OfGains
  <2>3. Cardinality(Of(cell, index')) = Cardinality(Of(cell, index)) + Owes(handling', left', cell)
    BY <1>1, <2>2
  <2> QED BY <1>2, <1>3, <2>1, <2>3
<1> QED BY <1>4, <1>5

LEMMA CountBalance ==
  ASSUME TypeInv, Count, NEW cell \in Cells
  PROVE  Copies(cell, counts') + Owes(handling', left', cell) =
           Copies(cell, counts) + Owes(handling, left, cell)
<1>1. PICK m \in raw, k \in 1 .. 5 :
        /\ m \in Messages /\ k \in 1 .. Steps(m)
        /\ Stage(handling, left, m, k)
        /\ counts' = counts (+) SetToBag({CellAt(k, m)})
        /\ k < Steps(m) => Stage(handling', left', m, k + 1)
        /\ k = Steps(m) => handling' = {} /\ left' = << >>
  BY CountStep
<1> DEFINE Here(j) == cell[1] \in Owed(m, j) /\ cell = CellOf(cell[1], m)
           one == CellAt(k, m)
<1>2. Steps(m) \in {3, 6} /\ TableAt[k] \in Tables
  BY <1>1, AggregatesAre
<1>3. one[1] = TableAt[k] /\ one = CellOf(TableAt[k], m) /\ TableAt[k] \in Owed(m, k)
  BY <1>1, <1>2, OwedAre, CellTypes DEF CellAt
<1>4. Owes(handling, left, cell) = IF Here(k) THEN 1 ELSE 0
  BY <1>1, OwesIs
<1>5. Owes(handling', left', cell) = IF Here(k) /\ cell # one THEN 1 ELSE 0
  <2>1. CASE k < Steps(m)
    <3>1. Owed(m, k + 1) = Owed(m, k) \ {TableAt[k]}
      <4>1. k \in 1 .. Steps(m) - 1
        BY <1>1, <1>2, <2>1
      <4>2. \A j \in 1 .. Steps(m) - 1 : Owed(m, j + 1) = Owed(m, j) \ {TableAt[j]}
        BY <1>1, OwedAre
      <4> QED BY <4>1, <4>2
    <3>2. Owes(handling', left', cell) = IF Here(k + 1) THEN 1 ELSE 0
      BY <1>1, <2>1, OwesIs
    <3>3. Here(k + 1) <=> Here(k) /\ cell # one
      BY <1>3, <3>1
    <3> QED BY <3>2, <3>3
  <2>2. CASE k = Steps(m)
    <3>1. k = 3 /\ Owed(m, 3) = {TableAt[3]}
      <4>1. k = 3 /\ Steps(m) = 3
        BY <1>1, <1>2, <2>2
      <4>2. Steps(m) = 3 => Owed(m, 3) = {TableAt[3]}
        BY <1>1, OwedAre
      <4> QED BY <4>1, <4>2
    <3>2. ~(Here(k) /\ cell # one)
      BY <1>3, <3>1
    <3>3. Owes(handling', left', cell) = 0
      BY <1>1, <2>2, IdleOwes
    <3> QED BY <3>2, <3>3
  <2> QED BY <1>1, <1>2, <2>1, <2>2
<1>6. cell = one => Here(k)
  BY <1>3
<1>7. IsABag(counts) /\ IsABag(SetToBag({one}))
  BY OneBag DEF TypeInv, CountsOK
<1>8. Copies(cell, counts (+) SetToBag({one})) = Copies(cell, counts) + Copies(cell, SetToBag({one}))
  BY <1>7, AddedBag
<1>9. Copies(cell, SetToBag({one})) = IF cell = one THEN 1 ELSE 0
  BY OneBag DEF Copies
<1>10. Copies(cell, counts) \in Nat
  BY <1>7, CopiesType
<1>11. Copies(cell, counts') = Copies(cell, counts) + IF cell = one THEN 1 ELSE 0
  BY <1>1, <1>8, <1>9
<1> HIDE DEF Here, one
<1> QED BY <1>4, <1>5, <1>6, <1>10, <1>11

LEMMA ReadBalance ==
  ASSUME TypeInv, ReadActivity, NEW cell
  PROVE  /\ Owes(handling', left', cell) = Owes(handling, left, cell)
         /\ UNCHANGED <<index, counts, task>>
<1>1. PICK m \in raw :
        /\ m \in Messages /\ ~m.bot /\ Stage(handling, left, m, 6)
        /\ Copies(ActivityOf(m), counts) > 0
        /\ handling' = handling /\ left' = HealthWrite(m, Copies(ActivityOf(m), counts))
  BY ReadStep
<1>2. Copies(ActivityOf(m), counts) \in Nat \ {0}
  BY <1>1, CopiesType DEF TypeInv, CountsOK
<1>3. handling = {m}
  BY <1>1, StageFacts
<1>4. Stage({m}, HealthWrite(m, Copies(ActivityOf(m), counts)), m, 7)
  BY <1>1, <1>2, StageWrites DEF HealthWrite
<1>5. Stage(handling', left', m, 7)
  BY <1>1, <1>3, <1>4
<1>6. Owed(m, 7) = Owed(m, 6)
  BY <1>1, OwedAre
<1>7. Owes(handling', left', cell) = Owes(handling, left, cell)
  BY <1>1, <1>5, <1>6, OwesIs
<1> QED BY <1>7 DEF ReadActivity, Proceed, jobVars

\* What a handler read for its channel it writes into the channel's health.
LEMMA WriteBalance ==
  ASSUME TypeInv, CopiesActivity, ~raced, WriteHealth, NEW cell \in Cells
  PROVE  /\ \E m \in index :
              /\ m \in Messages /\ ~m.bot /\ Stage(handling, left, m, 7)
              /\ IF cell = CellOf("channel_health_daily", m)
                 THEN Copies(cell, counts') = Copies(ActivityOf(m), counts)
                 ELSE Copies(cell, counts') = Copies(cell, counts) /\ Owes(handling, left, cell) = 0
         /\ Owes(handling', left', cell) = 0
         /\ UNCHANGED <<index, task>>
<1>1. PICK m \in raw, n \in Nat \ {0} :
        /\ m \in Messages /\ m \in index /\ ~m.bot /\ Stage(handling, left, m, 7)
        /\ left = HealthWrite(m, n)
        /\ counts' = Written(Row(CellOf("channel_health_daily", m), n), counts)
        /\ handling' = {} /\ left' = << >>
  BY WriteStep
<1> DEFINE h == CellOf("channel_health_daily", m)
<1>2. n = Copies(ActivityOf(m), counts)
  <2>1. HealthWrite(m, n) = HealthWrite(m, Copies(ActivityOf(m), counts))
    BY <1>1 DEF CopiesActivity
  <2>2. \A v : HealthWrite(m, v)[1] = Do("write", Row(h, v))
    BY DEF HealthWrite
  <2>3. \A v : Do("write", Row(h, v)).arg = Row(h, v) /\ Row(h, v)[h] = v
    BY DEF Do, Row
  <2> HIDE DEF h
  <2> QED BY <2>1, <2>2, <2>3
<1>3. IsABag(Row(h, n)) /\ DOMAIN Row(h, n) = {h} /\ Row(h, n)[h] = n /\ IsABag(counts)
  BY RowBag DEF TypeInv, CountsOK, Row
<1> HIDE DEF h
<1>4. Copies(cell, Written(Row(h, n), counts))
        = IF cell \in DOMAIN Row(h, n) THEN Row(h, n)[cell] ELSE Copies(cell, counts)
  BY <1>3, WrittenBag
<1>5. Copies(cell, counts') = IF cell = h THEN n ELSE Copies(cell, counts)
  BY <1>1, <1>3, <1>4 DEF h
<1>6. cell # h => Owes(handling, left, cell) = 0
  <2>1. Owed(m, 7) = {"channel_health_daily"}
    BY DEF Owed
  <2> QED BY <1>1, <2>1, OwesIs DEF h
<1>7. Owes(handling', left', cell) = 0
  BY <1>1, IdleOwes
<1>8. UNCHANGED <<index, task>>
  BY DEF WriteHealth, Proceed, jobVars
<1> QED BY <1>1, <1>2, <1>5, <1>6, <1>7, <1>8 DEF h

-----------------------------------------------------------------------------
(* The rebuild and the restart count no more than there is.                 *)

LEMMA NumbersAre ==
  ASSUME TypeInv, NEW cell
  PROVE  /\ Copies(cell, counts) \in Nat /\ Owes(handling, left, cell) \in {0, 1}
         /\ Fresh(task, cell) \in Nat /\ Cardinality(Of(cell, index)) \in Nat
<1>1. Copies(cell, counts) \in Nat
  BY CopiesType DEF TypeInv, CountsOK
<1>2. Cardinality(NewOnes(task)) \in Nat
  BY NewOnesTypes DEF TypeInv, TaskOK
<1>3. Fresh(task, cell) \in Nat
  BY <1>2 DEF Fresh
<1>4. Cardinality(Of(cell, index)) \in Nat
  BY OfTypes, IndexTypes DEF TypeInv
<1> QED BY <1>1, <1>3, <1>4, OwesTypes

LEMMA CountsBelow ==
  ASSUME TypeInv, Bounded, ~raced, NEW cell \in Cells
  PROVE  Copies(cell, counts) <= Cardinality(Of(cell, index))
<1>1. Copies(cell, counts) + Owes(handling, left, cell) + Fresh(task, cell) <= Cardinality(Of(cell, index))
  BY DEF Bounded
<1> QED BY <1>1, NumbersAre

\* The row that a row is made from, and the messages it is of.
LEMMA RenamedIs ==
  ASSUME TypeInv, NEW from \in Tables, NEW to \in Tables,
         NEW D, \A c \in D : c \in DOMAIN counts /\ c[1] = from,
         NEW cell \in DOMAIN Renamed(from, to, D, counts)
  PROVE  /\ cell \in Cells /\ cell[1] = to
         /\ <<from, cell[2], cell[3]>> \in Cells /\ <<from, cell[2], cell[3]>> \in D
         /\ Renamed(from, to, D, counts)[cell] = Copies(<<from, cell[2], cell[3]>>, counts)
<1> DEFINE of == <<from, cell[2], cell[3]>>
<1>1. IsABag(counts) /\ DOMAIN counts \subseteq Cells
  BY DEF TypeInv, CountsOK
<1>2. /\ cell \in Cells /\ cell[1] = to /\ of \in D
      /\ Renamed(from, to, D, counts)[cell] = counts[of]
  BY <1>1, RenamedBag
<1>3. of \in DOMAIN counts
  BY <1>2
<1>4. counts[of] = Copies(of, counts)
  BY <1>3 DEF Copies
<1> QED BY <1>1, <1>2, <1>3, <1>4

\* Both tables of a channel, or of the guild, count the same messages.
LEMMA SameMessages ==
  ASSUME NEW S, NEW cell \in Cells
  PROVE  /\ cell[1] = "channel_health_daily" =>
              Of(cell, S) = Of(<<"channel_daily_activity", cell[2], cell[3]>>, S)
         /\ cell[1] = "guild_summary_daily" =>
              Of(cell, S) = Of(<<"guild_daily_activity", cell[2], cell[3]>>, S)
<1>1. cell = <<cell[1], cell[2], cell[3]>>
  BY CellParts
<1>2. CASE cell[1] = "channel_health_daily"
  <2>1. Of(<<"channel_health_daily", cell[2], cell[3]>>, S) = Of(<<"channel_daily_activity", cell[2], cell[3]>>, S)
    BY OfCopies
  <2> QED BY <1>1, <1>2, <2>1
<1>3. CASE cell[1] = "guild_summary_daily"
  <2>1. Of(<<"guild_summary_daily", cell[2], cell[3]>>, S) = Of(<<"guild_daily_activity", cell[2], cell[3]>>, S)
    BY OfCopies
  <2> QED BY <1>1, <1>3, <2>1
<1> QED BY <1>2, <1>3

LEMMA SourceBelow ==
  ASSUME TypeInv, Bounded, ~raced, NEW t \in Inserts, NEW cell \in DOMAIN Source(t)
  PROVE  Source(t)[cell] <= Cardinality(Of(cell, index)) /\ cell[1] = t
<1>0. t \in Tables
  BY DEF Inserts, Tables, GuildTables, HumanTables
<1>1. ASSUME NEW S \in SUBSET index, Source(t) = CountOf(t, S)
      PROVE  Source(t)[cell] <= Cardinality(Of(cell, index)) /\ cell[1] = t
  <2>1. index \subseteq Messages /\ S \in SUBSET Messages
    BY IndexTypes DEF TypeInv
  <2>2. \A c \in DOMAIN CountOf(t, S) : c[1] = t /\ CountOf(t, S)[c] = Cardinality(Of(c, S))
    BY <1>0, <2>1, CountOfValues
  <2>3. Cardinality(Of(cell, S)) <= Cardinality(Of(cell, index))
    BY <2>1, OfGrows
  <2> QED BY <1>1, <2>2, <2>3
<1>2. ASSUME NEW from \in Tables, NEW D, \A c \in D : c \in DOMAIN counts /\ c[1] = from,
             Source(t) = Renamed(from, t, D, counts),
             \A c \in Cells : c[1] = t => Of(c, index) = Of(<<from, c[2], c[3]>>, index)
      PROVE  Source(t)[cell] <= Cardinality(Of(cell, index)) /\ cell[1] = t
  <2>1. \A c \in DOMAIN Renamed(from, t, D, counts) :
          /\ c \in Cells /\ c[1] = t /\ <<from, c[2], c[3]>> \in Cells
          /\ Renamed(from, t, D, counts)[c] = Copies(<<from, c[2], c[3]>>, counts)
    BY <1>0, <1>2, RenamedIs
  <2>2. \A c \in Cells : Copies(c, counts) <= Cardinality(Of(c, index))
    BY CountsBelow
  <2> QED BY <1>2, <2>1, <2>2
<1>3. CASE t \in {"member_daily_activity", "guild_daily_activity"}
  <2>1. Source(t) = CountOf(t, InDays) /\ InDays \in SUBSET index
    BY <1>3, SourceIs, IndexTypes DEF TypeInv
  <2> QED BY <1>1, <2>1
<1>4. CASE t = "channel_daily_activity"
  <2> DEFINE S == {m \in InDays : m.at <= To /\ m.channel \in Affected}
  <2>1. Source(t) = CountOf(t, S) /\ S \in SUBSET index
    BY <1>4, SourceIs, IndexTypes DEF TypeInv
  <2> HIDE DEF S
  <2> QED BY <1>1, <2>1
<1>5. CASE t = "channel_health_daily"
  <2> DEFINE D == {x \in DOMAIN counts : x[1] = "channel_daily_activity" /\ InScope("channel_health_daily", x[3])}
  <2>1. Source(t) = Renamed("channel_daily_activity", t, D, counts)
    BY <1>5, SourceIs
  <2>2. \A c \in D : c \in DOMAIN counts /\ c[1] = "channel_daily_activity"
    OBVIOUS
  <2>3. "channel_daily_activity" \in Tables
    BY DEF Tables, HumanTables
  <2> HIDE DEF D
  <2>4. \A c \in Cells : c[1] = t => Of(c, index) = Of(<<"channel_daily_activity", c[2], c[3]>>, index)
    BY <1>5, SameMessages
  <2> QED BY <1>2, <2>1, <2>2, <2>3, <2>4
<1>6. CASE t = "guild_summary_daily"
  <2> DEFINE D == {x \in DOMAIN counts : x[1] = "guild_daily_activity" /\ InScope("guild_summary_daily", x[3])}
  <2>1. Source(t) = Renamed("guild_daily_activity", t, D, counts)
    BY <1>6, SourceIs
  <2>2. \A c \in D : c \in DOMAIN counts /\ c[1] = "guild_daily_activity"
    OBVIOUS
  <2>3. "guild_daily_activity" \in Tables
    BY DEF Tables, GuildTables
  <2> HIDE DEF D
  <2>4. \A c \in Cells : c[1] = t => Of(c, index) = Of(<<"guild_daily_activity", c[2], c[3]>>, index)
    BY <1>6, SameMessages
  <2> QED BY <1>2, <2>1, <2>2, <2>3, <2>4
<1> QED BY <1>3, <1>4, <1>5, <1>6 DEF Inserts

\* What the worker makes when it starts counts what is indexed, or what was counted.
LEMMA RestartBelow ==
  ASSUME TypeInv, Bounded, ~raced, Restart, NEW cell \in Cells
  PROVE  Copies(cell, counts') <= Cardinality(Of(cell, index'))
<1>1. PICK daily, summary :
        /\ counts' = Written(summary, Written(daily, counts))
        /\ IsABag(daily) /\ DOMAIN daily \subseteq Cells
        /\ IsABag(summary) /\ DOMAIN summary \subseteq Cells
        /\ \A c \in DOMAIN daily : c[1] = "guild_daily_activity"
        /\ \/ daily = CountOf("guild_daily_activity", index')
           \/ \A c \in DOMAIN daily : c \in DOMAIN counts /\ daily[c] = counts[c]
        /\ \A c \in DOMAIN summary :
             LET of == <<"guild_daily_activity", c[2], c[3]>>
             IN  /\ c[1] = "guild_summary_daily"
                 /\ of \in DOMAIN daily /\ summary[c] = daily[of]
  BY RestartFills
<1>2. index' = index \union raw /\ index' \in SUBSET Messages /\ index \subseteq index'
  BY DEF Restart, TypeInv, StreamsOK
<1>3. \A c \in Cells : Copies(c, counts) <= Cardinality(Of(c, index'))
  <2> TAKE c \in Cells
  <2>1. Copies(c, counts) <= Cardinality(Of(c, index))
    BY CountsBelow
  <2>2. Cardinality(Of(c, index)) <= Cardinality(Of(c, index'))
    BY <1>2, OfGrows
  <2>3. Cardinality(Of(c, index)) \in Nat /\ Copies(c, counts) \in Nat /\ Cardinality(Of(c, index')) \in Nat
    BY <1>2, NumbersAre, OfTypes
  <2> QED BY <2>1, <2>2, <2>3
<1>4. \A c \in DOMAIN daily : daily[c] <= Cardinality(Of(c, index'))
  <2>1. CASE daily = CountOf("guild_daily_activity", index')
    <3>1. \A c \in DOMAIN CountOf("guild_daily_activity", index') :
            CountOf("guild_daily_activity", index')[c] = Cardinality(Of(c, index'))
      <4>1. "guild_daily_activity" \in Tables
        BY DEF Tables, GuildTables
      <4>2. index' \in SUBSET Messages
        BY <1>2
      <4> QED BY <4>1, <4>2, CountOfValues
    <3>2. \A c : Cardinality(Of(c, index')) \in Nat
      BY <1>2, OfTypes
    <3> QED BY <2>1, <3>1, <3>2
  <2>2. CASE \A c \in DOMAIN daily : c \in DOMAIN counts /\ daily[c] = counts[c]
    BY <1>1, <1>3, <2>2 DEF Copies
  <2> QED BY <1>1, <2>1, <2>2
<1>5. \A c \in DOMAIN summary : summary[c] <= Cardinality(Of(c, index'))
  <2> TAKE c \in DOMAIN summary
  <2>1. c \in Cells /\ c[1] = "guild_summary_daily"
    BY <1>1
  <2>2. Of(c, index') = Of(<<"guild_daily_activity", c[2], c[3]>>, index')
    BY <2>1, SameMessages
  <2> QED BY <1>1, <1>4, <2>2
<1>6. /\ IsABag(Written(daily, counts))
      /\ \A c : Copies(c, Written(daily, counts)) = IF c \in DOMAIN daily THEN daily[c] ELSE Copies(c, counts)
  BY <1>1, WrittenBag DEF TypeInv, CountsOK
<1> DEFINE W == Written(daily, counts)
<1> HIDE DEF W
<1>7. Copies(cell, Written(summary, W)) = IF cell \in DOMAIN summary THEN summary[cell] ELSE Copies(cell, W)
  <2>1. IsABag(W) /\ IsABag(summary)
    BY <1>1, <1>6 DEF W
  <2> QED BY <2>1, WrittenBag
<1>8. counts' = Written(summary, W)
  BY <1>1 DEF W
<1>9. Copies(cell, W) = IF cell \in DOMAIN daily THEN daily[cell] ELSE Copies(cell, counts)
  BY <1>6 DEF W
<1> QED BY <1>3, <1>4, <1>5, <1>7, <1>8, <1>9

LEMMA TasksOwe ==
  ASSUME TypeInv, TypeInv', NEW cell
  PROVE  /\ UNCHANGED task => Fresh(task', cell) = Fresh(task, cell)
         /\ task' = [c \in Channels |-> Unread] => Fresh(task', cell) = 0
         /\ (\A c \in Channels : task[c].at = "done") => Fresh(task, cell) = 0
<1>1. task \in [Channels -> Tasks] /\ task' \in [Channels -> Tasks]
  BY DEF TypeInv, TaskOK
<1>2. ASSUME task' = [c \in Channels |-> Unread] PROVE Fresh(task', cell) = 0
  <2>1. \A c \in Channels : task'[c].new = 0
    BY <1>2 DEF Unread
  <2> QED BY <1>1, <2>1, NoNewOnes
<1>3. ASSUME \A c \in Channels : task[c].at = "done" PROVE Fresh(task, cell) = 0
  <2>1. \A c \in Channels : task[c].new = 0
    BY <1>3 DEF TypeInv, TaskOK
  <2> QED BY <1>1, <2>1, NoNewOnes
<1>4. UNCHANGED task => Fresh(task', cell) = Fresh(task, cell)
  OBVIOUS
<1> QED BY <1>2, <1>3, <1>4

LEMMA StartTaskOwes ==
  ASSUME TypeInv, TypeInv', NEW c \in Channels, StartTask(c), NEW cell
  PROVE  Fresh(task', cell) = Fresh(task, cell)
<1>1. task \in [Channels -> Tasks] /\ task' \in [Channels -> Tasks]
  BY DEF TypeInv, TaskOK
<1>2. task[c].new = 0
  BY DEF StartTask, At, TypeInv, TaskOK
<1>3. task'[c].new = 0 /\ \A d \in Channels \ {c} : task'[d].new = task[d].new
  BY <1>1 DEF StartTask, Reading
<1>4. Cardinality(NewOnes(task')) = Cardinality(NewOnes(task)) + 0
  BY <1>1, <1>2, <1>3, NewOnesGain
<1>5. Cardinality(NewOnes(task)) \in Nat
  BY <1>1, NewOnesTypes
<1> QED BY <1>4, <1>5 DEF Fresh

LEMMA HangOwes ==
  ASSUME TypeInv, TypeInv', NEW c \in Channels, Hang(c), NEW cell
  PROVE  Fresh(task', cell) = Fresh(task, cell)
<1>1. task \in [Channels -> Tasks] /\ task' \in [Channels -> Tasks]
  BY DEF TypeInv, TaskOK
<1>2. task[c].new = 0
  BY HangIs DEF TypeInv, TaskOK
<1>3. task'[c].new = 0 /\ \A d \in Channels \ {c} : task'[d].new = task[d].new
  BY <1>1, <1>2, HangIs DEF Tasks
<1>4. Cardinality(NewOnes(task')) = Cardinality(NewOnes(task)) + 0
  BY <1>1, <1>2, <1>3, NewOnesGain
<1>5. Cardinality(NewOnes(task)) \in Nat
  BY <1>1, NewOnesTypes
<1> QED BY <1>4, <1>5 DEF Fresh

LEMMA ReadPageOwes ==
  ASSUME TypeInv, TypeInv', NEW c \in Channels, ReadPage(c), NEW cell
  PROVE  Fresh(task', cell) + Cardinality(Of(cell, index)) <=
           Fresh(task, cell) + Cardinality(Of(cell, index'))
<1> DEFINE new == Inserted(c)
<1>1. task \in [Channels -> Tasks] /\ task' \in [Channels -> Tasks]
  BY DEF TypeInv, TaskOK
<1>2. task[c].new = 0
  BY DEF ReadPage, At, TypeInv, TaskOK
<1>3. task'[c].new = Cardinality(new) /\ \A d \in Channels \ {c} : task'[d].new = task[d].new
  BY <1>1 DEF ReadPage
<1>4. Cardinality(NewOnes(task')) = Cardinality(NewOnes(task)) + Cardinality(new)
  BY <1>1, <1>2, <1>3, NewOnesGain
<1>5. Cardinality(NewOnes(task)) \in Nat
  BY <1>1, NewOnesTypes
<1>6. /\ index \subseteq Messages /\ new \subseteq Messages /\ new \intersect index = {}
      /\ index' = index \union new
  BY IndexTypes, InsertedTypes DEF TypeInv, ReadPage, Inserted
<1> HIDE DEF new
<1>7. /\ IsFiniteSet(index) /\ Cardinality(index) \in Nat
      /\ IsFiniteSet(new) /\ Cardinality(new) \in Nat
  BY <1>6, Counting
<1>8. CASE cell = Stats
  <2>1. Of(cell, index) = index /\ Of(cell, index') = index'
    BY <1>8, OfStats
  <2>2. Cardinality(index \union new) = Cardinality(index) + Cardinality(new) - Cardinality(index \intersect new)
    BY <1>7, FS_Union
  <2>3. Cardinality(index \intersect new) = 0
    BY <1>6, FS_EmptySet
  <2>4. Cardinality(index') = Cardinality(index) + Cardinality(new)
    BY <1>6, <1>7, <2>2, <2>3
  <2> QED BY <1>4, <1>5, <1>7, <1>8, <2>1, <2>4 DEF Fresh
<1>9. CASE cell # Stats
  <2>1. Fresh(task, cell) = 0 /\ Fresh(task', cell) = 0
    BY <1>9 DEF Fresh
  <2>2. Cardinality(Of(cell, index)) <= Cardinality(Of(cell, index'))
    BY <1>6, OfGrows
  <2>3. Cardinality(Of(cell, index)) \in Nat /\ Cardinality(Of(cell, index')) \in Nat
    BY <1>6, OfTypes
  <2> QED BY <2>1, <2>2, <2>3
<1> QED BY <1>8, <1>9

LEMMA CountPageOwes ==
  ASSUME TypeInv, TypeInv', NEW c \in Channels, CountPage(c), NEW cell
  PROVE  Copies(cell, counts') + Fresh(task', cell) = Copies(cell, counts) + Fresh(task, cell)
<1> DEFINE n == task[c].new
<1>1. task \in [Channels -> Tasks] /\ task' \in [Channels -> Tasks]
  BY DEF TypeInv, TaskOK
<1>2. n \in Nat \ {0} /\ counts' = counts (+) Row(Stats, n)
  BY DEF CountPage, At, TypeInv, TaskOK, Tasks, Stats
<1>3. task'[c].new = 0 /\ \A d \in Channels \ {c} : task[d].new = task'[d].new
  BY <1>1 DEF CountPage
<1>4. Cardinality(NewOnes(task)) = Cardinality(NewOnes(task')) + n
  BY <1>1, <1>3, NewOnesGain
<1>5. Cardinality(NewOnes(task')) \in Nat
  BY <1>1, NewOnesTypes
<1> HIDE DEF n
<1>6. IsABag(counts) /\ IsABag(Row(Stats, n))
  BY <1>2, RowBag DEF TypeInv, CountsOK
<1>7. Copies(cell, counts (+) Row(Stats, n)) = Copies(cell, counts) + Copies(cell, Row(Stats, n))
  BY <1>6, AddedBag
<1>8. Copies(cell, Row(Stats, n)) = IF cell = Stats THEN n ELSE 0
  BY <1>2, RowCopies
<1>9. Copies(cell, counts) \in Nat
  BY NumbersAre
<1> QED BY <1>2, <1>4, <1>5, <1>7, <1>8, <1>9 DEF Fresh

-----------------------------------------------------------------------------
(* Every step keeps the bound.                                              *)

Total(cell) == Copies(cell, counts) + Owes(handling, left, cell) + Fresh(task, cell)

\* A statement of the rebuild that no handler overlaps.
LEMMA AloneIs ==
  ASSUME TypeInv, ~raced', Delete \/ Insert \/ Recount
  PROVE  /\ handling = {} /\ UNCHANGED <<handling, left, task, index, job>>
         /\ Rebuilding /\ rebuild' = Tail(rebuild)
         /\ \A cell : Owes(handling, left, cell) = 0
<1>1. handling = {}
  BY DEF Delete, Insert, Recount, Rebuilt, Busy
<1>2. /\ UNCHANGED <<handling, left, task, index, job>> /\ rebuild' = Tail(rebuild)
      /\ Rebuilding
  BY DEF Delete, Insert, Recount, Rebuilt, handlerVars, Rebuilds
<1>3. \A cell : Owes(handling, left, cell) = 0
  BY <1>1, IdleOwes
<1> QED BY <1>1, <1>2, <1>3

LEMMA RebuildBelow ==
  ASSUME TypeInv, TypeInv', Bounded, TasksDone, ~raced', ~raced, Delete \/ Insert \/ Recount, NEW cell \in Cells
  PROVE  Total(cell)' <= Cardinality(Of(cell, index'))
<1>1. /\ handling = {} /\ UNCHANGED <<handling, left, task, index>> /\ Rebuilding
      /\ Owes(handling, left, cell) = 0
  BY AloneIs
<1>2. \A c \in Channels : task[c].at = "done"
  BY <1>1 DEF TasksDone
<1>3. Fresh(task, cell) = 0
  BY <1>2, TasksOwe
<1>4. Total(cell)' = Copies(cell, counts')
  <2>1. Copies(cell, counts') \in Nat
    BY CopiesType DEF TypeInv, CountsOK
  <2> QED BY <1>1, <1>3, <2>1 DEF Total
<1>5. Copies(cell, counts) <= Cardinality(Of(cell, index)) /\ Copies(cell, counts) \in Nat
  BY CountsBelow, NumbersAre
<1>6. CASE Delete
  <2>1. Copies(cell, counts') = 0 \/ Copies(cell, counts') = Copies(cell, counts)
    BY <1>6, DeleteIs
  <2>2. Cardinality(Of(cell, index)) \in Nat
    BY NumbersAre
  <2> QED BY <1>1, <1>4, <1>5, <2>1, <2>2
<1>7. CASE Insert
  <2> DEFINE t == Head(rebuild).arg
  <2>1. t \in Inserts /\ counts' = Written(Source(t), counts)
    BY <1>7, InsertIs
  <2>2. IsABag(Source(t)) /\ IsABag(counts)
    BY <2>1, SourceTypes DEF TypeInv, CountsOK
  <2>3. \A c \in DOMAIN Source(t) : Source(t)[c] <= Cardinality(Of(c, index))
    BY <2>1, SourceBelow
  <2> HIDE DEF t
  <2>4. Copies(cell, Written(Source(t), counts)) =
          IF cell \in DOMAIN Source(t) THEN Source(t)[cell] ELSE Copies(cell, counts)
    BY <2>2, WrittenBag
  <2> QED BY <1>1, <1>4, <1>5, <2>1, <2>3, <2>4
<1>8. CASE Recount
  <2> DEFINE B == CountOf("public_stats_cache", index)
  <2>1. counts' = Written(B, counts)
    BY <1>8 DEF Recount
  <2>2. "public_stats_cache" \in Tables /\ index \in SUBSET Messages
    BY TableNames, IndexTypes DEF TypeInv
  <2>3. IsABag(B) /\ \A c \in DOMAIN B : B[c] = Cardinality(Of(c, index))
    BY <2>2, CountOfValues
  <2> HIDE DEF B
  <2>4. IsABag(B) /\ IsABag(counts)
    BY <2>3 DEF TypeInv, CountsOK
  <2>5. Copies(cell, Written(B, counts)) = IF cell \in DOMAIN B THEN B[cell] ELSE Copies(cell, counts)
    BY <2>4, WrittenBag
  <2>6. Cardinality(Of(cell, index)) \in Nat
    BY NumbersAre
  <2> QED BY <1>1, <1>4, <1>5, <2>1, <2>3, <2>5, <2>6
<1> QED BY <1>6, <1>7, <1>8

LEMMA HandlerBelow ==
  ASSUME TypeInv, TypeInv', Bounded, CopiesActivity, ~raced, NEW cell \in Cells,
         Begin \/ Index \/ Count \/ ReadActivity \/ ActivityGone \/ WriteHealth \/ HandlerFails
  PROVE  Total(cell)' <= Cardinality(Of(cell, index'))
<1>1. UNCHANGED task
  BY DEF Begin, Index, Count, ReadActivity, ActivityGone, WriteHealth, HandlerFails, Proceed, jobVars
<1>2. Fresh(task', cell) = Fresh(task, cell)
  BY <1>1, TasksOwe
<1>3. /\ Copies(cell, counts) \in Nat /\ Owes(handling, left, cell) \in {0, 1}
      /\ Fresh(task, cell) \in Nat /\ Cardinality(Of(cell, index)) \in Nat
  BY NumbersAre
<1>4. /\ Copies(cell, counts') \in Nat /\ Owes(handling', left', cell) \in {0, 1}
      /\ Cardinality(Of(cell, index')) \in Nat
  <2>1. Copies(cell, counts') \in Nat /\ Cardinality(Of(cell, index')) \in Nat
    BY CopiesType, OfTypes, IndexTypes DEF TypeInv, CountsOK, StreamsOK
  <2> QED BY <2>1, OwesTypes
<1>5. Copies(cell, counts) + Owes(handling, left, cell) + Fresh(task, cell) <= Cardinality(Of(cell, index))
  BY DEF Bounded
<1>6. CASE UNCHANGED <<counts, index>> /\ Owes(handling', left', cell) = 0
  BY <1>2, <1>3, <1>5, <1>6 DEF Total
<1>7. CASE Begin
  <2>1. PICK m \in raw : m \in Messages /\ Stage(handling', left', m, 0)
    BY <1>7, BeginStep
  <2>2. Owed(m, 0) = {}
    BY DEF Owed
  <2>3. Owes(handling', left', cell) = 0
    BY <2>1, <2>2, OwesIs
  <2>4. UNCHANGED <<counts, index>>
    BY <1>7 DEF Begin
  <2> QED BY <1>6, <2>3, <2>4
<1>8. CASE ActivityGone \/ HandlerFails
  <2>1. Owes(handling', left', cell) = 0 /\ UNCHANGED <<counts, index>>
    BY <1>8, IdleOwes DEF ActivityGone, HandlerFails
  <2> QED BY <1>6, <2>1
<1>9. CASE Index
  <2>1. Cardinality(Of(cell, index')) + Owes(handling, left, cell) =
          Cardinality(Of(cell, index)) + Owes(handling', left', cell)
    BY <1>9, IndexBalance
  <2>2. counts' = counts
    BY <1>9 DEF Index
  <2> QED BY <1>2, <1>3, <1>4, <1>5, <2>1, <2>2 DEF Total
<1>10. CASE Count
  <2>1. Copies(cell, counts') + Owes(handling', left', cell) = Copies(cell, counts) + Owes(handling, left, cell)
    BY <1>10, CountBalance
  <2>2. index' = index
    BY <1>10 DEF Count
  <2> QED BY <1>2, <1>3, <1>4, <1>5, <2>1, <2>2 DEF Total
<1>11. CASE ReadActivity
  <2>1. Owes(handling', left', cell) = Owes(handling, left, cell) /\ UNCHANGED <<index, counts>>
    BY <1>11, ReadBalance
  <2> QED BY <1>2, <1>5, <2>1 DEF Total
<1>12. CASE WriteHealth
  <2>1. PICK m \in index :
          /\ m \in Messages
          /\ IF cell = CellOf("channel_health_daily", m)
             THEN Copies(cell, counts') = Copies(ActivityOf(m), counts)
             ELSE Copies(cell, counts') = Copies(cell, counts) /\ Owes(handling, left, cell) = 0
    BY <1>12, WriteBalance
  <2>2. Owes(handling', left', cell) = 0 /\ index' = index
    BY <1>12, WriteBalance
  <2>3. CASE cell = CellOf("channel_health_daily", m)
    <3>1. Fresh(task, cell) = 0
      <4>1. cell[1] = "channel_health_daily" /\ Stats[1] = "public_stats_cache"
        BY <2>1, <2>3, CellTypes DEF Tables, HumanTables, Stats
      <4> QED BY <4>1 DEF Fresh
    <3>2. ActivityOf(m) \in Cells
      BY <2>1, CellTypes DEF Tables, HumanTables, ActivityOf
    <3>3. Copies(ActivityOf(m), counts) <= Cardinality(Of(ActivityOf(m), index))
      BY <3>2, CountsBelow
    <3>4. Of(ActivityOf(m), index) = Of(cell, index)
      <4>1. /\ cell = <<"channel_health_daily", m.channel, Day(m.at)>>
            /\ ActivityOf(m) = <<"channel_daily_activity", m.channel, Day(m.at)>>
        BY <2>3, CellIs DEF ActivityOf
      <4> QED BY <4>1, OfCopies
    <3> QED BY <1>2, <1>4, <2>1, <2>2, <2>3, <3>1, <3>3, <3>4 DEF Total
  <2>4. CASE cell # CellOf("channel_health_daily", m)
    BY <1>2, <1>3, <1>5, <2>1, <2>2, <2>4 DEF Total
  <2> QED BY <2>3, <2>4
<1> QED BY <1>7, <1>8, <1>9, <1>10, <1>11, <1>12

LEMMA BoundedKept ==
  ASSUME TypeInv, Progress, Bounded, CopiesActivity, [Next]_vars
  PROVE  Bounded'
<1> SUFFICES ASSUME ~raced', NEW cell \in Cells PROVE Total(cell)' <= Cardinality(Of(cell, index'))
  BY DEF Bounded, Total
<1>1. ~raced /\ TypeInv'
  BY FlagsKept, TypesKept
<1>2. /\ Copies(cell, counts) \in Nat /\ Owes(handling, left, cell) \in {0, 1}
      /\ Fresh(task, cell) \in Nat /\ Cardinality(Of(cell, index)) \in Nat
  BY NumbersAre
<1>3. /\ Copies(cell, counts') \in Nat /\ Owes(handling', left', cell) \in {0, 1}
      /\ Fresh(task', cell) \in Nat
      /\ Cardinality(Of(cell, index')) \in Nat
  <2>1. Copies(cell, counts') \in Nat /\ Cardinality(Of(cell, index')) \in Nat
    BY <1>1, CopiesType, OfTypes, IndexTypes DEF TypeInv, CountsOK, StreamsOK
  <2>2. Cardinality(NewOnes(task')) \in Nat
    BY <1>1, NewOnesTypes DEF TypeInv, TaskOK
  <2> QED BY <2>1, <2>2, OwesTypes DEF Fresh
<1>4. Copies(cell, counts) + Owes(handling, left, cell) + Fresh(task, cell) <= Cardinality(Of(cell, index))
  BY <1>1 DEF Bounded
<1>5. Cardinality(Of(cell, index)) <= Cardinality(Of(cell, index'))
  BY <1>1, OfGrows, StreamsKept DEF TypeInv, StreamsOK
<1>6. CASE UNCHANGED <<counts, handling, left>> /\ (Fresh(task', cell) = Fresh(task, cell) \/ Fresh(task', cell) = 0)
  BY <1>2, <1>3, <1>4, <1>5, <1>6 DEF Total
<1>7. CASE (\E m \in Messages : Send(m) \/ Miss(m)) \/ UNCHANGED vars \/ RequestJob \/ EnqueueFails
           \/ StartRebuild \/ Complete \/ WorkerStops
  <2>1. UNCHANGED <<counts, handling, left, task>>
    BY <1>7, StopIs DEF Send, Miss, vars, handlerVars, jobVars, RequestJob, EnqueueFails, StartRebuild, Complete
  <2>2. Fresh(task', cell) = Fresh(task, cell)
    BY <1>1, <2>1, TasksOwe
  <2> QED BY <1>6, <2>1, <2>2
<1>8. CASE StartJob \/ JobFails \/ InsertConflicts
  <2>1. UNCHANGED <<counts, handling, left>> /\ task' = [c \in Channels |-> Unread]
    BY <1>8, ErrIs DEF StartJob, handlerVars
  <2>2. Fresh(task', cell) = 0
    BY <1>1, <2>1, TasksOwe
  <2> QED BY <1>6, <2>1, <2>2
<1>9. ASSUME NEW c \in Channels, StartTask(c) PROVE Total(cell)' <= Cardinality(Of(cell, index'))
  <2>1. Fresh(task', cell) = Fresh(task, cell)
    BY <1>1, <1>9, StartTaskOwes
  <2>2. UNCHANGED <<counts, handling, left>>
    BY <1>9 DEF StartTask, handlerVars
  <2> QED BY <1>6, <2>1, <2>2
<1>10. ASSUME NEW c \in Channels, ReadPage(c) PROVE Total(cell)' <= Cardinality(Of(cell, index'))
  <2>1. Fresh(task', cell) + Cardinality(Of(cell, index)) <= Fresh(task, cell) + Cardinality(Of(cell, index'))
    BY <1>1, <1>10, ReadPageOwes
  <2>2. UNCHANGED <<counts, handling, left>>
    BY <1>10 DEF ReadPage, handlerVars
  <2> QED BY <1>2, <1>3, <1>4, <2>1, <2>2 DEF Total
<1>11. ASSUME NEW c \in Channels, CountPage(c) PROVE Total(cell)' <= Cardinality(Of(cell, index'))
  <2>1. Copies(cell, counts') + Fresh(task', cell) = Copies(cell, counts) + Fresh(task, cell)
    BY <1>1, <1>11, CountPageOwes
  <2>2. UNCHANGED <<index, handling, left>>
    BY <1>11 DEF CountPage, handlerVars
  <2> QED BY <1>2, <1>3, <1>4, <2>1, <2>2 DEF Total
<1>12. CASE Begin \/ Index \/ Count \/ ReadActivity \/ ActivityGone \/ WriteHealth \/ HandlerFails
  BY <1>1, <1>12, HandlerBelow
<1>13. CASE Delete \/ Insert \/ Recount
  BY <1>1, <1>13, RebuildBelow DEF Progress
<1>14. CASE Restart
  <2>1. Copies(cell, counts') <= Cardinality(Of(cell, index'))
    BY <1>1, <1>14, RestartBelow
  <2>2. task' = [c \in Channels |-> Unread] /\ handling' = {}
    BY <1>14 DEF Restart
  <2>3. Fresh(task', cell) = 0
    BY <1>1, <2>2, TasksOwe
  <2>4. Owes(handling', left', cell) = 0
    BY <2>2, IdleOwes
  <2> QED BY <1>3, <2>1, <2>3, <2>4 DEF Total
<1>15. ASSUME NEW c \in Channels, Hang(c) PROVE Total(cell)' <= Cardinality(Of(cell, index'))
  BY <1>1, <1>6, <1>15, HangIs, HangOwes
<1> QED BY <1>7, <1>8, <1>9, <1>10, <1>11, <1>12, <1>13, <1>14, <1>15, NextCases

LEMMA ActivityIs ==
  ASSUME NEW m \in Messages
  PROVE  ActivityOf(m) \in Cells /\ ActivityOf(m)[1] = "channel_daily_activity" /\ ActivityOf(m) # Stats
<1>1. ActivityOf(m) \in Cells /\ ActivityOf(m)[1] = "channel_daily_activity"
  BY CellTypes DEF ActivityOf, Tables, HumanTables
<1>2. Stats[1] = "public_stats_cache"
  BY DEF Stats
<1> QED BY <1>1, <1>2

LEMMA ActivityKept ==
  ASSUME TypeInv, CopiesActivity, [Next]_vars
  PROVE  CopiesActivity'
<1> DEFINE Holds(m) ==
             /\ Stage(handling', left', m, 6) => Copies(ActivityOf(m), counts') > 0
             /\ Stage(handling', left', m, 7) => left' = HealthWrite(m, Copies(ActivityOf(m), counts'))
<1> SUFFICES ASSUME ~raced', NEW m \in Messages PROVE Holds(m)
  BY DEF CopiesActivity
<1>1. ~raced
  BY FlagsKept
<1>2. /\ Stage(handling, left, m, 6) => Copies(ActivityOf(m), counts) > 0
      /\ Stage(handling, left, m, 7) => left = HealthWrite(m, Copies(ActivityOf(m), counts))
  BY <1>1 DEF CopiesActivity
<1>3. ASSUME UNCHANGED <<handling, left>>, Copies(ActivityOf(m), counts') = Copies(ActivityOf(m), counts)
      PROVE  Holds(m)
  BY <1>2, <1>3
<1>4. ASSUME handling' = {} PROVE Holds(m)
  BY <1>4 DEF Stage
<1>5. ASSUME NEW n \in Messages, NEW k, k \notin {6, 7}, Stage(handling', left', n, k) PROVE Holds(m)
  <2>1. ~Stage(handling', left', m, 6)
    BY <1>5, StageUnique
  <2>2. ~Stage(handling', left', m, 7)
    BY <1>5, StageUnique
  <2> QED BY <2>1, <2>2
<1>6. CASE Begin
  <2>1. PICK n \in raw : n \in Messages /\ Stage(handling', left', n, 0)
    BY <1>6, BeginStep
  <2> QED BY <1>5, <2>1
<1>7. CASE Index
  <2>1. PICK n \in raw : n \in Messages /\ (handling' = {} \/ Stage(handling', left', n, 1))
    BY <1>7, IndexStep
  <2> QED BY <1>4, <1>5, <2>1
<1>8. CASE Count
  <2>1. PICK n \in raw, k \in 1 .. 5 :
          /\ n \in Messages /\ k \in 1 .. Steps(n)
          /\ counts' = counts (+) SetToBag({CellAt(k, n)})
          /\ k < Steps(n) => Stage(handling', left', n, k + 1)
          /\ k = Steps(n) => handling' = {} /\ left' = << >>
    BY <1>8, CountStep
  <2>2. Steps(n) \in {3, 6}
    BY <2>1, AggregatesAre
  <2>3. CASE k = Steps(n)
    BY <1>4, <2>1, <2>3
  <2>4. CASE k < Steps(n) /\ k # 5
    <3> DEFINE j == k + 1
    <3>1. Stage(handling', left', n, j) /\ j \notin {6, 7}
      BY <2>1, <2>4
    <3> HIDE DEF j
    <3> QED BY <1>5, <2>1, <3>1
  <2>5. CASE k < Steps(n) /\ k = 5
    <3>1. Stage(handling', left', n, 6)
      BY <2>1, <2>5
    <3>2. ~Stage(handling', left', m, 7)
      BY <2>1, <3>1, StageUnique
    <3>3. Stage(handling', left', m, 6) => m = n
      BY <2>1, <3>1, StageUnique
    <3>4. CellAt(k, n) = ActivityOf(n)
      BY <2>5 DEF CellAt, TableAt, ActivityOf
    <3>5. IsABag(counts) /\ IsABag(SetToBag({ActivityOf(n)}))
      BY OneBag DEF TypeInv, CountsOK
    <3>6. Copies(ActivityOf(n), counts (+) SetToBag({ActivityOf(n)})) =
            Copies(ActivityOf(n), counts) + Copies(ActivityOf(n), SetToBag({ActivityOf(n)}))
      BY <3>5, AddedBag
    <3>7. Copies(ActivityOf(n), counts) \in Nat /\ Copies(ActivityOf(n), SetToBag({ActivityOf(n)})) = 1
      BY <3>5, CopiesType, OneBag DEF Copies
    <3>8. Copies(ActivityOf(n), counts') > 0
      BY <2>1, <3>4, <3>6, <3>7
    <3> QED BY <3>2, <3>3, <3>8
  <2> QED BY <2>1, <2>2, <2>3, <2>4, <2>5
<1>9. CASE ReadActivity
  <2>1. PICK n \in raw :
          /\ n \in Messages /\ ~n.bot /\ Stage(handling, left, n, 6)
          /\ Copies(ActivityOf(n), counts) > 0
          /\ handling' = handling /\ left' = HealthWrite(n, Copies(ActivityOf(n), counts))
    BY <1>9, ReadStep
  <2>2. Copies(ActivityOf(n), counts) \in Nat \ {0}
    BY <2>1, CopiesType DEF TypeInv, CountsOK
  <2>3. handling = {n}
    BY <2>1, StageFacts
  <2>4. Stage({n}, HealthWrite(n, Copies(ActivityOf(n), counts)), n, 7)
    BY <2>1, <2>2, StageWrites DEF HealthWrite
  <2>5. Stage(handling', left', n, 7)
    BY <2>1, <2>3, <2>4
  <2>6. ~Stage(handling', left', m, 6)
    BY <2>1, <2>5, StageUnique
  <2>7. Stage(handling', left', m, 7) => m = n
    BY <2>1, <2>5, StageUnique
  <2>8. counts' = counts
    BY <1>9 DEF ReadActivity
  <2> QED BY <2>1, <2>6, <2>7, <2>8
<1>10. CASE ActivityGone \/ HandlerFails \/ Restart
  BY <1>4, <1>10 DEF ActivityGone, HandlerFails, Restart
<1>11. CASE WriteHealth
  <2>1. handling' = {}
    BY <1>11, WriteStep
  <2> QED BY <1>4, <2>1
<1>12. CASE Delete \/ Insert \/ Recount
  <2>1. handling = {} /\ UNCHANGED handling
    BY <1>12, AloneIs
  <2> QED BY <1>4, <2>1
<1>13. ASSUME NEW c \in Channels, CountPage(c) PROVE Holds(m)
  <2>1. task[c].new \in Nat \ {0} /\ counts' = counts (+) Row(Stats, task[c].new)
    BY <1>13 DEF CountPage, At, TypeInv, TaskOK, Tasks, Stats
  <2> DEFINE n == task[c].new
  <2> HIDE DEF n
  <2>2. IsABag(counts) /\ IsABag(Row(Stats, n)) /\ n \in Nat \ {0}
    BY <2>1, RowBag DEF n, TypeInv, CountsOK
  <2>3. Copies(ActivityOf(m), counts (+) Row(Stats, n)) =
          Copies(ActivityOf(m), counts) + Copies(ActivityOf(m), Row(Stats, n))
    BY <2>2, AddedBag
  <2>4. Copies(ActivityOf(m), Row(Stats, n)) = 0
    BY <2>2, RowCopies, ActivityIs
  <2>5. Copies(ActivityOf(m), counts) \in Nat
    BY NumbersAre
  <2>6. Copies(ActivityOf(m), counts') = Copies(ActivityOf(m), counts)
    BY <2>1, <2>3, <2>4, <2>5 DEF n
  <2>7. UNCHANGED <<handling, left>>
    BY <1>13 DEF CountPage, handlerVars
  <2> QED BY <1>3, <2>6, <2>7
<1>14. CASE (\E e \in Messages : Send(e) \/ Miss(e)) \/ UNCHANGED vars \/ RequestJob \/ EnqueueFails
         \/ StartJob \/ StartRebuild \/ InsertConflicts \/ Complete \/ JobFails \/ WorkerStops
         \/ (\E c \in Channels : StartTask(c) \/ ReadPage(c) \/ Hang(c))
  <2>1. UNCHANGED <<handling, left, counts>>
    BY <1>14, ErrIs, StopIs, HangIs DEF Send, Miss, vars, handlerVars, RequestJob, EnqueueFails,
       StartJob, StartRebuild, Complete, StartTask, ReadPage
  <2> QED BY <1>3, <2>1
<1> QED BY <1>6, <1>7, <1>8, <1>9, <1>10, <1>11, <1>12, <1>13, <1>14, NextCases

LEMMA CountsBegin == Init => Bounded /\ CopiesActivity
<1> SUFFICES ASSUME Init PROVE Bounded /\ CopiesActivity
  OBVIOUS
<1>1. TypeInv
  BY TypesBegin
<1>2. handling = {} /\ index = {} /\ counts = EmptyBag /\ \A c \in Channels : task[c] = Unread
  BY DEF Init
<1>3. \A cell : Owes(handling, left, cell) = 0 /\ Fresh(task, cell) = 0
  <2>1. \A c \in Channels : task[c].new = 0
    BY <1>2 DEF Unread
  <2>2. task \in [Channels -> Tasks]
    BY <1>1 DEF TypeInv, TaskOK
  <2>3. \A cell : Fresh(task, cell) = 0
    BY <2>1, <2>2, NoNewOnes
  <2> QED BY <1>2, <2>3, IdleOwes
<1>4. \A cell : Copies(cell, counts) = 0
  BY <1>2 DEF Copies, EmptyBag, SetToBag
<1>5. \A cell : Cardinality(Of(cell, index)) \in Nat
  BY <1>1, NumbersAre
<1>6. Bounded
  BY <1>3, <1>4, <1>5 DEF Bounded
<1>7. CopiesActivity
  BY <1>2 DEF CopiesActivity, Stage
<1> QED BY <1>6, <1>7

\* However the gateway's, the backfill's and the stored copies of a message
\* meet, fail and are tried again, no row counts more messages of its key and
\* day than are indexed, unless a handler overlapped the rebuild.
THEOREM NothingCountedTwice == Spec => []NeverOvercounted
<1> DEFINE I == TypeInv /\ Progress /\ Bounded /\ CopiesActivity
<1>1. I => NeverOvercounted
  <2> SUFFICES ASSUME I, ~raced, NEW t \in Tables, NEW cell \in DOMAIN counts, cell[1] = t
               PROVE  counts[cell] <= Copies(cell, CountOf(t, index))
    BY DEF NeverOvercounted
  <2>1. cell \in Cells /\ index \in SUBSET Messages
    BY IndexTypes DEF TypeInv, CountsOK
  <2>2. Copies(cell, counts) <= Cardinality(Of(cell, index))
    BY <2>1, CountsBelow
  <2>3. Copies(cell, CountOf(t, index)) = Cardinality(Of(cell, index))
    <3>1. \A c : c[1] = t => Copies(c, CountOf(t, index)) = Cardinality(Of(c, index))
      BY <2>1, CountOfValues
    <3> QED BY <3>1
  <2>4. Copies(cell, counts) = counts[cell]
    BY DEF Copies
  <2> QED BY <2>2, <2>3, <2>4
<1>2. Init => I
  BY TypesBegin, ProgressBegins, CountsBegin
<1>3. I /\ [Next]_vars => I'
  BY TypesKept, ProgressKept, BoundedKept, ActivityKept
<1>4. Spec => []I
  <2> HIDE DEF I
  <2> QED BY <1>2, <1>3, PTL DEF Spec
<1> QED BY <1>1, <1>4, PTL

-----------------------------------------------------------------------------
(* What the rebuild leaves.                                                 *)

LEMMA RepairedIs ==
  ASSUME NEW cell \in Cells
  PROVE  /\ cell[1] \in {"channel_daily_activity", "channel_health_daily"} =>
              (Repaired(cell[1], cell) <=> cell[3] > Day(From) /\ cell[3] < Day(To))
         /\ cell[1] \in {"member_daily_activity", "guild_daily_activity", "guild_summary_daily"} =>
              (Repaired(cell[1], cell) <=> cell[3] \in ScopeDays)
BY DEF Repaired

LEMMA DaysAre ==
  /\ Day(From) \in Nat /\ Day(To) \in Nat
  /\ \A m \in Messages : Day(m.at) \in Nat /\ m.at \in Nat
  /\ \A m \in Messages : Day(m.at) > Day(From) /\ Day(m.at) < Day(To) => m.at \in From .. To
<1>1. From \in Nat /\ To \in Nat /\ \A m \in Messages : m.at \in Nat
  BY IndexingAssumption
<1>2. \A m \in Messages : m.at <= From => Day(m.at) <= Day(From)
  BY <1>1, DayOrder
<1>3. \A m \in Messages : To <= m.at => Day(To) <= Day(m.at)
  BY <1>1, DayOrder
<1>4. Day(From) \in Nat /\ Day(To) \in Nat /\ \A m \in Messages : Day(m.at) \in Nat
  BY <1>1, DayType
<1> QED BY <1>1, <1>2, <1>3, <1>4

\* The messages a cell of a day counts are of that day.
LEMMA OfDay ==
  ASSUME NEW S, NEW cell \in Cells, cell[1] # "public_stats_cache", NEW m \in Of(cell, S)
  PROVE  Day(m.at) = cell[3]
<1>1. CellOf(cell[1], m) = cell
  BY DEF Of
<1>2. CellOf(cell[1], m)[3] = Day(m.at)
  BY DEF CellOf
<1> QED BY <1>1, <1>2

\* The INSERT of a table selects every message of a day it repairs.
LEMMA DaySelected ==
  ASSUME TypeInv, NEW cell \in Cells, cell[1] # "public_stats_cache", cell[3] \in ScopeDays
  PROVE  Of(cell, InDays) = Of(cell, index)
<1>1. \A m \in Of(cell, index) : m \in InDays
  BY OfDay DEF Of, InDays, Counted
<1>2. InDays \subseteq index
  BY DEF InDays
<1> QED BY <1>1, <1>2 DEF Of, Counted

LEMMA ChannelSelected ==
  ASSUME TypeInv, NEW cell \in Cells, cell[1] # "public_stats_cache",
         cell[3] > Day(From), cell[3] < Day(To)
  PROVE  Of(cell, {m \in InDays : m.at <= To /\ m.channel \in Affected}) = Of(cell, index)
<1> DEFINE S == {m \in InDays : m.at <= To /\ m.channel \in Affected}
<1>1. ASSUME NEW m \in Of(cell, index) PROVE m \in S
  <2>1. m \in index /\ m \in Messages
    BY OfTypes, IndexTypes DEF TypeInv
  <2>2. Day(m.at) = cell[3]
    BY OfDay
  <2>3. m.at \in From .. To /\ Day(m.at) \in ScopeDays
    BY <2>1, <2>2, DaysAre DEF ScopeDays
  <2>4. m.at <= To
    BY <2>1, <2>3, IndexingAssumption
  <2> QED BY <2>1, <2>3, <2>4 DEF InDays, Affected
<1>2. S \subseteq index
  BY DEF InDays
<1> HIDE DEF S
<1>3. Of(cell, S) = Of(cell, index)
  BY <1>1, <1>2 DEF Of, Counted
<1> QED BY <1>3 DEF S

\* A row that is written from the index, or absent from what is written.
LEMMA MadeFromIndex ==
  ASSUME TypeInv, Bounded, ~raced, NEW cell \in Cells, NEW S \in SUBSET index,
         Of(cell, S) = Of(cell, index)
  PROVE  Copies(cell, Written(CountOf(cell[1], S), counts)) = Cardinality(Of(cell, index))
<1> DEFINE B == CountOf(cell[1], S)
           N == Cardinality(Of(cell, index))
<1>1. cell[1] \in Tables /\ S \in SUBSET Messages
  BY CellParts, IndexTypes DEF TypeInv
<1>2. IsABag(B) /\ \A c : c[1] = cell[1] => Copies(c, B) = Cardinality(Of(c, S))
  BY <1>1, CountOfValues
<1>3. Copies(cell, B) = Cardinality(Of(cell, S))
  BY <1>2
<1>4. Cardinality(Of(cell, S)) = N
  OBVIOUS
<1>5. Copies(cell, counts) <= N /\ Copies(cell, counts) \in Nat
  BY CountsBelow, NumbersAre
<1> HIDE DEF B, N
<1>6. Copies(cell, Written(B, counts)) = IF cell \in DOMAIN B THEN B[cell] ELSE Copies(cell, counts)
  BY <1>2, WrittenBag DEF TypeInv, CountsOK
<1>7. Copies(cell, B) = IF cell \in DOMAIN B THEN B[cell] ELSE 0
  BY DEF Copies
<1>8. Copies(cell, Written(B, counts)) = N
  BY <1>3, <1>4, <1>5, <1>6, <1>7
<1> QED BY <1>8 DEF B, N

\* A row that is written from another that is right, or absent as that is.
LEMMA MadeFromRow ==
  ASSUME TypeInv, Bounded, ~raced, NEW from \in Tables, NEW cell \in Cells,
         NEW D, \A c \in D : c \in DOMAIN counts /\ c[1] = from,
         <<from, cell[2], cell[3]>> \in DOMAIN counts => <<from, cell[2], cell[3]>> \in D,
         Of(cell, index) = Of(<<from, cell[2], cell[3]>>, index),
         Copies(<<from, cell[2], cell[3]>>, counts) = Cardinality(Of(<<from, cell[2], cell[3]>>, index))
  PROVE  Copies(cell, Written(Renamed(from, cell[1], D, counts), counts)) = Cardinality(Of(cell, index))
<1> DEFINE B == Renamed(from, cell[1], D, counts)
           of == <<from, cell[2], cell[3]>>
<1>1. cell[1] \in Tables /\ IsABag(counts) /\ DOMAIN counts \subseteq Cells
  BY CellParts DEF TypeInv, CountsOK
<1>2. IsABag(B) /\ \A c \in Cells : c[1] = cell[1] /\ <<from, c[2], c[3]>> \in D => c \in DOMAIN B
  BY <1>1, RenamedBag
<1>3. \A c \in DOMAIN B : B[c] = Copies(<<from, c[2], c[3]>>, counts)
  BY <1>1, RenamedIs
<1>4. of \in DOMAIN counts => cell \in DOMAIN B
  BY <1>2
<1>5. Copies(cell, counts) <= Cardinality(Of(cell, index)) /\ Copies(cell, counts) \in Nat
  BY CountsBelow, NumbersAre
<1>6. cell \in DOMAIN B => B[cell] = Copies(of, counts)
  BY <1>3
<1>7. of \notin DOMAIN counts => Copies(of, counts) = 0
  BY DEF Copies
<1> HIDE DEF B, of
<1>8. Copies(cell, Written(B, counts)) = IF cell \in DOMAIN B THEN B[cell] ELSE Copies(cell, counts)
  BY <1>1, <1>2, WrittenBag
<1>9. Copies(of, counts) = Cardinality(Of(cell, index))
  BY DEF of
<1>10. Copies(cell, Written(B, counts)) = Cardinality(Of(cell, index))
  BY <1>4, <1>5, <1>6, <1>7, <1>8, <1>9
<1> QED BY <1>10 DEF B

\* What is made again by statement k and is right.
Right(cell) == Copies(cell, counts) + Owes(handling, left, cell) = Cardinality(Of(cell, index))

LEMMA MadeTables ==
  /\ \A t \in Tables : MadeBy[t] \in {2, 4, 6, 8, 10, 11}
  /\ \A t, u \in Tables : MadeBy[t] = MadeBy[u] => t = u
  /\ MadeBy["channel_daily_activity"] = 4 /\ MadeBy["channel_health_daily"] = 6
  /\ MadeBy["guild_daily_activity"] = 8 /\ MadeBy["guild_summary_daily"] = 10
  /\ \A t \in Tables : MadeBy[t] = 11 <=> t = "public_stats_cache"
BY DEF MadeBy, Tables, GuildTables, HumanTables

\* One INSERT makes its table right in the days it repairs.
LEMMA InsertMakes ==
  ASSUME TypeInv, Bounded, ~raced, handling = {}, NEW t \in Inserts, NEW cell \in Cells, cell[1] = t,
         Repaired(t, cell),
         \A c \in Cells : MadeBy[c[1]] < MadeBy[t] /\ Repaired(c[1], c) => Right(c)
  PROVE  Copies(cell, Written(Source(t), counts)) = Cardinality(Of(cell, index))
<1>1. cell[1] # "public_stats_cache"
  BY DEF Inserts
<1>2. \A c : Owes(handling, left, c) = 0 /\ Copies(c, counts) \in Nat
  BY IdleOwes, NumbersAre
<1>3. Day(From) \in Nat /\ Day(To) \in Nat /\ cell[3] \in Nat
  BY DaysAre, CellParts
<1>4. /\ t \in {"channel_daily_activity", "channel_health_daily"} => cell[3] > Day(From) /\ cell[3] < Day(To)
      /\ t \notin {"channel_daily_activity", "channel_health_daily"} => cell[3] \in ScopeDays
  BY RepairedIs DEF Inserts
<1>5. CASE t \in {"member_daily_activity", "guild_daily_activity"}
  <2>1. Source(t) = CountOf(t, InDays) /\ InDays \in SUBSET index
    BY <1>5, SourceIs, IndexTypes DEF TypeInv
  <2>2. cell[3] \in ScopeDays
    BY <1>4, <1>5
  <2>3. Of(cell, InDays) = Of(cell, index)
    BY <1>1, <2>2, DaySelected
  <2>4. Copies(cell, Written(CountOf(cell[1], InDays), counts)) = Cardinality(Of(cell, index))
    BY <2>1, <2>3, MadeFromIndex
  <2> QED BY <2>1, <2>4
<1>6. CASE t = "channel_daily_activity"
  <2> DEFINE S == {m \in InDays : m.at <= To /\ m.channel \in Affected}
  <2>1. Source(t) = CountOf(t, S) /\ S \in SUBSET index
    BY <1>6, SourceIs, IndexTypes DEF TypeInv
  <2>2. Of(cell, S) = Of(cell, index)
    BY <1>1, <1>4, <1>6, ChannelSelected
  <2> HIDE DEF S
  <2>3. Copies(cell, Written(CountOf(cell[1], S), counts)) = Cardinality(Of(cell, index))
    BY <2>1, <2>2, MadeFromIndex
  <2> QED BY <2>1, <2>3
<1>7. CASE t = "channel_health_daily"
  <2> DEFINE D == {x \in DOMAIN counts : x[1] = "channel_daily_activity" /\ InScope("channel_health_daily", x[3])}
             of == <<"channel_daily_activity", cell[2], cell[3]>>
  <2>1. Source(t) = Renamed("channel_daily_activity", t, D, counts)
    BY <1>7, SourceIs
  <2>2. \A c \in D : c \in DOMAIN counts /\ c[1] = "channel_daily_activity"
    OBVIOUS
  <2>3. "channel_daily_activity" \in Tables
    BY DEF Tables, HumanTables
  <2>4. of \in DOMAIN counts => of \in D
    BY <1>3, <1>4, <1>7 DEF InScope
  <2>5. of \in Cells /\ of[1] = "channel_daily_activity" /\ of[3] = cell[3]
    BY <2>3, CellParts
  <2> HIDE DEF D
  <2>6. Right(of)
    <3>1. Repaired(of[1], of)
      BY <1>4, <1>7, <2>5, RepairedIs
    <3>2. MadeBy[of[1]] < MadeBy[t]
      BY <1>7, <2>5, MadeTables
    <3> QED BY <2>5, <3>1, <3>2
  <2>7. Copies(of, counts) = Cardinality(Of(of, index))
    BY <1>2, <2>6 DEF Right
  <2>8. Of(cell, index) = Of(of, index)
    BY <1>7, SameMessages
  <2>9. Copies(cell, Written(Renamed("channel_daily_activity", cell[1], D, counts), counts)) =
          Cardinality(Of(cell, index))
    BY <2>2, <2>3, <2>4, <2>7, <2>8, MadeFromRow
  <2> QED BY <2>1, <2>9
<1>8. CASE t = "guild_summary_daily"
  <2> DEFINE D == {x \in DOMAIN counts : x[1] = "guild_daily_activity" /\ InScope("guild_summary_daily", x[3])}
             of == <<"guild_daily_activity", cell[2], cell[3]>>
  <2>1. Source(t) = Renamed("guild_daily_activity", t, D, counts)
    BY <1>8, SourceIs
  <2>2. \A c \in D : c \in DOMAIN counts /\ c[1] = "guild_daily_activity"
    OBVIOUS
  <2>3. "guild_daily_activity" \in Tables
    BY DEF Tables, GuildTables
  <2>4. of \in DOMAIN counts => of \in D
    BY <1>3, <1>4, <1>8 DEF InScope, ScopeDays
  <2>5. of \in Cells /\ of[1] = "guild_daily_activity" /\ of[3] = cell[3]
    BY <2>3, CellParts
  <2> HIDE DEF D
  <2>6. Right(of)
    <3>1. Repaired(of[1], of)
      BY <1>4, <1>8, <2>5, RepairedIs
    <3>2. MadeBy[of[1]] < MadeBy[t]
      BY <1>8, <2>5, MadeTables
    <3> QED BY <2>5, <3>1, <3>2
  <2>7. Copies(of, counts) = Cardinality(Of(of, index))
    BY <1>2, <2>6 DEF Right
  <2>8. Of(cell, index) = Of(of, index)
    BY <1>8, SameMessages
  <2>9. Copies(cell, Written(Renamed("guild_daily_activity", cell[1], D, counts), counts)) =
          Cardinality(Of(cell, index))
    BY <2>2, <2>3, <2>4, <2>7, <2>8, MadeFromRow
  <2> QED BY <2>1, <2>9
<1> QED BY <1>5, <1>6, <1>7, <1>8 DEF Inserts

\* The message worker's steps leave what is right so.
LEMMA HandlerLeavesRight ==
  ASSUME TypeInv, TypeInv', CopiesActivity, ~raced, Rebuilding, ~raced', NEW cell \in Cells, Right(cell),
         Begin \/ Index \/ Count \/ ReadActivity \/ ActivityGone \/ WriteHealth \/ HandlerFails,
         \A m \in Messages : cell = CellOf("channel_health_daily", m) => Right(ActivityOf(m))
  PROVE  Right(cell)'
<1>1. /\ Copies(cell, counts) \in Nat /\ Owes(handling, left, cell) \in {0, 1}
      /\ Cardinality(Of(cell, index)) \in Nat
  BY NumbersAre
<1>2. /\ Copies(cell, counts') \in Nat /\ Owes(handling', left', cell) \in {0, 1}
      /\ Cardinality(Of(cell, index')) \in Nat
  <2>1. Copies(cell, counts') \in Nat /\ Cardinality(Of(cell, index')) \in Nat
    BY CopiesType, OfTypes, IndexTypes DEF TypeInv, CountsOK, StreamsOK
  <2> QED BY <2>1, OwesTypes
<1>3. Copies(cell, counts) + Owes(handling, left, cell) = Cardinality(Of(cell, index))
  BY DEF Right
<1>4. CASE Begin
  <2>1. PICK m \in raw : m \in Messages /\ Stage(handling', left', m, 0)
    BY <1>4, BeginStep
  <2>2. Owed(m, 0) = {} /\ handling = {}
    BY <1>4, BeginStep DEF Owed
  <2>3. Owes(handling', left', cell) = 0
    BY <2>1, <2>2, OwesIs
  <2>4. Owes(handling, left, cell) = 0
    BY <2>2, IdleOwes
  <2>5. UNCHANGED <<counts, index>>
    BY <1>4 DEF Begin
  <2> QED BY <1>3, <2>3, <2>4, <2>5 DEF Right
<1>5. CASE HandlerFails
  BY <1>5 DEF HandlerFails
<1>6. CASE ActivityGone
  <2>1. PICK m \in raw : m \in Messages /\ Stage(handling, left, m, 6) /\ ActivityOf(m) \notin DOMAIN counts
    BY <1>6, ReadStep
  <2>2. Copies(ActivityOf(m), counts) > 0
    BY <2>1 DEF CopiesActivity
  <2>3. Copies(ActivityOf(m), counts) = 0
    BY <2>1 DEF Copies
  <2> QED BY <2>2, <2>3
<1>7. CASE Index
  <2>1. Cardinality(Of(cell, index')) + Owes(handling, left, cell) =
          Cardinality(Of(cell, index)) + Owes(handling', left', cell)
    BY <1>7, IndexBalance
  <2>2. counts' = counts
    BY <1>7 DEF Index
  <2> QED BY <1>1, <1>2, <1>3, <2>1, <2>2 DEF Right
<1>8. CASE Count
  <2>1. Copies(cell, counts') + Owes(handling', left', cell) = Copies(cell, counts) + Owes(handling, left, cell)
    BY <1>8, CountBalance
  <2>2. index' = index
    BY <1>8 DEF Count
  <2> QED BY <1>3, <2>1, <2>2 DEF Right
<1>9. CASE ReadActivity
  <2>1. Owes(handling', left', cell) = Owes(handling, left, cell) /\ UNCHANGED <<index, counts>>
    BY <1>9, ReadBalance
  <2> QED BY <1>3, <2>1 DEF Right
<1>10. CASE WriteHealth
  <2>1. PICK m \in index :
          /\ m \in Messages /\ ~m.bot /\ Stage(handling, left, m, 7)
          /\ IF cell = CellOf("channel_health_daily", m)
             THEN Copies(cell, counts') = Copies(ActivityOf(m), counts)
             ELSE Copies(cell, counts') = Copies(cell, counts) /\ Owes(handling, left, cell) = 0
    BY <1>10, WriteBalance
  <2>2. Owes(handling', left', cell) = 0 /\ index' = index
    BY <1>10, WriteBalance
  <2>3. CASE cell = CellOf("channel_health_daily", m)
    <3>1. Right(ActivityOf(m))
      BY <2>1, <2>3
    <3>2. Owes(handling, left, ActivityOf(m)) = 0
      <4>1. Owed(m, 7) = {"channel_health_daily"} /\ ActivityOf(m)[1] = "channel_daily_activity"
        BY <2>1, ActivityIs DEF Owed
      <4> QED BY <2>1, <4>1, OwesIs
    <3>3. Copies(ActivityOf(m), counts) \in Nat
      BY NumbersAre
    <3>4. Of(ActivityOf(m), index) = Of(cell, index)
      <4>1. /\ cell = <<"channel_health_daily", m.channel, Day(m.at)>>
            /\ ActivityOf(m) = <<"channel_daily_activity", m.channel, Day(m.at)>>
        BY <2>3, CellIs DEF ActivityOf
      <4> QED BY <4>1, OfCopies
    <3> QED BY <2>1, <2>2, <2>3, <3>1, <3>2, <3>3, <3>4 DEF Right
  <2>4. CASE cell # CellOf("channel_health_daily", m)
    BY <1>1, <1>3, <2>1, <2>2, <2>4 DEF Right
  <2> QED BY <2>3, <2>4
<1> QED BY <1>4, <1>5, <1>6, <1>7, <1>8, <1>9, <1>10

\* A statement of the rebuild makes its table right and leaves the others.
LEMMA RebuildLeavesRight ==
  ASSUME TypeInv, Bounded, MadeAgain, ~raced, ~raced', Delete \/ Insert \/ Recount,
         NEW k \in 0 .. 10, DoneRebuild(rebuild, k), Head(rebuild) = Rebuild[k + 1],
         NEW cell \in Cells, MadeBy[cell[1]] <= k + 1, Repaired(cell[1], cell)
  PROVE  Right(cell)'
<1>1. /\ handling = {} /\ UNCHANGED <<handling, left, index>> /\ Rebuilding
      /\ \A c : Owes(handling, left, c) = 0
  BY AloneIs
<1>2. \A c \in Cells : MadeBy[c[1]] <= k /\ Repaired(c[1], c) => Right(c)
  <2>1. \A j \in 0 .. 11, c \in Cells : DoneRebuild(rebuild, j) /\ MadeBy[c[1]] <= j /\ Repaired(c[1], c) => Right(c)
    BY <1>1 DEF MadeAgain, Right
  <2> QED BY <2>1
<1>3. cell[1] \in Tables /\ MadeBy[cell[1]] \in {2, 4, 6, 8, 10, 11} /\ k + 1 \in 1 .. 11
  BY CellParts, MadeTables
<1>4. Copies(cell, counts) \in Nat /\ Cardinality(Of(cell, index)) \in Nat
  BY NumbersAre
<1>5. SUFFICES Copies(cell, counts') = Cardinality(Of(cell, index))
  BY <1>1, <1>4, <1>5 DEF Right
<1>6. ASSUME MadeBy[cell[1]] <= k PROVE Copies(cell, counts) = Cardinality(Of(cell, index))
  BY <1>1, <1>2, <1>4, <1>6 DEF Right
<1>7. CASE Delete
  <2>1. Rebuild[k + 1].op = "delete"
    BY <1>7 DEF Delete, Rebuilds
  <2>2. k + 1 \in {1, 3, 5, 7, 9} /\ MadeBy[Rebuild[k + 1].arg] = (k + 1) + 1
    BY <1>3, <2>1, RebuildPlaces
  <2>3. MadeBy[cell[1]] <= k /\ cell[1] # Rebuild[k + 1].arg
    BY <1>3, <2>2
  <2>4. Copies(cell, counts') = Copies(cell, counts)
    BY <1>7, <2>3, DeleteIs
  <2> QED BY <1>6, <2>3, <2>4
<1>8. CASE Insert
  <2> DEFINE t == Head(rebuild).arg
  <2>1. t \in Inserts /\ counts' = Written(Source(t), counts)
    BY <1>8, InsertIs
  <2>2. Rebuild[k + 1].op = "insert"
    BY <1>8 DEF Insert, Rebuilds
  <2>3. MadeBy[t] = k + 1
    BY <1>3, <2>2, RebuildPlaces
  <2>4. t \in Tables
    BY <2>1 DEF Inserts, Tables, GuildTables, HumanTables
  <2> HIDE DEF t
  <2>5. CASE cell[1] = t
    <3>1. \A c \in Cells : MadeBy[c[1]] < MadeBy[t] /\ Repaired(c[1], c) => Right(c)
      <4> TAKE c \in Cells
      <4>1. MadeBy[c[1]] \in Nat
        BY CellParts, MadeTables
      <4> QED BY <1>2, <2>3, <4>1
    <3>2. Repaired(t, cell)
      BY <2>5
    <3> QED BY <1>1, <2>1, <2>5, <3>1, <3>2, InsertMakes
  <2>6. CASE cell[1] # t
    <3>1. MadeBy[cell[1]] <= k
      BY <1>3, <2>3, <2>4, <2>6, MadeTables
    <3>2. IsABag(Source(t)) /\ \A c \in DOMAIN Source(t) : c[1] = t
      BY <2>1, SourceTypes DEF TypeInv
    <3>3. Copies(cell, Written(Source(t), counts)) =
            IF cell \in DOMAIN Source(t) THEN Source(t)[cell] ELSE Copies(cell, counts)
      BY <3>2, WrittenBag DEF TypeInv, CountsOK
    <3> QED BY <1>6, <2>1, <2>6, <3>1, <3>2, <3>3
  <2> QED BY <2>5, <2>6
<1>9. CASE Recount
  <2> DEFINE B == CountOf("public_stats_cache", index)
  <2>1. counts' = Written(B, counts)
    BY <1>9 DEF Recount
  <2>2. Rebuild[k + 1].op = "recount"
    BY <1>9 DEF Recount, Rebuilds
  <2>3. k + 1 = 11
    BY <1>3, <2>2, RebuildPlaces
  <2>4. CASE cell[1] = "public_stats_cache"
    <3>1. Copies(cell, Written(CountOf(cell[1], index), counts)) = Cardinality(Of(cell, index))
      BY MadeFromIndex
    <3> QED BY <2>1, <2>4, <3>1
  <2>5. CASE cell[1] # "public_stats_cache"
    <3>1. MadeBy[cell[1]] <= k
      BY <1>3, <2>3, <2>5, MadeTables
    <3>2. IsABag(B) /\ \A c \in DOMAIN B : c[1] = "public_stats_cache"
      <4>1. "public_stats_cache" \in Tables /\ index \in SUBSET Messages
        BY TableNames, IndexTypes DEF TypeInv
      <4> QED BY <4>1, CountOfValues
    <3> HIDE DEF B
    <3>3. Copies(cell, Written(B, counts)) = IF cell \in DOMAIN B THEN B[cell] ELSE Copies(cell, counts)
      BY <3>2, WrittenBag DEF TypeInv, CountsOK
    <3> QED BY <1>6, <2>1, <2>5, <3>1, <3>2, <3>3
  <2> QED BY <2>4, <2>5
<1> QED BY <1>7, <1>8, <1>9

LEMMA MadeKept ==
  ASSUME TypeInv, Bounded, CopiesActivity, MadeAgain, [Next]_vars
  PROVE  MadeAgain'
<1> SUFFICES ASSUME Rebuilding', ~raced', NEW j \in 0 .. 11, NEW cell \in Cells,
                    DoneRebuild(rebuild', j), MadeBy[cell[1]] <= j, Repaired(cell[1], cell)
             PROVE  Right(cell)'
  BY DEF MadeAgain, Right
<1>1. ~raced /\ TypeInv'
  BY FlagsKept, TypesKept
<1>2. MadeBy[cell[1]] \in {2, 4, 6, 8, 10, 11}
  BY CellParts, MadeTables
<1>3. ASSUME Rebuilding, NEW c \in Cells, NEW k \in 0 .. 11,
             DoneRebuild(rebuild, k), MadeBy[c[1]] <= k, Repaired(c[1], c)
      PROVE  Right(c)
  BY <1>1, <1>3 DEF MadeAgain, Right
<1>4. CASE StartRebuild
  <2>1. DoneRebuild(rebuild', 0)
    BY <1>4, RebuildBegins DEF StartRebuild
  <2>2. j = 0
    BY <2>1, RebuildOnce
  <2> QED BY <1>2, <2>2
<1>5. CASE Delete \/ Insert \/ Recount
  <2>1. PICK op : Rebuilds(op)
    BY <1>5 DEF Delete, Insert, Recount
  <2>2. rebuild' = Tail(rebuild)
    BY <1>5, AloneIs
  <2>3. PICK k \in 0 .. 10 :
          /\ DoneRebuild(rebuild, k) /\ DoneRebuild(Tail(rebuild), k + 1) /\ k + 1 \in 1 .. 11
          /\ Head(rebuild) = Rebuild[k + 1]
    BY <2>1, RebuildRuns DEF TypeInv
  <2>4. k + 1 = j
    <3>1. DoneRebuild(rebuild', k + 1) /\ k + 1 \in 0 .. 11
      BY <2>2, <2>3
    <3> DEFINE i == k + 1
    <3> HIDE DEF i
    <3>2. DoneRebuild(rebuild', i) /\ i \in 0 .. 11
      BY <3>1 DEF i
    <3>3. i = j
      BY <3>2, RebuildOnce
    <3> QED BY <3>3 DEF i
  <2> QED BY <1>1, <1>5, <2>3, <2>4, RebuildLeavesRight
<1>6. CASE Begin \/ Index \/ Count \/ ReadActivity \/ ActivityGone \/ WriteHealth \/ HandlerFails
  <2>1. UNCHANGED <<job, rebuild>>
    BY <1>6 DEF Begin, Index, Count, ReadActivity, ActivityGone, WriteHealth, HandlerFails, Proceed, jobVars
  <2>2. Rebuilding /\ DoneRebuild(rebuild, j)
    BY <2>1 DEF Rebuilding
  <2>3. Right(cell)
    BY <1>3, <2>2
  <2>4. ASSUME NEW m \in Messages, cell = CellOf("channel_health_daily", m) PROVE Right(ActivityOf(m))
    <3>1. /\ cell[1] = "channel_health_daily" /\ cell[3] = Day(m.at)
          /\ ActivityOf(m)[1] = "channel_daily_activity" /\ ActivityOf(m)[3] = Day(m.at)
      <4>1. /\ CellOf("channel_health_daily", m) = <<"channel_health_daily", m.channel, Day(m.at)>>
            /\ ActivityOf(m) = <<"channel_daily_activity", m.channel, Day(m.at)>>
        BY CellIs DEF ActivityOf
      <4> QED BY <2>4, <4>1
    <3>2. ActivityOf(m) \in Cells
      BY ActivityIs
    <3>3. Repaired(ActivityOf(m)[1], ActivityOf(m))
      BY <3>1, <3>2, RepairedIs
    <3>4. MadeBy[ActivityOf(m)[1]] <= j
      BY <3>1, MadeTables
    <3> QED BY <1>3, <2>2, <3>2, <3>3, <3>4
  <2> QED BY <1>1, <1>6, <2>2, <2>3, <2>4, HandlerLeavesRight
<1>7. CASE (\E m \in Messages : Send(m) \/ Miss(m)) \/ UNCHANGED vars
  <2>1. UNCHANGED <<job, rebuild, counts, handling, left, index>>
    BY <1>7 DEF Send, Miss, vars, handlerVars, jobVars
  <2>2. Right(cell)
    BY <1>3, <2>1 DEF Rebuilding
  <2> QED BY <2>1, <2>2 DEF Right
<1>8. CASE \/ RequestJob \/ EnqueueFails \/ StartJob \/ Complete \/ JobFails \/ InsertConflicts
            \/ WorkerStops \/ Restart
  <2> USE DEF TypeInv, JobOK, Rebuilding
  <2>1. CASE RequestJob \/ EnqueueFails
    BY <2>1 DEF RequestJob, EnqueueFails, Requestable
  <2>2. CASE StartJob
    <3>1. job'.phase \in {"panicked", "channels"}
      BY <2>2 DEF StartJob
    <3> QED BY <3>1
  <2>5. CASE Complete
    <3>1. job'.phase = "idle"
      BY <2>5 DEF Complete
    <3> QED BY <3>1
  <2>3. CASE JobFails \/ InsertConflicts \/ WorkerStops
    BY <2>3, ErrIs, StopIs
  <2>4. CASE Restart
    BY <2>4 DEF Restart
  <2> QED BY <1>8, <2>1, <2>2, <2>3, <2>4, <2>5
<1>9. ASSUME NEW c \in Channels, StartTask(c) \/ ReadPage(c) \/ CountPage(c) \/ Hang(c) PROVE FALSE
  BY <1>9 DEF StartTask, ReadPage, CountPage, Hang, At, Rebuilding
<1> QED BY <1>4, <1>5, <1>6, <1>7, <1>8, <1>9, NextCases

\* Whatever was left by failed handlers, crashes and earlier tries, a rebuild that
\* no handler overlapped leaves each table equal to the index on the days for
\* which it makes every row again.
THEOREM RebuildMakesAgain == Spec => []RebuildRepairs
<1> DEFINE I == TypeInv /\ Progress /\ Bounded /\ CopiesActivity /\ MadeAgain
<1>1. I => RebuildRepairs
  <2> SUFFICES ASSUME I, Rebuilding, rebuild = << >>, ~raced, ~Busy, NEW t \in Tables,
                      NEW cell \in DOMAIN CountOf(t, index) \union {c \in DOMAIN counts : c[1] = t},
                      Repaired(t, cell)
               PROVE  Copies(cell, counts) = Copies(cell, CountOf(t, index))
    BY DEF RebuildRepairs
  <2>1. index \in SUBSET Messages /\ DOMAIN counts \subseteq Cells
    BY IndexTypes DEF TypeInv, CountsOK
  <2>2. /\ DOMAIN CountOf(t, index) \subseteq Cells
        /\ \A c \in DOMAIN CountOf(t, index) : c[1] = t
        /\ \A c : c[1] = t => Copies(c, CountOf(t, index)) = Cardinality(Of(c, index))
    BY <2>1, CountOfValues
  <2>3. cell \in Cells /\ cell[1] = t
    BY <2>1, <2>2
  <2>4. DoneRebuild(rebuild, 11) /\ MadeBy[t] <= 11
    <3>1. DoneRebuild(rebuild, 11)
      BY RebuildBegins
    <3>2. MadeBy[t] \in {2, 4, 6, 8, 10, 11}
      BY MadeTables
    <3> QED BY <3>1, <3>2
  <2>5. Copies(cell, counts) + Owes(handling, left, cell) = Cardinality(Of(cell, index))
    BY <2>3, <2>4 DEF MadeAgain
  <2>6. handling = {}
    BY DEF Busy
  <2>7. Owes(handling, left, cell) = 0
    BY <2>6, IdleOwes
  <2>8. Copies(cell, counts) \in Nat
    BY NumbersAre
  <2> QED BY <2>2, <2>3, <2>5, <2>7, <2>8
<1>2. Init => I
  BY TypesBegin, ProgressBegins, CountsBegin DEF Init, MadeAgain, Rebuilding
<1>3. I /\ [Next]_vars => I'
  BY TypesKept, ProgressKept, BoundedKept, ActivityKept, MadeKept
<1>4. Spec => []I
  <2> HIDE DEF I
  <2> QED BY <1>2, <1>3, PTL DEF Spec
<1> QED BY <1>1, <1>4, PTL
=============================================================================
