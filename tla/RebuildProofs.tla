----------------------------- MODULE RebuildProofs -----------------------------
(***************************************************************************)
(* Proofs about MemberRebuild: what a backfill job does to the members'    *)
(* tables, for any number of members, events, jobs and faults.             *)
(***************************************************************************)
EXTENDS MemberRebuild, MemberProofs, WellFoundedInduction

-----------------------------------------------------------------------------
(* The statements of a rebuild.                                             *)

RebuiltCounters == {"guild_daily_activity"} \union Range(CounterTables)

JobStatements ==
  {Do("lifecycle", "member_lifecycle"), Do("deleteActivity", "member_daily_activity"), Do("insertActivity", "member_daily_activity"),
   Do("recount", "public_stats_cache")}
  \union {Do("deleteMarkers", t) : t \in RebuiltTables}
  \union {Do("insertMarkers", t) : t \in RebuiltTables}
  \union {Do("deleteCounters", t) : t \in RebuiltCounters}
  \union {Do("insertCounters", t) : t \in RebuiltCounters}

LEMMA RebuiltAre ==
  /\ RebuiltTables = {"guild_daily_active_members", "guild_onboarded_members",
       "first_role_at", "first_message_at", "first_reaction_at", "first_voice_at",
       "retention_cohort_d7_members", "retention_cohort_d30_members",
       "channel_retention_d7_members", "channel_retention_d30_members"}
  /\ RebuiltCounters = {"guild_daily_activity", "retention_cohorts", "channel_retention_daily",
       "activation_funnel_daily", "guild_summary_daily"}
  /\ RebuiltTables \subseteq FirstFilled \union FilledFromThose
  /\ RebuiltCounters \subseteq DOMAIN Columns
<1>1. RebuiltTables = {"guild_daily_active_members", "guild_onboarded_members",
       "first_role_at", "first_message_at", "first_reaction_at", "first_voice_at",
       "retention_cohort_d7_members", "retention_cohort_d30_members",
       "channel_retention_d7_members", "channel_retention_d30_members"}
  BY DEF RebuiltTables, MarkerTables, Range
<1>2. RebuiltCounters = {"guild_daily_activity", "retention_cohorts", "channel_retention_daily",
       "activation_funnel_daily", "guild_summary_daily"}
  BY DEF RebuiltCounters, CounterTables, Range
<1> QED
  BY <1>1, <1>2, CounterTablesAre
  DEF FirstFilled, FilledFromThose, ByMember, Milestones, CohortCounters

\* The elements of a typed sequence.
LEMMA Elements ==
  ASSUME NEW S, NEW R \in Seq(S), NEW n, Len(R) = n
  PROVE  DOMAIN R = 1 .. n /\ \A k \in 1 .. n : R[k] \in S
OBVIOUS

LEMMA EachIs ==
  ASSUME NEW T, NEW tables \in Seq(T), NEW delete, NEW insert, NEW S,
         \A t \in T : Do(delete, t) \in S /\ Do(insert, t) \in S
  PROVE  /\ Each(tables, delete, insert) \in Seq(S)
         /\ Len(Each(tables, delete, insert)) = 2 * Len(tables)
<1> DEFINE N == 2 * Len(tables)
           at(j) == IF j % 2 = 1 THEN Do(delete, tables[(j + 1) \div 2])
                    ELSE Do(insert, tables[j \div 2])
<1>1. N \in Nat
  OBVIOUS
<1>2. ASSUME NEW j \in 1 .. N
      PROVE  at(j) \in S
  <2>1. j % 2 = 1 => (j + 1) \div 2 \in 1 .. Len(tables)
    OBVIOUS
  <2>2. j % 2 # 1 => j \div 2 \in 1 .. Len(tables)
    OBVIOUS
  <2>3. \A k \in 1 .. Len(tables) : tables[k] \in T
    OBVIOUS
  <2> QED BY <2>1, <2>2, <2>3
<1>3. Each(tables, delete, insert) = [j \in 1 .. N |-> at(j)]
  BY DEF Each
<1> HIDE DEF at, N
<1>4. [j \in 1 .. N |-> at(j)] \in Seq(S) /\ Len([j \in 1 .. N |-> at(j)]) = N
  BY <1>1, <1>2
<1> QED BY <1>3, <1>4 DEF N

LEMMA EachMarkers ==
  ASSUME NEW tables \in Seq(RebuiltTables)
  PROVE  /\ Each(tables, "deleteMarkers", "insertMarkers") \in Seq(JobStatements)
         /\ Len(Each(tables, "deleteMarkers", "insertMarkers")) = 2 * Len(tables)
<1> DEFINE T == RebuiltTables
           S == JobStatements
<1>1. \A t \in T : Do("deleteMarkers", t) \in S /\ Do("insertMarkers", t) \in S
  BY DEF JobStatements
<1>2. tables \in Seq(T)
  OBVIOUS
<1> HIDE DEF T, S
<1>3. /\ Each(tables, "deleteMarkers", "insertMarkers") \in Seq(S)
      /\ Len(Each(tables, "deleteMarkers", "insertMarkers")) = 2 * Len(tables)
  BY <1>1, <1>2, EachIs
<1> QED BY <1>3 DEF S

LEMMA EachCounters ==
  ASSUME NEW tables \in Seq(RebuiltCounters)
  PROVE  /\ Each(tables, "deleteCounters", "insertCounters") \in Seq(JobStatements)
         /\ Len(Each(tables, "deleteCounters", "insertCounters")) = 2 * Len(tables)
<1> DEFINE T == RebuiltCounters
           S == JobStatements
<1>1. \A t \in T : Do("deleteCounters", t) \in S /\ Do("insertCounters", t) \in S
  BY DEF JobStatements
<1>2. tables \in Seq(T)
  OBVIOUS
<1> HIDE DEF T, S
<1>3. /\ Each(tables, "deleteCounters", "insertCounters") \in Seq(S)
      /\ Len(Each(tables, "deleteCounters", "insertCounters")) = 2 * Len(tables)
  BY <1>1, <1>2, EachIs
<1> QED BY <1>3 DEF S

LEMMA RebuildBlocks ==
  /\ Rebuild \in Seq(JobStatements) /\ Len(Rebuild) = 34
  /\ Rebuild[1] = Do("lifecycle", "member_lifecycle") /\ Rebuild[2] = Do("deleteActivity", "member_daily_activity")
  /\ Rebuild[3] = Do("insertActivity", "member_daily_activity") /\ Rebuild[34] = Do("recount", "public_stats_cache")
  /\ \A k \in 1 .. 2 :
       Rebuild[3 + k] = Each(<<"guild_daily_active_members">>, "deleteMarkers", "insertMarkers")[k]
  /\ \A k \in 1 .. 2 :
       Rebuild[5 + k] = Each(<<"guild_daily_activity">>, "deleteCounters", "insertCounters")[k]
  /\ \A k \in 1 .. 18 : Rebuild[7 + k] = Each(MarkerTables, "deleteMarkers", "insertMarkers")[k]
  /\ \A k \in 1 .. 8 : Rebuild[25 + k] = Each(CounterTables, "deleteCounters", "insertCounters")[k]
<1> DEFINE S == JobStatements
           a == <<Do("lifecycle", "member_lifecycle"), Do("deleteActivity", "member_daily_activity"), Do("insertActivity", "member_daily_activity")>>
           b == Each(<<"guild_daily_active_members">>, "deleteMarkers", "insertMarkers")
           c == Each(<<"guild_daily_activity">>, "deleteCounters", "insertCounters")
           d == Each(MarkerTables, "deleteMarkers", "insertMarkers")
           e == Each(CounterTables, "deleteCounters", "insertCounters")
           f == <<Do("recount", "public_stats_cache")>>
<1>2. a \in Seq(S) /\ f \in Seq(S)
  BY DEF JobStatements
<1>3. /\ <<"guild_daily_active_members">> \in Seq(RebuiltTables)
      /\ <<"guild_daily_activity">> \in Seq(RebuiltCounters)
      /\ MarkerTables \in Seq(RebuiltTables) /\ CounterTables \in Seq(RebuiltCounters)
  BY RebuiltAre DEF MarkerTables, CounterTables
<1>4. /\ b \in Seq(S) /\ Len(b) = 2 * Len(<<"guild_daily_active_members">>)
      /\ c \in Seq(S) /\ Len(c) = 2 * Len(<<"guild_daily_activity">>)
      /\ d \in Seq(S) /\ Len(d) = 2 * Len(MarkerTables)
      /\ e \in Seq(S) /\ Len(e) = 2 * Len(CounterTables)
  BY <1>3, EachMarkers, EachCounters
<1>5. b \in Seq(S) /\ c \in Seq(S) /\ d \in Seq(S) /\ e \in Seq(S)
  BY <1>4
<1>6. Len(a) = 3 /\ Len(b) = 2 /\ Len(c) = 2 /\ Len(d) = 18 /\ Len(e) = 8 /\ Len(f) = 1
  <2> HIDE DEF b, c, d, e
  <2>1. Len(MarkerTables) = 9 /\ Len(CounterTables) = 4
    BY DEF MarkerTables, CounterTables
  <2> QED BY <1>4, <2>1
<1>7. Rebuild = a \o b \o c \o d \o e \o f
  BY DEF Rebuild
<1> HIDE DEF S, a, b, c, d, e, f
<1> DEFINE ab == a \o b
           abc == ab \o c
           abcd == abc \o d
           most == abcd \o e
           all == most \o f
<1>8. ab \in Seq(S)
  BY <1>2, <1>5
<1>9. abc \in Seq(S)
  <2> HIDE DEF ab
  <2> QED BY <1>5, <1>8
<1>10. abcd \in Seq(S)
  <2> HIDE DEF abc
  <2> QED BY <1>5, <1>9
<1>11. most \in Seq(S)
  <2> HIDE DEF abcd
  <2> QED BY <1>5, <1>10
<1>12. all \in Seq(S)
  <2> HIDE DEF most
  <2> QED BY <1>2, <1>11
<1>13. Len(ab) = 5 /\ Len(abc) = 7 /\ Len(abcd) = 25 /\ Len(most) = 33 /\ Len(all) = 34
  <2>1. Len(ab) = Len(a) + Len(b)
    BY <1>2, <1>5
  <2> HIDE DEF ab
  <2>2. Len(abc) = Len(ab) + Len(c)
    BY <1>5, <1>8
  <2> HIDE DEF abc
  <2>3. Len(abcd) = Len(abc) + Len(d)
    BY <1>5, <1>9
  <2> HIDE DEF abcd
  <2>4. Len(most) = Len(abcd) + Len(e)
    BY <1>5, <1>10
  <2> HIDE DEF most
  <2>5. Len(all) = Len(most) + Len(f)
    BY <1>2, <1>11
  <2> HIDE DEF all
  <2> QED BY <1>6, <2>1, <2>2, <2>3, <2>4, <2>5
<1>14. /\ \A k \in 1 .. Len(a) : ab[k] = a[k]
       /\ \A k \in 1 .. Len(b) : ab[Len(a) + k] = b[k]
  BY <1>2, <1>5
<1> HIDE DEF ab
<1>15. /\ \A k \in 1 .. Len(ab) : abc[k] = ab[k]
       /\ \A k \in 1 .. Len(c) : abc[Len(ab) + k] = c[k]
  BY <1>5, <1>8
<1> HIDE DEF abc
<1>16. /\ \A k \in 1 .. Len(abc) : abcd[k] = abc[k]
       /\ \A k \in 1 .. Len(d) : abcd[Len(abc) + k] = d[k]
  BY <1>5, <1>9
<1> HIDE DEF abcd
<1>17. /\ \A k \in 1 .. Len(abcd) : most[k] = abcd[k]
       /\ \A k \in 1 .. Len(e) : most[Len(abcd) + k] = e[k]
  BY <1>5, <1>10
<1> HIDE DEF most
<1>18. /\ \A k \in 1 .. Len(most) : all[k] = most[k]
       /\ \A k \in 1 .. Len(f) : all[Len(most) + k] = f[k]
  BY <1>2, <1>11
<1>19. Rebuild = all
  BY <1>7 DEF ab, abc, abcd, most
<1>20. a[1] = Do("lifecycle", "member_lifecycle") /\ a[2] = Do("deleteActivity", "member_daily_activity")
       /\ a[3] = Do("insertActivity", "member_daily_activity") /\ f[1] = Do("recount", "public_stats_cache")
  BY DEF a, f
<1> HIDE DEF all
<1>21. /\ \A k \in 1 .. 3 : all[k] = a[k]
       /\ \A k \in 1 .. 2 : all[3 + k] = b[k]
       /\ \A k \in 1 .. 2 : all[5 + k] = c[k]
       /\ \A k \in 1 .. 18 : all[7 + k] = d[k]
       /\ \A k \in 1 .. 8 : all[25 + k] = e[k]
       /\ \A k \in 1 .. 1 : all[33 + k] = f[k]
  <2>3. \A k \in 1 .. 25 : all[k] = abcd[k]
    <3>1. \A k \in 1 .. 25 : most[k] = abcd[k]
      BY <1>13, <1>17
    <3>2. \A k \in 1 .. 33 : all[k] = most[k]
      BY <1>13, <1>18
    <3>3. \A k \in 1 .. 25 : k \in 1 .. 33
      OBVIOUS
    <3> QED BY <3>1, <3>2, <3>3
  <2>2. \A k \in 1 .. 7 : all[k] = abc[k]
    <3>1. \A k \in 1 .. 7 : abcd[k] = abc[k]
      BY <1>13, <1>16
    <3>2. \A k \in 1 .. 7 : k \in 1 .. 25
      OBVIOUS
    <3> QED BY <2>3, <3>1, <3>2
  <2>1. \A k \in 1 .. 5 : all[k] = ab[k]
    <3>1. \A k \in 1 .. 5 : abc[k] = ab[k]
      BY <1>13, <1>15
    <3>2. \A k \in 1 .. 5 : k \in 1 .. 7
      OBVIOUS
    <3> QED BY <2>2, <3>1, <3>2
  <2>4. \A k \in 1 .. 3 : all[k] = a[k]
    BY <1>6, <1>14, <2>1
  <2>5. \A k \in 1 .. 2 : all[3 + k] = b[k]
    BY <1>6, <1>14, <2>1
  <2>6. \A k \in 1 .. 2 : all[5 + k] = c[k]
    BY <1>6, <1>13, <1>15, <2>2
  <2>7. \A k \in 1 .. 18 : all[7 + k] = d[k]
    BY <1>6, <1>13, <1>16, <2>3
  <2>8. \A k \in 1 .. 8 : all[25 + k] = e[k]
    BY <1>6, <1>13, <1>17, <1>18
  <2>9. \A k \in 1 .. 1 : all[33 + k] = f[k]
    BY <1>6, <1>13, <1>18
  <2> QED BY <2>4, <2>5, <2>6, <2>7, <2>8, <2>9
<1>22. all[1] = a[1] /\ all[2] = a[2] /\ all[3] = a[3] /\ all[34] = f[1]
  BY <1>21
<1> QED BY <1>12, <1>13, <1>19, <1>20, <1>21, <1>22 DEF S, b, c, d, e

LEMMA RebuildIs ==
  Rebuild \in Seq(JobStatements) /\ Len(Rebuild) = 34
BY RebuildBlocks

\* A DELETE stands right before its INSERT.
LEMMA EachAt ==
  ASSUME NEW tables, NEW p \in 1 .. Len(tables), Len(tables) \in Nat, NEW delete, NEW insert
  PROVE  /\ Each(tables, delete, insert)[2 * p - 1] = Do(delete, tables[p])
         /\ Each(tables, delete, insert)[2 * p] = Do(insert, tables[p])
<1>1. /\ 2 * p - 1 \in 1 .. 2 * Len(tables) /\ 2 * p \in 1 .. 2 * Len(tables)
      /\ (2 * p - 1) % 2 = 1 /\ (2 * p - 1 + 1) \div 2 = p
      /\ (2 * p) % 2 = 0 /\ (2 * p) \div 2 = p
  OBVIOUS
<1> QED BY <1>1 DEF Each

\* Where the statements about markers and activity are.
LEMMA RebuildAt ==
  /\ Rebuild[4] = Do("deleteMarkers", "guild_daily_active_members")
  /\ Rebuild[5] = Do("insertMarkers", "guild_daily_active_members")
  /\ \A p \in 1 .. 9 : /\ Rebuild[2 * p + 6] = Do("deleteMarkers", MarkerTables[p])
                       /\ Rebuild[2 * p + 7] = Do("insertMarkers", MarkerTables[p])
  /\ \A k \in (6 .. 7) \union (26 .. 34) :
       Rebuild[k].op \in {"deleteCounters", "insertCounters", "recount"}
<1>1. \A x, y : Do(x, y).op = x
  BY DEF Do
<1>2. Rebuild[4] = Do("deleteMarkers", "guild_daily_active_members")
      /\ Rebuild[5] = Do("insertMarkers", "guild_daily_active_members")
  <2> DEFINE t == <<"guild_daily_active_members">>
  <2>1. Len(t) = 1 /\ t[1] = "guild_daily_active_members"
    OBVIOUS
  <2>2. /\ Each(t, "deleteMarkers", "insertMarkers")[2 * 1 - 1] = Do("deleteMarkers", t[1])
        /\ Each(t, "deleteMarkers", "insertMarkers")[2 * 1] = Do("insertMarkers", t[1])
    <3> HIDE DEF t
    <3> QED BY <2>1, EachAt
  <2>3. /\ Rebuild[3 + 1] = Each(t, "deleteMarkers", "insertMarkers")[1]
        /\ Rebuild[3 + 2] = Each(t, "deleteMarkers", "insertMarkers")[2]
    BY RebuildBlocks
  <2> HIDE DEF t
  <2> QED BY <2>1, <2>2, <2>3
<1>3. ASSUME NEW p \in 1 .. 9
      PROVE  /\ Rebuild[2 * p + 6] = Do("deleteMarkers", MarkerTables[p])
             /\ Rebuild[2 * p + 7] = Do("insertMarkers", MarkerTables[p])
  <2>1. Len(MarkerTables) = 9
    BY DEF MarkerTables
  <2>2. /\ Each(MarkerTables, "deleteMarkers", "insertMarkers")[2 * p - 1] = Do("deleteMarkers", MarkerTables[p])
        /\ Each(MarkerTables, "deleteMarkers", "insertMarkers")[2 * p] = Do("insertMarkers", MarkerTables[p])
    <3> DEFINE t == MarkerTables
    <3>1. Len(t) \in Nat /\ p \in 1 .. Len(t)
      BY <2>1
    <3> HIDE DEF t
    <3>2. /\ Each(t, "deleteMarkers", "insertMarkers")[2 * p - 1] = Do("deleteMarkers", t[p])
          /\ Each(t, "deleteMarkers", "insertMarkers")[2 * p] = Do("insertMarkers", t[p])
      BY <3>1, EachAt
    <3> QED BY <3>2 DEF t
  <2>3. 2 * p - 1 \in 1 .. 18 /\ 2 * p \in 1 .. 18
        /\ 7 + (2 * p - 1) = 2 * p + 6 /\ 7 + 2 * p = 2 * p + 7
    OBVIOUS
  <2>4. \A k \in 1 .. 18 : Rebuild[7 + k] = Each(MarkerTables, "deleteMarkers", "insertMarkers")[k]
    BY RebuildBlocks
  <2>5. Rebuild[7 + (2 * p - 1)] = Do("deleteMarkers", MarkerTables[p])
        /\ Rebuild[7 + 2 * p] = Do("insertMarkers", MarkerTables[p])
    BY <2>2, <2>3, <2>4
  <2> QED BY <2>3, <2>5
<1>4. ASSUME NEW tables, Len(tables) \in Nat, NEW k \in 1 .. 2 * Len(tables)
      PROVE  Each(tables, "deleteCounters", "insertCounters")[k].op \in {"deleteCounters", "insertCounters"}
  BY <1>1, <1>4 DEF Each
<1>5. \A k \in 1 .. 2 : Rebuild[5 + k].op \in {"deleteCounters", "insertCounters"}
  <2> DEFINE t == <<"guild_daily_activity">>
  <2>1. Len(t) \in Nat /\ 2 * Len(t) = 2
    OBVIOUS
  <2>2. \A k \in 1 .. 2 : Rebuild[5 + k] = Each(t, "deleteCounters", "insertCounters")[k]
    BY RebuildBlocks, Zenon
  <2> HIDE DEF t
  <2>3. \A k \in 1 .. 2 : Each(t, "deleteCounters", "insertCounters")[k].op \in {"deleteCounters", "insertCounters"}
    BY <1>4, <2>1
  <2> QED BY <2>2, <2>3
<1>6. \A k \in 1 .. 8 : Rebuild[25 + k].op \in {"deleteCounters", "insertCounters"}
  <2> DEFINE t == CounterTables
  <2>1. Len(t) = 4
    BY DEF CounterTables
  <2>2. \A k \in 1 .. 8 : Rebuild[25 + k] = Each(t, "deleteCounters", "insertCounters")[k]
    BY RebuildBlocks, Zenon
  <2> HIDE DEF t
  <2>3. \A k \in 1 .. 8 : Each(t, "deleteCounters", "insertCounters")[k].op \in {"deleteCounters", "insertCounters"}
    BY <1>4, <2>1
  <2> QED BY <2>2, <2>3
<1>7. Rebuild[34].op = "recount"
  <2>1. Rebuild[34] = Do("recount", "public_stats_cache")
    BY RebuildBlocks, Zenon
  <2> QED BY <2>1, <1>1, Zenon
<1>8. ASSUME NEW k \in (6 .. 7) \union (26 .. 34)
      PROVE  Rebuild[k].op \in {"deleteCounters", "insertCounters", "recount"}
  <2>1. k \in 6 .. 7 => k - 5 \in 1 .. 2 /\ k = 5 + (k - 5)
    OBVIOUS
  <2>2. k \in 26 .. 33 => k - 25 \in 1 .. 8 /\ k = 25 + (k - 25)
    OBVIOUS
  <2>3. k \in 6 .. 7 \/ k \in 26 .. 33 \/ k = 34
    OBVIOUS
  <2> QED BY <1>5, <1>6, <1>7, <2>1, <2>2, <2>3
<1> QED BY <1>2, <1>3, <1>8

-----------------------------------------------------------------------------
(* The job's own state.                                                     *)

\* The statements left of a rebuild.
Left(n) == SubSeq(Rebuild, 34 - n + 1, 34)

LEMMA LeftIs ==
  ASSUME NEW n \in 0 .. 34
  PROVE  /\ Left(n) \in Seq(JobStatements) /\ Len(Left(n)) = n
         /\ n > 0 => /\ Left(n) # << >> /\ Head(Left(n)) = Rebuild[35 - n]
                     /\ Tail(Left(n)) = Left(n - 1) /\ Head(Left(n)) \in JobStatements
         /\ n = 0 => Left(n) = << >>
         /\ \A k \in 1 .. n : Left(n)[k] = Rebuild[34 - n + k]
<1> DEFINE S == JobStatements
           R == Rebuild
<1>1. R \in Seq(S) /\ Len(R) = 34
  BY RebuildIs
<1> HIDE DEF S, R
<1>2. \A k \in 1 .. 34 : R[k] \in S
  BY <1>1, Elements
<1> DEFINE L(j) == [k \in 1 .. j |-> R[34 - j + k]]
<1>3. ASSUME NEW j \in 0 .. 34
      PROVE  Left(j) = L(j)
  <2>1. Left(j) = [k \in 1 .. (34 - (34 - j + 1) + 1) |-> R[34 - j + 1 + k - 1]]
    BY <1>1, <1>3 DEF Left, R
  <2>2. \A k \in 1 .. j : R[34 - j + 1 + k - 1] = R[34 - j + k]
    OBVIOUS
  <2> QED BY <2>1, <2>2
<1>4. L(n) \in Seq(S) /\ Len(L(n)) = n /\ \A k \in 1 .. n : L(n)[k] = R[34 - n + k]
  BY <1>2
<1>5. n > 0 => L(n) # << >> /\ Head(L(n)) = R[35 - n] /\ Tail(L(n)) = L(n - 1) /\ Head(L(n)) \in S
  <2> SUFFICES ASSUME n > 0
               PROVE  L(n) # << >> /\ Head(L(n)) = R[35 - n] /\ Tail(L(n)) = L(n - 1)
                        /\ Head(L(n)) \in S
    OBVIOUS
  <2>1. L(n) # << >> /\ Head(L(n)) = L(n)[1]
    BY <1>4
  <2>2. L(n)[1] = R[35 - n] /\ R[35 - n] \in S
    <3>1. 1 \in 1 .. n /\ 34 - n + 1 = 35 - n /\ 35 - n \in 1 .. 34
      OBVIOUS
    <3>2. L(n)[1] = R[34 - n + 1]
      BY <3>1
    <3> QED BY <1>2, <3>1, <3>2
  <2>3. Tail(L(n)) \in Seq(S) /\ Len(Tail(L(n))) = n - 1
          /\ \A k \in 1 .. n - 1 : Tail(L(n))[k] = L(n)[k + 1]
    <3> DEFINE q == L(n)
    <3>1. q \in Seq(S) /\ Len(q) = n /\ q # << >>
      BY <1>4, <2>1
    <3> HIDE DEF q
    <3>2. Tail(q) \in Seq(S) /\ Len(Tail(q)) = n - 1 /\ \A k \in 1 .. n - 1 : Tail(q)[k] = q[k + 1]
      BY <3>1
    <3> QED BY <3>2 DEF q
  <2>4. \A k \in 1 .. n - 1 : L(n)[k + 1] = L(n - 1)[k]
    OBVIOUS
  <2>5. L(n - 1) \in Seq(S) /\ Len(L(n - 1)) = n - 1
    BY <1>2
  <2>6. Tail(L(n)) = L(n - 1)
    <3> DEFINE p == Tail(L(n))
               q == L(n - 1)
    <3>1. p \in Seq(S) /\ q \in Seq(S) /\ Len(p) = n - 1 /\ Len(q) = n - 1
            /\ \A k \in 1 .. n - 1 : p[k] = q[k]
      BY <2>3, <2>4, <2>5
    <3> HIDE DEF p, q
    <3>2. p = q
      BY <3>1
    <3> QED BY <3>2 DEF p, q
  <2> QED BY <2>1, <2>2, <2>6
<1>6. n = 0 => L(n) = << >>
  BY <1>4
<1>7. n > 0 => Left(n - 1) = L(n - 1)
  <2>1. n > 0 => n - 1 \in 0 .. 34
    OBVIOUS
  <2> HIDE DEF L
  <2> QED BY <1>3, <2>1
<1> QED
  BY <1>3, <1>4, <1>5, <1>6, <1>7 DEF S, R

LEMMA NoneLeft ==
  Left(0) = << >>
<1>1. 0 \in 0 .. 34
  OBVIOUS
<1> QED BY <1>1, LeftIs

LEMMA FirstLeft ==
  ASSUME NEW n \in 1 .. 34
  PROVE  /\ Left(n) # << >>
         /\ Head(Left(n)) = Rebuild[35 - n]
         /\ Head(Left(n)) \in JobStatements
         /\ Tail(Left(n)) = Left(n - 1)
<1>1. n \in 0 .. 34 /\ n > 0
  OBVIOUS
<1> HIDE DEF Left
<1> QED BY ONLY <1>1, LeftIs

\* The order of the statements: an INSERT comes right after its DELETE, and the
\* activity is derived before the markers that are derived from it.
ActivityInsertion == Do("insertActivity", "member_daily_activity")
Insertion(table) == Do("insertMarkers", table)

LEMMA RebuildPlaces ==
  ASSUME NEW k \in 1 .. 34
  PROVE  \/ k = 1 /\ Rebuild[k] = Do("lifecycle", "member_lifecycle")
         \/ k = 2 /\ Rebuild[k] = Do("deleteActivity", "member_daily_activity")
         \/ k = 3 /\ Rebuild[k] = ActivityInsertion
         \/ k = 4 /\ Rebuild[k] = Do("deleteMarkers", "guild_daily_active_members")
         \/ k = 5 /\ Rebuild[k] = Insertion("guild_daily_active_members")
         \/ \E p \in 1 .. 9 : k = 2 * p + 6 /\ Rebuild[k] = Do("deleteMarkers", MarkerTables[p])
         \/ \E p \in 1 .. 9 : k = 2 * p + 7 /\ Rebuild[k] = Insertion(MarkerTables[p])
         \/ Rebuild[k].op \in {"deleteCounters", "insertCounters", "recount"}
<1>1. /\ Rebuild[1] = Do("lifecycle", "member_lifecycle")
      /\ Rebuild[2] = Do("deleteActivity", "member_daily_activity")
      /\ Rebuild[3] = ActivityInsertion
  BY RebuildBlocks, Zenon DEF ActivityInsertion
<1>2. \/ k \in 1 .. 5 \/ k \in (6 .. 7) \union (26 .. 34)
      \/ \E p \in 1 .. 9 : k = 2 * p + 6
      \/ \E p \in 1 .. 9 : k = 2 * p + 7
  <2>1. k \in 8 .. 25 /\ k % 2 = 0 => (k - 6) \div 2 \in 1 .. 9 /\ k = 2 * ((k - 6) \div 2) + 6
    OBVIOUS
  <2>2. k \in 8 .. 25 /\ k % 2 = 1 => (k - 7) \div 2 \in 1 .. 9 /\ k = 2 * ((k - 7) \div 2) + 7
    OBVIOUS
  <2>3. k % 2 \in {0, 1}
    OBVIOUS
  <2> QED BY <2>1, <2>2, <2>3
<1>3. CASE k \in 1 .. 5
  <2>1. k = 1 \/ k = 2 \/ k = 3 \/ k = 4 \/ k = 5
    BY <1>3
  <2> QED BY <1>1, <2>1, RebuildAt DEF Insertion
<1>4. CASE k \in (6 .. 7) \union (26 .. 34)
  BY <1>4, RebuildAt
<1>5. ASSUME NEW p \in 1 .. 9, k = 2 * p + 6
      PROVE  Rebuild[k] = Do("deleteMarkers", MarkerTables[p])
  BY <1>5, RebuildAt
<1>6. ASSUME NEW p \in 1 .. 9, k = 2 * p + 7
      PROVE  Rebuild[k] = Insertion(MarkerTables[p])
  BY <1>6, RebuildAt DEF Insertion
<1> QED BY <1>2, <1>3, <1>4, <1>5, <1>6

LEMMA DoesNothingElse ==
  \A x, y, u, v : /\ Do(x, y).op = x /\ Do(x, y).arg = y
                  /\ Do(x, y) = Do(u, v) <=> x = u /\ y = v
BY DEF Do

LEMMA RebuildOrder ==
  /\ \A t \in RebuiltTables : \E k \in 1 .. 34 : Rebuild[k] = Insertion(t)
  /\ Rebuild[3] = ActivityInsertion
  /\ \A k \in 1 .. 34 :
       /\ Rebuild[k].op = "deleteMarkers" =>
            k + 1 \in 1 .. 34 /\ Rebuild[k + 1] = Insertion(Rebuild[k].arg)
       /\ Rebuild[k].op = "deleteActivity" => k = 2
       /\ Rebuild[k] = ActivityInsertion => k = 3
       /\ Rebuild[k] = Insertion("guild_daily_active_members") => k = 5
<1>1. ASSUME NEW t \in RebuiltTables
      PROVE  \E k \in 1 .. 34 : Rebuild[k] = Insertion(t)
  <2>1. CASE t = "guild_daily_active_members"
    BY <2>1, RebuildAt DEF Insertion
  <2>2. CASE t # "guild_daily_active_members"
    <3>1. PICK p \in 1 .. 9 : t = MarkerTables[p]
      BY <2>2 DEF RebuiltTables, Range, MarkerTables
    <3>2. Rebuild[2 * p + 7] = Insertion(t) /\ 2 * p + 7 \in 1 .. 34
      BY <3>1, RebuildAt DEF Insertion
    <3> QED BY <3>2
  <2> QED BY <2>1, <2>2
<1>2. Rebuild[3] = ActivityInsertion
  BY RebuildBlocks, Zenon DEF ActivityInsertion
<1>3. \A p \in 1 .. 9 : MarkerTables[p] # "guild_daily_active_members"
  BY DEF MarkerTables
<1>4. ASSUME NEW k \in 1 .. 34
      PROVE  /\ Rebuild[k].op = "deleteMarkers" =>
                  k + 1 \in 1 .. 34 /\ Rebuild[k + 1] = Insertion(Rebuild[k].arg)
             /\ Rebuild[k].op = "deleteActivity" => k = 2
             /\ Rebuild[k] = ActivityInsertion => k = 3
             /\ Rebuild[k] = Insertion("guild_daily_active_members") => k = 5
  <2> DEFINE st == Rebuild[k]
             ops == <<st.op, st.arg>>
  <2>1. CASE k \in 1 .. 5
    <3>1. k = 1 \/ k = 2 \/ k = 3 \/ k = 4 \/ k = 5
      BY <2>1
    <3>2. /\ Rebuild[1] = Do("lifecycle", "member_lifecycle")
          /\ Rebuild[2] = Do("deleteActivity", "member_daily_activity")
      BY RebuildBlocks, Zenon
    <3> QED
      BY <1>2, <3>1, <3>2, RebuildAt, DoesNothingElse DEF Insertion, ActivityInsertion
  <2>2. ASSUME NEW p \in 1 .. 9, k = 2 * p + 6, Rebuild[k] = Do("deleteMarkers", MarkerTables[p])
        PROVE  /\ k + 1 \in 1 .. 34 /\ Rebuild[k + 1] = Insertion(Rebuild[k].arg)
               /\ Rebuild[k].op = "deleteMarkers"
               /\ Rebuild[k] # ActivityInsertion
               /\ Rebuild[k] # Insertion("guild_daily_active_members")
    <3>1. k + 1 = 2 * p + 7
      BY <2>2
    <3>2. Rebuild[k + 1] = Do("insertMarkers", MarkerTables[p])
      BY <3>1, RebuildAt
    <3> QED BY <2>2, <3>1, <3>2, DoesNothingElse DEF Insertion, ActivityInsertion
  <2>3. ASSUME NEW p \in 1 .. 9, Rebuild[k] = Insertion(MarkerTables[p])
        PROVE  /\ Rebuild[k].op = "insertMarkers"
               /\ Rebuild[k] # ActivityInsertion
               /\ Rebuild[k] # Insertion("guild_daily_active_members")
    BY <1>3, <2>3, DoesNothingElse DEF Insertion, ActivityInsertion
  <2>4. ASSUME Rebuild[k].op \in {"deleteCounters", "insertCounters", "recount"}
        PROVE  /\ Rebuild[k].op # "deleteMarkers" /\ Rebuild[k].op # "deleteActivity"
               /\ Rebuild[k] # ActivityInsertion
               /\ Rebuild[k] # Insertion("guild_daily_active_members")
    BY <2>4, DoesNothingElse DEF Insertion, ActivityInsertion
  <2>5. \/ k \in 1 .. 5
        \/ \E p \in 1 .. 9 : k = 2 * p + 6 /\ Rebuild[k] = Do("deleteMarkers", MarkerTables[p])
        \/ \E p \in 1 .. 9 : Rebuild[k] = Insertion(MarkerTables[p])
        \/ Rebuild[k].op \in {"deleteCounters", "insertCounters", "recount"}
    BY RebuildPlaces
  <2> QED BY <2>1, <2>2, <2>3, <2>4, <2>5
<1> QED BY <1>1, <1>2, <1>4

LEMMA StillLeft ==
  ASSUME NEW n \in 0 .. 34, NEW st
  PROVE  st \in Range(Left(n)) <=> \E k \in (35 - n) .. 34 : st = Rebuild[k]
<1> DEFINE L == Left(n)
<1>1. DOMAIN L = 1 .. n /\ \A k \in 1 .. n : L[k] = Rebuild[34 - n + k]
  <2>1. L \in Seq(JobStatements) /\ Len(L) = n /\ \A k \in 1 .. n : L[k] = Rebuild[34 - n + k]
    BY LeftIs
  <2> HIDE DEF L
  <2> QED BY <2>1
<1> HIDE DEF L
<1>2. ASSUME NEW k \in 1 .. n
      PROVE  34 - n + k \in (35 - n) .. 34
  OBVIOUS
<1>3. ASSUME NEW k \in (35 - n) .. 34
      PROVE  k - 34 + n \in 1 .. n /\ 34 - n + (k - 34 + n) = k
  OBVIOUS
<1>4. st \in Range(L) <=> \E k \in 1 .. n : st = L[k]
  BY <1>1 DEF Range
<1> QED BY <1>1, <1>2, <1>3, <1>4 DEF L

JobOK ==
  /\ status \in {"idle", "running", "broken"}
  /\ \E n \in 0 .. 34 : todo = Left(n)
  /\ status = "running" <=> todo # << >>
  /\ jobs \in 0 .. MaxJobs
  /\ raced \in BOOLEAN
  /\ covering \subseteq DOMAIN log /\ covered \subseteq DOMAIN log

RebuildInv == TypeInv /\ JobOK

LEMMA RebuildTypesImplied ==
  RebuildInv => RebuildTypeOK
<1> SUFFICES ASSUME RebuildInv PROVE RebuildTypeOK
  OBVIOUS
<1> DEFINE R == Rebuild
<1>1. Len(R) = 34
  BY RebuildIs
<1> HIDE DEF R
<1>2. PICK n \in 0 .. 34 : todo = Left(n)
  BY DEF RebuildInv, JobOK
<1>3. Len(todo) = n
  BY <1>2, LeftIs
<1>4. Len(todo) <= Len(R) /\ todo = SubSeq(R, Len(R) - Len(todo) + 1, Len(R))
  BY <1>1, <1>2, <1>3 DEF Left, R
<1>5. TypeOK
  BY TypesImplied DEF RebuildInv
<1> QED
  BY <1>4, <1>5 DEF RebuildInv, JobOK, RebuildTypeOK, R

\* The statement a job is at, and what it has left after it.
LEMMA Rebuilt ==
  ASSUME JobOK, todo # << >>
  PROVE  /\ Head(todo) \in JobStatements
         /\ \E n \in 0 .. 34 : Tail(todo) = Left(n)
<1>1. PICK n \in 0 .. 34 : todo = Left(n)
  BY DEF JobOK
<1>2. n # 0
  BY <1>1, NoneLeft
<1>3. n \in 1 .. 34 /\ n - 1 \in 0 .. 34
  BY <1>2
<1>4. Head(Left(n)) \in JobStatements /\ Tail(Left(n)) = Left(n - 1)
  BY <1>3, FirstLeft
<1>5. Head(todo) \in JobStatements /\ Tail(todo) = Left(n - 1)
  BY <1>1, <1>4, Zenon
<1> QED BY <1>3, <1>5, Zenon

LEMMA GoesOK ==
  ASSUME JobOK, todo # << >>, Goes
  PROVE  JobOK'
<1>1. \E n \in 0 .. 34 : todo' = Left(n)
  BY Rebuilt DEF Goes
<1>2. status = "running"
  BY DEF JobOK
<1> QED BY <1>1, <1>2 DEF JobOK, Goes

LEMMA BreaksOffOK ==
  ASSUME JobOK, BreaksOff
  PROVE  JobOK'
<1>1. todo' = Left(0) /\ 0 \in 0 .. 34
  BY NoneLeft DEF BreaksOff
<1>2. \E n \in 0 .. 34 : todo' = Left(n)
  BY <1>1
<1> QED BY <1>2 DEF JobOK, BreaksOff

-----------------------------------------------------------------------------
(* Types.                                                                   *)

\* A statement of the job leaves the workers alone.
LEMMA TablesTypes ==
  ASSUME TypeInv, UNCHANGED <<log, workerVars, historyVars>>, JoinedKept,
         MemberTablesOK', CountersOK', reindexed' \subseteq DOMAIN log, faultCount' \in 0 .. MaxFaults
  PROVE  TypeInv'
<1>1. UNCHANGED <<log, queue, current, work, lost, surplus, failed, done, sawJoin>>
  BY DEF workerVars, historyVars
<1>2. QueuesOK'
  BY <1>1 DEF TypeInv, QueuesOK
<1>3. HistoryOK'
  BY <1>1 DEF TypeInv, HistoryOK
<1>4. WorkersOK'
  <2>1. \A s \in Streams : Busy(s)' = Busy(s) /\ Event(s)' = Event(s)
    BY <1>1 DEF Busy, Event
  <2>2. ASSUME NEW s \in Streams, Busy(s)
        PROVE  work'[s] \in Seq(Ahead(s))' /\ work'[s] # << >>
    <3>1. work[s] \in Seq(Ahead(s)) /\ work[s] # << >> /\ current'[s] = current[s]
      BY <1>1, <2>2, AtWork
    <3>2. \A statements \in Seq(Ahead(s)) : statements \in Seq(Ahead(s))'
      BY <1>1, <2>2, <3>1, AheadKept
    <3> QED BY <1>1, <3>1, <3>2
  <2> HIDE DEF Ahead
  <2> QED
    BY <1>1, <2>1, <2>2 DEF TypeInv, WorkersOK
<1> QED BY <1>1, <1>2, <1>3, <1>4 DEF TypeInv

LEMMA LeastIs ==
  ASSUME NEW T \in SUBSET Nat, T # {}
  PROVE  Min(T) \in T /\ \A y \in T : Min(T) <= y
<1> DEFINE R == OpToRel(<, Nat)
<1>1. R = {ss \in Nat \X Nat : ss[1] < ss[2]}
  BY DEF OpToRel
<1>2. IsWellFoundedOn(R, Nat)
  BY NatLessThanWellFounded
<1> HIDE DEF R
<1>3. PICK x \in T : \A y \in T : <<y, x>> \notin R
  BY <1>2, WFMin
<1>4. ASSUME NEW y \in T
      PROVE  x <= y
  <2>1. x \in Nat /\ y \in Nat /\ <<y, x>> \notin R
    BY <1>3
  <2>2. <<y, x>> \in Nat \X Nat /\ <<y, x>>[1] = y /\ <<y, x>>[2] = x
    BY <2>1
  <2>3. ~ (y < x)
    BY <1>1, <2>1, <2>2
  <2> QED BY <2>1, <2>3
<1> QED
  BY <1>4 DEF Min

\* The earliest message of an author in the days of the job.
LEMMA FirstMessage ==
  ASSUME TypeInv, NEW m \in Authors
  PROVE  LET at == {log[i].at : i \in {i \in HumanMessages : InTime(i) /\ log[i].member = m}}
         IN  Min(at) \in at /\ at \subseteq Times /\ \A t \in at : Min(at) <= t
<1> DEFINE at == {log[i].at : i \in {i \in HumanMessages : InTime(i) /\ log[i].member = m}}
<1>1. at # {}
  BY DEF Authors
<1>2. \A i \in HumanMessages : i \in DOMAIN log /\ log[i] \in Happenings
  BY DEF TypeInv, MemberTablesOK, MarkersOf, Fits, HumanMessages, IndexedMessages
<1>3. at \subseteq Times
  BY <1>2, EventsAre
<1>4. at \in SUBSET Nat
  BY <1>3, TimesAre
<1> HIDE DEF at
<1>5. Min(at) \in at /\ \A t \in at : Min(at) <= t
  BY <1>1, <1>4, LeastIs
<1> QED BY <1>3, <1>5 DEF at

\* What RebuildLifecycle makes of a row.
LEMMA LifecycleBecomes ==
  ASSUME TypeInv, RebuildLifecycle
  PROVE  /\ lifecycle' \in [Members -> [LifecycleColumns -> Times \union {None}]]
         /\ \A m \in Members : \A f \in LifecycleColumns \ {"first_message_at"} :
              lifecycle'[m][f] = lifecycle[m][f]
         /\ \A m \in Members :
              \/ lifecycle'[m]["first_message_at"] = lifecycle[m]["first_message_at"]
              \/ /\ lifecycle'[m]["first_message_at"] \in Times
                 /\ lifecycle[m]["first_message_at"] # None
                      => lifecycle'[m]["first_message_at"] <= lifecycle[m]["first_message_at"]
                 /\ \E i \in HumanMessages : /\ log[i].member = m
                                              /\ log[i].at = lifecycle'[m]["first_message_at"]
<1> DEFINE at(m) == {log[i].at : i \in {i \in HumanMessages : InTime(i) /\ log[i].member = m}}
           least(old, new) == IF old = None THEN new ELSE Min({old, new})
           old(m) == lifecycle[m]["first_message_at"]
           new(m) == least(old(m), Min(at(m)))
<1>1. lifecycle \in [Members -> [LifecycleColumns -> Times \union {None}]]
  BY DEF TypeInv, MemberTablesOK
<1>2. "first_message_at" \in LifecycleColumns
  BY DEF LifecycleColumns, Milestones
<1>3. lifecycle' = [m \in Members |-> IF m \in Authors
                                    THEN [lifecycle[m] EXCEPT !["first_message_at"] = new(m)]
                                    ELSE lifecycle[m]]
  BY <1>1, <1>2 DEF RebuildLifecycle
<1>8. \A m \in Members : \A t \in at(m) : \E i \in HumanMessages : log[i].member = m /\ log[i].at = t
  OBVIOUS
<1>4. ASSUME NEW m \in Members, m \in Authors
      PROVE  /\ new(m) \in Times /\ (old(m) # None => new(m) <= old(m))
             /\ new(m) \in at(m) \/ new(m) = old(m)
  <2>1. Min(at(m)) \in Times /\ Min(at(m)) \in at(m)
    BY <1>4, FirstMessage
  <2> HIDE DEF at
  <2>2. CASE old(m) = None
    BY <2>1, <2>2
  <2>3. CASE old(m) # None
    <3>1. old(m) \in Times /\ {old(m), Min(at(m))} \in SUBSET Nat
      BY <1>1, <1>2, <2>1, <2>3, TimesAre
    <3>2. Min({old(m), Min(at(m))}) \in {old(m), Min(at(m))}
            /\ Min({old(m), Min(at(m))}) <= old(m)
      BY <3>1, LeastIs
    <3> QED BY <2>1, <2>3, <3>1, <3>2
  <2> QED BY <2>2, <2>3
<1> HIDE DEF new
<1>5. lifecycle' \in [Members -> [LifecycleColumns -> Times \union {None}]]
  BY <1>1, <1>2, <1>3, <1>4
<1>6. \A m \in Members : \A f \in LifecycleColumns \ {"first_message_at"} :
        lifecycle'[m][f] = lifecycle[m][f]
  BY <1>1, <1>3
<1>7. \A m \in Members : lifecycle'[m]["first_message_at"] = IF m \in Authors THEN new(m) ELSE old(m)
  BY <1>1, <1>2, <1>3
<1> HIDE DEF at, old
<1>9. \A m \in Members : \/ lifecycle'[m]["first_message_at"] = old(m)
                         \/ /\ lifecycle'[m]["first_message_at"] = new(m)
                            /\ new(m) \in Times /\ (old(m) # None => new(m) <= old(m))
                            /\ new(m) \in at(m)
  BY <1>4, <1>7
<1> QED
  BY <1>5, <1>6, <1>8, <1>9 DEF old

LEMMA LifecycleTypes ==
  ASSUME TypeInv, RebuildLifecycle
  PROVE  TypeInv'
<1>1. UNCHANGED <<log, workerVars, historyVars, faultCount, activity, markers, reindexed, counts, opener>>
  BY DEF RebuildLifecycle, Goes
<1>2. JoinedKept
  BY LifecycleBecomes DEF JoinedKept, Joined, LifecycleColumns, Milestones
<1>3. MemberTablesOK'
  BY <1>1, LifecycleBecomes DEF TypeInv, MemberTablesOK
<1>4. CountersOK' /\ reindexed' \subseteq DOMAIN log /\ faultCount' \in 0 .. MaxFaults
  BY <1>1 DEF TypeInv, CountersOK, HistoryOK
<1> QED BY <1>1, <1>2, <1>3, <1>4, TablesTypes

\* A job's statement that leaves the members' rows alone.
LEMMA OtherTypes ==
  ASSUME TypeInv, Goes, UNCHANGED <<lifecycle, reindexed>>,
         activity' \subseteq Members \X Days, markers' \subseteq MarkersOf(log), CountersOK'
  PROVE  TypeInv'
<1>1. UNCHANGED <<log, workerVars, historyVars, faultCount>>
  BY DEF Goes
<1>2. JoinedKept
  BY DEF JoinedKept, Joined
<1>3. MemberTablesOK' /\ reindexed' \subseteq DOMAIN log /\ faultCount' \in 0 .. MaxFaults
  BY <1>1 DEF TypeInv, MemberTablesOK, HistoryOK
<1> QED BY <1>1, <1>2, <1>3, TablesTypes

LEMMA RebuildActivityTypes ==
  ASSUME TypeInv, DeleteActivity \/ InsertActivity
  PROVE  TypeInv'
<1>1. UNCHANGED <<lifecycle, markers, reindexed, counts, opener, log>> /\ Goes
  BY DEF DeleteActivity, InsertActivity, Goes
<1>2. ActivityFromMessages \subseteq Members \X Days
  <2>1. \A i \in HumanMessages : i \in DOMAIN log /\ log[i] \in Happenings
    BY DEF TypeInv, MemberTablesOK, MarkersOf, Fits, HumanMessages, IndexedMessages
  <2>2. \A i \in HumanMessages : log[i].member \in Members /\ Day(log[i].at) \in Days
    BY <2>1, EventsAre
  <2> QED BY <2>2 DEF ActivityFromMessages
<1>3. activity' \subseteq Members \X Days
  BY <1>2 DEF DeleteActivity, InsertActivity, TypeInv, MemberTablesOK
<1>4. markers' \subseteq MarkersOf(log) /\ CountersOK'
  BY <1>1 DEF TypeInv, MemberTablesOK, CountersOK
<1> QED BY <1>1, <1>3, <1>4, OtherTypes

\* The statement that the job executes.
LEMMA StatementAt ==
  ASSUME JobOK, NEW op, Rebuilding(op)
  PROVE  /\ Head(todo) \in JobStatements /\ todo # << >> /\ Head(todo).op = op
         /\ op \in {"deleteMarkers", "insertMarkers"} => Head(todo).arg \in RebuiltTables
         /\ op \in {"deleteCounters", "insertCounters"} => Head(todo).arg \in RebuiltCounters
<1>1. Head(todo) \in JobStatements /\ todo # << >> /\ Head(todo).op = op
  BY Rebuilt DEF Rebuilding
<1> DEFINE st == Head(todo)
<1>2. st \in JobStatements /\ st.op = op
  BY <1>1
<1> HIDE DEF st
<1>3. /\ op \in {"deleteMarkers", "insertMarkers"} => st.arg \in RebuiltTables
      /\ op \in {"deleteCounters", "insertCounters"} => st.arg \in RebuiltCounters
  <2>1. st \in {Do("deleteMarkers", t) : t \in RebuiltTables} \union {Do("insertMarkers", t) : t \in RebuiltTables}
        => st.arg \in RebuiltTables /\ op \in {"deleteMarkers", "insertMarkers"}
    BY <1>2 DEF Do
  <2>2. st \in {Do("deleteCounters", t) : t \in RebuiltCounters} \union {Do("insertCounters", t) : t \in RebuiltCounters}
        => st.arg \in RebuiltCounters /\ op \in {"deleteCounters", "insertCounters"}
    BY <1>2 DEF Do
  <2>3. \/ st = Do("lifecycle", "member_lifecycle") \/ st = Do("deleteActivity", "member_daily_activity")
        \/ st = Do("insertActivity", "member_daily_activity") \/ st = Do("recount", "public_stats_cache")
        => op \in {"lifecycle", "deleteActivity", "insertActivity", "recount"}
    <3>1. \A x, y : Do(x, y).op = x
      BY DEF Do
    <3> QED BY <1>2, <3>1
  <2> QED BY <1>2, <2>1, <2>2, <2>3 DEF JobStatements
<1> QED BY <1>1, <1>3 DEF st

LEMMA RebuildMarkersTypes ==
  ASSUME TypeInv, JobOK, DeleteMarkers \/ InsertMarkers
  PROVE  TypeInv'
<1>1. UNCHANGED <<lifecycle, activity, reindexed, counts, opener, log>> /\ Goes
  BY DEF DeleteMarkers, InsertMarkers, Goes
<1>2. markers \in SUBSET MarkersOf(log)
  BY DEF TypeInv, MemberTablesOK
<1>3. markers' \subseteq MarkersOf(log)
  <2>1. CASE DeleteMarkers
    BY <1>2, <2>1 DEF DeleteMarkers
  <2>2. CASE InsertMarkers
    <3>1. Head(todo).arg \in FirstFilled \union FilledFromThose
      BY <2>2, StatementAt, RebuiltAre DEF InsertMarkers
    <3>2. StartupMarkers(Head(todo).arg, markers) \subseteq MarkersOf(log)
      BY <1>2, <3>1, StartupMarkersAre, TypedRows
    <3> QED BY <1>2, <2>2, <3>2 DEF InsertMarkers
  <2> QED BY <2>1, <2>2
<1>4. activity' \subseteq Members \X Days /\ CountersOK'
  BY <1>1 DEF TypeInv, MemberTablesOK, CountersOK
<1> QED BY <1>1, <1>3, <1>4, OtherTypes

LEMMA DailyTable ==
  ASSUME TypeInv
  PROVE  BagOf(Part("guild_daily_activity"), OfTable(counts, "guild_daily_activity"))
<1> DEFINE B == OfTable(counts, "guild_daily_activity")
<1>1. BagOf(Cells, counts)
  BY DEF TypeInv, CountersOK
<1>2. BagOf(Cells, B) /\ \A c \in DOMAIN B : c[1].table = "guild_daily_activity"
  BY <1>1, TablesBag DEF OfTable
<1> HIDE DEF B
<1>3. BagOf(Part("guild_daily_activity"), B)
  BY <1>2, PartOf
<1> QED BY <1>3 DEF B

LEMMA DerivedBag ==
  ASSUME TypeInv, NEW table \in RebuiltCounters
  PROVE  BagOf(Part(table), Derived(table)) /\ BagOf(Cells, Derived(table))
<1> DEFINE B == FillCounters(table, markers, OfTable(counts, "guild_daily_activity"))
<1>1. markers \in SUBSET MarkersOf(log) /\ table \in DOMAIN Columns
  BY RebuiltAre DEF TypeInv, MemberTablesOK
<1>2. BagOf(Part(table), B)
  BY <1>1, TypedRows, DailyTable, FillCountersBag
<1> HIDE DEF B
<1>3. BagOf(Part(table), OfConcern(B))
  BY <1>2 DEF BagOf, IsABag, OfConcern
<1> QED BY <1>3 DEF Derived, B, BagOf, Part

LEMMA RebuildCountersTypes ==
  ASSUME TypeInv, JobOK, DeleteCounters \/ InsertCounters \/ Recount
  PROVE  TypeInv'
<1>1. UNCHANGED <<lifecycle, activity, markers, reindexed, log>> /\ Goes
  BY DEF DeleteCounters, InsertCounters, Recount, Goes
<1>2. /\ BagOf(Cells, counts) /\ DOMAIN opener \subseteq Rows
      /\ \A row \in DOMAIN opener : opener[row] \in Columns[row.table] \union {"startup"}
  BY DEF TypeInv, CountersOK
<1>3. CASE DeleteCounters
  <2> DEFINE stays(row) == row.table = Head(todo).arg => ~ConcernedRow(row)
  <2>1. /\ counts' = [c \in {c \in DOMAIN counts : stays(c[1])} |-> counts[c]]
        /\ opener' = [row \in {row \in DOMAIN opener : stays(row)} |-> opener[row]]
    BY <1>3 DEF DeleteCounters
  <2> HIDE DEF stays
  <2>2. BagOf(Cells, counts')
    BY <1>2, <2>1 DEF BagOf, IsABag
  <2>3. /\ DOMAIN opener' \subseteq Rows
        /\ \A row \in DOMAIN opener' : opener'[row] \in Columns[row.table] \union {"startup"}
    BY <1>2, <2>1
  <2>4. CountersOK'
    BY <2>2, <2>3 DEF CountersOK
  <2> QED BY <1>1, <2>4, OtherTypes DEF TypeInv, MemberTablesOK
<1>4. CASE InsertCounters
  <2> DEFINE D == Derived(Head(todo).arg)
             rows == {c[1] : c \in DOMAIN D}
  <2>1. counts' = counts (+) D /\ opener' = Opened(rows, "startup")
    BY <1>4 DEF InsertCounters
  <2>2. BagOf(Cells, D)
    BY <1>4, StatementAt, DerivedBag DEF InsertCounters
  <2> HIDE DEF D
  <2>3. BagOf(Cells, counts')
    BY <1>2, <2>1, <2>2, AddedBag
  <2>4. rows \subseteq Rows
    BY <2>2, CellsAre DEF BagOf
  <2> HIDE DEF rows
  <2>5. /\ DOMAIN opener' \subseteq Rows
        /\ \A row \in DOMAIN opener' : opener'[row] \in Columns[row.table] \union {"startup"}
    BY <1>2, <2>1, <2>4 DEF Opened
  <2>6. CountersOK'
    BY <2>3, <2>5 DEF CountersOK
  <2> QED BY <1>1, <2>6, OtherTypes DEF TypeInv, MemberTablesOK
<1>5. CASE Recount
  <2> DEFINE stats == Cell("public_stats_cache", Whole, 0, "messages")
             others == [c \in DOMAIN counts \ {stats} |-> counts[c]]
             n == Cardinality(IndexedMessages)
             added == [c \in {stats} |-> n]
  <2>1. opener' = opener /\ counts' = IF n = 0 THEN others ELSE others (+) added
    BY <1>5 DEF Recount
  <2>2. stats \in Cells
    BY StatsCell
  <2>3. n \in Nat
    <3>1. IndexedMessages \subseteq DOMAIN log
      BY DEF TypeInv, MemberTablesOK, MarkersOf, Fits, IndexedMessages
    <3>2. DOMAIN log = 1 .. Len(log) /\ Len(log) \in Nat
      BY DEF TypeInv
    <3>3. IsFiniteSet(DOMAIN log)
      BY <3>2, FS_Interval
    <3>4. IsFiniteSet(IndexedMessages)
      BY <3>1, <3>3, FS_Subset
    <3> QED BY <3>4, FS_CardinalityType
  <2> HIDE DEF stats, n
  <2>4. BagOf(Cells, others)
    BY <1>2 DEF BagOf, IsABag
  <2>5. n # 0 => BagOf(Cells, added)
    BY <2>2, <2>3 DEF BagOf, IsABag
  <2> HIDE DEF others, added
  <2>6. BagOf(Cells, counts')
    BY <2>1, <2>4, <2>5, AddedBag
  <2>7. CountersOK'
    BY <1>2, <2>1, <2>6 DEF CountersOK
  <2> QED BY <1>1, <2>7, OtherTypes DEF TypeInv, MemberTablesOK
<1> QED BY <1>3, <1>4, <1>5

LEMMA BreaksOffTypes ==
  ASSUME TypeInv, BreaksOff, faultCount' \in 0 .. MaxFaults
  PROVE  TypeInv'
<1>1. UNCHANGED <<log, workerVars, historyVars, lifecycle, activity, markers, reindexed, counts, opener>>
  BY DEF BreaksOff, tableVars
<1>2. JoinedKept
  BY <1>1 DEF JoinedKept, Joined
<1>3. MemberTablesOK' /\ CountersOK' /\ reindexed' \subseteq DOMAIN log
  BY <1>1 DEF TypeInv, MemberTablesOK, CountersOK, HistoryOK
<1> QED BY <1>1, <1>2, <1>3, TablesTypes

\* The messages that a job finds in the channels are indexed.
LEMMA StartTypes ==
  ASSUME TypeInv, JobOK, NEW now \in 0 .. Len(log), StartJob(now)
  PROVE  TypeInv' /\ JobOK'
<1> DEFINE found == {i \in 1 .. now : log[i].kind \in {"message", "botMessage", "missedMessage"}
                                     /\ InTime(i)}
           new == found \ IndexedMessages
           stats == Cell("public_stats_cache", Whole, 0, "messages")
           added == [c \in {stats} |-> Cardinality(new)]
<1>1. /\ status' = "running" /\ todo' = Rebuild
      /\ jobs' = IF status = "idle" THEN jobs + 1 ELSE jobs
      /\ status = "broken" \/ (status = "idle" /\ jobs < MaxJobs)
      /\ markers' = markers \union
                       {Marker("message_index", log[i].member, i, Day(log[i].at)) : i \in new}
      /\ reindexed' = reindexed \union new
      /\ counts' = IF new = {} THEN counts ELSE counts (+) added
      /\ raced' = \E s \in Streams : Busy(s)
      /\ covering' = {i \in found : Human(i)}
      /\ UNCHANGED <<log, workerVars, lifecycle, activity, opener, historyVars, faultCount, covered>>
  BY DEF StartJob
<1>2. log \in Seq(Happenings) /\ found \subseteq DOMAIN log
  BY DEF TypeInv
<1>3. \A i \in new : Marker("message_index", log[i].member, i, Day(log[i].at)) \in MarkersOf(log)
  BY <1>2, IndexMarkerIn
<1>4. IsFiniteSet(new)
  <2>1. IsFiniteSet(1 .. now)
    BY FS_Interval
  <2> QED BY <2>1, FS_Subset
<1>5. stats \in Cells
  BY StatsCell
<1>6. new # {} => BagOf(Cells, added)
  <2> HIDE DEF new, stats
  <2>1. new # {} => Cardinality(new) \in Nat /\ Cardinality(new) > 0
    BY <1>4, FS_CardinalityType, FS_EmptySet
  <2> QED BY <1>5, <2>1 DEF BagOf, IsABag
<1> HIDE DEF found, new, added, stats
<1>7. BagOf(Cells, counts')
  BY <1>1, <1>6, AddedBag DEF TypeInv, CountersOK
<1>8. JoinedKept /\ MemberTablesOK' /\ CountersOK' /\ faultCount' \in 0 .. MaxFaults
  BY <1>1, <1>3, <1>7 DEF JoinedKept, Joined, TypeInv, MemberTablesOK, CountersOK, HistoryOK
<1>9. reindexed' \subseteq DOMAIN log
  BY <1>1, <1>2 DEF TypeInv, HistoryOK, new
<1>10. TypeInv'
  BY <1>1, <1>8, <1>9, TablesTypes
<1>11. JobOK'
  <2>1. 34 \in 0 .. 34 /\ 34 \in 1 .. 34
    OBVIOUS
  <2>2. Left(34) = Rebuild
    <3> DEFINE R == Rebuild
               S == JobStatements
    <3>1. R \in Seq(S) /\ Len(R) = 34
      BY RebuildIs
    <3>2. Left(34) = SubSeq(R, 1, 34)
      BY DEF Left
    <3> HIDE DEF R, S
    <3>3. SubSeq(R, 1, 34) = R
      BY <3>1
    <3> QED BY <3>2, <3>3 DEF R
  <2>3. \E n \in 0 .. 34 : todo' = Left(n)
    BY <1>1, <2>1, <2>2
  <2>4. todo' # << >>
    BY <1>1, <2>1, <2>2, FirstLeft
  <2>5. jobs' \in 0 .. MaxJobs
    BY <1>1, RebuildAssumption DEF JobOK
  <2>6. covering' \subseteq DOMAIN log
    BY <1>1, <1>2
  <2> QED BY <1>1, <2>3, <2>4, <2>5, <2>6 DEF JobOK
<1> QED BY <1>10, <1>11

LEMMA RebuildStep ==
  RebuildInv /\ [RebuildNext]_rebuildVars => RebuildInv'
<1> SUFFICES ASSUME TypeInv, JobOK, [RebuildNext]_rebuildVars
             PROVE  TypeInv' /\ JobOK'
  BY DEF RebuildInv
<1>1. ASSUME NEW s \in Streams, Handling(s)
      PROVE  TypeInv' /\ JobOK'
  <2>1. TypeInv'
    BY <1>1, BeginTypes, FindsClosedTypes, AllRunTypes, StatementFailsTypes DEF Handling
  <2>2. log' = log
    <3>1. Begin(s) \/ FindsClosed(s) \/ StatementFails(s) => log' = log
      BY DEF Begin, FindsClosed, StatementFails, Fail
    <3>2. Run(s) => log' = log
      BY RunKeeps
    <3> QED BY <1>1, <3>1, <3>2 DEF Handling
  <2>3. JobOK'
    BY <1>1, <2>2 DEF Handling, JobOK
  <2> QED BY <2>1, <2>3
<1>2. ASSUME NEW now \in 0 .. Len(log), StartJob(now)
      PROVE  TypeInv' /\ JobOK'
  BY <1>2, StartTypes
<1>3. ASSUME NEW now \in 0 .. Len(log), Dies(now)
      PROVE  TypeInv' /\ JobOK'
  <2>1. TypeInv' /\ log' = log
    BY <1>3, RestartTypes DEF Dies, Restart
  <2>2. todo' = Left(0) /\ 0 \in 0 .. 34
    BY <1>3, NoneLeft DEF Dies
  <2>3. \E n \in 0 .. 34 : todo' = Left(n)
    BY <2>2
  <2> QED BY <1>3, <2>1, <2>3 DEF Dies, JobOK
<1>4. CASE JobStep
  <2>1. TypeInv'
    <3>1. InsertConflicts => TypeInv'
      BY BreaksOffTypes DEF InsertConflicts, TypeInv, HistoryOK
    <3> QED
      BY <1>4, <3>1, LifecycleTypes, RebuildActivityTypes, RebuildMarkersTypes, RebuildCountersTypes
      DEF JobStep
  <2>2. JobOK'
    <3>1. ASSUME Goes, todo # << >>
          PROVE  JobOK'
      BY <3>1, GoesOK
    <3>2. ASSUME BreaksOff
          PROVE  JobOK'
      BY <3>2, BreaksOffOK
    <3> QED
      BY <1>4, <3>1, <3>2
      DEF JobStep, RebuildLifecycle, DeleteActivity, InsertActivity, DeleteMarkers, InsertMarkers,
          DeleteCounters, InsertCounters, InsertConflicts, Recount, Rebuilding
  <2> QED BY <2>1, <2>2
<1>5. CASE JobFails
  <2>1. faultCount' \in 0 .. MaxFaults
    BY <1>5, AnalyticsAssumption DEF JobFails, TypeInv, HistoryOK
  <2> QED BY <1>5, <2>1, BreaksOffTypes, BreaksOffOK DEF JobFails
<1>6. CASE UNCHANGED rebuildVars
  BY <1>6, StutteringTypes DEF rebuildVars, jobVars, vars, JobOK
<1> QED BY <1>1, <1>2, <1>3, <1>4, <1>5, <1>6 DEF RebuildNext

LEMMA RebuildStarts ==
  RebuildInit => RebuildInv
<1> SUFFICES ASSUME RebuildInit PROVE TypeInv /\ JobOK
  BY DEF RebuildInv
<1>1. JoinedBefore \in Joins
  BY RebuildAssumption DEF Joins
<1>2. TypeInv
  BY <1>1, InitTypes DEF RebuildInit
<1>3. todo = Left(0) /\ 0 \in 0 .. 34
  BY NoneLeft DEF RebuildInit
<1>4. \E n \in 0 .. 34 : todo = Left(n)
  BY <1>3
<1>5. jobs \in 0 .. MaxJobs
  BY RebuildAssumption DEF RebuildInit
<1>6. status = "idle" /\ todo = << >> /\ raced = FALSE /\ covering = {} /\ covered = {}
  BY DEF RebuildInit
<1> QED BY <1>2, <1>4, <1>5, <1>6 DEF JobOK

\* The members' tables keep their shape beside a rebuild, and a job that runs
\* has the rest of its statements before it, in their order.
THEOREM RebuildTypes ==
  RebuildSpec => []RebuildTypeOK
<1> QED
  BY RebuildStarts, RebuildStep, RebuildTypesImplied, PTL DEF RebuildSpec

-----------------------------------------------------------------------------
(* What a rebuild still has to derive.                                      *)

\* What has been deleted may be missing until it is derived again, by this job
\* or, if it broke off, by the next.
Awaited(table) == status = "broken" \/ Insertion(table) \in Range(todo)
ActivityAwaited == status = "broken" \/ ActivityInsertion \in Range(todo)

\* The tables and days of which markers may be missing.
Waived == {td \in RebuiltTables \X CohortDays : Awaited(td[1])}

LEMMA NothingInNone ==
  \A x : x \notin Range(Left(0))
<1>1. DOMAIN Left(0) = {}
  BY NoneLeft
<1> QED BY <1>1 DEF Range

LEMMA IdleAwaits ==
  ASSUME JobOK, status = "idle"
  PROVE  Waived = {} /\ ~ActivityAwaited /\ \A t : ~Awaited(t)
<1>1. todo = Left(0)
  BY NoneLeft DEF JobOK
<1> QED BY <1>1, NothingInNone DEF Waived, ActivityAwaited, Awaited

\* A statement of the rebuild makes what it deletes awaited, and ends the wait
\* for what it inserts.
LEMMA GoesAwaits ==
  ASSUME JobOK, todo # << >>, Goes
  PROVE  /\ \A t : Awaited(t) => Awaited(t)' \/ Head(todo) = Insertion(t)
         /\ ActivityAwaited => ActivityAwaited' \/ Head(todo) = ActivityInsertion
         /\ \A t : Head(todo) = Do("deleteMarkers", t) => Awaited(t)'
         /\ Head(todo).op = "deleteActivity" => ActivityAwaited'
         /\ Head(todo) = Insertion("guild_daily_active_members") => ~ActivityAwaited
<1>1. PICK n \in 0 .. 34 : todo = Left(n)
  BY DEF JobOK
<1>2. n \in 1 .. 34 /\ n - 1 \in 0 .. 34
  <2>1. n # 0
    BY <1>1, NoneLeft
  <2> QED BY <2>1
<1> DEFINE k == 35 - n
           st == Rebuild[k]
<1>3. /\ Head(Left(n)) = st /\ Tail(Left(n)) = Left(n - 1)
  BY <1>2, FirstLeft
<1>4. Head(todo) = st /\ todo' = Left(n - 1) /\ k \in 1 .. 34 /\ 35 - (n - 1) = k + 1
  BY <1>1, <1>2, <1>3 DEF Goes
<1>5. \A x : x \in Range(todo) <=> \E j \in k .. 34 : x = Rebuild[j]
  BY <1>1, StillLeft
<1>6. \A x : x \in Range(todo') <=> \E j \in (k + 1) .. 34 : x = Rebuild[j]
  <2>1. PICK m \in 0 .. 34 : m = n - 1
    BY <1>2
  <2>2. todo' = Left(m) /\ 35 - m = k + 1
    BY <1>4, <2>1
  <2>3. \A x : x \in Range(Left(m)) <=> \E j \in (35 - m) .. 34 : x = Rebuild[j]
    BY StillLeft
  <2> HIDE DEF k
  <2> QED BY <2>2, <2>3
<1>7. status = "running"
  BY DEF JobOK
<1> HIDE DEF st, k
<1>8. \A x : x \in Range(todo) => x \in Range(todo') \/ st = x
  <2>1. \A j \in k .. 34 : j = k \/ j \in (k + 1) .. 34
    BY <1>4
  <2> QED BY <1>5, <1>6, <2>1 DEF st
<1>9. st.op = "deleteMarkers" => Insertion(st.arg) \in Range(todo')
  <2> SUFFICES ASSUME st.op = "deleteMarkers" PROVE Insertion(st.arg) \in Range(todo')
    OBVIOUS
  <2>1. k + 1 \in 1 .. 34 /\ Rebuild[k + 1] = Insertion(st.arg)
    BY <1>4, RebuildOrder DEF st
  <2>2. k + 1 \in (k + 1) .. 34
    BY <1>4, <2>1
  <2> QED BY <1>6, <2>1, <2>2
<1>10. st.op = "deleteActivity" => ActivityInsertion \in Range(todo')
  <2> SUFFICES ASSUME st.op = "deleteActivity" PROVE ActivityInsertion \in Range(todo')
    OBVIOUS
  <2>1. k = 2
    BY <1>4, RebuildOrder DEF st
  <2>2. 3 \in (k + 1) .. 34 /\ Rebuild[3] = ActivityInsertion
    BY <2>1, RebuildOrder
  <2> QED BY <1>6, <2>2
<1>11. st = Insertion("guild_daily_active_members") => ActivityInsertion \notin Range(todo)
  <2> SUFFICES ASSUME st = Insertion("guild_daily_active_members"),
                      NEW j \in k .. 34, Rebuild[j] = ActivityInsertion
               PROVE  FALSE
    BY <1>5
  <2>1. k = 5
    BY <1>4, RebuildOrder DEF st
  <2>2. j \in 1 .. 34 /\ j # 3
    BY <2>1
  <2> QED BY <2>2, RebuildOrder
<1>12. \A t : /\ Awaited(t) => Insertion(t) \in Range(todo)
              /\ Insertion(t) \in Range(todo') => Awaited(t)'
  BY <1>7 DEF Awaited
<1>13. /\ ActivityAwaited <=> ActivityInsertion \in Range(todo)
       /\ ActivityInsertion \in Range(todo') => ActivityAwaited'
  BY <1>7 DEF ActivityAwaited
<1>14. \A t : Head(todo) = Do("deleteMarkers", t) => Awaited(t)'
  BY <1>4, <1>9, <1>12, DoesNothingElse
<1> QED
  BY <1>4, <1>8, <1>10, <1>11, <1>12, <1>13, <1>14

\* A job that starts awaits everything.
LEMMA StartAwaits ==
  ASSUME NEW now, StartJob(now)
  PROVE  ActivityAwaited' /\ \A table \in RebuiltTables : Awaited(table)'
<1>1. todo' = Rebuild
  BY DEF StartJob
<1>2. DOMAIN Rebuild = 1 .. 34
  <2> DEFINE R == Rebuild
             S == JobStatements
             n == 34
  <2>1. R \in Seq(S) /\ Len(R) = n
    BY RebuildIs
  <2> HIDE DEF R, S, n
  <2>2. DOMAIN R = 1 .. n
    BY <2>1, Elements
  <2> QED BY <2>2 DEF R, n
<1>3. \A table \in RebuiltTables : \E j \in 1 .. 34 : Rebuild[j] = Insertion(table)
  BY RebuildOrder
<1>4. 3 \in 1 .. 34 /\ Rebuild[3] = ActivityInsertion
  BY RebuildOrder
<1> HIDE DEF Rebuild
<1>5. \A table \in RebuiltTables : Insertion(table) \in Range(todo')
  BY <1>1, <1>2, <1>3 DEF Range
<1>6. ActivityInsertion \in Range(todo')
  BY <1>1, <1>2, <1>4 DEF Range
<1> QED BY <1>5, <1>6 DEF Awaited, ActivityAwaited

\* Nothing else ends a wait.
LEMMA OthersAwait ==
  ASSUME JobOK, NEW table \in RebuiltTables,
         \/ BreaksOff \/ \E s \in Streams : Handling(s)
         \/ \E now \in 0 .. Len(log) : StartJob(now) \/ Dies(now)
  PROVE  (Awaited(table) => Awaited(table)') /\ (ActivityAwaited => ActivityAwaited')
<1>1. CASE BreaksOff
  BY <1>1 DEF BreaksOff, Awaited, ActivityAwaited
<1>2. CASE \E s \in Streams : Handling(s)
  BY <1>2 DEF Handling, Awaited, ActivityAwaited
<1>3. ASSUME NEW now \in 0 .. Len(log), StartJob(now)
      PROVE  Awaited(table)' /\ ActivityAwaited'
  BY <1>3, StartAwaits
<1>4. ASSUME NEW now \in 0 .. Len(log), Dies(now)
      PROVE  (Awaited(table) => Awaited(table)') /\ (ActivityAwaited => ActivityAwaited')
  <2>1. CASE status = "running"
    BY <1>4, <2>1 DEF Dies, Awaited, ActivityAwaited
  <2>2. CASE status # "running"
    BY <1>4, <2>2 DEF Dies, JobOK, Awaited, ActivityAwaited
  <2> QED BY <2>1, <2>2
<1> QED BY <1>1, <1>2, <1>3, <1>4

-----------------------------------------------------------------------------
(* Steps recorded, beside a rebuild.                                        *)

\* A job may find that a step was taken earlier.
StepsEarlier ==
  \A m \in Members :
    /\ Joined(m)' = Joined(m)
    /\ \A f \in Milestones : lifecycle[m][f] # None =>
         lifecycle'[m][f] \in Times /\ lifecycle'[m][f] <= lifecycle[m][f]

\* The member's step is among the markers or among what is waived.
Accounted(m, step, mks, W) ==
  \/ \E mk \in mks : mk.table = step /\ mk.member = m
  \/ <<step, Day(Joined(m))>> \in W

LEMMA RecordedRebuilt ==
  ASSUME NEW W, NEW V, TypeInv, StepsKnown, StepsEarlier,
         log' = log, failed' = failed, sawJoin' = sawJoin, reindexed \subseteq reindexed',
         \A m \in Members : \A step \in Milestones :
           Eligible(step, m) /\ Accounted(m, step, markers, W) => Accounted(m, step, markers', V),
         NEW i \in DOMAIN log, StepIn(i) \in Milestones, Recorded(i, W)
  PROVE  Recorded(i, V)'
<1> DEFINE m == log[i].member
           step == StepIn(i)
<1>1. StepIn(i)' = step /\ log'[i].member = m
  BY DEF StepIn
<1> SUFFICES ASSUME i \in sawJoin', step = "first_message_at" => i \notin failed' \union reindexed',
                    Took(m, step)'
             PROVE  \/ \E mk \in markers' : mk.table = step /\ mk.member = m
                    \/ <<step, Day(Joined(m)')>> \in V
  BY <1>1 DEF Recorded, Joined
<1>2. i \in sawJoin /\ (step = "first_message_at" => i \notin failed \union reindexed)
  OBVIOUS
<1>3. Joined(m) # None /\ lifecycle[m][step] # None
  BY <1>2 DEF StepsKnown
<1>4. m \in Members /\ step \in Milestones /\ step \in LifecycleColumns
  BY EventsAre DEF TypeInv, LifecycleColumns
<1>5. Joined(m)' = Joined(m) /\ lifecycle'[m][step] <= lifecycle[m][step]
        /\ lifecycle'[m][step] \in Times
  BY <1>3, <1>4 DEF StepsEarlier
<1>6. Joined(m) \in Nat /\ lifecycle[m][step] \in Nat
  <2>1. lifecycle \in [Members -> [LifecycleColumns -> Times \union {None}]]
    BY DEF TypeInv, MemberTablesOK
  <2>2. "joined_at" \in LifecycleColumns
    BY DEF LifecycleColumns
  <2> QED BY <1>3, <1>4, <2>1, <2>2, TimesAre DEF Joined
<1>7. lifecycle'[m][step] >= Joined(m)
  BY <1>1, <1>5 DEF Took
<1>8. lifecycle'[m][step] \in Nat
  BY <1>5, TimesAre
<1>9. lifecycle[m][step] >= Joined(m)
  BY <1>5, <1>6, <1>7, <1>8
<1>10. Took(m, step) /\ Eligible(step, m)
  BY <1>3, <1>4, <1>9 DEF Took, Eligible, Milestones
<1>11. Accounted(m, step, markers, W)
  BY <1>2, <1>10 DEF Recorded, Accounted
<1>12. Accounted(m, step, markers', V)
  BY <1>4, <1>10, <1>11
<1> QED BY <1>5, <1>12 DEF Accounted

LEMMA StepsRebuilt ==
  ASSUME NEW W, NEW V, TypeInv, StepsInv(W), StepsEarlier,
         UNCHANGED <<log, workerVars, historyVars>>, reindexed \subseteq reindexed',
         \A m \in Members : \A step \in Milestones :
           Eligible(step, m) /\ Accounted(m, step, markers, W) => Accounted(m, step, markers', V)
  PROVE  StepsInv(V)'
<1>1. UNCHANGED <<log, queue, current, work, failed, done, sawJoin>>
  BY DEF workerVars, historyVars
<1>2. \A i \in DOMAIN log : StepIn(i)' = StepIn(i)
  BY <1>1 DEF StepIn
<1>3. ASSUME NEW i \in DOMAIN log, StepIn(i) \in Milestones, Recorded(i, W)
      PROVE  Recorded(i, V)'
  BY <1>1, <1>3, RecordedRebuilt DEF StepsInv
<1>4. DoneRecorded(V)'
  <2> SUFFICES ASSUME NEW i \in done, StepIn(i) \in Milestones
               PROVE  Recorded(i, V)'
    <3>1. done' = done /\ \A i \in done : StepIn(i)' = StepIn(i)
      BY <1>1, <1>2 DEF TypeInv, HistoryOK
    <3> QED BY <3>1 DEF DoneRecorded
  <2> QED BY <1>3 DEF StepsInv, DoneRecorded, TypeInv, HistoryOK
<1>5. WorkRecorded(V)'
  <2> SUFFICES ASSUME NEW s \in Streams, Busy(s), StepIn(current[s]) \in Milestones
               PROVE  /\ Followed(work[s], StepIn(current[s]))
                      /\ \/ StepAhead(work[s], StepIn(current[s]))
                         \/ \A i : i = current[s] => Recorded(i, V)'
    <3>1. \A s \in Streams : Busy(s)' = Busy(s)
      BY <1>1 DEF Busy
    <3>2. \A i : i = current' => i = current
      BY <1>1
    <3> QED
      BY <1>1, <3>1 DEF WorkRecorded, Followed, StepAhead, Recorded, StepIn
  <2>1. Followed(work[s], StepIn(current[s]))
          /\ (StepAhead(work[s], StepIn(current[s])) \/ Recorded(current[s], W))
    BY DEF StepsInv, WorkRecorded
  <2>2. ASSUME NEW i, i = current[s], Recorded(i, W)
        PROVE  Recorded(i, V)'
    BY <1>3, <2>2, AtWork
  <2> QED BY <2>1, <2>2
<1>6. StepsKnown'
  <2> SUFFICES ASSUME NEW i \in sawJoin, StepIn(i) \in Milestones
               PROVE  lifecycle'[log[i].member]["joined_at"] # None
                        /\ lifecycle'[log[i].member][StepIn(i)] # None
    BY <1>1 DEF StepsKnown, StepIn, Joined
  <2>1. log[i].member \in Members
    BY EventsAre DEF TypeInv, HistoryOK
  <2>2. \A t \in Times : t # None
    BY TimesAre DEF None
  <2> QED BY <2>1, <2>2 DEF StepsInv, StepsKnown, StepsEarlier, Joined
<1>7. InOnePlace'
  BY <1>1 DEF StepsInv, InOnePlace, Busy
<1> QED BY <1>4, <1>5, <1>6, <1>7 DEF StepsInv

LEMMA StepsMore ==
  ASSUME NEW W, NEW V, W \subseteq V, StepsInv(W)'
  PROVE  StepsInv(V)'
BY DEF StepsInv, DoneRecorded, WorkRecorded, Recorded

LEMMA StatementDoes ==
  \A st \in JobStatements : st = Do(st.op, st.arg)
BY DoesNothingElse DEF JobStatements

\* A step of the job breaks it off, or changes the lifecycle rows, the activity,
\* the markers of one table, or none of these.
JobStepsAre(t) ==
  \/ BreaksOff /\ reindexed' = reindexed
  \/ /\ Goes /\ todo # << >> /\ reindexed' = reindexed
     /\ \/ RebuildLifecycle /\ Head(todo).op = "lifecycle" /\ UNCHANGED <<activity, markers>>
        \/ DeleteActivity /\ Head(todo).op = "deleteActivity" /\ UNCHANGED <<lifecycle, markers>>
        \/ InsertActivity /\ Head(todo).op = "insertActivity" /\ UNCHANGED <<lifecycle, markers>>
        \/ /\ t \in RebuiltTables /\ Head(todo) = Do("deleteMarkers", t)
           /\ DeleteMarkers /\ UNCHANGED <<lifecycle, activity>>
        \/ /\ t \in RebuiltTables /\ Head(todo) = Insertion(t)
           /\ InsertMarkers /\ UNCHANGED <<lifecycle, activity>>
        \/ /\ Head(todo).op \in {"deleteCounters", "insertCounters", "recount"}
           /\ UNCHANGED <<lifecycle, activity, markers>>

LEMMA JobSteps ==
  ASSUME JobOK, JobStep
  PROVE  \E t : JobStepsAre(t)
<1>1. CASE RebuildLifecycle
  BY <1>1 DEF RebuildLifecycle, Rebuilding, JobStepsAre
<1>2. CASE DeleteActivity
  BY <1>2 DEF DeleteActivity, Rebuilding, JobStepsAre
<1>3. CASE InsertActivity
  BY <1>3 DEF InsertActivity, Rebuilding, JobStepsAre
<1>4. CASE DeleteMarkers
  <2>1. Rebuilding("deleteMarkers") /\ Goes /\ UNCHANGED <<lifecycle, activity, reindexed>>
    BY <1>4 DEF DeleteMarkers
  <2>2. /\ Head(todo) \in JobStatements /\ todo # << >>
        /\ Head(todo).op = "deleteMarkers" /\ Head(todo).arg \in RebuiltTables
    BY <2>1, StatementAt
  <2>3. Head(todo) = Do("deleteMarkers", Head(todo).arg)
    BY <2>2, StatementDoes
  <2> QED BY <1>4, <2>1, <2>2, <2>3 DEF JobStepsAre
<1>5. CASE InsertMarkers
  <2>1. Rebuilding("insertMarkers") /\ Goes /\ UNCHANGED <<lifecycle, activity, reindexed>>
    BY <1>5 DEF InsertMarkers
  <2>2. /\ Head(todo) \in JobStatements /\ todo # << >>
        /\ Head(todo).op = "insertMarkers" /\ Head(todo).arg \in RebuiltTables
    BY <2>1, StatementAt
  <2>3. Head(todo) = Insertion(Head(todo).arg)
    BY <2>2, StatementDoes DEF Insertion
  <2> QED BY <1>5, <2>1, <2>2, <2>3 DEF JobStepsAre
<1>6. CASE DeleteCounters \/ InsertCounters \/ Recount
  BY <1>6 DEF DeleteCounters, InsertCounters, Recount, Rebuilding, JobStepsAre
<1>7. CASE InsertConflicts
  BY <1>7 DEF InsertConflicts, BreaksOff, tableVars, JobStepsAre
<1> QED
  BY <1>1, <1>2, <1>3, <1>4, <1>5, <1>6, <1>7 DEF JobStep

LEMMA WorkerSteps ==
  \/ \E s \in Streams : Handling(s)
  \/ \E now \in 0 .. Len(log) : Dies(now)
  => Next
BY DEF Handling, Dies, Next

\* A job leaves joined_at alone.
LEMMA JobEarlier ==
  ASSUME TypeInv, lifecycle' = lifecycle \/ RebuildLifecycle
  PROVE  StepsEarlier
<1>1. /\ lifecycle \in [Members -> [LifecycleColumns -> Times \union {None}]]
      /\ Milestones \subseteq LifecycleColumns
  BY DEF TypeInv, MemberTablesOK, LifecycleColumns
<1>2. \A m \in Members : \A f \in Milestones : lifecycle[m][f] # None =>
        lifecycle[m][f] \in Times /\ lifecycle[m][f] <= lifecycle[m][f]
  BY <1>1, TimesAre
<1>3. CASE lifecycle' = lifecycle
  BY <1>2, <1>3 DEF StepsEarlier, Joined
<1>4. CASE RebuildLifecycle
  <2>1. /\ \A m \in Members : \A f \in LifecycleColumns \ {"first_message_at"} :
              lifecycle'[m][f] = lifecycle[m][f]
        /\ \A m \in Members :
              \/ lifecycle'[m]["first_message_at"] = lifecycle[m]["first_message_at"]
              \/ /\ lifecycle'[m]["first_message_at"] \in Times
                 /\ lifecycle[m]["first_message_at"] # None
                      => lifecycle'[m]["first_message_at"] <= lifecycle[m]["first_message_at"]
    BY <1>4, LifecycleBecomes
  <2>2. "joined_at" \in LifecycleColumns \ {"first_message_at"}
    BY DEF LifecycleColumns
  <2>3. \A f \in Milestones : f = "first_message_at" \/ f \in LifecycleColumns \ {"first_message_at"}
    BY <1>1
  <2>4. ASSUME NEW m \in Members, NEW f \in Milestones, lifecycle[m][f] # None
        PROVE  lifecycle'[m][f] \in Times /\ lifecycle'[m][f] <= lifecycle[m][f]
    <3>1. lifecycle[m][f] \in Times /\ lifecycle[m][f] <= lifecycle[m][f]
      BY <1>2, <2>4
    <3>2. CASE f = "first_message_at"
      <4>1. \/ lifecycle'[m][f] = lifecycle[m][f]
            \/ /\ lifecycle'[m][f] \in Times
               /\ lifecycle[m][f] # None => lifecycle'[m][f] <= lifecycle[m][f]
        BY <2>1, <3>2
      <4> QED BY <2>4, <3>1, <4>1
    <3>3. CASE f \in LifecycleColumns \ {"first_message_at"}
      <4>1. lifecycle'[m][f] = lifecycle[m][f]
        BY <2>1, <3>3
      <4> QED BY <3>1, <4>1
    <3> QED BY <2>3, <3>2, <3>3
  <2>5. \A m \in Members : Joined(m)' = Joined(m)
    BY <2>1, <2>2 DEF Joined
  <2> QED BY <2>4, <2>5 DEF StepsEarlier
<1> QED BY <1>3, <1>4

\* The markers that a rebuild inserts.
LEMMA InsertionIs ==
  ASSUME TypeInv, NEW t \in RebuiltTables, Head(todo) = Insertion(t), InsertMarkers
  PROVE  /\ markers' = markers \union {mk \in {x \in StartupMarkers(t, markers) : Concerned(x)} :
                                          ~\E old \in markers : SameKey(old, mk)}
         /\ StartupMarkers(t, markers) \subseteq {mk \in MarkersOf(log) : mk.table = t}
<1>1. Head(todo).arg = t
  BY DoesNothingElse DEF Insertion
<1>2. t \in FirstFilled \union FilledFromThose /\ markers \in SUBSET MarkersOf(log) /\ RowsOK
  BY RebuiltAre, TypedRows DEF TypeInv, MemberTablesOK
<1> QED BY <1>1, <1>2, StartupMarkersAre DEF InsertMarkers

LEMMA DeletionIs ==
  ASSUME NEW t, Head(todo) = Do("deleteMarkers", t), DeleteMarkers
  PROVE  markers' = {mk \in markers : mk.table = t => ~Concerned(mk)}
BY DoesNothingElse DEF DeleteMarkers

\* A member stays in one cohort beside a rebuild.
LEMMA CohortRebuilt ==
  ASSUME TypeInv, JobOK, OneCohort, [RebuildNext]_rebuildVars
  PROVE  OneCohort'
<1>1. ASSUME NEW mk \in markers, StepsEarlier
      PROVE  InCohort(mk)'
  <2>1. InCohort(mk) /\ mk.member \in Members
    BY CohortsAre DEF TypeInv, MemberTablesOK, MarkersOf
  <2> QED BY <1>1, <2>1 DEF InCohort, StepsEarlier, Joined
<1>2. ASSUME NEW t, JobStepsAre(t)
      PROVE  OneCohort'
  <2>1. StepsEarlier
    BY <1>2, JobEarlier DEF JobStepsAre, BreaksOff, tableVars
  <2>2. ASSUME NEW mk \in markers' \ markers
        PROVE  InCohort(mk)'
    <3>1. t \in RebuiltTables /\ Head(todo) = Insertion(t) /\ InsertMarkers /\ lifecycle' = lifecycle
      BY <1>2, <2>2, DeletionIs DEF JobStepsAre, BreaksOff, tableVars
    <3>2. mk \in StartupMarkers(t, markers)
      BY <3>1, InsertionIs
    <3>3. /\ RowsOK /\ markers \in SUBSET MarkersOf(log) /\ \A x \in markers : InCohort(x)
          /\ t \in FirstFilled \union FilledFromThose
      BY <3>1, TypedRows, CohortsAre, RebuiltAre DEF TypeInv, MemberTablesOK
    <3>4. InCohort(mk)
      BY <3>2, <3>3, StartupCohorts
    <3> QED BY <3>1, <3>4 DEF InCohort, Joined
  <2>3. \A mk \in markers' : InCohort(mk)'
    BY <1>1, <2>1, <2>2
  <2> QED BY <2>3 DEF OneCohort, InCohort
<1>3. ASSUME NEW now \in 0 .. Len(log), StartJob(now)
      PROVE  OneCohort'
  <2>1. lifecycle' = lifecycle
        /\ \A mk \in markers' \ markers : mk.table = "message_index"
    BY <1>3, MarkIs DEF StartJob
  <2>2. StepsEarlier
    BY <2>1, JobEarlier
  <2>3. "message_index" \notin CohortTables
    BY DEF CohortTables, Milestones
  <2>4. \A mk \in markers' : InCohort(mk)'
    BY <1>1, <2>1, <2>2, <2>3 DEF InCohort
  <2> QED BY <2>4 DEF OneCohort, InCohort
<1>4. CASE JobFails \/ UNCHANGED rebuildVars
  BY <1>4 DEF JobFails, BreaksOff, rebuildVars, vars, tableVars, OneCohort, Joined
<1>5. CASE Next
  BY <1>5, CohortStep
<1>6. CASE JobStep
  BY <1>2, <1>6, JobSteps
<1> QED
  BY <1>3, <1>4, <1>5, <1>6, WorkerSteps DEF RebuildNext

-----------------------------------------------------------------------------
\* A marker that the rebuild deletes is waived, and is there again when it is
\* no longer waived.
LEMMA StepAccounted ==
  ASSUME TypeInv, JobOK, OneCohort, NEW t, JobStepsAre(t),
         NEW W, W = Waived, NEW V, V = Waived',
         NEW m \in Members, NEW step \in Milestones,
         Eligible(step, m), Accounted(m, step, markers, W)
  PROVE  Accounted(m, step, markers', V)
<1>1. step \in RebuiltTables /\ step \in CohortTables /\ step # "guild_onboarded_members"
        /\ \A mk : mk.table = step => (Concerned(mk) <=> mk.day \in CohortDays)
  BY RebuiltAre DEF CohortTables, Milestones, Concerned
<1>2. \A d : /\ <<step, d>> \in W <=> d \in CohortDays /\ Awaited(step)
             /\ <<step, d>> \in V <=> d \in CohortDays /\ Awaited(step)'
  BY <1>1 DEF Waived
<1>3. ASSUME ~BreaksOff
      PROVE  JobStepsAre(t) /\ Goes /\ todo # << >>
               /\ (Awaited(step) => Awaited(step)' \/ Head(todo) = Insertion(step))
               /\ (Head(todo) = Do("deleteMarkers", step) => Awaited(step)')
  BY <1>3, GoesAwaits DEF JobStepsAre
<1>4. CASE BreaksOff
  <2>1. markers' = markers /\ (Awaited(step) => Awaited(step)')
    BY <1>1, <1>4, OthersAwait DEF BreaksOff, tableVars
  <2> QED BY <1>2, <2>1 DEF Accounted
<1>5. ASSUME ~BreaksOff, NEW mk \in markers, mk.table = step, mk.member = m
      PROVE  Accounted(m, step, markers', V)
  <2>1. CASE mk \in markers'
    BY <1>5, <2>1 DEF Accounted
  <2>2. CASE mk \notin markers'
    <3>1. t \in RebuiltTables /\ Head(todo) = Do("deleteMarkers", t) /\ DeleteMarkers
      BY <1>5, <2>2, InsertionIs DEF JobStepsAre
    <3>2. mk.table = t /\ Concerned(mk)
      BY <2>2, <1>5, <3>1, DeletionIs
    <3>3. t = step /\ mk.day \in CohortDays
      BY <1>1, <1>5, <3>2
    <3>4. mk.day # None
      BY <1>1, <1>5 DEF TypeInv, MemberTablesOK, MarkersOf, Fits
    <3>5. mk.day = Day(Joined(m))
      BY <1>1, <1>5, <3>4 DEF OneCohort
    <3>6. Awaited(step)'
      BY <1>3, <1>5, <3>1, <3>3
    <3> QED BY <1>2, <3>3, <3>5, <3>6 DEF Accounted
  <2> QED BY <2>1, <2>2
<1>6. ASSUME ~BreaksOff, <<step, Day(Joined(m))>> \in W
      PROVE  Accounted(m, step, markers', V)
  <2>1. Day(Joined(m)) \in CohortDays /\ (Awaited(step)' \/ Head(todo) = Insertion(step))
    BY <1>2, <1>3, <1>6
  <2>2. CASE Awaited(step)'
    BY <1>2, <2>1, <2>2 DEF Accounted
  <2>3. CASE Head(todo) = Insertion(step)
    <3>1. Head(todo).op = "insertMarkers" /\ Head(todo).arg = step
      BY <2>3, DoesNothingElse DEF Insertion
    <3>2. InsertMarkers
      BY <1>3, <1>6, <3>1, DoesNothingElse DEF JobStepsAre
    <3> DEFINE mk == Marker(step, m, Whole, Day(Joined(m)))
    <3>3. mk.table = step /\ mk.member = m /\ mk.day = Day(Joined(m))
      BY MarkIs
    <3>4. mk \in StartupMarkers(step, markers)
      BY DEF StartupMarkers, StepMarkers, Milestones
    <3>5. Concerned(mk)
      BY <1>1, <2>1, <3>3
    <3> HIDE DEF mk
    <3>6. mk \in markers' \/ \E old \in markers : SameKey(old, mk)
      BY <1>1, <2>3, <3>2, <3>4, <3>5, InsertionIs
    <3>7. markers \subseteq markers'
      BY <1>1, <2>3, <3>2, InsertionIs
    <3> QED BY <3>3, <3>6, <3>7 DEF SameKey, Accounted
  <2> QED BY <2>1, <2>2, <2>3
<1> QED BY <1>4, <1>5, <1>6 DEF Accounted

LEMMA MoreWaived ==
  ASSUME JobOK, NEW W, W = Waived, NEW V, V = Waived',
         \/ BreaksOff \/ \E s \in Streams : Handling(s)
         \/ \E now \in 0 .. Len(log) : StartJob(now) \/ Dies(now)
  PROVE  W \subseteq V
<1>1. ASSUME NEW table \in RebuiltTables
      PROVE  Awaited(table) => Awaited(table)'
  BY <1>1, OthersAwait
<1>2. ASSUME NEW td \in RebuiltTables \X CohortDays
      PROVE  Awaited(td[1]) => Awaited(td[1])'
  BY <1>1, <1>2
<1> QED BY <1>2 DEF Waived

\* Steps recorded survive a rebuild, but for those of the tables and days that
\* are waived meanwhile.
LEMMA StepsBesideRebuild ==
  ASSUME TypeInv, JobOK, OneCohort, NEW W, W = Waived, NEW V, V = Waived',
         StepsInv(W), [RebuildNext]_rebuildVars
  PROVE  StepsInv(V)'
<1>1. ASSUME NEW t, JobStepsAre(t)
      PROVE  StepsInv(V)'
  <2>1. /\ StepsEarlier
    BY <1>1, JobEarlier DEF JobStepsAre, BreaksOff, tableVars
  <2>2. UNCHANGED <<log, workerVars, historyVars, reindexed>>
    BY <1>1 DEF JobStepsAre, BreaksOff, Goes
  <2> QED BY <1>1, <2>1, <2>2, StepAccounted, StepsRebuilt
<1>2. CASE JobFails
  <2>1. BreaksOff
    BY <1>2 DEF JobFails
  <2>2. UNCHANGED <<log, workerVars, historyVars, lifecycle, markers, reindexed>>
    BY <2>1 DEF BreaksOff, tableVars
  <2>3. StepsEarlier /\ W \subseteq V
    BY <2>1, <2>2, JobEarlier, MoreWaived
  <2>4. \A m \in Members : \A step \in Milestones :
           Eligible(step, m) /\ Accounted(m, step, markers, W) => Accounted(m, step, markers', V)
    BY <2>2, <2>3 DEF Accounted
  <2> QED BY <2>2, <2>3, <2>4, StepsRebuilt
<1>3. ASSUME NEW now \in 0 .. Len(log), StartJob(now)
      PROVE  StepsInv(V)'
  <2>1. /\ UNCHANGED <<log, workerVars, historyVars, lifecycle>>
        /\ markers \subseteq markers' /\ reindexed \subseteq reindexed'
    BY <1>3 DEF StartJob
  <2>2. StepsEarlier /\ W \subseteq V
    BY <1>3, <2>1, JobEarlier, MoreWaived
  <2>3. \A m \in Members : \A step \in Milestones :
           Eligible(step, m) /\ Accounted(m, step, markers, W) => Accounted(m, step, markers', V)
    BY <2>1, <2>2 DEF Accounted
  <2> QED BY <2>1, <2>2, <2>3, StepsRebuilt
<1>4. CASE \/ \E s \in Streams : Handling(s)
           \/ \E now \in 0 .. Len(log) : Dies(now)
  <2>1. [Next]_vars
    BY <1>4, WorkerSteps
  <2>2. StepsInv(W)'
    BY <2>1, StepsStep
  <2>3. W \subseteq V
    BY <1>4, MoreWaived
  <2> QED BY <2>2, <2>3, StepsMore
<1>5. CASE UNCHANGED rebuildVars
  <2>1. [Next]_vars /\ V = W
    BY <1>5 DEF rebuildVars, jobVars, Waived, Awaited
  <2> QED BY <2>1, StepsStep
<1>6. CASE JobStep
  BY <1>1, <1>6, JobSteps
<1> QED
  BY <1>2, <1>3, <1>4, <1>5, <1>6 DEF RebuildNext

-----------------------------------------------------------------------------
(* What a handler has ahead of it.                                          *)

Holds(statements, st) == \E k \in DOMAIN statements : statements[k] = st

\* The statements by which the member of event i is put down as active.
Saying(i) == Do("activity", Day(log[i].at))
Whose(i) == Mark(Marker("guild_daily_active_members", log[i].member, Whole, Day(log[i].at)))

\* The statement that puts message i into the index.
IndexFirst(i) == Mark(Marker("message_index", log[i].member, i, Day(log[i].at)))

Indexing(st) == st.op = "mark" /\ st.arg.table = "message_index"

Posted(i) == log[i].kind \in {"message", "botMessage"}

\* A statement that indexes no message but event i, and dates no step but its.
Own(st, i) ==
  /\ Indexing(st) => st.arg.of = i /\ Posted(i)
  /\ st.op = "upsert" => \A f \in st.arg \intersect Milestones : StepAt(i) = f

\* Who is put down as active is marked as such afterwards, and a handler indexes
\* its own message and dates its own step.
Arranged(statements, i, whose) ==
  \A j \in DOMAIN statements :
    /\ statements[j].op = "activity" =>
         \E k \in DOMAIN statements : j < k /\ statements[k] = whose
    /\ Own(statements[j], i)

LEMMA ArrangedTail ==
  ASSUME NEW S, NEW statements \in Seq(S), statements # << >>, NEW i, NEW whose
  PROVE  /\ Arranged(statements, i, whose) => Arranged(Tail(statements), i, whose)
         /\ \A st : Holds(statements, st) /\ Head(statements) # st => Holds(Tail(statements), st)
<1> DEFINE rest == Tail(statements)
<1>1. /\ statements[1] = Head(statements) /\ 1 \in DOMAIN statements
      /\ \A k \in DOMAIN rest : k \in Nat /\ k + 1 \in DOMAIN statements
           /\ rest[k] = statements[k + 1]
      /\ \A j \in DOMAIN statements : j = 1 \/ (j - 1 \in DOMAIN rest
           /\ rest[j - 1] = statements[j])
      /\ \A j \in DOMAIN statements : j \in Nat /\ j >= 1
  OBVIOUS
<1> HIDE DEF rest
<1>2. \A st : Holds(statements, st) /\ Head(statements) # st => Holds(rest, st)
  BY <1>1 DEF Holds
<1>3. ASSUME Arranged(statements, i, whose)
      PROVE  Arranged(rest, i, whose)
  <2> SUFFICES ASSUME NEW j \in DOMAIN rest
               PROVE  /\ rest[j].op = "activity" =>
                           \E k \in DOMAIN rest : j < k /\ rest[k] = whose
                      /\ Own(rest[j], i)
    BY DEF Arranged
  <2>1. j \in Nat /\ j + 1 \in DOMAIN statements /\ rest[j] = statements[j + 1]
    BY <1>1
  <2>2. ASSUME rest[j].op = "activity"
        PROVE  \E k \in DOMAIN rest : j < k /\ rest[k] = whose
    <3>1. PICK k \in DOMAIN statements : j + 1 < k /\ statements[k] = whose
      BY <1>3, <2>1, <2>2 DEF Arranged
    <3>2. k \in Nat /\ k # 1 /\ j < k - 1
      BY <1>1, <2>1, <3>1
    <3>3. k - 1 \in DOMAIN rest /\ rest[k - 1] = whose
      BY <1>1, <3>1, <3>2
    <3> QED BY <3>2, <3>3
  <2> QED BY <1>3, <2>1, <2>2 DEF Arranged
<1> QED BY <1>2, <1>3 DEF rest

LEMMA ArrangedBoth ==
  ASSUME NEW S, NEW first \in Seq(S), NEW last \in Seq(S), NEW i, NEW whose
  PROVE  /\ Arranged(first, i, whose) /\ Arranged(last, i, whose)
              => Arranged(first \o last, i, whose)
         /\ \A st : Holds(first, st) \/ Holds(last, st) => Holds(first \o last, st)
<1> DEFINE both == first \o last
           n == Len(first)
<1>1. n \in Nat
  OBVIOUS
<1>2. /\ \A k \in DOMAIN first : k \in DOMAIN both /\ both[k] = first[k]
      /\ \A k \in DOMAIN last : k \in Nat /\ n + k \in DOMAIN both /\ both[n + k] = last[k]
      /\ \A k \in DOMAIN both : \/ k \in DOMAIN first
                                \/ k - n \in DOMAIN last /\ k = n + (k - n)
  OBVIOUS
<1> HIDE DEF both, n
<1>3. ASSUME Arranged(first, i, whose), Arranged(last, i, whose)
      PROVE  Arranged(both, i, whose)
  <2> SUFFICES ASSUME NEW j \in DOMAIN both
               PROVE  /\ both[j].op = "activity" =>
                           \E k \in DOMAIN both : j < k /\ both[k] = whose
                      /\ Own(both[j], i)
    BY DEF Arranged
  <2>1. CASE j \in DOMAIN first
    <3>1. both[j] = first[j]
      BY <1>2, <2>1
    <3> QED BY <1>2, <1>3, <2>1, <3>1 DEF Arranged
  <2>2. CASE j \notin DOMAIN first
    <3> DEFINE h == j - n
    <3>1. h \in DOMAIN last /\ j = n + h /\ h \in Nat
      BY <1>2, <2>2
    <3> HIDE DEF h
    <3>2. both[j] = last[h]
      BY <1>2, <3>1
    <3>3. ASSUME NEW k \in DOMAIN last, h < k, last[k] = whose
          PROVE  \E g \in DOMAIN both : j < g /\ both[g] = whose
      <4>1. n + k \in DOMAIN both /\ both[n + k] = last[k] /\ k \in Nat
        BY <1>2
      <4>2. j < n + k
        BY <1>1, <3>1, <3>3, <4>1
      <4> QED BY <3>3, <4>1, <4>2
    <3> QED BY <1>3, <3>1, <3>2, <3>3 DEF Arranged
  <2> QED BY <2>1, <2>2
<1>4. \A st : Holds(first, st) \/ Holds(last, st) => Holds(both, st)
  BY <1>2 DEF Holds
<1> QED BY <1>3, <1>4 DEF both

\* Statements that put nobody down as active.
LEMMA ArrangedNothing ==
  ASSUME NEW statements, NEW i, NEW whose,
         \A k \in DOMAIN statements : statements[k].op # "activity" /\ Own(statements[k], i)
  PROVE  Arranged(statements, i, whose)
BY DEF Arranged

LEMMA OwnAre ==
  ASSUME NEW i
  PROVE  /\ \A st : st.op \notin {"mark", "upsert"} => Own(st, i)
         /\ \A st : st.op = "mark" /\ st.arg.table # "message_index" => Own(st, i)
         /\ \A x : x \intersect Milestones \subseteq {StepAt(i)} => Own(Upsert(x), i)
<1>1. \A x : Upsert(x).op = "upsert" /\ Upsert(x).arg = x
  BY StatementIs
<1>2. "mark" # "upsert"
  OBVIOUS
<1> QED BY <1>1, <1>2 DEF Own, Indexing

LEMMA ArrangedMessage ==
  ASSUME NEW i, Posted(i)
  PROVE  /\ Arranged(MessageSteps(log[i]), i, Whose(i))
         /\ log[i].kind # "botMessage" =>
              /\ Holds(MessageSteps(log[i]), Saying(i)) /\ Holds(MessageSteps(log[i]), Whose(i))
<1> DEFINE h == MessageSteps(log[i])
           w == Whose(i)
<1>1. w.op = "mark" /\ w.arg.table = "guild_daily_active_members"
  BY StatementIs, MarkIs DEF Whose
<1>2. \A x : Upsert(x).op = "upsert" /\ Milestone(x).op = "milestone"
  BY StatementIs
<1>3. Saying(i).op = "activity"
  BY StatementIs DEF Saying
<1>7. /\ Own(w, i) /\ Own(Saying(i), i) /\ \A x : Own(Milestone(x), i)
      /\ log[i].kind # "botMessage" => Own(Upsert({"first_message_at"}), i)
  <2>1. Own(w, i) /\ Own(Saying(i), i) /\ \A x : Own(Milestone(x), i)
    <3> HIDE DEF w
    <3> QED BY <1>1, <1>2, <1>3, OwnAre
  <2>2. log[i].kind # "botMessage" => StepAt(i) = "first_message_at"
    BY DEF Posted, StepAt, Human
  <2> QED BY <2>1, <2>2, OwnAre
<1>4. /\ log[i].kind = "botMessage" => h = << >>
      /\ log[i].kind # "botMessage" =>
           h = <<Upsert({"first_message_at"}), Milestone("guild_onboarded_members"),
                 Milestone("first_message_at"), Saying(i), w>>
  BY DEF MessageSteps, Saying, Whose
<1> HIDE DEF h, w
<1>5. CASE log[i].kind = "botMessage"
  BY <1>4, <1>5 DEF Arranged, h
<1>6. CASE log[i].kind # "botMessage"
  <2>1. /\ DOMAIN h = 1 .. 5 /\ h[4] = Saying(i) /\ h[5] = w
        /\ h[1].op = "upsert" /\ h[2].op = "milestone" /\ h[3].op = "milestone"
    BY <1>2, <1>4, <1>6
  <2>2. Holds(h, Saying(i)) /\ Holds(h, w)
    BY <2>1 DEF Holds
  <2>4. \A k \in DOMAIN h : Own(h[k], i)
    BY <1>4, <1>6, <1>7
  <2>3. Arranged(h, i, w)
    BY <1>1, <1>3, <2>1, <2>4 DEF Arranged
  <2> QED BY <2>2, <2>3 DEF h, w
<1> QED BY <1>5, <1>6

LEMMA ArrangedHandler ==
  ASSUME NEW i \in DOMAIN log, log \in Seq(Happenings), StreamOf(log[i].kind) \in Streams
  PROVE  /\ Arranged(Handler(i), i, Whose(i))
         /\ log[i].kind = "message" => Holds(Handler(i), IndexFirst(i))
         /\ log[i].kind \in {"reaction", "voiceLeave"} =>
              Holds(Handler(i), Saying(i)) /\ Holds(Handler(i), Whose(i))
<1> DEFINE e == log[i]
           mk(table, of) == Mark(Marker(table, e.member, of, Day(e.at)))
           h == Handler(i)
           w == Whose(i)
<1>1. e.kind \in HandlerKinds
  BY EventsAre, StreamsAre
<1>2. \A table, of : /\ mk(table, of).op = "mark" /\ mk(table, of).arg.table = table
                     /\ mk(table, of).arg.of = of
  BY StatementIs, MarkIs
<1>3. /\ \A x : Upsert(x).op = "upsert" /\ Milestone(x).op = "milestone"
      /\ Saying(i).op = "activity"
  BY StatementIs DEF Saying
<1>4. w = mk("guild_daily_active_members", Whole) /\ IndexFirst(i) = mk("message_index", i)
  BY DEF Whose, IndexFirst
<1>9. /\ \A table, of : table # "message_index" => Own(mk(table, of), i)
      /\ \A x : Own(Milestone(x), i)
      /\ Own(Saying(i), i) /\ Own(w, i)
  <2>1. \A table, of : table # "message_index" => Own(mk(table, of), i)
    <3> SUFFICES ASSUME NEW table, NEW of, table # "message_index"
                 PROVE  \A st : st = mk(table, of) => Own(st, i)
      OBVIOUS
    <3>1. \A st : st = mk(table, of) => st.op = "mark" /\ st.arg.table = table
      BY <1>2
    <3> HIDE DEF mk
    <3> QED BY <3>1, OwnAre
  <2>2. \A x : Own(Milestone(x), i)
    BY <1>3, OwnAre
  <2>3. Own(Saying(i), i)
    BY <1>3, OwnAre
  <2> QED BY <1>4, <2>1, <2>2, <2>3
<1>10. /\ Own(Upsert({}), i) /\ Own(Upsert({"joined_at"}), i) /\ Own(Upsert({"left_at"}), i)
       /\ e.kind = "joinWithRole" => Own(Upsert({"joined_at", "first_role_at"}), i)
       /\ e.kind = "roles" => Own(Upsert({"first_role_at"}), i)
       /\ e.kind = "reaction" => Own(Upsert({"first_reaction_at"}), i)
       /\ e.kind = "voiceJoin" => Own(Upsert({"first_voice_at"}), i)
  <2>1. /\ e.kind \in {"joinWithRole", "roles"} => StepAt(i) = "first_role_at"
        /\ e.kind = "reaction" => StepAt(i) = "first_reaction_at"
        /\ e.kind = "voiceJoin" => StepAt(i) = "first_voice_at"
    BY DEF StepAt, StepOf, Human
  <2>2. {"joined_at"} \intersect Milestones = {} /\ {"left_at"} \intersect Milestones = {}
        /\ {"joined_at", "first_role_at"} \intersect Milestones = {"first_role_at"}
    BY DEF Milestones
  <2> QED BY <2>1, <2>2, OwnAre
<1>5. CASE e.kind \in {"join", "joinWithRole", "joinUndated", "leave", "roles", "rolesCleared",
                       "voiceJoin"}
  <2>1. \A k \in DOMAIN h : h[k].op \in {"upsert", "milestone", "mark"} /\ Own(h[k], i)
    <3>1. CASE e.kind = "join"
      <4>1. h = <<Upsert({"joined_at"}), mk("guild_joined_members", Whole)>>
        BY <3>1 DEF Handler
      <4> HIDE DEF h, mk
      <4> QED BY <1>2, <1>3, <1>9, <1>10, <3>1, <4>1
    <3>2. CASE e.kind = "joinWithRole"
      <4>1. h = <<Upsert({"joined_at", "first_role_at"}), mk("guild_joined_members", Whole),
                  Milestone("first_role_at")>>
        BY <3>2 DEF Handler
      <4> HIDE DEF h, mk
      <4> QED BY <1>2, <1>3, <1>9, <1>10, <3>2, <4>1
    <3>3. CASE e.kind = "joinUndated"
      <4>1. h = <<Upsert({})>>
        BY <3>3 DEF Handler
      <4> HIDE DEF h, mk
      <4> QED BY <1>2, <1>3, <1>9, <1>10, <3>3, <4>1
    <3>4. CASE e.kind = "leave"
      <4>1. h = <<Upsert({"left_at"}), mk("guild_left_members", Whole)>>
        BY <3>4 DEF Handler
      <4> HIDE DEF h, mk
      <4> QED BY <1>2, <1>3, <1>9, <1>10, <3>4, <4>1
    <3>5. CASE e.kind = "roles"
      <4>1. h = <<Upsert({"first_role_at"}), Milestone("guild_onboarded_members"),
                  Milestone("first_role_at")>>
        BY <3>5 DEF Handler
      <4> HIDE DEF h, mk
      <4> QED BY <1>2, <1>3, <1>9, <1>10, <3>5, <4>1
    <3>6. CASE e.kind = "rolesCleared"
      <4>1. h = <<Upsert({}), Milestone("guild_onboarded_members"), Milestone("first_role_at")>>
        BY <3>6 DEF Handler
      <4> HIDE DEF h, mk
      <4> QED BY <1>2, <1>3, <1>9, <1>10, <3>6, <4>1
    <3>7. CASE e.kind = "voiceJoin"
      <4>1. h = <<Upsert({"first_voice_at"}), Milestone("first_voice_at")>>
        BY <3>7 DEF Handler
      <4> HIDE DEF h, mk
      <4> QED BY <1>2, <1>3, <1>9, <1>10, <3>7, <4>1
    <3> QED BY <1>5, <3>1, <3>2, <3>3, <3>4, <3>5, <3>6, <3>7
  <2> HIDE DEF h
  <2>2. Arranged(h, i, w)
    BY <2>1, ArrangedNothing
  <2> QED BY <1>5, <2>2 DEF h
<1>6. CASE e.kind \in {"message", "botMessage"}
  <2>1. h = <<mk("message_index", i)>>
    BY <1>6 DEF Handler
  <2> HIDE DEF h, mk, w
  <2>2. DOMAIN h = 1 .. 1 /\ h[1] = IndexFirst(i) /\ h[1].op = "mark" /\ h[1].arg.of = i
    BY <1>2, <1>4, <2>1
  <2>4. Own(h[1], i)
    BY <1>6, <2>2 DEF Own, Posted
  <2>3. Arranged(h, i, w) /\ Holds(h, IndexFirst(i))
    BY <2>2, <2>4 DEF Arranged, Holds
  <2> QED BY <1>6, <2>3 DEF h, w
<1>7. CASE e.kind = "reaction"
  <2>1. h = <<Saying(i), w, Upsert({"first_reaction_at"}), Milestone("first_reaction_at")>>
    BY <1>4, <1>7 DEF Handler, Saying
  <2>2. w.op = "mark"
    BY <1>2, <1>4
  <2> HIDE DEF h, mk, w
  <2>3. /\ DOMAIN h = 1 .. 4 /\ h[1] = Saying(i) /\ h[2] = w
        /\ h[3].op = "upsert" /\ h[4].op = "milestone"
    BY <1>3, <2>1
  <2>5. \A k \in DOMAIN h : Own(h[k], i)
    BY <1>7, <1>9, <1>10, <2>1
  <2>4. Arranged(h, i, w) /\ Holds(h, Saying(i)) /\ Holds(h, w)
    BY <1>3, <2>2, <2>3, <2>5 DEF Arranged, Holds
  <2> QED BY <1>7, <2>4 DEF h, w
<1>8. CASE e.kind = "voiceLeave"
  <2>1. h = <<Saying(i), w>>
    BY <1>4, <1>8 DEF Handler, Saying
  <2>2. w.op = "mark"
    BY <1>2, <1>4
  <2> HIDE DEF h, mk, w
  <2>3. DOMAIN h = 1 .. 2 /\ h[1] = Saying(i) /\ h[2] = w
    BY <2>1
  <2>4. Arranged(h, i, w) /\ Holds(h, Saying(i)) /\ Holds(h, w)
    BY <1>3, <1>9, <2>2, <2>3 DEF Arranged, Holds
  <2> QED BY <1>8, <2>4 DEF h, w
<1> QED BY <1>1, <1>5, <1>6, <1>7, <1>8 DEF HandlerKinds, EventKinds

LEMMA ArrangedFollow ==
  ASSUME NEW i \in DOMAIN log, log \in Seq(Happenings), NEW mk \in MarkersOf(log),
         mk.table = "message_index" => Posted(i)
  PROVE  /\ Arranged(FollowUps(mk, log[i]), i, Whose(i))
         /\ mk.table = "message_index" /\ log[i].kind = "message" =>
              /\ Holds(FollowUps(mk, log[i]), Saying(i)) /\ Holds(FollowUps(mk, log[i]), Whose(i))
<1> DEFINE first == [j \in DOMAIN CountedIn(mk) |-> Count(CountedIn(mk)[j])]
           e == log[i]
           w == Whose(i)
           S == Due(e.member, log, 0)
<1>0. e \in Happenings
  OBVIOUS
<1>1. CountedIn(mk) \in Seq(Cells)
  BY CountedInCells
<1>2. \A c \in Cells : Count(c) \in S
  BY DueIn
<1>3. first \in Seq(S)
  BY <1>1, <1>2
<1>4. Arranged(first, i, w)
  <2>1. \A c : Count(c).op = "count"
    BY StatementIs
  <2>2. \A k \in DOMAIN first : first[k].op = "count"
    BY <2>1
  <2> HIDE DEF first
  <2>3. \A k \in DOMAIN first : Own(first[k], i)
    BY <2>2, OwnAre
  <2> QED BY <2>2, <2>3, ArrangedNothing
<1>5. /\ MessageSteps(e) \in Seq(S)
      /\ Posted(i) => Arranged(MessageSteps(e), i, w)
      /\ e.kind = "message" => Holds(MessageSteps(e), Saying(i)) /\ Holds(MessageSteps(e), w)
  <2>1. e.kind = "message" => Posted(i)
    BY DEF Posted
  <2>2. MessageSteps(e) \in Seq(S)
    BY <1>0, MessageStepsIn
  <2> QED BY <2>1, <2>2, ArrangedMessage
<1>6. ASSUME mk.table = "guild_daily_active_members"
      PROVE  <<Do("retention", mk.day)>> \in Seq(S) /\ Arranged(<<Do("retention", mk.day)>>, i, w)
  <2>1. mk.day \in Days
    BY <1>6 DEF MarkersOf, Fits
  <2>2. Do("retention", mk.day) \in S /\ Do("retention", mk.day).op = "retention"
    BY <2>1, DueIn, StatementIs
  <2> HIDE DEF S
  <2>3. Own(Do("retention", mk.day), i)
    BY <2>2, OwnAre
  <2> QED BY <2>2, <2>3 DEF Arranged
<1>7. ASSUME NEW table \in FilledFromThose
      PROVE  <<Do("contribution", table)>> \in Seq(S)
               /\ Arranged(<<Do("contribution", table)>>, i, w)
  <2>1. Do("contribution", table) \in S /\ Do("contribution", table).op = "contribution"
    BY DueIn, StatementIs DEF None
  <2> HIDE DEF S
  <2>3. Own(Do("contribution", table), i)
    BY <2>1, OwnAre
  <2> QED BY <2>1, <2>3 DEF Arranged
<1>8. << >> \in Seq(S) /\ Arranged(<< >>, i, w)
  BY DEF Arranged
<1> HIDE DEF S, first, w
<1>9. PICK last \in Seq(S) :
        /\ FollowUps(mk, e) = first \o last /\ Arranged(last, i, w)
        /\ mk.table = "message_index" => last = MessageSteps(e)
  <2>1. CASE mk.table = "message_index"
    BY <1>5, <2>1 DEF FollowUps, first
  <2>2. CASE mk.table # "message_index"
    BY <1>6, <1>7, <1>8, <2>2 DEF FollowUps, FilledFromThose, first
  <2> QED BY <2>1, <2>2
<1>10. /\ Arranged(first \o last, i, w)
       /\ \A st : Holds(last, st) => Holds(first \o last, st)
  BY <1>3, <1>4, <1>9, ArrangedBoth
<1> HIDE DEF e
<1>11. Arranged(FollowUps(mk, e), i, w)
  BY <1>9, <1>10
<1>12. ASSUME mk.table = "message_index", e.kind = "message"
       PROVE  Holds(FollowUps(mk, e), Saying(i)) /\ Holds(FollowUps(mk, e), w)
  BY <1>5, <1>9, <1>10, <1>12
<1> QED BY <1>11, <1>12 DEF e, w

WorkArranged ==
  \A s \in Streams : \A i \in DOMAIN log : current[s] = i => Arranged(work[s], i, Whose(i))

\* The handler of event i has statement st ahead of it.
AheadOf(i, st) == \E s \in Streams : current[s] = i /\ Holds(work[s], st)

\* An event that is handled, or being handled.
InHand(i) == i \in done \/ \E s \in Streams : current[s] = i

\* A handler indexes its own message.
LEMMA RunIndexes ==
  ASSUME TypeInv, WorkArranged, NEW s \in Streams, Run(s), NEW mk \in markers' \ markers,
         mk.table = "message_index"
  PROVE  \A i : i = current[s] => mk.of = i /\ Posted(i)
<1>1. /\ Busy(s) /\ Next1(s) \in Ahead(s)
      /\ current[s] \in DOMAIN log /\ work[s] \in Seq(Ahead(s)) /\ work[s] # << >>
  BY RunLeaves, AtWork
<1>2. Next1(s).op = "milestone" => Next1(s).arg \in Steps
  BY <1>1, DueAre, StatementsAre DEF Ahead
<1>3. "message_index" \notin Steps
  BY DEF Steps, Milestones
<1>4. Next1(s).op = "mark" /\ mk = Next1(s).arg
  BY <1>2, <1>3, NewMarker, MarkIs
<1>5. 1 \in DOMAIN work[s] /\ work[s][1] = Next1(s)
  <2> DEFINE A == Ahead(s)
  <2>1. work[s] \in Seq(A)
    BY <1>1
  <2> HIDE DEF A
  <2> QED BY <1>1, <2>1 DEF Next1
<1>6. Arranged(work[s], current[s], Whose(current[s]))
  BY <1>1 DEF WorkArranged
<1>7. Indexing(Next1(s))
  BY <1>4 DEF Indexing
<1>8. Own(Next1(s), current[s])
  BY <1>5, <1>6 DEF Arranged
<1> QED BY <1>4, <1>7, <1>8 DEF Own

LEMMA NewFollows ==
  ASSUME NEW s \in Streams, Run(s), NEW mk \in markers' \ markers
  PROVE  Proceed(s, FollowUps(mk, Event(s)) \o Tail(work[s]))
<1>1. CASE RunMark(s)
  BY <1>1 DEF RunMark, Insert
<1>2. CASE RunMilestone(s)
  BY <1>2 DEF RunMilestone, Insert, tableVars
<1>3. CASE ~RunMark(s) /\ ~RunMilestone(s)
  BY <1>3 DEF Run, RunUpsert, RunActivity, RunCount, RunRetention, RunContribution, tableVars
<1> QED BY <1>1, <1>2, <1>3

\* What a statement puts in front of the rest of its handler.
LEMMA RunFront ==
  ASSUME TypeInv, WorkArranged, NEW s \in Streams, Run(s), NEW i, i = current[s],
         NEW T, T = StatementsOf(log[i].member, log)
  PROVE  /\ work[s] \in Seq(T) /\ work[s] # << >>
         /\ \E first \in Seq(T) :
              /\ Proceed(s, first \o Tail(work[s]))
              /\ Arranged(first, i, Whose(i))
              /\ \A mk \in markers' \ markers : first = FollowUps(mk, log[i])
<1> DEFINE A == Ahead(s)
           rest == Tail(work[s])
<1>1. /\ Busy(s) /\ rest \in Seq(A) /\ work[s] \in Seq(A) /\ work[s] # << >>
      /\ i \in DOMAIN log /\ log \in Seq(Happenings)
  BY RunLeaves, AtWork DEF TypeInv
<1>2. Event(s) = log[i] /\ log[i] \in Happenings
  BY <1>1 DEF Event
<1>3. A \subseteq T /\ Due(log[i].member, log, 0) \subseteq T
  BY <1>2 DEF Due, Ahead
<1>4. work[s] \in Seq(T) /\ rest \in Seq(T)
  <2> HIDE DEF A, rest
  <2> QED BY <1>1, <1>3
<1>5. ASSUME NEW mk \in markers' \ markers
      PROVE  \E first \in Seq(T) :
              /\ Proceed(s, first \o rest) /\ Arranged(first, i, Whose(i))
              /\ \A x \in markers' \ markers : first = FollowUps(x, log[i])
  <2> DEFINE first == FollowUps(mk, log[i])
             Z == Due(log[i].member, log, 0)
  <2>1. mk \in MarkersOf(log)
    <3>1. TypeInv' /\ log' = log
      BY AllRunTypes, RunKeeps
    <3> QED BY <1>5, <3>1 DEF TypeInv, MemberTablesOK
  <2>2. Proceed(s, first \o rest) /\ \A x \in markers' \ markers : x = mk
    BY <1>2, NewFollows, NewMarker
  <2>3. Arranged(first, i, Whose(i))
    <3>1. mk.table = "message_index" => Posted(i)
      BY <1>5, RunIndexes
    <3> QED BY <1>1, <2>1, <3>1, ArrangedFollow
  <2>4. first \in Seq(Z)
    <3>1. 0 # None
      BY DEF None
    <3> QED BY <1>2, <2>1, <3>1, FollowUpsIn
  <2>5. \A x \in markers' \ markers : first = FollowUps(x, log[i])
    BY <2>2
  <2> HIDE DEF first, Z, rest
  <2>6. first \in Seq(T)
    <3>1. Z \subseteq T
      BY <1>3 DEF Z
    <3> QED BY <2>4, <3>1
  <2> QED BY <2>2, <2>3, <2>5, <2>6
<1>6. ASSUME markers' \subseteq markers
      PROVE  \E first \in Seq(T) :
              /\ Proceed(s, first \o rest) /\ Arranged(first, i, Whose(i))
              /\ \A x \in markers' \ markers : first = FollowUps(x, log[i])
  <2>1. CASE Proceed(s, rest)
    <3> HIDE DEF rest
    <3>1. << >> \in Seq(T) /\ << >> \o rest = rest
      BY <1>4
    <3>2. Arranged(<< >>, i, Whose(i))
      BY DEF Arranged
    <3>3. Proceed(s, << >> \o rest)
      BY <2>1, <3>1
    <3> QED BY <1>6, <3>1, <3>2, <3>3
  <2>2. CASE MarksNext(s)
    <3>1. PICK marks \in Seq(A) :
            /\ \A k \in DOMAIN marks : marks[k].op = "mark" /\ marks[k].arg.table \in CohortTables
            /\ Proceed(s, marks \o rest)
      BY <2>2 DEF MarksNext
    <3>2. "message_index" \notin CohortTables
      BY DEF CohortTables, Milestones
    <3>3. Arranged(marks, i, Whose(i))
      <4>1. \A k \in DOMAIN marks : Own(marks[k], i)
        BY <3>1, <3>2, OwnAre
      <4> QED BY <3>1, <4>1, ArrangedNothing
    <3> HIDE DEF A, rest
    <3>4. marks \in Seq(T)
      BY <1>3
    <3> QED BY <1>6, <3>1, <3>3, <3>4
  <2> QED
    BY <1>6, <2>1, <2>2, RetentionMarks, ContributionMarks, RunLeaves
<1>7. markers' \subseteq markers \/ \E mk : mk \in markers' \ markers
  OBVIOUS
<1> HIDE DEF A, rest
<1>8. \E first \in Seq(T) :
         /\ Proceed(s, first \o rest) /\ Arranged(first, i, Whose(i))
         /\ \A mk \in markers' \ markers : first = FollowUps(mk, log[i])
  BY <1>5, <1>6, <1>7, Zenon
<1> QED BY <1>1, <1>4, <1>8 DEF rest

LEMMA ArrangedProceed ==
  ASSUME TypeInv, WorkArranged, NEW s \in Streams, Busy(s), NEW rest, Proceed(s, rest),
         \A i : i = current[s] => Arranged(rest, i, Whose(i))
  PROVE  WorkArranged'
<1>1. log' = log /\ log \in Seq(Happenings) /\ 0 \notin DOMAIN log
  BY ProceedWork DEF TypeInv
<1> SUFFICES ASSUME NEW t \in Streams, NEW i \in DOMAIN log, current'[t] = i
             PROVE  Arranged(work'[t], i, Whose(i))
  BY <1>1 DEF WorkArranged, Whose, Arranged, Own, Posted, StepAt, Human
<1>2. CASE t = s
  <2>1. current[s] = i /\ work'[t] = rest
    BY <1>1, <1>2, ProceedWork DEF Busy
  <2> QED BY <2>1
<1>3. CASE t # s
  BY <1>3, ProceedWork DEF WorkArranged
<1> QED BY <1>2, <1>3

LEMMA SameArranged ==
  ASSUME WorkArranged, UNCHANGED <<log, current, work>>
  PROVE  WorkArranged'
BY DEF WorkArranged, Arranged, Whose, Own, Posted, StepAt, Human

LEMMA ArrangedStep ==
  ASSUME TypeInv, WorkArranged, [Next]_vars
  PROVE  WorkArranged'
<1>1. CASE UNCHANGED vars \/ \E s \in Streams : FindsClosed(s)
  <2>1. UNCHANGED <<log, current, work>>
    BY <1>1 DEF vars, workerVars, FindsClosed
  <2> QED BY <2>1, SameArranged
<1>2. ASSUME NEW s \in Streams, Run(s)
      PROVE  WorkArranged'
  <2>1. PICK i : i = current[s]
    OBVIOUS
  <2>2. PICK T : T = StatementsOf(log[i].member, log)
    OBVIOUS
  <2>3. /\ work[s] \in Seq(T) /\ work[s] # << >>
        /\ \E first \in Seq(T) :
              Proceed(s, first \o Tail(work[s])) /\ Arranged(first, i, Whose(i))
    BY <1>2, <2>1, <2>2, RunFront
  <2>4. PICK first \in Seq(T) :
          Proceed(s, first \o Tail(work[s])) /\ Arranged(first, i, Whose(i))
    BY <2>3
  <2>5. Busy(s) /\ i \in DOMAIN log
    BY <1>2, <2>1, RunLeaves, AtWork
  <2>6. Arranged(work[s], i, Whose(i))
    BY <2>1, <2>5 DEF WorkArranged
  <2> DEFINE w == Whose(i)
             last == Tail(work[s])
  <2> HIDE DEF w
  <2>7. last \in Seq(T) /\ Arranged(last, i, w)
    <3>1. last \in Seq(T)
      BY <2>3
    <3>2. Arranged(last, i, w)
      BY <2>3, <2>6, ArrangedTail DEF w
    <3> QED BY <3>1, <3>2
  <2> HIDE DEF last
  <2>8. Arranged(first \o last, i, w)
    BY <2>4, <2>7, ArrangedBoth DEF w
  <2>9. \A j : j = current[s] => Arranged(first \o last, j, Whose(j))
    BY <2>1, <2>8 DEF w
  <2>10. Proceed(s, first \o last)
    BY <2>4 DEF last
  <2> QED BY <2>5, <2>9, <2>10, ArrangedProceed
<1>3. ASSUME NEW s \in Streams, StatementFails(s)
      PROVE  WorkArranged'
  <2>1. Busy(s) /\ Proceed(s, work[s])
    BY <1>3 DEF StatementFails, Proceed
  <2>2. \A i : i = current[s] => Arranged(work[s], i, Whose(i))
    BY <2>1, AtWork DEF WorkArranged
  <2> QED BY <2>1, <2>2, ArrangedProceed
<1>4. ASSUME NEW s \in Streams, Begin(s)
      PROVE  WorkArranged'
  <2>1. PICK i : i = Head(queue[s])
    OBVIOUS
  <2>2. /\ queue[s] \in Seq(DOMAIN log) /\ queue[s] # << >>
        /\ \A k \in DOMAIN queue[s] : StreamOf(log[queue[s][k]].kind) = s
        /\ current \in [Streams -> DOMAIN log \union {0}] /\ DOMAIN work = Streams
        /\ log \in Seq(Happenings)
    BY <1>4 DEF Begin, TypeInv, QueuesOK, WorkersOK
  <2>3. i \in DOMAIN log /\ StreamOf(log[i].kind) = s
    BY <2>1, <2>2
  <2>4. Arranged(Handler(i), i, Whose(i))
    BY <2>2, <2>3, ArrangedHandler
  <2>5. /\ current' = [current EXCEPT ![s] = i] /\ work' = [work EXCEPT ![s] = Handler(i)]
        /\ log' = log
    BY <1>4, <2>1 DEF Begin
  <2>6. \A t \in Streams : \A j \in DOMAIN log : current'[t] = j => Arranged(work'[t], j, Whose(j))
    BY <2>2, <2>4, <2>5 DEF WorkArranged
  <2> QED BY <2>5, <2>6 DEF WorkArranged, Arranged, Whose, Own, Posted, StepAt, Human
<1>5. ASSUME NEW now \in 0 .. Len(log), Restart(now)
      PROVE  WorkArranged'
  <2>1. current' = [s \in Streams |-> 0] /\ log' = log /\ 0 \notin DOMAIN log
    BY <1>5 DEF Restart, TypeInv
  <2> QED BY <2>1 DEF WorkArranged
<1> QED BY <1>1, <1>2, <1>3, <1>4, <1>5 DEF Next

LEMMA OthersAhead ==
  ASSUME TypeInv, NEW s \in Streams, Busy(s), NEW rest, Proceed(s, rest),
         NEW i \in DOMAIN log, i # current[s]
  PROVE  /\ \A st : AheadOf(i, st) => AheadOf(i, st)'
         /\ InHand(i)' => InHand(i)
<1>1. 0 \notin DOMAIN log
  BY DEF TypeInv
<1>2. \A t \in Streams : t # s => current'[t] = current[t] /\ work'[t] = work[t]
  BY ProceedWork
<1>3. current'[s] # i
  BY <1>1, ProceedWork DEF Busy
<1>4. i \in done' => i \in done
  BY ProceedEnds
<1> QED BY <1>2, <1>3, <1>4 DEF AheadOf, InHand

\* What is left is ahead, unless the handler fails.
LEMMA OwnAhead ==
  ASSUME TypeInv, InOnePlace, NEW s \in Streams, Busy(s), NEW rest, Proceed(s, rest),
         NEW i, i = current[s]
  PROVE  \/ \A st : Holds(rest, st) => AheadOf(i, st)'
         \/ i \in failed' /\ ~InHand(i)'
<1>1. current \in [Streams -> DOMAIN log \union {0}] /\ DOMAIN work = Streams
        /\ i \in DOMAIN log /\ i # 0
  BY AtWork DEF TypeInv, WorkersOK
<1>2. CASE rest # << >> /\ work' = [work EXCEPT ![s] = rest] /\ current' = current
  <2>1. current'[s] = i /\ work'[s] = rest
    BY <1>1, <1>2
  <2> QED BY <2>1 DEF AheadOf, Holds
<1>3. CASE rest = << >>
  BY <1>3 DEF Holds
<1>4. CASE Fail(s, rest)
  <2>1. i \in failed' /\ done' = done /\ current' = [current EXCEPT ![s] = 0]
    BY <1>4 DEF Fail
  <2>2. i \notin done
    BY DEF InOnePlace
  <2>3. \A t \in Streams : t # s => current[t] # i
    <3> SUFFICES ASSUME NEW t \in Streams, t # s, current[t] = i PROVE FALSE
      OBVIOUS
    <3>1. Busy(t) /\ StreamOf(Event(t).kind) = t /\ StreamOf(Event(s).kind) = s
      BY <1>1 DEF TypeInv, WorkersOK, Busy
    <3> QED BY <3>1 DEF Event
  <2>4. \A t \in Streams : current'[t] # i
    BY <1>1, <2>1, <2>3
  <2> QED BY <2>1, <2>2, <2>4 DEF InHand
<1> QED BY <1>2, <1>3, <1>4 DEF Proceed

\* A statement other than the first stays ahead.
LEMMA RunAhead ==
  ASSUME TypeInv, InOnePlace, WorkArranged, NEW s \in Streams, Run(s), NEW i, i = current[s]
  PROVE  \/ /\ \A st : AheadOf(i, st) /\ Next1(s) # st => AheadOf(i, st)'
            /\ \A mk \in markers' \ markers : \A st :
                 Holds(FollowUps(mk, log[i]), st) => AheadOf(i, st)'
         \/ i \in failed' /\ ~InHand(i)'
<1>1. PICK T : T = StatementsOf(log[i].member, log)
  OBVIOUS
<1>2. /\ work[s] \in Seq(T) /\ work[s] # << >>
      /\ \E first \in Seq(T) :
              /\ Proceed(s, first \o Tail(work[s]))
              /\ \A mk \in markers' \ markers : first = FollowUps(mk, log[i])
  BY <1>1, RunFront
<1>3. PICK first \in Seq(T) :
              /\ Proceed(s, first \o Tail(work[s]))
              /\ \A mk \in markers' \ markers : first = FollowUps(mk, log[i])
  BY <1>2
<1>4. Busy(s) /\ i \in DOMAIN log
  BY RunLeaves, AtWork
<1>5. \A st : AheadOf(i, st) => Holds(work[s], st)
  <2>1. \A t \in Streams : current[t] = i => t = s
    <3> SUFFICES ASSUME NEW t \in Streams, current[t] = i PROVE t = s
      OBVIOUS
    <3>1. Busy(t) /\ StreamOf(Event(t).kind) = t /\ StreamOf(Event(s).kind) = s
      BY <1>4 DEF TypeInv, WorkersOK, Busy
    <3> QED BY <3>1 DEF Event
  <2> QED BY <2>1 DEF AheadOf
<1>6. \A st : Holds(work[s], st) /\ Next1(s) # st => Holds(Tail(work[s]), st)
  BY <1>2, ArrangedTail DEF Next1
<1> DEFINE last == Tail(work[s])
<1>7. last \in Seq(T)
  BY <1>2
<1> HIDE DEF last
<1>8. \A st : Holds(first, st) \/ Holds(last, st) => Holds(first \o last, st)
  BY <1>7, ArrangedBoth
<1>9. \/ \A st : Holds(first \o last, st) => AheadOf(i, st)'
      \/ i \in failed' /\ ~InHand(i)'
  BY <1>3, <1>4, OwnAhead DEF last
<1> QED BY <1>3, <1>5, <1>6, <1>8, <1>9 DEF last

-----------------------------------------------------------------------------
(* Activity and its markers, during a rebuild.                              *)

Active(i) == <<log[i].member, Day(log[i].at)>> \in activity
InScope(i) == Day(log[i].at) \in ActivityDays
MarksAwaited == Awaited("guild_daily_active_members")

\* A member's day of activity and its marker are there, or a handler or the
\* rebuild has still to make them.
ActivityFor(i) == Active(i) \/ AheadOf(i, Saying(i)) \/ (InScope(i) /\ ActivityAwaited)
MarkFor(i) == MarkedActive(i) \/ AheadOf(i, Whose(i)) \/ (InScope(i) /\ MarksAwaited)

\* Events that must have both.
Owed(i) ==
  \/ log[i].kind = "message" /\ i \in IndexedMessages /\ i \notin failed \union reindexed
  \/ /\ log[i].kind = "reaction" \/ (log[i].kind = "voiceLeave" /\ i \notin failed)
     /\ InHand(i) /\ (jobs = 0 \/ ~InScope(i))

ActiveInv == \A i \in DOMAIN log : Owed(i) => ActivityFor(i) /\ MarkFor(i)

\* A message is in the index once it is handled, unless a restart or a job put
\* it there.
IndexInv ==
  \A i \in DOMAIN log :
    log[i].kind = "message" /\ InHand(i) /\ i \notin failed \union reindexed
      => i \in IndexedMessages \/ AheadOf(i, IndexFirst(i))

\* What a job has found is in its scope and in the index, and is marked as
\* active when the job has derived the markers again.
Claimed(i) == i \in covered \/ (status = "running" /\ i \in covering)

CoveredInv ==
  \A i : Claimed(i) =>
    /\ i \in DOMAIN log /\ InScope(i) /\ i \in HumanMessages
    /\ Active(i) \/ ActivityAwaited
    /\ MarkedActive(i) \/ MarksAwaited

Begun == status # "idle" => jobs # 0

LEMMA IndexKept ==
  ASSUME TypeInv, NEW t, JobStepsAre(t)
  PROVE  IndexedMessages' = IndexedMessages /\ HumanMessages' = HumanMessages
<1>1. "message_index" \notin RebuiltTables
  BY RebuiltAre DEF FirstFilled, FilledFromThose, ByMember, Milestones
<1>2. \A mk : mk.table = "message_index" => (mk \in markers <=> mk \in markers')
  <2>1. CASE markers' = markers
    BY <2>1
  <2>2. CASE t \in RebuiltTables /\ Head(todo) = Do("deleteMarkers", t) /\ DeleteMarkers
    BY <1>1, <2>2, DeletionIs
  <2>3. CASE t \in RebuiltTables /\ Head(todo) = Insertion(t) /\ InsertMarkers
    BY <1>1, <2>3, InsertionIs
  <2> QED BY <2>1, <2>2, <2>3 DEF JobStepsAre, BreaksOff, tableVars
<1>3. IndexedMessages' = IndexedMessages
  BY <1>2 DEF IndexedMessages
<1>4. log' = log
  BY DEF JobStepsAre, BreaksOff, Goes
<1> QED BY <1>3, <1>4 DEF HumanMessages, Human

\* What a job's step makes of a day of activity and of its marker.
LEMMA ActivityRebuilt ==
  ASSUME TypeInv, JobOK, NEW t, JobStepsAre(t), NEW i \in DOMAIN log
  PROVE  /\ Active(i) => Active(i)' \/ (InScope(i) /\ ActivityAwaited')
         /\ ActivityAwaited /\ InScope(i) /\ i \in HumanMessages => ActivityAwaited' \/ Active(i)'
<1>1. log' = log
  BY DEF JobStepsAre, BreaksOff, Goes
<1>2. CASE BreaksOff
  BY <1>2, <1>1 DEF BreaksOff, tableVars, ActivityAwaited, Active
<1>3. CASE ~BreaksOff
  <2>1. Goes /\ todo # << >>
    BY <1>3 DEF JobStepsAre
  <2>2. /\ ActivityAwaited => ActivityAwaited' \/ Head(todo) = ActivityInsertion
        /\ Head(todo).op = "deleteActivity" => ActivityAwaited'
    BY <2>1, GoesAwaits
  <2> DEFINE a == <<log[i].member, Day(log[i].at)>>
  <2>3. a[2] = Day(log[i].at)
    OBVIOUS
  <2> HIDE DEF a
  <2>4. Active(i) <=> a \in activity
    BY DEF Active, a
  <2>5. Active(i)' <=> a \in activity'
    BY <1>1 DEF Active, a
  <2>6. Active(i) => Active(i)' \/ (InScope(i) /\ ActivityAwaited')
    <3>1. CASE DeleteActivity /\ Head(todo).op = "deleteActivity"
      BY <2>2, <2>3, <2>4, <2>5, <3>1 DEF DeleteActivity, InScope
    <3>2. CASE InsertActivity
      BY <2>4, <2>5, <3>2 DEF InsertActivity
    <3>3. CASE activity' = activity
      BY <2>4, <2>5, <3>3
    <3> QED BY <1>3, <3>1, <3>2, <3>3 DEF JobStepsAre
  <2>7. ASSUME Head(todo) = ActivityInsertion, InScope(i), i \in HumanMessages
        PROVE  Active(i)'
    <3>1. Head(todo).op = "insertActivity"
      BY <2>7, DoesNothingElse DEF ActivityInsertion
    <3>2. InsertActivity
      BY <1>3, <3>1, DoesNothingElse DEF JobStepsAre, Insertion
    <3>3. a \in ActivityFromMessages
      BY <2>3, <2>7 DEF ActivityFromMessages, InScope, a
    <3> QED BY <2>5, <3>2, <3>3 DEF InsertActivity
  <2> QED BY <2>2, <2>6, <2>7
<1> QED BY <1>2, <1>3

LEMMA MarksRebuilt ==
  ASSUME TypeInv, JobOK, NEW t, JobStepsAre(t), NEW i \in DOMAIN log
  PROVE  /\ MarkedActive(i) => MarkedActive(i)' \/ (InScope(i) /\ MarksAwaited')
         /\ MarksAwaited /\ InScope(i)
              => MarksAwaited' \/ MarkedActive(i)' \/ (~Active(i) /\ ~ActivityAwaited)
<1> DEFINE table == "guild_daily_active_members"
<1>1. log' = log
  BY DEF JobStepsAre, BreaksOff, Goes
<1>2. /\ table \in RebuiltTables /\ table \notin ByMember
      /\ \A mk : mk.table = table => (Concerned(mk) <=> mk.day \in ActivityDays)
  BY DEF RebuiltTables, ByMember, Concerned
<1>3. \A mk \in markers' : /\ mk.table = table /\ mk.member = log[i].member
                           /\ mk.day = Day(log[i].at)
                           => MarkedActive(i)'
  BY <1>1 DEF MarkedActive
<1>4. CASE BreaksOff
  BY <1>1, <1>4 DEF BreaksOff, tableVars, Awaited, MarksAwaited, MarkedActive
<1>5. CASE ~BreaksOff
  <2>1. Goes /\ todo # << >>
    BY <1>5 DEF JobStepsAre
  <2>2. /\ MarksAwaited => MarksAwaited' \/ Head(todo) = Insertion(table)
        /\ Head(todo) = Do("deleteMarkers", table) => MarksAwaited'
        /\ Head(todo) = Insertion(table) => ~ActivityAwaited
    BY <2>1, GoesAwaits DEF MarksAwaited
  <2>3. ASSUME NEW mk \in markers, mk.table = table, mk.member = log[i].member,
               mk.day = Day(log[i].at), mk \notin markers'
        PROVE  InScope(i) /\ MarksAwaited'
    <3>1. t \in RebuiltTables /\ Head(todo) = Do("deleteMarkers", t) /\ DeleteMarkers
      BY <1>5, <2>3, InsertionIs DEF JobStepsAre
    <3>2. mk.table = t /\ Concerned(mk)
      BY <2>3, <3>1, DeletionIs
    <3> QED BY <1>2, <2>2, <2>3, <3>1, <3>2 DEF InScope
  <2>4. MarkedActive(i) => MarkedActive(i)' \/ (InScope(i) /\ MarksAwaited')
    BY <1>3, <2>3 DEF MarkedActive
  <2>5. ASSUME Head(todo) = Insertion(table), InScope(i), Active(i)
        PROVE  MarkedActive(i)'
    <3>1. Head(todo).op = "insertMarkers"
      BY <2>5, DoesNothingElse DEF Insertion
    <3>2. InsertMarkers
      BY <1>5, <3>1, DoesNothingElse DEF JobStepsAre
    <3> DEFINE a == <<log[i].member, Day(log[i].at)>>
               mk == Marker(table, log[i].member, Whole, Day(log[i].at))
    <3>3. mk.table = table /\ mk.member = log[i].member /\ mk.day = Day(log[i].at)
      BY MarkIs
    <3>4. mk \in StartupMarkers(table, markers)
      <4>1. mk = Marker(table, a[1], Whole, a[2]) /\ a \in activity
        BY <2>5 DEF Active
      <4> HIDE DEF a, mk
      <4> QED BY <4>1 DEF StartupMarkers, ActiveMarkers
    <3>5. Concerned(mk)
      BY <1>2, <2>5, <3>3 DEF InScope
    <3> HIDE DEF mk
    <3>6. /\ mk \in markers' \/ \E old \in markers : SameKey(old, mk)
          /\ markers \subseteq markers'
      BY <1>2, <2>5, <3>2, <3>4, <3>5, InsertionIs
    <3>7. CASE mk \in markers'
      BY <1>3, <3>3, <3>7
    <3>8. CASE \E old \in markers : SameKey(old, mk)
      <4>1. PICK old \in markers : SameKey(old, mk)
        BY <3>8
      <4>2. old.table = table /\ old.member = log[i].member /\ old.day = Day(log[i].at)
        BY <1>2, <3>3, <4>1 DEF SameKey
      <4> QED BY <1>3, <3>6, <4>1, <4>2
    <3> QED BY <3>6, <3>7, <3>8
  <2> QED BY <2>2, <2>4, <2>5
<1> QED BY <1>4, <1>5

LEMMA ArrangedAhead ==
  ASSUME TypeInv, WorkArranged, NEW i \in DOMAIN log, AheadOf(i, Saying(i))
  PROVE  AheadOf(i, Whose(i))
<1>1. PICK s \in Streams : current[s] = i /\ Holds(work[s], Saying(i))
  BY DEF AheadOf
<1>2. Arranged(work[s], i, Whose(i)) /\ Saying(i).op = "activity"
  BY <1>1, StatementIs DEF WorkArranged, Saying
<1>3. Holds(work[s], Whose(i))
  BY <1>1, <1>2 DEF Arranged, Holds
<1> QED BY <1>1, <1>3 DEF AheadOf

LEMMA ActiveRebuilt ==
  ASSUME TypeInv, JobOK, Begun, WorkArranged, ActiveInv, NEW t, JobStepsAre(t)
  PROVE  ActiveInv'
<1>1. UNCHANGED <<log, workerVars, historyVars, reindexed, jobs>>
  BY DEF JobStepsAre, BreaksOff, Goes
<1>2. IndexedMessages' = IndexedMessages
  BY IndexKept
<1> SUFFICES ASSUME NEW i \in DOMAIN log, Owed(i)'
             PROVE  ActivityFor(i)' /\ MarkFor(i)'
  BY <1>1 DEF ActiveInv
<1>3. /\ \A st : AheadOf(i, st) => AheadOf(i, st)'
      /\ Saying(i)' = Saying(i) /\ Whose(i)' = Whose(i)
      /\ InScope(i)' = InScope(i)
  BY <1>1 DEF AheadOf, Saying, Whose, InScope, workerVars
<1>4. Owed(i)
  BY <1>1, <1>2, <1>3 DEF Owed, InHand, workerVars, historyVars
<1>5. ActivityFor(i) /\ MarkFor(i)
  BY <1>4 DEF ActiveInv
<1>6. CASE InScope(i) /\ ActivityAwaited
  <2>1. CASE BreaksOff
    <3>1. ActivityAwaited'
      BY <2>1 DEF BreaksOff, ActivityAwaited
    <3> QED BY <1>3, <1>5, <1>6, <2>1, <3>1, MarksRebuilt DEF ActivityFor, MarkFor
  <2>2. CASE ~BreaksOff
    <3>1. jobs # 0
      BY <2>2 DEF JobStepsAre, JobOK, Begun
    <3>2. i \in HumanMessages
      BY <1>4, <1>6, <3>1 DEF Owed, HumanMessages, Human
    <3>3. ActivityFor(i)'
      BY <1>3, <1>6, <3>2, ActivityRebuilt DEF ActivityFor
    <3>4. MarkFor(i)'
      BY <1>3, <1>5, <1>6, MarksRebuilt DEF MarkFor
    <3> QED BY <3>3, <3>4
  <2> QED BY <2>1, <2>2
<1>7. CASE Active(i)
  BY <1>3, <1>5, <1>7, ActivityRebuilt, MarksRebuilt DEF ActivityFor, MarkFor
<1>8. CASE AheadOf(i, Saying(i))
  <2>1. AheadOf(i, Whose(i))
    BY <1>8, ArrangedAhead
  <2> QED BY <1>3, <1>8, <2>1 DEF ActivityFor, MarkFor
<1> QED BY <1>5, <1>6, <1>7, <1>8 DEF ActivityFor

LEMMA CoveredRebuilt ==
  ASSUME TypeInv, JobOK, CoveredInv, NEW t, JobStepsAre(t)
  PROVE  CoveredInv'
<1>1. log' = log /\ HumanMessages' = HumanMessages
  BY IndexKept DEF JobStepsAre, BreaksOff, Goes
<1> SUFFICES ASSUME NEW i, Claimed(i)'
             PROVE  /\ i \in DOMAIN log /\ InScope(i)' /\ i \in HumanMessages
                    /\ Active(i)' \/ ActivityAwaited'
                    /\ MarkedActive(i)' \/ MarksAwaited'
  BY <1>1 DEF CoveredInv
<1>2. Claimed(i)
  <2>1. CASE BreaksOff
    BY <2>1 DEF BreaksOff, Claimed
  <2>2. CASE ~BreaksOff
    BY <2>2 DEF JobStepsAre, Goes, JobOK, Claimed
  <2> QED BY <2>1, <2>2
<1>3. /\ i \in DOMAIN log /\ InScope(i) /\ i \in HumanMessages
      /\ Active(i) \/ ActivityAwaited
      /\ MarkedActive(i) \/ MarksAwaited
  BY <1>2 DEF CoveredInv
<1>4. InScope(i)' = InScope(i)
  BY <1>1 DEF InScope
<1> QED BY <1>3, <1>4, ActivityRebuilt, MarksRebuilt

LEMMA IndexRebuilt ==
  ASSUME TypeInv, IndexInv, NEW t, JobStepsAre(t)
  PROVE  IndexInv'
<1>1. UNCHANGED <<log, workerVars, historyVars, reindexed>>
  BY DEF JobStepsAre, BreaksOff, Goes
<1> QED
  BY <1>1, IndexKept DEF IndexInv, InHand, AheadOf, IndexFirst, workerVars, historyVars

LEMMA AwaitsMore ==
  ASSUME JobOK,
         \/ BreaksOff \/ \E s \in Streams : Handling(s)
         \/ \E now \in 0 .. Len(log) : StartJob(now) \/ Dies(now)
  PROVE  (ActivityAwaited => ActivityAwaited') /\ (MarksAwaited => MarksAwaited')
<1>1. "guild_daily_active_members" \in RebuiltTables
  BY DEF RebuiltTables
<1> QED BY <1>1, OthersAwait DEF MarksAwaited

\* What is not lost while the tables only grow.
LEMMA ForKept ==
  ASSUME NEW i \in DOMAIN log, log' = log, activity \subseteq activity', markers \subseteq markers',
         ActivityAwaited => ActivityAwaited', MarksAwaited => MarksAwaited',
         AheadOf(i, Saying(i)) => AheadOf(i, Saying(i))' \/ Active(i)',
         AheadOf(i, Whose(i)) => AheadOf(i, Whose(i))' \/ MarkedActive(i)',
         ActivityFor(i), MarkFor(i)
  PROVE  ActivityFor(i)' /\ MarkFor(i)'
<1>1. (Active(i) => Active(i)') /\ (MarkedActive(i) => MarkedActive(i)')
  BY DEF Active, MarkedActive
<1>2. InScope(i)' = InScope(i)
  BY DEF InScope
<1> QED BY <1>1, <1>2 DEF ActivityFor, MarkFor

LEMMA IndexGrows ==
  ASSUME NEW i, i \in IndexedMessages', i \notin IndexedMessages
  PROVE  \E mk \in markers' \ markers : mk.table = "message_index" /\ mk.of = i
BY DEF IndexedMessages

LEMMA CoveredMore ==
  ASSUME JobOK, CoveredInv, log' = log, activity \subseteq activity', markers \subseteq markers',
         ActivityAwaited => ActivityAwaited', MarksAwaited => MarksAwaited',
         \A i : Claimed(i)' => Claimed(i)
  PROVE  CoveredInv'
<1> SUFFICES ASSUME NEW i, Claimed(i)
             PROVE  /\ i \in DOMAIN log /\ InScope(i)' /\ i \in HumanMessages'
                    /\ Active(i)' \/ ActivityAwaited'
                    /\ MarkedActive(i)' \/ MarksAwaited'
  BY DEF CoveredInv
<1>1. /\ i \in DOMAIN log /\ InScope(i) /\ i \in HumanMessages
      /\ Active(i) \/ ActivityAwaited
      /\ MarkedActive(i) \/ MarksAwaited
  BY DEF CoveredInv
<1>2. (Active(i) => Active(i)') /\ (MarkedActive(i) => MarkedActive(i)') /\ InScope(i)' = InScope(i)
  BY DEF Active, MarkedActive, InScope
<1>3. i \in HumanMessages'
  BY <1>1 DEF HumanMessages, IndexedMessages, Human
<1> QED BY <1>1, <1>2, <1>3

-----------------------------------------------------------------------------
(* Handlers at work.                                                        *)

\* What the statements about event i have done when they have run.
LEMMA RunSays ==
  ASSUME TypeInv, NEW s \in Streams, Run(s), NEW i, i = current[s]
  PROVE  /\ Next1(s) = Saying(i) => Active(i)'
         /\ Next1(s) = Whose(i) => MarkedActive(i)'
         /\ Next1(s) = IndexFirst(i) => i \in IndexedMessages'
<1>1. log' = log /\ Event(s) = log[i]
  BY RunKeeps DEF Event
<1>2. ASSUME Next1(s) = Saying(i)
      PROVE  Active(i)'
  <2>1. Next1(s).op = "activity" /\ Next1(s).arg = Day(log[i].at)
    BY <1>2, StatementIs DEF Saying
  <2>2. RunActivity(s)
    BY <2>1 DEF Run, RunUpsert, RunMark, RunMilestone, RunCount, RunRetention, RunContribution
  <2>3. activity' = activity \union {<<Event(s).member, Next1(s).arg>>}
    BY <2>2 DEF RunActivity
  <2> QED BY <1>1, <2>1, <2>3 DEF Active
<1>3. ASSUME NEW mk, Next1(s) = Mark(mk)
      PROVE  \E x \in markers' : SameKey(x, mk)
  <2>1. Next1(s).op = "mark" /\ Next1(s).arg = mk
    BY <1>3, StatementIs
  <2>2. RunMark(s)
    BY <2>1 DEF Run, RunUpsert, RunActivity, RunMilestone, RunCount, RunRetention, RunContribution
  <2>3. Insert(s, mk)
    BY <2>1, <2>2 DEF RunMark
  <2> QED BY <2>3 DEF Insert, SameKey
<1>4. ASSUME Next1(s) = Whose(i)
      PROVE  MarkedActive(i)'
  <2> DEFINE mk == Marker("guild_daily_active_members", log[i].member, Whole, Day(log[i].at))
  <2>1. PICK x \in markers' : SameKey(x, mk)
    BY <1>3, <1>4 DEF Whose
  <2>2. "guild_daily_active_members" \notin ByMember
    BY DEF ByMember
  <2>3. x.table = "guild_daily_active_members" /\ x.member = log[i].member /\ x.day = Day(log[i].at)
    BY <2>1, <2>2, MarkIs DEF SameKey
  <2> QED BY <1>1, <2>3 DEF MarkedActive
<1>5. ASSUME Next1(s) = IndexFirst(i)
      PROVE  i \in IndexedMessages'
  <2> DEFINE mk == Marker("message_index", log[i].member, i, Day(log[i].at))
  <2>1. PICK x \in markers' : SameKey(x, mk)
    BY <1>3, <1>5 DEF IndexFirst
  <2>2. x.table = "message_index" /\ x.of = i
    BY <2>1, MarkIs DEF SameKey
  <2> QED BY <2>2 DEF IndexedMessages
<1> QED BY <1>2, <1>4, <1>5

\* For the event at work, unless its handler fails.
LEMMA OwnRun ==
  ASSUME TypeInv, InOnePlace, WorkArranged, ActiveInv, IndexInv,
         NEW s \in Streams, Run(s), NEW i, i = current[s],
         jobs' = jobs, reindexed' = reindexed,
         ActivityAwaited => ActivityAwaited', MarksAwaited => MarksAwaited'
  PROVE  /\ Owed(i)' => ActivityFor(i)' /\ MarkFor(i)'
         /\ log[i].kind = "message" /\ InHand(i)' /\ i \notin failed' \union reindexed'
              => i \in IndexedMessages' \/ AheadOf(i, IndexFirst(i))'
<1>1. /\ log' = log /\ markers \subseteq markers' /\ activity \subseteq activity'
      /\ Busy(s) /\ i \in DOMAIN log /\ log \in Seq(Happenings)
  BY RunKeeps, RunLeaves, AtWork DEF TypeInv
<1>2. Saying(i)' = Saying(i) /\ Whose(i)' = Whose(i) /\ IndexFirst(i)' = IndexFirst(i)
      /\ InScope(i)' = InScope(i)
  BY <1>1 DEF Saying, Whose, IndexFirst, InScope
<1>3. failed \subseteq failed'
  BY RunLeaves, ProceedEnds DEF RunRetention, RunContribution
<1>4. InHand(i)
  BY DEF InHand
<1>5. CASE i \in failed' /\ ~InHand(i)'
  BY <1>1, <1>5 DEF Owed
<1>6. CASE /\ \A st : AheadOf(i, st) /\ Next1(s) # st => AheadOf(i, st)'
           /\ \A mk \in markers' \ markers : \A st :
                 Holds(FollowUps(mk, log[i]), st) => AheadOf(i, st)'
  <2>1. /\ \A st : st = Saying(i) => (AheadOf(i, st) => AheadOf(i, st)' \/ Active(i)')
        /\ \A st : st = Whose(i) => (AheadOf(i, st) => AheadOf(i, st)' \/ MarkedActive(i)')
        /\ \A st : st = IndexFirst(i) =>
             (AheadOf(i, st) => AheadOf(i, st)' \/ i \in IndexedMessages')
    BY <1>6, RunSays
  <2>2. /\ AheadOf(i, Saying(i)) => AheadOf(i, Saying(i))' \/ Active(i)'
        /\ AheadOf(i, Whose(i)) => AheadOf(i, Whose(i))' \/ MarkedActive(i)'
        /\ AheadOf(i, IndexFirst(i)) => AheadOf(i, IndexFirst(i))' \/ i \in IndexedMessages'
    BY <1>2, <2>1 DEF AheadOf
  <2>3. IndexedMessages \subseteq IndexedMessages'
    BY <1>1 DEF IndexedMessages
  <2>4. log[i].kind = "message" /\ InHand(i)' /\ i \notin failed' \union reindexed'
              => i \in IndexedMessages' \/ AheadOf(i, IndexFirst(i))'
    BY <1>1, <1>3, <1>4, <2>2, <2>3 DEF IndexInv
  <2>5. ASSUME Owed(i)
        PROVE  ActivityFor(i)' /\ MarkFor(i)'
    <3>1. ActivityFor(i) /\ MarkFor(i)
      BY <1>1, <2>5 DEF ActiveInv
    <3> QED BY <1>1, <2>2, <3>1, ForKept
  <2>6. ASSUME Owed(i)', ~Owed(i)
        PROVE  ActivityFor(i)' /\ MarkFor(i)'
    <3>1. log[i].kind = "message" /\ i \in IndexedMessages' /\ i \notin IndexedMessages
      BY <1>1, <1>2, <1>3, <1>4, <2>6 DEF Owed
    <3>2. PICK mk \in markers' \ markers : mk.table = "message_index"
      BY <3>1, IndexGrows
    <3>3. mk \in MarkersOf(log)
      <4>1. TypeInv'
        BY AllRunTypes
      <4> QED BY <1>1, <4>1 DEF TypeInv, MemberTablesOK
    <3>4. Holds(FollowUps(mk, log[i]), Saying(i)) /\ Holds(FollowUps(mk, log[i]), Whose(i))
      BY <1>1, <3>1, <3>2, <3>3, ArrangedFollow DEF Posted
    <3>5. \A st : st = Saying(i) \/ st = Whose(i) => AheadOf(i, st)'
      BY <1>6, <3>4
    <3>6. AheadOf(i, Saying(i))' /\ AheadOf(i, Whose(i))'
      BY <1>2, <3>5 DEF AheadOf
    <3> QED BY <3>6 DEF ActivityFor, MarkFor
  <2> QED BY <2>4, <2>5, <2>6
<1> QED BY <1>5, <1>6, RunAhead

\* For an event that no handler leaves or takes up.
LEMMA OtherEvents ==
  ASSUME TypeInv, ActiveInv, IndexInv, NEW i \in DOMAIN log,
         log' = log, markers \subseteq markers', activity \subseteq activity',
         i \in IndexedMessages' => i \in IndexedMessages,
         failed \subseteq failed', jobs' = jobs, reindexed' = reindexed,
         ActivityAwaited => ActivityAwaited', MarksAwaited => MarksAwaited',
         \A st : AheadOf(i, st) => AheadOf(i, st)', InHand(i)' => InHand(i)
  PROVE  /\ Owed(i)' => ActivityFor(i)' /\ MarkFor(i)'
         /\ log[i].kind = "message" /\ InHand(i)' /\ i \notin failed' \union reindexed'
              => i \in IndexedMessages' \/ AheadOf(i, IndexFirst(i))'
<1>1. Saying(i)' = Saying(i) /\ Whose(i)' = Whose(i) /\ IndexFirst(i)' = IndexFirst(i)
      /\ InScope(i)' = InScope(i)
  BY DEF Saying, Whose, IndexFirst, InScope
<1>2. /\ AheadOf(i, Saying(i)) => AheadOf(i, Saying(i))'
      /\ AheadOf(i, Whose(i)) => AheadOf(i, Whose(i))'
      /\ AheadOf(i, IndexFirst(i)) => AheadOf(i, IndexFirst(i))'
  BY <1>1 DEF AheadOf
<1>3. Owed(i)' => Owed(i)
  BY <1>1 DEF Owed
<1>4. Owed(i) => ActivityFor(i) /\ MarkFor(i)
  BY DEF ActiveInv
<1>5. ActivityFor(i) /\ MarkFor(i) => ActivityFor(i)' /\ MarkFor(i)'
  BY <1>2, ForKept
<1>6. IndexedMessages \subseteq IndexedMessages'
  BY DEF IndexedMessages
<1>7. log[i].kind = "message" /\ InHand(i)' /\ i \notin failed' \union reindexed'
              => i \in IndexedMessages' \/ AheadOf(i, IndexFirst(i))'
  BY <1>2, <1>6 DEF IndexInv
<1> QED BY <1>3, <1>4, <1>5, <1>7

LEMMA ForgottenRun ==
  ASSUME TypeInv, JobOK, InOnePlace, WorkArranged, ActiveInv, IndexInv, CoveredInv,
         NEW s \in Streams, Run(s), Handling(s)
  PROVE  ActiveInv' /\ IndexInv' /\ CoveredInv'
<1>1. /\ log' = log /\ markers \subseteq markers' /\ activity \subseteq activity'
      /\ Busy(s) /\ jobs' = jobs
  BY RunKeeps, RunLeaves DEF Handling
<1>2. (ActivityAwaited => ActivityAwaited') /\ (MarksAwaited => MarksAwaited')
  BY AwaitsMore
<1>3. reindexed' = reindexed
  BY DEF Run, RunUpsert, RunActivity, RunMark, RunMilestone, RunCount, RunRetention,
         RunContribution, Insert, tableVars
<1>4. PICK rest : Proceed(s, rest)
  BY RunLeaves DEF RunRetention, RunContribution
<1>5. failed \subseteq failed'
  BY <1>4, ProceedEnds
<1>6. ASSUME NEW i \in DOMAIN log
      PROVE  /\ Owed(i)' => ActivityFor(i)' /\ MarkFor(i)'
             /\ log[i].kind = "message" /\ InHand(i)' /\ i \notin failed' \union reindexed'
                  => i \in IndexedMessages' \/ AheadOf(i, IndexFirst(i))'
  <2>1. CASE i = current[s]
    BY <1>1, <1>2, <1>3, <2>1, OwnRun
  <2>2. CASE i # current[s]
    <3>1. i \in IndexedMessages' => i \in IndexedMessages
      BY <2>2, IndexGrows, RunIndexes
    <3>2. (\A st : AheadOf(i, st) => AheadOf(i, st)') /\ (InHand(i)' => InHand(i))
      BY <1>1, <1>4, <2>2, OthersAhead
    <3> QED BY <1>1, <1>2, <1>3, <1>5, <3>1, <3>2, OtherEvents
  <2> QED BY <2>1, <2>2
<1>7. CoveredInv'
  BY <1>1, <1>2, CoveredMore DEF Claimed, Handling
<1> QED BY <1>1, <1>6, <1>7 DEF ActiveInv, IndexInv

LEMMA ForgottenFails ==
  ASSUME TypeInv, JobOK, InOnePlace, ActiveInv, IndexInv, CoveredInv,
         NEW s \in Streams, StatementFails(s), Handling(s)
  PROVE  ActiveInv' /\ IndexInv' /\ CoveredInv'
<1>1. /\ log' = log /\ UNCHANGED <<markers, activity, reindexed>>
      /\ Busy(s) /\ jobs' = jobs /\ Proceed(s, work[s])
  BY DEF Handling, StatementFails, Fail, tableVars, Proceed
<1>2. (ActivityAwaited => ActivityAwaited') /\ (MarksAwaited => MarksAwaited')
  BY AwaitsMore
<1>3. failed \subseteq failed'
  BY <1>1, ProceedEnds
<1>4. IndexedMessages' = IndexedMessages
  BY <1>1 DEF IndexedMessages
<1>5. ASSUME NEW i \in DOMAIN log
      PROVE  /\ Owed(i)' => ActivityFor(i)' /\ MarkFor(i)'
             /\ log[i].kind = "message" /\ InHand(i)' /\ i \notin failed' \union reindexed'
                  => i \in IndexedMessages' \/ AheadOf(i, IndexFirst(i))'
  <2>1. CASE i = current[s]
    <3>1. InHand(i)
      BY <2>1 DEF InHand
    <3>2. CASE i \in failed' /\ ~InHand(i)'
      BY <1>1, <3>2 DEF Owed
    <3>3. CASE \A st : Holds(work[s], st) => AheadOf(i, st)'
      <4>1. \A st : AheadOf(i, st) => Holds(work[s], st)
        <5>1. \A t \in Streams : current[t] = i => t = s
          <6> SUFFICES ASSUME NEW t \in Streams, current[t] = i PROVE t = s
            OBVIOUS
          <6>1. Busy(t) /\ StreamOf(Event(t).kind) = t /\ StreamOf(Event(s).kind) = s
            BY <1>1, <2>1 DEF TypeInv, WorkersOK, Busy
          <6> QED BY <2>1, <6>1 DEF Event
        <5> QED BY <5>1 DEF AheadOf
      <4> QED BY <1>1, <1>2, <1>3, <1>4, <3>1, <3>3, <4>1, OtherEvents
    <3> QED BY <1>1, <2>1, <3>2, <3>3, OwnAhead
  <2>2. CASE i # current[s]
    <3>1. (\A st : AheadOf(i, st) => AheadOf(i, st)') /\ (InHand(i)' => InHand(i))
      BY <1>1, <2>2, OthersAhead
    <3> QED BY <1>1, <1>2, <1>3, <1>4, <3>1, OtherEvents
  <2> QED BY <2>1, <2>2
<1>6. CoveredInv'
  BY <1>1, <1>2, CoveredMore DEF Claimed, Handling
<1> QED BY <1>1, <1>5, <1>6 DEF ActiveInv, IndexInv

LEMMA ForgottenBegin ==
  ASSUME TypeInv, JobOK, ActiveInv, IndexInv, CoveredInv,
         NEW s \in Streams, Begin(s), Handling(s)
  PROVE  ActiveInv' /\ IndexInv' /\ CoveredInv'
<1>1. UNCHANGED <<log, markers, activity, reindexed, jobs, failed, done>> /\ ~Busy(s)
  BY DEF Handling, Begin, tableVars, historyVars
<1>2. (ActivityAwaited => ActivityAwaited') /\ (MarksAwaited => MarksAwaited')
  BY AwaitsMore
<1>3. IndexedMessages' = IndexedMessages
  BY <1>1 DEF IndexedMessages
<1>4. PICK i : i = Head(queue[s])
  OBVIOUS
<1>5. /\ current' = [current EXCEPT ![s] = i] /\ work' = [work EXCEPT ![s] = Handler(i)]
      /\ queue[s] # << >>
  BY <1>4 DEF Begin
<1>6. /\ queue[s] \in Seq(DOMAIN log) /\ \A k \in DOMAIN queue[s] : StreamOf(log[queue[s][k]].kind) = s
      /\ current \in [Streams -> DOMAIN log \union {0}] /\ DOMAIN work = Streams
      /\ log \in Seq(Happenings) /\ 0 \notin DOMAIN log
  BY DEF TypeInv, QueuesOK, WorkersOK
<1>7. i \in DOMAIN log /\ StreamOf(log[i].kind) \in Streams
  BY <1>4, <1>5, <1>6
<1>8. ASSUME NEW j \in DOMAIN log
      PROVE  /\ \A st : AheadOf(j, st) => AheadOf(j, st)'
             /\ j # i => (InHand(j)' => InHand(j))
  <2>1. current[s] # j
    BY <1>1, <1>6 DEF Busy
  <2>2. \A t \in Streams : t # s => current'[t] = current[t] /\ work'[t] = work[t]
    BY <1>5, <1>6
  <2>3. current'[s] = i
    BY <1>5, <1>6
  <2> QED BY <1>1, <2>1, <2>2, <2>3 DEF AheadOf, InHand
<1>9. ASSUME NEW st, Holds(Handler(i), st)
      PROVE  AheadOf(i, st)'
  <2>1. current'[s] = i /\ work'[s] = Handler(i)
    BY <1>5, <1>6
  <2>2. Holds(work'[s], st)
    BY <1>9, <2>1
  <2> QED BY <2>1, <2>2 DEF AheadOf, Holds
<1>10. ASSUME NEW j \in DOMAIN log
       PROVE  /\ Owed(j)' => ActivityFor(j)' /\ MarkFor(j)'
              /\ log[j].kind = "message" /\ InHand(j)' /\ j \notin failed' \union reindexed'
                   => j \in IndexedMessages' \/ AheadOf(j, IndexFirst(j))'
  <2>1. CASE InHand(j)' => InHand(j)
    BY <1>1, <1>2, <1>3, <1>8, <2>1, OtherEvents
  <2>2. CASE j = i
    <3>1. Saying(i)' = Saying(i) /\ Whose(i)' = Whose(i) /\ IndexFirst(i)' = IndexFirst(i)
      BY <1>1 DEF Saying, Whose, IndexFirst
    <3>2. /\ log[i].kind = "message" => Holds(Handler(i), IndexFirst(i))
          /\ log[i].kind \in {"reaction", "voiceLeave"} =>
               Holds(Handler(i), Saying(i)) /\ Holds(Handler(i), Whose(i))
      BY <1>6, <1>7, ArrangedHandler
    <3>3. /\ log[i].kind = "message" => AheadOf(i, IndexFirst(i))'
          /\ log[i].kind \in {"reaction", "voiceLeave"} =>
               AheadOf(i, Saying(i))' /\ AheadOf(i, Whose(i))'
      <4>1. \A st : /\ st = IndexFirst(i) /\ log[i].kind = "message" => AheadOf(i, st)'
                    /\ st = Saying(i) \/ st = Whose(i) =>
                        (log[i].kind \in {"reaction", "voiceLeave"} => AheadOf(i, st)')
        BY <1>9, <3>2
      <4> QED BY <3>1, <4>1 DEF AheadOf
    <3>4. CASE log[i].kind = "message"
      <4>1. Owed(i)' => Owed(i)
        BY <1>1, <1>3, <3>4 DEF Owed
      <4>2. Owed(i)' => ActivityFor(i) /\ MarkFor(i)
        BY <1>7, <4>1 DEF ActiveInv
      <4>3. /\ AheadOf(i, Saying(i)) => AheadOf(i, Saying(i))'
            /\ AheadOf(i, Whose(i)) => AheadOf(i, Whose(i))'
        <5>1. \A st : AheadOf(i, st) => AheadOf(i, st)'
          BY <1>7, <1>8
        <5> QED BY <3>1, <5>1 DEF AheadOf
      <4>4. Owed(i)' => ActivityFor(i)' /\ MarkFor(i)'
        BY <1>1, <1>2, <1>7, <4>2, <4>3, ForKept
      <4> QED BY <2>2, <3>3, <3>4, <4>4
    <3>5. CASE log[i].kind # "message"
      BY <1>1, <2>2, <3>3, <3>5 DEF Owed, ActivityFor, MarkFor
    <3> QED BY <3>4, <3>5
  <2> QED BY <1>8, <2>1, <2>2
<1>11. CoveredInv'
  BY <1>1, <1>2, CoveredMore DEF Claimed, Handling
<1> QED BY <1>1, <1>10, <1>11 DEF ActiveInv, IndexInv

\* A leave that finds its session closed had failed, and is owed nothing.
LEMMA ForgottenClosed ==
  ASSUME TypeInv, JobOK, ActiveInv, IndexInv, CoveredInv,
         NEW s \in Streams, FindsClosed(s), Handling(s)
  PROVE  ActiveInv' /\ IndexInv' /\ CoveredInv'
<1>1. UNCHANGED <<log, current, work, markers, activity, reindexed, jobs, failed>>
  BY DEF Handling, FindsClosed, tableVars
<1>2. (ActivityAwaited => ActivityAwaited') /\ (MarksAwaited => MarksAwaited')
  BY AwaitsMore
<1>3. IndexedMessages' = IndexedMessages
  BY <1>1 DEF IndexedMessages
<1>4. PICK i : i = Head(queue[s])
  OBVIOUS
<1>5. log[i].kind = "voiceLeave" /\ i \in failed /\ done' = done \union {i}
  BY <1>4 DEF FindsClosed
<1>6. ASSUME NEW j \in DOMAIN log
      PROVE  /\ Owed(j)' => ActivityFor(j)' /\ MarkFor(j)'
             /\ log[j].kind = "message" /\ InHand(j)' /\ j \notin failed' \union reindexed'
                  => j \in IndexedMessages' \/ AheadOf(j, IndexFirst(j))'
  <2>1. CASE j = i
    BY <1>1, <1>5, <2>1 DEF Owed
  <2>2. CASE j # i
    <3>1. InHand(j)' => InHand(j)
      BY <1>1, <1>5, <2>2 DEF InHand
    <3>2. \A st : AheadOf(j, st) => AheadOf(j, st)'
      BY <1>1 DEF AheadOf
    <3> QED BY <1>1, <1>2, <1>3, <3>1, <3>2, OtherEvents
  <2> QED BY <2>1, <2>2
<1>7. CoveredInv'
  BY <1>1, <1>2, CoveredMore DEF Claimed, Handling
<1> QED BY <1>1, <1>6, <1>7 DEF ActiveInv, IndexInv

-----------------------------------------------------------------------------
(* Jobs that start, and restarts.                                           *)

LEMMA DayOrder ==
  ASSUME NEW a \in Nat, NEW b \in Nat, a <= b
  PROVE  Day(a) <= Day(b) /\ Day(a) \in Nat
BY DEF Day, PerDay

LEMMA ForgottenStarts ==
  ASSUME TypeInv, JobOK, ActiveInv, IndexInv, CoveredInv, Begun,
         NEW now \in 0 .. Len(log), StartJob(now)
  PROVE  ActiveInv' /\ IndexInv' /\ CoveredInv' /\ Begun'
<1> DEFINE found == {i \in 1 .. now : log[i].kind \in {"message", "botMessage", "missedMessage"}
                                       /\ InTime(i)}
           new == found \ IndexedMessages
<1>1. /\ UNCHANGED <<log, workerVars, historyVars, activity, covered>>
      /\ markers' = markers \union
                    {Marker("message_index", log[i].member, i, Day(log[i].at)) : i \in new}
      /\ reindexed' = reindexed \union new
      /\ covering' = {i \in found : Human(i)}
      /\ jobs' = IF status = "idle" THEN jobs + 1 ELSE jobs
      /\ status \in {"idle", "broken"}
  BY DEF StartJob
<1>2. jobs' # 0
  BY <1>1 DEF JobOK, Begun
<1>3. ActivityAwaited' /\ MarksAwaited'
  <2>1. "guild_daily_active_members" \in RebuiltTables
    BY DEF RebuiltTables
  <2> QED BY <2>1, StartAwaits DEF MarksAwaited
<1>4. found \subseteq DOMAIN log /\ log \in Seq(Happenings)
  BY DEF TypeInv
<1>5. IndexedMessages' = IndexedMessages \union new
  BY <1>1, MarkIs DEF IndexedMessages
<1>6. ASSUME NEW i \in found
      PROVE  InScope(i)
  <2>1. log[i].at \in From .. To /\ log[i].at \in Nat
    BY <1>4, EventsAre, TimesAre DEF InTime
  <2>2. From \in Nat /\ To \in Nat
    BY RebuildAssumption
  <2>3. PICK t \in Nat : t = log[i].at
    BY <2>1
  <2>4. From <= t /\ t <= To
    BY <2>1, <2>2, <2>3
  <2>5. Day(From) <= Day(t) /\ Day(From) \in Nat
    BY <2>2, <2>4, DayOrder
  <2>6. Day(t) <= Day(To) /\ Day(t) \in Nat /\ Day(To) \in Nat
    <3>1. To <= To
      BY <2>2
    <3> QED BY <2>2, <2>4, <3>1, DayOrder
  <2> QED BY <2>3, <2>5, <2>6 DEF InScope, ActivityDays
<1> HIDE DEF found, new
<1>7. new \subseteq found /\ found \subseteq IndexedMessages'
  BY <1>5 DEF new
<1>8. markers \subseteq markers'
  BY <1>1
<1>9. ASSUME NEW i \in DOMAIN log
      PROVE  /\ Owed(i)' => ActivityFor(i)' /\ MarkFor(i)'
             /\ log[i].kind = "message" /\ InHand(i)' /\ i \notin failed' \union reindexed'
                  => i \in IndexedMessages' \/ AheadOf(i, IndexFirst(i))'
  <2>1. UNCHANGED <<current, work, done, failed>>
    BY <1>1 DEF workerVars, historyVars
  <2>2. /\ Saying(i)' = Saying(i) /\ Whose(i)' = Whose(i) /\ IndexFirst(i)' = IndexFirst(i)
        /\ InScope(i)' = InScope(i)
    BY <1>1 DEF Saying, Whose, IndexFirst, InScope
  <2>3. /\ AheadOf(i, Saying(i)) => AheadOf(i, Saying(i))'
        /\ AheadOf(i, Whose(i)) => AheadOf(i, Whose(i))'
        /\ AheadOf(i, IndexFirst(i)) => AheadOf(i, IndexFirst(i))'
    BY <2>1, <2>2 DEF AheadOf
  <2>4. Owed(i)' => Owed(i)
    BY <1>1, <1>2, <1>5, <2>1, <2>2 DEF Owed, InHand
  <2>5. Owed(i) => ActivityFor(i) /\ MarkFor(i)
    BY DEF ActiveInv
  <2>6. Owed(i)' => ActivityFor(i)' /\ MarkFor(i)'
    BY <1>1, <1>3, <1>8, <2>3, <2>4, <2>5, ForKept
  <2>7. log[i].kind = "message" /\ InHand(i)' /\ i \notin failed' \union reindexed'
                  => i \in IndexedMessages' \/ AheadOf(i, IndexFirst(i))'
    BY <1>1, <1>5, <2>1, <2>3 DEF IndexInv, InHand
  <2> QED BY <2>6, <2>7
<1>10. CoveredInv'
  <2> SUFFICES ASSUME NEW i, i \in covered \union covering'
               PROVE  i \in DOMAIN log /\ InScope(i) /\ i \in HumanMessages'
    BY <1>1, <1>3 DEF CoveredInv, Claimed, InScope
  <2>1. CASE i \in covered
    <3>1. i \in DOMAIN log /\ InScope(i) /\ i \in HumanMessages
      BY <2>1 DEF CoveredInv, Claimed
    <3>2. i \in HumanMessages'
      BY <1>1, <1>5, <3>1 DEF HumanMessages, Human
    <3> QED BY <3>1, <3>2
  <2>2. CASE i \in covering'
    <3>1. i \in found /\ Human(i)
      BY <1>1, <2>2
    <3>2. i \in HumanMessages'
      BY <1>1, <1>7, <3>1 DEF HumanMessages, Human
    <3> QED BY <1>4, <1>6, <3>1, <3>2
  <2> QED BY <2>1, <2>2
<1> QED BY <1>1, <1>2, <1>9, <1>10 DEF ActiveInv, IndexInv, Begun

\* Nothing that startup fills is the index.
LEMMA FillsNoIndex ==
  ASSUME RowsOK, NEW mks \in SUBSET MarkersOf(log), NEW mk \in FillAll(mks),
         mk.table = "message_index"
  PROVE  mk \in mks
<1>1. ASSUME NEW some \in SUBSET MarkersOf(log),
             NEW tables \in SUBSET (FirstFilled \union FilledFromThose)
      PROVE  /\ FillMarkers(tables, some) \in SUBSET MarkersOf(log)
             /\ \A x \in FillMarkers(tables, some) : x.table = "message_index" => x \in some
  <2>1. FillMarkers(tables, some) \in SUBSET MarkersOf(log)
    BY FillMarkersAre
  <2>2. \A t \in tables : \A x \in StartupMarkers(t, some) : x.table = t
    BY StartupMarkersAre
  <2>3. "message_index" \notin FirstFilled \union FilledFromThose
    BY DEF FirstFilled, FilledFromThose, ByMember, Milestones
  <2> QED BY <2>1, <2>2, <2>3 DEF FillMarkers
<1> DEFINE first == FillMarkers(FirstFilled, mks)
           filled == FillMarkers(FilledFromThose, first)
<1>2. mk \in filled
  BY DEF FillAll
<1> HIDE DEF first, filled
<1>3. first \in SUBSET MarkersOf(log) /\ \A x \in first : x.table = "message_index" => x \in mks
  BY <1>1 DEF first
<1>4. \A x \in filled : x.table = "message_index" => x \in first
  BY <1>1, <1>3 DEF filled
<1> QED BY <1>2, <1>3, <1>4

\* What startup puts into the index is known to be reindexed.
LEMMA RestartIndexes ==
  ASSUME TypeInv, NEW now \in 0 .. Len(log), Restart(now), NEW i, i \in IndexedMessages'
  PROVE  i \in IndexedMessages \/ i \in reindexed'
<1> DEFINE known == markers \union Indexed(now)
<1>1. /\ markers' = FillAll(known)
      /\ reindexed' = reindexed \union {x.of : x \in Indexed(now) \ markers}
  BY DEF Restart, MarkersAtStart
<1>2. RowsOK /\ log \in Seq(Happenings)
  BY TypedRows DEF TypeInv
<1>3. known \in SUBSET MarkersOf(log)
  BY <1>2, IndexedAre DEF TypeInv, MemberTablesOK
<1>4. PICK mk \in markers' : mk.table = "message_index" /\ mk.of = i
  BY DEF IndexedMessages
<1>5. mk \in known
  <2> HIDE DEF known
  <2> QED BY <1>1, <1>2, <1>3, <1>4, FillsNoIndex
<1> QED BY <1>1, <1>4, <1>5 DEF IndexedMessages

LEMMA ForgottenDies ==
  ASSUME TypeInv, JobOK, InOnePlace, ActiveInv, IndexInv, CoveredInv,
         NEW now \in 0 .. Len(log), Dies(now)
  PROVE  ActiveInv' /\ IndexInv' /\ CoveredInv'
<1>1. /\ UNCHANGED <<log, activity, done, jobs, covering, covered>> /\ Restart(now)
      /\ current' = [s \in Streams |-> 0] /\ failed' = failed \union (Range(current) \ {0})
      /\ reindexed \subseteq reindexed' /\ markers' = MarkersAtStart(now)
      /\ 0 \notin DOMAIN log /\ DOMAIN current = Streams
  BY DEF Dies, Restart, TypeInv, WorkersOK
<1>2. (ActivityAwaited => ActivityAwaited') /\ (MarksAwaited => MarksAwaited')
  BY AwaitsMore
<1>3. markers \subseteq markers'
  BY <1>1, MarkersAtStartAre
<1>4. ASSUME NEW i \in DOMAIN log
      PROVE  /\ Owed(i)' => ActivityFor(i)' /\ MarkFor(i)'
             /\ log[i].kind = "message" /\ InHand(i)' /\ i \notin failed' \union reindexed'
                  => i \in IndexedMessages' \/ AheadOf(i, IndexFirst(i))'
  <2>1. InHand(i)' => i \in done
    BY <1>1 DEF InHand
  <2>2. \A s \in Streams : current[s] = i => i \in failed' /\ i \notin done
    <3> SUFFICES ASSUME NEW s \in Streams, current[s] = i
                 PROVE  i \in failed' /\ i \notin done
      OBVIOUS
    <3>1. Busy(s)
      BY <1>1 DEF Busy
    <3>2. i \notin done
      BY <3>1 DEF InOnePlace
    <3> QED BY <1>1, <3>1, <3>2 DEF Range, Busy
  <2>3. \A st : AheadOf(i, st) => i \in failed' /\ i \notin done
    BY <2>2 DEF AheadOf
  <2>4. InScope(i)' = InScope(i)
    BY <1>1 DEF InScope
  <2>5. Owed(i)' => Owed(i) /\ (i \notin failed' \/ i \in done)
    BY <1>1, <2>1, <2>4, RestartIndexes DEF Owed, InHand
  <2>6. Owed(i) => ActivityFor(i) /\ MarkFor(i)
    BY DEF ActiveInv
  <2>7. ASSUME Owed(i)'
        PROVE  ActivityFor(i)' /\ MarkFor(i)'
    <3>1. ActivityFor(i) /\ MarkFor(i) /\ \A st : ~AheadOf(i, st)
      BY <2>3, <2>5, <2>6, <2>7
    <3> QED BY <1>1, <1>2, <1>3, <3>1, ForKept
  <2>8. IndexedMessages \subseteq IndexedMessages'
    BY <1>3 DEF IndexedMessages
  <2>9. log[i].kind = "message" /\ InHand(i)' /\ i \notin failed' \union reindexed'
                  => i \in IndexedMessages' \/ AheadOf(i, IndexFirst(i))'
    BY <1>1, <2>1, <2>3, <2>8 DEF IndexInv, InHand
  <2> QED BY <2>7, <2>9
<1>5. \A i : Claimed(i)' => Claimed(i)
  BY <1>1 DEF Claimed, Dies
<1>6. CoveredInv'
  BY <1>1, <1>2, <1>3, <1>5, CoveredMore
<1> QED BY <1>1, <1>4, <1>6 DEF ActiveInv, IndexInv

-----------------------------------------------------------------------------
(* Where the members' rows have their dates from.                           *)

\* An event that was looked at dates the step of member m at t.
Dated(m, step, t) ==
  \E j \in Handled \union IndexedMessages :
    log[j].member = m /\ StepAt(j) = step /\ log[j].at = t

LifecycleDated ==
  \A m \in Members : \A step \in Milestones :
    lifecycle[m][step] # None => Dated(m, step, lifecycle[m][step])

LEMMA DatedMore ==
  ASSUME log' = log, Handled \subseteq Handled', IndexedMessages \subseteq IndexedMessages'
  PROVE  \A m, step, t : Dated(m, step, t) => Dated(m, step, t)'
BY DEF Dated, StepAt, Human

LEMMA DatesKept ==
  ASSUME LifecycleDated, log' = log, lifecycle' = lifecycle,
         Handled \subseteq Handled', IndexedMessages \subseteq IndexedMessages'
  PROVE  LifecycleDated'
<1> SUFFICES ASSUME NEW m \in Members, NEW step \in Milestones, lifecycle[m][step] # None
             PROVE  \A t : t = lifecycle[m][step] => Dated(m, step, t)'
  BY DEF LifecycleDated, Dated
<1>1. Dated(m, step, lifecycle[m][step])
  BY DEF LifecycleDated
<1> QED BY <1>1, DatedMore

\* An event that a handler has begun with stays handled.
LEMMA HandledProceeds ==
  ASSUME TypeInv, NEW s \in Streams, Busy(s), NEW rest, Proceed(s, rest)
  PROVE  Handled \subseteq Handled' /\ current[s] \in Handled'
<1>1. current \in [Streams -> DOMAIN log \union {0}] /\ current[s] # 0
  BY DEF TypeInv, WorkersOK, Busy
<1>2. \/ UNCHANGED <<current, failed, done>>
      \/ /\ current' = [current EXCEPT ![s] = 0]
         /\ done \subseteq done' /\ failed \subseteq failed' /\ current[s] \in done' \union failed'
  BY DEF Proceed, Fail
<1>3. Handled = failed \union done \union ({current[t] : t \in Streams} \ {0})
  BY <1>1 DEF Handled, Range
<1>4. DOMAIN current' = Streams
  BY <1>1, <1>2
<1>5. Handled' = failed' \union done' \union ({current'[t] : t \in Streams} \ {0})
  BY <1>4 DEF Handled, Range
<1>6. \A t \in Streams : current'[t] = current[t] \/ current[t] \in {0} \union done' \union failed'
  BY <1>1, <1>2
<1> QED BY <1>1, <1>2, <1>3, <1>5, <1>6

LEMMA HandledGrows ==
  ASSUME TypeInv, [Next]_vars
  PROVE  Handled \subseteq Handled'
<1>1. ASSUME NEW s \in Streams, Run(s)
      PROVE  Handled \subseteq Handled'
  BY <1>1, RunLeaves, HandledProceeds DEF RunRetention, RunContribution
<1>2. ASSUME NEW s \in Streams, StatementFails(s)
      PROVE  Handled \subseteq Handled'
  <2>1. Busy(s) /\ Proceed(s, work[s])
    BY <1>2 DEF StatementFails, Proceed
  <2> QED BY <2>1, HandledProceeds
<1>3. ASSUME NEW s \in Streams, Begin(s)
      PROVE  Handled \subseteq Handled'
  <2>1. PICK i : i = Head(queue[s])
    OBVIOUS
  <2>2. /\ current \in [Streams -> DOMAIN log \union {0}] /\ current[s] = 0
        /\ current' = [current EXCEPT ![s] = i] /\ UNCHANGED <<failed, done>>
    BY <1>3, <2>1 DEF Begin, TypeInv, WorkersOK, Busy, historyVars
  <2>3. DOMAIN current = Streams /\ DOMAIN current' = Streams
        /\ \A t \in Streams : current[t] = 0 \/ current'[t] = current[t]
    BY <2>2
  <2> QED BY <2>2, <2>3 DEF Handled, Range
<1>4. ASSUME NEW s \in Streams, FindsClosed(s)
      PROVE  Handled \subseteq Handled'
  BY <1>4 DEF FindsClosed, Handled
<1>5. ASSUME NEW now \in 0 .. Len(log), Restart(now)
      PROVE  Handled \subseteq Handled'
  BY <1>5 DEF Restart, Handled
<1>6. CASE UNCHANGED vars
  BY <1>6 DEF vars, workerVars, historyVars, Handled
<1> QED BY <1>1, <1>2, <1>3, <1>4, <1>5, <1>6 DEF Next

LEMMA UpsertDates ==
  ASSUME TypeInv, NEW s \in Streams, RunUpsert(s)
  PROVE  \A m \in Members : \A step \in Milestones :
           \/ lifecycle'[m][step] = lifecycle[m][step]
           \/ /\ m = Event(s).member /\ step \in Next1(s).arg
              /\ lifecycle'[m][step] = Event(s).at
<1> DEFINE e == Event(s)
           set == Next1(s).arg
           old == lifecycle[e.member]
           new == [f \in DOMAIN old |-> IF f = "left_at" /\ f \in set THEN e.at
                                      ELSE Coalesce(old[f], IF f \in set THEN e.at ELSE None)]
<1>1. /\ lifecycle \in [Members -> [LifecycleColumns -> Times \union {None}]]
      /\ Milestones \subseteq LifecycleColumns
  BY DEF TypeInv, MemberTablesOK, LifecycleColumns
<1>2. lifecycle' = [lifecycle EXCEPT ![e.member] = new] /\ e.member \in Members
  BY AtWork DEF RunUpsert
<1>3. ASSUME NEW step \in Milestones
      PROVE  new[step] = old[step] \/ (step \in set /\ new[step] = e.at)
  <2>1. step \in DOMAIN old
    BY <1>1, <1>2
  <2>2. new[step] = IF step = "left_at" /\ step \in set THEN e.at
                    ELSE Coalesce(old[step], IF step \in set THEN e.at ELSE None)
    BY <2>1
  <2> HIDE DEF new, set, e, old
  <2> QED BY <2>2 DEF Coalesce
<1> HIDE DEF new, set, e
<1>4. \A m \in Members : lifecycle'[m] = IF m = e.member THEN new ELSE lifecycle[m]
  BY <1>1, <1>2
<1> QED BY <1>3, <1>4 DEF e, set

\* Beside a rebuild, too, a date is that of an event that was handled or found
\* in the index.
LEMMA DatedStep ==
  ASSUME TypeInv, JobOK, WorkArranged, LifecycleDated, [RebuildNext]_rebuildVars
  PROVE  LifecycleDated'
<1>1. ASSUME NEW t, JobStepsAre(t)
      PROVE  LifecycleDated'
  <2>1. UNCHANGED <<log, workerVars, historyVars>>
    BY <1>1 DEF JobStepsAre, BreaksOff, Goes
  <2>2. Handled' = Handled /\ IndexedMessages' = IndexedMessages /\ HumanMessages' = HumanMessages
    BY <1>1, <2>1, IndexKept DEF Handled, workerVars, historyVars
  <2>3. CASE lifecycle' = lifecycle
    BY <2>1, <2>2, <2>3, DatesKept
  <2>4. CASE RebuildLifecycle
    <3> SUFFICES ASSUME NEW m \in Members, NEW step \in Milestones, lifecycle'[m][step] # None
                 PROVE  \A x : x = lifecycle'[m][step] => Dated(m, step, x)'
      BY DEF LifecycleDated, Dated
    <3>1. CASE lifecycle'[m][step] = lifecycle[m][step]
      <4>1. Dated(m, step, lifecycle[m][step])
        BY <3>1 DEF LifecycleDated
      <4> QED BY <2>1, <2>2, <3>1, <4>1, DatedMore
    <3>2. CASE lifecycle'[m][step] # lifecycle[m][step]
      <4>1. step \in LifecycleColumns
        BY DEF LifecycleColumns
      <4>2. step = "first_message_at"
        BY <2>4, <3>2, <4>1, LifecycleBecomes
      <4>3. PICK i \in HumanMessages :
              log[i].member = m /\ log[i].at = lifecycle'[m]["first_message_at"]
        BY <2>4, <3>2, <4>2, LifecycleBecomes
      <4>4. i \in IndexedMessages /\ StepAt(i) = step
        BY <4>2 DEF HumanMessages, StepAt
      <4>5. Dated(m, step, lifecycle'[m]["first_message_at"])
        BY <4>3, <4>4 DEF Dated
      <4> QED BY <2>1, <2>2, <4>2, <4>5, DatedMore
    <3> QED BY <3>1, <3>2
  <2> QED BY <1>1, <2>3, <2>4 DEF JobStepsAre, BreaksOff, tableVars
<1>2. ASSUME NEW s \in Streams, Handling(s)
      PROVE  LifecycleDated'
  <2>1. Handled \subseteq Handled' /\ log' = log /\ markers \subseteq markers'
    <3>1. [Next]_vars
      BY <1>2, WorkerSteps
    <3>2. Run(s) => log' = log /\ markers \subseteq markers'
      BY RunKeeps
    <3>3. ~Run(s) => log' = log /\ markers' = markers
      BY <1>2 DEF Handling, Begin, FindsClosed, StatementFails, Fail, tableVars
    <3> QED BY <3>1, <3>2, <3>3, HandledGrows
  <2>2. IndexedMessages \subseteq IndexedMessages'
    BY <2>1 DEF IndexedMessages
  <2>3. CASE RunUpsert(s)
    <3>1. PICK i : i = current[s]
      OBVIOUS
    <3>2. Run(s) /\ Busy(s) /\ Proceed(s, Tail(work[s])) /\ Next1(s).op = "upsert"
      BY <2>3 DEF Run, RunUpsert
    <3>3. i \in Handled' /\ i \in DOMAIN log
      BY <3>1, <3>2, HandledProceeds, AtWork
    <3>4. 1 \in DOMAIN work[s] /\ work[s][1] = Next1(s)
      <4> DEFINE A == Ahead(s)
      <4>1. work[s] \in Seq(A) /\ work[s] # << >>
        BY <3>2, AtWork
      <4> HIDE DEF A
      <4> QED BY <4>1 DEF Next1
    <3>5. Own(Next1(s), i)
      BY <3>1, <3>3, <3>4 DEF WorkArranged, Arranged
    <3> SUFFICES ASSUME NEW m \in Members, NEW step \in Milestones, lifecycle'[m][step] # None
                 PROVE  \A x : x = lifecycle'[m][step] => Dated(m, step, x)'
      BY DEF LifecycleDated, Dated
    <3>6. CASE lifecycle'[m][step] = lifecycle[m][step]
      <4>1. Dated(m, step, lifecycle[m][step])
        BY <3>6 DEF LifecycleDated
      <4> QED BY <2>1, <2>2, <3>6, <4>1, DatedMore
    <3>7. CASE lifecycle'[m][step] # lifecycle[m][step]
      <4>1. m = log[i].member /\ step \in Next1(s).arg /\ lifecycle'[m][step] = log[i].at
        BY <2>3, <3>1, <3>7, UpsertDates DEF Event
      <4>2. StepAt(i) = step
        BY <3>2, <3>5, <4>1 DEF Own
      <4>3. StepAt(i)' = StepAt(i)
        BY <2>1 DEF StepAt, Human
      <4> QED BY <2>1, <3>3, <4>1, <4>2, <4>3 DEF Dated
    <3> QED BY <3>6, <3>7
  <2>4. CASE ~RunUpsert(s)
    <3>1. lifecycle' = lifecycle
      BY <1>2, <2>4
      DEF Handling, Begin, FindsClosed, StatementFails, tableVars, Run, RunActivity, RunMark,
          RunMilestone, RunCount, RunRetention, RunContribution, Insert
    <3> QED BY <2>1, <2>2, <3>1, DatesKept
  <2> QED BY <2>3, <2>4
<1>3. ASSUME NEW now \in 0 .. Len(log), Dies(now)
      PROVE  LifecycleDated'
  <2>1. /\ log' = log /\ lifecycle' = lifecycle /\ markers' = MarkersAtStart(now)
    BY <1>3 DEF Dies, Restart
  <2>2. IndexedMessages \subseteq IndexedMessages'
    BY <2>1, MarkersAtStartAre DEF IndexedMessages
  <2>3. Handled \subseteq Handled'
    BY <1>3, WorkerSteps, HandledGrows
  <2> QED BY <2>1, <2>2, <2>3, DatesKept
<1>4. ASSUME NEW now \in 0 .. Len(log), StartJob(now)
      PROVE  LifecycleDated'
  <2>1. /\ UNCHANGED <<log, workerVars, historyVars, lifecycle>> /\ markers \subseteq markers'
    BY <1>4 DEF StartJob
  <2>2. Handled' = Handled /\ IndexedMessages \subseteq IndexedMessages'
    BY <2>1 DEF Handled, IndexedMessages, workerVars, historyVars
  <2> QED BY <2>1, <2>2, DatesKept
<1>5. CASE JobFails
  <2>1. \A t : JobStepsAre(t)
    BY <1>5 DEF JobFails, BreaksOff, tableVars, JobStepsAre
  <2> QED BY <1>1, <2>1
<1>6. CASE UNCHANGED rebuildVars
  <2>1. UNCHANGED <<log, lifecycle, markers, current, failed, done>>
    BY <1>6 DEF rebuildVars, jobVars, vars, workerVars, tableVars, historyVars
  <2>2. Handled' = Handled /\ IndexedMessages' = IndexedMessages
    BY <2>1 DEF Handled, IndexedMessages
  <2> QED BY <2>1, <2>2, DatesKept
<1>7. CASE JobStep
  BY <1>1, <1>7, JobSteps
<1> QED BY <1>2, <1>3, <1>4, <1>5, <1>6, <1>7 DEF RebuildNext

-----------------------------------------------------------------------------
(* Nothing forgotten.                                                       *)

ForgottenInv ==
  /\ OneCohort /\ StepsInv(Waived) /\ WorkArranged
  /\ ActiveInv /\ IndexInv /\ CoveredInv /\ LifecycleDated /\ Begun

LEMMA ForgottenInit ==
  RebuildInit => ForgottenInv
<1> SUFFICES ASSUME RebuildInit PROVE ForgottenInv
  OBVIOUS
<1>1. JoinedBefore \in Joins /\ InitWith(JoinedBefore)
  BY RebuildAssumption DEF Joins, RebuildInit
<1>2. TypeInv /\ OneCohort /\ \A W : StepsInv(W)
  BY <1>1, InitTypes, InitCohorts, InitSteps
<1>3. /\ current = [s \in Streams |-> 0] /\ done = {} /\ 0 \notin DOMAIN log
      /\ markers = FillAll({})
  BY <1>1, <1>2 DEF InitWith, TypeInv
<1>4. \A i \in DOMAIN log : ~InHand(i) /\ \A s \in Streams : current[s] # i
  BY <1>3 DEF InHand
<1>5. WorkArranged /\ IndexInv
  BY <1>4 DEF WorkArranged, IndexInv
<1>6. IndexedMessages = {}
  <2>1. RowsOK /\ {} \in SUBSET MarkersOf(log)
    BY <1>2, TypedRows
  <2> QED BY <1>3, <2>1, FillsNoIndex DEF IndexedMessages
<1>7. ActiveInv
  BY <1>4, <1>6 DEF ActiveInv, Owed
<1>8. CoveredInv /\ Begun
  BY DEF RebuildInit, CoveredInv, Claimed, Begun
<1>9. LifecycleDated
  <2>1. "joined_at" \notin Milestones /\ Milestones \subseteq LifecycleColumns
    BY DEF Milestones, LifecycleColumns
  <2>2. lifecycle = [m \in Members |->
                       [f \in LifecycleColumns |-> IF f = "joined_at" THEN JoinedBefore[m] ELSE None]]
    BY <1>1 DEF InitWith
  <2>3. \A m \in Members : \A step \in Milestones : lifecycle[m][step] = None
    BY <2>1, <2>2
  <2> QED BY <2>3 DEF LifecycleDated
<1> QED BY <1>2, <1>5, <1>7, <1>8, <1>9 DEF ForgottenInv

\* A job that is not idle was requested.
LEMMA BegunStep ==
  ASSUME JobOK, Begun, [RebuildNext]_rebuildVars
  PROVE  Begun'
<1>1. ASSUME NEW now \in 0 .. Len(log), StartJob(now)
      PROVE  Begun'
  BY <1>1 DEF StartJob, JobOK, Begun
<1>2. CASE JobStep \/ JobFails
  <2>1. status = "running" /\ jobs' = jobs
    BY <1>2
    DEF JobStep, JobFails, RebuildLifecycle, DeleteActivity, InsertActivity, DeleteMarkers,
        InsertMarkers, DeleteCounters, InsertCounters, InsertConflicts, Recount, Rebuilding,
        Goes, BreaksOff, JobOK
  <2> QED BY <2>1 DEF Begun
<1>3. ASSUME NEW now \in 0 .. Len(log), Dies(now)
      PROVE  Begun'
  BY <1>3 DEF Dies, Begun
<1>4. ASSUME NEW s \in Streams, Handling(s)
      PROVE  Begun'
  BY <1>4 DEF Handling, Begun
<1>5. CASE UNCHANGED rebuildVars
  BY <1>5 DEF rebuildVars, jobVars, Begun
<1> QED
  BY <1>1, <1>2, <1>3, <1>4, <1>5 DEF RebuildNext

LEMMA ForgottenStep ==
  RebuildInv /\ ForgottenInv /\ [RebuildNext]_rebuildVars => ForgottenInv'
<1> SUFFICES ASSUME TypeInv, JobOK, ForgottenInv, [RebuildNext]_rebuildVars
             PROVE  ForgottenInv'
  BY DEF RebuildInv
<1>1. /\ OneCohort /\ StepsInv(Waived) /\ WorkArranged
      /\ ActiveInv /\ IndexInv /\ CoveredInv /\ LifecycleDated /\ Begun /\ InOnePlace
  BY DEF ForgottenInv, StepsInv
<1>2. OneCohort' /\ Begun' /\ LifecycleDated'
  BY <1>1, CohortRebuilt, BegunStep, DatedStep
<1>3. StepsInv(Waived)'
  <2>1. PICK W, V : W = Waived /\ V = Waived'
    OBVIOUS
  <2>2. StepsInv(W)
    BY <1>1, <2>1
  <2>3. StepsInv(V)'
    BY <1>1, <2>1, <2>2, StepsBesideRebuild
  <2> QED BY <2>1, <2>3 DEF StepsInv, DoneRecorded, WorkRecorded, Recorded
<1>4. ASSUME NEW t, JobStepsAre(t)
      PROVE  ActiveInv' /\ IndexInv' /\ CoveredInv' /\ WorkArranged'
  <2>1. ActiveInv' /\ IndexInv' /\ CoveredInv'
    BY <1>1, <1>4, ActiveRebuilt, IndexRebuilt, CoveredRebuilt
  <2>2. log' = log /\ UNCHANGED workerVars
    BY <1>4 DEF JobStepsAre, Goes, BreaksOff
  <2>3. UNCHANGED <<current, work>>
    BY <2>2 DEF workerVars
  <2> QED BY <1>1, <2>1, <2>2, <2>3, SameArranged
<1>5. CASE JobFails
  <2>1. \A t : JobStepsAre(t)
    BY <1>5 DEF JobFails, BreaksOff, tableVars, JobStepsAre
  <2> QED BY <1>2, <1>3, <1>4, <2>1 DEF ForgottenInv
<1>6. CASE JobStep
  BY <1>2, <1>3, <1>4, <1>6, JobSteps DEF ForgottenInv
<1>7. ASSUME NEW now \in 0 .. Len(log), StartJob(now)
      PROVE  ForgottenInv'
  <2>1. WorkArranged'
    BY <1>1, <1>7, SameArranged DEF StartJob, workerVars
  <2> QED BY <1>1, <1>2, <1>3, <1>7, <2>1, ForgottenStarts DEF ForgottenInv
<1>8. ASSUME NEW now \in 0 .. Len(log), Dies(now)
      PROVE  ForgottenInv'
  <2>1. WorkArranged'
    BY <1>1, <1>8, WorkerSteps, ArrangedStep
  <2> QED BY <1>1, <1>2, <1>3, <1>8, <2>1, ForgottenDies DEF ForgottenInv
<1>9. ASSUME NEW s \in Streams, Handling(s)
      PROVE  ForgottenInv'
  <2>1. WorkArranged'
    BY <1>1, <1>9, WorkerSteps, ArrangedStep
  <2>2. ActiveInv' /\ IndexInv' /\ CoveredInv'
    BY <1>1, <1>9, ForgottenBegin, ForgottenClosed, ForgottenRun, ForgottenFails DEF Handling
  <2> QED BY <1>2, <1>3, <2>1, <2>2 DEF ForgottenInv
<1>10. CASE UNCHANGED rebuildVars
  <2>1. UNCHANGED <<log, queue, current, work, activity, markers, reindexed, failed, done, status,
                    todo, jobs, covering, covered>>
    BY <1>10 DEF rebuildVars, jobVars, vars, workerVars, tableVars, historyVars
  <2>2. WorkArranged'
    BY <1>1, <2>1, SameArranged
  <2>3. ActiveInv'
    BY <1>1, <2>1
    DEF ActiveInv, Owed, ActivityFor, MarkFor, InHand, InScope, IndexedMessages, Active,
        MarkedActive, AheadOf, Saying, Whose, ActivityAwaited, MarksAwaited, Awaited
  <2>4. IndexInv'
    BY <1>1, <2>1 DEF IndexInv, InHand, IndexedMessages, AheadOf, IndexFirst
  <2>5. CoveredInv'
    BY <1>1, <2>1
    DEF CoveredInv, Claimed, InScope, HumanMessages, IndexedMessages, Human, Active,
        MarkedActive, ActivityAwaited, MarksAwaited, Awaited
  <2> QED BY <1>2, <1>3, <2>2, <2>3, <2>4, <2>5 DEF ForgottenInv
<1> QED
  BY <1>5, <1>6, <1>7, <1>8, <1>9, <1>10 DEF RebuildNext

LEMMA ForgottenImplied ==
  RebuildInv /\ ForgottenInv => NothingForgotten
<1> SUFFICES ASSUME TypeInv, JobOK, ForgottenInv, status = "idle"
             PROVE  /\ StepsKept
                    /\ \A i \in covered : MarkedActive(i)
                    /\ \A i \in done :
                         \/ log[i].kind = "message" /\ i \notin failed \union reindexed
                         \/ /\ log[i].kind = "reaction" \/ (log[i].kind = "voiceLeave" /\ i \notin failed)
                            /\ jobs = 0 \/ Day(log[i].at) \notin ActivityDays
                         => MarkedActive(i)
  BY DEF RebuildInv, NothingForgotten
<1>1. Waived = {} /\ ~ActivityAwaited /\ ~MarksAwaited
  BY IdleAwaits DEF MarksAwaited
<1>2. StepsKept
  <2>1. StepsInv({})
    BY <1>1 DEF ForgottenInv
  <2> SUFFICES ASSUME NEW i \in done \intersect sawJoin,
                      NEW m, m = log[i].member, NEW step, step = StepOf(log[i].kind),
                      step \in Milestones,
                      log[i].kind = "message" => i \notin failed \union reindexed
               PROVE  \/ \E mk \in markers : mk.table = step /\ mk.member = m
                      \/ TakenBefore(i)
    BY DEF StepsKept
  <2>2. /\ i \in DOMAIN log /\ log \in Seq(Happenings)
        /\ lifecycle \in [Members -> [LifecycleColumns -> Times \union {None}]]
    BY DEF TypeInv, HistoryOK, MemberTablesOK
  <2>3. m \in Members
    BY <2>2, EventsAre
  <2>4. Joined(m) # None /\ lifecycle[m][step] # None
    BY <2>1 DEF StepsInv, StepsKnown, StepIn
  <2>5. Joined(m) \in Nat /\ lifecycle[m][step] \in Nat
    BY <2>2, <2>3, <2>4, TimesAre DEF Joined, LifecycleColumns
  <2>6. CASE Took(m, step)
    <3>1. Recorded(i, {})
      BY <2>1 DEF StepsInv, DoneRecorded, StepIn
    <3>2. step = "first_message_at" => log[i].kind = "message"
      BY DEF StepOf
    <3> QED BY <2>6, <3>1, <3>2 DEF Recorded, StepIn
  <2>7. CASE ~Took(m, step)
    <3>1. lifecycle[m][step] < Joined(m)
      BY <2>4, <2>5, <2>7 DEF Took
    <3>2. PICK j \in Handled \union IndexedMessages :
            log[j].member = m /\ StepAt(j) = step /\ log[j].at = lifecycle[m][step]
      BY <2>3, <2>4 DEF ForgottenInv, LifecycleDated, Dated
    <3>3. StepAt(i) = step
      BY DEF StepAt, Human, StepOf, Milestones
    <3> QED BY <3>1, <3>2, <3>3 DEF TakenBefore
  <2> QED BY <2>6, <2>7
<1>3. \A i \in covered : MarkedActive(i)
  BY <1>1 DEF ForgottenInv, CoveredInv, Claimed
<1>4. ASSUME NEW i \in done,
             \/ log[i].kind = "message" /\ i \notin failed \union reindexed
             \/ /\ log[i].kind = "reaction" \/ (log[i].kind = "voiceLeave" /\ i \notin failed)
                /\ jobs = 0 \/ Day(log[i].at) \notin ActivityDays
      PROVE  MarkedActive(i)
  <2>1. i \in DOMAIN log /\ i # 0 /\ InHand(i)
    BY DEF TypeInv, HistoryOK, InHand
  <2>2. \A st : ~AheadOf(i, st)
    <3>1. InOnePlace
      BY DEF ForgottenInv, StepsInv
    <3> QED BY <2>1, <3>1 DEF InOnePlace, AheadOf, Busy
  <2>3. Owed(i)
    BY <1>4, <2>1, <2>2 DEF ForgottenInv, IndexInv, Owed, InScope
  <2> QED BY <1>1, <2>1, <2>2, <2>3 DEF ForgottenInv, ActiveInv, MarkFor
<1> QED BY <1>2, <1>3, <1>4

\* However the rebuild interleaves with the handlers, breaks off and starts
\* again, it derives what it takes away: between jobs a member whose message was
\* handled, or found by a job that completed, is marked as active that day; and
\* a step whose event was handled after the join is recorded, unless there is
\* an event, handled or in the index, by which the member took it before it
\* joined.
THEOREM NothingLost ==
  RebuildSpec => []NothingForgotten
<1>1. RebuildInit => RebuildInv /\ ForgottenInv
  BY RebuildStarts, ForgottenInit
<1>2. RebuildInv /\ ForgottenInv /\ [RebuildNext]_rebuildVars => (RebuildInv /\ ForgottenInv)'
  BY RebuildStep, ForgottenStep
<1> QED
  BY <1>1, <1>2, ForgottenImplied, PTL DEF RebuildSpec

\* A member belongs to one cohort beside a rebuild, too: what a job derives
\* again it derives for the day of the same join.
THEOREM RebuildCohorts ==
  RebuildSpec => []OneCohort
<1>1. RebuildInit => RebuildInv /\ ForgottenInv
  BY RebuildStarts, ForgottenInit
<1>2. RebuildInv /\ ForgottenInv /\ [RebuildNext]_rebuildVars => (RebuildInv /\ ForgottenInv)'
  BY RebuildStep, ForgottenStep
<1>3. ForgottenInv => OneCohort
  BY DEF ForgottenInv
<1> QED
  BY <1>1, <1>2, <1>3, PTL DEF RebuildSpec

-----------------------------------------------------------------------------
(* The order of the statements, those of the counters included.             *)

CounterInsertion(table) == Do("insertCounters", table)

LEMMA CountersAt ==
  /\ Rebuild[6] = Do("deleteCounters", "guild_daily_activity")
  /\ Rebuild[7] = CounterInsertion("guild_daily_activity")
  /\ \A p \in 1 .. 4 : /\ Rebuild[2 * p + 24] = Do("deleteCounters", CounterTables[p])
                       /\ Rebuild[2 * p + 25] = CounterInsertion(CounterTables[p])
<1>1. Rebuild[6] = Do("deleteCounters", "guild_daily_activity")
      /\ Rebuild[7] = Do("insertCounters", "guild_daily_activity")
  <2> DEFINE t == <<"guild_daily_activity">>
  <2>1. Len(t) = 1 /\ t[1] = "guild_daily_activity"
    OBVIOUS
  <2>2. /\ Each(t, "deleteCounters", "insertCounters")[2 * 1 - 1] = Do("deleteCounters", t[1])
        /\ Each(t, "deleteCounters", "insertCounters")[2 * 1] = Do("insertCounters", t[1])
    <3> HIDE DEF t
    <3> QED BY <2>1, EachAt
  <2>3. /\ Rebuild[5 + 1] = Each(t, "deleteCounters", "insertCounters")[1]
        /\ Rebuild[5 + 2] = Each(t, "deleteCounters", "insertCounters")[2]
    BY RebuildBlocks
  <2> HIDE DEF t
  <2> QED BY <2>1, <2>2, <2>3
<1>2. ASSUME NEW p \in 1 .. 4
      PROVE  /\ Rebuild[2 * p + 24] = Do("deleteCounters", CounterTables[p])
             /\ Rebuild[2 * p + 25] = Do("insertCounters", CounterTables[p])
  <2>1. Len(CounterTables) = 4
    BY DEF CounterTables
  <2>2. /\ Each(CounterTables, "deleteCounters", "insertCounters")[2 * p - 1] = Do("deleteCounters", CounterTables[p])
        /\ Each(CounterTables, "deleteCounters", "insertCounters")[2 * p] = Do("insertCounters", CounterTables[p])
    <3> DEFINE t == CounterTables
    <3>1. Len(t) \in Nat /\ p \in 1 .. Len(t)
      BY <2>1
    <3> HIDE DEF t
    <3>2. /\ Each(t, "deleteCounters", "insertCounters")[2 * p - 1] = Do("deleteCounters", t[p])
          /\ Each(t, "deleteCounters", "insertCounters")[2 * p] = Do("insertCounters", t[p])
      BY <3>1, EachAt
    <3> QED BY <3>2 DEF t
  <2>3. 2 * p - 1 \in 1 .. 8 /\ 2 * p \in 1 .. 8
        /\ 25 + (2 * p - 1) = 2 * p + 24 /\ 25 + 2 * p = 2 * p + 25
    OBVIOUS
  <2>4. \A k \in 1 .. 8 : Rebuild[25 + k] = Each(CounterTables, "deleteCounters", "insertCounters")[k]
    BY RebuildBlocks
  <2>5. Rebuild[25 + (2 * p - 1)] = Do("deleteCounters", CounterTables[p])
        /\ Rebuild[25 + 2 * p] = Do("insertCounters", CounterTables[p])
    BY <2>2, <2>3, <2>4
  <2> QED BY <2>3, <2>5
<1> QED BY <1>1, <1>2 DEF CounterInsertion

LEMMA CounterPlaces ==
  ASSUME NEW k \in 1 .. 34
  PROVE  \/ k \in 1 .. 5
         \/ \E p \in 1 .. 9 : k = 2 * p + 6 /\ Rebuild[k] = Do("deleteMarkers", MarkerTables[p])
         \/ \E p \in 1 .. 9 : k = 2 * p + 7 /\ Rebuild[k] = Insertion(MarkerTables[p])
         \/ k = 6 /\ Rebuild[k] = Do("deleteCounters", "guild_daily_activity")
         \/ k = 7 /\ Rebuild[k] = CounterInsertion("guild_daily_activity")
         \/ \E p \in 1 .. 4 : k = 2 * p + 24 /\ Rebuild[k] = Do("deleteCounters", CounterTables[p])
         \/ \E p \in 1 .. 4 : k = 2 * p + 25 /\ Rebuild[k] = CounterInsertion(CounterTables[p])
         \/ k = 34 /\ Rebuild[k] = Do("recount", "public_stats_cache")
<1>1. CASE k \in (1 .. 5) \union (8 .. 25)
  <2>1. k \in 1 .. 5 \/ (k % 2 = 0 /\ k \in 8 .. 25) \/ (k % 2 = 1 /\ k \in 8 .. 25)
    BY <1>1
  <2>2. ASSUME k % 2 = 0, k \in 8 .. 25
        PROVE  \E p \in 1 .. 9 : k = 2 * p + 6
    <3>1. (k - 6) \div 2 \in 1 .. 9 /\ k = 2 * ((k - 6) \div 2) + 6
      BY <2>2
    <3> QED BY <3>1
  <2>3. ASSUME k % 2 = 1, k \in 8 .. 25
        PROVE  \E p \in 1 .. 9 : k = 2 * p + 7
    <3>1. (k - 7) \div 2 \in 1 .. 9 /\ k = 2 * ((k - 7) \div 2) + 7
      BY <2>3
    <3> QED BY <3>1
  <2>4. ASSUME NEW p \in 1 .. 9, k = 2 * p + 6
        PROVE  Rebuild[k] = Do("deleteMarkers", MarkerTables[p])
    BY <2>4, RebuildAt
  <2>5. ASSUME NEW p \in 1 .. 9, k = 2 * p + 7
        PROVE  Rebuild[k] = Insertion(MarkerTables[p])
    BY <2>5, RebuildAt DEF Insertion
  <2> QED BY <2>1, <2>2, <2>3, <2>4, <2>5
<1>2. CASE k \in 6 .. 7
  <2>1. k = 6 \/ k = 7
    BY <1>2
  <2> QED BY <2>1, CountersAt
<1>3. CASE k \in 26 .. 33
  <2>1. k % 2 = 0 \/ k % 2 = 1
    OBVIOUS
  <2>2. ASSUME k % 2 = 0
        PROVE  \E p \in 1 .. 4 : k = 2 * p + 24
    <3>1. (k - 24) \div 2 \in 1 .. 4 /\ k = 2 * ((k - 24) \div 2) + 24
      BY <1>3, <2>2
    <3> QED BY <3>1
  <2>3. ASSUME k % 2 = 1
        PROVE  \E p \in 1 .. 4 : k = 2 * p + 25
    <3>1. (k - 25) \div 2 \in 1 .. 4 /\ k = 2 * ((k - 25) \div 2) + 25
      BY <1>3, <2>3
    <3> QED BY <3>1
  <2>4. ASSUME NEW p \in 1 .. 4, k = 2 * p + 24
        PROVE  Rebuild[k] = Do("deleteCounters", CounterTables[p])
    BY <2>4, CountersAt
  <2>5. ASSUME NEW p \in 1 .. 4, k = 2 * p + 25
        PROVE  Rebuild[k] = CounterInsertion(CounterTables[p])
    BY <2>5, CountersAt
  <2> QED BY <2>1, <2>2, <2>3, <2>4, <2>5
<1>4. CASE k = 34
  <2>1. Rebuild[34] = Do("recount", "public_stats_cache")
    BY RebuildBlocks, Zenon
  <2> QED BY <1>4, <2>1
<1>5. k \in (1 .. 5) \union (8 .. 25) \/ k \in 6 .. 7 \/ k \in 26 .. 33 \/ k = 34
  OBVIOUS
<1> QED BY <1>1, <1>2, <1>3, <1>4, <1>5

\* The statements that come after the k-th.
Later(st, k) == \E j \in (k + 1) .. 34 : Rebuild[j] = st

LEMMA LaterIs ==
  ASSUME NEW k \in 1 .. 34
  PROVE  /\ k < 3 => Later(ActivityInsertion, k)
         /\ k < 5 => \A t \in RebuiltTables : Later(Insertion(t), k)
         /\ k < 7 => \A t \in RebuiltCounters : Later(CounterInsertion(t), k)
         /\ k < 27 => \A t \in Range(CounterTables) : Later(CounterInsertion(t), k)
         /\ \A p \in 1 .. 9 : k < 2 * p + 7 => Later(Insertion(MarkerTables[p]), k)
         /\ \A p \in 1 .. 4 : k < 2 * p + 25 => Later(CounterInsertion(CounterTables[p]), k)
<1>1. ASSUME NEW j \in 1 .. 34, k < j
      PROVE  Later(Rebuild[j], k)
  <2>1. j \in (k + 1) .. 34
    BY <1>1
  <2> QED BY <2>1 DEF Later
<1>2. k < 3 => Later(ActivityInsertion, k)
  <2>1. Rebuild[3] = ActivityInsertion /\ 3 \in 1 .. 34
    BY RebuildOrder
  <2> QED BY <1>1, <2>1
<1>3. ASSUME NEW p \in 1 .. 9, k < 2 * p + 7
      PROVE  Later(Insertion(MarkerTables[p]), k)
  <2>1. Rebuild[2 * p + 7] = Insertion(MarkerTables[p]) /\ 2 * p + 7 \in 1 .. 34
    BY RebuildAt DEF Insertion
  <2> QED BY <1>1, <1>3, <2>1
<1>4. ASSUME NEW p \in 1 .. 4, k < 2 * p + 25
      PROVE  Later(CounterInsertion(CounterTables[p]), k)
  <2>1. Rebuild[2 * p + 25] = CounterInsertion(CounterTables[p]) /\ 2 * p + 25 \in 1 .. 34
    BY CountersAt
  <2> QED BY <1>1, <1>4, <2>1
<1>5. ASSUME k < 5, NEW t \in RebuiltTables
      PROVE  Later(Insertion(t), k)
  <2>1. CASE t = "guild_daily_active_members"
    <3>1. Rebuild[5] = Insertion(t) /\ 5 \in 1 .. 34
      BY <2>1, RebuildAt DEF Insertion
    <3> QED BY <1>1, <1>5, <3>1
  <2>2. CASE t # "guild_daily_active_members"
    <3>1. PICK p \in 1 .. 9 : t = MarkerTables[p]
      BY <2>2 DEF RebuiltTables, Range, MarkerTables
    <3>2. k < 2 * p + 7
      BY <1>5
    <3> QED BY <1>3, <3>1, <3>2
  <2> QED BY <2>1, <2>2
<1>6. ASSUME k < 27, NEW t \in Range(CounterTables)
      PROVE  Later(CounterInsertion(t), k)
  <2>1. PICK p \in 1 .. 4 : t = CounterTables[p]
    BY DEF Range, CounterTables
  <2>2. k < 2 * p + 25
    BY <1>6
  <2> QED BY <1>4, <2>1, <2>2
<1>7. ASSUME k < 7, NEW t \in RebuiltCounters
      PROVE  Later(CounterInsertion(t), k)
  <2>1. CASE t = "guild_daily_activity"
    <3>1. Rebuild[7] = CounterInsertion(t) /\ 7 \in 1 .. 34
      BY <2>1, CountersAt
    <3> QED BY <1>1, <1>7, <3>1
  <2>2. CASE t \in Range(CounterTables)
    BY <1>6, <1>7, <2>2
  <2> QED BY <2>1, <2>2 DEF RebuiltCounters
<1> QED BY <1>2, <1>3, <1>4, <1>5, <1>6, <1>7

\* What must be derived after a statement, because it is derived from what the
\* statement changes.
Follows(st, k) ==
  /\ st.op = "deleteActivity" => Later(ActivityInsertion, k)
  /\ st.op \in {"lifecycle", "deleteActivity", "insertActivity"} =>
       /\ \A t \in RebuiltTables : Later(Insertion(t), k)
       /\ \A t \in RebuiltCounters : Later(CounterInsertion(t), k)
  /\ st.op = "deleteMarkers" => Later(Insertion(st.arg), k)
  /\ st.op \in {"deleteMarkers", "insertMarkers"} =>
       /\ \A t \in Range(CounterTables) : Later(CounterInsertion(t), k)
       /\ st.arg = "retention_cohort_d7_members" => Later(Insertion("channel_retention_d7_members"), k)
       /\ st.arg = "retention_cohort_d30_members" => Later(Insertion("channel_retention_d30_members"), k)
  /\ st.op = "deleteCounters" => Later(CounterInsertion(st.arg), k)
  /\ st.op \in {"deleteCounters", "insertCounters"} /\ st.arg = "guild_daily_activity" =>
       \A t \in Range(CounterTables) : Later(CounterInsertion(t), k)

LEMMA AllFollows ==
  ASSUME NEW k \in 1 .. 34
  PROVE  Follows(Rebuild[k], k)
<1> DEFINE st == Rebuild[k]
<1>1. CASE k \in 1 .. 5
  <2>1. k = 1 \/ k = 2 \/ k = 3 \/ k = 4 \/ k = 5
    BY <1>1
  <2>2. /\ \A t \in Range(CounterTables) : Later(CounterInsertion(t), k)
        /\ \A t \in RebuiltCounters : Later(CounterInsertion(t), k)
    BY <1>1, LaterIs
  <2>3. /\ k < 5 => \A t \in RebuiltTables : Later(Insertion(t), k)
        /\ k < 3 => Later(ActivityInsertion, k)
    BY LaterIs
  <2>4. /\ Rebuild[1] = Do("lifecycle", "member_lifecycle")
        /\ Rebuild[2] = Do("deleteActivity", "member_daily_activity")
    BY RebuildBlocks, Zenon
  <2>5. /\ Rebuild[3] = Do("insertActivity", "member_daily_activity")
        /\ Rebuild[4] = Do("deleteMarkers", "guild_daily_active_members")
        /\ Rebuild[5] = Do("insertMarkers", "guild_daily_active_members")
    BY RebuildOrder, RebuildAt DEF ActivityInsertion
  <2>6. "guild_daily_active_members" \in RebuiltTables
    BY RebuiltAre
  <2>7. CASE k = 1
    BY <2>2, <2>3, <2>4, <2>7, DoesNothingElse DEF Follows
  <2>8. CASE k = 2
    BY <2>2, <2>3, <2>4, <2>8, DoesNothingElse DEF Follows
  <2>9. CASE k = 3
    BY <2>2, <2>3, <2>5, <2>9, DoesNothingElse DEF Follows
  <2>10. CASE k = 4
    BY <2>2, <2>3, <2>5, <2>6, <2>10, DoesNothingElse DEF Follows
  <2>11. CASE k = 5
    BY <2>2, <2>5, <2>11, DoesNothingElse DEF Follows
  <2> QED BY <2>1, <2>7, <2>8, <2>9, <2>10, <2>11
<1>2. ASSUME NEW p \in 1 .. 9,
             \/ k = 2 * p + 6 /\ st = Do("deleteMarkers", MarkerTables[p])
             \/ k = 2 * p + 7 /\ st = Do("insertMarkers", MarkerTables[p])
      PROVE  Follows(st, k)
  <2>1. \A t \in Range(CounterTables) : Later(CounterInsertion(t), k)
    <3>1. k < 27
      BY <1>2
    <3> QED BY <3>1, LaterIs
  <2>2. k = 2 * p + 6 => Later(Insertion(MarkerTables[p]), k)
    <3>1. k = 2 * p + 6 => k < 2 * p + 7
      OBVIOUS
    <3> QED BY <3>1, LaterIs
  <2>3. MarkerTables[p] = "retention_cohort_d7_members" => Later(Insertion("channel_retention_d7_members"), k)
    <3>1. MarkerTables[p] = "retention_cohort_d7_members" => p = 6
      BY DEF MarkerTables
    <3>2. MarkerTables[8] = "channel_retention_d7_members" /\ 8 \in 1 .. 9
      BY DEF MarkerTables
    <3>3. p = 6 => k < 2 * 8 + 7
      BY <1>2
    <3> QED BY <3>1, <3>2, <3>3, LaterIs
  <2>4. MarkerTables[p] = "retention_cohort_d30_members" => Later(Insertion("channel_retention_d30_members"), k)
    <3>1. MarkerTables[p] = "retention_cohort_d30_members" => p = 7
      BY DEF MarkerTables
    <3>2. MarkerTables[9] = "channel_retention_d30_members" /\ 9 \in 1 .. 9
      BY DEF MarkerTables
    <3>3. p = 7 => k < 2 * 9 + 7
      BY <1>2
    <3> QED BY <3>1, <3>2, <3>3, LaterIs
  <2>5. CASE st = Do("deleteMarkers", MarkerTables[p])
    <3>1. k = 2 * p + 6
      BY <1>2, <2>5, DoesNothingElse
    <3> HIDE DEF st
    <3> QED BY <2>1, <2>2, <2>3, <2>4, <2>5, <3>1, DoesNothingElse DEF Follows
  <2>6. CASE st = Do("insertMarkers", MarkerTables[p])
    <3> HIDE DEF st
    <3> QED BY <2>1, <2>3, <2>4, <2>6, DoesNothingElse DEF Follows
  <2> QED BY <1>2, <2>5, <2>6
<1>3. ASSUME k \in 6 .. 7,
             \/ k = 6 /\ st = Do("deleteCounters", "guild_daily_activity")
             \/ k = 7 /\ st = CounterInsertion("guild_daily_activity")
      PROVE  Follows(st, k)
  <2>1. /\ \A t \in Range(CounterTables) : Later(CounterInsertion(t), k)
        /\ k = 6 => \A t \in RebuiltCounters : Later(CounterInsertion(t), k)
    BY <1>3, LaterIs
  <2>2. "guild_daily_activity" \in RebuiltCounters
    BY DEF RebuiltCounters
  <2> HIDE DEF st
  <2> QED BY <1>3, <2>1, <2>2, DoesNothingElse DEF Follows, CounterInsertion
<1>4. ASSUME NEW p \in 1 .. 4,
             \/ k = 2 * p + 24 /\ st = Do("deleteCounters", CounterTables[p])
             \/ k = 2 * p + 25 /\ st = CounterInsertion(CounterTables[p])
      PROVE  Follows(st, k)
  <2>1. CounterTables[p] # "guild_daily_activity"
    BY DEF CounterTables
  <2>2. k = 2 * p + 24 => Later(CounterInsertion(CounterTables[p]), k)
    <3>1. k = 2 * p + 24 => k < 2 * p + 25
      OBVIOUS
    <3> QED BY <3>1, LaterIs
  <2> HIDE DEF st
  <2> QED BY <1>4, <2>1, <2>2, DoesNothingElse DEF Follows, CounterInsertion
<1>5. CASE st = Do("recount", "public_stats_cache")
  <2> HIDE DEF st
  <2>1. Follows(st, k)
    BY <1>5, DoesNothingElse DEF Follows
  <2> QED BY <2>1 DEF st
<1> HIDE DEF st
<1>6. \/ k \in 1 .. 5
      \/ \E p \in 1 .. 9 : k = 2 * p + 6 /\ st = Do("deleteMarkers", MarkerTables[p])
      \/ \E p \in 1 .. 9 : k = 2 * p + 7 /\ st = Do("insertMarkers", MarkerTables[p])
      \/ k = 6 /\ st = Do("deleteCounters", "guild_daily_activity")
      \/ k = 7 /\ st = CounterInsertion("guild_daily_activity")
      \/ \E p \in 1 .. 4 : k = 2 * p + 24 /\ st = Do("deleteCounters", CounterTables[p])
      \/ \E p \in 1 .. 4 : k = 2 * p + 25 /\ st = CounterInsertion(CounterTables[p])
      \/ st = Do("recount", "public_stats_cache")
  BY CounterPlaces DEF st, Insertion
<1>7. Follows(st, k)
  BY <1>1, <1>2, <1>3, <1>4, <1>5, <1>6 DEF st
<1> QED BY <1>7 DEF st

\* Right before an INSERT stands its DELETE.
LEMMA DeletionFirst ==
  ASSUME NEW k \in 1 .. 33
  PROVE  /\ Rebuild[k + 1] = ActivityInsertion => Rebuild[k].op = "deleteActivity"
         /\ \A t : Rebuild[k + 1] = Insertion(t) => Rebuild[k] = Do("deleteMarkers", t)
         /\ \A t : Rebuild[k + 1] = CounterInsertion(t) => Rebuild[k] = Do("deleteCounters", t)
<1> DEFINE j == k + 1
           st == Rebuild[j]
<1>1. j \in 1 .. 34
  OBVIOUS
<1>2. k = j - 1
  OBVIOUS
<1> HIDE DEF j
<1>3. CASE j \in 1 .. 5
  <2>1. j = 2 \/ j = 3 \/ j = 4 \/ j = 5
    BY <1>2, <1>3
  <2>2. /\ Rebuild[1] = Do("lifecycle", "member_lifecycle")
        /\ Rebuild[2] = Do("deleteActivity", "member_daily_activity")
    BY RebuildBlocks, Zenon
  <2>3. /\ Rebuild[3] = Do("insertActivity", "member_daily_activity")
        /\ Rebuild[4] = Do("deleteMarkers", "guild_daily_active_members")
        /\ Rebuild[5] = Do("insertMarkers", "guild_daily_active_members")
    BY RebuildOrder, RebuildAt DEF ActivityInsertion
  <2>4. j = 2 => k = 1
    BY <1>2
  <2>5. j = 3 => k = 2
    BY <1>2
  <2>6. j = 4 => k = 3
    BY <1>2
  <2>7. j = 5 => k = 4
    BY <1>2
  <2> QED
    BY <2>1, <2>2, <2>3, <2>4, <2>5, <2>6, <2>7, DoesNothingElse
    DEF ActivityInsertion, Insertion, CounterInsertion, j
<1>4. ASSUME NEW p \in 1 .. 9, j = 2 * p + 7, st = Insertion(MarkerTables[p])
      PROVE  /\ st # ActivityInsertion /\ \A t : st # CounterInsertion(t)
             /\ \A t : st = Insertion(t) => Rebuild[k] = Do("deleteMarkers", t)
  <2>1. k = 2 * p + 6
    BY <1>2, <1>4
  <2>2. Rebuild[k] = Do("deleteMarkers", MarkerTables[p])
    BY <2>1, RebuildAt
  <2> HIDE DEF st
  <2> QED BY <1>4, <2>2, DoesNothingElse DEF ActivityInsertion, Insertion, CounterInsertion
<1>5. ASSUME j = 7, st = CounterInsertion("guild_daily_activity")
      PROVE  /\ st # ActivityInsertion /\ \A t : st # Insertion(t)
             /\ \A t : st = CounterInsertion(t) => Rebuild[k] = Do("deleteCounters", t)
  <2>1. k = 6
    BY <1>2, <1>5
  <2>2. Rebuild[k] = Do("deleteCounters", "guild_daily_activity")
    BY <2>1, CountersAt
  <2> HIDE DEF st
  <2> QED BY <1>5, <2>2, DoesNothingElse DEF ActivityInsertion, Insertion, CounterInsertion
<1>6. ASSUME NEW p \in 1 .. 4, j = 2 * p + 25, st = CounterInsertion(CounterTables[p])
      PROVE  /\ st # ActivityInsertion /\ \A t : st # Insertion(t)
             /\ \A t : st = CounterInsertion(t) => Rebuild[k] = Do("deleteCounters", t)
  <2>1. k = 2 * p + 24
    BY <1>2, <1>6
  <2>2. Rebuild[k] = Do("deleteCounters", CounterTables[p])
    BY <2>1, CountersAt
  <2> HIDE DEF st
  <2> QED BY <1>6, <2>2, DoesNothingElse DEF ActivityInsertion, Insertion, CounterInsertion
<1>7. ASSUME st.op \in {"deleteMarkers", "deleteCounters", "recount"}
      PROVE  /\ st # ActivityInsertion /\ \A t : st # Insertion(t) /\ st # CounterInsertion(t)
  BY <1>7, DoesNothingElse DEF ActivityInsertion, Insertion, CounterInsertion
<1>8. \/ j \in 1 .. 5 \/ st.op \in {"deleteMarkers", "deleteCounters", "recount"}
      \/ \E p \in 1 .. 9 : j = 2 * p + 7 /\ st = Insertion(MarkerTables[p])
      \/ j = 7 /\ st = CounterInsertion("guild_daily_activity")
      \/ \E p \in 1 .. 4 : j = 2 * p + 25 /\ st = CounterInsertion(CounterTables[p])
  BY <1>1, CounterPlaces, DoesNothingElse
<1> HIDE DEF st
<1>9. CASE st.op \in {"deleteMarkers", "deleteCounters", "recount"}
  BY <1>7, <1>9 DEF st, j
<1> QED BY <1>3, <1>4, <1>5, <1>6, <1>8, <1>9 DEF st, j

\* What a statement leaves to do.
LEMMA GoesLater ==
  ASSUME JobOK, todo # << >>, Goes
  PROVE  \E k \in 1 .. 34 :
           /\ Follows(Head(todo), k)
           /\ \A st : Later(st, k) => st \in Range(todo')
           /\ \A st : st \in Range(todo) => st \in Range(todo') \/ Head(todo) = st
           /\ todo' # << >> =>
                /\ Head(todo') = ActivityInsertion => Head(todo).op = "deleteActivity"
                /\ \A t : Head(todo') = Insertion(t) => Head(todo) = Do("deleteMarkers", t)
                /\ \A t : Head(todo') = CounterInsertion(t) => Head(todo) = Do("deleteCounters", t)
<1>1. PICK n \in 0 .. 34 : todo = Left(n)
  BY DEF JobOK
<1>2. n \in 1 .. 34 /\ n - 1 \in 0 .. 34
  <2>1. n # 0
    BY <1>1, NoneLeft
  <2> QED BY <2>1
<1> DEFINE k == 35 - n
           st == Rebuild[k]
<1>3. /\ Head(Left(n)) = st /\ Tail(Left(n)) = Left(n - 1)
  BY <1>2, FirstLeft
<1>4. Head(todo) = st /\ todo' = Left(n - 1) /\ k \in 1 .. 34 /\ 35 - (n - 1) = k + 1
  BY <1>1, <1>2, <1>3 DEF Goes
<1>5. \A x : x \in Range(todo) <=> \E j \in k .. 34 : x = Rebuild[j]
  BY <1>1, StillLeft
<1>6. PICK m \in 0 .. 34 : m = n - 1
  BY <1>2
<1>7. todo' = Left(m) /\ 35 - m = k + 1
  BY <1>4, <1>6
<1>8. \A x : x \in Range(todo') <=> \E j \in (k + 1) .. 34 : x = Rebuild[j]
  <2>1. \A x : x \in Range(Left(m)) <=> \E j \in (35 - m) .. 34 : x = Rebuild[j]
    BY StillLeft
  <2> HIDE DEF k
  <2> QED BY <1>7, <2>1
<1>9. todo' # << >> => k \in 1 .. 33 /\ Head(todo') = Rebuild[k + 1]
  <2> SUFFICES ASSUME todo' # << >>
               PROVE  k \in 1 .. 33 /\ Head(todo') = Rebuild[k + 1]
    OBVIOUS
  <2>1. m # 0
    BY <1>7, NoneLeft
  <2>2. m \in 1 .. 34
    BY <2>1
  <2>3. Head(Left(m)) = Rebuild[35 - m]
    BY <2>2, FirstLeft
  <2>4. k \in 1 .. 33
    BY <1>6, <2>2
  <2> HIDE DEF k
  <2> QED BY <1>7, <2>3, <2>4
<1> HIDE DEF k
<1>10. Follows(st, k)
  BY <1>4, AllFollows
<1>11. \A x : Later(x, k) => x \in Range(todo')
  BY <1>8 DEF Later
<1>12. \A x : x \in Range(todo) => x \in Range(todo') \/ st = x
  <2>1. \A j \in k .. 34 : j = k \/ j \in (k + 1) .. 34
    BY <1>4
  <2> QED BY <1>5, <1>8, <2>1
<1>13. todo' # << >> =>
         /\ Head(todo') = ActivityInsertion => st.op = "deleteActivity"
         /\ \A t : Head(todo') = Insertion(t) => st = Do("deleteMarkers", t)
         /\ \A t : Head(todo') = CounterInsertion(t) => st = Do("deleteCounters", t)
  BY <1>9, DeletionFirst
<1> HIDE DEF st
<1> QED BY <1>4, <1>10, <1>11, <1>12, <1>13

-----------------------------------------------------------------------------
(* What is derived is exact.                                                *)

ActivityAgrees == {a \in activity : a[2] \in ActivityDays} = ActivityFromMessages

MarkersAgree(table) ==
  {mk \in markers : mk.table = table /\ Concerned(mk)}
    = {mk \in StartupMarkers(table, markers) : Concerned(mk)}

CellsConcerned(table) == {c \in Cells : c[1].table = table /\ ConcernedRow(c[1])}

CountersAgree(table) ==
  \A c \in CellsConcerned(table) : Copies(c, counts) = Copies(c, Derived(table))

AtStatement(st) == todo # << >> /\ Head(todo) = st

\* What has been derived agrees, and what is about to be has been deleted.
Derivation ==
  /\ ActivityInsertion \notin Range(todo) => ActivityAgrees
  /\ AtStatement(ActivityInsertion) => {a \in activity : a[2] \in ActivityDays} = {}
  /\ \A table \in RebuiltTables :
       /\ Insertion(table) \notin Range(todo) => MarkersAgree(table)
       /\ AtStatement(Insertion(table)) => {mk \in markers : mk.table = table /\ Concerned(mk)} = {}
  /\ \A table \in RebuiltCounters :
       /\ CounterInsertion(table) \notin Range(todo) => CountersAgree(table)
       /\ AtStatement(CounterInsertion(table)) =>
            \A c \in CellsConcerned(table) : Copies(c, counts) = 0

ExactInv == status = "running" /\ ~raced => Derivation

\* A job's step leaves its scope as it is.
LEMMA ScopeKept ==
  ASSUME TypeInv, NEW t, JobStepsAre(t)
  PROVE  /\ Authors' = Authors /\ ActivityFromMessages' = ActivityFromMessages
         /\ \A mk : Concerned(mk)' = Concerned(mk)
<1>1. HumanMessages' = HumanMessages
  BY IndexKept
<1>2. log' = log
  BY DEF JobStepsAre, BreaksOff, Goes
<1>3. Authors' = Authors
  BY <1>1, <1>2 DEF Authors, InTime
<1>4. ActivityFromMessages' = ActivityFromMessages
  BY <1>1, <1>2 DEF ActivityFromMessages
<1> QED BY <1>3, <1>4 DEF Concerned

LEMMA ExactActivity ==
  ASSUME TypeInv, JobOK, NEW t, JobStepsAre(t), ~BreaksOff, Derivation
  PROVE  /\ (ActivityInsertion \notin Range(todo) => ActivityAgrees)'
         /\ (AtStatement(ActivityInsertion) => {a \in activity : a[2] \in ActivityDays} = {})'
<1> DEFINE st == Head(todo)
           x == ActivityInsertion
<1>1. todo # << >> /\ Goes
  BY DEF JobStepsAre
<1>2. PICK k \in 1 .. 34 :
        /\ Follows(st, k)
        /\ \A y : Later(y, k) => y \in Range(todo')
        /\ \A y : y \in Range(todo) => y \in Range(todo') \/ st = y
        /\ todo' # << >> => (Head(todo') = x => st.op = "deleteActivity")
  BY <1>1, GoesLater
<1>3. ActivityFromMessages' = ActivityFromMessages
        /\ ActivityFromMessages \subseteq {a \in ActivityFromMessages : a[2] \in ActivityDays}
  BY ScopeKept DEF ActivityFromMessages
<1>4. x.op = "insertActivity"
  BY DoesNothingElse DEF ActivityInsertion
<1> HIDE DEF st, x
<1>5. st.op = "deleteActivity" => x \in Range(todo')
  BY <1>2 DEF Follows, x
<1>6. \A y, z : Do(y, z).op = y
  BY DoesNothingElse
<1>7. ASSUME x \notin Range(todo')
      PROVE  ActivityAgrees'
  <2>1. CASE x \notin Range(todo)
    <3>1. {a \in activity : a[2] \in ActivityDays} = ActivityFromMessages
      BY <2>1 DEF Derivation, ActivityAgrees, x
    <3>2. CASE InsertActivity
      BY <1>3, <3>1, <3>2 DEF InsertActivity, ActivityAgrees
    <3>3. CASE activity' = activity
      BY <1>3, <3>1, <3>3 DEF ActivityAgrees
    <3> QED BY <1>5, <1>7, <3>2, <3>3 DEF JobStepsAre, st
  <2>2. CASE st = x
    <3>1. InsertActivity
      BY <1>4, <1>6, <2>2 DEF JobStepsAre, st, Insertion
    <3>2. {a \in activity : a[2] \in ActivityDays} = {}
      BY <1>1, <2>2 DEF Derivation, AtStatement, st, x
    <3> QED BY <1>3, <3>1, <3>2 DEF InsertActivity, ActivityAgrees
  <2> QED BY <1>2, <1>7, <2>1, <2>2
<1>8. ASSUME todo' # << >>, Head(todo') = x
      PROVE  {a \in activity' : a[2] \in ActivityDays} = {}
  <2>1. st.op = "deleteActivity"
    BY <1>2, <1>8
  <2>2. DeleteActivity
    BY <1>6, <2>1 DEF JobStepsAre, st, Insertion
  <2> QED BY <2>2 DEF DeleteActivity
<1> QED BY <1>7, <1>8 DEF x, AtStatement

-----------------------------------------------------------------------------
(* The markers.                                                             *)

\* The tables that the markers of a table are derived from.
Sources(table) ==
  CASE table = "channel_retention_d7_members" -> {"message_index", "retention_cohort_d7_members"}
    [] table = "channel_retention_d30_members" -> {"message_index", "retention_cohort_d30_members"}
    [] OTHER -> {}

LEMMA StartupKept ==
  ASSUME UNCHANGED <<log, lifecycle, activity>>, NEW table,
         \A mk : mk.table \in Sources(table) => (mk \in markers <=> mk \in markers')
  PROVE  StartupMarkers(table, markers)' = StartupMarkers(table, markers)
<1>1. /\ ActiveMarkers' = ActiveMarkers /\ OnboardedMarkers' = OnboardedMarkers
      /\ \A m : Joined(m)' = Joined(m)
  BY DEF ActiveMarkers, OnboardedMarkers, Joined
<1>2. \A column : LifecycleMarkers(table, column)' = LifecycleMarkers(table, column)
  BY DEF LifecycleMarkers
<1>3. \A ages : RetainedMarkers(table, ages)' = RetainedMarkers(table, ages)
  BY <1>1 DEF RetainedMarkers
<1>4. StepMarkers(table)' = StepMarkers(table)
  BY <1>1 DEF StepMarkers, Eligible
<1>5. ASSUME NEW retained, Sources(table) = {"message_index", retained}
      PROVE  ContributionMarkers(table, retained, markers)' = ContributionMarkers(table, retained, markers)
  <2> DEFINE wrote(r, mks) ==
               {x \in mks : /\ x.table = "message_index" /\ x.member = r.member
                            /\ log[x.of].at >= Joined(r.member)
                            /\ log[x.of].at < Joined(r.member) + 7 * PerDay}
             kept(mks) == {r \in mks : r.table = retained /\ Joined(r.member) # None}
  <2>1. kept(markers') = kept(markers) /\ \A r : wrote(r, markers') = wrote(r, markers)
    BY <1>5
  <2> DEFINE made(mks) == UNION {{Marker(table, r.member, log[x.of].channel, r.day) :
                                    x \in wrote(r, mks)} : r \in kept(mks)}
  <2>2. made(markers') = made(markers)
    <3> HIDE DEF kept, wrote
    <3> QED BY <2>1
  <2>3. ContributionMarkers(table, retained, markers) = made(markers)
    BY DEF ContributionMarkers
  <2>4. ContributionMarkers(table, retained, markers)' = made(markers')
    BY <1>1 DEF ContributionMarkers
  <2> QED BY <2>2, <2>3, <2>4
<1>6. CASE table = "channel_retention_d7_members"
  BY <1>5, <1>6 DEF StartupMarkers, Sources
<1>7. CASE table = "channel_retention_d30_members"
  BY <1>5, <1>7 DEF StartupMarkers, Sources
<1>8. CASE table \notin {"channel_retention_d7_members", "channel_retention_d30_members"}
  BY <1>1, <1>2, <1>3, <1>4, <1>8 DEF StartupMarkers
<1> QED BY <1>6, <1>7, <1>8

\* Markers with the same key are of the scope both or neither.
LEMMA SameConcern ==
  ASSUME NEW a, NEW b, SameKey(a, b), a.table \in RebuiltTables
  PROVE  Concerned(a) = Concerned(b)
<1>1. a.table \in ByMember => a.table = "guild_onboarded_members"
  BY RebuiltAre DEF ByMember
<1> QED BY <1>1 DEF SameKey, Concerned

LEMMA ExactMarkers ==
  ASSUME TypeInv, JobOK, NEW t, JobStepsAre(t), ~BreaksOff, Derivation, NEW table \in RebuiltTables
  PROVE  /\ (Insertion(table) \notin Range(todo) => MarkersAgree(table))'
         /\ (AtStatement(Insertion(table)) => {mk \in markers : mk.table = table /\ Concerned(mk)} = {})'
<1> DEFINE st == Head(todo)
           x == Insertion(table)
           ofTable == {mk \in markers : mk.table = table /\ Concerned(mk)}
           made == StartupMarkers(table, markers)
<1>1. todo # << >> /\ Goes
  BY DEF JobStepsAre
<1>2. PICK k \in 1 .. 34 :
        /\ Follows(st, k)
        /\ \A y : Later(y, k) => y \in Range(todo')
        /\ \A y : y \in Range(todo) => y \in Range(todo') \/ st = y
        /\ todo' # << >> => (Head(todo') = x => st = Do("deleteMarkers", table))
  BY <1>1, GoesLater
<1>3. \A mk : Concerned(mk)' = Concerned(mk)
  BY ScopeKept
<1>4. \A y, z : Do(y, z).op = y /\ Do(y, z).arg = z
  BY DoesNothingElse
<1>5. log' = log
  BY <1>1 DEF Goes
<1> HIDE DEF st, x
<1>6. ASSUME x \notin Range(todo')
      PROVE  MarkersAgree(table)'
  <2>1. st.op \notin {"lifecycle", "deleteActivity", "insertActivity"}
    BY <1>2, <1>6 DEF Follows, x
  <2>2. lifecycle' = lifecycle /\ activity' = activity
    BY <2>1, <1>6 DEF JobStepsAre, st
  <2>3. ASSUME t \in RebuiltTables, st = Do("deleteMarkers", t) \/ st = Insertion(t)
        PROVE  t \notin Sources(table)
    <3>1. st.op \in {"deleteMarkers", "insertMarkers"} /\ st.arg = t
      BY <1>4, <2>3 DEF Insertion
    <3>2. t = "retention_cohort_d7_members" => Insertion("channel_retention_d7_members") \in Range(todo')
      BY <1>2, <3>1 DEF Follows
    <3>3. t = "retention_cohort_d30_members" => Insertion("channel_retention_d30_members") \in Range(todo')
      BY <1>2, <3>1 DEF Follows
    <3>4. t # "message_index"
      BY <2>3, RebuiltAre
    <3> QED BY <1>6, <3>2, <3>3, <3>4 DEF Sources, x
  <2>4. ASSUME t \in RebuiltTables, st = Do("deleteMarkers", t)
        PROVE  t # table
    <3>1. st.op = "deleteMarkers" /\ st.arg = t
      BY <1>4, <2>4
    <3>2. Insertion(t) \in Range(todo')
      BY <1>2, <3>1 DEF Follows
    <3> QED BY <1>6, <3>2 DEF x
  <2>5. ASSUME \A mk : mk.table \in Sources(table) => (mk \in markers <=> mk \in markers')
        PROVE  StartupMarkers(table, markers)' = made
    BY <1>5, <2>2, <2>5, StartupKept
  <2>6. ASSUME ofTable = {mk \in made : Concerned(mk)},
               \A mk : mk.table = table => (mk \in markers <=> mk \in markers'),
               StartupMarkers(table, markers)' = made
        PROVE  MarkersAgree(table)'
    <3>1. {mk \in markers' : mk.table = table /\ Concerned(mk)'} = ofTable
      BY <1>3, <2>6
    <3>2. {mk \in made : Concerned(mk)'} = {mk \in made : Concerned(mk)}
      BY <1>3
    <3> HIDE DEF made
    <3> QED BY <2>6, <3>1, <3>2 DEF MarkersAgree
  <2>7. ASSUME st # x
        PROVE  ofTable = {mk \in made : Concerned(mk)}
    BY <1>2, <1>6, <2>7 DEF Derivation, MarkersAgree, x
  <2>8. CASE t \in RebuiltTables /\ st = Do("deleteMarkers", t) /\ DeleteMarkers
    <3>1. \A mk : mk.table # t => (mk \in markers <=> mk \in markers')
      BY <2>8, DeletionIs DEF st
    <3>2. st # x
      BY <1>4, <2>8 DEF x, Insertion
    <3>3. \A mk : mk.table \in Sources(table) => (mk \in markers <=> mk \in markers')
      BY <2>3, <2>8, <3>1
    <3>4. \A mk : mk.table = table => (mk \in markers <=> mk \in markers')
      BY <2>4, <2>8, <3>1
    <3> HIDE DEF ofTable, made
    <3> QED BY <2>5, <2>6, <2>7, <3>2, <3>3, <3>4
  <2>9. CASE t \in RebuiltTables /\ st = Insertion(t) /\ InsertMarkers
    <3> DEFINE N == {mk \in {y \in StartupMarkers(t, markers) : Concerned(y)} :
                       ~\E old \in markers : SameKey(old, mk)}
    <3>1. markers' = markers \union N /\ \A mk \in StartupMarkers(t, markers) : mk.table = t
      BY <2>9, InsertionIs DEF st
    <3>2. \A mk : mk.table # t => (mk \in markers <=> mk \in markers')
      <4>1. \A mk \in N : mk.table = t
        BY <3>1
      <4> HIDE DEF N
      <4> QED BY <3>1, <4>1
    <3>3. \A mk : mk.table \in Sources(table) => (mk \in markers <=> mk \in markers')
      BY <2>3, <2>9, <3>2
    <3>4. StartupMarkers(table, markers)' = made
      BY <2>5, <3>3
    <3>5. CASE t # table
      <4>1. st # x
        <5>1. x.arg = table /\ st.arg = t
          BY <1>4, <2>9 DEF x, Insertion
        <5> QED BY <3>5, <5>1
      <4>2. \A mk : mk.table = table => (mk \in markers <=> mk \in markers')
        BY <3>2, <3>5
      <4> HIDE DEF ofTable, made
      <4> QED BY <2>6, <2>7, <3>4, <4>1, <4>2
    <3>6. CASE t = table
      <4>1. ofTable = {}
        BY <1>1, <2>9, <3>6 DEF Derivation, AtStatement, st
      <4>2. ASSUME NEW mk \in made, Concerned(mk), NEW old \in markers, SameKey(old, mk)
            PROVE  FALSE
        <5>1. old.table = table
          BY <3>1, <3>6, <4>2 DEF SameKey
        <5>2. Concerned(old)
          BY <4>2, <5>1, SameConcern
        <5> QED BY <4>1, <5>1, <5>2
      <4>3. N = {mk \in made : Concerned(mk)}
        BY <3>6, <4>2
      <4>4. {mk \in markers' : mk.table = table /\ Concerned(mk)} = {mk \in made : Concerned(mk)}
        <5>1. \A mk \in N : mk.table = table /\ Concerned(mk)
          BY <3>1, <3>6
        <5>2. \A mk \in markers : ~(mk.table = table /\ Concerned(mk))
          BY <4>1
        <5> HIDE DEF N, made, ofTable
        <5> QED BY <3>1, <4>3, <5>1, <5>2
      <4>5. {mk \in markers' : mk.table = table /\ Concerned(mk)'} = {mk \in made : Concerned(mk)'}
        <5> HIDE DEF made
        <5> QED BY <1>3, <4>4
      <4> HIDE DEF made
      <4> QED BY <3>4, <4>5 DEF MarkersAgree
    <3> QED BY <3>5, <3>6
  <2>10. CASE markers' = markers /\ st.op \in {"deleteCounters", "insertCounters", "recount"}
    <3>1. st # x
      BY <1>4, <2>10 DEF x, Insertion
    <3>2. StartupMarkers(table, markers)' = made
      BY <2>5, <2>10
    <3> HIDE DEF ofTable, made
    <3> QED BY <2>6, <2>7, <2>10, <3>1, <3>2
  <2> QED BY <2>1, <2>8, <2>9, <2>10 DEF JobStepsAre, st
<1>7. ASSUME todo' # << >>, Head(todo') = x
      PROVE  {mk \in markers' : mk.table = table /\ Concerned(mk)'} = {}
  <2>1. st = Do("deleteMarkers", table)
    BY <1>2, <1>7
  <2>2. DeleteMarkers /\ Head(todo) = Do("deleteMarkers", table)
    <3>1. st.op = "deleteMarkers"
      BY <1>4, <2>1
    <3> QED BY <1>4, <2>1, <3>1 DEF JobStepsAre, st, Insertion
  <2>3. markers' = {mk \in markers : mk.table = table => ~Concerned(mk)}
    BY <2>2, DeletionIs
  <2> QED BY <1>3, <2>3
<1> QED BY <1>6, <1>7 DEF x, AtStatement

-----------------------------------------------------------------------------
(* The counters.                                                            *)

LEMMA CellConcerned ==
  ASSUME NEW table, NEW c \in CellsConcerned(table)
  PROVE  c \in Cells /\ c[1].table = table /\ ConcernedRow(c[1])
BY DEF CellsConcerned

\* Within the scope, guild_daily_activity counts the messages of the index.
DailyIs ==
  \A c \in CellsConcerned("guild_daily_activity") :
    Copies(c, Derived("guild_daily_activity")) = Cardinality(CalledBy(c, markers))

LEMMA DailyDerived ==
  TypeInv => DailyIs
<1> SUFFICES ASSUME TypeInv, NEW c \in CellsConcerned("guild_daily_activity")
             PROVE  Copies(c, Derived("guild_daily_activity")) = Cardinality(CalledBy(c, markers))
  BY DEF DailyIs
<1> DEFINE B == Called(markers)
           D == OfTable(B, "guild_daily_activity")
<1>1. BagOf(Cells, B) /\ Copies(c, B) = Cardinality(CalledBy(c, markers))
  BY CalledBag DEF TypeInv, MemberTablesOK
<1>2. Derived("guild_daily_activity") = OfConcern(D)
  BY DEF Derived, FillCounters
<1> HIDE DEF B
<1>3. Copies(c, D) = Copies(c, B)
  BY <1>1, CellConcerned, TablesBag DEF OfTable
<1> HIDE DEF D
<1>4. Copies(c, OfConcern(D)) = Copies(c, D)
  BY CellConcerned DEF OfConcern, Copies
<1> QED BY <1>1, <1>2, <1>3, <1>4

LEMMA CallsDaily ==
  ASSUME NEW mk, mk.table \in RebuiltTables, NEW c \in Range(CountedIn(mk))
  PROVE  c[1].table # "guild_daily_activity"
<1> DEFINE in(table, column) == Cell(table, Whole, mk.day, column)
           inChannel(column) == Cell("channel_retention_daily", mk.of, mk.day, column)
<1>1. /\ \A column : in("guild_summary_daily", column)[1].table = "guild_summary_daily"
      /\ \A column : in("retention_cohorts", column)[1].table = "retention_cohorts"
      /\ \A column : in("activation_funnel_daily", column)[1].table = "activation_funnel_daily"
      /\ \A column : inChannel(column)[1].table = "channel_retention_daily"
  BY CellIs
<1> HIDE DEF in, inChannel
<1>2. PICK j \in DOMAIN CountedIn(mk) : c = CountedIn(mk)[j]
  BY DEF Range
<1>3. mk.day # None
  BY <1>2 DEF CountedIn
<1>4. CASE mk.table = "retention_cohort_d7_members"
  <2>1. CountedIn(mk) = <<in("retention_cohorts", "d7_retained_members"),
                           in("activation_funnel_daily", "returned_next_week_members")>>
    BY <1>3, <1>4 DEF CountedIn, Milestones, in
  <2> QED BY <1>1, <1>2, <2>1
<1>5. CASE mk.table \in {"channel_retention_d7_members", "channel_retention_d30_members"}
  <2>1. \E column : CountedIn(mk) = <<inChannel(column)>>
    BY <1>3, <1>5 DEF CountedIn, Milestones, inChannel
  <2> QED BY <1>1, <1>2, <2>1
<1>6. CASE mk.table \in Milestones
  <2>1. CountedIn(mk) = <<in("activation_funnel_daily", mk.table)>>
    BY <1>3, <1>6 DEF CountedIn, Milestones, in
  <2> QED BY <1>1, <1>2, <2>1
<1>7. CASE mk.table = "retention_cohort_d30_members"
  <2>1. CountedIn(mk) = <<in("retention_cohorts", "d30_retained_members")>>
    BY <1>3, <1>7 DEF CountedIn, Milestones, in
  <2> QED BY <1>1, <1>2, <2>1
<1>8. CASE mk.table \in {"guild_onboarded_members", "guild_daily_active_members"}
  <2>1. \E column : CountedIn(mk) = <<in("guild_summary_daily", column)>>
    BY <1>3, <1>8 DEF CountedIn, Milestones, in
  <2> QED BY <1>1, <1>2, <2>1
<1> QED BY <1>4, <1>5, <1>6, <1>7, <1>8, RebuiltAre DEF Milestones

\* Deriving a table again would make the same of it while what it is derived
\* from stays.
LEMMA DerivedKept ==
  ASSUME UNCHANGED <<log, lifecycle, markers>>, NEW table,
         \/ table = "guild_daily_activity"
         \/ OfTable(counts, "guild_daily_activity")' = OfTable(counts, "guild_daily_activity")
  PROVE  Derived(table)' = Derived(table)
<1> DEFINE daily == OfTable(counts, "guild_daily_activity")
<1>1. \A m : Joined(m)' = Joined(m)
  BY DEF Joined
<1>2. \A t, column, ms : ByCohort(t, column, ms)' = ByCohort(t, column, ms)
  BY <1>1 DEF ByCohort
<1>3. CASE table = "guild_daily_activity"
  BY <1>3 DEF Derived, FillCounters
<1>4. CASE table # "guild_daily_activity"
  <2>1. daily' = daily
    BY <1>4
  <2>2. \A marked : CohortRows(marked)' = CohortRows(marked) /\ FunnelRows(marked)' = FunnelRows(marked)
    BY <1>2 DEF CohortRows, FunnelRows
  <2>3. \A marked, onboarded, d : SummaryRows(marked, onboarded, d)' = SummaryRows(marked, onboarded, d)
    BY <1>2 DEF SummaryRows
  <2>4. \A d : FillCounters(table, markers, d)' = FillCounters(table, markers, d)
    BY <2>2, <2>3 DEF FillCounters
  <2> HIDE DEF daily
  <2>5. Derived(table) = OfConcern(FillCounters(table, markers, daily))
    BY DEF Derived, daily
  <2>6. Derived(table)' = OfConcern(FillCounters(table, markers, daily))
    <3>1. \A d : FillCounters(table, markers, d)' = FillCounters(table, markers, d)
      BY <2>4
    <3>2. PICK d : d = daily
      OBVIOUS
    <3>3. FillCounters(table, markers, daily)' = FillCounters(table, markers, d)
      BY <2>1, <3>1, <3>2
    <3> QED BY <3>2, <3>3 DEF Derived, daily, OfConcern
  <2> QED BY <2>5, <2>6
<1> QED BY <1>3, <1>4

\* A bag of the cells of a table says what its copies say.
LEMMA SameTable ==
  ASSUME NEW S, NEW A, NEW B, BagOf(S, A), BagOf(S, B), NEW table,
         \A c : c[1].table = table => Copies(c, A) = Copies(c, B)
  PROVE  OfTable(A, table) = OfTable(B, table)
<1>1. \A c : c[1].table = table => (c \in DOMAIN A <=> c \in DOMAIN B)
  BY CopiesAre
<1>2. \A c \in DOMAIN A : c[1].table = table => A[c] = B[c]
  BY <1>1 DEF Copies
<1>3. {c \in DOMAIN A : c[1].table \in {table}} = {c \in DOMAIN B : c[1].table \in {table}}
  BY <1>1
<1> QED BY <1>2, <1>3 DEF OfTable, OfTables

LEMMA ExactCounters ==
  ASSUME TypeInv, TypeInv', JobOK, JobStep, Goes, Derivation, NEW table \in RebuiltCounters
  PROVE  /\ (CounterInsertion(table) \notin Range(todo) => CountersAgree(table))'
         /\ (AtStatement(CounterInsertion(table)) =>
               \A c \in CellsConcerned(table) : Copies(c, counts) = 0)'
<1> DEFINE st == Head(todo)
           x == CounterInsertion(table)
           daily == "guild_daily_activity"
<1>1. todo # << >>
  BY DEF JobStep, RebuildLifecycle, DeleteActivity, InsertActivity, DeleteMarkers, InsertMarkers,
         DeleteCounters, InsertCounters, InsertConflicts, Recount, Rebuilding
<1>2. PICK k \in 1 .. 34 :
        /\ Follows(st, k)
        /\ \A y : Later(y, k) => y \in Range(todo')
        /\ \A y : y \in Range(todo) => y \in Range(todo') \/ st = y
        /\ todo' # << >> => (Head(todo') = x => st = Do("deleteCounters", table))
  BY <1>1, GoesLater
<1>3. \A y, z : Do(y, z).op = y /\ Do(y, z).arg = z
  BY DoesNothingElse
<1>4. x.op = "insertCounters" /\ x.arg = table
  BY <1>3 DEF CounterInsertion
<1>5. log' = log
  BY DEF Goes
<1>6. BagOf(Cells, counts) /\ BagOf(Cells, counts')
  BY DEF TypeInv, CountersOK
<1>7. table \in Range(CounterTables) \/ table = daily
  BY DEF RebuiltCounters
<1>8. \A c : c \in CellsConcerned(table) => c \in Cells /\ c[1].table = table /\ ConcernedRow(c[1])
  BY CellConcerned
<1>9. daily \notin Range(CounterTables)
  BY DEF Range, CounterTables
<1> HIDE DEF st, x, daily
<1>10. ASSUME x \notin Range(todo'), st # x
       PROVE  \A c \in CellsConcerned(table) : Copies(c, counts) = Copies(c, Derived(table))
  BY <1>2, <1>10 DEF Derivation, CountersAgree, x
<1>11. ASSUME x \notin Range(todo'), st.op \in {"deleteMarkers", "insertMarkers"},
              DeleteMarkers \/ InsertMarkers
       PROVE  CountersAgree(table)'
  <2>1. table = daily
    BY <1>2, <1>7, <1>11 DEF Follows, x
  <2>2. counts' = counts
    BY <1>11 DEF DeleteMarkers, InsertMarkers
  <2>3. \A mk : mk.table \notin RebuiltTables => (mk \in markers <=> mk \in markers')
    <3>1. JobStep
      OBVIOUS
    <3>2. PICK t : JobStepsAre(t)
      BY JobSteps
    <3>3. ASSUME t \in RebuiltTables, Head(todo) = Do("deleteMarkers", t), DeleteMarkers
          PROVE  \A mk : mk.table \notin RebuiltTables => (mk \in markers <=> mk \in markers')
      BY <3>3, DeletionIs
    <3>4. ASSUME t \in RebuiltTables, Head(todo) = Insertion(t), InsertMarkers
          PROVE  \A mk : mk.table \notin RebuiltTables => (mk \in markers <=> mk \in markers')
      BY <3>4, InsertionIs
    <3>5. CASE markers' = markers
      BY <3>5
    <3> QED BY <3>2, <3>3, <3>4, <3>5 DEF JobStepsAre, BreaksOff, tableVars
  <2>4. ASSUME NEW c \in CellsConcerned(table)
        PROVE  CalledBy(c, markers') = CalledBy(c, markers)
    <3>1. c[1].table = "guild_daily_activity"
      BY <1>8, <2>1 DEF daily
    <3>2. \A mk : c \in Range(CountedIn(mk)) => mk.table \notin RebuiltTables
      BY <3>1, CallsDaily
    <3> QED BY <2>3, <3>2 DEF CalledBy
  <2>5. DailyIs /\ DailyIs'
    <3>1. DailyIs
      BY DailyDerived
    <3>2. TypeInv' => DailyIs'
      BY DailyDerived, PTL
    <3> QED BY <3>1, <3>2
  <2>6. ASSUME NEW c \in CellsConcerned(table)
        PROVE  /\ Copies(c, Derived(table)) = Cardinality(CalledBy(c, markers))
               /\ Copies(c, Derived(table)') = Cardinality(CalledBy(c, markers'))
    <3>1. c \in CellsConcerned("guild_daily_activity") /\ table = "guild_daily_activity"
      BY <2>1 DEF daily
    <3>2. CellsConcerned("guild_daily_activity")' = CellsConcerned("guild_daily_activity")
      BY DEF CellsConcerned, ConcernedRow
    <3>3. /\ Copies(c, Derived("guild_daily_activity")) = Cardinality(CalledBy(c, markers))
          /\ (Copies(c, Derived("guild_daily_activity")) = Cardinality(CalledBy(c, markers)))'
      BY <2>5, <3>1, <3>2 DEF DailyIs
    <3>4. (Copies(c, Derived("guild_daily_activity")) = Cardinality(CalledBy(c, markers)))'
           <=> Copies(c, Derived("guild_daily_activity")') = Cardinality(CalledBy(c, markers'))
      BY DEF Copies, CalledBy
    <3> QED BY <3>1, <3>3, <3>4
  <2>7. st # x
    BY <1>4, <1>11
  <2>8. \A c \in CellsConcerned(table) : Copies(c, counts) = Copies(c, Derived(table)')
    BY <1>10, <1>11, <2>4, <2>6, <2>7
  <2> QED BY <2>2, <2>8 DEF CountersAgree, Copies, CellsConcerned, ConcernedRow
<1>12. ASSUME UNCHANGED <<lifecycle, markers>>,
              \A c : c[1].table = table => Copies(c, counts') = Copies(c, counts),
              table = daily \/ \A c : c[1].table = daily => Copies(c, counts') = Copies(c, counts),
              \A c \in CellsConcerned(table) : Copies(c, counts) = Copies(c, Derived(table))
       PROVE  CountersAgree(table)'
  <2>1. Derived(table)' = Derived(table)
    <3>1. table = daily \/ OfTable(counts', daily) = OfTable(counts, daily)
      BY <1>6, <1>12, SameTable
    <3>2. OfTable(counts, daily)' = OfTable(counts', daily)
      BY DEF OfTable, OfTables, daily
    <3> QED BY <1>5, <1>12, <3>1, <3>2, DerivedKept DEF daily
  <2>2. \A c \in CellsConcerned(table) : Copies(c, counts') = Copies(c, Derived(table)')
    BY <1>8, <1>12, <2>1
  <2> QED BY <2>2 DEF CountersAgree, Copies, CellsConcerned, ConcernedRow
<1>13. ASSUME x \notin Range(todo'), DeleteCounters
       PROVE  CountersAgree(table)'
  <2> DEFINE u == st.arg
             stays(row) == row.table = u => ~ConcernedRow(row)
  <2>1. st.op = "deleteCounters" /\ st # x
    BY <1>4, <1>13 DEF DeleteCounters, Rebuilding, st
  <2>2. u # table /\ (u = daily => table = daily)
    BY <1>2, <1>7, <1>13, <2>1 DEF Follows, x, daily
  <2>3. counts' = [c \in {c \in DOMAIN counts : stays(c[1])} |-> counts[c]]
    BY <1>13 DEF DeleteCounters, st
  <2>4. \A c : c[1].table # u => Copies(c, counts') = Copies(c, counts)
    BY <2>3 DEF Copies
  <2>5. UNCHANGED <<lifecycle, markers>>
    BY <1>13 DEF DeleteCounters
  <2> HIDE DEF u
  <2> QED BY <1>10, <1>12, <1>13, <2>1, <2>2, <2>4, <2>5
<1>14. ASSUME x \notin Range(todo'), InsertCounters
       PROVE  CountersAgree(table)'
  <2> DEFINE u == st.arg
             D == Derived(u)
  <2>1. st.op = "insertCounters" /\ u \in RebuiltCounters
    BY <1>14, StatementAt DEF InsertCounters, Rebuilding, st
  <2>2. st = x <=> u = table
    <3>1. st = Do(st.op, st.arg)
      BY <1>1, Rebuilt, StatementDoes DEF st
    <3> QED BY <1>4, <2>1, <3>1 DEF x, CounterInsertion
  <2>3. u = daily => table = daily
    BY <1>2, <1>7, <1>14, <2>1 DEF Follows, x, daily
  <2>4. counts' = counts (+) D /\ UNCHANGED <<lifecycle, markers>>
    BY <1>14 DEF InsertCounters, st
  <2>5. BagOf(Cells, D) /\ BagOf(Part(u), D)
    BY <2>1, DerivedBag
  <2> HIDE DEF D, u
  <2>6. \A c : Copies(c, counts') = Copies(c, counts) + Copies(c, D)
    BY <1>6, <2>4, <2>5, AddedCopies
  <2>7. \A c : Copies(c, counts) \in Nat /\ Copies(c, D) \in Nat
    BY <1>6, <2>5, CopiesAre
  <2>8. \A c : c[1].table # u => Copies(c, counts') = Copies(c, counts)
    <3>1. \A c : c[1].table # u => Copies(c, D) = 0
      BY <2>5 DEF BagOf, Part, Copies
    <3> QED BY <2>6, <2>7, <3>1
  <2>9. CASE u # table
    BY <1>10, <1>12, <1>14, <2>2, <2>3, <2>4, <2>8, <2>9
  <2>10. CASE u = table
    <3>1. Derived(table)' = Derived(table)
      <4>1. table = daily \/ OfTable(counts', daily) = OfTable(counts, daily)
        BY <1>6, <2>3, <2>8, SameTable
      <4>2. OfTable(counts, daily)' = OfTable(counts', daily)
        BY DEF OfTable, OfTables, daily
      <4> QED BY <1>5, <2>4, <4>1, <4>2, DerivedKept DEF daily
    <3>2. \A c \in CellsConcerned(table) : Copies(c, counts) = 0
      BY <1>1, <2>2, <2>10 DEF Derivation, AtStatement, st, x
    <3>3. D = Derived(table)
      BY <2>10 DEF D
    <3>4. \A c \in CellsConcerned(table) : Copies(c, counts') = Copies(c, Derived(table)')
      BY <2>6, <2>7, <3>1, <3>2, <3>3
    <3> QED BY <3>4 DEF CountersAgree, Copies, CellsConcerned, ConcernedRow
  <2> QED BY <2>9, <2>10
<1>15. ASSUME x \notin Range(todo'), Recount
       PROVE  CountersAgree(table)'
  <2> DEFINE stats == Cell("public_stats_cache", Whole, 0, "messages")
             others == [c \in DOMAIN counts \ {stats} |-> counts[c]]
             n == Cardinality(IndexedMessages)
  <2>1. st.op = "recount" /\ st # x
    BY <1>4, <1>15 DEF Recount, Rebuilding, st
  <2>2. counts' = (IF n = 0 THEN others ELSE others (+) [c \in {stats} |-> n])
          /\ UNCHANGED <<lifecycle, markers>>
    BY <1>15 DEF Recount
  <2>3. stats[1].table = "public_stats_cache"
    BY CellIs
  <2> HIDE DEF stats, n
  <2>4. \A c : c # stats => Copies(c, others) = Copies(c, counts) /\ Copies(c, [d \in {stats} |-> n]) = 0
    BY DEF Copies
  <2>5. ASSUME NEW c, c # stats
        PROVE  Copies(c, others (+) [d \in {stats} |-> n]) = Copies(c, counts)
    <3>1. c \in DOMAIN others <=> c \in DOMAIN counts
      BY <2>5
    <3>2. BagOf(Cells, others)
      BY <1>6 DEF BagOf, IsABag
    <3>3. DOMAIN (others (+) [d \in {stats} |-> n]) = DOMAIN others \union {stats}
      BY DEF (+)
    <3>4. c \in DOMAIN others => (others (+) [d \in {stats} |-> n])[c] = others[c] + 0
      BY <2>5 DEF (+), Copies
    <3>5. c \in DOMAIN others => others[c] = counts[c] /\ counts[c] \in Nat
      BY <1>6 DEF BagOf, IsABag
    <3> HIDE DEF others
    <3> QED BY <2>5, <3>1, <3>3, <3>4, <3>5 DEF Copies
  <2>6. \A c : c # stats => Copies(c, counts') = Copies(c, counts)
    BY <2>2, <2>4, <2>5
  <2>7. table # "public_stats_cache" /\ daily # "public_stats_cache"
    BY RebuiltAre DEF daily
  <2>8. \A c : c[1].table # "public_stats_cache" => Copies(c, counts') = Copies(c, counts)
    BY <2>3, <2>6
  <2> QED BY <1>10, <1>12, <1>15, <2>1, <2>2, <2>7, <2>8
<1>16. ASSUME x \notin Range(todo')
       PROVE  CountersAgree(table)'
  <2>1. st.op \notin {"lifecycle", "deleteActivity", "insertActivity"}
    BY <1>2, <1>16 DEF Follows, x
  <2>2. ~RebuildLifecycle /\ ~DeleteActivity /\ ~InsertActivity
    BY <2>1 DEF RebuildLifecycle, DeleteActivity, InsertActivity, Rebuilding, st
  <2>3. DeleteMarkers \/ InsertMarkers => st.op \in {"deleteMarkers", "insertMarkers"}
    BY DEF DeleteMarkers, InsertMarkers, Rebuilding, st
  <2>4. ~InsertConflicts
    <3>1. InsertConflicts => todo' = << >> /\ status' = "broken"
      BY DEF InsertConflicts, BreaksOff
    <3>2. Goes /\ todo' = << >> => status' = "idle"
      BY DEF Goes
    <3> QED BY <3>1, <3>2
  <2> QED BY <1>11, <1>13, <1>14, <1>15, <1>16, <2>2, <2>3, <2>4 DEF JobStep
<1>17. ASSUME todo' # << >>, Head(todo') = x
       PROVE  \A c \in CellsConcerned(table) : Copies(c, counts') = 0
  <2>1. st = Do("deleteCounters", table)
    BY <1>2, <1>17
  <2>2. st.op = "deleteCounters" /\ st.arg = table
    BY <1>3, <2>1
  <2>3. DeleteCounters
    <3>1. ~InsertConflicts
      BY <2>2 DEF InsertConflicts, Rebuilding, st
    <3> QED
      BY <2>2, <3>1
      DEF JobStep, RebuildLifecycle, DeleteActivity, InsertActivity, DeleteMarkers, InsertMarkers,
          InsertCounters, Recount, Rebuilding, st
  <2>4. counts' = [c \in {c \in DOMAIN counts : c[1].table = table => ~ConcernedRow(c[1])} |-> counts[c]]
    BY <2>2, <2>3 DEF DeleteCounters, st
  <2> QED BY <1>8, <2>4 DEF Copies
<1> QED BY <1>16, <1>17 DEF x, AtStatement, Copies, CellsConcerned, ConcernedRow

LEMMA DerivationStep ==
  ASSUME TypeInv, TypeInv', JobOK, JobStep, ~BreaksOff, Derivation
  PROVE  Derivation' /\ Goes
<1>1. PICK t : JobStepsAre(t)
  BY JobSteps
<1>2. Goes
  BY <1>1 DEF JobStepsAre
<1>3. /\ (ActivityInsertion \notin Range(todo) => ActivityAgrees)'
      /\ (AtStatement(ActivityInsertion) => {a \in activity : a[2] \in ActivityDays} = {})'
  BY <1>1, ExactActivity
<1>4. \A table \in RebuiltTables :
        /\ (Insertion(table) \notin Range(todo) => MarkersAgree(table))'
        /\ (AtStatement(Insertion(table)) => {mk \in markers : mk.table = table /\ Concerned(mk)} = {})'
  BY <1>1, ExactMarkers
<1>5. \A table \in RebuiltCounters :
        /\ (CounterInsertion(table) \notin Range(todo) => CountersAgree(table))'
        /\ (AtStatement(CounterInsertion(table)) =>
              \A c \in CellsConcerned(table) : Copies(c, counts) = 0)'
  BY <1>2, ExactCounters
<1> QED BY <1>2, <1>3, <1>4, <1>5 DEF Derivation

\* A job that starts has everything to derive, its first statement aside.
LEMMA DerivationStarts ==
  ASSUME JobOK, NEW now, StartJob(now)
  PROVE  Derivation'
<1>1. todo' = Rebuild /\ status' = "running"
  BY DEF StartJob
<1>2. /\ ActivityInsertion \in Range(todo')
      /\ \A table \in RebuiltTables : Insertion(table) \in Range(todo')
  BY <1>1, StartAwaits DEF ActivityAwaited, Awaited
<1>3. todo' = Left(34) /\ 34 \in 0 .. 34
  <2>1. Rebuild \in Seq(JobStatements) /\ Len(Rebuild) = 34
    BY RebuildIs
  <2> DEFINE R == Rebuild
             S == JobStatements
             n == 34
  <2>2. R \in Seq(S) /\ Len(R) = n /\ n \in Nat
    BY <2>1
  <2> HIDE DEF R, S, n
  <2>3. SubSeq(R, 1, n) = R
    BY <2>2
  <2>4. 34 - 34 + 1 = 1
    OBVIOUS
  <2> QED BY <1>1, <2>3, <2>4 DEF Left, R, n
<1>4. \A table \in RebuiltCounters : CounterInsertion(table) \in Range(todo')
  <2>1. \A table \in RebuiltCounters : Later(CounterInsertion(table), 1)
    <3>1. 1 \in 1 .. 34 /\ 1 < 7
      OBVIOUS
    <3> QED BY <3>1, LaterIs
  <2>2. PICK m \in 0 .. 34 : m = 34
    OBVIOUS
  <2>3. \A st : st \in Range(Left(m)) <=> \E j \in (35 - m) .. 34 : st = Rebuild[j]
    BY StillLeft
  <2>4. \A j \in (1 + 1) .. 34 : j \in (35 - m) .. 34
    BY <2>2
  <2>5. todo' = Left(m)
    BY <1>3, <2>2
  <2> QED BY <2>1, <2>3, <2>4, <2>5 DEF Later
<1>5. Head(todo') = Do("lifecycle", "member_lifecycle")
  <2>1. Head(Left(34)) = Rebuild[35 - 34]
    <3>1. 34 \in 1 .. 34
      OBVIOUS
    <3> QED BY <3>1, FirstLeft
  <2>2. 35 - 34 = 1
    OBVIOUS
  <2>3. Rebuild[1] = Do("lifecycle", "member_lifecycle")
    BY RebuildBlocks, Zenon
  <2> QED BY <1>3, <2>1, <2>2, <2>3
<1>6. /\ Head(todo') # ActivityInsertion
      /\ \A table : Head(todo') # Insertion(table) /\ Head(todo') # CounterInsertion(table)
  BY <1>5, DoesNothingElse DEF ActivityInsertion, Insertion, CounterInsertion
<1> QED
  BY <1>2, <1>4, <1>6 DEF Derivation, AtStatement

LEMMA ExactStep ==
  ASSUME RebuildInv, RebuildInv', ExactInv, [RebuildNext]_rebuildVars
  PROVE  ExactInv' /\ (status = "running" /\ status' = "idle" /\ ~raced => Derivation' /\ todo' = << >>)
<1> USE DEF RebuildInv
<1>1. ASSUME NEW s \in Streams, Handling(s)
      PROVE  ExactInv' /\ status' = status
  BY <1>1 DEF Handling, ExactInv
<1>2. ASSUME NEW now \in 0 .. Len(log), StartJob(now)
      PROVE  ExactInv' /\ status # "running"
  BY <1>2, DerivationStarts DEF ExactInv, StartJob
<1>3. ASSUME NEW now \in 0 .. Len(log), Dies(now)
      PROVE  ExactInv' /\ (status = "running" => status' = "broken")
  BY <1>3 DEF Dies, ExactInv
<1>4. CASE BreaksOff
  BY <1>4 DEF BreaksOff, ExactInv
<1>5. CASE JobStep /\ ~BreaksOff
  <2>1. Goes
    <3>1. PICK t : JobStepsAre(t)
      BY <1>5, JobSteps
    <3> QED BY <1>5, <3>1 DEF JobStepsAre
  <2>2. raced' = raced /\ (status' = "running" => status = "running")
    BY <2>1 DEF Goes
  <2>3. status = "running" /\ ~raced => Derivation'
    BY <1>5, DerivationStep DEF ExactInv
  <2>4. status = "running" /\ status' = "idle" => todo' = << >>
    BY <2>1 DEF Goes
  <2> QED BY <2>2, <2>3, <2>4 DEF ExactInv
<1>6. CASE JobFails
  BY <1>6 DEF JobFails, BreaksOff, ExactInv
<1>7. CASE UNCHANGED rebuildVars
  <2>1. UNCHANGED <<log, lifecycle, activity, markers, counts, status, todo, raced>>
    BY <1>7 DEF rebuildVars, vars, tableVars, jobVars
  <2>2. HumanMessages' = HumanMessages
    BY <2>1 DEF HumanMessages, IndexedMessages, Human
  <2>3. Authors' = Authors /\ ActivityFromMessages' = ActivityFromMessages
    BY <2>1, <2>2 DEF Authors, ActivityFromMessages, InTime
  <2>4. \A mk : Concerned(mk)' = Concerned(mk)
    BY <2>3 DEF Concerned
  <2>5. ActivityAgrees' = ActivityAgrees
    BY <2>1, <2>3 DEF ActivityAgrees
  <2>6. ASSUME NEW table
        PROVE  /\ MarkersAgree(table)' = MarkersAgree(table)
               /\ CountersAgree(table)' = CountersAgree(table)
    <3>1. StartupMarkers(table, markers)' = StartupMarkers(table, markers)
      BY <2>1, StartupKept
    <3>2. Derived(table)' = Derived(table)
      <4>1. OfTable(counts, "guild_daily_activity")' = OfTable(counts, "guild_daily_activity")
        BY <2>1 DEF OfTable, OfTables
      <4> QED BY <2>1, <4>1, DerivedKept
    <3>3. MarkersAgree(table)' = MarkersAgree(table)
      BY <2>1, <2>4, <3>1 DEF MarkersAgree
    <3> QED BY <2>1, <3>2, <3>3 DEF CountersAgree, Copies, CellsConcerned, ConcernedRow
  <2>7. \A c : Copies(c, counts)' = Copies(c, counts)
    BY <2>1 DEF Copies
  <2>8. \A table : CellsConcerned(table)' = CellsConcerned(table)
    BY DEF CellsConcerned, ConcernedRow
  <2>9. Derivation => Derivation'
    BY <2>1, <2>4, <2>5, <2>6, <2>7, <2>8 DEF Derivation, AtStatement
  <2> QED BY <2>1, <2>9 DEF ExactInv
<1> QED BY <1>1, <1>2, <1>3, <1>4, <1>5, <1>6, <1>7 DEF RebuildNext

\* A job that ends has left nothing to derive.
LEMMA AllDerived ==
  Derivation /\ todo = << >> => InAgreement
<1> SUFFICES ASSUME Derivation, todo = << >> PROVE InAgreement
  OBVIOUS
<1>1. \A x : x \notin Range(todo)
  BY DEF Range
<1>2. ActivityAgrees /\ (\A t \in RebuiltTables : MarkersAgree(t))
      /\ \A t \in RebuiltCounters : CountersAgree(t)
  BY <1>1 DEF Derivation
<1> QED
  BY <1>2 DEF InAgreement, ActivityAgrees, MarkersAgree, CountersAgree, CellsConcerned, RebuiltCounters

\* However often it was broken off before, a job that completes without a
\* handler at work meanwhile leaves every marker and every counter of its scope
\* as startup would derive it, for any members, messages and days: each
\* statement deletes or derives one table, and nothing that a table was derived
\* from changes after it.
THEOREM RebuildsExactly ==
  RebuildSpec => RebuildExact
<1>1. RebuildInit => RebuildInv /\ ExactInv
  BY RebuildStarts DEF ExactInv, RebuildInit
<1>2. RebuildInv /\ ExactInv /\ [RebuildNext]_rebuildVars => (RebuildInv /\ ExactInv)'
  BY RebuildStep, ExactStep
<1>3. RebuildInv /\ ExactInv /\ [RebuildNext]_rebuildVars
        => [status = "running" /\ status' = "idle" /\ ~raced => InAgreement']_rebuildVars
  <2> SUFFICES ASSUME RebuildInv, ExactInv, [RebuildNext]_rebuildVars,
                      status = "running", status' = "idle", ~raced
               PROVE  InAgreement'
    OBVIOUS
  <2>1. RebuildInv'
    BY RebuildStep
  <2>2. Derivation' /\ todo' = << >>
    BY <2>1, ExactStep
  <2>3. (Derivation /\ todo = << >> => InAgreement)'
    BY AllDerived, PTL
  <2> QED BY <2>2, <2>3
<1> QED
  BY <1>1, <1>2, <1>3, PTL DEF RebuildSpec, RebuildExact
================================================================================
