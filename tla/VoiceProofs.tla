----------------------------- MODULE VoiceProofs -----------------------------
(***************************************************************************)
(* Proofs about VoiceSessions, for any channels, any length of a day and   *)
(* any number of moves and faults.                                         *)
(***************************************************************************)
EXTENDS VoiceSessions, FiniteSetTheorems, SequenceTheorems, TLAPS

-----------------------------------------------------------------------------
(* Types.                                                                   *)

Times == 1 .. MaxTime
Places == Channels \union {None}

Moves == [channel : Places, at : Times]
EventSet == [old : Places, new : Places, at : Times]
ActiveRows == [channel : Channels, from : Times]
SessionRows == [channel : Channels, from : Times, to : Times]
Parts == [day : Days, n : Nat]

\* What a statement works on.
Argument(x) ==
  CASE x.op = "close" -> x.arg \in EventSet
    [] x.op = "open" -> x.arg \in EventSet /\ x.arg.new \in Channels
    [] x.op = "lifecycle" -> x.arg \in EventSet
    [] x.op = "record" -> x.arg \in SessionRows
    [] x.op = "add" -> x.arg \in Parts

Ops == {"close", "record", "add", "open", "lifecycle"}
Statements ==
  {x \in [op : Ops, arg : EventSet \union SessionRows \union Parts] : Argument(x)}

LeftOK == left \in Seq(Statements) /\ (Busy <=> left # << >>)
HandlingOK == handling = {} \/ \E e \in EventSet : handling = {e}
ActiveOK == active = {} \/ \E a \in ActiveRows : active = {a}
SessionsOK ==
  /\ sessions \subseteq SessionRows /\ IsFiniteSet(sessions)
  /\ \A s, other \in sessions : s.from = other.from => s = other

TypeInv ==
  /\ moves \in Seq(Moves)
  /\ publishing \in Seq(EventSet) /\ queue \in Seq(EventSet)
  /\ HandlingOK /\ LeftOK /\ ActiveOK /\ SessionsOK
  /\ seconds \in [Days -> Nat]
  /\ retried \in BOOLEAN /\ overtaken \in BOOLEAN /\ faultCount \in 0 .. MaxFaults

LEMMA StatementTypes ==
  /\ \A x \in Statements : x.op \in Ops /\ Argument(x)
  /\ \A e \in EventSet : Do("close", e) \in Statements /\ Do("lifecycle", e) \in Statements
  /\ \A e \in EventSet : e.new \in Channels => Do("open", e) \in Statements
  /\ \A s \in SessionRows : Do("record", s) \in Statements
  /\ \A p \in Parts : Do("add", p) \in Statements
BY DEF Statements, Argument, Ops, Do

LEMMA TypeImplied == TypeInv => TypeOK
<1> SUFFICES ASSUME TypeInv PROVE TypeOK
  OBVIOUS
<1>1. moves \in Seq([channel : Channels \union {None}, at : 1 .. MaxTime])
  BY DEF TypeInv, Moves, Places, Times
<1>2. ASSUME NEW e \in Range(publishing) \union Range(queue) \union handling
      PROVE  e.old \in Places /\ e.new \in Places /\ e.at \in Times
  <2>1. Range(publishing) \subseteq EventSet /\ Range(queue) \subseteq EventSet
    BY RangeOfSeq DEF TypeInv
  <2>2. handling \subseteq EventSet
    BY DEF TypeInv, HandlingOK
  <2> QED BY <2>1, <2>2 DEF EventSet
<1>3. Cardinality(handling) <= 1 /\ Cardinality(active) <= 1
  <2>1. Cardinality({}) = 0 /\ \A x : Cardinality({x}) = 1
    BY FS_EmptySet, FS_Singleton, Zenon
  <2>2. (handling = {} \/ \E e \in EventSet : handling = {e})
        /\ (active = {} \/ \E a \in ActiveRows : active = {a})
    BY DEF TypeInv, HandlingOK, ActiveOK
  <2>3. Cardinality(handling) \in {0, 1} /\ Cardinality(active) \in {0, 1}
    BY <2>1, <2>2, Zenon
  <2> QED BY <2>3
<1>4. active \subseteq [channel : Channels, from : 1 .. MaxTime]
  BY DEF TypeInv, ActiveOK, ActiveRows, Times
<1>5. sessions \subseteq [channel : Channels, from : 1 .. MaxTime, to : 1 .. MaxTime]
  BY DEF TypeInv, SessionsOK, SessionRows, Times
<1> QED
  BY <1>1, <1>2, <1>3, <1>4, <1>5 DEF TypeOK, TypeInv, LeftOK, SessionsOK, Places, Times

LEMMA PlaceTypes == None \notin Channels /\ None \in Places /\ Channels \subseteq Places
BY VoiceAssumption DEF None, Places

\* Days are intervals of PerDay seconds.
LEMMA DayBounds ==
  ASSUME NEW t \in Nat
  PROVE  /\ Day(t) \in Nat
         /\ Day(t) * PerDay <= t /\ t < (Day(t) + 1) * PerDay
BY VoiceAssumption DEF Day

LEMMA DayOrder ==
  ASSUME NEW t \in Nat, NEW d \in Nat
  PROVE  /\ d * PerDay <= t <=> d <= Day(t)
         /\ t < (d + 1) * PerDay <=> Day(t) <= d
<1> DEFINE q == Day(t)
<1>1. q \in Nat /\ q * PerDay <= t /\ t < (q + 1) * PerDay
  BY DayBounds
<1>2. PerDay \in Nat \ {0}
  BY VoiceAssumption
<1> HIDE DEF q
<1>3. ASSUME NEW a \in Nat, NEW b \in Nat, a <= b PROVE a * PerDay <= b * PerDay
  BY <1>2, <1>3
<1>4. d <= q => d * PerDay <= t
  <2> SUFFICES ASSUME d <= q PROVE d * PerDay <= t
    OBVIOUS
  <2>1. d * PerDay <= q * PerDay
    BY <1>1, <1>3
  <2> QED BY <2>1, <1>1, <1>2
<1>5. q < d => t < d * PerDay
  <2> SUFFICES ASSUME q < d PROVE t < d * PerDay
    OBVIOUS
  <2>1. (q + 1) * PerDay <= d * PerDay
    BY <1>1, <1>3
  <2> QED BY <2>1, <1>1, <1>2
<1>6. q <= d => t < (d + 1) * PerDay
  <2> SUFFICES ASSUME q <= d PROVE t < (d + 1) * PerDay
    OBVIOUS
  <2>1. (q + 1) * PerDay <= (d + 1) * PerDay
    BY <1>1, <1>3
  <2> QED BY <2>1, <1>1, <1>2
<1>7. d < q => (d + 1) * PerDay <= t
  <2> SUFFICES ASSUME d < q PROVE (d + 1) * PerDay <= t
    OBVIOUS
  <2>1. (d + 1) * PerDay <= q * PerDay
    BY <1>1, <1>3
  <2> QED BY <2>1, <1>1, <1>2
<1>8. d * PerDay \in Nat /\ (d + 1) * PerDay \in Nat
  BY <1>2
<1> QED BY <1>1, <1>4, <1>5, <1>6, <1>7, <1>8 DEF q

\* The statements of a handler are ones on its event.
LEMMA HandlerTypes == \A e \in EventSet : Handler(e) \in Seq(Statements)
<1> SUFFICES ASSUME NEW e \in EventSet PROVE Handler(e) \in Seq(Statements)
  OBVIOUS
<1>1. e.new \in Places
  BY DEF EventSet
<1> DEFINE close == IF e.old = None THEN << >> ELSE <<Do("close", e)>>
           open == IF e.new = None THEN << >> ELSE <<Do("open", e), Do("lifecycle", e)>>
<1>2. close \in Seq(Statements)
  BY StatementTypes
<1>3. open \in Seq(Statements)
  BY StatementTypes, <1>1 DEF Places
<1>4. close \o open \in Seq(Statements)
  BY <1>2, <1>3, ConcatProperties
<1> QED BY <1>4 DEF Handler

\* A session has one statement for each of its days, with seconds of that day.
LEMMA SegmentTypes ==
  ASSUME NEW s \in SessionRows
  PROVE  /\ Segments(s) \in Seq(Statements)
         /\ \A i \in DOMAIN Segments(s) :
              /\ Segments(s)[i].op = "add"
              /\ Segments(s)[i].arg.day = Day(s.from) + i - 1
              /\ Segments(s)[i].arg.n = Within(s.from, s.to, Day(s.from) + i - 1)
              /\ Day(s.from) + i - 1 \in Day(s.from) .. Day(s.to - 1)
         /\ s.from < s.to => Len(Segments(s)) = Day(s.to - 1) - Day(s.from) + 1
         /\ ~(s.from < s.to) => Segments(s) = << >>
<1>1. s.from \in Times /\ s.to \in Times /\ MaxTime \in Nat
  BY VoiceAssumption DEF SessionRows
<1>2. CASE ~(s.from < s.to)
  BY <1>2, EmptySeq DEF Segments
<1>3. CASE s.from < s.to
  <2> DEFINE n == Day(s.to - 1) - Day(s.from) + 1
             Part(i) == Do("add", [day |-> Day(s.from) + i - 1,
                                   n |-> Within(s.from, s.to, Day(s.from) + i - 1)])
  <2>1. /\ Day(s.from) \in Nat /\ Day(s.to - 1) \in Nat /\ Day(MaxTime) \in Nat
        /\ Day(s.from) <= Day(s.to - 1) /\ Day(s.to - 1) <= Day(MaxTime)
    <3>1. s.from \in Nat /\ s.to - 1 \in Nat /\ s.from <= s.to - 1 /\ s.to - 1 <= MaxTime
      BY <1>1, <1>3 DEF Times
    <3>2. Day(s.from) * PerDay <= s.from /\ Day(s.to - 1) * PerDay <= s.to - 1
      BY <3>1, DayBounds
    <3>3. Day(s.from) \in Nat /\ Day(s.to - 1) \in Nat /\ Day(MaxTime) \in Nat
      BY <1>1, <3>1, DayBounds
    <3>4. PerDay \in Nat
      BY VoiceAssumption
    <3>5. Day(s.from) * PerDay <= s.to - 1 /\ Day(s.to - 1) * PerDay <= MaxTime
      <4>1. Day(s.from) * PerDay \in Nat /\ Day(s.to - 1) * PerDay \in Nat
        BY <3>3, <3>4
      <4> QED BY <4>1, <3>1, <3>2, <1>1
    <3>6. Day(s.from) <= Day(s.to - 1)
      BY <3>1, <3>3, <3>5, DayOrder
    <3>7. Day(s.to - 1) <= Day(MaxTime)
      BY <1>1, <3>3, <3>5, DayOrder
    <3> QED BY <3>3, <3>6, <3>7
  <2>2. n \in Nat /\ n >= 1
    BY <2>1
  <2>3. Segments(s) = [i \in 1 .. n |-> Part(i)]
    BY <1>3 DEF Segments
  <2>4. ASSUME NEW i \in 1 .. n
        PROVE  /\ Day(s.from) + i - 1 \in Day(s.from) .. Day(s.to - 1)
               /\ Part(i) \in Statements
    <3> DEFINE d == Day(s.from) + i - 1
    <3>1. d \in Nat /\ Day(s.from) <= d /\ d <= Day(s.to - 1) /\ d \in Days
      BY <2>1 DEF Days
    <3>2. /\ s.from \in Nat /\ s.to \in Nat /\ s.to - 1 \in Nat
      BY <1>1 DEF Times
    <3>3. s.from < (d + 1) * PerDay
      BY <3>1, <3>2, DayOrder
    <3>4. d * PerDay <= s.to - 1
      BY <3>1, <3>2, DayOrder
    <3>5. d * PerDay \in Nat /\ (d + 1) * PerDay \in Nat /\ (d + 1) * PerDay = d * PerDay + PerDay /\ PerDay \in Nat
      BY <3>1, VoiceAssumption
    <3> HIDE DEF d
    <3>6. Within(s.from, s.to, d) \in Nat
      BY <1>3, <3>1, <3>2, <3>3, <3>4, <3>5 DEF Within, Earlier, Later
    <3>7. [day |-> d, n |-> Within(s.from, s.to, d)] \in Parts
      BY <3>1, <3>6 DEF Parts
    <3>8. Do("add", [day |-> d, n |-> Within(s.from, s.to, d)]) \in Statements
      BY <3>7, StatementTypes
    <3> QED BY <3>1, <3>8 DEF d
  <2> HIDE DEF n, Part
  <2>5. [i \in 1 .. n |-> Part(i)] \in Seq(Statements)
    <3>1. [i \in 1 .. n |-> Part(i)] \in [1 .. n -> Statements]
      BY <2>4
    <3> QED BY <3>1, <2>2, SeqDef
  <2>6. DOMAIN Segments(s) = 1 .. n /\ Len(Segments(s)) = n
    BY <2>2, <2>3
  <2>7. \A i \in 1 .. n : Segments(s)[i] = Part(i)
    BY <2>3
  <2>8. \A i \in 1 .. n : /\ Part(i).op = "add"
                          /\ Part(i).arg.day = Day(s.from) + i - 1
                          /\ Part(i).arg.n = Within(s.from, s.to, Day(s.from) + i - 1)
    BY DEF Part, Do
  <2>9. Segments(s) \in Seq(Statements)
    BY <2>3, <2>5
  <2>10. \A i \in DOMAIN Segments(s) : 
              /\ Segments(s)[i].op = "add"
              /\ Segments(s)[i].arg.day = Day(s.from) + i - 1
              /\ Segments(s)[i].arg.n = Within(s.from, s.to, Day(s.from) + i - 1)
              /\ Day(s.from) + i - 1 \in Day(s.from) .. Day(s.to - 1)
    BY <2>4, <2>6, <2>7, <2>8
  <2>11. Len(Segments(s)) = Day(s.to - 1) - Day(s.from) + 1
    BY <2>6 DEF n
  <2> QED BY <1>3, <2>9, <2>10, <2>11
<1> QED BY <1>2, <1>3

\* The rest of a handler takes the place of what it was.
LEMMA ProceedTypes ==
  ASSUME HandlingOK, LeftOK, Busy, NEW rest \in Seq(Statements), Proceed(rest)
  PROVE  HandlingOK' /\ LeftOK'
BY EmptySeq DEF HandlingOK, LeftOK, Busy, Proceed

\* The statement to be run, and the ones after it.
LEMMA HeadTypes ==
  ASSUME LeftOK, Busy
  PROVE  /\ left # << >> /\ Head(left) \in Statements /\ Tail(left) \in Seq(Statements)
         /\ Argument(Head(left))
         /\ Head(left) = left[1] /\ Len(Tail(left)) = Len(left) - 1
         /\ \A i \in 1 .. Len(Tail(left)) : Tail(left)[i] = left[i + 1]
<1>1. left \in Seq(Statements) /\ left # << >>
  BY DEF LeftOK
<1>2. Head(left) = left[1]
  BY <1>1
<1>3. Head(left) \in Statements /\ Tail(left) \in Seq(Statements) /\ Len(Tail(left)) = Len(left) - 1
      /\ \A i \in 1 .. Len(Tail(left)) : Tail(left)[i] = left[i + 1]
  BY <1>1, HeadTailProperties
<1>4. Argument(Head(left))
  BY <1>3, StatementTypes
<1> QED BY <1>1, <1>2, <1>3, <1>4

LEMMA ClosedTypes ==
  ASSUME NEW a \in ActiveRows, NEW e \in EventSet
  PROVE  /\ Closed(a, e) \in SessionRows
         /\ Closed(a, e).channel = a.channel /\ Closed(a, e).from = a.from
         /\ Closed(a, e).from <= Closed(a, e).to /\ e.at <= Closed(a, e).to
         /\ a.from <= e.at => Closed(a, e).to = e.at
BY VoiceAssumption DEF Closed, Later, ActiveRows, EventSet, SessionRows, Times

\* What Close leaves to be done, where there was a session and where not.
LEMMA CloseCases ==
  ASSUME TypeInv, Close
  PROVE  /\ Busy /\ Head(left).op = "close" /\ Head(left).arg \in EventSet
         /\ \/ active = {} /\ Proceed(Tail(left))
            \/ \E a \in ActiveRows :
                 /\ active = {a}
                 /\ Proceed(<<Do("record", Closed(a, Head(left).arg))>> \o Tail(left))
<1>1. Busy /\ Head(left).op = "close" /\ Head(left).arg \in EventSet /\ Tail(left) \in Seq(Statements)
  BY HeadTypes DEF Close, Running, TypeInv, Argument
<1> DEFINE ended == {Closed(a, Head(left).arg) : a \in active}
<1>2. Proceed((IF ended = {} THEN << >> ELSE <<Do("record", CHOOSE s \in ended : TRUE)>>) \o Tail(left))
  BY DEF Close
<1>3. CASE active = {}
  <2>1. ended = {}
    BY <1>3
  <2>2. << >> \o Tail(left) = Tail(left)
    BY <1>1, ConcatEmptySeq
  <2> QED BY <1>1, <1>2, <1>3, <2>1, <2>2
<1>4. CASE active # {}
  <2>1. PICK a \in ActiveRows : active = {a}
    BY <1>4 DEF TypeInv, ActiveOK
  <2>2. ended = {Closed(a, Head(left).arg)}
    BY <2>1
  <2>3. (CHOOSE s \in ended : TRUE) = Closed(a, Head(left).arg)
    BY <2>2
  <2> HIDE DEF ended
  <2>4. Proceed(<<Do("record", Closed(a, Head(left).arg))>> \o Tail(left))
    BY <1>2, <2>2, <2>3
  <2> QED BY <1>1, <2>1, <2>4
<1> QED BY <1>3, <1>4

-----------------------------------------------------------------------------
(* The step of the type invariant.                                          *)

LEMMA FaultTypes == TypeInv /\ Fault => faultCount' \in 0 .. MaxFaults /\ faultCount' > 0
BY VoiceAssumption DEF TypeInv, Fault

LEMMA MemberTypes ==
  ASSUME TypeInv, NEW c \in Places, NEW t \in Times, Move(c, t) \/ MoveUnknown(c, t) \/ Miss(c, t)
  PROVE  TypeInv'
<1>1. Where \in Places
  <2>1. CASE moves = << >>
    BY <2>1, PlaceTypes DEF Where
  <2>2. CASE moves # << >>
    <3>1. Len(moves) \in 1 .. Len(moves) /\ Last(moves) = moves[Len(moves)]
      BY <2>2, EmptySeq, LenProperties DEF TypeInv, Last
    <3>2. Last(moves) \in Moves
      BY <3>1, ElementOfSeq DEF TypeInv
    <3> QED BY <2>2, <3>2 DEF Where, Moves
  <2> QED BY <2>1, <2>2
<1>2. moves' \in Seq(Moves)
  <2>1. [channel |-> c, at |-> t] \in Moves
    BY DEF Moves
  <2>2. moves' = Append(moves, [channel |-> c, at |-> t])
    BY DEF Move, MoveUnknown, Miss, Goes
  <2> QED BY <2>1, <2>2, AppendProperties DEF TypeInv
<1>3. Event(Where, c, t) \in EventSet /\ Event(None, c, t) \in EventSet
  BY <1>1, PlaceTypes DEF Event, EventSet
<1>4. publishing' \in Seq(EventSet)
  <2>1. \/ publishing' = publishing
        \/ publishing' = Append(publishing, Event(Where, c, t))
        \/ publishing' = Append(publishing, Event(None, c, t))
    BY DEF Move, MoveUnknown, Miss, handlerVars
  <2>2. publishing \in Seq(EventSet)
    BY DEF TypeInv
  <2>3. \A e \in EventSet : Append(publishing, e) \in Seq(EventSet)
    BY <2>2, AppendProperties
  <2> QED BY <1>3, <2>1, <2>2, <2>3
<1>5. faultCount' \in 0 .. MaxFaults
  BY FaultTypes DEF Move, MoveUnknown, Miss, TypeInv
<1>6. UNCHANGED <<queue, handling, left, active, sessions, seconds, retried, overtaken>>
  BY DEF Move, MoveUnknown, Miss, handlerVars, tableVars, historyVars
<1> QED
  BY <1>2, <1>4, <1>5, <1>6
     DEF TypeInv, HandlingOK, LeftOK, Busy, ActiveOK, SessionsOK

LEMMA BeginTypes == TypeInv /\ Begin => TypeInv'
<1> SUFFICES ASSUME TypeInv, Begin PROVE TypeInv'
  OBVIOUS
<1>1. queue \in Seq(EventSet) /\ queue # << >>
  BY DEF TypeInv, Begin
<1>2. Head(queue) \in EventSet /\ Tail(queue) \in Seq(EventSet)
  BY <1>1, HeadTailProperties
<1>3. left' \in Seq(Statements)
  BY <1>2, HandlerTypes DEF Begin
<1>4. handling' = IF left' = << >> THEN {} ELSE {Head(queue)}
  BY DEF Begin
<1>5. HandlingOK' /\ LeftOK'
  BY <1>2, <1>3, <1>4 DEF HandlingOK, LeftOK, Busy
<1>6. queue' = Tail(queue) /\ UNCHANGED <<moves, publishing, active, sessions, seconds>>
      /\ UNCHANGED <<retried, overtaken, faultCount>>
  BY DEF Begin, tableVars, historyVars
<1> QED BY <1>2, <1>5, <1>6 DEF TypeInv, ActiveOK, SessionsOK

LEMMA FailTypes == TypeInv /\ (HandlerFails \/ Crash) => TypeInv'
<1> SUFFICES ASSUME TypeInv, HandlerFails \/ Crash PROVE TypeInv'
  OBVIOUS
<1>1. UNCHANGED <<moves, publishing, active, sessions, seconds>>
  BY DEF HandlerFails, Crash, tableVars
<1>2. HandlingOK' /\ LeftOK'
  BY EmptySeq DEF HandlerFails, Crash, HandlingOK, LeftOK, Busy
<1>3. faultCount' \in 0 .. MaxFaults /\ retried' \in BOOLEAN /\ overtaken' \in BOOLEAN
  <2>1. faultCount' \in 0 .. MaxFaults
    BY FaultTypes DEF HandlerFails, Crash
  <2>2. retried' \in BOOLEAN /\ overtaken' \in BOOLEAN
    BY DEF HandlerFails, Crash, TypeInv, historyVars
  <2> QED BY <2>1, <2>2
<1>4. queue' \in Seq(EventSet)
  <2>1. CASE Crash
    BY <2>1 DEF Crash, TypeInv
  <2>2. CASE HandlerFails
    <3>1. PICK e \in EventSet : handling = {e}
      BY <2>2 DEF HandlerFails, Busy, TypeInv, HandlingOK
    <3>2. Cardinality(handling) = 1
      BY <3>1, FS_Singleton, Zenon
    <3>3. SetToSeq(handling) = CHOOSE f \in [1 .. 1 -> handling] : IsInjective(f)
      BY <3>2 DEF SetToSeq
    <3>4. [i \in 1 .. 1 |-> e] \in [1 .. 1 -> handling]
      BY <3>1
    <3>5. IsInjective([i \in 1 .. 1 |-> e])
      BY DEF IsInjective
    <3>6. SetToSeq(handling) \in [1 .. 1 -> handling]
      BY <3>3, <3>4, <3>5
    <3>7. SetToSeq(handling) \in [1 .. 1 -> EventSet]
      BY <3>6, <3>1
    <3>8. SetToSeq(handling) \in Seq(EventSet)
      BY <3>7, SeqDef
    <3>9. queue' = queue \o SetToSeq(handling)
      BY <2>2 DEF HandlerFails
    <3> QED BY <3>8, <3>9, ConcatProperties DEF TypeInv
  <2> QED BY <2>1, <2>2
<1> QED BY <1>1, <1>2, <1>3, <1>4 DEF TypeInv, ActiveOK, SessionsOK

LEMMA StatementStepTypes ==
  TypeInv /\ (Close \/ Record \/ Add \/ Open \/ Lifecycle) => TypeInv'
<1> SUFFICES ASSUME TypeInv, Close \/ Record \/ Add \/ Open \/ Lifecycle PROVE TypeInv'
  OBVIOUS
<1> DEFINE x == Head(left)
<1>1. Busy
  BY DEF Close, Record, Add, Open, Lifecycle, Running
<1>2. x \in Statements /\ Tail(left) \in Seq(Statements) /\ Argument(x)
  BY <1>1, HeadTypes DEF TypeInv
<1>3. UNCHANGED <<moves, publishing, queue, retried, overtaken, faultCount>>
  BY DEF Close, Record, Add, Open, Lifecycle, Proceed, historyVars
<1>4. ASSUME NEW rest \in Seq(Statements), Proceed(rest) PROVE HandlingOK' /\ LeftOK'
  BY <1>1, <1>4, ProceedTypes DEF TypeInv
<1>5. CASE Close
  <2>1. HandlingOK' /\ LeftOK'
    <3>1. CASE Proceed(Tail(left))
      BY <1>2, <1>4, <3>1
    <3>2. ASSUME NEW a \in ActiveRows,
                 Proceed(<<Do("record", Closed(a, x.arg))>> \o Tail(left))
          PROVE  HandlingOK' /\ LeftOK'
      <4>1. x.arg \in EventSet
        BY <1>5, CloseCases
      <4>2. Do("record", Closed(a, x.arg)) \in Statements
        BY <4>1, ClosedTypes, StatementTypes
      <4>3. <<Do("record", Closed(a, x.arg))>> \in Seq(Statements)
        BY <4>2
      <4>4. <<Do("record", Closed(a, x.arg))>> \o Tail(left) \in Seq(Statements)
        BY <4>3, <1>2, ConcatProperties
      <4> QED BY <4>4, <1>4, <3>2
    <3> QED BY <1>5, <3>1, <3>2, CloseCases
  <2>2. active' = {} /\ UNCHANGED <<sessions, seconds>>
    BY <1>5 DEF Close
  <2> QED BY <1>3, <2>1, <2>2 DEF TypeInv, ActiveOK, SessionsOK
<1>6. CASE Record
  <2>1. x.arg \in SessionRows
    BY <1>2, <1>6 DEF Record, Running, Argument
  <2>2. Segments(x.arg) \o Tail(left) \in Seq(Statements)
    BY <2>1, <1>2, SegmentTypes, ConcatProperties
  <2>3. HandlingOK' /\ LeftOK'
    BY <2>2, <1>4, <1>6 DEF Record
  <2>4. UNCHANGED <<active, seconds>>
    BY <1>6 DEF Record
  <2>5. sessions' = IF \E other \in sessions : other.from = x.arg.from
                    THEN sessions ELSE sessions \union {x.arg}
    BY <1>6 DEF Record
  <2>6. SessionsOK'
    BY <2>1, <2>5, FS_AddElement DEF SessionsOK, TypeInv
  <2> QED BY <1>3, <2>3, <2>4, <2>6 DEF TypeInv, ActiveOK
<1>7. CASE Add
  <2>1. x.arg \in Parts
    BY <1>2, <1>7 DEF Add, Running, Argument
  <2>2. x.arg.day \in Days /\ x.arg.n \in Nat
    BY <2>1 DEF Parts
  <2>3. seconds' = [seconds EXCEPT ![x.arg.day] = @ + x.arg.n]
    BY <1>7 DEF Add
  <2>4. seconds' \in [Days -> Nat]
    BY <2>2, <2>3 DEF TypeInv
  <2>5. HandlingOK' /\ LeftOK' /\ UNCHANGED <<active, sessions>>
    BY <1>2, <1>4, <1>7 DEF Add
  <2> QED BY <1>3, <2>4, <2>5 DEF TypeInv, ActiveOK, SessionsOK
<1>8. CASE Open
  <2>1. x.arg \in EventSet /\ x.arg.new \in Channels
    BY <1>2, <1>8 DEF Open, Running, Argument
  <2>2. Opened(x.arg) \in ActiveRows
    BY <2>1 DEF Opened, ActiveRows, EventSet
  <2>3. active' = {Opened(x.arg)}
    BY <1>8 DEF Open
  <2>4. HandlingOK' /\ LeftOK' /\ UNCHANGED <<sessions, seconds>>
    BY <1>2, <1>4, <1>8 DEF Open
  <2> QED BY <1>3, <2>2, <2>3, <2>4 DEF TypeInv, ActiveOK, SessionsOK
<1>9. CASE Lifecycle
  <2>1. HandlingOK' /\ LeftOK' /\ UNCHANGED <<active, sessions, seconds>>
    BY <1>2, <1>4, <1>9 DEF Lifecycle, tableVars
  <2> QED BY <1>3, <2>1 DEF TypeInv, ActiveOK, SessionsOK
<1> QED BY <1>5, <1>6, <1>7, <1>8, <1>9

\* What is published leaves the place it had and becomes the last in the stream.
LEMMA PublishParts ==
  ASSUME TypeInv, NEW i \in DOMAIN publishing, Publish(i)
  PROVE  /\ i \in 1 .. Len(publishing) /\ Len(publishing) \in Nat /\ Len(queue) \in Nat
         /\ publishing[i] \in EventSet
         /\ queue' \in Seq(EventSet) /\ Len(queue') = Len(queue) + 1
         /\ queue'[Len(queue) + 1] = publishing[i]
         /\ \A j \in 1 .. Len(queue) : queue'[j] = queue[j]
         /\ publishing' \in Seq(EventSet) /\ Len(publishing') = Len(publishing) - 1
         /\ \A j \in 1 .. Len(publishing') : publishing'[j] = publishing[IF j < i THEN j ELSE j + 1]
         /\ UNCHANGED <<moves, handling, left, active, sessions, seconds, retried, faultCount>>
         /\ overtaken' = (overtaken \/ i # 1)
<1>1. /\ publishing \in Seq(EventSet) /\ queue \in Seq(EventSet)
      /\ queue' = Append(queue, publishing[i])
      /\ publishing' = SubSeq(publishing, 1, i - 1) \o SubSeq(publishing, i + 1, Len(publishing))
      /\ UNCHANGED <<moves, handling, left, active, sessions, seconds, retried, faultCount>>
      /\ overtaken' = (overtaken \/ i # 1)
  BY DEF TypeInv, Publish, RemoveAt, tableVars
<1>2. Len(publishing) \in Nat /\ Len(queue) \in Nat /\ i \in 1 .. Len(publishing)
  BY <1>1, LenProperties
<1>3. \A j \in 1 .. Len(publishing) : publishing[j] \in EventSet
  BY <1>1, ElementOfSeq
<1>4. /\ queue' \in Seq(EventSet) /\ Len(queue') = Len(queue) + 1
      /\ queue'[Len(queue) + 1] = publishing[i]
      /\ \A j \in 1 .. Len(queue) : queue'[j] = queue[j]
  BY <1>1, <1>2, <1>3, AppendProperties
<1> DEFINE before == SubSeq(publishing, 1, i - 1)
           after == SubSeq(publishing, i + 1, Len(publishing))
<1>5. /\ before \in Seq(EventSet) /\ Len(before) = i - 1
      /\ \A j \in 1 .. i - 1 : before[j] = publishing[j]
  <2>1. 1 \in Int /\ i - 1 \in Int /\ \A j \in 1 .. i - 1 : publishing[j] \in EventSet /\ 1 + j - 1 = j
    BY <1>2, <1>3
  <2>2. before \in Seq(EventSet) /\ Len(before) = (IF 1 <= i - 1 THEN (i - 1) - 1 + 1 ELSE 0)
    BY <2>1, SubSeqProperties
  <2>3. \A j \in 1 .. (i - 1) - 1 + 1 : before[j] = publishing[1 + j - 1]
    BY <2>1, SubSeqProperties
  <2> HIDE DEF before
  <2>4. (i - 1) - 1 + 1 = i - 1
    BY <1>2
  <2> QED BY <1>2, <2>1, <2>2, <2>3, <2>4
<1>6. /\ after \in Seq(EventSet) /\ Len(after) = Len(publishing) - i
      /\ \A j \in 1 .. Len(publishing) - i : after[j] = publishing[i + j]
  <2>1. /\ i + 1 \in Int /\ Len(publishing) \in Int
        /\ \A j \in i + 1 .. Len(publishing) : publishing[j] \in EventSet
    BY <1>2, <1>3
  <2>2. /\ after \in Seq(EventSet)
        /\ Len(after) = (IF i + 1 <= Len(publishing) THEN Len(publishing) - (i + 1) + 1 ELSE 0)
    BY <2>1, SubSeqProperties
  <2>3. \A j \in 1 .. Len(publishing) - (i + 1) + 1 : after[j] = publishing[(i + 1) + j - 1]
    BY <2>1, SubSeqProperties
  <2> HIDE DEF after
  <2>4. Len(publishing) - (i + 1) + 1 = Len(publishing) - i
    BY <1>2
  <2>5. \A j \in 1 .. Len(publishing) - i : after[j] = publishing[i + j]
    <3>1. \A j \in 1 .. Len(publishing) - i : (i + 1) + j - 1 = i + j
      BY <1>2
    <3> QED BY <2>3, <2>4, <3>1
  <2>6. Len(after) = Len(publishing) - i
    BY <1>2, <2>2
  <2> QED BY <2>2, <2>5, <2>6
<1>7. publishing' = before \o after
  BY <1>1
<1> HIDE DEF before, after
<1>8. /\ publishing' \in Seq(EventSet) /\ Len(publishing') = Len(before) + Len(after)
      /\ \A j \in 1 .. Len(before) + Len(after) :
           publishing'[j] = IF j <= Len(before) THEN before[j] ELSE after[j - Len(before)]
  BY <1>5, <1>6, <1>7, ConcatProperties
<1>9. Len(publishing') = Len(publishing) - 1
  BY <1>2, <1>5, <1>6, <1>8
<1>10. ASSUME NEW j \in 1 .. Len(publishing')
       PROVE  publishing'[j] = publishing[IF j < i THEN j ELSE j + 1]
  <2>1. CASE j < i
    <3>1. j \in 1 .. i - 1 /\ j \in 1 .. Len(before) + Len(after) /\ j <= Len(before)
      BY <1>2, <1>5, <1>6, <1>9, <2>1
    <3> QED BY <1>5, <1>8, <2>1, <3>1
  <2>2. CASE ~(j < i)
    <3>1. /\ j - (i - 1) \in 1 .. Len(publishing) - i /\ i + (j - (i - 1)) = j + 1
          /\ j \in 1 .. Len(before) + Len(after) /\ ~(j <= Len(before)) /\ j - Len(before) = j - (i - 1)
      BY <1>2, <1>5, <1>6, <1>9, <2>2
    <3> QED BY <1>6, <1>8, <2>2, <3>1
  <2> QED BY <2>1, <2>2
<1> QED BY <1>1, <1>2, <1>3, <1>4, <1>8, <1>9, <1>10

LEMMA PublishTypes ==
  ASSUME TypeInv, NEW i \in DOMAIN publishing, Publish(i)
  PROVE  TypeInv'
BY PublishParts DEF TypeInv, HandlingOK, LeftOK, Busy, ActiveOK, SessionsOK

LEMMA TypeStep == TypeInv /\ [Next]_vars => TypeInv'
<1> SUFFICES ASSUME TypeInv, [Next]_vars PROVE TypeInv'
  OBVIOUS
<1>1. CASE Member
  BY <1>1, MemberTypes DEF Member, Places, Times
<1>2. CASE Worker
  BY <1>2, BeginTypes, StatementStepTypes DEF Worker
<1>3. CASE HandlerFails \/ Crash
  BY <1>3, FailTypes
<1>4. CASE UNCHANGED vars
  BY <1>4 DEF vars, handlerVars, tableVars, historyVars, TypeInv, HandlingOK, LeftOK, Busy, ActiveOK, SessionsOK
<1>5. CASE Gateway
  BY <1>5, PublishTypes DEF Gateway
<1> QED BY <1>1, <1>2, <1>3, <1>4, <1>5 DEF Next

LEMMA TypeInit == Init => TypeInv
<1> SUFFICES ASSUME Init PROVE TypeInv
  OBVIOUS
<1>1. /\ moves = << >> /\ publishing = << >> /\ queue = << >> /\ left = << >>
      /\ handling = {} /\ active = {} /\ sessions = {}
  BY DEF Init
<1>2. /\ moves \in Seq(Moves) /\ publishing \in Seq(EventSet) /\ queue \in Seq(EventSet)
      /\ left \in Seq(Statements) /\ IsFiniteSet(sessions)
  BY <1>1, EmptySeq, FS_EmptySet
<1>3. seconds \in [Days -> Nat] /\ retried \in BOOLEAN /\ overtaken \in BOOLEAN /\ faultCount \in 0 .. MaxFaults
  <2>1. seconds \in [Days -> Nat]
    BY DEF Init
  <2>2. retried \in BOOLEAN /\ overtaken \in BOOLEAN
    BY DEF Init
  <2>3. faultCount \in 0 .. MaxFaults
    BY VoiceAssumption DEF Init
  <2> QED BY <2>1, <2>2, <2>3
<1> QED
  BY <1>1, <1>2, <1>3 DEF TypeInv, HandlingOK, LeftOK, Busy, ActiveOK, SessionsOK

LEMMA TypeInvariant == Spec => []TypeInv
BY TypeInit, TypeStep, PTL DEF Spec

\* The member's rows keep their shape and their primary keys, however long the
\* days and whatever fails: one active session, one recorded per beginning.
THEOREM VoiceTypeCorrect == Spec => []TypeOK
BY TypeInvariant, TypeImplied, PTL

-----------------------------------------------------------------------------
(* Order.  Events are handled as they happened, until a handler is run      *)

-----------------------------------------------------------------------------
(* Statements.  What is left of a handler, whatever has happened so far.    *)

LEMMA HandlerShape ==
  ASSUME NEW e \in EventSet
  PROVE  \A i \in 1 .. Len(Handler(e)) :
           /\ Handler(e)[i].op \in {"close", "open", "lifecycle"}
           /\ Handler(e)[i].op = "close" => i = 1
           /\ Handler(e)[i].arg = e
<1> DEFINE close == IF e.old = None THEN << >> ELSE <<Do("close", e)>>
           open == IF e.new = None THEN << >> ELSE <<Do("open", e), Do("lifecycle", e)>>
           All == {Do("close", e), Do("open", e), Do("lifecycle", e)}
<1>1. CASE e.old = e.new
  BY <1>1 DEF Handler
<1>2. CASE e.old # e.new
  <2>1. Handler(e) = close \o open
    BY <1>2 DEF Handler
  <2>2. close \in Seq(All) /\ open \in Seq(All)
    <3> DEFINE C == Do("close", e)  O == Do("open", e)  L == Do("lifecycle", e)
    <3>1. C \in All /\ O \in All /\ L \in All
      OBVIOUS
    <3> HIDE DEF C, O, L, All
    <3>2. << >> \in Seq(All) /\ <<C>> \in Seq(All) /\ <<O, L>> \in Seq(All)
      BY <3>1
    <3> QED BY <3>2 DEF C, O, L
  <2>3. /\ Len(close) \in {0, 1} /\ \A i \in 1 .. Len(close) : close[i] = Do("close", e)
        /\ \A i \in 1 .. Len(open) : open[i] \in {Do("open", e), Do("lifecycle", e)}
    OBVIOUS
  <2>4. Len(open) \in Nat
    BY <2>2, LenProperties
  <2> HIDE DEF close, open, All
  <2>5. /\ Len(close \o open) = Len(close) + Len(open)
        /\ \A i \in 1 .. Len(close) + Len(open) :
             (close \o open)[i] = IF i <= Len(close) THEN close[i] ELSE open[i - Len(close)]
    BY <2>2, ConcatProperties
  <2> SUFFICES ASSUME NEW i \in 1 .. Len(close) + Len(open)
               PROVE  /\ Handler(e)[i].op \in {"close", "open", "lifecycle"}
                      /\ Handler(e)[i].op = "close" => i = 1
                      /\ Handler(e)[i].arg = e
    BY <2>1, <2>5
  <2>6. CASE i <= Len(close)
    <3>1. Handler(e)[i] = Do("close", e) /\ i = 1
      BY <2>1, <2>3, <2>4, <2>5, <2>6
    <3> QED BY <3>1 DEF Do
  <2>7. CASE ~(i <= Len(close))
    <3>1. i - Len(close) \in 1 .. Len(open)
      BY <2>3, <2>4, <2>7
    <3>2. Handler(e)[i] \in {Do("open", e), Do("lifecycle", e)}
      BY <2>1, <2>3, <2>5, <2>7, <3>1
    <3> QED BY <3>2 DEF Do
  <2> QED BY <2>6, <2>7
<1> QED BY <1>1, <1>2

LEMMA ProceedTail ==
  ASSUME LeftOK, Busy, Proceed(Tail(left))
  PROVE  /\ left # << >> /\ Len(left) \in Nat /\ 1 \in 1 .. Len(left)
         /\ Len(left') = Len(left) - 1 /\ left' \in Seq(Statements)
         /\ \A i \in 1 .. Len(left') : left'[i] = left[i + 1] /\ i + 1 \in 1 .. Len(left)
         /\ left' # << >> => Len(left) > 1 /\ left'[1] = left[2] /\ 1 \in 1 .. Len(left')
         /\ handling' \subseteq handling
         /\ left' # << >> => handling' = handling
         /\ UNCHANGED <<moves, publishing, queue, retried, overtaken, faultCount>>
<1>1. left' = Tail(left) /\ handling' = (IF left' = << >> THEN {} ELSE handling)
      /\ UNCHANGED <<moves, publishing, queue, retried, overtaken, faultCount>>
  BY DEF Proceed, historyVars
<1>2. left \in Seq(Statements) /\ left # << >>
  BY DEF LeftOK
<1>3. Len(left) \in Nat \ {0}
  BY <1>2, EmptySeq
<1>4. /\ left' \in Seq(Statements) /\ Len(left') = Len(left) - 1
      /\ \A i \in 1 .. Len(left') : left'[i] = left[i + 1]
  BY <1>1, HeadTypes
<1>5. left' # << >> => Len(left') \in Nat \ {0}
  BY <1>4, EmptySeq
<1> QED BY <1>1, <1>2, <1>3, <1>4, <1>5

\* Another statement in the place of the first.
LEMMA ProceedSwap ==
  ASSUME LeftOK, Busy, NEW x \in Statements, Proceed(<<x>> \o Tail(left))
  PROVE  /\ Len(left) \in Nat \ {0} /\ Len(left') = Len(left) /\ left' # << >>
         /\ left'[1] = x /\ \A i \in 2 .. Len(left) : left'[i] = left[i]
         /\ UNCHANGED <<handling, moves, publishing, queue, retried, overtaken, faultCount>>
<1>1. left \in Seq(Statements) /\ left # << >>
  BY DEF LeftOK
<1>2. /\ Tail(left) \in Seq(Statements) /\ Len(Tail(left)) = Len(left) - 1
      /\ \A i \in 1 .. Len(Tail(left)) : Tail(left)[i] = left[i + 1]
  BY HeadTypes
<1>3. Len(left) \in Nat \ {0}
  BY <1>1, EmptySeq
<1>4. <<x>> \in Seq(Statements) /\ Len(<<x>>) = 1 /\ <<x>>[1] = x
  OBVIOUS
<1>5. left' = <<x>> \o Tail(left)
  BY DEF Proceed, historyVars
<1> DEFINE u == <<x>>
<1>6. /\ u \o Tail(left) \in Seq(Statements)
      /\ Len(u \o Tail(left)) = Len(u) + Len(Tail(left))
      /\ \A i \in 1 .. Len(u) + Len(Tail(left)) :
           (u \o Tail(left))[i] = IF i <= Len(u) THEN u[i] ELSE Tail(left)[i - Len(u)]
  <2> HIDE DEF u
  <2> QED BY <1>2, <1>4, ConcatProperties DEF u
<1> HIDE DEF u
<1>7. Len(left') = Len(left) /\ left'[1] = x
  BY <1>2, <1>3, <1>4, <1>5, <1>6 DEF u
<1>8. \A i \in 2 .. Len(left) : left'[i] = left[i]
  <2> SUFFICES ASSUME NEW i \in 2 .. Len(left) PROVE left'[i] = left[i]
    OBVIOUS
  <2>1. i - 1 \in 1 .. Len(Tail(left)) /\ (i - 1) + 1 = i
    BY <1>2, <1>3
  <2>2. left'[i] = Tail(left)[i - 1]
    BY <1>2, <1>3, <1>4, <1>5, <1>6 DEF u
  <2> QED BY <1>2, <2>1, <2>2
<1>9. left' # << >>
  BY <1>3, <1>7
<1> QED BY <1>3, <1>7, <1>8, <1>9 DEF Proceed, historyVars

\* The parts of a session in the place of the first statement.
LEMMA ProceedSplit ==
  ASSUME LeftOK, Busy, NEW s \in SessionRows, Proceed(Segments(s) \o Tail(left))
  PROVE  /\ Len(left) \in Nat \ {0} /\ Len(Segments(s)) \in Nat
         /\ Len(left') = Len(Segments(s)) + Len(left) - 1
         /\ \A i \in 1 .. Len(Segments(s)) : left'[i] = Segments(s)[i]
         /\ \A i \in 1 .. Len(left') :
              i > Len(Segments(s)) =>
                /\ i - Len(Segments(s)) + 1 \in 2 .. Len(left)
                /\ left'[i] = left[i - Len(Segments(s)) + 1]
         /\ handling' \subseteq handling
         /\ left' # << >> => handling' = handling
         /\ UNCHANGED <<moves, publishing, queue, retried, overtaken, faultCount>>
<1>1. left \in Seq(Statements) /\ left # << >>
  BY DEF LeftOK
<1>2. /\ Tail(left) \in Seq(Statements) /\ Len(Tail(left)) = Len(left) - 1
      /\ \A i \in 1 .. Len(Tail(left)) : Tail(left)[i] = left[i + 1]
  BY HeadTypes
<1>3. Len(left) \in Nat \ {0}
  BY <1>1, EmptySeq
<1>4. Segments(s) \in Seq(Statements)
  BY SegmentTypes
<1>5. left' = Segments(s) \o Tail(left)
  BY DEF Proceed, historyVars
<1>6. /\ Len(left') = Len(Segments(s)) + Len(Tail(left))
      /\ \A i \in 1 .. Len(Segments(s)) + Len(Tail(left)) :
           left'[i] = IF i <= Len(Segments(s)) THEN Segments(s)[i] ELSE Tail(left)[i - Len(Segments(s))]
  BY <1>2, <1>4, <1>5, ConcatProperties
<1>7. Len(Segments(s)) \in Nat
  BY <1>4, LenProperties
<1>8. \A i \in 1 .. Len(Segments(s)) : left'[i] = Segments(s)[i]
  BY <1>2, <1>3, <1>6, <1>7
<1>9. ASSUME NEW i \in 1 .. Len(left'), i > Len(Segments(s))
      PROVE  /\ i - Len(Segments(s)) + 1 \in 2 .. Len(left)
             /\ left'[i] = left[i - Len(Segments(s)) + 1]
  <2>1. i - Len(Segments(s)) \in 1 .. Len(Tail(left)) /\ i \in 1 .. Len(Segments(s)) + Len(Tail(left))
    BY <1>2, <1>3, <1>6, <1>7, <1>9
  <2>2. left'[i] = Tail(left)[i - Len(Segments(s))]
    BY <1>6, <1>7, <1>9, <2>1
  <2> QED BY <1>2, <1>3, <1>7, <2>1, <2>2
<1> QED BY <1>2, <1>3, <1>6, <1>7, <1>8, <1>9 DEF Proceed, historyVars

\* A session is opened by a handler's last statement but one, if at all.
Opens(q) == \E i \in 1 .. Len(q) : q[i].op = "open"

OpensLast(q) ==
  /\ \A i, j \in 1 .. Len(q) : i < j /\ q[i].op \in {"open", "lifecycle"} => q[j].op = "lifecycle"
  /\ \A i \in 2 .. Len(q) : q[i].op = "lifecycle" => q[i - 1].op = "open"

LEMMA HandlerCases ==
  ASSUME NEW e \in EventSet
  PROVE  /\ e.old = e.new => Handler(e) = << >>
         /\ e.old # e.new =>
              /\ Handler(e) # << >>
              /\ Handler(e)[1].op = IF e.old = None THEN "open" ELSE "close"
         /\ Opens(Handler(e)) <=> e.new # None /\ e.old # e.new
         /\ OpensLast(Handler(e))
<1> DEFINE C == Do("close", e)  O == Do("open", e)  L == Do("lifecycle", e)
<1>1. C.op = "close" /\ O.op = "open" /\ L.op = "lifecycle"
  BY DEF Do
<1>2. CASE e.old = e.new
  <2>1. Handler(e) = << >> /\ Len(Handler(e)) = 0
    BY <1>2 DEF Handler
  <2> QED BY <1>2, <2>1 DEF Opens, OpensLast
<1>3. CASE e.old # e.new
  <2>1. Handler(e) = (IF e.old = None THEN << >> ELSE <<C>>)
                     \o (IF e.new = None THEN << >> ELSE <<O, L>>)
    BY <1>3 DEF Handler
  <2> HIDE DEF C, O, L
  <2>2. CASE e.new = None
    <3>1. Handler(e) = <<C>> \o << >>
      BY <1>3, <2>1, <2>2
    <3>2. <<C>> \o << >> = <<C>>
      OBVIOUS
    <3>3. Handler(e) = <<C>> /\ Len(Handler(e)) = 1 /\ Handler(e)[1] = C
      BY <3>1, <3>2
    <3>4. ~Opens(Handler(e)) /\ OpensLast(Handler(e))
      BY <1>1, <3>3 DEF Opens, OpensLast
    <3>5. Handler(e) # << >>
      BY <3>3
    <3> QED BY <1>1, <1>3, <2>2, <3>3, <3>4, <3>5
  <2>3. CASE e.new # None /\ e.old = None
    <3>1. Handler(e) = << >> \o <<O, L>>
      BY <2>1, <2>3
    <3>2. << >> \o <<O, L>> = <<O, L>>
      OBVIOUS
    <3>3. Handler(e) = <<O, L>> /\ Len(Handler(e)) = 2 /\ Handler(e)[1] = O /\ Handler(e)[2] = L
      BY <3>1, <3>2
    <3>4. Opens(Handler(e)) /\ OpensLast(Handler(e))
      BY <1>1, <3>3 DEF Opens, OpensLast
    <3>5. Handler(e) # << >>
      BY <3>3
    <3> QED BY <1>1, <1>3, <2>3, <3>3, <3>4, <3>5
  <2>4. CASE e.new # None /\ e.old # None
    <3>1. Handler(e) = <<C>> \o <<O, L>>
      BY <2>1, <2>4
    <3> DEFINE u == <<C>>  v == <<O, L>>
    <3>2. /\ u \in Seq({C, O, L}) /\ v \in Seq({C, O, L})
          /\ Len(u) = 1 /\ u[1] = C /\ Len(v) = 2 /\ v[1] = O /\ v[2] = L
      OBVIOUS
    <3> HIDE DEF u, v
    <3>6. /\ Len(u \o v) = Len(u) + Len(v)
          /\ \A i \in 1 .. Len(u) + Len(v) :
               (u \o v)[i] = IF i <= Len(u) THEN u[i] ELSE v[i - Len(u)]
      BY SMTT(30), <3>2, ConcatProperties
    <3>7. Handler(e) = u \o v
      BY <3>1 DEF u, v
    <3>3. Len(Handler(e)) = 3 /\ Handler(e)[1] = C /\ Handler(e)[2] = O /\ Handler(e)[3] = L
      BY <3>2, <3>6, <3>7
    <3>4. Opens(Handler(e)) /\ OpensLast(Handler(e))
      BY <1>1, <3>3 DEF Opens, OpensLast
    <3>5. Handler(e) # << >>
      BY <3>3
    <3> QED BY <1>1, <1>3, <2>4, <3>3, <3>4, <3>5
  <2> QED BY <2>2, <2>3, <2>4
<1> QED BY <1>2, <1>3

LEMMA TailOpens ==
  ASSUME LeftOK, Busy, OpensLast(left), Proceed(Tail(left))
  PROVE  /\ OpensLast(left')
         /\ left[1].op # "open" => (Opens(left') <=> Opens(left))
         /\ left' # << >> => (left'[1].op = "lifecycle" <=> left[1].op \in {"open", "lifecycle"})
<1>1. /\ Len(left) \in Nat /\ 1 \in 1 .. Len(left) /\ Len(left') = Len(left) - 1
      /\ \A i \in 1 .. Len(left') : left'[i] = left[i + 1] /\ i + 1 \in 1 .. Len(left)
  BY ProceedTail
<1>2. \A i \in 1 .. Len(left) : i = 1 \/ (i - 1 \in 1 .. Len(left') /\ left'[i - 1] = left[i])
  <2> SUFFICES ASSUME NEW i \in 1 .. Len(left), i # 1
               PROVE  i - 1 \in 1 .. Len(left') /\ left'[i - 1] = left[i]
    OBVIOUS
  <2>1. i - 1 \in 1 .. Len(left') /\ (i - 1) + 1 = i
    BY <1>1
  <2> QED BY <1>1, <2>1
<1>3. \A i, j \in 1 .. Len(left') :
        i < j /\ left'[i].op \in {"open", "lifecycle"} => left'[j].op = "lifecycle"
  <2> SUFFICES ASSUME NEW i \in 1 .. Len(left'), NEW j \in 1 .. Len(left'),
                      i < j, left'[i].op \in {"open", "lifecycle"}
               PROVE  left'[j].op = "lifecycle"
    OBVIOUS
  <2>1. /\ left'[i] = left[i + 1] /\ i + 1 \in 1 .. Len(left)
        /\ left'[j] = left[j + 1] /\ j + 1 \in 1 .. Len(left)
        /\ i + 1 < j + 1
    BY <1>1
  <2> QED BY <2>1 DEF OpensLast
<1>4. ASSUME NEW i \in 2 .. Len(left'), left'[i].op = "lifecycle" PROVE left'[i - 1].op = "open"
  <2>1. i - 1 \in 1 .. Len(left') /\ i \in 1 .. Len(left') /\ i + 1 \in 2 .. Len(left)
        /\ (i - 1) + 1 = i /\ (i + 1) - 1 = i
    BY <1>1
  <2>2. left[i + 1].op = "lifecycle" /\ left'[i - 1] = left[i]
    BY <1>1, <1>4, <2>1
  <2> QED BY <2>1, <2>2 DEF OpensLast
<1>5. left[1].op # "open" => (Opens(left') <=> Opens(left))
  BY SMTT(30), <1>1, <1>2 DEF Opens
<1>6. ASSUME left' # << >> PROVE left'[1].op = "lifecycle" <=> left[1].op \in {"open", "lifecycle"}
  <2>1. Len(left) > 1 /\ left'[1] = left[2]
    BY <1>6, ProceedTail
  <2>2. 2 \in 2 .. Len(left) /\ 2 \in 1 .. Len(left) /\ 2 - 1 = 1 /\ 1 < 2
    BY <1>1, <2>1
  <2> QED BY <1>1, <2>1, <2>2 DEF OpensLast
<1> QED BY <1>3, <1>4, <1>5, <1>6 DEF OpensLast

LEMMA SwapOpens ==
  ASSUME LeftOK, Busy, OpensLast(left), NEW x \in Statements, Proceed(<<x>> \o Tail(left)),
         left[1].op = "close", x.op = "record"
  PROVE  OpensLast(left') /\ (Opens(left') <=> Opens(left))
<1>1. /\ Len(left) \in Nat \ {0} /\ Len(left') = Len(left) /\ left'[1] = x
      /\ \A i \in 2 .. Len(left) : left'[i] = left[i]
  BY ProceedSwap
<1>2. \A i \in 1 .. Len(left) :
        /\ left'[i].op \in {"open", "lifecycle"} <=> left[i].op \in {"open", "lifecycle"}
        /\ left'[i].op = "open" <=> left[i].op = "open"
        /\ left'[i].op = "lifecycle" <=> left[i].op = "lifecycle"
  <2> SUFFICES ASSUME NEW i \in 1 .. Len(left)
               PROVE  /\ left'[i].op = "open" <=> left[i].op = "open"
                      /\ left'[i].op = "lifecycle" <=> left[i].op = "lifecycle"
    OBVIOUS
  <2>1. i = 1 \/ i \in 2 .. Len(left)
    BY <1>1
  <2> QED BY <1>1, <2>1
<1>3. \A i \in 2 .. Len(left) : i - 1 \in 1 .. Len(left) /\ i \in 1 .. Len(left)
  BY <1>1
<1> QED BY <1>1, <1>2, <1>3 DEF OpensLast, Opens

LEMMA SplitOpens ==
  ASSUME LeftOK, Busy, OpensLast(left), NEW s \in SessionRows,
         Proceed(Segments(s) \o Tail(left)), left[1].op = "record"
  PROVE  /\ OpensLast(left') /\ (Opens(left') <=> Opens(left))
         /\ s.from < s.to => left' # << >> /\ left'[1].op = "add"
<1>1. PICK n \in Nat : n = Len(Segments(s))
  BY ProceedSplit
<1>2. s.from < s.to => n >= 1
  <2> SUFFICES ASSUME s.from < s.to PROVE n >= 1
    OBVIOUS
  <2>1. s.from \in Nat /\ s.to - 1 \in Nat /\ s.from <= s.to - 1
    BY DEF SessionRows, Times
  <2>2. n = Day(s.to - 1) - Day(s.from) + 1 /\ Day(s.to - 1) \in Nat /\ Day(s.from) \in Nat
    BY <1>1, <2>1, SegmentTypes, DayBounds
  <2>3. Day(s.from) <= Day(s.to - 1)
    <3>1. Day(s.from) * PerDay <= s.from /\ Day(s.from) * PerDay \in Nat
      BY <2>1, <2>2, DayBounds, VoiceAssumption
    <3>2. Day(s.from) * PerDay <= s.to - 1
      BY <2>1, <3>1
    <3> QED BY <2>1, <2>2, <3>2, DayOrder
  <2> QED BY <2>2, <2>3
<1>3. /\ Len(left) \in Nat \ {0} /\ Len(left') = n + Len(left) - 1
      /\ \A i \in 1 .. n : left'[i].op = "add" /\ i \in 1 .. Len(left')
      /\ \A i \in 1 .. Len(left') :
           i > n => i - n + 1 \in 2 .. Len(left) /\ left'[i] = left[i - n + 1]
  <2>1. \A i \in 1 .. n : i \in DOMAIN Segments(s)
    BY <1>1, SegmentTypes
  <2>2. \A i \in 1 .. n : Segments(s)[i].op = "add"
    BY <2>1, SegmentTypes
  <2> QED BY <1>1, <2>2, ProceedSplit
<1>4. \A i \in 1 .. Len(left') : i \in 1 .. n \/ i > n
  BY <1>1, <1>3
<1>5. ASSUME NEW i \in 1 .. Len(left'), left'[i].op # "add"
      PROVE  i > n /\ i - n + 1 \in 2 .. Len(left) /\ left'[i] = left[i - n + 1]
  BY <1>3, <1>4, <1>5
<1>6. ASSUME NEW i \in 1 .. Len(left'), NEW j \in 1 .. Len(left'), i < j,
             left'[i].op \in {"open", "lifecycle"}
      PROVE  left'[j].op = "lifecycle"
  <2>1. i > n /\ i - n + 1 \in 2 .. Len(left) /\ left'[i] = left[i - n + 1]
    BY <1>5, <1>6
  <2>2. j > n
    BY <1>1, <1>6, <2>1
  <2>3. j - n + 1 \in 2 .. Len(left) /\ left'[j] = left[j - n + 1]
    BY <1>3, <2>2
  <2>4. i - n + 1 < j - n + 1 /\ i - n + 1 \in 1 .. Len(left) /\ j - n + 1 \in 1 .. Len(left)
    BY <1>1, <1>3, <1>6, <2>1, <2>3
  <2> QED BY <1>6, <2>1, <2>3, <2>4 DEF OpensLast
<1>7. ASSUME NEW i \in 2 .. Len(left'), left'[i].op = "lifecycle" PROVE left'[i - 1].op = "open"
  <2>1. i \in 1 .. Len(left') /\ i - 1 \in 1 .. Len(left')
    BY <1>1, <1>3
  <2>2. i > n /\ i - n + 1 \in 2 .. Len(left) /\ left'[i] = left[i - n + 1]
    BY <1>5, <1>7, <2>1
  <2>3. left[(i - n + 1) - 1].op = "open"
    BY <1>7, <2>2 DEF OpensLast
  <2>4. PICK h \in Int : h = i - n
    BY <1>1
  <2>5. (i - n + 1) - 1 = h /\ (i - 1) - n + 1 = h /\ h >= 1
    BY <1>1, <2>2, <2>4
  <2>6. left[h].op = "open"
    BY <2>3, <2>5
  <2>7. h # 1
    BY <2>6
  <2>8. i - 1 > n
    BY <1>1, <2>4, <2>5, <2>7
  <2>9. left'[i - 1] = left[(i - 1) - n + 1]
    BY <1>3, <2>1, <2>8
  <2> QED BY <2>5, <2>6, <2>9
<1>8. Opens(left') <=> Opens(left)
  <2>1. ASSUME NEW i \in 1 .. Len(left'), left'[i].op = "open" PROVE Opens(left)
    <3>1. i - n + 1 \in 2 .. Len(left) /\ left'[i] = left[i - n + 1]
      BY <1>5, <2>1
    <3>2. i - n + 1 \in 1 .. Len(left)
      BY <1>3, <3>1
    <3> QED BY <2>1, <3>1, <3>2 DEF Opens
  <2>2. ASSUME NEW i \in 1 .. Len(left), left[i].op = "open" PROVE Opens(left')
    <3>1. i # 1
      BY <2>2
    <3>2. PICK j \in Int : j = i + n - 1
      BY <1>1
    <3>3. j \in 1 .. Len(left') /\ j > n /\ j - n + 1 = i
      BY <1>1, <1>3, <3>1, <3>2
    <3>4. left'[j] = left[i]
      BY <1>3, <3>3
    <3> QED BY <2>2, <3>3, <3>4 DEF Opens
  <2> QED BY <2>1, <2>2 DEF Opens
<1>9. s.from < s.to => left' # << >> /\ left'[1].op = "add"
  <2> SUFFICES ASSUME s.from < s.to PROVE left' # << >> /\ left'[1].op = "add"
    OBVIOUS
  <2>1. 1 \in 1 .. n
    BY <1>1, <1>2
  <2>2. 1 \in 1 .. Len(left') /\ left'[1].op = "add"
    BY <1>3, <2>1
  <2> QED BY <2>2
<1> QED BY <1>6, <1>7, <1>8, <1>9 DEF OpensLast

LEMMA RowTimes ==
  ASSUME TypeInv
  PROVE  /\ \A s \in sessions : s.from \in Times /\ s.to \in Times
         /\ \A a \in active : a.from \in Times
         /\ \A e \in handling : e \in EventSet /\ e.at \in Times
         /\ \A i \in 1 .. Len(queue) : queue[i] \in EventSet /\ queue[i].at \in Times
         /\ \A i \in 1 .. Len(publishing) : publishing[i] \in EventSet /\ publishing[i].at \in Times
         /\ Len(queue) \in Nat /\ Len(publishing) \in Nat /\ Len(left) \in Nat
         /\ Busy /\ left[1].op = "record" => left[1].arg \in SessionRows
<1>1. \A s \in sessions : s.from \in Times /\ s.to \in Times
  BY DEF TypeInv, SessionsOK, SessionRows
<1>2. \A a \in active : a.from \in Times
  BY DEF TypeInv, ActiveOK, ActiveRows
<1>3. \A e \in handling : e \in EventSet /\ e.at \in Times
  BY DEF TypeInv, HandlingOK, EventSet
<1>4. /\ \A i \in 1 .. Len(queue) : queue[i] \in EventSet /\ queue[i].at \in Times
      /\ \A i \in 1 .. Len(publishing) : publishing[i] \in EventSet /\ publishing[i].at \in Times
  <2>1. queue \in Seq(EventSet) /\ publishing \in Seq(EventSet)
    BY DEF TypeInv
  <2>2. /\ \A i \in 1 .. Len(queue) : queue[i] \in EventSet
        /\ \A i \in 1 .. Len(publishing) : publishing[i] \in EventSet
    BY <2>1, ElementOfSeq
  <2> QED BY <2>2 DEF EventSet
<1>5. Len(queue) \in Nat /\ Len(publishing) \in Nat /\ Len(left) \in Nat
  BY LenProperties DEF TypeInv, LeftOK
<1>6. Busy /\ left[1].op = "record" => left[1].arg \in SessionRows
  BY HeadTypes DEF TypeInv, Argument
<1> QED BY <1>1, <1>2, <1>3, <1>4, <1>5, <1>6

\* A session to be closed or recorded comes first, then what is to be added, then
\* what is to be opened; and a session to be recorded is active no longer.
LeftShape ==
  /\ \A i \in 1 .. Len(left) : left[i].op \in {"close", "record"} => i = 1
  /\ \A i, j \in 1 .. Len(left) : j <= i /\ left[i].op = "add" => left[j].op = "add"
  /\ \A i \in 1 .. Len(left) : left[i].op \in {"close", "open"} => left[i].arg \in handling
  /\ left # << >> /\ left[1].op = "record" => active = {}
  /\ OpensLast(left)

\* Neither to be closed nor to be recorded is anything.
Plain(q) == \A i \in 1 .. Len(q) : q[i].op \notin {"close", "record"}

LEMMA PlainHead == \A q \in Seq(Statements) : Plain(q) /\ q # << >> => q[1].op \notin {"close", "record"}
<1> SUFFICES ASSUME NEW q \in Seq(Statements), Plain(q), q # << >> PROVE q[1].op \notin {"close", "record"}
  OBVIOUS
<1>1. 1 \in 1 .. Len(q)
  BY EmptySeq
<1> QED BY <1>1 DEF Plain

\* A statement that goes on to those after it leaves them in order.
LEMMA ShapeTail ==
  ASSUME LeftOK, Busy, LeftShape, Proceed(Tail(left))
  PROVE  LeftShape' /\ Plain(left')
<1>1. \A i \in 1 .. Len(left') : left'[i] = left[i + 1] /\ i + 1 \in 1 .. Len(left)
  BY ProceedTail
<1>2. \A i \in 1 .. Len(left') : i + 1 # 1 /\ i + 1 \in Nat
  BY ProceedTail
<1>3. Plain(left')
  BY <1>1, <1>2 DEF LeftShape, Plain
<1>4. \A i, j \in 1 .. Len(left') : j <= i /\ left'[i].op = "add" => left'[j].op = "add"
  BY <1>1, <1>2 DEF LeftShape
<1>5. \A i \in 1 .. Len(left') : left'[i].op \in {"close", "open"} => left'[i].arg \in handling'
  <2> SUFFICES ASSUME NEW i \in 1 .. Len(left'), left'[i].op \in {"close", "open"}
               PROVE  left'[i].arg \in handling'
    OBVIOUS
  <2>1. left' # << >>
    BY ProceedTail
  <2>2. handling' = handling
    BY <2>1, ProceedTail
  <2> QED BY <1>1, <2>2 DEF LeftShape
<1>6. left' # << >> => left'[1].op \notin {"close", "record"}
  BY <1>3, PlainHead, ProceedTail
<1>7. OpensLast(left')
  BY TailOpens DEF LeftShape
<1> QED BY <1>3, <1>4, <1>5, <1>6, <1>7 DEF LeftShape, Plain

LEMMA ShapeBegin == ASSUME TypeInv, Begin PROVE LeftShape'
<1>1. queue \in Seq(EventSet) /\ queue # << >>
  BY DEF Begin, TypeInv
<1>2. PICK e \in EventSet : e = Head(queue)
  BY <1>1, HeadTailProperties
<1>3. left' = Handler(e) /\ (left' # << >> => handling' = {e})
  BY <1>2 DEF Begin
<1>4. \A i \in 1 .. Len(left') :
         /\ left'[i].op \in {"close", "open", "lifecycle"}
         /\ left'[i].op = "close" => i = 1
         /\ left'[i].arg = e
  BY <1>3, HandlerShape
<1>5. left' # << >> => 1 \in 1 .. Len(left')
  <2>1. left' \in Seq(Statements)
    BY <1>3, HandlerTypes
  <2> QED BY <2>1, EmptySeq
<1>6. \A i \in 1 .. Len(left') : left' # << >>
  BY <1>2, <1>3
<1>7. OpensLast(left')
  BY <1>3, HandlerCases
<1> QED BY <1>3, <1>4, <1>5, <1>6, <1>7 DEF LeftShape

LEMMA ShapeClose == ASSUME TypeInv, LeftShape, Close PROVE LeftShape'
<1>1. /\ LeftOK /\ Busy /\ Head(left).op = "close" /\ Head(left).arg \in EventSet /\ Head(left) = left[1]
      /\ left # << >> /\ Len(left) \in Nat \ {0} /\ active' = {}
  BY CloseCases, HeadTypes, EmptySeq DEF TypeInv, LeftOK, Close
<1>2. CASE Proceed(Tail(left))
  BY <1>1, <1>2, ShapeTail
<1>3. ASSUME NEW a \in ActiveRows, Proceed(<<Do("record", Closed(a, Head(left).arg))>> \o Tail(left))
      PROVE  LeftShape'
  <2>1. PICK x \in Statements : x = Do("record", Closed(a, Head(left).arg)) /\ x.op = "record"
    <3>1. Closed(a, Head(left).arg) \in SessionRows
      BY <1>1, ClosedTypes
    <3>2. Do("record", Closed(a, Head(left).arg)).op = "record"
      BY DEF Do
    <3> QED BY <3>1, <3>2, StatementTypes
  <2>2. /\ Len(left') = Len(left) /\ left' # << >> /\ left'[1] = x
        /\ \A i \in 2 .. Len(left) : left'[i] = left[i]
        /\ handling' = handling
    BY <1>1, <1>3, <2>1, ProceedSwap
  <2>3. \A i \in 2 .. Len(left) : left[i].op \notin {"close", "record", "add"}
    <3>1. \A i \in 2 .. Len(left) : i # 1 /\ i \in 1 .. Len(left) /\ 1 <= i /\ 1 \in 1 .. Len(left)
      BY <1>1
    <3> QED BY <1>1, <3>1 DEF LeftShape
  <2>4. \A i \in 1 .. Len(left) : i = 1 \/ i \in 2 .. Len(left)
    BY <1>1
  <2>5. \A i \in 1 .. Len(left') : left'[i].op \in {"close", "record"} => i = 1
    BY <2>2, <2>3, <2>4
  <2>6. \A i \in 1 .. Len(left') : left'[i].op # "add"
    BY <2>1, <2>2, <2>3, <2>4
  <2>7. \A i \in 1 .. Len(left') : left'[i].op \in {"close", "open"} => left'[i].arg \in handling'
    BY <2>1, <2>2, <2>4 DEF LeftShape
  <2>8. OpensLast(left')
    BY <1>1, <1>3, <2>1, SwapOpens DEF LeftShape
  <2> QED BY <1>1, <2>5, <2>6, <2>7, <2>8 DEF LeftShape
<1> QED BY <1>2, <1>3, CloseCases

\* What Record puts first and what it leaves where it was.
LEMMA RecordParts ==
  ASSUME TypeInv, LeftShape, Record
  PROVE  /\ left # << >> /\ Head(left) = left[1] /\ left[1].op = "record"
         /\ left[1].arg \in SessionRows /\ active = {}
         /\ \A k \in 2 .. Len(left) : left[k].op \notin {"close", "record", "add"}
         /\ Proceed(Segments(left[1].arg) \o Tail(left))
         /\ UNCHANGED <<active, seconds, moves, publishing, queue, retried, overtaken, faultCount>>
         /\ handling' \subseteq handling
<1>1. /\ LeftOK /\ Busy /\ left # << >> /\ Head(left) = left[1] /\ left[1].op = "record"
      /\ Len(left) \in Nat \ {0}
  BY HeadTypes, EmptySeq DEF Record, Running, TypeInv, LeftOK
<1>2. left[1].arg \in SessionRows /\ active = {}
  BY <1>1, RowTimes DEF LeftShape
<1>3. \A k \in 2 .. Len(left) : left[k].op \notin {"close", "record", "add"}
  <2>1. \A k \in 2 .. Len(left) : k # 1 /\ k \in 1 .. Len(left) /\ 1 <= k /\ 1 \in 1 .. Len(left)
    BY <1>1
  <2> QED BY <1>1, <2>1 DEF LeftShape
<1>4. Proceed(Segments(left[1].arg) \o Tail(left)) /\ UNCHANGED <<active, seconds>>
  BY <1>1 DEF Record
<1>5. UNCHANGED <<moves, publishing, queue, retried, overtaken, faultCount>> /\ handling' \subseteq handling
  BY <1>4 DEF Proceed, historyVars
<1> QED BY <1>1, <1>2, <1>3, <1>4, <1>5

LEMMA ShapeRecord == ASSUME TypeInv, LeftShape, Record PROVE LeftShape' /\ Plain(left')
<1>1. PICK s \in SessionRows : s = left[1].arg
  BY RecordParts
<1>2. /\ Proceed(Segments(s) \o Tail(left)) /\ LeftOK /\ Busy /\ left[1].op = "record"
      /\ \A k \in 2 .. Len(left) : left[k].op \notin {"close", "record", "add"}
  BY <1>1, RecordParts DEF TypeInv, LeftOK
<1>3. PICK n \in Nat : n = Len(Segments(s))
  BY <1>2, ProceedSplit
<1>4. /\ Len(left) \in Nat \ {0}
      /\ Len(left') = n + Len(left) - 1
      /\ \A i \in 1 .. n : left'[i].op = "add"
      /\ \A i \in 1 .. Len(left') :
           i > n => i - n + 1 \in 2 .. Len(left) /\ left'[i] = left[i - n + 1]
      /\ left' # << >> => handling' = handling
  <2>1. \A i \in 1 .. n : i \in DOMAIN Segments(s)
    BY <1>3, SegmentTypes
  <2>2. \A i \in 1 .. n : Segments(s)[i].op = "add"
    BY <2>1, SegmentTypes
  <2> QED BY <1>2, <1>3, <2>2, ProceedSplit
<1>5. \A i \in 1 .. Len(left') : i \in 1 .. n \/ i > n
  BY <1>3, <1>4
<1>6. Plain(left')
  BY <1>2, <1>4, <1>5 DEF Plain
<1>7. \A i \in 1 .. Len(left') : left'[i].op = "add" => i <= n
  <2> SUFFICES ASSUME NEW i \in 1 .. Len(left'), left'[i].op = "add", i > n PROVE FALSE
    BY <1>5
  <2>1. i - n + 1 \in 2 .. Len(left) /\ left'[i] = left[i - n + 1]
    BY <1>4
  <2> QED BY <1>2, <2>1
<1>8. \A i, j \in 1 .. Len(left') : j <= i /\ left'[i].op = "add" => left'[j].op = "add"
  <2> SUFFICES ASSUME NEW i \in 1 .. Len(left'), NEW j \in 1 .. Len(left'),
                      j <= i, left'[i].op = "add"
               PROVE  left'[j].op = "add"
    OBVIOUS
  <2>1. j \in 1 .. n
    BY <1>4, <1>7
  <2> QED BY <1>4, <2>1
<1>9. \A i \in 1 .. Len(left') : left'[i].op \in {"close", "open"} => left'[i].arg \in handling'
  <2> SUFFICES ASSUME NEW i \in 1 .. Len(left'), left'[i].op \in {"close", "open"}
               PROVE  left'[i].arg \in handling'
    OBVIOUS
  <2>1. PICK k \in 2 .. Len(left) : left'[i] = left[k]
    BY <1>4, <1>5
  <2>2. k \in 1 .. Len(left)
    BY <1>4
  <2>3. left[k].arg \in handling
    BY <2>1, <2>2 DEF LeftShape
  <2>4. left' # << >>
    BY <1>4
  <2> QED BY <1>4, <2>1, <2>3, <2>4
<1>10. left' # << >> => left'[1].op \notin {"close", "record"}
  <2>1. left' \in Seq(Statements)
    BY StatementStepTypes DEF TypeInv, LeftOK
  <2> QED BY <1>6, <2>1, PlainHead
<1>11. OpensLast(left')
  BY <1>2, SplitOpens DEF LeftShape
<1> QED BY <1>6, <1>8, <1>9, <1>10, <1>11 DEF LeftShape, Plain

\* What goes on to the statement after it.
LEMMA OtherParts ==
  ASSUME TypeInv, Add \/ Open \/ Lifecycle
  PROVE  /\ LeftOK /\ Busy /\ Proceed(Tail(left)) /\ handling' \subseteq handling
         /\ UNCHANGED <<sessions, moves, publishing, queue, retried, overtaken, faultCount>>
BY DEF Add, Open, Lifecycle, Running, Proceed, TypeInv, tableVars, historyVars

LEMMA ShapeStep == ASSUME TypeInv, LeftShape, [Next]_vars PROVE LeftShape'
<1>1. CASE Member \/ Gateway \/ UNCHANGED vars
  <2>1. UNCHANGED <<left, handling, active>>
    BY <1>1, PublishParts
       DEF Member, Gateway, Move, MoveUnknown, Miss, handlerVars, tableVars, vars
  <2> QED BY <2>1 DEF LeftShape
<1>2. CASE Add \/ Open \/ Lifecycle
  BY <1>2, OtherParts, ShapeTail
<1>3. CASE HandlerFails \/ Crash
  <2>1. left' = << >> /\ Len(left') = 0
    BY <1>3 DEF HandlerFails, Crash
  <2> QED BY <2>1 DEF LeftShape, OpensLast
<1> QED BY <1>1, <1>2, <1>3, ShapeBegin, ShapeClose, ShapeRecord DEF Next, Worker

LEMMA ShapeInit == Init => LeftShape
<1> SUFFICES ASSUME Init PROVE LeftShape
  OBVIOUS
<1>1. left = << >> /\ Len(left) = 0
  BY DEF Init
<1> QED BY <1>1 DEF LeftShape, OpensLast

-----------------------------------------------------------------------------
(* Beginnings.  Until a handler is run again each event is handled once, in *)
(* whatever order: so no two sessions begin with the same move.             *)

LEMMA NowType == TypeInv => Now \in Nat
<1> SUFFICES ASSUME TypeInv PROVE Now \in Nat
  OBVIOUS
<1>1. CASE moves = << >>
  BY <1>1 DEF Now
<1>2. CASE moves # << >>
  <2>1. Len(moves) \in 1 .. Len(moves)
    BY <1>2, EmptySeq DEF TypeInv
  <2>2. moves[Len(moves)] \in Moves
    BY <2>1, ElementOfSeq DEF TypeInv
  <2> QED BY <1>2, <2>2 DEF Now, Last, Moves, Times
<1> QED BY <1>1, <1>2

\* A move comes after all that was there before it.
LEMMA MemberNow ==
  ASSUME TypeInv, NEW c \in Places, NEW t \in Times, Goes(c, t)
  PROVE  Now' = t /\ Now < t
<1>1. moves' = Append(moves, [channel |-> c, at |-> t]) /\ Now < t
  BY NowType DEF Goes, Times
<1>2. [channel |-> c, at |-> t] \in Moves
  BY DEF Moves
<1>3. /\ moves' # << >> /\ Len(moves') = Len(moves) + 1
      /\ moves'[Len(moves) + 1] = [channel |-> c, at |-> t]
  BY <1>1, <1>2, AppendProperties DEF TypeInv
<1> QED BY <1>1, <1>3 DEF Now, Last

UnusedIn(q, t) == \A i \in 1 .. Len(q) : q[i].at # t
DistinctIn(q) == \A i, j \in 1 .. Len(q) : q[i].at = q[j].at => i = j

\* The event of the move at t, if there was one, waits no more.
Known(t) == t <= Now /\ UnusedIn(queue, t) /\ UnusedIn(publishing, t)

\* No session has begun at t.
New(t) == (\A s \in sessions : s.from # t) /\ (\A a \in active : a.from # t)

WaitingDistinct ==
  /\ DistinctIn(queue) /\ DistinctIn(publishing)
  /\ \A i \in 1 .. Len(queue) : queue[i].at <= Now /\ UnusedIn(publishing, queue[i].at)
  /\ \A i \in 1 .. Len(publishing) : publishing[i].at <= Now

RowsKnown ==
  /\ \A e \in handling : Known(e.at)
  /\ \A s \in sessions : Known(s.from)
  /\ \A a \in active : Known(a.from) /\ \A s \in sessions : s.from # a.from

LeftNew ==
  /\ \A i \in 1 .. Len(left) : left[i].op = "open" => New(left[i].arg.at)
  /\ left # << >> /\ left[1].op = "record" =>
       /\ Known(left[1].arg.from) /\ \A s \in sessions : s.from # left[1].arg.from
       /\ \A i \in 1 .. Len(left) : left[i].op = "open" => left[i].arg.at # left[1].arg.from

Fresh == WaitingDistinct /\ RowsKnown /\ LeftNew

FreshInv == ~retried => Fresh

\* What is known stays so.
KnownKept == \A t \in Times : Known(t) => Known(t)'

LEMMA FreshKept ==
  ASSUME TypeInv, Fresh, WaitingDistinct', KnownKept, UNCHANGED <<handling, left, active, sessions>>
  PROVE  Fresh'
<1>1. RowsKnown'
  BY RowTimes DEF Fresh, RowsKnown, KnownKept
<1>2. LeftNew'
  <2>1. left # << >> => Busy
    BY DEF TypeInv, LeftOK
  <2>2. left # << >> /\ left[1].op = "record" => left[1].arg.from \in Times
    BY <2>1, RowTimes DEF SessionRows
  <2>3. left # << >> /\ left[1].op = "record" => Known(left[1].arg.from)'
    BY <2>2 DEF KnownKept, Fresh, LeftNew
  <2> QED BY <2>3 DEF Fresh, LeftNew, New
<1> QED BY <1>1, <1>2 DEF Fresh

\* The event of a move is the last to wait, and of a later time than all others.
LEMMA MemberWaits ==
  ASSUME TypeInv, NEW c \in Places, NEW t \in Times, Move(c, t) \/ MoveUnknown(c, t) \/ Miss(c, t)
  PROVE  /\ UNCHANGED <<queue, handling, left, active, sessions, retried, overtaken>>
         /\ Now' = t /\ Now < t /\ Now \in Nat
         /\ \/ publishing' = publishing
            \/ \E e \in EventSet : e.at = t /\ publishing' = Append(publishing, e)
<1>1. UNCHANGED <<queue, handling, left, active, sessions, retried, overtaken>> /\ Goes(c, t)
  BY DEF Move, MoveUnknown, Miss, handlerVars, tableVars, historyVars
<1>2. CASE Miss(c, t)
  BY <1>1, <1>2, MemberNow, NowType DEF Miss, handlerVars
<1>3. CASE Move(c, t) \/ MoveUnknown(c, t)
  <2>1. PICK o : publishing' = Append(publishing, Event(o, c, t))
    BY <1>3 DEF Move, MoveUnknown
  <2>2. publishing' \in Seq(EventSet)
    BY MemberTypes DEF TypeInv
  <2>3. /\ Len(publishing') = Len(publishing) + 1 /\ Len(publishing) \in Nat
        /\ publishing'[Len(publishing) + 1] = Event(o, c, t)
    BY <2>1 DEF TypeInv
  <2>4. Len(publishing) + 1 \in 1 .. Len(publishing')
    BY <2>3
  <2>5. Event(o, c, t) \in EventSet
    BY <2>2, <2>3, <2>4, ElementOfSeq
  <2>6. Event(o, c, t).at = t
    BY DEF Event
  <2> QED BY <1>1, <2>1, <2>5, <2>6, MemberNow, NowType
<1> QED BY <1>2, <1>3

LEMMA MemberFresh ==
  ASSUME TypeInv, Fresh,
         NEW c \in Places, NEW t \in Times, Move(c, t) \/ MoveUnknown(c, t) \/ Miss(c, t)
  PROVE  Fresh'
<1>1. /\ UNCHANGED <<queue, handling, left, active, sessions, retried, overtaken>>
      /\ Now' = t /\ Now < t /\ Now \in Nat
  BY MemberWaits
<1>2. /\ Len(publishing) \in Nat
      /\ \A i \in 1 .. Len(publishing') :
           \/ i \in 1 .. Len(publishing) /\ publishing'[i] = publishing[i]
           \/ i = Len(publishing) + 1 /\ publishing'[i].at = t
  <2>1. CASE publishing' = publishing
    BY <2>1, RowTimes
  <2>2. CASE \E e \in EventSet : e.at = t /\ publishing' = Append(publishing, e)
    <3>1. PICK e \in EventSet : e.at = t /\ publishing' = Append(publishing, e)
      BY <2>2
    <3>2. /\ Len(publishing') = Len(publishing) + 1 /\ publishing'[Len(publishing) + 1] = e
          /\ \A i \in 1 .. Len(publishing) : publishing'[i] = publishing[i]
      BY <3>1, AppendProperties DEF TypeInv
    <3> QED BY <3>1, <3>2, RowTimes
  <2> QED BY <2>1, <2>2, MemberWaits
<1>3. /\ \A i \in 1 .. Len(queue) : queue[i].at \in Times /\ queue[i].at < t
      /\ \A i \in 1 .. Len(publishing) : publishing[i].at \in Times /\ publishing[i].at < t
  BY <1>1, RowTimes DEF Fresh, WaitingDistinct, Times
<1>4. KnownKept
  <2> SUFFICES ASSUME NEW x \in Times, Known(x) PROVE Known(x)'
    BY DEF KnownKept
  <2>1. x < t
    BY <1>1 DEF Known, Times
  <2>2. UnusedIn(publishing, x)'
    BY <1>2, <2>1 DEF Known, UnusedIn, Times
  <2>3. UnusedIn(queue, x)'
    BY <1>1 DEF Known, UnusedIn
  <2>4. x <= Now'
    BY <1>1, <2>1 DEF Times
  <2> QED BY <2>2, <2>3, <2>4 DEF Known
<1>5. WaitingDistinct'
  <2>1. DistinctIn(queue)'
    BY <1>1 DEF Fresh, WaitingDistinct, DistinctIn
  <2>2. DistinctIn(publishing)'
    <3> SUFFICES ASSUME NEW i \in 1 .. Len(publishing'), NEW j \in 1 .. Len(publishing'),
                        publishing'[i].at = publishing'[j].at
                 PROVE  i = j
      BY DEF DistinctIn
    <3>1. i = Len(publishing) + 1 <=> j = Len(publishing) + 1
      BY <1>2, <1>3 DEF Times
    <3>2. CASE i = Len(publishing) + 1
      BY <3>1, <3>2
    <3>3. CASE i # Len(publishing) + 1
      <4>1. /\ i \in 1 .. Len(publishing) /\ publishing'[i] = publishing[i]
            /\ j \in 1 .. Len(publishing) /\ publishing'[j] = publishing[j]
        BY <1>2, <3>1, <3>3
      <4>2. publishing[i].at = publishing[j].at /\ DistinctIn(publishing)
        BY <4>1 DEF Fresh, WaitingDistinct
      <4> QED BY <4>1, <4>2 DEF DistinctIn
    <3> QED BY <3>2, <3>3
  <2>3. \A i \in 1 .. Len(queue') : queue'[i].at <= Now'
    BY <1>1, <1>3 DEF Times
  <2>4. \A i \in 1 .. Len(publishing') : publishing'[i].at <= Now'
    BY <1>1, <1>2, <1>3 DEF Times
  <2>5. ASSUME NEW i \in 1 .. Len(queue') PROVE UnusedIn(publishing, queue[i].at)'
    <3>1. queue[i].at < t /\ queue[i].at \in Times /\ UnusedIn(publishing, queue[i].at) /\ queue' = queue
      BY <1>1, <1>3, <2>5 DEF Fresh, WaitingDistinct
    <3> QED BY <1>2, <3>1 DEF UnusedIn, Times
  <2> QED BY <2>1, <2>2, <2>3, <2>4, <2>5 DEF WaitingDistinct
<1> QED BY <1>1, <1>4, <1>5, FreshKept

LEMMA PublishFresh ==
  ASSUME TypeInv, Fresh, NEW i \in DOMAIN publishing, Publish(i)
  PROVE  Fresh'
<1>1. /\ i \in 1 .. Len(publishing) /\ Len(publishing) \in Nat /\ Len(queue) \in Nat
      /\ Len(queue') = Len(queue) + 1 /\ queue'[Len(queue) + 1] = publishing[i]
      /\ \A j \in 1 .. Len(queue) : queue'[j] = queue[j]
      /\ UNCHANGED <<moves, handling, left, active, sessions>>
  BY PublishParts
<1>2. Now' = Now
  BY <1>1 DEF Now
<1>3. \A j \in 1 .. Len(publishing') :
        \E k \in 1 .. Len(publishing) :
          k # i /\ publishing'[j] = publishing[k] /\ k = IF j < i THEN j ELSE j + 1
  <2>1. /\ Len(publishing') = Len(publishing) - 1
        /\ \A j \in 1 .. Len(publishing') : publishing'[j] = publishing[IF j < i THEN j ELSE j + 1]
    BY PublishParts
  <2>2. \A j \in 1 .. Len(publishing') :
          (IF j < i THEN j ELSE j + 1) \in 1 .. Len(publishing) /\ (IF j < i THEN j ELSE j + 1) # i
    BY <1>1, <2>1
  <2> QED BY <2>1, <2>2
<1>4. \A j \in 1 .. Len(queue') : j \in 1 .. Len(queue) \/ j = Len(queue) + 1
  BY <1>1
<1>5. KnownKept
  <2> SUFFICES ASSUME NEW x \in Times, Known(x) PROVE Known(x)'
    BY DEF KnownKept
  <2>1. UnusedIn(queue, x)'
    BY <1>1, <1>4 DEF Known, UnusedIn
  <2>2. UnusedIn(publishing, x)'
    BY <1>3 DEF Known, UnusedIn
  <2> QED BY <1>2, <2>1, <2>2 DEF Known
<1>6. WaitingDistinct'
  <2> USE DEF Fresh, WaitingDistinct
  <2>1. DistinctIn(queue)'
    BY <1>1, <1>4 DEF DistinctIn, UnusedIn
  <2>2. DistinctIn(publishing)'
    <3> SUFFICES ASSUME NEW j \in 1 .. Len(publishing'), NEW l \in 1 .. Len(publishing'),
                        publishing'[j].at = publishing'[l].at
                 PROVE  j = l
      BY DEF DistinctIn
    <3>1. PICK k \in 1 .. Len(publishing) : publishing'[j] = publishing[k] /\ k = IF j < i THEN j ELSE j + 1
      BY <1>3
    <3>2. PICK m \in 1 .. Len(publishing) : publishing'[l] = publishing[m] /\ m = IF l < i THEN l ELSE l + 1
      BY <1>3
    <3>3. k = m
      BY <3>1, <3>2 DEF DistinctIn
    <3> QED BY <1>1, <3>1, <3>2, <3>3
  <2>3. \A j \in 1 .. Len(queue') : queue'[j].at <= Now'
    BY <1>1, <1>2, <1>4
  <2>4. \A j \in 1 .. Len(publishing') : publishing'[j].at <= Now'
    BY <1>2, <1>3
  <2>5. ASSUME NEW j \in 1 .. Len(queue'), NEW l \in 1 .. Len(publishing')
        PROVE  publishing'[l].at # queue'[j].at
    <3>1. PICK k \in 1 .. Len(publishing) : k # i /\ publishing'[l] = publishing[k]
      BY <1>3
    <3>2. CASE j \in 1 .. Len(queue)
      BY <1>1, <3>1, <3>2 DEF UnusedIn
    <3>3. CASE j = Len(queue) + 1
      BY <1>1, <3>1, <3>3 DEF DistinctIn
    <3> QED BY <1>4, <3>2, <3>3
  <2>6. \A j \in 1 .. Len(queue') : UnusedIn(publishing, queue[j].at)'
    BY <2>5 DEF UnusedIn
  <2> QED BY <2>1, <2>2, <2>3, <2>4, <2>6
<1> QED BY <1>1, <1>5, <1>6, FreshKept

LEMMA BeginFresh == ASSUME TypeInv, Fresh, Begin PROVE Fresh'
<1>1. UNCHANGED <<moves, publishing, active, sessions>> /\ Now' = Now
  BY DEF Begin, tableVars, Now
<1>2. queue \in Seq(EventSet) /\ queue # << >> /\ Len(queue) \in Nat \ {0}
  BY EmptySeq DEF Begin, TypeInv
<1>3. PICK e \in EventSet : e = queue[1] /\ e = Head(queue)
  <2>1. 1 \in 1 .. Len(queue) /\ Head(queue) = queue[1]
    BY <1>2
  <2> QED BY <1>2, <2>1, ElementOfSeq
<1>4. /\ left' = Handler(e) /\ handling' \subseteq {e}
      /\ Len(queue') = Len(queue) - 1
      /\ \A i \in 1 .. Len(queue') : queue'[i] = queue[i + 1] /\ i + 1 \in 1 .. Len(queue) /\ i + 1 # 1
  BY <1>2, <1>3, HeadTailProperties DEF Begin
<1> USE DEF Fresh, WaitingDistinct
<1>5. KnownKept
  BY <1>1, <1>4 DEF KnownKept, Known, UnusedIn
<1>6. Known(e.at)'
  <2>1. 1 \in 1 .. Len(queue) /\ e.at <= Now /\ UnusedIn(publishing, e.at)
    BY <1>2, <1>3
  <2>2. UnusedIn(queue, e.at)'
    BY <1>3, <1>4, <2>1 DEF UnusedIn, DistinctIn
  <2> QED BY <1>1, <2>1, <2>2 DEF Known, UnusedIn
<1>7. WaitingDistinct'
  <2>1. DistinctIn(queue)'
    <3> SUFFICES ASSUME NEW i \in 1 .. Len(queue'), NEW j \in 1 .. Len(queue'), queue'[i].at = queue'[j].at
                 PROVE  i = j
      BY DEF DistinctIn
    <3>1. i + 1 = j + 1
      BY <1>4 DEF DistinctIn
    <3> QED BY <3>1
  <2>2. DistinctIn(publishing)' /\ \A i \in 1 .. Len(publishing') : publishing'[i].at <= Now'
    BY <1>1 DEF DistinctIn
  <2>3. \A i \in 1 .. Len(queue') : queue'[i].at <= Now' /\ UnusedIn(publishing, queue[i].at)'
    BY <1>1, <1>4 DEF UnusedIn
  <2> QED BY <2>1, <2>2, <2>3
<1>8. RowsKnown'
  BY <1>1, <1>4, <1>5, <1>6, RowTimes DEF RowsKnown, KnownKept
<1>9. LeftNew'
  <2>1. \A i \in 1 .. Len(left') :
           left'[i].op \in {"close", "open", "lifecycle"} /\ left'[i].arg = e
    BY <1>4, HandlerShape
  <2>2. New(e.at)
    <3>1. 1 \in 1 .. Len(queue)
      BY <1>2
    <3>2. \A t : Known(t) => t # e.at
      BY <1>3, <3>1 DEF Known, UnusedIn
    <3> QED BY <3>2 DEF RowsKnown, New
  <2>3. left' # << >> => left'[1].op # "record"
    <3>1. left' \in Seq(Statements)
      BY <1>4, HandlerTypes
    <3>2. left' # << >> => 1 \in 1 .. Len(left')
      BY <3>1, EmptySeq
    <3> QED BY <2>1, <3>2
  <2> QED BY <1>1, <2>1, <2>2, <2>3 DEF LeftNew, New
<1> QED BY <1>7, <1>8, <1>9

\* A statement leaves what waits and what is known alone.
LEMMA WorkKnown ==
  ASSUME Fresh, UNCHANGED <<moves, publishing, queue>>
  PROVE  WaitingDistinct' /\ \A t : Known(t) <=> Known(t)'
BY DEF Fresh, WaitingDistinct, DistinctIn, UnusedIn, Known, Now

LEMMA CloseFresh == ASSUME TypeInv, LeftShape, Fresh, Close PROVE Fresh'
<1>1. /\ UNCHANGED <<moves, publishing, queue, sessions>> /\ active' = {} /\ handling' \subseteq handling
      /\ LeftOK /\ Busy /\ Head(left).op = "close" /\ Head(left).arg \in EventSet /\ Head(left) = left[1]
  BY CloseCases, HeadTypes DEF Close, Proceed, TypeInv
<1>2. WaitingDistinct' /\ \A t : Known(t) <=> Known(t)'
  BY <1>1, WorkKnown
<1>3. RowsKnown'
  BY <1>1, <1>2 DEF RowsKnown, Fresh
<1>4. CASE Proceed(Tail(left))
  <2>1. \A i \in 1 .. Len(left') : left'[i] = left[i + 1] /\ i + 1 \in 1 .. Len(left)
    BY <1>1, <1>4, ProceedTail
  <2>2. left' # << >> => left'[1].op # "record"
    BY <1>1, <1>4, ShapeTail, ProceedTail, PlainHead
  <2>3. LeftNew'
    BY <1>1, <2>1, <2>2 DEF LeftNew, Fresh, New
  <2> QED BY <1>2, <1>3, <2>3 DEF Fresh
<1>5. ASSUME NEW a \in ActiveRows, active = {a},
             Proceed(<<Do("record", Closed(a, Head(left).arg))>> \o Tail(left))
      PROVE  Fresh'
  <2>1. PICK s \in SessionRows : s = Closed(a, Head(left).arg) /\ s.from = a.from
    BY <1>1, ClosedTypes
  <2>2. PICK x \in Statements : x = Do("record", s) /\ x.op = "record" /\ x.arg = s
    <3>1. Do("record", s).op = "record" /\ Do("record", s).arg = s
      BY DEF Do
    <3> QED BY <3>1, StatementTypes
  <2>3. /\ Len(left') = Len(left) /\ left'[1] = x /\ Len(left) \in Nat
        /\ \A i \in 2 .. Len(left) : left'[i] = left[i]
    BY <1>1, <1>5, <2>1, <2>2, ProceedSwap
  <2>4. \A i \in 1 .. Len(left') : left'[i].op = "open" => i \in 1 .. Len(left) /\ left'[i] = left[i]
    <3>1. \A i \in 1 .. Len(left) : i = 1 \/ i \in 2 .. Len(left)
      BY <2>3
    <3> QED BY <2>2, <2>3, <3>1
  <2>5. Known(a.from)' /\ \A o \in sessions' : o.from # a.from
    BY <1>1, <1>2, <1>5 DEF RowsKnown, Fresh
  <2>6. \A i \in 1 .. Len(left') : left'[i].op = "open" => New(left'[i].arg.at) /\ left'[i].arg.at # a.from
    BY <1>5, <2>4 DEF Fresh, LeftNew, New
  <2>7. LeftNew'
    BY <1>1, <2>1, <2>2, <2>3, <2>5, <2>6 DEF LeftNew, New
  <2> QED BY <1>2, <1>3, <2>7 DEF Fresh
<1> QED BY <1>4, <1>5, CloseCases

\* What is recorded is a new session.
LEMMA RecordNew ==
  ASSUME TypeInv, LeftShape, Fresh, Record
  PROVE  sessions' = sessions \union {left[1].arg} /\ left[1].arg \notin sessions
<1>1. left # << >> /\ Head(left) = left[1] /\ left[1].op = "record"
  BY RecordParts
<1>2. \A s \in sessions : s.from # left[1].arg.from
  BY <1>1 DEF Fresh, LeftNew
<1> QED BY <1>1, <1>2 DEF Record

LEMMA RecordFresh == ASSUME TypeInv, LeftShape, Fresh, Record PROVE Fresh'
<1>1. PICK s \in SessionRows : s = left[1].arg
  BY RecordParts
<1>2. /\ left # << >> /\ left[1].op = "record" /\ active = {} /\ LeftOK /\ Busy
      /\ Proceed(Segments(s) \o Tail(left)) /\ handling' \subseteq handling
      /\ UNCHANGED <<active, moves, publishing, queue>>
      /\ sessions' = sessions \union {s}
  BY <1>1, RecordParts, RecordNew DEF TypeInv, LeftOK
<1>3. WaitingDistinct' /\ \A t : Known(t) <=> Known(t)'
  BY <1>2, WorkKnown
<1>4. Known(s.from) /\ \A i \in 1 .. Len(left) : left[i].op = "open" => left[i].arg.at # s.from
  BY <1>1, <1>2 DEF Fresh, LeftNew
<1>5. RowsKnown'
  BY <1>2, <1>3, <1>4 DEF RowsKnown, Fresh
<1>6. PICK n \in Nat : n = Len(Segments(s))
  BY <1>2, ProceedSplit
<1>7. \A i \in 1 .. Len(left') : left'[i].op = "open" => \E k \in 1 .. Len(left) : left'[i] = left[k]
  <2>1. \A i \in 1 .. n : i \in DOMAIN Segments(s) /\ Segments(s)[i].op = "add"
    BY <1>6, SegmentTypes
  <2>2. /\ Len(left) \in Nat \ {0} /\ Len(left') = n + Len(left) - 1
        /\ \A i \in 1 .. n : left'[i].op = "add"
        /\ \A i \in 1 .. Len(left') :
             i > n => i - n + 1 \in 2 .. Len(left) /\ left'[i] = left[i - n + 1]
    BY <1>2, <1>6, <2>1, ProceedSplit
  <2>3. \A i \in 1 .. Len(left') : i \in 1 .. n \/ i > n
    BY <2>2
  <2>4. \A k \in 2 .. Len(left) : k \in 1 .. Len(left)
    BY <2>2
  <2> QED BY <2>2, <2>3, <2>4
<1>8. left' # << >> => left'[1].op # "record"
  <2>1. left' \in Seq(Statements) /\ Plain(left')
    BY StatementStepTypes, ShapeRecord DEF TypeInv, LeftOK
  <2> QED BY <2>1, PlainHead
<1>9. LeftNew'
  <2>1. \A i \in 1 .. Len(left') : left'[i].op = "open" => New(left'[i].arg.at) /\ left'[i].arg.at # s.from
    BY <1>4, <1>7 DEF Fresh, LeftNew
  <2>2. \A t : New(t) /\ t # s.from => New(t)'
    BY <1>2 DEF New
  <2> QED BY <1>8, <2>1, <2>2 DEF LeftNew
<1> QED BY <1>3, <1>5, <1>9 DEF Fresh

LEMMA OtherFresh == ASSUME TypeInv, LeftShape, Fresh, Add \/ Open \/ Lifecycle PROVE Fresh'
<1>1. /\ LeftOK /\ Busy /\ Proceed(Tail(left)) /\ handling' \subseteq handling
      /\ UNCHANGED <<sessions, moves, publishing, queue>>
  BY OtherParts
<1>2. WaitingDistinct' /\ \A t : Known(t) <=> Known(t)'
  BY <1>1, WorkKnown
<1>3. /\ \A i \in 1 .. Len(left') : left'[i] = left[i + 1] /\ i + 1 \in 1 .. Len(left) /\ 1 < i + 1
      /\ 1 \in 1 .. Len(left) /\ Head(left) = left[1]
  BY <1>1, ProceedTail, HeadTypes
<1>4. left' # << >> => left'[1].op # "record"
  BY <1>1, ShapeTail, ProceedTail, PlainHead
<1>5. CASE Add \/ Lifecycle
  <2>1. UNCHANGED active
    BY <1>5 DEF Add, Lifecycle, tableVars
  <2>2. RowsKnown'
    BY <1>1, <1>2, <2>1 DEF RowsKnown, Fresh
  <2>3. LeftNew'
    BY <1>1, <1>3, <1>4, <2>1 DEF LeftNew, Fresh, New
  <2> QED BY <1>2, <2>2, <2>3 DEF Fresh
<1>6. CASE Open
  <2>1. left[1].op = "open" /\ active' = {Opened(left[1].arg)} /\ Opened(left[1].arg).from = left[1].arg.at
    BY <1>3, <1>6 DEF Open, Running, Opened
  <2>2. New(left[1].arg.at) /\ left[1].arg \in handling
    BY <1>3, <2>1 DEF Fresh, LeftNew, LeftShape
  <2>3. RowsKnown'
    BY <1>1, <1>2, <2>1, <2>2 DEF RowsKnown, Fresh, New
  <2>4. \A i \in 1 .. Len(left') : left'[i].op # "open"
    BY <1>3, <2>1 DEF LeftShape, OpensLast
  <2>5. LeftNew'
    BY <1>4, <2>4 DEF LeftNew
  <2> QED BY <1>2, <2>3, <2>5 DEF Fresh
<1> QED BY <1>5, <1>6

LEMMA FreshStep == ASSUME TypeInv, LeftShape, FreshInv, [Next]_vars PROVE FreshInv'
<1>1. CASE Member
  <2>1. retried' = retried
    BY <1>1, MemberWaits DEF Member, Places, Times
  <2> QED BY <1>1, <2>1, MemberFresh DEF FreshInv, Member, Places, Times
<1>2. CASE Gateway
  <2>1. retried' = retried
    BY <1>2, PublishParts DEF Gateway
  <2> QED BY <1>2, <2>1, PublishFresh DEF FreshInv, Gateway
<1>3. CASE Worker
  <2>1. retried' = retried
    BY <1>3 DEF Worker, Begin, Close, Record, Add, Open, Lifecycle, Proceed, historyVars
  <2> QED BY <1>3, <2>1, BeginFresh, CloseFresh, RecordFresh, OtherFresh DEF FreshInv, Worker
<1>4. CASE HandlerFails
  BY <1>4 DEF HandlerFails, FreshInv
<1>5. CASE Crash
  <2>1. /\ UNCHANGED <<moves, publishing, queue, active, sessions, retried>>
        /\ handling' = {} /\ left' = << >> /\ Len(left') = 0
    BY <1>5 DEF Crash, tableVars, historyVars
  <2>2. Fresh => WaitingDistinct' /\ \A t : Known(t) <=> Known(t)'
    BY <2>1, WorkKnown
  <2>3. Fresh => RowsKnown' /\ LeftNew'
    BY <2>1, <2>2 DEF RowsKnown, LeftNew, Fresh
  <2> QED BY <2>1, <2>2, <2>3 DEF FreshInv, Fresh
<1>6. CASE UNCHANGED vars
  <2>1. UNCHANGED <<moves, publishing, queue, handling, left, active, sessions, retried>>
    BY <1>6 DEF vars, handlerVars, tableVars, historyVars
  <2>2. Fresh => WaitingDistinct' /\ KnownKept
    BY <2>1, WorkKnown DEF KnownKept
  <2> QED BY <2>1, <2>2, FreshKept DEF FreshInv
<1> QED BY <1>1, <1>2, <1>3, <1>4, <1>5, <1>6 DEF Next

LEMMA FreshInit == Init => FreshInv
<1> SUFFICES ASSUME Init PROVE Fresh
  BY DEF FreshInv
<1>1. /\ publishing = << >> /\ queue = << >> /\ left = << >>
      /\ handling = {} /\ active = {} /\ sessions = {}
  BY DEF Init
<1>2. Len(publishing) = 0 /\ Len(queue) = 0 /\ Len(left) = 0
  BY <1>1
<1> QED BY <1>1, <1>2 DEF Fresh, WaitingDistinct, DistinctIn, RowsKnown, LeftNew

-----------------------------------------------------------------------------
(* Seconds.  The seconds of a day in the sessions recorded are those added  *)
(* to the day and those that a handler is still to add.                     *)

CoveredBy(S, d) ==
  {t \in 0 .. MaxTime : Day(t) = d /\ \E s \in S : s.from <= t /\ t < s.to}

SecondsOf(S, d) ==
  {p \in S \X (0 .. MaxTime) : Day(p[2]) = d /\ p[1].from <= p[2] /\ p[2] < p[1].to}

LEMMA SecondsFinite ==
  ASSUME NEW S, IsFiniteSet(S), NEW d
  PROVE  IsFiniteSet(SecondsOf(S, d)) /\ Cardinality(SecondsOf(S, d)) \in Nat
<1>1. IsFiniteSet(0 .. MaxTime)
  BY VoiceAssumption, FS_Interval
<1>2. IsFiniteSet(S \X (0 .. MaxTime))
  BY <1>1, FS_Product
<1>3. SecondsOf(S, d) \subseteq S \X (0 .. MaxTime)
  BY DEF SecondsOf
<1> QED BY <1>2, <1>3, FS_Subset, FS_CardinalityType

\* One session has as many seconds of a day as its part of that day tells.
LEMMA CoveredByOne ==
  ASSUME NEW s \in SessionRows, s.from < s.to, NEW d \in Days
  PROVE  Cardinality(CoveredBy({s}, d)) =
           IF d \in Day(s.from) .. Day(s.to - 1) THEN Within(s.from, s.to, d) ELSE 0
<1>1. /\ s.from \in Nat /\ s.to \in Nat /\ s.to - 1 \in Nat /\ s.to <= MaxTime /\ MaxTime \in Nat
      /\ d \in Nat
  BY VoiceAssumption, DayBounds DEF SessionRows, Times, Days
<1>2. PICK p \in Nat, q \in Nat : p = d * PerDay /\ q = (d + 1) * PerDay /\ p < q
  <2>1. d * PerDay \in Nat /\ (d + 1) * PerDay \in Nat /\ (d + 1) * PerDay = d * PerDay + PerDay
    BY <1>1, VoiceAssumption
  <2>2. PerDay > 0 /\ PerDay \in Nat
    BY VoiceAssumption
  <2> QED BY <2>1, <2>2
<1>3. \A t \in Nat : Day(t) = d <=> p <= t /\ t < q
  <2> SUFFICES ASSUME NEW t \in Nat PROVE Day(t) = d <=> p <= t /\ t < q
    OBVIOUS
  <2>1. (p <= t <=> d <= Day(t)) /\ (t < q <=> Day(t) <= d) /\ Day(t) \in Nat
    BY <1>1, <1>2, DayOrder, DayBounds
  <2> QED BY <1>1, <2>1
<1>4. PICK a \in Nat, b \in Nat : a = Later(s.from, p) /\ b = Earlier(s.to, q)
  BY <1>1, <1>2 DEF Later, Earlier
<1>5. \A t \in Nat : p <= t /\ t < q /\ s.from <= t /\ t < s.to <=> a <= t /\ t < b
  BY <1>1, <1>2, <1>4 DEF Later, Earlier
<1>6. CoveredBy({s}, d) = a .. b - 1
  <2>1. ASSUME NEW t \in CoveredBy({s}, d) PROVE t \in a .. b - 1
    <3>1. t \in Nat /\ Day(t) = d /\ s.from <= t /\ t < s.to
      BY <1>1 DEF CoveredBy
    <3> QED BY <1>3, <1>4, <1>5, <3>1
  <2>2. ASSUME NEW t \in a .. b - 1 PROVE t \in CoveredBy({s}, d)
    <3>1. t \in Nat /\ a <= t /\ t < b
      BY <1>4
    <3>2. p <= t /\ t < q /\ s.from <= t /\ t < s.to
      BY <1>5, <3>1
    <3>3. t \in 0 .. MaxTime /\ Day(t) = d
      BY <1>1, <1>3, <3>1, <3>2
    <3> QED BY <3>2, <3>3 DEF CoveredBy
  <2> QED BY <2>1, <2>2
<1>7. Within(s.from, s.to, d) = b - a
  BY <1>2, <1>4 DEF Within
<1>8. Cardinality(a .. b - 1) = IF a > b - 1 THEN 0 ELSE b - a
  <2>1. PICK c \in Int : c = b - 1
    BY <1>4
  <2>2. a \in Int /\ c \in Int
    BY <1>4, <2>1
  <2>3. Cardinality(a .. c) = IF a > c THEN 0 ELSE c - a + 1
    BY <2>2, FS_Interval
  <2> QED BY <1>4, <2>1, <2>3
<1>9. d \in Day(s.from) .. Day(s.to - 1) <=> a < b
  <2>1. s.from < q <=> Day(s.from) <= d
    BY <1>1, <1>2, DayOrder
  <2>2. p <= s.to - 1 <=> d <= Day(s.to - 1)
    BY <1>1, <1>2, DayOrder
  <2>3. Day(s.from) \in Nat /\ Day(s.to - 1) \in Nat
    BY <1>1, DayBounds
  <2>4. a < b <=> s.from < q /\ p <= s.to - 1
    BY <1>1, <1>2, <1>4 DEF Later, Earlier
  <2> QED BY <1>1, <2>1, <2>2, <2>3, <2>4
<1> QED BY <1>4, <1>6, <1>7, <1>8, <1>9

\* So it is if the seconds are told apart by their session.
LEMMA SecondsOfOne ==
  ASSUME NEW s \in SessionRows, NEW d \in Days
  PROVE  Cardinality(SecondsOf({s}, d)) =
           IF s.from < s.to /\ d \in Day(s.from) .. Day(s.to - 1) THEN Within(s.from, s.to, d) ELSE 0
<1>1. SecondsOf({s}, d) = {s} \X CoveredBy({s}, d)
  BY DEF SecondsOf, CoveredBy
<1>2. CASE s.from < s.to
  <2>1. IsFiniteSet({s}) /\ Cardinality({s}) = 1
    BY FS_Singleton, Zenon
  <2>2. IsFiniteSet(CoveredBy({s}, d)) /\ Cardinality(CoveredBy({s}, d)) \in Nat
    <3>1. IsFiniteSet(0 .. MaxTime) /\ CoveredBy({s}, d) \subseteq 0 .. MaxTime
      BY VoiceAssumption, FS_Interval DEF CoveredBy
    <3> QED BY <3>1, FS_Subset, FS_CardinalityType
  <2>3. Cardinality({s} \X CoveredBy({s}, d)) = Cardinality({s}) * Cardinality(CoveredBy({s}, d))
    BY <2>1, <2>2, FS_Product
  <2>4. Cardinality({s} \X CoveredBy({s}, d)) = Cardinality(CoveredBy({s}, d))
    BY <2>1, <2>2, <2>3
  <2> QED BY <1>1, <1>2, <2>4, CoveredByOne
<1>3. CASE ~(s.from < s.to)
  <2>1. CoveredBy({s}, d) = {}
    <3>1. s.from \in Nat /\ s.to \in Nat /\ MaxTime \in Nat
      BY VoiceAssumption DEF SessionRows, Times
    <3> QED BY <1>3, <3>1 DEF CoveredBy
  <2>2. SecondsOf({s}, d) = {}
    BY <1>1, <2>1
  <2> QED BY <1>3, <2>2, FS_EmptySet
<1> QED BY <1>2, <1>3

LEMMA SecondsOfMore ==
  ASSUME NEW S, IsFiniteSet(S), NEW s, s \notin S, NEW d
  PROVE  Cardinality(SecondsOf(S \union {s}, d))
           = Cardinality(SecondsOf(S, d)) + Cardinality(SecondsOf({s}, d))
<1> DEFINE A == SecondsOf(S, d)
           B == SecondsOf({s}, d)
<1>1. SecondsOf(S \union {s}, d) = A \union B
  BY DEF SecondsOf
<1>2. A \intersect B = {}
  BY DEF SecondsOf
<1>3. IsFiniteSet(A) /\ IsFiniteSet(B) /\ Cardinality(A) \in Nat /\ Cardinality(B) \in Nat
  <2>1. IsFiniteSet({s})
    BY FS_Singleton, Zenon
  <2> QED BY <2>1, SecondsFinite
<1> HIDE DEF A, B
<1>4. Cardinality(A \union B) = Cardinality(A) + Cardinality(B) - Cardinality(A \intersect B)
  BY <1>3, FS_Union
<1>5. Cardinality(A \intersect B) = 0
  BY <1>2, FS_EmptySet
<1>6. Cardinality(A \union B) = Cardinality(A) + Cardinality(B)
  BY <1>3, <1>4, <1>5
<1> QED BY <1>1, <1>6 DEF A, B

\* x seconds are not too many for day d, and without faults none are missing.
Fits(x, d) ==
  /\ x <= Cardinality(SecondsOf(sessions, d))
  /\ faultCount = 0 => x = Cardinality(SecondsOf(sessions, d))

ToAdd(i, d) == left[i].op = "add" /\ left[i].arg.day = d

SumsRight ==
  /\ \A i, j \in 1 .. Len(left), d \in Days : ToAdd(i, d) /\ ToAdd(j, d) => i = j
  /\ \A d \in Days : (\A i \in 1 .. Len(left) : ~ToAdd(i, d)) => Fits(seconds[d], d)
  /\ \A d \in Days, i \in 1 .. Len(left) :
       ToAdd(i, d) => Fits(seconds[d] + left[i].arg.n, d)

SumsInv == ~retried => SumsRight

\* Nothing is added, and what is to be added stays, k places further on.
Shifted(k) ==
  /\ \A i \in 1 .. Len(left') : left'[i].op = "add" =>
       i + k \in 1 .. Len(left) /\ left'[i] = left[i + k]
  /\ \A i \in 1 .. Len(left) : left[i].op = "add" =>
       i - k \in 1 .. Len(left') /\ left'[i - k] = left[i]

LEMMA SumsShifted ==
  ASSUME TypeInv, SumsRight, NEW k \in Int, Shifted(k),
         UNCHANGED <<sessions, seconds>>, faultCount' = 0 => faultCount = 0
  PROVE  SumsRight'
<1>1. Len(left) \in Nat
  BY RowTimes
<1>2. ASSUME NEW d \in Days, NEW x, Fits(x, d) PROVE Fits(x, d)'
  BY <1>2 DEF Fits, SecondsOf
<1>3. ASSUME NEW i \in 1 .. Len(left'), NEW d \in Days, ToAdd(i, d)'
      PROVE  i + k \in 1 .. Len(left) /\ left'[i] = left[i + k] /\ ToAdd(i + k, d)
  BY <1>3 DEF ToAdd, Shifted
<1>4. ASSUME NEW i \in 1 .. Len(left'), NEW j \in 1 .. Len(left'), NEW d \in Days,
             ToAdd(i, d)', ToAdd(j, d)'
      PROVE  i = j
  <2>1. i + k = j + k
    BY <1>3, <1>4 DEF SumsRight
  <2> QED BY <2>1
<1>5. ASSUME NEW d \in Days, \A i \in 1 .. Len(left') : ~(left'[i].op = "add" /\ left'[i].arg.day = d)
      PROVE  Fits(seconds[d], d)'
  <2>1. ASSUME NEW i \in 1 .. Len(left) PROVE ~ToAdd(i, d)
    BY <1>5 DEF ToAdd, Shifted
  <2>2. Fits(seconds[d], d)
    BY <2>1 DEF SumsRight
  <2>3. seconds'[d] = seconds[d]
    OBVIOUS
  <2>4. PICK x : x = seconds[d]
    OBVIOUS
  <2>5. Fits(x, d)'
    BY <1>2, <2>2, <2>4
  <2> QED BY <2>3, <2>4, <2>5 DEF Fits
<1>6. ASSUME NEW d \in Days, NEW i \in 1 .. Len(left'), ToAdd(i, d)'
      PROVE  Fits(seconds[d] + left[i].arg.n, d)'
  <2>1. i + k \in 1 .. Len(left) /\ left'[i] = left[i + k] /\ ToAdd(i + k, d)
    BY <1>3, <1>6
  <2>2. PICK x : x = seconds[d] + left[i + k].arg.n
    OBVIOUS
  <2>3. Fits(x, d)
    BY <2>1, <2>2 DEF SumsRight
  <2>4. Fits(x, d)'
    BY <1>2, <2>3
  <2> QED BY <2>1, <2>2, <2>4 DEF Fits
<1> QED BY <1>4, <1>5, <1>6 DEF SumsRight, ToAdd

\* A part that is dropped leaves fewer seconds.
LEMMA SumsDropped ==
  ASSUME TypeInv, SumsRight, UNCHANGED <<sessions, seconds>>, left' = << >>, faultCount' # 0
  PROVE  SumsRight'
<1>1. Len(left') = 0
  OBVIOUS
<1>2. ASSUME NEW d \in Days PROVE seconds[d] <= Cardinality(SecondsOf(sessions, d))
  <2>1. CASE \A i \in 1 .. Len(left) : ~ToAdd(i, d)
    BY <2>1 DEF SumsRight, Fits
  <2>2. ASSUME NEW i \in 1 .. Len(left), ToAdd(i, d)
        PROVE  seconds[d] <= Cardinality(SecondsOf(sessions, d))
    <3>1. seconds[d] + left[i].arg.n <= Cardinality(SecondsOf(sessions, d))
      BY <2>2 DEF SumsRight, Fits
    <3>2. left[i] \in Statements /\ left[i].op = "add"
      <4>1. left \in Seq(Statements)
        BY DEF TypeInv, LeftOK
      <4> QED BY <2>2, <4>1, ElementOfSeq DEF ToAdd
    <3>3. left[i].arg.n \in Nat
      BY <3>2, StatementTypes DEF Argument, Parts
    <3>4. seconds[d] \in Nat /\ Cardinality(SecondsOf(sessions, d)) \in Nat
      BY SecondsFinite DEF TypeInv, SessionsOK
    <3> QED BY <3>1, <3>3, <3>4
  <2> QED BY <2>1, <2>2
<1>3. \A d \in Days : Fits(seconds[d], d)'
  BY <1>2 DEF Fits, SecondsOf
<1> QED BY <1>1, <1>3 DEF SumsRight

\* A session recorded adds as many seconds to a day as its part has.
LEMMA SumsRecorded ==
  ASSUME TypeInv, LeftShape, Fresh, SumsRight, Record
  PROVE  SumsRight'
<1>1. LeftOK /\ Busy /\ UNCHANGED <<seconds, faultCount>>
  BY DEF Record, Running, Proceed, TypeInv
<1>2. PICK s \in SessionRows : s = left[1].arg
  BY RecordParts
<1>3. /\ sessions' = sessions \union {s} /\ s \notin sessions
      /\ left[1].op = "record" /\ Head(left) = left[1]
  BY <1>2, RecordNew, RecordParts
<1>4. Proceed(Segments(s) \o Tail(left))
  BY <1>2, RecordParts
<1>5. PICK n \in Nat, f \in Nat, l \in Int :
        /\ n = Len(Segments(s)) /\ f = Day(s.from)
        /\ l = IF s.from < s.to THEN Day(s.to - 1) ELSE f - 1
  <2>1. s.from \in Nat /\ s.to - 1 \in Nat
    BY DEF SessionRows, Times
  <2>2. Day(s.from) \in Nat /\ Day(s.to - 1) \in Nat /\ Len(Segments(s)) \in Nat
    BY <1>1, <1>4, <2>1, ProceedSplit, DayBounds
  <2>3. (IF s.from < s.to THEN Day(s.to - 1) ELSE Day(s.from) - 1) \in Int
    BY <2>2
  <2> QED BY <2>2, <2>3
<1>6. /\ Len(left) \in Nat \ {0} /\ Len(left') = n + Len(left) - 1
      /\ \A i \in 1 .. Len(left') :
           i > n => i - n + 1 \in 2 .. Len(left) /\ left'[i] = left[i - n + 1]
      /\ \A i \in 1 .. n : left'[i] = Segments(s)[i]
  BY <1>1, <1>4, <1>5, ProceedSplit
<1>7. /\ n = l - f + 1
      /\ \A i \in 1 .. n : /\ left'[i].op = "add" /\ left'[i].arg.day = f + i - 1
                           /\ left'[i].arg.n = Within(s.from, s.to, f + i - 1)
                           /\ f + i - 1 \in f .. l
  <2>1. \A i \in 1 .. n : i \in DOMAIN Segments(s)
    BY <1>5, SegmentTypes
  <2>2. n = l - f + 1
    <3>1. CASE s.from < s.to
      BY <1>5, <3>1, SegmentTypes
    <3>2. CASE ~(s.from < s.to)
      <4>1. Len(Segments(s)) = 0
        BY <3>2, SegmentTypes
      <4> QED BY <1>5, <3>2, <4>1
    <3> QED BY <3>1, <3>2
  <2>3. \A i \in 1 .. n : /\ left'[i].op = "add" /\ left'[i].arg.day = f + i - 1
                          /\ left'[i].arg.n = Within(s.from, s.to, f + i - 1)
    BY ZenonT(30), <1>5, <1>6, <2>1, SegmentTypes
  <2>4. \A i \in 1 .. n : f + i - 1 \in f .. l
    BY <1>5, <2>2
  <2> QED BY <2>2, <2>3, <2>4
<1>8. \A k \in 1 .. Len(left) : left[k].op # "add"
  <2>1. \A k \in 1 .. Len(left) : 1 <= k /\ 1 \in 1 .. Len(left)
    BY <1>6
  <2> QED BY <1>3, <2>1 DEF LeftShape
<1>9. \A i \in 1 .. Len(left') : left'[i].op = "add" => i \in 1 .. n
  <2> SUFFICES ASSUME NEW i \in 1 .. Len(left'), left'[i].op = "add" PROVE i \in 1 .. n
    OBVIOUS
  <2>1. CASE i > n
    <3>1. i - n + 1 \in 1 .. Len(left) /\ left'[i] = left[i - n + 1]
      BY <1>6, <2>1
    <3> QED BY <1>8, <3>1
  <2> QED BY <1>6, <2>1
<1>10. \A i \in 1 .. n : i \in 1 .. Len(left')
  BY <1>6
<1>11. ASSUME NEW d \in Days
       PROVE  /\ Fits(seconds[d], d) /\ seconds[d] \in Nat /\ d \in Nat
              /\ Cardinality(SecondsOf(sessions, d)) \in Nat
              /\ Cardinality(SecondsOf(sessions', d))
                   = Cardinality(SecondsOf(sessions, d))
                     + IF d \in f .. l THEN Within(s.from, s.to, d) ELSE 0
  <2>1. Fits(seconds[d], d)
    BY <1>8 DEF SumsRight, ToAdd
  <2>2. IsFiniteSet(sessions)
    BY DEF TypeInv, SessionsOK
  <2>3. Cardinality(SecondsOf(sessions', d))
          = Cardinality(SecondsOf(sessions, d)) + Cardinality(SecondsOf({s}, d))
    BY <1>3, <2>2, SecondsOfMore
  <2>4. Cardinality(SecondsOf({s}, d)) = IF d \in f .. l THEN Within(s.from, s.to, d) ELSE 0
    BY <1>5, SecondsOfOne
  <2>5. seconds[d] \in Nat /\ d \in Nat
    BY DEF TypeInv, Days
  <2> QED BY <2>1, <2>2, <2>3, <2>4, <2>5, SecondsFinite
<1>12. ASSUME NEW i \in 1 .. Len(left'), NEW j \in 1 .. Len(left'), NEW d \in Days,
              ToAdd(i, d)', ToAdd(j, d)'
       PROVE  i = j
  <2>1. i \in 1 .. n /\ j \in 1 .. n /\ f + i - 1 = d /\ f + j - 1 = d
    BY <1>7, <1>9, <1>12 DEF ToAdd
  <2> QED BY <1>5, <2>1
<1>13. ASSUME NEW d \in Days, \A i \in 1 .. Len(left') : ~(left'[i].op = "add" /\ left'[i].arg.day = d)
       PROVE  Fits(seconds[d], d)'
  <2>1. d \notin f .. l
    <3> SUFFICES ASSUME d \in f .. l PROVE FALSE
      OBVIOUS
    <3>1. d - f + 1 \in 1 .. n /\ f + (d - f + 1) - 1 = d
      BY <1>5, <1>7, <1>11
    <3>2. left'[d - f + 1].op = "add" /\ left'[d - f + 1].arg.day = d
      BY <1>7, <3>1
    <3> QED BY <1>10, <1>13, <3>1, <3>2
  <2>2. Cardinality(SecondsOf(sessions', d)) = Cardinality(SecondsOf(sessions, d))
    BY <1>11, <2>1
  <2> QED BY <1>1, <1>11, <2>2 DEF Fits
<1>14. ASSUME NEW d \in Days, NEW i \in 1 .. Len(left'), ToAdd(i, d)'
       PROVE  Fits(seconds[d] + left[i].arg.n, d)'
  <2>1. i \in 1 .. n /\ f + i - 1 = d /\ d \in f .. l /\ left'[i].arg.n = Within(s.from, s.to, d)
    BY <1>7, <1>9, <1>14 DEF ToAdd
  <2>2. PICK w : w = Within(s.from, s.to, d)
    OBVIOUS
  <2>3. w \in Nat
    <3>1. s.from \in Nat /\ s.to \in Nat /\ d * PerDay \in Nat /\ (d + 1) * PerDay \in Nat
      BY <1>11, VoiceAssumption DEF SessionRows, Times
    <3>2. w \in Int
      BY <2>2, <3>1 DEF Within, Earlier, Later
    <3>3. Cardinality(SecondsOf({s}, d)) = w
      BY <1>5, <1>11, <2>1, <2>2, SecondsOfOne
    <3>4. IsFiniteSet({s})
      BY FS_Singleton, Zenon
    <3> QED BY <3>3, <3>4, SecondsFinite
  <2>4. Cardinality(SecondsOf(sessions', d)) = Cardinality(SecondsOf(sessions, d)) + w
    BY <1>11, <2>1, <2>2
  <2>5. PICK c \in Nat, x \in Nat : c = Cardinality(SecondsOf(sessions, d)) /\ x = seconds[d]
    BY <1>11
  <2>6. x <= c /\ (faultCount = 0 => x = c)
    BY <1>11, <2>5 DEF Fits
  <2>7. x + w <= c + w /\ (faultCount = 0 => x + w = c + w)
    BY <2>3, <2>6
  <2>8. x + w <= Cardinality(SecondsOf(sessions', d))
        /\ (faultCount' = 0 => x + w = Cardinality(SecondsOf(sessions', d)))
    BY <1>1, <2>4, <2>5, <2>7
  <2>9. seconds'[d] + left'[i].arg.n = x + w
    BY <1>1, <2>1, <2>2, <2>5
  <2> QED BY <2>8, <2>9 DEF Fits
<1> QED BY <1>12, <1>13, <1>14 DEF SumsRight, ToAdd

\* A part that is added is no longer to be added.
LEMMA SumsAdded ==
  ASSUME TypeInv, SumsRight, Add
  PROVE  SumsRight'
<1>1. LeftOK /\ Busy /\ Proceed(Tail(left)) /\ UNCHANGED <<sessions, faultCount>>
  BY DEF Add, Running, Proceed, TypeInv
<1>2. Head(left) = left[1] /\ left[1].op = "add" /\ left[1].arg \in Parts
  BY <1>1, HeadTypes DEF Add, Running, Argument
<1>3. PICK p \in Parts : p = left[1].arg
  BY <1>2
<1>4. p.day \in Days /\ p.n \in Nat /\ ToAdd(1, p.day)
  BY <1>2, <1>3 DEF Parts, ToAdd
<1>5. /\ seconds'[p.day] = seconds[p.day] + p.n
      /\ \A d \in Days : d # p.day => seconds'[d] = seconds[d]
  BY <1>2, <1>3, <1>4 DEF Add, TypeInv
<1>6. /\ Len(left) \in Nat /\ 1 \in 1 .. Len(left) /\ Len(left') = Len(left) - 1
      /\ \A i \in 1 .. Len(left') : left'[i] = left[i + 1] /\ i + 1 \in 1 .. Len(left) /\ i + 1 # 1
  BY <1>1, ProceedTail
<1>7. \A i \in 1 .. Len(left) : i = 1 \/ (i - 1 \in 1 .. Len(left') /\ left'[i - 1] = left[i])
  <2> SUFFICES ASSUME NEW i \in 1 .. Len(left), i # 1
               PROVE  i - 1 \in 1 .. Len(left') /\ left'[i - 1] = left[i]
    OBVIOUS
  <2>1. i - 1 \in 1 .. Len(left') /\ (i - 1) + 1 = i
    BY <1>6
  <2> QED BY <1>6, <2>1
<1>8. ASSUME NEW i \in 1 .. Len(left'), NEW d \in Days, ToAdd(i, d)'
      PROVE  i + 1 \in 1 .. Len(left) /\ left'[i] = left[i + 1] /\ ToAdd(i + 1, d) /\ d # p.day
  <2>1. i + 1 \in 1 .. Len(left) /\ left'[i] = left[i + 1] /\ ToAdd(i + 1, d) /\ i + 1 # 1
    BY <1>6, <1>8 DEF ToAdd
  <2> QED BY <1>4, <1>6, <2>1 DEF SumsRight
<1>9. ASSUME NEW i \in 1 .. Len(left'), NEW j \in 1 .. Len(left'), NEW d \in Days,
             ToAdd(i, d)', ToAdd(j, d)'
      PROVE  i = j
  <2>1. i + 1 = j + 1
    BY <1>8, <1>9 DEF SumsRight
  <2> QED BY <2>1
<1>10. ASSUME NEW d \in Days, \A i \in 1 .. Len(left') : ~(left'[i].op = "add" /\ left'[i].arg.day = d)
       PROVE  Fits(seconds[d], d)'
  <2>1. CASE d = p.day
    <3>1. Fits(seconds[d] + p.n, d)
      BY <1>3, <1>4, <1>6, <2>1 DEF SumsRight
    <3> QED BY <1>1, <1>5, <2>1, <3>1 DEF Fits, SecondsOf
  <2>2. CASE d # p.day
    <3>1. ASSUME NEW i \in 1 .. Len(left) PROVE ~ToAdd(i, d)
      BY <1>3, <1>7, <1>10, <2>2 DEF ToAdd
    <3>2. Fits(seconds[d], d)
      BY <3>1 DEF SumsRight
    <3> QED BY <1>1, <1>5, <2>2, <3>2 DEF Fits, SecondsOf
  <2> QED BY <2>1, <2>2
<1>11. ASSUME NEW d \in Days, NEW i \in 1 .. Len(left'), ToAdd(i, d)'
       PROVE  Fits(seconds[d] + left[i].arg.n, d)'
  <2>1. i + 1 \in 1 .. Len(left) /\ left'[i] = left[i + 1] /\ ToAdd(i + 1, d) /\ seconds'[d] = seconds[d]
    BY <1>5, <1>8, <1>11
  <2>2. Fits(seconds[d] + left[i + 1].arg.n, d)
    BY <2>1 DEF SumsRight
  <2> QED BY <1>1, <2>1, <2>2 DEF Fits, SecondsOf
<1> QED BY <1>9, <1>10, <1>11 DEF SumsRight, ToAdd

\* Closing, opening and beginning leave what is to be added as it is.
LEMMA SumsOther ==
  ASSUME TypeInv, SumsRight,
         Member \/ Gateway \/ Begin \/ Close \/ Open \/ Lifecycle \/ UNCHANGED vars
  PROVE  SumsRight'
<1>1. Len(left) \in Nat /\ LeftOK
  BY RowTimes DEF TypeInv
<1>2. UNCHANGED <<sessions, seconds>> /\ (faultCount' = 0 => faultCount = 0)
  <2>1. CASE Member
    BY <2>1, FaultTypes DEF Member, Move, MoveUnknown, Miss, tableVars
  <2>2. CASE Begin \/ Close \/ Open \/ Lifecycle \/ UNCHANGED vars
    BY <2>2 DEF Begin, Close, Open, Lifecycle, Proceed, vars, tableVars
  <2>3. CASE Gateway
    BY <2>3, PublishParts DEF Gateway
  <2> QED BY <2>1, <2>2, <2>3
<1>3. CASE Member \/ Gateway \/ UNCHANGED vars
  <2>1. left' = left
    BY <1>3, PublishParts DEF Member, Gateway, Move, MoveUnknown, Miss, handlerVars, vars
  <2>2. Shifted(0)
    BY <1>1, <2>1 DEF Shifted
  <2> QED BY <1>2, <2>2, SumsShifted
<1>4. CASE Begin
  <2>1. left = << >>
    BY <1>1, <1>4 DEF Begin, LeftOK
  <2>2. PICK e \in EventSet : left' = Handler(e)
    <3>1. queue \in Seq(EventSet) /\ queue # << >>
      BY <1>4 DEF Begin, TypeInv
    <3>2. Head(queue) \in EventSet
      BY <3>1, HeadTailProperties
    <3> QED BY <1>4, <3>2 DEF Begin
  <2>3. \A i \in 1 .. Len(left') : left'[i].op # "add"
    BY <2>2, HandlerShape
  <2>4. Len(left) = 0
    BY <2>1
  <2>5. Shifted(0)
    BY <2>3, <2>4 DEF Shifted
  <2> QED BY <1>2, <2>5, SumsShifted
<1>5. ASSUME Busy, Head(left).op # "add", Proceed(Tail(left)) PROVE SumsRight'
  <2>1. /\ \A i \in 1 .. Len(left') : left'[i] = left[i + 1] /\ i + 1 \in 1 .. Len(left)
        /\ Len(left') = Len(left) - 1 /\ left[1].op # "add"
    BY <1>1, <1>5, ProceedTail, HeadTypes
  <2>2. ASSUME NEW i \in 1 .. Len(left), left[i].op = "add"
        PROVE  i - 1 \in 1 .. Len(left') /\ left'[i - 1] = left[i]
    <3>1. i # 1
      BY <2>1, <2>2
    <3>2. i - 1 \in 1 .. Len(left') /\ (i - 1) + 1 = i
      BY <1>1, <2>1, <3>1
    <3> QED BY <2>1, <3>2
  <2>3. Shifted(1)
    BY <2>1, <2>2 DEF Shifted
  <2> QED BY <1>2, <2>3, SumsShifted
<1>6. CASE Open \/ Lifecycle
  BY <1>5, <1>6 DEF Open, Lifecycle, Running
<1>7. CASE Close
  <2>1. Busy /\ Head(left).op = "close" /\ Head(left).arg \in EventSet
    BY <1>7, CloseCases
  <2>2. CASE Proceed(Tail(left))
    BY <1>5, <2>1, <2>2
  <2>3. ASSUME NEW a \in ActiveRows,
               Proceed(<<Do("record", Closed(a, Head(left).arg))>> \o Tail(left))
        PROVE  SumsRight'
    <3>1. PICK x \in Statements : x = Do("record", Closed(a, Head(left).arg))
      BY <2>1, ClosedTypes, StatementTypes
    <3>2. x.op = "record"
      BY <3>1 DEF Do
    <3>3. /\ Len(left) \in Nat \ {0} /\ Len(left') = Len(left) /\ left'[1] = x
          /\ \A i \in 2 .. Len(left) : left'[i] = left[i]
      BY <1>1, <2>1, <2>3, <3>1, ProceedSwap
    <3>4. left[1].op = "close"
      BY <1>1, <2>1, HeadTypes
    <3>5. \A i \in 1 .. Len(left) : i = 1 \/ i \in 2 .. Len(left)
      BY <3>3
    <3>6. Shifted(0)
      BY <3>2, <3>3, <3>4, <3>5 DEF Shifted
    <3> QED BY <1>2, <3>6, SumsShifted
  <2> QED BY <1>7, <2>2, <2>3, CloseCases
<1> QED BY <1>3, <1>4, <1>6, <1>7

LEMMA SumsStep == ASSUME TypeInv, LeftShape, FreshInv, SumsInv, [Next]_vars PROVE SumsInv'
<1>1. CASE HandlerFails
  BY <1>1 DEF HandlerFails, SumsInv
<1>2. CASE ~HandlerFails
  <2>1. retried' = retried
    BY <1>2, PublishParts
       DEF Next, Member, Gateway, Move, MoveUnknown, Miss, Worker, Begin, Close, Record, Add, Open,
           Lifecycle, Crash, Proceed, historyVars, vars
  <2> SUFFICES ASSUME ~retried PROVE SumsRight'
    BY <2>1 DEF SumsInv
  <2>2. SumsRight /\ Fresh
    BY DEF SumsInv, FreshInv
  <2>3. CASE Crash
    <3>1. UNCHANGED <<sessions, seconds>> /\ left' = << >> /\ faultCount' # 0
      BY <2>3, FaultTypes DEF Crash, tableVars
    <3> QED BY <2>2, <3>1, SumsDropped
  <2> QED BY <1>2, <2>2, <2>3, SumsOther, SumsRecorded, SumsAdded DEF Next, Worker
<1> QED BY <1>1, <1>2

LEMMA SumsInit == Init => SumsInv
<1> SUFFICES ASSUME Init PROVE SumsRight
  BY DEF SumsInv
<1>1. left = << >> /\ sessions = {} /\ seconds = [d \in Days |-> 0]
  BY DEF Init
<1>2. Len(left) = 0
  BY <1>1
<1>3. ASSUME NEW d \in Days PROVE Fits(seconds[d], d)
  <2>1. SecondsOf(sessions, d) = {}
    BY <1>1 DEF SecondsOf
  <2>2. Cardinality(SecondsOf(sessions, d)) = 0
    BY <2>1, FS_EmptySet
  <2>3. seconds[d] = 0
    BY <1>1
  <2> QED BY <2>2, <2>3 DEF Fits
<1> QED BY <1>2, <1>3 DEF SumsRight

-----------------------------------------------------------------------------
(* Order.  Events are handled as they happened, until a handler is run      *)
(* again or one event overtakes another; so what is recorded lies behind    *)
(* what is still to be handled.                                             *)

Pending == queue \o publishing

PendingOK ==
  /\ Pending \in Seq(EventSet) /\ Len(Pending) = Len(queue) + Len(publishing) /\ Len(Pending) \in Nat
  /\ Len(queue) \in Nat /\ Len(publishing) \in Nat
  /\ \A i \in 1 .. Len(Pending) : Pending[i] \in EventSet /\ Pending[i].at \in Times
  /\ \A i \in 1 .. Len(queue) : Pending[i] = queue[i]
  /\ \A i \in 1 .. Len(Pending) : i > Len(queue) => Pending[i] = publishing[i - Len(queue)]

LEMMA PendingParts == TypeInv => PendingOK
<1> SUFFICES ASSUME TypeInv PROVE PendingOK
  OBVIOUS
<1>1. queue \in Seq(EventSet) /\ publishing \in Seq(EventSet)
  BY DEF TypeInv
<1>2. Len(queue) \in Nat /\ Len(publishing) \in Nat
  BY <1>1, LenProperties
<1>3. /\ Pending \in Seq(EventSet) /\ Len(Pending) = Len(queue) + Len(publishing)
      /\ \A i \in 1 .. Len(queue) + Len(publishing) :
           Pending[i] = IF i <= Len(queue) THEN queue[i] ELSE publishing[i - Len(queue)]
  BY <1>1, ConcatProperties DEF Pending
<1>4. \A i \in 1 .. Len(Pending) : Pending[i] \in EventSet
  BY <1>3, ElementOfSeq
<1>5. \A i \in 1 .. Len(Pending) : Pending[i].at \in Times
  BY <1>4 DEF EventSet
<1>6. \A i \in 1 .. Len(queue) : Pending[i] = queue[i]
  BY <1>2, <1>3
<1>7. \A i \in 1 .. Len(Pending) : i > Len(queue) => Pending[i] = publishing[i - Len(queue)]
  BY <1>2, <1>3
<1> QED BY <1>2, <1>3, <1>4, <1>5, <1>6, <1>7 DEF PendingOK

\* Appending to the second of two sequences appends to the two together.
LEMMA AppendOnto ==
  ASSUME NEW S, NEW a \in Seq(S), NEW b \in Seq(S), NEW e \in S
  PROVE  a \o Append(b, e) = Append(a \o b, e)
<1>1. a \o b \in Seq(S)
  BY ConcatProperties
<1>2. Append(b, e) = b \o <<e>>
  BY AppendIsConcat
<1>3. Append(a \o b, e) = (a \o b) \o <<e>>
  BY <1>1, AppendIsConcat
<1>4. <<e>> \in Seq(S)
  OBVIOUS
<1>5. (a \o b) \o <<e>> = a \o (b \o <<e>>)
  BY <1>4, ConcatAssociative
<1> QED BY <1>2, <1>3, <1>5

LEMMA PendingMember ==
  ASSUME TypeInv, NEW e \in EventSet, queue' = queue, publishing' = Append(publishing, e)
  PROVE  Pending' = Append(Pending, e)
<1>1. queue \in Seq(EventSet) /\ publishing \in Seq(EventSet)
  BY DEF TypeInv
<1>2. queue \o Append(publishing, e) = Append(queue \o publishing, e)
  BY <1>1, AppendOnto
<1> QED BY <1>2 DEF Pending

\* What is published in order stays in its place among what is to be handled.
LEMMA PendingPublish ==
  ASSUME TypeInv, 1 \in DOMAIN publishing, Publish(1)
  PROVE  Pending' = Pending
<1>1. /\ Len(queue') = Len(queue) + 1 /\ queue'[Len(queue) + 1] = publishing[1]
      /\ \A j \in 1 .. Len(queue) : queue'[j] = queue[j]
      /\ Len(publishing') = Len(publishing) - 1
      /\ \A j \in 1 .. Len(publishing') : publishing'[j] = publishing[IF j < 1 THEN j ELSE j + 1]
  BY PublishParts
<1>2. PendingOK
  BY PendingParts
<1>3. PendingOK'
  <2>1. TypeInv'
    BY PublishTypes
  <2> QED BY <2>1, PendingParts, PTL
<1>4. Len(Pending') = Len(Pending)
  BY <1>1, <1>2, <1>3 DEF PendingOK
<1>5. ASSUME NEW j \in 1 .. Len(Pending) PROVE Pending'[j] = Pending[j]
  <2>1. j \in Nat /\ Len(queue) \in Nat /\ j \in 1 .. Len(Pending')
    BY <1>2, <1>4 DEF PendingOK
  <2>2. CASE j <= Len(queue)
    <3>1. j \in 1 .. Len(queue) /\ j \in 1 .. Len(queue')
      BY <1>1, <2>1, <2>2
    <3> QED BY <1>1, <1>2, <1>3, <3>1 DEF PendingOK
  <2>3. CASE j = Len(queue) + 1
    <3>1. j \in 1 .. Len(queue') /\ j > Len(queue) /\ j - Len(queue) = 1
      BY <1>1, <2>1, <2>3
    <3>2. Pending'[j] = publishing[1]
      BY <1>1, <1>3, <2>3, <3>1 DEF PendingOK
    <3>3. Pending[j] = publishing[1]
      BY <1>2, <3>1 DEF PendingOK
    <3> QED BY <3>2, <3>3
  <2>4. CASE j > Len(queue) + 1
    <3>1. /\ j > Len(queue') /\ j > Len(queue)
          /\ j - Len(queue') \in 1 .. Len(publishing') /\ ~(j - Len(queue') < 1)
          /\ (j - Len(queue')) + 1 = j - Len(queue)
      BY <1>1, <1>2, <2>1, <2>4 DEF PendingOK
    <3>2. Pending'[j] = publishing'[j - Len(queue')]
      BY <1>3, <2>1, <3>1 DEF PendingOK
    <3>3. publishing'[j - Len(queue')] = publishing[j - Len(queue)]
      BY <1>1, <3>1
    <3>4. Pending[j] = publishing[j - Len(queue)]
      BY <1>2, <3>1 DEF PendingOK
    <3> QED BY <3>2, <3>3, <3>4
  <2> QED BY <2>1, <2>2, <2>3, <2>4
<1>6. Pending \in Seq(EventSet) /\ Pending' \in Seq(EventSet)
  BY <1>2, <1>3 DEF PendingOK
<1> QED BY <1>4, <1>5, <1>6, SeqEqual

LEMMA PendingBegin ==
  ASSUME TypeInv, Begin
  PROVE  /\ 1 \in 1 .. Len(Pending) /\ Len(Pending) \in Nat /\ Head(queue) = Pending[1]
         /\ Pending[1] \in EventSet /\ Len(Pending') = Len(Pending) - 1
         /\ \A i \in 1 .. Len(Pending') :
              Pending'[i] = Pending[i + 1] /\ i + 1 \in 1 .. Len(Pending) /\ 1 < i + 1
<1>1. /\ queue \in Seq(EventSet) /\ queue # << >> /\ publishing' = publishing /\ queue' = Tail(queue)
  BY DEF Begin, TypeInv
<1>2. Len(queue) \in Nat \ {0} /\ Head(queue) = queue[1]
  BY <1>1, EmptySeq
<1>3. /\ Len(queue') = Len(queue) - 1
      /\ \A i \in 1 .. Len(queue') : queue'[i] = queue[i + 1]
  BY <1>1, HeadTailProperties
<1>4. PendingOK
  BY PendingParts
<1>5. PendingOK'
  <2>1. TypeInv'
    BY BeginTypes
  <2> QED BY <2>1, PendingParts, PTL
<1>6. /\ 1 \in 1 .. Len(Pending) /\ Len(Pending) \in Nat /\ Head(queue) = Pending[1]
      /\ Pending[1] \in EventSet
  <2>1. 1 \in 1 .. Len(queue) /\ 1 \in 1 .. Len(Pending)
    BY <1>2, <1>4 DEF PendingOK
  <2> QED BY <1>2, <1>4, <2>1 DEF PendingOK
<1>7. Len(Pending') = Len(Pending) - 1
  BY <1>1, <1>3, <1>4, <1>5 DEF PendingOK
<1>8. ASSUME NEW i \in 1 .. Len(Pending')
      PROVE  Pending'[i] = Pending[i + 1] /\ i + 1 \in 1 .. Len(Pending) /\ 1 < i + 1
  <2>1. i \in Nat /\ i + 1 \in 1 .. Len(Pending) /\ 1 < i + 1
    BY <1>6, <1>7
  <2>2. CASE i <= Len(queue')
    <3>1. i \in 1 .. Len(queue') /\ i + 1 \in 1 .. Len(queue)
      BY <1>2, <1>3, <2>2
    <3> QED BY <1>3, <1>4, <1>5, <2>1, <3>1 DEF PendingOK
  <2>3. CASE i > Len(queue')
    <3>1. i + 1 > Len(queue) /\ i - Len(queue') = (i + 1) - Len(queue)
      BY <1>2, <1>3, <2>1, <2>3
    <3>2. Pending'[i] = publishing[i - Len(queue')]
      BY <1>1, <1>5, <2>3 DEF PendingOK
    <3>3. Pending[i + 1] = publishing[(i + 1) - Len(queue)]
      BY <1>4, <2>1, <3>1 DEF PendingOK
    <3> QED BY <2>1, <3>1, <3>2, <3>3
  <2> QED BY <1>2, <1>3, <2>1, <2>2, <2>3
<1> QED BY <1>6, <1>7, <1>8

\* t is not after what is being handled, and before what is waiting.
Past(t) ==
  /\ t <= Now
  /\ \A i \in 1 .. Len(Pending) : t < Pending[i].at
  /\ \A e \in handling : t <= e.at

QueueOrdered ==
  /\ \A i, j \in 1 .. Len(Pending) : i < j => Pending[i].at < Pending[j].at
  /\ \A i \in 1 .. Len(Pending) : Pending[i].at <= Now
  /\ \A e \in handling : Past(e.at)

RowsOrdered ==
  /\ \A s \in sessions : s.from < s.to /\ Past(s.to)
  /\ \A s, other \in sessions : s # other => s.to <= other.from \/ other.to <= s.from
  /\ \A a \in active : Past(a.from) /\ \A s \in sessions : s.to <= a.from

\* The event that closes a session, and what is recorded, come after what was.
LeftOrdered ==
  /\ left # << >> /\ left[1].op = "close" => \A a \in active : a.from < left[1].arg.at
  /\ left # << >> /\ left[1].op = "record" =>
       /\ left[1].arg.from < left[1].arg.to /\ Past(left[1].arg.to)
       /\ \A s \in sessions : s.to <= left[1].arg.from

InOrder == QueueOrdered /\ RowsOrdered /\ LeftOrdered

OrderInv == ~retried /\ ~overtaken => InOrder

PastKept == \A t \in Times : Past(t) => Past(t)'

\* What lies behind stays behind while what is pending only gets shorter.
LEMMA PastStays ==
  ASSUME UNCHANGED <<moves, Pending>>, handling' \subseteq handling
  PROVE  PastKept
BY DEF Past, Now, PastKept

LEMMA QueueStays ==
  ASSUME TypeInv, UNCHANGED <<moves, Pending>>, handling' \subseteq handling, QueueOrdered
  PROVE  QueueOrdered'
<1>1. PastKept
  BY PastStays
<1>2. \A e \in handling' : Past(e.at)'
  BY <1>1, RowTimes DEF QueueOrdered, PastKept
<1> QED BY <1>2 DEF QueueOrdered, Now

LEMMA RowsStay ==
  ASSUME TypeInv, PastKept, RowsOrdered, UNCHANGED <<active, sessions>>
  PROVE  RowsOrdered'
BY RowTimes DEF RowsOrdered, PastKept

LEMMA LeftStays ==
  ASSUME TypeInv, PastKept, LeftOrdered, UNCHANGED <<active, sessions, left>>
  PROVE  LeftOrdered'
<1>1. left # << >> => Busy
  BY DEF TypeInv, LeftOK
<1>2. left # << >> /\ left[1].op = "record" => left[1].arg.to \in Times
  BY <1>1, RowTimes DEF SessionRows
<1>3. left # << >> /\ left[1].op = "record" => Past(left[1].arg.to)'
  BY <1>2 DEF PastKept, LeftOrdered
<1> QED BY <1>3 DEF LeftOrdered

\* Nothing to close or to record comes first.
LEMMA LeftPlain ==
  ASSUME left' \in Seq(Statements), Plain(left')
  PROVE  LeftOrdered'
<1>1. left' # << >> => left'[1].op \notin {"close", "record"}
  BY PlainHead
<1> QED BY <1>1 DEF LeftOrdered

LEMMA MemberOrdered ==
  ASSUME TypeInv, InOrder,
         NEW c \in Places, NEW t \in Times, Move(c, t) \/ MoveUnknown(c, t) \/ Miss(c, t)
  PROVE  InOrder'
<1>1. /\ UNCHANGED <<queue, handling, left, active, sessions>>
      /\ Now' = t /\ Now < t /\ Now \in Nat
  BY MemberWaits
<1>2. PendingOK
  BY PendingParts
<1>3. \A i \in 1 .. Len(Pending') : \/ i \in 1 .. Len(Pending) /\ Pending'[i] = Pending[i]
                                    \/ i = Len(Pending) + 1 /\ Pending'[i].at = t
  <2>1. CASE publishing' = publishing
    <3>1. Pending' = Pending
      BY <1>1, <2>1 DEF Pending
    <3> QED BY <3>1
  <2>2. CASE \E e \in EventSet : e.at = t /\ publishing' = Append(publishing, e)
    <3>1. PICK e \in EventSet : e.at = t /\ publishing' = Append(publishing, e)
      BY <2>2
    <3>2. Pending' = Append(Pending, e) /\ Pending \in Seq(EventSet)
      BY <1>1, <1>2, <3>1, PendingMember DEF PendingOK
    <3>3. /\ Len(Pending') = Len(Pending) + 1 /\ Pending'[Len(Pending) + 1] = e
          /\ \A i \in 1 .. Len(Pending) : Pending'[i] = Pending[i]
      BY <3>2, AppendProperties
    <3>4. Len(Pending) \in Nat
      BY <1>2 DEF PendingOK
    <3>5. \A n \in Nat : \A i \in 1 .. (n + 1) : i \in 1 .. n \/ i = n + 1
      OBVIOUS
    <3>6. \A i \in 1 .. Len(Pending') : i \in 1 .. Len(Pending) \/ i = Len(Pending) + 1
      BY <3>3, <3>4, <3>5, Zenon
    <3> QED BY <3>1, <3>3, <3>6, Zenon
  <2> QED BY <2>1, <2>2, MemberWaits
<1>4. \A i \in 1 .. Len(Pending) : Pending[i].at \in Times /\ Pending[i].at < t
  BY <1>1, <1>2 DEF InOrder, QueueOrdered, PendingOK, Times
<1>5. PastKept
  <2> SUFFICES ASSUME NEW x \in Times, Past(x) PROVE Past(x)'
    BY DEF PastKept
  <2>1. x < t
    BY <1>1 DEF Past, Times
  <2>2. \A i \in 1 .. Len(Pending') : x < Pending'[i].at
    BY <1>3, <2>1 DEF Past
  <2>3. x <= Now'
    BY <1>1, <2>1 DEF Times
  <2> QED BY <1>1, <2>2, <2>3 DEF Past
<1>6. QueueOrdered'
  <2>1. \A i, j \in 1 .. Len(Pending') : i < j => Pending'[i].at < Pending'[j].at
    <3> SUFFICES ASSUME NEW i \in 1 .. Len(Pending'), NEW j \in 1 .. Len(Pending'), i < j
                 PROVE  Pending'[i].at < Pending'[j].at
      OBVIOUS
    <3>1. j \in 1 .. Len(Pending) \/ j = Len(Pending) + 1
      BY <1>3
    <3>2. i \in 1 .. Len(Pending) /\ Pending'[i] = Pending[i]
      BY <1>2, <1>3, <3>1 DEF PendingOK
    <3> QED BY <1>2, <1>3, <1>4, <3>2 DEF InOrder, QueueOrdered, PendingOK
  <2>2. \A i \in 1 .. Len(Pending') : Pending'[i].at <= Now'
    BY <1>1, <1>3, <1>4 DEF Times
  <2>3. \A e \in handling' : Past(e.at)'
    BY <1>1, <1>5, RowTimes DEF InOrder, QueueOrdered, PastKept
  <2> QED BY <2>1, <2>2, <2>3 DEF QueueOrdered
<1> QED BY <1>1, <1>5, <1>6, RowsStay, LeftStays DEF InOrder

\* The first event that waits is handled next: all others come after it.
LEMMA BeginOrdered == ASSUME TypeInv, InOrder, Begin PROVE InOrder'
<1>1. UNCHANGED <<moves, active, sessions>>
  BY DEF Begin, tableVars
<1>2. QueueOrdered /\ RowsOrdered /\ PendingOK
  BY PendingParts DEF InOrder
<1>3. PICK e \in EventSet : e = Pending[1] /\ Head(queue) = e
  BY PendingBegin
<1>4. /\ handling = {} /\ left' = Handler(e) /\ handling' \subseteq {e}
      /\ left' # << >> => handling' = {e}
  BY <1>3 DEF Begin, Busy
<1>5. /\ 1 \in 1 .. Len(Pending) /\ Len(Pending) \in Nat /\ Len(Pending') = Len(Pending) - 1
      /\ \A i \in 1 .. Len(Pending') :
           Pending'[i] = Pending[i + 1] /\ i + 1 \in 1 .. Len(Pending) /\ 1 < i + 1
  BY PendingBegin
<1>6. e.at \in Times /\ \A i \in 1 .. Len(Pending') : e.at < Pending'[i].at
  BY <1>2, <1>3, <1>5 DEF QueueOrdered, EventSet
<1>7. PastKept
  <2> SUFFICES ASSUME NEW x \in Times, Past(x) PROVE Past(x)'
    BY DEF PastKept
  <2>1. x < e.at
    BY <1>3, <1>5 DEF Past
  <2>2. \A i \in 1 .. Len(Pending') : x < Pending'[i].at
    BY <1>5 DEF Past
  <2>3. \A f \in handling' : x <= f.at
    BY <1>4, <1>6, <2>1 DEF Times
  <2>4. x <= Now'
    BY <1>1 DEF Past, Now
  <2> QED BY <2>2, <2>3, <2>4 DEF Past
<1>8. Past(e.at)'
  <2>1. e.at <= Now'
    BY <1>1, <1>2, <1>3, <1>5 DEF QueueOrdered, Now
  <2>2. \A f \in handling' : e.at <= f.at
    BY <1>4, <1>6 DEF Times
  <2> QED BY <1>6, <2>1, <2>2 DEF Past
<1>9. QueueOrdered'
  <2>1. \A i, j \in 1 .. Len(Pending') : i < j => Pending'[i].at < Pending'[j].at
    <3> SUFFICES ASSUME NEW i \in 1 .. Len(Pending'), NEW j \in 1 .. Len(Pending'), i < j
                 PROVE  Pending'[i].at < Pending'[j].at
      OBVIOUS
    <3>1. /\ Pending'[i] = Pending[i + 1] /\ i + 1 \in 1 .. Len(Pending)
          /\ Pending'[j] = Pending[j + 1] /\ j + 1 \in 1 .. Len(Pending)
          /\ i + 1 < j + 1
      BY <1>5
    <3> QED BY <1>2, <3>1 DEF QueueOrdered
  <2>2. \A i \in 1 .. Len(Pending') : Pending'[i].at <= Now'
    BY <1>1, <1>2, <1>5 DEF QueueOrdered, Now
  <2> QED BY <1>4, <1>8, <2>1, <2>2 DEF QueueOrdered
<1>10. LeftOrdered'
  <2>1. left' # << >> => left'[1].op # "record" /\ left'[1].arg = e
    <3>1. left' \in Seq(Statements)
      BY <1>4, HandlerTypes
    <3>2. left' # << >> => 1 \in 1 .. Len(left')
      BY <3>1, EmptySeq
    <3> QED BY <1>4, <3>2, HandlerShape
  <2>2. \A a \in active' : a.from < e.at
    BY <1>1, <1>2, <1>3, <1>5 DEF RowsOrdered, Past
  <2> QED BY <2>1, <2>2 DEF LeftOrdered
<1> QED BY <1>1, <1>2, <1>7, <1>9, <1>10, RowsStay DEF InOrder

LEMMA CrashOrdered == ASSUME TypeInv, InOrder, Crash PROVE InOrder'
<1>1. UNCHANGED <<moves, publishing, queue, active, sessions>> /\ handling' = {} /\ left' = << >>
  BY DEF Crash, tableVars
<1>2. Pending' = Pending
  BY <1>1 DEF Pending
<1>3. PastKept
  BY <1>1, <1>2, PastStays
<1>4. LeftOrdered'
  BY <1>1 DEF LeftOrdered
<1> QED BY <1>1, <1>2, <1>3, <1>4, RowsStay, QueueStays DEF InOrder

LEMMA CloseOrdered == ASSUME TypeInv, LeftShape, InOrder, Close PROVE InOrder'
<1>1. LeftOK /\ Busy /\ Head(left).op = "close" /\ Head(left).arg \in EventSet /\ Head(left) = left[1]
      /\ left # << >> /\ Len(left) \in Nat \ {0}
  BY CloseCases, HeadTypes, EmptySeq DEF TypeInv, LeftOK
<1>2. active' = {} /\ UNCHANGED <<sessions, moves, publishing, queue>> /\ handling' \subseteq handling
  BY DEF Close, Proceed
<1>3. QueueOrdered /\ RowsOrdered /\ LeftOrdered
  BY DEF InOrder
<1>4. Pending' = Pending
  BY <1>2 DEF Pending
<1>5. PastKept /\ QueueOrdered'
  BY <1>2, <1>3, <1>4, PastStays, QueueStays
<1>6. RowsOrdered'
  BY <1>2, <1>3, <1>5, RowTimes DEF RowsOrdered, PastKept
<1>7. CASE Proceed(Tail(left))
  <2>1. left' \in Seq(Statements) /\ Plain(left')
    BY <1>1, <1>7, ShapeTail, ProceedTail
  <2> QED BY <1>5, <1>6, <2>1, LeftPlain DEF InOrder
<1>8. ASSUME NEW a \in ActiveRows, active = {a},
             Proceed(<<Do("record", Closed(a, Head(left).arg))>> \o Tail(left))
      PROVE  LeftOrdered'
  <2>1. PICK e \in EventSet : e = Head(left).arg
    BY <1>1
  <2>2. PICK s \in SessionRows : s = Closed(a, e)
    BY <2>1, ClosedTypes
  <2>3. PICK x \in Statements : x = Do("record", s)
    BY <2>2, StatementTypes
  <2>4. left' # << >> /\ left'[1] = x
    BY <1>1, <1>8, <2>1, <2>2, <2>3, ProceedSwap
  <2>5. x.op = "record" /\ x.arg = s
    BY <2>3 DEF Do
  <2>6. 1 \in 1 .. Len(left) /\ e \in handling /\ a.from < e.at
    BY <1>1, <1>3, <1>8, <2>1 DEF LeftShape, LeftOrdered
  <2>7. s.from = a.from /\ s.to = e.at
    BY <2>2, <2>6, ClosedTypes DEF ActiveRows, EventSet, Times
  <2>8. Past(s.to)'
    BY <1>3, <1>5, <2>6, <2>7 DEF QueueOrdered, PastKept, EventSet
  <2>9. \A r \in sessions' : r.to <= s.from
    BY <1>2, <1>3, <1>8, <2>7 DEF RowsOrdered
  <2> QED BY <2>4, <2>5, <2>6, <2>7, <2>8, <2>9 DEF LeftOrdered
<1> QED BY <1>5, <1>6, <1>7, <1>8, CloseCases DEF InOrder

LEMMA RecordOrdered == ASSUME TypeInv, LeftShape, InOrder, Record PROVE InOrder'
<1>1. /\ left # << >> /\ left[1].op = "record" /\ Head(left) = left[1] /\ active = {}
      /\ UNCHANGED <<active, moves, publishing, queue>> /\ handling' \subseteq handling
  BY RecordParts
<1>2. QueueOrdered /\ RowsOrdered /\ LeftOrdered
  BY DEF InOrder
<1>3. PICK s \in SessionRows : s = left[1].arg
  BY RecordParts
<1>4. s.from < s.to /\ Past(s.to) /\ \A r \in sessions : r.to <= s.from
  BY <1>1, <1>2, <1>3 DEF LeftOrdered
<1>5. sessions' \subseteq sessions \union {s}
  BY <1>1, <1>3 DEF Record
<1>6. Pending' = Pending
  BY <1>1 DEF Pending
<1>7. PastKept /\ QueueOrdered'
  BY <1>1, <1>2, <1>6, PastStays, QueueStays
<1>8. RowsOrdered'
  <2>1. s.to \in Times
    BY DEF SessionRows
  <2>2. \A r \in sessions' : r.from < r.to /\ Past(r.to)'
    BY <1>2, <1>4, <1>5, <1>7, <2>1, RowTimes DEF RowsOrdered, PastKept
  <2>3. \A r, other \in sessions' : r # other => r.to <= other.from \/ other.to <= r.from
    BY <1>2, <1>4, <1>5 DEF RowsOrdered
  <2> QED BY <1>1, <2>2, <2>3 DEF RowsOrdered
<1>9. left' \in Seq(Statements) /\ Plain(left')
  BY ShapeRecord, StatementStepTypes DEF TypeInv, LeftOK
<1> QED BY <1>7, <1>8, <1>9, LeftPlain DEF InOrder

LEMMA OtherOrdered == ASSUME TypeInv, LeftShape, InOrder, Add \/ Open \/ Lifecycle PROVE InOrder'
<1>1. LeftOK /\ Busy /\ Proceed(Tail(left)) /\ UNCHANGED <<sessions, moves, publishing, queue>>
      /\ handling' \subseteq handling
  BY OtherParts
<1>2. QueueOrdered /\ RowsOrdered
  BY DEF InOrder
<1>3. Pending' = Pending
  BY <1>1 DEF Pending
<1>4. PastKept /\ QueueOrdered'
  BY <1>1, <1>2, <1>3, PastStays, QueueStays
<1>5. LeftOrdered'
  <2>1. left' \in Seq(Statements) /\ Plain(left')
    BY <1>1, ShapeTail, ProceedTail
  <2> QED BY <2>1, LeftPlain
<1>6. CASE Add \/ Lifecycle
  <2>1. UNCHANGED <<active, sessions>>
    BY <1>6 DEF Add, Lifecycle, tableVars
  <2> QED BY <1>2, <1>4, <1>5, <2>1, RowsStay DEF InOrder
<1>7. CASE Open
  <2>1. Head(left) = left[1] /\ left[1].op = "open" /\ 1 \in 1 .. Len(left)
    BY <1>1, <1>7, HeadTypes, ProceedTail DEF Open, Running
  <2>2. PICK e \in handling : e = left[1].arg
    BY <2>1 DEF LeftShape
  <2>3. active' = {Opened(e)} /\ Opened(e).from = e.at
    BY <1>7, <2>1, <2>2 DEF Open, Opened
  <2>4. Past(e.at)'
    BY <1>2, <1>4, RowTimes DEF QueueOrdered, PastKept
  <2>5. \A s \in sessions : s.to <= e.at
    BY <1>2 DEF RowsOrdered, Past
  <2>6. \A s \in sessions : Past(s.to)'
    BY <1>2, <1>4, RowTimes DEF RowsOrdered, PastKept
  <2>7. RowsOrdered'
    BY <1>1, <1>2, <2>3, <2>4, <2>5, <2>6 DEF RowsOrdered
  <2> QED BY <1>4, <1>5, <2>7 DEF InOrder
<1> QED BY <1>6, <1>7

\* What leaves alone all that InOrder speaks of.
LEMMA OrderUnchanged ==
  ASSUME TypeInv, InOrder, UNCHANGED <<moves, Pending, handling, left, active, sessions>>
  PROVE  InOrder'
<1>1. PastKept
  BY PastStays
<1> QED BY <1>1, RowsStay, LeftStays, QueueStays DEF InOrder

LEMMA PublishOrdered ==
  ASSUME TypeInv, InOrder, NEW i \in DOMAIN publishing, Publish(i), ~overtaken'
  PROVE  InOrder'
<1>1. i = 1 /\ UNCHANGED <<moves, handling, left, active, sessions>>
  BY PublishParts
<1>2. Pending' = Pending
  BY <1>1, PendingPublish
<1> QED BY <1>1, <1>2, OrderUnchanged

LEMMA OrderStep == ASSUME TypeInv, LeftShape, OrderInv, [Next]_vars PROVE OrderInv'
<1> SUFFICES ASSUME ~retried', ~overtaken' PROVE InOrder'
  BY DEF OrderInv
<1>1. CASE Member
  <2>1. PICK c \in Places, t \in Times : Move(c, t) \/ MoveUnknown(c, t) \/ Miss(c, t)
    BY <1>1 DEF Member, Places, Times
  <2>2. InOrder
    BY <2>1, MemberWaits DEF OrderInv
  <2> QED BY <2>1, <2>2, MemberOrdered
<1>2. CASE Gateway
  <2>1. PICK i \in DOMAIN publishing : Publish(i)
    BY <1>2 DEF Gateway
  <2>2. InOrder
    BY <2>1, PublishParts DEF OrderInv
  <2> QED BY <2>1, <2>2, PublishOrdered
<1>3. CASE Worker
  <2>1. UNCHANGED <<retried, overtaken>>
    BY <1>3 DEF Worker, Begin, Close, Record, Add, Open, Lifecycle, Proceed, historyVars
  <2>2. InOrder
    BY <2>1 DEF OrderInv
  <2> QED BY <1>3, <2>2, BeginOrdered, CloseOrdered, RecordOrdered, OtherOrdered DEF Worker
<1>4. CASE HandlerFails
  BY <1>4 DEF HandlerFails
<1>5. CASE Crash
  <2>1. InOrder
    BY <1>5 DEF Crash, historyVars, OrderInv
  <2> QED BY <1>5, <2>1, CrashOrdered
<1>6. CASE UNCHANGED vars
  <2>1. UNCHANGED <<moves, publishing, queue, handling, left, active, sessions, retried, overtaken>>
    BY <1>6 DEF vars, handlerVars, tableVars, historyVars
  <2>2. Pending' = Pending /\ InOrder
    BY <2>1 DEF Pending, OrderInv
  <2> QED BY <2>1, <2>2, OrderUnchanged
<1> QED BY <1>1, <1>2, <1>3, <1>4, <1>5, <1>6 DEF Next

LEMMA OrderInit == Init => OrderInv
<1> SUFFICES ASSUME Init PROVE InOrder
  BY DEF OrderInv
<1>1. /\ publishing = << >> /\ queue = << >> /\ handling = {} /\ left = << >>
      /\ active = {} /\ sessions = {}
  BY DEF Init
<1>2. Pending = << >> /\ Len(Pending) = 0
  BY <1>1 DEF Pending
<1> QED BY <1>1, <1>2 DEF InOrder, QueueOrdered, RowsOrdered, LeftOrdered

\* A second counted is one that a session lasted.
LEMMA SumsBound ==
  ASSUME TypeInv, SumsInv, ~retried, NEW d \in Days
  PROVE  seconds[d] <= Cardinality(Lasted(d))
<1>1. SumsRight
  BY DEF SumsInv
<1>2. Lasted(d) = SecondsOf(sessions, d)
  BY DEF Lasted, SecondsOf
<1>3. CASE \A i \in 1 .. Len(left) : ~ToAdd(i, d)
  BY <1>1, <1>2, <1>3 DEF SumsRight, Fits
<1>4. ASSUME NEW i \in 1 .. Len(left), ToAdd(i, d)
      PROVE  seconds[d] <= Cardinality(SecondsOf(sessions, d))
  <2>1. seconds[d] + left[i].arg.n <= Cardinality(SecondsOf(sessions, d))
    BY <1>1, <1>4 DEF SumsRight, Fits
  <2>2. left[i] \in Statements /\ left[i].op = "add"
    <3>1. left \in Seq(Statements)
      BY DEF TypeInv, LeftOK
    <3> QED BY <1>4, <3>1, ElementOfSeq DEF ToAdd
  <2>3. left[i].arg.n \in Nat
    BY <2>2, StatementTypes DEF Argument, Parts
  <2>4. seconds[d] \in Nat /\ Cardinality(SecondsOf(sessions, d)) \in Nat
    BY SecondsFinite DEF TypeInv, SessionsOK
  <2> QED BY <2>1, <2>3, <2>4
<1> QED BY <1>2, <1>3, <1>4

AllInv == TypeInv /\ LeftShape /\ FreshInv /\ SumsInv /\ OrderInv

LEMMA AllInvariant == Spec => []AllInv
<1>1. Init => AllInv
  BY TypeInit, ShapeInit, FreshInit, SumsInit, OrderInit DEF AllInv
<1>2. AllInv /\ [Next]_vars => AllInv'
  <2> SUFFICES ASSUME AllInv, [Next]_vars PROVE AllInv'
    OBVIOUS
  <2>1. TypeInv /\ LeftShape /\ FreshInv /\ SumsInv /\ OrderInv
    BY DEF AllInv
  <2>2. TypeInv' /\ LeftShape' /\ FreshInv' /\ SumsInv' /\ OrderInv'
    BY <2>1, TypeStep, ShapeStep, FreshStep, SumsStep, OrderStep
  <2> QED BY <2>2 DEF AllInv
<1> QED BY <1>1, <1>2, PTL DEF Spec

\* As long as no handler is run again, no second is counted that a session did
\* not last, whatever is missed, wherever the worker dies and in whatever order
\* the events come; and sessions do not overlap if they come in order.
THEOREM OrderedOnceHolds == Spec => []OrderedOnce
<1>1. AllInv => OrderedOnce
  BY SumsBound DEF AllInv, OrderedOnce, OrderInv, InOrder, RowsOrdered
<1> QED BY <1>1, AllInvariant, PTL

-----------------------------------------------------------------------------
(* Truth.  The first k moves of m, and what a worker without faults has     *)
(* made of them when it has handled the event of each.                      *)

PlaceAt(m, k) == IF k = 0 THEN None ELSE m[k].channel

EventOf(m, k) == [old |-> PlaceAt(m, k - 1), new |-> m[k].channel, at |-> m[k].at]

\* From move i on, up to move k, the member was in channel c.
Since(m, c, i, k) ==
  /\ i = 1 \/ m[i - 1].channel # c
  /\ \A l \in i .. k : m[l].channel = c

Here(m, k) ==
  {a \in ActiveRows : \E i \in 1 .. k : m[i].at = a.from /\ Since(m, a.channel, i, k)}

StaysTo(m, k) ==
  {s \in SessionRows :
     \E j \in 1 .. k : /\ m[j].at = s.to /\ m[j].channel # s.channel
                       /\ \E i \in 1 .. j - 1 : m[i].at = s.from /\ Since(m, s.channel, i, j - 1)}

Ended(a, t) == [channel |-> a.channel, from |-> a.from, to |-> t]

LEMMA MoveTypes ==
  ASSUME NEW m \in Seq(Moves)
  PROVE  /\ Len(m) \in Nat
         /\ \A k \in 1 .. Len(m) : m[k].channel \in Places /\ m[k].at \in Times /\ EventOf(m, k) \in EventSet
<1>1. Len(m) \in Nat
  BY LenProperties
<1>2. ASSUME NEW k \in 1 .. Len(m) PROVE m[k].channel \in Places /\ m[k].at \in Times
  <2>1. m[k] \in Moves
    BY ElementOfSeq
  <2> QED BY <2>1 DEF Moves
<1>3. ASSUME NEW k \in 1 .. Len(m) PROVE EventOf(m, k) \in EventSet
  <2>1. k - 1 = 0 \/ k - 1 \in 1 .. Len(m)
    BY <1>1
  <2>2. PlaceAt(m, k - 1) \in Places
    BY <1>2, <2>1, PlaceTypes DEF PlaceAt
  <2> QED BY <1>2, <2>2 DEF EventOf, EventSet
<1> QED BY <1>1, <1>2, <1>3

\* Stays that ended at move k began in the channel that it left.
LEMMA StaysMore ==
  ASSUME NEW m \in Seq(Moves), NEW k \in 1 .. Len(m)
  PROVE  StaysTo(m, k) =
           StaysTo(m, k - 1)
           \union {Ended(a, m[k].at) : a \in {a \in Here(m, k - 1) : a.channel # m[k].channel}}
<1> DEFINE More == {Ended(a, m[k].at) : a \in {a \in Here(m, k - 1) : a.channel # m[k].channel}}
<1>1. k \in Nat /\ \A j \in 1 .. k : j \in 1 .. k - 1 \/ j = k
  BY MoveTypes
<1>2. \A j \in 1 .. k - 1 : j \in 1 .. k
  BY <1>1
<1>3. StaysTo(m, k - 1) \subseteq StaysTo(m, k)
  BY <1>2 DEF StaysTo
<1>4. ASSUME NEW a \in Here(m, k - 1), a.channel # m[k].channel
      PROVE  Ended(a, m[k].at) \in StaysTo(m, k)
  <2>1. PICK s : s = Ended(a, m[k].at)
    OBVIOUS
  <2>2. s.channel = a.channel /\ s.from = a.from /\ s.to = m[k].at /\ s \in SessionRows
    BY <2>1, MoveTypes DEF Ended, Here, ActiveRows, SessionRows
  <2>3. PICK i \in 1 .. k - 1 : m[i].at = a.from /\ Since(m, a.channel, i, k - 1)
    BY DEF Here
  <2>4. k \in 1 .. k
    BY <1>1
  <2> QED BY <1>4, <2>1, <2>2, <2>3, <2>4 DEF StaysTo
<1>5. ASSUME NEW s \in StaysTo(m, k), s \notin StaysTo(m, k - 1) PROVE s \in More
  <2>1. /\ m[k].at = s.to /\ m[k].channel # s.channel /\ s \in SessionRows
        /\ \E i \in 1 .. k - 1 : m[i].at = s.from /\ Since(m, s.channel, i, k - 1)
    BY <1>1, <1>5 DEF StaysTo
  <2>2. PICK a : a = [channel |-> s.channel, from |-> s.from]
    OBVIOUS
  <2>3. a \in ActiveRows /\ a.channel = s.channel /\ a.from = s.from
    BY <2>1, <2>2 DEF ActiveRows, SessionRows
  <2>4. a \in Here(m, k - 1)
    BY <2>1, <2>3 DEF Here
  <2>5. s = Ended(a, m[k].at)
    BY <2>1, <2>3 DEF Ended, SessionRows
  <2> QED BY <2>1, <2>3, <2>4, <2>5
<1> QED BY <1>3, <1>4, <1>5

LEMMA HereType ==
  ASSUME NEW m \in Seq(Moves), NEW k \in 0 .. Len(m), NEW a \in Here(m, k)
  PROVE  a \in ActiveRows /\ a.channel \in Channels /\ a.channel = PlaceAt(m, k) /\ k # 0
<1>1. a \in ActiveRows /\ a.channel \in Channels
  BY DEF Here, ActiveRows
<1>2. PICK i \in 1 .. k : Since(m, a.channel, i, k)
  BY DEF Here
<1>3. k # 0 /\ k \in i .. k
  BY <1>2, MoveTypes
<1> QED BY <1>1, <1>2, <1>3 DEF Since, PlaceAt

\* A mute: nothing begins or ends.
LEMMA MovedNowhere ==
  ASSUME NEW m \in Seq(Moves), NEW k \in 1 .. Len(m), PlaceAt(m, k - 1) = m[k].channel
  PROVE  Here(m, k) = Here(m, k - 1) /\ StaysTo(m, k) = StaysTo(m, k - 1)
<1>1. k \in Nat /\ k - 1 \in 0 .. Len(m) /\ k # 0 /\ k \in 0 .. Len(m) /\ k \in 1 .. k
  BY MoveTypes
<1>2. ASSUME NEW a \in Here(m, k) PROVE a \in Here(m, k - 1)
  <2>1. a \in ActiveRows /\ a.channel \in Channels /\ a.channel = m[k].channel
    BY <1>1, HereType DEF PlaceAt
  <2>2. PICK i \in 1 .. k : m[i].at = a.from /\ Since(m, a.channel, i, k)
    BY DEF Here
  <2>3. k - 1 # 0 /\ m[k - 1].channel = a.channel
    BY <2>1, PlaceTypes DEF PlaceAt
  <2>4. i # k
    BY <1>1, <2>2, <2>3 DEF Since
  <2>5. i \in 1 .. k - 1 /\ \A l \in i .. k - 1 : l \in i .. k
    BY <1>1, <2>4
  <2>6. Since(m, a.channel, i, k - 1)
    BY <2>2, <2>5 DEF Since
  <2> QED BY <2>1, <2>2, <2>5, <2>6 DEF Here
<1>3. ASSUME NEW a \in Here(m, k - 1) PROVE a \in Here(m, k) /\ a.channel = m[k].channel
  <2>1. a \in ActiveRows /\ a.channel = m[k].channel
    BY <1>1, HereType
  <2>2. PICK i \in 1 .. k - 1 : m[i].at = a.from /\ Since(m, a.channel, i, k - 1)
    BY DEF Here
  <2>3. i \in 1 .. k /\ \A l \in i .. k : l \in i .. k - 1 \/ l = k
    BY <1>1
  <2>4. Since(m, a.channel, i, k)
    BY <2>1, <2>2, <2>3 DEF Since
  <2> QED BY <2>1, <2>2, <2>3, <2>4 DEF Here
<1>4. {a \in Here(m, k - 1) : a.channel # m[k].channel} = {}
  BY <1>3
<1>5. StaysTo(m, k) = StaysTo(m, k - 1)
  <2> DEFINE More == {Ended(a, m[k].at) : a \in {a \in Here(m, k - 1) : a.channel # m[k].channel}}
  <2>1. More = {}
    BY <1>4
  <2>2. StaysTo(m, k) = StaysTo(m, k - 1) \union More
    BY StaysMore
  <2> HIDE DEF More
  <2> QED BY <2>1, <2>2
<1> QED BY <1>2, <1>3, <1>5

\* A move: a stay ends, if the member was in a channel, and one begins if it is
\* in one now.
LEMMA MovedElsewhere ==
  ASSUME NEW m \in Seq(Moves), NEW k \in 1 .. Len(m), PlaceAt(m, k - 1) # m[k].channel
  PROVE  /\ StaysTo(m, k) = StaysTo(m, k - 1) \union {Ended(a, m[k].at) : a \in Here(m, k - 1)}
         /\ PlaceAt(m, k - 1) = None => Here(m, k - 1) = {}
         /\ Here(m, k) = IF m[k].channel = None THEN {} ELSE {Opened(EventOf(m, k))}
<1>1. k \in Nat /\ k - 1 \in 0 .. Len(m) /\ k # 0 /\ k \in 0 .. Len(m) /\ k \in 1 .. k
  BY MoveTypes
<1>2. \A a \in Here(m, k - 1) : a.channel = PlaceAt(m, k - 1) /\ a.channel \in Channels
  BY <1>1, HereType
<1>3. {a \in Here(m, k - 1) : a.channel # m[k].channel} = Here(m, k - 1)
  BY <1>2
<1>4. ASSUME NEW a \in Here(m, k) PROVE m[k].channel # None /\ a = Opened(EventOf(m, k))
  <2>1. a \in ActiveRows /\ a.channel \in Channels /\ a.channel = m[k].channel
    BY <1>1, HereType DEF PlaceAt
  <2>2. PICK i \in 1 .. k : m[i].at = a.from /\ Since(m, a.channel, i, k)
    BY DEF Here
  <2>3. i = k
    <3> SUFFICES ASSUME i # k PROVE FALSE
      OBVIOUS
    <3>1. k - 1 # 0 /\ k - 1 \in i .. k
      BY <1>1
    <3>2. m[k - 1].channel = a.channel
      BY <2>2, <3>1 DEF Since
    <3> QED BY <2>1, <3>1, <3>2 DEF PlaceAt
  <2>4. a.from = m[k].at
    BY <2>2, <2>3
  <2>5. a = [channel |-> m[k].channel, from |-> m[k].at]
    BY <2>1, <2>4 DEF ActiveRows
  <2> QED BY <2>1, <2>5, PlaceTypes DEF Opened, EventOf
<1>5. ASSUME m[k].channel # None PROVE Opened(EventOf(m, k)) \in Here(m, k)
  <2>1. PICK a : a = [channel |-> m[k].channel, from |-> m[k].at]
    OBVIOUS
  <2>2. a = Opened(EventOf(m, k)) /\ a.channel = m[k].channel /\ a.from = m[k].at
    BY <2>1 DEF Opened, EventOf
  <2>3. a \in ActiveRows
    BY <1>5, <2>1, MoveTypes DEF ActiveRows, Places
  <2>4. k = 1 \/ m[k - 1].channel # a.channel
    BY <1>1, <2>2 DEF PlaceAt
  <2>5. \A l \in k .. k : l = k
    BY <1>1
  <2>6. Since(m, a.channel, k, k)
    BY <2>2, <2>4, <2>5 DEF Since
  <2> QED BY <1>1, <2>2, <2>3, <2>6 DEF Here
<1>6. Here(m, k) = IF m[k].channel = None THEN {} ELSE {Opened(EventOf(m, k))}
  BY <1>4, <1>5
<1>7. StaysTo(m, k) = StaysTo(m, k - 1) \union {Ended(a, m[k].at) : a \in Here(m, k - 1)}
  BY <1>3, StaysMore
<1> QED BY <1>2, <1>6, <1>7, PlaceTypes

\* A further move does not change the past.
LEMMA PastMoves ==
  ASSUME NEW m \in Seq(Moves), NEW x \in Moves, NEW k \in 0 .. Len(m)
  PROVE  /\ PlaceAt(Append(m, x), k) = PlaceAt(m, k)
         /\ k # 0 => EventOf(Append(m, x), k) = EventOf(m, k)
         /\ Here(Append(m, x), k) = Here(m, k)
         /\ StaysTo(Append(m, x), k) = StaysTo(m, k)
<1>1. PICK n \in Seq(Moves) : n = Append(m, x)
  BY AppendProperties
<1>2. \A i \in 1 .. Len(m) : n[i] = m[i]
  BY <1>1, AppendProperties
<1>3. Len(m) \in Nat /\ k \in Nat
  BY MoveTypes
<1>4. \A i \in 1 .. k : n[i] = m[i]
  BY <1>2, <1>3
<1>5. \A c, i, j : i \in 1 .. k /\ j \in 0 .. k => (Since(n, c, i, j) <=> Since(m, c, i, j))
  <2> SUFFICES ASSUME NEW c, NEW i \in 1 .. k, NEW j \in 0 .. k PROVE Since(n, c, i, j) <=> Since(m, c, i, j)
    OBVIOUS
  <2>1. i = 1 \/ i - 1 \in 1 .. k
    BY <1>3
  <2>2. \A l \in i .. j : l \in 1 .. k
    BY <1>3
  <2> QED BY <1>4, <2>1, <2>2 DEF Since
<1>6. Here(n, k) = Here(m, k)
  <2>1. k \in 0 .. k
    BY <1>3
  <2> QED BY <1>4, <1>5, <2>1 DEF Here
<1>7. StaysTo(n, k) = StaysTo(m, k)
  <2>1. \A j \in 1 .. k : j - 1 \in 0 .. k /\ \A i \in 1 .. j - 1 : i \in 1 .. k
    BY <1>3
  <2> QED BY <1>4, <1>5, <2>1 DEF StaysTo
<1>8. PlaceAt(n, k) = PlaceAt(m, k)
  BY <1>3, <1>4 DEF PlaceAt
<1>9. k # 0 => EventOf(n, k) = EventOf(m, k)
  <2> SUFFICES ASSUME k # 0 PROVE EventOf(n, k) = EventOf(m, k)
    OBVIOUS
  <2>1. k \in 1 .. k /\ (k - 1 = 0 \/ k - 1 \in 1 .. k)
    BY <1>3
  <2> QED BY <1>4, <2>1 DEF EventOf, PlaceAt
<1> QED BY <1>1, <1>6, <1>7, <1>8, <1>9

\* How many moves the worker has begun to handle the events of.
Begun == Len(moves) - Len(Pending)

QueueTrue ==
  /\ Len(Pending) <= Len(moves)
  /\ \A i \in 1 .. Len(Pending) : Pending[i] = EventOf(moves, Begun + i)

ActiveTrue(k) ==
  /\ active = Here(moves, k)
  /\ PlaceAt(moves, k) # None => active # {}

\* How far the handler of the k-th event has come.
Stage(k) ==
  /\ left = << >> => sessions = StaysTo(moves, k) /\ ActiveTrue(k)
  /\ left # << >> =>
       LET op == left[1].op
       IN  /\ k \in 1 .. Len(moves) /\ handling = {EventOf(moves, k)}
           /\ op # "lifecycle" => PlaceAt(moves, k - 1) # moves[k].channel
           /\ op = "close" => sessions = StaysTo(moves, k - 1) /\ active = Here(moves, k - 1)
           /\ op = "record" =>
                sessions \union {left[1].arg} = StaysTo(moves, k) /\ active = {}
           /\ op \in {"add", "open"} => sessions = StaysTo(moves, k) /\ active = {}
           /\ op \in {"close", "record", "add"} => (Opens(left) <=> moves[k].channel # None)
           /\ op = "lifecycle" => sessions = StaysTo(moves, k) /\ ActiveTrue(k)

TruthRight == QueueTrue /\ Stage(Begun)

TruthInv == (retried => faultCount > 0) /\ (faultCount = 0 /\ ~overtaken => TruthRight)

LEMMA BegunType ==
  ASSUME TypeInv, QueueTrue
  PROVE  /\ Begun \in 0 .. Len(moves) /\ Len(moves) \in Nat /\ Len(Pending) \in Nat
         /\ moves \in Seq(Moves) /\ LeftOK /\ (left # << >> <=> Busy)
<1>1. moves \in Seq(Moves) /\ LeftOK
  BY DEF TypeInv
<1>2. Len(moves) \in Nat /\ Len(Pending) \in Nat
  BY <1>1, MoveTypes, PendingParts DEF PendingOK
<1> QED BY <1>1, <1>2 DEF Begun, QueueTrue, LeftOK

\* A step that leaves the moves and their events alone.
LEMMA WorkTrue ==
  ASSUME TypeInv, TruthRight, UNCHANGED <<moves, publishing, queue>>
  PROVE  QueueTrue' /\ Begun' = Begun
<1>1. Pending' = Pending
  BY DEF Pending
<1> QED BY <1>1 DEF QueueTrue, Begun, TruthRight

\* Once the last stay is recorded, or if there was none, what is left to do is
\* to open a session, if the member is anywhere.
LEMMA StageNext ==
  ASSUME TypeInv, LeftShape, TruthRight, NEW k \in 1 .. Len(moves), handling = {EventOf(moves, k)},
         PlaceAt(moves, k - 1) # moves[k].channel,
         left # << >>, left[1].op \in {"close", "add"}, Proceed(Tail(left)),
         Plain(left'),
         Opens(left) <=> moves[k].channel # None,
         active' = {}, sessions' = StaysTo(moves, k)
  PROVE  Stage(k)'
<1>1. LeftOK /\ Busy /\ OpensLast(left) /\ moves \in Seq(Moves)
  BY DEF TypeInv, LeftOK, LeftShape
<1>2. moves' = moves /\ left' \in Seq(Statements) /\ (left' # << >> => handling' = handling)
  BY <1>1, ProceedTail
<1>3. /\ Opens(left') <=> Opens(left)
      /\ left' # << >> => left'[1].op # "lifecycle"
  BY <1>1, TailOpens
<1>4. CASE left' = << >>
  <2>1. Len(left') = 0
    BY <1>4
  <2>2. moves[k].channel = None
    BY <1>3, <2>1 DEF Opens
  <2>3. Here(moves, k) = {}
    BY <1>1, <2>2, MovedElsewhere
  <2>4. PlaceAt(moves, k) = None
    BY <1>1, <2>2, MoveTypes DEF PlaceAt
  <2> QED BY <1>2, <1>3, <1>4, <2>3, <2>4 DEF Stage, ActiveTrue
<1>5. CASE left' # << >>
  <2>1. 1 \in 1 .. Len(left')
    BY <1>2, <1>5, EmptySeq
  <2>2. left'[1] \in Statements
    BY <1>2, <2>1, ElementOfSeq
  <2>3. left'[1].op \in {"add", "open"}
    BY <1>3, <1>5, <2>1, <2>2, StatementTypes DEF Ops, Plain
  <2> QED BY <1>2, <1>3, <1>5, <2>3 DEF Stage
<1> QED BY <1>4, <1>5

LEMMA TruthClose ==
  ASSUME TypeInv, LeftShape, InOrder, TruthRight, Close
  PROVE  TruthRight'
<1>1. /\ Busy /\ LeftOK /\ left # << >> /\ Head(left) = left[1] /\ left[1].op = "close"
      /\ left[1].arg \in EventSet /\ moves \in Seq(Moves) /\ Len(left) \in Nat \ {0}
  BY CloseCases, HeadTypes, EmptySeq DEF TypeInv, LeftOK
<1>2. UNCHANGED <<moves, publishing, queue, sessions>> /\ active' = {}
  BY DEF Close, Proceed
<1>3. PICK k \in 1 .. Len(moves) :
        /\ k = Begun /\ handling = {EventOf(moves, k)} /\ PlaceAt(moves, k - 1) # moves[k].channel
        /\ sessions = StaysTo(moves, k - 1) /\ active = Here(moves, k - 1)
        /\ Opens(left) <=> moves[k].channel # None
  BY <1>1 DEF TruthRight, Stage
<1>4. QueueTrue' /\ Begun' = k
  BY <1>2, <1>3, WorkTrue
<1>5. left[1].arg = EventOf(moves, k) /\ left[1].arg.at = moves[k].at
      /\ \A a \in active : a.from < moves[k].at
  <2>1. 1 \in 1 .. Len(left) /\ LeftOrdered
    BY <1>1 DEF InOrder
  <2>2. left[1].arg = EventOf(moves, k)
    BY <1>1, <1>3, <2>1 DEF LeftShape
  <2>3. left[1].arg.at = moves[k].at
    BY <2>2 DEF EventOf
  <2> QED BY <1>1, <2>1, <2>2, <2>3 DEF LeftOrdered
<1>6. StaysTo(moves, k) = StaysTo(moves, k - 1) \union {Ended(a, moves[k].at) : a \in active}
  BY <1>1, <1>3, MovedElsewhere
<1>7. CASE active = {} /\ Proceed(Tail(left))
  <2>1. {Ended(a, moves[k].at) : a \in active} = {}
    BY <1>7
  <2>2. sessions' = StaysTo(moves, k)
    BY <1>2, <1>3, <1>6, <2>1
  <2>3. Plain(left')
    BY <1>1, <1>7, ShapeTail
  <2>4. Stage(k)'
    BY <1>1, <1>2, <1>3, <1>7, <2>2, <2>3, StageNext
  <2> QED BY <1>4, <2>4 DEF TruthRight
<1>8. ASSUME NEW a \in ActiveRows, active = {a},
             Proceed(<<Do("record", Closed(a, Head(left).arg))>> \o Tail(left))
      PROVE  TruthRight'
  <2>1. PICK s \in SessionRows : s = Closed(a, left[1].arg)
    BY <1>1, ClosedTypes
  <2>2. PICK x \in Statements : x = Do("record", s) /\ x.op = "record" /\ x.arg = s
    <3>1. Do("record", s) \in Statements /\ Do("record", s).op = "record" /\ Do("record", s).arg = s
      BY StatementTypes DEF Do
    <3> QED BY <3>1
  <2>3. /\ left' # << >> /\ left'[1] = x /\ handling' = handling
        /\ Opens(left') <=> Opens(left)
    BY <1>1, <1>8, <2>1, <2>2, ProceedSwap, SwapOpens DEF LeftShape
  <2>4. s = Ended(a, moves[k].at)
    <3>1. a.from < moves[k].at /\ a.from \in Int /\ moves[k].at \in Int
      BY <1>1, <1>5, <1>8, MoveTypes DEF ActiveRows, Times
    <3>2. Later(moves[k].at, a.from) = moves[k].at
      BY <3>1 DEF Later
    <3> QED BY <1>5, <2>1, <3>2 DEF Closed, Ended
  <2>5. {Ended(b, moves[k].at) : b \in active} = {s}
    BY <1>8, <2>4
  <2>6. sessions' \union {s} = StaysTo(moves, k)
    BY <1>2, <1>3, <1>6, <2>5
  <2>7. Stage(k)'
    BY <1>2, <1>3, <2>2, <2>3, <2>6 DEF Stage
  <2> QED BY <1>4, <2>7 DEF TruthRight
<1> QED BY <1>7, <1>8, CloseCases

LEMMA TruthRecord ==
  ASSUME TypeInv, LeftShape, Fresh, InOrder, TruthRight, Record
  PROVE  TruthRight'
<1>1. /\ Busy /\ LeftOK /\ left # << >>
      /\ UNCHANGED <<moves, publishing, queue, active>>
  BY DEF Record, Running, Proceed, TypeInv, LeftOK
<1>2. PICK s \in SessionRows : s = left[1].arg
  BY RecordParts
<1>3. sessions' = sessions \union {s} /\ s.from < s.to /\ left[1].op = "record" /\ Head(left) = left[1]
  BY <1>2, RecordNew, RecordParts DEF InOrder, LeftOrdered
<1>4. PICK k \in 1 .. Len(moves) :
        /\ k = Begun /\ handling = {EventOf(moves, k)} /\ PlaceAt(moves, k - 1) # moves[k].channel
        /\ sessions \union {s} = StaysTo(moves, k) /\ active = {}
        /\ Opens(left) <=> moves[k].channel # None
  BY <1>1, <1>2, <1>3 DEF TruthRight, Stage
<1>5. QueueTrue' /\ Begun' = k
  BY <1>1, <1>4, WorkTrue
<1>6. Proceed(Segments(s) \o Tail(left))
  BY <1>2, <1>3 DEF Record
<1>7. /\ Opens(left') <=> Opens(left)
      /\ left' # << >> /\ left'[1].op = "add" /\ handling' = handling
  BY <1>1, <1>3, <1>6, SplitOpens, ProceedSplit DEF LeftShape
<1>8. Stage(k)'
  BY <1>1, <1>3, <1>4, <1>7 DEF Stage
<1> QED BY <1>5, <1>8 DEF TruthRight

LEMMA TruthAdd ==
  ASSUME TypeInv, LeftShape, TruthRight, Add
  PROVE  TruthRight'
<1>1. /\ Busy /\ LeftOK /\ left # << >> /\ Head(left) = left[1] /\ left[1].op = "add"
      /\ Proceed(Tail(left)) /\ UNCHANGED <<moves, publishing, queue, active, sessions>>
  BY HeadTypes DEF Add, Running, Proceed, TypeInv, LeftOK
<1>2. PICK k \in 1 .. Len(moves) :
        /\ k = Begun /\ handling = {EventOf(moves, k)} /\ PlaceAt(moves, k - 1) # moves[k].channel
        /\ sessions = StaysTo(moves, k) /\ active = {}
        /\ Opens(left) <=> moves[k].channel # None
  BY <1>1 DEF TruthRight, Stage
<1>3. QueueTrue' /\ Begun' = k
  BY <1>1, <1>2, WorkTrue
<1>4. Plain(left')
  BY <1>1, ShapeTail
<1>5. Stage(k)'
  BY <1>1, <1>2, <1>4, StageNext
<1> QED BY <1>3, <1>5 DEF TruthRight

LEMMA TruthOpen ==
  ASSUME TypeInv, LeftShape, TruthRight, Open
  PROVE  TruthRight'
<1>1. /\ Busy /\ LeftOK /\ left # << >> /\ Head(left) = left[1] /\ left[1].op = "open"
      /\ left[1].arg.new \in Channels /\ moves \in Seq(Moves)
      /\ Proceed(Tail(left)) /\ UNCHANGED <<moves, publishing, queue, sessions>>
  BY HeadTypes DEF Open, Running, Proceed, TypeInv, LeftOK, Argument
<1>2. PICK k \in 1 .. Len(moves) :
        /\ k = Begun /\ handling = {EventOf(moves, k)} /\ PlaceAt(moves, k - 1) # moves[k].channel
        /\ sessions = StaysTo(moves, k)
  BY <1>1 DEF TruthRight, Stage
<1>3. QueueTrue' /\ Begun' = k
  BY <1>1, <1>2, WorkTrue
<1>4. left[1].arg = EventOf(moves, k) /\ moves[k].channel # None
  <2>1. 1 \in 1 .. Len(left)
    BY <1>1, ProceedTail
  <2>2. left[1].arg = EventOf(moves, k)
    BY <1>1, <1>2, <2>1 DEF LeftShape
  <2> QED BY <1>1, <2>2, PlaceTypes DEF EventOf
<1>5. active' = Here(moves, k) /\ active' # {}
  BY <1>1, <1>2, <1>4, MovedElsewhere DEF Open
<1>6. left' # << >> => left'[1].op = "lifecycle" /\ handling' = handling
  BY <1>1, TailOpens, ProceedTail DEF LeftShape
<1>7. Stage(k)'
  BY <1>1, <1>2, <1>5, <1>6 DEF Stage, ActiveTrue
<1> QED BY <1>3, <1>7 DEF TruthRight

LEMMA TruthLifecycle ==
  ASSUME TypeInv, LeftShape, TruthRight, Lifecycle
  PROVE  TruthRight'
<1>1. /\ Busy /\ LeftOK /\ left # << >> /\ Head(left) = left[1] /\ left[1].op = "lifecycle"
      /\ Proceed(Tail(left)) /\ UNCHANGED <<moves, publishing, queue, sessions, active>>
  BY HeadTypes DEF Lifecycle, Running, Proceed, TypeInv, LeftOK, tableVars
<1>2. PICK k \in 1 .. Len(moves) :
        k = Begun /\ handling = {EventOf(moves, k)} /\ sessions = StaysTo(moves, k) /\ ActiveTrue(k)
  BY <1>1 DEF TruthRight, Stage
<1>3. QueueTrue' /\ Begun' = k
  BY <1>1, <1>2, WorkTrue
<1>4. left' # << >> => left'[1].op = "lifecycle" /\ handling' = handling
  BY <1>1, TailOpens, ProceedTail DEF LeftShape
<1>5. Stage(k)'
  BY <1>1, <1>2, <1>4 DEF Stage, ActiveTrue
<1> QED BY <1>3, <1>5 DEF TruthRight

LEMMA TruthBegin ==
  ASSUME TypeInv, TruthRight, Begin
  PROVE  TruthRight'
<1>1. /\ left = << >> /\ moves \in Seq(Moves)
      /\ UNCHANGED <<moves, sessions, active>>
  BY DEF Begin, TypeInv, LeftOK, tableVars
<1>2. /\ Begun \in 0 .. Len(moves) /\ Len(moves) \in Nat /\ Len(Pending) \in Nat \ {0}
      /\ \A i \in 1 .. Len(Pending) : Pending[i] = EventOf(moves, Begun + i)
  BY <1>1, BegunType, PendingBegin DEF TruthRight, QueueTrue
<1>3. PICK k \in 1 .. Len(moves) : k = Begun + 1
  BY <1>2 DEF Begun
<1>4. k - 1 = Begun /\ sessions = StaysTo(moves, k - 1) /\ ActiveTrue(k - 1)
  <2>1. k - 1 = Begun
    BY <1>2, <1>3
  <2> QED BY <1>1, <2>1 DEF TruthRight, Stage
<1>5. PICK e \in EventSet : e = EventOf(moves, k)
  BY <1>1, MoveTypes
<1>6. Head(queue) = e
  <2>1. 1 \in 1 .. Len(Pending) /\ Head(queue) = Pending[1]
    BY PendingBegin
  <2> QED BY <1>2, <1>3, <1>5, <2>1
<1>7. /\ Len(Pending') = Len(Pending) - 1
      /\ \A i \in 1 .. Len(Pending') : Pending'[i] = Pending[i + 1] /\ i + 1 \in 1 .. Len(Pending)
  BY PendingBegin
<1>8. Begun' = k
  BY <1>1, <1>2, <1>3, <1>7 DEF Begun
<1>9. QueueTrue'
  <2>1. ASSUME NEW i \in 1 .. Len(Pending') PROVE Pending'[i] = EventOf(moves, k + i)
    <3>1. Pending'[i] = EventOf(moves, Begun + (i + 1))
      BY <1>2, <1>7
    <3>2. Begun + (i + 1) = k + i
      BY <1>2, <1>3, <1>7
    <3> QED BY <3>1, <3>2
  <2>2. Len(Pending') <= Len(moves')
    BY <1>1, <1>2, <1>7 DEF TruthRight, QueueTrue
  <2> QED BY <1>1, <1>8, <2>1, <2>2 DEF QueueTrue
<1>10. left' = Handler(e) /\ (left' # << >> => handling' = {e})
  BY <1>6 DEF Begin
<1>11. e.old = PlaceAt(moves, k - 1) /\ e.new = moves[k].channel
  BY <1>5 DEF EventOf
<1>13. CASE e.old = e.new
  <2>1. left' = << >>
    BY <1>10, <1>13, HandlerCases
  <2>2. Here(moves, k) = Here(moves, k - 1) /\ StaysTo(moves, k) = StaysTo(moves, k - 1)
    BY <1>1, <1>11, <1>13, MovedNowhere
  <2>3. PlaceAt(moves, k) = PlaceAt(moves, k - 1)
    <3>1. k # 0
      BY <1>2
    <3> QED BY <1>11, <1>13, <3>1 DEF PlaceAt
  <2>4. Stage(k)'
    BY <1>1, <1>4, <2>1, <2>2, <2>3 DEF Stage, ActiveTrue
  <2> QED BY <1>8, <1>9, <2>4 DEF TruthRight
<1>14. CASE e.old # e.new
  <2>1. /\ left' # << >> /\ left'[1].op = (IF e.old = None THEN "open" ELSE "close")
        /\ Opens(left') <=> moves[k].channel # None
    BY <1>10, <1>11, <1>14, HandlerCases
  <2>2. active = Here(moves, k - 1)
    BY <1>4 DEF ActiveTrue
  <2>3. CASE e.old = None
    <3>1. Here(moves, k - 1) = {}
      BY <1>1, <1>11, <1>14, <2>3, MovedElsewhere
    <3>2. StaysTo(moves, k) = StaysTo(moves, k - 1) \union {Ended(a, moves[k].at) : a \in Here(moves, k - 1)}
      BY <1>1, <1>11, <1>14, MovedElsewhere
    <3>3. {Ended(a, moves[k].at) : a \in Here(moves, k - 1)} = {}
      BY <3>1
    <3>4. StaysTo(moves, k) = StaysTo(moves, k - 1)
      BY <3>2, <3>3
    <3>5. Stage(k)'
      BY <1>1, <1>4, <1>5, <1>10, <1>11, <1>14, <2>1, <2>2, <2>3, <3>1, <3>4 DEF Stage
    <3> QED BY <1>8, <1>9, <3>5 DEF TruthRight
  <2>4. CASE e.old # None
    <3>1. Stage(k)'
      BY <1>1, <1>4, <1>5, <1>10, <1>11, <1>14, <2>1, <2>2, <2>4 DEF Stage
    <3> QED BY <1>8, <1>9, <3>1 DEF TruthRight
  <2> QED BY <2>3, <2>4
<1> QED BY <1>13, <1>14

LEMMA WherePlace == TypeInv => Where = PlaceAt(moves, Len(moves))
<1> SUFFICES ASSUME TypeInv PROVE Where = PlaceAt(moves, Len(moves))
  OBVIOUS
<1>1. moves \in Seq(Moves)
  BY DEF TypeInv
<1>2. CASE moves = << >>
  BY <1>2 DEF Where, PlaceAt
<1>3. CASE moves # << >>
  <2>1. Len(moves) # 0
    BY <1>1, <1>3, EmptySeq
  <2> QED BY <1>3, <2>1 DEF Where, PlaceAt, Last
<1> QED BY <1>2, <1>3

LEMMA TruthMove ==
  ASSUME TypeInv, TruthRight, NEW c \in Places, NEW t \in Times, Move(c, t)
  PROVE  TruthRight'
<1>1. PICK x \in Moves : x = [channel |-> c, at |-> t]
  BY DEF Moves
<1>2. PICK e : e = Event(Where, c, t)
  OBVIOUS
<1>3. /\ moves' = Append(moves, x) /\ publishing' = Append(publishing, e)
      /\ UNCHANGED <<queue, handling, left, active, sessions>>
  BY <1>1, <1>2 DEF Move, Goes, tableVars
<1>4. /\ moves \in Seq(Moves) /\ Pending \in Seq(EventSet)
      /\ Begun \in 0 .. Len(moves) /\ Len(moves) \in Nat /\ Len(Pending) \in Nat
  BY BegunType, PendingParts DEF TypeInv, TruthRight, PendingOK
<1>5. Where \in Places
  <2>1. Len(moves) = 0 \/ Len(moves) \in 1 .. Len(moves)
    BY <1>4
  <2> QED BY <1>4, <2>1, WherePlace, MoveTypes, PlaceTypes DEF PlaceAt
<1>6. e \in EventSet
  BY <1>2, <1>5 DEF Event, EventSet
<1>7. /\ Len(moves') = Len(moves) + 1 /\ moves'[Len(moves) + 1] = x
      /\ Len(Pending') = Len(Pending) + 1 /\ Pending'[Len(Pending) + 1] = e
      /\ \A i \in 1 .. Len(Pending) : Pending'[i] = Pending[i]
  <2>1. Pending' = Append(Pending, e)
    BY <1>3, <1>6, PendingMember
  <2> QED BY <1>1, <1>3, <1>4, <1>6, <2>1, AppendProperties
<1>8. Begun' = Begun
  BY <1>4, <1>7 DEF Begun
<1>9. /\ PlaceAt(moves', Len(moves)) = PlaceAt(moves, Len(moves))
      /\ EventOf(moves', Len(moves) + 1) = e
  <2>1. Len(moves) \in 0 .. Len(moves) /\ (Len(moves) + 1) - 1 = Len(moves)
    BY <1>4
  <2>2. PlaceAt(moves', Len(moves)) = PlaceAt(moves, Len(moves))
    BY <1>3, <1>4, <2>1, PastMoves
  <2>3. EventOf(moves', Len(moves) + 1) = [old |-> PlaceAt(moves, Len(moves)), new |-> x.channel, at |-> x.at]
    BY <1>7, <2>1, <2>2 DEF EventOf
  <2> QED BY <1>1, <1>2, <2>2, <2>3, WherePlace DEF Event
<1>10. QueueTrue'
  <2>1. ASSUME NEW i \in 1 .. Len(Pending') PROVE Pending'[i] = EventOf(moves', Begun + i)
    <3>1. CASE i = Len(Pending) + 1
      <4>1. Begun + i = Len(moves) + 1
        BY <1>4, <3>1 DEF Begun
      <4> QED BY <1>7, <1>9, <3>1, <4>1
    <3>2. CASE i # Len(Pending) + 1
      <4>1. i \in 1 .. Len(Pending) /\ Begun + i \in 0 .. Len(moves) /\ Begun + i # 0
        BY <1>4, <1>7, <3>2 DEF Begun
      <4>2. Pending'[i] = EventOf(moves, Begun + i)
        BY <1>7, <4>1 DEF TruthRight, QueueTrue
      <4>3. EventOf(moves', Begun + i) = EventOf(moves, Begun + i)
        BY <1>3, <1>4, <4>1, PastMoves
      <4> QED BY <4>2, <4>3
    <3> QED BY <3>1, <3>2
  <2>2. Len(Pending') <= Len(moves')
    BY <1>4, <1>7 DEF TruthRight, QueueTrue
  <2> QED BY <1>8, <2>1, <2>2 DEF QueueTrue
<1>11. PICK k \in 0 .. Len(moves) : k = Begun
  BY <1>4
<1>12. PlaceAt(moves', k) = PlaceAt(moves, k) /\ Here(moves', k) = Here(moves, k)
       /\ StaysTo(moves', k) = StaysTo(moves, k)
  BY <1>3, <1>4, PastMoves
<1>13. ASSUME k \in 1 .. Len(moves)
       PROVE  /\ PlaceAt(moves', k - 1) = PlaceAt(moves, k - 1) /\ moves'[k].channel = moves[k].channel
              /\ Here(moves', k - 1) = Here(moves, k - 1) /\ StaysTo(moves', k - 1) = StaysTo(moves, k - 1)
              /\ EventOf(moves', k) = EventOf(moves, k) /\ k \in 1 .. Len(moves')
  <2>1. k - 1 \in 0 .. Len(moves) /\ k # 0 /\ k \in 1 .. Len(moves')
    BY <1>4, <1>7, <1>13
  <2>2. moves'[k].channel = moves[k].channel
    BY <1>12, <2>1 DEF PlaceAt
  <2> QED BY <1>3, <1>4, <2>1, <2>2, PastMoves
<1>14. Stage(k)
  BY <1>11 DEF TruthRight
<1>15. Stage(k)'
  <2>1. left = << >> => Stage(k)'
    BY <1>3, <1>12, <1>14 DEF Stage, ActiveTrue
  <2>2. left # << >> => Stage(k)'
    BY <1>3, <1>12, <1>13, <1>14 DEF Stage, ActiveTrue
  <2> QED BY <2>1, <2>2
<1> QED BY <1>3, <1>8, <1>10, <1>11, <1>15 DEF TruthRight

\* What goes from the gateway to the stream, in order, is still to be handled.
LEMMA TruthPublish ==
  ASSUME TypeInv, TruthRight, NEW i \in DOMAIN publishing, Publish(i), ~overtaken'
  PROVE  TruthRight'
<1>1. i = 1 /\ UNCHANGED <<moves, handling, left, active, sessions>>
  BY PublishParts
<1>2. Pending' = Pending
  BY <1>1, PendingPublish
<1>3. QueueTrue' /\ Begun' = Begun
  BY <1>1, <1>2 DEF QueueTrue, Begun, TruthRight
<1>4. Stage(Begun)' = Stage(Begun)
  BY <1>1, <1>3 DEF Stage, ActiveTrue
<1> QED BY <1>3, <1>4 DEF TruthRight

LEMMA TruthStep == ASSUME TypeInv, LeftShape, FreshInv, OrderInv, TruthInv, [Next]_vars PROVE TruthInv'
<1>1. faultCount \in Nat
  BY VoiceAssumption DEF TypeInv
<1>2. CASE HandlerFails \/ Crash \/ \E c \in Places, t \in Times : MoveUnknown(c, t) \/ Miss(c, t)
  <2>1. faultCount' > 0
    BY <1>2, FaultTypes DEF HandlerFails, Crash, MoveUnknown, Miss
  <2> QED BY <1>1, <2>1 DEF TruthInv
<1>3. CASE Worker \/ (\E c \in Places, t \in Times : Move(c, t)) \/ UNCHANGED vars
  <2>1. UNCHANGED <<retried, overtaken, faultCount>>
    BY <1>3 DEF Worker, Begin, Close, Record, Add, Open, Lifecycle, Proceed, Move, historyVars, vars
  <2> SUFFICES ASSUME faultCount = 0, ~overtaken PROVE TruthRight'
    BY <2>1 DEF TruthInv
  <2>2. TruthRight /\ ~retried /\ Fresh /\ InOrder
    BY <1>1 DEF TruthInv, FreshInv, OrderInv
  <2>3. CASE UNCHANGED vars
    <3>1. UNCHANGED <<moves, publishing, queue, handling, left, active, sessions>>
      BY <2>3 DEF vars, handlerVars, tableVars
    <3>2. QueueTrue' /\ Begun' = Begun
      BY <2>2, <3>1, WorkTrue
    <3>3. Stage(Begun)' = Stage(Begun)
      BY <3>1, <3>2 DEF Stage, ActiveTrue
    <3> QED BY <2>2, <3>2, <3>3 DEF TruthRight
  <2>4. CASE \E c \in Places, t \in Times : Move(c, t)
    BY <2>2, <2>4, TruthMove
  <2>5. CASE Worker
    BY <2>2, <2>5, TruthBegin, TruthClose, TruthRecord, TruthAdd, TruthOpen, TruthLifecycle DEF Worker
  <2> QED BY <1>3, <2>3, <2>4, <2>5
<1>4. CASE Gateway
  <2>1. PICK i \in DOMAIN publishing : Publish(i)
    BY <1>4 DEF Gateway
  <2>2. UNCHANGED <<retried, faultCount>> /\ (overtaken => overtaken')
    BY <2>1, PublishParts
  <2>3. ASSUME faultCount = 0, ~overtaken' PROVE TruthRight'
    <3>1. TruthRight
      BY <2>2, <2>3 DEF TruthInv
    <3> QED BY <2>1, <2>3, <3>1, TruthPublish
  <2> QED BY <2>2, <2>3 DEF TruthInv
<1> QED BY <1>2, <1>3, <1>4 DEF Next, Member, Places, Times

LEMMA TruthInit == Init => TruthInv
<1> SUFFICES ASSUME Init PROVE TruthRight /\ ~retried
  BY DEF TruthInv
<1>1. /\ moves = << >> /\ publishing = << >> /\ queue = << >> /\ left = << >>
      /\ active = {} /\ sessions = {} /\ ~retried
  BY DEF Init
<1>2. Pending = << >>
  BY <1>1 DEF Pending
<1>3. Len(moves) = 0 /\ Len(Pending) = 0 /\ Begun = 0
  BY <1>1, <1>2 DEF Begun
<1>4. Here(moves, 0) = {} /\ StaysTo(moves, 0) = {} /\ PlaceAt(moves, 0) = None
  BY DEF Here, StaysTo, PlaceAt
<1> QED BY <1>1, <1>3, <1>4 DEF TruthRight, QueueTrue, Stage, ActiveTrue

LEMMA TruthInvariant == Spec => [](AllInv /\ TruthInv)
<1>1. AllInv /\ TruthInv /\ [Next]_vars => TruthInv'
  BY TruthStep DEF AllInv
<1> QED BY <1>1, TruthInit, AllInvariant, PTL DEF Spec

\* The stays of VoiceSessions are those ended by the moves there are.
LEMMA AllStays == TypeInv => Stays = StaysTo(moves, Len(moves))
<1> SUFFICES ASSUME TypeInv PROVE Stays = StaysTo(moves, Len(moves))
  OBVIOUS
<1>1. moves \in Seq(Moves) /\ Len(moves) \in Nat /\ DOMAIN moves = 1 .. Len(moves)
  BY MoveTypes DEF TypeInv
<1>2. SessionRows = [channel : Channels, from : 1 .. MaxTime, to : 1 .. MaxTime]
  BY DEF SessionRows, Times
<1>3. ASSUME NEW s \in Stays PROVE s \in StaysTo(moves, Len(moves))
  <2>1. PICK i \in DOMAIN moves, j \in DOMAIN moves :
          /\ i < j /\ moves[i].at = s.from /\ moves[j].at = s.to
          /\ i = 1 \/ moves[i - 1].channel # s.channel
          /\ \A l \in i .. j - 1 : moves[l].channel = s.channel
          /\ moves[j].channel # s.channel
    BY DEF Stays
  <2>2. i \in 1 .. j - 1 /\ j \in 1 .. Len(moves)
    BY <1>1, <2>1
  <2> QED BY <1>2, <2>1, <2>2 DEF Stays, StaysTo, Since
<1>4. ASSUME NEW s \in StaysTo(moves, Len(moves)) PROVE s \in Stays
  <2>1. PICK j \in 1 .. Len(moves) :
          /\ moves[j].at = s.to /\ moves[j].channel # s.channel
          /\ \E i \in 1 .. j - 1 : moves[i].at = s.from /\ Since(moves, s.channel, i, j - 1)
    BY DEF StaysTo
  <2>2. PICK i \in 1 .. j - 1 : moves[i].at = s.from /\ Since(moves, s.channel, i, j - 1)
    BY <2>1
  <2>3. i < j /\ i \in DOMAIN moves /\ j \in DOMAIN moves
    BY <1>1, <2>1, <2>2
  <2> QED BY <1>2, <2>1, <2>2, <2>3 DEF Stays, StaysTo, Since
<1> QED BY <1>3, <1>4

LEMMA StaysGrow ==
  ASSUME NEW m, NEW k \in Nat, NEW n \in Nat, k <= n
  PROVE  StaysTo(m, k) \subseteq StaysTo(m, n)
<1>1. \A j \in 1 .. k : j \in 1 .. n
  OBVIOUS
<1> QED BY <1>1 DEF StaysTo

LEMMA QuietTrue ==
  ASSUME TypeInv, TruthRight, Quiet
  PROVE  /\ sessions = Stays /\ {a.channel : a \in active} = {Where} \ {None}
         /\ left = << >>
<1>0. Pending = << >> /\ Len(Pending) = 0
  BY DEF Quiet, Pending
<1>1. left = << >> /\ Len(Pending) = 0 /\ moves \in Seq(Moves)
  BY <1>0 DEF Quiet, TypeInv, LeftOK
<1>2. Begun = Len(moves) /\ Len(moves) \in Nat /\ Len(moves) \in 0 .. Len(moves)
  BY <1>1, MoveTypes DEF Begun
<1>3. sessions = StaysTo(moves, Len(moves)) /\ ActiveTrue(Len(moves))
  BY <1>1, <1>2 DEF TruthRight, Stage
<1>4. sessions = Stays
  BY <1>3, AllStays
<1>5. {a.channel : a \in active} = {Where} \ {None}
  <2>1. ASSUME NEW a \in active PROVE a.channel = Where /\ a.channel # None
    BY <1>1, <1>2, <1>3, HereType, WherePlace, PlaceTypes DEF ActiveTrue
  <2>2. Where # None => active # {}
    BY <1>3, WherePlace DEF ActiveTrue
  <2> QED BY <2>1, <2>2
<1> QED BY <1>1, <1>4, <1>5

LEMMA SessionsRight ==
  ASSUME TypeInv, TruthRight
  PROVE  sessions \subseteq Stays
<1>1. /\ Begun \in 0 .. Len(moves) /\ Len(moves) \in Nat /\ Begun \in Nat /\ Begun <= Len(moves)
      /\ moves \in Seq(Moves)
  BY BegunType DEF TruthRight
<1>2. Stays = StaysTo(moves, Len(moves))
  BY AllStays
<1>3. StaysTo(moves, Begun) \subseteq Stays
  BY <1>1, <1>2, StaysGrow
<1>4. CASE left = << >>
  BY <1>3, <1>4 DEF TruthRight, Stage
<1>5. CASE left # << >>
  <2>1. left[1] \in Statements
    BY <1>5, HeadTypes DEF TypeInv, LeftOK
  <2>2. left[1].op \in Ops
    BY <2>1, StatementTypes
  <2>3. CASE left[1].op = "close"
    <3>1. Begun \in 1 .. Len(moves) /\ sessions = StaysTo(moves, Begun - 1)
      BY <1>5, <2>3 DEF TruthRight, Stage
    <3>2. Begun - 1 \in Nat /\ Begun - 1 <= Begun
      BY <1>1, <3>1
    <3>3. StaysTo(moves, Begun - 1) \subseteq StaysTo(moves, Begun)
      BY <1>1, <3>2, StaysGrow
    <3> QED BY <1>3, <3>1, <3>3
  <2>4. CASE left[1].op # "close"
    BY <1>3, <1>5, <2>2, <2>4 DEF TruthRight, Stage, Ops
  <2> QED BY <2>3, <2>4
<1> QED BY <1>4, <1>5

\* Sessions that do not overlap have no second in common.
LEMMA SecondsApart ==
  ASSUME TypeInv, RowsOrdered, NEW d
  PROVE  Cardinality(SecondsOf(sessions, d)) = Cardinality(CoveredBy(sessions, d))
<1> DEFINE S == SecondsOf(sessions, d)
           T == CoveredBy(sessions, d)
           f == [p \in S |-> p[2]]
<1>1. IsFiniteSet(S)
  BY SecondsFinite DEF TypeInv, SessionsOK
<1>2. f \in [S -> T]
  BY DEF SecondsOf, CoveredBy
<1>3. ASSUME NEW p \in S, NEW q \in S, f[p] = f[q] PROVE p = q
  <2>1. /\ p[1] \in sessions /\ q[1] \in sessions /\ p[2] = q[2] /\ p[2] \in Nat
        /\ p = <<p[1], p[2]>> /\ q = <<q[1], q[2]>>
        /\ p[1].from <= p[2] /\ p[2] < p[1].to /\ q[1].from <= p[2] /\ p[2] < q[1].to
    BY <1>3 DEF SecondsOf
  <2>2. /\ p[1].from \in Nat /\ p[1].to \in Nat /\ q[1].from \in Nat /\ q[1].to \in Nat
    BY <2>1, RowTimes DEF Times
  <2>3. p[1] = q[1]
    BY <2>1, <2>2 DEF RowsOrdered
  <2> QED BY <2>1, <2>3
<1>4. ASSUME NEW t \in T PROVE \E p \in S : f[p] = t
  <2>1. PICK s \in sessions : t \in 0 .. MaxTime /\ Day(t) = d /\ s.from <= t /\ t < s.to
    BY DEF CoveredBy
  <2>2. <<s, t>> \in S
    BY <2>1 DEF SecondsOf
  <2>3. f[<<s, t>>] = t
    BY <2>2
  <2> QED BY <2>2, <2>3
<1> HIDE DEF S, T, f
<1>5. f \in Bijection(S, T)
  BY <1>2, <1>3, <1>4 DEF Bijection, Injection, Surjection, IsInjective
<1>6. ExistsBijection(S, T)
  BY <1>5 DEF ExistsBijection
<1>7. Cardinality(T) = Cardinality(S)
  BY <1>1, <1>6, FS_Bijection
<1> QED BY <1>7 DEF S, T

\* Without faults, and with the events in the order of the moves, the worker
\* records the member's stays, each of them and no others, and knows where the
\* member is.
THEOREM SessionsTrueHolds == Spec => []SessionsTrue
<1>1. AllInv /\ TruthInv => SessionsTrue
  BY SessionsRight, QuietTrue DEF AllInv, TruthInv, SessionsTrue
<1> QED BY <1>1, TruthInvariant, PTL

\* In the same order and without faults the seconds of a day are those the
\* member was in voice.
THEOREM SecondsExactHolds == Spec => []SecondsExact
<1>1. AllInv /\ TruthInv => SecondsExact
  <2> SUFFICES ASSUME AllInv, TruthInv, faultCount = 0, ~overtaken, Quiet, NEW d \in Days
               PROVE  seconds[d] = Cardinality({t \in 0 .. MaxTime : Day(t) = d /\ InVoice(t)})
    BY DEF SecondsExact
  <2>1. TypeInv /\ SumsRight /\ TruthRight /\ RowsOrdered
    BY DEF AllInv, TruthInv, SumsInv, OrderInv, InOrder
  <2>2. sessions = Stays /\ left = << >> /\ Len(left) = 0
    BY <2>1, QuietTrue
  <2>3. Fits(seconds[d], d)
    BY <2>1, <2>2 DEF SumsRight
  <2>4. CoveredBy(sessions, d) = {t \in 0 .. MaxTime : Day(t) = d /\ InVoice(t)}
    BY <2>2 DEF CoveredBy, InVoice
  <2>5. Cardinality(SecondsOf(sessions, d)) = Cardinality(CoveredBy(sessions, d))
    BY <2>1, SecondsApart
  <2> QED BY <2>3, <2>4, <2>5 DEF Fits
<1> QED BY <1>1, TruthInvariant, PTL
=============================================================================
