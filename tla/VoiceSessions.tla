---------------------------- MODULE VoiceSessions ----------------------------
(***************************************************************************)
(* Time in voice channels: the gateway reports that a member has changed   *)
(* channel, the voice worker keeps the session it is in, records the one   *)
(* it has left and adds its seconds to each day it lasted.  Sessions of    *)
(* different members share no row, and one worker handles them all, so one *)
(* member is modelled.  What the events mean for its activation is in      *)
(* MemberAnalytics.                                                        *)
(***************************************************************************)
EXTENDS Integers, SequencesExt, FiniteSetsExt

CONSTANTS
  Channels,
  PerDay,    \* seconds in a day
  MaxTime,   \* bound: seconds
  MaxMoves,  \* bound: events
  MaxFaults  \* bound: events missed, failures and crashes

ASSUME VoiceAssumption ==
  /\ 0 \notin Channels
  /\ PerDay \in Nat \ {0}
  /\ MaxTime \in Nat /\ MaxMoves \in Nat /\ MaxFaults \in Nat

VARIABLES
  moves,     \* where the member went and when: in truth
  publishing,\* persisted, in the order of the moves, and not yet in the stream
  queue,     \* events.voice
  handling,  \* the event the worker handles, if any: a set
  left,      \* the statements left of its handler
  active,    \* active_voice_sessions: the member's row, if any
  sessions,  \* voice_sessions
  seconds,   \* voice_seconds of member_daily_activity, by day
  retried,   \* a handler has failed and its event come back, history
  overtaken, \* an event was published before one of an earlier move, history
  faultCount \* bound

tableVars == <<active, sessions, seconds>>
handlerVars == <<publishing, queue, handling, left>>
historyVars == <<retried, overtaken>>
vars == <<moves, handlerVars, tableVars, historyVars, faultCount>>

None == 0
Day(t) == t \div PerDay
Days == 0 .. Day(MaxTime)
Where == IF moves = << >> THEN None ELSE Last(moves).channel
Now == IF moves = << >> THEN 0 ELSE Last(moves).at

Do(op, arg) == [op |-> op, arg |-> arg]

Init ==
  /\ moves = << >>
  /\ publishing = << >>
  /\ queue = << >>
  /\ handling = {}
  /\ left = << >>
  /\ active = {}
  /\ sessions = {}
  /\ seconds = [d \in Days |-> 0]
  /\ retried = FALSE
  /\ overtaken = FALSE
  /\ faultCount = 0

Fault == faultCount < MaxFaults /\ faultCount' = faultCount + 1

-----------------------------------------------------------------------------
(* The member and the gateway.                                              *)

\* To another channel, out of voice, or in the same channel (a mute).
Goes(c, t) ==
  /\ Len(moves) < MaxMoves
  /\ t > Now
  /\ c = Where => c # None
  /\ moves' = Append(moves, [channel |-> c, at |-> t])

Event(old, c, t) == [old |-> old, new |-> c, at |-> t]

Move(c, t) ==
  /\ Goes(c, t)
  /\ publishing' = Append(publishing, Event(Where, c, t))
  /\ UNCHANGED <<queue, handling, left, tableVars, historyVars, faultCount>>

\* The gateway has just started and does not know where the member was.
MoveUnknown(c, t) ==
  /\ Goes(c, t)
  /\ Where # None
  /\ Fault
  /\ publishing' = Append(publishing, Event(None, c, t))
  /\ UNCHANGED <<queue, handling, left, tableVars, historyVars>>

Miss(c, t) ==
  /\ Goes(c, t)
  /\ Fault
  /\ UNCHANGED <<handlerVars, tableVars, historyVars>>

\* Serenity runs each event in a task of its own, which awaits the database
\* and then Redis: what it publishes may overtake what others publish.
Publish(i) ==
  /\ queue' = Append(queue, publishing[i])
  /\ publishing' = RemoveAt(publishing, i)
  /\ overtaken' = (overtaken \/ i # 1)
  /\ UNCHANGED <<moves, handling, left, tableVars, retried, faultCount>>

-----------------------------------------------------------------------------
(* The voice worker.                                                        *)

\* Mutant: the new session is opened before the old one is closed.
HandlerOpensFirst(e) ==
  IF e.old = e.new THEN << >>
  ELSE (IF e.new = None THEN << >> ELSE <<Do("open", e), Do("lifecycle", e)>>)
       \o (IF e.old = None THEN << >> ELSE <<Do("close", e)>>)

\* process_voice_state_update; "lifecycle" is for the statements after opening.
Handler(e) ==
  IF e.old = e.new THEN << >>
  ELSE (IF e.old = None THEN << >> ELSE <<Do("close", e)>>)
       \o (IF e.new = None THEN << >> ELSE <<Do("open", e), Do("lifecycle", e)>>)

Busy == handling # {}

Begin ==
  /\ ~Busy
  /\ queue # << >>
  /\ left' = Handler(Head(queue))
  /\ handling' = IF left' = << >> THEN {} ELSE {Head(queue)}
  /\ queue' = Tail(queue)
  /\ UNCHANGED <<moves, publishing, tableVars, historyVars, faultCount>>

\* The event comes back behind those that came since.
HandlerFails ==
  /\ Busy
  /\ Fault
  /\ queue' = queue \o SetToSeq(handling)
  /\ handling' = {}
  /\ left' = << >>
  /\ retried' = TRUE
  /\ UNCHANGED <<moves, publishing, tableVars, overtaken>>

Crash ==
  /\ Busy
  /\ Fault
  /\ handling' = {}
  /\ left' = << >>
  /\ UNCHANGED <<moves, publishing, queue, tableVars, historyVars>>

Running(op) == Busy /\ Head(left).op = op

Proceed(rest) ==
  /\ left' = rest
  /\ handling' = IF rest = << >> THEN {} ELSE handling
  /\ UNCHANGED <<moves, publishing, queue, historyVars, faultCount>>

Earlier(a, b) == IF a < b THEN a ELSE b
Later(a, b) == IF a < b THEN b ELSE a

Within(from, to, day) == Earlier(to, (day + 1) * PerDay) - Later(from, day * PerDay)

\* Mutant: a session belongs to the day it began on.
SegmentsOfFirstDay(s) ==
  IF s.from < s.to THEN <<Do("add", [day |-> Day(s.from), n |-> s.to - s.from])>> ELSE << >>

\* One statement for each day the session touches, none for an empty one.
Segments(s) ==
  IF s.from < s.to
  THEN [i \in 1 .. Day(s.to - 1) - Day(s.from) + 1 |->
          LET d == Day(s.from) + i - 1 IN Do("add", [day |-> d, n |-> Within(s.from, s.to, d)])]
  ELSE << >>

Closed(a, e) == [channel |-> a.channel, from |-> a.from, to |-> Later(e.at, a.from)]

\* Mutant: the active session is read and not deleted.
CloseKeeping ==
  LET ended == {Closed(a, Head(left).arg) : a \in active}
  IN  /\ Running("close")
      /\ Proceed((IF ended = {} THEN << >> ELSE <<Do("record", CHOOSE s \in ended : TRUE)>>) \o Tail(left))
      /\ UNCHANGED tableVars

\* DELETE ... RETURNING: the row is gone before the session is recorded.
Close ==
  LET ended == {Closed(a, Head(left).arg) : a \in active}
  IN  /\ Running("close")
      /\ active' = {}
      /\ Proceed((IF ended = {} THEN << >> ELSE <<Do("record", CHOOSE s \in ended : TRUE)>>) \o Tail(left))
      /\ UNCHANGED <<sessions, seconds>>

\* ON CONFLICT DO NOTHING; the seconds are added all the same.
Record ==
  LET s == Head(left).arg
  IN  /\ Running("record")
      /\ sessions' = IF \E other \in sessions : other.from = s.from THEN sessions ELSE sessions \union {s}
      /\ Proceed(Segments(s) \o Tail(left))
      /\ UNCHANGED <<active, seconds>>

Add ==
  /\ Running("add")
  /\ seconds' = [seconds EXCEPT ![Head(left).arg.day] = @ + Head(left).arg.n]
  /\ Proceed(Tail(left))
  /\ UNCHANGED <<active, sessions>>

Opened(e) == [channel |-> e.new, from |-> e.at]

\* Mutant: a member may have several active sessions.
OpenAnother ==
  /\ Running("open")
  /\ active' = active \union {Opened(Head(left).arg)}
  /\ Proceed(Tail(left))
  /\ UNCHANGED <<sessions, seconds>>

\* ON CONFLICT DO UPDATE: a session that was not closed is overwritten.
Open ==
  /\ Running("open")
  /\ active' = {Opened(Head(left).arg)}
  /\ Proceed(Tail(left))
  /\ UNCHANGED <<sessions, seconds>>

Lifecycle ==
  /\ Running("lifecycle")
  /\ Proceed(Tail(left))
  /\ UNCHANGED tableVars

Member ==
  \E c \in Channels \union {None}, t \in 1 .. MaxTime : Move(c, t) \/ MoveUnknown(c, t) \/ Miss(c, t)
Gateway == \E i \in DOMAIN publishing : Publish(i)
Worker == Begin \/ Close \/ Record \/ Add \/ Open \/ Lifecycle

Next == Member \/ Gateway \/ Worker \/ HandlerFails \/ Crash

Spec == Init /\ [][Next]_vars

-----------------------------------------------------------------------------
\* Each row has its shape, and the primary keys hold: one active session, and
\* one recorded for each beginning.
TypeOK ==
  /\ moves \in Seq([channel : Channels \union {None}, at : 1 .. MaxTime])
  /\ \A e \in Range(publishing) \union Range(queue) \union handling :
       e.old \in Channels \union {None} /\ e.new \in Channels \union {None} /\ e.at \in 1 .. MaxTime
  /\ Cardinality(handling) <= 1 /\ (Busy <=> left # << >>)
  /\ active \subseteq [channel : Channels, from : 1 .. MaxTime] /\ Cardinality(active) <= 1
  /\ sessions \subseteq [channel : Channels, from : 1 .. MaxTime, to : 1 .. MaxTime]
  /\ \A s, other \in sessions : s.from = other.from => s = other
  /\ seconds \in [Days -> Nat]
  /\ retried \in BOOLEAN /\ overtaken \in BOOLEAN /\ faultCount \in 0 .. MaxFaults

\* The member's stays in truth: it came to channel c, and the next move that
\* left it was at the end.
Stays ==
  {s \in [channel : Channels, from : 1 .. MaxTime, to : 1 .. MaxTime] :
     \E i, j \in DOMAIN moves :
       /\ i < j /\ moves[i].at = s.from /\ moves[j].at = s.to
       /\ i = 1 \/ moves[i - 1].channel # s.channel
       /\ \A k \in i .. j - 1 : moves[k].channel = s.channel
       /\ moves[j].channel # s.channel}

Quiet == ~Busy /\ queue = << >> /\ publishing = << >>

\* Without faults, and with the events published in the order of the moves,
\* every session recorded is a stay, none is missing once all is handled, and
\* the active row says where the member is: mutes do not split a stay and a
\* switch of channel does.  A leave that overtakes its join closes nothing, and
\* the session opened after it stays open.
SessionsTrue ==
  faultCount = 0 /\ ~overtaken =>
    /\ sessions \subseteq Stays
    /\ Quiet => sessions = Stays /\ {a.channel : a \in active} = {Where} \ {None}

\* In which seconds the member was in voice, until it last left a channel.
InVoice(t) == \E s \in Stays : s.from <= t /\ t < s.to

\* As long as that order is kept and nothing fails, the seconds of each day add
\* up to the time the member was there, over channels, midnights and days in
\* between.
SecondsExact ==
  faultCount = 0 /\ ~overtaken /\ Quiet =>
    \A d \in Days : seconds[d] = Cardinality({t \in 0 .. MaxTime : Day(t) = d /\ InVoice(t)})

\* The seconds of day d that the sessions lasted, once for each session.
Lasted(d) ==
  {p \in sessions \X (0 .. MaxTime) : Day(p[2]) = d /\ p[1].from <= p[2] /\ p[2] < p[1].to}

\* Events missed, moves from an unknown channel and crashes may lose time or
\* join two stays, and publications that overtake one another make sessions of
\* what was none.  As long as no handler is run again, no second is counted that
\* a session did not last; and no two sessions overlap unless the order is lost.
OrderedOnce ==
  ~retried =>
    /\ \A d \in Days : seconds[d] <= Cardinality(Lasted(d))
    /\ ~overtaken =>
         \A s, other \in sessions : s # other => s.to <= other.from \/ other.to <= s.from
=============================================================================
