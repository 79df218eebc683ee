------------------------------ MODULE PublicStats ------------------------------
(***************************************************************************)
(* The public statistics as visitors of the site see them: the row that    *)
(* GuildInventory keeps, the API's task that reads it every half a minute  *)
(* into a watch channel, and the streams of server-sent events that follow *)
(* the channel.  A watch channel holds one value, and each receiver knows  *)
(* whether the value is one it has not looked at.                          *)
(***************************************************************************)
EXTENDS GuildInventory

CONSTANT Visitors  \* connections to /v1/public/stats/stream

VARIABLES
  cell,     \* the value in the watch channel
  visitor,  \* visitor[c]: where its stream is, what it showed last, and
            \* whether the channel has a value that it has not looked at
  missed    \* visitors that subscribed after the value they showed was
            \* replaced, history

siteVars == <<cell, visitor, missed>>
siteAndVars == <<vars, siteVars>>

Away == [at |-> "away", shows |-> NothingSeen, changed |-> FALSE]

SiteInit ==
  /\ Init
  /\ cell = stats
  /\ visitor = [c \in Visitors |-> Away]
  /\ missed = {}

-----------------------------------------------------------------------------
(* The updater: at every tick, and when its subscription is renewed.  The   *)
(* hot cache in Redis is read first and never hit, as nothing writes it, nor *)
(* does anything publish to the channel it is subscribed to.                *)

\* Mutant: the channel is not told when only the members differ.
TickIfServersDiffer ==
  /\ cell' = stats
  /\ visitor' = IF stats.servers = cell.servers THEN visitor
                ELSE [c \in Visitors |-> [visitor[c] EXCEPT !.changed = visitor[c].at = "open"]]
  /\ UNCHANGED <<vars, missed>>

\* send_replace, if the row differs from the channel's value in servers or
\* members: messages are in MessageIndexing.  A row that
\* changes between the read and the comparison is read at the next tick, and an
\* error leaves the channel as it is until then.
Tick ==
  /\ cell # stats
  /\ cell' = stats
  /\ visitor' = [c \in Visitors |-> [visitor[c] EXCEPT !.changed = visitor[c].at = "open"]]
  /\ UNCHANGED <<vars, missed>>

-----------------------------------------------------------------------------
(* The streams.                                                             *)

\* The first event is built from the channel's value ...
Connect(c) ==
  /\ visitor[c].at = "away"
  /\ visitor' = [visitor EXCEPT ![c] = [at |-> "connecting", shows |-> cell, changed |-> FALSE]]
  /\ missed' = missed \ {c}
  /\ UNCHANGED <<vars, cell>>

\* ... before subscribe(), whose receiver takes the value it finds for seen.
Subscribe(c) ==
  /\ visitor[c].at = "connecting"
  /\ visitor' = [visitor EXCEPT ![c].at = "open"]
  /\ missed' = IF visitor[c].shows = cell THEN missed ELSE missed \union {c}
  /\ UNCHANGED <<vars, cell>>

Show(c) ==
  /\ visitor[c].changed
  /\ visitor' = [visitor EXCEPT ![c].shows = cell, ![c].changed = FALSE]
  /\ missed' = missed \ {c}
  /\ UNCHANGED <<vars, cell>>

Leave(c) ==
  /\ visitor[c].at = "open"
  /\ visitor' = [visitor EXCEPT ![c] = Away]
  /\ missed' = missed \ {c}
  /\ UNCHANGED <<vars, cell>>

SiteNext ==
  \/ Next /\ UNCHANGED siteVars
  \/ Tick
  \/ \E c \in Visitors : Connect(c) \/ Subscribe(c) \/ Show(c) \/ Leave(c)

SiteSpec == SiteInit /\ [][SiteNext]_siteAndVars

\* The API's task ticks, and polls streams whose receivers were woken.
FairSiteSpec ==
  /\ SiteSpec
  /\ Fairness
  /\ WF_siteAndVars(Tick)
  /\ \A c \in Visitors : WF_siteAndVars(Subscribe(c)) /\ WF_siteAndVars(Show(c))

-----------------------------------------------------------------------------
\* Visitors see the guilds that there are: whatever fails on the way, in the
\* end each open stream shows the sums of the inventory, unless the row itself
\* is wrong as StatsTrue tells, or the stream missed a change made as it began.
StatsShown ==
  <>[] \A c \in Visitors : visitor[c].at = "open" =>
         \/ visitor[c].shows = Sums(inventory)
         \/ c \in missed \/ halfway # {} \/ raced
=============================================================================
