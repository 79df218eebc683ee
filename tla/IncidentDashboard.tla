--------------------------- MODULE IncidentDashboard ---------------------------
(***************************************************************************)
(* The dashboard's view of the dead letters that operators act upon: the   *)
(* answers about the pipeline that the API keeps in Redis for a minute,    *)
(* one guild's dashboards that read and fill that cache, and the replay    *)
(* and discard requests of DeadLetterOps that drop its keys at their end.  *)
(* The dead letters belong to all guilds, the keys and the audit rows each *)
(* to one.  A dashboard that misses the cache reads the streams or tables  *)
(* and then writes the cache, and a request may do all it does in between. *)
(***************************************************************************)
EXTENDS DeadLetterOps

CONSTANTS
  Local,   \* the requests of this guild's operators
  Viewers  \* dashboards of this guild that may be open at once

ASSUME DashboardAssumption == Local \subseteq Requests

VARIABLES
  key,        \* which of the guild's keys is looked at: they are alike
  cache,      \* the answer in Redis under it, or Miss
  view,       \* view[v]: what viewer v is doing about it
  actedHere,  \* history key: entries with an audit row of this guild
  actedAway   \* incidents key, history: entries other guilds' requests deleted

viewVars == <<key, cache, view, actedHere, actedAway>>
dashboardVars == <<vars, viewVars>>

\* pipeline_incidents, and pipeline_health with it; pipeline_replays and
\* pipeline_discards.
Keys == {"incidents", "history"}

\* late: the key was dropped after the answer was read from its source; what it
\* shows is not kept then, as nothing is said of it.
Miss == [held |-> FALSE, shows |-> {}, late |-> FALSE]
Closed == [open |-> FALSE, shows |-> {}, late |-> FALSE]

DashboardInit ==
  /\ Init
  /\ key \in Keys
  /\ cache = Miss
  /\ view = [v \in Viewers |-> Closed]
  /\ actedHere = {}
  /\ actedAway = {}

-----------------------------------------------------------------------------
(* The dashboards.                                                          *)

\* The dead-letter streams are everybody's, the audit rows are the guild's; the
\* last ten of them are read, and fewer are written here.
Incidents == present
History == actedHere

Source == IF key = "incidents" THEN Incidents ELSE History

\* After a miss; another viewer may fill the cache meanwhile.  An error reading
\* the cache is a miss too, and goes as if the answer had been evicted.
Query(v) ==
  /\ ~view[v].open
  /\ ~cache.held
  /\ view' = [view EXCEPT ![v] = [open |-> TRUE, shows |-> Source, late |-> FALSE]]
  /\ UNCHANGED <<vars, key, cache, actedHere, actedAway>>

\* SET EX, whatever has happened to the key since it was read.  A write that
\* fails is logged; a viewer who leaves never writes.
Write(v) ==
  /\ view[v].open
  /\ \/ cache' = [held |-> TRUE, shows |-> view[v].shows, late |-> view[v].late]
     \/ UNCHANGED cache
  /\ view' = [view EXCEPT ![v] = Closed]
  /\ UNCHANGED <<vars, key, actedHere, actedAway>>

\* The minute is over.
Evict ==
  /\ cache.held
  /\ cache' = Miss
  /\ UNCHANGED <<vars, key, view, actedHere, actedAway>>

-----------------------------------------------------------------------------
(* The requests.                                                            *)

\* Who deletes an entry, and whose audit row tells of it.
Attribute(q) ==
  /\ actedHere' = IF key = "history" /\ q \in Local
                     /\ step[q] = "audit" /\ step'[q] = "invalidate"
                  THEN actedHere \union {target[q]} ELSE actedHere
  /\ actedAway' = IF key = "incidents" /\ q \notin Local
                  THEN actedAway \union (present \ present') ELSE actedAway

Act(q) ==
  /\ Handle(q) \/ Disconnect(q)
  /\ Attribute(q)
  /\ UNCHANGED <<key, cache, view>>

\* Mutant: the keys of the audit lists are forgotten.
DropIncidentsOnly(q) ==
  /\ Invalidate(q)
  /\ \/ /\ q \in Local /\ key = "incidents"
        /\ cache' = Miss
        /\ view' = [v \in Viewers |-> [view[v] EXCEPT !.late = view[v].open, !.shows = {}]]
     \/ /\ q \in Local => key = "history" \/ faultCount' # faultCount
        /\ UNCHANGED <<cache, view>>
  /\ UNCHANGED <<key, actedHere, actedAway>>

\* DEL of every key of the request's guild; one whose DEL fails is kept.
Drop(q) ==
  /\ Invalidate(q)
  /\ \/ /\ q \in Local
        /\ cache' = Miss
        /\ view' = [v \in Viewers |-> [view[v] EXCEPT !.late = view[v].open, !.shows = {}]]
     \/ /\ q \in Local => faultCount' # faultCount
        /\ UNCHANGED <<cache, view>>
  /\ UNCHANGED <<key, actedHere, actedAway>>

DashboardNext ==
  \/ \E q \in Requests : Act(q) \/ Drop(q)
  \/ \E i \in Written : (ExpireHeld(i) \/ ExpireLeft(i)) /\ UNCHANGED viewVars
  \/ \E e \in Events : Work(e) /\ UNCHANGED viewVars
  \/ \E v \in Viewers : Query(v) \/ Write(v)
  \/ Evict

DashboardSpec == DashboardInit /\ [][DashboardNext]_dashboardVars

-----------------------------------------------------------------------------
\* The cached answer and the viewers have their shape, and who acted on what
\* agrees with the streams and the audit tables.
DashboardTypeOK ==
  /\ TypeOK
  /\ key \in Keys
  /\ cache \in [held : {TRUE}, shows : SUBSET Ids, late : BOOLEAN] \union {Miss}
  /\ view \in [Viewers -> [open : BOOLEAN, shows : SUBSET Ids, late : BOOLEAN]]
  /\ \A i \in actedHere : \E k \in {"replay", "discard"} : <<k, i>> \in audited
  /\ actedAway \subseteq Written \ present

\* The entries whose replay or discard the cached answer does not show.
Hidden == IF key = "incidents" THEN cache.shows \ present ELSE actedHere \ cache.shows

Finishing(i) ==
  \E q \in Local : Acting(q, i) /\ step[q] \in {"clear", "audit", "invalidate"}

\* What this guild's operators have done shows on its dashboard as soon as
\* their request has dropped the keys.  A cached answer hides it only while
\* that request is on its way there, or if it stopped before, or was read
\* before the keys were dropped and written after; or, for the list of
\* incidents, if an operator of another guild did it.
ActsShown ==
  cache.held /\ ~cache.late
    /\ faulted \intersect {"lost", "audit", "invalidate", "disconnect"} = {}
  => \A i \in Hidden : i \in actedAway \/ Finishing(i)
=============================================================================
