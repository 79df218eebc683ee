---------------------------- MODULE DeadLetterOps ----------------------------
(***************************************************************************)
(* What operators do to dead letters from the dashboard: replay and        *)
(* discard requests of the API, each a chain of Redis and Postgres calls   *)
(* under a lock with a time to live, against the dead-letter stream, the   *)
(* source stream and the retry counters that the worker uses.  The worker  *)
(* is reduced to its outcomes (DeliveryPipeline has the rest): an event is *)
(* processed, or fails and is tried again until its retries are used up.   *)
(*                                                                         *)
(* A call may fail without effect, or take effect and lose its reply; a    *)
(* client may disconnect, and its request stops wherever it is waiting.    *)
(***************************************************************************)
EXTENDS Integers, Sequences, FiniteSets

CONSTANTS
  Events,      \* events of one source stream
  Requests,    \* requests the API is handling
  MaxRetries,  \* MAX_DELIVERY_RETRIES
  MaxEntries,  \* bound: dead letters ever written
  MaxFaults    \* bound: how many calls fail, requests stop, locks or counters run out

ASSUME OpsAssumption ==
  /\ IsFiniteSet(Events) /\ IsFiniteSet(Requests)
  /\ MaxRetries \in Nat
  /\ MaxEntries \in Nat
  /\ MaxFaults \in Nat

VARIABLES
  entries,     \* the event of every dead letter ever written, by entry id
  present,     \* entries of the dead-letter stream
  queued,      \* queued[e]: copies of e that the worker has yet to settle
  retryCount,  \* retryCount[e]: the retry counter of e, 0 when absent
  locks,       \* entries with an action lock
  step,        \* step[q]: the call request q makes next
  target,      \* target[q]: the entry q is about, 0 when q is idle
  kind,        \* kind[q]: "replay" or "discard"
  replays,     \* replays[i], history: times entry i was published again
  published,   \* published[e], history: times e was added to its source stream
  discards,    \* entries a discard request has deleted, history
  audited,     \* <<kind, i>> for every row of the two audit tables
  failures,    \* failures[e], history: attempts at e that failed
  clears,      \* clears[e], history: times a request cleared e's counter
  lapses,      \* lapses[e], history: times e's counter outlived its time to live
  faultCount,  \* bound
  faulted      \* history: what has gone wrong

entryVars == <<entries, present>>
workerVars == <<queued, retryCount>>
requestVars == <<step, target, kind>>
historyVars == <<replays, published, discards, audited, failures, clears, lapses>>
faultVars == <<faultCount, faulted>>
vars == <<entryVars, workerVars, locks, requestVars, historyVars, faultVars>>

Ids == 1 .. MaxEntries

Written == DOMAIN entries

Calls == {"read", "publish", "delete", "clear", "audit", "invalidate", "unlock"}

Acting(q, i) == step[q] # "idle" /\ target[q] = i

Init ==
  /\ entries = << >>
  /\ present = {}
  /\ queued = [e \in Events |-> 1]
  /\ retryCount = [e \in Events |-> 0]
  /\ locks = {}
  /\ step = [q \in Requests |-> "idle"]
  /\ target = [q \in Requests |-> 0]
  /\ kind = [q \in Requests |-> "replay"]
  /\ replays = [i \in Ids |-> 0]
  /\ published = [e \in Events |-> 1]
  /\ discards = {}
  /\ audited = {}
  /\ failures = [e \in Events |-> 0]
  /\ clears = [e \in Events |-> 0]
  /\ lapses = [e \in Events |-> 0]
  /\ faultCount = 0
  /\ faulted = {}

-----------------------------------------------------------------------------
(* Faults.                                                                  *)

Fault(what) ==
  /\ faultCount < MaxFaults
  /\ faultCount' = faultCount + 1
  /\ faulted' = faulted \union {what}

FaultNames == Calls \union {"claim", "lost", "disconnect", "expiry", "lapse"}

Outcomes == {"ok", "failed", "lost"}

\* A call has an effect unless it failed, and an error unless it is ok.
Report(call, outcome) ==
  CASE outcome = "ok" -> UNCHANGED faultVars
    [] outcome = "failed" -> Fault(call)
    [] outcome = "lost" -> Fault("lost")

GoTo(q, next) == step' = [step EXCEPT ![q] = next] /\ UNCHANGED <<target, kind>>

End(q) ==
  /\ step' = [step EXCEPT ![q] = "idle"]
  /\ target' = [target EXCEPT ![q] = 0]
  /\ kind' = [kind EXCEPT ![q] = "replay"]

-----------------------------------------------------------------------------
(* The requests.                                                            *)

\* Mutant: SET without NX.
ClaimAnyway(q, i) ==
  /\ step[q] = "idle"
  /\ \E outcome \in Outcomes :
       /\ Report("claim", outcome)
       /\ locks' = IF outcome = "failed" THEN locks ELSE locks \union {i}
       /\ IF outcome = "ok"
          THEN /\ step' = [step EXCEPT ![q] = "read"]
               /\ target' = [target EXCEPT ![q] = i]
               /\ \E k \in {"replay", "discard"} : kind' = [kind EXCEPT ![q] = k]
          ELSE UNCHANGED requestVars
  /\ UNCHANGED <<entryVars, workerVars, historyVars>>

\* SET NX EX.  The dashboard shows a cached list, so i may be gone by now; a
\* locked entry is a conflict and changes nothing.
Claim(q, i) ==
  /\ step[q] = "idle"
  /\ i \notin locks
  /\ \E outcome \in Outcomes :
       /\ Report("claim", outcome)
       /\ locks' = IF outcome = "failed" THEN locks ELSE locks \union {i}
       /\ IF outcome = "ok"
          THEN /\ step' = [step EXCEPT ![q] = "read"]
               /\ target' = [target EXCEPT ![q] = i]
               /\ \E k \in {"replay", "discard"} : kind' = [kind EXCEPT ![q] = k]
          ELSE UNCHANGED requestVars
  /\ UNCHANGED <<entryVars, workerVars, historyVars>>

\* Mutant: a replay goes the way of a discard.
ReadSkipsPublish(q) ==
  /\ step[q] = "read"
  /\ \/ /\ IF target[q] \in present THEN GoTo(q, "delete") ELSE GoTo(q, "unlock")
        /\ UNCHANGED faultVars
     \/ Fault("read") /\ End(q)
  /\ UNCHANGED <<entryVars, workerVars, locks, historyVars>>

\* An error of the read, or of its decoding, leaves the lock to its expiry.
Read(q) ==
  /\ step[q] = "read"
  /\ \/ /\ IF target[q] \in present
           THEN GoTo(q, IF kind[q] = "replay" THEN "publish" ELSE "delete")
           ELSE GoTo(q, "unlock")
        /\ UNCHANGED faultVars
     \/ Fault("read") /\ End(q)
  /\ UNCHANGED <<entryVars, workerVars, locks, historyVars>>

Publish(q) ==
  LET i == target[q]
  IN  /\ step[q] = "publish"
      /\ \E outcome \in Outcomes :
           /\ Report("publish", outcome)
           /\ IF outcome = "failed" THEN UNCHANGED <<queued, replays, published>>
              ELSE /\ queued' = [queued EXCEPT ![entries[i]] = @ + 1]
                   /\ replays' = [replays EXCEPT ![i] = @ + 1]
                   /\ published' = [published EXCEPT ![entries[i]] = @ + 1]
           /\ GoTo(q, IF outcome = "ok" THEN "delete" ELSE "unlock")
      /\ UNCHANGED <<entryVars, retryCount, locks, discards, audited, failures, clears, lapses>>

\* Mutant: an error of the XDEL is ignored.
DeleteIgnoringErrors(q) ==
  LET i == target[q]
  IN  /\ step[q] = "delete"
      /\ \E outcome \in Outcomes :
           /\ Report("delete", outcome)
           /\ present' = IF outcome = "failed" THEN present ELSE present \ {i}
           /\ discards' = IF outcome # "failed" /\ kind[q] = "discard" /\ i \in present
                          THEN discards \union {i} ELSE discards
           /\ GoTo(q, "clear")
      /\ UNCHANGED <<entries, workerVars, locks, replays, published, audited, failures, clears, lapses>>

\* XDEL.  How many entries it deleted is not looked at.
Delete(q) ==
  LET i == target[q]
  IN  /\ step[q] = "delete"
      /\ \E outcome \in Outcomes :
           /\ Report("delete", outcome)
           /\ present' = IF outcome = "failed" THEN present ELSE present \ {i}
           /\ discards' = IF outcome # "failed" /\ kind[q] = "discard" /\ i \in present
                          THEN discards \union {i} ELSE discards
           /\ GoTo(q, IF outcome = "ok" THEN "clear" ELSE "unlock")
      /\ UNCHANGED <<entries, workerVars, locks, replays, published, audited, failures, clears, lapses>>

\* DEL of the retry counter, whatever the worker has counted meanwhile.
Clear(q) ==
  LET e == entries[target[q]]
  IN  /\ step[q] = "clear"
      /\ \E outcome \in Outcomes :
           /\ Report("clear", outcome)
           /\ IF outcome = "failed" THEN UNCHANGED <<retryCount, clears>>
              ELSE /\ retryCount' = [retryCount EXCEPT ![e] = 0]
                   /\ clears' = [clears EXCEPT ![e] = @ + 1]
      /\ GoTo(q, "audit")
      /\ UNCHANGED <<entryVars, queued, locks, replays, published, discards, audited, failures, lapses>>

\* Without a row in the audit table the dashboard's cache is left alone.
Audit(q) ==
  /\ step[q] = "audit"
  /\ \E outcome \in Outcomes :
       /\ Report("audit", outcome)
       /\ audited' = IF outcome = "failed" THEN audited
                     ELSE audited \union {<<kind[q], target[q]>>}
       /\ GoTo(q, IF outcome = "ok" THEN "invalidate" ELSE "unlock")
  /\ UNCHANGED <<entryVars, workerVars, locks, replays, published, discards, failures, clears, lapses>>

\* The cached answers about the pipeline are dropped (IncidentDashboard has
\* them); errors are logged.
Invalidate(q) ==
  /\ step[q] = "invalidate"
  /\ UNCHANGED faultVars \/ Fault("invalidate")
  /\ GoTo(q, "unlock")
  /\ UNCHANGED <<entryVars, workerVars, locks, historyVars>>

\* DEL of the lock, whoever holds it by now.
Unlock(q) ==
  /\ step[q] = "unlock"
  /\ \E outcome \in Outcomes :
       /\ Report("unlock", outcome)
       /\ locks' = IF outcome = "failed" THEN locks ELSE locks \ {target[q]}
  /\ End(q)
  /\ UNCHANGED <<entryVars, workerVars, historyVars>>

\* The client disconnects, or the server dies: the request stops at an await.
Disconnect(q) ==
  /\ step[q] # "idle"
  /\ Fault("disconnect")
  /\ End(q)
  /\ UNCHANGED <<entryVars, workerVars, locks, historyVars>>

\* The lock runs out: under a request that is slow, or after one that left it.
ExpireHeld(i) ==
  /\ i \in locks
  /\ \E q \in Requests : Acting(q, i)
  /\ Fault("expiry")
  /\ locks' = locks \ {i}
  /\ UNCHANGED <<entryVars, workerVars, requestVars, historyVars>>

ExpireLeft(i) ==
  /\ i \in locks
  /\ ~\E q \in Requests : Acting(q, i)
  /\ locks' = locks \ {i}
  /\ UNCHANGED <<entryVars, workerVars, requestVars, historyVars, faultVars>>

-----------------------------------------------------------------------------
(* The worker.                                                              *)

Process(e) ==
  /\ queued[e] > 0
  /\ queued' = [queued EXCEPT ![e] = @ - 1]
  /\ UNCHANGED <<entryVars, retryCount, locks, requestVars, historyVars, faultVars>>

\* Mutant: one retry too many.
RetryLate(e) ==
  /\ queued[e] > 0
  /\ retryCount[e] <= MaxRetries
  /\ retryCount' = [retryCount EXCEPT ![e] = @ + 1]
  /\ failures' = [failures EXCEPT ![e] = @ + 1]
  /\ UNCHANGED <<entryVars, queued, locks, requestVars, replays, published, discards, audited,
                 clears, lapses, faultVars>>

Retry(e) ==
  /\ queued[e] > 0
  /\ retryCount[e] < MaxRetries
  /\ retryCount' = [retryCount EXCEPT ![e] = @ + 1]
  /\ failures' = [failures EXCEPT ![e] = @ + 1]
  /\ UNCHANGED <<entryVars, queued, locks, requestVars, replays, published, discards, audited,
                 clears, lapses, faultVars>>

Bury(e) ==
  /\ queued[e] > 0
  /\ retryCount[e] >= MaxRetries
  /\ Len(entries) < MaxEntries
  /\ entries' = Append(entries, e)
  /\ present' = present \union {Len(entries')}
  /\ queued' = [queued EXCEPT ![e] = @ - 1]
  /\ retryCount' = [retryCount EXCEPT ![e] = 0]
  /\ failures' = [failures EXCEPT ![e] = @ + 1]
  /\ UNCHANGED <<locks, requestVars, replays, published, discards, audited, clears, lapses, faultVars>>

\* The counter's time to live is over: the event was left in a queue for so long
\* after its last failure.
Lapse(e) ==
  /\ retryCount[e] > 0
  /\ Fault("lapse")
  /\ retryCount' = [retryCount EXCEPT ![e] = 0]
  /\ lapses' = [lapses EXCEPT ![e] = @ + 1]
  /\ UNCHANGED <<entryVars, queued, locks, requestVars, replays, published, discards, audited,
                 failures, clears>>

Handle(q) ==
  \/ \E i \in Written : Claim(q, i)
  \/ Read(q) \/ Publish(q) \/ Delete(q) \/ Clear(q) \/ Audit(q) \/ Unlock(q)

Work(e) == Process(e) \/ Retry(e) \/ Bury(e) \/ Lapse(e)

Next ==
  \/ \E q \in Requests : Handle(q) \/ Invalidate(q) \/ Disconnect(q)
  \/ \E i \in Written : ExpireHeld(i) \/ ExpireLeft(i)
  \/ \E e \in Events : Work(e)

Spec == Init /\ [][Next]_vars

-----------------------------------------------------------------------------
\* The streams, the lock and its holder, the audit rows and the requests in
\* progress have their shape.
TypeOK ==
  /\ entries \in Seq(Events) /\ Len(entries) <= MaxEntries
  /\ present \subseteq Written
  /\ queued \in [Events -> Nat]
  /\ retryCount \in [Events -> 0 .. MaxRetries]
  /\ locks \subseteq Written
  /\ step \in [Requests -> Calls \union {"idle"}]
  /\ target \in [Requests -> Written \union {0}]
  /\ \A q \in Requests : target[q] = 0 <=> step[q] = "idle"
  /\ kind \in [Requests -> {"replay", "discard"}]
  /\ replays \in [Ids -> Nat]
  /\ published \in [Events -> Nat \ {0}]
  /\ discards \subseteq Written
  /\ audited \subseteq {"replay", "discard"} \X Written
  /\ failures \in [Events -> Nat]
  /\ clears \in [Events -> Nat]
  /\ lapses \in [Events -> Nat]
  /\ faultCount \in 0 .. MaxFaults
  /\ faulted \subseteq FaultNames

\* As long as no request outlives its lock, only one acts on an entry, and the
\* unconditional DEL of the lock never frees the entry under another request.
OneActor ==
  "expiry" \notin faulted =>
    \A q \in Requests : step[q] # "idle" =>
      /\ target[q] \in locks
      /\ \A p \in Requests \ {q} : ~Acting(p, target[q])

\* An entry is replayed or discarded once, by however many requests: unless a
\* lock ran out under a request, or a replay broke off between its publish and
\* its delete.
ActedOnOnce ==
  faulted \intersect {"expiry", "lost", "disconnect", "delete"} = {} =>
    \A i \in Written : replays[i] + (IF i \in discards THEN 1 ELSE 0) <= 1

\* Whatever fails, a dead letter leaves its stream only because it is back in
\* the source stream, or because an operator discarded it.
LeavesOnPurpose ==
  \A i \in Written \ present : replays[i] > 0 \/ i \in discards

\* Whatever fails, the audit tables tell only of what happened: the entry is
\* gone, and was published again if the row says so.
AuditTruthful ==
  \A k \in {"replay", "discard"}, i \in Written :
    <<k, i>> \in audited => i \notin present /\ (k = "replay" => replays[i] > 0)

\* Replays cannot make a poison event go round for ever: each publication has
\* MaxRetries + 1 attempts, and as many more each time the counter starts again
\* below it: when a request clears it, which it does after the replayed event
\* may have failed again, and when its time to live ends between two failures.
AttemptsPaidFor ==
  \A e \in Events : failures[e] <= (MaxRetries + 1) * (published[e] + clears[e] + lapses[e])
=============================================================================
