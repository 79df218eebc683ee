------------------------- MODULE DeliveryProperties -------------------------
(***************************************************************************)
(* What must hold of DeliveryPipeline, and how it implements the ledger.   *)
(***************************************************************************)
EXTENDS DeliveryPipeline

\* Every stream, retry set, counter and worker has its shape: references are to
\* entries there are, and a worker holds a delivery exactly where its step says.
TypeOK ==
  /\ handler \in [Events -> {"received", "persisted", "published", "dropped"}]
  /\ raw \subseteq Events
  /\ stream \in Seq(Events)
  /\ cursor \in 0 .. Len(stream)
  /\ pending \subseteq Entries
  /\ step \in [Workers -> Steps]
  /\ first \in [Workers -> Nat]
  /\ last \in [Workers -> Nat]
  /\ retryCount \in [Events -> Nat]
  /\ scheduled \subseteq Entries
  /\ due \in [Workers -> SUBSET Entries]
  /\ popped \in [Workers -> SUBSET Entries]
  /\ requeueing \in [Workers -> BOOLEAN]
  /\ dead \subseteq Entries
  /\ processed \subseteq Entries
  /\ failures \in [Events -> Nat]
  /\ faultCount \in 0 .. MaxFaults
  /\ faulted \subseteq AllFaultKinds

-----------------------------------------------------------------------------
(* Where the copies of an event are.                                        *)

Published(e) == \E i \in Entries : stream[i] = e

Unread(i) == i \in cursor + 1 .. Len(stream)

\* Deliveries of w's batch whose outcome is still open.
Open(w) ==
  IF step[w] \in {"process", "count", "schedule", "bury"} THEN first[w] .. last[w]
  ELSE IF step[w] \in {"clear", "ack"} THEN first[w] + 1 .. last[w]
  ELSE {}

\* A copy that will still be processed if nothing else goes wrong.
Live(i) ==
  \/ Unread(i)
  \/ i \in scheduled
  \/ \E w \in Workers : i \in Open(w) \union popped[w]

Settled(i) == i \in processed \union dead

\* Redis, or the memory of a scheduler, still has a trace of this copy.
Traced(i) ==
  \/ Unread(i)
  \/ i \in pending \union scheduled
  \/ \E w \in Workers : i \in popped[w]
  \/ Settled(i)

-----------------------------------------------------------------------------
(* Safety.                                                                  *)

\* A queued reference always resolves: Pipeline::publish writes raw_events
\* before it queues, whatever fails in between.
PersistedBeforeQueued == \A i \in Entries : stream[i] \in raw

\* Unless a reply is lost, an event has one copy at a time and one outcome: no
\* crash, failed call or racing scheduler makes a retry run beside its original
\* or brings back what was processed or dead-lettered.
OneCopy ==
  "reply" \notin faulted =>
    \A i, j \in Entries :
      (Live(i) \/ Settled(i)) /\ (Live(j) \/ Settled(j)) /\ stream[i] = stream[j] => i = j

\* Whatever fails, a dead letter has used up all its retries.
DeadLetterEarned == \A i \in dead : failures[stream[i]] > MaxRetries

\* A poison event is attempted MaxRetries + 1 times at most, as long as its
\* counter does not expire between two failures and no reply is lost.
AttemptsBounded ==
  faulted \intersect {"expiry", "reply"} = {} =>
    \A e \in Events : failures[e] <= MaxRetries + 1

\* Errors of the stream worker and of the gateway, and expiring counters, leave
\* every queued event traceable; only the scheduler, which removes retries
\* before it publishes them, can make one vanish.
NothingVanishes ==
  faulted \intersect {"scheduler", "crash"} = {} =>
    \A k \in Entries : \E i \in Entries : stream[i] = stream[k] /\ Traced(i)

-----------------------------------------------------------------------------
(* Liveness.                                                                *)

SettledEvent(e) == \E i \in Entries : stream[i] = e /\ Settled(i)

\* What the worker is there for: a queued event is processed or dead-lettered,
\* however the retries of several events interleave.  It holds as long as no
\* call of the worker fails and no process dies: an error of one XREADGROUP or
\* XACK ends the task that reads the stream, and main keeps the process alive.
SettledUnlessFaulted ==
  \A e \in Events :
    Published(e) ~>
      \/ SettledEvent(e)
      \/ faulted \intersect {"worker", "scheduler", "crash", "panic"} # {}

-----------------------------------------------------------------------------
(* The pipeline implements the ledger, for each event.                      *)

Among(S, e) == \E i \in S : stream[i] = e

Attempting(w, e) == step[w] = "process" /\ Current(w) = e

\* The attempt has failed, and what becomes of the event is being decided.
Deciding(w, e) == step[w] \in {"count", "schedule", "bury"} /\ Current(w) = e

\* Retries between two attempts, in Redis or in the memory of a scheduler.
Waiting == scheduled \union UNION {popped[w] : w \in Workers}

\* Deliveries to come, in the stream or in a batch.
Coming == (cursor + 1 .. Len(stream)) \union UNION {Open(w) : w \in Workers}

Status(e) ==
  IF Among(processed, e) THEN "done"
  ELSE IF Among(dead, e) THEN "dead"
  ELSE IF \E w \in Workers : Attempting(w, e) THEN "running"
  ELSE IF \E w \in Workers : Deciding(w, e) THEN "failed"
  ELSE IF Among(Waiting, e) THEN "backoff"
  ELSE IF Among(Coming, e) THEN "queued"
  ELSE IF Published(e) THEN "stranded" ELSE "unpublished"

Ledger == INSTANCE DeliveryLedger WITH
  status <- [e \in Events |-> Status(e)],
  incidents <- faultCount,
  keyLapsed <- "expiry" \in faulted,
  replyLost <- "reply" \in faulted

\* Every step of the pipeline is, for each event, a step of its ledger.
ImplementsLedger == Ledger!Spec
=============================================================================
