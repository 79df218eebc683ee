-------------------------- MODULE DeliveryPipeline --------------------------
(***************************************************************************)
(* One event stream from the gateway to the worker: raw_events in          *)
(* Postgres, the Redis stream with its consumer group, the stream worker,  *)
(* the retry counter, the sorted set of scheduled retries with its         *)
(* scheduler, and the dead-letter stream.  Streams share no Redis key, so  *)
(* one stream is modelled; what processing an event does to the analytics  *)
(* tables is the business of other modules, and is here a success or a     *)
(* failure.                                                                *)
(*                                                                         *)
(* Every Redis or Postgres call is a step of its own.  A call may fail     *)
(* without effect, or take effect and lose its reply.  A stream entry is   *)
(* named by its position, and so is the retry or the dead letter made from *)
(* it, because their payloads carry the entry's id.                        *)
(***************************************************************************)
EXTENDS Integers, Sequences, FiniteSets

CONSTANTS
  Events,      \* event ids (EventEnvelope.event_id)
  Workers,     \* worker processes; each runs a stream worker and a scheduler
  MaxRetries,  \* MAX_DELIVERY_RETRIES
  BatchSize,   \* COUNT of XREADGROUP
  RetryBatch,  \* RETRY_SCHEDULER_BATCH_SIZE
  FaultKinds,  \* the faults the environment may cause
  MaxFaults    \* bound: how many faults happen

AllFaultKinds ==
  {"gateway",    \* a Postgres or Redis call of the gateway fails
   "worker",     \* a Redis call of the stream worker fails
   "scheduler",  \* a Redis call of the retry scheduler fails
   "crash",      \* a worker process dies
   "panic",      \* a handler panics and takes the stream worker task with it
   "expiry",     \* a retry counter outlives DELIVERY_RETRY_TTL_SECONDS
   "reply"}      \* a call takes effect and its reply is lost

ASSUME ConstantsAssumption ==
  /\ IsFiniteSet(Workers)
  /\ MaxRetries \in Nat
  /\ BatchSize \in Nat \ {0}
  /\ RetryBatch \in Nat \ {0}
  /\ MaxFaults \in Nat
  /\ FaultKinds \subseteq AllFaultKinds

VARIABLES
  handler,     \* handler[e]: how far the gateway's Pipeline::publish got for e
  raw,         \* events with a row in raw_events
  stream,      \* the Redis stream: the event of each entry, oldest first
  cursor,      \* the consumer group's last delivered entry
  pending,     \* the group's pending entries list: delivered and not acked
  step,        \* step[w]: what w's stream worker does next
  first,       \* first[w]: the delivery w is working on
  last,        \* last[w]: the last delivery of w's batch
  retryCount,  \* retryCount[e]: worker:retry:<stream>:<e>, 0 when absent
  scheduled,   \* scheduled_retry.<stream>
  due,         \* due[w]: retries w's scheduler has read and not yet removed
  popped,      \* popped[w]: retries w's scheduler has removed and not published
  requeueing,  \* requeueing[w]: a publish failed and its retry goes back
  dead,        \* dead_letter.<stream>
  processed,   \* history: entries processed without error
  failures,    \* failures[e], history: attempts at e that failed
  faultCount,  \* bound
  faulted      \* history: kinds of fault that have happened

streamVars == <<stream, cursor, pending>>
taskVars == <<step, first, last>>
retryVars == <<retryCount, scheduled>>
schedulerVars == <<due, popped, requeueing>>
outcomeVars == <<dead, processed, failures>>
faultVars == <<faultCount, faulted>>
vars == <<handler, raw, streamVars, taskVars, retryVars, schedulerVars,
          outcomeVars, faultVars>>

Entries == DOMAIN stream

Steps == {"idle", "process", "count", "schedule", "bury", "clear", "ack",
          "exited", "down"}

\* Steps at which the worker holds the deliveries first[w] .. last[w].
Busy == {"process", "count", "schedule", "bury", "clear", "ack"}

\* The event of the delivery w is working on.
Current(w) == stream[first[w]]

Init ==
  /\ handler = [e \in Events |-> "received"]
  /\ raw = {}
  /\ stream = << >>
  /\ cursor = 0
  /\ pending = {}
  /\ step = [w \in Workers |-> "idle"]
  /\ first = [w \in Workers |-> 0]
  /\ last = [w \in Workers |-> 0]
  /\ retryCount = [e \in Events |-> 0]
  /\ scheduled = {}
  /\ due = [w \in Workers |-> {}]
  /\ popped = [w \in Workers |-> {}]
  /\ requeueing = [w \in Workers |-> FALSE]
  /\ dead = {}
  /\ processed = {}
  /\ failures = [e \in Events |-> 0]
  /\ faultCount = 0
  /\ faulted = {}

-----------------------------------------------------------------------------
(* Faults.  A call that fails has taken effect when `applied` is TRUE.      *)

Applied == IF "reply" \in FaultKinds THEN BOOLEAN ELSE {FALSE}

Fault(kind, applied) ==
  /\ kind \in FaultKinds
  /\ faultCount < MaxFaults
  /\ faultCount' = faultCount + 1
  /\ faulted' = faulted \union {kind} \union (IF applied THEN {"reply"} ELSE {})

-----------------------------------------------------------------------------
(* The gateway: persist the envelope, then queue a reference to the row.    *)

InsertSerialized(e) ==
  /\ handler[e] = "received"
  /\ raw' = raw \union {e}
  /\ handler' = [handler EXCEPT ![e] = "persisted"]
  /\ UNCHANGED <<streamVars, taskVars, retryVars, schedulerVars, outcomeVars, faultVars>>

\* Mutant: the error of the insert is not propagated.
InsertFailsUnnoticed(e) ==
  /\ handler[e] = "received"
  /\ handler' = [handler EXCEPT ![e] = "persisted"]
  /\ Fault("gateway", FALSE)
  /\ UNCHANGED <<raw, streamVars, taskVars, retryVars, schedulerVars, outcomeVars>>

InsertFails(e) ==
  /\ handler[e] = "received"
  /\ handler' = [handler EXCEPT ![e] = "dropped"]
  /\ \E applied \in Applied :
       /\ Fault("gateway", applied)
       /\ raw' = IF applied THEN raw \union {e} ELSE raw
  /\ UNCHANGED <<streamVars, taskVars, retryVars, schedulerVars, outcomeVars>>

PublishEvent(e) ==
  /\ handler[e] = "persisted"
  /\ stream' = Append(stream, e)
  /\ handler' = [handler EXCEPT ![e] = "published"]
  /\ UNCHANGED <<raw, cursor, pending, taskVars, retryVars, schedulerVars,
                 outcomeVars, faultVars>>

\* dispatch() logs the error and forgets the event: the row stays unqueued.
PublishEventFails(e) ==
  /\ handler[e] = "persisted"
  /\ handler' = [handler EXCEPT ![e] = "dropped"]
  /\ \E applied \in Applied :
       /\ Fault("gateway", applied)
       /\ stream' = IF applied THEN Append(stream, e) ELSE stream
  /\ UNCHANGED <<raw, cursor, pending, taskVars, retryVars, schedulerVars, outcomeVars>>

-----------------------------------------------------------------------------
(* The stream worker.                                                       *)

\* Mutant: the batch is not cut off at the end of the stream.
BatchEndUncapped == cursor + BatchSize

\* What one XREADGROUP with id ">" hands out.
BatchEnd ==
  IF cursor + BatchSize < Len(stream) THEN cursor + BatchSize ELSE Len(stream)

Deliver ==
  /\ cursor' = BatchEnd
  /\ pending' = pending \union (cursor + 1 .. BatchEnd)

\* Mutant: the loop stops one delivery early.
NextDeliveryStopsEarly(w) ==
  IF first[w] + 1 < last[w]
  THEN /\ step' = [step EXCEPT ![w] = "process"]
       /\ first' = [first EXCEPT ![w] = @ + 1]
       /\ UNCHANGED last
  ELSE /\ step' = [step EXCEPT ![w] = "idle"]
       /\ first' = [first EXCEPT ![w] = 0]
       /\ last' = [last EXCEPT ![w] = 0]

\* The loop `for delivery in deliveries` moves on, acknowledged or not.
NextDelivery(w) ==
  IF first[w] < last[w]
  THEN /\ step' = [step EXCEPT ![w] = "process"]
       /\ first' = [first EXCEPT ![w] = @ + 1]
       /\ UNCHANGED last
  ELSE /\ step' = [step EXCEPT ![w] = "idle"]
       /\ first' = [first EXCEPT ![w] = 0]
       /\ last' = [last EXCEPT ![w] = 0]

\* The task ends, or its process does: the batch is forgotten.
Abandon(w, how) ==
  /\ step' = [step EXCEPT ![w] = how]
  /\ first' = [first EXCEPT ![w] = 0]
  /\ last' = [last EXCEPT ![w] = 0]

GoTo(w, next) == step' = [step EXCEPT ![w] = next] /\ UNCHANGED <<first, last>>

Consume(w) ==
  /\ step[w] = "idle"
  /\ cursor < Len(stream)
  /\ Deliver
  /\ step' = [step EXCEPT ![w] = "process"]
  /\ first' = [first EXCEPT ![w] = cursor + 1]
  /\ last' = [last EXCEPT ![w] = BatchEnd]
  /\ UNCHANGED <<handler, raw, stream, retryVars, schedulerVars, outcomeVars, faultVars>>

\* `consume(..).await?` ends run_stream_worker; main only logs it.
ConsumeFails(w) ==
  /\ step[w] = "idle"
  /\ Abandon(w, "exited")
  /\ \E applied \in Applied :
       /\ Fault("worker", applied)
       /\ IF applied THEN Deliver ELSE UNCHANGED <<cursor, pending>>
  /\ UNCHANGED <<handler, raw, stream, retryVars, schedulerVars, outcomeVars>>

ProcessSucceeds(w) ==
  /\ step[w] = "process"
  /\ Current(w) \in raw
  /\ processed' = processed \union {first[w]}
  /\ GoTo(w, "ack")
  /\ UNCHANGED <<handler, raw, streamVars, retryVars, schedulerVars, dead,
                 failures, faultVars>>

ProcessFails(w) ==
  /\ step[w] = "process"
  /\ failures' = [failures EXCEPT ![Current(w)] = @ + 1]
  /\ GoTo(w, "count")
  /\ UNCHANGED <<handler, raw, streamVars, retryVars, schedulerVars, dead,
                 processed, faultVars>>

\* Mutant: `attempts < MAX_DELIVERY_RETRIES`.
CountFailureEarly(w) ==
  /\ step[w] = "count"
  /\ retryCount' = [retryCount EXCEPT ![Current(w)] = @ + 1]
  /\ GoTo(w, IF retryCount'[Current(w)] < MaxRetries THEN "schedule" ELSE "bury")
  /\ UNCHANGED <<handler, raw, streamVars, scheduled, schedulerVars, outcomeVars, faultVars>>

\* Mutant: the counter is compared before it is incremented.
CountFailureLate(w) ==
  /\ step[w] = "count"
  /\ retryCount' = [retryCount EXCEPT ![Current(w)] = @ + 1]
  /\ GoTo(w, IF retryCount[Current(w)] <= MaxRetries THEN "schedule" ELSE "bury")
  /\ UNCHANGED <<handler, raw, streamVars, scheduled, schedulerVars, outcomeVars, faultVars>>

\* handle_failed_delivery: INCR the retry counter, then retry or give up.
CountFailure(w) ==
  /\ step[w] = "count"
  /\ retryCount' = [retryCount EXCEPT ![Current(w)] = @ + 1]
  /\ GoTo(w, IF retryCount'[Current(w)] <= MaxRetries THEN "schedule" ELSE "bury")
  /\ UNCHANGED <<handler, raw, streamVars, scheduled, schedulerVars, outcomeVars, faultVars>>

\* An error inside handle_failed_delivery: `continue`, without an ack.  The INCR
\* is applied also when the EXPIRE behind it fails; a counter left without its TTL
\* is one that happens not to expire.
CountFailureFails(w) ==
  /\ step[w] = "count"
  /\ NextDelivery(w)
  /\ \E applied \in Applied :
       /\ Fault("worker", applied)
       /\ retryCount' = IF applied THEN [retryCount EXCEPT ![Current(w)] = @ + 1]
                                   ELSE retryCount
  /\ UNCHANGED <<handler, raw, streamVars, scheduled, schedulerVars, outcomeVars>>

ScheduleRetry(w) ==
  /\ step[w] = "schedule"
  /\ scheduled' = scheduled \union {first[w]}
  /\ GoTo(w, "ack")
  /\ UNCHANGED <<handler, raw, streamVars, retryCount, schedulerVars, outcomeVars, faultVars>>

\* Mutant: the error is swallowed and the delivery acknowledged.
ScheduleRetryFailsAcked(w) ==
  /\ step[w] = "schedule"
  /\ GoTo(w, "ack")
  /\ Fault("worker", FALSE)
  /\ UNCHANGED <<handler, raw, streamVars, retryVars, schedulerVars, outcomeVars>>

ScheduleRetryFails(w) ==
  /\ step[w] = "schedule"
  /\ NextDelivery(w)
  /\ \E applied \in Applied :
       /\ Fault("worker", applied)
       /\ scheduled' = IF applied THEN scheduled \union {first[w]} ELSE scheduled
  /\ UNCHANGED <<handler, raw, streamVars, retryCount, schedulerVars, outcomeVars>>

DeadLetter(w) ==
  /\ step[w] = "bury"
  /\ dead' = dead \union {first[w]}
  /\ GoTo(w, "clear")
  /\ UNCHANGED <<handler, raw, streamVars, retryVars, schedulerVars, processed,
                 failures, faultVars>>

DeadLetterFails(w) ==
  /\ step[w] = "bury"
  /\ NextDelivery(w)
  /\ \E applied \in Applied :
       /\ Fault("worker", applied)
       /\ dead' = IF applied THEN dead \union {first[w]} ELSE dead
  /\ UNCHANGED <<handler, raw, streamVars, retryVars, schedulerVars, processed, failures>>

ClearRetryKey(w) ==
  /\ step[w] = "clear"
  /\ retryCount' = [retryCount EXCEPT ![Current(w)] = 0]
  /\ GoTo(w, "ack")
  /\ UNCHANGED <<handler, raw, streamVars, scheduled, schedulerVars, outcomeVars, faultVars>>

ClearRetryKeyFails(w) ==
  /\ step[w] = "clear"
  /\ NextDelivery(w)
  /\ \E applied \in Applied :
       /\ Fault("worker", applied)
       /\ retryCount' = IF applied THEN [retryCount EXCEPT ![Current(w)] = 0]
                                   ELSE retryCount
  /\ UNCHANGED <<handler, raw, streamVars, scheduled, schedulerVars, outcomeVars>>

Ack(w) ==
  /\ step[w] = "ack"
  /\ pending' = pending \ {first[w]}
  /\ NextDelivery(w)
  /\ UNCHANGED <<handler, raw, stream, cursor, retryVars, schedulerVars,
                 outcomeVars, faultVars>>

\* `ack(..).await?` ends run_stream_worker with the rest of the batch pending.
AckFails(w) ==
  /\ step[w] = "ack"
  /\ Abandon(w, "exited")
  /\ \E applied \in Applied :
       /\ Fault("worker", applied)
       /\ pending' = IF applied THEN pending \ {first[w]} ELSE pending
  /\ UNCHANGED <<handler, raw, stream, cursor, retryVars, schedulerVars, outcomeVars>>

\* A panic in a handler (run_backfill_job can) unwinds the spawned task.
Panic(w) ==
  /\ step[w] = "process"
  /\ Fault("panic", FALSE)
  /\ Abandon(w, "exited")
  /\ UNCHANGED <<handler, raw, streamVars, retryVars, schedulerVars, outcomeVars>>

-----------------------------------------------------------------------------
(* The retry scheduler.  Time is abstract: any scheduled retries may be the *)
(* ones whose delay has passed, and they are taken in any order.            *)

Polling(w) == step[w] # "down" /\ due[w] = {} /\ popped[w] = {}

\* ZRANGEBYSCORE .. LIMIT 0 RetryBatch
ReadDue(w) ==
  /\ Polling(w)
  /\ \E D \in SUBSET scheduled \ {{}} :
       /\ Cardinality(D) <= RetryBatch
       /\ due' = [due EXCEPT ![w] = D]
  /\ UNCHANGED <<handler, raw, streamVars, taskVars, retryVars, popped, requeueing,
                 outcomeVars, faultVars>>

\* Mutant: the retry is taken without being removed.
RemoveDueKeeps(w, i) ==
  /\ i \in due[w]
  /\ due' = [due EXCEPT ![w] = @ \ {i}]
  /\ popped' = IF i \in scheduled THEN [popped EXCEPT ![w] = @ \union {i}] ELSE popped
  /\ UNCHANGED <<handler, raw, streamVars, taskVars, retryVars, requeueing,
                 outcomeVars, faultVars>>

\* ZREM keeps the retry only if this scheduler was the one to remove it.
RemoveDue(w, i) ==
  /\ i \in due[w]
  /\ due' = [due EXCEPT ![w] = @ \ {i}]
  /\ popped' = IF i \in scheduled THEN [popped EXCEPT ![w] = @ \union {i}] ELSE popped
  /\ scheduled' = scheduled \ {i}
  /\ UNCHANGED <<handler, raw, streamVars, taskVars, retryCount, requeueing,
                 outcomeVars, faultVars>>

\* `?` in pop_due_scheduled_messages drops the retries it has removed so far.
RemoveDueFails(w, i) ==
  /\ i \in due[w]
  /\ due' = [due EXCEPT ![w] = {}]
  /\ popped' = [popped EXCEPT ![w] = {}]
  /\ \E applied \in Applied :
       /\ Fault("scheduler", applied)
       /\ scheduled' = IF applied THEN scheduled \ {i} ELSE scheduled
  /\ UNCHANGED <<handler, raw, streamVars, taskVars, retryCount, requeueing, outcomeVars>>

RepublishDue(w, i) ==
  /\ due[w] = {}
  /\ i \in popped[w]
  /\ ~requeueing[w]
  /\ stream' = Append(stream, stream[i])
  /\ popped' = [popped EXCEPT ![w] = @ \ {i}]
  /\ UNCHANGED <<handler, raw, cursor, pending, taskVars, retryVars, due, requeueing,
                 outcomeVars, faultVars>>

\* The retry that failed is put back; the others popped with it are dropped.
RepublishDueFails(w, i) ==
  /\ due[w] = {}
  /\ i \in popped[w]
  /\ ~requeueing[w]
  /\ popped' = [popped EXCEPT ![w] = {i}]
  /\ requeueing' = [requeueing EXCEPT ![w] = TRUE]
  /\ \E applied \in Applied :
       /\ Fault("scheduler", applied)
       /\ stream' = IF applied THEN Append(stream, stream[i]) ELSE stream
  /\ UNCHANGED <<handler, raw, cursor, pending, taskVars, retryVars, due, outcomeVars>>

RequeueDue(w) ==
  /\ requeueing[w]
  /\ scheduled' = scheduled \union popped[w]
  /\ popped' = [popped EXCEPT ![w] = {}]
  /\ requeueing' = [requeueing EXCEPT ![w] = FALSE]
  /\ UNCHANGED <<handler, raw, streamVars, taskVars, retryCount, due, outcomeVars, faultVars>>

RequeueDueFails(w) ==
  /\ requeueing[w]
  /\ popped' = [popped EXCEPT ![w] = {}]
  /\ requeueing' = [requeueing EXCEPT ![w] = FALSE]
  /\ \E applied \in Applied :
       /\ Fault("scheduler", applied)
       /\ scheduled' = IF applied THEN scheduled \union popped[w] ELSE scheduled
  /\ UNCHANGED <<handler, raw, streamVars, taskVars, retryCount, due, outcomeVars>>

-----------------------------------------------------------------------------
(* Process crash and restart; expiry of the retry counter.                  *)

Crash(w) ==
  /\ step[w] # "down"
  /\ Fault("crash", FALSE)
  /\ Abandon(w, "down")
  /\ due' = [due EXCEPT ![w] = {}]
  /\ popped' = [popped EXCEPT ![w] = {}]
  /\ requeueing' = [requeueing EXCEPT ![w] = FALSE]
  /\ UNCHANGED <<handler, raw, streamVars, retryVars, outcomeVars>>

\* main finds its consumer group there (BUSYGROUP) and reads on from the cursor.
Restart(w) ==
  /\ step[w] = "down"
  /\ GoTo(w, "idle")
  /\ UNCHANGED <<handler, raw, streamVars, retryVars, schedulerVars, outcomeVars, faultVars>>

ExpireRetryKey(e) ==
  /\ retryCount[e] > 0
  /\ Fault("expiry", FALSE)
  /\ retryCount' = [retryCount EXCEPT ![e] = 0]
  /\ UNCHANGED <<handler, raw, streamVars, taskVars, scheduled, schedulerVars, outcomeVars>>

-----------------------------------------------------------------------------
Gateway(e) ==
  \/ InsertSerialized(e) \/ InsertFails(e) \/ PublishEvent(e) \/ PublishEventFails(e)

\* The stream worker's own steps, without the ways a step can fail.
Work(w) ==
  \/ Consume(w) \/ ProcessSucceeds(w) \/ ProcessFails(w) \/ CountFailure(w)
  \/ ScheduleRetry(w) \/ DeadLetter(w) \/ ClearRetryKey(w) \/ Ack(w)

WorkFails(w) ==
  \/ ConsumeFails(w) \/ CountFailureFails(w) \/ ScheduleRetryFails(w)
  \/ DeadLetterFails(w) \/ ClearRetryKeyFails(w) \/ AckFails(w) \/ Panic(w)

Retry(w) ==
  \/ ReadDue(w) \/ RequeueDue(w)
  \/ \E i \in due[w] : RemoveDue(w, i)
  \/ \E i \in popped[w] : RepublishDue(w, i)

RetryFails(w) ==
  \/ RequeueDueFails(w)
  \/ \E i \in due[w] : RemoveDueFails(w, i)
  \/ \E i \in popped[w] : RepublishDueFails(w, i)

Next ==
  \/ \E e \in Events : Gateway(e) \/ ExpireRetryKey(e)
  \/ \E w \in Workers : Work(w) \/ WorkFails(w) \/ Retry(w) \/ RetryFails(w)
                        \/ Crash(w) \/ Restart(w)

\* Tokio keeps polling both tasks of a live process, and the container is
\* restarted when its process dies.
Fairness ==
  \A w \in Workers : WF_vars(Work(w)) /\ WF_vars(Retry(w)) /\ WF_vars(Restart(w))

Spec == Init /\ [][Next]_vars

FairSpec == Spec /\ Fairness
=============================================================================
