--------------------------- MODULE DeliveryProofs ---------------------------
(***************************************************************************)
(* Proofs about DeliveryPipeline, for any number of events, workers,       *)
(* retries and faults: its types, that what is queued has been persisted,  *)
(* that dead letters have been earned and, about the copies of an event    *)
(* the pipeline makes, that there is one at a time, that its attempts are  *)
(* bounded and that its trace is kept; and that every step of the pipeline *)
(* is one the queue promises (DeliveryLedger).                             *)
(***************************************************************************)
EXTENDS DeliveryProperties, FiniteSetTheorems, TLAPS

-----------------------------------------------------------------------------
(* The batch read by one XREADGROUP ends within the stream. *)
LEMMA BatchEndInStream ==
  ASSUME TypeOK
  PROVE  /\ BatchEnd \in cursor .. Len(stream)
         /\ cursor < Len(stream) => BatchEnd \in cursor + 1 .. Len(stream)
         /\ cursor + 1 .. BatchEnd \subseteq Entries
BY ConstantsAssumption DEF TypeOK, BatchEnd, Entries

(* A batch in hand is a nonempty range of entries of the stream. *)
BatchOK ==
  \A w \in Workers : step[w] \in Busy =>
    /\ first[w] \in Entries
    /\ last[w] \in Entries
    /\ first[w] <= last[w]
    /\ last[w] <= cursor

TypeInv == TypeOK /\ BatchOK

LEMMA TypeInit == Init => TypeInv
BY ConstantsAssumption DEF Init, TypeInv, TypeOK, BatchOK, Entries, Steps, Busy

LEMMA FaultType ==
  ASSUME TypeOK, NEW kind, NEW applied \in BOOLEAN, Fault(kind, applied)
  PROVE  faultCount' \in 0 .. MaxFaults /\ faulted' \subseteq AllFaultKinds
BY ConstantsAssumption DEF Fault, TypeOK, AllFaultKinds

LEMMA AppendType ==
  ASSUME TypeOK, NEW e \in Events, stream' = Append(stream, e)
  PROVE  /\ stream' \in Seq(Events)
         /\ Len(stream') = Len(stream) + 1
         /\ Entries \subseteq Entries'
         /\ Entries' = Entries \union {Len(stream) + 1}
         /\ \A i \in Entries : stream'[i] = stream[i]
         /\ stream'[Len(stream) + 1] = e
         /\ cursor \in 0 .. Len(stream')
<1>1. stream \in Seq(Events) /\ Len(stream) \in Nat /\ cursor \in 0 .. Len(stream)
  BY DEF TypeOK
<1>2. stream' \in Seq(Events) /\ Len(stream') = Len(stream) + 1
  BY <1>1
<1>3. Entries = 1 .. Len(stream) /\ Entries' = 1 .. Len(stream')
  BY <1>1, <1>2 DEF Entries
<1>4. Entries \subseteq Entries' /\ Entries' = Entries \union {Len(stream) + 1}
  BY <1>1, <1>2, <1>3
<1>5. \A i \in Entries : stream'[i] = stream[i]
  BY <1>1, <1>3
<1>6. stream'[Len(stream) + 1] = e
  BY <1>1
<1>7. cursor \in 0 .. Len(stream')
  BY <1>1, <1>2
<1> QED BY <1>2, <1>4, <1>5, <1>6, <1>7

LEMMA GatewayType ==
  ASSUME TypeInv, NEW e \in Events, Gateway(e)
  PROVE  TypeInv'
<1> USE DEF TypeInv, TypeOK, BatchOK, streamVars, taskVars, retryVars,
            schedulerVars, outcomeVars, faultVars, Applied
<1>1. CASE InsertSerialized(e)
  BY <1>1 DEF InsertSerialized, Entries
<1>2. CASE InsertFails(e)
  BY <1>2, FaultType DEF InsertFails, Entries
<1>3. CASE PublishEvent(e)
  BY <1>3, AppendType DEF PublishEvent
<1>4. CASE PublishEventFails(e)
  <2> PICK applied \in BOOLEAN :
         /\ Fault("gateway", applied)
         /\ stream' = IF applied THEN Append(stream, e) ELSE stream
    BY <1>4 DEF PublishEventFails
  <2>1. CASE applied
    BY <1>4, <2>1, AppendType, FaultType DEF PublishEventFails
  <2>2. CASE ~applied
    BY <1>4, <2>2, FaultType DEF PublishEventFails, Entries
  <2> QED BY <2>1, <2>2
<1> QED BY <1>1, <1>2, <1>3, <1>4 DEF Gateway

(* The steps of a stream worker as they look to its own three variables. *)
TaskStep(w) ==
  \/ step[w] \in Busy /\ NextDelivery(w)
  \/ \E how \in {"exited", "down"} : Abandon(w, how)
  \/ step[w] \in Busy /\ \E next \in Busy : GoTo(w, next)
  \/ step[w] = "down" /\ GoTo(w, "idle")
  \/ UNCHANGED taskVars

TaskOK ==
  /\ step \in [Workers -> Steps]
  /\ first \in [Workers -> Nat]
  /\ last \in [Workers -> Nat]
  /\ BatchOK

(* Moving to another delivery, leaving the task or changing step keeps the *)
(* batch within the stream, as long as the stream and cursor do not shrink. *)
LEMMA TaskType ==
  ASSUME TypeInv, NEW w \in Workers, TaskStep(w),
         stream' \in Seq(Events), Entries \subseteq Entries',
         cursor' \in Nat, cursor <= cursor'
  PROVE  TaskOK'
<1>1. /\ step \in [Workers -> Steps]
      /\ first \in [Workers -> Nat]
      /\ last \in [Workers -> Nat]
  BY DEF TypeInv, TypeOK
<1>2. Entries' = 1 .. Len(stream') /\ Len(stream') \in Nat
  BY DEF Entries
<1>3. \A v \in Workers : step[v] \in Busy =>
        /\ first[v] \in Entries' /\ last[v] \in Entries'
        /\ first[v] <= last[v] /\ last[v] <= cursor'
  BY DEF TypeInv, TypeOK, BatchOK, Entries
<1>4. CASE step[w] \in Busy /\ NextDelivery(w) /\ first[w] < last[w]
  <2>1. /\ step' = [step EXCEPT ![w] = "process"]
        /\ first' = [first EXCEPT ![w] = first[w] + 1]
        /\ last' = last
    BY <1>4 DEF NextDelivery
  <2>2. first[w] + 1 \in Entries' /\ first[w] + 1 <= last[w]
    BY <1>1, <1>2, <1>3, <1>4
  <2> QED BY <1>1, <1>3, <1>4, <2>1, <2>2 DEF TaskOK, BatchOK, Steps, Busy
<1>5. CASE \E how \in {"idle", "exited", "down"} :
             /\ step' = [step EXCEPT ![w] = how]
             /\ first' = [first EXCEPT ![w] = 0]
             /\ last' = [last EXCEPT ![w] = 0]
  BY <1>1, <1>3, <1>5 DEF TaskOK, BatchOK, Steps, Busy
<1>6. CASE /\ \E next \in Busy \union {"idle"} : step' = [step EXCEPT ![w] = next]
           /\ step[w] \in Busy \/ step'[w] \notin Busy
           /\ UNCHANGED <<first, last>>
  BY <1>1, <1>3, <1>6 DEF TaskOK, BatchOK, Steps, Busy
<1>7. CASE UNCHANGED taskVars
  BY <1>1, <1>3, <1>7 DEF taskVars, TaskOK, BatchOK
<1> QED
  BY <1>1, <1>4, <1>5, <1>6, <1>7
  DEF TaskStep, NextDelivery, Abandon, GoTo, Busy

LEMMA WorkType ==
  ASSUME TypeInv, NEW w \in Workers, Work(w)
  PROVE  TypeInv'
<1> USE DEF TypeInv, streamVars, taskVars, retryVars, schedulerVars,
            outcomeVars, faultVars
<1>1. CASE Consume(w)
  <2>1. /\ BatchEnd \in cursor + 1 .. Len(stream)
        /\ cursor + 1 .. BatchEnd \subseteq Entries
    BY <1>1, BatchEndInStream DEF Consume
  <2>2. /\ step' = [step EXCEPT ![w] = "process"]
        /\ first' = [first EXCEPT ![w] = cursor + 1]
        /\ last' = [last EXCEPT ![w] = BatchEnd]
        /\ cursor' = BatchEnd
        /\ stream' = stream
    BY <1>1 DEF Consume, Deliver
  <2>3. cursor \in Nat /\ Len(stream) \in Nat /\ Entries' = 1 .. Len(stream)
        /\ step \in [Workers -> Steps] /\ first \in [Workers -> Nat]
        /\ last \in [Workers -> Nat] /\ Entries = 1 .. Len(stream)
    BY <2>2 DEF TypeOK, Entries
  <2>4. \A v \in Workers : step[v] \in Busy => last[v] <= BatchEnd
    BY <2>1, <2>3 DEF BatchOK
  <2>5. BatchOK'
    BY <2>1, <2>2, <2>3, <2>4 DEF BatchOK
  <2>6. /\ cursor' \in 0 .. Len(stream')
        /\ pending' \subseteq Entries'
    <3>1. cursor' \in 0 .. Len(stream')
      BY <2>1, <2>2, <2>3
    <3>2. pending \subseteq Entries /\ Entries' = Entries
      BY <2>3 DEF TypeOK
    <3> QED BY <1>1, <2>1, <3>1, <3>2 DEF Consume, Deliver
  <2>7. /\ step' \in [Workers -> Steps]
        /\ first' \in [Workers -> Nat]
        /\ last' \in [Workers -> Nat]
    BY <2>1, <2>2, <2>3 DEF Steps
  <2> QED BY <1>1, <2>2, <2>3, <2>5, <2>6, <2>7 DEF Consume, TypeOK
<1>a. ASSUME step[w] \in Busy PROVE first[w] \in Entries /\ Current(w) \in Events
  BY <1>a DEF BatchOK, Entries, Current, TypeOK
<1>b. ASSUME TaskStep(w), UNCHANGED <<stream, cursor>>
      PROVE  TaskOK'
  BY <1>b, TaskType DEF TypeOK, Entries
<1>2. CASE ProcessSucceeds(w)
  <2>1. TaskOK'
    BY <1>2, <1>b DEF ProcessSucceeds, TaskStep, Busy
  <2>2. processed' \subseteq Entries
    BY <1>2, <1>a DEF ProcessSucceeds, Busy, TypeOK
  <2> QED BY <1>2, <2>1, <2>2 DEF ProcessSucceeds, TaskOK, Entries, TypeOK
<1>3. CASE ProcessFails(w)
  <2>1. TaskOK'
    BY <1>3, <1>b DEF ProcessFails, TaskStep, Busy
  <2>2. failures' \in [Events -> Nat]
    BY <1>3, <1>a DEF ProcessFails, Busy, TypeOK
  <2> QED BY <1>3, <2>1, <2>2 DEF ProcessFails, TaskOK, Entries, TypeOK
<1>4. CASE CountFailure(w)
  <2>1. TaskOK'
    BY <1>4, <1>b DEF CountFailure, TaskStep, Busy
  <2>2. retryCount' \in [Events -> Nat]
    BY <1>4, <1>a DEF CountFailure, Busy, TypeOK
  <2> QED BY <1>4, <2>1, <2>2 DEF CountFailure, TaskOK, Entries, TypeOK
<1>5. CASE ScheduleRetry(w)
  <2>1. TaskOK'
    BY <1>5, <1>b DEF ScheduleRetry, TaskStep, Busy
  <2>2. scheduled' \subseteq Entries
    BY <1>5, <1>a DEF ScheduleRetry, Busy, TypeOK
  <2> QED BY <1>5, <2>1, <2>2 DEF ScheduleRetry, TaskOK, Entries, TypeOK
<1>6. CASE DeadLetter(w)
  <2>1. TaskOK'
    BY <1>6, <1>b DEF DeadLetter, TaskStep, Busy
  <2>2. dead' \subseteq Entries
    BY <1>6, <1>a DEF DeadLetter, Busy, TypeOK
  <2> QED BY <1>6, <2>1, <2>2 DEF DeadLetter, TaskOK, Entries, TypeOK
<1>7. CASE ClearRetryKey(w)
  <2>1. TaskOK'
    BY <1>7, <1>b DEF ClearRetryKey, TaskStep, Busy
  <2>2. retryCount' \in [Events -> Nat]
    BY <1>7, <1>a DEF ClearRetryKey, Busy, TypeOK
  <2> QED BY <1>7, <2>1, <2>2 DEF ClearRetryKey, TaskOK, Entries, TypeOK
<1>8. CASE Ack(w)
  <2>1. TaskOK'
    BY <1>8, <1>b DEF Ack, TaskStep, Busy
  <2> QED BY <1>8, <2>1 DEF Ack, TaskOK, Entries, TypeOK
<1> QED BY <1>1, <1>2, <1>3, <1>4, <1>5, <1>6, <1>7, <1>8 DEF Work

LEMMA WorkFailsType ==
  ASSUME TypeInv, NEW w \in Workers, WorkFails(w)
  PROVE  TypeInv'
<1> USE DEF TypeInv, streamVars, taskVars, retryVars, schedulerVars,
            outcomeVars, faultVars, Applied
<1>a. ASSUME step[w] \in Busy PROVE first[w] \in Entries /\ Current(w) \in Events
  BY <1>a DEF BatchOK, Entries, Current, TypeOK
<1>b. ASSUME TaskStep(w), UNCHANGED stream, cursor' \in Nat, cursor <= cursor'
      PROVE  TaskOK'
  BY <1>b, TaskType DEF TypeOK, Entries
<1>c. ASSUME NEW kind, NEW applied \in BOOLEAN, Fault(kind, applied)
      PROVE  faultCount' \in 0 .. MaxFaults /\ faulted' \subseteq AllFaultKinds
  BY <1>c, FaultType
<1>d. cursor \in Nat /\ cursor <= cursor
  BY DEF TypeOK
<1>1. CASE ConsumeFails(w)
  <2>1. /\ cursor' \in cursor .. Len(stream)
        /\ pending' \subseteq Entries
    BY <1>1, BatchEndInStream DEF ConsumeFails, Deliver, TypeOK, Entries
  <2>2. TaskOK'
    BY <1>1, <1>b, <1>d, <2>1 DEF ConsumeFails, TaskStep, TypeOK
  <2>3. faultCount' \in 0 .. MaxFaults /\ faulted' \subseteq AllFaultKinds
    BY <1>1, <1>c DEF ConsumeFails
  <2>4. cursor' \in 0 .. Len(stream') /\ Entries' = Entries
    BY <1>1, <1>d, <2>1 DEF ConsumeFails, Entries
  <2> QED BY <1>1, <2>1, <2>2, <2>3, <2>4 DEF ConsumeFails, TaskOK, TypeOK
<1>2. CASE CountFailureFails(w)
  <2>1. TaskOK'
    BY <1>2, <1>b, <1>d DEF CountFailureFails, TaskStep, Busy
  <2>2. retryCount' \in [Events -> Nat]
    BY <1>2, <1>a DEF CountFailureFails, Busy, TypeOK
  <2>3. faultCount' \in 0 .. MaxFaults /\ faulted' \subseteq AllFaultKinds
    BY <1>2, <1>c DEF CountFailureFails
  <2> QED BY <1>2, <2>1, <2>2, <2>3 DEF CountFailureFails, TaskOK, TypeOK, Entries
<1>3. CASE ScheduleRetryFails(w)
  <2>1. TaskOK'
    BY <1>3, <1>b, <1>d DEF ScheduleRetryFails, TaskStep, Busy
  <2>2. scheduled' \subseteq Entries
    BY <1>3, <1>a DEF ScheduleRetryFails, Busy, TypeOK
  <2>3. faultCount' \in 0 .. MaxFaults /\ faulted' \subseteq AllFaultKinds
    BY <1>3, <1>c DEF ScheduleRetryFails
  <2> QED BY <1>3, <2>1, <2>2, <2>3 DEF ScheduleRetryFails, TaskOK, TypeOK, Entries
<1>4. CASE DeadLetterFails(w)
  <2>1. TaskOK'
    BY <1>4, <1>b, <1>d DEF DeadLetterFails, TaskStep, Busy
  <2>2. dead' \subseteq Entries
    BY <1>4, <1>a DEF DeadLetterFails, Busy, TypeOK
  <2>3. faultCount' \in 0 .. MaxFaults /\ faulted' \subseteq AllFaultKinds
    BY <1>4, <1>c DEF DeadLetterFails
  <2> QED BY <1>4, <2>1, <2>2, <2>3 DEF DeadLetterFails, TaskOK, TypeOK, Entries
<1>5. CASE ClearRetryKeyFails(w)
  <2>1. TaskOK'
    BY <1>5, <1>b, <1>d DEF ClearRetryKeyFails, TaskStep, Busy
  <2>2. retryCount' \in [Events -> Nat]
    BY <1>5, <1>a DEF ClearRetryKeyFails, Busy, TypeOK
  <2>3. faultCount' \in 0 .. MaxFaults /\ faulted' \subseteq AllFaultKinds
    BY <1>5, <1>c DEF ClearRetryKeyFails
  <2> QED BY <1>5, <2>1, <2>2, <2>3 DEF ClearRetryKeyFails, TaskOK, TypeOK, Entries
<1>6. CASE AckFails(w)
  <2>1. TaskOK'
    BY <1>6, <1>b, <1>d DEF AckFails, TaskStep
  <2>2. faultCount' \in 0 .. MaxFaults /\ faulted' \subseteq AllFaultKinds
    BY <1>6, <1>c DEF AckFails
  <2> QED BY <1>6, <2>1, <2>2 DEF AckFails, TaskOK, TypeOK, Entries
<1>7. CASE Panic(w)
  <2>1. TaskOK'
    BY <1>7, <1>b, <1>d DEF Panic, TaskStep
  <2>2. faultCount' \in 0 .. MaxFaults /\ faulted' \subseteq AllFaultKinds
    BY <1>7, <1>c DEF Panic
  <2> QED BY <1>7, <2>1, <2>2 DEF Panic, TaskOK, TypeOK, Entries
<1> QED BY <1>1, <1>2, <1>3, <1>4, <1>5, <1>6, <1>7 DEF WorkFails

LEMMA RetryType ==
  ASSUME TypeInv, NEW w \in Workers, Retry(w)
  PROVE  TypeInv'
<1> USE DEF TypeInv, streamVars, taskVars, retryVars, schedulerVars,
            outcomeVars, faultVars
<1>1. CASE ReadDue(w)
  BY SMTT(30), <1>1 DEF ReadDue, TypeOK, Entries, BatchOK
<1>2. CASE RequeueDue(w)
  BY <1>2 DEF RequeueDue, TypeOK, Entries, BatchOK
<1>3. ASSUME NEW i \in due[w], RemoveDue(w, i) PROVE TypeInv'
  BY <1>3 DEF RemoveDue, TypeOK, Entries, BatchOK
<1>4. ASSUME NEW i \in popped[w], RepublishDue(w, i) PROVE TypeInv'
  <2>1. i \in Entries /\ stream[i] \in Events
    BY DEF TypeOK, Entries
  <2>2. stream' = Append(stream, stream[i])
    BY <1>4 DEF RepublishDue
  <2>3. stream' \in Seq(Events) /\ Entries \subseteq Entries' /\ cursor \in 0 .. Len(stream')
    BY <2>1, <2>2, AppendType
  <2>4. popped' \in [Workers -> SUBSET Entries']
    BY <1>4, <2>3 DEF RepublishDue, TypeOK
  <2>5. due' \in [Workers -> SUBSET Entries']
    BY <1>4, <2>3 DEF RepublishDue, TypeOK
  <2>6. BatchOK'
    BY <1>4, <2>3 DEF RepublishDue, BatchOK
  <2> QED BY <1>4, <2>3, <2>4, <2>5, <2>6 DEF RepublishDue, TypeOK
<1> QED BY <1>1, <1>2, <1>3, <1>4 DEF Retry

LEMMA RetryFailsType ==
  ASSUME TypeInv, NEW w \in Workers, RetryFails(w)
  PROVE  TypeInv'
<1> USE DEF TypeInv, streamVars, taskVars, retryVars, schedulerVars,
            outcomeVars, faultVars, Applied
<1>c. ASSUME NEW kind, NEW applied \in BOOLEAN, Fault(kind, applied)
      PROVE  faultCount' \in 0 .. MaxFaults /\ faulted' \subseteq AllFaultKinds
  BY <1>c, FaultType
<1>1. CASE RequeueDueFails(w)
  BY ZenonT(30), <1>1, <1>c DEF RequeueDueFails, TypeOK, Entries, BatchOK
<1>2. ASSUME NEW i \in due[w], RemoveDueFails(w, i) PROVE TypeInv'
  BY <1>2, <1>c DEF RemoveDueFails, TypeOK, Entries, BatchOK
<1>3. ASSUME NEW i \in popped[w], RepublishDueFails(w, i) PROVE TypeInv'
  <2>1. i \in Entries /\ stream[i] \in Events
    BY DEF TypeOK, Entries
  <2>2. stream' = Append(stream, stream[i]) \/ stream' = stream
    BY <1>3 DEF RepublishDueFails
  <2>3. stream' \in Seq(Events) /\ Entries \subseteq Entries' /\ cursor \in 0 .. Len(stream')
    BY <2>1, <2>2, AppendType DEF TypeOK, Entries
  <2>4. popped' \in [Workers -> SUBSET Entries']
    BY <1>3, <2>1, <2>3 DEF RepublishDueFails, TypeOK
  <2>5. due' \in [Workers -> SUBSET Entries']
    BY <1>3, <2>3 DEF RepublishDueFails, TypeOK
  <2>6. BatchOK'
    BY <1>3, <2>3 DEF RepublishDueFails, BatchOK
  <2>7. faultCount' \in 0 .. MaxFaults /\ faulted' \subseteq AllFaultKinds
    BY <1>3, <1>c DEF RepublishDueFails
  <2> QED BY <1>3, <2>3, <2>4, <2>5, <2>6, <2>7 DEF RepublishDueFails, TypeOK
<1> QED BY <1>1, <1>2, <1>3 DEF RetryFails

LEMMA ProcessType ==
  ASSUME TypeInv,
         \/ \E w \in Workers : Crash(w) \/ Restart(w)
         \/ \E e \in Events : ExpireRetryKey(e)
  PROVE  TypeInv'
<1> USE DEF TypeInv, streamVars, taskVars, retryVars, schedulerVars,
            outcomeVars, faultVars
<1>1. ASSUME NEW w \in Workers, Crash(w) PROVE TypeInv'
  <2>1. TaskOK'
    BY <1>1, TaskType DEF Crash, TaskStep, TypeOK, Entries
  <2> QED BY <1>1, <2>1, FaultType DEF Crash, TaskOK, TypeOK, Entries
<1>2. ASSUME NEW w \in Workers, Restart(w) PROVE TypeInv'
  <2>1. TaskOK'
    BY <1>2, TaskType DEF Restart, TaskStep, TypeOK, Entries
  <2> QED BY <1>2, <2>1 DEF Restart, TaskOK, TypeOK, Entries
<1>3. ASSUME NEW e \in Events, ExpireRetryKey(e) PROVE TypeInv'
  BY <1>3, FaultType DEF ExpireRetryKey, TypeOK, Entries, BatchOK
<1> QED BY <1>1, <1>2, <1>3

(* Type correctness, with the bounds of every worker's batch: a cursor never *)
(* passes the end of the stream, and no delivery, retry or dead letter names *)
(* an entry that was not published.                                          *)
THEOREM TypeInvariant == Spec => []TypeInv
<1>1. TypeInv /\ [Next]_vars => TypeInv'
  <2> SUFFICES ASSUME TypeInv, [Next]_vars PROVE TypeInv'
    OBVIOUS
  <2>1. ASSUME NEW e \in Events, Gateway(e) \/ ExpireRetryKey(e) PROVE TypeInv'
    BY <2>1, GatewayType, ProcessType
  <2>2. ASSUME NEW w \in Workers,
               Work(w) \/ WorkFails(w) \/ Retry(w) \/ RetryFails(w)
                 \/ Crash(w) \/ Restart(w)
        PROVE  TypeInv'
    BY <2>2, WorkType, WorkFailsType, RetryType, RetryFailsType, ProcessType
  <2>3. CASE UNCHANGED vars
    BY <2>3 DEF vars, TypeInv, TypeOK, BatchOK, Entries, streamVars, taskVars,
                retryVars, schedulerVars, outcomeVars, faultVars
  <2> QED BY <2>1, <2>2, <2>3 DEF Next
<1> QED BY <1>1, TypeInit, PTL DEF Spec

COROLLARY TypeCorrect == Spec => []TypeOK
<1>1. TypeInv => TypeOK
  BY DEF TypeInv
<1> QED BY <1>1, TypeInvariant, PTL

-----------------------------------------------------------------------------
(* What is queued has been persisted.                                       *)

PersistInv ==
  /\ PersistedBeforeQueued
  /\ \A e \in Events : handler[e] = "persisted" => e \in raw

(* The raw_events row of every queued reference exists: the gateway inserts *)
(* it first, and neither retries nor replays queue anything else.           *)
THEOREM PersistedBeforeQueuedHolds == Spec => []PersistedBeforeQueued
<1>1. Init => PersistInv
  BY DEF Init, PersistInv, PersistedBeforeQueued, Entries
<1>2. TypeInv /\ TypeInv' /\ PersistInv /\ [Next]_vars => PersistInv'
  <2> SUFFICES ASSUME TypeInv, PersistInv, [Next]_vars PROVE PersistInv'
    OBVIOUS
  <2> USE DEF streamVars, taskVars, retryVars, schedulerVars, outcomeVars, faultVars
  <2>t. /\ stream \in Seq(Events)
        /\ handler \in [Events -> {"received", "persisted", "published", "dropped"}]
        /\ \A w \in Workers : popped[w] \subseteq Entries
    BY DEF TypeInv, TypeOK
  <2>1. ASSUME UNCHANGED <<handler, raw, stream>> PROVE PersistInv'
    BY <2>1 DEF PersistInv, PersistedBeforeQueued, Entries
  <2>2. ASSUME NEW k \in Events, k \in raw, stream' = Append(stream, k),
               raw' = raw, \A e \in Events : handler'[e] = "persisted" => handler[e] = "persisted"
        PROVE  PersistInv'
    BY <2>2, <2>t DEF PersistInv, PersistedBeforeQueued, Entries
  <2>3. ASSUME NEW e \in Events, Gateway(e) PROVE PersistInv'
    <3>1. CASE InsertSerialized(e)
      BY <3>1, <2>t DEF InsertSerialized, PersistInv, PersistedBeforeQueued, Entries
    <3>2. CASE InsertFails(e)
      BY <3>2, <2>t DEF InsertFails, PersistInv, PersistedBeforeQueued, Entries
    <3>3. CASE PublishEvent(e)
      BY <3>3, <2>t, <2>2 DEF PublishEvent, PersistInv
    <3>4. CASE PublishEventFails(e)
      <4>1. CASE stream' = stream
        BY <3>4, <4>1, <2>t DEF PublishEventFails, PersistInv, PersistedBeforeQueued, Entries
      <4>2. CASE stream' = Append(stream, e)
        BY <3>4, <4>2, <2>t, <2>2 DEF PublishEventFails, PersistInv
      <4> QED BY <3>4, <4>1, <4>2 DEF PublishEventFails
    <3> QED BY <2>3, <3>1, <3>2, <3>3, <3>4 DEF Gateway
  <2>4. ASSUME NEW w \in Workers, NEW i \in popped[w],
               RepublishDue(w, i) \/ RepublishDueFails(w, i)
        PROVE  PersistInv'
    <3>1. stream[i] \in raw /\ stream[i] \in Events
      BY <2>t DEF PersistInv, PersistedBeforeQueued, Entries
    <3>2. raw' = raw /\ handler' = handler
      BY <2>4 DEF RepublishDue, RepublishDueFails
    <3>3. stream' = stream \/ stream' = Append(stream, stream[i])
      BY <2>4 DEF RepublishDue, RepublishDueFails
    <3> QED BY <3>1, <3>2, <3>3, <2>1, <2>2
  <2>5. ASSUME NEW w \in Workers, Work(w) PROVE UNCHANGED <<handler, raw, stream>>
    BY <2>5 DEF Work, Consume, ProcessSucceeds, ProcessFails, CountFailure,
       ScheduleRetry, DeadLetter, ClearRetryKey, Ack
  <2>6. ASSUME NEW w \in Workers, WorkFails(w) PROVE UNCHANGED <<handler, raw, stream>>
    BY <2>6 DEF WorkFails, ConsumeFails, CountFailureFails, ScheduleRetryFails,
       DeadLetterFails, ClearRetryKeyFails, AckFails, Panic
  <2>7. ASSUME NEW w \in Workers, Retry(w) \/ RetryFails(w) PROVE PersistInv'
    <3>1. CASE \E i \in popped[w] : RepublishDue(w, i) \/ RepublishDueFails(w, i)
      BY <3>1, <2>4
    <3>2. CASE ~\E i \in popped[w] : RepublishDue(w, i) \/ RepublishDueFails(w, i)
      <4>1. UNCHANGED <<handler, raw, stream>>
        BY <2>7, <3>2 DEF Retry, RetryFails, ReadDue, RequeueDue, RequeueDueFails,
           RemoveDue, RemoveDueFails
      <4> QED BY <4>1, <2>1
    <3> QED BY <3>1, <3>2
  <2>8. ASSUME NEW w \in Workers, Crash(w) \/ Restart(w) PROVE UNCHANGED <<handler, raw, stream>>
    BY <2>8 DEF Crash, Restart
  <2>9. ASSUME NEW e \in Events, ExpireRetryKey(e) PROVE UNCHANGED <<handler, raw, stream>>
    BY <2>9 DEF ExpireRetryKey
  <2>10. CASE UNCHANGED vars
    BY <2>10, <2>1 DEF vars
  <2> QED BY <2>1, <2>3, <2>5, <2>6, <2>7, <2>8, <2>9, <2>10 DEF Next
<1>3. PersistInv => PersistedBeforeQueued
  BY DEF PersistInv
<1> QED BY <1>1, <1>2, <1>3, TypeInvariant, PTL DEF Spec

-----------------------------------------------------------------------------
(* What no step does: rewrite the stream.                                   *)

LEMMA StreamAppends ==
  ASSUME TypeInv, [Next]_vars
  PROVE  stream' = stream \/ \E e \in Events : stream' = Append(stream, e)
<1> USE DEF streamVars
<1>1. ASSUME NEW e \in Events, Gateway(e) \/ ExpireRetryKey(e)
      PROVE  stream' = stream \/ stream' = Append(stream, e)
  BY <1>1 DEF Gateway, InsertSerialized, InsertFails, PublishEvent, PublishEventFails,
     ExpireRetryKey
<1>2. ASSUME NEW w \in Workers, Work(w) \/ WorkFails(w) \/ Crash(w) \/ Restart(w)
      PROVE  stream' = stream
  BY <1>2 DEF Work, Consume, ProcessSucceeds, ProcessFails, CountFailure, ScheduleRetry,
     DeadLetter, ClearRetryKey, Ack, WorkFails, ConsumeFails, CountFailureFails,
     ScheduleRetryFails, DeadLetterFails, ClearRetryKeyFails, AckFails, Panic, Crash, Restart
<1>3. ASSUME NEW w \in Workers, Retry(w) \/ RetryFails(w)
      PROVE  stream' = stream \/ \E i \in popped[w] : stream' = Append(stream, stream[i])
  BY <1>3 DEF Retry, RetryFails, ReadDue, RequeueDue, RequeueDueFails, RemoveDue,
     RemoveDueFails, RepublishDue, RepublishDueFails
<1>4. \A w \in Workers : \A i \in popped[w] : stream[i] \in Events
  BY DEF TypeInv, TypeOK, Entries
<1>5. CASE UNCHANGED vars
  BY <1>5 DEF vars
<1> QED BY <1>1, <1>2, <1>3, <1>4, <1>5 DEF Next

LEMMA StreamGrows ==
  ASSUME TypeInv, [Next]_vars
  PROVE  /\ Entries \subseteq Entries'
         /\ \A i \in Entries : stream'[i] = stream[i]
BY StreamAppends, AppendType DEF TypeInv, Entries

-----------------------------------------------------------------------------
(* A dead letter has used up its retries.  The counter in Redis never runs  *)
(* ahead of the failures: each failure a worker has seen and not counted    *)
(* yet is one the counter still lacks.                                      *)

Counting(e) == {w \in Workers : step[w] = "count" /\ Current(w) = e}

EarnInv ==
  /\ \A e \in Events : retryCount[e] + Cardinality(Counting(e)) <= failures[e]
  /\ \A w \in Workers : step[w] = "bury" => failures[Current(w)] > MaxRetries
  /\ DeadLetterEarned

LEMMA CurrentType ==
  ASSUME TypeInv, NEW w \in Workers, step[w] \in Busy
  PROVE  first[w] \in Entries /\ Current(w) \in Events
BY DEF TypeInv, TypeOK, BatchOK, Entries, Current

LEMMA CountingFinite ==
  \A e : IsFiniteSet(Counting(e)) /\ Cardinality(Counting(e)) \in Nat
BY ConstantsAssumption, FS_Subset, FS_CardinalityType DEF Counting

(* Steps that fail no delivery and bury none. *)
LEMMA EarnQuiet ==
  ASSUME TypeInv, TypeInv', EarnInv,
         Entries \subseteq Entries', \A i \in Entries : stream'[i] = stream[i],
         failures' = failures, dead' = dead,
         \A e \in Events : retryCount'[e] <= retryCount[e],
         \A v \in Workers : step'[v] \in {"count", "bury"} =>
            step[v] = step'[v] /\ first'[v] = first[v]
  PROVE  EarnInv'
<1>1. \A v \in Workers : step'[v] \in {"count", "bury"} => Current(v)' = Current(v)
  BY DEF TypeInv, BatchOK, Busy, Current
<1>2. ASSUME NEW e \in Events
      PROVE  retryCount'[e] + Cardinality(Counting(e)') <= failures'[e]
  <2>1. Counting(e)' \subseteq Counting(e)
    BY <1>1 DEF Counting
  <2>2. /\ Cardinality(Counting(e)') <= Cardinality(Counting(e))
        /\ Cardinality(Counting(e)) \in Nat
        /\ Cardinality(Counting(e)') \in Nat
    BY <2>1, CountingFinite, FS_Subset, FS_CardinalityType
  <2>3. /\ retryCount[e] + Cardinality(Counting(e)) <= failures[e]
        /\ retryCount[e] \in Nat /\ retryCount'[e] \in Nat /\ failures[e] \in Nat
    BY DEF EarnInv, TypeInv, TypeOK
  <2> QED BY <2>2, <2>3
<1>3. \A v \in Workers : step'[v] = "bury" => failures'[Current(v)'] > MaxRetries
  BY <1>1 DEF EarnInv
<1>4. DeadLetterEarned'
  BY DEF EarnInv, DeadLetterEarned, TypeInv, TypeOK
<1> QED BY <1>2, <1>3, <1>4 DEF EarnInv

(* One worker moves to or from the step that counts a failure of c. *)
LEMMA CountingMoves ==
  ASSUME NEW w \in Workers, NEW c, Current(w) = c, stream' = stream,
         step'[w] # "count" \/ first'[w] = first[w],
         \A v \in Workers \ {w} : step'[v] = step[v] /\ first'[v] = first[v]
  PROVE  /\ \A e \in Events \ {c} :
              Cardinality(Counting(e)') = Cardinality(Counting(e))
         /\ step[w] = "count" /\ step'[w] # "count" =>
              Cardinality(Counting(c)') = Cardinality(Counting(c)) - 1
         /\ step[w] # "count" /\ step'[w] = "count" =>
              Cardinality(Counting(c)') = Cardinality(Counting(c)) + 1
<1>1. ASSUME NEW e \in Events \ {c}
      PROVE  Cardinality(Counting(e)') = Cardinality(Counting(e))
  <2>1. Counting(e)' = Counting(e)
    BY DEF Counting, Current
  <2> QED BY <2>1
<1>2. ASSUME step[w] = "count", step'[w] # "count"
      PROVE  Cardinality(Counting(c)') = Cardinality(Counting(c)) - 1
  <2>1. Counting(c)' = Counting(c) \ {w} /\ w \in Counting(c)
    BY <1>2 DEF Counting, Current
  <2> QED BY <2>1, CountingFinite, FS_RemoveElement
<1>3. ASSUME step[w] # "count", step'[w] = "count"
      PROVE  Cardinality(Counting(c)') = Cardinality(Counting(c)) + 1
  <2>1. Counting(c)' = Counting(c) \union {w} /\ w \notin Counting(c)
    BY <1>3 DEF Counting, Current
  <2> QED BY <2>1, CountingFinite, FS_AddElement
<1> QED BY <1>1, <1>2, <1>3

(* What a step on a failed delivery must respect to keep the invariant. *)
LEMMA EarnStep ==
  ASSUME TypeInv, TypeInv', EarnInv, NEW w \in Workers,
         stream' = stream,
         \A v \in Workers \ {w} : step'[v] = step[v] /\ first'[v] = first[v],
         \A e \in Events : failures'[e] >= failures[e],
         \A e \in Events : retryCount'[e] + Cardinality(Counting(e)') <= failures'[e],
         \A i \in dead' : i \in dead \/ failures[stream[i]] > MaxRetries,
         step'[w] = "bury" => failures'[Current(w)'] > MaxRetries
  PROVE  EarnInv'
<1>1. \A e \in Events : failures[e] \in Nat /\ failures'[e] \in Nat
  BY DEF TypeInv, TypeOK
<1>2. \A i \in dead' : stream[i] \in Events
  BY DEF TypeInv, TypeOK, Entries
<1>3. DeadLetterEarned'
  BY <1>1, <1>2, ConstantsAssumption DEF EarnInv, DeadLetterEarned
<1>4. ASSUME NEW v \in Workers \ {w}, step'[v] = "bury"
      PROVE  failures'[Current(v)'] > MaxRetries
  <2>1. Current(v)' = Current(v) /\ step[v] = "bury"
    BY <1>4 DEF Current
  <2>2. Current(v) \in Events
    BY <2>1 DEF TypeInv, TypeOK, BatchOK, Busy, Entries, Current
  <2> QED BY <1>1, <2>1, <2>2, ConstantsAssumption DEF EarnInv
<1> QED BY <1>3, <1>4 DEF EarnInv

(* The numbers the invariant adds up. *)
LEMMA EarnNumbers ==
  ASSUME TypeInv, EarnInv, NEW e \in Events
  PROVE  /\ retryCount[e] \in Nat
         /\ failures[e] \in Nat
         /\ Cardinality(Counting(e)) \in Nat
         /\ retryCount[e] + Cardinality(Counting(e)) <= failures[e]
BY CountingFinite DEF TypeInv, TypeOK, EarnInv

LEMMA EarnProcessFails ==
  ASSUME TypeInv, TypeInv', EarnInv, NEW w \in Workers, ProcessFails(w)
  PROVE  EarnInv'
<1>1. PICK c \in Events : c = Current(w)
  BY CurrentType DEF ProcessFails, Busy
<1>2. /\ step[w] = "process" /\ step' = [step EXCEPT ![w] = "count"]
      /\ first' = first /\ stream' = stream /\ dead' = dead
      /\ failures' = [failures EXCEPT ![c] = @ + 1]
      /\ retryCount' = retryCount
  BY <1>1 DEF ProcessFails, GoTo, streamVars, retryVars
<1>3. /\ step'[w] = "count" /\ failures'[c] = failures[c] + 1
      /\ \A e \in Events \ {c} : failures'[e] = failures[e]
      /\ \A v \in Workers \ {w} : step'[v] = step[v] /\ first'[v] = first[v]
  BY <1>1, <1>2 DEF TypeInv, TypeOK
<1>4. /\ Cardinality(Counting(c)') = Cardinality(Counting(c)) + 1
      /\ \A e \in Events \ {c} : Cardinality(Counting(e)') = Cardinality(Counting(e))
  BY <1>1, <1>2, <1>3, CountingMoves
<1>5. \A e \in Events : retryCount'[e] + Cardinality(Counting(e)') <= failures'[e]
  BY <1>1, <1>2, <1>3, <1>4, EarnNumbers
<1>6. \A e \in Events : failures'[e] >= failures[e]
  BY <1>1, <1>3, EarnNumbers
<1> QED BY <1>2, <1>3, <1>5, <1>6, EarnStep

LEMMA EarnCountFailure ==
  ASSUME TypeInv, TypeInv', EarnInv, NEW w \in Workers, CountFailure(w)
  PROVE  EarnInv'
<1>1. PICK c \in Events : c = Current(w)
  BY CurrentType DEF CountFailure, Busy
<1>2. /\ step[w] = "count"
      /\ first' = first /\ stream' = stream /\ dead' = dead /\ failures' = failures
      /\ retryCount' = [retryCount EXCEPT ![c] = @ + 1]
      /\ step' = [step EXCEPT ![w] = IF retryCount'[c] <= MaxRetries THEN "schedule" ELSE "bury"]
  BY <1>1 DEF CountFailure, GoTo, streamVars, outcomeVars
<1>3. /\ step'[w] \in {"schedule", "bury"} /\ retryCount'[c] = retryCount[c] + 1
      /\ step'[w] = "bury" => ~(retryCount'[c] <= MaxRetries)
      /\ \A e \in Events \ {c} : retryCount'[e] = retryCount[e]
      /\ \A v \in Workers \ {w} : step'[v] = step[v] /\ first'[v] = first[v]
  BY <1>1, <1>2 DEF TypeInv, TypeOK
<1>4. /\ Cardinality(Counting(c)') = Cardinality(Counting(c)) - 1
      /\ \A e \in Events \ {c} : Cardinality(Counting(e)') = Cardinality(Counting(e))
  BY <1>1, <1>2, <1>3, CountingMoves
<1>5. \A e \in Events : retryCount'[e] + Cardinality(Counting(e)') <= failures'[e]
  BY <1>1, <1>2, <1>3, <1>4, EarnNumbers
<1>6. step'[w] = "bury" => failures'[Current(w)'] > MaxRetries
  <2>1. Current(w)' = c
    BY <1>1, <1>2 DEF Current
  <2>2. Cardinality(Counting(c)') \in Nat
    BY <1>3, <1>2, CountingFinite, FS_Subset, FS_CardinalityType, ConstantsAssumption DEF Counting
  <2> QED BY <1>1, <1>2, <1>3, <1>5, <2>1, <2>2, EarnNumbers, ConstantsAssumption
<1>7. \A e \in Events : failures'[e] >= failures[e]
  BY <1>2, EarnNumbers
<1> QED BY <1>2, <1>3, <1>5, <1>6, <1>7, EarnStep

LEMMA EarnCountFailureFails ==
  ASSUME TypeInv, TypeInv', EarnInv, NEW w \in Workers, CountFailureFails(w)
  PROVE  EarnInv'
<1>1. PICK c \in Events : c = Current(w)
  BY CurrentType DEF CountFailureFails, Busy
<1>2. /\ step[w] = "count" /\ NextDelivery(w)
      /\ stream' = stream /\ dead' = dead /\ failures' = failures
      /\ retryCount' = retryCount \/ retryCount' = [retryCount EXCEPT ![c] = @ + 1]
  BY <1>1 DEF CountFailureFails, streamVars, outcomeVars
<1>3. /\ step'[w] \in {"process", "idle"}
      /\ retryCount'[c] \in {retryCount[c], retryCount[c] + 1}
      /\ \A e \in Events \ {c} : retryCount'[e] = retryCount[e]
      /\ \A v \in Workers \ {w} : step'[v] = step[v] /\ first'[v] = first[v]
  BY <1>1, <1>2 DEF NextDelivery, TypeInv, TypeOK
<1>4. /\ Cardinality(Counting(c)') = Cardinality(Counting(c)) - 1
      /\ \A e \in Events \ {c} : Cardinality(Counting(e)') = Cardinality(Counting(e))
  BY <1>1, <1>2, <1>3, CountingMoves
<1>5. \A e \in Events : retryCount'[e] + Cardinality(Counting(e)') <= failures'[e]
  BY <1>1, <1>2, <1>3, <1>4, EarnNumbers
<1>7. \A e \in Events : failures'[e] >= failures[e]
  BY <1>2, EarnNumbers
<1> QED BY <1>2, <1>3, <1>5, <1>7, EarnStep

LEMMA EarnDeadLetter ==
  ASSUME TypeInv, TypeInv', EarnInv, NEW w \in Workers,
         DeadLetter(w) \/ DeadLetterFails(w)
  PROVE  EarnInv'
<1>1. /\ step[w] = "bury" /\ step'[w] \in {"clear", "process", "idle"}
      /\ stream' = stream /\ failures' = failures /\ retryCount' = retryCount
      /\ dead' \subseteq dead \union {first[w]}
      /\ \A v \in Workers \ {w} : step'[v] = step[v] /\ first'[v] = first[v]
  BY DEF DeadLetter, DeadLetterFails, NextDelivery, GoTo, TypeInv, TypeOK, streamVars, retryVars
<1>2. failures[stream[first[w]]] > MaxRetries
  BY <1>1 DEF EarnInv, Current
<1>3. PICK c \in Events : c = Current(w)
  BY <1>1, CurrentType DEF Busy
<1>4. \A e \in Events : retryCount'[e] + Cardinality(Counting(e)') <= failures'[e]
  <2>1. \A e \in Events : Counting(e)' = Counting(e)
    BY <1>1 DEF Counting, Current
  <2> QED BY <1>1, <2>1, EarnNumbers
<1>5. \A e \in Events : failures'[e] >= failures[e]
  BY <1>1, EarnNumbers
<1> QED BY <1>1, <1>2, <1>4, <1>5, EarnStep

(* A step that fails no delivery, buries none and counts none. *)
Quiet ==
  /\ UNCHANGED <<failures, dead>>
  /\ \A e \in Events : retryCount'[e] <= retryCount[e]
  /\ \A v \in Workers : step'[v] \in {"count", "bury"} =>
       step[v] = step'[v] /\ first'[v] = first[v]

LEMMA CountersStay ==
  ASSUME TypeInv, retryCount' = retryCount
  PROVE  \A e \in Events : retryCount'[e] <= retryCount[e]
BY DEF TypeInv, TypeOK

LEMMA WorkQuiet ==
  ASSUME TypeInv, NEW w \in Workers,
         Consume(w) \/ ProcessSucceeds(w) \/ ScheduleRetry(w) \/ ClearRetryKey(w) \/ Ack(w)
  PROVE  Quiet
<1> USE DEF outcomeVars, retryVars
<1>t. step \in [Workers -> Steps] /\ first \in [Workers -> Nat] /\ retryCount \in [Events -> Nat]
  BY DEF TypeInv, TypeOK
<1>1. UNCHANGED <<failures, dead>>
  BY DEF Consume, ProcessSucceeds, ScheduleRetry, ClearRetryKey, Ack
<1>2. \A e \in Events : retryCount'[e] <= retryCount[e]
  <2>1. CASE ClearRetryKey(w)
    <3>1. retryCount' = [retryCount EXCEPT ![Current(w)] = 0]
      BY <2>1 DEF ClearRetryKey
    <3> QED BY <3>1, <1>t
  <2>2. CASE ~ClearRetryKey(w)
    <3>1. retryCount' = retryCount
      BY <2>2 DEF Consume, ProcessSucceeds, ScheduleRetry, Ack
    <3> QED BY <3>1, CountersStay
  <2> QED BY <2>1, <2>2
<1>3. /\ step'[w] \notin {"count", "bury"}
      /\ \A v \in Workers \ {w} : step'[v] = step[v] /\ first'[v] = first[v]
  BY <1>t DEF Consume, ProcessSucceeds, ScheduleRetry, ClearRetryKey, Ack, GoTo, NextDelivery
<1> QED BY <1>1, <1>2, <1>3 DEF Quiet

LEMMA WorkFailsQuiet ==
  ASSUME TypeInv, NEW w \in Workers,
         \/ ConsumeFails(w) \/ ScheduleRetryFails(w) \/ ClearRetryKeyFails(w)
         \/ AckFails(w) \/ Panic(w) \/ Crash(w) \/ Restart(w)
  PROVE  Quiet
<1> USE DEF outcomeVars, retryVars
<1>t. step \in [Workers -> Steps] /\ first \in [Workers -> Nat] /\ retryCount \in [Events -> Nat]
  BY DEF TypeInv, TypeOK
<1>1. UNCHANGED <<failures, dead>>
  BY DEF ConsumeFails, ScheduleRetryFails, ClearRetryKeyFails, AckFails, Panic, Crash, Restart
<1>2. \A e \in Events : retryCount'[e] <= retryCount[e]
  <2>1. CASE retryCount' = retryCount
    BY <2>1, CountersStay
  <2>2. CASE retryCount' # retryCount
    <3>1. retryCount' = [retryCount EXCEPT ![Current(w)] = 0]
      BY <2>2 DEF ConsumeFails, ScheduleRetryFails, ClearRetryKeyFails, AckFails, Panic, Crash,
         Restart
    <3> QED BY <3>1, <1>t
  <2> QED BY <2>1, <2>2
<1>3. /\ step'[w] \notin {"count", "bury"}
      /\ \A v \in Workers \ {w} : step'[v] = step[v] /\ first'[v] = first[v]
  BY <1>t DEF ConsumeFails, ScheduleRetryFails, ClearRetryKeyFails, AckFails, Panic, Crash,
     Restart, GoTo, NextDelivery, Abandon
<1> QED BY <1>1, <1>2, <1>3 DEF Quiet

LEMMA OthersQuiet ==
  ASSUME TypeInv,
         \/ \E e \in Events : Gateway(e) \/ ExpireRetryKey(e)
         \/ \E w \in Workers : Retry(w) \/ RetryFails(w)
         \/ UNCHANGED vars
  PROVE  Quiet
<1> USE DEF taskVars, outcomeVars, retryVars
<1>1. ASSUME UNCHANGED <<step, first, retryCount, failures, dead>> PROVE Quiet
  BY <1>1, CountersStay DEF Quiet
<1>2. ASSUME NEW e \in Events, Gateway(e) PROVE Quiet
  BY <1>1, <1>2 DEF Gateway, InsertSerialized, InsertFails, PublishEvent, PublishEventFails
<1>3. ASSUME NEW e \in Events, ExpireRetryKey(e) PROVE Quiet
  <2>1. retryCount' = [retryCount EXCEPT ![e] = 0] /\ UNCHANGED <<taskVars, outcomeVars>>
    BY <1>3 DEF ExpireRetryKey
  <2>2. \A c \in Events : retryCount'[c] <= retryCount[c]
    BY <2>1 DEF TypeInv, TypeOK
  <2> QED BY <2>1, <2>2 DEF Quiet
<1>4. ASSUME NEW w \in Workers, Retry(w) PROVE Quiet
  BY <1>1, <1>4 DEF Retry, ReadDue, RequeueDue, RemoveDue, RepublishDue
<1>5. ASSUME NEW w \in Workers, RetryFails(w) PROVE Quiet
  BY <1>1, <1>5 DEF RetryFails, RequeueDueFails, RemoveDueFails, RepublishDueFails
<1>6. CASE UNCHANGED vars
  BY <1>1, <1>6 DEF vars
<1> QED BY <1>2, <1>3, <1>4, <1>5, <1>6

LEMMA EarnInit == Init => EarnInv
<1> SUFFICES ASSUME Init PROVE EarnInv
  OBVIOUS
<1>1. \A e : Cardinality(Counting(e)) = 0
  <2>1. \A e : Counting(e) = {}
    BY DEF Init, Counting
  <2> QED BY <2>1, FS_EmptySet
<1>2. \A e \in Events : retryCount[e] = 0 /\ failures[e] = 0
  BY DEF Init
<1>3. (\A w \in Workers : step[w] # "bury") /\ dead = {}
  BY DEF Init
<1> QED BY <1>1, <1>2, <1>3 DEF EarnInv, DeadLetterEarned

LEMMA EarnKept ==
  ASSUME TypeInv, TypeInv', EarnInv, [Next]_vars
  PROVE  EarnInv'
<1>q. CASE Quiet
  <2>1. /\ Entries \subseteq Entries'
        /\ \A i \in Entries : stream'[i] = stream[i]
    BY StreamGrows
  <2> QED BY <1>q, <2>1, EarnQuiet DEF Quiet
<1>1. ASSUME NEW w \in Workers, Work(w) PROVE EarnInv'
  BY <1>1, <1>q, WorkQuiet, EarnProcessFails, EarnCountFailure, EarnDeadLetter DEF Work
<1>2. ASSUME NEW w \in Workers, WorkFails(w) PROVE EarnInv'
  BY <1>2, <1>q, WorkFailsQuiet, EarnCountFailureFails, EarnDeadLetter DEF WorkFails
<1>3. ASSUME NEW w \in Workers, Crash(w) \/ Restart(w) PROVE EarnInv'
  BY <1>3, <1>q, WorkFailsQuiet
<1> QED BY <1>1, <1>2, <1>3, <1>q, OthersQuiet DEF Next

(* Whatever fails, loses its reply, crashes or expires, no event reaches the *)
(* dead-letter stream before MaxRetries + 1 attempts at it have failed.      *)
THEOREM DeadLetterEarnedHolds == Spec => []DeadLetterEarned
<1>1. EarnInv => DeadLetterEarned
  BY DEF EarnInv
<1> QED BY <1>1, EarnInit, EarnKept, TypeInvariant, PTL DEF Spec

-----------------------------------------------------------------------------
(* A token of an event is a copy and the place it is at.  Places belong to  *)
(* a worker or to nobody.                                                   *)

Kinds == {"unread", "scheduled", "settled", "open", "popped"}
Holders == Workers \union {"nobody"}

At(i, k, w) ==
  \/ k = "unread" /\ w = "nobody" /\ Unread(i)
  \/ k = "scheduled" /\ w = "nobody" /\ i \in scheduled
  \/ k = "settled" /\ w = "nobody" /\ Settled(i)
  \/ k = "open" /\ w \in Workers /\ i \in Open(w)
  \/ k = "popped" /\ w \in Workers /\ i \in popped[w]

\* An event has one token at most.
OneToken ==
  \A i, j \in Entries : \A k, l \in Kinds : \A v, w \in Holders :
    At(i, k, v) /\ At(j, l, w) /\ stream[i] = stream[j] => i = j /\ k = l /\ v = w

AllPublished == \A i \in Entries : handler[stream[i]] = "published"

OneInv == "reply" \notin faulted => OneToken /\ AllPublished

\* Deliveries of w's batch that w, or a retry that w schedules, will attempt.
Again(w) ==
  IF step[w] \in {"process", "schedule"} THEN first[w] .. last[w]
  ELSE IF step[w] \in Busy THEN first[w] + 1 .. last[w]
  ELSE {}

\* Copies of which another attempt may come.
Ready(i) ==
  \/ Unread(i)
  \/ i \in scheduled
  \/ \E w \in Workers : i \in popped[w] \union Again(w)

\* The retry counter tells the failures of every copy still to be attempted.
Counted ==
  /\ \A e \in Events : failures[e] <= MaxRetries + 1
  /\ \A i \in Entries : Ready(i) =>
       failures[stream[i]] = retryCount[stream[i]] /\ retryCount[stream[i]] <= MaxRetries
  /\ \A w \in Workers : step[w] = "count" =>
       /\ failures[Current(w)] = retryCount[Current(w)] + 1
       /\ retryCount[Current(w)] <= MaxRetries
  /\ \A w \in Workers : step[w] = "clear" => first[w] \in dead
  /\ \A e \in Events : handler[e] # "published" => failures[e] = 0 /\ retryCount[e] = 0

AttemptsInv == faulted \intersect {"expiry", "reply"} = {} => Counted

Batch(w) == IF step[w] \in Busy THEN first[w] .. last[w] ELSE {}

Succeeded(k) == \E j \in Entries : j > k /\ stream[j] = stream[k]

Kept(i) ==
  \/ i \in scheduled \/ Settled(i) \/ Succeeded(i)
  \/ \E w \in Workers : i \in popped[w]

Disjoint == \A v, w \in Workers : v # w => Batch(v) \intersect Batch(w) = {}

\* Every event has a last entry in the stream.
LastEntries ==
  \A k \in Entries : \E i \in Entries :
    stream[i] = stream[k] /\ \A j \in Entries : stream[j] = stream[k] => j <= i

\* A delivery a worker has still to finish is pending, a finished one is kept.
Accounted(w) ==
  step[w] \in Busy =>
    /\ \A i \in Batch(w) : i # first[w] => i \in pending
    /\ IF step[w] \in {"clear", "ack"} THEN Kept(first[w]) ELSE first[w] \in pending

Remembered ==
  /\ \A k \in Entries : Unread(k) \/ k \in pending \/ Kept(k)
  /\ \A w \in Workers : Accounted(w)

TraceInv ==
  /\ Disjoint
  /\ LastEntries
  /\ faulted \intersect {"scheduler", "crash"} = {} => Remembered

-----------------------------------------------------------------------------
(* What the steps of a worker do to its open deliveries.                    *)

Held == {"process", "count", "schedule", "bury"}

OthersOpen(w) == \A v \in Workers \ {w} : Open(v)' = Open(v)

LEMMA FirstOpen ==
  ASSUME TypeInv, NEW w \in Workers, step[w] \in Held
  PROVE  first[w] \in Open(w) /\ first[w] \in Entries
BY DEF TypeInv, TypeOK, BatchOK, Busy, Held, Entries, Open

LEMMA OpenEntries ==
  ASSUME TypeInv, NEW w \in Workers
  PROVE  Open(w) \subseteq Entries /\ \A i \in Open(w) : i <= cursor
BY SMTT(30) DEF TypeInv, TypeOK, BatchOK, Busy, Entries, Open

LEMMA OpenNext ==
  ASSUME TypeInv, NEW w \in Workers, step[w] \in Busy, NextDelivery(w)
  PROVE  Open(w)' = Open(w) \ {first[w]} /\ OthersOpen(w)
<1>1. /\ step \in [Workers -> Steps] /\ first \in [Workers -> Nat] /\ last \in [Workers -> Nat]
      /\ first[w] <= last[w]
  BY DEF TypeInv, TypeOK, BatchOK
<1>2. CASE first[w] < last[w]
  <2>1. step'[w] = "process" /\ first'[w] = first[w] + 1 /\ last'[w] = last[w]
    BY <1>1, <1>2 DEF NextDelivery
  <2>2. \A v \in Workers \ {w} : step'[v] = step[v] /\ first'[v] = first[v] /\ last'[v] = last[v]
    BY <1>1, <1>2 DEF NextDelivery
  <2> QED BY <1>1, <2>1, <2>2 DEF Open, OthersOpen, Busy
<1>3. CASE ~(first[w] < last[w])
  <2>1. step'[w] = "idle"
    BY <1>1, <1>3 DEF NextDelivery
  <2>2. \A v \in Workers \ {w} : step'[v] = step[v] /\ first'[v] = first[v] /\ last'[v] = last[v]
    BY <1>1, <1>3 DEF NextDelivery
  <2> QED BY <1>1, <1>3, <2>1, <2>2 DEF Open, OthersOpen, Busy
<1> QED BY <1>2, <1>3

LEMMA OpenGoTo ==
  ASSUME TypeInv, NEW w \in Workers, NEW next, GoTo(w, next)
  PROVE  /\ OthersOpen(w)
         /\ step'[w] = next /\ first'[w] = first[w]
         /\ step[w] \in Held /\ next \in Held => Open(w)' = Open(w)
         /\ step[w] = "clear" /\ next = "ack" => Open(w)' = Open(w)
         /\ step[w] = "down" /\ next = "idle" => Open(w)' = Open(w)
         /\ step[w] \in Held /\ next \in {"clear", "ack"} => Open(w)' = Open(w) \ {first[w]}
<1>1. /\ step \in [Workers -> Steps] /\ first \in [Workers -> Nat] /\ last \in [Workers -> Nat]
      /\ step[w] \in Held => first[w] <= last[w]
  BY DEF TypeInv, TypeOK, BatchOK, Busy, Held
<1>2. /\ step'[w] = next /\ first' = first /\ last' = last
      /\ \A v \in Workers \ {w} : step'[v] = step[v]
  BY <1>1 DEF GoTo
<1> QED BY <1>1, <1>2 DEF Open, OthersOpen, Held

LEMMA OpenAbandon ==
  ASSUME TypeInv, NEW w \in Workers, NEW how \in {"exited", "down"}, Abandon(w, how)
  PROVE  Open(w)' = {} /\ OthersOpen(w)
<1>1. /\ step \in [Workers -> Steps] /\ first \in [Workers -> Nat] /\ last \in [Workers -> Nat]
  BY DEF TypeInv, TypeOK
<1>2. /\ step'[w] = how
      /\ \A v \in Workers \ {w} : step'[v] = step[v] /\ first'[v] = first[v] /\ last'[v] = last[v]
  BY <1>1 DEF Abandon
<1> QED BY <1>2 DEF Open, OthersOpen

LEMMA OpenSame ==
  ASSUME UNCHANGED taskVars
  PROVE  \A v \in Workers : Open(v)' = Open(v)
BY DEF taskVars, Open

-----------------------------------------------------------------------------
(* One copy at a time.                                                      *)

\* Copies M move from one place to another; others stay or vanish.
Moves(M, k0, w0, k1, w1) ==
  \A i \in Entries : \A k \in Kinds : \A w \in Holders : At(i, k, w)' =>
    \/ At(i, k, w) /\ (i \notin M \/ k # k0 \/ w # w0)
    \/ i \in M /\ k = k1 /\ w = w1

PublishedStay == \A e \in Events : handler[e] = "published" => handler'[e] = "published"

(* Copies that only move are as many as before. *)
LEMMA OneMoves ==
  ASSUME OneToken, AllPublished, stream' = stream,
         PublishedStay, stream \in Seq(Events),
         NEW M, NEW k0 \in Kinds, NEW w0 \in Holders, NEW k1, NEW w1,
         \A i \in M : At(i, k0, w0), Moves(M, k0, w0, k1, w1)
  PROVE  OneToken' /\ AllPublished'
<1>1. Entries' = Entries /\ \A i \in Entries : stream[i] \in Events
  BY DEF Entries
<1>2. AllPublished'
  BY <1>1 DEF AllPublished, PublishedStay
<1>3. OneToken'
  <2> SUFFICES ASSUME NEW i \in Entries, NEW j \in Entries, NEW k \in Kinds,
                      NEW l \in Kinds, NEW v \in Holders, NEW w \in Holders,
                      At(i, k, v)', At(j, l, w)', stream[i] = stream[j]
               PROVE  i = j /\ k = l /\ v = w
    BY <1>1 DEF OneToken
  <2>1. \/ At(i, k, v) /\ (i \notin M \/ k # k0 \/ v # w0)
        \/ i \in M /\ k = k1 /\ v = w1 /\ At(i, k0, w0)
    BY DEF Moves
  <2>2. \/ At(j, l, w) /\ (j \notin M \/ l # k0 \/ w # w0)
        \/ j \in M /\ l = k1 /\ w = w1 /\ At(j, k0, w0)
    BY DEF Moves
  <2>3. CASE At(i, k, v) /\ At(j, l, w)
    BY <2>3 DEF OneToken
  <2>4. CASE i \in M /\ k = k1 /\ v = w1 /\ j \in M /\ l = k1 /\ w = w1
    <3>1. At(i, k0, w0) /\ At(j, k0, w0)
      BY <2>4
    <3> QED BY <2>4, <3>1 DEF OneToken
  <2>5. CASE /\ At(i, k, v) /\ (i \notin M \/ k # k0 \/ v # w0)
             /\ j \in M
    <3>1. At(j, k0, w0)
      BY <2>5
    <3>2. i = j /\ k = k0 /\ v = w0
      BY <2>5, <3>1 DEF OneToken
    <3> QED BY <2>5, <3>2
  <2>6. CASE /\ At(j, l, w) /\ (j \notin M \/ l # k0 \/ w # w0)
             /\ i \in M
    <3>1. At(i, k0, w0)
      BY <2>6
    <3>2. i = j /\ l = k0 /\ w = w0
      BY <2>6, <3>1 DEF OneToken
    <3> QED BY <2>6, <3>2
  <2> QED BY <2>1, <2>2, <2>3, <2>4, <2>5, <2>6
<1> QED BY <1>2, <1>3

\* The entry a step queues for e is the only copy of e after it.
OnlyCopyOf(e) ==
  \A i \in Entries' : \A k \in Kinds : \A w \in Holders : At(i, k, w)' =>
    \/ i \in Entries /\ At(i, k, w) /\ stream[i] # e
    \/ i = Len(stream) + 1 /\ k = "unread" /\ w = "nobody"

(* A copy of e is queued while there is no other. *)
LEMMA OneAppends ==
  ASSUME TypeInv, OneToken, AllPublished, NEW e \in Events, stream' = Append(stream, e),
         PublishedStay, handler'[e] = "published", OnlyCopyOf(e)
  PROVE  OneToken' /\ AllPublished'
<1>0. TypeOK /\ (\A i \in Entries : stream[i] \in Events) /\ Len(stream) + 1 \notin Entries
  BY DEF TypeInv, TypeOK, Entries
<1>1. /\ Entries' = Entries \union {Len(stream) + 1}
      /\ \A i \in Entries : stream'[i] = stream[i] /\ stream[i] \in Events
      /\ stream'[Len(stream) + 1] = e /\ Len(stream) + 1 \notin Entries
  BY <1>0, AppendType
<1>2. AllPublished'
  <2>1. \A i \in Entries : handler'[stream[i]] = "published"
    BY <1>1 DEF AllPublished, PublishedStay
  <2>2. \A i \in Entries' : handler'[stream'[i]] = "published"
    BY <1>1, <2>1
  <2> QED BY <2>2 DEF AllPublished
<1>3. OneToken'
  <2> SUFFICES ASSUME NEW i \in Entries', NEW j \in Entries', NEW k \in Kinds,
                      NEW l \in Kinds, NEW v \in Holders, NEW w \in Holders,
                      At(i, k, v)', At(j, l, w)', stream'[i] = stream'[j]
               PROVE  i = j /\ k = l /\ v = w
    BY DEF OneToken
  <2>1. \/ i \in Entries /\ At(i, k, v) /\ stream[i] # e
        \/ i = Len(stream) + 1 /\ k = "unread" /\ v = "nobody"
    BY DEF OnlyCopyOf
  <2>2. \/ j \in Entries /\ At(j, l, w) /\ stream[j] # e
        \/ j = Len(stream) + 1 /\ l = "unread" /\ w = "nobody"
    BY DEF OnlyCopyOf
  <2>3. CASE i = Len(stream) + 1 /\ j = Len(stream) + 1
    BY <1>1, <2>1, <2>2, <2>3
  <2>4. CASE i \in Entries /\ j \in Entries
    <3>1. stream[i] = stream[j]
      BY <1>1, <2>4
    <3>2. At(i, k, v) /\ At(j, l, w)
      BY <1>1, <2>1, <2>2, <2>4
    <3> QED BY <2>4, <3>1, <3>2 DEF OneToken
  <2>5. CASE i = Len(stream) + 1 /\ j \in Entries
    <3>1. stream'[j] = stream[j] /\ stream[j] # e /\ stream'[i] = e
      BY <1>1, <2>2, <2>5
    <3> QED BY <3>1
  <2>6. CASE j = Len(stream) + 1 /\ i \in Entries
    <3>1. stream'[i] = stream[i] /\ stream[i] # e /\ stream'[j] = e
      BY <1>1, <2>1, <2>6
    <3> QED BY <3>1
  <2> QED BY <1>1, <2>3, <2>4, <2>5, <2>6
<1> QED BY <1>2, <1>3

(* A step of the stream worker w that takes a copy from its batch, or none. *)
LEMMA OneFromBatch ==
  ASSUME TypeInv, OneToken, AllPublished, NEW w \in Workers,
         UNCHANGED <<handler, stream, cursor, popped>>,
         OthersOpen(w), Open(w)' \subseteq Open(w), NEW M, M \subseteq Open(w) \ Open(w)',
         \/ scheduled' \subseteq scheduled \union M /\ UNCHANGED <<dead, processed>>
         \/ /\ scheduled' = scheduled
            /\ processed' \union dead' \subseteq processed \union dead \union M
  PROVE  OneToken' /\ AllPublished'
<1>1. stream \in Seq(Events) /\ PublishedStay
  BY DEF TypeInv, TypeOK, PublishedStay
<1>2. \A i \in M : At(i, "open", w)
  BY DEF At
<1>3. /\ \A i : Unread(i)' <=> Unread(i)
      /\ \A v \in Workers \ {w} : Open(v)' = Open(v)
  BY DEF Unread, OthersOpen
<1>4. CASE scheduled' \subseteq scheduled \union M /\ UNCHANGED <<dead, processed>>
  <2>1. \A i : Settled(i)' <=> Settled(i)
    BY <1>4 DEF Settled
  <2>2. Moves(M, "open", w, "scheduled", "nobody")
    BY <1>3, <1>4, <2>1 DEF Moves, At
  <2> QED BY <1>1, <1>2, <2>2, OneMoves DEF Kinds, Holders
<1>5. CASE /\ scheduled' = scheduled
           /\ processed' \union dead' \subseteq processed \union dead \union M
  <2>1. \A i : Settled(i)' => Settled(i) \/ i \in M
    BY <1>5 DEF Settled
  <2>2. Moves(M, "open", w, "settled", "nobody")
    BY <1>3, <1>5, <2>1 DEF Moves, At
  <2> QED BY <1>1, <1>2, <2>2, OneMoves DEF Kinds, Holders
<1> QED BY <1>4, <1>5

(* Copies vanish, or none does anything. *)
LEMMA OneShrinks ==
  ASSUME TypeInv, OneToken, AllPublished, UNCHANGED <<stream, cursor>>, PublishedStay,
         scheduled' \subseteq scheduled, processed' \union dead' \subseteq processed \union dead,
         \A w \in Workers : Open(w)' \subseteq Open(w) /\ popped'[w] \subseteq popped[w]
  PROVE  OneToken' /\ AllPublished'
<1>1. stream \in Seq(Events)
  BY DEF TypeInv, TypeOK
<1>2. \A i : (Unread(i)' <=> Unread(i)) /\ (Settled(i)' => Settled(i))
  BY DEF Unread, Settled
<1>3. Moves({}, "open", "nobody", "open", "nobody")
  BY <1>2 DEF Moves, At
<1> QED BY <1>1, <1>3, OneMoves DEF Kinds, Holders

LEMMA OneConsume ==
  ASSUME TypeInv, OneToken, AllPublished, NEW w \in Workers, Consume(w)
  PROVE  OneToken' /\ AllPublished'
<1>1. PICK B : B = BatchEnd
  OBVIOUS
<1>2. B \in cursor + 1 .. Len(stream) /\ cursor \in Nat /\ Len(stream) \in Nat
  BY <1>1, BatchEndInStream DEF Consume, TypeInv, TypeOK
<1>3. /\ step[w] = "idle"
      /\ step' = [step EXCEPT ![w] = "process"]
      /\ first' = [first EXCEPT ![w] = cursor + 1]
      /\ last' = [last EXCEPT ![w] = B]
      /\ cursor' = B
      /\ UNCHANGED <<handler, stream, scheduled, popped, dead, processed>>
  BY <1>1 DEF Consume, Deliver, retryVars, schedulerVars, outcomeVars
<1>4. /\ step'[w] = "process" /\ first'[w] = cursor + 1 /\ last'[w] = B
      /\ \A v \in Workers \ {w} : step'[v] = step[v] /\ first'[v] = first[v] /\ last'[v] = last[v]
  BY <1>3 DEF TypeInv, TypeOK
<1>5. Open(w)' = cursor + 1 .. B /\ OthersOpen(w)
  BY <1>4 DEF Open, OthersOpen
<1>6. \A i : /\ Settled(i)' <=> Settled(i)
             /\ Unread(i)' <=> Unread(i) /\ i \notin cursor + 1 .. B
             /\ i \in cursor + 1 .. B => Unread(i)
  BY <1>2, <1>3 DEF Settled, Unread
<1>7. Moves(cursor + 1 .. B, "unread", "nobody", "open", w)
  <2> SUFFICES ASSUME NEW i \in Entries, NEW k \in Kinds, NEW v \in Holders, At(i, k, v)'
               PROVE  \/ At(i, k, v) /\ (i \notin cursor + 1 .. B \/ k # "unread" \/ v # "nobody")
                      \/ i \in cursor + 1 .. B /\ k = "open" /\ v = w
    BY DEF Moves
  <2>1. CASE k \in {"unread", "settled", "scheduled"}
    BY <1>3, <1>6, <2>1 DEF At
  <2>2. CASE k = "open"
    BY <1>5, <2>2 DEF At, OthersOpen
  <2>3. CASE k = "popped"
    BY <1>3, <2>3 DEF At
  <2> QED BY <2>1, <2>2, <2>3 DEF Kinds
<1>8. \A i \in cursor + 1 .. B : At(i, "unread", "nobody")
  BY <1>6 DEF At
<1>9. stream \in Seq(Events) /\ PublishedStay
  BY <1>3 DEF TypeInv, TypeOK, PublishedStay
<1> QED BY <1>3, <1>7, <1>8, <1>9, OneMoves DEF Kinds, Holders

LEMMA OneWork ==
  ASSUME TypeInv, OneToken, AllPublished, NEW w \in Workers, Work(w)
  PROVE  OneToken' /\ AllPublished'
<1> USE DEF streamVars, retryVars, schedulerVars, outcomeVars
<1>1. CASE ProcessFails(w) \/ CountFailure(w) \/ ClearRetryKey(w)
  <2>1. \E next : /\ GoTo(w, next)
                  /\ (step[w] \in Held /\ next \in Held) \/ (step[w] = "clear" /\ next = "ack")
    BY <1>1 DEF ProcessFails, CountFailure, ClearRetryKey, Held
  <2>2. Open(w)' = Open(w) /\ OthersOpen(w)
    BY <2>1, OpenGoTo
  <2>3. UNCHANGED <<handler, stream, cursor, scheduled, popped, dead, processed>>
    BY <1>1 DEF ProcessFails, CountFailure, ClearRetryKey
  <2> QED BY <2>2, <2>3, OneFromBatch
<1>2. CASE ProcessSucceeds(w) \/ ScheduleRetry(w) \/ DeadLetter(w)
  <2>1. \E next \in {"clear", "ack"} : step[w] \in Held /\ GoTo(w, next)
    BY <1>2 DEF ProcessSucceeds, ScheduleRetry, DeadLetter, Held
  <2>2. /\ Open(w)' = Open(w) \ {first[w]} /\ OthersOpen(w)
        /\ {first[w]} \subseteq Open(w) \ Open(w)'
    BY <2>1, OpenGoTo, FirstOpen
  <2>3. /\ UNCHANGED <<handler, stream, cursor, popped>>
        /\ \/ scheduled' = scheduled \union {first[w]} /\ UNCHANGED <<dead, processed>>
           \/ /\ scheduled' = scheduled
              /\ processed' \union dead' = processed \union dead \union {first[w]}
    BY <1>2 DEF ProcessSucceeds, ScheduleRetry, DeadLetter
  <2> QED BY <2>2, <2>3, OneFromBatch
<1>3. CASE Ack(w)
  <2>1. Open(w)' \subseteq Open(w) /\ OthersOpen(w)
    BY <1>3, OpenNext DEF Ack, Busy
  <2>2. UNCHANGED <<handler, stream, cursor, scheduled, popped, dead, processed>>
    BY <1>3 DEF Ack
  <2> QED BY <2>1, <2>2, OneFromBatch
<1> QED BY <1>1, <1>2, <1>3, OneConsume DEF Work

LEMMA OneWorkFails ==
  ASSUME TypeInv, OneToken, AllPublished, "reply" \notin faulted', NEW w \in Workers,
         WorkFails(w)
  PROVE  OneToken' /\ AllPublished'
<1> USE DEF streamVars, retryVars, schedulerVars, outcomeVars, Fault
<1>1. UNCHANGED <<handler, stream, cursor, scheduled, popped, dead, processed>>
  BY DEF WorkFails, ConsumeFails, CountFailureFails, ScheduleRetryFails, DeadLetterFails,
     ClearRetryKeyFails, AckFails, Panic
<1>2. \/ step[w] \in Busy /\ NextDelivery(w)
      \/ \E how \in {"exited", "down"} : Abandon(w, how)
  BY DEF WorkFails, ConsumeFails, CountFailureFails, ScheduleRetryFails, DeadLetterFails,
     ClearRetryKeyFails, AckFails, Panic, Busy
<1>3. Open(w)' \subseteq Open(w) /\ OthersOpen(w)
  BY <1>2, OpenNext, OpenAbandon
<1> QED BY <1>1, <1>3, OneFromBatch

LEMMA OneRetry ==
  ASSUME TypeInv, OneToken, AllPublished, NEW w \in Workers, Retry(w)
  PROVE  OneToken' /\ AllPublished'
<1> USE DEF streamVars, retryVars, schedulerVars, outcomeVars
<1>p. /\ popped \in [Workers -> SUBSET Entries] /\ stream \in Seq(Events)
      /\ scheduled \subseteq Entries
  BY DEF TypeInv, TypeOK
<1>1. CASE ReadDue(w)
  BY <1>1, OneShrinks, OpenSame DEF ReadDue, PublishedStay
<1>u. ASSUME UNCHANGED <<stream, cursor, dead, processed, taskVars>>
      PROVE  /\ \A i : (Unread(i)' <=> Unread(i)) /\ (Settled(i)' <=> Settled(i))
             /\ \A v \in Workers : Open(v)' = Open(v)
  BY <1>u, OpenSame DEF Unread, Settled
<1>2. CASE RequeueDue(w)
  <2>1. /\ UNCHANGED <<handler, stream, cursor, dead, processed, taskVars>>
        /\ scheduled' = scheduled \union popped[w]
        /\ popped'[w] = {} /\ \A v \in Workers \ {w} : popped'[v] = popped[v]
    BY <1>2, <1>p DEF RequeueDue
  <2>2. Moves(popped[w], "popped", w, "scheduled", "nobody")
    BY <1>u, <2>1 DEF Moves, At
  <2>3. \A i \in popped[w] : At(i, "popped", w)
    BY DEF At
  <2>4. PublishedStay
    BY <2>1 DEF PublishedStay
  <2> QED BY <1>p, <2>1, <2>2, <2>3, <2>4, OneMoves DEF Kinds, Holders
<1>3. ASSUME NEW i \in due[w], RemoveDue(w, i) PROVE OneToken' /\ AllPublished'
  <2>1. /\ UNCHANGED <<handler, stream, cursor, dead, processed, taskVars>>
        /\ scheduled' = scheduled \ {i}
        /\ popped'[w] = popped[w] \union ({i} \intersect scheduled)
        /\ \A v \in Workers \ {w} : popped'[v] = popped[v]
    BY <1>3, <1>p DEF RemoveDue
  <2>2. Moves({i} \intersect scheduled, "scheduled", "nobody", "popped", w)
    BY <1>u, <2>1 DEF Moves, At
  <2>3. \A j \in {i} \intersect scheduled : At(j, "scheduled", "nobody")
    BY DEF At
  <2>4. PublishedStay
    BY <2>1 DEF PublishedStay
  <2> QED BY <1>p, <2>1, <2>2, <2>3, <2>4, OneMoves DEF Kinds, Holders
<1>4. ASSUME NEW i \in popped[w], RepublishDue(w, i) PROVE OneToken' /\ AllPublished'
  <2>1. /\ UNCHANGED <<handler, cursor, scheduled, dead, processed, taskVars>>
        /\ popped'[w] = popped[w] \ {i}
        /\ \A v \in Workers \ {w} : popped'[v] = popped[v]
    BY <1>4, <1>p DEF RepublishDue
  <2>2. PICK e \in Events : e = stream[i] /\ stream' = Append(stream, e)
    BY <1>4, <1>p DEF RepublishDue, Entries
  <2>3. /\ Len(stream') = Len(stream) + 1 /\ Len(stream) \in Nat
        /\ Entries' = Entries \union {Len(stream) + 1} /\ Len(stream) + 1 \notin Entries
    BY <1>p, <2>2 DEF Entries
  <2>4. \A v \in Workers : Open(v)' = Open(v) /\ Open(v) \subseteq Entries
    BY <2>1, OpenSame, OpenEntries
  <2>5. \A j : Settled(j)' <=> Settled(j)
    BY <2>1 DEF Settled
  <2>6. \A j \in Entries' : Unread(j)' => Unread(j) \/ j = Len(stream) + 1
    BY <2>1, <2>3 DEF Unread, TypeInv, TypeOK
  <2>7. \A j \in Entries : Settled(j) => j \in Entries
    OBVIOUS
  <2>8. processed \subseteq Entries /\ dead \subseteq Entries
    BY DEF TypeInv, TypeOK
  <2>9. ASSUME NEW j \in Entries', NEW k \in Kinds, NEW v \in Holders, At(j, k, v)'
        PROVE  \/ j \in Entries /\ At(j, k, v) /\ (j # i \/ k # "popped" \/ v # w)
               \/ j = Len(stream) + 1 /\ k = "unread" /\ v = "nobody"
    BY <1>p, <2>1, <2>3, <2>4, <2>5, <2>6, <2>8, <2>9 DEF At, Settled
  <2>10. At(i, "popped", w) /\ i \in Entries
    BY <1>p DEF At
  <2>11. OnlyCopyOf(e)
    BY <2>2, <2>9, <2>10 DEF OnlyCopyOf, OneToken, Kinds, Holders
  <2>12. handler'[e] = "published" /\ PublishedStay
    BY <2>1, <2>2, <2>10 DEF AllPublished, PublishedStay
  <2> QED BY <2>2, <2>11, <2>12, OneAppends
<1> QED BY <1>1, <1>2, <1>3, <1>4 DEF Retry

LEMMA OneOthers ==
  ASSUME TypeInv, OneToken, AllPublished, "reply" \notin faulted',
         \/ \E w \in Workers : RetryFails(w) \/ Crash(w) \/ Restart(w)
         \/ \E e \in Events : ExpireRetryKey(e)
         \/ UNCHANGED vars
  PROVE  OneToken' /\ AllPublished'
<1> USE DEF streamVars, retryVars, schedulerVars, outcomeVars, Fault, PublishedStay
<1>1. ASSUME NEW w \in Workers, RetryFails(w) PROVE OneToken' /\ AllPublished'
  <2>1. /\ UNCHANGED <<handler, stream, cursor, taskVars, dead, processed>>
        /\ scheduled' \subseteq scheduled
        /\ \E P \in SUBSET popped[w] : popped' = [popped EXCEPT ![w] = P]
    BY <1>1 DEF RetryFails, RequeueDueFails, RemoveDueFails, RepublishDueFails
  <2>2. \A v \in Workers : popped'[v] \subseteq popped[v]
    BY <2>1 DEF TypeInv, TypeOK
  <2> QED BY <2>1, <2>2, OpenSame, OneShrinks
<1>2. ASSUME NEW w \in Workers, Crash(w) PROVE OneToken' /\ AllPublished'
  <2>1. /\ UNCHANGED <<handler, stream, cursor, scheduled, dead, processed>>
        /\ Abandon(w, "down") /\ popped' = [popped EXCEPT ![w] = {}]
    BY <1>2 DEF Crash
  <2>2. \A v \in Workers : popped'[v] \subseteq popped[v]
    BY <2>1 DEF TypeInv, TypeOK
  <2>3. \A v \in Workers : Open(v)' \subseteq Open(v)
    BY <2>1, OpenAbandon DEF OthersOpen
  <2> QED BY <2>1, <2>2, <2>3, OneShrinks
<1>3. ASSUME NEW w \in Workers, Restart(w) PROVE OneToken' /\ AllPublished'
  <2>1. \A v \in Workers : Open(v)' \subseteq Open(v)
    BY <1>3, OpenGoTo DEF Restart, OthersOpen
  <2>2. UNCHANGED <<handler, stream, cursor, scheduled, popped, dead, processed>>
    BY <1>3 DEF Restart
  <2> QED BY <2>1, <2>2, OneShrinks
<1>4. ASSUME NEW e \in Events, ExpireRetryKey(e) PROVE OneToken' /\ AllPublished'
  BY <1>4, OpenSame, OneShrinks DEF ExpireRetryKey
<1>5. CASE UNCHANGED vars
  BY <1>5, OpenSame, OneShrinks DEF vars
<1> QED BY <1>1, <1>2, <1>3, <1>4, <1>5

LEMMA OneGateway ==
  ASSUME TypeInv, OneToken, AllPublished, "reply" \notin faulted', NEW e \in Events, Gateway(e)
  PROVE  OneToken' /\ AllPublished'
<1> USE DEF streamVars, retryVars, schedulerVars, outcomeVars, Fault
<1>h. /\ handler \in [Events -> {"received", "persisted", "published", "dropped"}]
      /\ scheduled \subseteq Entries /\ processed \subseteq Entries /\ dead \subseteq Entries
      /\ popped \in [Workers -> SUBSET Entries] /\ stream \in Seq(Events)
  BY DEF TypeInv, TypeOK
<1>1. CASE InsertSerialized(e) \/ InsertFails(e) \/ PublishEventFails(e)
  <2>1. /\ handler[e] # "published"
        /\ \E h : handler' = [handler EXCEPT ![e] = h]
        /\ UNCHANGED <<streamVars, taskVars, scheduled, popped, dead, processed>>
    BY <1>1 DEF InsertSerialized, InsertFails, PublishEventFails
  <2>2. PublishedStay
    BY <1>h, <2>1 DEF PublishedStay
  <2> QED BY <2>1, <2>2, OpenSame, OneShrinks
<1>2. CASE PublishEvent(e)
  <2>1. /\ stream' = Append(stream, e) /\ handler[e] = "persisted"
        /\ handler' = [handler EXCEPT ![e] = "published"]
        /\ UNCHANGED <<cursor, taskVars, scheduled, popped, dead, processed>>
    BY <1>2 DEF PublishEvent
  <2>2. handler'[e] = "published" /\ PublishedStay
    BY <1>h, <2>1 DEF PublishedStay
  <2>3. \A i \in Entries : stream[i] # e
    BY <2>1 DEF AllPublished
  <2>4. /\ Len(stream') = Len(stream) + 1 /\ Len(stream) \in Nat
        /\ Entries' = Entries \union {Len(stream) + 1} /\ Len(stream) + 1 \notin Entries
    BY <1>h, <2>1 DEF Entries
  <2>5. \A v \in Workers : Open(v)' = Open(v) /\ Open(v) \subseteq Entries
    BY <2>1, OpenSame, OpenEntries
  <2>6. \A j \in Entries' : Unread(j)' => Unread(j) \/ j = Len(stream) + 1
    BY <2>1, <2>4 DEF Unread, TypeInv, TypeOK
  <2>7. ASSUME NEW j \in Entries', NEW k \in Kinds, NEW v \in Holders, At(j, k, v)'
        PROVE  \/ j \in Entries /\ At(j, k, v)
               \/ j = Len(stream) + 1 /\ k = "unread" /\ v = "nobody"
    BY <1>h, <2>1, <2>4, <2>5, <2>6, <2>7 DEF At, Settled
  <2>8. OnlyCopyOf(e)
    BY <2>3, <2>7 DEF OnlyCopyOf
  <2> QED BY <2>1, <2>2, <2>8, OneAppends
<1> QED BY <1>1, <1>2 DEF Gateway

(* What has happened has happened. *)
LEMMA FaultsStay ==
  ASSUME [Next]_vars
  PROVE  faulted \subseteq faulted'
<1> USE DEF Fault, faultVars
<1>1. ASSUME NEW e \in Events, Gateway(e) \/ ExpireRetryKey(e) PROVE faulted \subseteq faulted'
  BY <1>1 DEF Gateway, InsertSerialized, InsertFails, PublishEvent, PublishEventFails,
     ExpireRetryKey
<1>2. ASSUME NEW w \in Workers, Work(w) PROVE faulted \subseteq faulted'
  BY <1>2 DEF Work, Consume, ProcessSucceeds, ProcessFails, CountFailure, ScheduleRetry,
     DeadLetter, ClearRetryKey, Ack
<1>3. ASSUME NEW w \in Workers, WorkFails(w) PROVE faulted \subseteq faulted'
  BY <1>3 DEF WorkFails, ConsumeFails, CountFailureFails, ScheduleRetryFails,
     DeadLetterFails, ClearRetryKeyFails, AckFails, Panic
<1>4. ASSUME NEW w \in Workers, Retry(w) \/ RetryFails(w) PROVE faulted \subseteq faulted'
  BY <1>4 DEF Retry, RetryFails, ReadDue, RequeueDue, RemoveDue, RepublishDue,
     RequeueDueFails, RemoveDueFails, RepublishDueFails
<1>5. ASSUME NEW w \in Workers, Crash(w) \/ Restart(w) PROVE faulted \subseteq faulted'
  BY <1>5 DEF Crash, Restart
<1>6. CASE UNCHANGED vars
  BY <1>6 DEF vars
<1> QED BY <1>1, <1>2, <1>3, <1>4, <1>5, <1>6 DEF Next

LEMMA OneInit == Init => OneInv
<1>1. Init => Entries = {}
  BY DEF Init, Entries
<1> QED BY <1>1 DEF OneInv, OneToken, AllPublished

LEMMA OneStep ==
  ASSUME TypeInv, OneInv, [Next]_vars
  PROVE  OneInv'
<1> SUFFICES ASSUME "reply" \notin faulted' PROVE OneToken' /\ AllPublished'
  BY DEF OneInv
<1>1. OneToken /\ AllPublished
  BY FaultsStay DEF OneInv
<1>2. ASSUME NEW w \in Workers, Work(w) \/ WorkFails(w) \/ Retry(w)
      PROVE  OneToken' /\ AllPublished'
  BY <1>1, <1>2, OneWork, OneWorkFails, OneRetry
<1>3. ASSUME NEW e \in Events, Gateway(e) PROVE OneToken' /\ AllPublished'
  BY <1>1, <1>3, OneGateway
<1> QED BY <1>1, <1>2, <1>3, OneOthers DEF Next

(* However many workers read the stream and poll the retries, and whatever   *)
(* fails or crashes, an event has one copy at a time and one outcome, unless *)
(* a call takes effect and its reply is lost.                                *)
THEOREM OneCopyHolds == Spec => []OneCopy
<1>1. TypeInv /\ OneInv => OneCopy
  <2> SUFFICES ASSUME TypeInv, OneInv, "reply" \notin faulted,
                      NEW i \in Entries, NEW j \in Entries, Live(i) \/ Settled(i),
                      Live(j) \/ Settled(j), stream[i] = stream[j]
               PROVE  i = j
    BY DEF OneCopy
  <2>1. ASSUME NEW n, Live(n) \/ Settled(n) PROVE \E k \in Kinds : \E w \in Holders : At(n, k, w)
    BY <2>1 DEF At, Live, Kinds, Holders
  <2> QED BY <2>1 DEF OneInv, OneToken
<1> QED BY <1>1, OneInit, OneStep, TypeInvariant, PTL DEF Spec

-----------------------------------------------------------------------------
(* Attempts are bounded.                                                    *)

OthersStay(w) ==
  \A v \in Workers \ {w} : step'[v] = step[v] /\ first'[v] = first[v] /\ last'[v] = last[v]

LEMMA AgainStays ==
  ASSUME NEW w \in Workers, OthersStay(w)
  PROVE  \A v \in Workers \ {w} : Again(v)' = Again(v)
BY DEF OthersStay, Again

LEMMA AgainNext ==
  ASSUME TypeInv, NEW w \in Workers, step[w] \in Busy, NextDelivery(w)
  PROVE  Again(w)' \subseteq Again(w) /\ step'[w] \in {"process", "idle"} /\ OthersStay(w)
<1>1. /\ step \in [Workers -> Steps] /\ first \in [Workers -> Nat] /\ last \in [Workers -> Nat]
      /\ first[w] <= last[w]
  BY DEF TypeInv, TypeOK, BatchOK
<1>2. CASE first[w] < last[w]
  <2>1. step'[w] = "process" /\ first'[w] = first[w] + 1 /\ last'[w] = last[w] /\ OthersStay(w)
    BY <1>1, <1>2 DEF NextDelivery, OthersStay
  <2> QED BY <1>1, <2>1 DEF Again, Busy
<1>3. CASE ~(first[w] < last[w])
  <2>1. step'[w] = "idle" /\ OthersStay(w)
    BY <1>1, <1>3 DEF NextDelivery, OthersStay
  <2> QED BY <1>1, <1>3, <2>1 DEF Again, Busy
<1> QED BY <1>2, <1>3

LEMMA AgainGoTo ==
  ASSUME TypeInv, NEW w \in Workers, NEW next, GoTo(w, next), step[w] \in Busy
  PROVE  /\ OthersStay(w) /\ step'[w] = next /\ first'[w] = first[w]
         /\ next \in Busy \ {"process", "schedule"} =>
              Again(w)' \subseteq Again(w) /\ first[w] \notin Again(w)'
         /\ next = "schedule" /\ step[w] = "count" => Again(w)' \subseteq Again(w) \union {first[w]}
<1>1. /\ step \in [Workers -> Steps] /\ first \in [Workers -> Nat] /\ last \in [Workers -> Nat]
      /\ first[w] <= last[w]
  BY DEF TypeInv, TypeOK, BatchOK
<1>2. /\ step'[w] = next /\ first' = first /\ last' = last /\ OthersStay(w)
  BY <1>1 DEF GoTo, OthersStay
<1> QED BY <1>1, <1>2 DEF Again, Busy

LEMMA AgainAbandon ==
  ASSUME TypeInv, NEW w \in Workers, NEW how \in {"exited", "down"}, Abandon(w, how)
  PROVE  Again(w)' = {} /\ step'[w] = how /\ OthersStay(w)
<1>1. /\ step \in [Workers -> Steps] /\ first \in [Workers -> Nat] /\ last \in [Workers -> Nat]
  BY DEF TypeInv, TypeOK
<1>2. step'[w] = how /\ OthersStay(w)
  BY <1>1 DEF Abandon, OthersStay
<1> QED BY <1>2 DEF Again, Busy

\* A step after which no copy is to be attempted that was not before.
Sparing ==
  /\ UNCHANGED <<failures, retryCount>>
  /\ PublishedStay
  /\ \A i \in Entries' : Ready(i)' =>
       \/ \E j \in Entries : Ready(j) /\ stream[j] = stream'[i]
       \/ stream'[i] \in Events /\ handler[stream'[i]] # "published"
  /\ \A w \in Workers : step'[w] = "count" => step[w] = "count" /\ first'[w] = first[w]
  /\ \A w \in Workers : step'[w] = "clear" => first'[w] \in dead'

LEMMA SparingCounted ==
  ASSUME TypeInv, Counted, Sparing, [Next]_vars
  PROVE  Counted'
<1>1. /\ \A e \in Events : failures[e] <= MaxRetries + 1
      /\ \A j \in Entries : Ready(j) =>
           failures[stream[j]] = retryCount[stream[j]] /\ retryCount[stream[j]] <= MaxRetries
      /\ \A e \in Events : handler[e] # "published" => failures[e] = 0 /\ retryCount[e] = 0
  BY DEF Counted
<1>2. ASSUME NEW i \in Entries', Ready(i)'
      PROVE  failures'[stream'[i]] = retryCount'[stream'[i]] /\ retryCount'[stream'[i]] <= MaxRetries
  <2>1. CASE \E j \in Entries : Ready(j) /\ stream[j] = stream'[i]
    BY <1>1, <2>1 DEF Sparing
  <2>2. CASE stream'[i] \in Events /\ handler[stream'[i]] # "published"
    BY <1>1, <2>2, ConstantsAssumption DEF Sparing
  <2> QED BY <1>2, <2>1, <2>2 DEF Sparing
<1>3. ASSUME NEW w \in Workers, step'[w] = "count"
      PROVE  /\ failures'[Current(w)'] = retryCount'[Current(w)'] + 1
             /\ retryCount'[Current(w)'] <= MaxRetries
  <2>1. step[w] = "count" /\ first'[w] = first[w]
    BY <1>3 DEF Sparing
  <2>2. Current(w)' = Current(w)
    BY <2>1, StreamGrows, CurrentType DEF Busy, Current
  <2> QED BY <2>1, <2>2 DEF Counted, Sparing
<1>4. \A e \in Events : handler'[e] # "published" => failures'[e] = 0 /\ retryCount'[e] = 0
  BY <1>1 DEF Sparing, PublishedStay
<1>5. \A e \in Events : failures'[e] <= MaxRetries + 1
  BY <1>1 DEF Sparing
<1>6. \A w \in Workers : step'[w] = "clear" => first'[w] \in dead'
  BY DEF Sparing
<1> QED BY <1>2, <1>3, <1>4, <1>5, <1>6 DEF Counted

LEMMA UnreadShrinks ==
  ASSUME stream \in Seq(Events), stream' = stream,
         cursor \in Nat, cursor' \in Nat, cursor <= cursor'
  PROVE  \A i : Unread(i)' => Unread(i)
<1>1. PICK n \in Nat, c \in Nat, d \in Nat :
        n = Len(stream) /\ Len(stream') = n /\ c = cursor /\ d = cursor' /\ c <= d
  OBVIOUS
<1>2. d + 1 .. n \subseteq c + 1 .. n
  BY <1>1
<1> QED BY <1>1, <1>2 DEF Unread

(* A step of the stream worker w that fails no delivery and counts none. *)
LEMMA SparingWork ==
  ASSUME TypeInv, Counted, NEW w \in Workers,
         UNCHANGED <<handler, failures, retryCount, stream, popped>>,
         cursor' \in Nat, cursor <= cursor', dead \subseteq dead',
         \A i \in scheduled' : Ready(i),
         \A i \in Again(w)' : Ready(i), OthersStay(w),
         step'[w] # "count", step'[w] = "clear" => first'[w] \in dead'
  PROVE  Sparing
<1>1. Entries' = Entries /\ \A i \in Entries : stream[i] \in Events
  BY DEF Entries, TypeInv, TypeOK
<1>2. \A i : Unread(i)' => Unread(i)
  BY UnreadShrinks DEF TypeInv, TypeOK
<1>3. \A v \in Workers \ {w} : Again(v)' = Again(v)
  BY AgainStays
<1>4. ASSUME NEW i \in Entries, Ready(i)' PROVE Ready(i)
  <2>1. CASE Unread(i)' \/ i \in scheduled' \/ i \in Again(w)'
    BY <1>2, <2>1 DEF Ready
  <2>2. CASE \E v \in Workers : i \in popped[v] \/ (v # w /\ i \in Again(v))
    BY <2>2 DEF Ready
  <2>3. \/ Unread(i)' \/ i \in scheduled'
        \/ \E v \in Workers : i \in popped[v] \/ i \in Again(v)'
    BY <1>4 DEF Ready
  <2> QED BY <1>3, <2>1, <2>2, <2>3
<1>5. \A i \in Entries' : Ready(i)' => \E j \in Entries : Ready(j) /\ stream[j] = stream'[i]
  BY <1>1, <1>4
<1>6. \A v \in Workers : step'[v] = "count" => step[v] = "count" /\ first'[v] = first[v]
  BY DEF OthersStay
<1>7. \A v \in Workers : step'[v] = "clear" => first'[v] \in dead'
  BY DEF OthersStay, Counted
<1> QED BY <1>5, <1>6, <1>7 DEF Sparing, PublishedStay

LEMMA AttemptsConsume ==
  ASSUME TypeInv, Counted, NEW w \in Workers, Consume(w)
  PROVE  Sparing
<1>1. PICK B : B = BatchEnd
  OBVIOUS
<1>2. B \in cursor + 1 .. Len(stream) /\ cursor \in Nat /\ Len(stream) \in Nat
  BY <1>1, BatchEndInStream DEF Consume, TypeInv, TypeOK
<1>3. /\ step' = [step EXCEPT ![w] = "process"]
      /\ first' = [first EXCEPT ![w] = cursor + 1]
      /\ last' = [last EXCEPT ![w] = B]
      /\ cursor' = B
      /\ UNCHANGED <<handler, failures, retryCount, stream, popped, scheduled, dead>>
  BY <1>1 DEF Consume, Deliver, retryVars, schedulerVars, outcomeVars
<1>4. step'[w] = "process" /\ first'[w] = cursor + 1 /\ last'[w] = B /\ OthersStay(w)
  BY <1>3 DEF TypeInv, TypeOK, OthersStay
<1>5. Again(w)' = cursor + 1 .. B
  BY <1>4 DEF Again
<1>6. (\A i \in Again(w)' : Ready(i)) /\ (\A i \in scheduled' : Ready(i))
  BY <1>2, <1>3, <1>5 DEF Ready, Unread
<1> QED BY <1>2, <1>3, <1>4, <1>6, SparingWork

(* The steps of w that do not touch the counter, and those that may fail. *)
LEMMA AttemptsWork ==
  ASSUME TypeInv, Counted, NEW w \in Workers,
         \/ ProcessSucceeds(w) \/ ScheduleRetry(w) \/ DeadLetter(w) \/ Ack(w)
         \/ WorkFails(w) /\ "reply" \notin faulted'
  PROVE  Sparing
<1> USE DEF streamVars, retryVars, schedulerVars, outcomeVars, Fault
<1>1. /\ UNCHANGED <<handler, failures, retryCount, stream, popped, cursor>>
      /\ dead \subseteq dead' /\ cursor \in Nat
  BY DEF ProcessSucceeds, ScheduleRetry, DeadLetter, Ack, WorkFails, ConsumeFails,
     CountFailureFails, ScheduleRetryFails, DeadLetterFails, ClearRetryKeyFails, AckFails,
     Panic, TypeInv, TypeOK
<1>2. CASE ProcessSucceeds(w) \/ ScheduleRetry(w) \/ DeadLetter(w)
  <2>1. PICK next \in {"clear", "ack"} : step[w] \in Busy /\ GoTo(w, next)
    BY <1>2 DEF ProcessSucceeds, ScheduleRetry, DeadLetter, Busy
  <2>2. /\ Again(w)' \subseteq Again(w) /\ OthersStay(w)
        /\ step'[w] = next /\ first'[w] = first[w]
    BY <2>1, AgainGoTo DEF Busy
  <2>3. next = "clear" => first[w] \in dead'
    BY <1>2, <2>1, <2>2 DEF ProcessSucceeds, ScheduleRetry, DeadLetter, GoTo, TypeInv, TypeOK
  <2>4. step[w] = "schedule" => first[w] \in Again(w)
    BY DEF Again, TypeInv, TypeOK, BatchOK, Busy
  <2>5. \A i \in scheduled' : i \in scheduled \/ i \in Again(w)
    BY <1>2, <2>4 DEF ProcessSucceeds, ScheduleRetry, DeadLetter
  <2>6. (\A i \in scheduled' : Ready(i)) /\ (\A i \in Again(w)' : Ready(i))
    BY <2>2, <2>5 DEF Ready
  <2> QED BY <1>1, <2>2, <2>3, <2>6, SparingWork
<1>3. CASE Ack(w) \/ (WorkFails(w) /\ "reply" \notin faulted')
  <2>1. \/ step[w] \in Busy /\ NextDelivery(w)
        \/ \E how \in {"exited", "down"} : Abandon(w, how)
    BY <1>3 DEF Ack, WorkFails, ConsumeFails, CountFailureFails, ScheduleRetryFails,
       DeadLetterFails, ClearRetryKeyFails, AckFails, Panic, Busy
  <2>2. Again(w)' \subseteq Again(w) /\ OthersStay(w) /\ step'[w] \notin {"count", "clear"}
    BY <2>1, AgainNext, AgainAbandon
  <2>3. scheduled' = scheduled
    BY <1>3 DEF Ack, WorkFails, ConsumeFails, CountFailureFails, ScheduleRetryFails,
       DeadLetterFails, ClearRetryKeyFails, AckFails, Panic
  <2>4. (\A i \in scheduled' : Ready(i)) /\ (\A i \in Again(w)' : Ready(i))
    BY <2>2, <2>3 DEF Ready
  <2> QED BY <1>1, <2>2, <2>4, SparingWork
<1> QED BY <1>2, <1>3

(* Steps of the gateway, the schedulers and the processes. *)
LEMMA AttemptsOthers ==
  ASSUME TypeInv, Counted, "reply" \notin faulted',
         \/ \E e \in Events : Gateway(e)
         \/ \E w \in Workers : Retry(w) \/ RetryFails(w) \/ Crash(w) \/ Restart(w)
         \/ UNCHANGED vars
  PROVE  Sparing
<1> USE DEF streamVars, retryVars, schedulerVars, outcomeVars, Fault
<1>t. /\ popped \in [Workers -> SUBSET Entries] /\ scheduled \subseteq Entries
      /\ stream \in Seq(Events) /\ cursor \in 0 .. Len(stream) /\ TypeOK
      /\ \A i \in Entries : stream[i] \in Events
  BY DEF TypeInv, TypeOK, Entries
<1>s. ASSUME UNCHANGED <<failures, retryCount, stream, cursor, dead>>, PublishedStay,
             \A i \in scheduled' : Ready(i),
             \A w \in Workers : /\ \A i \in popped'[w] : Ready(i)
                                /\ Again(w)' \subseteq Again(w)
                                /\ step'[w] = step[w] \/ step'[w] \in {"idle", "down"}
                                /\ step'[w] = step[w] => first'[w] = first[w]
      PROVE  Sparing
  <2>1. Entries' = Entries
    BY <1>s DEF Entries
  <2>2. \A i : Unread(i)' => Unread(i)
    BY <1>s DEF Unread
  <2>3. \A i \in Entries : Ready(i)' => Ready(i)
    BY <1>s, <2>2 DEF Ready
  <2>4. \A i \in Entries' : Ready(i)' => \E j \in Entries : Ready(j) /\ stream[j] = stream'[i]
    BY <1>s, <2>1, <2>3
  <2>5. /\ \A v \in Workers : step'[v] = "count" => step[v] = "count" /\ first'[v] = first[v]
        /\ \A v \in Workers : step'[v] = "clear" => first'[v] \in dead'
    BY <1>s DEF Counted
  <2> QED BY <1>s, <2>4, <2>5 DEF Sparing
<1>q. ASSUME NEW e \in Events, UNCHANGED <<failures, retryCount, cursor, dead, taskVars, scheduled>>,
             PublishedStay, stream' = Append(stream, e),
             \A w \in Workers : popped'[w] \subseteq popped[w],
             handler[e] # "published" \/ \E j \in Entries : Ready(j) /\ stream[j] = e
      PROVE  Sparing
  <2>1. /\ Len(stream') = Len(stream) + 1 /\ Len(stream) \in Nat
        /\ Entries' = Entries \union {Len(stream) + 1} /\ Len(stream) + 1 \notin Entries
        /\ (\A i \in Entries : stream'[i] = stream[i]) /\ stream'[Len(stream) + 1] = e
    BY <1>t, <1>q DEF Entries
  <2>2. \A i \in Entries : Unread(i)' => Unread(i)
    BY <1>q, <1>t, <2>1 DEF Unread, Entries
  <2>3. \A w \in Workers : Again(w)' = Again(w)
    BY <1>q DEF taskVars, Again
  <2>4. \A i \in Entries : Ready(i)' => Ready(i)
    BY <1>q, <2>2, <2>3 DEF Ready
  <2>5. \A i \in Entries' : Ready(i)' =>
          \/ \E j \in Entries : Ready(j) /\ stream[j] = stream'[i]
          \/ stream'[i] \in Events /\ handler[stream'[i]] # "published"
    BY <1>q, <2>1, <2>4
  <2>6. /\ \A v \in Workers : step'[v] = "count" => step[v] = "count" /\ first'[v] = first[v]
        /\ \A v \in Workers : step'[v] = "clear" => first'[v] \in dead'
    BY <1>q DEF Counted, taskVars
  <2> QED BY <1>q, <2>5, <2>6 DEF Sparing
<1>k. ASSUME UNCHANGED taskVars
      PROVE  \A w \in Workers : Again(w)' = Again(w) /\ step'[w] = step[w] /\ first'[w] = first[w]
  BY <1>k DEF taskVars, Again
<1>r. /\ \A i \in scheduled : Ready(i)
      /\ \A w \in Workers : \A i \in popped[w] : Ready(i)
  BY DEF Ready
<1>1. ASSUME NEW e \in Events, Gateway(e) PROVE Sparing
  <2>1. /\ handler[e] # "published" /\ \E h : handler' = [handler EXCEPT ![e] = h]
        /\ UNCHANGED <<failures, retryCount, cursor, dead, taskVars, scheduled, popped>>
        /\ stream' = stream \/ stream' = Append(stream, e)
    BY <1>1 DEF Gateway, InsertSerialized, InsertFails, PublishEvent, PublishEventFails
  <2>2. PublishedStay
    BY <2>1 DEF PublishedStay, TypeInv, TypeOK
  <2>3. CASE stream' = stream
    BY <1>s, <1>k, <1>r, <2>1, <2>2, <2>3
  <2>4. CASE stream' = Append(stream, e)
    BY <1>q, <2>1, <2>2, <2>4
  <2> QED BY <2>1, <2>3, <2>4
<1>2. ASSUME NEW w \in Workers, NEW i \in popped[w], RepublishDue(w, i) PROVE Sparing
  <2>1. /\ stream' = Append(stream, stream[i]) /\ stream[i] \in Events /\ i \in Entries
        /\ UNCHANGED <<handler, failures, retryCount, cursor, dead, taskVars, scheduled>>
        /\ \A v \in Workers : popped'[v] \subseteq popped[v]
    BY <1>2, <1>t DEF RepublishDue
  <2>2. PublishedStay
    BY <2>1 DEF PublishedStay
  <2> QED BY <1>q, <1>r, <2>1, <2>2
<1>3. ASSUME NEW w \in Workers, \/ ReadDue(w) \/ RequeueDue(w) \/ RetryFails(w)
                                \/ \E i \in due[w] : RemoveDue(w, i)
      PROVE Sparing
  <2>1. /\ UNCHANGED <<handler, failures, retryCount, stream, cursor, dead, taskVars>>
        /\ scheduled' \subseteq scheduled \union popped[w]
        /\ \E P \in SUBSET (popped[w] \union scheduled) : popped' = [popped EXCEPT ![w] = P]
    <3>1. CASE ReadDue(w)
      <4>1. popped' = [popped EXCEPT ![w] = popped[w]]
        BY <3>1, <1>t DEF ReadDue
      <4> QED BY <3>1, <4>1 DEF ReadDue
    <3>2. CASE RequeueDue(w)
      BY <3>2 DEF RequeueDue
    <3>3. CASE \E i \in due[w] : RemoveDue(w, i)
      <4>1. PICK i \in due[w] : RemoveDue(w, i)
        BY <3>3
      <4>2. \E P \in SUBSET (popped[w] \union scheduled) : popped' = [popped EXCEPT ![w] = P]
        <5>1. CASE i \in scheduled
          BY <4>1, <5>1 DEF RemoveDue
        <5>2. CASE i \notin scheduled
          <6>1. popped' = [popped EXCEPT ![w] = popped[w]]
            BY <4>1, <5>2, <1>t DEF RemoveDue
          <6> QED BY <6>1
        <5> QED BY <5>1, <5>2
      <4> QED BY <4>1, <4>2 DEF RemoveDue
    <3>4. CASE RetryFails(w)
      BY <3>4 DEF RetryFails, RequeueDueFails, RemoveDueFails, RepublishDueFails
    <3> QED BY <1>3, <3>1, <3>2, <3>3, <3>4
  <2>2. \A v \in Workers : popped'[v] \subseteq popped[v] \union scheduled
    BY <1>t, <2>1
  <2>3. PublishedStay
    BY <2>1 DEF PublishedStay
  <2> QED BY <1>s, <1>k, <1>r, <2>1, <2>2, <2>3
<1>4. ASSUME NEW w \in Workers, Crash(w) \/ Restart(w) PROVE Sparing
  <2>1. /\ UNCHANGED <<handler, failures, retryCount, stream, cursor, dead, scheduled>>
        /\ (popped' = [popped EXCEPT ![w] = {}]) \/ popped' = popped
    BY <1>4 DEF Crash, Restart
  <2>2. \A v \in Workers : popped'[v] \subseteq popped[v]
    BY <1>t, <2>1
  <2>3. \A v \in Workers : /\ Again(v)' \subseteq Again(v)
                           /\ step'[v] = step[v] \/ step'[v] \in {"idle", "down"}
                           /\ step'[v] = step[v] => first'[v] = first[v]
    <3>1. CASE Crash(w)
      <4>1. Again(w)' = {} /\ step'[w] = "down" /\ OthersStay(w) /\ step[w] # "down"
        BY <3>1, AgainAbandon DEF Crash
      <4> QED BY <4>1, AgainStays DEF OthersStay
    <3>2. CASE Restart(w)
      <4>1. step'[w] = "idle" /\ first' = first /\ OthersStay(w)
        BY <3>2 DEF Restart, GoTo, OthersStay, TypeInv, TypeOK
      <4>2. Again(w)' = {}
        BY <4>1 DEF Again, Busy
      <4> QED BY <4>1, <4>2, AgainStays DEF OthersStay
    <3> QED BY <1>4, <3>1, <3>2
  <2>4. PublishedStay
    BY <2>1 DEF PublishedStay
  <2> QED BY <1>s, <1>r, <2>1, <2>2, <2>3, <2>4
<1>5. CASE UNCHANGED vars
  <2>1. UNCHANGED <<handler, failures, retryCount, stream, cursor, dead, scheduled, popped, taskVars>>
    BY <1>5 DEF vars
  <2>2. PublishedStay
    BY <2>1 DEF PublishedStay
  <2> QED BY <1>s, <1>k, <1>r, <2>1, <2>2
<1> QED BY <1>1, <1>2, <1>3, <1>4, <1>5 DEF Retry

(* A worker that holds a delivery, or has just buried it, is alone with its event. *)
LEMMA Alone ==
  ASSUME TypeInv, OneToken, AllPublished, NEW w \in Workers, step[w] \in Busy,
         \/ step[w] \in Held
         \/ step[w] = "clear" /\ first[w] \in dead
  PROVE  /\ \A i \in Entries : stream[i] = Current(w) =>
              /\ ~Unread(i) /\ i \notin scheduled
              /\ \A v \in Workers : i \notin popped[v] /\ (i \in Again(v) => i = first[w] /\ v = w)
         /\ \A v \in Workers \ {w} : step[v] = "count" => Current(v) # Current(w)
         /\ handler[Current(w)] = "published"
<1>1. first[w] \in Entries /\ \A v \in Workers : Again(v) \subseteq Open(v)
  BY CurrentType DEF Again, Open, Busy, TypeInv, TypeOK, BatchOK
<1>2. PICK k \in Kinds, u \in Holders : At(first[w], k, u) /\ (k = "open" => u = w)
                                       /\ k \in {"open", "settled"}
  <2>1. CASE step[w] \in Held
    <3>1. At(first[w], "open", w)
      BY <2>1, FirstOpen DEF At
    <3> QED BY <3>1 DEF Kinds, Holders
  <2>2. CASE first[w] \in dead
    <3>1. At(first[w], "settled", "nobody")
      BY <2>2 DEF At, Settled
    <3> QED BY <3>1 DEF Kinds, Holders
  <2> QED BY <2>1, <2>2
<1>3. ASSUME NEW i \in Entries, NEW l \in Kinds, NEW v \in Holders, At(i, l, v),
             stream[i] = Current(w)
      PROVE  i = first[w] /\ l \in {"open", "settled"} /\ (l = "open" => v = w)
  BY <1>1, <1>2, <1>3 DEF OneToken, Current
<1>5. ASSUME NEW i \in Entries, stream[i] = Current(w)
      PROVE  /\ ~Unread(i) /\ i \notin scheduled
             /\ \A v \in Workers : i \notin popped[v] /\ (i \in Again(v) => i = first[w] /\ v = w)
  <2>1. ~Unread(i)
    <3>1. Unread(i) => At(i, "unread", "nobody")
      BY DEF At
    <3> QED BY <1>3, <1>5, <3>1 DEF Kinds, Holders
  <2>2. i \notin scheduled
    <3>1. i \in scheduled => At(i, "scheduled", "nobody")
      BY DEF At
    <3> QED BY <1>3, <1>5, <3>1 DEF Kinds, Holders
  <2>3. ASSUME NEW v \in Workers PROVE i \notin popped[v]
    <3>1. i \in popped[v] => At(i, "popped", v)
      BY DEF At
    <3> QED BY <1>3, <1>5, <3>1 DEF Kinds, Holders
  <2>4. ASSUME NEW v \in Workers, i \in Again(v) PROVE i = first[w] /\ v = w
    <3>1. At(i, "open", v)
      BY <1>1, <2>4 DEF At
    <3> QED BY <1>3, <1>5, <3>1 DEF Kinds, Holders
  <2> QED BY <2>1, <2>2, <2>3, <2>4
<1>4. ASSUME NEW v \in Workers \ {w}, step[v] = "count", Current(v) = Current(w) PROVE FALSE
  <2>1. At(first[v], "open", v) /\ first[v] \in Entries
    BY <1>4, FirstOpen DEF At, Held
  <2>2. stream[first[v]] = Current(w)
    BY <1>4 DEF Current
  <2> QED BY <1>3, <2>1, <2>2 DEF Kinds, Holders
<1> QED BY <1>1, <1>4, <1>5 DEF AllPublished, Current

(* A step of w that changes a counter of its event, and none of another. *)
LEMMA CountedTouch ==
  ASSUME TypeInv, Counted, NEW w \in Workers, NEW c \in Events, OthersStay(w),
         UNCHANGED <<handler, stream, dead>>, handler[c] = "published",
         \A e \in Events \ {c} : failures'[e] = failures[e] /\ retryCount'[e] = retryCount[e],
         failures'[c] <= MaxRetries + 1,
         \A i \in Entries : Ready(i)' =>
           \/ Ready(i) /\ stream[i] # c
           \/ stream[i] = c /\ failures'[c] = retryCount'[c] /\ retryCount'[c] <= MaxRetries,
         \A v \in Workers \ {w} : step[v] = "count" => Current(v) # c,
         step'[w] # "clear",
         step'[w] = "count" => /\ first'[w] = first[w] /\ Current(w) = c
                              /\ failures'[c] = retryCount'[c] + 1 /\ retryCount'[c] <= MaxRetries
  PROVE  Counted'
<1>1. Entries' = Entries /\ \A i \in Entries : stream[i] \in Events
  BY DEF Entries, TypeInv, TypeOK
<1>2. ASSUME NEW i \in Entries, Ready(i)'
      PROVE  failures'[stream[i]] = retryCount'[stream[i]] /\ retryCount'[stream[i]] <= MaxRetries
  BY <1>1, <1>2 DEF Counted
<1>3. ASSUME NEW v \in Workers, step'[v] = "count"
      PROVE  /\ failures'[Current(v)'] = retryCount'[Current(v)'] + 1
             /\ retryCount'[Current(v)'] <= MaxRetries
  <2>1. CASE v = w
    BY <1>3, <2>1 DEF Current
  <2>2. CASE v # w
    <3>1. step[v] = "count" /\ Current(v)' = Current(v) /\ Current(v) \in Events \ {c}
      BY <1>3, <2>2, CurrentType DEF OthersStay, Current, Busy
    <3> QED BY <3>1 DEF Counted
  <2> QED BY <2>1, <2>2
<1>4. \A e \in Events : handler'[e] # "published" => failures'[e] = 0 /\ retryCount'[e] = 0
  BY DEF Counted
<1>5. \A e \in Events : failures'[e] <= MaxRetries + 1
  BY DEF Counted
<1>6. \A v \in Workers : step'[v] = "clear" => first'[v] \in dead'
  BY DEF Counted, OthersStay
<1>7. \A i \in Entries' : Ready(i)' =>
        failures'[stream'[i]] = retryCount'[stream'[i]] /\ retryCount'[stream'[i]] <= MaxRetries
  BY <1>1, <1>2
<1> QED BY <1>3, <1>4, <1>5, <1>6, <1>7 DEF Counted

LEMMA AttemptsTouch ==
  ASSUME TypeInv, TypeInv', OneToken, AllPublished, Counted, NEW w \in Workers,
         ProcessFails(w) \/ CountFailure(w) \/ ClearRetryKey(w)
  PROVE  Counted'
<1> USE DEF streamVars, retryVars, schedulerVars, outcomeVars
<1>1. PICK c \in Events : c = Current(w) /\ step[w] \in Busy
  BY CurrentType DEF ProcessFails, CountFailure, ClearRetryKey, Busy
<1>2. /\ UNCHANGED <<handler, stream, dead, cursor, scheduled, popped>>
      /\ failures \in [Events -> Nat] /\ retryCount \in [Events -> Nat]
  BY DEF ProcessFails, CountFailure, ClearRetryKey, TypeInv, TypeOK
<1>3. /\ \A i \in Entries : stream[i] = c =>
           /\ ~Unread(i) /\ i \notin scheduled
           /\ \A v \in Workers : i \notin popped[v] /\ (i \in Again(v) => i = first[w] /\ v = w)
      /\ \A v \in Workers \ {w} : step[v] = "count" => Current(v) # c
      /\ handler[c] = "published"
  BY <1>1, Alone DEF ProcessFails, CountFailure, ClearRetryKey, Held, Counted
<1>4. \A i : Unread(i)' <=> Unread(i)
  BY <1>2 DEF Unread
<1>5. first[w] \in Entries /\ stream[first[w]] = c
  BY <1>1, CurrentType DEF Current
<1>6. ASSUME OthersStay(w), Again(w)' \subseteq Again(w) \union {first[w]}, NEW i \in Entries, Ready(i)'
      PROVE  IF stream[i] = c THEN i = first[w] /\ i \in Again(w)' ELSE Ready(i)
  <2>1. \/ Unread(i) \/ i \in scheduled \/ i \in Again(w)'
        \/ \E v \in Workers : i \in popped[v]
        \/ \E v \in Workers \ {w} : i \in Again(v)
    BY <1>2, <1>4, <1>6, AgainStays DEF Ready
  <2>2. CASE stream[i] = c
    BY <1>3, <1>6, <2>1, <2>2
  <2>3. CASE stream[i] # c
    BY <1>5, <1>6, <2>1, <2>3 DEF Ready
  <2> QED BY <2>2, <2>3
<1>7. CASE ProcessFails(w)
  <2>1. /\ failures' = [failures EXCEPT ![c] = @ + 1] /\ GoTo(w, "count")
        /\ retryCount' = retryCount /\ step[w] = "process"
    BY <1>1, <1>7 DEF ProcessFails
  <2>2. /\ failures'[c] = failures[c] + 1 /\ retryCount'[c] = retryCount[c]
        /\ \A e \in Events \ {c} : failures'[e] = failures[e] /\ retryCount'[e] = retryCount[e]
    BY <1>2, <2>1
  <2>3. /\ OthersStay(w) /\ step'[w] = "count" /\ first'[w] = first[w]
        /\ Again(w)' \subseteq Again(w) /\ first[w] \notin Again(w)'
    BY <1>1, <2>1, AgainGoTo DEF Busy
  <2>4. first[w] \in Again(w)
    BY <1>1, <2>1 DEF Again, TypeInv, TypeOK, BatchOK
  <2>5. failures[c] = retryCount[c] /\ retryCount[c] <= MaxRetries
    BY <1>5, <2>4 DEF Counted, Ready
  <2>6. /\ failures'[c] = retryCount'[c] + 1 /\ retryCount'[c] <= MaxRetries
        /\ failures'[c] <= MaxRetries + 1
    BY <1>2, <2>2, <2>5, ConstantsAssumption
  <2>7. \A i \in Entries : Ready(i)' => Ready(i) /\ stream[i] # c
    BY <1>6, <2>3
  <2> QED BY <1>1, <1>2, <1>3, <2>2, <2>3, <2>6, <2>7, CountedTouch
<1>8. CASE CountFailure(w)
  <2>1. PICK next \in {"schedule", "bury"} :
          /\ retryCount' = [retryCount EXCEPT ![c] = @ + 1] /\ GoTo(w, next)
          /\ failures' = failures /\ step[w] = "count"
          /\ next = "schedule" => retryCount'[c] <= MaxRetries
    BY <1>1, <1>8 DEF CountFailure
  <2>2. /\ failures'[c] = failures[c] /\ retryCount'[c] = retryCount[c] + 1
        /\ \A e \in Events \ {c} : failures'[e] = failures[e] /\ retryCount'[e] = retryCount[e]
    BY <1>2, <2>1
  <2>3. /\ OthersStay(w) /\ step'[w] = next
        /\ Again(w)' \subseteq Again(w) \union {first[w]}
        /\ next = "bury" => first[w] \notin Again(w)'
    BY <1>1, <2>1, AgainGoTo DEF Busy
  <2>4. failures[c] = retryCount[c] + 1 /\ failures[c] <= MaxRetries + 1
    BY <1>1, <2>1 DEF Counted
  <2>5. failures'[c] = retryCount'[c] /\ failures'[c] <= MaxRetries + 1
    BY <2>2, <2>4
  <2>6. \A i \in Entries : Ready(i)' =>
          \/ Ready(i) /\ stream[i] # c
          \/ stream[i] = c /\ failures'[c] = retryCount'[c] /\ retryCount'[c] <= MaxRetries
    BY <1>6, <2>1, <2>3, <2>5
  <2> QED BY <1>2, <1>3, <2>1, <2>2, <2>3, <2>5, <2>6, CountedTouch
<1>9. CASE ClearRetryKey(w)
  <2>1. /\ retryCount' = [retryCount EXCEPT ![c] = 0] /\ GoTo(w, "ack")
        /\ failures' = failures
    BY <1>1, <1>9 DEF ClearRetryKey
  <2>2. /\ failures'[c] = failures[c]
        /\ \A e \in Events \ {c} : failures'[e] = failures[e] /\ retryCount'[e] = retryCount[e]
    BY <1>2, <2>1
  <2>3. /\ OthersStay(w) /\ step'[w] = "ack"
        /\ Again(w)' \subseteq Again(w) /\ first[w] \notin Again(w)'
    BY <1>1, <2>1, AgainGoTo DEF Busy
  <2>4. failures'[c] <= MaxRetries + 1
    BY <2>2 DEF Counted
  <2>5. \A i \in Entries : Ready(i)' => Ready(i) /\ stream[i] # c
    BY <1>6, <2>3
  <2> QED BY <1>2, <1>3, <2>2, <2>3, <2>4, <2>5, CountedTouch
<1> QED BY <1>7, <1>8, <1>9

LEMMA AttemptsInit == Init => AttemptsInv
<1> SUFFICES ASSUME Init PROVE Counted
  BY DEF AttemptsInv
<1>1. /\ Entries = {}
      /\ \A w \in Workers : step[w] = "idle"
      /\ \A e \in Events : failures[e] = 0 /\ retryCount[e] = 0
  BY DEF Init, Entries
<1> QED BY <1>1, ConstantsAssumption DEF Counted

LEMMA AttemptsStep ==
  ASSUME TypeInv, TypeInv', OneInv, AttemptsInv, [Next]_vars
  PROVE  AttemptsInv'
<1> SUFFICES ASSUME faulted' \intersect {"expiry", "reply"} = {} PROVE Counted'
  BY DEF AttemptsInv
<1>1. /\ Counted /\ OneToken /\ AllPublished
      /\ "reply" \notin faulted' /\ "expiry" \notin faulted'
  BY FaultsStay DEF AttemptsInv, OneInv
<1>2. ASSUME Sparing PROVE Counted'
  BY <1>1, <1>2, SparingCounted
<1>3. ASSUME NEW w \in Workers, Work(w) \/ WorkFails(w) PROVE Counted'
  BY <1>1, <1>2, <1>3, AttemptsConsume, AttemptsWork, AttemptsTouch DEF Work
<1>4. ASSUME NEW e \in Events, ExpireRetryKey(e) PROVE FALSE
  BY <1>1, <1>4 DEF ExpireRetryKey, Fault
<1> QED BY <1>1, <1>2, <1>3, <1>4, AttemptsOthers DEF Next

(* A poison event is attempted MaxRetries + 1 times at most, whichever        *)
(* workers read its copies and whatever calls fail or processes crash, as     *)
(* long as no reply is lost and its counter does not expire.                  *)
THEOREM AttemptsBoundedHolds == Spec => []AttemptsBounded
<1>1. AttemptsInv => AttemptsBounded
  BY DEF AttemptsInv, Counted, AttemptsBounded
<1> QED BY <1>1, OneInit, OneStep, AttemptsInit, AttemptsStep, TypeInvariant, PTL DEF Spec

-----------------------------------------------------------------------------
(* Every event leaves a trace.                                              *)

LEMMA OutcomesStay ==
  ASSUME [Next]_vars
  PROVE  processed \subseteq processed' /\ dead \subseteq dead'
<1> USE DEF outcomeVars
<1>1. ASSUME NEW e \in Events, Gateway(e) \/ ExpireRetryKey(e)
      PROVE  processed \subseteq processed' /\ dead \subseteq dead'
  BY <1>1 DEF Gateway, InsertSerialized, InsertFails, PublishEvent, PublishEventFails,
     ExpireRetryKey
<1>2. ASSUME NEW w \in Workers, Work(w) PROVE processed \subseteq processed' /\ dead \subseteq dead'
  BY <1>2 DEF Work, Consume, ProcessSucceeds, ProcessFails, CountFailure, ScheduleRetry,
     DeadLetter, ClearRetryKey, Ack
<1>3. ASSUME NEW w \in Workers, WorkFails(w) PROVE processed \subseteq processed' /\ dead \subseteq dead'
  BY <1>3 DEF WorkFails, ConsumeFails, CountFailureFails, ScheduleRetryFails,
     DeadLetterFails, ClearRetryKeyFails, AckFails, Panic
<1>4. ASSUME NEW w \in Workers, Retry(w) \/ RetryFails(w)
      PROVE  processed \subseteq processed' /\ dead \subseteq dead'
  BY <1>4 DEF Retry, RetryFails, ReadDue, RequeueDue, RemoveDue, RepublishDue,
     RequeueDueFails, RemoveDueFails, RepublishDueFails
<1>5. ASSUME NEW w \in Workers, Crash(w) \/ Restart(w)
      PROVE  processed \subseteq processed' /\ dead \subseteq dead'
  BY <1>5 DEF Crash, Restart
<1>6. CASE UNCHANGED vars
  BY <1>6 DEF vars
<1> QED BY <1>1, <1>2, <1>3, <1>4, <1>5, <1>6 DEF Next

(* A scheduled retry is republished, put back, or has still to be. *)
LEMMA RetriesStay ==
  ASSUME TypeInv, [Next]_vars, faulted' \intersect {"scheduler", "crash"} = {},
         NEW i \in Entries, i \in scheduled \/ \E w \in Workers : i \in popped[w]
  PROVE  \/ i \in scheduled'
         \/ \E w \in Workers : i \in popped'[w]
         \/ stream' = Append(stream, stream[i])
<1> USE DEF retryVars, schedulerVars, Fault
<1>p. popped \in [Workers -> SUBSET Entries]
  BY DEF TypeInv, TypeOK
<1>1. ASSUME UNCHANGED popped, scheduled \subseteq scheduled'
      PROVE  i \in scheduled' \/ \E w \in Workers : i \in popped'[w]
  BY <1>1
<1>2. ASSUME NEW e \in Events, Gateway(e) \/ ExpireRetryKey(e)
      PROVE  UNCHANGED popped /\ scheduled \subseteq scheduled'
  BY <1>2 DEF Gateway, InsertSerialized, InsertFails, PublishEvent, PublishEventFails,
     ExpireRetryKey
<1>3. ASSUME NEW w \in Workers, Work(w) \/ WorkFails(w) \/ Crash(w) \/ Restart(w)
      PROVE  UNCHANGED popped /\ scheduled \subseteq scheduled'
  BY <1>3 DEF Work, Consume, ProcessSucceeds, ProcessFails, CountFailure, ScheduleRetry,
     DeadLetter, ClearRetryKey, Ack, WorkFails, ConsumeFails, CountFailureFails,
     ScheduleRetryFails, DeadLetterFails, ClearRetryKeyFails, AckFails, Panic, Crash, Restart
<1>4. ASSUME NEW w \in Workers, RetryFails(w) PROVE FALSE
  BY <1>4 DEF RetryFails, RequeueDueFails, RemoveDueFails, RepublishDueFails
<1>5. ASSUME NEW w \in Workers, ReadDue(w)
      PROVE  UNCHANGED popped /\ scheduled \subseteq scheduled'
  BY <1>5 DEF ReadDue
<1>6. ASSUME NEW w \in Workers, RequeueDue(w)
      PROVE  i \in scheduled' \/ \E v \in Workers : i \in popped'[v]
  <2>1. /\ scheduled' = scheduled \union popped[w]
        /\ \A v \in Workers \ {w} : popped'[v] = popped[v]
    BY <1>6, <1>p DEF RequeueDue
  <2> QED BY <2>1
<1>7. ASSUME NEW w \in Workers, NEW j \in due[w], RemoveDue(w, j)
      PROVE  i \in scheduled' \/ \E v \in Workers : i \in popped'[v]
  <2>1. /\ scheduled' = scheduled \ {j}
        /\ popped'[w] = popped[w] \union ({j} \intersect scheduled)
        /\ \A v \in Workers \ {w} : popped'[v] = popped[v]
    BY <1>7, <1>p DEF RemoveDue
  <2> QED BY <2>1
<1>8. ASSUME NEW w \in Workers, NEW j \in popped[w], RepublishDue(w, j)
      PROVE  \/ i \in scheduled'
             \/ \E v \in Workers : i \in popped'[v]
             \/ stream' = Append(stream, stream[i])
  <2>1. /\ scheduled' = scheduled /\ stream' = Append(stream, stream[j])
        /\ popped'[w] = popped[w] \ {j}
        /\ \A v \in Workers \ {w} : popped'[v] = popped[v]
    BY <1>8, <1>p DEF RepublishDue
  <2> QED BY <2>1
<1>9. CASE UNCHANGED vars
  BY <1>9, <1>1 DEF vars
<1> QED BY <1>1, <1>2, <1>3, <1>4, <1>5, <1>6, <1>7, <1>8, <1>9 DEF Next, Retry

LEMMA KeptStays ==
  ASSUME TypeInv, [Next]_vars, faulted' \intersect {"scheduler", "crash"} = {},
         NEW i \in Entries, Kept(i)
  PROVE  Kept(i)'
<1>1. CASE Settled(i)
  BY <1>1, OutcomesStay DEF Settled, Kept
<1>2. CASE Succeeded(i)
  BY <1>2, StreamGrows DEF Succeeded, Kept
<1>3. CASE stream' = Append(stream, stream[i])
  <2>1. stream \in Seq(Events) /\ Len(stream) \in Nat /\ i \in 1 .. Len(stream)
    BY DEF TypeInv, TypeOK, Entries
  <2>2. /\ Len(stream) + 1 \in Entries' /\ Len(stream) + 1 > i
        /\ stream'[Len(stream) + 1] = stream[i] /\ stream'[i] = stream[i]
    BY <1>3, <2>1 DEF Entries
  <2> QED BY <2>2 DEF Kept, Succeeded
<1>4. CASE i \in scheduled \/ \E w \in Workers : i \in popped[w]
  BY <1>3, <1>4, RetriesStay DEF Kept
<1> QED BY <1>1, <1>2, <1>4 DEF Kept

(* Deliveries leave the pending list by an ack only. *)
LEMMA PendingStays ==
  ASSUME TypeInv, [Next]_vars
  PROVE  /\ \A k \in Entries : Unread(k) => Unread(k)' \/ k \in pending'
         /\ \A k \in Entries' \ Entries : Unread(k)'
         /\ \A k \in pending : k \in pending' \/ \E w \in Workers : step[w] = "ack" /\ k = first[w]
<1> USE DEF streamVars
<1>t. /\ cursor \in Nat /\ Len(stream) \in Nat /\ cursor <= Len(stream)
      /\ stream \in Seq(Events) /\ Entries = 1 .. Len(stream)
  BY DEF TypeInv, TypeOK, Entries
<1>1. ASSUME cursor' = cursor
      PROVE  /\ \A k \in Entries : Unread(k) => Unread(k)'
             /\ \A k \in Entries' \ Entries : Unread(k)'
  <2>1. CASE stream' = stream
    BY <1>1, <2>1 DEF Unread, Entries
  <2>2. ASSUME NEW e \in Events, stream' = Append(stream, e)
        PROVE  /\ \A k \in Entries : Unread(k) => Unread(k)'
               /\ \A k \in Entries' \ Entries : Unread(k)'
    <3>1. Len(stream') = Len(stream) + 1 /\ Entries' = 1 .. Len(stream) + 1
      BY <1>t, <2>2 DEF Entries
    <3> QED BY <1>1, <1>t, <3>1 DEF Unread
  <2> QED BY <2>1, <2>2, StreamAppends
<1>2. ASSUME Deliver, stream' = stream
      PROVE  /\ \A k \in Entries : Unread(k) => Unread(k)' \/ k \in pending'
             /\ \A k \in Entries' \ Entries : Unread(k)'
             /\ pending \subseteq pending'
  <2>1. PICK B \in cursor .. Len(stream) : B = BatchEnd
    BY BatchEndInStream DEF TypeInv
  <2>2. cursor' = B /\ pending' = pending \union (cursor + 1 .. B) /\ Entries' = Entries
    BY <1>2, <2>1 DEF Deliver, Entries
  <2>3. \A k \in Entries : k \in cursor + 1 .. Len(stream) => k \in B + 1 .. Len(stream) \/ k \in cursor + 1 .. B
    BY <1>t, <2>1
  <2> QED BY <1>2, <2>2, <2>3 DEF Unread
<1>3. ASSUME NEW w \in Workers, Consume(w) \/ ConsumeFails(w)
      PROVE  /\ Deliver \/ UNCHANGED <<cursor, pending>>
             /\ stream' = stream
  BY <1>3 DEF Consume, ConsumeFails
<1>4. ASSUME NEW w \in Workers, Ack(w) \/ AckFails(w)
      PROVE  /\ cursor' = cursor /\ step[w] = "ack"
             /\ pending' = pending \/ pending' = pending \ {first[w]}
  BY <1>4 DEF Ack, AckFails
<1>5. \/ \E w \in Workers : Consume(w) \/ ConsumeFails(w) \/ Ack(w) \/ AckFails(w)
      \/ UNCHANGED <<cursor, pending>>
  <2>1. ASSUME NEW e \in Events, Gateway(e) \/ ExpireRetryKey(e)
        PROVE  UNCHANGED <<cursor, pending>>
    BY <2>1 DEF Gateway, InsertSerialized, InsertFails, PublishEvent, PublishEventFails,
       ExpireRetryKey
  <2>2. ASSUME NEW w \in Workers, Work(w), ~Consume(w), ~Ack(w) PROVE UNCHANGED <<cursor, pending>>
    BY <2>2 DEF Work, ProcessSucceeds, ProcessFails, CountFailure, ScheduleRetry,
       DeadLetter, ClearRetryKey
  <2>3. ASSUME NEW w \in Workers, WorkFails(w), ~ConsumeFails(w), ~AckFails(w)
        PROVE  UNCHANGED <<cursor, pending>>
    BY <2>3 DEF WorkFails, CountFailureFails, ScheduleRetryFails, DeadLetterFails,
       ClearRetryKeyFails, Panic
  <2>4. ASSUME NEW w \in Workers, Retry(w) \/ RetryFails(w) \/ Crash(w) \/ Restart(w)
        PROVE  UNCHANGED <<cursor, pending>>
    BY <2>4 DEF Retry, RetryFails, ReadDue, RequeueDue, RemoveDue, RepublishDue,
       RequeueDueFails, RemoveDueFails, RepublishDueFails, Crash, Restart
  <2>5. CASE UNCHANGED vars
    BY <2>5 DEF vars
  <2> QED BY <2>1, <2>2, <2>3, <2>4, <2>5 DEF Next
<1> QED BY <1>1, <1>2, <1>3, <1>4, <1>5

\* What a step other than a read does to the batch of w.
Progress(w) ==
  \/ step[w] \in Busy /\ NextDelivery(w)
  \/ \E how \in {"exited", "down"} : Abandon(w, how)
  \/ step[w] \in Held /\ \E next \in Held \ {"process"} : GoTo(w, next)
  \/ /\ step[w] \in Held
     /\ \E next \in {"clear", "ack"} : GoTo(w, next)
     /\ first[w] \in scheduled' \union processed' \union dead'
  \/ step[w] = "clear" /\ GoTo(w, "ack")
  \/ step[w] = "down" /\ GoTo(w, "idle")

LEMMA TaskSteps ==
  ASSUME [Next]_vars
  PROVE  UNCHANGED taskVars \/ \E w \in Workers : Consume(w) \/ Progress(w)
<1>1. ASSUME NEW e \in Events, Gateway(e) \/ ExpireRetryKey(e) PROVE UNCHANGED taskVars
  BY <1>1 DEF Gateway, InsertSerialized, InsertFails, PublishEvent, PublishEventFails,
     ExpireRetryKey
<1>2. ASSUME NEW w \in Workers, Work(w), ~Consume(w) PROVE Progress(w)
  BY <1>2 DEF Work, ProcessSucceeds, ProcessFails, CountFailure, ScheduleRetry,
     DeadLetter, ClearRetryKey, Ack, Progress, Held, Busy
<1>3. ASSUME NEW w \in Workers, WorkFails(w) PROVE Progress(w)
  BY <1>3 DEF WorkFails, ConsumeFails, CountFailureFails, ScheduleRetryFails,
     DeadLetterFails, ClearRetryKeyFails, AckFails, Panic, Progress, Busy
<1>4. ASSUME NEW w \in Workers, Retry(w) \/ RetryFails(w) PROVE UNCHANGED taskVars
  BY <1>4 DEF Retry, RetryFails, ReadDue, RequeueDue, RemoveDue, RepublishDue,
     RequeueDueFails, RemoveDueFails, RepublishDueFails
<1>5. ASSUME NEW w \in Workers, Crash(w) \/ Restart(w) PROVE Progress(w)
  BY <1>5 DEF Crash, Restart, Progress
<1>6. CASE UNCHANGED vars
  BY <1>6 DEF vars
<1> QED BY <1>1, <1>2, <1>3, <1>4, <1>5, <1>6 DEF Next

LEMMA BatchProgress ==
  ASSUME TypeInv, NEW w \in Workers, Progress(w)
  PROVE  OthersStay(w) /\ Batch(w)' \subseteq Batch(w)
<1>1. /\ step \in [Workers -> Steps] /\ first \in [Workers -> Nat] /\ last \in [Workers -> Nat]
      /\ step[w] \in Busy => first[w] <= last[w]
  BY DEF TypeInv, TypeOK, BatchOK
<1>2. CASE step[w] \in Busy /\ NextDelivery(w)
  <2>1. OthersStay(w)
    BY <1>2, AgainNext
  <2>2. CASE first[w] < last[w]
    <3>1. step'[w] = "process" /\ first'[w] = first[w] + 1 /\ last'[w] = last[w]
      BY <1>1, <1>2, <2>2 DEF NextDelivery
    <3> QED BY <1>1, <1>2, <2>1, <3>1 DEF Batch, Busy
  <2>3. CASE ~(first[w] < last[w])
    <3>1. step'[w] = "idle"
      BY <1>1, <1>2, <2>3 DEF NextDelivery
    <3> QED BY <2>1, <3>1 DEF Batch, Busy
  <2> QED BY <2>2, <2>3
<1>3. CASE \E how \in {"exited", "down"} : Abandon(w, how)
  <2>1. PICK how \in {"exited", "down"} : step'[w] = how /\ OthersStay(w)
    BY <1>3, AgainAbandon
  <2> QED BY <2>1 DEF Batch, Busy
<1>4. CASE /\ \E next : GoTo(w, next)
           /\ step[w] \in Busy \/ step'[w] \notin Busy
  <2>1. /\ first' = first /\ last' = last /\ OthersStay(w)
    BY <1>1, <1>4 DEF GoTo, OthersStay
  <2> QED BY <1>4, <2>1 DEF Batch
<1>5. step[w] = "down" /\ GoTo(w, "idle") => step'[w] \notin Busy
  BY <1>1 DEF GoTo, Busy
<1> QED BY <1>2, <1>3, <1>4, <1>5 DEF Progress, Held, Busy

LEMMA BatchStays ==
  ASSUME NEW w \in Workers, OthersStay(w)
  PROVE  \A v \in Workers \ {w} : Batch(v)' = Batch(v)
BY DEF OthersStay, Batch

LEMMA BatchConsume ==
  ASSUME TypeInv, NEW w \in Workers, Consume(w)
  PROVE  /\ OthersStay(w) /\ step'[w] = "process"
         /\ Batch(w)' \subseteq pending'
         /\ first'[w] \in pending'
         /\ \A i \in Batch(w)' : i > cursor
<1>1. PICK B : B = BatchEnd
  OBVIOUS
<1>2. B \in cursor + 1 .. Len(stream) /\ cursor \in Nat /\ Len(stream) \in Nat
  BY <1>1, BatchEndInStream DEF Consume, TypeInv, TypeOK
<1>3. /\ step' = [step EXCEPT ![w] = "process"]
      /\ first' = [first EXCEPT ![w] = cursor + 1]
      /\ last' = [last EXCEPT ![w] = B]
      /\ pending' = pending \union (cursor + 1 .. B)
  BY <1>1 DEF Consume, Deliver
<1>4. step'[w] = "process" /\ first'[w] = cursor + 1 /\ last'[w] = B /\ OthersStay(w)
  BY <1>3 DEF TypeInv, TypeOK, OthersStay
<1>5. Batch(w)' = cursor + 1 .. B
  BY <1>4 DEF Batch, Busy
<1> QED BY <1>2, <1>3, <1>4, <1>5

LEMMA BatchInStream ==
  ASSUME TypeInv, NEW w \in Workers
  PROVE  /\ \A i \in Batch(w) : i \in Entries /\ i <= cursor
         /\ step[w] \in Busy => first[w] \in Batch(w)
BY DEF TypeInv, TypeOK, BatchOK, Batch, Entries

LEMMA DisjointStep ==
  ASSUME TypeInv, Disjoint, [Next]_vars
  PROVE  Disjoint'
<1>1. CASE UNCHANGED taskVars
  <2>1. \A v \in Workers : Batch(v)' = Batch(v)
    BY <1>1 DEF taskVars, Batch
  <2> QED BY <2>1 DEF Disjoint
<1>2. ASSUME NEW w \in Workers, Consume(w) PROVE Disjoint'
  <2>1. \A v \in Workers \ {w} : Batch(v)' = Batch(v) /\ Batch(v) \intersect Batch(w)' = {}
    <3>1. \A v \in Workers \ {w} : Batch(v)' = Batch(v)
      BY <1>2, BatchConsume, BatchStays
    <3>2. \A i \in Batch(w)' : i > cursor
      BY <1>2, BatchConsume
    <3>3. \A v \in Workers : \A i \in Batch(v) : i \in Nat /\ i <= cursor
      BY SMTT(30), BatchInStream DEF Entries, TypeInv, TypeOK
    <3>4. cursor \in Nat
      BY DEF TypeInv, TypeOK
    <3> QED BY <3>1, <3>2, <3>3, <3>4
  <2> QED BY <2>1 DEF Disjoint
<1>3. ASSUME NEW w \in Workers, Progress(w) PROVE Disjoint'
  <2>1. Batch(w)' \subseteq Batch(w) /\ \A v \in Workers \ {w} : Batch(v)' = Batch(v)
    BY <1>3, BatchProgress, BatchStays
  <2> QED BY <2>1 DEF Disjoint
<1> QED BY <1>1, <1>2, <1>3, TaskSteps

LEMMA LastEntriesStep ==
  ASSUME TypeInv, LastEntries, [Next]_vars
  PROVE  LastEntries'
<1>1. CASE stream' = stream
  BY <1>1 DEF LastEntries, Entries
<1>2. ASSUME NEW e \in Events, stream' = Append(stream, e) PROVE LastEntries'
  <2>1. PICK n \in Nat : n = Len(stream) /\ Entries = 1 .. n
    BY DEF TypeInv, TypeOK, Entries
  <2>2. /\ Entries' = 1 .. n + 1 /\ stream'[n + 1] = e
        /\ \A i \in 1 .. n : stream'[i] = stream[i]
    BY <1>2, <2>1 DEF TypeInv, TypeOK, Entries
  <2>3. ASSUME NEW k \in 1 .. n + 1, stream'[k] = e
        PROVE  \E i \in 1 .. n + 1 : /\ stream'[i] = stream'[k]
                                     /\ \A j \in 1 .. n + 1 : stream'[j] = stream'[k] => j <= i
    <3>1. n + 1 \in 1 .. n + 1 /\ \A j \in 1 .. n + 1 : j <= n + 1
      OBVIOUS
    <3> QED BY <2>2, <2>3, <3>1
  <2>4. ASSUME NEW k \in 1 .. n + 1, stream'[k] # e
        PROVE  \E i \in 1 .. n + 1 : /\ stream'[i] = stream'[k]
                                     /\ \A j \in 1 .. n + 1 : stream'[j] = stream'[k] => j <= i
    <3>1. k \in 1 .. n
      BY <2>2, <2>4
    <3>2. PICK i \in 1 .. n : stream[i] = stream[k] /\ \A j \in 1 .. n : stream[j] = stream[k] => j <= i
      BY <2>1, <3>1 DEF LastEntries
    <3>3. stream'[i] = stream'[k] /\ i \in 1 .. n + 1
      BY <2>2, <3>1, <3>2
    <3>4. ASSUME NEW j \in 1 .. n + 1, stream'[j] = stream'[k] PROVE j <= i
      <4>1. j \in 1 .. n
        BY <2>2, <2>4, <3>4
      <4> QED BY <2>2, <3>1, <3>2, <3>4, <4>1
    <3> QED BY <3>3, <3>4
  <2>5. \A k \in 1 .. n + 1 : \E i \in 1 .. n + 1 :
          stream'[i] = stream'[k] /\ \A j \in 1 .. n + 1 : stream'[j] = stream'[k] => j <= i
    BY <2>3, <2>4
  <2> QED BY <2>2, <2>5 DEF LastEntries
<1> QED BY <1>1, <1>2, StreamAppends

(* A batch of which no delivery was finished in the step is still pending. *)
LEMMA AccountedStays ==
  ASSUME TypeInv, Disjoint, Remembered, [Next]_vars,
         faulted' \intersect {"scheduler", "crash"} = {},
         NEW w \in Workers, step'[w] = step[w], first'[w] = first[w], last'[w] = last[w]
  PROVE  Accounted(w)'
<1> SUFFICES ASSUME step[w] \in Busy PROVE Accounted(w)'
  BY DEF Accounted
<1>1. Batch(w)' = Batch(w) /\ Accounted(w) /\ first[w] \in Batch(w) /\ Batch(w) \subseteq Entries
  BY BatchInStream DEF Batch, Remembered
<1>2. ASSUME NEW i \in Batch(w), i \in pending, ~(step[w] = "ack" /\ i = first[w])
      PROVE  i \in pending'
  <2>1. ASSUME NEW v \in Workers, step[v] = "ack", i = first[v] PROVE FALSE
    <3>1. v # w /\ first[v] \in Batch(v)
      BY <1>2, <2>1, BatchInStream DEF Busy
    <3> QED BY <2>1, <3>1 DEF Disjoint
  <2> QED BY <1>2, <2>1, PendingStays
<1>3. CASE step[w] \in {"clear", "ack"}
  <2>1. PICK n \in Entries : n = first[w]
    BY <1>1
  <2>2. Kept(n)'
    BY <1>1, <1>3, <2>1, KeptStays DEF Accounted
  <2>3. first'[w] = n /\ step'[w] \in {"clear", "ack"}
    BY <1>3, <2>1
  <2>4. \A i \in Batch(w)' : i # n => i \in pending'
    BY <1>1, <1>2, <1>3, <2>1 DEF Accounted
  <2>5. Kept(first[w])'
    BY <2>2, <2>3 DEF Kept, Settled, Succeeded
  <2> QED BY <2>3, <2>4, <2>5 DEF Accounted
<1>4. CASE step[w] \notin {"clear", "ack"}
  BY <1>1, <1>2, <1>4 DEF Accounted
<1> QED BY <1>3, <1>4

LEMMA AccountedProgress ==
  ASSUME TypeInv, Disjoint, Remembered, [Next]_vars,
         faulted' \intersect {"scheduler", "crash"} = {},
         NEW w \in Workers, Progress(w)
  PROVE  Accounted(w)'
<1>1. /\ step \in [Workers -> Steps] /\ first \in [Workers -> Nat] /\ last \in [Workers -> Nat]
      /\ step[w] \in Busy => first[w] <= last[w]
  BY DEF TypeInv, TypeOK, BatchOK
<1>2. /\ Accounted(w) /\ Batch(w)' \subseteq Batch(w) /\ Batch(w) \subseteq Entries
      /\ step[w] \in Busy => first[w] \in Batch(w) /\ first[w] \in Entries
  BY BatchProgress, BatchInStream DEF Remembered
<1>3. ASSUME NEW i \in Batch(w), step[w] \in Busy, i \in pending, ~(step[w] = "ack" /\ i = first[w])
      PROVE  i \in pending'
  <2>1. ASSUME NEW v \in Workers, step[v] = "ack", i = first[v] PROVE FALSE
    <3>1. v # w /\ first[v] \in Batch(v)
      BY <1>3, <2>1, BatchInStream DEF Busy
    <3> QED BY <2>1, <3>1 DEF Disjoint
  <2> QED BY <1>3, <2>1, PendingStays
<1>4. CASE step[w] \in Busy /\ NextDelivery(w)
  <2>1. CASE first[w] < last[w]
    <3>1. step'[w] = "process" /\ first'[w] = first[w] + 1 /\ last'[w] = last[w]
      BY <1>1, <1>4, <2>1 DEF NextDelivery
    <3>2. \A i \in Batch(w)' : i \in Batch(w) /\ i # first[w] /\ i \in pending'
      <4>1. \A i \in Batch(w)' : i \in Batch(w) /\ i # first[w]
        BY <1>1, <1>2, <1>4, <3>1 DEF Batch, Busy
      <4> QED BY <1>2, <1>3, <1>4, <4>1 DEF Accounted
    <3>3. first'[w] \in Batch(w)'
      BY <1>1, <1>4, <2>1, <3>1 DEF Batch, Busy
    <3> QED BY <3>1, <3>2, <3>3 DEF Accounted
  <2>2. CASE ~(first[w] < last[w])
    <3>1. step'[w] = "idle"
      BY <1>1, <1>4, <2>2 DEF NextDelivery
    <3> QED BY <3>1 DEF Accounted, Busy
  <2> QED BY <2>1, <2>2
<1>5. CASE \E how \in {"exited", "down"} : Abandon(w, how)
  BY <1>5, AgainAbandon DEF Accounted, Busy
<1>6. ASSUME NEW next \in Held, step[w] \in Held, GoTo(w, next) PROVE Accounted(w)'
  <2>1. step'[w] = next /\ first'[w] = first[w] /\ step[w] \in Busy
    BY <1>1, <1>6 DEF GoTo, Held, Busy
  <2>2. \A i \in Batch(w) : i \in pending /\ i \in pending'
    BY <1>2, <1>3, <1>6, <2>1 DEF Accounted, Held, Busy
  <2> QED BY <1>2, <1>6, <2>1, <2>2 DEF Accounted, Held
<1>7. ASSUME NEW next \in {"clear", "ack"}, step[w] \in Busy \ {"ack"}, GoTo(w, next), Kept(first[w])'
      PROVE Accounted(w)'
  <2>1. step'[w] = next /\ first'[w] = first[w] /\ step[w] \in Busy
    BY <1>1, <1>7 DEF GoTo
  <2>2. \A i \in Batch(w) : i # first[w] => i \in pending'
    BY <1>2, <1>3, <1>7, <2>1 DEF Accounted
  <2> QED BY <1>2, <1>7, <2>1, <2>2 DEF Accounted
<1>8. ASSUME NEW next \in {"clear", "ack"}, step[w] \in Held, GoTo(w, next),
             first[w] \in scheduled' \union processed' \union dead'
      PROVE  Accounted(w)'
  <2>1. first'[w] = first[w]
    BY <1>8 DEF GoTo
  <2>2. Kept(first[w])'
    BY <1>8, <2>1 DEF Kept, Settled
  <2> QED BY <1>7, <1>8, <2>2 DEF Held, Busy
<1>9. CASE step[w] = "clear" /\ GoTo(w, "ack")
  <2>1. PICK n \in Entries : n = first[w] /\ Kept(n)
    BY <1>2, <1>9 DEF Accounted, Busy
  <2>2. Kept(n)' /\ first'[w] = n
    BY <1>9, <2>1, KeptStays DEF GoTo
  <2>3. Kept(first[w])'
    BY <2>2 DEF Kept, Settled, Succeeded
  <2> QED BY <1>7, <1>9, <2>3 DEF Busy
<1>10. CASE step[w] = "down" /\ GoTo(w, "idle")
  <2>1. step'[w] = "idle"
    BY <1>1, <1>10 DEF GoTo
  <2> QED BY <2>1 DEF Accounted, Busy
<1> QED BY <1>4, <1>5, <1>6, <1>8, <1>9, <1>10 DEF Progress

LEMMA RememberedStep ==
  ASSUME TypeInv, TypeInv', Disjoint, Remembered, [Next]_vars,
         faulted' \intersect {"scheduler", "crash"} = {}
  PROVE  Remembered'
<1>1. ASSUME NEW k \in Entries' PROVE Unread(k)' \/ k \in pending' \/ Kept(k)'
  <2>1. CASE k \notin Entries
    BY <2>1, PendingStays
  <2>2. CASE k \in Entries /\ Unread(k)
    BY <2>2, PendingStays
  <2>3. CASE k \in Entries /\ Kept(k)
    BY <2>3, KeptStays
  <2>4. CASE k \in Entries /\ k \in pending
    <3>1. ASSUME NEW w \in Workers, step[w] = "ack", k = first[w] PROVE Kept(k)
      BY <3>1 DEF Remembered, Accounted, Busy
    <3> QED BY <2>4, <3>1, PendingStays, KeptStays
  <2> QED BY <2>1, <2>2, <2>3, <2>4 DEF Remembered
<1>2. ASSUME NEW w \in Workers PROVE Accounted(w)'
  <2>1. CASE step'[w] = step[w] /\ first'[w] = first[w] /\ last'[w] = last[w]
    BY <2>1, AccountedStays
  <2>2. CASE Consume(w)
    BY <2>2, BatchConsume DEF Accounted
  <2>3. CASE Progress(w)
    BY <2>3, AccountedProgress
  <2>4. ASSUME NEW v \in Workers \ {w}, Consume(v) \/ Progress(v) PROVE Accounted(w)'
    <3>1. OthersStay(v)
      BY <2>4, BatchConsume, BatchProgress
    <3> QED BY <2>1, <3>1 DEF OthersStay
  <2>5. CASE UNCHANGED taskVars
    BY <2>1, <2>5 DEF taskVars
  <2> QED BY <2>2, <2>3, <2>4, <2>5, TaskSteps
<1> QED BY <1>1, <1>2 DEF Remembered

LEMMA TraceInit == Init => TraceInv
<1> SUFFICES ASSUME Init PROVE TraceInv
  OBVIOUS
<1>1. Entries = {} /\ \A w \in Workers : step[w] = "idle"
  BY DEF Init, Entries
<1>2. \A w \in Workers : Batch(w) = {}
  BY <1>1 DEF Batch, Busy
<1> QED BY <1>1, <1>2 DEF TraceInv, Disjoint, LastEntries, Remembered, Accounted, Busy

LEMMA TraceStep ==
  ASSUME TypeInv, TypeInv', TraceInv, [Next]_vars
  PROVE  TraceInv'
<1>1. Disjoint' /\ LastEntries'
  BY DisjointStep, LastEntriesStep DEF TraceInv
<1>2. ASSUME faulted' \intersect {"scheduler", "crash"} = {} PROVE Remembered'
  BY <1>2, FaultsStay, RememberedStep DEF TraceInv
<1> QED BY <1>1, <1>2 DEF TraceInv

(* Whatever fails in the gateway and in the stream workers, and whichever     *)
(* counters expire, a queued event keeps a trace in Redis or in the memory    *)
(* of a scheduler: only the schedulers and their crashes can make one vanish. *)
THEOREM NothingVanishesHolds == Spec => []NothingVanishes
<1>1. TypeInv /\ TraceInv => NothingVanishes
  <2> SUFFICES ASSUME TypeInv, TraceInv, faulted \intersect {"scheduler", "crash"} = {}, NEW k \in Entries
               PROVE  \E i \in Entries : stream[i] = stream[k] /\ Traced(i)
    BY DEF NothingVanishes
  <2>1. PICK i \in Entries : stream[i] = stream[k] /\ \A j \in Entries : stream[j] = stream[k] => j <= i
    BY DEF TraceInv, LastEntries
  <2>2. i \in Int /\ \A j \in Entries : j \in Int
    BY DEF TypeInv, TypeOK, Entries
  <2>3. ~Succeeded(i)
    BY <2>1, <2>2 DEF Succeeded
  <2>4. Unread(i) \/ i \in pending \/ Kept(i)
    BY DEF TraceInv, Remembered
  <2>5. Traced(i)
    BY <2>3, <2>4 DEF Kept, Traced
  <2> QED BY <2>1, <2>5
<1> QED BY <1>1, TraceInit, TraceStep, TypeInvariant, PTL DEF Spec

-----------------------------------------------------------------------------
(* The pipeline implements the ledger.  As long as no reply is lost, the    *)
(* place of an event's token determines its status in the ledger; a step is *)
(* read backwards, from where a token is to where it came from.             *)

\* The status of an event by the place of its token.
Placed(e, i, k, w) == stream[i] = e /\ At(i, k, w)

\* The status of the delivery w has in hand.
Handled(w) == IF step[w] = "process" THEN "running" ELSE "failed"

StatusByPlace ==
  \A e \in Events : \A i \in Entries :
    /\ \A w \in Holders : Placed(e, i, "unread", w) => Status(e) = "queued"
    /\ \A w \in Holders : Placed(e, i, "scheduled", w) => Status(e) = "backoff"
    /\ \A w \in Holders : Placed(e, i, "popped", w) => Status(e) = "backoff"
    /\ \A w \in Workers : Placed(e, i, "open", w) =>
         Status(e) = IF step[w] \in Held /\ i = first[w] THEN Handled(w) ELSE "queued"
    /\ stream[i] = e /\ i \in processed => Status(e) = "done"
    /\ stream[i] = e /\ i \in dead \ processed => Status(e) = "dead"

LEMMA PlacesGiveStatus ==
  ASSUME TypeInv, OneToken
  PROVE  StatusByPlace
<1>t. /\ dead \subseteq Entries /\ processed \subseteq Entries /\ scheduled \subseteq Entries
      /\ popped \in [Workers -> SUBSET Entries]
      /\ stream \in Seq(Events) /\ cursor \in Nat
      /\ "nobody" \in Holders /\ Workers \subseteq Holders
  BY DEF TypeInv, TypeOK, Holders
<1> DEFINE Token(e, j, l, v) == j \in Entries /\ stream[j] = e /\ At(j, l, v)
<1>1. \A e : Among(processed, e) \/ Among(dead, e) => \E j : Token(e, j, "settled", "nobody")
  BY <1>t DEF Among, At, Settled
<1>2. \A e : \A w \in Workers : Attempting(w, e) \/ Deciding(w, e) =>
        Token(e, first[w], "open", w) /\ step[w] \in Held
  BY FirstOpen DEF Attempting, Deciding, Current, At, Held
<1>3. \A e : Among(Waiting, e) =>
        \E j : Token(e, j, "scheduled", "nobody") \/ \E w \in Workers : Token(e, j, "popped", w)
  BY <1>t DEF Among, Waiting, At
<1> SUFFICES ASSUME NEW e \in Events, NEW i \in Entries, stream[i] = e
             PROVE  /\ \A w \in Holders : At(i, "unread", w) => Status(e) = "queued"
                    /\ \A w \in Holders : At(i, "scheduled", w) => Status(e) = "backoff"
                    /\ \A w \in Holders : At(i, "popped", w) => Status(e) = "backoff"
                    /\ \A w \in Workers : At(i, "open", w) =>
                         Status(e) = IF step[w] \in Held /\ i = first[w] THEN Handled(w) ELSE "queued"
                    /\ i \in processed => Status(e) = "done"
                    /\ i \in dead \ processed => Status(e) = "dead"
  BY Zenon DEF StatusByPlace, Placed
<1>5. ASSUME NEW k \in Kinds, NEW w \in Holders, At(i, k, w), NEW j, NEW l \in Kinds,
             NEW v \in Holders, Token(e, j, l, v)
      PROVE  i = j /\ k = l /\ w = v
  BY <1>5 DEF OneToken
<1> HIDE DEF Token
<1>6. ASSUME NEW k \in Kinds, NEW w \in Holders, At(i, k, w)
      PROVE  /\ k # "settled" => ~Among(processed, e) /\ ~Among(dead, e)
             /\ \A v \in Workers : Attempting(v, e) \/ Deciding(v, e) =>
                  k = "open" /\ v = w /\ i = first[v] /\ step[v] \in Held
             /\ k \notin {"scheduled", "popped"} => ~Among(Waiting, e)
  <2>1. k # "settled" => ~Among(processed, e) /\ ~Among(dead, e)
    <3> SUFFICES ASSUME Among(processed, e) \/ Among(dead, e) PROVE k = "settled"
      OBVIOUS
    <3>1. PICK j : Token(e, j, "settled", "nobody")
      BY <1>1
    <3> QED BY <3>1, <1>t, <1>5, <1>6 DEF Kinds
  <2>2. ASSUME NEW v \in Workers, Attempting(v, e) \/ Deciding(v, e)
        PROVE  k = "open" /\ v = w /\ i = first[v] /\ step[v] \in Held
    <3>1. Token(e, first[v], "open", v) /\ step[v] \in Held
      BY <1>2, <2>2
    <3> QED BY <3>1, <1>t, <1>5, <1>6 DEF Kinds
  <2>3. ASSUME Among(Waiting, e) PROVE k \in {"scheduled", "popped"}
    <3>1. PICK j : Token(e, j, "scheduled", "nobody") \/ \E v \in Workers : Token(e, j, "popped", v)
      BY <1>3, <2>3
    <3> QED BY <3>1, <1>t, <1>5, <1>6 DEF Kinds
  <2> QED BY <2>1, <2>2, <2>3
<1>7. ASSUME NEW w \in Holders, At(i, "unread", w) PROVE Status(e) = "queued"
  <2>1. Among(Coming, e)
    BY <1>7 DEF At, Unread, Among, Coming
  <2> QED BY <2>1, <1>6, <1>7 DEF Status, Kinds
<1>8. ASSUME NEW w \in Holders, At(i, "scheduled", w) \/ At(i, "popped", w)
      PROVE Status(e) = "backoff"
  <2>1. Among(Waiting, e)
    BY <1>8 DEF At, Among, Waiting
  <2> QED BY <2>1, <1>6, <1>8 DEF Status, Kinds
<1>9. ASSUME NEW w \in Workers, At(i, "open", w)
      PROVE  Status(e) = IF step[w] \in Held /\ i = first[w] THEN Handled(w) ELSE "queued"
  <2>1. Among(Coming, e)
    BY <1>9 DEF At, Among, Coming
  <2>2. ~Among(processed, e) /\ ~Among(dead, e) /\ ~Among(Waiting, e)
    BY <1>t, <1>6, <1>9 DEF Kinds
  <2>3. \A v \in Workers : Attempting(v, e) \/ Deciding(v, e) => v = w /\ i = first[w]
    BY <1>t, <1>6, <1>9 DEF Kinds
  <2>4. (\E v \in Workers : Attempting(v, e)) <=> (step[w] = "process" /\ i = first[w])
    BY <2>3 DEF Attempting, Current
  <2>5. (\E v \in Workers : Deciding(v, e)) <=> (step[w] \in {"count", "schedule", "bury"} /\ i = first[w])
    BY <2>3 DEF Deciding, Current
  <2> QED BY <2>1, <2>2, <2>4, <2>5 DEF Status, Held, Handled
<1>10. i \in processed => Status(e) = "done"
  BY DEF Among, Status
<1>11. ASSUME i \in dead \ processed, Among(processed, e) PROVE FALSE
  <2>1. PICK j \in processed : stream[j] = e
    BY <1>11 DEF Among
  <2>2. At(i, "settled", "nobody") /\ At(j, "settled", "nobody") /\ j \in Entries
    BY <1>t, <1>11, <2>1 DEF At, Settled
  <2>3. i = j
    BY <2>1, <2>2, <1>t DEF OneToken, Kinds
  <2> QED BY <1>11, <2>1, <2>3
<1>12. i \in dead \ processed => Status(e) = "dead"
  BY <1>11 DEF Among, Status
<1> QED BY <1>7, <1>8, <1>9, <1>10, <1>12

\* An event without a token is stranded, once published.
LEMMA NoPlaceNoStatus ==
  ASSUME TypeInv, NEW e \in Events,
         \A i \in Entries : \A k \in Kinds : \A w \in Holders : ~Placed(e, i, k, w)
  PROVE  Status(e) = IF Published(e) THEN "stranded" ELSE "unpublished"
<1>t. /\ dead \subseteq Entries /\ processed \subseteq Entries /\ scheduled \subseteq Entries
      /\ popped \in [Workers -> SUBSET Entries]
      /\ stream \in Seq(Events) /\ cursor \in Nat
      /\ "nobody" \in Holders /\ Workers \subseteq Holders
      /\ Kinds = {"unread", "scheduled", "settled", "open", "popped"}
  BY DEF TypeInv, TypeOK, Holders, Kinds
<1>1. ~Among(processed, e) /\ ~Among(dead, e)
  BY <1>t DEF Among, Placed, At, Settled
<1>2. ~Among(Waiting, e)
  BY <1>t DEF Among, Waiting, Placed, At
<1>3. ASSUME NEW w \in Workers, Attempting(w, e) \/ Deciding(w, e) PROVE FALSE
  BY <1>3, <1>t, FirstOpen DEF Attempting, Deciding, Current, Placed, At, Held
<1>4. ~Among(Coming, e)
  <2>1. \A i \in cursor + 1 .. Len(stream) : i \in Entries /\ At(i, "unread", "nobody")
    BY <1>t DEF Entries, At, Unread
  <2>2. \A w \in Workers : \A i \in Open(w) : i \in Entries /\ At(i, "open", w)
    BY OpenEntries DEF At
  <2> QED BY <1>t, <2>1, <2>2 DEF Among, Coming, Placed
<1> QED BY <1>1, <1>2, <1>3, <1>4 DEF Status

\* What a step whose reply arrives does to the places, but for batches.
Effect ==
  /\ cursor' \in Nat /\ cursor <= cursor'
  /\ \/ stream' = stream
     \/ \E e \in Events : handler[e] = "persisted" /\ stream' = Append(stream, e)
     \/ \E w \in Workers : \E j \in popped[w] : stream' = Append(stream, stream[j])
  /\ \A i \in scheduled' :
       \/ i \in scheduled
       \/ \E w \in Workers : i \in popped[w]
       \/ \E w \in Workers : step[w] = "schedule" /\ i = first[w]
  /\ \A w \in Workers : popped'[w] \subseteq popped[w] \union scheduled
  /\ \A i \in processed' : i \in processed \/ \E w \in Workers : step[w] = "process" /\ i = first[w]
  /\ \A i \in dead' :
       i \in dead \/ (processed' = processed /\ \E w \in Workers : step[w] = "bury" /\ i = first[w])
  /\ \A e \in Events : failures'[e] = failures[e] \/ \E w \in Workers : ProcessFails(w) /\ Current(w) = e

LEMMA Effects ==
  ASSUME TypeInv, [Next]_vars, "reply" \notin faulted'
  PROVE  Effect
<1>t. /\ cursor \in Nat /\ Len(stream) \in Nat /\ cursor <= Len(stream)
      /\ popped \in [Workers -> SUBSET Entries]
      /\ failures \in [Events -> Nat] /\ first \in [Workers -> Nat]
  BY DEF TypeInv, TypeOK
<1>u. ASSUME UNCHANGED <<cursor, stream, scheduled, popped, processed, dead, failures>> PROVE Effect
  BY <1>t, <1>u DEF Effect
<1> USE DEF streamVars, retryVars, schedulerVars, outcomeVars, Fault
<1>1. ASSUME NEW e \in Events, Gateway(e) \/ ExpireRetryKey(e) PROVE Effect
  <2>1. /\ UNCHANGED <<cursor, scheduled, popped, processed, dead, failures>>
        /\ stream' = stream \/ (handler[e] = "persisted" /\ stream' = Append(stream, e))
    BY <1>1 DEF Gateway, InsertSerialized, InsertFails, PublishEvent, PublishEventFails,
       ExpireRetryKey
  <2> QED BY <1>t, <2>1 DEF Effect
<1>2. ASSUME NEW w \in Workers, Consume(w) \/ ConsumeFails(w) PROVE Effect
  <2>1. /\ UNCHANGED <<stream, scheduled, popped, processed, dead, failures>>
        /\ cursor' = cursor \/ cursor' = BatchEnd
    BY <1>2 DEF Consume, ConsumeFails, Deliver
  <2>2. BatchEnd \in Nat /\ cursor <= BatchEnd
    BY <1>t, BatchEndInStream DEF TypeInv
  <2> QED BY <1>t, <2>1, <2>2 DEF Effect
<1>3. ASSUME NEW w \in Workers, ProcessSucceeds(w) PROVE Effect
  BY <1>t, <1>3 DEF ProcessSucceeds, Effect
<1>4. ASSUME NEW w \in Workers, ProcessFails(w) PROVE Effect
  <2>1. UNCHANGED <<cursor, stream, scheduled, popped, processed, dead>>
    BY <1>4 DEF ProcessFails
  <2>2. \A e \in Events : e # Current(w) => failures'[e] = failures[e]
    BY <1>t, <1>4 DEF ProcessFails
  <2> QED BY <1>t, <1>4, <2>1, <2>2 DEF Effect
<1>5. ASSUME NEW w \in Workers, ScheduleRetry(w) \/ ScheduleRetryFails(w) PROVE Effect
  BY <1>t, <1>5 DEF ScheduleRetry, ScheduleRetryFails, Effect
<1>6. ASSUME NEW w \in Workers, DeadLetter(w) \/ DeadLetterFails(w) PROVE Effect
  BY <1>t, <1>6 DEF DeadLetter, DeadLetterFails, Effect
<1>7. ASSUME NEW w \in Workers,
             \/ CountFailure(w) \/ CountFailureFails(w) \/ ClearRetryKey(w)
             \/ ClearRetryKeyFails(w) \/ Ack(w) \/ AckFails(w) \/ Panic(w)
      PROVE  Effect
  BY <1>u, <1>7 DEF CountFailure, CountFailureFails, ClearRetryKey, ClearRetryKeyFails,
     Ack, AckFails, Panic
<1>8. ASSUME UNCHANGED <<cursor, processed, dead, failures>>,
             \A w \in Workers : popped'[w] \subseteq popped[w] \union scheduled,
             \A i \in scheduled' : i \in scheduled \/ \E w \in Workers : i \in popped[w],
             \/ stream' = stream
             \/ \E w \in Workers : \E j \in popped[w] : stream' = Append(stream, stream[j])
      PROVE  Effect
  BY <1>t, <1>8 DEF Effect
<1>9. ASSUME NEW w \in Workers, ReadDue(w) \/ Restart(w) PROVE Effect
  BY <1>u, <1>9 DEF ReadDue, Restart
<1>10. ASSUME NEW w \in Workers, RequeueDue(w) \/ RequeueDueFails(w) \/ Crash(w) PROVE Effect
  <2>1. /\ UNCHANGED <<cursor, stream, processed, dead, failures>>
        /\ scheduled' \subseteq scheduled \union popped[w]
        /\ popped' = [popped EXCEPT ![w] = {}]
    BY <1>10 DEF RequeueDue, RequeueDueFails, Crash
  <2> QED BY <1>8, <1>t, <2>1
<1>11. ASSUME NEW w \in Workers, NEW j \in due[w], RemoveDue(w, j) \/ RemoveDueFails(w, j)
       PROVE  Effect
  <2>1. /\ UNCHANGED <<cursor, stream, processed, dead, failures>>
        /\ scheduled' \subseteq scheduled
    BY <1>11 DEF RemoveDue, RemoveDueFails
  <2>2. \A v \in Workers : popped'[v] \subseteq popped[v] \union scheduled
    BY <1>t, <1>11 DEF RemoveDue, RemoveDueFails
  <2> QED BY <1>8, <2>1, <2>2
<1>12. ASSUME NEW w \in Workers, NEW j \in popped[w], RepublishDue(w, j) \/ RepublishDueFails(w, j)
       PROVE  Effect
  <2>1. /\ UNCHANGED <<cursor, scheduled, processed, dead, failures>>
        /\ stream' = stream \/ stream' = Append(stream, stream[j])
    BY <1>12 DEF RepublishDue, RepublishDueFails
  <2>2. \A v \in Workers : popped'[v] \subseteq popped[v]
    BY <1>t, <1>12 DEF RepublishDue, RepublishDueFails
  <2> QED BY <1>8, <2>1, <2>2
<1>13. CASE UNCHANGED vars
  BY <1>u, <1>13 DEF vars
<1>14. ASSUME NEW w \in Workers, Work(w) \/ WorkFails(w) PROVE Effect
  BY <1>14, <1>2, <1>3, <1>4, <1>5, <1>6, <1>7 DEF Work, WorkFails
<1>15. ASSUME NEW w \in Workers, Retry(w) \/ RetryFails(w) \/ Crash(w) \/ Restart(w) PROVE Effect
  BY <1>15, <1>9, <1>10, <1>11, <1>12 DEF Retry, RetryFails
<1> QED BY <1>1, <1>13, <1>14, <1>15 DEF Next

\* What becomes of a delivery is decided after an attempt at it has failed.
LEMMA DecidedFrom ==
  ASSUME TypeInv, [Next]_vars, NEW w \in Workers,
         step'[w] \in {"count", "schedule", "bury"}
  PROVE  /\ ProcessFails(w) \/ step[w] \in {"count", "schedule", "bury"}
         /\ first'[w] = first[w]
<1>t. step \in [Workers -> Steps] /\ first \in [Workers -> Nat]
  BY DEF TypeInv, TypeOK
<1>1. ASSUME NEW v \in Workers, v # w, OthersStay(v)
      PROVE  step[w] \in {"count", "schedule", "bury"} /\ first'[w] = first[w]
  BY <1>1 DEF OthersStay
<1>2. ASSUME NEW v \in Workers, v # w, Consume(v) \/ Progress(v)
      PROVE  step[w] \in {"count", "schedule", "bury"} /\ first'[w] = first[w]
  BY <1>1, <1>2, BatchConsume, BatchProgress
<1>3. CASE UNCHANGED taskVars
  BY <1>3 DEF taskVars
<1>4. ASSUME Work(w)
      PROVE  /\ ProcessFails(w) \/ step[w] \in {"count", "schedule", "bury"}
             /\ first'[w] = first[w]
  <2>1. CASE CountFailure(w)
    BY <2>1 DEF CountFailure, GoTo
  <2>2. CASE Consume(w) \/ ProcessSucceeds(w) \/ ScheduleRetry(w) \/ DeadLetter(w)
               \/ ClearRetryKey(w) \/ Ack(w)
    BY <1>t, <2>2 DEF Consume, ProcessSucceeds, ScheduleRetry, DeadLetter, ClearRetryKey, Ack,
       NextDelivery, GoTo
  <2>3. CASE ProcessFails(w)
    BY <2>3 DEF ProcessFails, GoTo
  <2> QED BY <1>4, <2>1, <2>2, <2>3 DEF Work
<1>5. ASSUME WorkFails(w) \/ Crash(w) \/ Restart(w) PROVE FALSE
  BY <1>t, <1>5 DEF WorkFails, ConsumeFails, CountFailureFails, ScheduleRetryFails,
     DeadLetterFails, ClearRetryKeyFails, AckFails, Panic, Crash, Restart,
     NextDelivery, GoTo, Abandon
<1>6. \/ Work(w) \/ WorkFails(w) \/ Crash(w) \/ Restart(w) \/ UNCHANGED taskVars
      \/ \E v \in Workers \ {w} : Consume(v) \/ Progress(v)
  <2>1. ASSUME NEW e \in Events, Gateway(e) \/ ExpireRetryKey(e) PROVE UNCHANGED taskVars
    BY <2>1 DEF Gateway, InsertSerialized, InsertFails, PublishEvent, PublishEventFails,
       ExpireRetryKey
  <2>2. ASSUME NEW v \in Workers, Retry(v) \/ RetryFails(v) PROVE UNCHANGED taskVars
    BY <2>2 DEF Retry, RetryFails, ReadDue, RequeueDue, RemoveDue, RepublishDue,
       RequeueDueFails, RemoveDueFails, RepublishDueFails
  <2>3. ASSUME NEW v \in Workers, v # w, Work(v) \/ WorkFails(v) \/ Crash(v) \/ Restart(v)
        PROVE  Consume(v) \/ Progress(v)
    BY <2>3 DEF Work, ProcessSucceeds, ProcessFails, CountFailure, ScheduleRetry,
       DeadLetter, ClearRetryKey, Ack, WorkFails, ConsumeFails, CountFailureFails,
       ScheduleRetryFails, DeadLetterFails, ClearRetryKeyFails, AckFails, Panic,
       Crash, Restart, Progress, Held, Busy
  <2>4. CASE UNCHANGED vars
    BY <2>4 DEF vars
  <2> QED BY <2>1, <2>2, <2>3, <2>4 DEF Next
<1> QED BY <1>2, <1>3, <1>4, <1>5, <1>6

\* A delivery comes into a batch from the stream, and waits there for its turn.
LEMMA OpenFrom ==
  ASSUME TypeInv, [Next]_vars, NEW w \in Workers, NEW i \in Open(w)'
  PROVE  /\ i \in Entries
         /\ \/ Unread(i) \/ (ProcessFails(w) /\ i = first[w])
            \/ /\ i \in Open(w)
               /\ step[w] \in Held /\ i = first[w] =>
                    step'[w] \in Held /\ i = first'[w] /\ Handled(w)' = Handled(w)
<1>t. /\ step \in [Workers -> Steps] /\ first \in [Workers -> Nat] /\ last \in [Workers -> Nat]
      /\ cursor \in Nat
  BY DEF TypeInv, TypeOK
<1>1. ASSUME i \in Open(w), step'[w] = step[w], first'[w] = first[w] PROVE i \in Entries
  BY <1>1, OpenEntries
<1>2. ASSUME NEW v \in Workers, v # w, OthersStay(v)
      PROVE  i \in Open(w) /\ step'[w] = step[w] /\ first'[w] = first[w]
  BY <1>2 DEF OthersStay, Open
<1>3. ASSUME UNCHANGED taskVars PROVE i \in Open(w)
  BY <1>3 DEF taskVars, Open
<1>4. ASSUME Consume(w) PROVE i \in Entries /\ Unread(i)
  <2>1. step'[w] = "process" /\ first'[w] = cursor + 1 /\ last'[w] = BatchEnd
    BY <1>t, <1>4 DEF Consume
  <2>2. i \in cursor + 1 .. BatchEnd
    BY <2>1 DEF Open
  <2>3. BatchEnd \in cursor .. Len(stream) /\ cursor + 1 .. BatchEnd \subseteq Entries
        /\ Len(stream) \in Nat
    BY BatchEndInStream DEF TypeInv, TypeOK
  <2> QED BY <1>t, <2>2, <2>3 DEF Unread
<1>5. ASSUME Progress(w)
      PROVE  /\ i \in Open(w)
             /\ step[w] \in Held /\ i = first[w] =>
                  /\ step'[w] \in Held /\ i = first'[w]
                  /\ ProcessFails(w) \/ Handled(w)' = Handled(w)
  <2>1. CASE step[w] \in Busy /\ NextDelivery(w)
    BY <2>1, OpenNext
  <2>2. CASE \E how \in {"exited", "down"} : Abandon(w, how)
    BY <2>2, OpenAbandon
  <2>3. ASSUME step[w] \in Held, NEW next \in Held \ {"process"}, GoTo(w, next)
        PROVE  /\ i \in Open(w) /\ step'[w] \in Held /\ first'[w] = first[w]
               /\ ProcessFails(w) \/ Handled(w)' = Handled(w)
    <3>1. i \in Open(w) /\ step'[w] = next /\ first'[w] = first[w]
      BY <2>3, OpenGoTo
    <3>2. ProcessFails(w) \/ step[w] # "process"
      BY <2>3, <3>1, DecidedFrom DEF Held
    <3> QED BY <2>3, <3>1, <3>2 DEF Handled
  <2>4. ASSUME step[w] \in Held, NEW next \in {"clear", "ack"}, GoTo(w, next)
        PROVE  i \in Open(w) \ {first[w]}
    BY <2>4, OpenGoTo
  <2>5. CASE \/ step[w] = "clear" /\ GoTo(w, "ack")
             \/ step[w] = "down" /\ GoTo(w, "idle")
    BY <2>5, OpenGoTo DEF Held
  <2> QED BY <1>5, <2>1, <2>2, <2>3, <2>4, <2>5 DEF Progress
<1>6. ASSUME NEW v \in Workers, Consume(v) \/ Progress(v), v # w
      PROVE  i \in Open(w) /\ step'[w] = step[w] /\ first'[w] = first[w]
  BY <1>6, <1>2, BatchConsume, BatchProgress
<1>7. i \in Open(w) => i \in Entries
  BY OpenEntries
<1>8. step'[w] = step[w] => Handled(w)' = Handled(w)
  BY DEF Handled
<1>9. CASE UNCHANGED taskVars \/ \E v \in Workers \ {w} : Consume(v) \/ Progress(v)
  BY <1>3, <1>6, <1>7, <1>8, <1>9 DEF taskVars
<1> QED BY <1>4, <1>5, <1>7, <1>9, TaskSteps

NoPlace(e) == \A i \in Entries : \A k \in Kinds : \A w \in Holders : ~Placed(e, i, k, w)

\* A step in which the infrastructure fails, or one of those that go well.
LEMMA FailsOrNot ==
  ASSUME TypeInv, [Next]_vars
  PROVE  \/ faultCount' > faultCount
         \/ /\ faultCount' = faultCount
            /\ \/ \E e \in Events : InsertSerialized(e) \/ PublishEvent(e)
               \/ \E w \in Workers : Work(w) \/ Retry(w) \/ Restart(w)
               \/ UNCHANGED vars
<1>t. faultCount \in Nat
  BY ConstantsAssumption DEF TypeInv, TypeOK
<1> USE DEF faultVars, Fault
<1>1. ASSUME NEW e \in Events, Gateway(e) \/ ExpireRetryKey(e)
      PROVE  \/ faultCount' > faultCount
             \/ faultCount' = faultCount /\ (InsertSerialized(e) \/ PublishEvent(e))
  BY <1>1, <1>t DEF Gateway, InsertSerialized, InsertFails, PublishEvent, PublishEventFails,
     ExpireRetryKey
<1>2. ASSUME NEW w \in Workers, Work(w) PROVE faultCount' = faultCount
  BY <1>2 DEF Work, Consume, ProcessSucceeds, ProcessFails, CountFailure, ScheduleRetry,
     DeadLetter, ClearRetryKey, Ack
<1>3. ASSUME NEW w \in Workers, WorkFails(w) \/ Crash(w) PROVE faultCount' > faultCount
  BY <1>3, <1>t DEF WorkFails, ConsumeFails, CountFailureFails, ScheduleRetryFails,
     DeadLetterFails, ClearRetryKeyFails, AckFails, Panic, Crash
<1>4. ASSUME NEW w \in Workers, Retry(w) \/ Restart(w) PROVE faultCount' = faultCount
  BY <1>4 DEF Retry, ReadDue, RequeueDue, RemoveDue, RepublishDue, Restart
<1>5. ASSUME NEW w \in Workers, RetryFails(w) PROVE faultCount' > faultCount
  BY <1>5, <1>t DEF RetryFails, RequeueDueFails, RemoveDueFails, RepublishDueFails
<1>6. ASSUME UNCHANGED vars PROVE faultCount' = faultCount
  BY <1>6 DEF vars
<1> QED BY <1>1, <1>2, <1>3, <1>4, <1>5, <1>6 DEF Next

\* A copy vanishes only when something fails.
LEMMA CopiesStay ==
  ASSUME TypeInv, [Next]_vars, ~(faultCount' > faultCount), NEW e \in Events, ~NoPlace(e)
  PROVE  ~NoPlace(e)'
<1>t. /\ dead \subseteq Entries /\ processed \subseteq Entries /\ scheduled \subseteq Entries
      /\ popped \in [Workers -> SUBSET Entries]
      /\ stream \in Seq(Events) /\ cursor \in Nat /\ faultCount \in Nat
      /\ "nobody" \in Holders /\ Workers \subseteq Holders
      /\ Kinds = {"unread", "scheduled", "settled", "open", "popped"}
  BY ConstantsAssumption DEF TypeInv, TypeOK, Holders, Kinds
<1>g. Entries \subseteq Entries' /\ \A j \in Entries : stream'[j] = stream[j]
  BY StreamGrows
<1>p. PICK i \in Entries : stream[i] = e /\ \E k \in Kinds : \E w \in Holders : At(i, k, w)
  BY DEF NoPlace, Placed
<1>q. ASSUME NEW k \in Kinds, NEW w \in Holders, At(i, k, w)' PROVE ~NoPlace(e)'
  BY <1>g, <1>p, <1>q DEF NoPlace, Placed
<1>n. ASSUME NEW j \in Entries' \ Entries, stream'[j] = e PROVE ~NoPlace(e)'
  <2>1. At(j, "unread", "nobody")'
    BY PendingStays DEF At
  <2> QED BY <1>t, <1>n, <2>1 DEF NoPlace, Placed
\* It is enough that the copy is somewhere.
<1>1. ASSUME \/ Unread(i)' \/ i \in scheduled' \/ Settled(i)'
             \/ \E w \in Workers : i \in Open(w)' \/ i \in popped'[w]
      PROVE  ~NoPlace(e)'
  BY <1>1, <1>q, <1>t DEF At
<1>2. \/ Unread(i) \/ i \in scheduled \/ Settled(i)
      \/ \E w \in Workers : i \in Open(w) \/ i \in popped[w]
  BY <1>p DEF At
<1>3. CASE Settled(i)
  BY <1>1, <1>3, OutcomesStay DEF Settled
<1> USE DEF streamVars, retryVars, schedulerVars, outcomeVars
<1>r. ASSUME cursor' = cursor, Unread(i) PROVE Unread(i)'
  <2>1. i \in 1 .. Len(stream) /\ Len(stream) \in Nat
    BY <1>t DEF Entries
  <2>2. stream' \in Seq(Events)
    BY <1>t, StreamAppends
  <2>3. i \in 1 .. Len(stream')
    BY <1>g, <2>2 DEF Entries
  <2> QED BY <1>r, <1>t, <2>1, <2>2, <2>3 DEF Unread
<1>4. ASSUME UNCHANGED <<cursor, taskVars, scheduled, popped>> PROVE ~NoPlace(e)'
  <2>1. \A w \in Workers : Open(w)' = Open(w)
    BY <1>4, OpenSame
  <2> QED BY <1>1, <1>2, <1>3, <1>4, <1>r, <2>1
<1>5. ASSUME NEW x \in Events, InsertSerialized(x) \/ PublishEvent(x) PROVE ~NoPlace(e)'
  BY <1>4, <1>5 DEF InsertSerialized, PublishEvent
<1>6. CASE UNCHANGED vars
  BY <1>4, <1>6 DEF vars
<1>7. ASSUME NEW w \in Workers, Restart(w) PROVE ~NoPlace(e)'
  <2>1. UNCHANGED <<cursor, stream, scheduled, popped>> /\ GoTo(w, "idle") /\ step[w] = "down"
    BY <1>7 DEF Restart
  <2>2. \A v \in Workers : Open(v)' = Open(v)
    BY <2>1, OpenGoTo DEF OthersOpen
  <2> QED BY <1>1, <1>2, <1>3, <1>r, <2>1, <2>2
<1>8. ASSUME NEW w \in Workers, Retry(w) PROVE ~NoPlace(e)'
  <2>1. CASE ReadDue(w)
    BY <1>4, <2>1 DEF ReadDue
  <2>2. ASSUME UNCHANGED <<cursor, stream, taskVars>>,
               \A j \in scheduled : j \in scheduled' \/ \E v \in Workers : j \in popped'[v],
               \A v \in Workers : \A j \in popped[v] : j \in scheduled' \/ j \in popped'[v]
        PROVE  ~NoPlace(e)'
    <3>1. \A v \in Workers : Open(v)' = Open(v)
      BY <2>2, OpenSame
    <3> QED BY <1>1, <1>2, <1>3, <1>r, <2>2, <3>1
  <2>3. CASE RequeueDue(w)
    <3>1. /\ UNCHANGED <<cursor, stream, taskVars>> /\ scheduled' = scheduled \union popped[w]
          /\ \A v \in Workers \ {w} : popped'[v] = popped[v]
      BY <1>t, <2>3 DEF RequeueDue
    <3> QED BY <2>2, <3>1
  <2>4. ASSUME NEW j \in due[w], RemoveDue(w, j) PROVE ~NoPlace(e)'
    <3>1. /\ UNCHANGED <<cursor, stream, taskVars>> /\ scheduled' = scheduled \ {j}
          /\ popped'[w] = popped[w] \union ({j} \intersect scheduled)
          /\ \A v \in Workers \ {w} : popped'[v] = popped[v]
      BY <1>t, <2>4 DEF RemoveDue
    <3> QED BY <2>2, <3>1
  <2>5. ASSUME NEW j \in popped[w], RepublishDue(w, j) PROVE ~NoPlace(e)'
    <3>1. /\ UNCHANGED <<cursor, taskVars, scheduled>> /\ stream' = Append(stream, stream[j])
          /\ popped'[w] = popped[w] \ {j} /\ j \in Entries
          /\ \A v \in Workers \ {w} : popped'[v] = popped[v]
      BY <1>t, <2>5 DEF RepublishDue
    <3>2. CASE i = j
      <4>1. stream[j] \in Events /\ stream'[Len(stream) + 1] = e
            /\ Len(stream) + 1 \in Entries' \ Entries
        <5>1. stream[j] \in Events /\ stream[j] = e
          BY <1>t, <1>p, <3>1, <3>2 DEF Entries
        <5>2. stream'[Len(stream) + 1] = e /\ Entries' = Entries \union {Len(stream) + 1}
          BY <3>1, <5>1, AppendType DEF TypeInv
        <5>3. Len(stream) + 1 \notin Entries
          BY <1>t DEF Entries
        <5> QED BY <5>1, <5>2, <5>3
      <4> QED BY <1>n, <4>1
    <3>3. CASE i # j
      <4>1. \A v \in Workers : Open(v)' = Open(v)
        BY <3>1, OpenSame
      <4> QED BY <1>1, <1>2, <1>3, <1>r, <3>1, <3>3, <4>1
    <3> QED BY <3>2, <3>3
  <2> QED BY <1>8, <2>1, <2>3, <2>4, <2>5 DEF Retry
<1>9. ASSUME NEW w \in Workers, Consume(w) PROVE ~NoPlace(e)'
  <2>1. /\ UNCHANGED <<stream, scheduled, popped>> /\ cursor' = BatchEnd /\ step[w] = "idle"
        /\ step'[w] = "process" /\ first'[w] = cursor + 1 /\ last'[w] = BatchEnd
    BY <1>9 DEF Consume, Deliver, TypeInv, TypeOK
  <2>2. OthersOpen(w)
    BY <1>9 DEF Consume, OthersOpen, Open, TypeInv, TypeOK
  <2>3. Open(w) = {} /\ Open(w)' = cursor + 1 .. BatchEnd
    BY <2>1 DEF Open
  <2>4. ASSUME Unread(i) PROVE Unread(i)' \/ i \in Open(w)'
    <3>1. PICK B \in cursor .. Len(stream) : B = BatchEnd
      BY BatchEndInStream DEF TypeInv
    <3>2. i \in B + 1 .. Len(stream) \/ i \in cursor + 1 .. B
      BY <1>t, <2>4 DEF Unread
    <3> QED BY <2>1, <2>3, <3>1, <3>2 DEF Unread
  <2> QED BY <1>1, <1>2, <1>3, <2>1, <2>2, <2>3, <2>4 DEF OthersOpen
<1>10. ASSUME NEW w \in Workers, Work(w), ~Consume(w) PROVE ~NoPlace(e)'
  <2>1. /\ UNCHANGED <<cursor, stream, popped>> /\ scheduled \subseteq scheduled'
    BY <1>10 DEF Work, ProcessSucceeds, ProcessFails, CountFailure, ScheduleRetry, DeadLetter,
       ClearRetryKey, Ack
  <2>2. ASSUME OthersOpen(w), \A j \in Open(w) : j \in Open(w)' \/ j \in scheduled' \/ Settled(j)'
        PROVE  ~NoPlace(e)'
    BY <1>1, <1>2, <1>3, <1>r, <2>1, <2>2 DEF OthersOpen
  <2>3. CASE ProcessFails(w) \/ CountFailure(w)
    <3>1. PICK next \in Held : step[w] \in Held /\ GoTo(w, next)
      BY <2>3 DEF ProcessFails, CountFailure, Held
    <3> QED BY <2>2, <3>1, OpenGoTo
  <2>4. CASE ProcessSucceeds(w) \/ ScheduleRetry(w) \/ DeadLetter(w)
    <3>1. /\ first[w] \in processed' \union scheduled' \union dead' /\ step[w] \in Held
          /\ \E next \in {"clear", "ack"} : GoTo(w, next)
      BY <2>4 DEF ProcessSucceeds, ScheduleRetry, DeadLetter, Held
    <3>2. OthersOpen(w) /\ Open(w)' = Open(w) \ {first[w]}
      BY <3>1, OpenGoTo
    <3> QED BY <2>2, <3>1, <3>2 DEF Settled
  <2>5. CASE ClearRetryKey(w)
    BY <2>2, <2>5, OpenGoTo DEF ClearRetryKey
  <2>6. CASE Ack(w)
    <3>1. step[w] = "ack" /\ NextDelivery(w)
      BY <2>6 DEF Ack
    <3>2. OthersOpen(w) /\ Open(w)' = Open(w) \ {first[w]}
      BY <3>1, OpenNext DEF Busy
    <3>3. first[w] \notin Open(w)
      BY <3>1 DEF Open, TypeInv, TypeOK
    <3> QED BY <2>2, <3>2, <3>3
  <2> QED BY <1>10, <2>3, <2>4, <2>5, <2>6 DEF Work
<1> QED BY <1>5, <1>6, <1>7, <1>8, <1>9, <1>10, FailsOrNot

\* What a step does to the status of an event.
Changes(e) ==
  \/ Status(e) = "running" /\ Status(e)' = "failed" /\ failures'[e] = failures[e] + 1
  \/ /\ failures'[e] = failures[e]
     /\ \/ Status(e)' = Status(e)
        \/ Status(e) \in {"unpublished", "backoff"} /\ Status(e)' = "queued"
        \/ Status(e) = "queued" /\ Status(e)' = "running"
        \/ Status(e) = "running" /\ Status(e)' = "done"
        \/ /\ Status(e) = "failed" /\ Status(e)' = "backoff"
           /\ failures[e] <= MaxRetries \/ "expiry" \in faulted
        \/ Status(e) = "failed" /\ Status(e)' = "dead" /\ failures[e] > MaxRetries
        \/ /\ Status(e) \in {"queued", "running", "failed", "backoff"} /\ Status(e)' = "stranded"
           /\ faultCount' > faultCount

StatusKnown ==
  TypeInv /\ OneToken =>
    /\ StatusByPlace
    /\ \A e \in Events : NoPlace(e) => Status(e) = IF Published(e) THEN "stranded" ELSE "unpublished"

LEMMA PlaceOrNot == StatusKnown
BY PlacesGiveStatus, NoPlaceNoStatus DEF NoPlace, StatusKnown

LEMMA StatusChanges ==
  ASSUME TypeInv, TypeInv', OneToken, OneToken', AllPublished, EarnInv,
         "expiry" \notin faulted => Counted,
         [Next]_vars, "reply" \notin faulted', NEW e \in Events
  PROVE  Changes(e)
<1>s. StatusByPlace /\ (NoPlace(e) => Status(e) = IF Published(e) THEN "stranded" ELSE "unpublished")
  BY PlaceOrNot DEF StatusKnown
<1>p. /\ StatusByPlace'
      /\ NoPlace(e)' => Status(e)' = IF Published(e)' THEN "stranded" ELSE "unpublished"
  <2>1. StatusKnown'
    BY PlaceOrNot, PTL
  <2>2. \A x \in Events : NoPlace(x)' => Status(x)' = IF Published(x)' THEN "stranded" ELSE "unpublished"
    BY <2>1 DEF StatusKnown
  <2> QED BY <2>1, <2>2 DEF StatusKnown
<1>t. /\ dead \subseteq Entries /\ processed \subseteq Entries /\ scheduled \subseteq Entries
      /\ popped \in [Workers -> SUBSET Entries]
      /\ stream \in Seq(Events) /\ cursor \in Nat /\ failures \in [Events -> Nat]
      /\ "nobody" \in Holders /\ Workers \subseteq Holders
      /\ Kinds = {"unread", "scheduled", "settled", "open", "popped"}
  BY DEF TypeInv, TypeOK, Holders, Kinds
<1>g. Entries \subseteq Entries' /\ \A i \in Entries : stream'[i] = stream[i]
  BY StreamGrows
<1>e. Effect
  BY Effects
<1>q. \A i \in Entries : stream[i] = e =>
        /\ \A w \in Holders : At(i, "unread", w) => Status(e) = "queued"
        /\ \A w \in Holders : At(i, "scheduled", w) => Status(e) = "backoff"
        /\ \A w \in Holders : At(i, "popped", w) => Status(e) = "backoff"
        /\ \A w \in Workers : At(i, "open", w) =>
             Status(e) = IF step[w] \in Held /\ i = first[w] THEN Handled(w) ELSE "queued"
        /\ i \in processed => Status(e) = "done"
        /\ i \in dead \ processed => Status(e) = "dead"
  BY <1>s DEF StatusByPlace, Placed
<1>r. \A i \in Entries' : stream'[i] = e =>
        /\ \A w \in Holders : At(i, "unread", w)' => Status(e)' = "queued"
        /\ \A w \in Holders : At(i, "scheduled", w)' => Status(e)' = "backoff"
        /\ \A w \in Holders : At(i, "popped", w)' => Status(e)' = "backoff"
        /\ \A w \in Workers : At(i, "open", w)' =>
             Status(e)' = IF step'[w] \in Held /\ i = first'[w] THEN Handled(w)' ELSE "queued"
        /\ i \in processed' => Status(e)' = "done"
        /\ i \in dead' \ processed' => Status(e)' = "dead"
  BY <1>p DEF StatusByPlace, Placed
\* The delivery a worker has in hand.
<1>h. ASSUME NEW w \in Workers, step[w] \in Held
      PROVE  /\ first[w] \in Entries /\ ~Settled(first[w])
             /\ Current(w) = e => Status(e) = Handled(w)
  <2>1. first[w] \in Entries /\ At(first[w], "open", w)
    BY <1>h, FirstOpen DEF At
  <2>2. ~Settled(first[w])
    <3>1. Settled(first[w]) => At(first[w], "settled", "nobody")
      BY DEF At
    <3> QED BY <1>t, <2>1, <3>1 DEF OneToken
  <2> QED BY <1>h, <1>q, <2>1, <2>2 DEF Current
\* An attempt fails.
<1>1. ASSUME NEW w \in Workers, ProcessFails(w), Current(w) = e
      PROVE  Changes(e)
  <2>1. step[w] = "process" /\ GoTo(w, "count") /\ stream' = stream
    BY <1>1 DEF ProcessFails, streamVars
  <2>2. Open(w)' = Open(w) /\ step'[w] = "count" /\ first'[w] = first[w]
    BY <2>1, OpenGoTo DEF Held
  <2>3. first[w] \in Entries' /\ stream'[first[w]] = e /\ At(first[w], "open", w)'
    BY <1>1, <2>1, <2>2, <1>g, FirstOpen DEF At, Current, Held
  <2>4. Status(e)' = "failed"
    BY <1>r, <2>2, <2>3 DEF Held, Handled
  <2>5. failures'[e] = failures[e] + 1
    BY <1>1, <1>t DEF ProcessFails
  <2> QED BY <1>1, <1>h, <2>1, <2>4, <2>5 DEF Changes, Held, Handled
<1> SUFFICES ASSUME failures'[e] = failures[e] PROVE Changes(e)
  BY <1>1, <1>e DEF Effect
\* An entry that is new is to be read.
<1>n. \A i \in Entries' \ Entries : At(i, "unread", "nobody")'
  BY PendingStays DEF At
<1>2. CASE NoPlace(e)'
  <2>1. Published(e)' => Published(e)
    <3> SUFFICES ASSUME NEW i \in Entries', stream'[i] = e, i \notin Entries PROVE FALSE
      BY <1>g DEF Published
    <3>1. Placed(e, i, "unread", "nobody")'
      BY <1>n DEF Placed
    <3> QED BY <1>t, <1>2, <3>1 DEF NoPlace
  <2>2. Published(e) => Published(e)'
    BY <1>g DEF Published
  <2>3. CASE NoPlace(e)
    BY <1>s, <1>p, <1>2, <2>1, <2>2, <2>3 DEF Changes
  <2>4. CASE ~NoPlace(e)
    <3>1. PICK i \in Entries : \E k \in Kinds : \E w \in Holders : stream[i] = e /\ At(i, k, w)
      BY <2>4 DEF NoPlace, Placed
    <3>2. ~Settled(i)
      <4> SUFFICES ASSUME Settled(i) PROVE FALSE
        OBVIOUS
      <4>1. Settled(i)' /\ i \in Entries' /\ stream'[i] = e
        BY <1>g, <3>1, OutcomesStay DEF Settled
      <4>2. Placed(e, i, "settled", "nobody")'
        BY <4>1 DEF Placed, At
      <4> QED BY <1>t, <1>2, <4>1, <4>2 DEF NoPlace
    <3>3. Status(e) \in {"queued", "running", "failed", "backoff"}
      BY <1>q, <3>1, <3>2 DEF At, Holders, Kinds, Handled
    <3>4. Published(e)
      BY <3>1 DEF Published
    <3>5. Status(e)' = "stranded"
      BY <1>p, <1>2, <2>2, <3>4
    <3>6. faultCount' > faultCount
      BY <1>2, <2>4, CopiesStay
    <3> QED BY <3>3, <3>5, <3>6 DEF Changes
  <2> QED BY <2>3, <2>4
<1> SUFFICES ASSUME NEW i \in Entries', stream'[i] = e, NEW k \in Kinds, NEW w \in Holders, At(i, k, w)'
             PROVE  Changes(e)
  BY <1>2 DEF NoPlace, Placed
<1>3. CASE k = "unread"
  <2>1. Unread(i)' /\ Status(e)' = "queued"
    BY <1>3, <1>r DEF At
  <2>2. CASE i \in Entries
    <3>1. Unread(i) /\ stream[i] = e
      <4>1. Len(stream) \in Nat /\ i \in 1 .. Len(stream)
        BY <1>t, <2>2 DEF Entries
      <4>2. cursor' \in Nat /\ cursor <= cursor'
        BY <1>e DEF Effect
      <4>3. i \in cursor' + 1 .. Len(stream')
        BY <2>1 DEF Unread
      <4>4. stream' \in Seq(Events)
        BY DEF TypeInv, TypeOK
      <4>5. Len(stream') \in Nat
        BY <4>4
      <4>6. i \in cursor + 1 .. Len(stream)
        BY <1>t, <4>1, <4>2, <4>3, <4>5
      <4>7. stream[i] = e
        BY <1>g, <2>2
      <4> QED BY <4>6, <4>7 DEF Unread
    <3>2. Status(e) = "queued"
      BY <1>q, <1>t, <2>2, <3>1 DEF At
    <3> QED BY <2>1, <3>2 DEF Changes
  <2>3. ASSUME NEW x \in Events, stream' = Append(stream, x), i \notin Entries PROVE x = e
    BY <1>t, <2>3, AppendType DEF TypeInv
  <2>4. ASSUME NEW x \in Events, handler[x] = "persisted", stream' = Append(stream, x), i \notin Entries
        PROVE  Changes(e)
    <3>1. \A j \in Entries : stream[j] # e
      BY <2>3, <2>4 DEF AllPublished
    <3>2. NoPlace(e) /\ ~Published(e)
      BY <3>1 DEF NoPlace, Placed, Published
    <3> QED BY <1>s, <2>1, <3>2 DEF Changes
  <2>5. ASSUME NEW v \in Workers, NEW j \in popped[v], stream' = Append(stream, stream[j]), i \notin Entries
        PROVE  Changes(e)
    <3>1. j \in Entries /\ stream[j] \in Events /\ At(j, "popped", v)
      BY <1>t, <2>5 DEF At, Entries
    <3>2. Status(e) = "backoff"
      BY <1>q, <1>t, <2>3, <2>5, <3>1
    <3> QED BY <2>1, <3>2 DEF Changes
  <2>6. i \notin Entries => stream' # stream
    BY DEF Entries
  <2> QED BY <1>e, <2>2, <2>4, <2>5, <2>6 DEF Effect
<1> SUFFICES ASSUME k # "unread" PROVE Changes(e)
  BY <1>3
<1>i. i \in Entries /\ stream[i] = e
  <2>1. i \in Entries
    <3>1. i \notin Entries => At(i, "unread", "nobody")'
      BY <1>n
    <3> QED BY <1>t, <3>1 DEF OneToken
  <2> QED BY <1>g, <2>1
<1>4. CASE k = "scheduled"
  <2>1. i \in scheduled' /\ Status(e)' = "backoff"
    BY <1>4, <1>r DEF At
  <2>2. CASE i \in scheduled \/ \E v \in Workers : i \in popped[v]
    <3>1. Status(e) = "backoff"
      BY <1>q, <1>t, <1>i, <2>2 DEF At
    <3> QED BY <2>1, <3>1 DEF Changes
  <2>3. ASSUME NEW v \in Workers, step[v] = "schedule", i = first[v] PROVE Changes(e)
    <3>1. Status(e) = "failed"
      BY <1>h, <1>i, <2>3 DEF Current, Held, Handled
    <3>2. ASSUME "expiry" \notin faulted PROVE failures[e] <= MaxRetries
      <4>1. first[v] \in Again(v)
        BY <2>3, FirstOpen DEF Again, Open, Held
      <4>2. Ready(i)
        BY <2>3, <4>1 DEF Ready
      <4> QED BY <1>i, <3>2, <4>2 DEF Counted
    <3> QED BY <2>1, <3>1, <3>2 DEF Changes
  <2> QED BY <1>e, <2>1, <2>2, <2>3 DEF Effect
<1>5. CASE k = "popped"
  <2>1. Status(e)' = "backoff" /\ w \in Workers /\ i \in popped'[w]
    BY <1>5, <1>r DEF At
  <2>2. i \in popped[w] \union scheduled
    BY <1>e, <2>1 DEF Effect
  <2>3. Status(e) = "backoff"
    BY <1>q, <1>t, <1>i, <2>1, <2>2 DEF At
  <2> QED BY <2>1, <2>3 DEF Changes
<1>6. CASE k = "settled"
  <2>1. CASE i \in processed'
    <3>1. Status(e)' = "done"
      BY <1>r, <2>1
    <3>2. CASE i \in processed
      BY <1>q, <1>i, <3>1, <3>2 DEF Changes
    <3>3. ASSUME NEW v \in Workers, step[v] = "process", i = first[v] PROVE Changes(e)
      BY <1>h, <1>i, <3>1, <3>3 DEF Changes, Current, Held, Handled
    <3> QED BY <1>e, <2>1, <3>2, <3>3 DEF Effect
  <2>2. CASE i \in dead' \ processed'
    <3>1. Status(e)' = "dead" /\ i \notin processed
      BY <1>r, <2>2, OutcomesStay
    <3>2. CASE i \in dead
      BY <1>q, <1>i, <3>1, <3>2 DEF Changes
    <3>3. ASSUME NEW v \in Workers, step[v] = "bury", i = first[v] PROVE Changes(e)
      <4>1. Current(v) = e /\ Status(e) = "failed"
        BY <1>h, <1>i, <3>3 DEF Current, Held, Handled
      <4>2. failures[e] > MaxRetries
        BY <3>3, <4>1 DEF EarnInv
      <4> QED BY <3>1, <4>1, <4>2 DEF Changes
    <3> QED BY <1>e, <2>2, <3>2, <3>3 DEF Effect
  <2> QED BY <1>6, <2>1, <2>2 DEF At, Settled
<1>7. CASE k = "open"
  <2>1. /\ w \in Workers /\ i \in Open(w)'
        /\ Status(e)' = IF step'[w] \in Held /\ i = first'[w] THEN Handled(w)' ELSE "queued"
    BY <1>7, <1>r DEF At
  <2>2. ASSUME ProcessFails(w), i = first[w] PROVE Changes(e)
    BY <1>1, <1>i, <2>1, <2>2 DEF Current
  <2>3. step'[w] \in Held \ {"process"} /\ i = first'[w] => step[w] \in Held /\ i = first[w]
    BY <2>1, DecidedFrom DEF Held, ProcessFails
  <2>4. CASE Unread(i)
    <3>1. Status(e) = "queued"
      BY <1>q, <1>t, <1>i, <2>4 DEF At
    <3>2. ~(step[w] \in Held /\ i = first[w])
      <4> SUFFICES ASSUME step[w] \in Held, i = first[w] PROVE FALSE
        OBVIOUS
      <4>1. At(i, "open", w) /\ At(i, "unread", "nobody")
        BY <2>1, <2>4, FirstOpen DEF At
      <4> QED BY <1>i, <1>t, <2>1, <4>1 DEF OneToken
    <3>3. Status(e)' \in {"queued", "running"}
      BY <2>1, <2>3, <3>2 DEF Handled
    <3> QED BY <3>1, <3>3 DEF Changes
  <2>5. ASSUME i \in Open(w),
               step[w] \in Held /\ i = first[w] =>
                 step'[w] \in Held /\ i = first'[w] /\ Handled(w)' = Handled(w)
        PROVE  Changes(e)
    <3>1. Status(e) = IF step[w] \in Held /\ i = first[w] THEN Handled(w) ELSE "queued"
      BY <1>q, <1>i, <2>1, <2>5 DEF At
    <3> QED BY <2>1, <2>3, <2>5, <3>1 DEF Changes, Handled
  <2> QED BY <2>1, <2>2, <2>4, <2>5, OpenFrom
<1> QED BY <1>4, <1>5, <1>6, <1>7 DEF Kinds

LEMMA LedgerStarts == Init => Ledger!Init
<1> SUFFICES ASSUME Init PROVE Ledger!Init
  OBVIOUS
<1>1. \A e \in Events : Status(e) = "unpublished"
  <2>1. Entries = {} /\ \A w \in Workers : popped[w] = {} /\ step[w] = "idle" /\ Open(w) = {}
    BY DEF Init, Entries, Open
  <2>2. cursor + 1 .. Len(stream) = {}
    BY DEF Init
  <2>3. Waiting = {} /\ Coming = {}
    BY <2>1, <2>2 DEF Waiting, Coming, Init
  <2>4. processed = {} /\ dead = {}
    BY DEF Init
  <2>5. \A e : (\A w \in Workers : ~Attempting(w, e) /\ ~Deciding(w, e)) /\ ~Published(e)
    BY <2>1 DEF Attempting, Deciding, Published
  <2> QED BY <2>3, <2>4, <2>5 DEF Status, Among
<1> QED BY <1>1 DEF Ledger!Init, Init

LEMMA LedgerMoves ==
  ASSUME TypeInv, TypeInv', OneInv, AttemptsInv, EarnInv, [Next]_vars
  PROVE  Ledger!Next
<1>1. faulted \subseteq faulted'
  BY FaultsStay
<1>f. faultCount' >= faultCount
  <2>1. faultCount \in Nat /\ faultCount' \in Nat
    BY ConstantsAssumption DEF TypeInv, TypeOK
  <2> QED BY <2>1, FailsOrNot
<1>2. CASE "reply" \in faulted'
  BY <1>1, <1>f, <1>2 DEF Ledger!Next
<1>3. CASE "reply" \notin faulted'
  <2>1. /\ OneToken /\ AllPublished
        /\ OneToken' /\ AllPublished'
    BY <1>1, <1>3, OneStep DEF OneInv
  <2>2. "expiry" \notin faulted => Counted
    BY <1>1, <1>3 DEF AttemptsInv
  <2>3. \A e \in Events : Changes(e)
    BY <1>3, <2>1, <2>2, StatusChanges
  <2> QED BY <1>1, <1>f, <2>3 DEF Changes, Ledger!Next, Ledger!Fail, Ledger!Defer, Ledger!Bury,
             Ledger!Strand, Ledger!Advance, Ledger!Move
<1> QED BY <1>2, <1>3

(* Whatever fails, crashes or expires, and however many workers share the    *)
(* stream, every step of the pipeline is, for each event, a step the queue   *)
(* promises, until a call takes effect and its reply is lost: attempts are   *)
(* counted one by one, a retry is deferred only while attempts are left and  *)
(* an event buried only when none is, and what has ended has ended.          *)
THEOREM LedgerImplemented == Spec => ImplementsLedger
<1>1. TypeInv /\ TypeInv' /\ OneInv /\ AttemptsInv /\ EarnInv /\ [Next]_vars
        => [Ledger!Next]_(Ledger!vars)
  BY LedgerMoves
<1> QED BY <1>1, TypeInvariant, OneInit, OneStep, AttemptsInit, AttemptsStep, EarnInit,
           EarnKept, LedgerStarts, PTL DEF Spec, ImplementsLedger, Ledger!Spec
=============================================================================
