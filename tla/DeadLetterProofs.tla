-------------------------- MODULE DeadLetterProofs --------------------------
(***************************************************************************)
(* Proofs about DeadLetterOps, for any number of events, requests, dead    *)
(* letters and faults; and about IncidentDashboard, for any number of      *)
(* viewers beside them: the dashboards take nothing from what is proved of *)
(* the dead letters, and what an operator has done shows.                  *)
(***************************************************************************)
EXTENDS IncidentDashboard, TLAPS

-----------------------------------------------------------------------------
(* Types.                                                                   *)

LEMMA WrittenInIds ==
  ASSUME TypeOK
  PROVE  /\ Written = 1 .. Len(entries)
         /\ Written \subseteq Ids
         /\ \A i \in Written : entries[i] \in Events
<1>1. entries \in Seq(Events) /\ Len(entries) <= MaxEntries
  BY DEF TypeOK
<1>2. DOMAIN entries = 1 .. Len(entries) /\ Len(entries) \in Nat
  BY <1>1
<1>3. \A i \in 1 .. Len(entries) : entries[i] \in Events
  BY <1>1
<1>4. 1 .. Len(entries) \subseteq 1 .. MaxEntries
  BY <1>1, <1>2, OpsAssumption
<1> QED BY <1>2, <1>3, <1>4 DEF Written, Ids

LEMMA FaultType ==
  ASSUME TypeOK, NEW what \in FaultNames,
         Fault(what)
  PROVE  /\ faultCount' \in 0 .. MaxFaults
         /\ faulted' \subseteq FaultNames
BY OpsAssumption DEF TypeOK, Fault

LEMMA ReportType ==
  ASSUME TypeOK, NEW call \in FaultNames, NEW outcome \in Outcomes,
         Report(call, outcome)
  PROVE  /\ faultCount' \in 0 .. MaxFaults
         /\ faulted' \subseteq FaultNames
<1>1. CASE outcome = "ok"
  BY <1>1 DEF Report, faultVars, TypeOK
<1>2. CASE outcome = "failed"
  BY <1>2, FaultType DEF Report
<1>3. CASE outcome = "lost"
  BY <1>3, FaultType DEF Report, FaultNames
<1> QED BY <1>1, <1>2, <1>3 DEF Outcomes

\* The part of TypeOK about requests.
RequestsOK ==
  /\ step \in [Requests -> Calls \union {"idle"}]
  /\ target \in [Requests -> Written \union {0}]
  /\ \A q \in Requests : target[q] = 0 <=> step[q] = "idle"
  /\ kind \in [Requests -> {"replay", "discard"}]

LEMMA StepType ==
  ASSUME TypeOK, NEW q \in Requests, entries' = entries,
         End(q) \/ (step[q] # "idle" /\ \E next \in Calls : GoTo(q, next))
  PROVE  RequestsOK'
<1>1. 0 \notin Written
  BY WrittenInIds DEF TypeOK
<1>2. CASE End(q)
  BY <1>1, <1>2 DEF End, TypeOK, RequestsOK, Written
<1>3. ASSUME step[q] # "idle", NEW next \in Calls, GoTo(q, next)
      PROVE  RequestsOK'
  BY <1>3 DEF GoTo, TypeOK, RequestsOK, Written, Calls
<1> QED BY <1>2, <1>3

LEMMA TypeInit == Init => TypeOK
<1> SUFFICES ASSUME Init PROVE TypeOK
  OBVIOUS
<1>1. 0 \in 0 .. MaxRetries /\ 0 \in 0 .. MaxFaults /\ 0 <= MaxEntries
  BY OpsAssumption
<1>2. entries \in Seq(Events) /\ Len(entries) = 0
  BY DEF Init
<1> QED BY <1>1, <1>2 DEF Init, TypeOK, Written

LEMMA ClaimType ==
  ASSUME TypeOK, NEW q \in Requests, NEW i \in Written, Claim(q, i)
  PROVE  TypeOK'
<1>1. UNCHANGED <<entryVars, workerVars, historyVars>>
  BY DEF Claim
<1>2. PICK outcome \in Outcomes :
        /\ Report("claim", outcome)
        /\ locks' = IF outcome = "failed" THEN locks ELSE locks \union {i}
        /\ IF outcome = "ok"
           THEN /\ step' = [step EXCEPT ![q] = "read"]
                /\ target' = [target EXCEPT ![q] = i]
                /\ \E k \in {"replay", "discard"} : kind' = [kind EXCEPT ![q] = k]
           ELSE UNCHANGED requestVars
  BY DEF Claim
<1>3. RequestsOK'
  <2>1. i # 0 /\ Written' = Written
    BY <1>1, WrittenInIds DEF entryVars, Written, TypeOK
  <2>2. CASE UNCHANGED requestVars
    BY <2>1, <2>2 DEF requestVars, TypeOK, RequestsOK
  <2>3. CASE /\ step' = [step EXCEPT ![q] = "read"]
             /\ target' = [target EXCEPT ![q] = i]
             /\ \E k \in {"replay", "discard"} : kind' = [kind EXCEPT ![q] = k]
    <3>1. /\ step' \in [Requests -> Calls \union {"idle"}]
          /\ target' \in [Requests -> Written \union {0}]
          /\ kind' \in [Requests -> {"replay", "discard"}]
      BY <2>3 DEF TypeOK, Calls
    <3>2. \A p \in Requests : target'[p] = 0 <=> step'[p] = "idle"
      BY <2>1, <2>3 DEF TypeOK
    <3> QED BY <2>1, <3>1, <3>2 DEF RequestsOK
  <2> QED BY <1>2, <2>2, <2>3
<1>4. locks' \subseteq Written
  BY <1>2 DEF TypeOK
<1> QED
  BY <1>1, <1>2, <1>3, <1>4, ReportType
  DEF TypeOK, RequestsOK, Written, entryVars, workerVars, historyVars, FaultNames

LEMMA ReadType ==
  ASSUME TypeOK, NEW q \in Requests, Read(q) \/ Invalidate(q) \/ Disconnect(q)
  PROVE  TypeOK'
<1>1. UNCHANGED <<entryVars, workerVars, locks, historyVars>>
  BY DEF Read, Invalidate, Disconnect
<1>2. End(q) \/ (step[q] # "idle" /\ \E next \in Calls : GoTo(q, next))
  BY DEF Read, Invalidate, Disconnect, Calls
<1>3. /\ faultCount' \in 0 .. MaxFaults
      /\ faulted' \subseteq FaultNames
  <2>1. UNCHANGED faultVars \/ \E what \in {"read", "invalidate", "disconnect"} : Fault(what)
    BY DEF Read, Invalidate, Disconnect
  <2> QED BY <2>1, FaultType DEF faultVars, TypeOK, Calls, FaultNames
<1>4. RequestsOK'
  BY <1>1, <1>2, StepType DEF entryVars
<1> QED
  BY <1>1, <1>3, <1>4 DEF TypeOK, RequestsOK, Written, entryVars, workerVars, historyVars

LEMMA PublishType ==
  ASSUME TypeOK, NEW q \in Requests, Publish(q)
  PROVE  TypeOK'
<1> DEFINE i == target[q]
<1>1. i \in Written
  BY DEF Publish, TypeOK
<1>2. i \in Ids /\ entries[i] \in Events
  BY <1>1, WrittenInIds
<1>3. PICK outcome \in Outcomes :
        /\ Report("publish", outcome)
        /\ IF outcome = "failed" THEN UNCHANGED <<queued, replays, published>>
           ELSE /\ queued' = [queued EXCEPT ![entries[i]] = @ + 1]
                /\ replays' = [replays EXCEPT ![i] = @ + 1]
                /\ published' = [published EXCEPT ![entries[i]] = @ + 1]
        /\ GoTo(q, IF outcome = "ok" THEN "delete" ELSE "unlock")
  BY DEF Publish
<1>4. UNCHANGED <<entryVars, retryCount, locks, discards, audited, failures, clears, lapses>>
  BY DEF Publish
<1>5. RequestsOK'
  BY <1>3, <1>4, StepType DEF Publish, Calls, entryVars
<1>6. /\ queued' \in [Events -> Nat] /\ replays' \in [Ids -> Nat]
      /\ published' \in [Events -> Nat \ {0}]
  <2>1. /\ queued \in [Events -> Nat] /\ replays \in [Ids -> Nat]
        /\ published \in [Events -> Nat \ {0}]
    BY DEF TypeOK
  <2> HIDE DEF i
  <2> QED BY <1>2, <1>3, <2>1
<1>7. /\ faultCount' \in 0 .. MaxFaults
      /\ faulted' \subseteq FaultNames
  BY <1>3, ReportType DEF Calls, FaultNames
<1> QED
  BY <1>4, <1>5, <1>6, <1>7 DEF TypeOK, RequestsOK, Written, entryVars

LEMMA DeleteType ==
  ASSUME TypeOK, NEW q \in Requests, Delete(q)
  PROVE  TypeOK'
<1> DEFINE i == target[q]
<1>1. i \in Written
  BY DEF Delete, TypeOK
<1>2. PICK outcome \in Outcomes :
        /\ Report("delete", outcome)
        /\ present' = IF outcome = "failed" THEN present ELSE present \ {i}
        /\ discards' = IF outcome # "failed" /\ kind[q] = "discard" /\ i \in present
                       THEN discards \union {i} ELSE discards
        /\ GoTo(q, IF outcome = "ok" THEN "clear" ELSE "unlock")
  BY DEF Delete
<1>3. UNCHANGED <<entries, workerVars, locks, replays, published, audited, failures, clears, lapses>>
  BY DEF Delete
<1>4. RequestsOK'
  BY <1>2, <1>3, StepType DEF Delete, Calls
<1>5. present' \subseteq Written /\ discards' \subseteq Written
  BY <1>1, <1>2 DEF TypeOK
<1>6. /\ faultCount' \in 0 .. MaxFaults
      /\ faulted' \subseteq FaultNames
  BY <1>2, ReportType DEF Calls, FaultNames
<1> QED
  BY <1>3, <1>4, <1>5, <1>6 DEF TypeOK, RequestsOK, Written, workerVars

LEMMA ClearType ==
  ASSUME TypeOK, NEW q \in Requests, Clear(q)
  PROVE  TypeOK'
<1> DEFINE e == entries[target[q]]
<1>1. e \in Events
  BY WrittenInIds DEF Clear, TypeOK
<1>2. PICK outcome \in Outcomes :
        /\ Report("clear", outcome)
        /\ IF outcome = "failed" THEN UNCHANGED <<retryCount, clears>>
           ELSE /\ retryCount' = [retryCount EXCEPT ![e] = 0]
                /\ clears' = [clears EXCEPT ![e] = @ + 1]
  BY DEF Clear
<1>3. UNCHANGED <<entryVars, queued, locks, replays, published, discards, audited, failures, lapses>>
  BY DEF Clear
<1>4. RequestsOK'
  BY <1>3, StepType DEF Clear, Calls, entryVars
<1>5. retryCount' \in [Events -> 0 .. MaxRetries] /\ clears' \in [Events -> Nat]
  <2>1. retryCount \in [Events -> 0 .. MaxRetries] /\ clears \in [Events -> Nat]
    BY DEF TypeOK
  <2>2. 0 \in 0 .. MaxRetries
    BY OpsAssumption
  <2> HIDE DEF e
  <2> QED BY <1>1, <1>2, <2>1, <2>2
<1>6. /\ faultCount' \in 0 .. MaxFaults
      /\ faulted' \subseteq FaultNames
  BY <1>2, ReportType DEF Calls, FaultNames
<1> QED
  BY <1>3, <1>4, <1>5, <1>6 DEF TypeOK, RequestsOK, Written, entryVars

LEMMA AuditType ==
  ASSUME TypeOK, NEW q \in Requests, Audit(q)
  PROVE  TypeOK'
<1>1. PICK outcome \in Outcomes :
        /\ Report("audit", outcome)
        /\ audited' = IF outcome = "failed" THEN audited
                      ELSE audited \union {<<kind[q], target[q]>>}
  BY DEF Audit
<1>2. UNCHANGED <<entryVars, workerVars, locks, replays, published, discards, failures, clears, lapses>>
  BY DEF Audit
<1>3. RequestsOK'
  BY <1>2, StepType DEF Audit, Calls, entryVars
<1>4. audited' \subseteq {"replay", "discard"} \X Written
  <2>1. target[q] \in Written /\ kind[q] \in {"replay", "discard"}
    BY DEF Audit, TypeOK
  <2> QED BY <1>1, <2>1 DEF TypeOK
<1>5. /\ faultCount' \in 0 .. MaxFaults
      /\ faulted' \subseteq FaultNames
  BY <1>1, ReportType DEF Calls, FaultNames
<1> QED
  BY <1>2, <1>3, <1>4, <1>5 DEF TypeOK, RequestsOK, Written, entryVars, workerVars

LEMMA UnlockType ==
  ASSUME TypeOK, NEW q \in Requests, Unlock(q)
  PROVE  TypeOK'
<1>1. PICK outcome \in Outcomes :
        /\ Report("unlock", outcome)
        /\ locks' = IF outcome = "failed" THEN locks ELSE locks \ {target[q]}
  BY DEF Unlock
<1>2. UNCHANGED <<entryVars, workerVars, historyVars>>
  BY DEF Unlock
<1>3. RequestsOK'
  BY <1>2, StepType DEF Unlock, entryVars
<1>4. /\ faultCount' \in 0 .. MaxFaults
      /\ faulted' \subseteq FaultNames
  BY <1>1, ReportType DEF Calls, FaultNames
<1> QED
  BY <1>1, <1>2, <1>3, <1>4
  DEF TypeOK, RequestsOK, Written, entryVars, workerVars, historyVars

LEMMA ExpireType ==
  ASSUME TypeOK, NEW i \in Written, ExpireHeld(i) \/ ExpireLeft(i)
  PROVE  TypeOK'
<1>1. UNCHANGED <<entryVars, workerVars, requestVars, historyVars>> /\ locks' = locks \ {i}
  BY DEF ExpireHeld, ExpireLeft
<1>2. /\ faultCount' \in 0 .. MaxFaults
      /\ faulted' \subseteq FaultNames
  <2>1. Fault("expiry") \/ UNCHANGED faultVars
    BY DEF ExpireHeld, ExpireLeft
  <2> QED BY <2>1, FaultType DEF faultVars, TypeOK, FaultNames
<1> QED
  BY <1>1, <1>2 DEF TypeOK, Written, entryVars, workerVars, requestVars, historyVars

LEMMA WorkerType ==
  ASSUME TypeOK, NEW e \in Events, Process(e) \/ Retry(e) \/ Lapse(e)
  PROVE  TypeOK'
<1>1. UNCHANGED <<entryVars, locks, requestVars, replays, published, discards, audited, clears>>
  BY DEF Process, Retry, Lapse, historyVars
<1>2. /\ queued' \in [Events -> Nat]
      /\ retryCount' \in [Events -> 0 .. MaxRetries]
      /\ failures' \in [Events -> Nat]
      /\ lapses' \in [Events -> Nat]
  <2>1. /\ queued \in [Events -> Nat]
        /\ retryCount \in [Events -> 0 .. MaxRetries]
        /\ failures \in [Events -> Nat]
        /\ lapses \in [Events -> Nat]
    BY DEF TypeOK
  <2>2. CASE Process(e)
    BY <2>1, <2>2 DEF Process, historyVars
  <2>3. CASE Retry(e)
    BY <2>1, <2>3, OpsAssumption DEF Retry
  <2>4. CASE Lapse(e)
    BY <2>1, <2>4, OpsAssumption DEF Lapse
  <2> QED BY <2>2, <2>3, <2>4
<1>3. /\ entries' \in Seq(Events) /\ Len(entries') <= MaxEntries
      /\ present' \subseteq Written' /\ locks' \subseteq Written'
      /\ discards' \subseteq Written'
      /\ audited' \subseteq {"replay", "discard"} \X Written'
  <2>1. entries' = entries /\ present' = present /\ Written' = Written
    BY <1>1 DEF Written, entryVars
  <2> QED BY <1>1, <2>1 DEF TypeOK
<1>4. /\ step' \in [Requests -> Calls \union {"idle"}]
      /\ target' \in [Requests -> Written' \union {0}]
      /\ \A q \in Requests : target'[q] = 0 <=> step'[q] = "idle"
      /\ kind' \in [Requests -> {"replay", "discard"}]
  <2>1. step' = step /\ target' = target /\ kind' = kind /\ Written' = Written
    BY <1>1 DEF Written, entryVars, requestVars
  <2> QED BY <2>1 DEF TypeOK
<1>5. /\ replays' \in [Ids -> Nat] /\ clears' \in [Events -> Nat]
      /\ published' \in [Events -> Nat \ {0}]
  BY <1>1 DEF TypeOK
<1>6. /\ faultCount' \in 0 .. MaxFaults
      /\ faulted' \subseteq FaultNames
  <2>1. Fault("lapse") \/ UNCHANGED faultVars
    BY DEF Process, Retry, Lapse
  <2> QED BY <2>1, FaultType DEF faultVars, TypeOK, FaultNames
<1> QED BY <1>2, <1>3, <1>4, <1>5, <1>6 DEF TypeOK

LEMMA BuryWrites ==
  ASSUME TypeOK, NEW e \in Events, Bury(e)
  PROVE  /\ entries' \in Seq(Events) /\ Len(entries') = Len(entries) + 1
         /\ Written' = Written \union {Len(entries')}
         /\ Len(entries') \notin Written
         /\ present' = present \union {Len(entries')}
<1>1. entries' = Append(entries, e) /\ present' = present \union {Len(entries')}
  BY DEF Bury
<1>2. entries' \in Seq(Events) /\ Len(entries') = Len(entries) + 1
  BY <1>1 DEF TypeOK
<1>3. Written' = 1 .. Len(entries') /\ Written = 1 .. Len(entries) /\ Len(entries) \in Nat
  BY <1>2, WrittenInIds DEF Written, TypeOK
<1> QED BY <1>1, <1>2, <1>3

LEMMA BuryType ==
  ASSUME TypeOK, NEW e \in Events, Bury(e)
  PROVE  TypeOK'
<1>1. UNCHANGED <<locks, requestVars, replays, published, discards, audited, clears, lapses, faultVars>>
  BY DEF Bury
<1>2. /\ queued' \in [Events -> Nat]
      /\ retryCount' \in [Events -> 0 .. MaxRetries]
      /\ failures' \in [Events -> Nat]
  BY OpsAssumption DEF Bury, TypeOK
<1>3. Len(entries') <= MaxEntries
  BY BuryWrites, OpsAssumption DEF Bury, TypeOK
<1>4. audited \subseteq {"replay", "discard"} \X Written'
  BY BuryWrites DEF TypeOK
<1>5. target \in [Requests -> Written' \union {0}]
  BY BuryWrites DEF TypeOK
<1> QED
  BY <1>1, <1>2, <1>3, <1>4, <1>5, BuryWrites DEF TypeOK, requestVars, faultVars

\* Every stream, lock, request and history keeps its shape.
THEOREM OpsTypeCorrect == Spec => []TypeOK
<1>1. TypeOK /\ [Next]_vars => TypeOK'
  <2> SUFFICES ASSUME TypeOK, [Next]_vars PROVE TypeOK'
    OBVIOUS
  <2>1. ASSUME NEW q \in Requests, Handle(q) PROVE TypeOK'
    BY <2>1, ClaimType, ReadType, PublishType, DeleteType, ClearType, AuditType, UnlockType
    DEF Handle
  <2>2. ASSUME NEW q \in Requests, Invalidate(q) \/ Disconnect(q) PROVE TypeOK'
    BY <2>2, ReadType
  <2>3. ASSUME NEW i \in Written, ExpireHeld(i) \/ ExpireLeft(i) PROVE TypeOK'
    BY <2>3, ExpireType
  <2>4. ASSUME NEW e \in Events, Work(e) PROVE TypeOK'
    BY <2>4, WorkerType, BuryType DEF Work
  <2>5. CASE UNCHANGED vars
    BY <2>5 DEF vars, entryVars, workerVars, requestVars, historyVars, faultVars, TypeOK, Written
  <2> QED BY <2>1, <2>2, <2>3, <2>4, <2>5 DEF Next
<1> QED BY <1>1, TypeInit, PTL DEF Spec

-----------------------------------------------------------------------------
(* One actor.                                                               *)

\* With what has gone wrong, only more of it can be excused.
LEMMA FaultedGrows ==
  ASSUME [Next]_vars
  PROVE  faulted \subseteq faulted'
<1>1. ASSUME NEW call, NEW outcome \in Outcomes, Report(call, outcome)
      PROVE  faulted \subseteq faulted'
  BY <1>1 DEF Report, Fault, faultVars, Outcomes
<1>2. ASSUME NEW q \in Requests, Handle(q) \/ Invalidate(q) \/ Disconnect(q)
      PROVE  faulted \subseteq faulted'
  <2>1. CASE \E i \in Written : Claim(q, i)
    BY <2>1, <1>1 DEF Claim
  <2>2. CASE Read(q) \/ Invalidate(q) \/ Disconnect(q)
    BY <2>2 DEF Read, Invalidate, Disconnect, Fault, faultVars
  <2>3. CASE Publish(q) \/ Delete(q)
    BY <2>3, <1>1 DEF Publish, Delete
  <2>4. CASE Clear(q) \/ Audit(q) \/ Unlock(q)
    BY <2>4, <1>1 DEF Clear, Audit, Unlock
  <2> QED BY <1>2, <2>1, <2>2, <2>3, <2>4 DEF Handle
<1>3. ASSUME NEW i \in Written, ExpireHeld(i) \/ ExpireLeft(i)
      PROVE  faulted \subseteq faulted'
  BY <1>3 DEF ExpireHeld, ExpireLeft, Fault, faultVars
<1>4. ASSUME NEW e \in Events, Work(e)
      PROVE  faulted \subseteq faulted'
  BY <1>4 DEF Work, Process, Retry, Lapse, Bury, Fault, faultVars
<1>5. CASE UNCHANGED vars
  BY <1>5 DEF vars, faultVars
<1> QED BY <1>2, <1>3, <1>4, <1>5 DEF Next

LEMMA ClaimAlone ==
  ASSUME TypeOK, OneActor, NEW q \in Requests, NEW i \in Written, Claim(q, i),
         "expiry" \notin faulted'
  PROVE  OneActor'
<1>1. "expiry" \notin faulted
  BY FaultedGrows DEF Next, Handle
<1>2. locks \subseteq locks'
  BY DEF Claim
<1>3. CASE UNCHANGED requestVars
  BY <1>1, <1>2, <1>3 DEF OneActor, Acting, requestVars
<1>4. CASE /\ step' = [step EXCEPT ![q] = "read"]
           /\ target' = [target EXCEPT ![q] = i]
  <2>1. i \in locks' /\ locks \subseteq locks'
    BY <1>4 DEF Claim, requestVars, TypeOK
  <2>2. \A p \in Requests : ~Acting(p, i)
    BY <1>1 DEF OneActor, Acting, Claim
  <2> QED BY <1>1, <1>4, <2>1, <2>2 DEF OneActor, Acting, TypeOK
<1> QED BY <1>3, <1>4 DEF Claim

\* As long as its lock has not run out, the request that holds it is alone.
LEMMA OneActorStep ==
  ASSUME TypeOK, OneActor, [Next]_vars
  PROVE  OneActor'
<1> SUFFICES ASSUME "expiry" \notin faulted' PROVE OneActor'
  BY DEF OneActor
<1>1. "expiry" \notin faulted
  BY FaultedGrows
<1>2. ASSUME NEW q \in Requests, NEW i \in Written, Claim(q, i)
      PROVE  OneActor'
  BY <1>2, ClaimAlone
<1>3. ASSUME NEW q \in Requests, step[q] # "idle", UNCHANGED locks,
             End(q) \/ \E next \in Calls : GoTo(q, next)
      PROVE  OneActor'
  BY ZenonT(30), <1>1, <1>3 DEF OneActor, Acting, End, GoTo, TypeOK
<1>4. ASSUME NEW q \in Requests,
             Read(q) \/ Publish(q) \/ Delete(q) \/ Clear(q) \/ Audit(q) \/ Invalidate(q)
      PROVE  OneActor'
  <2>1. step[q] # "idle" /\ UNCHANGED locks
    BY <1>4 DEF Read, Publish, Delete, Clear, Audit, Invalidate
  <2>2. End(q) \/ \E next \in Calls : GoTo(q, next)
    BY <1>4 DEF Read, Publish, Delete, Clear, Audit, Invalidate, Calls
  <2> QED BY <2>1, <2>2, <1>3
<1>5. ASSUME NEW q \in Requests, Unlock(q)
      PROVE  OneActor'
  <2>1. \A p \in Requests \ {q} : step[p] # "idle" => target[p] # target[q]
    BY <1>1, <1>5 DEF OneActor, Acting, Unlock
  <2>2. locks \ {target[q]} \subseteq locks' /\ End(q)
    BY <1>5 DEF Unlock
  <2> QED BY <1>1, <2>1, <2>2 DEF OneActor, Acting, End, TypeOK
<1>6. ASSUME NEW q \in Requests, Disconnect(q)
      PROVE  OneActor'
  BY <1>6, <1>3 DEF Disconnect
<1>7. ASSUME NEW i \in Written, ExpireHeld(i)
      PROVE  OneActor'
  BY <1>7 DEF ExpireHeld, Fault
<1>8. ASSUME NEW i \in Written, ExpireLeft(i)
      PROVE  OneActor'
  BY <1>1, <1>8 DEF ExpireLeft, OneActor, Acting, requestVars
<1>9. ASSUME NEW e \in Events, Work(e)
      PROVE  OneActor'
  BY <1>1, <1>9 DEF Work, Process, Retry, Lapse, Bury, OneActor, Acting, requestVars
<1>10. CASE UNCHANGED vars
  BY <1>1, <1>10 DEF vars, requestVars, OneActor, Acting
<1> QED
  BY <1>2, <1>4, <1>5, <1>6, <1>7, <1>8, <1>9, <1>10 DEF Next, Handle

\* Under any failures, lost replies and disconnects, two requests act on one
\* dead letter only after a lock has run out under a request.
THEOREM OneActorHolds == Spec => []OneActor
<1>1. Init => OneActor
  BY DEF Init, OneActor
<1>2. TypeOK /\ OneActor /\ [Next]_vars => OneActor'
  BY OneActorStep
<1> QED BY <1>1, <1>2, OpsTypeCorrect, PTL DEF Spec

-----------------------------------------------------------------------------
(* Nothing leaves, and nothing is recorded, without a cause.                *)

\* What a request has achieved by the time of its later calls.
AchievedByStep ==
  \A q \in Requests :
    /\ step[q] = "delete" /\ kind[q] = "replay" => replays[target[q]] > 0
    /\ step[q] \in {"clear", "audit"} =>
         /\ target[q] \notin present
         /\ kind[q] = "replay" => replays[target[q]] > 0

CausesInv == AchievedByStep /\ LeavesOnPurpose /\ AuditTruthful

\* Steps that leave the dead-letter stream and its histories alone.
LEMMA CausesKept ==
  ASSUME TypeOK, CausesInv,
         UNCHANGED <<entryVars, replays, discards, audited>>,
         \/ UNCHANGED requestVars
         \/ \E q \in Requests :
              \/ End(q)
              \/ step[q] \in {"read", "publish", "delete"} /\ GoTo(q, "unlock")
              \/ step[q] = "read" /\ GoTo(q, "publish")
              \/ step[q] = "read" /\ kind[q] # "replay" /\ GoTo(q, "delete")
              \/ step[q] = "clear" /\ GoTo(q, "audit")
              \/ step[q] = "invalidate" /\ GoTo(q, "unlock")
  PROVE  CausesInv'
<1>1. LeavesOnPurpose' /\ AuditTruthful'
  BY DEF CausesInv, LeavesOnPurpose, AuditTruthful, entryVars, Written
<1>2. AchievedByStep'
  <2>1. CASE UNCHANGED requestVars
    BY <2>1 DEF CausesInv, AchievedByStep, requestVars, entryVars
  <2>2. ASSUME NEW q \in Requests, End(q) PROVE AchievedByStep'
    BY <2>2 DEF CausesInv, AchievedByStep, End, entryVars, TypeOK
  <2>3. ASSUME NEW q \in Requests, NEW next \in {"unlock", "publish"}, GoTo(q, next)
        PROVE  AchievedByStep'
    BY <2>3 DEF CausesInv, AchievedByStep, GoTo, entryVars, TypeOK
  <2>4. ASSUME NEW q \in Requests, kind[q] # "replay", GoTo(q, "delete") PROVE AchievedByStep'
    BY <2>4 DEF CausesInv, AchievedByStep, GoTo, entryVars, TypeOK
  <2>5. ASSUME NEW q \in Requests, step[q] = "clear", GoTo(q, "audit") PROVE AchievedByStep'
    BY <2>5 DEF CausesInv, AchievedByStep, GoTo, entryVars, TypeOK
  <2> QED BY <2>1, <2>2, <2>3, <2>4, <2>5
<1> QED BY <1>1, <1>2 DEF CausesInv

LEMMA PublishCauses ==
  ASSUME TypeOK, CausesInv, NEW q \in Requests, Publish(q)
  PROVE  CausesInv'
<1> DEFINE i == target[q]
<1>1. i \in Ids /\ replays \in [Ids -> Nat] /\ Written \subseteq Ids
  BY WrittenInIds DEF Publish, TypeOK
<1>2. UNCHANGED <<entryVars, discards, audited>>
  BY DEF Publish
<1>3. \/ UNCHANGED replays /\ GoTo(q, "unlock")
      \/ /\ replays' = [replays EXCEPT ![i] = @ + 1]
         /\ (GoTo(q, "delete") \/ GoTo(q, "unlock"))
  BY DEF Publish
<1>4. \A j \in Ids : replays'[j] >= replays[j]
  BY <1>1, <1>3
<1>5. GoTo(q, "delete") => replays'[i] > 0
  <2> SUFFICES ASSUME GoTo(q, "delete") PROVE replays'[i] > 0
    OBVIOUS
  <2>1. step'[q] = "delete"
    BY DEF GoTo, TypeOK
  <2>2. ~GoTo(q, "unlock")
    BY <2>1 DEF GoTo, TypeOK
  <2> QED BY <1>1, <1>3, <2>2
<1>6. \A j \in Ids : replays[j] > 0 => replays'[j] > 0
  BY <1>1, <1>3
<1>7. LeavesOnPurpose' /\ AuditTruthful'
  BY <1>1, <1>2, <1>6 DEF CausesInv, LeavesOnPurpose, AuditTruthful, entryVars, Written
<1>8. AchievedByStep'
  <2> SUFFICES ASSUME NEW p \in Requests, step'[p] \in {"delete", "clear", "audit"}
               PROVE  /\ step'[p] = "delete" /\ kind'[p] = "replay" => replays'[target'[p]] > 0
                      /\ step'[p] \in {"clear", "audit"} =>
                           /\ target'[p] \notin present'
                           /\ kind'[p] = "replay" => replays'[target'[p]] > 0
    BY DEF AchievedByStep
  <2>1. UNCHANGED <<target, kind, present>>
    BY <1>2, <1>3 DEF GoTo, entryVars
  <2>2. CASE p = q
    <3>1. GoTo(q, "delete") /\ step'[p] = "delete"
      BY <1>3, <2>2 DEF GoTo, TypeOK
    <3> QED BY <1>5, <2>1, <2>2, <3>1
  <2>3. CASE p # q
    <3>1. step'[p] = step[p]
      BY <1>3, <2>3 DEF GoTo, TypeOK
    <3>2. target[p] \in Ids
      BY <3>1, WrittenInIds DEF TypeOK
    <3> QED BY <1>6, <2>1, <3>1, <3>2 DEF CausesInv, AchievedByStep
  <2> QED BY <2>2, <2>3
<1> QED BY <1>7, <1>8 DEF CausesInv

LEMMA DeleteCauses ==
  ASSUME TypeOK, CausesInv, NEW q \in Requests, Delete(q)
  PROVE  CausesInv'
<1> DEFINE i == target[q]
<1>1. UNCHANGED <<entries, replays, audited>> /\ step[q] = "delete"
  BY DEF Delete
<1>2. PICK outcome \in Outcomes :
        /\ present' = IF outcome = "failed" THEN present ELSE present \ {i}
        /\ discards' = IF outcome # "failed" /\ kind[q] = "discard" /\ i \in present
                       THEN discards \union {i} ELSE discards
        /\ GoTo(q, IF outcome = "ok" THEN "clear" ELSE "unlock")
  BY DEF Delete
<1>3. present' \subseteq present /\ discards \subseteq discards'
  BY <1>2
<1>4. LeavesOnPurpose'
  <2> SUFFICES ASSUME NEW j \in Written, j \notin present'
               PROVE  replays[j] > 0 \/ j \in discards'
    BY <1>1 DEF LeavesOnPurpose, Written
  <2>1. CASE j \notin present
    BY <2>1, <1>3 DEF CausesInv, LeavesOnPurpose
  <2>2. CASE j \in present
    <3>1. j = i /\ outcome # "failed"
      BY <1>2, <2>2
    <3>2. CASE kind[q] = "replay"
      BY <1>1, <3>1, <3>2 DEF CausesInv, AchievedByStep
    <3>3. CASE kind[q] = "discard"
      BY <1>2, <2>2, <3>1, <3>3
    <3> QED BY <3>2, <3>3 DEF TypeOK
  <2> QED BY <2>1, <2>2
<1>5. AuditTruthful'
  BY <1>1, <1>3 DEF CausesInv, AuditTruthful, Written
<1>6. AchievedByStep'
  <2> SUFFICES ASSUME NEW p \in Requests, step'[p] \in {"delete", "clear", "audit"}
               PROVE  /\ step'[p] = "delete" /\ kind'[p] = "replay" => replays'[target'[p]] > 0
                      /\ step'[p] \in {"clear", "audit"} =>
                           /\ target'[p] \notin present'
                           /\ kind'[p] = "replay" => replays'[target'[p]] > 0
    BY DEF AchievedByStep
  <2>1. UNCHANGED <<target, kind, replays>>
    BY <1>1, <1>2 DEF GoTo
  <2>2. CASE p = q
    <3>1. outcome = "ok" /\ step'[p] = "clear"
      BY <1>2, <2>2 DEF GoTo, TypeOK
    <3>2. i \notin present'
      BY <1>2, <3>1
    <3> QED BY <1>1, <2>1, <2>2, <3>1, <3>2 DEF CausesInv, AchievedByStep
  <2>3. CASE p # q
    <3>1. step'[p] = step[p]
      BY <1>2, <2>3 DEF GoTo, TypeOK
    <3> QED BY <1>3, <2>1, <3>1 DEF CausesInv, AchievedByStep
  <2> QED BY <2>2, <2>3
<1> QED BY <1>4, <1>5, <1>6 DEF CausesInv

LEMMA AuditCauses ==
  ASSUME TypeOK, CausesInv, NEW q \in Requests, Audit(q)
  PROVE  CausesInv'
<1>1. /\ UNCHANGED <<entryVars, replays, discards>> /\ step[q] = "audit"
      /\ GoTo(q, "invalidate") \/ GoTo(q, "unlock")
  BY DEF Audit
<1>2. audited' \subseteq audited \union {<<kind[q], target[q]>>}
  BY DEF Audit
<1>3. LeavesOnPurpose'
  BY <1>1 DEF CausesInv, LeavesOnPurpose, entryVars, Written
<1>4. AuditTruthful'
  <2> SUFFICES ASSUME NEW k \in {"replay", "discard"}, NEW i \in Written,
                      <<k, i>> \in audited'
               PROVE  i \notin present /\ (k = "replay" => replays[i] > 0)
    BY <1>1 DEF AuditTruthful, entryVars, Written
  <2>1. CASE <<k, i>> \in audited
    BY <2>1 DEF CausesInv, AuditTruthful
  <2>2. CASE <<k, i>> = <<kind[q], target[q]>>
    <3>1. k = kind[q] /\ i = target[q]
      BY <2>2
    <3> QED BY <1>1, <3>1 DEF CausesInv, AchievedByStep
  <2> QED BY <1>2, <2>1, <2>2
<1>5. AchievedByStep'
  BY <1>1 DEF CausesInv, AchievedByStep, GoTo, entryVars, TypeOK
<1> QED BY <1>3, <1>4, <1>5 DEF CausesInv

LEMMA ClaimCauses ==
  ASSUME TypeOK, CausesInv, NEW q \in Requests, NEW i \in Written, Claim(q, i)
  PROVE  CausesInv'
<1>1. UNCHANGED <<entryVars, replays, discards, audited>>
  BY DEF Claim, historyVars
<1>2. CASE UNCHANGED requestVars
  BY <1>1, <1>2, CausesKept
<1>3. CASE /\ step' = [step EXCEPT ![q] = "read"]
           /\ target' = [target EXCEPT ![q] = i]
           /\ \E k \in {"replay", "discard"} : kind' = [kind EXCEPT ![q] = k]
  <2>1. LeavesOnPurpose' /\ AuditTruthful'
    BY <1>1 DEF CausesInv, LeavesOnPurpose, AuditTruthful, entryVars, Written
  <2>2. AchievedByStep'
    BY <1>1, <1>3 DEF CausesInv, AchievedByStep, entryVars, TypeOK
  <2> QED BY <2>1, <2>2 DEF CausesInv
<1> QED BY <1>2, <1>3 DEF Claim

LEMMA BuryCauses ==
  ASSUME TypeOK, CausesInv, NEW e \in Events, Bury(e)
  PROVE  CausesInv'
<1>1. UNCHANGED <<requestVars, replays, discards, audited>>
  BY DEF Bury
<1>2. \A i \in Written : i \in present <=> i \in present'
  BY BuryWrites
<1>3. LeavesOnPurpose'
  BY <1>1, <1>2, BuryWrites DEF CausesInv, LeavesOnPurpose
<1>4. AuditTruthful'
  <2>1. ASSUME NEW k \in {"replay", "discard"}, NEW i \in Written', <<k, i>> \in audited
        PROVE  i \in Written
    BY <2>1 DEF TypeOK
  <2> QED BY <1>1, <1>2, <2>1 DEF CausesInv, AuditTruthful
<1>5. AchievedByStep'
  <2>1. \A q \in Requests : step[q] # "idle" => target[q] \in Written
    BY DEF TypeOK
  <2> QED BY <1>1, <1>2, <2>1 DEF CausesInv, AchievedByStep, requestVars
<1> QED BY <1>3, <1>4, <1>5 DEF CausesInv

LEMMA CausesStep ==
  ASSUME TypeOK, CausesInv, [Next]_vars
  PROVE  CausesInv'
<1>1. ASSUME NEW q \in Requests,
             Read(q) \/ Clear(q) \/ Invalidate(q) \/ Unlock(q) \/ Disconnect(q)
      PROVE  CausesInv'
  <2>1. UNCHANGED <<entryVars, replays, discards, audited>>
    BY <1>1 DEF Read, Clear, Invalidate, Unlock, Disconnect, historyVars
  <2>2. \/ End(q)
        \/ step[q] = "read" /\ (GoTo(q, "unlock") \/ GoTo(q, "publish"))
        \/ step[q] = "read" /\ kind[q] # "replay" /\ GoTo(q, "delete")
        \/ step[q] = "clear" /\ GoTo(q, "audit")
        \/ step[q] = "invalidate" /\ GoTo(q, "unlock")
    BY <1>1 DEF Read, Clear, Invalidate, Unlock, Disconnect
  <2> QED BY <2>1, <2>2, CausesKept
<1>2. ASSUME NEW i \in Written, ExpireHeld(i) \/ ExpireLeft(i)
      PROVE  CausesInv'
  BY <1>2, CausesKept DEF ExpireHeld, ExpireLeft, historyVars
<1>3. ASSUME NEW e \in Events, Process(e) \/ Retry(e) \/ Lapse(e)
      PROVE  CausesInv'
  BY <1>3, CausesKept DEF Process, Retry, Lapse, historyVars
<1>4. CASE UNCHANGED vars
  BY <1>4, CausesKept DEF vars, historyVars
<1> QED
  BY <1>1, <1>2, <1>3, <1>4, ClaimCauses, PublishCauses, DeleteCauses, AuditCauses, BuryCauses
  DEF Next, Handle, Work

LEMMA CausesHold == Spec => []CausesInv
<1>1. Init => CausesInv
  BY DEF Init, CausesInv, AchievedByStep, LeavesOnPurpose, AuditTruthful, Written
<1>2. TypeOK /\ CausesInv /\ [Next]_vars => CausesInv'
  BY CausesStep
<1> QED BY <1>1, <1>2, OpsTypeCorrect, PTL DEF Spec

\* A dead letter is gone only when it was published again or discarded on
\* purpose, whatever fails.
THEOREM LeavesOnPurposeHolds == Spec => []LeavesOnPurpose
<1>1. CausesInv => LeavesOnPurpose
  BY DEF CausesInv
<1> QED BY <1>1, CausesHold, PTL

\* The audit tables tell only of replays and discards that took place.
THEOREM AuditTruthfulHolds == Spec => []AuditTruthful
<1>1. CausesInv => AuditTruthful
  BY DEF CausesInv
<1> QED BY <1>1, CausesHold, PTL

-----------------------------------------------------------------------------
(* Acted on once.                                                           *)

Unexcused == faulted \intersect {"expiry", "lost", "disconnect", "delete"} = {}

Acted(i) == replays[i] + (IF i \in discards THEN 1 ELSE 0)

\* q has published entry i again and not deleted it yet.
Republished(q) == step[q] = "delete" /\ kind[q] = "replay"

\* An entry that is still there is untouched but for the request that is about
\* to delete it; one that is gone was acted on at most once.
OnceInv ==
  /\ \A i \in Ids \ Written : replays[i] = 0
  /\ Unexcused =>
       /\ \A q \in Requests : step[q] \in {"publish", "delete"} => target[q] \in present
       /\ \A q \in Requests : step[q] = "publish" => kind[q] = "replay"
       /\ \A q \in Requests : Republished(q) => replays[target[q]] = 1
       /\ \A i \in Written : i \in present => i \notin discards
       /\ \A i \in present :
            (\A q \in Requests : Republished(q) => target[q] # i) => replays[i] = 0
       /\ \A i \in Written : Acted(i) <= 1

LEMMA UnexcusedBefore ==
  ASSUME [Next]_vars, Unexcused'
  PROVE  Unexcused
BY FaultedGrows DEF Unexcused

\* A request moves on without touching a dead letter.
LEMMA OnceKept ==
  ASSUME TypeOK, OnceInv, [Next]_vars,
         UNCHANGED <<entryVars, replays, discards>>,
         \/ UNCHANGED requestVars
         \/ \E q \in Requests :
              /\ ~Republished(q)
              /\ \/ End(q)
                 \/ GoTo(q, "unlock") \/ GoTo(q, "audit") \/ GoTo(q, "invalidate")
                 \/ target[q] \in present /\ kind[q] = "replay" /\ GoTo(q, "publish")
                 \/ target[q] \in present /\ kind[q] # "replay" /\ GoTo(q, "delete")
  PROVE  OnceInv'
<1>1. \A i \in Ids \ Written' : replays'[i] = 0
  BY DEF OnceInv, Written, entryVars
<1> SUFFICES ASSUME Unexcused' PROVE OnceInv'
  BY <1>1 DEF OnceInv
<1>2. Unexcused
  BY UnexcusedBefore
<1>3. CASE UNCHANGED requestVars
  BY <1>1, <1>2, <1>3 DEF OnceInv, Written, entryVars, requestVars, Acted, Republished
<1>4. ASSUME NEW q \in Requests, ~Republished(q), End(q)
      PROVE  OnceInv'
  <2>1. \A p \in Requests : /\ Republished(p)' => Republished(p) /\ target'[p] = target[p] /\ p # q
                            /\ Republished(p) => Republished(p)'
    BY <1>4 DEF End, Republished, TypeOK
  <2>2. \A p \in Requests : step'[p] \in {"publish", "delete"} =>
           step'[p] = step[p] /\ target'[p] = target[p] /\ kind'[p] = kind[p]
    BY <1>4 DEF End, TypeOK
  <2>3. \A p \in Requests : Republished(p) => target'[p] = target[p]
    BY <1>4 DEF End, Republished, TypeOK
  <2> QED BY <1>1, <1>2, <2>1, <2>2, <2>3 DEF OnceInv, Written, entryVars, Acted
<1>5. ASSUME NEW q \in Requests, ~Republished(q), NEW next \in Calls, GoTo(q, next),
             next \in {"publish", "delete"} => target[q] \in present,
             next = "publish" => kind[q] = "replay",
             next = "delete" => kind[q] # "replay"
      PROVE  OnceInv'
  <2>1. UNCHANGED <<target, kind>>
    BY <1>5 DEF GoTo
  <2>2. \A p \in Requests : Republished(p)' <=> Republished(p)
    BY <1>5, <2>1 DEF GoTo, Republished, TypeOK
  <2>3. \A p \in Requests : step'[p] \in {"publish", "delete"} =>
           step'[p] = step[p] \/ (p = q /\ step'[p] = next)
    BY <1>5 DEF GoTo, TypeOK
  <2>4. \A p \in Requests : step'[p] \in {"publish", "delete"} => target'[p] \in present'
    BY <1>2, <1>5, <2>1, <2>3 DEF OnceInv, entryVars
  <2>5. \A p \in Requests : step'[p] = "publish" => kind'[p] = "replay"
    BY <1>2, <1>5, <2>1, <2>3 DEF OnceInv
  <2> QED BY <1>1, <1>2, <2>1, <2>2, <2>4, <2>5 DEF OnceInv, Written, entryVars, Acted
<1> QED BY <1>3, <1>4, <1>5 DEF Calls

LEMMA PublishOnce ==
  ASSUME TypeOK, OneActor, OnceInv, NEW q \in Requests, Publish(q)
  PROVE  OnceInv'
<1> DEFINE i == target[q]
<1>1. /\ i \in Written /\ i \in Ids /\ Written \subseteq Ids
      /\ replays \in [Ids -> Nat]
  BY WrittenInIds DEF Publish, TypeOK
<1>2. PICK outcome \in Outcomes :
        /\ Report("publish", outcome)
        /\ IF outcome = "failed" THEN UNCHANGED replays
           ELSE replays' = [replays EXCEPT ![i] = @ + 1]
        /\ GoTo(q, IF outcome = "ok" THEN "delete" ELSE "unlock")
  BY DEF Publish
<1>3. UNCHANGED <<entryVars, discards>> /\ Written' = Written /\ present' = present
  BY DEF Publish, entryVars, Written
<1>4. \A j \in Ids \ Written' : replays'[j] = 0
  BY <1>1, <1>2, <1>3 DEF OnceInv
<1>5. [Next]_vars
  BY DEF Next, Handle
<1>6. CASE outcome = "failed"
  <2>1. UNCHANGED <<entryVars, replays, discards>> /\ GoTo(q, "unlock") /\ ~Republished(q)
    BY <1>2, <1>3, <1>6 DEF Publish, Republished
  <2> QED BY <1>5, <2>1, OnceKept
<1>7. CASE outcome = "lost"
  <2>1. ~Unexcused'
    BY <1>2, <1>7 DEF Report, Fault, Unexcused
  <2> QED BY <1>4, <2>1 DEF OnceInv
<1>8. CASE outcome = "ok"
  <2> SUFFICES ASSUME Unexcused' PROVE OnceInv'
    BY <1>4 DEF OnceInv
  <2>1. Unexcused
    BY <1>5, UnexcusedBefore
  <2>2. \A p \in Requests \ {q} : step[p] # "idle" => target[p] # i
    BY <2>1 DEF Unexcused, OneActor, Acting, Publish
  <2>3. /\ i \in present /\ kind[q] = "replay" /\ i \notin discards
        /\ replays[i] = 0
    <3>1. i \in present /\ kind[q] = "replay"
      BY <2>1 DEF OnceInv, Publish
    <3>2. \A p \in Requests : Republished(p) => target[p] # i
      BY <2>2 DEF Republished, Publish
    <3> QED BY <1>1, <2>1, <3>1, <3>2 DEF OnceInv
  <2>4. /\ step' = [step EXCEPT ![q] = "delete"] /\ UNCHANGED <<target, kind>>
        /\ replays' = [replays EXCEPT ![i] = @ + 1]
    BY <1>2, <1>8 DEF GoTo
  <2>5. replays'[i] = 1 /\ \A j \in Ids \ {i} : replays'[j] = replays[j]
    BY <1>1, <2>3, <2>4
  <2>6. \A p \in Requests : Republished(p)' <=> p = q \/ Republished(p)
    BY <2>3, <2>4 DEF Republished, TypeOK
  <2>7. \A p \in Requests : step'[p] \in {"publish", "delete"} => target'[p] \in present'
    BY <1>3, <2>1, <2>3, <2>4 DEF OnceInv, TypeOK
  <2>8. \A p \in Requests : step'[p] = "publish" => kind'[p] = "replay"
    BY <2>1, <2>4 DEF OnceInv, TypeOK
  <2>9. \A p \in Requests : Republished(p)' => replays'[target'[p]] = 1
    <3> SUFFICES ASSUME NEW p \in Requests, Republished(p), p # q
                 PROVE  replays'[target[p]] = 1
      BY <2>4, <2>5, <2>6
    <3>1. target[p] # i /\ target[p] \in Ids
      BY <1>1, <2>2, WrittenInIds DEF Republished, TypeOK
    <3> QED BY <2>1, <2>5, <3>1 DEF OnceInv
  <2>10. \A j \in present' :
           (\A p \in Requests : Republished(p)' => target'[p] # j) => replays'[j] = 0
    <3> SUFFICES ASSUME NEW j \in present,
                        \A p \in Requests : Republished(p)' => target'[p] # j
                 PROVE  replays'[j] = 0
      BY <1>3
    <3>1. j # i /\ \A p \in Requests : Republished(p) => target[p] # j
      BY <2>4, <2>6
    <3>2. j \in Ids
      BY <1>1 DEF TypeOK
    <3> QED BY <2>1, <2>5, <3>1, <3>2 DEF OnceInv
  <2>11. \A j \in Written' : Acted(j)' <= 1
    <3> SUFFICES ASSUME NEW j \in Written PROVE Acted(j)' <= 1
      BY <1>3
    <3>1. CASE j = i
      BY <1>3, <2>3, <2>5, <3>1 DEF Acted
    <3>2. CASE j # i
      BY <1>1, <1>3, <2>1, <2>5, <3>2 DEF OnceInv, Acted
    <3> QED BY <3>1, <3>2
  <2> QED BY <1>3, <1>4, <2>1, <2>7, <2>8, <2>9, <2>10, <2>11 DEF OnceInv
<1> QED BY <1>6, <1>7, <1>8 DEF Outcomes

LEMMA DeleteOnce ==
  ASSUME TypeOK, OneActor, OnceInv, NEW q \in Requests, Delete(q)
  PROVE  OnceInv'
<1> DEFINE i == target[q]
<1>1. i \in Written /\ Written \subseteq Ids /\ replays \in [Ids -> Nat] /\ i \in Ids
  BY WrittenInIds DEF Delete, TypeOK
<1>2. PICK outcome \in Outcomes :
        /\ Report("delete", outcome)
        /\ present' = IF outcome = "failed" THEN present ELSE present \ {i}
        /\ discards' = IF outcome # "failed" /\ kind[q] = "discard" /\ i \in present
                       THEN discards \union {i} ELSE discards
        /\ GoTo(q, IF outcome = "ok" THEN "clear" ELSE "unlock")
  BY DEF Delete
<1>3. UNCHANGED <<entries, replays>> /\ Written' = Written
  BY DEF Delete, Written
<1>4. \A j \in Ids \ Written' : replays'[j] = 0
  BY <1>3 DEF OnceInv
<1>5. CASE outcome # "ok"
  <2>1. ~Unexcused'
    BY <1>2, <1>5 DEF Report, Fault, Unexcused, Outcomes
  <2> QED BY <1>4, <2>1 DEF OnceInv
<1>6. CASE outcome = "ok"
  <2> SUFFICES ASSUME Unexcused' PROVE OnceInv'
    BY <1>4 DEF OnceInv
  <2>1. Unexcused
    BY UnexcusedBefore DEF Next, Handle
  <2>2. \A p \in Requests \ {q} : step[p] # "idle" => target[p] # i
    BY <2>1 DEF Unexcused, OneActor, Acting, Delete
  <2>3. /\ present' = present \ {i}
        /\ discards' = IF kind[q] = "discard" THEN discards \union {i} ELSE discards
        /\ step' = [step EXCEPT ![q] = "clear"] /\ UNCHANGED <<target, kind>>
    <3>1. i \in present
      BY <2>1 DEF OnceInv, Delete
    <3> QED BY <1>2, <1>6, <3>1 DEF GoTo
  <2>4. \A p \in Requests : Republished(p)' <=> p # q /\ Republished(p)
    BY <2>3 DEF Republished, TypeOK
  <2>5. \A p \in Requests : step'[p] \in {"publish", "delete"} =>
          p # q /\ step'[p] = step[p] /\ target'[p] \in present'
    <3> SUFFICES ASSUME NEW p \in Requests, step'[p] \in {"publish", "delete"}
                 PROVE  p # q /\ step'[p] = step[p] /\ target[p] \in present \ {i}
      BY <2>3
    <3>1. p # q /\ step'[p] = step[p]
      BY <2>3 DEF TypeOK
    <3> QED BY <2>1, <2>2, <3>1 DEF OnceInv
  <2>6. \A j \in present' :
          (\A p \in Requests : Republished(p)' => target'[p] # j) => replays'[j] = 0
    BY <1>3, <2>1, <2>3, <2>4 DEF OnceInv
  <2>7. \A j \in Written' : Acted(j)' <= 1
    <3> SUFFICES ASSUME NEW j \in Written PROVE Acted(j)' <= 1
      BY <1>3
    <3>1. CASE j # i \/ kind[q] # "discard"
      BY <1>3, <2>1, <2>3, <3>1 DEF OnceInv, Acted
    <3>2. CASE j = i /\ kind[q] = "discard"
      <4>1. \A p \in Requests : Republished(p) => target[p] # i
        BY <2>2, <3>2 DEF Republished
      <4>2. replays[i] = 0
        BY <2>1, <4>1 DEF OnceInv, Delete
      <4> QED BY <1>3, <3>2, <4>2 DEF Acted
    <3> QED BY <3>1, <3>2
  <2>8. \A j \in Written' : j \in present' => j \notin discards'
    BY <1>3, <2>1, <2>3 DEF OnceInv
  <2>9. \A p \in Requests : Republished(p)' => replays'[target'[p]] = 1
    BY <1>3, <2>1, <2>3, <2>4 DEF OnceInv
  <2>10. \A p \in Requests : step'[p] = "publish" => kind'[p] = "replay"
    BY <2>1, <2>3, <2>5 DEF OnceInv
  <2> QED BY <1>4, <2>5, <2>6, <2>7, <2>8, <2>9, <2>10 DEF OnceInv
<1> QED BY <1>5, <1>6

LEMMA ClaimOnce ==
  ASSUME TypeOK, OnceInv, NEW q \in Requests, NEW i \in Written, Claim(q, i)
  PROVE  OnceInv'
<1>1. UNCHANGED <<entryVars, replays, discards>> /\ [Next]_vars
  BY DEF Claim, historyVars, Next, Handle
<1>2. CASE UNCHANGED requestVars
  BY <1>1, <1>2, OnceKept
<1>3. CASE step' = [step EXCEPT ![q] = "read"] /\ target' = [target EXCEPT ![q] = i]
           /\ \E k \in {"replay", "discard"} : kind' = [kind EXCEPT ![q] = k]
  <2>1. \A i_1 \in Ids \ Written' : replays'[i_1] = 0
    BY <1>1 DEF OnceInv, Written, entryVars
  <2> SUFFICES ASSUME Unexcused' PROVE OnceInv'
    BY <2>1 DEF OnceInv
  <2>2. Unexcused
    BY <1>1, UnexcusedBefore
  <2>3. \A p \in Requests : step'[p] \in {"publish", "delete"} =>
          step'[p] = step[p] /\ target'[p] = target[p] /\ kind'[p] = kind[p]
    BY <1>3 DEF TypeOK
  <2>4. \A p \in Requests : /\ Republished(p)' <=> Republished(p)
                            /\ Republished(p) => target'[p] = target[p]
    BY <1>3 DEF Republished, TypeOK, Claim
  <2> QED BY <1>1, <2>1, <2>2, <2>3, <2>4 DEF OnceInv, Written, entryVars, Acted
<1> QED BY <1>2, <1>3 DEF Claim

LEMMA BuryOnce ==
  ASSUME TypeOK, OnceInv, NEW e \in Events, Bury(e)
  PROVE  OnceInv'
<1>1. UNCHANGED <<requestVars, replays, discards, faulted>>
  BY DEF Bury, faultVars
<1>2. Len(entries') \in Ids
  <2>1. Len(entries') = Len(entries) + 1 /\ Len(entries) \in Nat /\ Len(entries) < MaxEntries
    BY BuryWrites DEF TypeOK, Bury
  <2> QED BY <2>1, OpsAssumption DEF Ids
<1>3. Written' = Written \union {Len(entries')} /\ present' = present \union {Len(entries')}
      /\ Len(entries') \notin Written
  BY BuryWrites
<1>4. replays[Len(entries')] = 0 /\ Len(entries') \notin discards
  BY <1>2, <1>3 DEF OnceInv, TypeOK
<1>5. \A q \in Requests : Republished(q)' <=> Republished(q)
  BY <1>1 DEF Republished, requestVars
<1>6. \A i \in Written' : Unexcused => Acted(i)' <= 1
  BY <1>1, <1>3, <1>4 DEF OnceInv, Acted
<1>7. \A i \in Ids \ Written' : replays'[i] = 0
  BY <1>1, <1>3 DEF OnceInv
<1> SUFFICES ASSUME Unexcused' PROVE OnceInv'
  BY <1>7 DEF OnceInv
<1>8. Unexcused
  BY <1>1 DEF Unexcused
<1>9. \A i \in Written' : i \in present' => i \notin discards'
  BY <1>1, <1>3, <1>4, <1>8 DEF OnceInv
<1>10. \A i \in present' :
         (\A q \in Requests : Republished(q)' => target'[q] # i) => replays'[i] = 0
  BY <1>1, <1>3, <1>4, <1>5, <1>8 DEF OnceInv, requestVars
<1>11. \A q \in Requests :
         /\ step'[q] \in {"publish", "delete"} => target'[q] \in present'
         /\ step'[q] = "publish" => kind'[q] = "replay"
         /\ Republished(q)' => replays'[target'[q]] = 1
  BY <1>1, <1>3, <1>5, <1>8 DEF OnceInv, requestVars
<1> QED BY <1>6, <1>7, <1>8, <1>9, <1>10, <1>11 DEF OnceInv

LEMMA OnceStep ==
  ASSUME TypeOK, OneActor, OnceInv, [Next]_vars
  PROVE  OnceInv'
<1>1. ASSUME NEW q \in Requests, Clear(q) \/ Audit(q) \/ Invalidate(q) \/ Unlock(q) \/ Read(q)
      PROVE  OnceInv'
  <2>1. UNCHANGED <<entryVars, replays, discards>> /\ ~Republished(q)
    BY <1>1 DEF Read, Clear, Audit, Invalidate, Unlock, historyVars, Republished
  <2>2. \/ End(q)
        \/ GoTo(q, "unlock") \/ GoTo(q, "audit") \/ GoTo(q, "invalidate")
        \/ target[q] \in present /\ kind[q] = "replay" /\ GoTo(q, "publish")
        \/ target[q] \in present /\ kind[q] # "replay" /\ GoTo(q, "delete")
    BY <1>1 DEF Read, Clear, Audit, Invalidate, Unlock
  <2> QED BY <2>1, <2>2, OnceKept
<1>2. ASSUME NEW q \in Requests, Disconnect(q)
      PROVE  OnceInv'
  <2>1. ~Unexcused' /\ UNCHANGED <<entryVars, replays>>
    BY <1>2 DEF Disconnect, Fault, Unexcused, historyVars
  <2> QED BY <2>1 DEF OnceInv, Written, entryVars
<1>3. ASSUME NEW i \in Written, ExpireHeld(i) \/ ExpireLeft(i)
      PROVE  OnceInv'
  BY <1>3, OnceKept DEF ExpireHeld, ExpireLeft, historyVars
<1>4. ASSUME NEW e \in Events, Process(e) \/ Retry(e) \/ Lapse(e)
      PROVE  OnceInv'
  BY <1>4, OnceKept DEF Process, Retry, Lapse, historyVars
<1>5. CASE UNCHANGED vars
  BY <1>5, OnceKept DEF vars, historyVars
<1> QED
  BY <1>1, <1>2, <1>3, <1>4, <1>5, ClaimOnce, PublishOnce, DeleteOnce, BuryOnce
  DEF Next, Handle, Work

\* However many requests there are and whatever else fails, a dead letter is
\* replayed or discarded once.
THEOREM ActedOnOnceHolds == Spec => []ActedOnOnce
<1>1. Init => OnceInv
  BY DEF Init, OnceInv, Written, Acted, Republished
<1>2. TypeOK /\ OneActor /\ OnceInv /\ [Next]_vars => OnceInv'
  BY OnceStep
<1>3. OnceInv => ActedOnOnce
  BY DEF OnceInv, ActedOnOnce, Unexcused, Acted
<1> QED BY <1>1, <1>2, <1>3, OpsTypeCorrect, OneActorHolds, PTL DEF Spec

-----------------------------------------------------------------------------
(* Attempts paid for.                                                       *)

\* Publications of e that are settled, and how often its counter began again.
Spent(e) == published[e] - queued[e] + clears[e] + lapses[e]

\* The attempts on a publication that is still queued, as far as the counter
\* remembers them.
Current(e) == IF queued[e] > 0 THEN retryCount[e] ELSE 0

PaidInv ==
  \A e \in Events :
    /\ queued[e] <= published[e]
    /\ failures[e] <= (MaxRetries + 1) * Spent(e) + Current(e)

LEMMA OneMore ==
  ASSUME NEW R \in Nat, NEW k \in Int
  PROVE  /\ (R + 1) * (k + 1) = (R + 1) * k + (R + 1)
         /\ (R + 1) * k \in Int
OBVIOUS

LEMMA PublishPaid ==
  ASSUME TypeOK, PaidInv, NEW q \in Requests, Publish(q)
  PROVE  PaidInv'
<1>1. UNCHANGED <<retryCount, failures, clears, lapses>>
  BY DEF Publish
<1>2. \A e \in Events :
        \/ queued'[e] = queued[e] /\ published'[e] = published[e]
        \/ queued'[e] = queued[e] + 1 /\ published'[e] = published[e] + 1
  BY SMTT(30) DEF Publish, TypeOK
<1> SUFFICES ASSUME NEW e \in Events
             PROVE  /\ queued'[e] <= published'[e]
                    /\ failures'[e] <= (MaxRetries + 1) * Spent(e)' + Current(e)'
  BY DEF PaidInv
<1>3. /\ queued[e] \in Nat /\ published[e] \in Nat /\ clears[e] \in Nat /\ lapses[e] \in Nat
      /\ retryCount[e] \in Nat /\ failures[e] \in Nat
  BY OpsAssumption DEF TypeOK
<1>4. Spent(e)' = Spent(e)
  BY <1>1, <1>2, <1>3 DEF Spent
<1>5. Current(e)' >= Current(e) /\ Current(e) \in Nat /\ Current(e)' \in Nat
  BY <1>1, <1>2, <1>3 DEF Current
<1>6. (MaxRetries + 1) * Spent(e) \in Int
  BY <1>3, OneMore, OpsAssumption DEF Spent
<1> QED BY <1>1, <1>2, <1>3, <1>4, <1>5, <1>6 DEF PaidInv

\* Counters that begin again, and say so.
LEMMA BegunAgainPaid ==
  ASSUME TypeOK, PaidInv, UNCHANGED <<queued, published, failures>>,
         \A e \in Events :
           \/ /\ retryCount'[e] = retryCount[e]
              /\ clears'[e] + lapses'[e] = clears[e] + lapses[e]
           \/ /\ retryCount'[e] = 0
              /\ clears'[e] + lapses'[e] = clears[e] + lapses[e] + 1,
         clears' \in [Events -> Nat], lapses' \in [Events -> Nat]
  PROVE  PaidInv'
<1>1. UNCHANGED <<queued, published, failures>>
  OBVIOUS
<1>2. \A e \in Events :
        \/ /\ retryCount'[e] = retryCount[e]
           /\ clears'[e] + lapses'[e] = clears[e] + lapses[e]
        \/ /\ retryCount'[e] = 0
           /\ clears'[e] + lapses'[e] = clears[e] + lapses[e] + 1
  OBVIOUS
<1> SUFFICES ASSUME NEW e \in Events
             PROVE  failures[e] <= (MaxRetries + 1) * Spent(e)' + Current(e)'
  BY <1>1 DEF PaidInv
<1>3. /\ queued[e] \in Nat /\ published[e] \in Nat /\ clears[e] \in Nat /\ lapses[e] \in Nat
      /\ retryCount[e] \in 0 .. MaxRetries /\ failures[e] \in Nat
  BY DEF TypeOK
<1>t. clears'[e] \in Nat /\ lapses'[e] \in Nat
  OBVIOUS
<1>4. CASE /\ retryCount'[e] = retryCount[e]
           /\ clears'[e] + lapses'[e] = clears[e] + lapses[e]
  <2>1. published'[e] = published[e] /\ queued'[e] = queued[e]
    BY <1>1
  <2>2. Spent(e)' = Spent(e)
    <3>1. Spent(e)' = published[e] - queued[e] + clears'[e] + lapses'[e]
      BY <2>1 DEF Spent
    <3>2. clears'[e] + lapses'[e] = clears[e] + lapses[e]
      BY <1>4
    <3> QED BY <1>3, <1>t, <3>1, <3>2 DEF Spent
  <2>3. Current(e)' = Current(e)
    BY <1>4, <2>1, Zenon DEF Current
  <2> QED BY <2>2, <2>3 DEF PaidInv
<1>5. CASE /\ retryCount'[e] = 0
           /\ clears'[e] + lapses'[e] = clears[e] + lapses[e] + 1
  <2>1. Spent(e)' = Spent(e) + 1 /\ Spent(e) \in Int
    BY <1>1, <1>3, <1>t, <1>5 DEF Spent
  <2>2. Current(e)' = 0 /\ Current(e) \in 0 .. MaxRetries
    BY <1>3, <1>5, OpsAssumption DEF Current
  <2>3. failures[e] <= (MaxRetries + 1) * Spent(e) + Current(e)
    BY DEF PaidInv
  <2>4. /\ (MaxRetries + 1) * Spent(e)' = (MaxRetries + 1) * Spent(e) + (MaxRetries + 1)
        /\ (MaxRetries + 1) * Spent(e) \in Int
    BY <2>1, OneMore, OpsAssumption
  <2> QED BY <1>3, <2>2, <2>3, <2>4, OpsAssumption
<1> QED BY <1>2, <1>4, <1>5

LEMMA ClearPaid ==
  ASSUME TypeOK, TypeOK', PaidInv,
         (\E q \in Requests : Clear(q)) \/ (\E e \in Events : Lapse(e))
  PROVE  PaidInv'
<1>1. ASSUME NEW q \in Requests, Clear(q)
      PROVE  PaidInv'
  <2> DEFINE c == entries[target[q]]
  <2>1. UNCHANGED <<queued, published, failures, lapses>>
    BY <1>1 DEF Clear
  <2>2. /\ clears \in [Events -> Nat] /\ lapses \in [Events -> Nat]
        /\ retryCount \in [Events -> 0 .. MaxRetries]
    BY DEF TypeOK
  <2>3. clears' \in [Events -> Nat]
    BY DEF TypeOK
  <2>4. \/ UNCHANGED <<retryCount, clears>>
        \/ /\ retryCount' = [retryCount EXCEPT ![c] = 0]
           /\ clears' = [clears EXCEPT ![c] = clears[c] + 1]
    BY <1>1 DEF Clear
  <2> HIDE DEF c
  <2>5. \A e \in Events :
          \/ retryCount'[e] = retryCount[e] /\ clears'[e] = clears[e]
          \/ retryCount'[e] = 0 /\ clears'[e] = clears[e] + 1
    BY <2>2, <2>4
  <2>6. ASSUME NEW e \in Events
        PROVE  \/ /\ retryCount'[e] = retryCount[e]
                  /\ clears'[e] + lapses'[e] = clears[e] + lapses[e]
               \/ /\ retryCount'[e] = 0
                  /\ clears'[e] + lapses'[e] = clears[e] + lapses[e] + 1
    <3>1. clears[e] \in Nat /\ lapses[e] \in Nat /\ clears'[e] \in Nat /\ lapses'[e] = lapses[e]
      BY <2>1, <2>2, <2>3
    <3> QED BY <2>5, <3>1
  <2>7. lapses' \in [Events -> Nat]
    BY <2>1, <2>2
  <2> QED BY <2>1, <2>3, <2>6, <2>7, BegunAgainPaid
<1>2. ASSUME NEW e \in Events, Lapse(e)
      PROVE  PaidInv'
  <2>1. UNCHANGED <<queued, published, failures, clears>>
    BY <1>2 DEF Lapse
  <2>2. \A f \in Events :
          \/ retryCount'[f] = retryCount[f] /\ lapses'[f] = lapses[f]
          \/ retryCount'[f] = 0 /\ lapses'[f] = lapses[f] + 1
    BY <1>2, SMTT(30) DEF Lapse, TypeOK
  <2>3. clears \in [Events -> Nat] /\ lapses \in [Events -> Nat] /\ lapses' \in [Events -> Nat]
    BY DEF TypeOK
  <2> QED BY <2>1, <2>2, <2>3, BegunAgainPaid
<1> QED BY <1>1, <1>2

\* The worker's step on e leaves the other events alone.
LEMMA WorkPaid ==
  ASSUME TypeOK, PaidInv, NEW e \in Events, Process(e) \/ Retry(e) \/ Bury(e)
  PROVE  PaidInv'
<1>1. UNCHANGED <<published, clears, lapses>>
  BY DEF Process, Retry, Bury, historyVars
<1>2. \A f \in Events \ {e} : /\ queued'[f] = queued[f] /\ retryCount'[f] = retryCount[f]
                              /\ failures'[f] = failures[f]
  BY DEF Process, Retry, Bury, historyVars, TypeOK
<1>3. /\ queued[e] \in Nat \ {0} /\ published[e] \in Nat /\ clears[e] \in Nat /\ lapses[e] \in Nat
      /\ retryCount[e] \in 0 .. MaxRetries /\ failures[e] \in Nat
  BY DEF TypeOK, Process, Retry, Bury
<1>4. Spent(e) \in Int /\ Current(e) = retryCount[e]
  BY <1>3 DEF Spent, Current
<1>5. failures[e] <= (MaxRetries + 1) * Spent(e) + retryCount[e] /\ queued[e] <= published[e]
  BY <1>4 DEF PaidInv
<1>6. /\ (MaxRetries + 1) * (Spent(e) + 1) = (MaxRetries + 1) * Spent(e) + (MaxRetries + 1)
      /\ (MaxRetries + 1) * Spent(e) \in Int
  BY <1>4, OneMore, OpsAssumption
<1>7. /\ queued'[e] <= published[e]
      /\ failures'[e] <= (MaxRetries + 1) * Spent(e)' + Current(e)'
  <2>1. CASE Retry(e)
    <3>1. /\ queued'[e] = queued[e] /\ retryCount'[e] = retryCount[e] + 1
          /\ failures'[e] = failures[e] + 1
      BY <2>1 DEF Retry, TypeOK
    <3>2. Spent(e)' = Spent(e) /\ Current(e)' = retryCount[e] + 1
      BY <1>1, <1>3, <3>1 DEF Spent, Current
    <3> QED BY <1>3, <1>5, <1>6, <3>1, <3>2
  <2>2. CASE Process(e) \/ Bury(e)
    <3>1. /\ queued'[e] = queued[e] - 1
          /\ \/ failures'[e] = failures[e] /\ retryCount'[e] = retryCount[e]
             \/ failures'[e] = failures[e] + 1 /\ retryCount'[e] = 0
      BY <2>2 DEF Process, Bury, historyVars, TypeOK
    <3>2. Spent(e)' = Spent(e) + 1 /\ Current(e)' \in Nat
      BY <1>1, <1>3, <3>1 DEF Spent, Current
    <3> QED BY <1>3, <1>5, <1>6, <3>1, <3>2, OpsAssumption
  <2> QED BY <2>1, <2>2
<1>8. ASSUME NEW f \in Events \ {e}
      PROVE  /\ queued'[f] <= published[f]
             /\ failures'[f] <= (MaxRetries + 1) * Spent(f)' + Current(f)'
  BY <1>1, <1>2, <1>8 DEF PaidInv, Spent, Current
<1> QED BY <1>1, <1>7, <1>8 DEF PaidInv

\* Whatever fails and however the requests and the worker interleave, a poison
\* event is tried MaxRetries + 1 times for each publication, each clearing and
\* each lapse of its counter.
THEOREM AttemptsPaidForHolds == Spec => []AttemptsPaidFor
<1>1. Init => PaidInv
  BY OpsAssumption DEF Init, PaidInv, Spent, Current
<1>2. TypeOK /\ TypeOK' /\ PaidInv /\ [Next]_vars => PaidInv'
  <2> SUFFICES ASSUME TypeOK, TypeOK', PaidInv, [Next]_vars PROVE PaidInv'
    OBVIOUS
  <2>1. ASSUME UNCHANGED <<queued, retryCount, published, failures, clears, lapses>> PROVE PaidInv'
    BY <2>1 DEF PaidInv, Spent, Current
  <2>2. ASSUME NEW q \in Requests, Handle(q) \/ Invalidate(q) \/ Disconnect(q) PROVE PaidInv'
    <3>1. CASE \/ \E i \in Written : Claim(q, i)
               \/ Read(q) \/ Delete(q) \/ Audit(q) \/ Unlock(q)
               \/ Invalidate(q) \/ Disconnect(q)
      <4>1. UNCHANGED <<queued, retryCount, published, failures, clears, lapses>>
        BY <3>1 DEF Claim, Read, Delete, Audit, Unlock, Invalidate, Disconnect, workerVars,
                    historyVars
      <4> QED BY <2>1, <4>1
    <3> QED BY <2>2, <3>1, PublishPaid, ClearPaid DEF Handle
  <2>3. CASE (\E i \in Written : ExpireHeld(i) \/ ExpireLeft(i)) \/ UNCHANGED vars
    <3>1. UNCHANGED <<queued, retryCount, published, failures, clears, lapses>>
      BY <2>3 DEF ExpireHeld, ExpireLeft, workerVars, historyVars, vars
    <3> QED BY <2>1, <3>1
  <2> QED BY <2>2, <2>3, WorkPaid, ClearPaid DEF Next, Work
<1>3. TypeOK /\ PaidInv => AttemptsPaidFor
  <2> SUFFICES ASSUME TypeOK, PaidInv, NEW e \in Events
               PROVE  failures[e] <= (MaxRetries + 1) * (published[e] + clears[e] + lapses[e])
    BY DEF AttemptsPaidFor
  <2>1. /\ queued[e] \in Nat /\ published[e] \in Nat /\ clears[e] \in Nat /\ lapses[e] \in Nat
        /\ retryCount[e] \in 0 .. MaxRetries /\ failures[e] \in Nat
    BY DEF TypeOK
  <2> DEFINE k == published[e] + clears[e] + lapses[e]
             r == MaxRetries + 1
  <2>2. failures[e] <= r * (k - queued[e]) + Current(e)
    <3>1. Spent(e) = k - queued[e]
      BY <2>1 DEF Spent
    <3> QED BY <3>1 DEF PaidInv
  <2>3. CASE queued[e] = 0
    <3>1. k - queued[e] = k /\ Current(e) = 0 /\ r * k \in Int
      BY <2>1, <2>3, OpsAssumption DEF Current
    <3> HIDE DEF k, r
    <3>2. failures[e] <= r * k + 0
      BY <2>2, <3>1
    <3>3. failures[e] <= r * k
      BY <3>1, <3>2
    <3> QED BY <3>3 DEF k, r
  <2>4. CASE queued[e] > 0
    <3>1. Current(e) <= r * queued[e] /\ Current(e) \in Nat
      <4>1. r * (queued[e] - 1 + 1) = r * (queued[e] - 1) + r
        BY <2>1, <2>4, OneMore, OpsAssumption
      <4>2. r * (queued[e] - 1) \in Nat
        BY <2>1, <2>4, OpsAssumption
      <4> QED BY <2>1, <2>4, <4>1, <4>2, OpsAssumption DEF Current
    <3>2. r * (k - queued[e]) = r * k - r * queued[e]
      BY <2>1, OpsAssumption
    <3>3. r * k \in Int /\ r * queued[e] \in Int
      BY <2>1, OpsAssumption
    <3> HIDE DEF k, r
    <3>4. failures[e] <= r * k
      BY <2>1, <2>2, <3>1, <3>2, <3>3
    <3> QED BY <3>4 DEF k, r
  <2> QED BY <2>1, <2>3, <2>4
<1> QED BY <1>1, <1>2, <1>3, OpsTypeCorrect, PTL DEF Spec

-----------------------------------------------------------------------------
(* The dashboards leave the dead letters alone.                             *)

LEMMA DashboardStep ==
  ASSUME [DashboardNext]_dashboardVars
  PROVE  [Next]_vars
<1>1. ASSUME NEW v \in Viewers, Query(v) \/ Write(v) PROVE UNCHANGED vars
  BY <1>1 DEF Query, Write
<1> QED
  BY <1>1 DEF DashboardNext, dashboardVars, Act, Drop, Evict, Next

\* With its dashboards, the system still is the one DeadLetterOps describes:
\* they only look.
THEOREM DashboardImplementsOps == DashboardSpec => Spec
<1>1. DashboardInit => Init
  BY DEF DashboardInit
<1> QED BY <1>1, DashboardStep, PTL DEF DashboardSpec, Spec

-----------------------------------------------------------------------------
(* Types.                                                                   *)

\* The part of DashboardTypeOK about the dashboards.
ViewsOK ==
  /\ key \in Keys
  /\ cache \in [held : {TRUE}, shows : SUBSET Ids, late : BOOLEAN] \union {Miss}
  /\ view \in [Viewers -> [open : BOOLEAN, shows : SUBSET Ids, late : BOOLEAN]]
  /\ \A i \in actedHere : \E k \in {"replay", "discard"} : <<k, i>> \in audited
  /\ actedAway \subseteq Written \ present

\* What is no longer in the stream does not come back to it, and audit rows stay.
LEMMA GoneForGood ==
  ASSUME TypeOK, [Next]_vars
  PROVE  /\ Written \subseteq Written'
         /\ (Written \ present) \intersect present' = {}
         /\ audited \subseteq audited'
<1>1. ASSUME NEW q \in Requests, Handle(q) \/ Invalidate(q) \/ Disconnect(q)
      PROVE  entries' = entries /\ present' \subseteq present /\ audited \subseteq audited'
  BY <1>1 DEF Handle, Claim, Read, Publish, Delete, Clear, Audit, Unlock, Invalidate, Disconnect,
              entryVars, historyVars
<1>2. ASSUME NEW e \in Events, Process(e) \/ Retry(e) \/ Lapse(e)
      PROVE  UNCHANGED <<entries, present, audited>>
  BY <1>2 DEF Process, Retry, Lapse, entryVars, historyVars
<1>3. ASSUME NEW e \in Events, Bury(e)
      PROVE  /\ Written \subseteq Written'
             /\ (Written \ present) \intersect present' = {}
             /\ audited \subseteq audited'
  BY <1>3, BuryWrites DEF Bury
<1>4. CASE (\E i \in Written : ExpireHeld(i) \/ ExpireLeft(i)) \/ UNCHANGED vars
  BY <1>4 DEF ExpireHeld, ExpireLeft, vars, entryVars, historyVars, Written
<1> QED BY <1>1, <1>2, <1>3, <1>4 DEF Next, Work, Written

\* A request that goes from its audit to dropping the keys has left its row.
LEMMA AuditLeavesRow ==
  ASSUME TypeOK, NEW q \in Requests, Handle(q) \/ Disconnect(q),
         step[q] = "audit", step'[q] = "invalidate"
  PROVE  <<kind[q], target[q]>> \in audited' /\ kind[q] \in {"replay", "discard"}
<1>1. ~Disconnect(q)
  BY DEF Disconnect, End, TypeOK
<1>2. Audit(q)
  BY <1>1 DEF Handle, Claim, Read, Publish, Delete, Clear, Unlock
<1>3. PICK outcome \in Outcomes :
        /\ audited' = IF outcome = "failed" THEN audited
                      ELSE audited \union {<<kind[q], target[q]>>}
        /\ GoTo(q, IF outcome = "ok" THEN "invalidate" ELSE "unlock")
  BY <1>2 DEF Audit
<1>4. outcome = "ok"
  BY <1>3 DEF GoTo, TypeOK
<1> QED BY <1>3, <1>4 DEF TypeOK

LEMMA ViewsStep ==
  ASSUME TypeOK, TypeOK', ViewsOK, [DashboardNext]_dashboardVars
  PROVE  ViewsOK'
<1>1. /\ Written \subseteq Written'
      /\ (Written \ present) \intersect present' = {}
      /\ audited \subseteq audited'
  BY DashboardStep, GoneForGood
<1>2. actedAway \subseteq Written' \ present'
  BY <1>1 DEF ViewsOK
<1>3. ASSUME UNCHANGED viewVars PROVE ViewsOK'
  BY <1>1, <1>2, <1>3 DEF ViewsOK, viewVars
<1>4. ASSUME NEW q \in Requests, Act(q) PROVE ViewsOK'
  <2>1. \A i \in actedHere' : \E k \in {"replay", "discard"} : <<k, i>> \in audited'
    BY <1>1, <1>4, AuditLeavesRow DEF Act, Attribute, ViewsOK
  <2>2. present \ present' \subseteq Written' \ present'
    BY <1>1 DEF TypeOK
  <2>3. actedAway' \subseteq Written' \ present'
    BY <1>2, <1>4, <2>2 DEF Act, Attribute
  <2> QED BY <1>4, <2>1, <2>3 DEF Act, ViewsOK
<1>5. ASSUME NEW q \in Requests, Drop(q) PROVE ViewsOK'
  <2>1. UNCHANGED <<key, actedHere, actedAway>>
    BY <1>5 DEF Drop
  <2>2. CASE UNCHANGED <<cache, view>>
    BY <1>3, <2>1, <2>2 DEF viewVars
  <2>3. CASE cache' = Miss /\ view' = [v \in Viewers |-> [view[v] EXCEPT !.late = view[v].open, !.shows = {}]]
    BY <1>1, <1>2, <2>1, <2>3 DEF ViewsOK
  <2> QED BY <1>5, <2>2, <2>3 DEF Drop
<1>6. Source \subseteq Ids
  BY ZenonT(30), WrittenInIds DEF Source, Incidents, History, ViewsOK, TypeOK
<1>7. ASSUME NEW v \in Viewers, Query(v) \/ Write(v) PROVE ViewsOK'
  <2>1. CASE Query(v)
    BY <1>1, <1>2, <1>6, <2>1 DEF Query, ViewsOK
  <2>2. CASE Write(v)
    <3>1. view' \in [Viewers -> [open : BOOLEAN, shows : SUBSET Ids, late : BOOLEAN]]
      BY <2>2 DEF Write, Closed, ViewsOK
    <3>2. cache' \in [held : {TRUE}, shows : SUBSET Ids, late : BOOLEAN] \union {Miss}
      <4>1. view[v].shows \in SUBSET Ids /\ view[v].late \in BOOLEAN
        BY DEF ViewsOK
      <4>2. [held |-> TRUE, shows |-> view[v].shows, late |-> view[v].late]
              \in [held : {TRUE}, shows : SUBSET Ids, late : BOOLEAN]
        BY <4>1
      <4>3. \/ cache' = [held |-> TRUE, shows |-> view[v].shows, late |-> view[v].late]
            \/ cache' = cache
        BY <2>2 DEF Write
      <4> QED BY <4>2, <4>3 DEF ViewsOK
    <3> QED BY <1>1, <1>2, <2>2, <3>1, <3>2 DEF Write, ViewsOK
  <2> QED BY <1>7, <2>1, <2>2
<1>8. CASE Evict
  BY <1>1, <1>2, <1>8 DEF Evict, ViewsOK
<1>9. CASE UNCHANGED dashboardVars
  BY <1>3, <1>9 DEF dashboardVars
<1> QED BY <1>3, <1>4, <1>5, <1>7, <1>8, <1>9 DEF DashboardNext

\* The cached answers, the viewers and the audit rows keep their shape, on top
\* of the dead letters, the locks and the requests.
THEOREM DashboardTypeCorrect == DashboardSpec => []DashboardTypeOK
<1>1. DashboardInit => ViewsOK
  BY DEF DashboardInit, ViewsOK, Miss, Closed
<1>2. TypeOK /\ TypeOK' /\ ViewsOK /\ [DashboardNext]_dashboardVars => ViewsOK'
  BY ViewsStep
<1>3. TypeOK /\ ViewsOK => DashboardTypeOK
  BY DEF ViewsOK, DashboardTypeOK
<1> QED BY <1>1, <1>2, <1>3, DashboardImplementsOps, OpsTypeCorrect, PTL DEF DashboardSpec

-----------------------------------------------------------------------------
(* What operators did shows.                                                *)

Quiet == faulted \intersect {"lost", "audit", "invalidate", "disconnect"} = {}

\* What an answer that shows these entries hides, and that all of it is explained.
HiddenBy(shows) == IF key = "incidents" THEN shows \ present ELSE actedHere \ shows

Explained(shows) == \A i \in HiddenBy(shows) : i \in actedAway \/ Finishing(i)

ShownInv ==
  Quiet =>
    /\ cache.held /\ ~cache.late => Explained(cache.shows)
    /\ \A v \in Viewers : view[v].open /\ ~view[v].late => Explained(view[v].shows)

LEMMA QuietBefore ==
  ASSUME [Next]_vars, Quiet'
  PROVE  Quiet
BY FaultedGrows DEF Quiet

\* A request on its way to drop the keys gets there.
LEMMA StillFinishing ==
  ASSUME TypeOK, NEW q \in Requests, Handle(q) \/ Disconnect(q), Quiet',
         NEW i, Finishing(i)
  PROVE  Finishing(i)'
<1>1. PICK p \in Local : Acting(p, i) /\ step[p] \in {"clear", "audit", "invalidate"}
  BY DEF Finishing
<1>2. p \in Requests
  BY DashboardAssumption
<1>3. CASE p # q
  <2>1. step'[p] = step[p] /\ target'[p] = target[p]
    BY <1>2, <1>3 DEF Handle, Disconnect, Claim, Read, Publish, Delete, Clear, Audit, Unlock,
                      GoTo, End, requestVars, TypeOK
  <2> QED BY <1>1, <2>1 DEF Finishing, Acting
<1>4. CASE p = q
  <2>1. ~Disconnect(q)
    BY DEF Disconnect, Fault, Quiet
  <2>2. Clear(q) \/ Audit(q)
    BY <1>1, <1>4, <2>1 DEF Handle, Claim, Read, Publish, Delete, Unlock, Acting
  <2>3. CASE Clear(q)
    BY <1>1, <1>2, <1>4, <2>3 DEF Clear, GoTo, Finishing, Acting, TypeOK
  <2>4. CASE Audit(q)
    <3>1. PICK outcome \in Outcomes :
            Report("audit", outcome) /\ GoTo(q, IF outcome = "ok" THEN "invalidate" ELSE "unlock")
      BY <2>4 DEF Audit
    <3>2. outcome = "ok"
      BY <3>1 DEF Outcomes, Report, Fault, Quiet
    <3> QED BY <1>1, <1>2, <1>4, <3>1, <3>2 DEF GoTo, Finishing, Acting, TypeOK
  <2> QED BY <2>2, <2>3, <2>4
<1> QED BY <1>3, <1>4

\* An entry goes when a request deletes it, which then is on its way to drop
\* the keys.
LEMMA DeletedIsFinishing ==
  ASSUME TypeOK, NEW q \in Requests, Handle(q) \/ Disconnect(q), Quiet',
         NEW i \in present \ present'
  PROVE  i = target[q] /\ step'[q] = "clear" /\ target'[q] = target[q] /\ i # 0
<1>1. Delete(q)
  BY DEF Handle, Claim, Read, Publish, Clear, Audit, Unlock, Disconnect, entryVars
<1>2. PICK outcome \in Outcomes :
        /\ Report("delete", outcome)
        /\ present' = IF outcome = "failed" THEN present ELSE present \ {target[q]}
        /\ GoTo(q, IF outcome = "ok" THEN "clear" ELSE "unlock")
  BY <1>1 DEF Delete
<1>3. outcome = "ok"
  BY <1>2 DEF Outcomes, Report, Fault, Quiet
<1>4. i \in Written /\ 0 \notin Written
  BY WrittenInIds DEF TypeOK
<1> QED BY <1>2, <1>3, <1>4 DEF GoTo, TypeOK

LEMMA ActExplained ==
  ASSUME TypeOK, NEW q \in Requests, Act(q), Quiet', NEW shows, Explained(shows)
  PROVE  Explained(shows)'
<1> SUFFICES ASSUME NEW i \in HiddenBy(shows)' PROVE i \in actedAway' \/ Finishing(i)'
  BY DEF Explained
<1>1. actedAway \subseteq actedAway' /\ key' = key
  BY DEF Act, Attribute
<1>2. CASE i \in HiddenBy(shows)
  BY <1>1, <1>2, StillFinishing DEF Act, Explained
<1>3. CASE key = "incidents" /\ i \notin HiddenBy(shows)
  <2>1. i \in present \ present'
    BY <1>1, <1>3 DEF HiddenBy
  <2>2. i = target[q] /\ step'[q] = "clear" /\ target'[q] = target[q]
    BY <2>1, DeletedIsFinishing DEF Act
  <2>3. CASE q \in Local
    BY <2>2, <2>3 DEF Finishing, Acting
  <2>4. CASE q \notin Local
    BY <1>3, <2>1, <2>4 DEF Act, Attribute
  <2> QED BY <2>3, <2>4
<1>4. CASE key # "incidents" /\ i \notin HiddenBy(shows)
  <2>1. i \in actedHere' \ actedHere
    BY <1>1, <1>4 DEF HiddenBy
  <2>2. i = target[q] /\ q \in Local /\ step[q] = "audit" /\ step'[q] = "invalidate"
    BY <2>1 DEF Act, Attribute
  <2>3. target'[q] = target[q]
    BY <2>2 DEF Act, Handle, Disconnect, Claim, Read, Publish, Delete, Clear, Audit, Unlock,
                GoTo, End, TypeOK
  <2> QED BY <2>2, <2>3 DEF Finishing, Acting
<1> QED BY <1>2, <1>3, <1>4

LEMMA ActShown ==
  ASSUME TypeOK, ShownInv, NEW q \in Requests, Act(q)
  PROVE  ShownInv'
<1> SUFFICES ASSUME Quiet' PROVE ShownInv'
  BY DEF ShownInv
<1>1. Quiet
  BY QuietBefore DEF Act, Next
<1>2. UNCHANGED <<cache, view>>
  BY DEF Act
<1> QED BY <1>1, <1>2, ActExplained DEF ShownInv

LEMMA DropShown ==
  ASSUME TypeOK, ViewsOK, ShownInv, NEW q \in Requests, Drop(q)
  PROVE  ShownInv'
<1> SUFFICES ASSUME Quiet' PROVE ShownInv'
  BY DEF ShownInv
<1>1. Quiet
  BY QuietBefore DEF Drop, Next
<1>2. UNCHANGED faultVars
  BY DEF Drop, Invalidate, Fault, Quiet
<1>3. CASE q \in Local
  <2>1. cache' = Miss /\ view' = [v \in Viewers |-> [view[v] EXCEPT !.late = view[v].open, !.shows = {}]]
    BY <1>2, <1>3 DEF Drop, faultVars
  <2>2. \A v \in Viewers : view'[v].open => view'[v].late
    BY <2>1 DEF ViewsOK
  <2> QED BY <2>1, <2>2 DEF ShownInv, Miss
<1>4. CASE q \notin Local
  <2>1. UNCHANGED <<cache, view, key, actedHere, actedAway, present>>
    BY <1>4 DEF Drop, Invalidate, entryVars
  <2>2. \A p \in Local : step'[p] = step[p] /\ target'[p] = target[p]
    BY <1>4, DashboardAssumption DEF Drop, Invalidate, GoTo, TypeOK
  <2>3. \A i : Finishing(i) => Finishing(i)'
    BY <2>2 DEF Finishing, Acting
  <2> QED BY <1>1, <2>1, <2>3 DEF ShownInv, Explained, HiddenBy
<1> QED BY <1>3, <1>4

LEMMA OtherShown ==
  ASSUME TypeOK, ShownInv, UNCHANGED <<requestVars, viewVars>>,
         [Next]_vars, present \subseteq present'
  PROVE  ShownInv'
<1>1. \A i : Finishing(i)' <=> Finishing(i)
  BY DEF Finishing, Acting, requestVars
<1>2. \A shows : Explained(shows) => Explained(shows)'
  BY <1>1 DEF Explained, HiddenBy, viewVars
<1> QED BY <1>2, QuietBefore DEF ShownInv, viewVars

LEMMA ViewShown ==
  ASSUME TypeOK, ViewsOK, ShownInv, NEW v \in Viewers, Query(v) \/ Write(v)
  PROVE  ShownInv'
<1>1. UNCHANGED <<vars, key, actedHere, actedAway>>
  BY DEF Query, Write
<1>2. Quiet' <=> Quiet
  BY <1>1 DEF Quiet, vars, faultVars
<1>3. \A shows : Explained(shows)' <=> Explained(shows)
  BY <1>1 DEF Explained, HiddenBy, Finishing, Acting, vars, entryVars, requestVars
<1>4. CASE Query(v)
  <2>1. Explained(Source)
    BY DEF Explained, HiddenBy, Source, Incidents, History
  <2>2. cache' = cache
    BY <1>4 DEF Query
  <2>3. \A w \in Viewers : view'[w] = view[w] \/ view'[w].shows = Source
    BY <1>4 DEF Query, ViewsOK
  <2> QED BY <1>2, <1>3, <2>1, <2>2, <2>3 DEF ShownInv
<1>5. CASE Write(v)
  <2>1. \/ cache' = cache
        \/ /\ view[v].open
           /\ cache'.late = view[v].late /\ cache'.shows = view[v].shows
    BY <1>5 DEF Write
  <2>2. \A w \in Viewers : view'[w] = view[w] \/ ~view'[w].open
    BY <1>5 DEF Write, Closed, ViewsOK
  <2> QED BY <1>2, <1>3, <2>1, <2>2 DEF ShownInv
<1> QED BY <1>4, <1>5

\* However the requests of any number of guilds and the dashboards of one
\* interleave, what its operators did is hidden from it only for the reasons
\* ActsShown names.
THEOREM ActsShownHolds == DashboardSpec => []ActsShown
<1>1. DashboardInit => ShownInv
  BY DEF DashboardInit, ShownInv, Miss, Closed
<1>2. TypeOK /\ ViewsOK /\ ShownInv /\ [DashboardNext]_dashboardVars => ShownInv'
  <2> SUFFICES ASSUME TypeOK, ViewsOK, ShownInv, [DashboardNext]_dashboardVars PROVE ShownInv'
    OBVIOUS
  <2>1. ASSUME NEW i \in Written, ExpireHeld(i) \/ ExpireLeft(i), UNCHANGED viewVars
        PROVE  ShownInv'
    <3>1. UNCHANGED <<requestVars, present>>
      BY <2>1 DEF ExpireHeld, ExpireLeft, entryVars
    <3> QED BY <2>1, <3>1, OtherShown, DashboardStep
  <2>2. ASSUME NEW e \in Events, Work(e), UNCHANGED viewVars PROVE ShownInv'
    <3>1. UNCHANGED requestVars /\ present \subseteq present'
      BY <2>2 DEF Work, Process, Retry, Lapse, Bury, entryVars
    <3> QED BY <2>2, <3>1, OtherShown, DashboardStep
  <2>3. CASE UNCHANGED dashboardVars
    <3>1. UNCHANGED <<requestVars, viewVars, present>>
      BY <2>3 DEF dashboardVars, vars, entryVars
    <3> QED BY <3>1, OtherShown, DashboardStep
  <2>4. CASE Evict
    <3>1. UNCHANGED <<vars, key, view, actedHere, actedAway>> /\ ~cache'.held
      BY <2>4 DEF Evict, Miss
    <3> QED BY <3>1 DEF ShownInv, Quiet, Explained, HiddenBy, Finishing, Acting,
                        vars, entryVars, requestVars, faultVars
  <2> QED BY <2>1, <2>2, <2>3, <2>4, ActShown, DropShown, ViewShown DEF DashboardNext
<1>3. ShownInv => ActsShown
  BY DEF ShownInv, ActsShown, Quiet, Explained, HiddenBy, Hidden
<1>4. DashboardTypeOK => ViewsOK /\ TypeOK
  BY DEF DashboardTypeOK, ViewsOK
<1> QED BY <1>1, <1>2, <1>3, <1>4, DashboardTypeCorrect, PTL DEF DashboardSpec
=============================================================================
