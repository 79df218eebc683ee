--------------------------- MODULE DiscordLimiter ---------------------------
(***************************************************************************)
(* The worker's adaptive limiter for Discord requests, and the loop of     *)
(* discord_get_json that uses it.  A requester is one slot of a backfill   *)
(* job's JoinSet (the job's own channel request takes one too), or the     *)
(* message worker, which asks for the names of new channels.  The          *)
(* limiter's mutex makes each method one step, up to three gaps the code   *)
(* leaves open: between leaving the mutex and registering with Notify,     *)
(* between dropping a permit and its spawned release, and between aborting *)
(* a task and the task stopping.  Timers hold the time that is left.       *)
(***************************************************************************)
EXTENDS Integers, FiniteSets

CONSTANTS
  Requesters,    \* tasks that send requests
  JobTasks,      \* those of the backfill job's JoinSet
  MaxLimit,      \* max_limit: WORKER_BACKFILL_CHANNEL_CONCURRENCY, at least 1
  MaxAttempts,   \* how many 429s one call retries after
  StreakFactor,  \* successes per unit of current_limit before it grows
  Delays         \* bound: the values of retry_after

ASSUME LimiterAssumption ==
  /\ IsFiniteSet(Requesters)
  /\ JobTasks \subseteq Requesters
  /\ MaxLimit \in Nat \ {0}
  /\ MaxAttempts \in Nat
  /\ StreakFactor \in Nat \ {0}
  /\ Delays \subseteq Nat \ {0}

VARIABLES
  pc,         \* pc[r]: where r is
  timer,      \* timer[r]: what is left of r's sleep
  attempts,   \* attempts[r]: 429s r's call has retried after
  cancelled,  \* requesters whose job has failed: their tasks are being aborted
  active,     \* active_requests
  limit,      \* current_limit
  streak,     \* success_streak, capped where it stops mattering
  backoff,    \* what is left until backoff_until, or None
  releases    \* spawned release() calls that have not run yet

callVars == <<timer, attempts, cancelled>>
limitVars == <<limit, streak, backoff>>
vars == <<pc, callVars, active, limitVars, releases>>

None == -1

Places ==
  {"out",       \* no call
   "wants",     \* at the top of the loop in acquire()
   "unlocked",  \* out of the mutex, about to call notified()
   "waiting",   \* registered with Notify
   "backing",   \* sleeping until backoff_until
   "sending",   \* holding a permit, request in flight
   "limited"}   \* holding a permit, sleeping after a 429

Holding(r) == pc[r] \in {"sending", "limited"}

Init ==
  /\ pc = [r \in Requesters |-> "out"]
  /\ timer = [r \in Requesters |-> 0]
  /\ attempts = [r \in Requesters |-> 0]
  /\ cancelled = {}
  /\ active = 0
  /\ limit = MaxLimit
  /\ streak = 0
  /\ backoff = None
  /\ releases = 0

Go(r, place) == pc' = [pc EXCEPT ![r] = place]

\* notify_waiters(), by a requester that moves on to place: it wakes who has
\* registered and stores nothing for who has not.
GoNotifying(r, place) ==
  pc' = [q \in Requesters |-> IF q = r THEN place
                              ELSE IF pc[q] = "waiting" THEN "wants" ELSE pc[q]]

-----------------------------------------------------------------------------
(* acquire()                                                                *)

Request(r) ==
  /\ pc[r] = "out"
  /\ r \notin cancelled
  /\ Go(r, "wants")
  /\ attempts' = [attempts EXCEPT ![r] = 0]
  /\ UNCHANGED <<timer, cancelled, active, limitVars, releases>>

SleepOutBackoff(r) ==
  /\ pc[r] = "wants"
  /\ backoff > 0
  /\ Go(r, "backing")
  /\ timer' = [timer EXCEPT ![r] = backoff]
  /\ UNCHANGED <<attempts, cancelled, active, limitVars, releases>>

\* Whoever finds the backoff over clears it, and waits without trying.
ClearBackoff(r) ==
  /\ pc[r] = "wants"
  /\ backoff = 0
  /\ backoff' = None
  /\ Go(r, "unlocked")
  /\ UNCHANGED <<callVars, active, limit, streak, releases>>

TakePermit(r) ==
  /\ pc[r] = "wants"
  /\ backoff = None
  /\ active < limit
  /\ active' = active + 1
  /\ Go(r, "sending")
  /\ UNCHANGED <<callVars, limitVars, releases>>

FindFull(r) ==
  /\ pc[r] = "wants"
  /\ backoff = None
  /\ active >= limit
  /\ Go(r, "unlocked")
  /\ UNCHANGED <<callVars, active, limitVars, releases>>

Register(r) ==
  /\ pc[r] = "unlocked"
  /\ Go(r, "waiting")
  /\ UNCHANGED <<callVars, active, limitVars, releases>>

WakeUp(r) ==
  /\ pc[r] = "backing"
  /\ timer[r] = 0
  /\ Go(r, "wants")
  /\ UNCHANGED <<callVars, active, limitVars, releases>>

-----------------------------------------------------------------------------
(* The response, and the permit's Drop, which spawns a release().           *)

StreakCap == StreakFactor * MaxLimit

\* An error of one of its tasks fails the job, and dropping its JoinSet aborts
\* the others; the message worker only logs an error.
CancelJob(r) ==
  IF r \in cancelled \/ r \notin JobTasks THEN cancelled \ {r}
  ELSE cancelled \union {q \in JobTasks \ {r} : pc[q] # "out"}

\* on_success; a body that does not decode is an error after it.
Succeed(r) ==
  LET count == streak + 1
      grows == limit < MaxLimit /\ count >= limit * StreakFactor
  IN  /\ pc[r] = "sending"
      /\ streak' = IF grows THEN 0 ELSE IF count < StreakCap THEN count ELSE StreakCap
      /\ limit' = IF grows THEN limit + 1 ELSE limit
      /\ IF grows THEN GoNotifying(r, "out") ELSE Go(r, "out")
      /\ releases' = releases + 1
      /\ cancelled' \in {cancelled, CancelJob(r)}
      /\ UNCHANGED <<timer, attempts, active, backoff>>

\* Mutant: the limit is not kept at min_limit.
HalvedUnclamped == limit \div 2

Halved == IF limit \div 2 < 1 THEN 1 ELSE limit \div 2

\* Mutant: a later, shorter retry_after replaces a longer one.
BackoffOverwritten(d) == d

Extended(d) == IF backoff > d THEN backoff ELSE d

\* on_rate_limit, then a sleep of its own with the permit still held.
RateLimited(r, d) ==
  /\ pc[r] = "sending"
  /\ attempts[r] < MaxAttempts
  /\ attempts' = [attempts EXCEPT ![r] = @ + 1]
  /\ streak' = 0
  /\ limit' = Halved
  /\ backoff' = Extended(d)
  /\ timer' = [timer EXCEPT ![r] = d]
  /\ GoNotifying(r, "limited")
  /\ UNCHANGED <<cancelled, active, releases>>

TryAgain(r) ==
  /\ pc[r] = "limited"
  /\ timer[r] = 0
  /\ Go(r, "wants")
  /\ releases' = releases + 1
  /\ UNCHANGED <<callVars, active, limitVars>>

\* Any other answer, or none.
Fail(r) ==
  /\ pc[r] = "sending"
  /\ Go(r, "out")
  /\ cancelled' = CancelJob(r)
  /\ releases' = releases + 1
  /\ UNCHANGED <<timer, attempts, active, limitVars>>

\* Mutant: an aborted task does not give its permit back.
AbortLeaks(r) ==
  /\ r \in cancelled
  /\ pc[r] # "unlocked"
  /\ Go(r, "out")
  /\ cancelled' = cancelled \ {r}
  /\ UNCHANGED <<timer, attempts, active, limitVars, releases>>

\* An aborted task stops at its next await, and drops the permit it holds.
Abort(r) ==
  /\ r \in cancelled
  /\ pc[r] # "unlocked"
  /\ Go(r, "out")
  /\ cancelled' = cancelled \ {r}
  /\ releases' = IF Holding(r) THEN releases + 1 ELSE releases
  /\ UNCHANGED <<timer, attempts, active, limitVars>>

\* Mutant: nobody is told of the permit.
ReleaseSilently ==
  /\ releases > 0
  /\ releases' = releases - 1
  /\ active' = IF active > 0 THEN active - 1 ELSE 0
  /\ UNCHANGED <<pc, callVars, limitVars>>

Release ==
  /\ releases > 0
  /\ releases' = releases - 1
  /\ active' = IF active > 0 THEN active - 1 ELSE 0
  /\ pc' = [q \in Requesters |-> IF pc[q] = "waiting" THEN "wants" ELSE pc[q]]
  /\ UNCHANGED <<callVars, limitVars>>

-----------------------------------------------------------------------------
Elapse(t) == IF t > 0 THEN t - 1 ELSE t

Tick ==
  /\ backoff > 0 \/ \E r \in Requesters : timer[r] > 0
  /\ backoff' = Elapse(backoff)
  /\ timer' = [r \in Requesters |-> Elapse(timer[r])]
  /\ UNCHANGED <<pc, attempts, cancelled, active, limit, streak, releases>>

Acquire(r) ==
  \/ SleepOutBackoff(r) \/ ClearBackoff(r) \/ TakePermit(r) \/ FindFull(r)
  \/ Register(r) \/ WakeUp(r)

Answered(r) == Succeed(r) \/ Fail(r) \/ \E d \in Delays : RateLimited(r, d)

Next ==
  \/ \E r \in Requesters :
       Request(r) \/ Acquire(r) \/ Answered(r) \/ TryAgain(r) \/ Abort(r)
  \/ Release
  \/ Tick

\* Every request is answered, every spawned task runs and timers fire.
Fairness ==
  /\ WF_vars(Release) /\ WF_vars(Tick)
  /\ \A r \in Requesters :
       /\ WF_vars(Acquire(r)) /\ WF_vars(Answered(r))
       /\ WF_vars(TryAgain(r)) /\ WF_vars(Abort(r))

Spec == Init /\ [][Next]_vars

FairSpec == Spec /\ Fairness

\* Moreover, nobody keeps losing the race for a free permit.
PatientSpec == FairSpec /\ \A r \in Requesters : SF_vars(TakePermit(r))

-----------------------------------------------------------------------------
\* Requesters, the limiter's counters and what is due have their shape, and the
\* limit stays between one and the configured maximum.
TypeOK ==
  /\ pc \in [Requesters -> Places]
  /\ timer \in [Requesters -> Nat]
  /\ attempts \in [Requesters -> 0 .. MaxAttempts]
  /\ cancelled \subseteq JobTasks
  /\ active \in Nat
  /\ limit \in 1 .. MaxLimit
  /\ streak \in 0 .. StreakCap
  /\ backoff \in Nat \union {None}
  /\ releases \in Nat

Holders == {r \in Requesters : Holding(r)}

\* No permit leaks and none is given back twice, whatever is retried, fails or
\* is aborted: the permits counted are those held and those on their way back,
\* and there are never more of them than the configured concurrency.
PermitsAccounted ==
  /\ active = Cardinality(Holders) + releases
  /\ active <= MaxLimit

\* While a requester sits out the delay Discord asked for, the limiter holds
\* everyone back at least as long: a shorter retry_after never cuts it off.
RetryAfterRespected ==
  \A r \in Requesters : pc[r] = "limited" /\ timer[r] > 0 => backoff >= timer[r]

\* Whoever waits while a request is in flight is woken once it has ended.
WokenByOthers ==
  \A r \in Requesters : pc[r] = "waiting" ~> (pc[r] # "waiting" \/ active = 0)

\* A call that was told to slow down goes on to its next attempt, or ends.
RetriesGoOn ==
  \A r \in Requesters : pc[r] = "limited" ~> pc[r] \in {"sending", "out"}
=============================================================================
