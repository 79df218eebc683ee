---------------------------- MODULE LimiterProofs ----------------------------
(***************************************************************************)
(* Proofs about DiscordLimiter, for any number of requesters, any          *)
(* configured concurrency and any delays.                                  *)
(***************************************************************************)
EXTENDS DiscordLimiter, FiniteSetTheorems, TLAPS

-----------------------------------------------------------------------------
(* Types.                                                                   *)

LEMMA CapType == StreakCap \in Nat
BY LimiterAssumption DEF StreakCap

LEMMA HalvedType ==
  ASSUME limit \in 1 .. MaxLimit
  PROVE  Halved \in 1 .. MaxLimit
BY LimiterAssumption DEF Halved

LEMMA TypeInit == Init => TypeOK
<1> SUFFICES ASSUME Init PROVE TypeOK
  OBVIOUS
<1>1. 0 \in 0 .. StreakCap /\ 0 \in 0 .. MaxAttempts /\ MaxLimit \in 1 .. MaxLimit
  BY CapType, LimiterAssumption
<1> QED BY <1>1 DEF Init, TypeOK, Places, None

LEMMA AcquireType ==
  ASSUME TypeOK, NEW r \in Requesters, Acquire(r)
  PROVE  TypeOK'
<1> USE DEF TypeOK, Go, callVars, limitVars, Places
<1>1. CASE SleepOutBackoff(r)
  BY <1>1 DEF SleepOutBackoff, None
<1>2. CASE ClearBackoff(r)
  BY <1>2 DEF ClearBackoff
<1>3. CASE TakePermit(r)
  BY <1>3 DEF TakePermit
<1>4. CASE FindFull(r) \/ Register(r) \/ WakeUp(r)
  BY <1>4 DEF FindFull, Register, WakeUp
<1> QED BY <1>1, <1>2, <1>3, <1>4 DEF Acquire

LEMMA NotifyType ==
  ASSUME TypeOK, NEW r \in Requesters, NEW p \in Places,
         GoNotifying(r, p) \/ Go(r, p)
  PROVE  pc' \in [Requesters -> Places]
BY DEF TypeOK, Go, GoNotifying, Places

LEMMA SucceedType ==
  ASSUME TypeOK, NEW r \in Requesters, Succeed(r)
  PROVE  TypeOK'
<1> DEFINE count == streak + 1
           grows == limit < MaxLimit /\ count >= limit * StreakFactor
<1>1. /\ streak' = IF grows THEN 0 ELSE IF count < StreakCap THEN count ELSE StreakCap
      /\ limit' = IF grows THEN limit + 1 ELSE limit
      /\ releases' = releases + 1
      /\ UNCHANGED <<timer, attempts, active, backoff>>
      /\ cancelled' \in {cancelled, CancelJob(r)}
      /\ GoNotifying(r, "out") \/ Go(r, "out")
  BY DEF Succeed
<1> HIDE DEF grows
<1>2. streak' \in 0 .. StreakCap
  BY <1>1, CapType DEF TypeOK
<1>3. limit' \in 1 .. MaxLimit
  BY <1>1, LimiterAssumption DEF TypeOK, grows
<1>4. pc' \in [Requesters -> Places]
  BY <1>1, NotifyType DEF Places
<1>5. cancelled' \subseteq JobTasks
  BY <1>1 DEF TypeOK, CancelJob
<1> QED BY <1>1, <1>2, <1>3, <1>4, <1>5 DEF TypeOK

LEMMA RateLimitedType ==
  ASSUME TypeOK, NEW r \in Requesters, NEW d \in Delays, RateLimited(r, d)
  PROVE  TypeOK'
<1>1. attempts' \in [Requesters -> 0 .. MaxAttempts]
  BY LimiterAssumption DEF RateLimited, TypeOK
<1>2. streak' \in 0 .. StreakCap
  BY CapType DEF RateLimited
<1>3. limit' \in 1 .. MaxLimit
  BY HalvedType DEF RateLimited, TypeOK
<1>4. backoff' \in Nat \union {None} /\ timer' \in [Requesters -> Nat]
  BY LimiterAssumption DEF RateLimited, Extended, TypeOK
<1>5. pc' \in [Requesters -> Places]
  BY NotifyType DEF RateLimited, Places
<1> QED BY <1>1, <1>2, <1>3, <1>4, <1>5 DEF RateLimited, TypeOK

LEMMA EndType ==
  ASSUME TypeOK, NEW r \in Requesters,
         Request(r) \/ TryAgain(r) \/ Fail(r) \/ Abort(r)
  PROVE  TypeOK'
<1> USE DEF TypeOK, Go, callVars, limitVars, Places
<1>1. CASE Request(r)
  <2>1. attempts' \in [Requesters -> 0 .. MaxAttempts]
    BY <1>1, LimiterAssumption DEF Request
  <2> QED BY <1>1, <2>1 DEF Request
<1>2. CASE TryAgain(r)
  BY <1>2 DEF TryAgain
<1>3. CASE Fail(r)
  BY <1>3 DEF Fail, CancelJob
<1>4. CASE Abort(r)
  BY <1>4 DEF Abort
<1> QED BY <1>1, <1>2, <1>3, <1>4

LEMMA SharedType ==
  ASSUME TypeOK, Release \/ Tick
  PROVE  TypeOK'
<1> USE DEF TypeOK, callVars, limitVars, Places
<1>1. CASE Release
  BY <1>1 DEF Release
<1>2. CASE Tick
  BY <1>2 DEF Tick, Elapse, None
<1> QED BY <1>1, <1>2

LEMMA TypeStep == TypeOK /\ [Next]_vars => TypeOK'
<1> SUFFICES ASSUME TypeOK, [Next]_vars PROVE TypeOK'
  OBVIOUS
<1>1. CASE UNCHANGED vars
  BY <1>1 DEF vars, callVars, limitVars, TypeOK
<1> QED
  BY <1>1, AcquireType, SucceedType, RateLimitedType, EndType, SharedType
  DEF Next, Answered

(* Type correctness: in particular the adaptive limit stays between one and  *)
(* the configured concurrency.                                               *)
THEOREM LimiterTypeCorrect == Spec => []TypeOK
BY TypeInit, TypeStep, PTL DEF Spec

-----------------------------------------------------------------------------
(* Permits.                                                                 *)

LEMMA HoldersFinite == IsFiniteSet(Holders) /\ Cardinality(Holders) \in Nat
BY LimiterAssumption, FS_Subset, FS_CardinalityType DEF Holders

LEMMA HoldersMove ==
  ASSUME NEW r \in Requesters,
         \A q \in Requesters \ {r} : Holding(q)' <=> Holding(q)
  PROVE  /\ (Holding(r)' <=> Holding(r)) => Cardinality(Holders') = Cardinality(Holders)
         /\ Holding(r)' /\ ~Holding(r) => Cardinality(Holders') = Cardinality(Holders) + 1
         /\ ~Holding(r)' /\ Holding(r) => Cardinality(Holders') = Cardinality(Holders) - 1
<1>1. CASE Holding(r)' <=> Holding(r)
  <2>1. Holders' = Holders
    BY <1>1 DEF Holders
  <2> QED BY <1>1, <2>1
<1>2. CASE Holding(r)' /\ ~Holding(r)
  <2>1. Holders' = Holders \union {r} /\ r \notin Holders
    BY <1>2 DEF Holders
  <2> QED BY <1>2, <2>1, HoldersFinite, FS_AddElement
<1>3. CASE ~Holding(r)' /\ Holding(r)
  <2>1. Holders' = Holders \ {r} /\ r \in Holders
    BY <1>3 DEF Holders
  <2> QED BY <1>3, <2>1, HoldersFinite, FS_RemoveElement
<1> QED BY <1>1, <1>2, <1>3

\* What happens to the permits when r moves to place.
LEMMA MoveHolding ==
  ASSUME TypeOK, NEW r \in Requesters, NEW p \in Places, Go(r, p) \/ GoNotifying(r, p)
  PROVE  /\ Holding(r)' <=> p \in {"sending", "limited"}
         /\ \A q \in Requesters \ {r} : Holding(q)' <=> Holding(q)
BY DEF TypeOK, Go, GoNotifying, Holding, Places

LEMMA PermitsStep ==
  TypeOK /\ TypeOK' /\ PermitsAccounted /\ [Next]_vars => PermitsAccounted'
<1> SUFFICES ASSUME TypeOK, TypeOK', PermitsAccounted, [Next]_vars PROVE PermitsAccounted'
  OBVIOUS
<1> USE DEF callVars, limitVars
<1>t. /\ active \in Nat /\ releases \in Nat /\ limit \in 1 .. MaxLimit /\ MaxLimit \in Nat
      /\ Cardinality(Holders) \in Nat
      /\ active = Cardinality(Holders) + releases /\ active <= MaxLimit
  BY HoldersFinite, LimiterAssumption DEF TypeOK, PermitsAccounted
<1>0. CASE UNCHANGED <<pc, active, releases>>
  BY <1>0 DEF PermitsAccounted, Holders, Holding
<1>1. ASSUME NEW r \in Requesters, Acquire(r) PROVE PermitsAccounted'
  <2>1. CASE TakePermit(r)
    <3>1. Cardinality(Holders') = Cardinality(Holders) + 1
      <4>1. ~Holding(r) /\ Go(r, "sending")
        BY <2>1 DEF TakePermit, Holding
      <4> QED BY <4>1, MoveHolding, HoldersMove DEF Places
    <3>2. active' = active + 1 /\ active < limit /\ releases' = releases
      BY <2>1 DEF TakePermit
    <3> QED BY <1>t, <3>1, <3>2 DEF PermitsAccounted
  <2>2. CASE ~TakePermit(r)
    <3>1. /\ ~Holding(r) /\ UNCHANGED <<active, releases>>
          /\ \E p \in {"wants", "backing", "unlocked", "waiting"} : Go(r, p)
      BY <1>1, <2>2 DEF Acquire, SleepOutBackoff, ClearBackoff, FindFull, Register, WakeUp, Holding
    <3>2. Cardinality(Holders') = Cardinality(Holders)
      BY <3>1, MoveHolding, HoldersMove DEF Places
    <3> QED BY <1>t, <3>1, <3>2 DEF PermitsAccounted
  <2> QED BY <2>1, <2>2
<1>2. ASSUME NEW r \in Requesters, Holding(r), active' = active, releases' = releases + 1,
             \E p \in {"out", "wants"} : Go(r, p) \/ GoNotifying(r, p)
      PROVE  PermitsAccounted'
  <2>1. Cardinality(Holders') = Cardinality(Holders) - 1
    BY <1>2, MoveHolding, HoldersMove DEF Places
  <2> QED BY <1>t, <1>2, <2>1 DEF PermitsAccounted
<1>3. ASSUME NEW r \in Requesters, Succeed(r) \/ Fail(r) \/ TryAgain(r) PROVE PermitsAccounted'
  BY <1>2, <1>3 DEF Succeed, Fail, TryAgain, Holding
<1>4. ASSUME NEW r \in Requesters, NEW d \in Delays, RateLimited(r, d) PROVE PermitsAccounted'
  <2>1. /\ Holding(r) /\ GoNotifying(r, "limited")
        /\ UNCHANGED <<active, releases>>
    BY <1>4 DEF RateLimited, Holding
  <2>2. Cardinality(Holders') = Cardinality(Holders)
    BY <2>1, MoveHolding, HoldersMove DEF Places
  <2> QED BY <1>t, <2>1, <2>2 DEF PermitsAccounted
<1>5. ASSUME NEW r \in Requesters, Request(r) PROVE PermitsAccounted'
  <2>1. /\ ~Holding(r) /\ Go(r, "wants")
        /\ UNCHANGED <<active, releases>>
    BY <1>5 DEF Request, Holding
  <2>2. Cardinality(Holders') = Cardinality(Holders)
    BY <2>1, MoveHolding, HoldersMove DEF Places
  <2> QED BY <1>t, <2>1, <2>2 DEF PermitsAccounted
<1>6. ASSUME NEW r \in Requesters, Abort(r) PROVE PermitsAccounted'
  <2>1. Go(r, "out") /\ active' = active
    BY <1>6 DEF Abort
  <2>2. CASE Holding(r)
    BY <1>2, <1>6, <2>1, <2>2 DEF Abort
  <2>3. CASE ~Holding(r)
    <3>1. Cardinality(Holders') = Cardinality(Holders)
      BY <2>1, <2>3, MoveHolding, HoldersMove DEF Places
    <3>2. releases' = releases
      BY <1>6, <2>3 DEF Abort
    <3> QED BY <1>t, <2>1, <3>1, <3>2 DEF PermitsAccounted
  <2> QED BY <2>2, <2>3
<1>7. CASE Release
  <2>1. Holders' = Holders
    BY <1>7 DEF Release, Holders, Holding, TypeOK
  <2>2. releases > 0 /\ releases' = releases - 1 /\ active' = active - 1
    BY <1>7, <1>t DEF Release
  <2> QED BY <1>t, <2>1, <2>2 DEF PermitsAccounted
<1>8. CASE Tick
  BY <1>0, <1>8 DEF Tick
<1>9. CASE UNCHANGED vars
  BY <1>0, <1>9 DEF vars
<1> QED BY <1>1, <1>3, <1>4, <1>5, <1>6, <1>7, <1>8, <1>9 DEF Next, Answered

(* Permits are neither leaked nor returned twice, and never outnumber the    *)
(* configured concurrency, whatever calls succeed, fail, retry or are        *)
(* aborted, and however late the spawned releases run.                       *)
THEOREM PermitsAccountedHolds == Spec => []PermitsAccounted
<1>1. Init => PermitsAccounted
  <2> SUFFICES ASSUME Init PROVE PermitsAccounted
    OBVIOUS
  <2>1. Holders = {}
    BY DEF Init, Holders, Holding
  <2> QED BY <2>1, FS_EmptySet, LimiterAssumption DEF Init, PermitsAccounted
<1> QED BY <1>1, PermitsStep, LimiterTypeCorrect, PTL DEF Spec

-----------------------------------------------------------------------------
(* Delays.                                                                  *)

\* Steps that neither start a delay nor let time pass.
LEMMA DelaysKept ==
  ASSUME TypeOK, RetryAfterRespected,
         backoff' = backoff \/ backoff <= 0,
         \A q \in Requesters : pc'[q] = "limited" => pc[q] = "limited" /\ timer'[q] = timer[q]
  PROVE  RetryAfterRespected'
BY DEF TypeOK, RetryAfterRespected, None

LEMMA DelaysStep == TypeOK /\ RetryAfterRespected /\ [Next]_vars => RetryAfterRespected'
<1> SUFFICES ASSUME TypeOK, RetryAfterRespected, [Next]_vars PROVE RetryAfterRespected'
  OBVIOUS
<1> USE DEF callVars, limitVars
<1>t. pc \in [Requesters -> Places] /\ timer \in [Requesters -> Nat] /\ backoff \in Nat \union {None}
  BY DEF TypeOK
<1>1. ASSUME NEW r \in Requesters, Acquire(r) \/ Request(r) PROVE RetryAfterRespected'
  <2>1. backoff' = backoff \/ backoff <= 0
    BY <1>1 DEF Acquire, SleepOutBackoff, ClearBackoff, TakePermit, FindFull, Register, WakeUp, Request
  <2>2. /\ \A q \in Requesters \ {r} : pc'[q] = pc[q] /\ timer'[q] = timer[q]
        /\ pc'[r] # "limited"
    BY <1>1, <1>t DEF Acquire, SleepOutBackoff, ClearBackoff, TakePermit, FindFull, Register, WakeUp,
       Request, Go
  <2> QED BY <2>1, <2>2, DelaysKept
<1>2. ASSUME NEW r \in Requesters, Succeed(r) \/ Fail(r) \/ TryAgain(r) \/ Abort(r)
      PROVE  RetryAfterRespected'
  <2>1. backoff' = backoff /\ timer' = timer
    BY <1>2 DEF Succeed, Fail, TryAgain, Abort
  <2>2. \A q \in Requesters : pc'[q] = "limited" => pc[q] = "limited"
    BY <1>2, <1>t DEF Succeed, Fail, TryAgain, Abort, Go, GoNotifying
  <2> QED BY <2>1, <2>2, DelaysKept
<1>3. ASSUME NEW r \in Requesters, NEW d \in Delays, RateLimited(r, d)
      PROVE  RetryAfterRespected'
  <2>1. timer'[r] = d /\ \A q \in Requesters \ {r} : timer'[q] = timer[q]
    BY <1>3, <1>t DEF RateLimited
  <2>2. \A q \in Requesters \ {r} : pc'[q] = "limited" => pc[q] = "limited"
    BY <1>3, <1>t DEF RateLimited, GoNotifying
  <2>3. backoff' >= backoff /\ backoff' >= d /\ d \in Nat /\ backoff' \in Int
    BY <1>3, <1>t, LimiterAssumption DEF RateLimited, Extended, None
  <2> QED BY <1>t, <2>1, <2>2, <2>3 DEF RetryAfterRespected, None
<1>4. CASE Release
  BY <1>4, <1>t, DelaysKept DEF Release
<1>5. CASE Tick
  <2>1. /\ \A q \in Requesters : timer'[q] = Elapse(timer[q])
        /\ backoff' = Elapse(backoff) /\ pc' = pc
    BY <1>5 DEF Tick
  <2> QED BY <1>t, <2>1 DEF RetryAfterRespected, Elapse, None
<1>6. CASE UNCHANGED vars
  BY <1>6, DelaysKept DEF vars
<1> QED BY <1>1, <1>2, <1>3, <1>4, <1>5, <1>6 DEF Next, Answered

(* No retry_after is cut short: the limiter's backoff covers every delay     *)
(* that a request is sitting out.                                            *)
THEOREM RetryAfterRespectedHolds == Spec => []RetryAfterRespected
<1>1. Init => RetryAfterRespected
  BY DEF Init, RetryAfterRespected
<1> QED BY <1>1, DelaysStep, LimiterTypeCorrect, PTL DEF Spec
=============================================================================
