------------------------- MODULE ProxyRequestProofs -------------------------
(***************************************************************************)
(* Proofs about ProxyRequest, for every number of requests, pool size,     *)
(* attempts, timeout and breaker configuration.                            *)
(***************************************************************************)
EXTENDS ProxyRequest, FiniteSetTheorems, TLAPS

-----------------------------------------------------------------------------
(* The breaker's methods. *)

\* A new breaker is a breaker whose count agrees with its state.
LEMMA NewBreakerAgrees ==
    /\ NewBreaker \in Breaker
    /\ CountAgrees(NewBreaker)
BY BreakerAssumption DEF NewBreaker, Breaker, CircuitState, CountAgrees

\* record_failure keeps the agreement, never leaves a breaker half-open, and
\* leaves one that was not Closed Open.
LEMMA FailureSettles ==
    ASSUME NEW cb \in Breaker, CountAgrees(cb)
    PROVE  /\ RecordFailure(cb) \in Breaker
           /\ CountAgrees(RecordFailure(cb))
           /\ RecordFailure(cb).state # "HalfOpen"
           /\ cb.state # "Closed" => RecordFailure(cb).state = "Open"
<1> DEFINE counted == [cb EXCEPT !.failures = IF @ < MaxFailures THEN @ + 1 ELSE @]
<1>1. /\ counted \in Breaker
      /\ counted.state = cb.state
      /\ cb.state # "Closed" => counted.failures = MaxFailures
      /\ cb.state = "HalfOpen" => counted.failures = MaxFailures
  BY BreakerAssumption DEF Breaker, CircuitState, CountAgrees
<1>. RecordFailure(cb) = IF counted.failures >= MaxFailures
                         THEN TransitionToOpen(counted) ELSE counted
  BY DEF RecordFailure
<1> HIDE DEF counted
<1>2. CASE counted.failures >= MaxFailures
  <2>1. counted.failures = MaxFailures
    BY <1>1, <1>2, BreakerAssumption DEF Breaker
  <2>2. RecordFailure(cb) = TransitionToOpen(counted)
    BY <1>2
  <2> QED
    BY <1>1, <2>1, <2>2, BreakerAssumption
    DEF TransitionToOpen, Breaker, CircuitState, CountAgrees
<1>3. CASE ~(counted.failures >= MaxFailures)
  <2>1. RecordFailure(cb) = counted
    BY <1>3
  <2> QED
    BY <1>1, <1>3, <2>1, BreakerAssumption DEF Breaker, CircuitState, CountAgrees
<1> QED BY <1>2, <1>3

\* A success closes the breaker, with nothing on its count.
LEMMA SuccessSettles ==
    ASSUME NEW cb \in Breaker
    PROVE  /\ Succeeded(cb) \in Breaker
           /\ CountAgrees(Succeeded(cb))
           /\ Succeeded(cb).state = "Closed"
BY BreakerAssumption
DEF Succeeded, TransitionToClosed, RecordSuccess, Breaker, CircuitState, CountAgrees

\* An admitted request leaves a Closed breaker alone and any other half-open.
LEMMA AttemptAgrees ==
    ASSUME NEW cb \in Breaker, CountAgrees(cb), CanAttempt(cb)
    PROVE  /\ AfterAttempt(cb) \in Breaker
           /\ CountAgrees(AfterAttempt(cb))
           /\ cb.state = "Closed" => AfterAttempt(cb) = cb
           /\ cb.state # "Closed" => AfterAttempt(cb).state = "HalfOpen"
<1>1. CASE cb.state = "Closed"
  BY <1>1 DEF AfterAttempt
<1>2. CASE cb.state = "Open"
  <2>1. AfterAttempt(cb) = TransitionToHalfOpen(cb)
    BY <1>2 DEF AfterAttempt
  <2> QED
    BY <1>2, <2>1, BreakerAssumption
    DEF TransitionToHalfOpen, Breaker, CircuitState, CountAgrees
<1>3. CASE cb.state = "HalfOpen"
  <2>1. AfterAttempt(cb) = [cb EXCEPT !.attempts = @ + 1]
    BY <1>3 DEF AfterAttempt
  <2>2. cb.attempts < HalfOpenMaxAttempts
    BY <1>3 DEF CanAttempt
  <2> QED
    BY <1>3, <2>1, <2>2, BreakerAssumption DEF Breaker, CircuitState, CountAgrees
<1> QED BY <1>1, <1>2, <1>3 DEF Breaker, CircuitState

\* The clock moves nothing but open_until's distance.
LEMMA TickAgrees ==
    ASSUME NEW cb \in Breaker, CountAgrees(cb)
    PROVE  /\ BreakerTick(cb) \in Breaker
           /\ CountAgrees(BreakerTick(cb))
           /\ BreakerTick(cb).state = cb.state
           /\ BreakerTick(cb).attempts = cb.attempts
BY BreakerAssumption DEF BreakerTick, Breaker, CircuitState, CountAgrees

-----------------------------------------------------------------------------
(* The breaker in the handler. *)

\* The loop's `if get_state() == HalfOpen { transition_to_open() }` after
\* record_failure has nothing left to do: exhausting the attempts is an
\* ordinary failure.
LEMMA ExhaustedIsAFailure ==
    ASSUME NEW r \in Requests, breaker \in Breaker, CountAgrees(breaker), Exhausted(r)
    PROVE  Settle(r, RecordFailure(breaker))
BY FailureSettles DEF Exhausted

BreakerInv == breaker \in Breaker /\ FailureCountAgrees

\* All that can happen to the breaker in one step.
BreakerMoves ==
    \/ breaker' = breaker
    \/ CanAttempt(breaker) /\ breaker' = AfterAttempt(breaker)
    \/ breaker' = Succeeded(breaker)
    \/ breaker' = RecordFailure(breaker)
    \/ breaker' = BreakerTick(breaker)

LEMMA EveryStepMovesTheBreaker ==
    ASSUME BreakerInv, [Next]_vars
    PROVE  BreakerMoves
<1> USE DEF BreakerMoves
<1>1. CASE UNCHANGED vars
  BY <1>1 DEF vars
<1>2. CASE Tick
  BY <1>2 DEF Tick
<1>3. ASSUME NEW r \in Requests,
             Arrive(r) \/ Acquire(r) \/ AnswerEarly(r) \/ Reject(r) \/ Admit(r)
      PROVE  BreakerMoves
  BY <1>3 DEF Arrive, Acquire, AnswerEarly, Reject, Admit
<1>4. ASSUME NEW r \in Requests, Send(r) \/ PanicInSend(r) \/ Wake(r) \/ BodyStored(r)
      PROVE  BreakerMoves
  BY <1>4 DEF Send, PanicInSend, Die, Wake, BodyStored
<1>5. ASSUME NEW r \in Requests, Reply(r)
      PROVE  BreakerMoves
  BY <1>5 DEF Reply, ReplyRetry, ReplyError, PanicInDelay, Die, ReplyOk, NotModifiedHit,
              NotModifiedMiss, BackOff, Settle
<1>6. ASSUME NEW r \in Requests, TimedOut(r)
      PROVE  BreakerMoves
  BY <1>6 DEF TimedOut, BackOff, Settle
<1>7. ASSUME NEW r \in Requests, Exhausted(r)
      PROVE  BreakerMoves
  BY <1>7, ExhaustedIsAFailure DEF BreakerInv, FailureCountAgrees, Settle
<1> QED BY <1>1, <1>2, <1>3, <1>4, <1>5, <1>6, <1>7 DEF Next

\* FailureCountAgrees: in every reachable state the failure count and the state
\* of the breaker agree, whatever order successes and failures come in.
THEOREM FailureCountCorrect == Spec => []FailureCountAgrees
<1>1. Init => BreakerInv
  BY NewBreakerAgrees DEF Init, BreakerInv, FailureCountAgrees
<1>2. BreakerInv /\ [Next]_vars => BreakerInv'
  <2> SUFFICES ASSUME BreakerInv, [Next]_vars PROVE BreakerInv'
    OBVIOUS
  <2>1. BreakerMoves
    BY EveryStepMovesTheBreaker
  <2>2. breaker' \in Breaker /\ CountAgrees(breaker')
    BY <2>1, FailureSettles, SuccessSettles, AttemptAgrees, TickAgrees
    DEF BreakerMoves, BreakerInv, FailureCountAgrees
  <2> QED BY <2>2 DEF BreakerInv, FailureCountAgrees, CountAgrees
<1>3. BreakerInv => FailureCountAgrees
  BY DEF BreakerInv
<1> QED BY <1>1, <1>2, <1>3, PTL DEF Spec

-----------------------------------------------------------------------------
(* The permits. *)

PcType == pc \in [Requests -> HoldsPermit \union {"idle", "queued"}]

PermitInv == PcType /\ permits \in Nat /\ PermitsConserved

\* All that can happen to the control points and the permits in one step: a
\* task that holds a permit keeps it as it moves on, or leaves with it.
MovesOn(r) ==
    /\ pc[r] \in HoldsPermit
    /\ \E at \in HoldsPermit : pc' = [pc EXCEPT ![r] = at]
    /\ permits' = permits

ControlMoves ==
    \/ pc' = pc /\ permits' = permits
    \/ \E r \in Requests :
         \/ Arrive(r)
         \/ Acquire(r)
         \/ MovesOn(r)
         \/ pc[r] \in HoldsPermit /\ Leave(r)

LEMMA EveryStepMovesControl ==
    ASSUME [Next]_vars
    PROVE  ControlMoves
<1> USE DEF ControlMoves, HoldsPermit, InLoop
<1>1. CASE UNCHANGED vars
  BY <1>1 DEF vars
<1>2. CASE Tick
  BY <1>2 DEF Tick
<1>3. ASSUME NEW r \in Requests,
             Arrive(r) \/ Acquire(r) \/ AnswerEarly(r) \/ Reject(r)
      PROVE  ControlMoves
  BY <1>3 DEF AnswerEarly, Reject
<1>4. ASSUME NEW r \in Requests, Admit(r) \/ Send(r) \/ Wake(r) \/ BodyStored(r)
      PROVE  ControlMoves
  BY <1>4 DEF Admit, Send, Wake, BodyStored, MovesOn
<1>5. ASSUME NEW r \in Requests, Reply(r)
      PROVE  ControlMoves
  <2>1. CASE ReplyRetry(r)
    BY <2>1 DEF ReplyRetry, BackOff, MovesOn
  <2>2. CASE ReplyError(r)
    BY <2>2 DEF ReplyError, BackOff, MovesOn
  <2>3. CASE PanicInDelay(r) \/ NotModifiedHit(r)
    BY <2>3 DEF PanicInDelay, Die, NotModifiedHit
  <2>4. CASE ReplyOk(r)
    BY <2>4 DEF ReplyOk, MovesOn
  <2>5. CASE NotModifiedMiss(r)
    BY <2>5 DEF NotModifiedMiss, MovesOn
  <2> QED BY <1>5, <2>1, <2>2, <2>3, <2>4, <2>5 DEF Reply
<1>6. ASSUME NEW r \in Requests, TimedOut(r)
      PROVE  ControlMoves
  BY <1>6 DEF TimedOut, AttemptTimedOut, BackOff, MovesOn
<1>7. ASSUME NEW r \in Requests, Exhausted(r) \/ PanicInSend(r)
      PROVE  ControlMoves
  BY <1>7 DEF Exhausted, PanicInSend, Die
<1> QED BY <1>1, <1>2, <1>3, <1>4, <1>5, <1>6, <1>7 DEF Next

\* What happens to the holders when one request takes or leaves its permit.
LEMMA HoldersFinite == IsFiniteSet(Holders) /\ Cardinality(Holders) \in Nat
<1>1. Holders \subseteq Requests
  BY DEF Holders
<1> QED BY <1>1, ProxyAssumption, FS_Subset, FS_CardinalityType

LEMMA PermitInvStep == PermitInv /\ [Next]_vars => PermitInv'
<1> SUFFICES ASSUME PermitInv, [Next]_vars PROVE PermitInv'
  OBVIOUS
<1>0. ControlMoves
  BY EveryStepMovesControl
<1>1. CASE pc' = pc /\ permits' = permits
  BY <1>1 DEF PermitInv, PcType, PermitsConserved, Holders
<1>2. ASSUME NEW r \in Requests, Arrive(r)
      PROVE  PermitInv'
  <2>1. Holders' = Holders
    BY <1>2 DEF Arrive, Holders, PermitInv, PcType, HoldsPermit, InLoop
  <2> QED BY <1>2, <2>1 DEF Arrive, PermitInv, PcType, PermitsConserved
<1>3. ASSUME NEW r \in Requests, Acquire(r)
      PROVE  PermitInv'
  <2>1. Holders' = Holders \union {r} /\ r \notin Holders
    BY <1>3 DEF Acquire, Holders, PermitInv, PcType, HoldsPermit, InLoop
  <2>2. Cardinality(Holders') = Cardinality(Holders) + 1
    BY <2>1, HoldersFinite, FS_AddElement
  <2>3. PcType'
    BY <1>3 DEF Acquire, PermitInv, PcType, HoldsPermit
  <2>4. permits' = permits - 1 /\ permits > 0
    BY <1>3 DEF Acquire
  <2> QED BY <2>2, <2>3, <2>4, HoldersFinite DEF PermitInv, PermitsConserved
<1>4. ASSUME NEW r \in Requests, MovesOn(r)
      PROVE  PermitInv'
  <2>1. Holders' = Holders /\ PcType'
    BY <1>4 DEF MovesOn, Holders, PermitInv, PcType
  <2> QED BY <1>4, <2>1 DEF MovesOn, PermitInv, PermitsConserved
<1>5. ASSUME NEW r \in Requests, pc[r] \in HoldsPermit, Leave(r)
      PROVE  PermitInv'
  <2>1. Holders' = Holders \ {r} /\ r \in Holders
    BY <1>5 DEF Leave, Holders, PermitInv, PcType, HoldsPermit, InLoop
  <2>2. Cardinality(Holders') = Cardinality(Holders) - 1
    BY <2>1, HoldersFinite, FS_RemoveElement
  <2>3. PcType'
    BY <1>5 DEF Leave, PermitInv, PcType
  <2>4. permits' = permits + 1
    BY <1>5 DEF Leave
  <2> QED BY <2>2, <2>3, <2>4, HoldersFinite DEF PermitInv, PermitsConserved
<1> QED BY <1>0, <1>1, <1>2, <1>3, <1>4, <1>5 DEF ControlMoves

LEMMA PermitInvInit == Init => PermitInv
<1> SUFFICES ASSUME Init PROVE PermitInv
  OBVIOUS
<1>1. Holders = {}
  BY DEF Init, Holders, HoldsPermit, InLoop
<1> QED
  BY <1>1, FS_EmptySet, ProxyAssumption DEF Init, PermitInv, PcType, PermitsConserved

\* PermitsConserved: no path out of the handler loses a permit of the semaphore
\* or gives one back twice.
THEOREM PermitsCorrect == Spec => []PermitsConserved
<1>1. PermitInv => PermitsConserved
  BY DEF PermitInv
<1> QED BY PermitInvInit, PermitInvStep, <1>1, PTL DEF Spec

-----------------------------------------------------------------------------
(* The attempts and the timers of one request. *)

CountsType ==
    /\ retries \in [Requests -> 0..MaxAttempts]
    /\ elapsed \in [Requests -> 0..Timeout]
    /\ waited \in [Requests -> 0..Timeout]
    /\ sends \in [Requests -> 0..MaxAttempts + 2]
    /\ missed \in [Requests -> BOOLEAN]

\* What the counters of a request say at each control point.  After a missed
\* 304 there is one attempt the loop has not counted, and nothing to say.
Counts(r) ==
    /\ pc[r] \notin InLoop \union {"body"} => sends[r] = 0 /\ retries[r] = 0
    /\ pc[r] = "upstream" => retries[r] < MaxAttempts
    /\ ~missed[r] =>
         /\ pc[r] \in {"loop", "backoff"} => sends[r] = retries[r]
         /\ pc[r] = "upstream" => sends[r] = retries[r] + 1
         /\ sends[r] <= MaxAttempts

\* The timer of an attempt started after the loop's.
Timers(r) == waited[r] <= elapsed[r]

BudgetInv == PcType /\ CountsType /\ \A r \in Requests : Counts(r) /\ Timers(r)

\* A step leaves the counters of the other requests alone (but for the clock).
OthersKeep(r) ==
    \A q \in Requests \ {r} :
        /\ pc'[q] = pc[q]
        /\ retries'[q] = retries[q]
        /\ elapsed'[q] = elapsed[q]
        /\ waited'[q] = waited[q]
        /\ sends'[q] = sends[q]
        /\ missed'[q] = missed[q]

LEMMA OneRequestStep ==
    ASSUME BudgetInv, NEW r \in Requests, PcType', CountsType', OthersKeep(r),
           Counts(r)', Timers(r)'
    PROVE  BudgetInv'
BY DEF BudgetInv, OthersKeep, Counts, Timers, CountsType

LEMMA LeaveKeepsBudget ==
    ASSUME BudgetInv, NEW r \in Requests, Leave(r)
    PROVE  BudgetInv'
<1>1. PcType' /\ CountsType' /\ OthersKeep(r)
  BY ProxyAssumption DEF Leave, BudgetInv, PcType, CountsType, OthersKeep
<1>2. Counts(r)' /\ Timers(r)'
  BY ProxyAssumption DEF Leave, BudgetInv, PcType, CountsType, Counts, Timers, InLoop
<1> QED BY <1>1, <1>2, OneRequestStep

LEMMA BackOffKeepsBudget ==
    ASSUME BudgetInv, NEW r \in Requests, pc[r] = "upstream", BackOff(r)
    PROVE  BudgetInv'
<1>1. Counts(r)
  BY DEF BudgetInv
<1>2. PcType' /\ CountsType' /\ OthersKeep(r)
  BY <1>1, ProxyAssumption
  DEF BackOff, BudgetInv, PcType, CountsType, OthersKeep, Counts, HoldsPermit, InLoop
<1>3. Counts(r)' /\ Timers(r)'
  BY <1>1, ProxyAssumption
  DEF BackOff, BudgetInv, PcType, CountsType, Counts, Timers, InLoop
<1> QED BY <1>2, <1>3, OneRequestStep

LEMMA BudgetInvStep == BudgetInv /\ [Next]_vars => BudgetInv'
<1> SUFFICES ASSUME BudgetInv, [Next]_vars PROVE BudgetInv'
  OBVIOUS
<1>1. CASE UNCHANGED vars
  BY <1>1 DEF vars, BudgetInv, PcType, CountsType, Counts, Timers
<1>2. CASE Tick
  <2>1. PcType' /\ CountsType'
    BY <1>2, ProxyAssumption DEF Tick, BudgetInv, PcType, CountsType
  <2>2. ASSUME NEW r \in Requests PROVE Counts(r)' /\ Timers(r)'
    BY <1>2, <2>2, ProxyAssumption
    DEF Tick, BudgetInv, CountsType, Counts, Timers, InLoop
  <2> QED BY <2>1, <2>2 DEF BudgetInv
<1>3. ASSUME NEW r \in Requests, Arrive(r) \/ Acquire(r) \/ Admit(r) \/ Wake(r)
      PROVE  BudgetInv'
  <2>1. PcType' /\ CountsType' /\ OthersKeep(r)
    BY <1>3 DEF Arrive, Acquire, Admit, Wake, BudgetInv, PcType, CountsType, OthersKeep,
                HoldsPermit, InLoop
  <2>2. Counts(r)' /\ Timers(r)'
    BY <1>3, ProxyAssumption
    DEF Arrive, Acquire, Admit, Wake, BudgetInv, PcType, CountsType, Counts, Timers, InLoop
  <2> QED BY <2>1, <2>2, OneRequestStep
<1>4. ASSUME NEW r \in Requests, Send(r)
      PROVE  BudgetInv'
  <2>1. PcType' /\ CountsType' /\ OthersKeep(r)
    BY <1>4, ProxyAssumption
    DEF Send, BudgetInv, PcType, CountsType, OthersKeep, HoldsPermit, InLoop
  <2>2. Counts(r)' /\ Timers(r)'
    BY <1>4, ProxyAssumption
    DEF Send, BudgetInv, PcType, CountsType, Counts, Timers, InLoop
  <2> QED BY <2>1, <2>2, OneRequestStep
<1>5. ASSUME NEW r \in Requests,
             \/ AnswerEarly(r) \/ Reject(r) \/ BodyStored(r) \/ Exhausted(r)
             \/ PanicInSend(r) \/ PanicInDelay(r) \/ NotModifiedHit(r)
      PROVE  BudgetInv'
  <2>1. Leave(r)
    BY <1>5
    DEF AnswerEarly, Reject, BodyStored, Exhausted, PanicInSend, PanicInDelay, Die,
        NotModifiedHit
  <2> QED BY <2>1, LeaveKeepsBudget
<1>6. ASSUME NEW r \in Requests, ReplyRetry(r)
      PROVE  BudgetInv'
  <2>1. CASE BackOff(r)
    BY <1>6, <2>1, BackOffKeepsBudget DEF ReplyRetry
  <2>2. CASE ~BackOff(r)
    <3>1. Counts(r)
      BY DEF BudgetInv
    <3>2. PcType' /\ CountsType' /\ OthersKeep(r)
      BY <1>6, <2>2, <3>1, ProxyAssumption
      DEF ReplyRetry, BudgetInv, PcType, CountsType, OthersKeep, Counts, HoldsPermit, InLoop
    <3>3. Counts(r)' /\ Timers(r)'
      BY <1>6, <2>2, <3>1, ProxyAssumption
      DEF ReplyRetry, BudgetInv, PcType, CountsType, Counts, Timers, InLoop
    <3> QED BY <3>2, <3>3, OneRequestStep
  <2> QED BY <2>1, <2>2
<1>7. ASSUME NEW r \in Requests, ReplyError(r) \/ TimedOut(r)
      PROVE  BudgetInv'
  BY <1>7, LeaveKeepsBudget, BackOffKeepsBudget DEF ReplyError, TimedOut, AttemptTimedOut
<1>8. ASSUME NEW r \in Requests, ReplyOk(r) \/ NotModifiedMiss(r)
      PROVE  BudgetInv'
  <2>1. CASE ReplyOk(r) /\ ~CacheConfigured
    BY <2>1, LeaveKeepsBudget DEF ReplyOk
  <2>2. CASE ReplyOk(r) /\ CacheConfigured
    <3>1. PcType' /\ CountsType' /\ OthersKeep(r)
      BY <2>2, ProxyAssumption
      DEF ReplyOk, BudgetInv, PcType, CountsType, OthersKeep, HoldsPermit, InLoop
    <3>2. Counts(r)' /\ Timers(r)'
      BY <2>2, ProxyAssumption
      DEF ReplyOk, BudgetInv, PcType, CountsType, Counts, Timers, InLoop
    <3> QED BY <3>1, <3>2, OneRequestStep
  <2>3. CASE NotModifiedMiss(r)
    <3>1. PcType' /\ CountsType' /\ OthersKeep(r)
      BY <2>3, ProxyAssumption
      DEF NotModifiedMiss, BudgetInv, PcType, CountsType, OthersKeep, HoldsPermit, InLoop
    <3>2. Counts(r)' /\ Timers(r)'
      BY <2>3, ProxyAssumption
      DEF NotModifiedMiss, BudgetInv, PcType, CountsType, Counts, Timers, InLoop
    <3> QED BY <3>1, <3>2, OneRequestStep
  <2> QED BY <1>8, <2>1, <2>2, <2>3
<1> QED BY <1>1, <1>2, <1>3, <1>4, <1>5, <1>6, <1>7, <1>8 DEF Next, Reply

LEMMA BudgetInvInit == Init => BudgetInv
BY ProxyAssumption
DEF Init, BudgetInv, PcType, CountsType, Counts, Timers, HoldsPermit, InLoop

\* BudgetUnlessMissed: until a 304 misses the cache, no request is sent more
\* than max_attempts times, and a request is given up on only when all its
\* attempts are spent.
THEOREM BudgetCorrect == Spec => []BudgetUnlessMissed
<1>1. BudgetInv => BudgetUnlessMissed
  BY ProxyAssumption DEF BudgetInv, CountsType, Counts, BudgetUnlessMissed
<1> QED BY BudgetInvInit, BudgetInvStep, <1>1, PTL DEF Spec

\* An attempt whose timer has run out always finds the whole loop over its
\* time: the branch of src/main.rs:610 that would retry it is dead code.
THEOREM TimeoutIsFinal ==
    Spec => [](\A r \in Requests : AttemptTimedOut(r) => elapsed[r] >= Timeout)
<1>1. BudgetInv => \A r \in Requests : AttemptTimedOut(r) => elapsed[r] >= Timeout
  BY ProxyAssumption DEF BudgetInv, CountsType, Timers, AttemptTimedOut
<1> QED BY BudgetInvInit, BudgetInvStep, <1>1, PTL DEF Spec

-----------------------------------------------------------------------------
(* The gate: the breaker, the requests in their loops and the probes. *)

\* How a move of one request changes who is in the loop.
LEMMA LoopingLeaves ==
    ASSUME PcType, NEW r \in Requests, Leave(r)
    PROVE  Looping' = Looping \ {r}
BY DEF PcType, Leave, Looping, InLoop

LEMMA LoopingStays ==
    ASSUME PcType, NEW r \in Requests, NEW at, pc' = [pc EXCEPT ![r] = at],
           pc[r] \in InLoop <=> at \in InLoop
    PROVE  Looping' = Looping
BY DEF PcType, Looping

LEMMA LoopingExits ==
    ASSUME PcType, NEW r \in Requests, NEW at, pc' = [pc EXCEPT ![r] = at], at \notin InLoop
    PROVE  Looping' = Looping \ {r}
BY DEF PcType, Looping

\* All that can happen at the gate in one step.
Quiet ==
    /\ probes' = probes
    /\ died' = died
    /\ Looping' = Looping
    /\ breaker'.state = breaker.state
    /\ breaker'.attempts = breaker.attempts

SuccessOf(r) ==
    /\ r \in Looping
    /\ Looping' \in {Looping, Looping \ {r}}
    /\ breaker' = Succeeded(breaker)
    /\ probes' = {}
    /\ died' = FALSE

FailureOf(r) ==
    /\ r \in Looping
    /\ Looping' = Looping \ {r}
    /\ breaker' = RecordFailure(breaker)
    /\ probes' = {}
    /\ died' = FALSE

DeathOf(r) == r \in Looping /\ Die(r)

GateMoves ==
    \/ Quiet
    \/ \E r \in Requests :
         Admit(r) \/ SuccessOf(r) \/ FailureOf(r) \/ DeathOf(r)

LEMMA SettledFailure ==
    ASSUME BreakerInv, NEW r \in Requests, Settle(r, RecordFailure(breaker))
    PROVE  breaker' = RecordFailure(breaker) /\ probes' = {} /\ died' = FALSE
BY FailureSettles DEF Settle, BreakerInv, FailureCountAgrees

LEMMA SettledSuccess ==
    ASSUME BreakerInv, NEW r \in Requests, Settle(r, Succeeded(breaker))
    PROVE  breaker' = Succeeded(breaker) /\ probes' = {} /\ died' = FALSE
BY SuccessSettles DEF Settle, BreakerInv

LEMMA BackOffIsQuiet ==
    ASSUME PcType, NEW r \in Requests, pc[r] = "upstream", BackOff(r)
    PROVE  Quiet
<1>1. Looping' = Looping
  BY LoopingStays DEF BackOff, InLoop
<1> QED BY <1>1 DEF BackOff, Quiet

LEMMA EveryStepMovesTheGate ==
    ASSUME BreakerInv, PcType, [Next]_vars
    PROVE  GateMoves
<1> USE DEF GateMoves
<1>1. CASE UNCHANGED vars
  BY <1>1 DEF vars, Quiet, Looping
<1>2. CASE Tick
  BY <1>2, TickAgrees DEF Tick, Quiet, Looping, BreakerInv, FailureCountAgrees
<1>3. ASSUME NEW r \in Requests,
             \/ Arrive(r) \/ Acquire(r) \/ AnswerEarly(r) \/ Reject(r)
             \/ BodyStored(r)
      PROVE  Quiet
  <2>1. Looping' = Looping
    <3>1. pc' = [pc EXCEPT ![r] = pc'[r]] /\ pc[r] \notin InLoop /\ pc'[r] \notin InLoop
      BY <1>3 DEF Arrive, Acquire, AnswerEarly, Reject, BodyStored, Leave, InLoop, PcType
    <3> QED BY <3>1, LoopingStays
  <2> QED
    BY <1>3, <2>1 DEF Arrive, Acquire, AnswerEarly, Reject, BodyStored, Quiet
<1>4. ASSUME NEW r \in Requests, Send(r) \/ Wake(r)
      PROVE  Quiet
  <2>1. Looping' = Looping
    BY <1>4, LoopingStays DEF Send, Wake, InLoop
  <2> QED BY <1>4, <2>1 DEF Send, Wake, Quiet
<1>5. ASSUME NEW r \in Requests, ReplyRetry(r)
      PROVE  Quiet
  <2>1. CASE BackOff(r)
    BY <1>5, <2>1, BackOffIsQuiet DEF ReplyRetry
  <2>2. CASE ~BackOff(r)
    <3>1. Looping' = Looping
      BY <1>5, <2>2, LoopingStays DEF ReplyRetry, InLoop
    <3> QED BY <1>5, <2>2, <3>1 DEF ReplyRetry, Quiet
  <2> QED BY <2>1, <2>2
<1>6. ASSUME NEW r \in Requests, ReplyError(r) \/ TimedOut(r)
      PROVE  GateMoves
  <2>1. pc[r] = "upstream" /\ r \in Looping
    BY <1>6 DEF ReplyError, TimedOut, AttemptTimedOut, Looping, InLoop
  <2>2. CASE BackOff(r)
    BY <2>1, <2>2, BackOffIsQuiet
  <2>3. CASE ~BackOff(r)
    <3>1. Settle(r, RecordFailure(breaker)) /\ Leave(r)
      BY <1>6, <2>3 DEF ReplyError, TimedOut
    <3> QED BY <2>1, <3>1, SettledFailure, LoopingLeaves DEF FailureOf
  <2> QED BY <2>2, <2>3
<1>7. ASSUME NEW r \in Requests, Exhausted(r)
      PROVE  FailureOf(r)
  <2>1. Settle(r, RecordFailure(breaker)) /\ Leave(r) /\ r \in Looping
    BY <1>7, ExhaustedIsAFailure
    DEF Exhausted, BreakerInv, FailureCountAgrees, Looping, InLoop
  <2> QED BY <2>1, SettledFailure, LoopingLeaves DEF FailureOf
<1>8. ASSUME NEW r \in Requests, ReplyOk(r) \/ NotModifiedHit(r) \/ NotModifiedMiss(r)
      PROVE  SuccessOf(r)
  <2>1. Settle(r, Succeeded(breaker)) /\ r \in Looping
    BY <1>8 DEF ReplyOk, NotModifiedHit, NotModifiedMiss, Looping, InLoop
  <2>2. CASE Leave(r)
    BY <2>1, <2>2, SettledSuccess, LoopingLeaves DEF SuccessOf
  <2>3. CASE ReplyOk(r) /\ ~Leave(r)
    <3>1. Looping' = Looping \ {r}
      BY <2>3, LoopingExits DEF ReplyOk, InLoop
    <3> QED BY <2>1, <3>1, SettledSuccess DEF SuccessOf
  <2>4. CASE NotModifiedMiss(r)
    <3>1. Looping' = Looping
      BY <2>4, LoopingStays DEF NotModifiedMiss, InLoop
    <3> QED BY <2>1, <3>1, SettledSuccess DEF SuccessOf
  <2> QED BY <1>8, <2>2, <2>3, <2>4 DEF NotModifiedHit
<1>9. ASSUME NEW r \in Requests, PanicInSend(r) \/ PanicInDelay(r)
      PROVE  DeathOf(r)
  BY <1>9 DEF PanicInSend, PanicInDelay, DeathOf, Looping, InLoop
<1> QED
  BY <1>1, <1>2, <1>3, <1>4, <1>5, <1>6, <1>7, <1>8, <1>9 DEF Next, Reply

\* Together with what was proved of the breaker and of the control points, the
\* two probe invariants are inductive.
GateInv ==
    /\ BreakerInv
    /\ PcType
    /\ HalfOpenQuota
    /\ HalfOpenHasProbe

LEMMA ProbesFinite ==
    ASSUME probes \subseteq Looping
    PROVE  IsFiniteSet(probes) /\ Cardinality(probes) \in Nat
<1>1. probes \subseteq Requests
  BY DEF Looping
<1> QED BY <1>1, ProxyAssumption, FS_Subset, FS_CardinalityType

\* A half-open period starts with one probe and admits one more for every
\* attempt it counts.
LEMMA AdmitCountsProbes ==
    ASSUME GateInv, NEW r \in Requests, Admit(r)
    PROVE  HalfOpenQuota' /\ HalfOpenHasProbe'
<1>1. Looping' = Looping \union {r} /\ r \notin Looping
  BY DEF Admit, Looping, InLoop, GateInv, PcType
<1>2. r \notin probes /\ probes' \subseteq Looping'
  BY <1>1 DEF Admit, GateInv, HalfOpenQuota
<1>3. breaker \in Breaker /\ CountAgrees(breaker) /\ CanAttempt(breaker)
  BY DEF Admit, GateInv, BreakerInv, FailureCountAgrees
<1>4. CASE breaker.state = "Closed"
  <2>1. breaker' = breaker /\ probes' = probes /\ died' = died
    BY <1>3, <1>4, AttemptAgrees DEF Admit
  <2> QED
    BY <1>2, <1>4, <2>1 DEF GateInv, HalfOpenQuota, HalfOpenHasProbe, Abandoned
<1>5. CASE breaker.state # "Closed"
  <2>1. breaker'.state = "HalfOpen" /\ probes' = probes \union {r}
    BY <1>3, <1>5, AttemptAgrees DEF Admit
  <2>2. Cardinality(probes') = Cardinality(probes) + 1
    BY <1>2, <2>1, ProbesFinite, FS_AddElement DEF GateInv, HalfOpenQuota
  <2>3. Cardinality(probes') <= breaker'.attempts + 1
    <3>1. CASE breaker.state = "Open"
      <4>1. breaker'.attempts = 0
        BY <3>1 DEF Admit, AfterAttempt, TransitionToHalfOpen
      <4>2. Cardinality(probes) = 0
        BY <3>1, FS_EmptySet DEF GateInv, HalfOpenQuota
      <4> QED BY <2>2, <4>1, <4>2
    <3>2. CASE breaker.state = "HalfOpen"
      <4>1. breaker'.attempts = breaker.attempts + 1
        BY <1>3, <3>2, BreakerAssumption DEF Admit, AfterAttempt, Breaker
      <4>2. breaker.attempts \in Nat
        BY <1>3, BreakerAssumption DEF Breaker
      <4>3. Cardinality(probes) <= breaker.attempts + 1
        BY <3>2 DEF GateInv, HalfOpenQuota
      <4>4. Cardinality(probes) \in Nat
        BY ProbesFinite DEF GateInv, HalfOpenQuota
      <4> QED BY <2>2, <4>1, <4>2, <4>3, <4>4
    <3> QED BY <1>3, <1>5, <3>1, <3>2 DEF Breaker, CircuitState
  <2> QED
    BY <1>2, <2>1, <2>3 DEF HalfOpenQuota, HalfOpenHasProbe, Abandoned
<1> QED BY <1>4, <1>5

LEMMA GateInvStep == GateInv /\ PermitInv /\ [Next]_vars => GateInv'
<1> SUFFICES ASSUME GateInv, PermitInv, [Next]_vars PROVE GateInv'
  OBVIOUS
<1>1. BreakerInv'
  <2>1. BreakerMoves
    BY EveryStepMovesTheBreaker DEF GateInv
  <2>2. breaker' \in Breaker /\ CountAgrees(breaker')
    BY <2>1, FailureSettles, SuccessSettles, AttemptAgrees, TickAgrees
    DEF BreakerMoves, GateInv, BreakerInv, FailureCountAgrees
  <2> QED BY <2>2 DEF BreakerInv, FailureCountAgrees, CountAgrees
<1>2. PcType'
  BY PermitInvStep DEF PermitInv
<1>3. HalfOpenQuota' /\ HalfOpenHasProbe'
  <2>0. GateMoves
    BY EveryStepMovesTheGate DEF GateInv
  <2>1. CASE Quiet
    BY <2>1 DEF Quiet, GateInv, HalfOpenQuota, HalfOpenHasProbe, Abandoned
  <2>2. ASSUME NEW r \in Requests, Admit(r)
        PROVE  HalfOpenQuota' /\ HalfOpenHasProbe'
    BY <2>2, AdmitCountsProbes
  <2>3. ASSUME NEW r \in Requests, SuccessOf(r) \/ FailureOf(r)
        PROVE  HalfOpenQuota' /\ HalfOpenHasProbe'
    <3>1. probes' = {} /\ breaker'.state # "HalfOpen" /\ died' = FALSE
      BY <2>3, SuccessSettles, FailureSettles
      DEF SuccessOf, FailureOf, GateInv, BreakerInv, FailureCountAgrees
    <3> QED BY <3>1 DEF HalfOpenQuota, HalfOpenHasProbe, Abandoned
  <2>4. ASSUME NEW r \in Requests, DeathOf(r)
        PROVE  HalfOpenQuota' /\ HalfOpenHasProbe'
    <3>1. /\ Looping' = Looping \ {r}
          /\ probes' = probes \ {r}
          /\ died' = (died \/ r \in probes)
          /\ breaker' = breaker
      BY <2>4, LoopingLeaves DEF DeathOf, Die, GateInv
    <3>2. Cardinality(probes') <= Cardinality(probes) /\ Cardinality(probes') \in Nat
      BY <3>1, ProbesFinite, FS_Subset, FS_CardinalityType DEF GateInv, HalfOpenQuota
    <3>3. breaker.attempts \in Nat
      BY BreakerAssumption DEF GateInv, BreakerInv, Breaker
    <3>4. HalfOpenQuota'
      <4>1. breaker.state # "HalfOpen" => probes' = {} /\ ~died'
        BY <3>1 DEF GateInv, HalfOpenQuota
      <4>2. probes' \subseteq Looping'
        BY <3>1 DEF GateInv, HalfOpenQuota
      <4>3. breaker.state = "HalfOpen" => Cardinality(probes') <= breaker.attempts + 1
        BY <3>2, <3>3, ProbesFinite DEF GateInv, HalfOpenQuota
      <4> QED BY <3>1, <4>1, <4>2, <4>3 DEF HalfOpenQuota
    <3>5. HalfOpenHasProbe'
      BY <3>1 DEF GateInv, HalfOpenHasProbe, Abandoned
    <3> QED BY <3>4, <3>5
  <2> QED BY <2>0, <2>1, <2>2, <2>3, <2>4 DEF GateMoves
<1> QED BY <1>1, <1>2, <1>3 DEF GateInv

DiedType == died \in BOOLEAN

LEMMA DiedTypeStep == GateInv /\ DiedType /\ [Next]_vars => DiedType'
<1> SUFFICES ASSUME GateInv, DiedType, [Next]_vars PROVE DiedType'
  OBVIOUS
<1> USE DEF DiedType
<1>0. GateMoves
  BY EveryStepMovesTheGate DEF GateInv
<1>1. CASE Quiet
  BY <1>1 DEF Quiet
<1>2. ASSUME NEW r \in Requests, Admit(r) \/ SuccessOf(r) \/ FailureOf(r)
      PROVE  DiedType'
  BY <1>2 DEF Admit, SuccessOf, FailureOf
<1>3. ASSUME NEW r \in Requests, DeathOf(r)
      PROVE  DiedType'
  BY <1>3 DEF DeathOf, Die
<1> QED BY <1>0, <1>1, <1>2, <1>3 DEF GateMoves

LEMMA GateInvInit == Init => GateInv
<1> SUFFICES ASSUME Init PROVE GateInv
  OBVIOUS
<1>1. BreakerInv /\ breaker.state = "Closed" /\ probes = {} /\ ~died
  BY NewBreakerAgrees DEF Init, BreakerInv, FailureCountAgrees, NewBreaker
<1>2. PcType
  BY PermitInvInit DEF PermitInv
<1> QED BY <1>1, <1>2 DEF GateInv, HalfOpenQuota, HalfOpenHasProbe, Abandoned

LEMMA GateInvHolds == Spec => [](GateInv /\ PermitInv)
BY GateInvInit, GateInvStep, PermitInvInit, PermitInvStep, PTL DEF Spec

\* HalfOpenHasProbe: only a panic of one of its own probes can leave a half-open
\* breaker with no probe out to settle it.
THEOREM HalfOpenIsSettled == Spec => []HalfOpenHasProbe
<1>1. GateInv => HalfOpenHasProbe
  BY DEF GateInv
<1> QED BY GateInvHolds, <1>1, PTL

\* HalfOpenQuota: the probes of a half-open period are in their loops, and
\* there are at most as many as it counted, and one.
THEOREM HalfOpenQuotaCorrect == Spec => []HalfOpenQuota
<1>1. GateInv => HalfOpenQuota
  BY DEF GateInv
<1> QED BY GateInvHolds, <1>1, PTL

-----------------------------------------------------------------------------
(* Type correctness. *)

QueueType == queue \in Seq(Requests)

LEMMA QueueTypeStep == QueueType /\ [Next]_vars => QueueType'
<1> SUFFICES ASSUME QueueType, [Next]_vars PROVE QueueType'
  OBVIOUS
<1> USE DEF QueueType
<1>1. CASE UNCHANGED vars \/ Tick
  BY <1>1 DEF vars, Tick
<1>2. ASSUME NEW r \in Requests, Arrive(r)
      PROVE  QueueType'
  BY <1>2 DEF Arrive
<1>3. ASSUME NEW r \in Requests, Acquire(r)
      PROVE  QueueType'
  BY <1>3 DEF Acquire
<1>4. ASSUME NEW r \in Requests,
             \/ AnswerEarly(r) \/ Reject(r) \/ Admit(r) \/ Send(r) \/ Wake(r)
             \/ BodyStored(r) \/ Exhausted(r) \/ PanicInSend(r)
      PROVE  QueueType'
  BY <1>4 DEF AnswerEarly, Reject, Admit, Send, Wake, BodyStored, Exhausted, Settle,
              PanicInSend, Die
<1>5. ASSUME NEW r \in Requests, Reply(r) \/ TimedOut(r)
      PROVE  QueueType'
  BY <1>5 DEF Reply, ReplyRetry, ReplyError, PanicInDelay, Die, ReplyOk, NotModifiedHit,
              NotModifiedMiss, BackOff, TimedOut, Settle
<1> QED BY <1>1, <1>2, <1>3, <1>4, <1>5 DEF Next

\* TypeOK: among the rest, that the quota of half-open attempts, the retries
\* and the permits stay within their bounds.
THEOREM TypeCorrect == Spec => []TypeOK
<1>1. Init => QueueType
  BY DEF Init, QueueType
<1>0. Init => DiedType
  BY DEF Init, DiedType
<1>2. QueueType /\ DiedType /\ BudgetInv /\ GateInv /\ PermitInv => TypeOK
  <2> SUFFICES ASSUME QueueType, DiedType, BudgetInv, GateInv, PermitInv PROVE TypeOK
    OBVIOUS
  <2>1. permits \in 0..PoolSize
    BY HoldersFinite, ProxyAssumption DEF PermitInv, PermitsConserved
  <2>2. probes \subseteq Requests
    BY DEF GateInv, HalfOpenQuota, Looping
  <2> QED
    BY <2>1, <2>2
    DEF TypeOK, QueueType, DiedType, BudgetInv, GateInv, BreakerInv, PcType, CountsType
<1> QED
  BY <1>0, <1>1, <1>2, QueueTypeStep, DiedTypeStep, BudgetInvInit, BudgetInvStep, GateInvHolds, PTL
  DEF Spec

-----------------------------------------------------------------------------
(* Refinement. *)

\* Module Admission counts as this one does.
LEMMA PromiseCounts == \A S : Promise!Cardinality(S) = Cardinality(S)
BY DEF Cardinality, Promise!Cardinality

\* An admission is a pass or a probe: the admitted request holds a permit that
\* no request in the loop holds, and a half-open breaker counted its probes.
LEMMA AdmissionImplemented ==
    ASSUME GateInv, PermitInv, NEW r \in Requests, Admit(r)
    PROVE  Promise!Pass(r) \/ Promise!Probe(r)
<1>1. Looping' = Looping \union {r} /\ r \notin Looping
  BY DEF Admit, Looping, InLoop, GateInv, PcType
<1>2. Cardinality(Looping) < PoolSize
  <2>1. Looping \subseteq Holders \ {r} /\ r \in Holders
    BY DEF Admit, Looping, Holders, HoldsPermit, InLoop
  <2>2. Cardinality(Holders \ {r}) = Cardinality(Holders) - 1 /\ IsFiniteSet(Holders \ {r})
    BY <2>1, HoldersFinite, FS_RemoveElement
  <2>3. Cardinality(Looping) <= Cardinality(Holders \ {r}) /\ Cardinality(Looping) \in Nat
    BY <2>1, <2>2, FS_Subset, FS_CardinalityType
  <2>4. Cardinality(Holders) <= PoolSize
    BY HoldersFinite, ProxyAssumption DEF PermitInv, PermitsConserved
  <2> QED BY <2>2, <2>3, <2>4, HoldersFinite, ProxyAssumption
<1>3. Promise!Enter(r)
  BY <1>1, <1>2, PromiseCounts DEF Promise!Enter
<1>4. breaker \in Breaker /\ CountAgrees(breaker) /\ CanAttempt(breaker)
  BY DEF Admit, GateInv, BreakerInv, FailureCountAgrees
<1>5. CASE breaker.state = "Closed"
  <2>1. breaker' = breaker /\ probes' = probes
    BY <1>4, <1>5, AttemptAgrees DEF Admit
  <2> QED BY <1>3, <1>5, <2>1 DEF Promise!Pass
<1>6. CASE breaker.state # "Closed"
  <2>1. breaker'.state = "HalfOpen" /\ probes' = probes \union {r}
    BY <1>4, <1>6, AttemptAgrees DEF Admit
  <2>2. Cardinality(probes) <= HalfOpenMaxAttempts
    <3>1. CASE breaker.state = "Open"
      BY <3>1, FS_EmptySet, BreakerAssumption DEF GateInv, HalfOpenQuota
    <3>2. CASE breaker.state = "HalfOpen"
      <4>1. breaker.attempts < HalfOpenMaxAttempts /\ breaker.attempts \in Nat
        BY <1>4, <3>2, BreakerAssumption DEF CanAttempt, Breaker
      <4>2. Cardinality(probes) <= breaker.attempts + 1 /\ Cardinality(probes) \in Nat
        BY <3>2, ProbesFinite DEF GateInv, HalfOpenQuota
      <4> QED BY <4>1, <4>2, BreakerAssumption
    <3> QED BY <1>4, <1>6, <3>1, <3>2 DEF Breaker, CircuitState
  <2>3. breaker.state \in {"Open", "HalfOpen"}
    BY <1>4, <1>6 DEF Breaker, CircuitState
  <2> QED BY <1>3, <2>1, <2>2, <2>3, PromiseCounts DEF Promise!Probe
<1> QED BY <1>5, <1>6

LEMMA StepImplemented ==
    ASSUME GateInv, PermitInv, [Next]_vars
    PROVE  [Promise!GateNext]_(Promise!gateVars)
<1>0. GateMoves
  BY EveryStepMovesTheGate DEF GateInv
<1>1. CASE Quiet
  BY <1>1 DEF Quiet, Promise!gateVars
<1>2. ASSUME NEW r \in Requests, Admit(r)
      PROVE  Promise!GateNext
  BY <1>2, AdmissionImplemented DEF Promise!GateNext
<1>3. ASSUME NEW r \in Requests, SuccessOf(r)
      PROVE  Promise!GateNext
  <2>1. breaker'.state = "Closed"
    BY <1>3, SuccessSettles DEF SuccessOf, GateInv, BreakerInv
  <2>2. Promise!Succeed(r)
    BY <1>3, <2>1 DEF SuccessOf, Promise!Succeed
  <2> QED BY <2>2 DEF Promise!GateNext
<1>4. ASSUME NEW r \in Requests, FailureOf(r)
      PROVE  Promise!GateNext
  <2>1. /\ breaker' \in Breaker
        /\ breaker'.state # "HalfOpen"
        /\ breaker.state # "Closed" => breaker'.state = "Open"
    BY <1>4, FailureSettles DEF FailureOf, GateInv, BreakerInv, FailureCountAgrees
  <2>2. Promise!Fail(r)
    BY <1>4, <2>1 DEF FailureOf, Promise!Fail, Breaker, CircuitState
  <2> QED BY <2>2 DEF Promise!GateNext
<1>5. ASSUME NEW r \in Requests, DeathOf(r)
      PROVE  Promise!GateNext
  <2>1. Promise!Vanish(r)
    BY <1>5, LoopingLeaves DEF DeathOf, Die, GateInv, Promise!Vanish
  <2> QED BY <2>1 DEF Promise!GateNext
<1> QED BY <1>0, <1>1, <1>2, <1>3, <1>4, <1>5 DEF GateMoves

LEMMA InitImplemented == Init => Promise!GateInit
<1>1. Init => Looping = {}
  BY DEF Init, Looping, InLoop
<1> QED BY <1>1 DEF Init, Promise!GateInit, NewBreaker

\* KeepsTheGate: the semaphore, the breaker and the retry loop implement module
\* Admission, whichever request dies in a panic, and where.
THEOREM Refinement == Spec => KeepsTheGate
<1>1. GateInv /\ PermitInv /\ [Next]_vars => [Promise!GateNext]_(Promise!gateVars)
  BY StepImplemented
<1> QED
  BY <1>1, InitImplemented, GateInvHolds, PTL DEF Spec, KeepsTheGate, Promise!GateSpec
=============================================================================
