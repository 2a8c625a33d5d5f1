---------------------------- MODULE ProxyRequest ----------------------------
(***************************************************************************)
(* The request handler of src/main.rs (proxy_request, in the task that     *)
(* run_proxy spawns for it) for the requests of one target: the semaphore  *)
(* that bounds concurrency, the admission by the circuit breaker, and the  *)
(* retry loop with its timeouts, whose outcomes settle the breaker.        *)
(*                                                                         *)
(* A request is a slot that is used again: "idle" is a slot with no task.  *)
(* The other control points are the await points of the handler:           *)
(*   queued    waiting for a permit of concurrency_limiter                 *)
(*   checks    holding a permit, before the breaker is asked               *)
(*   loop      at the head of `while retries < max_attempts`               *)
(*   upstream  in timeout(target_timeout, client.request(req))             *)
(*   backoff   in sleep(retry_strategy.delay())                            *)
(*   body      draining a response body for the cache                      *)
(* The breaker's RwLock is never held across an await that suspends, so a  *)
(* locked block is one step.  The task is detached from its connection: a  *)
(* client that goes away cancels nothing.                                  *)
(*                                                                         *)
(* Time is ticks.  A slot keeps the time since the loop began and since    *)
(* its attempt began, both saturating at Timeout, the only value they are  *)
(* compared with.  Nothing forces a timer to fire on time, and a late      *)
(* reply may still beat it.                                                *)
(***************************************************************************)
EXTENDS CircuitBreaker, FiniteSets, Sequences

CONSTANTS Requests,         \* slots for concurrent requests
          PoolSize,         \* server.pool_size
          MaxAttempts,      \* max_attempts of the retry strategy
          Timeout,          \* target_timeout, in ticks
          CacheConfigured   \* the target has a cache_config

ASSUME ProxyAssumption ==
    /\ IsFiniteSet(Requests)
    /\ PoolSize \in Nat
    /\ MaxAttempts \in Nat
    /\ Timeout \in Nat
    /\ CacheConfigured \in BOOLEAN

VARIABLES pc,        \* where each request is
          queue,     \* the FIFO of tokio's semaphore
          permits,   \* its free permits
          retries,   \* the loop's counter
          elapsed,   \* time since start_time of the loop
          waited,    \* time since this attempt was sent (0 when none is out)
          breaker,   \* the breaker of target_urls[0]
          probes,    \* history: unsettled requests admitted in this half-open period
          died,      \* history: one of them was lost in a panic
          sends,     \* history: attempts sent upstream, saturating at MaxAttempts + 2
          missed     \* history: a 304 came for an entry the cache does not have

vars == <<pc, queue, permits, retries, elapsed, waited, breaker, probes, died,
          sends, missed>>

InLoop      == {"loop", "upstream", "backoff"}
HoldsPermit == InLoop \union {"checks", "body"}

Looping == {r \in Requests : pc[r] \in InLoop}
Holders == {r \in Requests : pc[r] \in HoldsPermit}

Init ==
    /\ pc      = [r \in Requests |-> "idle"]
    /\ queue   = <<>>
    /\ permits = PoolSize
    /\ retries = [r \in Requests |-> 0]
    /\ elapsed = [r \in Requests |-> 0]
    /\ waited  = [r \in Requests |-> 0]
    /\ breaker = NewBreaker
    /\ probes  = {}
    /\ died    = FALSE
    /\ sends   = [r \in Requests |-> 0]
    /\ missed  = [r \in Requests |-> FALSE]

-----------------------------------------------------------------------------
(* The way to the loop. *)

\* A validated request, its body drained, asks for a permit.
Arrive(r) ==
    /\ pc[r] = "idle"
    /\ pc' = [pc EXCEPT ![r] = "queued"]
    /\ queue' = Append(queue, r)
    /\ UNCHANGED <<permits, retries, elapsed, waited, breaker, probes, died, sends, missed>>

\* Permits are handed out in the order they were asked for.
Acquire(r) ==
    /\ pc[r] = "queued"
    /\ queue # <<>>
    /\ Head(queue) = r
    /\ permits > 0
    /\ pc' = [pc EXCEPT ![r] = "checks"]
    /\ queue' = Tail(queue)
    /\ permits' = permits - 1
    /\ UNCHANGED <<retries, elapsed, waited, breaker, probes, died, sends, missed>>

\* Mutant: only the paths through the loop give the permit back.
LeaveKeepingPermit(r) ==
    /\ pc' = [pc EXCEPT ![r] = "idle"]
    /\ permits' = IF pc[r] = "checks" THEN permits ELSE permits + 1
    /\ retries' = [retries EXCEPT ![r] = 0]
    /\ elapsed' = [elapsed EXCEPT ![r] = 0]
    /\ waited' = [waited EXCEPT ![r] = 0]
    /\ sends' = [sends EXCEPT ![r] = 0]
    /\ missed' = [missed EXCEPT ![r] = FALSE]

\* The handler returns, or its task dies: _permit is dropped either way, and
\* the slot is as good as new.
Leave(r) ==
    /\ pc' = [pc EXCEPT ![r] = "idle"]
    /\ permits' = permits + 1
    /\ retries' = [retries EXCEPT ![r] = 0]
    /\ elapsed' = [elapsed EXCEPT ![r] = 0]
    /\ waited' = [waited EXCEPT ![r] = 0]
    /\ sends' = [sends EXCEPT ![r] = 0]
    /\ missed' = [missed EXCEPT ![r] = FALSE]

\* /health, /metrics, /rate-limiter-status, a static file, no target, rate
\* limited, unauthorized, or a fresh cache entry: no word to the breaker.
AnswerEarly(r) ==
    /\ pc[r] = "checks"
    /\ Leave(r)
    /\ UNCHANGED <<queue, breaker, probes, died>>

\* can_attempt says no: 503 "circuit breaker is open".
Reject(r) ==
    /\ pc[r] = "checks"
    /\ ~CanAttempt(breaker)
    /\ Leave(r)
    /\ UNCHANGED <<queue, breaker, probes, died>>

Admit(r) ==
    /\ pc[r] = "checks"
    /\ CanAttempt(breaker)
    /\ breaker' = AfterAttempt(breaker)
    /\ probes' = IF breaker.state = "Closed" THEN probes ELSE probes \union {r}
    /\ pc' = [pc EXCEPT ![r] = "loop"]
    /\ UNCHANGED <<queue, permits, retries, elapsed, waited, died, sends, missed>>

-----------------------------------------------------------------------------
(* The retry loop. *)

\* One turn of the loop: pick a target, rebuild the request and send it.
Send(r) ==
    /\ pc[r] = "loop"
    /\ retries[r] < MaxAttempts
    /\ pc' = [pc EXCEPT ![r] = "upstream"]
    /\ sends' = [sends EXCEPT ![r] = IF @ < MaxAttempts + 2 THEN @ + 1 ELSE @]
    /\ UNCHANGED <<queue, permits, retries, elapsed, waited, breaker, probes, died, missed>>

\* The task dies between can_attempt and any word to the breaker, and
\* run_proxy answers 500: a probe is lost unsettled.
Die(r) ==
    /\ died' = (died \/ r \in probes)
    /\ probes' = probes \ {r}
    /\ Leave(r)
    /\ UNCHANGED <<queue, breaker>>

\* get_target panics (weights that do not fit the urls, a counter that
\* overflows), or rebuild_request's expect("Invalid URI") does.
PanicInSend(r) ==
    /\ pc[r] = "loop"
    /\ retries[r] < MaxAttempts
    /\ Die(r)

\* The breaker after a settled outcome; a half-open period that ends takes its
\* probes with it.
Settle(r, cb) ==
    /\ breaker' = cb
    /\ probes' = IF cb.state = "HalfOpen" THEN probes \ {r} ELSE {}
    /\ died' = (died /\ cb.state = "HalfOpen")

\* What the handler tells the breaker about a reply that is not retried.
Succeeded(cb) ==
    IF cb.state = "HalfOpen" THEN TransitionToClosed(cb) ELSE RecordSuccess(cb)

\* Mutant: an attempt that will be retried is not counted.
BackOffUncounted(r) ==
    /\ waited' = [waited EXCEPT ![r] = 0]
    /\ pc' = [pc EXCEPT ![r] = "backoff"]
    /\ UNCHANGED <<queue, permits, retries, elapsed, breaker, probes, died, sends, missed>>

\* Sleep before the next attempt, when the strategy's delay() returns.
BackOff(r) ==
    /\ retries' = [retries EXCEPT ![r] = @ + 1]
    /\ waited' = [waited EXCEPT ![r] = 0]
    /\ pc' = [pc EXCEPT ![r] = "backoff"]
    /\ UNCHANGED <<queue, permits, elapsed, breaker, probes, died, sends, missed>>

\* One of retry_statuses.  The last one goes back to the loop's head, which
\* ends the loop.
ReplyRetry(r) ==
    /\ pc[r] = "upstream"
    /\ \/ /\ retries[r] + 1 < MaxAttempts
          /\ BackOff(r)
       \/ /\ retries[r] + 1 >= MaxAttempts
          /\ retries' = [retries EXCEPT ![r] = @ + 1]
          /\ waited' = [waited EXCEPT ![r] = 0]
          /\ pc' = [pc EXCEPT ![r] = "loop"]
          /\ UNCHANGED <<queue, permits, elapsed, breaker, probes, died, sends, missed>>

\* The connection failed: Ok(Err(err)).
ReplyError(r) ==
    /\ pc[r] = "upstream"
    /\ \/ /\ retries[r] + 1 < MaxAttempts
          /\ BackOff(r)
       \/ /\ retries[r] + 1 >= MaxAttempts
          /\ Settle(r, RecordFailure(breaker))
          /\ Leave(r)
          /\ UNCHANGED queue

\* delay() panics after a failed attempt: gen_range over an empty range, or
\* seconds that overflow in a late attempt.
PanicInDelay(r) ==
    /\ pc[r] = "upstream"
    /\ retries[r] + 1 < MaxAttempts
    /\ Die(r)

\* Any other status but 304.  With a cache the body is drained first, after
\* the breaker has been told and outside the timeout.
ReplyOk(r) ==
    /\ pc[r] = "upstream"
    /\ Settle(r, Succeeded(breaker))
    /\ IF CacheConfigured
       THEN /\ pc' = [pc EXCEPT ![r] = "body"]
            /\ waited' = [waited EXCEPT ![r] = 0]
            /\ UNCHANGED <<permits, retries, elapsed, sends, missed>>
       ELSE Leave(r)
    /\ UNCHANGED queue

BodyStored(r) ==
    /\ pc[r] = "body"
    /\ Leave(r)
    /\ UNCHANGED <<queue, breaker, probes, died>>

\* A 304 the cache can answer ...
NotModifiedHit(r) ==
    /\ pc[r] = "upstream"
    /\ CacheConfigured
    /\ Settle(r, Succeeded(breaker))
    /\ Leave(r)
    /\ UNCHANGED queue

\* ... and one it cannot: the branch falls through to the next turn of the
\* loop, with no attempt counted and no delay.
NotModifiedMiss(r) ==
    /\ pc[r] = "upstream"
    /\ Settle(r, Succeeded(breaker))
    /\ pc' = [pc EXCEPT ![r] = "loop"]
    /\ missed' = [missed EXCEPT ![r] = TRUE]
    /\ waited' = [waited EXCEPT ![r] = 0]
    /\ UNCHANGED <<queue, permits, retries, elapsed, sends>>

\* The attempt's timer has run out.
AttemptTimedOut(r) == pc[r] = "upstream" /\ waited[r] = Timeout

\* The code asks whether the whole loop is over its time; if not it would
\* retry the attempt.  (The loop is never younger than its attempt: the ELSE
\* is dead, see TimeoutIsFinal in ProxyRequestProofs.)
TimedOut(r) ==
    /\ AttemptTimedOut(r)
    /\ IF elapsed[r] >= Timeout \/ retries[r] + 1 >= MaxAttempts
       THEN /\ Settle(r, RecordFailure(breaker))
            /\ Leave(r)
            /\ UNCHANGED queue
       ELSE BackOff(r)

Wake(r) ==
    /\ pc[r] = "backoff"
    /\ pc' = [pc EXCEPT ![r] = "loop"]
    /\ UNCHANGED <<queue, permits, retries, elapsed, waited, breaker, probes, died, sends, missed>>

\* The loop ends: 503 "maximum retries exceeded".
Exhausted(r) ==
    /\ pc[r] = "loop"
    /\ retries[r] >= MaxAttempts
    /\ LET counted == RecordFailure(breaker)
       IN  Settle(r, IF counted.state = "HalfOpen" THEN TransitionToOpen(counted) ELSE counted)
    /\ Leave(r)
    /\ UNCHANGED queue

-----------------------------------------------------------------------------
\* The clock of every timer, while one of them has time left to count.
Tick ==
    /\ \/ breaker.openFor > 0
       \/ \E r \in Looping : elapsed[r] < Timeout
       \/ \E r \in Requests : pc[r] = "upstream" /\ waited[r] < Timeout
    /\ breaker' = BreakerTick(breaker)
    /\ elapsed' = [r \in Requests |->
                     IF pc[r] \in InLoop /\ elapsed[r] < Timeout
                     THEN elapsed[r] + 1 ELSE elapsed[r]]
    /\ waited' = [r \in Requests |->
                     IF pc[r] = "upstream" /\ waited[r] < Timeout
                     THEN waited[r] + 1 ELSE waited[r]]
    /\ UNCHANGED <<pc, queue, permits, retries, probes, died, sends, missed>>

\* What the upstream decides, and when.
Reply(r) ==
    \/ ReplyRetry(r) \/ ReplyError(r) \/ PanicInDelay(r)
    \/ ReplyOk(r) \/ NotModifiedHit(r) \/ NotModifiedMiss(r)

Next ==
    \/ \E r \in Requests :
         \/ Arrive(r) \/ Acquire(r)
         \/ AnswerEarly(r) \/ Reject(r) \/ Admit(r)
         \/ Send(r) \/ PanicInSend(r) \/ Exhausted(r)
         \/ Reply(r) \/ TimedOut(r) \/ Wake(r) \/ BodyStored(r)
    \/ Tick

Spec == Init /\ [][Next]_vars

\* The runtime schedules every task that can run, and the clock advances.
\* Clients need not call, and neither a reply nor the end of a body need come.
Fairness ==
    /\ \A r \in Requests :
         /\ WF_vars(Acquire(r))
         /\ WF_vars(AnswerEarly(r) \/ Reject(r) \/ Admit(r))
         /\ WF_vars(Send(r) \/ PanicInSend(r) \/ Exhausted(r))
         /\ WF_vars(TimedOut(r))
         /\ WF_vars(Wake(r))
    /\ WF_vars(Tick)

FairSpec == Spec /\ Fairness

-----------------------------------------------------------------------------
(* Safety. *)

TypeOK ==
    /\ pc \in [Requests -> HoldsPermit \union {"idle", "queued"}]
    /\ queue \in Seq(Requests)
    /\ permits \in 0..PoolSize
    /\ retries \in [Requests -> 0..MaxAttempts]
    /\ elapsed \in [Requests -> 0..Timeout]
    /\ waited \in [Requests -> 0..Timeout]
    /\ breaker \in Breaker
    /\ probes \subseteq Requests
    /\ died \in BOOLEAN
    /\ sends \in [Requests -> 0..MaxAttempts + 2]
    /\ missed \in [Requests -> BOOLEAN]

\* failure_count and state tell one story: a breaker that is not Closed has
\* max_failures on its count however long ago it tripped, which is what makes
\* the very next failure trip it again, and a Closed one has not reached it.
FailureCountAgrees == CountAgrees(breaker)

\* A half-open breaker that no request in the loop is going to settle.
Abandoned == breaker.state = "HalfOpen" /\ probes = {}

\* A half-open breaker has a request that it admitted in its loop, to settle it,
\* unless one of those of this very period died in a panic: nothing else takes
\* a probe away without a word to the breaker.
HalfOpenHasProbe == Abandoned => died

\* The requests a half-open breaker has out are exactly the ones it counted,
\* and the one that ended the Open period, which it did not count: at most
\* half_open_attempts + 1 together.
HalfOpenQuota ==
    /\ probes \subseteq Looping
    /\ breaker.state # "HalfOpen" => probes = {} /\ ~died
    /\ breaker.state = "HalfOpen" => Cardinality(probes) <= breaker.attempts + 1

\* Every path out of the handler, panics included, gives the permit back
\* exactly once, so the requests past the semaphore and the free permits
\* always make pool_size.
PermitsConserved == permits + Cardinality(Holders) = PoolSize

\* Until a 304 misses the cache, a request is sent at most max_attempts times,
\* and only a request whose attempts are all spent is given up on.
BudgetUnlessMissed ==
    \A r \in Requests : ~missed[r] =>
        /\ sends[r] <= MaxAttempts
        /\ pc[r] = "loop" /\ retries[r] >= MaxAttempts => sends[r] = MaxAttempts

-----------------------------------------------------------------------------
(* Liveness. *)

\* Whatever the upstream does and whoever panics, there is again and again a
\* moment at which the breaker admits a request: only a half-open period whose
\* last probe died in a panic can shut it for good.
BreakerAdmitsAgain == []<>CanAttempt(breaker) \/ <>[](Abandoned /\ died)

\* The two ways the code lets an upstream hold a request for ever.
MissesStop == <>[][\A r \in Requests : ~NotModifiedMiss(r)]_vars
BodiesEnd  == \A r \in Requests : []<>(pc[r] # "body")

\* Otherwise every request that waits for a permit is answered, whether or not
\* the upstream ever replies to anything.
EveryRequestAnswered ==
    MissesStop /\ BodiesEnd => \A r \in Requests : pc[r] = "queued" ~> pc[r] = "idle"

-----------------------------------------------------------------------------
(* Refinement. *)

Promise == INSTANCE Admission WITH
    Clients    <- Requests,
    Limit      <- PoolSize,
    Quota      <- HalfOpenMaxAttempts,
    gate       <- breaker.state,
    inflight   <- Looping,
    candidates <- probes

\* The semaphore, the breaker and the retry loop together keep the gate of
\* module Admission: every admission is a pass or a probe within the quota,
\* every answered request settles the breaker, and a task that dies leaves it
\* as it is.
KeepsTheGate == Promise!GateSpec
=============================================================================
