--------------------------- MODULE CircuitBreaker ---------------------------
(***************************************************************************)
(* The circuit breaker of src/circuit_breaker.rs: one value, changed only  *)
(* under the write lock of the RwLock that proxy_request keeps it in, so   *)
(* every method is one atomic function from breaker to breaker.            *)
(*                                                                         *)
(* Two abstractions of data.  open_until is the time left until it: openFor *)
(* ticks down to 0, and now >= open_until is openFor = 0.  failure_count is *)
(* only ever compared with max_failures, so it saturates there.            *)
(* last_attempt is written and never read, and is left out.                *)
(***************************************************************************)
EXTENDS Naturals

CONSTANTS MaxFailures,          \* max_failures
          ResetTimeout,         \* reset_timeout_seconds, in ticks
          HalfOpenMaxAttempts   \* half_open_attempts of the configuration

ASSUME BreakerAssumption ==
    /\ MaxFailures \in Nat
    /\ ResetTimeout \in Nat
    /\ HalfOpenMaxAttempts \in Nat

CircuitState == {"Closed", "Open", "HalfOpen"}

Breaker == [state    : CircuitState,
            failures : 0..MaxFailures,
            openFor  : 0..ResetTimeout,
            attempts : 0..HalfOpenMaxAttempts]

\* failure_count and state tell one story (the part of FailureCountAgrees that
\* is about one breaker).
CountAgrees(cb) ==
    /\ cb.state # "Closed" => cb.failures = MaxFailures
    /\ cb.state = "Closed" /\ MaxFailures > 0 => cb.failures < MaxFailures

NewBreaker == [state |-> "Closed", failures |-> 0, openFor |-> 0, attempts |-> 0]

TransitionToClosed(cb) ==
    [state |-> "Closed", failures |-> 0, openFor |-> cb.openFor, attempts |-> 0]

TransitionToOpen(cb) ==
    [state |-> "Open", failures |-> cb.failures, openFor |-> ResetTimeout, attempts |-> 0]

\* Mutant: half-open starts from a clean failure count.
ForgetFailuresAtHalfOpen(cb) ==
    [state |-> "HalfOpen", failures |-> 0, openFor |-> cb.openFor, attempts |-> 0]

TransitionToHalfOpen(cb) ==
    [state |-> "HalfOpen", failures |-> cb.failures, openFor |-> cb.openFor, attempts |-> 0]

\* A success closes the breaker from any state, Open included.
RecordSuccess(cb) ==
    [state |-> "Closed", failures |-> 0, openFor |-> cb.openFor, attempts |-> 0]

\* Mutant: the comparison with max_failures is strict.
TripTooLate(cb) ==
    IF cb.failures = MaxFailures
    THEN TransitionToOpen(cb)
    ELSE [cb EXCEPT !.failures = @ + 1]

RecordFailure(cb) ==
    LET counted == [cb EXCEPT !.failures = IF @ < MaxFailures THEN @ + 1 ELSE @]
    IN  IF counted.failures >= MaxFailures THEN TransitionToOpen(counted) ELSE counted

\* Mutant: the comparison with half_open_max_attempts is not strict.
CanAttemptOnceMore(cb) ==
    \/ cb.state = "Closed"
    \/ cb.state = "Open" /\ cb.openFor = 0
    \/ cb.state = "HalfOpen" /\ cb.attempts <= HalfOpenMaxAttempts

\* What can_attempt answers ...
CanAttempt(cb) ==
    \/ cb.state = "Closed"
    \/ cb.state = "Open" /\ cb.openFor = 0
    \/ cb.state = "HalfOpen" /\ cb.attempts < HalfOpenMaxAttempts

\* Mutant: the quota is tested and never used up.
ProbeUncounted(cb) ==
    IF cb.state = "Open" THEN TransitionToHalfOpen(cb) ELSE cb

\* Mutant: the request that ends the Open period leaves the breaker open.
AttemptStaysOpen(cb) ==
    IF cb.state = "HalfOpen" THEN [cb EXCEPT !.attempts = @ + 1] ELSE cb

\* ... and the breaker it leaves when the answer is yes.  The request that
\* ends the Open period is not counted against half_open_max_attempts.
AfterAttempt(cb) ==
    CASE cb.state = "Closed"   -> cb
      [] cb.state = "Open"     -> TransitionToHalfOpen(cb)
      [] cb.state = "HalfOpen" -> [cb EXCEPT !.attempts = @ + 1]

\* One tick of the clock, seen from open_until.
BreakerTick(cb) ==
    [cb EXCEPT !.openFor = IF @ > 0 THEN @ - 1 ELSE 0]
=============================================================================
