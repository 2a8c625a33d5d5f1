# road7 in TLA+

road7 is an asynchronous HTTP reverse proxy (Rust, tokio, hyper). This directory
holds TLA+ specifications of its stateful parts, the TLC configurations that check
them on small instances, and proofs for TLAPS that carry the most important results
over to every value of the constants. File and line references are to the repository
as found under `src/` (so the handler is `src/src/main.rs`).

    tlc -workers 2 -config ProxyRequest.cfg MCProxyRequest     # a run
    tlapm ProxyRequestProofs.tla                               # a proof

`PROJECT.json` lists the components, runs, mutants, theorems, findings, the hazards the
properties are aimed at, and for each definition the lines it models.

## 1. The system

A request comes in through hyper, which calls the service closure of `run_proxy`
(main.rs:176). The closure spawns a detached task for it; the task counts the request
in, asks the bot detector, and calls `proxy_request` (main.rs:260), which validates the
request, waits for a permit of the concurrency semaphore, and then passes it through,
in this order: the built-in endpoints, static files, target lookup, the rate limiter,
authentication, the response cache, the circuit breaker, and the retry loop around the
upstream call (load balancer, request rebuilding, two time-outs, retry strategy, cache
revalidation and storage). Then the task counts the request out.

Everything shared is in one `ProxyState` behind an `Arc`: maps (`DashMap`) of targets,
circuit breakers and caches, the balancer and limiters behind tokio locks, the
semaphore, an atomic counter of ongoing requests, and Prometheus metrics. There are no
messages between components; they interact by calls and by this shared state, and by
the background tasks that the caches (one cleaner each) and the rate limiters (one
refill task each) spawn. Nothing is persisted, so there is no crash recovery.

### Inventory

| Component | Source | State | Operations | What is hard | What makes it correct | Module |
|---|---|---|---|---|---|---|
| Request handler | main.rs:260-638 | semaphore, per request: retries, two timers | admit, send, retry, time out, answer | interleaving of requests; time-outs against late answers; some twenty ways out; panics between the breaker's admission and its verdict | permits conserved, attempts bounded, every request answered | `ProxyRequest` |
| Circuit breaker | circuit_breaker.rs | state, failure count, `open_until`, half-open attempts | `can_attempt`, `record_success`, `record_failure`, transitions | outcomes of requests let through in an earlier state; probes that are never settled | count and state agree, probes within the quota, never shut for good | `CircuitBreaker`, `Admission` |
| Response cache | cache.rs, main.rs:397-440, 458-467, 519-560 | two levels of DashMap, entries with a mutex and an expiry | `get`, `put`, creation, cleaner | shard locks that block threads, held across async mutexes; cleaner against put; few worker threads | no deadlock, expired entries go | `ResponseCache`, `CacheThreads` |
| Load balancer | load_balancer.rs | counters per path, connection counts per URL | `get_target` for seven algorithms | counters shared by requests, retries and nested paths; weights that do not fit | each algorithm shares out as it promises | `LoadBalancer` |
| Target lookup | main.rs:640-718 | map of targets | `find_target` | prefix matches in hash order; routing header | the path is cut for the target that was found, the URL is that target's or an explained exception | `Dispatch` |
| Retry strategies | retry.rs | attempt number, Fibonacci pair | `delay`, `to_strategy` | panics on empty ranges and negative products, factors that shrink the delay; state per request | sleeps follow the strategy's law | `RetryStrategies` |
| Rate limiter | rate_limiter.rs:9-107 | tokens and two instants, a lock each | `acquire`, `status`, refill, `shutdown` | nested locks; status read in three pieces; lost notification; a refill task that panics at once | a token bucket | `RateLimiter`, `TokenBucket` |
| Limiter manager | rate_limiter.rs:113-171, main.rs:92-121 | map of limiters | `get_limiter`, `add_limiter`, `get_all_statuses`, `shutdown` | prefix match in hash order; replaced limiters whose task goes on; requests during and after the shutdown | limits hold, limiters in use are refilled | `Limiters` |
| Lifecycle, metrics | main.rs:61-258, metrics.rs, state.rs | ongoing counter, gauge, totals | count in, count out, shutdown | tasks that never count out; requests during the drain | counter exact, gauge does not drift, drain waits, server stops | `Lifecycle` |
| Cache contents | cache.rs:50-105, 143-164, 190-206 | entry: status, body, headers, ETag, Vary | key, store, match, revalidate | keys built in two places; entries replaced between validators and 304; three places that put an answer together | the right entry for the request, and the answer it stands for | `Headers`, `Exchange` |
| Rebuilding, transforms | main.rs:720-781, transform.rs | none | headers set, removed, appended | order of transforms; attempts built from the same original | attempts alike, nothing applied twice | `Headers`, `Exchange` |
| Security headers, CORS | security_headers.rs, main.rs:566-580 | none | add headers | fresh and cached answers take them from different places | cached answers like fresh ones | `Headers`, `Exchange` |
| Validation | validate.rs | none | refuse | drains the body of what it validates | - | its effect in `Exchange`, its refusal in `Lifecycle` |
| Authentication | auth/ | none | basic, JWT | cryptography is external | - | not modelled |
| Bot detector | bot_detector.rs | none | refuse | - | - | an outcome in `Lifecycle` |
| Proxy state, static files | state.rs | set once | builder, file reads | - | - | not modelled |
| Configuration, errors | config.rs, error.rs | none | deserialize, map to a status | - | - | not modelled |

## 2. The modules

    CircuitBreaker <- ProxyRequest <- MCProxyRequest        ProxyRequest => Admission
    ResponseCache  <- MCResponseCache
    ResponseCache  <- CacheThreads <- MCCacheThreads
    RateLimiter                                             RateLimiter  => TokenBucket
    Limiters       <- MCLimiters
    LoadBalancer, RetryStrategies <- Dispatch <- MCDispatch
    Headers        <- Exchange <- MCExchange
    Lifecycle      <- MCLifecycle

`<-` is EXTENDS, `=>` is "implements" (INSTANCE ... WITH). `XProofs` extends `X` and TLAPS.
A definition headed *Mutant:* is a plausible bug, an alternative body for the definition
below it that makes some property fail; no specification uses it.

**CircuitBreaker** is the breaker as a value. Every method is a function from breaker to
breaker, because the code changes it only under the write lock. `open_until` becomes the
ticks left until it, and `failure_count` saturates at `max_failures`, with which alone it
is compared.

**ProxyRequest** is `proxy_request` for the requests of one target. `pc[r]` is the await
point where the task of slot `r` is suspended: `queued` (semaphore), `checks`, `loop`,
`upstream` (`timeout(client.request)`), `backoff` (`sleep`), `body` (draining a body to be
cached). An action is the code from one await that can suspend to the next. `retries`,
`elapsed` and `waited` are the loop's counter and its two clocks; `probes`, `died`, `sends` and
`missed` are history variables. Three calls between the breaker's admission and its verdict can
panic, and the task then dies without a word to the breaker (`Die`): `get_target`
(load_balancer.rs:125, 155) and `rebuild_request` (`expect("Invalid URI")`, main.rs:735) in
`PanicInSend`, and `delay()` in `PanicInDelay`. A probe that dies so is remembered in `died`
until its half-open period ends. The task is detached, so a client that goes away cancels
nothing. The ways out of the handler before the breaker is asked are one action,
`AnswerEarly`, because they differ in nothing this module keeps.

**Admission** is what a caller may rely on of all that: a gate that is Closed, Open or
HalfOpen, those in flight, and those of them that are probes. A client may vanish (`Vanish`)
and leaves the gate as it is, so that a gate can stay half-open with no probe. `KeepsTheGate` says that
`ProxyRequest` implements it, with the loop as "in flight".

**ResponseCache** is the map of caches, the caches and the locks. Who holds which lock
follows from where the processes are (`OuterReader`, `OuterWriter`, `InnerReader`,
`EntryLocked`), so no lock is a variable. A cache only ever holds the entry of its own
key, because main.rs:553 makes one cache per key. Each key stands for its cleaner too.
The same lookup is made up to four times for a request (`why`): to serve, again with the
key its Vary asks for, for validators, and to revalidate after a 304. A hit that is being
answered awaits the metrics' tasks with its references in hand (point `answer`). Between the
lookup to serve and the one for validators the circuit breaker may reject the request (`Missed`).

**CacheThreads** puts these processes on the worker threads of the runtime. `running` is the
set of those that have a worker: a process takes a step on a worker it has or that is free,
and comes back to `Suspended` points without one; a process that waits for a shard, or for an
entry inside `block_on`, keeps its worker. tokio hands a mutex to the task that waits for it
whether or not a worker is free to run that task (`HandOver`).

**RateLimiter** is one limiter with its three locks, callers of `acquire` and `status`,
the refill task and `shutdown`. `new()` accepts a `period / max_rate` of 0, on which
`time::interval` panics in the refill task it has spawned (rate_limiter.rs:54-56): the task is
`"panicked"` from the start then, and the limiter is used without it. An `Instant` is the number of
the event it was taken at.
**TokenBucket** is the abstract bucket, in which an acquire is one step.

**Limiters** is `RateLimiterManager`: the `add_limiter` calls of `run_proxy` in their order,
`get_limiter` by exact path and then by the first prefix in the order of the hash map, the buckets,
their refill tasks and the shutdown that notifies them one by one while requests still come. A
bucket's operations are single steps here, which is what `IsTokenBucket` allows. A limiter is
known by the number of the call that made it, so that a limiter that a later one for the same
path has replaced can be told from it. One whose configured interval is 0 is never refilled
(`NeverRefilled`).

**LoadBalancer** has one operator per algorithm and `GetTarget` for `get_target`, with the
fall through to the next path when an arm ends without a URL, and the panics on weights
that do not fit. **RetryStrategies** has `ToStrategy`, `DelayOutcomes` and `Stepped`, as
functions of a strategy. A factor or a jitter is a fraction, of any sign and on either side of
1, and a delay is a whole number of grains of a second, to which a product is rounded, halves to
even, as `Duration::mul_f64` rounds to nanoseconds. **Dispatch** composes them: `find_target`,
then in each turn of the loop the balancer, the rebuilt path (which may be no URI together with
the URL, `NoUris`, and then ends the task), and `delay()`, or for a 304 without an entry another turn
at once (`NotModified`). The order in which a hash map
is iterated is a variable chosen at the start and never changed, one for each of the two
maps that are searched independently.

**Headers** holds what becomes of header maps, as functions: transforms, `rebuild_request`, CORS
and security headers, `create_cache_key`, `CacheEntry::from_response` and the answer a hit
makes. **Exchange** is the data of `proxy_request` around it: a client's request, the lookup,
the validators, the rebuilt and transformed request of each attempt, servers whose
representation changes and may depend on a header, bodies that break off and count as empty
(main.rs:549), the entry that is stored (`entries` has the keys
that have one as its domain), 304s, and the
cleaner's removals. Time is the ticks an entry has left. Each request goes from await to await
as in `ProxyRequest`, whose retries it keeps; a lookup is one step, and one that meets an expired
entry has no step, because it never returns (`ExpiredGetFreezesKey`). `fresh` and `origin` in an
entry are history: the answer that was given when it was stored, and to what.

**Lifecycle** is `run_proxy`: the task around `proxy_request` with the counter and the gauge
of ongoing requests, CTRL+C, the polling of the counter, and hyper's graceful end. A task that has
been spawned is not counted until its first step (`spawned`, main.rs:184-185). `proxy_request` is only
where it sets the gauge, answers or panics, and need not return. A connection whose client has gone
does not hold hyper up (`CloseOnTasks`). `awaited` is history: the requests that were counted in when
CTRL+C came and have not been counted out or lost since.

## 3. The runs

Deadlock is checked unless said otherwise.

**proxy_request** (three requests, two permits, two attempts, two failures to trip, two counted
half-open attempts, a reset and a time-out of one tick; every panic, and safety and liveness in one
run, so without symmetry). Two permits and three requests let one queue while two are in the loop in
every combination: a failure and a late success, two probes of one half-open period, a probe and one
that dies. Two half-open attempts are what tells the quota from the number of successes that close the
breaker (one, see below). The time-outs are only compared with, so one tick gives both orders of
expiry. Larger numbers are covered by the proofs of all the safety properties. It shows:
`FailureCountAgrees` (a breaker that is not Closed has `max_failures` on its count, which
is what makes the next failure trip it again); `HalfOpenHasProbe` (a half-open breaker has a probe
out, unless one of this very period died in a panic); `HalfOpenQuota` (the probes out are those
counted, and one more); `PermitsConserved`; `BudgetUnlessMissed`; and `KeepsTheGate`.
`BreakerAdmitsAgain`: the breaker is never shut for good, whatever the upstream does and whoever
panics, unless the last probe of a half-open period died. `EveryRequestAnswered`: every request that
waits for a permit is answered, provided 304s that miss the cache do not go on for ever and bodies end,
which are the two ways the code lets an upstream hold a request.

**response_cache** (two tasks, two keys in one shard, a TTL of one tick; deadlock not
checked, because the code does deadlock). Two tasks and two cleaners are enough for every
pair of lock holders, and one shard makes both keys contend. `ExpiredGetFreezesKey`: a get
that finds its entry expired never returns and no other task changes the entry again.
`NoOtherDeadlock`: in behaviours without such a get no task waits for ever, so it is the
only deadlock. `ExpiredEntriesGo`: there, expired entries are swept or replaced.

**cache_threads** (three tasks, two keys in one shard, two workers; deadlock not checked, because
workers do freeze). Three tasks are one more than the workers, so that one can hold a lock
without a worker while both are blocked; with two cleaners all pairs of what can block
a worker occur. `FreezeIsForGood`: once every worker is blocked, that is how it stays.
`WorkersWaitForSuspended`: leaving aside the expired get, it only happens when a task that
holds a shard across an await, or has been handed the mutex of an entry, has no worker to go on
with. So the remedy is to hold no reference across an await; the order of the locks is sound.

**rate_limiter** (capacity 1 and burst 1, two callers, one viewer, four grants, three
refills, and a refill task that runs or that the interval of 0 has killed). A bucket of two can be
empty, partly and wholly full; the bounds let it empty, refill and empty again. `IsTokenBucket`,
`GrantsArePaidFor`, `StatusAccountsForMissing`,
`LastAcquireAdvances`, and for liveness `EveryCallReturns` and `EmptyBucketRefills`, the last one
for a limiter that has its refill task.

**limiters** (a target with a limit of its own and one for an endpoint, a nested target that sets
the endpoint's limit anew with an interval of 0, a target without; four paths, five requests, two
refills of each
limiter and one in flight; both orders of the map; deadlock not checked, because requests and
refills are bounded). Five requests are more than any bucket and its refills hold, for the paths
below the endpoint. `LimitsHold`: whatever the order and whenever the shutdown comes, the
requests of any set of paths get through on the tokens of limiters that the configuration gives
these paths. `ChargedAreRefilled`: a limiter that requests are charged to, as against one
that was replaced, has a refill task until the shutdown gets to it, unless its own interval is 0.

**dispatch** (two requests, nested paths `/a` and `/a/b` with two URLs each, the inner one
with a routing header; all seven algorithms, weights that fit, that are zero, too many and
too few; a URL that makes no URI with what is left of the path; all eight strategies with their
defaults and with edge values: factors above 1, between 0 and 1, 0 and negative, jitters that do
and do not round to nothing, a grain of a quarter second; no request is taken after four sends,
2.4 million states). Four sends are two turns of each URL, or more than a round of
weights 2 and 1; five attempts reach the first Fibonacci sum and a harmonic delay that is
rounded. `RoundRobinEven`, `WeightedShares` and `LeastConnectionsEven` say how an algorithm
shares out, over all requests, retries and nested paths that share its counters;
`SentToCoveringTarget`: whatever the two iteration orders, the path is cut for the target that
`find_target` took, and the URL is one that this target has for the request; the only exceptions are
a balancer's, which knows neither that target nor routing values, and may pick a URL of another
configured path that covers the request or pass over its routing header. `DelaysFollowLaw`: each delay
relates to the one before as its strategy's name says, to within the rounding of both where the factor
is not whole. `PanicsForeseen`: `CanPanic` tells from the configuration, by the least delay it
has (the first, or the last of those that shrink), whether `delay()` can panic.

**exchange** (two requests at a time and three in all, slots interchangeable; a plain request for
each of two URIs and one with a body, a header the response varies by, a validator and two values
of X-Forwarded-For; two URLs, two versions of the resource, a TTL of one tick, two attempts;
deadlock not checked, because requests are bounded). Three requests are one that stores, one that
is answered from what is stored, and one that replaces it in between. The four configurations
have the cache plain, with `serialize` and off, CORS in full, off and by default only, servers
with and without ETags and Vary, one of whose URLs may break off a body, one with a second
Last-Modified, and transforms of every kind. That is 1.9 million states; bodies of every URL
that break off would be twice as many. `HitsMatchRequest`: what is
answered from the cache was given by the first URL for the same URI, and, if the target was not
asked, for the same values of the headers in its Vary (unless a transform or a header of the server's
own changes the Vary on its way to the cache, `KeepsVary`), though entries are stored under keys
of other URLs and of Vary. `HitsLikeFresh`: it is the answer that was given when it was stored, with
an ETag, wherever the answer is put together; with `serialize` its body is the JSON of the one
given, CORS agrees if it is configured in full or not at all, and of several Last-Modified
only the first is there (main.rs:421). `AttemptsAlike`: every attempt of
a request sends the same headers and body to whatever URL.

**lifecycle** (three requests, a shutdown time-out of two polls, bots and panics; deadlock
not checked, because the server does stop). `OngoingConserved`: the counter is exact up to the tasks
that never count out. `GaugeDriftBounded`: the gauge is set to a count that is one too high and stale
by then, but the errors do not add up; it is off by no more than the requests at a time and those
lost. `DrainWaits`: a request counted in at CTRL+C is counted out or lost when the polling ends before
its time; the property speaks of these alone, because one that is only spawned by then, or comes
later, may be left in hand. `ServerStops`: the server stops to take requests whatever becomes of those
it has, and ends if they return.

Every property of these runs has a mutant in `PROJECT.json`: with the definition it names
replaced by the mutant's, TLC finds the property violated.

### What the code does not do

Four runs end in a counterexample, each against something the repository says of itself.

| Run | Property | Finding |
|---|---|---|
| endless_not_modified | `RetriesBounded` | A 304 for which the cache has no entry goes round the loop with no attempt counted (main.rs:519-546). README.md:149 calls `max_attempts` the maximum. |
| expired_get_hangs | `ExpiredGetReturns` | `Cache::get` removes the expired entry while it holds a reference into the same map (cache.rs:136), and waits for itself. The test at cache.rs:257 expects `None`; it passes because the cleaner is faster. |
| unconfirmed_entry | `ConfirmedEntryServed` | A 304 is answered with the entry that is under the key by then, which need not be the one that the 304 confirms (main.rs:523). README.md:37 says ETags validate the cache. |
| shutdown_not_forced | `ShutdownForced` | Once its time is over the polling ends, and with it the signal future; hyper then waits for the connections without a time-out (main.rs:237-257). main.rs:246 says "Shutdown timeout reached, forcing shutdown." |

Other observations met while modelling, which no run is spent on. The models follow the code:

- A late success closes an Open breaker, and one success of any request closes a half-open
  one (circuit_breaker.rs:61, main.rs:512). `Admission.Succeed` says so. README.md:159 calls
  `half_open_attempts` the "Number of successful attempts in Half-Open state before closing the
  circuit."; in the code it only bounds how many are let through.
- The breaker is asked once, before the loop; retries go on while it is Open (main.rs:482).
- The request that ends the Open period is not counted against `half_open_attempts`
  (circuit_breaker.rs:80): at most one more than configured is out.
- An attempt that timed out is never retried: the loop is at least as old as its attempt and
  the two limits are equal (main.rs:603). This is the theorem `TimeoutIsFinal`.
- A panic between the admission and the verdict leaves a half-open breaker with one probe less; when
  its attempts are used up and none is left, it rejects for good. `delay()` can panic (retry.rs:113,
  266), `get_target` (load_balancer.rs:125, 155), and `rebuild_request` (main.rs:735), the last one
  on the path of a request that is no URI behind the URL's host once the target's prefix is gone.
- A `period / max_rate` of 0 passes `RateLimiter::new` and kills the refill task at once
  (rate_limiter.rs:54-56): such a limiter lets its first bucket through and nothing after it.
- A factor between 0 and 1 shrinks the delays, and with jitter a late one makes `gen_range` panic once
  the jitter rounds to nothing (retry.rs:266).
- A response body that breaks off is stored in the cache, and answered, as an empty one with the
  status of the target (main.rs:549).
- The cleaner removes by key what it judged before it let go of the entry (cache.rs:184): a
  fresh entry put in between is removed.
- The bucket allows `capacity + burst_capacity` at once and `max_rate` more in the same
  period (rate_limiter.rs:60).
- A response is stored under the key of the balanced URL and looked up under that of the
  first (main.rs:395, 553); one breaker, that of `target_urls[0]`, stands for all of them.
- `IPHash` hashes the socket address, port included (main.rs:485).
- `http_requests_total` counts a proxied request twice (main.rs:186, 315). The gauge that metrics.rs:39
  calls the "Number of ongoing requests" is set to a count that already includes the request, plus
  one (main.rs:316), and bots and panics stay on it: a single request leaves it at 1.
- "All pending requests completed. Shutting down..." (main.rs:253) is logged after the polling has
  given up too, and with a request in hand that was spawned and had not come to count itself in
  when the counter was read (main.rs:184-185).
- README.md:120-121 says a path has its "List of backend URLs for load balancing", but the balancer
  looks for a path of its own among all that cover the request (load_balancer.rs:68-69): the prefix
  of one target may be cut off and the rest sent to a URL of another.
- With a load balancer the URL of a routing value is only a fallback (main.rs:485), so that the
  routing header has no effect; config.toml:37-38 and 53 configure both.
- The connections that `LeastConnections` counts are never let go (load_balancer.rs:109).
- With `serialize = true` a hit is answered with a JSON array of the body's bytes (cache.rs:145).
- No request body reaches the upstream: `validate_body` drains it, main.rs:283 counts what is left.
- The method is not in the cache key, and any status but the retried ones and 304 is stored.
- `Vary: *` names no header, so it varies nothing. An entry without an ETag gets the MD5 of
  an empty body (cache.rs:83), and If-None-Match with it hides the Last-Modified beside it.
- Of a request header with several values the last one goes on; X-Forwarded-For keeps the first
  and the client (main.rs:737-765). Hits add CORS headers also when CORS is disabled, and
  without the default configuration (main.rs:410).
- A breaker belongs to the first URL of a target; targets that share it share the breaker, with the
  settings of the one that came first (main.rs:442).
- A path with no limiter of its own is charged to the first prefix in hash order: below a limited
  endpoint this may be the target's limiter and not the endpoint's (rate_limiter.rs:132). Prefixes
  are prefixes of strings, so `/api` also limits `/apix`.
- The refill task of a replaced limiter is never told to stop, and a notice of shutdown misses a
  task that is refilling at that moment (rate_limiter.rs:103, 146).
- With every worker thread blocked on a shard, a suspended hit or a task that has been handed an
  entry's mutex gets none, and the runtime freezes (run cache_threads, main.rs:398, cache.rs:174).

## 4. Fairness

Safety is checked without any. For liveness:

- *Tasks run.* `ProxyRequest`, `Lifecycle`: weak fairness of each task's own steps, which is
  what tokio's scheduler gives a task that is ready. In `Lifecycle` these are the steps of `Owed`, and
  not the return of `proxy_request`. `queued` needs no more than weak
  fairness because the semaphore is a FIFO that the model keeps.
- *The clock advances*: weak fairness of `Tick`.
- *Locks.* `ResponseCache`, `RateLimiter`: strong fairness of each process, because a lock
  may be free and taken again between two looks. tokio's locks serve waiters in order; for
  the shard locks of DashMap, which wake waiters when they are released, this is an
  assumption.
- *Threads.* `ResponseCache` has a thread for each blocked task. `CacheThreads`, which does not,
  is checked for safety only.
- *Nothing else.* Clients need not call or stay; the upstream need not answer, nor end a body.
  `ServerStops` has the return of every request as the premise of its second half only
  (`RequestsReturn`): expired gets, endless 304s and endless bodies, the client's included (validate.rs:61),
  can hold one for ever.
- *Cache lookups return.* `ProxyRequest` takes a lookup as part of the step it is in, so its
  liveness is that of a server whose lookups return; `ResponseCache` shows which ones do not
  (a get of an expired entry), and a request or probe that makes one is never answered.

## 5. The proofs

TLAPS checks all theorems for any sets of requests, tasks, keys and callers and any numbers,
from the assumptions named in the modules (`BreakerAssumption`, `ProxyAssumption`,
`CacheAssumption`, `WorkersAssumption`, `LimiterAssumption`, `LimitersAssumption`, `LifecycleAssumption`,
`LoadBalancerAssumption`, `GrainsAssumption`, `DispatchAssumption`, `ExchangeAssumption`), which TLC
evaluates in the runs. Those of the last four say what a deserialized configuration is: lists that are
sequences, numbers that are not negative, at least one URL and one attempt. Every safety and action
property of the runs that pass is stated by a theorem.

Recursive functions are written with a `LET` inside the operator, so that the provers see their
equation (`Power`, `SumTo`, `ApplyHeaderTransforms`, `CreateCacheKey`). The induction theorems of the library take an
operator as a parameter, which these provers cannot instantiate; `SetInduction` and `SubsetInduction`
say the same of a set of numbers and of a set of subsets. The first is proved from the
well-foundedness of `<`, the second from the first, on cardinalities.

**ProxyRequestProofs.** No property here is inductive as it stands; the strengthenings are
- for `FailureCountCorrect`: that the breaker is well formed and `CountAgrees` of it, with one
  lemma per method of the breaker (`FailureSettles`, `SuccessSettles`, `AttemptAgrees`, ...)
  and one that every step moves the breaker by one of them;
- `PermitInv` for `PermitsCorrect`: the control points are typed, and free permits and holders
  make `pool_size`. Each step moves one request between points, and the count changes with
  the set `Holders` by one;
- `BudgetInv` for `BudgetCorrect`: `sends = retries` at the loop's head and `retries + 1` while
  an attempt is out, and no attempt is older than its loop. The last part gives
  `TimeoutIsFinal`;
- `GateInv` for `HalfOpenIsSettled`, `HalfOpenQuotaCorrect` and `Refinement`: probes are in the
  loop, there are none unless the breaker is half-open, no more than it counted plus one, and at
  least one unless one of the period has died;
- `QueueType`, with the above, for `TypeCorrect`.

`Refinement` maps each step to `Pass`, `Probe`, `Succeed`, `Fail` or `Vanish` of `Admission`, or to a
stutter. No theorem assumes that a call does not panic.

**ResponseCacheProofs.** `TypeCorrect` needs `PutHasCache` (a task that puts has made the cache).
`ExpiredGetDeadlocks` is the deadlock as a safety statement: from `OwnReferenceBlocks`, the
task's own reference makes the shard unwritable, hence its `Remove` is disabled, and with it
every `Put` and `Remove` of the key.

**RateLimiterProofs.** `IInv` is the type invariant with `OneWriter` (of callers and refill task
at most one holds the lock of `tokens`), `StampsOK` (the stamp about to be written is the
number of the last grant, and when none is pending `last_acquire` is), `LevelOK` (grants are paid
for) and `ViewsOK` (what each partial status may still come to). It gives `GrantsPaidFor`,
`StatusCoherent`, `LastAcquireInOrder` and `Refinement`.

**CacheThreadsProofs** is for any number of workers, tasks, keys and shards. `ThreadsInv` adds to the
invariant of the caches that a process without a worker is suspended, or is a task that waits for
a mutex or has been handed one (`WorkerInv`), that a writer of an outer shard is alone with it
(`Exclusive`), and that workers are counted. `WorkersWaitCorrect` follows the order of the locks
backwards: with all workers blocked and no lock held by a task without a worker, nobody holds
a mutex, so nobody a reference into an inner map, so nobody a shard, so nobody is blocked.
`FreezeCorrect` needs that a blocked worker is never one that could still await:
`NoBlockedLookup`, by `Exclusive`.

**LimitersProofs.** `LimitersInv`: the map has the limiters that were added, each under its own
path, and a refill task that has stopped or is about to is one that the shutdown has got to, and one
that has panicked is of a limiter with an interval of 0. It
gives `TypeCorrect`, which no run repeats, and `RefilledCorrect`. For `LimitsCorrect`, `LookupInv`
says that the map has the last limiter added for each path, so that a request is charged to a limiter
that the configuration gives its path (`ChargedRight`); `HoldInv` adds to `LimitsHold` what is left:
for any set of paths, the requests that got through and the tokens left are no more than the
tokens their limiters have had. A request moves one from the left to the admitted, a refill
adds to both sides, which is shown of sums over finite sets (`Total`, `TotalMoves`, `TotalSame`). That
`Configured` is a sequence is assumed, because `FlattenSeq` is recursive.

**DispatchProofs** is for any paths, URLs, weights, hashes and retry configurations.
- `RetryInv` for `DelaysLawful` and `PanicsAreForeseen`: a request's strategy is that of its
  configuration, stepped once for each delay it has given. `PlainDelayLaw` has a case for each
  strategy, by the recursion of `Power` and of the Fibonacci pair, and for the growing ones by what
  `Rounded` may be off; `PlainAtLeast`, `JitterRangeGrows` and `NoPanic` relate the jitter of any
  delay to that of the least, for factors that shrink by the last one that is slept.
- `Shape`, `Routes` (the path that `find_target` took covers the request's, and the URLs are its own
  unless it was routed) and `Balancer` for `SentWhereItBelongs`: the path that the balancer took also
  covers it, so a URL that is not the target's own is of another path, or the target was routed; and
  what `rebuild_request` cuts off is put back in full (`RebuiltInFull`).
- `Turns` with them for `TypeCorrect`: a counter never passes the turns of its path.
- `RoundRobinTurns` for `RoundRobinIsEven`: the URLs before the counter have had one turn more than
  the last one.
- `Counted` for `LeastConnectionsAreEven`: the connections of a URL that only one path has are the
  calls it was given. Who is given the next has the least ratio of calls to weight (`LeastRatio`).
- `SharesCounted` for `WeightedSharesAreExact`: a counter is the number of calls modulo the sum of
  the weights, and each URL has had its weight for every round and its part of the current one.

**ExchangeProofs** is for any requests, URLs, servers and configurations. `EntriesRight`: an entry is
under a key that tells the URL and the URI it came from, has the Vary of the servers if `KeepsVary`,
and a hit of it answers like the response it was made of. `TasksRight`: so does an answer from the
cache, and a response on its way to the cache still has the Vary. These give `HitsBelong` and
`HitsAreFresh`. A key without Vary values was made for a request that had none of those headers
(`KeyOfNothing`), so the plain key is as good as the other; `HitSame` has what a hit adds and a fresh
answer has already, whatever was read of the body, and `DateAgrees` that the Last-Modified a hit inserts
is the first one. For `AttemptsSayTheSame`, what a task sent last is what it would send to any URL
(`AttemptsRight`), because no transform reads another header than its own (`TransformSame`, and by
induction over the transforms `TransformsSame`), so the `host` that differs makes no other differ.

**LifecycleProofs.** `OngoingConserved` is inductive together with `TypeOK`. `DrainInv` adds that the
requests awaited are counted ones (`NoneIsNone`: a counter read as 0 leaves none), which gives
`DrainCorrect`. `GaugeInv` bounds what a task is about to set the gauge to by the tasks and the lost
ones there can be, whenever the count was read, which gives `GaugeCorrect`.

## 6. What is only model-checked

All liveness: `BreakerAdmitsAgain`, `EveryRequestAnswered`, `NoOtherDeadlock`,
`ExpiredEntriesGo`, `EveryCallReturns`, `EmptyBucketRefills`, `ServerStops`. The provers at hand
do not reason about fairness with ENABLED.

## 7. What is not modelled

- Validation, authentication and the bot detector's decision: stateless decisions about one
  message by regular expressions, an HTML cleaner and cryptography. Their refusals are in
  `AnswerAtOnce`, `AnswerEarly`, `RejectBot`; that validation drains the body is in `Receive` of
  `Exchange`.
- Static files, configuration, logging, error texts: I/O without behaviour of its own.
- That each new cache key makes a cache and a cleaner that are never removed, and that `max_size`
  is never read (main.rs:554): the keys are a fixed set in `ResponseCache`.
- Collisions of hashes: `CreateCacheKey` and `IpHash` are taken at what they are hashes of.
- Header values that are not text, where from_response and the answers from the cache panic.
- Overflow of delays, which takes some sixty attempts, and factors that are infinite or NaN, in
  `RetryStrategies`; the panics they end in are in `PanicInDelay`. The arithmetic of delays is that of
  whole numbers and fractions, not of floating point. `max_attempts` is at least 1 there (a request with 0
  never sleeps) and any number in `ProxyRequest`.
- Several targets in `ProxyRequest`: breakers are independent, and only the semaphore is
  shared. Metrics other than those in `Lifecycle` are only incremented.
- The lost notice of shutdown (rate_limiter.rs:103) is in `RateLimiter` and `Limiters`, and no
  property is about it: a server that takes no requests needs no tokens.

## 8. Plan

Done, in the order of importance: the handler with the breaker, the cache and its locks, the
rate limiter, the lifecycle, dispatch; the data of an exchange, the worker threads and the
limiter manager; then the proofs of all their safety properties. Next:

1. The safety part of `NoOtherDeadlock` for any tasks and keys: without an expired get, what blocks a
   process of `ResponseCache` is held by one that is not blocked, along the order of the locks, as in
   `WorkersWaitCorrect` for the threads.
2. The same for `RateLimiter`, whose status takes three locks in turn.
3. That the steps of `Limiters` on one limiter are steps of `TokenBucket`.
