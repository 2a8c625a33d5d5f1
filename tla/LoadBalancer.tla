---------------------------- MODULE LoadBalancer ----------------------------
(***************************************************************************)
(* The load balancer of src/load_balancer.rs.  It has the URLs of every    *)
(* configured path, a counter for each path (the two round robins) and a   *)
(* count of connections for each URL (the two least connections).          *)
(*                                                                         *)
(* proxy_request holds the balancer's RwLock for writing while it awaits   *)
(* get_target (src/main.rs:484), so a call is one step whatever mutexes it *)
(* takes within.  A path is the sequence of its characters.                *)
(***************************************************************************)
EXTENDS Integers, FiniteSets, SequencesExt

CONSTANTS Urls,     \* the list of URLs of each configured path
          IpHash,   \* what DefaultHasher makes of a client's address
          Sha256    \* the first eight bytes of its SHA-256, as a number

ASSUME LoadBalancerAssumption ==
    /\ IsFiniteSet(DOMAIN Urls)
    /\ \A k \in DOMAIN Urls : k \in Seq(Range(k)) /\ Urls[k] \in Seq(Range(Urls[k])) \ {<<>>}
    /\ \A a \in DOMAIN IpHash : IpHash[a] \in Nat
    /\ \A a \in DOMAIN Sha256 : Sha256[a] \in Nat

VARIABLES algorithm,     \* "none" when no balancer is configured
          weights,       \* of the URLs of each path, in their order
          order,         \* the order in which the HashMap of targets is iterated
          counters,      \* 0 for a path that has no counter yet
          connections,   \* 0 for a URL that has no count yet
          served         \* history: how often each URL of a path was returned

lbConfig == <<algorithm, weights, order>>
lbState  == <<counters, connections, served>>

Algorithms == {"RoundRobin", "Random", "LeastConnections", "WeightedRoundRobin",
               "IPHash", "ConsistentHashing", "WeightedLeastConnections"}

Keys == DOMAIN Urls
AllUrls == UNION {Range(Urls[k]) : k \in Keys}

\* LoadBalancer::new; given is {} without configured weights, {w} with w.
New(alg, given) ==
    /\ algorithm = alg
    /\ IF given = {}
       THEN weights = [k \in Keys |-> [i \in DOMAIN Urls[k] |-> 1]]
       ELSE weights \in given
    /\ order \in SetToSeqs(Keys)
    /\ counters = [k \in Keys |-> 0]
    /\ connections = [u \in AllUrls |-> 0]
    /\ served = [k \in Keys |-> [i \in DOMAIN Urls[k] |-> 0]]

\* The sum of the first i of the numbers in s.
SumTo(s, i) == LET sum[j \in 0..Len(s)] == IF j = 0 THEN 0 ELSE sum[j - 1] + s[j] IN sum[i]

\* The sum of the first i weights of k, and of all of them.
Cumulative(k, i) == SumTo(weights[k], i)
WeightsSum(k) == Cumulative(k, Len(weights[k]))

-----------------------------------------------------------------------------
(* What the arm of an algorithm does for the path k: pick a URL, return    *)
(* None, go on to the next path, or panic.                                 *)

Pick(i)    == [is |-> "pick", index |-> i]
ReturnNone == [is |-> "none", index |-> 0]
GoOn       == [is |-> "go on", index |-> 0]
Panic      == [is |-> "panic", index |-> 0]

RoundRobin(k) == Pick((counters[k] % Len(Urls[k])) + 1)

\* The URL in whose share of the weights the counter lies.  Nothing relates the
\* number of weights to the number of URLs.
WeightedRoundRobin(k) ==
    IF k \notin DOMAIN weights THEN ReturnNone
    ELSE LET above == {i \in DOMAIN weights[k] : counters[k] < Cumulative(k, i)}
         IN  IF above = {} THEN GoOn
             ELSE IF Min(above) \in DOMAIN Urls[k] THEN Pick(Min(above)) ELSE Panic

Count(k, i) == connections[Urls[k][i]]

LeastConnections(k) ==
    Pick(Min({i \in DOMAIN Urls[k] : \A j \in DOMAIN Urls[k] : Count(k, i) <= Count(k, j)}))

\* The least count / weight.  A weight of 0 makes it NaN or infinite, and less
\* than nothing.
WeightedLeastConnections(k) ==
    IF k \notin DOMAIN weights THEN ReturnNone
    ELSE IF Len(weights[k]) < Len(Urls[k]) THEN Panic
    ELSE LET scored == {i \in DOMAIN Urls[k] : weights[k][i] > 0}
             least  == {i \in scored : \A j \in scored :
                            Count(k, i) * weights[k][j] <= Count(k, j) * weights[k][i]}
         IN  IF scored = {} THEN GoOn ELSE Pick(Min(least))

Arms(k, addr) ==
    CASE algorithm = "RoundRobin"               -> {RoundRobin(k)}
      [] algorithm = "Random"                   -> {Pick(i) : i \in DOMAIN Urls[k]}
      [] algorithm = "LeastConnections"         -> {LeastConnections(k)}
      [] algorithm = "WeightedRoundRobin"       -> {WeightedRoundRobin(k)}
      [] algorithm = "IPHash"                   -> {Pick((IpHash[addr] % Len(Urls[k])) + 1)}
      [] algorithm = "ConsistentHashing"        -> {Pick((Sha256[addr] % Len(Urls[k])) + 1)}
      [] algorithm = "WeightedLeastConnections" -> {WeightedLeastConnections(k)}

\* Mutant: the paths are not compared with the request's.
DecidingAnywhere(path, addr) == {n \in DOMAIN order : GoOn \notin Arms(order[n], addr)}

\* The places, in the order of iteration, of the paths that decide a call.
Deciding(path, addr) ==
    {n \in DOMAIN order : IsPrefix(order[n], path) /\ GoOn \notin Arms(order[n], addr)}

\* Mutant: the counter skips a turn.
TurnTwice(k) ==
    counters' = [counters EXCEPT ![k] =
        (@ + 2) % (IF algorithm = "RoundRobin" THEN Len(Urls[k]) ELSE WeightsSum(k))]

\* Mutant: the counter is only reduced where it is read.
TurnUnwrapped(k) == counters' = [counters EXCEPT ![k] = @ + 1]

\* The next turn of a round robin for k, in terms of URLs or of weights.
Turn(k) ==
    counters' = [counters EXCEPT ![k] =
        (@ + 1) % (IF algorithm = "RoundRobin" THEN Len(Urls[k]) ELSE WeightsSum(k))]

\* Mutant: the connection is not counted.
ConnectUncounted(k, i) == UNCHANGED connections

\* A connection is counted when it is chosen; nothing counts it out again.
Connect(k, i) ==
    IF algorithm \in {"LeastConnections", "WeightedLeastConnections"}
    THEN connections' = [connections EXCEPT ![Urls[k][i]] = @ + 1]
    ELSE UNCHANGED connections

\* get_target(path, Some(addr)), with what its deciding arm did for which path.
GetTarget(path, addr, k, arm) ==
    /\ Deciding(path, addr) # {}
    /\ k = order[Min(Deciding(path, addr))]
    /\ arm \in Arms(k, addr)
    /\ IF algorithm \in {"RoundRobin", "WeightedRoundRobin"} /\ arm # ReturnNone
       THEN Turn(k)
       ELSE UNCHANGED counters
    /\ IF arm.is = "pick"
       THEN /\ Connect(k, arm.index)
            /\ served' = [served EXCEPT ![k][arm.index] = @ + 1]
       ELSE UNCHANGED <<connections, served>>
    /\ UNCHANGED lbConfig

\* get_target when no path decides: None.
GetNoTarget(path, addr) ==
    /\ Deciding(path, addr) = {}
    /\ UNCHANGED <<lbConfig, lbState>>

-----------------------------------------------------------------------------
LBTypeOK ==
    /\ algorithm \in Algorithms \union {"none"}
    /\ DOMAIN weights \subseteq Keys
    /\ order \in SetToSeqs(Keys)
    /\ \A k \in Keys :
         /\ counters[k] \in Nat
         /\ algorithm = "RoundRobin" => counters[k] < Len(Urls[k])
         /\ algorithm = "WeightedRoundRobin" /\ counters[k] > 0 => counters[k] < WeightsSum(k)
    /\ \A u \in AllUrls : connections[u] \in Nat
    /\ \A k \in Keys : served[k] \in [DOMAIN Urls[k] -> Nat]

\* Round robin never gives a URL of a path two turns more than another, over
\* all requests, retries and paths that share the balancer.
RoundRobinEven ==
    algorithm = "RoundRobin" =>
        \A k \in Keys : \A i, j \in DOMAIN Urls[k] : served[k][i] <= served[k][j] + 1

\* Weights a path can be served by: one for each of its URLs, not all 0.
Weighted(k) ==
    /\ k \in DOMAIN weights
    /\ Len(weights[k]) = Len(Urls[k])
    /\ WeightsSum(k) > 0

Calls(k) == SumTo(served[k], Len(served[k]))

Clamp(n, low, high) == IF n < low THEN low ELSE IF n > high THEN high ELSE n

\* Weighted round robin serves each URL exactly its weight in every round of
\* WeightsSum calls, and the unfinished round in the order of the URLs.
WeightedShares ==
    algorithm = "WeightedRoundRobin" =>
        \A k \in {k \in Keys : Weighted(k)} : \A i \in DOMAIN Urls[k] :
            served[k][i] =
                (Calls(k) \div WeightsSum(k)) * weights[k][i]
                + Clamp((Calls(k) % WeightsSum(k)) - Cumulative(k, i - 1), 0, weights[k][i])

\* The URLs of k are its own, and listed once.
Unshared(k) ==
    /\ \A i, j \in DOMAIN Urls[k] : Urls[k][i] = Urls[k][j] => i = j
    /\ \A other \in Keys \ {k} : Range(Urls[k]) \intersect Range(Urls[other]) = {}

WeightOf(k, i) == IF algorithm = "LeastConnections" THEN 1 ELSE weights[k][i]

\* Least connections never picks a URL ahead of another one that has, for its
\* weight, been picked less often.
LeastConnectionsEven ==
    algorithm \in {"LeastConnections", "WeightedLeastConnections"} =>
        \A k \in {k \in Keys : Weighted(k) /\ Unshared(k)} :
        \A i, j \in DOMAIN Urls[k] :
            WeightOf(k, i) > 0 /\ WeightOf(k, j) > 0 =>
                (served[k][i] - 1) * WeightOf(k, j) <= served[k][j] * WeightOf(k, i)
=============================================================================
