----------------------------- MODULE MCDispatch -----------------------------
(***************************************************************************)
(* Dispatch for TLC: two nested paths, the inner one with a routing        *)
(* header, and a configuration for every balancer and every strategy.      *)
(***************************************************************************)
EXTENDS Dispatch

A  == <<"a">>
AB == <<"a", "b">>

TwoUrls == (A :> <<"u1", "u2">>) @@ (AB :> <<"u3", "u4">>)

\* Requests for AB, which both paths cover, for A alone, and for neither.
MCPaths == {<<"a", "b", "x">>, <<"a", "c">>, <<"d">>}

\* Of one balanced URL, what the outer path leaves of AB.
MCNoUris == {[url |-> "u2", rest |-> <<"b", "x">>]}

RoutedPath == (A :> {}) @@ (AB :> {("v1" :> "u5")})

HashOne == ("ip1" :> 0) @@ ("ip2" :> 3)
HashTwo == ("ip1" :> 5) @@ ("ip2" :> 2)

Retries(name, base, step, factor, jitter, attempts) ==
    [strategy |-> name, base |-> base, step |-> step, factor |-> factor,
     jitter |-> jitter, max_attempts |-> attempts]

Fixed == Retries("FixedInterval", 1, {}, {}, {}, 2)

Balanced(alg, given) == [algorithm |-> alg, weights |-> given, retry |-> Fixed]
Unbalanced(retry)    == [algorithm |-> "none", weights |-> {}, retry |-> retry]

\* Weights that fit, and such as fit neither the URLs of A nor those of AB.
Fitting  == (A :> <<2, 1>>) @@ (AB :> <<0, 1>>)
Zero     == (A :> <<1, 2>>) @@ (AB :> <<0, 0>>)
TooMany  == A :> <<1, 1, 1>>
TooFew   == A :> <<1>>

BalancedConfigs ==
    {Balanced(alg, {}) : alg \in {"RoundRobin", "Random", "LeastConnections", "IPHash",
                                  "ConsistentHashing"}}
    \union {Balanced(alg, {w}) : alg \in {"WeightedRoundRobin", "WeightedLeastConnections"},
                                 w \in {Fitting, Zero, TooMany, TooFew}}

RetryConfigs ==
    {Unbalanced(Retries(name, 1, {}, {}, {}, 5)) :
        name \in Strategies \ {"RandomDelay"}}
    \union {Unbalanced(retry) : retry \in
        {Retries("RandomDelay", 1, {}, {}, {}, 3),
         Retries("RandomDelay", 1, {1}, {}, {}, 3),
         Retries("LinearBackoff", 1, {2}, {}, {}, 4),
         Retries("ExponentialBackoff", 1, {}, {<<3, 1>>}, {}, 4),
         Retries("ExponentialBackoff", 1, {}, {<<3, 2>>}, {}, 4),
         Retries("ExponentialBackoff", 1, {}, {<<-1, 2>>}, {}, 3),
         Retries("GeometricBackoff", 1, {}, {<<1, 2>>}, {}, 5),
         Retries("GeometricBackoff", 1, {}, {<<1, 2>>}, {<<1, 1>>}, 3),
         Retries("GeometricBackoff", 1, {}, {<<1, 2>>}, {<<1, 1>>}, 4),
         Retries("Unknown", 2, {}, {}, {}, 3),
         Retries("FixedInterval", 1, {}, {}, {<<1, 2>>}, 3),
         Retries("FixedInterval", 0, {}, {}, {<<1, 2>>}, 3),
         Retries("FibonacciBackoff", 1, {}, {}, {<<0, 1>>}, 3),
         Retries("GeometricBackoff", 1, {}, {<<0, 1>>}, {<<1, 2>>}, 3),
         Retries("HarmonicBackoff", 1, {}, {}, {<<1, 2>>}, 4)}}

AllConfigs == BalancedConfigs \union RetryConfigs
=============================================================================
