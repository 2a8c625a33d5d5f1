------------------------------ MODULE Dispatch ------------------------------
(***************************************************************************)
(* Where road7 sends a request, and when it sends it again: find_target of *)
(* src/main.rs for the target of a path, then in each turn of the retry    *)
(* loop the load balancer for the URL, rebuild_request for the rest of the *)
(* path, and the retry strategy for the sleep before the next turn.        *)
(*                                                                         *)
(* What admits a request, and ends its loop before its attempts are used   *)
(* up, is module ProxyRequest; here Finish is every other way out.         *)
(* The balancer and the strategies are modules of their own: the balancer  *)
(* is shared by all requests, a strategy belongs to one.                   *)
(***************************************************************************)
EXTENDS LoadBalancer, RetryStrategies

CONSTANTS Slots,        \* requests at a time
          Paths,        \* paths requests ask for
          Headers,      \* values of the routing header
          Routing,      \* of each configured path: {} without a routing_header,
                        \* {v} for routing_values v, a function to URLs
          NoUris,       \* the URLs with a rest of a path that do not parse as a URI
          Configs,      \* configurations the server may start with
          MaxSends      \* bound: no request is taken after so many sends

\* What config.toml may say.
IsConfig(c) ==
    /\ c.algorithm \in Algorithms \union {"none"}
    /\ \A w \in c.weights : DOMAIN w \subseteq Keys /\ \A k \in DOMAIN w : w[k] \in Seq(Nat)
    /\ IsRetryConfig(c.retry)

ASSUME DispatchAssumption ==
    /\ DOMAIN Routing = Keys
    /\ DOMAIN IpHash = DOMAIN Sha256
    /\ \A path \in Paths : path \in Seq(Range(path))
    /\ \A c \in Configs : IsConfig(c)
    /\ MaxSends \in Nat

Addrs  == DOMAIN IpHash
Absent == "absent"   \* no routing header, or a value that is no text
Unsent == [url |-> "unsent", rest |-> <<>>]

VARIABLES config,     \* what config.toml says: algorithm, weights, retry
          mapOrder,   \* the order in which the DashMap of targets is iterated
          at,         \* where each request is
          route,      \* what find_target gave it, with its path and client
          strategy,   \* its retry strategy
          delays,     \* history: what its delay() has returned
          sent,       \* the request that is out for it, rebuilt
          sends       \* history: requests rebuilt, to be sent

dispatch == <<at, route, strategy, delays, sent, sends>>
vars == <<config, mapOrder, dispatch, lbConfig, lbState>>

NoRoute == [path |-> <<>>, addr |-> "none", key |-> <<>>, urls |-> <<>>, routed |-> FALSE]

Init ==
    /\ config \in Configs
    /\ New(config.algorithm, config.weights)
    /\ mapOrder \in SetToSeqs(Keys)
    /\ at = [r \in Slots |-> "idle"]
    /\ route = [r \in Slots |-> NoRoute]
    /\ strategy = [r \in Slots |-> ToStrategy(config.retry)]
    /\ delays = [r \in Slots |-> <<>>]
    /\ sent = [r \in Slots |-> Unsent]
    /\ sends = 0

-----------------------------------------------------------------------------
(* find_target. *)

\* The target of k takes a request: its path is a prefix, and if it has a
\* routing header, the value is one of its routing values.
Takes(k, path, header) ==
    /\ IsPrefix(k, path)
    /\ \A values \in Routing[k] : header \in DOMAIN values

Takers(path, header) == {n \in DOMAIN mapOrder : Takes(mapOrder[n], path, header)}

\* What the first target in the map's order has for the request.
Target(path, header, addr) ==
    LET k == mapOrder[Min(Takers(path, header))]
    IN  [path |-> path, addr |-> addr, key |-> k, routed |-> Routing[k] # {},
         urls |-> IF Routing[k] = {}
                  THEN Urls[k]
                  ELSE <<(CHOOSE values \in Routing[k] : TRUE)[header]>>]

Idle(r) ==
    /\ at' = [at EXCEPT ![r] = "idle"]
    /\ route' = [route EXCEPT ![r] = NoRoute]
    /\ strategy' = [strategy EXCEPT ![r] = ToStrategy(config.retry)]
    /\ delays' = [delays EXCEPT ![r] = <<>>]
    /\ sent' = [sent EXCEPT ![r] = Unsent]

\* A request that has a target gets as far as the retry loop.
Arrive(r, path, header, addr) ==
    /\ at[r] = "idle"
    /\ sends < MaxSends
    /\ Takers(path, header) # {}
    /\ route' = [route EXCEPT ![r] = Target(path, header, addr)]
    /\ strategy' = [strategy EXCEPT ![r] = ToStrategy(config.retry)]
    /\ at' = [at EXCEPT ![r] = "loop"]
    /\ UNCHANGED <<config, mapOrder, delays, sent, sends, lbConfig, lbState>>

\* 404: no target for the path.
NotFound(r, path, header) ==
    /\ at[r] = "idle"
    /\ Takers(path, header) = {}
    /\ UNCHANGED vars

-----------------------------------------------------------------------------
(* The retry loop. *)

\* rebuild_request: the URL, then the path without the target's own, whichever
\* target the URL is of.
Rebuild(r, url) ==
    [url |-> url,
     rest |-> SubSeq(route[r].path, Len(route[r].key) + 1, Len(route[r].path))]

\* The two may be no URI together, such as a host and ":1": expect ends the task.
SendTo(r, url) ==
    /\ sends' = sends + 1
    /\ UNCHANGED <<config, mapOrder>>
    /\ IF Rebuild(r, url) \in NoUris
       THEN Idle(r)
       ELSE /\ sent' = [sent EXCEPT ![r] = Rebuild(r, url)]
            /\ at' = [at EXCEPT ![r] = "upstream"]
            /\ UNCHANGED <<route, strategy, delays>>

\* A turn of the loop: the balancer's URL if it has one, else the target's first.
SendBalanced(r) ==
    /\ at[r] = "loop"
    /\ algorithm # "none"
    /\ \E k \in Keys : \E arm \in Arms(k, route[r].addr) :
         /\ GetTarget(route[r].path, route[r].addr, k, arm)
         /\ \/ arm.is = "pick" /\ SendTo(r, Urls[k][arm.index])
            \/ arm = ReturnNone /\ SendTo(r, Head(route[r].urls))
            \/ arm = Panic /\ Idle(r) /\ UNCHANGED <<config, mapOrder, sends>>

SendUnbalanced(r) ==
    /\ at[r] = "loop"
    /\ \/ algorithm = "none" /\ UNCHANGED <<lbConfig, lbState>>
       \/ algorithm # "none" /\ GetNoTarget(route[r].path, route[r].addr)
    /\ SendTo(r, Head(route[r].urls))

\* The attempt failed and there are more: the sleep that delay() asks for, or
\* the end of the task when it panics.
Retry(r) ==
    /\ at[r] = "upstream"
    /\ Len(delays[r]) + 1 < config.retry.max_attempts
    /\ \E outcome \in DelayOutcomes(strategy[r]) :
         \/ /\ outcome = {}
            /\ Idle(r)
         \/ \E d \in outcome :
              /\ delays' = [delays EXCEPT ![r] = Append(@, d)]
              /\ strategy' = [strategy EXCEPT ![r] = Stepped(@)]
              /\ sent' = [sent EXCEPT ![r] = Unsent]
              /\ at' = [at EXCEPT ![r] = "loop"]
              /\ UNCHANGED route
    /\ UNCHANGED <<config, mapOrder, sends, lbConfig, lbState>>

\* A 304 and no entry in the cache: another turn, with no sleep and no attempt used.
NotModified(r) ==
    /\ at[r] = "upstream"
    /\ sends < MaxSends
    /\ sent' = [sent EXCEPT ![r] = Unsent]
    /\ at' = [at EXCEPT ![r] = "loop"]
    /\ UNCHANGED <<config, mapOrder, route, strategy, delays, sends, lbConfig, lbState>>

\* Any other answer that is not retried, and the last failure.
Finish(r) ==
    /\ at[r] = "upstream"
    /\ Idle(r)
    /\ UNCHANGED <<config, mapOrder, sends, lbConfig, lbState>>

Next ==
    \E r \in Slots :
        \/ \E path \in Paths, header \in Headers \union {Absent} :
             NotFound(r, path, header) \/ \E addr \in Addrs : Arrive(r, path, header, addr)
        \/ SendBalanced(r) \/ SendUnbalanced(r) \/ Retry(r)
        \/ NotModified(r) \/ Finish(r)

Spec == Init /\ [][Next]_vars

-----------------------------------------------------------------------------
TypeOK ==
    /\ LBTypeOK
    /\ config \in Configs
    /\ mapOrder \in SetToSeqs(Keys)
    /\ at \in [Slots -> {"idle", "loop", "upstream"}]
    /\ \A r \in Slots : at[r] # "upstream" => sent[r] = Unsent
    /\ sends \in Nat

\* A request goes out with the path that remains after its target's, to a URL
\* that this target has for it.  Only a balancer takes it elsewhere, as it knows
\* neither the target that was found nor routing values: to a URL of another
\* configured path that covers the request, or past its routing header.
SentToCoveringTarget ==
    \A r \in Slots : at[r] = "upstream" =>
        /\ route[r].key \o sent[r].rest = route[r].path
        /\ \/ sent[r].url \in Range(route[r].urls)
           \/ /\ algorithm # "none"
              /\ \E k \in Keys :
                   /\ IsPrefix(k, route[r].path)
                   /\ sent[r].url \in Range(Urls[k])
                   /\ k # route[r].key \/ route[r].routed

\* The sleeps of a request follow the law of the configured strategy from its
\* first retry on, whatever other requests retry in between.
DelaysFollowLaw == \A r \in Slots : FollowsLaw(config.retry, delays[r])

\* Only the configurations that CanPanic singles out lose a task in delay(),
\* wherever that is asked for the next sleep.
PanicsForeseen ==
    \A r \in Slots :
        /\ at[r] = "upstream"
        /\ Len(delays[r]) + 1 < config.retry.max_attempts
        /\ ~CanPanic(config.retry)
        => {} \notin DelayOutcomes(strategy[r])
=============================================================================
