------------------------------ MODULE Limiters ------------------------------
(***************************************************************************)
(* The rate limiters of a road7 server: RateLimiterManager of              *)
(* src/rate_limiter.rs, filled when run_proxy starts, asked for a limiter  *)
(* by proxy_request, and shut down before hyper stops to take requests.    *)
(*                                                                         *)
(* A limiter is a token bucket (IsTokenBucket of module RateLimiter), so   *)
(* that an acquire is one step here, and so is a lookup with the acquire   *)
(* that follows it: the map does not change once requests come in.  Its    *)
(* number is that of the add_limiter that made it, as a path may have more *)
(* than one in the configuration.                                          *)
(***************************************************************************)
EXTENDS Naturals, SequencesExt, FiniteSetsExt

CONSTANTS Targets,     \* of the configuration, in their order: [path, limiter, endpoints]
                       \* with endpoints [path, limiter] and limiter {} or one
                       \* [size, interval], the time between two refills
          Paths,       \* of requests that have a target
          MaxRefills,  \* no tick is taken after so many refills of a limiter
          MaxRequests  \* bound: requests that come in

\* The limiters of a target, its own before those of its endpoints.
LimitersOf(target) ==
    LET places == <<[path |-> <<>>, limiter |-> target.limiter]>> \o target.endpoints
        given  == SelectSeq(places, LAMBDA e : e.limiter # {})
    IN  [n \in DOMAIN given |-> [path  |-> target.path \o given[n].path,
                                 given |-> CHOOSE limiter \in given[n].limiter : TRUE]]

Configured == FlattenSeq([n \in DOMAIN Targets |-> LimitersOf(Targets[n])])
Ids        == DOMAIN Configured
PathOf(i)  == Configured[i].path
Size(i)    == Configured[i].given.size

\* period / max_rate is 0: new() does not ask for more, and time::interval panics
\* at it, in the refill task.  The limiter is left without one.
NeverRefilled(i) == Configured[i].given.interval = 0

ASSUME LimitersAssumption ==
    /\ Len(Configured) \in Nat /\ Ids = 1..Len(Configured)
    /\ \A i \in Ids : Size(i) \in Nat \ {0} /\ PathOf(i) \in Seq(Range(PathOf(i)))
    /\ IsFiniteSet(Paths)
    /\ \A path \in Paths : path \in Seq(Range(path))
    /\ MaxRefills \in Nat
    /\ MaxRequests \in Nat

VARIABLES phase,       \* of the server
          added,       \* add_limiter calls made
          limiters,    \* the manager's map, from paths to numbers
          hashOrder,   \* the order in which it is iterated
          told,        \* how many of them shutdown has notified
          tokens, refilled, refiller, woken,  \* of each limiter, as in RateLimiter
          admitted,    \* history: requests of each path that got through
          requests     \* requests so far

manager == <<phase, added, limiters, hashOrder, told>>
buckets == <<tokens, refilled, refiller, woken>>
history == <<admitted, requests>>
vars    == <<manager, buckets, history>>

Init ==
    /\ phase = "starting"
    /\ added = 0
    /\ limiters = [p \in {} |-> 0]
    /\ hashOrder \in SetToSeqs({PathOf(i) : i \in Ids})
    /\ told = 0
    /\ tokens = [i \in Ids |-> Size(i)]
    /\ refilled = [i \in Ids |-> 0]
    /\ refiller = [i \in Ids |-> "none"]
    /\ woken = [i \in Ids |-> FALSE]
    /\ admitted = [p \in Paths |-> 0]
    /\ requests = 0

-----------------------------------------------------------------------------
(* The start. *)

\* Mutant: a limiter that is there already stays.
AddMissingLimiter ==
    /\ phase = "starting"
    /\ added < Len(Configured)
    /\ added' = added + 1
    /\ limiters' = [p \in DOMAIN limiters \union {PathOf(added + 1)} |->
                       IF p \in DOMAIN limiters THEN limiters[p] ELSE added + 1]
    /\ refiller' = [refiller EXCEPT ![added + 1] =
                        IF NeverRefilled(added + 1) THEN "panicked" ELSE "busy"]
    /\ UNCHANGED <<phase, hashOrder, told, tokens, refilled, woken, history>>

\* A limiter for its path takes the place of the one before, whose refill task
\* keeps it alive and goes on.  The first tick of an interval is ready at once.
AddLimiter ==
    /\ phase = "starting"
    /\ added < Len(Configured)
    /\ added' = added + 1
    /\ limiters' = [p \in DOMAIN limiters \union {PathOf(added + 1)} |->
                       IF p = PathOf(added + 1) THEN added + 1 ELSE limiters[p]]
    /\ refiller' = [refiller EXCEPT ![added + 1] =
                        IF NeverRefilled(added + 1) THEN "panicked" ELSE "busy"]
    /\ UNCHANGED <<phase, hashOrder, told, tokens, refilled, woken, history>>

Listen ==
    /\ phase = "starting"
    /\ added = Len(Configured)
    /\ phase' = "serving"
    /\ UNCHANGED <<added, limiters, hashOrder, told, buckets, history>>

-----------------------------------------------------------------------------
(* A request. *)

\* The limiter of the path itself, or the first in the map's order whose path
\* is a prefix of it.
GetLimiter(path) ==
    LET prefixes == {n \in DOMAIN hashOrder :
                        hashOrder[n] \in DOMAIN limiters /\ IsPrefix(hashOrder[n], path)}
    IN  IF path \in DOMAIN limiters THEN {limiters[path]}
        ELSE {limiters[hashOrder[n]] : n \in {n \in prefixes : \A m \in prefixes : n <= m}}

\* hyper takes requests until the shutdown of the limiters has returned, and
\* those it has taken may come to this point later still.
Request(path) ==
    /\ phase # "starting"
    /\ requests < MaxRequests
    /\ requests' = requests + 1

\* The retries that follow take no more tokens.
Admit(path) ==
    /\ Request(path)
    /\ \A i \in GetLimiter(path) : tokens[i] > 0
    /\ tokens' = [i \in Ids |-> IF i \in GetLimiter(path) THEN tokens[i] - 1 ELSE tokens[i]]
    /\ admitted' = [admitted EXCEPT ![path] = @ + 1]
    /\ UNCHANGED <<manager, refilled, refiller, woken>>

\* 429
Refuse(path) ==
    /\ Request(path)
    /\ \E i \in GetLimiter(path) : tokens[i] = 0
    /\ UNCHANGED <<manager, buckets, admitted>>

-----------------------------------------------------------------------------
(* The refill task of limiter i. *)

Tick(i) ==
    /\ refiller[i] = "select"
    /\ refilled[i] < MaxRefills
    /\ refiller' = [refiller EXCEPT ![i] = "busy"]
    /\ woken' = [woken EXCEPT ![i] = FALSE]
    /\ UNCHANGED <<manager, tokens, refilled, history>>

Refill(i) ==
    /\ refiller[i] = "busy"
    /\ tokens' = [tokens EXCEPT ![i] = IF @ < Size(i) THEN @ + 1 ELSE Size(i)]
    /\ refilled' = [refilled EXCEPT ![i] = @ + 1]
    /\ refiller' = [refiller EXCEPT ![i] = "select"]
    /\ UNCHANGED <<manager, woken, history>>

\* Mutant: the task of a full bucket has nothing left to do.
StopWhenFull(i) ==
    /\ refiller[i] = "select"
    /\ tokens[i] = Size(i)
    /\ refiller' = [refiller EXCEPT ![i] = "stopped"]
    /\ woken' = [woken EXCEPT ![i] = FALSE]
    /\ UNCHANGED <<manager, tokens, refilled, history>>

Stop(i) ==
    /\ refiller[i] = "select"
    /\ woken[i]
    /\ refiller' = [refiller EXCEPT ![i] = "stopped"]
    /\ woken' = [woken EXCEPT ![i] = FALSE]
    /\ UNCHANGED <<manager, tokens, refilled, history>>

-----------------------------------------------------------------------------
(* The shutdown, once module Lifecycle's server is drained. *)

BeginShutdown ==
    /\ phase = "serving"
    /\ phase' = "closing"
    /\ UNCHANGED <<added, limiters, hashOrder, told, buckets, history>>

\* The next limiter of the map is notified, which reaches its refill task if
\* that is in its select! just then.
NotifyNext ==
    /\ phase = "closing"
    /\ told < Len(hashOrder)
    /\ told' = told + 1
    /\ LET i == limiters[hashOrder[told + 1]]
       IN  woken' = [woken EXCEPT ![i] = refiller[i] = "select"]
    /\ UNCHANGED <<phase, added, limiters, hashOrder, tokens, refilled, refiller, history>>

RefillTask(i) == Tick(i) \/ Refill(i) \/ Stop(i)

Next ==
    \/ AddLimiter \/ Listen \/ BeginShutdown \/ NotifyNext
    \/ \E path \in Paths : Admit(path) \/ Refuse(path)
    \/ \E i \in Ids : RefillTask(i)

Spec == Init /\ [][Next]_vars

-----------------------------------------------------------------------------
TypeOK ==
    /\ phase \in {"starting", "serving", "closing"}
    /\ added \in 0..Len(Configured)
    /\ DOMAIN limiters = {PathOf(i) : i \in 1..added}
    /\ \A p \in DOMAIN limiters : limiters[p] \in 1..added /\ PathOf(limiters[p]) = p
    /\ told \in 0..Len(hashOrder)
    /\ \A i \in Ids : tokens[i] \in 0..Size(i)
    /\ refilled \in [Ids -> 0..MaxRefills + 1]
    /\ \A i \in Ids : refiller[i] \in {"busy", "select", "stopped", "panicked"} <=> i <= added
    /\ woken \in [Ids -> BOOLEAN]

\* The limiters that the configuration gives a path: the last one for the path
\* itself, or else for every prefix of it.
LastFor(path) == {i \in Ids : PathOf(i) = path /\ \A j \in Ids : j > i => PathOf(j) # path}

LimitersFor(path) ==
    IF LastFor(path) # {} THEN LastFor(path)
    ELSE UNION {LastFor(p) : p \in Prefixes(path)}

\* The tokens that each limiter has had.
Supply == [i \in Ids |-> Size(i) + refilled[i]]

\* Whatever the order of the map, whichever limiters the start has replaced, and
\* also from the shutdown of the limiters to the end of the last task: requests
\* whose paths have limiters get through on the tokens of these alone.
LimitsHold ==
    \A covered \in SUBSET {p \in Paths : LimitersFor(p) # {}} :
        MapThenSumSet(LAMBDA p : admitted[p], covered)
            <= MapThenSumSet(LAMBDA i : Supply[i], UNION {LimitersFor(p) : p \in covered})

\* Until the shutdown gets to it, a limiter that requests are charged to has a
\* refill task that goes on, unless the configuration gives it an interval of 0:
\* also where it took the place of one that had.
ChargedAreRefilled ==
    \A p \in DOMAIN limiters :
        \/ \E n \in 1..told : hashOrder[n] = p
        \/ NeverRefilled(limiters[p])
        \/ refiller[limiters[p]] \in {"busy", "select"}
=============================================================================
