------------------------------ MODULE Lifecycle ------------------------------
(***************************************************************************)
(* A road7 server from its start to its end: run_proxy in src/main.rs.     *)
(*                                                                         *)
(* Each request gets a task that counts it in and out, in the counter      *)
(* `ongoing_requests` that the shutdown looks at and in the gauge of the    *)
(* same name.  What happens to the request in proxy_request is module       *)
(* ProxyRequest; here it is only where proxy_request sets the gauge,        *)
(* answers or panics.                                                      *)
(*                                                                         *)
(* On CTRL+C the signal future polls the counter, shuts the rate limiters  *)
(* down and completes; only then does hyper stop to take requests, and it  *)
(* ends the server when the last connection is done.                       *)
(***************************************************************************)
EXTENDS Integers, FiniteSets

CONSTANTS Slots,            \* requests the server works on at a time
          ShutdownTimeout,  \* SHUTDOWN_TIMEOUT, in polls
          HasBotDetector,   \* config.bot_detector is given
          MayPanic,         \* proxy_request may panic
          MaxReceived       \* requests that come in

ASSUME LifecycleAssumption ==
    /\ IsFiniteSet(Slots)
    /\ ShutdownTimeout \in Nat
    /\ HasBotDetector \in BOOLEAN
    /\ MayPanic \in BOOLEAN
    /\ MaxReceived \in Nat

VARIABLES at,          \* where the task of each slot is
          loaded,      \* the value a task is about to set the gauge to, or 0
          ongoing,     \* proxy_state.ongoing_requests
          gauge,       \* metrics.ongoing_requests
          received,    \* requests received so far
          lost,        \* tasks that ended without counting their request out
          phase,       \* of the server
          waited,      \* polls since CTRL+C
          awaited      \* history: requests counted in at CTRL+C and still in hand

metrics == <<gauge, loaded>>
server  == <<phase, waited>>
vars    == <<at, ongoing, metrics, received, lost, server, awaited>>

\* The points of a task between its fetch_add and its fetch_sub.
CountedPoints == {"counted", "entered", "measured", "working", "returned"}
Points == CountedPoints \union {"none", "spawned", "uncounted"}

Counted == {r \in Slots : at[r] \in CountedPoints}

Init ==
    /\ at = [r \in Slots |-> "none"]
    /\ loaded = [r \in Slots |-> 0]
    /\ ongoing = 0
    /\ gauge = 0
    /\ received = 0
    /\ lost = 0
    /\ phase = "serving"
    /\ waited = 0
    /\ awaited = {}

\* The request is one of the ongoing no more.
Ends(r) == awaited' = awaited \ {r}

Moves(r, from, to) ==
    /\ at[r] = from
    /\ at' = [at EXCEPT ![r] = to]

-----------------------------------------------------------------------------
(* The task of a request. *)

\* Requests are taken until hyper has the signal, also while the counter is polled.
Receive(r) ==
    /\ Moves(r, "none", "spawned")
    /\ phase \in {"serving", "draining", "drained"}
    /\ received < MaxReceived
    /\ received' = received + 1
    /\ UNCHANGED <<ongoing, metrics, lost, server, awaited>>

CountIn(r) ==
    /\ Moves(r, "spawned", "counted")
    /\ ongoing' = ongoing + 1
    /\ UNCHANGED <<gauge, loaded, received, lost, server, awaited>>

GaugeIn(r) ==
    /\ Moves(r, "counted", "entered")
    /\ gauge' = gauge + 1
    /\ UNCHANGED <<ongoing, loaded, received, lost, server, awaited>>

\* A bot is answered without being counted out.
RejectBot(r) ==
    /\ HasBotDetector
    /\ Moves(r, "entered", "none")
    /\ lost' = lost + 1
    /\ Ends(r)
    /\ UNCHANGED <<ongoing, metrics, received, server>>

\* Mutant: an answer given at once also counts the request out.
AnswerAndCountOut(r) ==
    /\ Moves(r, "entered", "returned")
    /\ ongoing' = ongoing - 1
    /\ Ends(r)
    /\ UNCHANGED <<metrics, received, lost, server>>

\* An invalid request, a health check, metrics or the limiters' status.
AnswerAtOnce(r) ==
    /\ Moves(r, "entered", "returned")
    /\ UNCHANGED <<ongoing, metrics, received, lost, server, awaited>>

\* Mutant: the counter is advanced where it is only to be read.
MeasureCounting(r) ==
    /\ Moves(r, "entered", "measured")
    /\ ongoing' = ongoing + 1
    /\ loaded' = [loaded EXCEPT ![r] = ongoing + 1]
    /\ UNCHANGED <<gauge, received, lost, server, awaited>>

\* proxy_request reads the counter, and takes one more than it says.
Measure(r) ==
    /\ Moves(r, "entered", "measured")
    /\ loaded' = [loaded EXCEPT ![r] = ongoing + 1]
    /\ UNCHANGED <<ongoing, gauge, received, lost, server, awaited>>

\* Mutant: the gauge is raised by the count that it is to be set to.
RaiseGauge(r) ==
    /\ Moves(r, "measured", "working")
    /\ gauge' = gauge + loaded[r]
    /\ loaded' = [loaded EXCEPT ![r] = 0]
    /\ UNCHANGED <<ongoing, received, lost, server, awaited>>

\* In a task of its own, which is awaited.
SetGauge(r) ==
    /\ Moves(r, "measured", "working")
    /\ gauge' = loaded[r]
    /\ loaded' = [loaded EXCEPT ![r] = 0]
    /\ UNCHANGED <<ongoing, received, lost, server, awaited>>

Answer(r) ==
    /\ Moves(r, "working", "returned")
    /\ UNCHANGED <<ongoing, metrics, received, lost, server, awaited>>

\* Over a body that breaks off, or later: handle.await returns a JoinError, and
\* hyper gets a 500.
Panic(r) ==
    /\ MayPanic
    /\ Moves(r, "entered", "none") \/ Moves(r, "working", "none")
    /\ lost' = lost + 1
    /\ Ends(r)
    /\ UNCHANGED <<ongoing, metrics, received, server>>

CountOut(r) ==
    /\ Moves(r, "returned", "uncounted")
    /\ ongoing' = ongoing - 1
    /\ Ends(r)
    /\ UNCHANGED <<metrics, received, lost, server>>

GaugeOut(r) ==
    /\ Moves(r, "uncounted", "none")
    /\ gauge' = gauge - 1
    /\ UNCHANGED <<ongoing, loaded, received, lost, server, awaited>>

-----------------------------------------------------------------------------
(* The signal future given to with_graceful_shutdown, and hyper. *)

CtrlC ==
    /\ phase = "serving"
    /\ phase' = "draining"
    /\ awaited' = Counted
    /\ UNCHANGED <<at, ongoing, metrics, received, lost, waited>>

\* Mutant: the polling does not give up.
PollForEver ==
    /\ phase = "draining"
    /\ IF ongoing > 0
       THEN UNCHANGED server
       ELSE phase' = "drained" /\ UNCHANGED waited
    /\ UNCHANGED <<at, ongoing, metrics, received, lost, awaited>>

\* Mutant: one request is taken for none.
PollOneOff ==
    /\ phase = "draining"
    /\ IF ongoing > 1 /\ waited <= ShutdownTimeout
       THEN waited' = waited + 1 /\ UNCHANGED phase
       ELSE phase' = "drained" /\ UNCHANGED waited
    /\ UNCHANGED <<at, ongoing, metrics, received, lost, awaited>>

\* A round of the polling loop, with its sleep.
Poll ==
    /\ phase = "draining"
    /\ IF ongoing > 0 /\ waited <= ShutdownTimeout
       THEN waited' = waited + 1 /\ UNCHANGED phase
       ELSE phase' = "drained" /\ UNCHANGED waited
    /\ UNCHANGED <<at, ongoing, metrics, received, lost, awaited>>

\* proxy_state.shutdown() has returned, and with it the future.
StopTaking ==
    /\ phase = "drained"
    /\ phase' = "closing"
    /\ UNCHANGED <<at, ongoing, metrics, received, lost, waited, awaited>>

\* hyper waits for its connections, and for no time-out: until every request
\* that is in has been answered,
Close ==
    /\ phase = "closing"
    /\ \A r \in Slots : at[r] = "none"
    /\ phase' = "closed"
    /\ UNCHANGED <<at, ongoing, metrics, received, lost, waited, awaited>>

\* or has lost its client.  Its task is detached and goes on until the runtime
\* is dropped.
CloseOnTasks ==
    /\ phase = "closing"
    /\ \E r \in Slots : at[r] # "none"
    /\ phase' = "closed"
    /\ UNCHANGED <<at, ongoing, metrics, received, lost, waited, awaited>>

Task(r) ==
    \/ CountIn(r) \/ GaugeIn(r) \/ RejectBot(r) \/ AnswerAtOnce(r) \/ Measure(r)
    \/ SetGauge(r) \/ Answer(r) \/ Panic(r) \/ CountOut(r) \/ GaugeOut(r)

Next ==
    \/ \E r \in Slots : Receive(r) \/ Task(r)
    \/ CtrlC \/ Poll \/ StopTaking \/ Close \/ CloseOnTasks

Spec == Init /\ [][Next]_vars

\* The steps of a task that the runtime owes it.  Whether proxy_request returns is
\* not among them: a request stays where it is being read or worked on for as
\* long as its client's body, the target's 304s or the body of a response to
\* be cached go on, or for ever behind an expired entry.
Owed(r) == CountIn(r) \/ GaugeIn(r) \/ SetGauge(r) \/ CountOut(r) \/ GaugeOut(r)

\* Tasks and the shutdown are scheduled.  A client need not leave.
Fairness ==
    /\ \A r \in Slots : WF_vars(phase # "closed" /\ Owed(r))
    /\ WF_vars(Poll \/ StopTaking \/ Close)

FairSpec == Spec /\ Fairness

-----------------------------------------------------------------------------
TypeOK ==
    /\ at \in [Slots -> Points]
    /\ loaded \in [Slots -> Nat]
    /\ ongoing \in Nat
    /\ gauge \in Int
    /\ received \in Nat
    /\ lost \in Nat
    /\ phase \in {"serving", "draining", "drained", "closing", "closed"}
    /\ waited \in 0..ShutdownTimeout + 1
    /\ awaited \subseteq Slots

\* The counter is the number of tasks that have counted themselves in and not
\* out, and of those that ended without doing so: bots and panics.
OngoingConserved == ongoing = Cardinality(Counted) + lost

\* The tasks that the gauge has gone up and not down for.
Gauged == {r \in Slots : at[r] \in {"entered", "measured", "working", "returned", "uncounted"}}

\* The gauge is set to a count that is one too high when it is read and stale when
\* it is written, while other tasks raise and lower it.  The error of one request
\* does not add to that of the next, however many there have been: it never shows
\* more than the server can work on beside what it does and what was lost, and
\* falls behind by less than that.
GaugeDriftBounded ==
    /\ gauge <= Cardinality(Gauged) + Cardinality(Slots) + lost
    /\ \/ gauge >= Cardinality(Gauged)
       \/ gauge + Cardinality(Slots) >= Cardinality(Gauged) + 2

\* A request that had counted itself in when CTRL+C came has counted itself out,
\* or was lost, when the polling ends before its time.  A task that was spawned by
\* then but had not come to count itself in, and one that came later, are waited
\* for only if the counter happens to be read while they are on it.
DrainWaits ==
    phase \in {"drained", "closing", "closed"} /\ waited <= ShutdownTimeout => awaited = {}

\* Every request is read, and answered by proxy_request, in the end.
RequestsReturn == \A r \in Slots : []<>(at[r] \notin {"entered", "working"})

\* Once asked to, the server stops to take requests, whatever becomes of those it
\* has and whatever was never counted out; and it ends, if they return.
ServerStops ==
    /\ phase = "draining" ~> phase \in {"closing", "closed"}
    /\ RequestsReturn => (phase = "draining" ~> phase = "closed")
=============================================================================
