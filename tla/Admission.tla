------------------------------ MODULE Admission ------------------------------
(***************************************************************************)
(* What a caller may rely on of road7's circuit breaking, with no clock, no *)
(* counters, no attempts and no semaphore.  A gate stands before a target. *)
(* While it is Closed everybody passes.  While it is not, those who pass   *)
(* are probes, at most Quota + 1 of them at a time.  Any outcome settles   *)
(* the gate: a failure of a probe shuts it again, one success of anybody, a *)
(* probe or not, opens it, whatever the Quota.  A client may also vanish   *)
(* without an outcome; the gate then stays as it is, and a half-open one    *)
(* may be left with no probe to settle it.                                 *)
(***************************************************************************)
EXTENDS Naturals, FiniteSets

CONSTANTS Clients, Limit, Quota

VARIABLES gate, inflight, candidates

gateVars == <<gate, inflight, candidates>>

GateInit == gate = "Closed" /\ inflight = {} /\ candidates = {}

Enter(c) ==
    /\ c \notin inflight
    /\ Cardinality(inflight) < Limit
    /\ inflight' = inflight \union {c}

Pass(c) ==
    /\ gate = "Closed"
    /\ Enter(c)
    /\ UNCHANGED <<gate, candidates>>

Probe(c) ==
    /\ gate \in {"Open", "HalfOpen"}
    /\ Cardinality(candidates) <= Quota
    /\ Enter(c)
    /\ gate' = "HalfOpen"
    /\ candidates' = candidates \union {c}

\* A success; the client may stay, to be heard of again.
Succeed(c) ==
    /\ c \in inflight
    /\ inflight' \in {inflight, inflight \ {c}}
    /\ gate' = "Closed"
    /\ candidates' = {}

\* A failure may leave a Closed gate as it is, never another.
Fail(c) ==
    /\ c \in inflight
    /\ inflight' = inflight \ {c}
    /\ gate' = "Open" \/ (gate = "Closed" /\ gate' = "Closed")
    /\ candidates' = {}

\* A panic: nobody learns how it ended.
Vanish(c) ==
    /\ c \in inflight
    /\ inflight' = inflight \ {c}
    /\ candidates' = candidates \ {c}
    /\ UNCHANGED gate

GateNext ==
    \E c \in Clients : Pass(c) \/ Probe(c) \/ Succeed(c) \/ Fail(c) \/ Vanish(c)

GateSpec == GateInit /\ [][GateNext]_gateVars
=============================================================================
