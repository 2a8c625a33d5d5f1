--------------------------- MODULE RetryStrategies ---------------------------
(***************************************************************************)
(* The retry strategies of src/retry.rs: how long proxy_request sleeps     *)
(* before it tries again.  A strategy is a value; every request gets one   *)
(* of its own from find_target, and delay() takes it to its next value.    *)
(*                                                                         *)
(* Durations are counted in the grains of a second, 10^9 nanoseconds in    *)
(* the code.  A factor, an f64 there, is a fraction <<n, d>>: it may lie   *)
(* below 1, be 0 or negative, and is not infinite or NaN.  An Option is a  *)
(* set of at most one element.  The overflows of Duration and of u64 are   *)
(* left out: they need some sixty attempts, and sleeps longer than any     *)
(* time-out before them, or a base delay of 0.                             *)
(***************************************************************************)
EXTENDS Integers, Sequences

CONSTANT Grains   \* in a second

ASSUME GrainsAssumption == Grains \in Nat \ {0}

Strategies == {"FixedInterval", "ExponentialBackoff", "LinearBackoff", "RandomDelay",
               "IncrementalBackoff", "FibonacciBackoff", "GeometricBackoff",
               "HarmonicBackoff"}

Fractions == Int \X (Nat \ {0})

\* A RetryConfig.  One without an attempt sends nothing and never sleeps.
IsRetryConfig(c) ==
    /\ c.base \in Nat
    /\ c.step \subseteq Nat
    /\ c.factor \subseteq Fractions
    /\ c.jitter \subseteq Fractions /\ \A i, j \in c.jitter : i = j
    /\ c.max_attempts \in Nat \ {0}

Or(option, default) == IF option = {} THEN default ELSE CHOOSE v \in option : TRUE

\* Mutant: the seconds of a RandomDelay end where they begin.
DefaultStepSame(c) ==
    CASE c.strategy \in {"LinearBackoff", "RandomDelay"} -> c.base
      [] c.strategy = "IncrementalBackoff"               -> 1
      [] OTHER                                           -> 0

DefaultStep(c) ==
    CASE c.strategy = "LinearBackoff"      -> c.base
      [] c.strategy = "RandomDelay"        -> 2 * c.base
      [] c.strategy = "IncrementalBackoff" -> 1
      [] OTHER                             -> 0

\* RetryConfig::to_strategy; a name it does not know is a fixed interval.
ToStrategy(c) ==
    [kind    |-> IF c.strategy \in Strategies THEN c.strategy ELSE "FixedInterval",
     base    |-> c.base,
     step    |-> Or(c.step, DefaultStep(c)),
     factor  |-> Or(c.factor, <<2, 1>>),
     jitter  |-> c.jitter,
     attempt |-> 1,
     current |-> 1,
     next    |-> 1]

\* a to the power of n, with its recursion in sight of the proofs.
Power(a, n) == LET power[m \in Nat] == IF m = 0 THEN 1 ELSE a * power[m - 1] IN power[n]

\* a / b to the nearest whole number, and halfway to the even one, as Duration
\* rounds to nanoseconds.
Rounded(a, b) ==
    LET q == a \div b
        r == a % b
    IN  IF 2 * r > b \/ (2 * r = b /\ q % 2 = 1) THEN q + 1 ELSE q

\* What has grown out of a delay by the n-th power of a factor.
Grown(first, factor, n) == Rounded(first * Power(factor[1], n), Power(factor[2], n))

\* mul_f64 panics at a negative product, which a negative factor has in the first
\* delay already.
ExponentialDelays(s) ==
    IF s.base = 0 THEN {0}
    ELSE {Grown(s.base * Grains, f, s.attempt) : f \in {f \in {s.factor} : f[1] >= 0}}
GeometricDelays(s)  == ExponentialDelays(s)

LinearDelay(s)      == (s.base + s.step * s.attempt) * Grains
IncrementalDelay(s) == LinearDelay(s)
FibonacciDelay(s)   == s.base * s.current * Grains
HarmonicDelay(s)    == (s.base * Grains) \div s.attempt

\* Whole seconds from the range, and any part of a second.
RandomDelays(s) == s.base * Grains .. s.step * Grains - 1

\* The delays the strategy itself may choose, in grains; none when it panics,
\* as RandomDelay also does on an empty range of seconds.
Plain(s) ==
    CASE s.kind = "ExponentialBackoff" -> ExponentialDelays(s)
      [] s.kind = "GeometricBackoff"   -> GeometricDelays(s)
      [] s.kind = "LinearBackoff"      -> {LinearDelay(s)}
      [] s.kind = "IncrementalBackoff" -> {IncrementalDelay(s)}
      [] s.kind = "FibonacciBackoff"   -> {FibonacciDelay(s)}
      [] s.kind = "HarmonicBackoff"    -> {HarmonicDelay(s)}
      [] s.kind = "RandomDelay"        -> RandomDelays(s)
      [] s.kind = "FixedInterval"      -> {s.base * Grains}

\* Mutant: the previous Fibonacci number is lost.
SteppedLosing(s) ==
    CASE s.kind = "FibonacciBackoff" ->
            [s EXCEPT !.current = s.next, !.next = s.next + s.next]
      [] OTHER -> [s EXCEPT !.attempt = @ + 1]

\* The strategy after a call of delay().
Stepped(s) ==
    CASE s.kind \in {"FixedInterval", "RandomDelay"} -> s
      [] s.kind = "FibonacciBackoff" ->
            [s EXCEPT !.current = s.next, !.next = s.current + s.next]
      [] OTHER -> [s EXCEPT !.attempt = @ + 1]

\* The grains in a jitter of d; nothing also stands for a negative product.
JitterRange(j, d) == IF j[1] > 0 THEN Rounded(d * j[1], j[2]) ELSE 0

\* The delays within a plain one's jitter; none when the jitter is negative, and
\* mul_f64 panics, or rounded to nothing, and gen_range does.
Jittered(s, d) ==
    IF s.jitter = {} THEN {d}
    ELSE LET range == JitterRange(CHOOSE j \in s.jitter : TRUE, d)
         IN  IF range = 0 THEN {} ELSE d .. d + range

\* What delay() may do: {d} for a delay d, {} for a panic.
DelayOutcomes(s) ==
    IF Plain(s) = {} THEN {{}}
    ELSE UNION {IF Jittered(s, d) = {} THEN {{}} ELSE {{e} : e \in Jittered(s, d)}
                  : d \in Plain(s)}

-----------------------------------------------------------------------------
(* What the strategies promise of the delays of one request. *)

Growing   == {"ExponentialBackoff", "GeometricBackoff"}
Advancing == {"LinearBackoff", "IncrementalBackoff"}

\* The last attempt that is followed by a sleep.
LastSlept(c) == IF c.max_attempts > 1 THEN c.max_attempts - 1 ELSE 1

\* The shortest delay that a configuration has before its jitter: the first one,
\* or the last of those that shrink.
Least(c) ==
    LET s     == ToStrategy(c)
        first == c.base * Grains
        least == IF s.factor[1] < s.factor[2] THEN LastSlept(c) ELSE 1
    IN  CASE s.kind \in Growing         -> IF s.factor[1] < 0 THEN 0
                                           ELSE Grown(first, s.factor, least)
          [] s.kind \in Advancing       -> first + s.step * Grains
          [] s.kind = "HarmonicBackoff" -> first \div LastSlept(c)
          [] OTHER                      -> first

\* The configurations whose delay() can panic: an empty range of seconds, a
\* negative factor, or a jitter that is negative or, for its factor or for a
\* delay as short, nothing.
CanPanic(c) ==
    \/ c.strategy = "RandomDelay" /\ Or(c.step, 2 * c.base) <= c.base
    \/ c.strategy \in Growing /\ c.base > 0 /\ ToStrategy(c).factor[1] < 0
    \/ \E j \in c.jitter : JitterRange(j, Least(c)) = 0

\* y is x times the factor, to within what the rounding of both makes of it; a
\* whole factor leaves nothing to round.
IsTimes(factor, x, y) ==
    LET slack == IF factor[2] = 1 THEN 0 ELSE factor[1] + factor[2]
    IN  /\ 2 * factor[2] * y <= 2 * factor[1] * x + slack
        /\ 2 * factor[1] * x <= 2 * factor[2] * y + slack

\* What the strategies are named for, as a relation between the delays of one
\* request: each a factor or a step more than the one before, the sum of the
\* two before, the n-th part of the first, or within its range.  A negative
\* factor leaves no delay but of nothing.
PlainLaw(c, delays) ==
    LET s     == ToStrategy(c)
        first == c.base * Grains
    IN  CASE s.kind \in Growing ->
               \A n \in DOMAIN delays :
                   IF s.factor[1] < 0 THEN delays[n] = 0
                   ELSE IsTimes(s.factor, IF n = 1 THEN first ELSE delays[n - 1], delays[n])
          [] s.kind \in Advancing ->
               \A n \in DOMAIN delays :
                   delays[n] = s.step * Grains + (IF n = 1 THEN first ELSE delays[n - 1])
          [] s.kind = "FibonacciBackoff" ->
               \A n \in DOMAIN delays :
                   delays[n] = IF n <= 2 THEN first ELSE delays[n - 1] + delays[n - 2]
          [] s.kind = "HarmonicBackoff" ->
               \A n \in DOMAIN delays :
                   n * delays[n] <= first /\ first < n * (delays[n] + 1)
          [] s.kind = "RandomDelay" ->
               \A n \in DOMAIN delays : first <= delays[n] /\ delays[n] < s.step * Grains
          [] OTHER -> \A n \in DOMAIN delays : delays[n] = first

\* With jitter, none is shorter than the shortest, and those of a fixed interval
\* are no longer than it and its jitter, up to half a grain.
JitteredLaw(c, delays) ==
    \A n \in DOMAIN delays :
        /\ Least(c) <= delays[n]
        /\ ToStrategy(c).kind = "FixedInterval" =>
               \A j \in c.jitter :
                   2 * (delays[n] - c.base * Grains) * j[2] <= 2 * c.base * Grains * j[1] + j[2]

FollowsLaw(c, delays) ==
    IF c.jitter = {} THEN PlainLaw(c, delays) ELSE JitteredLaw(c, delays)
=============================================================================
