----------------------------- MODULE RateLimiter -----------------------------
(***************************************************************************)
(* One RateLimiter of road7, src/rate_limiter.rs: the requests that        *)
(* acquire tokens, the handlers that report its status, its refill task    *)
(* and its shutdown.                                                       *)
(*                                                                         *)
(* The three values have an RwLock each.  Only the lock of `tokens` is     *)
(* ever held across an await, by a writer that goes on to write the        *)
(* instant of what it did; who holds it follows from where the tasks are.  *)
(* status() takes the locks one after the other and never two at once.     *)
(*                                                                         *)
(* An Instant is represented by the event it was taken at: last_acquire by *)
(* the number of the grant, last_refill by that of the refill, 0 for the   *)
(* creation of the limiter.                                                *)
(***************************************************************************)
EXTENDS Naturals

CONSTANTS Callers,      \* tasks that call acquire
          Viewers,      \* tasks that call status
          Capacity,
          Burst,
          MaxGrants,    \* no acquire is begun after so many grants,
          MaxRefills    \* and no tick is taken after so many refills

ASSUME LimiterAssumption ==
    /\ Callers \intersect Viewers = {}
    /\ Capacity \in Nat \ {0}
    /\ Burst \in Nat
    /\ MaxGrants \in Nat
    /\ MaxRefills \in Nat

VARIABLES at,             \* where each caller and viewer is
          refiller,       \* where the refill task is
          woken,          \* notify_waiters has reached its Notified future
          down,           \* shutdown has been called
          tokens,
          granted,        \* tokens granted so far
          refilled,       \* refills so far
          stamp,          \* the instant a caller took, and is about to write
          last_acquire,
          last_refill,
          view            \* what a viewer has read

shutdownVars == <<woken, down>>
vars == <<at, refiller, shutdownVars, tokens, granted, refilled, stamp,
          last_acquire, last_refill, view>>

Size == Capacity + Burst

\* Mutant: acquire drops its guard before it writes last_acquire.
NobodyWrites(p) == FALSE

\* A caller holds the write guard of `tokens` until it has written last_acquire.
WritesTokens(p) == at[p] = "stamp"

TokensFree ==
    /\ refiller # "stamp"
    /\ \A p \in Callers : ~WritesTokens(p)

NothingSeen == [tokens |-> Size, last_refill |-> 0, last_acquire |-> 0]

\* new() asks for a capacity and a max_rate above 0, and not for an interval,
\* period / max_rate, above 0.  At 0 time::interval panics: the refill task is
\* gone before it comes to its select!, and the limiter lives on without it.
Init ==
    /\ at = [p \in Callers \union Viewers |-> "idle"]
    /\ refiller \in {"select", "panicked"}
    /\ woken = FALSE
    /\ down = FALSE
    /\ tokens = Size
    /\ granted = 0
    /\ refilled = 0
    /\ stamp = [p \in Callers |-> 0]
    /\ last_acquire = 0
    /\ last_refill = 0
    /\ view = [v \in Viewers |-> NothingSeen]

-----------------------------------------------------------------------------
(* acquire *)

Acquire(p) ==
    /\ at[p] = "idle"
    /\ granted < MaxGrants
    /\ at' = [at EXCEPT ![p] = "tokens"]
    /\ UNCHANGED <<refiller, shutdownVars, tokens, granted, refilled, stamp,
                   last_acquire, last_refill, view>>

\* Mutant: the test of the token count is off by one.
TakeBelowZero(p) ==
    /\ at[p] = "tokens"
    /\ TokensFree
    /\ tokens >= 0
    /\ tokens' = tokens - 1
    /\ granted' = granted + 1
    /\ stamp' = [stamp EXCEPT ![p] = granted + 1]
    /\ at' = [at EXCEPT ![p] = "stamp"]
    /\ UNCHANGED <<refiller, shutdownVars, refilled, last_acquire, last_refill, view>>

\* A token is taken, and the instant with it: the right side of an assignment
\* is evaluated before the lock on its left is awaited.
Take(p) ==
    /\ at[p] = "tokens"
    /\ TokensFree
    /\ tokens > 0
    /\ tokens' = tokens - 1
    /\ granted' = granted + 1
    /\ stamp' = [stamp EXCEPT ![p] = granted + 1]
    /\ at' = [at EXCEPT ![p] = "stamp"]
    /\ UNCHANGED <<refiller, shutdownVars, refilled, last_acquire, last_refill, view>>

\* Mutant: acquire waits for a token instead of refusing.
WaitForToken(p) ==
    /\ at[p] = "tokens"
    /\ TokensFree
    /\ tokens = 0
    /\ UNCHANGED vars

\* RateLimitError::Exhausted
Refuse(p) ==
    /\ at[p] = "tokens"
    /\ TokensFree
    /\ tokens = 0
    /\ at' = [at EXCEPT ![p] = "idle"]
    /\ UNCHANGED <<refiller, shutdownVars, tokens, granted, refilled, stamp,
                   last_acquire, last_refill, view>>

Stamp(p) ==
    /\ at[p] = "stamp"
    /\ last_acquire' = stamp[p]
    /\ at' = [at EXCEPT ![p] = "idle"]
    /\ UNCHANGED <<refiller, shutdownVars, tokens, granted, refilled, stamp,
                   last_refill, view>>

-----------------------------------------------------------------------------
(* status *)

Status(v) ==
    /\ at[v] = "idle"
    /\ at' = [at EXCEPT ![v] = "tokens"]
    /\ view' = [view EXCEPT ![v] = NothingSeen]
    /\ UNCHANGED <<refiller, shutdownVars, tokens, granted, refilled, stamp,
                   last_acquire, last_refill>>

ReadTokens(v) ==
    /\ at[v] = "tokens"
    /\ TokensFree
    /\ view' = [view EXCEPT ![v].tokens = tokens]
    /\ at' = [at EXCEPT ![v] = "last_refill"]
    /\ UNCHANGED <<refiller, shutdownVars, tokens, granted, refilled, stamp,
                   last_acquire, last_refill>>

ReadLastRefill(v) ==
    /\ at[v] = "last_refill"
    /\ view' = [view EXCEPT ![v].last_refill = last_refill]
    /\ at' = [at EXCEPT ![v] = "last_acquire"]
    /\ UNCHANGED <<refiller, shutdownVars, tokens, granted, refilled, stamp,
                   last_acquire, last_refill>>

ReadLastAcquire(v) ==
    /\ at[v] = "last_acquire"
    /\ view' = [view EXCEPT ![v].last_acquire = last_acquire]
    /\ at' = [at EXCEPT ![v] = "idle"]
    /\ UNCHANGED <<refiller, shutdownVars, tokens, granted, refilled, stamp,
                   last_acquire, last_refill>>

-----------------------------------------------------------------------------
(* The refill task, and shutdown. *)

\* The interval's tick is ready, and select! takes it: also when the task has
\* been notified, for it drops the Notified future, and the notice, then.
Tick ==
    /\ refiller = "select"
    /\ refilled < MaxRefills
    /\ refiller' = "tokens"
    /\ woken' = FALSE
    /\ UNCHANGED <<at, down, tokens, granted, refilled, stamp, last_acquire,
                   last_refill, view>>

\* Mutant: the bucket overflows.
RefillUncapped ==
    /\ refiller = "tokens"
    /\ TokensFree
    /\ tokens' = tokens + 1
    /\ refilled' = refilled + 1
    /\ refiller' = "stamp"
    /\ UNCHANGED <<at, shutdownVars, granted, stamp, last_acquire, last_refill, view>>

\* Mutant: a tick fills the bucket up.
RefillWhole ==
    /\ refiller = "tokens"
    /\ TokensFree
    /\ tokens' = Size
    /\ refilled' = refilled + 1
    /\ refiller' = "stamp"
    /\ UNCHANGED <<at, shutdownVars, granted, stamp, last_acquire, last_refill, view>>

Refill ==
    /\ refiller = "tokens"
    /\ TokensFree
    /\ tokens' = IF tokens < Size THEN tokens + 1 ELSE Size
    /\ refilled' = refilled + 1
    /\ refiller' = "stamp"
    /\ UNCHANGED <<at, shutdownVars, granted, stamp, last_acquire, last_refill, view>>

StampRefill ==
    /\ refiller = "stamp"
    /\ last_refill' = refilled
    /\ refiller' = "select"
    /\ UNCHANGED <<at, shutdownVars, tokens, granted, refilled, stamp, last_acquire, view>>

\* notify_waiters reaches the futures that exist, and there is one only while
\* the refill task is in its select!.
Shutdown ==
    /\ ~down
    /\ down' = TRUE
    /\ woken' = (refiller = "select")
    /\ UNCHANGED <<at, refiller, tokens, granted, refilled, stamp, last_acquire,
                   last_refill, view>>

\* Mutant: the refill task also leaves its loop when nothing woke it.
StopUnasked ==
    /\ refiller = "select"
    /\ refiller' = "stopped"
    /\ woken' = FALSE
    /\ UNCHANGED <<at, down, tokens, granted, refilled, stamp, last_acquire,
                   last_refill, view>>

Stop ==
    /\ refiller = "select"
    /\ woken
    /\ refiller' = "stopped"
    /\ woken' = FALSE
    /\ UNCHANGED <<at, down, tokens, granted, refilled, stamp, last_acquire,
                   last_refill, view>>

Call(p)      == Take(p) \/ Refuse(p) \/ Stamp(p)
Report(v)    == ReadTokens(v) \/ ReadLastRefill(v) \/ ReadLastAcquire(v)
RefillTask   == Tick \/ Refill \/ StampRefill \/ Stop

Next ==
    \/ \E p \in Callers : Acquire(p) \/ Call(p)
    \/ \E v \in Viewers : Status(v) \/ Report(v)
    \/ RefillTask
    \/ Shutdown

Spec == Init /\ [][Next]_vars

\* tokio's RwLock serves its waiters in the order they came, so a task that
\* finds the lock free again and again gets it; ticks go on for ever.
Fairness ==
    /\ \A p \in Callers : SF_vars(Call(p))
    /\ \A v \in Viewers : SF_vars(Report(v))
    /\ SF_vars(RefillTask)

FairSpec == Spec /\ Fairness

-----------------------------------------------------------------------------
CallerPoints == {"idle", "tokens", "stamp"}
ViewerPoints == {"idle", "tokens", "last_refill", "last_acquire"}

TypeOK ==
    /\ at \in [Callers \union Viewers -> CallerPoints \union ViewerPoints]
    /\ \A p \in Callers : at[p] \in CallerPoints
    /\ \A v \in Viewers : at[v] \in ViewerPoints
    /\ refiller \in {"select", "tokens", "stamp", "stopped", "panicked"}
    /\ woken \in BOOLEAN
    /\ down \in BOOLEAN
    /\ tokens \in 0..Size
    /\ granted \in Nat
    /\ refilled \in Nat
    /\ stamp \in [Callers -> Nat]
    /\ last_acquire \in Nat
    /\ last_refill \in Nat
    /\ view \in [Viewers -> [tokens : 0..Size, last_refill : Nat, last_acquire : Nat]]

\* The limiter is a token bucket: no interleaving of acquires and refills loses
\* a token, grants one twice or fills the bucket beyond its size.
Bucket == INSTANCE TokenBucket WITH level <- tokens
IsTokenBucket == Bucket!Spec

\* No more tokens are ever granted than the bucket first held and the refills
\* put into it.
GrantsArePaidFor == granted + tokens <= Size + refilled

\* A status that has been put together accounts for every token it shows
\* missing: the acquire that took it is no later than its last_acquire, although
\* tokens, last_refill and last_acquire are read one after the other.
StatusAccountsForMissing ==
    \A v \in Viewers :
        at[v] = "idle" => view[v].tokens + view[v].last_acquire >= Size

\* last_acquire never goes back to an earlier acquire, whichever of two callers
\* is the first to write it.
LastAcquireAdvances == [][last_acquire' >= last_acquire]_vars

\* No lock of the limiter is waited for for ever.
EveryCallReturns ==
    \A p \in Callers \union Viewers : at[p] # "idle" ~> at[p] = "idle"

\* Until its shutdown an empty bucket is filled again, unless its interval is 0:
\* then the tokens of the start are all there ever are.
EmptyBucketRefills ==
    tokens = 0 /\ refiller # "panicked" ~> tokens > 0 \/ down \/ refilled >= MaxRefills
=============================================================================
