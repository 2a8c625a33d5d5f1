-------------------------- MODULE RateLimiterProofs --------------------------
(***************************************************************************)
(* Proofs about RateLimiter, for any callers, viewers and sizes.           *)
(*                                                                         *)
(* The argument: whoever writes `tokens` keeps the lock until it has       *)
(* written its instant, so there is one writer at a time, and whenever the *)
(* lock is free last_acquire is that of the last grant.  A status reads    *)
(* `tokens` at such a moment, and last_acquire, which only grows, later.   *)
(***************************************************************************)
EXTENDS RateLimiter, TLAPS

OneWriter ==
    \A p \in Callers :
        at[p] = "stamp" => /\ refiller # "stamp"
                           /\ \A q \in Callers : at[q] = "stamp" => q = p

\* The writer's instant is that of the last grant, and nobody else's is pending.
StampsOK ==
    /\ last_acquire <= granted
    /\ \A p \in Callers : at[p] = "stamp" => stamp[p] = granted
    /\ (\A p \in Callers : at[p] # "stamp") => last_acquire = granted

\* The bucket's level lies between what the grants leave and what the refills add.
LevelOK ==
    /\ Size <= tokens + granted
    /\ GrantsArePaidFor

ViewsOK ==
    /\ StatusAccountsForMissing
    /\ \A v \in Viewers :
           at[v] \in {"last_refill", "last_acquire"} => view[v].tokens + last_acquire >= Size

IInv == TypeOK /\ OneWriter /\ StampsOK /\ LevelOK /\ ViewsOK

LEMMA SizeNat == Size \in Nat
BY LimiterAssumption DEF Size

LEMMA InitIInv == Init => IInv
<1> SUFFICES ASSUME Init PROVE IInv
  OBVIOUS
<1>1. NothingSeen \in [tokens : 0..Size, last_refill : Nat, last_acquire : Nat]
  BY SizeNat DEF NothingSeen
<1>2. TypeOK
  <2>1. tokens \in 0..Size /\ granted \in Nat /\ refilled \in Nat
    BY SizeNat DEF Init
  <2>2. view \in [Viewers -> [tokens : 0..Size, last_refill : Nat, last_acquire : Nat]]
    BY <1>1 DEF Init
  <2>3. /\ at \in [Callers \union Viewers -> CallerPoints \union ViewerPoints]
        /\ \A p \in Callers : at[p] \in CallerPoints
        /\ \A v \in Viewers : at[v] \in ViewerPoints
    BY DEF Init, CallerPoints, ViewerPoints
  <2> QED BY <2>1, <2>2, <2>3 DEF Init, TypeOK
<1>3. OneWriter /\ StampsOK
  BY DEF Init, OneWriter, StampsOK
<1>4. LevelOK
  BY SizeNat DEF Init, LevelOK, GrantsArePaidFor
<1>5. ViewsOK
  BY SizeNat DEF Init, ViewsOK, StatusAccountsForMissing, NothingSeen
<1> QED BY <1>2, <1>3, <1>4, <1>5 DEF IInv

-----------------------------------------------------------------------------
(* The steps, one lemma for each kind of task. *)

\* A step that moves caller p to a point without the lock and changes no more.
LEMMA CallerMoves ==
    ASSUME IInv, NEW p \in Callers, NEW point \in {"idle", "tokens"},
           at[p] # "stamp",
           at' = [at EXCEPT ![p] = point],
           UNCHANGED <<refiller, shutdownVars, tokens, granted, refilled, stamp,
                       last_acquire, last_refill, view>>
    PROVE  IInv'
<1>1. TypeOK'
  BY SizeNat DEF IInv, TypeOK, shutdownVars, CallerPoints, ViewerPoints
<1>2. \A q \in Callers : at'[q] = "stamp" <=> at[q] = "stamp"
  BY DEF IInv, TypeOK
<1>3. \A v \in Viewers : at'[v] = at[v]
  BY LimiterAssumption DEF IInv, TypeOK
<1> QED
  BY <1>1, <1>2, <1>3
  DEF IInv, OneWriter, StampsOK, LevelOK, ViewsOK, GrantsArePaidFor, StatusAccountsForMissing

LEMMA TakeStep == ASSUME IInv, NEW p \in Callers, Take(p) PROVE IInv'
<1>0. /\ tokens \in Nat /\ granted \in Nat /\ tokens' = tokens - 1 /\ granted' = granted + 1
      /\ tokens > 0 /\ tokens <= Size /\ Size \in Nat
  BY SizeNat DEF IInv, TypeOK, Take
<1>1. TypeOK'
  <2>1. tokens' \in 0..Size /\ granted' \in Nat /\ stamp' \in [Callers -> Nat]
    BY <1>0 DEF IInv, TypeOK, Take
  <2>2. /\ at' \in [Callers \union Viewers -> CallerPoints \union ViewerPoints]
        /\ \A q \in Callers : at'[q] \in CallerPoints
        /\ \A v \in Viewers : at'[v] \in ViewerPoints
    BY LimiterAssumption DEF IInv, TypeOK, Take, CallerPoints
  <2> QED BY <2>1, <2>2 DEF IInv, TypeOK, Take, shutdownVars
<1>2. /\ refiller' # "stamp"
      /\ \A q \in Callers : at'[q] = "stamp" <=> q = p
      /\ stamp'[p] = granted'
  BY DEF IInv, TypeOK, Take, TokensFree, WritesTokens
<1>3. last_acquire' = last_acquire /\ last_acquire \in Nat /\ last_acquire <= granted
  BY DEF Take, IInv, StampsOK, TypeOK
<1>4. \A v \in Viewers : at'[v] = at[v] /\ view'[v] = view[v]
  BY LimiterAssumption DEF IInv, TypeOK, Take
<1>5. OneWriter' /\ StampsOK'
  BY <1>0, <1>2, <1>3 DEF OneWriter, StampsOK
<1>6. refilled' = refilled /\ refilled \in Nat
  BY DEF Take, IInv, TypeOK
<1>7. LevelOK'
  BY <1>0, <1>6 DEF IInv, LevelOK, GrantsArePaidFor
<1>8. ViewsOK'
  BY <1>3, <1>4 DEF IInv, ViewsOK, StatusAccountsForMissing
<1> QED BY <1>1, <1>5, <1>7, <1>8 DEF IInv

LEMMA StampStep == ASSUME IInv, NEW p \in Callers, Stamp(p) PROVE IInv'
<1>0. /\ last_acquire' = granted /\ granted' = granted /\ granted \in Nat
      /\ last_acquire \in Nat /\ last_acquire <= granted
  BY DEF Stamp, IInv, StampsOK, TypeOK
<1>1. TypeOK'
  BY <1>0 DEF IInv, TypeOK, Stamp, shutdownVars, CallerPoints, ViewerPoints
<1>2. \A q \in Callers : at'[q] # "stamp"
  BY DEF Stamp, IInv, OneWriter, TypeOK
<1>3. OneWriter' /\ StampsOK'
  BY <1>0, <1>2 DEF OneWriter, StampsOK
<1>4. LevelOK'
  BY DEF Stamp, IInv, LevelOK, GrantsArePaidFor
<1>5. \A v \in Viewers : at'[v] = at[v] /\ view'[v] = view[v] /\ view[v].tokens \in Nat
  BY SizeNat, LimiterAssumption DEF IInv, TypeOK, Stamp
<1>6. ViewsOK'
  BY <1>0, <1>5, SizeNat DEF IInv, ViewsOK, StatusAccountsForMissing
<1> QED BY <1>1, <1>3, <1>4, <1>6 DEF IInv

\* A step of viewer v: it leaves the limiter as it is.
LEMMA ViewerMoves ==
    ASSUME IInv, NEW v \in Viewers, NEW point \in ViewerPoints,
           at' = [at EXCEPT ![v] = point],
           view' \in [Viewers -> [tokens : 0..Size, last_refill : Nat, last_acquire : Nat]],
           \A u \in Viewers : u # v => view'[u] = view[u],
           point = "idle" => view'[v].tokens + view'[v].last_acquire >= Size,
           point \in {"last_refill", "last_acquire"} => view'[v].tokens + last_acquire >= Size,
           UNCHANGED <<refiller, shutdownVars, tokens, granted, refilled, stamp,
                       last_acquire, last_refill>>
    PROVE  IInv'
<1>1. TypeOK'
  BY SizeNat, LimiterAssumption DEF IInv, TypeOK, shutdownVars, CallerPoints, ViewerPoints
<1>2. \A q \in Callers : at'[q] = at[q]
  BY LimiterAssumption DEF IInv, TypeOK
<1>3. OneWriter' /\ StampsOK' /\ LevelOK'
  BY <1>2 DEF IInv, OneWriter, StampsOK, LevelOK, GrantsArePaidFor
<1>4. \A u \in Viewers : at'[u] = IF u = v THEN point ELSE at[u]
  BY DEF IInv, TypeOK
<1>5. ViewsOK'
  BY <1>4 DEF IInv, ViewsOK, StatusAccountsForMissing
<1> QED BY <1>1, <1>3, <1>5 DEF IInv

LEMMA ReportStep == ASSUME IInv, NEW v \in Viewers, Status(v) \/ Report(v) PROVE IInv'
<1> DEFINE Views == [tokens : 0..Size, last_refill : Nat, last_acquire : Nat]
<1>0. view \in [Viewers -> Views] /\ view[v] \in Views
  BY DEF IInv, TypeOK
<1>1. CASE Status(v)
  <2>1. NothingSeen \in Views
    BY SizeNat DEF NothingSeen
  <2>2. view' \in [Viewers -> Views]
    BY <1>0, <1>1, <2>1 DEF Status
  <2> QED BY <1>0, <1>1, <2>2, ViewerMoves DEF Status, ViewerPoints
<1>2. CASE ReadTokens(v)
  <2>1. last_acquire = granted /\ tokens + last_acquire >= Size /\ tokens \in 0..Size
    BY <1>2 DEF ReadTokens, IInv, TypeOK, TokensFree, WritesTokens, StampsOK, LevelOK
  <2>2. [view[v] EXCEPT !.tokens = tokens] \in Views
    BY <1>0, <2>1
  <2>3. view' = [view EXCEPT ![v] = [view[v] EXCEPT !.tokens = tokens]]
    BY <1>2 DEF ReadTokens
  <2>4. view' \in [Viewers -> Views] /\ view'[v].tokens = tokens
    BY <1>0, <2>2, <2>3
  <2> QED BY <1>0, <1>2, <2>1, <2>3, <2>4, ViewerMoves DEF ReadTokens, ViewerPoints
<1>3. CASE ReadLastRefill(v)
  <2>1. last_refill \in Nat /\ view[v].tokens + last_acquire >= Size
    BY <1>3 DEF ReadLastRefill, IInv, TypeOK, ViewsOK
  <2>2. [view[v] EXCEPT !.last_refill = last_refill] \in Views
    BY <1>0, <2>1
  <2>3. view' = [view EXCEPT ![v] = [view[v] EXCEPT !.last_refill = last_refill]]
    BY <1>3 DEF ReadLastRefill
  <2>4. view' \in [Viewers -> Views] /\ view'[v].tokens = view[v].tokens
    BY <1>0, <2>2, <2>3
  <2> QED BY <1>0, <1>3, <2>1, <2>3, <2>4, ViewerMoves DEF ReadLastRefill, ViewerPoints
<1>4. CASE ReadLastAcquire(v)
  <2>1. last_acquire \in Nat /\ view[v].tokens + last_acquire >= Size
    BY <1>4 DEF ReadLastAcquire, IInv, TypeOK, ViewsOK
  <2>2. [view[v] EXCEPT !.last_acquire = last_acquire] \in Views
    BY <1>0, <2>1
  <2>3. view' = [view EXCEPT ![v] = [view[v] EXCEPT !.last_acquire = last_acquire]]
    BY <1>4 DEF ReadLastAcquire
  <2>4. /\ view' \in [Viewers -> Views]
        /\ view'[v].tokens = view[v].tokens
        /\ view'[v].last_acquire = last_acquire
    BY <1>0, <2>2, <2>3
  <2> QED BY <1>0, <1>4, <2>1, <2>3, <2>4, ViewerMoves DEF ReadLastAcquire, ViewerPoints
<1> QED BY <1>1, <1>2, <1>3, <1>4 DEF Report

LEMMA RefillStep == ASSUME IInv, RefillTask \/ Shutdown PROVE IInv'
<1>1. CASE Tick \/ Stop \/ Shutdown
  <2>1. TypeOK'
    BY <1>1 DEF Tick, Stop, Shutdown, IInv, TypeOK
  <2> QED
    BY <1>1, <2>1
    DEF Tick, Stop, Shutdown, IInv, OneWriter, StampsOK, LevelOK, ViewsOK,
        GrantsArePaidFor, StatusAccountsForMissing
<1>2. CASE Refill
  <2>1. /\ tokens' = IF tokens < Size THEN tokens + 1 ELSE Size
        /\ refilled' = refilled + 1 /\ refilled \in Nat /\ granted \in Nat
        /\ tokens \in 0..Size /\ Size \in Nat
    BY <1>2, SizeNat DEF Refill, IInv, TypeOK
  <2>2. TypeOK'
    BY <1>2, <2>1 DEF Refill, IInv, TypeOK, shutdownVars
  <2>3. \A p \in Callers : at'[p] # "stamp"
    BY <1>2 DEF Refill, TokensFree, WritesTokens
  <2>4. OneWriter' /\ StampsOK' /\ ViewsOK'
    BY <1>2, <2>3
    DEF Refill, IInv, OneWriter, StampsOK, ViewsOK, StatusAccountsForMissing
  <2>5. LevelOK'
    BY <1>2, <2>1 DEF Refill, IInv, LevelOK, GrantsArePaidFor
  <2> QED BY <2>2, <2>4, <2>5 DEF IInv
<1>3. CASE StampRefill
  <2>1. TypeOK'
    BY <1>3 DEF StampRefill, IInv, TypeOK, shutdownVars
  <2> QED
    BY <1>3, <2>1
    DEF StampRefill, IInv, OneWriter, StampsOK, LevelOK, ViewsOK,
        GrantsArePaidFor, StatusAccountsForMissing
<1> QED BY <1>1, <1>2, <1>3 DEF RefillTask

LEMMA IInvStep == IInv /\ [Next]_vars => IInv'
<1> SUFFICES ASSUME IInv, [Next]_vars PROVE IInv'
  OBVIOUS
<1>1. ASSUME NEW p \in Callers, Acquire(p) \/ Refuse(p) PROVE IInv'
  BY <1>1, CallerMoves DEF Acquire, Refuse
<1>2. CASE UNCHANGED vars
  BY <1>2
  DEF vars, shutdownVars, IInv, TypeOK, OneWriter, StampsOK, LevelOK, ViewsOK,
      GrantsArePaidFor, StatusAccountsForMissing
<1> QED
  BY <1>1, <1>2, TakeStep, StampStep, ReportStep, RefillStep DEF Next, Call

-----------------------------------------------------------------------------
\* TypeOK: the tokens never leave 0..capacity + burst_capacity.
THEOREM TypeCorrect == Spec => []TypeOK
<1>1. IInv => TypeOK
  BY DEF IInv
<1> QED BY InitIInv, IInvStep, <1>1, PTL DEF Spec

\* GrantsArePaidFor: never more grants than the first fill and the refills.
THEOREM GrantsPaidFor == Spec => []GrantsArePaidFor
<1>1. IInv => GrantsArePaidFor
  BY DEF IInv, LevelOK
<1> QED BY InitIInv, IInvStep, <1>1, PTL DEF Spec

\* StatusAccountsForMissing: a status is coherent though it is read in pieces.
THEOREM StatusCoherent == Spec => []StatusAccountsForMissing
<1>1. IInv => StatusAccountsForMissing
  BY DEF IInv, ViewsOK
<1> QED BY InitIInv, IInvStep, <1>1, PTL DEF Spec

\* LastAcquireAdvances: acquires write their instants in the order of the grants.
THEOREM LastAcquireInOrder == Spec => LastAcquireAdvances
<1>1. IInv /\ [Next]_vars => [last_acquire' >= last_acquire]_vars
  <2> SUFFICES ASSUME IInv, Next PROVE last_acquire' >= last_acquire
    OBVIOUS
  <2>0. last_acquire \in Nat
    BY DEF IInv, TypeOK
  <2>1. ASSUME NEW p \in Callers, Stamp(p) PROVE last_acquire' >= last_acquire
    BY <2>1 DEF Stamp, IInv, StampsOK, TypeOK
  <2>2. ASSUME NEW p \in Callers, Acquire(p) \/ Take(p) \/ Refuse(p)
        PROVE  last_acquire' = last_acquire
    BY <2>2 DEF Acquire, Take, Refuse
  <2>3. ASSUME NEW v \in Viewers, Status(v) \/ Report(v) PROVE last_acquire' = last_acquire
    BY <2>3 DEF Status, Report, ReadTokens, ReadLastRefill, ReadLastAcquire
  <2>4. ASSUME RefillTask \/ Shutdown PROVE last_acquire' = last_acquire
    BY <2>4 DEF RefillTask, Tick, Refill, StampRefill, Stop, Shutdown
  <2> QED BY <2>0, <2>1, <2>2, <2>3, <2>4 DEF Next, Call
<1> QED BY InitIInv, IInvStep, <1>1, PTL DEF Spec, LastAcquireAdvances

\* IsTokenBucket: every step of the limiter is a grant or a refill of module
\* TokenBucket, or changes nothing of the bucket.
THEOREM Refinement == Spec => IsTokenBucket
<1>1. Init => Bucket!Init
  BY DEF Init, Bucket!Init
<1>2. IInv /\ [Next]_vars => [Bucket!Grant \/ Bucket!Refill]_(Bucket!vars)
  <2> SUFFICES ASSUME [Next]_vars
               PROVE  Bucket!Grant \/ Bucket!Refill \/ UNCHANGED Bucket!vars
    OBVIOUS
  <2>1. ASSUME NEW p \in Callers, Take(p) PROVE Bucket!Grant
    BY <2>1 DEF Take, Bucket!Grant
  <2>2. ASSUME NEW p \in Callers, Acquire(p) \/ Refuse(p) \/ Stamp(p)
        PROVE  UNCHANGED Bucket!vars
    BY <2>2 DEF Acquire, Refuse, Stamp, Bucket!vars
  <2>3. ASSUME NEW v \in Viewers, Status(v) \/ Report(v) PROVE UNCHANGED Bucket!vars
    BY <2>3 DEF Status, Report, ReadTokens, ReadLastRefill, ReadLastAcquire, Bucket!vars
  <2>4. CASE Refill
    BY <2>4 DEF Refill, Bucket!Refill
  <2>5. CASE Tick \/ StampRefill \/ Stop \/ Shutdown
    BY <2>5 DEF Tick, StampRefill, Stop, Shutdown, Bucket!vars
  <2>6. CASE UNCHANGED vars
    BY <2>6 DEF vars, Bucket!vars
  <2> QED BY <2>1, <2>2, <2>3, <2>4, <2>5, <2>6 DEF Next, Call, RefillTask
<1> QED BY InitIInv, IInvStep, <1>1, <1>2, PTL DEF Spec, IsTokenBucket, Bucket!Spec
=============================================================================
