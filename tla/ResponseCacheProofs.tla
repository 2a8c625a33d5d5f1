------------------------- MODULE ResponseCacheProofs -------------------------
(***************************************************************************)
(* Proofs about ResponseCache, for any tasks, keys, shards and TTL.        *)
(***************************************************************************)
EXTENDS ResponseCache, TLAPS

\* A task at the point of putting a response has made the cache it puts it in.
PutHasCache == \A t \in Tasks : at[t] = "put" => Made(key[t])

IInv == TypeOK /\ PutHasCache

\* A cache that is made stays made.
LEMMA MadeStays ==
    ASSUME IInv, [Next]_vars, NEW k \in Keys, Made(k)
    PROVE  Made(k)'
<1> USE DEF Made
<1>1. k \notin Tasks
  BY CacheAssumption
<1>2. CASE UNCHANGED vars \/ Tick
  BY <1>2 DEF vars, Tick
<1>3. ASSUME NEW t \in Tasks, NEW j \in Keys, Begin(t, j) PROVE at'[k] = at[k]
  BY <1>1, <1>3 DEF Begin, IInv, TypeOK, Procs
<1>4. ASSUME NEW t \in Tasks, OuterRead(t) \/ InnerRead(t) \/ Check(t) \/ Answer(t) \/ Fetched(t) \/ Put(t)
      PROVE  at'[k] = at[k]
  BY <1>1, <1>4
  DEF OuterRead, InnerRead, Check, Answer, Fetched, Put, Missed, Found, IInv, TypeOK, Procs
<1>5. ASSUME NEW t \in Tasks, OuterWrite(t) PROVE Made(k)'
  BY <1>1, <1>5 DEF OuterWrite, IInv, TypeOK, Procs
<1>6. ASSUME NEW p \in Procs, LockEntry(p) PROVE Made(k)'
  BY <1>6 DEF LockEntry, IInv, TypeOK, Procs
<1>7. ASSUME NEW p \in Procs, Remove(p) PROVE Made(k)'
  BY <1>1, <1>7 DEF Remove, Missed, IInv, TypeOK, Procs
<1>8. ASSUME NEW j \in Keys, Sweep(j) \/ Judge(j) PROVE Made(k)'
  BY <1>8 DEF Sweep, Judge, IInv, TypeOK, Procs
<1> QED
  BY <1>2, <1>3, <1>4, <1>5, <1>6, <1>7, <1>8 DEF Next, Work, Clean, Procs

LEMMA InitTyped == Init => IInv
<1>1. (CHOOSE k \in Keys : TRUE) \in Keys
  BY CacheAssumption
<1> QED
  BY <1>1, CacheAssumption
  DEF Init, IInv, TypeOK, PutHasCache, Procs, TaskPoints, CleanerPoints, Purposes, Made

\* The part of the invariant that is about control points and tasks: a step of
\* one process moves that process, to a point of its own.
PointsOK ==
    /\ at \in [Procs -> TaskPoints \union CleanerPoints]
    /\ \A t \in Tasks : at[t] \in TaskPoints
    /\ \A k \in Keys : at[k] \in CleanerPoints
    /\ key \in [Tasks -> Keys]
    /\ why \in [Tasks -> Purposes]
    /\ PutHasCache

LEMMA TaskMoves ==
    ASSUME IInv, NEW t \in Tasks, NEW point \in TaskPoints \ {"put"},
           at' = [at EXCEPT ![t] = point],
           key' = key, why' \in [Tasks -> Purposes]
    PROVE  PointsOK'
BY CacheAssumption DEF IInv, TypeOK, PutHasCache, PointsOK, Procs, Made

LEMMA CleanerMoves ==
    ASSUME IInv, NEW k \in Keys, NEW point \in CleanerPoints \ {"none"},
           at' = [at EXCEPT ![k] = point], key' = key, why' = why
    PROVE  PointsOK'
BY CacheAssumption DEF IInv, TypeOK, PutHasCache, PointsOK, Procs, Made

LEMMA MissedMoves ==
    ASSUME IInv, NEW t \in Tasks, Missed(t), key' = key
    PROVE  PointsOK'
<1>1. why' \in [Tasks -> Purposes]
  BY DEF Missed, IInv, TypeOK, Purposes
<1>2. \E point \in TaskPoints \ {"put"} : at' = [at EXCEPT ![t] = point]
  BY DEF Missed, TaskPoints
<1> QED BY <1>1, <1>2, TaskMoves

LEMMA FoundMoves ==
    ASSUME IInv, NEW t \in Tasks, Found(t), key' = key
    PROVE  PointsOK'
<1>1. why' \in [Tasks -> Purposes] /\ \E point \in TaskPoints \ {"put"} : at' = [at EXCEPT ![t] = point]
  <2>1. CASE why[t] = "serve"
    BY <2>1 DEF Found, IInv, TypeOK, Purposes, TaskPoints
  <2>2. CASE why[t] = "condition"
    BY <2>2 DEF Found, IInv, TypeOK, Purposes, TaskPoints
  <2>3. CASE why[t] = "again"
    BY <2>3 DEF Found, IInv, TypeOK, Purposes, TaskPoints
  <2>4. CASE why[t] \notin {"serve", "condition", "again"}
    BY <2>4 DEF Found, IInv, TypeOK, Purposes, TaskPoints
  <2> QED BY <2>1, <2>2, <2>3, <2>4
<1> QED BY <1>1, TaskMoves

LEMMA PointsStep == IInv /\ [Next]_vars => PointsOK'
<1> SUFFICES ASSUME IInv, [Next]_vars PROVE PointsOK'
  OBVIOUS
<1>1. CASE UNCHANGED vars \/ Tick
  BY <1>1 DEF vars, Tick, IInv, TypeOK, PutHasCache, PointsOK, Made
<1>2. ASSUME NEW t \in Tasks, NEW k \in Keys, Begin(t, k)
      PROVE  PointsOK'
  BY <1>2, CacheAssumption
  DEF Begin, IInv, TypeOK, PutHasCache, PointsOK, Procs, TaskPoints, Made
<1>3. ASSUME NEW t \in Tasks, OuterRead(t) \/ InnerRead(t)
      PROVE  PointsOK'
  BY <1>3, MissedMoves, TaskMoves DEF OuterRead, InnerRead, TaskPoints, IInv, TypeOK
<1>4. ASSUME NEW p \in Procs, LockEntry(p)
      PROVE  PointsOK'
  <2>1. CASE p \in Tasks
    BY <1>4, <2>1, TaskMoves DEF LockEntry, TaskPoints, IInv, TypeOK
  <2>2. CASE p \in Keys
    BY <1>4, <2>2, CleanerMoves DEF LockEntry, CleanerPoints
  <2> QED BY <2>1, <2>2 DEF Procs
<1>5. ASSUME NEW t \in Tasks, Check(t) \/ Answer(t) \/ Fetched(t) \/ Put(t)
      PROVE  PointsOK'
  <2>1. CASE Check(t)
    BY <2>1, FoundMoves, TaskMoves DEF Check, TaskPoints, IInv, TypeOK
  <2>2. CASE Fetched(t)
    <3>1. why' \in [Tasks -> Purposes]
      BY <2>2 DEF Fetched, IInv, TypeOK, Purposes
    <3>2. CASE key' = key
      BY <2>2, <3>1, <3>2, TaskMoves DEF Fetched, TaskPoints
    <3>3. CASE at' = [at EXCEPT ![t] = "store"] /\ \E k \in Keys : key' = [key EXCEPT ![t] = k]
      BY <3>1, <3>3, CacheAssumption
      DEF IInv, TypeOK, PutHasCache, PointsOK, Procs, TaskPoints, Made
    <3> QED BY <2>2, <3>2, <3>3 DEF Fetched
  <2>3. CASE Put(t)
    BY <2>3, TaskMoves DEF Put, TaskPoints, IInv, TypeOK
  <2>4. CASE Answer(t)
    BY <2>4, TaskMoves DEF Answer, TaskPoints, IInv, TypeOK
  <2> QED BY <1>5, <2>1, <2>2, <2>3, <2>4
<1>6. ASSUME NEW t \in Tasks, OuterWrite(t)
      PROVE  PointsOK'
  BY <1>6, CacheAssumption
  DEF OuterWrite, IInv, TypeOK, PutHasCache, PointsOK, Procs, TaskPoints, CleanerPoints, Made
<1>7. ASSUME NEW p \in Procs, Remove(p)
      PROVE  PointsOK'
  <2>1. CASE p \in Tasks
    BY <1>7, <2>1, MissedMoves DEF Remove
  <2>2. CASE p \notin Tasks
    BY <1>7, <2>2, CleanerMoves DEF Remove, CleanerPoints, Procs
  <2> QED BY <2>1, <2>2
<1>8. ASSUME NEW k \in Keys, Sweep(k) \/ Judge(k)
      PROVE  PointsOK'
  BY <1>8, CleanerMoves DEF Sweep, Judge, CleanerPoints
<1> QED
  BY <1>1, <1>2, <1>3, <1>4, <1>5, <1>6, <1>7, <1>8 DEF Next, Work, Clean, Procs

\* The entries: only made caches have one, and its time left is within the TTL.
EntriesOK ==
    /\ present \subseteq {k \in Keys : Made(k)}
    /\ ttl \in [Keys -> 0..TTL]
    /\ due \in [Keys -> BOOLEAN]

LEMMA EntriesStep == IInv /\ [Next]_vars => EntriesOK'
<1> SUFFICES ASSUME IInv, [Next]_vars PROVE EntriesOK'
  OBVIOUS
<1>0. ASSUME present' \subseteq {k \in Keys : Made(k)}
      PROVE  present' \subseteq {k \in Keys : Made(k)'}
  BY <1>0, MadeStays
<1>1. CASE UNCHANGED <<present, ttl, due>>
  BY <1>0, <1>1 DEF IInv, TypeOK, EntriesOK, Made
<1>2. CASE Tick
  BY <1>0, <1>2, CacheAssumption DEF Tick, IInv, TypeOK, EntriesOK, Made
<1>3. ASSUME NEW t \in Tasks, Put(t)
      PROVE  EntriesOK'
  <2>1. key[t] \in Keys /\ Made(key[t])
    BY <1>3 DEF Put, IInv, TypeOK, PutHasCache
  <2>2. present' \subseteq {k \in Keys : Made(k)}
    BY <1>3, <2>1 DEF Put, IInv, TypeOK
  <2> QED
    BY <1>0, <1>3, <2>2, CacheAssumption DEF Put, IInv, TypeOK, EntriesOK, Made
<1>4. ASSUME NEW p \in Procs, Remove(p)
      PROVE  EntriesOK'
  <2>1. present' \subseteq {k \in Keys : Made(k)}
    BY <1>4 DEF Remove, IInv, TypeOK
  <2>2. 0 \in 0..TTL
    BY CacheAssumption
  <2>3. ttl' = [ttl EXCEPT ![KeyOf(p)] = 0] /\ due' = due
    BY <1>4 DEF Remove
  <2>4. ttl' \in [Keys -> 0..TTL] /\ due' \in [Keys -> BOOLEAN]
    BY <2>2, <2>3 DEF IInv, TypeOK
  <2> QED BY <1>0, <2>1, <2>4 DEF EntriesOK
<1>5. ASSUME NEW k \in Keys, Sweep(k) \/ Judge(k)
      PROVE  EntriesOK'
  BY <1>0, <1>5 DEF Sweep, Judge, IInv, TypeOK, EntriesOK, Made
<1>6. ASSUME NEW t \in Tasks,
             \/ \E k \in Keys : Begin(t, k)
             \/ OuterRead(t) \/ InnerRead(t) \/ Check(t) \/ Answer(t) \/ Fetched(t) \/ OuterWrite(t)
      PROVE  UNCHANGED <<present, ttl, due>>
  BY <1>6 DEF Begin, OuterRead, InnerRead, Check, Answer, Fetched, OuterWrite
<1>7. ASSUME NEW p \in Procs, LockEntry(p)
      PROVE  UNCHANGED <<present, ttl, due>>
  BY <1>7 DEF LockEntry
<1>8. CASE UNCHANGED vars
  BY <1>1, <1>8 DEF vars
<1> QED
  BY <1>1, <1>2, <1>3, <1>4, <1>5, <1>6, <1>7, <1>8 DEF Next, Work, Clean, Procs

LEMMA IInvStep == IInv /\ [Next]_vars => IInv'
BY PointsStep, EntriesStep DEF PointsOK, EntriesOK, IInv, TypeOK

\* TypeOK: a task and a cleaner are always at a point of their own, and only a
\* cache that has been made holds an entry, with no more than its TTL left.
THEOREM TypeCorrect == Spec => []TypeOK
<1>1. IInv => TypeOK
  BY DEF IInv
<1> QED BY InitTyped, IInvStep, <1>1, PTL DEF Spec

\* While a task sits in an expired get, its own reference keeps every write to
\* the map of its key out.
LEMMA OwnReferenceBlocks ==
    ASSUME IInv, NEW t \in Tasks, ExpiredGet(t)
    PROVE  ~InnerWritable(key[t])
BY CacheAssumption DEF ExpiredGet, InnerWritable, InnerReader, KeyOf, Procs

LEMMA FrozenStep ==
    ASSUME IInv, [Next]_vars, NEW t \in Tasks, ExpiredGet(t)
    PROVE  /\ at'[t] = "removing"
           /\ key'[t] = key[t]
           /\ key[t] \in present <=> key[t] \in present'
           /\ ttl'[key[t]] <= ttl[key[t]]
<1> DEFINE Frozen == /\ at'[t] = "removing"
                     /\ key'[t] = key[t]
                     /\ key[t] \in present <=> key[t] \in present'
                     /\ ttl'[key[t]] <= ttl[key[t]]
<1>0. /\ at[t] = "removing" /\ t \in Procs /\ key[t] \in Keys
      /\ ttl[key[t]] \in Nat /\ t \notin Keys
      /\ at \in [Procs -> TaskPoints \union CleanerPoints]
  BY CacheAssumption DEF ExpiredGet, IInv, TypeOK, Procs
<1>1. CASE UNCHANGED vars
  BY <1>0, <1>1 DEF vars
<1>2. CASE Tick
  BY <1>0, <1>2 DEF Tick, IInv, TypeOK
<1>3. ASSUME NEW q \in Tasks,
             \/ \E k \in Keys : Begin(q, k)
             \/ OuterRead(q) \/ InnerRead(q) \/ Check(q) \/ Answer(q) \/ Fetched(q) \/ OuterWrite(q)
      PROVE  Frozen
  <2>1. q # t
    BY <1>0, <1>3 DEF Begin, OuterRead, InnerRead, Check, Answer, Fetched, OuterWrite
  <2>2. at'[t] = at[t] /\ key'[t] = key[t]
    BY <1>0, <1>3, <2>1
    DEF Begin, OuterRead, InnerRead, Check, Answer, Fetched, OuterWrite, Missed, Found, IInv, TypeOK
  <2> QED
    BY <1>0, <1>3, <2>2 DEF Begin, OuterRead, InnerRead, Check, Answer, Fetched, OuterWrite
<1>4. ASSUME NEW q \in Tasks, Put(q)
      PROVE  Frozen
  <2>1. key[q] # key[t] /\ q # t
    BY <1>0, <1>4, OwnReferenceBlocks DEF Put
  <2> QED BY <1>0, <1>4, <2>1 DEF Put, IInv, TypeOK
<1>5. ASSUME NEW p \in Procs, LockEntry(p)
      PROVE  Frozen
  BY <1>0, <1>5 DEF LockEntry
<1>6. ASSUME NEW p \in Procs, Remove(p)
      PROVE  Frozen
  <2>1. KeyOf(p) # key[t] /\ p # t
    BY <1>0, <1>6, OwnReferenceBlocks DEF Remove, KeyOf
  <2>2. at'[t] = at[t]
    BY <1>0, <1>6, <2>1 DEF Remove, Missed
  <2> QED BY <1>0, <1>6, <2>1, <2>2 DEF Remove, IInv, TypeOK
<1>7. ASSUME NEW k \in Keys, Sweep(k) \/ Judge(k)
      PROVE  Frozen
  BY <1>0, <1>7 DEF Sweep, Judge
<1> QED
  BY <1>1, <1>2, <1>3, <1>4, <1>5, <1>6, <1>7 DEF Next, Work, Clean, Procs

\* ExpiredGetFreezesKey: Cache::get of an expired entry deadlocks, always, and
\* its key is never stored, refreshed or cleaned again.
THEOREM ExpiredGetDeadlocks == Spec => ExpiredGetFreezesKey
<1>1. IInv /\ [Next]_vars => [\A t \in Tasks : ExpiredGet(t) =>
         /\ at'[t] = "removing"
         /\ key'[t] = key[t]
         /\ key[t] \in present <=> key[t] \in present'
         /\ ttl'[key[t]] <= ttl[key[t]]]_vars
  BY FrozenStep
<1> QED BY InitTyped, IInvStep, <1>1, PTL DEF Spec, ExpiredGetFreezesKey
=============================================================================
