------------------------- MODULE CacheThreadsProofs -------------------------
(***************************************************************************)
(* Proofs about CacheThreads, for any number of workers, tasks, keys and   *)
(* shards.                                                                 *)
(*                                                                         *)
(* The argument: only a task that awaits can be away from its worker with  *)
(* a lock in hand.  So if every worker is blocked, a lock that blocks one  *)
(* is held either by such a task or by another blocked worker, and the     *)
(* order in which the locks are taken leaves no way round.                 *)
(***************************************************************************)
EXTENDS CacheThreads, ResponseCacheProofs, FiniteSetTheorems

\* Who has no worker waits, in a place where it can.
WorkerInv ==
    /\ running \subseteq Procs
    /\ \A p \in running : at[p] \notin Suspended
    /\ \A t \in Tasks \ running : at[t] \in Suspended \union {"mutex", "lookup", "check"}
    /\ \A k \in Keys \ running : at[k] \in Suspended

\* A writer of an outer shard is alone with it.
Exclusive ==
    \A t, u \in Tasks :
        t # u /\ OuterShard[key[t]] = OuterShard[key[u]] /\ OuterWriter(t)
            => ~OuterReader(u) /\ ~OuterWriter(u)

WorkersCounted == IsFiniteSet(running) /\ Cardinality(running) <= Workers

ThreadsInv == IInv /\ WorkerInv /\ Exclusive /\ WorkersCounted

\* A step on a worker is a step of the caches.
LEMMA StepOfCache == ThreadsNext => [Next]_vars
<1> SUFFICES ASSUME ThreadsNext PROVE Next \/ UNCHANGED vars
  OBVIOUS
<1>1. ASSUME NEW p \in Procs, Run(p) PROVE Next
  <2>1. CASE p \in Tasks
    BY <1>1, <2>1 DEF Run, Next
  <2>2. CASE p \notin Tasks
    BY <1>1, <2>2 DEF Run, Next, Procs
  <2> QED BY <2>1, <2>2
<1>2. ASSUME NEW t \in Tasks, HandOver(t) PROVE Next
  BY <1>2 DEF HandOver, Next, Work
<1>3. ASSUME NEW t \in Tasks, Await(t) PROVE UNCHANGED vars
  BY <1>3 DEF Await
<1> QED BY <1>1, <1>2, <1>3 DEF ThreadsNext, Next

-----------------------------------------------------------------------------
(* The outer shards. *)

\* The step of one task keeps writers alone if it takes no lock of a shard, or
\* goes on as a reader.
LEMMA ExclusiveMove ==
    ASSUME Exclusive, NEW t \in Tasks,
           \A u \in Tasks \ {t} : at'[u] = at[u] /\ key'[u] = key[u],
           \/ at'[t] \in {"idle", "lookup", "fetch", "store"}
           \/ OuterReader(t) /\ OuterReader(t)' /\ key'[t] = key[t]
    PROVE  Exclusive'
BY DEF Exclusive, OuterReader, OuterWriter

LEMMA MissedIsOut ==
    ASSUME IInv, NEW t \in Tasks, Missed(t)
    PROVE  at'[t] \in {"idle", "lookup", "fetch"} /\ \A u \in Tasks \ {t} : at'[u] = at[u]
BY DEF Missed, IInv, TypeOK, Procs

LEMMA ExclusiveStep == IInv /\ Exclusive /\ [Next]_vars => Exclusive'
<1> SUFFICES ASSUME IInv, Exclusive, [Next]_vars PROVE Exclusive'
  OBVIOUS
<1>0. /\ at \in [Procs -> TaskPoints \union CleanerPoints]
      /\ key \in [Tasks -> Keys]
      /\ Tasks \subseteq Procs /\ Keys \subseteq Procs /\ Tasks \intersect Keys = {}
  BY CacheAssumption DEF IInv, TypeOK, Procs
<1>1. CASE UNCHANGED vars \/ Tick
  BY <1>1 DEF vars, Tick, Exclusive, OuterReader, OuterWriter
<1>2. ASSUME NEW t \in Tasks, NEW k \in Keys, Begin(t, k) PROVE Exclusive'
  BY <1>0, <1>2, ExclusiveMove DEF Begin
<1>3. ASSUME NEW t \in Tasks, OuterRead(t) PROVE Exclusive'
  <2>1. CASE Missed(t)
    BY <1>3, <2>1, MissedIsOut, ExclusiveMove DEF OuterRead
  <2>2. CASE at' = [at EXCEPT ![t] = "get"]
    <3>1. /\ at'[t] = "get" /\ \A u \in Tasks \ {t} : at'[u] = at[u]
          /\ key' = key
          /\ \A u \in Tasks : OuterShard[key[u]] = OuterShard[key[t]] => at[u] # "put"
      BY <1>0, <1>3, <2>2 DEF OuterRead, OuterReadable, OuterWriter
    <3> QED BY <3>1 DEF Exclusive, OuterReader, OuterWriter
  <2> QED BY <1>3, <2>1, <2>2 DEF OuterRead
<1>4. ASSUME NEW t \in Tasks, InnerRead(t) PROVE Exclusive'
  <2>1. CASE Missed(t)
    BY <1>4, <2>1, MissedIsOut, ExclusiveMove DEF InnerRead
  <2>2. CASE at' = [at EXCEPT ![t] = "mutex"]
    BY <1>0, <1>4, <2>2, ExclusiveMove DEF InnerRead, OuterReader
  <2> QED BY <1>4, <2>1, <2>2 DEF InnerRead
<1>5. ASSUME NEW p \in Procs, LockEntry(p) PROVE Exclusive'
  <2>1. CASE p \in Tasks
    BY <1>0, <1>5, <2>1, ExclusiveMove DEF LockEntry, OuterReader
  <2>2. CASE p \notin Tasks
    BY <1>0, <1>5, <2>2 DEF LockEntry, Exclusive, OuterReader, OuterWriter
  <2> QED BY <2>1, <2>2
<1>6. ASSUME NEW t \in Tasks, Check(t) PROVE Exclusive'
  <2>1. \E point \in {"get", "fetch", "answer", "idle", "removing"} : at' = [at EXCEPT ![t] = point]
    <3>1. CASE why[t] = "serve"
      BY <1>6, <3>1 DEF Check, Found
    <3>2. CASE why[t] = "condition"
      BY <1>6, <3>2 DEF Check, Found
    <3>3. CASE why[t] = "again"
      BY <1>6, <3>3 DEF Check, Found
    <3>4. CASE why[t] \notin {"serve", "condition", "again"}
      BY <1>6, <3>4 DEF Check, Found
    <3> QED BY <3>1, <3>2, <3>3, <3>4
  <2> QED BY <1>0, <1>6, <2>1, ExclusiveMove DEF Check, OuterReader
<1>7. ASSUME NEW t \in Tasks, Answer(t) \/ Fetched(t) \/ Put(t) PROVE Exclusive'
  <2>1. /\ at'[t] \in {"idle", "lookup", "store"}
        /\ \A u \in Tasks \ {t} : at'[u] = at[u] /\ key'[u] = key[u]
    BY <1>0, <1>7 DEF Answer, Fetched, Put
  <2> QED BY <2>1, ExclusiveMove
<1>8. ASSUME NEW t \in Tasks, OuterWrite(t) PROVE Exclusive'
  <2>1. /\ at'[t] = "put" /\ \A u \in Tasks \ {t} : at'[u] = at[u]
        /\ key' = key
        /\ \A u \in Tasks : OuterShard[key[u]] = OuterShard[key[t]] => ~OuterWriter(u) /\ ~OuterReader(u)
    BY <1>0, <1>8 DEF OuterWrite, OuterWritable
  <2> QED BY <2>1 DEF Exclusive, OuterReader, OuterWriter
<1>9. ASSUME NEW p \in Procs, Remove(p) PROVE Exclusive'
  <2>1. CASE p \in Tasks
    BY <1>9, <2>1, MissedIsOut, ExclusiveMove DEF Remove
  <2>2. CASE p \notin Tasks
    BY <1>0, <1>9, <2>2 DEF Remove, Exclusive, OuterReader, OuterWriter
  <2> QED BY <2>1, <2>2
<1>10. ASSUME NEW k \in Keys, Sweep(k) \/ Judge(k) PROVE Exclusive'
  BY <1>0, <1>10 DEF Sweep, Judge, Exclusive, OuterReader, OuterWriter
<1> QED
  BY <1>1, <1>2, <1>3, <1>4, <1>5, <1>6, <1>7, <1>8, <1>9, <1>10 DEF Next, Work, Clean, Procs

-----------------------------------------------------------------------------
(* The workers. *)

\* What a step on behalf of one process does to the others: at most, a cleaner
\* comes to be.
LEMMA OthersStay ==
    ASSUME IInv, NEW p \in Procs, NEW q \in Procs \ {p},
           \/ p \in Tasks /\ (Work(p) \/ Fetched(p) \/ \E k \in Keys : Begin(p, k))
           \/ p \in Keys /\ Clean(p)
    PROVE  at'[q] = at[q] \/ (q \in Keys /\ at[q] = "none" /\ at'[q] = "sleep")
<1>0. /\ at \in [Procs -> TaskPoints \union CleanerPoints]
      /\ Tasks \subseteq Procs /\ Keys \subseteq Procs /\ Tasks \intersect Keys = {}
      /\ \A t \in Tasks : at[t] # "none" /\ key[t] \in Keys
  BY CacheAssumption DEF IInv, TypeOK, Procs, TaskPoints
<1>1. CASE p \in Tasks /\ OuterWrite(p)
  BY <1>0, <1>1 DEF OuterWrite
<1>2. CASE p \in Tasks /\ Check(p)
  BY <1>0, <1>2 DEF Check, Found
<1>3. CASE p \in Tasks /\ (OuterRead(p) \/ InnerRead(p) \/ Remove(p))
  BY <1>0, <1>3 DEF OuterRead, InnerRead, Remove, Missed
<1>4. CASE p \in Tasks /\ (LockEntry(p) \/ Answer(p) \/ Put(p) \/ Fetched(p) \/ \E k \in Keys : Begin(p, k))
  BY <1>0, <1>4 DEF LockEntry, Answer, Put, Fetched, Begin
<1>5. CASE p \in Keys /\ (Sweep(p) \/ LockEntry(p) \/ Judge(p))
  BY <1>0, <1>5 DEF Sweep, LockEntry, Judge
<1>6. CASE p \in Keys /\ Remove(p)
  BY <1>0, <1>6 DEF Remove
<1> QED BY <1>1, <1>2, <1>3, <1>4, <1>5, <1>6 DEF Work, Clean

\* Whoever runs is counted, and is suspended when it has no worker any more.
LEMMA RunStep ==
    ASSUME ThreadsInv, NEW p \in Procs, Run(p)
    PROVE  WorkerInv' /\ WorkersCounted'
<1>0. running \subseteq Procs /\ IsFiniteSet(running) /\ Workers \in Nat /\ Cardinality(running) \in Nat
  BY WorkersAssumption, FS_CardinalityType DEF ThreadsInv, WorkerInv, WorkersCounted
<1>1. /\ \/ p \in Tasks /\ (Work(p) \/ Fetched(p) \/ \E k \in Keys : Begin(p, k))
         \/ p \in Keys /\ Clean(p)
      /\ running' = IF at'[p] \in Suspended THEN running \ {p} ELSE running \union {p}
      /\ p \in running \/ Cardinality(running) < Workers
  BY DEF Run, Procs
<1>2. \A q \in Procs \ {p} :
          /\ at'[q] = at[q] \/ (q \in Keys /\ at[q] = "none" /\ at'[q] = "sleep")
          /\ q \in running' <=> q \in running
  BY <1>1, OthersStay DEF ThreadsInv
<1>3. p \in running' <=> at'[p] \notin Suspended
  BY <1>1
<1>4. WorkerInv'
  <2>1. running' \subseteq Procs
    BY <1>0, <1>1
  <2>2. ASSUME NEW q \in running' PROVE at'[q] \notin Suspended
    BY <1>2, <1>3, <2>1, <2>2 DEF ThreadsInv, WorkerInv, Suspended
  <2>3. ASSUME NEW t \in Tasks \ running'
        PROVE  at'[t] \in Suspended \union {"mutex", "lookup", "check"}
    BY <1>2, <1>3, <2>3, CacheAssumption DEF ThreadsInv, WorkerInv, Procs
  <2>4. ASSUME NEW k \in Keys \ running' PROVE at'[k] \in Suspended
    BY <1>2, <1>3, <2>4 DEF ThreadsInv, WorkerInv, Procs, Suspended
  <2> QED BY <2>1, <2>2, <2>3, <2>4 DEF WorkerInv, Suspended
<1>5. WorkersCounted'
  <2>1. CASE running' = running \union {p} /\ p \notin running
    <3>1. IsFiniteSet(running') /\ Cardinality(running') = Cardinality(running) + 1
      BY <1>0, <2>1, FS_AddElement
    <3> QED BY <1>0, <1>1, <2>1, <3>1 DEF WorkersCounted
  <2>2. CASE running' \subseteq running
    <3>1. IsFiniteSet(running') /\ Cardinality(running') <= Cardinality(running)
      BY <1>0, <2>2, FS_Subset
    <3>2. Cardinality(running') \in Nat
      BY <3>1, FS_CardinalityType
    <3> QED BY <1>0, <3>1, <3>2 DEF WorkersCounted, ThreadsInv
  <2> QED BY <1>1, <2>1, <2>2
<1> QED BY <1>4, <1>5

LEMMA WaitStep ==
    ASSUME ThreadsInv, NEW t \in Tasks, Await(t) \/ HandOver(t)
    PROVE  WorkerInv' /\ WorkersCounted'
<1>0. /\ running \subseteq Procs /\ IsFiniteSet(running) /\ Workers \in Nat
      /\ at \in [Procs -> TaskPoints \union CleanerPoints]
      /\ t \in Procs /\ t \notin Keys
  BY WorkersAssumption, CacheAssumption DEF ThreadsInv, WorkerInv, WorkersCounted, IInv, TypeOK, Procs
<1>1. CASE Await(t)
  <2>1. /\ running' = running \ {t} /\ at' = at
        /\ at[t] \in {"mutex", "lookup"}
    BY <1>1 DEF Await, vars
  <2>2. IsFiniteSet(running') /\ Cardinality(running') <= Cardinality(running)
    BY <1>0, <2>1, FS_Subset
  <2>3. Cardinality(running') \in Nat /\ Cardinality(running) \in Nat
    BY <1>0, <2>2, FS_CardinalityType
  <2>4. WorkersCounted'
    BY <1>0, <2>2, <2>3 DEF WorkersCounted, ThreadsInv
  <2>5. WorkerInv'
    BY <1>0, <2>1 DEF ThreadsInv, WorkerInv, Suspended
  <2> QED BY <2>4, <2>5
<1>2. CASE HandOver(t)
  <2>1. running' = running /\ t \notin running /\ at' = [at EXCEPT ![t] = "check"]
    BY <1>2 DEF HandOver, LockEntry
  <2>2. WorkerInv'
    BY <1>0, <2>1 DEF ThreadsInv, WorkerInv, Suspended, Procs
  <2> QED BY <2>1, <2>2 DEF ThreadsInv, WorkersCounted
<1> QED BY <1>1, <1>2

LEMMA InitThreads == ThreadsInit => ThreadsInv
<1> SUFFICES ASSUME ThreadsInit PROVE ThreadsInv
  OBVIOUS
<1>1. IInv
  BY InitTyped DEF ThreadsInit
<1>2. WorkerInv /\ Exclusive
  BY CacheAssumption DEF ThreadsInit, Init, WorkerInv, Exclusive, Suspended, Procs, OuterWriter
<1>3. WorkersCounted
  BY WorkersAssumption, FS_EmptySet DEF ThreadsInit, WorkersCounted
<1> QED BY <1>1, <1>2, <1>3 DEF ThreadsInv

LEMMA ThreadsStep == ThreadsInv /\ [ThreadsNext]_<<vars, running>> => ThreadsInv'
<1> SUFFICES ASSUME ThreadsInv, [ThreadsNext]_<<vars, running>> PROVE ThreadsInv'
  OBVIOUS
<1>1. IInv' /\ Exclusive'
  BY StepOfCache, IInvStep, ExclusiveStep DEF ThreadsInv
<1>2. CASE UNCHANGED <<vars, running>> \/ (Tick /\ UNCHANGED running)
  <2>1. at' = at /\ running' = running
    BY <1>2 DEF vars, Tick
  <2>2. WorkerInv' /\ WorkersCounted'
    BY <2>1 DEF ThreadsInv, WorkerInv, WorkersCounted
  <2> QED BY <1>1, <2>2 DEF ThreadsInv
<1>3. ASSUME NEW p \in Procs, Run(p) PROVE ThreadsInv'
  BY <1>1, <1>3, RunStep DEF ThreadsInv
<1>4. ASSUME NEW t \in Tasks, Await(t) \/ HandOver(t) PROVE ThreadsInv'
  BY <1>1, <1>4, WaitStep DEF ThreadsInv
<1> QED BY <1>2, <1>3, <1>4 DEF ThreadsNext

\* ThreadsTypeOK: no more processes than there are workers ever run, and none of
\* them is one that waits.
THEOREM ThreadsTypeCorrect == ThreadsSpec => []ThreadsTypeOK
<1>1. ThreadsInv => ThreadsTypeOK
  BY DEF ThreadsInv, ThreadsTypeOK, IInv, WorkerInv, WorkersCounted
<1> QED BY InitThreads, ThreadsStep, <1>1, PTL DEF ThreadsSpec

-----------------------------------------------------------------------------
(* What blocked workers wait for. *)

\* A task that runs holds its mutex or goes on to it without blocking.
LEMMA BlockedTask ==
    ASSUME ThreadsInv, NEW t \in Tasks, Blocked(t)
    PROVE  \/ at[t] = "lookup" /\ ~OuterReadable(key[t])
           \/ at[t] = "store" /\ ~OuterWritable(key[t])
           \/ at[t] \in {"put", "removing"} /\ ~InnerWritable(key[t])
BY CacheAssumption DEF Blocked, KeyOf

LEMMA BlockedCleaner ==
    ASSUME ThreadsInv, NEW k \in Keys, Blocked(k)
    PROVE  \/ at[k] = "removing" /\ ~InnerWritable(k)
           \/ at[k] = "mutex" /\ ~MutexFree(k)
BY CacheAssumption DEF Blocked, KeyOf, ThreadsInv, IInv, TypeOK, CleanerPoints

LEMMA SomeoneRuns == ASSUME ThreadsInv, AllBlocked PROVE running # {}
BY FS_EmptySet, WorkersAssumption DEF AllBlocked

\* If no task is without a worker that holds a lock, no process at all holds one.
LEMMA NoHolders ==
    ASSUME ThreadsInv, AllBlocked, \A t \in Tasks : ~ExpiredGet(t),
           \A t \in Tasks : ~HoldsWithoutWorker(t)
    PROVE  /\ \A p \in Procs : ~EntryLocked(p) /\ ~InnerReader(p)
           /\ \A t \in Tasks : ~OuterReader(t) /\ ~OuterWriter(t)
<1>0. /\ \A p \in running : Blocked(p) /\ at[p] \notin Suspended
      /\ \A t \in Tasks \ running : at[t] \in Suspended \union {"mutex", "lookup", "check"}
      /\ \A k \in Keys \ running : at[k] \in Suspended
      /\ \A k \in Keys : at[k] \in CleanerPoints
  BY DEF AllBlocked, ThreadsInv, WorkerInv, IInv, TypeOK
<1>1. \A t \in Tasks : at[t] # "removing"
  BY DEF ExpiredGet
<1>2. \A t \in Tasks : at[t] \notin {"check", "answer"}
  <2> SUFFICES ASSUME NEW t \in Tasks, at[t] \in {"check", "answer"} PROVE FALSE
    OBVIOUS
  <2>1. t \in running
    BY DEF HoldsWithoutWorker
  <2> QED BY <1>0, <2>1, BlockedTask
<1>3. \A k \in Keys : at[k] # "check"
  BY <1>0, BlockedCleaner DEF Suspended
<1>4. \A p \in Procs : ~EntryLocked(p)
  BY <1>1, <1>2, <1>3 DEF EntryLocked, Procs
<1>5. \A k \in Keys : MutexFree(k)
  BY <1>4 DEF MutexFree
<1>6. \A t \in Tasks : at[t] # "mutex"
  <2> SUFFICES ASSUME NEW t \in Tasks, at[t] = "mutex" PROVE FALSE
    OBVIOUS
  <2>1. key[t] \in Keys
    BY DEF ThreadsInv, IInv, TypeOK
  <2>2. t \in running
    BY <1>5, <2>1 DEF HoldsWithoutWorker
  <2> QED BY <1>0, <2>2, BlockedTask
<1>7. \A k \in Keys : at[k] # "mutex"
  BY <1>0, <1>5, BlockedCleaner DEF Suspended
<1>8. \A p \in Procs : ~InnerReader(p)
  BY <1>1, <1>2, <1>3, <1>6, <1>7 DEF InnerReader, Procs
<1>9. \A k \in Keys : InnerWritable(k)
  BY <1>8 DEF InnerWritable
<1>10. \A t \in Tasks : at[t] \notin {"put", "get"}
  <2> SUFFICES ASSUME NEW t \in Tasks, at[t] \in {"put", "get"} PROVE FALSE
    OBVIOUS
  <2>1. key[t] \in Keys
    BY DEF ThreadsInv, IInv, TypeOK
  <2>2. t \in running
    BY <1>0 DEF Suspended
  <2> QED BY <1>0, <1>9, <2>1, <2>2, BlockedTask
<1> QED BY <1>1, <1>2, <1>4, <1>6, <1>8, <1>10 DEF OuterReader, OuterWriter

\* WorkersWaitForSuspended: the workers never wait for each other alone.
THEOREM WorkersWaitCorrect == ThreadsSpec => []WorkersWaitForSuspended
<1>1. ThreadsInv => WorkersWaitForSuspended
  <2> SUFFICES ASSUME ThreadsInv, AllBlocked, \A t \in Tasks : ~ExpiredGet(t),
                      \A t \in Tasks : ~HoldsWithoutWorker(t)
               PROVE  FALSE
    BY DEF WorkersWaitForSuspended
  <2>1. PICK p \in running : Blocked(p) /\ p \in Procs
    BY SomeoneRuns DEF AllBlocked, ThreadsInv, WorkerInv
  <2>2. \A k \in Keys : InnerWritable(k) /\ MutexFree(k) /\ OuterReadable(k) /\ OuterWritable(k)
    BY NoHolders DEF InnerWritable, MutexFree, OuterReadable, OuterWritable
  <2>3. CASE p \in Tasks
    <3>1. key[p] \in Keys
      BY <2>3 DEF ThreadsInv, IInv, TypeOK
    <3> QED BY <2>1, <2>2, <2>3, <3>1, BlockedTask
  <2>4. CASE p \in Keys
    BY <2>1, <2>2, <2>4, BlockedCleaner
  <2> QED BY <2>1, <2>3, <2>4 DEF Procs
<1> QED BY InitThreads, ThreadsStep, <1>1, PTL DEF ThreadsSpec

-----------------------------------------------------------------------------
(* A runtime whose workers are all blocked. *)

\* A worker that waits to read an outer shard waits for one that puts a response,
\* and nobody who could block that one can come to be without the shard.
LEMMA NoBlockedLookup ==
    ASSUME ThreadsInv, AllBlocked, NEW t \in Tasks, t \in running
    PROVE  at[t] # "lookup"
<1> SUFFICES ASSUME at[t] = "lookup" PROVE FALSE
  OBVIOUS
<1>0. /\ \A p \in running : Blocked(p)
      /\ \A u \in Tasks \ running : at[u] # "put"
      /\ \A k \in Keys \ running : at[k] \notin {"mutex", "check"}
      /\ Tasks \intersect Keys = {} /\ \A u \in Tasks : key[u] \in Keys
  BY CacheAssumption DEF AllBlocked, ThreadsInv, WorkerInv, Suspended, IInv, TypeOK
<1>1. PICK w \in Tasks : at[w] = "put"
  BY <1>0, BlockedTask DEF OuterReadable, OuterWriter
<1>2. ~InnerWritable(key[w])
  BY <1>0, <1>1, BlockedTask
<1>3. \A u \in Tasks : key[u] = key[w] => ~OuterReader(u)
  BY <1>1 DEF ThreadsInv, Exclusive, OuterWriter, OuterReader
<1>4. PICK q \in Procs : KeyOf(q) = key[w] /\ InnerReader(q)
  BY <1>2 DEF InnerWritable
<1>5. q \in Keys /\ q = key[w] /\ at[q] \in {"mutex", "check"}
  BY <1>0, <1>3, <1>4 DEF Procs, KeyOf, InnerReader, OuterReader
<1>6. at[q] = "mutex" /\ ~MutexFree(q)
  BY <1>0, <1>5, BlockedCleaner
<1>7. PICK e \in Procs : KeyOf(e) = q /\ EntryLocked(e)
  BY <1>6 DEF MutexFree
<1>8. CASE e \in Tasks
  BY <1>0, <1>3, <1>5, <1>7, <1>8 DEF KeyOf, EntryLocked, OuterReader
<1>9. CASE e \in Keys
  BY <1>0, <1>6, <1>7, <1>9 DEF KeyOf, EntryLocked
<1> QED BY <1>7, <1>8, <1>9 DEF Procs

\* A blocked worker has no step,
LEMMA BlockedStands ==
    ASSUME ThreadsInv, AllBlocked, NEW p \in Procs, Run(p)
    PROVE  FALSE
<1>1. p \in running /\ Blocked(p)
  BY WorkersAssumption DEF AllBlocked, Run
<1>2. CASE p \in Tasks
  <2>0. p \notin Keys
    BY <1>2, CacheAssumption
  <2>1. \/ at[p] = "store" /\ ~OuterWritable(key[p])
        \/ at[p] \in {"put", "removing"} /\ ~InnerWritable(key[p])
    BY <1>1, <1>2, BlockedTask, NoBlockedLookup
  <2>2. Work(p) \/ Fetched(p) \/ \E k \in Keys : Begin(p, k)
    BY <1>2 DEF Run
  <2> QED
    BY <2>0, <2>1, <2>2 DEF Work, OuterRead, InnerRead, LockEntry, Check, Remove, Answer,
                            OuterWrite, Put, Fetched, Begin, KeyOf
<1>3. CASE p \in Keys
  <2>0. p \notin Tasks
    BY <1>3, CacheAssumption
  <2>1. \/ at[p] = "removing" /\ ~InnerWritable(p)
        \/ at[p] = "mutex" /\ ~MutexFree(p)
    BY <1>1, <1>3, BlockedCleaner
  <2>2. Clean(p)
    BY <2>0 DEF Run
  <2> QED BY <1>3, <2>1, <2>2 DEF Clean, Sweep, LockEntry, Judge, Remove, KeyOf
<1> QED BY <1>2, <1>3 DEF Procs

\* and no await either.
LEMMA BlockedKeepsWorker ==
    ASSUME ThreadsInv, AllBlocked, NEW t \in Tasks, Await(t)
    PROVE  FALSE
<1>1. t \in running /\ Blocked(t) /\ at[t] \in {"mutex", "lookup"}
  BY DEF AllBlocked, Await
<1> QED BY <1>1, BlockedTask, NoBlockedLookup

\* A mutex that is handed over frees nobody.
LEMMA HandOverFreesNobody ==
    ASSUME ThreadsInv, AllBlocked, NEW t \in Tasks, HandOver(t)
    PROVE  AllBlocked'
<1>0. /\ running' = running /\ t \notin running /\ key' = key
      /\ at[t] = "mutex" /\ at' = [at EXCEPT ![t] = "check"]
      /\ at \in [Procs -> TaskPoints \union CleanerPoints] /\ t \in Procs
      /\ running \subseteq Procs
  BY DEF HandOver, LockEntry, ThreadsInv, WorkerInv, IInv, TypeOK, Procs
<1>1. \A p \in Procs : /\ p # t => at'[p] = at[p]
                       /\ KeyOf(p)' = KeyOf(p)
                       /\ InnerReader(p) => InnerReader(p)'
                       /\ EntryLocked(p) => EntryLocked(p)'
  BY <1>0 DEF KeyOf, InnerReader, EntryLocked
<1>2. \A u \in Tasks : /\ OuterReader(u) => OuterReader(u)'
                       /\ OuterWriter(u) => OuterWriter(u)'
  BY <1>0 DEF OuterReader, OuterWriter, Procs
<1>3. \A k \in Keys : /\ ~InnerWritable(k) => ~InnerWritable(k)'
                      /\ ~MutexFree(k) => ~MutexFree(k)'
                      /\ ~OuterReadable(k) => ~OuterReadable(k)'
                      /\ ~OuterWritable(k) => ~OuterWritable(k)'
  BY <1>0, <1>1, <1>2 DEF InnerWritable, MutexFree, OuterReadable, OuterWritable
<1>4. ASSUME NEW p \in running PROVE Blocked(p)'
  <2>1. Blocked(p) /\ at'[p] = at[p] /\ p \in Procs
    BY <1>0, <1>1, <1>4 DEF AllBlocked
  <2>2. CASE p \in Tasks
    <3>1. key[p] \in Keys /\ key'[p] = key[p] /\ p \notin Keys
      BY <1>0, <2>2, CacheAssumption DEF ThreadsInv, IInv, TypeOK
    <3> QED BY <1>3, <2>1, <2>2, <3>1, BlockedTask DEF Blocked, KeyOf
  <2>3. CASE p \in Keys
    BY <1>3, <2>1, <2>3, BlockedCleaner DEF Blocked, KeyOf
  <2> QED BY <2>1, <2>2, <2>3 DEF Procs
<1> QED BY <1>0, <1>4 DEF AllBlocked

\* FreezeIsForGood: when every worker is blocked, the runtime stays as it is.
THEOREM FreezeCorrect == ThreadsSpec => FreezeIsForGood
<1>1. ThreadsInv /\ [ThreadsNext]_<<vars, running>> => [AllBlocked => AllBlocked']_<<vars, running>>
  <2> SUFFICES ASSUME ThreadsInv, ThreadsNext, AllBlocked PROVE AllBlocked'
    OBVIOUS
  <2>1. CASE Tick /\ UNCHANGED running
    <3>1. at' = at /\ key' = key /\ running' = running
      BY <2>1 DEF Tick
    <3> QED
      BY <3>1 DEF AllBlocked, Blocked, KeyOf, OuterReadable, OuterWritable, InnerWritable, MutexFree,
                  OuterReader, OuterWriter, InnerReader, EntryLocked
  <2> QED BY <2>1, BlockedStands, BlockedKeepsWorker, HandOverFreesNobody DEF ThreadsNext
<1> QED BY InitThreads, ThreadsStep, <1>1, PTL DEF ThreadsSpec, FreezeIsForGood
=============================================================================
