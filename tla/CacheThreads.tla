---------------------------- MODULE CacheThreads ----------------------------
(***************************************************************************)
(* The caches of module ResponseCache on the worker threads of the tokio   *)
(* runtime that main() of src/main.rs builds.                              *)
(*                                                                         *)
(* A task or a cleaner takes its steps on a worker.  One that awaits (the  *)
(* network, a lock that is taken, the tasks that count a hit, its next     *)
(* sweep) gives the worker to another; one that waits for the shard of a   *)
(* DashMap, or for an entry in the block_on of a sweep, keeps it.          *)
(***************************************************************************)
EXTENDS ResponseCache, FiniteSets

CONSTANT Workers      \* runtime.worker_threads

ASSUME WorkersAssumption == Workers \in Nat \ {0}

VARIABLE running      \* the processes that have a worker

Suspended == {"idle", "answer", "fetch", "none", "sleep"}

ThreadsInit == Init /\ running = {}

\* Mutant: there is always another worker.
RunUncounted(p) ==
    /\ p \in running \/ at[p] # "mutex"
    /\ IF p \in Tasks
       THEN Work(p) \/ Fetched(p) \/ \E k \in Keys : Begin(p, k)
       ELSE Clean(p)
    /\ running' = IF at'[p] \in Suspended THEN running \ {p} ELSE running \union {p}

\* What process p does on a worker, that it has or that is free, and gives back
\* when it comes to wait.  One that waits for an entry has to be woken first.
Run(p) ==
    /\ p \in running \/ (Cardinality(running) < Workers /\ at[p] # "mutex")
    /\ IF p \in Tasks
       THEN Work(p) \/ Fetched(p) \/ \E k \in Keys : Begin(p, k)
       ELSE Clean(p)
    /\ running' = IF at'[p] \in Suspended THEN running \ {p} ELSE running \union {p}

\* Mutant: a task awaits the shard that it puts a response in.
AwaitShard(t) ==
    /\ t \in running
    /\ at[t] \in {"mutex", "lookup", "store"}
    /\ running' = running \ {t}
    /\ UNCHANGED vars

\* entry.lock().await, and before a lookup the lock of the circuit breaker.
Await(t) ==
    /\ t \in running
    /\ \/ at[t] = "mutex" /\ ~MutexFree(key[t])
       \/ at[t] = "lookup"
    /\ running' = running \ {t}
    /\ UNCHANGED vars

\* The mutex of an entry is handed to a task that waits for it, whether or not
\* there is a worker to go on with.
HandOver(t) ==
    /\ t \notin running
    /\ LockEntry(t)
    /\ UNCHANGED running

ThreadsNext ==
    \/ \E p \in Procs : Run(p)
    \/ \E t \in Tasks : Await(t) \/ HandOver(t)
    \/ Tick /\ UNCHANGED running

ThreadsSpec == ThreadsInit /\ [][ThreadsNext]_<<vars, running>>

-----------------------------------------------------------------------------
ThreadsTypeOK ==
    /\ TypeOK
    /\ running \subseteq Procs
    /\ Cardinality(running) <= Workers
    /\ \A p \in running : at[p] \notin Suspended

\* p keeps a worker without getting on.
Blocked(p) ==
    \/ at[p] = "lookup" /\ ~OuterReadable(key[p])
    \/ at[p] = "store" /\ ~OuterWritable(key[p])
    \/ at[p] \in {"put", "removing"} /\ ~InnerWritable(KeyOf(p))
    \/ p \in Keys /\ at[p] = "mutex" /\ ~MutexFree(p)

AllBlocked == Cardinality(running) = Workers /\ \A p \in running : Blocked(p)

\* A task that only needs a worker to let go of the lock it has.
HoldsWithoutWorker(t) ==
    /\ t \notin running
    /\ \/ at[t] \in {"answer", "check"}
       \/ at[t] = "mutex" /\ MutexFree(key[t])

\* The runtime does not recover: the task that would let go gets no worker.
FreezeIsForGood == [][AllBlocked => AllBlocked']_<<vars, running>>

\* No get of an expired entry aside, the workers never wait for each other: when
\* every one of them is blocked, it is for a task that holds the shard across an
\* await of a hit, or has been handed the mutex of an entry, and that no worker
\* is left to take up again.
WorkersWaitForSuspended ==
    AllBlocked /\ (\A t \in Tasks : ~ExpiredGet(t)) => \E t \in Tasks : HoldsWithoutWorker(t)
=============================================================================
