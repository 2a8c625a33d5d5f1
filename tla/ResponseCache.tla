---------------------------- MODULE ResponseCache ----------------------------
(***************************************************************************)
(* The response caches of road7 and their locks: src/cache.rs as           *)
(* proxy_request in src/main.rs uses it.                                   *)
(*                                                                         *)
(* proxy_state.caches maps a cache key to a Cache of its own, made with    *)
(* its cleaner task when the first response for the key is stored, and     *)
(* never removed; that Cache only ever holds the entry of its key.  Both   *)
(* maps are DashMaps.  A reference into a DashMap holds its shard's lock   *)
(* for reading, an insertion, a removal or an entry() holds it for         *)
(* writing, and these locks block the thread.  Each entry has an async     *)
(* Mutex besides.  A task that looks a key up takes, in this order,        *)
(*     the outer shard (read), the inner shard (read), the entry's mutex.  *)
(*                                                                         *)
(* Who holds what follows from where a process is, so there is no variable *)
(* for a lock.  The processes are the request tasks, and for each key k    *)
(* the cleaner of its cache, which k itself stands for.  There is a thread *)
(* for every blocked task: the limit on worker threads is not modelled.    *)
(***************************************************************************)
EXTENDS Naturals

CONSTANTS Tasks,        \* request tasks
          Keys,         \* cache keys, and the cleaners of their caches
          Shards,       \* shards of proxy_state.caches
          OuterShard,   \* the shard a key hashes to
          TTL           \* ttl_seconds, in ticks

ASSUME CacheAssumption ==
    /\ Keys # {}
    /\ Tasks \intersect Keys = {}
    /\ OuterShard \in [Keys -> Shards]
    /\ TTL \in Nat

VARIABLES at,        \* where each process is
          key,       \* the key a task works on
          why,       \* what a task looks its key up for ("serve" when it does not)
          present,   \* keys with an entry in their cache
          ttl,       \* time left until expires_at
          due        \* what a cleaner found of its entry when its sweep began

vars == <<at, key, why, present, ttl, due>>

Procs == Tasks \union Keys

TaskPoints    == {"idle", "lookup", "get", "mutex", "check", "removing", "answer", "fetch",
                  "store", "put"}
CleanerPoints == {"none", "sleep", "mutex", "check", "removing"}
Purposes      == {"serve", "again", "condition", "revalidate"}

KeyOf(p) == IF p \in Keys THEN p ELSE key[p]

\* The cache of k has been made: its cleaner is running.
Made(k) == at[k] # "none"

\* Mutant: the reference into proxy_state.caches is kept until the response is in.
OuterReaderTooLong(t) ==
    at[t] \in {"get", "mutex", "check", "removing", "answer", "fetch", "store"}

\* The reference `caches.get(&cache_key)` lives while the cache is searched and
\* while a hit is answered, which awaits the tasks that count it,
OuterReader(t) == at[t] \in {"get", "mutex", "check", "removing", "answer"}

\* and `caches.entry(..)` while the response is put in it.
OuterWriter(t) == at[t] = "put"

\* Mutant: Cache::get lets go of the entry before it removes it.
InnerReaderBriefly(p) == at[p] \in {"mutex", "check"}

\* Mutant: a sweep removes an entry from inside its iteration.
InnerReaderSweeping(p) == at[p] \in {"mutex", "check", "removing"}

\* Cache::get keeps its reference until it returns, also while it removes the
\* entry; a sweep only keeps it while it judges the entry.
InnerReader(p) ==
    \/ at[p] \in {"mutex", "check"}
    \/ p \in Tasks /\ at[p] = "removing"

EntryLocked(p) ==
    \/ at[p] = "check"
    \/ p \in Tasks /\ at[p] = "removing"

OuterReadable(k) ==
    \A t \in Tasks : OuterShard[key[t]] = OuterShard[k] => ~OuterWriter(t)

OuterWritable(k) ==
    \A t \in Tasks : OuterShard[key[t]] = OuterShard[k] => ~OuterWriter(t) /\ ~OuterReader(t)

InnerWritable(k) == \A p \in Procs : KeyOf(p) = k => ~InnerReader(p)
MutexFree(k)     == \A p \in Procs : KeyOf(p) = k => ~EntryLocked(p)

Init ==
    /\ at = [p \in Procs |-> IF p \in Tasks THEN "idle" ELSE "none"]
    /\ key = [t \in Tasks |-> CHOOSE k \in Keys : TRUE]
    /\ why = [t \in Tasks |-> "serve"]
    /\ present = {}
    /\ ttl = [k \in Keys |-> 0]
    /\ due = [k \in Keys |-> FALSE]

-----------------------------------------------------------------------------
(* A request task. *)

\* A request for key k gets as far as the cache.
Begin(t, k) ==
    /\ at[t] = "idle"
    /\ at' = [at EXCEPT ![t] = "lookup"]
    /\ key' = [key EXCEPT ![t] = k]
    /\ UNCHANGED <<why, present, ttl, due>>

\* A search that found nothing: one to serve the request is repeated to find
\* validators for it, unless the circuit breaker rejects the request before; the
\* others go to the target.
Missed(t) ==
    IF why[t] \in {"serve", "again"}
    THEN \/ /\ at' = [at EXCEPT ![t] = "lookup"]
            /\ why' = [why EXCEPT ![t] = "condition"]
         \/ /\ at' = [at EXCEPT ![t] = "idle"]
            /\ why' = [why EXCEPT ![t] = "serve"]
    ELSE /\ at' = [at EXCEPT ![t] = "fetch"]
         /\ why' = [why EXCEPT ![t] = "serve"]

\* A fresh entry: the first search is made again in the same cache, with the
\* key the entry's Vary asks for, to be answered; validators go to the target; a
\* revalidated entry is answered at once.
Found(t) ==
    CASE why[t] = "serve" ->
           /\ at' = [at EXCEPT ![t] = "get"]
           /\ why' = [why EXCEPT ![t] = "again"]
      [] why[t] = "condition" ->
           /\ at' = [at EXCEPT ![t] = "fetch"]
           /\ why' = [why EXCEPT ![t] = "serve"]
      [] why[t] = "again" ->
           /\ at' = [at EXCEPT ![t] = "answer"]
           /\ why' = [why EXCEPT ![t] = "serve"]
      [] OTHER ->
           /\ at' = [at EXCEPT ![t] = "idle"]
           /\ why' = [why EXCEPT ![t] = "serve"]

OuterRead(t) ==
    /\ at[t] = "lookup"
    /\ OuterReadable(key[t])
    /\ IF Made(key[t])
       THEN at' = [at EXCEPT ![t] = "get"] /\ UNCHANGED why
       ELSE Missed(t)
    /\ UNCHANGED <<key, present, ttl, due>>

\* A write to the inner map is one step, so nobody is ever found writing.  The
\* key a Vary header asks for may be another, which this cache does not have.
InnerRead(t) ==
    /\ at[t] = "get"
    /\ \/ key[t] \in present /\ at' = [at EXCEPT ![t] = "mutex"] /\ UNCHANGED why
       \/ (key[t] \notin present \/ why[t] = "again") /\ Missed(t)
    /\ UNCHANGED <<key, present, ttl, due>>

\* By a task in Cache::get, or by a cleaner's block_on.
LockEntry(p) ==
    /\ at[p] = "mutex"
    /\ MutexFree(KeyOf(p))
    /\ at' = [at EXCEPT ![p] = "check"]
    /\ UNCHANGED <<key, why, present, ttl, due>>

Check(t) ==
    /\ at[t] = "check"
    /\ IF ttl[key[t]] > 0
       THEN Found(t)
       ELSE at' = [at EXCEPT ![t] = "removing"] /\ UNCHANGED why
    /\ UNCHANGED <<key, present, ttl, due>>

\* The counts of a hit are in.
Answer(t) ==
    /\ at[t] = "answer"
    /\ at' = [at EXCEPT ![t] = "idle"]
    /\ UNCHANGED <<key, why, present, ttl, due>>

\* What the target answers: a response to cache, under the key that its Vary and
\* the balanced target make, 304, or anything that ends the request without either.
Fetched(t) ==
    /\ at[t] = "fetch"
    /\ \/ /\ at' = [at EXCEPT ![t] = "store"]
          /\ \E k \in Keys : key' = [key EXCEPT ![t] = k]
          /\ UNCHANGED why
       \/ /\ at' = [at EXCEPT ![t] = "lookup"]
          /\ why' = [why EXCEPT ![t] = "revalidate"]
          /\ UNCHANGED key
       \/ /\ at' = [at EXCEPT ![t] = "idle"]
          /\ UNCHANGED <<key, why>>
    /\ UNCHANGED <<present, ttl, due>>

\* caches.entry(key).or_insert_with(Cache::new), which spawns the cleaner.
OuterWrite(t) ==
    /\ at[t] = "store"
    /\ OuterWritable(key[t])
    /\ at' = [at EXCEPT ![t] = "put", ![key[t]] = IF @ = "none" THEN "sleep" ELSE @]
    /\ UNCHANGED <<key, why, present, ttl, due>>

\* Cache::put, with the outer shard still held for writing.
Put(t) ==
    /\ at[t] = "put"
    /\ InnerWritable(key[t])
    /\ present' = present \union {key[t]}
    /\ ttl' = [ttl EXCEPT ![key[t]] = TTL]
    /\ at' = [at EXCEPT ![t] = "idle"]
    /\ UNCHANGED <<key, why, due>>

-----------------------------------------------------------------------------
(* The cleaner of the cache of k, and the removal it shares with Cache::get. *)

\* clean_expired_entries takes the time, and a reference to the entry.
Sweep(k) ==
    /\ at[k] = "sleep"
    /\ k \in present
    /\ due' = [due EXCEPT ![k] = ttl[k] = 0]
    /\ at' = [at EXCEPT ![k] = "mutex"]
    /\ UNCHANGED <<key, why, present, ttl>>

\* Mutant: the comparison with `now` is the wrong way round.
JudgeWrong(k) ==
    /\ at[k] = "check"
    /\ at' = [at EXCEPT ![k] = IF due[k] THEN "sleep" ELSE "removing"]
    /\ due' = [due EXCEPT ![k] = FALSE]
    /\ UNCHANGED <<key, why, present, ttl>>

\* The key goes to keys_to_remove if its entry had expired, and the entry is
\* let go of.
Judge(k) ==
    /\ at[k] = "check"
    /\ at' = [at EXCEPT ![k] = IF due[k] THEN "removing" ELSE "sleep"]
    /\ due' = [due EXCEPT ![k] = FALSE]
    /\ UNCHANGED <<key, why, present, ttl>>

\* entries.remove(key), whatever is there by now.
Remove(p) ==
    /\ at[p] = "removing"
    /\ InnerWritable(KeyOf(p))
    /\ present' = present \ {KeyOf(p)}
    /\ ttl' = [ttl EXCEPT ![KeyOf(p)] = 0]
    /\ IF p \in Tasks
       THEN Missed(p)
       ELSE at' = [at EXCEPT ![p] = "sleep"] /\ UNCHANGED why
    /\ UNCHANGED <<key, due>>

\* Mutant: time runs on for an expired entry.
TickOn ==
    /\ present # {}
    /\ ttl' = [k \in Keys |-> IF k \in present THEN ttl[k] - 1 ELSE ttl[k]]
    /\ UNCHANGED <<at, key, why, present, due>>

Tick ==
    /\ \E k \in present : ttl[k] > 0
    /\ ttl' = [k \in Keys |-> IF ttl[k] > 0 THEN ttl[k] - 1 ELSE 0]
    /\ UNCHANGED <<at, key, why, present, due>>

\* What a task, and a cleaner, does of its own accord.
Work(t) ==
    \/ OuterRead(t) \/ InnerRead(t) \/ LockEntry(t) \/ Check(t) \/ Remove(t)
    \/ Answer(t) \/ OuterWrite(t) \/ Put(t)

Clean(k) == Sweep(k) \/ LockEntry(k) \/ Judge(k) \/ Remove(k)

Next ==
    \/ \E t \in Tasks : (\E k \in Keys : Begin(t, k)) \/ Work(t) \/ Fetched(t)
    \/ \E k \in Keys : Clean(k)
    \/ Tick

Spec == Init /\ [][Next]_vars

\* Every thread that can go on does.  One that waits for a lock is woken
\* whenever it is released, so it is enough that the lock is free again and
\* again.  The target need not answer.
Fairness ==
    /\ \A t \in Tasks : SF_vars(Work(t))
    /\ \A k \in Keys : SF_vars(Clean(k))
    /\ WF_vars(Tick)

FairSpec == Spec /\ Fairness

-----------------------------------------------------------------------------
TypeOK ==
    /\ at \in [Procs -> TaskPoints \union CleanerPoints]
    /\ \A t \in Tasks : at[t] \in TaskPoints
    /\ \A k \in Keys : at[k] \in CleanerPoints
    /\ key \in [Tasks -> Keys]
    /\ why \in [Tasks -> Purposes]
    /\ present \subseteq {k \in Keys : Made(k)}
    /\ ttl \in [Keys -> 0..TTL]
    /\ due \in [Keys -> BOOLEAN]

\* A task whose Cache::get found its entry expired: it is about to remove it.
ExpiredGet(t) == at[t] = "removing"

\* The reference Cache::get still holds keeps its own removal out, and with it
\* every other: from then on the task never returns, and nobody refreshes or
\* removes the entry any more.
ExpiredGetFreezesKey ==
    [][\A t \in Tasks : ExpiredGet(t) =>
         /\ at'[t] = "removing"
         /\ key'[t] = key[t]
         /\ key[t] \in present <=> key[t] \in present'
         /\ ttl'[key[t]] <= ttl[key[t]]]_vars

\* No Cache::get ever finds its entry expired.
Calm == [](\A t \in Tasks : ~ExpiredGet(t))

\* Then no task waits for ever: the expired get is the only deadlock that the
\* two maps, the mutexes, the puts and the cleaners have.
NoOtherDeadlock ==
    Calm => \A t \in Tasks : at[t] \notin {"idle", "fetch"} ~> at[t] \in {"idle", "fetch"}

\* Then, too, an expired entry is swept away or replaced in the end.
ExpiredEntriesGo == Calm => \A k \in Keys : []<>~(k \in present /\ ttl[k] = 0)
=============================================================================
