--------------------------- MODULE MCCacheThreads ---------------------------
(***************************************************************************)
(* CacheThreads for TLC.                                                   *)
(***************************************************************************)
EXTENDS CacheThreads, TLC

CONSTANT s1

\* All keys in one shard of proxy_state.caches.
OneShard == [k \in Keys |-> s1]

TaskSymmetry == Permutations(Tasks)
=============================================================================
