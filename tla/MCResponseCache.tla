--------------------------- MODULE MCResponseCache ---------------------------
(***************************************************************************)
(* ResponseCache for TLC, and what the tests and the documentation say of  *)
(* the cache that the code does not do.                                    *)
(***************************************************************************)
EXTENDS ResponseCache, TLC

CONSTANT s1

\* All keys in one shard of proxy_state.caches.
OneShard == [k \in Keys |-> s1]

\* src/cache.rs:257, test_cache_expiration: `assert!(retrieved_entry.is_none())`,
\* so a get that finds its entry expired returns.
ExpiredGetReturns == \A t \in Tasks : ExpiredGet(t) ~> ~ExpiredGet(t)
=============================================================================
