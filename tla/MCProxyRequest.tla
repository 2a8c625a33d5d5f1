--------------------------- MODULE MCProxyRequest ---------------------------
(***************************************************************************)
(* ProxyRequest for TLC, and what the documentation says of it that the   *)
(* code does not do.                                                       *)
(***************************************************************************)
EXTENDS ProxyRequest

\* README.md:149, max_attempts is the "Maximum number of retry attempts": a
\* request is sent once and retried max_attempts times at the most.
RetriesBounded == \A r \in Requests : sends[r] <= MaxAttempts + 1
=============================================================================
