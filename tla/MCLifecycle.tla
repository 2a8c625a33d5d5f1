----------------------------- MODULE MCLifecycle -----------------------------
(***************************************************************************)
(* Lifecycle for TLC, and what the program says of its shutdown that it     *)
(* does not do.                                                            *)
(***************************************************************************)
EXTENDS Lifecycle

\* src/main.rs:246, "Shutdown timeout reached, forcing shutdown.": once its
\* time is over the server ends, whether or not its requests do.
ShutdownForced == waited > ShutdownTimeout ~> phase = "closed"
=============================================================================
