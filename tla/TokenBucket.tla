----------------------------- MODULE TokenBucket -----------------------------
(***************************************************************************)
(* What a rate limiter of road7 promises to those who ask it for tokens:   *)
(* a bucket that is full at first, from which every grant takes a token at *)
(* once, and into which every refill puts one unless it is full.           *)
(***************************************************************************)
EXTENDS Naturals

CONSTANT Size

VARIABLES level,      \* tokens in the bucket
          granted,    \* tokens granted so far
          refilled    \* refills so far

vars == <<level, granted, refilled>>

Init ==
    /\ level = Size
    /\ granted = 0
    /\ refilled = 0

Grant ==
    /\ level > 0
    /\ level' = level - 1
    /\ granted' = granted + 1
    /\ UNCHANGED refilled

Refill ==
    /\ level' = IF level < Size THEN level + 1 ELSE Size
    /\ refilled' = refilled + 1
    /\ UNCHANGED granted

Spec == Init /\ [][Grant \/ Refill]_vars
=============================================================================
