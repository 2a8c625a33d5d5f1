----------------------------- MODULE MCLimiters -----------------------------
(***************************************************************************)
(* Limiters for TLC: a target with a limit of its own and one for an       *)
(* endpoint, a target nested in it that sets the endpoint's limit anew,    *)
(* with an interval of 0, and one without a limit.                         *)
(***************************************************************************)
EXTENDS Limiters

Limiter(size, interval) == {[size |-> size, interval |-> interval]}

MCTargets ==
    <<[path |-> <<"a">>, limiter |-> Limiter(2, 1),
       endpoints |-> <<[path |-> <<"b">>, limiter |-> Limiter(1, 1)],
                       [path |-> <<"c">>, limiter |-> {}]>>],
      [path |-> <<"a", "b">>, limiter |-> Limiter(1, 0), endpoints |-> <<>>],
      [path |-> <<"d">>, limiter |-> {}, endpoints |-> <<>>]>>

\* The endpoint itself, a path below it, another of the target's, and one
\* without a limit.
MCPaths == {<<"a", "b">>, <<"a", "b", "x">>, <<"a", "c">>, <<"d">>}
=============================================================================
