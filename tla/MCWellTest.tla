---------------------------- MODULE MCWellTest ----------------------------
(***************************************************************************)
(* An instance of WellTest for TLC.                                        *)
(***************************************************************************)
EXTENDS WellTest

\* Two intervals, and a limit that shrinks or grows with the keyword.  Both
\* plans have a limit, so that the larger one bounds the counters.
MCPlans == {[interval |-> 1, num |-> 2], [interval |-> 2, num |-> 1]}
=============================================================================
