--------------------------- MODULE MCWellTimeline ---------------------------
(***************************************************************************)
(* Instances of WellTimeline for TLC: cells are interchangeable.           *)
(***************************************************************************)
EXTENDS WellTimeline, TLC

Symmetry == Permutations(Conns)
=============================================================================
