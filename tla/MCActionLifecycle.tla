------------------------- MODULE MCActionLifecycle -------------------------
(***************************************************************************)
(* Instances of ActionLifecycle for TLC: names are interchangeable.        *)
(***************************************************************************)
EXTENDS ActionLifecycle, TLC

Symmetry == Permutations(Names)
=============================================================================
