---------------------------- MODULE MCGroupTree -----------------------------
(***************************************************************************)
(* Instances of GroupTree for TLC: the names of wells and those of groups  *)
(* are interchangeable.                                                    *)
(***************************************************************************)
EXTENDS GroupTree, TLC

Symmetry == Permutations(GroupNames) \cup Permutations(WellNames)
=============================================================================
