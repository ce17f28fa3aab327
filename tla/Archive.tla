------------------------------ MODULE Archive ------------------------------
(***************************************************************************)
(* What a unified restart file promises: an archive of report steps that   *)
(* grows at its end.  Before a step is stored, it and all later steps are  *)
(* dropped; the steps before it are never touched.                         *)
(***************************************************************************)
EXTENDS Integers

CONSTANTS Step, Run

VARIABLE archive   \* the run that has stored each step

Empty == [t \in {} |-> 0]

Init == archive = Empty

Drop(s) == archive' = [t \in {u \in DOMAIN archive : u < s} |-> archive[t]]

Store(s, r) ==
  /\ \A t \in DOMAIN archive : t < s
  /\ archive' = [t \in DOMAIN archive \cup {s} |-> IF t = s THEN r ELSE archive[t]]

Next == \E s \in Step : Drop(s) \/ \E r \in Run : Store(s, r)

Spec == Init /\ [][Next]_archive
=============================================================================
