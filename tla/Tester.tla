------------------------------- MODULE Tester -------------------------------
(***************************************************************************)
(* What a WTEST keyword asks for, for one well: while the well is closed    *)
(* for a reason the keyword names, it is tested every "interval", at most   *)
(* "num" times (0: without limit), counted from the keyword on.  A new      *)
(* keyword counts from the start.                                           *)
(***************************************************************************)
EXTENDS Naturals

CONSTANTS
  Reasons,  \* reasons for closing a well
  Null      \* no WTEST

VARIABLES
  plan,     \* reason -> what the WTEST in force asks for, or Null
  made,     \* reason -> tests made since that WTEST
  closed,   \* the reasons the well is closed for
  since,    \* reason -> time of the closing or of the last test
  now       \* simulated time

vars == <<plan, made, closed, since, now>>

Due(r) ==
  /\ r \in closed
  /\ plan[r] # Null
  /\ now - since[r] >= plan[r].interval
  /\ plan[r].num = 0 \/ made[r] < plan[r].num

Init ==
  /\ plan = [r \in Reasons |-> Null]
  /\ made = [r \in Reasons |-> 0]
  /\ closed = {}
  /\ since = [r \in Reasons |-> 0]
  /\ now = 0

\* A WTEST for the reasons R, or one that ends the testing.
Replan(R) ==
  /\ \A r \in Reasons \ R : plan'[r] = plan[r]
  /\ made' = [r \in Reasons |-> IF r \in R THEN 0 ELSE made[r]]
  /\ UNCHANGED <<closed, since, now>>

\* The well is closed for a reason that did not hold before.
Close(r) ==
  /\ r \notin closed
  /\ closed' = closed \cup {r}
  /\ since' = [since EXCEPT ![r] = now]
  /\ UNCHANGED <<plan, made, now>>

Reopen(R) ==
  /\ closed' = closed \ R
  /\ UNCHANGED <<plan, made, since, now>>

\* All tests that are due are made; none while the schedule shuts the well.
Test ==
  /\ made' = [r \in Reasons |-> IF Due(r) THEN made[r] + 1 ELSE made[r]]
  /\ since' = [r \in Reasons |-> IF Due(r) THEN now ELSE since[r]]
  /\ UNCHANGED <<plan, closed, now>>

Wait ==
  /\ now' > now
  /\ UNCHANGED <<plan, made, closed, since>>

Next ==
  \/ \E R \in SUBSET Reasons : Replan(R) \/ Reopen(R)
  \/ \E r \in Reasons : Close(r)
  \/ Test
  \/ Wait

Spec == Init /\ [][Next]_vars
=============================================================================
