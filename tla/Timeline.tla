------------------------------ MODULE Timeline ------------------------------
(***************************************************************************)
(* What DynamicState<T> promises to the code that reads a schedule section *)
(* (the class comment of schedule/dynamicstate.hh): updates come with      *)
(* weakly increasing steps, and at any time the last value set applies.    *)
(*                                                                         *)
(* "now" is the step the reader has come to.  One Write may set a value,   *)
(* which then applies from now to the end, and may move the reader on; the *)
(* steps before now are never written again.                               *)
(***************************************************************************)
EXTENDS Naturals

CONSTANTS
  NSteps,   \* number of report steps
  Initial   \* the value before the first update

Steps == 0 .. NSteps - 1

VARIABLES
  now,      \* the step the reader has come to
  value     \* the value that applies at each step

Init ==
  /\ now = 0
  /\ value = [t \in Steps |-> Initial]

Write ==
  /\ now' \in Steps
  /\ now' >= now
  /\ DOMAIN value' = Steps
  /\ \A t \in Steps : t < now => value'[t] = value[t]
  /\ \A t \in Steps : t >= now => value'[t] = value'[now]

Spec == Init /\ [][Write]_<<now, value>>
=============================================================================
