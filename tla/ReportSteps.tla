---------------------------- MODULE ReportSteps ----------------------------
(***************************************************************************)
(* The report steps of a simulation, numbered from 0 on.  The number of    *)
(* them is TimeMap::size(), and that of all containers over them.          *)
(***************************************************************************)
EXTENDS Integers

CONSTANT NSteps   \* number of report steps

ASSUME NStepsAssumption == NSteps \in Nat \ {0}

Steps == 0 .. NSteps - 1
=============================================================================
