--------------------------- MODULE RestartConfig ---------------------------
(***************************************************************************)
(* When restart files are written (ioconfig/restartconfig.cc), as pure     *)
(* operators: the setting a keyword gives, how it joins the settings of    *)
(* the report steps, and what it means for a step.  What is written into   *)
(* the files (the mnemonics) is left out.                                  *)
(***************************************************************************)
EXTENDS DynamicState, TimeMap

NotGiven == -1   \* a mnemonic that a keyword does not have

\* A RestartSchedule.
RestartSchedule ==
  [timestep : Nat, basic : Nat, frequency : Nat,
   rptsched_restart_set : BOOLEAN, rptsched_restart : Nat]

\* The constructor for RPTRST: every n-th step with n = 0 becomes every step.
RptrstSchedule(step, basic, frequency) ==
  [timestep |-> step, basic |-> basic,
   frequency |-> IF basic > 2 /\ frequency = 0 THEN 1 ELSE frequency,
   rptsched_restart_set |-> FALSE, rptsched_restart |-> 0]

\* The constructor for RPTSCHED.
RptschedSchedule(restart) ==
  [timestep |-> 0, basic |-> 0, frequency |-> 0,
   rptsched_restart_set |-> TRUE, rptsched_restart |-> restart]

Unset == RptrstSchedule(0, 0, 0)

\* operator==, which is not symmetric.
SameSchedule(rs, rhs) ==
  IF rs.rptsched_restart_set
  THEN rhs.rptsched_restart_set /\ rs.rptsched_restart = rhs.rptsched_restart
  ELSE /\ rs.timestep = rhs.timestep
       /\ rs.basic = rhs.basic
       /\ rs.frequency = rhs.frequency

\* Variant: FREQ is taken as given.
FrequencyUntested(prev, step, basic, frequency) ==
  IF basic = NotGiven /\ frequency = NotGiven
  THEN Unset
  ELSE RptrstSchedule(step, IF basic = NotGiven THEN prev.basic ELSE basic, frequency)

\* RPTRST(): what is not given is taken from the setting before.
Rptrst(prev, step, basic, frequency) ==
  IF basic = NotGiven /\ frequency = NotGiven
  THEN Unset
  ELSE RptrstSchedule(step, IF basic = NotGiven THEN prev.basic ELSE basic,
                            IF frequency = NotGiven THEN prev.frequency ELSE frequency)

\* RPTSCHED(): NOTHING is RESTART=0.
Rptsched(restart) == IF restart = NotGiven THEN Unset ELSE RptschedSchedule(restart)

\* DynamicState::update() with the operator== above.
UpdateSchedule(data, step, rs) ==
  IF SameSchedule(rs, data[step])
  THEN data
  ELSE [t \in DOMAIN data |-> IF t >= step THEN rs ELSE data[t]]

\* Variant: BASIC=2 holds against RPTSCHED too.
FromTwoOn(schedule, step, rs) ==
  IF SameSchedule(rs, Unset)
     \/ (rs.rptsched_restart_set /\ schedule[Max(DOMAIN schedule)].basic > 1)
  THEN schedule
  ELSE UpdateSchedule(schedule, step, rs)

\* The end of a turn of handleScheduleSection(): a setting that says nothing,
\* and RESTART of RPTSCHED after a BASIC above 2, are ignored.
Accept(schedule, step, rs) ==
  IF SameSchedule(rs, Unset)
     \/ (rs.rptsched_restart_set /\ schedule[Max(DOMAIN schedule)].basic > 2)
  THEN schedule
  ELSE UpdateSchedule(schedule, step, rs)

\* RestartSchedule::writeRestartFile()
WriteRestartFile(rs, list, step) ==
  \/ rs.rptsched_restart_set /\ rs.rptsched_restart > 0
  \/ rs.basic \in {1, 2}
  \/ rs.basic = 3 /\ step % rs.frequency = 0
  \/ rs.basic = 4 /\ IsFirstInSequence(list, step, TRUE, rs.timestep, rs.frequency)
  \/ rs.basic = 5 /\ IsFirstInSequence(list, step, FALSE, rs.timestep, rs.frequency)
=============================================================================
