-------------------------- MODULE ScheduleSection --------------------------
(***************************************************************************)
(* The readers of one SCHEDULE section: TimeMap, RestartConfig and         *)
(* Schedule::iterateScheduleSection.  Each walks through the section with  *)
(* a count of report steps of its own.                                     *)
(*                                                                         *)
(* The section is read side by side by the run that starts at the first    *)
(* step ("base") and by a run restarted from a file of the first           *)
(* ("restarted"), whose reader skips all but a few keywords until the      *)
(* restart date.  RPTSCHED stands for the keywords that are read while     *)
(* skipping, WEFAC for those whose effect load_rst() takes from the file.  *)
(***************************************************************************)
EXTENDS RestartConfig

CONSTANTS
  NSteps,       \* number of report steps: TimeMap::size()
  Calendars,    \* the sequences of DATES and TSTEP that sections have
  Factors,      \* efficiency factors of WEFAC
  Default,      \* the factor before the first WEFAC
  Basics,       \* values of BASIC (6 is rejected by the reader)
  Frequencies,  \* values of FREQ
  Restarts,     \* values of RESTART in RPTSCHED
  Intervals,    \* arguments of overrideRestartWriteInterval()
  MaxKeywords   \* bound: keywords in the section

Steps == 0 .. NSteps - 1

ASSUME NStepsAssumption == NSteps \in Nat \ {0, 1}
ASSUME DataAssumption ==
  /\ Basics \subseteq 0 .. 5 /\ Frequencies \subseteq Nat
  /\ Restarts \subseteq Nat /\ Intervals \subseteq Nat
  /\ MaxKeywords \in Nat /\ Default \in Factors

\* Report steps in the order of time, each reached by DATES or by TSTEP.
ASSUME CalendarsAssumption ==
  Calendars \subseteq
    {c \in [1 .. NSteps - 1 -> [kind : {"DATES", "TSTEP"}, time : Nat \ {0}]] :
       \A s, t \in 1 .. NSteps - 1 : s < t => c[s].time < c[t].time}

VARIABLES
  phase,      \* "read", "done" or "override"
  dates,      \* the DATES and TSTEP of the section
  file,       \* the restart file: its report step, and the factor in it
  step,       \* currentStep of the base run
  base,       \* its settings: rpt_config and the factor of a well
  skip,       \* restart_skip of the restarted run
  current,    \* its currentStep
  restarted,  \* its settings
  config,     \* RestartConfig: the schedule, SAVE by step, the initial file
  asked,      \* history: RPTRST and RPTSCHED with their report steps
  keywords    \* number of keywords read

vars == <<phase, dates, file, step, base, skip, current, restarted, config, asked, keywords>>

Asked ==
  [step : Nat, name : {"RPTRST", "RPTSCHED"}, basic : Basics \cup {NotGiven, 3, 0},
   frequency : Frequencies \cup Intervals \cup {NotGiven},
   restart : Restarts \cup {NotGiven}]

Settings == [rpt : [Steps -> Restarts \cup {NotGiven}], factor : [Steps -> Factors]]

-----------------------------------------------------------------------------
\* The position of RestartConfig: its current_step begins at 1 ...
OutputStep == step + 1

\* ... and keywords after the last date are ignored.
Ignored == NSteps <= OutputStep

\* save_keywords: every keyword but SAVE clears the entry of its step.
SaveAt(save, isSave) == IF Ignored THEN save ELSE [save EXCEPT ![OutputStep] = isSave]

OutputKeyword(name, basic, frequency, restart) ==
  [step |-> OutputStep, name |-> name, basic |-> basic, frequency |-> frequency,
   restart |-> restart]

\* The time map of the restarted run and that of the base run.
Times == [s \in 1 .. NSteps - 1 |-> dates[s].time]
BaseTimes == TimeList(Times, 0)
RestartedTimes == TimeList(Times, file.step)

\* RestartConfig::getWriteRestartFile() with one of the two.
Writes(list, t) ==
  IF t = 0 THEN config.initial
  ELSE config.save[t] \/ WriteRestartFile(config.schedule[t], list, t)

-----------------------------------------------------------------------------
NewConfig(schedule, initial) ==
  [schedule |-> schedule, save |-> Filled(NSteps, FALSE), initial |-> initial]

NoOutput == Filled(NSteps, RptrstSchedule(0, 0, 1))

\* RestartConfig::handleSolutionSection(), before the section is read: RPTRST
\* applies from step 1 on, also if it does not say when to write.
SolutionSection ==
  \/ config = NewConfig(NoOutput, FALSE) /\ asked = <<>>
  \/ \E basic \in Basics \cup {NotGiven}, frequency \in Frequencies \cup {NotGiven} :
       /\ config = NewConfig(UpdateSchedule(NoOutput, 1, Rptrst(Unset, 1, basic, frequency)), TRUE)
       /\ asked = <<[OutputKeyword("RPTRST", basic, frequency, NotGiven) EXCEPT !.step = 1]>>

Initial == [rpt |-> Filled(NSteps, NotGiven), factor |-> Filled(NSteps, Default)]

\* load_rst() for a file with this report step and factor: the wells of the
\* file apply from the step before on.
LoadRst(f) == [Initial EXCEPT !.factor = Update(@, f.step - 1, f.factor)]

Init ==
  /\ phase = "read"
  /\ dates \in Calendars
  /\ file \in [step : 1 .. NSteps - 1, factor : Factors]
  /\ step = 0
  /\ base = Initial
  /\ skip = TRUE
  /\ current = 0
  /\ restarted = LoadRst(file)
  /\ SolutionSection
  /\ keywords = 0

-----------------------------------------------------------------------------
Read ==
  /\ phase = "read"
  /\ keywords < MaxKeywords
  /\ keywords' = keywords + 1
  /\ UNCHANGED <<phase, dates, file, step, skip, current>>

\* RPTRST, which only RestartConfig reads.
RPTRST(basic, frequency) ==
  LET prev == config.schedule[NSteps - 1]
  IN /\ Read
     /\ config' = [config EXCEPT
          !.save = SaveAt(@, FALSE),
          !.schedule = IF Ignored THEN @
                       ELSE Accept(@, OutputStep, Rptrst(prev, OutputStep, basic, frequency))]
     /\ asked' = IF Ignored THEN asked
                 ELSE Append(asked, OutputKeyword("RPTRST", basic, frequency, NotGiven))
     /\ UNCHANGED <<base, restarted>>

\* Variant: the keyword is skipped like others.
SkippedToo(restart) ==
  /\ Read
  /\ base' = [base EXCEPT !.rpt = Update(@, step, restart)]
  /\ restarted' = IF skip THEN restarted
                  ELSE [restarted EXCEPT !.rpt = Update(@, current, restart)]
  /\ config' = [config EXCEPT
       !.save = SaveAt(@, FALSE),
       !.schedule = IF Ignored THEN @ ELSE Accept(@, OutputStep, Rptsched(restart))]
  /\ asked' = IF Ignored THEN asked
              ELSE Append(asked, OutputKeyword("RPTSCHED", NotGiven, NotGiven, restart))

\* RPTSCHED, which RestartConfig reads and, even while skipping, Schedule.
RPTSCHED(restart) ==
  /\ Read
  /\ base' = [base EXCEPT !.rpt = Update(@, step, restart)]
  /\ restarted' = [restarted EXCEPT !.rpt = Update(@, current, restart)]
  /\ config' = [config EXCEPT
       !.save = SaveAt(@, FALSE),
       !.schedule = IF Ignored THEN @ ELSE Accept(@, OutputStep, Rptsched(restart))]
  /\ asked' = IF Ignored THEN asked
              ELSE Append(asked, OutputKeyword("RPTSCHED", NotGiven, NotGiven, restart))

SAVE ==
  /\ Read
  /\ config' = [config EXCEPT !.save = SaveAt(@, TRUE)]
  /\ UNCHANGED <<base, restarted, asked>>

\* WEFAC, and all keywords that are not read while skipping.
WEFAC(factor) ==
  /\ Read
  /\ base' = [base EXCEPT !.factor = Update(@, step, factor)]
  /\ restarted' = IF skip THEN restarted
                  ELSE [restarted EXCEPT !.factor = Update(@, current, factor)]
  /\ config' = [config EXCEPT !.save = SaveAt(@, FALSE)]
  /\ UNCHANGED asked

\* A record of DATES or a value of TSTEP.  The base run is the one that has
\* written the file: the factor in it is that of the step before the date.
\* Only DATES with the restart date ends the skipping.
EndReportStep ==
  /\ phase = "read"
  /\ step + 1 \in Steps
  /\ step + 1 = file.step => base.factor[step] = file.factor
  /\ step' = step + 1
  /\ IF skip
     THEN /\ skip' = ~(dates[step + 1].kind = "DATES"
                         /\ dates[step + 1].time = RestartedTimes[file.step])
          /\ current' = IF skip' THEN current ELSE file.step
     ELSE /\ skip' = FALSE
          /\ current' = current + 1
  /\ UNCHANGED <<phase, dates, file, base, restarted, config, asked, keywords>>

\* The section ends after its last date.
EndSection ==
  /\ phase = "read"
  /\ step = NSteps - 1
  /\ phase' = "done"
  /\ UNCHANGED <<dates, file, step, base, skip, current, restarted, config, asked, keywords>>

\* overrideRestartWriteInterval(), called by a simulator: as if nothing but
\* RPTRST with BASIC=3 had been given, but SAVE remains.
OverrideRestartWriteInterval(interval) ==
  LET basic == IF interval > 0 THEN 3 ELSE 0
  IN /\ phase = "done"
     /\ phase' = "override"
     /\ config' = [config EXCEPT
          !.schedule = Filled(NSteps, RptrstSchedule(0, basic, interval)),
          !.initial = interval > 0]
     /\ asked' = <<[OutputKeyword("RPTRST", basic, interval, NotGiven) EXCEPT !.step = 0]>>
     /\ UNCHANGED <<dates, file, step, base, skip, current, restarted, keywords>>

Next ==
  \/ \E basic \in Basics \cup {NotGiven}, frequency \in Frequencies \cup {NotGiven} :
       RPTRST(basic, frequency)
  \/ \E restart \in Restarts \cup {NotGiven} : RPTSCHED(restart)
  \/ SAVE
  \/ \E factor \in Factors : WEFAC(factor)
  \/ EndReportStep
  \/ EndSection
  \/ \E interval \in Intervals : OverrideRestartWriteInterval(interval)

Spec == Init /\ [][Next]_vars

-----------------------------------------------------------------------------
TypeOK ==
  /\ phase \in {"read", "done", "override"}
  /\ dates \in Calendars
  /\ file \in [step : 1 .. NSteps - 1, factor : Factors]
  /\ step \in Steps /\ current \in Steps
  /\ base \in Settings /\ restarted \in Settings
  /\ skip \in BOOLEAN
  /\ config \in [schedule : [Steps -> RestartSchedule], save : [Steps -> BOOLEAN],
                 initial : BOOLEAN]
  /\ asked \in Seq(Asked)
  /\ keywords \in 0 .. MaxKeywords

\* From the restart date on, a restarted run has the settings of the run that
\* wrote the file, whether they come from the file, from keywords of the
\* history or from keywords after it - provided that the restart date is one
\* of DATES (iterateScheduleSection, load_rst).
RestartedRunAgrees ==
  /\ step >= file.step
  /\ dates[file.step].kind = "DATES"
  => /\ ~skip /\ current = step
     /\ \A t \in file.step .. NSteps - 1 :
          /\ restarted.rpt[t] = base.rpt[t]
          /\ restarted.factor[t] = base.factor[t]

-----------------------------------------------------------------------------
(* The rules for the keywords read.  Those between RPTRST and RPTSCHED are *)
(* of the comment in restartconfig.hh; what RPTRST takes over when it does *)
(* not give BASIC or FREQ, of RPTRST() in restartconfig.cc; the counting   *)
(* of years and months by FREQ, of timemap.hh and timemap.cc.  On the last *)
(* two restartconfig.hh says something else, see the end of this module.   *)

\* RPTRST with BASIC, and with a mnemonic on when to write at all.
Named == {i \in DOMAIN asked : asked[i].name = "RPTRST" /\ asked[i].basic # NotGiven}

OnWhen == {i \in DOMAIN asked :
             asked[i].name = "RPTRST" /\ (asked[i].basic # NotGiven \/ asked[i].frequency # NotGiven)}

\* "a BASIC setting with n >= 3 will override consecutive RESTART=n settings"
Overridden(i) ==
  LET before == {j \in Named : j < i}
  IN before # {} /\ asked[Max(before)].basic >= 3

Accepted == {i \in DOMAIN asked :
               asked[i].name = "RPTSCHED" /\ asked[i].restart # NotGiven /\ ~Overridden(i)}

\* "the last keyword wins": the keyword that decides for a step.
Deciding(t) == {i \in OnWhen \cup Accepted : asked[i].step <= t}

\* What RPTRST does not give is taken from the setting before ("prev_sched"),
\* in which RPTSCHED leaves BASIC and FREQ at 0.
BasicOf(i) ==
  LET before == {j \in Named \cup Accepted : j <= i}
  IN IF before = {} \/ Max(before) \in Accepted THEN 0 ELSE asked[Max(before)].basic

FrequencyOf(i) ==
  LET before == {j \in OnWhen \cup Accepted :
                   j <= i /\ (j \in Accepted \/ asked[j].frequency # NotGiven)}
  IN IF before = {} \/ Max(before) \in Accepted \/ asked[Max(before)].frequency = 0
     THEN 1 ELSE asked[Max(before)].frequency

\* "the first one of a new month or year, or [...] the first of each n-month
\* or n-month period, starting from start_timestep - 1" (timemap.hh), or from
\* the "first in-sequence step following it" (isTimestepInFreqSequence).
NewPeriod(t, years, start, n) ==
  LET number(s) == Period(BaseTimes[s], years)
      first(s) == s = 0 \/ number(s) # number(s - 1)
      origin == {s \in Steps : s >= start - 1 /\ first(s)}
  IN IF n = 1 THEN number(t) # number(t - 1)
     ELSE /\ origin # {}
          /\ t > Min(origin)
          /\ LET since(s) == (number(s) - number(Min(origin))) \div n
             IN since(t) > since(t - 1)

\* A restart file is asked for at step t.
Requested(t) ==
  /\ Deciding(t) # {}
  /\ LET i == Max(Deciding(t))
         basic == BasicOf(i)
         n == FrequencyOf(i)
     IN IF i \in Accepted
        THEN asked[i].restart > 0
        ELSE \/ basic \in {1, 2}
             \/ basic = 3 /\ t % n = 0
             \/ basic = 4 /\ NewPeriod(t, TRUE, asked[i].step, n)
             \/ basic = 5 /\ NewPeriod(t, FALSE, asked[i].step, n)

\* Whatever keywords come in whatever order, the settings that RestartConfig
\* has spread over the report steps mean for each step what the rules above
\* say of the keywords (handleScheduleSection, RPTRST, RPTSCHED,
\* writeRestartFile, isTimestepInFirstOfMonthsYearsSequence).
PlanFollowsKeywords ==
  \A t \in Steps \ {0} : WriteRestartFile(config.schedule[t], BaseTimes, t) = Requested(t)

\* A restarted run writes restart files at the steps at which the first run
\* does, although its time map has no times for the history - as long as no
\* counting of years or months by FREQ begins at a step of the history other
\* than the first.
PlanSurvivesRestart ==
  \A t \in file.step + 1 .. NSteps - 1 :
    LET rs == config.schedule[t]
    IN (rs.basic \in {4, 5} /\ rs.frequency > 1
          => rs.timestep = 1 \/ rs.timestep > file.step + 1)
       => (Writes(RestartedTimes, t) <=> Writes(BaseTimes, t))

\* "return true if the step is the first of each n-month or n-month period,
\* starting from start_timestep - 1" (timemap.hh), so in a restarted run too.
RestartedRunWritesTheSame ==
  \A t \in file.step + 1 .. NSteps - 1 : Writes(RestartedTimes, t) <=> Writes(BaseTimes, t)

-----------------------------------------------------------------------------
(* What restartconfig.hh says and the code does not do.                    *)

\* "every report step is compared with the previous one to see if year/month
\* has changed.  This leaves us with a set of timesteps."
ChangeSteps(years) ==
  {s \in Steps \ {0} : Period(BaseTimes[s], years) # Period(BaseTimes[s - 1], years)}

\* With BASIC=4 or 5 and FREQ=n, "the timestep that is freq-1 timesteps
\* (within the set)" from the first one not before the keyword "will be
\* written, and then every n'the timestep (within the set) from this one": the
\* steps of the set are counted, however many months lie between two.
EveryNthOfSet ==
  phase = "done" =>
    \A t \in Steps \ {0} :
      LET rs == config.schedule[t]
          members == {s \in ChangeSteps(rs.basic = 4) : s >= rs.timestep}
      IN rs.basic \in {4, 5} =>
           (WriteRestartFile(rs, BaseTimes, t)
              <=> /\ t \in members
                  /\ Cardinality({s \in members : s <= t}) % rs.frequency = 0)

\* "RESTART=1 : As RPTRST,BASIC=1" and "RESTART>1 : As RPTRST,BASIC=2": an
\* RPTRST without BASIC, which takes BASIC from the setting before, leaves the
\* output on that RPTSCHED has turned on.
RestartActsAsBasic ==
  phase = "done" =>
    \A t \in Steps \ {0} :
      LET i == Max(Deciding(t))
          before == {j \in Named \cup Accepted : j <= i}
      IN /\ Deciding(t) # {} /\ i \in OnWhen
         /\ before # {} /\ Max(before) \in Accepted /\ asked[Max(before)].restart > 0
         => WriteRestartFile(config.schedule[t], BaseTimes, t)
=============================================================================
