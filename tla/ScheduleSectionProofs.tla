----------------------- MODULE ScheduleSectionProofs -----------------------
(***************************************************************************)
(* Proofs about ScheduleSection, for any number of report steps, any       *)
(* calendars and any values of the keywords.                               *)
(***************************************************************************)
EXTENDS ScheduleSection, SequenceTheorems, WellFoundedInduction, TLAPS

USE NStepsAssumption, DataAssumption, CalendarAssumption

-----------------------------------------------------------------------------
(* The setting of RestartConfig.                                           *)

\* Settings of RPTRST are of the type.
LEMMA RptrstType ==
  ASSUME NEW s \in Nat, NEW b \in Nat, NEW f \in Nat
  PROVE  RptrstSchedule(s, b, f) \in RestartSchedule
<1>1. (IF b > 2 /\ f = 0 THEN 1 ELSE f) \in Nat
  OBVIOUS
<1> QED BY <1>1 DEF RptrstSchedule, RestartSchedule

\* So are those with mnemonics that may be missing.
LEMMA ReadRptrstType ==
  ASSUME NEW prev \in RestartSchedule, NEW s \in Nat,
         NEW b \in Basics \cup {NotGiven}, NEW f \in Frequencies \cup {NotGiven}
  PROVE  Rptrst(prev, s, b, f) \in RestartSchedule
<1>1. prev.basic \in Nat /\ prev.frequency \in Nat
  BY DEF RestartSchedule
<1>2. (IF b = NotGiven THEN prev.basic ELSE b) \in Nat
  BY <1>1
<1>3. (IF f = NotGiven THEN prev.frequency ELSE f) \in Nat
  BY <1>1
<1>4. Unset \in RestartSchedule
  BY RptrstType DEF Unset
<1> QED BY <1>2, <1>3, <1>4, RptrstType DEF Rptrst

\* And those of RPTSCHED.
LEMMA ReadRptschedType ==
  ASSUME NEW r \in Restarts \cup {NotGiven}
  PROVE  Rptsched(r) \in RestartSchedule
<1>1. Unset \in RestartSchedule
  BY RptrstType DEF Unset
<1>2. r # NotGiven => RptschedSchedule(r) \in RestartSchedule
  BY DEF RptschedSchedule, RestartSchedule
<1> QED BY <1>1, <1>2 DEF Rptsched

\* A setting joins a container of settings.
LEMMA AcceptType ==
  ASSUME NEW data \in [Steps -> RestartSchedule], NEW s \in Steps, NEW rs \in RestartSchedule
  PROVE  /\ UpdateSchedule(data, s, rs) \in [Steps -> RestartSchedule]
         /\ Accept(data, s, rs) \in [Steps -> RestartSchedule]
<1>1. DOMAIN data = Steps
  OBVIOUS
<1>2. UpdateSchedule(data, s, rs) \in [Steps -> RestartSchedule]
  BY <1>1 DEF UpdateSchedule
<1> QED BY <1>2 DEF Accept

\* Keywords of the section leave a RestartConfig of its type.
Config == [schedule : [Steps -> RestartSchedule], save : [Steps -> BOOLEAN], initial : BOOLEAN]

LEMMA ConfigType ==
  ASSUME NEW c \in Config, step \in Steps, NEW isSave \in BOOLEAN, NEW rs \in RestartSchedule
  PROVE  [c EXCEPT !.save = SaveAt(@, isSave),
                   !.schedule = IF Ignored THEN @ ELSE Accept(@, OutputStep, rs)] \in Config
<1>1. ~Ignored => OutputStep \in Steps
  BY DEF Ignored, OutputStep, Steps
<1>2. c.save \in [Steps -> BOOLEAN] /\ c.schedule \in [Steps -> RestartSchedule]
  BY DEF Config
<1>3. SaveAt(c.save, isSave) \in [Steps -> BOOLEAN]
  BY <1>2 DEF SaveAt
<1>4. ~Ignored => Accept(c.schedule, OutputStep, rs) \in [Steps -> RestartSchedule]
  BY <1>1, <1>2, AcceptType
<1> QED BY <1>2, <1>3, <1>4 DEF Config

-----------------------------------------------------------------------------
(* Settings of the schedule.                                               *)

LEMMA UpdateType ==
  ASSUME NEW V, NEW data \in [Steps -> V], NEW i \in Steps, NEW v \in V
  PROVE  Update(data, i, v) \in [Steps -> V]
BY DEF Update, Steps

\* An update on a container that is uniform from its step on.
LEMMA UpdateAt ==
  ASSUME NEW data, DOMAIN data = Steps, NEW i \in Steps, NEW v,
         \A t \in Steps : t >= i => data[t] = data[i]
  PROVE  \A t \in Steps : Update(data, i, v)[t] = IF t >= i THEN v ELSE data[t]
BY DEF Update, Steps

\* Two containers that agree from a step on still do after equal updates.
LEMMA UpdateBoth ==
  ASSUME NEW data, NEW other, DOMAIN data = Steps, DOMAIN other = Steps,
         NEW i \in Steps, NEW first \in Steps, first <= i, NEW v,
         \A t \in Steps : t >= first => data[t] = other[t]
  PROVE  \A t \in Steps : t >= first => Update(data, i, v)[t] = Update(other, i, v)[t]
<1>1. data[i] = other[i]
  OBVIOUS
<1> QED BY <1>1 DEF Update, Steps

-----------------------------------------------------------------------------
(* The invariant.                                                          *)

\* Before the next keyword the base run has one value for all that is to come.
Uniform ==
  \A t \in Steps : t >= step =>
    base.rpt[t] = base.rpt[step] /\ base.factor[t] = base.factor[step]

\* While skipping the restarted run has the last RPTSCHED at all steps and the
\* factor of the file; DATES with the restart date is still to come.
Skipping ==
  skip =>
    /\ current = 0
    /\ dates[file.step].kind = "DATES" => step < file.step
    /\ \A t \in Steps : restarted.rpt[t] = base.rpt[step]
    /\ \A t \in Steps : t >= file.step => restarted.factor[t] = file.factor

\* Afterwards both runs are at the same step.
Following ==
  ~skip =>
    /\ step >= file.step
    /\ current = step
    /\ \A t \in Steps : t >= file.step => restarted.rpt[t] = base.rpt[t]
    /\ \A t \in Steps : t >= file.step => restarted.factor[t] = base.factor[t]

Inv == TypeOK /\ Uniform /\ Skipping /\ Following

LEMMA ConfigOK == TypeOK => config \in Config
BY DEF TypeOK, Config

LEMMA ZeroStep == 0 \in Steps /\ NSteps - 1 \in Steps
BY DEF Steps

LEMMA FileStep == ASSUME TypeOK PROVE file.step \in Steps \ {0} /\ file.factor \in Factors
BY DEF TypeOK, Steps

LEMMA SettingsOK ==
  ASSUME TypeOK
  PROVE  /\ base.rpt \in [Steps -> Restarts \cup {NotGiven}]
         /\ base.factor \in [Steps -> Factors]
         /\ restarted.rpt \in [Steps -> Restarts \cup {NotGiven}]
         /\ restarted.factor \in [Steps -> Factors]
BY DEF TypeOK, Settings

LEMMA InitInv == Init => Inv
<1> SUFFICES ASSUME Init PROVE Inv
  OBVIOUS
<1>1. file.step \in Steps /\ file.step - 1 \in Steps /\ 0 \in Steps /\ file.factor \in Factors
  BY DEF Init, Steps
<1>2. Filled(NSteps, Default) \in [Steps -> Factors]
  BY DEF Filled, Steps
<1>3. Filled(NSteps, NotGiven) \in [Steps -> Restarts \cup {NotGiven}]
  BY DEF Filled, Steps
<1>4. Initial \in Settings
  BY <1>2, <1>3 DEF Initial, Settings
<1>5. Initial.factor = Filled(NSteps, Default) /\ Initial.rpt = Filled(NSteps, NotGiven)
  BY DEF Initial
<1>6. LoadRst(file) \in Settings
  <2>1. Update(Initial.factor, file.step - 1, file.factor) \in [Steps -> Factors]
    BY <1>1, <1>2, <1>5, UpdateType
  <2> QED BY <1>4, <2>1 DEF LoadRst, Settings
<1>7. config \in Config /\ asked \in Seq(Asked)
  <2>1. NoOutput \in [Steps -> RestartSchedule]
    BY RptrstType DEF NoOutput, Filled, Steps
  <2>2. \A s \in [Steps -> RestartSchedule], b \in BOOLEAN : NewConfig(s, b) \in Config
    BY DEF NewConfig, Config, Filled, Steps
  <2>3. CASE config = NewConfig(NoOutput, FALSE) /\ asked = <<>>
    <3>1. asked \in Seq(Asked)
      BY <2>3
    <3> QED BY <2>1, <2>2, <2>3, <3>1
  <2>4. CASE \E b \in Basics \cup {NotGiven}, f \in Frequencies \cup {NotGiven} :
       /\ config = NewConfig(UpdateSchedule(NoOutput, 1, Rptrst(Unset, 1, b, f)), TRUE)
       /\ asked = <<[OutputKeyword("RPTRST", b, f, NotGiven) EXCEPT !.step = 1]>>
    <3>1. PICK b \in Basics \cup {NotGiven}, f \in Frequencies \cup {NotGiven} :
       /\ config = NewConfig(UpdateSchedule(NoOutput, 1, Rptrst(Unset, 1, b, f)), TRUE)
       /\ asked = <<[OutputKeyword("RPTRST", b, f, NotGiven) EXCEPT !.step = 1]>>
      BY <2>4
    <3>2. Unset \in RestartSchedule
      BY RptrstType DEF Unset
    <3>3. Rptrst(Unset, 1, b, f) \in RestartSchedule
      BY <3>2, ReadRptrstType
    <3>4. 1 \in Steps
      BY DEF Steps
    <3>5. UpdateSchedule(NoOutput, 1, Rptrst(Unset, 1, b, f)) \in [Steps -> RestartSchedule]
      BY <2>1, <3>3, <3>4, AcceptType
    <3>6. config \in Config
      BY <2>2, <3>1, <3>5
    <3>7. [OutputKeyword("RPTRST", b, f, NotGiven) EXCEPT !.step = 1] =
            [step |-> 1, name |-> "RPTRST", basic |-> b, frequency |-> f, restart |-> NotGiven]
      BY DEF OutputKeyword
    <3> DEFINE e == [OutputKeyword("RPTRST", b, f, NotGiven) EXCEPT !.step = 1]
    <3>8. e \in Asked
      BY <3>7 DEF Asked
    <3>9. asked \in Seq(Asked)
      <4> HIDE DEF e
      <4>1. asked = <<e>>
        BY <3>1 DEF e
      <4> QED BY <3>8, <4>1
    <3> QED BY <3>6, <3>9
  <2> QED BY <2>3, <2>4 DEF Init, SolutionSection
<1>8. TypeOK
  BY <1>1, <1>4, <1>6, <1>7 DEF Init, TypeOK, Config, Steps
<1>9. Uniform
  BY <1>5 DEF Init, Uniform, Filled, Steps
<1>10. Skipping
  <2>1. restarted.rpt = Filled(NSteps, NotGiven)
    BY <1>4, <1>5 DEF Init, LoadRst, Settings
  <2>2. restarted.factor = Update(Initial.factor, file.step - 1, file.factor)
    BY <1>4 DEF Init, LoadRst, Settings
  <2>3. \A t \in Steps : t >= file.step - 1 => Initial.factor[t] = Initial.factor[file.step - 1]
    BY <1>1, <1>5 DEF Filled, Steps
  <2>4. \A t \in Steps : t >= file.step => restarted.factor[t] = file.factor
    <3>1. \A t \in Steps : restarted.factor[t] = IF t >= file.step - 1 THEN file.factor
                                                 ELSE Initial.factor[t]
      <4>1. DOMAIN Initial.factor = Steps
        BY <1>2, <1>5
      <4> QED BY <1>1, <2>2, <2>3, <4>1, UpdateAt
    <3> QED BY <1>1, <3>1 DEF Steps
  <2>5. \A t \in Steps : restarted.rpt[t] = base.rpt[step]
    BY <1>1, <1>5, <2>1 DEF Init, Filled, Steps
  <2>6. step < file.step /\ current = 0
    BY DEF Init
  <2> QED BY <2>4, <2>5, <2>6 DEF Skipping
<1>11. Following
  BY DEF Init, Following
<1> QED BY <1>8, <1>9, <1>10, <1>11 DEF Inv

-----------------------------------------------------------------------------
(* One lemma for each action.                                              *)

LEMMA OutputType ==
  ASSUME step \in Steps, NEW n \in {"RPTRST", "RPTSCHED"}, NEW b \in Basics \cup {NotGiven, 3, 0},
         NEW f \in Frequencies \cup Intervals \cup {NotGiven}, NEW r \in Restarts \cup {NotGiven}
  PROVE  OutputKeyword(n, b, f, r) \in Asked
<1>1. OutputStep \in Nat
  BY DEF OutputStep, Steps
<1> QED BY <1>1 DEF OutputKeyword, Asked

LEMMA AppendType ==
  ASSUME asked \in Seq(Asked), NEW k \in Asked
  PROVE  Append(asked, k) \in Seq(Asked)
OBVIOUS

LEMMA RptrstInv ==
  ASSUME Inv, NEW b \in Basics \cup {NotGiven}, NEW f \in Frequencies \cup {NotGiven}, RPTRST(b, f)
  PROVE  Inv'
<1>1. step \in Steps /\ config \in Config /\ NSteps - 1 \in Steps
  BY ConfigOK, ZeroStep DEF Inv, TypeOK
<1>2. config.schedule[NSteps - 1] \in RestartSchedule
  BY <1>1 DEF Config
<1>3. OutputStep \in Nat
  BY <1>1 DEF OutputStep, Steps
<1>4. Rptrst(config.schedule[NSteps - 1], OutputStep, b, f) \in RestartSchedule
  BY <1>2, <1>3, ReadRptrstType
<1>5. config' \in Config
  BY <1>1, <1>4, ConfigType DEF RPTRST
<1>6. OutputKeyword("RPTRST", b, f, NotGiven) \in Asked
  BY <1>1, OutputType
<1>7. asked' \in Seq(Asked)
  BY <1>6, AppendType DEF RPTRST, Inv, TypeOK
<1>8. keywords' \in 0 .. MaxKeywords
  BY DEF RPTRST, Read, Inv, TypeOK
<1>9. UNCHANGED <<phase, dates, file, step, skip, current, base, restarted>>
  BY DEF RPTRST, Read
<1>10. TypeOK'
  BY <1>5, <1>7, <1>8, <1>9 DEF Inv, TypeOK, Config
<1>11. Uniform' /\ Skipping' /\ Following'
  BY <1>9 DEF Inv, Uniform, Skipping, Following
<1> QED BY <1>10, <1>11 DEF Inv

LEMMA RptschedInv ==
  ASSUME Inv, NEW r \in Restarts \cup {NotGiven}, RPTSCHED(r)
  PROVE  Inv'
<1> DEFINE V == Restarts \cup {NotGiven}
<1>1. step \in Steps /\ current \in Steps /\ config \in Config
  BY ConfigOK DEF Inv, TypeOK
<1>2. config' \in Config
  BY <1>1, ReadRptschedType, ConfigType DEF RPTSCHED
<1>3. OutputKeyword("RPTSCHED", NotGiven, NotGiven, r) \in Asked
  BY <1>1, OutputType
<1>4. asked' \in Seq(Asked)
  BY <1>3, AppendType DEF RPTSCHED, Inv, TypeOK
<1>5. keywords' \in 0 .. MaxKeywords
  BY DEF RPTSCHED, Read, Inv, TypeOK
<1>6. UNCHANGED <<phase, dates, file, step, skip, current>>
  BY DEF RPTSCHED, Read
<1>7. /\ base.rpt \in [Steps -> V] /\ base.factor \in [Steps -> Factors]
      /\ restarted.rpt \in [Steps -> V] /\ restarted.factor \in [Steps -> Factors]
  BY SettingsOK DEF Inv
<1>8. /\ base'.rpt = Update(base.rpt, step, r) /\ base'.factor = base.factor
      /\ restarted'.rpt = Update(restarted.rpt, current, r)
      /\ restarted'.factor = restarted.factor
  BY DEF RPTSCHED, Inv, TypeOK, Settings
<1>9. base' \in Settings /\ restarted' \in Settings
  <2>1. /\ Update(base.rpt, step, r) \in [Steps -> V]
        /\ Update(restarted.rpt, current, r) \in [Steps -> V]
    BY <1>1, <1>7, UpdateType
  <2> QED BY <2>1 DEF RPTSCHED, Inv, TypeOK, Settings
<1>10. TypeOK'
  BY <1>2, <1>4, <1>5, <1>6, <1>9 DEF Inv, TypeOK, Config
<1>11. \A t \in Steps : base'.rpt[t] = IF t >= step THEN r ELSE base.rpt[t]
  <2>1. \A t \in Steps : t >= step => base.rpt[t] = base.rpt[step]
    BY DEF Inv, Uniform
  <2>2. DOMAIN base.rpt = Steps
    BY <1>7
  <2> QED BY <1>1, <1>8, <2>1, <2>2, UpdateAt
<1>12. Uniform'
  BY <1>1, <1>6, <1>8, <1>11 DEF Inv, Uniform, Steps
<1>13. Skipping'
  <2> SUFFICES ASSUME skip PROVE Skipping'
    BY <1>6 DEF Skipping
  <2>1. current = 0 /\ \A t \in Steps : restarted.rpt[t] = base.rpt[step]
    BY DEF Inv, Skipping
  <2>2. \A t \in Steps : restarted'.rpt[t] = r
    <3>1. \A t \in Steps : t >= current => restarted.rpt[t] = restarted.rpt[current]
      BY <1>1, <2>1
    <3>2. \A t \in Steps : restarted'.rpt[t] = IF t >= current THEN r ELSE restarted.rpt[t]
      <4>1. DOMAIN restarted.rpt = Steps
        BY <1>7
      <4> QED BY <1>1, <1>8, <3>1, <4>1, UpdateAt
    <3> QED BY <2>1, <3>2 DEF Steps
  <2>3. base'.rpt[step] = r
    BY <1>1, <1>11 DEF Steps
  <2> QED BY <1>6, <1>8, <2>2, <2>3 DEF Inv, Skipping
<1>14. Following'
  <2> SUFFICES ASSUME ~skip PROVE Following'
    BY <1>6 DEF Following
  <2>1. /\ step >= file.step /\ current = step
        /\ \A t \in Steps : t >= file.step => restarted.rpt[t] = base.rpt[t]
    BY DEF Inv, Following
  <2>2. file.step \in Steps
    BY FileStep DEF Inv
  <2>3. file.step <= step
    BY <1>1, <2>1, <2>2 DEF Steps
  <2>4. \A t \in Steps : t >= file.step => restarted'.rpt[t] = base'.rpt[t]
    <3>1. DOMAIN restarted.rpt = Steps /\ DOMAIN base.rpt = Steps
      BY <1>7
    <3> QED BY <1>1, <1>8, <2>1, <2>2, <2>3, <3>1, UpdateBoth
  <2> QED BY <1>6, <1>8, <2>1, <2>4 DEF Inv, Following
<1> QED BY <1>10, <1>12, <1>13, <1>14 DEF Inv

LEMMA SaveType ==
  ASSUME NEW c \in Config, step \in Steps, NEW isSave \in BOOLEAN
  PROVE  [c EXCEPT !.save = SaveAt(@, isSave)] \in Config
<1>1. c.save \in [Steps -> BOOLEAN]
  BY DEF Config
<1>2. SaveAt(c.save, isSave) \in [Steps -> BOOLEAN]
  BY <1>1 DEF SaveAt
<1> QED BY <1>2 DEF Config

LEMMA SaveInv == ASSUME Inv, SAVE PROVE Inv'
<1>1. config \in Config /\ step \in Steps
  BY ConfigOK DEF Inv, TypeOK
<1>2. config' \in Config
  BY <1>1, SaveType DEF SAVE
<1>3. UNCHANGED <<phase, dates, file, step, skip, current, base, restarted, asked>>
  BY DEF SAVE, Read
<1>4. keywords' \in 0 .. MaxKeywords
  BY DEF SAVE, Read, Inv, TypeOK
<1>5. TypeOK'
  BY <1>2, <1>3, <1>4 DEF Inv, TypeOK, Config
<1>6. Uniform' /\ Skipping' /\ Following'
  BY <1>3 DEF Inv, Uniform, Skipping, Following
<1> QED BY <1>5, <1>6 DEF Inv

LEMMA WefacInv == ASSUME Inv, NEW v \in Factors, WEFAC(v) PROVE Inv'
<1>1. step \in Steps /\ current \in Steps /\ config \in Config
  BY ConfigOK DEF Inv, TypeOK
<1>2. config' \in Config
  BY <1>1, SaveType DEF WEFAC
<1>3. UNCHANGED <<phase, dates, file, step, skip, current, asked>>
  BY DEF WEFAC, Read
<1>4. keywords' \in 0 .. MaxKeywords
  BY DEF WEFAC, Read, Inv, TypeOK
<1>5. base.factor \in [Steps -> Factors] /\ restarted.factor \in [Steps -> Factors]
  BY SettingsOK DEF Inv
<1>6. base'.factor = Update(base.factor, step, v) /\ base'.rpt = base.rpt
  BY DEF WEFAC, Inv, TypeOK, Settings
<1>7. /\ restarted'.rpt = restarted.rpt
      /\ skip => restarted'.factor = restarted.factor
      /\ ~skip => restarted'.factor = Update(restarted.factor, current, v)
  BY DEF WEFAC, Inv, TypeOK, Settings
<1>8. base' \in Settings /\ restarted' \in Settings
  <2>1. /\ Update(base.factor, step, v) \in [Steps -> Factors]
        /\ Update(restarted.factor, current, v) \in [Steps -> Factors]
    BY <1>1, <1>5, UpdateType
  <2> QED BY <2>1 DEF WEFAC, Inv, TypeOK, Settings
<1>9. TypeOK'
  BY <1>2, <1>3, <1>4, <1>8 DEF Inv, TypeOK, Config
<1>10. Uniform'
  <2>1. \A t \in Steps : t >= step => base.factor[t] = base.factor[step]
    BY DEF Inv, Uniform
  <2>2. \A t \in Steps : base'.factor[t] = IF t >= step THEN v ELSE base.factor[t]
    <3>1. DOMAIN base.factor = Steps
      BY <1>5
    <3> QED BY <1>1, <1>6, <2>1, <3>1, UpdateAt
  <2> QED BY <1>1, <1>3, <1>6, <2>2 DEF Inv, Uniform, Steps
<1>11. Skipping'
  BY <1>3, <1>6, <1>7 DEF Inv, Skipping
<1>12. Following'
  <2> SUFFICES ASSUME ~skip PROVE Following'
    BY <1>3 DEF Following
  <2>1. /\ step >= file.step /\ current = step
        /\ \A t \in Steps : t >= file.step => restarted.factor[t] = base.factor[t]
    BY DEF Inv, Following
  <2>2. file.step \in Steps
    BY FileStep DEF Inv
  <2>3. file.step <= step
    BY <1>1, <2>1, <2>2 DEF Steps
  <2>4. \A t \in Steps : t >= file.step => restarted'.factor[t] = base'.factor[t]
    <3>1. DOMAIN restarted.factor = Steps /\ DOMAIN base.factor = Steps
      BY <1>5
    <3> QED BY <1>1, <1>6, <1>7, <2>1, <2>2, <2>3, <3>1, UpdateBoth
  <2> QED BY <1>3, <1>6, <1>7, <2>1, <2>4 DEF Inv, Following
<1> QED BY <1>9, <1>10, <1>11, <1>12 DEF Inv

\* Times are in strict order: only the restart step has the restart date.
LEMMA RestartDate ==
  ASSUME TypeOK, NEW s \in Steps \ {0}
  PROVE  dates[s].time = RestartedTimes[file.step] => s = file.step
<1>1. /\ dates \in [1 .. NSteps - 1 -> [kind : {"DATES", "TSTEP"}, time : Nat \ {0}]]
      /\ \A i, j \in 1 .. NSteps - 1 : i < j => dates[i].time < dates[j].time
  BY CalendarsAssumption DEF TypeOK
<1>2. file.step \in 1 .. NSteps - 1 /\ s \in 1 .. NSteps - 1
  BY DEF TypeOK, Steps
<1>3. Times \in Seq(Nat) /\ Len(Times) = NSteps - 1 /\ \A i \in 1 .. NSteps - 1 : Times[i] = dates[i].time
  <2>1. NSteps - 1 \in Nat
    OBVIOUS
  <2>2. Times \in [1 .. NSteps - 1 -> Nat]
    BY <1>1 DEF Times
  <2> QED BY <2>1, <2>2 DEF Times
<1>4. RestartedTimes[file.step] = dates[file.step].time
  BY <1>2, <1>3 DEF RestartedTimes, TimeList
<1>5. dates[s].time \in Nat /\ dates[file.step].time \in Nat
  BY <1>1, <1>2
<1>6. s < file.step => dates[s].time < dates[file.step].time
  BY <1>1, <1>2
<1>7. file.step < s => dates[file.step].time < dates[s].time
  BY <1>1, <1>2
<1> QED BY <1>2, <1>4, <1>5, <1>6, <1>7

LEMMA RestartTime ==
  ASSUME TypeOK
  PROVE  RestartedTimes[file.step] = dates[file.step].time
<1>1. dates \in [1 .. NSteps - 1 -> [kind : {"DATES", "TSTEP"}, time : Nat \ {0}]]
  BY CalendarsAssumption DEF TypeOK
<1>2. file.step \in 1 .. NSteps - 1 /\ NSteps - 1 \in Nat
  BY DEF TypeOK
<1>3. Times \in [1 .. NSteps - 1 -> Nat]
  BY <1>1 DEF Times
<1>4. Len(Times) = NSteps - 1
  BY <1>2, <1>3
<1> QED BY <1>1, <1>2, <1>4 DEF RestartedTimes, TimeList, Times

LEMMA EndReportStepInv == ASSUME Inv, EndReportStep PROVE Inv'
<1>1. step \in Steps /\ step + 1 \in Steps \ {0} /\ current \in Steps /\ file.step \in Steps \ {0}
  BY FileStep DEF EndReportStep, Inv, TypeOK, Steps
<1>2. UNCHANGED <<phase, dates, file, base, restarted, config, asked, keywords>> /\ step' = step + 1
  BY DEF EndReportStep
<1>3. \A t \in Steps : t >= step + 1 =>
        base.rpt[t] = base.rpt[step + 1] /\ base.factor[t] = base.factor[step + 1]
  BY <1>1 DEF Inv, Uniform, Steps
<1>4. Uniform'
  BY <1>2, <1>3 DEF Uniform
<1>5. base.rpt[step + 1] = base.rpt[step]
  BY <1>1 DEF Inv, Uniform, Steps
<1>6. CASE skip
  <2> DEFINE met == dates[step + 1].kind = "DATES" /\ dates[step + 1].time = RestartedTimes[file.step]
  <2>1. skip' = ~met /\ current' = IF skip' THEN current ELSE file.step
    BY <1>6 DEF EndReportStep
  <2>2. TypeOK'
    <3>1. skip' \in BOOLEAN /\ current' \in Steps /\ step' \in Steps
      BY <1>1, <1>2, <2>1
    <3> HIDE DEF met
    <3> QED BY <1>2, <3>1 DEF Inv, TypeOK
  <2>3. CASE met
    <3>1. step + 1 = file.step
      BY <1>1, <2>3, RestartDate DEF Inv
    <3>2. base.factor[step] = file.factor
      BY <3>1 DEF EndReportStep
    <3>3. ~skip' /\ current' = step' /\ step' >= file.step
      <4>1. ~skip'
        BY <2>1, <2>3
      <4>2. current' = file.step /\ step' = file.step
        BY <1>2, <2>1, <3>1, <4>1
      <4> HIDE DEF met
      <4> QED BY <1>1, <4>1, <4>2 DEF Steps
    <3>4. \A t \in Steps : t >= file.step =>
            restarted.rpt[t] = base.rpt[t] /\ restarted.factor[t] = base.factor[t]
      <4> TAKE t \in Steps
      <4> HAVE t >= file.step
      <4>1. t >= step
        BY <1>1, <3>1 DEF Steps
      <4>2. base.rpt[t] = base.rpt[step] /\ base.factor[t] = base.factor[step]
        BY <4>1 DEF Inv, Uniform
      <4>3. restarted.rpt[t] = base.rpt[step] /\ restarted.factor[t] = file.factor
        BY <1>6 DEF Inv, Skipping
      <4> QED BY <3>2, <4>2, <4>3
    <3>5. Skipping' /\ Following'
      BY <1>2, <3>3, <3>4 DEF Skipping, Following
    <3> QED BY <1>4, <2>2, <3>5 DEF Inv
  <2>4. CASE ~met
    <3>1. skip' /\ current' = 0
      BY <1>6, <2>1, <2>4 DEF Inv, Skipping
    <3>2. dates[file.step].kind = "DATES" => step + 1 < file.step
      <4> SUFFICES ASSUME dates[file.step].kind = "DATES" PROVE step + 1 < file.step
        OBVIOUS
      <4>1. step < file.step
        BY <1>6 DEF Inv, Skipping
      <4>2. step + 1 # file.step
        BY <2>4, RestartTime DEF Inv
      <4> QED BY <1>1, <4>1, <4>2 DEF Steps
    <3>3. Skipping'
      BY <1>2, <1>5, <1>6, <3>1, <3>2 DEF Inv, Skipping
    <3>4. Following'
      BY <3>1 DEF Following
    <3> QED BY <1>4, <2>2, <3>3, <3>4 DEF Inv
  <2> QED BY <2>3, <2>4
<1>7. CASE ~skip
  <2>1. skip' = FALSE /\ current' = current + 1
    BY <1>7 DEF EndReportStep
  <2>2. current = step /\ step >= file.step
    BY <1>7 DEF Inv, Following
  <2>3. TypeOK'
    <3>1. skip' \in BOOLEAN /\ current' \in Steps /\ step' \in Steps
      BY <1>1, <1>2, <2>1, <2>2
    <3> QED BY <1>2, <3>1 DEF Inv, TypeOK
  <2>4. step + 1 >= file.step
    BY <1>1, <2>2 DEF Steps
  <2>5. Skipping' /\ Following'
    BY <1>2, <1>7, <2>1, <2>2, <2>4 DEF Inv, Skipping, Following
  <2> QED BY <1>4, <2>3, <2>5 DEF Inv
<1> QED BY <1>6, <1>7

LEMMA OverrideInv ==
  ASSUME Inv, NEW n \in Intervals, OverrideRestartWriteInterval(n)
  PROVE  Inv'
<1> DEFINE b == IF n > 0 THEN 3 ELSE 0
<1>1. n \in Nat /\ b \in {0, 3} /\ step \in Steps /\ config \in Config
  BY ConfigOK DEF Inv, TypeOK
<1>2. RptrstSchedule(0, b, n) \in RestartSchedule
  BY <1>1, RptrstType
<1>3. Filled(NSteps, RptrstSchedule(0, b, n)) \in [Steps -> RestartSchedule]
  BY <1>2 DEF Filled, Steps
<1>4. config' \in Config
  <2>1. config' = [config EXCEPT !.schedule = Filled(NSteps, RptrstSchedule(0, b, n)),
                                 !.initial = n > 0]
    BY DEF OverrideRestartWriteInterval
  <2>2. (n > 0) \in BOOLEAN
    OBVIOUS
  <2> QED BY <1>1, <1>3, <2>1, <2>2 DEF Config
<1>5. asked' \in Seq(Asked)
  <2>1. OutputKeyword("RPTRST", b, n, NotGiven) \in Asked
    BY <1>1, OutputType
  <2>2. [OutputKeyword("RPTRST", b, n, NotGiven) EXCEPT !.step = 0] \in Asked
    BY <2>1 DEF Asked
  <2>3. asked' = <<[OutputKeyword("RPTRST", b, n, NotGiven) EXCEPT !.step = 0]>>
    BY DEF OverrideRestartWriteInterval
  <2> QED BY <2>2, <2>3
<1>6. UNCHANGED <<dates, file, step, base, skip, current, restarted, keywords>> /\ phase' = "override"
  BY DEF OverrideRestartWriteInterval
<1>7. TypeOK'
  BY <1>4, <1>5, <1>6 DEF Inv, TypeOK, Config
<1>8. Uniform' /\ Skipping' /\ Following'
  BY <1>6 DEF Inv, Uniform, Skipping, Following
<1> QED BY <1>7, <1>8 DEF Inv

LEMMA NextInv == Inv /\ [Next]_vars => Inv'
<1> SUFFICES ASSUME Inv, [Next]_vars PROVE Inv'
  OBVIOUS
<1>1. CASE \E b \in Basics \cup {NotGiven}, f \in Frequencies \cup {NotGiven} : RPTRST(b, f)
  BY <1>1, RptrstInv
<1>2. CASE \E r \in Restarts \cup {NotGiven} : RPTSCHED(r)
  BY <1>2, RptschedInv
<1>3. CASE SAVE
  BY <1>3, SaveInv
<1>4. CASE \E v \in Factors : WEFAC(v)
  BY <1>4, WefacInv
<1>5. CASE EndReportStep
  BY <1>5, EndReportStepInv
<1>6. CASE EndSection
  <2>1. UNCHANGED <<dates, file, step, base, skip, current, restarted, config, asked, keywords>>
        /\ phase' = "done"
    BY <1>6 DEF EndSection
  <2> QED BY <2>1 DEF Inv, TypeOK, Uniform, Skipping, Following
<1>7. CASE \E n \in Intervals : OverrideRestartWriteInterval(n)
  BY <1>7, OverrideInv
<1>8. CASE UNCHANGED vars
  BY <1>8 DEF vars, Inv, TypeOK, Uniform, Skipping, Following, Times, RestartedTimes
<1> QED BY <1>1, <1>2, <1>3, <1>4, <1>5, <1>6, <1>7, <1>8 DEF Next

\* The readers keep their settings and positions in range.
THEOREM TypeCorrect == Spec => []TypeOK
<1>1. Inv => TypeOK
  BY DEF Inv
<1> QED BY InitInv, NextInv, <1>1, PTL DEF Spec

\* A restarted run has the settings of the run that wrote the file from the
\* restart date on (iterateScheduleSection, load_rst).
THEOREM RestartAgrees == Spec => []RestartedRunAgrees
<1>1. Inv => RestartedRunAgrees
  <2> SUFFICES ASSUME Inv, step >= file.step, dates[file.step].kind = "DATES"
               PROVE  /\ ~skip /\ current = step
                      /\ \A t \in file.step .. NSteps - 1 :
                           restarted.rpt[t] = base.rpt[t] /\ restarted.factor[t] = base.factor[t]
    BY DEF RestartedRunAgrees
  <2>1. step \in Steps /\ file.step \in Steps
    BY FileStep DEF Inv, TypeOK
  <2>2. ~skip
    BY <2>1 DEF Inv, Skipping, Steps
  <2>3. \A t \in file.step .. NSteps - 1 : t \in Steps /\ t >= file.step
    BY <2>1 DEF Steps
  <2> QED BY <2>2, <2>3 DEF Inv, Following
<1> QED BY InitInv, NextInv, <1>1, PTL DEF Spec
-----------------------------------------------------------------------------
(* The time maps.                                                          *)

\* The least element of a set of numbers.
LEMMA Least ==
  ASSUME NEW U, U \subseteq Nat, U # {}
  PROVE  Min(U) \in U /\ \A x \in U : Min(U) <= x
<1> DEFINE R == {p \in Nat \X Nat : p[1] < p[2]}
<1>1. IsWellFoundedOn(R, Nat)
  BY NatLessThanWellFounded DEF OpToRel
<1>2. PICK m \in U : \A x \in U : ~ (<<x, m>> \in R)
  <2> HIDE DEF R
  <2> QED BY <1>1, WFMin
<1>3. ASSUME NEW x \in U PROVE m <= x
  <2>1. x \in Nat /\ m \in Nat
    OBVIOUS
  <2>2. ~ (x < m)
    BY <1>2, <2>1
  <2> QED BY <2>1, <2>2
<1> QED BY <1>3 DEF Min

\* The greatest element of a set of numbers with a bound.
LEMMA Greatest ==
  ASSUME NEW U, U \subseteq Nat, U # {}, NEW n \in Nat, \A x \in U : x <= n
  PROVE  Max(U) \in U /\ \A x \in U : x <= Max(U)
<1> DEFINE V == {n - x : x \in U}
<1>1. V \subseteq Nat /\ V # {}
  <2>1. \A x \in U : x \in Nat /\ x <= n
    OBVIOUS
  <2>2. \A x \in U : n - x \in Nat
    BY <2>1
  <2> QED BY <2>2
<1>2. PICK v \in V : \A y \in V : v <= y
  <2> HIDE DEF V
  <2> QED BY <1>1, Least
<1>3. PICK m \in U : v = n - m
  OBVIOUS
<1>4. ASSUME NEW x \in U PROVE m >= x
  <2>1. n - x \in V
    OBVIOUS
  <2>2. n - m <= n - x
    BY <1>2, <1>3, <2>1
  <2>3. x \in Nat /\ m \in Nat
    OBVIOUS
  <2> QED BY <2>2, <2>3
<1>5. \E m1 \in U : \A x \in U : m1 >= x
  BY <1>4
<1>6. Max(U) \in U /\ \A x \in U : Max(U) >= x
  BY <1>5 DEF Max
<1>7. ASSUME NEW x \in U PROVE x <= Max(U)
  <2>1. x \in Nat /\ Max(U) \in Nat /\ Max(U) >= x
    BY <1>6
  <2> QED BY <2>1
<1> QED BY <1>6, <1>7

\* A sequence of values that changes at no step of an interval.
LEMMA Unchanged ==
  ASSUME NEW f, NEW b \in Nat, NEW u \in Nat, b <= u, \A s \in b + 1 .. u : f[s] = f[s - 1]
  PROVE  f[u] = f[b]
<1> DEFINE U == {s \in b .. u : f[s] # f[b]}
<1> SUFFICES ASSUME f[u] # f[b] PROVE FALSE
  OBVIOUS
<1>1. U \subseteq Nat /\ u \in U
  OBVIOUS
<1>2. PICK m \in U : \A x \in U : m <= x
  <2> HIDE DEF U
  <2> QED BY <1>1, Least
<1>3. m \in b + 1 .. u
  BY <1>2
<1>4. m - 1 \notin U
  BY <1>2, <1>3
<1>5. f[m - 1] = f[b]
  BY <1>3, <1>4
<1> QED BY <1>2, <1>3, <1>5

LEMMA DivFacts ==
  ASSUME NEW a \in Int, NEW n \in Nat \ {0}
  PROVE  /\ a \div n \in Int
         /\ n * (a \div n) <= a /\ a < n * (a \div n) + n
         /\ a = n * (a \div n) + (a % n)
OBVIOUS

LEMMA Multiples ==
  ASSUME NEW p \in Int, NEW q \in Int, NEW n \in Nat \ {0}, p <= q
  PROVE  n * p \in Int /\ n * q \in Int /\ n * p <= n * q
OBVIOUS

LEMMA DivMonotone ==
  ASSUME NEW a \in Int, NEW b \in Int, NEW n \in Nat \ {0}, a <= b
  PROVE  a \div n <= b \div n
OBVIOUS

LEMMA DivSign ==
  ASSUME NEW a \in Int, NEW n \in Nat \ {0}
  PROVE  a < 0 <=> a \div n < 0
OBVIOUS

\* A number that n divides begins a new multiple of n.
LEMMA DivStep ==
  ASSUME NEW a \in Int, NEW b \in Int, NEW n \in Nat \ {0}, b < a
  PROVE  (a % n = 0 \/ a \div n > b \div n) <=> a \div n > b \div n
<1> SUFFICES ASSUME a % n = 0, b \div n >= a \div n PROVE FALSE
  BY DivFacts
<1>1. /\ a \div n \in Int /\ b \div n \in Int
      /\ a = n * (a \div n) + (a % n) /\ n * (b \div n) <= b
  BY DivFacts
<1> DEFINE p == a \div n
           q == b \div n
<1>2. n * p <= n * q /\ n * p \in Int /\ n * q \in Int
  <2>1. p \in Int /\ q \in Int /\ p <= q
    BY <1>1
  <2> HIDE DEF p, q
  <2> QED BY <2>1, Multiples
<1>3. a = n * p /\ n * q <= b
  BY <1>1, <1>2
<1> HIDE DEF p, q
<1> QED BY <1>2, <1>3

\* Years and months in the order of time; an invalid time is before them.
LEMMA PeriodFacts ==
  ASSUME NEW years \in BOOLEAN
  PROVE  /\ \A a \in Int : Period(a, years) \in Int
         /\ \A a, b \in Int : a <= b => Period(a, years) <= Period(b, years)
         /\ \A a \in Nat : Period(a, years) # Period(Invalid, years)
<1> DEFINE w == IF years THEN DaysPerMonth * MonthsPerYear ELSE DaysPerMonth
<1>1. w \in Nat \ {0}
  <2>1. ASSUME NEW a \in Nat \ {0}, NEW b \in Nat \ {0} PROVE a * b \in Nat \ {0}
    OBVIOUS
  <2> QED BY <2>1
<1>2. \A a : Period(a, years) = a \div w
  BY DEF Period
<1> HIDE DEF w
<1>3. \A a \in Int : Period(a, years) \in Int
  BY <1>1, <1>2, DivFacts
<1>4. \A a, b \in Int : a <= b => Period(a, years) <= Period(b, years)
  BY <1>1, <1>2, DivMonotone
<1>5. \A a \in Nat : Period(a, years) # Period(Invalid, years)
  <2> TAKE a \in Nat
  <2>1. ~ (a \div w < 0) /\ (-1) \div w < 0
    BY <1>1, DivSign
  <2> QED BY <1>2, <2>1 DEF Invalid
<1> QED BY <1>3, <1>4, <1>5

\* The two time maps.
LEMMA TimeLists ==
  ASSUME TypeOK
  PROVE  /\ BaseTimes \in [Steps -> Nat]
         /\ \A s, t \in Steps : s < t => BaseTimes[s] < BaseTimes[t]
         /\ RestartedTimes = [s \in Steps |-> IF s = 0 \/ s >= file.step THEN BaseTimes[s]
                                              ELSE Invalid]
<1>1. /\ dates \in [1 .. NSteps - 1 -> [kind : {"DATES", "TSTEP"}, time : Nat \ {0}]]
      /\ \A i, j \in 1 .. NSteps - 1 : i < j => dates[i].time < dates[j].time
  BY CalendarsAssumption DEF TypeOK
<1>2. Len(Times) = NSteps - 1
  <2>1. Times \in [1 .. NSteps - 1 -> Nat]
    BY <1>1 DEF Times
  <2>2. NSteps - 1 \in Nat
    OBVIOUS
  <2> QED BY <2>1, <2>2
<1>3. file.step \in 1 .. NSteps - 1
  BY DEF TypeOK
<1>4. \A s \in Steps : s # 0 => s \in 1 .. NSteps - 1 /\ Times[s] = dates[s].time
  BY DEF Steps, Times
<1>5. BaseTimes = [s \in Steps |-> IF s = 0 THEN 0 ELSE dates[s].time]
  <2>1. BaseTimes = [s \in Steps |-> IF s = 0 THEN 0 ELSE IF s < 0 THEN Invalid ELSE Times[s]]
    BY <1>2 DEF BaseTimes, TimeList, Start, Steps
  <2>2. \A s \in Steps : ~ (s < 0)
    BY DEF Steps
  <2> QED BY <1>4, <2>1, <2>2
<1>6. BaseTimes \in [Steps -> Nat]
  BY <1>1, <1>4, <1>5
<1>7. ASSUME NEW s \in Steps, NEW t \in Steps, s < t PROVE BaseTimes[s] < BaseTimes[t]
  <2>1. t \in 1 .. NSteps - 1
    BY <1>7 DEF Steps
  <2>2. s # 0 => s \in 1 .. NSteps - 1
    BY <1>4
  <2> QED BY <1>1, <1>5, <1>7, <2>1, <2>2
<1>8. RestartedTimes = [s \in Steps |-> IF s = 0 \/ s >= file.step THEN BaseTimes[s] ELSE Invalid]
  <2>1. RestartedTimes = [s \in Steps |-> IF s = 0 THEN 0 ELSE IF s < file.step THEN Invalid
                                          ELSE Times[s]]
    BY <1>2 DEF RestartedTimes, TimeList, Start, Steps
  <2>2. \A s \in Steps : s >= file.step <=> ~ (s < file.step)
    BY <1>3 DEF Steps
  <2> QED BY <1>4, <1>5, <2>1, <2>2
<1> QED BY <1>6, <1>7, <1>8
-----------------------------------------------------------------------------
(* The first steps of years and months.                                    *)

\* A time map whose times rise and, from k on, are all there.
Rising(list, k) ==
  /\ list \in [Steps -> Nat \cup {Invalid}]
  /\ list[0] \in Nat
  /\ k \in Steps
  /\ \A s \in Steps : s >= k => list[s] \in Nat

LEMMA FirstMember ==
  ASSUME NEW list, NEW k, Rising(list, k), NEW years \in BOOLEAN
  PROVE  /\ FirstSteps(list, years) \subseteq Steps
         /\ 0 \in FirstSteps(list, years)
         /\ \A s \in Steps : s > k =>
              (s \in FirstSteps(list, years) <=> Period(list[s], years) # Period(list[s - 1], years))
<1>1. DOMAIN list = Steps /\ 0 \in Steps /\ k \in Steps
  BY ZeroStep DEF Rising
<1>2. \A s \in Steps : s > k => s # 0 /\ list[s] # Invalid
  <2> TAKE s \in Steps
  <2> HAVE s > k
  <2>1. s # 0 /\ s >= k
    BY <1>1 DEF Steps
  <2>2. list[s] \in Nat
    BY <2>1 DEF Rising
  <2> QED BY <2>1, <2>2 DEF Invalid
<1>3. FirstSteps(list, years) \subseteq Steps /\ 0 \in FirstSteps(list, years)
  BY <1>1 DEF FirstSteps
<1> QED BY <1>1, <1>2, <1>3 DEF FirstSteps

\* The period of a step is that of the last first step up to it.
LEMMA Before ==
  ASSUME NEW list, NEW k, Rising(list, k), NEW years \in BOOLEAN,
         k \in FirstSteps(list, years), NEW t \in Steps, t > k
  PROVE  LET before == Max({s \in FirstSteps(list, years) : s < t})
         IN before \in Steps /\ Period(list[before], years) = Period(list[t - 1], years)
<1> DEFINE F == FirstSteps(list, years)
           S == {s \in F : s < t}
           m == Max(S)
           f == [s \in Steps |-> Period(list[s], years)]
<1>1. F \subseteq Steps /\ k \in F /\ k \in Steps
  BY FirstMember DEF Rising
<1>2. S \subseteq Nat /\ k \in S /\ t \in Nat /\ \A x \in S : x <= t
  BY <1>1 DEF Steps
<1>3. m \in S /\ \A x \in S : x <= m
  <2> HIDE DEF S
  <2> QED BY <1>2, Greatest
<1>4. m \in Steps /\ k <= m /\ m <= t - 1 /\ m \in Nat /\ t - 1 \in Nat /\ t - 1 \in Steps
  BY <1>1, <1>2, <1>3 DEF Steps
<1>5. \A s \in m + 1 .. t - 1 : f[s] = f[s - 1]
  <2> TAKE s \in m + 1 .. t - 1
  <2> HIDE DEF F, m
  <2>1. s \in Steps /\ s - 1 \in Steps /\ s > k /\ s < t /\ ~ (s <= m)
    BY <1>1, <1>4 DEF Steps
  <2>2. s \notin F
    BY <1>3, <2>1
  <2>3. Period(list[s], years) = Period(list[s - 1], years)
    BY <2>1, <2>2, FirstMember DEF F
  <2> QED BY <2>1, <2>3
<1>6. f[t - 1] = f[m]
  <2> HIDE DEF f, m
  <2> QED BY <1>4, <1>5, Unchanged
<1> QED BY <1>4, <1>6

\* The first steps of the two time maps.
LEMMA BothRising ==
  ASSUME TypeOK
  PROVE  Rising(BaseTimes, 0) /\ Rising(RestartedTimes, file.step)
<1>1. 0 \in Steps /\ file.step \in Steps
  BY ZeroStep, FileStep
<1>2. BaseTimes \in [Steps -> Nat]
  BY TimeLists
<1>3. Rising(BaseTimes, 0)
  BY <1>1, <1>2 DEF Rising
<1>4. RestartedTimes = [s \in Steps |-> IF s = 0 \/ s >= file.step THEN BaseTimes[s] ELSE Invalid]
  BY TimeLists
<1>5. Rising(RestartedTimes, file.step)
  BY <1>1, <1>2, <1>4 DEF Rising
<1> QED BY <1>3, <1>5

\* What timemap.hh says of the steps of a frequency is what the code computes.
LEMMA SequenceOfPeriods ==
  ASSUME TypeOK, NEW t \in Steps \ {0}, NEW years \in BOOLEAN, NEW start \in Nat,
         NEW n \in Nat \ {0}
  PROVE  IsFirstInSequence(BaseTimes, t, years, start, n) <=> NewPeriod(t, years, start, n)
<1> DEFINE F == FirstSteps(BaseTimes, years)
           P(s) == Period(BaseTimes[s], years)
           O == {s \in F : s >= start - 1}
           B == {s \in F : s < t}
<1>1. t \in Steps /\ t - 1 \in Steps /\ t > 0 /\ t \in Nat
  BY DEF Steps
<1>2. /\ BaseTimes \in [Steps -> Nat]
      /\ \A s, u \in Steps : s < u => BaseTimes[s] < BaseTimes[u]
  BY TimeLists
<1>3. Rising(BaseTimes, 0)
  BY BothRising
<1>4. F \subseteq Steps /\ 0 \in F
  BY <1>3, FirstMember
<1>5. \A s \in Steps : s \in F <=> (s = 0 \/ P(s) # P(s - 1))
  <2>1. \A s \in Steps : s > 0 => (s \in F <=> P(s) # P(s - 1))
    BY <1>3, FirstMember
  <2>2. \A s \in Steps : s = 0 \/ s > 0
    BY DEF Steps
  <2> QED BY <1>4, <2>1, <2>2
<1>6. t \in F <=> P(t) # P(t - 1)
  BY <1>1, <1>5
<1>7. CASE n = 1
  <2>1. IsFirstInSequence(BaseTimes, t, years, start, n) <=> t \in F
    BY <1>7, <1>1 DEF IsFirstInSequence
  <2>2. NewPeriod(t, years, start, n) <=> P(t) # P(t - 1)
    BY <1>7 DEF NewPeriod
  <2> QED BY <1>6, <2>1, <2>2
<1>8. CASE n # 1
  <2> DEFINE m == Min(O)
             since(s) == P(s) - P(m)
  <2>1. IsFirstInSequence(BaseTimes, t, years, start, n) <=>
          /\ t \in F
          /\ O # {}
          /\ t > m
          /\ since(t) % n = 0 \/ since(t) \div n > since(Max(B)) \div n
    <3>1. ~ (n <= 1)
      BY <1>8
    <3> QED BY <1>1, <3>1 DEF IsFirstInSequence, InFreqSequence
  <2>2. NewPeriod(t, years, start, n) <=>
          /\ O # {}
          /\ t > m
          /\ since(t) \div n > since(t - 1) \div n
    <3>1. O = {s \in Steps : s >= start - 1 /\ (s = 0 \/ P(s) # P(s - 1))}
      BY <1>4, <1>5
    <3>2. NewPeriod(t, years, start, n) <=>
            LET o == {s \in Steps : s >= start - 1 /\ (s = 0 \/ P(s) # P(s - 1))}
            IN /\ o # {}
               /\ t > Min(o)
               /\ (P(t) - P(Min(o))) \div n > (P(t - 1) - P(Min(o))) \div n
      BY <1>8 DEF NewPeriod
    <3> HIDE DEF O, P
    <3> QED BY <3>1, <3>2
  <2> SUFFICES ASSUME O # {}, t > m
               PROVE  (t \in F /\ (since(t) % n = 0 \/ since(t) \div n > since(Max(B)) \div n))
                        <=> since(t) \div n > since(t - 1) \div n
    BY <2>1, <2>2
  <2>3. m \in O
    <3>1. O \subseteq Nat
      BY <1>4 DEF Steps
    <3> HIDE DEF O
    <3> QED BY <3>1, Least
  <2>4. P(t) \in Int /\ P(t - 1) \in Int /\ P(m) \in Int /\ P(t - 1) <= P(t)
    <3>1. m \in Steps
      BY <1>4, <2>3
    <3>2. BaseTimes[t - 1] < BaseTimes[t]
      BY <1>1, <1>2
    <3>3. BaseTimes[t] \in Nat /\ BaseTimes[t - 1] \in Nat /\ BaseTimes[m] \in Nat
      BY <1>1, <1>2, <3>1
    <3>4. BaseTimes[t - 1] <= BaseTimes[t]
      BY <3>2, <3>3
    <3> HIDE DEF m
    <3> QED BY <3>3, <3>4, PeriodFacts
  <2>5. P(Max(B)) = P(t - 1)
    BY <1>1, <1>3, <1>4, Before, ZeroStep
  <2> HIDE DEF m, P, B, F
  <2>6. CASE t \in F
    <3>1. P(t - 1) < P(t)
      BY <1>6, <2>4, <2>6
    <3>2. since(t) \in Int /\ since(t - 1) \in Int /\ since(t - 1) < since(t)
      BY <2>4, <3>1
    <3>3. since(Max(B)) = since(t - 1)
      BY <2>5
    <3> HIDE DEF since
    <3>4. (since(t) % n = 0 \/ since(t) \div n > since(t - 1) \div n)
            <=> since(t) \div n > since(t - 1) \div n
      BY <3>2, DivStep
    <3> QED BY <2>6, <3>3, <3>4
  <2>7. CASE t \notin F
    <3>1. since(t) = since(t - 1) /\ since(t) \in Int
      BY <1>6, <2>4, <2>7
    <3> HIDE DEF since
    <3>2. ~ (since(t) \div n > since(t - 1) \div n)
      <4>1. since(t) \div n \in Int
        BY <3>1, DivFacts
      <4> QED BY <3>1, <4>1
    <3> QED BY <2>7, <3>2
  <2> QED BY <2>6, <2>7
<1> QED BY <1>7, <1>8

\* After the restart step the two time maps have the same first steps of a
\* frequency that counts from the first report step or from a later one.
LEMMA SequenceSurvives ==
  ASSUME TypeOK, NEW t \in Steps, t > file.step, NEW years \in BOOLEAN, NEW start \in Nat,
         NEW n \in Nat, n > 1 => start = 1 \/ start > file.step + 1
  PROVE  IsFirstInSequence(RestartedTimes, t, years, start, n)
           <=> IsFirstInSequence(BaseTimes, t, years, start, n)
<1> DEFINE k == file.step
           F(list) == FirstSteps(list, years)
           O(list) == {s \in F(list) : s >= start - 1}
           before(list) == Max({s \in F(list) : s < t})
<1>1. k \in Steps \ {0} /\ t \in Steps /\ t # 0 /\ k \in Nat /\ t \in Nat /\ k >= 1
  BY FileStep DEF Steps
<1>2. BaseTimes \in [Steps -> Nat]
  BY TimeLists
<1>3. RestartedTimes = [s \in Steps |-> IF s = 0 \/ s >= k THEN BaseTimes[s] ELSE Invalid]
  BY TimeLists
<1>4. CASE k = 1
  <2>1. \A s \in Steps : s = 0 \/ s >= k
    BY <1>4 DEF Steps
  <2>2. RestartedTimes = BaseTimes
    BY <1>2, <1>3, <2>1
  <2> QED BY <2>2
<1>5. CASE k > 1
  <2>1. Rising(BaseTimes, 0) /\ Rising(RestartedTimes, k)
    BY BothRising
  <2>2. /\ F(BaseTimes) \subseteq Steps /\ 0 \in F(BaseTimes)
        /\ F(RestartedTimes) \subseteq Steps /\ 0 \in F(RestartedTimes)
    BY <2>1, FirstMember
  <2>3. \A s \in Steps : s > k => (s \in F(RestartedTimes) <=> s \in F(BaseTimes))
    <3> TAKE s \in Steps
    <3> HAVE s > k
    <3>1. s > 0 /\ s - 1 \in Steps /\ s >= k /\ s - 1 >= k
      BY <1>1 DEF Steps
    <3>2. RestartedTimes[s] = BaseTimes[s] /\ RestartedTimes[s - 1] = BaseTimes[s - 1]
      BY <1>3, <3>1
    <3>3. s \in F(RestartedTimes) <=> Period(RestartedTimes[s], years) # Period(RestartedTimes[s - 1], years)
      BY <2>1, FirstMember
    <3>4. s \in F(BaseTimes) <=> Period(BaseTimes[s], years) # Period(BaseTimes[s - 1], years)
      BY <2>1, <3>1, FirstMember
    <3> QED BY <3>2, <3>3, <3>4
  <2>4. k \in F(RestartedTimes)
    <3>1. k - 1 \in Steps /\ k - 1 # 0 /\ ~ (k - 1 >= k)
      BY <1>1, <1>5 DEF Steps
    <3>2. RestartedTimes[k] = BaseTimes[k] /\ RestartedTimes[k - 1] = Invalid
      BY <1>1, <1>3, <3>1
    <3>3. BaseTimes[k] \in Nat /\ BaseTimes[k] # Invalid
      BY <1>1, <1>2 DEF Invalid
    <3>4. Period(RestartedTimes[k], years) # Period(RestartedTimes[k - 1], years)
      BY <3>2, <3>3, PeriodFacts
    <3>5. k \in DOMAIN RestartedTimes \ {0}
      BY <1>1, <1>3
    <3> QED BY <3>2, <3>3, <3>4, <3>5 DEF FirstSteps
  <2>5. t \in F(RestartedTimes) <=> t \in F(BaseTimes)
    BY <2>3
  <2>6. CASE n <= 1
    BY <2>5, <2>6, <1>1 DEF IsFirstInSequence
  <2>7. CASE n > 1
    <3>1. /\ before(RestartedTimes) \in Steps
          /\ Period(RestartedTimes[before(RestartedTimes)], years)
               = Period(RestartedTimes[t - 1], years)
      BY <1>1, <2>1, <2>4, Before
    <3>2. /\ before(BaseTimes) \in Steps
          /\ Period(BaseTimes[before(BaseTimes)], years) = Period(BaseTimes[t - 1], years)
      <4>1. t > 0
        BY <1>1
      <4> QED BY <2>1, <2>2, <4>1, Before
    <3>3. RestartedTimes[t] = BaseTimes[t] /\ RestartedTimes[t - 1] = BaseTimes[t - 1]
      <4>1. t - 1 \in Steps /\ t - 1 >= k /\ t >= k
        BY <1>1 DEF Steps
      <4> QED BY <1>1, <1>3, <4>1
    <3>4. /\ O(RestartedTimes) = {} <=> O(BaseTimes) = {}
          /\ O(BaseTimes) # {} => /\ Min(O(RestartedTimes)) = Min(O(BaseTimes))
                                  /\ RestartedTimes[Min(O(BaseTimes))] = BaseTimes[Min(O(BaseTimes))]
      <4>1. CASE start = 1
        <5>1. /\ O(RestartedTimes) \subseteq Nat /\ 0 \in O(RestartedTimes)
              /\ O(BaseTimes) \subseteq Nat /\ 0 \in O(BaseTimes)
          BY <2>2, <4>1 DEF Steps
        <5>2. \A U : U \subseteq Nat /\ 0 \in U => Min(U) = 0
          <6> TAKE U
          <6> HAVE U \subseteq Nat /\ 0 \in U
          <6>1. Min(U) \in U /\ Min(U) <= 0
            BY Least
          <6>2. Min(U) \in Nat
            BY <6>1
          <6> HIDE DEF O
          <6> QED BY <6>1, <6>2
        <5>3. Min(O(RestartedTimes)) = 0 /\ Min(O(BaseTimes)) = 0
          <6> HIDE DEF O
          <6> QED BY <5>1, <5>2
        <5>4. RestartedTimes[0] = BaseTimes[0]
          BY <1>3, ZeroStep
        <5> HIDE DEF O
        <5> QED BY <5>1, <5>3, <5>4
      <4>2. CASE start > k + 1
        <5>1. \A s \in Steps : s >= start - 1 => s > k
          BY <1>1, <4>2 DEF Steps
        <5>2. O(RestartedTimes) = O(BaseTimes)
          BY <2>2, <2>3, <5>1
        <5>3. O(BaseTimes) # {} => Min(O(BaseTimes)) \in O(BaseTimes)
          <6>1. O(BaseTimes) \subseteq Nat
            BY <2>2 DEF Steps
          <6> HIDE DEF O
          <6> QED BY <6>1, Least
        <5>4. \A s \in O(BaseTimes) : RestartedTimes[s] = BaseTimes[s]
          <6> TAKE s \in O(BaseTimes)
          <6>1. s \in Steps /\ s > k
            BY <2>2, <5>1
          <6>2. s >= k
            BY <6>1, <1>1 DEF Steps
          <6> QED BY <1>3, <6>1, <6>2
        <5> HIDE DEF O
        <5> QED BY <5>2, <5>3, <5>4
      <4> QED BY <2>7, <4>1, <4>2
    <3>5. \A list : InFreqSequence(list, t, start, n, years) <=>
            LET first == Min(O(list))
                since(s) == Period(list[s], years) - Period(list[first], years)
            IN /\ O(list) # {}
               /\ t > first
               /\ \/ since(t) % n = 0
                  \/ since(t) \div n > since(before(list)) \div n
      BY DEF InFreqSequence
    <3> HIDE DEF O, before
    <3>6. InFreqSequence(RestartedTimes, t, start, n, years)
            <=> InFreqSequence(BaseTimes, t, start, n, years)
      BY <3>1, <3>2, <3>3, <3>4, <3>5
    <3> QED BY <2>5, <3>6 DEF IsFirstInSequence
  <2> QED BY <2>6, <2>7
<1> QED BY <1>1, <1>4, <1>5

\* Outside the counting by FREQ from a step of the history a restarted run
\* writes what the first run does.
LEMMA WritesSurvive ==
  ASSUME TypeOK PROVE PlanSurvivesRestart
<1> SUFFICES ASSUME NEW t \in file.step + 1 .. NSteps - 1,
                    /\ config.schedule[t].basic \in {4, 5}
                    /\ config.schedule[t].frequency > 1
                    => \/ config.schedule[t].timestep = 1
                       \/ config.schedule[t].timestep > file.step + 1
             PROVE  Writes(RestartedTimes, t) <=> Writes(BaseTimes, t)
  BY DEF PlanSurvivesRestart
<1> DEFINE rs == config.schedule[t]
<1>1. t \in Steps /\ t > file.step /\ t # 0
  BY FileStep DEF Steps
<1>2. rs.timestep \in Nat /\ rs.frequency \in Nat
  BY <1>1 DEF TypeOK, RestartSchedule
<1>3. \A years \in BOOLEAN : rs.basic \in {4, 5} =>
        (IsFirstInSequence(RestartedTimes, t, years, rs.timestep, rs.frequency)
           <=> IsFirstInSequence(BaseTimes, t, years, rs.timestep, rs.frequency))
  BY <1>1, <1>2, SequenceSurvives
<1> QED BY <1>1, <1>3 DEF Writes, WriteRestartFile

\* The same report steps are written after a restart (timemap.cc,
\* RestartConfig::getWriteRestartFile), but for a counting by FREQ that begins
\* within the history.
THEOREM PlanSurvives == Spec => []PlanSurvivesRestart
<1>1. Inv => PlanSurvivesRestart
  BY WritesSurvive DEF Inv
<1> QED BY InitInv, NextInv, <1>1, PTL DEF Spec
-----------------------------------------------------------------------------
(* The plan of restart files: the setting of each step and the keyword     *)
(* that decides for it.                                                    *)

\* FREQ=0 is FREQ=1.
Normal(n) == IF n = 0 THEN 1 ELSE n

\* The setting of a step is that of the keyword that decides for it, with what
\* this keyword has from those before it.
PlannedAt(t) ==
  LET rs == config.schedule[t]
      i == Max(Deciding(t))
  IN IF Deciding(t) = {} THEN rs \in {Unset, RptrstSchedule(0, 0, 1)}
     ELSE IF i \in Accepted THEN rs = RptschedSchedule(asked[i].restart)
     ELSE \E n \in {0, FrequencyOf(i)} :
            /\ Normal(n) = FrequencyOf(i)
            /\ rs = RptrstSchedule(asked[i].step, BasicOf(i), n)

Planned == \A t \in Steps \ {0} : PlannedAt(t)

\* While the section is read no keyword is ahead of the reader, and the steps
\* to come have the setting of the last one.
AskedSoFar ==
  phase = "read" =>
    /\ \A i \in DOMAIN asked : asked[i].step \in 1 .. NSteps - 1 /\ asked[i].step <= OutputStep
    /\ \A t \in Steps : t >= OutputStep => config.schedule[t] = config.schedule[NSteps - 1]

PlanInv == Inv /\ Planned /\ AskedSoFar

\* What a keyword without BASIC, or without FREQ, takes over from those before
\* it, and whether RPTSCHED is ignored after them.
BasicNow ==
  LET before == Named \cup Accepted
  IN IF before = {} \/ Max(before) \in Accepted THEN 0 ELSE asked[Max(before)].basic

Given == {j \in OnWhen \cup Accepted : j \in Accepted \/ asked[j].frequency # NotGiven}

FrequencyNow ==
  IF Given = {} \/ Max(Given) \in Accepted \/ asked[Max(Given)].frequency = 0
  THEN 1 ELSE asked[Max(Given)].frequency

OverriddenNow == Named # {} /\ asked[Max(Named)].basic >= 3

LEMMA MaxWith ==
  ASSUME NEW U, U \subseteq Nat, NEW m \in Nat, \A x \in U : x < m
  PROVE  Max(U \cup {m}) = m
<1> DEFINE W == U \cup {m}
<1>1. W \subseteq Nat /\ m \in W /\ \A x \in W : x <= m
  <2>1. \A x \in U : x \in Nat /\ x <= m
    OBVIOUS
  <2> QED BY <2>1
<1>2. Max(W) \in W /\ \A x \in W : x <= Max(W)
  <2> HIDE DEF W
  <2> QED BY <1>1, Greatest
<1>3. Max(W) \in Nat /\ m <= Max(W) /\ Max(W) <= m
  BY <1>1, <1>2
<1> HIDE DEF W
<1>4. Max(W) = m
  BY <1>3
<1> QED BY <1>4 DEF W

\* The keywords, by kind.
LEMMA AskedTypes ==
  ASSUME TypeOK
  PROVE  /\ asked \in Seq(Asked) /\ Len(asked) \in Nat /\ DOMAIN asked = 1 .. Len(asked)
         /\ \A i \in DOMAIN asked : asked[i] \in Asked
         /\ Named \subseteq OnWhen /\ OnWhen \subseteq DOMAIN asked
         /\ Accepted \subseteq DOMAIN asked /\ Given \subseteq OnWhen \cup Accepted
         /\ OnWhen \cap Accepted = {}
         /\ \A i \in Named : asked[i].basic \in Nat
         /\ \A i \in Accepted : asked[i].restart \in Nat
<1>1. asked \in Seq(Asked) /\ Len(asked) \in Nat /\ DOMAIN asked = 1 .. Len(asked)
  BY DEF TypeOK
<1>2. \A i \in DOMAIN asked : asked[i] \in Asked
  BY <1>1
<1>3. /\ Named \subseteq OnWhen /\ OnWhen \subseteq DOMAIN asked
      /\ Accepted \subseteq DOMAIN asked /\ Given \subseteq OnWhen \cup Accepted
      /\ OnWhen \cap Accepted = {}
  BY DEF Named, OnWhen, Accepted, Given
<1>4. \A i \in Named : asked[i].basic \in Nat
  <2> TAKE i \in Named
  <2>1. asked[i] \in Asked /\ asked[i].basic # NotGiven
    BY <1>2 DEF Named
  <2>2. asked[i].basic \in Basics \cup {NotGiven, 3, 0}
    BY <2>1 DEF Asked
  <2>3. \A b \in Basics : b \in Nat
    OBVIOUS
  <2> DEFINE b == asked[i].basic
  <2>4. b \in Basics \/ b = 3 \/ b = 0
    BY <2>1, <2>2
  <2> HIDE DEF b
  <2>5. b = 3 \/ b = 0 => b \in Nat
    OBVIOUS
  <2>6. b \in Nat
    BY <2>3, <2>4, <2>5, Zenon
  <2> QED BY <2>6 DEF b
<1>5. \A i \in Accepted : asked[i].restart \in Nat
  <2> TAKE i \in Accepted
  <2>1. asked[i] \in Asked /\ asked[i].restart # NotGiven
    BY <1>2 DEF Accepted
  <2> QED BY <2>1 DEF Asked
<1> QED BY <1>1, <1>2, <1>3, <1>4, <1>5

\* The last of some keywords.
LEMMA LastOf ==
  ASSUME TypeOK, NEW U, U \subseteq DOMAIN asked, U # {}
  PROVE  Max(U) \in U /\ Max(U) \in Nat /\ \A x \in U : x <= Max(U)
<1>1. U \subseteq Nat /\ Len(asked) \in Nat /\ \A x \in U : x <= Len(asked)
  BY AskedTypes
<1>2. Max(U) \in U /\ \A x \in U : x <= Max(U)
  BY <1>1, Greatest
<1> QED BY <1>1, <1>2

\* The last keyword that counts says what the next one takes over.
LEMMA NowIsLast ==
  ASSUME TypeOK
  PROVE  LET D == OnWhen \cup Accepted
             i == Max(D)
         IN /\ D = {} \/ i \in Accepted => BasicNow = 0 /\ FrequencyNow = 1 /\ ~OverriddenNow
            /\ D # {} /\ i \notin Accepted =>
                 /\ i \in OnWhen
                 /\ BasicNow = BasicOf(i)
                 /\ FrequencyNow = FrequencyOf(i)
                 /\ OverriddenNow <=> BasicOf(i) > 2
<1> DEFINE D == OnWhen \cup Accepted
           i == Max(D)
           NA == Named \cup Accepted
<1>1. /\ D \subseteq DOMAIN asked /\ Named \subseteq OnWhen /\ Given \subseteq D /\ NA \subseteq D
      /\ OnWhen \cap Accepted = {}
  BY AskedTypes
<1>2. CASE D = {}
  <2>1. Named \cup Accepted = {} /\ Given = {} /\ Named = {}
    BY <1>1, <1>2
  <2> QED BY <1>2, <2>1 DEF BasicNow, FrequencyNow, OverriddenNow
<1>3. D # {} => i \in D /\ i \in Nat /\ \A x \in D : x <= i
  <2> HIDE DEF D
  <2> QED BY <1>1, LastOf
<1>4. CASE D # {} /\ i \in Accepted
  <2>1. \A U : U \subseteq D /\ i \in U => Max(U) = i
    <3> TAKE U
    <3> HAVE U \subseteq D /\ i \in U
    <3> HIDE DEF D, i
    <3>1. U \subseteq DOMAIN asked /\ U # {}
      BY <1>1
    <3>2. Max(U) \in U /\ Max(U) \in Nat /\ i <= Max(U)
      BY <3>1, LastOf
    <3>3. Max(U) <= i /\ i \in Nat
      BY <1>3, <1>4, <3>2
    <3> QED BY <3>2, <3>3
  <2> HIDE DEF D, i
  <2>2. Max(NA) = i /\ Max(Given) = i
    <3>1. i \in NA /\ i \in Given
      BY <1>4 DEF Given, D
    <3> QED BY <1>1, <2>1, <3>1
  <2>3. BasicNow = 0 /\ FrequencyNow = 1
    BY <1>4, <2>2 DEF BasicNow, FrequencyNow
  <2>4. ~OverriddenNow
    <3>1. ~Overridden(i)
      BY <1>4 DEF Accepted
    <3>2. {j \in Named : j < i} = Named
      <4> SUFFICES ASSUME NEW j \in Named PROVE j < i
        OBVIOUS
      <4>1. j \in D /\ j # i /\ j \in Nat
        BY <1>1, <1>4, AskedTypes
      <4>2. j <= i /\ i \in Nat
        BY <1>3, <4>1
      <4> QED BY <4>1, <4>2
    <3> QED BY <3>1, <3>2 DEF Overridden, OverriddenNow
  <2> QED BY <1>4, <2>3, <2>4 DEF D, i
<1>5. CASE D # {} /\ i \notin Accepted
  <2>1. i \in OnWhen
    BY <1>3, <1>5
  <2>2. {j \in NA : j <= i} = NA
    BY <1>1, <1>3, <1>5
  <2>3. BasicNow = BasicOf(i)
    <3> HIDE DEF i
    <3> QED BY <2>2 DEF BasicNow, BasicOf
  <2>4. Given = {j \in D : j <= i /\ (j \in Accepted \/ asked[j].frequency # NotGiven)}
    BY <1>3, <1>5 DEF Given
  <2>5. FrequencyNow = FrequencyOf(i)
    <3> HIDE DEF i
    <3> QED BY <2>4 DEF FrequencyNow, FrequencyOf
  <2>6. OverriddenNow <=> BasicNow > 2
    <3> HIDE DEF D, i
    <3>1. CASE NA = {}
      <4>1. Named = {} /\ BasicNow = 0
        BY <3>1 DEF BasicNow
      <4> QED BY <4>1 DEF OverriddenNow
    <3>2. CASE NA # {}
      <4> DEFINE a == Max(NA)
      <4>1. a \in NA /\ a \in Nat /\ \A x \in NA : x <= a
        <5>1. NA \subseteq DOMAIN asked
          BY <1>1
        <5> HIDE DEF NA
        <5> QED BY <3>2, <5>1, LastOf
      <4>2. CASE a \in Accepted
        <5>1. BasicNow = 0
          BY <4>2 DEF BasicNow
        <5>2. ~Overridden(a)
          BY <4>2 DEF Accepted
        <5>3. {j \in Named : j < a} = Named
          <6> SUFFICES ASSUME NEW j \in Named PROVE j < a
            OBVIOUS
          <6>1. j # a /\ j \in Nat
            BY <1>1, <4>2, AskedTypes
          <6>2. j <= a
            BY <4>1
          <6> QED BY <4>1, <6>1, <6>2
        <5>4. ~OverriddenNow
          BY <5>2, <5>3 DEF Overridden, OverriddenNow
        <5> QED BY <5>1, <5>4
      <4>3. CASE a \notin Accepted
        <5>1. a \in Named /\ BasicNow = asked[a].basic
          BY <3>2, <4>1, <4>3 DEF BasicNow
        <5>2. Max(Named) = a
          <6>1. Max(Named) \in Named /\ Max(Named) \in Nat /\ a <= Max(Named)
            BY <1>1, <5>1, LastOf
          <6>2. Max(Named) <= a
            BY <4>1, <6>1
          <6> HIDE DEF a
          <6> QED BY <4>1, <6>1, <6>2
        <5>3. asked[a].basic \in Nat
          BY <5>1, AskedTypes
        <5>4. OverriddenNow <=> asked[a].basic >= 3
          BY <5>1, <5>2 DEF OverriddenNow
        <5> HIDE DEF a
        <5> QED BY <5>1, <5>3, <5>4
      <4> QED BY <4>2, <4>3
    <3> QED BY <3>1, <3>2
  <2> QED BY <1>5, <2>1, <2>3, <2>5, <2>6
<1> QED BY <1>2, <1>4, <1>5

\* Before the reader ends a report step its last keyword decides for all steps
\* to come.
LEMMA LastPlanned ==
  ASSUME PlanInv, phase = "read"
  PROVE  /\ Deciding(NSteps - 1) = OnWhen \cup Accepted
         /\ config.schedule[NSteps - 1].basic = BasicNow
         /\ Normal(config.schedule[NSteps - 1].frequency) = FrequencyNow
         /\ config.schedule[NSteps - 1].basic > 2 <=> OverriddenNow
<1> DEFINE D == OnWhen \cup Accepted
           i == Max(D)
           rs == config.schedule[NSteps - 1]
<1>1. TypeOK /\ NSteps - 1 \in Steps \ {0}
  BY DEF PlanInv, Inv, Steps
<1>2. Deciding(NSteps - 1) = D
  <2>1. \A j \in D : j \in DOMAIN asked
    BY <1>1, AskedTypes
  <2>2. \A j \in D : asked[j].step \in 1 .. NSteps - 1
    BY <2>1 DEF PlanInv, AskedSoFar
  <2> QED BY <2>2 DEF Deciding
<1>3. PlannedAt(NSteps - 1)
  BY <1>1 DEF PlanInv, Planned
<1>4. CASE D = {}
  <2>1. rs \in {Unset, RptrstSchedule(0, 0, 1)}
    BY <1>2, <1>3, <1>4 DEF PlannedAt
  <2>2. rs.basic = 0 /\ Normal(rs.frequency) = 1
    BY <2>1 DEF Unset, RptrstSchedule, Normal
  <2>3. BasicNow = 0 /\ FrequencyNow = 1 /\ ~OverriddenNow
    BY <1>1, <1>4, NowIsLast
  <2> QED BY <1>2, <2>2, <2>3
<1>5. CASE D # {} /\ i \in Accepted
  <2>1. rs = RptschedSchedule(asked[i].restart)
    BY <1>2, <1>3, <1>5 DEF PlannedAt
  <2>2. rs.basic = 0 /\ Normal(rs.frequency) = 1
    BY <2>1 DEF RptschedSchedule, Normal
  <2>3. BasicNow = 0 /\ FrequencyNow = 1 /\ ~OverriddenNow
    BY <1>1, <1>5, NowIsLast
  <2> QED BY <1>2, <2>2, <2>3
<1>6. CASE D # {} /\ i \notin Accepted
  <2>1. PICK n \in {0, FrequencyOf(i)} : /\ Normal(n) = FrequencyOf(i)
                                        /\ rs = RptrstSchedule(asked[i].step, BasicOf(i), n)
    BY <1>2, <1>3, <1>6 DEF PlannedAt
  <2>2. rs.basic = BasicOf(i) /\ Normal(rs.frequency) = FrequencyOf(i)
    BY <2>1 DEF RptrstSchedule, Normal
  <2>3. /\ BasicNow = BasicOf(i) /\ FrequencyNow = FrequencyOf(i)
        /\ OverriddenNow <=> BasicOf(i) > 2
    BY <1>1, <1>6, NowIsLast
  <2> HIDE DEF D, i, rs
  <2>4. rs.basic > 2 <=> OverriddenNow
    BY <2>2, <2>3
  <2>5. rs.basic = BasicNow /\ Normal(rs.frequency) = FrequencyNow
    BY <2>2, <2>3
  <2> QED BY <1>2, <2>4, <2>5 DEF D, rs
<1> QED BY <1>4, <1>5, <1>6

\* A new keyword leaves those before it as they were.
LEMMA Appended ==
  ASSUME TypeOK, NEW e \in Asked, asked' = Append(asked, e), NEW k, k = Len(asked) + 1
  PROVE  LET accepted == e.name = "RPTSCHED" /\ e.restart # NotGiven /\ ~OverriddenNow
             when == e.name = "RPTRST" /\ (e.basic # NotGiven \/ e.frequency # NotGiven)
             named == e.name = "RPTRST" /\ e.basic # NotGiven
         IN /\ asked'[k] = e
            /\ \A i \in DOMAIN asked : asked'[i] = asked[i]
            /\ k \in Nat /\ \A i \in DOMAIN asked : i < k
            /\ Named' = IF named THEN Named \cup {k} ELSE Named
            /\ OnWhen' = IF when THEN OnWhen \cup {k} ELSE OnWhen
            /\ Accepted' = IF accepted THEN Accepted \cup {k} ELSE Accepted
<1> DEFINE accepted == e.name = "RPTSCHED" /\ e.restart # NotGiven /\ ~OverriddenNow
           when == e.name = "RPTRST" /\ (e.basic # NotGiven \/ e.frequency # NotGiven)
           named == e.name = "RPTRST" /\ e.basic # NotGiven
<1>1. asked \in Seq(Asked) /\ Len(asked) \in Nat /\ DOMAIN asked = 1 .. Len(asked)
  BY AskedTypes
<1>2. /\ DOMAIN asked' = DOMAIN asked \cup {k} /\ asked'[k] = e
      /\ \A i \in DOMAIN asked : asked'[i] = asked[i]
      /\ k \in Nat /\ \A i \in DOMAIN asked : i < k
  BY <1>1
<1>3. k \notin DOMAIN asked
  BY <1>1
<1>4. Named' = IF named THEN Named \cup {k} ELSE Named
  BY <1>2, <1>3 DEF Named
<1>5. OnWhen' = IF when THEN OnWhen \cup {k} ELSE OnWhen
  BY <1>2, <1>3 DEF OnWhen
<1>6. \A i \in DOMAIN asked : Overridden(i)' <=> Overridden(i)
  <2> TAKE i \in DOMAIN asked
  <2>1. {j \in Named' : j < i} = {j \in Named : j < i}
    <3>1. i \in Nat /\ ~ (k < i)
      BY <1>1, <1>2
    <3> QED BY <1>4, <3>1
  <2> DEFINE B == {j \in Named : j < i}
  <2>2. B # {} => Max(B) \in DOMAIN asked
    <3>1. B \subseteq DOMAIN asked
      BY AskedTypes
    <3> HIDE DEF B
    <3> QED BY <3>1, LastOf
  <2>3. Overridden(i)' <=> B # {} /\ asked'[Max(B)].basic >= 3
    BY <2>1 DEF Overridden
  <2> QED BY <1>2, <2>2, <2>3 DEF Overridden
<1>7. Overridden(k)' <=> OverriddenNow
  <2>1. {j \in Named' : j < k} = Named
    <3>1. ~ (k < k)
      BY <1>2
    <3>2. \A j \in Named : j < k
      BY <1>2, AskedTypes
    <3> QED BY <1>4, <3>1, <3>2
  <2>2. Named # {} => Max(Named) \in DOMAIN asked
    BY AskedTypes, LastOf
  <2>3. Overridden(k)' <=> Named # {} /\ asked'[Max(Named)].basic >= 3
    BY <2>1 DEF Overridden
  <2> QED BY <1>2, <2>2, <2>3 DEF OverriddenNow
<1>8. Accepted' = IF accepted THEN Accepted \cup {k} ELSE Accepted
  <2>1. Accepted' = {i \in DOMAIN asked' : asked'[i].name = "RPTSCHED"
                        /\ asked'[i].restart # NotGiven /\ ~Overridden(i)'}
    BY DEF Accepted
  <2> QED BY <1>2, <1>3, <1>6, <1>7, <2>1 DEF Accepted
<1> QED BY <1>2, <1>4, <1>5, <1>8

\* So they take over what they did.
LEMMA OldKeep ==
  ASSUME TypeOK, NEW e \in Asked, asked' = Append(asked, e), NEW i \in DOMAIN asked
  PROVE  /\ BasicOf(i)' = BasicOf(i)
         /\ FrequencyOf(i)' = FrequencyOf(i)
         /\ i \in Accepted' <=> i \in Accepted
<1> DEFINE NA == {j \in Named \cup Accepted : j <= i}
           G == {j \in OnWhen \cup Accepted :
                   j <= i /\ (j \in Accepted \/ asked[j].frequency # NotGiven)}
<1>1. PICK k : k = Len(asked) + 1
  OBVIOUS
<1>2. /\ \A j \in DOMAIN asked : asked'[j] = asked[j] /\ j < k
      /\ k \in Nat /\ i < k
      /\ Named' = Named \/ Named' = Named \cup {k}
      /\ OnWhen' = OnWhen \/ OnWhen' = OnWhen \cup {k}
      /\ Accepted' = Accepted \/ Accepted' = Accepted \cup {k}
  BY <1>1, Appended
<1>3. i \in Nat /\ ~ (k <= i) /\ \A j \in DOMAIN asked : j # k
  BY <1>2, AskedTypes
<1>4. Named \subseteq DOMAIN asked /\ OnWhen \subseteq DOMAIN asked /\ Accepted \subseteq DOMAIN asked
  BY AskedTypes
<1>5. \A j \in DOMAIN asked : (j \in Accepted' <=> j \in Accepted) /\ (j \in OnWhen' <=> j \in OnWhen)
                                /\ (j \in Named' <=> j \in Named)
  BY <1>2, <1>3
<1>6. {j \in Named' \cup Accepted' : j <= i} = NA
  BY <1>2, <1>3
<1>7. {j \in OnWhen' \cup Accepted' :
         j <= i /\ (j \in Accepted' \/ asked'[j].frequency # NotGiven)} = G
  <2>1. \A j : (j \in OnWhen' \cup Accepted' /\ j <= i) <=> (j \in OnWhen \cup Accepted /\ j <= i)
    BY <1>2, <1>3
  <2>2. \A j \in OnWhen \cup Accepted : (j \in Accepted' <=> j \in Accepted) /\ asked'[j] = asked[j]
    BY <1>2, <1>4, <1>5
  <2> QED BY <2>1, <2>2
<1>8. NA # {} => Max(NA) \in DOMAIN asked
  <2>1. NA \subseteq DOMAIN asked
    BY <1>4
  <2> HIDE DEF NA
  <2> QED BY <2>1, LastOf
<1>9. G # {} => Max(G) \in DOMAIN asked
  <2>1. G \subseteq DOMAIN asked
    BY <1>4
  <2> HIDE DEF G
  <2> QED BY <2>1, LastOf
<1>10. BasicOf(i)' = BasicOf(i)
  <2>1. BasicOf(i)' = IF NA = {} \/ Max(NA) \in Accepted' THEN 0 ELSE asked'[Max(NA)].basic
    BY <1>6 DEF BasicOf
  <2>2. BasicOf(i) = IF NA = {} \/ Max(NA) \in Accepted THEN 0 ELSE asked[Max(NA)].basic
    BY DEF BasicOf
  <2> HIDE DEF NA
  <2> QED BY <1>2, <1>5, <1>8, <2>1, <2>2
<1>11. FrequencyOf(i)' = FrequencyOf(i)
  <2>1. FrequencyOf(i)' = IF G = {} \/ Max(G) \in Accepted' \/ asked'[Max(G)].frequency = 0
                          THEN 1 ELSE asked'[Max(G)].frequency
    BY <1>7 DEF FrequencyOf
  <2>2. FrequencyOf(i) = IF G = {} \/ Max(G) \in Accepted \/ asked[Max(G)].frequency = 0
                         THEN 1 ELSE asked[Max(G)].frequency
    BY DEF FrequencyOf
  <2> HIDE DEF G
  <2> QED BY <1>2, <1>5, <1>9, <2>1, <2>2
<1> QED BY <1>5, <1>10, <1>11

\* And a new RPTRST takes over what it does not give.
LEMMA NewTakes ==
  ASSUME TypeOK, NEW e \in Asked, asked' = Append(asked, e), NEW k, k = Len(asked) + 1,
         e.name = "RPTRST", e.basic # NotGiven \/ e.frequency # NotGiven
  PROVE  /\ k \in OnWhen' /\ k \notin Accepted' /\ Accepted' = Accepted
         /\ OnWhen' = OnWhen \cup {k}
         /\ BasicOf(k)' = IF e.basic # NotGiven THEN e.basic ELSE BasicNow
         /\ FrequencyOf(k)' = IF e.frequency # NotGiven THEN Normal(e.frequency) ELSE FrequencyNow
<1>1. /\ asked'[k] = e
      /\ \A j \in DOMAIN asked : asked'[j] = asked[j] /\ j < k
      /\ k \in Nat
      /\ Named' = IF e.basic # NotGiven THEN Named \cup {k} ELSE Named
      /\ OnWhen' = OnWhen \cup {k}
      /\ Accepted' = Accepted
  BY Appended
<1>2. /\ Named \subseteq DOMAIN asked /\ OnWhen \subseteq DOMAIN asked
      /\ Accepted \subseteq DOMAIN asked /\ DOMAIN asked \subseteq Nat
      /\ Given \subseteq OnWhen \cup Accepted
  BY AskedTypes
<1>3. k \notin DOMAIN asked /\ k \notin Accepted
  BY <1>1, <1>2
<1>4. BasicOf(k)' = IF e.basic # NotGiven THEN e.basic ELSE BasicNow
  <2> DEFINE NA == Named \cup Accepted
             B == {j \in Named' \cup Accepted' : j <= k}
  <2>1. BasicOf(k)' = IF B = {} \/ Max(B) \in Accepted THEN 0 ELSE asked'[Max(B)].basic
    BY <1>1 DEF BasicOf
  <2>2. \A j \in NA : j \in DOMAIN asked /\ j \in Nat /\ j < k /\ j <= k
    BY <1>1, <1>2
  <2>3. CASE e.basic # NotGiven
    <3>1. B = NA \cup {k}
      BY <1>1, <2>2, <2>3
    <3>2. Max(B) = k
      <4> HIDE DEF NA, B
      <4>1. NA \subseteq Nat
        BY <2>2
      <4> QED BY <1>1, <2>2, <3>1, <4>1, MaxWith
    <3> HIDE DEF B
    <3> QED BY <1>1, <1>3, <2>1, <2>3, <3>1, <3>2
  <2>4. CASE ~ (e.basic # NotGiven)
    <3>1. B = NA
      BY <1>1, <2>2, <2>4
    <3>2. NA # {} => Max(NA) \in DOMAIN asked
      <4>1. NA \subseteq DOMAIN asked
        BY <1>2
      <4> HIDE DEF NA
      <4> QED BY <4>1, LastOf
    <3>3. BasicNow = IF NA = {} \/ Max(NA) \in Accepted THEN 0 ELSE asked[Max(NA)].basic
      BY DEF BasicNow
    <3> HIDE DEF B, NA
    <3> QED BY <1>1, <2>1, <2>4, <3>1, <3>2, <3>3
  <2> QED BY <2>3, <2>4
<1>5. FrequencyOf(k)' = IF e.frequency # NotGiven THEN Normal(e.frequency) ELSE FrequencyNow
  <2> DEFINE B == {j \in OnWhen' \cup Accepted' :
                     j <= k /\ (j \in Accepted' \/ asked'[j].frequency # NotGiven)}
  <2>1. FrequencyOf(k)' = IF B = {} \/ Max(B) \in Accepted \/ asked'[Max(B)].frequency = 0
                          THEN 1 ELSE asked'[Max(B)].frequency
    BY <1>1 DEF FrequencyOf
  <2>2. \A j \in OnWhen \cup Accepted : j \in DOMAIN asked /\ j \in Nat /\ j < k /\ j <= k
    BY <1>1, <1>2
  <2>3. \A j \in OnWhen \cup Accepted : asked'[j] = asked[j]
    BY <1>1, <2>2
  <2>4. CASE e.frequency # NotGiven
    <3>1. B = Given \cup {k}
      BY <1>1, <1>3, <2>2, <2>3, <2>4 DEF Given
    <3>2. Max(B) = k
      <4> HIDE DEF B
      <4>1. Given \subseteq Nat /\ \A x \in Given : x < k
        BY <1>2, <2>2
      <4> QED BY <1>1, <3>1, <4>1, MaxWith
    <3> HIDE DEF B
    <3> QED BY <1>1, <1>3, <2>1, <2>4, <3>1, <3>2 DEF Normal
  <2>5. CASE ~ (e.frequency # NotGiven)
    <3>1. B = Given
      BY <1>1, <1>3, <2>2, <2>3, <2>5 DEF Given
    <3>2. Given # {} => Max(Given) \in OnWhen \cup Accepted
      <4>1. Given \subseteq DOMAIN asked
        BY <1>2
      <4>2. Given # {} => Max(Given) \in Given
        BY <4>1, LastOf
      <4> QED BY <1>2, <4>2
    <3> HIDE DEF B
    <3> QED BY <2>1, <2>3, <2>5, <3>1, <3>2 DEF FrequencyNow
  <2> QED BY <2>4, <2>5
<1> QED BY <1>1, <1>3, <1>4, <1>5

\* A step for which the new keyword does not decide keeps its setting.
LEMMA OldPlanned ==
  ASSUME TypeOK, NEW e \in Asked, asked' = Append(asked, e), NEW t \in Steps,
         \/ OnWhen' = OnWhen /\ Accepted' = Accepted
         \/ ~ (e.step <= t),
         config'.schedule[t] = config.schedule[t], PlannedAt(t)
  PROVE  PlannedAt(t)'
<1>1. PICK k : k = Len(asked) + 1
  OBVIOUS
<1>2. /\ \A j \in DOMAIN asked : asked'[j] = asked[j] /\ j < k
      /\ asked'[k] = e /\ k \in Nat
      /\ OnWhen' = OnWhen \/ OnWhen' = OnWhen \cup {k}
      /\ Accepted' = Accepted \/ Accepted' = Accepted \cup {k}
  BY <1>1, Appended
<1>3. OnWhen \subseteq DOMAIN asked /\ Accepted \subseteq DOMAIN asked
  BY AskedTypes
<1>4. PICK D : D = Deciding(t)
  OBVIOUS
<1>5. PICK i : i = Max(D)
  OBVIOUS
<1>6. Deciding(t)' = D
  <2>1. Deciding(t)' = {j \in OnWhen' \cup Accepted' : asked'[j].step <= t}
    BY DEF Deciding
  <2>2. \A j \in OnWhen \cup Accepted : asked'[j] = asked[j]
    BY <1>2, <1>3
  <2>3. \A j \in OnWhen' \cup Accepted' : j \in OnWhen \cup Accepted \/ (j = k /\ ~ (asked'[k].step <= t))
    BY <1>2
  <2> QED BY <1>2, <1>4, <2>1, <2>2, <2>3 DEF Deciding
<1>7. D # {} => i \in DOMAIN asked
  <2>1. D \subseteq DOMAIN asked
    BY <1>3, <1>4 DEF Deciding
  <2> QED BY <1>5, <2>1, LastOf
<1>8. PlannedAt(t)' <=>
        IF D = {} THEN config'.schedule[t] \in {Unset, RptrstSchedule(0, 0, 1)}
        ELSE IF i \in Accepted' THEN config'.schedule[t] = RptschedSchedule(asked'[i].restart)
        ELSE \E n \in {0, FrequencyOf(i)'} :
               /\ Normal(n) = FrequencyOf(i)'
               /\ config'.schedule[t] = RptrstSchedule(asked'[i].step, BasicOf(i)', n)
  BY <1>6, <1>5 DEF PlannedAt
<1>9. CASE D = {}
  BY <1>8, <1>9, <1>4 DEF PlannedAt
<1>10. CASE D # {}
  <2>1. /\ BasicOf(i)' = BasicOf(i)
        /\ FrequencyOf(i)' = FrequencyOf(i)
        /\ i \in Accepted' <=> i \in Accepted
    BY <1>7, <1>10, OldKeep
  <2>2. asked'[i] = asked[i]
    BY <1>2, <1>7, <1>10
  <2> QED BY <1>8, <1>10, <2>1, <2>2, <1>4, <1>5 DEF PlannedAt
<1> QED BY <1>9, <1>10

\* A setting is one of the three kinds.
LEMMA PlannedKinds ==
  ASSUME NEW t, PlannedAt(t)
  PROVE  LET rs == config.schedule[t]
         IN \/ rs \in {Unset, RptrstSchedule(0, 0, 1)}
            \/ \E r : rs = RptschedSchedule(r)
            \/ \E s, b, n : rs = RptrstSchedule(s, b, n)
BY DEF PlannedAt

\* update() on the settings: when it leaves the container alone, the steps
\* have the new setting already.
LEMMA UpdateInForce ==
  ASSUME PlanInv, phase = "read", ~Ignored, NEW rs \in RestartSchedule,
         \/ \E r \in Nat : rs = RptschedSchedule(r)
         \/ \E b, n \in Nat : rs = RptrstSchedule(OutputStep, b, n)
  PROVE  UpdateSchedule(config.schedule, OutputStep, rs)
           = [t \in Steps |-> IF t >= OutputStep THEN rs ELSE config.schedule[t]]
<1> DEFINE data == config.schedule
           s == OutputStep
<1>1. TypeOK /\ step \in Steps
  BY DEF PlanInv, Inv, TypeOK
<1>2. s \in Steps \ {0} /\ s \in Nat
  BY <1>1 DEF Ignored, OutputStep, Steps
<1>3. DOMAIN data = Steps /\ data = [t \in Steps |-> data[t]]
  BY <1>1 DEF TypeOK
<1>4. \A t \in Steps : t >= s => data[t] = data[s]
  <2>1. \A t \in Steps : t >= OutputStep => data[t] = data[NSteps - 1]
    BY DEF PlanInv, AskedSoFar
  <2>2. data[s] = data[NSteps - 1]
    BY <1>2, <2>1
  <2> QED BY <2>1, <2>2
<1>5. PlannedAt(s)
  BY <1>2 DEF PlanInv, Planned
<1>6. SameSchedule(rs, data[s]) => data[s] = rs
  <2> SUFFICES ASSUME SameSchedule(rs, data[s]) PROVE data[s] = rs
    OBVIOUS
  <2>1. \/ data[s] = Unset
        \/ data[s] = RptrstSchedule(0, 0, 1)
        \/ \E r : data[s] = RptschedSchedule(r)
        \/ \E q, b, n : data[s] = RptrstSchedule(q, b, n)
    BY <1>5, PlannedKinds
  <2> HIDE DEF s, data
  <2>2. CASE \E r \in Nat : rs = RptschedSchedule(r)
    <3>1. PICK r \in Nat : rs = RptschedSchedule(r)
      BY <2>2
    <3>2. data[s].rptsched_restart_set /\ r = data[s].rptsched_restart
      BY <3>1 DEF SameSchedule, RptschedSchedule
    <3>3. \A q, b, n : ~RptrstSchedule(q, b, n).rptsched_restart_set
      BY DEF RptrstSchedule
    <3>4. PICK x : data[s] = RptschedSchedule(x)
      BY <2>1, <3>2, <3>3 DEF Unset
    <3>5. x = r
      BY <3>2, <3>4 DEF RptschedSchedule
    <3> QED BY <3>1, <3>4, <3>5
  <2>3. CASE \E b, n \in Nat : rs = RptrstSchedule(s, b, n)
    <3>1. PICK b \in Nat, n \in Nat : rs = RptrstSchedule(s, b, n)
      BY <2>3
    <3> DEFINE f == IF b > 2 /\ n = 0 THEN 1 ELSE n
    <3>2. rs = [timestep |-> s, basic |-> b, frequency |-> f,
                rptsched_restart_set |-> FALSE, rptsched_restart |-> 0]
      BY <3>1 DEF RptrstSchedule
    <3>3. data[s].timestep = s /\ data[s].basic = b /\ data[s].frequency = f
      <4> HIDE DEF f
      <4> QED BY <3>2 DEF SameSchedule
    <3>4. \A r : RptschedSchedule(r).timestep = 0
      BY DEF RptschedSchedule
    <3>5. \A c, n1 : RptrstSchedule(0, c, n1).timestep = 0
      BY DEF RptrstSchedule
    <3>6. PICK q, c, n1 : data[s] = RptrstSchedule(q, c, n1)
      BY <1>2, <2>1, <3>3, <3>4, <3>5 DEF Unset
    <3>7. data[s] = [timestep |-> data[s].timestep, basic |-> data[s].basic,
                     frequency |-> data[s].frequency,
                     rptsched_restart_set |-> FALSE, rptsched_restart |-> 0]
      BY <3>6 DEF RptrstSchedule
    <3> HIDE DEF f
    <3> QED BY <3>2, <3>3, <3>7
  <2> QED BY <2>2, <2>3 DEF s
<1>7. CASE SameSchedule(rs, data[s])
  <2>1. UpdateSchedule(data, s, rs) = data
    BY <1>7 DEF UpdateSchedule
  <2>2. \A t \in Steps : data[t] = IF t >= s THEN rs ELSE data[t]
    BY <1>4, <1>6, <1>7
  <2> HIDE DEF s, data
  <2>3. data = [t \in Steps |-> IF t >= s THEN rs ELSE data[t]]
    BY <1>3, <2>2
  <2> QED BY <2>1, <2>3 DEF s, data
<1>8. CASE ~SameSchedule(rs, data[s])
  BY <1>3, <1>8 DEF UpdateSchedule
<1> QED BY <1>7, <1>8

\* When no output keyword is read, the plan remains.
LEMMA SamePlan ==
  ASSUME PlanInv, UNCHANGED asked, config'.schedule = config.schedule
  PROVE  Planned'
<1>1. Named' = Named /\ OnWhen' = OnWhen
  BY DEF Named, OnWhen
<1>2. \A i : Overridden(i)' <=> Overridden(i)
  BY <1>1 DEF Overridden
<1>3. Accepted' = Accepted
  BY <1>2 DEF Accepted
<1>4. \A i : BasicOf(i)' = BasicOf(i)
  BY <1>1, <1>3 DEF BasicOf
<1>5. \A i : FrequencyOf(i)' = FrequencyOf(i)
  BY <1>1, <1>3 DEF FrequencyOf
<1>6. \A t : Deciding(t)' = Deciding(t)
  BY <1>1, <1>3 DEF Deciding
<1>7. \A t : PlannedAt(t)' <=> PlannedAt(t)
  BY <1>3, <1>4, <1>5, <1>6 DEF PlannedAt
<1> QED BY <1>7 DEF PlanInv, Planned

\* A keyword that is read for the steps from OutputStep on.
LEMMA ReadFor ==
  ASSUME PlanInv, phase = "read", ~Ignored, NEW e \in Asked, e.step = OutputStep,
         asked' = Append(asked, e), UNCHANGED <<phase, step>>,
         \/ config'.schedule = config.schedule
         \/ \E rs : config'.schedule = [t \in Steps |-> IF t >= OutputStep THEN rs
                                                        ELSE config.schedule[t]]
  PROVE  AskedSoFar'
<1>1. TypeOK /\ step \in Steps /\ NSteps - 1 \in Steps
  BY ZeroStep DEF PlanInv, Inv, TypeOK
<1>2. OutputStep \in 1 .. NSteps - 1 /\ OutputStep' = OutputStep
  BY <1>1 DEF Ignored, OutputStep, Steps
<1>3. \A i \in DOMAIN asked' : asked'[i].step \in 1 .. NSteps - 1 /\ asked'[i].step <= OutputStep'
  <2> TAKE i \in DOMAIN asked'
  <2>1. (i \in DOMAIN asked /\ asked'[i] = asked[i]) \/ asked'[i] = e
    BY <1>1, AskedTypes
  <2> QED BY <1>2, <2>1 DEF PlanInv, AskedSoFar
<1>4. \A t \in Steps : t >= OutputStep' => config'.schedule[t] = config'.schedule[NSteps - 1]
  <2>1. \A t \in Steps : t >= OutputStep => config.schedule[t] = config.schedule[NSteps - 1]
    BY DEF PlanInv, AskedSoFar
  <2>2. NSteps - 1 >= OutputStep
    BY <1>2
  <2> QED BY <1>1, <1>2, <2>1, <2>2
<1> QED BY <1>3, <1>4 DEF AskedSoFar

\* A keyword that counts decides for all steps from its own on.
LEMMA NewDecides ==
  ASSUME TypeOK, NEW e \in Asked, asked' = Append(asked, e), NEW k, k = Len(asked) + 1,
         k \in OnWhen' \cup Accepted', NEW t \in Steps, e.step <= t
  PROVE  Deciding(t)' # {} /\ Max(Deciding(t))' = k
<1>1. /\ \A j \in DOMAIN asked : j < k
      /\ asked'[k] = e /\ k \in Nat
      /\ OnWhen' = OnWhen \/ OnWhen' = OnWhen \cup {k}
      /\ Accepted' = Accepted \/ Accepted' = Accepted \cup {k}
  BY Appended
<1>2. OnWhen \subseteq DOMAIN asked /\ Accepted \subseteq DOMAIN asked /\ DOMAIN asked \subseteq Nat
  BY AskedTypes
<1>3. PICK D : D = Deciding(t)'
  OBVIOUS
<1>4. k \in D
  BY <1>1, <1>3 DEF Deciding
<1>5. \A j \in D : j = k \/ j \in DOMAIN asked
  BY <1>1, <1>2, <1>3 DEF Deciding
<1>6. PICK U : U = D \ {k}
  OBVIOUS
<1>7. U \subseteq Nat /\ (\A x \in U : x < k) /\ D = U \cup {k}
  BY <1>1, <1>2, <1>4, <1>5, <1>6
<1>8. Max(U \cup {k}) = k
  BY <1>1, <1>7, MaxWith
<1> QED BY <1>3, <1>4, <1>7, <1>8

LEMMA RptrstPlan ==
  ASSUME PlanInv, NEW b \in Basics \cup {NotGiven}, NEW f \in Frequencies \cup {NotGiven},
         RPTRST(b, f)
  PROVE  Planned' /\ AskedSoFar'
<1> DEFINE e == OutputKeyword("RPTRST", b, f, NotGiven)
           prev == config.schedule[NSteps - 1]
           B == IF b = NotGiven THEN prev.basic ELSE b
           n == IF f = NotGiven THEN prev.frequency ELSE f
<1>1. TypeOK /\ step \in Steps /\ config \in Config /\ phase = "read" /\ NSteps - 1 \in Steps
  BY ConfigOK, ZeroStep DEF PlanInv, Inv, TypeOK, RPTRST, Read
<1>2. UNCHANGED <<phase, step>>
  BY DEF RPTRST, Read
<1>3. config'.schedule = IF Ignored THEN config.schedule
                         ELSE Accept(config.schedule, OutputStep, Rptrst(prev, OutputStep, b, f))
  BY <1>1 DEF RPTRST, Config
<1>4. CASE Ignored
  <2>1. UNCHANGED asked /\ config'.schedule = config.schedule
    BY <1>3, <1>4 DEF RPTRST
  <2>2. AskedSoFar'
    BY <1>2, <2>1 DEF PlanInv, AskedSoFar, OutputStep
  <2> QED BY <2>1, <2>2, SamePlan
<1>5. CASE ~Ignored
  <2>1. asked' = Append(asked, e) /\ e \in Asked
    BY <1>1, <1>5, OutputType DEF RPTRST
  <2>2. /\ e.step = OutputStep /\ e.name = "RPTRST" /\ e.basic = b /\ e.frequency = f
        /\ e.restart = NotGiven
    BY DEF OutputKeyword
  <2>3. prev \in RestartSchedule /\ prev.basic \in Nat /\ prev.frequency \in Nat
    <3>1. prev \in RestartSchedule
      BY <1>1 DEF Config
    <3> QED BY <3>1 DEF RestartSchedule
  <2>4. OutputStep \in Nat \ {0} /\ OutputStep \in Steps
    BY <1>1, <1>5 DEF Ignored, OutputStep, Steps
  <2> HIDE DEF e
  <2>5. CASE b = NotGiven /\ f = NotGiven
    <3>1. config'.schedule = config.schedule
      BY <1>3, <1>5, <2>5 DEF Rptrst, Accept, SameSchedule, Unset, RptrstSchedule
    <3>2. OnWhen' = OnWhen /\ Accepted' = Accepted
      BY <1>1, <2>1, <2>2, <2>5, Appended
    <3>3. ASSUME NEW t \in Steps \ {0} PROVE PlannedAt(t)'
      <4>1. PlannedAt(t)
        BY DEF PlanInv, Planned
      <4> QED BY <1>1, <2>1, <3>1, <3>2, <4>1, OldPlanned
    <3>4. AskedSoFar'
      BY <1>1, <1>2, <1>5, <2>1, <2>2, <3>1, ReadFor
    <3> QED BY <3>3, <3>4 DEF Planned
  <2>6. CASE ~ (b = NotGiven /\ f = NotGiven)
    <3>1. PICK rs : rs = RptrstSchedule(OutputStep, B, n)
      OBVIOUS
    <3>2. B \in Nat /\ n \in Nat
      BY <2>3
    <3>3. rs \in RestartSchedule
      BY <2>4, <3>1, <3>2, RptrstType
    <3>4. config'.schedule = UpdateSchedule(config.schedule, OutputStep, rs)
      <4>1. Rptrst(prev, OutputStep, b, f) = rs
        BY <2>6, <3>1 DEF Rptrst
      <4>2. rs.timestep = OutputStep /\ ~rs.rptsched_restart_set
        BY <3>1 DEF RptrstSchedule
      <4>3. ~SameSchedule(rs, Unset)
        BY <2>4, <4>2 DEF SameSchedule, Unset, RptrstSchedule
      <4> QED BY <1>3, <1>5, <4>1, <4>2, <4>3 DEF Accept
    <3>5. config'.schedule = [t \in Steps |-> IF t >= OutputStep THEN rs ELSE config.schedule[t]]
      <4>1. \E b1, n1 \in Nat : rs = RptrstSchedule(OutputStep, b1, n1)
        BY <3>1, <3>2
      <4> QED BY <1>1, <1>5, <3>3, <3>4, <4>1, UpdateInForce
    <3>6. PICK k : k = Len(asked) + 1
      OBVIOUS
    <3>7. PICK now : now = <<BasicNow, FrequencyNow>>
      OBVIOUS
    <3>8. /\ k \in OnWhen' /\ k \notin Accepted' /\ asked'[k] = e
          /\ BasicOf(k)' = IF b # NotGiven THEN b ELSE now[1]
          /\ FrequencyOf(k)' = IF f # NotGiven THEN Normal(f) ELSE now[2]
      BY <1>1, <2>1, <2>2, <2>6, <3>6, <3>7, NewTakes, Appended
    <3>9. prev.basic = now[1] /\ Normal(prev.frequency) = now[2]
      BY <1>1, <3>7, LastPlanned
    <3>10. ASSUME NEW t \in Steps \ {0} PROVE PlannedAt(t)'
      <4>1. CASE t >= OutputStep
        <5>1. Deciding(t)' # {} /\ Max(Deciding(t))' = k
          <6>1. e.step <= t
            BY <2>2, <2>4, <4>1 DEF Steps
          <6> QED BY <1>1, <2>1, <3>6, <3>8, <6>1, NewDecides
        <5>2. config'.schedule[t] = rs
          BY <3>5, <4>1
        <5>3. PICK m : m = n
          OBVIOUS
        <5>4. Normal(m) = FrequencyOf(k)' /\ m \in {0, FrequencyOf(k)'}
          BY <3>8, <3>9, <5>3 DEF Normal
        <5>5. rs = RptrstSchedule(asked'[k].step, BasicOf(k)', m)
          BY <2>2, <3>1, <3>8, <3>9, <5>3
        <5>6. k \notin Accepted'
          BY <3>8
        <5> HIDE DEF B, n
        <5> QED BY <5>1, <5>2, <5>4, <5>5, <5>6 DEF PlannedAt
      <4>2. CASE ~ (t >= OutputStep)
        <5>1. config'.schedule[t] = config.schedule[t]
          BY <3>5, <4>2
        <5>2. PlannedAt(t)
          BY DEF PlanInv, Planned
        <5>3. ~ (e.step <= t)
          BY <2>2, <2>4, <4>2 DEF Steps
        <5> QED BY <1>1, <2>1, <5>1, <5>2, <5>3, OldPlanned
      <4> QED BY <4>1, <4>2
    <3>11. AskedSoFar'
      BY <1>1, <1>2, <1>5, <2>1, <2>2, <3>5, ReadFor
    <3> QED BY <3>10, <3>11 DEF Planned
  <2> QED BY <2>5, <2>6
<1> QED BY <1>4, <1>5

LEMMA LastStep == Max(Steps) = NSteps - 1
<1>1. NSteps - 1 \in Steps /\ \A s \in Steps : NSteps - 1 >= s
  BY DEF Steps
<1>2. \A m \in Steps : (\A s \in Steps : m >= s) => m = NSteps - 1
  BY DEF Steps
<1> QED BY <1>1, <1>2 DEF Max

LEMMA RptschedPlan ==
  ASSUME PlanInv, NEW r \in Restarts \cup {NotGiven}, RPTSCHED(r)
  PROVE  Planned' /\ AskedSoFar'
<1> DEFINE e == OutputKeyword("RPTSCHED", NotGiven, NotGiven, r)
           prev == config.schedule[NSteps - 1]
<1>1. TypeOK /\ step \in Steps /\ config \in Config /\ phase = "read" /\ NSteps - 1 \in Steps
  BY ConfigOK, ZeroStep DEF PlanInv, Inv, TypeOK, RPTSCHED, Read
<1>2. UNCHANGED <<phase, step>>
  BY DEF RPTSCHED, Read
<1>3. config'.schedule = IF Ignored THEN config.schedule
                         ELSE Accept(config.schedule, OutputStep, Rptsched(r))
  BY <1>1 DEF RPTSCHED, Config
<1>4. CASE Ignored
  <2>1. UNCHANGED asked /\ config'.schedule = config.schedule
    BY <1>3, <1>4 DEF RPTSCHED
  <2>2. AskedSoFar'
    BY <1>2, <2>1 DEF PlanInv, AskedSoFar, OutputStep
  <2> QED BY <2>1, <2>2, SamePlan
<1>5. CASE ~Ignored
  <2>1. asked' = Append(asked, e) /\ e \in Asked
    BY <1>1, <1>5, OutputType DEF RPTSCHED
  <2>2. /\ e.step = OutputStep /\ e.name = "RPTSCHED" /\ e.basic = NotGiven
        /\ e.frequency = NotGiven /\ e.restart = r
    BY DEF OutputKeyword
  <2>3. OutputStep \in Nat \ {0} /\ OutputStep \in Steps
    BY <1>1, <1>5 DEF Ignored, OutputStep, Steps
  <2>4. config.schedule[Max(DOMAIN config.schedule)].basic > 2 <=> OverriddenNow
    <3>1. DOMAIN config.schedule = Steps
      BY <1>1 DEF Config
    <3> QED BY <1>1, <3>1, LastStep, LastPlanned
  <2>5. OnWhen' = OnWhen
    BY <1>1, <2>1, <2>2, Appended
  <2> HIDE DEF e
  <2>6. CASE r = NotGiven \/ OverriddenNow
    <3>1. config'.schedule = config.schedule
      <4>1. CASE r = NotGiven
        BY <1>3, <1>5, <4>1 DEF Rptsched, Accept, SameSchedule, Unset, RptrstSchedule
      <4>2. CASE r # NotGiven
        <5>1. Rptsched(r).rptsched_restart_set
          BY <4>2 DEF Rptsched, RptschedSchedule
        <5> QED BY <1>3, <1>5, <2>4, <2>6, <4>2, <5>1 DEF Accept
      <4> QED BY <4>1, <4>2
    <3>2. Accepted' = Accepted
      BY <1>1, <2>1, <2>2, <2>6, Appended
    <3>3. ASSUME NEW t \in Steps \ {0} PROVE PlannedAt(t)'
      <4>1. PlannedAt(t)
        BY DEF PlanInv, Planned
      <4> QED BY <1>1, <2>1, <2>5, <3>1, <3>2, <4>1, OldPlanned
    <3>4. AskedSoFar'
      BY <1>1, <1>2, <1>5, <2>1, <2>2, <3>1, ReadFor
    <3> QED BY <3>3, <3>4 DEF Planned
  <2>7. CASE r # NotGiven /\ ~OverriddenNow
    <3>1. PICK rs : rs = RptschedSchedule(r)
      OBVIOUS
    <3>2. rs \in RestartSchedule /\ r \in Nat
      <4>1. r \in Nat
        BY <2>7
      <4>2. Rptsched(r) = rs
        BY <2>7, <3>1 DEF Rptsched
      <4> QED BY <4>1, <4>2, ReadRptschedType
    <3>3. config'.schedule = UpdateSchedule(config.schedule, OutputStep, rs)
      <4>1. Rptsched(r) = rs /\ rs.rptsched_restart_set
        BY <2>7, <3>1 DEF Rptsched, RptschedSchedule
      <4>2. ~SameSchedule(rs, Unset)
        BY <4>1 DEF SameSchedule, Unset, RptrstSchedule
      <4> QED BY <1>3, <1>5, <2>4, <2>7, <4>1, <4>2 DEF Accept
    <3>4. config'.schedule = [t \in Steps |-> IF t >= OutputStep THEN rs ELSE config.schedule[t]]
      <4>1. \E r1 \in Nat : rs = RptschedSchedule(r1)
        BY <3>1, <3>2
      <4> QED BY <1>1, <1>5, <3>2, <3>3, <4>1, UpdateInForce
    <3>5. PICK k : k = Len(asked) + 1
      OBVIOUS
    <3>6. k \in Accepted' /\ asked'[k] = e
      BY <1>1, <2>1, <2>2, <2>7, <3>5, Appended
    <3>7. ASSUME NEW t \in Steps \ {0} PROVE PlannedAt(t)'
      <4>1. CASE t >= OutputStep
        <5>1. Deciding(t)' # {} /\ Max(Deciding(t))' = k
          <6>1. e.step <= t
            BY <2>2, <2>3, <4>1 DEF Steps
          <6> QED BY <1>1, <2>1, <3>5, <3>6, <6>1, NewDecides
        <5>2. config'.schedule[t] = rs
          BY <3>4, <4>1
        <5>3. rs = RptschedSchedule(asked'[k].restart)
          BY <2>2, <3>1, <3>6
        <5> QED BY <3>6, <5>1, <5>2, <5>3 DEF PlannedAt
      <4>2. CASE ~ (t >= OutputStep)
        <5>1. config'.schedule[t] = config.schedule[t]
          BY <3>4, <4>2
        <5>2. PlannedAt(t)
          BY DEF PlanInv, Planned
        <5>3. ~ (e.step <= t)
          BY <2>2, <2>3, <4>2 DEF Steps
        <5> QED BY <1>1, <2>1, <5>1, <5>2, <5>3, OldPlanned
      <4> QED BY <4>1, <4>2
    <3>8. AskedSoFar'
      BY <1>1, <1>2, <1>5, <2>1, <2>2, <3>4, ReadFor
    <3> QED BY <3>7, <3>8 DEF Planned
  <2> QED BY <2>6, <2>7
<1> QED BY <1>4, <1>5

\* RPTRST of the SOLUTION section, and none.
LEMMA InitPlan == Init => PlanInv
<1> SUFFICES ASSUME Init PROVE Planned /\ AskedSoFar
  BY InitInv DEF PlanInv
<1>1. TypeOK /\ step = 0 /\ OutputStep = 1 /\ SolutionSection
  BY InitInv DEF Init, Inv, OutputStep
<1>2. /\ NoOutput = [t \in Steps |-> RptrstSchedule(0, 0, 1)]
      /\ NSteps - 1 \in Steps \ {0} /\ 1 \in Steps /\ \A t \in Steps \ {0} : t >= 1
      /\ NSteps - 1 >= 1
  BY DEF NoOutput, Filled, Steps
<1>3. \A schedule, initial : NewConfig(schedule, initial).schedule = schedule
  BY DEF NewConfig
<1>4. CASE config = NewConfig(NoOutput, FALSE) /\ asked = <<>>
  <2>1. config.schedule = NoOutput /\ DOMAIN asked = {}
    <3>1. config.schedule = NoOutput
      BY <1>3, <1>4
    <3>2. DOMAIN asked = {}
      BY <1>4
    <3> QED BY <3>1, <3>2
  <2>2. \A t : Deciding(t) = {}
    BY <2>1 DEF Deciding, OnWhen, Accepted
  <2>3. Planned
    BY <1>2, <2>1, <2>2 DEF Planned, PlannedAt
  <2>4. AskedSoFar
    BY <1>2, <2>1 DEF AskedSoFar
  <2> QED BY <2>3, <2>4
<1>5. CASE \E b \in Basics \cup {NotGiven}, f \in Frequencies \cup {NotGiven} :
       /\ config = NewConfig(UpdateSchedule(NoOutput, 1, Rptrst(Unset, 1, b, f)), TRUE)
       /\ asked = <<[OutputKeyword("RPTRST", b, f, NotGiven) EXCEPT !.step = 1]>>
  <2>1. PICK b \in Basics \cup {NotGiven}, f \in Frequencies \cup {NotGiven} :
       /\ config = NewConfig(UpdateSchedule(NoOutput, 1, Rptrst(Unset, 1, b, f)), TRUE)
       /\ asked = <<[OutputKeyword("RPTRST", b, f, NotGiven) EXCEPT !.step = 1]>>
    BY <1>5
  <2> DEFINE e == [OutputKeyword("RPTRST", b, f, NotGiven) EXCEPT !.step = 1]
             rs == Rptrst(Unset, 1, b, f)
  <2>2. /\ e.step = 1 /\ e.name = "RPTRST" /\ e.basic = b /\ e.frequency = f
        /\ e.restart = NotGiven
    BY DEF OutputKeyword
  <2>3. DOMAIN asked = {1} /\ asked[1] = e
    <3> HIDE DEF e
    <3>1. asked = <<e>>
      BY <2>1 DEF e
    <3> QED BY <3>1
  <2>4. ~SameSchedule(rs, RptrstSchedule(0, 0, 1))
    <3>1. CASE b = NotGiven /\ f = NotGiven
      BY <3>1 DEF Rptrst, SameSchedule, Unset, RptrstSchedule
    <3>2. CASE ~ (b = NotGiven /\ f = NotGiven)
      BY <3>2 DEF Rptrst, SameSchedule, Unset, RptrstSchedule
    <3> QED BY <3>1, <3>2
  <2>5. config.schedule = [t \in Steps |-> IF t >= 1 THEN rs ELSE NoOutput[t]]
    <3>1. config.schedule = UpdateSchedule(NoOutput, 1, rs)
      BY <1>3, <2>1
    <3> HIDE DEF rs
    <3> QED BY <1>2, <2>4, <3>1 DEF UpdateSchedule
  <2>6. \A t \in Steps \ {0} : config.schedule[t] = rs
    <3> HIDE DEF rs
    <3> QED BY <1>2, <2>5
  <2>7. AskedSoFar
    <3> HIDE DEF e, rs
    <3>1. \A i \in DOMAIN asked : asked[i].step \in 1 .. NSteps - 1 /\ asked[i].step <= OutputStep
      BY <1>1, <1>2, <2>2, <2>3
    <3>2. \A t \in Steps : t >= OutputStep => t \in Steps \ {0}
      BY <1>1
    <3> QED BY <1>2, <2>6, <3>1, <3>2 DEF AskedSoFar
  <2>8. Accepted = {}
    <3> HIDE DEF e
    <3> QED BY <2>2, <2>3 DEF Accepted
  <2>9. CASE b = NotGiven /\ f = NotGiven
    <3>1. OnWhen = {}
      <4> HIDE DEF e
      <4> QED BY <2>2, <2>3, <2>9 DEF OnWhen
    <3>2. \A t : Deciding(t) = {}
      BY <2>8, <3>1 DEF Deciding
    <3>3. rs = Unset
      BY <2>9 DEF Rptrst
    <3>4. Planned
      <4> HIDE DEF rs
      <4> QED BY <2>6, <3>2, <3>3 DEF Planned, PlannedAt
    <3> QED BY <2>7, <3>4
  <2>10. CASE ~ (b = NotGiven /\ f = NotGiven)
    <3> DEFINE B == IF b = NotGiven THEN 0 ELSE b
               n == IF f = NotGiven THEN 0 ELSE f
    <3>1. rs = RptrstSchedule(1, B, n)
      BY <2>10 DEF Rptrst, Unset, RptrstSchedule
    <3>2. OnWhen = {1} /\ Named = IF b = NotGiven THEN {} ELSE {1}
      <4> HIDE DEF e
      <4> QED BY <2>2, <2>3, <2>10 DEF OnWhen, Named
    <3>3. Max({1}) = 1
      BY DEF Max
    <3>4. \A t \in Steps \ {0} : Deciding(t) = {1}
      <4> HIDE DEF e
      <4> QED BY <1>2, <2>2, <2>3, <2>8, <3>2 DEF Deciding
    <3>5. BasicOf(1) = B
      <4>1. {j \in Named \cup Accepted : j <= 1} = Named
        BY <2>8, <3>2
      <4>2. asked[1].basic = b
        BY <2>2, <2>3
      <4> HIDE DEF e
      <4> QED BY <2>8, <3>2, <3>3, <4>1, <4>2 DEF BasicOf
    <3>6. FrequencyOf(1) = Normal(n)
      <4>1. asked[1].frequency = f
        BY <2>2, <2>3
      <4>2. {j \in OnWhen \cup Accepted : j <= 1 /\ (j \in Accepted \/ asked[j].frequency # NotGiven)}
              = IF f = NotGiven THEN {} ELSE {1}
        BY <2>8, <3>2, <4>1
      <4> HIDE DEF e
      <4> QED BY <2>8, <3>3, <4>1, <4>2 DEF FrequencyOf, Normal
    <3>7. n \in {0, FrequencyOf(1)} /\ Normal(n) = FrequencyOf(1)
      BY <3>6 DEF Normal
    <3>8. asked[1].step = 1
      BY <2>2, <2>3
    <3>9. Planned
      <4> SUFFICES ASSUME NEW t \in Steps \ {0} PROVE PlannedAt(t)
        BY DEF Planned
      <4> HIDE DEF e, rs, n, B
      <4>1. Deciding(t) = {1} /\ Max(Deciding(t)) = 1 /\ 1 \notin Accepted
        BY <2>8, <3>3, <3>4
      <4>2. config.schedule[t] = RptrstSchedule(asked[1].step, BasicOf(1), n)
        BY <2>6, <3>1, <3>5, <3>8
      <4> QED BY <3>7, <4>1, <4>2 DEF PlannedAt
    <3> QED BY <2>7, <3>9
  <2> QED BY <2>9, <2>10
<1> QED BY <1>1, <1>4, <1>5 DEF SolutionSection

\* A simulator's own interval in place of all keywords.
LEMMA OverridePlan ==
  ASSUME PlanInv, NEW n \in Intervals, OverrideRestartWriteInterval(n)
  PROVE  Planned' /\ AskedSoFar'
<1> DEFINE b == IF n > 0 THEN 3 ELSE 0
           e == [OutputKeyword("RPTRST", b, n, NotGiven) EXCEPT !.step = 0]
<1>1. config \in Config
  BY ConfigOK DEF PlanInv, Inv
<1>2. n \in Nat /\ n # NotGiven /\ b # NotGiven
  <2>1. n \in Nat
    OBVIOUS
  <2> QED BY <2>1 DEF NotGiven
<1>3. \A t \in Steps : config'.schedule[t] = RptrstSchedule(0, b, n)
  <2>1. config'.schedule = Filled(NSteps, RptrstSchedule(0, b, n))
    BY <1>1 DEF OverrideRestartWriteInterval, Config
  <2> QED BY <2>1 DEF Filled, Steps
<1>4. AskedSoFar'
  BY DEF OverrideRestartWriteInterval, AskedSoFar
<1>5. /\ e.step = 0 /\ e.name = "RPTRST" /\ e.basic = b /\ e.frequency = n
      /\ e.restart = NotGiven
  BY DEF OutputKeyword
<1>6. asked' = <<e>>
  BY DEF OverrideRestartWriteInterval
<1> HIDE DEF e
<1>7. DOMAIN asked' = {1} /\ asked'[1] = e
  BY <1>6
<1>8. OnWhen' = {1} /\ Named' = {1} /\ Accepted' = {}
  BY <1>2, <1>5, <1>7 DEF OnWhen, Named, Accepted
<1>9. Max({1}) = 1
  BY DEF Max
<1>10. \A t \in Steps : Deciding(t)' = {1}
  <2>1. \A t \in Steps : 0 <= t
    BY DEF Steps
  <2> QED BY <1>5, <1>7, <1>8, <2>1 DEF Deciding
<1>11. BasicOf(1)' = b
  <2>1. {j \in Named' \cup Accepted' : j <= 1} = {1}
    BY <1>8
  <2>2. asked'[1].basic = b
    BY <1>5, <1>7
  <2> HIDE DEF b
  <2> QED BY <1>8, <1>9, <2>1, <2>2 DEF BasicOf
<1>12. FrequencyOf(1)' = Normal(n)
  <2>1. asked'[1].frequency = n
    BY <1>5, <1>7
  <2>2. {j \in OnWhen' \cup Accepted' : j <= 1 /\ (j \in Accepted' \/ asked'[j].frequency # NotGiven)}
          = {1}
    BY <1>2, <1>8, <2>1
  <2> QED BY <1>8, <1>9, <2>1, <2>2 DEF FrequencyOf, Normal
<1>13. Planned'
  <2> SUFFICES ASSUME NEW t \in Steps \ {0} PROVE PlannedAt(t)'
    BY DEF Planned
  <2>1. Normal(n) = FrequencyOf(1)' /\ n \in {0, FrequencyOf(1)'}
    BY <1>12 DEF Normal
  <2>2. Deciding(t)' = {1} /\ Max(Deciding(t))' = 1
    BY <1>9, <1>10
  <2>3. config'.schedule[t] = RptrstSchedule(asked'[1].step, BasicOf(1)', n)
    <3>1. asked'[1].step = 0
      BY <1>5, <1>7
    <3> QED BY <1>3, <1>11, <3>1
  <2> HIDE DEF b
  <2> QED BY <1>8, <2>1, <2>2, <2>3 DEF PlannedAt
<1> QED BY <1>4, <1>13

LEMMA PlanNext == PlanInv /\ [Next]_vars => PlanInv'
<1> SUFFICES ASSUME PlanInv, [Next]_vars PROVE Planned' /\ AskedSoFar'
  BY NextInv DEF PlanInv
<1>1. CASE \E b \in Basics \cup {NotGiven}, f \in Frequencies \cup {NotGiven} : RPTRST(b, f)
  BY <1>1, RptrstPlan
<1>2. CASE \E r \in Restarts \cup {NotGiven} : RPTSCHED(r)
  BY <1>2, RptschedPlan
<1>3. ASSUME UNCHANGED asked, config'.schedule = config.schedule,
             phase' = "read" => phase = "read" /\ (step' = step \/ step' = step + 1)
      PROVE  Planned' /\ AskedSoFar'
  <2>1. Planned'
    BY <1>3, SamePlan
  <2>2. AskedSoFar'
    <3> SUFFICES ASSUME phase' = "read"
                 PROVE  /\ \A i \in DOMAIN asked : asked[i].step \in 1 .. NSteps - 1
                                                     /\ asked[i].step <= step' + 1
                        /\ \A t \in Steps : t >= step' + 1 =>
                             config.schedule[t] = config.schedule[NSteps - 1]
      BY <1>3 DEF AskedSoFar, OutputStep
    <3>1. step \in Nat /\ (step' = step \/ step' = step + 1)
      BY <1>3 DEF PlanInv, Inv, TypeOK, Steps
    <3>2. \A i \in DOMAIN asked : asked[i].step \in 1 .. NSteps - 1 /\ asked[i].step <= step + 1
      BY <1>3 DEF PlanInv, AskedSoFar, OutputStep
    <3>3. \A t \in Steps : t >= step + 1 => config.schedule[t] = config.schedule[NSteps - 1]
      BY <1>3 DEF PlanInv, AskedSoFar, OutputStep
    <3>4. \A i \in DOMAIN asked : asked[i].step <= step' + 1
      <4> TAKE i \in DOMAIN asked
      <4>1. asked[i].step \in 1 .. NSteps - 1 /\ asked[i].step <= step + 1
        BY <3>2
      <4> QED BY <3>1, <4>1
    <3>5. \A t \in Steps : t >= step' + 1 => t >= step + 1
      BY <3>1 DEF Steps
    <3> QED BY <3>2, <3>3, <3>4, <3>5
  <2> QED BY <2>1, <2>2
<1>4. config \in Config
  BY ConfigOK DEF PlanInv, Inv
<1>5. CASE SAVE
  BY <1>3, <1>4, <1>5 DEF SAVE, Read, Config
<1>6. CASE \E v \in Factors : WEFAC(v)
  BY <1>3, <1>4, <1>6 DEF WEFAC, Read, Config
<1>7. CASE EndReportStep
  BY <1>3, <1>7 DEF EndReportStep
<1>8. CASE EndSection
  BY <1>3, <1>8 DEF EndSection
<1>9. CASE \E n \in Intervals : OverrideRestartWriteInterval(n)
  BY <1>9, OverridePlan
<1>10. CASE UNCHANGED vars
  BY <1>3, <1>10 DEF vars
<1> QED BY <1>1, <1>2, <1>5, <1>6, <1>7, <1>8, <1>9, <1>10 DEF Next

\* The setting of a step means what the rules say of the keywords.
LEMMA MeansTheSame ==
  ASSUME PlanInv, NEW t \in Steps \ {0}
  PROVE  WriteRestartFile(config.schedule[t], BaseTimes, t) <=> Requested(t)
<1> DEFINE rs == config.schedule[t]
           i == Max(Deciding(t))
<1>1. TypeOK
  BY DEF PlanInv, Inv
<1>2. PlannedAt(t)
  BY DEF PlanInv, Planned
<1>3. CASE Deciding(t) = {}
  <2>1. rs \in {Unset, RptrstSchedule(0, 0, 1)}
    BY <1>2, <1>3 DEF PlannedAt
  <2>2. rs.basic = 0 /\ ~rs.rptsched_restart_set
    BY <2>1 DEF Unset, RptrstSchedule
  <2> QED BY <1>3, <2>2 DEF WriteRestartFile, Requested
<1>4. CASE Deciding(t) # {} /\ i \in Accepted
  <2>1. rs = RptschedSchedule(asked[i].restart)
    BY <1>2, <1>4 DEF PlannedAt
  <2>2. rs.basic = 0 /\ rs.rptsched_restart_set /\ rs.rptsched_restart = asked[i].restart
    BY <2>1 DEF RptschedSchedule
  <2>3. Requested(t) <=> asked[i].restart > 0
    BY <1>4 DEF Requested
  <2> QED BY <2>2, <2>3 DEF WriteRestartFile
<1>5. CASE Deciding(t) # {} /\ i \notin Accepted
  <2> DEFINE basic == BasicOf(i)
             n == FrequencyOf(i)
             start == asked[i].step
  <2>1. PICK m \in {0, n} : Normal(m) = n /\ rs = RptrstSchedule(start, basic, m)
    BY <1>2, <1>5 DEF PlannedAt
  <2>2. /\ ~rs.rptsched_restart_set /\ rs.basic = basic /\ rs.timestep = start
        /\ rs.frequency = IF basic > 2 /\ m = 0 THEN 1 ELSE m
    BY <2>1 DEF RptrstSchedule
  <2>3. rs.timestep \in Nat /\ rs.frequency \in Nat
    BY <1>1 DEF TypeOK, RestartSchedule
  <2>4. Requested(t) <=> \/ basic \in {1, 2}
                         \/ basic = 3 /\ t % n = 0
                         \/ basic = 4 /\ NewPeriod(t, TRUE, start, n)
                         \/ basic = 5 /\ NewPeriod(t, FALSE, start, n)
    BY <1>5 DEF Requested
  <2> HIDE DEF basic, n, start, rs
  <2>5. basic \in {3, 4, 5} => rs.frequency = n /\ n \in Nat \ {0}
    <3> SUFFICES ASSUME basic \in {3, 4, 5} PROVE rs.frequency = n /\ n \in Nat \ {0}
      OBVIOUS
    <3>1. basic > 2
      OBVIOUS
    <3>2. rs.frequency = n /\ n # 0
      BY <2>1, <2>2, <3>1 DEF Normal
    <3> QED BY <2>3, <3>2
  <2>6. \A years \in BOOLEAN : basic \in {4, 5} =>
          (IsFirstInSequence(BaseTimes, t, years, rs.timestep, rs.frequency)
             <=> NewPeriod(t, years, start, n))
    <3> TAKE years \in BOOLEAN
    <3> HAVE basic \in {4, 5}
    <3>1. n \in Nat \ {0} /\ rs.frequency = n /\ start \in Nat /\ rs.timestep = start
      BY <2>2, <2>3, <2>5
    <3> QED BY <1>1, <3>1, SequenceOfPeriods
  <2> QED BY <2>2, <2>4, <2>5, <2>6 DEF WriteRestartFile, rs
<1> QED BY <1>3, <1>4, <1>5

\* The settings that the readers of RPTRST and RPTSCHED have spread over the
\* report steps mean what the rules say of the keywords: those of
\* restartconfig.hh on RPTRST against RPTSCHED, of RPTRST() on what is taken
\* over, of timemap.hh on FREQ (handleScheduleSection, writeRestartFile).
THEOREM PlanOfKeywords == Spec => []PlanFollowsKeywords
<1>1. PlanInv => PlanFollowsKeywords
  <2> SUFFICES ASSUME PlanInv, NEW t \in Steps \ {0}
               PROVE  WriteRestartFile(config.schedule[t], BaseTimes, t) = Requested(t)
    BY DEF PlanFollowsKeywords
  <2>1. WriteRestartFile(config.schedule[t], BaseTimes, t) \in BOOLEAN
    BY DEF WriteRestartFile
  <2>2. Requested(t) \in BOOLEAN
    BY DEF Requested
  <2> QED BY <2>1, <2>2, MeansTheSame
<1> QED BY InitPlan, PlanNext, <1>1, PTL DEF Spec
=============================================================================
