------------------------ MODULE ActionLifecycleProofs ------------------------
(***************************************************************************)
(* Proofs about ActionLifecycle, for every number of report steps, names,  *)
(* limits, waits and definitions.                                          *)
(*                                                                         *)
(* A simulator counts runs by name and id, the properties by definition.   *)
(* The invariant says that the two are the same: among the definitions of  *)
(* a name, equal ids mean equal definitions, and both counts agree.        *)
(***************************************************************************)
EXTENDS ActionLifecycle, TLAPS

\* Definitions with one name and id, or with one serial number, are one.
Distinct ==
  \A t, u \in Steps, n, m \in Names :
    actions[t][n] # Null /\ actions[u][m] # Null =>
      /\ n = m /\ actions[t][n].id = actions[u][m].id => actions[t][n] = actions[u][m]
      /\ actions[t][n].serial = actions[u][m].serial => n = m /\ actions[t][n] = actions[u][m]

\* Ids are given in the order of the definitions, which are numbered.
Numbered ==
  \A t \in Steps, n \in Names : actions[t][n] # Null =>
    /\ actions[t][n].id < actions[t][n].serial
    /\ actions[t][n].serial <= defs
    /\ actions[t][n].start_time <= StartTime(t)

\* While the section is read: nothing has run, the steps to come are one
\* piece, and no earlier definition of a name has a higher id.
Reading ==
  phase = "parse" =>
    /\ now = 0
    /\ runState = [k \in Names \X Ids |-> Null]
    /\ runs = [s \in 1 .. MaxDefs |-> Null]
    /\ \A t \in Steps : t >= step => actions[t] = actions[step]
    /\ \A t \in Steps, n \in Names : actions[t][n] # Null =>
         actions[step][n] # Null /\ actions[t][n].id <= actions[step][n].id

\* The two counts of the runs of a definition.
CountsAgree ==
  \A t \in Steps, n \in Names : actions[t][n] # Null =>
    runState[<<n, actions[t][n].id>>] = runs[actions[t][n].serial]

Inv ==
  /\ TypeOK
  /\ Distinct
  /\ Numbered
  /\ Reading
  /\ CountsAgree
  /\ RunsWithinLimit
  /\ phase = "run" => StartTime(step) <= now

-----------------------------------------------------------------------------
LEMMA StartTimes ==
  ASSUME NEW t \in Steps
  PROVE  /\ StartTime(t) \in Times /\ StartTime(t + 1) \in Times
         /\ StartTime(0) = 0
         /\ \A u \in Steps : u <= t => StartTime(u) <= StartTime(t)
<1>1. NSteps \in Nat /\ StepLength \in Nat /\ t \in Nat /\ t + 1 <= NSteps
  BY NStepsAssumption, LengthAssumption DEF Steps
<1>2. ASSUME NEW a \in Nat, NEW b \in Nat, a <= b
      PROVE  a * StepLength \in Nat /\ b * StepLength \in Nat /\ a * StepLength <= b * StepLength
  <2>1. PICK d \in Nat : b = a + d
    BY <1>2
  <2>2. d * StepLength \in Nat /\ a * StepLength \in Nat
    BY <1>1
  <2>3. b * StepLength = a * StepLength + d * StepLength
    BY <1>1, <2>1
  <2> QED BY <2>2, <2>3
<1>3. StartTime(t) \in Times /\ StartTime(t + 1) \in Times
  BY <1>1, <1>2 DEF StartTime, Times
<1>4. StartTime(0) = 0
  BY <1>1 DEF StartTime
<1>5. \A u \in Steps : u <= t => StartTime(u) <= StartTime(t)
  BY <1>1, <1>2 DEF StartTime, Steps
<1> QED BY <1>3, <1>4, <1>5

\* An update of a container that holds one value from index on.
LEMMA UpdateOfUniform ==
  ASSUME NEW data, NEW index \in Steps, NEW v,
         DOMAIN data = Steps, data = [t \in Steps |-> data[t]],
         \A t \in Steps : t >= index => data[t] = data[index]
  PROVE  Update(data, index, v) = [t \in Steps |-> IF t >= index THEN v ELSE data[t]]
<1>1. CASE data[index] = v
  BY <1>1 DEF Update
<1>2. CASE data[index] # v
  BY <1>2 DEF Update
<1> QED BY <1>1, <1>2

LEMMA InitInv == Init => Inv
<1> SUFFICES ASSUME Init PROVE Inv
  OBVIOUS
<1>1. 0 \in Steps /\ DOMAIN actions = Steps /\ 0 \in Times
  BY NStepsAssumption, StartTimes DEF Init, Filled, Steps
<1>2. \A t \in Steps : actions[t] = [n \in Names |-> Null]
  BY DEF Init, Filled, Steps
<1>3. TypeOK
  <2>1. actions = [t \in Steps |-> [n \in Names |-> Null]]
    BY DEF Init, Filled, Steps
  <2> QED BY <1>1, <2>1, MaxDefsAssumption DEF Init, TypeOK
<1>4. Distinct /\ Numbered /\ CountsAgree /\ RunsWithinLimit
  BY <1>2 DEF Distinct, Numbered, CountsAgree, RunsWithinLimit
<1>5. Reading
  BY <1>1, <1>2 DEF Init, Reading
<1> QED BY <1>3, <1>4, <1>5 DEF Inv, Init

-----------------------------------------------------------------------------
\* What OneMore() makes of an entry.
LEMMA OneMoreType ==
  ASSUME NEW state \in RunState \cup {Null}, now \in Times
  PROVE  /\ OneMore(state) \in RunState
         /\ OneMore(state) # Null
         /\ OneMore(state).run_count = (IF state = Null THEN 1 ELSE state.run_count + 1)
<1>1. CASE state = Null
  BY <1>1, NullAssumption DEF OneMore, RunState
<1>2. CASE state # Null
  <2>1. state.run_count + 1 \in Nat \ {0}
    BY <1>2 DEF RunState
  <2> QED BY <1>2, <2>1, NullAssumption DEF OneMore, RunState
<1> QED BY <1>1, <1>2

\* ACTIONX puts one new definition, with an id of its own, from the current
\* step on.
LEMMA ActionxAdds ==
  ASSUME Inv, NEW n \in Names, NEW num \in Limits, NEW wait \in Waits, Actionx(n, num, wait)
  PROVE  \E a \in ActionX :
           /\ actions' = [t \in Steps |-> [m \in Names |->
                IF t >= step /\ m = n THEN a ELSE actions[t][m]]]
           /\ a.serial = defs + 1
           /\ a.id < a.serial
           /\ actions[step][n] # Null => a.id > actions[step][n].id
           /\ a.start_time = StartTime(step)
<1> DEFINE old == actions[step][n]
           new == [id |-> 0, max_run |-> num, min_wait |-> wait,
                   start_time |-> StartTime(step), serial |-> defs + 1]
           a == IF old = Null THEN new ELSE [new EXCEPT !.id = old.id + 1]
<1>1. /\ step \in Steps /\ defs \in Nat /\ defs < MaxDefs /\ phase = "parse"
      /\ actions \in [Steps -> [Names -> ActionX \cup {Null}]]
      /\ defs + 1 \in 1 .. MaxDefs /\ 0 \in Ids /\ StartTime(step) \in Times
  BY MaxDefsAssumption, StartTimes DEF Inv, TypeOK, Actionx, Ids
<1>2. new \in ActionX
  BY <1>1, LimitsAssumption DEF ActionX
<1>3. ASSUME old # Null
      PROVE  old.id \in Nat /\ old.id + 1 \in Ids /\ old.id + 1 < defs + 1
  <2>1. old \in ActionX /\ old.id < old.serial /\ old.serial <= defs
    BY <1>1, <1>3 DEF Inv, Numbered
  <2> QED BY <1>1, <2>1, MaxDefsAssumption DEF ActionX, Ids
<1>4. /\ a \in ActionX /\ a.serial = defs + 1 /\ a.id < a.serial
      /\ old # Null => a.id > old.id
      /\ a.start_time = StartTime(step)
  <2>1. CASE old = Null
    BY <1>1, <1>2, <2>1
  <2>2. CASE old # Null
    <3>1. a = [id |-> old.id + 1, max_run |-> num, min_wait |-> wait,
               start_time |-> StartTime(step), serial |-> defs + 1]
      BY <2>2
    <3> HIDE DEF a, old
    <3> QED BY <1>1, <1>3, <2>2, <3>1, LimitsAssumption DEF ActionX
  <2> QED BY <2>1, <2>2
<1>5. Add(actions[step], n, new) = [m \in Names |-> IF m = n THEN a ELSE actions[step][m]]
  BY <1>1 DEF Add
<1>6. \A t \in Steps : t >= step => actions[t] = actions[step]
  BY <1>1 DEF Inv, Reading
<1>7. actions' = Update(actions, step, Add(actions[step], n, new))
  BY DEF Actionx
<1>8. actions' = [t \in Steps |-> IF t >= step THEN Add(actions[step], n, new) ELSE actions[t]]
  <2>1. DOMAIN actions = Steps /\ actions = [t \in Steps |-> actions[t]]
    BY <1>1
  <2> HIDE DEF new
  <2> QED BY <1>1, <1>6, <1>7, <2>1, UpdateOfUniform
<1>9. actions' = [t \in Steps |-> [m \in Names |->
                   IF t >= step /\ m = n THEN a ELSE actions[t][m]]]
  <2> HIDE DEF a, new
  <2>1. ASSUME NEW t \in Steps
        PROVE  (IF t >= step THEN Add(actions[step], n, new) ELSE actions[t])
               = [m \in Names |-> IF t >= step /\ m = n THEN a ELSE actions[t][m]]
    <3>1. CASE t >= step
      BY <1>5, <1>6, <3>1
    <3>2. CASE ~(t >= step)
      BY <1>1, <3>2
    <3> QED BY <3>1, <3>2
  <2> QED BY <1>8, <2>1
<1> HIDE DEF a
<1> QED BY <1>4, <1>9

LEMMA ActionxInv ==
  ASSUME Inv, NEW n \in Names, NEW num \in Limits, NEW wait \in Waits, Actionx(n, num, wait)
  PROVE  Inv'
<1>1. PICK a \in ActionX :
        /\ actions' = [t \in Steps |-> [m \in Names |->
             IF t >= step /\ m = n THEN a ELSE actions[t][m]]]
        /\ a.serial = defs + 1
        /\ a.id < a.serial
        /\ actions[step][n] # Null => a.id > actions[step][n].id
        /\ a.start_time = StartTime(step)
  BY ActionxAdds
<1>2. /\ phase = "parse" /\ defs' = defs + 1 /\ defs < MaxDefs
      /\ UNCHANGED <<phase, step, now, runState, runs>>
  BY DEF Actionx
<1>3. TypeOK /\ Distinct /\ Numbered /\ Reading
  BY DEF Inv
<1>4. \A t \in Steps, m \in Names :
        actions'[t][m] = IF t >= step /\ m = n THEN a ELSE actions[t][m]
  BY <1>1
<1>5. \A t \in Steps, m \in Names : actions[t][m] # Null =>
        /\ actions[t][m] \in ActionX /\ actions[t][m].serial <= defs
        /\ m = n => actions[t][m].id < a.id
  <2> SUFFICES ASSUME NEW t \in Steps, NEW m \in Names, actions[t][m] # Null
               PROVE  /\ actions[t][m] \in ActionX /\ actions[t][m].serial <= defs
                      /\ m = n => actions[t][m].id < a.id
    OBVIOUS
  <2>1. actions[t][m] \in ActionX /\ step \in Steps /\ actions[step][m] \in ActionX \cup {Null}
    BY <1>3 DEF TypeOK
  <2>2. actions[step][m] # Null /\ actions[t][m].id <= actions[step][m].id
    BY <1>2, <1>3 DEF Reading
  <2>3. actions[t][m].serial <= defs
    BY <1>3 DEF Numbered
  <2>4. actions[t][m].id \in Int /\ actions[step][m].id \in Int /\ a.id \in Int
    BY <2>1, <2>2 DEF ActionX, Ids
  <2> QED BY <1>1, <2>1, <2>2, <2>3, <2>4
<1>6. TypeOK'
  <2>1. defs' \in 0 .. MaxDefs
    BY <1>2, <1>3, MaxDefsAssumption DEF TypeOK
  <2>2. actions' \in [Steps -> [Names -> ActionX \cup {Null}]]
    BY <1>1, <1>3 DEF TypeOK
  <2> QED BY <1>2, <1>3, <2>1, <2>2 DEF TypeOK
<1>7. defs \in Int /\ \A b \in ActionX : b.serial \in Int /\ b.id \in Int
  BY <1>3 DEF TypeOK, ActionX, Ids
<1>8. Distinct'
  <2> SUFFICES ASSUME NEW t \in Steps, NEW u \in Steps, NEW m \in Names, NEW k \in Names,
                      actions'[t][m] # Null, actions'[u][k] # Null
               PROVE  /\ m = k /\ actions'[t][m].id = actions'[u][k].id
                           => actions'[t][m] = actions'[u][k]
                      /\ actions'[t][m].serial = actions'[u][k].serial
                           => m = k /\ actions'[t][m] = actions'[u][k]
    BY DEF Distinct
  <2>1. CASE (t >= step /\ m = n) /\ (u >= step /\ k = n)
    BY <1>4, <2>1
  <2>2. CASE (t >= step /\ m = n) /\ ~(u >= step /\ k = n)
    BY <1>1, <1>4, <1>5, <1>7, <2>2
  <2>3. CASE ~(t >= step /\ m = n) /\ (u >= step /\ k = n)
    BY <1>1, <1>4, <1>5, <1>7, <2>3
  <2>4. CASE ~(t >= step /\ m = n) /\ ~(u >= step /\ k = n)
    BY <1>3, <1>4, <2>4 DEF Distinct
  <2> QED BY <2>1, <2>2, <2>3, <2>4
<1>9. Numbered'
  <2> SUFFICES ASSUME NEW t \in Steps, NEW m \in Names, actions'[t][m] # Null
               PROVE  /\ actions'[t][m].id < actions'[t][m].serial
                      /\ actions'[t][m].serial <= defs + 1
                      /\ actions'[t][m].start_time <= StartTime(t)
    BY <1>2 DEF Numbered, StartTime
  <2>1. CASE t >= step /\ m = n
    <3>1. step \in Steps /\ step <= t
      BY <1>3, <2>1 DEF TypeOK, Steps
    <3>2. StartTime(step) <= StartTime(t)
      BY <3>1, StartTimes
    <3> QED BY <1>1, <1>4, <1>7, <2>1, <3>2
  <2>2. CASE ~(t >= step /\ m = n)
    BY <1>3, <1>4, <1>5, <1>7, <2>2 DEF Numbered
  <2> QED BY <2>1, <2>2
<1>10. Reading'
  <2>1. /\ now = 0 /\ runState = [k \in Names \X Ids |-> Null]
        /\ runs = [s \in 1 .. MaxDefs |-> Null] /\ step \in Steps
    BY <1>2, <1>3 DEF Reading, TypeOK
  <2>2. ASSUME NEW t \in Steps, t >= step PROVE actions'[t] = actions'[step]
    <3>1. actions[t] = actions[step] /\ step >= step
      BY <1>2, <1>3, <2>1, <2>2 DEF Reading, Steps
    <3> QED BY <1>1, <2>1, <2>2, <3>1
  <2>3. ASSUME NEW t \in Steps, NEW m \in Names, actions'[t][m] # Null
        PROVE  actions'[step][m] # Null /\ actions'[t][m].id <= actions'[step][m].id
    <3>1. CASE m = n
      <4>1. actions'[step][n] = a /\ a # Null
        BY <1>4, <2>1, NullAssumption DEF Steps
      <4>2. actions'[t][n] = a \/ (actions[t][n] # Null /\ actions'[t][n] = actions[t][n])
        BY <1>4, <2>3, <3>1
      <4> QED BY <1>5, <1>7, <3>1, <4>1, <4>2
    <3>2. CASE m # n
      BY <1>2, <1>3, <1>4, <2>1, <2>3, <3>2 DEF Reading
    <3> QED BY <3>1, <3>2
  <2> QED BY <1>2, <2>1, <2>2, <2>3 DEF Reading
<1>11. CountsAgree' /\ RunsWithinLimit'
  <2>1. ASSUME NEW t \in Steps, NEW m \in Names, actions'[t][m] # Null
        PROVE  /\ runState'[<<m, actions'[t][m].id>>] = Null
               /\ runs'[actions'[t][m].serial] = Null
    <3>1. actions'[t][m] \in ActionX
      BY <1>6, <2>1 DEF TypeOK
    <3>2. runState' = [k \in Names \X Ids |-> Null] /\ runs' = [s \in 1 .. MaxDefs |-> Null]
      BY <1>2, <1>3 DEF Reading
    <3> QED BY <3>1, <3>2 DEF ActionX
  <2> QED BY <2>1 DEF CountsAgree, RunsWithinLimit
<1> QED BY <1>2, <1>6, <1>8, <1>9, <1>10, <1>11 DEF Inv

-----------------------------------------------------------------------------
\* The steps in which no definition is given and none runs.
LEMMA ClockInv ==
  ASSUME Inv, EndReportStep \/ EndSection \/ TimeStep \/ NextReportStep \/ UNCHANGED vars
  PROVE  Inv'
<1>1. UNCHANGED <<actions, runState, defs, runs>>
  BY DEF EndReportStep, EndSection, TimeStep, NextReportStep, vars
<1>2. Distinct' /\ Numbered' /\ CountsAgree' /\ RunsWithinLimit'
  BY <1>1 DEF Inv, Distinct, Numbered, CountsAgree, RunsWithinLimit, StartTime
<1>3. ASSUME phase' \in {"parse", "run"}, step' \in Steps, now' \in Times,
             phase' = "run" => StartTime(step') <= now', Reading'
      PROVE  Inv'
  BY <1>1, <1>2, <1>3 DEF Inv, TypeOK, StartTime
<1>4. TypeOK /\ step \in Steps /\ 0 \in Steps /\ Reading
  BY NStepsAssumption DEF Inv, TypeOK, Steps
<1>5. CASE EndReportStep
  <2>1. phase = "parse" /\ phase' = phase /\ now' = now /\ step' = step + 1 /\ step + 1 \in Steps
    BY <1>5 DEF EndReportStep
  <2>2. actions[step + 1] = actions[step] /\ \A t \in Steps : t >= step + 1 => t >= step
    BY <1>4, <2>1 DEF Reading, Steps
  <2>3. Reading'
    BY <1>1, <1>4, <2>1, <2>2 DEF Reading
  <2> QED BY <1>3, <1>4, <2>1, <2>3 DEF TypeOK
<1>6. CASE EndSection
  <2>1. phase = "parse" /\ phase' = "run" /\ now' = now /\ step' = 0
    BY <1>6 DEF EndSection
  <2>2. now = 0 /\ StartTime(0) = 0
    BY <1>4, <2>1, StartTimes DEF Reading
  <2> QED BY <1>3, <1>4, <2>1, <2>2 DEF TypeOK, Reading, StartTime
<1>7. CASE TimeStep
  <2>1. phase = "run" /\ phase' = phase /\ now < StartTime(step + 1) /\ now' = now + 1 /\ step' = step
    BY <1>7 DEF TimeStep
  <2>2. StartTime(step + 1) \in Times /\ now \in Times /\ StartTime(step) \in Times
    BY <1>4, StartTimes DEF TypeOK
  <2>3. StartTime(step) <= now /\ NSteps * StepLength \in Nat
    BY <2>1, NStepsAssumption, LengthAssumption DEF Inv
  <2>4. now + 1 \in Times /\ StartTime(step) <= now + 1
    BY <2>1, <2>2, <2>3 DEF Times
  <2> QED BY <1>3, <1>4, <2>1, <2>4 DEF Reading
<1>8. CASE NextReportStep
  <2>1. phase = "run" /\ phase' = phase /\ now = StartTime(step + 1) /\ now' = now /\ step' = step + 1
    BY <1>8 DEF NextReportStep
  <2>2. step + 1 \in Steps /\ now \in Times /\ now <= now
    BY <1>4, <1>8, NStepsAssumption DEF NextReportStep, Steps, TypeOK, Times
  <2> QED BY <1>3, <1>4, <2>1, <2>2 DEF Reading
<1>9. CASE UNCHANGED vars
  BY <1>3, <1>4, <1>9 DEF vars, TypeOK, Reading, Inv, StartTime
<1> QED BY <1>5, <1>6, <1>7, <1>8, <1>9

LEMMA LimitType == \A a \in ActionX : a.max_run \in Nat /\ a.min_wait \in Nat
BY LimitsAssumption DEF ActionX

\* Both ways of counting note the runs of the same definitions.
LEMMA RunsCounted ==
  ASSUME Inv, NEW R \in SUBSET Names, EvaluateActions(R),
         NEW t \in Steps, NEW n \in Names, actions[t][n] # Null,
         NEW a, a = actions[t][n]
  PROVE  /\ n \in R /\ actions[step][n] = a =>
              /\ runState'[<<n, a.id>>] = OneMore(runState[<<n, a.id>>])
              /\ runs'[a.serial] = OneMore(runs[a.serial])
         /\ ~(n \in R /\ actions[step][n] = a) =>
              /\ runState'[<<n, a.id>>] = runState[<<n, a.id>>]
              /\ runs'[a.serial] = runs[a.serial]
<1> DEFINE ran == n \in R /\ actions[step][n] = a
<1>1. /\ step \in Steps /\ a \in ActionX /\ Distinct
      /\ \A m \in R : m \in Names /\ actions[step][m] # Null
  BY DEF Inv, TypeOK, EvaluateActions, Pending
<1>2. a.id \in Ids /\ a.serial \in 1 .. MaxDefs
  BY <1>1 DEF ActionX
<1>3. (n \in R /\ actions[step][n].id = a.id) <=> ran
  BY <1>1 DEF Distinct
<1>4. (\E m \in R : actions[step][m].serial = a.serial) <=> ran
  BY <1>1 DEF Distinct
<1>5. runState'[<<n, a.id>>] = IF n \in R /\ actions[step][n].id = a.id
                               THEN OneMore(runState[<<n, a.id>>]) ELSE runState[<<n, a.id>>]
  BY <1>2 DEF EvaluateActions, AddRuns
<1>6. runs'[a.serial] = IF \E m \in R : actions[step][m].serial = a.serial
                        THEN OneMore(runs[a.serial]) ELSE runs[a.serial]
  BY <1>2 DEF EvaluateActions
<1> QED BY <1>3, <1>4, <1>5, <1>6

LEMMA EvaluateActionsInv ==
  ASSUME Inv, NEW R \in SUBSET Names, EvaluateActions(R)
  PROVE  Inv'
<1>1. /\ TypeOK /\ phase = "run" /\ step \in Steps /\ now \in Times
      /\ UNCHANGED <<phase, step, now, actions, defs>>
  BY DEF Inv, TypeOK, EvaluateActions
<1>2. Distinct' /\ Numbered' /\ Reading' /\ (StartTime(step) <= now)'
  BY <1>1 DEF Inv, Distinct, Numbered, Reading, StartTime
<1>3. TypeOK'
  <2>1. \A k \in Names \X Ids : OneMore(runState[k]) \in RunState
    BY <1>1, OneMoreType DEF TypeOK
  <2>2. runState' \in [Names \X Ids -> RunState \cup {Null}]
    BY <1>1, <2>1 DEF EvaluateActions, AddRuns, TypeOK
  <2>3. \A s \in 1 .. MaxDefs : OneMore(runs[s]) \in RunState
    BY <1>1, OneMoreType DEF TypeOK
  <2>4. runs' \in [1 .. MaxDefs -> RunState \cup {Null}]
    BY <1>1, <2>3 DEF EvaluateActions, TypeOK
  <2> QED BY <1>1, <2>2, <2>4 DEF TypeOK
<1>4. CountsAgree'
  <2> SUFFICES ASSUME NEW t \in Steps, NEW n \in Names, actions[t][n] # Null
               PROVE  runState'[<<n, actions[t][n].id>>] = runs'[actions[t][n].serial]
    BY <1>1 DEF CountsAgree
  <2>1. runState[<<n, actions[t][n].id>>] = runs[actions[t][n].serial]
    BY DEF Inv, CountsAgree
  <2> QED BY <2>1, RunsCounted
<1>5. RunsWithinLimit'
  <2> SUFFICES ASSUME NEW t \in Steps, NEW n \in Names, actions[t][n] # Null,
                      runs'[actions[t][n].serial] # Null
               PROVE  runs'[actions[t][n].serial].run_count <= actions[t][n].max_run
    BY <1>1 DEF RunsWithinLimit
  <2>1. PICK a \in ActionX : a = actions[t][n]
    BY <1>1 DEF TypeOK
  <2> DEFINE own == runs[a.serial]
  <2>2. /\ own \in RunState \cup {Null}
        /\ runState[<<n, a.id>>] = own
        /\ own # Null => own.run_count <= a.max_run
    BY <1>1, <2>1 DEF Inv, TypeOK, CountsAgree, RunsWithinLimit, ActionX
  <2> DEFINE ran == n \in R /\ actions[step][n] = a
  <2>3. runs'[a.serial] = IF ran THEN OneMore(own) ELSE own
    <3>1. actions[t][n] # Null /\ a = actions[t][n] /\ Inv /\ EvaluateActions(R)
      BY <2>1
    <3> HIDE DEF own, ran
    <3>2. /\ n \in R /\ actions[step][n] = a =>
               /\ runState'[<<n, a.id>>] = OneMore(runState[<<n, a.id>>])
               /\ runs'[a.serial] = OneMore(runs[a.serial])
          /\ ~(n \in R /\ actions[step][n] = a) =>
            /\ runState'[<<n, a.id>>] = runState[<<n, a.id>>]
            /\ runs'[a.serial] = runs[a.serial]
      BY <3>1, RunsCounted
    <3> QED BY <3>2 DEF own, ran
  <2>4. CASE ran
    <3>1. Ready(n, a)
      BY <2>4 DEF EvaluateActions, Pending
    <3>2. (IF own = Null THEN 0 ELSE own.run_count) < a.max_run
      BY <2>2, <3>1 DEF Ready, RunCount
    <3>3. runs'[a.serial] = OneMore(own)
      BY <2>3, <2>4
    <3>4. OneMore(own).run_count = (IF own = Null THEN 1 ELSE own.run_count + 1)
      <4>1. own \in RunState \cup {Null} /\ now \in Times
        BY <1>1, <2>2 DEF TypeOK
      <4> HIDE DEF own
      <4> QED BY <4>1, OneMoreType
    <3> HIDE DEF own
    <3>5. a.max_run \in Int /\ (own # Null => own.run_count \in Int)
      BY <2>2, LimitType DEF RunState
    <3>6. OneMore(own).run_count <= a.max_run
      BY <3>2, <3>4, <3>5
    <3> QED BY <2>1, <3>3, <3>6
  <2>5. CASE ~ran
    BY <2>1, <2>2, <2>3, <2>5
  <2> QED BY <2>4, <2>5
<1> QED BY <1>1, <1>2, <1>3, <1>4, <1>5 DEF Inv

LEMMA NextInv == Inv /\ [Next]_vars => Inv'
<1> SUFFICES ASSUME Inv, [Next]_vars PROVE Inv'
  OBVIOUS
<1>1. CASE \E n \in Names, num \in Limits, wait \in Waits : Actionx(n, num, wait)
  BY <1>1, ActionxInv
<1>2. CASE \E R \in SUBSET Names : EvaluateActions(R)
  BY <1>2, EvaluateActionsInv
<1>3. CASE EndReportStep \/ EndSection \/ TimeStep \/ NextReportStep \/ UNCHANGED vars
  BY <1>3, ClockInv
<1> QED BY <1>1, <1>2, <1>3 DEF Next

LEMMA InvHolds == Spec => []Inv
BY InitInv, NextInv, PTL DEF Spec

\* Steps, ids, times and counters stay in their ranges, whatever the section.
THEOREM TypeCorrect == Spec => []TypeOK
<1>1. Inv => TypeOK
  BY DEF Inv
<1> QED BY <1>1, InvHolds, PTL

\* No definition of any section runs more often than its NUM allows, however
\* often its name is given anew.
THEOREM WithinLimit == Spec => []RunsWithinLimit
<1>1. Inv => RunsWithinLimit
  BY DEF Inv
<1> QED BY <1>1, InvHolds, PTL

-----------------------------------------------------------------------------
\* A definition in force in the simulation is ready if its own runs let it.
LEMMA ReadyIsMayRun ==
  ASSUME Inv, phase = "run", NEW n \in Names, actions[step][n] # Null
  PROVE  Ready(n, actions[step][n]) <=> MayRun(actions[step][n])
<1> DEFINE a == actions[step][n]
           own == runs[a.serial]
<1>1. step \in Steps /\ now \in Int /\ StartTime(step) \in Int
  BY StartTimes DEF Inv, TypeOK, Times
<1>2. a \in ActionX /\ own \in RunState \cup {Null} /\ runState[<<n, a.id>>] = own
  BY <1>1 DEF Inv, TypeOK, CountsAgree, ActionX
<1>3. a.start_time <= now
  <2>1. a.start_time <= StartTime(step) /\ StartTime(step) <= now /\ a.start_time \in Int
    BY <1>1, <1>2 DEF Inv, Numbered, ActionX, Times
  <2> QED BY <1>1, <2>1
<1>4. /\ a.max_run \in Int /\ a.min_wait \in Int
      /\ a.start_time \in Int
      /\ own # Null => own.run_count \in Int /\ own.run_count > 0 /\ own.last_run \in Int
  BY <1>2, LimitsAssumption DEF ActionX, RunState, Times
<1>5. Ready(n, a) <=>
        /\ (IF own = Null THEN 0 ELSE own.run_count) < a.max_run
        /\ \/ (IF own = Null THEN 0 ELSE own.run_count) = 0
           \/ a.min_wait <= 0
           \/ now - own.last_run > a.min_wait
  BY <1>1, <1>2, <1>3, <1>4 DEF Ready, RunCount
<1>6. MayRun(a) <=> \/ own = Null /\ a.max_run > 0
                    \/ /\ own # Null
                       /\ own.run_count < a.max_run
                       /\ a.min_wait > 0 => now - own.last_run > a.min_wait
  BY DEF MayRun
<1> HIDE DEF a, own
<1>7. Ready(n, a) <=> MayRun(a)
  BY <1>1, <1>4, <1>5, <1>6
<1> QED BY <1>7 DEF a

\* What the simulator finds pending is decided by the runs of the definitions
\* in force alone, although it counts by names and ids.
THEOREM OwnRuns == Spec => []PendingByOwnRuns
<1>1. Inv => PendingByOwnRuns
  BY ReadyIsMayRun DEF PendingByOwnRuns, Pending
<1> QED BY <1>1, InvHolds, PTL

-----------------------------------------------------------------------------
\* The step the reader has come to, as the abstract specification sees it.
Now == IF phase = "parse" THEN step ELSE NSteps - 1

LEMMA PromiseInit == Init => Promise!Init
BY DEF Init, Promise!Init, Promise!Steps, Steps, Filled

\* A step either sets a value from now to the end or moves the reader on.
LEMMA WriteStep ==
  ASSUME Inv, phase = "parse", Inv', Now' \in Steps, Now' >= step,
         \A t \in Steps : t < step => actions'[t] = actions[t],
         \A t \in Steps : t >= step => actions'[t] = actions'[step]
  PROVE  Promise!Write
<1>1. step \in Steps /\ step \in Int /\ DOMAIN actions' = Steps
  BY DEF Inv, TypeOK, Steps
<1>2. Promise!Steps = Steps
  BY DEF Promise!Steps, Steps
<1> QED BY <1>1, <1>2 DEF Promise!Write, Now

LEMMA PromiseStep == Inv /\ Inv' /\ [Next]_vars => [Promise!Write]_<<Now, actions>>
<1> SUFFICES ASSUME Inv, Inv', [Next]_vars PROVE [Promise!Write]_<<Now, actions>>
  OBVIOUS
<1>1. step \in Steps /\ step \in Int /\ Steps \subseteq Int
  BY DEF Inv, TypeOK, Steps
<1>2. CASE \E n \in Names, num \in Limits, wait \in Waits : Actionx(n, num, wait)
  <2>1. PICK n \in Names, num \in Limits, wait \in Waits : Actionx(n, num, wait)
    BY <1>2
  <2>2. phase = "parse" /\ phase' = phase /\ step' = step
    BY <2>1 DEF Actionx
  <2>3. \A t \in Steps : t < step => actions'[t] = actions[t]
    <3>1. PICK a \in ActionX :
            actions' = [t \in Steps |-> [m \in Names |->
              IF t >= step /\ m = n THEN a ELSE actions[t][m]]]
      BY <2>1, ActionxAdds
    <3>2. actions \in [Steps -> [Names -> ActionX \cup {Null}]]
      BY DEF Inv, TypeOK
    <3>3. ASSUME NEW t \in Steps, t < step PROVE actions'[t] = [m \in Names |-> actions[t][m]]
      BY <1>1, <3>1, <3>3
    <3> QED BY <3>2, <3>3
  <2>4. \A t \in Steps : t >= step => actions'[t] = actions'[step]
    BY <2>2 DEF Inv, Reading
  <2> QED BY <1>1, <2>2, <2>3, <2>4, WriteStep DEF Now
<1>3. CASE EndReportStep \/ EndSection
  <2>1. /\ phase = "parse" /\ actions' = actions
        /\ Now' \in Steps /\ Now' >= step
    BY <1>1, <1>3, NStepsAssumption DEF EndReportStep, EndSection, Now, Steps
  <2>2. \A t \in Steps : t >= step => actions'[t] = actions'[step]
    BY <2>1 DEF Inv, Reading
  <2> QED BY <2>1, <2>2, WriteStep
<1>4. CASE (\E R \in SUBSET Names : EvaluateActions(R)) \/ TimeStep \/ NextReportStep \/ UNCHANGED vars
  BY <1>4 DEF EvaluateActions, TimeStep, NextReportStep, vars, Now
<1> QED BY <1>2, <1>3, <1>4 DEF Next

\* Reading the definitions of a section keeps the promise of DynamicState: a
\* definition given anew applies from its report step on and not before.
THEOREM ActionsImplementTimeline == Spec => LastDefinitionApplies
<1>1. Now = IF phase = "parse" THEN step ELSE NSteps - 1
  BY DEF Now
<1> QED BY PromiseInit, PromiseStep, InvHolds, PTL
        DEF Spec, LastDefinitionApplies, Promise!Spec, Now
=============================================================================
