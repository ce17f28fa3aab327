-------------------------- MODULE UdqTimelineProofs --------------------------
(***************************************************************************)
(* Proofs about UdqTimeline, for any number of report steps, units and     *)
(* statements: a statement is carried out once, the statement of an action *)
(* reaches every later configuration, and the value is that of the         *)
(* statement in force.                                                     *)
(*                                                                         *)
(* The code does not count what it has carried out; it compares the report *)
(* step of the record with that of the last evaluation.  That is a count   *)
(* because a number has one step in all the configurations that hold it,   *)
(* and because no configuration holds a record of a later step.  That what *)
(* has been carried out is the statement in force needs more: the record   *)
(* that decides at a step has decided at all steps since its own.          *)
(***************************************************************************)
EXTENDS UdqTimeline, TLAPS

\* The statements of the configurations are among those given.
Numbered ==
  \A t \in Steps :
    /\ config[t].assign.no \in 0 .. count \cup {Implied}
    /\ config[t].define.by \in 0 .. count

\* No configuration holds a record of a later report step.
InTime ==
  \A t \in Steps : config[t].assign.step <= t /\ config[t].define.step <= t

\* A number is that of one record.
OneRecord ==
  \A t, u \in Steps :
    /\ config[t].assign.no = config[u].assign.no => config[t].assign = config[u].assign
    /\ config[t].define.by = config[u].define.by =>
         config[t].define.step = config[u].define.step
    /\ config[t].assign.no # 0 => config[t].assign.no # config[u].define.by

\* The assignment that a unit implies, and what is no statement.
Fixed ==
  \A t \in Steps :
    /\ config[t].assign.no \in {0, Implied} => config[t].assign.step = 0
    /\ config[t].define.by = 0 <=> config[t].define.no = 0

\* The state knows no step that is still to come, and before the simulation none.
StateInTime ==
  /\ state.assigned # Null => phase # "parse" /\ state.assigned <= step
  /\ state.defined # Null => phase # "parse" /\ state.defined <= step

\* What has been carried out is known by the step of the last evaluation.
AssignedOnce ==
  \A t \in Steps : kind = "FIELD" /\ times[config[t].assign.no] > 0 =>
    /\ state.assigned # Null
    /\ config[t].assign.step <= state.assigned
    /\ times[config[t].assign.no] <= 1

UpdatedOnce ==
  \A t \in Steps : config[t].define.status = "NEXT" /\ times[config[t].define.by] > 0 =>
    /\ state.defined # Null
    /\ config[t].define.step <= state.defined
    /\ times[config[t].define.by] <= 1

\* Nothing else has been carried out; the assignment that a unit implies may
\* come again with a unit, but finds that the state has been assigned.
Fresh ==
  /\ times[0] = 0
  /\ \A no \in Numbers : no > count /\ no # Implied => times[no] = 0
  /\ times[Implied] > 0 => state.assigned # Null
  /\ kind = "FIELD" => times[Implied] <= 1

Counted == AssignedOnce /\ UpdatedOnce /\ Fresh

\* What follows holds as long as nothing has thrown.  What is known at a step is known later.
KnownOn ==
  \A u, t \in Steps : u <= t /\ HasKeyword(config[u]) => HasKeyword(config[t])

\* A record that decides at a step decides at all steps since its own, but for
\* the assignment that a unit implies, which is from step 0 wherever the unit
\* is named.
DefinedSince ==
  \A u, t \in Steps : config[t].define.step <= u /\ u <= t =>
    /\ config[u].define.by = config[t].define.by
    /\ config[u].define.status = config[t].define.status

AssignedSince ==
  \A u, t \in Steps : config[t].action = "ASSIGN" /\ config[t].assign.step <= u /\ u <= t =>
    \/ config[u].action = "ASSIGN" /\ config[u].assign = config[t].assign
    \/ config[t].assign.no = Implied /\ ~HasKeyword(config[u])

\* Only a known quantity has been assigned.
AssignedKnown == state.assigned # Null => HasKeyword(config[step])

\* What the comparisons take for assigned is the value, or the statement of an
\* action that came too late; the same for an UPDATE NEXT.
ValueAssigned ==
  \A t \in Steps : t >= step /\ config[t].action = "ASSIGN" /\ state.assigned # Null =>
    /\ kind = "FIELD" /\ config[t].assign.step <= state.assigned
         => state.value = config[t].assign.no \/ config[t].assign.no \in late
    /\ kind = "WELL" /\ t = step /\ state.assigned = step
         => \/ state.value = config[t].assign.no
            \/ config[t].assign.no \in late /\ config[t].assign.step = step

NextDone ==
  \A t \in Steps :
    t >= step /\ config[t].define.status = "NEXT" /\ state.defined # Null
      /\ config[t].define.step <= state.defined
      => times[config[t].define.by] >= 1 \/ config[t].define.by \in late

\* Where the value comes from.
Traced ==
  phase # "failed" =>
    KnownOn /\ DefinedSince /\ AssignedSince /\ AssignedKnown /\ ValueAssigned /\ NextDone

Inv == TypeOK /\ Numbered /\ InTime /\ OneRecord /\ Fixed /\ StateInTime /\ Counted

-----------------------------------------------------------------------------
\* What add_record() makes of a configuration.
Taken(c, d, rec, no, t) ==
  /\ d \in UDQConfig
  /\ d.action = "ASSIGN" => d.assign.no # 0
  /\ d.action = "DEFINE" => d.define.no # 0
  /\ d.define.by = 0 <=> d.define.no = 0
  /\ HasKeyword(d)
  /\ \/ /\ rec = "ASSIGN" /\ d.action = "ASSIGN"
        /\ d.assign = [no |-> no, step |-> t] /\ d.define = c.define
     \/ /\ rec = "DEFINE" /\ d.action = "DEFINE" /\ d.define.status = "ON"
        /\ d.assign = c.assign /\ d.define.by = no /\ d.define.step = t
     \/ /\ rec \in Updates /\ HasKeyword(c) /\ d.action = c.action /\ d.define.status = rec
        /\ d.assign = c.assign /\ d.define.by = no /\ d.define.step = t
     \/ /\ rec \in Units /\ d.unit = rec /\ d.define = c.define
        /\ HasKeyword(c) /\ d.assign = c.assign /\ d.action = c.action
     \/ /\ rec \in Units /\ d.unit = rec /\ d.define = c.define
        /\ ~HasKeyword(c) /\ d.assign = [no |-> Implied, step |-> 0] /\ d.action = "ASSIGN"

LEMMA AddRecordFacts ==
  ASSUME NEW c \in UDQConfig, NEW rec \in Records, NEW no \in Numbers, no # 0,
         NEW t \in Steps, NEW id \in Numbers,
         c.action = "ASSIGN" => c.assign.no # 0,
         c.action = "DEFINE" => c.define.no # 0,
         c.define.by = 0 <=> c.define.no = 0,
         AddRecord(c, rec, no, t) # Null
  PROVE  /\ Taken(c, AddRecord(c, rec, no, t), rec, no, t)
         /\ Taken(c, [AddRecord(c, rec, no, t) EXCEPT !.id = id], rec, no, t)
<1>1. ASSUME NEW d \in UDQConfig, Taken(c, d, rec, no, t)
      PROVE  Taken(c, [d EXCEPT !.id = id], rec, no, t)
  BY <1>1 DEF Taken, UDQConfig, HasKeyword
<1>2. 0 \in Steps /\ Implied \in Numbers /\ Implied # 0
  BY NStepsAssumption, MaxStatementsAssumption DEF Steps, Numbers, Implied
<1>3. CASE rec = "ASSIGN"
  <2>1. AddRecord(c, rec, no, t) = AddAssign(c, no, t)
    BY <1>3, UnitsAssumption DEF AddRecord, Updates
  <2>2. Taken(c, AddAssign(c, no, t), rec, no, t)
    BY <1>3 DEF Taken, AddAssign, UDQConfig, UDQAssign, UDQDefine, HasKeyword
  <2> QED BY <1>1, <2>1, <2>2 DEF Taken
<1>4. CASE rec = "DEFINE"
  <2>1. AddRecord(c, rec, no, t) = AddDefine(c, no, t)
    BY <1>4, UnitsAssumption DEF AddRecord, Updates
  <2>2. Taken(c, AddDefine(c, no, t), rec, no, t)
    BY <1>4 DEF Taken, AddDefine, UDQConfig, UDQAssign, UDQDefine, Updates, HasKeyword
  <2> QED BY <1>1, <2>1, <2>2 DEF Taken
<1>5. CASE rec \in Updates
  <2>1. AddRecord(c, rec, no, t) = AddUpdate(c, no, t, rec)
    BY <1>5, UnitsAssumption DEF AddRecord, Updates
  <2>2. c.define.no # 0
    BY <2>1 DEF AddUpdate
  <2>3. Taken(c, AddUpdate(c, no, t, rec), rec, no, t)
    BY <1>5, <2>2 DEF Taken, AddUpdate, UDQConfig, UDQAssign, UDQDefine, HasKeyword
  <2> QED BY <1>1, <2>1, <2>3 DEF Taken
<1>6. CASE rec \in Units
  <2>1. AddRecord(c, rec, no, t) = AddUnit(c, rec)
    BY <1>6, UnitsAssumption DEF AddRecord, Updates
  <2>2. CASE c.unit # Null
    <3>1. AddUnit(c, rec) = c /\ c.unit = rec
      BY <2>1, <2>2 DEF AddUnit
    <3>2. Taken(c, c, rec, no, t)
      BY <1>6, <2>2, <3>1 DEF Taken, HasKeyword
    <3> QED BY <1>1, <2>1, <3>1, <3>2
  <2>3. CASE c.unit = Null
    <3> DEFINE b == IF HasKeyword(c) THEN c ELSE AddAssign(c, Implied, 0)
    <3>1. AddUnit(c, rec) = [b EXCEPT !.unit = rec]
      BY <2>3 DEF AddUnit
    <3>2. /\ b \in UDQConfig /\ b.define = c.define
          /\ b.action = "ASSIGN" => b.assign.no # 0
          /\ b.action = "DEFINE" => b.define.no # 0
          /\ \/ HasKeyword(c) /\ b.assign = c.assign /\ b.action = c.action
             \/ ~HasKeyword(c) /\ b.assign = [no |-> Implied, step |-> 0] /\ b.action = "ASSIGN"
      BY <1>2 DEF AddAssign, UDQConfig, UDQAssign, UDQDefine
    <3> HIDE DEF b
    <3>3. Taken(c, [b EXCEPT !.unit = rec], rec, no, t)
      BY <1>6, <3>2, NullAssumption DEF Taken, UDQConfig, HasKeyword
    <3>4. Taken(c, AddUnit(c, rec), rec, no, t)
      BY <3>1, <3>3
    <3>5. AddUnit(c, rec) \in UDQConfig
      BY <3>4 DEF Taken
    <3> QED BY <1>1, <2>1, <3>4, <3>5
  <2> QED BY <2>2, <2>3
<1> QED BY <1>3, <1>4, <1>5, <1>6 DEF Records

\* Every keyword leaves the configurations of earlier report steps, and makes
\* one of its record and of a configuration of what it changes.
Changed(rec, no) ==
  /\ config' \in [Steps -> UDQConfig]
  /\ \A t \in Steps :
       \/ config'[t] = config[t]
       \/ /\ t >= step
          /\ \E u \in Steps : u <= t /\ Taken(config[u], config'[t], rec, no, step)

LEMMA UdqChanges ==
  ASSUME Inv, NEW rec \in Records, Udq(rec), phase' # "failed"
  PROVE  Changed(rec, count')
<1> DEFINE new == AddRecord(config[step], rec, count + 1, step)
           d == [new EXCEPT !.id = count + 1]
<1>1. count + 1 \in Numbers /\ count + 1 # 0 /\ count' = count + 1
  BY MaxStatementsAssumption DEF Inv, TypeOK, Udq, Numbers, Implied
<1>2. new # Null /\ config' = Update(config, step, d)
  BY DEF Udq
<1>3. Taken(config[step], d, rec, count + 1, step)
  BY <1>1, <1>2, AddRecordFacts DEF Inv, TypeOK, Fixed
<1> HIDE DEF new, d
<1>4. \A t \in Steps : config'[t] = config[t] \/ (t >= step /\ config'[t] = d)
  <2>1. DOMAIN config = Steps
    BY DEF Inv, TypeOK
  <2>2. CASE config[step] = d
    BY <1>2, <2>2 DEF Update
  <2>3. CASE config[step] # d
    <3>1. config' = [t \in Steps |-> IF t >= step THEN d ELSE config[t]]
      BY <1>2, <2>1, <2>3 DEF Update
    <3> QED BY <3>1
  <2> QED BY <2>2, <2>3
<1>5. config' \in [Steps -> UDQConfig]
  BY <1>2, <1>3 DEF Update, Inv, TypeOK, Taken
<1> QED BY <1>1, <1>3, <1>4, <1>5 DEF Changed, Inv, TypeOK

LEMMA ActionUdqChanges ==
  ASSUME Inv, NEW rec \in Records, ActionUdq(rec)
  PROVE  /\ Changed(rec, count')
         /\ \A t \in Steps : t < step => config'[t] = config[t]
         /\ phase' # "failed" => \A t \in Steps : t >= step =>
              Taken(config[t], config'[t], rec, count', step)
<1> DEFINE no == count + 1
           new == AddRecord(config[step], rec, no, step)
           d == [new EXCEPT !.id = no]
           own == EqualRun(config, step)
           taken(t) == \A u \in step + 1 .. t : AddRecord(config[u], rec, no, step) # Null
<1>1. no \in Numbers /\ no # 0 /\ count' = no
  BY MaxStatementsAssumption DEF Inv, TypeOK, ActionUdq, Numbers, Implied
<1>2. step \in Steps /\ config \in [Steps -> UDQConfig]
  BY DEF Inv, TypeOK
<1>3. \A t \in Steps : t \in own <=> t >= step /\ \A u \in step .. t : config[u] = config[step]
  BY <1>2 DEF EqualRun
<1>4. \A t \in own : t \in Steps /\ t >= step /\ config[t] = config[step]
  BY <1>2 DEF EqualRun, Steps
<1>5. ASSUME NEW t \in Steps, AddRecord(config[t], rec, no, step) # Null
      PROVE  /\ Taken(config[t], AddRecord(config[t], rec, no, step), rec, no, step)
             /\ Taken(config[t], [AddRecord(config[t], rec, no, step) EXCEPT !.id = no],
                      rec, no, step)
  BY <1>1, <1>2, <1>5, AddRecordFacts DEF Inv, TypeOK, Fixed
<1>6. CASE new = Null
  <2>1. config' = config
    BY <1>6 DEF ActionUdq
  <2>2. step \in step .. NSteps - 1
    BY <1>2, NStepsAssumption DEF Steps
  <2>3. phase' = "failed"
    BY <1>6, <2>2 DEF ActionUdq
  <2> QED BY <1>2, <2>1, <2>3 DEF Changed
<1>7. CASE new # Null
  <2>1. config' = UpdateUDQ(rec, no)
    BY <1>7 DEF ActionUdq
  <2>2. \A t \in Steps : config'[t] =
           CASE t \in own -> d
             [] t > step /\ t \notin own /\ taken(t) -> AddRecord(config[t], rec, no, step)
             [] OTHER -> config[t]
    BY <2>1 DEF UpdateUDQ
  <2>3. Taken(config[step], d, rec, no, step)
    BY <1>2, <1>5, <1>7
  <2>4. ASSUME NEW t \in Steps, t \in own
        PROVE  config'[t] = d /\ t >= step /\ Taken(config[t], config'[t], rec, no, step)
    <3>1. config'[t] = d
      BY <2>2, <2>4
    <3> QED BY <1>4, <2>3, <2>4, <3>1
  <2>5. ASSUME NEW t \in Steps, t \notin own, t > step, taken(t)
        PROVE  Taken(config[t], config'[t], rec, no, step)
    <3>1. config'[t] = AddRecord(config[t], rec, no, step)
      BY <2>2, <2>5
    <3>2. t \in step + 1 .. t
      BY <1>2, <2>5 DEF Steps
    <3> QED BY <1>5, <2>5, <3>1, <3>2
  <2>6. ASSUME NEW t \in Steps, t \notin own, ~(t > step /\ taken(t))
        PROVE  config'[t] = config[t]
    BY <2>2, <2>6
  <2> HIDE DEF new, d, own
  <2>7. \A t \in Steps : \/ config'[t] = config[t]
                         \/ t >= step /\ Taken(config[t], config'[t], rec, no, step)
    <3> TAKE t \in Steps
    <3>1. t > step => t >= step
      BY <1>2 DEF Steps
    <3> QED BY <2>4, <2>5, <2>6, <3>1
  <2>8. config' \in [Steps -> UDQConfig]
    <3>1. \A t \in Steps : config'[t] \in UDQConfig
      BY <1>2, <2>7 DEF Taken
    <3> QED BY <2>1, <3>1 DEF UpdateUDQ
  <2>9. ASSUME NEW t \in Steps, t < step PROVE config'[t] = config[t]
    <3>1. ~(t >= step)
      BY <1>2, <2>9 DEF Steps
    <3> QED BY <2>7, <3>1
  <2>10. ASSUME phase' # "failed", NEW t \in Steps, t >= step
         PROVE  Taken(config[t], config'[t], rec, no, step)
    <3>1. \A u \in step .. NSteps - 1 : AddRecord(config[u], rec, no, step) # Null
      BY <2>10 DEF ActionUdq
    <3>2. taken(t)
      BY <1>2, <3>1, NStepsAssumption DEF Steps
    <3>3. CASE t \in own
      BY <2>4, <3>3
    <3>4. CASE t \notin own
      <4>1. t # step
        BY <1>2, <1>3, <3>4 DEF Steps
      <4>2. t > step
        BY <1>2, <2>10, <4>1 DEF Steps
      <4> QED BY <2>5, <3>2, <3>4, <4>2
    <3> QED BY <3>3, <3>4
  <2>11. \A t \in Steps : t <= t
    BY DEF Steps
  <2>12. Changed(rec, no)
    BY <2>7, <2>8, <2>11 DEF Changed
  <2> QED BY <1>1, <2>9, <2>10, <2>12
<1> QED BY <1>6, <1>7

-----------------------------------------------------------------------------
LEMMA InitInv == Init => Inv
<1> SUFFICES ASSUME Init PROVE Inv
  OBVIOUS
<1>1. /\ 0 \in Steps /\ 0 \in Numbers /\ Implied \in Numbers /\ Implied # 0
      /\ MaxStatements \in Nat
  BY NStepsAssumption, MaxStatementsAssumption DEF Steps, Numbers, Implied
<1>2. config = [t \in Steps |-> Empty]
  BY DEF Init, Filled, Steps
<1>3. Empty \in UDQConfig
  BY <1>1 DEF Empty, UDQConfig, UDQAssign, UDQDefine, Updates
<1>4. \A t \in Steps : t >= 0
  BY DEF Steps
<1>5. TypeOK
  <2>1. times \in [Numbers -> 0 .. 2]
    BY DEF Init
  <2>2. state \in [assigned : Steps \cup {Null}, defined : Steps \cup {Null}, value : Numbers]
    BY <1>1 DEF Init
  <2>3. \A t \in Steps : config[t] = Empty /\ Empty.action = "NONE"
    BY <1>2 DEF Empty
  <2>4. config \in [Steps -> UDQConfig]
    BY <1>2, <1>3
  <2>5. count \in 0 .. MaxStatements
    BY <1>1 DEF Init
  <2> QED BY <1>1, <2>1, <2>2, <2>3, <2>4, <2>5 DEF Init, TypeOK
<1>6. Numbered /\ OneRecord /\ Fixed /\ InTime
  BY <1>1, <1>2, <1>4 DEF Init, Numbered, OneRecord, Fixed, InTime, Empty
<1>7. StateInTime
  BY DEF Init, StateInTime
<1>8. Counted
  BY <1>1, <1>2 DEF Init, Counted, AssignedOnce, UpdatedOnce, Fresh, Empty
<1> QED BY <1>5, <1>6, <1>7, <1>8 DEF Inv

\* What a keyword leaves of the invariant, in the section and in an action.
LEMMA ChangedInv ==
  ASSUME Inv, NEW rec \in Records, Changed(rec, count'),
         count < MaxStatements, count' = count + 1,
         UNCHANGED <<step, kind, state, times>>
  PROVE  /\ Numbered' /\ OneRecord' /\ Fixed' /\ InTime' /\ Counted'
         /\ \A t \in Steps :
              /\ config'[t].action = "ASSIGN" => config'[t].assign.no # 0
              /\ config'[t].action = "DEFINE" => config'[t].define.no # 0
<1> DEFINE no == count + 1
<1>1. /\ no \in Nat /\ no # 0 /\ count' = no /\ no <= MaxStatements /\ count \in Nat
      /\ Implied \in Nat /\ Implied # 0 /\ no < Implied /\ no > count
  BY MaxStatementsAssumption DEF Inv, TypeOK, Implied
<1>2. step \in Nat /\ \A t \in Steps : t \in Nat
  BY DEF Inv, TypeOK, Steps
<1> HIDE DEF no
<1>3. ASSUME NEW t \in Steps
      PROVE  /\ config'[t] \in UDQConfig /\ config[t] \in UDQConfig
             /\ config'[t] # config[t] => t >= step
  BY DEF Changed, Inv, TypeOK
\* Where the parts of each record come from.
<1> DEFINE Given(t) == config'[t].assign = [no |-> no, step |-> step]
           Unit(t) == config'[t].assign = [no |-> Implied, step |-> 0]
           Held(t) == \E u \in Steps : u <= t /\ config'[t].assign = config[u].assign
           Defined(t) == config'[t].define.by = no /\ config'[t].define.step = step
           Kept(t) == \E u \in Steps : u <= t /\ config'[t].define = config[u].define
<1>4. ASSUME NEW t \in Steps
      PROVE  /\ \/ rec = "ASSIGN" /\ Given(t) /\ t >= step
                \/ Unit(t)
                \/ Held(t)
             /\ \/ rec # "ASSIGN" /\ Defined(t) /\ t >= step
                \/ Kept(t)
             /\ config'[t].action = "ASSIGN" => config'[t].assign.no # 0
             /\ config'[t].action = "DEFINE" => config'[t].define.no # 0
             /\ config'[t].define.by = 0 <=> config'[t].define.no = 0
  <2>1. CASE config'[t] = config[t]
    <3>1. t <= t
      BY <1>2
    <3>2. Held(t) /\ Kept(t)
      BY <2>1, <3>1
    <3> HIDE DEF Held, Kept
    <3> QED BY <2>1, <3>2 DEF Inv, TypeOK, Fixed
  <2>2. ASSUME t >= step, NEW u \in Steps, u <= t, Taken(config[u], config'[t], rec, no, step)
        PROVE  <1>4!2
    <3>1. CASE /\ rec = "ASSIGN"
               /\ Given(t) /\ config'[t].define = config[u].define
      BY <2>2, <3>1 DEF Taken
    <3>2. CASE /\ rec \in {"DEFINE"} \cup Updates
               /\ config'[t].assign = config[u].assign /\ Defined(t)
      <4>1. rec # "ASSIGN"
        BY <3>2 DEF Updates
      <4> QED BY <2>2, <3>2, <4>1 DEF Taken
    <3>3. CASE /\ rec \in Units /\ config'[t].define = config[u].define
               /\ config'[t].assign = config[u].assign \/ Unit(t)
      BY <2>2, <3>3 DEF Taken
    <3> QED BY <1>1, <2>2, <3>1, <3>2, <3>3 DEF Taken
  <2> QED BY <1>1, <2>1, <2>2 DEF Changed
<1> HIDE DEF Given, Unit, Held, Defined, Kept
<1>5. Numbered'
  <2>1. ASSUME NEW t \in Steps PROVE config'[t].assign.no \in 0 .. count' \cup {Implied}
    BY <1>1, <1>4 DEF Given, Unit, Held, Inv, Numbered
  <2>2. ASSUME NEW t \in Steps PROVE config'[t].define.by \in 0 .. count'
    BY <1>1, <1>4 DEF Defined, Kept, Inv, Numbered
  <2> QED BY <2>1, <2>2 DEF Numbered
<1>6. InTime'
  <2>1. \A t \in Steps : /\ config[t].assign.step \in Nat /\ config[t].assign.step <= t
                        /\ config[t].define.step \in Nat /\ config[t].define.step <= t
    BY <1>2, <1>3 DEF Inv, InTime, UDQConfig, UDQAssign, UDQDefine
  <2>2. ASSUME NEW t \in Steps PROVE config'[t].assign.step <= t
    <3>1. CASE Held(t)
      BY <1>2, <2>1, <3>1 DEF Held
    <3> QED BY <1>2, <1>4, <3>1 DEF Given, Unit
  <2>3. ASSUME NEW t \in Steps PROVE config'[t].define.step <= t
    <3>1. CASE Kept(t)
      BY <1>2, <2>1, <3>1 DEF Kept
    <3> QED BY <1>2, <1>4, <3>1 DEF Defined
  <2> QED BY <2>2, <2>3 DEF InTime
<1>7. Fixed'
  <2>1. ASSUME NEW t \in Steps, config'[t].assign.no \in {0, Implied}
        PROVE  config'[t].assign.step = 0
    BY <1>1, <1>4, <2>1 DEF Given, Unit, Held, Inv, Fixed
  <2> QED BY <1>4, <2>1 DEF Fixed
<1>8. OneRecord'
  \* The number of a record that was held before is not the new one.
  <2>1. ASSUME NEW t \in Steps, Held(t)
        PROVE  /\ config'[t].assign.no # no
               /\ config'[t].assign.no = Implied => Unit(t)
    BY <1>1, <1>3, <2>1 DEF Held, Unit, Inv, Numbered, Fixed, UDQConfig, UDQAssign
  <2>2. ASSUME NEW t \in Steps, Kept(t) PROVE config'[t].define.by # no
    BY <1>1, <2>2 DEF Kept, Inv, Numbered
  <2>3. ASSUME NEW t \in Steps, NEW u \in Steps, config'[t].assign.no = config'[u].assign.no
        PROVE  config'[t].assign = config'[u].assign
    <3>1. CASE Held(t) /\ Held(u)
      BY <2>3, <3>1 DEF Held, Inv, OneRecord
    <3>2. CASE Unit(t) \/ Unit(u)
      <4>1. Unit(t) /\ Unit(u)
        BY <1>1, <1>4, <2>1, <2>3, <3>2 DEF Unit, Given
      <4> QED BY <4>1 DEF Unit
    <3>3. CASE Given(t) \/ Given(u)
      <4>1. Given(t) /\ Given(u)
        BY <1>1, <1>4, <2>1, <2>3, <3>3 DEF Unit, Given
      <4> QED BY <4>1 DEF Given
    <3> QED BY <1>4, <3>1, <3>2, <3>3
  <2>4. ASSUME NEW t \in Steps, NEW u \in Steps, config'[t].define.by = config'[u].define.by
        PROVE  config'[t].define.step = config'[u].define.step
    <3>1. CASE Kept(t) /\ Kept(u)
      BY <2>4, <3>1 DEF Kept, Inv, OneRecord
    <3>2. CASE Defined(t) \/ Defined(u)
      BY <1>4, <2>2, <2>4, <3>2 DEF Defined
    <3> QED BY <1>4, <3>1, <3>2
  <2>5. ASSUME NEW t \in Steps, NEW u \in Steps, config'[t].assign.no # 0
        PROVE  config'[t].assign.no # config'[u].define.by
    <3>1. CASE Held(t) /\ Kept(u)
      BY <2>5, <3>1 DEF Held, Kept, Inv, OneRecord
    <3>2. CASE Unit(t)
      BY <1>1, <1>5, <3>2 DEF Unit, Numbered
    <3>3. CASE rec = "ASSIGN" /\ Given(t)
      BY <1>4, <2>2, <3>3 DEF Given
    <3>4. CASE Held(t) /\ Defined(u)
      BY <2>1, <3>4 DEF Defined
    <3> QED BY <1>4, <3>1, <3>2, <3>3, <3>4
  <2> QED BY <2>3, <2>4, <2>5 DEF OneRecord
\* A new statement has not been carried out; an old record is as it was.
<1>9. Counted'
  <2>1. /\ times' = times /\ kind' = kind /\ state' = state /\ times[no] = 0
        /\ \A n \in Numbers : n > count' /\ n # Implied => times[n] = 0
    BY <1>1 DEF Inv, Counted, Fresh, TypeOK, Numbers
  <2>2. ASSUME NEW t \in Steps, kind = "FIELD", times[config'[t].assign.no] > 0
        PROVE  /\ state.assigned # Null /\ config'[t].assign.step <= state.assigned
               /\ times[config'[t].assign.no] <= 1
    <3>1. CASE Held(t)
      BY <2>2, <3>1 DEF Held, Inv, Counted, AssignedOnce
    <3>2. CASE Unit(t)
      <4>1. state.assigned # Null /\ times[Implied] <= 1
        BY <2>2, <3>2 DEF Unit, Inv, Counted, Fresh
      <4>2. state.assigned \in Nat
        BY <1>2, <4>1 DEF Inv, TypeOK
      <4> QED BY <3>2, <4>1, <4>2 DEF Unit
    <3>3. CASE Given(t)
      BY <2>1, <2>2, <3>3 DEF Given
    <3> QED BY <1>4, <3>1, <3>2, <3>3
  <2>3. ASSUME NEW t \in Steps, config'[t].define.status = "NEXT",
               times[config'[t].define.by] > 0
        PROVE  /\ state.defined # Null /\ config'[t].define.step <= state.defined
               /\ times[config'[t].define.by] <= 1
    <3>1. CASE Kept(t)
      BY <2>3, <3>1 DEF Kept, Inv, Counted, UpdatedOnce
    <3>2. CASE Defined(t)
      BY <2>1, <2>3, <3>2 DEF Defined
    <3> QED BY <1>4, <3>1, <3>2
  <2>4. /\ times[0] = 0
        /\ times[Implied] > 0 => state.assigned # Null
        /\ kind = "FIELD" => times[Implied] <= 1
    BY DEF Inv, Counted, Fresh
  <2>5. AssignedOnce'
    BY <2>1, <2>2 DEF AssignedOnce
  <2>6. UpdatedOnce'
    BY <2>1, <2>3 DEF UpdatedOnce
  <2>7. Fresh'
    BY <2>1, <2>4 DEF Fresh
  <2> QED BY <2>5, <2>6, <2>7 DEF Counted
<1> QED BY <1>4, <1>5, <1>6, <1>7, <1>8, <1>9

LEMMA KeywordInv ==
  ASSUME Inv, NEW rec \in Records, Udq(rec) \/ ActionUdq(rec)
  PROVE  Inv'
<1>1. /\ count < MaxStatements /\ count' = count + 1 /\ count' \in 0 .. MaxStatements
      /\ UNCHANGED <<step, kind, state, times>>
      /\ phase' \in {phase, "failed"}
      /\ late' \in SUBSET Numbers /\ evaluated' \in BOOLEAN
  <2>1. count < MaxStatements /\ count' = count + 1 /\ UNCHANGED <<step, kind, state, times>>
    BY DEF Udq, ActionUdq
  <2>2. count' \in 0 .. MaxStatements /\ count' \in Numbers
    BY <2>1, MaxStatementsAssumption DEF Inv, TypeOK, Numbers, Implied
  <2>3. phase' \in {phase, "failed"}
    BY DEF Udq, ActionUdq
  <2>4. late' \in {late, late \cup {count'}}
    BY DEF Udq, ActionUdq
  <2>5. evaluated' \in BOOLEAN
    BY DEF Udq, ActionUdq, Inv, TypeOK
  <2> QED BY <2>1, <2>2, <2>3, <2>4, <2>5 DEF Inv, TypeOK
<1>2. CASE Changed(rec, count')
  <2>1. /\ Numbered' /\ OneRecord' /\ Fixed' /\ InTime' /\ Counted'
        /\ \A t \in Steps :
             /\ config'[t].action = "ASSIGN" => config'[t].assign.no # 0
             /\ config'[t].action = "DEFINE" => config'[t].define.no # 0
    BY <1>1, <1>2, ChangedInv
  <2>2. TypeOK'
    BY <1>1, <1>2, <2>1 DEF Inv, TypeOK, Changed
  <2>3. StateInTime'
    BY <1>1 DEF Inv, TypeOK, StateInTime
  <2> QED BY <2>1, <2>2, <2>3 DEF Inv
<1>3. CASE ~Changed(rec, count')
  \* A record that throws in the section leaves everything else.
  <2>1. config' = config /\ late' = late /\ evaluated' = evaluated
    BY <1>3, UdqChanges, ActionUdqChanges DEF Udq
  <2>2. \A no \in Numbers : no > count' => no > count
    BY <1>1 DEF Inv, TypeOK, Numbers, Implied
  <2>3. 0 .. count \subseteq 0 .. count'
    BY <1>1 DEF Inv, TypeOK
  <2>4. TypeOK'
    BY <1>1, <2>1 DEF Inv, TypeOK
  <2>5. StateInTime'
    BY <1>1 DEF Inv, TypeOK, StateInTime
  <2>6. Numbered' /\ OneRecord' /\ Fixed' /\ InTime'
    BY <2>1, <2>3 DEF Inv, Numbered, OneRecord, Fixed, InTime
  <2>7. Counted'
    BY <1>1, <2>1, <2>2 DEF Inv, Counted, AssignedOnce, UpdatedOnce, Fresh
  <2> QED BY <2>4, <2>5, <2>6, <2>7 DEF Inv
<1> QED BY <1>2, <1>3

LEMMA EvalInv ==
  ASSUME Inv, Eval
  PROVE  Inv'
<1> DEFINE c == config[step]
<1>1. /\ UNCHANGED <<phase, step, kind, config, count, late>> /\ phase = "run"
      /\ evaluated' = TRUE
      /\ state'.assigned = IF Assigns(c) THEN step ELSE state.assigned
      /\ state'.defined = IF Defines(c) THEN step ELSE state.defined
      /\ state'.value \in {c.define.no, c.assign.no, state.value}
      /\ state' \in [assigned : Steps \cup {Null}, defined : Steps \cup {Null},
                    value : Numbers]
  <2>1. c \in UDQConfig /\ step \in Steps
    BY DEF Inv, TypeOK
  <2>2. \/ Defines(c) \/ (~Defines(c) /\ Assigns(c)) \/ (~Defines(c) /\ ~Assigns(c))
    OBVIOUS
  <2> QED BY <2>1, <2>2 DEF Eval, Inv, TypeOK, UDQConfig, UDQAssign, UDQDefine
<1>2. \A no \in Numbers :
        times'[no] = IF no \in CarriedOut(c) /\ times[no] < 2 THEN times[no] + 1 ELSE times[no]
  BY DEF Eval
<1>3. /\ times' \in [Numbers -> 0 .. 2] /\ \A no \in Numbers : times[no] \in 0 .. 2
      /\ \A t \in Steps : t \in Nat
      /\ c \in UDQConfig /\ step \in Steps /\ Null \notin Steps
  BY <1>2, NullAssumption DEF Eval, Inv, TypeOK, Steps
<1>4. TypeOK'
  BY <1>1, <1>3 DEF Inv, TypeOK
<1>5. Numbered' /\ OneRecord' /\ Fixed' /\ InTime'
  BY <1>1 DEF Inv, Numbered, OneRecord, Fixed, InTime
<1>6. StateInTime'
  BY <1>1, <1>3 DEF Inv, StateInTime
\* What is carried out is a record of c, and none of what c has been asked before.
<1>7. ASSUME NEW no \in Numbers, no \in CarriedOut(c)
      PROVE  /\ no # 0
             /\ \/ Assigns(c) /\ no = c.assign.no
                \/ Defines(c) /\ c.define.status = "NEXT" /\ no = c.define.by
  BY <1>3, <1>7 DEF CarriedOut, Assigns, Defines, Inv, TypeOK, Fixed
<1>8. c.define.by \in 0 .. count /\ c.assign.no \in 0 .. count \cup {Implied}
      /\ count < Implied /\ Implied \in Numbers /\ 0 \in Numbers /\ count \in Nat
      /\ Implied # 0
  BY <1>3, MaxStatementsAssumption DEF Inv, TypeOK, Numbered, Implied, Numbers
<1>9. /\ state.assigned # Null => state.assigned \in Nat /\ state.assigned <= step
      /\ state.defined # Null => state.defined \in Nat /\ state.defined <= step
      /\ \A t \in Steps : /\ config[t].assign.step \in Nat /\ config[t].define.step \in Nat
                         /\ config[t].assign.no \in Numbers
                         /\ config[t].define.by \in Numbers
      /\ c.assign.step <= step /\ c.define.step <= step
  BY <1>3 DEF Inv, TypeOK, StateInTime, InTime, UDQConfig, UDQAssign, UDQDefine
<1>10. ASSUME Assigns(c), kind = "FIELD" PROVE times[c.assign.no] = 0
  BY <1>3, <1>9, <1>10 DEF Assigns, Inv, Counted, AssignedOnce
<1>11. ASSUME Defines(c), c.define.status = "NEXT" PROVE times[c.define.by] = 0
  BY <1>3, <1>9, <1>11 DEF Defines, Inv, Counted, UpdatedOnce
<1>12. times'[0] = 0
  BY <1>2, <1>7, <1>8 DEF Inv, Counted, Fresh
<1> HIDE DEF c
<1>13. AssignedOnce'
  <2> SUFFICES ASSUME NEW t \in Steps, kind = "FIELD", times'[config[t].assign.no] > 0
               PROVE  /\ state'.assigned # Null
                      /\ config[t].assign.step <= state'.assigned
                      /\ times'[config[t].assign.no] <= 1
    BY <1>1 DEF AssignedOnce
  <2> DEFINE n == config[t].assign.no
  <2>1. n \in Numbers /\ n # 0
    BY <1>9, <1>12
  <2>2. n # c.define.by
    BY <1>3, <2>1 DEF c, Inv, OneRecord
  <2>3. CASE n \in CarriedOut(c)
    <3>1. Assigns(c) /\ n = c.assign.no
      BY <1>7, <2>1, <2>2, <2>3
    <3>2. config[t].assign = c.assign
      BY <1>3, <3>1 DEF c, Inv, OneRecord
    <3>3. times'[n] = 1
      BY <1>2, <1>10, <2>1, <2>3, <3>1
    <3> QED BY <1>1, <1>3, <1>9, <3>1, <3>2, <3>3
  <2>4. CASE n \notin CarriedOut(c)
    <3>1. times'[n] = times[n]
      BY <1>2, <2>1, <2>4
    <3>2. /\ state.assigned # Null /\ config[t].assign.step <= state.assigned
          /\ times[n] <= 1
      BY <3>1 DEF Inv, Counted, AssignedOnce
    <3> QED BY <1>1, <1>3, <1>9, <3>1, <3>2
  <2> QED BY <2>3, <2>4
<1>14. UpdatedOnce'
  <2> SUFFICES ASSUME NEW t \in Steps, config[t].define.status = "NEXT",
                      times'[config[t].define.by] > 0
               PROVE  /\ state'.defined # Null
                      /\ config[t].define.step <= state'.defined
                      /\ times'[config[t].define.by] <= 1
    BY <1>1 DEF UpdatedOnce
  <2> DEFINE n == config[t].define.by
  <2>1. n \in Numbers /\ n # 0
    BY <1>9, <1>12
  <2>2. c.assign.no # 0 => n # c.assign.no
    BY <1>3 DEF c, Inv, OneRecord
  <2>3. CASE n \in CarriedOut(c)
    <3>1. Defines(c) /\ c.define.status = "NEXT" /\ n = c.define.by
      BY <1>7, <2>1, <2>2, <2>3
    <3>2. config[t].define.step = c.define.step
      BY <1>3, <3>1 DEF c, Inv, OneRecord
    <3>3. times'[n] = 1
      BY <1>2, <1>11, <2>1, <2>3, <3>1
    <3> QED BY <1>1, <1>3, <1>9, <3>1, <3>2, <3>3
  <2>4. CASE n \notin CarriedOut(c)
    <3>1. times'[n] = times[n]
      BY <1>2, <2>1, <2>4
    <3>2. /\ state.defined # Null /\ config[t].define.step <= state.defined
          /\ times[n] <= 1
      BY <3>1 DEF Inv, Counted, UpdatedOnce
    <3> QED BY <1>1, <1>3, <1>9, <3>1, <3>2
  <2> QED BY <2>3, <2>4
<1>15. Fresh'
  <2>1. ASSUME NEW no \in Numbers, no > count, no # Implied PROVE times'[no] = 0
    <3>1. no \notin CarriedOut(c)
      BY <1>7, <1>8, <2>1
    <3>2. times[no] = 0
      BY <2>1 DEF Inv, Counted, Fresh
    <3> QED BY <1>2, <3>1, <3>2
  <2>2. CASE Implied \in CarriedOut(c)
    <3>1. Assigns(c) /\ c.assign.no = Implied
      BY <1>7, <1>8, <2>2
    <3>2. kind = "FIELD" => times'[Implied] = 1
      BY <1>2, <1>8, <1>10, <2>2, <3>1
    <3>3. state'.assigned # Null
      BY <1>1, <1>3, <3>1
    <3> QED BY <1>1, <1>12, <2>1, <3>2, <3>3 DEF Fresh
  <2>3. CASE Implied \notin CarriedOut(c)
    <3>1. times'[Implied] = times[Implied]
      BY <1>2, <1>8, <2>3
    <3>2. /\ times[Implied] > 0 => state'.assigned # Null
          /\ kind = "FIELD" => times[Implied] <= 1
      BY <1>1, <1>3 DEF Inv, Counted, Fresh
    <3> QED BY <1>1, <1>12, <2>1, <3>1, <3>2 DEF Fresh
  <2> QED BY <2>2, <2>3
<1> QED BY <1>4, <1>5, <1>6, <1>13, <1>14, <1>15 DEF Inv, Counted

LEMMA NextInv == Inv /\ [Next]_vars => Inv'
<1> SUFFICES ASSUME Inv, [Next]_vars PROVE Inv'
  OBVIOUS
<1>1. ASSUME NEW rec \in Records, Udq(rec) \/ ActionUdq(rec) PROVE Inv'
  BY <1>1, KeywordInv
<1>2. CASE Eval
  BY <1>2, EvalInv
\* The parts that only the step and the phase can disturb.
<1>3. CASE EndReportStep \/ EndSection \/ NextReportStep \/ UNCHANGED vars
  <2>1. /\ UNCHANGED <<kind, config, count, state, times, late>>
        /\ step' \in Steps /\ phase' \in {"parse", "run", "failed"}
        /\ evaluated' \in BOOLEAN
    <3>1. 0 \in Steps /\ (step + 2 < NSteps => step + 1 \in Steps)
      BY NStepsAssumption DEF Inv, TypeOK, Steps
    <3> QED BY <1>3, <3>1 DEF EndReportStep, EndSection, NextReportStep, vars, Inv, TypeOK
  <2>2. TypeOK'
    BY <2>1 DEF Inv, TypeOK
  <2>3. Numbered' /\ OneRecord' /\ Fixed' /\ InTime'
    BY <2>1 DEF Inv, Numbered, OneRecord, Fixed, InTime
  <2>4. Counted'
    BY <2>1 DEF Inv, Counted, AssignedOnce, UpdatedOnce, Fresh
  <2>5. StateInTime'
    <3>1. CASE phase = "parse"
      BY <2>1, <3>1 DEF Inv, StateInTime
    <3>2. CASE phase # "parse"
      <4>1. phase' # "parse" /\ step <= step'
        BY <1>3, <3>2 DEF EndReportStep, EndSection, NextReportStep, vars, Inv, TypeOK, Steps
      <4>2. /\ \A t \in Steps : t \in Int
            /\ state.assigned # Null => state.assigned \in Steps
            /\ state.defined # Null => state.defined \in Steps
            /\ step \in Steps
        BY DEF Inv, TypeOK, Steps
      <4> QED BY <2>1, <4>1, <4>2 DEF Inv, StateInTime
    <3> QED BY <3>1, <3>2
  <2> QED BY <2>2, <2>3, <2>4, <2>5 DEF Inv
<1> QED BY <1>1, <1>2, <1>3 DEF Next

LEMMA InvHolds == Spec => []Inv
<1> QED BY InitInv, NextInv, PTL DEF Spec

-----------------------------------------------------------------------------
(* Where the value comes from.                                             *)

\* A statement at a step: what is before it stays, and all from there on take
\* the record.
Whole(rec, no) ==
  \A t \in Steps :
    /\ t < step => config'[t] = config[t]
    /\ t >= step => Taken(config[t], config'[t], rec, no, step)

\* While the section is read, what is in force is in force to the end.
Ahead == phase = "parse" =>
           ~evaluated /\ \A t \in Steps : t >= step => config[t] = config[step]

LEMMA UdqWhole ==
  ASSUME Inv, Ahead, NEW rec \in Records, Udq(rec), phase' # "failed"
  PROVE  Whole(rec, count') /\ Ahead'
<1> DEFINE new == AddRecord(config[step], rec, count + 1, step)
           d == [new EXCEPT !.id = count + 1]
<1>1. count + 1 \in Numbers /\ count + 1 # 0 /\ count' = count + 1 /\ step \in Steps
  BY MaxStatementsAssumption DEF Inv, TypeOK, Udq, Numbers, Implied
<1>2. new # Null /\ config' = Update(config, step, d) /\ phase = "parse"
  BY DEF Udq
<1>3. Taken(config[step], d, rec, count + 1, step)
  BY <1>1, <1>2, AddRecordFacts DEF Inv, TypeOK, Fixed
<1>4. UNCHANGED <<step, evaluated>>
  BY DEF Udq
<1> HIDE DEF new, d
<1>5. \A t \in Steps : t >= step => config[t] = config[step]
  BY <1>2 DEF Ahead
<1>6. \A t \in Steps : config'[t] = IF t >= step THEN d ELSE config[t]
  <2>1. DOMAIN config = Steps
    BY DEF Inv, TypeOK
  <2>2. CASE config[step] = d
    BY <1>2, <1>5, <2>2 DEF Update
  <2>3. CASE config[step] # d
    BY <1>2, <2>1, <2>3 DEF Update
  <2> QED BY <2>2, <2>3
<1>7. \A t \in Steps : (t < step => ~(t >= step)) /\ step >= step
  BY <1>1 DEF Steps
<1>8. Whole(rec, count')
  BY <1>1, <1>3, <1>5, <1>6, <1>7 DEF Whole
<1> QED BY <1>1, <1>2, <1>4, <1>6, <1>7, <1>8 DEF Ahead

\* A statement keeps what the comparisons of steps rely on.
LEMMA WholeTraced ==
  ASSUME Inv, Traced, phase # "failed", NEW rec \in Records, Whole(rec, count'),
         UNCHANGED <<step, kind, state, times>>, late \subseteq late',
         rec = "ASSIGN" /\ state.assigned = step => count' \in late',
         rec = "NEXT" /\ state.defined = step => count' \in late'
  PROVE  Traced'
<1>1. /\ KnownOn /\ DefinedSince /\ AssignedSince /\ AssignedKnown /\ ValueAssigned /\ NextDone
  BY DEF Traced
<1>2. step \in Steps /\ \A t \in Steps : t \in Nat
  BY DEF Inv, TypeOK, Steps
<1>3. /\ state.assigned # Null => state.assigned \in Nat /\ state.assigned <= step
      /\ state.defined # Null => state.defined \in Nat /\ state.defined <= step
  BY <1>2 DEF Inv, TypeOK, StateInTime
<1>4. ASSUME NEW t \in Steps, t < step PROVE config'[t] = config[t]
  BY <1>4 DEF Whole
<1>5. ASSUME NEW t \in Steps, ~(t < step)
      PROVE  Taken(config[t], config'[t], rec, count', step)
  BY <1>2, <1>5 DEF Whole
<1>6. rec \notin Units \/ rec \notin {"ASSIGN", "DEFINE"} \cup Updates
  BY UnitsAssumption
<1>7. ASSUME NEW t \in Steps, ~(t < step) PROVE HasKeyword(config'[t])
  BY <1>5, <1>7 DEF Taken
<1>8. KnownOn'
  <2> SUFFICES ASSUME NEW u \in Steps, NEW t \in Steps, u <= t, HasKeyword(config'[u])
               PROVE  HasKeyword(config'[t])
    BY DEF KnownOn, HasKeyword
  <2>1. CASE t < step
    <3>1. u < step
      BY <1>2, <2>1
    <3> QED BY <1>1, <1>4, <2>1, <3>1 DEF KnownOn
  <2> QED BY <1>7, <2>1
<1>9. DefinedSince'
  <2> SUFFICES ASSUME NEW u \in Steps, NEW t \in Steps, config'[t].define.step <= u, u <= t
               PROVE  /\ config'[u].define.by = config'[t].define.by
                      /\ config'[u].define.status = config'[t].define.status
    BY DEF DefinedSince
  <2>1. u < step => config'[u] = config[u]
    BY <1>4
  <2>2. CASE t < step
    <3>1. u < step
      BY <1>2, <2>2
    <3> QED BY <1>1, <1>4, <2>1, <2>2, <3>1 DEF DefinedSince
  <2>3. CASE ~(t < step) /\ rec \in {"DEFINE"} \cup Updates
    <3>1. config'[t].define.step = step /\ config'[t].define.by = count'
          /\ config'[t].define.status = IF rec = "DEFINE" THEN "ON" ELSE rec
      BY <1>5, <1>6, <2>3 DEF Taken, Updates
    <3>2. ~(u < step)
      BY <1>2, <3>1
    <3>3. config'[u].define.by = count'
          /\ config'[u].define.status = IF rec = "DEFINE" THEN "ON" ELSE rec
      BY <1>5, <1>6, <2>3, <3>2 DEF Taken, Updates
    <3> QED BY <3>1, <3>3
  <2>4. CASE ~(t < step) /\ rec \notin {"DEFINE"} \cup Updates
    <3>1. config'[t].define = config[t].define
      BY <1>5, <2>4 DEF Taken
    <3>2. config'[u].define = config[u].define
      BY <1>5, <2>1, <2>4 DEF Taken
    <3> QED BY <1>1, <3>1, <3>2 DEF DefinedSince
  <2> QED BY <2>2, <2>3, <2>4
<1>10. AssignedSince'
  <2> SUFFICES ASSUME NEW u \in Steps, NEW t \in Steps, config'[t].action = "ASSIGN",
                      config'[t].assign.step <= u, u <= t
               PROVE  \/ config'[u].action = "ASSIGN" /\ config'[u].assign = config'[t].assign
                      \/ config'[t].assign.no = Implied /\ ~HasKeyword(config'[u])
    BY DEF AssignedSince, HasKeyword
  <2>1. u < step => config'[u] = config[u]
    BY <1>4
  <2>2. CASE t < step
    <3>1. u < step /\ config'[t] = config[t]
      BY <1>2, <1>4, <2>2
    <3> QED BY <1>1, <2>1, <3>1 DEF AssignedSince
  <2>3. CASE ~(t < step) /\ rec = "ASSIGN"
    <3>1. config'[t].assign = [no |-> count', step |-> step]
      BY <1>5, <1>6, <2>3 DEF Taken, Updates
    <3>2. ~(u < step)
      BY <1>2, <3>1
    <3>3. config'[u].assign = [no |-> count', step |-> step] /\ config'[u].action = "ASSIGN"
      BY <1>5, <1>6, <2>3, <3>2 DEF Taken, Updates
    <3> QED BY <3>1, <3>3
  <2>4. CASE ~(t < step) /\ rec = "DEFINE"
    BY <1>5, <1>6, <2>4 DEF Taken, Updates
  <2>5. CASE ~(t < step) /\ rec \in Updates
    <3>1. config'[t].assign = config[t].assign /\ config'[t].action = config[t].action
      BY <1>5, <1>6, <2>5 DEF Taken, Updates
    <3>2. ~(u < step) => /\ config'[u].assign = config[u].assign
                         /\ config'[u].action = config[u].action /\ HasKeyword(config[u])
      BY <1>5, <1>6, <2>5 DEF Taken, Updates
    <3> QED BY <1>1, <2>1, <3>1, <3>2 DEF AssignedSince
  <2>6. CASE ~(t < step) /\ rec \in Units /\ HasKeyword(config[t])
    <3>1. config'[t].assign = config[t].assign /\ config'[t].action = config[t].action
      BY <1>5, <1>6, <2>6 DEF Taken
    <3>2. ASSUME ~(u < step), HasKeyword(config[u])
          PROVE  config'[u].assign = config[u].assign /\ config'[u].action = config[u].action
      BY <1>5, <1>6, <2>6, <3>2 DEF Taken
    <3>3. CASE config[u].action = "ASSIGN" /\ config[u].assign = config[t].assign
      <4>1. HasKeyword(config[u])
        BY <3>3 DEF HasKeyword, Inv, TypeOK
      <4> QED BY <2>1, <3>1, <3>2, <3>3, <4>1
    <3>4. CASE config[t].assign.no = Implied /\ ~HasKeyword(config[u])
      <4>1. CASE u < step
        BY <2>1, <3>1, <3>4, <4>1
      <4>2. CASE ~(u < step)
        <5>1. config'[u].assign = [no |-> Implied, step |-> 0] /\ config'[u].action = "ASSIGN"
          BY <1>5, <1>6, <2>6, <3>4, <4>2 DEF Taken
        <5>2. config[t].assign \in UDQAssign /\ config[t].assign.step = 0
          BY <3>4 DEF Inv, TypeOK, Fixed, UDQConfig
        <5>3. config[t].assign = [no |-> Implied, step |-> 0]
          BY <3>4, <5>2 DEF UDQAssign
        <5> QED BY <3>1, <5>1, <5>3
      <4> QED BY <4>1, <4>2
    <3> QED BY <1>1, <3>1, <3>3, <3>4 DEF AssignedSince
  <2>7. CASE ~(t < step) /\ rec \in Units /\ ~HasKeyword(config[t])
    <3>1. config'[t].assign = [no |-> Implied, step |-> 0]
      BY <1>5, <1>6, <2>7 DEF Taken
    <3>2. ~HasKeyword(config[u])
      BY <1>1, <2>7 DEF KnownOn
    <3>3. CASE u < step
      BY <2>1, <3>1, <3>2, <3>3
    <3>4. CASE ~(u < step)
      BY <1>5, <1>6, <2>7, <3>1, <3>2, <3>4 DEF Taken
    <3> QED BY <3>3, <3>4
  <2> QED BY <2>2, <2>3, <2>4, <2>5, <2>6, <2>7 DEF Records
<1>11. AssignedKnown'
  BY <1>2, <1>7 DEF AssignedKnown, HasKeyword
<1>12. ASSUME NEW t \in Steps, t >= step, state.assigned # Null
       PROVE  HasKeyword(config[t])
  BY <1>1, <1>2, <1>12 DEF AssignedKnown, KnownOn
<1>13. ValueAssigned'
  <2> SUFFICES ASSUME NEW t \in Steps, t >= step, config'[t].action = "ASSIGN",
                      state.assigned # Null
               PROVE  /\ kind = "FIELD" /\ config'[t].assign.step <= state.assigned
                           => state.value = config'[t].assign.no \/ config'[t].assign.no \in late'
                      /\ kind = "WELL" /\ t = step /\ state.assigned = step
                           => \/ state.value = config'[t].assign.no
                              \/ config'[t].assign.no \in late' /\ config'[t].assign.step = step
    BY DEF ValueAssigned
  <2>1. ~(t < step)
    BY <1>2
  <2>2. CASE rec = "ASSIGN"
    <3>1. config'[t].assign = [no |-> count', step |-> step]
      BY <1>5, <1>6, <2>1, <2>2 DEF Taken, Updates
    <3>2. step <= state.assigned => state.assigned = step
      BY <1>2, <1>3
    <3> QED BY <2>2, <3>1, <3>2
  <2>3. CASE rec # "ASSIGN"
    <3>1. config'[t].assign = config[t].assign /\ config[t].action = "ASSIGN"
      BY <1>5, <1>12, <2>1, <2>3 DEF Taken
    <3> QED BY <1>1, <3>1 DEF ValueAssigned
  <2> QED BY <2>2, <2>3
<1>14. NextDone'
  <2> SUFFICES ASSUME NEW t \in Steps, t >= step, config'[t].define.status = "NEXT",
                      state.defined # Null, config'[t].define.step <= state.defined
               PROVE  times[config'[t].define.by] >= 1 \/ config'[t].define.by \in late'
    BY DEF NextDone
  <2>1. ~(t < step)
    BY <1>2
  <2>2. CASE rec \in {"DEFINE"} \cup Updates
    <3>1. rec = "NEXT" /\ config'[t].define.step = step /\ config'[t].define.by = count'
      BY <1>5, <1>6, <2>1, <2>2 DEF Taken, Updates
    <3>2. state.defined = step
      BY <1>2, <1>3, <3>1
    <3> QED BY <3>1, <3>2
  <2>3. CASE rec \notin {"DEFINE"} \cup Updates
    <3>1. config'[t].define = config[t].define
      BY <1>5, <2>1, <2>3 DEF Taken
    <3> QED BY <1>1, <3>1 DEF NextDone
  <2> QED BY <2>2, <2>3
<1> QED BY <1>8, <1>9, <1>10, <1>11, <1>13, <1>14 DEF Traced

LEMMA EvalTraced ==
  ASSUME Inv, Inv', Traced, Eval
  PROVE  Traced' /\ ValueOfStatementInForce'
<1> DEFINE c == config[step]
<1>1. /\ KnownOn /\ DefinedSince /\ AssignedSince /\ AssignedKnown /\ ValueAssigned /\ NextDone
  BY DEF Traced, Eval
<1>2. /\ UNCHANGED <<phase, step, kind, config, count, late>>
      /\ state'.assigned = (IF Assigns(c) THEN step ELSE state.assigned)
      /\ state'.defined = (IF Defines(c) THEN step ELSE state.defined)
      /\ Defines(c) => state'.value = c.define.no
      /\ ~Defines(c) /\ Assigns(c) => state'.value = c.assign.no
      /\ ~Defines(c) /\ ~Assigns(c) => state'.value = state.value
      /\ \A no \in Numbers :
           times'[no] = IF no \in CarriedOut(c) /\ times[no] < 2 THEN times[no] + 1 ELSE times[no]
  BY DEF Eval
<1>3. /\ step \in Steps /\ c \in UDQConfig /\ Null \notin Steps
      /\ \A t \in Steps : t \in Nat /\ config[t].assign.step \in Nat
                          /\ config[t].define.step \in Nat /\ config[t].define.by \in Numbers
      /\ \A no \in Numbers : times[no] \in 0 .. 2 /\ times'[no] \in 0 .. 2
      /\ state.assigned # Null => state.assigned \in Nat /\ state.assigned <= step
      /\ state.defined # Null => state.defined \in Nat /\ state.defined <= step
      /\ kind \in {"FIELD", "WELL"}
  BY NullAssumption DEF Inv, TypeOK, StateInTime, Steps, UDQConfig, UDQAssign, UDQDefine
<1>4. \A no \in Numbers : times'[no] >= times[no]
                          /\ (no \in CarriedOut(c) => times'[no] >= 1)
  BY <1>2, <1>3
<1>5. Assigns(c) => HasKeyword(c)
  BY DEF Assigns, HasKeyword
<1>6. c.action = "ASSIGN" => c.assign.no # 0 /\ HasKeyword(c)
  BY <1>3 DEF Inv, TypeOK, HasKeyword
<1>7. Defines(c) => c.action = "DEFINE" /\ HasKeyword(c)
  BY <1>3 DEF Defines, Inv, TypeOK, HasKeyword
<1>8. ~Assigns(c) /\ c.assign.no # 0
        => /\ state.assigned # Null
           /\ kind = "FIELD" => c.assign.step <= state.assigned
           /\ kind = "WELL" => state.assigned = step
  BY <1>3 DEF Assigns
<1> HIDE DEF c
<1>9. KnownOn' /\ DefinedSince' /\ AssignedSince'
  BY <1>1, <1>2 DEF KnownOn, DefinedSince, AssignedSince, HasKeyword
<1>10. AssignedKnown'
  BY <1>1, <1>2, <1>5 DEF AssignedKnown, HasKeyword, c
<1>11. ValueAssigned'
  <2> SUFFICES ASSUME NEW t \in Steps, t >= step, config[t].action = "ASSIGN",
                      state'.assigned # Null
               PROVE  /\ kind = "FIELD" /\ config[t].assign.step <= state'.assigned
                           => state'.value = config[t].assign.no \/ config[t].assign.no \in late
                      /\ kind = "WELL" /\ t = step /\ state'.assigned = step
                           => \/ state'.value = config[t].assign.no
                              \/ config[t].assign.no \in late /\ config[t].assign.step = step
    BY <1>2 DEF ValueAssigned
  <2>1. ASSUME kind = "FIELD", config[t].assign.step <= state'.assigned
        PROVE  state'.value = config[t].assign.no \/ config[t].assign.no \in late
    <3>1. config[t].assign.step <= step
      BY <1>2, <1>3, <2>1
    <3>2. \/ c.action = "ASSIGN" /\ c.assign = config[t].assign
          \/ ~HasKeyword(c)
      BY <1>1, <1>3, <3>1 DEF AssignedSince, c
    <3>3. ~Defines(c)
      BY <1>7, <3>2
    <3>4. CASE Assigns(c)
      BY <1>2, <1>5, <3>2, <3>3, <3>4
    <3>5. CASE ~Assigns(c)
      <4>1. state'.assigned = state.assigned /\ state'.value = state.value
        BY <1>2, <3>3, <3>5
      <4> QED BY <1>1, <2>1, <4>1 DEF ValueAssigned
    <3> QED BY <3>4, <3>5
  <2>2. ASSUME kind = "WELL", t = step, state'.assigned = step
        PROVE  \/ state'.value = config[t].assign.no
               \/ config[t].assign.no \in late /\ config[t].assign.step = step
    <3>1. c = config[t] /\ ~Defines(c)
      BY <1>7, <2>2 DEF c
    <3>2. CASE Assigns(c)
      BY <1>2, <3>1, <3>2
    <3>3. CASE ~Assigns(c)
      <4>1. state'.assigned = state.assigned /\ state'.value = state.value
        BY <1>2, <3>1, <3>3
      <4> QED BY <1>1, <2>2, <4>1 DEF ValueAssigned
    <3> QED BY <3>2, <3>3
  <2> QED BY <2>1, <2>2
<1>12. NextDone'
  <2> SUFFICES ASSUME NEW t \in Steps, t >= step, config[t].define.status = "NEXT",
                      state'.defined # Null, config[t].define.step <= state'.defined
               PROVE  times'[config[t].define.by] >= 1 \/ config[t].define.by \in late
    BY <1>2 DEF NextDone
  <2>1. config[t].define.step <= step
    BY <1>2, <1>3
  <2>2. c.define.by = config[t].define.by /\ c.define.status = "NEXT"
    BY <1>1, <1>3, <2>1 DEF DefinedSince, c
  <2>3. CASE Defines(c)
    <3>1. c.define.by \in CarriedOut(c)
      BY <2>2, <2>3 DEF CarriedOut
    <3> QED BY <1>3, <1>4, <2>2, <3>1
  <2>4. CASE ~Defines(c)
    <3>1. state'.defined = state.defined
      BY <1>2, <2>4
    <3>2. times[config[t].define.by] >= 1 \/ config[t].define.by \in late
      BY <1>1, <3>1 DEF NextDone
    <3> QED BY <1>3, <1>4, <3>2
  <2> QED BY <2>3, <2>4
<1>13. Traced'
  BY <1>9, <1>10, <1>11, <1>12 DEF Traced
<1>14. step >= step
  BY <1>3
<1>15. ASSUME c.action = "ASSIGN"
       PROVE  \/ state'.value = c.assign.no
              \/ c.assign.no \in late /\ (kind = "FIELD" \/ c.assign.step = step)
  <2>1. CASE Assigns(c)
    BY <1>2, <1>7, <1>15, <2>1
  <2>2. CASE ~Assigns(c)
    <3>1. state'.value = state.value
      BY <1>2, <1>7, <1>15, <2>2
    <3>2. /\ state.assigned # Null
          /\ kind = "FIELD" => c.assign.step <= state.assigned
          /\ kind = "WELL" => state.assigned = step
      BY <1>6, <1>8, <1>15, <2>2
    <3> QED BY <1>1, <1>3, <1>14, <1>15, <3>1, <3>2 DEF ValueAssigned, c
  <2> QED BY <2>1, <2>2
<1>16. ASSUME c.action = "DEFINE", c.define.status = "ON" PROVE state'.value = c.define.no
  BY <1>2, <1>16 DEF Defines
<1>17. ASSUME c.action = "DEFINE", c.define.status = "NEXT"
       PROVE  times'[c.define.by] = 1 \/ c.define.by \in late
  <2>1. c.define.by \in Numbers
    BY <1>3 DEF c
  <2>2. times'[c.define.by] <= 1
    <3>1. times'[c.define.by] > 0 => times'[c.define.by] <= 1
      BY <1>2, <1>3, <1>17 DEF Inv, Counted, UpdatedOnce, c
    <3> QED BY <1>3, <2>1, <3>1
  <2>3. times'[c.define.by] >= 1 \/ c.define.by \in late
    <3>1. CASE Defines(c)
      <4>1. c.define.by \in CarriedOut(c)
        BY <1>17, <3>1 DEF CarriedOut
      <4> QED BY <1>4, <2>1, <4>1
    <3>2. CASE ~Defines(c)
      <4>1. state.defined # Null /\ ~(state.defined < c.define.step)
        BY <1>17, <3>2 DEF Defines
      <4>2. c.define.step <= state.defined
        BY <1>3, <4>1 DEF c
      <4>3. times[c.define.by] >= 1 \/ c.define.by \in late
        BY <1>1, <1>3, <1>14, <1>17, <4>1, <4>2 DEF NextDone, c
      <4> QED BY <1>3, <1>4, <2>1, <4>3
    <3> QED BY <3>1, <3>2
  <2> QED BY <1>3, <2>1, <2>2, <2>3
<1>18. ValueOfStatementInForce'
  BY <1>2, <1>15, <1>16, <1>17 DEF ValueOfStatementInForce, c
<1> QED BY <1>13, <1>18

\* Inductive with the property itself.
ValueInv == Inv /\ Traced /\ Ahead /\ ValueOfStatementInForce

LEMMA ValueInit == Init => ValueInv
<1> SUFFICES ASSUME Init PROVE ValueInv
  OBVIOUS
<1>1. config = [t \in Steps |-> Empty] /\ step \in Steps
  BY NStepsAssumption DEF Init, Filled, Steps
<1>2. ~HasKeyword(Empty) /\ Empty.action = "NONE" /\ Empty.define.status = "ON"
  BY DEF HasKeyword, Empty
<1>3. Traced
  BY <1>1, <1>2 DEF Init, Traced, KnownOn, DefinedSince, AssignedSince, AssignedKnown,
                    ValueAssigned, NextDone
<1>4. Ahead /\ ValueOfStatementInForce
  BY <1>1 DEF Init, Ahead, ValueOfStatementInForce
<1> QED BY <1>3, <1>4, InitInv DEF ValueInv

LEMMA ValueNext == ValueInv /\ [Next]_vars => ValueInv'
<1> SUFFICES ASSUME ValueInv, [Next]_vars PROVE ValueInv'
  OBVIOUS
<1>1. Inv /\ Traced /\ Ahead /\ ValueOfStatementInForce /\ Inv'
  BY NextInv DEF ValueInv
<1>2. step \in Steps /\ \A t \in Steps : t \in Nat
  BY <1>1 DEF Inv, TypeOK, Steps
<1>3. /\ state.assigned # Null => phase # "parse" /\ state.assigned \in Nat /\ state.assigned <= step
      /\ state.defined # Null => phase # "parse"
  BY <1>1, <1>2 DEF Inv, TypeOK, StateInTime
<1>4. ASSUME NEW rec \in Records, Udq(rec) PROVE Traced' /\ Ahead' /\ ValueOfStatementInForce'
  <2>1. phase = "parse" /\ UNCHANGED <<step, kind, state, evaluated, times, late>>
        /\ phase' \in {"parse", "failed"}
    BY <1>4 DEF Udq
  <2>2. ValueOfStatementInForce'
    BY <2>1 DEF ValueOfStatementInForce
  <2>3. CASE phase' = "failed"
    BY <2>2, <2>3 DEF Traced, Ahead
  <2>4. CASE phase' # "failed"
    <3>1. Whole(rec, count') /\ Ahead'
      BY <1>1, <1>4, <2>4, UdqWhole
    <3>2. step \in Nat /\ Null \notin Steps
      BY <1>2, NullAssumption
    <3>3. state.assigned # step /\ state.defined # step
      BY <1>2, <1>3, <2>1, <3>2
    <3> QED BY <1>1, <2>1, <2>2, <3>1, <3>3, WholeTraced
  <2> QED BY <2>3, <2>4
<1>5. ASSUME NEW rec \in Records, ActionUdq(rec) PROVE Traced' /\ Ahead' /\ ValueOfStatementInForce'
  <2>1. /\ phase = "run" /\ count' = count + 1 /\ evaluated' = FALSE /\ phase' \in {"run", "failed"}
        /\ UNCHANGED <<step, kind, state, times>>
        /\ late' = (IF \/ rec = "ASSIGN" /\ state.assigned = step
                       \/ rec = "NEXT" /\ state.defined = step
                    THEN late \cup {count'} ELSE late)
    BY <1>5 DEF ActionUdq
  <2>2. Ahead' /\ ValueOfStatementInForce'
    BY <2>1 DEF Ahead, ValueOfStatementInForce
  <2>3. CASE phase' = "failed"
    BY <2>2, <2>3 DEF Traced
  <2>4. CASE phase' # "failed"
    <3>1. Whole(rec, count')
      BY <1>1, <1>5, <2>4, ActionUdqChanges DEF Whole
    <3> QED BY <1>1, <2>1, <2>2, <3>1, WholeTraced
  <2> QED BY <2>3, <2>4
<1>6. CASE Eval
  <2>1. Ahead'
    BY <1>6 DEF Ahead, Eval
  <2> QED BY <1>1, <1>6, <2>1, EvalTraced DEF ValueInv
<1>7. CASE UNCHANGED vars
  BY <1>1, <1>7 DEF vars, ValueInv, Traced, KnownOn, DefinedSince, AssignedSince, AssignedKnown,
                    ValueAssigned, NextDone, Ahead, ValueOfStatementInForce, HasKeyword
\* A step on, or the beginning of the simulation.
<1>8. CASE EndReportStep \/ EndSection \/ NextReportStep
  <2>1. UNCHANGED <<kind, config, count, state, times, late>> /\ phase # "failed"
        /\ step' \in Steps
    BY <1>1, <1>8 DEF EndReportStep, EndSection, NextReportStep, Inv, TypeOK
  <2>2. \/ phase = "parse" /\ phase' \in {"parse", "run"} /\ evaluated' = evaluated
        \/ phase' = "run" /\ step' = step + 1 /\ evaluated' = FALSE
    BY <1>8 DEF EndReportStep, EndSection, NextReportStep
  <2>3. /\ KnownOn /\ DefinedSince /\ AssignedSince /\ AssignedKnown /\ ValueAssigned /\ NextDone
    BY <1>1, <2>1 DEF Traced
  <2>4. KnownOn' /\ DefinedSince' /\ AssignedSince'
    BY <2>1, <2>3 DEF KnownOn, DefinedSince, AssignedSince, HasKeyword
  <2>5. AssignedKnown' /\ ValueAssigned' /\ NextDone'
    <3>1. CASE phase = "parse"
      <4>1. state'.assigned = Null /\ state'.defined = Null
        BY <1>3, <2>1, <3>1
      <4> QED BY <4>1 DEF AssignedKnown, ValueAssigned, NextDone
    <3>2. CASE phase # "parse"
      <4>1. step' = step + 1
        BY <2>2, <3>2
      <4>2. ASSUME NEW n \in Steps, n = step + 1
            PROVE  /\ state.assigned # Null => HasKeyword(config[n])
                   /\ \A t \in Steps : t >= n => t >= step
                   /\ state.assigned # n
        <5>1. step <= n
          BY <1>2, <4>2
        <5>2. \A t \in Steps : t >= n => t >= step
          BY <1>2, <4>2
        <5>3. state.assigned # n
          BY <1>2, <1>3, <4>2, NullAssumption
        <5> QED BY <1>2, <2>3, <5>1, <5>2, <5>3 DEF AssignedKnown, KnownOn
      <4>3. AssignedKnown'
        BY <2>1, <4>1, <4>2 DEF AssignedKnown, HasKeyword
      <4>4. ValueAssigned' /\ NextDone'
        BY <2>1, <2>3, <4>1, <4>2 DEF ValueAssigned, NextDone
      <4> QED BY <4>3, <4>4
    <3> QED BY <3>1, <3>2
  <2>6. Ahead' /\ ValueOfStatementInForce'
    <3>1. ValueOfStatementInForce'
      BY <1>1, <2>2 DEF ValueOfStatementInForce, Ahead
    <3>2. ASSUME phase' = "parse" PROVE Ahead'
      <4>1. phase = "parse" /\ step' = step + 1 /\ evaluated' = evaluated
        BY <1>8, <3>2 DEF EndReportStep, EndSection, NextReportStep
      <4>2. ASSUME NEW n \in Steps, n = step + 1
            PROVE  \A t \in Steps : t >= n => config[t] = config[n]
        <5>1. n >= step /\ \A t \in Steps : t >= n => t >= step
          BY <1>2, <4>2
        <5> QED BY <1>1, <4>1, <5>1 DEF Ahead
      <4> QED BY <1>1, <2>1, <4>1, <4>2 DEF Ahead
    <3> QED BY <3>1, <3>2 DEF Ahead
  <2> QED BY <1>1, <2>4, <2>5, <2>6 DEF Traced, ValueInv
<1> QED BY <1>1, <1>4, <1>5, <1>6, <1>7, <1>8 DEF Next, ValueInv

\* The configurations and the state keep their types, and the kind of the last
\* statement sends a reader to an entry that exists.
THEOREM TypeCorrect == Spec => []TypeOK
<1>1. Inv => TypeOK
  BY DEF Inv
<1> QED BY <1>1, InvHolds, PTL

\* However a simulator evaluates, and whatever actions add, an ASSIGN of a
\* field quantity and an UPDATE NEXT are carried out at most once.
THEOREM StatementsCarriedOutOnce == Spec => []CarriedOutOnce
<1>1. ASSUME Inv PROVE CarriedOutOnce
  <2>1. \A no \in Numbers : times[no] \in 0 .. 2
    BY <1>1 DEF Inv, TypeOK
  <2>2. \A t \in Steps : config[t].assign.no \in Numbers /\ config[t].define.by \in Numbers
    BY <1>1 DEF Inv, TypeOK, UDQConfig, UDQAssign, UDQDefine
  <2>3. \A no \in Numbers : times[no] > 0 \/ times[no] <= 1
    BY <2>1
  <2> QED BY <1>1, <2>2, <2>3 DEF Inv, Counted, AssignedOnce, UpdatedOnce, CarriedOutOnce
<1> QED BY <1>1, InvHolds, PTL

\* The statement of an action is in every configuration from its step on, and
\* in no earlier one.
THEOREM ActionsReachLaterSteps == Spec => ActionReachesLaterSteps
<1> DEFINE Step ==
      phase = "run" /\ phase' = "run" /\ count' # count =>
        \A t \in Steps :
          /\ t < step => config'[t] = config[t]
          /\ t >= step => \/ Bears(config'[t], count')
                          \/ config'[t].unit # Null /\ config'[t].unit = config'[step].unit
<1>1. ASSUME Inv, [Next]_vars PROVE Step
  <2> SUFFICES ASSUME phase = "run", phase' = "run", count' # count PROVE Step
    OBVIOUS
  <2>1. PICK rec \in Records : ActionUdq(rec)
    BY <1>1 DEF Next, Udq, EndReportStep, EndSection, Eval, NextReportStep, vars
  <2>2. /\ \A t \in Steps : t < step => config'[t] = config[t]
        /\ \A t \in Steps : t >= step => Taken(config[t], config'[t], rec, count', step)
    BY <1>1, <2>1, ActionUdqChanges
  <2>3. step \in Steps /\ step >= step
    BY <1>1 DEF Inv, TypeOK, Steps
  <2>4. ASSUME NEW t \in Steps, t >= step
        PROVE  \/ Bears(config'[t], count')
               \/ config'[t].unit # Null /\ config'[t].unit = config'[step].unit
    <3>1. CASE rec \in Units
      BY <2>2, <2>3, <2>4, <3>1, UnitsAssumption, NullAssumption DEF Taken, Updates
    <3>2. CASE rec \notin Units
      BY <2>2, <2>4, <3>2 DEF Taken, Bears
    <3> QED BY <3>1, <3>2
  <2> QED BY <2>2, <2>4
<1>2. Inv /\ [Next]_vars => [Step]_vars
  BY <1>1
<1> QED BY <1>2, InvHolds, PTL DEF Spec, ActionReachesLaterSteps

\* After an evaluation at a time step the value is that of the statement in
\* force, and an UPDATE NEXT has been carried out, but for the statements of
\* actions that come after the evaluation of their own report step.
THEOREM ValueInForce == Spec => []ValueOfStatementInForce
<1>1. ValueInv => ValueOfStatementInForce
  BY DEF ValueInv
<1> QED BY <1>1, ValueInit, ValueNext, PTL DEF Spec
=============================================================================
