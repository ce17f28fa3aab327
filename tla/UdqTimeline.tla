---------------------------- MODULE UdqTimeline ----------------------------
(***************************************************************************)
(* A user defined quantity: the UDQConfig objects of a Schedule and the    *)
(* UDQState in which a simulator keeps the value.                          *)
(*                                                                         *)
(* UDQ keywords of the section copy the configuration and apply from their *)
(* report step on.  A UDQ keyword in an ACTIONX replaces the object in     *)
(* force and adds its records, in place, to every later object.  At the    *)
(* time steps of the simulation UDQConfig::eval() lets the configuration   *)
(* of the report step write the value: first ASSIGN, then DEFINE.          *)
(*                                                                         *)
(* There is one quantity, of a field or of all wells (no selectors, one    *)
(* value), and a value is the number of the statement it comes from:       *)
(* expressions and their arithmetic are data.  A keyword has one record.   *)
(***************************************************************************)
EXTENDS DynamicState

CONSTANTS
  NSteps,        \* number of report steps: TimeMap::size()
  Units,         \* units a UNITS record may name
  MaxStatements, \* bound: records of the section and of the actions
  Null           \* nothing: no unit, no step, an exception

Steps == 0 .. NSteps - 1

\* The numbers of the statements, the assignment of 0 that UNITS implies, none.
Implied == MaxStatements + 1
Numbers == 0 .. Implied

\* The members of UDQUpdate, and the records of a UDQ keyword: the third item
\* of an UPDATE and of a UNITS stand for the whole record.
Updates == {"ON", "OFF", "NEXT"}
Records == {"ASSIGN", "DEFINE"} \cup Updates \cup Units

ASSUME NStepsAssumption == NSteps \in Nat \ {0}
ASSUME MaxStatementsAssumption == MaxStatements \in Nat
ASSUME UnitsAssumption == Units \cap ({"ASSIGN", "DEFINE"} \cup Updates) = {}

\* The last record of the UDQAssign, the UDQDefine, and the whole for the one
\* quantity.  "no" is the number of the statement and 0 if there is none, "by"
\* the number of the UPDATE that set the status; both are for the properties.
\* "id" is the address of the object.
UDQAssign == [no : Numbers, step : Steps]
UDQDefine == [no : Numbers, status : Updates, step : Steps, by : Numbers]
UDQConfig == [id : Numbers, action : {"NONE", "ASSIGN", "DEFINE"},
              assign : UDQAssign, define : UDQDefine, unit : Units \cup {Null}]

ASSUME NullAssumption == Null \notin UDQConfig \cup Units \cup Steps

VARIABLES
  phase,     \* "parse", "run", or "failed" after an exception
  step,      \* currentStep of the section, then the report step simulated
  kind,      \* UDQVarType: "FIELD" or "WELL"
  config,    \* Schedule::udq_config
  count,     \* statements given so far, also the objects allocated
  state,     \* UDQState: the steps of the last assignment and definition, the value
  evaluated, \* whether the value is the work of an eval() with the present config
  times,     \* history: evaluations of each ASSIGN and UPDATE NEXT, up to 2
  late       \* history: statements of actions after an eval() of the same step

vars == <<phase, step, kind, config, count, state, evaluated, times, late>>

-----------------------------------------------------------------------------
Empty == [id |-> 0, action |-> "NONE", assign |-> [no |-> 0, step |-> 0],
          define |-> [no |-> 0, status |-> "ON", step |-> 0, by |-> 0], unit |-> Null]

HasKeyword(c) == c.assign.no # 0 \/ c.define.no # 0 \/ c.unit # Null

\* add_assign() and add_define(); a definition given anew is ON.
AddAssign(c, no, t) ==
  [c EXCEPT !.action = "ASSIGN", !.assign = [no |-> no, step |-> t]]

AddDefine(c, no, t) ==
  [c EXCEPT !.action = "DEFINE",
            !.define = [no |-> no, status |-> "ON", step |-> t, by |-> no]]

\* Variant: the quantity becomes known without an assignment.
UnitOnly(c, unit) ==
  IF c.unit # Null
  THEN IF c.unit = unit THEN c ELSE Null
  ELSE [c EXCEPT !.unit = unit, !.action = IF @ = "NONE" THEN "ASSIGN" ELSE @]

\* add_unit(): naming the unit of an unknown quantity assigns it at step 0.
AddUnit(c, unit) ==
  IF c.unit # Null
  THEN IF c.unit = unit THEN c ELSE Null
  ELSE [IF HasKeyword(c) THEN c ELSE AddAssign(c, Implied, 0) EXCEPT !.unit = unit]

\* Variant: an UPDATE keeps the step of the DEFINE.
StepOfDefine(c, no, t, status) ==
  IF c.define.no = 0
  THEN Null
  ELSE [c EXCEPT !.define.status = status, !.define.by = no]

\* add_update(): only of a quantity that has a definition.
AddUpdate(c, no, t, status) ==
  IF c.define.no = 0
  THEN Null
  ELSE [c EXCEPT !.define.status = status, !.define.step = t, !.define.by = no]

\* add_record(), Null for an exception.
AddRecord(c, rec, no, t) ==
  CASE rec = "ASSIGN"   -> AddAssign(c, no, t)
    [] rec = "DEFINE"   -> AddDefine(c, no, t)
    [] rec \in Updates  -> AddUpdate(c, no, t, rec)
    [] rec \in Units    -> AddUnit(c, rec)

-----------------------------------------------------------------------------
Init ==
  /\ phase = "parse"
  /\ step = 0
  /\ kind \in {"FIELD", "WELL"}
  /\ config = Filled(NSteps, Empty)
  /\ count = 0
  /\ state = [assigned |-> Null, defined |-> Null, value |-> 0]
  /\ evaluated = FALSE
  /\ times = [no \in Numbers |-> 0]
  /\ late = {}

\* handleUDQ(): a copy of the object in force, from the step on.
Udq(rec) ==
  /\ phase = "parse"
  /\ count < MaxStatements
  /\ count' = count + 1
  /\ LET new == AddRecord(config[step], rec, count + 1, step)
     IN IF new = Null
        THEN phase' = "failed" /\ UNCHANGED config
        ELSE /\ config' = Update(config, step, [new EXCEPT !.id = count + 1])
             /\ UNCHANGED phase
  /\ UNCHANGED <<step, kind, state, evaluated, times, late>>

\* DATES and TSTEP, and the end of the section.
EndReportStep ==
  /\ phase = "parse"
  /\ step + 1 \in Steps
  /\ step' = step + 1
  /\ UNCHANGED <<phase, kind, config, count, state, evaluated, times, late>>

EndSection ==
  /\ phase = "parse"
  /\ phase' = "run"
  /\ step' = 0
  /\ UNCHANGED <<kind, config, count, state, evaluated, times, late>>

-----------------------------------------------------------------------------
(* The simulation.                                                         *)

\* Variant: the step of the evaluation for both kinds of quantities.
AssignedEveryStep(c) ==
  c.assign.no # 0 /\ (state.assigned = Null \/ step > state.assigned)

\* Whether eval() assigns: UDQState::assign(), asked with the step of the
\* record for a field and with the report step for the wells.
Assigns(c) ==
  /\ c.assign.no # 0
  /\ \/ state.assigned = Null
     \/ (IF kind = "FIELD" THEN c.assign.step ELSE step) > state.assigned

\* Whether eval() evaluates the definition: UDQState::define().
Defines(c) ==
  /\ c.action = "DEFINE"
  /\ \/ c.define.status = "ON"
     \/ /\ c.define.status = "NEXT"
        /\ state.defined = Null \/ state.defined < c.define.step

\* The statements that one evaluation carries out and that must not be
\* carried out again.
CarriedOut(c) ==
  (IF Assigns(c) THEN {c.assign.no} ELSE {})
    \cup (IF Defines(c) /\ c.define.status = "NEXT" THEN {c.define.by} ELSE {})

\* UDQConfig::eval() at a time step: assignments, then definitions.
Eval ==
  /\ phase = "run"
  /\ LET c == config[step]
     IN /\ state' = [assigned |-> IF Assigns(c) THEN step ELSE state.assigned,
                     defined |-> IF Defines(c) THEN step ELSE state.defined,
                     value |-> CASE Defines(c) -> c.define.no
                                 [] ~Defines(c) /\ Assigns(c) -> c.assign.no
                                 [] OTHER -> state.value]
        /\ times' = [no \in Numbers |->
             IF no \in CarriedOut(c) /\ times[no] < 2 THEN times[no] + 1 ELSE times[no]]
  /\ evaluated' = TRUE
  /\ UNCHANGED <<phase, step, kind, config, count, late>>

\* Variant: later objects are left as the section made them.
InForceOnly(rec, no) ==
  LET new == [AddRecord(config[step], rec, no, step) EXCEPT !.id = no]
  IN UpdateEqual(config, step, new)

\* What updateUDQ() leaves behind when the object in force takes the record:
\* a changed copy over its run of steps, and the objects that begin later
\* changed in place, one after the other, up to the first that throws.
UpdateUDQ(rec, no) ==
  LET new == [AddRecord(config[step], rec, no, step) EXCEPT !.id = no]
      own == EqualRun(config, step)
      taken(t) == \A u \in step + 1 .. t : AddRecord(config[u], rec, no, step) # Null
  IN [t \in Steps |->
        CASE t \in own -> new
          [] t > step /\ t \notin own /\ taken(t) -> AddRecord(config[t], rec, no, step)
          [] OTHER -> config[t]]

\* applyAction() with a UDQ keyword.
ActionUdq(rec) ==
  /\ phase = "run"
  /\ count < MaxStatements
  /\ count' = count + 1
  /\ IF \E t \in step .. NSteps - 1 : AddRecord(config[t], rec, count + 1, step) = Null
     THEN phase' = "failed"
     ELSE UNCHANGED phase
  /\ config' = IF AddRecord(config[step], rec, count + 1, step) = Null
               THEN config
               ELSE UpdateUDQ(rec, count + 1)
  /\ evaluated' = FALSE
  /\ late' = IF \/ rec = "ASSIGN" /\ state.assigned = step
                \/ rec = "NEXT" /\ state.defined = step
             THEN late \cup {count + 1}
             ELSE late
  /\ UNCHANGED <<step, kind, state, times>>

\* The last step of the time map is the end of the simulation.
NextReportStep ==
  /\ phase = "run"
  /\ step + 2 < NSteps
  /\ step' = step + 1
  /\ evaluated' = FALSE
  /\ UNCHANGED <<phase, kind, config, count, state, times, late>>

Next ==
  \/ \E rec \in Records : Udq(rec) \/ ActionUdq(rec)
  \/ EndReportStep \/ EndSection
  \/ Eval
  \/ NextReportStep

Spec == Init /\ [][Next]_vars

-----------------------------------------------------------------------------
\* The state is of its types, and the map that "action" sends a reader of the
\* configuration to has the entry (definitions(), assignments(), input()).
TypeOK ==
  /\ phase \in {"parse", "run", "failed"}
  /\ step \in Steps
  /\ kind \in {"FIELD", "WELL"}
  /\ config \in [Steps -> UDQConfig]
  /\ count \in 0 .. MaxStatements
  /\ state \in [assigned : Steps \cup {Null}, defined : Steps \cup {Null}, value : Numbers]
  /\ evaluated \in BOOLEAN
  /\ times \in [Numbers -> 0 .. 2]
  /\ late \subseteq Numbers
  /\ \A t \in Steps :
       /\ config[t].action = "ASSIGN" => config[t].assign.no # 0
       /\ config[t].action = "DEFINE" => config[t].define.no # 0

\* Whether the statement is part of a configuration.
Bears(c, no) == no \in {c.assign.no, c.define.no, c.define.by}

\* A statement of an action is part of the configuration of its report step
\* and of every later one, whatever the section says there, and of no earlier
\* one (updateUDQ).
ActionReachesLaterSteps ==
  [][phase = "run" /\ phase' = "run" /\ count' # count =>
       \A t \in Steps :
         /\ t < step => config'[t] = config[t]
         /\ t >= step => \/ Bears(config'[t], count')
                         \/ config'[t].unit # Null /\ config'[t].unit = config'[step].unit]_vars

\* A field quantity is assigned once by each ASSIGN, so that a definition that
\* counts on goes on counting, and an UPDATE NEXT evaluates the definition of
\* any quantity once (UDQState::assign, UDQState::define).
CarriedOutOnce ==
  \A t \in Steps :
    /\ kind = "FIELD" => times[config[t].assign.no] <= 1
    /\ config[t].define.status = "NEXT" => times[config[t].define.by] <= 1

\* After an evaluation the value is that of the statement in force, and an
\* UPDATE NEXT has been carried out.  Not so for the statement of an action in
\* a report step that had evaluated an assignment (for NEXT, a definition)
\* before the action ran: a well quantity is up to date at the next report
\* step, a field quantity and an UPDATE NEXT are never evaluated.
ValueOfStatementInForce ==
  phase = "run" /\ evaluated =>
    LET c == config[step]
        hidden(no, t) == no \in late /\ (kind = "FIELD" \/ t = step)
    IN /\ c.action = "ASSIGN" => state.value = c.assign.no \/ hidden(c.assign.no, c.assign.step)
       /\ c.action = "DEFINE" /\ c.define.status = "ON" => state.value = c.define.no
       /\ c.action = "DEFINE" /\ c.define.status = "NEXT"
            => times[c.define.by] = 1 \/ c.define.by \in late
=============================================================================
