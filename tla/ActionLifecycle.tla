--------------------------- MODULE ActionLifecycle ---------------------------
(***************************************************************************)
(* The ACTIONX definitions of a Schedule and the Action::State in which a  *)
(* simulator counts their runs.                                            *)
(*                                                                         *)
(* While the section is read, a definition joins the Actions of its report *)
(* step and of those to come; one with a known name takes the place of the *)
(* older one and gets the next id.  In the simulation the Actions of the   *)
(* report step say which definitions are ready; those whose condition      *)
(* holds are applied and counted under their name and id.  The conditions  *)
(* and the keywords of the blocks are left to chance: what an applied      *)
(* block does to the wells is the subject of WellTimeline.                 *)
(***************************************************************************)
EXTENDS DynamicState

CONSTANTS
  NSteps,     \* number of report steps: TimeMap::size()
  Names,      \* names of actions
  Limits,     \* values of NUM, the largest number of runs
  Waits,      \* values of MIN_WAIT
  StepLength, \* simulated time between two report steps
  MaxDefs,    \* bound: definitions in the section
  Null        \* no definition, no run

Steps == 0 .. NSteps - 1
Ids == 0 .. MaxDefs
Times == 0 .. NSteps * StepLength

ASSUME NStepsAssumption == NSteps \in Nat \ {0}
ASSUME LengthAssumption == StepLength \in Nat \ {0}
ASSUME MaxDefsAssumption == MaxDefs \in Nat
ASSUME LimitsAssumption == Limits \subseteq Nat /\ Waits \subseteq Nat

\* A definition.  "serial" numbers the definitions of the section: the code
\* has no such number, the properties tell definitions apart by it.
ActionX == [id : Ids, max_run : Limits, min_wait : Waits, start_time : Times,
            serial : 1 .. MaxDefs]

RunState == [run_count : Nat \ {0}, last_run : Times]

ASSUME NullAssumption == Null \notin ActionX \cup RunState

VARIABLES
  phase,     \* "parse" while the section is read, "run" in the simulation
  step,      \* currentStep of the section, then the report step simulated
  now,       \* simulated time
  actions,   \* Schedule::m_actions: at each step the definition of each name
  runState,  \* Action::State: runs by name and id
  defs,      \* number of definitions read
  runs       \* history: the runs of each definition, by its serial number

vars == <<phase, step, now, actions, runState, defs, runs>>

StartTime(t) == t * StepLength

-----------------------------------------------------------------------------
\* Variant: the definition that replaces another one keeps the first id.
SameId(current, n, action) == [current EXCEPT ![n] = action]

\* Actions::add(): an unknown name keeps the id 0 of a new definition.
Add(current, n, action) ==
  [current EXCEPT ![n] =
     IF @ = Null THEN action ELSE [action EXCEPT !.id = current[n].id + 1]]

\* State::run_count()
RunCount(n, action) ==
  LET state == runState[<<n, action.id>>]
  IN IF state = Null THEN 0 ELSE state.run_count

\* ActionX::ready()
Ready(n, action) ==
  /\ RunCount(n, action) < action.max_run
  /\ now >= action.start_time
  /\ \/ RunCount(n, action) = 0
     \/ action.min_wait <= 0
     \/ now - runState[<<n, action.id>>].last_run > action.min_wait

\* Actions::pending() for the Actions of the report step, by name.
Pending == {n \in Names : actions[step][n] # Null /\ Ready(n, actions[step][n])}

\* The entry of a state after a run at the time now.
OneMore(state) ==
  IF state = Null
  THEN [run_count |-> 1, last_run |-> now]
  ELSE [run_count |-> state.run_count + 1, last_run |-> now]

\* State::add_run() for the definitions in force with the names R.
AddRuns(R) ==
  [k \in Names \X Ids |->
     IF k[1] \in R /\ actions[step][k[1]].id = k[2] THEN OneMore(runState[k]) ELSE runState[k]]

-----------------------------------------------------------------------------
Init ==
  /\ phase = "parse"
  /\ step = 0
  /\ now = 0
  /\ actions = Filled(NSteps, [n \in Names |-> Null])
  /\ runState = [k \in Names \X Ids |-> Null]
  /\ defs = 0
  /\ runs = [s \in 1 .. MaxDefs |-> Null]

\* Variant: the new Actions replace those of all steps.
AtAllSteps(n, num, wait) ==
  /\ phase = "parse"
  /\ defs < MaxDefs
  /\ LET action == [id |-> 0, max_run |-> num, min_wait |-> wait,
                    start_time |-> StartTime(step), serial |-> defs + 1]
     IN actions' = Filled(NSteps, Add(actions[step], n, action))
  /\ defs' = defs + 1
  /\ UNCHANGED <<phase, step, now, runState, runs>>

\* ACTIONX ... ENDACTIO: addACTIONX().
Actionx(n, num, wait) ==
  /\ phase = "parse"
  /\ defs < MaxDefs
  /\ LET action == [id |-> 0, max_run |-> num, min_wait |-> wait,
                    start_time |-> StartTime(step), serial |-> defs + 1]
     IN actions' = Update(actions, step, Add(actions[step], n, action))
  /\ defs' = defs + 1
  /\ UNCHANGED <<phase, step, now, runState, runs>>

\* DATES and TSTEP.
EndReportStep ==
  /\ phase = "parse"
  /\ step + 1 \in Steps
  /\ step' = step + 1
  /\ UNCHANGED <<phase, now, actions, runState, defs, runs>>

EndSection ==
  /\ phase = "parse"
  /\ phase' = "run"
  /\ step' = 0
  /\ UNCHANGED <<now, actions, runState, defs, runs>>

-----------------------------------------------------------------------------
(* The simulator, which is not part of the repository.                     *)

\* Of the definitions that are pending those with the names R are run.
EvaluateActions(R) ==
  /\ phase = "run"
  /\ R # {} /\ R \subseteq Pending
  /\ runState' = AddRuns(R)
  /\ runs' = [s \in 1 .. MaxDefs |->
       IF \E n \in R : actions[step][n].serial = s THEN OneMore(runs[s]) ELSE runs[s]]
  /\ UNCHANGED <<phase, step, now, actions, defs>>

\* A time step within the report step.
TimeStep ==
  /\ phase = "run"
  /\ now < StartTime(step + 1)
  /\ now' = now + 1
  /\ UNCHANGED <<phase, step, actions, runState, defs, runs>>

\* Variant: the simulator goes on after the last step.
StepAfterTheLast ==
  /\ phase = "run"
  /\ now = StartTime(step + 1)
  /\ step' = step + 1
  /\ UNCHANGED <<phase, now, actions, runState, defs, runs>>

\* The last step of the time map is the end of the simulation.
NextReportStep ==
  /\ phase = "run"
  /\ now = StartTime(step + 1)
  /\ step + 1 < NSteps - 1
  /\ step' = step + 1
  /\ UNCHANGED <<phase, now, actions, runState, defs, runs>>

Next ==
  \/ \E n \in Names, num \in Limits, wait \in Waits : Actionx(n, num, wait)
  \/ EndReportStep
  \/ EndSection
  \/ \E R \in SUBSET Names : EvaluateActions(R)
  \/ TimeStep
  \/ NextReportStep

Spec == Init /\ [][Next]_vars

-----------------------------------------------------------------------------
TypeOK ==
  /\ phase \in {"parse", "run"}
  /\ step \in Steps
  /\ now \in Times
  /\ actions \in [Steps -> [Names -> ActionX \cup {Null}]]
  /\ runState \in [Names \X Ids -> RunState \cup {Null}]
  /\ defs \in 0 .. MaxDefs
  /\ runs \in [1 .. MaxDefs -> RunState \cup {Null}]

\* Whether a definition may run, judged by the runs of this very definition.
MayRun(action) ==
  LET own == runs[action.serial]
  IN \/ own = Null /\ action.max_run > 0
     \/ /\ own # Null
        /\ own.run_count < action.max_run
        /\ action.min_wait > 0 => now - own.last_run > action.min_wait

\* A definition is pending exactly as long as it has runs left and has waited
\* long enough since its last run, whatever ran under its name before it was
\* given anew or will be given later (Actions::add, ActionX::ready, State).
PendingByOwnRuns ==
  phase = "run" =>
    Pending = {n \in Names : actions[step][n] # Null /\ MayRun(actions[step][n])}

\* No definition ever runs more often than its NUM allows.
RunsWithinLimit ==
  \A t \in Steps, n \in Names :
    /\ actions[t][n] # Null
    /\ runs[actions[t][n].serial] # Null
    => runs[actions[t][n].serial].run_count <= actions[t][n].max_run

\* Reading the section implements the promise of DynamicState: a definition
\* given anew leaves the older one in force at the steps before.
Promise == INSTANCE Timeline
  WITH Initial <- [n \in Names |-> Null],
       now <- IF phase = "parse" THEN step ELSE NSteps - 1,
       value <- actions

LastDefinitionApplies == Promise!Spec
=============================================================================
