------------------------------ MODULE WellTest ------------------------------
(***************************************************************************)
(* Periodic testing of one closed well: WellTestConfig, what the WTEST     *)
(* keywords ask for, and WellTestState, where the simulator keeps which    *)
(* wells and completions it has closed, when they were tested last and how *)
(* often.  Entries of different wells never meet, so one well is enough.   *)
(*                                                                         *)
(* The configuration of a report step is read before the simulation, but   *)
(* nothing in the simulation changes it: here the keywords of a step are   *)
(* read (phase "deck") when the simulation comes to it (phase "run").      *)
(***************************************************************************)
EXTENDS Integers

CONSTANTS
  NSteps,       \* number of report steps: TimeMap::size()
  Reasons,      \* reasons for closing a well, "COMPLETION" among them or not
  Completions,  \* numbers of the completions of the well
  Plans,        \* [interval, num] of the WTEST keyword
  MaxTime,      \* bound: simulated time
  Null          \* no entry

Steps == 0 .. NSteps - 1
Times == 0 .. MaxTime

ASSUME NStepsAssumption == NSteps \in Nat \ {0}
ASSUME MaxTimeAssumption == MaxTime \in Nat

\* What a WTEST asks for, of one well and reason.
Request == [interval : Nat, num : Nat]

ASSUME PlansAssumption == Plans \subseteq Request

\* An entry of WellTestConfig, of WellTestState::wells and ::completions.
WTESTWell == [interval : Nat, num : Nat, begin_report_step : Steps]
WTestWell == [closed : BOOLEAN, last_test : Times, num_attempt : Nat,
              wtest_report_step : Steps \cup {-1}]
ClosedCompletion == [last_test : Times, num_attempt : Nat]

ASSUME NullAssumption ==
  Null \notin Request \cup WTESTWell \cup WTestWell \cup ClosedCompletion

VARIABLES
  phase,        \* "deck" while the keywords of a step are read, else "run"
  step,         \* report step
  now,          \* simulated time
  config,       \* WellTestConfig of the step: reason -> entry
  wells,        \* WellTestState::wells: reason -> entry
  completions,  \* WellTestState::completions: number -> entry
  ok            \* no logic_error was thrown

vars == <<phase, step, now, config, wells, completions, ok>>

-----------------------------------------------------------------------------
Has(r) == config[r] # Null

\* The test an entry waits for: WTEST in force, interval over, tests left.
\* updateWells() and updateCompletion() have the same condition.
Waited(entry, wtest) ==
  /\ now - entry.last_test >= wtest.interval
  /\ wtest.num = 0 \/ entry.num_attempt < wtest.num

\* Variant: the time of the test is not noted.
TestedAtNoTime(entry) == [entry EXCEPT !.num_attempt = @ + 1]

\* The entry after a test.
Tested(entry) == [entry EXCEPT !.last_test = now, !.num_attempt = @ + 1]

\* Variant: a new keyword does not reset the counter.
CountingGoesOn(r) ==
  [wells[r] EXCEPT !.wtest_report_step = IF Has(r) THEN config[r].begin_report_step ELSE -1]

\* Variant: a WTEST of report step 0 is not taken for one.
StepZeroForgotten(r) ==
  LET w == wells[r]
  IN IF Has(r)
     THEN IF config[r].begin_report_step > w.wtest_report_step
          THEN [w EXCEPT !.num_attempt = 0,
                         !.wtest_report_step = config[r].begin_report_step]
          ELSE w
     ELSE IF w.wtest_report_step > 0
          THEN [w EXCEPT !.num_attempt = 0, !.wtest_report_step = -1]
          ELSE w

\* updateForNewWTEST() for one entry: a WTEST that is new to the entry counts
\* from the start, and so does the end of the testing.
UpdatedForNewWTEST(r) ==
  LET w == wells[r]
  IN IF Has(r)
     THEN IF config[r].begin_report_step > w.wtest_report_step
          THEN [w EXCEPT !.num_attempt = 0,
                         !.wtest_report_step = config[r].begin_report_step]
          ELSE w
     ELSE IF w.wtest_report_step >= 0
          THEN [w EXCEPT !.num_attempt = 0, !.wtest_report_step = -1]
          ELSE w

\* The two logic errors of updateForNewWTEST().
LogicError(r, w) ==
  IF Has(r)
  THEN w.wtest_report_step # config[r].begin_report_step
  ELSE w.wtest_report_step # -1 \/ w.num_attempt # 0

Entries == {r \in Reasons : wells[r] # Null}

\* The reasons updateWells() returns: what is to be tested, if the status of
\* the well in the schedule is OPEN.
WellTests(open) ==
  {r \in Entries : open /\ wells[r].closed /\ Has(r) /\ Waited(UpdatedForNewWTEST(r), config[r])}

\* The completions updateCompletion() returns.
CompletionTests ==
  {c \in Completions :
     /\ completions[c] # Null
     /\ "COMPLETION" \in Reasons /\ Has("COMPLETION")
     /\ Waited(completions[c], config["COMPLETION"])}

-----------------------------------------------------------------------------
Init ==
  /\ phase = "deck"
  /\ step = 0
  /\ now = 0
  /\ config = [r \in Reasons |-> Null]
  /\ wells = [r \in Reasons |-> Null]
  /\ completions = [c \in Completions |-> Null]
  /\ ok = TRUE

\* A WTEST record: add_well() for each reason, or drop_well() without any.
Wtest(R, plan) ==
  /\ phase = "deck"
  /\ config' =
       [r \in Reasons |->
          IF r \in R THEN [interval |-> plan.interval, num |-> plan.num, begin_report_step |-> step]
          ELSE IF R = {} THEN Null
          ELSE config[r]]
  /\ UNCHANGED <<phase, step, now, wells, completions, ok>>

BeginReportStep ==
  /\ phase = "deck"
  /\ phase' = "run"
  /\ UNCHANGED <<step, now, config, wells, completions, ok>>

Running == phase = "run" /\ ok

\* closeWell(): the caller does not close a well twice for one reason.
CloseWell(r) ==
  /\ Running
  /\ wells[r] # Null => ~wells[r].closed
  /\ wells' = [wells EXCEPT ![r] =
       IF @ = Null
       THEN [closed |-> TRUE, last_test |-> now, num_attempt |-> 0, wtest_report_step |-> -1]
       ELSE [@ EXCEPT !.closed = TRUE, !.last_test = now]]
  /\ UNCHANGED <<phase, step, now, config, completions, ok>>

\* openWell(name, reason) after a successful test: there is an entry.
OpenWellForReason(r) ==
  /\ Running
  /\ wells[r] # Null
  /\ wells' = [wells EXCEPT ![r].closed = FALSE]
  /\ UNCHANGED <<phase, step, now, config, completions, ok>>

\* openWell(name), when a keyword opens the well: for whatever reason.
OpenWell ==
  /\ Running
  /\ wells' = [r \in Reasons |->
       IF r \in Entries THEN [wells[r] EXCEPT !.closed = FALSE] ELSE Null]
  /\ UNCHANGED <<phase, step, now, config, completions, ok>>

\* updateWells() with the status the schedule has at the time; an exception
\* leaves nothing that is used again.
UpdateWells(open) ==
  /\ Running
  /\ ok' = ~ \E r \in Entries : LogicError(r, UpdatedForNewWTEST(r))
  /\ wells' = [r \in Reasons |->
       IF r \in WellTests(open) THEN Tested(UpdatedForNewWTEST(r))
       ELSE IF r \in Entries THEN UpdatedForNewWTEST(r)
       ELSE Null]
  /\ UNCHANGED <<phase, step, now, config, completions>>

\* addClosedCompletion(), dropCompletion()
AddClosedCompletion(c) ==
  /\ Running
  /\ completions[c] = Null
  /\ completions' = [completions EXCEPT ![c] = [last_test |-> now, num_attempt |-> 0]]
  /\ UNCHANGED <<phase, step, now, config, wells, ok>>

DropCompletion(c) ==
  /\ Running
  /\ completions' = [completions EXCEPT ![c] = Null]
  /\ UNCHANGED <<phase, step, now, config, wells, ok>>

UpdateCompletion ==
  /\ Running
  /\ completions' = [c \in Completions |->
       IF c \in CompletionTests THEN Tested(completions[c]) ELSE completions[c]]
  /\ UNCHANGED <<phase, step, now, config, wells, ok>>

\* Variant: the simulator goes on after the last step.
StepAfterTheLast ==
  /\ Running
  /\ step' = step + 1
  /\ phase' = "deck"
  /\ UNCHANGED <<now, config, wells, completions, ok>>

\* The simulator goes on in time, and over to the next report step.
TimeStep ==
  /\ Running
  /\ now < MaxTime
  /\ now' = now + 1
  /\ UNCHANGED <<phase, step, config, wells, completions, ok>>

NextReportStep ==
  /\ Running
  /\ step + 1 \in Steps
  /\ step' = step + 1
  /\ phase' = "deck"
  /\ UNCHANGED <<now, config, wells, completions, ok>>

Next ==
  \/ \E R \in SUBSET Reasons, plan \in Plans : Wtest(R, plan)
  \/ BeginReportStep
  \/ \E r \in Reasons : CloseWell(r) \/ OpenWellForReason(r)
  \/ OpenWell
  \/ \E open \in BOOLEAN : UpdateWells(open)
  \/ \E c \in Completions : AddClosedCompletion(c) \/ DropCompletion(c)
  \/ UpdateCompletion
  \/ TimeStep
  \/ NextReportStep

Spec == Init /\ [][Next]_vars

-----------------------------------------------------------------------------
TypeOK ==
  /\ phase \in {"deck", "run"}
  /\ step \in Steps
  /\ now \in Times
  /\ config \in [Reasons -> WTESTWell \cup {Null}]
  /\ wells \in [Reasons -> WTestWell \cup {Null}]
  /\ completions \in [Completions -> ClosedCompletion \cup {Null}]
  /\ ok \in BOOLEAN

\* The counters of an entry always belong to the WTEST in force or to an
\* older one: the logic errors "Bug in eflow when using WTEST information" are
\* never thrown (WellTestState::updateForNewWTEST).
NoLogicError == ok

\* WellTestState does what the WTEST keywords ask for although it notices a
\* new keyword only when it next looks for tests: the tests made under a
\* keyword are those counted by an entry that knows the keyword, else none.
Promise == INSTANCE Tester
  WITH plan <- [r \in Reasons |->
         IF config[r] = Null THEN Null
         ELSE [interval |-> config[r].interval, num |-> config[r].num]],
       made <- [r \in Reasons |->
         IF config[r] # Null /\ wells[r] # Null
            /\ wells[r].wtest_report_step = config[r].begin_report_step
         THEN wells[r].num_attempt ELSE 0],
       closed <- {r \in Entries : wells[r].closed},
       since <- [r \in Reasons |-> IF wells[r] = Null THEN 0 ELSE wells[r].last_test]

TestsAsWtestAsks == Promise!Spec

\* However the WTEST keywords follow each other, the completions are never
\* tested more often than the keyword with the largest number allows, nor
\* faster than the one with the shortest interval (updateCompletion, which
\* unlike updateWells goes on counting when there is a new keyword).
CompletionTestsBounded ==
  \A c \in Completions : completions[c] # Null =>
    LET entry == completions[c]
    IN entry.num_attempt > 0 =>
         /\ \E p \in Plans : p.num = 0 \/ entry.num_attempt <= p.num
         /\ \E p \in Plans : entry.num_attempt * p.interval <= entry.last_test
=============================================================================
