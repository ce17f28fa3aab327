--------------------------- MODULE WellTestProofs ---------------------------
(***************************************************************************)
(* Proofs about WellTest, for every number of report steps, reasons,       *)
(* completions, times and plans.                                           *)
(*                                                                         *)
(* The counters of an entry belong to the WTEST whose report step it has   *)
(* noted.  The invariant says that this step is never ahead of the WTEST   *)
(* in force, and behind the current step while its keywords are read; with *)
(* it WellTestState implements Tester, and no logic error is thrown.       *)
(***************************************************************************)
EXTENDS WellTest, TLAPS

\* An entry that knows no WTEST counts nothing, and none knows a WTEST that
\* is newer than the one in force or that may still be replaced.
Counted ==
  \A r \in Reasons : wells[r] # Null =>
    /\ wells[r].wtest_report_step = -1 => wells[r].num_attempt = 0
    /\ wells[r].wtest_report_step <= step
    /\ phase = "deck" => wells[r].wtest_report_step < step
    /\ Has(r) => wells[r].wtest_report_step <= config[r].begin_report_step

InForce == \A r \in Reasons : Has(r) => config[r].begin_report_step <= step

Inv == TypeOK /\ Counted /\ InForce /\ NoLogicError

-----------------------------------------------------------------------------
\* What updateForNewWTEST() makes of an entry.
LEMMA UpdatedEntry ==
  ASSUME Inv, NEW r \in Reasons, wells[r] # Null
  PROVE  LET w == UpdatedForNewWTEST(r)
         IN /\ w \in WTestWell
            /\ ~LogicError(r, w)
            /\ w.closed = wells[r].closed
            /\ w.last_test = wells[r].last_test
            /\ w.wtest_report_step = (IF Has(r) THEN config[r].begin_report_step ELSE -1)
            /\ w.num_attempt =
                 IF Has(r) /\ wells[r].wtest_report_step = config[r].begin_report_step
                 THEN wells[r].num_attempt ELSE 0
<1> DEFINE v == wells[r]
           begin == config[r].begin_report_step
           w == UpdatedForNewWTEST(r)
<1>1. /\ v \in WTestWell /\ v # Null
      /\ v.wtest_report_step \in Int /\ v.wtest_report_step >= -1
      /\ v.wtest_report_step = -1 => v.num_attempt = 0
      /\ 0 \in Nat /\ -1 \in Steps \cup {-1}
  BY DEF Inv, TypeOK, Counted, WTestWell, Steps
<1>2. CASE Has(r)
  <2>1. begin \in Steps /\ begin \in Int /\ begin # -1 /\ v.wtest_report_step <= begin
    BY <1>1, <1>2 DEF Inv, TypeOK, Counted, Has, WTESTWell, Steps
  <2>2. CASE begin > v.wtest_report_step
    <3>1. w = [v EXCEPT !.num_attempt = 0, !.wtest_report_step = begin]
      BY <1>2, <2>2 DEF UpdatedForNewWTEST
    <3>2. /\ w \in WTestWell /\ w.closed = v.closed /\ w.last_test = v.last_test
          /\ w.num_attempt = 0 /\ w.wtest_report_step = begin
      BY <1>1, <2>1, <3>1 DEF WTestWell
    <3> HIDE DEF w
    <3> QED BY <1>1, <1>2, <2>1, <2>2, <3>2 DEF LogicError, w
  <2>3. CASE begin = v.wtest_report_step
    <3>1. w = v
      BY <1>2, <2>1, <2>3 DEF UpdatedForNewWTEST
    <3> QED BY <1>1, <1>2, <2>3, <3>1 DEF LogicError
  <2> QED BY <1>1, <2>1, <2>2, <2>3
<1>3. CASE ~Has(r)
  <2>1. CASE v.wtest_report_step >= 0
    <3>1. w = [v EXCEPT !.num_attempt = 0, !.wtest_report_step = -1]
      BY <1>3, <2>1 DEF UpdatedForNewWTEST
    <3>2. /\ w \in WTestWell /\ w.closed = v.closed /\ w.last_test = v.last_test
          /\ w.num_attempt = 0 /\ w.wtest_report_step = -1
      BY <1>1, <3>1 DEF WTestWell
    <3> HIDE DEF w
    <3> QED BY <1>3, <3>2 DEF LogicError, w
  <2>2. CASE v.wtest_report_step = -1
    <3>1. w = v
      BY <1>3, <2>2 DEF UpdatedForNewWTEST
    <3> QED BY <1>1, <1>3, <2>2, <3>1 DEF LogicError
  <2> QED BY <1>1, <2>1, <2>2
<1> QED BY <1>2, <1>3

\* A test changes the time and the counter of an entry.
LEMMA TestedEntry ==
  ASSUME NEW w \in WTestWell, now \in Times
  PROVE  /\ Tested(w) \in WTestWell
         /\ Tested(w).closed = w.closed
         /\ Tested(w).last_test = now
         /\ Tested(w).num_attempt = w.num_attempt + 1
         /\ Tested(w).wtest_report_step = w.wtest_report_step
<1>1. w.num_attempt + 1 \in Nat
  BY DEF WTestWell
<1> QED BY <1>1 DEF Tested, WTestWell

LEMMA TestedCompletion ==
  ASSUME NEW c \in ClosedCompletion, now \in Times
  PROVE  Tested(c) \in ClosedCompletion
<1>1. c.num_attempt + 1 \in Nat
  BY DEF ClosedCompletion
<1> QED BY <1>1 DEF Tested, ClosedCompletion

\* The entries after updateWells().
LEMMA UpdatedWells ==
  ASSUME Inv, NEW open \in BOOLEAN, UpdateWells(open)
  PROVE  /\ ok' = TRUE
         /\ \A r \in Reasons :
              /\ wells[r] = Null => wells'[r] = Null
              /\ wells[r] # Null =>
                   /\ wells'[r] \in WTestWell
                   /\ wells'[r].closed = wells[r].closed
                   /\ wells'[r].wtest_report_step =
                        (IF Has(r) THEN config[r].begin_report_step ELSE -1)
                   /\ wells'[r].last_test =
                        (IF r \in WellTests(open) THEN now ELSE wells[r].last_test)
                   /\ wells'[r].num_attempt =
                        UpdatedForNewWTEST(r).num_attempt + (IF r \in WellTests(open) THEN 1 ELSE 0)
<1>1. now \in Times
  BY DEF Inv, TypeOK
<1>2. ok' = TRUE
  BY UpdatedEntry DEF UpdateWells, Entries
<1>3. \A r \in Reasons :
        wells'[r] = IF r \in WellTests(open) THEN Tested(UpdatedForNewWTEST(r))
                    ELSE IF r \in Entries THEN UpdatedForNewWTEST(r)
                    ELSE Null
  BY DEF UpdateWells
<1>4. ASSUME NEW r \in Reasons, wells[r] = Null PROVE wells'[r] = Null
  BY <1>3, <1>4 DEF WellTests, Entries
<1>5. ASSUME NEW r \in Reasons, wells[r] # Null
      PROVE  /\ wells'[r] \in WTestWell
             /\ wells'[r].closed = wells[r].closed
             /\ wells'[r].wtest_report_step =
                  (IF Has(r) THEN config[r].begin_report_step ELSE -1)
             /\ wells'[r].last_test = (IF r \in WellTests(open) THEN now ELSE wells[r].last_test)
             /\ wells'[r].num_attempt =
                  UpdatedForNewWTEST(r).num_attempt + (IF r \in WellTests(open) THEN 1 ELSE 0)
  <2> DEFINE w == UpdatedForNewWTEST(r)
  <2>1. /\ w \in WTestWell /\ w.closed = wells[r].closed /\ w.last_test = wells[r].last_test
        /\ w.wtest_report_step = (IF Has(r) THEN config[r].begin_report_step ELSE -1)
    BY <1>5, UpdatedEntry
  <2>2. w.num_attempt \in Nat
    BY <2>1 DEF WTestWell
  <2>3. r \in Entries
    BY <1>5 DEF Entries
  <2> HIDE DEF w
  <2>4. CASE r \in WellTests(open)
    <3>1. wells'[r] = Tested(w)
      BY <1>3, <2>4 DEF w
    <3> QED BY <1>1, <2>1, <2>4, <3>1, TestedEntry DEF w
  <2>5. CASE r \notin WellTests(open)
    <3>1. wells'[r] = w
      BY <1>3, <2>3, <2>5 DEF w
    <3> QED BY <2>1, <2>2, <2>5, <3>1 DEF w
  <2> QED BY <2>4, <2>5
<1> QED BY <1>2, <1>4, <1>5

-----------------------------------------------------------------------------
LEMMA InitInv == Init => Inv
BY NStepsAssumption, MaxTimeAssumption
   DEF Init, Inv, TypeOK, Counted, InForce, NoLogicError, Has, Steps, Times

\* WTEST is read before the step that it begins with.
LEMMA WtestInv ==
  ASSUME Inv, NEW R \in SUBSET Reasons, NEW plan \in Plans, Wtest(R, plan)
  PROVE  Inv'
<1> DEFINE entry == [interval |-> plan.interval, num |-> plan.num, begin_report_step |-> step]
<1>1. phase = "deck" /\ UNCHANGED <<phase, step, now, wells, completions, ok>>
  BY DEF Wtest
<1>2. step \in Steps /\ step \in Int
  BY DEF Inv, TypeOK, Steps
<1>3. entry \in WTESTWell
  BY <1>2, PlansAssumption DEF WTESTWell, Request
<1>4. \A r \in Reasons : config'[r] \in {entry, config[r], Null}
  BY DEF Wtest
<1>5. config' \in [Reasons -> WTESTWell \cup {Null}]
  BY <1>3 DEF Wtest, Inv, TypeOK
<1>6. ASSUME NEW r \in Reasons, config'[r] # Null
      PROVE  /\ config'[r].begin_report_step <= step
             /\ wells[r] # Null => wells[r].wtest_report_step <= config'[r].begin_report_step
  <2>1. CASE config'[r] = entry
    <3>1. wells[r] # Null => wells[r].wtest_report_step <= step
      BY DEF Inv, Counted
    <3> QED BY <1>2, <2>1, <3>1
  <2>2. CASE config'[r] = config[r]
    BY <1>6, <2>2 DEF Inv, InForce, Counted, Has
  <2> QED BY <1>4, <1>6, <2>1, <2>2
<1>7. Counted' /\ InForce'
  BY <1>1, <1>6 DEF Inv, Counted, InForce, Has
<1> QED BY <1>1, <1>5, <1>7 DEF Inv, TypeOK, NoLogicError

\* The simulator goes on in time, or to the next report step and its keywords.
LEMMA ClockInv ==
  ASSUME Inv, BeginReportStep \/ TimeStep \/ NextReportStep \/ UNCHANGED vars
  PROVE  Inv'
<1>1. UNCHANGED <<config, wells, completions, ok>>
  BY DEF BeginReportStep, TimeStep, NextReportStep, vars
<1>2. step \in Steps /\ step \in Int /\ now \in Times
  BY DEF Inv, TypeOK, Steps
<1>3. ASSUME NEW r \in Reasons, wells[r] # Null PROVE wells[r].wtest_report_step \in Int
  BY <1>3 DEF Inv, TypeOK, WTestWell, Steps
<1>4. ASSUME NEW r \in Reasons, Has(r) PROVE config[r].begin_report_step \in Int
  BY <1>4 DEF Inv, TypeOK, WTESTWell, Steps, Has
<1>5. CASE BeginReportStep
  <2>1. phase' = "run" /\ UNCHANGED <<step, now>>
    BY <1>5 DEF BeginReportStep
  <2> QED BY <1>1, <2>1 DEF Inv, TypeOK, Counted, InForce, Has, NoLogicError
<1>6. CASE TimeStep
  <2>1. now' \in Times /\ UNCHANGED <<phase, step>>
    BY <1>2, <1>6, MaxTimeAssumption DEF TimeStep, Times
  <2> QED BY <1>1, <2>1 DEF Inv, TypeOK, Counted, InForce, Has, NoLogicError
<1>7. CASE NextReportStep
  <2>1. /\ phase = "run" /\ phase' = "deck" /\ step' = step + 1 /\ step + 1 \in Steps
        /\ UNCHANGED now
    BY <1>7 DEF NextReportStep, Running
  <2>2. TypeOK' /\ NoLogicError'
    BY <1>1, <2>1 DEF Inv, TypeOK, NoLogicError
  <2>3. Counted'
    <3> SUFFICES ASSUME NEW r \in Reasons, wells[r] # Null
                 PROVE  /\ wells[r].wtest_report_step = -1 => wells[r].num_attempt = 0
                        /\ wells[r].wtest_report_step <= step + 1
                        /\ wells[r].wtest_report_step < step + 1
                        /\ Has(r) => wells[r].wtest_report_step <= config[r].begin_report_step
      BY <1>1, <2>1 DEF Counted, Has
    <3>1. wells[r].wtest_report_step <= step
      BY DEF Inv, Counted
    <3> QED BY <1>2, <1>3, <3>1 DEF Inv, Counted
  <2>4. InForce'
    BY <1>1, <1>2, <1>4, <2>1 DEF Inv, InForce, Has
  <2> QED BY <2>2, <2>3, <2>4 DEF Inv
<1>8. CASE UNCHANGED vars
  BY <1>8 DEF vars, Inv, TypeOK, Counted, InForce, Has, NoLogicError
<1> QED BY <1>5, <1>6, <1>7, <1>8

\* Closing and opening touch no counter.
LEMMA CloseOpenInv ==
  ASSUME Inv, NEW r \in Reasons, CloseWell(r) \/ OpenWellForReason(r) \/ OpenWell
  PROVE  /\ Inv'
         /\ UNCHANGED <<phase, step, now, config, completions, ok>>
         /\ \A q \in Reasons : wells[q] # Null =>
              /\ wells'[q] # Null
              /\ wells'[q].num_attempt = wells[q].num_attempt
              /\ wells'[q].wtest_report_step = wells[q].wtest_report_step
         /\ \A q \in Reasons : wells[q] = Null /\ wells'[q] # Null =>
              wells'[q].wtest_report_step = -1
<1>1. phase = "run" /\ UNCHANGED <<phase, step, now, config, completions, ok>>
  BY DEF CloseWell, OpenWellForReason, OpenWell, Running
<1>2. /\ now \in Times /\ step \in Steps /\ 0 \in Nat
      /\ wells \in [Reasons -> WTestWell \cup {Null}]
  BY DEF Inv, TypeOK
<1>3. ASSUME NEW q \in Reasons
      PROVE  \/ wells'[q] = wells[q]
             \/ /\ wells[q] # Null
                /\ \/ wells'[q] = [wells[q] EXCEPT !.closed = TRUE, !.last_test = now]
                   \/ wells'[q] = [wells[q] EXCEPT !.closed = FALSE]
             \/ /\ wells[q] = Null
                /\ wells'[q] = [closed |-> TRUE, last_test |-> now, num_attempt |-> 0,
                                wtest_report_step |-> -1]
  BY <1>2 DEF CloseWell, OpenWellForReason, OpenWell, Entries
<1>4. ASSUME NEW q \in Reasons
      PROVE  /\ wells'[q] \in WTestWell \cup {Null}
             /\ wells[q] # Null =>
                  /\ wells'[q] # Null
                  /\ wells'[q].num_attempt = wells[q].num_attempt
                  /\ wells'[q].wtest_report_step = wells[q].wtest_report_step
             /\ wells[q] = Null /\ wells'[q] # Null =>
                  wells'[q].wtest_report_step = -1 /\ wells'[q].num_attempt = 0
  <2>1. wells[q] \in WTestWell \cup {Null} /\ Null \notin WTestWell
    BY <1>2, NullAssumption
  <2>2. CASE wells'[q] = wells[q]
    BY <2>1, <2>2
  <2>3. CASE wells[q] # Null /\ wells'[q] = [wells[q] EXCEPT !.closed = TRUE, !.last_test = now]
    <3>1. wells'[q] \in WTestWell
      BY <1>2, <2>1, <2>3 DEF WTestWell
    <3> QED BY <2>1, <2>3, <3>1 DEF WTestWell
  <2>4. CASE wells[q] # Null /\ wells'[q] = [wells[q] EXCEPT !.closed = FALSE]
    <3>1. wells'[q] \in WTestWell
      BY <2>1, <2>4 DEF WTestWell
    <3> QED BY <2>1, <2>4, <3>1 DEF WTestWell
  <2>5. CASE wells[q] = Null /\ wells'[q] = [closed |-> TRUE, last_test |-> now,
                                            num_attempt |-> 0, wtest_report_step |-> -1]
    <3>1. wells'[q] \in WTestWell
      BY <1>2, <2>5 DEF WTestWell
    <3> QED BY <2>5, <3>1
  <2> QED BY <1>3, <2>2, <2>3, <2>4, <2>5
<1>5. TypeOK' /\ NoLogicError' /\ InForce'
  <2>1. DOMAIN wells' = Reasons /\ wells' = [q \in Reasons |-> wells'[q]]
    BY <1>2 DEF CloseWell, OpenWellForReason, OpenWell
  <2>2. wells' \in [Reasons -> WTestWell \cup {Null}]
    BY <1>4, <2>1
  <2> QED BY <1>1, <2>2 DEF Inv, TypeOK, NoLogicError, InForce, Has
<1>6. Counted'
  <2> SUFFICES ASSUME NEW q \in Reasons, wells'[q] # Null
               PROVE  /\ wells'[q].wtest_report_step = -1 => wells'[q].num_attempt = 0
                      /\ wells'[q].wtest_report_step <= step
                      /\ Has(q) => wells'[q].wtest_report_step <= config[q].begin_report_step
    BY <1>1 DEF Counted, Has
  <2>1. CASE wells[q] # Null
    BY <1>4, <2>1 DEF Inv, Counted
  <2>2. CASE wells[q] = Null
    <3>1. Has(q) => config[q].begin_report_step \in Steps
      BY DEF Inv, TypeOK, Has, WTESTWell
    <3> QED BY <1>2, <1>4, <2>2, <3>1 DEF Steps
  <2> QED BY <2>1, <2>2
<1> QED BY <1>1, <1>4, <1>5, <1>6 DEF Inv

LEMMA UpdateWellsInv ==
  ASSUME Inv, NEW open \in BOOLEAN, UpdateWells(open)
  PROVE  Inv'
<1>1. phase = "run" /\ UNCHANGED <<phase, step, now, config, completions>>
  BY DEF UpdateWells, Running
<1>2. wells' = [r \in Reasons |-> wells'[r]]
  BY DEF UpdateWells
<1>3. wells' \in [Reasons -> WTestWell \cup {Null}]
  BY <1>2, UpdatedWells
<1>4. TypeOK' /\ NoLogicError' /\ InForce'
  BY <1>1, <1>3, UpdatedWells DEF Inv, TypeOK, NoLogicError, InForce, Has
<1>5. Counted'
  <2> SUFFICES ASSUME NEW r \in Reasons, wells'[r] # Null
               PROVE  /\ wells'[r].wtest_report_step = -1 => wells'[r].num_attempt = 0
                      /\ wells'[r].wtest_report_step <= step
                      /\ Has(r) => wells'[r].wtest_report_step <= config[r].begin_report_step
    BY <1>1 DEF Counted, Has
  <2>1. /\ wells[r] # Null
        /\ wells'[r].wtest_report_step = (IF Has(r) THEN config[r].begin_report_step ELSE -1)
        /\ wells'[r].num_attempt =
             UpdatedForNewWTEST(r).num_attempt + (IF r \in WellTests(open) THEN 1 ELSE 0)
    BY UpdatedWells
  <2>2. step \in Int /\ step >= 0
    BY DEF Inv, TypeOK, Steps
  <2>3. CASE Has(r)
    <3>1. config[r].begin_report_step \in Int /\ config[r].begin_report_step >= 0
      BY <2>3 DEF Inv, TypeOK, Has, WTESTWell, Steps
    <3> QED BY <2>1, <2>3, <3>1 DEF Inv, InForce
  <2>4. CASE ~Has(r)
    <3>1. UpdatedForNewWTEST(r).num_attempt = 0 /\ r \notin WellTests(open)
      BY <2>1, <2>4, UpdatedEntry DEF WellTests
    <3> QED BY <2>1, <2>2, <2>4, <3>1
  <2> QED BY <2>3, <2>4
<1> QED BY <1>4, <1>5 DEF Inv

LEMMA CompletionInv ==
  ASSUME Inv,
         \/ \E c \in Completions : AddClosedCompletion(c) \/ DropCompletion(c)
         \/ UpdateCompletion
  PROVE  Inv' /\ UNCHANGED <<now, config, wells>>
<1>1. UNCHANGED <<phase, step, now, config, wells, ok>>
  BY DEF AddClosedCompletion, DropCompletion, UpdateCompletion
<1>2. now \in Times /\ completions \in [Completions -> ClosedCompletion \cup {Null}]
  BY DEF Inv, TypeOK
<1>3. completions' \in [Completions -> ClosedCompletion \cup {Null}]
  <2>1. CASE UpdateCompletion
    <3>1. \A c \in Completions : c \in CompletionTests => completions[c] \in ClosedCompletion
      BY <1>2 DEF CompletionTests
    <3> QED BY <1>2, <2>1, <3>1, TestedCompletion DEF UpdateCompletion
  <2>2. CASE \E c \in Completions : AddClosedCompletion(c)
    BY <1>2, <2>2 DEF AddClosedCompletion, ClosedCompletion
  <2>3. CASE \E c \in Completions : DropCompletion(c)
    BY <1>2, <2>3 DEF DropCompletion
  <2> QED BY <2>1, <2>2, <2>3
<1> QED BY <1>1, <1>3 DEF Inv, TypeOK, Counted, InForce, Has, NoLogicError

LEMMA NextInv == Inv /\ [Next]_vars => Inv'
<1> SUFFICES ASSUME Inv, [Next]_vars PROVE Inv'
  OBVIOUS
<1>1. CASE \E R \in SUBSET Reasons, plan \in Plans : Wtest(R, plan)
  BY <1>1, WtestInv
<1>2. CASE \E r \in Reasons : CloseWell(r) \/ OpenWellForReason(r)
  BY <1>2, CloseOpenInv
<1>3. CASE OpenWell
  <2>1. CASE Reasons = {}
    <3>1. wells' = wells /\ UNCHANGED <<phase, step, now, config, completions, ok>>
      BY <1>3, <2>1 DEF OpenWell, Inv, TypeOK
    <3> QED BY <3>1 DEF Inv, TypeOK, Counted, InForce, Has, NoLogicError
  <2>2. CASE \E r \in Reasons : TRUE
    BY <1>3, <2>2, CloseOpenInv
  <2> QED BY <2>1, <2>2
<1>4. CASE \E open \in BOOLEAN : UpdateWells(open)
  BY <1>4, UpdateWellsInv
<1>5. CASE \/ \E c \in Completions : AddClosedCompletion(c) \/ DropCompletion(c)
           \/ UpdateCompletion
  BY <1>5, CompletionInv
<1>6. CASE BeginReportStep \/ TimeStep \/ NextReportStep \/ UNCHANGED vars
  BY <1>6, ClockInv
<1> QED BY <1>1, <1>2, <1>3, <1>4, <1>5, <1>6 DEF Next

LEMMA InvHolds == Spec => []Inv
BY InitInv, NextInv, PTL DEF Spec

\* Steps, times, counters and entries stay in their ranges.
THEOREM TypeCorrect == Spec => []TypeOK
<1>1. Inv => TypeOK
  BY DEF Inv
<1> QED BY <1>1, InvHolds, PTL

\* However WTEST keywords, closings, openings and tests follow each other, the
\* logic errors of updateForNewWTEST() are never thrown.
THEOREM NoLogicErrors == Spec => []NoLogicError
<1>1. Inv => NoLogicError
  BY DEF Inv
<1> QED BY <1>1, InvHolds, PTL

-----------------------------------------------------------------------------
(* The refinement of Tester: the mapping of WellTest, by name.             *)

Plan ==
  [r \in Reasons |->
     IF config[r] = Null THEN Null
     ELSE [interval |-> config[r].interval, num |-> config[r].num]]

Made ==
  [r \in Reasons |->
     IF config[r] # Null /\ wells[r] # Null
        /\ wells[r].wtest_report_step = config[r].begin_report_step
     THEN wells[r].num_attempt ELSE 0]

ClosedFor == {r \in Entries : wells[r].closed}

Since == [r \in Reasons |-> IF wells[r] = Null THEN 0 ELSE wells[r].last_test]

Mapped == <<Plan, Made, ClosedFor, Since, now>>

LEMMA PromiseInit == Init => Promise!Init
BY DEF Init, Promise!Init, Entries

\* A WTEST counts from the start: no entry knows it yet.
LEMMA WtestRefines ==
  ASSUME Inv, NEW R \in SUBSET Reasons, NEW plan \in Plans, Wtest(R, plan)
  PROVE  \E Q \in SUBSET Reasons : Promise!Replan(Q)
<1> DEFINE Q == IF R = {} THEN Reasons ELSE R
<1>1. phase = "deck" /\ UNCHANGED <<now, wells>> /\ step \in Int
  BY DEF Wtest, Inv, TypeOK, Steps
<1>2. ASSUME NEW r \in Reasons
      PROVE  config'[r] = IF r \in R THEN [interval |-> plan.interval, num |-> plan.num,
                                          begin_report_step |-> step]
                          ELSE IF R = {} THEN Null ELSE config[r]
  BY DEF Wtest
<1>3. ASSUME NEW r \in Q
      PROVE  Made'[r] = 0
  <2>1. r \in Reasons /\ (wells[r] # Null => wells[r].wtest_report_step < step)
    BY <1>1 DEF Inv, Counted
  <2>2. wells[r] # Null => wells[r].wtest_report_step \in Int
    BY <2>1 DEF Inv, TypeOK, WTestWell, Steps
  <2>3. config'[r] # Null => config'[r].begin_report_step = step
    BY <1>2, <2>1
  <2> HIDE DEF Q
  <2> QED BY <1>1, <2>1, <2>2, <2>3 DEF Made
<1>4. \A r \in Reasons \ Q : config'[r] = config[r]
  BY <1>2
<1>5. Made' = [r \in Reasons |-> IF r \in Q THEN 0 ELSE Made[r]]
  <2>1. ASSUME NEW r \in Reasons, r \notin Q PROVE Made'[r] = Made[r]
    BY <1>1, <1>4, <2>1 DEF Made
  <2>2. Made' = [r \in Reasons |-> Made'[r]]
    BY DEF Made
  <2> HIDE DEF Q
  <2> QED BY <1>3, <2>1, <2>2
<1>6. \A r \in Reasons \ Q : Plan'[r] = Plan[r]
  BY <1>4 DEF Plan
<1>7. ClosedFor' = ClosedFor /\ Since' = Since /\ now' = now
  BY <1>1 DEF ClosedFor, Since, Entries
<1>8. Q \in SUBSET Reasons
  OBVIOUS
<1> HIDE DEF Q
<1>9. Promise!Replan(Q)
  BY <1>5, <1>6, <1>7 DEF Promise!Replan, Plan, Made, ClosedFor, Since
<1> QED BY <1>8, <1>9

\* Closing and opening change neither plans nor counters.
LEMMA CloseOpenKeeps ==
  ASSUME Inv, NEW r \in Reasons, CloseWell(r) \/ OpenWellForReason(r) \/ OpenWell
  PROVE  Plan' = Plan /\ Made' = Made /\ now' = now
<1>1. config' = config /\ now' = now
  BY CloseOpenInv
<1>2. ASSUME NEW q \in Reasons PROVE Made'[q] = Made[q]
  <2>1. CASE wells[q] # Null
    BY <1>1, <2>1, CloseOpenInv DEF Made
  <2>2. CASE wells[q] = Null
    <3>1. config[q] # Null => config[q].begin_report_step \in Int /\ config[q].begin_report_step >= 0
      BY DEF Inv, TypeOK, WTESTWell, Steps
    <3>2. wells'[q] # Null => wells'[q].wtest_report_step = -1
      BY <2>2, CloseOpenInv
    <3> QED BY <1>1, <2>2, <3>1, <3>2 DEF Made
  <2> QED BY <2>1, <2>2
<1>3. Made' = [q \in Reasons |-> Made'[q]] /\ Made = [q \in Reasons |-> Made[q]]
  BY DEF Made
<1>4. Made' = Made
  BY <1>2, <1>3
<1> QED BY <1>1, <1>4 DEF Plan

LEMMA CloseRefines ==
  ASSUME Inv, NEW r \in Reasons, CloseWell(r)
  PROVE  Promise!Close(r)
<1>1. now \in Times /\ wells \in [Reasons -> WTestWell \cup {Null}]
  BY DEF Inv, TypeOK
<1>2. r \notin ClosedFor
  BY DEF CloseWell, ClosedFor, Entries
<1>3. \A q \in Reasons : q # r => wells'[q] = wells[q]
  BY <1>1 DEF CloseWell
<1>4. wells'[r] # Null /\ wells'[r].closed = TRUE /\ wells'[r].last_test = now
  <2>1. CASE wells[r] = Null
    <3> DEFINE new == [closed |-> TRUE, last_test |-> now, num_attempt |-> 0,
                       wtest_report_step |-> -1]
    <3>1. wells'[r] = new
      BY <1>1, <2>1 DEF CloseWell
    <3>2. new \in WTestWell
      BY <1>1 DEF WTestWell
    <3>3. wells'[r] \in WTestWell
      BY <3>1, <3>2
    <3>4. wells'[r] # Null
      BY <3>3, NullAssumption
    <3> QED BY <3>1, <3>4
  <2>2. CASE wells[r] # Null
    <3>1. wells'[r] = [wells[r] EXCEPT !.closed = TRUE, !.last_test = now]
      BY <1>1, <2>2 DEF CloseWell
    <3>2. wells[r] \in WTestWell
      BY <1>1, <2>2
    <3>3. wells'[r] \in WTestWell /\ wells'[r].closed = TRUE /\ wells'[r].last_test = now
      BY <1>1, <3>1, <3>2 DEF WTestWell
    <3> QED BY <3>3, NullAssumption
  <2> QED BY <2>1, <2>2
<1>5. ClosedFor' = ClosedFor \cup {r}
  BY <1>3, <1>4 DEF ClosedFor, Entries
<1>6. Since' = [Since EXCEPT ![r] = now]
  BY <1>3, <1>4 DEF Since
<1> QED BY <1>2, <1>5, <1>6, CloseOpenKeeps
        DEF Promise!Close, Plan, Made, ClosedFor, Since

LEMMA OpenRefines ==
  ASSUME Inv, NEW r \in Reasons, NEW Q \in SUBSET Reasons,
         \/ Q = {r} /\ OpenWellForReason(r)
         \/ Q = Reasons /\ OpenWell
  PROVE  Promise!Reopen(Q)
<1>1. wells \in [Reasons -> WTestWell \cup {Null}]
  BY DEF Inv, TypeOK
<1>2. ASSUME NEW q \in Reasons
      PROVE  wells'[q] = IF q \in Q /\ wells[q] # Null
                         THEN [wells[q] EXCEPT !.closed = FALSE] ELSE wells[q]
  BY <1>1 DEF OpenWellForReason, OpenWell, Entries
<1>3. ASSUME NEW q \in Reasons, wells[q] # Null
      PROVE  /\ wells'[q] # Null /\ wells'[q].last_test = wells[q].last_test
             /\ wells'[q].closed = IF q \in Q THEN FALSE ELSE wells[q].closed
  <2>1. wells[q] \in WTestWell
    BY <1>1, <1>3
  <2>2. wells'[q] # Null
    BY <1>3, CloseOpenInv
  <2> QED BY <1>2, <1>3, <2>1, <2>2 DEF WTestWell
<1>4. ClosedFor' = ClosedFor \ Q
  BY <1>2, <1>3 DEF ClosedFor, Entries
<1>5. Since' = Since
  BY <1>2, <1>3 DEF Since
<1> QED BY <1>4, <1>5, CloseOpenKeeps DEF Promise!Reopen, Plan, Made, ClosedFor, Since

\* updateWells() makes the tests that are due while the schedule has the well
\* open, and none otherwise; what it resets counted for an older WTEST.
LEMMA TestRefines ==
  ASSUME Inv, NEW open \in BOOLEAN, UpdateWells(open)
  PROVE  Promise!Test \/ UNCHANGED Mapped
<1>1. UNCHANGED <<now, config>> /\ now \in Times
  BY DEF UpdateWells, Inv, TypeOK
<1>2. ASSUME NEW r \in Reasons
      PROVE  /\ wells[r] = Null => wells'[r] = Null
             /\ wells[r] # Null =>
                  /\ wells'[r] # Null
                  /\ wells'[r].closed = wells[r].closed
                  /\ wells'[r].last_test = (IF r \in WellTests(open) THEN now ELSE wells[r].last_test)
  BY UpdatedWells, NullAssumption
<1>3. ASSUME NEW r \in Reasons
      PROVE  Made'[r] = (IF r \in WellTests(open) THEN Made[r] + 1 ELSE Made[r])
  <2>1. CASE Has(r) /\ wells[r] # Null
    <3>1. UpdatedForNewWTEST(r).num_attempt = Made[r]
      BY <2>1, UpdatedEntry DEF Made, Has
    <3>2. /\ wells'[r] # Null
          /\ wells'[r].wtest_report_step = config[r].begin_report_step
          /\ wells'[r].num_attempt =
               UpdatedForNewWTEST(r).num_attempt + (IF r \in WellTests(open) THEN 1 ELSE 0)
      BY <1>2, <2>1, UpdatedWells
    <3>3. Made'[r] = Made[r] + (IF r \in WellTests(open) THEN 1 ELSE 0)
      BY <1>1, <2>1, <3>1, <3>2 DEF Made, Has
    <3>4. Made[r] \in Nat
      BY <2>1 DEF Made, Inv, TypeOK, WTestWell
    <3> QED BY <3>3, <3>4
  <2>2. CASE ~(Has(r) /\ wells[r] # Null)
    <3>1. Made[r] = 0 /\ Made'[r] = 0 /\ r \notin WellTests(open)
      BY <1>1, <1>2, <2>2 DEF Made, Has, WellTests, Entries
    <3> QED BY <3>1
  <2> QED BY <2>1, <2>2
<1>4. Plan' = Plan /\ ClosedFor' = ClosedFor
  BY <1>1, <1>2 DEF Plan, ClosedFor, Entries
<1>5. Made' = [r \in Reasons |-> IF r \in WellTests(open) THEN Made[r] + 1 ELSE Made[r]]
  <2>1. Made' = [r \in Reasons |-> Made'[r]]
    BY DEF Made
  <2> QED BY <1>3, <2>1
<1>6. Since' = [r \in Reasons |-> IF r \in WellTests(open) THEN now ELSE Since[r]]
  <2>1. ASSUME NEW r \in Reasons
        PROVE  Since'[r] = (IF r \in WellTests(open) THEN now ELSE Since[r])
    BY <1>2 DEF Since, WellTests, Entries
  <2>2. Since' = [r \in Reasons |-> Since'[r]]
    BY DEF Since
  <2> QED BY <2>1, <2>2
<1>7. CASE open
  <2>1. ASSUME NEW r \in Reasons
        PROVE  Promise!Due(r) <=> r \in WellTests(open)
    <3>1. CASE r \in ClosedFor /\ Has(r)
      <4>1. /\ r \in Entries /\ wells[r] # Null /\ wells[r].closed
            /\ UpdatedForNewWTEST(r).num_attempt = Made[r]
            /\ UpdatedForNewWTEST(r).last_test = Since[r]
        BY <3>1, UpdatedEntry DEF ClosedFor, Entries, Made, Since, Has
      <4>2. config[r] \in WTESTWell /\ config[r] # Null
        BY <3>1 DEF Has, Inv, TypeOK
      <4>3. /\ Plan[r] # Null /\ Plan[r].interval = config[r].interval
            /\ Plan[r].num = config[r].num
        <5>1. Plan[r] = [interval |-> config[r].interval, num |-> config[r].num]
          BY <4>2 DEF Plan
        <5>2. Plan[r] \in Request
          BY <4>2, <5>1 DEF WTESTWell, Request
        <5> QED BY <5>1, <5>2, NullAssumption
      <4>4. r \in WellTests(open) <=>
              /\ now - Since[r] >= Plan[r].interval
              /\ Plan[r].num = 0 \/ Made[r] < Plan[r].num
        BY <1>7, <3>1, <4>1, <4>3 DEF WellTests, Waited
      <4> QED BY <3>1, <4>3, <4>4 DEF Promise!Due, Plan, Made, ClosedFor, Since
    <3>2. CASE ~(r \in ClosedFor /\ Has(r))
      <4>1. r \notin WellTests(open)
        BY <3>2 DEF WellTests, ClosedFor
      <4>2. ~(r \in ClosedFor /\ Plan[r] # Null)
        BY <3>2 DEF Plan, Has
      <4> QED BY <4>1, <4>2 DEF Promise!Due, Plan, ClosedFor
    <3> QED BY <3>1, <3>2
  <2>2. /\ Made' = [r \in Reasons |-> IF Promise!Due(r) THEN Made[r] + 1 ELSE Made[r]]
        /\ Since' = [r \in Reasons |-> IF Promise!Due(r) THEN now ELSE Since[r]]
    BY <1>5, <1>6, <2>1
  <2> QED BY <1>1, <1>4, <2>2 DEF Promise!Test, Plan, Made, ClosedFor, Since
<1>8. CASE ~open
  <2>1. WellTests(open) = {}
    BY <1>8 DEF WellTests
  <2>2. Made' = Made /\ Since' = Since
    BY <1>5, <1>6, <2>1 DEF Made, Since
  <2> QED BY <1>1, <1>4, <2>2 DEF Mapped
<1> QED BY <1>7, <1>8

LEMMA PromiseStep == Inv /\ [Next]_vars => [Promise!Next]_Mapped
<1> SUFFICES ASSUME Inv, [Next]_vars PROVE Promise!Next \/ UNCHANGED Mapped
  OBVIOUS
<1>1. CASE \E R \in SUBSET Reasons, plan \in Plans : Wtest(R, plan)
  BY <1>1, WtestRefines DEF Promise!Next
<1>2. CASE \E r \in Reasons : CloseWell(r)
  BY <1>2, CloseRefines DEF Promise!Next
<1>3. CASE \E r \in Reasons : OpenWellForReason(r)
  <2>1. PICK r \in Reasons : OpenWellForReason(r)
    BY <1>3
  <2>2. Promise!Reopen({r})
    BY <2>1, OpenRefines
  <2> QED BY <2>2 DEF Promise!Next
<1>4. CASE OpenWell
  <2>1. CASE Reasons = {}
    <3>1. wells' = wells /\ UNCHANGED <<now, config>>
      BY <1>4, <2>1 DEF OpenWell, Inv, TypeOK
    <3> QED BY <3>1 DEF Mapped, Plan, Made, ClosedFor, Since, Entries
  <2>2. CASE \E r \in Reasons : TRUE
    <3>1. Promise!Reopen(Reasons)
      BY <1>4, <2>2, OpenRefines
    <3> QED BY <3>1 DEF Promise!Next
  <2> QED BY <2>1, <2>2
<1>5. CASE \E open \in BOOLEAN : UpdateWells(open)
  BY <1>5, TestRefines DEF Promise!Next
<1>6. CASE \/ \E c \in Completions : AddClosedCompletion(c) \/ DropCompletion(c)
           \/ UpdateCompletion
  <2>1. UNCHANGED <<now, config, wells>>
    BY <1>6, CompletionInv
  <2> QED BY <2>1 DEF Mapped, Plan, Made, ClosedFor, Since, Entries
<1>7. CASE BeginReportStep \/ NextReportStep \/ UNCHANGED vars
  <2>1. UNCHANGED <<now, config, wells>>
    BY <1>7 DEF BeginReportStep, NextReportStep, vars
  <2> QED BY <2>1 DEF Mapped, Plan, Made, ClosedFor, Since, Entries
<1>8. CASE TimeStep
  <2>1. UNCHANGED <<config, wells>> /\ now' = now + 1 /\ now' > now
    BY <1>8 DEF TimeStep, Inv, TypeOK, Times
  <2>2. Promise!Wait
    BY <2>1 DEF Promise!Wait, Entries
  <2> QED BY <2>2 DEF Promise!Next
<1> QED BY <1>1, <1>2, <1>3, <1>4, <1>5, <1>6, <1>7, <1>8 DEF Next

\* WellTestState, which meets a new WTEST only when it next looks for tests,
\* makes the tests the WTEST keywords ask for: it implements Tester.
THEOREM TestsRefineTester == Spec => TestsAsWtestAsks
<1>1. Inv /\ [Next]_vars => [Promise!Next]_Mapped
  BY PromiseStep
<1> QED BY <1>1, PromiseInit, InvHolds, PTL
        DEF Spec, TestsAsWtestAsks, Promise!Spec, Promise!vars, Mapped, Plan, Made, ClosedFor, Since

-----------------------------------------------------------------------------
(* Completions are counted without regard to the keyword they are tested   *)
(* under, so their bounds are those of the plans in the section.           *)

\* An entry of WellTestConfig is that of a WTEST of the section.
FromPlans ==
  \A r \in Reasons : Has(r) =>
    \E p \in Plans : config[r].interval = p.interval /\ config[r].num = p.num

Bounded == FromPlans /\ CompletionTestsBounded

LEMMA BoundedInit == Init => Bounded
BY DEF Init, Bounded, FromPlans, CompletionTestsBounded, Has

LEMMA ProductGrows ==
  ASSUME NEW n \in Nat, NEW a \in Nat, NEW b \in Nat, a <= b
  PROVE  n * a <= n * b /\ (n + 1) * a = n * a + a /\ n * a \in Nat
OBVIOUS

\* One more test: the shorter of the interval in force and the one that bounded
\* the tests so far bounds them all.
LEMMA OneMoreTest ==
  ASSUME NEW n \in Nat, NEW last \in Nat, NEW time \in Nat,
         NEW q \in Plans, time - last >= q.interval,
         n > 0 => \E p \in Plans : n * p.interval <= last
  PROVE  \E p \in Plans : (n + 1) * p.interval <= time
<1>1. \A p \in Plans : p.interval \in Nat
  BY PlansAssumption DEF Request
<1>2. CASE n = 0
  <2>1. (n + 1) * q.interval = q.interval
    BY <1>1, <1>2
  <2>2. q.interval <= time
    BY <1>1
  <2> QED BY <2>1, <2>2
<1>3. CASE n > 0
  <2>1. PICK p \in Plans : n * p.interval <= last
    BY <1>3
  <2> DEFINE a == p.interval
             b == q.interval
  <2>2. a \in Nat /\ b \in Nat /\ n * a <= last /\ last + b <= time
    BY <1>1, <2>1
  <2> HIDE DEF a, b
  <2>3. CASE a <= b
    <3>1. (n + 1) * a = n * a + a /\ n * a \in Nat
      BY <2>2, <2>3, ProductGrows
    <3>2. (n + 1) * a <= time
      BY <2>2, <2>3, <3>1
    <3> QED BY <3>2 DEF a
  <2>4. CASE b < a
    <3>1. n * b <= n * a /\ (n + 1) * b = n * b + b /\ n * b \in Nat /\ n * a \in Nat
      <4>1. b <= a /\ a <= a
        BY <2>2, <2>4
      <4> QED BY <2>2, <4>1, ProductGrows
    <3>2. (n + 1) * b <= time
      BY <2>2, <3>1
    <3> QED BY <3>2 DEF b
  <2> QED BY <2>2, <2>3, <2>4
<1> QED BY <1>2, <1>3

LEMMA FromPlansStep == ASSUME Inv, FromPlans, [Next]_vars PROVE FromPlans'
<1>1. CASE \E R \in SUBSET Reasons, plan \in Plans : Wtest(R, plan)
  <2>1. PICK R \in SUBSET Reasons, plan \in Plans : Wtest(R, plan)
    BY <1>1
  <2>2. ASSUME NEW r \in Reasons, config'[r] # Null
        PROVE  \E p \in Plans : config'[r].interval = p.interval /\ config'[r].num = p.num
    <3>1. CASE config'[r] = config[r]
      BY <2>2, <3>1 DEF FromPlans, Has
    <3>2. CASE config'[r] = [interval |-> plan.interval, num |-> plan.num,
                             begin_report_step |-> step]
      BY <3>2
    <3> QED BY <2>1, <2>2, <3>1, <3>2 DEF Wtest
  <2> QED BY <2>2 DEF FromPlans, Has
<1>2. CASE UNCHANGED config
  BY <1>2 DEF FromPlans, Has
<1>3. CASE ~ \E R \in SUBSET Reasons, plan \in Plans : Wtest(R, plan)
  <2>1. UNCHANGED config
    BY <1>3 DEF Next, BeginReportStep, CloseWell, OpenWellForReason, OpenWell, UpdateWells,
                AddClosedCompletion, DropCompletion, UpdateCompletion, TimeStep,
                NextReportStep, vars
  <2> QED BY <1>2, <2>1
<1> QED BY <1>1, <1>3

LEMMA CompletionsStep ==
  ASSUME Inv, Bounded, [Next]_vars
  PROVE  CompletionTestsBounded'
<1>1. now \in Nat /\ completions \in [Completions -> ClosedCompletion \cup {Null}]
  BY DEF Inv, TypeOK, Times
<1>2. CASE UpdateCompletion
  <2> SUFFICES ASSUME NEW c \in Completions, completions'[c] # Null,
                      completions'[c].num_attempt > 0
               PROVE  /\ \E p \in Plans : p.num = 0 \/ completions'[c].num_attempt <= p.num
                      /\ \E p \in Plans :
                           completions'[c].num_attempt * p.interval <= completions'[c].last_test
    BY DEF CompletionTestsBounded
  <2>1. CASE c \notin CompletionTests
    <3>1. completions'[c] = completions[c]
      BY <1>2, <2>1 DEF UpdateCompletion
    <3> QED BY <3>1 DEF Bounded, CompletionTestsBounded
  <2>2. CASE c \in CompletionTests
    <3> DEFINE entry == completions[c]
               n == entry.num_attempt
               last == entry.last_test
    <3>1. /\ entry # Null /\ entry \in ClosedCompletion
          /\ "COMPLETION" \in Reasons /\ Has("COMPLETION")
          /\ Waited(entry, config["COMPLETION"])
      BY <1>1, <2>2 DEF CompletionTests
    <3>2. n \in Nat /\ last \in Nat
      BY <3>1 DEF ClosedCompletion, Times
    <3>3. completions'[c] = Tested(entry)
      BY <1>2, <2>2 DEF UpdateCompletion
    <3>4. completions'[c].num_attempt = n + 1 /\ completions'[c].last_test = now
      BY <3>1, <3>3 DEF Tested, ClosedCompletion
    <3>5. PICK q \in Plans : /\ config["COMPLETION"].interval = q.interval
                            /\ config["COMPLETION"].num = q.num
      BY <3>1 DEF Bounded, FromPlans
    <3>6. now - last >= q.interval /\ (q.num = 0 \/ n < q.num) /\ q.num \in Nat
      BY <3>1, <3>5, PlansAssumption DEF Waited, Request
    <3>7. n > 0 => \E p \in Plans : n * p.interval <= last
      BY <3>1 DEF Bounded, CompletionTestsBounded
    <3> HIDE DEF entry, n, last
    <3>8. \E p \in Plans : (n + 1) * p.interval <= now
      BY <1>1, <3>2, <3>6, <3>7, OneMoreTest
    <3>9. q.num = 0 \/ n + 1 <= q.num
      BY <3>2, <3>6
    <3> QED BY <3>4, <3>8, <3>9
  <2> QED BY <2>1, <2>2
<1>3. CASE ~UpdateCompletion
  \* An entry stays, goes, or is new and without a test.
  <2>1. ASSUME NEW c \in Completions, completions'[c] # Null
        PROVE  completions'[c] = completions[c] \/ completions'[c].num_attempt = 0
    <3>1. CASE UNCHANGED completions
      BY <3>1
    <3>2. CASE \E d \in Completions : AddClosedCompletion(d)
      <4>1. PICK d \in Completions : AddClosedCompletion(d)
        BY <3>2
      <4>2. completions'[c] = IF c = d THEN [last_test |-> now, num_attempt |-> 0]
                              ELSE completions[c]
        BY <1>1, <4>1 DEF AddClosedCompletion
      <4> QED BY <4>2
    <3>3. CASE \E d \in Completions : DropCompletion(d)
      <4>1. PICK d \in Completions : DropCompletion(d)
        BY <3>3
      <4>2. completions'[c] = IF c = d THEN Null ELSE completions[c]
        BY <1>1, <4>1 DEF DropCompletion
      <4> QED BY <2>1, <4>2
    <3> QED BY <1>3, <3>1, <3>2, <3>3
            DEF Next, Wtest, BeginReportStep, CloseWell, OpenWellForReason, OpenWell,
                UpdateWells, TimeStep, NextReportStep, vars
  <2> QED BY <2>1 DEF Bounded, CompletionTestsBounded
<1> QED BY <1>2, <1>3

\* Whatever WTEST keywords follow each other, no completion is tested more
\* often than the largest number, nor faster than the shortest interval allows.
THEOREM CompletionsBounded == Spec => []CompletionTestsBounded
<1>1. Inv /\ Bounded /\ [Next]_vars => Bounded'
  BY FromPlansStep, CompletionsStep DEF Bounded
<1>2. Bounded => CompletionTestsBounded
  BY DEF Bounded
<1> QED BY <1>1, <1>2, BoundedInit, InvHolds, PTL DEF Spec
=============================================================================
