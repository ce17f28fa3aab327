----------------------------- MODULE RftConfig -----------------------------
(***************************************************************************)
(* When RFT and PLT data are written (schedule/rftconfig.cc, the deferred  *)
(* keywords at the end of Schedule::iterateScheduleSection, the guards of  *)
(* output/eclipseio.cc and output/writerft.cc).                            *)
(*                                                                         *)
(* All wells are there from the first step on.  A step at which a well is  *)
(* not opened, and every other step that is not there, is NSteps: that is  *)
(* tm.size() in the code, and there it is a missing entry of a map as well.*)
(***************************************************************************)
EXTENDS ReportSteps, DynamicState, FiniteSetsExt, Sequences

CONSTANTS
  Wells,
  RftValues,    \* values of OUTPUT_RFT in the decks
  PltValues,    \* values of OUTPUT_PLT
  MaxKeywords   \* bound: WRFT and WRFTPLT in the section

ASSUME RftAssumption ==
  /\ MaxKeywords \in Nat
  /\ RftValues \subseteq {"YES", "REPT", "TIMESTEP", "FOPN", "NO"}
  /\ PltValues \subseteq {"YES", "REPT", "TIMESTEP", "NO"}

Never == NSteps

VARIABLES
  phase,      \* "read", "apply" or "run"
  step,       \* the report step that is read, or simulated
  keywords,   \* the keywords of the section with their steps
  next,       \* the one to be applied
  wellOpen,   \* well_open: the step at which a well was first opened
  openTime,   \* well_open_rft_time
  openName,   \* well_open_rft_name
  rftConf,    \* rft_config
  pltConf,    \* plt_config
  first       \* first_rft_event

rftVars == <<phase, step, keywords, next, wellOpen, openTime, openName, rftConf, pltConf, first>>

Keyword == [name : {"WRFT"}, step : Steps, wells : SUBSET Wells]
             \cup [name : {"WRFTPLT"}, step : Steps, well : Wells, rft : RftValues, plt : PltValues]

RftInit ==
  /\ phase = "read" /\ step = 0
  /\ keywords = <<>> /\ next = 1
  /\ wellOpen = [w \in Wells |-> Never]
  /\ openTime = Never
  /\ openName = [w \in Wells |-> Never]
  /\ rftConf = [w \in Wells |-> Filled(NSteps, <<"NO", 0>>)]
  /\ pltConf = [w \in Wells |-> Filled(NSteps, <<"NO", 0>>)]
  /\ first = Never

-----------------------------------------------------------------------------
(* The queries.                                                            *)

\* Variant: a general request counts from its step on only.
AfterTheStep(w, t) ==
  /\ wellOpen[w] # Never
  /\ t >= first
  /\ \/ openTime < t /\ wellOpen[w] = t
     \/ t = openName[w] /\ wellOpen[w] <= t
     \/ t > openName[w] /\ wellOpen[w] = t

\* outputRftAtWellopen()
OutputAtWellopen(w, t) ==
  /\ wellOpen[w] # Never
  /\ t >= first
  /\ \/ openTime <= t /\ wellOpen[w] = t
     \/ t = openName[w] /\ wellOpen[w] <= t
     \/ t > openName[w] /\ wellOpen[w] = t

\* What a setting means for a step: YES for its own step only.
SettingHolds(setting, t) ==
  setting[1] \in {"REPT", "TIMESTEP"} \/ (setting[1] = "YES" /\ setting[2] = t)

\* rft() and plt()
Rft(w, t) == OutputAtWellopen(w, t) \/ SettingHolds(rftConf[w][t], t)

Plt(w, t) == SettingHolds(pltConf[w][t], t)

\* active(), which asks rft() of the wells with PLT, too.
Active(t) == \E w \in Wells : Rft(w, t)

\* wantRFTOutput() and RftIO::write(): what is written at a step.
Written(w, t) == t >= first /\ Active(t) /\ (Rft(w, t) \/ Plt(w, t))

-----------------------------------------------------------------------------
(* The updates.                                                            *)

MinOf(a, b) == IF a < b THEN a ELSE b

\* Variant: the setting is for the step after.
StepAfter(conf, w, t, value) == [conf EXCEPT ![w] = Update(@, t, <<value, t + 1>>)]

\* updateConfig()
UpdateConfig(conf, w, t, value) == [conf EXCEPT ![w] = Update(@, t, <<value, t>>)]

Opened == {w \in Wells : wellOpen[w] # Never}

\* firstWellopenStepNotBefore(), for any order of the unordered map: the
\* search for the least step compares in such a way that it stays with the
\* well that comes first if that one was opened before t.
FirstWellopenStepNotBefore(t) ==
  LET later == {wellOpen[w] : w \in {v \in Opened : wellOpen[v] >= t}}
      allLater == Opened # {} /\ \A w \in Opened : wellOpen[w] >= t
  IN {u \in later : \A v \in later : u <= v} \cup (IF allLater THEN {} ELSE {Never})

\* Variant: a well opened at the step itself is left out.
OpenBefore(wells, t) == IF \E w \in wells : wellOpen[w] < t THEN MinOf(first, t) ELSE first

\* updateFirstIfNotShut(), for wells with a value other than NO.
FirstIfNotShut(wells, t) == IF \E w \in wells : wellOpen[w] <= t THEN MinOf(first, t) ELSE first

\* addWellOpen(): the first opening of a well is kept.
AddWellOpen(w, t) == wellOpen' = [wellOpen EXCEPT ![w] = IF @ = Never THEN t ELSE @]

-----------------------------------------------------------------------------
Read ==
  /\ phase = "read"
  /\ UNCHANGED <<phase, next, openTime, openName, rftConf, pltConf, first>>

\* WELOPEN, and every keyword with a status, for a well that is opened.
OpenWell(w) ==
  /\ Read
  /\ AddWellOpen(w, step)
  /\ UNCHANGED <<step, keywords>>

\* WRFT and WRFTPLT are kept for the end of the section.
HandleKeyword(k) ==
  /\ Read
  /\ Len(keywords) < MaxKeywords
  /\ k.step = step
  /\ keywords' = Append(keywords, k)
  /\ UNCHANGED <<step, wellOpen>>

EndReportStep ==
  /\ Read
  /\ step + 1 \in Steps
  /\ step' = step + 1
  /\ UNCHANGED <<keywords, wellOpen>>

EndSection ==
  /\ phase = "read"
  /\ step = NSteps - 1
  /\ phase' = "apply"
  /\ UNCHANGED <<step, keywords, next, wellOpen, openTime, openName, rftConf, pltConf, first>>

\* applyWRFT(): YES for the wells of the keyword, then setWellOpenRFT().
ApplyWRFT(k) ==
  /\ k.name = "WRFT"
  /\ rftConf' = [w \in Wells |-> IF w \in k.wells THEN UpdateConfig(rftConf, w, k.step, "YES")[w]
                                 ELSE rftConf[w]]
  /\ openTime' = MinOf(openTime, k.step)
  /\ \E event \in FirstWellopenStepNotBefore(k.step) :
       first' = MinOf(FirstIfNotShut(k.wells, k.step), event)
  /\ UNCHANGED <<openName, pltConf>>

\* applyWRFTPLT(): updateRFT(), then updatePLT().
ApplyWRFTPLT(k) ==
  LET w == k.well
      firstRFT == IF k.rft = "FOPN"
                  THEN MinOf(first, IF wellOpen[w] < k.step THEN k.step ELSE wellOpen[w])
                  ELSE IF k.rft = "NO" THEN first ELSE FirstIfNotShut({w}, k.step)
  IN /\ k.name = "WRFTPLT"
     /\ IF k.rft = "FOPN"
        THEN openName' = [openName EXCEPT ![w] = MinOf(@, k.step)] /\ UNCHANGED rftConf
        ELSE rftConf' = UpdateConfig(rftConf, w, k.step, k.rft) /\ UNCHANGED openName
     /\ pltConf' = UpdateConfig(pltConf, w, k.step, k.plt)
     /\ first' = MinOf(firstRFT, IF k.plt = "NO" THEN first ELSE FirstIfNotShut({w}, k.step))
     /\ UNCHANGED openTime

\* A turn of the loop over rftProperties.
ApplyNext ==
  /\ phase = "apply"
  /\ next <= Len(keywords)
  /\ next' = next + 1
  /\ ApplyWRFT(keywords[next]) \/ ApplyWRFTPLT(keywords[next])
  /\ UNCHANGED <<phase, step, keywords, wellOpen>>

StartRun ==
  /\ phase = "apply"
  /\ next > Len(keywords)
  /\ phase' = "run"
  /\ step' = 0
  /\ UNCHANGED <<keywords, next, wellOpen, openTime, openName, rftConf, pltConf, first>>

\* updateWellStatus() by an action or by the simulator at run time.
OpenAtRuntime(w) ==
  /\ phase = "run"
  /\ AddWellOpen(w, step)
  /\ UNCHANGED <<phase, step, keywords, next, openTime, openName, rftConf, pltConf, first>>

RunReportStep ==
  /\ phase = "run"
  /\ step + 1 \in Steps
  /\ step' = step + 1
  /\ UNCHANGED <<phase, keywords, next, wellOpen, openTime, openName, rftConf, pltConf, first>>

RftNext ==
  \/ \E w \in Wells : OpenWell(w) \/ OpenAtRuntime(w)
  \/ \E k \in Keyword : HandleKeyword(k)
  \/ EndReportStep
  \/ EndSection
  \/ ApplyNext
  \/ StartRun
  \/ RunReportStep

RftSpec == RftInit /\ [][RftNext]_rftVars

-----------------------------------------------------------------------------
Container(values) == [Wells -> [Steps -> values \X Steps]]

RftTypeOK ==
  /\ phase \in {"read", "apply", "run"} /\ step \in Steps
  /\ keywords \in Seq(Keyword) /\ next \in 1 .. MaxKeywords + 1
  /\ wellOpen \in [Wells -> 0 .. Never] /\ openName \in [Wells -> 0 .. Never]
  /\ openTime \in 0 .. Never /\ first \in 0 .. Never
  /\ rftConf \in Container(RftValues \cup {"YES", "NO"})
  /\ pltConf \in Container(PltValues \cup {"NO"})

-----------------------------------------------------------------------------
(* The rules, over the keywords themselves.                                *)

Wrft == {i \in DOMAIN keywords : keywords[i].name = "WRFT"}
Wrftplt(w) == {i \in DOMAIN keywords \ Wrft : keywords[i].well = w}

\* The keywords that set the RFT of a well, and those with FOPN.
Fopn(w) == {i \in Wrftplt(w) : keywords[i].rft = "FOPN"}
Setting(w) == {i \in Wrft : w \in keywords[i].wells} \cup (Wrftplt(w) \ Fopn(w))

Last_(set, t) == Max({i \in set : keywords[i].step <= t} \cup {0})

\* "Request current RFT data output for specified wells": the last keyword
\* before a step decides for a well; YES is for its own step, REPT and
\* TIMESTEP are for all steps.
RequestedRft(w, t) ==
  LET i == Last_(Setting(w), t)
      yes == i \in Wrft \/ keywords[i].rft = "YES"
  IN i # 0 /\ IF yes THEN keywords[i].step = t ELSE keywords[i].rft # "NO"

\* "plus output when any well is subsequently opened"
RequestedAtOpening(w, t) == wellOpen[w] = t /\ \E i \in Wrft : keywords[i].step <= t

\* FOPN: "if we're at the FOPN event time and the well is already open or if
\* we're after FOPN event time and the well opens at this step".
RequestedByFopn(w, t) ==
  LET event == Min({keywords[i].step : i \in Fopn(w)})
  IN Fopn(w) # {} /\ ((wellOpen[w] <= event /\ t = event) \/ (wellOpen[w] = t /\ t > event))

RequestedPlt(w, t) ==
  LET i == Last_(Wrftplt(w), t)
  IN i # 0 /\ IF keywords[i].plt = "YES" THEN keywords[i].step = t ELSE keywords[i].plt # "NO"

\* Once RFT output has begun, a well has its data written at the steps that
\* the keywords ask for and at no others, be it opened in the deck or at run
\* time; with RFT data of some well PLT data are written as well.
WrittenAsRequested ==
  phase = "run" =>
    \A w \in Wells, t \in first .. NSteps - 1 :
      LET rft(v) == RequestedRft(v, t) \/ RequestedAtOpening(v, t) \/ RequestedByFopn(v, t)
      IN Written(w, t) <=> rft(w) \/ (RequestedPlt(w, t) /\ \E v \in Wells : rft(v))

\* All keywords are applied, and no well is opened but by the deck.
Applied == phase = "apply" /\ next > Len(keywords)

\* RFT output begins no later than the first keyword that asks it of a well
\* that is open by then, or than the opening of a well after its FOPN.
BegunForKeywords ==
  Applied =>
    \A w \in Wells, i \in DOMAIN keywords :
      LET k == keywords[i]
      IN /\ i \in Setting(w) /\ (i \in Wrft \/ k.rft # "NO") /\ wellOpen[w] <= k.step
           => first <= k.step
         /\ i \in Fopn(w) => first <= wellOpen[w] \/ first <= k.step

\* "Request current RFT data output for specified wells, plus output when any
\* well is subsequently opened" (applyWRFT, schedule.cc), here for the wells
\* that the deck opens at a later step.
OutputWhenOpened ==
  Applied =>
    \A w \in Wells, i \in Wrft :
      keywords[i].step < wellOpen[w] /\ wellOpen[w] # Never => Written(w, wellOpen[w])
=============================================================================
