---------------------------- MODULE OutputFiles ----------------------------
(***************************************************************************)
(* The files a run leaves (output/eclipseio.cc, io/outputstream.cc, the    *)
(* writing half of output/summary.cc): EclipseIO::writeTimeStep() writes   *)
(* the summary, the restart file and the RFT file one after the other.     *)
(* A run may crash between any two bytes of them; the next one starts      *)
(* over or restarts from a step of the run, in the same directory.         *)
(*                                                                         *)
(* The simulator is external: it reports the steps in order, a restarted   *)
(* run from the step after its origin on, each after any substeps.  Left   *)
(* out are the report of a run (RSM), the SMSPEC file and the log.         *)
(***************************************************************************)
EXTENDS ReportSteps, RestartFile

CONSTANTS
  Decks,        \* what decks ask for: steps with a restart file, steps with
                \* RFT output, unified files or one for each step
  Cycle,        \* steps that share a letter in the name of a file (10000)
  MaxRuns,      \* bound: runs in the directory
  MaxSubsteps   \* bound: substeps a run reports

ASSUME OutputAssumption ==
  /\ MaxRuns \in Nat /\ MaxSubsteps \in Nat /\ Cycle \in Nat
  /\ Decks \subseteq [plan : SUBSET Steps, rft : SUBSET Steps, unified : BOOLEAN]

VARIABLES
  up,         \* a run is there
  run,        \* its number, or that of the last one
  deck,       \* its deck
  origin,     \* the step it was restarted from, or -1
  done,       \* the last report step it has completed
  stage,      \* where writeTimeStep() is
  substep,    \* isSubstep of that call
  substeps,   \* number of substeps the run has reported
  summary,    \* the Summary object: miniStepID_, prevReportStepID_, prevCreate_
  smry,       \* summary files
  restart,    \* restart files
  rftFile,    \* the RFT file
  written     \* history: the run that wrote each step this run builds on

vars == <<up, run, deck, origin, done, stage, substep, substeps, summary,
          smry, restart, rftFile, written>>

Stages == {"between", "restart", "writing", "rft"}

Unified == -1   \* the name of the file of all steps
Names == {Unified} \cup Steps

NoFile == <<Item(Unified, 0, "none")>>

\* FileExtension::restart() and summary(): no step has the file of another.
Name(s) == IF deck.unified THEN Unified ELSE s

NewSummary == [miniStepID |-> 0, prevReportStepID |-> -1, prevCreate |-> -1]

Init ==
  /\ up = FALSE
  /\ run = 0
  /\ deck \in Decks
  /\ origin = -1 /\ done = -1
  /\ stage = "between" /\ substep = FALSE /\ substeps = 0
  /\ summary = NewSummary
  /\ smry = [f \in Names |-> <<>>]
  /\ restart = [f \in Names |-> NoFile]
  /\ rftFile = <<>>
  /\ written = [t \in {} |-> 0]

-----------------------------------------------------------------------------
Begin ==
  /\ ~up
  /\ run < MaxRuns
  /\ up' = TRUE
  /\ run' = run + 1
  /\ stage' = "between" /\ substep' = FALSE /\ substeps' = 0
  /\ summary' = NewSummary
  /\ UNCHANGED <<smry, restart, rftFile>>

\* A run from the first step on, with this deck or another one.
StartOver ==
  /\ Begin
  /\ deck' \in Decks
  /\ origin' = -1 /\ done' = -1
  /\ written' = [t \in {} |-> 0]

\* EclipseIO::loadRestart(): a run from a step that the last one, or the run
\* it was restarted from, has written.  The names of separate files are only
\* understood within the first cycle.
Restart(s) ==
  /\ Begin
  /\ s \in DOMAIN written \ {0}
  /\ IF deck.unified THEN Holds(restart[Unified], s)
     ELSE s < Cycle /\ restart[s] # NoFile /\ Last(restart[s]).part = "whole"
  /\ origin' = s /\ done' = s
  /\ written' = [t \in {u \in DOMAIN written : u <= s} |-> written[t]]
  /\ UNCHANGED deck

\* A run ends or is stopped while it writes no file.
Stop ==
  /\ up
  /\ up' = FALSE
  /\ UNCHANGED <<run, deck, origin, done, stage, substep, substeps, summary,
                 smry, restart, rftFile, written>>

-----------------------------------------------------------------------------
\* Variant: the file is created again for every step.
CreatedForEachStep(s) == summary.prevCreate < s

\* createSmryStreamIfNecessary()
CreatesStream(s) ==
  summary.prevCreate = -1 \/ (~deck.unified /\ summary.prevCreate < s)

Ministep(s) ==
  [id |-> summary.miniStepID, seq |-> s, header |-> summary.prevReportStepID < s, run |-> run]

\* Summary::add_timestep() and write(), for all calls but that of step 0.
WriteSummary(isSubstep) ==
  LET s == done + 1
  IN /\ up /\ stage = "between" /\ s \in Steps
     /\ isSubstep => s > 0 /\ substeps < MaxSubsteps
     /\ substep' = isSubstep
     /\ substeps' = IF isSubstep THEN substeps + 1 ELSE substeps
     /\ IF s = 0 THEN UNCHANGED <<smry, summary>>
        ELSE /\ smry' = [smry EXCEPT ![Name(s)] =
                           Append(IF CreatesStream(s) THEN <<>> ELSE @, Ministep(s))]
             /\ summary' = [miniStepID |-> summary.miniStepID + 1,
                            prevReportStepID |-> s,
                            prevCreate |-> IF CreatesStream(s) THEN s ELSE summary.prevCreate]
     /\ stage' = IF isSubstep THEN "between" ELSE "restart"
     /\ UNCHANGED <<up, run, deck, origin, done, restart, rftFile, written>>

WritesRestart == (done + 1) \in deck.plan

\* Restart::Restart(): it throws on a file that cannot be read, which ends
\* the run.
OpenRestart ==
  LET s == done + 1
      file == restart[Name(s)]
  IN /\ up /\ stage = "restart"
     /\ IF ~WritesRestart
        THEN stage' = "rft" /\ UNCHANGED <<up, restart>>
        ELSE IF deck.unified /\ file # NoFile /\ ~Readable(file)
        THEN up' = FALSE /\ UNCHANGED <<stage, restart>>
        ELSE /\ restart' = [restart EXCEPT ![Name(s)] =
                              IF deck.unified /\ file # NoFile
                              THEN OpenExisting(file, s) ELSE <<>>]
             /\ stage' = "writing"
             /\ UNCHANGED up
     /\ UNCHANGED <<run, deck, origin, done, substep, substeps, summary, smry, rftFile, written>>

\* RestartIO::save(), or as much of it as reaches the file.
WriteRestart(part) ==
  LET s == done + 1
  IN /\ up /\ stage = "writing"
     /\ restart' = [restart EXCEPT ![Name(s)] = Append(@, Item(s, run, part))]
     /\ IF part = "whole"
        THEN /\ stage' = "rft"
             /\ written' = [t \in DOMAIN written \cup {s} |-> IF t = s THEN run ELSE written[t]]
             /\ UNCHANGED up
        ELSE up' = FALSE /\ UNCHANGED <<stage, written>>
     /\ UNCHANGED <<run, deck, origin, done, substep, substeps, summary, smry, rftFile>>

\* firstRFTOutput(): a restarted run does not read what was asked before.
RftSteps == {t \in deck.rft : t >= origin}

\* Variant: a file that is there is always kept.
AlwaysExisting(s, whole) ==
  IF s \in deck.rft THEN Append(rftFile, [step |-> s, run |-> run, whole |-> whole]) ELSE rftFile

\* The RFT file after a step: created at the first step with output, and
\* opened at every step from there on.
RftAfter(s, whole) ==
  LET file == IF s = Min(RftSteps) THEN <<>> ELSE rftFile
  IN IF RftSteps = {} \/ s < Min(RftSteps) THEN rftFile
     ELSE IF s \in deck.rft THEN Append(file, [step |-> s, run |-> run, whole |-> whole])
     ELSE file

\* RftIO::write() and the end of the call.
WriteRft(whole) ==
  LET s == done + 1
  IN /\ up /\ stage = "rft"
     /\ rftFile' = RftAfter(s, whole)
     /\ IF whole THEN done' = s /\ stage' = "between" /\ UNCHANGED up
        ELSE s \in deck.rft /\ up' = FALSE /\ UNCHANGED <<done, stage>>
     /\ UNCHANGED <<run, deck, origin, substep, substeps, summary, smry, restart, written>>

Next ==
  \/ StartOver
  \/ \E s \in Steps : Restart(s)
  \/ Stop
  \/ \E isSubstep \in BOOLEAN : WriteSummary(isSubstep)
  \/ OpenRestart
  \/ \E part \in Parts : WriteRestart(part)
  \/ \E whole \in BOOLEAN : WriteRft(whole)

Spec == Init /\ [][Next]_vars

-----------------------------------------------------------------------------
Files == Seq([step : Steps, run : 1 .. MaxRuns, part : Parts])

TypeOK ==
  /\ up \in BOOLEAN /\ run \in 0 .. MaxRuns /\ deck \in Decks
  /\ origin \in -1 .. NSteps - 1 /\ done \in -1 .. NSteps - 1
  /\ stage \in Stages /\ substep \in BOOLEAN /\ substeps \in 0 .. MaxSubsteps
  /\ summary \in [miniStepID : Nat, prevReportStepID : -1 .. NSteps - 1,
                  prevCreate : -1 .. NSteps - 1]
  /\ smry \in [Names -> Seq([id : Nat, seq : Steps, header : BOOLEAN, run : 1 .. MaxRuns])]
  /\ restart \in [Names -> Files \cup {NoFile}]
  /\ rftFile \in Seq([step : Steps, run : 1 .. MaxRuns, whole : BOOLEAN])
  /\ DOMAIN written \subseteq Steps /\ Range(written) \subseteq 1 .. MaxRuns

\* The steps of the unified file before anything that is incomplete, and the
\* runs that have written them.
Stored ==
  LET file == restart[Unified]
      intact == {i \in DOMAIN file : \A j \in 1 .. i : file[j].part = "whole"}
  IN [s \in {file[i].step : i \in intact} |->
        file[CHOOSE i \in intact : file[i].step = s].run]

A == INSTANCE Archive WITH archive <- Stored, Step <- Steps, Run <- 1 .. MaxRuns

\* Whatever crashes and restarts come, the unified restart file is an archive
\* that grows at its end: reopening it at a step keeps all steps before and
\* drops the others (openUnified, restartStepWritePosition, openExisting).
ImplementsArchive == A!Spec

\* A step that a run builds on stays in the file that holds it, complete and
\* as it was written: no later call, crash or restart takes it away.
StepsKept ==
  \A s \in DOMAIN written : Item(s, written[s], "whole") \in Range(restart[Name(s)])

\* Once a run has written a step into a unified file, what is in it from the
\* first step of that history on is that history, and nothing that an older
\* run or a run that crashed has left behind.
NothingStale ==
  deck.unified /\ run \in Range(written) =>
    \A s \in DOMAIN Stored :
      s >= Min(DOMAIN written) => s \in DOMAIN written /\ written[s] = Stored[s]

\* A report step is in the summary before it can be in the restart file, and
\* the ministeps a run has written so far are numbered without a gap, with a
\* header where a report step begins (writeTimeStep, Summary::write).
SummaryFirst ==
  /\ \A s \in DOMAIN written \ {0} :
       written[s] = run => \E i \in DOMAIN smry[Name(s)] : smry[Name(s)][i].seq = s
  /\ deck.unified /\ summary.prevCreate # -1 =>
       LET file == smry[Unified]
       IN /\ Len(file) = summary.miniStepID
          /\ \A i \in DOMAIN file :
               /\ file[i].id = i - 1 /\ file[i].run = run
               /\ file[i].header = (i = 1 \/ file[i].seq # file[i - 1].seq)

\* The entries of a run in the RFT file are those of the steps it was asked
\* for, in order; and if the run has come to its first such step there is
\* nothing of another run in the file.
RftOfRun ==
  LET complete == {i \in DOMAIN rftFile : rftFile[i].run = run /\ rftFile[i].whole}
      asked == {s \in RftSteps : origin < s /\ s <= done}
  IN /\ run > 0 => /\ {rftFile[i].step : i \in complete} = asked
                   /\ \A i, j \in complete : i < j => rftFile[i].step < rftFile[j].step
     /\ Min(RftSteps \cup {NSteps}) \in asked => \A i \in DOMAIN rftFile : rftFile[i].run = run

\* "Open existing RFT file if report step is after first RFT event"
\* (eclipseio.cc), so that nothing in it is lost.
RftFileOpenedAfterFirst ==
  [][deck.rft # {} /\ done + 1 > Min(deck.rft) => IsPrefix(rftFile, rftFile')]_vars
=============================================================================
