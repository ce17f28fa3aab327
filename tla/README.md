# A verification project for ewoms-eclio

ewoms-eclio reads ECLIPSE simulation decks, keeps the *schedule* of a reservoir
simulation (which wells and groups exist, how they are connected and
controlled, at every report step), lets a simulator change that schedule while
it runs, and writes and reads ECLIPSE result and restart files. This directory
holds TLA+ models of its core, TLC configurations that check them on small
instances, and proofs that TLAPS checks for all values of the constants.

Paths below are relative to the repository; `schedule/` stands for
`src/ewoms/eclio/parser/eclipsestate/schedule/`.

## 1. The system

### Components

| Component | State | Operations | What is hard | What makes it correct |
|---|---|---|---|---|
| Report step containers, `schedule/dynamicstate.hh` | one value per report step | `update`, `update_equal`, `update_range`, `unique` | values are shared pointers: a fill decides who shares what | an update applies from its step on, up to where it should |
| Well timeline, `schedule/schedule.cc`, `keywordhandlers.cc`, `well/well.cc` | a container of `shared_ptr<Well>` per well; `WellStatus` objects that several `Well` objects share; event bits per step | deck keywords at a growing step, then run time calls at the simulated step | objects shared across steps and mutated at run time; ranges kept by hand; two levels of update (step and range of a status) | ranges exact, the past fixed while parsing, run time changes inside the range of the status, events for changes |
| Well productivity index, `well/wellconnections.cc`, `connection.cc` | `WellConnections` shared by `Well` objects; a mark per connection | WELPI, COMPDAT, `applyWellProdIndexScaling` | in place mutation of shared objects; WELPI in an action is one step ahead of its event; positions used as identities | the recalculation scales marked connections once, and only those |
| Group tree, `group/group.cc`, `schedule.cc` | a container of `shared_ptr<Group>` per group; parent and children stored on both sides | WELSPECS, GRUPTREE, GRUPNET and the keywords that create groups | three container updates per move; exceptions in between; recursion over the tree | both sides agree; a tree below FIELD; the past fixed |
| SCHEDULE section reader, `iterateScheduleSection` | current step, skip flag, action under construction, deferred WRFT | DATES, TSTEP, keywords, ACTIONX blocks | a restart skips part of the section and jumps to an offset | each keyword is applied once, at its step |
| Actions, `schedule/action/` | definitions per step, run counts per definition | `ready`, `pending`, `add_run`, `applyAction` | redefinition, waits, limits, restart | at most `max_run` runs, `min_wait` apart |
| Well test, `well/wellteststate.cc`, `welltestconfig.cc` | closed wells and completions with counters; limits per step | `closeWell`, `openWell`, `updateWells`, `updateCompletion` | limits change between tests, counters restart | spacing and number of tests as WTEST says |
| UDQ, `schedule/udq/` | a configuration per step; the steps of the last assignment and definition evaluated | add records, evaluate, `updateUDQ` in actions | additions to later configurations in place; "already done" told by report steps, of which a time step and an action know only one | a statement is carried out once, the value is that of the statement in force |
| Time map, `schedule/timemap.cc` | times of the report steps, first steps of months and years | DATES, TSTEP, the queries of restart output | a restarted run has no times for its history | the queries agree in both runs |
| Restart configuration, `ioconfig/restartconfig.cc` | per step when to write; SAVE by step | RPTRST, RPTSCHED, SAVE, the override of a simulator | keywords inherit from and override each other; an own count of steps | the last keyword decides, before and after a restart |
| RFT configuration, `schedule/rftconfig.cc` | openings of wells, settings per well and step, the first event | `addWellOpen`, WRFT and WRFTPLT deferred to the end of the section | keywords are applied after all openings of the deck, openings at run time come later | from the first event on, written is what was asked for |
| Output, `output/eclipseio.cc`, `io/outputstream.cc`, `io/erst.cc` | summary, restart and RFT files; step and ministep of the summary | `writeTimeStep`, open, rewind, write, `loadRestart` | crashes between and in writes, restarted runs in the same directory | what a run builds on is kept, what follows the step written again disappears |
| Deck parser, `parser.cc`, `rawdeck/`, `parsecontext.cc`, `errorguard.cc` | include stack, raw keyword, collected errors | load, include, ENDINC, handle error | nested includes, delayed errors | every keyword once, every error reported |
| Eclipse state, tables, grid, units, generated keyword classes | data | construction | arithmetic | numerical; out of the reach of a model checker |

`PROJECT.json` lists every component with its files and what is and is not modelled.

### How they interact

The deck parser delivers keywords. `Schedule` (one object) is constructed
from them in one thread: `iterateScheduleSection` walks through the section with
a growing `currentStep` and calls one handler per keyword; the handlers copy
the object of the current step out of its container, change the copy, and
publish it with one of the `update` functions. A restart first fills the state
of the restart step from a file (`load_rst`). `TimeMap` and `RestartConfig` read the
same section beside it, each with its own count of report steps. A simulator, which is not in the
repository, then goes through the report steps; it reads the schedule, checks
the event bits at the start of a step, and at the end evaluates the ACTIONX
definitions and calls `applyAction`, `shut_well`, `open_well`, `stop_well` and
`applyWellProdIndexScaling`, which change the timeline the deck has built. The
output code reads the schedule of each step and writes summary, restart and RFT file,
in this order; a later run reads the restart file.

There are no threads. What is hard is the order of legal calls, state shared by
pointers over report steps, and the two writers of the timeline (the deck, then
the run time), of which the second meets what the first has planned for the future.
Files add the third: what a crash leaves, and what the next run makes of it.

## 2. The models

### DynamicState

`DynamicState<T>` as pure operators on a function from report steps to
values: `Filled`, `Update`, `UpdateEqual`, `UpdateRange`, `UniqueSteps`. All
other modules are built on it.

### Timeline (abstract)

What the class comment of `DynamicState` promises: "At any point in the time
the previous last set value applies" and updates come in the order of time. One
action: the reader moves on, the past is fixed, the future holds one value.
Reading the well timeline and the ACTIONX definitions is shown to implement it.

### WellTimeline

One well (wells share nothing but the event vector). `sched` holds the container
of the well, the heap of `WellStatus` objects, the events and a counter of
allocations: an object is known by the number of its allocation, so that
comparing records compares pointers, as `update_equal` does. A `WellStatus` that
has no end has `last = NSteps`.

| Action | Code |
|---|---|
| `Welspecs` | `Schedule::addWell` for a new name |
| `Compdat`, `Wefac`, `Wconprod`, `Wconhist` | handlers of these names; `Wefac` stands for all handlers that copy, change one attribute, publish |
| `DeckWelopenWell`, `DeckWelopenConnections` | `applyWELOPEN(runtime = false)`, whole well or connections |
| `EndReportStep`, `EndSection` | DATES and TSTEP with `checkIfAllConnectionsIsShut`; the end of the section |
| `SetWell` | `shut_well`, `open_well`, `stop_well` |
| `ActionWelopenWell`, `ActionWelopenConnections` | `applyAction` with WELOPEN |
| `NextReportStep` | the simulator |

Data is reduced to what the properties tell apart: the status, the state of each
connection, the efficiency factor and the result of `canOpen()` (the rates of a
record are zero or not). `MCWellTimeline` adds the symmetry of the cells.

### WellProdIndex

One well from report step 0 on. `heap` maps addresses to `WellConnections`: a
connection has its place in input order, its mark (`m_subject_to_welpi`) and the
number of times its CF has been scaled. `Visited` and `Applied` are the objects
that the loop of `applyWellProdIndexScaling` comes to and the ones it changes
(`hasSameConnectionsPointers`), `Applicable` is the vector `scalingApplicable`.
`Track` chooses between connection orders TRACK and INPUT. The run time alternates
between the start of a report step (event checked, recalculation) and its end
(actions), as the comment in `applyAction` describes; a scaling factor of one is
left out, since it changes nothing.

### GroupTree

Groups and wells of a section. The containers hold values; the steps from the
current one on are uniform while a section is read, so identity is not needed.
`Welspecs`, `Gruptree` and `Grupnet` are the handlers of these keywords, and each of
their helpers (`AddChild`, `DelChild`, `SetParent`, ...) is one method of
`Group` followed by `updateGroup`; an exception sets `ok` to false and ends the
behaviour, as it ends the constructor of `Schedule`. `clean` is history: whether the
deck read so far is one Eclipse accepts (a node has wells or groups, no group below
itself). `FieldCollectsEverything` is claimed for those; the other properties for
every deck. GRUPTREE of a group under itself is not modelled: `addGroupToGroup` then
reads a `Group` through a reference after replacing the only pointer to it.
`MCGroupTree` adds the symmetry of names.

### ActionLifecycle

The ACTIONX definitions of a section and the run counts of `Action::State`.

| Action | Code |
|---|---|
| `Actionx` | ACTIONX ... ENDACTIO: `addACTIONX` copies the `Actions` of the step, `Actions::add` replaces a known name and takes the next id |
| `EndReportStep`, `EndSection` | DATES, TSTEP, the end of the section |
| `EvaluateActions(R)` | the simulator asks for `pending()`, finds the conditions of some of them fulfilled (`R`) and calls `add_run` for these |
| `TimeStep`, `NextReportStep` | the simulator |

`Actions` is a function from names to definitions, so that equal contents stand for
one object: `addACTIONX` always publishes a fresh copy that differs from the old one
(by the serial number below), so `update()` never takes its early return in either
reading. The report steps have one length. `serial` and `runs` are history: they
tell the definitions apart that the code knows by name and id.

### Tester (abstract) and WellTest

`WellTest` is one well with its entries in `WellTestConfig` (WTEST) and
`WellTestState` (closed wells and completions). Entries of different wells do
not meet, except in an exception (see the hazards).

| Action | Code |
|---|---|
| `Wtest` | one record of WTEST: `add_well` for its reasons, `drop_well` without any |
| `CloseWell`, `OpenWellForReason`, `OpenWell` | `closeWell` and the two functions `openWell` |
| `UpdateWells(open)` | `updateWells` with `updateForNewWTEST`, `open` being the status in the schedule at the call; a logic error sets `ok` to false |
| `AddClosedCompletion`, `DropCompletion`, `UpdateCompletion` | the functions of these names |
| `BeginReportStep`, `TimeStep`, `NextReportStep` | the simulator |

The keywords of a report step are read when the simulation comes to it; in the code
they are read before, which makes no difference, since nothing but WTEST writes the
configuration and nothing reads that of a later step. `closeWell` throws when
the well is closed for the reason already and `openWell(name, reason)` throws
when there is no entry: both are taken as obligations of the caller.

`Tester` says what a WTEST asks for: tests of a closed well every `interval`, at
most `num`, counted from the keyword. The code stores neither "tests since the
keyword" nor resets its counters when the keyword is read; it notices a new keyword by
its report step at the next look for tests. The refinement mapping gives an entry
that does not know the keyword in force no tests.

### TimeMap, RestartConfig and ScheduleSection

`TimeMap` and `RestartConfig` hold the algorithms as operators: the list of times of a
full or a restarted run and the steps that are first in a month or year; the setting
an RPTRST or RPTSCHED gives (`Rptrst`, `Rptsched`), whether it is taken (`Accept`), the
comparison that is not symmetric (`SameSchedule`), what it means (`WriteRestartFile`).

`ScheduleSection` reads one section with the three readers at once, and twice: by the
run from the start (`base`) and by a run restarted from a file of that run
(`restarted`, with `skip` and `current` as in `iterateScheduleSection`).

| Action | Code |
|---|---|
| `RPTRST`, `RPTSCHED`, `SAVE` | `RestartConfig::handleScheduleSection`; for RPTSCHED also the handler of `Schedule`, which is on the whitelist for skipping |
| `WEFAC` | a keyword that is not on it, and that `load_rst` restores |
| `EndReportStep` | a record of DATES or a value of TSTEP, in all readers; ends the skipping |
| `EndSection` | the end of the section |
| `OverrideRestartWriteInterval` | the call a simulator may make |

The file is a prophecy: its step and content are chosen first, and the base run has
to write it. Months have `DaysPerMonth` days. `asked` is history, from which
`Requested` computes what the keywords ask for at each step. Its rules have three sources:
`restartconfig.hh:73-75` for RPTRST against RPTSCHED, `RPTRST()` for what a keyword takes over that
does not give BASIC or FREQ, and `timemap.hh:69-70` for FREQ with BASIC=4 and 5. On the
last two `restartconfig.hh` says something else; that is stated apart, in `EveryNthOfSet` and
`RestartActsAsBasic`, and violated (section 6).

### ReportSteps, Archive (abstract), RestartFile and OutputFiles

`ReportSteps` has the report steps that `OutputFiles` and `RftConfig` are numbered by.
`Archive` is what a unified restart file promises: before a step is stored it and the
later ones are dropped, the earlier ones are never touched. `RestartFile` has what
readers and writers see in a file of which a crash has left a part: an incomplete
array, an incomplete header, or so few bytes that `isEOF` takes them for the end.

| Action of `OutputFiles` | Code |
|---|---|
| `StartOver`, `Restart(s)`, `Stop` | a run in the same directory; `EclipseIO::loadRestart` |
| `WriteSummary` | `Summary::add_timestep` and `write`, for report steps and substeps |
| `OpenRestart` | the constructor of `OutputStream::Restart`: created, or opened at the position of the step; it throws on a file it cannot read |
| `WriteRestart(part)` | `RestartIO::save`, or what a crash leaves of it |
| `WriteRft(whole)` | the RFT file: created at the first event, opened after it |

### RftConfig

Its initial states, steps and specification are `RftInit`, `RftNext` and `RftSpec`, since one
module proves about it and `OutputFiles` both. `OpenWell` is `updateWellStatus` in the deck, `HandleKeyword` the collection of WRFT and
WRFTPLT, `ApplyNext` a turn of the loop at the end of the section (`ApplyWRFT`,
`ApplyWRFTPLT`), `OpenAtRuntime` an opening by an action or a simulator. `Written` is
what the guards of `eclipseio.cc` and `writerft.cc` let through.
`FirstWellopenStepNotBefore` stands for `min_element` over an unordered map with a
comparison that is no ordering: any result that some order of the map gives. All wells
exist from the first step on.

### UdqTimeline

One quantity, of a field or of all wells. `config` is a container of objects known by
the number of the statement that made them; a value is the number of the statement it
comes from. `Udq` is a keyword of the section, `ActionUdq` one in an action
(`updateUDQ`: a changed copy for the object in force, changes in place for the later ones,
an exception in the middle), `Eval` is `UDQConfig::eval` at a time step. `times` counts how
often a statement was carried out, `late` are statements of actions that come after an
evaluation in the same report step (section 6).

## 3. What is checked

`pass` runs find no error; each `violation` run finds a disagreement between the code
and its own documentation (section 6).

| Run | Instance | Result |
|---|---|---|
| `well_timeline` | 3 steps, 2 cells, no cross flow, 6 objects parsing, 7 in all, symmetry | pass, 2.2 million states |
| `well_timeline_efficiency` | 3 steps, 1 cell, cross flow | violation |
| `well_prod_index_input` | 4 steps, 2 cells, input order, 6 objects parsing, 7 in all | pass, 2.4 million states |
| `well_prod_index_track` | 4 steps, 3 cells, track order, with fairness | violation |
| `group_tree` | 2 steps, FIELD + 3 groups, 2 wells, any number of keywords, symmetry | pass, 0.15 million states |
| `well_test` | 3 steps, 2 reasons, 1 completion, 2 plans, times 0 to 3 | pass, 2.1 million states |
| `action_lifecycle` | 4 steps of length 2, 2 names, 3 definitions, limits 1 and 2, waits 0 and 1, symmetry | pass, 1 million states |
| `schedule_section` | 5 steps, 2 calendars, restart at each step, 2 keywords and an initial RPTRST | pass |
| `output_files` | 4 steps, 3 decks, 3 runs, 1 substep in each run | pass, 1.9 million states |
| `rft_config` | 3 steps, 2 wells, 2 keywords | pass, 0.36 million states |
| `rft_config_opened` | the same | violation |
| `udq_timeline` | 4 steps, 4 statements, 2 units | pass, 1 million states |

What the properties of the passing runs say:

* `well_timeline`: the range of a `WellStatus` is where it applies
  (`StatusRangeExact`); no keyword changes the past and each applies to the end
  (`LastSetValueApplies`, a refinement of `Timeline`); a well without an open connection
  is shut when the section ends; a run time call changes steps of the status in force
  only, and all of them from its step on (`RunTimeChangeStaysInRange`,
  `RunTimeStatusReachesEndOfRange`); the deck announces changes of status.
* `well_prod_index_input`: a recalculation scales a connection once, the marked ones and
  none that COMPDAT has reset; WELPI changes no earlier step.
* `group_tree`: both sides of the tree agree; moves of wells are announced; the field
  collects every well of a deck that Eclipse accepts.
* `well_test`: `TestsAsWtestAsks` is the refinement of `Tester`; no logic error is thrown;
  completions are tested at most as often as the largest limit allows.
* `action_lifecycle`: a definition is pending exactly as its own runs allow, whatever
  other definitions its name had; the last definition applies.
* `schedule_section`: a restarted run has the settings of the first one from the restart date
  on (`RestartedRunAgrees`); restart files are written where the keyword that decides asks for
  them (`PlanFollowsKeywords`, by the rules named in section 2), and at the same steps after a restart
  (`PlanSurvivesRestart`).
* `output_files`: the unified file implements `Archive`; a step that a run builds on stays
  as it was written; nothing stale is left after it; the summary is ahead of the restart
  file; the RFT file has the steps of the run.
* `rft_config`: from the first RFT event on written is what was asked for; that event is no
  later than a keyword that asks RFT output of an open well, or an opening after FOPN. Openings
  after a WRFT may be missed (section 6).
* `udq_timeline`: assignments and UPDATE NEXT are carried out once, the value is that of
  the statement in force, a statement of an action reaches all later steps.

Seven more configurations are kept beside the runs, each a counterexample to run by
hand (section 6): `WellTimelineShutEvent`, `WellProdIndexEvent`, `GroupTreeMixed`,
`ScheduleSectionPlan`, `ScheduleSectionFreq`, `ScheduleSectionRestart` and `OutputFilesRft`.

### Bounds

`NSteps` is the number of report steps. Three are enough for a past, a present
and a future; four let a recalculation start between two objects and leave one
step after it. `MaxDeck` and `MaxObjects` bound the allocations of the section
and of all: each keyword allocates one to three objects, so that the interesting
sequences (define, connect, open, commit, change, shut) fit with room for one run
time change. Two cells show everything that depends on "all connections" against
"one connection" and on the order of positions. Three groups make a chain below FIELD with
a place to move to, and every deck over two steps is read. For the actions, three definitions let one name be
given twice between two uses of another, and two runs with a wait fit into a report
step. For the tests, three steps let a WTEST replace, end and resume another one
while an entry has not yet noticed the first, and three time units are enough for the
two tests of the largest limit and one too many; plans without a limit or with interval
0 are left to the proofs.

`MaxKeywords` in `ScheduleSection` is two, after an RPTRST of the SOLUTION section:
a setting inherits from and is held against those before it, and three settings cover
a value, one that overrides it and one that inherits. The calendars have steps that stay
in a month, reach the next one and leave some out, and a restart date reached by TSTEP.
Three runs in `OutputFiles` are one to write, one to crash while it
rewrites, and one that meets what is left; the decks ask for restart files at all steps
or some, with RFT output before, at and after them. Two keywords in `RftConfig` are
one that sets and one that changes, with openings before and after. Four statements in
`UdqTimeline` are a definition, an assignment, an UPDATE and one more
that replaces any of them, over three report steps that are simulated.
Nothing in the code compares
objects by age, so more of the same objects add no new case; the proofs, which
have no bounds, confirm that for the invariants.

### Fairness

`FairSpec` assumes only that the section is read to its end and that the simulator
goes on to the last report step. Both are loops without conditions that could
stop them. No fairness is assumed for keywords or actions: a deck contains
them or does not. No liveness property is claimed: what must happen in this code
happens within one call. `FairSpec` exists in the two well models, where it makes the
counterexamples complete runs; what is read from files or run after a crash
needs no fairness, since a run may end at any point. Deadlock is not checked where a
behaviour may end: at the last report step, after an exception, or when a bound is reached.

## 4. What is proved

The `...Proofs` modules are checked by TLAPS for any
number of steps, wells, cells, names, reasons, values, keywords and objects, from the named assumptions of the
models (`NSteps` is a positive natural, bounds are naturals, `Null` is not a value).
`PROJECT.json` lists the theorems; most state a property that a run checks on a small
instance.

### Well timeline

The invariant `StatusRangeExact` says that the steps of the range of a
`WellStatus` are exactly the steps whose `Well` points to it. It is not inductive
alone: a fresh object must not have the address of one in use, and a keyword of the
section must find the future in one piece. The inductive invariant is

    Inv == TypeOK /\ Good(sched) /\ FutureIsUniform
    Good(S) == S \in Schedule /\ IdsInUse(S) /\ RangeExact(S)

where `IdsInUse` says that the addresses of the `Well` and `WellStatus` objects in
the timeline are not above the allocation counter. Each operator of the model (`UpdateWell`, `SetStatus`,
`WelopenConnections`, ...) has a lemma that it keeps `Good`; the step of each
keyword then follows from the lemmas of the operators it calls. From `Inv`:

* `TypeCorrect`, `StatusRanges`: the invariants of the runs; `FutureUniform`: the part
  of `Inv` that explains why a keyword applies to the end;
* `RunTimeChangesInRange`: an action property of the whole specification;
* `ParseImplementsTimeline`: what the section says refines `Timeline`; every keyword
  maps to `Write`, because `FutureIsUniform` makes `update_equal` fill to the end and
  the ranges that a WELOPEN rewrites start at the committed step. `SectionView` is the
  timeline while it is read and what the section has left (`deck`) afterwards, so that
  the theorem speaks of every behaviour of `Spec`;
* `NoOpenWell`: uses the refinement (an ended step never changes) and the check at
  the end of a step;
* `RunTimeStatusesReach`: at run time every function leaves each `Well` object with the
  `WellStatus` it had (`SameStatuses`), so the steps of a range go on to share one;
* `StatusChangesAnnounced`: a well once defined stays defined (`Lasting`), and each
  operator `Announces` a status it changes at its step. The steps beyond are one piece
  and show no change of their own, which is why `AnnouncedUpTo` the current step is
  what induction carries.

### Productivity index

`Inv` adds to the type that unused addresses hold no connection and that the
objects in use are below the allocation counter, so that a keyword's fresh copy is
seen at no earlier step. `PastKept` is the property that the copy in `handleWELPI`
("Need to ensure we have an independent copy") is made for; `UnmarkedFactors` says
that a recalculation never reaches a connection which COMPDAT has reset.

`ScaledOnce` is about the comparison of neighbouring objects in
`applyWellProdIndexScaling()`: it only works if the steps that share a `WellConnections`
object are adjacent. They are not at run time, where a copy made at the report step can
split them; `Pieces` says that they are from the report step on (`OnePiece`), which is where a
recalculation starts. `AppliedDistinct` then takes the last object before the second of
two that share, which exists because the steps are well-founded.

`FollowsConnection` says that a mark and a factor stay with their connection, although
`scalingApplicable` knows connections by position only. It assumes input order (`~Track`);
in track order it is false (section 6). `Shaped` has what input order gives: the
connections of an object have the first places, each its own, so that an index of the
vector is a connection (`Numbered`); a connection is at its place at every later step
(`Keeps`, because new ones are appended and an action cannot have COMPDAT); `Well` objects
with the same connections have the same index, so that the first of them, whose
connections the loop scales, stands for the others (`SameIndex`).

### Group tree

    Inv == TypeOK /\ (sched.ok => Good(sched, step))

`Good` has the parts `Uniform` (the future is one piece, as for wells), `Lasting` (a
group or well that exists goes on to exist), `Links` (both sides of the tree agree at each
step, and every name on either side exists there) and `Announced`. None is inductive
without the first two: a keyword changes the step it is at and those that hold the
same value, and that is the rest of the section only because of `Uniform`.

Inside a keyword the two sides disagree: `addGroupToGroup` updates the new parent, the old
parent and the child in three steps, each of which may throw. The lemmas of the helpers
therefore do not speak of `Good`; they say what a helper leaves at the current step
(`Moved`, `Rehung`, `Listed`), that the past stays and the future follows (`Extends`), and only the
lemmas of whole keywords put the sides together again (`LinksBut` is `Links` while one
group is on its way). After an exception nothing but the type is claimed, since the
constructor of `Schedule` has thrown. Cycles, which GRUPTREE allows, do not disturb
`Links`: that part never follows the tree.

`FieldCollects` does follow it, for the decks that Eclipse accepts:

    CleanInv == Inv /\ (clean => sched.ok /\ \A t \in Steps : Tidy(sched, t))

`Hanging`, the first part of `Tidy`, says that every set of groups which has FIELD and is
closed under children has all groups. That is reachability from FIELD without a path, so no
induction over the depth of the tree is needed: when GRUPTREE moves a
group, a set closed in the new tree is made closed in the old one by adding or leaving out what is below
the group, and the deck being clean says that the new parent is not there. The other parts
are that FIELD alone has no parent and that no group has both groups and wells; with them no
handler of a clean deck throws. `TidyCollects` then takes the wells of all groups.

### Restarted section

    Inv == TypeOK /\ Uniform /\ Skipping /\ Following

`Skipping` says what the restarted run has while it skips: the settings that the file
brings and the place of the other run. `Following` says that after the skip both runs are
at the same step and agree from the restart date on; `Uniform`, that the future of the
first run is one piece, so that a whitelisted keyword, which the restarted run writes from
step 0 on, gives both runs the same. `RestartAgrees` follows for sections of any length and any calendar. It
is about the settings of the schedule.

The plan of restart files has two more theorems. `PlanSurvives` compares the meaning of one
setting in both runs: the two lists of times agree from the restart date on, and so do the
first steps of months and years after it. The property leaves out the settings that count months or
years by FREQ from a step of the history, which a restarted run cannot do (section 6). `PlanOfKeywords` says
that the chain of settings gives what the keywords ask for (`Requested`). Its invariant is

    PlanInv == Inv /\ Planned /\ AskedSoFar

where `Planned` says that the setting of a step is that of the keyword which decides for it,
with what it took over from the ones before; `AskedSoFar`, that while the section is read no
keyword is ahead of the reader and the steps to come all have the setting of the last one. The queries for
the first step of a month or year and the period of the last one (`Before`) are characterised
by what their result satisfies, so that no induction over the list of times is needed.

### Output files

The inductive invariant of `OutputProofs` relates the unified file, the history `written`
and the place in `writeTimeStep()`:

* `Ordered`: the steps a reader finds ascend, also in a file whose last step a crash has
  torn; a file that has been opened for a step has only steps before it. Without order the
  position that `OutputStream` looks for would not separate the past from the rest.
* `History`: what this run builds on is as it was written, of its plan and not of the future.
* `OfThePlan`, `Newest`: from any step of the history on the file has whole steps of the plan
  only, none of the plan is missing, and once this run has written nothing is beyond the
  present. The first part survives a restart from a step without a file, the second does
  not: a run that has not written yet still sees the steps of the run before.
* `SummaryKept`, `RftKept`: the summary has the step before the restart file is opened; the RFT
  file has from the first step of the run on what the run was asked for.

`Kept`, `Ordering`, `OwnRft` and `Fresh` are the properties of the run. `Implements` is the
refinement of `Archive`: opening the file is `Drop`, a whole write is `Store`, and
everything else, a crash in the middle of a write included, is a stutter.

### RFT

`BegunForKeywords` is about the end of the section, when the keywords have been applied. The
invariant speaks of those before `next`, and of the fact that the first event only gets
smaller, so that a keyword once served stays served. The comparison that is no
ordering makes the search for an opening nondeterministic: the proof takes whatever
it returns.

`AsRequested` is about all steps. `Follows` says that a container holds at each step what the
last keyword up to that step has set, of those applied so far; it is inductive because the
keywords are applied in the order of their steps (`KeywordsOrdered`), and each overwrites
all that follows. `FirstOf` says the same of the first WRFT and the first
FOPN of a well, of which only the least step is kept.

### UDQ

The code has no counts: it compares the report step of a record with that of the last
evaluation. `Counted` says that this amounts to one: what has been carried out
has a step that is not after that of the evaluation. For that a number must have one
step in all configurations that hold it (`OneRecord`), although an action copies a
record into every later configuration; no configuration may hold a record of a later step (`InTime`);
and the state must not be ahead of the simulation (`StateInTime`). The assignment of 0 that a
unit implies is the exception: it comes again with each quantity that becomes known
by its unit, always with step 0, and finds that the state has been assigned.
`ActionsReachLaterSteps` rests on one lemma about `updateUDQ`, which finds for each later
step the branch (copy or in place) that has given it the record.

`ValueInForce` needs that the record which decides at a step has decided at every step
since its own: only then is the evaluation that gave the quantity its value an evaluation of that
record, and not of one that was in force in between.

### Actions

`OwnRuns` and `WithinLimit` speak of the runs of one definition, the code of
runs under a name and id. The invariant connects the two: definitions with the same
name and id are the same (`Distinct`), and then both counts agree (`CountsAgree`).
Distinctness is not inductive by itself, since a redefinition looks only at the
definition in force at its own step: `Reading` adds that no earlier step has a higher
id under the name, and `Numbered` that an id is below the number of definitions. That
a pending definition is never held back by its start time follows from `Numbered`
and from the time of the simulation, which is never before its report step.
`ActionsImplementTimeline` has one step for ACTIONX, from the lemma that `update()`
on a container with a uniform end is a write to the end.

### Well test

`NoLogicErrors` and `TestsRefineTester` rest on `Counted`: an entry never knows a
report step after that of the WTEST in force, while keywords are read it knows none
as late as the current one, and an entry without a keyword has counted nothing.
The second part is what makes a second WTEST in the same report step harmless to the
comparison of report steps in `updateForNewWTEST()`. One lemma says what that
function makes of an entry; each action of `WellTest` then maps to one of `Tester`
or to a stutter, and `UpdateWells` to `Test` if the schedule has the well open.

`CompletionsBounded` rests on `Bounded`: the limits in force are those of some plan
(`FromPlans`), and the property itself. A further test of a completion is
`OneMoreTest`: n tests have been bounded by the interval a of one plan, the next waits
for the interval b in force, and the shorter of a and b bounds all n + 1. Which plan
that is changes from test to test, so the witness is part of the induction.

### Out of the prover's reach

Liveness under fairness and ENABLED, induction over data (the library's induction
theorems take an operator parameter that no installed backend instantiates), and
anything about RECURSIVE operators stay with TLC. No module here declares one:
`Below` in `GroupTree` is the least set closed under children.

### Model-checked only

Every property of a passing run has its theorem. What TLC alone shows are the violations of
section 6, that the bounds of section 3 meet the cases the properties are about (each can be
broken by a plausible bug in the code), and that every action can happen. `ScalingFollowsConnection`
is proved for input order only. No liveness is claimed.

## 5. What is not modelled

See the components of `PROJECT.json` for all of them with reasons. In the
modelled components: the attributes of a well that a handler only copies;
completions and segments; the computation of transmissibilities; the text of
patterns and messages; `initial_range` and serialisation of `DynamicState`;
`filterConnections`, which drops inactive cells once after parsing; blocks of several
keywords in an action. Of restart output: which arrays are written (the mnemonics),
the real calendar (months have one length), RPTSOL, and the records of `load_rst` beyond
settings. Of files: formats, the contents of arrays, SMSPEC, INIT and RSM. Of UDQ: expressions,
selectors of wells, several quantities, and active UDQs. The simulator is
modelled from how the schedule expects to be called (comments in `applyAction`,
`keywordhandlers.cc`, the tests in `src/tests/scheduletests.cc` and
`src/tests/actionx.cc`) and is marked external in the map.

The components without a module are of three kinds. Most of the code by size is data and
arithmetic: the generated and the numerical set-up, units, summary vectors,
formats. Some have state with single updates that nothing else reads back (network,
well lists, message limits): a model would restate each assignment. The deck parser works on text.

## 6. Findings

Runs that end in a violation:

1. `well_timeline_efficiency`: WELOPEN of connections in an action writes one `Well`
   over the range of its status and undoes other keywords there
   (`schedule.cc:679-687`).
2. `well_prod_index_track`: `scalingApplicable` is indexed by position, and track
   order moves connections (`schedule.cc:1549`).
3. `rft_config_opened`: the comparison with which `firstWellopenStepNotBefore` searches
   an unordered map is no ordering; a well that was opened before the WRFT may hide one
   that opens after it, whose RFT output is then lost (`rftconfig.cc:312`).

Counterexamples to run by hand, `tlc -config <file> <module>`:

| Configuration | Module | Property | What it shows |
|---|---|---|---|
| `WellTimelineShutEvent.cfg` | `WellTimeline` | `RunTimeStatusChangeIsAnnounced` | an action that shuts the last connection shuts the well without `WELL_STATUS_CHANGE` (`well.cc:794`) |
| `WellProdIndexEvent.cfg` | `WellProdIndex` | `ScalingReachesWellOfStep` | the recalculation of a WELPI in an action misses the `Well` in force (`schedule.cc:1536`) |
| `GroupTreeMixed.cfg` | `GroupTree` | `NoMixedChildren` | WELSPECS may put wells into a group with child groups, which `Group::addGroup` forbids in the other order (`group.cc:399`, `419`) |
| `ScheduleSectionPlan.cfg` | `MCScheduleSection` | `RestartedRunWritesTheSame` | with BASIC=4 or 5 a restarted run counts years and months from its restart step (`timemap.hh:69-70`) |
| `ScheduleSectionFreq.cfg` | `MCScheduleSection` | `EveryNthOfSet` | with BASIC=4 or 5 and FREQ=n the code counts years or months of the calendar (`timemap.cc:329`), as `timemap.hh:69-70` and `restartconfigtests.cc:51-91` say; the comment `restartconfig.hh:241-251` counts the steps that are first in one. In the counterexample a month is left out: the code writes steps 2 and 3, the comment asks for 2 and 4 |
| `ScheduleSectionRestart.cfg` | `MCScheduleSection` | `RestartActsAsBasic` | RPTSCHED RESTART=1 followed by RPTRST FREQ=2 writes no file, because the RPTRST takes over the BASIC of a setting that has none (`restartconfig.cc:411`); RESTART=1 is "As RPTRST,BASIC=1" (`restartconfig.hh:53`) |
| `OutputFilesRft.cfg` | `MCOutputFiles` | `RftFileOpenedAfterFirst` | the first RFT output of a restarted run creates the file anew, and the output of the run before it is gone (`eclipseio.cc:241`) |

Not listed as findings, since the repository says little about what should happen,
but worth knowing:

* *Wells.* After a run time status change the status changes back
  at the step where the next `WellStatus` of the deck begins, without a
  `WELL_STATUS_CHANGE` there if the deck alone changed nothing. A run time OPEN leaves a well
  open whose connections are all shut. WELOPEN records an opening for RFT even
  if `updateWellStatus` has refused it (`schedule.cc:651-653`).
* *Groups.* GRUPTREE moves groups without `GROUP_CHANGE`, which only `addWellToGroup` adds. It
  accepts cycles, on which `groupTree` does not end.
* *Tests and actions.* A new WTEST resets the counters of wells but not those of
  completions, so completions tested under an older WTEST get only what the larger
  limit leaves (`CompletionTestsBounded` is what holds). WELSPECS is accepted in
  ACTIONX blocks and ignored by `applyAction`.
* *Restart.* `restart_info()` drops hours and minutes (`header.cc:125`). A restart date that
  is reached by TSTEP is known to the time map, but the reader ends its skipping at
  DATES only, and the rest of the section is skipped. `load_rst` brings neither ACTIONX nor
  UDQ, WTEST, WLIST, NUPCOL or DRSDT. SAVE is lost if any keyword follows it in the same
  step (`restartconfig.cc:453-457`).
* *Files.* A unified file that a crash has left empty, or torn in an array, makes every later run throw, while
  one to three stray bytes at its end are not seen. A run that starts over with a thinner plan leaves
  later steps of the old run behind separate files. The RFT file is never rewound. The
  summary of a restarted run replaces that of the run before, whose restart file it continues.
* *RFT.* `active()` asks `rft()` for the wells of PLT (`rftconfig.cc:185`): output that only
  PLT asks for is never written. Openings at run time do not bring the first event forward.
* *UDQ.* An ASSIGN by an action in a report step that has already evaluated an assignment
  is never evaluated for a field quantity, and for a well quantity only in the next
  step; so is an UPDATE NEXT after an evaluation of the definition. A
  well quantity is assigned again at each report step even after a DEFINE has taken over, and the
  definition overwrites it.

## 7. Plan

Done, with proofs: `DynamicState`, `Timeline`, `WellTimeline`, `WellProdIndex`, `GroupTree`,
`ActionLifecycle`, `Tester` and `WellTest`, `TimeMap`, `RestartConfig` and `ScheduleSection`,
`Archive`, `RestartFile` and `OutputFiles`, `RftConfig`, `UdqTimeline`. Left, in this order:

1. Actions of several keywords, with an exception in the middle.
2. Several wells in `WellTest`, for the exception in the loop of `updateWells`.
3. The network tree, well lists, the include stack of the parser and delayed errors: small
   models, each with one or two properties worth a run.
