---------------------------- MODULE WellTimeline ----------------------------
(***************************************************************************)
(* One well of a Schedule: the container Schedule::wells_static holds for  *)
(* it, the WellStatus objects its Well objects share, and the events the   *)
(* updates emit.                                                           *)
(*                                                                         *)
(* The SCHEDULE section is read once, with currentStep growing (phase      *)
(* "parse"): every keyword copies the Well object of the current step,     *)
(* changes the copy and publishes it from that step on.  A simulator then  *)
(* walks through the report steps (phase "run") and changes the same       *)
(* timeline again, through shut_well(), open_well(), stop_well() and the   *)
(* WELOPEN keywords of the ACTIONX blocks it triggers.                     *)
(*                                                                         *)
(* Wells share no state but the event vector of the Schedule, so one well  *)
(* is enough; "events" is that vector for the events this well can emit.   *)
(***************************************************************************)
EXTENDS DynamicState

CONSTANTS
  NSteps,       \* number of report steps: TimeMap::size()
  Conns,        \* the cells the well may be connected to
  Efficiencies, \* values of the WEFAC keyword; 1 is the initial one
  Controls,     \* the states the status keywords of the deck ask for
  ConnControls, \* the connection states COMPDAT and WELOPEN ask for
  CrossFlow,    \* the cross flow item of the WELSPECS record
  MaxDeck,      \* bound: Well objects allocated while the section is read
  MaxObjects,   \* bound: Well objects allocated in all
  Null          \* the empty pointer

Steps == 0 .. NSteps - 1

Status == {"OPEN", "STOP", "SHUT", "AUTO"}

\* State of the connection to a cell; "NONE" is a cell without connection.
ConnState == {"OPEN", "SHUT", "AUTO"}
Connections == [Conns -> ConnState \cup {"NONE"}]

ASSUME NStepsAssumption == NSteps \in Nat \ {0}
ASSUME MaxObjectsAssumption == MaxObjects \in Nat /\ MaxDeck \in Nat
ASSUME CrossFlowAssumption == CrossFlow \in BOOLEAN
ASSUME ControlsAssumption == Controls \subseteq Status /\ ConnControls \subseteq ConnState
ASSUME EfficienciesAssumption == 1 \in Efficiencies

\* Addresses of objects, in the order of their allocation.
Ids == 1 .. MaxObjects

\* A WellStatus is valid from first to last - 1; NSteps stands for the empty
\* optional last_step of a status that has no end.
WellStatus == [status : Status, first : Steps, last : 0 .. NSteps]

\* A Well object: its own address, the WellStatus it points to, and the
\* attributes the properties need.  canOpen is Well::canOpen().
Well == [id : Ids, status : Ids, conns : Connections,
         efficiency : Efficiencies, canOpen : BOOLEAN]

Event == {"NEW_WELL", "WELL_STATUS_CHANGE", "COMPLETION_CHANGE"}

\* The attributes of a well without the addresses.
Views == [status : Status, conns : Connections,
          efficiency : Efficiencies, canOpen : BOOLEAN]

ASSUME NullAssumption == Null \notin Well \cup Views

VARIABLES
  phase,   \* "parse" while the section is read, "run" in the simulation
  step,    \* currentStep of the section, then the report step simulated
  sched,   \* the Schedule: wells, WellStatus heap, events, allocations
  deck     \* history: the timeline as the section left it

vars == <<phase, step, sched, deck>>

Schedule == [well : [Steps -> Well \cup {Null}],
             statuses : [Ids -> WellStatus],
             events : [Steps -> SUBSET Event],
             ids : 0 .. MaxObjects]

-----------------------------------------------------------------------------
\* hasBeenDefined() / wellNames(t): the well exists at step t.
Defined(S, t) == S.well[t] # Null

StatusOf(S, t) == S.statuses[S.well[t].status]

\* What a reader of the schedule sees of the well at step t.
View(S, t) ==
  IF Defined(S, t)
  THEN [status |-> StatusOf(S, t).status, conns |-> S.well[t].conns,
        efficiency |-> S.well[t].efficiency, canOpen |-> S.well[t].canOpen]
  ELSE Null

(* What the properties ask of a Schedule S.                                *)

RangeExact(S) ==
  \A t, u \in Steps : Defined(S, t) =>
    ((StatusOf(S, t).first <= u /\ u < StatusOf(S, t).last) <=>
     (Defined(S, u) /\ S.well[u].status = S.well[t].status))

Uniform(S, t) == \A u \in Steps : u >= t => S.well[u] = S.well[t]

-----------------------------------------------------------------------------
(* The pieces the handlers are made of.  Each takes a Schedule S and       *)
(* returns the Schedule the call leaves behind.                            *)

NoConnections(w) == \A c \in Conns : w.conns[c] = "NONE"

\* WellConnections::allConnectionsShut(): false for a well without any.
AllConnectionsShut(w) ==
  /\ ~NoConnections(w)
  /\ \A c \in Conns : w.conns[c] \in {"SHUT", "NONE"}

AddEvent(S, t, e) == [S EXCEPT !.events[t] = @ \cup {e}]

\* updateWell() with a copy that w describes: the copy is a new object.
UpdateWell(S, t, w) ==
  [S EXCEPT !.ids = S.ids + 1,
            !.well = UpdateEqual(S.well, t, [w EXCEPT !.id = S.ids + 1])]

\* Variant: the old status is not given its end.
OldStatusLeftOpen(S, w, t, st) ==
  [S EXCEPT !.statuses[S.ids + 1] = [status |-> st, first |-> t, last |-> NSteps]]

\* The WellStatus that replaces the one of w: the old one ends at t.
NewStatus(S, w, t, st) ==
  [S EXCEPT !.statuses =
     [i \in Ids |->
        IF i = S.ids + 1 THEN [status |-> st, first |-> t, last |-> NSteps]
        ELSE IF i = w.status THEN [S.statuses[i] EXCEPT !.last = t]
        ELSE S.statuses[i]]]

\* Variant: the run time makes a new WellStatus as the parser does.
AlwaysNewStatus(S, t, runtime, st) ==
  UpdateWell(NewStatus(S, S.well[t], t, st), t, [S.well[t] EXCEPT !.status = S.ids + 1])

\* Well::updateStatus() on the copy of the well at t, and updateWell().  The
\* run time writes into the WellStatus the copy shares with other objects.
SetStatus(S, t, runtime, st) ==
  IF runtime
  THEN UpdateWell([S EXCEPT !.statuses[S.well[t].status].status = st], t, S.well[t])
  ELSE UpdateWell(NewStatus(S, S.well[t], t, st), t,
                  [S.well[t] EXCEPT !.status = S.ids + 1])

\* Variant: the old status is read after the update, so it never differs.
StatusReadTooLate(S, t, runtime, st) ==
  IF NoConnections(S.well[t]) /\ st = "OPEN" THEN S ELSE SetStatus(S, t, runtime, st)

\* Schedule::updateWellStatus()
UpdateWellStatus(S, t, runtime, st) ==
  IF NoConnections(S.well[t]) /\ st = "OPEN"
  THEN S
  ELSE IF StatusOf(S, t).status = st
       THEN SetStatus(S, t, runtime, st)
       ELSE AddEvent(SetStatus(S, t, runtime, st), t, "WELL_STATUS_CHANGE")

\* Variant: nothing is committed.
NoCommit(S, t) == S

\* Well::commitStatus() on a copy, and updateWell().
CommitStatus(S, t) == SetStatus(S, t, FALSE, StatusOf(S, t).status)

\* checkIfAllConnectionsIsShut(): run when a report step of the section ends.
CheckIfAllConnectionsIsShut(S, t) ==
  IF Defined(S, t) /\ AllConnectionsShut(S.well[t]) /\ StatusOf(S, t).status # "SHUT"
  THEN UpdateWellStatus(S, t, FALSE, "SHUT")
  ELSE S

\* handleWELOPENConnections(): the connections of w that match, set to cs.
WithConnState(w, cells, cs) ==
  [w EXCEPT !.conns = [c \in Conns |->
     IF c \in cells /\ w.conns[c] # "NONE" THEN cs ELSE w.conns[c]]]

\* The well w over the steps of a WellStatus.
OverRange(data, range, w) ==
  IF range.last = NSteps
  THEN Update(data, range.first, w)
  ELSE UpdateRange(data, range.first, range.last, w)

\* The second half of applyWELOPEN for a record that names connections: if
\* they change, the copy replaces the well over the range of its WellStatus.
\* At run time updateConnections() shuts the well with its last connection.
WelopenConnections(S, t, runtime, cells, cs) ==
  LET w == [WithConnState(S.well[t], cells, cs) EXCEPT !.id = S.ids + 1]
  IN IF w.conns = S.well[t].conns
     THEN S
     ELSE [S EXCEPT !.ids = S.ids + 1,
                    !.well = OverRange(S.well, StatusOf(S, t), w),
                    !.statuses[w.status].status =
                       IF runtime /\ AllConnectionsShut(w) THEN "SHUT" ELSE @]

-----------------------------------------------------------------------------
Init ==
  /\ phase = "parse"
  /\ step = 0
  /\ sched = [well |-> Filled(NSteps, Null),
              statuses |-> [i \in Ids |-> [status |-> "SHUT", first |-> 0, last |-> NSteps]],
              events |-> Filled(NSteps, {}),
              ids |-> 0]
  /\ deck = Filled(NSteps, Null)

\* Room for the objects one handler allocates: the bounds of the model.
CanAllocate(n, bound) == sched.ids + n <= bound

Parsing(n) == phase = "parse" /\ CanAllocate(n, MaxDeck) /\ CanAllocate(n, MaxObjects)
ParsingWell(n) == Parsing(n) /\ Defined(sched, step)

\* WELSPECS with a new name: addWell().
Welspecs ==
  /\ Parsing(1)
  /\ \A t \in Steps : ~Defined(sched, t)
  /\ LET w == [id |-> sched.ids + 1, status |-> sched.ids + 1,
               conns |-> [c \in Conns |-> "NONE"],
               efficiency |-> 1, canOpen |-> CrossFlow]
         S == [sched EXCEPT
                 !.ids = sched.ids + 1,
                 !.well = Update(sched.well, step, w),
                 !.statuses[sched.ids + 1] =
                     [status |-> "SHUT", first |-> step, last |-> NSteps]]
     IN sched' = AddEvent(S, step, "NEW_WELL")
  /\ UNCHANGED <<phase, step, deck>>

\* COMPDAT: the connection to cell c gets state cs.
Compdat(c, cs) ==
  /\ ParsingWell(1)
  /\ LET w == sched.well[step]
         S == IF w.conns[c] = cs THEN sched
              ELSE UpdateWell(sched, step, [w EXCEPT !.conns[c] = cs])
     IN sched' = AddEvent(S, step, "COMPLETION_CHANGE")
  /\ UNCHANGED <<phase, step, deck>>

\* WEFAC: one of the many handlers that copy the well, change one attribute
\* of the copy and publish it if that is a change.
Wefac(e) ==
  /\ ParsingWell(1)
  /\ sched.well[step].efficiency # e
  /\ sched' = UpdateWell(sched, step, [sched.well[step] EXCEPT !.efficiency = e])
  /\ UNCHANGED <<phase, step, deck>>

\* The control part of WCONPROD and WCONHIST: a copy with the new rates, of
\* which only canOpen is kept here, published if that is a change.
WithControls(S, t, zeroRates) ==
  IF S.well[t].canOpen = (CrossFlow \/ ~zeroRates)
  THEN S
  ELSE UpdateWell(S, t, [S.well[t] EXCEPT !.canOpen = CrossFlow \/ ~zeroRates])

\* WCONPROD: state and rates; it never closes a well with zero rates.
Wconprod(st, zeroRates) ==
  /\ ParsingWell(2)
  /\ sched' = WithControls(UpdateWellStatus(sched, step, FALSE, st), step, zeroRates)
  /\ UNCHANGED <<phase, step, deck>>

\* WCONHIST: as WCONPROD, and a well without cross flow and without rates is
\* closed whatever state the record asked for.
Wconhist(st, zeroRates) ==
  /\ ParsingWell(3)
  /\ LET S == WithControls(UpdateWellStatus(sched, step, FALSE, st), step, zeroRates)
     IN sched' = IF ~CrossFlow /\ zeroRates
                 THEN UpdateWellStatus(S, step, FALSE, "SHUT")
                 ELSE S
  /\ UNCHANGED <<phase, step, deck>>

\* A WELOPEN record without connections, from the deck or from an ACTIONX.
WelopenWell(runtime, st) ==
  /\ st = "OPEN" => sched.well[step].canOpen
  /\ sched' = UpdateWellStatus(sched, step, runtime, st)
  /\ UNCHANGED <<phase, step, deck>>

DeckWelopenWell(st) == ParsingWell(1) /\ WelopenWell(FALSE, st)

\* A WELOPEN record of the deck that names connections: the status is
\* committed first, so that the range of the update starts at this step.
DeckWelopenConnections(cells, cs) ==
  /\ ParsingWell(2)
  /\ sched' = AddEvent(WelopenConnections(CommitStatus(sched, step), step, FALSE, cells, cs),
                       step, "COMPLETION_CHANGE")
  /\ UNCHANGED <<phase, step, deck>>

\* DATES and TSTEP: one check, then one step for every record or value.
EndReportStep(next) ==
  /\ phase = "parse" /\ CanAllocate(1, MaxObjects)
  /\ next > step
  /\ sched' = CheckIfAllConnectionsIsShut(sched, step)
  /\ step' = next
  /\ UNCHANGED <<phase, deck>>

\* Variant: no check when the section ends without a DATES keyword.
NoFinalCheck ==
  /\ phase = "parse" /\ CanAllocate(1, MaxObjects)
  /\ phase' = "run"
  /\ step' = 0
  /\ deck' = [t \in Steps |-> View(sched, t)]
  /\ UNCHANGED sched

\* The end of the section; the simulation starts at report step 0.
EndSection ==
  /\ phase = "parse" /\ CanAllocate(1, MaxObjects)
  /\ sched' = CheckIfAllConnectionsIsShut(sched, step)
  /\ phase' = "run"
  /\ step' = 0
  /\ deck' = [t \in Steps |-> View(sched', t)]

\* handleKeyword(): the keywords of the section that change the well.
Keyword ==
  \/ Welspecs
  \/ \E c \in Conns, cs \in ConnControls : Compdat(c, cs)
  \/ \E e \in Efficiencies : Wefac(e)
  \/ \E st \in Controls, zero \in BOOLEAN : Wconprod(st, zero) \/ Wconhist(st, zero)
  \/ \E st \in Controls : DeckWelopenWell(st)
  \/ \E cells \in SUBSET Conns, cs \in ConnControls : DeckWelopenConnections(cells, cs)

ParseNext ==
  \/ Keyword
  \/ \E next \in Steps : EndReportStep(next)
  \/ EndSection

-----------------------------------------------------------------------------
(* The simulation.  The simulator is not part of the repository: it takes  *)
(* the report steps in order and calls the functions below on the way.     *)

RunningWell == phase = "run" /\ CanAllocate(1, MaxObjects) /\ Defined(sched, step)

\* shut_well(), open_well(), stop_well()
SetWell(st) ==
  /\ RunningWell
  /\ sched' = UpdateWellStatus(sched, step, TRUE, st)
  /\ UNCHANGED <<phase, step, deck>>

\* WELOPEN in an ACTIONX block.
ActionWelopenWell(st) == RunningWell /\ WelopenWell(TRUE, st)

ActionWelopenConnections(cells, cs) ==
  /\ RunningWell
  /\ sched' = AddEvent(WelopenConnections(sched, step, TRUE, cells, cs),
                       step, "COMPLETION_CHANGE")
  /\ UNCHANGED <<phase, step, deck>>

\* Variant: the simulator runs past the last step.
PastTheLastStep ==
  /\ phase = "run"
  /\ step' = step + 1
  /\ UNCHANGED <<phase, sched, deck>>

\* The last step of the time map is the end of the simulation.
NextReportStep ==
  /\ phase = "run"
  /\ step + 1 < NSteps - 1
  /\ step' = step + 1
  /\ UNCHANGED <<phase, sched, deck>>

RunNext ==
  \/ \E st \in {"SHUT", "OPEN", "STOP"} : SetWell(st)
  \/ \E st \in Controls : ActionWelopenWell(st)
  \/ \E cells \in SUBSET Conns, cs \in ConnControls : ActionWelopenConnections(cells, cs)
  \/ NextReportStep

Next == ParseNext \/ RunNext

Spec == Init /\ [][Next]_vars

\* The section is read to its end and the simulator goes on to the last step.
Fairness == WF_vars(EndSection) /\ WF_vars(NextReportStep)
FairSpec == Spec /\ Fairness

-----------------------------------------------------------------------------
TypeOK ==
  /\ phase \in {"parse", "run"}
  /\ step \in Steps
  /\ sched \in Schedule
  /\ deck \in [Steps -> Views \cup {Null}]

\* The WellStatus of a well object holds at exactly the steps of its range:
\* every step sees a status that is valid there, and every step of the range
\* of a status sees that same status.  Run time WELOPEN relies on it: it
\* rewrites the range of a status and must hit neither more nor less
\* (Schedule::applyWELOPEN, Well::commitStatus).
StatusRangeExact == RangeExact(sched)

\* While the section is read the steps not reached yet are one piece: a
\* keyword applies from its own step on and no earlier keyword is in its way
\* (update_equal() of DynamicState then fills to the end).
FutureIsUniform ==
  phase = "parse" => Uniform(sched, step)

\* What the section says of the well at step t, as far as it has been read.
SectionView(t) == IF phase = "parse" THEN View(sched, t) ELSE deck[t]

\* A report step that the section has ended never shows a well that is not
\* shut while all its connections are (checkIfAllConnectionsIsShut()).
NoOpenWellWithoutOpenConnection ==
  \A t \in Steps :
    /\ phase = "parse" => t < step
    /\ SectionView(t) # Null
    /\ AllConnectionsShut(SectionView(t))
    => SectionView(t).status = "SHUT"

\* A status that the section makes differ from the one of the step before is
\* announced by a WELL_STATUS_CHANGE event of that step (events.hh).
StatusChangesAreAnnounced ==
  \A t \in Steps \ {0} :
    /\ phase = "parse" => t <= step
    /\ SectionView(t - 1) # Null
    /\ SectionView(t).status # SectionView(t - 1).status
    => "WELL_STATUS_CHANGE" \in sched.events[t]

\* Reading the section implements the promise of DynamicState: a keyword
\* never changes what the well looks like before its own step.
Promise == INSTANCE Timeline
  WITH Initial <- Null,
       now <- IF phase = "parse" THEN step ELSE NSteps - 1,
       value <- [t \in Steps |-> SectionView(t)]

LastSetValueApplies == Promise!Spec

\* At run time a change at the report step reaches no step outside the range
\* of the WellStatus that is valid there, neither of the past nor of a later
\* status keyword of the deck (Well::updateStatus, Schedule::applyWELOPEN).
RunTimeChangeStaysInRange ==
  [][phase = "run" =>
       \A t \in Steps : View(sched', t) # View(sched, t) =>
         /\ Defined(sched, step)
         /\ StatusOf(sched, step).first <= t
         /\ t < StatusOf(sched, step).last]_vars

\* A status set at run time holds until the next status keyword of the deck,
\* through the other keywords on the way that replaced the Well object
\* (the comment on WellStatus objects in well.cc).
RunTimeStatusReachesEndOfRange ==
  [][phase = "run" /\ Defined(sched, step) =>
       \A t \in Steps :
         step <= t /\ t < StatusOf(sched, step).last =>
           StatusOf(sched', t).status = StatusOf(sched', step).status]_vars

\* No function called at run time sets an efficiency factor, so each step
\* keeps the factor the deck gave it (applyWELOPEN: "in this case we *only*
\* update the status of the connections, and not the well itself").
EfficiencyAsInDeck ==
  phase = "run" => \A t \in Steps :
    Defined(sched, t) => sched.well[t].efficiency = deck[t].efficiency

\* Any run time change of the status at the report step is announced there.
RunTimeStatusChangeIsAnnounced ==
  [][/\ phase = "run"
     /\ Defined(sched, step)
     /\ StatusOf(sched', step).status # StatusOf(sched, step).status
     => "WELL_STATUS_CHANGE" \in sched'.events[step]]_vars
=============================================================================
