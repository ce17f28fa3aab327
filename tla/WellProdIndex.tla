---------------------------- MODULE WellProdIndex ----------------------------
(***************************************************************************)
(* The productivity index of a well (keyword WELPI) and the connection     *)
(* transmissibility factors (CF) the simulator scales to reach it.         *)
(*                                                                         *)
(* The Well objects of a timeline share WellConnections objects.  WELPI    *)
(* marks the connections in force as subject to scaling, COMPDAT unmarks   *)
(* the connection it specifies anew.  At the start of a report step with   *)
(* the event WELL_PRODUCTIVITY_INDEX the simulator computes a factor and   *)
(* calls applyWellProdIndexScaling(), which scales the factors in place,   *)
(* for this and the later steps.  The last keywords come from the ACTIONX  *)
(* blocks that the simulator triggers at the end of a report step.         *)
(*                                                                         *)
(* The well is there from report step 0 on, as WELSPECS leaves it; status  *)
(* and controls are the subject of WellTimeline.                           *)
(***************************************************************************)
EXTENDS DynamicState, FiniteSets

CONSTANTS
  NSteps,      \* number of report steps: TimeMap::size()
  Cells,       \* cells a vertical well may be connected to, by depth
  Track,       \* connections are kept in track order, else in input order
  ProdIndices, \* values of the WELPI keyword
  MaxDeck,     \* bound: objects allocated while the section is read
  MaxObjects,  \* bound: objects allocated in all
  Null         \* an unset optional; a cell that is not connected

Steps == 0 .. NSteps - 1
Ids == 1 .. MaxObjects

ASSUME NStepsAssumption == NSteps \in Nat \ {0}
ASSUME MaxObjectsAssumption == MaxObjects \in Nat \ {0} /\ MaxDeck \in Nat
ASSUME CellsAssumption == Cells \subseteq Int /\ IsFiniteSet(Cells)
ASSUME TrackAssumption == Track \in BOOLEAN

\* A connection: its place in the order of the input, whether a WELPI holds
\* for it, and how often its CF was scaled since COMPDAT set it.
Connection == [place : 0 .. Cardinality(Cells) - 1, subject : BOOLEAN, scaled : Nat]

\* The contents of a WellConnections object.
ConnectionSets == [Cells -> Connection \cup {Null}]

\* A Well object: its address, its WellConnections object and its index.
Well == [id : Ids, conns : Ids, pi : ProdIndices \cup {Null}]

ASSUME NullAssumption == Null \notin Connection \cup ProdIndices

VARIABLES
  phase,   \* "parse", or at run time the part of a report step: "start", "end"
  step,    \* currentStep of the section, then the report step simulated
  sched    \* wells_static of the well, connection heap, events, allocations

vars == <<phase, step, sched>>

Schedule == [well : [Steps -> Well],
             heap : [Ids -> ConnectionSets],
             events : SUBSET Steps,    \* steps with WELL_PRODUCTIVITY_INDEX
             ids : 1 .. MaxObjects]

-----------------------------------------------------------------------------
Connected(conns) == {c \in Cells : conns[c] # Null}

ConnsAt(S, t) == S.heap[S.well[t].conns]

\* The place of a cell in m_connections after order(): along the track from
\* the well head, or where COMPDAT appended it.
Index(conns, c) ==
  IF Track
  THEN Cardinality({d \in Connected(conns) : d < c})
  ELSE conns[c].place

\* updateWell() with a copy of the well at t that points to conns.  A copy of
\* the Well and a copy of its connections take one step of the counter.
UpdateWell(S, t, w) ==
  [S EXCEPT !.ids = S.ids + 1,
            !.well = UpdateEqual(S.well, t, [w EXCEPT !.id = S.ids + 1])]

\* Variant: a connection specified anew is appended once more.
AlwaysAppend(conns, c) ==
  [conns EXCEPT ![c] = [place |-> Cardinality(Connected(conns)), subject |-> FALSE, scaled |-> 0]]

\* WellConnections::loadCOMPDAT() for one cell: a fresh connection, in the
\* place of the old one or behind the others.
LoadCompdat(conns, c) ==
  [conns EXCEPT ![c] =
     [place |-> IF conns[c] = Null THEN Cardinality(Connected(conns)) ELSE conns[c].place,
      subject |-> FALSE, scaled |-> 0]]

\* WellConnections::prepareWellPIScaling()
PrepareScaling(conns) ==
  [c \in Cells |-> IF conns[c] = Null THEN Null ELSE [conns[c] EXCEPT !.subject = TRUE]]

\* Variant: WELPI marks the connections the copy shares with other steps.
MarkInPlace(S, t, pi) ==
  LET old == S.well[t]
      new == PrepareScaling(S.heap[old.conns])
  IN IF pi = old.pi /\ new = S.heap[old.conns]
     THEN S
     ELSE UpdateWell([S EXCEPT !.heap[old.conns] = new], t, [old EXCEPT !.pi = pi])

\* handleWELPI() up to the event: the index, and all connections marked on a
\* copy of their own.
SetProdIndex(S, t, pi) ==
  LET old == S.well[t]
      new == PrepareScaling(S.heap[old.conns])
  IN IF pi = old.pi /\ new = S.heap[old.conns]
     THEN S
     ELSE UpdateWell([S EXCEPT !.heap[S.ids + 1] = new], t,
                     [id |-> old.id, conns |-> S.ids + 1, pi |-> pi])

-----------------------------------------------------------------------------
(* applyWellProdIndexScaling(name, reportStep): it goes through the        *)
(* distinct Well objects that begin at reportStep or later, in order.      *)

\* The objects the loop comes to, by the step at which they begin.
Visited(S, t) == {u \in UniqueSteps(S.well) : u >= t}

\* Variant: no comparison of connection pointers.
EveryVisited(S, t) == Visited(S, t)

\* Those whose connections differ, as a pointer, from the object before.
Applied(S, t) ==
  {u \in Visited(S, t) :
     \A v \in Visited(S, t) :
        v < u /\ (\A x \in Visited(S, t) : x < u => x <= v) =>
          S.well[v].conns # S.well[u].conns}

\* Well::applyWellProdIndexScaling() does something for the object at u.
Active(S, u) == S.well[u].pi # Null /\ Connected(ConnsAt(S, u)) # {}

\* Variant: an entry of scalingApplicable is not cleared.
AlwaysApplicable(S, t, u, i) == TRUE

\* scalingApplicable[i] when the loop leaves the object at u: false once the
\* connection at index i of some object so far was not subject to WELPI.
Applicable(S, t, u, i) ==
  \A v \in Applied(S, t) :
    v <= u /\ Active(S, v) =>
      \A c \in Connected(ConnsAt(S, v)) : Index(ConnsAt(S, v), c) = i => ConnsAt(S, v)[c].subject

\* Variant: the mark of the connection is not looked at.
ScaleUnmarked(S, t, u, c) ==
  LET conns == ConnsAt(S, u)
  IN Active(S, u) /\ conns[c] # Null

\* Whether the visit of the object at u scales its connection to c.
Scales(S, t, u, c) ==
  LET conns == ConnsAt(S, u)
  IN /\ Active(S, u)
     /\ conns[c] # Null
     /\ conns[c].subject
     /\ Applicable(S, t, u, Index(conns, c))

\* Connections are changed in place: one scaling for each visit.
ApplyScaling(S, t) ==
  LET visits(id, c) == {u \in Applied(S, t) : S.well[u].conns = id /\ Scales(S, t, u, c)}
  IN [S EXCEPT !.heap = [id \in Ids |-> [c \in Cells |->
        IF S.heap[id][c] = Null THEN Null
        ELSE [S.heap[id][c] EXCEPT !.scaled = @ + Cardinality(visits(id, c))]]]]

-----------------------------------------------------------------------------
\* The state after WELSPECS at report step 0.
Init ==
  /\ phase = "parse"
  /\ step = 0
  /\ sched = [well |-> Filled(NSteps, [id |-> 1, conns |-> 1, pi |-> Null]),
              heap |-> [i \in Ids |-> [c \in Cells |-> Null]],
              events |-> {},
              ids |-> 1]

CanAllocate(bound) == sched.ids < bound /\ sched.ids < MaxObjects

Parsing == phase = "parse" /\ CanAllocate(MaxDeck)

\* COMPDAT for the cell c, with a CF that was not used before: a record that
\* repeats the connection as it is changes nothing.
Compdat(c) ==
  /\ Parsing
  /\ sched' = UpdateWell(
       [sched EXCEPT !.heap[sched.ids + 1] = LoadCompdat(ConnsAt(sched, step), c)],
       step, [sched.well[step] EXCEPT !.conns = sched.ids + 1])
  /\ UNCHANGED <<phase, step>>

\* handleWELPI(): from an ACTIONX the event is put on the next report step.
Welpi(pi, eventStep) ==
  /\ sched' = [SetProdIndex(sched, step, pi) EXCEPT !.events = @ \cup {eventStep}]
  /\ UNCHANGED <<phase, step>>

DeckWelpi(pi) == Parsing /\ Welpi(pi, step)

\* Any other keyword: a copy of the Well that shares its connections.
OtherKeyword ==
  /\ sched' = UpdateWell(sched, step, sched.well[step])
  /\ UNCHANGED <<phase, step>>

DeckOther == Parsing /\ OtherKeyword

\* DATES and TSTEP.
EndReportStep ==
  /\ phase = "parse"
  /\ step + 1 \in Steps
  /\ step' = step + 1
  /\ UNCHANGED <<phase, sched>>

EndSection ==
  /\ phase = "parse"
  /\ phase' = "start"
  /\ step' = 0
  /\ UNCHANGED sched

ParseNext ==
  \/ \E c \in Cells : Compdat(c)
  \/ \E pi \in ProdIndices : DeckWelpi(pi)
  \/ DeckOther
  \/ EndReportStep
  \/ EndSection

-----------------------------------------------------------------------------
(* The simulator, which is not part of the repository.  A factor of one    *)
(* changes nothing and is left out.                                        *)

\* The start of a report step: the event is checked, and the factor
\* getWellPIScalingFactor() returns for the well of this step is applied.
\* The last step of the time map is the end of the simulation.
StartReportStep ==
  /\ phase = "start"
  /\ step < NSteps - 1
  /\ sched' = IF step \in sched.events /\ Active(sched, step)
              THEN ApplyScaling(sched, step)
              ELSE sched
  /\ phase' = "end"
  /\ UNCHANGED step

\* The end of a report step: ACTIONX blocks are evaluated.
ActionWelpi(pi) ==
  /\ phase = "end"
  /\ CanAllocate(MaxObjects)
  /\ Welpi(pi, step + 1)

\* open_well() and WELOPEN at run time leave such a copy too.
ActionOther == phase = "end" /\ CanAllocate(MaxObjects) /\ OtherKeyword

NextReportStep ==
  /\ phase = "end"
  /\ phase' = "start"
  /\ step' = step + 1
  /\ UNCHANGED sched

RunNext ==
  \/ StartReportStep
  \/ \E pi \in ProdIndices : ActionWelpi(pi)
  \/ ActionOther
  \/ NextReportStep

Next == ParseNext \/ RunNext

Spec == Init /\ [][Next]_vars

\* The section is read to its end and the simulator goes on to the last step.
Fairness == WF_vars(EndSection) /\ WF_vars(StartReportStep) /\ WF_vars(NextReportStep)
FairSpec == Spec /\ Fairness

-----------------------------------------------------------------------------
TypeOK ==
  /\ phase \in {"parse", "start", "end"}
  /\ step \in Steps
  /\ sched \in Schedule

\* A connection that COMPDAT has specified anew keeps the CF of its record
\* until a WELPI marks it: no scaling asked for earlier or for another object
\* reaches it (Connection::applyWellPIScaling, WellConnections::loadCOMPDAT).
UnmarkedKeepsDeckFactor ==
  \A id \in Ids, c \in Cells :
    sched.heap[id][c] # Null /\ ~sched.heap[id][c].subject => sched.heap[id][c].scaled = 0

\* What the well is at a step: index and connections, no addresses.
ViewAt(S, t) == [pi |-> S.well[t].pi, conns |-> ConnsAt(S, t)]

\* A keyword changes the well from its step on and not before, although the
\* objects it starts from are shared with earlier steps ("Need to ensure we
\* have an independent copy of well's connections", handleWELPI).
KeywordsKeepThePast ==
  [][phase # "start" =>
       \A t \in Steps : t < step => ViewAt(sched', t) = ViewAt(sched, t)]_vars

\* One recalculation multiplies a CF once, however many Well objects share it
\* and whatever objects run time changes have put between them
\* (Well::hasSameConnectionsPointers).
ScaledOncePerStep ==
  [][phase = "start" => \A id \in Ids, c \in Cells :
       sched.heap[id][c] # Null =>
         sched'.heap[id][c].scaled <= sched.heap[id][c].scaled + 1]_vars

\* From t to u no object to be scaled has the connection c unmarked.
MarkedThrough(S, t, u, c) ==
  \A v \in Applied(S, t) :
    v <= u /\ Active(S, v) /\ ConnsAt(S, v)[c] # Null => ConnsAt(S, v)[c].subject

\* Of the objects the recalculation comes to, it scales exactly the
\* connections "whose properties are not reset in COMPDAT" since its step
\* (wellconnections.hh).
ScalingFollowsConnection ==
  [][phase = "start" /\ sched' # sched =>
       \A u \in Visited(sched, step), c \in Cells :
         Active(sched, u) /\ ConnsAt(sched, u)[c] # Null =>
           (ConnsAt(sched', u)[c].scaled > ConnsAt(sched, u)[c].scaled
             <=> MarkedThrough(sched, step, u, c))]_vars

\* A recalculation reaches every connection that was marked at its step and
\* is marked in all objects since: "any WELPI-based scaling will apply to all
\* connections whose properties are not reset in COMPDAT" (wellconnections.hh).
MarkedConnectionsAreScaled ==
  [][phase = "start" /\ sched' # sched =>
       \A u \in Visited(sched, step), c \in Cells :
         (\A v \in Applied(sched, step) \cup {u} :
            v <= u => Active(sched, v) /\ ConnsAt(sched, v)[c] # Null /\ ConnsAt(sched, v)[c].subject)
         => ConnsAt(sched', u)[c].scaled > ConnsAt(sched, u)[c].scaled]_vars

\* The recalculation an event asks for reaches the well of its report step.
ScalingReachesWellOfStep ==
  [][phase = "start" /\ step \in sched.events /\ Active(sched, step) /\ phase' = "end" =>
       \A c \in Cells :
         ConnsAt(sched, step)[c] # Null /\ ConnsAt(sched, step)[c].subject =>
           ConnsAt(sched', step)[c].scaled > ConnsAt(sched, step)[c].scaled]_vars
=============================================================================
