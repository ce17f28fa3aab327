------------------------------ MODULE GroupTree ------------------------------
(***************************************************************************)
(* The group tree of a Schedule while the SCHEDULE section is read: the    *)
(* containers Schedule::groups (one Group per name and report step) and    *)
(* Schedule::wells_static, of a Well only the name of its group.           *)
(*                                                                         *)
(* The tree is stored twice: a Group names its parent and lists its child  *)
(* groups and wells, a Well names its group.  WELSPECS, GRUPTREE and       *)
(* GRUPNET change both sides, each with several updates of the containers. *)
(* A Group may throw in the middle of them; the exception ends the         *)
(* construction of the Schedule.                                           *)
(*                                                                         *)
(* The objects are values here, not addresses: the steps from the current  *)
(* one on are uniform while the section is read, so an update() with an    *)
(* equal value and one with a fresh copy leave the same timeline.          *)
(* GRUPTREE of a group under itself is left out: addGroupToGroup() then    *)
(* reads a reference to the Group it has just replaced.                    *)
(***************************************************************************)
EXTENDS DynamicState

CONSTANTS
  NSteps,      \* number of report steps: TimeMap::size()
  Field,       \* the group "FIELD"
  GroupNames,  \* the other group names of the deck
  WellNames,   \* the well names of the deck
  Null         \* the empty pointer, and the empty name

Steps == 0 .. NSteps - 1
Groups == GroupNames \cup {Field}

Group == [parent : Groups \cup {Null}, groups : SUBSET Groups,
          wells : SUBSET WellNames]

ASSUME NStepsAssumption == NSteps \in Nat \ {0}
ASSUME NamesAssumption == Field \notin GroupNames /\ Null \notin Groups
ASSUME NullAssumption == Null \notin Group

VARIABLES
  step,   \* currentStep of the section
  sched,  \* the Schedule: groups, the groups of the wells, events; ok is
          \* false when an exception has ended the construction
  clean   \* history: whether Eclipse accepts the deck read so far

vars == <<step, sched, clean>>

Event == {"NEW_GROUP", "GROUP_CHANGE"}

Schedule == [groups : [Groups -> [Steps -> Group \cup {Null}]],
             wells : [WellNames -> [Steps -> Groups \cup {Null}]],
             events : [Steps -> SUBSET Event],
             ok : BOOLEAN]

-----------------------------------------------------------------------------
\* hasGroup() and hasWell() with one argument: the name was used at any step.
HasGroup(S, g) == \E t \in Steps : S.groups[g][t] # Null
HasWell(S, w) == \E t \in Steps : S.wells[w][t] # Null

\* The groups and wells that exist at step t.
GroupsAt(S, t) == {g \in Groups : S.groups[g][t] # Null}
WellsAt(S, t) == {w \in WellNames : S.wells[w][t] # Null}

AddEvent(S, t, e) == [S EXCEPT !.events[t] = @ \cup {e}]
Throw(S) == [S EXCEPT !.ok = FALSE]

\* updateGroup(), and updateWell() for a well that names another group.
UpdateGroup(S, t, g, node) == [S EXCEPT !.groups[g] = Update(@, t, node)]
UpdateWell(S, t, w, g) == [S EXCEPT !.wells[w] = Update(@, t, g)]

\* Group::addGroup() on a copy, and updateGroup() if that is a change.
AddChild(S, parent, child, t) ==
  IF S.groups[parent][t].wells # {}
  THEN Throw(S)
  ELSE UpdateGroup(S, t, parent, [S.groups[parent][t] EXCEPT !.groups = @ \cup {child}])

\* Group::delGroup() on a copy of the parent the child names, and updateGroup().
DelChild(S, parent, child, t) ==
  IF parent = Null \/ child \notin S.groups[parent][t].groups
  THEN Throw(S)
  ELSE UpdateGroup(S, t, parent, [S.groups[parent][t] EXCEPT !.groups = @ \ {child}])

\* Group::updateParent() on a copy, and updateGroup().
SetParent(S, child, parent, t) ==
  UpdateGroup(S, t, child, [S.groups[child][t] EXCEPT !.parent = parent])

\* Variant: the child stays in the list of its old parent.
LeftInOldParent(S, parent, child, t) ==
  LET added == AddChild(S, parent, child, t)
  IN IF added.ok THEN SetParent(added, child, parent, t) ELSE added

\* addGroupToGroup(): the new parent, the old parent, the child.
AddGroupToGroup(S, parent, child, t) ==
  LET old == S.groups[child][t].parent
      added == AddChild(S, parent, child, t)
      removed == DelChild(added, old, child, t)
  IN IF ~added.ok \/ old = parent THEN added
     ELSE IF ~removed.ok THEN removed
     ELSE SetParent(removed, child, parent, t)

\* Variant: the new group is not put under FIELD.
NotUnderField(S, g, t) ==
  AddEvent(UpdateGroup(S, t, g, [parent |-> Field, groups |-> {}, wells |-> {}]),
           t, "NEW_GROUP")

\* addGroup() for a group other than FIELD.
AddGroup(S, g, t) ==
  LET node == [parent |-> Field, groups |-> {}, wells |-> {}]
  IN AddGroupToGroup(AddEvent(UpdateGroup(S, t, g, node), t, "NEW_GROUP"), Field, g, t)

\* "if (!hasGroup(name)) addGroup(name, step)"; after a throw nothing runs.
EnsureGroup(S, g, t) == IF S.ok /\ ~HasGroup(S, g) THEN AddGroup(S, g, t) ELSE S

\* Group::delWell() on a copy, and updateGroup().
DelWell(S, g, w, t) ==
  IF w \notin S.groups[g][t].wells
  THEN Throw(S)
  ELSE UpdateGroup(S, t, g, [S.groups[g][t] EXCEPT !.wells = @ \ {w}])

\* Variant: the event is added when the list of the new group changes only.
MoveWithoutEvent(S, g, w, t) ==
  LET moved == IF S.wells[w][t] = g THEN S
               ELSE DelWell(UpdateWell(S, t, w, g), S.wells[w][t], w, t)
  IN UpdateGroup(moved, t, g, [moved.groups[g][t] EXCEPT !.wells = @ \cup {w}])

\* addWellToGroup(): the well, the old group, the new group, the event.
AddWellToGroup(S, g, w, t) ==
  LET moved == IF S.wells[w][t] = g THEN S
               ELSE DelWell(UpdateWell(S, t, w, g), S.wells[w][t], w, t)
  IN IF ~moved.ok THEN moved
     ELSE AddEvent(UpdateGroup(moved, t, g,
                     [moved.groups[g][t] EXCEPT !.wells = @ \cup {w}]),
                   t, "GROUP_CHANGE")

\* addWell(): the new well names its group, which does not list it yet.
AddWell(S, w, g, t) == IF HasWell(S, w) THEN S ELSE UpdateWell(S, t, w, g)

-----------------------------------------------------------------------------
\* The groups below g at step t: what groupTree() visits from g.
Below(S, g, t) ==
  {h \in Groups : \A X \in SUBSET Groups :
     (g \in X /\ \A p \in X \cap GroupsAt(S, t) : S.groups[p][t].groups \subseteq X)
     => h \in X}

\* getChildWells2(): the wells of the groups below g that have no child group.
ChildWells(S, g, t) ==
  UNION {S.groups[h][t].wells :
           h \in {k \in Below(S, g, t) \cap GroupsAt(S, t) : S.groups[k][t].groups = {}}}

-----------------------------------------------------------------------------
Init ==
  /\ step = 0
  /\ clean = TRUE
  /\ sched = [groups |-> [g \in Groups |->
                Filled(NSteps, IF g = Field
                               THEN [parent |-> Null, groups |-> {}, wells |-> {}]
                               ELSE Null)],
              wells |-> [w \in WellNames |-> Filled(NSteps, Null)],
              events |-> [t \in Steps |-> IF t = 0 THEN {"NEW_GROUP"} ELSE {}],
              ok |-> TRUE]

\* A WELSPECS record.
Welspecs(w, g) ==
  /\ sched.ok
  /\ LET known == EnsureGroup(sched, g, step)
     IN sched' = IF known.ok
                 THEN AddWellToGroup(AddWell(known, w, g, step), g, w, step)
                 ELSE known
  /\ UNCHANGED step

\* A GRUPTREE record.
Gruptree(child, parent) ==
  /\ sched.ok
  /\ child # parent
  /\ LET known == EnsureGroup(EnsureGroup(sched, child, step), parent, step)
     IN sched' = IF known.ok THEN AddGroupToGroup(known, parent, child, step) ELSE known
  /\ UNCHANGED step

\* A GRUPNET record: the table it names is data, the group may be new.
Grupnet(g) ==
  /\ sched.ok
  /\ sched' = EnsureGroup(sched, g, step)
  /\ UNCHANGED step

\* DATES and TSTEP.
EndReportStep(next) ==
  /\ sched.ok
  /\ next > step
  /\ step' = next
  /\ UNCHANGED sched

-----------------------------------------------------------------------------
(* The decks Eclipse accepts: a node has wells or groups, and no group is  *)
(* put below itself.  The code does not check the second rule, and the     *)
(* first one only in one order.  A group that is new counts as one of the  *)
(* children FIELD gets.                                                    *)

NodeFor(g) ==
  IF HasGroup(sched, g) THEN sched.groups[g][step]
  ELSE [parent |-> Field, groups |-> {}, wells |-> {}]

\* The names all exist, or FIELD can take the new ones.
RoomInField(names) ==
  (\A g \in names : HasGroup(sched, g)) \/ sched.groups[Field][step].wells = {}

CleanWelspecs(g) == RoomInField({g}) /\ NodeFor(g).groups = {}

CleanGruptree(child, parent) ==
  /\ child # Field
  /\ RoomInField({child, parent})
  /\ NodeFor(parent).wells = {}
  /\ parent \notin Below(sched, child, step)

Next ==
  \/ \E w \in WellNames, g \in Groups :
       Welspecs(w, g) /\ clean' = (clean /\ CleanWelspecs(g))
  \/ \E child, parent \in Groups :
       Gruptree(child, parent) /\ clean' = (clean /\ CleanGruptree(child, parent))
  \/ \E g \in Groups :
       Grupnet(g) /\ clean' = (clean /\ RoomInField({g}))
  \/ \E next \in Steps : EndReportStep(next) /\ UNCHANGED clean

Spec == Init /\ [][Next]_vars

-----------------------------------------------------------------------------
TypeOK ==
  /\ step \in Steps
  /\ sched \in Schedule
  /\ clean \in BOOLEAN

\* The two sides of the tree agree at every step: a group lists exactly the
\* groups that name it as their parent and the wells that name it as their
\* group, and every name in a list exists (addGroupToGroup, addWellToGroup).
LinksConsistent ==
  sched.ok => \A t \in Steps : \A g \in GroupsAt(sched, t) :
    /\ sched.groups[g][t].groups =
         {h \in GroupsAt(sched, t) : sched.groups[h][t].parent = g}
    /\ sched.groups[g][t].wells =
         {w \in WellsAt(sched, t) : sched.wells[w][t] = g}

\* A well that is in another group than one step before is announced by a
\* GROUP_CHANGE event at that step (addWellToGroup).
WellMovesAreAnnounced ==
  sched.ok => \A t \in Steps \ {0}, w \in WellNames :
    /\ sched.wells[w][t] # sched.wells[w][t - 1]
    => "GROUP_CHANGE" \in sched.events[t]

\* While the deck is clean no Group throws, every group hangs below FIELD at
\* every step, so that groupTree() and the walks up the parents of the restart
\* output visit each group once and end, and the field totals of the summary
\* miss no well (Schedule::groupTree, getChildWells2, currentGroupLevel).
FieldCollectsEverything ==
  clean =>
    /\ sched.ok
    /\ \A t \in Steps :
         /\ GroupsAt(sched, t) = Below(sched, Field, t)
         /\ ChildWells(sched, Field, t) = WellsAt(sched, t)

\* "Groups can not mix group and well children" (group.cc); "The children must
\* be either all wells - or all groups" (grouptests.cc).
NoMixedChildren ==
  sched.ok => \A t \in Steps : \A g \in GroupsAt(sched, t) :
    sched.groups[g][t].groups = {} \/ sched.groups[g][t].wells = {}
=============================================================================
