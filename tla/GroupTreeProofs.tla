-------------------------- MODULE GroupTreeProofs --------------------------
(***************************************************************************)
(* Proofs about GroupTree, for any number of report steps and any names.   *)
(*                                                                         *)
(* A keyword changes the containers through several updates, and the two   *)
(* sides of the tree disagree in between.  The lemmas of the helpers say   *)
(* what each leaves at the current step, and that the past stays and the   *)
(* future follows; the lemmas of the keywords put the sides together.      *)
(***************************************************************************)
EXTENDS GroupTree, TLAPS

\* The steps from t on are one piece.
Uniform(S, t) ==
  \A u \in Steps : u >= t =>
    /\ \A g \in Groups : S.groups[g][u] = S.groups[g][t]
    /\ \A w \in WellNames : S.wells[w][u] = S.wells[w][t]

\* What exists goes on to exist.
Lasting(S) ==
  \A t, u \in Steps : t <= u =>
    /\ GroupsAt(S, t) \subseteq GroupsAt(S, u)
    /\ WellsAt(S, t) \subseteq WellsAt(S, u)

\* The two sides of the tree at step t, whose names all exist there.
Links(S, t) ==
  /\ Field \in GroupsAt(S, t)
  /\ \A g \in GroupsAt(S, t) :
       /\ S.groups[g][t].groups = {h \in GroupsAt(S, t) : S.groups[h][t].parent = g}
       /\ S.groups[g][t].wells = {w \in WellsAt(S, t) : S.wells[w][t] = g}
       /\ S.groups[g][t].parent \in GroupsAt(S, t) \cup {Null}
  /\ \A w \in WellsAt(S, t) : S.wells[w][t] \in GroupsAt(S, t)

Announced(S, t) ==
  t # 0 => \A w \in WellNames :
    S.wells[w][t] # S.wells[w][t - 1] => "GROUP_CHANGE" \in S.events[t]

Good(S, t) ==
  /\ S \in Schedule
  /\ Uniform(S, t)
  /\ Lasting(S)
  /\ \A u \in Steps : Links(S, u) /\ Announced(S, u)

\* What a helper called at step t may do: the past stays, nothing vanishes.
Extends(S, S2, t) ==
  /\ S2 \in Schedule
  /\ Uniform(S2, t)
  /\ \A u \in Steps : u < t =>
       /\ \A g \in Groups : S2.groups[g][u] = S.groups[g][u]
       /\ \A w \in WellNames : S2.wells[w][u] = S.wells[w][u]
  /\ \A u \in Steps : S.events[u] \subseteq S2.events[u]
  /\ GroupsAt(S, t) \subseteq GroupsAt(S2, t)
  /\ WellsAt(S, t) \subseteq WellsAt(S2, t)

Open(S, t) == S \in Schedule /\ Uniform(S, t)

-----------------------------------------------------------------------------
LEMMA Itself ==
  ASSUME NEW S, NEW t \in Steps, Open(S, t)
  PROVE  Extends(S, S, t)
BY DEF Extends, Open

LEMMA Transitive ==
  ASSUME NEW S, NEW S2, NEW S3, NEW t \in Steps, Extends(S, S2, t), Extends(S2, S3, t)
  PROVE  Extends(S, S3, t)
<1>1. \A u \in Steps : S.events[u] \subseteq S3.events[u]
  BY DEF Extends
<1>2. GroupsAt(S, t) \subseteq GroupsAt(S3, t) /\ WellsAt(S, t) \subseteq WellsAt(S3, t)
  BY DEF Extends
<1> QED BY <1>1, <1>2 DEF Extends

LEMMA ExtendsOpen ==
  ASSUME NEW S, NEW S2, NEW t, Extends(S, S2, t)
  PROVE  Open(S2, t)
BY DEF Extends, Open

\* A Group in the place of another one, or of none.
LEMMA UpdateGroupFacts ==
  ASSUME NEW S, NEW t \in Steps, Open(S, t), NEW g \in Groups, NEW node \in Group
  PROVE  LET S2 == UpdateGroup(S, t, g, node)
         IN /\ Extends(S, S2, t)
            /\ S2.groups[g][t] = node
            /\ \A h \in Groups \ {g} : S2.groups[h] = S.groups[h]
            /\ S2.wells = S.wells /\ S2.events = S.events /\ S2.ok = S.ok
<1> DEFINE new == Update(S.groups[g], t, node)
           S2 == UpdateGroup(S, t, g, node)
<1>1. /\ S \in Schedule /\ S.groups \in [Groups -> [Steps -> Group \cup {Null}]]
      /\ t \in Int /\ Steps \subseteq Int
  BY DEF Open, Schedule, Steps
<1>2. /\ new \in [Steps -> Group \cup {Null}]
      /\ \A u \in Steps : new[u] = IF u >= t THEN node ELSE S.groups[g][u]
  <2>1. \A u \in Steps : u >= t => S.groups[g][u] = S.groups[g][t]
    BY DEF Open, Uniform
  <2>2. S.groups[g] \in [Steps -> Group \cup {Null}] /\ node \in Group \cup {Null}
    BY <1>1
  <2> QED BY <2>1, <2>2 DEF Update
<1>3. /\ S2 = [S EXCEPT !.groups[g] = new]
      /\ S2.groups = [S.groups EXCEPT ![g] = new]
      /\ S2.wells = S.wells /\ S2.events = S.events /\ S2.ok = S.ok
  BY <1>1 DEF UpdateGroup, Schedule
<1>4. /\ S2.groups[g] = new
      /\ \A h \in Groups \ {g} : S2.groups[h] = S.groups[h]
  BY <1>1, <1>3
<1>5. S2 \in Schedule
  BY <1>1, <1>2, <1>3 DEF Schedule
<1>6. Uniform(S2, t)
  <2> SUFFICES ASSUME NEW u \in Steps, u >= t
               PROVE  /\ \A h \in Groups : S2.groups[h][u] = S2.groups[h][t]
                      /\ \A w \in WellNames : S2.wells[w][u] = S2.wells[w][t]
    BY DEF Uniform
  <2>1. new[u] = new[t]
    BY <1>1, <1>2
  <2> QED BY <2>1, <1>3, <1>4 DEF Open, Uniform
<1>7. node # Null
  BY NullAssumption
<1>8. GroupsAt(S, t) \subseteq GroupsAt(S2, t)
  BY <1>1, <1>2, <1>4, <1>7 DEF GroupsAt
<1>9. \A u \in Steps : u < t => \A h \in Groups : S2.groups[h][u] = S.groups[h][u]
  BY <1>1, <1>2, <1>4
<1>10. WellsAt(S, t) \subseteq WellsAt(S2, t) /\ \A u \in Steps : S.events[u] \subseteq S2.events[u]
  BY <1>3 DEF WellsAt
<1>11. S2.groups[g][t] = node
  BY <1>1, <1>2, <1>4
<1> HIDE DEF S2
<1>12. Extends(S, S2, t)
  BY <1>3, <1>5, <1>6, <1>8, <1>9, <1>10 DEF Extends
<1> QED BY <1>3, <1>4, <1>11, <1>12 DEF S2

\* A Well that names another group, or a new one.
LEMMA UpdateWellFacts ==
  ASSUME NEW S, NEW t \in Steps, Open(S, t), NEW w \in WellNames, NEW g \in Groups
  PROVE  LET S2 == UpdateWell(S, t, w, g)
         IN /\ Extends(S, S2, t)
            /\ S2.wells[w][t] = g
            /\ \A v \in WellNames \ {w} : S2.wells[v] = S.wells[v]
            /\ S2.groups = S.groups /\ S2.events = S.events /\ S2.ok = S.ok
<1> DEFINE new == Update(S.wells[w], t, g)
           S2 == UpdateWell(S, t, w, g)
<1>1. /\ S \in Schedule /\ S.wells \in [WellNames -> [Steps -> Groups \cup {Null}]]
      /\ t \in Int /\ Steps \subseteq Int
  BY DEF Open, Schedule, Steps
<1>2. /\ new \in [Steps -> Groups \cup {Null}]
      /\ \A u \in Steps : new[u] = IF u >= t THEN g ELSE S.wells[w][u]
  <2>1. \A u \in Steps : u >= t => S.wells[w][u] = S.wells[w][t]
    BY DEF Open, Uniform
  <2>2. S.wells[w] \in [Steps -> Groups \cup {Null}] /\ g \in Groups \cup {Null}
    BY <1>1
  <2> QED BY <2>1, <2>2 DEF Update
<1>3. /\ S2 = [S EXCEPT !.wells[w] = new]
      /\ S2.wells = [S.wells EXCEPT ![w] = new]
      /\ S2.groups = S.groups /\ S2.events = S.events /\ S2.ok = S.ok
  BY <1>1 DEF UpdateWell, Schedule
<1>4. /\ S2.wells[w] = new
      /\ \A v \in WellNames \ {w} : S2.wells[v] = S.wells[v]
  BY <1>1, <1>3
<1>5. S2 \in Schedule
  BY <1>1, <1>2, <1>3 DEF Schedule
<1>6. Uniform(S2, t)
  <2> SUFFICES ASSUME NEW u \in Steps, u >= t
               PROVE  /\ \A h \in Groups : S2.groups[h][u] = S2.groups[h][t]
                      /\ \A v \in WellNames : S2.wells[v][u] = S2.wells[v][t]
    BY DEF Uniform
  <2>1. new[u] = new[t]
    BY <1>1, <1>2
  <2> QED BY <2>1, <1>3, <1>4 DEF Open, Uniform
<1>7. g # Null
  BY NamesAssumption
<1>8. WellsAt(S, t) \subseteq WellsAt(S2, t)
  BY <1>1, <1>2, <1>4, <1>7 DEF WellsAt
<1>9. \A u \in Steps : u < t => \A v \in WellNames : S2.wells[v][u] = S.wells[v][u]
  BY <1>1, <1>2, <1>4
<1>10. GroupsAt(S, t) \subseteq GroupsAt(S2, t) /\ \A u \in Steps : S.events[u] \subseteq S2.events[u]
  BY <1>3 DEF GroupsAt
<1>11. S2.wells[w][t] = g
  BY <1>1, <1>2, <1>4
<1> HIDE DEF S2
<1>12. Extends(S, S2, t)
  BY <1>3, <1>5, <1>6, <1>8, <1>9, <1>10 DEF Extends
<1> QED BY <1>3, <1>4, <1>11, <1>12 DEF S2

LEMMA AddEventFacts ==
  ASSUME NEW S, NEW t \in Steps, Open(S, t), NEW e \in Event
  PROVE  LET S2 == AddEvent(S, t, e)
         IN /\ Extends(S, S2, t)
            /\ e \in S2.events[t]
            /\ S2.groups = S.groups /\ S2.wells = S.wells /\ S2.ok = S.ok
<1> DEFINE S2 == AddEvent(S, t, e)
<1>1. S \in Schedule /\ S.events \in [Steps -> SUBSET Event]
  BY DEF Open, Schedule
<1>2. /\ S2.events = [S.events EXCEPT ![t] = @ \cup {e}]
      /\ S2.groups = S.groups /\ S2.wells = S.wells /\ S2.ok = S.ok
      /\ S2 \in Schedule
  BY <1>1 DEF AddEvent, Schedule
<1>3. e \in S2.events[t] /\ \A u \in Steps : S.events[u] \subseteq S2.events[u]
  BY <1>1, <1>2
<1> HIDE DEF S2
<1>4. Extends(S, S2, t)
  BY <1>2, <1>3 DEF Extends, Open, Uniform, GroupsAt, WellsAt
<1> QED BY <1>2, <1>3, <1>4 DEF S2

LEMMA ThrowFacts ==
  ASSUME NEW S, NEW t \in Steps, Open(S, t)
  PROVE  /\ Extends(S, Throw(S), t)
         /\ Throw(S).ok = FALSE
         /\ Throw(S).groups = S.groups /\ Throw(S).wells = S.wells
<1> DEFINE S2 == Throw(S)
<1>1. /\ S2.events = S.events /\ S2.groups = S.groups /\ S2.wells = S.wells
      /\ S2.ok = FALSE /\ S2 \in Schedule
  BY DEF Throw, Schedule, Open
<1> HIDE DEF S2
<1>2. Extends(S, S2, t)
  BY <1>1 DEF Extends, Open, Uniform, GroupsAt, WellsAt
<1> QED BY <1>1, <1>2 DEF S2

-----------------------------------------------------------------------------
(* The helpers of the handlers.                                            *)

\* A Group with another parent or other children.
WithParent(node, parent) == [node EXCEPT !.parent = parent]
WithGroups(node, groups) == [node EXCEPT !.groups = groups]
WithWells(node, wells) == [node EXCEPT !.wells = wells]

LEMMA WithParentFacts ==
  ASSUME NEW node \in Group, NEW p \in Groups
  PROVE  /\ WithParent(node, p) \in Group
         /\ WithParent(node, p).parent = p
         /\ WithParent(node, p).groups = node.groups
         /\ WithParent(node, p).wells = node.wells
BY DEF WithParent, Group

LEMMA WithGroupsFacts ==
  ASSUME NEW node \in Group, NEW groups \in SUBSET Groups
  PROVE  /\ WithGroups(node, groups) \in Group
         /\ WithGroups(node, groups).parent = node.parent
         /\ WithGroups(node, groups).groups = groups
         /\ WithGroups(node, groups).wells = node.wells
BY DEF WithGroups, Group

LEMMA WithWellsFacts ==
  ASSUME NEW node \in Group, NEW wells \in SUBSET WellNames
  PROVE  /\ WithWells(node, wells) \in Group
         /\ WithWells(node, wells).parent = node.parent
         /\ WithWells(node, wells).groups = node.groups
         /\ WithWells(node, wells).wells = wells
BY DEF WithWells, Group

LEMMA NodeType ==
  ASSUME NEW S, NEW t \in Steps, Open(S, t), NEW g \in GroupsAt(S, t)
  PROVE  /\ g \in Groups /\ S.groups[g][t] \in Group
         /\ S.groups[g][t].groups \in SUBSET Groups
         /\ S.groups[g][t].wells \in SUBSET WellNames
<1>1. S.groups \in [Groups -> [Steps -> Group \cup {Null}]]
  BY DEF Open, Schedule
<1>2. g \in Groups /\ S.groups[g][t] \in Group
  BY <1>1 DEF GroupsAt
<1> QED BY <1>2 DEF Group

\* R is S but for the Group of g at t, which is node.
Only(S, R, t, g, node) ==
  /\ Extends(S, R, t)
  /\ R.groups[g][t] = node
  /\ \A h \in Groups \ {g} : R.groups[h] = S.groups[h]
  /\ R.wells = S.wells /\ R.events = S.events

LEMMA OnlyGroupsAt ==
  ASSUME NEW S, NEW R, NEW t \in Steps, NEW g \in GroupsAt(S, t), NEW node \in Group,
         Only(S, R, t, g, node)
  PROVE  GroupsAt(R, t) = GroupsAt(S, t)
BY NullAssumption DEF Only, GroupsAt

LEMMA AddChildFacts ==
  ASSUME NEW S, NEW t \in Steps, Open(S, t), NEW p \in GroupsAt(S, t), NEW c \in Groups
  PROVE  LET R == AddChild(S, p, c, t)
             node == WithGroups(S.groups[p][t], S.groups[p][t].groups \cup {c})
         IN /\ Extends(S, R, t) /\ R.wells = S.wells
            /\ node \in Group
            /\ R.ok => Only(S, R, t, p, node)
<1> DEFINE node == WithGroups(S.groups[p][t], S.groups[p][t].groups \cup {c})
           R == UpdateGroup(S, t, p, node)
<1>1. node \in Group /\ p \in Groups
  <2>1. S.groups[p][t].groups \cup {c} \in SUBSET Groups
    BY NodeType
  <2> QED BY <2>1, NodeType, WithGroupsFacts
<1>2. AddChild(S, p, c, t) = IF S.groups[p][t].wells # {} THEN Throw(S) ELSE R
  BY DEF AddChild, WithGroups
<1> HIDE DEF node
<1>3. Only(S, R, t, p, node) /\ Extends(S, R, t) /\ R.wells = S.wells
  BY <1>1, UpdateGroupFacts DEF Only
<1>4. Extends(S, Throw(S), t) /\ ~Throw(S).ok /\ Throw(S).wells = S.wells
  BY ThrowFacts
<1> QED BY <1>1, <1>2, <1>3, <1>4 DEF node

LEMMA DelChildFacts ==
  ASSUME NEW S, NEW t \in Steps, Open(S, t), NEW p \in GroupsAt(S, t) \cup {Null}, NEW c
  PROVE  LET R == DelChild(S, p, c, t)
             node == WithGroups(S.groups[p][t], S.groups[p][t].groups \ {c})
         IN /\ Extends(S, R, t) /\ R.wells = S.wells
            /\ R.ok => p # Null /\ node \in Group /\ Only(S, R, t, p, node)
<1> DEFINE node == WithGroups(S.groups[p][t], S.groups[p][t].groups \ {c})
           R == UpdateGroup(S, t, p, node)
<1>1. Extends(S, Throw(S), t) /\ ~Throw(S).ok /\ Throw(S).wells = S.wells
  BY ThrowFacts
<1>2. DelChild(S, p, c, t) = IF p = Null \/ c \notin S.groups[p][t].groups THEN Throw(S) ELSE R
  BY DEF DelChild, WithGroups
<1>3. CASE p = Null
  BY <1>1, <1>2, <1>3
<1>4. CASE p \in GroupsAt(S, t)
  <2>1. node \in Group /\ p \in Groups /\ p # Null
    <3>1. S.groups[p][t].groups \ {c} \in SUBSET Groups
      BY <1>4, NodeType
    <3> QED BY <1>4, <3>1, NodeType, WithGroupsFacts, NamesAssumption
  <2> HIDE DEF node
  <2>2. Only(S, R, t, p, node) /\ Extends(S, R, t) /\ R.wells = S.wells
    BY <2>1, UpdateGroupFacts DEF Only
  <2> QED BY <1>1, <1>2, <2>1, <2>2 DEF node
<1> QED BY <1>3, <1>4

LEMMA SetParentFacts ==
  ASSUME NEW S, NEW t \in Steps, Open(S, t), NEW c \in GroupsAt(S, t), NEW p \in Groups
  PROVE  LET R == SetParent(S, c, p, t)
             node == WithParent(S.groups[c][t], p)
         IN node \in Group /\ Only(S, R, t, c, node)
<1> DEFINE node == WithParent(S.groups[c][t], p)
<1>1. node \in Group /\ c \in Groups
  BY NodeType, WithParentFacts
<1>2. SetParent(S, c, p, t) = UpdateGroup(S, t, c, node)
  BY DEF SetParent, WithParent
<1> HIDE DEF node
<1>3. Only(S, UpdateGroup(S, t, c, node), t, c, node)
  BY <1>1, UpdateGroupFacts DEF Only
<1> QED BY <1>1, <1>2, <1>3 DEF node

\* What is left of the Group h at t when the child c has got the parent p.
Moved(S, R, t, p, c, h) ==
  LET old == S.groups[c][t].parent
  IN /\ R.groups[h][t].parent = (IF h = c THEN p ELSE S.groups[h][t].parent)
     /\ R.groups[h][t].groups =
          (IF h = p THEN S.groups[h][t].groups \cup {c}
           ELSE IF h = old THEN S.groups[h][t].groups \ {c}
           ELSE S.groups[h][t].groups)
     /\ R.groups[h][t].wells = S.groups[h][t].wells

LEMMA AddGroupToGroupFacts ==
  ASSUME NEW S, NEW t \in Steps, Open(S, t),
         NEW p \in GroupsAt(S, t), NEW c \in GroupsAt(S, t),
         S.groups[c][t].parent \in GroupsAt(S, t) \cup {Null}
  PROVE  LET R == AddGroupToGroup(S, p, c, t)
         IN /\ Extends(S, R, t) /\ R.wells = S.wells
            /\ R.ok => /\ GroupsAt(R, t) = GroupsAt(S, t)
                       /\ \A h \in GroupsAt(S, t) : Moved(S, R, t, p, c, h)
<1> DEFINE old == S.groups[c][t].parent
           added == AddChild(S, p, c, t)
           removed == DelChild(added, old, c, t)
           set == SetParent(removed, c, p, t)
           pNode == WithGroups(S.groups[p][t], S.groups[p][t].groups \cup {c})
<1>1. /\ p \in Groups /\ c \in Groups
      /\ Extends(S, added, t) /\ added.wells = S.wells /\ pNode \in Group
      /\ added.ok => Only(S, added, t, p, pNode)
  BY NodeType, AddChildFacts
<1>5. /\ pNode.parent = S.groups[p][t].parent /\ pNode.wells = S.groups[p][t].wells
      /\ pNode.groups = S.groups[p][t].groups \cup {c}
  <2>1. S.groups[p][t].groups \cup {c} \in SUBSET Groups
    BY <1>1, NodeType
  <2> QED BY <2>1, NodeType, WithGroupsFacts
<1> HIDE DEF added, pNode
<1>2. CASE ~added.ok
  BY <1>1, <1>2 DEF AddGroupToGroup, added
<1>3. CASE added.ok /\ old = p
  <2>1. GroupsAt(added, t) = GroupsAt(S, t)
    BY <1>1, <1>3, OnlyGroupsAt
  <2>2. ASSUME NEW h \in GroupsAt(S, t) PROVE Moved(S, added, t, p, c, h)
    <3>1. CASE h = p
      BY <1>1, <1>3, <3>1, <1>5, NodeType DEF Moved, Only
    <3>2. CASE h # p
      BY <1>1, <1>3, <3>2, NodeType DEF Moved, Only
    <3> QED BY <3>1, <3>2
  <2> QED BY <1>1, <1>3, <2>1, <2>2 DEF AddGroupToGroup, added
<1>4. CASE added.ok /\ old # p
  <2> DEFINE oNode == WithGroups(added.groups[old][t], added.groups[old][t].groups \ {c})
  <2>1. Open(added, t) /\ GroupsAt(added, t) = GroupsAt(S, t)
    BY <1>1, <1>4, OnlyGroupsAt, ExtendsOpen
  <2>2. /\ Extends(added, removed, t) /\ removed.wells = added.wells
        /\ removed.ok => old # Null /\ oNode \in Group /\ Only(added, removed, t, old, oNode)
    BY <2>1, DelChildFacts
  <2>3. Extends(S, removed, t) /\ removed.wells = S.wells
    BY <1>1, <2>2, Transitive
  <2> HIDE DEF removed, oNode
  <2>4. CASE ~removed.ok
    BY <1>4, <2>3, <2>4 DEF AddGroupToGroup, added, removed
  <2>5. CASE removed.ok
    <3> DEFINE cNode == WithParent(removed.groups[c][t], p)
    <3>1. /\ old \in GroupsAt(added, t) /\ oNode \in Group
          /\ Only(added, removed, t, old, oNode)
      BY <2>1, <2>2, <2>5
    <3>2. Open(removed, t) /\ GroupsAt(removed, t) = GroupsAt(S, t)
      BY <2>1, <2>3, <3>1, OnlyGroupsAt, ExtendsOpen
    <3>3. cNode \in Group /\ Only(removed, set, t, c, cNode)
      BY <1>1, <3>2, SetParentFacts
    <3>4. Extends(S, set, t) /\ set.wells = S.wells /\ GroupsAt(set, t) = GroupsAt(S, t)
      BY <2>3, <3>2, <3>3, Transitive, OnlyGroupsAt DEF Only
    <3> HIDE DEF set, cNode
    <3>5. ASSUME NEW h \in GroupsAt(S, t) PROVE Moved(S, set, t, p, c, h)
      <4>1. /\ added.groups[h][t] \in Group /\ added.groups[h][t].parent = S.groups[h][t].parent
            /\ added.groups[h][t].wells = S.groups[h][t].wells
            /\ added.groups[h][t].groups = (IF h = p THEN S.groups[h][t].groups \cup {c}
                                            ELSE S.groups[h][t].groups)
        <5>1. CASE h = p
          BY <1>1, <1>4, <1>5, <5>1, NodeType DEF Only
        <5>2. CASE h # p
          BY <1>1, <1>4, <5>2, NodeType DEF Only
        <5> QED BY <5>1, <5>2
      <4>2. /\ removed.groups[h][t] \in Group
            /\ removed.groups[h][t].parent = added.groups[h][t].parent
            /\ removed.groups[h][t].wells = added.groups[h][t].wells
            /\ removed.groups[h][t].groups = (IF h = old THEN added.groups[h][t].groups \ {c}
                                              ELSE added.groups[h][t].groups)
        <5>1. CASE h = old
          <6>1. added.groups[old][t].groups \ {c} \in SUBSET Groups
            BY <2>1, <3>1, NodeType
          <6>2. removed.groups[h][t] = oNode
            BY <3>1, <5>1 DEF Only
          <6>3. added.groups[old][t] \in Group
            BY <4>1, <5>1
          <6>4. /\ oNode.parent = added.groups[old][t].parent
                /\ oNode.wells = added.groups[old][t].wells
                /\ oNode.groups = added.groups[old][t].groups \ {c}
            BY <6>1, <6>3, WithGroupsFacts DEF oNode
          <6> QED BY <3>1, <5>1, <6>2, <6>4
        <5>2. CASE h # old
          BY <3>1, <4>1, <5>2, NodeType DEF Only
        <5> QED BY <5>1, <5>2
      <4>3. /\ set.groups[h][t].parent = (IF h = c THEN p ELSE removed.groups[h][t].parent)
            /\ set.groups[h][t].wells = removed.groups[h][t].wells
            /\ set.groups[h][t].groups = removed.groups[h][t].groups
        <5>1. CASE h = c
          BY <1>1, <3>3, <4>2, <5>1, WithParentFacts DEF Only, cNode
        <5>2. CASE h # c
          BY <3>3, <5>2, NodeType DEF Only
        <5> QED BY <5>1, <5>2
      <4> QED BY <1>4, <4>1, <4>2, <4>3 DEF Moved
    <3> QED BY <1>4, <2>5, <3>4, <3>5 DEF AddGroupToGroup, added, removed, set
  <2> QED BY <2>4, <2>5
<1> QED BY <1>2, <1>3, <1>4

\* A new child finds room at a parent without wells, and its old parent, if
\* that is another one, lists it: then nothing throws.
LEMMA UpdateOk ==
  ASSUME NEW S, NEW t, NEW g, NEW node, "ok" \in DOMAIN S
  PROVE  "ok" \in DOMAIN UpdateGroup(S, t, g, node) /\ UpdateGroup(S, t, g, node).ok = S.ok
BY DEF UpdateGroup

LEMMA AddGroupToGroupOk ==
  ASSUME NEW S \in Schedule, NEW t \in Steps, NEW p \in Groups, NEW c, S.ok,
         S.groups[p][t].wells = {}, S.groups[c][t].parent \in Groups \cup {Null},
         \/ S.groups[c][t].parent = p
         \/ S.groups[c][t].parent # Null /\ c \in S.groups[S.groups[c][t].parent][t].groups
  PROVE  AddGroupToGroup(S, p, c, t).ok
<1> DEFINE old == S.groups[c][t].parent
           added == AddChild(S, p, c, t)
           removed == DelChild(added, old, c, t)
<1>1. "ok" \in DOMAIN S
  BY DEF Schedule
<1>2. "ok" \in DOMAIN added /\ added.ok
  BY <1>1, UpdateOk DEF AddChild
<1>3. CASE old = p
  BY <1>2, <1>3 DEF AddGroupToGroup
<1>4. CASE old # p
  <2>1. old # Null /\ c \in S.groups[old][t].groups
    BY <1>4
  <2>2. added.groups[old] = S.groups[old]
    <3>1. \A node : UpdateGroup(S, t, p, node).groups = [S.groups EXCEPT ![p] = Update(@, t, node)]
      BY DEF UpdateGroup, Schedule
    <3>2. added.groups = [S.groups EXCEPT ![p] = Update(@, t,
                            [S.groups[p][t] EXCEPT !.groups = @ \cup {c}])]
      BY <3>1 DEF AddChild
    <3>3. old \in Groups /\ S.groups \in [Groups -> [Steps -> Group \cup {Null}]]
      BY <2>1 DEF Schedule
    <3> HIDE DEF old
    <3> QED BY <1>4, <3>2, <3>3
  <2>3. c \in added.groups[old][t].groups
    BY <2>1, <2>2
  <2> HIDE DEF added, old
  <2>4. "ok" \in DOMAIN removed /\ removed.ok
    BY <1>2, <2>1, <2>3, UpdateOk DEF DelChild
  <2> HIDE DEF removed
  <2>5. SetParent(removed, c, p, t).ok
    BY <2>4, UpdateOk DEF SetParent
  <2> QED BY <1>2, <1>4, <2>4, <2>5 DEF AddGroupToGroup, added, old, removed
<1> QED BY <1>3, <1>4

\* What is left of the Group h at t when the well w has got the group g.
Rehung(S, R, t, g, w, h) ==
  /\ R.groups[h][t].parent = S.groups[h][t].parent
  /\ R.groups[h][t].groups = S.groups[h][t].groups
  /\ R.groups[h][t].wells =
       (IF h = g THEN S.groups[h][t].wells \cup {w}
        ELSE IF h = S.wells[w][t] THEN S.groups[h][t].wells \ {w}
        ELSE S.groups[h][t].wells)

\* R differs from S in the wells that group g holds from step t on.
Listed(S, R, t, g, held) ==
  /\ Extends(S, R, t) /\ R.wells = S.wells
  /\ GroupsAt(R, t) = GroupsAt(S, t)
  /\ \A h \in GroupsAt(S, t) :
       /\ R.groups[h][t].parent = S.groups[h][t].parent
       /\ R.groups[h][t].groups = S.groups[h][t].groups
       /\ R.groups[h][t].wells = IF h = g THEN held ELSE S.groups[h][t].wells

\* Group::delWell() and the insertion of a well, with updateGroup().
LEMMA ListFacts ==
  ASSUME NEW S, NEW t \in Steps, Open(S, t), NEW g \in GroupsAt(S, t),
         NEW held \in SUBSET WellNames,
         NEW R, R = UpdateGroup(S, t, g, WithWells(S.groups[g][t], held))
  PROVE  Listed(S, R, t, g, held)
<1> DEFINE node == WithWells(S.groups[g][t], held)
<1>1. /\ node \in Group /\ g \in Groups
      /\ node.parent = S.groups[g][t].parent /\ node.groups = S.groups[g][t].groups
      /\ node.wells = held
  BY NodeType, WithWellsFacts
<1>2. R = UpdateGroup(S, t, g, node)
  OBVIOUS
<1> HIDE DEF node
<1>3. Only(S, R, t, g, node)
  BY <1>1, <1>2, UpdateGroupFacts DEF Only
<1>4. GroupsAt(R, t) = GroupsAt(S, t)
  BY <1>1, <1>3, OnlyGroupsAt
<1>5. ASSUME NEW h \in GroupsAt(S, t)
      PROVE  /\ R.groups[h][t].parent = S.groups[h][t].parent
             /\ R.groups[h][t].groups = S.groups[h][t].groups
             /\ R.groups[h][t].wells = IF h = g THEN held ELSE S.groups[h][t].wells
  <2>1. CASE h = g
    BY <1>1, <1>3, <2>1 DEF Only
  <2>2. CASE h # g
    BY <1>3, <2>2, NodeType DEF Only
  <2> QED BY <2>1, <2>2
<1> QED BY <1>3, <1>4, <1>5 DEF Only, Listed

LEMMA AddWellToGroupFacts ==
  ASSUME NEW S, NEW t \in Steps, Open(S, t), NEW g \in GroupsAt(S, t), NEW w \in WellNames,
         S.wells[w][t] \in GroupsAt(S, t)
  PROVE  LET R == AddWellToGroup(S, g, w, t)
         IN /\ Extends(S, R, t)
            /\ R.ok => /\ GroupsAt(R, t) = GroupsAt(S, t)
                       /\ "GROUP_CHANGE" \in R.events[t]
                       /\ R.wells[w][t] = g
                       /\ \A v \in WellNames \ {w} : R.wells[v][t] = S.wells[v][t]
                       /\ \A h \in GroupsAt(S, t) : Rehung(S, R, t, g, w, h)
<1> DEFINE old == S.wells[w][t]
           named == UpdateWell(S, t, w, g)
           left == DelWell(named, old, w, t)
           moved == IF old = g THEN S ELSE left
           listed == UpdateGroup(moved, t, g,
                       [moved.groups[g][t] EXCEPT !.wells = @ \cup {w}])
           R == AddEvent(listed, t, "GROUP_CHANGE")
<1>1. AddWellToGroup(S, g, w, t) = IF ~moved.ok THEN moved ELSE R
  BY DEF AddWellToGroup
<1>2. /\ g \in Groups
      /\ Extends(S, named, t) /\ named.groups = S.groups
      /\ named.wells[w][t] = g
      /\ \A v \in WellNames \ {w} : named.wells[v] = S.wells[v]
  BY NodeType, UpdateWellFacts
<1> HIDE DEF named
<1>3. GroupsAt(named, t) = GroupsAt(S, t) /\ Open(named, t)
  BY <1>2, ExtendsOpen DEF GroupsAt
\* Group::delWell() throws, or strikes the well off the list.
<1>4. /\ Extends(S, left, t)
      /\ left.ok =>
           /\ left.wells = named.wells /\ GroupsAt(left, t) = GroupsAt(S, t)
           /\ \A h \in GroupsAt(S, t) :
                /\ left.groups[h][t].parent = S.groups[h][t].parent
                /\ left.groups[h][t].groups = S.groups[h][t].groups
                /\ left.groups[h][t].wells =
                     IF h = old THEN S.groups[h][t].wells \ {w} ELSE S.groups[h][t].wells
  <2> DEFINE held == named.groups[old][t].wells \ {w}
             node == WithWells(named.groups[old][t], held)
             struck == UpdateGroup(named, t, old, node)
  <2>1. left = IF w \notin named.groups[old][t].wells THEN Throw(named) ELSE struck
    BY DEF DelWell, WithWells
  <2>2. Extends(named, Throw(named), t) /\ ~Throw(named).ok
    BY <1>3, ThrowFacts
  <2>3. held \in SUBSET WellNames
    BY <1>3, NodeType
  <2>5. struck = UpdateGroup(named, t, old, WithWells(named.groups[old][t], held))
    OBVIOUS
  <2>4. /\ Extends(named, struck, t) /\ struck.wells = named.wells
        /\ GroupsAt(struck, t) = GroupsAt(named, t)
        /\ \A h \in GroupsAt(named, t) :
             /\ struck.groups[h][t].parent = named.groups[h][t].parent
             /\ struck.groups[h][t].groups = named.groups[h][t].groups
             /\ struck.groups[h][t].wells = IF h = old THEN held ELSE named.groups[h][t].wells
    <3> HIDE DEF held, struck, node
    <3>1. old \in GroupsAt(named, t)
      BY <1>3
    <3>2. Open(named, t)
      BY <1>3
    <3> HIDE DEF old
    <3>3. Listed(named, struck, t, old, held)
      BY <2>3, <2>5, <3>1, <3>2, ListFacts
    <3> QED BY <3>3 DEF Listed
  <2> HIDE DEF node, struck, left
  <2>6. Extends(S, left, t)
    BY <1>2, <2>1, <2>2, <2>4, Transitive
  <2>7. CASE left = struck
    <3>1. GroupsAt(named, t) = GroupsAt(S, t) /\ named.groups = S.groups
      BY <1>2, <1>3
    <3>2. left.wells = named.wells /\ GroupsAt(left, t) = GroupsAt(S, t)
      BY <2>4, <2>7, <3>1
    <3>3. ASSUME NEW h \in GroupsAt(S, t)
          PROVE  /\ left.groups[h][t].parent = S.groups[h][t].parent
                 /\ left.groups[h][t].groups = S.groups[h][t].groups
                 /\ left.groups[h][t].wells =
                      IF h = old THEN S.groups[h][t].wells \ {w} ELSE S.groups[h][t].wells
      <4> HIDE DEF old
      <4> QED BY <2>4, <2>7, <3>1
    <3> QED BY <2>6, <3>2, <3>3
  <2> QED BY <2>1, <2>2, <2>6, <2>7
<1> HIDE DEF left
<1>5. /\ Extends(S, moved, t) /\ Open(moved, t)
      /\ moved.ok =>
           /\ moved.wells[w][t] = g /\ GroupsAt(moved, t) = GroupsAt(S, t)
           /\ \A v \in WellNames \ {w} : moved.wells[v][t] = S.wells[v][t]
           /\ \A h \in GroupsAt(S, t) :
                /\ moved.groups[h][t].parent = S.groups[h][t].parent
                /\ moved.groups[h][t].groups = S.groups[h][t].groups
                /\ h # old \/ old = g => moved.groups[h][t].wells = S.groups[h][t].wells
                /\ h = old /\ old # g => moved.groups[h][t].wells = S.groups[h][t].wells \ {w}
  <2>1. CASE old = g
    BY <2>1, Itself
  <2>2. CASE old # g
    <3>1. moved = left
      BY <2>2
    <3> HIDE DEF moved
    <3>2. Open(left, t)
      BY <1>4, ExtendsOpen
    <3> QED BY <1>2, <1>4, <2>2, <3>1, <3>2
  <2> QED BY <2>1, <2>2
<1>6. CASE ~moved.ok
  BY <1>1, <1>5, <1>6
<1>7. CASE moved.ok
  <2> HIDE DEF moved
  <2> DEFINE held == moved.groups[g][t].wells \cup {w}
  <2>1. listed = UpdateGroup(moved, t, g, WithWells(moved.groups[g][t], held))
    BY DEF WithWells
  <2>2. held \in SUBSET WellNames /\ g \in GroupsAt(moved, t)
    BY <1>5, <1>7, NodeType
  <2>3. /\ Extends(moved, listed, t) /\ listed.wells = moved.wells
        /\ GroupsAt(listed, t) = GroupsAt(moved, t)
        /\ \A h \in GroupsAt(moved, t) :
             /\ listed.groups[h][t].parent = moved.groups[h][t].parent
             /\ listed.groups[h][t].groups = moved.groups[h][t].groups
             /\ listed.groups[h][t].wells = IF h = g THEN held ELSE moved.groups[h][t].wells
    <3>1. Open(moved, t)
      BY <1>5
    <3> HIDE DEF held, listed
    <3>2. Listed(moved, listed, t, g, held)
      BY <2>1, <2>2, <3>1, ListFacts
    <3> QED BY <3>2 DEF Listed
  <2> HIDE DEF listed
  <2>4. /\ Extends(listed, R, t) /\ "GROUP_CHANGE" \in R.events[t]
        /\ R.groups = listed.groups /\ R.wells = listed.wells
    <3>1. Open(listed, t)
      BY <2>3, ExtendsOpen
    <3>2. "GROUP_CHANGE" \in Event
      BY DEF Event
    <3> QED BY <3>1, <3>2, AddEventFacts
  <2> HIDE DEF R
  <2>5. Extends(S, R, t)
    BY <1>5, <2>3, <2>4, Transitive
  <2>6. GroupsAt(R, t) = GroupsAt(S, t)
    BY <1>5, <1>7, <2>3, <2>4 DEF GroupsAt
  <2>7. ASSUME NEW h \in GroupsAt(S, t) PROVE Rehung(S, R, t, g, w, h)
    <3>1. /\ h \in GroupsAt(moved, t) /\ R.groups[h][t] = listed.groups[h][t]
          /\ listed.groups[h][t].parent = S.groups[h][t].parent
          /\ listed.groups[h][t].groups = S.groups[h][t].groups
      BY <1>5, <1>7, <2>3, <2>4
    <3>2. CASE h = g
      BY <1>5, <1>7, <2>3, <3>1, <3>2 DEF Rehung
    <3>3. CASE h # g
      <4>1. listed.groups[h][t].wells = moved.groups[h][t].wells
        BY <2>3, <3>1, <3>3
      <4>2. moved.groups[h][t].wells = IF h = S.wells[w][t] THEN S.groups[h][t].wells \ {w}
                                       ELSE S.groups[h][t].wells
        <5>1. CASE h = old
          BY <1>5, <1>7, <3>3, <5>1
        <5>2. CASE h # old
          BY <1>5, <1>7, <5>2
        <5> QED BY <5>1, <5>2
      <4> QED BY <3>1, <3>3, <4>1, <4>2 DEF Rehung
    <3> QED BY <3>2, <3>3
  <2> QED BY <1>1, <1>5, <1>7, <2>3, <2>4, <2>5, <2>6, <2>7
<1> QED BY <1>6, <1>7

-----------------------------------------------------------------------------
(* The keywords.                                                           *)

LEMMA StepFacts == /\ NSteps \in Nat /\ Steps \subseteq Int /\ 0 \in Steps
                   /\ \A t \in Steps : t # 0 => t - 1 \in Steps
BY NStepsAssumption DEF Steps

LEMMA GoodAfter ==
  ASSUME NEW S, NEW R, NEW t \in Steps, Good(S, t), Extends(S, R, t), Links(R, t),
         Announced(R, t)
  PROVE  Good(R, t)
<1>1. \A u \in Steps : u < t => GroupsAt(R, u) = GroupsAt(S, u) /\ WellsAt(R, u) = WellsAt(S, u)
  BY DEF Extends, GroupsAt, WellsAt
<1>2. \A u \in Steps : u >= t => GroupsAt(R, u) = GroupsAt(R, t) /\ WellsAt(R, u) = WellsAt(R, t)
  BY DEF Extends, Uniform, GroupsAt, WellsAt
<1>3. Lasting(R)
  <2> SUFFICES ASSUME NEW u \in Steps, NEW v \in Steps, u <= v
               PROVE  /\ GroupsAt(R, u) \subseteq GroupsAt(R, v)
                      /\ WellsAt(R, u) \subseteq WellsAt(R, v)
    BY DEF Lasting
  <2>1. CASE v < t
    BY <1>1, <2>1, StepFacts DEF Good, Lasting
  <2>2. CASE u < t /\ t <= v
    <3>1. GroupsAt(S, u) \subseteq GroupsAt(S, t) /\ WellsAt(S, u) \subseteq WellsAt(S, t)
      BY <2>2, StepFacts DEF Good, Lasting
    <3> QED BY <1>1, <1>2, <2>2, <3>1, StepFacts DEF Extends
  <2>3. CASE t <= u
    BY <1>2, <2>3, StepFacts
  <2> QED BY <2>1, <2>2, <2>3, StepFacts
<1>4. ASSUME NEW u \in Steps PROVE Links(R, u)
  <2>1. CASE u < t
    <3>1. Links(S, u)
      BY DEF Good
    <3>2. /\ \A g \in GroupsAt(S, u) : R.groups[g][u] = S.groups[g][u]
          /\ \A w \in WellsAt(S, u) : R.wells[w][u] = S.wells[w][u]
      BY <2>1 DEF Extends, GroupsAt, WellsAt
    <3> QED BY <1>1, <2>1, <3>1, <3>2 DEF Links
  <2>2. CASE u >= t
    <3>1. /\ \A g \in GroupsAt(R, t) : R.groups[g][u] = R.groups[g][t]
          /\ \A w \in WellsAt(R, t) : R.wells[w][u] = R.wells[w][t]
      BY <2>2 DEF Extends, Uniform, GroupsAt, WellsAt
    <3> QED BY <1>2, <2>2, <3>1 DEF Links
  <2> QED BY <2>1, <2>2, StepFacts
<1>5. ASSUME NEW u \in Steps PROVE Announced(R, u)
  <2> SUFFICES ASSUME u # 0, NEW w \in WellNames, R.wells[w][u] # R.wells[w][u - 1]
               PROVE  "GROUP_CHANGE" \in R.events[u]
    BY DEF Announced
  <2>1. u - 1 \in Steps
    BY StepFacts
  <2>2. CASE u < t
    <3>1. R.wells[w][u] = S.wells[w][u] /\ R.wells[w][u - 1] = S.wells[w][u - 1]
      BY <2>1, <2>2, StepFacts DEF Extends
    <3>2. "GROUP_CHANGE" \in S.events[u]
      BY <3>1 DEF Good, Announced
    <3> QED BY <3>2 DEF Extends
  <2>3. CASE u = t
    BY <2>3 DEF Announced
  <2>4. CASE u > t
    <3>1. u >= t /\ u - 1 >= t
      BY <2>1, <2>4, StepFacts
    <3> QED BY <2>1, <3>1 DEF Extends, Uniform
  <2> QED BY <2>2, <2>3, <2>4, StepFacts
<1> QED BY <1>3, <1>4, <1>5 DEF Good, Extends

\* Where no well moves nothing needs to be announced.
LEMMA NoMove ==
  ASSUME NEW S, NEW R, NEW t \in Steps, Good(S, t), Extends(S, R, t),
         \A w \in WellNames : R.wells[w][t] = S.wells[w][t]
  PROVE  Announced(R, t)
<1> SUFFICES ASSUME t # 0, NEW w \in WellNames, R.wells[w][t] # R.wells[w][t - 1]
             PROVE  "GROUP_CHANGE" \in R.events[t]
  BY DEF Announced
<1>1. R.wells[w][t - 1] = S.wells[w][t - 1]
  BY StepFacts DEF Extends
<1>2. "GROUP_CHANGE" \in S.events[t]
  BY <1>1 DEF Good, Announced
<1> QED BY <1>2 DEF Extends

\* A name that was used at any step is in use at the current one.
LEMMA Present ==
  ASSUME NEW S, NEW t \in Steps, Good(S, t)
  PROVE  /\ \A g \in Groups : HasGroup(S, g) <=> g \in GroupsAt(S, t)
         /\ \A w \in WellNames : HasWell(S, w) <=> w \in WellsAt(S, t)
<1>1. \A u \in Steps : GroupsAt(S, u) \subseteq GroupsAt(S, t) /\ WellsAt(S, u) \subseteq WellsAt(S, t)
  <2> TAKE u \in Steps
  <2>1. CASE u <= t
    BY <2>1 DEF Good, Lasting
  <2>2. CASE u >= t
    BY <2>2 DEF Good, Uniform, GroupsAt, WellsAt
  <2> QED BY <2>1, <2>2, StepFacts
<1> QED BY <1>1 DEF HasGroup, HasWell, GroupsAt, WellsAt

\* The links as they are while the group c is on its way to another parent.
LinksBut(S, t, c) ==
  /\ Field \in GroupsAt(S, t)
  /\ \A g \in GroupsAt(S, t) :
       /\ \A h \in Groups \ {c} :
            h \in S.groups[g][t].groups <=> h \in GroupsAt(S, t) /\ S.groups[h][t].parent = g
       /\ c \in S.groups[g][t].groups => S.groups[c][t].parent = g
       /\ S.groups[g][t].wells = {w \in WellsAt(S, t) : S.wells[w][t] = g}
       /\ S.groups[g][t].parent \in GroupsAt(S, t) \cup {Null}
  /\ \A w \in WellsAt(S, t) : S.wells[w][t] \in GroupsAt(S, t)

LEMMA MovedLinks ==
  ASSUME NEW S, NEW t \in Steps, Open(S, t),
         NEW p \in GroupsAt(S, t), NEW c \in GroupsAt(S, t), LinksBut(S, t, c),
         AddGroupToGroup(S, p, c, t).ok
  PROVE  Links(AddGroupToGroup(S, p, c, t), t)
<1> DEFINE R == AddGroupToGroup(S, p, c, t)
<1>1. S.groups[c][t].parent \in GroupsAt(S, t) \cup {Null}
  BY DEF LinksBut
<1>2. /\ Extends(S, R, t) /\ R.wells = S.wells /\ GroupsAt(R, t) = GroupsAt(S, t)
      /\ \A h \in GroupsAt(S, t) : Moved(S, R, t, p, c, h)
  BY <1>1, AddGroupToGroupFacts
<1> HIDE DEF R
<1>3. WellsAt(R, t) = WellsAt(S, t)
  BY <1>2 DEF WellsAt
<1>4. ASSUME NEW g \in GroupsAt(S, t)
      PROVE  /\ R.groups[g][t].groups = {h \in GroupsAt(S, t) : R.groups[h][t].parent = g}
             /\ R.groups[g][t].wells = {w \in WellsAt(S, t) : S.wells[w][t] = g}
             /\ R.groups[g][t].parent \in GroupsAt(S, t) \cup {Null}
  <2>1. /\ R.groups[g][t].wells = S.groups[g][t].wells
        /\ R.groups[g][t].parent = IF g = c THEN p ELSE S.groups[g][t].parent
    BY <1>2 DEF Moved
  <2>2. S.groups[g][t].groups \in SUBSET Groups /\ GroupsAt(S, t) \subseteq Groups
    BY NodeType DEF GroupsAt
  <2>3. ASSUME NEW h \in Groups
        PROVE  h \in R.groups[g][t].groups <=> h \in GroupsAt(S, t) /\ R.groups[h][t].parent = g
    <3>1. \/ R.groups[g][t].groups = S.groups[g][t].groups \cup {c}
          \/ R.groups[g][t].groups = S.groups[g][t].groups \ {c}
          \/ R.groups[g][t].groups = S.groups[g][t].groups
      BY <1>2 DEF Moved
    <3>2. h # c => (h \in R.groups[g][t].groups <=> h \in S.groups[g][t].groups)
      BY <3>1
    <3>3. h \in GroupsAt(S, t) /\ h # c => R.groups[h][t].parent = S.groups[h][t].parent
      BY <1>2 DEF Moved
    <3>4. CASE h # c
      BY <3>2, <3>3, <3>4 DEF LinksBut
    <3>5. CASE h = c
      <4>1. R.groups[c][t].parent = p
        BY <1>2 DEF Moved
      <4>2. CASE g = p
        <5>1. R.groups[p][t].groups = S.groups[p][t].groups \cup {c}
          BY <1>2 DEF Moved
        <5> QED BY <3>5, <4>1, <4>2, <5>1
      <4>3. CASE g # p
        <5>1. c \in R.groups[g][t].groups => c \in S.groups[g][t].groups /\ g # S.groups[c][t].parent
          BY <1>2, <4>3 DEF Moved
        <5> QED BY <3>5, <4>1, <4>3, <5>1 DEF LinksBut
      <4> QED BY <4>2, <4>3
    <3> QED BY <3>4, <3>5
  <2>4. R.groups[g][t].groups \subseteq Groups
    <3>1. Open(R, t) /\ g \in GroupsAt(R, t)
      BY <1>2, ExtendsOpen
    <3> QED BY <3>1, NodeType
  <2>5. R.groups[g][t].groups = {h \in GroupsAt(S, t) : R.groups[h][t].parent = g}
    BY <2>2, <2>3, <2>4
  <2> QED BY <2>1, <2>5 DEF LinksBut
<1>5. Links(R, t)
  BY <1>2, <1>3, <1>4 DEF Links, LinksBut
<1> QED BY <1>5 DEF R

\* R is S with the new group g, and nothing below it, under FIELD.
Grown(S, R, t, g) ==
  /\ GroupsAt(R, t) = GroupsAt(S, t) \cup {g}
  /\ R.groups[g][t].parent = Field
  /\ R.groups[g][t].groups = {} /\ R.groups[g][t].wells = {}
  /\ \A h \in GroupsAt(S, t) :
       /\ R.groups[h][t].parent = S.groups[h][t].parent
       /\ R.groups[h][t].wells = S.groups[h][t].wells
       /\ R.groups[h][t].groups = IF h = Field THEN S.groups[h][t].groups \cup {g}
                                  ELSE S.groups[h][t].groups

LEMMA AddGroupGood ==
  ASSUME NEW S, NEW t \in Steps, Good(S, t), NEW g \in Groups \ GroupsAt(S, t)
  PROVE  LET R == AddGroup(S, g, t)
         IN /\ R \in Schedule
            /\ R.ok => /\ Good(R, t) /\ g \in GroupsAt(R, t) /\ Extends(S, R, t)
                       /\ Grown(S, R, t, g)
            /\ S.ok /\ S.groups[Field][t].wells = {} => R.ok
<1> DEFINE node == [parent |-> Field, groups |-> {}, wells |-> {}]
           put == UpdateGroup(S, t, g, node)
           new == AddEvent(put, t, "NEW_GROUP")
           R == AddGroupToGroup(new, Field, g, t)
<1>1. Open(S, t) /\ Links(S, t) /\ node \in Group /\ Field \in GroupsAt(S, t)
  BY DEF Good, Open, Links, Group, Groups
<1>2. /\ Extends(S, put, t) /\ put.wells = S.wells /\ put.groups[g][t] = node
      /\ \A h \in Groups \ {g} : put.groups[h] = S.groups[h]
  <2> HIDE DEF node
  <2> QED BY <1>1, UpdateGroupFacts
<1> HIDE DEF put
<1>3. /\ Extends(put, new, t) /\ new.groups = put.groups /\ new.wells = put.wells
  BY <1>2, ExtendsOpen, AddEventFacts DEF Event
<1>4. R = AddGroup(S, g, t)
  BY DEF AddGroup, put
<1> HIDE DEF new
<1>5. /\ Extends(S, new, t) /\ Open(new, t) /\ new.wells = S.wells /\ new.groups[g][t] = node
      /\ \A h \in Groups \ {g} : new.groups[h] = S.groups[h]
  BY <1>2, <1>3, Transitive, ExtendsOpen
<1>6. /\ GroupsAt(new, t) = GroupsAt(S, t) \cup {g} /\ WellsAt(new, t) = WellsAt(S, t)
      /\ \A h \in GroupsAt(S, t) : new.groups[h][t] = S.groups[h][t]
  BY <1>1, <1>5, NullAssumption DEF GroupsAt, WellsAt
<1>7. LinksBut(new, t, g)
  <2>1. ASSUME NEW k \in GroupsAt(S, t)
        PROVE  /\ \A h \in Groups \ {g} : h \in new.groups[k][t].groups
                    <=> h \in GroupsAt(new, t) /\ new.groups[h][t].parent = k
               /\ g \notin new.groups[k][t].groups
               /\ new.groups[k][t].wells = {w \in WellsAt(new, t) : new.wells[w][t] = k}
               /\ new.groups[k][t].parent \in GroupsAt(new, t) \cup {Null}
    <3>1. /\ S.groups[k][t].groups = {h \in GroupsAt(S, t) : S.groups[h][t].parent = k}
          /\ S.groups[k][t].wells = {w \in WellsAt(S, t) : S.wells[w][t] = k}
          /\ S.groups[k][t].parent \in GroupsAt(S, t) \cup {Null}
      BY <1>1 DEF Links
    <3> QED BY <1>5, <1>6, <3>1
  <2>2. /\ \A h \in Groups \ {g} : ~(h \in GroupsAt(new, t) /\ new.groups[h][t].parent = g)
        /\ \A w \in WellsAt(new, t) : new.wells[w][t] # g
    BY <1>1, <1>5, <1>6, NamesAssumption DEF Links
  <2>3. /\ new.groups[g][t].groups = {} /\ new.groups[g][t].wells = {}
        /\ new.groups[g][t].parent = Field
    BY <1>5
  <2>4. /\ Field \in GroupsAt(new, t)
        /\ \A w \in WellsAt(new, t) : new.wells[w][t] \in GroupsAt(new, t)
    BY <1>1, <1>5, <1>6 DEF Links
  <2> HIDE DEF node
  <2>5. {w \in WellsAt(new, t) : new.wells[w][t] = g} = {}
    BY <2>2
  <2> QED BY <1>6, <2>1, <2>2, <2>3, <2>4, <2>5 DEF LinksBut
<1>8. /\ Field \in GroupsAt(new, t) /\ g \in GroupsAt(new, t)
      /\ new.groups[g][t].parent \in GroupsAt(new, t) \cup {Null}
  BY <1>1, <1>5, <1>6
<1>9. /\ Extends(new, R, t) /\ R.wells = new.wells
      /\ R.ok => GroupsAt(R, t) = GroupsAt(new, t)
  BY <1>5, <1>8, AddGroupToGroupFacts
<1>10. R.ok => Links(R, t)
  BY <1>5, <1>7, <1>8, MovedLinks
<1> HIDE DEF R
<1>11. Extends(S, R, t)
  BY <1>5, <1>9, Transitive
<1>12. R.ok => Good(R, t)
  BY <1>5, <1>9, <1>10, <1>11, NoMove, GoodAfter
<1>13. ASSUME R.ok PROVE Grown(S, R, t, g)
  <2>1. \A h \in GroupsAt(new, t) : Moved(new, R, t, Field, g, h)
    BY <1>5, <1>8, <1>13, AddGroupToGroupFacts DEF R
  <2>2. /\ new.groups[g][t].parent = Field /\ new.groups[g][t].groups = {}
        /\ new.groups[g][t].wells = {}
    BY <1>5
  <2>3. g # Field
    BY <1>1
  <2>4. /\ R.groups[g][t].parent = Field
        /\ R.groups[g][t].groups = {} /\ R.groups[g][t].wells = {}
    BY <1>8, <2>1, <2>2, <2>3 DEF Moved
  <2>5. ASSUME NEW h \in GroupsAt(S, t)
        PROVE  /\ R.groups[h][t].parent = S.groups[h][t].parent
               /\ R.groups[h][t].wells = S.groups[h][t].wells
               /\ R.groups[h][t].groups = IF h = Field THEN S.groups[h][t].groups \cup {g}
                                          ELSE S.groups[h][t].groups
    <3>1. Moved(new, R, t, Field, g, h) /\ new.groups[h][t] = S.groups[h][t] /\ h # g
      BY <1>6, <2>1
    <3> QED BY <2>2, <3>1 DEF Moved
  <2> QED BY <1>6, <1>9, <1>13, <2>4, <2>5 DEF Grown
<1>14. S.ok /\ S.groups[Field][t].wells = {} => R.ok
  <2> SUFFICES ASSUME S.ok, S.groups[Field][t].wells = {} PROVE R.ok
    OBVIOUS
  <2>1. new.ok /\ new \in Schedule
    <3>1. "ok" \in DOMAIN put /\ put.ok
      <4>1. "ok" \in DOMAIN S
        BY DEF Good, Schedule
      <4> HIDE DEF node
      <4> QED BY <4>1, UpdateOk DEF put
    <3>2. new.ok
      BY <3>1 DEF new, AddEvent
    <3> QED BY <1>5, <3>2 DEF Open
  <2>2. /\ new.groups[Field][t].wells = {} /\ new.groups[g][t].parent = Field
        /\ Field \in Groups
    BY <1>1, <1>5, <1>6 DEF Groups
  <2> QED BY <2>1, <2>2, AddGroupToGroupOk DEF R
<1> QED BY <1>4, <1>8, <1>9, <1>11, <1>12, <1>13, <1>14 DEF Extends

\* R is S, or S with the group g where S has none.
Ensured(S, R, t, g) ==
  \/ R = S /\ g \in GroupsAt(S, t)
  \/ g \notin GroupsAt(S, t) /\ Grown(S, R, t, g)

LEMMA EnsureGroupGood ==
  ASSUME NEW S, NEW t \in Steps, S.ok => Good(S, t), S \in Schedule, NEW g \in Groups
  PROVE  LET R == EnsureGroup(S, g, t)
         IN /\ R \in Schedule
            /\ R.ok => /\ S.ok /\ Good(R, t) /\ g \in GroupsAt(R, t) /\ Extends(S, R, t)
                       /\ Ensured(S, R, t, g)
            /\ S.ok /\ (g \in GroupsAt(S, t) \/ S.groups[Field][t].wells = {}) => R.ok
<1>1. CASE ~S.ok
  BY <1>1 DEF EnsureGroup
<1>2. CASE S.ok /\ HasGroup(S, g)
  BY <1>2, Present, Itself DEF EnsureGroup, Good, Open, Ensured
<1>3. CASE S.ok /\ ~HasGroup(S, g)
  <2>1. EnsureGroup(S, g, t) = AddGroup(S, g, t) /\ g \notin GroupsAt(S, t)
    BY <1>3, Present DEF EnsureGroup
  <2> QED BY <1>3, <2>1, AddGroupGood DEF Ensured
<1> QED BY <1>1, <1>2, <1>3

\* The well and its two groups agree after the move.
LEMMA RehungLinks ==
  ASSUME NEW S, NEW T, NEW R, NEW t \in Steps, Good(S, t), Open(R, t),
         NEW g \in GroupsAt(S, t), NEW w \in WellNames,
         T.groups = S.groups, T.wells[w][t] \in GroupsAt(S, t),
         w \in WellsAt(S, t) => T.wells[w][t] = S.wells[w][t],
         w \notin WellsAt(S, t) => T.wells[w][t] = g,
         \A v \in WellNames \ {w} : T.wells[v][t] = S.wells[v][t],
         GroupsAt(R, t) = GroupsAt(S, t),
         R.wells[w][t] = g,
         \A v \in WellNames \ {w} : R.wells[v][t] = T.wells[v][t],
         \A h \in GroupsAt(S, t) : Rehung(T, R, t, g, w, h)
  PROVE  Links(R, t)
<1>1. Links(S, t) /\ g # Null /\ g \in Groups
  BY NamesAssumption DEF Good, GroupsAt
<1>2. /\ WellsAt(R, t) = WellsAt(S, t) \cup {w}
      /\ \A v \in WellNames \ {w} : v \in WellsAt(R, t) <=> v \in WellsAt(S, t)
  BY <1>1 DEF WellsAt
<1>3. ASSUME NEW h \in GroupsAt(S, t)
      PROVE  R.groups[h][t].wells = {v \in WellsAt(R, t) : R.wells[v][t] = h}
  <2>1. S.groups[h][t].wells = {v \in WellsAt(S, t) : S.wells[v][t] = h}
    BY <1>1 DEF Links
  <2>2. R.groups[h][t].wells \in SUBSET WellNames
    BY NodeType
  <2>3. \/ h = g /\ R.groups[h][t].wells = S.groups[h][t].wells \cup {w}
        \/ h # g /\ h = T.wells[w][t] /\ R.groups[h][t].wells = S.groups[h][t].wells \ {w}
        \/ h # g /\ h # T.wells[w][t] /\ R.groups[h][t].wells = S.groups[h][t].wells
    <3>1. /\ Rehung(T, R, t, g, w, h)
          /\ T.groups[h][t].wells = S.groups[h][t].wells
      OBVIOUS
    <3>2. R.groups[h][t].wells =
            (IF h = g THEN S.groups[h][t].wells \cup {w}
             ELSE IF h = T.wells[w][t] THEN S.groups[h][t].wells \ {w}
             ELSE S.groups[h][t].wells)
      BY <3>1 DEF Rehung
    <3> QED BY <3>2
  <2>4. ASSUME NEW v \in WellNames, v # w
        PROVE  v \in R.groups[h][t].wells <=> v \in WellsAt(R, t) /\ R.wells[v][t] = h
    <3>1. v \in R.groups[h][t].wells <=> v \in S.groups[h][t].wells
      BY <2>3, <2>4
    <3>2. R.wells[v][t] = S.wells[v][t] /\ (v \in WellsAt(R, t) <=> v \in WellsAt(S, t))
      BY <1>2, <2>4
    <3> QED BY <2>1, <3>1, <3>2
  <2>5. w \in R.groups[h][t].wells <=> h = g
    <3>1. h # g /\ h # T.wells[w][t] => w \notin S.groups[h][t].wells
      BY <2>1
    <3> QED BY <2>3, <3>1
  <2>6. w \in WellsAt(R, t)
    BY <1>2
  <2>7. WellsAt(R, t) \subseteq WellNames
    BY DEF WellsAt
  <2>8. \A v \in WellNames : v \in R.groups[h][t].wells <=> v \in WellsAt(R, t) /\ R.wells[v][t] = h
    BY <2>4, <2>5, <2>6
  <2> QED BY <2>2, <2>7, <2>8
<1>4. ASSUME NEW h \in GroupsAt(S, t)
      PROVE  /\ R.groups[h][t].groups = {k \in GroupsAt(R, t) : R.groups[k][t].parent = h}
             /\ R.groups[h][t].parent \in GroupsAt(R, t) \cup {Null}
  <2>1. \A k \in GroupsAt(S, t) : /\ R.groups[k][t].groups = S.groups[k][t].groups
                                  /\ R.groups[k][t].parent = S.groups[k][t].parent
    BY DEF Rehung
  <2>2. /\ S.groups[h][t].groups = {k \in GroupsAt(S, t) : S.groups[k][t].parent = h}
        /\ S.groups[h][t].parent \in GroupsAt(S, t) \cup {Null}
    BY <1>1 DEF Links
  <2> QED BY <2>1, <2>2
<1>5. \A v \in WellsAt(R, t) : R.wells[v][t] \in GroupsAt(R, t)
  BY <1>1, <1>2 DEF Links, WellsAt
<1> QED BY <1>1, <1>3, <1>4, <1>5 DEF Links

-----------------------------------------------------------------------------
\* The inductive invariant: while no exception has ended the construction.
Inv == TypeOK /\ (sched.ok => Good(sched, step))

LEMMA InitInv == Init => Inv
<1> SUFFICES ASSUME Init PROVE Inv
  OBVIOUS
<1> DEFINE root == [parent |-> Null, groups |-> {}, wells |-> {}]
<1>1. root \in Group /\ root # Null /\ Field \in Groups
  BY NullAssumption DEF Group, Groups
<1>2. /\ step = 0 /\ clean = TRUE
      /\ \A g \in Groups, u \in Steps : sched.groups[g][u] = IF g = Field THEN root ELSE Null
      /\ \A w \in WellNames, u \in Steps : sched.wells[w][u] = Null
      /\ sched.events = [u \in Steps |-> IF u = 0 THEN {"NEW_GROUP"} ELSE {}]
  BY DEF Init, Filled, Steps
<1>3. sched \in Schedule
  <2>1. /\ sched.groups \in [Groups -> [Steps -> Group \cup {Null}]]
        /\ sched.wells \in [WellNames -> [Steps -> Groups \cup {Null}]]
        /\ sched.events \in [Steps -> SUBSET Event]
    <3> HIDE DEF root
    <3>1. sched.groups = [g \in Groups |-> Filled(NSteps, IF g = Field THEN root ELSE Null)]
      BY DEF Init, root
    <3>2. \A v \in Group \cup {Null} : Filled(NSteps, v) \in [Steps -> Group \cup {Null}]
      BY DEF Filled, Steps
    <3>3. sched.wells \in [WellNames -> [Steps -> Groups \cup {Null}]]
      BY DEF Init, Filled, Steps
    <3> QED BY <1>1, <1>2, <3>1, <3>2, <3>3 DEF Event
  <2> QED BY <2>1 DEF Init, Schedule
<1>4. TypeOK
  BY <1>2, <1>3, StepFacts DEF TypeOK
<1>5. \A u \in Steps : GroupsAt(sched, u) = {Field} /\ WellsAt(sched, u) = {}
  BY <1>1, <1>2 DEF GroupsAt, WellsAt
<1>6. \A u \in Steps : Links(sched, u)
  <2> TAKE u \in Steps
  <2>1. sched.groups[Field][u] = root
    BY <1>1, <1>2
  <2>2. Null # Field
    BY <1>1, NamesAssumption
  <2> QED BY <1>5, <2>1, <2>2 DEF Links
<1>7. \A u \in Steps : Announced(sched, u)
  BY <1>2, StepFacts DEF Announced
<1>8. Uniform(sched, 0) /\ Lasting(sched)
  BY <1>2, <1>5, StepFacts DEF Uniform, Lasting
<1> QED BY <1>2, <1>3, <1>4, <1>6, <1>7, <1>8 DEF Inv, Good

LEMMA WelspecsInv ==
  ASSUME Inv, NEW w \in WellNames, NEW g \in Groups, Welspecs(w, g)
  PROVE  sched' \in Schedule /\ (sched'.ok => Good(sched', step))
<1> DEFINE known == EnsureGroup(sched, g, step)
           T == AddWell(known, w, g, step)
           R == AddWellToGroup(T, g, w, step)
<1>1. /\ step \in Steps /\ sched.ok /\ sched \in Schedule /\ Good(sched, step)
      /\ sched' = IF known.ok THEN R ELSE known
  BY DEF Inv, TypeOK, Welspecs
<1>2. known \in Schedule /\ (known.ok => Good(known, step) /\ g \in GroupsAt(known, step))
  BY <1>1, EnsureGroupGood
<1> HIDE DEF known
<1>3. CASE ~known.ok
  BY <1>1, <1>2, <1>3
<1>4. CASE known.ok
  <2>1. /\ Good(known, step) /\ Open(known, step) /\ Links(known, step)
        /\ g \in GroupsAt(known, step) /\ g \in Groups
    BY <1>1, <1>2, <1>4 DEF Good, Open
  <2>2. /\ Extends(known, T, step) /\ T.groups = known.groups
        /\ T.wells[w][step] \in GroupsAt(known, step)
        /\ w \in WellsAt(known, step) => T.wells[w][step] = known.wells[w][step]
        /\ w \notin WellsAt(known, step) => T.wells[w][step] = g
        /\ \A v \in WellNames \ {w} : T.wells[v][step] = known.wells[v][step]
    <3>1. CASE w \in WellsAt(known, step)
      <4>1. T = known
        BY <1>1, <2>1, <3>1, Present DEF AddWell
      <4> QED BY <1>1, <2>1, <3>1, <4>1, Itself DEF Links
    <3>2. CASE w \notin WellsAt(known, step)
      <4>1. T = UpdateWell(known, step, w, g)
        BY <1>1, <2>1, <3>2, Present DEF AddWell
      <4> QED BY <1>1, <2>1, <3>2, <4>1, UpdateWellFacts
    <3> QED BY <3>1, <3>2
  <2> HIDE DEF T
  <2>3. Open(T, step) /\ GroupsAt(T, step) = GroupsAt(known, step)
    BY <2>2, ExtendsOpen DEF GroupsAt
  <2>4. /\ Extends(T, R, step)
        /\ R.ok => /\ GroupsAt(R, step) = GroupsAt(T, step)
                   /\ "GROUP_CHANGE" \in R.events[step]
                   /\ R.wells[w][step] = g
                   /\ \A v \in WellNames \ {w} : R.wells[v][step] = T.wells[v][step]
                   /\ \A h \in GroupsAt(T, step) : Rehung(T, R, step, g, w, h)
    BY <1>1, <2>1, <2>2, <2>3, AddWellToGroupFacts
  <2> HIDE DEF R
  <2>5. Extends(known, R, step) /\ Open(R, step) /\ R \in Schedule
    BY <1>1, <2>2, <2>4, Transitive, ExtendsOpen DEF Open
  <2>6. ASSUME R.ok PROVE Good(R, step)
    <3>1. Links(R, step)
      BY <1>1, <2>1, <2>2, <2>3, <2>4, <2>5, <2>6, RehungLinks
    <3>2. Announced(R, step)
      BY <2>4, <2>6 DEF Announced
    <3> QED BY <1>1, <2>1, <2>5, <3>1, <3>2, GoodAfter
  <2> QED BY <1>1, <1>4, <2>5, <2>6
<1> QED BY <1>3, <1>4

LEMMA GruptreeInv ==
  ASSUME Inv, NEW c \in Groups, NEW p \in Groups, Gruptree(c, p)
  PROVE  sched' \in Schedule /\ (sched'.ok => Good(sched', step))
<1> DEFINE first == EnsureGroup(sched, c, step)
           known == EnsureGroup(first, p, step)
           R == AddGroupToGroup(known, p, c, step)
<1>1. /\ step \in Steps /\ sched.ok /\ sched \in Schedule /\ Good(sched, step)
      /\ sched' = IF known.ok THEN R ELSE known
  BY DEF Inv, TypeOK, Gruptree
<1>2. first \in Schedule /\ (first.ok => Good(first, step) /\ c \in GroupsAt(first, step))
  BY <1>1, EnsureGroupGood
<1> HIDE DEF first
<1>3. /\ known \in Schedule
      /\ known.ok => /\ first.ok /\ Good(known, step) /\ p \in GroupsAt(known, step)
                     /\ Extends(first, known, step)
  BY <1>1, <1>2, EnsureGroupGood
<1> HIDE DEF known
<1>4. CASE ~known.ok
  BY <1>1, <1>3, <1>4
<1>5. CASE known.ok
  <2>1. /\ Good(known, step) /\ Open(known, step) /\ Links(known, step)
        /\ p \in GroupsAt(known, step) /\ c \in GroupsAt(known, step)
    BY <1>1, <1>2, <1>3, <1>5 DEF Good, Open, Extends
  <2>2. known.groups[c][step].parent \in GroupsAt(known, step) \cup {Null}
    BY <2>1 DEF Links
  <2>3. Extends(known, R, step) /\ R.wells = known.wells /\ R \in Schedule
    BY <1>1, <2>1, <2>2, AddGroupToGroupFacts DEF Extends
  <2>4. ASSUME R.ok PROVE Good(R, step)
    <3>1. LinksBut(known, step, c)
      BY <2>1 DEF Links, LinksBut
    <3>2. Links(R, step)
      BY <1>1, <2>1, <2>4, <3>1, MovedLinks
    <3> HIDE DEF R
    <3>3. Announced(R, step)
      BY <1>1, <2>1, <2>3, NoMove
    <3> QED BY <1>1, <2>1, <2>3, <3>2, <3>3, GoodAfter
  <2> QED BY <1>1, <1>5, <2>3, <2>4
<1> QED BY <1>4, <1>5

LEMMA NextInv == Inv /\ [Next]_vars => Inv'
<1> SUFFICES ASSUME Inv, [Next]_vars PROVE Inv'
  OBVIOUS
<1>1. step \in Steps /\ clean \in BOOLEAN /\ sched \in Schedule
  BY DEF Inv, TypeOK
<1>2. ASSUME NEW w \in WellNames, NEW g \in Groups, Welspecs(w, g),
             clean' = (clean /\ CleanWelspecs(g))
      PROVE  Inv'
  <2>1. step' = step /\ clean' \in BOOLEAN
    BY <1>2 DEF Welspecs
  <2> QED BY <1>1, <1>2, <2>1, WelspecsInv DEF Inv, TypeOK
<1>3. ASSUME NEW c \in Groups, NEW p \in Groups, Gruptree(c, p),
             clean' = (clean /\ CleanGruptree(c, p))
      PROVE  Inv'
  <2>1. step' = step /\ clean' \in BOOLEAN
    BY <1>3 DEF Gruptree
  <2> QED BY <1>1, <1>3, <2>1, GruptreeInv DEF Inv, TypeOK
<1>4. ASSUME NEW g \in Groups, Grupnet(g), clean' = (clean /\ RoomInField({g}))
      PROVE  Inv'
  <2>1. step' = step /\ clean' \in BOOLEAN
    BY <1>4 DEF Grupnet
  <2>2. sched' = EnsureGroup(sched, g, step) /\ (sched.ok => Good(sched, step))
    BY <1>4 DEF Grupnet, Inv
  <2>3. sched' \in Schedule /\ (sched'.ok => Good(sched', step))
    BY <1>1, <2>2, EnsureGroupGood
  <2> QED BY <1>1, <2>1, <2>3 DEF Inv, TypeOK
<1>5. ASSUME NEW next \in Steps, EndReportStep(next), UNCHANGED clean
      PROVE  Inv'
  <2>1. step' = next /\ sched' = sched /\ next > step /\ clean' = clean
    BY <1>5 DEF EndReportStep
  <2>2. Uniform(sched, step) => Uniform(sched, next)
    BY <1>1, <2>1, StepFacts DEF Uniform
  <2>3. Good(sched, step) => Good(sched, next)
    BY <2>2 DEF Good
  <2> QED BY <1>1, <2>1, <2>3 DEF Inv, TypeOK
<1>6. CASE UNCHANGED vars
  BY <1>6 DEF vars, Inv, TypeOK
<1> QED BY <1>2, <1>3, <1>4, <1>5, <1>6 DEF Next

LEMMA InvHolds == Spec => []Inv
<1> QED BY InitInv, NextInv, PTL DEF Spec

\* The containers keep their types, also when a Group throws in the middle of
\* a keyword.
THEOREM TypeCorrect == Spec => []TypeOK
<1>1. Inv => TypeOK
  BY DEF Inv
<1> QED BY <1>1, InvHolds, PTL

\* Parents and the lists of children agree at every step, whatever keywords
\* come in whatever order (addGroupToGroup, addWellToGroup).
THEOREM LinksAgree == Spec => []LinksConsistent
<1>1. Inv => LinksConsistent
  BY DEF Inv, Good, Links, LinksConsistent
<1> QED BY <1>1, InvHolds, PTL

\* Every move of a well is announced by a GROUP_CHANGE of its step.
THEOREM MovesAnnounced == Spec => []WellMovesAreAnnounced
<1>1. Inv => WellMovesAreAnnounced
  BY DEF Inv, Good, Announced, WellMovesAreAnnounced
<1> QED BY <1>1, InvHolds, PTL

-----------------------------------------------------------------------------
(* Clean decks: the tree hangs together and nothing throws.                *)

\* The groups hang below FIELD at step t, the only one without a parent, and
\* none has both groups and wells.
Hanging(S, t) ==
  \A X \in SUBSET Groups :
    Field \in X /\ (\A p \in X \cap GroupsAt(S, t) : S.groups[p][t].groups \subseteq X)
    => GroupsAt(S, t) \subseteq X

Tidy(S, t) ==
  /\ Hanging(S, t)
  /\ \A g \in GroupsAt(S, t) :
       /\ S.groups[g][t].groups = {} \/ S.groups[g][t].wells = {}
       /\ S.groups[g][t].parent = Null <=> g = Field

\* The inductive invariant of the decks that Eclipse accepts.
CleanInv ==
  /\ Inv
  /\ clean => sched.ok /\ \A t \in Steps : Tidy(sched, t)

\* Tidy looks at nothing but the groups of its step.
LEMMA SameTidy ==
  ASSUME NEW S, NEW R, NEW u, NEW v, Tidy(S, v),
         \A g \in Groups : R.groups[g][u] = S.groups[g][v]
  PROVE  Tidy(R, u)
<1>1. GroupsAt(R, u) = GroupsAt(S, v) /\ GroupsAt(S, v) \subseteq Groups
  BY DEF GroupsAt
<1>2. \A g \in GroupsAt(S, v) : R.groups[g][u] = S.groups[g][v]
  BY <1>1
<1>3. Hanging(R, u)
  BY <1>1, <1>2 DEF Tidy, Hanging
<1> QED BY <1>1, <1>2, <1>3 DEF Tidy

\* It is enough to look at the current step.
LEMMA TidyAfter ==
  ASSUME NEW S, NEW R, NEW t \in Steps, \A u \in Steps : Tidy(S, u), Extends(S, R, t), Tidy(R, t)
  PROVE  \A u \in Steps : Tidy(R, u)
<1> TAKE u \in Steps
<1>1. CASE u < t
  BY <1>1, SameTidy DEF Extends
<1>2. CASE u >= t
  BY <1>2, SameTidy DEF Extends, Uniform
<1> QED BY <1>1, <1>2, StepFacts

\* A new group under FIELD.
LEMMA GrownTidy ==
  ASSUME NEW S, NEW R, NEW t, NEW g \in Groups \ GroupsAt(S, t), Field \in GroupsAt(S, t),
         Tidy(S, t), S.groups[Field][t].wells = {}, Grown(S, R, t, g)
  PROVE  Tidy(R, t)
<1>1. Hanging(R, t)
  <2> SUFFICES ASSUME NEW X \in SUBSET Groups, Field \in X,
                      \A p \in X \cap GroupsAt(R, t) : R.groups[p][t].groups \subseteq X
               PROVE  GroupsAt(R, t) \subseteq X
    BY DEF Hanging
  <2>1. \A p \in X \cap GroupsAt(S, t) : S.groups[p][t].groups \subseteq X
    BY DEF Grown
  <2>2. GroupsAt(S, t) \subseteq X
    BY <2>1 DEF Tidy, Hanging
  <2>3. g \in X
    BY <2>2 DEF Grown
  <2> QED BY <2>2, <2>3 DEF Grown
<1>2. ASSUME NEW h \in GroupsAt(R, t)
      PROVE  /\ R.groups[h][t].groups = {} \/ R.groups[h][t].wells = {}
             /\ R.groups[h][t].parent = Null <=> h = Field
  <2>1. CASE h = g
    <3>1. g # Field /\ Field # Null
      BY NamesAssumption DEF Groups
    <3> QED BY <2>1, <3>1 DEF Grown
  <2>2. CASE h # g
    <3>1. h \in GroupsAt(S, t)
      BY <2>2 DEF Grown
    <3>2. /\ S.groups[h][t].groups = {} \/ S.groups[h][t].wells = {}
          /\ S.groups[h][t].parent = Null <=> h = Field
      BY <3>1 DEF Tidy
    <3>3. /\ R.groups[h][t].parent = S.groups[h][t].parent
          /\ R.groups[h][t].wells = S.groups[h][t].wells
          /\ R.groups[h][t].groups = IF h = Field THEN S.groups[h][t].groups \cup {g}
                                     ELSE S.groups[h][t].groups
      BY <3>1 DEF Grown
    <3> QED BY <3>2, <3>3
  <2> QED BY <2>1, <2>2
<1> QED BY <1>1, <1>2 DEF Tidy

\* Where FIELD has room, a keyword gets the group it names.
LEMMA EnsureTidy ==
  ASSUME NEW S, NEW t \in Steps, S.ok, Good(S, t), \A u \in Steps : Tidy(S, u), NEW g \in Groups,
         g \in GroupsAt(S, t) \/ S.groups[Field][t].wells = {}
  PROVE  LET R == EnsureGroup(S, g, t)
         IN /\ R.ok /\ Good(R, t) /\ g \in GroupsAt(R, t)
            /\ Ensured(S, R, t, g)
            /\ \A u \in Steps : Tidy(R, u)
<1> DEFINE R == EnsureGroup(S, g, t)
<1>1. S \in Schedule /\ Field \in GroupsAt(S, t)
  BY DEF Good, Links
<1>2. R.ok /\ Good(R, t) /\ g \in GroupsAt(R, t) /\ Extends(S, R, t) /\ Ensured(S, R, t, g)
  BY <1>1, EnsureGroupGood
<1> HIDE DEF R
<1>3. CASE R = S
  BY <1>2, <1>3 DEF R
<1>4. CASE R # S
  <2>1. g \notin GroupsAt(S, t) /\ Grown(S, R, t, g) /\ S.groups[Field][t].wells = {}
    BY <1>2, <1>4 DEF Ensured
  <2>2. Tidy(R, t)
    BY <1>1, <2>1, GrownTidy
  <2>3. \A u \in Steps : Tidy(R, u)
    BY <1>2, <2>2, TidyAfter
  <2> QED BY <1>2, <2>3 DEF R
<1> QED BY <1>3, <1>4

\* A well may leave the group that lists it.
LEMMA AddWellToGroupOk ==
  ASSUME NEW S, "ok" \in DOMAIN S, S.ok, NEW t, NEW g, NEW w, "groups" \in DOMAIN S,
         S.wells[w][t] = g \/ w \in S.groups[S.wells[w][t]][t].wells
  PROVE  AddWellToGroup(S, g, w, t).ok
<1> DEFINE old == S.wells[w][t]
           named == UpdateWell(S, t, w, g)
           left == DelWell(named, old, w, t)
           moved == IF old = g THEN S ELSE left
           listed == UpdateGroup(moved, t, g,
                       [moved.groups[g][t] EXCEPT !.wells = @ \cup {w}])
<1>1. AddWellToGroup(S, g, w, t) = IF ~moved.ok THEN moved ELSE AddEvent(listed, t, "GROUP_CHANGE")
  BY DEF AddWellToGroup
<1>2. "ok" \in DOMAIN named /\ named.ok /\ named.groups = S.groups
  BY DEF UpdateWell
<1> HIDE DEF named
<1>3. old # g => "ok" \in DOMAIN left /\ left.ok
  BY <1>2, UpdateOk DEF DelWell
<1> HIDE DEF left
<1>4. "ok" \in DOMAIN moved /\ moved.ok
  BY <1>3
<1> HIDE DEF moved
<1>5. "ok" \in DOMAIN listed /\ listed.ok
  BY <1>4, UpdateOk
<1> HIDE DEF listed
<1>6. AddEvent(listed, t, "GROUP_CHANGE").ok
  BY <1>5 DEF AddEvent
<1> QED BY <1>1, <1>4, <1>6

\* A record of WELSPECS.
LEMMA WelspecsTidy ==
  ASSUME NEW S, NEW t \in Steps, S.ok, Good(S, t), \A u \in Steps : Tidy(S, u),
         NEW w \in WellNames, NEW g \in Groups,
         g \in GroupsAt(S, t) \/ S.groups[Field][t].wells = {},
         g \in GroupsAt(S, t) => S.groups[g][t].groups = {}
  PROVE  LET known == EnsureGroup(S, g, t)
             R == AddWellToGroup(AddWell(known, w, g, t), g, w, t)
         IN known.ok /\ R.ok /\ \A u \in Steps : Tidy(R, u)
<1> DEFINE known == EnsureGroup(S, g, t)
           T == AddWell(known, w, g, t)
           R == AddWellToGroup(T, g, w, t)
<1>1. /\ known.ok /\ Good(known, t) /\ g \in GroupsAt(known, t)
      /\ Ensured(S, known, t, g) /\ \A u \in Steps : Tidy(known, u)
  BY EnsureTidy
<1> HIDE DEF known
<1>2. known.groups[g][t].groups = {}
  BY <1>1 DEF Ensured, Grown
<1>3. Open(known, t) /\ Links(known, t)
  BY <1>1 DEF Good, Open
<1>4. /\ Extends(known, T, t) /\ T.groups = known.groups /\ T.ok = known.ok
      /\ T.wells[w][t] \in GroupsAt(known, t)
      /\ T.wells[w][t] = g \/ w \in T.groups[T.wells[w][t]][t].wells
  <2>1. CASE w \in WellsAt(known, t)
    <3>1. T = known
      BY <1>1, <2>1, Present DEF AddWell
    <3>2. known.wells[w][t] \in GroupsAt(known, t)
      BY <1>3, <2>1 DEF Links
    <3>3. w \in known.groups[known.wells[w][t]][t].wells
      BY <1>3, <2>1, <3>2 DEF Links
    <3> HIDE DEF T
    <3> QED BY <1>3, <3>1, <3>2, <3>3, Itself
  <2>2. CASE w \notin WellsAt(known, t)
    <3>1. T = UpdateWell(known, t, w, g)
      BY <1>1, <2>2, Present DEF AddWell
    <3> HIDE DEF T
    <3>2. /\ Extends(known, T, t) /\ T.groups = known.groups /\ T.ok = known.ok
          /\ T.wells[w][t] = g
      BY <1>3, <3>1, UpdateWellFacts
    <3> QED BY <1>1, <3>2
  <2> QED BY <2>1, <2>2
<1> HIDE DEF T
<1>5. Open(T, t) /\ GroupsAt(T, t) = GroupsAt(known, t)
  BY <1>4, ExtendsOpen DEF GroupsAt
<1>6. "ok" \in DOMAIN T /\ "groups" \in DOMAIN T
  BY <1>5 DEF Open, Schedule
<1>7. R.ok
  BY <1>1, <1>4, <1>6, AddWellToGroupOk
<1>8. /\ Extends(T, R, t) /\ GroupsAt(R, t) = GroupsAt(known, t)
      /\ \A h \in GroupsAt(known, t) : Rehung(T, R, t, g, w, h)
  BY <1>1, <1>4, <1>5, <1>7, AddWellToGroupFacts
<1> HIDE DEF R
<1>9. Extends(known, R, t)
  BY <1>4, <1>8, Transitive
<1>10. \A h \in GroupsAt(known, t) :
         /\ R.groups[h][t].parent = known.groups[h][t].parent
         /\ R.groups[h][t].groups = known.groups[h][t].groups
         /\ h # g => R.groups[h][t].wells \subseteq known.groups[h][t].wells
  <2> TAKE h \in GroupsAt(known, t)
  <2>1. Rehung(T, R, t, g, w, h) /\ T.groups[h][t] = known.groups[h][t]
    BY <1>4, <1>8
  <2> QED BY <2>1 DEF Rehung
<1>11. Hanging(R, t)
  BY <1>1, <1>8, <1>10 DEF Tidy, Hanging
<1>12. ASSUME NEW h \in GroupsAt(known, t)
       PROVE  /\ R.groups[h][t].groups = {} \/ R.groups[h][t].wells = {}
              /\ R.groups[h][t].parent = Null <=> h = Field
  <2>1. /\ known.groups[h][t].groups = {} \/ known.groups[h][t].wells = {}
        /\ known.groups[h][t].parent = Null <=> h = Field
    BY <1>1 DEF Tidy
  <2>2. CASE h = g
    BY <1>2, <1>10, <2>1, <2>2
  <2>3. CASE h # g
    BY <1>10, <2>1, <2>3
  <2> QED BY <2>2, <2>3
<1>13. Tidy(R, t)
  BY <1>8, <1>11, <1>12 DEF Tidy
<1>14. \A u \in Steps : Tidy(R, u)
  BY <1>1, <1>9, <1>13, TidyAfter
<1> QED BY <1>1, <1>7, <1>14 DEF known, T, R

\* A group that moves to a parent which is not below it: X is what is below.
LEMMA MovedTidy ==
  ASSUME NEW S, NEW t \in Steps, S.ok, Good(S, t), \A u \in Steps : Tidy(S, u),
         NEW p \in GroupsAt(S, t), NEW c \in GroupsAt(S, t), c # Field,
         S.groups[p][t].wells = {},
         NEW X \in SUBSET Groups, c \in X, p \notin X,
         \A q \in X \cap GroupsAt(S, t) : S.groups[q][t].groups \subseteq X
  PROVE  LET R == AddGroupToGroup(S, p, c, t)
         IN R.ok /\ \A u \in Steps : Tidy(R, u)
<1> DEFINE R == AddGroupToGroup(S, p, c, t)
           old == S.groups[c][t].parent
<1>1. Open(S, t) /\ S \in Schedule /\ Links(S, t) /\ Tidy(S, t) /\ GroupsAt(S, t) \subseteq Groups
  BY DEF Good, Open, GroupsAt
<1>2. old \in GroupsAt(S, t) /\ c \in S.groups[old][t].groups
  <2>1. old # Null /\ old \in GroupsAt(S, t) \cup {Null}
    BY <1>1 DEF Tidy, Links
  <2> HIDE DEF old
  <2>2. old \in GroupsAt(S, t)
    BY <2>1
  <2>3. S.groups[old][t].groups = {h \in GroupsAt(S, t) : S.groups[h][t].parent = old}
    BY <1>1, <2>2 DEF Links
  <2> QED BY <2>2, <2>3 DEF old
<1>3. R.ok
  <2>1. old # Null /\ old \in Groups \cup {Null}
    BY <1>1, <1>2, NamesAssumption
  <2> QED BY <1>1, <1>2, <2>1, AddGroupToGroupOk
<1>4. /\ Extends(S, R, t) /\ GroupsAt(R, t) = GroupsAt(S, t)
      /\ \A h \in GroupsAt(S, t) : Moved(S, R, t, p, c, h)
  BY <1>1, <1>2, <1>3, AddGroupToGroupFacts
<1> HIDE DEF R
<1>5. \A h \in GroupsAt(S, t) : S.groups[h][t].groups \subseteq R.groups[h][t].groups \cup {c}
  BY <1>4 DEF Moved
<1>6. c \in R.groups[p][t].groups
  BY <1>4 DEF Moved
<1>7. Hanging(R, t)
  <2> SUFFICES ASSUME NEW Y \in SUBSET Groups, Field \in Y,
                      \A q \in Y \cap GroupsAt(S, t) : R.groups[q][t].groups \subseteq Y
               PROVE  GroupsAt(S, t) \subseteq Y
    BY <1>4 DEF Hanging
  <2>1. \A q \in (X \cup Y) \cap GroupsAt(S, t) : S.groups[q][t].groups \subseteq X \cup Y
    BY <1>5
  <2>2. GroupsAt(S, t) \subseteq X \cup Y
    BY <1>1, <2>1 DEF Tidy, Hanging
  <2>3. c \in Y
    BY <1>6, <2>2
  <2>4. \A q \in Y \cap GroupsAt(S, t) : S.groups[q][t].groups \subseteq Y
    BY <1>5, <2>3
  <2> QED BY <1>1, <2>4 DEF Tidy, Hanging
<1>8. ASSUME NEW h \in GroupsAt(S, t)
      PROVE  /\ R.groups[h][t].groups = {} \/ R.groups[h][t].wells = {}
             /\ R.groups[h][t].parent = Null <=> h = Field
  <2>1. /\ S.groups[h][t].groups = {} \/ S.groups[h][t].wells = {}
        /\ S.groups[h][t].parent = Null <=> h = Field
    BY <1>1 DEF Tidy
  <2>2. /\ R.groups[h][t].wells = S.groups[h][t].wells
        /\ R.groups[h][t].parent = IF h = c THEN p ELSE S.groups[h][t].parent
        /\ h # p => R.groups[h][t].groups \subseteq S.groups[h][t].groups
    BY <1>4 DEF Moved
  <2>3. p # Null
    BY <1>1, NamesAssumption
  <2>4. R.groups[h][t].groups = {} \/ R.groups[h][t].wells = {}
    BY <2>1, <2>2
  <2>5. R.groups[h][t].parent = Null <=> h = Field
    BY <2>1, <2>2, <2>3
  <2> QED BY <2>4, <2>5
<1>9. Tidy(R, t)
  BY <1>4, <1>7, <1>8 DEF Tidy
<1>10. \A u \in Steps : Tidy(R, u)
  BY <1>4, <1>9, TidyAfter
<1> QED BY <1>3, <1>10 DEF R

\* A record of GRUPTREE.
LEMMA GruptreeTidy ==
  ASSUME NEW S, NEW t \in Steps, S.ok, Good(S, t), \A u \in Steps : Tidy(S, u),
         NEW c \in Groups, NEW p \in Groups, c # p, c # Field,
         {c, p} \subseteq GroupsAt(S, t) \/ S.groups[Field][t].wells = {},
         p \in GroupsAt(S, t) => S.groups[p][t].wells = {},
         p \notin Below(S, c, t)
  PROVE  LET known == EnsureGroup(EnsureGroup(S, c, t), p, t)
             R == AddGroupToGroup(known, p, c, t)
         IN known.ok /\ R.ok /\ \A u \in Steps : Tidy(R, u)
<1> DEFINE first == EnsureGroup(S, c, t)
           known == EnsureGroup(first, p, t)
<1>1. /\ first.ok /\ Good(first, t) /\ c \in GroupsAt(first, t)
      /\ Ensured(S, first, t, c) /\ \A u \in Steps : Tidy(first, u)
  BY EnsureTidy
<1>2. Links(S, t) /\ Field \in GroupsAt(S, t) /\ GroupsAt(S, t) \subseteq Groups
  BY DEF Good, Links, GroupsAt
<1> HIDE DEF first
<1>3. p \in GroupsAt(first, t) \/ first.groups[Field][t].wells = {}
  BY <1>1, <1>2 DEF Ensured, Grown
<1>4. /\ known.ok /\ Good(known, t) /\ p \in GroupsAt(known, t)
      /\ Ensured(first, known, t, p) /\ \A u \in Steps : Tidy(known, u)
  BY <1>1, <1>3, EnsureTidy
<1> HIDE DEF known
<1>5. c \in GroupsAt(known, t)
  BY <1>1, <1>4 DEF Ensured, Grown
<1>6. known.groups[p][t].wells = {}
  <2>1. CASE p \in GroupsAt(S, t)
    <3>1. first.groups[p][t].wells = {} /\ p \in GroupsAt(first, t)
      BY <1>1, <2>1 DEF Ensured, Grown
    <3> QED BY <1>4, <3>1 DEF Ensured
  <2>2. CASE p \notin GroupsAt(S, t)
    <3>1. p \notin GroupsAt(first, t)
      BY <1>1, <2>2 DEF Ensured, Grown
    <3> QED BY <1>4, <3>1 DEF Ensured, Grown
  <2> QED BY <2>1, <2>2
<1>7. PICK X \in SUBSET Groups :
        /\ c \in X /\ p \notin X
        /\ \A q \in X \cap GroupsAt(known, t) : known.groups[q][t].groups \subseteq X
  <2>1. CASE c \notin GroupsAt(S, t)
    <3>1. first.groups[c][t].groups = {}
      BY <1>1, <2>1 DEF Ensured, Grown
    <3>2. known.groups[c][t].groups = {}
      BY <1>1, <1>4, <3>1 DEF Ensured, Grown
    <3>3. {c} \in SUBSET Groups /\ c \in {c} /\ p \notin {c}
      OBVIOUS
    <3>4. \A q \in {c} \cap GroupsAt(known, t) : known.groups[q][t].groups \subseteq {c}
      BY <3>2
    <3> QED BY <3>3, <3>4
  <2>2. CASE c \in GroupsAt(S, t) /\ p \notin GroupsAt(S, t)
    <3> DEFINE Y == Groups \ {Field, p}
    <3>1. first = S /\ Grown(S, known, t, p)
      BY <1>1, <1>4, <2>2 DEF Ensured
    <3>2. ASSUME NEW q \in Y \cap GroupsAt(known, t)
          PROVE  known.groups[q][t].groups \subseteq Y
      <4>1. q \in GroupsAt(S, t) /\ known.groups[q][t].groups = S.groups[q][t].groups
        BY <3>1 DEF Grown
      <4>2. S.groups[q][t].groups = {h \in GroupsAt(S, t) : S.groups[h][t].parent = q}
        BY <1>2, <4>1 DEF Links
      <4>3. S.groups[Field][t].parent # q
        BY <1>2, NamesAssumption DEF Tidy
      <4> QED BY <1>2, <2>2, <4>1, <4>2, <4>3
    <3>3. Y \in SUBSET Groups /\ c \in Y /\ p \notin Y
      OBVIOUS
    <3> HIDE DEF Y
    <3> QED BY <3>2, <3>3
  <2>3. CASE c \in GroupsAt(S, t) /\ p \in GroupsAt(S, t)
    <3>1. known = S
      BY <1>1, <1>4, <2>3 DEF Ensured
    <3> QED BY <3>1 DEF Below
  <2> QED BY <2>1, <2>2, <2>3
<1>8. /\ AddGroupToGroup(known, p, c, t).ok
      /\ \A u \in Steps : Tidy(AddGroupToGroup(known, p, c, t), u)
  BY <1>4, <1>5, <1>6, <1>7, MovedTidy
<1> QED BY <1>4, <1>8 DEF known, first

\* At the start there is FIELD alone.
LEMMA InitClean == Init => CleanInv
<1> SUFFICES ASSUME Init PROVE CleanInv
  OBVIOUS
<1> DEFINE root == [parent |-> Null, groups |-> {}, wells |-> {}]
<1>1. Inv /\ sched.ok /\ Field \in Groups
  BY InitInv DEF Init, Groups
<1>2. \A u \in Steps : sched.groups[Field][u] = root
  BY <1>1 DEF Init, Filled, Steps
<1>3. \A u \in Steps : GroupsAt(sched, u) = {Field}
  <2>1. \A g \in Groups, u \in Steps : g # Field => sched.groups[g][u] = Null
    BY DEF Init, Filled, Steps
  <2>2. \A u \in Steps : Links(sched, u)
    BY <1>1 DEF Inv, Good
  <2> QED BY <2>1, <2>2 DEF GroupsAt, Links
<1>4. ASSUME NEW u \in Steps PROVE Tidy(sched, u)
  <2>1. /\ sched.groups[Field][u].parent = Null /\ sched.groups[Field][u].groups = {}
        /\ sched.groups[Field][u].wells = {}
    BY <1>2
  <2> QED BY <1>3, <2>1 DEF Tidy, Hanging
<1> QED BY <1>1, <1>4 DEF CleanInv

\* A name that the deck rules find room for is in use, or FIELD has room.
LEMMA RoomFacts ==
  ASSUME Inv, sched.ok, NEW names \in SUBSET Groups, RoomInField(names)
  PROVE  /\ names \subseteq GroupsAt(sched, step) \/ sched.groups[Field][step].wells = {}
         /\ \A g \in GroupsAt(sched, step) : NodeFor(g) = sched.groups[g][step]
<1>1. \A g \in Groups : HasGroup(sched, g) <=> g \in GroupsAt(sched, step)
  BY Present DEF Inv, TypeOK
<1>2. \A g \in GroupsAt(sched, step) : g \in Groups
  BY DEF GroupsAt
<1> QED BY <1>1, <1>2 DEF RoomInField, NodeFor

\* Every keyword leaves the tree of a clean deck tidy.
LEMMA NextClean == CleanInv /\ [Next]_vars => CleanInv'
<1> SUFFICES ASSUME CleanInv, [Next]_vars PROVE CleanInv'
  OBVIOUS
<1>1. Inv /\ Inv'
  BY NextInv DEF CleanInv
<1> SUFFICES ASSUME clean' PROVE sched'.ok /\ \A u \in Steps : Tidy(sched', u)
  BY <1>1 DEF CleanInv
<1>2. step \in Steps /\ (sched.ok => Good(sched, step))
  BY <1>1 DEF Inv, TypeOK
<1>3. ASSUME NEW w \in WellNames, NEW g \in Groups, Welspecs(w, g),
             clean' = (clean /\ CleanWelspecs(g))
      PROVE  sched'.ok /\ \A u \in Steps : Tidy(sched', u)
  <2> DEFINE known == EnsureGroup(sched, g, step)
             R == AddWellToGroup(AddWell(known, w, g, step), g, w, step)
  <2>1. /\ clean /\ RoomInField({g}) /\ NodeFor(g).groups = {} /\ sched.ok
        /\ sched' = IF known.ok THEN R ELSE known
    BY <1>3 DEF Welspecs, CleanWelspecs
  <2>2. \A u \in Steps : Tidy(sched, u)
    BY <2>1 DEF CleanInv
  <2>3. /\ g \in GroupsAt(sched, step) \/ sched.groups[Field][step].wells = {}
        /\ g \in GroupsAt(sched, step) => sched.groups[g][step].groups = {}
    BY <1>1, <2>1, RoomFacts
  <2>4. known.ok /\ R.ok /\ \A u \in Steps : Tidy(R, u)
    BY <1>2, <2>1, <2>2, <2>3, WelspecsTidy
  <2> HIDE DEF known, R
  <2> QED BY <2>1, <2>4
<1>4. ASSUME NEW c \in Groups, NEW p \in Groups, Gruptree(c, p),
             clean' = (clean /\ CleanGruptree(c, p))
      PROVE  sched'.ok /\ \A u \in Steps : Tidy(sched', u)
  <2> DEFINE known == EnsureGroup(EnsureGroup(sched, c, step), p, step)
             R == AddGroupToGroup(known, p, c, step)
  <2>1. /\ clean /\ RoomInField({c, p}) /\ NodeFor(p).wells = {} /\ sched.ok
        /\ c # p /\ c # Field /\ p \notin Below(sched, c, step)
        /\ sched' = IF known.ok THEN R ELSE known
    BY <1>4 DEF Gruptree, CleanGruptree
  <2>2. \A u \in Steps : Tidy(sched, u)
    BY <2>1 DEF CleanInv
  <2>3. /\ {c, p} \subseteq GroupsAt(sched, step) \/ sched.groups[Field][step].wells = {}
        /\ p \in GroupsAt(sched, step) => sched.groups[p][step].wells = {}
    BY <1>1, <2>1, RoomFacts
  <2>4. known.ok /\ R.ok /\ \A u \in Steps : Tidy(R, u)
    BY <1>2, <2>1, <2>2, <2>3, GruptreeTidy
  <2> HIDE DEF known, R
  <2> QED BY <2>1, <2>4
<1>5. ASSUME NEW g \in Groups, Grupnet(g), clean' = (clean /\ RoomInField({g}))
      PROVE  sched'.ok /\ \A u \in Steps : Tidy(sched', u)
  <2>1. clean /\ RoomInField({g}) /\ sched.ok /\ sched' = EnsureGroup(sched, g, step)
    BY <1>5 DEF Grupnet
  <2>2. \A u \in Steps : Tidy(sched, u)
    BY <2>1 DEF CleanInv
  <2>3. g \in GroupsAt(sched, step) \/ sched.groups[Field][step].wells = {}
    BY <1>1, <2>1, RoomFacts
  <2> QED BY <1>2, <2>1, <2>2, <2>3, EnsureTidy
<1>6. CASE sched' = sched /\ clean' = clean
  BY <1>6 DEF CleanInv
<1> QED BY <1>3, <1>4, <1>5, <1>6 DEF Next, EndReportStep, vars

\* What is below FIELD in a tree that hangs together, and the wells there.
LEMMA TidyCollects ==
  ASSUME NEW S, NEW t, Links(S, t), Tidy(S, t)
  PROVE  /\ GroupsAt(S, t) = Below(S, Field, t)
         /\ ChildWells(S, Field, t) = WellsAt(S, t)
<1>1. Field \in GroupsAt(S, t) /\ GroupsAt(S, t) \subseteq Groups
  BY DEF Links, GroupsAt
<1>2. \A g \in GroupsAt(S, t) : S.groups[g][t].groups \subseteq GroupsAt(S, t)
  BY DEF Links
<1>3. Below(S, Field, t) \subseteq GroupsAt(S, t)
  BY <1>1, <1>2 DEF Below
<1>4. GroupsAt(S, t) \subseteq Below(S, Field, t)
  BY <1>1 DEF Below, Tidy, Hanging
<1>5. ChildWells(S, Field, t) =
        UNION {S.groups[h][t].wells : h \in {k \in GroupsAt(S, t) : S.groups[k][t].groups = {}}}
  BY <1>3, <1>4 DEF ChildWells
<1>6. ASSUME NEW w \in WellsAt(S, t)
      PROVE  \E h \in GroupsAt(S, t) : S.groups[h][t].groups = {} /\ w \in S.groups[h][t].wells
  <2> DEFINE g == S.wells[w][t]
  <2>1. g \in GroupsAt(S, t)
    BY DEF Links
  <2>2. w \in S.groups[g][t].wells
    BY <2>1 DEF Links
  <2>3. S.groups[g][t].groups = {}
    BY <2>1, <2>2 DEF Tidy
  <2> QED BY <2>1, <2>2, <2>3
<1>7. \A h \in GroupsAt(S, t) : S.groups[h][t].wells \subseteq WellsAt(S, t)
  BY DEF Links
<1> QED BY <1>3, <1>4, <1>5, <1>6, <1>7

\* While Eclipse accepts the deck, no Group throws, whatever the order of the
\* keywords, and FIELD collects every group and every well of every step.
THEOREM FieldCollects == Spec => []FieldCollectsEverything
<1>1. CleanInv => FieldCollectsEverything
  BY TidyCollects DEF CleanInv, Inv, Good, FieldCollectsEverything
<1> QED BY <1>1, InitClean, NextClean, PTL DEF Spec
=============================================================================
