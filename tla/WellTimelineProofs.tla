------------------------- MODULE WellTimelineProofs -------------------------
(***************************************************************************)
(* Proofs about WellTimeline, for every number of report steps, every set  *)
(* of cells and every bound on allocations.                                *)
(*                                                                         *)
(* The handlers are built from a few functions on schedules, so the proofs *)
(* are too: one lemma for each function, which says that it keeps a        *)
(* schedule Good and where it leaves the well as it was; the step lemmas   *)
(* then only put them together.                                            *)
(***************************************************************************)
EXTENDS WellTimeline, TLAPS

\* Addresses in use are below the allocation counter.
IdsInUse(S) ==
  \A t \in Steps : Defined(S, t) => S.well[t].id <= S.ids /\ S.well[t].status <= S.ids

Good(S) == S \in Schedule /\ IdsInUse(S) /\ RangeExact(S)

\* S and S2 show the same well before step t.
SamePast(S, S2, t) == \A u \in Steps : u < t => View(S2, u) = View(S, u)

\* What a function called at step t of the section may do to a schedule.
ParseStep(S, S2, t, n) ==
  /\ Good(S2)
  /\ Uniform(S2, t)
  /\ S2.ids <= S.ids + n
  /\ Defined(S2, t) <=> Defined(S, t)
  /\ SamePast(S, S2, t)

\* S2 has the WellStatus objects of S where S has them.
SameStatuses(S, S2) ==
  \A u \in Steps :
    Defined(S, u) => Defined(S2, u) /\ S2.well[u].status = S.well[u].status

\* What a function called at report step t of the simulation may do.
RunStep(S, S2, t) ==
  /\ Good(S2)
  /\ S2.ids <= S.ids + 1
  /\ SameStatuses(S, S2)
  /\ \A u \in Steps :
       ~(Defined(S, u) /\ S.well[u].status = S.well[t].status) => View(S2, u) = View(S, u)

-----------------------------------------------------------------------------
\* Copies of a Well object with other addresses or connections.
LEMMA WellCopy ==
  ASSUME NEW w \in Well, NEW k \in Ids
  PROVE  /\ [w EXCEPT !.id = k] \in Well
         /\ [w EXCEPT !.id = k].id = k
         /\ [w EXCEPT !.id = k].status = w.status
         /\ [w EXCEPT !.id = k].conns = w.conns
         /\ [w EXCEPT !.id = k].efficiency = w.efficiency
         /\ [w EXCEPT !.status = k] \in Well
         /\ [w EXCEPT !.status = k].id = w.id
         /\ [w EXCEPT !.status = k].status = k
         /\ [w EXCEPT !.status = k].conns = w.conns
BY DEF Well

LEMMA WellCopyConns ==
  ASSUME NEW w \in Well, NEW conns \in Connections
  PROVE  /\ [w EXCEPT !.conns = conns] \in Well
         /\ [w EXCEPT !.conns = conns].id = w.id
         /\ [w EXCEPT !.conns = conns].status = w.status
BY DEF Well

LEMMA WellNotNull == \A w \in Well : w # Null
BY NullAssumption

\* Publishing a copy that keeps its WellStatus leaves every status as it was.
LEMMA UpdateWellGood ==
  ASSUME NEW S, Good(S), NEW t \in Steps, Defined(S, t), S.ids + 1 <= MaxObjects,
         NEW w \in Well, w.status = S.well[t].status
  PROVE  LET S2 == UpdateWell(S, t, w)
         IN /\ Good(S2)
            /\ S2.ids = S.ids + 1
            /\ S2.statuses = S.statuses
            /\ \A u \in Steps : Defined(S2, u) <=> Defined(S, u)
            /\ \A u \in Steps : Defined(S, u) => S2.well[u].status = S.well[u].status
            /\ \A u \in Steps : u < t => S2.well[u] = S.well[u]
            /\ \A u \in Steps : S.well[u] # S.well[t] => S2.well[u] = S.well[u]
            /\ Uniform(S, t) => Uniform(S2, t)
<1> DEFINE w2 == [w EXCEPT !.id = S.ids + 1]
           S2 == UpdateWell(S, t, w)
<1>1. S \in Schedule /\ DOMAIN S.well = Steps /\ S.ids \in 0 .. MaxObjects
  BY DEF Good, Schedule
<1>2. S.ids + 1 \in Ids
  BY <1>1, MaxObjectsAssumption DEF Ids
<1>3. w2 \in Well /\ w2.status = w.status /\ w2.id = S.ids + 1 /\ w2 # Null
  BY <1>2, WellCopy, WellNotNull
<1>4. S2.well = UpdateEqual(S.well, t, w2) /\ S2.statuses = S.statuses
      /\ S2.ids = S.ids + 1 /\ S2.events = S.events
  BY <1>1 DEF UpdateWell, Schedule
<1>5. \A u \in Steps : S2.well[u] = IF u \in EqualRun(S.well, t) THEN w2 ELSE S.well[u]
  BY <1>1, <1>4 DEF UpdateEqual
<1>6. \A u \in EqualRun(S.well, t) : u \in Steps /\ u >= t /\ S.well[u] = S.well[t]
  BY <1>1 DEF EqualRun, Steps
<1>7. S2 \in Schedule
  <2>1. S2.well \in [Steps -> Well \cup {Null}]
    BY <1>1, <1>3, <1>4 DEF UpdateEqual, Schedule
  <2>2. S2 = [S EXCEPT !.ids = S.ids + 1, !.well = UpdateEqual(S.well, t, w2)]
    BY DEF UpdateWell
  <2>3. UpdateEqual(S.well, t, w2) \in [Steps -> Well \cup {Null}]
    BY <1>4, <2>1
  <2>4. S.ids + 1 \in 0 .. MaxObjects
    BY <1>1
  <2> HIDE DEF S2, w2
  <2> QED BY <1>1, <2>2, <2>3, <2>4 DEF Schedule
<1>8. \A u \in Steps : Defined(S2, u) <=> Defined(S, u)
  BY <1>3, <1>5, <1>6 DEF Defined
<1>9. \A u \in Steps : Defined(S, u) => S2.well[u].status = S.well[u].status
  BY <1>3, <1>5, <1>6
<1>10. IdsInUse(S2)
  <2> SUFFICES ASSUME NEW u \in Steps, Defined(S2, u)
               PROVE  S2.well[u].id <= S2.ids /\ S2.well[u].status <= S2.ids
    BY DEF IdsInUse
  <2>1. Defined(S, u) /\ S.well[u].id <= S.ids /\ S.well[u].status <= S.ids
    BY <1>8 DEF Good, IdsInUse
  <2>2. S.well[u] \in Well
    BY <1>1, <2>1 DEF Schedule, Defined
  <2>3. S.well[u].id \in Nat /\ S.well[u].status \in Nat
    BY <2>2 DEF Well, Ids
  <2>4. S2.well[u] = S.well[u] \/ S2.well[u] = w2
    BY <1>4, <1>5, <1>9, <2>1 DEF UpdateEqual
  <2>5. w2.status <= S.ids
    BY <1>1, <1>3 DEF Good, IdsInUse
  <2> HIDE DEF S2, w2
  <2>6. CASE S2.well[u] = S.well[u]
    BY <1>1, <1>4, <2>1, <2>3, <2>6
  <2>7. CASE S2.well[u] = w2
    <3>1. S2.ids = S.ids + 1 /\ S.ids \in Nat /\ S2.well[u].id = S.ids + 1
      BY <1>1, <1>3, <1>4, <2>7
    <3>2. S2.well[u].status <= S.ids /\ S2.well[u].status \in Nat
      BY <1>3, <2>5, <2>7 DEF Well, Ids
    <3> QED BY <3>1, <3>2
  <2> QED BY <2>4, <2>6, <2>7
<1>11. RangeExact(S2)
  BY <1>4, <1>8, <1>9 DEF Good, RangeExact, StatusOf
<1>12. \A u \in Steps : u < t \/ S.well[u] # S.well[t] => S2.well[u] = S.well[u]
  BY <1>5, <1>6 DEF Steps
<1>13. ASSUME Uniform(S, t) PROVE Uniform(S2, t)
  <2>1. \A u \in Steps : u >= t => u \in EqualRun(S.well, t)
    BY <1>1, <1>13, NStepsAssumption DEF EqualRun, Uniform, Steps
  <2> QED BY <1>5, <2>1 DEF Uniform, Steps
<1> QED BY <1>4, <1>7, <1>8, <1>9, <1>10, <1>11, <1>12, <1>13 DEF Good

\* An event changes nothing but the events.
LEMMA AddEventGood ==
  ASSUME NEW S, Good(S), NEW t \in Steps, NEW e \in Event
  PROVE  LET S2 == AddEvent(S, t, e)
         IN /\ Good(S2)
            /\ S2.ids = S.ids /\ S2.statuses = S.statuses /\ S2.well = S.well
<1> DEFINE S2 == AddEvent(S, t, e)
<1>1. S \in Schedule
  BY DEF Good
<1>2. S2.ids = S.ids /\ S2.statuses = S.statuses /\ S2.well = S.well
  BY <1>1 DEF AddEvent, Schedule
<1>3. S2 \in Schedule
  BY <1>1 DEF AddEvent, Schedule
<1>4. IdsInUse(S2) /\ RangeExact(S2)
  BY <1>2 DEF Good, IdsInUse, RangeExact, Defined, StatusOf
<1> QED BY <1>2, <1>3, <1>4 DEF Good

\* Writing a state into a WellStatus leaves its range, and the wells, alone.
LEMMA StateWriteGood ==
  ASSUME NEW S, Good(S), NEW i \in Ids, NEW st \in Status
  PROVE  LET S2 == [S EXCEPT !.statuses[i].status = st]
         IN /\ Good(S2)
            /\ S2.ids = S.ids /\ S2.well = S.well /\ S2.events = S.events
            /\ \A j \in Ids : /\ S2.statuses[j].first = S.statuses[j].first
                              /\ S2.statuses[j].last = S.statuses[j].last
                              /\ j # i => S2.statuses[j] = S.statuses[j]
<1> DEFINE S2 == [S EXCEPT !.statuses[i].status = st]
<1>1. S \in Schedule
  BY DEF Good
<1>2. S2.ids = S.ids /\ S2.well = S.well /\ S2.events = S.events
      /\ S2.statuses = [S.statuses EXCEPT ![i].status = st]
  BY <1>1 DEF Schedule
<1>3. S2.statuses \in [Ids -> WellStatus]
  BY <1>1, <1>2 DEF Schedule, WellStatus
<1>4. S2 \in Schedule
  BY <1>1, <1>2, <1>3 DEF Schedule
<1>5. \A j \in Ids : /\ S2.statuses[j].first = S.statuses[j].first
                     /\ S2.statuses[j].last = S.statuses[j].last
                     /\ j # i => S2.statuses[j] = S.statuses[j]
  BY <1>1, <1>2 DEF Schedule, WellStatus
<1>6. IdsInUse(S2)
  BY <1>2 DEF Good, IdsInUse, Defined
<1>7. RangeExact(S2)
  <2>1. \A t \in Steps : Defined(S, t) => S.well[t].status \in Ids
    BY <1>1 DEF Schedule, Well, Defined
  <2>2. \A t \in Steps : /\ Defined(S2, t) <=> Defined(S, t)
                         /\ S2.well[t] = S.well[t]
    BY <1>2 DEF Defined
  <2>3. \A t \in Steps : Defined(S, t) =>
           /\ StatusOf(S2, t).first = StatusOf(S, t).first
           /\ StatusOf(S2, t).last = StatusOf(S, t).last
    BY <1>5, <2>1, <2>2 DEF StatusOf
  <2> QED BY <2>2, <2>3 DEF Good, RangeExact
<1> QED BY <1>2, <1>4, <1>5, <1>6, <1>7 DEF Good

\* At run time a status is written where it is shared: ranges stay, and who
\* points to another WellStatus sees nothing of it.
LEMMA RunTimeSetStatusGood ==
  ASSUME NEW S, Good(S), NEW t \in Steps, Defined(S, t), S.ids + 1 <= MaxObjects,
         NEW st \in Status
  PROVE  RunStep(S, SetStatus(S, t, TRUE, st), t)
<1> DEFINE i == S.well[t].status
           S1 == [S EXCEPT !.statuses[i].status = st]
           S2 == UpdateWell(S1, t, S.well[t])
<1>1. S.well[t] \in Well /\ i \in Ids /\ S.ids \in Nat
  BY DEF Good, Schedule, Well, Defined
<1>2. /\ Good(S1) /\ S1.ids = S.ids /\ S1.well = S.well
      /\ \A j \in Ids : j # i => S1.statuses[j] = S.statuses[j]
  BY <1>1, StateWriteGood
<1>3. Defined(S1, t) /\ S1.well[t].status = S.well[t].status
  BY <1>2 DEF Defined
<1>4. SetStatus(S, t, TRUE, st) = S2
  BY DEF SetStatus
<1> HIDE DEF S1
<1>5. /\ Good(S2) /\ S2.ids = S.ids + 1 /\ S2.statuses = S1.statuses
      /\ \A u \in Steps : Defined(S2, u) <=> Defined(S1, u)
      /\ \A u \in Steps : Defined(S1, u) => S2.well[u].status = S1.well[u].status
      /\ \A u \in Steps : S1.well[u] # S1.well[t] => S2.well[u] = S1.well[u]
  <2>1. S1.ids + 1 <= MaxObjects /\ S.well[t] \in Well
    BY <1>1, <1>2
  <2> QED BY <1>2, <1>3, <2>1, UpdateWellGood
<1>6. ASSUME NEW u \in Steps, ~(Defined(S, u) /\ S.well[u].status = i)
      PROVE  View(S2, u) = View(S, u)
  <2>1. Defined(S2, u) <=> Defined(S, u)
    BY <1>2, <1>5 DEF Defined
  <2>2. CASE ~Defined(S, u)
    BY <2>1, <2>2 DEF View
  <2>3. CASE Defined(S, u)
    <3>1. S.well[u].status # i /\ S.well[u].status \in Ids
      BY <1>6, <2>3 DEF Good, Schedule, Well, Defined
    <3>2. S2.well[u] = S.well[u]
      BY <1>2, <1>5, <3>1
    <3>3. S2.statuses[S2.well[u].status] = S.statuses[S.well[u].status]
      BY <1>2, <1>5, <3>1, <3>2
    <3> QED BY <2>1, <2>3, <3>2, <3>3 DEF View, StatusOf
  <2> QED BY <2>2, <2>3
<1>7. S2.ids <= S.ids + 1
  BY <1>1, <1>5
<1>8. SameStatuses(S, S2)
  BY <1>2, <1>5 DEF SameStatuses, Defined
<1> HIDE DEF S2
<1> QED BY <1>4, <1>5, <1>6, <1>7, <1>8 DEF RunStep

\* A new WellStatus from step t on, for a well nobody has written beyond t.
LEMMA NewStatusGood ==
  ASSUME NEW S, Good(S), NEW t \in Steps, Defined(S, t), Uniform(S, t),
         S.ids + 1 <= MaxObjects, NEW st \in Status
  PROVE  /\ ParseStep(S, SetStatus(S, t, FALSE, st), t, 1)
         /\ LET S2 == SetStatus(S, t, FALSE, st)
            IN /\ S2.well[t].conns = S.well[t].conns
               /\ StatusOf(S2, t).first = t /\ StatusOf(S2, t).last = NSteps
<1> DEFINE k == S.ids + 1
           i == S.well[t].status
           S1 == NewStatus(S, S.well[t], t, st)
           w == [S.well[t] EXCEPT !.status = k]
           w2 == [w EXCEPT !.id = S1.ids + 1]
           S2 == UpdateWell(S1, t, w)
<1>1. /\ S \in Schedule /\ DOMAIN S.well = Steps /\ S.ids \in Nat
      /\ S.well[t] \in Well /\ i \in Ids /\ k \in Ids /\ t \in 0 .. NSteps /\ NSteps \in Nat
      /\ i <= S.ids /\ S.well[t].id <= S.ids
  BY NStepsAssumption DEF Good, IdsInUse, Schedule, Well, Defined, Steps, Ids
<1>2. SetStatus(S, t, FALSE, st) = S2
  BY DEF SetStatus
<1>3. /\ S1.ids = S.ids /\ S1.well = S.well /\ S1.events = S.events
      /\ \A j \in Ids : S1.statuses[j] =
           IF j = k THEN [status |-> st, first |-> t, last |-> NSteps]
           ELSE IF j = i THEN [S.statuses[j] EXCEPT !.last = t]
           ELSE S.statuses[j]
      /\ S1.statuses \in [Ids -> WellStatus]
  BY <1>1 DEF NewStatus, Schedule, WellStatus
<1>4. w2 \in Well /\ w2.status = k /\ w2.id = k /\ w2 # Null /\ w2.conns = S.well[t].conns
  <2>1. /\ w \in Well /\ w.status = k /\ w.conns = S.well[t].conns
    BY <1>1, WellCopy
  <2>2. w2 = [w EXCEPT !.id = k]
    BY <1>3
  <2> HIDE DEF w, w2, k
  <2>3. w2 \in Well /\ w2.status = k /\ w2.id = k /\ w2.conns = w.conns
    BY <1>1, <2>1, <2>2, WellCopy
  <2> QED BY <2>1, <2>3, WellNotNull
<1>5. /\ S2.ids = k /\ S2.statuses = S1.statuses /\ S2.events = S.events
      /\ S2.well = UpdateEqual(S.well, t, w2)
  BY <1>1, <1>3 DEF UpdateWell, NewStatus, Schedule
<1>6. \A u \in Steps : S2.well[u] = IF u >= t THEN w2 ELSE S.well[u]
  <2>1. \A u \in Steps : u \in EqualRun(S.well, t) <=> u >= t
    BY <1>1 DEF EqualRun, Uniform, Steps
  <2> QED BY <1>1, <1>5, <2>1 DEF UpdateEqual
<1>7. S2 \in Schedule
  <2>1. S2.well \in [Steps -> Well \cup {Null}]
    BY <1>1, <1>4, <1>5 DEF UpdateEqual, Schedule
  <2>2. S2 = [S1 EXCEPT !.ids = S1.ids + 1, !.well = S2.well]
    BY DEF UpdateWell
  <2>3. S1.ids + 1 \in 0 .. MaxObjects
    BY <1>1, <1>3 DEF Ids
  <2>4. S1 \in Schedule
    BY <1>1, <1>3 DEF NewStatus, Schedule
  <2> HIDE DEF S1, S2
  <2> QED BY <2>1, <2>2, <2>3, <2>4 DEF Schedule
<1>8. \A u \in Steps : /\ Defined(S2, u) <=> Defined(S, u)
                       /\ u < t /\ Defined(S, u) =>
                            S.well[u].status \in Ids /\ S.well[u].status # k
  <2> SUFFICES ASSUME NEW u \in Steps
               PROVE  /\ Defined(S2, u) <=> Defined(S, u)
                      /\ u < t /\ Defined(S, u) =>
                            S.well[u].status \in Ids /\ S.well[u].status # k
    OBVIOUS
  <2>1. Defined(S2, u) <=> Defined(S, u)
    BY <1>1, <1>4, <1>6 DEF Defined, Uniform
  <2>2. ASSUME Defined(S, u) PROVE S.well[u].status \in Ids /\ S.well[u].status <= S.ids
    BY <1>1, <2>2 DEF Defined, Good, IdsInUse, Schedule, Well
  <2> HIDE DEF S2
  <2> QED BY <1>1, <2>1, <2>2 DEF Ids
<1>9. IdsInUse(S2)
  <2> SUFFICES ASSUME NEW u \in Steps, Defined(S2, u)
               PROVE  S2.well[u].id <= S2.ids /\ S2.well[u].status <= S2.ids
    BY DEF IdsInUse
  <2>1. Defined(S, u) /\ S.well[u].id <= S.ids /\ S.well[u].status <= S.ids
        /\ S.well[u] \in Well
    BY <1>1, <1>8 DEF Good, IdsInUse, Schedule, Defined
  <2> HIDE DEF S2, w2
  <2> QED BY <1>1, <1>4, <1>5, <1>6, <2>1 DEF Well, Ids
<1> HIDE DEF S1, S2, w2
<1>a. \A j \in Ids : /\ S2.statuses[j] \in WellStatus
                     /\ j = k => S2.statuses[j].first = t /\ S2.statuses[j].last = NSteps
                     /\ j = i => /\ S2.statuses[j].first = S.statuses[j].first
                                /\ S2.statuses[j].last = t
                     /\ j # k => S2.statuses[j].status = S.statuses[j].status
  <2>1. \A j \in Ids : S.statuses[j] \in WellStatus
    BY <1>1 DEF Schedule
  <2>2. i # k
    BY <1>1 DEF Ids
  <2>3. S2.statuses = S1.statuses /\ S1.statuses \in [Ids -> WellStatus]
    BY <1>3, <1>5
  <2> HIDE DEF k, i
  <2> TAKE j \in Ids
  <2>4. CASE j = k
    <3>1. S2.statuses[j] = [status |-> st, first |-> t, last |-> NSteps]
      BY <1>3, <2>3, <2>4
    <3>2. S2.statuses[j] \in WellStatus
      BY <2>3
    <3> QED BY <2>2, <2>4, <3>1, <3>2
  <2>5. CASE j = i
    <3>1. S2.statuses[j] = [S.statuses[j] EXCEPT !.last = t]
      BY <1>3, <2>2, <2>3, <2>5
    <3> QED BY <2>1, <2>2, <2>3, <2>5, <3>1 DEF WellStatus
  <2>6. CASE j # k /\ j # i
    BY <1>3, <2>3, <2>6
  <2> QED BY <2>4, <2>5, <2>6
<1>10. SamePast(S, S2, t)
  <2> SUFFICES ASSUME NEW u \in Steps, u < t PROVE View(S2, u) = View(S, u)
    BY DEF SamePast
  <2>1. S2.well[u] = S.well[u]
    BY <1>1, <1>6 DEF Steps
  <2>2. CASE ~Defined(S, u)
    BY <1>8, <2>2 DEF View
  <2>3. CASE Defined(S, u)
    <3>1. S2.statuses[S.well[u].status].status = S.statuses[S.well[u].status].status
      BY <1>8, <1>a, <2>3
    <3> QED BY <1>8, <2>1, <2>3, <3>1 DEF View, StatusOf
  <2> QED BY <2>2, <2>3
<1>11. RangeExact(S2)
  <2> SUFFICES ASSUME NEW u \in Steps, NEW v \in Steps, Defined(S2, u)
               PROVE  (StatusOf(S2, u).first <= v /\ v < StatusOf(S2, u).last)
                        <=> (Defined(S2, v) /\ S2.well[v].status = S2.well[u].status)
    BY DEF RangeExact
  <2>1. (StatusOf(S, u).first <= v /\ v < StatusOf(S, u).last)
           <=> (Defined(S, v) /\ S.well[v].status = S.well[u].status)
    BY <1>8 DEF Good, RangeExact
  <2>2. CASE u >= t
    <3>1. StatusOf(S2, u).first = t /\ StatusOf(S2, u).last = NSteps
      BY <1>1, <1>4, <1>6, <1>a, <2>2 DEF StatusOf
    <3>2. (Defined(S2, v) /\ S2.well[v].status = k) <=> v >= t
      BY <1>1, <1>4, <1>6, <1>8 DEF Steps, Defined
    <3> QED BY <1>1, <1>4, <1>6, <2>2, <3>1, <3>2 DEF Steps
  <2>3. CASE u < t
    <3>1. S2.well[u] = S.well[u] /\ S.well[u].status # k /\ S.well[u].status \in Ids
          /\ Defined(S, u)
      BY <1>1, <1>6, <1>8, <2>3 DEF Steps
    <3>2. CASE S.well[u].status = i
      <4>1. StatusOf(S2, u).first = StatusOf(S, u).first /\ StatusOf(S2, u).last = t
        BY <1>1, <1>a, <3>1, <3>2 DEF StatusOf
      <4>2. v < t => v < StatusOf(S, u).last
        <5>1. t < StatusOf(S, u).last
          BY <1>1, <3>1, <3>2 DEF Good, RangeExact, StatusOf
        <5> QED BY <1>1, <3>1, <5>1 DEF Steps, StatusOf, Schedule, WellStatus
      <4>3. v >= t => S2.well[v].status # S2.well[u].status
        BY <1>1, <1>4, <1>6, <3>1
      <4>4. v < t => S2.well[v] = S.well[v] /\ (Defined(S2, v) <=> Defined(S, v))
        BY <1>1, <1>6, <1>8 DEF Steps
      <4> QED BY <1>1, <2>1, <3>1, <4>1, <4>2, <4>3, <4>4 DEF Steps
    <3>3. CASE S.well[u].status # i
      <4>1. StatusOf(S2, u) = StatusOf(S, u)
        BY <1>3, <1>5, <3>1, <3>3 DEF StatusOf
      <4>2. v >= t => S.well[v] = S.well[t] /\ S2.well[v].status # S2.well[u].status
        BY <1>1, <1>4, <1>6, <3>1 DEF Uniform
      <4>3. v < t => S2.well[v] = S.well[v] /\ (Defined(S2, v) <=> Defined(S, v))
        BY <1>1, <1>6, <1>8 DEF Steps
      <4> QED BY <1>1, <2>1, <3>1, <3>3, <4>1, <4>2, <4>3 DEF Steps
    <3> QED BY <3>2, <3>3
  <2> QED BY <1>1, <2>2, <2>3 DEF Steps
<1>12. Uniform(S2, t)
  BY <1>1, <1>6 DEF Uniform, Steps
<1>13. S2.ids <= S.ids + 1
  BY <1>1, <1>5
<1>14. S2.well[t].conns = S.well[t].conns
  BY <1>1, <1>4, <1>6 DEF Steps
<1>15. StatusOf(S2, t).first = t /\ StatusOf(S2, t).last = NSteps
  BY <1>1, <1>4, <1>6, <1>a DEF StatusOf, Steps
<1> QED BY <1>2, <1>7, <1>8, <1>9, <1>10, <1>11, <1>12, <1>13, <1>14, <1>15 DEF ParseStep, Good

\* A function that leaves the wells and the statuses alone is a step.
LEMMA SameWellsStep ==
  ASSUME NEW S, Good(S), NEW S2, Good(S2), NEW t \in Steps, NEW n \in Nat,
         S2.well = S.well, S2.statuses = S.statuses, S2.ids = S.ids
  PROVE  /\ Uniform(S, t) => ParseStep(S, S2, t, n)
         /\ RunStep(S, S2, t)
<1>1. \A u \in Steps : (Defined(S2, u) <=> Defined(S, u)) /\ View(S2, u) = View(S, u)
  BY DEF Defined, View, StatusOf
<1>2. Uniform(S, t) => Uniform(S2, t)
  BY DEF Uniform
<1>3. S2.ids <= S.ids + n /\ S2.ids <= S.ids + 1
  BY DEF Good, Schedule
<1> QED BY <1>1, <1>2, <1>3 DEF ParseStep, RunStep, SamePast, SameStatuses

\* Functions called one after the other at the same step of the section.
LEMMA ParseStepsCompose ==
  ASSUME NEW S, NEW S1, NEW S2, NEW t \in Steps, NEW m \in Nat, NEW n \in Nat,
         Good(S), ParseStep(S, S1, t, m), ParseStep(S1, S2, t, n)
  PROVE  ParseStep(S, S2, t, m + n)
<1>1. S.ids \in Nat /\ S1.ids \in Nat /\ S2.ids \in Nat
  BY DEF ParseStep, Good, Schedule
<1>2. S2.ids <= S.ids + (m + n)
  BY <1>1 DEF ParseStep
<1>3. SamePast(S, S2, t)
  BY DEF ParseStep, SamePast
<1> QED BY <1>2, <1>3 DEF ParseStep

\* updateWell() at a step of the section, with a copy that keeps the status.
LEMMA UpdateWellStep ==
  ASSUME NEW S, Good(S), NEW t \in Steps, Defined(S, t), Uniform(S, t),
         S.ids + 1 <= MaxObjects,
         NEW w \in Well, w.status = S.well[t].status
  PROVE  ParseStep(S, UpdateWell(S, t, w), t, 1)
<1> DEFINE S2 == UpdateWell(S, t, w)
<1>1. /\ Good(S2) /\ S2.ids = S.ids + 1 /\ S2.statuses = S.statuses /\ Uniform(S2, t)
      /\ \A u \in Steps : Defined(S2, u) <=> Defined(S, u)
      /\ \A u \in Steps : u < t => S2.well[u] = S.well[u]
  BY UpdateWellGood
<1> HIDE DEF S2
<1>2. SamePast(S, S2, t)
  BY <1>1 DEF SamePast, View, StatusOf, Defined
<1>3. S2.ids <= S.ids + 1
  BY <1>1 DEF Good, Schedule
<1> QED BY <1>1, <1>2, <1>3 DEF ParseStep, S2

\* updateWellStatus() while the section is read.
LEMMA UpdateWellStatusParse ==
  ASSUME NEW S, Good(S), NEW t \in Steps, Defined(S, t), Uniform(S, t),
         S.ids + 1 <= MaxObjects, NEW st \in Status
  PROVE  ParseStep(S, UpdateWellStatus(S, t, FALSE, st), t, 1)
<1> DEFINE S1 == SetStatus(S, t, FALSE, st)
           S2 == AddEvent(S1, t, "WELL_STATUS_CHANGE")
<1>1. ParseStep(S, S, t, 1)
  BY SameWellsStep
<1>2. ParseStep(S, S1, t, 1)
  BY NewStatusGood
<1>3. ParseStep(S, S2, t, 1)
  <2> HIDE DEF S1
  <2>1. Good(S1) /\ Uniform(S1, t)
    BY <1>2 DEF ParseStep
  <2>2. Good(S2) /\ S2.ids = S1.ids /\ S2.statuses = S1.statuses /\ S2.well = S1.well
    BY <2>1, AddEventGood DEF Event
  <2> HIDE DEF S2
  <2>3. ParseStep(S1, S2, t, 0)
    BY <2>1, <2>2, SameWellsStep
  <2>4. ParseStep(S, S2, t, 1 + 0)
    BY <1>2, <2>3, ParseStepsCompose
  <2> QED BY <2>4
<1> QED BY <1>1, <1>2, <1>3 DEF UpdateWellStatus

\* updateWellStatus() in the simulation.
LEMMA UpdateWellStatusRun ==
  ASSUME NEW S, Good(S), NEW t \in Steps, Defined(S, t),
         S.ids + 1 <= MaxObjects, NEW st \in Status
  PROVE  RunStep(S, UpdateWellStatus(S, t, TRUE, st), t)
<1> DEFINE S1 == SetStatus(S, t, TRUE, st)
           S2 == AddEvent(S1, t, "WELL_STATUS_CHANGE")
<1>1. RunStep(S, S, t)
  BY SameWellsStep
<1>2. RunStep(S, S1, t)
  BY RunTimeSetStatusGood
<1>3. RunStep(S, S2, t)
  <2> HIDE DEF S1
  <2>1. Good(S2) /\ S2.ids = S1.ids /\ S2.statuses = S1.statuses /\ S2.well = S1.well
    BY <1>2, AddEventGood DEF Event, RunStep
  <2> HIDE DEF S2
  <2>2. \A u \in Steps : View(S2, u) = View(S1, u)
    BY <2>1 DEF View, Defined, StatusOf
  <2>3. SameStatuses(S, S2)
    BY <1>2, <2>1 DEF RunStep, SameStatuses, Defined
  <2> QED BY <1>2, <2>1, <2>2, <2>3 DEF RunStep
<1> QED BY <1>1, <1>2, <1>3 DEF UpdateWellStatus

\* The connections of a WELOPEN record reach the range of the WellStatus at t,
\* which are the steps that share it; when it starts at t that is the future.
LEMMA WelopenConnectionsGood ==
  ASSUME NEW S, Good(S), NEW t \in Steps, Defined(S, t), S.ids + 1 <= MaxObjects,
         NEW runtime \in BOOLEAN, NEW cells, NEW cs \in ConnState
  PROVE  LET S2 == WelopenConnections(S, t, runtime, cells, cs)
         IN /\ RunStep(S, S2, t)
            /\ /\ Uniform(S, t)
               /\ StatusOf(S, t).first = t
               /\ StatusOf(S, t).last = NSteps
               => ParseStep(S, S2, t, 1)
<1> DEFINE k == S.ids + 1
           i == S.well[t].status
           r == StatusOf(S, t)
           w == [WithConnState(S.well[t], cells, cs) EXCEPT !.id = S.ids + 1]
           st == IF runtime /\ AllConnectionsShut(w) THEN "SHUT" ELSE S.statuses[i].status
           S1 == [S EXCEPT !.statuses[i].status = st]
           S2 == WelopenConnections(S, t, runtime, cells, cs)
<1>1. /\ S \in Schedule /\ DOMAIN S.well = Steps /\ S.ids \in Nat
      /\ S.well[t] \in Well /\ i \in Ids /\ k \in Ids /\ NSteps \in Nat
      /\ r \in WellStatus
  <2>1. /\ S \in Schedule /\ DOMAIN S.well = Steps /\ S.ids \in 0 .. MaxObjects
        /\ S.well[t] \in Well
    BY DEF Good, Schedule, Defined
  <2>2. i \in Ids /\ S.ids \in Nat /\ k \in Ids /\ NSteps \in Nat
    BY <2>1, NStepsAssumption, MaxObjectsAssumption DEF Well, Ids
  <2>3. r \in WellStatus
    BY <2>1, <2>2 DEF StatusOf, Schedule
  <2> QED BY <2>1, <2>2, <2>3
<1>2. w \in Well /\ w.status = i /\ w.id = k /\ w # Null
  <2>1. [c \in Conns |-> IF c \in cells /\ S.well[t].conns[c] # "NONE"
                         THEN cs ELSE S.well[t].conns[c]] \in Connections
    BY <1>1 DEF Well, Connections
  <2> DEFINE v == WithConnState(S.well[t], cells, cs)
  <2>2. v \in Well /\ v.status = i
    BY <1>1, <2>1, WellCopyConns DEF WithConnState
  <2>3. w = [v EXCEPT !.id = k]
    OBVIOUS
  <2> HIDE DEF v, w, k, i
  <2>4. w \in Well /\ w.status = i /\ w.id = k
    BY <1>1, <2>2, <2>3, WellCopy
  <2> QED BY <2>4, WellNotNull
<1>3. CASE w.conns = S.well[t].conns
  <2>1. S2 = S
    BY <1>3 DEF WelopenConnections
  <2> QED BY <2>1, SameWellsStep
<1>4. CASE w.conns # S.well[t].conns
  <2>1. st \in Status
    BY <1>1 DEF Schedule, WellStatus, Status
  <2>2. /\ Good(S1) /\ S1.ids = S.ids /\ S1.well = S.well /\ S1.events = S.events
        /\ \A j \in Ids : /\ S1.statuses[j].first = S.statuses[j].first
                          /\ S1.statuses[j].last = S.statuses[j].last
                          /\ j # i => S1.statuses[j] = S.statuses[j]
    <3>1. i \in Ids
      BY <1>1
    <3> HIDE DEF st, i, r, w, k
    <3> QED BY <2>1, <3>1, StateWriteGood
  <2>3. S2 = [S1 EXCEPT !.ids = k, !.well = OverRange(S.well, r, w)]
    <3> DEFINE O == OverRange(S.well, r, w)
    <3>1. S2 = [S EXCEPT !.ids = k, !.well = O,
                         !.statuses[w.status].status =
                            IF runtime /\ AllConnectionsShut(w) THEN "SHUT" ELSE @]
      BY <1>4 DEF WelopenConnections
    <3> HIDE DEF O, w, S2, k
    <3>2. S2 = [S EXCEPT !.ids = k, !.well = O, !.statuses[i].status = st]
      BY <1>1, <1>2, <3>1 DEF Schedule, WellStatus
    <3> HIDE DEF st, i
    <3> QED BY <1>1, <3>2 DEF Schedule, O
  <2> HIDE DEF S1, S2, w
  <2>4. \A u \in Steps : OverRange(S.well, r, w)[u] =
            IF r.first <= u /\ u < r.last THEN w ELSE S.well[u]
    <3>1. CASE r.last = NSteps
      <4>1. r.first \in Steps /\ S.well[r.first] # w
        BY <1>1, <1>2 DEF Good, IdsInUse, Defined, WellStatus, Schedule
      <4>2. OverRange(S.well, r, w) = [u \in Steps |-> IF u >= r.first THEN w ELSE S.well[u]]
        BY <1>1, <3>1, <4>1 DEF OverRange, Update
      <4> QED BY <1>1, <3>1, <4>1, <4>2 DEF Steps
    <3>2. CASE r.last # NSteps
      BY <1>1, <3>2 DEF OverRange, UpdateRange, WellStatus, Steps
    <3> QED BY <3>1, <3>2
  <2>5. OverRange(S.well, r, w) \in [Steps -> Well \cup {Null}]
    <3>1. \A u \in Steps : S.well[u] \in Well \cup {Null}
      BY <1>1 DEF Schedule
    <3>2. CASE r.last = NSteps
      BY <1>1, <1>2, <3>1, <3>2 DEF OverRange, Update, Schedule
    <3>3. CASE r.last # NSteps
      BY <1>1, <1>2, <3>1, <3>3 DEF OverRange, UpdateRange
    <3> QED BY <3>2, <3>3
  <2>6. /\ S2.ids = k /\ S2.statuses = S1.statuses
        /\ S2.well = OverRange(S.well, r, w)
    BY <2>2, <2>3 DEF Good, Schedule
  <2>7. S2 \in Schedule
    <3>1. k \in 0 .. MaxObjects
      BY <1>1 DEF Ids
    <3> HIDE DEF k, r
    <3> QED BY <2>2, <2>3, <2>5, <3>1 DEF Good, Schedule
  <2>8. \A u \in Steps : S2.well[u] =
            IF Defined(S, u) /\ S.well[u].status = i THEN w ELSE S.well[u]
    <3>1. \A u \in Steps : (r.first <= u /\ u < r.last)
                             <=> (Defined(S, u) /\ S.well[u].status = i)
      BY DEF Good, RangeExact
    <3> QED BY <2>4, <2>6, <3>1
  <2>9. \A u \in Steps : /\ Defined(S2, u) <=> Defined(S, u)
                         /\ Defined(S, u) => /\ S2.well[u].status = S.well[u].status
                                             /\ S.well[u].status \in Ids
    BY <1>1, <1>2, <2>8 DEF Defined, Schedule, Well
  <2>10. IdsInUse(S2)
    <3> SUFFICES ASSUME NEW u \in Steps, Defined(S2, u)
                 PROVE  S2.well[u].id <= S2.ids /\ S2.well[u].status <= S2.ids
      BY DEF IdsInUse
    <3>1. /\ Defined(S, u) /\ S.well[u].id <= S.ids /\ S.well[u].status <= S.ids
          /\ S.well[u] \in Well
      BY <1>1, <2>9 DEF Good, IdsInUse, Schedule, Defined
    <3> QED BY <1>1, <1>2, <2>6, <2>8, <2>9, <3>1 DEF Well, Ids
  <2>11. RangeExact(S2)
    <3>1. \A u \in Steps : Defined(S, u) =>
             /\ StatusOf(S2, u).first = StatusOf(S, u).first
             /\ StatusOf(S2, u).last = StatusOf(S, u).last
      BY <2>2, <2>6, <2>9 DEF StatusOf
    <3> QED BY <2>9, <3>1 DEF Good, RangeExact
  <2>12. Good(S2)
    BY <2>7, <2>10, <2>11 DEF Good
  <2>13. ASSUME NEW u \in Steps, ~(Defined(S, u) /\ S.well[u].status = i)
         PROVE  View(S2, u) = View(S, u)
    <3>1. S2.well[u] = S.well[u]
      BY <2>8, <2>13
    <3>2. Defined(S, u) => StatusOf(S2, u) = StatusOf(S, u)
      <4> HIDE DEF S1, S2, i, w, r, st, k
      <4> QED BY <2>2, <2>6, <2>9, <2>13, <3>1 DEF StatusOf
    <3> HIDE DEF S2, i, w, r, st, k
    <3> QED BY <2>9, <3>1, <3>2 DEF View
  <2>14. RunStep(S, S2, t)
    <3>1. SameStatuses(S, S2)
      BY <2>9 DEF SameStatuses
    <3> QED BY <1>1, <2>6, <2>12, <2>13, <3>1 DEF RunStep
  <2>15. ASSUME Uniform(S, t), r.first = t, r.last = NSteps
         PROVE  ParseStep(S, S2, t, 1)
    <3>1. Uniform(S2, t)
      BY <1>1, <2>4, <2>6, <2>15 DEF Uniform, Steps
    <3>2. SamePast(S, S2, t)
      <4> SUFFICES ASSUME NEW u \in Steps, u < t PROVE View(S2, u) = View(S, u)
        BY DEF SamePast
      <4>1. ~(r.first <= u /\ u < r.last)
        BY <2>15 DEF Steps
      <4>2. ~(Defined(S, u) /\ S.well[u].status = i)
        BY <4>1 DEF Good, RangeExact
      <4> QED BY <2>13, <4>2
    <3> QED BY <1>1, <2>6, <2>9, <2>12, <3>1, <3>2 DEF ParseStep
  <2> HIDE DEF r
  <2> QED BY <2>14, <2>15 DEF r, S2
<1> HIDE DEF S2, w
<1> QED BY <1>3, <1>4 DEF S2

\* checkIfAllConnectionsIsShut()
LEMMA CheckGood ==
  ASSUME NEW S, Good(S), NEW t \in Steps, Uniform(S, t), S.ids + 1 <= MaxObjects
  PROVE  ParseStep(S, CheckIfAllConnectionsIsShut(S, t), t, 1)
<1>1. ParseStep(S, S, t, 1)
  BY SameWellsStep
<1>2. ASSUME Defined(S, t) PROVE ParseStep(S, UpdateWellStatus(S, t, FALSE, "SHUT"), t, 1)
  BY <1>2, UpdateWellStatusParse DEF Status
<1> QED BY <1>1, <1>2 DEF CheckIfAllConnectionsIsShut

-----------------------------------------------------------------------------
\* The inductive invariant: a Good schedule, uniform from the current step on
\* as long as the section is read.
Inv ==
  /\ TypeOK
  /\ Good(sched)
  /\ FutureIsUniform

\* What a keyword of the section does: it may create the well.
KeywordStep(S, S2, t) == Good(S2) /\ Uniform(S2, t) /\ SamePast(S, S2, t)

LEMMA ParseIsKeywordStep ==
  ASSUME NEW S, NEW S2, NEW t, NEW n, ParseStep(S, S2, t, n)
  PROVE  KeywordStep(S, S2, t)
BY DEF ParseStep, KeywordStep

LEMMA WelspecsStep ==
  ASSUME Inv, Welspecs
  PROVE  KeywordStep(sched, sched', step)
<1> DEFINE k == sched.ids + 1
           w == [id |-> k, status |-> k, conns |-> [c \in Conns |-> "NONE"],
                 efficiency |-> 1, canOpen |-> CrossFlow]
           S == [sched EXCEPT !.ids = k, !.well = Update(sched.well, step, w),
                              !.statuses[k] = [status |-> "SHUT", first |-> step, last |-> NSteps]]
<1>1. /\ sched \in Schedule /\ step \in Steps /\ k \in Ids /\ NSteps \in Nat
      /\ sched.ids \in Nat /\ sched.ids + 1 <= MaxObjects
      /\ \A t \in Steps : sched.well[t] = Null
      /\ sched' = AddEvent(S, step, "NEW_WELL")
  BY NStepsAssumption, MaxObjectsAssumption
     DEF Welspecs, Parsing, CanAllocate, Defined, Inv, TypeOK, Schedule, Ids
<1>2. w \in Well /\ w # Null /\ w.status = k /\ w.id = k
  BY <1>1, CrossFlowAssumption, EfficienciesAssumption, NullAssumption DEF Well, Connections
<1> HIDE DEF w
<1>3. \A t \in Steps : Update(sched.well, step, w)[t] = IF t >= step THEN w ELSE Null
  BY <1>1, <1>2 DEF Update, Schedule
<1>4. Update(sched.well, step, w) \in [Steps -> Well \cup {Null}]
  BY <1>1, <1>2 DEF Update, Schedule
<1>5. [status |-> "SHUT", first |-> step, last |-> NSteps] \in WellStatus
  BY <1>1 DEF WellStatus, Status
<1>6. /\ S \in Schedule /\ S.ids = k /\ S.well = Update(sched.well, step, w)
      /\ S.statuses[k] = [status |-> "SHUT", first |-> step, last |-> NSteps]
  <2>1. k \in 0 .. MaxObjects
    BY <1>1 DEF Ids
  <2> HIDE DEF k
  <2> QED BY <1>1, <1>4, <1>5, <2>1 DEF Schedule
<1> HIDE DEF S
<1>7. \A t \in Steps : Defined(S, t) <=> t >= step
  BY <1>2, <1>3, <1>6 DEF Defined
<1>8. IdsInUse(S)
  BY <1>1, <1>2, <1>3, <1>6, <1>7 DEF IdsInUse
<1>9. RangeExact(S)
  BY <1>1, <1>2, <1>3, <1>6, <1>7 DEF RangeExact, StatusOf, Steps
<1>10. Good(sched') /\ sched'.well = S.well /\ sched'.statuses = S.statuses
  BY <1>1, <1>6, <1>8, <1>9, AddEventGood DEF Good, Event
<1>11. Uniform(sched', step)
  BY <1>1, <1>3, <1>6, <1>10 DEF Uniform, Steps
<1>12. SamePast(sched, sched', step)
  BY <1>1, <1>3, <1>6, <1>10 DEF SamePast, View, Defined, Steps
<1> QED BY <1>10, <1>11, <1>12 DEF KeywordStep

LEMMA CompdatStep ==
  ASSUME Inv, NEW c \in Conns, NEW cs \in ConnControls, Compdat(c, cs)
  PROVE  KeywordStep(sched, sched', step)
<1> DEFINE w == [sched.well[step] EXCEPT !.conns[c] = cs]
           S == IF sched.well[step].conns[c] = cs THEN sched ELSE UpdateWell(sched, step, w)
<1>1. /\ Good(sched) /\ step \in Steps /\ Defined(sched, step) /\ Uniform(sched, step)
      /\ sched.ids + 1 <= MaxObjects /\ sched' = AddEvent(S, step, "COMPLETION_CHANGE")
  BY DEF Compdat, ParsingWell, Parsing, CanAllocate, Inv, TypeOK, FutureIsUniform
<1>2. w \in Well /\ w.status = sched.well[step].status
  BY <1>1, ControlsAssumption DEF Good, Schedule, Defined, Well, Connections
<1> HIDE DEF w
<1>3. ParseStep(sched, S, step, 1)
  <2>1. ParseStep(sched, sched, step, 1)
    BY <1>1, SameWellsStep
  <2>2. ParseStep(sched, UpdateWell(sched, step, w), step, 1)
    BY <1>1, <1>2, UpdateWellStep
  <2> QED BY <2>1, <2>2
<1> HIDE DEF S
<1>4. Good(S) /\ Uniform(S, step) /\ SamePast(sched, S, step)
  BY <1>3 DEF ParseStep
<1>5. Good(sched') /\ sched'.well = S.well /\ sched'.statuses = S.statuses
  BY <1>1, <1>4, AddEventGood DEF Event
<1> QED BY <1>4, <1>5 DEF KeywordStep, Uniform, SamePast, View, Defined, StatusOf

LEMMA WefacStep ==
  ASSUME Inv, NEW e \in Efficiencies, Wefac(e)
  PROVE  KeywordStep(sched, sched', step)
<1> DEFINE w == [sched.well[step] EXCEPT !.efficiency = e]
<1>1. /\ Good(sched) /\ step \in Steps /\ Defined(sched, step) /\ Uniform(sched, step)
      /\ sched.ids + 1 <= MaxObjects /\ sched' = UpdateWell(sched, step, w)
  BY DEF Wefac, ParsingWell, Parsing, CanAllocate, Inv, TypeOK, FutureIsUniform
<1>2. w \in Well /\ w.status = sched.well[step].status
  BY <1>1 DEF Good, Schedule, Defined, Well
<1> HIDE DEF w
<1> QED BY <1>1, <1>2, UpdateWellStep, ParseIsKeywordStep

\* The new rates of a WCONPROD or WCONHIST record.
LEMMA WithControlsStep ==
  ASSUME NEW S, Good(S), NEW t \in Steps, Defined(S, t), Uniform(S, t),
         S.ids + 1 <= MaxObjects, NEW zero \in BOOLEAN
  PROVE  ParseStep(S, WithControls(S, t, zero), t, 1)
<1> DEFINE w == [S.well[t] EXCEPT !.canOpen = CrossFlow \/ ~zero]
<1>1. w \in Well /\ w.status = S.well[t].status
  <2>1. S.well[t] \in Well
    BY DEF Good, Schedule, Defined
  <2>2. (CrossFlow \/ ~zero) \in BOOLEAN
    OBVIOUS
  <2> QED BY <2>1, <2>2 DEF Well
<1>2. WithControls(S, t, zero) \in {S, UpdateWell(S, t, w)}
  BY DEF WithControls
<1>3. ParseStep(S, S, t, 1)
  BY SameWellsStep
<1> HIDE DEF w
<1> QED BY <1>1, <1>2, <1>3, UpdateWellStep

\* State and rates of a WCONPROD or WCONHIST record.
LEMMA ControlStep ==
  ASSUME NEW S, Good(S), NEW t \in Steps, Defined(S, t), Uniform(S, t),
         S.ids + 2 <= MaxObjects, NEW st \in Status, NEW zero \in BOOLEAN
  PROVE  ParseStep(S, WithControls(UpdateWellStatus(S, t, FALSE, st), t, zero), t, 2)
<1> DEFINE S1 == UpdateWellStatus(S, t, FALSE, st)
<1>1. S.ids \in Nat /\ MaxObjects \in Nat /\ S.ids + 1 <= MaxObjects
  BY MaxObjectsAssumption DEF Good, Schedule
<1>2. ParseStep(S, S1, t, 1)
  BY <1>1, UpdateWellStatusParse
<1> HIDE DEF S1
<1>3. Good(S1) /\ Uniform(S1, t) /\ Defined(S1, t) /\ S1.ids + 1 <= MaxObjects
  BY <1>1, <1>2 DEF ParseStep, Good, Schedule
<1>4. ParseStep(S1, WithControls(S1, t, zero), t, 1)
  BY <1>3, WithControlsStep
<1>5. ParseStep(S, WithControls(S1, t, zero), t, 1 + 1)
  BY <1>2, <1>4, ParseStepsCompose
<1>6. ParseStep(S, WithControls(S1, t, zero), t, 2)
  BY <1>1, <1>5 DEF ParseStep
<1> QED BY <1>6 DEF S1

LEMMA WconprodStep ==
  ASSUME Inv, NEW st \in Controls, NEW zero \in BOOLEAN, Wconprod(st, zero)
  PROVE  KeywordStep(sched, sched', step)
<1>1. /\ Good(sched) /\ step \in Steps /\ Defined(sched, step) /\ Uniform(sched, step)
      /\ sched.ids + 2 <= MaxObjects /\ st \in Status
      /\ sched' = WithControls(UpdateWellStatus(sched, step, FALSE, st), step, zero)
  BY ControlsAssumption
     DEF Wconprod, ParsingWell, Parsing, CanAllocate, Inv, TypeOK, FutureIsUniform
<1>2. ParseStep(sched, sched', step, 2)
  BY <1>1, ControlStep
<1> QED BY <1>2, ParseIsKeywordStep

LEMMA WconhistStep ==
  ASSUME Inv, NEW st \in Controls, NEW zero \in BOOLEAN, Wconhist(st, zero)
  PROVE  KeywordStep(sched, sched', step)
<1> DEFINE S == WithControls(UpdateWellStatus(sched, step, FALSE, st), step, zero)
<1>1. /\ Good(sched) /\ step \in Steps /\ Defined(sched, step) /\ Uniform(sched, step)
      /\ sched.ids + 3 <= MaxObjects /\ st \in Status
      /\ sched' = IF ~CrossFlow /\ zero
                  THEN UpdateWellStatus(S, step, FALSE, "SHUT") ELSE S
  BY ControlsAssumption
     DEF Wconhist, ParsingWell, Parsing, CanAllocate, Inv, TypeOK, FutureIsUniform
<1>2. sched.ids \in Nat /\ MaxObjects \in Nat /\ sched.ids + 2 <= MaxObjects
  BY <1>1, MaxObjectsAssumption DEF Good, Schedule
<1>3. ParseStep(sched, S, step, 2)
  BY <1>1, <1>2, ControlStep
<1> HIDE DEF S
<1>4. Good(S) /\ Uniform(S, step) /\ Defined(S, step) /\ S.ids + 1 <= MaxObjects
  BY <1>1, <1>2, <1>3 DEF ParseStep, Good, Schedule
<1>5. ParseStep(S, UpdateWellStatus(S, step, FALSE, "SHUT"), step, 1)
  BY <1>1, <1>4, UpdateWellStatusParse DEF Status
<1>6. ParseStep(sched, UpdateWellStatus(S, step, FALSE, "SHUT"), step, 2 + 1)
  BY <1>1, <1>3, <1>5, ParseStepsCompose
<1> QED BY <1>1, <1>3, <1>6, ParseIsKeywordStep

LEMMA DeckWelopenWellStep ==
  ASSUME Inv, NEW st \in Controls, DeckWelopenWell(st)
  PROVE  KeywordStep(sched, sched', step)
<1>1. /\ Good(sched) /\ step \in Steps /\ Defined(sched, step) /\ Uniform(sched, step)
      /\ sched.ids + 1 <= MaxObjects /\ st \in Status
      /\ sched' = UpdateWellStatus(sched, step, FALSE, st)
  BY ControlsAssumption
     DEF DeckWelopenWell, WelopenWell, ParsingWell, Parsing, CanAllocate, Inv, TypeOK,
         FutureIsUniform
<1> QED BY <1>1, UpdateWellStatusParse, ParseIsKeywordStep

LEMMA DeckWelopenConnectionsStep ==
  ASSUME Inv, NEW cells, NEW cs \in ConnControls, DeckWelopenConnections(cells, cs)
  PROVE  KeywordStep(sched, sched', step)
<1> DEFINE S1 == CommitStatus(sched, step)
           S2 == WelopenConnections(S1, step, FALSE, cells, cs)
<1>1. /\ Good(sched) /\ step \in Steps /\ Defined(sched, step) /\ Uniform(sched, step)
      /\ sched.ids + 2 <= MaxObjects /\ cs \in ConnState
      /\ sched' = AddEvent(S2, step, "COMPLETION_CHANGE")
  BY ControlsAssumption
     DEF DeckWelopenConnections, ParsingWell, Parsing, CanAllocate, Inv, TypeOK,
         FutureIsUniform
<1>2. sched.ids \in Nat /\ MaxObjects \in Nat /\ sched.ids + 1 <= MaxObjects
  BY <1>1, MaxObjectsAssumption DEF Good, Schedule
<1>3. StatusOf(sched, step).status \in Status
  BY <1>1 DEF Good, Schedule, Defined, Well, WellStatus, StatusOf
<1>4. /\ ParseStep(sched, S1, step, 1)
      /\ StatusOf(S1, step).first = step /\ StatusOf(S1, step).last = NSteps
  BY <1>1, <1>2, <1>3, NewStatusGood DEF CommitStatus
<1> HIDE DEF S1
<1>5. Good(S1) /\ Uniform(S1, step) /\ Defined(S1, step) /\ S1.ids + 1 <= MaxObjects
  BY <1>1, <1>2, <1>4 DEF ParseStep, Good, Schedule
<1>6. ParseStep(S1, S2, step, 1)
  BY <1>1, <1>4, <1>5, WelopenConnectionsGood
<1> HIDE DEF S2
<1>7. ParseStep(sched, S2, step, 1 + 1)
  BY <1>1, <1>4, <1>6, ParseStepsCompose
<1>8. Good(S2) /\ Uniform(S2, step) /\ SamePast(sched, S2, step)
  BY <1>7 DEF ParseStep
<1>9. Good(sched') /\ sched'.well = S2.well /\ sched'.statuses = S2.statuses
  BY <1>1, <1>8, AddEventGood DEF Event
<1> QED BY <1>8, <1>9 DEF KeywordStep, Uniform, SamePast, View, Defined, StatusOf

\* Every keyword keeps the schedule Good, writes from its own step on, and
\* leaves the position in the section to DATES and TSTEP.
LEMMA KeywordIsStep ==
  ASSUME Inv, Keyword
  PROVE  KeywordStep(sched, sched', step) /\ UNCHANGED <<phase, step, deck>>
<1>1. CASE Welspecs
  BY <1>1, WelspecsStep DEF Welspecs
<1>2. CASE \E c \in Conns, cs \in ConnControls : Compdat(c, cs)
  BY <1>2, CompdatStep DEF Compdat
<1>3. CASE \E e \in Efficiencies : Wefac(e)
  BY <1>3, WefacStep DEF Wefac
<1>4. CASE \E st \in Controls, zero \in BOOLEAN : Wconprod(st, zero)
  BY <1>4, WconprodStep DEF Wconprod
<1>5. CASE \E st \in Controls, zero \in BOOLEAN : Wconhist(st, zero)
  BY <1>5, WconhistStep DEF Wconhist
<1>6. CASE \E st \in Controls : DeckWelopenWell(st)
  BY <1>6, DeckWelopenWellStep DEF DeckWelopenWell, WelopenWell
<1>7. CASE \E cells \in SUBSET Conns, cs \in ConnControls : DeckWelopenConnections(cells, cs)
  BY <1>7, DeckWelopenConnectionsStep DEF DeckWelopenConnections
<1> QED BY <1>1, <1>2, <1>3, <1>4, <1>5, <1>6, <1>7 DEF Keyword

-----------------------------------------------------------------------------
\* What the well looks like is a view, so the record kept of it has its type.
LEMMA ViewType ==
  ASSUME NEW S, Good(S), NEW t \in Steps
  PROVE  View(S, t) \in Views \cup {Null}
<1>1. CASE ~Defined(S, t)
  BY <1>1 DEF View
<1>2. CASE Defined(S, t)
  <2>1. S.well[t] \in Well /\ S.statuses[S.well[t].status] \in WellStatus
    BY <1>2 DEF Good, Schedule, Defined, Well
  <2> QED BY <1>2, <2>1 DEF View, Views, Well, WellStatus, StatusOf
<1> QED BY <1>1, <1>2

LEMMA InitInv == Init => Inv
<1> SUFFICES ASSUME Init PROVE Inv
  OBVIOUS
<1>1. NSteps \in Nat \ {0} /\ MaxObjects \in Nat
  BY NStepsAssumption, MaxObjectsAssumption
<1>2. step \in Steps /\ phase \in {"parse", "run"} /\ deck \in [Steps -> Views \cup {Null}]
  BY <1>1 DEF Init, Steps, Filled
<1>3. sched \in Schedule
  <2>1. Filled(NSteps, Null) \in [Steps -> Well \cup {Null}]
    BY DEF Filled, Steps
  <2>2. Filled(NSteps, {}) \in [Steps -> SUBSET Event]
    BY DEF Filled, Steps
  <2>3. [i \in Ids |-> [status |-> "SHUT", first |-> 0, last |-> NSteps]] \in [Ids -> WellStatus]
    BY <1>1 DEF WellStatus, Status, Steps
  <2>4. 0 \in 0 .. MaxObjects
    BY <1>1
  <2> QED BY <2>1, <2>2, <2>3, <2>4 DEF Init, Schedule
<1>4. \A t \in Steps : sched.well[t] = Null
  BY DEF Init, Filled, Steps
<1>5. IdsInUse(sched) /\ RangeExact(sched) /\ Uniform(sched, step)
  BY <1>2, <1>4 DEF IdsInUse, RangeExact, Uniform, Defined
<1> QED BY <1>2, <1>3, <1>5 DEF Inv, TypeOK, Good, FutureIsUniform

\* The check at the end of a report step of the section.
LEMMA EndCheckStep ==
  ASSUME Inv, phase = "parse", CanAllocate(1, MaxObjects),
         sched' = CheckIfAllConnectionsIsShut(sched, step)
  PROVE  KeywordStep(sched, sched', step)
<1>1. Good(sched) /\ step \in Steps /\ Uniform(sched, step) /\ sched.ids + 1 <= MaxObjects
  BY DEF Inv, TypeOK, FutureIsUniform, CanAllocate
<1> QED BY <1>1, CheckGood, ParseIsKeywordStep

\* A function of the run time changes what steps of the same status show.
LEMMA RunIsStep ==
  ASSUME Inv, RunNext
  PROVE  /\ phase = "run" /\ UNCHANGED <<phase, deck>> /\ step' \in Steps
         /\ RunStep(sched, sched', step)
         /\ sched' # sched => Defined(sched, step)
<1>1. Good(sched) /\ step \in Steps
  BY DEF Inv, TypeOK
<1>2. CASE \E st \in {"SHUT", "OPEN", "STOP"} : SetWell(st)
  BY <1>1, <1>2, UpdateWellStatusRun DEF SetWell, RunningWell, CanAllocate, Status
<1>3. CASE \E st \in Controls : ActionWelopenWell(st)
  BY <1>1, <1>3, UpdateWellStatusRun, ControlsAssumption
     DEF ActionWelopenWell, WelopenWell, RunningWell, CanAllocate
<1>4. CASE \E cells \in SUBSET Conns, cs \in ConnControls : ActionWelopenConnections(cells, cs)
  <2> PICK cells \in SUBSET Conns, cs \in ConnControls : ActionWelopenConnections(cells, cs)
    BY <1>4
  <2> DEFINE S == WelopenConnections(sched, step, TRUE, cells, cs)
  <2>1. /\ phase = "run" /\ UNCHANGED <<phase, step, deck>> /\ Defined(sched, step)
        /\ sched.ids + 1 <= MaxObjects /\ cs \in ConnState
        /\ sched' = AddEvent(S, step, "COMPLETION_CHANGE")
    BY ControlsAssumption DEF ActionWelopenConnections, RunningWell, CanAllocate
  <2>2. RunStep(sched, S, step)
    BY <1>1, <2>1, WelopenConnectionsGood
  <2> HIDE DEF S
  <2>3. /\ Good(sched') /\ sched'.ids = S.ids /\ sched'.well = S.well
        /\ sched'.statuses = S.statuses
    BY <1>1, <2>1, <2>2, AddEventGood DEF Event, RunStep
  <2>4. \A u \in Steps : View(sched', u) = View(S, u)
    BY <2>3 DEF View, Defined, StatusOf
  <2>5. RunStep(sched, sched', step)
    <3>1. SameStatuses(sched, sched')
      BY <2>2, <2>3 DEF RunStep, SameStatuses, Defined
    <3> QED BY <2>2, <2>3, <2>4, <3>1 DEF RunStep
  <2> QED BY <1>1, <2>1, <2>5
<1>5. CASE NextReportStep
  <2>1. RunStep(sched, sched, step)
    BY <1>1, SameWellsStep
  <2>2. step' \in Steps
    BY <1>1, <1>5, NStepsAssumption DEF NextReportStep, Steps
  <2> QED BY <1>5, <2>1, <2>2 DEF NextReportStep
<1> QED BY <1>2, <1>3, <1>4, <1>5 DEF RunNext

LEMMA NextInv == Inv /\ [Next]_vars => Inv'
<1> SUFFICES ASSUME Inv, [Next]_vars PROVE Inv'
  OBVIOUS
<1>1. Good(sched) /\ step \in Steps /\ TypeOK /\ (phase = "parse" => Uniform(sched, step))
  BY DEF Inv, FutureIsUniform, TypeOK
<1>2. CASE Keyword
  <2>1. Good(sched') /\ Uniform(sched', step) /\ UNCHANGED <<phase, step, deck>>
    BY <1>2, KeywordIsStep DEF KeywordStep
  <2> QED BY <1>1, <2>1 DEF Inv, TypeOK, FutureIsUniform, Good
<1>3. CASE \E next \in Steps : EndReportStep(next)
  <2> PICK next \in Steps : EndReportStep(next)
    BY <1>3
  <2>1. /\ next > step /\ step' = next /\ UNCHANGED <<phase, deck>>
        /\ KeywordStep(sched, sched', step)
    BY EndCheckStep DEF EndReportStep
  <2>2. Uniform(sched', step')
    BY <1>1, <2>1 DEF KeywordStep, Uniform, Steps
  <2> QED BY <1>1, <2>1, <2>2 DEF Inv, TypeOK, FutureIsUniform, Good, KeywordStep
<1>4. CASE EndSection
  <2>1. Good(sched') /\ phase' = "run" /\ step' = 0 /\ deck' = [t \in Steps |-> View(sched', t)]
    BY <1>4, EndCheckStep DEF EndSection, KeywordStep
  <2>2. deck' \in [Steps -> Views \cup {Null}]
    BY <2>1, ViewType
  <2>3. step' \in Steps
    BY <2>1, NStepsAssumption DEF Steps
  <2> QED BY <2>1, <2>2, <2>3 DEF Inv, TypeOK, FutureIsUniform, Good
<1>5. CASE RunNext
  BY <1>1, <1>5, RunIsStep DEF Inv, TypeOK, FutureIsUniform, Good, RunStep
<1>6. CASE UNCHANGED vars
  BY <1>1, <1>6 DEF vars, Inv, TypeOK, FutureIsUniform, Good, IdsInUse, RangeExact,
                    Uniform, Defined, StatusOf
<1> QED BY <1>2, <1>3, <1>4, <1>5, <1>6 DEF Next, ParseNext

THEOREM InvHolds == Spec => []Inv
<1> QED BY InitInv, NextInv, PTL DEF Spec

\* Every state of a schedule has the type the code gives it: a step below the
\* size of the time map, pointers to allocated objects, complete containers.
THEOREM TypeCorrect == Spec => []TypeOK
<1>1. Inv => TypeOK
  BY DEF Inv
<1> QED BY <1>1, InvHolds, PTL

\* At parse time and at run time, each WellStatus holds at exactly the steps
\* of its range: the ground applyWELOPEN stands on when it rewrites a range.
THEOREM StatusRanges == Spec => []StatusRangeExact
<1>1. Inv => StatusRangeExact
  BY DEF Inv, Good, StatusRangeExact
<1> QED BY <1>1, InvHolds, PTL

\* While the section is read nothing of the steps ahead has been split, so
\* update_equal() fills to the end of the container.
THEOREM FutureUniform == Spec => []FutureIsUniform
<1>1. Inv => FutureIsUniform
  BY DEF Inv
<1> QED BY <1>1, InvHolds, PTL

-----------------------------------------------------------------------------
\* The section is read before the simulation starts, never after.
LEMMA KeywordWhileParsing == Keyword => phase = "parse"
<1>1. CASE Welspecs
  BY <1>1 DEF Welspecs, Parsing
<1>2. CASE \E c \in Conns, cs \in ConnControls : Compdat(c, cs)
  BY <1>2 DEF Compdat, ParsingWell, Parsing
<1>3. CASE \E e \in Efficiencies : Wefac(e)
  BY <1>3 DEF Wefac, ParsingWell, Parsing
<1>4. CASE \E st \in Controls, zero \in BOOLEAN : Wconprod(st, zero) \/ Wconhist(st, zero)
  <2>1. ParsingWell(2) \/ ParsingWell(3)
    BY <1>4 DEF Wconprod, Wconhist
  <2> QED BY <2>1 DEF ParsingWell, Parsing
<1>5. CASE \E st \in Controls : DeckWelopenWell(st)
  BY <1>5 DEF DeckWelopenWell, ParsingWell, Parsing
<1>6. CASE \E cells \in SUBSET Conns, cs \in ConnControls : DeckWelopenConnections(cells, cs)
  <2>1. ParsingWell(2)
    BY <1>6 DEF DeckWelopenConnections
  <2> QED BY <2>1 DEF ParsingWell, Parsing
<1> QED BY <1>1, <1>2, <1>3, <1>4, <1>5, <1>6 DEF Keyword

\* At run time no function called at a report step changes the well at a step
\* outside the range of the WellStatus valid there.
LEMMA RunChangeInRange ==
  ASSUME Inv, [Next]_vars, phase = "run", NEW t \in Steps,
         View(sched', t) # View(sched, t)
  PROVE  /\ Defined(sched, step)
         /\ StatusOf(sched, step).first <= t
         /\ t < StatusOf(sched, step).last
<1>1. Good(sched) /\ step \in Steps
  BY DEF Inv, TypeOK
<1>2. sched' # sched
  OBVIOUS
<1>3. RunNext
  BY <1>2, KeywordWhileParsing DEF Next, vars, ParseNext, EndReportStep, EndSection
<1>4. RunStep(sched, sched', step) /\ Defined(sched, step)
  BY <1>2, <1>3, RunIsStep
<1>5. Defined(sched, t) /\ sched.well[t].status = sched.well[step].status
  BY <1>4 DEF RunStep
<1> QED BY <1>1, <1>4, <1>5 DEF Good, RangeExact

\* RunTimeChangeStaysInRange, for every schedule: the past and the status
\* keywords still to come are out of the reach of a run time change.
THEOREM RunTimeChangesInRange == Spec => RunTimeChangeStaysInRange
<1>1. Inv /\ [Next]_vars =>
        [phase = "run" =>
           \A t \in Steps : View(sched', t) # View(sched, t) =>
             /\ Defined(sched, step)
             /\ StatusOf(sched, step).first <= t
             /\ t < StatusOf(sched, step).last]_vars
  BY RunChangeInRange
<1> QED BY <1>1, InvHolds, PTL DEF Spec, RunTimeChangeStaysInRange

\* The steps from the report step to the end of the range share a WellStatus,
\* and go on sharing it through any function called at run time.
LEMMA RunStatusShared ==
  ASSUME Inv, [Next]_vars, phase = "run", Defined(sched, step),
         NEW t \in Steps, step <= t, t < StatusOf(sched, step).last
  PROVE  StatusOf(sched', t).status = StatusOf(sched', step).status
<1>1. Good(sched) /\ step \in Steps
  BY DEF Inv, TypeOK
<1>2. StatusOf(sched, step).first <= step
  BY <1>1 DEF Good, RangeExact
<1>3. StatusOf(sched, step).first \in Steps
  BY <1>1 DEF Good, Schedule, Defined, Well, WellStatus, StatusOf
<1>4. Defined(sched, t) /\ sched.well[t].status = sched.well[step].status
  <2>1. StatusOf(sched, step).first <= t
    BY <1>1, <1>2, <1>3 DEF Steps
  <2> QED BY <1>1, <2>1 DEF Good, RangeExact
<1>5. SameStatuses(sched, sched')
  <2>1. CASE sched' = sched
    BY <2>1 DEF SameStatuses
  <2>2. CASE sched' # sched
    <3>1. RunNext
      BY <2>2, KeywordWhileParsing DEF Next, vars, ParseNext, EndReportStep, EndSection
    <3> QED BY <3>1, RunIsStep DEF RunStep
  <2> QED BY <2>1, <2>2
<1>6. sched'.well[t].status = sched'.well[step].status
  BY <1>1, <1>4, <1>5 DEF SameStatuses
<1> QED BY <1>6 DEF StatusOf

\* RunTimeStatusReachesEndOfRange, for every schedule: a status set at run
\* time holds until the next status keyword of the deck, whatever other
\* keywords replaced the Well object on the way.
THEOREM RunTimeStatusesReach == Spec => RunTimeStatusReachesEndOfRange
<1>1. Inv /\ [Next]_vars =>
        [phase = "run" /\ Defined(sched, step) =>
           \A t \in Steps :
             step <= t /\ t < StatusOf(sched, step).last =>
               StatusOf(sched', t).status = StatusOf(sched', step).status]_vars
  BY RunStatusShared
<1> QED BY <1>1, InvHolds, PTL DEF Spec, RunTimeStatusReachesEndOfRange

-----------------------------------------------------------------------------
\* The values and the reader's place that the refinement maps a state to.
Values == [t \in Steps |-> SectionView(t)]
Now == IF phase = "parse" THEN step ELSE NSteps - 1

\* A step that keeps the past and leaves the rest in one piece is a Write.
LEMMA WriteStep ==
  ASSUME Inv, phase = "parse", SamePast(sched, sched', step), Uniform(sched', step),
         Now' \in Steps, Now' >= step, Values' = [t \in Steps |-> View(sched', t)]
  PROVE  Promise!Write
<1>1. step \in Steps /\ step \in Int /\ Now = step
  BY DEF Inv, TypeOK, Steps, Now
<1>2. ASSUME NEW t \in Steps, t < step
      PROVE  View(sched', t) = View(sched, t)
  BY <1>2 DEF SamePast
<1>3. ASSUME NEW t \in Steps, t >= step
      PROVE  View(sched', t) = View(sched', step)
  <2>1. sched'.well[t] = sched'.well[step]
    BY <1>3 DEF Uniform
  <2> QED BY <2>1 DEF View, StatusOf, Defined
<1>4. Promise!Steps = Steps
  BY DEF Promise!Steps, Steps
<1>5. Values = [t \in Steps |-> View(sched, t)]
  BY DEF Values, SectionView
<1> QED BY <1>1, <1>2, <1>3, <1>4, <1>5 DEF Promise!Write, Values, Now

\* While the section is read its views are those of the schedule.
LEMMA ParsingValues ==
  ASSUME phase' = "parse" PROVE Values' = [t \in Steps |-> View(sched', t)]
BY DEF Values, SectionView

LEMMA PromiseInit == Init => Promise!Init
<1> SUFFICES ASSUME Init PROVE Promise!Init
  OBVIOUS
<1>1. \A t \in Steps : SectionView(t) = Null
  BY NStepsAssumption DEF Init, Filled, Steps, SectionView, View, Defined
<1> QED BY <1>1 DEF Init, Promise!Init, Promise!Steps, Steps

LEMMA PromiseStep ==
  Inv /\ [Next]_vars => [Promise!Write]_<<Now, Values>>
<1> SUFFICES ASSUME Inv, [Next]_vars PROVE [Promise!Write]_<<Now, Values>>
  OBVIOUS
<1>1. CASE UNCHANGED vars
  BY <1>1 DEF vars, Now, Values, SectionView, View, StatusOf, Defined
<1>2. CASE Keyword
  <2>1. KeywordStep(sched, sched', step) /\ UNCHANGED <<phase, step, deck>>
    BY <1>2, KeywordIsStep
  <2>2. phase = "parse" /\ step \in Steps /\ step \in Int
    BY <1>2, KeywordWhileParsing DEF Inv, TypeOK, Steps
  <2>3. Now' = step
    BY <2>1, <2>2 DEF Now
  <2> QED BY <2>1, <2>2, <2>3, WriteStep, ParsingValues DEF KeywordStep
<1>3. CASE \E next \in Steps : EndReportStep(next)
  <2> PICK next \in Steps : EndReportStep(next)
    BY <1>3
  <2>1. /\ phase = "parse" /\ phase' = phase /\ next > step /\ step' = next
        /\ KeywordStep(sched, sched', step)
    BY EndCheckStep DEF EndReportStep
  <2>2. Now' = next /\ next >= step
    BY <2>1 DEF Now, Steps, Inv, TypeOK
  <2> QED BY <2>1, <2>2, WriteStep, ParsingValues DEF KeywordStep
<1>4. CASE EndSection
  <2>1. phase = "parse" /\ phase' = "run" /\ KeywordStep(sched, sched', step)
    BY <1>4, EndCheckStep DEF EndSection
  <2>2. Now' = NSteps - 1 /\ Now' \in Steps /\ Now' >= step
    BY <2>1, NStepsAssumption DEF Now, Steps, Inv, TypeOK
  <2>3. Values' = [t \in Steps |-> View(sched', t)]
    BY <1>4, <2>1 DEF EndSection, Values, SectionView
  <2> QED BY <2>1, <2>2, <2>3, WriteStep DEF KeywordStep
<1>5. CASE RunNext
  <2>1. phase = "run" /\ UNCHANGED <<phase, deck>>
    BY <1>5, RunIsStep
  <2> QED BY <2>1 DEF Now, Values, SectionView
<1> QED BY <1>1, <1>2, <1>3, <1>4, <1>5 DEF Next, ParseNext

\* Reading the section, keyword by keyword with objects shared between steps,
\* keeps what the class comment of DynamicState promises: updates come with
\* weakly increasing steps and the last value set applies.
THEOREM ParseImplementsTimeline == Spec => LastSetValueApplies
<1>1. Now = (IF phase = "parse" THEN step ELSE NSteps - 1)
      /\ Values = [t \in Steps |-> SectionView(t)]
  BY DEF Now, Values
<1> QED BY PromiseInit, PromiseStep, InvHolds, PTL
        DEF Spec, LastSetValueApplies, Promise!Spec, Now, Values

-----------------------------------------------------------------------------
\* The status given to a well of the section is the one its step then shows.
LEMMA SetStatusShows ==
  ASSUME NEW S, Good(S), NEW t \in Steps, Defined(S, t), S.ids + 1 <= MaxObjects,
         NEW st \in Status
  PROVE  LET S2 == SetStatus(S, t, FALSE, st)
         IN StatusOf(S2, t).status = st /\ S2.events = S.events
<1> DEFINE S2 == SetStatus(S, t, FALSE, st)
           w == [S.well[t] EXCEPT !.status = S.ids + 1]
           N == NewStatus(S, S.well[t], t, st)
<1>1. /\ S \in Schedule /\ S.ids \in 0 .. MaxObjects /\ S.ids + 1 \in Ids
      /\ t \in DOMAIN S.well /\ S.well[t] \in Well
  BY MaxObjectsAssumption DEF Good, Schedule, Ids, Defined
<1>2. /\ N.well = S.well /\ N.ids = S.ids /\ N.events = S.events
      /\ N.statuses[S.ids + 1].status = st
  BY <1>1 DEF NewStatus, Schedule
<1>3. /\ S2.well = UpdateEqual(S.well, t, [w EXCEPT !.id = S.ids + 1])
      /\ S2.statuses = N.statuses /\ S2.events = S.events
  BY <1>1, <1>2 DEF SetStatus, UpdateWell, NewStatus, Schedule
<1>4. t \in EqualRun(S.well, t)
  BY <1>1 DEF EqualRun, Steps
<1>5. S2.well[t] = [w EXCEPT !.id = S.ids + 1]
  BY <1>1, <1>3, <1>4 DEF UpdateEqual
<1>6. S2.well[t].status = S.ids + 1
  BY <1>1, <1>5 DEF Well
<1> QED BY <1>2, <1>3, <1>6 DEF StatusOf

\* The check at the end of a report step leaves no open well behind whose
\* connections are all shut.
LEMMA CheckShuts ==
  ASSUME NEW S, Good(S), NEW t \in Steps, Uniform(S, t), S.ids + 1 <= MaxObjects
  PROVE  LET S2 == CheckIfAllConnectionsIsShut(S, t)
         IN Defined(S2, t) /\ AllConnectionsShut(S2.well[t]) => StatusOf(S2, t).status = "SHUT"
<1> DEFINE S2 == CheckIfAllConnectionsIsShut(S, t)
           S1 == SetStatus(S, t, FALSE, "SHUT")
<1>1. CASE Defined(S, t) /\ AllConnectionsShut(S.well[t]) /\ StatusOf(S, t).status # "SHUT"
  <2>1. StatusOf(S1, t).status = "SHUT" /\ Good(S1)
    BY <1>1, SetStatusShows, NewStatusGood DEF ParseStep, Status
  <2>2. S2 = AddEvent(S1, t, "WELL_STATUS_CHANGE")
    BY <1>1 DEF CheckIfAllConnectionsIsShut, UpdateWellStatus
  <2> HIDE DEF S1, S2
  <2>3. S2.well = S1.well /\ S2.statuses = S1.statuses
    BY <2>1, <2>2, AddEventGood DEF Event
  <2>4. StatusOf(S2, t).status = "SHUT"
    BY <2>1, <2>3 DEF StatusOf
  <2> QED BY <2>4 DEF S2
<1>2. CASE ~(Defined(S, t) /\ AllConnectionsShut(S.well[t]) /\ StatusOf(S, t).status # "SHUT")
  BY <1>2 DEF CheckIfAllConnectionsIsShut
<1> QED BY <1>1, <1>2

\* Whether a well is open with all its connections shut shows in its view.
ShutInView(v) ==
  v # Null => (AllConnectionsShut(v) => v.status = "SHUT")

LEMMA ShutViews ==
  ASSUME NEW S, Good(S), NEW t \in Steps
  PROVE  ShutInView(View(S, t)) <=>
           (Defined(S, t) /\ AllConnectionsShut(S.well[t]) => StatusOf(S, t).status = "SHUT")
<1>1. CASE Defined(S, t)
  <2>1. S.well[t] \in Well /\ S.statuses[S.well[t].status] \in WellStatus
    BY <1>1 DEF Good, Schedule, Defined, Well
  <2>2. /\ View(S, t).conns = S.well[t].conns
        /\ View(S, t).status = StatusOf(S, t).status
        /\ View(S, t) # Null
    BY <1>1, <2>1, NullAssumption DEF View, Views, Well, WellStatus, StatusOf
  <2>3. AllConnectionsShut(View(S, t)) <=> AllConnectionsShut(S.well[t])
    BY <2>2 DEF AllConnectionsShut, NoConnections
  <2> QED BY <1>1, <2>2, <2>3 DEF ShutInView
<1>2. CASE ~Defined(S, t)
  BY <1>2 DEF ShutInView, View
<1> QED BY <1>1, <1>2

LEMMA NoOpenWellStep ==
  Inv /\ NoOpenWellWithoutOpenConnection /\ [Next]_vars => NoOpenWellWithoutOpenConnection'
<1> SUFFICES ASSUME Inv, NoOpenWellWithoutOpenConnection, [Next]_vars
             PROVE  NoOpenWellWithoutOpenConnection'
  OBVIOUS
<1>1. Good(sched) /\ step \in Steps /\ Good(sched')
  <2>1. Inv'
    BY NextInv
  <2> QED BY <2>1 DEF Inv, TypeOK
<1> SUFFICES ASSUME NEW t \in Steps, (phase = "parse" => t < step)'
             PROVE  ShutInView(SectionView(t)')
  BY DEF NoOpenWellWithoutOpenConnection, ShutInView
<1>2. (phase = "parse" => t < step) => ShutInView(SectionView(t))
  BY DEF NoOpenWellWithoutOpenConnection, ShutInView
<1>3. CASE Keyword
  <2>1. /\ SamePast(sched, sched', step) /\ UNCHANGED <<phase, step>> /\ phase = "parse"
        /\ SectionView(t) = View(sched, t) /\ SectionView(t)' = View(sched', t)
    BY <1>3, KeywordIsStep, KeywordWhileParsing DEF KeywordStep, SectionView
  <2> QED BY <1>2, <2>1 DEF SamePast
<1>4. ASSUME phase = "parse", CanAllocate(1, MaxObjects),
             sched' = CheckIfAllConnectionsIsShut(sched, step)
      PROVE  ShutInView(View(sched', t))
  <2>1. SamePast(sched, sched', step) /\ Uniform(sched', step)
    BY <1>4, EndCheckStep DEF KeywordStep
  <2>2. CASE t < step
    BY <1>2, <1>4, <2>1, <2>2 DEF SamePast, SectionView
  <2>3. CASE t >= step
    <3>1. sched'.well[t] = sched'.well[step]
      BY <2>1, <2>3 DEF Uniform
    <3>2. Defined(sched', step) /\ AllConnectionsShut(sched'.well[step])
            => StatusOf(sched', step).status = "SHUT"
      BY <1>1, <1>4, CheckShuts DEF CanAllocate, Inv, FutureIsUniform
    <3> QED BY <1>1, <3>1, <3>2, ShutViews DEF Defined, StatusOf
  <2> QED BY <1>1, <2>2, <2>3 DEF Steps
<1>5. CASE \E next \in Steps : EndReportStep(next)
  BY <1>4, <1>5 DEF EndReportStep, SectionView
<1>6. CASE EndSection
  <2>1. phase' = "run" /\ deck' = [u \in Steps |-> View(sched', u)]
    BY <1>6 DEF EndSection
  <2> QED BY <1>4, <1>6, <2>1 DEF EndSection, SectionView
<1>7. CASE UNCHANGED vars
  BY <1>2, <1>7 DEF vars, SectionView, View, StatusOf, Defined
<1>8. CASE RunNext
  <2>1. phase = "run" /\ UNCHANGED <<phase, deck>>
    BY <1>8, RunIsStep
  <2> QED BY <1>2, <2>1 DEF SectionView
<1> QED BY <1>3, <1>5, <1>6, <1>7, <1>8 DEF Next, ParseNext

\* However the keywords of a section are mixed, no report step of it shows an
\* open well all of whose connections are shut.
THEOREM NoOpenWell == Spec => []NoOpenWellWithoutOpenConnection
<1>1. Init => NoOpenWellWithoutOpenConnection
  BY NStepsAssumption
     DEF Init, NoOpenWellWithoutOpenConnection, SectionView, View, Steps, Filled, Defined
<1> QED BY <1>1, NoOpenWellStep, InvHolds, PTL DEF Spec
-----------------------------------------------------------------------------
\* S2 has the events of S, and one for the status of step t if it is another.
EventsGrow(S, S2) == \A u \in Steps : S.events[u] \subseteq S2.events[u]

Announces(S, S2, t) ==
  /\ EventsGrow(S, S2)
  /\ Defined(S, t) =>
       /\ Defined(S2, t)
       /\ StatusOf(S2, t).status # StatusOf(S, t).status
            => "WELL_STATUS_CHANGE" \in S2.events[t]

LEMMA AnnouncesCompose ==
  ASSUME NEW S, NEW S1, NEW S2, NEW t \in Steps,
         Announces(S, S1, t), Announces(S1, S2, t)
  PROVE  Announces(S, S2, t)
<1>1. EventsGrow(S, S2)
  BY DEF Announces, EventsGrow
<1>2. S1.events[t] \subseteq S2.events[t]
  BY DEF Announces, EventsGrow
<1> QED BY <1>1, <1>2 DEF Announces

\* Nothing to announce: the status at t is the one it was.
LEMMA QuietStep ==
  ASSUME NEW S, NEW S2, NEW t \in Steps, EventsGrow(S, S2),
         Defined(S, t) => Defined(S2, t) /\ StatusOf(S2, t).status = StatusOf(S, t).status
  PROVE  Announces(S, S2, t)
BY DEF Announces

LEMMA AddEventAnnounces ==
  ASSUME NEW S, Good(S), NEW t \in Steps, NEW e \in Event
  PROVE  Announces(S, AddEvent(S, t, e), t) /\ e \in AddEvent(S, t, e).events[t]
<1> DEFINE S2 == AddEvent(S, t, e)
<1>1. S2.well = S.well /\ S2.statuses = S.statuses
  BY AddEventGood
<1>2. \A u \in Steps : S2.events[u] = IF u = t THEN S.events[u] \cup {e} ELSE S.events[u]
  BY DEF Good, Schedule, AddEvent
<1> HIDE DEF S2
<1>3. EventsGrow(S, S2) /\ e \in S2.events[t]
  BY <1>2 DEF EventsGrow
<1>4. Defined(S, t) => Defined(S2, t) /\ StatusOf(S2, t).status = StatusOf(S, t).status
  BY <1>1 DEF Defined, StatusOf
<1> QED BY <1>3, <1>4, QuietStep DEF S2

LEMMA UpdateWellAnnounces ==
  ASSUME NEW S, Good(S), NEW t \in Steps, Defined(S, t), S.ids + 1 <= MaxObjects,
         NEW w \in Well, w.status = S.well[t].status
  PROVE  Announces(S, UpdateWell(S, t, w), t)
<1> DEFINE S2 == UpdateWell(S, t, w)
<1>1. /\ S2.statuses = S.statuses /\ Defined(S2, t)
      /\ S2.well[t].status = S.well[t].status
  BY UpdateWellGood
<1>2. S2.events = S.events
  BY DEF UpdateWell, Good, Schedule
<1> HIDE DEF S2
<1>3. EventsGrow(S, S2)
  BY <1>2 DEF EventsGrow
<1> QED BY <1>1, <1>3, QuietStep DEF StatusOf, S2

LEMMA UpdateWellStatusAnnounces ==
  ASSUME NEW S, Good(S), NEW t \in Steps, Defined(S, t), Uniform(S, t),
         S.ids + 1 <= MaxObjects, NEW st \in Status
  PROVE  Announces(S, UpdateWellStatus(S, t, FALSE, st), t)
<1> DEFINE S1 == SetStatus(S, t, FALSE, st)
           S2 == AddEvent(S1, t, "WELL_STATUS_CHANGE")
<1>1. StatusOf(S1, t).status = st /\ S1.events = S.events
  BY SetStatusShows
<1>2. Good(S1) /\ Defined(S1, t)
  BY NewStatusGood DEF ParseStep
<1> HIDE DEF S1
<1>3. EventsGrow(S, S) /\ EventsGrow(S, S1)
  BY <1>1 DEF EventsGrow
<1>4. Announces(S, S, t)
  BY <1>3, QuietStep
<1>5. StatusOf(S, t).status = st => Announces(S, S1, t)
  BY <1>1, <1>2, <1>3, QuietStep
<1>6. Announces(S, S2, t)
  <2>1. Announces(S1, S2, t) /\ "WELL_STATUS_CHANGE" \in S2.events[t]
    BY <1>2, AddEventAnnounces DEF Event
  <2>2. EventsGrow(S, S2)
    BY <1>1, <2>1 DEF Announces, EventsGrow
  <2> QED BY <1>2, <2>1, <2>2 DEF Announces
<1> QED BY <1>4, <1>5, <1>6 DEF UpdateWellStatus, S1

LEMMA WithControlsAnnounces ==
  ASSUME NEW S, Good(S), NEW t \in Steps, Defined(S, t), S.ids + 1 <= MaxObjects,
         NEW zero \in BOOLEAN
  PROVE  Announces(S, WithControls(S, t, zero), t)
<1> DEFINE w == [S.well[t] EXCEPT !.canOpen = CrossFlow \/ ~zero]
<1>1. w \in Well /\ w.status = S.well[t].status
  BY DEF Good, Schedule, Defined, Well
<1>2. WithControls(S, t, zero) \in {S, UpdateWell(S, t, w)}
  BY DEF WithControls
<1>3. Announces(S, S, t)
  BY QuietStep DEF EventsGrow
<1> HIDE DEF w
<1> QED BY <1>1, <1>2, <1>3, UpdateWellAnnounces

\* State and rates of a WCONPROD or WCONHIST record.
LEMMA ControlAnnounces ==
  ASSUME NEW S, Good(S), NEW t \in Steps, Defined(S, t), Uniform(S, t),
         S.ids + 2 <= MaxObjects, NEW st \in Status, NEW zero \in BOOLEAN
  PROVE  Announces(S, WithControls(UpdateWellStatus(S, t, FALSE, st), t, zero), t)
<1> DEFINE S1 == UpdateWellStatus(S, t, FALSE, st)
<1>1. S.ids \in Nat /\ MaxObjects \in Nat /\ S.ids + 1 <= MaxObjects
  BY MaxObjectsAssumption DEF Good, Schedule
<1>2. ParseStep(S, S1, t, 1) /\ Announces(S, S1, t)
  BY <1>1, UpdateWellStatusParse, UpdateWellStatusAnnounces
<1> HIDE DEF S1
<1>3. Good(S1) /\ Defined(S1, t) /\ S1.ids + 1 <= MaxObjects
  BY <1>1, <1>2 DEF ParseStep, Good, Schedule
<1>4. Announces(S1, WithControls(S1, t, zero), t)
  BY <1>3, WithControlsAnnounces
<1> QED BY <1>2, <1>4, AnnouncesCompose DEF S1

\* WELOPEN of connections from the deck changes no status, at run time it may.
LEMMA WelopenConnectionsAnnounces ==
  ASSUME NEW S, Good(S), NEW t \in Steps, Defined(S, t), S.ids + 1 <= MaxObjects,
         NEW runtime \in BOOLEAN, NEW cells, NEW cs \in ConnState
  PROVE  LET S2 == WelopenConnections(S, t, runtime, cells, cs)
         IN EventsGrow(S, S2) /\ (~runtime => Announces(S, S2, t))
<1> DEFINE S2 == WelopenConnections(S, t, runtime, cells, cs)
<1>1. S2.events = S.events
  BY DEF WelopenConnections, Good, Schedule
<1>2. ASSUME ~runtime PROVE \A j \in Ids : S2.statuses[j].status = S.statuses[j].status
  BY <1>2 DEF WelopenConnections, Good, Schedule, WellStatus
<1>3. RunStep(S, S2, t)
  BY WelopenConnectionsGood
<1>4. S.well[t] \in Well /\ S.well[t].status \in Ids
  BY DEF Good, Schedule, Well, Defined
<1> HIDE DEF S2
<1>5. Defined(S2, t) /\ S2.well[t].status = S.well[t].status
  BY <1>3 DEF RunStep, SameStatuses
<1> QED BY <1>1, <1>2, <1>4, <1>5, QuietStep DEF EventsGrow, StatusOf, S2
\* Every keyword announces the status it gives the well at its step.
LEMMA KeywordAnnounces ==
  ASSUME Inv, Keyword PROVE Announces(sched, sched', step)
<1>1. /\ Good(sched) /\ step \in Steps /\ phase = "parse" /\ Uniform(sched, step)
      /\ sched.ids \in Nat /\ MaxObjects \in Nat
  BY KeywordWhileParsing, MaxObjectsAssumption DEF Inv, TypeOK, FutureIsUniform, Schedule
<1>2. CASE Welspecs
  <2>1. ~Defined(sched, step)
    BY <1>1, <1>2 DEF Welspecs
  <2>2. \A u \in Steps : sched.events[u] \subseteq sched'.events[u]
    BY <1>1, <1>2 DEF Welspecs, AddEvent, Good, Schedule
  <2> QED BY <2>1, <2>2 DEF Announces, EventsGrow
<1>3. CASE \E c \in Conns, cs \in ConnControls : Compdat(c, cs)
  <2> PICK c \in Conns, cs \in ConnControls : Compdat(c, cs)
    BY <1>3
  <2> DEFINE w == [sched.well[step] EXCEPT !.conns[c] = cs]
             S == IF sched.well[step].conns[c] = cs THEN sched ELSE UpdateWell(sched, step, w)
  <2>1. /\ Defined(sched, step) /\ sched.ids + 1 <= MaxObjects
        /\ sched' = AddEvent(S, step, "COMPLETION_CHANGE")
    BY DEF Compdat, ParsingWell, Parsing, CanAllocate
  <2>2. w \in Well /\ w.status = sched.well[step].status
    BY <1>1, <2>1, ControlsAssumption DEF Good, Schedule, Defined, Well, Connections
  <2> HIDE DEF w
  <2>3. Good(S) /\ Announces(sched, S, step)
    <3>1. Announces(sched, sched, step)
      BY <1>1, QuietStep DEF EventsGrow
    <3>2. /\ Good(UpdateWell(sched, step, w))
          /\ Announces(sched, UpdateWell(sched, step, w), step)
      BY <1>1, <2>1, <2>2, UpdateWellAnnounces, UpdateWellGood
    <3> QED BY <1>1, <3>1, <3>2
  <2> HIDE DEF S
  <2> QED BY <1>1, <2>1, <2>3, AddEventAnnounces, AnnouncesCompose DEF Event
<1>4. CASE \E e \in Efficiencies : Wefac(e)
  <2> PICK e \in Efficiencies : Wefac(e)
    BY <1>4
  <2> DEFINE w == [sched.well[step] EXCEPT !.efficiency = e]
  <2>1. /\ Defined(sched, step) /\ sched.ids + 1 <= MaxObjects
        /\ sched' = UpdateWell(sched, step, w)
    BY DEF Wefac, ParsingWell, Parsing, CanAllocate
  <2>2. w \in Well /\ w.status = sched.well[step].status
    BY <1>1, <2>1 DEF Good, Schedule, Defined, Well
  <2> HIDE DEF w
  <2> QED BY <1>1, <2>1, <2>2, UpdateWellAnnounces
<1>5. CASE \E st \in Controls, zero \in BOOLEAN : Wconprod(st, zero)
  <2> PICK st \in Controls, zero \in BOOLEAN : Wconprod(st, zero)
    BY <1>5
  <2>1. /\ Defined(sched, step) /\ sched.ids + 2 <= MaxObjects /\ st \in Status
        /\ sched' = WithControls(UpdateWellStatus(sched, step, FALSE, st), step, zero)
    BY ControlsAssumption DEF Wconprod, ParsingWell, Parsing, CanAllocate
  <2> QED BY <1>1, <2>1, ControlAnnounces
<1>6. CASE \E st \in Controls, zero \in BOOLEAN : Wconhist(st, zero)
  <2> PICK st \in Controls, zero \in BOOLEAN : Wconhist(st, zero)
    BY <1>6
  <2> DEFINE S == WithControls(UpdateWellStatus(sched, step, FALSE, st), step, zero)
  <2>1. /\ Defined(sched, step) /\ sched.ids + 3 <= MaxObjects /\ st \in Status
        /\ sched' = IF ~CrossFlow /\ zero
                    THEN UpdateWellStatus(S, step, FALSE, "SHUT") ELSE S
    BY ControlsAssumption DEF Wconhist, ParsingWell, Parsing, CanAllocate
  <2>2. sched.ids + 2 <= MaxObjects
    BY <1>1, <2>1
  <2>3. ParseStep(sched, S, step, 2) /\ Announces(sched, S, step)
    BY <1>1, <2>1, <2>2, ControlStep, ControlAnnounces
  <2> HIDE DEF S
  <2>4. Good(S) /\ Uniform(S, step) /\ Defined(S, step) /\ S.ids + 1 <= MaxObjects
    BY <1>1, <2>1, <2>3 DEF ParseStep, Good, Schedule
  <2>5. Announces(S, UpdateWellStatus(S, step, FALSE, "SHUT"), step)
    BY <1>1, <2>4, UpdateWellStatusAnnounces DEF Status
  <2>6. Announces(sched, UpdateWellStatus(S, step, FALSE, "SHUT"), step)
    BY <1>1, <2>3, <2>5, AnnouncesCompose
  <2> QED BY <2>1, <2>3, <2>6
<1>7. CASE \E st \in Controls : DeckWelopenWell(st)
  <2> PICK st \in Controls : DeckWelopenWell(st)
    BY <1>7
  <2>1. /\ Defined(sched, step) /\ sched.ids + 1 <= MaxObjects /\ st \in Status
        /\ sched' = UpdateWellStatus(sched, step, FALSE, st)
    BY ControlsAssumption DEF DeckWelopenWell, WelopenWell, ParsingWell, Parsing, CanAllocate
  <2> QED BY <1>1, <2>1, UpdateWellStatusAnnounces
<1>8. CASE \E cells \in SUBSET Conns, cs \in ConnControls : DeckWelopenConnections(cells, cs)
  <2> PICK cells \in SUBSET Conns, cs \in ConnControls : DeckWelopenConnections(cells, cs)
    BY <1>8
  <2> DEFINE S1 == CommitStatus(sched, step)
             S2 == WelopenConnections(S1, step, FALSE, cells, cs)
  <2>1. /\ Defined(sched, step) /\ sched.ids + 2 <= MaxObjects /\ cs \in ConnState
        /\ sched' = AddEvent(S2, step, "COMPLETION_CHANGE")
    BY ControlsAssumption DEF DeckWelopenConnections, ParsingWell, Parsing, CanAllocate
  <2>2. sched.ids + 1 <= MaxObjects
    BY <1>1, <2>1
  <2>3. StatusOf(sched, step).status \in Status
    BY <1>1, <2>1 DEF Good, Schedule, Defined, Well, WellStatus, StatusOf
  <2>4. ParseStep(sched, S1, step, 1)
    BY <1>1, <2>1, <2>2, <2>3, NewStatusGood DEF CommitStatus
  <2>5. /\ StatusOf(S1, step).status = StatusOf(sched, step).status
        /\ S1.events = sched.events
    BY <1>1, <2>1, <2>2, <2>3, SetStatusShows DEF CommitStatus
  <2> HIDE DEF S1
  <2>6. Good(S1) /\ Defined(S1, step) /\ S1.ids + 1 <= MaxObjects
    BY <1>1, <2>1, <2>4 DEF ParseStep, Good, Schedule
  <2>7. Announces(sched, S1, step)
    BY <1>1, <2>5, <2>6, QuietStep DEF EventsGrow
  <2>8. Good(S2) /\ Announces(S1, S2, step)
    BY <1>1, <2>1, <2>6, WelopenConnectionsGood, WelopenConnectionsAnnounces DEF RunStep
  <2> HIDE DEF S2
  <2>9. Announces(S2, sched', step)
    BY <1>1, <2>1, <2>8, AddEventAnnounces DEF Event
  <2> QED BY <1>1, <2>7, <2>8, <2>9, AnnouncesCompose
<1> QED BY <1>2, <1>3, <1>4, <1>5, <1>6, <1>7, <1>8 DEF Keyword

LEMMA EndCheckAnnounces ==
  ASSUME Inv, phase = "parse", CanAllocate(1, MaxObjects),
         sched' = CheckIfAllConnectionsIsShut(sched, step)
  PROVE  Announces(sched, sched', step)
<1>1. Good(sched) /\ step \in Steps /\ Uniform(sched, step) /\ sched.ids + 1 <= MaxObjects
  BY DEF Inv, TypeOK, FutureIsUniform, CanAllocate
<1>2. Announces(sched, sched, step)
  BY <1>1, QuietStep DEF EventsGrow
<1>3. Defined(sched, step) => Announces(sched, UpdateWellStatus(sched, step, FALSE, "SHUT"), step)
  BY <1>1, UpdateWellStatusAnnounces DEF Status
<1> QED BY <1>2, <1>3 DEF CheckIfAllConnectionsIsShut

\* Events are never taken back, at run time either.
LEMMA RunEventsGrow ==
  ASSUME Inv, RunNext PROVE EventsGrow(sched, sched')
<1>1. Good(sched) /\ step \in Steps
  BY DEF Inv, TypeOK
<1>2. ASSUME NEW st, sched' = UpdateWellStatus(sched, step, TRUE, st)
      PROVE  EventsGrow(sched, sched')
  <2> DEFINE S == SetStatus(sched, step, TRUE, st)
  <2>1. S.events = sched.events
    BY <1>1 DEF SetStatus, UpdateWell, Good, Schedule
  <2>2. AddEvent(S, step, "WELL_STATUS_CHANGE").events
          = [S.events EXCEPT ![step] = @ \cup {"WELL_STATUS_CHANGE"}]
    BY <1>1 DEF AddEvent, SetStatus, UpdateWell, Good, Schedule
  <2> HIDE DEF S
  <2>3. \A u \in Steps : /\ sched.events[u] \subseteq S.events[u]
                         /\ sched.events[u] \subseteq AddEvent(S, step, "WELL_STATUS_CHANGE").events[u]
    BY <1>1, <2>1, <2>2 DEF Good, Schedule
  <2> QED BY <1>2, <2>3 DEF UpdateWellStatus, EventsGrow, S
<1>3. CASE \E st \in {"SHUT", "OPEN", "STOP"} : SetWell(st)
  BY <1>2, <1>3 DEF SetWell
<1>4. CASE \E st \in Controls : ActionWelopenWell(st)
  BY <1>2, <1>4 DEF ActionWelopenWell, WelopenWell
<1>5. CASE \E cells \in SUBSET Conns, cs \in ConnControls : ActionWelopenConnections(cells, cs)
  <2> PICK cells \in SUBSET Conns, cs \in ConnControls : ActionWelopenConnections(cells, cs)
    BY <1>5
  <2> DEFINE S == WelopenConnections(sched, step, TRUE, cells, cs)
  <2>1. /\ Defined(sched, step) /\ sched.ids + 1 <= MaxObjects /\ cs \in ConnState
        /\ sched' = AddEvent(S, step, "COMPLETION_CHANGE")
    BY ControlsAssumption DEF ActionWelopenConnections, RunningWell, CanAllocate
  <2>2. Good(S) /\ EventsGrow(sched, S)
    BY <1>1, <2>1, WelopenConnectionsGood, WelopenConnectionsAnnounces DEF RunStep
  <2> HIDE DEF S
  <2>3. EventsGrow(S, sched')
    BY <1>1, <2>1, <2>2, AddEventAnnounces DEF Event, Announces
  <2> QED BY <2>2, <2>3 DEF EventsGrow
<1>6. CASE NextReportStep
  BY <1>6 DEF NextReportStep, EventsGrow
<1> QED BY <1>3, <1>4, <1>5, <1>6 DEF RunNext

-----------------------------------------------------------------------------
\* A well once defined is defined at all later steps, and its changes of
\* status are announced: in the views of a section read up to step "last".
Lasting(view) == \A t \in Steps \ {0} : view[t - 1] # Null => view[t] # Null

AnnouncedUpTo(view, events, last) ==
  \A t \in Steps \ {0} :
    t <= last /\ view[t - 1] # Null /\ view[t].status # view[t - 1].status
      => "WELL_STATUS_CHANGE" \in events[t]

\* What a keyword or the end of a report step leaves of the views of S.
LEMMA AnnouncedStep ==
  ASSUME NEW S, Good(S), NEW S2, NEW now \in Steps,
         Uniform(S, now), KeywordStep(S, S2, now), Announces(S, S2, now),
         Lasting([t \in Steps |-> View(S, t)]),
         AnnouncedUpTo([t \in Steps |-> View(S, t)], S.events, now)
  PROVE  /\ Lasting([t \in Steps |-> View(S2, t)])
         /\ \A last \in Steps : AnnouncedUpTo([t \in Steps |-> View(S2, t)], S2.events, last)
<1>1. ASSUME NEW T, Good(T), NEW t \in Steps
      PROVE  /\ View(T, t) # Null <=> Defined(T, t)
             /\ Defined(T, t) => View(T, t).status = StatusOf(T, t).status
  <2>1. CASE Defined(T, t)
    <3>1. T.well[t] \in Well /\ T.statuses[T.well[t].status] \in WellStatus
      BY <1>1, <2>1 DEF Good, Schedule, Defined, Well
    <3>2. View(T, t) \in Views
      BY <2>1, <3>1 DEF View, Views, Well, WellStatus, StatusOf
    <3> QED BY <2>1, <3>2, NullAssumption DEF View
  <2> QED BY <2>1 DEF View
<1>2. Good(S2) /\ SamePast(S, S2, now) /\ Uniform(S2, now)
  BY DEF KeywordStep
<1>3. \A t \in Steps : t >= now => View(S2, t) = View(S2, now) /\ View(S, t) = View(S, now)
  BY <1>2 DEF Uniform, View, Defined, StatusOf
<1>4. \A t \in Steps \ {0} : t - 1 \in Steps
  BY NStepsAssumption DEF Steps
<1>5. \A t \in Steps : t < now => View(S2, t) = View(S, t)
  BY <1>2 DEF SamePast
<1>6. View(S, now) # Null =>
        /\ View(S2, now) # Null
        /\ View(S2, now).status # View(S, now).status => "WELL_STATUS_CHANGE" \in S2.events[now]
  BY <1>1, <1>2 DEF Announces
<1>7. \A t \in Steps : S.events[t] \subseteq S2.events[t]
  BY DEF Announces, EventsGrow
<1>8. ASSUME NEW t \in Steps \ {0}, View(S2, t - 1) # Null
      PROVE  /\ View(S2, t) # Null
             /\ View(S2, t).status # View(S2, t - 1).status
                  => "WELL_STATUS_CHANGE" \in S2.events[t]
  <2>1. t - 1 \in Steps /\ t \in Int /\ now \in Int
    BY <1>4 DEF Steps
  <2>2. View(S, t - 1) # Null => View(S, t) # Null
    BY <2>1 DEF Lasting
  <2>3. t <= now /\ View(S, t - 1) # Null /\ View(S, t).status # View(S, t - 1).status
          => "WELL_STATUS_CHANGE" \in S.events[t]
    BY <2>1 DEF AnnouncedUpTo
  <2>4. CASE t < now
    BY <1>5, <1>7, <1>8, <2>1, <2>2, <2>3, <2>4
  <2>5. CASE t = now
    <3>1. View(S2, t - 1) = View(S, t - 1)
      BY <1>5, <2>1, <2>5
    <3>2. View(S, t) # Null /\ View(S2, t) # Null
      BY <1>6, <1>8, <2>2, <2>5, <3>1
    <3>3. CASE View(S2, t).status # View(S, t).status
      BY <1>6, <2>5, <3>2, <3>3
    <3>4. CASE View(S, t).status # View(S, t - 1).status
      <4>1. "WELL_STATUS_CHANGE" \in S.events[t]
        BY <1>8, <2>1, <2>3, <2>5, <3>1, <3>4
      <4> QED BY <1>7, <3>2, <4>1
    <3> QED BY <3>1, <3>2, <3>3, <3>4
  <2>6. CASE t > now
    BY <1>3, <1>8, <2>1, <2>6
  <2> QED BY <2>1, <2>4, <2>5, <2>6
<1>9. Lasting([t \in Steps |-> View(S2, t)])
  BY <1>4, <1>8 DEF Lasting
<1>10. ASSUME NEW last \in Steps
       PROVE  AnnouncedUpTo([t \in Steps |-> View(S2, t)], S2.events, last)
  BY <1>4, <1>8 DEF AnnouncedUpTo
<1> QED BY <1>9, <1>10

Reach == IF phase = "parse" THEN step ELSE NSteps - 1

Announced == Lasting(Values) /\ AnnouncedUpTo(Values, sched.events, Reach)

LEMMA AnnouncedInit == Init => Announced
<1> SUFFICES ASSUME Init PROVE Announced
  OBVIOUS
<1>1. \A t \in Steps : Values[t] = Null
  BY DEF Init, Filled, Steps, Values, SectionView, View, Defined
<1>2. \A t \in Steps \ {0} : t - 1 \in Steps
  BY NStepsAssumption DEF Steps
<1> QED BY <1>1, <1>2 DEF Announced, Lasting, AnnouncedUpTo

LEMMA AnnouncedNext ==
  ASSUME Inv, Announced, [Next]_vars PROVE Announced'
<1>1. Good(sched) /\ step \in Steps
  BY DEF Inv, TypeOK
<1>2. ASSUME phase = "parse", KeywordStep(sched, sched', step), Announces(sched, sched', step),
             Values' = [t \in Steps |-> View(sched', t)], Reach' \in Steps
      PROVE  Announced'
  <2>1. Values = [t \in Steps |-> View(sched, t)] /\ Reach = step /\ Uniform(sched, step)
    BY <1>2 DEF Values, SectionView, Reach, Inv, FutureIsUniform
  <2>2. /\ Lasting([t \in Steps |-> View(sched, t)])
        /\ AnnouncedUpTo([t \in Steps |-> View(sched, t)], sched.events, step)
    BY <2>1 DEF Announced
  <2>3. /\ Lasting([t \in Steps |-> View(sched', t)])
        /\ AnnouncedUpTo([t \in Steps |-> View(sched', t)], sched'.events, Reach')
    BY <1>1, <1>2, <2>1, <2>2, AnnouncedStep
  <2>4. Lasting(Values') /\ AnnouncedUpTo(Values', sched'.events, Reach')
    BY <1>2, <2>3
  <2> QED BY <2>4 DEF Announced, Lasting, AnnouncedUpTo
<1>3. ASSUME Values' = Values, Reach' = Reach, EventsGrow(sched, sched')
      PROVE  Announced'
  BY <1>3 DEF Announced, Lasting, AnnouncedUpTo, EventsGrow
<1>4. CASE Keyword
  <2>1. KeywordStep(sched, sched', step) /\ UNCHANGED <<phase, step, deck>> /\ phase = "parse"
    BY <1>4, KeywordIsStep, KeywordWhileParsing
  <2>2. Reach' = step
    BY <2>1 DEF Reach
  <2> QED BY <1>1, <1>2, <1>4, <2>1, <2>2, KeywordAnnounces, ParsingValues
<1>5. CASE \E next \in Steps : EndReportStep(next)
  <2> PICK next \in Steps : EndReportStep(next)
    BY <1>5
  <2>1. /\ phase = "parse" /\ phase' = phase /\ step' = next
        /\ KeywordStep(sched, sched', step) /\ Announces(sched, sched', step)
    BY EndCheckStep, EndCheckAnnounces DEF EndReportStep
  <2>2. Reach' = next
    BY <2>1 DEF Reach
  <2> QED BY <1>2, <2>1, <2>2, ParsingValues
<1>6. CASE EndSection
  <2>1. /\ phase = "parse" /\ phase' = "run"
        /\ KeywordStep(sched, sched', step) /\ Announces(sched, sched', step)
        /\ deck' = [t \in Steps |-> View(sched', t)]
    BY <1>6, EndCheckStep, EndCheckAnnounces DEF EndSection
  <2>2. Values' = [t \in Steps |-> View(sched', t)]
    BY <2>1 DEF Values, SectionView
  <2>3. Reach' \in Steps
    BY <2>1, NStepsAssumption DEF Reach, Steps
  <2> QED BY <1>2, <2>1, <2>2, <2>3
<1>7. CASE RunNext
  <2>1. phase = "run" /\ UNCHANGED <<phase, deck>> /\ EventsGrow(sched, sched')
    BY <1>7, RunIsStep, RunEventsGrow
  <2>2. Values' = Values /\ Reach' = Reach
    BY <2>1 DEF Values, SectionView, Reach
  <2> QED BY <1>3, <2>1, <2>2
<1>8. CASE UNCHANGED vars
  <2>1. Values' = Values /\ Reach' = Reach /\ EventsGrow(sched, sched')
    BY <1>8 DEF vars, Values, SectionView, View, StatusOf, Defined, Reach, EventsGrow
  <2> QED BY <1>3, <2>1
<1> QED BY <1>4, <1>5, <1>6, <1>7, <1>8 DEF Next, ParseNext

\* Whatever keywords a section holds, a status that differs from the one of
\* the step before comes with a WELL_STATUS_CHANGE event at its step.
THEOREM StatusChangesAnnounced == Spec => []StatusChangesAreAnnounced
<1>1. Announced => StatusChangesAreAnnounced
  <2> SUFFICES ASSUME Announced, NEW t \in Steps \ {0}, phase = "parse" => t <= step,
                      SectionView(t - 1) # Null,
                      SectionView(t).status # SectionView(t - 1).status
               PROVE  "WELL_STATUS_CHANGE" \in sched.events[t]
    BY DEF StatusChangesAreAnnounced
  <2>1. t - 1 \in Steps /\ t <= NSteps - 1
    BY NStepsAssumption DEF Steps
  <2>2. Values[t] = SectionView(t) /\ Values[t - 1] = SectionView(t - 1) /\ t <= Reach
    BY <2>1 DEF Values, Reach
  <2> QED BY <2>2 DEF Announced, AnnouncedUpTo
<1> QED BY <1>1, AnnouncedInit, AnnouncedNext, InvHolds, PTL DEF Spec
=============================================================================
