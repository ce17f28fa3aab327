------------------------ MODULE WellProdIndexProofs ------------------------
(***************************************************************************)
(* Proofs about WellProdIndex, for every number of report steps, every     *)
(* finite set of cells in both orders, and every bound on allocations.     *)
(*                                                                         *)
(* Every keyword publishes a copy of the well, with connections that are   *)
(* either shared or freshly allocated; two lemmas about that step carry    *)
(* the theorems.  The last one needs the places of the connections too:    *)
(* COMPDAT numbers them in the order of the input, and none gets another   *)
(* place at a later step.                                                  *)
(***************************************************************************)
EXTENDS WellProdIndex, FiniteSetTheorems, WellFoundedInduction, TLAPS

\* Unmarked connections of a heap carry the CF of their COMPDAT record.
Untouched(heap) ==
  \A id \in Ids, c \in Cells :
    heap[id][c] # Null /\ ~heap[id][c].subject => heap[id][c].scaled = 0

\* Every well of the timeline points to an object that was allocated.
InUse(S) == \A t \in Steps : S.well[t].conns <= S.ids

Good(S) == S \in Schedule /\ Untouched(S.heap) /\ InUse(S)

\* What S2 shows of the well before step t is what S shows.
SamePast(S, S2, t) == \A u \in Steps : u < t => ViewAt(S2, u) = ViewAt(S, u)

\* From step b on, the steps that share a WellConnections object are adjacent.
OnePiece(S, b) ==
  \A u, v, x \in Steps :
    b <= u /\ u < v /\ v < x /\ S.well[u].conns = S.well[x].conns
      => S.well[v].conns = S.well[u].conns

\* Nothing has divided the steps from t on.
Uniform(S, t) == \A u \in Steps : u >= t => S.well[u] = S.well[t]

\* What a keyword at step t leaves of both: the section keeps the well in one
\* piece from the beginning, the run time only from the report step on.
KeepsPieces(S, S2, t) ==
  /\ OnePiece(S, t) => OnePiece(S2, t)
  /\ Uniform(S, t) => Uniform(S2, t) /\ (OnePiece(S, 0) => OnePiece(S2, 0))

\* updateWell() with a copy of the well: the heap may have gained an object,
\* but no object in use has changed.
LEMMA PublishGood ==
  ASSUME NEW S, Good(S), NEW t \in Steps, S.ids < MaxObjects,
         NEW w \in Well, w.conns <= S.ids + 1,
         NEW H \in [Ids -> ConnectionSets], Untouched(H),
         \A i \in Ids : i <= S.ids => H[i] = S.heap[i]
  PROVE  LET S2 == UpdateWell([S EXCEPT !.heap = H], t, w)
         IN Good(S2) /\ SamePast(S, S2, t)
<1> DEFINE w2 == [w EXCEPT !.id = S.ids + 1]
           S2 == UpdateWell([S EXCEPT !.heap = H], t, w)
<1>1. /\ S \in Schedule /\ S.ids \in Int /\ S.ids + 1 \in Ids /\ DOMAIN S.well = Steps
      /\ S.ids + 1 \in 1 .. MaxObjects
  BY MaxObjectsAssumption DEF Good, Schedule, Ids
<1>2. w2 \in Well /\ w2.conns = w.conns
  BY <1>1 DEF Well
<1>3. /\ S2.well = UpdateEqual(S.well, t, w2) /\ S2.heap = H
      /\ S2.ids = S.ids + 1 /\ S2.events = S.events
      /\ S2 = [S EXCEPT !.heap = H, !.ids = S.ids + 1, !.well = UpdateEqual(S.well, t, w2)]
  BY <1>1 DEF UpdateWell, Schedule
<1>4. ASSUME NEW u \in Steps
      PROVE  /\ S2.well[u] \in {S.well[u], w2}
             /\ u < t => S2.well[u] = S.well[u]
  <2>1. S2.well[u] = IF u \in EqualRun(S.well, t) THEN w2 ELSE S.well[u]
    BY <1>1, <1>3 DEF UpdateEqual
  <2>2. u \in EqualRun(S.well, t) => u >= t
    BY DEF EqualRun
  <2>3. u \in Int /\ t \in Int
    BY DEF Steps
  <2> HIDE DEF S2, w2
  <2> QED BY <2>1, <2>2, <2>3
<1>5. S2.well \in [Steps -> Well]
  <2>1. UpdateEqual(S.well, t, w2) = [u \in Steps |-> UpdateEqual(S.well, t, w2)[u]]
    BY <1>1 DEF UpdateEqual
  <2>2. \A u \in Steps : S.well[u] \in Well
    BY <1>1 DEF Schedule
  <2> QED BY <1>2, <1>3, <1>4, <2>1, <2>2
<1>6. S2 \in Schedule
  BY <1>1, <1>3, <1>5 DEF Schedule
<1>7. InUse(S2)
  <2> SUFFICES ASSUME NEW u \in Steps PROVE S2.well[u].conns <= S.ids + 1
    BY <1>3 DEF InUse
  <2>1. S.well[u].conns <= S.ids /\ S.well[u].conns \in Int
    BY <1>1 DEF Good, InUse, Schedule, Well, Ids
  <2>2. S2.well[u] = S.well[u] \/ S2.well[u] = w2
    BY <1>4
  <2>3. w2.conns <= S.ids + 1
    BY <1>2
  <2> HIDE DEF S2, w2
  <2> QED BY <1>1, <2>1, <2>2, <2>3
<1>8. SamePast(S, S2, t)
  <2> SUFFICES ASSUME NEW u \in Steps, u < t PROVE ViewAt(S2, u) = ViewAt(S, u)
    BY DEF SamePast
  <2>1. S2.well[u] = S.well[u]
    BY <1>4
  <2>2. S.well[u].conns \in Ids /\ S.well[u].conns <= S.ids
    BY <1>1 DEF Good, InUse, Schedule, Well
  <2>3. H[S.well[u].conns] = S.heap[S.well[u].conns]
    BY <2>2
  <2> QED BY <1>3, <2>1, <2>3 DEF ViewAt, ConnsAt
<1> QED BY <1>3, <1>6, <1>7, <1>8 DEF Good

\* The copy covers the run of steps equal to t: what shares an object goes on
\* to do so, or ends where the run does.
LEMMA PublishPieces ==
  ASSUME NEW S, Good(S), NEW t \in Steps, NEW w \in Well, NEW S2,
         w.conns = S.well[t].conns \/ w.conns = S.ids + 1,
         S2.well = UpdateEqual(S.well, t, [w EXCEPT !.id = S.ids + 1])
  PROVE  KeepsPieces(S, S2, t)
<1> DEFINE w2 == [w EXCEPT !.id = S.ids + 1]
           E == EqualRun(S.well, t)
<1>1. DOMAIN S.well = Steps /\ \A u \in Steps : u \in Int
  BY DEF Good, Schedule, Steps
<1>2. w2.conns = w.conns
  BY DEF Well
<1>3. \A u \in Steps : S2.well[u] = IF u \in E THEN w2 ELSE S.well[u]
  BY <1>1 DEF UpdateEqual
<1>4. /\ \A u \in E : u \in Steps /\ u >= t /\ S.well[u] = S.well[t]
      /\ \A u \in E, v \in Steps : t <= v /\ v < u => v \in E
      /\ t \in E
  BY <1>1 DEF EqualRun
<1>5. ASSUME Uniform(S, t), NEW u \in Steps, u >= t PROVE u \in E
  <2>1. \A v \in t .. u : v \in Steps /\ v >= t
    BY <1>5, NStepsAssumption DEF Steps
  <2>2. \A v \in t .. u : S.well[v] = S.well[t]
    BY <1>5, <2>1 DEF Uniform
  <2> QED BY <1>1, <1>5, <2>2 DEF EqualRun
<1> HIDE DEF E, w2
<1>6. Uniform(S, t) => Uniform(S2, t)
  BY <1>1, <1>3, <1>4, <1>5 DEF Uniform
<1>7. \A u \in Steps : S.well[u].conns <= S.ids /\ S.well[u].conns \in Int /\ S.ids \in Int
  BY DEF Good, InUse, Schedule, Well, Ids
<1>8. ASSUME NEW b \in Int, OnePiece(S, b), b = t \/ Uniform(S, t)
      PROVE  OnePiece(S2, b)
  <2> SUFFICES ASSUME NEW u \in Steps, NEW v \in Steps, NEW x \in Steps,
                      b <= u, u < v, v < x, S2.well[u].conns = S2.well[x].conns
               PROVE  S2.well[v].conns = S2.well[u].conns
    BY DEF OnePiece
  <2>1. S.well[u].conns = S.well[x].conns => S.well[v].conns = S.well[u].conns
    BY <1>8 DEF OnePiece
  <2>2. CASE w.conns = S.well[t].conns
    <3>1. \A y \in Steps : S2.well[y].conns = S.well[y].conns
      BY <1>2, <1>3, <1>4, <2>2
    <3> QED BY <2>1, <3>1
  <2>3. CASE w.conns = S.ids + 1
    <3>1. \A y \in Steps : IF y \in E THEN S2.well[y].conns = S.ids + 1
                          ELSE S2.well[y].conns = S.well[y].conns
      BY <1>2, <1>3, <2>3
    <3>2. u \in E <=> x \in E
      BY <1>7, <3>1
    <3>3. u \in E => v \in E
      BY <1>1, <1>4, <3>2
    <3>4. v \in E => u \in E
      <4> SUFFICES ASSUME v \in E PROVE u \in E
        OBVIOUS
      <4>1. v >= t
        BY <1>4
      <4>2. CASE u >= t
        BY <1>1, <1>4, <4>2
      <4>3. CASE u < t
        BY <1>1, <1>5, <1>8, <3>2, <4>1, <4>3
      <4> QED BY <1>1, <4>2, <4>3
    <3> QED BY <2>1, <3>1, <3>2, <3>3, <3>4
  <2> QED BY <2>2, <2>3
<1>9. t \in Int /\ 0 \in Int
  BY <1>1
<1> QED BY <1>6, <1>8, <1>9 DEF KeepsPieces

-----------------------------------------------------------------------------
\* COMPDAT finds a place for the connection, and specifies it anew.
LEMMA LoadCompdatType ==
  ASSUME NEW conns \in ConnectionSets, NEW c \in Cells
  PROVE  /\ LoadCompdat(conns, c) \in ConnectionSets
         /\ \A d \in Cells : LoadCompdat(conns, c)[d] # Null /\ ~LoadCompdat(conns, c)[d].subject =>
              \/ LoadCompdat(conns, c)[d].scaled = 0
              \/ LoadCompdat(conns, c)[d] = conns[d]
<1> DEFINE place == IF conns[c] = Null THEN Cardinality(Connected(conns)) ELSE conns[c].place
           new == [place |-> place, subject |-> FALSE, scaled |-> 0]
<1>1. place \in 0 .. Cardinality(Cells) - 1
  <2>1. CASE conns[c] = Null
    <3>1. Connected(conns) \subseteq Cells /\ Connected(conns) # Cells
      BY <2>1 DEF Connected
    <3>2. /\ IsFiniteSet(Connected(conns)) /\ Cardinality(Connected(conns)) \in Nat
          /\ Cardinality(Cells) \in Nat
          /\ Cardinality(Connected(conns)) < Cardinality(Cells)
      BY <3>1, CellsAssumption, FS_Subset, FS_CardinalityType
    <3> QED BY <2>1, <3>2
  <2>2. CASE conns[c] # Null
    BY <2>2 DEF ConnectionSets, Connection
  <2> QED BY <2>1, <2>2
<1>2. new \in Connection
  BY <1>1 DEF Connection
<1>3. LoadCompdat(conns, c) = [conns EXCEPT ![c] = new]
  BY DEF LoadCompdat
<1> QED BY <1>2, <1>3 DEF ConnectionSets

\* WELPI marks connections and changes nothing else about them.
LEMMA PrepareType ==
  ASSUME NEW conns \in ConnectionSets
  PROVE  /\ PrepareScaling(conns) \in ConnectionSets
         /\ \A d \in Cells : PrepareScaling(conns)[d] # Null => PrepareScaling(conns)[d].subject
<1>1. ASSUME NEW d \in Cells, conns[d] # Null
      PROVE  [conns[d] EXCEPT !.subject = TRUE] \in Connection
             /\ [conns[d] EXCEPT !.subject = TRUE].subject
  <2>1. conns[d] \in Connection
    BY <1>1 DEF ConnectionSets
  <2> QED BY <2>1 DEF Connection
<1> QED BY <1>1 DEF PrepareScaling, ConnectionSets

-----------------------------------------------------------------------------
LEMMA ScaledType ==
  ASSUME NEW r \in Connection, NEW k \in Nat
  PROVE  LET r2 == [r EXCEPT !.scaled = @ + k]
         IN r2 \in Connection /\ r2.subject = r.subject /\ r2.scaled = r.scaled + k
<1>1. r.scaled + k \in Nat
  BY DEF Connection
<1>2. [r EXCEPT !.scaled = @ + k] = [r EXCEPT !.scaled = r.scaled + k]
  BY DEF Connection
<1> QED BY <1>1, <1>2, Zenon DEF Connection

\* A recalculation leaves a good schedule; it may only raise the number of
\* scalings of connections that are marked.
LEMMA ApplyScalingGood ==
  ASSUME NEW S, Good(S), NEW t \in Steps
  PROVE  Good(ApplyScaling(S, t))
<1> DEFINE visits(id, c) == {u \in Applied(S, t) : S.well[u].conns = id /\ Scales(S, t, u, c)}
           H == [id \in Ids |-> [c \in Cells |->
                  IF S.heap[id][c] = Null THEN Null
                  ELSE [S.heap[id][c] EXCEPT !.scaled = @ + Cardinality(visits(id, c))]]]
           S2 == ApplyScaling(S, t)
<1>1. S \in Schedule /\ Untouched(S.heap) /\ InUse(S)
  BY DEF Good
<1>2. S2 = [S EXCEPT !.heap = H]
  BY DEF ApplyScaling
<1>3. Applied(S, t) \subseteq Steps /\ IsFiniteSet(Steps)
  <2>1. Applied(S, t) \subseteq DOMAIN S.well
    BY DEF Applied, Visited, UniqueSteps
  <2>2. IsFiniteSet(Steps)
    BY NStepsAssumption, FS_Interval DEF Steps
  <2> QED BY <1>1, <2>1, <2>2 DEF Schedule
<1>4. ASSUME NEW id \in Ids, NEW c \in Cells, S.heap[id][c] # Null
      PROVE  /\ H[id][c] \in Connection
             /\ H[id][c].subject = S.heap[id][c].subject
             /\ ~H[id][c].subject => H[id][c].scaled = 0
  <2>1. S.heap[id][c] \in Connection
    BY <1>1, <1>4 DEF Schedule, ConnectionSets
  <2>2. Cardinality(visits(id, c)) \in Nat
    <3>1. visits(id, c) \subseteq Steps
      BY <1>3
    <3>2. IsFiniteSet(visits(id, c))
      BY <1>3, <3>1, FS_Subset
    <3> HIDE DEF visits
    <3> QED BY <3>2, FS_CardinalityType
  <2>3. H[id][c] = [S.heap[id][c] EXCEPT !.scaled = @ + Cardinality(visits(id, c))]
    BY <1>4
  <2>4. /\ H[id][c] \in Connection
        /\ H[id][c].subject = S.heap[id][c].subject
        /\ H[id][c].scaled = S.heap[id][c].scaled + Cardinality(visits(id, c))
    <3> HIDE DEF visits, H
    <3> QED BY <2>1, <2>2, <2>3, ScaledType
  <2>5. ASSUME ~S.heap[id][c].subject
        PROVE  H[id][c].scaled = 0
    <3>1. visits(id, c) = {}
      BY <2>5 DEF Scales, ConnsAt
    <3>2. Cardinality(visits(id, c)) = 0
      BY <3>1, FS_EmptySet
    <3>3. S.heap[id][c].scaled = 0
      BY <1>1, <1>4, <2>5 DEF Untouched
    <3> HIDE DEF visits, H
    <3> QED BY <2>4, <3>2, <3>3
  <2> HIDE DEF visits, H
  <2> QED BY <2>4, <2>5
<1>5. \A id \in Ids, c \in Cells : S.heap[id][c] = Null => H[id][c] = Null
  OBVIOUS
<1>6. H \in [Ids -> ConnectionSets]
  <2>1. \A id \in Ids, c \in Cells : H[id][c] \in Connection \cup {Null}
    BY <1>4, <1>5
  <2> QED BY <2>1 DEF ConnectionSets
<1>7. Untouched(H)
  <2> HIDE DEF H
  <2> QED BY <1>4, <1>5 DEF Untouched
<1> HIDE DEF H
<1>8. S2 \in Schedule /\ S2.well = S.well /\ S2.ids = S.ids /\ S2.heap = H
  BY <1>1, <1>2, <1>6 DEF Schedule
<1> QED BY <1>1, <1>7, <1>8 DEF Good, InUse

-----------------------------------------------------------------------------
\* The keywords, at the step they are read or triggered at.
WellNow == sched.well[step] \in Well /\ sched.well[step].conns \in Ids
           /\ sched.well[step].conns <= sched.ids /\ sched.ids + 1 \in Ids

LEMMA WellNowHolds ==
  ASSUME Good(sched), step \in Steps, sched.ids < MaxObjects
  PROVE  WellNow
BY MaxObjectsAssumption DEF WellNow, Good, InUse, Schedule, Well, Ids

\* A heap with a fresh object at the next address is as PublishGood wants it.
LEMMA FreshObject ==
  ASSUME Good(sched), step \in Steps, sched.ids < MaxObjects,
         NEW new \in ConnectionSets,
         \A c \in Cells : new[c] # Null /\ ~new[c].subject => new[c].scaled = 0
  PROVE  LET H == [sched.heap EXCEPT ![sched.ids + 1] = new]
         IN /\ H \in [Ids -> ConnectionSets]
            /\ Untouched(H)
            /\ \A i \in Ids : i <= sched.ids => H[i] = sched.heap[i]
<1>1. sched.heap \in [Ids -> ConnectionSets] /\ Untouched(sched.heap)
      /\ sched.ids \in Int /\ sched.ids + 1 \in Ids
  BY MaxObjectsAssumption DEF Good, Schedule, Ids
<1> QED BY <1>1 DEF Untouched, Ids

LEMMA CompdatStep ==
  ASSUME Good(sched), step \in Steps, NEW c \in Cells, Compdat(c)
  PROVE  Good(sched') /\ SamePast(sched, sched', step) /\ KeepsPieces(sched, sched', step)
<1> DEFINE old == ConnsAt(sched, step)
           new == LoadCompdat(old, c)
           H == [sched.heap EXCEPT ![sched.ids + 1] = new]
           w == [sched.well[step] EXCEPT !.conns = sched.ids + 1]
<1>1. sched.ids < MaxObjects /\ WellNow /\ sched \in Schedule
  BY WellNowHolds DEF Compdat, Parsing, CanAllocate, Good
<1>2. sched' = UpdateWell([sched EXCEPT !.heap = H], step, w)
  BY <1>1 DEF Compdat, Schedule
<1>3. old \in ConnectionSets /\ \A d \in Cells : old[d] # Null /\ ~old[d].subject => old[d].scaled = 0
  BY <1>1 DEF ConnsAt, WellNow, Schedule, Good, Untouched
<1>4. new \in ConnectionSets /\ \A d \in Cells : new[d] # Null /\ ~new[d].subject => new[d].scaled = 0
  <2> HIDE DEF old
  <2> QED BY <1>3, LoadCompdatType
<1>5. H \in [Ids -> ConnectionSets] /\ Untouched(H)
      /\ \A i \in Ids : i <= sched.ids => H[i] = sched.heap[i]
  <2> HIDE DEF new
  <2> QED BY <1>1, <1>4, FreshObject
<1>6. w \in Well /\ w.conns = sched.ids + 1 /\ w.conns <= sched.ids + 1
  BY <1>1 DEF WellNow, Well, Ids
<1> HIDE DEF H, w
<1>7. sched'.well = UpdateEqual(sched.well, step, [w EXCEPT !.id = sched.ids + 1])
  BY <1>1, <1>2 DEF UpdateWell, Schedule
<1> QED BY <1>1, <1>2, <1>5, <1>6, <1>7, PublishGood, PublishPieces

LEMMA WelpiStep ==
  ASSUME Good(sched), step \in Steps, sched.ids < MaxObjects,
         NEW pi \in ProdIndices, NEW eventStep \in Steps, Welpi(pi, eventStep)
  PROVE  Good(sched') /\ SamePast(sched, sched', step) /\ KeepsPieces(sched, sched', step)
<1> DEFINE old == sched.well[step]
           new == PrepareScaling(sched.heap[old.conns])
           H == [sched.heap EXCEPT ![sched.ids + 1] = new]
           w == [id |-> old.id, conns |-> sched.ids + 1, pi |-> pi]
           S == SetProdIndex(sched, step, pi)
<1>1. WellNow /\ sched \in Schedule
  BY WellNowHolds DEF Good
<1>2. S = sched \/ S = UpdateWell([sched EXCEPT !.heap = H], step, w)
  BY <1>1 DEF SetProdIndex, Schedule
<1>3. sched.heap[old.conns] \in ConnectionSets
  BY <1>1 DEF WellNow, Schedule
<1>4. new \in ConnectionSets /\ \A d \in Cells : new[d] # Null => new[d].subject
  BY <1>3, PrepareType
<1>5. H \in [Ids -> ConnectionSets] /\ Untouched(H)
      /\ \A i \in Ids : i <= sched.ids => H[i] = sched.heap[i]
  <2> HIDE DEF new
  <2> QED BY <1>4, FreshObject
<1>6. w \in Well /\ w.conns <= sched.ids + 1
  <2>1. old \in Well /\ sched.ids + 1 \in Ids /\ sched.ids + 1 \in Int
    BY <1>1 DEF WellNow, Ids
  <2>2. old.id \in Ids
    BY <2>1 DEF Well
  <2> HIDE DEF old
  <2> QED BY <2>1, <2>2 DEF Well
<1>7. Good(S) /\ SamePast(sched, S, step) /\ KeepsPieces(sched, S, step)
  <2>1. CASE S = sched
    BY <2>1 DEF SamePast, KeepsPieces
  <2>2. CASE S = UpdateWell([sched EXCEPT !.heap = H], step, w)
    <3>1. w.conns = sched.ids + 1
      OBVIOUS
    <3> HIDE DEF H, w, S
    <3>2. S.well = UpdateEqual(sched.well, step, [w EXCEPT !.id = sched.ids + 1])
      BY <1>1, <2>2 DEF UpdateWell, Schedule
    <3> QED BY <1>5, <1>6, <2>2, <3>1, <3>2, PublishGood, PublishPieces
  <2> QED BY <1>2, <2>1, <2>2
<1> HIDE DEF S
<1>8. sched' = [S EXCEPT !.events = @ \cup {eventStep}]
  BY DEF Welpi, S
<1>9. /\ sched' \in Schedule
      /\ sched'.well = S.well /\ sched'.heap = S.heap /\ sched'.ids = S.ids
  <2>1. S \in Schedule
    BY <1>7 DEF Good
  <2>2. S.events \cup {eventStep} \in SUBSET Steps
    BY <2>1 DEF Schedule
  <2> QED BY <1>8, <2>1, <2>2 DEF Schedule
<1>10. KeepsPieces(sched, sched', step)
  BY <1>7, <1>9 DEF KeepsPieces, OnePiece, Uniform
<1> QED BY <1>7, <1>9, <1>10 DEF Good, InUse, SamePast, ViewAt, ConnsAt

LEMMA OtherKeywordStep ==
  ASSUME Good(sched), step \in Steps, sched.ids < MaxObjects, OtherKeyword
  PROVE  Good(sched') /\ SamePast(sched, sched', step) /\ KeepsPieces(sched, sched', step)
<1>1. WellNow /\ sched \in Schedule /\ Untouched(sched.heap)
  BY WellNowHolds DEF Good
<1>2. sched = [sched EXCEPT !.heap = sched.heap]
  BY <1>1 DEF Schedule
<1>3. sched' = UpdateWell([sched EXCEPT !.heap = sched.heap], step, sched.well[step])
  BY <1>2 DEF OtherKeyword
<1>4. sched.heap \in [Ids -> ConnectionSets] /\ sched.well[step] \in Well
      /\ sched.well[step].conns <= sched.ids + 1
  BY <1>1 DEF WellNow, Schedule, Ids
<1>5. sched'.well = UpdateEqual(sched.well, step, [sched.well[step] EXCEPT !.id = sched.ids + 1])
  BY <1>1, <1>3 DEF UpdateWell, Schedule
<1> QED BY <1>1, <1>3, <1>4, <1>5, PublishGood, PublishPieces DEF WellNow

-----------------------------------------------------------------------------
\* A step that has started is followed by another one.
Inv == TypeOK /\ Good(sched) /\ (phase = "end" => step + 1 \in Steps)

LEMMA InitInv == Init => Inv
<1> SUFFICES ASSUME Init PROVE Inv
  OBVIOUS
<1> DEFINE w == [id |-> 1, conns |-> 1, pi |-> Null]
           H == [i \in Ids |-> [c \in Cells |-> Null]]
<1>1. 1 \in Ids /\ 1 \in 1 .. MaxObjects /\ 0 \in Steps
  BY MaxObjectsAssumption, NStepsAssumption DEF Ids, Steps
<1>2. w \in Well
  BY <1>1 DEF Well
<1>3. Filled(NSteps, w) \in [Steps -> Well]
  BY <1>2 DEF Filled, Steps
<1>4. H \in [Ids -> ConnectionSets] /\ Untouched(H)
  BY DEF ConnectionSets, Untouched
<1>5. sched \in Schedule /\ sched.heap = H /\ sched.ids = 1 /\ sched.well = Filled(NSteps, w)
  BY <1>1, <1>3, <1>4 DEF Init, Schedule
<1>6. InUse(sched)
  BY <1>5 DEF InUse, Filled, Steps
<1> HIDE DEF H
<1> QED BY <1>1, <1>4, <1>5, <1>6 DEF Inv, TypeOK, Good, Init

\* Every step keeps the invariant; only a recalculation touches the past.
LEMMA NextStep ==
  ASSUME Inv, [Next]_vars
  PROVE  Inv' /\ (phase # "start" => SamePast(sched, sched', step))
<1>1. /\ Good(sched) /\ step \in Steps /\ phase \in {"parse", "start", "end"}
      /\ phase = "end" => step + 1 \in Steps
  BY DEF Inv, TypeOK
<1>2. ASSUME Good(sched'), step' \in Steps, phase' \in {"parse", "start", "end"},
             phase' = "end" => step' + 1 \in Steps
      PROVE  Inv'
  BY <1>2 DEF Inv, TypeOK, Good
<1>3. CASE \E c \in Cells : Compdat(c)
  <2>1. PICK c \in Cells : Compdat(c)
    BY <1>3
  <2>2. Good(sched') /\ SamePast(sched, sched', step)
    BY <1>1, <2>1, CompdatStep
  <2>3. phase' = "parse" /\ step' = step
    BY <2>1 DEF Compdat, Parsing
  <2> QED BY <1>1, <1>2, <2>2, <2>3
<1>4. CASE \E pi \in ProdIndices : DeckWelpi(pi)
  BY <1>1, <1>2, <1>4, WelpiStep DEF DeckWelpi, Parsing, CanAllocate, Welpi
<1>5. CASE DeckOther
  BY <1>1, <1>2, <1>5, OtherKeywordStep DEF DeckOther, Parsing, CanAllocate, OtherKeyword
<1>6. CASE EndReportStep
  BY <1>1, <1>2, <1>6 DEF EndReportStep, SamePast
<1>7. CASE EndSection
  BY <1>1, <1>2, <1>7, NStepsAssumption DEF EndSection, Steps, SamePast
<1>8. CASE StartReportStep
  BY <1>1, <1>2, <1>8, ApplyScalingGood, NStepsAssumption DEF StartReportStep, Steps
<1>9. CASE \E pi \in ProdIndices : ActionWelpi(pi)
  BY <1>1, <1>2, <1>9, WelpiStep DEF ActionWelpi, CanAllocate, Welpi
<1>10. CASE ActionOther
  BY <1>1, <1>2, <1>10, OtherKeywordStep DEF ActionOther, CanAllocate, OtherKeyword
<1>11. CASE NextReportStep
  BY <1>1, <1>2, <1>11 DEF NextReportStep, SamePast
<1>12. CASE UNCHANGED vars
  BY <1>1, <1>2, <1>12 DEF vars, SamePast
<1> QED BY <1>3, <1>4, <1>5, <1>6, <1>7, <1>8, <1>9, <1>10, <1>11, <1>12
        DEF Next, ParseNext, RunNext

LEMMA InvHolds == Spec => []Inv
<1>1. Inv /\ [Next]_vars => Inv'
  BY NextStep
<1> QED BY <1>1, InitInv, PTL DEF Spec

\* Steps, pointers and connections stay what the types of the code allow.
THEOREM TypeCorrect == Spec => []TypeOK
<1>1. Inv => TypeOK
  BY DEF Inv
<1> QED BY <1>1, InvHolds, PTL

\* No recalculation ever scales the factor of a COMPDAT record that no WELPI
\* has marked, whatever objects share it.
THEOREM UnmarkedFactors == Spec => []UnmarkedKeepsDeckFactor
<1>1. Inv => UnmarkedKeepsDeckFactor
  BY DEF Inv, Good, Untouched, UnmarkedKeepsDeckFactor
<1> QED BY <1>1, InvHolds, PTL

\* A keyword, read or triggered, leaves the well of the steps before it alone,
\* through all the objects it shares with them.
THEOREM PastKept == Spec => KeywordsKeepThePast
<1>1. Inv /\ [Next]_vars =>
        [phase # "start" =>
           \A t \in Steps : t < step => ViewAt(sched', t) = ViewAt(sched, t)]_vars
  BY NextStep DEF SamePast
<1> QED BY <1>1, InvHolds, PTL DEF Spec, KeywordsKeepThePast
-----------------------------------------------------------------------------
(* A recalculation comes to each WellConnections object once.              *)

\* A run time keyword may split the steps of an object in two, but only where
\* one of the two lies in the past of every later recalculation.
Pieces ==
  IF phase = "parse"
  THEN Uniform(sched, step) /\ OnePiece(sched, 0)
  ELSE OnePiece(sched, step)

LEMMA PiecesInit == Init => Pieces
<1> SUFFICES ASSUME Init PROVE Pieces
  OBVIOUS
<1>1. phase = "parse" /\ step \in Steps
  BY NStepsAssumption DEF Init, Steps
<1>2. \A u, v \in Steps : sched.well[u] = sched.well[v]
  BY DEF Init, Filled, Steps
<1> QED BY <1>1, <1>2 DEF Pieces, Uniform, OnePiece

LEMMA PiecesKeyword ==
  ASSUME KeepsPieces(sched, sched', step), Pieces, UNCHANGED <<phase, step>>
  PROVE  Pieces'
BY DEF KeepsPieces, Pieces, Uniform, OnePiece

LEMMA PiecesStep == ASSUME Inv, Pieces, [Next]_vars PROVE Pieces'
<1>1. Good(sched) /\ step \in Steps /\ step \in Int /\ (phase = "end" => step + 1 \in Steps)
  BY DEF Inv, TypeOK, Steps
<1>2. CASE \E c \in Cells : Compdat(c)
  BY <1>1, <1>2, CompdatStep, PiecesKeyword DEF Compdat
<1>3. CASE \E pi \in ProdIndices : DeckWelpi(pi)
  BY <1>1, <1>3, WelpiStep, PiecesKeyword DEF DeckWelpi, Parsing, CanAllocate, Welpi
<1>4. CASE DeckOther
  BY <1>1, <1>4, OtherKeywordStep, PiecesKeyword DEF DeckOther, Parsing, CanAllocate, OtherKeyword
<1>5. CASE EndReportStep
  BY <1>1, <1>5 DEF EndReportStep, Pieces, Uniform, OnePiece, Steps
<1>6. CASE EndSection
  BY <1>6 DEF EndSection, Pieces, OnePiece
<1>7. CASE StartReportStep
  <2>1. sched'.well = sched.well /\ step' = step /\ phase = "start" /\ phase' = "end"
    BY <1>1, <1>7 DEF StartReportStep, ApplyScaling, Good, Schedule
  <2> QED BY <2>1 DEF Pieces, OnePiece
<1>8. CASE \E pi \in ProdIndices : ActionWelpi(pi)
  BY <1>1, <1>8, WelpiStep, PiecesKeyword DEF ActionWelpi, CanAllocate, Welpi
<1>9. CASE ActionOther
  BY <1>1, <1>9, OtherKeywordStep, PiecesKeyword DEF ActionOther, CanAllocate, OtherKeyword
<1>10. CASE NextReportStep
  BY <1>1, <1>10 DEF NextReportStep, Pieces, OnePiece, Steps
<1>11. CASE UNCHANGED vars
  BY <1>11 DEF vars, Pieces, OnePiece, Uniform
<1> QED BY <1>2, <1>3, <1>4, <1>5, <1>6, <1>7, <1>8, <1>9, <1>10, <1>11
        DEF Next, ParseNext, RunNext

\* A set of steps has a last one.
LEMMA Latest ==
  ASSUME NEW A, A \subseteq Steps, A # {}
  PROVE  \E m \in A : \A x \in A : x <= m
<1> DEFINE R == {p \in Nat \X Nat : p[1] < p[2]}
           B == {NSteps - x : x \in A}
<1>1. IsWellFoundedOn(R, Nat)
  BY NatLessThanWellFounded DEF OpToRel
<1>2. B \subseteq Nat /\ B # {}
  <2>1. \A x \in Steps : NSteps - x \in Nat
    BY NStepsAssumption DEF Steps
  <2> QED BY <2>1
<1>3. PICK y \in B : \A z \in B : ~ (<<z, y>> \in R)
  <2> HIDE DEF R, B
  <2> QED BY <1>1, <1>2, WFMin
<1>4. PICK m \in A : y = NSteps - m
  OBVIOUS
<1>5. ASSUME NEW x \in A PROVE x <= m
  <2>1. NSteps - x \in B /\ NSteps - x \in Nat /\ y \in Nat
    BY <1>2
  <2>2. ~ (NSteps - x < y)
    BY <1>3, <2>1
  <2> QED BY <1>4, <2>2, NStepsAssumption DEF Steps
<1> QED BY <1>5

\* The comparison with the object before is enough: two objects that are both
\* applied do not share their connections.
LEMMA AppliedDistinct ==
  ASSUME NEW S, Good(S), NEW t \in Steps, OnePiece(S, t),
         NEW u \in Applied(S, t), NEW x \in Applied(S, t), u < x
  PROVE  S.well[u].conns # S.well[x].conns
<1> SUFFICES ASSUME S.well[u].conns = S.well[x].conns PROVE FALSE
  OBVIOUS
<1>1. /\ u \in Visited(S, t) /\ x \in Visited(S, t)
      /\ \A y \in Visited(S, t) : y \in Steps /\ y \in Int /\ y >= t
  <2>1. DOMAIN S.well = Steps
    BY DEF Good, Schedule
  <2>2. u \in Visited(S, t) /\ x \in Visited(S, t)
    BY DEF Applied
  <2> QED BY <2>1, <2>2 DEF Visited, UniqueSteps, Steps
<1> DEFINE before == {y \in Visited(S, t) : y < x}
<1>2. PICK v \in before : \A y \in before : y <= v
  <2>1. before \subseteq Steps /\ before # {}
    BY <1>1
  <2> HIDE DEF before
  <2> QED BY <2>1, Latest
<1>3. u <= v /\ v < x /\ v \in Visited(S, t)
  BY <1>1, <1>2
<1>4. S.well[v].conns = S.well[u].conns
  BY <1>1, <1>3 DEF OnePiece
<1>5. S.well[v].conns # S.well[x].conns
  BY <1>2, <1>3 DEF Applied
<1> QED BY <1>4, <1>5

LEMMA ScalesOnce ==
  ASSUME NEW S, Good(S), NEW t \in Steps, OnePiece(S, t),
         NEW id \in Ids, NEW c \in Cells, S.heap[id][c] # Null
  PROVE  ApplyScaling(S, t).heap[id][c].scaled <= S.heap[id][c].scaled + 1
<1> DEFINE visits == {u \in Applied(S, t) : S.well[u].conns = id /\ Scales(S, t, u, c)}
<1>1. S.heap[id][c] \in Connection /\ S.heap[id][c].scaled \in Nat
  BY DEF Good, Schedule, ConnectionSets, Connection
<1>2. ApplyScaling(S, t).heap[id][c]
        = [S.heap[id][c] EXCEPT !.scaled = @ + Cardinality(visits)]
  BY DEF ApplyScaling, Good, Schedule
<1>3. Cardinality(visits) \in {0, 1}
  <2>1. \A u \in visits, x \in visits : u \in Int /\ x \in Int /\ ~ (u < x)
    <3>1. \A u \in Applied(S, t) : u \in Int
      BY DEF Applied, Visited, UniqueSteps, Good, Schedule, Steps
    <3> QED BY <3>1, AppliedDistinct
  <2>2. visits = {} \/ \E u : visits = {u}
    <3> HIDE DEF visits
    <3>1. \A u \in visits, x \in visits : u = x
      BY <2>1
    <3> QED BY <3>1
  <2> HIDE DEF visits
  <2> QED BY <2>2, FS_EmptySet, FS_Singleton
<1> HIDE DEF visits
<1>4. ApplyScaling(S, t).heap[id][c].scaled = S.heap[id][c].scaled + Cardinality(visits)
  <2>1. Cardinality(visits) \in Nat
    BY <1>3
  <2> QED BY <1>1, <1>2, <2>1, ScaledType
<1> QED BY <1>1, <1>3, <1>4

LEMMA StartScalesOnce ==
  ASSUME Inv, Pieces, [Next]_vars, phase = "start",
         NEW id \in Ids, NEW c \in Cells, sched.heap[id][c] # Null
  PROVE  sched'.heap[id][c].scaled <= sched.heap[id][c].scaled + 1
<1>1. Good(sched) /\ step \in Steps /\ OnePiece(sched, step)
  BY DEF Inv, TypeOK, Pieces
<1>2. CASE sched' = sched
  <2>1. sched.heap[id][c].scaled \in Nat
    BY <1>1 DEF Good, Schedule, ConnectionSets, Connection
  <2> QED BY <1>2, <2>1
<1>3. CASE sched' = ApplyScaling(sched, step)
  BY <1>1, <1>3, ScalesOnce
<1>4. sched' = sched \/ sched' = ApplyScaling(sched, step)
  BY DEF Next, ParseNext, RunNext, vars, Compdat, DeckWelpi, DeckOther, Parsing, EndReportStep,
         EndSection, StartReportStep, ActionWelpi, ActionOther, NextReportStep
<1> QED BY <1>2, <1>3, <1>4

\* However many Well objects share their connections, and wherever run time
\* changes have divided them, one recalculation multiplies a factor once.
THEOREM ScaledOnce == Spec => ScaledOncePerStep
<1>1. Inv /\ Pieces /\ [Next]_vars => Pieces'
  BY PiecesStep
<1>2. Inv /\ Pieces /\ [Next]_vars =>
        [phase = "start" => \A id \in Ids, c \in Cells :
           sched.heap[id][c] # Null =>
             sched'.heap[id][c].scaled <= sched.heap[id][c].scaled + 1]_vars
  BY StartScalesOnce
<1> QED BY <1>1, <1>2, PiecesInit, InvHolds, PTL DEF Spec, ScaledOncePerStep

-----------------------------------------------------------------------------
(* A recalculation scales by index, and in the order of the input an index *)
(* is a connection.                                                        *)

\* The connections of an object have the first places, each another one.
Numbered(conns) ==
  /\ \A c \in Connected(conns) : conns[c].place < Cardinality(Connected(conns))
  /\ \A c, d \in Connected(conns) : conns[c].place = conns[d].place => c = d

\* A connection stays, and keeps its place.
Keeps(conns, later) ==
  \A c \in Connected(conns) : c \in Connected(later) /\ later[c].place = conns[c].place

\* Well objects with the same connections have the same index.
SameIndex(S) ==
  \A u, v \in Steps : S.well[u].conns = S.well[v].conns => S.well[u].pi = S.well[v].pi

\* What the order of the input and the lack of a COMPDAT at run time give.
Shaped(S) ==
  /\ SameIndex(S)
  /\ \A u \in Steps : Numbered(ConnsAt(S, u))
  /\ \A u, v \in Steps : u <= v => Keeps(ConnsAt(S, u), ConnsAt(S, v))

-----------------------------------------------------------------------------
\* What updateWell() leaves to see, of the connections and of the index.
LEMMA PublishViews ==
  ASSUME NEW S, Good(S), NEW t \in Steps, NEW w \in Well, NEW S2, NEW H,
         \/ w.conns = S.well[t].conns /\ w.pi = S.well[t].pi
         \/ w.conns = S.ids + 1,
         \A i \in Ids : i <= S.ids => H[i] = S.heap[i],
         S2.heap = H, S2.well = UpdateEqual(S.well, t, [w EXCEPT !.id = S.ids + 1])
  PROVE  /\ \A u \in Steps :
              \/ u \in EqualRun(S.well, t) /\ ConnsAt(S2, u) = H[w.conns]
              \/ u \notin EqualRun(S.well, t) /\ ConnsAt(S2, u) = ConnsAt(S, u)
         /\ SameIndex(S) => SameIndex(S2)
<1> DEFINE w2 == [w EXCEPT !.id = S.ids + 1]
           E == EqualRun(S.well, t)
<1>1. DOMAIN S.well = Steps /\ \A u \in Steps : S.well[u].conns \in Ids /\ S.well[u].conns <= S.ids
  BY DEF Good, Schedule, InUse, Well
<1>2. w2.conns = w.conns /\ w2.pi = w.pi
  BY DEF Well
<1>3. \A u \in Steps : S2.well[u] = IF u \in E THEN w2 ELSE S.well[u]
  BY <1>1 DEF UpdateEqual
<1>4. \A u \in E : u \in Steps /\ S.well[u] = S.well[t]
  BY <1>1 DEF EqualRun, Steps
<1> HIDE DEF E, w2
<1>5. ASSUME NEW u \in Steps
      PROVE  \/ u \in E /\ ConnsAt(S2, u) = H[w.conns]
             \/ u \notin E /\ ConnsAt(S2, u) = ConnsAt(S, u)
  BY <1>1, <1>2, <1>3 DEF ConnsAt
<1>6. SameIndex(S) => SameIndex(S2)
  <2> SUFFICES ASSUME SameIndex(S), NEW u \in Steps, NEW v \in Steps,
                      S2.well[u].conns = S2.well[v].conns
               PROVE  S2.well[u].pi = S2.well[v].pi
    BY DEF SameIndex
  <2>1. CASE w.conns = S.ids + 1
    <3>1. S.ids \in Int /\ \A x \in Steps : S.well[x].conns \in Int
      BY <1>1 DEF Good, Schedule, Ids
    <3> QED BY <1>1, <1>2, <1>3, <2>1, <3>1 DEF SameIndex
  <2>2. CASE w.conns = S.well[t].conns /\ w.pi = S.well[t].pi
    <3>1. \A x \in Steps : S2.well[x].conns = S.well[x].conns /\ S2.well[x].pi = S.well[x].pi
      BY <1>2, <1>3, <1>4, <2>2
    <3> QED BY <3>1 DEF SameIndex
  <2> QED BY <2>1, <2>2
<1> QED BY <1>5, <1>6 DEF E

\* Connections with the same cells in the same places.
Alike(conns, other) == Keeps(conns, other) /\ Keeps(other, conns)

\* The shape is a matter of cells and places.
LEMMA AlikeShape ==
  ASSUME NEW S, NEW S2, Shaped(S), SameIndex(S2),
         \A u \in Steps : Alike(ConnsAt(S, u), ConnsAt(S2, u))
  PROVE  Shaped(S2)
<1>1. \A u \in Steps : Connected(ConnsAt(S2, u)) = Connected(ConnsAt(S, u))
  BY DEF Alike, Keeps
<1>2. \A u \in Steps : \A c \in Connected(ConnsAt(S, u)) :
        ConnsAt(S2, u)[c].place = ConnsAt(S, u)[c].place
  BY DEF Alike, Keeps
<1>3. \A u \in Steps : Numbered(ConnsAt(S2, u))
  BY <1>1, <1>2 DEF Shaped, Numbered
<1>4. \A u, v \in Steps : u <= v => Keeps(ConnsAt(S2, u), ConnsAt(S2, v))
  BY <1>1, <1>2 DEF Shaped, Keeps
<1> QED BY <1>3, <1>4 DEF Shaped

\* WELPI leaves cells and places.
LEMMA PrepareAlike ==
  ASSUME NEW conns \in ConnectionSets
  PROVE  Alike(conns, PrepareScaling(conns))
<1>1. ASSUME NEW c \in Cells
      PROVE  /\ conns[c] = Null <=> PrepareScaling(conns)[c] = Null
             /\ conns[c] # Null => PrepareScaling(conns)[c].place = conns[c].place
  <2>1. CASE conns[c] = Null
    BY <2>1 DEF PrepareScaling
  <2>2. CASE conns[c] # Null
    <3>1. conns[c] \in Connection
      BY <2>2 DEF ConnectionSets
    <3>2. /\ [conns[c] EXCEPT !.subject = TRUE] \in Connection
          /\ [conns[c] EXCEPT !.subject = TRUE].place = conns[c].place
      BY <3>1 DEF Connection
    <3>3. PrepareScaling(conns)[c] = [conns[c] EXCEPT !.subject = TRUE]
      BY <2>2 DEF PrepareScaling
    <3> QED BY <2>2, <3>2, <3>3, NullAssumption
  <2> QED BY <2>1, <2>2
<1> QED BY <1>1 DEF Alike, Keeps, Connected

\* COMPDAT appends a connection that is new, and puts one back in its place.
LEMMA LoadCompdatShape ==
  ASSUME NEW conns \in ConnectionSets, NEW c \in Cells, Numbered(conns)
  PROVE  Numbered(LoadCompdat(conns, c)) /\ Keeps(conns, LoadCompdat(conns, c))
<1> DEFINE new == LoadCompdat(conns, c)
           n == Cardinality(Connected(conns))
           place == IF conns[c] = Null THEN n ELSE conns[c].place
           put == [place |-> place, subject |-> FALSE, scaled |-> 0]
<1>1. new = [conns EXCEPT ![c] = put] /\ DOMAIN conns = Cells /\ put.place = place
  BY DEF LoadCompdat, ConnectionSets
<1>2. IsFiniteSet(Connected(conns)) /\ n \in Nat /\ Connected(conns) \subseteq Cells
  <2>1. Connected(conns) \subseteq Cells
    BY DEF Connected
  <2> QED BY <2>1, CellsAssumption, FS_Subset, FS_CardinalityType
<1>3. put # Null
  <2>1. new \in ConnectionSets
    BY LoadCompdatType
  <2>2. new[c] = put
    BY <1>1
  <2>3. put \notin Connection => put = Null
    BY <2>1, <2>2 DEF ConnectionSets
  <2>4. place \in Nat
    BY <1>2 DEF ConnectionSets, Connection
  <2>5. place \in 0 .. Cardinality(Cells) - 1
    <3>1. CASE conns[c] = Null
      <4>1. Connected(conns) # Cells
        BY <3>1 DEF Connected
      <4>2. n < Cardinality(Cells) /\ Cardinality(Cells) \in Nat
        BY <1>2, <4>1, CellsAssumption, FS_Subset, FS_CardinalityType
      <4> QED BY <1>2, <3>1, <4>2
    <3>2. CASE conns[c] # Null
      BY <3>2 DEF ConnectionSets, Connection
    <3> QED BY <3>1, <3>2
  <2>6. put \in Connection
    BY <2>5 DEF Connection
  <2> QED BY <2>6, NullAssumption
<1>4. /\ new[c] = put
      /\ \A d \in Cells : d # c => new[d] = conns[d]
  BY <1>1
<1> HIDE DEF new, put
<1>5. Connected(new) = Connected(conns) \cup {c}
  BY <1>3, <1>4 DEF Connected
<1>6. \A d \in Connected(conns) : conns[d].place \in Int /\ conns[d].place < n
  BY DEF Numbered, Connected, ConnectionSets, Connection
<1>7. CASE c \in Connected(conns)
  <2>1. \A d \in Connected(conns) : new[d].place = conns[d].place
    <3>1. place = conns[c].place
      BY <1>7 DEF Connected
    <3> QED BY <1>1, <1>2, <1>4, <3>1
  <2>2. Connected(new) = Connected(conns)
    BY <1>5, <1>7
  <2> QED BY <2>1, <2>2 DEF Numbered, Keeps, new
<1>8. CASE c \notin Connected(conns)
  <2>1. new[c].place = n
    BY <1>1, <1>4, <1>8 DEF Connected
  <2>2. \A d \in Connected(conns) : new[d].place = conns[d].place
    BY <1>2, <1>4, <1>8
  <2>3. Cardinality(Connected(new)) = n + 1
    BY <1>2, <1>5, <1>8, FS_AddElement
  <2> HIDE DEF n
  <2>4. \A d \in Connected(new) : new[d].place < n + 1 /\ (d # c => new[d].place # n)
    BY <1>2, <1>5, <1>6, <2>1, <2>2
  <2>5. Numbered(new)
    BY <1>5, <2>1, <2>2, <2>3, <2>4 DEF Numbered
  <2>6. Keeps(conns, new)
    BY <1>5, <2>2 DEF Keeps
  <2> QED BY <2>5, <2>6 DEF new
<1> QED BY <1>7, <1>8

\* A keyword that numbers no connection anew.
LEMMA SameNumbers ==
  ASSUME NEW S, Good(S), Shaped(S), NEW t \in Steps, NEW w \in Well, NEW S2, NEW H,
         \/ w.conns = S.well[t].conns /\ w.pi = S.well[t].pi
         \/ w.conns = S.ids + 1,
         \A i \in Ids : i <= S.ids => H[i] = S.heap[i],
         Alike(ConnsAt(S, t), H[w.conns]),
         S2.heap = H, S2.well = UpdateEqual(S.well, t, [w EXCEPT !.id = S.ids + 1])
  PROVE  Shaped(S2)
<1>1. ASSUME NEW u \in Steps PROVE Alike(ConnsAt(S, u), ConnsAt(S2, u))
  <2>1. CASE u \in EqualRun(S.well, t) /\ ConnsAt(S2, u) = H[w.conns]
    <3>1. S.well[u] = S.well[t]
      BY <2>1 DEF EqualRun, Steps
    <3>2. ConnsAt(S, u) = ConnsAt(S, t)
      BY <3>1 DEF ConnsAt
    <3> QED BY <2>1, <3>2
  <2>2. CASE ConnsAt(S2, u) = ConnsAt(S, u)
    BY <2>2 DEF Alike, Keeps
  <2> QED BY <2>1, <2>2, PublishViews
<1>2. SameIndex(S2)
  BY PublishViews DEF Shaped
<1> QED BY <1>1, <1>2, AlikeShape

\* COMPDAT is read at a step from which on the well is uniform.
LEMMA CompdatShape ==
  ASSUME Good(sched), step \in Steps, Shaped(sched), Uniform(sched, step),
         NEW c \in Cells, Compdat(c)
  PROVE  Shaped(sched')
<1> DEFINE old == ConnsAt(sched, step)
           new == LoadCompdat(old, c)
           H == [sched.heap EXCEPT ![sched.ids + 1] = new]
           w == [sched.well[step] EXCEPT !.conns = sched.ids + 1]
           E == EqualRun(sched.well, step)
<1>1. /\ sched.ids < MaxObjects /\ WellNow /\ sched \in Schedule
      /\ \A u \in Steps : u \in Int
  BY WellNowHolds DEF Compdat, Parsing, CanAllocate, Good, Steps
<1>2. sched' = UpdateWell([sched EXCEPT !.heap = H], step, w)
  BY <1>1 DEF Compdat, Schedule
<1>3. w \in Well /\ w.conns = sched.ids + 1 /\ H[w.conns] = new
      /\ \A i \in Ids : i <= sched.ids => H[i] = sched.heap[i]
  <2>1. DOMAIN sched.heap = Ids /\ sched.ids + 1 \in Ids /\ sched.ids \in Int
        /\ \A i \in Ids : i \in Int
    BY <1>1, MaxObjectsAssumption DEF WellNow, Schedule, Ids
  <2>2. w \in Well /\ w.conns = sched.ids + 1
    BY <1>1 DEF WellNow, Well
  <2> HIDE DEF new, w
  <2>3. H[sched.ids + 1] = new /\ \A i \in Ids : i <= sched.ids => H[i] = sched.heap[i]
    BY <2>1
  <2> QED BY <2>2, <2>3
<1>4. old \in ConnectionSets /\ Numbered(old)
  BY <1>1 DEF ConnsAt, WellNow, Schedule, Shaped
<1>5. Numbered(new) /\ Keeps(old, new)
  <2> HIDE DEF old
  <2> QED BY <1>4, LoadCompdatShape
<1> HIDE DEF H, w, new
<1>6. /\ sched'.heap = H
      /\ sched'.well = UpdateEqual(sched.well, step, [w EXCEPT !.id = sched.ids + 1])
  BY <1>1, <1>2 DEF UpdateWell, Schedule
<1>7. PICK S2 : S2 = sched'
  OBVIOUS
<1>8. /\ \A u \in Steps : \/ u \in E /\ ConnsAt(S2, u) = new
                          \/ u \notin E /\ ConnsAt(S2, u) = ConnsAt(sched, u)
      /\ SameIndex(S2)
  <2>1. SameIndex(sched)
    BY DEF Shaped
  <2> QED BY <1>3, <1>6, <1>7, <2>1, PublishViews
<1>9. /\ \A u \in E : u >= step /\ ConnsAt(sched, u) = old
      /\ \A u \in Steps : u >= step => u \in E
  <2>1. DOMAIN sched.well = Steps
    BY <1>1 DEF Schedule
  <2>2. \A u \in E : u >= step /\ sched.well[u] = sched.well[step]
    BY <1>1, <2>1 DEF EqualRun
  <2>3. ASSUME NEW u \in Steps, u >= step PROVE u \in E
    <3>1. \A v \in step .. u : v \in Steps /\ v >= step
      BY <2>3, NStepsAssumption DEF Steps
    <3>2. \A v \in step .. u : sched.well[v] = sched.well[step]
      BY <3>1 DEF Uniform
    <3> QED BY <2>1, <2>3, <3>2 DEF EqualRun
  <2> QED BY <2>2, <2>3 DEF ConnsAt
<1> HIDE DEF E, old
<1>10. \A u \in Steps : Numbered(ConnsAt(S2, u))
  BY <1>5, <1>8 DEF Shaped
<1>11. ASSUME NEW u \in Steps, NEW v \in Steps, u <= v
       PROVE  Keeps(ConnsAt(S2, u), ConnsAt(S2, v))
  <2>1. CASE u \in E
    <3>1. v \in E
      BY <1>1, <1>9, <1>11, <2>1
    <3>2. ConnsAt(S2, u) = new /\ ConnsAt(S2, v) = new
      BY <1>8, <2>1, <3>1
    <3> QED BY <3>2 DEF Keeps
  <2>2. CASE u \notin E
    <3>1. Keeps(ConnsAt(sched, u), ConnsAt(sched, v)) /\ ConnsAt(S2, u) = ConnsAt(sched, u)
      BY <1>8, <1>11, <2>2 DEF Shaped
    <3>2. CASE v \in E
      <4>1. ConnsAt(sched, v) = old /\ ConnsAt(S2, v) = new
        BY <1>8, <1>9, <3>2
      <4> QED BY <1>5, <3>1, <4>1 DEF Keeps
    <3>3. CASE v \notin E
      BY <1>8, <3>1, <3>3
    <3> QED BY <3>2, <3>3
  <2> QED BY <2>1, <2>2
<1> QED BY <1>7, <1>8, <1>10, <1>11 DEF Shaped

\* WELPI, read or triggered.
LEMMA WelpiShape ==
  ASSUME Good(sched), step \in Steps, sched.ids < MaxObjects, Shaped(sched),
         NEW pi \in ProdIndices, NEW eventStep \in Steps, Welpi(pi, eventStep)
  PROVE  Shaped(sched')
<1> DEFINE old == sched.well[step]
           new == PrepareScaling(sched.heap[old.conns])
           H == [sched.heap EXCEPT ![sched.ids + 1] = new]
           w == [id |-> old.id, conns |-> sched.ids + 1, pi |-> pi]
           S == SetProdIndex(sched, step, pi)
<1>1. WellNow /\ sched \in Schedule
  BY WellNowHolds DEF Good
<1>2. S = sched \/ S = UpdateWell([sched EXCEPT !.heap = H], step, w)
  BY <1>1 DEF SetProdIndex, Schedule
<1>3. Alike(ConnsAt(sched, step), new)
  <2>1. sched.heap[old.conns] \in ConnectionSets
    BY <1>1 DEF WellNow, Schedule
  <2> HIDE DEF old
  <2> QED BY <2>1, PrepareAlike DEF ConnsAt, old
<1>4. /\ H[sched.ids + 1] = new
      /\ \A i \in Ids : i <= sched.ids => H[i] = sched.heap[i]
  <2>1. DOMAIN sched.heap = Ids /\ sched.ids + 1 \in Ids /\ sched.ids \in Int
        /\ \A i \in Ids : i \in Int
    BY <1>1, MaxObjectsAssumption DEF WellNow, Schedule, Ids
  <2> HIDE DEF new
  <2> QED BY <2>1
<1>5. w \in Well /\ w.conns = sched.ids + 1
  <2>1. old \in Well /\ sched.ids + 1 \in Ids
    BY <1>1 DEF WellNow
  <2>2. old.id \in Ids
    BY <2>1 DEF Well
  <2> HIDE DEF old
  <2> QED BY <2>1, <2>2 DEF Well
<1> HIDE DEF H, w, new
<1>6. Shaped(S)
  <2>1. CASE S = sched
    BY <2>1
  <2>2. CASE S = UpdateWell([sched EXCEPT !.heap = H], step, w)
    <3> HIDE DEF S
    <3>1. /\ S.heap = H
          /\ S.well = UpdateEqual(sched.well, step, [w EXCEPT !.id = sched.ids + 1])
      BY <1>1, <2>2 DEF UpdateWell, Schedule
    <3> QED BY <1>3, <1>4, <1>5, <3>1, SameNumbers
  <2> QED BY <1>2, <2>1, <2>2
<1>7. sched' = [S EXCEPT !.events = @ \cup {eventStep}]
  BY DEF Welpi
<1> HIDE DEF S
<1>8. sched'.heap = S.heap /\ sched'.well = S.well
  BY <1>7
<1> QED BY <1>6, <1>8 DEF Shaped, SameIndex, ConnsAt

\* A copy that shares its connections.
LEMMA OtherShape ==
  ASSUME Good(sched), step \in Steps, sched.ids < MaxObjects, Shaped(sched), OtherKeyword
  PROVE  Shaped(sched')
<1>1. WellNow /\ sched \in Schedule
  BY WellNowHolds DEF Good
<1>2. /\ sched'.heap = sched.heap
      /\ sched'.well = UpdateEqual(sched.well, step, [sched.well[step] EXCEPT !.id = sched.ids + 1])
  BY <1>1 DEF OtherKeyword, UpdateWell, Schedule
<1>3. Alike(ConnsAt(sched, step), sched.heap[sched.well[step].conns])
  BY DEF Alike, Keeps, ConnsAt
<1>4. sched.well[step] \in Well
  BY <1>1 DEF WellNow
<1>5. PICK S2 : S2 = sched'
  OBVIOUS
<1> QED BY <1>2, <1>3, <1>4, <1>5, SameNumbers

\* A recalculation changes no place.
LEMMA ScalingShape ==
  ASSUME NEW S, Good(S), Shaped(S), NEW t \in Steps
  PROVE  Shaped(ApplyScaling(S, t))
<1> DEFINE S2 == ApplyScaling(S, t)
           visits(id, c) == {u \in Applied(S, t) : S.well[u].conns = id /\ Scales(S, t, u, c)}
<1>1. S \in Schedule /\ S2.well = S.well
      /\ S2.heap = [id \in Ids |-> [c \in Cells |->
                     IF S.heap[id][c] = Null THEN Null
                     ELSE [S.heap[id][c] EXCEPT !.scaled = @ + Cardinality(visits(id, c))]]]
  BY DEF ApplyScaling, Good, Schedule
<1> HIDE DEF visits, S2
<1>3. SameIndex(S2)
  BY <1>1 DEF Shaped, SameIndex
<1>4. ASSUME NEW u \in Steps PROVE Alike(ConnsAt(S, u), ConnsAt(S2, u))
  <2> DEFINE id == S.well[u].conns
  <2>1. id \in Ids /\ ConnsAt(S, u) = S.heap[id] /\ ConnsAt(S2, u) = S2.heap[id]
    BY <1>1 DEF ConnsAt, Schedule, Well
  <2> HIDE DEF id
  <2>2. ASSUME NEW c \in Cells
        PROVE  /\ S.heap[id][c] = Null <=> S2.heap[id][c] = Null
               /\ S.heap[id][c] # Null => S2.heap[id][c].place = S.heap[id][c].place
    <3>1. CASE S.heap[id][c] = Null
      BY <1>1, <2>1, <3>1
    <3>2. CASE S.heap[id][c] # Null
      <4>1. S.heap[id][c] \in Connection
        BY <1>1, <2>1, <3>2 DEF Schedule, ConnectionSets
      <4>2. PICK k \in Nat : k = S.heap[id][c].scaled + Cardinality(visits(id, c))
        <5>1. visits(id, c) \subseteq Steps
          BY <1>1 DEF visits, Applied, Visited, UniqueSteps, Schedule
        <5>2. Cardinality(visits(id, c)) \in Nat
          <6>1. IsFiniteSet(Steps)
            BY NStepsAssumption, FS_Interval DEF Steps
          <6>2. IsFiniteSet(visits(id, c))
            BY <5>1, <6>1, FS_Subset
          <6> QED BY <6>2, FS_CardinalityType
        <5> QED BY <4>1, <5>2 DEF Connection
      <4>3. S2.heap[id][c] = [S.heap[id][c] EXCEPT !.scaled = k]
        BY <1>1, <2>1, <3>2, <4>1, <4>2 DEF Connection
      <4>4. S2.heap[id][c] \in Connection /\ S2.heap[id][c].place = S.heap[id][c].place
        BY <4>1, <4>2, <4>3 DEF Connection
      <4>5. S2.heap[id][c] # Null
        BY <4>4, NullAssumption
      <4> QED BY <3>2, <4>4, <4>5
    <3> QED BY <3>1, <3>2
  <2> QED BY <2>1, <2>2 DEF Alike, Keeps, Connected
<1> QED BY <1>3, <1>4, AlikeShape DEF S2

\* A well without connections.
LEMMA ShapedInit == Init => Shaped(sched)
<1> SUFFICES ASSUME Init PROVE Shaped(sched)
  OBVIOUS
<1>1. \A u \in Steps : sched.well[u] = [id |-> 1, conns |-> 1, pi |-> Null] /\ 1 \in Ids
  BY MaxObjectsAssumption DEF Init, Filled, Steps, Ids
<1>2. \A u \in Steps : Connected(ConnsAt(sched, u)) = {}
  BY <1>1 DEF Init, ConnsAt, Connected
<1>3. SameIndex(sched)
  BY <1>1 DEF SameIndex
<1> QED BY <1>2, <1>3 DEF Shaped, Numbered, Keeps

\* Every step keeps the shape.
LEMMA ShapedStep == ASSUME Inv, Pieces, Shaped(sched), [Next]_vars PROVE Shaped(sched')
<1>1. Good(sched) /\ step \in Steps /\ (phase = "end" => step + 1 \in Steps)
  BY DEF Inv, TypeOK
<1>2. ASSUME NEW c \in Cells, Compdat(c) PROVE Shaped(sched')
  <2>1. Uniform(sched, step)
    BY <1>2 DEF Pieces, Compdat, Parsing
  <2> QED BY <1>1, <1>2, <2>1, CompdatShape
<1>3. CASE \E pi \in ProdIndices : DeckWelpi(pi)
  BY <1>1, <1>3, WelpiShape DEF DeckWelpi, Parsing, CanAllocate
<1>4. CASE \E pi \in ProdIndices : ActionWelpi(pi)
  BY <1>1, <1>4, WelpiShape DEF ActionWelpi, CanAllocate
<1>5. CASE DeckOther \/ ActionOther
  BY <1>1, <1>5, OtherShape DEF DeckOther, ActionOther, Parsing, CanAllocate
<1>6. CASE StartReportStep
  BY <1>1, <1>6, ScalingShape DEF StartReportStep
<1>7. CASE sched' = sched
  BY <1>7
<1> QED BY <1>2, <1>3, <1>4, <1>5, <1>6, <1>7
        DEF Next, ParseNext, RunNext, EndReportStep, EndSection, NextReportStep, vars

-----------------------------------------------------------------------------
\* An object that the recalculation comes to is applied, or one before it that
\* has the same connections is.
LEMMA AppliedFirst ==
  ASSUME NEW S, Good(S), NEW t \in Steps, NEW u \in Visited(S, t)
  PROVE  \E x \in Applied(S, t) : x <= u /\ S.well[x].conns = S.well[u].conns
<1> DEFINE same == {x \in Visited(S, t) : x <= u /\ S.well[x].conns = S.well[u].conns}
           R == {p \in Nat \X Nat : p[1] < p[2]}
<1>1. \A x \in Visited(S, t) : x \in Steps /\ x \in Nat /\ x \in Int
  BY NStepsAssumption DEF Visited, UniqueSteps, Good, Schedule, Steps
<1>2. same \subseteq Nat /\ same # {}
  BY <1>1
<1>3. IsWellFoundedOn(R, Nat)
  BY NatLessThanWellFounded DEF OpToRel
<1>4. PICK x \in same : \A z \in same : ~ (<<z, x>> \in R)
  <2> HIDE DEF R, same
  <2> QED BY <1>2, <1>3, WFMin
<1>5. \A z \in same : ~ (z < x)
  BY <1>2, <1>4
<1>6. ASSUME NEW v \in Visited(S, t), v < x PROVE S.well[v].conns # S.well[x].conns
  BY <1>1, <1>5, <1>6
<1>7. x \in Applied(S, t)
  BY <1>6 DEF Applied
<1> QED BY <1>7

\* A recalculation scales the connection c of the object at u if and only if
\* no object so far has it unmarked.
LEMMA ScalesMarked ==
  ASSUME NEW S, Good(S), Shaped(S), NEW t \in Steps, OnePiece(S, t), ~Track,
         NEW u \in Visited(S, t), NEW c \in Cells, Active(S, u), ConnsAt(S, u)[c] # Null
  PROVE  (\E x \in Applied(S, t) : S.well[x].conns = S.well[u].conns /\ Scales(S, t, x, c))
           <=> MarkedThrough(S, t, u, c)
<1>1. PICK x \in Applied(S, t) : x <= u /\ S.well[x].conns = S.well[u].conns
  BY AppliedFirst
<1>2. \A v \in Visited(S, t) : v \in Steps /\ v \in Int /\ v >= t
  BY NStepsAssumption DEF Visited, UniqueSteps, Good, Schedule, Steps
<1>3. Applied(S, t) \subseteq Visited(S, t)
  BY DEF Applied
<1>4. ASSUME NEW v \in Applied(S, t), S.well[v].conns = S.well[u].conns PROVE v = x
  <2>1. ~(v < x) /\ ~(x < v)
    BY <1>1, <1>4, AppliedDistinct
  <2> QED BY <1>2, <1>3, <2>1
<1>5. ASSUME NEW v \in Applied(S, t), v <= u PROVE v <= x
  <2> SUFFICES ASSUME x < v PROVE FALSE
    BY <1>2, <1>3
  <2>1. S.well[v].conns = S.well[u].conns
    BY <1>1, <1>2, <1>3, <1>5 DEF OnePiece
  <2> QED BY <1>2, <1>3, <1>4, <2>1
<1>6. ConnsAt(S, x) = ConnsAt(S, u) /\ Active(S, x)
  <2>1. ConnsAt(S, x) = ConnsAt(S, u)
    BY <1>1 DEF ConnsAt
  <2>2. S.well[x].pi = S.well[u].pi
    BY <1>1, <1>2, <1>3 DEF Shaped, SameIndex
  <2> QED BY <2>1, <2>2 DEF Active
<1> DEFINE place == ConnsAt(S, u)[c].place
<1>7. ASSUME NEW v \in Applied(S, t), v <= x, NEW d \in Connected(ConnsAt(S, v))
      PROVE  ConnsAt(S, v)[d].place = place <=> d = c
  <2>1. /\ d \in Connected(ConnsAt(S, x)) /\ c \in Connected(ConnsAt(S, x))
        /\ ConnsAt(S, x)[d].place = ConnsAt(S, v)[d].place
    BY <1>2, <1>3, <1>6, <1>7 DEF Shaped, Keeps, Connected
  <2>2. Numbered(ConnsAt(S, x))
    BY <1>2, <1>3 DEF Shaped
  <2> QED BY <1>6, <2>1, <2>2 DEF Numbered
<1>8. Scales(S, t, x, c) <=>
        /\ ConnsAt(S, x)[c].subject
        /\ \A v \in Applied(S, t) : v <= x /\ Active(S, v) =>
             \A d \in Connected(ConnsAt(S, v)) : ConnsAt(S, v)[d].place = place => ConnsAt(S, v)[d].subject
  BY <1>6 DEF Scales, Applicable, Index
<1> HIDE DEF place
<1>9. Scales(S, t, x, c) <=>
        /\ ConnsAt(S, x)[c].subject
        /\ \A v \in Applied(S, t) : v <= x /\ Active(S, v) /\ c \in Connected(ConnsAt(S, v))
             => ConnsAt(S, v)[c].subject
  BY <1>7, <1>8
<1>10. \A v \in Applied(S, t) : v <= u <=> v <= x
  BY <1>1, <1>2, <1>3, <1>5
<1>11. \A v \in Applied(S, t) : c \in Connected(ConnsAt(S, v)) <=> ConnsAt(S, v)[c] # Null
  BY DEF Connected
<1>12. MarkedThrough(S, t, u, c) <=>
        \A v \in Applied(S, t) : v <= x /\ Active(S, v) /\ c \in Connected(ConnsAt(S, v))
          => ConnsAt(S, v)[c].subject
  BY <1>10, <1>11 DEF MarkedThrough
<1>13. x <= x /\ Active(S, x) /\ c \in Connected(ConnsAt(S, x))
  BY <1>2, <1>3, <1>6 DEF Connected
<1>14. Scales(S, t, x, c) <=> MarkedThrough(S, t, u, c)
  BY <1>9, <1>12, <1>13
<1> QED BY <1>1, <1>4, <1>14

\* So the factor grows if and only if the connection is marked all along.
LEMMA ScalingFollows ==
  ASSUME NEW S, Good(S), Shaped(S), NEW t \in Steps, OnePiece(S, t), ~Track,
         NEW u \in Visited(S, t), NEW c \in Cells, Active(S, u), ConnsAt(S, u)[c] # Null
  PROVE  ConnsAt(ApplyScaling(S, t), u)[c].scaled > ConnsAt(S, u)[c].scaled
           <=> MarkedThrough(S, t, u, c)
<1> DEFINE id == S.well[u].conns
           visits == {x \in Applied(S, t) : S.well[x].conns = id /\ Scales(S, t, x, c)}
           S2 == ApplyScaling(S, t)
<1>1. S \in Schedule /\ u \in Steps /\ id \in Ids
  <2>1. S \in Schedule /\ u \in Steps
    BY DEF Good, Schedule, Visited, UniqueSteps
  <2> QED BY <2>1 DEF Schedule, Well
<1>2. S2.well = S.well
  BY <1>1 DEF ApplyScaling, Schedule
<1>3. S2.heap[id][c] = [S.heap[id][c] EXCEPT !.scaled = @ + Cardinality(visits)]
  <2> HIDE DEF id
  <2> QED BY <1>1 DEF ApplyScaling, Schedule, ConnsAt, id
<1>4. S.heap[id][c] \in Connection
  BY <1>1 DEF Schedule, ConnectionSets, ConnsAt
<1>5. IsFiniteSet(visits)
  <2>1. visits \subseteq Steps
    BY <1>1 DEF Applied, Visited, UniqueSteps, Schedule
  <2>2. IsFiniteSet(Steps)
    BY NStepsAssumption, FS_Interval DEF Steps
  <2> HIDE DEF visits
  <2> QED BY <2>1, <2>2, FS_Subset
<1>6. Cardinality(visits) \in Nat /\ (Cardinality(visits) = 0 <=> visits = {})
  <2> HIDE DEF visits
  <2> QED BY <1>5, FS_CardinalityType, FS_EmptySet
<1>7. visits # {} <=> MarkedThrough(S, t, u, c)
  BY ScalesMarked
<1> HIDE DEF visits, S2
<1>8. S2.heap[id][c].scaled = S.heap[id][c].scaled + Cardinality(visits)
  <2> HIDE DEF id
  <2> QED BY <1>3, <1>4, <1>6, ScaledType
<1>9. S.heap[id][c].scaled \in Nat
  BY <1>4 DEF Connection
<1>10. S2.heap[id][c].scaled > S.heap[id][c].scaled <=> MarkedThrough(S, t, u, c)
  BY <1>6, <1>7, <1>8, <1>9
<1> QED BY <1>2, <1>10 DEF ConnsAt, S2

\* In the order of the input a recalculation scales exactly the connections
\* that no COMPDAT has reset since its step, although it compares indices of
\* connections in one object with those in another.
THEOREM FollowsConnection == ~Track => (Spec => ScalingFollowsConnection)
<1> SUFFICES ASSUME ~Track PROVE Spec => ScalingFollowsConnection
  OBVIOUS
<1>1. ASSUME Inv, Pieces, Shaped(sched), [Next]_vars
      PROVE  [phase = "start" /\ sched' # sched =>
                \A u \in Visited(sched, step), c \in Cells :
                  Active(sched, u) /\ ConnsAt(sched, u)[c] # Null =>
                    (ConnsAt(sched', u)[c].scaled > ConnsAt(sched, u)[c].scaled
                      <=> MarkedThrough(sched, step, u, c))]_vars
  <2> SUFFICES ASSUME phase = "start", sched' # sched,
                      NEW u \in Visited(sched, step), NEW c \in Cells,
                      Active(sched, u), ConnsAt(sched, u)[c] # Null
               PROVE  ConnsAt(sched', u)[c].scaled > ConnsAt(sched, u)[c].scaled
                        <=> MarkedThrough(sched, step, u, c)
    OBVIOUS
  <2>1. Good(sched) /\ step \in Steps /\ OnePiece(sched, step)
    BY <1>1 DEF Inv, TypeOK, Pieces
  <2>2. sched' = ApplyScaling(sched, step)
    BY <1>1 DEF Next, ParseNext, RunNext, vars, Compdat, DeckWelpi, DeckOther, Parsing,
                EndReportStep, EndSection, StartReportStep, ActionWelpi, ActionOther, NextReportStep
  <2>3. ConnsAt(ApplyScaling(sched, step), u)[c].scaled > ConnsAt(sched, u)[c].scaled
          <=> MarkedThrough(sched, step, u, c)
    BY <1>1, <2>1, ScalingFollows
  <2> QED BY <2>2, <2>3
<1>2. Inv /\ Pieces /\ Shaped(sched) /\ [Next]_vars => Pieces' /\ Shaped(sched)'
  BY PiecesStep, ShapedStep
<1>3. Init => Shaped(sched)
  BY ShapedInit
<1> QED BY <1>1, <1>2, <1>3, PiecesInit, InvHolds, PTL DEF Spec, ScalingFollowsConnection
=============================================================================
