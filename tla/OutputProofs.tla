---------------------------- MODULE OutputProofs ----------------------------
(***************************************************************************)
(* Proofs about what a run leaves behind, for every number of report steps *)
(* and runs and every deck.                                                *)
(*                                                                         *)
(* OutputFiles: the steps a reader finds in the unified restart file       *)
(* ascend, whatever a crash has left of the last one, so that opening the  *)
(* file at a step keeps what is before it and drops the rest.  From the    *)
(* first step of the history on that file then has the steps of the plan,  *)
(* each written by the run the history names.                              *)
(*                                                                         *)
(* RftConfig, at the end: first_rft_event only ever gets smaller, and      *)
(* every keyword that is applied brings it to where the rule for it asks;  *)
(* what the wells do at run time comes later.  As keywords are applied in  *)
(* the order of their steps, a container holds at each step what the last  *)
(* of them up to that step has set.                                        *)
(***************************************************************************)
EXTENDS RftConfig, OutputFiles, SequenceTheorems, WellFoundedInduction, TLAPS

WholeIn(file) == {i \in DOMAIN file : file[i].part = "whole"}

\* Each step a reader finds is above those before it.
Ascending(file) ==
  \A i, j \in Found(file) : i < j => file[i].step < file[j].step

\* The step whose restart file was written last, if it had one.
Present == IF stage = "rft" THEN done + 1 ELSE done

\* A call of writeTimeStep() is made by a run, for a step of the simulation
\* behind the one the run was restarted from.
Reached ==
  /\ run >= (IF up THEN 1 ELSE 0)
  /\ stage # "between" => run >= 1 /\ done + 1 \in Steps
  /\ origin <= done

\* Nothing is from a run to come.
RunsKnown ==
  /\ \A f \in Names : restart[f] # NoFile => \A i \in DOMAIN restart[f] : restart[f][i].run <= run
  /\ \A i \in DOMAIN rftFile : rftFile[i].run <= run
  /\ \A t \in DOMAIN written : written[t] <= run

\* The unified file ascends, and a file that was opened for a step has only
\* steps before it.
Ordered ==
  /\ Ascending(restart[Unified])
  /\ stage = "writing" =>
       /\ WritesRestart
       /\ restart[Name(done + 1)] # NoFile
       /\ up => \A i \in Found(restart[Name(done + 1)]) : restart[Name(done + 1)][i].step < done + 1

\* The steps a run builds on are of its plan, not in its future, and kept.
History ==
  /\ \A t \in DOMAIN written : t <= Present /\ t \in deck.plan
  /\ StepsKept

\* From any step u of the history on, the unified file has whole steps of the
\* plan only, and no step of the plan up to now is missing from the history.
OfThePlan ==
  deck.unified =>
    \A u \in DOMAIN written :
      /\ \A i \in WholeIn(restart[Unified]) :
           restart[Unified][i].step >= u => restart[Unified][i].step \in deck.plan
      /\ \A t \in deck.plan : u <= t /\ t <= Present => t \in DOMAIN written

\* Once a run has written to the unified file, nothing in it is of the future.
Newest ==
  deck.unified /\ (\E u \in DOMAIN written : written[u] = run) =>
    \A i \in WholeIn(restart[Unified]) : restart[Unified][i].step <= Present

\* A Summary object has a stream when it has written a ministep, the last
\* line of the unified file is the last one written, and the step that is
\* being written is in it.
SummaryKept ==
  /\ summary.prevReportStepID <= done + 1
  /\ summary.prevCreate = -1 =>
       /\ summary.miniStepID = 0 /\ summary.prevReportStepID = -1
       /\ \A t \in DOMAIN written \ {0} : written[t] # run
  /\ summary.prevCreate # -1 /\ deck.unified =>
       smry[Unified] # <<>> /\ Last(smry[Unified]).seq = summary.prevReportStepID
  /\ stage # "between" /\ done + 1 # 0 =>
       /\ summary.prevCreate # -1
       /\ \E i \in DOMAIN smry[Name(done + 1)] : smry[Name(done + 1)][i].seq = done + 1

\* RftOfRun, with the least step of RftSteps named by what makes it the least.
RftKept ==
  LET complete == {i \in DOMAIN rftFile : rftFile[i].run = run /\ rftFile[i].whole}
      asked == {s \in RftSteps : origin < s /\ s <= done}
  IN /\ run > 0 => /\ {rftFile[i].step : i \in complete} = asked
                   /\ \A i, j \in complete : i < j => rftFile[i].step < rftFile[j].step
     /\ \A m \in asked :
          (\A t \in RftSteps : m <= t) => \A i \in DOMAIN rftFile : rftFile[i].run = run

-----------------------------------------------------------------------------
Entry == [step : Steps, run : 1 .. MaxRuns, part : Parts]

LEMMA StepFacts == /\ NSteps \in Nat \ {0} /\ MaxRuns \in Nat /\ MaxSubsteps \in Nat
                   /\ Steps \subseteq Nat /\ 0 \in Steps /\ Unified \notin Steps
                   /\ \A s \in Steps : s <= NSteps - 1
BY OutputAssumption, NStepsAssumption DEF Steps, Unified

LEMMA StepsAreInts == \A s \in Steps : s \in Int /\ s \in Nat
BY StepFacts

LEMMA FilesAre == Files = Seq(Entry) /\ NoFile \notin Files /\ NoFile # <<>>
<1>1. Files = Seq(Entry)
  BY DEF Files, Entry
<1>2. ASSUME NoFile \in Seq(Entry) PROVE FALSE
  <2>1. NoFile[1] \in Entry
    BY <1>2 DEF NoFile
  <2>2. NoFile[1].run = 0
    BY DEF NoFile, Item
  <2> QED BY <2>1, <2>2 DEF Entry
<1> QED BY <1>1, <1>2 DEF NoFile

LEMMA Least ==
  ASSUME NEW U, U \subseteq Nat, U # {}
  PROVE  Min(U) \in U /\ \A x \in U : Min(U) <= x
<1> DEFINE R == {p \in Nat \X Nat : p[1] < p[2]}
<1>1. IsWellFoundedOn(R, Nat)
  BY NatLessThanWellFounded DEF OpToRel
<1>2. PICK m \in U : \A x \in U : ~ (<<x, m>> \in R)
  <2> HIDE DEF R
  <2> QED BY <1>1, WFMin
<1>3. ASSUME NEW x \in U PROVE m <= x
  <2>1. x \in Nat /\ m \in Nat
    OBVIOUS
  <2>2. ~ (x < m)
    BY <1>2, <2>1
  <2> QED BY <2>1, <2>2
<1> QED BY <1>3 DEF Min

LEMMA MaxOfOne == ASSUME NEW k \in Nat PROVE Max({k}) = k
BY DEF Max

\* What is left of a file that is opened at a step: all that a reader finds
\* of the steps before, and nothing else.
LEMMA OpenKeeps ==
  ASSUME NEW file \in Files, Ascending(file), NEW s \in Steps
  PROVE  \E n \in 0 .. Len(file) :
           /\ OpenExisting(file, s) \in Files
           /\ Len(OpenExisting(file, s)) = n
           /\ \A i \in 1 .. n : OpenExisting(file, s)[i] = file[i]
           /\ \A i \in Found(file) : i <= n <=> file[i].step < s
<1> DEFINE after == {i \in Found(file) : file[i].step >= s}
           steps == {file[i].step : i \in after}
           n == WritePosition(file, s)
<1>1. /\ Len(file) \in Nat /\ DOMAIN file = 1 .. Len(file) /\ s \in Nat
      /\ \A i \in 1 .. Len(file) : file[i] \in Entry /\ file[i].step \in Nat
  <2>1. file \in Seq(Entry)
    BY FilesAre
  <2>2. \A e \in Entry : e.step \in Nat
    BY StepFacts DEF Entry
  <2>3. s \in Nat
    BY StepFacts
  <2> QED BY <2>1, <2>2, <2>3
<1>2. n \in 0 .. Len(file) /\ \A i \in Found(file) : i <= n <=> file[i].step < s
  <2>1. CASE after = {}
    <3>1. n = Len(file)
      BY <2>1 DEF WritePosition
    <3>2. \A i \in Found(file) : i \in 1 .. Len(file) /\ ~ (file[i].step >= s)
      BY <1>1, <2>1 DEF Found
    <3> QED BY <1>1, <3>1, <3>2
  <2>2. CASE after # {}
    <3>1. steps \subseteq Nat /\ steps # {}
      BY <1>1, <2>2 DEF Found
    <3>2. Min(steps) \in steps /\ \A x \in steps : Min(steps) <= x
      <4> HIDE DEF steps
      <4> QED BY <3>1, Least
    <3>3. PICK k \in after : file[k].step = Min(steps)
      BY <3>2
    <3>4. \A i \in after : file[k].step <= file[i].step
      BY <3>2, <3>3
    <3>5. \A i \in Found(file) : /\ i < k => file[i].step < file[k].step
                                 /\ k < i => file[k].step < file[i].step
      BY <3>3 DEF Ascending
    <3>6. {i \in after : file[i].step = Min(steps)} = {k}
      <4>1. \A i \in after : i \in Found(file) /\ i \in Nat /\ k \in Nat /\ file[i].step \in Nat
        BY <1>1 DEF Found
      <4>2. \A i \in after : file[i].step = file[k].step => i = k
        BY <3>5, <4>1
      <4> HIDE DEF after
      <4> QED BY <3>3, <4>2
    <3>7. k \in 1 .. Len(file)
      BY <1>1 DEF Found
    <3>8. n = k - 1
      <4>1. n = Max({i \in after : file[i].step = Min(steps)}) - 1
        BY <2>2 DEF WritePosition
      <4>2. Max({k}) = k
        BY <3>7, MaxOfOne
      <4> HIDE DEF n
      <4> QED BY <3>6, <4>1, <4>2
    <3>9. \A i \in Found(file) : i \in 1 .. Len(file) /\ (i < k <=> file[i].step < s)
      BY <1>1, <3>3, <3>4, <3>5, <3>7 DEF Found
    <3> QED BY <1>1, <3>7, <3>8, <3>9
  <2> QED BY <2>1, <2>2
<1>3. OpenExisting(file, s) = SubSeq(file, 1, n)
  BY DEF OpenExisting
<1> HIDE DEF n
<1>4. /\ SubSeq(file, 1, n) \in Files /\ Len(SubSeq(file, 1, n)) = n
      /\ \A i \in 1 .. n : SubSeq(file, 1, n)[i] = file[i]
  BY <1>1, <1>2, FilesAre
<1> QED BY <1>2, <1>3, <1>4

LEMMA SeqElement == ASSUME NEW S, NEW q \in Seq(S), NEW i \in DOMAIN q PROVE q[i] \in S
OBVIOUS

LEMMA AppendFacts ==
  ASSUME NEW S, NEW q \in Seq(S), NEW e \in S
  PROVE  /\ Append(q, e) \in Seq(S) /\ Append(q, e) # <<>>
         /\ Len(Append(q, e)) = Len(q) + 1 /\ Len(q) \in Nat
         /\ DOMAIN q = 1 .. Len(q) /\ DOMAIN Append(q, e) = 1 .. Len(q) + 1
         /\ \A i \in 1 .. Len(q) : Append(q, e)[i] = q[i]
         /\ Append(q, e)[Len(q) + 1] = e
OBVIOUS

-----------------------------------------------------------------------------
(* The archive in a file.                                                  *)

Intact(file) == {i \in DOMAIN file : \A j \in 1 .. i : file[j].part = "whole"}

StoredIn(file) ==
  [s \in {file[i].step : i \in Intact(file)} |->
     file[CHOOSE i \in Intact(file) : file[i].step = s].run]

LEMMA StoredIs == Stored = StoredIn(restart[Unified])
BY DEF Stored, StoredIn, Intact

LEMMA StoredIsNext == Stored' = StoredIn(restart'[Unified])
BY DEF Stored, StoredIn, Intact

LEMMA StoredNone == StoredIn(NoFile) = [t \in {} |-> 0] /\ StoredIn(<<>>) = [t \in {} |-> 0]
<1>1. Intact(<<>>) = {}
  BY DEF Intact
<1>2. Intact(NoFile) = {}
  BY DEF Intact, NoFile, Item
<1>3. ASSUME NEW f, Intact(f) = {} PROVE StoredIn(f) = [t \in {} |-> 0]
  <2>1. {f[i].step : i \in Intact(f)} = {}
    BY <1>3
  <2> QED BY <2>1 DEF StoredIn
<1> QED BY <1>1, <1>2, <1>3

LEMMA IntactFacts ==
  ASSUME NEW file \in Files
  PROVE  \A i \in Intact(file) : /\ i \in 1 .. Len(file) /\ i \in Nat /\ i \in Found(file)
                                 /\ file[i] \in Entry /\ file[i].part = "whole"
                                 /\ file[i].step \in Steps
                                 /\ \A j \in 1 .. i : j \in Intact(file)
<1>1. Len(file) \in Nat /\ DOMAIN file = 1 .. Len(file) /\ \A i \in 1 .. Len(file) : file[i] \in Entry
  BY FilesAre
<1>2. \A i \in Intact(file) : i \in 1 .. Len(file) /\ i \in 1 .. i /\ file[i].part = "whole"
  BY <1>1 DEF Intact
<1>3. \A i \in Intact(file) : \A j \in 1 .. i : j \in Intact(file)
  BY <1>1 DEF Intact
<1> QED BY <1>1, <1>2, <1>3 DEF Found, Entry

LEMMA StoredAt ==
  ASSUME NEW file \in Files, Ascending(file)
  PROVE  /\ DOMAIN StoredIn(file) = {file[i].step : i \in Intact(file)}
         /\ \A i \in Intact(file) : StoredIn(file)[file[i].step] = file[i].run
<1>1. DOMAIN StoredIn(file) = {file[i].step : i \in Intact(file)}
  BY DEF StoredIn
<1>2. ASSUME NEW i \in Intact(file) PROVE StoredIn(file)[file[i].step] = file[i].run
  <2> DEFINE k == CHOOSE j \in Intact(file) : file[j].step = file[i].step
  <2>1. k \in Intact(file) /\ file[k].step = file[i].step
    OBVIOUS
  <2>2. StoredIn(file)[file[i].step] = file[k].run
    BY DEF StoredIn
  <2> HIDE DEF k
  <2>3. k = i
    <3>1. k \in Found(file) /\ i \in Found(file) /\ k \in Nat /\ i \in Nat
      BY <2>1, IntactFacts
    <3>2. file[i].step \in Nat
      BY IntactFacts, StepFacts
    <3>3. ~ (k < i) /\ ~ (i < k)
      BY <2>1, <3>1, <3>2 DEF Ascending
    <3> QED BY <3>1, <3>3
  <2> QED BY <2>2, <2>3
<1> QED BY <1>1, <1>2

LEMMA StoredIsFunction == \A file : StoredIn(file) = [t \in DOMAIN StoredIn(file) |-> StoredIn(file)[t]]
BY DEF StoredIn

\* What is left of a file that is opened at a step.
LEMMA StoredOpen ==
  ASSUME NEW file \in Files, Ascending(file), NEW s \in Steps
  PROVE  /\ Ascending(OpenExisting(file, s))
         /\ StoredIn(OpenExisting(file, s))
              = [t \in {u \in DOMAIN StoredIn(file) : u < s} |-> StoredIn(file)[t]]
<1> DEFINE g == OpenExisting(file, s)
           kept == {u \in DOMAIN StoredIn(file) : u < s}
<1>1. PICK n \in 0 .. Len(file) : /\ g \in Files /\ Len(g) = n
                                  /\ \A i \in 1 .. n : g[i] = file[i]
                                  /\ \A i \in Found(file) : i <= n <=> file[i].step < s
  BY OpenKeeps
<1>2. Len(file) \in Nat /\ DOMAIN file = 1 .. Len(file) /\ DOMAIN g = 1 .. n
  BY <1>1, FilesAre
<1> HIDE DEF g
<1>3. \A i \in Found(g) : i \in Found(file) /\ g[i] = file[i]
  BY <1>1, <1>2 DEF Found
<1>4. Ascending(g)
  BY <1>3 DEF Ascending
<1>5. \A i : i \in Intact(g) <=> i \in Intact(file) /\ i <= n
  <2>1. ASSUME NEW i \in 1 .. n PROVE i \in Intact(g) <=> i \in Intact(file)
    <3>1. \A j \in 1 .. i : g[j] = file[j]
      BY <1>1
    <3>2. i \in DOMAIN g /\ i \in DOMAIN file
      BY <1>2
    <3> QED BY <3>1, <3>2 DEF Intact
  <2>2. \A i \in Intact(g) : i \in 1 .. n
    BY <1>2 DEF Intact
  <2>3. \A i \in Intact(file) : i <= n => i \in 1 .. n
    BY <1>2 DEF Intact
  <2> QED BY <2>1, <2>2, <2>3
<1>6. \A i \in Intact(g) : i \in Intact(file) /\ g[i] = file[i]
  BY <1>1, <1>2, <1>5 DEF Intact
<1>7. \A i \in Intact(file) : i \in Intact(g) <=> file[i].step < s
  BY <1>1, <1>5, IntactFacts
<1>8. DOMAIN StoredIn(g) = kept
  <2>1. /\ DOMAIN StoredIn(g) = {g[i].step : i \in Intact(g)}
        /\ DOMAIN StoredIn(file) = {file[i].step : i \in Intact(file)}
    BY <1>1, <1>4, StoredAt
  <2>2. \A t : t \in DOMAIN StoredIn(g) <=> \E i \in Intact(file) : t = file[i].step /\ t < s
    BY <1>6, <1>7, <2>1
  <2> QED BY <2>1, <2>2
<1>9. ASSUME NEW t \in kept PROVE StoredIn(g)[t] = StoredIn(file)[t]
  <2>0. DOMAIN StoredIn(g) = {g[i].step : i \in Intact(g)}
    BY <1>1, <1>4, StoredAt
  <2>1. PICK i \in Intact(g) : t = g[i].step
    BY <1>8, <2>0
  <2>2. StoredIn(g)[t] = g[i].run
    BY <1>1, <1>4, <2>1, StoredAt
  <2>3. i \in Intact(file) /\ g[i] = file[i]
    BY <1>6, <2>1
  <2>4. StoredIn(file)[t] = file[i].run
    BY <2>1, <2>3, StoredAt
  <2> QED BY <2>2, <2>3, <2>4
<1>10. StoredIn(g) = [t \in kept |-> StoredIn(file)[t]]
  <2>1. StoredIn(g) = [t \in DOMAIN StoredIn(g) |-> StoredIn(g)[t]]
    BY StoredIsFunction
  <2> HIDE DEF kept
  <2> QED BY <1>8, <1>9, <2>1
<1> QED BY <1>4, <1>10 DEF g

\* A step, or a part of it, is appended to a file whose steps are before it.
Grown(g, file, s, r, part) ==
  /\ file \in Files /\ Ascending(file) /\ g \in Files
  /\ s \in Steps /\ r \in 1 .. MaxRuns /\ part \in Parts
  /\ \A i \in Found(file) : file[i].step < s
  /\ DOMAIN g = 1 .. Len(file) + 1
  /\ \A i \in DOMAIN file : g[i] = file[i]
  /\ g[Len(file) + 1] = Item(s, r, part)

\* What is stored in it then: all there was, and the step if it can be read.
Extended(g, file, s, r) ==
  /\ \A t \in DOMAIN StoredIn(file) : t < s
  /\ \/ StoredIn(g) = StoredIn(file)
     \/ StoredIn(g) = [t \in DOMAIN StoredIn(file) \cup {s} |->
                         IF t = s THEN r ELSE StoredIn(file)[t]]

LEMMA StoredAppend ==
  ASSUME NEW file, NEW s, NEW r, NEW part, NEW g, Grown(g, file, s, r, part)
  PROVE  Ascending(g) /\ Extended(g, file, s, r)
<1>0. /\ file \in Files /\ Ascending(file) /\ g \in Files
      /\ s \in Steps /\ r \in 1 .. MaxRuns /\ part \in Parts
      /\ \A i \in Found(file) : file[i].step < s
  BY DEF Grown
<1> DEFINE e == Item(s, r, part)
           n == Len(file)
<1>1. e \in Entry /\ e.step = s /\ e.run = r /\ e.part = part
  BY <1>0 DEF Entry, Item
<1>2. /\ n \in Nat /\ DOMAIN file = 1 .. n /\ DOMAIN g = 1 .. n + 1
      /\ \A i \in 1 .. n : g[i] = file[i]
      /\ g[n + 1] = e
  <2>1. Len(file) \in Nat /\ DOMAIN file = 1 .. Len(file)
    BY <1>0, FilesAre
  <2> QED BY <2>1 DEF Grown
<1> HIDE DEF e
<1> HIDE DEF n
<1>3. \A i \in Found(g) : i \in 1 .. n + 1 /\ i \in Nat
                          /\ (i \in 1 .. n => i \in Found(file) /\ g[i].step = file[i].step)
  BY <1>2 DEF Found
<1>4. Ascending(g)
  <2> SUFFICES ASSUME NEW i \in Found(g), NEW j \in Found(g), i < j
               PROVE  g[i].step < g[j].step
    BY DEF Ascending
  <2>1. i \in 1 .. n /\ i \in Found(file) /\ g[i].step = file[i].step
    BY <1>2, <1>3
  <2>2. CASE j = n + 1
    BY <1>0, <1>1, <1>2, <2>1, <2>2
  <2>3. CASE j # n + 1
    BY <1>0, <1>2, <1>3, <2>1, <2>3 DEF Ascending
  <2> QED BY <2>2, <2>3
<1>5. \A i \in 1 .. n : i \in Intact(g) <=> i \in Intact(file)
  BY <1>2 DEF Intact
<1>6. \A i \in Intact(g) : i \in 1 .. n + 1
  BY <1>2 DEF Intact
<1>7. \A i \in Intact(file) : i \in 1 .. n /\ i \in Found(file)
  BY <1>0, IntactFacts DEF n
<1>9. /\ DOMAIN StoredIn(g) = {g[i].step : i \in Intact(g)}
      /\ \A i \in Intact(g) : StoredIn(g)[g[i].step] = g[i].run
      /\ DOMAIN StoredIn(file) = {file[i].step : i \in Intact(file)}
      /\ \A i \in Intact(file) : StoredIn(file)[file[i].step] = file[i].run
  BY <1>0, <1>2, <1>4, StoredAt
<1>8. \A t \in DOMAIN StoredIn(file) : t < s
  BY <1>0, <1>7, <1>9
<1>10. \A t \in DOMAIN StoredIn(file) : StoredIn(g)[t] = StoredIn(file)[t]
  <2>1. \A i \in Intact(file) : i \in Intact(g) /\ g[i] = file[i]
    BY <1>2, <1>5, <1>7
  <2> QED BY <1>9, <2>1
<1>11. CASE n + 1 \notin Intact(g)
  <2>1. \A i : i \in Intact(g) <=> i \in Intact(file)
    BY <1>2, <1>5, <1>6, <1>7, <1>11
  <2>2. \A i \in Intact(file) : g[i].step = file[i].step
    BY <1>2, <1>7
  <2>3. DOMAIN StoredIn(g) = DOMAIN StoredIn(file)
    BY <1>9, <2>1, <2>2
  <2>4. StoredIn(g) = StoredIn(file)
    BY <1>10, <2>3, StoredIsFunction
  <2> QED BY <1>4, <1>8, <2>4 DEF Extended
<1>12. CASE n + 1 \in Intact(g)
  <2> DEFINE D == DOMAIN StoredIn(file) \cup {s}
  <2>1. \A i : i \in Intact(g) <=> i \in Intact(file) \/ i = n + 1
    BY <1>2, <1>5, <1>6, <1>7, <1>12
  <2>2. \A i \in Intact(file) : g[i].step = file[i].step
    BY <1>2, <1>7
  <2>3. DOMAIN StoredIn(g) = D
    <3>1. \A t : t \in DOMAIN StoredIn(g) <=> t = s \/ \E i \in Intact(file) : t = file[i].step
      BY <1>1, <1>2, <1>9, <2>1, <2>2
    <3>2. \A t : t \in D <=> t = s \/ \E i \in Intact(file) : t = file[i].step
      BY <1>9
    <3> HIDE DEF D
    <3> QED BY <3>1, <3>2
  <2>4. StoredIn(g)[s] = r
    BY <1>1, <1>2, <1>9, <1>12
  <2>5. \A t \in D : StoredIn(g)[t] = IF t = s THEN r ELSE StoredIn(file)[t]
    BY <1>10, <2>4
  <2>6. StoredIn(g) = [t \in DOMAIN StoredIn(g) |-> StoredIn(g)[t]]
    BY StoredIsFunction
  <2>7. StoredIn(g) = [t \in D |-> IF t = s THEN r ELSE StoredIn(file)[t]]
    <3> HIDE DEF D
    <3> QED BY <2>3, <2>5, <2>6
  <2> QED BY <1>4, <1>8, <2>7 DEF Extended
<1> QED BY <1>11, <1>12

-----------------------------------------------------------------------------
(* The invariant.                                                          *)

\* SummaryFirst is inductive with it.
Inv ==
  /\ TypeOK /\ Reached /\ RunsKnown /\ Ordered /\ History /\ OfThePlan /\ Newest
  /\ SummaryKept /\ RftKept

\* What all proofs below use of the types.
LEMMA Facts ==
  ASSUME TypeOK, Reached
  PROVE  /\ run \in Nat /\ run <= MaxRuns /\ (up => run \in 1 .. MaxRuns)
         /\ done \in Int /\ origin \in Int /\ -1 <= origin /\ origin <= done /\ done + 1 \in Nat
         /\ DOMAIN written \subseteq Steps /\ \A t \in DOMAIN written : written[t] \in 1 .. MaxRuns
         /\ Name(done + 1) \in {Unified, done + 1}
         /\ stage # "between" => done + 1 \in Steps /\ Name(done + 1) \in Names
         /\ deck.plan \subseteq Steps /\ deck.rft \subseteq Steps /\ deck.unified \in BOOLEAN
         /\ Unified \in Names /\ Steps \subseteq Names
<1>1. deck.plan \subseteq Steps /\ deck.rft \subseteq Steps /\ deck.unified \in BOOLEAN
  BY OutputAssumption, NStepsAssumption DEF TypeOK
<1>2. \A t \in DOMAIN written : written[t] \in Range(written)
  BY DEF Range
<1> QED BY <1>1, <1>2, StepFacts DEF TypeOK, Reached, Name, Names

LEMMA TypeStep == ASSUME TypeOK, Reached, Ordered, [Next]_vars PROVE TypeOK'
<1>0. -1 \in -1 .. NSteps - 1 /\ Range([t \in {} |-> 0]) = {} /\ DOMAIN [t \in {} |-> 0] = {}
  BY StepFacts DEF Range
<1>1. ASSUME Begin PROVE /\ up' \in BOOLEAN /\ run' \in 0 .. MaxRuns /\ stage' \in Stages
                         /\ substep' \in BOOLEAN /\ substeps' \in 0 .. MaxSubsteps
                         /\ summary' \in [miniStepID : Nat, prevReportStepID : -1 .. NSteps - 1,
                                          prevCreate : -1 .. NSteps - 1]
                         /\ UNCHANGED <<smry, restart, rftFile>>
  <2>1. run' \in 0 .. MaxRuns
    BY <1>1, Facts, StepFacts DEF Begin
  <2>2. substeps' \in 0 .. MaxSubsteps /\ stage' \in Stages
    BY <1>1, StepFacts DEF Begin, Stages
  <2>3. summary' \in [miniStepID : Nat, prevReportStepID : -1 .. NSteps - 1,
                      prevCreate : -1 .. NSteps - 1]
    BY <1>0, <1>1 DEF Begin, NewSummary
  <2> QED BY <1>1, <2>1, <2>2, <2>3 DEF Begin
<1>2. CASE StartOver
  BY <1>0, <1>1, <1>2 DEF StartOver, TypeOK
<1>3. ASSUME NEW s \in Steps, Restart(s) PROVE TypeOK'
  <2>1. s \in -1 .. NSteps - 1
    BY StepFacts
  <2>2. DOMAIN written' \subseteq DOMAIN written /\ \A t \in DOMAIN written' : written'[t] = written[t]
    BY <1>3 DEF Restart
  <2>3. Range(written') \subseteq Range(written)
    BY <2>2 DEF Range
  <2> QED BY <1>1, <1>3, <2>1, <2>2, <2>3 DEF Restart, TypeOK
<1>4. CASE Stop
  BY <1>4 DEF Stop, TypeOK
<1>5. ASSUME NEW isSubstep \in BOOLEAN, WriteSummary(isSubstep) PROVE TypeOK'
  <2> DEFINE s == done + 1
             e == Ministep(s)
             Line == [id : Nat, seq : Steps, header : BOOLEAN, run : 1 .. MaxRuns]
  <2>1. s \in Steps /\ s \in -1 .. NSteps - 1 /\ up
    <3>1. s \in Steps /\ up
      BY <1>5 DEF WriteSummary
    <3> HIDE DEF s
    <3> QED BY <3>1, StepFacts
  <2>2. e \in Line
    <3>1. run \in 1 .. MaxRuns /\ summary.miniStepID \in Nat
      BY <2>1, Facts DEF TypeOK
    <3> HIDE DEF s
    <3> QED BY <2>1, <3>1 DEF Ministep
  <2>3. substeps' \in 0 .. MaxSubsteps /\ stage' \in Stages /\ substep' \in BOOLEAN
    BY <1>5, StepFacts DEF WriteSummary, TypeOK, Stages
  <2>4. summary' \in [miniStepID : Nat, prevReportStepID : -1 .. NSteps - 1,
                      prevCreate : -1 .. NSteps - 1]
    <3>1. CASE s = 0
      BY <1>5, <3>1 DEF WriteSummary, TypeOK
    <3>2. CASE s # 0
      BY <1>5, <2>1, <3>2 DEF WriteSummary, TypeOK
    <3> QED BY <3>1, <3>2
  <2>5. smry' \in [Names -> Seq(Line)]
    <3>1. smry \in [Names -> Seq(Line)]
      BY DEF TypeOK
    <3>2. CASE s = 0
      BY <1>5, <3>1, <3>2 DEF WriteSummary
    <3>3. CASE s # 0
      <4> DEFINE old == IF CreatesStream(s) THEN <<>> ELSE smry[Name(s)]
      <4>1. smry' = [smry EXCEPT ![Name(s)] = Append(old, e)]
        BY <1>5, <3>3 DEF WriteSummary
      <4>2. Name(s) \in Names
        BY <2>1 DEF Name, Names
      <4>3. old \in Seq(Line)
        <5> HIDE DEF s, Line
        <5> QED BY <3>1, <4>2, EmptySeq
      <4> HIDE DEF e, Line, old, s
      <4>4. Append(old, e) \in Seq(Line)
        BY <2>2, <4>3, AppendFacts
      <4> QED BY <3>1, <4>1, <4>4
    <3> QED BY <3>2, <3>3
  <2> QED BY <1>5, <2>3, <2>4, <2>5 DEF WriteSummary, TypeOK
<1>6. CASE OpenRestart
  <2> DEFINE s == done + 1
             file == restart[Name(s)]
  <2>1. stage = "restart" /\ s \in Steps /\ Name(s) \in Names /\ file \in Files \cup {NoFile}
    BY <1>6, Facts DEF OpenRestart, TypeOK
  <2>2. /\ stage' \in Stages /\ up' \in BOOLEAN
        /\ UNCHANGED <<run, deck, origin, done, substep, substeps, summary, smry, rftFile, written>>
    BY <1>6 DEF OpenRestart, TypeOK, Stages
  <2>3. restart' \in [Names -> Files \cup {NoFile}]
    <3>1. CASE UNCHANGED restart
      BY <3>1 DEF TypeOK
    <3>2. CASE restart' # restart
      <4>1. restart' = [restart EXCEPT ![Name(s)] =
                          IF deck.unified /\ file # NoFile THEN OpenExisting(file, s) ELSE <<>>]
        BY <1>6, <3>2 DEF OpenRestart
      <4>2. deck.unified /\ file # NoFile => OpenExisting(file, s) \in Files
        BY <2>1, OpenKeeps DEF Ordered, Name
      <4>3. <<>> \in Files
        BY FilesAre
      <4> HIDE DEF s, file
      <4> QED BY <4>1, <4>2, <4>3 DEF TypeOK
    <3> QED BY <3>1, <3>2
  <2> QED BY <2>2, <2>3 DEF TypeOK
<1>7. ASSUME NEW part \in Parts, WriteRestart(part) PROVE TypeOK'
  <2> DEFINE s == done + 1
             e == Item(s, run, part)
             file == restart[Name(s)]
  <2>1. stage = "writing" /\ s \in Steps /\ run \in 1 .. MaxRuns /\ Name(s) \in Names
    BY <1>7, Facts DEF WriteRestart
  <2>2. e \in Entry
    BY <2>1 DEF Entry, Item
  <2>3. file \in Files
    BY <2>1 DEF Ordered, TypeOK
  <2>4. Append(file, e) \in Files
    BY <2>2, <2>3, FilesAre, AppendFacts
  <2>5. restart' = [restart EXCEPT ![Name(s)] = Append(file, e)]
    BY <1>7 DEF WriteRestart
  <2>6. restart' \in [Names -> Files \cup {NoFile}]
    <3> HIDE DEF s, file, e
    <3> QED BY <2>1, <2>4, <2>5 DEF TypeOK
  <2>7. DOMAIN written' \subseteq Steps /\ Range(written') \subseteq 1 .. MaxRuns
    <3>1. CASE written' = written
      BY <3>1 DEF TypeOK
    <3>2. CASE written' = [t \in DOMAIN written \cup {s} |-> IF t = s THEN run ELSE written[t]]
      BY <2>1, <3>2, Facts DEF Range
    <3> QED BY <1>7, <3>1, <3>2 DEF WriteRestart
  <2> QED BY <1>7, <2>6, <2>7 DEF WriteRestart, TypeOK, Stages
<1>8. ASSUME NEW whole \in BOOLEAN, WriteRft(whole) PROVE TypeOK'
  <2> DEFINE s == done + 1
             e == [step |-> s, run |-> run, whole |-> whole]
             Line == [step : Steps, run : 1 .. MaxRuns, whole : BOOLEAN]
             old == IF s = Min(RftSteps) THEN <<>> ELSE rftFile
  <2>1. stage = "rft" /\ s \in Steps /\ s \in -1 .. NSteps - 1 /\ run \in 1 .. MaxRuns
    BY <1>8, Facts, StepFacts DEF WriteRft
  <2>2. e \in Line /\ old \in Seq(Line)
    BY <2>1 DEF TypeOK
  <2>3. rftFile' \in {rftFile, old, Append(old, e)}
    BY <1>8 DEF WriteRft, RftAfter
  <2>4. rftFile' \in Seq(Line)
    <3>1. rftFile \in Seq(Line)
      BY DEF TypeOK
    <3> HIDE DEF e, Line, old
    <3>2. Append(old, e) \in Seq(Line)
      BY <2>2, AppendFacts
    <3> QED BY <2>2, <2>3, <3>1, <3>2
  <2>5. done' \in -1 .. NSteps - 1 /\ stage' \in Stages /\ up' \in BOOLEAN
    BY <1>8, <2>1 DEF WriteRft, TypeOK, Stages
  <2> QED BY <1>8, <2>4, <2>5 DEF WriteRft, TypeOK
<1>9. CASE UNCHANGED vars
  BY <1>9 DEF vars, TypeOK
<1> QED BY <1>2, <1>3, <1>4, <1>5, <1>6, <1>7, <1>8, <1>9 DEF Next

LEMMA ReachedStep == ASSUME TypeOK, Reached, [Next]_vars PROVE Reached'
<1>1. ASSUME Begin PROVE run' \in Nat /\ run' >= 1 /\ up' /\ stage' = "between"
  BY <1>1, Facts DEF Begin
<1>2. CASE StartOver
  BY <1>1, <1>2 DEF StartOver, Reached
<1>3. ASSUME NEW s \in Steps, Restart(s) PROVE Reached'
  BY <1>1, <1>3, StepFacts DEF Restart, Reached
<1>4. CASE Stop
  BY <1>4, Facts DEF Stop, Reached
<1>5. ASSUME NEW isSubstep \in BOOLEAN, WriteSummary(isSubstep) PROVE Reached'
  BY <1>5, Facts DEF WriteSummary, Reached
<1>6. CASE OpenRestart
  BY <1>6, Facts DEF OpenRestart, Reached
<1>7. ASSUME NEW part \in Parts, WriteRestart(part) PROVE Reached'
  BY <1>7, Facts DEF WriteRestart, Reached
<1>8. ASSUME NEW whole \in BOOLEAN, WriteRft(whole) PROVE Reached'
  <2>1. stage = "rft" /\ run >= 1 /\ done + 1 \in Steps /\ UNCHANGED <<run, origin>>
    BY <1>8 DEF WriteRft, Reached
  <2>2. \/ done' = done + 1 /\ stage' = "between"
        \/ done' = done /\ stage' = stage
    BY <1>8 DEF WriteRft
  <2>3. run \in Nat /\ done \in Int /\ origin \in Int /\ origin <= done
    BY Facts
  <2> QED BY <2>1, <2>2, <2>3 DEF Reached
<1>9. CASE UNCHANGED vars
  BY <1>9 DEF vars, Reached
<1> QED BY <1>2, <1>3, <1>4, <1>5, <1>6, <1>7, <1>8, <1>9 DEF Next

\* The restart file that a call opens: what readers find in it are steps before
\* the one to be written, and from a unified file no such step is missing.
LEMMA OpenedFile ==
  ASSUME TypeOK, Reached, Ordered, OpenRestart, stage' = "writing"
  PROVE  LET s == done + 1
             file == restart[Name(s)]
             g == restart'[Name(s)]
         IN /\ up /\ up' = up /\ WritesRestart /\ s \in Steps
            /\ restart' = [restart EXCEPT ![Name(s)] = g]
            /\ g \in Files /\ Ascending(g)
            /\ \A i \in Found(g) : g[i].step < s
            /\ ~ deck.unified \/ file = NoFile => g = <<>>
            /\ deck.unified /\ file # NoFile =>
                 /\ \A i \in DOMAIN g : i \in DOMAIN file /\ g[i] = file[i]
                 /\ \A i \in Found(file) : file[i].step < s => i \in DOMAIN g
                 /\ StoredIn(g) = [t \in {u \in DOMAIN StoredIn(file) : u < s} |-> StoredIn(file)[t]]
<1> DEFINE s == done + 1
           file == restart[Name(s)]
           g == restart'[Name(s)]
<1>1. stage = "restart" /\ s \in Steps /\ Name(s) \in Names /\ file \in Files \cup {NoFile}
  BY Facts DEF OpenRestart, TypeOK
<1>2. /\ WritesRestart /\ up /\ up' = up
      /\ restart' = [restart EXCEPT ![Name(s)] = IF deck.unified /\ file # NoFile
                                                 THEN OpenExisting(file, s) ELSE <<>>]
  <2>1. stage' # "rft" /\ stage' # stage
    BY <1>1
  <2> QED BY <2>1 DEF OpenRestart
<1>3. g = IF deck.unified /\ file # NoFile THEN OpenExisting(file, s) ELSE <<>>
  BY <1>1, <1>2 DEF TypeOK
<1>4. restart' = [restart EXCEPT ![Name(s)] = g]
  BY <1>2, <1>3
<1>5. CASE deck.unified /\ file # NoFile
  <2>1. g = OpenExisting(file, s) /\ file \in Files /\ Ascending(file)
    BY <1>1, <1>3, <1>5 DEF Ordered, Name
  <2> HIDE DEF g, file, s
  <2>2. PICK n \in 0 .. Len(file) :
          /\ g \in Files /\ Len(g) = n /\ \A i \in 1 .. n : g[i] = file[i]
          /\ \A i \in Found(file) : i <= n <=> file[i].step < s
    BY <1>1, <2>1, OpenKeeps
  <2>3. Len(file) \in Nat /\ DOMAIN file = 1 .. Len(file) /\ DOMAIN g = 1 .. n
    BY <2>1, <2>2, FilesAre
  <2>4. \A i \in DOMAIN g : i \in DOMAIN file /\ g[i] = file[i]
    BY <2>2, <2>3
  <2>5. \A i \in Found(file) : file[i].step < s => i \in DOMAIN g
    BY <2>2, <2>3 DEF Found
  <2>6. \A i \in Found(g) : g[i].step < s
    BY <2>2, <2>3, <2>4 DEF Found
  <2>7. /\ Ascending(g)
        /\ StoredIn(g) = [t \in {u \in DOMAIN StoredIn(file) : u < s} |-> StoredIn(file)[t]]
    BY <1>1, <2>1, StoredOpen
  <2>8. ~ (~ deck.unified \/ file = NoFile)
    BY <1>5
  <2> QED BY <1>1, <1>2, <1>4, <2>2, <2>4, <2>5, <2>6, <2>7, <2>8 DEF g, file, s
<1>6. CASE ~ (deck.unified /\ file # NoFile)
  <2>1. g = <<>> /\ Found(<<>>) = {} /\ <<>> \in Files
    BY <1>3, <1>6, FilesAre DEF Found
  <2> HIDE DEF g, file, s
  <2>2. Ascending(g) /\ g \in Files /\ \A i \in Found(g) : g[i].step < s
    BY <2>1 DEF Ascending
  <2> QED BY <1>1, <1>2, <1>4, <1>6, <2>1, <2>2 DEF g, file, s
<1> QED BY <1>5, <1>6

LEMMA NotOpened ==
  ASSUME OpenRestart, stage' # "writing"
  PROVE  /\ UNCHANGED restart
         /\ \/ stage' = "rft" /\ ~ WritesRestart /\ up' = up
            \/ stage' = stage /\ up' = FALSE
BY DEF OpenRestart

\* The restart file after a step, or a part of it, is appended.
LEMMA Appended ==
  ASSUME TypeOK, Reached, Ordered, NEW part \in Parts, WriteRestart(part)
  PROVE  LET s == done + 1
             file == restart[Name(s)]
             g == restart'[Name(s)]
         IN /\ up /\ WritesRestart /\ s \in Steps /\ run \in 1 .. MaxRuns
            /\ restart' = [restart EXCEPT ![Name(s)] = g]
            /\ file \in Files /\ g \in Files /\ Len(g) = Len(file) + 1 /\ Len(file) \in Nat
            /\ DOMAIN file = 1 .. Len(file) /\ DOMAIN g = 1 .. Len(file) + 1
            /\ \A i \in DOMAIN file : g[i] = file[i]
            /\ g[Len(file) + 1] = Item(s, run, part)
            /\ \A i \in Found(file) : file[i].step < s
            /\ g = Append(file, Item(s, run, part))
<1> DEFINE s == done + 1
           file == restart[Name(s)]
           g == restart'[Name(s)]
           e == Item(s, run, part)
<1>1. /\ stage = "writing" /\ up /\ s \in Steps /\ Name(s) \in Names /\ run \in 1 .. MaxRuns
      /\ restart' = [restart EXCEPT ![Name(s)] = Append(file, e)]
  BY Facts DEF WriteRestart
<1>2. WritesRestart /\ file \in Files /\ \A i \in Found(file) : file[i].step < s
  BY <1>1 DEF Ordered, TypeOK
<1>3. g = Append(file, e)
  BY <1>1 DEF TypeOK
<1>4. e \in Entry
  BY <1>1 DEF Entry, Item
<1> HIDE DEF g, file, s, e
<1>5. /\ g \in Files /\ Len(g) = Len(file) + 1 /\ Len(file) \in Nat
      /\ DOMAIN file = 1 .. Len(file) /\ DOMAIN g = 1 .. Len(file) + 1
      /\ \A i \in DOMAIN file : g[i] = file[i]
      /\ g[Len(file) + 1] = e
  BY <1>2, <1>3, <1>4, FilesAre, AppendFacts
<1> QED BY <1>1, <1>2, <1>3, <1>5 DEF g, file, s, e

LEMMA RunsKnownStep == ASSUME TypeOK, Reached, Ordered, RunsKnown, [Next]_vars PROVE RunsKnown'
<1>0. run \in Nat
  BY Facts
<1> DEFINE Known(q, n) == \A i \in DOMAIN q : q[i].run <= n
<1>1. ASSUME Begin PROVE /\ \A f \in Names : restart'[f] # NoFile => Known(restart'[f], run')
                         /\ Known(rftFile', run')
                         /\ \A t \in DOMAIN written : written[t] <= run'
  <2>1. run' = run + 1 /\ restart' = restart /\ rftFile' = rftFile
    BY <1>1 DEF Begin
  <2>2. \A n \in Int : n <= run => n <= run + 1
    BY <1>0
  <2>3. \A f \in Names : restart[f] # NoFile => \A i \in DOMAIN restart[f] : restart[f][i].run \in Int
    <3> SUFFICES ASSUME NEW f \in Names, restart[f] # NoFile, NEW i \in DOMAIN restart[f]
                 PROVE  restart[f][i].run \in Int
      OBVIOUS
    <3>1. restart[f] \in Seq(Entry)
      BY FilesAre DEF TypeOK
    <3>2. restart[f][i] \in Entry
      BY <3>1, SeqElement
    <3> QED BY <3>2 DEF Entry
  <2>4. \A i \in DOMAIN rftFile : rftFile[i].run \in Int
    <3> SUFFICES ASSUME NEW i \in DOMAIN rftFile PROVE rftFile[i].run \in Int
      OBVIOUS
    <3>1. rftFile \in Seq([step : Steps, run : 1 .. MaxRuns, whole : BOOLEAN])
      BY DEF TypeOK
    <3>2. rftFile[i] \in [step : Steps, run : 1 .. MaxRuns, whole : BOOLEAN]
      BY <3>1, SeqElement
    <3> QED BY <3>2
  <2>5. \A t \in DOMAIN written : written[t] \in Int
    BY Facts
  <2> QED BY <2>1, <2>2, <2>3, <2>4, <2>5 DEF RunsKnown
<1>2. CASE StartOver
  BY <1>1, <1>2 DEF StartOver, RunsKnown
<1>3. ASSUME NEW s \in Steps, Restart(s) PROVE RunsKnown'
  BY <1>1, <1>3 DEF Restart, RunsKnown
<1>4. CASE UNCHANGED <<restart, rftFile, written, run>>
  BY <1>4 DEF RunsKnown
<1>5. CASE OpenRestart
  <2>1. CASE stage' = "writing"
    <3> DEFINE s == done + 1
               g == restart'[Name(s)]
    <3>1. /\ restart' = [restart EXCEPT ![Name(s)] = g]
          /\ ~ deck.unified \/ restart[Name(s)] = NoFile => g = <<>>
          /\ deck.unified /\ restart[Name(s)] # NoFile =>
               \A i \in DOMAIN g : i \in DOMAIN restart[Name(s)] /\ g[i] = restart[Name(s)][i]
          /\ Name(s) \in Names
      BY <1>5, <2>1, OpenedFile, Facts DEF OpenRestart
    <3> HIDE DEF s, g
    <3>2. Known(g, run)
      BY <3>1 DEF RunsKnown
    <3>3. \A f \in Names : restart'[f] = IF f = Name(s) THEN g ELSE restart[f]
      BY <3>1 DEF TypeOK
    <3> QED BY <1>5, <3>2, <3>3 DEF OpenRestart, RunsKnown
  <2>2. CASE stage' # "writing"
    BY <1>5, <2>2, NotOpened DEF OpenRestart, RunsKnown
  <2> QED BY <2>1, <2>2
<1>6. ASSUME NEW part \in Parts, WriteRestart(part) PROVE RunsKnown'
  <2> DEFINE s == done + 1
             file == restart[Name(s)]
             g == restart'[Name(s)]
  <2>1. /\ restart' = [restart EXCEPT ![Name(s)] = g] /\ file \in Files
        /\ Len(file) \in Nat /\ DOMAIN file = 1 .. Len(file) /\ DOMAIN g = 1 .. Len(file) + 1
        /\ \A i \in DOMAIN file : g[i] = file[i]
        /\ g[Len(file) + 1] = Item(s, run, part)
    BY <1>6, Appended
  <2>0. Name(s) \in Names /\ Item(s, run, part).run = run
    BY <1>6, Facts DEF WriteRestart, Item
  <2> HIDE DEF s, file, g
  <2>2. Known(file, run)
    BY <2>0, <2>1, FilesAre DEF RunsKnown, file
  <2>3. Known(g, run)
    BY <1>0, <2>0, <2>1, <2>2
  <2>4. \A f \in Names : restart'[f] = IF f = Name(s) THEN g ELSE restart[f]
    BY <2>0, <2>1 DEF TypeOK
  <2>5. \A t \in DOMAIN written' : written'[t] \in {run} \/ (t \in DOMAIN written /\ written'[t] = written[t])
    <3>1. \/ written' = written
          \/ written' = [t \in DOMAIN written \cup {s} |-> IF t = s THEN run ELSE written[t]]
      BY <1>6 DEF WriteRestart, s
    <3> QED BY <3>1
  <2>6. \A t \in DOMAIN written' : written'[t] <= run
    BY <1>0, <2>5 DEF RunsKnown
  <2>7. UNCHANGED <<run, rftFile>>
    BY <1>6 DEF WriteRestart
  <2>8. \A f \in Names : restart'[f] # NoFile => Known(restart'[f], run)
    BY <2>3, <2>4 DEF RunsKnown
  <2>9. Known(rftFile, run)
    BY DEF RunsKnown
  <2> QED BY <2>6, <2>7, <2>8, <2>9 DEF RunsKnown
<1>7. ASSUME NEW whole \in BOOLEAN, WriteRft(whole) PROVE RunsKnown'
  <2> DEFINE s == done + 1
             Line == [step : Steps, run : 1 .. MaxRuns, whole : BOOLEAN]
             e == [step |-> s, run |-> run, whole |-> whole]
             old == IF s = Min(RftSteps) THEN <<>> ELSE rftFile
  <2>1. e \in Line /\ old \in Seq(Line) /\ e.run = run
    <3>1. s \in Steps /\ run \in 1 .. MaxRuns
      BY <1>7, Facts DEF WriteRft
    <3> QED BY <3>1 DEF TypeOK
  <2>2. rftFile' \in {rftFile, old, Append(old, e)}
    BY <1>7 DEF WriteRft, RftAfter
  <2>3. Known(rftFile, run) /\ Known(old, run)
    BY DEF RunsKnown
  <2> HIDE DEF s, e, Line, old
  <2>4. /\ DOMAIN Append(old, e) = 1 .. Len(old) + 1 /\ Len(old) \in Nat /\ DOMAIN old = 1 .. Len(old)
        /\ \A i \in 1 .. Len(old) : Append(old, e)[i] = old[i]
        /\ Append(old, e)[Len(old) + 1] = e
    BY <2>1, AppendFacts
  <2>5. Known(Append(old, e), run)
    BY <1>0, <2>1, <2>3, <2>4
  <2>6. Known(rftFile', run)
    BY <2>2, <2>3, <2>5
  <2> QED BY <1>7, <2>6 DEF WriteRft, RunsKnown
<1> QED BY <1>2, <1>3, <1>4, <1>5, <1>6, <1>7 DEF Next, Stop, WriteSummary, vars

LEMMA NameAgain == ASSUME deck' = deck PROVE \A s : Name(s)' = Name(s)
BY DEF Name

LEMMA OrderedStep == ASSUME TypeOK, Reached, Ordered, [Next]_vars PROVE Ordered'
<1>1. ASSUME UNCHANGED restart, stage' # "writing" PROVE Ordered'
  BY <1>1 DEF Ordered
<1>2. CASE StartOver \/ \E s \in Steps : Restart(s)
  BY <1>1, <1>2 DEF StartOver, Restart, Begin
<1>3. CASE Stop
  BY <1>3 DEF Stop, Ordered, WritesRestart, Name
<1>4. ASSUME NEW isSubstep \in BOOLEAN, WriteSummary(isSubstep) PROVE Ordered'
  BY <1>1, <1>4 DEF WriteSummary
<1>5. CASE OpenRestart
  <2>1. CASE stage' # "writing"
    BY <1>1, <1>5, <2>1, NotOpened
  <2>2. CASE stage' = "writing"
    <3> DEFINE s == done + 1
               g == restart'[Name(s)]
    <3>1. /\ WritesRestart /\ g \in Files /\ Ascending(g) /\ \A i \in Found(g) : g[i].step < s
          /\ restart' = [restart EXCEPT ![Name(s)] = g]
      BY <1>5, <2>2, OpenedFile
    <3>2. deck' = deck /\ done' = done
      BY <1>5 DEF OpenRestart
    <3>3. restart'[Unified] = g \/ restart'[Unified] = restart[Unified]
      <4> HIDE DEF g, s
      <4> QED BY <3>1, Facts DEF TypeOK
    <3>4. Ascending(restart'[Unified])
      BY <3>1, <3>3 DEF Ordered
    <3>5. Name(done + 1)' = Name(s) /\ WritesRestart'
      BY <3>1, <3>2 DEF Name, WritesRestart
    <3> HIDE DEF g, s
    <3>6. g # NoFile
      BY <3>1, FilesAre
    <3> QED BY <3>1, <3>2, <3>4, <3>5, <3>6 DEF Ordered, g, s
  <2> QED BY <2>1, <2>2
<1>6. ASSUME NEW part \in Parts, WriteRestart(part) PROVE Ordered'
  <2> DEFINE s == done + 1
             file == restart[Name(s)]
             g == restart'[Name(s)]
  <2>1. /\ WritesRestart /\ s \in Steps /\ run \in 1 .. MaxRuns /\ file \in Files /\ g \in Files
        /\ DOMAIN g = 1 .. Len(file) + 1 /\ DOMAIN file = 1 .. Len(file)
        /\ \A i \in DOMAIN file : g[i] = file[i]
        /\ g[Len(file) + 1] = Item(s, run, part)
        /\ \A i \in Found(file) : file[i].step < s
        /\ restart' = [restart EXCEPT ![Name(s)] = g]
    BY <1>6, Appended
  <2>2. deck' = deck /\ done' = done /\ (stage' = "writing" => ~ up')
    BY <1>6 DEF WriteRestart
  <2>3. Ascending(restart'[Unified])
    <3>1. CASE Name(s) = Unified
      <4>1. Ascending(file) /\ restart'[Unified] = g
        BY <2>1, <3>1 DEF Ordered
      <4> HIDE DEF file, g, s
      <4>2. Ascending(g)
        <5>1. Grown(g, file, s, run, part)
          BY <1>6, <2>1, <4>1 DEF Grown
        <5> QED BY <5>1, StoredAppend
      <4> QED BY <4>1, <4>2
    <3>2. CASE Name(s) # Unified
      <4> HIDE DEF g, s
      <4>1. restart'[Unified] = restart[Unified]
        BY <2>1, <3>2, Facts DEF TypeOK
      <4> QED BY <4>1 DEF Ordered
    <3> QED BY <3>1, <3>2
  <2>4. Name(done + 1)' = Name(s) /\ WritesRestart'
    BY <2>1, <2>2 DEF Name, WritesRestart
  <2>5. g # NoFile
    BY <2>1, FilesAre
  <2> HIDE DEF g, file, s
  <2> QED BY <2>2, <2>3, <2>4, <2>5 DEF Ordered, g
<1>7. ASSUME NEW whole \in BOOLEAN, WriteRft(whole) PROVE Ordered'
  BY <1>1, <1>7 DEF WriteRft
<1>8. CASE UNCHANGED vars
  BY <1>8 DEF vars, Ordered, WritesRestart, Name
<1> QED BY <1>2, <1>3, <1>4, <1>5, <1>6, <1>7, <1>8 DEF Next

\* Where a step that a run builds on is.
LEMMA KeptAt ==
  ASSUME TypeOK, StepsKept, NEW t \in DOMAIN written
  PROVE  /\ t \in Steps /\ Name(t) \in Names
         /\ restart[Name(t)] \in Files
         /\ \E i \in Found(restart[Name(t)]) : /\ i \in DOMAIN restart[Name(t)]
                                               /\ restart[Name(t)][i] = Item(t, written[t], "whole")
<1> DEFINE file == restart[Name(t)]
<1>1. t \in Steps /\ Name(t) \in Names
  BY DEF TypeOK, Name, Names
<1>2. PICK i \in DOMAIN file : file[i] = Item(t, written[t], "whole")
  BY DEF StepsKept, Range
<1>3. file # NoFile
  <2>1. ASSUME file = NoFile PROVE FALSE
    <3>1. i = 1 /\ NoFile[i].part = "none"
      BY <1>2, <2>1 DEF NoFile, Item
    <3>2. NoFile[i].part = "whole"
      BY <1>2, <2>1 DEF Item
    <3> QED BY <3>1, <3>2
  <2> QED BY <2>1
<1>4. i \in Found(file)
  BY <1>2 DEF Found, Item
<1> QED BY <1>1, <1>2, <1>3, <1>4 DEF TypeOK

LEMMA StepsKeptStep ==
  ASSUME TypeOK, Reached, Ordered, History, [Next]_vars
  PROVE  StepsKept'
<1>1. ASSUME UNCHANGED <<restart, deck>>, DOMAIN written' \subseteq DOMAIN written,
             \A t \in DOMAIN written' : written'[t] = written[t]
      PROVE  StepsKept'
  <2>1. \A t \in DOMAIN written' : Item(t, written[t], "whole") \in Range(restart[Name(t)])
    BY <1>1 DEF History, StepsKept
  <2> QED BY <1>1, <2>1, NameAgain DEF StepsKept
<1>2. CASE StartOver
  BY <1>2 DEF StartOver, StepsKept
<1>3. ASSUME NEW s \in Steps, Restart(s) PROVE StepsKept'
  BY <1>1, <1>3 DEF Restart, Begin
<1>4. CASE UNCHANGED <<restart, deck, written>>
  BY <1>1, <1>4
<1>5. CASE OpenRestart
  <2>1. CASE stage' # "writing"
    BY <1>1, <1>5, <2>1, NotOpened DEF OpenRestart
  <2>2. CASE stage' = "writing"
    <3> DEFINE s == done + 1
               file == restart[Name(s)]
               g == restart'[Name(s)]
    <3>0. stage = "restart" /\ s \in Steps /\ UNCHANGED <<deck, written>>
      BY <1>5, Facts DEF OpenRestart
    <3>1. /\ restart' = [restart EXCEPT ![Name(s)] = g]
          /\ deck.unified /\ file # NoFile =>
               /\ \A i \in DOMAIN g : i \in DOMAIN file /\ g[i] = file[i]
               /\ \A i \in Found(file) : file[i].step < s => i \in DOMAIN g
      BY <1>5, <2>2, OpenedFile
    <3> SUFFICES ASSUME NEW t \in DOMAIN written
                 PROVE  Item(t, written[t], "whole") \in Range(restart'[Name(t)])
      BY <3>0, NameAgain DEF StepsKept
    <3>2. PICK i \in Found(restart[Name(t)]) : /\ i \in DOMAIN restart[Name(t)]
                                               /\ restart[Name(t)][i] = Item(t, written[t], "whole")
      BY KeptAt DEF History
    <3>3. t \in Steps /\ Name(t) \in Names /\ restart[Name(t)] \in Files
      BY KeptAt DEF History
    <3>4. t < s
      BY <3>0, <3>3, Facts, StepFacts DEF History, Present
    <3> HIDE DEF s, g
    <3>5. CASE Name(t) = Name(s)
      <4>1. deck.unified
        BY <3>0, <3>4, <3>5, StepFacts DEF Name
      <4>2. restart[Name(t)][i].step = t
        BY <3>2 DEF Item
      <4>3. i \in DOMAIN g /\ g[i] = Item(t, written[t], "whole")
        BY <3>1, <3>2, <3>3, <3>4, <3>5, <4>1, <4>2, FilesAre
      <4> QED BY <3>5, <4>3 DEF g, Range
    <3>6. CASE Name(t) # Name(s)
      <4>1. restart'[Name(t)] = restart[Name(t)]
        BY <3>1, <3>3, <3>6 DEF TypeOK
      <4> QED BY <3>2, <4>1 DEF Range
    <3> QED BY <3>5, <3>6
  <2> QED BY <2>1, <2>2
<1>6. ASSUME NEW part \in Parts, WriteRestart(part) PROVE StepsKept'
  <2> DEFINE s == done + 1
             file == restart[Name(s)]
             g == restart'[Name(s)]
  <2>1. /\ restart' = [restart EXCEPT ![Name(s)] = g]
        /\ s \in Steps /\ Len(file) \in Nat
        /\ DOMAIN file = 1 .. Len(file) /\ DOMAIN g = 1 .. Len(file) + 1
        /\ \A i \in DOMAIN file : g[i] = file[i]
        /\ g[Len(file) + 1] = Item(s, run, part)
    BY <1>6, Appended
  <2>2. /\ stage = "writing" /\ UNCHANGED deck
        /\ \/ written' = written
           \/ /\ part = "whole"
              /\ written' = [t \in DOMAIN written \cup {s} |-> IF t = s THEN run ELSE written[t]]
    BY <1>6 DEF WriteRestart
  <2>3. \A t \in DOMAIN written : t # s
    BY <2>2, Facts, StepFacts DEF History, Present
  <2>4. \A t \in DOMAIN written' :
          \/ t \in DOMAIN written /\ written'[t] = written[t]
          \/ t = s /\ written'[t] = run /\ part = "whole"
    BY <2>2, <2>3
  <2> SUFFICES ASSUME NEW t \in DOMAIN written'
               PROVE  Item(t, written'[t], "whole") \in Range(restart'[Name(t)])
    BY <2>2, NameAgain DEF StepsKept
  <2>5. CASE t \in DOMAIN written /\ written'[t] = written[t]
    <3>1. PICK i \in DOMAIN restart[Name(t)] : restart[Name(t)][i] = Item(t, written[t], "whole")
      BY <2>5, KeptAt DEF History
    <3>2. Name(t) \in Names
      BY <2>5, KeptAt DEF History
    <3> HIDE DEF s, g, file
    <3>3. CASE Name(t) = Name(s)
      <4>1. i \in DOMAIN g /\ g[i] = Item(t, written[t], "whole")
        BY <2>1, <3>1, <3>3 DEF file
      <4> QED BY <2>5, <3>3, <4>1 DEF g, Range
    <3>4. CASE Name(t) # Name(s)
      <4>1. restart'[Name(t)] = restart[Name(t)]
        BY <2>1, <3>2, <3>4 DEF TypeOK
      <4> QED BY <2>5, <3>1, <4>1 DEF Range
    <3> QED BY <3>3, <3>4
  <2>6. CASE t = s /\ written'[t] = run /\ part = "whole"
    <3> HIDE DEF s, file
    <3> QED BY <2>1, <2>6 DEF Range
  <2> QED BY <2>4, <2>5, <2>6
<1>7. ASSUME NEW whole \in BOOLEAN, WriteRft(whole) PROVE StepsKept'
  BY <1>4, <1>7 DEF WriteRft
<1> QED BY <1>2, <1>3, <1>4, <1>5, <1>6, <1>7 DEF Next, Stop, WriteSummary, vars

LEMMA HistoryStep ==
  ASSUME TypeOK, Reached, Ordered, History, [Next]_vars
  PROVE  History'
<1> DEFINE Known == \A t \in DOMAIN written : t <= Present /\ t \in deck.plan
<1>0. Known /\ done \in Int /\ \A t \in DOMAIN written : t \in Int
  <2>1. Known
    BY DEF History
  <2>2. done \in Int /\ DOMAIN written \subseteq Steps
    BY DEF TypeOK
  <2>3. \A t \in Steps : t \in Int
    BY StepFacts
  <2> QED BY <2>1, <2>2, <2>3
<1>1. ASSUME StartOver PROVE Known'
  BY <1>1 DEF StartOver
<1>2. ASSUME NEW s \in Steps, Restart(s) PROVE Known'
  BY <1>0, <1>2 DEF Restart, Begin, Present
<1>3. ASSUME Stop \/ UNCHANGED vars PROVE Known'
  BY <1>0, <1>3 DEF Stop, vars, Present
<1>4. ASSUME NEW isSubstep \in BOOLEAN, WriteSummary(isSubstep) PROVE Known'
  BY <1>0, <1>4 DEF WriteSummary, Present
<1>5. ASSUME OpenRestart PROVE Known'
  <2>1. stage = "restart" /\ stage' \in {"restart", "writing", "rft"} /\ UNCHANGED <<deck, done, written>>
    BY <1>5 DEF OpenRestart
  <2> QED BY <1>0, <2>1 DEF Present
<1>6. ASSUME NEW part \in Parts, WriteRestart(part) PROVE Known'
  <2>1. WritesRestart /\ stage = "writing" /\ UNCHANGED <<deck, done>>
    BY <1>6, Appended DEF WriteRestart
  <2>2. \/ written' = written /\ stage' = stage
        \/ /\ stage' = "rft"
           /\ written' = [t \in DOMAIN written \cup {done + 1} |-> IF t = done + 1 THEN run ELSE written[t]]
    BY <1>6 DEF WriteRestart
  <2> QED BY <1>0, <2>1, <2>2 DEF Present, WritesRestart
<1>7. ASSUME NEW whole \in BOOLEAN, WriteRft(whole) PROVE Known'
  BY <1>0, <1>7 DEF WriteRft, Present
<1>8. StepsKept'
  BY StepsKeptStep
<1> QED BY <1>1, <1>2, <1>3, <1>4, <1>5, <1>6, <1>7, <1>8 DEF Next, History

\* Both facts below only look at the complete steps of the unified file.
LEMMA WholeAfterOpen ==
  ASSUME TypeOK, Reached, Ordered, OpenRestart, deck.unified,
         NEW i \in WholeIn(restart'[Unified])
  PROVE  i \in WholeIn(restart[Unified]) /\ restart'[Unified][i] = restart[Unified][i]
<1>1. CASE stage' # "writing"
  BY <1>1, NotOpened
<1>2. CASE stage' = "writing"
  <2> DEFINE g == restart'[Unified]
             file == restart[Unified]
  <2>1. /\ file = NoFile => g = <<>>
        /\ file # NoFile => \A j \in DOMAIN g : j \in DOMAIN file /\ g[j] = file[j]
    BY <1>2, OpenedFile DEF Name
  <2>2. i \in DOMAIN g /\ g[i].part = "whole"
    BY DEF WholeIn
  <2> HIDE DEF g, file
  <2>3. i \in DOMAIN file /\ g[i] = file[i]
    BY <2>1, <2>2
  <2> QED BY <2>2, <2>3 DEF WholeIn, g, file
<1> QED BY <1>1, <1>2

LEMMA WholeAfterWrite ==
  ASSUME TypeOK, Reached, Ordered, NEW part \in Parts, WriteRestart(part), deck.unified,
         NEW i \in WholeIn(restart'[Unified])
  PROVE  \/ /\ i \in WholeIn(restart[Unified]) /\ restart'[Unified][i] = restart[Unified][i]
            /\ restart[Unified][i].step < done + 1
         \/ part = "whole" /\ restart'[Unified][i] = Item(done + 1, run, part)
<1> DEFINE g == restart'[Unified]
           file == restart[Unified]
<1>1. /\ DOMAIN file = 1 .. Len(file) /\ DOMAIN g = 1 .. Len(file) + 1 /\ Len(file) \in Nat
      /\ \A j \in DOMAIN file : g[j] = file[j]
      /\ g[Len(file) + 1] = Item(done + 1, run, part)
      /\ \A j \in Found(file) : file[j].step < done + 1
  BY Appended DEF Name
<1>2. i \in DOMAIN g /\ g[i].part = "whole"
  BY DEF WholeIn
<1> HIDE DEF g, file
<1>3. CASE i = Len(file) + 1
  BY <1>1, <1>2, <1>3 DEF Item, g
<1>4. CASE i # Len(file) + 1
  <2>1. i \in DOMAIN file /\ g[i] = file[i]
    BY <1>1, <1>2, <1>4
  <2>2. i \in Found(file)
    BY <1>2, <2>1 DEF Found
  <2> QED BY <1>1, <1>2, <2>1, <2>2 DEF WholeIn, g, file
<1> QED BY <1>3, <1>4

\* What the steps of the archive are, for the numbers below.
LEMMA WholeSteps ==
  ASSUME TypeOK
  PROVE  \A i \in WholeIn(restart[Unified]) : /\ restart[Unified][i].step \in Steps
                                              /\ restart[Unified][i].step \in Int
<1>1. restart[Unified] \in Files \cup {NoFile}
  BY DEF TypeOK, Names
<1>2. CASE restart[Unified] = NoFile
  BY <1>2 DEF WholeIn, NoFile, Item
<1>3. CASE restart[Unified] \in Files
  <2>0. \A s \in Steps : s \in Int
    BY StepFacts
  <2> SUFFICES ASSUME NEW i \in WholeIn(restart[Unified]) PROVE restart[Unified][i].step \in Steps
    BY <2>0
  <2>1. restart[Unified] \in Seq(Entry) /\ i \in DOMAIN restart[Unified]
    BY <1>3, FilesAre DEF WholeIn
  <2>2. restart[Unified][i] \in Entry
    BY <2>1, SeqElement
  <2> QED BY <2>2 DEF Entry
<1> QED BY <1>1, <1>2, <1>3

LEMMA OfThePlanStep ==
  ASSUME TypeOK, Reached, Ordered, History, OfThePlan, [Next]_vars
  PROVE  OfThePlan'
<1> DEFINE D == DOMAIN written
           Planned(u) == \A i \in WholeIn(restart[Unified]) :
                           restart[Unified][i].step >= u => restart[Unified][i].step \in deck.plan
           Complete(u) == \A t \in deck.plan : u <= t /\ t <= Present => t \in D
<1>0. /\ done \in Int /\ \A u \in D : u \in Int /\ u <= Present
      /\ \A u \in deck.plan : u \in Int
  <2>1. done \in Int /\ D \subseteq Steps /\ deck.plan \subseteq Steps
    BY Facts
  <2>2. \A u \in Steps : u \in Int
    BY StepFacts
  <2> QED BY <2>1, <2>2 DEF History
<1>a. OfThePlan <=> (deck.unified => \A u \in D : Planned(u) /\ Complete(u))
  BY DEF OfThePlan
<1>b. OfThePlan' <=> (deck'.unified => \A u \in D' : Planned(u)' /\ Complete(u)')
  BY DEF OfThePlan
<1>1. CASE StartOver
  BY <1>1, <1>b DEF StartOver
<1>2. ASSUME NEW s \in Steps, Restart(s) PROVE OfThePlan'
  <2>1. /\ UNCHANGED <<restart, deck>> /\ s \in D /\ D' = {u \in D : u <= s}
        /\ Present' = s
    BY <1>2 DEF Restart, Begin, Present
  <2>2. \A u \in D' : u \in D
    BY <2>1
  <2>3. deck.unified => \A u \in D' : Planned(u)'
    BY <1>a, <2>1, <2>2
  <2>4. s <= Present /\ s \in Int /\ Present \in Int
    BY <1>0, <2>1 DEF Present
  <2>5. ASSUME deck.unified, NEW u \in D', NEW t \in deck.plan, u <= t, t <= s
        PROVE  t \in D'
    <3>1. t \in Int /\ t <= Present /\ Complete(u)
      BY <1>0, <1>a, <2>2, <2>4, <2>5
    <3> QED BY <2>1, <2>5, <3>1
  <2> QED BY <1>b, <2>1, <2>3, <2>5
<1>3. ASSUME UNCHANGED <<restart, deck, written>>, Present' = Present PROVE OfThePlan'
  BY <1>3, <1>a, <1>b
<1>4. CASE Stop \/ UNCHANGED vars
  BY <1>3, <1>4 DEF Stop, vars, Present
<1>5. ASSUME NEW isSubstep \in BOOLEAN, WriteSummary(isSubstep) PROVE OfThePlan'
  BY <1>3, <1>5 DEF WriteSummary, Present
<1>6. CASE OpenRestart
  <2>1. stage = "restart" /\ UNCHANGED <<deck, done, written>>
    BY <1>6 DEF OpenRestart
  <2>2. ASSUME deck.unified, NEW u \in D PROVE Planned(u)'
    BY <1>6, <1>a, <2>1, <2>2, WholeAfterOpen
  <2>3. ASSUME deck.unified, NEW u \in D PROVE Complete(u)'
    <3>1. CASE Present' = Present
      BY <1>a, <2>1, <2>3, <3>1
    <3>2. CASE Present' # Present
      <4>1. Present = done /\ Present' = done + 1
        BY <2>1, <3>2 DEF Present
      <4>2. done + 1 \notin deck.plan
        <5>1. stage' # "writing"
          BY <2>1, <3>2 DEF Present
        <5>2. stage' = "rft"
          BY <2>1, <4>1, <1>0 DEF Present
        <5> QED BY <1>6, <2>1, <5>1, <5>2, NotOpened DEF WritesRestart
      <4>3. ASSUME NEW t \in deck.plan, u <= t, t <= done + 1 PROVE t \in D
        BY <1>0, <1>a, <2>3, <4>1, <4>2, <4>3
      <4> QED BY <2>1, <4>1, <4>3
    <3> QED BY <3>1, <3>2
  <2> QED BY <1>b, <2>1, <2>2, <2>3
<1>7. ASSUME NEW part \in Parts, WriteRestart(part) PROVE OfThePlan'
  <2> DEFINE s == done + 1
  <2>1. /\ stage = "writing" /\ UNCHANGED <<deck, done>> /\ Present = done
        /\ s \in deck.plan /\ s \in Int
    BY <1>0, <1>7, Appended DEF WriteRestart, Present, WritesRestart
  <2>2. \/ D' = D /\ Present' = done /\ part # "whole"
        \/ D' = D \cup {s} /\ Present' = s /\ part = "whole"
    BY <1>7, <2>1 DEF WriteRestart, Present
  <2>3. ASSUME deck.unified, NEW u \in D PROVE Planned(u)'
    <3> SUFFICES ASSUME NEW i \in WholeIn(restart'[Unified]), restart'[Unified][i].step >= u
                 PROVE  restart'[Unified][i].step \in deck.plan
      BY <2>1
    <3>1. CASE /\ i \in WholeIn(restart[Unified])
               /\ restart'[Unified][i] = restart[Unified][i]
      BY <1>a, <2>3, <3>1
    <3>2. CASE restart'[Unified][i] = Item(s, run, part)
      BY <2>1, <3>2 DEF Item
    <3> QED BY <1>7, <2>3, <3>1, <3>2, WholeAfterWrite
  <2>4. ASSUME deck.unified PROVE Planned(s)'
    <3> SUFFICES ASSUME NEW i \in WholeIn(restart'[Unified]), restart'[Unified][i].step >= s
                 PROVE  restart'[Unified][i].step \in deck.plan
      BY <2>1
    <3>1. CASE /\ i \in WholeIn(restart[Unified])
               /\ restart'[Unified][i] = restart[Unified][i]
               /\ restart[Unified][i].step < s
      <4>1. restart[Unified][i].step \in Int
        BY <3>1, WholeSteps
      <4> QED BY <2>1, <3>1, <4>1
    <3>2. CASE restart'[Unified][i] = Item(s, run, part)
      BY <2>1, <3>2 DEF Item
    <3> QED BY <1>7, <2>4, <3>1, <3>2, WholeAfterWrite
  <2>5. ASSUME deck.unified, NEW u \in D', NEW t \in deck.plan, u <= t, t <= Present' PROVE t \in D'
    <3>1. t \in Int
      BY <1>0
    <3>2. CASE t = s
      <4>1. D' = D \cup {s}
        BY <1>0, <2>2, <2>5, <3>2
      <4> QED BY <3>2, <4>1
    <3>3. CASE t # s
      <4>1. t <= done
        BY <1>0, <2>1, <2>2, <2>5, <3>1, <3>3
      <4>2. u \in D
        BY <1>0, <2>1, <2>2, <2>5, <3>1, <4>1
      <4> QED BY <1>a, <2>1, <2>2, <2>5, <4>1, <4>2
    <3> QED BY <3>2, <3>3
  <2>6. \A u \in D' : u \in D \/ u = s
    BY <2>2
  <2> QED BY <1>b, <2>1, <2>3, <2>4, <2>5, <2>6
<1>8. ASSUME NEW whole \in BOOLEAN, WriteRft(whole) PROVE OfThePlan'
  <2>1. Present' = Present
    BY <1>8 DEF WriteRft, Present
  <2> QED BY <1>3, <1>8, <2>1 DEF WriteRft
<1> QED BY <1>1, <1>2, <1>4, <1>5, <1>6, <1>7, <1>8 DEF Next

LEMMA NewestStep ==
  ASSUME TypeOK, Reached, Ordered, RunsKnown, History, Newest, [Next]_vars
  PROVE  Newest'
<1> DEFINE Mine == \E u \in DOMAIN written : written[u] = run
           Below == \A i \in WholeIn(restart[Unified]) : restart[Unified][i].step <= Present
<1>0. /\ done \in Int /\ run \in Int /\ \A u \in DOMAIN written : written[u] \in Int
      /\ Present \in Int
  BY Facts DEF Present
<1>a. ASSUME Begin, \A u \in DOMAIN written' : u \in DOMAIN written /\ written'[u] = written[u]
      PROVE  Newest'
  <2>1. run' = run + 1
    BY <1>a DEF Begin
  <2>2. \A u \in DOMAIN written' : written'[u] \in Int /\ written'[u] <= run
    BY <1>0, <1>a DEF RunsKnown
  <2>3. \A u \in DOMAIN written' : written'[u] # run'
    BY <1>0, <2>1, <2>2
  <2> QED BY <2>3 DEF Newest
<1>1. CASE StartOver
  BY <1>a, <1>1 DEF StartOver
<1>2. ASSUME NEW s \in Steps, Restart(s) PROVE Newest'
  BY <1>a, <1>2 DEF Restart
<1>3. ASSUME UNCHANGED <<restart, deck, written, run>>, Present' = Present PROVE Newest'
  BY <1>3 DEF Newest
<1>4. CASE Stop \/ UNCHANGED vars
  BY <1>3, <1>4 DEF Stop, vars, Present
<1>5. ASSUME NEW isSubstep \in BOOLEAN, WriteSummary(isSubstep) PROVE Newest'
  BY <1>3, <1>5 DEF WriteSummary, Present
<1>6. CASE OpenRestart
  <2>1. stage = "restart" /\ UNCHANGED <<deck, done, written, run>> /\ Present' \in {done, done + 1}
        /\ Present = done
    BY <1>6 DEF OpenRestart, Present
  <2> SUFFICES ASSUME deck.unified, Mine, NEW i \in WholeIn(restart'[Unified])
               PROVE  restart'[Unified][i].step <= Present'
    BY <2>1 DEF Newest
  <2>2. i \in WholeIn(restart[Unified]) /\ restart'[Unified][i] = restart[Unified][i]
    BY <1>6, WholeAfterOpen
  <2>3. restart[Unified][i].step <= done
    BY <2>1, <2>2 DEF Newest
  <2>4. restart[Unified][i].step \in Int
    BY <2>2, WholeSteps
  <2> QED BY <1>0, <2>1, <2>2, <2>3, <2>4
<1>7. ASSUME NEW part \in Parts, WriteRestart(part) PROVE Newest'
  <2> DEFINE s == done + 1
  <2>1. stage = "writing" /\ UNCHANGED <<deck, done, run>> /\ Present = done
    BY <1>7 DEF WriteRestart, Present
  <2> SUFFICES ASSUME deck.unified, Mine', NEW i \in WholeIn(restart'[Unified])
               PROVE  restart'[Unified][i].step <= Present'
    BY <2>1 DEF Newest
  <2>2. CASE part = "whole"
    <3>1. Present' = s
      BY <1>7, <2>1, <2>2 DEF WriteRestart, Present
    <3>2. CASE restart'[Unified][i] = Item(s, run, part)
      BY <1>0, <3>1, <3>2 DEF Item
    <3>3. CASE /\ i \in WholeIn(restart[Unified]) /\ restart'[Unified][i] = restart[Unified][i]
               /\ restart[Unified][i].step < s
      BY <1>0, <3>1, <3>3, WholeSteps
    <3> QED BY <1>7, <3>2, <3>3, WholeAfterWrite
  <2>3. CASE part # "whole"
    <3>1. Present' = Present /\ written' = written
      BY <1>7, <2>1, <2>3 DEF WriteRestart, Present
    <3>2. i \in WholeIn(restart[Unified]) /\ restart'[Unified][i] = restart[Unified][i]
      BY <1>7, <2>3, WholeAfterWrite
    <3> QED BY <2>1, <3>1, <3>2 DEF Newest
  <2> QED BY <2>2, <2>3
<1>8. ASSUME NEW whole \in BOOLEAN, WriteRft(whole) PROVE Newest'
  <2>1. Present' = Present
    BY <1>8 DEF WriteRft, Present
  <2> QED BY <1>3, <1>8, <2>1 DEF WriteRft
<1> QED BY <1>1, <1>2, <1>4, <1>5, <1>6, <1>7, <1>8 DEF Next

LEMMA SummaryBegin ==
  ASSUME TypeOK, Reached, RunsKnown, Begin, NEW d \in Int, -1 <= d, done' = d,
         \A u \in DOMAIN written' : u \in DOMAIN written /\ written'[u] = written[u]
  PROVE  SummaryKept' /\ SummaryFirst'
<1>1. run' = run + 1 /\ stage' = "between" /\ summary' = NewSummary
  BY DEF Begin
<1>2. \A u \in DOMAIN written' : written'[u] # run'
  <2>1. run \in Int /\ \A u \in DOMAIN written : written[u] \in Int /\ written[u] <= run
    BY Facts DEF RunsKnown
  <2> QED BY <1>1, <2>1
<1>3. SummaryKept'
  <2>1. summary'.prevReportStepID = -1 /\ summary'.prevCreate = -1 /\ summary'.miniStepID = 0
    BY <1>1 DEF NewSummary
  <2>2. -1 <= d + 1
    OBVIOUS
  <2> QED BY <1>1, <1>2, <2>1, <2>2 DEF SummaryKept
<1>4. SummaryFirst'
  BY <1>1, <1>2 DEF SummaryFirst, NewSummary
<1> QED BY <1>3, <1>4

LEMMA SummaryOther ==
  ASSUME SummaryKept, SummaryFirst,
         UNCHANGED <<smry, summary, deck, done, run, written>>,
         stage' # "between" => stage # "between" \/ done + 1 = 0
  PROVE  SummaryKept' /\ SummaryFirst'
<1>1. \A s : Name(s)' = Name(s)
  BY NameAgain
<1>2. Name(done + 1)' = Name(done + 1)
  BY DEF Name
<1>3. SummaryKept'
  BY <1>2 DEF SummaryKept
<1>4. SummaryFirst'
  BY <1>1 DEF SummaryFirst
<1> QED BY <1>3, <1>4

\* The stream that a ministep goes to, and what that makes of it.
LEMMA Streamed ==
  ASSUME TypeOK, Reached, NEW isSubstep \in BOOLEAN, WriteSummary(isSubstep), done + 1 # 0
  PROVE  LET s == done + 1
             old == IF CreatesStream(s) THEN <<>> ELSE smry[Name(s)]
             new == smry'[Name(s)]
         IN /\ s \in Steps /\ stage = "between"
            /\ \A f \in Names : f # Name(s) => smry'[f] = smry[f]
            /\ DOMAIN old = 1 .. Len(old) /\ Len(old) \in Nat
            /\ Len(new) = Len(old) + 1 /\ DOMAIN new = 1 .. Len(old) + 1 /\ new # <<>>
            /\ \A i \in DOMAIN old : new[i] = old[i]
            /\ new[Len(old) + 1] = Ministep(s)
            /\ summary'.miniStepID = summary.miniStepID + 1
            /\ summary'.prevReportStepID = s
            /\ summary'.prevCreate = IF CreatesStream(s) THEN s ELSE summary.prevCreate
<1> DEFINE s == done + 1
           old == IF CreatesStream(s) THEN <<>> ELSE smry[Name(s)]
           Line == [id : Nat, seq : Steps, header : BOOLEAN, run : 1 .. MaxRuns]
           e == Ministep(s)
<1>1. /\ s \in Steps /\ stage = "between" /\ up
      /\ smry' = [smry EXCEPT ![Name(s)] = Append(old, e)]
      /\ summary' = [miniStepID |-> summary.miniStepID + 1, prevReportStepID |-> s,
                     prevCreate |-> IF CreatesStream(s) THEN s ELSE summary.prevCreate]
  BY DEF WriteSummary
<1>2. Name(s) \in Names
  BY <1>1 DEF Name, Names
<1>3. e \in Line
  <2>1. run \in 1 .. MaxRuns /\ summary.miniStepID \in Nat
    BY <1>1, Facts DEF TypeOK
  <2> HIDE DEF s
  <2> QED BY <1>1, <2>1 DEF Ministep
<1>4. smry \in [Names -> Seq(Line)]
  BY DEF TypeOK
<1> HIDE DEF s, e, Line
<1>5. old \in Seq(Line)
  BY <1>2, <1>4, EmptySeq
<1>6. smry'[Name(s)] = Append(old, e) /\ \A f \in Names : f # Name(s) => smry'[f] = smry[f]
  BY <1>1, <1>2, <1>4
<1> HIDE DEF old
<1>7. /\ DOMAIN old = 1 .. Len(old) /\ Len(old) \in Nat /\ Append(old, e) # <<>>
      /\ Len(Append(old, e)) = Len(old) + 1 /\ DOMAIN Append(old, e) = 1 .. Len(old) + 1
      /\ \A i \in 1 .. Len(old) : Append(old, e)[i] = old[i]
      /\ Append(old, e)[Len(old) + 1] = e
  BY <1>3, <1>5, AppendFacts
<1> QED BY <1>1, <1>6, <1>7 DEF s, e, old

LEMMA SummaryWritten ==
  ASSUME TypeOK, Reached, History, SummaryKept, SummaryFirst,
         NEW isSubstep \in BOOLEAN, WriteSummary(isSubstep), done + 1 # 0
  PROVE  SummaryKept' /\ SummaryFirst'
<1> DEFINE s == done + 1
           creates == CreatesStream(s)
           old == IF creates THEN <<>> ELSE smry[Name(s)]
           new == smry'[Name(s)]
           n == Len(old)
<1>1. /\ s \in Steps /\ stage = "between"
      /\ \A f \in Names : f # Name(s) => smry'[f] = smry[f]
      /\ DOMAIN old = 1 .. n /\ n \in Nat
      /\ Len(new) = n + 1 /\ DOMAIN new = 1 .. n + 1 /\ new # <<>>
      /\ \A i \in DOMAIN old : new[i] = old[i]
      /\ new[n + 1] = Ministep(s)
      /\ summary'.miniStepID = summary.miniStepID + 1
      /\ summary'.prevReportStepID = s
      /\ summary'.prevCreate = IF creates THEN s ELSE summary.prevCreate
  BY Streamed
<1>2. /\ UNCHANGED <<deck, done, run, written>>
      /\ \A t : Name(t)' = Name(t)
      /\ Name(done + 1)' = Name(s)
  BY NameAgain DEF WriteSummary, Name
<1>3. s \in Int /\ s # -1 /\ s # 0 /\ done \in Int
  BY <1>1, StepFacts, Facts
<1>4. summary.prevCreate = -1 => creates
  BY DEF CreatesStream
<1>5. summary'.prevCreate # -1
  BY <1>1, <1>3, <1>4
<1>6. new[n + 1].seq = s /\ n + 1 \in DOMAIN new
  BY <1>1 DEF Ministep
<1>7. deck.unified => Name(s) = Unified /\ (creates <=> summary.prevCreate = -1)
  BY DEF Name, CreatesStream
<1> HIDE DEF creates, n
<1>8. SummaryKept'
  <2>1. deck.unified => smry'[Unified] # <<>> /\ Last(smry'[Unified]).seq = summary'.prevReportStepID
    BY <1>1, <1>6, <1>7 DEF Last
  <2>2. \E i \in DOMAIN new : new[i].seq = s
    BY <1>6
  <2> HIDE DEF new
  <2> QED BY <1>1, <1>2, <1>3, <1>5, <2>1, <2>2 DEF SummaryKept, new
<1>9. ASSUME NEW t \in DOMAIN written \ {0}, written[t] = run
      PROVE  \E i \in DOMAIN smry'[Name(t)] : smry'[Name(t)][i].seq = t
  <2>1. PICK i \in DOMAIN smry[Name(t)] : smry[Name(t)][i].seq = t
    BY <1>9 DEF SummaryFirst
  <2>2. summary.prevCreate # -1
    BY <1>9 DEF SummaryKept
  <2>3. t \in Steps /\ t < s
    <3>1. t \in Steps /\ t <= done
      BY <1>1, Facts DEF History, Present
    <3>2. t \in Int
      BY <3>1, StepFacts
    <3> QED BY <1>3, <3>1, <3>2
  <2>4. CASE deck.unified
    <3>1. old = smry[Name(t)] /\ Name(t) = Name(s)
      BY <1>7, <2>2, <2>4 DEF Name
    <3>2. i \in DOMAIN new /\ new[i] = smry[Name(t)][i]
      BY <1>1, <2>1, <3>1
    <3> QED BY <2>1, <3>1, <3>2
  <2>5. CASE ~ deck.unified
    <3>1. Name(t) = t /\ Name(s) = s /\ t # s
      BY <1>3, <2>3, <2>5, StepFacts DEF Name
    <3>2. Name(t) \in Names
      BY <2>3, <3>1 DEF Names
    <3> HIDE DEF s
    <3>3. smry'[Name(t)] = smry[Name(t)]
      BY <1>1, <3>1, <3>2
    <3> QED BY <2>1, <3>3
  <2> QED BY <2>4, <2>5
<1>10. ASSUME deck.unified
       PROVE  /\ Len(new) = summary'.miniStepID
              /\ \A i \in DOMAIN new : /\ new[i].id = i - 1 /\ new[i].run = run
                                       /\ new[i].header = (i = 1 \/ new[i].seq # new[i - 1].seq)
  <2>1. /\ n = summary.miniStepID
        /\ \A i \in DOMAIN old : /\ old[i].id = i - 1 /\ old[i].run = run
                                 /\ old[i].header = (i = 1 \/ old[i].seq # old[i - 1].seq)
    <3>1. CASE creates
      BY <1>1, <1>7, <1>10, <3>1 DEF SummaryKept, n
    <3>2. CASE ~ creates
      BY <1>7, <1>10, <3>2 DEF SummaryFirst, n
    <3> QED BY <3>1, <3>2
  <2>2. /\ new[n + 1].id = n /\ new[n + 1].run = run
        /\ new[n + 1].header = (summary.prevReportStepID < s)
    BY <1>1, <2>1 DEF Ministep
  <2>3. (summary.prevReportStepID < s) = (n + 1 = 1 \/ s # new[n].seq)
    <3>0. summary.prevReportStepID \in Int /\ summary.prevReportStepID <= s
      BY DEF TypeOK, SummaryKept
    <3>1. CASE creates
      <4>1. n = 0 /\ summary.prevReportStepID = -1
        BY <1>1, <1>7, <1>10, <3>1 DEF SummaryKept, n
      <4>2. -1 < s
        BY <1>1, <1>3, StepFacts
      <4> QED BY <4>1, <4>2
    <3>2. CASE ~ creates
      <4>1. old = smry[Unified] /\ old # <<>> /\ old[n].seq = summary.prevReportStepID
        BY <1>7, <1>10, <3>2 DEF SummaryKept, Last, n
      <4>2. n # 0
        <5>1. smry[Unified] \in Seq([id : Nat, seq : Steps, header : BOOLEAN, run : 1 .. MaxRuns])
          BY DEF TypeOK, Names
        <5> QED BY <4>1, <5>1 DEF n
      <4>3. new[n].seq = summary.prevReportStepID
        BY <1>1, <4>1, <4>2
      <4> HIDE DEF old, new, s
      <4> QED BY <1>1, <1>3, <3>0, <4>2, <4>3
    <3> QED BY <3>1, <3>2
  <2>4. \A i \in DOMAIN old : /\ i \in 1 .. n /\ new[i] = old[i]
                              /\ i # 1 => new[i - 1] = old[i - 1]
    BY <1>1
  <2> HIDE DEF old, new, s
  <2>5. new[n + 1].header = (n + 1 = 1 \/ new[n + 1].seq # new[n].seq)
    BY <1>6, <2>2, <2>3
  <2>6. \A i \in DOMAIN new : i \in DOMAIN old \/ i = n + 1
    BY <1>1
  <2>7. Len(new) = summary'.miniStepID
    BY <1>1, <2>1
  <2>8. \A i \in DOMAIN old : /\ new[i].id = i - 1 /\ new[i].run = run
                              /\ new[i].header = (i = 1 \/ new[i].seq # new[i - 1].seq)
    BY <2>1, <2>4
  <2>9. ASSUME NEW i \in DOMAIN new, i = n + 1
        PROVE  /\ new[i].id = i - 1 /\ new[i].run = run
               /\ new[i].header = (i = 1 \/ new[i].seq # new[i - 1].seq)
    <3>1. i - 1 = n
      BY <1>1, <2>9
    <3> QED BY <2>2, <2>5, <2>9, <3>1
  <2> QED BY <2>6, <2>7, <2>8, <2>9
<1>11. SummaryFirst'
  <2>1. deck.unified => new = smry'[Unified]
    BY <1>7
  <2> HIDE DEF new
  <2> QED BY <1>2, <1>9, <1>10, <2>1 DEF SummaryFirst
<1> QED BY <1>8, <1>11

LEMMA SummaryStep ==
  ASSUME TypeOK, Reached, RunsKnown, History, SummaryKept, SummaryFirst, [Next]_vars
  PROVE  SummaryKept' /\ SummaryFirst'
<1>1. CASE StartOver
  <2>1. Begin /\ done' = -1 /\ DOMAIN written' = {} /\ -1 \in Int
    BY <1>1 DEF StartOver
  <2> QED BY <2>1, SummaryBegin
<1>2. ASSUME NEW s \in Steps, Restart(s) PROVE SummaryKept' /\ SummaryFirst'
  <2>1. s \in Int /\ -1 <= s
    BY StepFacts
  <2> QED BY <1>2, <2>1, SummaryBegin DEF Restart
<1>3. CASE Stop \/ UNCHANGED vars
  BY <1>3, SummaryOther DEF Stop, vars
<1>4. ASSUME NEW isSubstep \in BOOLEAN, WriteSummary(isSubstep) PROVE SummaryKept' /\ SummaryFirst'
  <2>1. CASE done + 1 = 0
    BY <1>4, <2>1, SummaryOther DEF WriteSummary
  <2>2. CASE done + 1 # 0
    BY <1>4, <2>2, SummaryWritten
  <2> QED BY <2>1, <2>2
<1>5. CASE OpenRestart
  BY <1>5, SummaryOther DEF OpenRestart
<1>6. ASSUME NEW part \in Parts, WriteRestart(part) PROVE SummaryKept' /\ SummaryFirst'
  <2> DEFINE s == done + 1
  <2>1. stage = "writing" /\ UNCHANGED <<smry, summary, deck, done, run>> /\ stage' \in {"writing", "rft"}
    BY <1>6 DEF WriteRestart
  <2>2. CASE written' = written
    BY <2>1, <2>2, SummaryOther
  <2>3. CASE written' = [t \in DOMAIN written \cup {s} |-> IF t = s THEN run ELSE written[t]]
    <3>1. \A t : Name(t)' = Name(t)
      BY <2>1, NameAgain
    <3>2. Name(done + 1)' = Name(done + 1)
      BY <2>1 DEF Name
    <3>3. SummaryKept'
      BY <2>1, <2>3, <3>2 DEF SummaryKept
    <3>4. \A t \in DOMAIN written' \ {0} :
            written'[t] = run => t = s \/ (t \in DOMAIN written \ {0} /\ written[t] = run)
      BY <2>3
    <3>5. s # 0 => \E i \in DOMAIN smry[Name(s)] : smry[Name(s)][i].seq = s
      BY <2>1 DEF SummaryKept
    <3> HIDE DEF s
    <3>6. SummaryFirst'
      BY <2>1, <3>1, <3>4, <3>5 DEF SummaryFirst
    <3> QED BY <3>3, <3>6
  <2> QED BY <1>6, <2>2, <2>3 DEF WriteRestart
<1>7. ASSUME NEW whole \in BOOLEAN, WriteRft(whole) PROVE SummaryKept' /\ SummaryFirst'
  <2>1. stage = "rft" /\ UNCHANGED <<smry, summary, deck, run, written>>
    BY <1>7 DEF WriteRft
  <2>2. CASE done' = done
    BY <2>1, <2>2, SummaryOther
  <2>3. CASE done' = done + 1 /\ stage' = "between"
    <3>1. \A t : Name(t)' = Name(t)
      BY <2>1, NameAgain
    <3>2. summary.prevReportStepID \in Int /\ done \in Int
      BY DEF TypeOK
    <3>3. SummaryKept'
      BY <2>1, <2>3, <3>2 DEF SummaryKept
    <3>4. SummaryFirst'
      BY <2>1, <3>1 DEF SummaryFirst
    <3> QED BY <3>3, <3>4
  <2> QED BY <1>7, <2>2, <2>3 DEF WriteRft
<1> QED BY <1>1, <1>2, <1>3, <1>4, <1>5, <1>6, <1>7 DEF Next

-----------------------------------------------------------------------------
(* The RFT file.                                                           *)

Complete == {i \in DOMAIN rftFile : rftFile[i].run = run /\ rftFile[i].whole}

Asked == {s \in RftSteps : origin < s /\ s <= done}

LEMMA RftIs ==
  RftKept <=>
    /\ run > 0 => /\ {rftFile[i].step : i \in Complete} = Asked
                  /\ \A i, j \in Complete : i < j => rftFile[i].step < rftFile[j].step
    /\ \A m \in Asked :
         (\A t \in RftSteps : m <= t) => \A i \in DOMAIN rftFile : rftFile[i].run = run
BY DEF RftKept, Complete, Asked

LEMMA RftSame ==
  ASSUME RftKept, UNCHANGED <<rftFile, run, deck, origin, done>>
  PROVE  RftKept'
BY DEF RftKept, RftSteps

LEMMA RftBegin ==
  ASSUME TypeOK, Reached, RunsKnown, Begin, NEW d \in Int, origin' = d, done' = d,
         deck'.rft \subseteq Steps
  PROVE  RftKept'
<1>1. run' = run + 1 /\ rftFile' = rftFile /\ run \in Int
  BY Facts DEF Begin
<1>2. \A i \in DOMAIN rftFile : rftFile[i].run # run'
  <2> SUFFICES ASSUME NEW i \in DOMAIN rftFile PROVE rftFile[i].run # run'
    OBVIOUS
  <2>1. rftFile[i] \in [step : Steps, run : 1 .. MaxRuns, whole : BOOLEAN]
    BY SeqElement DEF TypeOK
  <2>2. rftFile[i].run \in Int /\ rftFile[i].run <= run
    BY <2>1 DEF RunsKnown
  <2> QED BY <1>1, <2>2
<1>3. Complete' = {}
  BY <1>1, <1>2 DEF Complete
<1>4. Asked' = {}
  <2> SUFFICES ASSUME NEW s \in Asked' PROVE FALSE
    OBVIOUS
  <2>1. s \in Steps /\ d < s /\ s <= d
    BY DEF Asked, RftSteps
  <2>2. s \in Int
    BY <2>1, StepFacts
  <2> QED BY <2>1, <2>2
<1> QED BY <1>3, <1>4 DEF RftKept, Complete, Asked

\* What a call makes of the file: nothing before the first step with output,
\* and from there on its own entry at the end of what was there, or of nothing
\* if this is the first.
LEMMA RftWritten ==
  ASSUME TypeOK, Reached, NEW whole \in BOOLEAN, WriteRft(whole)
  PROVE  LET s == done + 1
             begins == s \in RftSteps /\ \A t \in RftSteps : s <= t
             old == IF begins THEN <<>> ELSE rftFile
             new == rftFile'
         IN /\ s \in Steps /\ s \in Int /\ run >= 1
            /\ s \in deck.rft => s \in RftSteps
            /\ DOMAIN old = 1 .. Len(old) /\ Len(old) \in Nat
            /\ \/ s \notin deck.rft /\ new = old
               \/ /\ s \in deck.rft
                  /\ DOMAIN new = 1 .. Len(old) + 1
                  /\ \A i \in DOMAIN old : new[i] = old[i]
                  /\ new[Len(old) + 1] = [step |-> s, run |-> run, whole |-> whole]
<1> DEFINE s == done + 1
           begins == s \in RftSteps /\ \A t \in RftSteps : s <= t
           old == IF begins THEN <<>> ELSE rftFile
           Line == [step : Steps, run : 1 .. MaxRuns, whole : BOOLEAN]
           e == [step |-> s, run |-> run, whole |-> whole]
<1>1. /\ s \in Steps /\ s \in Int /\ run \in 1 .. MaxRuns /\ run >= 1 /\ origin \in Int /\ origin < s
      /\ RftSteps \subseteq Steps
  <2>1. /\ stage = "rft" /\ up
    BY DEF WriteRft
  <2>2. /\ s \in Steps /\ run \in 1 .. MaxRuns /\ origin \in Int /\ done \in Int /\ origin <= done
        /\ deck.rft \subseteq Steps
    BY <2>1, Facts
  <2> QED BY <2>2 DEF RftSteps
<1>2. s \in deck.rft => s \in RftSteps
  BY <1>1 DEF RftSteps
<1>3. RftSteps # {} => Min(RftSteps) \in RftSteps /\ \A t \in RftSteps : Min(RftSteps) <= t
  <2>1. RftSteps \subseteq Nat
    BY <1>1, StepFacts
  <2> QED BY <2>1, Least
<1>4. begins <=> RftSteps # {} /\ s = Min(RftSteps)
  <2> DEFINE m == Min(RftSteps)
  <2>1. \A t \in RftSteps : t \in Int
    BY <1>1, StepsAreInts
  <2>2. RftSteps # {} => m \in RftSteps /\ \A t \in RftSteps : m <= t
    BY <1>3
  <2> HIDE DEF s, m
  <2>3. ASSUME s \in RftSteps, \A t \in RftSteps : s <= t PROVE s = m
    <3>1. m \in Int /\ m <= s /\ s <= m
      BY <2>1, <2>2, <2>3
    <3> QED BY <1>1, <3>1
  <2> QED BY <2>2, <2>3 DEF m
<1>5. rftFile \in Seq(Line) /\ old \in Seq(Line) /\ e \in Line
  <2>1. rftFile \in Seq(Line)
    BY DEF TypeOK
  <2>2. old \in Seq(Line)
    BY <2>1
  <2> QED BY <1>1, <2>1, <2>2
<1>6. s \notin deck.rft => rftFile' = old
  <2> SUFFICES ASSUME s \notin deck.rft PROVE rftFile' = old
    OBVIOUS
  <2>1. CASE RftSteps = {} \/ s < Min(RftSteps)
    <3>1. ~ begins
      BY <1>1, <1>3, <1>4, <2>1
    <3> QED BY <2>1, <3>1 DEF WriteRft, RftAfter
  <2>2. CASE ~ (RftSteps = {} \/ s < Min(RftSteps))
    <3>1. ~ begins
      BY DEF RftSteps
    <3>2. s # Min(RftSteps)
      BY <1>4, <2>2, <3>1
    <3> HIDE DEF begins
    <3> QED BY <2>2, <3>1, <3>2 DEF WriteRft, RftAfter
  <2> QED BY <2>1, <2>2
<1>7. s \in deck.rft => rftFile' = Append(old, e)
  <2> SUFFICES ASSUME s \in deck.rft PROVE rftFile' = Append(old, e)
    OBVIOUS
  <2>1. RftSteps # {} /\ ~ (s < Min(RftSteps))
    <3>1. Min(RftSteps) <= s /\ Min(RftSteps) \in RftSteps
      BY <1>2, <1>3
    <3>2. Min(RftSteps) \in Int
      BY <1>1, <3>1, StepsAreInts
    <3> QED BY <1>1, <1>2, <3>1, <3>2
  <2>2. old = IF s = Min(RftSteps) THEN <<>> ELSE rftFile
    BY <1>4, <2>1
  <2>3. rftFile' = RftAfter(s, whole)
    BY DEF WriteRft
  <2> HIDE DEF old
  <2> QED BY <2>1, <2>2, <2>3 DEF RftAfter
<1> HIDE DEF old, e, Line, s
<1>8. /\ DOMAIN old = 1 .. Len(old) /\ Len(old) \in Nat
      /\ DOMAIN Append(old, e) = 1 .. Len(old) + 1
      /\ \A i \in 1 .. Len(old) : Append(old, e)[i] = old[i]
      /\ Append(old, e)[Len(old) + 1] = e
  BY <1>5, AppendFacts
<1> QED BY <1>1, <1>2, <1>6, <1>7, <1>8 DEF s, e, old

LEMMA RftStep ==
  ASSUME TypeOK, TypeOK', Reached, RunsKnown, RftKept, [Next]_vars
  PROVE  RftKept'
<1>1. CASE StartOver
  <2>1. Begin /\ origin' = -1 /\ done' = -1 /\ deck'.rft \subseteq Steps /\ -1 \in Int
    BY <1>1, OutputAssumption DEF StartOver, TypeOK
  <2> QED BY <2>1, RftBegin
<1>2. ASSUME NEW s \in Steps, Restart(s) PROVE RftKept'
  <2>1. Begin /\ origin' = s /\ done' = s /\ deck' = deck /\ s \in Int
    BY <1>2, StepFacts DEF Restart
  <2>2. deck'.rft \subseteq Steps
    BY <2>1, Facts
  <2> QED BY <2>1, <2>2, RftBegin
<1>3. CASE Stop \/ UNCHANGED vars \/ OpenRestart
  BY <1>3, RftSame DEF Stop, vars, OpenRestart
<1>4. ASSUME NEW isSubstep \in BOOLEAN, WriteSummary(isSubstep) PROVE RftKept'
  BY <1>4, RftSame DEF WriteSummary
<1>5. ASSUME NEW part \in Parts, WriteRestart(part) PROVE RftKept'
  BY <1>5, RftSame DEF WriteRestart
<1>6. ASSUME NEW whole \in BOOLEAN, WriteRft(whole) PROVE RftKept'
  <2> DEFINE s == done + 1
             begins == s \in RftSteps /\ \A t \in RftSteps : s <= t
             old == IF begins THEN <<>> ELSE rftFile
             new == rftFile'
             n == Len(old)
             kept == {i \in DOMAIN old : old[i].run = run /\ old[i].whole}
  <2>1. /\ s \in Steps /\ s \in Int /\ run >= 1
        /\ s \in deck.rft => s \in RftSteps
        /\ DOMAIN old = 1 .. n /\ n \in Nat
        /\ \/ s \notin deck.rft /\ new = old
           \/ /\ s \in deck.rft
              /\ DOMAIN new = 1 .. n + 1
              /\ \A i \in DOMAIN old : new[i] = old[i]
              /\ new[n + 1] = [step |-> s, run |-> run, whole |-> whole]
    BY <1>6, RftWritten
  <2>2. /\ UNCHANGED <<run, deck, origin>> /\ RftSteps' = RftSteps
        /\ \/ whole /\ done' = s
           \/ ~ whole /\ done' = done /\ s \in deck.rft
    BY <1>6 DEF WriteRft, RftSteps
  <2>3. done \in Int /\ origin \in Int /\ origin < s /\ \A t \in RftSteps : t \in Int
    <3>1. \A t \in RftSteps : t \in Steps
      BY Facts DEF RftSteps
    <3>2. done \in Int /\ origin \in Int /\ origin <= done
      BY Facts
    <3> QED BY <3>1, <3>2, StepsAreInts
  <2>4. /\ {rftFile[i].step : i \in Complete} = Asked
        /\ \A i, j \in Complete : i < j => rftFile[i].step < rftFile[j].step
        /\ \A m \in Asked :
             (\A t \in RftSteps : m <= t) => \A i \in DOMAIN rftFile : rftFile[i].run = run
    <3>1. run > 0
      BY <2>1, Facts
    <3> QED BY <3>1, RftIs
  <2>5. \A t \in Asked : t \in Int /\ t < s /\ t \in RftSteps
    BY <2>3 DEF Asked
  <2>6. begins => Asked = {}
    <3> SUFFICES ASSUME begins, NEW t \in Asked PROVE FALSE
      OBVIOUS
    <3>1. s <= t /\ t < s /\ t \in Int
      BY <2>5
    <3> QED BY <2>1, <3>1
  <2>7. /\ {old[i].step : i \in kept} = Asked
        /\ \A i, j \in kept : i < j => old[i].step < old[j].step
    <3>1. CASE begins
      <4>1. kept = {}
        BY <3>1
      <4> HIDE DEF kept
      <4> QED BY <2>6, <3>1, <4>1
    <3>2. CASE ~ begins
      <4>1. old = rftFile /\ kept = Complete
        BY <3>2 DEF Complete
      <4> HIDE DEF old, kept
      <4> QED BY <2>4, <4>1
    <3> QED BY <3>1, <3>2
  <2>8. \A t : t \in Asked' <=> t \in Asked \/ (whole /\ t = s /\ s \in deck.rft)
    <3>1. \A t \in RftSteps : t <= s <=> t <= done \/ t = s
      BY <2>3
    <3>2. s \in RftSteps => s \in deck.rft
      BY DEF RftSteps
    <3> HIDE DEF s
    <3> QED BY <2>1, <2>2, <2>3, <3>1, <3>2 DEF Asked
  <2>9. (begins \/ \E m \in Asked : \A t \in RftSteps : m <= t) => \A i \in DOMAIN old : old[i].run = run
    BY <2>4
  <2> HIDE DEF old, n
  <2>10. \A i : i \in Complete' <=> i \in kept \/ (whole /\ s \in deck.rft /\ i = n + 1)
    BY <2>1, <2>2 DEF Complete
  <2>11. \A i \in kept : i \in 1 .. n /\ new[i] = old[i] /\ old[i].step < s /\ old[i].step \in Int
    <3>1. \A i \in kept : old[i].step \in Asked
      BY <2>7
    <3> QED BY <2>1, <2>5, <3>1
  <2>12. s \in deck.rft => new[n + 1].step = s /\ new[n + 1].run = run
    BY <2>1
  <2>13. {new[i].step : i \in Complete'} = Asked'
    <3>1. \A i \in Complete' : new[i].step \in Asked'
      BY <2>7, <2>8, <2>10, <2>11, <2>12
    <3>2. ASSUME NEW t \in Asked' PROVE \E i \in Complete' : new[i].step = t
      <4>1. CASE t \in Asked
        <5>1. PICK i \in kept : old[i].step = t
          BY <2>7, <4>1
        <5> QED BY <2>10, <2>11, <5>1
      <4>2. CASE whole /\ t = s /\ s \in deck.rft
        BY <2>10, <2>12, <4>2
      <4> QED BY <2>8, <4>1, <4>2
    <3> QED BY <3>1, <3>2
  <2>14. ASSUME NEW i \in Complete', NEW j \in Complete', i < j PROVE new[i].step < new[j].step
    <3>1. CASE j \in kept
      <4>1. i \in kept
        BY <2>1, <2>10, <2>11, <2>14, <3>1
      <4> QED BY <2>7, <2>11, <2>14, <3>1, <4>1
    <3>2. CASE s \in deck.rft /\ j = n + 1
      <4>1. i \in kept
        BY <2>1, <2>10, <2>14, <3>2
      <4> QED BY <2>11, <2>12, <3>2, <4>1
    <3> QED BY <2>10, <3>1, <3>2
  <2>15. ASSUME NEW m \in Asked', \A t \in RftSteps : m <= t
         PROVE  \A i \in DOMAIN new : new[i].run = run
    <3>1. m \in Asked \/ (m = s /\ s \in RftSteps)
      BY <2>1, <2>8
    <3>2. begins \/ \E x \in Asked : \A t \in RftSteps : x <= t
      BY <2>15, <3>1
    <3>3. \A i \in DOMAIN old : old[i].run = run
      BY <2>9, <3>2
    <3> HIDE DEF begins, kept
    <3> QED BY <2>1, <2>12, <3>3
  <2> HIDE DEF s, begins, kept
  <2> QED BY <2>2, <2>13, <2>14, <2>15 DEF RftKept, Complete, Asked
<1> QED BY <1>1, <1>2, <1>3, <1>4, <1>5, <1>6 DEF Next

-----------------------------------------------------------------------------
(* The theorems.                                                           *)

LEMMA InitInv == Init => Inv /\ SummaryFirst
<1> SUFFICES ASSUME Init PROVE Inv /\ SummaryFirst
  OBVIOUS
<1>0. -1 \in -1 .. NSteps - 1 /\ 0 \in 0 .. MaxRuns /\ 0 \in 0 .. MaxSubsteps
  BY StepFacts
<1>1. Range(written) = {} /\ DOMAIN written = {}
  BY DEF Init, Range
<1>2. TypeOK
  <2>1. summary \in [miniStepID : Nat, prevReportStepID : -1 .. NSteps - 1,
                     prevCreate : -1 .. NSteps - 1]
    BY <1>0 DEF Init, NewSummary
  <2>2. smry \in [Names -> Seq([id : Nat, seq : Steps, header : BOOLEAN, run : 1 .. MaxRuns])]
    BY EmptySeq DEF Init
  <2>3. rftFile \in Seq([step : Steps, run : 1 .. MaxRuns, whole : BOOLEAN])
    BY EmptySeq DEF Init
  <2> QED BY <1>0, <1>1, <2>1, <2>2, <2>3 DEF Init, TypeOK, Stages
<1>3. Reached /\ RunsKnown
  BY <1>1 DEF Init, Reached, RunsKnown
<1>4. Ordered
  <2>1. \A i \in Found(NoFile) : i = 1
    BY DEF Found, NoFile
  <2>2. Ascending(NoFile)
    BY <2>1 DEF Ascending
  <2> QED BY <2>2 DEF Init, Ordered, Names
<1>5. History /\ OfThePlan /\ Newest
  BY <1>1 DEF History, StepsKept, OfThePlan, Newest
<1>6. SummaryKept /\ SummaryFirst
  BY <1>1 DEF Init, SummaryKept, SummaryFirst, NewSummary
<1>7. RftKept
  <2>1. Asked = {} /\ run = 0 /\ done = -1 /\ origin = -1
    <3>1. done = -1 /\ origin = -1 /\ run = 0
      BY DEF Init
    <3>2. deck.rft \subseteq Steps
      BY OutputAssumption DEF Init
    <3>3. \A t \in deck.rft : t \in Int /\ ~ (-1 < t /\ t <= -1)
      BY <3>2, StepsAreInts
    <3> QED BY <3>1, <3>3 DEF Asked, RftSteps
  <2> QED BY <2>1, RftIs
<1> QED BY <1>2, <1>3, <1>4, <1>5, <1>6, <1>7 DEF Inv

LEMMA NextInv == Inv /\ SummaryFirst /\ [Next]_vars => (Inv /\ SummaryFirst)'
<1> SUFFICES ASSUME Inv, SummaryFirst, [Next]_vars PROVE (Inv /\ SummaryFirst)'
  OBVIOUS
<1>1. TypeOK /\ Reached /\ RunsKnown /\ Ordered /\ History /\ OfThePlan /\ Newest /\ SummaryKept /\ RftKept
  BY DEF Inv
<1>2. TypeOK'
  BY <1>1, TypeStep
<1>3. Reached' /\ RunsKnown' /\ Ordered' /\ History' /\ OfThePlan' /\ Newest'
  BY <1>1, ReachedStep, RunsKnownStep, OrderedStep, HistoryStep, OfThePlanStep, NewestStep
<1>4. SummaryKept' /\ SummaryFirst' /\ RftKept'
  BY <1>1, <1>2, SummaryStep, RftStep
<1> QED BY <1>2, <1>3, <1>4 DEF Inv

\* The invariant holds of any number of runs, crashes and restarts.
THEOREM InvHolds == Spec => [](Inv /\ SummaryFirst)
<1> QED BY InitInv, NextInv, PTL DEF Spec

\* The state of writeTimeStep() and the files keep their types: no run writes
\* a step that is none, and no crash leaves what a reader could not classify.
THEOREM TypeCorrect == Spec => []TypeOK
<1>1. Inv /\ SummaryFirst => TypeOK
  BY DEF Inv
<1> QED BY <1>1, InvHolds, PTL

\* A step that a run builds on stays in its restart file, whole and as it was
\* written, whatever OutputStream::Restart opens, rewinds and appends later.
THEOREM Kept == Spec => []StepsKept
<1>1. Inv /\ SummaryFirst => StepsKept
  BY DEF Inv, History
<1> QED BY <1>1, InvHolds, PTL

\* writeTimeStep() has a report step in the summary before it is in a restart
\* file, and the ministeps of a run are numbered without a gap.
THEOREM Ordering == Spec => []SummaryFirst
<1> QED BY InvHolds, PTL

\* The entries of a run in the RFT file are those of the steps it was asked
\* for, and from its first one on the file has no others (wantRFTOutput()
\* and the choice between new and existing file in writeTimeStep()).
THEOREM OwnRft == Spec => []RftOfRun
<1>1. Inv /\ SummaryFirst => RftOfRun
  <2> SUFFICES ASSUME Inv PROVE RftOfRun
    OBVIOUS
  <2>1. TypeOK /\ Reached /\ RftKept
    BY DEF Inv
  <2>2. RftSteps \subseteq Steps /\ NSteps \in Nat /\ done \in Int /\ done < NSteps
    <3>1. RftSteps \subseteq Steps
      BY <2>1, Facts DEF RftSteps
    <3>2. NSteps \in Nat /\ done \in -1 .. NSteps - 1
      BY <2>1, StepFacts DEF TypeOK
    <3> QED BY <3>1, <3>2
  <2> DEFINE m == Min(RftSteps \cup {NSteps})
  <2>3. \A x \in RftSteps : m <= x
    <3>1. RftSteps \cup {NSteps} \subseteq Nat
      BY <2>2, StepsAreInts
    <3> QED BY <3>1, Least
  <2> HIDE DEF m
  <2> QED BY <2>1, <2>3 DEF RftKept, RftOfRun, m
<1> QED BY <1>1, InvHolds, PTL

\* Once a run has written to the unified file, that file holds from the first
\* step of the history on nothing but the history: openExisting() has cut
\* away what older runs and crashes had left.
THEOREM Fresh == Spec => []NothingStale
<1>1. Inv /\ SummaryFirst => NothingStale
  <2> SUFFICES ASSUME Inv, deck.unified, run \in Range(written), NEW s \in DOMAIN Stored,
                      s >= Min(DOMAIN written)
               PROVE  s \in DOMAIN written /\ written[s] = Stored[s]
    BY DEF NothingStale
  <2> DEFINE file == restart[Unified]
  <2>1. /\ TypeOK /\ Reached /\ Ordered /\ History /\ StepsKept /\ OfThePlan /\ Newest
        /\ Ascending(file)
    BY DEF Inv, Ordered, History
  <2>2. PICK u \in DOMAIN written : written[u] = run
    BY DEF Range
  <2>3. DOMAIN written \subseteq Nat /\ DOMAIN written # {}
    BY <2>1, <2>2, StepsAreInts DEF TypeOK
  <2>4. PICK t1 \in DOMAIN written : t1 <= s /\ t1 \in Int
    BY <2>3, Least
  <2>5. file \in Files
    BY <2>1, <2>2, KeptAt DEF Name
  <2>6. PICK i \in Intact(file) : s = file[i].step /\ Stored[s] = file[i].run
    <3>1. Stored = StoredIn(file)
      BY StoredIs
    <3> HIDE DEF file
    <3>2. /\ DOMAIN StoredIn(file) = {file[i].step : i \in Intact(file)}
          /\ \A i \in Intact(file) : StoredIn(file)[file[i].step] = file[i].run
      BY <2>1, <2>5, StoredAt
    <3>3. PICK i \in Intact(file) : s = file[i].step
      BY <3>1, <3>2
    <3> QED BY <3>1, <3>2, <3>3
  <2>7. i \in WholeIn(file) /\ i \in Found(file) /\ i \in Nat /\ s \in Steps
    BY <2>5, <2>6, IntactFacts DEF WholeIn, Intact
  <2>8. s \in deck.plan /\ s <= Present
    BY <2>1, <2>2, <2>4, <2>6, <2>7 DEF OfThePlan, Newest
  <2>9. s \in DOMAIN written
    BY <2>1, <2>4, <2>8 DEF OfThePlan
  <2>10. PICK j \in Found(file) : j \in DOMAIN file /\ file[j] = Item(s, written[s], "whole")
    BY <2>1, <2>9, KeptAt DEF Name
  <2>11. file[j].step = s /\ file[j].run = written[s] /\ j \in Nat
    BY <2>5, <2>10, FilesAre DEF Item
  <2>12. i = j
    <3> HIDE DEF file
    <3>1. ~ (i < j) /\ ~ (j < i)
      BY <2>1, <2>6, <2>7, <2>10, <2>11, StepsAreInts DEF Ascending
    <3> QED BY <2>7, <2>11, <3>1
  <2> QED BY <2>6, <2>9, <2>11, <2>12
<1> QED BY <1>1, InvHolds, PTL

-----------------------------------------------------------------------------
LEMMA StoredInit == Init => A!Init
BY StoredNone, StoredIs DEF Init, A!Init, A!Empty, Names

LEMMA StoredStep ==
  ASSUME TypeOK, Reached, Ordered, [Next]_vars
  PROVE  [A!Next]_Stored
<1>1. CASE restart'[Unified] = restart[Unified]
  BY <1>1, StoredIs, StoredIsNext
<1>2. CASE OpenRestart /\ restart'[Unified] # restart[Unified]
  <2> DEFINE s == done + 1
             file == restart[Unified]
             g == restart'[Unified]
  <2>1. stage' = "writing"
    BY <1>2, NotOpened
  <2>2. restart' = [restart EXCEPT ![Name(s)] = restart'[Name(s)]] /\ s \in Steps
    BY <1>2, <2>1, OpenedFile
  <2>3. Name(s) = Unified /\ deck.unified
    <3> HIDE DEF s
    <3>1. Name(s) = Unified
      BY <1>2, <2>2, Facts DEF TypeOK
    <3> QED BY <2>2, <3>1, StepFacts DEF Name
  <2>4. /\ file = NoFile => g = <<>>
        /\ file # NoFile => StoredIn(g) = [t \in {u \in DOMAIN StoredIn(file) : u < s} |-> StoredIn(file)[t]]
    BY <1>2, <2>1, <2>3, OpenedFile
  <2> HIDE DEF s
  <2>5. CASE file = NoFile
    BY <2>4, <2>5, StoredNone, StoredIs, StoredIsNext
  <2>6. CASE file # NoFile
    <3>1. A!Drop(s)
      BY <2>4, <2>6, StoredIs, StoredIsNext DEF A!Drop
    <3> QED BY <2>2, <3>1 DEF A!Next
  <2> QED BY <2>5, <2>6
<1>3. ASSUME NEW part \in Parts, WriteRestart(part), restart'[Unified] # restart[Unified]
      PROVE  [A!Next]_Stored
  <2> DEFINE s == done + 1
             file == restart[Unified]
             g == restart'[Unified]
  <2>1. restart' = [restart EXCEPT ![Name(s)] = restart'[Name(s)]] /\ s \in Steps /\ run \in 1 .. MaxRuns
    BY <1>3, Appended
  <2>2. Name(s) = Unified
    <3> HIDE DEF s
    <3> QED BY <1>3, <2>1, Facts DEF TypeOK
  <2>3. /\ file \in Files /\ g \in Files
        /\ DOMAIN g = 1 .. Len(file) + 1 /\ DOMAIN file = 1 .. Len(file)
        /\ \A i \in DOMAIN file : g[i] = file[i]
        /\ g[Len(file) + 1] = Item(s, run, part)
        /\ \A i \in Found(file) : file[i].step < s
        /\ Ascending(file)
    BY <1>3, <2>2, Appended DEF Ordered
  <2> HIDE DEF s, file, g
  <2>4. /\ \A t \in DOMAIN StoredIn(file) : t < s
        /\ \/ StoredIn(g) = StoredIn(file)
           \/ StoredIn(g) = [t \in DOMAIN StoredIn(file) \cup {s} |->
                               IF t = s THEN run ELSE StoredIn(file)[t]]
    <3>1. Grown(g, file, s, run, part)
      BY <1>3, <2>1, <2>3 DEF Grown
    <3>2. Extended(g, file, s, run)
      BY <3>1, StoredAppend
    <3> QED BY <3>2 DEF Extended
  <2>5. Stored = StoredIn(file) /\ Stored' = StoredIn(g)
    BY StoredIs, StoredIsNext DEF file, g
  <2>6. CASE StoredIn(g) = StoredIn(file)
    BY <2>5, <2>6
  <2>7. CASE StoredIn(g) # StoredIn(file)
    <3>1. A!Store(s, run)
      BY <2>4, <2>5, <2>7 DEF A!Store
    <3> QED BY <2>1, <3>1 DEF A!Next
  <2> QED BY <2>6, <2>7
<1> QED BY <1>1, <1>2, <1>3 DEF Next, StartOver, Restart, Begin, Stop, WriteSummary, WriteRft, vars

\* The unified restart file is an archive that grows at its end: opening it at
\* a step is Drop, writing a whole step is Store unless what is before it
\* cannot be read, and all other steps leave the archive as it is.
THEOREM Implements == Spec => ImplementsArchive
<1>1. Init => A!Init
  BY StoredInit
<1>2. Inv /\ [Next]_vars => [A!Next]_Stored
  BY StoredStep DEF Inv
<1> QED BY <1>1, <1>2, InvHolds, PTL DEF Spec, ImplementsArchive, A!Spec

-----------------------------------------------------------------------------
(* When RFT data are written. *)

\* What a keyword asks of first_rft_event.
BegunFor(k) ==
  /\ k.name = "WRFT" => \A w \in k.wells : wellOpen[w] <= k.step => first <= k.step
  /\ k.name = "WRFTPLT" =>
       /\ k.rft \notin {"FOPN", "NO"} /\ wellOpen[k.well] <= k.step => first <= k.step
       /\ k.rft = "FOPN" => first <= wellOpen[k.well] \/ first <= k.step

\* The keywords applied so far are those before "next".
RftInv ==
  /\ RftTypeOK
  /\ phase = "read" => next = 1
  /\ next <= Len(keywords) + 1
  /\ Len(keywords) <= MaxKeywords
  /\ phase = "apply" => \A i \in 1 .. next - 1 : BegunFor(keywords[i])

-----------------------------------------------------------------------------
LEMMA StepsAndNever == /\ NSteps \in Nat \ {0} /\ Never \in Nat
                   /\ Steps \subseteq 0 .. Never /\ 0 \in Steps
BY NStepsAssumption DEF Steps, Never

LEMMA ConfigType ==
  ASSUME NEW V, NEW conf \in Container(V), NEW w \in Wells, NEW t \in Steps, NEW v \in V
  PROVE  UpdateConfig(conf, w, t, v) \in Container(V)
<1>1. conf[w] \in [Steps -> V \X Steps] /\ <<v, t>> \in V \X Steps
  BY DEF Container
<1>2. Update(conf[w], t, <<v, t>>) \in [Steps -> V \X Steps]
  BY <1>1 DEF Update
<1> QED BY <1>2 DEF UpdateConfig, Container

LEMMA MinType ==
  ASSUME NEW a \in 0 .. Never, NEW b \in 0 .. Never
  PROVE  MinOf(a, b) \in 0 .. Never /\ MinOf(a, b) <= a /\ MinOf(a, b) <= b
BY StepsAndNever DEF MinOf

LEMMA FirstType ==
  ASSUME RftTypeOK, NEW wells \in SUBSET Wells, NEW t \in Steps
  PROVE  /\ FirstIfNotShut(wells, t) \in 0 .. Never
         /\ FirstIfNotShut(wells, t) <= first
         /\ (\E w \in wells : wellOpen[w] <= t) => FirstIfNotShut(wells, t) <= t
<1>1. first \in 0 .. Never /\ t \in 0 .. Never
  BY StepsAndNever DEF RftTypeOK
<1>2. MinOf(first, t) \in 0 .. Never /\ MinOf(first, t) <= first /\ MinOf(first, t) <= t
  BY <1>1, MinType
<1>3. CASE \E w \in wells : wellOpen[w] <= t
  BY <1>2, <1>3 DEF FirstIfNotShut
<1>4. CASE ~ \E w \in wells : wellOpen[w] <= t
  <2>1. FirstIfNotShut(wells, t) = first
    BY <1>4 DEF FirstIfNotShut
  <2> QED BY <1>1, <1>4, <2>1, StepsAndNever
<1> QED BY <1>3, <1>4

LEMMA EventType ==
  ASSUME RftTypeOK, NEW t \in Steps
  PROVE  FirstWellopenStepNotBefore(t) \subseteq 0 .. Never
BY StepsAndNever DEF RftTypeOK, FirstWellopenStepNotBefore, Opened

-----------------------------------------------------------------------------
LEMMA RftInitInv == RftInit => RftInv
<1> SUFFICES ASSUME RftInit PROVE RftInv
  OBVIOUS
<1>1. /\ phase \in {"read", "apply", "run"} /\ step \in Steps
      /\ wellOpen \in [Wells -> 0 .. Never] /\ openName \in [Wells -> 0 .. Never]
      /\ openTime \in 0 .. Never /\ first \in 0 .. Never
  BY StepsAndNever DEF RftInit
<1>2. keywords \in Seq(Keyword) /\ next \in 1 .. MaxKeywords + 1 /\ Len(keywords) = 0
  BY RftAssumption DEF RftInit
<1>3. ASSUME NEW V, "NO" \in V
      PROVE  [w \in Wells |-> Filled(NSteps, <<"NO", 0>>)] \in Container(V)
  BY <1>3, StepsAndNever DEF Container, Filled, Steps
<1>4. rftConf \in Container(RftValues \cup {"YES", "NO"}) /\ pltConf \in Container(PltValues \cup {"NO"})
  BY <1>3 DEF RftInit
<1> QED BY <1>1, <1>2, <1>4, RftAssumption DEF RftInit, RftInv, RftTypeOK

\* Applying a WRFT.
LEMMA WrftStep ==
  ASSUME RftTypeOK, NEW k \in Keyword, ApplyWRFT(k)
  PROVE  /\ openTime' \in 0 .. Never /\ UNCHANGED <<openName, pltConf>>
         /\ rftConf' \in Container(RftValues \cup {"YES", "NO"})
         /\ first' \in 0 .. Never /\ first' <= first
         /\ \A w \in k.wells : wellOpen[w] <= k.step => first' <= k.step
<1> DEFINE V == RftValues \cup {"YES", "NO"}
<1>1. k.name = "WRFT" /\ k.wells \in SUBSET Wells /\ k.step \in Steps /\ k.step \in 0 .. Never
  BY StepsAndNever DEF Keyword, ApplyWRFT
<1>2. openTime' \in 0 .. Never
  BY <1>1, MinType DEF RftTypeOK, ApplyWRFT
<1>3. rftConf' \in Container(V)
  <2>1. \A w \in Wells : UpdateConfig(rftConf, w, k.step, "YES") \in Container(V)
    BY <1>1, ConfigType DEF RftTypeOK
  <2>2. rftConf \in Container(V)
    BY DEF RftTypeOK
  <2>3. rftConf' = [w \in Wells |-> IF w \in k.wells THEN UpdateConfig(rftConf, w, k.step, "YES")[w]
                                    ELSE rftConf[w]]
    BY DEF ApplyWRFT
  <2> HIDE DEF V
  <2> QED BY <2>1, <2>2, <2>3 DEF Container
<1>4. PICK event \in 0 .. Never : first' = MinOf(FirstIfNotShut(k.wells, k.step), event)
  BY <1>1, EventType DEF ApplyWRFT
<1>5. first' \in 0 .. Never /\ first' <= FirstIfNotShut(k.wells, k.step)
  BY <1>1, <1>4, FirstType, MinType
<1>6. /\ FirstIfNotShut(k.wells, k.step) \in 0 .. Never
      /\ FirstIfNotShut(k.wells, k.step) <= first
      /\ (\E w \in k.wells : wellOpen[w] <= k.step) => FirstIfNotShut(k.wells, k.step) <= k.step
  BY <1>1, FirstType
<1>7. first \in 0 .. Never
  BY DEF RftTypeOK
<1>8. first' <= first /\ ((\E w \in k.wells : wellOpen[w] <= k.step) => first' <= k.step)
  BY <1>1, <1>5, <1>6, <1>7, StepsAndNever
<1> QED BY <1>2, <1>3, <1>5, <1>8 DEF ApplyWRFT

\* Applying a WRFTPLT.
LEMMA WrftpltStep ==
  ASSUME RftTypeOK, NEW k \in Keyword, ApplyWRFTPLT(k)
  PROVE  /\ openName' \in [Wells -> 0 .. Never] /\ UNCHANGED openTime
         /\ rftConf' \in Container(RftValues \cup {"YES", "NO"})
         /\ pltConf' \in Container(PltValues \cup {"NO"})
         /\ first' \in 0 .. Never /\ first' <= first
         /\ k.rft \notin {"FOPN", "NO"} /\ wellOpen[k.well] <= k.step => first' <= k.step
         /\ k.rft = "FOPN" => first' <= wellOpen[k.well] \/ first' <= k.step
<1> DEFINE w == k.well
           byFopn == IF wellOpen[w] < k.step THEN k.step ELSE wellOpen[w]
           firstRFT == IF k.rft = "FOPN" THEN MinOf(first, byFopn)
                       ELSE IF k.rft = "NO" THEN first ELSE FirstIfNotShut({w}, k.step)
           firstPLT == IF k.plt = "NO" THEN first ELSE FirstIfNotShut({w}, k.step)
<1>1. /\ k.name = "WRFTPLT" /\ w \in Wells /\ k.step \in Steps /\ k.step \in 0 .. Never
      /\ k.rft \in RftValues /\ k.plt \in PltValues
  BY StepsAndNever DEF Keyword, ApplyWRFTPLT
<1>2. openName' \in [Wells -> 0 .. Never]
  <2>1. MinOf(openName[w], k.step) \in 0 .. Never
    BY <1>1, MinType DEF RftTypeOK
  <2> QED BY <1>1, <2>1 DEF RftTypeOK, ApplyWRFTPLT
<1>3. rftConf' \in Container(RftValues \cup {"YES", "NO"})
  <2>1. UpdateConfig(rftConf, w, k.step, k.rft) \in Container(RftValues \cup {"YES", "NO"})
    BY <1>1, ConfigType DEF RftTypeOK
  <2> QED BY <2>1 DEF RftTypeOK, ApplyWRFTPLT
<1>4. pltConf' \in Container(PltValues \cup {"NO"})
  BY <1>1, ConfigType DEF RftTypeOK, ApplyWRFTPLT
<1>5. first \in 0 .. Never /\ wellOpen[w] \in 0 .. Never /\ byFopn \in 0 .. Never
  BY <1>1 DEF RftTypeOK
<1>6. /\ FirstIfNotShut({w}, k.step) \in 0 .. Never
      /\ FirstIfNotShut({w}, k.step) <= first
      /\ wellOpen[w] <= k.step => FirstIfNotShut({w}, k.step) <= k.step
  BY <1>1, FirstType
<1>7. /\ MinOf(first, byFopn) \in 0 .. Never
      /\ MinOf(first, byFopn) <= first /\ MinOf(first, byFopn) <= byFopn
  BY <1>5, MinType
<1>8. first' = MinOf(firstRFT, firstPLT)
  BY DEF ApplyWRFTPLT
<1>9. firstRFT \in 0 .. Never /\ firstPLT \in 0 .. Never /\ firstRFT <= first
  BY <1>5, <1>6, <1>7, StepsAndNever
<1>10. first' \in 0 .. Never /\ first' <= firstRFT
  BY <1>8, <1>9, MinType
<1>11. first' <= first
  BY <1>5, <1>9, <1>10, StepsAndNever
<1>12. k.rft \notin {"FOPN", "NO"} /\ wellOpen[w] <= k.step => first' <= k.step
  BY <1>1, <1>6, <1>10, StepsAndNever
<1>13. k.rft = "FOPN" => first' <= wellOpen[w] \/ first' <= k.step
  BY <1>1, <1>5, <1>7, <1>10, StepsAndNever
<1> QED BY <1>2, <1>3, <1>4, <1>10, <1>11, <1>12, <1>13 DEF ApplyWRFTPLT

\* A turn of the loop: the keyword gets what it asks, and as first_rft_event
\* does not grow the ones before it keep what they have.
LEMMA RftApplyStep == ASSUME RftInv, ApplyNext PROVE RftInv'
<1>1. /\ RftTypeOK /\ phase = "apply" /\ next \in 1 .. Len(keywords) /\ next' = next + 1
      /\ UNCHANGED <<phase, step, keywords, wellOpen>>
      /\ Len(keywords) \in Nat /\ Len(keywords) <= MaxKeywords
      /\ \A i \in 1 .. next - 1 : BegunFor(keywords[i])
  BY DEF RftInv, ApplyNext, RftTypeOK
<1>2. PICK k \in Keyword : k = keywords[next]
  BY <1>1 DEF RftTypeOK
<1>3. ApplyWRFT(k) \/ ApplyWRFTPLT(k)
  BY <1>2 DEF ApplyNext
<1>4. /\ openTime' \in 0 .. Never /\ openName' \in [Wells -> 0 .. Never]
      /\ rftConf' \in Container(RftValues \cup {"YES", "NO"})
      /\ pltConf' \in Container(PltValues \cup {"NO"})
      /\ first' \in 0 .. Never /\ first' <= first
  BY <1>1, <1>3, WrftStep, WrftpltStep DEF RftTypeOK
<1>5. RftTypeOK'
  BY <1>1, <1>4, RftAssumption DEF RftTypeOK
<1>6. ASSUME NEW j \in Keyword, BegunFor(j) PROVE BegunFor(j)'
  <2>1. j.step \in 0 .. Never /\ (j.name = "WRFT" => j.wells \subseteq Wells)
        /\ (j.name = "WRFTPLT" => j.well \in Wells)
    BY StepsAndNever DEF Keyword
  <2>2. first \in 0 .. Never /\ wellOpen' = wellOpen /\ \A w \in Wells : wellOpen[w] \in 0 .. Never
    BY <1>1 DEF RftTypeOK
  <2>3. \A n \in 0 .. Never : first <= n => first' <= n
    BY <1>4, <2>2, StepsAndNever
  <2> QED BY <1>6, <2>1, <2>2, <2>3 DEF BegunFor
<1>7. BegunFor(k)'
  <2>1. CASE ApplyWRFT(k)
    BY <1>1, <2>1, WrftStep DEF ApplyWRFT, BegunFor
  <2>2. CASE ApplyWRFTPLT(k)
    BY <1>1, <2>2, WrftpltStep DEF ApplyWRFTPLT, BegunFor
  <2> QED BY <1>3, <2>1, <2>2
<1>8. \A j \in Keyword : (BegunFor(j) => BegunFor(j)') /\ (j = k => BegunFor(j)')
  BY <1>6, <1>7
<1>9. ASSUME NEW i \in 1 .. next' - 1 PROVE BegunFor(keywords[i])'
  <2>1. PICK j \in Keyword : j = keywords[i] /\ keywords'[i] = j
    BY <1>1 DEF RftTypeOK
  <2>2. BegunFor(j) \/ j = k
    BY <1>1, <1>2, <2>1
  <2>3. BegunFor(j)'
    BY <1>8, <2>2
  <2> QED BY <2>1, <2>3 DEF BegunFor
<1> QED BY <1>1, <1>5, <1>9 DEF RftInv

LEMMA RftReadStep ==
  ASSUME RftInv, Read, phase' = "read", step' \in Steps,
         wellOpen' \in [Wells -> 0 .. Never],
         keywords' \in Seq(Keyword), Len(keywords') <= MaxKeywords
  PROVE  RftInv'
<1>1. next' = 1 /\ RftTypeOK'
  BY DEF RftInv, RftTypeOK, Read
<1> QED BY <1>1 DEF RftInv, RftTypeOK

LEMMA RftNextInv == RftInv /\ [RftNext]_rftVars => RftInv'
<1> SUFFICES ASSUME RftInv, [RftNext]_rftVars PROVE RftInv'
  OBVIOUS
<1>1. RftTypeOK /\ step \in Steps /\ Len(keywords) \in Nat
  BY DEF RftInv, RftTypeOK
<1>2. ASSUME NEW w \in Wells, AddWellOpen(w, step)
      PROVE  wellOpen' \in [Wells -> 0 .. Never]
  BY <1>1, <1>2, StepsAndNever DEF RftTypeOK, AddWellOpen
<1>3. ASSUME NEW w \in Wells, OpenWell(w) PROVE RftInv'
  BY <1>1, <1>2, <1>3, RftReadStep DEF OpenWell, Read, RftInv, RftTypeOK
<1>4. ASSUME NEW w \in Wells, OpenAtRuntime(w) PROVE RftInv'
  <2>1. wellOpen' \in [Wells -> 0 .. Never]
    BY <1>2, <1>4 DEF OpenAtRuntime
  <2> QED BY <1>4, <2>1 DEF OpenAtRuntime, RftInv, RftTypeOK
<1>5. ASSUME NEW k \in Keyword, HandleKeyword(k) PROVE RftInv'
  <2>1. keywords' \in Seq(Keyword) /\ Len(keywords') = Len(keywords) + 1
    BY <1>1, <1>5 DEF HandleKeyword, RftTypeOK
  <2>2. Len(keywords') <= MaxKeywords
    BY <1>1, <1>5, <2>1, RftAssumption DEF HandleKeyword
  <2> QED BY <1>1, <1>5, <2>1, <2>2, RftReadStep DEF HandleKeyword, Read, RftTypeOK
<1>6. CASE EndReportStep
  BY <1>6, RftReadStep DEF EndReportStep, Read, RftInv, RftTypeOK
<1>7. CASE EndSection
  BY <1>7 DEF EndSection, RftInv, RftTypeOK
<1>8. CASE ApplyNext
  BY <1>8, RftApplyStep
<1>9. CASE StartRun
  BY <1>9, StepsAndNever DEF StartRun, RftInv, RftTypeOK
<1>10. CASE RunReportStep
  BY <1>10 DEF RunReportStep, RftInv, RftTypeOK
<1>11. CASE UNCHANGED rftVars
  BY <1>11 DEF rftVars, RftInv, RftTypeOK, BegunFor
<1> QED BY <1>3, <1>4, <1>5, <1>6, <1>7, <1>8, <1>9, <1>10, <1>11 DEF RftNext

\* The invariant holds through the section, the deferred keywords and the run.
THEOREM RftInvHolds == RftSpec => []RftInv
<1> QED BY RftInitInv, RftNextInv, PTL DEF RftSpec

\* Every step the configuration keeps is a report step, or the "never" of the
\* code, and the settings stay in their containers.
THEOREM RftTypeCorrect == RftSpec => []RftTypeOK
<1>1. RftInv => RftTypeOK
  BY DEF RftInv
<1> QED BY <1>1, RftInvHolds, PTL

\* When the deferred keywords have been applied, the first RFT event is early
\* enough for each of them, in whatever order they and the openings of the
\* wells came.
THEOREM BegunInTime == RftSpec => []BegunForKeywords
<1>1. RftInv => BegunForKeywords
  <2> SUFFICES ASSUME RftInv, Applied PROVE BegunForKeywords
    BY DEF BegunForKeywords
  <2>1. next = Len(keywords) + 1 /\ Len(keywords) \in Nat /\ DOMAIN keywords = 1 .. Len(keywords)
    BY DEF RftInv, RftTypeOK, Applied
  <2>2. \A i \in DOMAIN keywords : BegunFor(keywords[i]) /\ keywords[i] \in Keyword
    BY <2>1 DEF RftInv, Applied, RftTypeOK
  <2>3. \A i \in DOMAIN keywords : i \in Wrft <=> keywords[i].name = "WRFT"
    BY DEF Wrft
  <2>4. \A i \in DOMAIN keywords : keywords[i].name \in {"WRFT", "WRFTPLT"}
    BY <2>2 DEF Keyword
  <2>5. ASSUME NEW w \in Wells, NEW i \in Setting(w), i \in DOMAIN keywords,
               i \in Wrft \/ keywords[i].rft # "NO", wellOpen[w] <= keywords[i].step
        PROVE  first <= keywords[i].step
    BY <2>2, <2>3, <2>4, <2>5 DEF Setting, Wrftplt, Fopn, BegunFor
  <2>6. ASSUME NEW w \in Wells, NEW i \in Fopn(w), i \in DOMAIN keywords
        PROVE  first <= wellOpen[w] \/ first <= keywords[i].step
    BY <2>2, <2>3, <2>4, <2>6 DEF Wrftplt, Fopn, BegunFor
  <2> QED BY <2>5, <2>6 DEF BegunForKeywords
<1> QED BY <1>1, RftInvHolds, PTL

-----------------------------------------------------------------------------
(* What the settings mean for a step. *)

\* The keywords stand in the order of their steps.
KeywordsOrdered ==
  /\ \A i, j \in DOMAIN keywords : i < j => keywords[i].step <= keywords[j].step
  /\ phase = "read" => \A i \in DOMAIN keywords : keywords[i].step <= step

\* Of the keywords before the n-th that are in the set, i is the last one up to
\* step t, or 0 if there is none.
Decides(set, t, n, i) ==
  /\ i \in set \cup {0} /\ i < n
  /\ i # 0 => keywords[i].step <= t
  /\ \A j \in set : j < n /\ keywords[j].step <= t => j <= i

\* What updateRFT() and updatePLT() are called with for the i-th keyword.
RftSetting ==
  [i \in DOMAIN keywords \cup {0} |->
     IF i = 0 THEN <<"NO", 0>>
     ELSE <<IF keywords[i].name = "WRFT" THEN "YES" ELSE keywords[i].rft, keywords[i].step>>]

PltSetting ==
  [i \in DOMAIN keywords \cup {0} |->
     IF i = 0 THEN <<"NO", 0>> ELSE <<keywords[i].plt, keywords[i].step>>]

\* A container holds at each step the value of the keyword that decides there.
Follows(data, set, n, val) ==
  \A t \in Steps : \E i \in set \cup {0} : Decides(set, t, n, i) /\ data[t] = val[i]

\* The step m is the first one of the keywords before the n-th in the set.
FirstOf(m, set, n) ==
  \/ m = Never /\ \A i \in set : i >= n
  \/ /\ \E i \in set : i < n /\ keywords[i].step = m
     /\ \A i \in set : i < n => m <= keywords[i].step

\* The inductive invariant: settings and first steps of the applied keywords.
ConfInv ==
  /\ RftInv
  /\ KeywordsOrdered
  /\ FirstOf(openTime, Wrft, next)
  /\ \A w \in Wells :
       /\ FirstOf(openName[w], Fopn(w), next)
       /\ Follows(rftConf[w], Setting(w), next, RftSetting)
       /\ Follows(pltConf[w], Wrftplt(w), next, PltSetting)

-----------------------------------------------------------------------------
\* The keywords and the sets of the rules.
LEMMA KeywordTypes ==
  ASSUME RftInv
  PROVE  /\ \A i \in DOMAIN keywords : keywords[i] \in Keyword /\ keywords[i].step \in Steps
         /\ DOMAIN keywords = 1 .. Len(keywords) /\ Len(keywords) \in Nat
         /\ DOMAIN keywords \subseteq Int /\ Steps \subseteq Int /\ next \in Nat \ {0}
         /\ Wrft \subseteq DOMAIN keywords
         /\ \A w : /\ Wrftplt(w) \subseteq DOMAIN keywords
                   /\ Fopn(w) \subseteq DOMAIN keywords
                   /\ Setting(w) \subseteq DOMAIN keywords
<1>1. keywords \in Seq(Keyword) /\ next \in Nat \ {0}
  BY RftAssumption DEF RftInv, RftTypeOK
<1>2. \A k \in Keyword : k.step \in Steps
  BY DEF Keyword
<1> QED BY <1>1, <1>2, StepsAndNever DEF Wrft, Wrftplt, Fopn, Setting

\* A turn of the loop leaves a container with the settings of one keyword more.
LEMMA FollowsNext ==
  ASSUME RftInv, KeywordsOrdered, NEW set \in SUBSET DOMAIN keywords, NEW n \in DOMAIN keywords,
         NEW val, NEW data, DOMAIN data = Steps, Follows(data, set, n, val), n \in set
  PROVE  Follows(Update(data, keywords[n].step, val[n]), set, n + 1, val)
<1> DEFINE s == keywords[n].step
           new == Update(data, s, val[n])
<1>1. /\ s \in Steps /\ Steps \subseteq Int /\ DOMAIN keywords \subseteq Int /\ set \subseteq Int
      /\ \A i \in set : keywords[i].step \in Int /\ (i < n => keywords[i].step <= s)
      /\ 0 \in Int /\ 0 < n
  BY KeywordTypes DEF KeywordsOrdered
<1> HIDE DEF s
<1> SUFFICES ASSUME NEW t \in Steps
             PROVE  \E i \in set \cup {0} : Decides(set, t, n + 1, i) /\ new[t] = val[i]
  BY DEF Follows, s
<1>2. PICK i \in set \cup {0} : Decides(set, t, n, i) /\ data[t] = val[i]
  BY DEF Follows
<1>3. CASE t < s
  <2>1. new[t] = data[t]
    BY <1>1, <1>3 DEF Update
  <2>2. Decides(set, t, n + 1, i)
    BY <1>1, <1>2, <1>3 DEF Decides, s
  <2> QED BY <1>2, <2>1, <2>2
<1>4. CASE s <= t
  <2>1. Decides(set, t, n + 1, n)
    BY <1>1, <1>4 DEF Decides, s
  <2>2. new[t] = val[n]
    <3>1. CASE data[s] # val[n]
      BY <1>1, <1>4, <3>1 DEF Update
    <3>2. CASE data[s] = val[n]
      <4>1. PICK j \in set \cup {0} : Decides(set, s, n, j) /\ data[s] = val[j]
        BY <1>1 DEF Follows
      <4>2. i <= j /\ j <= i
        <5>1. i # 0 => i \in set /\ keywords[i].step <= s /\ i < n
          BY <1>1, <1>2 DEF Decides
        <5>2. j # 0 => j \in set /\ keywords[j].step <= t /\ j < n
          BY <1>1, <1>4, <4>1 DEF Decides
        <5>3. \A k \in set : 0 <= k
          BY KeywordTypes
        <5> QED BY <1>1, <1>2, <4>1, <5>1, <5>2, <5>3 DEF Decides
      <4>3. i = j
        BY <1>1, <4>2
      <4>4. new = data
        BY <3>2 DEF Update
      <4> QED BY <1>2, <3>2, <4>1, <4>3, <4>4
    <3> QED BY <3>1, <3>2
  <2> QED BY <2>1, <2>2
<1> QED BY <1>1, <1>3, <1>4

\* A keyword that is not in the set changes nothing for it.
LEMMA FollowsSame ==
  ASSUME RftInv, NEW set \in SUBSET DOMAIN keywords, NEW n \in DOMAIN keywords, n \notin set,
         NEW val, NEW data, Follows(data, set, n, val)
  PROVE  Follows(data, set, n + 1, val)
<1>1. set \subseteq Int /\ n \in Int /\ 0 \in Int
  BY KeywordTypes
<1>2. \A i \in set : i < n + 1 <=> i < n
  BY <1>1
<1>3. 0 < n => 0 < n + 1
  BY <1>1
<1>4. \A t, i : Decides(set, t, n, i) => Decides(set, t, n + 1, i)
  BY <1>1, <1>2, <1>3 DEF Decides
<1> QED BY <1>4 DEF Follows

\* A keyword more, in the set or not.
LEMMA FirstOfNext ==
  ASSUME RftInv, NEW set \in SUBSET DOMAIN keywords, NEW n \in DOMAIN keywords,
         NEW m \in 0 .. Never, FirstOf(m, set, n)
  PROVE  /\ n \in set => FirstOf(MinOf(m, keywords[n].step), set, n + 1)
         /\ n \notin set => FirstOf(m, set, n + 1)
<1>1. /\ set \subseteq Int /\ n \in Int /\ \A i \in DOMAIN keywords : keywords[i].step \in Steps
      /\ Never \in Nat /\ \A t \in Steps : t \in Int /\ t < Never
      /\ m \in Int
  BY KeywordTypes, StepsAndNever DEF Steps, Never
<1>2. \A i \in set : i < n + 1 <=> i < n \/ i = n
  BY <1>1
<1>3. \A i \in set : i >= n /\ i # n => i >= n + 1
  BY <1>1
<1>4. CASE n \notin set
  BY <1>2, <1>3, <1>4 DEF FirstOf
<1>5. CASE n \in set
  <2>1. CASE m = Never /\ \A i \in set : i >= n
    <3>1. MinOf(m, keywords[n].step) = keywords[n].step
      BY <1>1, <2>1 DEF MinOf
    <3>2. \A i \in set : i < n + 1 => i = n
      BY <1>1, <1>2, <2>1
    <3>3. n < n + 1 /\ keywords[n].step <= keywords[n].step
      BY <1>1
    <3> QED BY <1>5, <3>1, <3>2, <3>3 DEF FirstOf
  <2>2. CASE /\ \E i \in set : i < n /\ keywords[i].step = m
             /\ \A i \in set : i < n => m <= keywords[i].step
    <3>1. PICK i \in set : i < n /\ keywords[i].step = m
      BY <2>2
    <3>2. CASE m < keywords[n].step
      BY <1>1, <1>2, <1>5, <2>2, <3>1, <3>2 DEF FirstOf, MinOf
    <3>3. CASE ~(m < keywords[n].step)
      <4>1. MinOf(m, keywords[n].step) = keywords[n].step /\ keywords[n].step <= m
        BY <1>1, <3>3 DEF MinOf
      <4> QED BY <1>1, <1>2, <1>5, <2>2, <4>1 DEF FirstOf
    <3> QED BY <3>2, <3>3
  <2> QED BY <1>5, <2>1, <2>2 DEF FirstOf
<1> QED BY <1>4, <1>5

\* The sets of keywords are those of the section.
LEMMA SameSets ==
  ASSUME keywords' = keywords
  PROVE  /\ Wrft' = Wrft
         /\ \A w : Wrftplt(w)' = Wrftplt(w) /\ Fopn(w)' = Fopn(w) /\ Setting(w)' = Setting(w)
         /\ RftSetting' = RftSetting /\ PltSetting' = PltSetting
<1>1. Wrft' = Wrft
  BY DEF Wrft
<1>2. \A w : Wrftplt(w)' = Wrftplt(w)
  BY <1>1 DEF Wrftplt
<1>3. \A w : Fopn(w)' = Fopn(w)
  BY <1>2 DEF Fopn
<1>4. \A w : Setting(w)' = Setting(w)
  BY <1>1, <1>2, <1>3 DEF Setting
<1>5. RftSetting' = RftSetting /\ PltSetting' = PltSetting
  BY DEF RftSetting, PltSetting
<1> QED BY <1>1, <1>2, <1>3, <1>4, <1>5

\* What is said of the first n keywords holds in the next state as well.
LEMMA CarryOver ==
  ASSUME keywords' = keywords, RftInv', KeywordsOrdered', NEW n, next' = n,
         FirstOf(openTime', Wrft, n),
         \A w \in Wells : /\ FirstOf(openName'[w], Fopn(w), n)
                          /\ Follows(rftConf'[w], Setting(w), n, RftSetting)
                          /\ Follows(pltConf'[w], Wrftplt(w), n, PltSetting)
  PROVE  ConfInv'
<1>1. \A m, set : FirstOf(m, set, n) =>
        \/ m = Never /\ \A i \in set : i >= n
        \/ /\ \E i \in set : i < n /\ keywords'[i].step = m
           /\ \A i \in set : i < n => m <= keywords'[i].step
  BY DEF FirstOf
<1>2. FirstOf(openTime, Wrft, next)'
  BY <1>1, SameSets DEF FirstOf
<1>3. \A w \in Wells : FirstOf(openName[w], Fopn(w), next)'
  BY <1>1, SameSets DEF FirstOf
<1>4. \A w \in Wells : Follows(rftConf[w], Setting(w), next, RftSetting)'
  BY SameSets DEF Follows, Decides
<1>5. \A w \in Wells : Follows(pltConf[w], Wrftplt(w), next, PltSetting)'
  BY SameSets DEF Follows, Decides
<1> QED BY <1>2, <1>3, <1>4, <1>5 DEF ConfInv

\* A turn of the loop.
LEMMA ConfApply == ASSUME ConfInv, ApplyNext PROVE ConfInv'
<1>1. /\ RftInv /\ RftInv' /\ KeywordsOrdered /\ next \in DOMAIN keywords
      /\ keywords' = keywords /\ next' = next + 1 /\ phase' = phase /\ step' = step
      /\ openTime \in 0 .. Never /\ \A w \in Wells : openName[w] \in 0 .. Never
      /\ rftConf \in [Wells -> [Steps -> (RftValues \cup {"YES", "NO"}) \X Steps]]
      /\ pltConf \in [Wells -> [Steps -> (PltValues \cup {"NO"}) \X Steps]]
      /\ openName \in [Wells -> 0 .. Never]
  <2>1. RftInv /\ RftInv' /\ KeywordsOrdered
    BY RftApplyStep DEF ConfInv
  <2>2. next \in DOMAIN keywords
    BY <2>1, KeywordTypes DEF ApplyNext
  <2> QED BY <2>1, <2>2 DEF ApplyNext, RftInv, RftTypeOK, Container
<1>2. KeywordsOrdered'
  BY <1>1 DEF KeywordsOrdered
<1>3. PICK n \in DOMAIN keywords : n = next
  BY <1>1
<1>4. /\ FirstOf(openTime, Wrft, n)
      /\ \A w \in Wells : /\ FirstOf(openName[w], Fopn(w), n)
                          /\ Follows(rftConf[w], Setting(w), n, RftSetting)
                          /\ Follows(pltConf[w], Wrftplt(w), n, PltSetting)
  BY <1>3 DEF ConfInv
<1>5. PICK k \in Keyword : k = keywords[n]
  BY <1>1, KeywordTypes
<1>6. /\ Wrft \in SUBSET DOMAIN keywords
      /\ \A w : Setting(w) \in SUBSET DOMAIN keywords /\ Wrftplt(w) \in SUBSET DOMAIN keywords
                /\ Fopn(w) \in SUBSET DOMAIN keywords
  BY <1>1, KeywordTypes
<1>7. n # 0 /\ n + 1 = next'
  BY <1>1, <1>3, KeywordTypes
<1>8. CASE ApplyWRFT(k)
  <2>1. k.name = "WRFT" /\ n \in Wrft /\ RftSetting[n] = <<"YES", k.step>>
    BY <1>5, <1>7, <1>8 DEF ApplyWRFT, Wrft, RftSetting
  <2>2. /\ openTime' = MinOf(openTime, k.step) /\ openName' = openName /\ pltConf' = pltConf
        /\ rftConf' = [w \in Wells |-> IF w \in k.wells
                                       THEN UpdateConfig(rftConf, w, k.step, "YES")[w]
                                       ELSE rftConf[w]]
    BY <1>8 DEF ApplyWRFT
  <2>3. FirstOf(openTime', Wrft, n + 1)
    BY <1>1, <1>4, <1>5, <1>6, <2>1, <2>2, FirstOfNext
  <2>4. ASSUME NEW w \in Wells
        PROVE  /\ FirstOf(openName'[w], Fopn(w), n + 1)
               /\ Follows(rftConf'[w], Setting(w), n + 1, RftSetting)
               /\ Follows(pltConf'[w], Wrftplt(w), n + 1, PltSetting)
    <3>1. n \notin Wrftplt(w) /\ n \notin Fopn(w) /\ (n \in Setting(w) <=> w \in k.wells)
      BY <1>5, <2>1 DEF Wrftplt, Fopn, Setting
    <3>2. FirstOf(openName'[w], Fopn(w), n + 1)
      BY <1>1, <1>4, <1>6, <2>2, <3>1, FirstOfNext
    <3>3. Follows(pltConf'[w], Wrftplt(w), n + 1, PltSetting)
      BY <1>1, <1>4, <1>6, <2>2, <3>1, FollowsSame
    <3>4. CASE w \in k.wells
      <4>1. rftConf'[w] = Update(rftConf[w], k.step, RftSetting[n])
        BY <1>1, <2>1, <2>2, <3>4 DEF UpdateConfig
      <4>2. DOMAIN rftConf[w] = Steps
        BY <1>1
      <4> QED BY <1>1, <1>4, <1>5, <1>6, <3>1, <3>2, <3>3, <3>4, <4>1, <4>2, FollowsNext
    <3>5. CASE w \notin k.wells
      <4>1. rftConf'[w] = rftConf[w]
        BY <2>2, <3>5
      <4> QED BY <1>1, <1>4, <1>6, <3>1, <3>2, <3>3, <3>5, <4>1, FollowsSame
    <3> QED BY <3>4, <3>5
  <2> QED BY <1>1, <1>2, <1>7, <2>3, <2>4, CarryOver
<1>9. CASE ApplyWRFTPLT(k)
  <2> DEFINE v == k.well
  <2>1. /\ k.name = "WRFTPLT" /\ n \notin Wrft /\ v \in Wells /\ n \in Wrftplt(v)
        /\ \A w : w # v => n \notin Wrftplt(w)
        /\ RftSetting[n] = <<k.rft, k.step>> /\ PltSetting[n] = <<k.plt, k.step>>
    <3>1. k.name = "WRFTPLT" /\ v \in Wells
      BY <1>9 DEF ApplyWRFTPLT, Keyword
    <3> QED BY <1>5, <1>7, <3>1 DEF Wrft, Wrftplt, RftSetting, PltSetting
  <2>2. /\ openTime' = openTime
        /\ pltConf' = UpdateConfig(pltConf, v, k.step, k.plt)
        /\ k.rft = "FOPN" => openName' = [openName EXCEPT ![v] = MinOf(@, k.step)]
                             /\ rftConf' = rftConf
        /\ k.rft # "FOPN" => openName' = openName
                             /\ rftConf' = UpdateConfig(rftConf, v, k.step, k.rft)
    BY <1>9 DEF ApplyWRFTPLT
  <2>3. FirstOf(openTime', Wrft, n + 1)
    BY <1>1, <1>4, <1>6, <2>1, <2>2, FirstOfNext
  <2>4. ASSUME NEW w \in Wells
        PROVE  /\ FirstOf(openName'[w], Fopn(w), n + 1)
               /\ Follows(rftConf'[w], Setting(w), n + 1, RftSetting)
               /\ Follows(pltConf'[w], Wrftplt(w), n + 1, PltSetting)
    <3>1. CASE w # v
      <4>1. n \notin Wrftplt(w) /\ n \notin Fopn(w) /\ n \notin Setting(w)
        BY <2>1, <3>1 DEF Setting, Fopn
      <4>2. rftConf'[w] = rftConf[w] /\ pltConf'[w] = pltConf[w] /\ openName'[w] = openName[w]
        <5>1. pltConf'[w] = pltConf[w]
          BY <1>1, <2>1, <2>2, <3>1 DEF UpdateConfig
        <5>2. rftConf'[w] = rftConf[w] /\ openName'[w] = openName[w]
          BY <1>1, <2>1, <2>2, <3>1 DEF UpdateConfig
        <5> QED BY <5>1, <5>2
      <4>3. FirstOf(openName'[w], Fopn(w), n + 1)
        BY <1>1, <1>4, <1>6, <4>1, <4>2, FirstOfNext
      <4> QED BY <1>1, <1>4, <1>6, <4>1, <4>2, <4>3, FollowsSame
    <3>2. CASE w = v
      <4>1. n \in Wrftplt(w)
        BY <2>1, <3>2
      <4>2. Follows(pltConf'[w], Wrftplt(w), n + 1, PltSetting)
        <5>1. pltConf'[w] = Update(pltConf[w], k.step, PltSetting[n])
          BY <1>1, <2>1, <2>2, <3>2 DEF UpdateConfig
        <5>2. DOMAIN pltConf[w] = Steps
          BY <1>1
        <5> QED BY <1>1, <1>4, <1>5, <1>6, <4>1, <5>1, <5>2, FollowsNext
      <4>3. CASE k.rft = "FOPN"
        <5>1. n \in Fopn(w) /\ n \notin Setting(w)
          BY <1>5, <2>1, <4>1, <4>3 DEF Fopn, Setting
        <5>2. openName'[w] = MinOf(openName[w], k.step) /\ rftConf'[w] = rftConf[w]
          BY <1>1, <2>1, <2>2, <3>2, <4>3
        <5>3. FirstOf(openName'[w], Fopn(w), n + 1)
          BY <1>1, <1>4, <1>5, <1>6, <5>1, <5>2, FirstOfNext
        <5> QED BY <1>1, <1>4, <1>6, <4>2, <5>1, <5>2, <5>3, FollowsSame
      <4>4. CASE k.rft # "FOPN"
        <5>1. n \notin Fopn(w) /\ n \in Setting(w)
          BY <1>5, <2>1, <4>1, <4>4 DEF Fopn, Setting
        <5>2. openName'[w] = openName[w] /\ rftConf'[w] = Update(rftConf[w], k.step, RftSetting[n])
          BY <1>1, <2>1, <2>2, <3>2, <4>4 DEF UpdateConfig
        <5>3. DOMAIN rftConf[w] = Steps
          BY <1>1
        <5>4. FirstOf(openName'[w], Fopn(w), n + 1)
          BY <1>1, <1>4, <1>6, <5>1, <5>2, FirstOfNext
        <5>5. Follows(rftConf'[w], Setting(w), n + 1, RftSetting)
          BY <1>1, <1>4, <1>5, <1>6, <5>1, <5>2, <5>3, FollowsNext
        <5> QED BY <4>2, <5>4, <5>5
      <4> QED BY <4>3, <4>4
    <3> QED BY <3>1, <3>2
  <2> QED BY <1>1, <1>2, <1>7, <2>3, <2>4, CarryOver
<1>10. ApplyWRFT(k) \/ ApplyWRFTPLT(k)
  BY <1>3, <1>5 DEF ApplyNext
<1> QED BY <1>8, <1>9, <1>10

\* As long as the section is read no keyword is applied.
Unapplied ==
  /\ RftInv /\ KeywordsOrdered
  /\ next = 1
  /\ openTime = Never
  /\ \A w \in Wells :
       /\ openName[w] = Never
       /\ \A t \in Steps : rftConf[w][t] = <<"NO", 0>> /\ pltConf[w][t] = <<"NO", 0>>

\* So all settings are the ones a container is filled with.
LEMMA UnappliedFits == Unapplied => ConfInv
<1> SUFFICES ASSUME Unapplied PROVE ConfInv
  OBVIOUS
<1>1. RftInv /\ next = 1
  BY DEF Unapplied
<1>2. \A set \in SUBSET DOMAIN keywords : /\ FirstOf(Never, set, 1)
                                           /\ \A t : Decides(set, t, 1, 0)
  <2>1. \A i \in DOMAIN keywords : i >= 1 /\ ~(i < 1)
    BY <1>1, KeywordTypes
  <2> QED BY <2>1 DEF FirstOf, Decides
<1>3. RftSetting[0] = <<"NO", 0>> /\ PltSetting[0] = <<"NO", 0>>
  BY DEF RftSetting, PltSetting
<1>4. ASSUME NEW w \in Wells
      PROVE  /\ FirstOf(openName[w], Fopn(w), 1)
             /\ Follows(rftConf[w], Setting(w), 1, RftSetting)
             /\ Follows(pltConf[w], Wrftplt(w), 1, PltSetting)
  <2>1. /\ Setting(w) \in SUBSET DOMAIN keywords /\ Wrftplt(w) \in SUBSET DOMAIN keywords
        /\ Fopn(w) \in SUBSET DOMAIN keywords
    BY <1>1, KeywordTypes
  <2>2. openName[w] = Never /\ \A t \in Steps : rftConf[w][t] = <<"NO", 0>> /\ pltConf[w][t] = <<"NO", 0>>
    BY DEF Unapplied
  <2>3. \A t : Decides(Setting(w), t, 1, 0) /\ Decides(Wrftplt(w), t, 1, 0)
    BY <1>2, <2>1
  <2> QED BY <1>2, <1>3, <2>1, <2>2, <2>3 DEF Follows
<1>5. Wrft \in SUBSET DOMAIN keywords
  BY <1>1, KeywordTypes
<1> QED BY <1>1, <1>2, <1>4, <1>5 DEF ConfInv, Unapplied

LEMMA UnappliedFitsNext == Unapplied' => ConfInv'
BY UnappliedFits, PTL

LEMMA ReadUnapplied == ConfInv /\ phase = "read" => Unapplied
<1> SUFFICES ASSUME ConfInv, phase = "read" PROVE Unapplied
  OBVIOUS
<1>1. RftInv /\ next = 1 /\ KeywordsOrdered
  BY DEF ConfInv, RftInv
<1>2. \A i \in DOMAIN keywords : ~(i < 1)
  BY <1>1, KeywordTypes
<1>3. \A m : \A set \in SUBSET DOMAIN keywords : FirstOf(m, set, 1) => m = Never
  BY <1>2 DEF FirstOf
<1>4. \A t, i : \A set \in SUBSET DOMAIN keywords : Decides(set, t, 1, i) => i = 0
  BY <1>2 DEF Decides
<1>5. RftSetting[0] = <<"NO", 0>> /\ PltSetting[0] = <<"NO", 0>>
  BY DEF RftSetting, PltSetting
<1>6. openTime = Never
  BY <1>1, <1>3, KeywordTypes DEF ConfInv
<1>7. ASSUME NEW w \in Wells
      PROVE  /\ openName[w] = Never
             /\ \A t \in Steps : rftConf[w][t] = <<"NO", 0>> /\ pltConf[w][t] = <<"NO", 0>>
  <2>1. /\ Setting(w) \in SUBSET DOMAIN keywords /\ Wrftplt(w) \in SUBSET DOMAIN keywords
        /\ Fopn(w) \in SUBSET DOMAIN keywords
    BY <1>1, KeywordTypes
  <2>2. /\ FirstOf(openName[w], Fopn(w), 1)
        /\ Follows(rftConf[w], Setting(w), 1, RftSetting)
        /\ Follows(pltConf[w], Wrftplt(w), 1, PltSetting)
    BY <1>1 DEF ConfInv
  <2>3. openName[w] = Never
    BY <1>3, <2>1, <2>2
  <2>4. \A t \in Steps : rftConf[w][t] = <<"NO", 0>>
    BY <1>4, <1>5, <2>1, <2>2 DEF Follows
  <2>5. \A t \in Steps : pltConf[w][t] = <<"NO", 0>>
    BY <1>4, <1>5, <2>1, <2>2 DEF Follows
  <2> QED BY <2>3, <2>4, <2>5
<1> QED BY <1>1, <1>6, <1>7 DEF Unapplied

\* At the start there is no keyword.
LEMMA ConfInit == RftInit => ConfInv
<1> SUFFICES ASSUME RftInit PROVE ConfInv
  OBVIOUS
<1>1. RftInv
  BY RftInitInv
<1>2. KeywordsOrdered
  BY DEF RftInit, KeywordsOrdered
<1>3. \A w \in Wells, t \in Steps : rftConf[w][t] = <<"NO", 0>> /\ pltConf[w][t] = <<"NO", 0>>
  BY DEF RftInit, Filled, Steps
<1>4. Unapplied
  BY <1>1, <1>2, <1>3 DEF RftInit, Unapplied
<1> QED BY <1>4, UnappliedFits

\* The settings follow the applied keywords in every step.
LEMMA ConfNext == ConfInv /\ [RftNext]_rftVars => ConfInv'
<1> SUFFICES ASSUME ConfInv, [RftNext]_rftVars PROVE ConfInv'
  OBVIOUS
<1>1. RftInv /\ RftInv' /\ KeywordsOrdered
  BY RftNextInv DEF ConfInv
<1>2. step \in Int /\ Len(keywords) \in Nat /\ keywords \in Seq(Keyword)
  BY <1>1, StepsAndNever DEF RftInv, RftTypeOK
<1>3. ASSUME Read, KeywordsOrdered' PROVE ConfInv'
  <2>1. Unapplied
    BY <1>3, ReadUnapplied DEF Read
  <2>2. UNCHANGED <<next, openTime, openName, rftConf, pltConf>>
    BY <1>3 DEF Read
  <2>3. Unapplied'
    BY <1>1, <1>3, <2>1, <2>2 DEF Unapplied
  <2> QED BY <2>3, UnappliedFitsNext
<1>4. ASSUME keywords' = keywords, UNCHANGED <<next, openTime, openName, rftConf, pltConf>>,
             KeywordsOrdered'
      PROVE  ConfInv'
  <2>1. PICK n : n = next /\ n = next'
    BY <1>4
  <2>2. /\ FirstOf(openTime', Wrft, n)
        /\ \A w \in Wells : /\ FirstOf(openName'[w], Fopn(w), n)
                            /\ Follows(rftConf'[w], Setting(w), n, RftSetting)
                            /\ Follows(pltConf'[w], Wrftplt(w), n, PltSetting)
    BY <1>4, <2>1 DEF ConfInv
  <2> QED BY <1>1, <1>4, <2>1, <2>2, CarryOver
<1>5. ASSUME NEW w \in Wells, OpenWell(w) \/ OpenAtRuntime(w) PROVE ConfInv'
  <2>1. KeywordsOrdered'
    BY <1>1, <1>5 DEF KeywordsOrdered, OpenWell, OpenAtRuntime, Read
  <2> QED BY <1>3, <1>4, <1>5, <2>1 DEF OpenWell, OpenAtRuntime
<1>6. ASSUME NEW k \in Keyword, HandleKeyword(k) PROVE ConfInv'
  <2>1. /\ phase' = phase /\ step' = step /\ k.step = step /\ Read
        /\ keywords' = Append(keywords, k) /\ phase = "read"
    BY <1>6 DEF HandleKeyword, Read
  <2>2. /\ DOMAIN keywords = 1 .. Len(keywords) /\ DOMAIN keywords' = 1 .. Len(keywords) + 1
        /\ \A i \in DOMAIN keywords : keywords'[i] = keywords[i]
        /\ keywords'[Len(keywords) + 1] = k
    BY <1>2, <2>1
  <2>3. \A i \in DOMAIN keywords : keywords[i].step <= step
    BY <1>1, <2>1 DEF KeywordsOrdered
  <2>4. \A i \in DOMAIN keywords' : keywords'[i].step <= step
    <3> TAKE i \in DOMAIN keywords'
    <3>1. CASE i = Len(keywords) + 1
      BY <1>2, <2>1, <2>2, <3>1
    <3>2. CASE i # Len(keywords) + 1
      BY <1>2, <2>2, <2>3, <3>2
    <3> QED BY <3>1, <3>2
  <2>5. ASSUME NEW i \in DOMAIN keywords', NEW j \in DOMAIN keywords', i < j
        PROVE  keywords'[i].step <= keywords'[j].step
    <3>1. CASE j = Len(keywords) + 1
      BY <1>2, <2>1, <2>2, <2>4, <3>1
    <3>2. CASE j # Len(keywords) + 1
      <4>1. i \in DOMAIN keywords /\ j \in DOMAIN keywords
        BY <1>2, <2>2, <2>5, <3>2
      <4> QED BY <1>1, <2>2, <2>5, <4>1 DEF KeywordsOrdered
    <3> QED BY <3>1, <3>2
  <2>6. KeywordsOrdered'
    BY <2>1, <2>4, <2>5 DEF KeywordsOrdered
  <2> QED BY <1>3, <2>1, <2>6
<1>7. CASE EndReportStep
  <2>1. Read /\ keywords' = keywords /\ step' = step + 1
    BY <1>7 DEF EndReportStep
  <2>2. \A i \in DOMAIN keywords : keywords[i].step \in Int
    BY <1>1, KeywordTypes
  <2>3. KeywordsOrdered'
    BY <1>1, <1>2, <2>1, <2>2 DEF KeywordsOrdered, Read
  <2> QED BY <1>3, <2>1, <2>3
<1>8. CASE EndSection \/ StartRun
  <2>1. KeywordsOrdered'
    BY <1>1, <1>8 DEF KeywordsOrdered, EndSection, StartRun
  <2> QED BY <1>4, <1>8, <2>1 DEF EndSection, StartRun
<1>9. CASE ApplyNext
  BY <1>9, ConfApply
<1>10. CASE RunReportStep \/ UNCHANGED rftVars
  <2>1. KeywordsOrdered'
    BY <1>1, <1>10 DEF KeywordsOrdered, RunReportStep, rftVars
  <2> QED BY <1>4, <1>10, <2>1 DEF RunReportStep, rftVars
<1> QED BY <1>5, <1>6, <1>7, <1>8, <1>9, <1>10 DEF RftNext

\* The run begins when all keywords are applied.
AllApplied == phase = "run" => next > Len(keywords)

LEMMA AllAppliedHolds == RftSpec => []AllApplied
<1>1. RftInit => AllApplied
  BY DEF RftInit, AllApplied
<1>2. AllApplied /\ [RftNext]_rftVars => AllApplied'
  <2> SUFFICES ASSUME AllApplied, [RftNext]_rftVars PROVE AllApplied'
    OBVIOUS
  <2>1. ASSUME NEW w \in Wells, OpenWell(w) \/ OpenAtRuntime(w) PROVE AllApplied'
    BY <2>1 DEF OpenWell, OpenAtRuntime, Read, AllApplied
  <2>2. ASSUME NEW k \in Keyword, HandleKeyword(k) PROVE AllApplied'
    BY <2>2 DEF HandleKeyword, Read, AllApplied
  <2>3. CASE EndReportStep \/ EndSection \/ ApplyNext \/ StartRun
    BY <2>3 DEF EndReportStep, EndSection, ApplyNext, StartRun, Read, AllApplied
  <2>4. CASE RunReportStep \/ UNCHANGED rftVars
    BY <2>4 DEF RunReportStep, rftVars, AllApplied
  <2> QED BY <2>1, <2>2, <2>3, <2>4 DEF RftNext
<1> QED BY <1>1, <1>2, PTL DEF RftSpec

\* The keyword that decides is the last one of the rules.
LEMMA LastIs ==
  ASSUME RftInv, next > Len(keywords), NEW set \in SUBSET DOMAIN keywords, NEW t, NEW i,
         Decides(set, t, next, i)
  PROVE  Last_(set, t) = i
<1> DEFINE S == {j \in set : keywords[j].step <= t} \cup {0}
<1>1. \A j \in DOMAIN keywords : j \in Int /\ j < next /\ 0 <= j
  BY KeywordTypes
<1>2. i \in S /\ \A j \in S : i >= j /\ j \in Int
  BY <1>1 DEF Decides
<1> HIDE DEF S
<1>3. \A m \in S : (\A j \in S : m >= j) => m = i
  BY <1>2
<1>4. Max(S) = i
  BY <1>2, <1>3 DEF Max
<1> QED BY <1>4 DEF Last_, S

\* The settings of a step are what the last keyword before it asks for.
LEMMA SettingOfStep ==
  ASSUME ConfInv, next > Len(keywords), NEW w \in Wells, NEW t \in Steps
  PROVE  /\ SettingHolds(rftConf[w][t], t) <=> RequestedRft(w, t)
         /\ Plt(w, t) <=> RequestedPlt(w, t)
<1>1. /\ RftInv /\ Setting(w) \in SUBSET DOMAIN keywords /\ Wrftplt(w) \in SUBSET DOMAIN keywords
      /\ \A i \in DOMAIN keywords : keywords[i] \in Keyword
      /\ 0 \notin DOMAIN keywords
  BY KeywordTypes DEF ConfInv
<1>2. SettingHolds(rftConf[w][t], t) <=> RequestedRft(w, t)
  <2>1. PICK i \in Setting(w) \cup {0} : Decides(Setting(w), t, next, i) /\ rftConf[w][t] = RftSetting[i]
    BY DEF ConfInv, Follows
  <2>2. Last_(Setting(w), t) = i
    BY <1>1, <2>1, LastIs
  <2>3. CASE i = 0
    <3>1. rftConf[w][t] = <<"NO", 0>>
      BY <2>1, <2>3 DEF RftSetting
    <3> QED BY <2>2, <2>3, <3>1 DEF SettingHolds, RequestedRft
  <2>4. CASE i \in Wrft
    <3>1. rftConf[w][t] = <<"YES", keywords[i].step>> /\ i # 0
      BY <1>1, <2>1, <2>4 DEF RftSetting, Wrft
    <3> QED BY <2>2, <2>4, <3>1 DEF SettingHolds, RequestedRft
  <2>5. CASE i # 0 /\ i \notin Wrft
    <3>1. i \in Wrftplt(w) /\ keywords[i].rft # "FOPN" /\ keywords[i].name # "WRFT"
          /\ i \in DOMAIN keywords
      BY <1>1, <2>1, <2>5 DEF Setting, Fopn, Wrft
    <3>2. keywords[i].rft \in {"YES", "REPT", "TIMESTEP", "NO"}
      BY <1>1, <3>1, RftAssumption DEF Keyword
    <3>3. rftConf[w][t] = <<keywords[i].rft, keywords[i].step>>
      BY <2>1, <2>5, <3>1 DEF RftSetting
    <3> QED BY <2>2, <2>5, <3>2, <3>3 DEF SettingHolds, RequestedRft
  <2> QED BY <2>3, <2>4, <2>5
<1>3. Plt(w, t) <=> RequestedPlt(w, t)
  <2>1. PICK i \in Wrftplt(w) \cup {0} : Decides(Wrftplt(w), t, next, i) /\ pltConf[w][t] = PltSetting[i]
    BY DEF ConfInv, Follows
  <2>2. Last_(Wrftplt(w), t) = i
    BY <1>1, <2>1, LastIs
  <2>3. CASE i = 0
    <3>1. pltConf[w][t] = <<"NO", 0>>
      BY <2>1, <2>3 DEF PltSetting
    <3> QED BY <2>2, <2>3, <3>1 DEF SettingHolds, Plt, RequestedPlt
  <2>4. CASE i # 0
    <3>1. i \in DOMAIN keywords /\ keywords[i].name # "WRFT"
      BY <1>1, <2>1, <2>4 DEF Wrftplt, Wrft
    <3>2. keywords[i].plt \in {"YES", "REPT", "TIMESTEP", "NO"}
      BY <1>1, <3>1, RftAssumption DEF Keyword
    <3>3. pltConf[w][t] = <<keywords[i].plt, keywords[i].step>>
      BY <2>1, <2>4, <3>1 DEF PltSetting
    <3> QED BY <2>2, <2>4, <3>2, <3>3 DEF SettingHolds, Plt, RequestedPlt
  <2> QED BY <2>3, <2>4
<1> QED BY <1>2, <1>3

\* The openings of a step that count are those of the rules.
LEMMA OpeningOfStep ==
  ASSUME ConfInv, next > Len(keywords), NEW w \in Wells, NEW t \in Steps, t >= first
  PROVE  OutputAtWellopen(w, t) <=> RequestedAtOpening(w, t) \/ RequestedByFopn(w, t)
<1>1. /\ RftInv /\ Fopn(w) \in SUBSET DOMAIN keywords /\ Wrft \in SUBSET DOMAIN keywords
      /\ \A i \in DOMAIN keywords : keywords[i].step \in Steps /\ i < next /\ ~(i >= next)
  BY KeywordTypes DEF ConfInv
<1>2. Never \in Int /\ \A u \in Steps : u \in Int /\ u < Never
  BY StepsAndNever DEF Steps, Never
<1>3. openTime \in Int /\ openName[w] \in Int /\ wellOpen[w] \in Int
  BY <1>1, <1>2, StepsAndNever DEF RftInv, RftTypeOK
<1>4. openTime <= t <=> \E i \in Wrft : keywords[i].step <= t
  <2>1. FirstOf(openTime, Wrft, next)
    BY DEF ConfInv
  <2>2. CASE Wrft = {}
    BY <1>2, <2>1, <2>2 DEF FirstOf
  <2>3. CASE Wrft # {}
    <3>1. /\ \E i \in Wrft : keywords[i].step = openTime
          /\ \A i \in Wrft : openTime <= keywords[i].step
      BY <1>1, <2>1, <2>3 DEF FirstOf
    <3> QED BY <1>1, <1>2, <1>3, <3>1
  <2> QED BY <2>2, <2>3
<1>5. FirstOf(openName[w], Fopn(w), next)
  BY DEF ConfInv
<1>6. CASE Fopn(w) = {}
  <2>1. openName[w] = Never /\ ~RequestedByFopn(w, t)
    BY <1>5, <1>6 DEF FirstOf, RequestedByFopn
  <2>2. wellOpen[w] = t => wellOpen[w] # Never
    BY <1>2
  <2> QED BY <1>2, <1>3, <1>4, <2>1, <2>2 DEF OutputAtWellopen, RequestedAtOpening
<1>7. CASE Fopn(w) # {}
  <2> DEFINE S == {keywords[i].step : i \in Fopn(w)}
  <2>1. /\ \E i \in Fopn(w) : keywords[i].step = openName[w]
        /\ \A i \in Fopn(w) : openName[w] <= keywords[i].step
    BY <1>1, <1>5, <1>7 DEF FirstOf
  <2>2. openName[w] \in S /\ \A m \in S : openName[w] <= m /\ m \in Int
    BY <1>1, <1>2, <2>1
  <2> HIDE DEF S
  <2>3. \A m \in S : (\A j \in S : m <= j) => m = openName[w]
    BY <1>3, <2>2
  <2>4. Min(S) = openName[w]
    BY <2>2, <2>3 DEF Min
  <2>5. RequestedByFopn(w, t) <=> \/ wellOpen[w] <= openName[w] /\ t = openName[w]
                                  \/ wellOpen[w] = t /\ t > openName[w]
    BY <1>7, <2>4 DEF RequestedByFopn, S
  <2>6. wellOpen[w] <= t => wellOpen[w] # Never
    BY <1>2, <1>3
  <2> QED BY <1>2, <1>3, <1>4, <2>5, <2>6 DEF OutputAtWellopen, RequestedAtOpening
<1> QED BY <1>6, <1>7

\* RFT and PLT data are written where the rules over the keywords ask for
\* them, however keywords and openings mix and whatever opens at run time.
THEOREM AsRequested == RftSpec => []WrittenAsRequested
<1>1. ConfInv /\ AllApplied => WrittenAsRequested
  <2> SUFFICES ASSUME ConfInv, AllApplied, phase = "run", NEW w \in Wells,
                      NEW t \in first .. NSteps - 1
               PROVE  Written(w, t) <=>
                        \/ RequestedRft(w, t) \/ RequestedAtOpening(w, t) \/ RequestedByFopn(w, t)
                        \/ /\ RequestedPlt(w, t)
                           /\ \E v \in Wells : \/ RequestedRft(v, t) \/ RequestedAtOpening(v, t)
                                               \/ RequestedByFopn(v, t)
    BY DEF WrittenAsRequested
  <2>1. t \in Steps /\ t >= first /\ next > Len(keywords)
    BY StepsAndNever DEF AllApplied, ConfInv, RftInv, RftTypeOK, Steps
  <2>2. \A v \in Wells : Rft(v, t) <=>
          RequestedRft(v, t) \/ RequestedAtOpening(v, t) \/ RequestedByFopn(v, t)
    BY <2>1, SettingOfStep, OpeningOfStep DEF Rft
  <2>3. Plt(w, t) <=> RequestedPlt(w, t)
    BY <2>1, SettingOfStep
  <2> QED BY <2>1, <2>2, <2>3 DEF Written, Active
<1>2. RftSpec => []ConfInv
  BY ConfInit, ConfNext, PTL DEF RftSpec
<1> QED BY <1>1, <1>2, AllAppliedHolds, PTL
=============================================================================
