---------------------------- MODULE BackfillProofs ---------------------------
(***************************************************************************)
(* Proofs about Backfill, for every calendar, window and number of         *)
(* executions: plans are exact, resuming leaves nothing out, and what the  *)
(* manifest calls DONE is accounted for.                                   *)
(***************************************************************************)
EXTENDS Backfill, TLAPS

\* The outcomes are those of the running execution, once its map has ended.
OutcomesCurrent ==
  /\ phase # "map" => todo = {}
  /\ phase = "map" => outcomes = {}
  /\ phase = "manifest" => outcomes = results

ResultsStaged ==
  phase \in {"map", "manifest", "merge"} => \A f \in Files : DoneOutcome(f) \in results => f \in staging

\* WindowPlanned without the files an execution may yet take DONE from.
PlanSafe == window \subseteq CoveredBy(items \cup doubtful \cup (Done \ Refetching))

BackfillInv == TypeOK /\ OutcomesCurrent /\ ResultsStaged /\ DoneAccounted /\ PlanSafe

\* Months begin and end on days.
LEMMA MonthBounds ==
  ASSUME NEW k \in Months
  PROVE  First(k) \in Nat /\ Last(k) \in Int
BY ConstantsAssumption DEF First, Last, Months

\* A plan covers the days of its window and no others.
LEMMA PlanCovers ==
  ASSUME NEW s \in Days, NEW e \in Days, NEW t \in Nat
  PROVE  CoveredBy(FilesForWindow(s, e, t)) = s..e
<1> DEFINE whole == WholeMonths(s, e, t)
<1>0. s \in Nat /\ e \in Nat
  BY ConstantsAssumption DEF Days
<1>1. ASSUME NEW d \in CoveredBy(FilesForWindow(s, e, t))
      PROVE  d \in s..e
  <2>1. PICK f \in FilesForWindow(s, e, t) : d \in Covers(f)
    BY DEF CoveredBy
  <2>2. CASE \E k \in whole : f = Monthly(k)
    <3>1. PICK k \in whole : f = Monthly(k)
      BY <2>2
    <3>2. d \in First(k)..Last(k)
      BY <2>1, <3>1 DEF Covers, Monthly
    <3>3. k \in Months /\ First(k) >= s /\ Last(k) <= e
      BY <3>1 DEF WholeMonths, MonthsBetween
    <3> QED BY <3>2, <3>3, <1>0, MonthBounds
  <2>3. CASE \E c \in s..e : f = Daily(c)
    BY <2>1, <2>3 DEF Covers, Daily
  <2> QED BY <2>1, <2>2, <2>3 DEF FilesForWindow
<1>2. ASSUME NEW d \in s..e
      PROVE  d \in CoveredBy(FilesForWindow(s, e, t))
  <2>1. CASE \E k \in whole : d \in First(k)..Last(k)
    <3>1. PICK k \in whole : d \in First(k)..Last(k)
      BY <2>1
    <3>2. Monthly(k) \in FilesForWindow(s, e, t)
      BY <3>1 DEF FilesForWindow
    <3>3. d \in Covers(Monthly(k))
      BY <3>1 DEF Covers, Monthly
    <3> QED BY <3>2, <3>3 DEF CoveredBy
  <2>2. CASE \A k \in whole : d \notin First(k)..Last(k)
    <3>1. Daily(d) \in FilesForWindow(s, e, t)
      BY <2>2 DEF FilesForWindow
    <3>2. d \in Covers(Daily(d))
      BY DEF Covers, Daily
    <3> QED BY <3>1, <3>2 DEF CoveredBy
  <2> QED BY <2>1, <2>2
<1> QED BY <1>1, <1>2

\* No day of a plan is in two of its files.
LEMMA PlanDisjoint ==
  ASSUME NEW s \in Days, NEW e \in Days, NEW t \in Nat,
         NEW f \in FilesForWindow(s, e, t), NEW g \in FilesForWindow(s, e, t), f # g
  PROVE  Covers(f) \cap Covers(g) = {}
<1> DEFINE whole == WholeMonths(s, e, t)
           single == {c \in s..e : \A k \in whole : c \notin First(k)..Last(k)}
<1>0. s \in Nat /\ e \in Nat /\ whole \subseteq Months
  BY ConstantsAssumption DEF Days, WholeMonths, MonthsBetween
<1>1. \/ \E k \in whole : f = Monthly(k)
      \/ \E c \in single : f = Daily(c)
  BY DEF FilesForWindow
<1>2. \/ \E k \in whole : g = Monthly(k)
      \/ \E c \in single : g = Daily(c)
  BY DEF FilesForWindow
<1>3. ASSUME NEW k \in whole, NEW c \in single
      PROVE  Covers(Monthly(k)) \cap Covers(Daily(c)) = {}
  BY DEF Covers, Monthly, Daily
<1>4. CASE (\E k \in whole : f = Monthly(k)) /\ (\E k \in whole : g = Monthly(k))
  <2>1. PICK k \in whole, l \in whole : f = Monthly(k) /\ g = Monthly(l)
    BY <1>4
  <2>2. k # l
    BY <2>1
  <2>3. Covers(f) = First(k)..Last(k) /\ Covers(g) = First(l)..Last(l)
    BY <2>1 DEF Covers, Monthly
  <2>4. Last(k) < First(l) \/ Last(l) < First(k)
    BY <2>2, <1>0, ConstantsAssumption
  <2> QED BY <2>3, <2>4, <1>0, MonthBounds
<1>5. CASE (\E k \in whole : f = Monthly(k)) /\ (\E c \in single : g = Daily(c))
  BY <1>3, <1>5
<1>6. CASE (\E c \in single : f = Daily(c)) /\ (\E k \in whole : g = Monthly(k))
  <2>1. PICK k \in whole, c \in single : f = Daily(c) /\ g = Monthly(k)
    BY <1>6
  <2> QED BY <1>3, <2>1
<1>7. CASE (\E c \in single : f = Daily(c)) /\ (\E c \in single : g = Daily(c))
  BY <1>7 DEF Covers, Daily
<1> QED BY <1>1, <1>2, <1>4, <1>5, <1>6, <1>7

\* A plan names archive files.
LEMMA PlanIsFiles ==
  ASSUME NEW s \in Days, NEW e \in Days, NEW t \in Nat
  PROVE  FilesForWindow(s, e, t) \subseteq Files
<1>1. s..e \subseteq Days
  BY ConstantsAssumption DEF Days
<1> QED BY <1>1 DEF FilesForWindow, Files, WholeMonths, MonthsBetween

\* The order of statuses has a least element in every set of them.
LEMMA FirstStatus ==
  ASSUME NEW f \in Files, TypeOK, StatusesOf(f) # {}
  PROVE  /\ Recorded(f) \in StatusesOf(f)
         /\ \A y \in StatusesOf(f) : StatusOrder[Recorded(f)] <= StatusOrder[y]
<1> DEFINE S == StatusesOf(f)
           P(x) == \A y \in S : StatusOrder[x] <= StatusOrder[y]
<1>1. S \subseteq Statuses
  BY DEF TypeOK, Outcome, StatusesOf
<1>2. \E x \in S : P(x)
  <2>1. CASE "DONE" \in S
    BY <1>1, <2>1 DEF StatusOrder, Statuses
  <2>2. CASE "DONE" \notin S /\ "FAILED" \in S
    BY <1>1, <2>2 DEF StatusOrder, Statuses
  <2>3. CASE "DONE" \notin S /\ "FAILED" \notin S
    BY <1>1, <2>3 DEF StatusOrder, Statuses
  <2> QED BY <2>1, <2>2, <2>3
<1>3. Recorded(f) = CHOOSE x \in S : P(x)
  BY DEF Recorded
<1> HIDE DEF S, P
<1>4. Recorded(f) \in S /\ P(Recorded(f))
  BY <1>2, <1>3
<1> QED BY <1>4 DEF S, P

\* A DONE outcome decides the row.
LEMMA RecordedDone ==
  ASSUME NEW f \in Files, TypeOK, DoneOutcome(f) \in outcomes
  PROVE  Recorded(f) = "DONE"
<1>1. "DONE" \in StatusesOf(f)
  BY DEF DoneOutcome, StatusesOf
<1>2. StatusesOf(f) \subseteq Statuses
  BY DEF TypeOK, Outcome, StatusesOf
<1>3. Recorded(f) \in Statuses /\ StatusOrder[Recorded(f)] <= StatusOrder["DONE"]
  BY <1>1, <1>2, FirstStatus
<1> QED BY <1>3 DEF StatusOrder, Statuses

\* A file without an outcome keeps its row.
LEMMA RecordedKept ==
  ASSUME NEW f \in Files, \A o \in outcomes : o.file # f
  PROVE  Recorded(f) = manifest[f]
<1>1. StatusesOf(f) = {}
  BY DEF StatusesOf
<1> QED BY <1>1 DEF Recorded

\* And without one no row becomes DONE.
LEMMA NotRecordedDone ==
  ASSUME NEW f \in Files, TypeOK, DoneOutcome(f) \notin outcomes, manifest[f] # "DONE"
  PROVE  Recorded(f) # "DONE"
<1>1. "DONE" \notin StatusesOf(f)
  BY DEF DoneOutcome, TypeOK, Outcome, StatusesOf
<1>2. CASE StatusesOf(f) = {}
  BY <1>2 DEF Recorded
<1>3. CASE StatusesOf(f) # {}
  BY <1>1, <1>3, FirstStatus
<1> QED BY <1>2, <1>3

\* A row holds a status or nothing.
LEMMA RecordedType ==
  ASSUME NEW f \in Files, TypeOK
  PROVE  Recorded(f) \in Statuses \cup {"NONE"}
<1>1. StatusesOf(f) \subseteq Statuses /\ manifest[f] \in Statuses \cup {"NONE"}
  BY DEF TypeOK, Outcome, StatusesOf
<1>2. CASE StatusesOf(f) = {}
  BY <1>1, <1>2 DEF Recorded
<1>3. CASE StatusesOf(f) # {}
  BY <1>1, <1>3, FirstStatus
<1> QED BY <1>2, <1>3

\* A file covers days.
LEMMA CoversNat ==
  ASSUME NEW f \in Files
  PROVE  Covers(f) \subseteq Nat
<1>1. CASE \E k \in Months : f = Monthly(k)
  BY <1>1, MonthBounds DEF Covers, Monthly
<1>2. CASE \E d \in Days : f = Daily(d)
  BY <1>2, ConstantsAssumption DEF Covers, Daily, Days
<1> QED BY <1>1, <1>2 DEF Files

\* Every step keeps the types.
LEMMA TypeStep == TypeOK /\ [Next]_vars => TypeOK'
<1> SUFFICES ASSUME TypeOK, [Next]_vars PROVE TypeOK'
  OBVIOUS
<1>1. CASE NextDay
  BY <1>1 DEF NextDay, TypeOK, run
<1>2. ASSUME NEW w \in Windows, NEW fresh \in BOOLEAN, Seed(w[1], w[2], fresh)
      PROVE  TypeOK'
  <2>1. w[1] \in Days /\ w[2] \in Days
    BY ConstantsAssumption
  <2>2. w[1]..w[2] \subseteq Days
    BY <2>1, ConstantsAssumption DEF Days
  <2>3. FilesForWindow(w[1], w[2], today) \subseteq Files
    BY <2>1, PlanIsFiles DEF TypeOK
  <2>4. items' \subseteq Files
    BY <1>2, <2>3 DEF Seed, Plan, TypeOK
  <2>5. doubtful' \subseteq Files
    BY <1>2, <2>3 DEF Seed
  <2> QED BY <1>2, <2>2, <2>4, <2>5 DEF Seed, TypeOK, run
<1>3. CASE StartExecution
  BY <1>3 DEF StartExecution, TypeOK
<1>4. CASE ClearStaging
  BY <1>4 DEF ClearStaging, TypeOK
<1>5. ASSUME NEW f \in Files, LoadDone(f)
      PROVE  TypeOK'
  BY <1>5 DEF LoadDone, Returns, TypeOK, Outcome, Statuses
<1>6. ASSUME NEW f \in Files, LoadRefused(f)
      PROVE  TypeOK'
  BY <1>6 DEF LoadRefused, Returns, TypeOK, Outcome, Statuses
<1>7. ASSUME NEW f \in Files, LoadDies(f)
      PROVE  TypeOK'
  BY <1>7 DEF LoadDies, TypeOK, run
<1>8. ASSUME NEW f \in Files, StrayPuts(f)
      PROVE  TypeOK'
  BY <1>8 DEF StrayPuts, TypeOK, run
<1>9. CASE MapEnds
  BY <1>9 DEF MapEnds, TypeOK
<1>10. CASE MergeOutcomes
  <2>1. manifest' \in [Files -> Statuses \cup {"NONE"}]
    BY <1>10, RecordedType DEF MergeOutcomes
  <2> QED BY <1>10, <2>1 DEF MergeOutcomes, TypeOK
<1>11. CASE MergeTier
  <2>1. CoveredBy(staging) \subseteq Nat
    BY CoversNat DEF CoveredBy, TypeOK
  <2> QED BY <1>11, <2>1 DEF MergeTier, TypeOK
<1>12. CASE ExecutionFails
  <2>1. orphans' \subseteq Files
    BY <1>12 DEF ExecutionFails, Done, TypeOK
  <2>2. strays' \subseteq Files
    BY <1>12 DEF ExecutionFails, TypeOK
  <2>3. outcomes' \subseteq Outcome
    BY <1>12 DEF ExecutionFails, TypeOK
  <2> QED BY <1>12, <2>1, <2>2, <2>3 DEF ExecutionFails, TypeOK
<1>13. CASE UNCHANGED vars
  BY <1>13 DEF vars, TypeOK
<1> QED BY <1>1, <1>2, <1>3, <1>4, <1>5, <1>6, <1>7, <1>8, <1>9, <1>10, <1>11, <1>12, <1>13 DEF Next

\* The outcomes a merge reads are what this map collected.
LEMMA CurrentStep ==
  ASSUME TypeOK, OutcomesCurrent, [Next]_vars
  PROVE  OutcomesCurrent'
<1>1. CASE ClearStaging
  BY <1>1 DEF ClearStaging, OutcomesCurrent
<1>2. CASE MapEnds
  BY <1>2 DEF MapEnds, OutcomesCurrent
<1>3. CASE ExecutionFails
  BY <1>3 DEF ExecutionFails, OutcomesCurrent
<1>4. CASE StartExecution
  BY <1>4 DEF StartExecution, OutcomesCurrent
<1>5. ASSUME NEW f \in Files, LoadDone(f) \/ LoadRefused(f)
      PROVE  OutcomesCurrent'
  <2>1. UNCHANGED <<phase, outcomes>> /\ f \in todo
    BY <1>5 DEF LoadDone, LoadRefused
  <2> QED BY <2>1 DEF OutcomesCurrent
<1>6. CASE MergeOutcomes \/ MergeTier
  BY <1>6 DEF MergeOutcomes, MergeTier, OutcomesCurrent
<1>7. CASE UNCHANGED <<phase, outcomes, results, todo>>
  BY <1>7 DEF OutcomesCurrent
<1> QED BY <1>1, <1>2, <1>3, <1>4, <1>5, <1>6, <1>7 DEF Next, NextDay, Seed, LoadDies, StrayPuts,
        vars, run

\* The put comes before the outcome.
LEMMA StagedStep ==
  ASSUME TypeOK, ResultsStaged, [Next]_vars
  PROVE  ResultsStaged'
<1>1. CASE NextDay
  BY <1>1 DEF NextDay, run, ResultsStaged
<1>2. ASSUME NEW w \in Windows, NEW fresh \in BOOLEAN, Seed(w[1], w[2], fresh)
      PROVE  ResultsStaged'
  BY <1>2 DEF Seed, run, ResultsStaged
<1>3. CASE StartExecution
  BY <1>3 DEF StartExecution, ResultsStaged
<1>4. CASE ClearStaging
  BY <1>4 DEF ClearStaging, ResultsStaged
<1>5. ASSUME NEW f \in Files, LoadDone(f)
      PROVE  ResultsStaged'
  BY <1>5 DEF LoadDone, Returns, ResultsStaged, DoneOutcome
<1>6. ASSUME NEW f \in Files, LoadRefused(f)
      PROVE  ResultsStaged'
  BY <1>6 DEF LoadRefused, Returns, ResultsStaged, DoneOutcome
<1>7. ASSUME NEW f \in Files, LoadDies(f) \/ StrayPuts(f)
      PROVE  ResultsStaged'
  BY <1>7 DEF LoadDies, StrayPuts, run, ResultsStaged
<1>8. CASE MapEnds \/ MergeOutcomes \/ MergeTier
  BY <1>8 DEF MapEnds, MergeOutcomes, MergeTier, ResultsStaged
<1>9. CASE ExecutionFails
  BY <1>9 DEF ExecutionFails, ResultsStaged
<1>10. CASE UNCHANGED vars
  BY <1>10 DEF vars, ResultsStaged
<1> QED BY <1>1, <1>2, <1>3, <1>4, <1>5, <1>6, <1>7, <1>8, <1>9, <1>10 DEF Next

\* What the manifest calls DONE is merged, about to be, or its execution failed.
LEMMA AccountedStep ==
  ASSUME TypeOK, OutcomesCurrent, ResultsStaged, DoneAccounted, [Next]_vars
  PROVE  DoneAccounted'
<1>1. CASE NextDay
  BY <1>1 DEF NextDay, run, DoneAccounted, Done
<1>2. ASSUME NEW w \in Windows, NEW fresh \in BOOLEAN, Seed(w[1], w[2], fresh)
      PROVE  DoneAccounted'
  BY <1>2 DEF Seed, run, DoneAccounted, Done
<1>3. CASE StartExecution
  BY <1>3 DEF StartExecution, DoneAccounted, Done
<1>4. CASE ClearStaging
  BY <1>4 DEF ClearStaging, DoneAccounted, Done
<1>5. ASSUME NEW f \in Files, LoadDone(f) \/ LoadRefused(f)
      PROVE  DoneAccounted'
  BY <1>5 DEF LoadDone, LoadRefused, Returns, DoneAccounted, Done
<1>6. ASSUME NEW f \in Files, LoadDies(f) \/ StrayPuts(f)
      PROVE  DoneAccounted'
  BY <1>6 DEF LoadDies, StrayPuts, run, DoneAccounted, Done
<1>7. CASE MapEnds
  BY <1>7 DEF MapEnds, DoneAccounted, Done
<1>8. CASE MergeOutcomes
  <2>1. SUFFICES ASSUME NEW f \in Files, Recorded(f) = "DONE"
                 PROVE  \/ Covers(f) \subseteq merged
                        \/ f \in staging /\ DoneOutcome(f) \in results
                        \/ f \in orphans
    BY <1>8 DEF MergeOutcomes, DoneAccounted, Done
  <2>2. CASE DoneOutcome(f) \in results
    BY <1>8, <2>2 DEF MergeOutcomes, ResultsStaged
  <2>3. CASE DoneOutcome(f) \notin results
    <3>1. DoneOutcome(f) \notin outcomes
      BY <1>8, <2>3 DEF MergeOutcomes, OutcomesCurrent
    <3>2. manifest[f] = "DONE"
      BY <2>1, <3>1, NotRecordedDone
    <3> QED BY <2>3, <3>2 DEF DoneAccounted, Done
  <2> QED BY <2>2, <2>3
<1>9. CASE MergeTier
  <2>1. SUFFICES ASSUME NEW f \in Done
                 PROVE  Covers(f) \subseteq merged' \/ f \in orphans'
    BY <1>9 DEF MergeTier, DoneAccounted, Done
  <2>2. CASE Covers(f) \subseteq merged
    BY <1>9, <2>2 DEF MergeTier
  <2>3. CASE f \in orphans
    BY <1>9, <2>3 DEF MergeTier
  <2>4. CASE f \in staging
    BY <1>9, <2>4 DEF MergeTier, CoveredBy
  <2> QED BY <2>1, <2>2, <2>3, <2>4 DEF DoneAccounted
<1>10. CASE ExecutionFails
  BY <1>10 DEF ExecutionFails, DoneAccounted, Done
<1>11. CASE UNCHANGED vars
  BY <1>11 DEF vars, DoneAccounted, Done
<1> QED BY <1>1, <1>2, <1>3, <1>4, <1>5, <1>6, <1>7, <1>8, <1>9, <1>10, <1>11 DEF Next

\* What a row loses, a merge took from it, over a file of the running execution.
LEMMA RowsKept ==
  ASSUME TypeOK, OutcomesCurrent, [Next]_vars, NEW f \in Files, manifest'[f] # manifest[f]
  PROVE  /\ f \in Refetching /\ manifest'[f] = Recorded(f)
         /\ DoneOutcome(f) \in results => manifest'[f] = "DONE"
         /\ MergeOutcomes
<1>1. MergeOutcomes
  BY DEF Next, NextDay, Seed, StartExecution, ClearStaging, LoadDone, LoadRefused, LoadDies,
        StrayPuts, MapEnds, MergeTier, ExecutionFails, vars
<1>2. outcomes = results /\ manifest'[f] = Recorded(f) /\ phase = "manifest"
  BY <1>1 DEF MergeOutcomes, OutcomesCurrent
<1>3. \E o \in results : o.file = f
  BY <1>2, RecordedKept
<1>4. f \in Refetching
  BY <1>2, <1>3 DEF Refetching
<1>5. DoneOutcome(f) \in results => manifest'[f] = "DONE"
  BY <1>2, RecordedDone
<1> QED BY <1>1, <1>2, <1>4, <1>5

\* The items of a map shrink as they end, and are gone when it is recorded.
LEMMA RefetchingShrinks ==
  ASSUME TypeOK, OutcomesCurrent, [Next]_vars, ~ClearStaging
  PROVE  Refetching' \subseteq Refetching
<1>1. CASE NextDay \/ (\E w \in Windows, fresh \in BOOLEAN : Seed(w[1], w[2], fresh))
  BY <1>1 DEF NextDay, Seed, run, Refetching
<1>2. CASE StartExecution \/ MergeTier \/ ExecutionFails
  BY <1>2 DEF StartExecution, MergeTier, ExecutionFails, Refetching
<1>3. ASSUME NEW f \in Files, LoadDone(f) \/ LoadRefused(f)
      PROVE  Refetching' \subseteq Refetching
  <2>1. PICK status : Returns(f, status)
    BY <1>3 DEF LoadDone, LoadRefused
  <2>2. f \in todo /\ phase' = phase
    BY <1>3 DEF LoadDone, LoadRefused
  <2> QED BY <2>1, <2>2 DEF Returns, Refetching
<1>4. ASSUME NEW f \in Files, LoadDies(f) \/ StrayPuts(f)
      PROVE  Refetching' \subseteq Refetching
  BY <1>4 DEF LoadDies, StrayPuts, run, Refetching
<1>5. CASE MapEnds \/ MergeOutcomes
  BY <1>5 DEF MapEnds, MergeOutcomes, Refetching
<1>6. CASE UNCHANGED vars
  BY <1>6 DEF vars, Refetching
<1> QED BY <1>1, <1>2, <1>3, <1>4, <1>5, <1>6 DEF Next

\* What a seed leaves out of the list is DONE and stays DONE, or is doubtful.
LEMMA WindowStep ==
  ASSUME TypeOK, OutcomesCurrent, PlanSafe, [Next]_vars
  PROVE  PlanSafe'
<1>1. ASSUME NEW w \in Windows, NEW fresh \in BOOLEAN, Seed(w[1], w[2], fresh)
      PROVE  PlanSafe'
  <2> DEFINE files == FilesForWindow(w[1], w[2], today)
  <2>1. w[1] \in Days /\ w[2] \in Days
    BY ConstantsAssumption
  <2>2. CoveredBy(files) = w[1]..w[2]
    BY <2>1, PlanCovers DEF TypeOK
  <2>3. PICK already \in IF fresh THEN {{}} ELSE DoneKeys :
          /\ items' = IF Plan(files, already) = {} THEN items ELSE Plan(files, already)
          /\ doubtful' = files \cap already \cap Refetching
    BY <1>1 DEF Seed
  <2>4. already \subseteq Done
    BY <2>3 DEF DoneKeys
  <2>5. UNCHANGED <<manifest, phase, todo, results>> /\ window' = CoveredBy(files)
    BY <1>1, <2>2 DEF Seed, run
  <2>6. Done' = Done /\ Refetching' = Refetching
    BY <2>5 DEF Done, Refetching
  <2>7. files \subseteq items' \cup already
    BY <2>3 DEF Plan
  <2>8. files \subseteq items' \cup doubtful' \cup (Done \ Refetching)
    BY <2>3, <2>4, <2>7
  <2> QED BY <2>5, <2>6, <2>8 DEF PlanSafe, CoveredBy
<1>2. CASE ClearStaging
  <2>1. UNCHANGED <<items, window, doubtful, manifest>> /\ Refetching' = items
    BY <1>2 DEF ClearStaging, Refetching
  <2>2. Done' = Done
    BY <2>1 DEF Done
  <2>3. items \cup doubtful \cup (Done \ Refetching)
          \subseteq items' \cup doubtful' \cup (Done' \ Refetching')
    BY <2>1, <2>2
  <2> QED BY <2>1, <2>3 DEF PlanSafe, CoveredBy
<1>3. CASE UNCHANGED <<items, window, doubtful>> /\ ~ClearStaging
  <2>1. Refetching' \subseteq Refetching
    BY <1>3, RefetchingShrinks
  <2>2. Done \ Refetching \subseteq Done'
    BY RowsKept DEF Done
  <2>3. items \cup doubtful \cup (Done \ Refetching)
          \subseteq items' \cup doubtful' \cup (Done' \ Refetching')
    BY <1>3, <2>1, <2>2
  <2> QED BY <1>3, <2>3 DEF PlanSafe, CoveredBy
<1> QED BY <1>1, <1>2, <1>3 DEF Next, NextDay, StartExecution, LoadDone,
        LoadRefused, LoadDies, StrayPuts, MapEnds, MergeOutcomes, MergeTier, ExecutionFails, vars

\* The inductive invariant.
LEMMA InvHolds == Spec => []BackfillInv
<1>1. Init => BackfillInv
  <2> SUFFICES ASSUME Init PROVE BackfillInv
    OBVIOUS
  <2>1. TypeOK
    BY DEF Init, TypeOK
  <2>2. OutcomesCurrent /\ ResultsStaged /\ DoneAccounted
    BY DEF Init, OutcomesCurrent, Done, ResultsStaged, DoneAccounted
  <2>3. PlanSafe
    BY DEF Init, PlanSafe
  <2> QED BY <2>1, <2>2, <2>3 DEF BackfillInv
<1>2. BackfillInv /\ [Next]_vars => BackfillInv'
  BY TypeStep, CurrentStep, StagedStep, AccountedStep, WindowStep DEF BackfillInv
<1> QED BY <1>1, <1>2, PTL DEF Spec

\* Plans are exact (files_for_window): on any date, for any calendar and any
\* window, each day is covered by exactly one file of the plan and no other day is.
THEOREM PlansAreExact == Spec => []PlanExact
<1>1. TypeOK => PlanExact
  <2> SUFFICES ASSUME TypeOK, NEW s \in Days, NEW e \in Days, s <= e
               PROVE  /\ CoveredBy(FilesForWindow(s, e, today)) = s..e
                      /\ \A f, g \in FilesForWindow(s, e, today) :
                           f # g => Covers(f) \cap Covers(g) = {}
    BY DEF PlanExact
  <2>1. today \in Nat
    BY DEF TypeOK
  <2>2. CoveredBy(FilesForWindow(s, e, today)) = s..e
    BY <2>1, PlanCovers
  <2>3. \A f, g \in FilesForWindow(s, e, today) : f # g => Covers(f) \cap Covers(g) = {}
    BY <2>1, PlanDisjoint
  <2> QED BY <2>2, <2>3
<1> QED BY <1>1, InvHolds, PTL DEF BackfillInv

\* Resuming leaves nothing out (seed.main, plan): whatever was retried, failed,
\* fetched again or truncated, the days last asked for are on the work list or in
\* DONE files, but for files an older list was fetching again when it was made.
THEOREM ResumeLeavesNothingOut == Spec => []WindowPlanned
<1>1. BackfillInv => WindowPlanned
  <2>1. items \cup doubtful \cup (Done \ Refetching) \subseteq items \cup Done \cup doubtful
    OBVIOUS
  <2> QED BY <2>1 DEF BackfillInv, PlanSafe, WindowPlanned, CoveredBy
<1> QED BY <1>1, InvHolds, PTL

\* What the manifest calls DONE is merged, staged for this execution's merge, or
\* belongs to an execution that failed in between (Loader._load, MergeOutcomes).
THEOREM DoneIsAccountedFor == Spec => []DoneAccounted
BY InvHolds, PTL DEF BackfillInv

\* The manifest tells how the last fetch of a file ended
\* (merge_manifest_outcomes.sql): DONE where a try succeeded, and DONE is lost
\* only to a run that fetched the file again and never got it.
THEOREM ManifestFollowsFetches == Spec => LastFetchRecorded
<1>1. ASSUME BackfillInv, [Next]_vars, NEW f \in Files
      PROVE  /\ manifest[f] = "DONE" /\ manifest'[f] # "DONE" =>
                  f \in Refetching /\ DoneOutcome(f) \notin results
             /\ manifest'[f] # manifest[f] /\ DoneOutcome(f) \in results =>
                  manifest'[f] = "DONE"
  BY <1>1, RowsKept DEF BackfillInv
<1>2. BackfillInv /\ [Next]_vars =>
        [\A f \in Files :
           /\ manifest[f] = "DONE" /\ manifest'[f] # "DONE" =>
                f \in Refetching /\ DoneOutcome(f) \notin results
           /\ manifest'[f] # manifest[f] /\ DoneOutcome(f) \in results =>
                manifest'[f] = "DONE"]_vars
  BY <1>1
<1> QED BY <1>2, InvHolds, PTL DEF Spec, LastFetchRecorded
=============================================================================
