------------------------------ MODULE Backfill -------------------------------
(***************************************************************************)
(* The archive backfill (awsnative/backfill): planning a window of days    *)
(* into archive files, loading them into staging, recording the outcomes   *)
(* in the manifest, and merging what is staged.                            *)
(*                                                                         *)
(* One instrument and one tier: tiers have their own items file, done keys *)
(* and staging prefix.  The steps of the state machine and their order are *)
(* the ones awsnative/render.py and awsnative/backfill/loader.py describe; *)
(* one execution runs at a time.  Days and months are numbered; a file is  *)
(* abstracted to the days it covers, which is what a merge adds.           *)
(***************************************************************************)
EXTENDS Integers, FiniteSets

CONSTANTS
  LastDay,     \* days are 0..LastDay
  NMonths,     \* months are 1..NMonths
  MonthStart,  \* first day of each month, and of the one after the last
  Lag,         \* MONTHLY_PUBLICATION_LAG_DAYS
  PageRows,    \* rows of the manifest one page of results holds
  MaxToday,    \* bound: the calendar
  MaxRuns,     \* bound: executions
  MaxStrays,   \* bound: Lambdas that outlive their execution
  Windows      \* bound: the <<start, end>> windows that are asked for

Days   == 0..LastDay
Months == 1..NMonths

First(k) == MonthStart[k]
Last(k)  == MonthStart[k + 1] - 1

ASSUME ConstantsAssumption ==
  /\ LastDay \in Nat /\ NMonths \in Nat /\ Lag \in Nat /\ PageRows \in Nat
  /\ MaxToday \in Nat /\ MaxRuns \in Nat /\ MaxStrays \in Nat /\ Windows \subseteq Days \X Days
  /\ MonthStart \in [1..NMonths + 1 -> Nat]
  \* every day lies in a month, and months do not overlap
  /\ \A d \in Days : \E k \in Months : First(k) <= d /\ d <= Last(k)
  /\ \A k, l \in Months : k # l => Last(k) < First(l) \/ Last(l) < First(k)

Monthly(k) == [granularity |-> "monthly", period |-> k]
Daily(d)   == [granularity |-> "daily", period |-> d]
Files      == {Monthly(k) : k \in Months} \cup {Daily(d) : d \in Days}

Covers(f) == IF f.granularity = "monthly" THEN First(f.period)..Last(f.period) ELSE {f.period}
CoveredBy(S) == UNION {Covers(f) : f \in S}

Statuses == {"DONE", "FAILED", "SKIPPED_NO_DATA"}
Outcome  == [file : Files, status : Statuses]
DoneOutcome(f) == [file |-> f, status |-> "DONE"]

VARIABLES
  today,      \* the UTC date
  items,      \* the work list in S3
  window,     \* the days the last seed was asked for
  manifest,   \* status of each file in backfill_manifest
  outcomes,   \* rows of backfill_outcomes: what one execution wrote
  staging,    \* files in the staging prefix
  merged,     \* days the tier's merge has put into Silver or Gold
  runs,       \* executions started
  phase,      \* the state of the running execution
  todo,       \* items the map still has to end; any of them may be loading
  results,    \* outcomes the map has collected
  strays,     \* files a Lambda of an earlier, failed execution has yet to put
  \* history, read by the properties only
  orphans,    \* files a failed execution recorded as DONE and did not merge
  doubtful    \* files the last plan left out as DONE while an execution refetched them

vars == <<today, items, window, manifest, outcomes, staging, merged,
          runs, phase, todo, results, strays, orphans, doubtful>>
run == <<runs, phase, todo, results>>

TypeOK ==
  /\ today \in Nat
  /\ items \subseteq Files /\ window \subseteq Days
  /\ manifest \in [Files -> Statuses \cup {"NONE"}]
  /\ outcomes \subseteq Outcome /\ results \subseteq Outcome
  /\ staging \subseteq Files /\ merged \subseteq Nat /\ runs \in Nat
  /\ phase \in {"idle", "clear", "map", "manifest", "merge"}
  /\ todo \subseteq Files
  /\ strays \subseteq Files /\ orphans \subseteq Files /\ doubtful \subseteq Files

Init ==
  /\ today = 0 /\ items = {} /\ window = {}
  /\ manifest = [f \in Files |-> "NONE"]
  /\ outcomes = {} /\ staging = {} /\ merged = {}
  /\ runs = 0 /\ phase = "idle" /\ todo = {} /\ results = {}
  /\ strays = {} /\ orphans = {} /\ doubtful = {}
-----------------------------------------------------------------------------
NextDay ==
  /\ today < MaxToday
  /\ today' = today + 1
  /\ UNCHANGED <<items, window, manifest, outcomes, staging, merged, run, strays, orphans, doubtful>>

\* The archive may serve a file once its days are over (external).
MayExist(f) == \A d \in Covers(f) : d < today

MonthsBetween(s, e) == {k \in Months : First(k) <= e /\ s <= Last(k)}

\* Any published month the window touches.
WholeMonths_Touching(s, e, t) == {k \in MonthsBetween(s, e) : Last(k) + Lag <= t}

\* The months one file stands for: covered by the window, and old enough.
WholeMonths(s, e, t) ==
  {k \in MonthsBetween(s, e) : First(k) >= s /\ Last(k) <= e /\ Last(k) + Lag <= t}

FilesForWindow(s, e, t) ==
  {Monthly(k) : k \in WholeMonths(s, e, t)} \cup
  {Daily(d) : d \in {c \in s..e : \A k \in WholeMonths(s, e, t) : c \notin First(k)..Last(k)}}

Done == {f \in Files : manifest[f] = "DONE"}

\* fetch_rows returns one page, in no order the query states.
DoneKeys == {S \in SUBSET Done : Cardinality(S) = PageRows \/ (S = Done /\ Cardinality(S) < PageRows)}

\* Files the running execution has yet to record: the map's items.
Refetching ==
  IF phase \in {"map", "manifest"} THEN todo \cup {o.file : o \in results} ELSE {}

\* Skips every file the manifest knows.
Plan_AnyStatus(files, already) == files \ {f \in Files : manifest[f] # "NONE"}

Plan(files, already) == files \ already

\* seed.main: the items file is overwritten, or left as it is when there is
\* nothing to do.  It may run beside an execution; none after the last one ends.
Seed(s, e, fresh) ==
  /\ s <= e /\ (runs < MaxRuns \/ phase # "idle")
  /\ \E already \in IF fresh THEN {{}} ELSE DoneKeys :
       LET files   == FilesForWindow(s, e, today)
           planned == Plan(files, already)
       IN  /\ items' = IF planned = {} THEN items ELSE planned
           /\ doubtful' = files \cap already \cap Refetching
  /\ window' = s..e
  /\ UNCHANGED <<today, manifest, outcomes, staging, merged, run, strays, orphans>>
-----------------------------------------------------------------------------
StartExecution ==
  /\ phase = "idle" /\ items # {} /\ runs < MaxRuns
  /\ phase' = "clear" /\ runs' = runs + 1
  /\ UNCHANGED <<today, items, window, manifest, outcomes, staging, merged,
                 todo, results, strays, orphans, doubtful>>

\* clear_staging empties the staging prefixes and the outcomes of the last run go
\* with them (external); the map then reads the items file.
ClearStaging ==
  /\ phase = "clear"
  /\ staging' = {} /\ outcomes' = {}
  /\ phase' = "map" /\ todo' = items /\ results' = {}
  /\ UNCHANGED <<today, runs, items, window, manifest, merged, strays, orphans, doubtful>>

\* A load returned an outcome; the map may try the item again all the same.
Returns(f, status) ==
  /\ todo' \in {todo, todo \ {f}}
  /\ results' = results \cup {[file |-> f, status |-> status]}

\* The outcome without the put.
LoadDone_NotPut(f) ==
  /\ f \in todo /\ MayExist(f)
  /\ Returns(f, "DONE")
  /\ UNCHANGED <<today, runs, items, window, manifest, outcomes, merged, staging, phase, strays, orphans, doubtful>>

\* Verified and parsed: put, then DONE.
LoadDone(f) ==
  /\ f \in todo /\ MayExist(f)
  /\ staging' = staging \cup {f}
  /\ Returns(f, "DONE")
  /\ UNCHANGED <<today, runs, items, window, manifest, outcomes, merged, phase, strays, orphans, doubtful>>

\* A digest, zip or row that is bad, or no object: nothing is put.
LoadRefused(f) ==
  /\ f \in todo
  /\ Returns(f, "SKIPPED_NO_DATA") \/ (MayExist(f) /\ Returns(f, "FAILED"))
  /\ UNCHANGED <<today, runs, items, window, manifest, outcomes, staging, merged, phase, strays, orphans, doubtful>>

\* Any other exception, or a Lambda that is killed, after its put; the map tries
\* again.  Before the put it leaves nothing.
LoadDies(f) ==
  /\ f \in todo /\ MayExist(f)
  /\ staging' = staging \cup {f}
  /\ UNCHANGED <<today, items, window, manifest, outcomes, merged, run, strays, orphans, doubtful>>

\* ResultWriter writes what the map collected under backfill_outcomes.
MapEnds ==
  /\ phase = "map" /\ todo = {}
  /\ outcomes' = outcomes \cup results
  /\ phase' = "manifest"
  /\ UNCHANGED <<today, runs, items, window, manifest, staging, merged, todo, results, strays, orphans, doubtful>>

StatusesOf(f) == {o.status : o \in {p \in outcomes : p.file = f}}

\* A failure that would hide another try's success.
StatusOrder_Descending == [DONE |-> 3, FAILED |-> 2, SKIPPED_NO_DATA |-> 1]

\* Alphabetical.
StatusOrder == [DONE |-> 1, FAILED |-> 2, SKIPPED_NO_DATA |-> 3]

\* The first of a file's outcomes by status; without one the row stays.
Recorded(f) ==
  IF StatusesOf(f) = {} THEN manifest[f]
  ELSE CHOOSE x \in StatusesOf(f) : \A y \in StatusesOf(f) : StatusOrder[x] <= StatusOrder[y]

\* merge_manifest_outcomes.sql: the run's outcome replaces whatever the row held,
\* DONE included; the state may run it again.
MergeOutcomes ==
  /\ phase = "manifest"
  /\ manifest' = [f \in Files |-> Recorded(f)]
  /\ phase' \in {"manifest", "merge"}
  /\ UNCHANGED <<today, runs, items, window, outcomes, staging, merged, todo, results, strays, orphans, doubtful>>

\* The tier merges read all of staging; the last state of the execution.
MergeTier ==
  /\ phase = "merge"
  /\ merged' = merged \cup CoveredBy(staging)
  /\ phase' \in {"merge", "idle"}
  /\ orphans' = {f \in orphans : ~(Covers(f) \subseteq merged')}
  /\ UNCHANGED <<today, runs, items, window, manifest, outcomes, staging, todo, results, strays, doubtful>>

\* A state is out of retries, or somebody stops the execution; ResultWriter may
\* have written what the map had, and some of the Lambdas in flight will still put.
ExecutionFails ==
  /\ phase # "idle"
  /\ phase' = "idle" /\ todo' = {} /\ results' = {}
  /\ \E S \in SUBSET {f \in todo : MayExist(f)} :
       /\ Cardinality(strays \cup S) <= MaxStrays
       /\ strays' = strays \cup S
  /\ \/ phase = "map" /\ outcomes' = outcomes \cup results
     \/ UNCHANGED outcomes
  /\ orphans' = orphans \cup {f \in Done : /\ DoneOutcome(f) \in results
                                           /\ ~(Covers(f) \subseteq merged)}
  /\ UNCHANGED <<today, runs, items, window, manifest, staging, merged, doubtful>>

\* A Lambda of an execution that failed stages its file.
StrayPuts(f) ==
  /\ f \in strays
  /\ strays' = strays \ {f}
  /\ staging' = staging \cup {f}
  /\ UNCHANGED <<today, items, window, manifest, outcomes, merged, run, orphans, doubtful>>

Next ==
  \/ NextDay
  \/ \E w \in Windows, fresh \in BOOLEAN : Seed(w[1], w[2], fresh)
  \/ StartExecution \/ ClearStaging
  \/ \E f \in Files : \/ LoadDone(f) \/ LoadRefused(f) \/ LoadDies(f)
                      \/ StrayPuts(f)
  \/ MapEnds \/ MergeOutcomes \/ MergeTier \/ ExecutionFails

Spec == Init /\ [][Next]_vars
-----------------------------------------------------------------------------
\* The plan of any window, on any date, covers each of its days by exactly one
\* file and no other day (tiers.py, rules 1 and 2; files_for_window): this is
\* what makes a backfilled window mean its days.
PlanExact ==
  \A s, e \in Days : s <= e =>
    LET files == FilesForWindow(s, e, today)
    IN  /\ CoveredBy(files) = s..e
        /\ \A f, g \in files : f # g => Covers(f) \cap Covers(g) = {}

\* Resuming leaves nothing out (seed.main, merge_manifest_outcomes.sql): the days
\* of the window last asked for are in the work list or in files recorded DONE,
\* through retries, --fresh runs, failures that replace a DONE and truncated
\* result pages.  The exception is a file that was DONE when the plan left it out
\* and that an execution with an older list was fetching again.
WindowPlanned == window \subseteq CoveredBy(items \cup Done \cup doubtful)

\* A file recorded DONE is merged, or this execution has staged it for the merge
\* that comes, or its execution failed after recording it (Loader._load puts
\* before it returns DONE; merge_manifest_outcomes.sql runs before the tier merges).
DoneAccounted ==
  \A f \in Done : \/ Covers(f) \subseteq merged
                  \/ f \in staging /\ DoneOutcome(f) \in results /\ phase \in {"manifest", "merge"}
                  \/ f \in orphans

\* The manifest tells how the last fetch of a file ended (merge_manifest_outcomes.sql,
\* seed --fresh): an item one of whose tries succeeded is recorded DONE, whatever
\* its other tries returned, and DONE is taken back only by a run that fetched the
\* file again and never got it.
LastFetchRecorded ==
  [][\A f \in Files :
       /\ manifest[f] = "DONE" /\ manifest'[f] # "DONE" =>
            f \in Refetching /\ DoneOutcome(f) \notin results
       /\ manifest'[f] # manifest[f] /\ DoneOutcome(f) \in results => manifest'[f] = "DONE"]_vars
=============================================================================
