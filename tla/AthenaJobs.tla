------------------------------ MODULE AthenaJobs ------------------------------
(***************************************************************************)
(* The programs that talk to Athena through AthenaRunner                   *)
(* (src/awsnative/athena.py): the DDL of the Iceberg tables (ddl.py), a    *)
(* file of verification queries (query.py) and the Lambda that ends the    *)
(* micro-batch and both enrichment merges (monitoring/collect.py).         *)
(*                                                                         *)
(* A query execution belongs to Athena, not to the caller: start_and_wait  *)
(* that gives up, a killed Lambda or a client that raises leave it         *)
(* running, and it may still commit after its caller has reported failure, *)
(* or while the next attempt of the same job runs the same statement.      *)
(*                                                                         *)
(* Athena is external: it is what the code's error handling assumes of it. *)
(***************************************************************************)
EXTENDS Naturals, FiniteSets

CONSTANTS Ddl,          \* runs of awsnative.ddl, "safe to re-run", that may overlap
          Queries,      \* runs of awsnative.query
          Collectors,   \* state machines whose last state is the Lambda
          NFiles,       \* Len(DDL_FILES)
          NStatements,  \* statements of the file query.py is given
          Kpis,         \* _METRIC_COLUMNS
          MaxPolls,     \* timeout / poll_interval
          MaxAttempts   \* attempts of the Lambda (Retry.MaxAttempts + 1)

Jobs == Ddl \cup Queries \cup Collectors

ASSUME JobsDistinct ==
  /\ Ddl \cap Queries = {} /\ Ddl \cap Collectors = {}
  /\ Queries \cap Collectors = {}
ASSUME JobBounds == {NFiles, NStatements, MaxPolls, MaxAttempts} \subseteq Nat \ {0}

VARIABLES job,         \* the program's own state, per job
          executions,  \* every query execution Athena was ever asked for
          tables,      \* the tables of DDL_FILES that exist, by position
          reading,     \* the rows a collector fetched: its non-NULL KPIs
          published,   \* what CloudWatch holds
          history      \* the rows of native_health_metrics

athenaVars == <<job, executions, tables, reading, published, history>>

-----------------------------------------------------------------------------
\* What a job sends, in order: one statement per DDL file, the statements of
\* the file, or the SELECT and the INSERT of the collector.
Length(j) == IF j \in Ddl THEN NFiles ELSE IF j \in Queries THEN NStatements ELSE 2

\* QueryOutcome and _TERMINAL.  "exists" is FAILED with AlreadyExists in the
\* reason, which ddl.py tells apart.
Terminal == {"SUCCEEDED", "FAILED", "exists"}

IsInsert(j, at) == j \in Collectors /\ at = 2

AthenaInit ==
  /\ job = [j \in Jobs |-> [phase |-> "idle", at |-> 1, waited |-> 0,
                            attempt |-> 1, failures |-> 0, code |-> 0]]
  /\ executions = <<>>   \* no execution yet
  /\ tables = {}
  /\ reading = [j \in Collectors |-> {}]
  /\ published = {}
  /\ history = {}

-----------------------------------------------------------------------------
(* Athena. *)

Settle(q, state) == executions' = [executions EXCEPT ![q].state = state]

\* A commit: CREATE TABLE makes its table, the INSERT appends the values it
\* was given when it was started, any other statement only reads.
Commits(q) ==
  /\ executions[q].state = "RUNNING"
  /\ Settle(q, "SUCCEEDED")
  /\ tables' = IF q.job \in Ddl THEN tables \cup {q.at} ELSE tables
  /\ history' = IF IsInsert(q.job, q.at)
                THEN history \cup {[by |-> q.job, attempt |-> q.attempt,
                                    cells |-> executions[q].cells]}
                ELSE history
  /\ UNCHANGED <<job, reading, published>>

\* A syntax error, a lost optimistic commit, a cancelled query: no effect.
\* IF NOT EXISTS does not always hide that the Iceberg table is there.
Fails(q) ==
  /\ executions[q].state = "RUNNING"
  /\ \/ Settle(q, "FAILED")
     \/ q.job \in Ddl /\ q.at \in tables /\ Settle(q, "exists")
  /\ UNCHANGED <<job, tables, reading, published, history>>

-----------------------------------------------------------------------------
(* How a job goes on after a statement. *)

Exit(j, code) == [job[j] EXCEPT !.phase = "exited", !.code = code]

\* The statement counted as done: the next one, or the end of main.
Advance(j, failures) ==
  IF job[j].at < Length(j)
  THEN [job[j] EXCEPT !.phase = "idle", !.at = @ + 1, !.failures = failures]
  ELSE [Exit(j, IF failures > 0 THEN 1 ELSE 0) EXCEPT !.failures = failures]

\* The handler raised: Step Functions retries the Lambda from its start.
Raise(j) ==
  IF job[j].attempt < MaxAttempts
  THEN [job[j] EXCEPT !.phase = "idle", !.at = 1, !.attempt = @ + 1]
  ELSE Exit(j, 1)

\* AthenaError out of execute: ddl.py stops, query.py counts and goes on, the
\* handler does not catch it.
OnError(j) ==
  IF j \in Ddl THEN Exit(j, 1)
  ELSE IF j \in Queries THEN Advance(j, job[j].failures + 1)
  ELSE Raise(j)

\* execute returned: a collector has its rows and publishes next.
OnSuccess(j) ==
  IF j \in Collectors /\ job[j].at = 1
  THEN [job[j] EXCEPT !.phase = "publish"]
  ELSE Advance(j, job[j].failures)

-----------------------------------------------------------------------------
(* AthenaRunner. *)

\* An attempt starts each of its statements once, which is the execution's id.
Execution(j) == [job |-> j, attempt |-> job[j].attempt, at |-> job[j].at]

\* start_query_execution.  The INSERT carries the values already fetched.
StartQuery(j) ==
  /\ job[j].phase = "idle"
  /\ executions' =
       [q \in DOMAIN executions \cup {Execution(j)} |->
          IF q = Execution(j)
          THEN [state |-> "RUNNING",
                cells |-> IF IsInsert(j, job[j].at) THEN reading[j] ELSE {}]
          ELSE executions[q]]
  /\ job' = [job EXCEPT ![j].phase = "waiting", ![j].waited = 0]
  /\ UNCHANGED <<tables, reading, published, history>>

\* get_query_execution finds a terminal state.
Finish(j, state) ==
  /\ job' = [job EXCEPT ![j] =
       IF state = "SUCCEEDED" \/ state = "exists" THEN OnSuccess(j) ELSE OnError(j)]
  /\ IF state = "SUCCEEDED" /\ j \in Collectors /\ job[j].at = 1
     THEN \E kpis \in SUBSET Kpis : reading' = [reading EXCEPT ![j] = kpis]
     ELSE UNCHANGED reading

\* The poll after the budget is spent raises and leaves the query running.
TimedOut_Never(j) == FALSE
TimedOut_Succeeds(j) ==
  /\ job[j].waited >= MaxPolls
  /\ job' = [job EXCEPT ![j] = OnSuccess(j)]
TimedOut(j) ==
  /\ job[j].waited >= MaxPolls
  /\ job' = [job EXCEPT ![j] = OnError(j)]

SleepPoll(j) ==
  /\ job[j].waited < MaxPolls
  /\ job' = [job EXCEPT ![j].waited = @ + 1]

Poll(j) ==
  /\ job[j].phase = "waiting"
  /\ LET state == executions[Execution(j)].state IN
     \/ state \in Terminal /\ Finish(j, state)
     \/ state \notin Terminal /\ TimedOut(j) /\ UNCHANGED reading
     \/ state \notin Terminal /\ SleepPoll(j) /\ UNCHANGED reading
  /\ UNCHANGED <<executions, tables, published, history>>

\* metric_data and put_metric_data: a NULL cell is no entry; without entries there is no call.
Publish(j) ==
  /\ job[j].phase = "publish"
  /\ published' = published \cup {<<j, job[j].attempt, k>> : k \in reading[j]}
  /\ job' = [job EXCEPT ![j].phase = "idle", ![j].at = 2]
  /\ UNCHANGED <<executions, tables, reading, history>>

\* A boto3 client raises, or Lambda reaches its own timeout: nothing catches
\* it, and a query that was started stays with Athena.
Dies(j) ==
  /\ job[j].phase # "exited"
  /\ job' = [job EXCEPT ![j] = IF j \in Collectors THEN Raise(j) ELSE Exit(j, 1)]
  /\ UNCHANGED <<executions, tables, reading, published, history>>

JobStep(j) == StartQuery(j) \/ Poll(j) \/ Publish(j)

AthenaNext ==
  \/ \E j \in Jobs : JobStep(j) \/ Dies(j)
  \/ \E q \in DOMAIN executions : Commits(q) \/ Fails(q)

AthenaSpec == AthenaInit /\ [][AthenaNext]_athenaVars

-----------------------------------------------------------------------------
(* Properties. *)

Row(cells) == [by : Collectors, attempt : 1..MaxAttempts, cells : cells]

AthenaTypeOK ==
  /\ \A j \in Jobs :
       /\ job[j].phase \in {"idle", "waiting", "publish", "exited"}
       /\ job[j].at \in 1..Length(j) /\ job[j].waited \in 0..MaxPolls
       /\ job[j].attempt \in 1..MaxAttempts
       /\ job[j].failures \in 0..NStatements /\ job[j].code \in {0, 1}
  /\ tables \subseteq 1..NFiles
  /\ history \subseteq Row(SUBSET Kpis)

\* Tables appear in the order of DDL_FILES, with no hole: concurrent runs,
\* timed-out statements that commit later and re-runs included, a table is
\* created only when every earlier one exists (ddl.py's loop).
TablesInOrder == \A t \in tables : 1..t \subseteq tables

\* "Tables ready" is said only when every table exists, although a failed
\* statement may be one that found its table, and a created table one whose
\* statement was reported as failed (ddl.py's AlreadyExists branch).
ReadyMeansReady ==
  \A j \in Ddl : job[j].phase = "exited" /\ job[j].code = 0 => tables = 1..NFiles

\* query.py goes on after a failure and still exits 0 only when each
\* statement of the file ran once and succeeded.
QueryVerdict ==
  \A j \in Queries : job[j].phase = "exited" /\ job[j].code = 0 =>
    \A s \in 1..NStatements :
      LET runs == {q \in DOMAIN executions : q.job = j /\ q.at = s}
      IN Cardinality(runs) = 1 /\ \A q \in runs : executions[q].state = "SUCCEEDED"

\* A row of native_health_metrics holds exactly the values CloudWatch was
\* given for that attempt: retries never mix two readings, and no row reports
\* what was not published (health_metrics_handler's order and insert_statement
\* built from the rows already fetched).
HistoryWasPublished ==
  \A r \in history : {k \in Kpis : <<r.by, r.attempt, k>> \in published} = r.cells

\* A retried collector leaves an extra row at worst: one row per attempt, and
\* the attempt that ended well has its row.
OneRowPerAttempt ==
  /\ \A r, s \in history : r.by = s.by /\ r.attempt = s.attempt => r = s
  /\ \A j \in Collectors : job[j].phase = "exited" /\ job[j].code = 0 =>
       \E r \in history : r.by = j /\ r.attempt = job[j].attempt

\* Every job ends, even when Athena leaves a query running for ever: the poll
\* loop's own budget is what guarantees it (start_and_wait).
JobsEnd == \A j \in Jobs : job[j].phase = "waiting" ~> job[j].phase # "waiting"

\* A verdict means what it says, over retries, re-runs and statements that
\* commit after they were given up (ddl.py, query.py, collect.py): the tables of
\* "Tables ready" are there, a query that exits 0 ran, and the history holds
\* what was published, once per attempt.
JobsHonest ==
  /\ TablesInOrder /\ ReadyMeansReady /\ QueryVerdict
  /\ HistoryWasPublished /\ OneRowPerAttempt
=============================================================================
