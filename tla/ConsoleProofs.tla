---------------------------- MODULE ConsoleProofs ----------------------------
(***************************************************************************)
(* The programs that talk to Athena say what is true, for any number of    *)
(* runs, statements, polls and attempts, and provisioning may be           *)
(* interrupted anywhere, for any ACLs, topics and number of incidents; a   *)
(* measure of a day of bars is the same at every grain, for any trades;    *)
(* the dashboard says what was read, whatever its queries answer; and a    *)
(* file of SQL is cut where its statements end, however long it is.        *)
(***************************************************************************)
EXTENDS AthenaJobs, SqlText, Provisioning, Bars, Dashboard, Sums, SequenceTheorems, FiniteSetTheorems, TLAPS

\* The programs and the executions, as the code builds them.
States == {"RUNNING", "SUCCEEDED", "FAILED", "exists"}

JobRecord ==
  [phase : {"idle", "waiting", "publish", "exited"}, at : Nat, waited : Nat,
   attempt : 1..MaxAttempts, failures : Nat, code : {0, 1}]

ExecutionId == [job : Jobs, attempt : 1..MaxAttempts, at : Nat]

ExecutionTypes ==
  \A q \in DOMAIN executions :
    /\ q \in ExecutionId /\ q.at \in 1..Length(q.job)
    /\ executions[q] \in [state : States, cells : SUBSET Kpis]
    /\ executions[q].state = "exists" => q.job \in Ddl

JobTypes ==
  /\ job \in [Jobs -> JobRecord]
  /\ reading \in [Collectors -> SUBSET Kpis]
  /\ tables \subseteq 1..NFiles

\* What holds of a job j that is in the state r: it has asked for what it has come
\* past, once, and for nothing else.
Asked(j, r) ==
  /\ r.at \in 1..Length(j)
  /\ \A q \in DOMAIN executions : q.job = j =>
       /\ q.attempt <= r.attempt
       /\ q.attempt = r.attempt => q.at <= r.at /\ (r.phase = "idle" => q.at < r.at)
  /\ r.phase = "waiting" =>
       [job |-> j, attempt |-> r.attempt, at |-> r.at] \in DOMAIN executions
  /\ r.phase = "publish" => j \in Collectors /\ r.at = 1
  /\ j \notin Collectors => r.attempt = 1

\* ddl.py: a statement is sent when every earlier table exists.
DdlFits(r) ==
  /\ r.phase # "exited" => 1 .. r.at - 1 \subseteq tables
  /\ r.phase = "exited" /\ r.code = 0 => tables = 1..NFiles

\* query.py: without a failure so far, every statement sent and passed succeeded.
Succeeded(j, s) ==
  LET q == [job |-> j, attempt |-> 1, at |-> s]
  IN q \in DOMAIN executions /\ executions[q].state = "SUCCEEDED"

QueryFits(j, r) ==
  /\ r.phase # "exited" /\ r.failures = 0 => \A s \in 1 .. r.at - 1 : Succeeded(j, s)
  /\ r.phase = "exited" /\ r.code = 0 => \A s \in 1 .. NStatements : Succeeded(j, s)

\* collect.py: what an attempt publishes is what it read, cells, and nothing is
\* published before that.
Published(j, a) == {k \in Kpis : <<j, a, k>> \in published}

CollectFits(j, r, cells) ==
  /\ \A a \in 1..MaxAttempts : a > r.attempt => Published(j, a) = {}
  /\ r.phase # "exited" /\ r.at = 1 => Published(j, r.attempt) = {}
  /\ r.phase # "exited" /\ r.at = 2 => Published(j, r.attempt) = cells
  /\ r.phase = "exited" /\ r.code = 0 =>
       \E h \in history : h.by = j /\ h.attempt = r.attempt

JobFits(j, r, cells) ==
  /\ Asked(j, r)
  /\ j \in Ddl => DdlFits(r)
  /\ j \in Queries => QueryFits(j, r)
  /\ j \in Collectors => CollectFits(j, r, cells)

\* A statement of ddl.py was sent after its predecessors' tables existed.
DdlOrder ==
  \A q \in DOMAIN executions : q.job \in Ddl =>
    /\ 1 .. q.at - 1 \subseteq tables
    /\ executions[q].state \in {"SUCCEEDED", "exists"} => q.at \in tables

\* The history is what the INSERTs that committed carried, and each carries what
\* its attempt published.
RowOf(q) == [by |-> q.job, attempt |-> q.attempt, cells |-> executions[q].cells]

HistoryInv ==
  /\ \A q \in DOMAIN executions : IsInsert(q.job, q.at) =>
       /\ executions[q].cells = Published(q.job, q.attempt)
       /\ executions[q].state = "SUCCEEDED" => RowOf(q) \in history
  /\ \A h \in history : \E q \in DOMAIN executions :
       IsInsert(q.job, q.at) /\ executions[q].state = "SUCCEEDED" /\ h = RowOf(q)

Reading(j) == IF j \in Collectors THEN reading[j] ELSE {}

AthenaInv ==
  /\ JobTypes /\ ExecutionTypes
  /\ \A j \in Jobs : JobFits(j, job[j], Reading(j))
  /\ TablesInOrder /\ DdlOrder /\ HistoryInv

-----------------------------------------------------------------------------
\* A job has at least one statement, and the two of a collector are its limit.
LEMMA Lengths ==
  /\ \A j \in Jobs : Length(j) \in Nat \ {0}
  /\ \A j \in Collectors : Length(j) = 2 /\ j \notin Ddl /\ j \notin Queries
  /\ \A j \in Ddl : Length(j) = NFiles /\ j \notin Queries /\ j \notin Collectors
  /\ \A j \in Queries : Length(j) = NStatements /\ j \notin Ddl /\ j \notin Collectors
  /\ MaxAttempts \in Nat \ {0} /\ MaxPolls \in Nat \ {0} /\ NFiles \in Nat \ {0}
  /\ NStatements \in Nat \ {0}
  BY JobsDistinct, JobBounds DEF Length, Jobs

\* Nothing has been asked for yet.
LEMMA AthenaStarts == AthenaInit => AthenaInv
<1> SUFFICES ASSUME AthenaInit PROVE AthenaInv
  OBVIOUS
<1>1. DOMAIN executions = {} /\ tables = {} /\ published = {} /\ history = {}
  BY DEF AthenaInit
<1>2. JobTypes
  BY Lengths DEF AthenaInit, JobTypes, JobRecord
<1>3. ASSUME NEW j \in Jobs PROVE JobFits(j, job[j], Reading(j))
  <2>1. job[j] = [phase |-> "idle", at |-> 1, waited |-> 0, attempt |-> 1, failures |-> 0, code |-> 0]
    BY DEF AthenaInit
  <2>2. Asked(j, job[j])
    BY <1>1, <2>1, Lengths DEF Asked
  <2>3. DdlFits(job[j]) /\ QueryFits(j, job[j])
    BY <1>1, <2>1, Lengths DEF DdlFits, QueryFits
  <2>4. CollectFits(j, job[j], Reading(j))
    BY <1>1, <2>1, Lengths DEF CollectFits, Published
  <2> QED
    BY <2>2, <2>3, <2>4 DEF JobFits
<1>4. ExecutionTypes /\ TablesInOrder /\ DdlOrder /\ HistoryInv
  BY <1>1 DEF ExecutionTypes, TablesInOrder, DdlOrder, HistoryInv
<1> QED
  BY <1>2, <1>3, <1>4 DEF AthenaInv

-----------------------------------------------------------------------------
\* A job that goes on alone keeps the invariant when its new state fits.
LEMMA MoveFits ==
  ASSUME AthenaInv, NEW j \in Jobs, NEW r \in JobRecord,
         job' = [job EXCEPT ![j] = r],
         UNCHANGED <<executions, tables, published, history>>,
         reading' \in [Collectors -> SUBSET Kpis],
         \A i \in Collectors : i # j => reading'[i] = reading[i],
         JobFits(j, r, IF j \in Collectors THEN reading'[j] ELSE {})
  PROVE  AthenaInv'
<1>1. JobTypes' /\ ExecutionTypes'
  BY DEF AthenaInv, JobTypes, ExecutionTypes
<1>2. TablesInOrder' /\ DdlOrder' /\ HistoryInv'
  BY DEF AthenaInv, TablesInOrder, DdlOrder, HistoryInv, Published, RowOf
<1>3. ASSUME NEW i \in Jobs PROVE JobFits(i, job[i], Reading(i))'
  <2> DEFINE s == job'[i]
             c == Reading(i)'
  <2>1. JobFits(i, s, c)
    <3>1. CASE i = j
      BY <3>1 DEF AthenaInv, JobTypes, Reading
    <3>2. CASE i # j
      <4>1. s = job[i] /\ c = Reading(i)
        BY <3>2 DEF AthenaInv, JobTypes, Reading
      <4> QED
        BY <4>1 DEF AthenaInv
    <3> QED
      BY <3>1, <3>2
  <2>2. Asked(i, s) => Asked(i, job[i])'
    BY DEF Asked
  <2>3. DdlFits(s) => DdlFits(job[i])'
    BY DEF DdlFits
  <2>4. QueryFits(i, s) => QueryFits(i, job[i])'
    BY DEF QueryFits, Succeeded
  <2>5. CollectFits(i, s, c) => CollectFits(i, job[i], Reading(i))'
    BY DEF CollectFits, Published
  <2> QED
    BY <2>1, <2>2, <2>3, <2>4, <2>5 DEF JobFits
<1> QED
  BY <1>1, <1>2, <1>3 DEF AthenaInv
-----------------------------------------------------------------------------
\* The fields of a job's state.
LEMMA JobFields ==
  ASSUME AthenaInv, NEW j \in Jobs
  PROVE  /\ job[j] \in JobRecord /\ JobFits(j, job[j], Reading(j))
         /\ job[j].at \in Nat /\ job[j].attempt \in 1..MaxAttempts /\ job[j].attempt \in Nat
         /\ job[j].failures \in Nat /\ job[j].waited \in Nat
         /\ job[j].code \in {0, 1} /\ job[j].at \in 1..Length(j)
  BY Lengths DEF AthenaInv, JobTypes, JobRecord, JobFits, Asked

\* A job that stops with status 1 claims nothing.
LEMMA ExitFits ==
  ASSUME AthenaInv, NEW j \in Jobs, NEW cells
  PROVE  Exit(j, 1) \in JobRecord /\ JobFits(j, Exit(j, 1), cells)
<1> DEFINE r == Exit(j, 1)
<1>1. /\ r.phase = "exited" /\ r.code = 1 /\ r.at = job[j].at /\ r.attempt = job[j].attempt
      /\ r \in JobRecord
  BY JobFields DEF Exit, JobRecord
<1> HIDE DEF r
<1>2. Asked(j, job[j]) /\ (j \in Collectors => CollectFits(j, job[j], Reading(j)))
  BY JobFields DEF JobFits
<1>3. Asked(j, r)
  BY <1>1, <1>2 DEF Asked
<1>4. DdlFits(r) /\ QueryFits(j, r)
  BY <1>1 DEF DdlFits, QueryFits
<1>5. j \in Collectors => CollectFits(j, r, cells)
  BY <1>1, <1>2 DEF CollectFits
<1>6. r \in JobRecord /\ JobFits(j, r, cells)
  BY <1>1, <1>3, <1>4, <1>5 DEF JobFits
<1> QED
  BY <1>6 DEF r

\* A collector that raises starts an attempt for which nothing is asked or
\* published yet.
LEMMA RaiseFits ==
  ASSUME AthenaInv, NEW j \in Collectors, NEW cells
  PROVE  Raise(j) \in JobRecord /\ JobFits(j, Raise(j), cells)
<1>0. j \in Jobs
  BY DEF Jobs
<1>1. CASE job[j].attempt < MaxAttempts
  <2> DEFINE r == Raise(j)
  <2>1. /\ r.phase = "idle" /\ r.at = 1 /\ r.attempt = job[j].attempt + 1 /\ r \in JobRecord
    <3>1. r = [job[j] EXCEPT !.phase = "idle", !.at = 1, !.attempt = @ + 1]
      BY <1>1 DEF Raise
    <3>2. job[j].attempt + 1 \in 1..MaxAttempts
      BY <1>0, <1>1, JobFields, Lengths
    <3>3. job[j] \in JobRecord
      BY <1>0, JobFields
    <3> HIDE DEF r
    <3>4. r.phase = "idle" /\ r.at = 1 /\ r.attempt = job[j].attempt + 1
      BY <3>1, <3>3 DEF JobRecord
    <3>5. r \in JobRecord
      BY <3>1, <3>2, <3>3 DEF JobRecord
    <3> QED
      BY <3>4, <3>5
  <2> HIDE DEF r
  <2>2. Asked(j, job[j]) /\ CollectFits(j, job[j], Reading(j))
    BY <1>0, JobFields DEF JobFits
  <2>3. job[j].attempt \in Nat /\ r.attempt \in 1..MaxAttempts
    BY <1>0, <2>1, JobFields DEF JobRecord
  <2>4. \A q \in DOMAIN executions : q.job = j => q.attempt < r.attempt
    <3> SUFFICES ASSUME NEW q \in DOMAIN executions, q.job = j PROVE q.attempt < r.attempt
      OBVIOUS
    <3>1. q.attempt \in Nat
      BY Lengths DEF AthenaInv, ExecutionTypes, ExecutionId
    <3>2. q.attempt <= job[j].attempt
      BY <2>2 DEF Asked
    <3> QED
      BY <2>1, <2>3, <3>1, <3>2
  <2>4a. \A q \in DOMAIN executions : q.attempt \in Nat
    BY Lengths DEF AthenaInv, ExecutionTypes, ExecutionId
  <2>5. Asked(j, r)
    <3>1. \A q \in DOMAIN executions : q.job = j =>
            /\ q.attempt <= r.attempt /\ q.attempt # r.attempt
      BY <2>1, <2>3, <2>4, <2>4a
    <3> QED
      BY <2>1, <3>1, Lengths DEF Asked
  <2>6. \A a \in 1..MaxAttempts : a >= r.attempt => Published(j, a) = {}
    BY <2>1, <2>2, <2>3, Lengths DEF CollectFits
  <2>7. CollectFits(j, r, cells)
    BY <2>1, <2>3, <2>6, Lengths DEF CollectFits
  <2>8. r \in JobRecord /\ JobFits(j, r, cells)
    BY <2>1, <2>5, <2>7, Lengths DEF JobFits
  <2> QED
    BY <2>8 DEF r
<1>2. CASE ~(job[j].attempt < MaxAttempts)
  BY <1>0, <1>2, ExitFits DEF Raise
<1> QED
  BY <1>1, <1>2

\* query.py that counts a failure owes nothing of its earlier statements.
LEMMA CountsFits ==
  ASSUME AthenaInv, NEW j \in Queries, NEW cells
  PROVE  LET r == Advance(j, job[j].failures + 1)
         IN  r \in JobRecord /\ JobFits(j, r, cells)
<1> DEFINE r == Advance(j, job[j].failures + 1)
<1>0. j \in Jobs /\ j \notin Ddl /\ j \notin Collectors
  BY Lengths DEF Jobs
<1>1. /\ r \in JobRecord /\ r.failures = job[j].failures + 1 /\ r.attempt = job[j].attempt
      /\ \/ job[j].at < Length(j) /\ r.phase = "idle" /\ r.at = job[j].at + 1
         \/ r.phase = "exited" /\ r.code = 1 /\ r.at = job[j].at
  <2>1. job[j].failures + 1 \in Nat /\ job[j].failures + 1 > 0 /\ job[j].at + 1 \in Nat
    BY <1>0, JobFields
  <2> QED
    BY <1>0, <2>1, JobFields DEF Advance, Exit, JobRecord
<1> HIDE DEF r
<1>2. Asked(j, job[j]) /\ job[j].at \in Nat /\ job[j].failures \in Nat
  BY <1>0, JobFields DEF JobFits
<1>3. \A q \in DOMAIN executions : q.at \in Nat
  BY DEF AthenaInv, ExecutionTypes, ExecutionId
<1>4. Asked(j, r)
  <2>1. r.at \in 1..Length(j)
    BY <1>0, <1>1, <1>2, JobFields, Lengths
  <2>2. \A q \in DOMAIN executions : q.job = j =>
          /\ q.attempt <= r.attempt
          /\ q.attempt = r.attempt => q.at <= r.at /\ (r.phase = "idle" => q.at < r.at)
    BY <1>1, <1>2, <1>3 DEF Asked
  <2> QED
    BY <1>0, <1>1, <1>2, <2>1, <2>2 DEF Asked
<1>5. QueryFits(j, r)
  BY <1>1, <1>2 DEF QueryFits
<1>6. r \in JobRecord /\ JobFits(j, r, cells)
  BY <1>0, <1>1, <1>4, <1>5 DEF JobFits
<1> QED
  BY <1>6 DEF r

\* Whatever a job does about an error, its new state fits.
LEMMA ErrorFits ==
  ASSUME AthenaInv, NEW j \in Jobs, NEW cells
  PROVE  OnError(j) \in JobRecord /\ JobFits(j, OnError(j), cells)
<1>1. CASE j \in Ddl
  BY <1>1, ExitFits DEF OnError
<1>2. CASE j \in Queries
  BY <1>2, CountsFits, Lengths DEF OnError
<1>3. CASE j \in Collectors
  BY <1>3, RaiseFits, Lengths DEF OnError
<1> QED
  BY <1>1, <1>2, <1>3 DEF Jobs

\* The statement of a job that waits succeeded, or found its table.
Settled(j) ==
  /\ job[j].phase = "waiting"
  /\ \/ executions[Execution(j)].state = "SUCCEEDED"
     \/ executions[Execution(j)].state = "exists" /\ j \in Ddl

\* The execution a waiting job waits for is the one of its statement.
LEMMA WaitsFor ==
  ASSUME AthenaInv, NEW j \in Jobs, job[j].phase = "waiting"
  PROVE  /\ Execution(j) \in DOMAIN executions
         /\ Execution(j).job = j /\ Execution(j).attempt = job[j].attempt
         /\ Execution(j).at = job[j].at
         /\ executions[Execution(j)].state \in States
         /\ executions[Execution(j)].state = "exists" => j \in Ddl
<1>1. Execution(j) \in DOMAIN executions
  BY JobFields DEF JobFits, Asked, Execution
<1>2. /\ Execution(j).job = j /\ Execution(j).attempt = job[j].attempt
      /\ Execution(j).at = job[j].at
  BY DEF Execution
<1> QED
  BY <1>1, <1>2 DEF AthenaInv, ExecutionTypes

\* A DDL run advances over a table that is there.
LEMMA DdlAdvances ==
  ASSUME AthenaInv, NEW j \in Ddl, Settled(j)
  PROVE  1..job[j].at \subseteq tables
<1>0. j \in Jobs
  BY DEF Jobs
<1>1. 1 .. job[j].at - 1 \subseteq tables
  BY <1>0, JobFields DEF JobFits, DdlFits, Settled
<1>2. job[j].at \in tables
  BY <1>0, WaitsFor DEF AthenaInv, DdlOrder, Settled
<1>3. job[j].at \in Nat
  BY <1>0, JobFields
<1>4. \A t \in 1..job[j].at : t = job[j].at \/ t \in 1 .. job[j].at - 1
  BY <1>3
<1> QED
  BY <1>1, <1>2, <1>4

\* The next statement, or the end: what a success entitles the job to.
LEMMA AdvanceFits ==
  ASSUME AthenaInv, NEW j \in Jobs, Settled(j), NEW cells, cells = Reading(j),
         j \in Collectors => job[j].at # 1
  PROVE  LET r == Advance(j, job[j].failures)
         IN  r \in JobRecord /\ JobFits(j, r, cells)
<1> DEFINE r == Advance(j, job[j].failures)
<1>1. /\ r \in JobRecord /\ r.failures = job[j].failures /\ r.attempt = job[j].attempt
      /\ \/ job[j].at < Length(j) /\ r.phase = "idle" /\ r.at = job[j].at + 1
         \/ /\ ~(job[j].at < Length(j)) /\ r.phase = "exited" /\ r.at = job[j].at
            /\ r.code = IF job[j].failures > 0 THEN 1 ELSE 0
  <2>1. job[j].failures \in Nat /\ job[j].at + 1 \in Nat
    BY JobFields
  <2> QED
    BY <2>1, JobFields DEF Advance, Exit, JobRecord
<1> HIDE DEF r
<1>2. /\ Asked(j, job[j]) /\ job[j].at \in 1..Length(j) /\ job[j].at \in Nat
      /\ job[j].failures \in Nat /\ Length(j) \in Nat /\ job[j].attempt \in 1..MaxAttempts
  BY JobFields, Lengths DEF JobFits
<1>3. \A q \in DOMAIN executions : q.at \in Nat
  BY DEF AthenaInv, ExecutionTypes, ExecutionId
<1>4. Asked(j, r)
  <2>1. r.at \in 1..Length(j)
    BY <1>1, <1>2
  <2>2. \A q \in DOMAIN executions : q.job = j =>
          /\ q.attempt <= r.attempt
          /\ q.attempt = r.attempt => q.at <= r.at /\ (r.phase = "idle" => q.at < r.at)
    BY <1>1, <1>2, <1>3 DEF Asked
  <2> QED
    BY <1>1, <1>2, <2>1, <2>2 DEF Asked
<1>5. \/ r.phase = "idle" /\ r.at - 1 = job[j].at
      \/ r.phase = "exited" /\ job[j].at = Length(j)
  BY <1>1, <1>2
<1>6. ASSUME j \in Ddl PROVE DdlFits(r)
  <2>1. 1..job[j].at \subseteq tables
    BY <1>6, DdlAdvances
  <2>2. Length(j) = NFiles /\ tables \subseteq 1..NFiles
    BY <1>6, Lengths DEF AthenaInv, JobTypes
  <2> QED
    BY <1>5, <2>1, <2>2 DEF DdlFits
<1>7. ASSUME j \in Queries PROVE QueryFits(j, r)
  <2>1. j \notin Ddl /\ j \notin Collectors /\ Length(j) = NStatements
    BY <1>7, Lengths
  <2>2. QueryFits(j, job[j]) /\ job[j].phase = "waiting" /\ job[j].attempt = 1
    BY <1>2, <1>7, <2>1, JobFields DEF JobFits, Settled, Asked
  <2>3. Execution(j) = [job |-> j, attempt |-> 1, at |-> job[j].at]
    BY <2>2 DEF Execution
  <2>4. Succeeded(j, job[j].at)
    BY <2>1, <2>2, <2>3, WaitsFor DEF Succeeded, Settled
  <2>5. \A s \in 1..job[j].at : s = job[j].at \/ s \in 1 .. job[j].at - 1
    BY <1>2
  <2>6. job[j].failures = 0 => \A s \in 1..job[j].at : Succeeded(j, s)
    BY <2>2, <2>4, <2>5 DEF QueryFits
  <2>7. r.phase = "exited" /\ r.code = 0 => job[j].failures = 0
    BY <1>1, <1>2
  <2> QED
    BY <1>1, <1>5, <2>1, <2>6, <2>7 DEF QueryFits
<1>8. ASSUME j \in Collectors PROVE CollectFits(j, r, cells)
  <2>1. Length(j) = 2 /\ j \notin Ddl /\ job[j].at = 2
    BY <1>2, <1>8, Lengths
  <2>2. r.phase = "exited" /\ r.at = 2
    BY <1>1, <1>2, <2>1
  <2>3. CollectFits(j, job[j], Reading(j))
    BY <1>8, JobFields DEF JobFits
  <2>4. IsInsert(j, job[j].at) /\ executions[Execution(j)].state = "SUCCEEDED"
    BY <1>8, <2>1 DEF IsInsert, Settled
  <2>5. RowOf(Execution(j)) \in history
    BY <2>4, WaitsFor DEF AthenaInv, HistoryInv, Settled
  <2>6. RowOf(Execution(j)).by = j /\ RowOf(Execution(j)).attempt = r.attempt
    BY <1>1, WaitsFor DEF RowOf, Settled
  <2>7. \A a \in 1..MaxAttempts : a > r.attempt => Published(j, a) = {}
    BY <1>1, <2>3 DEF CollectFits
  <2> QED
    BY <2>2, <2>5, <2>6, <2>7 DEF CollectFits
<1>9. r \in JobRecord /\ JobFits(j, r, cells)
  BY <1>1, <1>4, <1>6, <1>7, <1>8 DEF JobFits
<1> QED
  BY <1>9 DEF r

\* execute returned: a collector goes on to publish, with whatever it read.
LEMMA SuccessFits ==
  ASSUME AthenaInv, NEW j \in Jobs, Settled(j), NEW cells,
         ~(j \in Collectors /\ job[j].at = 1) => cells = Reading(j)
  PROVE  OnSuccess(j) \in JobRecord /\ JobFits(j, OnSuccess(j), cells)
<1>1. CASE j \in Collectors /\ job[j].at = 1
  <2> DEFINE r == OnSuccess(j)
  <2>1. /\ r \in JobRecord /\ r.phase = "publish" /\ r.at = 1 /\ r.attempt = job[j].attempt
    BY <1>1, JobFields DEF OnSuccess, JobRecord
  <2> HIDE DEF r
  <2>2. Asked(j, job[j]) /\ CollectFits(j, job[j], Reading(j)) /\ job[j].phase = "waiting"
    BY <1>1, JobFields DEF JobFits, Settled
  <2>3. Asked(j, r)
    BY <1>1, <2>1, <2>2 DEF Asked
  <2>4. CollectFits(j, r, cells)
    BY <1>1, <2>1, <2>2 DEF CollectFits
  <2>5. r \in JobRecord /\ JobFits(j, r, cells)
    BY <1>1, <2>1, <2>3, <2>4, Lengths DEF JobFits
  <2> QED
    BY <2>5 DEF r
<1>2. CASE ~(j \in Collectors /\ job[j].at = 1)
  BY <1>2, AdvanceFits DEF OnSuccess
<1> QED
  BY <1>1, <1>2

\* get_query_execution: what is found, or given up, moves the job on.
LEMMA PollKeeps == ASSUME AthenaInv, NEW j \in Jobs, Poll(j) PROVE AthenaInv'
<1> DEFINE state == executions[Execution(j)].state
<1>1. job[j].phase = "waiting" /\ UNCHANGED <<executions, tables, published, history>>
  BY DEF Poll
<1>2. reading \in [Collectors -> SUBSET Kpis] /\ (j \in Collectors => Reading(j) = reading[j])
  BY DEF AthenaInv, JobTypes, Reading
<1>3. state \in States /\ (state = "exists" => j \in Ddl)
  BY <1>1, WaitsFor
<1>4. CASE state \in Terminal /\ Finish(j, state)
  <2>1. CASE state = "SUCCEEDED" \/ state = "exists"
    <3> DEFINE cells == IF j \in Collectors THEN reading'[j] ELSE {}
    <3>1. Settled(j) /\ job' = [job EXCEPT ![j] = OnSuccess(j)]
      BY <1>1, <1>3, <1>4, <2>1 DEF Settled, Finish
    <3>2. /\ reading' \in [Collectors -> SUBSET Kpis]
          /\ \A i \in Collectors : i # j => reading'[i] = reading[i]
          /\ ~(j \in Collectors /\ job[j].at = 1) => cells = Reading(j)
      BY <1>2, <1>4 DEF Finish, Reading
    <3>3. OnSuccess(j) \in JobRecord /\ JobFits(j, OnSuccess(j), cells)
      BY <3>1, <3>2, SuccessFits
    <3> QED
      BY <1>1, <3>1, <3>2, <3>3, MoveFits
  <2>2. CASE ~(state = "SUCCEEDED" \/ state = "exists")
    <3>1. job' = [job EXCEPT ![j] = OnError(j)] /\ reading' = reading
      BY <1>4, <2>2 DEF Finish
    <3> QED
      BY <1>1, <1>2, <3>1, ErrorFits, MoveFits
  <2> QED
    BY <2>1, <2>2
<1>5. CASE TimedOut(j) /\ UNCHANGED reading
  BY <1>1, <1>2, <1>5, ErrorFits, MoveFits DEF TimedOut
<1>6. CASE SleepPoll(j) /\ UNCHANGED reading
  <2> DEFINE r == [job[j] EXCEPT !.waited = @ + 1]
             cells == IF j \in Collectors THEN reading'[j] ELSE {}
  <2>1. job' = [job EXCEPT ![j] = r] /\ reading' = reading
    BY <1>6 DEF SleepPoll
  <2>2. cells = Reading(j)
    BY <1>6 DEF Reading
  <2>3. /\ r \in JobRecord /\ r.phase = job[j].phase /\ r.at = job[j].at
        /\ r.attempt = job[j].attempt /\ r.failures = job[j].failures
        /\ r.code = job[j].code
    BY JobFields DEF JobRecord
  <2> HIDE DEF r, cells
  <2>4. JobFits(j, job[j], Reading(j))
    BY JobFields
  <2>5. Asked(j, job[j]) => Asked(j, r)
    BY <2>3 DEF Asked
  <2>6. (DdlFits(job[j]) => DdlFits(r)) /\ (QueryFits(j, job[j]) => QueryFits(j, r))
    BY <2>3 DEF DdlFits, QueryFits
  <2>7. CollectFits(j, job[j], Reading(j)) => CollectFits(j, r, cells)
    BY <2>2, <2>3 DEF CollectFits
  <2>8. JobFits(j, r, cells)
    BY <2>4, <2>5, <2>6, <2>7 DEF JobFits
  <2> QED
    BY <1>1, <1>2, <2>1, <2>3, <2>8, MoveFits DEF cells
<1> QED
  BY <1>4, <1>5, <1>6 DEF Poll

\* A client that raises, or a Lambda that reaches its own limit.
LEMMA DiesKeeps == ASSUME AthenaInv, NEW j \in Jobs, Dies(j) PROVE AthenaInv'
<1> DEFINE r == IF j \in Collectors THEN Raise(j) ELSE Exit(j, 1)
           cells == IF j \in Collectors THEN reading'[j] ELSE {}
<1>1. /\ job' = [job EXCEPT ![j] = r]
      /\ UNCHANGED <<executions, tables, reading, published, history>>
      /\ reading \in [Collectors -> SUBSET Kpis]
  BY DEF Dies, AthenaInv, JobTypes
<1>2. r \in JobRecord /\ JobFits(j, r, cells)
  BY ExitFits, RaiseFits
<1> HIDE DEF r
<1> QED
  BY <1>1, <1>2, MoveFits

\* metric_data: what was read is published under this attempt, and only now.
LEMMA PublishKeeps == ASSUME AthenaInv, NEW j \in Jobs, Publish(j) PROVE AthenaInv'
<1>1. /\ job[j].phase = "publish" /\ UNCHANGED <<executions, tables, reading, history>>
      /\ published' = published \cup {<<j, job[j].attempt, k>> : k \in reading[j]}
      /\ job' = [job EXCEPT ![j].phase = "idle", ![j].at = 2]
  BY DEF Publish
<1>2. j \in Collectors /\ job[j].at = 1 /\ j \notin Ddl /\ j \notin Queries
  BY <1>1, JobFields, Lengths DEF JobFits, Asked
<1>3. reading[j] \subseteq Kpis /\ Reading(j) = reading[j]
  BY <1>2 DEF AthenaInv, JobTypes, Reading
<1> PICK m \in 1..MaxAttempts : m = job[j].attempt
  BY JobFields
<1>4. Published(j, m) = {}
  BY <1>1, <1>2, JobFields DEF JobFits, CollectFits
<1>5. \A k : <<j, m, k>> \in published' /\ k \in Kpis <=> k \in reading[j]
  BY <1>1, <1>3, <1>4 DEF Published
<1>6. \A i, a : i # j \/ a # m =>
        \A k : <<i, a, k>> \in published' <=> <<i, a, k>> \in published
  BY <1>1
<1>7. \A i, a : i # j \/ a # m => Published(i, a)' = Published(i, a)
  BY <1>6 DEF Published
<1>8. Published(j, m)' = reading[j]
  BY <1>3, <1>5 DEF Published
<1> DEFINE r == job'[j]
<1>9. /\ r \in JobRecord /\ r.phase = "idle" /\ r.at = 2 /\ r.attempt = m
      /\ \A i \in Jobs : i # j => job'[i] = job[i]
  <2>1. job \in [Jobs -> JobRecord]
    BY DEF AthenaInv, JobTypes
  <2>2. r = [job[j] EXCEPT !.phase = "idle", !.at = 2]
    BY <1>1, <2>1
  <2>3. \A i \in Jobs : i # j => job'[i] = job[i]
    BY <1>1, <2>1
  <2> HIDE DEF r
  <2>4. r \in JobRecord /\ r.phase = "idle" /\ r.at = 2 /\ r.attempt = m
    BY <2>1, <2>2 DEF JobRecord
  <2> QED
    BY <2>3, <2>4
<1>10. JobTypes' /\ ExecutionTypes'
  <2>1. job' \in [Jobs -> JobRecord]
    BY <1>1, <1>9 DEF AthenaInv, JobTypes
  <2> QED
    BY <1>1, <2>1 DEF AthenaInv, JobTypes, ExecutionTypes
<1>11. TablesInOrder' /\ DdlOrder'
  BY <1>1 DEF AthenaInv, TablesInOrder, DdlOrder
<1>12. ASSUME NEW q \in DOMAIN executions, IsInsert(q.job, q.at)
       PROVE  q.job # j \/ q.attempt # m
  <2>1. Asked(j, job[j])
    BY JobFields DEF JobFits
  <2>2. q.job = j /\ q.attempt = m => q.at <= 1
    BY <1>2, <2>1 DEF Asked
  <2> QED
    BY <1>12, <2>2 DEF IsInsert
<1>13. HistoryInv'
  <2>1. \A q \in DOMAIN executions : IsInsert(q.job, q.at) =>
          executions[q].cells = Published(q.job, q.attempt)'
    BY <1>7, <1>12 DEF AthenaInv, HistoryInv
  <2> QED
    BY <1>1, <2>1 DEF AthenaInv, HistoryInv, RowOf
<1>14. ASSUME NEW i \in Jobs, i # j PROVE JobFits(i, job[i], Reading(i))'
  <2>1. job'[i] = job[i] /\ Reading(i)' = Reading(i)
    BY <1>1, <1>9, <1>14 DEF Reading
  <2>2. JobFits(i, job[i], Reading(i))
    BY DEF AthenaInv
  <2>3. \A a : Published(i, a)' = Published(i, a)
    BY <1>7, <1>14
  <2>4. Asked(i, job[i])' /\ (i \in Ddl => DdlFits(job[i])') /\ (i \in Queries => QueryFits(i, job[i])')
    BY <1>1, <2>1, <2>2 DEF JobFits, Asked, DdlFits, QueryFits, Succeeded
  <2>5. i \in Collectors => CollectFits(i, job[i], Reading(i))'
    BY <1>1, <2>1, <2>2, <2>3 DEF JobFits, CollectFits
  <2> QED
    BY <2>4, <2>5 DEF JobFits
<1>15. JobFits(j, job[j], Reading(j))'
  <2> HIDE DEF r
  <2>1. Asked(j, job[j]) /\ CollectFits(j, job[j], Reading(j))
    BY <1>2, JobFields DEF JobFits
  <2>2. \A q \in DOMAIN executions : q.at \in Nat
    BY DEF AthenaInv, ExecutionTypes, ExecutionId
  <2>3. \A q \in DOMAIN executions : q.job = j =>
          /\ q.attempt <= m
          /\ q.attempt = m => q.at < 2
    BY <1>2, <2>1, <2>2 DEF Asked
  <2>4. 2 \in 1..Length(j)
    BY <1>2, Lengths
  <2>5. \A q \in DOMAIN executions : q.at < 2 => q.at <= 2
    BY <2>2
  <2>6. Asked(j, r)
    BY <1>2, <1>9, <2>3, <2>4, <2>5 DEF Asked
  <2>7. Asked(j, job[j])'
    BY <1>1, <2>6 DEF Asked, r
  <2>8. \A a \in 1..MaxAttempts : a > m => Published(j, a)' = {}
    BY <1>7, <2>1 DEF CollectFits
  <2>9. Reading(j)' = reading[j] /\ (job[j])' = r
    BY <1>1, <1>2 DEF Reading, r
  <2>10. CollectFits(j, job[j], Reading(j))'
    BY <1>8, <1>9, <2>8, <2>9 DEF CollectFits
  <2> QED
    BY <1>2, <2>7, <2>10 DEF JobFits
<1> QED
  BY <1>10, <1>11, <1>13, <1>14, <1>15 DEF AthenaInv

\* start_query_execution: a statement is asked for once, with the values read.
LEMMA StartKeeps == ASSUME AthenaInv, NEW j \in Jobs, StartQuery(j) PROVE AthenaInv'
<1> PICK m \in 1..MaxAttempts, n \in 1..Length(j) : m = job[j].attempt /\ n = job[j].at
  BY JobFields
<1> DEFINE r == job'[j]
<1>a. n \in Nat
  BY Lengths
<1>b. [job |-> j, attempt |-> m, at |-> n] \in ExecutionId
  BY <1>a DEF ExecutionId
<1> PICK e \in ExecutionId : e = [job |-> j, attempt |-> m, at |-> n]
  BY <1>b
<1>1. /\ job[j].phase = "idle" /\ UNCHANGED <<tables, reading, published, history>>
      /\ job' = [job EXCEPT ![j].phase = "waiting", ![j].waited = 0]
      /\ Execution(j) = e /\ e.job = j /\ e.attempt = m /\ e.at = n
  BY DEF StartQuery, Execution
<1>2. Asked(j, job[j]) /\ JobFits(j, job[j], Reading(j)) /\ n \in Nat
  BY JobFields DEF JobFits
<1>3. e \notin DOMAIN executions
  BY <1>1, <1>2 DEF Asked
<1>4. /\ DOMAIN executions' = DOMAIN executions \cup {e}
      /\ \A p \in DOMAIN executions : executions'[p] = executions[p]
      /\ executions'[e] = [state |-> "RUNNING",
                           cells |-> IF IsInsert(j, n) THEN reading[j] ELSE {}]
  BY <1>1, <1>3 DEF StartQuery
<1>5. /\ r \in JobRecord /\ r.phase = "waiting" /\ r.at = n /\ r.attempt = m
      /\ r.failures = job[j].failures
      /\ \A i \in Jobs : i # j => job'[i] = job[i]
  <2>1. job \in [Jobs -> JobRecord]
    BY DEF AthenaInv, JobTypes
  <2>2. r = [job[j] EXCEPT !.phase = "waiting", !.waited = 0]
    BY <1>1, <2>1
  <2>3. \A i \in Jobs : i # j => job'[i] = job[i]
    BY <1>1, <2>1
  <2> HIDE DEF r
  <2>4. /\ r \in JobRecord /\ r.phase = "waiting" /\ r.at = n /\ r.attempt = m
        /\ r.failures = job[j].failures
    BY <2>1, <2>2 DEF JobRecord
  <2> QED
    BY <2>3, <2>4
<1>6. JobTypes'
  BY <1>1, <1>5 DEF AthenaInv, JobTypes
<1>7. IsInsert(j, n) => j \in Collectors /\ n = 2 /\ reading[j] = Published(j, m)
                        /\ reading[j] \subseteq Kpis
  BY <1>1, <1>2 DEF IsInsert, JobFits, CollectFits, Reading, AthenaInv, JobTypes
<1>8. ExecutionTypes'
  <2>1. executions'[e] \in [state : States, cells : SUBSET Kpis]
    BY <1>4, <1>7 DEF States
  <2>2. executions'[e].state # "exists"
    BY <1>4
  <2> QED
    BY <1>1, <1>4, <2>1, <2>2 DEF AthenaInv, ExecutionTypes
<1>9. TablesInOrder' /\ DdlOrder'
  <2>1. j \in Ddl => 1 .. n - 1 \subseteq tables
    BY <1>1, <1>2 DEF JobFits, DdlFits
  <2>2. executions'[e].state \notin {"SUCCEEDED", "exists"}
    BY <1>4
  <2> QED
    BY <1>1, <1>4, <2>1, <2>2 DEF AthenaInv, TablesInOrder, DdlOrder
<1>10. HistoryInv'
  <2>1. \A i, a : Published(i, a)' = Published(i, a)
    BY <1>1 DEF Published
  <2>2. executions'[e].state # "SUCCEEDED" /\ (IsInsert(j, n) => executions'[e].cells = reading[j])
    BY <1>4
  <2>3. \A p \in DOMAIN executions : RowOf(p)' = RowOf(p)
    BY <1>4 DEF RowOf
  <2>4. ASSUME NEW q \in DOMAIN executions', IsInsert(q.job, q.at)
        PROVE  /\ executions'[q].cells = Published(q.job, q.attempt)'
               /\ executions'[q].state = "SUCCEEDED" => RowOf(q)' \in history'
    <3>1. CASE q = e
      BY <1>1, <1>7, <2>1, <2>2, <2>4, <3>1
    <3>2. CASE q \in DOMAIN executions
      BY <1>1, <1>4, <2>1, <2>3, <2>4, <3>2 DEF AthenaInv, HistoryInv
    <3> QED
      BY <1>4, <3>1, <3>2
  <2>5. ASSUME NEW h \in history'
        PROVE  \E q \in DOMAIN executions' :
                 IsInsert(q.job, q.at) /\ executions'[q].state = "SUCCEEDED" /\ h = RowOf(q)'
    <3>1. PICK q \in DOMAIN executions :
            IsInsert(q.job, q.at) /\ executions[q].state = "SUCCEEDED" /\ h = RowOf(q)
      BY <1>1, <2>5 DEF AthenaInv, HistoryInv
    <3> QED
      BY <1>4, <2>3, <3>1
  <2> QED
    BY <2>4, <2>5 DEF HistoryInv
<1>11. \A i, s : Succeeded(i, s) => Succeeded(i, s)'
  BY <1>4 DEF Succeeded
<1>11a. \A i, a : Published(i, a)' = Published(i, a)
  BY <1>1 DEF Published
<1>12. ASSUME NEW i \in Jobs, i # j PROVE JobFits(i, job[i], Reading(i))'
  <2>1. job'[i] = job[i] /\ Reading(i)' = Reading(i) /\ JobFits(i, job[i], Reading(i))
    BY <1>1, <1>5, <1>12 DEF Reading, AthenaInv
  <2>2. Asked(i, job[i])'
    BY <1>1, <1>4, <1>12, <2>1 DEF JobFits, Asked
  <2>3. (i \in Ddl => DdlFits(job[i])') /\ (i \in Queries => QueryFits(i, job[i])')
    BY <1>1, <1>11, <2>1 DEF JobFits, DdlFits, QueryFits
  <2>4. i \in Collectors => CollectFits(i, job[i], Reading(i))'
    BY <1>1, <1>11a, <2>1 DEF JobFits, CollectFits
  <2> QED
    BY <2>2, <2>3, <2>4 DEF JobFits
<1>13. JobFits(j, job[j], Reading(j))'
  <2>1. Reading(j)' = Reading(j)
    BY <1>1 DEF Reading
  <2>2. \A q \in DOMAIN executions' : q.job = j => q.attempt <= m /\ (q.attempt = m => q.at <= n)
    <3>1. \A q \in DOMAIN executions : q.job = j => q.attempt <= m /\ (q.attempt = m => q.at <= n)
      BY <1>2 DEF Asked
    <3>2. m <= m /\ n <= n
      BY Lengths, <1>2
    <3> QED
      BY <1>1, <1>4, <3>1, <3>2
  <2>3. Asked(j, job[j])'
    BY <1>1, <1>2, <1>4, <1>5, <2>2 DEF Asked
  <2>4. (j \in Ddl => DdlFits(job[j])') /\ (j \in Queries => QueryFits(j, job[j])')
    BY <1>1, <1>2, <1>5, <1>11 DEF JobFits, DdlFits, QueryFits
  <2>5. ASSUME j \in Collectors PROVE CollectFits(j, job[j], Reading(j))'
    <3>1. CollectFits(j, job[j], Reading(j))
      BY <1>2, <2>5 DEF JobFits
    <3> HIDE DEF r
    <3>2. CollectFits(j, r, Reading(j))
      BY <1>1, <1>2, <1>5, <3>1 DEF CollectFits
    <3>3. (job[j])' = r
      BY DEF r
    <3> QED
      BY <1>1, <1>11a, <2>1, <3>2, <3>3 DEF CollectFits
  <2> QED
    BY <2>3, <2>4, <2>5 DEF JobFits
<1> QED
  BY <1>6, <1>8, <1>9, <1>10, <1>12, <1>13 DEF AthenaInv

-----------------------------------------------------------------------------
\* A query that settles leaves the programs as they are.
LEMMA SettleKeeps ==
  ASSUME AthenaInv, NEW q \in DOMAIN executions, NEW state \in States,
         executions[q].state = "RUNNING", Settle(q, state),
         UNCHANGED <<job, reading, published>>,
         tables \subseteq tables', tables' \subseteq 1..NFiles, TablesInOrder',
         q.job \in Ddl /\ state \in {"SUCCEEDED", "exists"} => q.at \in tables',
         state = "exists" => q.job \in Ddl,
         history' = IF IsInsert(q.job, q.at) /\ state = "SUCCEEDED"
                    THEN history \cup {RowOf(q)} ELSE history
  PROVE  AthenaInv'
<1>1. /\ DOMAIN executions' = DOMAIN executions
      /\ \A p \in DOMAIN executions : p # q => executions'[p] = executions[p]
      /\ executions'[q].state = state /\ executions'[q].cells = executions[q].cells
      /\ executions'[q] \in [state : States, cells : SUBSET Kpis]
  <2>1. executions' = [executions EXCEPT ![q] = [executions[q] EXCEPT !.state = state]]
    BY DEF Settle
  <2>2. executions[q] \in [state : States, cells : SUBSET Kpis]
    BY DEF AthenaInv, ExecutionTypes
  <2> QED
    BY <2>1, <2>2
<1>2. JobTypes' /\ ExecutionTypes'
  BY <1>1 DEF AthenaInv, JobTypes, ExecutionTypes
<1>3. DdlOrder'
  BY <1>1 DEF AthenaInv, DdlOrder
<1>4. \A p \in DOMAIN executions : RowOf(p)' = RowOf(p)
  BY <1>1 DEF RowOf
<1>5. \A i, a : Published(i, a)' = Published(i, a)
  BY DEF Published
<1>6. HistoryInv'
  <2>1. ASSUME NEW p \in DOMAIN executions', IsInsert(p.job, p.at)
        PROVE  /\ executions'[p].cells = Published(p.job, p.attempt)'
               /\ executions'[p].state = "SUCCEEDED" => RowOf(p)' \in history'
    BY <1>1, <1>4, <1>5, <2>1 DEF AthenaInv, HistoryInv
  <2>2. ASSUME NEW h \in history'
        PROVE  \E p \in DOMAIN executions' :
                 IsInsert(p.job, p.at) /\ executions'[p].state = "SUCCEEDED" /\ h = RowOf(p)'
    <3>1. CASE h \in history
      <4>1. PICK p \in DOMAIN executions :
              IsInsert(p.job, p.at) /\ executions[p].state = "SUCCEEDED" /\ h = RowOf(p)
        BY <3>1 DEF AthenaInv, HistoryInv
      <4>2. p # q
        BY <4>1
      <4> QED
        BY <1>1, <1>4, <4>1, <4>2
    <3>2. CASE IsInsert(q.job, q.at) /\ state = "SUCCEEDED" /\ h = RowOf(q)
      BY <1>1, <1>4, <3>2
    <3> QED
      BY <2>2, <3>1, <3>2
  <2> QED
    BY <2>1, <2>2 DEF HistoryInv
<1>7. \A i, s : Succeeded(i, s) => Succeeded(i, s)'
  BY <1>1 DEF Succeeded
<1>8. ASSUME NEW i \in Jobs PROVE JobFits(i, job[i], Reading(i))'
  <2>1. job'[i] = job[i] /\ Reading(i)' = Reading(i) /\ JobFits(i, job[i], Reading(i))
    BY DEF Reading, AthenaInv
  <2>2. Asked(i, job[i])'
    BY <1>1, <2>1 DEF JobFits, Asked
  <2>3. (i \in Ddl => DdlFits(job[i])') /\ (i \in Queries => QueryFits(i, job[i])')
    BY <1>7, <2>1 DEF JobFits, DdlFits, QueryFits
  <2>4. history \subseteq history'
    OBVIOUS
  <2>5. i \in Collectors => CollectFits(i, job[i], Reading(i))'
    BY <1>5, <2>1, <2>4 DEF JobFits, CollectFits
  <2> QED
    BY <2>2, <2>3, <2>5 DEF JobFits
<1> QED
  BY <1>2, <1>3, <1>6, <1>8 DEF AthenaInv

\* Athena commits a statement: its table or its row is there.
LEMMA CommitsKeeps ==
  ASSUME AthenaInv, NEW q \in DOMAIN executions, Commits(q) PROVE AthenaInv'
<1>1. /\ executions[q].state = "RUNNING" /\ Settle(q, "SUCCEEDED")
      /\ tables' = IF q.job \in Ddl THEN tables \cup {q.at} ELSE tables
      /\ history' = IF IsInsert(q.job, q.at) THEN history \cup {RowOf(q)} ELSE history
      /\ UNCHANGED <<job, reading, published>>
  BY DEF Commits, RowOf
<1>2. /\ q.job \in Ddl => q.at \in 1..NFiles /\ 1 .. q.at - 1 \subseteq tables
      /\ tables \subseteq 1..NFiles
  BY Lengths DEF AthenaInv, ExecutionTypes, DdlOrder, JobTypes
<1>3. tables' \subseteq 1..NFiles /\ tables \subseteq tables'
  BY <1>1, <1>2
<1>4. q.job \in Ddl => \A t \in 1..q.at : t = q.at \/ t \in 1 .. q.at - 1
  BY <1>2, Lengths
<1>5. TablesInOrder'
  BY <1>1, <1>2, <1>4 DEF AthenaInv, TablesInOrder
<1> QED
  BY <1>1, <1>3, <1>5, SettleKeeps DEF States

\* A statement fails, or finds its table.
LEMMA FailsKeeps ==
  ASSUME AthenaInv, NEW q \in DOMAIN executions, Fails(q) PROVE AthenaInv'
<1>1. /\ executions[q].state = "RUNNING" /\ UNCHANGED <<job, tables, reading, published, history>>
      /\ \/ Settle(q, "FAILED")
         \/ q.job \in Ddl /\ q.at \in tables /\ Settle(q, "exists")
  BY DEF Fails
<1>2. tables' \subseteq 1..NFiles /\ TablesInOrder'
  BY <1>1 DEF AthenaInv, JobTypes, TablesInOrder
<1>3. "FAILED" \in States /\ "exists" \in States
  BY DEF States
<1>4. CASE Settle(q, "FAILED")
  BY <1>1, <1>2, <1>3, <1>4, SettleKeeps
<1>5. CASE q.job \in Ddl /\ q.at \in tables /\ Settle(q, "exists")
  BY <1>1, <1>2, <1>3, <1>5, SettleKeeps
<1> QED
  BY <1>1, <1>4, <1>5

-----------------------------------------------------------------------------
\* Every step of a program or of Athena keeps the invariant.
LEMMA AthenaInductive == AthenaInv /\ [AthenaNext]_athenaVars => AthenaInv'
<1> SUFFICES ASSUME AthenaInv, [AthenaNext]_athenaVars PROVE AthenaInv'
  OBVIOUS
<1>1. ASSUME NEW j \in Jobs, JobStep(j) PROVE AthenaInv'
  BY <1>1, StartKeeps, PollKeeps, PublishKeeps DEF JobStep
<1>2. ASSUME NEW j \in Jobs, Dies(j) PROVE AthenaInv'
  BY <1>2, DiesKeeps
<1>3. ASSUME NEW q \in DOMAIN executions, Commits(q) PROVE AthenaInv'
  BY <1>3, CommitsKeeps
<1>4. ASSUME NEW q \in DOMAIN executions, Fails(q) PROVE AthenaInv'
  BY <1>4, FailsKeeps
<1>5. CASE UNCHANGED athenaVars
  <2>1. UNCHANGED <<job, executions, tables, reading, published, history>>
    BY <1>5 DEF athenaVars
  <2>2. \A j : Reading(j)' = Reading(j)
    BY <2>1 DEF Reading
  <2>3. \A j, a : Published(j, a)' = Published(j, a)
    BY <2>1 DEF Published
  <2>4. \A q : RowOf(q)' = RowOf(q)
    BY <2>1 DEF RowOf
  <2>5. JobTypes' /\ ExecutionTypes' /\ TablesInOrder' /\ DdlOrder' /\ HistoryInv'
    BY <2>1, <2>3, <2>4 DEF AthenaInv, JobTypes, ExecutionTypes, TablesInOrder, DdlOrder,
       HistoryInv
  <2>6. ASSUME NEW j \in Jobs PROVE JobFits(j, job[j], Reading(j))'
    <3>1. JobFits(j, job[j], Reading(j))
      BY DEF AthenaInv
    <3>2. Asked(j, job[j])' /\ (j \in Ddl => DdlFits(job[j])') /\ (j \in Queries => QueryFits(j, job[j])')
      BY <2>1, <3>1 DEF JobFits, Asked, DdlFits, QueryFits, Succeeded
    <3>3. j \in Collectors => CollectFits(j, job[j], Reading(j))'
      BY <2>1, <2>2, <2>3, <3>1 DEF JobFits, CollectFits
    <3> QED
      BY <3>2, <3>3 DEF JobFits
  <2> QED
    BY <2>5, <2>6 DEF AthenaInv
<1> QED
  BY <1>1, <1>2, <1>3, <1>4, <1>5 DEF AthenaNext

\* The execution of a statement is unique within its attempt.
LEMMA OneExecution ==
  ASSUME AthenaInv, NEW p \in DOMAIN executions, NEW q \in DOMAIN executions,
         p.job = q.job, p.attempt = q.attempt, p.at = q.at
  PROVE  p = q
  BY DEF AthenaInv, ExecutionTypes, ExecutionId

\* A query that exits 0 ran each statement once, and each succeeded.
LEMMA VerdictTrue == AthenaInv => QueryVerdict
<1> SUFFICES ASSUME AthenaInv, NEW j \in Queries, job[j].phase = "exited", job[j].code = 0,
                    NEW s \in 1..NStatements
             PROVE  LET runs == {q \in DOMAIN executions : q.job = j /\ q.at = s}
                    IN Cardinality(runs) = 1
                       /\ \A q \in runs : executions[q].state = "SUCCEEDED"
  BY DEF QueryVerdict
<1> DEFINE e == [job |-> j, attempt |-> 1, at |-> s]
           runs == {q \in DOMAIN executions : q.job = j /\ q.at = s}
<1>1. j \in Jobs /\ j \notin Collectors
  BY Lengths DEF Jobs
<1>2. Asked(j, job[j]) /\ QueryFits(j, job[j])
  BY <1>1, JobFields DEF JobFits
<1>3. e \in DOMAIN executions /\ executions[e].state = "SUCCEEDED"
  BY <1>2 DEF QueryFits, Succeeded
<1>4. ASSUME NEW q \in runs PROVE q = e
  <2>1. q.attempt \in 1..MaxAttempts /\ q.attempt <= 1
    BY <1>1, <1>2 DEF AthenaInv, ExecutionTypes, ExecutionId, Asked
  <2>2. q.attempt = 1
    BY <2>1, Lengths
  <2> QED
    BY <1>3, <2>2, OneExecution
<1>5. runs = {e}
  BY <1>3, <1>4
<1> HIDE DEF runs, e
<1>6. Cardinality(runs) = 1
  BY <1>5, FS_Singleton
<1> QED
  BY <1>3, <1>5, <1>6 DEF runs

\* The history holds what CloudWatch was given, once per attempt.
LEMMA HistoryTrue == AthenaInv => HistoryWasPublished /\ OneRowPerAttempt
<1> SUFFICES ASSUME AthenaInv PROVE HistoryWasPublished /\ OneRowPerAttempt
  OBVIOUS
<1>1. HistoryWasPublished
  <2> SUFFICES ASSUME NEW r \in history
               PROVE  {k \in Kpis : <<r.by, r.attempt, k>> \in published} = r.cells
    BY DEF HistoryWasPublished
  <2>1. PICK q \in DOMAIN executions :
          IsInsert(q.job, q.at) /\ executions[q].state = "SUCCEEDED" /\ r = RowOf(q)
    BY DEF AthenaInv, HistoryInv
  <2>2. r.by = q.job /\ r.attempt = q.attempt /\ r.cells = executions[q].cells
    BY <2>1 DEF RowOf
  <2>3. executions[q].cells = Published(q.job, q.attempt)
    BY <2>1 DEF AthenaInv, HistoryInv
  <2> QED
    BY <2>2, <2>3 DEF Published
<1>2. ASSUME NEW r \in history, NEW s \in history, r.by = s.by, r.attempt = s.attempt
      PROVE  r = s
  <2>1. PICK p \in DOMAIN executions : IsInsert(p.job, p.at) /\ r = RowOf(p)
    BY DEF AthenaInv, HistoryInv
  <2>2. PICK q \in DOMAIN executions : IsInsert(q.job, q.at) /\ s = RowOf(q)
    BY DEF AthenaInv, HistoryInv
  <2>3. p.job = q.job /\ p.attempt = q.attempt /\ p.at = q.at
    BY <1>2, <2>1, <2>2 DEF RowOf, IsInsert
  <2> QED
    BY <2>1, <2>2, <2>3, OneExecution
<1>3. ASSUME NEW j \in Collectors, job[j].phase = "exited", job[j].code = 0
      PROVE  \E r \in history : r.by = j /\ r.attempt = job[j].attempt
  BY <1>3, JobFields DEF Jobs, JobFits, CollectFits
<1> QED
  BY <1>1, <1>2, <1>3 DEF OneRowPerAttempt

\* ddl.py, query.py and the health Lambda say what is true: however many of them
\* run, are retried, killed or time out, and whenever Athena settles a statement
\* they have given up, tables appear in order and all of them before "Tables
\* ready", a query that exits 0 ran every statement, and the history holds what was
\* published, once per attempt.
THEOREM JobsKeepTheirWord == AthenaSpec => []JobsHonest
<1>1. AthenaInv => JobsHonest
  <2> SUFFICES ASSUME AthenaInv PROVE JobsHonest
    OBVIOUS
  <2>1. TablesInOrder
    BY DEF AthenaInv
  <2>2. ReadyMeansReady
    BY JobFields DEF ReadyMeansReady, Jobs, JobFits, DdlFits
  <2> QED
    BY <2>1, <2>2, VerdictTrue, HistoryTrue DEF JobsHonest
<1> QED
  BY <1>1, AthenaStarts, AthenaInductive, PTL DEF AthenaSpec
-----------------------------------------------------------------------------
(* The provisioning of the cluster. *)

\* The cluster: public only when enforced, enforced only with its ACLs, and gone
\* with Terraform's state, which names no other build.
ClusterInv ==
  /\ backend \in BOOLEAN /\ exists \in BOOLEAN /\ public \in BOOLEAN /\ restricted \in BOOLEAN
  /\ endpoint \in BOOLEAN /\ wasPublic \in BOOLEAN
  /\ built \in Nat /\ envFile \in 0..built
  /\ output = 0 \/ (exists /\ output = built)
  /\ exists => backend
  /\ (endpoint => public) /\ (public => restricted) /\ (restricted => exists)
  /\ acls \subseteq Bindings /\ NeverLockedOut
  /\ topicsOn \subseteq {NewTopic(name) : name \in Topics}

\* bootstrap.sh: what the command that runs next may rely on, unless the sandbox
\* was wiped under it.
ScriptInv ==
  /\ backend /\ step \in {"acls", "enforce", "open", "await", "topics", "secrets", "smoke", "ready"} => exists
  /\ backend /\ step \in {"apply", "acls"} /\ wasPublic => endpoint
  /\ backend /\ step = "enforce" => acls = Bindings
  /\ backend /\ step \in {"topics", "secrets", "smoke", "ready"} => endpoint
  /\ backend /\ step \in {"secrets", "smoke", "ready"} => Named(topicsOn) = Topics
  /\ step \in {"smoke", "ready"} => secret = built

ProvInv == ClusterInv /\ ScriptInv /\ EnvironmentRestored

\* An apply that AWS accepts: it enforces nothing the ACLs are not ready for.
LEMMA ApplyKeeps ==
  ASSUME ClusterInv, NEW p \in BOOLEAN, NEW r \in BOOLEAN, NEW ip, Apply(p, r, ip),
         UNCHANGED <<envFile, wasPublic>>, r => acls = Bindings
  PROVE  /\ ClusterInv' /\ backend /\ backend' /\ exists' /\ (endpoint /\ p => endpoint')
         /\ exists => built' = built
         /\ acls' = acls /\ topicsOn' = topicsOn
<1>1. /\ exists' = TRUE /\ public' = p /\ restricted' = r
      /\ built' = (IF exists THEN built ELSE built + 1)
      /\ backend = TRUE /\ backend' = TRUE
      /\ acls' = acls /\ topicsOn' = topicsOn /\ envFile' = envFile /\ wasPublic' = wasPublic
  BY DEF Apply, ClusterInv
<1>2. (p => r) /\ endpoint' \in BOOLEAN /\ (endpoint' => p) /\ (endpoint /\ p => endpoint')
  BY DEF Apply, Accepted, ClusterInv
<1>3. output' = 0 \/ output' = built'
  BY DEF Apply
<1>4. built' \in Nat /\ envFile' \in 0..built'
  <2>1. built \in Nat /\ envFile \in 0..built
    BY DEF ClusterInv
  <2> QED
    BY <1>1, <2>1
<1>5. /\ exists' \in BOOLEAN /\ public' \in BOOLEAN /\ restricted' \in BOOLEAN
      /\ wasPublic' \in BOOLEAN /\ backend' \in BOOLEAN
  BY <1>1, Zenon DEF ClusterInv
<1>6. NeverLockedOut' /\ acls' \subseteq Bindings'
  BY <1>1 DEF NeverLockedOut, Bindings, ClusterInv
<1>7. topicsOn' \subseteq {NewTopic(name) : name \in Topics}
  BY <1>1 DEF ClusterInv
<1>8. (endpoint' => public') /\ (public' => restricted') /\ (restricted' => exists')
  BY <1>1, <1>2
<1>10. (output' = 0 \/ (exists' /\ output' = built')) /\ (exists' => backend')
  BY <1>1, <1>3
<1>9. ClusterInv'
  BY <1>2, <1>4, <1>5, <1>6, <1>7, <1>8, <1>10, Zenon DEF ClusterInv
<1> QED
  BY <1>1, <1>2, <1>9

\* AWS, the operator and the wipes.
LEMMA WorldKeeps ==
  ASSUME ProvInv, Publishes \/ Wiped \/ EditsEnv \/ \E ip \in Addresses : Moves(ip)
  PROVE  ProvInv'
<1>1. CASE Publishes
  BY <1>1 DEF Publishes, ProvInv, ClusterInv, ScriptInv, EnvironmentRestored, NeverLockedOut,
     bootVars, prepVars, Bindings
<1>2. CASE Wiped
  <2>1. /\ backend' = FALSE /\ output' = 0 /\ exists' = FALSE /\ public' = FALSE
        /\ restricted' = FALSE /\ endpoint' = FALSE /\ acls' = {} /\ topicsOn' = {}
        /\ UNCHANGED <<built, envFile, step, wasPublic, secret, prep, environ>>
    BY <1>2 DEF Wiped, bootVars, prepVars
  <2>2. ClusterInv'
    BY <2>1 DEF ProvInv, ClusterInv, NeverLockedOut
  <2>3. ScriptInv' /\ EnvironmentRestored'
    BY <2>1 DEF ProvInv, ScriptInv, EnvironmentRestored
  <2> QED
    BY <2>2, <2>3 DEF ProvInv
<1>3. CASE EditsEnv
  BY <1>3 DEF EditsEnv, ProvInv, ClusterInv, ScriptInv, EnvironmentRestored, NeverLockedOut,
     clusterVars, bootVars, prepVars, Bindings
<1>4. ASSUME NEW ip \in Addresses, Moves(ip) PROVE ProvInv'
  BY <1>4 DEF Moves, ProvInv, ClusterInv, ScriptInv, EnvironmentRestored, NeverLockedOut,
     clusterVars, bootVars, prepVars, Bindings
<1> QED
  BY <1>1, <1>2, <1>3, <1>4

\* The commands of bootstrap.sh that only look, or end it.
LEMMA QuietKeeps ==
  ASSUME ProvInv, BootBegins \/ Check \/ Await \/ PutSecrets \/ SmokeTest \/ BootEnds
  PROVE  ProvInv'
<1>1. /\ UNCHANGED <<exists, public, restricted, built, endpoint, output, acls, topicsOn>>
      /\ (backend' = backend \/ backend' = TRUE) /\ UNCHANGED <<envFile, prep, environ>>
      /\ wasPublic' \in BOOLEAN
  BY DEF BootBegins, Check, Await, PutSecrets, SmokeTest, BootEnds, At, prepVars, clusterVars,
     ProvInv, ClusterInv
<1>2. ClusterInv' /\ EnvironmentRestored'
  <2>1. NeverLockedOut' /\ acls' \subseteq Bindings'
    BY <1>1 DEF ProvInv, ClusterInv, NeverLockedOut, Bindings
  <2>2. backend' \in BOOLEAN /\ (exists' => backend')
    <3>1. backend \in BOOLEAN /\ (exists => backend) /\ exists' = exists
      BY <1>1 DEF ProvInv, ClusterInv
    <3>2. CASE backend' = backend
      BY <3>1, <3>2, Zenon
    <3>3. CASE backend' = TRUE
      BY <3>3, Zenon
    <3> QED
      BY <1>1, <3>2, <3>3, Zenon
  <2>3. (output' = 0 \/ (exists' /\ output' = built')) /\ built' \in Nat /\ envFile' \in 0..built'
    BY <1>1 DEF ProvInv, ClusterInv
  <2>4. topicsOn' \subseteq {NewTopic(name) : name \in Topics}
    BY <1>1 DEF ProvInv, ClusterInv
  <2>5. /\ exists' \in BOOLEAN /\ public' \in BOOLEAN /\ restricted' \in BOOLEAN
        /\ endpoint' \in BOOLEAN
        /\ (endpoint' => public') /\ (public' => restricted') /\ (restricted' => exists')
    BY <1>1, Zenon DEF ProvInv, ClusterInv
  <2>6. EnvironmentRestored'
    BY <1>1 DEF ProvInv, EnvironmentRestored
  <2> QED
    BY <1>1, <2>1, <2>2, <2>3, <2>4, <2>5, <2>6, Zenon DEF ClusterInv
<1>3. ScriptInv'
  <2>1. CASE BootBegins
    BY <1>1, <2>1 DEF BootBegins, At, Then, ScriptInv
  <2>2. CASE Check
    <3>1. /\ step' = "apply" /\ UNCHANGED <<backend, endpoint>>
          /\ wasPublic' \in {endpoint, FALSE}
      BY <2>2 DEF Check, At, Then, clusterVars
    <3>2. wasPublic' => endpoint'
      BY <3>1, Zenon
    <3> QED
      BY <3>1, <3>2 DEF ScriptInv
  <2>3. CASE Await \/ PutSecrets \/ SmokeTest \/ BootEnds
    <3>1. UNCHANGED <<backend, exists, built, endpoint, acls, topicsOn, wasPublic>>
      BY <2>3 DEF Await, PutSecrets, SmokeTest, BootEnds, clusterVars
    <3> QED
      BY <2>3, <3>1 DEF Await, PutSecrets, SmokeTest, BootEnds, At, Then, ProvInv, ScriptInv,
         Bindings, Named
  <2> QED
    BY <2>1, <2>2, <2>3
<1> QED
  BY <1>2, <1>3 DEF ProvInv

\* The applies of bootstrap.sh, in their order.
LEMMA AppliesKeep ==
  ASSUME ProvInv, FirstApply \/ HalfApplied \/ Enforce \/ Open PROVE ProvInv'
<1>1. UNCHANGED <<envFile, wasPublic, secret, prep, environ>>
  BY DEF FirstApply, HalfApplied, Enforce, Open, At, prepVars
<1>2. EnvironmentRestored'
  BY <1>1 DEF ProvInv, EnvironmentRestored
<1>3. CASE FirstApply
  <2>1. step = "apply" /\ step' = "acls" /\ Apply(wasPublic, wasPublic, address)
    BY <1>3 DEF FirstApply, At, Then
  <2>2. wasPublic \in BOOLEAN /\ (wasPublic => endpoint /\ acls = Bindings)
    BY <2>1 DEF Apply, ProvInv, ClusterInv, ScriptInv, NeverLockedOut
  <2>3. ClusterInv' /\ exists' /\ (endpoint /\ wasPublic => endpoint')
    BY <1>1, <2>1, <2>2, ApplyKeeps DEF ProvInv
  <2>4. ScriptInv'
    BY <1>1, <2>1, <2>2, <2>3 DEF ScriptInv
  <2> QED
    BY <1>2, <2>3, <2>4 DEF ProvInv
<1>4. CASE Enforce
  <2>1. step = "enforce" /\ step' = "open" /\ Apply(FALSE, TRUE, address) /\ acls = Bindings
    BY <1>4 DEF Enforce, At, Then, Apply, ProvInv, ScriptInv
  <2>2. ClusterInv' /\ exists'
    BY <1>1, <2>1, ApplyKeeps DEF ProvInv
  <2>3. ScriptInv'
    BY <2>1, <2>2 DEF ScriptInv
  <2> QED
    BY <1>2, <2>2, <2>3 DEF ProvInv
<1>5. CASE Open
  <2>1. step = "open" /\ step' = "await" /\ Apply(TRUE, TRUE, address)
    BY <1>5 DEF Open, At, Then
  <2>2. acls = Bindings
    BY <2>1 DEF Apply, Accepted, ProvInv, ClusterInv, NeverLockedOut
  <2>3. ClusterInv' /\ exists'
    BY <1>1, <2>1, <2>2, ApplyKeeps DEF ProvInv
  <2>4. ScriptInv'
    BY <2>1, <2>3 DEF ScriptInv
  <2> QED
    BY <1>2, <2>3, <2>4 DEF ProvInv
<1>6. CASE HalfApplied
  <2>1. /\ step' = "off" /\ public' = FALSE /\ endpoint' = FALSE /\ output' \in {0, output}
        /\ UNCHANGED <<backend, exists, restricted, built, acls, topicsOn>>
    BY <1>6 DEF HalfApplied, At, Then
  <2>2. ClusterInv'
    <3>1. NeverLockedOut' /\ acls' \subseteq Bindings'
      BY <2>1 DEF ProvInv, ClusterInv, NeverLockedOut, Bindings
    <3>2. /\ output' = 0 \/ (exists' /\ output' = built')
          /\ built' \in Nat /\ envFile' \in 0..built' /\ (exists' => backend')
      BY <1>1, <2>1 DEF ProvInv, ClusterInv
    <3>3. topicsOn' \subseteq {NewTopic(name) : name \in Topics}
      BY <2>1 DEF ProvInv, ClusterInv
    <3>4. /\ backend' \in BOOLEAN /\ exists' \in BOOLEAN /\ public' \in BOOLEAN
          /\ restricted' \in BOOLEAN /\ endpoint' \in BOOLEAN /\ wasPublic' \in BOOLEAN
          /\ (endpoint' => public') /\ (public' => restricted') /\ (restricted' => exists')
      BY <1>1, <2>1, Zenon DEF ProvInv, ClusterInv
    <3> QED
      BY <3>1, <3>2, <3>3, <3>4, Zenon DEF ClusterInv
  <2>3. ScriptInv'
    BY <2>1 DEF ScriptInv
  <2> QED
    BY <1>2, <2>2, <2>3 DEF ProvInv
<1> QED
  BY <1>3, <1>4, <1>5, <1>6

\* create_acls.py: enforcement waits for every binding.
LEMMA AclsKeep == ASSUME ProvInv, CreateAcls PROVE ProvInv'
<1> PICK granted \in SUBSET Bindings :
      /\ acls' = acls \cup granted
      /\ step' = IF Bindings \subseteq acls' THEN (IF wasPublic THEN "topics" ELSE "enforce")
                 ELSE "off"
  BY DEF CreateAcls, Then
<1>1. /\ step = "acls"
      /\ UNCHANGED <<backend, exists, public, restricted, built, endpoint, output, topicsOn, allowed,
                     wasPublic, address, secret, envFile, prep, environ>>
  BY DEF CreateAcls, At, prepVars
<1>2. acls' \subseteq Bindings /\ (acls = Bindings => acls' = Bindings)
      /\ (Bindings \subseteq acls' => acls' = Bindings)
  BY DEF ProvInv, ClusterInv
<1>3. ClusterInv'
  BY <1>1, <1>2 DEF ProvInv, ClusterInv, NeverLockedOut
<1>4. ScriptInv'
  BY <1>1, <1>2 DEF ProvInv, ClusterInv, ScriptInv
<1> QED
  BY <1>1, <1>3, <1>4 DEF ProvInv, EnvironmentRestored

\* create_topics.py: it goes on with every topic, and with these topics only.
LEMMA TopicsKeep == ASSUME ProvInv, CreateTopics PROVE ProvInv'
<1> PICK made \in SUBSET (Topics \ Named(topicsOn)) :
      /\ topicsOn' = topicsOn \cup {NewTopic(name) : name \in made}
      /\ step' = IF Failed(Topics \ Named(topicsOn), made) THEN "off" ELSE "secrets"
  BY DEF CreateTopics, Then
<1>1. /\ step = "topics"
      /\ UNCHANGED <<backend, exists, public, restricted, built, endpoint, output, acls, allowed,
                     wasPublic, address, secret, envFile, prep, environ>>
  BY DEF CreateTopics, At, prepVars
<1>2. topicsOn \subseteq {NewTopic(name) : name \in Topics}
  BY DEF ProvInv, ClusterInv
<1>3. topicsOn' \subseteq {NewTopic(name) : name \in Topics}
  BY <1>2
<1>4. ASSUME made = Topics \ Named(topicsOn) PROVE Named(topicsOn') = Topics
  <2>1. \A name : NewTopic(name).name = name
    BY DEF NewTopic
  <2>2. \A t \in topicsOn' : t.name \in Topics
    BY <1>3, <2>1
  <2>3. \A name \in Topics : \E t \in topicsOn' : t.name = name
    BY <1>4, <2>1 DEF Named
  <2> QED
    BY <2>2, <2>3 DEF Named
<1>5. ClusterInv'
  BY <1>1, <1>3 DEF ProvInv, ClusterInv, NeverLockedOut
<1>6. ScriptInv'
  BY <1>1, <1>4 DEF ProvInv, ScriptInv, Failed, Named
<1> QED
  BY <1>1, <1>5, <1>6 DEF ProvInv, EnvironmentRestored

\* prepare applies only to a cluster that is enforced, and gives the environment
\* back on every way out.
LEMMA PrepKeeps ==
  ASSUME ProvInv, PrepBegins \/ PrepStep \/ PrepFails PROVE ProvInv'
<1>1. UNCHANGED <<envFile, step, wasPublic, secret>>
  BY DEF PrepBegins, PrepStep, PrepFails, Credentials, FindStack, Detect, Refresh, Verify, Prep,
     bootVars
<1>2. EnvironmentRestored'
  BY DEF ProvInv, PrepBegins, PrepStep, PrepFails, Credentials, FindStack, Detect, Refresh,
     Verify, Prep, Next_, Returns, EnvironmentRestored
<1>3. CASE UNCHANGED clusterVars
  BY <1>1, <1>2, <1>3 DEF ProvInv, ClusterInv, ScriptInv, NeverLockedOut, clusterVars, Bindings
<1>4. CASE Apply(TRUE, TRUE, prepAddress)
  <2>1. restricted /\ exists /\ acls = Bindings
    BY <1>4 DEF Apply, Accepted, ProvInv, ClusterInv, NeverLockedOut
  <2>2. /\ ClusterInv' /\ exists' /\ (endpoint => endpoint') /\ built' = built
        /\ acls' = acls /\ topicsOn' = topicsOn /\ backend
    BY <1>1, <1>4, <2>1, ApplyKeeps DEF ProvInv, ClusterInv
  <2>3. ScriptInv'
    BY <1>1, <1>4, <2>1, <2>2 DEF ProvInv, ScriptInv
  <2> QED
    BY <1>2, <2>2, <2>3 DEF ProvInv
<1>5. UNCHANGED clusterVars \/ Apply(TRUE, TRUE, prepAddress)
  BY DEF PrepBegins, PrepStep, PrepFails, Credentials, FindStack, Detect, Refresh, Verify
<1> QED
  BY <1>3, <1>4, <1>5

\* Every step of the scripts, of AWS and of the operator keeps the invariant.
LEMMA ProvInductive == ProvInv /\ [ProvNext]_provVars => ProvInv'
<1> SUFFICES ASSUME ProvInv, [ProvNext]_provVars PROVE ProvInv'
  OBVIOUS
<1>1. CASE UNCHANGED provVars
  BY <1>1 DEF provVars, clusterVars, bootVars, prepVars, ProvInv, ClusterInv, ScriptInv,
     EnvironmentRestored, NeverLockedOut, Bindings
<1> QED
  BY <1>1, WorldKeeps, QuietKeeps, AppliesKeep, AclsKeep, TopicsKeep, PrepKeeps DEF ProvNext, BootStep

\* What "Ready." means follows.
LEMMA ReadyTrue == ProvInv => ReadyIsReady
<1> SUFFICES ASSUME ProvInv, step = "ready", exists PROVE
      /\ public /\ endpoint /\ restricted /\ secret = built
      /\ Named(topicsOn) = Topics /\ \A t \in topicsOn : t.insync < t.replicas
  BY DEF ReadyIsReady
<1>1. \A name : NewTopic(name).insync < NewTopic(name).replicas
  BY ReplicationAssumption DEF NewTopic
<1>2. \A t \in topicsOn : t.insync < t.replicas
  BY <1>1 DEF ProvInv, ClusterInv
<1> QED
  BY <1>2 DEF ProvInv, ClusterInv, ScriptInv

\* Where a notebook is led.
LEMMA TargetTrue == ProvInv => TargetFresh
<1> SUFFICES ASSUME ProvInv PROVE TargetFresh
  OBVIOUS
<1>1. /\ built \in Nat /\ envFile \in 0..built
      /\ (output = 0 \/ (exists /\ output = built)) /\ (endpoint => exists /\ backend)
  BY DEF ProvInv, ClusterInv
<1>2. Resolve("local") = Local /\ Resolve("msk") = Msk /\ Resolve("terraform") = FromTerraform
  BY DEF Resolve
<1>3. ASSUME endpoint, session = "valid" PROVE Resolve("terraform") # {}
  <2>1. Target("msk", built, TRUE) \in FromTerraform
    BY <1>1, <1>3 DEF FromTerraform, Output, AwsPublicBrokers
  <2> QED
    BY <1>2, <2>1
<1>4. ASSUME NEW t \in FromTerraform PROVE exists /\ t.bootstrap = built /\ t.uses_sasl = TRUE
  <2>1. PICK b \in UNION {IF value # 0 THEN {value} ELSE AwsPublicBrokers : value \in Output(output)} :
          t = Target("msk", b, TRUE)
    BY DEF FromTerraform
  <2>2. exists /\ b = built
    BY <1>1, <2>1 DEF Output, AwsPublicBrokers
  <2> QED
    BY <2>1, <2>2 DEF Target
<1>5. \A t \in Resolve("terraform") : exists /\ Reaches(t)
  BY <1>2, <1>4, Zenon DEF Reaches
<1>6. ASSUME NEW t \in Local PROVE t.uses_sasl = FALSE /\ t.bootstrap = Compose
  BY DEF Local, Target
<1>7. ASSUME NEW t \in Msk \cup FromTerraform
      PROVE  t.uses_sasl = TRUE /\ t.bootstrap # Compose
  <2>1. \A b \in 0..built : b # Compose
    BY <1>1 DEF Compose
  <2>2. CASE t \in Msk
    <3>1. t.uses_sasl = TRUE /\ t.bootstrap \in 0..built
      BY <1>1, <2>2 DEF Msk, Target
    <3> QED
      BY <2>1, <3>1
  <2>3. CASE t \in FromTerraform
    <3>1. t.uses_sasl = TRUE /\ t.bootstrap = built
      BY <1>4, <2>3, Zenon
    <3>2. built \in 0..built
      BY <1>1
    <3> QED
      BY <2>1, <3>1, <3>2
  <2> QED
    BY <2>2, <2>3
<1> QED
  BY <1>2, <1>3, <1>5, <1>6, <1>7 DEF TargetFresh

\* Provisioning may fail, be killed and repeated at any command, with wipes,
\* address changes and edits of .env in between, as often as one likes: nobody is
\* locked out, "Ready." is true, the environment is given back, and a notebook is
\* led to the cluster that exists.
THEOREM ProvisioningIsSound == ProvSpec => []ProvisionSound
<1>1. ProvInit => ProvInv
  <2> SUFFICES ASSUME ProvInit PROVE ProvInv
    OBVIOUS
  <2>1. /\ backend = FALSE /\ exists = FALSE /\ public = FALSE /\ restricted = FALSE /\ endpoint = FALSE
        /\ wasPublic = FALSE /\ built = 0 /\ output = 0 /\ envFile = 0
        /\ acls = {} /\ topicsOn = {} /\ step = "off" /\ environ = "own"
    BY Zenon DEF ProvInit
  <2>2. envFile \in 0..built /\ built \in Nat
    BY <2>1
  <2>3. ClusterInv
    BY <2>1, <2>2 DEF ClusterInv, NeverLockedOut
  <2> QED
    BY <2>1, <2>3 DEF ProvInv, ScriptInv, EnvironmentRestored
<1>2. ProvInv => ProvisionSound
  BY ReadyTrue, TargetTrue DEF ProvisionSound, ProvInv, ClusterInv
<1> QED
  BY <1>1, <1>2, ProvInductive, PTL DEF ProvSpec

-----------------------------------------------------------------------------
(* The bars. *)

\* The window holds trades.
TapeInv == tape \in Seq(Trade)

\* It keeps holding trades.
LEMMA TapeKeeps == TapeInv /\ [BarsNext]_barVars => TapeInv'
<1> SUFFICES ASSUME TapeInv, [BarsNext]_barVars PROVE TapeInv'
  OBVIOUS
<1>1. CASE \E t \in Trade : TradeArrives(t)
  <2>1. PICK t \in Trade : tape' = Append(tape, t)
    BY <1>1 DEF TradeArrives
  <2> HIDE DEF Trade
  <2>2. QED
    BY <2>1, AppendProperties DEF TapeInv
<1>2. CASE UNCHANGED tape
  BY <1>2 DEF TapeInv
<1>3. QED
  BY <1>1, <1>2 DEF BarsNext, MinutePasses, barVars

\* The positions of the tape, and what lies there.
LEMMA TapePlaces ==
  ASSUME TapeInv
  PROVE  /\ DOMAIN tape = 1..Len(tape) /\ IsFiniteSet(DOMAIN tape)
         /\ \A i \in DOMAIN tape : /\ tape[i].price \in Nat \ {0} /\ tape[i].size \in Nat
                                  /\ tape[i].side \in {"BUY", "SELL"} /\ tape[i].minute \in Nat
<1>1. Len(tape) \in Nat /\ DOMAIN tape = 1..Len(tape) /\ \A i \in 1..Len(tape) : tape[i] \in Trade
  <2> HIDE DEF Trade
  <2>1. QED
    BY LenProperties, ElementOfSeq DEF TapeInv
<1>2. IsFiniteSet(1..Len(tape))
  <2>1. 1 \in Int /\ Len(tape) \in Int
    BY <1>1
  <2>2. QED
    BY <2>1, FS_Interval
<1>3. \A t \in Trade : t.price \in Nat \ {0} /\ t.size \in Nat /\ t.side \in {"BUY", "SELL"} /\ t.minute \in Nat
  <2>1. \A k \in 1..MaxMinutes : k \in Nat
    BY BarInputs
  <2>2. \A t \in Trade : t.price \in Prices /\ t.size \in Sizes /\ t.side \in {"BUY", "SELL"} /\ t.minute \in 1..MaxMinutes
    BY DEF Trade
  <2>3. QED
    BY <2>1, <2>2, BarInputs
<1>4. QED
  <2> HIDE DEF Trade
  <2>1. QED
    BY <1>1, <1>2, <1>3

\* The measures that add up.
Additive == {"volume", "notional", "buy_vol", "sell_vol"}

\* What a trade adds to each of them.
LEMMA AddsFacts ==
  ASSUME TapeInv, NEW i \in DOMAIN tape
  PROVE  /\ \A m \in Additive : Adds(tape[i], m) \in Nat
         /\ Adds(tape[i], "volume") = Adds(tape[i], "buy_vol") + Adds(tape[i], "sell_vol")
         /\ Adds(tape[i], "notional") = tape[i].price * Adds(tape[i], "volume")
<1>1. tape[i].price \in Nat \ {0} /\ tape[i].size \in Nat /\ tape[i].side \in {"BUY", "SELL"}
  BY TapePlaces
<1>2. Adds(tape[i], "volume") = tape[i].size /\ Adds(tape[i], "notional") = tape[i].price * tape[i].size
      /\ Adds(tape[i], "buy_vol") = (IF tape[i].side = "BUY" THEN tape[i].size ELSE 0)
      /\ Adds(tape[i], "sell_vol") = (IF tape[i].side = "SELL" THEN tape[i].size ELSE 0)
  BY DEF Adds
<1> DEFINE p == tape[i].price
           z == tape[i].size
<1>3. p * z \in Nat
  <2>1. p \in Nat /\ z \in Nat
    BY <1>1
  <2> HIDE DEF p, z
  <2>2. QED
    BY <2>1
<1>4. Adds(tape[i], "buy_vol") \in Nat /\ Adds(tape[i], "sell_vol") \in Nat
      /\ Adds(tape[i], "volume") = Adds(tape[i], "buy_vol") + Adds(tape[i], "sell_vol")
  BY <1>1, <1>2
<1>5. QED
  <2> HIDE DEF Adds
  <2>1. Adds(tape[i], "volume") \in Nat /\ Adds(tape[i], "notional") \in Nat
    BY <1>1, <1>2, <1>3
  <2>2. QED
    BY <1>2, <1>4, <2>1 DEF Additive

\* A total is a sum over the positions.
LEMMA TotalIsSum ==
  ASSUME TapeInv, NEW at, at \subseteq DOMAIN tape, NEW m \in Additive, NEW w, w = [i \in DOMAIN tape |-> Adds(tape[i], m)]
  PROVE  /\ Total(at, m) = Sum(w, at) /\ Total(at, m) \in Nat /\ IsFiniteSet(at)
         /\ \A i \in DOMAIN tape : w[i] \in Nat
<1> DEFINE v == [i \in at |-> Adds(tape[i], m)]
<1>1. \A i \in DOMAIN tape : w[i] \in Nat
  BY AddsFacts
<1>2. \A i \in at : v[i] = w[i] /\ v[i] \in Nat
  BY <1>1
<1>3. IsFiniteSet(at)
  BY TapePlaces, FS_Subset
<1>4. Total(at, m) = Sum(v, at)
  <2>1. Total(at, m) = SumFunction(v) /\ DOMAIN v = at
    BY DEF Total
  <2> HIDE DEF v
  <2>2. QED
    BY <2>1, SumFunctionIsSum
<1> HIDE DEF v
<1>5. Sum(v, at) \in Nat /\ Sum(v, at) = Sum(w, at)
  BY <1>2, <1>3, SumAgrees
<1>6. QED
  BY <1>1, <1>3, <1>4, <1>5

\* The groups of the tape and their bars.
AtGrain(n, g) == {i \in DOMAIN tape : Grain(n, i) = g}

\* Every group has trades, and its bar is that of its trades.
LEMMA BarsFacts ==
  ASSUME TapeInv, NEW n \in Nat \ {0}, NEW bars, bars = BarsOf(n), NEW c, c = [i \in DOMAIN tape |-> Grain(n, i)]
  PROVE  /\ DOMAIN bars = {c[i] : i \in DOMAIN tape} /\ IsFiniteSet(DOMAIN bars)
         /\ \A i \in DOMAIN tape : c[i] \in DOMAIN bars
         /\ \A g \in DOMAIN bars : bars[g] = BarFromTrades(AtGrain(n, g)) /\ AtGrain(n, g) # {}
<1> HIDE DEF Grain, BarFromTrades
<1>1. DOMAIN bars = {c[i] : i \in DOMAIN tape}
  BY DEF BarsOf
<1>2. \A g \in DOMAIN bars : bars[g] = BarFromTrades(AtGrain(n, g))
  BY DEF BarsOf, AtGrain
<1>3. IsFiniteSet(DOMAIN bars)
  <2> DEFINE D == DOMAIN bars
             S == DOMAIN tape
  <2>1. D = {c[i] : i \in S} /\ IsFiniteSet(S)
    BY <1>1, TapePlaces
  <2> HIDE DEF D, S
  <2>2. IsFiniteSet(D)
    BY <2>1, ImageCount
  <2>3. QED
    BY <2>2 DEF D
<1>4. \A g \in DOMAIN bars : AtGrain(n, g) # {}
  BY <1>1 DEF AtGrain
<1>5. QED
  BY <1>1, <1>2, <1>3, <1>4

\* The fields of a bar.
LEMMA BarFields ==
  ASSUME NEW at, NEW b, b = BarFromTrades(at)
  PROVE  /\ \A m \in Additive : b[m] = Total(at, m)
         /\ b.high = Max(PricesOf(at)) /\ b.low = Min(PricesOf(at)) /\ b.trade_count = Cardinality(at)
<1> HIDE DEF Total, PricesOf
<1>1. QED
  BY DEF BarFromTrades, Additive

\* What a rollup sums is what the tape sums.
LEMMA RollSumIsTotal ==
  ASSUME TapeInv, NEW n \in Nat \ {0}, NEW bars, bars = BarsOf(n), NEW m \in Additive
  PROVE  RollSum(bars, m) = Total(DOMAIN tape, m)
<1> DEFINE S == DOMAIN tape
           c == [i \in S |-> Grain(n, i)]
           w == [i \in S |-> Adds(tape[i], m)]
           D == DOMAIN bars
           v == [g \in D |-> bars[g][m]]
           u == [g \in D |-> Sum(w, {i \in S : c[i] = g})]
<1>1. /\ IsFiniteSet(D) /\ \A i \in S : c[i] \in D
      /\ \A g \in D : bars[g] = BarFromTrades(AtGrain(n, g))
  <2>0. c = [i \in DOMAIN tape |-> Grain(n, i)]
    OBVIOUS
  <2> HIDE DEF Grain, BarFromTrades, BarsOf, c
  <2>1. IsFiniteSet(D) /\ (\A i \in S : c[i] \in D)
    BY <2>0, BarsFacts
  <2>2. \A g \in D : bars[g] = BarFromTrades(AtGrain(n, g))
    BY <2>0, BarsFacts
  <2>3. QED
    BY <2>1, <2>2
<1>2. Total(S, m) = Sum(w, S) /\ IsFiniteSet(S) /\ \A i \in S : w[i] \in Nat
  <2>1. w = [i \in DOMAIN tape |-> Adds(tape[i], m)]
    OBVIOUS
  <2> HIDE DEF w, Adds
  <2>2. QED
    BY <2>1, TotalIsSum
<1>3. \A g \in D : bars[g][m] = Sum(w, {i \in S : c[i] = g})
  <2> SUFFICES ASSUME NEW g \in D PROVE bars[g][m] = Sum(w, {i \in S : c[i] = g})
    OBVIOUS
  <2> DEFINE at == {i \in S : c[i] = g}
  <2>1. bars[g][m] = Total(at, m)
    <3>1. bars[g] = BarFromTrades(at)
      <4>1. AtGrain(n, g) = at
        BY DEF AtGrain
      <4> HIDE DEF at, BarFromTrades
      <4>2. QED
        BY <1>1, <4>1
    <3> HIDE DEF at
    <3>2. QED
      BY <3>1, BarFields
  <2>2. Total(at, m) = Sum(w, at)
    <3>1. at \subseteq DOMAIN tape /\ w = [i \in DOMAIN tape |-> Adds(tape[i], m)]
      OBVIOUS
    <3> HIDE DEF at, w, Adds
    <3>2. QED
      BY <3>1, TotalIsSum
  <2>3. QED
    BY <2>1, <2>2
<1>4. v = u
  <2> HIDE DEF w, c, S
  <2>1. QED
    BY <1>3
<1>5. RollSum(bars, m) = Sum(v, D)
  <2>1. RollSum(bars, m) = SumFunction(v) /\ DOMAIN v = D
    BY DEF RollSum
  <2> HIDE DEF v, D
  <2>2. QED
    BY <2>1, SumFunctionIsSum
<1>6. Sum(w, S) = Sum(u, D)
  <2> HIDE DEF w, c, S, D
  <2>1. QED
    BY <1>1, <1>2, SumFibres
<1>7. QED
  BY <1>2, <1>4, <1>5, <1>6

\* A sum over one bar is its own measure.
LEMMA WholeSum ==
  ASSUME TapeInv, NEW m \in Additive
  PROVE  RollSum(Whole, m) = Total(DOMAIN tape, m)
<1> DEFINE S == DOMAIN tape
           v == [g \in DOMAIN Whole |-> Whole[g][m]]
           t == Total(S, m)
           e == "window"
           D == {e}
<1>1. DOMAIN Whole = D /\ Whole[e] = BarFromTrades(S)
  BY DEF Whole
<1>2. v[e] = t /\ DOMAIN v = D
  <2>1. Whole[e][m] = Total(S, m)
    BY <1>1, BarFields
  <2>2. QED
    BY <1>1, <2>1
<1>3. t \in Nat
  <2> DEFINE w == [i \in DOMAIN tape |-> Adds(tape[i], m)]
  <2>1. w = [i \in DOMAIN tape |-> Adds(tape[i], m)]
    OBVIOUS
  <2> HIDE DEF w, t
  <2>2. QED
    BY <2>1, TotalIsSum DEF t
<1>4. RollSum(Whole, m) = Sum(v, D)
  <2>1. RollSum(Whole, m) = SumFunction(v)
    BY DEF RollSum
  <2> HIDE DEF v, D
  <2>2. QED
    BY <1>2, <2>1, SumFunctionIsSum
<1> HIDE DEF v, t, e
<1>5. Sum(v, D) = v[e] + Sum(v, D \ {e})
  <2>1. IsFiniteSet(D) /\ e \in D /\ \A k \in D : v[k] \in Nat
    BY <1>2, <1>3, FS_Singleton
  <2> HIDE DEF D
  <2>2. QED
    BY <2>1, SumRemoves
<1>6. Sum(v, D \ {e}) = 0
  <2>1. D \ {e} = {}
    OBVIOUS
  <2>2. QED
    BY <2>1, SumEmpty
<1>7. QED
  BY <1>2, <1>3, <1>4, <1>5, <1>6 DEF t

\* The prices of some trades, and their extremes.
LEMMA PriceBounds ==
  ASSUME TapeInv, NEW at, at \subseteq DOMAIN tape, at # {}, NEW P, P = PricesOf(at)
  PROVE  /\ Max(P) \in P /\ Min(P) \in P /\ Max(P) \in Nat /\ Min(P) \in Nat
         /\ \A i \in at : Min(P) <= tape[i].price /\ tape[i].price <= Max(P)
<1> DEFINE f == [i \in at |-> tape[i].price]
<1>1. P = {f[i] : i \in at} /\ P = {tape[i].price : i \in at}
  BY DEF PricesOf
<1>2. \A i \in at : tape[i].price \in Nat
  BY TapePlaces
<1>3. P \subseteq Int /\ P # {} /\ P \subseteq Nat
  BY <1>1, <1>2
<1>4. IsFiniteSet(at)
  BY TapePlaces, FS_Subset
<1> HIDE DEF f
<1>5. IsFiniteSet(P)
  BY <1>1, <1>4, ImageCount
<1>6. Max(P) \in P /\ \A x \in P : x <= Max(P)
  BY <1>3, <1>5, Extremes
<1>7. Min(P) \in P /\ \A x \in P : Min(P) <= x
  BY <1>3, <1>5, Extremes
<1>8. QED
  BY <1>1, <1>3, <1>6, <1>7

\* The highest of the highs is the highest price.
LEMMA SameExtremes ==
  ASSUME TapeInv, NEW n \in Nat \ {0}, NEW bars, bars = BarsOf(n), DOMAIN bars # {}
  PROVE  /\ Max(FieldOf(bars, "high")) = Max(PricesOf(DOMAIN tape))
         /\ Min(FieldOf(bars, "low")) = Min(PricesOf(DOMAIN tape))
<1> DEFINE S == DOMAIN tape
           c == [i \in S |-> Grain(n, i)]
           D == DOMAIN bars
           Grouped(g) == AtGrain(n, g)
           P == PricesOf(S)
           H == FieldOf(bars, "high")
           L == FieldOf(bars, "low")
<1>1. /\ IsFiniteSet(D) /\ (\A i \in S : c[i] \in D) /\ D = {c[i] : i \in S}
      /\ \A g \in D : bars[g] = BarFromTrades(Grouped(g)) /\ Grouped(g) # {}
  <2>0. c = [i \in DOMAIN tape |-> Grain(n, i)]
    OBVIOUS
  <2> HIDE DEF Grain, BarFromTrades, BarsOf, c
  <2>1. IsFiniteSet(D) /\ (\A i \in S : c[i] \in D)
    BY <2>0, BarsFacts
  <2>2. \A g \in D : bars[g] = BarFromTrades(AtGrain(n, g))
    BY <2>0, BarsFacts
  <2>3. D = {c[i] : i \in S} /\ \A g \in D : AtGrain(n, g) # {}
    <3>1. D = {c[i] : i \in S}
      BY <2>0, BarsFacts
    <3>2. \A g \in D : AtGrain(n, g) # {}
      BY <2>0, BarsFacts
    <3>3. QED
      BY <3>1, <3>2
  <2>4. QED
    BY <2>1, <2>2, <2>3
<1>2. S # {}
  BY <1>1
<1>3. \A g \in D : bars[g].high = Max(PricesOf(Grouped(g))) /\ bars[g].low = Min(PricesOf(Grouped(g)))
  <2> SUFFICES ASSUME NEW g \in D PROVE bars[g].high = Max(PricesOf(Grouped(g))) /\ bars[g].low = Min(PricesOf(Grouped(g)))
    OBVIOUS
  <2> DEFINE at == Grouped(g)
  <2>1. bars[g] = BarFromTrades(at)
    BY <1>1
  <2> HIDE DEF at
  <2>2. bars[g].high = Max(PricesOf(at)) /\ bars[g].low = Min(PricesOf(at))
    BY <2>1, BarFields
  <2>3. QED
    BY <2>2 DEF at
<1>4. /\ Max(P) \in P /\ Min(P) \in P /\ Max(P) \in Nat /\ Min(P) \in Nat
      /\ \A i \in S : Min(P) <= tape[i].price /\ tape[i].price <= Max(P)
  <2> HIDE DEF P
  <2>1. QED
    BY <1>2, PriceBounds DEF P
<1>5. \A g \in D : /\ bars[g].high \in Nat /\ bars[g].low \in Nat
                   /\ bars[g].high \in P /\ bars[g].low \in P
                   /\ \A i \in Grouped(g) : bars[g].low <= tape[i].price /\ tape[i].price <= bars[g].high
  <2> SUFFICES ASSUME NEW g \in D
               PROVE /\ bars[g].high \in Nat /\ bars[g].low \in Nat /\ bars[g].high \in P /\ bars[g].low \in P
                     /\ \A i \in Grouped(g) : bars[g].low <= tape[i].price /\ tape[i].price <= bars[g].high
    OBVIOUS
  <2> DEFINE at == Grouped(g)
             Q == PricesOf(at)
  <2>1. at \subseteq S /\ at # {}
    <3>1. AtGrain(n, g) \subseteq S
      BY DEF AtGrain
    <3>2. AtGrain(n, g) # {}
      BY <1>1
    <3>3. QED
      BY <3>1, <3>2
  <2>2. Q \subseteq P
    BY <2>1 DEF PricesOf
  <2> HIDE DEF at, Q
  <2>3. /\ Max(Q) \in Q /\ Min(Q) \in Q /\ Max(Q) \in Nat /\ Min(Q) \in Nat
        /\ \A i \in at : Min(Q) <= tape[i].price /\ tape[i].price <= Max(Q)
    BY <2>1, PriceBounds DEF Q
  <2>4. bars[g].high = Max(Q) /\ bars[g].low = Min(Q)
    BY <1>3 DEF Q, at
  <2> HIDE DEF P
  <2>5. QED
    BY <2>2, <2>3, <2>4 DEF at
<1>6. H = {bars[g].high : g \in D} /\ L = {bars[g].low : g \in D}
  BY DEF FieldOf
<1>7. IsFiniteSet(H) /\ IsFiniteSet(L)
  <2> DEFINE h == [g \in D |-> bars[g].high]
             l == [g \in D |-> bars[g].low]
  <2>1. H = {h[g] : g \in D} /\ L = {l[g] : g \in D}
    BY <1>6
  <2> HIDE DEF h, l, H, L, D
  <2>2. QED
    BY <1>1, <2>1, ImageCount
<1>8. H \subseteq Int /\ H # {} /\ L \subseteq Int /\ L # {}
  <2> HIDE DEF H, L, P, Grouped
  <2>1. QED
    BY <1>5, <1>6
<1> HIDE DEF H, L
<1>9. Max(H) \in H /\ \A x \in H : x <= Max(H)
  BY <1>7, <1>8, Extremes
<1>10. Min(L) \in L /\ \A x \in L : Min(L) <= x
  BY <1>7, <1>8, Extremes
<1>11. P = {tape[i].price : i \in S}
  BY DEF PricesOf
<1>12. \A i \in S : i \in Grouped(c[i]) /\ c[i] \in D
  <2>1. \A i \in S : i \in AtGrain(n, c[i])
    BY DEF AtGrain
  <2>2. QED
    BY <1>1, <2>1
<1> HIDE DEF P, Grouped, D, S, c
<1>13. Max(H) = Max(P)
  <2>1. Max(H) \in P /\ Max(H) \in Nat
    BY <1>5, <1>6, <1>9
  <2>2. Max(H) <= Max(P)
    BY <1>4, <1>11, <2>1
  <2>3. PICK i \in S : Max(P) = tape[i].price
    BY <1>4, <1>11
  <2>4. tape[i].price <= bars[c[i]].high /\ bars[c[i]].high \in H
    BY <1>5, <1>6, <1>12
  <2>5. bars[c[i]].high <= Max(H) /\ bars[c[i]].high \in Nat
    BY <1>5, <1>9, <1>12, <2>4
  <2>6. QED
    BY <1>4, <2>1, <2>2, <2>3, <2>4, <2>5
<1>14. Min(L) = Min(P)
  <2>1. Min(L) \in P /\ Min(L) \in Nat
    BY <1>5, <1>6, <1>10
  <2>2. Min(P) <= Min(L)
    BY <1>4, <1>11, <2>1
  <2>3. PICK i \in S : Min(P) = tape[i].price
    BY <1>4, <1>11
  <2>4. bars[c[i]].low <= tape[i].price /\ bars[c[i]].low \in L
    BY <1>5, <1>6, <1>12
  <2>5. Min(L) <= bars[c[i]].low /\ bars[c[i]].low \in Nat
    BY <1>5, <1>10, <1>12, <2>4
  <2>6. QED
    BY <1>4, <2>1, <2>2, <2>3, <2>4, <2>5
<1>15. QED
  BY <1>13, <1>14 DEF H, L, P, S

\* Every trade is in one bar.
LEMMA SameCounts ==
  ASSUME TapeInv, NEW n \in Nat \ {0}, NEW bars, bars = BarsOf(n)
  PROVE  /\ RollSum(bars, "trade_count") = Cardinality(DOMAIN tape)
         /\ RollSum(Whole, "trade_count") = Cardinality(DOMAIN tape)
<1> DEFINE S == DOMAIN tape
           c == [i \in S |-> Grain(n, i)]
           D == DOMAIN bars
           v == [g \in D |-> bars[g]["trade_count"]]
           u == [g \in D |-> Cardinality({i \in S : c[i] = g})]
<1>1. /\ IsFiniteSet(D) /\ (\A i \in S : c[i] \in D)
      /\ \A g \in D : bars[g] = BarFromTrades(AtGrain(n, g))
  <2>0. c = [i \in DOMAIN tape |-> Grain(n, i)]
    OBVIOUS
  <2> HIDE DEF Grain, BarFromTrades, BarsOf, c
  <2>1. IsFiniteSet(D) /\ (\A i \in S : c[i] \in D)
    BY <2>0, BarsFacts
  <2>2. \A g \in D : bars[g] = BarFromTrades(AtGrain(n, g))
    BY <2>0, BarsFacts
  <2>3. QED
    BY <2>1, <2>2
<1>2. IsFiniteSet(S)
  BY TapePlaces
<1>3. \A g \in D : bars[g].trade_count = Cardinality({i \in S : c[i] = g})
  <2> SUFFICES ASSUME NEW g \in D PROVE bars[g].trade_count = Cardinality({i \in S : c[i] = g})
    OBVIOUS
  <2> DEFINE at == {i \in S : c[i] = g}
  <2>1. bars[g] = BarFromTrades(at)
    <3>1. AtGrain(n, g) = at
      BY DEF AtGrain
    <3> HIDE DEF at, BarFromTrades
    <3>2. QED
      BY <1>1, <3>1
  <2> HIDE DEF at
  <2>2. bars[g].trade_count = Cardinality(at)
    BY <2>1, BarFields
  <2>3. QED
    BY <2>2 DEF at
<1>4. v = u
  <2> HIDE DEF c, S
  <2>1. QED
    BY <1>3
<1>5. RollSum(bars, "trade_count") = Sum(v, D)
  <2>1. RollSum(bars, "trade_count") = SumFunction(v) /\ DOMAIN v = D
    BY DEF RollSum
  <2> HIDE DEF v, D
  <2>2. QED
    BY <2>1, SumFunctionIsSum
<1>6. Cardinality(S) = Sum(u, D)
  <2> HIDE DEF c, S, D
  <2>1. QED
    BY <1>1, <1>2, CountFibres
<1>7. RollSum(Whole, "trade_count") = Cardinality(S)
  <2> DEFINE e == "window"
             E == {e}
             t == [g \in DOMAIN Whole |-> Whole[g]["trade_count"]]
  <2>1. DOMAIN Whole = E /\ Whole[e] = BarFromTrades(S)
    BY DEF Whole
  <2>2. Whole[e].trade_count = Cardinality(S)
    BY <2>1, BarFields
  <2>3. t[e] = Cardinality(S) /\ DOMAIN t = E
    BY <2>1, <2>2
  <2>4. RollSum(Whole, "trade_count") = Sum(t, E)
    <3>1. RollSum(Whole, "trade_count") = SumFunction(t)
      BY DEF RollSum
    <3> HIDE DEF t, E
    <3>2. QED
      BY <2>3, <3>1, SumFunctionIsSum
  <2>5. Cardinality(S) \in Nat
    BY <1>2, FS_CardinalityType
  <2> HIDE DEF t, e, S
  <2>6. Sum(t, E) = t[e] + Sum(t, E \ {e})
    <3>1. IsFiniteSet(E) /\ e \in E /\ \A k \in E : t[k] \in Nat
      BY <2>3, <2>5, FS_Singleton
    <3> HIDE DEF E
    <3>2. QED
      BY <3>1, SumRemoves
  <2>7. Sum(t, E \ {e}) = 0
    <3>1. E \ {e} = {}
      OBVIOUS
    <3>2. QED
      BY <3>1, SumEmpty
  <2>8. QED
    BY <2>3, <2>4, <2>5, <2>6, <2>7
<1>8. QED
  BY <1>4, <1>5, <1>6, <1>7

\* The totals of the tape are those of sensible bars.
LEMMA TapeTotals ==
  ASSUME TapeInv, DOMAIN tape # {}
  PROVE  LET S == DOMAIN tape
             P == PricesOf(S)
         IN /\ \A m \in Additive : Total(S, m) \in Nat
            /\ Total(S, "volume") = Total(S, "buy_vol") + Total(S, "sell_vol")
            /\ Min(P) * Total(S, "volume") <= Total(S, "notional")
            /\ Total(S, "notional") <= Max(P) * Total(S, "volume")
<1> DEFINE S == DOMAIN tape
           P == PricesOf(S)
           lo == Min(P)
           hi == Max(P)
           volume == [i \in DOMAIN tape |-> Adds(tape[i], "volume")]
           notional == [i \in DOMAIN tape |-> Adds(tape[i], "notional")]
           bought == [i \in DOMAIN tape |-> Adds(tape[i], "buy_vol")]
           sold == [i \in DOMAIN tape |-> Adds(tape[i], "sell_vol")]
<1>1. S \subseteq DOMAIN tape /\ IsFiniteSet(S)
  BY TapePlaces
<1>2. Total(S, "volume") = Sum(volume, S) /\ Total(S, "volume") \in Nat /\ \A i \in S : volume[i] \in Nat
  <2>1. "volume" \in Additive /\ volume = [i \in DOMAIN tape |-> Adds(tape[i], "volume")]
    BY DEF Additive
  <2> HIDE DEF volume, Adds, S, Additive
  <2>2. QED
    BY <1>1, <2>1, TotalIsSum DEF S
<1>3. Total(S, "notional") = Sum(notional, S) /\ Total(S, "notional") \in Nat /\ \A i \in S : notional[i] \in Nat
  <2>1. "notional" \in Additive /\ notional = [i \in DOMAIN tape |-> Adds(tape[i], "notional")]
    BY DEF Additive
  <2> HIDE DEF notional, Adds, S, Additive
  <2>2. QED
    BY <1>1, <2>1, TotalIsSum DEF S
<1>4. Total(S, "buy_vol") = Sum(bought, S) /\ Total(S, "buy_vol") \in Nat /\ \A i \in S : bought[i] \in Nat
  <2>1. "buy_vol" \in Additive /\ bought = [i \in DOMAIN tape |-> Adds(tape[i], "buy_vol")]
    BY DEF Additive
  <2> HIDE DEF bought, Adds, S, Additive
  <2>2. QED
    BY <1>1, <2>1, TotalIsSum DEF S
<1>5. Total(S, "sell_vol") = Sum(sold, S) /\ Total(S, "sell_vol") \in Nat /\ \A i \in S : sold[i] \in Nat
  <2>1. "sell_vol" \in Additive /\ sold = [i \in DOMAIN tape |-> Adds(tape[i], "sell_vol")]
    BY DEF Additive
  <2> HIDE DEF sold, Adds, S, Additive
  <2>2. QED
    BY <1>1, <2>1, TotalIsSum DEF S
<1>6. \A i \in S : volume[i] = bought[i] + sold[i] /\ notional[i] = tape[i].price * volume[i]
  <2> TAKE i \in S
  <2>1. /\ Adds(tape[i], "volume") = Adds(tape[i], "buy_vol") + Adds(tape[i], "sell_vol")
        /\ Adds(tape[i], "notional") = tape[i].price * Adds(tape[i], "volume")
    BY AddsFacts
  <2> HIDE DEF Adds
  <2>2. QED
    BY <2>1
<1>7. lo \in Nat /\ hi \in Nat /\ \A i \in S : lo <= tape[i].price /\ tape[i].price <= hi
  <2> HIDE DEF P, S
  <2>1. QED
    BY <1>1, PriceBounds DEF P, S
<1>8. \A i \in S : tape[i].price \in Nat
  BY TapePlaces
<1> HIDE DEF volume, notional, bought, sold, lo, hi, S, P
<1>9. Sum(volume, S) = Sum(bought, S) + Sum(sold, S)
  BY <1>1, <1>4, <1>5, <1>6, SumPlus
<1>10. \A i \in S : lo * volume[i] <= notional[i] /\ notional[i] <= hi * volume[i]
  <2> TAKE i \in S
  <2> DEFINE p == tape[i].price
             z == volume[i]
  <2>1. p \in Nat /\ z \in Nat /\ lo <= p /\ p <= hi /\ notional[i] = p * z
    BY <1>2, <1>6, <1>7, <1>8
  <2> HIDE DEF p, z
  <2>2. z * p = z * lo + z * (p - lo) /\ z * hi = z * p + z * (hi - p)
    <3>1. p - lo \in Nat /\ p = lo + (p - lo) /\ hi - p \in Nat /\ hi = p + (hi - p)
      BY <1>7, <2>1
    <3>2. z * (lo + (p - lo)) = z * lo + z * (p - lo)
      BY <1>7, <2>1, <3>1, Distributes
    <3>3. z * (p + (hi - p)) = z * p + z * (hi - p)
      BY <1>7, <2>1, <3>1, Distributes
    <3>4. QED
      BY <3>1, <3>2, <3>3
  <2>3. z * (p - lo) \in Nat /\ z * (hi - p) \in Nat /\ z * p \in Nat /\ z * lo \in Nat /\ z * hi \in Nat
    <3>1. p - lo \in Nat /\ hi - p \in Nat
      BY <1>7, <2>1
    <3>2. QED
      BY <1>7, <2>1, <3>1
  <2>4. z * p = p * z /\ z * lo = lo * z /\ z * hi = hi * z
    BY <1>7, <2>1
  <2>5. lo * z <= p * z /\ p * z <= hi * z
    BY <2>2, <2>3, <2>4
  <2>6. QED
    BY <2>1, <2>5 DEF z
<1>11. lo * Sum(volume, S) <= Sum(notional, S) /\ Sum(notional, S) <= hi * Sum(volume, S)
  <2>1. lo * Sum(volume, S) <= Sum(notional, S)
    BY <1>1, <1>2, <1>3, <1>7, <1>10, SumScaled
  <2>2. Sum(notional, S) <= hi * Sum(volume, S)
    BY <1>1, <1>2, <1>3, <1>7, <1>10, SumScaled
  <2>3. QED
    BY <2>1, <2>2
<1>12. \A m \in Additive : Total(S, m) \in Nat
  BY <1>2, <1>3, <1>4, <1>5 DEF Additive
<1>13. QED
  BY <1>2, <1>3, <1>4, <1>5, <1>9, <1>11, <1>12 DEF lo, hi, S, P

\* A rollup of the bars and the bar of the whole window say the same.
LEMMA GrainsAgree == TapeInv => RollupComposes
<1> SUFFICES ASSUME TapeInv, NEW n \in 1..MaxMinutes, CanRollup(BarsOf(n))
             PROVE  LET fine == Rollup(BarsOf(n))
                        coarse == Rollup(Whole) IN
                    /\ SameRatio(fine.vwap, coarse.vwap)
                    /\ SameRatio(fine.flow_imbalance, coarse.flow_imbalance)
                    /\ <<fine.high, fine.low, fine.volume, fine.trade_count>>
                         = <<coarse.high, coarse.low, coarse.volume, coarse.trade_count>>
                    /\ fine.vwap[2] > 0
                    /\ fine.low * fine.vwap[2] <= fine.vwap[1] /\ fine.vwap[1] <= fine.high * fine.vwap[2]
                    /\ -fine.flow_imbalance[2] <= fine.flow_imbalance[1]
                    /\ fine.flow_imbalance[1] <= fine.flow_imbalance[2]
  BY DEF RollupComposes
<1> DEFINE bars == BarsOf(n)
           S == DOMAIN tape
           P == PricesOf(S)
<1>1. n \in Nat \ {0} /\ DOMAIN bars # {} /\ RollSum(bars, "volume") > 0
  BY BarInputs DEF CanRollup
<1>2. S # {}
  BY <1>1 DEF BarsOf
<1> HIDE DEF bars
<1>3. bars = BarsOf(n)
  BY DEF bars
<1>4. \A m \in Additive : RollSum(bars, m) = Total(S, m) /\ RollSum(Whole, m) = Total(S, m)
  <2> HIDE DEF Additive, S
  <2>1. \A m \in Additive : RollSum(bars, m) = Total(S, m)
    BY <1>1, <1>3, RollSumIsTotal DEF S
  <2>2. \A m \in Additive : RollSum(Whole, m) = Total(S, m)
    BY WholeSum DEF S
  <2>3. QED
    BY <2>1, <2>2
<1>5. Max(FieldOf(bars, "high")) = Max(P) /\ Min(FieldOf(bars, "low")) = Min(P)
  BY <1>1, <1>3, SameExtremes
<1>6. Max(FieldOf(Whole, "high")) = Max(P) /\ Min(FieldOf(Whole, "low")) = Min(P)
  <2> DEFINE e == "window"
             h == Max(P)
             l == Min(P)
  <2>1. DOMAIN Whole = {e} /\ Whole[e] = BarFromTrades(S)
    BY DEF Whole
  <2>2. Whole[e].high = h /\ Whole[e].low = l
    BY <2>1, BarFields
  <2>3. h \in Nat /\ l \in Nat
    <3> HIDE DEF P, S
    <3>1. S \subseteq DOMAIN tape
      BY DEF S
    <3>2. QED
      BY <1>2, <3>1, PriceBounds DEF P
  <2> HIDE DEF e, h, l
  <2>4. FieldOf(Whole, "high") = {h} /\ FieldOf(Whole, "low") = {l}
    BY <2>1, <2>2 DEF FieldOf
  <2>5. \A x \in Nat : Max({x}) = x /\ Min({x}) = x
    <3> TAKE x \in Nat
    <3> DEFINE X == {x}
    <3>1. IsFiniteSet(X) /\ X \subseteq Int /\ X # {}
      <4>1. IsFiniteSet({x})
        BY FS_Singleton
      <4>2. QED
        BY <4>1
    <3>2. Max(X) \in X
      <4> HIDE DEF X
      <4>1. QED
        BY <3>1, Extremes
    <3>3. Min(X) \in X
      <4> HIDE DEF X
      <4>1. QED
        BY <3>1, Extremes
    <3>4. QED
      BY <3>2, <3>3
  <2>6. Max({h}) = h /\ Min({l}) = l
    BY <2>3, <2>5
  <2>7. QED
    BY <2>4, <2>6 DEF h, l
<1>7. RollSum(bars, "trade_count") = RollSum(Whole, "trade_count")
  <2>1. RollSum(bars, "trade_count") = Cardinality(S)
    BY <1>1, <1>3, SameCounts
  <2>2. RollSum(Whole, "trade_count") = Cardinality(S)
    BY <1>1, <1>3, SameCounts
  <2>3. QED
    BY <2>1, <2>2
<1> DEFINE a == Total(S, "volume")
           b == Total(S, "notional")
           x == Total(S, "buy_vol")
           y == Total(S, "sell_vol")
           lo == Min(P)
           hi == Max(P)
<1>8. a \in Nat /\ b \in Nat /\ x \in Nat /\ y \in Nat /\ a = x + y /\ lo * a <= b /\ b <= hi * a
  <2>1. \A m \in Additive : Total(S, m) \in Nat
    BY <1>2, TapeTotals
  <2>2. a \in Nat /\ b \in Nat /\ x \in Nat /\ y \in Nat
    BY <2>1 DEF Additive
  <2>3. a = x + y
    BY <1>2, TapeTotals
  <2>4. lo * a <= b
    BY <1>2, TapeTotals
  <2>5. b <= hi * a
    BY <1>2, TapeTotals
  <2>6. QED
    BY <2>2, <2>3, <2>4, <2>5
<1>9. a > 0
  BY <1>1, <1>4 DEF Additive
<1> HIDE DEF a, b, x, y, lo, hi
<1> DEFINE fine == Rollup(bars)
           coarse == Rollup(Whole)
<1>10. \A r \in {bars, Whole} : /\ Rollup(r).vwap = <<RollSum(r, "notional"), RollSum(r, "volume")>>
                                /\ Rollup(r).flow_imbalance = <<RollSum(r, "buy_vol") - RollSum(r, "sell_vol"), RollSum(r, "volume")>>
                                /\ Rollup(r).high = Max(FieldOf(r, "high")) /\ Rollup(r).low = Min(FieldOf(r, "low"))
                                /\ Rollup(r).volume = RollSum(r, "volume") /\ Rollup(r).trade_count = RollSum(r, "trade_count")
  <2> HIDE DEF RollSum, FieldOf
  <2>1. QED
    BY DEF Rollup, Vwap
<1>11. /\ fine.vwap = <<b, a>> /\ fine.flow_imbalance = <<x - y, a>> /\ fine.high = hi /\ fine.low = lo /\ fine.volume = a
       /\ coarse.vwap = <<b, a>> /\ coarse.flow_imbalance = <<x - y, a>> /\ coarse.high = hi /\ coarse.low = lo /\ coarse.volume = a
       /\ fine.trade_count = coarse.trade_count
  <2> HIDE DEF Rollup
  <2>1. /\ RollSum(bars, "volume") = a /\ RollSum(bars, "notional") = b /\ RollSum(bars, "buy_vol") = x /\ RollSum(bars, "sell_vol") = y
        /\ RollSum(Whole, "volume") = a /\ RollSum(Whole, "notional") = b /\ RollSum(Whole, "buy_vol") = x /\ RollSum(Whole, "sell_vol") = y
    BY <1>4 DEF Additive, a, b, x, y
  <2>2. QED
    BY <1>5, <1>6, <1>7, <1>10, <2>1 DEF lo, hi
<1> HIDE DEF fine, coarse
<1>12. SameRatio(fine.vwap, coarse.vwap) /\ SameRatio(fine.flow_imbalance, coarse.flow_imbalance)
  <2>1. fine.vwap = coarse.vwap /\ fine.vwap = <<b, a>> /\ fine.flow_imbalance = coarse.flow_imbalance /\ fine.flow_imbalance = <<x - y, a>>
    BY <1>11
  <2>2. b * a = b * a /\ (x - y) * a = (x - y) * a
    OBVIOUS
  <2>3. QED
    BY <2>1 DEF SameRatio
<1>13. -a <= x - y /\ x - y <= a
  BY <1>8
<1>14. /\ fine.vwap[2] = a /\ fine.vwap[1] = b /\ fine.flow_imbalance[2] = a /\ fine.flow_imbalance[1] = x - y
  BY <1>11
<1>15. QED
  <2>1. fine.low * fine.vwap[2] <= fine.vwap[1] /\ fine.vwap[1] <= fine.high * fine.vwap[2] /\ fine.vwap[2] > 0
    BY <1>8, <1>9, <1>11, <1>14
  <2>2. -fine.flow_imbalance[2] <= fine.flow_imbalance[1] /\ fine.flow_imbalance[1] <= fine.flow_imbalance[2]
    BY <1>13, <1>14
  <2>3. <<fine.high, fine.low, fine.volume, fine.trade_count>>
           = <<coarse.high, coarse.low, coarse.volume, coarse.trade_count>>
    BY <1>11
  <2>4. QED
    BY <1>12, <2>1, <2>2, <2>3 DEF fine, coarse, bars

\* A measure is the same at every grain, however the trades fall into minutes, for
\* any prices and sizes (bar_from_trades and rollup of src/awsnative/bars.py).
THEOREM GrainsCompose == BarsSpec => []RollupComposes
<1>1. BarsInit => TapeInv
  <2> HIDE DEF Trade
  <2>1. QED
    BY DEF BarsInit, TapeInv
<1>2. TapeInv /\ [BarsNext]_barVars => TapeInv'
  BY TapeKeeps
<1>3. TapeInv => RollupComposes
  BY GrainsAgree
<1>4. QED
  BY <1>1, <1>2, <1>3, PTL DEF BarsSpec

-----------------------------------------------------------------------------
(* The dashboard. *)
\* The value of a cell.
LEMMA CellValue ==
  ASSUME NEW S, NEW cell, IsCell(cell, S)
  PROVE  /\ cell # {} => OrZero(cell) \in S /\ cell = {OrZero(cell)}
         /\ cell = {} => OrZero(cell) = 0
<1>1. ASSUME cell # {} PROVE OrZero(cell) \in S /\ cell = {OrZero(cell)}
  <2>1. PICK v \in cell : TRUE
    BY <1>1
  <2>2. cell = {v} /\ v \in S
    BY <2>1 DEF IsCell
  <2>3. OrZero(cell) = v
    BY <2>2 DEF OrZero
  <2>4. QED
    BY <2>2, <2>3
<1>2. cell = {} => OrZero(cell) = 0
  BY DEF OrZero
<1>3. QED
  BY <1>1, <1>2

\* The rows of an answer are finitely many, and there are some unless it is empty.
LEMMA RowsFinite ==
  ASSUME NEW rows, rows \in Seq(Range(rows))
  PROVE  /\ IsFiniteSet(Range(rows)) /\ (rows # <<>> <=> Range(rows) # {})
         /\ (rows # <<>> => LastRows(rows) # <<>>) /\ (rows = <<>> => LastRows(rows) = <<>>)
<1> DEFINE R == Range(rows)
           n == Len(rows)
<1>1. n \in Nat /\ DOMAIN rows = 1..n /\ rows \in Seq(R)
  BY LenProperties
<1>2. R = {rows[i] : i \in DOMAIN rows}
  BY DEF Range
<1>3. IsFiniteSet(1..n)
  <2>1. 1 \in Int /\ n \in Int
    BY <1>1
  <2>2. QED
    BY <2>1, FS_Interval
<1>4. IsFiniteSet(R)
  <2> HIDE DEF R, n
  <2>1. R = {rows[i] : i \in 1..n}
    BY <1>1, <1>2
  <2>2. QED
    BY <1>3, <2>1, ImageCount
<1>5. rows = <<>> <=> n = 0
  <2> HIDE DEF R
  <2>1. QED
    BY <1>1, EmptySeq
<1>6. rows # <<>> <=> R # {}
  <2> HIDE DEF R, n
  <2>1. n = 0 <=> 1..n = {}
    BY <1>1
  <2>2. QED
    BY <1>1, <1>2, <1>5, <2>1
<1>7. rows # <<>> => LastRows(rows) # <<>>
  <2> SUFFICES ASSUME rows # <<>>, n > 40 PROVE SubSeq(rows, n - 39, n) # <<>>
    BY <1>1 DEF LastRows
  <2> DEFINE a == n - 39
             s == SubSeq(rows, a, n)
  <2>1. Len(s) = 40
    <3>1. a \in 1..n+1 /\ n \in a-1..n
      BY <1>1
    <3> HIDE DEF R, n, a
    <3>2. Len(s) = n - a + 1
      BY <1>1, <3>1, SubSeqProperties DEF n
    <3>3. QED
      BY <1>1, <3>2 DEF a
  <2>2. Len(<<>>) = 0
    OBVIOUS
  <2> HIDE DEF s
  <2>3. QED
    BY <2>1, <2>2 DEF s
<1>8. rows = <<>> => LastRows(rows) = <<>>
  BY <1>5 DEF LastRows
<1>9. QED
  BY <1>4, <1>6, <1>7, <1>8

\* The five queries have different names.
LEMMA FiveNames ==
  /\ Len(QueryNames) = 5 /\ Names = {QueryNames[i] : i \in 1..5}
  /\ \A i, j \in 1..5 : QueryNames[i] = QueryNames[j] => i = j
  /\ Names = {"layer_counts", "freshness", "quarantine", "perp_context", "macro"}
<1>1. Len(QueryNames) = 5 /\ DOMAIN QueryNames = 1..5
  BY DEF QueryNames
<1>2. \A i, j \in 1..5 : QueryNames[i] = QueryNames[j] => i = j
  BY DEF QueryNames
<1>3. Names = {QueryNames[i] : i \in 1..5}
  BY <1>1 DEF Names, Range
<1>4. {QueryNames[i] : i \in 1..5} = {"layer_counts", "freshness", "quarantine", "perp_context", "macro"}
  <2>1. 1..5 = {1, 2, 3, 4, 5}
    OBVIOUS
  <2>2. /\ QueryNames[1] = "layer_counts" /\ QueryNames[2] = "freshness" /\ QueryNames[3] = "quarantine"
        /\ QueryNames[4] = "perp_context" /\ QueryNames[5] = "macro"
    BY DEF QueryNames
  <2>3. QED
    BY <2>1, <2>2
<1>5. QED
  BY <1>1, <1>2, <1>3, <1>4

\* The pages of results the answers of a query begin with.
Pages(q) == {FirstPage(rows) : rows \in Answers[q]}

\* A page of results holds rows of the answer, in its order.
LEMMA PageRows ==
  ASSUME NEW rows, rows \in Seq(Range(rows))
  PROVE  LET p == FirstPage(rows) IN
         /\ p \in Seq(Range(p)) /\ Range(p) \subseteq Range(rows)
         /\ Len(p) \in Nat /\ Len(p) <= PageLimit /\ (Len(rows) <= PageLimit => p = rows)
         /\ Len(p) <= Len(rows) /\ \A i \in 1..Len(p) : p[i] = rows[i]
<1>0. PageLimit \in Nat \ {0} /\ Len(rows) \in Nat /\ rows \in [1..Len(rows) -> Range(rows)]
  BY DashInputs
<1>1. CASE Len(rows) <= PageLimit
  BY <1>0, <1>1 DEF FirstPage
<1>2. CASE ~(Len(rows) <= PageLimit)
  <2> DEFINE p == SubSeq(rows, 1, PageLimit)
             n == PageLimit
  <2>1. p = [i \in 1..n |-> rows[i]] /\ Len(p) = n
    BY <1>0, <1>2, SubSeqProperties
  <2>2. n \in Nat /\ n <= Len(rows) /\ n <= PageLimit
    BY <1>0, <1>2
  <2>3. FirstPage(rows) = p
    BY <1>2 DEF FirstPage
  <2> HIDE DEF p, n
  <2>4. Range(p) = {rows[i] : i \in 1..n} /\ \A i \in 1..n : p[i] = rows[i]
    BY <2>1 DEF Range
  <2>5. Range(p) \subseteq Range(rows)
    BY <1>0, <2>2, <2>4 DEF Range
  <2>6. p \in [1..n -> Range(p)]
    BY <2>1, <2>4
  <2>7. p \in Seq(Range(p))
    BY <2>2, <2>6
  <2>8. QED
    BY <1>0, <1>2, <2>1, <2>2, <2>3, <2>4, <2>5, <2>7
<1>3. QED
  BY <1>1, <1>2

\* What holds of the answers holds of their pages.
LEMMA PageInputs ==
  /\ \A q \in Names : \A rows \in Pages(q) : rows \in Seq(Range(rows))
  /\ \A rows \in Pages("layer_counts") \cup Pages("quarantine") :
       /\ \A r \in Range(rows) : IsCell(r.count, Nat)
       /\ \A r, s \in Range(rows) : r.day = s.day /\ r.layer = s.layer => r = s
  /\ \A rows \in Pages("quarantine") : \A r \in Range(rows) : r.layer \in {"Accepted", "Quarantined"}
  /\ \A rows \in Pages("freshness") : \A r \in Range(rows) : IsCell(r.count, Nat) /\ IsCell(r.lag, Int)
  /\ \A rows \in Pages("perp_context") : \A r \in Range(rows) :
       IsCell(r.mark_price, Int) /\ IsCell(r.funding_rate, Int) /\ IsCell(r.open_interest, Int)
<1> HIDE DEF IsCell
<1>1. \A q \in Names : \A p \in Pages(q) : p \in Seq(Range(p)) /\
        \E rows \in Answers[q] : Range(p) \subseteq Range(rows)
  BY DashInputs, PageRows DEF Pages
<1>2. /\ "layer_counts" \in Names /\ "perp_context" \in Names
      /\ "quarantine" \in Names /\ "freshness" \in Names
  BY FiveNames
<1>3. \A p \in Pages("layer_counts") \cup Pages("quarantine") :
        /\ \A r \in Range(p) : IsCell(r.count, Nat)
        /\ \A r, s \in Range(p) : r.day = s.day /\ r.layer = s.layer => r = s
  <2> TAKE p \in Pages("layer_counts") \cup Pages("quarantine")
  <2>1. PICK rows \in Answers["layer_counts"] \cup Answers["quarantine"] : Range(p) \subseteq Range(rows)
    BY <1>1, <1>2
  <2>2. QED
    BY <2>1, DashInputs
<1>4. \A p \in Pages("quarantine") : \A r \in Range(p) : r.layer \in {"Accepted", "Quarantined"}
  <2> TAKE p \in Pages("quarantine")
  <2>1. PICK rows \in Answers["quarantine"] : Range(p) \subseteq Range(rows)
    BY <1>1, <1>2
  <2>2. QED
    BY <2>1, DashInputs
<1>5. \A p \in Pages("freshness") : \A r \in Range(p) : IsCell(r.count, Nat) /\ IsCell(r.lag, Int)
  <2> TAKE p \in Pages("freshness")
  <2>1. PICK rows \in Answers["freshness"] : Range(p) \subseteq Range(rows)
    BY <1>1, <1>2
  <2>2. QED
    BY <2>1, DashInputs
<1>6. \A p \in Pages("perp_context") : \A r \in Range(p) :
        IsCell(r.mark_price, Int) /\ IsCell(r.funding_rate, Int) /\ IsCell(r.open_interest, Int)
  <2> TAKE p \in Pages("perp_context")
  <2>1. PICK rows \in Answers["perp_context"] : Range(p) \subseteq Range(rows)
    BY <1>1, <1>2
  <2>2. QED
    BY <2>1, DashInputs
<1>7. QED
  BY <1>1, <1>3, <1>4, <1>5, <1>6

\* What the results hold at any time.
AnyAnswer == {<<>>} \cup UNION {Pages(q) : q \in Names}
ResultsInv ==
  /\ results \in [Names -> AnyAnswer]
  /\ \A q \in Names : results[q] = <<>> \/ results[q] \in Pages(q)

\* The results are sequences of rows.
LEMMA ResultRows ==
  ASSUME ResultsInv, NEW q \in Names
  PROVE  results[q] \in Seq(Range(results[q]))
<1>1. CASE results[q] = <<>>
  BY <1>1, EmptySeq
<1>2. CASE results[q] \in Pages(q)
  BY <1>2, PageInputs
<1>3. QED
  BY <1>1, <1>2 DEF ResultsInv

\* The days and the layers of some rows.
LEMMA DaysAndLayers ==
  ASSUME NEW rows, rows \in Seq(Range(rows))
  PROVE  /\ IsFiniteSet(DaysOf(rows)) /\ Cardinality(DaysOf(rows)) \in Nat
         /\ IsFiniteSet(LayersOf(rows)) /\ Cardinality(LayersOf(rows)) \in Nat
         /\ rows # <<>> => /\ DaysOf(rows) # {} /\ Cardinality(DaysOf(rows)) >= 1
                          /\ LayersOf(rows) # {} /\ Cardinality(LayersOf(rows)) >= 1
<1> DEFINE R == Range(rows)
           d == [r \in R |-> r.day]
           l == [r \in R |-> r.layer]
           D == DaysOf(rows)
           L == LayersOf(rows)
<1>1. IsFiniteSet(R) /\ (rows # <<>> => R # {})
  BY RowsFinite
<1>2. D = {d[r] : r \in R} /\ L = {l[r] : r \in R}
  BY DEF DaysOf, LayersOf
<1> HIDE DEF R, d, l, D, L
<1>3. IsFiniteSet(D) /\ Cardinality(D) \in Nat
  BY <1>1, <1>2, ImageCount
<1>4. IsFiniteSet(L) /\ Cardinality(L) \in Nat
  BY <1>1, <1>2, ImageCount
<1>5. rows # <<>> => D # {} /\ L # {}
  BY <1>1, <1>2
<1>6. (D # {} => Cardinality(D) # 0) /\ (L # {} => Cardinality(L) # 0)
  BY <1>3, <1>4, FS_EmptySet
<1>7. QED
  BY <1>3, <1>4, <1>5, <1>6 DEF D, L

\* The state of main.
DashInv ==
  /\ asked \in 0..5 /\ lost \subseteq Names /\ ResultsInv /\ DOMAIN answer = Names
  /\ \A i \in 1..5 : LET q == QueryNames[i] IN
       IF asked < i \/ q \in lost THEN results[q] = <<>>
       ELSE answer[q] \in Answers[q] /\ results[q] = FirstPage(answer[q])
  /\ \A i \in 1..5 : asked < i => QueryNames[i] \notin lost
  /\ dashPhase \in {"query", "done", "raised"}
  /\ dashPhase # "done" => page = {}
  /\ dashPhase = "done" =>
       asked = 5 /\ page = BuildPage(results) /\ Cardinality(LayersOf(results["layer_counts"])) <= SeriesSlots

\* main keeps its state.
LEMMA DashKeeps == DashInv /\ [DashNext]_dashVars => DashInv'
<1> SUFFICES ASSUME DashInv, [DashNext]_dashVars PROVE DashInv'
  OBVIOUS
<1>0. /\ Len(QueryNames) = 5 /\ Names = {QueryNames[i] : i \in 1..5}
      /\ \A i, j \in 1..5 : QueryNames[i] = QueryNames[j] => i = j
  BY FiveNames
<1> HIDE DEF QueryNames, Names
<1>1. CASE QueryAnswers
  <2> DEFINE k == asked + 1
             q == QueryNames[k]
  <2>1. PICK rows \in Answers[q] : /\ results' = [results EXCEPT ![q] = FirstPage(rows)]
                                   /\ answer' = [answer EXCEPT ![q] = rows]
    BY <1>1 DEF QueryAnswers
  <2>2. dashPhase = "query" /\ asked < 5 /\ asked' = asked + 1 /\ lost' = lost /\ dashPhase' = dashPhase /\ page' = page
    BY <1>0, <1>1 DEF QueryAnswers
  <2>3. k \in 1..5 /\ q \in Names /\ k \in 0..5
    BY <1>0, <2>2 DEF DashInv
  <2>4. ResultsInv'
    <3>1. results' \in [Names -> AnyAnswer]
      <4>1. FirstPage(rows) \in AnyAnswer
        BY <2>3 DEF AnyAnswer, Pages
      <4>2. QED
        BY <2>1, <2>3, <4>1 DEF DashInv, ResultsInv
    <3>2. \A n \in Names : results'[n] = <<>> \/ results'[n] \in Pages(n)
      BY <2>1, <2>3 DEF DashInv, ResultsInv, Pages
    <3>3. QED
      BY <3>1, <3>2 DEF ResultsInv
  <2>5. ASSUME NEW i \in 1..5
        PROVE IF asked' < i \/ QueryNames[i] \in lost' THEN results'[QueryNames[i]] = <<>>
              ELSE /\ answer'[QueryNames[i]] \in Answers[QueryNames[i]]
                   /\ results'[QueryNames[i]] = FirstPage(answer'[QueryNames[i]])
    <3>1. q \notin lost /\ asked \in 0..5
      BY <2>2, <2>3 DEF DashInv
    <3>2. DOMAIN results = Names /\ DOMAIN answer = Names
      BY DEF DashInv, ResultsInv
    <3>3. IF asked < i \/ QueryNames[i] \in lost THEN results[QueryNames[i]] = <<>>
          ELSE /\ answer[QueryNames[i]] \in Answers[QueryNames[i]]
               /\ results[QueryNames[i]] = FirstPage(answer[QueryNames[i]])
      BY DEF DashInv
    <3>4. CASE i = k
      <4>1. results'[QueryNames[i]] = FirstPage(rows) /\ answer'[QueryNames[i]] = rows
        BY <2>1, <2>3, <3>2, <3>4
      <4>2. ~(asked' < i) /\ QueryNames[i] \notin lost'
        BY <2>2, <3>1, <3>4
      <4>3. QED
        BY <3>4, <4>1, <4>2
    <3>5. CASE i # k
      <4>1. QueryNames[i] # q
        BY <1>0, <2>3, <3>5
      <4>2. results'[QueryNames[i]] = results[QueryNames[i]] /\ answer'[QueryNames[i]] = answer[QueryNames[i]]
        BY <1>0, <2>1, <3>2, <4>1
      <4>3. asked' < i <=> asked < i
        BY <2>2, <3>1, <3>5
      <4>4. QED
        BY <2>2, <3>3, <4>2, <4>3
    <3>6. QED
      BY <3>4, <3>5
  <2>6. \A i \in 1..5 : asked' < i => QueryNames[i] \notin lost'
    BY <2>2, <2>3 DEF DashInv
  <2>7. DOMAIN answer' = Names
    BY <2>1 DEF DashInv
  <2>8. QED
    BY <2>2, <2>3, <2>4, <2>5, <2>6, <2>7 DEF DashInv
<1>2. CASE QueryFails
  <2> DEFINE k == asked + 1
             q == QueryNames[k]
  <2>2. /\ dashPhase = "query" /\ asked < 5 /\ asked' = asked + 1 /\ lost' = lost \cup {q}
        /\ results' = results /\ answer' = answer /\ dashPhase' = dashPhase /\ page' = page
    BY <1>0, <1>2 DEF QueryFails
  <2>3. k \in 1..5 /\ q \in Names /\ k \in 0..5 /\ asked \in 0..5
    BY <1>0, <2>2 DEF DashInv
  <2>4. ResultsInv'
    BY <2>2 DEF DashInv, ResultsInv
  <2>5. ASSUME NEW i \in 1..5
        PROVE IF asked' < i \/ QueryNames[i] \in lost' THEN results'[QueryNames[i]] = <<>>
              ELSE /\ answer'[QueryNames[i]] \in Answers[QueryNames[i]]
                   /\ results'[QueryNames[i]] = FirstPage(answer'[QueryNames[i]])
    <3>3. IF asked < i \/ QueryNames[i] \in lost THEN results[QueryNames[i]] = <<>>
          ELSE /\ answer[QueryNames[i]] \in Answers[QueryNames[i]]
               /\ results[QueryNames[i]] = FirstPage(answer[QueryNames[i]])
      BY DEF DashInv
    <3>4. CASE i = k
      <4>1. results[QueryNames[i]] = <<>> /\ QueryNames[i] \in lost'
        BY <2>2, <2>3, <3>3, <3>4
      <4>2. QED
        BY <2>2, <4>1
    <3>5. CASE i # k
      <4>1. QueryNames[i] \in lost' <=> QueryNames[i] \in lost
        BY <1>0, <2>2, <2>3, <3>5
      <4>2. asked' < i <=> asked < i
        BY <2>2, <2>3, <3>5
      <4>3. QED
        BY <2>2, <3>3, <4>1, <4>2
    <3>6. QED
      BY <3>4, <3>5
  <2>6. ASSUME NEW i \in 1..5, asked' < i PROVE QueryNames[i] \notin lost'
    <3>1. QueryNames[i] \notin lost
      BY <2>2, <2>3, <2>6 DEF DashInv
    <3>2. QueryNames[i] # q
      BY <1>0, <2>2, <2>3, <2>6
    <3>3. QED
      BY <2>2, <3>1, <3>2
  <2>7. QED
    BY <2>2, <2>3, <2>4, <2>5, <2>6 DEF DashInv
<1>3. CASE WritePage
  <2>1. asked = 5 /\ dashPhase = "query" /\ asked' = asked /\ results' = results /\ answer' = answer /\ lost' = lost
    BY <1>0, <1>3 DEF WritePage
  <2>2. CASE dashPhase' = "raised" /\ page' = page
    BY <2>1, <2>2 DEF DashInv, ResultsInv
  <2>3. CASE /\ dashPhase' = "done" /\ page' = BuildPage(results)
             /\ ~(Cardinality(LayersOf(results["layer_counts"])) > SeriesSlots)
    <3> HIDE DEF BuildPage, LayersOf
    <3>1. Cardinality(LayersOf(results["layer_counts"])) \in Nat
      <4>1. "layer_counts" \in Names
        BY FiveNames
      <4>2. QED
        BY <4>1, ResultRows, DaysAndLayers DEF DashInv
    <3>2. Cardinality(LayersOf(results["layer_counts"])) <= SeriesSlots
      BY <2>3, <3>1 DEF SeriesSlots
    <3>3. BuildPage(results') = BuildPage(results) /\ LayersOf(results'["layer_counts"]) = LayersOf(results["layer_counts"])
      BY <2>1
    <3>4. (Cardinality(LayersOf(results["layer_counts"])) <= SeriesSlots)'
      BY <2>1, <3>2
    <3>5. (page = BuildPage(results))'
      BY <2>1, <2>3
    <3>6. QED
      BY <2>1, <2>3, <3>4, <3>5 DEF DashInv, ResultsInv
  <2>4. QED
    BY <1>3, <2>2, <2>3 DEF WritePage
<1>4. CASE ClientRaises
  <2>1. /\ dashPhase = "query" /\ dashPhase' = "raised" /\ asked' = asked /\ results' = results /\ answer' = answer
        /\ lost' = lost /\ page' = page
    BY <1>4 DEF ClientRaises
  <2>2. QED
    BY <2>1 DEF DashInv, ResultsInv
<1>5. CASE UNCHANGED dashVars
  <2>1. dashPhase' = dashPhase /\ asked' = asked /\ results' = results /\ answer' = answer /\ lost' = lost /\ page' = page
    BY <1>5 DEF dashVars
  <2>2. QED
    BY <2>1 DEF DashInv, ResultsInv
<1>6. QED
  BY <1>1, <1>2, <1>3, <1>4, <1>5 DEF DashNext

\* The kind of a block.
LEMMA Kinds ==
  /\ \A row : StatTile(row).kind = "tile" /\ StatTile(row).row = row /\ StatTile(row).status = TileStatus(row)
  /\ \A rows : Table(rows).kind = "table" /\ Table(rows).rows = rows
  /\ \A rows : GroupedBars(rows).kind = "bars" /\ RateBars(rows).kind = "rate"
  /\ \A title, points, zero : LET b == LinePanel(title, points, zero) IN
       b.kind = (IF points = {} THEN "empty" ELSE "line") /\ b.title = title
<1>1. \A row : StatTile(row).kind = "tile" /\ StatTile(row).row = row /\ StatTile(row).status = TileStatus(row)
  <2> HIDE DEF TileStatus
  <2>1. QED
    BY DEF StatTile
<1>2. \A rows : Table(rows).kind = "table" /\ Table(rows).rows = rows
  BY DEF Table
<1>3. \A rows : GroupedBars(rows).kind = "bars"
  <2> HIDE DEF BarLeft, BarWidth, AxisLabels, PlotHeight, PlotWidth, BarValue, DaysOf, LayersOf
  <2>1. QED
    BY DEF GroupedBars
<1>4. \A rows : RateBars(rows).kind = "rate"
  <2> HIDE DEF RateOf, DaysOf, PlotWidth
  <2>1. QED
    BY DEF RateBars
<1>5. \A title, points, zero : LET b == LinePanel(title, points, zero) IN
       b.kind = (IF points = {} THEN "empty" ELSE "line") /\ b.title = title
  <2> HIDE DEF AxisLabels, PlotHeight
  <2>1. QED
    BY DEF LinePanel, EmptyPanel
<1>6. QED
  BY <1>1, <1>2, <1>3, <1>4, <1>5

\* The panels and the tables of the page.
MarkPanel(res) == LinePanel("mark_price", PerpPoints(res["perp_context"], "mark_price"), FALSE)
FundingPanel(res) == LinePanel("funding_rate", PerpPoints(res["perp_context"], "funding_rate"), TRUE)
InterestPanel(res) == LinePanel("open_interest", PerpPoints(res["perp_context"], "open_interest"), FALSE)
PanelsOf(res) == {MarkPanel(res), FundingPanel(res), InterestPanel(res)}
TilesOf(res) == {StatTile(row) : row \in Range(res["freshness"])}
ValuesOf(res) == {[kind |-> "value", row |-> row] : row \in Range(res["macro"])}
BarsIn(res) == IfAny(res["layer_counts"], {GroupedBars(res["layer_counts"])})
RatesIn(res) == IfAny(res["quarantine"], {RateBars(res["quarantine"])})
TablesIn(res) ==
  IfAny(res["layer_counts"], {Table(res["layer_counts"])})
  \cup IfAny(res["perp_context"], {Table(LastRows(res["perp_context"]))})
  \cup IfAny(res["macro"], {Table(res["macro"])})

\* The blocks of the page are these.
LEMMA BlocksAre ==
  ASSUME page = BuildPage(results)
  PROVE  Blocks = TilesOf(results) \cup BarsIn(results) \cup RatesIn(results) \cup TablesIn(results)
                    \cup PanelsOf(results) \cup ValuesOf(results)
<1> DEFINE A == TilesOf(results)
           B == IfAny(results["layer_counts"], {GroupedBars(results["layer_counts"]), Table(results["layer_counts"])})
                  \cup RatesIn(results)
           T == IfAny(results["perp_context"], {Table(LastRows(results["perp_context"]))})
           C == PanelsOf(results) \cup T
           D == ValuesOf(results)
           E == IfAny(results["macro"], {Table(results["macro"])})
           sections == {Section("Freshness", A), Section("Volume and quarantine", B),
                        Section("Perpetual context", C), Section("Macro regime", D), Section("Macro detail", E)}
<1>1. page = {s \in sections : s.blocks # {}}
  <2> HIDE DEF StatTile, GroupedBars, RateBars, Table, LinePanel, PerpPoints, LastRows, IfAny
  <2>1. Sections(results) = sections
    BY DEF Sections, TilesOf, RatesIn, PanelsOf, MarkPanel, FundingPanel, InterestPanel, ValuesOf
  <2> HIDE DEF sections
  <2>2. QED
    BY <2>1 DEF BuildPage
<1>2. Blocks = UNION {s.blocks : s \in sections}
  <2> HIDE DEF sections
  <2>1. QED
    BY <1>1 DEF Blocks
<1> HIDE DEF A, B, C, D, E
<1>3. UNION {s.blocks : s \in sections} = A \cup B \cup C \cup D \cup E
  <2>1. \A heading, blocks : Section(heading, blocks).blocks = blocks
    BY DEF Section
  <2>2. {s.blocks : s \in sections} = {A, B, C, D, E}
    BY <2>1
  <2>3. UNION {A, B, C, D, E} = A \cup B \cup C \cup D \cup E
    OBVIOUS
  <2>4. QED
    BY <2>2, <2>3
<1>4. B = BarsIn(results) \cup IfAny(results["layer_counts"], {Table(results["layer_counts"])}) \cup RatesIn(results)
  <2> HIDE DEF GroupedBars, Table, RatesIn
  <2>1. QED
    BY DEF B, BarsIn, IfAny
<1>5. QED
  <2> HIDE DEF GroupedBars, Table, LastRows, TilesOf, BarsIn, RatesIn, PanelsOf, ValuesOf, IfAny, sections
  <2>1. QED
    BY <1>2, <1>3, <1>4 DEF A, C, D, E, TablesIn

\* The blocks of the page by kind.
LEMMA BlocksByKind ==
  ASSUME page = BuildPage(results)
  PROVE  /\ OfKind("tile") = TilesOf(results) /\ OfKind("bars") = BarsIn(results)
         /\ OfKind("rate") = RatesIn(results) /\ OfKind("table") = TablesIn(results)
         /\ OfKind("line") = {b \in PanelsOf(results) : b.kind = "line"}
         /\ OfKind("empty") = {b \in PanelsOf(results) : b.kind = "empty"}
<1>1. /\ \A b \in TilesOf(results) : b.kind = "tile"
      /\ \A b \in ValuesOf(results) : b.kind = "value"
  <2> HIDE DEF StatTile
  <2>1. QED
    BY Kinds DEF TilesOf, ValuesOf
<1>2. \A b \in BarsIn(results) : b.kind = "bars"
  <2> HIDE DEF GroupedBars
  <2>1. QED
    BY Kinds DEF BarsIn, IfAny
<1>3. \A b \in RatesIn(results) : b.kind = "rate"
  <2> HIDE DEF RateBars
  <2>1. QED
    BY Kinds DEF RatesIn, IfAny
<1>4. \A b \in TablesIn(results) : b.kind = "table"
  <2> HIDE DEF Table, LastRows
  <2>1. QED
    BY Kinds DEF TablesIn, IfAny
<1>5. \A b \in PanelsOf(results) : b.kind \in {"line", "empty"}
  <2>1. \A title, points, zero : LinePanel(title, points, zero).kind \in {"line", "empty"}
    BY Kinds
  <2>2. MarkPanel(results).kind \in {"line", "empty"}
    BY <2>1 DEF MarkPanel
  <2>3. FundingPanel(results).kind \in {"line", "empty"}
    BY <2>1 DEF FundingPanel
  <2>4. InterestPanel(results).kind \in {"line", "empty"}
    BY <2>1 DEF InterestPanel
  <2>5. QED
    BY <2>2, <2>3, <2>4 DEF PanelsOf
<1> HIDE DEF TilesOf, BarsIn, RatesIn, TablesIn, PanelsOf, ValuesOf
<1>6. Blocks = TilesOf(results) \cup BarsIn(results) \cup RatesIn(results) \cup TablesIn(results)
                 \cup PanelsOf(results) \cup ValuesOf(results)
  BY BlocksAre
<1> HIDE DEF Blocks
<1>7. OfKind("tile") = TilesOf(results)
  BY <1>1, <1>2, <1>3, <1>4, <1>5, <1>6 DEF OfKind
<1>8. OfKind("bars") = BarsIn(results)
  BY <1>1, <1>2, <1>3, <1>4, <1>5, <1>6 DEF OfKind
<1>9. OfKind("rate") = RatesIn(results)
  BY <1>1, <1>2, <1>3, <1>4, <1>5, <1>6 DEF OfKind
<1>10. OfKind("table") = TablesIn(results)
  BY <1>1, <1>2, <1>3, <1>4, <1>5, <1>6 DEF OfKind
<1>11. OfKind("line") = {b \in PanelsOf(results) : b.kind = "line"}
  BY <1>1, <1>2, <1>3, <1>4, <1>5, <1>6 DEF OfKind
<1>12. OfKind("empty") = {b \in PanelsOf(results) : b.kind = "empty"}
  BY <1>1, <1>2, <1>3, <1>4, <1>5, <1>6 DEF OfKind
<1>13. QED
  BY <1>7, <1>8, <1>9, <1>10, <1>11, <1>12

\* Without a page there are no blocks.
LEMMA NoBlocks == page = {} => \A kind : OfKind(kind) = {}
  BY DEF OfKind, Blocks

\* The points of a panel are finitely many, with a value each, and are those of
\* the readings that have one.
LEMMA PointsFacts ==
  ASSUME ResultsInv, NEW field \in Fields, NEW points, points = PerpPoints(results["perp_context"], field)
  PROVE  /\ IsFiniteSet(points) /\ \A p \in points : p.y \in Int
         /\ points = {} <=> \A r \in Range(results["perp_context"]) : r[field] = {}
<1> DEFINE rows == results["perp_context"]
           S == {r \in Range(rows) : r[field] # {}}
           f == [r \in S |-> [x |-> r.ts, y |-> OrZero(r[field])]]
<1>1. "perp_context" \in Names
  BY FiveNames
<1>2. IsFiniteSet(Range(rows))
  BY <1>1, ResultRows, RowsFinite
<1>3. IsFiniteSet(S)
  BY <1>2, FS_Subset
<1>4. points = {f[r] : r \in S}
  BY DEF PerpPoints
<1>5. \A r \in Range(rows) : IsCell(r[field], Int)
  <2>1. CASE rows = <<>>
    <3>1. Range(rows) = {}
      BY <1>1, <2>1, ResultRows, RowsFinite
    <3>2. QED
      BY <3>1
  <2>2. CASE rows \in Pages("perp_context")
    <3>1. \A r \in Range(rows) : IsCell(r.mark_price, Int) /\ IsCell(r.funding_rate, Int) /\ IsCell(r.open_interest, Int)
      BY <2>2, PageInputs
    <3> HIDE DEF rows, IsCell
    <3>2. QED
      BY <3>1 DEF Fields
  <2>3. QED
    BY <1>1, <2>1, <2>2 DEF ResultsInv
<1>6. \A r \in S : f[r].y \in Int
  <2> TAKE r \in S
  <2>1. f[r].y = OrZero(r[field])
    OBVIOUS
  <2>2. IsCell(r[field], Int) /\ r[field] # {}
    BY <1>5
  <2> DEFINE c == r[field]
  <2> HIDE DEF c
  <2>3. OrZero(c) \in Int
    BY <2>2, CellValue DEF c
  <2>4. QED
    BY <2>1, <2>3 DEF c
<1>7. points = {} <=> S = {}
  <2> HIDE DEF f, S
  <2>1. QED
    BY <1>4
<1>8. IsFiniteSet(points)
  <2> HIDE DEF f, S
  <2>1. QED
    BY <1>3, <1>4, ImageCount
<1>9. \A p \in points : p.y \in Int
  <2> HIDE DEF f, S
  <2>1. QED
    BY <1>4, <1>6
<1>10. QED
  BY <1>7, <1>8, <1>9

\* The five labels of an axis below a billion differ: eight places keep every tick
\* as it is, so some precision of the nine is enough.
LEMMA LabelsTold ==
  ASSUME NEW lo \in Int, NEW hi \in Int, -Billion < lo, lo < hi, hi < Billion
  PROVE  IsInjective(AxisLabels(lo, hi))
<1> DEFINE enough == {d \in 0..8 : IsInjective(LabelsAt(lo, hi, d))}
           tick(i) == (4 * lo) + ((hi - lo) * (i - 1))
<1>1. ASSUME NEW i \in 1..5
      PROVE  tick(i) \in Int /\ -4000000000 < tick(i) /\ tick(i) < 4000000000
  <2>1. i = 1 \/ i = 2 \/ i = 3 \/ i = 4 \/ i = 5
    OBVIOUS
  <2>2. QED
    BY <2>1 DEF Billion
<1>2. ASSUME NEW i \in 1..5, NEW j \in 1..5, tick(i) = tick(j)
      PROVE  i = j
  <2>1. (i = 1 \/ i = 2 \/ i = 3 \/ i = 4 \/ i = 5) /\ (j = 1 \/ j = 2 \/ j = 3 \/ j = 4 \/ j = 5)
    OBVIOUS
  <2>2. QED
    BY <1>2, <2>1
<1>3. ASSUME NEW q \in Int, -4000000000 < q, q < 4000000000
      PROVE  Nice(q, 8)[2] = 5 * q
  <2>1. Abs(q) \in Nat /\ Abs(q) < 4000000000
    BY <1>3 DEF Abs
  <2>2. ~(Abs(q) \div 4 >= 1000000000)
    <3> DEFINE a == Abs(q)
    <3> HIDE DEF a
    <3>1. a \in Nat /\ a < 4000000000
      BY <2>1 DEF a
    <3>2. ~(a \div 4 >= 1000000000)
      BY <3>1
    <3>3. QED
      BY <3>2 DEF a
  <2>3. Rounded(q, 8) = 5 * q /\ Rounded(q, 8 - 6) = 5 * q /\ Rounded(q, 8 - 3) = 5 * q
    BY DEF Rounded
  <2>4. (IF 8 > 1 THEN 8 ELSE 1) = 8 /\ ~(8 = 0) /\ (q = 0 => 5 * q = 0)
    OBVIOUS
  <2> HIDE DEF Abs, Rounded
  <2>5. QED
    BY <2>2, <2>3, <2>4 DEF Nice
<1>4. 8 \in enough
  <2>1. \A i \in 1..5 : LabelsAt(lo, hi, 8)[i][2] = 5 * tick(i)
    <3> TAKE i \in 1..5
    <3>1. LabelsAt(lo, hi, 8)[i] = Nice(tick(i), 8)
      BY DEF LabelsAt, Ticks
    <3>2. Nice(tick(i), 8)[2] = 5 * tick(i)
      BY <1>1, <1>3
    <3>3. QED
      BY <3>1, <3>2
  <2>2. DOMAIN LabelsAt(lo, hi, 8) = 1..5
    BY DEF LabelsAt
  <2>3. ASSUME NEW i \in 1..5, NEW j \in 1..5, LabelsAt(lo, hi, 8)[i] = LabelsAt(lo, hi, 8)[j]
        PROVE  i = j
    <3>1. 5 * tick(i) = 5 * tick(j)
      BY <2>1, <2>3
    <3>2. tick(i) = tick(j)
      <4>1. tick(i) \in Int /\ tick(j) \in Int
        BY <1>1
      <4> HIDE DEF tick
      <4>2. QED
        BY <3>1, <4>1
    <3>3. QED
      BY <1>2, <3>2
  <2>4. IsInjective(LabelsAt(lo, hi, 8))
    BY <2>2, <2>3 DEF IsInjective
  <2>5. QED
    BY <2>4
<1>5. Min(enough) \in enough
  <2>1. enough \subseteq 0..8 /\ enough \subseteq Int /\ enough # {}
    BY <1>4
  <2>2. IsFiniteSet(0..8)
    <3>1. 0 \in Int /\ 8 \in Int
      OBVIOUS
    <3>2. QED
      BY <3>1, FS_Interval
  <2> HIDE DEF enough
  <2>3. IsFiniteSet(enough)
    BY <2>1, <2>2, FS_Subset
  <2>4. QED
    BY <2>1, <2>3, Extremes
<1>6. AxisLabels(lo, hi) = LabelsAt(lo, hi, Min(enough))
  BY <1>4 DEF AxisLabels
<1>7. QED
  BY <1>5, <1>6

\* What a panel with points shows.
LEMMA PanelFacts ==
  ASSUME NEW title, NEW points, NEW zero \in BOOLEAN, NEW b, b = LinePanel(title, points, zero),
         IsFiniteSet(points), points # {}, \A p \in points : p.y \in Int
  PROVE  /\ b.plotted = points /\ b.signed = zero
         /\ \A h \in b.heights : 0 <= h /\ h <= b.plot * b.unit
         /\ zero /\ (\E p, q \in points : p.y < 0 /\ q.y > 0) => b.zeroLine
         /\ -Billion < b.axis[1] /\ b.axis[2] < Billion => IsInjective(b.labels)
<1> DEFINE own == {p.y : p \in points}
           ys == own \cup (IF zero THEN {0} ELSE {})
           flat == Min(ys) = Max(ys)
           lo == IF flat THEN Min(ys) - 1 ELSE Min(ys)
           hi == IF flat THEN Max(ys) + 1 ELSE Max(ys)
           height == PlotHeight(170)
<1>1. IsFiniteSet(ys) /\ ys \subseteq Int /\ ys # {} /\ own \subseteq ys
  <2> DEFINE f == [p \in points |-> p.y]
  <2>1. own = {f[p] : p \in points}
    OBVIOUS
  <2>2. own \subseteq Int /\ own # {}
    OBVIOUS
  <2>3. IsFiniteSet(own)
    <3> HIDE DEF f, own
    <3>1. QED
      BY <2>1, ImageCount
  <2>4. IsFiniteSet({0}) /\ IsFiniteSet({})
    BY FS_Singleton, FS_EmptySet
  <2>5. IsFiniteSet(ys)
    <3> HIDE DEF own
    <3>1. QED
      BY <2>3, <2>4, FS_Union
  <2> HIDE DEF own
  <2>6. QED
    BY <2>2, <2>5
<1>2. /\ Max(ys) \in Int /\ Min(ys) \in Int /\ \A y \in ys : Min(ys) <= y /\ y <= Max(ys)
  <2> HIDE DEF ys
  <2>1. Max(ys) \in ys /\ (\A y \in ys : y <= Max(ys))
    BY <1>1, Extremes
  <2>2. Min(ys) \in ys /\ (\A y \in ys : Min(ys) <= y)
    BY <1>1, Extremes
  <2>3. QED
    BY <1>1, <2>1, <2>2
<1>3. \A p \in points : p.y \in ys
  OBVIOUS
<1>4. /\ lo \in Int /\ hi \in Int /\ lo < hi /\ \A p \in points : lo <= p.y /\ p.y <= hi
  <2> HIDE DEF ys
  <2>1. Min(ys) <= Max(ys)
    BY <1>1, <1>2
  <2>2. lo \in Int /\ hi \in Int /\ lo < hi /\ lo <= Min(ys) /\ Max(ys) <= hi
    BY <1>2, <2>1
  <2> HIDE DEF lo, hi
  <2>3. QED
    BY <1>2, <1>3, <2>2
<1>5. height = 122
  BY DEF PlotHeight
<1>6. /\ b.plotted = points /\ b.signed = zero /\ b.unit = hi - lo /\ b.plot = height
      /\ b.heights = {(p.y - lo) * height : p \in points} /\ b.zeroLine = (zero /\ lo < 0 /\ 0 < hi)
      /\ b.axis = <<lo, hi>> /\ b.labels = AxisLabels(lo, hi)
  <2> HIDE DEF AxisLabels, PlotHeight
  <2>1. QED
    BY DEF LinePanel
<1> HIDE DEF lo, hi, height
<1>7. \A h \in b.heights : 0 <= h /\ h <= b.plot * b.unit
  <2> SUFFICES ASSUME NEW p \in points PROVE 0 <= (p.y - lo) * 122 /\ (p.y - lo) * 122 <= 122 * (hi - lo)
    BY <1>5, <1>6
  <2>1. p.y \in Int /\ lo <= p.y /\ p.y <= hi
    BY <1>4
  <2>2. QED
    BY <1>4, <2>1
<1>8. zero /\ (\E p, q \in points : p.y < 0 /\ q.y > 0) => b.zeroLine
  <2> SUFFICES ASSUME zero, NEW p \in points, NEW q \in points, p.y < 0, q.y > 0 PROVE lo < 0 /\ 0 < hi
    BY <1>6
  <2>1. p.y \in Int /\ q.y \in Int /\ lo <= p.y /\ q.y <= hi
    BY <1>4
  <2>2. QED
    BY <1>4, <2>1
<1>9. -Billion < b.axis[1] /\ b.axis[2] < Billion => IsInjective(b.labels)
  <2>1. b.axis[1] = lo /\ b.axis[2] = hi /\ b.labels = AxisLabels(lo, hi)
    BY <1>6
  <2>2. -Billion < lo /\ hi < Billion => IsInjective(AxisLabels(lo, hi))
    BY <1>4, LabelsTold
  <2>3. QED
    BY <2>1, <2>2
<1>10. QED
  BY <1>6, <1>7, <1>8, <1>9

\* Every panel of the page is honest.
LEMMA PanelsHonest ==
  ASSUME ResultsInv, NEW b \in PanelsOf(results), b.kind = "line"
  PROVE  /\ b.title \in Fields /\ b.plotted = PerpPoints(results["perp_context"], b.title)
         /\ b.signed /\ (\E p, q \in b.plotted : p.y < 0 /\ q.y > 0) => b.zeroLine
         /\ \A h \in b.heights : 0 <= h /\ h <= b.plot * b.unit
         /\ -Billion < b.axis[1] /\ b.axis[2] < Billion => IsInjective(b.labels)
<1>1. PICK field \in Fields, zero \in BOOLEAN : b = LinePanel(field, PerpPoints(results["perp_context"], field), zero)
  <2> HIDE DEF LinePanel, PerpPoints
  <2>1. QED
    BY DEF PanelsOf, MarkPanel, FundingPanel, InterestPanel, Fields
<1> DEFINE points == PerpPoints(results["perp_context"], field)
<1>2. b.title = field /\ points # {}
  <2>1. b.kind = (IF points = {} THEN "empty" ELSE "line") /\ b.title = field
    BY <1>1, Kinds
  <2>2. QED
    BY <2>1
<1>3. IsFiniteSet(points) /\ \A p \in points : p.y \in Int
  <2>0. points = PerpPoints(results["perp_context"], field)
    OBVIOUS
  <2> HIDE DEF points
  <2>1. QED
    BY <2>0, PointsFacts
<1>4. b = LinePanel(field, points, zero)
  BY <1>1
<1>5. /\ b.plotted = points /\ b.signed = zero
      /\ \A h \in b.heights : 0 <= h /\ h <= b.plot * b.unit
      /\ zero /\ (\E p, q \in points : p.y < 0 /\ q.y > 0) => b.zeroLine
  <2> HIDE DEF points
  <2>1. QED
    BY <1>2, <1>3, <1>4, PanelFacts
<1>6. -Billion < b.axis[1] /\ b.axis[2] < Billion => IsInjective(b.labels)
  <2> HIDE DEF points
  <2>1. QED
    BY <1>2, <1>3, <1>4, PanelFacts
<1>7. QED
  BY <1>2, <1>5, <1>6

\* A missing reading is never drawn as a zero.
LEMMA NoFalseZeros == DashInv => NoFalseZero
<1> SUFFICES ASSUME DashInv PROVE NoFalseZero
  OBVIOUS
<1>0. ResultsInv
  BY DEF DashInv
<1>1. CASE page = {} /\ dashPhase # "done"
  BY <1>1, NoBlocks DEF NoFalseZero
<1>2. CASE page = BuildPage(results)
  <2>1. /\ OfKind("line") = {b \in PanelsOf(results) : b.kind = "line"}
        /\ OfKind("empty") = {b \in PanelsOf(results) : b.kind = "empty"}
    BY <1>2, BlocksByKind
  <2>2. ASSUME NEW b \in OfKind("line")
        PROVE  /\ b.plotted = {[x |-> r.ts, y |-> OrZero(r[b.title])] :
                                 r \in {s \in Range(results["perp_context"]) : s[b.title] # {}}}
               /\ b.signed /\ (\E p, q \in b.plotted : p.y < 0 /\ q.y > 0) => b.zeroLine
    <3>1. b \in PanelsOf(results) /\ b.kind = "line"
      BY <2>1, <2>2
    <3>2. b.plotted = PerpPoints(results["perp_context"], b.title)
      BY <1>0, <3>1, PanelsHonest
    <3>3. b.signed /\ (\E p, q \in b.plotted : p.y < 0 /\ q.y > 0) => b.zeroLine
      BY <1>0, <3>1, PanelsHonest
    <3>4. QED
      BY <3>2, <3>3 DEF PerpPoints
  <2>3. ASSUME NEW field \in Fields
        PROVE  IF \A r \in Range(results["perp_context"]) : r[field] = {}
               THEN \E b \in OfKind("empty") : b.title = field
               ELSE \E b \in OfKind("line") : b.title = field
    <3> DEFINE points == PerpPoints(results["perp_context"], field)
    <3>1. PICK zero \in BOOLEAN : LinePanel(field, points, zero) \in PanelsOf(results)
      <4> HIDE DEF LinePanel, PerpPoints
      <4>1. QED
        BY DEF PanelsOf, MarkPanel, FundingPanel, InterestPanel, Fields
    <3> DEFINE b == LinePanel(field, points, zero)
    <3>2. b.kind = (IF points = {} THEN "empty" ELSE "line") /\ b.title = field
      BY Kinds
    <3>3. points = {} <=> \A r \in Range(results["perp_context"]) : r[field] = {}
      <4>0. points = PerpPoints(results["perp_context"], field)
        OBVIOUS
      <4> HIDE DEF points
      <4>1. QED
        BY <1>0, <4>0, PointsFacts
    <3> HIDE DEF b, points
    <3>4. b \in PanelsOf(results)
      BY <3>1 DEF b
    <3>5. CASE points = {}
      BY <2>1, <3>2, <3>3, <3>4, <3>5
    <3>6. CASE points # {}
      BY <2>1, <3>2, <3>3, <3>4, <3>6
    <3>7. QED
      BY <3>5, <3>6
  <2>4. QED
    BY <2>2, <2>3 DEF NoFalseZero
<1>3. QED
  BY <1>1, <1>2 DEF DashInv

\* The last forty of a sequence.
LEMMA Forty ==
  ASSUME NEW R, NEW s \in Seq(R), NEW n, n = Len(s), n - 39 \in 1..n
  PROVE  SubSeq(s, n - 39, n) = [i \in 1..40 |-> s[i + (n - 40)]]
<1>0. n \in Nat /\ n >= 40
  <2>1. n \in Nat
    OBVIOUS
  <2>2. QED
    BY <2>1
<1> DEFINE m == n - 39
           q == SubSeq(s, m, n)
<1>1. m \in 1..n+1 /\ n \in m-1..n
  BY <1>0
<1>2. m \in 1 .. Len(s) + 1 /\ n \in m - 1 .. Len(s)
  BY <1>1
<1> HIDE DEF m
<1>3. q \in Seq(R) /\ Len(q) = n - m + 1 /\ \A i \in 1..(n - m + 1) : q[i] = s[m + i - 1]
  BY <1>2, SubSeqProperties
<1>4. n - m + 1 = 40 /\ \A i \in 1..40 : m + i - 1 = i + (n - 40)
  BY <1>0 DEF m
<1> HIDE DEF q
<1>5. q \in [1..40 -> R] /\ \A i \in 1..40 : q[i] = s[i + (n - 40)]
  <2>1. Len(q) = 40
    BY <1>3, <1>4
  <2>2. q \in [1..Len(q) -> R]
    BY <1>3
  <2>3. q \in [1..40 -> R]
    BY <2>1, <2>2
  <2>4. QED
    BY <1>3, <1>4, <2>3
<1>6. q = [i \in 1..40 |-> s[i + (n - 40)]]
  BY <1>5
<1>7. QED
  BY <1>6 DEF q, m

\* The newest perpetual reading is among the last rows of the page exactly if
\* every row fits.
LEMMA NewestShown ==
  ASSUME NEW all \in Answers["perp_context"], all # <<>>
  PROVE  all[Len(all)] \in Range(LastRows(FirstPage(all))) <=> Len(all) <= PageLimit
<1> DEFINE p == FirstPage(all)
           n == Len(all)
           m == Len(p)
<1>1. "perp_context" \in Names
  BY FiveNames
<1>2. all \in Seq(Range(all)) /\ PageLimit \in Nat
  BY <1>1, DashInputs
<1>3. /\ n \in Nat /\ n # 0
      /\ \A i, j \in 1..n : i < j => all[i].ts < all[j].ts
      /\ \A i \in 1..n : all[i].ts \in Int
  <2>1. n \in Nat /\ n # 0
    BY <1>2
  <2>2. \A i \in 1..n : all[i] \in Range(all)
    BY <1>2 DEF Range
  <2>3. QED
    BY <2>1, <2>2, DashInputs
<1>4. /\ p \in Seq(Range(p)) /\ m \in Nat /\ m <= PageLimit /\ (n <= PageLimit => p = all)
      /\ m <= n /\ \A i \in 1..m : p[i] = all[i]
  BY <1>2, PageRows
<1>5. CASE n <= PageLimit
  <2>1. p = all
    BY <1>4, <1>5
  <2>2. all[n] \in Range(LastRows(all))
    <3>1. CASE n <= 40
      <4>1. LastRows(all) = all
        BY <3>1 DEF LastRows
      <4>2. QED
        BY <1>2, <1>3, <4>1 DEF Range
    <3>2. CASE ~(n <= 40)
      <4> DEFINE q == SubSeq(all, n - 39, n)
      <4>1. LastRows(all) = q
        BY <3>2 DEF LastRows
      <4>2. n - 39 \in 1..n /\ n \in 1..n
        BY <1>3, <3>2
      <4>3. q = [i \in 1..40 |-> all[i + (n - 40)]]
        BY <1>2, <4>2, Forty
      <4>4. 40 \in 1..40 /\ 40 + (n - 40) = n
        BY <1>3
      <4> HIDE DEF n, q
      <4>5. 40 \in DOMAIN q /\ q[40] = all[n]
        BY <4>3, <4>4
      <4>6. QED
        BY <4>1, <4>5 DEF Range
    <3>3. QED
      BY <3>1, <3>2
  <2>3. QED
    BY <1>5, <2>1, <2>2
<1>6. CASE ~(n <= PageLimit)
  <2>1. \A r \in Range(LastRows(p)) : \E i \in 1..m : r = p[i]
    <3>1. Range(LastRows(p)) \subseteq Range(p)
      <4>1. CASE m <= 40
        BY <4>1 DEF LastRows
      <4>2. CASE ~(m <= 40)
        <5> DEFINE q == SubSeq(p, m - 39, m)
        <5>1. m - 39 \in 1..m /\ m \in 1..m
          BY <1>4, <4>2
        <5>2. LastRows(p) = q
          BY <4>2 DEF LastRows
        <5> HIDE DEF p, m
        <5>3. q = [i \in 1..40 |-> p[i + (m - 40)]]
          BY <1>4, <5>1, Forty
        <5>4. \A i \in 1..40 : i + (m - 40) \in 1..m
          BY <1>4, <5>1
        <5>5. DOMAIN p = 1..m
          BY <1>4 DEF m
        <5>6. \A i \in 1..40 : p[i + (m - 40)] \in Range(p)
          BY <5>4, <5>5 DEF Range
        <5> HIDE DEF q
        <5>7. Range(q) \subseteq Range(p)
          BY <5>3, <5>6 DEF Range
        <5>8. QED
          BY <5>2, <5>7
      <4>3. QED
        BY <4>1, <4>2
    <3>2. DOMAIN p = 1..m
      BY <1>4
    <3>3. QED
      BY <3>1, <3>2 DEF Range
  <2>2. \A i \in 1..m : i \in 1..n /\ n \in 1..n /\ i < n
    BY <1>2, <1>3, <1>4, <1>6
  <2> HIDE DEF n, m, p
  <2>3. \A i \in 1..m : p[i].ts < all[n].ts /\ all[n].ts \in Int
    BY <1>3, <1>4, <2>2
  <2>4. \A i \in 1..m : p[i] # all[n]
    BY <2>3
  <2>5. all[n] \notin Range(LastRows(p))
    BY <2>1, <2>4
  <2>6. QED
    BY <1>6, <2>5 DEF n, p
<1>7. QED
  BY <1>5, <1>6

\* A failed query costs its own section alone.
LEMMA FailuresSurvived == DashInv => PageSurvivesFailures
<1> SUFFICES ASSUME DashInv, dashPhase = "done" PROVE PageSurvivesFailures
  BY DEF PageSurvivesFailures
<1> DEFINE counts == results["layer_counts"]
           perp == results["perp_context"]
           macro == results["macro"]
           bad == results["quarantine"]
           fresh == results["freshness"]
<1>0. asked = 5 /\ page = BuildPage(results) /\ ResultsInv
  BY DEF DashInv
<1>1. Len(QueryNames) = 5 /\ Names = {QueryNames[i] : i \in 1..5}
  BY FiveNames
<1>2. /\ "layer_counts" \in Names /\ "perp_context" \in Names /\ "macro" \in Names
      /\ "quarantine" \in Names /\ "freshness" \in Names
  BY FiveNames
<1>3. \A q \in Names : results[q] = Shown(q) /\ (q \notin lost => answer[q] \in Answers[q])
  <2> SUFFICES ASSUME NEW i \in 1..5
               PROVE  LET q == QueryNames[i] IN
                      results[q] = Shown(q) /\ (q \notin lost => answer[q] \in Answers[q])
    BY <1>1
  <2>1. ~(asked < i)
    BY <1>0
  <2>2. QED
    BY <2>1 DEF DashInv, Shown
<1>4. /\ OfKind("tile") = TilesOf(results) /\ OfKind("rate") = RatesIn(results) /\ OfKind("table") = TablesIn(results)
  BY <1>0, BlocksByKind
<1>5. {b.row : b \in OfKind("tile")} = Range(fresh)
  <2> HIDE DEF StatTile
  <2>1. \A row : StatTile(row).row = row
    BY Kinds
  <2>2. QED
    BY <1>4, <2>1 DEF TilesOf
<1>6. bad # <<>> <=> OfKind("rate") # {}
  <2> HIDE DEF RateBars
  <2>1. QED
    BY <1>4 DEF RatesIn, IfAny
<1>7. LastRows(perp) = <<>> <=> perp = <<>>
  BY <1>0, <1>2, ResultRows, RowsFinite
<1>8. {b.rows : b \in OfKind("table")} = {counts, LastRows(perp), macro} \ {<<>>}
  <2>1. \A rows : Table(rows).rows = rows
    BY Kinds
  <2> DEFINE last == LastRows(perp)
             A == IF counts = <<>> THEN {} ELSE {Table(counts)}
             B == IF perp = <<>> THEN {} ELSE {Table(last)}
             C == IF macro = <<>> THEN {} ELSE {Table(macro)}
  <2>2. OfKind("table") = A \cup B \cup C
    BY <1>4 DEF TablesIn, IfAny
  <2> HIDE DEF counts, perp, macro, last
  <2>3. {b.rows : b \in A} = {counts} \ {<<>>}
    BY <2>1
  <2>4. {b.rows : b \in B} = {last} \ {<<>>}
    BY <2>1, <1>7 DEF last
  <2>5. {b.rows : b \in C} = {macro} \ {<<>>}
    BY <2>1
  <2> HIDE DEF A, B, C
  <2>6. {b.rows : b \in OfKind("table")} = {b.rows : b \in A} \cup {b.rows : b \in B} \cup {b.rows : b \in C}
    BY <2>2
  <2>7. QED
    BY <2>3, <2>4, <2>5, <2>6 DEF last
<1>9. ASSUME "perp_context" \notin lost, answer["perp_context"] # <<>>
      PROVE  LET all == answer["perp_context"] IN
             all[Len(all)] \in Range(LastRows(Shown("perp_context"))) <=> Len(all) <= PageLimit
  BY <1>2, <1>3, <1>9, NewestShown DEF Shown
<1>10. /\ counts = Shown("layer_counts") /\ perp = Shown("perp_context") /\ macro = Shown("macro")
       /\ bad = Shown("quarantine") /\ fresh = Shown("freshness")
  BY <1>2, <1>3
<1> HIDE DEF counts, perp, macro, bad, fresh, Shown
<1>11. QED
  BY <1>0, <1>1, <1>5, <1>6, <1>8, <1>9, <1>10 DEF PageSurvivesFailures

\* The rows of an answer hold cells.
LEMMA FreshCells ==
  ASSUME ResultsInv, NEW r \in Range(results["freshness"])
  PROVE  OrZero(r.count) \in Nat /\ OrZero(r.lag) \in Int
<1>1. "freshness" \in Names
  BY FiveNames
<1>2. results["freshness"] \in Pages("freshness")
  <2>1. Range(results["freshness"]) # {}
    OBVIOUS
  <2>2. results["freshness"] # <<>>
    BY <1>1, <2>1, ResultRows, RowsFinite
  <2>3. QED
    BY <1>1, <2>2 DEF ResultsInv
<1>3. IsCell(r.count, Nat) /\ IsCell(r.lag, Int)
  BY <1>2, PageInputs
<1> DEFINE c == r.count
           l == r.lag
<1> HIDE DEF c, l
<1>4. OrZero(c) \in Nat
  BY <1>3, CellValue DEF c
<1>5. OrZero(l) \in Int
  BY <1>3, CellValue DEF l
<1>6. QED
  BY <1>4, <1>5 DEF c, l

\* Only what is recent reads as good, and what is further behind reads no better.
LEMMA StatusTrue == DashInv => StatusHonest
<1> SUFFICES ASSUME DashInv PROVE StatusHonest
  OBVIOUS
<1>0. ResultsInv
  BY DEF DashInv
<1>1. CASE page = {}
  BY <1>1, NoBlocks DEF StatusHonest
<1>2. CASE page = BuildPage(results)
  <2>1. OfKind("tile") = TilesOf(results)
    BY <1>2, BlocksByKind
  <2>2. ASSUME NEW a \in OfKind("tile")
        PROVE  a.status = TileStatus(a.row) /\ OrZero(a.row.count) \in Nat /\ OrZero(a.row.lag) \in Int
    <3>1. PICK row \in Range(results["freshness"]) : a = StatTile(row)
      BY <2>1, <2>2 DEF TilesOf
    <3>2. a.status = TileStatus(row) /\ a.row = row
      BY <3>1, Kinds
    <3>3. OrZero(row.count) \in Nat /\ OrZero(row.lag) \in Int
      BY <1>0, FreshCells
    <3>4. QED
      BY <3>2, <3>3
  <2>3. ASSUME NEW a \in OfKind("tile"), a.status = "good"
        PROVE  OrZero(a.row.count) > 0 /\ a.row.lag # {} /\ OrZero(a.row.lag) < Fresh
    <3>1. TileStatus(a.row) = "good" /\ OrZero(a.row.count) \in Nat
      BY <2>2, <2>3
    <3> HIDE DEF OrZero
    <3>2. QED
      BY <3>1 DEF TileStatus
  <2>4. ASSUME NEW a \in OfKind("tile"), NEW b \in OfKind("tile"),
               a.row.lag # {}, b.row.lag # {}, OrZero(b.row.count) > 0, OrZero(a.row.lag) >= OrZero(b.row.lag)
        PROVE  Grade[a.status] >= Grade[b.status]
    <3> DEFINE la == OrZero(a.row.lag)
               lb == OrZero(b.row.lag)
               Of(lag) == IF lag < 15 THEN 1 ELSE IF lag < 60 THEN 2 ELSE IF lag < 1440 THEN 3 ELSE 4
    <3>1. la \in Int /\ lb \in Int /\ la >= lb /\ a.status = TileStatus(a.row) /\ b.status = TileStatus(b.row)
          /\ OrZero(b.row.count) \in Nat
      BY <2>2, <2>4
    <3>2. /\ Fresh = 15 /\ Warn = 60 /\ Serious = 1440
          /\ Grade["good"] = 1 /\ Grade["warning"] = 2 /\ Grade["serious"] = 3 /\ Grade["critical"] = 4
      BY DEF Fresh, Warn, Serious, Grade
    <3> HIDE DEF OrZero, Grade, Fresh, Warn, Serious
    <3>3. b.status = IF lb < Fresh THEN "good" ELSE IF lb < Warn THEN "warning"
                     ELSE IF lb < Serious THEN "serious" ELSE "critical"
      <4>1. OrZero(b.row.count) # 0
        BY <2>4, <3>1
      <4>2. QED
        BY <2>4, <3>1, <4>1 DEF TileStatus
    <3>4. \/ a.status = "critical"
          \/ a.status = IF la < Fresh THEN "good" ELSE IF la < Warn THEN "warning"
                        ELSE IF la < Serious THEN "serious" ELSE "critical"
      BY <2>4, <3>1 DEF TileStatus
    <3> HIDE DEF la, lb
    <3>5. Grade[b.status] = Of(lb)
      BY <3>2, <3>3
    <3>6. Grade[a.status] = 4 \/ Grade[a.status] = Of(la)
      BY <3>2, <3>4
    <3>7. Of(la) >= Of(lb) /\ 4 >= Of(lb)
      BY <3>1
    <3>8. QED
      BY <3>5, <3>6, <3>7
  <2>5. QED
    BY <2>3, <2>4 DEF StatusHonest
<1>3. QED
  BY <1>1, <1>2 DEF DashInv

\* What the queries of counts answer.
CountRows(rows) ==
  /\ rows \in Seq(Range(rows)) /\ rows # <<>> /\ \A r \in Range(rows) : IsCell(r.count, Nat)
  /\ \A r, s \in Range(rows) : r.day = s.day /\ r.layer = s.layer => r = s

\* A row that has been read is such a row.
LEMMA CountsRead ==
  ASSUME ResultsInv, NEW q \in {"layer_counts", "quarantine"}, results[q] # <<>>
  PROVE  /\ CountRows(results[q])
         /\ q = "quarantine" => \A r \in Range(results[q]) : r.layer \in {"Accepted", "Quarantined"}
<1>1. q \in Names
  BY FiveNames
<1>2. results[q] \in Pages(q)
  BY <1>1 DEF ResultsInv
<1>3. results[q] \in Pages("layer_counts") \cup Pages("quarantine")
  BY <1>2
<1>4. results[q] \in Seq(Range(results[q]))
  BY <1>1, ResultRows
<1>5. CountRows(results[q])
  <2> HIDE DEF IsCell
  <2>1. QED
    BY <1>3, <1>4, PageInputs DEF CountRows
<1>6. q = "quarantine" => \A r \in Range(results[q]) : r.layer \in {"Accepted", "Quarantined"}
  BY <1>2, PageInputs
<1>7. QED
  BY <1>5, <1>6

\* The value of a bar is that of its row.
LEMMA BarValueIs ==
  ASSUME NEW rows, CountRows(rows), NEW layer, NEW day
  PROVE  /\ BarValue(rows, layer, day) \in Nat
         /\ \A r \in Range(rows) : r.layer = layer /\ r.day = day => BarValue(rows, layer, day) = OrZero(r.count)
         /\ BarValue(rows, layer, day) # 0 => \E r \in Range(rows) : r.layer = layer /\ r.day = day
<1> DEFINE found == {r \in Range(rows) : r.layer = layer /\ r.day = day}
<1>0. \A r \in Range(rows) : OrZero(r.count) \in Nat
  <2> TAKE r \in Range(rows)
  <2> DEFINE c == r.count
  <2>1. IsCell(c, Nat)
    BY DEF CountRows
  <2> HIDE DEF c
  <2>2. OrZero(c) \in Nat
    BY <2>1, CellValue
  <2>3. QED
    BY <2>2 DEF c
<1> HIDE DEF OrZero
<1>1. CASE found = {}
  <2>1. BarValue(rows, layer, day) = 0
    BY <1>1 DEF BarValue
  <2>2. QED
    BY <1>1, <2>1
<1>2. CASE found # {}
  <2>1. PICK r \in found : TRUE
    BY <1>2
  <2>2. r \in Range(rows) /\ r.layer = layer /\ r.day = day
    OBVIOUS
  <2>3. \A s \in found : s = r
    <3> TAKE s \in found
    <3>1. s \in Range(rows) /\ s.layer = layer /\ s.day = day
      OBVIOUS
    <3>2. QED
      BY <2>2, <3>1 DEF CountRows
  <2>4. BarValue(rows, layer, day) = OrZero((CHOOSE s \in found : TRUE).count)
    BY <1>2 DEF BarValue
  <2>5. (CHOOSE s \in found : TRUE) = r
    <3> HIDE DEF found
    <3>1. (CHOOSE s \in found : TRUE) \in found
      BY <1>2
    <3>2. QED
      BY <2>3, <3>1
  <2>6. BarValue(rows, layer, day) = OrZero(r.count)
    BY <2>4, <2>5
  <2>7. \A s \in Range(rows) : s.layer = layer /\ s.day = day => s = r
    BY <2>3
  <2>8. QED
    BY <1>0, <2>2, <2>6, <2>7
<1>3. QED
  BY <1>1, <1>2

\* What the panel of rates shows.
LEMMA RateFacts ==
  ASSUME NEW rows, CountRows(rows), \A r \in Range(rows) : r.layer \in {"Accepted", "Quarantined"},
         NEW b, b = RateBars(rows)
  PROVE  /\ \A day \in DOMAIN b.rates : 0 <= b.rates[day][1] /\ b.rates[day][1] <= b.rates[day][2]
         /\ {day \in DOMAIN b.rates : b.rates[day][1] > 0}
              = {r.day : r \in {s \in Range(rows) : s.layer = "Quarantined" /\ OrZero(s.count) > 0}}
<1>1. b.rates = [day \in DaysOf(rows) |-> RateOf(rows, day)]
  <2> HIDE DEF DaysOf, RateOf
  <2>1. QED
    BY DEF RateBars
<1>2. ASSUME NEW day \in DaysOf(rows)
      PROVE  /\ 0 <= RateOf(rows, day)[1] /\ RateOf(rows, day)[1] <= RateOf(rows, day)[2]
             /\ RateOf(rows, day)[1] > 0 <=> BarValue(rows, "Quarantined", day) > 0
  <2> DEFINE a == BarValue(rows, "Accepted", day)
             q == BarValue(rows, "Quarantined", day)
  <2>1. a \in Nat
    BY BarValueIs
  <2>2. q \in Nat
    BY BarValueIs
  <2> HIDE DEF BarValue, a, q
  <2>3. RateOf(rows, day) = IF a + q = 0 THEN <<0, 1>> ELSE <<q, a + q>>
    BY DEF RateOf, Rate, a, q
  <2>4. CASE a + q = 0
    <3>1. RateOf(rows, day)[1] = 0 /\ RateOf(rows, day)[2] = 1 /\ q = 0
      BY <2>1, <2>2, <2>3, <2>4
    <3>2. QED
      BY <3>1 DEF q
  <2>5. CASE a + q # 0
    <3>1. RateOf(rows, day)[1] = q /\ RateOf(rows, day)[2] = a + q
      BY <2>3, <2>5
    <3>2. QED
      BY <2>1, <2>2, <3>1 DEF q
  <2>6. QED
    BY <2>4, <2>5
<1>3. ASSUME NEW day \in DaysOf(rows)
      PROVE  BarValue(rows, "Quarantined", day) > 0 <=>
               \E r \in Range(rows) : r.layer = "Quarantined" /\ OrZero(r.count) > 0 /\ r.day = day
  <2> DEFINE q == BarValue(rows, "Quarantined", day)
  <2>1. q \in Nat
    BY BarValueIs
  <2>2. \A r \in Range(rows) : r.layer = "Quarantined" /\ r.day = day => q = OrZero(r.count)
    BY BarValueIs
  <2>3. q # 0 => \E r \in Range(rows) : r.layer = "Quarantined" /\ r.day = day
    BY BarValueIs
  <2> HIDE DEF q, OrZero
  <2>4. ASSUME q > 0 PROVE \E r \in Range(rows) : r.layer = "Quarantined" /\ OrZero(r.count) > 0 /\ r.day = day
    <3>1. PICK r \in Range(rows) : r.layer = "Quarantined" /\ r.day = day
      BY <2>1, <2>3, <2>4
    <3>2. QED
      BY <2>2, <2>4, <3>1
  <2>5. ASSUME NEW r \in Range(rows), r.layer = "Quarantined", OrZero(r.count) > 0, r.day = day PROVE q > 0
    BY <2>2, <2>5
  <2>6. QED
    BY <2>4, <2>5 DEF q
<1>4. DOMAIN b.rates = DaysOf(rows) /\ \A day \in DaysOf(rows) : b.rates[day] = RateOf(rows, day)
  <2> HIDE DEF DaysOf, RateOf
  <2>1. QED
    BY <1>1
<1>5. DaysOf(rows) = {r.day : r \in Range(rows)}
  BY DEF DaysOf
<1> HIDE DEF DaysOf, RateOf, BarValue, OrZero
<1>6. \A day \in DOMAIN b.rates : 0 <= b.rates[day][1] /\ b.rates[day][1] <= b.rates[day][2]
  BY <1>2, <1>4
<1>7. {day \in DOMAIN b.rates : b.rates[day][1] > 0}
        = {r.day : r \in {s \in Range(rows) : s.layer = "Quarantined" /\ OrZero(s.count) > 0}}
  <2>1. \A day \in DaysOf(rows) : b.rates[day][1] > 0 <=>
          \E r \in Range(rows) : r.layer = "Quarantined" /\ OrZero(r.count) > 0 /\ r.day = day
    BY <1>2, <1>3, <1>4
  <2>2. \A day : (\E r \in Range(rows) : r.layer = "Quarantined" /\ OrZero(r.count) > 0 /\ r.day = day)
                   => day \in DaysOf(rows)
    BY <1>5
  <2>3. QED
    BY <1>4, <2>1, <2>2
<1>8. QED
  BY <1>6, <1>7

\* A day with quarantined rows reads as one.
LEMMA QuarantineSeen == DashInv => QuarantineVisible
<1> SUFFICES ASSUME DashInv, NEW b \in OfKind("rate")
             PROVE  /\ \A day \in DOMAIN b.rates : 0 <= b.rates[day][1] /\ b.rates[day][1] <= b.rates[day][2]
                    /\ {day \in DOMAIN b.rates : b.rates[day][1] > 0}
                         = {r.day : r \in {s \in Range(results["quarantine"]) :
                                              s.layer = "Quarantined" /\ OrZero(s.count) > 0}}
  BY DEF QuarantineVisible
<1>0. ResultsInv
  BY DEF DashInv
<1> DEFINE rows == results["quarantine"]
<1>1. rows # <<>> /\ b = RateBars(rows)
  <2>1. page = BuildPage(results)
    BY NoBlocks DEF DashInv
  <2>2. OfKind("rate") = RatesIn(results)
    BY <2>1, BlocksByKind
  <2> HIDE DEF RateBars
  <2>3. QED
    BY <2>2 DEF RatesIn, IfAny
<1>2. CountRows(rows) /\ \A r \in Range(rows) : r.layer \in {"Accepted", "Quarantined"}
  BY <1>0, <1>1, CountsRead
<1> HIDE DEF rows
<1>3. QED
  BY <1>1, <1>2, RateFacts DEF rows

\* The larger and the smaller of two numbers.
LEMMA OfTwo ==
  ASSUME NEW a \in Int, NEW b \in Int
  PROVE  /\ Max({a, b}) \in {a, b} /\ Max({a, b}) >= a /\ Max({a, b}) >= b
         /\ Min({a, b}) \in {a, b} /\ Min({a, b}) <= a /\ Min({a, b}) <= b
<1> DEFINE S == {a, b}
<1>1. IsFiniteSet(S)
  <2>1. IsFiniteSet({a}) /\ IsFiniteSet({b})
    BY FS_Singleton
  <2>2. S = {a} \cup {b}
    OBVIOUS
  <2>3. QED
    BY <2>1, <2>2, FS_Union
<1>2. S \subseteq Int /\ S # {} /\ a \in S /\ b \in S
  OBVIOUS
<1> HIDE DEF S
<1>3. Max(S) \in S /\ \A x \in S : x <= Max(S)
  BY <1>1, <1>2, Extremes
<1>4. Min(S) \in S /\ \A x \in S : Min(S) <= x
  BY <1>1, <1>2, Extremes
<1>5. Max(S) \in {a, b} /\ Min(S) \in {a, b}
  BY <1>3, <1>4 DEF S
<1>6. a <= Max(S) /\ b <= Max(S) /\ Min(S) <= a /\ Min(S) <= b
  BY <1>2, <1>3, <1>4
<1> HIDE DEF Max, Min
<1>7. Max(S) \in Int /\ Min(S) \in Int
  BY <1>5
<1>8. QED
  BY <1>5, <1>6, <1>7 DEF S

\* A bar of a group is in the plot and ends before the next begins.
LEMMA GroupPlaces ==
  ASSUME NEW n \in 1..MostDays, NEW k \in 1..3, NEW g \in 1..n, NEW s \in 1..k, NEW w, w = BarWidth(n, k)
  PROVE  /\ w \in Nat \ {0} /\ BarLeft(n, k, g, s) \in Nat
         /\ BarLeft(n, k, g, s) + w <= PlotWidth * n * k
         /\ \A h \in 1..n, t \in 1..k : g < h \/ (g = h /\ s < t) =>
              BarLeft(n, k, g, s) + w <= BarLeft(n, k, h, t)
<1>1. PlotWidth = 640 /\ n \in 1..33 /\ n \in Nat /\ g \in Nat
  BY DEF PlotWidth, Width, Left, Right, MostDays
<1>2. /\ w \in {640 - (12 * n) - (2 * n * k), 3 * n * k} /\ w \in Int
      /\ w >= 640 - (12 * n) - (2 * n * k) /\ w >= 3 * n * k
  <2> DEFINE a == 640 - (12 * n) - (2 * n * k)
             b == 3 * n * k
  <2>1. a \in Int /\ b \in Int
    BY <1>1
  <2>2. w = Max({a, b})
    BY <1>1 DEF BarWidth
  <2> HIDE DEF a, b
  <2>3. w \in {a, b} /\ w >= a /\ w >= b
    BY <2>1, <2>2, OfTwo
  <2>4. w \in Int
    BY <2>1, <2>3
  <2>5. QED
    BY <2>3, <2>4 DEF a, b
<1>3. \A h, t : BarLeft(n, k, h, t) = ((h - 1) * 640 * k) + (6 * n * k) + ((t - 1) * (w + (2 * n * k)))
  BY <1>1 DEF BarLeft
<1> DEFINE Place(h, t) == ((h - 1) * 640 * k) + (6 * n * k) + ((t - 1) * (w + (2 * n * k)))
<1>4. /\ w > 0 /\ Place(g, s) \in Nat /\ Place(g, s) + w <= 640 * n * k
      /\ \A h \in 1..n, t \in 1..k : g < h \/ (g = h /\ s < t) => Place(g, s) + w <= Place(h, t)
  <2>1. CASE k = 1
    <3>1. w > 0 /\ s = 1 /\ \A t \in 1..k : t = 1
      BY <1>1, <1>2, <2>1
    <3>2. Place(g, s) \in Nat /\ Place(g, s) + w <= 640 * n * k
      BY <1>1, <1>2, <2>1, <3>1
    <3>3. ASSUME NEW h \in 1..n, NEW t \in 1..k, g < h \/ (g = h /\ s < t) PROVE Place(g, s) + w <= Place(h, t)
      BY <1>1, <1>2, <2>1, <3>1, <3>3
    <3>4. QED
      BY <3>1, <3>2, <3>3
  <2>2. CASE k = 2
    <3>1. w > 0 /\ s \in {1, 2} /\ \A t \in 1..k : t \in {1, 2}
      BY <1>1, <1>2, <2>2
    <3>2. Place(g, s) \in Nat /\ Place(g, s) + w <= 640 * n * k
      BY <1>1, <1>2, <2>2, <3>1
    <3>3. ASSUME NEW h \in 1..n, NEW t \in 1..k, g < h \/ (g = h /\ s < t) PROVE Place(g, s) + w <= Place(h, t)
      <4>1. CASE g < h
        BY <1>1, <1>2, <2>2, <3>1, <4>1
      <4>2. CASE g = h /\ s < t
        BY <1>1, <1>2, <2>2, <3>1, <4>2
      <4>3. QED
        BY <3>3, <4>1, <4>2
    <3>4. QED
      BY <3>1, <3>2, <3>3
  <2>3. CASE k = 3
    <3>1. w > 0 /\ s \in {1, 2, 3} /\ \A t \in 1..k : t \in {1, 2, 3}
      BY <1>1, <1>2, <2>3
    <3>2. Place(g, s) \in Nat /\ Place(g, s) + w <= 640 * n * k
      BY <1>1, <1>2, <2>3, <3>1
    <3>3. ASSUME NEW h \in 1..n, NEW t \in 1..k, g < h \/ (g = h /\ s < t) PROVE Place(g, s) + w <= Place(h, t)
      BY <1>1, <1>2, <2>3, <3>1, <3>3
    <3>4. QED
      BY <3>1, <3>2, <3>3
  <2>4. QED
    BY <2>1, <2>2, <2>3
<1>5. \A h, t : BarLeft(n, k, h, t) = Place(h, t)
  BY <1>3
<1> HIDE DEF Place
<1>6. w \in Nat \ {0}
  BY <1>2, <1>4
<1>7. QED
  BY <1>1, <1>4, <1>5, <1>6

\* A bar of a day is in the plot and ends before the next begins.
LEMMA DayPlaces ==
  ASSUME NEW n \in 1..MostDays, NEW bar, bar = DayWidth(n), NEW i \in 1..n
  PROVE  /\ bar \in Nat \ {0} /\ DayLeft(n, i) \in Nat /\ DayLeft(n, i) + bar <= PlotWidth * n
         /\ \A h \in 1..n : i < h => DayLeft(n, i) + bar <= DayLeft(n, h)
<1>1. PlotWidth = 640 /\ n \in 1..33 /\ n \in Nat /\ i \in Nat
  BY DEF PlotWidth, Width, Left, Right, MostDays
<1>2. bar \in {640 - (16 * n), 56 * n} /\ bar <= 640 - (16 * n)
  <2> DEFINE a == 640 - (16 * n)
             b == 56 * n
  <2>1. a \in Int /\ b \in Int
    BY <1>1
  <2>2. bar = Min({a, b})
    BY <1>1 DEF DayWidth
  <2> HIDE DEF a, b
  <2>3. bar \in {a, b} /\ bar <= a
    BY <2>1, <2>2, OfTwo
  <2>4. QED
    BY <2>3 DEF a, b
<1>3. bar \in Nat /\ bar > 0 /\ bar <= 640
  BY <1>1, <1>2
<1> DEFINE d == (640 - bar) \div 2
<1>4. d \in Nat /\ d + bar <= 640
  BY <1>3
<1>5. \A h : DayLeft(n, h) = ((h - 1) * 640) + d
  BY <1>1 DEF DayLeft
<1> HIDE DEF d
<1>6. DayLeft(n, i) = ((i - 1) * 640) + d /\ \A h \in 1..n : DayLeft(n, h) = ((h - 1) * 640) + d
  BY <1>5
<1>7. ((i - 1) * 640) + d \in Nat /\ ((i - 1) * 640) + d + bar <= 640 * n
  BY <1>1, <1>3, <1>4
<1>8. \A h \in 1..n : i < h => ((i - 1) * 640) + d + bar <= ((h - 1) * 640) + d
  BY <1>1, <1>3, <1>4
<1>9. QED
  BY <1>1, <1>3, <1>6, <1>7, <1>8

\* The bars of some counts lie in the plot, apart.
LEMMA GroupsInPlot ==
  ASSUME NEW rows, CountRows(rows), Cardinality(LayersOf(rows)) <= SeriesSlots, NEW b, b = GroupedBars(rows)
  PROVE  /\ \A h \in b.heights : 0 <= h /\ h <= b.plot * b.unit
         /\ b.groups <= MostDays => \A i \in DOMAIN b.spans :
              /\ 0 <= b.spans[i][1] /\ b.spans[i][1] < b.spans[i][2] /\ b.spans[i][2] <= b.across
              /\ \A j \in DOMAIN b.spans :
                   i = j \/ b.spans[i][2] <= b.spans[j][1] \/ b.spans[j][2] <= b.spans[i][1]
         /\ -Billion < b.axis[1] /\ b.axis[2] < Billion => IsInjective(b.labels)
<1> DEFINE D == DaysOf(rows)
           L == LayersOf(rows)
           n == Cardinality(D)
           k == Cardinality(L)
           values == {BarValue(rows, layer, day) : layer \in L, day \in D}
           top == IF Max(values) = 0 THEN 1 ELSE Max(values)
           w == BarWidth(n, k)
           across == PlotWidth * n * k
<1>1. /\ b.unit = top /\ b.plot = PlotHeight(240) /\ b.heights = {v * PlotHeight(240) : v \in values}
      /\ b.axis = <<0, top>> /\ b.labels = AxisLabels(0, top) /\ b.groups = n /\ b.across = across
      /\ b.spans = [i \in (1..n) \X (1..k) |-> <<BarLeft(n, k, i[1], i[2]), BarLeft(n, k, i[1], i[2]) + w>>]
  <2> HIDE DEF BarLeft, BarWidth, AxisLabels, PlotHeight, PlotWidth, BarValue, DaysOf, LayersOf
  <2>1. QED
    BY DEF GroupedBars
<1>2. /\ IsFiniteSet(D) /\ n \in Nat /\ n >= 1 /\ D # {}
      /\ IsFiniteSet(L) /\ k \in Nat /\ k >= 1 /\ L # {}
  BY DaysAndLayers DEF CountRows
<1>3. \A v \in values : v \in Nat
  <2>1. \A layer, day : BarValue(rows, layer, day) \in Nat
    BY BarValueIs
  <2>2. QED
    BY <2>1
<1>4. IsFiniteSet(values) /\ values # {}
  <2> DEFINE P == L \X D
             f == [p \in P |-> BarValue(rows, p[1], p[2])]
  <2>1. IsFiniteSet(P)
    BY <1>2, FS_Product
  <2>2. values = {f[p] : p \in P}
    <3> HIDE DEF L, D, BarValue
    <3>1. ASSUME NEW layer \in L, NEW day \in D PROVE BarValue(rows, layer, day) \in {f[p] : p \in P}
      <4>1. <<layer, day>> \in P /\ f[<<layer, day>>] = BarValue(rows, layer, day)
        OBVIOUS
      <4> HIDE DEF f, P
      <4>2. QED
        BY <4>1
    <3>2. ASSUME NEW p \in P PROVE f[p] \in values
      <4>1. p[1] \in L /\ p[2] \in D /\ f[p] = BarValue(rows, p[1], p[2])
        OBVIOUS
      <4> HIDE DEF f, P
      <4>2. QED
        BY <4>1
    <3> HIDE DEF f, P
    <3>3. QED
      BY <3>1, <3>2
  <2>3. P # {}
    <3> HIDE DEF L, D
    <3>1. PICK layer \in L, day \in D : TRUE
      BY <1>2
    <3>2. <<layer, day>> \in P
      OBVIOUS
    <3>3. QED
      BY <3>2
  <2> HIDE DEF P, f, values
  <2>4. IsFiniteSet(values)
    BY <2>1, <2>2, ImageCount
  <2>5. QED
    BY <2>2, <2>3, <2>4
<1> HIDE DEF values, n, k, D, L, w, across
<1>5. top \in Nat \ {0} /\ \A v \in values : v \in Nat /\ v <= top
  <2>1. values \subseteq Int
    BY <1>3
  <2>2. Max(values) \in values /\ \A v \in values : v <= Max(values)
    BY <1>4, <2>1, Extremes
  <2>3. Max(values) \in Nat
    BY <1>3, <2>2
  <2>4. QED
    BY <1>3, <2>2, <2>3
<1> HIDE DEF top
<1>6. PlotHeight(240) = 192
  BY DEF PlotHeight
<1>7. \A h \in b.heights : 0 <= h /\ h <= b.plot * b.unit
  <2> SUFFICES ASSUME NEW v \in values PROVE 0 <= v * 192 /\ v * 192 <= 192 * top
    BY <1>1, <1>6
  <2>1. QED
    BY <1>5
<1>8. ASSUME n <= MostDays, NEW i \in (1..n) \X (1..k)
      PROVE  /\ 0 <= b.spans[i][1] /\ b.spans[i][1] < b.spans[i][2] /\ b.spans[i][2] <= across
             /\ \A j \in (1..n) \X (1..k) :
                  i = j \/ b.spans[i][2] <= b.spans[j][1] \/ b.spans[j][2] <= b.spans[i][1]
  <2>1. n \in 1..MostDays /\ k \in 1..3
    <3>1. k <= 3
      BY DEF k, L, SeriesSlots
    <3>2. QED
      BY <1>2, <1>8, <3>1 DEF MostDays
  <2>2. w = BarWidth(n, k)
    BY DEF w
  <2> DEFINE Place(j) == BarLeft(n, k, j[1], j[2])
  <2>3. ASSUME NEW j \in (1..n) \X (1..k)
        PROVE  b.spans[j][1] = Place(j) /\ b.spans[j][2] = Place(j) + w /\ j = <<j[1], j[2]>> /\ j[1] \in 1..n /\ j[2] \in 1..k
    BY <1>1
  <2>4. ASSUME NEW g \in 1..n, NEW s \in 1..k
        PROVE  /\ w \in Nat \ {0} /\ BarLeft(n, k, g, s) \in Nat /\ BarLeft(n, k, g, s) + w <= across
               /\ \A h \in 1..n, t \in 1..k : g < h \/ (g = h /\ s < t) =>
                    BarLeft(n, k, g, s) + w <= BarLeft(n, k, h, t)
    <3>1. w \in Nat \ {0} /\ BarLeft(n, k, g, s) \in Nat /\ BarLeft(n, k, g, s) + w <= PlotWidth * n * k
      BY <2>1, <2>2, GroupPlaces
    <3>2. \A h \in 1..n, t \in 1..k : g < h \/ (g = h /\ s < t) =>
            BarLeft(n, k, g, s) + w <= BarLeft(n, k, h, t)
      BY <2>1, <2>2, GroupPlaces
    <3>3. QED
      BY <3>1, <3>2 DEF across
  <2>5. ASSUME NEW j \in (1..n) \X (1..k)
        PROVE  /\ w \in Nat \ {0} /\ Place(j) \in Nat /\ Place(j) + w <= across
               /\ \A m \in (1..n) \X (1..k) : j[1] < m[1] \/ (j[1] = m[1] /\ j[2] < m[2]) => Place(j) + w <= Place(m)
    <3>1. \A m \in (1..n) \X (1..k) : m[1] \in 1..n /\ m[2] \in 1..k
      BY <2>3
    <3>2. QED
      BY <2>4, <3>1
  <2> HIDE DEF Place
  <2>6. 0 <= b.spans[i][1] /\ b.spans[i][1] < b.spans[i][2] /\ b.spans[i][2] <= across
    <3>1. b.spans[i][1] = Place(i) /\ b.spans[i][2] = Place(i) + w
      BY <2>3
    <3>2. w \in Nat \ {0} /\ Place(i) \in Nat /\ Place(i) + w <= across
      BY <2>5
    <3>3. QED
      BY <3>1, <3>2
  <2>7. ASSUME NEW j \in (1..n) \X (1..k), i # j
        PROVE  b.spans[i][2] <= b.spans[j][1] \/ b.spans[j][2] <= b.spans[i][1]
    <3>1. /\ i = <<i[1], i[2]>> /\ i[1] \in 1..n /\ i[2] \in 1..k
          /\ j = <<j[1], j[2]>> /\ j[1] \in 1..n /\ j[2] \in 1..k
          /\ b.spans[i][1] = Place(i) /\ b.spans[i][2] = Place(i) + w
          /\ b.spans[j][1] = Place(j) /\ b.spans[j][2] = Place(j) + w
      BY <2>3
    <3>2. \/ i[1] < j[1] \/ (i[1] = j[1] /\ i[2] < j[2])
          \/ j[1] < i[1] \/ (j[1] = i[1] /\ j[2] < i[2])
      <4> DEFINE p == i[1]
                 q == i[2]
                 u == j[1]
                 v == j[2]
      <4>1. p # u \/ q # v
        BY <2>7, <3>1
      <4>2. p \in Int /\ q \in Int /\ u \in Int /\ v \in Int
        BY <1>2, <3>1
      <4> HIDE DEF p, q, u, v
      <4>3. p < u \/ (p = u /\ q < v) \/ u < p \/ (u = p /\ v < q)
        BY <4>1, <4>2
      <4>4. QED
        BY <4>3 DEF p, q, u, v
    <3>3. CASE i[1] < j[1] \/ (i[1] = j[1] /\ i[2] < j[2])
      BY <2>5, <3>1, <3>3
    <3>4. CASE j[1] < i[1] \/ (j[1] = i[1] /\ j[2] < i[2])
      BY <2>5, <3>1, <3>4
    <3>5. QED
      BY <3>2, <3>3, <3>4
  <2>8. QED
    BY <2>6, <2>7
<1>9. DOMAIN b.spans = (1..n) \X (1..k)
  BY <1>1
<1>10. -Billion < b.axis[1] /\ b.axis[2] < Billion => IsInjective(b.labels)
  <2>1. b.axis[2] = top /\ b.labels = AxisLabels(0, top)
    BY <1>1
  <2>2. -Billion < 0 /\ 0 < top /\ 0 \in Int /\ top \in Int
    BY <1>5 DEF Billion
  <2>3. top < Billion => IsInjective(AxisLabels(0, top))
    BY <2>2, LabelsTold
  <2>4. QED
    BY <2>1, <2>3
<1>11. QED
  BY <1>1, <1>7, <1>8, <1>9, <1>10

\* The bars of the days lie in the plot, apart.
LEMMA DaysInPlot ==
  ASSUME NEW rows, CountRows(rows), NEW b, b = RateBars(rows), b.groups <= MostDays, NEW i \in DOMAIN b.spans
  PROVE  /\ 0 <= b.spans[i][1] /\ b.spans[i][1] < b.spans[i][2] /\ b.spans[i][2] <= b.across
         /\ \A j \in DOMAIN b.spans :
              i = j \/ b.spans[i][2] <= b.spans[j][1] \/ b.spans[j][2] <= b.spans[i][1]
<1> DEFINE n == Cardinality(DaysOf(rows))
           bar == DayWidth(n)
<1>1. /\ b.groups = n /\ b.across = PlotWidth * n
      /\ b.spans = [j \in 1..n |-> <<DayLeft(n, j), DayLeft(n, j) + bar>>]
  <2> HIDE DEF DayLeft, DayWidth, RateOf, DaysOf, PlotWidth
  <2>1. QED
    BY DEF RateBars
<1>2. n \in Nat /\ n >= 1
  BY DaysAndLayers DEF CountRows
<1>3. n \in 1..MostDays /\ bar = DayWidth(n)
  <2>1. bar = DayWidth(n) /\ n <= MostDays
    BY <1>1
  <2> HIDE DEF n, bar
  <2>2. QED
    BY <1>2, <2>1 DEF MostDays
<1> HIDE DEF n, bar
<1>4. ASSUME NEW j \in 1..n
      PROVE  /\ bar \in Nat \ {0} /\ DayLeft(n, j) \in Nat /\ DayLeft(n, j) + bar <= PlotWidth * n
             /\ \A h \in 1..n : j < h => DayLeft(n, j) + bar <= DayLeft(n, h)
  <2>1. bar \in Nat \ {0} /\ DayLeft(n, j) \in Nat /\ DayLeft(n, j) + bar <= PlotWidth * n
    BY <1>3, DayPlaces
  <2>2. \A h \in 1..n : j < h => DayLeft(n, j) + bar <= DayLeft(n, h)
    BY <1>3, DayPlaces
  <2>3. QED
    BY <2>1, <2>2
<1>5. DOMAIN b.spans = 1..n /\ \A j \in 1..n : b.spans[j][1] = DayLeft(n, j) /\ b.spans[j][2] = DayLeft(n, j) + bar
  BY <1>1
<1>6. 0 <= b.spans[i][1] /\ b.spans[i][1] < b.spans[i][2] /\ b.spans[i][2] <= b.across
  <2>1. bar \in Nat \ {0} /\ DayLeft(n, i) \in Nat /\ DayLeft(n, i) + bar <= PlotWidth * n
    BY <1>4, <1>5
  <2>2. QED
    BY <1>1, <1>5, <2>1
<1>7. ASSUME NEW j \in 1..n, i # j PROVE b.spans[i][2] <= b.spans[j][1] \/ b.spans[j][2] <= b.spans[i][1]
  <2>1. i < j \/ j < i
    BY <1>2, <1>5, <1>7
  <2>2. QED
    BY <1>4, <1>5, <2>1
<1>8. QED
  BY <1>5, <1>6, <1>7

\* Marks stay in the plot and bars apart.
LEMMA MarksFit == DashInv => MarksInPlot
<1> SUFFICES ASSUME DashInv PROVE MarksInPlot
  OBVIOUS
<1>0. ResultsInv
  BY DEF DashInv
<1>1. CASE page = {}
  BY <1>1, NoBlocks DEF MarksInPlot
<1>2. CASE page = BuildPage(results) /\ Cardinality(LayersOf(results["layer_counts"])) <= SeriesSlots
  <2>1. /\ OfKind("line") = {b \in PanelsOf(results) : b.kind = "line"} /\ OfKind("bars") = BarsIn(results)
        /\ OfKind("rate") = RatesIn(results)
    BY <1>2, BlocksByKind
  <2>2. ASSUME NEW b \in OfKind("line") PROVE \A h \in b.heights : 0 <= h /\ h <= b.plot * b.unit
    BY <1>0, <2>1, PanelsHonest
  <2>3. ASSUME NEW b \in OfKind("bars")
        PROVE  /\ \A h \in b.heights : 0 <= h /\ h <= b.plot * b.unit
               /\ b.groups <= MostDays => \A i \in DOMAIN b.spans :
                    /\ 0 <= b.spans[i][1] /\ b.spans[i][1] < b.spans[i][2] /\ b.spans[i][2] <= b.across
                    /\ \A j \in DOMAIN b.spans :
                         i = j \/ b.spans[i][2] <= b.spans[j][1] \/ b.spans[j][2] <= b.spans[i][1]
    <3> DEFINE rows == results["layer_counts"]
    <3>1. rows # <<>> /\ b = GroupedBars(rows)
      <4> HIDE DEF GroupedBars
      <4>1. QED
        BY <2>1 DEF BarsIn, IfAny
    <3>2. CountRows(rows)
      BY <1>0, <3>1, CountsRead
    <3>3. Cardinality(LayersOf(rows)) <= SeriesSlots
      BY <1>2
    <3> HIDE DEF rows
    <3>4. \A h \in b.heights : 0 <= h /\ h <= b.plot * b.unit
      BY <3>1, <3>2, <3>3, GroupsInPlot
    <3>5. b.groups <= MostDays => \A i \in DOMAIN b.spans :
                    /\ 0 <= b.spans[i][1] /\ b.spans[i][1] < b.spans[i][2] /\ b.spans[i][2] <= b.across
                    /\ \A j \in DOMAIN b.spans :
                         i = j \/ b.spans[i][2] <= b.spans[j][1] \/ b.spans[j][2] <= b.spans[i][1]
      BY <3>1, <3>2, <3>3, GroupsInPlot
    <3>6. QED
      BY <3>4, <3>5
  <2>4. ASSUME NEW b \in OfKind("rate"), b.groups <= MostDays, NEW i \in DOMAIN b.spans
        PROVE  /\ 0 <= b.spans[i][1] /\ b.spans[i][1] < b.spans[i][2] /\ b.spans[i][2] <= b.across
               /\ \A j \in DOMAIN b.spans :
                    i = j \/ b.spans[i][2] <= b.spans[j][1] \/ b.spans[j][2] <= b.spans[i][1]
    <3> DEFINE rows == results["quarantine"]
    <3>1. rows # <<>> /\ b = RateBars(rows)
      <4> HIDE DEF RateBars
      <4>1. QED
        BY <2>1 DEF RatesIn, IfAny
    <3>2. CountRows(rows)
      BY <1>0, <3>1, CountsRead
    <3> HIDE DEF rows
    <3>3. QED
      BY <2>4, <3>1, <3>2, DaysInPlot
  <2>5. QED
    BY <2>2, <2>3, <2>4 DEF MarksInPlot
<1>3. QED
  BY <1>1, <1>2 DEF DashInv

\* No two rules of an axis carry the same label.
LEMMA AxesTold == DashInv => AxisDistinct
<1> SUFFICES ASSUME DashInv PROVE AxisDistinct
  OBVIOUS
<1>0. ResultsInv
  BY DEF DashInv
<1>1. CASE page = {}
  BY <1>1, NoBlocks DEF AxisDistinct
<1>2. CASE page = BuildPage(results) /\ Cardinality(LayersOf(results["layer_counts"])) <= SeriesSlots
  <2>1. OfKind("line") = {b \in PanelsOf(results) : b.kind = "line"} /\ OfKind("bars") = BarsIn(results)
    BY <1>2, BlocksByKind
  <2>2. ASSUME NEW b \in OfKind("line")
        PROVE  -Billion < b.axis[1] /\ b.axis[2] < Billion => IsInjective(b.labels)
    BY <1>0, <2>1, PanelsHonest
  <2>3. ASSUME NEW b \in OfKind("bars")
        PROVE  -Billion < b.axis[1] /\ b.axis[2] < Billion => IsInjective(b.labels)
    <3> DEFINE rows == results["layer_counts"]
    <3>1. rows # <<>> /\ b = GroupedBars(rows)
      <4> HIDE DEF GroupedBars
      <4>1. QED
        BY <2>1 DEF BarsIn, IfAny
    <3>2. CountRows(rows)
      BY <1>0, <3>1, CountsRead
    <3>3. Cardinality(LayersOf(rows)) <= SeriesSlots
      BY <1>2
    <3> HIDE DEF rows
    <3>4. QED
      BY <3>1, <3>2, <3>3, GroupsInPlot
  <2>4. QED
    BY <2>2, <2>3 DEF AxisDistinct
<1>3. QED
  BY <1>1, <1>2 DEF DashInv

\* Whatever the queries answer, of however many rows, and whichever of them fail, the
\* page says what was read: main and build_page_from_rows of
\* src/awsnative/dashboard/cli.py.
THEOREM PageIsHonest == DashSpec => []PageHonest
<1>1. DashInit => DashInv
  <2> SUFFICES ASSUME DashInit PROVE DashInv
    OBVIOUS
  <2>1. /\ asked = 0 /\ lost = {} /\ page = {} /\ dashPhase = "query" /\ results = [q \in Names |-> <<>>]
        /\ answer = results
    BY DEF DashInit
  <2>2. \A i \in 1..5 : QueryNames[i] \in Names /\ results[QueryNames[i]] = <<>>
    BY <2>1, FiveNames
  <2> HIDE DEF Names
  <2>3. ResultsInv
    <3>1. <<>> \in AnyAnswer
      BY DEF AnyAnswer
    <3>2. results \in [Names -> AnyAnswer] /\ \A q \in Names : results[q] = <<>>
      BY <2>1, <3>1
    <3>3. QED
      BY <3>2 DEF ResultsInv
  <2>4. QED
    BY <2>1, <2>2, <2>3 DEF DashInv
<1>2. DashInv /\ [DashNext]_dashVars => DashInv'
  BY DashKeeps
<1>3. DashInv => PageHonest
  BY FailuresSurvived, NoFalseZeros, StatusTrue, QuarantineSeen, MarksFit, AxesTold DEF PageHonest
<1>4. QED
  BY <1>1, <1>2, <1>3, PTL DEF DashSpec

-----------------------------------------------------------------------------
(* split_statements: sequences that list a set of positions in order.      *)

Rising(pos, at) ==
  /\ pos \in Seq(Nat)
  /\ \A k \in 1..Len(pos) : pos[k] \in at
  /\ \A p \in at : \E k \in 1..Len(pos) : pos[k] = p
  /\ \A j, k \in 1..Len(pos) : j < k => pos[j] < pos[k]

Reads(word, text, pos) ==
  /\ word \in Seq(Alphabet) /\ Len(word) = Len(pos)
  /\ \A k \in 1..Len(pos) : word[k] = text[pos[k]]

\* Nothing lists the empty set.
LEMMA RisingEmpty == Rising(<<>>, {})
BY DEF Rising

\* A listing is empty when its set is.
LEMMA RisingNone == ASSUME NEW pos, NEW at, Rising(pos, at)
                    PROVE  pos = <<>> <=> at = {}
<1>1. CASE pos = <<>>
  BY <1>1 DEF Rising
<1>2. CASE pos # <<>>
  <2>1. Len(pos) \in Nat \ {0}
    BY <1>2, EmptySeq DEF Rising
  <2>2. 1 \in 1..Len(pos)
    BY <2>1
  <2>3. QED
    BY <2>2, <1>2 DEF Rising
<1>3. QED
  BY <1>1, <1>2

\* A position above all others goes at the end.
LEMMA RisingAppends ==
  ASSUME NEW pos, NEW at, Rising(pos, at), NEW q \in Nat, \A p \in at : p < q
  PROVE  Rising(Append(pos, q), at \cup {q})
<1> DEFINE new == Append(pos, q)
           n == Len(pos)
<1>1. pos \in Seq(Nat) /\ n \in Nat
  BY LenProperties DEF Rising
<1>2. new \in Seq(Nat) /\ Len(new) = n + 1 /\ new[n + 1] = q
  BY <1>1
<1>3. \A k \in 1..n : new[k] = pos[k]
  BY <1>1
<1>4. 1..Len(new) = 1..n \cup {n + 1}
  BY <1>1, <1>2
<1> HIDE DEF new, n
<1>5. \A k \in 1..Len(new) : new[k] \in at \cup {q}
  BY <1>2, <1>3, <1>4 DEF Rising, n
<1>6. \A p \in at \cup {q} : \E k \in 1..Len(new) : new[k] = p
  BY <1>2, <1>3, <1>4 DEF Rising, n
<1>7. ASSUME NEW j \in 1..Len(new), NEW k \in 1..Len(new), j < k PROVE new[j] < new[k]
  <2>1. j \in 1..n
    BY <1>1, <1>2, <1>7
  <2>2. new[j] = pos[j] /\ pos[j] \in at
    BY <2>1, <1>3 DEF Rising, n
  <2>3. CASE k \in 1..n
    BY <2>1, <2>2, <2>3, <1>3, <1>7 DEF Rising, n
  <2>4. CASE k = n + 1
    BY <2>2, <2>4, <1>2
  <2>5. QED
    BY <2>3, <2>4, <1>4
<1>8. QED
  BY <1>2, <1>5, <1>6, <1>7 DEF Rising, new

\* The place of a member is its index.
LEMMA RisingPlaces ==
  ASSUME NEW pos, NEW at, Rising(pos, at)
  PROVE  /\ IsFiniteSet(at) /\ Cardinality(at) = Len(pos)
         /\ \A k \in 1..Len(pos) : Rank(at, pos[k]) = k
<1> DEFINE n == Len(pos)
<1>1. n \in Nat /\ 1 \in Int /\ n \in Int
  BY LenProperties DEF Rising
<1>2. ASSUME NEW m \in 0..n
      PROVE  LET T == {p \in at : \E k \in 1..m : pos[k] = p} IN IsFiniteSet(T) /\ Cardinality(T) = m
  <2> DEFINE T == {p \in at : \E k \in 1..m : pos[k] = p}
             f == [k \in 1..m |-> pos[k]]
  <2>1. \A k \in 1..m : pos[k] \in T
    BY <1>1 DEF Rising
  <2>2. \A j, k \in 1..m : j # k => pos[j] # pos[k]
    <3>1. \A j, k \in 1..m : j < k => pos[j] < pos[k] /\ pos[j] \in Nat /\ pos[k] \in Nat
      BY <1>1, ElementOfSeq DEF Rising
    <3>2. \A j, k \in 1..m : j # k => j < k \/ k < j
      BY <1>1
    <3>3. QED
      BY <3>1, <3>2
  <2>3. f \in [1..m -> T]
    BY <2>1
  <2>4. f \in Bijection(1..m, T)
    <3>1. \A j, k \in 1..m : f[j] = f[k] => j = k
      BY <2>2
    <3>2. \A p \in T : \E k \in 1..m : f[k] = p
      OBVIOUS
    <3> HIDE DEF f, T
    <3>3. f \in Injection(1..m, T)
      BY <2>3, <3>1 DEF Injection, IsInjective
    <3>4. f \in Surjection(1..m, T)
      BY <2>3, <3>2 DEF Surjection
    <3>5. QED
      BY <3>3, <3>4 DEF Bijection
  <2>5. m \in Int /\ m \in Nat
    BY <1>1
  <2>6. IsFiniteSet(1..m) /\ Cardinality(1..m) = m
    BY <2>5, <1>1, FS_Interval
  <2>7. ExistsBijection(1..m, T)
    BY <2>4 DEF ExistsBijection
  <2> HIDE DEF T, f
  <2>8. QED
    BY <2>6, <2>7, FS_Bijection DEF T
<1>3. at = {p \in at : \E k \in 1..n : pos[k] = p}
  BY DEF Rising
<1>4. n \in 0..n
  BY <1>1
<1>5. IsFiniteSet(at) /\ Cardinality(at) = n
  BY <1>2, <1>3, <1>4
<1>6. ASSUME NEW k \in 1..n PROVE Rank(at, pos[k]) = k
  <2>1. {p \in at : p <= pos[k]} = {p \in at : \E j \in 1..k : pos[j] = p}
    <3>1. ASSUME NEW p \in at, p <= pos[k] PROVE \E j \in 1..k : pos[j] = p
      <4>1. PICK j \in 1..n : pos[j] = p
        BY DEF Rising
      <4>2. pos[j] \in Nat /\ pos[k] \in Nat
        BY ElementOfSeq DEF Rising
      <4>3. ~(k < j)
        BY <3>1, <4>1, <4>2 DEF Rising
      <4>4. QED
        BY <4>1, <4>3, <1>1
    <3>2. ASSUME NEW p \in at, NEW j \in 1..k, pos[j] = p PROVE p <= pos[k]
      <4>1. j \in 1..n /\ (j < k \/ j = k)
        BY <1>1
      <4>2. pos[j] \in Nat /\ pos[k] \in Nat
        BY <4>1, ElementOfSeq DEF Rising
      <4>3. j < k => pos[j] < pos[k]
        BY <4>1 DEF Rising
      <4>4. QED
        BY <4>1, <4>2, <4>3, <3>2
    <3>3. QED
      BY <3>1, <3>2
  <2>2. k \in 0..n
    BY <1>1
  <2>3. QED
    BY <2>1, <2>2, <1>2 DEF Rank
<1>7. QED
  BY <1>5, <1>6

\* A word read off at the positions of a set spells the set.
LEMMA ReadsSpells ==
  ASSUME NEW word, NEW text, NEW pos, NEW at, Rising(pos, at), Reads(word, text, pos)
  PROVE  Spells(word, text, at)
<1>1. Len(word) = Cardinality(at)
  BY RisingPlaces DEF Reads
<1>2. ASSUME NEW p \in at PROVE word[Rank(at, p)] = text[p]
  <2>1. PICK k \in 1..Len(pos) : pos[k] = p
    BY DEF Rising
  <2>2. Rank(at, p) = k
    BY <2>1, RisingPlaces
  <2>3. QED
    BY <2>1, <2>2 DEF Reads
<1>3. QED
  BY <1>1, <1>2 DEF Spells

\* One character more.
LEMMA ReadsAppends ==
  ASSUME NEW word, NEW text, NEW pos, pos \in Seq(Nat), Reads(word, text, pos), NEW q \in Nat, text[q] \in Alphabet
  PROVE  Reads(Append(word, text[q]), text, Append(pos, q))
<1> DEFINE c == text[q]
           n == Len(pos)
<1>1. word \in Seq(Alphabet) /\ Len(word) = n /\ n \in Nat /\ c \in Alphabet
  BY LenProperties DEF Reads
<1>2. \A k \in 1..n : word[k] = text[pos[k]]
  BY DEF Reads
<1>3. c = text[q]
  OBVIOUS
<1> HIDE DEF c
<1>4. Append(word, c) \in Seq(Alphabet) /\ Len(Append(word, c)) = n + 1 /\ Len(Append(pos, q)) = n + 1
  BY <1>1
<1>5. \A k \in 1..n + 1 : Append(word, c)[k] = (IF k = n + 1 THEN c ELSE word[k])
                          /\ Append(pos, q)[k] = (IF k = n + 1 THEN q ELSE pos[k])
  BY <1>1
<1>6. \A k \in 1..n + 1 : Append(word, c)[k] = text[Append(pos, q)[k]]
  BY <1>1, <1>2, <1>3, <1>5
<1>7. QED
  BY <1>4, <1>6 DEF Reads, c

\* str.strip
Inside(word, a, b) ==
  /\ a \in Inked(word) /\ b \in Inked(word) /\ a <= b
  /\ \A k \in Inked(word) : a <= k /\ k <= b

\* What strip leaves runs from the first to the last character with ink.
LEMMA StripRange ==
  ASSUME NEW word \in Seq(Alphabet)
  PROVE  \/ Inked(word) = {} /\ Strip(word) = <<>>
         \/ \E a, b \in 1..Len(word) : Inside(word, a, b) /\ Strip(word) = SubSeq(word, a, b)
<1>1. CASE Inked(word) = {}
  BY <1>1 DEF Strip
<1>2. CASE Inked(word) # {}
  <2> DEFINE I == Inked(word)
             n == Len(word)
             a == CHOOSE i \in I : \A k \in I : i <= k
             b == CHOOSE i \in I : \A k \in I : i >= k
  <2>1. n \in Nat /\ I \subseteq 1..n
    BY LenProperties DEF Inked
  <2>2. \E i \in I : \A k \in I : i <= k
    <3>1. I \subseteq Nat /\ I # {}
      BY <2>1, <1>2
    <3>2. QED
      BY <3>1, SmallestOf
  <2>3. \E i \in I : \A k \in I : i >= k
    <3> DEFINE D == {n - i : i \in I}
    <3>1. D \subseteq Nat /\ D # {}
      BY <2>1, <1>2
    <3>2. PICK d \in D : \A e \in D : d <= e
      BY <3>1, SmallestOf
    <3>3. PICK i \in I : d = n - i
      BY <3>2
    <3>4. \A k \in I : n - k \in D
      OBVIOUS
    <3>5. \A k \in I : n - i <= n - k
      BY <3>2, <3>3, <3>4
    <3>6. \A k \in I : i >= k
      BY <3>5, <2>1
    <3>7. QED
      BY <3>6
  <2>4. a \in I /\ \A k \in I : a <= k
    BY <2>2
  <2>5. b \in I /\ \A k \in I : b >= k
    BY <2>3
  <2>6. Strip(word) = SubSeq(word, a, b)
    BY <1>2 DEF Strip
  <2> HIDE DEF a, b
  <2>7. Inside(word, a, b)
    BY <2>1, <2>4, <2>5 DEF Inside
  <2>8. QED
    BY <2>1, <2>4, <2>5, <2>6, <2>7
<1>3. QED
  BY <1>1, <1>2

-----------------------------------------------------------------------------
(* The spans of a text: where the next position in code is.                *)

\* The characters the splitter reacts to differ.
LEMMA Characters ==
  /\ Quote # Dash /\ Quote # Semi /\ Quote # Line /\ Dash # Semi /\ Dash # Line /\ Semi # Line
  /\ Quote \notin Blank /\ Dash \notin Blank /\ Semi \notin Blank
  /\ {Quote, Dash, Semi, Line} \subseteq Alphabet
BY DEF Quote, Dash, Semi, Line, Alphabet, Blank

\* The next such character of a text, or its end.
LEMMA FirstAfterIs ==
  ASSUME NEW text \in Seq(Alphabet), NEW i \in 1..Len(text), NEW c
  PROVE  /\ FirstAfter(text, i, c) \in (i + 1)..(Len(text) + 1)
         /\ FirstAfter(text, i, c) <= Len(text) => text[FirstAfter(text, i, c)] = c
         /\ \A k \in (i + 1)..Len(text) : k < FirstAfter(text, i, c) => text[k] # c
<1> DEFINE n == Len(text)
           at == {k \in (i + 1)..n : text[k] = c}
<1>1. n \in Nat
  BY LenProperties
<1>2. CASE at = {}
  <2>1. FirstAfter(text, i, c) = n + 1
    BY <1>2 DEF FirstAfter
  <2>2. \A k \in (i + 1)..n : text[k] # c
    BY <1>2
  <2>3. QED
    BY <1>1, <2>1, <2>2
<1>3. CASE at # {}
  <2>1. at \in SUBSET Nat
    BY <1>1
  <2>2. \E k \in at : \A m \in at : k <= m
    BY <2>1, <1>3, SmallestOf
  <2>3. FirstAfter(text, i, c) = CHOOSE k \in at : \A m \in at : k <= m
    BY <1>3 DEF FirstAfter
  <2>4. FirstAfter(text, i, c) \in at /\ \A m \in at : FirstAfter(text, i, c) <= m
    BY <2>2, <2>3
  <2>5. QED
    BY <1>1, <2>4
<1>4. QED
  BY <1>2, <1>3

\* A jump goes forward, and over one character of plain code.
LEMMA JumpIs ==
  ASSUME NEW text \in Seq(Alphabet), NEW i \in 1..Len(text)
  PROVE  /\ Jump(text, i) \in Nat /\ i < Jump(text, i) /\ Jump(text, i) <= Len(text) + 2
         /\ text[i] # Quote /\ ~IsComment(text, i) => Jump(text, i) = i + 1
<1>1. Len(text) \in Nat
  BY LenProperties
<1>2. CASE text[i] = Quote
  <2>1. FirstAfter(text, i, Quote) \in (i + 1)..(Len(text) + 1)
    BY FirstAfterIs
  <2>2. QED
    BY <1>1, <1>2, <2>1 DEF Jump
<1>3. CASE text[i] # Quote /\ IsComment(text, i)
  <2>1. FirstAfter(text, i, Line) \in (i + 1)..(Len(text) + 1)
    BY FirstAfterIs
  <2>2. QED
    BY <1>1, <1>3, <2>1 DEF Jump
<1>4. CASE text[i] # Quote /\ ~IsComment(text, i)
  BY <1>1, <1>4 DEF Jump
<1>5. QED
  BY <1>2, <1>3, <1>4

\* The positions in code hold the first and every jump from one of them.
LEMMA CodeReached ==
  ASSUME NEW text \in Seq(Alphabet)
  PROVE  /\ Code(text) \subseteq 1..(Len(text) + 2) /\ 1 \in Code(text)
         /\ \A i \in Code(text) : i <= Len(text) => Jump(text, i) \in Code(text)
<1> DEFINE n == Len(text)
<1>1. n \in Nat
  BY LenProperties
<1>2. Code(text) \subseteq 1..(n + 2)
  BY DEF Code
<1>3. 1 \in Code(text)
  BY <1>1 DEF Code, Reached
<1>4. ASSUME NEW i \in Code(text), i <= n PROVE Jump(text, i) \in Code(text)
  <2>1. i \in 1..n
    BY <1>1, <1>2, <1>4
  <2>2. Jump(text, i) \in 1..(n + 2)
    BY <1>1, <2>1, JumpIs
  <2>3. \A at \in SUBSET (1..(n + 2)) : Reached(text, at) => Jump(text, i) \in at
    BY <1>4 DEF Code, Reached
  <2>4. QED
    BY <2>2, <2>3 DEF Code
<1>5. QED
  BY <1>2, <1>3, <1>4

\* A position in code other than the first is where a jump ends.
LEMMA CodeCame ==
  ASSUME NEW text \in Seq(Alphabet), NEW j \in Code(text), j # 1
  PROVE  \E k \in Code(text) : k <= Len(text) /\ Jump(text, k) = j
<1> SUFFICES ASSUME \A k \in Code(text) : k <= Len(text) => Jump(text, k) # j PROVE FALSE
  OBVIOUS
<1> DEFINE at == Code(text) \ {j}
<1>1. at \in SUBSET (1..(Len(text) + 2))
  BY CodeReached
<1>2. Reached(text, at)
  BY CodeReached DEF Reached
<1>3. j \in at
  BY <1>1, <1>2 DEF Code
<1>4. QED
  BY <1>3

\* No position in code lies inside the span of another.
LEMMA CodeApart ==
  ASSUME NEW text \in Seq(Alphabet), NEW i \in Code(text), NEW j \in Code(text), i <= Len(text), i < j
  PROVE  Jump(text, i) <= j
<1> DEFINE n == Len(text)
           Inner(x) == \E y \in Code(text) : y <= n /\ y < x /\ x < Jump(text, y)
           B == {x \in Code(text) : Inner(x)}
<1>1. n \in Nat /\ Code(text) \subseteq Nat
  BY LenProperties, CodeReached
<1>2. ASSUME B # {} PROVE FALSE
  <2>1. PICK x \in B : \A y \in B : x <= y
    BY <1>1, <1>2, SmallestOf
  <2>2. PICK y \in Code(text) : y <= n /\ y < x /\ x < Jump(text, y)
    BY <2>1
  <2>3. x # 1
    BY <2>2, CodeReached
  <2>4. PICK k \in Code(text) : k <= n /\ Jump(text, k) = x
    BY <2>1, <2>3, CodeCame
  <2>5. k < x
    <3>1. k \in 1..n
      BY <1>1, <2>4, CodeReached
    <3>2. QED
      BY <3>1, <2>4, JumpIs
  <2>6. k # y
    BY <2>2, <2>4, <1>1
  <2>7. CASE k < y
    <3>1. y \in B
      BY <2>2, <2>4, <2>7
    <3>2. QED
      BY <3>1, <2>1, <2>2, <1>1
  <2>8. CASE y < k
    <3>1. k < Jump(text, y)
      <4>1. y \in 1..n
        BY <1>1, <2>2, CodeReached
      <4>2. Jump(text, y) \in Nat
        BY <4>1, JumpIs
      <4>3. QED
        BY <4>2, <2>2, <2>5, <1>1
    <3>2. k \in B
      BY <3>1, <2>2, <2>8
    <3>3. QED
      BY <3>2, <2>1, <2>5, <1>1
  <2>9. QED
    BY <2>6, <2>7, <2>8, <1>1
<1>3. ~(j < Jump(text, i))
  BY <1>2
<1>4. i \in 1..n
  BY <1>1, CodeReached
<1>5. QED
  BY <1>1, <1>3, <1>4, JumpIs

\* What the reference says of a position in code, and of one inside a span.
LEMMA AtCode ==
  ASSUME NEW text \in Seq(Alphabet), NEW a \in Code(text), a <= Len(text)
  PROVE  /\ a \in Kept(text, Code(text)) <=> ~IsComment(text, a) /\ text[a] # Semi
         /\ a \in Cuts(text, Code(text)) <=> text[a] = Semi
<1>1. Len(text) \in Nat /\ Code(text) \subseteq Nat /\ a \in 1..Len(text) /\ DOMAIN text = 1..Len(text)
  BY LenProperties, CodeReached
<1>2. a < Jump(text, a)
  BY <1>1, JumpIs
<1>3. ASSUME NEW i \in Code(text), i <= a, a < Jump(text, i) PROVE i = a
  <2>1. i \in 1..Len(text)
    BY <1>1, <1>3, CodeReached
  <2>2. ~(i < a)
    BY <1>1, <1>3, <2>1, CodeApart, JumpIs
  <2>3. QED
    BY <2>2, <1>3, <1>1
<1>4. a \in Kept(text, Code(text)) <=> ~IsComment(text, a) /\ text[a] # Semi
  BY <1>1, <1>2, <1>3 DEF Kept
<1>5. QED
  BY <1>1, <1>4 DEF Cuts

\* A position inside the span of another is not in code; the span says whether it is kept.
LEMMA InSpan ==
  ASSUME NEW text \in Seq(Alphabet), NEW i \in Code(text), NEW a \in 1..Len(text),
         i < a, a < Jump(text, i)
  PROVE  /\ a \in Kept(text, Code(text)) <=> ~IsComment(text, i) /\ text[i] # Semi
         /\ a \notin Code(text) /\ a \notin Cuts(text, Code(text))
<1>1. Len(text) \in Nat /\ Code(text) \subseteq Nat /\ i \in 1..Len(text) /\ DOMAIN text = 1..Len(text)
  BY LenProperties, CodeReached
<1>2. Jump(text, i) \in Nat
  BY <1>1, JumpIs
<1>3. a \notin Code(text)
  BY <1>1, <1>2, CodeApart
<1>4. ASSUME NEW k \in Code(text), k <= a, a < Jump(text, k) PROVE k = i
  <2>1. k \in 1..Len(text)
    BY <1>1, <1>4, CodeReached
  <2>2. Jump(text, k) \in Nat
    BY <2>1, JumpIs
  <2>3. ~(k < i)
    <3>1. k < i => Jump(text, k) <= i
      BY <2>1, CodeApart
    <3>2. QED
      BY <3>1, <2>2, <1>1, <1>4
  <2>4. ~(i < k)
    <3>1. i < k => Jump(text, i) <= k
      BY <1>1, CodeApart
    <3>2. QED
      BY <3>1, <1>2, <2>1, <1>4
  <2>5. QED
    BY <2>1, <2>3, <2>4, <1>1
<1>5. a \in Kept(text, Code(text)) <=> ~IsComment(text, i) /\ text[i] # Semi
  BY <1>1, <1>4 DEF Kept
<1>6. QED
  BY <1>3, <1>5 DEF Cuts

\* What one character more adds to the part that is read.
LEMMA PartGrows ==
  ASSUME NEW text \in Seq(Alphabet), NEW a \in 1..Len(text)
  PROVE  LET kept == Kept(text, Code(text))
             cuts == Cuts(text, Code(text))
         IN /\ a \in cuts => Part(kept, cuts, a + 1) = {}
            /\ a \notin cuts /\ a \in kept => Part(kept, cuts, a + 1) = Part(kept, cuts, a) \cup {a}
            /\ a \notin cuts /\ a \notin kept => Part(kept, cuts, a + 1) = Part(kept, cuts, a)
            /\ \A p \in Part(kept, cuts, a) : p \in Nat /\ p < a
<1> DEFINE kept == Kept(text, Code(text))
           cuts == Cuts(text, Code(text))
<1>1. kept \subseteq Nat /\ cuts \subseteq Nat /\ a \in Nat
  BY LenProperties, CodeReached DEF Kept, Cuts
<1>2. a \in cuts => a \notin kept
  BY AtCode, LenProperties DEF Cuts
<1> HIDE DEF kept, cuts
<1>3. \A p \in Nat : (p < a + 1 <=> p < a \/ p = a) /\ (p < a => p < a + 1 /\ p # a /\ ~(a < p))
  BY <1>1
<1>4. a \in cuts => Part(kept, cuts, a + 1) = {}
  BY <1>1, <1>2, <1>3 DEF Part
<1>5. a \notin cuts => \A p \in Part(kept, cuts, a) : p \in Part(kept, cuts, a + 1)
  BY <1>1, <1>3 DEF Part
<1>6. a \notin cuts => \A p \in Part(kept, cuts, a + 1) : p = a \/ p \in Part(kept, cuts, a)
  BY <1>1, <1>3 DEF Part
<1>7. a \notin cuts /\ a \in kept => a \in Part(kept, cuts, a + 1)
  BY <1>1, <1>3 DEF Part
<1>8. a \notin kept => a \notin Part(kept, cuts, a + 1)
  BY DEF Part
<1>9. \A p \in Part(kept, cuts, a) : p \in Nat /\ p < a
  BY <1>1 DEF Part
<1>10. QED
  BY <1>4, <1>5, <1>6, <1>7, <1>8, <1>9 DEF kept, cuts

\* What strip leaves of a word, letter by letter.
LEMMA StripSeq ==
  ASSUME NEW word \in Seq(Alphabet), NEW a \in 1..Len(word), NEW b \in 1..Len(word),
         Inside(word, a, b), Strip(word) = SubSeq(word, a, b)
  PROVE  /\ Strip(word) \in Seq(Alphabet) /\ Len(Strip(word)) = b - a + 1 /\ b - a + 1 \in Nat \ {0}
         /\ \A k \in 1..(b - a + 1) : Strip(word)[k] = word[k + a - 1] /\ k + a - 1 \in 1..Len(word)
         /\ Strip(word) # <<>>
<1>1. Len(word) \in Nat /\ a \in Int /\ b \in Int /\ a <= b
  BY LenProperties DEF Inside
<1>2. \A k \in a..b : word[k] \in Alphabet
  BY <1>1, ElementOfSeq
<1>3. /\ SubSeq(word, a, b) \in Seq(Alphabet)
      /\ Len(SubSeq(word, a, b)) = IF a <= b THEN b - a + 1 ELSE 0
      /\ \A k \in 1 .. b - a + 1 : SubSeq(word, a, b)[k] = word[a + k - 1]
  BY <1>1, <1>2, SubSeqProperties
<1>4. b - a + 1 \in Nat \ {0}
  BY <1>1
<1>5. Len(<<>>) = 0
  OBVIOUS
<1>6. \A k \in 1..(b - a + 1) : a + k - 1 = k + a - 1 /\ k + a - 1 \in 1..Len(word)
  BY <1>1
<1>7. QED
  BY <1>1, <1>3, <1>4, <1>5, <1>6

\* A word that reads a set of positions reads, stripped, the trimmed set.
LEMMA StripReads ==
  ASSUME NEW word, NEW text, NEW pos, NEW at, Rising(pos, at), Reads(word, text, pos)
  PROVE  /\ Strip(word) \in Seq(Alphabet)
         /\ Strip(word) = <<>> <=> Trimmed(text, at) = {}
         /\ \E new : Rising(new, Trimmed(text, at)) /\ Reads(Strip(word), text, new)
<1>1. /\ word \in Seq(Alphabet) /\ Len(word) = Len(pos) /\ pos \in Seq(Nat) /\ Len(pos) \in Nat
      /\ DOMAIN word = 1..Len(pos)
  BY LenProperties DEF Rising, Reads
<1>2. \A k \in 1..Len(pos) : k \in Inked(word) <=> text[pos[k]] \notin Blank
  BY <1>1 DEF Inked, Reads
<1>3. \A k \in 1..Len(pos) : pos[k] \in Nat
  BY <1>1, ElementOfSeq
<1>4. \A j, k \in 1..Len(pos) : pos[j] <= pos[k] <=> j <= k
  <2>1. \A j, k \in 1..Len(pos) : j < k => pos[j] < pos[k]
    BY DEF Rising
  <2>2. \A j, k \in 1..Len(pos) : j < k \/ k < j \/ j = k
    BY <1>1
  <2>3. QED
    BY <2>1, <2>2, <1>3, <1>1
<1>5. CASE Inked(word) = {} /\ Strip(word) = <<>>
  <2>1. \A p \in at : text[p] \in Blank
    BY <1>2, <1>5 DEF Rising
  <2>2. Trimmed(text, at) = {}
    BY <2>1 DEF Trimmed
  <2>3. Reads(<<>>, text, <<>>)
    BY DEF Reads
  <2>4. <<>> \in Seq(Alphabet)
    OBVIOUS
  <2>5. QED
    BY <1>5, <2>2, <2>3, <2>4, RisingEmpty
<1>6. CASE \E a, b \in 1..Len(word) : Inside(word, a, b) /\ Strip(word) = SubSeq(word, a, b)
  <2>1. PICK a, b \in 1..Len(word) : Inside(word, a, b) /\ Strip(word) = SubSeq(word, a, b)
    BY <1>6
  <2> DEFINE new == SubSeq(pos, a, b)
             m == b - a + 1
             s == Strip(word)
  <2>2. a \in 1..Len(pos) /\ b \in 1..Len(pos) /\ a <= b
    BY <1>1, <2>1 DEF Inside
  <2>3. /\ s \in Seq(Alphabet) /\ Len(s) = m /\ m \in Nat \ {0}
        /\ \A k \in 1..m : s[k] = word[k + a - 1] /\ k + a - 1 \in 1..Len(word)
        /\ s # <<>>
    BY <2>1, <1>1, StripSeq
  <2>4. new \in Seq(Nat) /\ Len(new) = m /\ \A k \in 1..m : new[k] = pos[k + a - 1]
    <3>1. a \in Int /\ b \in Int /\ \A k \in a..b : pos[k] \in Nat
      BY <2>2, <1>1, <1>3
    <3>2. /\ new \in Seq(Nat) /\ Len(new) = IF a <= b THEN b - a + 1 ELSE 0
          /\ \A k \in 1 .. b - a + 1 : new[k] = pos[a + k - 1]
      BY <3>1, SubSeqProperties
    <3>3. \A k \in 1..m : a + k - 1 = k + a - 1
      BY <2>2, <1>1
    <3>4. QED
      BY <3>2, <3>3, <2>2
  <2>5. Reads(s, text, new)
    <3>1. \A k \in 1..m : s[k] = text[new[k]]
      BY <2>3, <2>4, <1>1 DEF Reads
    <3>2. QED
      BY <2>3, <2>4, <3>1 DEF Reads
  <2>6. \A k \in 1..Len(pos) : pos[k] \in Trimmed(text, at) <=> a <= k /\ k <= b
    <3> SUFFICES ASSUME NEW k \in 1..Len(pos)
                 PROVE  pos[k] \in Trimmed(text, at) <=> a <= k /\ k <= b
      OBVIOUS
    <3>1. pos[k] \in at /\ pos[a] \in at /\ pos[b] \in at
      BY <2>2 DEF Rising
    <3>2. text[pos[a]] \notin Blank /\ text[pos[b]] \notin Blank
      BY <1>2, <2>1, <2>2 DEF Inside
    <3>3. ASSUME a <= k, k <= b PROVE pos[k] \in Trimmed(text, at)
      <4>1. pos[a] <= pos[k] /\ pos[k] <= pos[b]
        BY <3>3, <1>4, <2>2
      <4>2. QED
        BY <4>1, <3>1, <3>2 DEF Trimmed
    <3>4. ASSUME pos[k] \in Trimmed(text, at) PROVE a <= k /\ k <= b
      <4>1. PICK q, r \in at : q <= pos[k] /\ pos[k] <= r /\ text[q] \notin Blank /\ text[r] \notin Blank
        BY <3>4 DEF Trimmed
      <4>2. PICK i, j \in 1..Len(pos) : pos[i] = q /\ pos[j] = r
        BY DEF Rising
      <4>3. i \in Inked(word) /\ j \in Inked(word) /\ i <= k /\ k <= j
        BY <4>1, <4>2, <1>2, <1>4
      <4>4. a <= i /\ j <= b
        BY <4>3, <2>1 DEF Inside
      <4>5. QED
        BY <4>2, <4>3, <4>4, <2>2, <1>1
    <3>5. QED
      BY <3>3, <3>4
  <2>7. Rising(new, Trimmed(text, at))
    <3>1. \A k \in 1..m : k + a - 1 \in 1..Len(pos) /\ a <= k + a - 1 /\ k + a - 1 <= b
      BY <2>2, <2>3, <1>1
    <3>2. \A k \in 1..Len(new) : new[k] \in Trimmed(text, at)
      BY <3>1, <2>4, <2>6
    <3>3. ASSUME NEW p \in Trimmed(text, at) PROVE \E k \in 1..Len(new) : new[k] = p
      <4>1. p \in at
        BY DEF Trimmed
      <4>2. PICK k \in 1..Len(pos) : pos[k] = p
        BY <4>1 DEF Rising
      <4>3. a <= k /\ k <= b
        BY <4>2, <2>6
      <4>4. k - a + 1 \in 1..m /\ (k - a + 1) + a - 1 = k
        BY <4>2, <4>3, <2>2, <1>1
      <4>5. new[k - a + 1] = p
        BY <4>4, <4>2, <2>4
      <4>6. QED
        BY <4>4, <4>5, <2>4
    <3>4. ASSUME NEW j \in 1..Len(new), NEW k \in 1..Len(new), j < k PROVE new[j] < new[k]
      <4>1. j \in 1..m /\ k \in 1..m /\ m \in Nat
        BY <2>3, <2>4
      <4>2. j + a - 1 \in 1..Len(pos) /\ k + a - 1 \in 1..Len(pos) /\ j + a - 1 < k + a - 1
        BY <3>1, <4>1, <3>4, <2>2, <1>1
      <4>3. QED
        BY <4>1, <4>2, <2>4 DEF Rising
    <3>5. QED
      BY <2>4, <3>2, <3>3, <3>4 DEF Rising
  <2>8. Trimmed(text, at) # {}
    BY <2>2, <2>6, <1>1
  <2>9. QED
    BY <2>3, <2>5, <2>7, <2>8
<1>7. QED
  BY <1>1, <1>5, <1>6, StripRange

-----------------------------------------------------------------------------
(* What the loop has done after so many characters.                        *)

SplitTypes ==
  /\ sqlText \in Seq(Alphabet) /\ splitPhase \in {"write", "scan", "done"}
  /\ taken \in 0..Len(sqlText) /\ mode \in {"code", "quote", "comment"}
  /\ current \in Seq(Alphabet) /\ statements \in Seq(Seq(Alphabet))
  /\ together \in Seq(Alphabet) /\ parts \in Seq(Seq(Alphabet)) /\ again \in BOOLEAN
  /\ splitPhase = "write" =>
       /\ taken = 0 /\ mode = "code" /\ current = <<>> /\ statements = <<>>
       /\ together = <<>> /\ ~again
  /\ splitPhase = "done" => taken = Len(sqlText)

\* Where the two flags are up, the loop is inside a literal, or a comment, of the
\* reference.
SpanInv ==
  /\ mode = "code" => taken + 1 \in Code(sqlText)
  /\ mode = "quote" => \E i \in Code(sqlText) :
       /\ i <= taken /\ sqlText[i] = Quote
       /\ \A k \in (i + 1)..taken : sqlText[k] # Quote
  /\ mode = "comment" => \E i \in Code(sqlText) :
       /\ i <= taken /\ IsComment(sqlText, i)
       /\ \A k \in (i + 1)..taken : sqlText[k] # Line

KeptOf(text) == Kept(text, Code(text))
CutsOf(text) == Cuts(text, Code(text))
PartOf(text, end) == Part(KeptOf(text), CutsOf(text), end)
FullOf(text, t) ==
  {e \in CutsOf(text) \cup {Len(text) + 1} : e <= t /\ Trimmed(text, PartOf(text, e)) # {}}

IsRead(word, text, at) == \E pos : Rising(pos, at) /\ Reads(word, text, pos)
Lists(list, text, full) ==
  \E ends : /\ Rising(ends, full) /\ Len(list) = Len(ends)
            /\ \A k \in 1..Len(ends) : IsRead(list[k], text, Trimmed(text, PartOf(text, ends[k])))

\* The statement being read and those that are complete are the reference's.
ExactInv ==
  /\ IsRead(current, sqlText, PartOf(sqlText, taken + 1))
  /\ splitPhase # "done" => Lists(statements, sqlText, FullOf(sqlText, taken))
  /\ splitPhase = "done" => Lists(statements, sqlText, FullOf(sqlText, Len(sqlText) + 1))

ReadsOn(a) == /\ current' = Append(current, sqlText[a]) /\ UNCHANGED <<statements, together>>
            /\ a \in KeptOf(sqlText) /\ a \notin CutsOf(sqlText)
SkipsOn(a) == /\ UNCHANGED <<current, statements, together>>
            /\ a \notin KeptOf(sqlText) /\ a \notin CutsOf(sqlText)
CutsAt(a) == /\ Complete(current) /\ current' = <<>> /\ a \in CutsOf(sqlText)

\* A turn of the loop: where its character lies, and what it does with it.
LEMMA TurnInCode ==
  ASSUME SplitTypes, SpanInv, Scan, mode = "code"
  PROVE  /\ ReadsOn(taken + 1) \/ SkipsOn(taken + 1) \/ CutsAt(taken + 1)
         /\ SpanInv'
<1> DEFINE a == taken + 1
           c == sqlText[a]
<1>1. sqlText \in Seq(Alphabet) /\ Len(sqlText) \in Nat /\ taken \in Nat /\ a \in 1..Len(sqlText) /\ a \in Nat
  BY LenProperties DEF SplitTypes, Scan
<1>2. a \in Code(sqlText) /\ a <= Len(sqlText)
  BY <1>1 DEF SpanInv
<1>3. /\ a \in KeptOf(sqlText) <=> ~IsComment(sqlText, a) /\ c # Semi
      /\ a \in CutsOf(sqlText) <=> c = Semi
  BY <1>1, <1>2, AtCode DEF KeptOf, CutsOf
<1>4. Jump(sqlText, a) \in Code(sqlText)
  BY <1>1, <1>2, CodeReached
<1>5. c # Quote /\ ~IsComment(sqlText, a) => a + 1 \in Code(sqlText)
  BY <1>1, <1>4, JumpIs
<1>6. taken' = a /\ sqlText' = sqlText /\ Turn(c, Lookahead(sqlText, a))
  BY DEF Scan
<1>7. IsComment(sqlText, a) <=> c = Dash /\ Lookahead(sqlText, a) = <<Dash>>
  <2>1. CASE a < Len(sqlText)
    <3>1. Lookahead(sqlText, a) = <<sqlText[a + 1]>>
      BY <2>1 DEF Lookahead
    <3>2. <<sqlText[a + 1]>> = <<Dash>> <=> sqlText[a + 1] = Dash
      OBVIOUS
    <3>3. QED
      BY <2>1, <3>1, <3>2 DEF IsComment
  <2>2. CASE ~(a < Len(sqlText))
    <3>1. Lookahead(sqlText, a) = <<>> /\ <<>> # <<Dash>>
      BY <2>2 DEF Lookahead
    <3>2. QED
      BY <2>2, <3>1 DEF IsComment
  <2>3. QED
    BY <2>1, <2>2
<1>8. CASE c = Quote
  <2>1. Keep(c, "quote")
    BY <1>6, <1>8, Characters DEF Turn
  <2>2. mode' = "quote" /\ ReadsOn(a)
    BY <2>1, <1>3, <1>8, Characters DEF Keep, ReadsOn, IsComment
  <2>3. \A k \in (a + 1)..a : FALSE
    BY <1>1
  <2>4. SpanInv'
    BY <2>2, <2>3, <1>2, <1>6, <1>8, <1>1 DEF SpanInv
  <2>5. QED
    BY <2>2, <2>4
<1>9. CASE c # Quote /\ IsComment(sqlText, a)
  <2>1. Drop("comment")
    BY <1>6, <1>7, <1>9, Characters DEF Turn
  <2>2. mode' = "comment" /\ SkipsOn(a)
    BY <2>1, <1>3, <1>7, <1>9, Characters DEF Drop, SkipsOn
  <2>3. \A k \in (a + 1)..a : FALSE
    BY <1>1
  <2>4. SpanInv'
    BY <2>2, <2>3, <1>2, <1>6, <1>9, <1>1 DEF SpanInv
  <2>5. QED
    BY <2>2, <2>4
<1>10. CASE c # Quote /\ ~IsComment(sqlText, a) /\ c = Semi
  <2>1. Cut
    BY <1>6, <1>7, <1>10, Characters DEF Turn
  <2>2. mode' = "code" /\ CutsAt(a)
    BY <2>1, <1>3, <1>10 DEF Cut, CutsAt
  <2>3. SpanInv'
    BY <2>2, <1>5, <1>6, <1>10 DEF SpanInv
  <2>4. QED
    BY <2>2, <2>3
<1>11. CASE c # Quote /\ ~IsComment(sqlText, a) /\ c # Semi
  <2>1. Keep(c, "code")
    BY <1>6, <1>7, <1>11 DEF Turn
  <2>2. mode' = "code" /\ ReadsOn(a)
    BY <2>1, <1>3, <1>11 DEF Keep, ReadsOn
  <2>3. SpanInv'
    BY <2>2, <1>5, <1>6, <1>11 DEF SpanInv
  <2>4. QED
    BY <2>2, <2>3
<1>12. QED
  BY <1>8, <1>9, <1>10, <1>11

\* Inside a literal every character is kept.
LEMMA TurnInQuote ==
  ASSUME SplitTypes, SpanInv, Scan, mode = "quote"
  PROVE  ReadsOn(taken + 1) /\ SpanInv'
<1> DEFINE a == taken + 1
           c == sqlText[a]
<1>1. sqlText \in Seq(Alphabet) /\ Len(sqlText) \in Nat /\ taken \in Nat /\ a \in 1..Len(sqlText) /\ a \in Nat
  BY LenProperties DEF SplitTypes, Scan
<1>2. PICK i \in Code(sqlText) : /\ i <= taken /\ sqlText[i] = Quote
                                 /\ \A k \in (i + 1)..taken : sqlText[k] # Quote
  BY DEF SpanInv
<1>3. i \in 1..Len(sqlText) /\ i < a /\ i <= Len(sqlText)
  BY <1>1, <1>2, CodeReached
<1> DEFINE f == FirstAfter(sqlText, i, Quote)
<1>4. /\ f \in (i + 1)..(Len(sqlText) + 1)
      /\ f <= Len(sqlText) => sqlText[f] = Quote
      /\ \A k \in (i + 1)..Len(sqlText) : k < f => sqlText[k] # Quote
  BY <1>1, <1>3, FirstAfterIs
<1>5. Jump(sqlText, i) = f + 1 /\ Jump(sqlText, i) \in Code(sqlText)
  BY <1>1, <1>2, <1>3, CodeReached DEF Jump
<1> HIDE DEF f
<1>6. a <= f /\ a < f + 1
  <2>1. f \in Nat /\ i < f /\ i \in Nat
    BY <1>3, <1>4
  <2>2. ASSUME f < a PROVE FALSE
    <3>1. f <= Len(sqlText) /\ f \in (i + 1)..taken
      BY <2>1, <2>2, <1>1
    <3>2. QED
      BY <3>1, <1>2, <1>4
  <2>3. QED
    BY <2>1, <2>2, <1>1
<1>7. c = Quote => f = a
  <2>1. f \in Nat /\ i \in Nat /\ a \in (i + 1)..Len(sqlText)
    BY <1>1, <1>3, <1>4
  <2>2. c = Quote => ~(a < f)
    BY <2>1, <1>4
  <2>3. QED
    BY <2>1, <2>2, <1>1, <1>6
<1>8. a \in KeptOf(sqlText) /\ a \notin CutsOf(sqlText)
  <2>1. a < Jump(sqlText, i)
    BY <1>5, <1>6
  <2>2. ~IsComment(sqlText, i) /\ sqlText[i] # Semi
    BY <1>2, Characters DEF IsComment
  <2>3. QED
    BY <1>1, <1>3, <2>1, <2>2, InSpan DEF KeptOf, CutsOf
<1>9. taken' = a /\ sqlText' = sqlText /\ Keep(c, IF c = Quote THEN "code" ELSE "quote")
  <2>1. Turn(c, Lookahead(sqlText, a))
    BY DEF Scan
  <2>2. QED
    BY <2>1 DEF Scan, Turn
<1>10. ReadsOn(a)
  BY <1>8, <1>9 DEF Keep, ReadsOn
<1>11. CASE c = Quote
  <2>1. mode' = "code" /\ a + 1 \in Code(sqlText)
    BY <1>5, <1>7, <1>9, <1>11 DEF Keep
  <2>2. QED
    BY <2>1, <1>9, <1>10 DEF SpanInv
<1>12. CASE c # Quote
  <2>1. mode' = "quote"
    BY <1>9, <1>12 DEF Keep
  <2>2. \A k \in (i + 1)..a : sqlText[k] # Quote
    <3>1. \A k \in (i + 1)..a : k = a \/ k \in (i + 1)..taken
      BY <1>1, <1>3
    <3>2. QED
      BY <3>1, <1>2, <1>12
  <2>3. i <= a
    BY <1>1, <1>3
  <2>4. SpanInv'
    BY <2>1, <2>2, <2>3, <1>2, <1>9 DEF SpanInv
  <2>5. QED
    BY <2>4, <1>10
<1>13. QED
  BY <1>11, <1>12

\* Inside a comment none is, up to the end of its line.
LEMMA TurnInComment ==
  ASSUME SplitTypes, SpanInv, Scan, mode = "comment"
  PROVE  (ReadsOn(taken + 1) \/ SkipsOn(taken + 1)) /\ SpanInv'
<1> DEFINE a == taken + 1
           c == sqlText[a]
<1>1. sqlText \in Seq(Alphabet) /\ Len(sqlText) \in Nat /\ taken \in Nat /\ a \in 1..Len(sqlText) /\ a \in Nat
  BY LenProperties DEF SplitTypes, Scan
<1>2. PICK i \in Code(sqlText) : /\ i <= taken /\ IsComment(sqlText, i)
                                 /\ \A k \in (i + 1)..taken : sqlText[k] # Line
  BY DEF SpanInv
<1>3. i \in 1..Len(sqlText) /\ i < a /\ i <= Len(sqlText) /\ sqlText[i] # Quote
  BY <1>1, <1>2, CodeReached, Characters DEF IsComment
<1> DEFINE f == FirstAfter(sqlText, i, Line)
<1>4. /\ f \in (i + 1)..(Len(sqlText) + 1)
      /\ f <= Len(sqlText) => sqlText[f] = Line
      /\ \A k \in (i + 1)..Len(sqlText) : k < f => sqlText[k] # Line
  BY <1>1, <1>3, FirstAfterIs
<1>5. Jump(sqlText, i) = f /\ Jump(sqlText, i) \in Code(sqlText)
  BY <1>1, <1>2, <1>3, CodeReached DEF Jump
<1> HIDE DEF f
<1>6. a <= f
  <2>1. f \in Nat /\ i < f /\ i \in Nat
    BY <1>3, <1>4
  <2>2. ASSUME f < a PROVE FALSE
    <3>1. f <= Len(sqlText) /\ f \in (i + 1)..taken
      BY <2>1, <2>2, <1>1
    <3>2. QED
      BY <3>1, <1>2, <1>4
  <2>3. QED
    BY <2>1, <2>2, <1>1
<1>7. c = Line <=> f = a
  <2>1. f \in Nat /\ i \in Nat /\ a \in (i + 1)..Len(sqlText)
    BY <1>1, <1>3, <1>4
  <2>2. c = Line => ~(a < f)
    BY <2>1, <1>4
  <2>3. f = a => c = Line
    BY <1>4, <1>1
  <2>4. QED
    BY <2>1, <2>2, <2>3, <1>1, <1>6
<1>8. taken' = a /\ sqlText' = sqlText /\ (IF c = Line THEN Keep(c, "code") ELSE Drop("comment"))
  <2>1. Turn(c, Lookahead(sqlText, a))
    BY DEF Scan
  <2>2. QED
    BY <2>1 DEF Scan, Turn
<1>9. CASE c = Line
  <2>1. a \in Code(sqlText) /\ a <= Len(sqlText)
    BY <1>1, <1>5, <1>7, <1>9
  <2>2. c # Quote /\ c # Semi /\ ~IsComment(sqlText, a)
    BY <1>9, Characters DEF IsComment
  <2>3. a \in KeptOf(sqlText) /\ a \notin CutsOf(sqlText)
    BY <2>1, <2>2, <1>1, AtCode DEF KeptOf, CutsOf
  <2>4. a + 1 \in Code(sqlText)
    BY <2>1, <2>2, <1>1, CodeReached, JumpIs
  <2>5. mode' = "code" /\ ReadsOn(a)
    BY <2>3, <1>8, <1>9 DEF Keep, ReadsOn
  <2>6. QED
    BY <2>4, <2>5, <1>8 DEF SpanInv
<1>10. CASE c # Line
  <2>1. a < Jump(sqlText, i)
    <3>1. f \in Nat /\ f # a
      BY <1>3, <1>4, <1>7, <1>10
    <3>2. QED
      BY <3>1, <1>1, <1>5, <1>6
  <2>2. a \notin KeptOf(sqlText) /\ a \notin CutsOf(sqlText)
    BY <2>1, <1>1, <1>2, <1>3, InSpan DEF KeptOf, CutsOf
  <2>3. mode' = "comment" /\ SkipsOn(a)
    BY <2>2, <1>8, <1>10 DEF Drop, SkipsOn
  <2>4. \A k \in (i + 1)..a : sqlText[k] # Line
    <3>1. \A k \in (i + 1)..a : k = a \/ k \in (i + 1)..taken
      BY <1>1, <1>3
    <3>2. QED
      BY <3>1, <1>2, <1>10
  <2>5. i <= a
    BY <1>1, <1>3
  <2>6. SpanInv'
    BY <2>3, <2>4, <2>5, <1>2, <1>8 DEF SpanInv
  <2>7. QED
    BY <2>3, <2>6
<1>11. QED
  BY <1>9, <1>10

\* In all three modes.
LEMMA TurnDoes ==
  ASSUME SplitTypes, SpanInv, Scan
  PROVE  /\ ReadsOn(taken + 1) \/ SkipsOn(taken + 1) \/ CutsAt(taken + 1)
         /\ SpanInv'
BY TurnInCode, TurnInQuote, TurnInComment DEF SplitTypes

\* strip makes a text of a text.
LEMMA StripType == \A word \in Seq(Alphabet) : Strip(word) \in Seq(Alphabet)
<1> SUFFICES ASSUME NEW word \in Seq(Alphabet) PROVE Strip(word) \in Seq(Alphabet)
  OBVIOUS
<1>1. <<>> \in Seq(Alphabet)
  OBVIOUS
<1>2. QED
  BY <1>1, StripRange, StripSeq

\* A complete statement is a text.
LEMMA CompleteTypes ==
  ASSUME SplitTypes, Complete(current)
  PROVE  statements' \in Seq(Seq(Alphabet)) /\ together' \in Seq(Alphabet)
<1>1. Strip(current) \in Seq(Alphabet) /\ statements \in Seq(Seq(Alphabet)) /\ together \in Seq(Alphabet)
  BY StripType DEF SplitTypes
<1>2. CASE Strip(current) = <<>>
  BY <1>1, <1>2 DEF Complete
<1>3. CASE Strip(current) # <<>>
  <2> DEFINE s == Strip(current)
  <2>1. statements' = Append(statements, s) /\ s \in Seq(Alphabet)
    BY <1>1, <1>3 DEF Complete
  <2>2. together' = s \/ together' = together \o <<Semi>> \o s
    BY <1>3 DEF Complete
  <2> HIDE DEF s
  <2>3. <<Semi>> \in Seq(Alphabet)
    BY Characters
  <2>4. together \o <<Semi>> \in Seq(Alphabet)
    BY <1>1, <2>3, ConcatProperties
  <2>5. together \o <<Semi>> \o s \in Seq(Alphabet)
    BY <2>1, <2>4, ConcatProperties
  <2>6. statements' \in Seq(Seq(Alphabet))
    BY <1>1, <2>1
  <2>7. QED
    BY <2>1, <2>2, <2>5, <2>6
<1>4. QED
  BY <1>2, <1>3

\* The splitter keeps its types.
LEMMA SplitTyped == SplitTypes /\ [SqlNext]_sqlVars => SplitTypes'
<1> SUFFICES ASSUME SplitTypes, [SqlNext]_sqlVars PROVE SplitTypes'
  OBVIOUS
<1>0. Len(sqlText) \in Nat /\ sqlText \in Seq(Alphabet)
  BY LenProperties DEF SplitTypes
<1>e. <<>> \in Seq(Alphabet) /\ <<>> \in Seq(Seq(Alphabet))
  OBVIOUS
<1>1. CASE UNCHANGED splitVars
  BY <1>1 DEF SplitTypes, splitVars
<1>2. ASSUME NEW c \in Alphabet, WriteChar(c) PROVE SplitTypes'
  <2>1. sqlText' = Append(sqlText, c) /\ Append(sqlText, c) \in Seq(Alphabet)
    BY <1>0, <1>2 DEF WriteChar
  <2>2. Len(sqlText') \in Nat /\ 0 \in 0..Len(sqlText')
    BY <2>1, LenProperties
  <2>3. taken' = 0 /\ splitPhase' = "write"
    BY <1>2 DEF WriteChar, SplitTypes
  <2>4. QED
    BY <2>1, <2>2, <2>3, <1>2 DEF WriteChar, SplitTypes
<1>3. CASE SplitFile
  BY <1>3 DEF SplitFile, SplitTypes
<1>4. CASE Scan
  <2> DEFINE a == taken + 1
             c == sqlText[a]
  <2>1. taken' = a /\ a \in 0..Len(sqlText) /\ a \in 1..Len(sqlText)
    BY <1>0, <1>4 DEF Scan, SplitTypes
  <2>2. c \in Alphabet
    BY <1>0, <2>1, ElementOfSeq
  <2>3. Turn(c, Lookahead(sqlText, a))
    BY <1>4 DEF Scan
  <2>4. /\ sqlText' = sqlText /\ splitPhase' = "scan" /\ parts' = parts /\ again' = again
    BY <1>4 DEF Scan
  <2>5. /\ mode' \in {"code", "quote", "comment"} /\ current' \in Seq(Alphabet)
        /\ statements' \in Seq(Seq(Alphabet)) /\ together' \in Seq(Alphabet)
    <3>1. \A then \in {"code", "quote", "comment"} : Keep(c, then) =>
            /\ mode' \in {"code", "quote", "comment"} /\ current' \in Seq(Alphabet)
            /\ statements' \in Seq(Seq(Alphabet)) /\ together' \in Seq(Alphabet)
      BY <2>2 DEF Keep, SplitTypes
    <3>2. \A then \in {"code", "quote", "comment"} : Drop(then) =>
            /\ mode' \in {"code", "quote", "comment"} /\ current' \in Seq(Alphabet)
            /\ statements' \in Seq(Seq(Alphabet)) /\ together' \in Seq(Alphabet)
      BY DEF Drop, SplitTypes
    <3>3. Cut =>
            /\ mode' \in {"code", "quote", "comment"} /\ current' \in Seq(Alphabet)
            /\ statements' \in Seq(Seq(Alphabet)) /\ together' \in Seq(Alphabet)
      BY CompleteTypes, <1>e DEF Cut, SplitTypes
    <3>4. (\E then \in {"code", "quote", "comment"} : Keep(c, then) \/ Drop(then)) \/ Cut
      <4>1. CASE mode = "comment"
        BY <4>1, <2>3 DEF Turn
      <4>2. CASE mode = "quote"
        BY <4>2, <2>3 DEF Turn
      <4>3. CASE mode = "code"
        <5>1. Keep(c, "quote") \/ Drop("comment") \/ Cut \/ Keep(c, "code")
          BY <4>3, <2>3, Characters DEF Turn
        <5>2. QED
          BY <5>1
      <4>4. QED
        BY <4>1, <4>2, <4>3 DEF SplitTypes
    <3>5. QED
      BY <3>1, <3>2, <3>3, <3>4
  <2> HIDE DEF a, c
  <2>6. QED
    BY <2>1, <2>4, <2>5 DEF SplitTypes
<1>5. CASE ScanEnds
  <2>1. statements' \in Seq(Seq(Alphabet)) /\ together' \in Seq(Alphabet)
    BY <1>5, CompleteTypes DEF ScanEnds
  <2>2. QED
    BY <2>1, <1>5 DEF ScanEnds, SplitTypes
<1>6. CASE SplitAgain
  <2>1. together \in Seq(Alphabet) /\ Len(together) \in Nat /\ 0 \in 0..Len(together)
    BY LenProperties DEF SplitTypes
  <2>2. QED
    BY <2>1, <1>6, <1>e DEF SplitAgain, SplitTypes
<1>7. CASE RenderBatch
  BY <1>1, <1>7 DEF RenderBatch
<1>8. QED
  BY <1>1, <1>2, <1>3, <1>4, <1>5, <1>6, <1>7 DEF SqlNext, Split, sqlVars

-----------------------------------------------------------------------------
\* Before the first character nothing is read and nothing complete.
LEMMA ReadNothing ==
  ASSUME NEW text \in Seq(Alphabet)
  PROVE  /\ IsRead(<<>>, text, PartOf(text, 1)) /\ Lists(<<>>, text, FullOf(text, 0))
         /\ 1 \in Code(text)
<1>1. /\ KeptOf(text) \subseteq 1..Len(text) /\ CutsOf(text) \subseteq 1..Len(text) /\ Len(text) \in Nat
  BY LenProperties DEF KeptOf, CutsOf, Kept, Cuts
<1>2. PartOf(text, 1) = {}
  BY <1>1 DEF PartOf, Part
<1>3. FullOf(text, 0) = {}
  BY <1>1 DEF FullOf
<1>4. <<>> \in Seq(Alphabet) /\ Len(<<>>) = 0 /\ \A k \in 1..0 : FALSE
  OBVIOUS
<1>5. Reads(<<>>, text, <<>>)
  BY <1>4 DEF Reads
<1>6. IsRead(<<>>, text, {})
  BY <1>5, RisingEmpty DEF IsRead
<1>7. Lists(<<>>, text, {})
  BY <1>4, RisingEmpty DEF Lists
<1>8. QED
  BY <1>2, <1>3, <1>6, <1>7, CodeReached

\* A complete statement is the next of the reference.
LEMMA CompleteLists ==
  ASSUME SplitTypes, Complete(current), NEW e \in Nat \ {0},
         e \in CutsOf(sqlText) \cup {Len(sqlText) + 1},
         IsRead(current, sqlText, PartOf(sqlText, e)),
         Lists(statements, sqlText, FullOf(sqlText, e - 1))
  PROVE  Lists(statements', sqlText, FullOf(sqlText, e))
<1> DEFINE text == sqlText
           s == Strip(current)
           at == Trimmed(text, PartOf(text, e))
           old == FullOf(text, e - 1)
           full == FullOf(text, e)
<1>1. text \in Seq(Alphabet) /\ Len(text) \in Nat /\ CutsOf(text) \cup {Len(text) + 1} \subseteq Nat
  <2>1. text \in Seq(Alphabet)
    BY DEF SplitTypes
  <2>2. Len(text) \in Nat /\ DOMAIN text = 1..Len(text)
    BY <2>1, LenProperties
  <2>3. CutsOf(text) \subseteq DOMAIN text
    BY DEF CutsOf, Cuts
  <2>4. QED
    BY <2>1, <2>2, <2>3
<1>2. s = <<>> <=> at = {}
  BY StripReads DEF IsRead
<1>3. IsRead(s, text, at)
  BY StripReads DEF IsRead
<1>4. full = IF at = {} THEN old ELSE old \cup {e}
  <2>1. \A x \in Nat : x <= e <=> x <= e - 1 \/ x = e
    OBVIOUS
  <2>2. \A x : x \in full <=> x \in CutsOf(text) \cup {Len(text) + 1} /\ x <= e /\ Trimmed(text, PartOf(text, x)) # {}
    BY DEF FullOf
  <2>3. \A x : x \in old <=> x \in CutsOf(text) \cup {Len(text) + 1} /\ x <= e - 1 /\ Trimmed(text, PartOf(text, x)) # {}
    BY DEF FullOf
  <2>4. ~(e <= e - 1)
    OBVIOUS
  <2> HIDE DEF full, old
  <2>5. \A x : x \in full <=> x \in old \/ (x = e /\ at # {})
    BY <2>1, <2>2, <2>3, <2>4, <1>1
  <2> HIDE DEF at
  <2>6. CASE at = {}
    <3>1. \A x : x \in full <=> x \in old
      BY <2>5, <2>6
    <3>2. full = old
      BY <3>1
    <3>3. QED
      BY <3>2, <2>6
  <2>7. CASE at # {}
    <3>1. \A x : x \in full <=> x \in old \cup {e}
      BY <2>5, <2>7
    <3>2. full = old \cup {e}
      BY <3>1
    <3>3. QED
      BY <3>2, <2>7
  <2>8. QED
    BY <2>6, <2>7
<1>5. \A x \in old : x < e
  BY <1>1 DEF FullOf
<1>6. CASE at = {}
  BY <1>2, <1>4, <1>6 DEF Complete
<1>7. CASE at # {}
  <2>1. statements' = Append(statements, s)
    BY <1>2, <1>7 DEF Complete
  <2>2. PICK ends : /\ Rising(ends, old) /\ Len(statements) = Len(ends)
                    /\ \A k \in 1..Len(ends) : IsRead(statements[k], text, Trimmed(text, PartOf(text, ends[k])))
    BY DEF Lists
  <2>3. Rising(Append(ends, e), full)
    BY <2>2, <1>4, <1>5, <1>7, RisingAppends
  <2> DEFINE n == Len(ends)
  <2>4. ends \in Seq(Nat) /\ n \in Nat /\ statements \in Seq(Seq(Alphabet)) /\ Len(statements) = n
    BY <2>2, LenProperties DEF Rising, SplitTypes
  <2>5. s \in Seq(Alphabet)
    BY StripType DEF SplitTypes
  <2>s. e \in Nat
    OBVIOUS
  <2> HIDE DEF s
  <2> HIDE DEF n
  <2>i. /\ Len(Append(ends, e)) = n + 1 /\ Append(ends, e)[n + 1] = e
        /\ \A k \in 1..n : Append(ends, e)[k] = ends[k]
    BY <2>4, <2>s DEF n
  <2>j. /\ Len(Append(statements, s)) = n + 1 /\ Append(statements, s)[n + 1] = s
        /\ \A k \in 1..n : Append(statements, s)[k] = statements[k]
    <3>1. \A w \in Seq(Seq(Alphabet)) : \A v \in Seq(Alphabet) :
            /\ Len(Append(w, v)) = Len(w) + 1 /\ Append(w, v)[Len(w) + 1] = v
            /\ \A k \in 1..Len(w) : Append(w, v)[k] = w[k]
      OBVIOUS
    <3>2. QED
      BY <3>1, <2>4, <2>5
  <2>6. /\ Len(Append(ends, e)) = n + 1 /\ Len(Append(statements, s)) = n + 1
        /\ \A k \in 1..n : Append(ends, e)[k] = ends[k] /\ Append(statements, s)[k] = statements[k]
        /\ Append(ends, e)[n + 1] = e /\ Append(statements, s)[n + 1] = s
    BY <2>i, <2>j
  <2>7. 1..(n + 1) = 1..n \cup {n + 1}
    BY <2>4
  <2> DEFINE new == Append(ends, e)
             list == Append(statements, s)
  <2> HIDE DEF new, list
  <2>8. \A k \in 1..Len(new) : IsRead(list[k], text, Trimmed(text, PartOf(text, new[k])))
    BY <2>2, <2>6, <2>7, <1>3 DEF new, list, n
  <2>9. Lists(list, text, full)
    BY <2>3, <2>6, <2>8 DEF Lists, new, list, n
  <2>10. QED
    BY <2>1, <2>9 DEF list
<1>8. QED
  BY <1>6, <1>7

\* A turn of the loop adds to the reference what it adds to the statements.
LEMMA ScanExact == ASSUME SplitTypes, SpanInv, ExactInv, Scan PROVE ExactInv'
<1> DEFINE a == taken + 1
           text == sqlText
<1>1. text \in Seq(Alphabet) /\ Len(text) \in Nat /\ taken \in Nat /\ a \in 1..Len(text) /\ a \in Nat \ {0} /\ a - 1 = taken
  BY LenProperties DEF SplitTypes, Scan
<1>2. taken' = a /\ sqlText' = text /\ splitPhase' = "scan" /\ splitPhase # "done"
  BY DEF Scan
<1>3. IsRead(current, text, PartOf(text, a)) /\ Lists(statements, text, FullOf(text, a - 1))
  BY <1>1, <1>2 DEF ExactInv
<1>4. /\ a \in CutsOf(text) => PartOf(text, a + 1) = {}
      /\ a \notin CutsOf(text) /\ a \in KeptOf(text) => PartOf(text, a + 1) = PartOf(text, a) \cup {a}
      /\ a \notin CutsOf(text) /\ a \notin KeptOf(text) => PartOf(text, a + 1) = PartOf(text, a)
      /\ \A p \in PartOf(text, a) : p \in Nat /\ p < a
  BY <1>1, PartGrows DEF PartOf, CutsOf, KeptOf
<1>5. a \notin CutsOf(text) => FullOf(text, a) = FullOf(text, a - 1)
  <2>1. \A e \in CutsOf(text) \cup {Len(text) + 1} : e \in Nat
    <3>1. CutsOf(text) \subseteq Code(text)
      BY DEF CutsOf, Cuts
    <3>2. QED
      BY <3>1, <1>1, CodeReached
  <2>2. a # Len(text) + 1
    BY <1>1
  <2>3. \A e \in Nat : e # a => (e <= a <=> e <= a - 1)
    BY <1>1
  <2>4. ~(a <= a - 1)
    BY <1>1
  <2> HIDE DEF a
  <2>5. QED
    BY <2>1, <2>2, <2>3, <2>4 DEF FullOf
<1>6. /\ IsRead(current', text, PartOf(text, a + 1))
      /\ Lists(statements', text, FullOf(text, a))
  <2>1. CASE ReadsOn(a)
    <3>1. a \in KeptOf(text) /\ a \notin CutsOf(text) /\ current' = Append(current, text[a]) /\ statements' = statements
      BY <2>1 DEF ReadsOn
    <3>2. PICK pos : Rising(pos, PartOf(text, a)) /\ Reads(current, text, pos)
      BY <1>3 DEF IsRead
    <3>3. Rising(Append(pos, a), PartOf(text, a + 1))
      BY <3>1, <3>2, <1>1, <1>4, RisingAppends
    <3>4. text[a] \in Alphabet /\ pos \in Seq(Nat)
      BY <1>1, <3>2, ElementOfSeq DEF Rising
    <3>5. Reads(current', text, Append(pos, a))
      BY <3>1, <3>2, <3>4, <1>1, ReadsAppends
    <3>6. QED
      BY <3>1, <3>3, <3>5, <1>3, <1>5 DEF IsRead
  <2>2. CASE SkipsOn(a)
    <3>1. a \notin KeptOf(text) /\ a \notin CutsOf(text) /\ current' = current /\ statements' = statements
      BY <2>2 DEF SkipsOn
    <3>2. QED
      BY <3>1, <1>3, <1>4, <1>5
  <2>3. CASE CutsAt(a)
    <3>1. Complete(current) /\ current' = <<>> /\ a \in CutsOf(text)
      BY <2>3 DEF CutsAt
    <3>2. Lists(statements', text, FullOf(text, a))
      BY <3>1, <1>1, <1>3, CompleteLists
    <3>3. Reads(<<>>, text, <<>>)
      <4>1. <<>> \in Seq(Alphabet) /\ Len(<<>>) = 0 /\ \A k \in 1..0 : FALSE
        OBVIOUS
      <4>2. QED
        BY <4>1 DEF Reads
    <3>4. IsRead(current', text, PartOf(text, a + 1))
      BY <3>1, <3>3, <1>4, RisingEmpty DEF IsRead
    <3>5. QED
      BY <3>2, <3>4
  <2>4. QED
    BY <2>1, <2>2, <2>3, TurnDoes
<1>7. QED
  BY <1>2, <1>6 DEF ExactInv

\* So does the end of the loop.
LEMMA EndsExact == ASSUME SplitTypes, SpanInv, ExactInv, ScanEnds PROVE ExactInv'
<1> DEFINE e == Len(sqlText) + 1
<1>1. Len(sqlText) \in Nat /\ e \in Nat \ {0} /\ e - 1 = Len(sqlText)
  BY LenProperties DEF SplitTypes
<1>2. taken = Len(sqlText) /\ splitPhase # "done" /\ Complete(current)
  BY DEF ScanEnds
<1>3. IsRead(current, sqlText, PartOf(sqlText, e)) /\ Lists(statements, sqlText, FullOf(sqlText, e - 1))
  BY <1>1, <1>2 DEF ExactInv
<1>4. Lists(statements', sqlText, FullOf(sqlText, e))
  BY <1>1, <1>2, <1>3, CompleteLists
<1>5. QED
  BY <1>3, <1>4 DEF ExactInv, ScanEnds

\* Every action keeps the splitter at the reference.
LEMMA ExactInductive ==
  SplitTypes /\ SpanInv /\ ExactInv /\ [SqlNext]_sqlVars => SpanInv' /\ ExactInv'
<1> SUFFICES ASSUME SplitTypes, SpanInv, ExactInv, [SqlNext]_sqlVars PROVE SpanInv' /\ ExactInv'
  OBVIOUS
<1>0. SplitTypes'
  BY SplitTyped
<1>1. CASE UNCHANGED splitVars
  BY <1>1 DEF SpanInv, ExactInv, splitVars
<1>2. ASSUME taken' = 0, mode' = "code", current' = <<>>, statements' = <<>>, splitPhase' # "done"
      PROVE  SpanInv' /\ ExactInv'
  <2>1. sqlText' \in Seq(Alphabet)
    BY <1>0 DEF SplitTypes
  <2>2. /\ IsRead(<<>>, sqlText', PartOf(sqlText', 1)) /\ Lists(<<>>, sqlText', FullOf(sqlText', 0))
        /\ 1 \in Code(sqlText')
    BY <2>1, ReadNothing
  <2>3. 0 + 1 = 1
    OBVIOUS
  <2>4. SpanInv'
    BY <1>2, <2>2, <2>3 DEF SpanInv
  <2>5. ExactInv'
    BY <1>2, <2>2, <2>3 DEF ExactInv
  <2>6. QED
    BY <2>4, <2>5
<1>3. ASSUME NEW c \in Alphabet, WriteChar(c) PROVE SpanInv' /\ ExactInv'
  BY <1>2, <1>3 DEF WriteChar, SplitTypes
<1>4. CASE SplitFile
  BY <1>2, <1>4 DEF SplitFile, SplitTypes
<1>5. CASE Scan
  BY <1>5, TurnDoes, ScanExact
<1>6. CASE ScanEnds
  <2>1. SpanInv'
    BY <1>6 DEF SpanInv, ScanEnds
  <2>2. QED
    BY <2>1, <1>6, EndsExact
<1>7. CASE SplitAgain
  BY <1>2, <1>7 DEF SplitAgain
<1>8. CASE RenderBatch
  BY <1>1, <1>8 DEF RenderBatch
<1>9. QED
  BY <1>1, <1>3, <1>4, <1>5, <1>6, <1>7, <1>8 DEF SqlNext, Split, sqlVars

\* When all is read the statements are those of the reference.
LEMMA ExactHolds == SplitTypes /\ ExactInv => SplitExact
<1> SUFFICES ASSUME SplitTypes, ExactInv, splitPhase = "done" PROVE SplitExact
  BY DEF SplitExact
<1> DEFINE text == sqlText
           e == Len(text) + 1
           full == FullOf(text, e)
<1>1. text \in Seq(Alphabet) /\ Len(text) \in Nat
  BY LenProperties DEF SplitTypes
<1>2. PICK ends : /\ Rising(ends, full) /\ Len(statements) = Len(ends)
                  /\ \A k \in 1..Len(ends) : IsRead(statements[k], text, Trimmed(text, PartOf(text, ends[k])))
  BY DEF ExactInv, Lists
<1>3. Cardinality(full) = Len(ends) /\ \A k \in 1..Len(ends) : Rank(full, ends[k]) = k
  BY <1>2, RisingPlaces
<1>4. \A end \in full : Spells(statements[Rank(full, end)], text, Trimmed(text, PartOf(text, end)))
  <2> SUFFICES ASSUME NEW end \in full
               PROVE  Spells(statements[Rank(full, end)], text, Trimmed(text, PartOf(text, end)))
    OBVIOUS
  <2>1. PICK k \in 1..Len(ends) : ends[k] = end
    BY <1>2 DEF Rising
  <2>2. Rank(full, end) = k
    BY <2>1, <1>3
  <2>3. IsRead(statements[k], text, Trimmed(text, PartOf(text, end)))
    BY <2>1, <1>2
  <2>4. QED
    BY <2>2, <2>3, ReadsSpells DEF IsRead
<1>5. full = {end \in CutsOf(text) \cup {e} : Trimmed(text, PartOf(text, end)) # {}}
  <2>1. \A x \in CutsOf(text) \cup {e} : x <= e
    BY <1>1 DEF CutsOf, Cuts
  <2>2. QED
    BY <2>1 DEF FullOf
<1> HIDE DEF full
<1>6. QED
  BY <1>2, <1>3, <1>4, <1>5 DEF SplitExact, CutsOf, KeptOf, PartOf

-----------------------------------------------------------------------------
(* Splitting what was split: a statement is read as it is.                 *)

\* The states of the loop over a word in which it meets no semicolon and no
\* comment.
Runs(word, m) ==
  /\ m \in [1..(Len(word) + 1) -> {"code", "quote"}] /\ m[1] = "code"
  /\ \A k \in 1..Len(word) :
       /\ m[k + 1] = IF word[k] # Quote THEN m[k] ELSE IF m[k] = "code" THEN "quote" ELSE "code"
       /\ m[k] = "code" => word[k] # Semi /\ ~(word[k] = Dash /\ k < Len(word) /\ word[k + 1] = Dash)

\* No dash in code is left before one that begins a comment.
CurrentInv ==
  \E m : /\ Runs(current, m)
         /\ m[Len(current) + 1] = IF mode = "quote" THEN "quote" ELSE "code"
         /\ Len(current) > 0 /\ m[Len(current)] = "code" /\ current[Len(current)] = Dash =>
              mode = "code" /\ (taken < Len(sqlText) => sqlText[taken + 1] # Dash)

Tidy(word, closed) ==
  /\ word # <<>> /\ Strip(word) = word
  /\ \E m : Runs(word, m) /\ (closed => m[Len(word) + 1] = "code")

\* The loop has not met anything over an empty word.
LEMMA RunsNothing == \E m : Runs(<<>>, m) /\ m[Len(<<>>) + 1] = "code"
<1> DEFINE m == [k \in 1..1 |-> "code"]
<1>1. Len(<<>>) = 0 /\ Len(<<>>) + 1 = 1 /\ 1 \in 1..1 /\ \A k \in 1..0 : FALSE
  OBVIOUS
<1>2. m \in [1..1 -> {"code", "quote"}] /\ m[1] = "code"
  OBVIOUS
<1> HIDE DEF m
<1>3. Runs(<<>>, m)
  BY <1>1, <1>2 DEF Runs
<1>4. QED
  BY <1>1, <1>2, <1>3

\* A character that neither cuts nor opens a comment continues the word.
LEMMA RunsAppends ==
  ASSUME NEW word \in Seq(Alphabet), NEW m, Runs(word, m), NEW c \in Alphabet,
         m[Len(word) + 1] = "code" => c # Semi,
         Len(word) > 0 /\ m[Len(word)] = "code" /\ word[Len(word)] = Dash => c # Dash
  PROVE  \E new : /\ Runs(Append(word, c), new)
                  /\ new[Len(word) + 1] = m[Len(word) + 1]
                  /\ new[Len(word) + 2] = IF c # Quote THEN m[Len(word) + 1]
                                          ELSE IF m[Len(word) + 1] = "code" THEN "quote" ELSE "code"
<1> DEFINE n == Len(word)
           x == IF c # Quote THEN m[n + 1] ELSE IF m[n + 1] = "code" THEN "quote" ELSE "code"
           w == Append(word, c)
           new == [k \in 1..(n + 2) |-> IF k = n + 2 THEN x ELSE m[k]]
<1>1. n \in Nat /\ Len(w) = n + 1 /\ Len(w) + 1 = n + 2 /\ w[n + 1] = c /\ \A k \in 1..n : w[k] = word[k]
  BY LenProperties
<1>2. m \in [1..(n + 1) -> {"code", "quote"}] /\ n + 1 \in 1..(n + 1)
  BY <1>1 DEF Runs
<1>3. x \in {"code", "quote"}
  BY <1>2
<1>4. new[n + 2] = x /\ (n + 1) + 1 = n + 2 /\ \A k \in 1..(n + 1) : new[k] = m[k]
  BY <1>1
<1>5. new \in [1..(n + 2) -> {"code", "quote"}]
  <2>1. \A k \in 1..(n + 2) : k = n + 2 \/ k \in 1..(n + 1)
    BY <1>1
  <2> HIDE DEF x
  <2>2. \A k \in 1..(n + 2) : (IF k = n + 2 THEN x ELSE m[k]) \in {"code", "quote"}
    BY <2>1, <1>2, <1>3
  <2>3. QED
    BY <2>2
<1> HIDE DEF new, w
<1>6. new[1] = "code"
  BY <1>1, <1>4 DEF Runs
<1>7. ASSUME NEW k \in 1..(n + 1)
      PROVE  /\ new[k + 1] = IF w[k] # Quote THEN new[k] ELSE IF new[k] = "code" THEN "quote" ELSE "code"
             /\ new[k] = "code" => w[k] # Semi /\ ~(w[k] = Dash /\ k < n + 1 /\ w[k + 1] = Dash)
  <2>1. CASE k = n + 1
    BY <2>1, <1>1, <1>2, <1>4
  <2>2. CASE k \in 1..n
    <3>1. k + 1 \in 1..(n + 1) /\ new[k + 1] = m[k + 1] /\ new[k] = m[k] /\ w[k] = word[k]
      BY <2>2, <1>1, <1>4
    <3>2. /\ m[k + 1] = IF word[k] # Quote THEN m[k] ELSE IF m[k] = "code" THEN "quote" ELSE "code"
          /\ m[k] = "code" => word[k] # Semi /\ ~(word[k] = Dash /\ k < n /\ word[k + 1] = Dash)
      BY <2>2 DEF Runs
    <3>3. CASE k < n
      <4>1. w[k + 1] = word[k + 1]
        BY <3>3, <2>2, <1>1
      <4>2. QED
        BY <3>1, <3>2, <3>3, <4>1
    <3>4. CASE ~(k < n)
      <4>1. k = n /\ n > 0
        BY <3>4, <2>2, <1>1
      <4>2. QED
        BY <3>1, <3>2, <4>1, <1>1
    <3>5. QED
      BY <3>3, <3>4
  <2>3. QED
    BY <2>1, <2>2, <1>1
<1>8. Runs(w, new)
  BY <1>1, <1>5, <1>6, <1>7 DEF Runs
<1>9. new[n + 1] = m[n + 1]
  BY <1>2, <1>4
<1>10. QED
  BY <1>4, <1>8, <1>9 DEF w

\* Stripping takes no part of a literal but blanks.
LEMMA StripTidy ==
  ASSUME NEW word \in Seq(Alphabet), Strip(word) # <<>>, NEW m, Runs(word, m), NEW closed \in BOOLEAN,
         closed => m[Len(word) + 1] = "code"
  PROVE  Tidy(Strip(word), closed)
<1> DEFINE s == Strip(word)
           n == Len(word)
<1>1. PICK a, b \in 1..n : Inside(word, a, b) /\ s = SubSeq(word, a, b)
  BY StripRange
<1> DEFINE l == b - a + 1
<1>2. /\ s \in Seq(Alphabet) /\ Len(s) = l /\ l \in Nat \ {0}
      /\ \A k \in 1..l : s[k] = word[k + a - 1] /\ k + a - 1 \in 1..n
      /\ s # <<>>
  BY <1>1, StripSeq
<1>3. n \in Nat /\ a \in 1..n /\ b \in 1..n /\ a <= b /\ DOMAIN word = 1..n /\ DOMAIN s = 1..l
  BY <1>1, <1>2, LenProperties DEF Inside
<1>4. /\ m \in [1..(n + 1) -> {"code", "quote"}] /\ m[1] = "code"
      /\ \A k \in 1..n :
           /\ m[k + 1] = IF word[k] # Quote THEN m[k] ELSE IF m[k] = "code" THEN "quote" ELSE "code"
           /\ m[k] = "code" => word[k] # Semi /\ ~(word[k] = Dash /\ k < n /\ word[k + 1] = Dash)
  BY DEF Runs
<1>5. \A k \in 1..n : k < a \/ b < k => word[k] # Quote
  <2> SUFFICES ASSUME NEW k \in 1..n, k < a \/ b < k PROVE word[k] # Quote
    OBVIOUS
  <2>1. k \notin Inked(word)
    BY <1>1, <1>3 DEF Inside
  <2>2. QED
    BY <2>1, <1>3, Characters DEF Inked
<1>6. m[a] = "code"
  <2> DEFINE P == {j \in Nat : j + 1 <= a => m[j + 1] = "code"}
  <2>1. 0 \in P
    BY <1>4
  <2>2. ASSUME NEW j \in Nat, j \in P PROVE j + 1 \in P
    <3> SUFFICES ASSUME (j + 1) + 1 <= a PROVE m[(j + 1) + 1] = "code"
      OBVIOUS
    <3>1. j + 1 \in 1..n /\ j + 1 < a
      BY <1>3
    <3>2. m[j + 1] = "code" /\ word[j + 1] # Quote
      BY <3>1, <2>2, <1>5
    <3>3. QED
      BY <3>1, <3>2, <1>4
  <2> HIDE DEF P
  <2>3. Nat \subseteq P
    BY <2>1, <2>2, NatClosed
  <2>4. a - 1 \in Nat /\ (a - 1) + 1 = a /\ (a - 1) + 1 <= a
    BY <1>3
  <2>5. a - 1 \in P
    BY <2>3, <2>4
  <2>6. m[(a - 1) + 1] = "code"
    BY <2>4, <2>5 DEF P
  <2>7. QED
    BY <2>4, <2>6
<1>7. m[n + 1] = m[b + 1]
  <2> DEFINE P == {j \in Nat : j + b <= n => m[(j + b) + 1] = m[b + 1]}
  <2>1. 0 \in P
    BY <1>3
  <2>2. ASSUME NEW j \in Nat, j \in P PROVE j + 1 \in P
    <3> SUFFICES ASSUME (j + 1) + b <= n PROVE m[((j + 1) + b) + 1] = m[b + 1]
      OBVIOUS
    <3>1. (j + 1) + b \in 1..n /\ b < (j + 1) + b /\ (j + 1) + b = (j + b) + 1 /\ j + b <= n
      BY <1>3
    <3>2. m[(j + b) + 1] = m[b + 1]
      BY <3>1, <2>2
    <3>3. word[(j + 1) + b] # Quote
      BY <3>1, <1>5
    <3>4. m[((j + 1) + b) + 1] = m[(j + 1) + b]
      BY <3>1, <3>3, <1>4
    <3>5. QED
      BY <3>1, <3>2, <3>4
  <2> HIDE DEF P
  <2>3. Nat \subseteq P
    BY <2>1, <2>2, NatClosed
  <2>4. n - b \in Nat /\ (n - b) + b = n /\ n <= n
    BY <1>3
  <2>5. (n - b) + b <= n => m[((n - b) + b) + 1] = m[b + 1]
    BY <2>3, <2>4 DEF P
  <2>6. QED
    BY <2>4, <2>5
<1> DEFINE new == [k \in 1..(l + 1) |-> m[k + a - 1]]
<1>8. Runs(s, new) /\ new[l + 1] = m[b + 1]
  <2>1. \A k \in 1..(l + 1) : k + a - 1 \in 1..(n + 1)
    BY <1>2, <1>3
  <2>2. new \in [1..(l + 1) -> {"code", "quote"}]
    BY <2>1, <1>4
  <2>3. \A k \in 1..(l + 1) : new[k] = m[k + a - 1]
    OBVIOUS
  <2>4. 1 \in 1..(l + 1) /\ 1 + a - 1 = a /\ l + 1 \in 1..(l + 1) /\ (l + 1) + a - 1 = b + 1
    BY <1>2, <1>3
  <2> HIDE DEF new
  <2>5. new[1] = "code" /\ new[l + 1] = m[b + 1]
    BY <2>3, <2>4, <1>6
  <2>6. ASSUME NEW k \in 1..l
        PROVE  /\ new[k + 1] = IF s[k] # Quote THEN new[k] ELSE IF new[k] = "code" THEN "quote" ELSE "code"
               /\ new[k] = "code" => s[k] # Semi /\ ~(s[k] = Dash /\ k < l /\ s[k + 1] = Dash)
    <3> DEFINE i == k + a - 1
    <3>1. k \in 1..(l + 1) /\ k + 1 \in 1..(l + 1) /\ (k + 1) + a - 1 = i + 1 /\ i \in 1..n
      BY <1>2, <1>3
    <3>2. new[k] = m[i] /\ new[k + 1] = m[i + 1] /\ s[k] = word[i]
      BY <3>1, <2>3, <1>2
    <3>3. k < l => s[k + 1] = word[i + 1] /\ i < n
      <4>1. k < l => k + 1 \in 1..l
        BY <1>2
      <4>2. k < l => i < n
        BY <1>2, <1>3
      <4>3. QED
        BY <4>1, <4>2, <3>1, <1>2
    <3> HIDE DEF i
    <3>4. QED
      BY <3>1, <3>2, <3>3, <1>4
  <2>7. QED
    BY <2>2, <2>5, <2>6, <1>2 DEF Runs
<1>9. Strip(s) = s
  <2>1. 1 \in 1..l /\ l \in 1..l /\ s[1] = word[a] /\ s[l] = word[b]
    <3>1. 1 \in 1..l /\ l \in 1..l /\ 1 + a - 1 = a /\ l + a - 1 = b
      BY <1>2, <1>3
    <3>2. QED
      BY <3>1, <1>2
  <2>2. 1 \in Inked(s) /\ l \in Inked(s)
    BY <2>1, <1>1, <1>3 DEF Inside, Inked
  <2> HIDE DEF s
  <2>3. PICK x, y \in 1..Len(s) : Inside(s, x, y) /\ Strip(s) = SubSeq(s, x, y)
    BY <2>2, <1>2, StripRange
  <2> HIDE DEF l
  <2>4. x = 1 /\ y = l
    <3>1. x <= 1 /\ l <= y /\ x \in 1..l /\ y \in 1..l
      BY <2>2, <2>3, <1>2 DEF Inside
    <3>2. QED
      BY <3>1, <1>2
  <2>5. SubSeq(s, 1, Len(s)) = s
    BY <1>2, SubSeqFull
  <2>6. QED
    BY <2>3, <2>4, <2>5, <1>2
<1>10. closed => new[l + 1] = "code"
  BY <1>7, <1>8
<1> HIDE DEF new, s, l
<1>11. QED
  BY <1>2, <1>8, <1>9, <1>10 DEF Tidy, s

\* A turn of the loop keeps what it reads tidy.
LEMMA CurrentKept == ASSUME SplitTypes, CurrentInv, Scan PROVE CurrentInv'
<1> DEFINE a == taken + 1
           c == sqlText[a]
           n == Len(current)
           flag == IF mode = "quote" THEN "quote" ELSE "code"
<1>1. sqlText \in Seq(Alphabet) /\ Len(sqlText) \in Nat /\ taken \in Nat /\ a \in 1..Len(sqlText)
  BY LenProperties DEF SplitTypes, Scan
<1>2. c \in Alphabet /\ current \in Seq(Alphabet) /\ n \in Nat
  BY <1>1, ElementOfSeq, LenProperties DEF SplitTypes
<1>3. taken' = a /\ sqlText' = sqlText /\ Turn(c, Lookahead(sqlText, a)) /\ taken < Len(sqlText)
  BY DEF Scan
<1>4. PICK m : /\ Runs(current, m) /\ m[n + 1] = flag
               /\ n > 0 /\ m[n] = "code" /\ current[n] = Dash => mode = "code" /\ c # Dash
  BY <1>3 DEF CurrentInv
<1>5. ASSUME NEW then, Keep(c, then), flag = "code" => c # Semi,
             then = (IF c # Quote THEN flag ELSE IF flag = "code" THEN "quote" ELSE "code"),
             flag = "code" /\ c = Dash => (a < Len(sqlText) => sqlText[a + 1] # Dash)
      PROVE  CurrentInv'
  <2>1. current' = Append(current, c) /\ mode' = then
    BY <1>5 DEF Keep
  <2>2. n > 0 /\ m[n] = "code" /\ current[n] = Dash => c # Dash
    BY <1>4
  <2>3. PICK new : /\ Runs(Append(current, c), new) /\ new[n + 1] = flag
                   /\ new[n + 2] = IF c # Quote THEN flag ELSE IF flag = "code" THEN "quote" ELSE "code"
    BY <1>2, <1>4, <1>5, <2>2, RunsAppends
  <2>4. Len(current') = n + 1 /\ current'[n + 1] = c /\ (n + 1) + 1 = n + 2
    BY <2>1, <1>2
  <2>5. then = IF then = "quote" THEN "quote" ELSE "code"
    BY <1>5
  <2>6. flag = "code" /\ c = Dash => then = "code" /\ (a < Len(sqlText) => sqlText[a + 1] # Dash)
    BY <1>5, Characters
  <2>7. QED
    BY <2>1, <2>3, <2>4, <2>5, <2>6, <1>3, <1>5 DEF CurrentInv
<1>6. CASE mode = "comment"
  <2>1. CASE c = Line
    <3>1. Keep(c, "code")
      BY <1>3, <1>6, <2>1 DEF Turn
    <3>2. QED
      BY <3>1, <2>1, <1>5, <1>6, Characters
  <2>2. CASE c # Line
    <3>1. current' = current /\ mode' = "comment"
      BY <1>3, <1>6, <2>2 DEF Turn, Drop
    <3>2. QED
      BY <3>1, <1>3, <1>4, <1>6 DEF CurrentInv
  <2>3. QED
    BY <2>1, <2>2
<1>7. CASE mode = "quote"
  <2>1. Keep(c, IF c = Quote THEN "code" ELSE "quote")
    BY <1>3, <1>7 DEF Turn
  <2>2. QED
    BY <2>1, <1>5, <1>7
<1>8. CASE mode = "code" /\ c = Quote
  <2>1. Keep(c, "quote")
    BY <1>3, <1>8, Characters DEF Turn
  <2>2. QED
    BY <2>1, <1>5, <1>8, Characters
<1>9. CASE mode = "code" /\ c = Dash /\ Lookahead(sqlText, a) = <<Dash>>
  <2>1. current' = current /\ mode' = "comment"
    BY <1>3, <1>9, Characters DEF Turn, Drop
  <2>2. QED
    BY <2>1, <1>3, <1>4, <1>9 DEF CurrentInv
<1>10. CASE mode = "code" /\ c = Semi
  <2>1. current' = <<>> /\ mode' = "code"
    BY <1>3, <1>10, Characters DEF Turn, Cut
  <2>2. PICK new : Runs(<<>>, new) /\ new[Len(<<>>) + 1] = "code"
    BY RunsNothing
  <2>3. ~(Len(<<>>) > 0)
    OBVIOUS
  <2>4. QED
    BY <2>1, <2>2, <2>3 DEF CurrentInv
<1>11. CASE mode = "code" /\ c # Quote /\ c # Semi /\ ~(c = Dash /\ Lookahead(sqlText, a) = <<Dash>>)
  <2>1. Keep(c, "code")
    BY <1>3, <1>11 DEF Turn
  <2>2. c = Dash => (a < Len(sqlText) => sqlText[a + 1] # Dash)
    <3>1. a < Len(sqlText) => Lookahead(sqlText, a) = <<sqlText[a + 1]>>
      BY DEF Lookahead
    <3>2. QED
      BY <3>1, <1>11
  <2>3. QED
    BY <2>1, <2>2, <1>5, <1>11
<1>12. QED
  BY <1>6, <1>7, <1>8, <1>9, <1>10, <1>11 DEF SplitTypes

\* Where each statement lies in the text they are put together to.
Joined(text, list, off) ==
  /\ off \in [1..Len(list) -> Nat]
  /\ Len(list) = 0 => Len(text) = 0
  /\ Len(list) > 0 => off[1] = 0 /\ Len(text) = off[Len(list)] + Len(list[Len(list)])
  /\ \A k \in 1..Len(list) :
       /\ off[k] + Len(list[k]) <= Len(text)
       /\ k < Len(list) => off[k + 1] = off[k] + Len(list[k]) + 1 /\ text[off[k + 1]] = Semi
       /\ \A j \in 1..Len(list[k]) : text[off[k] + j] = list[k][j]

DoneInv ==
  /\ \A k \in 1..Len(statements) : Tidy(statements[k], splitPhase # "done" \/ k < Len(statements))
  /\ \E off : Joined(together, statements, off)

\* One element more at the end of a list.
LEMMA AppendsTo ==
  ASSUME NEW S, NEW list \in Seq(S), NEW s \in S
  PROVE  /\ Len(list) \in Nat /\ Len(Append(list, s)) = Len(list) + 1
         /\ Append(list, s)[Len(list) + 1] = s
         /\ \A k \in 1..Len(list) : Append(list, s)[k] = list[k] /\ k \in 1..(Len(list) + 1)
         /\ \A k \in 1..(Len(list) + 1) : k \in 1..Len(list) \/ k = Len(list) + 1
<1>1. Len(list) \in Nat
  BY LenProperties
<1>2. QED
  BY <1>1

\* A list without elements is the empty one.
LEMMA ListsNothing ==
  ASSUME NEW list \in Seq(Seq(Alphabet))
  PROVE  list = <<>> <=> Len(list) = 0
<1>1. Len(<<>>) = 0
  OBVIOUS
<1>2. QED
  BY <1>1, EmptySeq

\* A complete statement goes behind the text of those before it.
LEMMA CompleteJoins ==
  ASSUME SplitTypes, Complete(current), NEW off, Joined(together, statements, off)
  PROVE  \E new : Joined(together', statements', new)
<1> DEFINE s == Strip(current)
           n == Len(statements)
           t == Len(together)
           l == Len(s)
<1>1. /\ s \in Seq(Alphabet) /\ statements \in Seq(Seq(Alphabet)) /\ together \in Seq(Alphabet)
      /\ n \in Nat /\ t \in Nat /\ l \in Nat
  BY StripType, LenProperties DEF SplitTypes
<1>2. CASE s = <<>>
  BY <1>2 DEF Complete
<1>3. CASE s # <<>>
  <2>1. /\ statements' = Append(statements, s)
        /\ together' = IF statements = <<>> THEN s ELSE together \o <<Semi>> \o s
    BY <1>3 DEF Complete
  <2> HIDE DEF s
  <2>2. /\ Len(statements') = n + 1 /\ statements'[n + 1] = s
        /\ \A k \in 1..n : statements'[k] = statements[k]
        /\ \A k \in 1..(n + 1) : k \in 1..n \/ k = n + 1
    BY <1>1, <2>1, AppendsTo
  <2>3. /\ off \in [1..n -> Nat]
        /\ n > 0 => off[1] = 0 /\ t = off[n] + Len(statements[n])
        /\ \A k \in 1..n :
             /\ off[k] + Len(statements[k]) <= t
             /\ k < n => off[k + 1] = off[k] + Len(statements[k]) + 1 /\ together[off[k + 1]] = Semi
             /\ \A j \in 1..Len(statements[k]) : together[off[k] + j] = statements[k][j]
    BY DEF Joined
  <2>4. \A k \in 1..n : Len(statements[k]) \in Nat /\ off[k] \in Nat
    <3>1. \A k \in 1..n : statements[k] \in Seq(Alphabet)
      BY <1>1, ElementOfSeq
    <3>2. QED
      BY <3>1, <2>3, LenProperties
  <2>5. CASE n = 0
    <3> DEFINE new == [k \in 1..1 |-> 0]
    <3>1. together' = s
      BY <2>1, <2>5, <1>1, ListsNothing
    <3>2. n + 1 = 1 /\ 1 \in 1..1 /\ \A k \in 1..1 : k = 1 /\ ~(k < 1)
      BY <2>5
    <3>3. new \in [1..1 -> Nat] /\ new[1] = 0
      OBVIOUS
    <3> HIDE DEF new
    <3>4. 0 + l = l /\ l <= l /\ \A j \in 1..l : 0 + j = j
      BY <1>1
    <3>5. Len(statements') = 1 /\ statements'[1] = s
      BY <2>2, <3>2
    <3>6. Joined(together', statements', new)
      BY <3>1, <3>2, <3>3, <3>4, <3>5 DEF Joined
    <3>7. QED
      BY <3>6
  <2>6. CASE n > 0
    <3> DEFINE x == t + 1
               new == [k \in 1..(n + 1) |-> IF k = n + 1 THEN x ELSE off[k]]
    <3>1. together' = together \o <<Semi>> \o s
      BY <2>1, <2>6, <1>1, ListsNothing
    <3>2. /\ Len(together') = x + l /\ together'[x] = Semi
          /\ \A i \in 1..t : together'[i] = together[i]
          /\ \A j \in 1..l : together'[x + j] = s[j]
      <4> DEFINE u == together \o <<Semi>>
      <4>1. <<Semi>> \in Seq(Alphabet) /\ Len(<<Semi>>) = 1 /\ <<Semi>>[1] = Semi
        BY Characters
      <4>2. /\ u \in Seq(Alphabet) /\ Len(u) = t + 1
            /\ \A i \in 1..(t + 1) : u[i] = IF i <= t THEN together[i] ELSE <<Semi>>[i - t]
        BY <4>1, <1>1, ConcatProperties
      <4>3. u[t + 1] = Semi /\ \A i \in 1..t : u[i] = together[i]
        <5>1. t + 1 \in 1..(t + 1) /\ ~(t + 1 <= t) /\ (t + 1) - t = 1
          BY <1>1
        <5>2. \A i \in 1..t : i \in 1..(t + 1) /\ i <= t
          BY <1>1
        <5> HIDE DEF u
        <5>3. QED
          BY <5>1, <5>2, <4>1, <4>2
      <4> HIDE DEF u
      <4>4. /\ Len(u \o s) = (t + 1) + l
            /\ \A i \in 1..((t + 1) + l) : (u \o s)[i] = IF i <= t + 1 THEN u[i] ELSE s[i - (t + 1)]
        <5>0. u \in Seq(Alphabet) /\ s \in Seq(Alphabet)
          BY <4>2, <1>1
        <5>i. Len(u \o s) = Len(u) + Len(s)
          BY <5>0, ConcatProperties
        <5>j. \A i \in 1..(Len(u) + Len(s)) : (u \o s)[i] = IF i <= Len(u) THEN u[i] ELSE s[i - Len(u)]
          BY <5>0, ConcatProperties
        <5>1. /\ Len(u \o s) = Len(u) + Len(s)
              /\ \A i \in 1..(Len(u) + Len(s)) : (u \o s)[i] = IF i <= Len(u) THEN u[i] ELSE s[i - Len(u)]
          BY <5>i, <5>j
        <5>2. Len(u) = t + 1
          BY <4>2
        <5>3. QED
          BY <5>1, <5>2
      <4>5. /\ t + 1 \in 1..((t + 1) + l) /\ t + 1 <= t + 1
            /\ \A i \in 1..t : i \in 1..((t + 1) + l) /\ i <= t + 1
            /\ \A j \in 1..l : /\ (t + 1) + j \in 1..((t + 1) + l) /\ ~((t + 1) + j <= t + 1)
                               /\ ((t + 1) + j) - (t + 1) = j
        BY <1>1
      <4>6. together' = u \o s
        BY <3>1 DEF u
      <4>7. QED
        BY <4>3, <4>4, <4>5, <4>6
    <3>3. new[n + 1] = x /\ \A k \in 1..n : new[k] = off[k]
      BY <1>1
    <3>4. new \in [1..(n + 1) -> Nat]
      <4>1. x \in Nat
        BY <1>1
      <4> HIDE DEF x
      <4>2. \A k \in 1..(n + 1) : (IF k = n + 1 THEN x ELSE off[k]) \in Nat
        BY <4>1, <2>2, <2>4
      <4>3. QED
        BY <4>2
    <3>5. x \in Nat /\ x = t + 1 /\ 1 \in 1..n /\ n + 1 > 0
      BY <1>1, <2>6
    <3> HIDE DEF new, x
    <3>6. new[1] = 0
      BY <2>3, <2>6, <3>3, <3>5
    <3>7. ASSUME NEW k \in 1..n
          PROVE  /\ new[k] + Len(statements'[k]) <= x + l
                 /\ new[k + 1] = new[k] + Len(statements'[k]) + 1 /\ together'[new[k + 1]] = Semi
                 /\ \A j \in 1..Len(statements'[k]) : together'[new[k] + j] = statements'[k][j]
      <4>1. statements'[k] = statements[k] /\ new[k] = off[k]
        BY <2>2, <3>3
      <4>2. /\ off[k] + Len(statements[k]) <= t /\ off[k] \in Nat /\ Len(statements[k]) \in Nat
        BY <2>3, <2>4
      <4>3. off[k] + Len(statements[k]) <= x + l
        BY <4>2, <3>5, <1>1
      <4>4. \A j \in 1..Len(statements[k]) : together'[off[k] + j] = statements[k][j]
        <5>1. \A j \in 1..Len(statements[k]) : off[k] + j \in 1..t
          BY <4>2, <1>1
        <5>2. QED
          BY <5>1, <3>2, <2>3
      <4>5. new[k + 1] = off[k] + Len(statements[k]) + 1 /\ together'[new[k + 1]] = Semi
        <5>1. CASE k = n
          BY <5>1, <2>3, <2>6, <3>2, <3>3, <3>5
        <5>2. CASE k < n
          <6>1. k + 1 \in 1..n
            BY <5>2, <1>1
          <6>2. new[k + 1] = off[k + 1] /\ off[k + 1] \in Nat /\ off[k + 1] + Len(statements[k + 1]) <= t
                /\ Len(statements[k + 1]) \in Nat
            BY <6>1, <3>3, <2>4, <2>3
          <6>3. off[k + 1] = off[k] + Len(statements[k]) + 1 /\ together[off[k + 1]] = Semi
            BY <5>2, <2>3
          <6>4. off[k + 1] \in 1..t
            <7> DEFINE p == off[k + 1]
                       q == Len(statements[k + 1])
                       r == off[k]
                       v == Len(statements[k])
            <7>1. p \in Nat /\ q \in Nat /\ r \in Nat /\ v \in Nat /\ p + q <= t /\ p = r + v + 1 /\ t \in Nat
              BY <6>2, <6>3, <4>2, <1>1
            <7> HIDE DEF p, q, r, v, t
            <7>2. p \in 1..t
              BY <7>1
            <7>3. QED
              BY <7>2 DEF p
          <6>5. QED
            BY <6>2, <6>3, <6>4, <3>2
        <5>3. QED
          BY <5>1, <5>2, <1>1
      <4>6. QED
        BY <4>1, <4>3, <4>4, <4>5
    <3>8. /\ new[n + 1] + Len(statements'[n + 1]) <= x + l
          /\ Len(together') = new[n + 1] + Len(statements'[n + 1])
          /\ \A j \in 1..Len(statements'[n + 1]) : together'[new[n + 1] + j] = statements'[n + 1][j]
      BY <2>2, <3>2, <3>3, <3>5, <1>1
    <3>9. /\ ~(n + 1 = 0) /\ ~(n + 1 < n + 1) /\ \A k \in 1..n : k < n + 1
      BY <1>1
    <3>10. Joined(together', statements', new)
      BY <2>2, <3>2, <3>4, <3>5, <3>6, <3>7, <3>8, <3>9 DEF Joined
    <3>11. QED
      BY <3>10
  <2>7. QED
    BY <2>5, <2>6, <1>1
<1>4. QED
  BY <1>2, <1>3

\* A complete statement is tidy, and closed when the loop is in code.
LEMMA CompleteTidy ==
  ASSUME SplitTypes, CurrentInv, Complete(current), splitPhase # "done",
         \A k \in 1..Len(statements) : Tidy(statements[k], TRUE),
         NEW closed \in BOOLEAN, closed => mode = "code"
  PROVE  \A k \in 1..Len(statements') : Tidy(statements'[k], closed \/ k < Len(statements'))
<1>0. \A word : Tidy(word, TRUE) => \A b \in BOOLEAN : Tidy(word, b)
  BY DEF Tidy
<1> DEFINE s == Strip(current)
           n == Len(statements)
<1>1. /\ current \in Seq(Alphabet) /\ s \in Seq(Alphabet) /\ statements \in Seq(Seq(Alphabet)) /\ n \in Nat
  BY StripType, LenProperties DEF SplitTypes
<1>2. CASE s = <<>>
  <2>1. statements' = statements
    BY <1>2 DEF Complete
  <2>2. \A k \in 1..n : (closed \/ k < n) \in BOOLEAN
    OBVIOUS
  <2>3. QED
    BY <2>1, <2>2, <1>0
<1>3. CASE s # <<>>
  <2>1. statements' = Append(statements, s)
    BY <1>3 DEF Complete
  <2>2. PICK m : Runs(current, m) /\ m[Len(current) + 1] = IF mode = "quote" THEN "quote" ELSE "code"
    BY DEF CurrentInv
  <2>3. Tidy(s, closed)
    BY <2>2, <1>1, <1>3, StripTidy
  <2> HIDE DEF s
  <2>4. /\ Len(statements') = n + 1 /\ statements'[n + 1] = s
        /\ \A k \in 1..n : statements'[k] = statements[k]
        /\ \A k \in 1..(n + 1) : k \in 1..n \/ k = n + 1
    BY <1>1, <2>1, AppendsTo
  <2>5. ~(n + 1 < n + 1) /\ \A k \in 1..n : k < n + 1
    BY <1>1
  <2>6. \A k \in 1..n : Tidy(statements[k], closed \/ k < n + 1)
    BY <2>5, <1>0
  <2>7. (closed \/ n + 1 < n + 1) = closed
    BY <2>5
  <2>8. Tidy(s, closed \/ n + 1 < n + 1)
    BY <2>3, <2>7
  <2>9. QED
    BY <2>4, <2>6, <2>8
<1>4. QED
  BY <1>2, <1>3

\* The second reading: it has read whole statements of the first one, and so much
\* of the next.
Rereads(i, m, off) ==
  /\ Runs(parts[i], m) /\ (i < Len(parts) => m[Len(parts[i]) + 1] = "code")
  /\ off[i] <= taken /\ taken <= off[i] + Len(parts[i])
  /\ Len(statements) = i - 1 /\ \A k \in 1..(i - 1) : statements[k] = parts[k]
  /\ Len(current) = taken - off[i] /\ \A j \in 1..(taken - off[i]) : current[j] = parts[i][j]
  /\ mode = m[(taken - off[i]) + 1]

AgainInv ==
  again =>
    /\ \A k \in 1..Len(parts) : Tidy(parts[k], k < Len(parts))
    /\ splitPhase # "done" =>
         \E off : /\ Joined(sqlText, parts, off)
                  /\ \/ Len(parts) = 0 /\ statements = <<>> /\ current = <<>>
                     \/ \E i \in 1..Len(parts) : \E m : Rereads(i, m, off)
    /\ splitPhase = "done" => statements = parts

\* A statement of the first reading.
LEMMA TidyFacts ==
  ASSUME SplitTypes, again, AgainInv, NEW i \in 1..Len(parts)
  PROVE  /\ parts[i] \in Seq(Alphabet) /\ Len(parts[i]) \in Nat \ {0}
         /\ Strip(parts[i]) = parts[i] /\ parts[i] # <<>>
         /\ \E m : Runs(parts[i], m) /\ (i < Len(parts) => m[Len(parts[i]) + 1] = "code")
<1>1. parts[i] \in Seq(Alphabet)
  BY ElementOfSeq DEF SplitTypes
<1>2. /\ parts[i] # <<>> /\ Strip(parts[i]) = parts[i]
      /\ \E m : Runs(parts[i], m) /\ (i < Len(parts) => m[Len(parts[i]) + 1] = "code")
  BY DEF AgainInv, Tidy
<1>3. Len(parts[i]) \in Nat \ {0}
  BY <1>1, <1>2, EmptySeq
<1>4. QED
  BY <1>1, <1>2, <1>3

\* The whole next statement is what the loop completes.
LEMMA CompletesNext ==
  ASSUME SplitTypes, again, AgainInv, Complete(current), NEW i \in 1..Len(parts),
         Len(statements) = i - 1, \A k \in 1..(i - 1) : statements[k] = parts[k],
         Len(current) = Len(parts[i]), \A j \in 1..Len(parts[i]) : current[j] = parts[i][j]
  PROVE  Len(statements') = i /\ \A k \in 1..i : statements'[k] = parts[k]
<1>1. parts[i] \in Seq(Alphabet) /\ Strip(parts[i]) = parts[i] /\ parts[i] # <<>>
  BY TidyFacts
<1>2. current \in Seq(Alphabet) /\ statements \in Seq(Seq(Alphabet))
  BY DEF SplitTypes
<1>3. current = parts[i]
  BY <1>1, <1>2, SeqEqual
<1>4. statements' = Append(statements, parts[i])
  BY <1>1, <1>3 DEF Complete
<1>5. /\ Len(statements') = Len(statements) + 1 /\ statements'[Len(statements) + 1] = parts[i]
      /\ \A k \in 1..Len(statements) : statements'[k] = statements[k]
      /\ \A k \in 1..(Len(statements) + 1) : k \in 1..Len(statements) \/ k = Len(statements) + 1
  BY <1>1, <1>2, <1>4, AppendsTo
<1>6. Len(statements) + 1 = i
  OBVIOUS
<1>7. QED
  BY <1>5, <1>6

\* A turn of the second reading stays on the first one.
LEMMA AgainScans == ASSUME SplitTypes, again, AgainInv, Scan PROVE AgainInv'
<1> DEFINE a == taken + 1
           c == sqlText[a]
           np == Len(parts)
<1>1. /\ sqlText \in Seq(Alphabet) /\ Len(sqlText) \in Nat /\ taken \in Nat /\ a \in 1..Len(sqlText)
      /\ parts \in Seq(Seq(Alphabet)) /\ np \in Nat /\ current \in Seq(Alphabet)
  BY LenProperties DEF SplitTypes, Scan
<1>2. /\ taken' = a /\ sqlText' = sqlText /\ parts' = parts /\ again' = again
      /\ splitPhase = "scan" /\ splitPhase' = "scan" /\ Turn(c, Lookahead(sqlText, a))
  BY DEF Scan
<1>3. PICK off : /\ Joined(sqlText, parts, off)
                 /\ \/ np = 0 /\ statements = <<>> /\ current = <<>>
                    \/ \E i \in 1..np : \E m : Rereads(i, m, off)
  BY <1>2 DEF AgainInv
<1>4. /\ off \in [1..np -> Nat] /\ (np = 0 => Len(sqlText) = 0)
      /\ (np > 0 => Len(sqlText) = off[np] + Len(parts[np]))
      /\ \A k \in 1..np :
           /\ off[k] + Len(parts[k]) <= Len(sqlText)
           /\ k < np => off[k + 1] = off[k] + Len(parts[k]) + 1 /\ sqlText[off[k + 1]] = Semi
           /\ \A j \in 1..Len(parts[k]) : sqlText[off[k] + j] = parts[k][j]
  BY <1>3 DEF Joined
<1>5. PICK i \in 1..np : \E m : Rereads(i, m, off)
  BY <1>1, <1>3, <1>4
<1>6. PICK m : Rereads(i, m, off)
  BY <1>5
<1> DEFINE p == parts[i]
           n == Len(p)
           o == off[i]
           j == a - o
<1>7. p \in Seq(Alphabet) /\ n \in Nat \ {0} /\ o \in Nat /\ o <= taken /\ taken <= o + n /\ j \in 1..(n + 1)
  <2>1. p \in Seq(Alphabet) /\ n \in Nat \ {0}
    BY <1>1, TidyFacts
  <2>2. o \in Nat /\ taken \in Nat /\ a = taken + 1
    BY <1>1, <1>4
  <2>3. o <= taken /\ taken <= o + n
    BY <1>6 DEF Rereads
  <2>4. j \in 1..(n + 1)
    <3>1. j = a - o /\ n \in Nat
      BY <2>1
    <3> HIDE DEF a, o, j, n
    <3>2. QED
      BY <3>1, <2>2, <2>3
  <2>5. QED
    BY <2>1, <2>2, <2>3, <2>4
<1>8. /\ Len(current) = j - 1 /\ mode = m[j] /\ (taken - o) + 1 = j /\ taken - o = j - 1
      /\ \A k \in 1..(j - 1) : current[k] = p[k]
  <2>1. taken - o = j - 1 /\ (taken - o) + 1 = j
    <3>1. o \in Nat /\ taken \in Nat /\ a = taken + 1
      BY <1>1, <1>7
    <3> HIDE DEF o
    <3>2. QED
      BY <3>1
  <2>2. Len(current) = taken - o /\ mode = m[(taken - o) + 1] /\ \A k \in 1..(taken - o) : current[k] = p[k]
    BY <1>6 DEF Rereads
  <2> HIDE DEF j, o, p
  <2>3. QED
    BY <2>1, <2>2
<1>9. ASSUME NEW x \in 1..np, NEW mx, Rereads(x, mx, off)' PROVE AgainInv'
  <2>1. /\ splitPhase' = "scan" /\ Joined(sqlText', parts', off)
        /\ \A k \in 1..Len(parts') : Tidy(parts'[k], k < Len(parts'))
    BY <1>2, <1>3 DEF AgainInv
  <2>2. \E y \in 1..Len(parts') : \E my : Rereads(y, my, off)'
    BY <1>2, <1>9
  <2>3. QED
    BY <2>1, <2>2 DEF AgainInv
<1>10. Runs(p, m) /\ (i < np => m[n + 1] = "code") /\ o + j = a /\ j \in Nat \ {0}
  <2>1. o \in Nat /\ taken \in Nat /\ a = taken + 1 /\ j = a - o /\ o <= taken
    BY <1>1, <1>7
  <2>2. o + j = a /\ j \in Nat \ {0}
    <3> HIDE DEF o, j, a
    <3>1. QED
      BY <2>1
  <2>3. QED
    BY <2>2, <1>6 DEF Rereads
<1>11. CASE j <= n
  <2>1. j \in 1..n /\ c = p[j] /\ c \in Alphabet
    <3>1. j \in 1..n
      BY <1>7, <1>10, <1>11
    <3>2. sqlText[o + j] = p[j]
      BY <3>1, <1>4
    <3>3. c \in Alphabet
      BY <1>1, ElementOfSeq
    <3>4. QED
      BY <3>1, <3>2, <3>3, <1>10
  <2>2. /\ m[j + 1] = IF c # Quote THEN m[j] ELSE IF m[j] = "code" THEN "quote" ELSE "code"
        /\ m[j] = "code" => c # Semi /\ ~(c = Dash /\ j < n /\ p[j + 1] = Dash)
        /\ m[j] \in {"code", "quote"}
    <3>1. /\ m \in [1..(n + 1) -> {"code", "quote"}]
          /\ m[j + 1] = IF p[j] # Quote THEN m[j] ELSE IF m[j] = "code" THEN "quote" ELSE "code"
          /\ m[j] = "code" => p[j] # Semi /\ ~(p[j] = Dash /\ j < n /\ p[j + 1] = Dash)
      BY <1>10, <2>1 DEF Runs
    <3>2. QED
      BY <3>1, <2>1, <1>7
  <2>3. m[j] = "code" /\ c = Dash => Lookahead(sqlText, a) # <<Dash>>
    <3>1. ASSUME a < Len(sqlText), m[j] = "code", c = Dash PROVE sqlText[a + 1] # Dash
      <4>1. CASE j < n
        <5>1. j + 1 \in 1..n /\ o + (j + 1) = a + 1
          <6>1. o \in Nat /\ o + j = a /\ n \in Nat /\ j \in 1..n
            BY <1>7, <1>10, <2>1
          <6> HIDE DEF o, j, a, n
          <6>2. QED
            BY <6>1, <4>1
        <5>2. sqlText[o + (j + 1)] = p[j + 1]
          BY <5>1, <1>4
        <5>3. QED
          BY <5>1, <5>2, <4>1, <2>2, <3>1
      <4>2. CASE j = n /\ i < np
        <5>1. off[i + 1] = o + n + 1 /\ sqlText[off[i + 1]] = Semi
          BY <4>2, <1>4
        <5>2. o + n + 1 = a + 1
          BY <4>2, <1>10
        <5>3. QED
          BY <5>1, <5>2, Characters
      <4>3. CASE j = n /\ ~(i < np)
        <5>1. i = np /\ np > 0
          BY <4>3, <1>1
        <5>2. Len(sqlText) = a
          BY <5>1, <4>3, <1>4, <1>10
        <5>3. QED
          BY <5>2, <3>1, <1>1
      <4>4. QED
        BY <4>1, <4>2, <4>3, <2>1, <1>7
    <3>2. CASE a < Len(sqlText)
      <4>1. Lookahead(sqlText, a) = <<sqlText[a + 1]>>
        BY <3>2 DEF Lookahead
      <4>2. QED
        BY <4>1, <3>1, <3>2
    <3>3. CASE ~(a < Len(sqlText))
      <4>1. Lookahead(sqlText, a) = <<>> /\ <<>> # <<Dash>>
        BY <3>3 DEF Lookahead
      <4>2. QED
        BY <4>1
    <3>4. QED
      BY <3>2, <3>3
  <2>4. Keep(c, m[j + 1])
    <3>1. CASE m[j] = "quote"
      <4>1. Keep(c, IF c = Quote THEN "code" ELSE "quote")
        BY <3>1, <1>2, <1>8 DEF Turn
      <4>2. m[j + 1] = IF c = Quote THEN "code" ELSE "quote"
        BY <3>1, <2>2
      <4>3. QED
        BY <4>1, <4>2
    <3>2. CASE m[j] = "code" /\ c = Quote
      <4>1. Keep(c, "quote")
        BY <3>2, <1>2, <1>8, Characters DEF Turn
      <4>2. QED
        BY <4>1, <3>2, <2>2
    <3>3. CASE m[j] = "code" /\ c # Quote
      <4>1. c # Semi /\ ~(c = Dash /\ Lookahead(sqlText, a) = <<Dash>>)
        BY <3>3, <2>2, <2>3
      <4>2. Keep(c, "code")
        BY <4>1, <3>3, <1>2, <1>8 DEF Turn
      <4>3. QED
        BY <4>2, <3>3, <2>2
    <3>4. QED
      BY <3>1, <3>2, <3>3, <2>2
  <2>5. /\ current' = Append(current, c) /\ mode' = m[j + 1] /\ statements' = statements
    BY <2>4 DEF Keep
  <2>6. /\ Len(current') = j /\ \A k \in 1..j : current'[k] = p[k]
    <3>1. /\ Len(current') = Len(current) + 1 /\ current'[Len(current) + 1] = c
          /\ \A k \in 1..Len(current) : current'[k] = current[k]
          /\ \A k \in 1..(Len(current) + 1) : k \in 1..Len(current) \/ k = Len(current) + 1
      <4>1. c \in Alphabet /\ current \in Seq(Alphabet)
        BY <2>1, <1>1
      <4> HIDE DEF c
      <4>2. /\ Len(Append(current, c)) = Len(current) + 1 /\ Append(current, c)[Len(current) + 1] = c
            /\ \A k \in 1..Len(current) : Append(current, c)[k] = current[k]
            /\ \A k \in 1..(Len(current) + 1) : k \in 1..Len(current) \/ k = Len(current) + 1
        BY <4>1, AppendsTo
      <4>3. QED
        BY <4>2, <2>5
    <3>2. Len(current) + 1 = j
      BY <1>8, <1>10
    <3>3. QED
      BY <3>1, <3>2, <1>8, <2>1
  <2>7. Rereads(i, m, off)'
    <3>1. Len(statements) = i - 1 /\ \A k \in 1..(i - 1) : statements[k] = parts[k]
      BY <1>6 DEF Rereads
    <3>2. o <= a /\ a <= o + n /\ a - o = j
      <4>1. o \in Nat /\ n \in Nat /\ j \in Nat \ {0} /\ o + j = a /\ j <= n
        BY <1>7, <1>10, <1>11
      <4> HIDE DEF a, o, j, n
      <4>2. QED
        BY <4>1
    <3>3. QED
      BY <3>1, <3>2, <2>5, <2>6, <1>2, <1>10 DEF Rereads
  <2>8. QED
    BY <2>7, <1>9
<1>12. CASE j = n + 1
  <2>1. i < np
    <3>1. i = np => Len(sqlText) = o + n
      BY <1>1, <1>4
    <3>2. a = o + n + 1 /\ a <= Len(sqlText)
      <4>1. a <= Len(sqlText) /\ o + j = a /\ j = n + 1 /\ o \in Nat /\ n \in Nat
        BY <1>1, <1>7, <1>10, <1>12
      <4> HIDE DEF a, o, j, n
      <4>2. QED
        BY <4>1
    <3>3. QED
      BY <3>1, <3>2, <1>1, <1>7
  <2>2. off[i + 1] = a /\ c = Semi
    <3>1. off[i + 1] = o + n + 1 /\ sqlText[off[i + 1]] = Semi
      BY <2>1, <1>4
    <3>2. o + n + 1 = a
      BY <1>7, <1>10, <1>12
    <3>3. QED
      BY <3>1, <3>2
  <2>3. mode = "code"
    BY <2>1, <1>8, <1>10, <1>12
  <2>4. Complete(current) /\ current' = <<>> /\ mode' = "code"
    BY <2>2, <2>3, <1>2, Characters DEF Turn, Cut
  <2>5. Len(statements') = i /\ \A k \in 1..i : statements'[k] = parts[k]
    <3>1. Len(current) = Len(parts[i]) /\ \A k \in 1..Len(parts[i]) : current[k] = parts[i][k]
      <4>1. j - 1 = n
        BY <1>7, <1>12
      <4>2. QED
        BY <4>1, <1>8
    <3>2. Len(statements) = i - 1 /\ \A k \in 1..(i - 1) : statements[k] = parts[k]
      BY <1>6 DEF Rereads
    <3>3. QED
      BY <3>1, <3>2, <2>4, CompletesNext
  <2>6. i + 1 \in 1..np /\ (i + 1) - 1 = i
    BY <2>1, <1>1
  <2>7. PICK my : Runs(parts[i + 1], my) /\ (i + 1 < np => my[Len(parts[i + 1]) + 1] = "code")
    BY <2>6, TidyFacts
  <2>8. Len(parts[i + 1]) \in Nat
    BY <2>6, TidyFacts
  <2>9. my[1] = "code"
    BY <2>7 DEF Runs
  <2>10. Rereads(i + 1, my, off)'
    <3>1. Len(<<>>) = 0 /\ a - a = 0 /\ 0 + 1 = 1 /\ a <= a /\ \A k \in 1..0 : FALSE
      BY <1>1
    <3>2. a <= a + Len(parts[i + 1])
      <4>1. a \in Nat
        BY <1>1
      <4> HIDE DEF a
      <4>2. QED
        BY <4>1, <2>8
    <3> HIDE DEF a
    <3>3. QED
      BY <3>1, <3>2, <2>2, <2>4, <2>5, <2>6, <2>7, <2>9, <1>2 DEF Rereads
  <2>11. QED
    BY <2>6, <2>10, <1>9
<1>13. j <= n \/ j = n + 1
  BY <1>7
<1>14. QED
  BY <1>11, <1>12, <1>13

\* At its end the second reading has the statements of the first.
LEMMA AgainEnds == ASSUME SplitTypes, again, AgainInv, ScanEnds PROVE AgainInv'
<1> DEFINE np == Len(parts)
<1>1. /\ Len(sqlText) \in Nat /\ parts \in Seq(Seq(Alphabet)) /\ np \in Nat /\ current \in Seq(Alphabet)
      /\ statements \in Seq(Seq(Alphabet))
  BY LenProperties DEF SplitTypes
<1>2. /\ taken = Len(sqlText) /\ Complete(current) /\ splitPhase # "done"
      /\ parts' = parts /\ again' = again /\ splitPhase' = "done"
  BY DEF ScanEnds
<1>3. SUFFICES statements' = parts
  BY <1>2, <1>3 DEF AgainInv
<1>4. PICK off : /\ Joined(sqlText, parts, off)
                 /\ \/ np = 0 /\ statements = <<>> /\ current = <<>>
                    \/ \E i \in 1..np : \E m : Rereads(i, m, off)
  BY <1>2 DEF AgainInv
<1>5. CASE np = 0 /\ statements = <<>> /\ current = <<>>
  <2>1. DOMAIN <<>> = {}
    OBVIOUS
  <2>2. Inked(<<>>) = {}
    BY <2>1 DEF Inked
  <2>3. Strip(current) = <<>>
    BY <2>2, <1>5 DEF Strip
  <2>4. statements' = <<>>
    BY <2>3, <1>2, <1>5 DEF Complete
  <2>5. parts = <<>>
    BY <1>1, <1>5, ListsNothing
  <2>6. QED
    BY <2>4, <2>5
<1>6. CASE \E i \in 1..np : \E m : Rereads(i, m, off)
  <2>1. PICK i \in 1..np : \E m : Rereads(i, m, off)
    BY <1>6
  <2>2. PICK m : Rereads(i, m, off)
    BY <2>1
  <2> DEFINE p == parts[i]
             o == off[i]
             n == Len(p)
  <2>3. /\ o <= taken /\ taken <= o + n /\ Len(current) = taken - o /\ \A j \in 1..(taken - o) : current[j] = p[j]
        /\ Len(statements) = i - 1 /\ \A k \in 1..(i - 1) : statements[k] = parts[k]
    BY <2>2 DEF Rereads
  <2>4. /\ off \in [1..np -> Nat]
        /\ np > 0 => Len(sqlText) = off[np] + Len(parts[np])
        /\ \A k \in 1..np : off[k] + Len(parts[k]) <= Len(sqlText)
        /\ \A k \in 1..np : k < np => off[k + 1] = off[k] + Len(parts[k]) + 1
    BY <1>4 DEF Joined
  <2>5. n \in Nat /\ o \in Nat
    BY <2>4, TidyFacts
  <2>6. i = np
    <3>1. ASSUME i < np PROVE FALSE
      <4>1. i + 1 \in 1..np /\ off[i + 1] = o + n + 1
        BY <3>1, <2>4, <1>1
      <4>2. off[i + 1] + Len(parts[i + 1]) <= Len(sqlText) /\ Len(parts[i + 1]) \in Nat
        BY <4>1, <2>4, TidyFacts
      <4>3. taken = Len(sqlText) /\ taken <= o + n
        BY <1>2, <2>3
      <4> DEFINE q == off[i + 1]
                 l == Len(parts[i + 1])
                 s == Len(sqlText)
      <4>4. /\ o \in Nat /\ n \in Nat /\ l \in Nat /\ s \in Nat
            /\ q = o + n + 1 /\ q + l <= s /\ s <= o + n
        BY <4>1, <4>2, <4>3, <2>5, <1>1
      <4> HIDE DEF o, n, q, l, s
      <4>5. QED
        BY <4>4
    <3>2. QED
      BY <3>1, <1>1
  <2>7. Len(sqlText) = o + n
    BY <2>4, <2>6
  <2>8. taken - o = n
    <3>1. taken = o + n
      BY <2>7, <1>2
    <3> HIDE DEF o, n
    <3>2. QED
      BY <3>1, <2>5
  <2>9. Len(current) = Len(parts[i]) /\ \A j \in 1..Len(parts[i]) : current[j] = parts[i][j]
    BY <2>3, <2>8
  <2>10. Len(statements') = i /\ \A k \in 1..i : statements'[k] = parts[k]
    BY <2>3, <2>9, <1>2, CompletesNext
  <2>11. statements' \in Seq(Seq(Alphabet))
    BY <1>2, CompleteTypes
  <2>12. QED
    BY <2>6, <2>10, <2>11, <1>1, SeqEqual
<1>7. QED
  BY <1>4, <1>5, <1>6

\* It begins at the first of them.
LEMMA AgainStarts == ASSUME SplitTypes, DoneInv, SplitAgain PROVE AgainInv'
<1>1. /\ parts' = statements /\ sqlText' = together /\ splitPhase = "done" /\ splitPhase' = "scan"
      /\ taken' = 0 /\ mode' = "code" /\ current' = <<>> /\ statements' = <<>> /\ again'
  BY DEF SplitAgain
<1>2. \A k \in 1..Len(statements) : Tidy(statements[k], k < Len(statements))
  BY <1>1 DEF DoneInv
<1>3. PICK off : Joined(together, statements, off)
  BY DEF DoneInv
<1>4. statements \in Seq(Seq(Alphabet)) /\ Len(statements) \in Nat
  BY LenProperties DEF SplitTypes
<1>5. ASSUME Len(statements) > 0 PROVE \E i \in 1..Len(statements) : \E m : Rereads(i, m, off)'
  <2>1. 1 \in 1..Len(statements)
    BY <1>4, <1>5
  <2>2. PICK m : Runs(statements[1], m) /\ (1 < Len(statements) => m[Len(statements[1]) + 1] = "code")
    BY <2>1, <1>2 DEF Tidy
  <2>3. statements[1] \in Seq(Alphabet)
    BY <2>1, <1>4, ElementOfSeq
  <2>4. Len(statements[1]) \in Nat
    BY <2>3, LenProperties
  <2>5. off[1] = 0 /\ m[1] = "code"
    BY <1>3, <1>5, <2>2 DEF Joined, Runs
  <2>6. Len(<<>>) = 0 /\ 0 - 0 = 0 /\ 0 + 1 = 1 /\ 1 - 1 = 0 /\ \A k \in 1..0 : FALSE
    OBVIOUS
  <2>7. 0 <= 0 + Len(statements[1])
    BY <2>4
  <2>8. Rereads(1, m, off)'
    BY <2>2, <2>5, <2>6, <2>7, <1>1 DEF Rereads
  <2>9. QED
    BY <2>1, <2>8
<1>6. Len(statements) = 0 \/ Len(statements) > 0
  BY <1>4
<1>7. QED
  BY <1>1, <1>2, <1>3, <1>5, <1>6 DEF AgainInv

\* Every action keeps both readings together.
LEMMA StableInductive ==
  /\ SplitTypes /\ CurrentInv /\ DoneInv /\ AgainInv /\ [SqlNext]_sqlVars
  => CurrentInv' /\ DoneInv' /\ AgainInv'
<1> SUFFICES ASSUME SplitTypes, CurrentInv, DoneInv, AgainInv, [SqlNext]_sqlVars
             PROVE  CurrentInv' /\ DoneInv' /\ AgainInv'
  OBVIOUS
<1>1. CASE UNCHANGED splitVars
  BY <1>1 DEF CurrentInv, DoneInv, AgainInv, Rereads, splitVars
<1>2. ASSUME mode' = "code", current' = <<>>, statements' = <<>>, together' = <<>>
      PROVE  CurrentInv' /\ DoneInv'
  <2>1. Len(<<>>) = 0 /\ ~(Len(<<>>) > 0) /\ \A k \in 1..0 : FALSE
    OBVIOUS
  <2>2. CurrentInv'
    BY <1>2, <2>1, RunsNothing DEF CurrentInv
  <2> DEFINE off == [k \in 1..0 |-> 0]
  <2>3. off \in [1..0 -> Nat]
    OBVIOUS
  <2>4. Joined(<<>>, <<>>, off)
    BY <2>1, <2>3 DEF Joined
  <2> HIDE DEF off
  <2>5. DoneInv'
    BY <1>2, <2>1, <2>4 DEF DoneInv
  <2>6. QED
    BY <2>2, <2>5
<1>3. ASSUME NEW c \in Alphabet, WriteChar(c) PROVE CurrentInv' /\ DoneInv' /\ AgainInv'
  <2>1. AgainInv'
    BY <1>3 DEF WriteChar, SplitTypes, AgainInv
  <2>2. QED
    BY <2>1, <1>2, <1>3 DEF WriteChar, SplitTypes
<1>4. CASE SplitFile
  <2>1. AgainInv'
    BY <1>4 DEF SplitFile, SplitTypes, AgainInv
  <2>2. QED
    BY <2>1, <1>2, <1>4 DEF SplitFile, SplitTypes
<1>5. CASE Scan
  <2>1. CurrentInv'
    BY <1>5, CurrentKept
  <2>2. AgainInv'
    <3>1. CASE again
      BY <1>5, <3>1, AgainScans
    <3>2. CASE ~again
      BY <1>5, <3>2 DEF Scan, AgainInv
    <3>3. QED
      BY <3>1, <3>2
  <2>3. splitPhase = "scan" /\ splitPhase' = "scan" /\ Turn(sqlText[taken + 1], Lookahead(sqlText, taken + 1))
    BY <1>5 DEF Scan
  <2>4. UNCHANGED <<statements, together>> \/ (Complete(current) /\ mode = "code")
    <3>1. CASE mode = "comment"
      BY <2>3, <3>1 DEF Turn, Keep, Drop
    <3>2. CASE mode = "quote"
      BY <2>3, <3>2 DEF Turn, Keep
    <3>3. CASE mode = "code"
      BY <2>3, <3>3, Characters DEF Turn, Keep, Drop, Cut
    <3>4. QED
      BY <3>1, <3>2, <3>3 DEF SplitTypes
  <2>5. CASE UNCHANGED <<statements, together>>
    <3>1. DoneInv'
      BY <2>3, <2>5 DEF DoneInv
    <3>2. QED
      BY <3>1, <2>1, <2>2
  <2>6. CASE Complete(current) /\ mode = "code"
    <3>1. \A k \in 1..Len(statements) : Tidy(statements[k], TRUE)
      BY <2>3 DEF DoneInv
    <3>2. \A k \in 1..Len(statements') : Tidy(statements'[k], TRUE \/ k < Len(statements'))
      BY <2>3, <2>6, <3>1, CompleteTidy
    <3>3. \E off : Joined(together', statements', off)
      BY <2>6, CompleteJoins DEF DoneInv
    <3>4. DoneInv'
      BY <2>3, <3>2, <3>3 DEF DoneInv
    <3>5. QED
      BY <3>4, <2>1, <2>2
  <2>7. QED
    BY <2>4, <2>5, <2>6
<1>6. CASE ScanEnds
  <2>1. /\ splitPhase = "scan" /\ splitPhase' = "done" /\ Complete(current)
        /\ UNCHANGED <<sqlText, taken, mode, current, parts, again>>
    BY <1>6 DEF ScanEnds
  <2>2. CurrentInv'
    BY <2>1 DEF CurrentInv
  <2>3. AgainInv'
    <3>1. CASE again
      BY <1>6, <3>1, AgainEnds
    <3>2. CASE ~again
      BY <2>1, <3>2 DEF AgainInv
    <3>3. QED
      BY <3>1, <3>2
  <2>4. \A k \in 1..Len(statements) : Tidy(statements[k], TRUE)
    BY <2>1 DEF DoneInv
  <2>5. \A k \in 1..Len(statements') : Tidy(statements'[k], FALSE \/ k < Len(statements'))
    BY <2>1, <2>4, CompleteTidy
  <2>6. \E off : Joined(together', statements', off)
    BY <2>1, CompleteJoins DEF DoneInv
  <2>7. DoneInv'
    BY <2>1, <2>5, <2>6 DEF DoneInv
  <2>8. QED
    BY <2>2, <2>3, <2>7
<1>7. CASE SplitAgain
  <2>1. mode' = "code" /\ current' = <<>> /\ statements' = <<>> /\ together' = <<>>
    BY <1>7 DEF SplitAgain
  <2>2. QED
    BY <2>1, <1>2, <1>7, AgainStarts
<1>8. CASE RenderBatch
  BY <1>1, <1>8 DEF RenderBatch
<1>9. QED
  BY <1>1, <1>3, <1>4, <1>5, <1>6, <1>7, <1>8 DEF SqlNext, Split, sqlVars

\* Both readings end with the same statements.
LEMMA StableHolds == SplitTypes /\ AgainInv => SplitStable
BY DEF AgainInv, SplitStable

-----------------------------------------------------------------------------
(* render *)

\* A template whose placeholders all have a value without placeholders.
LEMMA RendersAll ==
  ASSUME NEW text, NEW params, text.needs \subseteq DOMAIN params,
         \A p \in text.needs : params[p].needs = {} /\ params[p].literal = {}
  PROVE  /\ Render(text, params).needs = {}
         /\ Render(text, params).literal = text.literal
<1>1. UNION {params[p].needs : p \in text.needs} = {} /\ UNION {params[p].literal : p \in text.needs} = {}
  OBVIOUS
<1>2. Render(text, params) =
        [needs |-> UNION {params[p].needs : p \in text.needs},
         literal |-> text.literal \cup UNION {params[p].literal : p \in text.needs}]
  BY DEF Render
<1>3. QED
  BY <1>1, <1>2

FullyRendered(s) == /\ s.sql.needs = {} /\ s.sql.literal = s.of.literal
            /\ s.of.needs \subseteq KnownPlaceholders

\* Parameters given as plain text.
LEMMA GivenIs == \A names : DOMAIN Given(names) = names
                   /\ \A p \in names : Given(names)[p].needs = {} /\ Given(names)[p].literal = {}
BY DEF Given, Plain

\* A template without escapes.
LEMMA TemplateIs == \A names : Template(names).needs = names /\ Template(names).literal = {}
BY DEF Template

\* Each batch of render.py is whole: the tables,
LEMMA DdlWhole == \A s \in DdlStatements : FullyRendered(s)
<1> SUFFICES ASSUME NEW s \in DdlStatements PROVE FullyRendered(s)
  OBVIOUS
<1> DEFINE names == {"database", "warehouse", "projection_start_date"}
<1>1. PICK f \in DOMAIN DdlFiles : s = [of |-> DdlFiles[f], sql |-> Render(DdlFiles[f], Given(names))]
  BY DEF DdlStatements
<1>2. DdlFiles[f].needs \subseteq names
  BY DEF DdlFiles, Template
<1>3. names \subseteq KnownPlaceholders
  BY DEF KnownPlaceholders
<1> HIDE DEF names
<1>4. /\ Render(DdlFiles[f], Given(names)).needs = {}
      /\ Render(DdlFiles[f], Given(names)).literal = DdlFiles[f].literal
  BY <1>2, GivenIs, RendersAll
<1>5. s.of = DdlFiles[f] /\ s.sql = Render(DdlFiles[f], Given(names))
  BY <1>1
<1>6. QED
  BY <1>2, <1>3, <1>4, <1>5 DEF FullyRendered

\* the merges,
LEMMA MergesWhole == \A s \in MergeStatements : FullyRendered(s)
<1> SUFFICES ASSUME NEW s \in MergeStatements PROVE FullyRendered(s)
  OBVIOUS
<1> DEFINE names == {"database", "lookback_days", "valid_expr", "dirty_cte"}
           params == [p \in names |->
                   IF p = "valid_expr" THEN ValidExpr
                   ELSE IF p = "dirty_cte" THEN DirtyFromBronze ELSE Plain]
<1>1. PICK f \in DOMAIN MergeFiles : s = [of |-> MergeFiles[f], sql |-> Render(MergeFiles[f], params)]
  BY DEF MergeStatements
<1>2. MergeFiles[f].needs \subseteq names /\ MergeFiles[f].literal = {}
  BY DEF MergeFiles, Template
<1>3. names \subseteq KnownPlaceholders
  BY DEF KnownPlaceholders
<1>4. DirtyFromBronze.needs = {} /\ DirtyFromBronze.literal = {}
  BY GivenIs, TemplateIs, RendersAll DEF DirtyFromBronze
<1>5. DOMAIN params = names /\ \A p \in names : params[p].needs = {} /\ params[p].literal = {}
  BY <1>4 DEF ValidExpr, Plain
<1> HIDE DEF names, params
<1>6. /\ Render(MergeFiles[f], params).needs = {}
      /\ Render(MergeFiles[f], params).literal = MergeFiles[f].literal
  BY <1>2, <1>5, RendersAll
<1>7. s.of = MergeFiles[f] /\ s.sql = Render(MergeFiles[f], params)
  BY <1>1
<1>8. QED
  BY <1>2, <1>3, <1>6, <1>7 DEF FullyRendered

\* the maintenance,
LEMMA MaintenanceWhole == \A s \in MaintenanceStatements : FullyRendered(s)
<1> SUFFICES ASSUME NEW s \in MaintenanceStatements PROVE FullyRendered(s)
  OBVIOUS
<1> DEFINE few == {"database", "table"}
           all == {"database", "table", "partition_predicate"}
           predicate == Render(Template({"lookback_days"}), Given({"lookback_days"}))
           params == [p \in all |-> IF p = "partition_predicate" THEN predicate ELSE Plain]
<1>1. predicate.needs = {} /\ predicate.literal = {}
  BY GivenIs, TemplateIs, RendersAll
<1>2. \/ s = [of |-> VacuumTemplate, sql |-> Render(VacuumTemplate, Given(few))]
      \/ s = [of |-> OptimizeTemplate, sql |-> Render(OptimizeTemplate, params)]
  BY DEF MaintenanceStatements
<1> HIDE DEF predicate
<1>3. DOMAIN params = all /\ \A p \in all : params[p].needs = {} /\ params[p].literal = {}
  BY <1>1 DEF Plain
<1>4. few \subseteq KnownPlaceholders /\ all \subseteq KnownPlaceholders
  BY DEF KnownPlaceholders
<1>5. /\ VacuumTemplate.needs = few /\ VacuumTemplate.literal = {}
      /\ OptimizeTemplate.needs = all /\ OptimizeTemplate.literal = {}
  BY TemplateIs DEF VacuumTemplate, OptimizeTemplate
<1> HIDE DEF few, all, params
<1>6. CASE s = [of |-> VacuumTemplate, sql |-> Render(VacuumTemplate, Given(few))]
  <2>1. /\ Render(VacuumTemplate, Given(few)).needs = {}
        /\ Render(VacuumTemplate, Given(few)).literal = VacuumTemplate.literal
    BY <1>5, GivenIs, RendersAll
  <2>2. s.of = VacuumTemplate /\ s.sql = Render(VacuumTemplate, Given(few))
    BY <1>6
  <2>3. QED
    BY <2>1, <2>2, <1>4, <1>5 DEF FullyRendered
<1>7. CASE s = [of |-> OptimizeTemplate, sql |-> Render(OptimizeTemplate, params)]
  <2>1. /\ Render(OptimizeTemplate, params).needs = {}
        /\ Render(OptimizeTemplate, params).literal = OptimizeTemplate.literal
    BY <1>3, <1>5, RendersAll
  <2>2. s.of = OptimizeTemplate /\ s.sql = Render(OptimizeTemplate, params)
    BY <1>7
  <2>3. QED
    BY <2>1, <2>2, <1>4, <1>5 DEF FullyRendered
<1>8. QED
  BY <1>2, <1>6, <1>7

\* and the health metrics.
LEMMA HealthWhole == \A s \in HealthStatements : FullyRendered(s)
<1> SUFFICES ASSUME NEW s \in HealthStatements PROVE FullyRendered(s)
  OBVIOUS
<1> DEFINE params(t) == [p \in HealthRow.needs |->
                 IF p = "freshness_expr" THEN FreshnessExpr(t)
                 ELSE IF p = "quarantine_expr" THEN QuarantineExpr(t) ELSE Plain]
<1>1. PICK t \in MaintainedTables : s = [of |-> HealthRow, sql |-> Render(HealthRow, params(t))]
  BY DEF HealthStatements
<1>2. FreshnessExpr(t).needs = {} /\ FreshnessExpr(t).literal = {}
  <2>1. /\ Render(Template({"database"}), Given({"database"})).needs = {}
        /\ Render(Template({"database"}), Given({"database"})).literal = {}
    BY GivenIs, TemplateIs, RendersAll
  <2>2. Plain.needs = {} /\ Plain.literal = {}
    BY DEF Plain
  <2>3. QED
    BY <2>1, <2>2 DEF FreshnessExpr
<1>3. QuarantineExpr(t).needs = {} /\ QuarantineExpr(t).literal = {}
  <2> DEFINE two == {"database", "lookback_days"}
  <2>1. /\ Render(Template(two), Given(two)).needs = {}
        /\ Render(Template(two), Given(two)).literal = {}
    BY GivenIs, TemplateIs, RendersAll
  <2>2. Plain.needs = {} /\ Plain.literal = {}
    BY DEF Plain
  <2>3. QED
    BY <2>1, <2>2 DEF QuarantineExpr
<1>4. /\ DOMAIN params(t) = HealthRow.needs
      /\ \A p \in HealthRow.needs : params(t)[p].needs = {} /\ params(t)[p].literal = {}
  BY <1>2, <1>3 DEF Plain
<1>5. HealthRow.needs \subseteq KnownPlaceholders
  BY DEF HealthRow, KnownPlaceholders
<1> DEFINE sql == Render(HealthRow, params(t))
<1>6. sql.needs = {} /\ sql.literal = HealthRow.literal
  <2> DEFINE f == params(t)
  <2>1. DOMAIN f = HealthRow.needs /\ \A p \in HealthRow.needs : f[p].needs = {} /\ f[p].literal = {}
    BY <1>4
  <2> HIDE DEF f
  <2>2. Render(HealthRow, f).needs = {} /\ Render(HealthRow, f).literal = HealthRow.literal
    BY <2>1, RendersAll
  <2>3. QED
    BY <2>2 DEF f
<1>7. s = [of |-> HealthRow, sql |-> sql]
  BY <1>1
<1> HIDE DEF sql
<1>8. s.of = HealthRow /\ s.sql = sql
  BY <1>7
<1>9. QED
  BY <1>5, <1>6, <1>8 DEF FullyRendered

\* Every action leaves what is rendered whole.
LEMMA RenderKeeps == RenderedOnce /\ [SqlNext]_sqlVars => RenderedOnce'
<1> SUFFICES ASSUME RenderedOnce, [SqlNext]_sqlVars PROVE RenderedOnce'
  OBVIOUS
<1>1. CASE rendered' = rendered
  BY <1>1 DEF RenderedOnce
<1>2. CASE RenderBatch
  <2>1. PICK batch \in {DdlStatements, MergeStatements, MaintenanceStatements, HealthStatements} :
          rendered' = rendered \cup batch
    BY <1>2 DEF RenderBatch
  <2>2. \A s \in batch : FullyRendered(s)
    BY <2>1, DdlWhole, MergesWhole, MaintenanceWhole, HealthWhole
  <2>3. QED
    BY <2>1, <2>2 DEF RenderedOnce, FullyRendered
<1>3. QED
  BY <1>1, <1>2 DEF SqlNext, Split, WriteChar, SplitFile, Scan, ScanEnds, SplitAgain, sqlVars

-----------------------------------------------------------------------------
SqlInv == /\ SplitTypes /\ SpanInv /\ ExactInv /\ CurrentInv /\ DoneInv /\ AgainInv
          /\ RenderedOnce

\* The inductive invariant holds at first.
LEMMA SqlStarts == SqlInit => SqlInv
<1> SUFFICES ASSUME SqlInit PROVE SqlInv
  OBVIOUS
<1>1. /\ sqlText = <<>> /\ splitPhase = "write" /\ taken = 0 /\ mode = "code" /\ current = <<>>
      /\ statements = <<>> /\ together = <<>> /\ parts = <<>> /\ again = FALSE /\ rendered = {}
  BY DEF SqlInit
<1>2. /\ <<>> \in Seq(Alphabet) /\ <<>> \in Seq(Seq(Alphabet)) /\ Len(<<>>) = 0 /\ 0 \in 0..0 /\ 0 + 1 = 1
      /\ ~(Len(<<>>) > 0) /\ \A k \in 1..0 : FALSE
  OBVIOUS
<1>3. SplitTypes
  BY <1>1, <1>2 DEF SplitTypes
<1>4. SpanInv /\ ExactInv
  BY <1>1, <1>2, ReadNothing DEF SpanInv, ExactInv
<1>5. CurrentInv
  BY <1>1, <1>2, RunsNothing DEF CurrentInv
<1>6. DoneInv
  <2> DEFINE off == [k \in 1..0 |-> 0]
  <2>1. off \in [1..0 -> Nat]
    OBVIOUS
  <2>2. Joined(<<>>, <<>>, off)
    BY <1>2, <2>1 DEF Joined
  <2> HIDE DEF off
  <2>3. QED
    BY <1>1, <1>2, <2>2 DEF DoneInv
<1>7. AgainInv /\ RenderedOnce
  BY <1>1 DEF AgainInv, RenderedOnce
<1>8. QED
  BY <1>3, <1>4, <1>5, <1>6, <1>7 DEF SqlInv

\* What Athena is sent is what the files say, whatever file of whatever length is
\* split and whichever statements are rendered (split_statements, render).
THEOREM StatementsAreTheFile == SqlSpec => []SqlSound
<1>1. SqlInv /\ [SqlNext]_sqlVars => SqlInv'
  BY SplitTyped, ExactInductive, StableInductive, RenderKeeps DEF SqlInv
<1>2. SqlInv => SqlSound
  BY ExactHolds, StableHolds DEF SqlInv, SqlSound
<1>3. QED
  BY SqlStarts, <1>1, <1>2, PTL DEF SqlSpec
==============================================================================
