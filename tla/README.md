# A TLA+ model of the realtime finance bot

The repository ingests crypto trades from exchange WebSockets, lands them on a
stream (Kafka or Kinesis), and turns them into a medallion lakehouse (Bronze,
Silver, Gold). This directory models the parts whose correctness depends on
interleavings, failures, retries or boundary values, checks them with TLC and
proves the main results with TLAPS. Paths below are relative to `src/`.

## The system's parts

| Part | State | Operations | Hard behaviour | What makes it correct |
|---|---|---|---|---|
| Runner `ingest/runner.py` | tracker, queue, repair tasks | `handle_message`, `_repair`, `handle_reconnect`, `drain`, `run` | four kinds of asyncio task share a queue; cancellation; shutdown | every trade up to the watermark is on its way or lost in a known way; order; at most once; termination |
| WebSocket `ingest/core/ws.py` | `_has_connected`, backoff iterator, session | `run`, `_session`, `_pump` | drops, dial failures, lifetime reconnect, stop at any moment | unread rows show up as a gap later; stop ends it |
| Tracker, queue, connectors `ingest/core`, `ingest/connectors` | watermark; bounded FIFO | `observe`, `put`, `get`, `repair` | late and repeated numbers, resets, a full queue, one REST page | complete gap detection; repairs overlap neither the stream nor each other |
| Rate limiter `ingest/core/ratelimit.py` | tokens, last refill | `try_acquire`, `acquire` | many sleepers on one bucket | no window exceeds burst + rate |
| Kinesis sink `awsnative/sink.py` | buffer, byte count | `produce`, `poll`, `flush` | partial failures, retries, exhaustion | conservation, no duplicate, loud loss |
| Kafka sink `ingest/core/producer.py` | librdkafka's queue | the same three | delivery reports come later, to a callback | order, one copy, every failure heard of |
| Entry points `ingest/cli.py`, `awsnative/cli.py` | runners, stop event, exit code | `main` | one venue dies, a sink blocks the loop, a signal at any moment | no failure is hidden by the others' success; stop ends the process |
| Medallion SQL `awsnative/sql/`, `render.py` | Iceberg tables | merges into Silver, quarantine, Gold | re-runs, late rows, overlapping windows | idempotence; every Bronze row accounted for; Gold equals the bars of Silver |
| Backfill `awsnative/backfill/` | manifest, staging, tables | `plan`, `load`, outcome and tier merges; parsing of one file | crash and re-run between any two steps; files of mixed units, replaced while being read | a completed file's data is in the tables; a file is staged whole or not at all |
| Enrichment `awsnative/enrichment/` | Bronze objects, macro and perp tables | collectors, merges | polls that overlap, degrade and die; revisions | no look-ahead; the earliest poll of a grid point is kept |
| Athena jobs `awsnative/athena.py`, `ddl.py`, `query.py`, `monitoring/` | query executions, tables, health history | `start_and_wait`, the three commands | a statement outlives the caller that gave it up | a verdict means what it says |
| SQL text `athena.py`, `render.py` | | `split_statements`, the renderers | quotes and comments; a placeholder inside a value | each statement is sent whole, alone, rendered once |
| Bars `awsnative/bars.py` | | `bar_from_trades`, `rollup` | zero volume, one-trade minutes | the same measure at every grain |
| Dashboard `awsnative/dashboard/` | results of five queries | `main`, panels, charts | some queries fail; NULL readings; axes at the edge | no false zero, no hidden staleness, marks inside the plot |
| Databricks lakehouse `lakehouse/` | four flows with their checkpoints | flows, CDC upsert, refresh | two readers of one view at different moments; wipes | nothing malformed passes, nothing is dropped, Silver is the latest fact |
| Readers `devlab/`, `scripts/smoke_test.py`, `consume_example.py` | consumer positions, committed offsets | `tail`, `rate`, frames, gap report | retention, restarts, junk, quiet topics | a tail is complete, a gap is real, copies count once |
| Research notebook `notebooks/04` | one capture | its cells | captures too small, one-sided or gapped | tables agree with each other and with the topic |
| Provisioning `scripts/bootstrap.sh`, `create_acls.py`, `create_topics.py`, `prepare_msk_notebook.py` | the cluster, `.env` | each command | killed and repeated between any two commands; account wiped | nobody is locked out; "Ready." is true |

The parts interact so. The WebSocket calls the runner's `handle_message` for
each frame and `handle_reconnect` for each connection but the first. The runner
asks the tracker about each number, starts a repair task for a gap (which goes
through the rate limiter and the connector's REST call), and puts trades into
the queue; the drain task moves them to the sink. Firehose carries Kinesis to
Bronze, Databricks reads Kafka (both external). The micro-batch merges Bronze
into Silver, quarantine and Gold; the backfill writes the same tables from
archive files; the enrichment writes its own. Jobs and dashboard read and write
the tables through Athena; notebooks and scripts read the topic.

## Modules

| Module | Models | Uses |
|---|---|---|
| `Sink` | abstract: what a transport promises the runner (`ingest/core/sinks.py`) | |
| `KinesisSink`, `KafkaSink` | `awsnative/sink.py`; `ingest/core/producer.py` over librdkafka | each implements `Sink` |
| `Ingest` | `ingest/runner.py`, `core/ws.py`, `core/gaps.py`, `core/queue.py`, numbering and `repair` of the connectors | socket, pump, repairs, drain and venue in one state machine |
| `TokenBucket` | `ingest/core/ratelimit.py`, shared by several repair tasks | |
| `Producers` | `main` of `ingest/cli.py` and `awsnative/cli.py`, settings, instruments | runners and sinks as `main` sees them |
| `Medallion` | the five merges of `awsnative/sql` and the micro-batch that runs three of them | stream and archive path over the same tables |
| `Backfill` | `awsnative/backfill` (`tiers`, `manifest`, `seed`, `loader`), `merge_manifest_outcomes.sql` | planner, work list, Lambdas, manifest, tier merge |
| `ArchiveLoad` | one file through `backfill/loader.py`, `checksum.py`, `epoch.py`, `parsers.py`, `staging.py` | what `Backfill` sees as one outcome |
| `PerpContext`, `MacroVintages` | `enrichment/collect.py`, `perp.py`, `macro.py` and their two merges | collectors, Bronze, merge |
| `AthenaJobs`, `SqlText` | `athena.py`, `ddl.py`, `query.py`, `monitoring/collect.py`, `render.py` | callers and the executions they leave behind |
| `Bars`, `Dashboard` | `bars.py`; `dashboard/cli.py`, `page.py`, `charts.py` | |
| `Lakehouse` | `lakehouse/pipelines/trades.py`, `lakehouse/trades/` | flows with their own checkpoints |
| `Frames`, `StreamReader`, `Research` | `devlab/frames.py`, `health.py`, `stream.py`, the two scripts, notebook 04 | `Research` over `StreamReader` over `Frames` |
| `Provisioning` | the four scripts and `devlab/config.py` | the cluster, two scripts, `.env` |
| `MC*` | constants for TLC; `MCFeeds`, `MCConsole`, `MCKafka` put several modules into one run; statements of the repository that a run refutes | |
| `Sums` | lemmas on sums, ranks and extremes of finite sets | used by three proof modules |
| `*Proofs` | TLAPS proofs | extend their component; `FeedsProofs`, `ConsoleProofs` and `KafkaStackProofs` (with the rate limiter's) each extend the components of one MC module that they prove about |

In every module a definition named `X_Something` just before `X` is `X` with a
plausible bug. No specification uses it; it shows that a property notices.

`MCFeeds`, `MCConsole` and `MCKafka` hold components that share no state. A
variable `focus`, chosen in the initial state, lets one of them move in a
behaviour, so their state spaces add up. A part not in focus has one initial
state. This is sound for the properties, each of which is about one component.

### Ingest

One step is what one asyncio task does between two points where it really
suspends. A `put` on a queue with room does not suspend, so `HandleMessage`
reads a frame, observes its number, creates a repair task and puts the frame's
trades in one step, up to the one that finds the queue full. That one and the
rest of its frame are left in `putting` (`Put`), where `PumpResumes` goes on and
`CancelPump` drops all of them: they are off the wire and in no queue. `socket` is the position of `ResilientWebSocket.run`, `wm` the tracker's
watermark, `repairs` the tasks of `_repair` (`fetching`, `putting` rows
`at..upto`, `done`, `failed`). A trade is the number its venue gave it.
`Resets` separates the two venues: Binance sends one trade to a frame, numbers
trades and keeps the numbers across connections, Coinbase numbers the frames of a
connection, batches trades in a frame, opens with a snapshot, and its tracker is replaced on reconnect.
`heard`, `received`, `cancelled` and `raised` are history. One instrument; rows
`parse` skips are left out; an exception while a frame is parsed ends the
session as a broken connection does.

### Sink, KinesisSink, KafkaSink

`Sink` knows which trades were given, stored and lost, and what `flush`
returned. `Loud` is the difference between the transports: a loud one gives a
trade up only by raising. The refinement mappings are in the two modules
(`Promise == INSTANCE Sink WITH ...`). Kinesis refines it with `Loud` true; its
`flush` returns the length of a buffer that is then empty. Kafka refines it with
`Loud` false: a delivery that timed out is a log line.

In `KinesisSink` records are numbered as they are produced, so the buffer is the
interval `taken+1..produced`. `TakeBatch` and `SendAllEnds` are the loop of
`_send_all`, `PutRecords(failed)` one call of `_send_with_retry`'s loop for any
subset the stream refuses, `ClientRaises` a boto3 exception after any part of
the batch was applied. Sizes are small integers; records share a partition key.
In `KafkaSink` librdkafka is external, modelled from `build_config`: in order,
once, retried until `delivery.timeout.ms`, delivery reports served by `poll` and
`flush`, a full local queue.

### Producers

`main` reads settings and instruments, builds a runner for each venue, and
gathers them. A runner is its queue, socket and drain, and `sent` counts what its
sink delivered. The Kinesis sink is a buffer sent in batches, empty when its
flush returns. Of the Kafka sink a runner sees neither: the client gets rid of a
trade, delivered or not (`ClientReports`: `_on_delivery` logs), refuses one when
its queue is full (`ClientRefuses`), and `Flushed` does not ask what `flush`
returned, as `drain` does not. `time.sleep` of the Kinesis retry holds the whole event loop, which
`Producers` models by letting no other task move. Repair tasks are not in this
view: the one that can block a runner's end is excepted by `StopTerminates` of
`Ingest`.

### TokenBucket

Time in ticks, tokens in integer units, `Cost` per request. `Watch` starts a
measuring window at any moment: `RateRespected` is about every window.

### Medallion

Time in ticks (minutes), `DayLen` to a day. A statement reads and commits in one
step at its own `current_timestamp`; the commit may be followed by the retry of
the same statement. `silver` counts the rows of each trade, a bar is the
multiset of trades it was aggregated from. `Land` is Firehose (external);
`MergeSilver`, `MergeQuarantine` and `MergeGold` are the micro-batch's states,
`ExecutionFails` is a task out of retries, and the archive merges may run at any
moment. One execution at a time is assumed. `due`, `read`, `silverAt` and
`quarAt` are history.

### Backfill and ArchiveLoad

In `Backfill` a file is the days it covers; months have any lengths. `Seed` is
`seed.main`, the execution is `ClearStaging`, one load per item, `MapEnds`,
`MergeOutcomes`, `MergeTier`. The state machine is not in the repository;
`render.py:79-84` and `loader.py:11-14` give its steps and their order. Loads
may be retried with another outcome, die after their put, or outlive a failed
execution (`strays`). The outcomes prefix is emptied with the staging before each
run, as `043_backfill_outcomes.sql:15-16` has it, and the merge into the manifest
replaces matched rows unconditionally: a later run's FAILED takes DONE away from
a file it fetched again. A plan may be made beside an execution. `orphans` and
`doubtful` are history, read by the properties only.

`ArchiveLoad` opens one load up: two fetches between which the archive may
replace the file, the checksum, the zip, then line by line the normalisation of
epochs. A line carries the instants it stands for and the unit they are written
in, and the thresholds between units (`Floor`, `Ceil`, `Kilo`) are scaled down, so
what the parser makes of a number can be compared with what was meant.

### PerpContext and MacroVintages

A poll of `PerpContext` reads the clock, then one endpoint after another while
time passes; an endpoint that fails leaves its columns empty; the object is
written at the end. A reading is represented by its own instant, which the venue
sends with it and which lags: `premiumIndex` and `openInterest` by up to `LagMs`
(`Stamps`), a ratio endpoint by its grid and `LagMs` on top (`Newest`), each
family on its own, as the payloads in `tests/` show. In
`MacroVintages` ALFRED (external) shows each date a value that may be blank or
revised from one vintage to the next; a pull writes one object, a merge keeps a
row per distinct value with the first vintage that showed it.

### AthenaJobs and SqlText

An execution belongs to Athena: a caller that times out, raises or is killed
leaves it running, and it may commit during the next attempt. The three commands
are jobs over the same `start_and_wait`. In `SqlText` a text over the six
characters the splitter can tell apart is written and split, one turn of the loop
of `split_statements` per step; then its statements are put together and split
again. The reference has no loop: the positions in code are the least set that
holds the first one and what a jump over a whole literal or comment reaches from
a member, and a statement is what is kept between two semicolons in code. The
renderers work on the placeholders of each file, fragments that are rendered and
spliced into others included.

### Bars and Dashboard

Ratios are pairs, so nothing rounds; a bar of several minutes, or of the whole
window, is `bar_from_trades` over the trades that fall into it. The page is the
set of sections that what the five queries returned makes of it; a block keeps
its kind, its numbers and where its marks lie, in positions multiplied out to
integers. `answer` is what Athena holds, `results` what `fetch_rows` takes of it:
the first page (`FirstPage`, `PageLimit` rows). NULL is the empty set. The ticks of an axis are quarters of its range,
and a label keeps what is left of its tick after `_nice` has rounded it, with
the suffix, for 0 to 8 decimals as in `axis_labels`. `DashInputs` states what
the queries' `GROUP BY` gives: one row per day and layer, counts that are
natural numbers.

### Lakehouse

Every streaming table has its own checkpoint, and `trades_validated` is
evaluated by each of its two readers with the clock of that moment. Predicates
are in SQL's three-valued logic. `WipeAndRefresh` is the loss of the sandbox with
the selective refresh that follows.

### StreamReader, Frames, Research

Partitions are sequences with a retained suffix. `Arrives`, `Repaired`, `Again`
and `JunkArrives` are what producers may append, `Retention` what the broker may
remove. A trade has one of the `Deals`: a size that may be 0, a side that may be
UNKNOWN, an event time ahead of the next ones. A trade in the topic may come
again through a repair or, as the snapshot that opens a Coinbase subscription
does, in the stream (`Again`), under the number `Renumbered` gives it. `tail`, the smoke test and the example share one poll loop and differ in
its bounds, its start and its commits. `Frames` has the tables the notebooks
compute, `Research` the cells of notebook 04 over them. A frame is the set of
its rows: an offset is read once, and pandas' default sort is not stable, so
what a cell shows may not depend on the order of rows of one event time.

### Provisioning

One action per command of `bootstrap.sh`; a failure, a kill or a wipe of the
account may come between any two and the script is then run again from its top.
Its lookup of the public endpoint may fail and say no (`Check`), and the apply
that then asks for the permissive phase may stop half-way (`HalfApplied`). A wipe
takes the bucket of Terraform's state along (`backend`), which only the top of
the script makes again. AWS is external:
`Provisioning.tla` says which orders it refuses. `prepare_msk_notebook.py`
interleaves with changes of the operator's address, expired sessions and wipes.

## Runs

| Run | Shows | States |
|---|---|---|
| `ingest_binance` | Persistent ids; missed frames, three connections, cancelled pumps, failing repairs, failing sink: every trade up to the watermark is accounted for (`AccountedFor`), handed over once and, if live, in order (`OnceInOrder`) | 132k |
| `ingest_coinbase` | Connection-scoped numbers, batches, snapshots, unparsed numbered frames: gaps are detected (`GapsDetected`), no received trade disappears inside the runner (`ReceivedKept`), repairs end while the drain lives (`RepairsFinish`), stop ends the runner unless a repair is blocked on a full queue the drain has left (`StopTerminates`) | 97k |
| `kinesis_sink` | `LosesNothing` (conservation, no duplicate, loud loss), `WithinCaps` (byte count, both caps, bounded buffer), `FlushEnds`, and that the sink implements `Sink` (`KeepsPromise`) | 71k |
| `token_bucket` | No window exceeds burst plus rate | 65k |
| `medallion` | One Silver row per key, no row of a window dropped, Gold follows Silver, Gold never loses a trade | 1.5M |
| `backfill` | Plans are exact (`PlanExact`), resuming leaves out only what an execution was fetching again (`WindowPlanned`), DONE is accounted for (`DoneAccounted`), the manifest tells how the last fetch of a file ended (`LastFetchRecorded`) | 417k |
| `feeds` | Perp rows are complete where an endpoint answered, and their readings no further from the poll than the venue's lag and the invocation allow (`RowsHonest`), the earliest poll is kept and reaches Silver (`EarliestPollKept`, `ReachesSilver`), macro answers are point-in-time (`PointInTime`), a file is staged whole or refused (`LoadSound`) | 909k |
| `console` | Verdicts of the Athena jobs mean what they say and every job ends (`JobsHonest`, `JobsEnd`), statements are cut and rendered right (`SqlSound`), rollups agree with bars (`RollupComposes`), the page says nothing false and shows what it fetched, which is all of an answer that fits one page of results (`PageHonest`), provisioning can be interrupted and repeated anywhere (`ProvisionSound`) | 381k |
| `kafka_stack` | Delivery is in order, once, or heard of (`DeliveryHonest`) and implements `Sink` (`KafkaKeepsPromise`); validation and Silver (`ValidationSound`, `SilverLatest`); readers and notebook (`TapeTrue`, `ReadersSound`, `ResearchSound`); the process (`ProcessSound`, `StopEnds`) | 351k |
| `ingest_cancelled_put`, `medallion_aged`, `silver_key` | Statements of the repository the code does not keep, see Findings | |

Several of these properties are conjunctions of named parts, each defined and
explained just before the conjunction, so that one question of a component is
one property. The variant recorded for such a property in `PROJECT.json` breaks
one of its parts.

### Bounds and why they are enough

Ingest: five trades, a queue of two and a REST page of two give two overlapping
gaps, a gap longer than a page, a full queue with the pump and a repair both
waiting, and a reconnect in each of those states; three connections allow a
reconnect during the repair of an earlier one. Coinbase needs three frames for a
gap and a snapshot on the second connection; its queue of one is full at once,
and a frame of two or three trades leaves a rest in the pump's hand.
Kinesis: five records of sizes 1 and 3 against caps of 3 records and 5 bytes
make either cap the one that cuts a batch, and three attempts allow two partial
failures before exhaustion. Token bucket: nine ticks exceed the time to fill it.
Medallion: two-day windows of two ticks each and a clock of five ticks let a row
age out of its validity and out of the window; one broken keyed row, one broken
row without a key and two good ones in a minute are the cases the SQL tells
apart. Backfill: two executions are what a failure and its resume need; the
windows are a month and a part of it, the result page holds one row.

Feeds: two polls and five milliseconds over grid points of two let polls
overlap, cross a grid point and fall out of a one-day window; a lag of one
(`LagMs`) lets a mark be older than its grid point and a ratio one period old. Three vintages of
two dates with two readings and a blank give a revision, its reversal and a late
first value; two pulls give a repeated one. A file has at most two lines of
every kind the parsers tell apart, so every pair of units meets; a replacement
has one line (`ShortReplacement`), since the loader sees it as a whole.
Console: two overlapping DDL runs of three files, one query file of three
statements, a collector with three attempts; texts of five characters hold a
literal with a semicolon, a doubled quote and a comment; three trades in two
minutes; pages of up to 33 days and 42 readings, where one query at a time
answers unusually (`OneUnusual`) while any may fail, and with a page of 99 rows
(`PageLimit`) one answer of more; two of the four ACL resource
types, two topics, two addresses and two incidents. Kafka: four trades against a local queue of three; two messages
on the lakehouse's topic are two copies of a key; three records on two
partitions with one expired; two restarts; capture thresholds scaled to that
(`SmallCapture` to `RowsPerInstrument`); two venues, batches of two. The deals are
one bought, one of size 0 and one of side UNKNOWN ahead of its time (`Deals`).

`Max*`, `Drift`, `Windows`, `SnapMax` and the constants above are bounds of the
model, not of the code. Deadlock is not checked: runs end at their bounds, and
the runner, the sinks, the jobs and the scripts really stop.

### Fairness

Ingest: the event loop runs a task that is ready, and dials, requests and
sleeps end one way or the other (they have timeouts). Nothing is assumed of the
venue, disconnections, the lifetime timer or signals. Kinesis: a call into the
sink goes on until it returns or raises. Feeds: the schedule keeps starting
merges; nothing is assumed of polls. Console: a waiting job polls again; Athena
need never finish. Kafka: the main task and each runner get their turns; nothing
is assumed of readers, of signals or of the broker. All of it
is weak fairness.

## Proofs

Every theorem is for arbitrary constants that satisfy the named assumptions of
the modules: positive sizes, caps and bounds; for `Backfill`, that months
partition the days; for `Provisioning`, a replication factor above one
(`ReplicationAssumption`, the default of `create_topics.py` that `bootstrap.sh`
keeps: at one, `min.insync.replicas` would equal the number of replicas); for `Lakehouse`, the column types of the Avro schema
(`RecordsAssumption`); for `Producers` and `PerpContext`, that lists are lists
(`ListsAssumption`, `PerpAssumption`); for the readers, that a symbol hashes to a
partition and bars have a length (`StreamInputs`, `MinuteAssumption`); for the
notebook, that its lower thresholds are below its upper ones (`ResearchBounds`);
for `Bars`, positive prices and sizes that are not negative (`BarInputs`); for
`Dashboard`, what the SQL groups by (`DashInputs`). TLC evaluates all of them. The initial
number of trades, records, polls or incidents is a bound of the runs only. Each
invariant below was checked by TLC on its run's instance before it was proved.

Ingest (`IngestProofs`):

- `TypeCorrect`, `TradesAccounted`. `AccountedFor` alone is not inductive: when a
  row is read one has to know that its number is above the watermark and is its
  trade id, or a skipped number would fall between gap and stream. `WireAhead`
  says so, and the pair with `TypeOK` is inductive.
- `ReceivedNeverLost` follows a received trade through each action: pump's hand
  (the trade it is blocked on or a later one of the frame), queue, a repair, the
  sink. The lemmas say what `Append`, `Head` and `Tail` do to
  the set of numbers in a queue.
- `GapsAllDetected` needs that numbers only move forward (`WireOrdered`): what was
  observed is at or below the watermark, then come the rows that wait, in order,
  then the venue's newest number, also where a reset starts them again. A step of
  the watermark then skips exactly the numbers that the new repair task is given.
- `SinkSeesOnceInOrder` (`LineInv`): gaps lie behind the watermark, no two overlap
  and no observed number lies in one; whatever is queued or produced is an
  observed number or was put by a repair task that has gone past it; and the trade
  the pump is blocked on is newer than every live one ahead of it.

Sinks (`KinesisSinkProofs`, `KafkaStackProofs`):

- `SinkLosesNothingSilently`, `SinkTypes`, `SinkKeepsPromise`. The invariant adds
  to `LosesNothing` which phases have an empty `pending`. The third is the
  refinement: initial states map to initial states of `Sink`, and each action to
  a `Produce`, a `Service`, a flush step or a stutter. A produced record is
  outstanding until it lands or is dropped, which makes a `PutRecords` a
  `Service`.
- `SinkWithinCaps`. The byte sum is a fold over a set; its lemmas (a sum without
  an element, over disjoint sets, over a subset) are proved from the fold's
  recursion on finite sets. The loop of `_take_batch` then keeps the batch below
  both caps, and `poll` after each `produce` bounds the idle buffer. Those lemmas
  are in `Sums`, since readers and bars add up, too.
- `KafkaDeliversHonestly`, `KafkaImplementsSink`. `KafkaInv` says that the queue is
  in the order of production and that the log is behind everything queued that
  it lacks; without it an append could come out of order. It also says that a
  trade which left the queue is in the log or was reported, which gives
  `FailureHeard`, the count of `flush`, and the refinement of `Sink` with `Loud`
  false.
- `RateBound`. `BudgetInv` relates the tokens left now to what was granted in the
  window.

Tables (`MedallionProofs`, `BackfillProofs`, `FeedsProofs`, `KafkaStackProofs`):

- `SilverHasOneRow`, `GoldKeepsTrades`, `MedallionTypes`. The second needs that a
  derived bar never holds more of a trade than Silver does, so a rebuild can only
  add.
- `ExecutionDropsNothing`, `GoldFollowsSilver` (`ExecutionInv`): once a branch has
  committed, each due row valid at `silverAt` is in Silver, or each one invalid at
  `quarAt` is in quarantine, and no other writer takes it out again; what the
  Silver merge accepted stays stored until the Gold merge rebuilds its bar.
- `PlansAreExact`, `ResumeLeavesNothingOut`, `DoneIsAccountedFor`,
  `ManifestFollowsFetches`. `BackfillInv` relates the three places a fetch leaves
  traces: the outcomes a running execution merges are its map's results, a DONE
  result is staged while its execution lasts, and what an execution may take DONE
  away from is what it was fetching. A plan made beside it that trusted such a DONE
  is what `doubtful` keeps.
- `PerpRowsHonest`, `PerpKeepsEarliest`, `PerpTypes`. Readings lag no more than
  allowed from the moment they are taken: the invariant is about the readings of a running
  poll, against the clock, and becomes the row's when it is written. Grid points
  are remainders, so the lemmas first say what `%` is.
- `MacroAnswersInTime`, `MacroTypes`. `StoredInv` says that a stored value was shown
  on the day of its vintage and that no object shows it earlier; once merged, no
  first row is left to insert. An insert takes the least vintage of a value, and
  that there is a least one is proved by well-founded minimality.
- `LoadIsAllOrNothing`. That a file's numbers tell their unit is arithmetic
  (`UnitsTold`): an instant in `Instants` written in milliseconds or microseconds
  falls in that range alone, one in seconds or nanoseconds in neither. This rests
  on `EpochAssumption`: the ceiling is at most a thousand floors, which the code's
  two dates satisfy. `Parsed` then describes
  the rows by the prefix of lines read: the k-th row says what the k-th line that
  is not blank means, and one unit fits them all. The next line is accepted
  exactly if it fits, so the verdict at the end is the file's; and the fetched
  edition stays what it is when the archive publishes another.
- `ValidationIsSound`, `SilverHoldsTheLatest`. The lemma `Verdict` turns the
  predicates in three-valued logic into the plain statement what an acceptable
  record is. `LakeInv` describes each of the four tables by the prefix of its
  source that its flow has read, so that the two readers can be compared, and
  adds that a verdict does not depend on the time it is given for rows that are
  not dated in the future. Silver's part says which delivered fact it keeps.

Jobs and processes (`ConsoleProofs`, `KafkaStackProofs`):

- `JobsKeepTheirWord`. `JobFits` describes a job by its record: it has asked, once,
  for what it has come past and for nothing else; a DDL job has the tables before
  its position, a query job without a failure has its statements' successes, and a
  collector has published what it read. A query that was given up may still
  commit, so `HistoryInv` is about what each INSERT carried when it was sent.
- `StatementsAreTheFile`, for texts of any length. `SpanInv` says where the loop
  is: at a position in code, inside a literal or inside a comment that begins at
  one, whose end is the next position in code. `ExactInv` then describes the
  statements so far as the reference's parts below the position, in order, and
  `CurrentInv` the statement being read as text without comments and without
  semicolons in code. On the second reading (`AgainInv`) the loop is inside one
  of the first one's statements, in the mode that reading it alone would give.
- `ProvisioningIsSound`. The invariant says for each step of `bootstrap.sh` what is
  true after it (ACLs complete before enforcement, the endpoint of this build
  before the secret) unless a wipe came between, after which there is no state to
  apply to. An output of Terraform that names brokers names those of the build
  that exists: this is why the target `terraform` cannot go stale.
- `ProcessIsSound`. A runner that returned had flushed, and a flushed drain of the
  native entry has an empty buffer, so the counts add up; a drain is cancelled
  only when the process exits, which a drain that died makes it do. The universe's
  dictionary keeps its last entry for a symbol, which exists and is one.

Readers, notebook, bars and page (`KafkaStackProofs`, `ConsoleProofs`):

- `TapeOfTheTopic`. The invariant relates what was taken to the topic: between
  where a partition was assigned and the position, each retained message is a
  record or was junk, records carry the offset they lay at, and within a partition
  a later record has a higher one (`ReadInv`). A symbol stays in its partition, so
  a copy of a number that a gap calls missing could only lie after the record that
  revealed the gap, however the partitions interleave. That the tape counts each trade once
  and equals its venues' bars together is the sum of a sum over the groups of a
  partition of the rows (`Sums`).
- `ReadersTrue`. A sample from the end starts at the length at opening or later,
  also after a position has aged out. Every committed offset of the example is a
  position it has reached, and what lies below a position was handled or has
  expired, through every kill between a message and its commit; so a lag counts
  every retained message that was not handled. The vwap of a window with volume
  lies between its prices, since each notional does, times its size.
- `ResearchTrue`. Over the same invariant, each table of notebook 04 is a
  partition of one set of rows. A quantile is the value of a rank, and ranks rise;
  the 99th percentile has at most one row in a hundred above it. That the copies
  of a trade agree needs `NumbersInv`: trade ids are those the venue has given out,
  and two messages with one natural key are copies of one trade, whatever they
  were renumbered to. The imbalance is a quotient exactly if something was bought
  or sold for an amount.
- `GrainsCompose`. A measure of bars is a sum of sums over a partition of the
  trades, or a maximum of maxima; the vwap lies between the extremes because
  each trade's notional does, times its size. That sums over groups are the sum
  is proved for any finite partition, so the number of minutes is not bounded.
- `PageIsHonest`. `DashInv` says that each answer is one the query may give, that
  the results are its first page, or empty if it failed, and that the page is built from exactly those. The rest is
  about one page: which blocks of a kind it has, what a panel plots, the order of
  the tile's thresholds, rates of a day, and arithmetic of the bars' positions, for
  up to 33 days and any counts. Labels differ because at eight decimals nothing of
  a quarter is lost, so the least number of decimals that suffices exists.

Induction over data is first-order here: minimality in a well-founded order
(`NatLessThanWellFounded`, the strict subsets of a finite set) takes the place of
the induction theorems that have an operator as a parameter. Modules with
theorems write an update of a function's domain as a function constructor,
because the prover has no rules for `@@` and `:>`, and `"none"` where one might
write an empty string.

Only model-checked:

- the liveness properties (`RepairsFinish`, `StopTerminates`, `FlushEnds`, `ReachesSilver`,
  `JobsEnd`, `StopEnds`), since the prover does not reach `ENABLED`
  and fairness. Every safety property of the passing runs has a theorem.

## Findings

Refuted by a run:

- `ingest_cancelled_put`: the watermark moves before the `put`, so a session that
  ends while the pump is blocked loses a trade no gap will ever name, and with it
  the trades that follow in its frame.
- `medallion_aged`: a stream row already in Silver fails the 24-hour bound on
  the next day while it is still in the Bronze window, and enters quarantine too.
- `silver_key`: the Databricks Silver key is venue and trade id, and Binance
  counts trades per symbol, so one symbol's trade replaces another's.

Met while modelling, visible in a definition, and left to the reader:

- The drain can leave before the repairs `run` waits for have queued their
  trades (`runner.py:71`; `tests/test_runner.py:210-215` expects them).
- After a partial failure, records of one key land out of order on Kinesis
  (`sink.py:131`, `models.py:38`).
- The manifest records DONE before the tier merge, so a failed merge is skipped
  by every resume (`render.py:82`, `backfill/manifest.py:167-170`).
- A later run's FAILED replaces DONE (`merge_manifest_outcomes.sql:15-20`), so a
  `--fresh` run over good files can lose their status; a plan made while it runs
  may have trusted it.
- `awsnative/cli.py:65-66` says a throttled retry never stalls the other venue's
  drain; the retry uses `time.sleep` on the shared event loop.
- The Kafka entry point exits 0 with trades undelivered: `drain` drops the number
  `flush(10.0)` returns (`runner.py:79`), and a delivery that failed is a log line
  (`producer.py:59-61`). Only the native entry's 0 means that all was sent.
- A drain that dies is noticed only at stop, and `gather` then cancels the other
  venue before it flushes. A `BufferError` ends the drain.
- `.env` keys of the native settings stop the Kafka producer, whose settings
  forbid unknown keys.
- Two flows evaluate `trades_validated` at different moments: a row dated in the
  future can land in both tables or neither. `IMMUTABILITY_SQL` over Silver, which
  has one row per key, can never return one.
- A macro value that reverts to an earlier one is not inserted again, and a
  vintage pulled again after its merge changes nothing. A perp row's
  `knowledge_ts` is the start of the poll; a zero `next_funding_time` becomes
  1970-01-01 (`perp.py:216`). A ratio may be older than the grid point its row is
  filed under (`snapshot_ts_us`), by a period and the venue's lag.
- A tail bounded only by a count never ends on a quiet topic. A rate of zero may
  mean only that the assignment took longer than the sample. A capture in which
  nothing was bought or sold (all sides UNKNOWN, or sizes of 0) fails notebook 04's
  own last assert.
- Duplicates need no repair: a Coinbase subscription opens with a snapshot that
  `parse` marks STREAM (`coinbase.py:54-57`). The recorded output of notebook 04
  agrees: 13,785 duplicates and 37,005 falls of event time against 1,400 rows of
  REST_REPAIR, and no conflict.
- Statements that `query.py` has timed out on may overlap the next ones.
- Dashboard: `fetch_rows` reads one page, because "the verification queries all
  LIMIT themselves" (`athena.py:159-160`); `04_perp_context.sql` does not, and lists
  the oldest first. Seven days of five-minute readings are 2,016 rows, so the charts
  end after the first 999 and the table captioned as the last 40 shows the last 40
  of those.
- Dashboard: more than three layers raise and lose the page; an axis that reaches
  a billion may label two rules alike, since eight decimals of a billion are tens;
  rate bars have no width from 40 days and grouped bars leave the plot beyond 33
  (`MostDays`); the quarantine rate has no table view.
- After a rebuild of the cluster, `.env` of target `msk` is stale.
  `bootstrap.sh:80-86` swallows a failed lookup of the public endpoint and walks a
  public cluster through the permissive phase again, which its own comment (24-31)
  says is refused: the apply may close the cluster and then fail.

The passing properties carve out the following. A gap longer than a REST page is
repaired in part (`PastBatch`). A Coinbase outage is not repaired, because the
tracker is replaced (`AccountedFor` is about venues that keep their numbers). A
failed repair is never retried (`RepairFailed`). The refused records of an
exhausted batch are in no buffer (`dropped`). Two merges that evaluate validity at
different instants can both reject a row (`SameVerdict`). A Gold merge that runs
after midnight reads a later window than the Silver merge before it (`due`). A
Lambda of a failed execution can stage a file into the next one (`strays`), and
files a failed execution recorded as DONE stay unmerged (`orphans`). A row dated in
the future is excepted from the routing of the lakehouse (`RoutedOnce`), a reverted
or overwritten macro reading from as-of reads. The topic of the readers is bounded,
so that no run shows what a read makes of one that never falls quiet.

## Not modelled

- The overlap guard of `infra/modules/native_medallion/main.tf` and Iceberg's
  optimistic commits: `Medallion` assumes one execution at a time.
- DROP_OLDEST of the queue (no topic with a producer uses it), the values of
  backoff delays, field mapping of a trade, Avro bytes.
- Notebooks 00 to 03 beyond the `devlab` calls they make, their recorded
  outputs, and of 04 the lead-lag correlations and the plots; `devlab`'s
  dataclass-to-frame helper and `end_freshness`. Correlations are real-valued
  statistics of one capture.
- Wording, CSS and layout of the page, printed tables, and the infrastructure
  code apart from the order of its commands.

`PROJECT.json` lists each with its reason.

## Plan

1. The overlap guard (executions of two schedules that count themselves) with
   Iceberg's optimistic commits, replacing Medallion's assumption.
2. An abstract insert-once table that `Medallion` and `Backfill` implement.
