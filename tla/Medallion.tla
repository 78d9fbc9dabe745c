------------------------------ MODULE Medallion ------------------------------
(***************************************************************************)
(* The micro-batch (infra/modules/native_medallion) and the merges it runs *)
(* over Bronze, Silver, quarantine and Gold (awsnative/sql), with the two  *)
(* archive merges that write the same tables.                              *)
(*                                                                         *)
(* One venue and one instrument.  Time is counted in ticks: a tick is a    *)
(* minute of the bars, DayLen of them make a day.  Trades are numbered in  *)
(* the order the producer ingested them; all copies of a trade carry the   *)
(* same event time, price and size.  A statement reads and commits in one  *)
(* step at one current_timestamp, and no two executions merge at once.     *)
(* A bar is abstracted to the trades it was aggregated from, each with the *)
(* number of Silver rows that held it: every column is a function of that. *)
(***************************************************************************)
EXTENDS Integers, FiniteSets

CONSTANTS
  NTrades,    \* trades that may reach Bronze
  EventTime,  \* event_ts_us of each, in ticks
  Unkeyed,    \* trades whose venue or trade_id was read as NULL
  Bad,        \* trades whose price or size is not a positive decimal
  DayLen,     \* ticks in a day
  Lookback,   \* lookback_days
  OldAge,     \* ticks in the 730 days of a row that is not STREAM
  Skew,       \* ticks in the minute an event may lie ahead
  Drift,      \* bound: ticks an event may lie ahead when it lands
  MaxTime,    \* bound: ticks
  MaxRows,    \* bound: rows in Bronze
  MaxCopies   \* bound: Silver rows of one unkeyed trade

Trades == 1..NTrades

ASSUME ConstantsAssumption ==
  /\ NTrades \in Nat /\ EventTime \in [Trades -> Nat]
  /\ Unkeyed \subseteq Trades /\ Bad \subseteq Trades
  /\ DayLen \in Nat \ {0} /\ Lookback \in Nat /\ OldAge \in Nat /\ DayLen <= OldAge
  /\ Skew \in Nat /\ Drift \in Nat /\ MaxTime \in Nat
  /\ MaxRows \in Nat /\ MaxCopies \in Nat

Keyed   == Trades \ Unkeyed
Minutes == {EventTime[t] : t \in Trades}
Tiers   == {"NONE", "ARCHIVE_KLINE", "DERIVED_FROM_TRADES"}

VARIABLES
  now,         \* current_timestamp
  bronze,      \* rows of bronze_trades_stream
  silver,      \* per trade, its rows in silver_trades
  quarantine,  \* trades with a row in silver_trades_quarantine
  gold,        \* per minute, its bar in gold_bars_1m
  phase,       \* the state of the running execution, "idle" when there is none
  todo,        \* branches of SilverAndQuarantine that have not ended
  \* history, read by the properties only
  due,         \* Bronze rows every merge of this execution so far had in its window
  read,        \* Bronze rows the Silver merge of this execution accepted
  silverAt,    \* current_timestamp of the Silver merge of this execution
  quarAt       \* and of its quarantine merge

history == <<due, read, silverAt, quarAt>>
vars == <<now, bronze, silver, quarantine, gold, phase, todo, due, read, silverAt, quarAt>>

Row == [trade : Trades, src : {"STREAM", "REST_REPAIR"}, date : Nat]
Bar == [tier : Tiers, from : [Trades -> Nat]]

Empty == [t \in Trades |-> 0]
NoBar == [tier |-> "NONE", from |-> Empty]

TypeOK ==
  /\ now \in Nat
  /\ bronze \subseteq Row
  /\ silver \in [Trades -> Nat]
  /\ quarantine \subseteq Trades
  /\ gold \in [Minutes -> Bar]
  /\ phase \in {"idle", "merging", "gold", "tail"}
  /\ todo \subseteq {"silver", "quarantine"}
  /\ due \subseteq bronze /\ read \subseteq bronze
  /\ silverAt \in Nat /\ quarAt \in Nat

Init ==
  /\ now = 0 /\ bronze = {} /\ silver = Empty /\ quarantine = {}
  /\ gold = [m \in Minutes |-> NoBar]
  /\ phase = "idle" /\ todo = {}
  /\ due = {} /\ read = {} /\ silverAt = 0 /\ quarAt = 0

Day(t) == t \div DayLen
-----------------------------------------------------------------------------
Tick ==
  /\ now < MaxTime
  /\ now' = now + 1
  /\ UNCHANGED <<bronze, silver, quarantine, gold, phase, todo, history>>

\* Firehose delivers a copy of a trade into today's prefix (external).
Land(t, s) ==
  /\ EventTime[t] <= now + Drift /\ Cardinality(bronze) < MaxRows
  /\ bronze' = bronze \cup {[trade |-> t, src |-> s, date |-> Day(now)]}
  /\ UNCHANGED <<now, silver, quarantine, gold, phase, todo, history>>

\* The rows a statement reads: today's partitions and lookback_days before.
Window == {b \in bronze : b.date >= Day(now) - Lookback}

\* fragments/valid_trade.sql, at time u.
Valid(b, u) ==
  /\ b.trade \notin Bad
  /\ EventTime[b.trade] >= u - (IF b.src = "STREAM" THEN DayLen ELSE OldAge)
  /\ EventTime[b.trade] <= u + Skew

\* row_number() = 1 over (venue, trade_id): one row per key, and the earliest of
\* all rows whose key is NULL.
FirstOfKey(S) ==
  LET ts == {b.trade : b \in S}
  IN  (ts \cap Keyed) \cup {u \in ts \cap Unkeyed : \A v \in ts \cap Unkeyed : u <= v}

\* A schedule tick whose execution finds itself alone (CountRunningExecutions).
StartExecution ==
  /\ phase = "idle"
  /\ phase' = "merging" /\ todo' = {"silver", "quarantine"}
  /\ due' = bronze /\ read' = {}
  /\ UNCHANGED <<now, bronze, silver, quarantine, gold, silverAt, quarAt>>

\* A branch or a state ends, or its query committed and is run again: the retry
\* of a task that failed or timed out after the commit.
BranchEnds(b) ==
  /\ todo' \in {todo, todo \ {b}}
  /\ phase' = IF todo' = {} THEN "gold" ELSE phase

\* MERGE that inserts without looking for the key.
Inserted_Always(src) ==
  [t \in Trades |-> IF t \in src THEN silver[t] + 1 ELSE silver[t]]

\* WHEN NOT MATCHED THEN INSERT; a NULL key matches nothing.
Inserted(src) ==
  [t \in Trades |-> IF t \in src /\ (t \in Unkeyed \/ silver[t] = 0)
                    THEN silver[t] + 1 ELSE silver[t]]

\* merge_silver_trades.sql
MergeSilver ==
  /\ phase = "merging" /\ "silver" \in todo
  /\ \A t \in Unkeyed : silver[t] < MaxCopies
  /\ silver' = Inserted(FirstOfKey({b \in Window : Valid(b, now)}))
  /\ BranchEnds("silver")
  /\ due' = due \cap Window /\ silverAt' = now
  /\ read' = {b \in Window : Valid(b, now)}
  /\ UNCHANGED <<now, bronze, quarantine, gold, quarAt>>

\* The rejected rows without the COALESCE: a NULL comparison rejects the row here
\* too.
Rejected_NoCoalesce == {b \in Window : b.trade \notin Bad /\ ~Valid(b, now)}

\* NOT COALESCE(valid_expr, false)
Rejected == {b \in Window : ~Valid(b, now)}

\* merge_silver_quarantine.sql; row_key hashes the content, NULLs included.
MergeQuarantine ==
  /\ phase = "merging" /\ "quarantine" \in todo
  /\ quarantine' = quarantine \cup FirstOfKey(Rejected)
  /\ BranchEnds("quarantine")
  /\ due' = due \cap Window /\ quarAt' = now
  /\ UNCHANGED <<now, bronze, silver, gold, read, silverAt>>

\* What Silver holds of a minute.
BarOf(m) == [tier |-> "DERIVED_FROM_TRADES",
             from |-> [t \in Trades |-> IF EventTime[t] = m THEN silver[t] ELSE 0]]

\* The days of the rows that arrived today.
Dirty_TodayOnly == {Day(EventTime[b.trade]) : b \in {c \in bronze : c.date = Day(now)}}

\* fragments/dirty_from_bronze.sql
Dirty == {Day(EventTime[b.trade]) : b \in Window}

\* merge_gold_bars_1m.sql: every bar of a dirty day, from all of Silver.
MergeGold ==
  /\ phase = "gold"
  /\ gold' = [m \in Minutes |-> IF Day(m) \in Dirty /\ BarOf(m).from # Empty
                                THEN BarOf(m) ELSE gold[m]]
  /\ phase' \in {"gold", "tail"}
  /\ due' = due \cap Window
  /\ UNCHANGED <<now, bronze, silver, quarantine, todo, read, silverAt, quarAt>>

Forget == due' = {} /\ read' = {} /\ silverAt' = 0 /\ quarAt' = 0

\* OPTIMIZE, VACUUM and the health metrics change no row; the execution ends.
ExecutionEnds ==
  /\ phase = "tail"
  /\ phase' = "idle"
  /\ Forget
  /\ UNCHANGED <<now, bronze, silver, quarantine, gold, todo>>

\* A task is out of retries: the execution fails where it is, and the other
\* branch with it.
ExecutionFails ==
  /\ phase \in {"merging", "gold"}
  /\ phase' = "idle" /\ todo' = {}
  /\ Forget
  /\ UNCHANGED <<now, bronze, silver, quarantine, gold>>

\* merge_silver_from_archive.sql, for a staged aggTrades file: one published day.
MergeSilverArchive(d) ==
  /\ d < Day(now)
  /\ silver' = Inserted({t \in Keyed \ Bad : Day(EventTime[t]) = d})
  /\ UNCHANGED <<now, bronze, quarantine, gold, phase, todo, history>>

Kline(m) == [tier |-> "ARCHIVE_KLINE",
             from |-> [t \in Trades |-> IF EventTime[t] = m /\ t \notin Bad THEN 1 ELSE 0]]

\* Klines over whatever Gold holds.
Keeps_Nothing(m) == FALSE

\* The fidelity guard.
Keeps(m) == gold[m].tier = "DERIVED_FROM_TRADES"

\* merge_gold_from_archive.sql, for a staged klines file: one published day.
MergeGoldArchive(d) ==
  /\ d < Day(now)
  /\ gold' = [m \in Minutes |-> IF Day(m) = d /\ ~Keeps(m) THEN Kline(m) ELSE gold[m]]
  /\ UNCHANGED <<now, bronze, silver, quarantine, phase, todo, history>>

Next ==
  \/ Tick
  \/ \E t \in Trades, s \in {"STREAM", "REST_REPAIR"} : Land(t, s)
  \/ StartExecution \/ MergeSilver \/ MergeQuarantine \/ MergeGold
  \/ ExecutionEnds \/ ExecutionFails
  \/ \E d \in {Day(m) : m \in Minutes} : MergeSilverArchive(d) \/ MergeGoldArchive(d)

Spec == Init /\ [][Next]_vars
-----------------------------------------------------------------------------
\* A keyed trade has one Silver row, however often windows overlap, statements
\* are run again, repairs repeat the stream and archives repeat both
\* (merge_silver_trades.sql, merge_silver_from_archive.sql).
SilverUnique == \A t \in Keyed : silver[t] <= 1

Accounted(t) == silver[t] > 0 \/ t \in quarantine

\* The two branches decided the row alike.
SameVerdict(b) == Valid(b, silverAt) <=> Valid(b, quarAt)

\* No silent drop (valid_trade.sql, verify_silver_gold.sql query 3): once both
\* branches of an execution have ended, every keyed row that was in Bronze when
\* it started and in the window of both is in Silver or in quarantine, unless
\* its validity changed between the two statements.
NothingDropped ==
  phase \in {"gold", "tail"} =>
    \A b \in due : b.trade \in Keyed /\ SameVerdict(b) => Accounted(b.trade)

\* Gold follows Silver (dirty_from_bronze.sql, merge_gold_bars_1m.sql): when an
\* execution has rebuilt Gold, the bar of every row its Silver merge accepted
\* and its Gold merge still had in its window holds that trade as Silver does.
GoldFollows ==
  phase = "tail" =>
    \A b \in due \cap read :
      LET t == b.trade
      IN  t \in Keyed => gold[EventTime[t]].tier = "DERIVED_FROM_TRADES"
                         /\ gold[EventTime[t]].from[t] = silver[t]

Derived(m) == gold[m].tier = "DERIVED_FROM_TRADES"

\* Fidelity (merge_gold_from_archive.sql's guard, merge_gold_bars_1m.sql): a bar
\* derived from trades is never replaced by a kline and never loses a trade.
GoldMonotone ==
  [][\A m \in Minutes : Derived(m) =>
       /\ Derived(m)'
       /\ \A t \in Trades : gold[m].from[t] <= gold'[m].from[t]]_vars
=============================================================================
