----------------------------- MODULE PerpContext -----------------------------
(***************************************************************************)
(* Perpetual context (enrichment/collect.py PerpCollector, enrichment/     *)
(* perp.py, sql/merge_silver_perp_context.sql): invocations of the poll    *)
(* fetch one endpoint after another while time passes, write one Bronze    *)
(* object each, and a merge copies the window into Silver.                 *)
(*                                                                         *)
(* Time is in the venue's milliseconds, our instants in microseconds.  A   *)
(* reading is represented by its own instant, the thing that makes it      *)
(* right or wrong for a grid point.                                        *)
(***************************************************************************)
EXTENDS Integers, Sequences, SequencesExt, FiniteSets

CONSTANTS
  Pairs,      \* the instruments polled, in order
  Families,   \* RATIO_FAMILIES
  GridMs,     \* GRID_MINUTES
  MaxPollMs,  \* the Lambda's timeout
  LagMs,      \* how far behind its own clock the venue answers (external)
  DayMs,      \* a day: ingest_date is the UTC day of the poll
  Lookback,   \* lookback_days of the merge
  MaxMs,      \* bound: the clock
  MaxPolls    \* bound: invocations

ASSUME PerpAssumption ==
  /\ {GridMs, MaxPollMs, DayMs, Lookback, MaxMs, MaxPolls} \subseteq Nat \ {0}
  /\ LagMs \in Nat
  /\ Pairs \in Seq(Range(Pairs)) /\ Len(Pairs) > 0

VARIABLES
  now,       \* the wall clock
  polls,     \* invocations so far, running ones included
  running,   \* invocations: what each has collected, and the next request
  answered,  \* {<<poll instant, instrument>>} premiumIndex named, of polls that ended
  bronze,    \* rows of bronze_perp_context
  silver     \* rows of silver_perp_context

perpVars == <<now, polls, running, answered, bronze, silver>>

Instruments == Range(Pairs)

None == -1            \* no answer; an empty string in Bronze, NULL in Silver
MicrosPerMilli == 1000

MillisToMicros(v) == IF v = None THEN 0 ELSE v * MicrosPerMilli

FloorToGrid(us) == us - (us % (GridMs * MicrosPerMilli))

\* Instants of their own that premiumIndex and openInterest may answer with.
Stamps(ms) == {m \in 1..ms : ms <= m + LagMs}

\* Points of its own grid that a ratio endpoint may have as its newest.
Newest(ms) == {g \in 0..ms : g % GridMs = 0 /\ ms < g + GridMs + LagMs}

\* A ratio endpoint answers its last two points, oldest first, or is unavailable.
RatioAnswers(ms) ==
  {IF g >= GridMs THEN <<g - GridMs, g>> ELSE <<g>> : g \in Newest(ms)} \cup {<<>>}

\* RatioObservation.from_payload, of its own instant.
FromPayload(row) == row * MicrosPerMilli

Latest_First(payload) == IF payload = <<>> THEN None ELSE FromPayload(Head(payload))

\* _latest: the most recent row, or absent.
Latest(payload) == IF payload = <<>> THEN None ELSE FromPayload(Last(payload))

Micros == 0 .. MaxMs * MicrosPerMilli

\* PerpContext, the Bronze row.
PerpRow ==
  [inst : Instruments, poll : Micros, snap : Micros, mark : Micros, oi : Micros,
   ratio : [Families -> Micros \cup {None}]]

\* PerpCollector in the middle of a collect.
Collecting ==
  [ts : 1..MaxMs, step : 0 .. Len(Pairs) + 1, mark : 0..MaxMs, named : SUBSET Instruments,
   oi : [Instruments -> 0..MaxMs \cup {None}],
   ratio : [Instruments -> [Families -> Seq(0..MaxMs)]]]

PerpTypeOK ==
  /\ now \in 1..MaxMs /\ polls \in 0..MaxPolls
  /\ running \subseteq Collecting
  /\ answered \subseteq Micros \X Instruments
  /\ bronze \subseteq PerpRow /\ silver \subseteq PerpRow

PerpInit ==
  /\ now = 1 /\ polls = 0 /\ running = {}
  /\ answered = {} /\ bronze = {} /\ silver = {}
-----------------------------------------------------------------------------
\* perp_handler takes the poll instant before the first request.  The schedule
\* may deliver an invocation twice, and a failed one is invoked again.
Invoke ==
  /\ polls < MaxPolls /\ polls' = polls + 1
  /\ running' = running \cup
       {[ts |-> now, step |-> 0, mark |-> 0, named |-> {},
         oi |-> [i \in Instruments |-> None],
         ratio |-> [i \in Instruments |-> [f \in Families |-> <<>>]]]}
  /\ UNCHANGED <<now, answered, bronze, silver>>

\* The first request, premiumIndex: it names the instruments of S, none of them
\* when the endpoint is unavailable, and says what instant they are of.
PremiumIndex(p, S, time) ==
  /\ p \in running /\ p.step = 0
  /\ running' = (running \ {p}) \cup {[p EXCEPT !.step = 1, !.named = S, !.mark = time]}
  /\ UNCHANGED <<now, polls, answered, bronze, silver>>

\* The requests for the next instrument: openInterest, then every ratio family.
Symbol(p, interest, answers) ==
  /\ p \in running /\ p.step \in 1..Len(Pairs)
  /\ LET i == Pairs[p.step]
     IN running' = (running \ {p}) \cup
          {[p EXCEPT !.step = p.step + 1,
                     !.oi[i] = interest,
                     !.ratio[i] = answers]}
  /\ UNCHANGED <<now, polls, answered, bronze, silver>>

\* build_rows: an instrument premiumIndex did not name has no row; every other
\* family degrades to empty.
BuildRows(p) ==
  {[inst |-> i, poll |-> MillisToMicros(p.ts),
    snap |-> FloorToGrid(MillisToMicros(p.ts)),
    mark |-> MillisToMicros(p.mark),
    oi |-> MillisToMicros(p.oi[i]),
    ratio |-> [f \in Families |-> Latest(p.ratio[i][f])]] : i \in p.named}

\* collect ends by putting the object, whose key is the poll instant.
Put(p) ==
  /\ p \in running /\ p.step = Len(Pairs) + 1
  /\ bronze' = {r \in bronze : r.poll # MillisToMicros(p.ts)} \cup BuildRows(p)
  /\ answered' = {a \in answered : a[1] # MillisToMicros(p.ts)}
                    \cup ({MillisToMicros(p.ts)} \X p.named)
  /\ running' = running \ {p}
  /\ UNCHANGED <<now, polls, silver>>

\* An error _http_fetch does not map, a refused put, or the Lambda's timeout:
\* the poll leaves nothing.
Dies(p) ==
  /\ p \in running
  /\ running' = running \ {p}
  /\ UNCHANGED <<now, polls, answered, bronze, silver>>

\* No invocation outlives its timeout.
Tick ==
  /\ now < MaxMs
  /\ \A p \in running : now < p.ts + MaxPollMs
  /\ now' = now + 1
  /\ UNCHANGED <<polls, running, answered, bronze, silver>>

\* The merge ordered by the latest poll.
FirstPolls_Latest(rows) ==
  {r \in rows : \A q \in rows : q.inst = r.inst /\ q.snap = r.snap => q.poll <= r.poll}

\* rn = 1: the earliest poll of an instrument's grid point.
FirstPolls(rows) ==
  {r \in rows : \A q \in rows : q.inst = r.inst /\ q.snap = r.snap => r.poll <= q.poll}

\* A window on the wrong side of the clock.
Window_Narrow == {r \in bronze : r.poll > MillisToMicros(now)}

\* perp_key: the partition of a poll.
IngestDate(us) == us \div (DayMs * MicrosPerMilli)

InWindow(r) == IngestDate(r.poll) >= IngestDate(MillisToMicros(now)) - Lookback

Window == {r \in bronze : InWindow(r)}

SameGrid(r, t) == r.inst = t.inst /\ r.snap = t.snap

\* ON instrument_id and snapshot_ts_us; nothing is updated.
NotMatched(r) == ~ \E t \in silver : SameGrid(r, t)

\* The merge statement.  Its state machine lets one execution at a time through
\* and retries a failed statement, which has changed nothing.
MergePerp ==
  /\ silver' = silver \cup {r \in FirstPolls(Window) : NotMatched(r)}
  /\ UNCHANGED <<now, polls, running, answered, bronze>>

Fetch(p) ==
  \/ \E S \in SUBSET Instruments, time \in Stamps(now) : PremiumIndex(p, S, time)
  \/ \E interest \in Stamps(now) \cup {None}, answers \in [Families -> RatioAnswers(now)] :
       Symbol(p, interest, answers)

PerpNext ==
  \/ Invoke \/ Tick \/ MergePerp
  \/ \E p \in running : Fetch(p) \/ Put(p) \/ Dies(p)

PerpSpec == PerpInit /\ [][PerpNext]_perpVars

\* The schedule keeps starting merges; nothing says a poll succeeds.
PerpFairness == WF_perpVars(MergePerp)
-----------------------------------------------------------------------------
\* One endpoint that does not answer degrades its own family (_json,
\* build_rows): an object holds a row for exactly the instruments premiumIndex
\* named, and an empty reading never turns into an instant or the reverse.
DegradesAlone ==
  /\ {<<r.poll, r.inst>> : r \in bronze} = answered
  /\ \A r \in bronze, f \in Families :
       r.ratio[f] # None => r.ratio[f] % (GridMs * MicrosPerMilli) = 0

\* At most `age` old when the poll began, and read by the end of the invocation.
ReadFor(us, r, age) ==
  /\ r.poll < us + age * MicrosPerMilli
  /\ us <= r.poll + MaxPollMs * MicrosPerMilli

\* What point-in-time reads may rely on.  A row belongs to the grid point its
\* poll falls in.  Its readings carry instants of their own (perp.py, "each family
\* keeps its own timestamp"): with a venue that lags they may be older than
\* that grid point, but by no more than the lag, and by a ratio's period on top
\* of it (_latest), and none is more than one invocation past the poll
\* instant, which is what knowledge_ts_us claims for all of them.
KnowledgeBounded ==
  \A r \in bronze \cup silver :
    /\ r.snap <= r.poll /\ r.poll < r.snap + GridMs * MicrosPerMilli
    /\ ReadFor(r.mark, r, LagMs + 1)
    /\ r.oi # 0 => ReadFor(r.oi, r, LagMs + 1)
    /\ \A f \in Families : r.ratio[f] # None => ReadFor(r.ratio[f], r, GridMs + LagMs)

\* A poll leaves honest rows (PerpCollector.collect, build_rows): complete where an
\* endpoint answered, empty where it did not, and no further from their poll than
\* the invocation and the venue's lag allow.
RowsHonest == DegradesAlone /\ KnowledgeBounded

\* The earliest poll is kept: a merge never stores a poll of a grid point when
\* Bronze's window holds an earlier one, it never replaces a stored row, and
\* overlapping windows leave one row per instrument and grid point.
EarliestPollKept ==
  [][ /\ silver \subseteq silver'
      /\ \A r, t \in silver' : SameGrid(r, t) => r = t
      /\ \A t \in silver' \ silver, r \in bronze :
           SameGrid(r, t) /\ InWindow(r) => t.poll <= r.poll ]_perpVars

\* A grid point Bronze holds reaches Silver, unless no merge ran before the
\* window left it behind.
ReachesSilver ==
  \A i \in Instruments, g \in 0 .. MaxMs \div GridMs :
    LET at == [inst |-> i, snap |-> g * GridMs * MicrosPerMilli]
    IN (\E r \in bronze : SameGrid(r, at))
         ~> \/ \E t \in silver : SameGrid(t, at)
            \/ \A r \in bronze : SameGrid(r, at) => ~InWindow(r)
=============================================================================
