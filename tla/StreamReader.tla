----------------------------- MODULE StreamReader -----------------------------
(***************************************************************************)
(* The readers of the trade topic: tail, collect and rate of the notebooks *)
(* (src/devlab/stream.py, health.py), the smoke test and the rolling-VWAP  *)
(* example (src/scripts).  All three poll a consumer in a loop; they       *)
(* differ in what bounds the loop, in what an error does to it, and in     *)
(* where they start.  The broker, its retention, the consumer's offsets    *)
(* and its automatic commits are external.                                 *)
(***************************************************************************)
EXTENDS Frames

CONSTANTS Streams,       \* [venue, venue_symbol, instrument_id]
          Home,          \* symbol -> the partition its key hashes to
          Deals,         \* what a trade may be: [lead, size, side]
          TailOptions,   \* what a notebook asks for: [limit, seconds, reset]
          MinMessages,   \* of the smoke test
          SmokeSeconds,
          Window,        \* trades of a rolling window of the example
          Junk,          \* a value that is no trade
          MaxLog,        \* bound: messages and missed trades
          MaxExpired,    \* bound: messages that retention removes
          MaxRestarts    \* bound: runs of the example

Partitions == 1..2
ASSUME StreamInputs ==
  /\ \A s \in Streams : Home[s.venue_symbol] \in Partitions
  /\ Deals \subseteq [lead : Nat, size : Nat, side : {"BUY", "SELL", "UNKNOWN"}]
  /\ \A o \in TailOptions : o.reset \in {"earliest", "latest"}
  /\ MinMessages \in Nat /\ Window \in Nat \ {0}

VARIABLES parts,      \* partition -> messages
          lowest,     \* partition -> first retained offset
          counters,   \* scope -> last sequence number of the venue
          missed,     \* trades that did not reach the topic, yet
          reach,      \* the broker: "up", "down" or "empty" (no topic)
          reader,     \* "idle", "tail", "smoke" or "example"
          asked,      \* its options
          began,      \* where it stood when its partitions were assigned
          pos,        \* next offset, <<>> before assignment
          taken,      \* decoded records
          elapsed,
          ended,      \* "reading" while it runs
          committed,  \* offsets of the example's group, {} for none
          handled,    \* what the example was ever given
          atOpen,     \* length of the partitions when the reader opened
          restarts

brokerVars == <<parts, lowest, counters, missed, reach>>
readerVars == <<reader, asked, began, pos, taken, elapsed, ended, committed, handled, atOpen, restarts>>
streamVars == <<brokerVars, readerVars>>

\* Trade.kafka_key: venue and symbol, so a symbol stays in one partition.
PartitionOf(s, n) == Home[s.venue_symbol]

Scope(s) == IF s.venue = "coinbase" THEN <<s.venue>> ELSE <<s.venue, s.venue_symbol>>
Written == Len(parts[1]) + Len(parts[2]) + Cardinality(missed)

StreamInit ==
  /\ parts = [p \in Partitions |-> <<>>] /\ lowest = [p \in Partitions |-> 1]
  /\ counters = [c \in {Scope(s) : s \in Streams} |-> 0] /\ missed = {}
  /\ reach \in {"up", "down", "empty"}
  /\ reader = "idle" /\ asked = [limit |-> {}, seconds |-> {}, reset |-> "latest"]
  /\ began = <<>> /\ pos = <<>> /\ taken = <<>> /\ elapsed = 0 /\ ended = "reading"
  /\ committed = [p \in Partitions |-> {}] /\ handled = {}
  /\ atOpen = [p \in Partitions |-> 0] /\ restarts = 0

-----------------------------------------------------------------------------
(* The topic. *)

Put(p, m) == parts' = [parts EXCEPT ![p] = Append(@, m)]

\* Coinbase's clock is ahead of ours, so that its trades seem to come early.
Receipt(venue, n) == IF venue = "coinbase" THEN n - 1 ELSE n + 1

\* The n-th trade of a venue, as it is sent: of no size perhaps, or of a side
\* the venue does not tell, and not in the order of event time (a Coinbase frame
\* has its latest trade first).
TradeSent(s, n, deal) ==
  [venue |-> s.venue, venue_symbol |-> s.venue_symbol, instrument_id |-> s.instrument_id,
   trade_id |-> n, sequence |-> n, event_ts |-> n + deal.lead, ingest_ts |-> Receipt(s.venue, n + deal.lead),
   price |-> n, size |-> deal.size, side |-> deal.side, source |-> "STREAM"]

\* The next trade of a venue reaches the topic, or is missed.
Arrives(s, deal, seen) ==
  /\ reach = "up" /\ Written < MaxLog
  /\ LET n == counters[Scope(s)] + 1
         m == TradeSent(s, n, deal)
     IN /\ counters' = [counters EXCEPT ![Scope(s)] = n]
        /\ IF seen THEN Put(PartitionOf(s, n), m) /\ UNCHANGED missed
           ELSE missed' = missed \cup {m} /\ UNCHANGED parts
  /\ UNCHANGED <<lowest, reach, readerVars>>

\* A trade sent again: its number is its own on Binance, the frame's on Coinbase,
\* and a repair there has none.
Renumbered(m, source) ==
  IF m.venue # "coinbase" THEN m.sequence
  ELSE IF source = "STREAM" THEN counters[Scope(m)] ELSE Unnumbered
Copy(m, source) ==
  [m EXCEPT !.source = source, !.sequence = Renumbered(m, source), !.ingest_ts = @ + 1]

\* The runner repairs a missed trade.  One that is in the topic comes again by
\* a repair too, or in the stream: Coinbase opens a subscription with a
\* snapshot of the last trades, and two producers may run.
Repaired(m) ==
  /\ m \in missed /\ missed' = missed \ {m}
  /\ Put(PartitionOf(m, m.trade_id), Copy(m, "REST_REPAIR"))
  /\ UNCHANGED <<lowest, counters, reach, readerVars>>
Sources == {"STREAM", "REST_REPAIR"}
Again(p, i, source) ==
  /\ Written < MaxLog /\ parts[p][i] # Junk
  /\ Put(p, Copy(parts[p][i], source))
  /\ UNCHANGED <<lowest, counters, missed, reach, readerVars>>
JunkArrives(p) ==
  /\ reach = "up" /\ Written < MaxLog /\ Put(p, Junk)
  /\ UNCHANGED <<lowest, counters, missed, reach, readerVars>>
Retention(p) ==
  /\ lowest[p] <= Len(parts[p]) /\ lowest[1] + lowest[2] < 2 + MaxExpired
  /\ lowest' = [lowest EXCEPT ![p] = @ + 1]
  /\ UNCHANGED <<parts, counters, missed, reach, readerVars>>

-----------------------------------------------------------------------------
(* Opening. *)

Opened(kind, options, outcome) ==
  /\ reader = "idle" /\ reader' = kind /\ asked' = options /\ ended' = outcome
  /\ taken' = <<>> /\ elapsed' = 0 /\ pos' = <<>> /\ began' = <<>>
  /\ atOpen' = [p \in Partitions |-> Len(parts[p])]
  /\ UNCHANGED <<brokerVars, committed, handled>>

\* An unbounded tail is refused; then the topic is looked up, so that neither
\* an absent broker nor an absent topic is polled for ever.
Unbounded(o) == (o.limit = {} /\ o.seconds = {}) \/ \E n \in o.limit : n <= 0
OpenTail(o) ==
  /\ Opened("tail", o, IF Unbounded(o) THEN "refused"
                       ELSE IF reach = "down" THEN "unavailable"
                       ELSE IF reach = "empty" THEN "missing" ELSE "reading")
  /\ UNCHANGED restarts

\* The smoke test looks nothing up and reads what arrives from now on.
SmokeOptions == [limit |-> {MinMessages}, seconds |-> {SmokeSeconds}, reset |-> "latest"]
OpenSmoke == Opened("smoke", SmokeOptions, "reading") /\ UNCHANGED restarts

OpenExample ==
  /\ restarts < MaxRestarts /\ restarts' = restarts + 1
  /\ Opened("example", [limit |-> {}, seconds |-> {}, reset |-> "earliest"], "reading")

-----------------------------------------------------------------------------
(* The loop. *)

Over == (\E n \in asked.limit : Len(taken) >= n) \/ (\E t \in asked.seconds : elapsed >= t)
Looping == reader # "idle" /\ ended = "reading" /\ ~Over

ByPolicy(p) == IF asked.reset = "earliest" THEN lowest[p] ELSE Len(parts[p]) + 1
StartAt(p) ==
  IF reader = "example" /\ committed[p] # {} THEN CHOOSE o \in committed[p] : TRUE ELSE ByPolicy(p)

\* Partitions are assigned inside some poll.
Assigned ==
  /\ Looping /\ pos = <<>> /\ reach = "up"
  /\ pos' = [p \in Partitions |-> StartAt(p)] /\ began' = pos'
  /\ UNCHANGED <<brokerVars, reader, asked, taken, elapsed, ended, committed, handled, atOpen, restarts>>

\* The position has aged out of the topic: the policy applies again.
OutOfRange(p) ==
  /\ Looping /\ pos # <<>> /\ pos[p] < lowest[p]
  /\ pos' = [pos EXCEPT ![p] = ByPolicy(p)] /\ began' = [began EXCEPT ![p] = ByPolicy(p)]
  /\ UNCHANGED <<brokerVars, reader, asked, taken, elapsed, ended, committed, handled, atOpen, restarts>>

\* poll gives nothing: tail waits for at most what remains, the smoke test for
\* two seconds whatever remains.
Waited(t) ==
  IF reader = "smoke" THEN elapsed + 2
  ELSE elapsed + Min({1, t - elapsed})
PollNothing ==
  /\ Looping /\ \E t \in asked.seconds : elapsed' = Waited(t)
  /\ UNCHANGED <<brokerVars, reader, asked, began, pos, taken, ended, committed, handled, atOpen, restarts>>

\* An error ends a tail; the scripts go on to the next poll.
PollError ==
  /\ Looping /\ reader = "tail" /\ ended' = "raised"
  /\ UNCHANGED <<brokerVars, reader, asked, began, pos, taken, elapsed, committed, handled, atOpen, restarts>>

\* What decoding yields: the message, and where it lay.
Decoded(m, p, o) ==
  [venue |-> m.venue, venue_symbol |-> m.venue_symbol, instrument_id |-> m.instrument_id,
   trade_id |-> m.trade_id, sequence |-> m.sequence, event_ts |-> m.event_ts, ingest_ts |-> m.ingest_ts,
   price |-> m.price, size |-> m.size, side |-> m.side, source |-> m.source,
   kafka_partition |-> p, kafka_offset |-> o]

\* close, which the example reaches however it ends, commits its position.
Commit_End == [p \in Partitions |-> {Len(parts[p]) + 1}]
Commit == [p \in Partitions |-> {pos'[p]}]
PollMessage(p) ==
  /\ Looping /\ pos # <<>> /\ pos[p] \in lowest[p]..Len(parts[p])
  /\ pos' = [pos EXCEPT ![p] = @ + 1]
  /\ handled' = IF reader = "example" THEN handled \cup {<<p, pos[p]>>} ELSE handled
  /\ LET m == parts[p][pos[p]] IN
     IF m = Junk
     THEN /\ ended' = "raised" /\ UNCHANGED taken
          /\ committed' = IF reader = "example" THEN Commit ELSE committed
     ELSE /\ taken' = Append(taken, Decoded(m, p, pos[p]))
          /\ UNCHANGED <<ended, committed>>
  /\ UNCHANGED <<brokerVars, reader, asked, began, elapsed, atOpen, restarts>>

Ends ==
  /\ reader # "idle" /\ ended = "reading" /\ Over
  /\ ended' = IF reader = "smoke" /\ Len(taken) < MinMessages THEN "failed" ELSE "done"
  /\ UNCHANGED <<brokerVars, reader, asked, began, pos, taken, elapsed, committed, handled, atOpen, restarts>>

\* The example: automatic commits, Ctrl-C, and a kill that commits nothing.
AutoCommit ==
  /\ reader = "example" /\ ended = "reading" /\ pos # <<>>
  /\ UNCHANGED pos /\ committed' = Commit
  /\ UNCHANGED <<brokerVars, reader, asked, began, taken, elapsed, ended, handled, atOpen, restarts>>
Interrupted ==
  /\ reader = "example" /\ ended = "reading" /\ UNCHANGED pos
  /\ committed' = IF pos = <<>> THEN committed ELSE Commit
  /\ reader' = "idle"
  /\ UNCHANGED <<brokerVars, asked, began, taken, elapsed, ended, handled, atOpen, restarts>>
Killed ==
  /\ reader = "example" /\ reader' = "idle"
  /\ UNCHANGED <<brokerVars, asked, began, pos, taken, elapsed, ended, committed, handled, atOpen, restarts>>

ReaderStep ==
  Assigned \/ PollNothing \/ Ends \/ \E p \in Partitions : OutOfRange(p) \/ PollMessage(p)

StreamNext ==
  \/ \E s \in Streams, deal \in Deals, seen \in BOOLEAN : Arrives(s, deal, seen)
  \/ \E m \in missed : Repaired(m)
  \/ \E p \in Partitions, source \in Sources : \E i \in DOMAIN parts[p] : Again(p, i, source)
  \/ \E p \in Partitions : JunkArrives(p) \/ Retention(p)
  \/ \E o \in TailOptions : OpenTail(o)
  \/ OpenSmoke \/ OpenExample \/ ReaderStep \/ PollError
  \/ AutoCommit \/ Interrupted \/ Killed

StreamSpec == StreamInit /\ [][StreamNext]_streamVars

-----------------------------------------------------------------------------
(* health.py *)

\* topics and partitions: the watermarks, and what is retained between them.
PartitionInfo(p) == [low |-> lowest[p], high |-> Len(parts[p]) + 1]
Messages(info) == info.high - info.low
Retained == [p \in Partitions |-> Messages(PartitionInfo(p))]
\* lag: {} for a partition the group never committed.
LagInfo(p) == [committed |-> committed[p], high |-> PartitionInfo(p).high]
Lag(p) == {LagInfo(p).high - o : o \in LagInfo(p).committed}
\* rate: a tail from the end, bounded by time alone, counted two ways.
Counter(records, column) ==
  [v \in Column(ToSet(records), column) |-> Cardinality({i \in DOMAIN records : Cell(records[i], column) = v})]
RateReport(records) ==
  [messages |-> Len(records), by_venue |-> Counter(records, "venue"),
   by_instrument |-> Counter(records, "instrument_id")]

\* The example keeps the last trades of each instrument, and prints their vwap:
\* 0 for a window without volume.
Later(records, k) == {j \in DOMAIN records : j > k /\ records[j].instrument_id = records[k].instrument_id}
Windows(records) ==
  [i \in Column(ToSet(records), "instrument_id") |->
     {records[k] : k \in {j \in DOMAIN records : records[j].instrument_id = i
                                               /\ Cardinality(Later(records, j)) < Window}}]
Vwap(window) ==
  IF Total(window, "size") = 0 THEN [notional |-> 0, volume |-> 1]
  ELSE [notional |-> Total(window, "notional"), volume |-> Total(window, "size")]

-----------------------------------------------------------------------------
(* Properties. *)

\* Every number a gap report calls missing was not there to be read: no copy
\* of it lies between where the tail began and the record that revealed the
\* gap, and the report counts no number twice (sequence_gaps: one partition per
\* symbol, Coinbase left out).
GapsReal ==
  LET report == GapReport(taken) IN
  /\ \A g \in report.gaps : \A n \in Numbers(g) : \A p \in Partitions :
       ~\E i \in began[p]..Len(parts[p]) :
           /\ i >= lowest[p] /\ parts[p][i] # Junk
           /\ Scope(parts[p][i]) = Scope(g.at)
           /\ parts[p][i].sequence = n
           /\ p = g.at.kafka_partition => i < g.at.kafka_offset
  /\ report.missing = Cardinality(UNION {{<<Scope(g.at), n>> : n \in Numbers(g)} : g \in report.gaps})

\* However the partitions interleave, deduplication keeps the copy of a trade
\* the topic had first, and loses none (trades_frame, dedupe).
DedupeKeepsFirst ==
  LET rows == Dedupe(TradesFrame(taken)) IN
  /\ {NaturalKey(r) : r \in rows} = {NaturalKey(r) : r \in ToSet(taken)}
  /\ \A r \in rows, c \in ToSet(taken) :
       NaturalKey(c) = NaturalKey(r) =>
         c.kafka_partition = r.kafka_partition /\ r.kafka_offset <= c.kafka_offset

\* The consolidated tape counts each trade once whatever was delivered again,
\* its volume is the venues' together and its vwap lies between theirs; the
\* spread tells which of the two it is nearer to (bars, venue_comparison).
TapeExact ==
  LET rows == Dedupe(TradesFrame(taken))
      tape == Tape(rows)
      venues == PerVenue(rows)
      Parts(g) == {h \in DOMAIN venues : h.instrument_id = g.instrument_id /\ h.minute = g.minute}
  IN /\ SumFunction([g \in DOMAIN tape |-> tape[g].trades])
          = Cardinality({NaturalKey(r) : r \in ToSet(taken)})
     /\ \A g \in DOMAIN tape :
          /\ tape[g].volume = SumFunction([h \in Parts(g) |-> venues[h].volume])
          /\ tape[g].notional = SumFunction([h \in Parts(g) |-> venues[h].notional])
     /\ \A g \in DOMAIN Spreads(rows) :
          LET b == venues[At("binance", g)] IN
          Spreads(rows)[g] >= 0 => b.notional * tape[g].volume >= tape[g].notional * b.volume

\* A tail from the start leaves nothing out: between two records of a
\* partition there is only what had expired (tail, with offset_reset
\* "earliest").  Caught up, it holds what topics() counts as retained.
TailComplete ==
  reader = "tail" /\ pos # <<>> /\ asked.reset = "earliest" =>
    /\ \A p \in Partitions : \A i \in began[p]..(pos[p] - 1) :
         \/ i < lowest[p] \/ parts[p][i] = Junk
         \/ \E r \in ToSet(taken) : r.kafka_partition = p /\ r.kafka_offset = i
    /\ ended # "raised" => \A p \in Partitions :
         began[p] <= lowest[p] /\ pos[p] = Len(parts[p]) + 1 =>
           Retained[p] = Cardinality({r \in ToSet(taken) : r.kafka_partition = p /\ r.kafka_offset >= lowest[p]})

\* What a notebook makes of the topic is true of the topic (tail, frames.py,
\* health.py), in any interleaving of partitions, repairs and retention: the
\* tail is complete, its gaps are real, copies count once.
TapeTrue == TailComplete /\ GapsReal /\ DedupeKeepsFirst /\ TapeExact

\* A rate counts what arrived while it was sampled and nothing older, for
\* every venue (rate: offset_reset "latest", a group of its own).
RateIsLive ==
  LET report == RateReport(taken) IN
  /\ report.messages = SumFunction(report.by_instrument)
  /\ reader = "tail" /\ asked.reset = "latest" =>
    \A v \in DOMAIN report.by_venue :
      report.by_venue[v] <= SumFunction(
        [p \in Partitions |-> Cardinality({i \in (atOpen[p] + 1)..Len(parts[p]) :
                                  parts[p][i] # Junk /\ parts[p][i].venue = v})])

\* A smoke test that passes has seen trades that arrived after it started
\* (smoke_test.main).
SmokeProvesLive ==
  reader = "smoke" /\ ended = "done" =>
    MinMessages <= SumFunction([p \in Partitions |-> Len(parts[p]) - atOpen[p]])

\* Over restarts, interrupts, kills and junk, the example's group skips
\* nothing: whatever lies before its committed offset was handed over or has
\* expired.  Its lag hides nothing: every retained message that was not handled
\* is counted, so that a group without lag has handled all of them (it may count
\* more, what was handled after the last commit) (consume_example, lag).
ExampleCovers ==
  \A p \in Partitions : \A o \in committed[p] :
    /\ \A i \in 1..(o - 1) : i < lowest[p] \/ <<p, i>> \in handled
    /\ \A l \in Lag(p) : Cardinality({i \in lowest[p]..Len(parts[p]) : <<p, i>> \notin handled}) <= l

\* The vwap the example prints is a quotient it can form, lies within the prices
\* of its window, and is 0 when none of its trades has a size (consume_example.vwap,
\* windows).
VwapInWindow ==
  reader = "example" =>
    \A g \in DOMAIN Windows(taken) :
      LET w == Windows(taken)[g]
          v == Vwap(w)
      IN /\ Cardinality(w) \in 1..Window /\ v.volume > 0
         /\ IF \E r \in w : r.size > 0
            THEN v.notional \in (Min(Column(w, "price")) * v.volume)..(Max(Column(w, "price")) * v.volume)
            ELSE v.notional = 0

\* Each reader reads what it claims (rate, smoke_test, consume_example): the
\* present for the first two, everything for the third, over restarts.
ReadersSound == RateIsLive /\ SmokeProvesLive /\ ExampleCovers /\ VwapInWindow
=============================================================================
