------------------------------- MODULE Research -------------------------------
(***************************************************************************)
(* The product-research notebook, over whatever a tail has captured:       *)
(* src/notebooks/04_stream_product_research.ipynb.  It captures once,      *)
(* deduplicates, measures the quality of the capture, aggregates activity, *)
(* volatility and venue spreads, and recommends from the measurements.     *)
(* Quotients are kept as numerators; the lead-lag correlations and the     *)
(* plots are left out.                                                     *)
(***************************************************************************)
EXTENDS StreamReader

CONSTANTS SmallCapture, ShortCapture,   \* below either: 2,000 rows, 60 seconds
          LargeCapture, LongCapture,    \* from both: 20,000 rows, 300 seconds
          ReturnsNeeded,                \* observations of a ranked volatility
          RowsPerInstrument             \* for a latency row of its own: 100
ASSUME ResearchBounds ==
  /\ SmallCapture \in Nat /\ LargeCapture \in Nat /\ SmallCapture <= LargeCapture
  /\ ShortCapture \in Nat /\ LongCapture \in Nat /\ ShortCapture <= LongCapture

-----------------------------------------------------------------------------
(* Capture and quality. *)

\* The capture is a tail from the start of the topic.
Captured == reader = "tail" /\ asked.reset = "earliest"
Raw == TradesFrame(taken)
Clean == Dedupe(Raw)
\* An empty capture raises, and no later cell has anything to run on.
Continues == Raw # {}
EventSpan == Max(Column(Raw, "event_ts")) - Min(Column(Raw, "event_ts"))
CaptureSummary ==
  [captured_rows |-> Cardinality(Raw), deduplicated_rows |-> Cardinality(Clean),
   event_start |-> Min(Column(Raw, "event_ts")), event_end |-> Max(Column(Raw, "event_ts")),
   event_duration |-> EventSpan, venues |-> Cardinality(VenuesIn(Raw)),
   instruments |-> Cardinality(Column(Raw, "instrument_id"))]

\* What was captured, by market and by where it came from.
Coverage ==
  LET groups == GroupBy(Clean, {"venue", "instrument_id"})
  IN [g \in DOMAIN groups |->
        [trades |-> Cardinality(groups[g]), notional |-> Total(groups[g], "notional"),
         event_start |-> Min(Column(groups[g], "event_ts")),
         event_end |-> Max(Column(groups[g], "event_ts"))]]
SourceProfile ==
  LET groups == GroupBy(Raw, {"source", "is_backfill"}) IN [g \in DOMAIN groups |-> Cardinality(groups[g])]

Warned == Cardinality(Raw) < SmallCapture \/ EventSpan < ShortCapture

\* duplicated(keep=False), and the keys whose copies disagree on a fact.
Duplicated(rows) == {r \in rows : \E c \in rows \ {r} : NaturalKey(c) = NaturalKey(r)}
ConflictFields == {"price", "size", "side", "event_ts"}
ConflictingKeys(rows) ==
  {NaturalKey(r) : r \in {d \in Duplicated(rows) : \E c \in rows :
     NaturalKey(c) = NaturalKey(d) /\ \E f \in ConflictFields : c[f] # d[f]}}

\* groupby(keys)[column].diff() < 0, in the order of arrival.
Falls(keys, column) ==
  {i \in DOMAIN taken : \E k \in 1..(i - 1) :
     /\ Group(taken[k], keys) = Group(taken[i], keys) /\ taken[i][column] < taken[k][column]
     /\ \A j \in (k + 1)..(i - 1) : Group(taken[j], keys) # Group(taken[i], keys)}
EventTimeRegressions == Falls({"venue", "venue_symbol"}, "event_ts")
OffsetRegressions == Falls({"kafka_partition"}, "kafka_offset")

PartitionProfile ==
  LET groups == GroupBy(Clean, {"kafka_partition"})
  IN [g \in DOMAIN groups |->
        [records |-> Cardinality(groups[g]), notional |-> Total(groups[g], "notional"),
         first_offset |-> Min(Column(groups[g], "kafka_offset")),
         last_offset |-> Max(Column(groups[g], "kafka_offset"))]]
\* partition_cv by its square's numerator: 0 for partitions of one size.
PartitionCv ==
  LET parts_ == DOMAIN PartitionProfile
      Off(g) == Cardinality(parts_) * PartitionProfile[g].records - Cardinality(Clean)
  IN SumFunction([g \in parts_ |-> Off(g) * Off(g)])
Metric(name, value, observations) == [metric |-> name, value |-> value, observations |-> observations]
QualityMetrics ==
  {Metric("duplicate_row_rate", Cardinality(Duplicated(Raw)), Cardinality(Raw)),
   Metric("conflicting_duplicate_keys", Cardinality(ConflictingKeys(Raw)), Cardinality(Duplicated(Raw))),
   Metric("sequence_missing", GapReport(taken).missing, GapReport(taken).checked),
   Metric("partition_count_cv", PartitionCv, Cardinality(DOMAIN PartitionProfile)),
   Metric("event_time_regressions", Cardinality(EventTimeRegressions), Len(taken)),
   Metric("offset_regressions", Cardinality(OffsetRegressions), Len(taken))}

-----------------------------------------------------------------------------
(* Latency. *)

\* quantile(q / 100), interpolated between two rows, in hundredths.
Ranked(rows, column, k) ==
  CHOOSE v \in Column(rows, column) :
    /\ Cardinality({r \in rows : Cell(r, column) < v}) < k
    /\ Cardinality({r \in rows : Cell(r, column) <= v}) >= k
Quantile(rows, column, q) ==
  LET at == q * (Cardinality(rows) - 1)
      low == Ranked(rows, column, 1 + (at \div 100))
      high == Ranked(rows, column, Min({2 + (at \div 100), Cardinality(rows)}))
  IN 100 * low + (at % 100) * (high - low)
LatencyQuantiles(rows) ==
  [observations |-> Cardinality(rows), median |-> Quantile(rows, "latency", 50), p90 |-> Quantile(rows, "latency", 90),
   p95 |-> Quantile(rows, "latency", 95), p99 |-> Quantile(rows, "latency", 99),
   max |-> 100 * Max(Column(rows, "latency"))]
LatencySummary ==
  LET Scoped(column, least) ==
        LET groups == GroupBy(Raw, {column})
        IN {<<column, g[column], LatencyQuantiles(groups[g])>> : g \in {h \in DOMAIN groups : Cardinality(groups[h]) >= least}}
  IN {<<"all", "all", LatencyQuantiles(Raw)>>} \cup Scoped("venue", 1) \cup Scoped("instrument_id", RowsPerInstrument)
ExtremeLatency == {r \in Raw : 100 * Cell(r, "latency") > Quantile(Raw, "latency", 99)}

-----------------------------------------------------------------------------
(* Activity, volatility, spreads. *)

Activity == Tape(Clean)
ActivityRanking ==
  LET groups == GroupBy(Clean, {"instrument_id"})
  IN [g \in DOMAIN groups |-> [trades |-> Cardinality(groups[g]), notional |-> Total(groups[g], "notional")]]
TradeDistributions ==
  [column \in {"size", "notional"} |-> [q \in {50, 75, 90, 95, 99} |-> Quantile(Clean, column, q)]]

\* Sides are compared in lower case.
SideLabel_AsIs(r) == r.side
SideLabel(r) == [BUY |-> "buy", SELL |-> "sell", UNKNOWN |-> "unknown"][r.side]
SideNotional(label) == Total({r \in Clean : SideLabel(r) = label}, "notional")
HasSide(label) == \E r \in Clean : SideLabel(r) = label
NotionalOf(label) == IF HasSide(label) THEN SideNotional(label) ELSE 0
\* The numerator of the quotient; {} where the notebook has NaN.
Imbalance ==
  LET buy == NotionalOf("buy")
      sell == NotionalOf("sell")
  IN IF buy + sell = 0 THEN {} ELSE {buy - sell}

\* One close per minute that traded, one return between two of them.
Closes(instrument) == {g \in DOMAIN Activity : g.instrument_id = instrument}
Instruments == Column(Clean, "instrument_id")
VolatilityRanking == {i \in Instruments : Cardinality(Closes(i)) - 1 >= ReturnsNeeded}

\* Notebook 02: bars whose vwap is outside low..high.
Outside == {g \in DOMAIN Activity :
              LET b == Activity[g] IN b.notional < b.low * b.volume \/ b.notional > b.high * b.volume}

SpreadSamples(instrument) == {g \in DOMAIN Spreads(Clean) : g.instrument_id = instrument}
SpreadSummary == {i \in Instruments : SpreadSamples(i) # {}}

-----------------------------------------------------------------------------
(* Recommendations. *)

Evidence ==
  IF Cardinality(Raw) >= LargeCapture /\ EventSpan >= LongCapture THEN "strong"
  ELSE IF Cardinality(Raw) >= SmallCapture /\ EventSpan >= ShortCapture THEN "directional" ELSE "weak"

\* A share by its numerator.
Measured(metric, value, priority) == [metric |-> metric, value |-> value, priority |-> priority]
Recommendations ==
  {Measured("backfill_share", {Cardinality({r \in Raw : Cell(r, "is_backfill")})}, "build now"),
   Measured("duplicate_row_rate", {Cardinality(Duplicated(Raw))}, "build now"),
   Measured("conflicting_duplicate_keys", {Cardinality(ConflictingKeys(Raw))},
            IF ConflictingKeys(Raw) # {} THEN "build now" ELSE "validate next"),
   Measured("latency_p95_ms", {Quantile(Raw, "latency", 95)}, "build now"),
   Measured("partition_count_cv", IF Clean = {} THEN {} ELSE {PartitionCv}, "validate next"),
   Measured("event_time_bar_count", {Cardinality(DOMAIN Activity)}, "build now"),
   Measured("buy_sell_notional_imbalance", Imbalance, "validate next")}
  \cup {Measured("ranked_instruments_with_volatility", {n}, "validate next") :
          n \in {Cardinality(VolatilityRanking)} \ {0}}
  \cup {Measured("cross_venue_spread_samples", {n}, "validate next") :
          n \in {Cardinality(UNION {SpreadSamples(i) : i \in SpreadSummary})} \ {0}}

-----------------------------------------------------------------------------
(* Properties. *)

\* Which of the notebook's assertions can fail, and on what: no natural key twice
\* after deduplication and no negative amount (the last lines of the quality
\* cell), in notebook 02 no bar whose vwap leaves its range; but the last
\* line of all, no recommendation without a value, holds only of a capture that
\* has something bought or sold: without it the imbalance is NaN.
NotebookAsserts ==
  Continues =>
    /\ Duplicated(Clean) = {}
    /\ \A r \in Clean : r.size >= 0 /\ Cell(r, "notional") >= 0
    /\ Outside = {}
    /\ (\A m \in Recommendations : m.value # {})
         <=> \E r \in Clean : r.side # "UNKNOWN" /\ Cell(r, "notional") > 0

\* The quality table tells redelivery from corruption: however a trade comes
\* again, by a repair or in the stream, its copies agree, so that a conflict
\* would be the venue's; offsets of a partition never fall and no record is read
\* twice, so that duplicates and falls of event time are the topic's and not the
\* reader's; and no metric counts more than it looked at (duplicate_mask,
\* conflicting_keys, the two regressions, quality_metrics).
QualityExplained ==
  /\ ConflictingKeys(Raw) = {} /\ OffsetRegressions = {}
  /\ Cardinality(Raw) = Len(taken)
  /\ \A q \in QualityMetrics :
       q.metric \notin {"sequence_missing", "partition_count_cv"} => q.value <= q.observations

\* The tables of different cells describe one capture: each counts every
\* deduplicated trade once, what was dropped was a repeated row, a partition's
\* offsets span at least its records, and the ranking is by the notional the
\* minutes add up to (capture_summary, coverage, source_profile,
\* partition_profile, activity, activity_ranking).
TablesAgree ==
  Continues =>
    /\ CaptureSummary.captured_rows = SumFunction(SourceProfile)
    /\ CaptureSummary.deduplicated_rows = SumFunction([g \in DOMAIN Coverage |-> Coverage[g].trades])
    /\ CaptureSummary.captured_rows - CaptureSummary.deduplicated_rows <= Cardinality(Duplicated(Raw))
    /\ \A g \in DOMAIN Coverage : /\ Coverage[g].event_start >= CaptureSummary.event_start
                                  /\ Coverage[g].event_end <= CaptureSummary.event_end
    /\ \A g \in DOMAIN PartitionProfile :
         PartitionProfile[g].records <= PartitionProfile[g].last_offset - PartitionProfile[g].first_offset + 1
    /\ \A g \in DOMAIN ActivityRanking :
         ActivityRanking[g].notional =
           SumFunction([h \in Closes(g.instrument_id) |-> Activity[h].notional])

\* Quantiles rise, stay within the data, negative latencies and all, and no more
\* than one row in a hundred lies above the last (latency_quantiles,
\* extreme_latency_count, trade_distributions).
StatisticsSound ==
  Continues =>
    /\ \A row \in LatencySummary :
         LET l == row[3]
         IN l.median <= l.p90 /\ l.p90 <= l.p95 /\ l.p95 <= l.p99 /\ l.p99 <= l.max
    /\ 100 * Cardinality(ExtremeLatency) <= Cardinality(Raw) + 99
    /\ \A c \in DOMAIN TradeDistributions :
         /\ TradeDistributions[c][50] >= 100 * Min(Column(Clean, c))
         /\ TradeDistributions[c][99] <= 100 * Max(Column(Clean, c))

\* A capture the notebook warned about is never called more than weak, and one
\* it did not warn about never weak: two cells judge it by the same bounds.
EvidenceConsistent == Continues => (Warned <=> Evidence = "weak")

\* The research notebook's cells agree with each other and with the topic, on
\* any capture: what its asserts need is known, its tables count what is there and
\* add up, its statistics stay within the data, and a capture it warns of is not
\* called sufficient.
ResearchSound ==
  Captured =>
    NotebookAsserts /\ QualityExplained /\ TablesAgree /\ StatisticsSound /\ EvidenceConsistent
=============================================================================
