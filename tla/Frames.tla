-------------------------------- MODULE Frames --------------------------------
(***************************************************************************)
(* What the notebooks compute from the records they read: trades_frame,    *)
(* dedupe, bars and venue_comparison of src/devlab/frames.py and           *)
(* sequence_gaps of src/devlab/health.py.  A price per volume is kept as   *)
(* the pair of both, so that no division rounds.                           *)
(***************************************************************************)
EXTENDS Integers, Sequences, SequencesExt, FiniteSetsExt

CONSTANT Minute   \* length of a bar in ticks of event time
ASSUME MinuteAssumption == Minute \in Nat \ {0}

NaturalKey(t) == <<t.venue, t.venue_symbol, t.trade_id>>

\* trades_frame: the records with the columns computed from them.  A frame is
\* kept as the set of its rows: an offset is read once, and what order rows of
\* one event time have is the library's choice (the default sort is not stable).
Cell(r, c) ==
  CASE c = "notional" -> r.price * r.size
    [] c = "latency" -> r.ingest_ts - r.event_ts
    [] c = "is_backfill" -> r.source # "STREAM"
    [] c = "minute" -> r.event_ts \div Minute
    [] OTHER -> r[c]
TradesFrame(records) == ToSet(records)

\* dedupe: by event time, then offset; the first row of each key stays.
Arrival(a, b) == a.event_ts < b.event_ts \/ (a.event_ts = b.event_ts /\ a.kafka_offset < b.kafka_offset)
Earliest(rows) == CHOOSE r \in rows : \A s \in rows : ~Arrival(s, r)
Latest(rows) == CHOOSE r \in rows : \A s \in rows : ~Arrival(r, s)
Dedupe(rows) == {Earliest({r \in rows : NaturalKey(r) = k}) : k \in {NaturalKey(r) : r \in rows}}

\* groupby, by columns or by the minute of event time.
Group(r, keys) == [k \in keys |-> Cell(r, k)]
GroupBy(rows, keys) ==
  [g \in {Group(r, keys) : r \in rows} |-> {r \in rows : Group(r, keys) = g}]
Column(rows, c) == {Cell(r, c) : r \in rows}
Total(rows, c) == SumFunction([r \in rows |-> Cell(r, c)])

\* bars on event time, one per group and minute that has a trade.
Bar(rows) ==
  [open |-> Earliest(rows).price, close |-> Latest(rows).price,
   high |-> Max(Column(rows, "price")), low |-> Min(Column(rows, "price")),
   volume |-> Total(rows, "size"), notional |-> Total(rows, "notional"), trades |-> Cardinality(rows)]
BarsBy(rows, keys) ==
  LET groups == GroupBy(rows, keys \cup {"minute"}) IN [g \in DOMAIN groups |-> Bar(groups[g])]
Tape(rows) == BarsBy(rows, {"instrument_id"})
PerVenue(rows) == BarsBy(rows, {"venue", "instrument_id"})

\* venue_comparison: with exactly two venues in the frame, the first one's
\* vwap less the second one's, where both traded some volume (0 / 0 is NaN).
VenuesIn(rows) == Column(rows, "venue")
At(v, g) == [venue |-> v, instrument_id |-> g.instrument_id, minute |-> g.minute]
Spreads(rows) ==
  LET bars == PerVenue(rows)
      both == {g \in DOMAIN Tape(rows) :
                 \A v \in VenuesIn(rows) : At(v, g) \in DOMAIN bars /\ bars[At(v, g)].volume > 0}
      Spread(b, c) == b.notional * c.volume - c.notional * b.volume
  IN IF VenuesIn(rows) # {"binance", "coinbase"} THEN <<>>
     ELSE [g \in both |-> Spread(bars[At("binance", g)], bars[At("coinbase", g)])]

\* sequence_gaps: the producer's own tracker over the records, without the
\* venues whose counter belongs to the connection and the records without a
\* number.  The tracker's watermark is the highest number observed so far.
Unnumbered == 0
ConnectionScoped_None == {}
ConnectionScoped == {"coinbase"}
Checked(records) ==
  {i \in DOMAIN records : records[i].venue \notin ConnectionScoped /\ records[i].sequence # Unnumbered}
Observed(records, i) ==
  {records[j].sequence : j \in {k \in 1..(i - 1) : /\ records[k].sequence # Unnumbered
                                                 /\ records[k].venue = records[i].venue
                                                 /\ records[k].venue_symbol = records[i].venue_symbol}}
Jumps(records, i) == Observed(records, i) # {} /\ records[i].sequence > Max(Observed(records, i)) + 1
SequenceGaps(records) ==
  {[before |-> Max(Observed(records, i)), at |-> records[i]] :
     i \in {j \in Checked(records) : Jumps(records, j)}}
\* The numbers a gap says are missing, and the report that counts them.
Numbers(g) == (g.before + 1)..(g.at.sequence - 1)
GapReport(records) ==
  LET gaps == SequenceGaps(records)
      skipped == VenuesIn(ToSet(records)) \cap ConnectionScoped
  IN [gaps |-> gaps, skipped |-> skipped,
      checked |-> Cardinality(Checked(records)),
      missing |-> SumFunction([g \in gaps |-> Cardinality(Numbers(g))])]
=============================================================================
