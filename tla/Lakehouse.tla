------------------------------ MODULE Lakehouse -------------------------------
(***************************************************************************)
(* The Databricks path of the trades: Kafka -> bronze_trades_stream ->     *)
(* trades_validated -> silver_trades or silver_trades_quarantine           *)
(* (src/lakehouse/pipelines/trades.py over src/lakehouse/trades/).         *)
(*                                                                         *)
(* Each streaming table is a flow with its own checkpoint, so Bronze,      *)
(* quarantine and Silver advance separately; trades_validated is a view    *)
(* that each of its two readers evaluates when it reads, with the          *)
(* current_timestamp() of that moment.  Checkpoints, exactly-once appends  *)
(* and AUTO CDC belong to Databricks and are external.                     *)
(*                                                                         *)
(* A column is the set of its value, empty for NULL; so is a truth value   *)
(* of SQL's three-valued logic.                                            *)
(***************************************************************************)
EXTENDS Frames

CONSTANTS Records,     \* what producers may write to the topic
          Poison,      \* a value that is no Avro datum
          NoNumber,    \* text that is no number, in a price or a size
          EpochFloor,  \* EPOCH_FLOOR_US
          OneDay,      \* ONE_DAY_US
          MaxTopic,    \* bound: messages in a topic, one fewer after each wipe
          MaxNow,      \* bound: the clock
          MaxWipes     \* bound: weekly wipes of the sandbox

\* The Avro schema's types: a price and a size are text.
Number == Int \cup {NoNumber}
ASSUME RecordsAssumption ==
  /\ Records \subseteq [venue : STRING, venue_symbol : STRING, instrument_id : STRING,
                        trade_id : STRING, event_ts_us : Int, price : Number, size : Number,
                        side : STRING]
  /\ NoNumber \notin Int /\ Poison \notin Records
  /\ EpochFloor \in Int /\ OneDay \in Nat

VARIABLES topic,       \* the messages of md.trades.v1, by offset
          topicRead,   \* the offset Bronze's checkpoint has reached
          bronze,      \* bronze_trades_stream, in order of ingestion
          atQuarantine,\* how far each reader of trades_validated has come
          atSilver,
          quarantine,  \* silver_trades_quarantine: [row, reason]
          cleaned,     \* the rows the CDC flow has applied
          silver,      \* silver_trades: key -> row
          clock,       \* current_timestamp()
          wipes

lakeVars == <<topic, topicRead, bronze, atQuarantine, atSilver, quarantine, cleaned,
              silver, clock, wipes>>

-----------------------------------------------------------------------------
(* schema.py and transforms.py *)

Columns == {"venue", "venue_symbol", "instrument_id", "trade_id", "event_ts_us",
            "price", "size", "side"}

\* decode_kafka_trades: PERMISSIVE, a value that is no trade is a row of NULLs.
\* The audit columns keep the offset and the bytes.
Decode(value, offset) ==
  [trade |-> IF value = Poison THEN [c \in Columns |-> {}] ELSE [c \in Columns |-> {value[c]}],
   offset |-> offset, value |-> value]

IsNotNull(c) == {c # {}}
Compare(c, Test(_)) == IF c = {} THEN {} ELSE {\E v \in c : Test(v)}
Not3(a) == {~v : v \in a}
And3(a, b) == IF FALSE \in a \cup b THEN {FALSE} ELSE IF a = {} \/ b = {} THEN {} ELSE {TRUE}
Or3(a, b) == IF TRUE \in a \cup b THEN {TRUE} ELSE IF a = {} \/ b = {} THEN {} ELSE {FALSE}

\* try_cast(text AS DECIMAL(38,18)): text that is no number is NULL.
TryCast(c) == {v \in c : v # NoNumber}

NonEmpty(c) == And3(IsNotNull(c), Compare(c, LAMBDA v : v # ""))
Positive_Naive(c) == Compare(TryCast(c), LAMBDA v : v > 0)
Positive(c) == And3(IsNotNull(TryCast(c)), Compare(TryCast(c), LAMBDA v : v > 0))

\* QUARANTINE_PREDICATES, in order; each says when a row is valid.
Reasons == <<"decode_failed", "missing_key", "missing_instrument", "bad_timestamp",
             "bad_price", "bad_size", "bad_side">>
Predicates(r, now) ==
  [decode_failed |-> Or3(IsNotNull(r.venue), Or3(IsNotNull(r.trade_id), IsNotNull(r.event_ts_us))),
   missing_key |-> And3(NonEmpty(r.venue), NonEmpty(r.trade_id)),
   missing_instrument |-> NonEmpty(r.instrument_id),
   bad_timestamp |-> And3(IsNotNull(r.event_ts_us),
                          Compare(r.event_ts_us, LAMBDA t : t >= EpochFloor /\ t <= now + OneDay)),
   bad_price |-> Positive(r.price),
   bad_size |-> Positive(r.size),
   bad_side |-> And3(IsNotNull(r.side), Compare(r.side, LAMBDA s : s \in {"BUY", "SELL", "UNKNOWN"}))]

\* classify_trades: the first predicate that is FALSE names the reason; one
\* that is NULL does not match, and a row no clause matches has no reason.
Classify(r, now) ==
  LET held == Predicates(r, now)
      failed == {i \in DOMAIN Reasons : Not3(held[Reasons[i]]) = {TRUE}} IN
  IF failed = {} THEN {}
  ELSE {Reasons[CHOOSE i \in failed : \A k \in failed : i <= k]}

\* valid_trades: the audit columns go.
Fact(c) == CHOOSE v \in c : TRUE
Project(r) == [c \in Columns |-> Fact(r[c])]

\* keys of the CDC flow.
Key(t) == <<t.venue, t.trade_id>>

-----------------------------------------------------------------------------
LakeInit ==
  /\ topic = <<>> /\ topicRead = 0 /\ bronze = <<>> /\ atQuarantine = 0 /\ atSilver = 0
  /\ quarantine = <<>> /\ cleaned = {} /\ silver = <<>> /\ clock = 1 /\ wipes = 0

\* A producer, the runner or a repair, writes a message.
Message(v) ==
  /\ Len(topic) + wipes < MaxTopic
  /\ topic' = Append(topic, v)
  /\ UNCHANGED <<topicRead, bronze, atQuarantine, atSilver, quarantine, cleaned, silver, clock, wipes>>

TimePasses ==
  /\ clock < MaxNow /\ clock' = clock + 1
  /\ UNCHANGED <<topic, topicRead, bronze, atQuarantine, atSilver, quarantine, cleaned, silver, wipes>>

\* bronze_trades_stream: from earliest, one micro-batch of what is there.  With
\* failOnDataLoss the flow does not move when its offsets are gone.
BronzeFlow ==
  /\ topicRead < Len(topic)
  /\ bronze' = bronze \o [i \in 1..(Len(topic) - topicRead) |->
                            Decode(topic[topicRead + i], <<wipes, topicRead + i>>)]
  /\ topicRead' = Len(topic)
  /\ UNCHANGED <<topic, atQuarantine, atSilver, quarantine, cleaned, silver, clock, wipes>>

\* quarantined_trades: everything of a row with a reason, and the reason.
Quarantined(row, reason) == IF reason = {} THEN <<>> ELSE <<[row |-> row, reason |-> Fact(reason)]>>

\* silver_trades_quarantine: such rows are appended.
QuarantineFlow ==
  /\ atQuarantine < Len(bronze)
  /\ LET row == bronze[atQuarantine + 1]
     IN quarantine' = quarantine \o Quarantined(row, Classify(row.trade, clock))
  /\ atQuarantine' = atQuarantine + 1
  /\ UNCHANGED <<topic, topicRead, bronze, atSilver, cleaned, silver, clock, wipes>>

\* Silver with t as the row of its key.
Replaced(t) == [k \in DOMAIN silver \cup {Key(t)} |-> IF k = Key(t) THEN t ELSE silver[k]]
Upsert_Last(t) == silver' = Replaced(t)

\* cdc_trades_stream, SCD Type 1 by event_ts_us: the later fact wins, and of
\* two with one timestamp either.
Upsert(t) ==
  \/ /\ Key(t) \in DOMAIN silver /\ silver[Key(t)].event_ts_us >= t.event_ts_us
     /\ UNCHANGED silver
  \/ /\ \A k \in DOMAIN silver : k = Key(t) => silver[k].event_ts_us <= t.event_ts_us
     /\ silver' = Replaced(t)

SilverFlow ==
  /\ atSilver < Len(bronze)
  /\ LET row == bronze[atSilver + 1] IN
     IF Classify(row.trade, clock) # {}
     THEN UNCHANGED <<silver, cleaned>>
     ELSE Upsert(Project(row.trade)) /\ cleaned' = cleaned \cup {row}
  /\ atSilver' = atSilver + 1
  /\ UNCHANGED <<topic, topicRead, bronze, atQuarantine, quarantine, clock, wipes>>

\* The sandbox is wiped, the cluster rebuilt, and Bronze alone refreshed: the
\* new topic is read from its start, and Silver keeps what it has.
Refreshed == UNCHANGED <<silver, cleaned>>
WipeAndRefresh ==
  /\ wipes < MaxWipes /\ wipes' = wipes + 1
  /\ topic' = <<>> /\ topicRead' = 0 /\ bronze' = <<>> /\ atQuarantine' = 0 /\ atSilver' = 0
  /\ Refreshed
  /\ UNCHANGED <<quarantine, clock>>

LakeNext ==
  \/ \E v \in Records \cup {Poison} : Message(v)
  \/ TimePasses \/ BronzeFlow \/ QuarantineFlow \/ SilverFlow \/ WipeAndRefresh

LakeSpec == LakeInit /\ [][LakeNext]_lakeVars

-----------------------------------------------------------------------------
(* checks.py *)

\* find_immutability_violations over a set of rows.
Facts == {"event_ts_us", "price", "size"}
Disagrees(rows, key) ==
  LET of == {t \in rows : Key(t) = key} IN
  \E c \in Facts : Cardinality({t[c] : t \in of}) > 1
ImmutabilityViolations(rows) == {key \in {Key(t) : t \in rows} : Disagrees(rows, key)}

-----------------------------------------------------------------------------
(* Properties. *)

Delivered == {Project(row.trade) : row \in cleaned}

\* Nothing malformed is in Silver, whichever way it is malformed: text for a
\* number, an empty key, a time outside the bounds, an unknown side.  NULL in
\* SQL's logic must not slip through a predicate (QUARANTINE_PREDICATES).
SilverSound ==
  \A k \in DOMAIN silver :
    LET t == silver[k] IN
    /\ Key(t) = k /\ t.venue # "" /\ t.trade_id # "" /\ t.instrument_id # ""
    /\ t.price # NoNumber /\ t.price > 0 /\ t.size # NoNumber /\ t.size > 0
    /\ t.event_ts_us \in EpochFloor..(clock + OneDay)
    /\ t.side \in {"BUY", "SELL", "UNKNOWN"}

\* A row both flows have read went to exactly one of them, unless its time was
\* still in the future when it was read (classify_trades in two readers).
RoutedOnce ==
  \A i \in 1..Min({atQuarantine, atSilver}) :
    LET row == bronze[i]
        rejected == \E q \in ToSet(quarantine) : q.row = row IN
    row.trade.event_ts_us = {} \/ Fact(row.trade.event_ts_us) <= OneDay + 1
      => rejected # (row \in cleaned)

\* Bytes that are no trade are quarantined as such, not as a symptom of it,
\* and keep their bytes (decode_failed is the first predicate).
PoisonNamed ==
  \A q \in ToSet(quarantine) : q.reason = "decode_failed" <=> q.row.value = Poison

\* Validation lets nothing malformed through, drops nothing and names what it
\* rejects (classify_trades read by two flows).
ValidationSound == SilverSound /\ RoutedOnce /\ PoisonNamed

\* Silver holds the latest delivered fact of every key, in whatever order and
\* however often the copies of a trade arrive, and across wipes (AUTO CDC on
\* sequence_by).  A trade whose time, price or size it has replaced is one that
\* find_immutability_violations reports on what was delivered (checks.py).
SilverLatest ==
  /\ DOMAIN silver = {Key(t) : t \in Delivered}
  /\ \A t \in Delivered : silver[Key(t)].event_ts_us >= t.event_ts_us
  /\ \A k \in DOMAIN silver : silver[k] \in Delivered
  /\ \A t \in Delivered :
       (\E c \in {"event_ts_us", "price", "size"} : silver[Key(t)][c] # t[c])
         => Key(t) \in ImmutabilityViolations(Delivered)

\* src/devlab/frames.py: the identity of a trade is its venue, symbol and id,
\* and Silver keeps every identity it was given: the key tells trades apart.
NoTradeOverwritten ==
  \A t \in Delivered : \E k \in DOMAIN silver : NaturalKey(silver[k]) = NaturalKey(t)
=============================================================================
