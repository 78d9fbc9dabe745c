------------------------------- MODULE MCKafka --------------------------------
(***************************************************************************)
(* The Kafka stack for TLC: the producer, the Databricks tables, the       *)
(* readers and the process around the runners.  They share no state here,  *)
(* so `focus`, chosen once, lets one move in a behaviour and TLC adds      *)
(* their states up instead of multiplying them.                            *)
(***************************************************************************)
EXTENDS KafkaSink, Lakehouse, Research, Producers

CONSTANT Foci    \* the parts a run looks at

VARIABLE focus   \* the part that moves in this behaviour

mcVars == <<kafkaVars, lakeVars, streamVars, procVars, focus>>

-----------------------------------------------------------------------------
Sound == [venue |-> "binance", venue_symbol |-> "BTC", instrument_id |-> "BTC-USD",
          trade_id |-> "1", event_ts_us |-> 3, price |-> 2, size |-> 1, side |-> "BUY"]
MCRecords ==
  {Sound, [Sound EXCEPT !.price = 3, !.side = "UNKNOWN"], [Sound EXCEPT !.event_ts_us = 4],
   [Sound EXCEPT !.venue = ""], [Sound EXCEPT !.trade_id = ""],
   [Sound EXCEPT !.instrument_id = ""], [Sound EXCEPT !.event_ts_us = 0],
   [Sound EXCEPT !.event_ts_us = 5], [Sound EXCEPT !.price = NoNumber],
   [Sound EXCEPT !.size = 0], [Sound EXCEPT !.size = NoNumber], [Sound EXCEPT !.side = "HOLD"]}
\* The aggregate trades of two Binance symbols, numbered separately.
TwoSymbols == {Sound, [Sound EXCEPT !.venue_symbol = "ETH", !.instrument_id = "ETH-USD"]}

Market(v, s, i) == [venue |-> v, venue_symbol |-> s, instrument_id |-> i]
MCStreams == {Market("binance", "BTCUSDT", "BTC-USD"), Market("coinbase", "BTC-USD", "BTC-USD"),
              Market("coinbase", "ETH-USD", "ETH-USD")}
MCHome == [BTCUSDT |-> 1] @@ ("BTC-USD" :> 2) @@ ("ETH-USD" :> 1)
\* A trade that was bought, one of no size, and one that comes early and whose
\* side is not told.
Deal(lead, size, side) == [lead |-> lead, size |-> size, side |-> side]
Bought == Deal(0, 2, "BUY")
Nothing == Deal(0, 0, "SELL")
Untold == Deal(2, 1, "UNKNOWN")
MCDeals == {Bought, Nothing, Untold}
Ask(n, t, from) == [limit |-> n, seconds |-> t, reset |-> from]
MCTailOptions == {Ask({4}, {1}, "earliest"), Ask({}, {1}, "latest"), Ask({1}, {}, "latest"),
                  Ask({}, {}, "latest"), Ask({0}, {1}, "latest")}

Both == [binance |-> "BTCUSDT", coinbase |-> "BTC-USD"]
MCUniverses == {<<[id |-> "BTC", venues |-> Both]>>,
                <<[id |-> "BTC", venues |-> [binance |-> "BTCUSDT"]],
                  [id |-> "XBT", venues |-> [binance |-> "BTCUSDT"]]>>}
MCVenueLists == {<<"binance", "coinbase">>, <<"binance", "kraken">>, <<"coinbase">>}

-----------------------------------------------------------------------------
Readers == {"tail", "smoke", "example"}

\* A part that is not in focus has one initial state.
MCInit ==
  /\ focus \in Foci /\ KafkaInit /\ LakeInit /\ StreamInit /\ ProcInit
  /\ focus \notin Readers => reach = "up"
  /\ focus # "process" => /\ entry = "kafka" /\ dotenv = {} /\ venues = <<"coinbase">>
                          /\ Len(universe) = 1

\* Under a tail Binance misses trades and repairs them, Coinbase sends its last
\* ones again when a subscription opens; under the scripts, which look at little
\* of a trade, whatever arrives is a fresh one of Coinbase.
Sent(s) ==
  IF s.venue = "binance" THEN {Bought, Untold}
  ELSE IF s.venue_symbol = "ETH-USD" THEN {Nothing} ELSE {Untold}
TopicMoves ==
  \/ \E s \in Streams, seen \in BOOLEAN : \E deal \in Sent(s) :
       /\ focus # "tail" => s.venue = "coinbase"
       /\ ~seen => s.venue = "binance" /\ deal = Bought
       /\ Arrives(s, deal, seen)
  \/ \E m \in missed : Repaired(m)
  \/ \E p \in Partitions, source \in Sources : \E i \in DOMAIN parts[p] :
       /\ focus = "tail" /\ p = 1 /\ Again(p, i, source)
       /\ parts[p][i].venue = "coinbase" <=> source = "STREAM"
  \/ \E p \in Partitions : (focus # "tail" \/ p = 1) /\ (JunkArrives(p) \/ Retention(p))
ReaderMoves ==
  \/ focus = "tail" /\ \E o \in TailOptions : OpenTail(o)
  \/ focus = "smoke" /\ OpenSmoke
  \/ focus = "example" /\ OpenExample
  \/ ReaderStep \/ PollError \/ AutoCommit \/ Interrupted \/ Killed
Others == <<kafkaVars, lakeVars, focus>>

MCNext ==
  \/ focus = "producer" /\ KafkaNext /\ UNCHANGED <<lakeVars, streamVars, procVars, focus>>
  \/ focus = "lakehouse" /\ LakeNext /\ UNCHANGED <<kafkaVars, streamVars, procVars, focus>>
  \/ focus \in Readers /\ (TopicMoves \/ ReaderMoves) /\ UNCHANGED <<Others, procVars>>
  \/ focus = "process" /\ ProcNext /\ UNCHANGED <<Others, streamVars>>

\* The main task and each runner get their turns.
MCSpec ==
  /\ MCInit /\ [][MCNext]_mcVars
  /\ WF_mcVars(focus = "process" /\ MainStep /\ UNCHANGED <<Others, streamVars>>)
  /\ \A i \in Positions :
       WF_mcVars(focus = "process" /\ RunnerStep(i) /\ UNCHANGED <<Others, streamVars>>)
=============================================================================
