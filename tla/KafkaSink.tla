------------------------------ MODULE KafkaSink -------------------------------
(***************************************************************************)
(* TradeProducer of src/ingest/core/producer.py: a thin layer over         *)
(* librdkafka, which is external and modelled from build_config (acks=all, *)
(* idempotence, retries without end, delivery.timeout.ms) and from how the *)
(* drain of IngestRunner calls it: produce then poll, poll when idle, one  *)
(* flush at the end whose result it ignores.                               *)
(*                                                                         *)
(* One partition: the trades of one key, numbered in the order they are    *)
(* produced.  A message stays in the local queue until its delivery report *)
(* has been served by poll or flush; a full queue makes produce raise      *)
(* BufferError.                                                            *)
(***************************************************************************)
EXTENDS Integers, Sequences, SequencesExt, FiniteSets

CONSTANTS MaxGiven,   \* bound: trades produced
          QueueMax    \* queue.buffering.max.messages

ASSUME KafkaBounds == {MaxGiven, QueueMax} \subseteq Nat \ {0}

VARIABLES kGiven,    \* trades produce was called with
          kQueue,    \* messages without an outcome yet, oldest first
          kLog,      \* the partition
          reports,   \* outcomes waiting to be served: [trade, ok]
          logged,    \* trades whose failure _on_delivery has logged
          kStatus,   \* "open", "flushing", "flushed" or "raised"
          kResult    \* what flush returned

kafkaVars == <<kGiven, kQueue, kLog, reports, logged, kStatus, kResult>>

KTrades == 1..MaxGiven
InLog == ToSet(kLog)

\* What librdkafka counts against its limit and what flush returns.
Buffered == Len(kQueue) + Cardinality(reports)

KafkaInit ==
  /\ kGiven = {} /\ kQueue = <<>> /\ kLog = <<>> /\ reports = {} /\ logged = {}
  /\ kStatus = "open" /\ kResult = -1

-----------------------------------------------------------------------------
(* TradeProducer, called by the drain. *)

KProduce_Swallows(t) ==
  /\ kStatus = "open" /\ t = Cardinality(kGiven) + 1
  /\ kGiven' = kGiven \cup {t}
  /\ IF Buffered < QueueMax
     THEN kQueue' = Append(kQueue, t) /\ UNCHANGED logged
     ELSE logged' = logged \cup {t} /\ UNCHANGED kQueue
  /\ UNCHANGED <<kLog, reports, kStatus, kResult>>
KProduce(t) ==
  /\ kStatus = "open" /\ t = Cardinality(kGiven) + 1
  /\ kGiven' = kGiven \cup {t}
  /\ IF Buffered < QueueMax
     THEN kQueue' = Append(kQueue, t) /\ UNCHANGED kStatus
     ELSE kStatus' = "raised" /\ UNCHANGED kQueue
  /\ UNCHANGED <<kLog, reports, logged, kResult>>

\* poll serves the delivery reports; _on_delivery logs the failed ones.
KPoll_Silent ==
  /\ kStatus \in {"open", "flushing"} /\ reports # {}
  /\ reports' = {}
  /\ UNCHANGED <<kGiven, kQueue, kLog, logged, kStatus, kResult>>
KPoll ==
  /\ kStatus \in {"open", "flushing"} /\ reports # {}
  /\ logged' = logged \cup {r.trade : r \in {s \in reports : ~s.ok}}
  /\ reports' = {}
  /\ UNCHANGED <<kGiven, kQueue, kLog, kStatus, kResult>>

KFlushBegins ==
  /\ kStatus = "open" /\ kStatus' = "flushing"
  /\ UNCHANGED <<kGiven, kQueue, kLog, reports, logged, kResult>>

\* flush serves reports until nothing is buffered or its ten seconds are over.
FlushCount == Buffered
KFlushReturns ==
  /\ kStatus = "flushing"
  /\ kStatus' = "flushed" /\ kResult' = FlushCount
  /\ UNCHANGED <<kGiven, kQueue, kLog, reports, logged>>

-----------------------------------------------------------------------------
(* librdkafka and the broker. *)

\* The idempotent producer keeps the order over any number of requests in
\* flight, and the broker drops a batch it has seen: the oldest message that
\* the log lacks is the next one it gets.
Unsent(i) == kQueue[i] \notin InLog /\ \A j \in 1..i - 1 : kQueue[j] \in InLog
BrokerAppends ==
  /\ kStatus # "flushed"
  /\ \E i \in DOMAIN kQueue : Unsent(i) /\ kLog' = Append(kLog, kQueue[i])
  /\ UNCHANGED <<kGiven, kQueue, reports, logged, kStatus, kResult>>

Reported(ok) ==
  /\ kQueue' = Tail(kQueue)
  /\ reports' = reports \cup {[trade |-> Head(kQueue), ok |-> ok]}
  /\ UNCHANGED <<kGiven, kLog, logged, kStatus, kResult>>

Acked == kStatus # "flushed" /\ kQueue # <<>> /\ Head(kQueue) \in InLog /\ Reported(TRUE)

\* delivery.timeout.ms: the message fails, stored or not; the acknowledgement
\* may be all that was lost.  A request that was given up is fenced by the
\* idempotent producer's next epoch and does not reach the log later.
Expires == kStatus # "flushed" /\ kQueue # <<>> /\ Reported(FALSE)

KafkaNext ==
  \/ \E t \in KTrades : KProduce(t)
  \/ KPoll \/ KFlushBegins \/ KFlushReturns \/ BrokerAppends \/ Acked \/ Expires

KafkaSpec == KafkaInit /\ [][KafkaNext]_kafkaVars

-----------------------------------------------------------------------------
(* The Sink protocol. *)

\* Gone for good: refused by a full queue, or reported as failed and absent.
KLost == kGiven \ (InLog \cup ToSet(kQueue))

Promise == INSTANCE Sink WITH Trades <- KTrades, Loud <- FALSE, given <- kGiven,
  stored <- InLog, lost <- KLost, status <- kStatus, result <- kResult

\* The Kafka transport keeps the protocol of sinks.py, but silently: a lost
\* trade need not raise (produce, poll and flush of TradeProducer).
KafkaKeepsPromise == Promise!Spec

\* Trades of a key reach their partition in the order the drain produced them
\* and once, through retries, timeouts and lost acknowledgements
\* (enable.idempotence in build_config).
LogOrdered == \A i, j \in DOMAIN kLog : i < j => kLog[i] < kLog[j]

\* A trade that is gone was refused with an exception, or its failure was
\* logged or is waiting for the next poll: nothing disappears unheard
\* (_on_delivery).
FailureHeard ==
  \A t \in KLost : \/ kStatus = "raised" /\ t = Cardinality(kGiven)
                   \/ t \in logged
                   \/ [trade |-> t, ok |-> FALSE] \in reports

\* A flush that returns zero has settled every trade: stored, or reported and
\* logged as failed.  Any other result names at least what is still missing
\* (flush, whose result the drain ignores).
FlushSettles ==
  kStatus = "flushed" =>
    /\ kResult = 0 => kGiven \subseteq InLog \cup logged
    /\ kResult >= Cardinality(kGiven \ (InLog \cup logged))

\* Trades reach the partition in order and once, and one that does not is heard
\* of (TradeProducer over an idempotent librdkafka): by an exception, a log line
\* or the number flush returns.
DeliveryHonest == LogOrdered /\ FailureHeard /\ FlushSettles
=============================================================================
