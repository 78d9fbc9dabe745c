-------------------------- MODULE KafkaStackProofs --------------------------
(***************************************************************************)
(* The Kafka and Databricks variant of the pipeline, for any number of     *)
(* trades, records and producers: the producing process is handled as its  *)
(* main says, the Kafka transport delivers in order, once, or is heard of, *)
(* and keeps the Sink protocol, the lakehouse's validation and Silver      *)
(* table hold what they are read for, the readers of the topic and the     *)
(* notebooks say what is true of it, and the REST limiter keeps its rate.  *)
(***************************************************************************)
EXTENDS KafkaSink, Lakehouse, Research, Producers, TokenBucket, Sums, SequenceTheorems

(***************************************************************************)
(* KafkaSink: delivery and the promise of a sink.                          *)
(***************************************************************************)
\* The trades produced are numbered from 1, and only they are queued or stored.
KafkaTypes ==
  /\ Cardinality(kGiven) \in Nat /\ kGiven = 1..Cardinality(kGiven)
  /\ kQueue \in Seq(Nat) /\ kLog \in Seq(Nat)
  /\ ToSet(kQueue) \subseteq kGiven /\ InLog \subseteq kGiven
  /\ reports \subseteq [trade : Nat, ok : BOOLEAN] /\ IsFiniteSet(reports)
  /\ kStatus \in {"open", "flushing", "flushed", "raised"}

\* The queue is in the order of production, and the log is behind all of it that
\* it lacks.
QueueOrdered == \A i, j \in DOMAIN kQueue : i < j => kQueue[i] < kQueue[j]

LogBehind ==
  \A i \in DOMAIN kQueue : \A x \in InLog : kQueue[i] \notin InLog => x < kQueue[i]

KafkaInv ==
  KafkaTypes /\ QueueOrdered /\ LogBehind /\ LogOrdered /\ FailureHeard /\ FlushSettles

\* The elements of a sequence, of one that grew at its end, and of one without
\* its head.
LEMMA SeqElements ==
  ASSUME NEW s \in Seq(Nat)
  PROVE  /\ DOMAIN s = 1..Len(s) /\ Len(s) \in Nat /\ \A i \in DOMAIN s : s[i] \in Nat
         /\ IsFiniteSet(ToSet(s)) /\ Cardinality(ToSet(s)) \in Nat
         /\ Cardinality(ToSet(s)) <= Len(s)
<1>1. /\ DOMAIN s = 1..Len(s) /\ Len(s) \in Nat /\ s \in [1..Len(s) -> Nat]
  BY LenProperties
<1>2. \A i \in DOMAIN s : s[i] \in Nat
  BY <1>1
<1>3. s \in [1..Len(s) -> ToSet(s)]
  BY <1>1 DEF ToSet
<1>4. s \in Surjection(1..Len(s), ToSet(s))
  BY <1>1, <1>3 DEF Surjection, ToSet
<1>5. IsFiniteSet(1..Len(s)) /\ Cardinality(1..Len(s)) = Len(s)
  <2>1. 1 \in Int /\ Len(s) \in Int
    BY <1>1
  <2>2. /\ IsFiniteSet(1..Len(s))
        /\ Cardinality(1..Len(s)) = IF 1 > Len(s) THEN 0 ELSE Len(s) - 1 + 1
    BY <2>1, FS_Interval
  <2>3. QED
    BY <1>1, <2>2
<1>6. IsFiniteSet(ToSet(s)) /\ Cardinality(ToSet(s)) <= Len(s)
  BY <1>4, <1>5, FS_Surjection
<1>7. QED
  BY <1>1, <1>2, <1>6, FS_CardinalityType

\* What an append adds, and where.
LEMMA SeqAppends ==
  ASSUME NEW s \in Seq(Nat), NEW e \in Nat
  PROVE  /\ Append(s, e) \in Seq(Nat) /\ ToSet(Append(s, e)) = ToSet(s) \cup {e}
         /\ DOMAIN Append(s, e) = 1..(Len(s) + 1) /\ Append(s, e)[Len(s) + 1] = e
         /\ \A i \in DOMAIN s : Append(s, e)[i] = s[i]
<1>1. /\ Append(s, e) \in Seq(Nat) /\ Len(Append(s, e)) = Len(s) + 1
      /\ Append(s, e)[Len(s) + 1] = e
      /\ \A i \in 1..Len(s) : Append(s, e)[i] = s[i]
  BY AppendProperties
<1>2. /\ DOMAIN Append(s, e) = 1..(Len(s) + 1) /\ DOMAIN s = 1..Len(s) /\ Len(s) \in Nat
  BY <1>1, LenProperties
<1>3. \A i \in DOMAIN Append(s, e) : i \in DOMAIN s \/ i = Len(s) + 1
  BY <1>2
<1>4. \A i \in DOMAIN s : i \in DOMAIN Append(s, e)
  BY <1>2
<1>5. Len(s) + 1 \in DOMAIN Append(s, e)
  BY <1>2
<1>6. ToSet(Append(s, e)) = ToSet(s) \cup {e}
  BY <1>1, <1>2, <1>3, <1>4, <1>5 DEF ToSet
<1>7. QED
  BY <1>1, <1>2, <1>6

\* What leaves the queue at its head, and where the rest then stands.
LEMMA SeqTail ==
  ASSUME NEW s \in Seq(Nat), s # <<>>
  PROVE  /\ Tail(s) \in Seq(Nat) /\ ToSet(s) = {Head(s)} \cup ToSet(Tail(s))
         /\ Head(s) = s[1] /\ 1 \in DOMAIN s /\ Head(s) \in Nat
         /\ \A i \in DOMAIN Tail(s) : i + 1 \in DOMAIN s /\ Tail(s)[i] = s[i + 1]
         /\ DOMAIN Tail(s) \subseteq Nat \ {0}
<1>1. /\ Tail(s) \in Seq(Nat) /\ Len(Tail(s)) = Len(s) - 1 /\ Head(s) \in Nat
      /\ \A i \in 1..Len(Tail(s)) : Tail(s)[i] = s[i + 1]
      /\ Len(s) \in Nat \ {0} /\ Head(s) = s[1]
  BY HeadTailProperties, EmptySeq
<1>2. DOMAIN Tail(s) = 1..(Len(s) - 1) /\ DOMAIN s = 1..Len(s)
  BY <1>1, LenProperties
<1>3. \A i \in 1..(Len(s) - 1) : i + 1 \in 1..Len(s)
  BY <1>1
<1>4. 1 \in DOMAIN s /\ DOMAIN Tail(s) \subseteq Nat \ {0}
  BY <1>1, <1>2
<1>5. \A i \in DOMAIN Tail(s) : i + 1 \in DOMAIN s /\ Tail(s)[i] = s[i + 1]
  BY <1>1, <1>2, <1>3
<1>6. \A i \in DOMAIN s : i = 1 \/ (i - 1 \in DOMAIN Tail(s) /\ s[i] = Tail(s)[i - 1])
  <2> SUFFICES ASSUME NEW i \in DOMAIN s, i # 1
               PROVE  i - 1 \in DOMAIN Tail(s) /\ s[i] = Tail(s)[i - 1]
    OBVIOUS
  <2>1. i - 1 \in 1..(Len(s) - 1) /\ (i - 1) + 1 = i
    BY <1>1, <1>2
  <2>2. QED
    BY <1>5, <1>2, <2>1
<1>7. ToSet(s) \subseteq {Head(s)} \cup ToSet(Tail(s))
  <2> SUFFICES ASSUME NEW i \in DOMAIN s
               PROVE  s[i] \in {Head(s)} \cup ToSet(Tail(s))
    BY DEF ToSet
  <2>1. CASE i = 1
    BY <1>1, <2>1
  <2>2. CASE i # 1
    BY <1>6, <2>2 DEF ToSet
  <2>3. QED
    BY <2>1, <2>2
<1>8. {Head(s)} \cup ToSet(Tail(s)) \subseteq ToSet(s)
  BY <1>1, <1>4, <1>5 DEF ToSet
<1>9. QED
  BY <1>1, <1>4, <1>5, <1>7, <1>8

\* What the reports of failures name is no more than the reports.
Failing == {r.trade : r \in {s \in reports : ~s.ok}}

\* There are no more failed trades than reports, and both are finite in number.
LEMMA FailingSize ==
  ASSUME KafkaTypes
  PROVE  /\ Cardinality(reports) \in Nat /\ IsFiniteSet(Failing)
         /\ Cardinality(Failing) \in Nat /\ Cardinality(Failing) <= Cardinality(reports)
         /\ \A t : t \in Failing <=> [trade |-> t, ok |-> FALSE] \in reports
<1> DEFINE S == {s \in reports : ~s.ok}
           f == [r \in S |-> r.trade]
<1>1. IsFiniteSet(S) /\ Cardinality(S) <= Cardinality(reports)
  BY FS_Subset DEF KafkaTypes
<1>2. f \in Surjection(S, Failing)
  BY DEF Surjection, Failing
<1>3. IsFiniteSet(Failing) /\ Cardinality(Failing) <= Cardinality(S)
  BY <1>1, <1>2, FS_Surjection
<1>4. /\ Cardinality(reports) \in Nat /\ Cardinality(Failing) \in Nat
      /\ Cardinality(S) \in Nat
  BY <1>1, <1>3, FS_CardinalityType DEF KafkaTypes
<1>5. \A t : t \in Failing => [trade |-> t, ok |-> FALSE] \in reports
  <2> SUFFICES ASSUME NEW r \in reports, ~r.ok
               PROVE  [trade |-> r.trade, ok |-> FALSE] \in reports
    BY DEF Failing
  <2>1. r = [trade |-> r.trade, ok |-> FALSE]
    BY DEF KafkaTypes
  <2>2. QED
    BY <2>1
<1>6. \A t : [trade |-> t, ok |-> FALSE] \in reports => t \in Failing
  <2> SUFFICES ASSUME NEW t, [trade |-> t, ok |-> FALSE] \in reports PROVE t \in Failing
    OBVIOUS
  <2>1. [trade |-> t, ok |-> FALSE].trade = t /\ ~[trade |-> t, ok |-> FALSE].ok
    OBVIOUS
  <2>2. QED
    BY <2>1 DEF Failing
<1>7. Cardinality(Failing) <= Cardinality(reports)
  BY <1>1, <1>3, <1>4
<1>8. QED
  BY <1>3, <1>4, <1>5, <1>6, <1>7

-----------------------------------------------------------------------------
\* KProduce adds the next number, to the queue or, refused, to nothing.
LEMMA ProduceStep ==
  ASSUME KafkaInv, NEW t \in KTrades, KProduce(t)
  PROVE  /\ KafkaInv' /\ t \notin kGiven /\ kGiven' = kGiven \cup {t}
         /\ kStatus' = "open" => KLost' = KLost
         /\ kStatus' # "open" => kStatus' = "raised" /\ KLost' = KLost \cup {t}
<1> DEFINE n == Cardinality(kGiven)
<1>1. /\ n \in Nat /\ kGiven = 1..n /\ t = n + 1 /\ kGiven' = kGiven \cup {t}
      /\ kStatus = "open" /\ UNCHANGED <<kLog, reports, logged, kResult>>
  BY DEF KProduce, KafkaInv, KafkaTypes
<1>2. kGiven' = 1..(n + 1) /\ t \notin kGiven /\ t \in Nat
  BY <1>1
<1>3. IsFiniteSet(kGiven)
  BY <1>1, FS_Interval
<1>4. Cardinality(kGiven') = n + 1
  BY <1>1, <1>2, <1>3, FS_AddElement
<1>5. /\ kQueue \in Seq(Nat) /\ DOMAIN kQueue = 1..Len(kQueue) /\ Len(kQueue) \in Nat
      /\ \A i \in DOMAIN kQueue : kQueue[i] \in Nat
  BY SeqElements DEF KafkaInv, KafkaTypes
<1>6. \A x \in kGiven : x \in Nat /\ x < t
  BY <1>1
<1> HIDE DEF n
<1>7. CASE Buffered < QueueMax
  <2>1. kQueue' = Append(kQueue, t) /\ kStatus' = "open"
    BY <1>1, <1>7 DEF KProduce
  <2>2. /\ kQueue' \in Seq(Nat) /\ ToSet(kQueue') = ToSet(kQueue) \cup {t}
        /\ DOMAIN kQueue' = 1..(Len(kQueue) + 1) /\ kQueue'[Len(kQueue) + 1] = t
        /\ \A i \in DOMAIN kQueue : kQueue'[i] = kQueue[i]
    BY <1>2, <1>5, <2>1, SeqAppends
  <2>3. \A i \in DOMAIN kQueue' : i \in DOMAIN kQueue \/ i = Len(kQueue) + 1
    BY <1>5, <2>2
  <2>4. \A i \in DOMAIN kQueue : kQueue[i] \in kGiven
    BY DEF KafkaInv, KafkaTypes, ToSet
  <2>5. KafkaTypes'
    BY <1>1, <1>2, <1>4, <2>1, <2>2 DEF KafkaInv, KafkaTypes, InLog
  <2>6. QueueOrdered'
    <3> SUFFICES ASSUME NEW i \in DOMAIN kQueue', NEW j \in DOMAIN kQueue', i < j
                 PROVE  kQueue'[i] < kQueue'[j]
      BY DEF QueueOrdered
    <3>1. i \in DOMAIN kQueue
      BY <1>5, <2>2
    <3>2. CASE j \in DOMAIN kQueue
      BY <2>2, <3>1, <3>2 DEF KafkaInv, QueueOrdered
    <3>3. CASE j = Len(kQueue) + 1
      BY <1>6, <2>2, <2>4, <3>1, <3>3
    <3>4. QED
      BY <2>3, <3>2, <3>3
  <2>7. LogBehind'
    <3> SUFFICES ASSUME NEW i \in DOMAIN kQueue', NEW x \in InLog, kQueue'[i] \notin InLog
                 PROVE  x < kQueue'[i]
      BY <1>1 DEF LogBehind, InLog
    <3>1. CASE i \in DOMAIN kQueue
      BY <2>2, <3>1 DEF KafkaInv, LogBehind
    <3>2. CASE i = Len(kQueue) + 1
      BY <1>6, <2>2, <3>2 DEF KafkaInv, KafkaTypes
    <3>3. QED
      BY <2>3, <3>1, <3>2
  <2>8. LogOrdered'
    BY <1>1 DEF KafkaInv, LogOrdered
  <2>9. KLost' = KLost
    BY <1>1, <2>2 DEF KLost, InLog
  <2>10. FailureHeard'
    BY <1>1, <2>9 DEF KafkaInv, FailureHeard
  <2>11. FlushSettles'
    BY <2>1 DEF FlushSettles
  <2>12. QED
    BY <1>1, <1>2, <2>1, <2>5, <2>6, <2>7, <2>8, <2>9, <2>10, <2>11 DEF KafkaInv
<1>8. CASE ~(Buffered < QueueMax)
  <2>1. UNCHANGED kQueue /\ kStatus' = "raised"
    BY <1>8 DEF KProduce
  <2>2. KafkaTypes'
    BY <1>1, <1>2, <1>4, <2>1 DEF KafkaInv, KafkaTypes, InLog
  <2>3. QueueOrdered' /\ LogBehind' /\ LogOrdered'
    BY <1>1, <2>1 DEF KafkaInv, QueueOrdered, LogBehind, LogOrdered, InLog
  <2>4. KLost' = KLost \cup {t}
    <3>1. t \notin InLog /\ t \notin ToSet(kQueue)
      BY <1>2 DEF KafkaInv, KafkaTypes
    <3>2. QED
      BY <1>1, <2>1, <3>1 DEF KLost, InLog
  <2>5. FailureHeard'
    BY <1>1, <1>4, <2>1, <2>4 DEF KafkaInv, FailureHeard
  <2>6. FlushSettles'
    BY <2>1 DEF FlushSettles
  <2>7. QED
    BY <1>1, <1>2, <2>1, <2>2, <2>3, <2>4, <2>5, <2>6 DEF KafkaInv
<1>9. QED
  BY <1>7, <1>8

\* The broker stores the oldest message it lacks, which is then the newest of
\* its log.
LEMMA AppendStep ==
  ASSUME KafkaInv, BrokerAppends
  PROVE  /\ KafkaInv' /\ kStatus # "flushed" /\ KLost' = KLost
         /\ \E x \in ToSet(kQueue) \ InLog : InLog' = InLog \cup {x}
<1>1. PICK i \in DOMAIN kQueue : Unsent(i) /\ kLog' = Append(kLog, kQueue[i])
  BY DEF BrokerAppends
<1>2. /\ kStatus # "flushed"
      /\ UNCHANGED <<kGiven, kQueue, reports, logged, kStatus, kResult>>
  BY DEF BrokerAppends
<1>3. /\ kQueue \in Seq(Nat) /\ DOMAIN kQueue = 1..Len(kQueue) /\ Len(kQueue) \in Nat
      /\ \A j \in DOMAIN kQueue : kQueue[j] \in Nat
      /\ kLog \in Seq(Nat) /\ DOMAIN kLog = 1..Len(kLog) /\ Len(kLog) \in Nat
      /\ \A j \in DOMAIN kLog : kLog[j] \in Nat
  BY SeqElements DEF KafkaInv, KafkaTypes
<1> DEFINE x == kQueue[i]
<1>4. x \in Nat /\ x \in ToSet(kQueue) /\ x \notin InLog /\ x \in kGiven
  BY <1>1, <1>3 DEF Unsent, ToSet, KafkaInv, KafkaTypes
<1>5. \A j \in DOMAIN kQueue : j < i => kQueue[j] \in InLog
  BY <1>1, <1>3 DEF Unsent
<1>6. \A y \in InLog : y < x
  BY <1>1, <1>4 DEF KafkaInv, LogBehind
<1>7. \A j \in DOMAIN kQueue : kQueue[j] \notin InLog => j = i \/ x < kQueue[j]
  <2> SUFFICES ASSUME NEW j \in DOMAIN kQueue, kQueue[j] \notin InLog, j # i
               PROVE  x < kQueue[j]
    OBVIOUS
  <2>1. i < j
    BY <1>3, <1>5
  <2>2. QED
    BY <2>1 DEF KafkaInv, QueueOrdered
<1>8. kLog' = Append(kLog, x)
  BY <1>1
<1> HIDE DEF x
<1>9. /\ kLog' \in Seq(Nat) /\ InLog' = InLog \cup {x}
      /\ DOMAIN kLog' = 1..(Len(kLog) + 1) /\ kLog'[Len(kLog) + 1] = x
      /\ \A j \in DOMAIN kLog : kLog'[j] = kLog[j]
  BY <1>3, <1>4, <1>8, SeqAppends DEF InLog
<1>10. KafkaTypes'
  BY <1>2, <1>4, <1>9 DEF KafkaInv, KafkaTypes
<1>11. QueueOrdered'
  BY <1>2 DEF KafkaInv, QueueOrdered
<1>12. LogBehind'
  <2> SUFFICES ASSUME NEW j \in DOMAIN kQueue, NEW y \in InLog', kQueue[j] \notin InLog'
               PROVE  y < kQueue[j]
    BY <1>2 DEF LogBehind
  <2>1. kQueue[j] \notin InLog /\ j # i
    <3>1. kQueue[j] # x
      BY <1>9
    <3>2. QED
      BY <1>9, <3>1 DEF x
  <2>2. CASE y \in InLog
    BY <2>1, <2>2 DEF KafkaInv, LogBehind
  <2>3. CASE y = x
    BY <1>7, <2>1, <2>3
  <2>4. QED
    BY <1>9, <2>2, <2>3
<1>13. LogOrdered'
  <2> SUFFICES ASSUME NEW j \in DOMAIN kLog', NEW k \in DOMAIN kLog', j < k
               PROVE  kLog'[j] < kLog'[k]
    BY DEF LogOrdered
  <2>1. j \in DOMAIN kLog
    BY <1>3, <1>9
  <2>2. CASE k \in DOMAIN kLog
    BY <1>9, <2>1, <2>2 DEF KafkaInv, LogOrdered
  <2>3. CASE k = Len(kLog) + 1
    <3>1. kLog[j] \in InLog
      BY <2>1 DEF InLog, ToSet
    <3>2. QED
      BY <1>6, <1>9, <2>1, <2>3, <3>1
  <2>4. QED
    BY <1>3, <1>9, <2>2, <2>3
<1>14. KLost' = KLost
  BY <1>2, <1>4, <1>9 DEF KLost
<1>15. FailureHeard'
  BY <1>2, <1>14 DEF KafkaInv, FailureHeard
<1>16. FlushSettles'
  BY <1>2 DEF FlushSettles
<1>17. QED
  BY <1>2, <1>4, <1>9, <1>10, <1>11, <1>12, <1>13, <1>14, <1>15, <1>16 DEF KafkaInv

\* A delivery report takes the oldest message off the queue; a failed one of a
\* message the log lacks makes it lost, and says so.
LEMMA ReportStep ==
  ASSUME KafkaInv, kStatus # "flushed", kQueue # <<>>, NEW ok \in BOOLEAN, Reported(ok),
         ok => Head(kQueue) \in InLog
  PROVE  /\ KafkaInv' /\ UNCHANGED <<kGiven, kLog, kStatus, kResult>>
         /\ KLost' = KLost \cup ({Head(kQueue)} \ InLog)
         /\ Head(kQueue) \in ToSet(kQueue)
<1> DEFINE h == Head(kQueue)
<1>1. /\ kQueue' = Tail(kQueue) /\ reports' = reports \cup {[trade |-> h, ok |-> ok]}
      /\ UNCHANGED <<kGiven, kLog, logged, kStatus, kResult>>
  BY DEF Reported
<1>2. /\ kQueue \in Seq(Nat)
      /\ Tail(kQueue) \in Seq(Nat) /\ ToSet(kQueue) = {h} \cup ToSet(Tail(kQueue))
      /\ h = kQueue[1] /\ 1 \in DOMAIN kQueue /\ h \in Nat
      /\ \A i \in DOMAIN Tail(kQueue) :
           i + 1 \in DOMAIN kQueue /\ Tail(kQueue)[i] = kQueue[i + 1]
      /\ DOMAIN Tail(kQueue) \subseteq Nat \ {0}
  BY SeqTail DEF KafkaInv, KafkaTypes
<1>3. \A x \in ToSet(Tail(kQueue)) : h < x
  <2> SUFFICES ASSUME NEW i \in DOMAIN Tail(kQueue) PROVE h < Tail(kQueue)[i]
    BY DEF ToSet
  <2>1. i + 1 \in DOMAIN kQueue /\ 1 < i + 1 /\ Tail(kQueue)[i] = kQueue[i + 1]
    BY <1>2
  <2>2. QED
    BY <1>2, <2>1 DEF KafkaInv, QueueOrdered
<1> HIDE DEF h
<1>4. h \notin ToSet(Tail(kQueue))
  BY <1>2, <1>3
<1>5. h \in kGiven
  BY <1>2 DEF KafkaInv, KafkaTypes
<1>6. KLost' = KLost \cup ({h} \ InLog)
  BY <1>1, <1>2, <1>4, <1>5 DEF KLost, InLog
<1>7. KafkaTypes'
  <2>1. [trade |-> h, ok |-> ok] \in [trade : Nat, ok : BOOLEAN]
    BY <1>2
  <2>2. /\ reports' \subseteq [trade : Nat, ok : BOOLEAN]
    BY <1>1, <2>1 DEF KafkaInv, KafkaTypes
  <2>3. IsFiniteSet(reports')
    BY <1>1, FS_AddElement DEF KafkaInv, KafkaTypes
  <2>4. kQueue' \in Seq(Nat) /\ ToSet(kQueue') \subseteq kGiven
    BY <1>1, <1>2 DEF KafkaInv, KafkaTypes
  <2>5. QED
    BY <1>1, <2>2, <2>3, <2>4 DEF KafkaInv, KafkaTypes, InLog
<1>8. QueueOrdered'
  <2> SUFFICES ASSUME NEW i \in DOMAIN Tail(kQueue), NEW j \in DOMAIN Tail(kQueue), i < j
               PROVE  Tail(kQueue)[i] < Tail(kQueue)[j]
    BY <1>1 DEF QueueOrdered
  <2>1. i + 1 < j + 1
    BY <1>2
  <2>2. QED
    BY <1>2, <2>1 DEF KafkaInv, QueueOrdered
<1>9. LogBehind'
  BY <1>1, <1>2 DEF KafkaInv, LogBehind, InLog
<1>10. LogOrdered'
  BY <1>1 DEF KafkaInv, LogOrdered
<1>11. FailureHeard'
  <2> SUFFICES ASSUME NEW t \in KLost \cup ({h} \ InLog)
               PROVE  \/ kStatus = "raised" /\ t = Cardinality(kGiven)
                      \/ t \in logged
                      \/ [trade |-> t, ok |-> FALSE] \in reports'
    BY <1>1, <1>6 DEF FailureHeard
  <2>1. CASE t \in KLost
    BY <1>1, <2>1 DEF KafkaInv, FailureHeard
  <2>2. CASE t \in {h} \ InLog
    <3>1. t = h /\ ok = FALSE
      BY <2>2 DEF h
    <3>2. QED
      BY <1>1, <3>1
  <2>3. QED
    BY <2>1, <2>2
<1>12. FlushSettles'
  BY <1>1 DEF FlushSettles
<1>13. KafkaInv'
  BY <1>7, <1>8, <1>9, <1>10, <1>11, <1>12 DEF KafkaInv
<1>14. QED
  BY <1>1, <1>2, <1>6, <1>13 DEF h

\* What is given and neither stored nor logged is in the queue or in a report,
\* as long as no produce has been refused.
LEMMA MissingBuffered ==
  ASSUME KafkaInv, kStatus # "raised"
  PROVE  /\ Buffered \in Nat
         /\ kGiven \ (InLog \cup logged) \subseteq ToSet(kQueue) \cup Failing
         /\ Cardinality(kGiven \ (InLog \cup logged)) <= Buffered
         /\ Cardinality(kGiven \ (InLog \cup logged)) \in Nat
         /\ Buffered = 0 => kGiven \subseteq InLog \cup logged
<1> DEFINE M == kGiven \ (InLog \cup logged)
<1>1. /\ IsFiniteSet(ToSet(kQueue)) /\ Cardinality(ToSet(kQueue)) \in Nat
      /\ Cardinality(ToSet(kQueue)) <= Len(kQueue) /\ Len(kQueue) \in Nat
  BY SeqElements DEF KafkaInv, KafkaTypes
<1>2. /\ Cardinality(reports) \in Nat /\ IsFiniteSet(Failing)
      /\ Cardinality(Failing) \in Nat /\ Cardinality(Failing) <= Cardinality(reports)
      /\ \A t : t \in Failing <=> [trade |-> t, ok |-> FALSE] \in reports
  BY FailingSize DEF KafkaInv
<1>3. M \subseteq ToSet(kQueue) \cup Failing
  BY <1>2 DEF KafkaInv, FailureHeard, KLost
<1>4. /\ IsFiniteSet(ToSet(kQueue) \cup Failing)
      /\ Cardinality(ToSet(kQueue) \cup Failing)
           = Cardinality(ToSet(kQueue)) + Cardinality(Failing)
             - Cardinality(ToSet(kQueue) \cap Failing)
      /\ Cardinality(ToSet(kQueue) \cap Failing) \in Nat
  BY <1>1, <1>2, FS_Union, FS_Intersection, FS_CardinalityType
<1>5. IsFiniteSet(M) /\ Cardinality(M) <= Cardinality(ToSet(kQueue) \cup Failing)
  BY <1>3, <1>4, FS_Subset
<1>6. Cardinality(M) \in Nat /\ Cardinality(ToSet(kQueue) \cup Failing) \in Nat
  BY <1>4, <1>5, FS_CardinalityType
<1>7. Buffered = Len(kQueue) + Cardinality(reports) /\ Buffered \in Nat
  BY <1>1, <1>2 DEF Buffered
<1> HIDE DEF M
<1>8. Cardinality(M) <= Buffered
  BY <1>1, <1>2, <1>4, <1>5, <1>6, <1>7
<1>9. Buffered = 0 => M = {}
  BY <1>5, <1>6, <1>7, <1>8, FS_EmptySet
<1>10. QED
  BY <1>3, <1>6, <1>7, <1>8, <1>9 DEF M

\* poll moves the failures it serves to the log and loses sight of none.
LEMMA PollStep ==
  ASSUME KafkaInv, KPoll
  PROVE  KafkaInv' /\ UNCHANGED <<kGiven, kLog, kStatus, kResult>> /\ KLost' = KLost
<1>1. /\ logged' = logged \cup Failing /\ reports' = {} /\ kStatus \in {"open", "flushing"}
      /\ UNCHANGED <<kGiven, kQueue, kLog, kStatus, kResult>>
  BY DEF KPoll, Failing
<1>2. \A t : t \in Failing <=> [trade |-> t, ok |-> FALSE] \in reports
  BY FailingSize DEF KafkaInv
<1>3. KafkaTypes'
  BY <1>1, FS_EmptySet DEF KafkaInv, KafkaTypes, InLog
<1>4. QueueOrdered' /\ LogBehind' /\ LogOrdered'
  BY <1>1 DEF KafkaInv, QueueOrdered, LogBehind, LogOrdered, InLog
<1>5. KLost' = KLost
  BY <1>1 DEF KLost, InLog
<1>6. FailureHeard'
  BY <1>1, <1>2, <1>5 DEF KafkaInv, FailureHeard
<1>7. FlushSettles'
  BY <1>1 DEF FlushSettles
<1>8. QED
  BY <1>1, <1>3, <1>4, <1>5, <1>6, <1>7 DEF KafkaInv

\* The steps of the drain that only move the status.
LEMMA FlushStep ==
  ASSUME KafkaInv, KFlushBegins \/ KFlushReturns
  PROVE  KafkaInv' /\ UNCHANGED <<kGiven, kLog>> /\ KLost' = KLost
<1>1. /\ UNCHANGED <<kGiven, kQueue, kLog, reports, logged>>
      /\ kStatus \in {"open", "flushing"} /\ kStatus' \in {"flushing", "flushed"}
  BY DEF KFlushBegins, KFlushReturns
<1>2. KafkaTypes'
  BY <1>1 DEF KafkaInv, KafkaTypes, InLog
<1>3. QueueOrdered' /\ LogBehind' /\ LogOrdered'
  BY <1>1 DEF KafkaInv, QueueOrdered, LogBehind, LogOrdered, InLog
<1>4. KLost' = KLost
  BY <1>1 DEF KLost, InLog
<1>5. FailureHeard'
  BY <1>1, <1>4 DEF KafkaInv, FailureHeard
<1>6. FlushSettles'
  <2>1. CASE KFlushBegins
    BY <2>1 DEF KFlushBegins, FlushSettles
  <2>2. CASE KFlushReturns
    <3>1. kResult' = Buffered
      BY <2>2 DEF KFlushReturns, FlushCount
    <3>2. /\ Buffered \in Nat /\ Cardinality(kGiven \ (InLog \cup logged)) <= Buffered
          /\ Cardinality(kGiven \ (InLog \cup logged)) \in Nat
          /\ Buffered = 0 => kGiven \subseteq InLog \cup logged
      BY <1>1, MissingBuffered
    <3>3. InLog' = InLog
      BY <1>1 DEF InLog
    <3>4. QED
      BY <1>1, <3>1, <3>2, <3>3 DEF FlushSettles
  <2>3. QED
    BY <2>1, <2>2
<1>7. QED
  BY <1>1, <1>2, <1>3, <1>4, <1>5, <1>6 DEF KafkaInv

\* The step of the producer's invariant, one case per action.
LEMMA KafkaStep == KafkaInv /\ [KafkaNext]_kafkaVars => KafkaInv'
<1> SUFFICES ASSUME KafkaInv, [KafkaNext]_kafkaVars PROVE KafkaInv'
  OBVIOUS
<1>1. ASSUME NEW t \in KTrades, KProduce(t) PROVE KafkaInv'
  BY <1>1, ProduceStep
<1>2. CASE KPoll
  BY <1>2, PollStep
<1>3. CASE KFlushBegins \/ KFlushReturns
  BY <1>3, FlushStep
<1>4. CASE BrokerAppends
  BY <1>4, AppendStep
<1>5. CASE Acked
  BY <1>5, ReportStep DEF Acked
<1>6. CASE Expires
  BY <1>6, ReportStep DEF Expires
<1>7. CASE UNCHANGED kafkaVars
  BY <1>7 DEF kafkaVars, KafkaInv, KafkaTypes, QueueOrdered, LogBehind, LogOrdered, InLog,
     FailureHeard, KLost, FlushSettles
<1>8. QED
  BY <1>1, <1>2, <1>3, <1>4, <1>5, <1>6, <1>7 DEF KafkaNext

\* A new sink satisfies the invariant.
LEMMA KafkaStarts == KafkaInit => KafkaInv
<1> SUFFICES ASSUME KafkaInit PROVE KafkaInv
  OBVIOUS
<1>1. /\ kGiven = {} /\ kQueue = <<>> /\ kLog = <<>> /\ reports = {} /\ kStatus = "open"
  BY DEF KafkaInit
<1>2. /\ DOMAIN kQueue = {} /\ DOMAIN kLog = {} /\ kQueue \in Seq(Nat) /\ kLog \in Seq(Nat)
  BY <1>1, EmptySeq
<1>3. InLog = {} /\ ToSet(kQueue) = {} /\ KLost = {}
  BY <1>1, <1>2 DEF InLog, ToSet, KLost
<1>4. Cardinality(kGiven) = 0 /\ 1..0 = {} /\ IsFiniteSet(reports)
  BY <1>1, FS_EmptySet
<1>5. KafkaTypes
  BY <1>1, <1>2, <1>3, <1>4 DEF KafkaTypes
<1>6. QED
  BY <1>1, <1>2, <1>3, <1>5 DEF KafkaInv, QueueOrdered, LogBehind, LogOrdered, FailureHeard,
     FlushSettles

\* Trades of a key reach their partition in order and once, and one that does
\* not is heard of: by an exception, a log line or the number flush returns
\* (producer.py produce, poll, flush and _on_delivery over build_config).
THEOREM KafkaDeliversHonestly == KafkaSpec => []DeliveryHonest
<1>1. KafkaInv => DeliveryHonest
  BY DEF KafkaInv, DeliveryHonest
<1>2. QED
  BY <1>1, KafkaStarts, KafkaStep, PTL DEF KafkaSpec

-----------------------------------------------------------------------------
\* Every step of the producer and of the broker is a step of the protocol or
\* changes nothing of it.
LEMMA KafkaServes == KafkaInv /\ [KafkaNext]_kafkaVars => [Promise!Next]_(Promise!sinkVars)
<1> SUFFICES ASSUME KafkaInv, [KafkaNext]_kafkaVars
             PROVE  [Promise!Next]_(Promise!sinkVars)
  OBVIOUS
<1>1. ASSUME NEW t \in KTrades, KProduce(t) PROVE Promise!Next
  <2>1. /\ t \notin kGiven /\ kGiven' = kGiven \cup {t}
        /\ kStatus' = "open" => KLost' = KLost
        /\ kStatus' # "open" => kStatus' = "raised" /\ KLost' = KLost \cup {t}
    BY <1>1, ProduceStep
  <2>2. kStatus = "open" /\ UNCHANGED kResult /\ InLog' = InLog
    BY <1>1 DEF KProduce, InLog
  <2>3. Promise!Produce(t) \/ Promise!ProduceRaises(t)
    BY <2>1, <2>2 DEF Promise!Produce, Promise!ProduceRaises
  <2>4. QED
    BY <2>3 DEF Promise!Next
<1>2. CASE KPoll
  BY <1>2, PollStep DEF Promise!sinkVars, InLog
<1>3. CASE KFlushBegins
  <2>1. Promise!FlushBegins
    BY <1>3, FlushStep DEF KFlushBegins, Promise!FlushBegins, InLog
  <2>2. QED
    BY <2>1 DEF Promise!Next
<1>4. CASE KFlushReturns
  <2>1. /\ UNCHANGED <<kGiven, kLog>> /\ KLost' = KLost
        /\ kStatus = "flushing" /\ kStatus' = "flushed" /\ kResult' = Buffered
    BY <1>4, FlushStep DEF KFlushReturns, FlushCount
  <2>2. /\ IsFiniteSet(ToSet(kQueue)) /\ Cardinality(ToSet(kQueue)) \in Nat
        /\ Cardinality(ToSet(kQueue)) <= Len(kQueue) /\ Len(kQueue) \in Nat
    BY SeqElements DEF KafkaInv, KafkaTypes
  <2>3. Cardinality(reports) \in Nat
    BY FailingSize DEF KafkaInv
  <2>4. Promise!Outstanding \subseteq ToSet(kQueue)
    BY DEF Promise!Outstanding, KLost
  <2>5. IsFiniteSet(Promise!Outstanding)
        /\ Cardinality(Promise!Outstanding) <= Cardinality(ToSet(kQueue))
    BY <2>2, <2>4, FS_Subset
  <2>6. Cardinality(Promise!Outstanding) \in Nat
    BY <2>5, FS_CardinalityType
  <2>7. Buffered \in Nat /\ Buffered >= Cardinality(Promise!Outstanding)
    BY <2>2, <2>3, <2>5, <2>6 DEF Buffered
  <2>8. Promise!Cardinality(Promise!Outstanding) = Cardinality(Promise!Outstanding)
    BY DEF Promise!Cardinality, Cardinality
  <2>9. Promise!FlushReturns
    BY <2>1, <2>7, <2>8 DEF Promise!FlushReturns, InLog
  <2>10. QED
    BY <2>9 DEF Promise!Next
<1>5. CASE BrokerAppends
  <2>1. /\ kStatus # "flushed" /\ KLost' = KLost
        /\ UNCHANGED <<kGiven, kStatus, kResult>>
    BY <1>5, AppendStep DEF BrokerAppends
  <2>2. PICK x \in ToSet(kQueue) \ InLog : InLog' = InLog \cup {x}
    BY <1>5, AppendStep
  <2>3. {x} \in SUBSET Promise!Outstanding /\ {} \in SUBSET Promise!Outstanding
    BY <2>2 DEF Promise!Outstanding, KLost, KafkaInv, KafkaTypes
  <2>4. Promise!Service({x}, {})
    BY <2>1, <2>2 DEF Promise!Service
  <2>5. QED
    BY <2>3, <2>4 DEF Promise!Next
<1>6. ASSUME NEW ok \in BOOLEAN, kStatus # "flushed", kQueue # <<>>, Reported(ok),
             ok => Head(kQueue) \in InLog
      PROVE  Promise!Next
  <2> DEFINE L == {Head(kQueue)} \ InLog
  <2>1. /\ UNCHANGED <<kGiven, kLog, kStatus, kResult>> /\ KLost' = KLost \cup L
        /\ Head(kQueue) \in ToSet(kQueue)
    BY <1>6, ReportStep
  <2>2. L \in SUBSET Promise!Outstanding /\ {} \in SUBSET Promise!Outstanding
    BY <2>1 DEF Promise!Outstanding, KLost, KafkaInv, KafkaTypes
  <2>3. InLog' = InLog \cup {} /\ {} \cap L = {}
    BY <2>1 DEF InLog
  <2> HIDE DEF L
  <2>4. Promise!Service({}, L)
    BY <1>6, <2>1, <2>3 DEF Promise!Service
  <2>5. QED
    BY <2>2, <2>4 DEF Promise!Next
<1>7. CASE Acked
  BY <1>6, <1>7 DEF Acked
<1>8. CASE Expires
  BY <1>6, <1>8 DEF Expires
<1>9. CASE UNCHANGED kafkaVars
  BY <1>9 DEF kafkaVars, Promise!sinkVars, InLog, KLost
<1>10. QED
  BY <1>1, <1>2, <1>3, <1>4, <1>5, <1>7, <1>8, <1>9 DEF KafkaNext

\* The Kafka transport implements the Sink protocol of core/sinks.py, silently: a
\* trade it loses need not raise, but none is stored that was not given, none is
\* both stored and lost, and flush returns at least what is outstanding
\* (producer.py produce, poll and flush).
THEOREM KafkaImplementsSink == KafkaSpec => KafkaKeepsPromise
<1>1. KafkaInit => Promise!Init
  <2> SUFFICES ASSUME KafkaInit PROVE Promise!Init
    OBVIOUS
  <2>1. InLog = {} /\ KLost = {}
    BY DEF KafkaInit, InLog, KLost, ToSet
  <2>2. QED
    BY <2>1 DEF KafkaInit, Promise!Init
<1>2. QED
  BY <1>1, KafkaStarts, KafkaStep, KafkaServes, PTL
     DEF KafkaSpec, KafkaKeepsPromise, Promise!Spec

(***************************************************************************)
(* Producers: one process from its arguments to its exit.                  *)
(***************************************************************************)
-----------------------------------------------------------------------------
(* The process around the runners. *)

\* Of every runner: the native sink's trades add up and a flushed one holds none;
\* it returned because its drain had flushed and raised because it was dead; and
\* a drain is cut off by another one's death alone.
ProcTypes ==
  /\ tasks \subseteq Positions /\ tasks \subseteq DOMAIN venues
  /\ venues \in VenueLists /\ universe \in Universes
  /\ at \in Nat \ {0}
  /\ received \in [Positions -> Int] /\ waiting \in [Positions -> Int]
  /\ buffer \in [Positions -> Int] /\ sent \in [Positions -> Int]
  /\ drainOf = [i \in Positions |-> drainOf[i]] /\ runnerOf = [i \in Positions |-> runnerOf[i]]

Accounted ==
  entry = "native" => \A i \in Positions :
    /\ sent[i] + buffer[i] + waiting[i] = received[i]
    /\ drainOf[i] = "flushed" => buffer[i] = 0

Ended ==
  /\ \A i \in Positions :
       /\ runnerOf[i] = "returned" => drainOf[i] = "flushed"
       /\ runnerOf[i] = "raised" => drainOf[i] = "dead"
       /\ drainOf[i] = "running" => i \in tasks /\ process = "running"
       /\ drainOf[i] = "cancelled" =>
            process = "exited" /\ code = 1 /\ \E j \in tasks : drainOf[j] = "dead"
  /\ code = 0 => process = "exited" /\ AllDone

ProcInv == ProcTypes /\ Accounted /\ Ended

\* The part of the invariant that the loop in main establishes.
LEMMA ProcStarts == ProcInit => ProcInv
<1> SUFFICES ASSUME ProcInit PROVE ProcInv
  OBVIOUS
<1>1. /\ drainOf = Everyone("none") /\ runnerOf = Everyone("none") /\ tasks = {} /\ at = 1
      /\ received = Everyone(0) /\ waiting = Everyone(0) /\ buffer = Everyone(0)
      /\ sent = Everyone(0)
      /\ code = -1 /\ venues \in VenueLists /\ universe \in Universes
  BY DEF ProcInit
<1>2. ProcTypes /\ Accounted /\ Ended
  BY <1>1 DEF ProcTypes, Accounted, Ended, Everyone
<1> QED
  BY <1>2 DEF ProcInv

\* An exit cuts off what runs.
LEMMA ExitKeeps ==
  ASSUME ProcInv, NEW status \in {0, 1}, Exits(status), process # "exited",
         UNCHANGED <<startVars, received, waiting, buffer, sent>>,
         tasks' = tasks, at' = at, status = 0 => AllDone,
         process = "running" => status = 0 \/ \E j \in tasks : runnerOf[j] = "raised"
  PROVE  ProcInv'
<1>1. /\ process' = "exited" /\ code' = status
      /\ \A i \in Positions :
           /\ runnerOf'[i] = IF runnerOf[i] = "running" THEN "cancelled" ELSE runnerOf[i]
           /\ drainOf'[i] = IF drainOf[i] = "running" THEN "cancelled" ELSE drainOf[i]
      /\ DOMAIN drainOf' = Positions /\ DOMAIN runnerOf' = Positions
  BY DEF Exits
<1>2. UNCHANGED <<entry, universe, venues, at, tasks, received, waiting, buffer, sent>>
  BY DEF startVars
<1>3. ProcTypes' /\ Accounted'
  <2>1. ProcTypes'
    <3>1. /\ drainOf' = [i \in Positions |-> drainOf'[i]]
          /\ runnerOf' = [i \in Positions |-> runnerOf'[i]]
      BY DEF Exits
    <3> QED
      BY <1>2, <3>1 DEF ProcInv, ProcTypes
  <2>2. Accounted'
    BY <1>1, <1>2 DEF ProcInv, Accounted
  <2> QED
    BY <2>1, <2>2
<1>4. tasks \subseteq Positions
  BY DEF ProcInv, ProcTypes
<1>5. status = 0 => AllDone'
  BY <1>1, <1>2, <1>4 DEF AllDone
<1>6. ASSUME NEW i \in Positions, drainOf'[i] = "cancelled"
      PROVE  status = 1 /\ \E j \in tasks : drainOf'[j] = "dead"
  <2>1. drainOf[i] = "running"
    BY <1>1, <1>6 DEF ProcInv, Ended
  <2>2. i \in tasks /\ process = "running" /\ runnerOf[i] # "returned"
    BY <2>1 DEF ProcInv, Ended
  <2>3. status = 1
    BY <2>2 DEF AllDone
  <2>4. PICK j \in tasks : runnerOf[j] = "raised"
    BY <2>2, <2>3
  <2>5. drainOf[j] = "dead"
    BY <1>4, <2>4 DEF ProcInv, Ended
  <2>6. drainOf'[j] = "dead"
    BY <1>1, <1>4, <2>4, <2>5
  <2> QED
    BY <2>3, <2>6
<1>7. ASSUME NEW i \in Positions
      PROVE  /\ runnerOf'[i] = "returned" => drainOf'[i] = "flushed"
             /\ runnerOf'[i] = "raised" => drainOf'[i] = "dead"
             /\ drainOf'[i] # "running"
  BY <1>1 DEF ProcInv, Ended
<1>8. Ended'
  BY <1>1, <1>2, <1>5, <1>6, <1>7 DEF Ended
<1> QED
  BY <1>3, <1>8 DEF ProcInv

\* main: what starts, gathers and ends.
LEMMA MainKeeps == ASSUME ProcInv, MainStep \/ Signal PROVE ProcInv'
<1>1. CASE ReadSettings
  BY <1>1, ExitKeeps DEF ReadSettings
<1>2. CASE StartVenue
  <2>1. at \in DOMAIN venues /\ at \in Positions /\ at + 1 \in Nat \ {0}
    BY <1>2, ListsAssumption DEF StartVenue, ProcInv, ProcTypes, Positions
  <2>2. CASE venues[at] \notin Connectors
    BY <1>2, <2>2, ExitKeeps DEF StartVenue
  <2>3. CASE venues[at] \in Connectors
    <3>1. /\ UNCHANGED <<entry, universe, venues, process, code, runnerOf, drainOf, received,
                        waiting, buffer, sent>>
          /\ at' = at + 1 /\ (tasks' = tasks \/ tasks' = tasks \cup {at})
          /\ process = "starting"
      BY <1>2, <2>3 DEF StartVenue, startVars
    <3>2. ProcTypes' /\ Accounted'
      BY <2>1, <3>1 DEF ProcInv, ProcTypes, Accounted
    <3>3. Ended'
      BY <3>1 DEF ProcInv, Ended
    <3> QED
      BY <3>2, <3>3 DEF ProcInv
  <2> QED
    BY <2>2, <2>3
<1>3. CASE Gather
  <2>1. CASE tasks = {}
    BY <1>3, <2>1, ExitKeeps DEF Gather
  <2>2. CASE tasks # {}
    <3>1. /\ UNCHANGED <<entry, universe, venues, at, tasks, code, received, waiting, buffer, sent>>
          /\ process' = "running" /\ process = "starting"
          /\ runnerOf' = [i \in Positions |-> IF i \in tasks THEN "running" ELSE "none"]
          /\ drainOf' = runnerOf'
      BY <1>3, <2>2 DEF Gather, startVars
    <3>2. ProcTypes' /\ Accounted'
      BY <3>1 DEF ProcInv, ProcTypes, Accounted
    <3>3. Ended'
      BY <3>1 DEF ProcInv, Ended
    <3> QED
      BY <3>2, <3>3 DEF ProcInv
  <2> QED
    BY <2>1, <2>2
<1>4. CASE Signal
  BY <1>4 DEF Signal, startVars, ProcInv, ProcTypes, Accounted, Ended, AllDone
<1>5. CASE GatherRaises
  BY <1>5, ExitKeeps DEF GatherRaises
<1>6. CASE GatherReturns
  BY <1>6, ExitKeeps DEF GatherReturns
<1> QED
  BY <1>1, <1>2, <1>3, <1>4, <1>5, <1>6 DEF MainStep

\* What no step of a runner touches.
Process == <<entry, universe, venues, at, tasks, process, code>>

\* A runner's socket, drain and end: one position moves, in a running process.
Moved(i) ==
  /\ ProcTypes'
  /\ \A k \in Positions \ {i} :
       /\ received'[k] = received[k] /\ waiting'[k] = waiting[k] /\ buffer'[k] = buffer[k]
       /\ sent'[k] = sent[k] /\ drainOf'[k] = drainOf[k] /\ runnerOf'[k] = runnerOf[k]

\* What must hold of the position that moves.
LEMMA OneMoves ==
  ASSUME ProcInv, NEW i \in Positions, process = "running", UNCHANGED Process, Moved(i),
         entry = "native" =>
           sent'[i] + buffer'[i] + waiting'[i] = received'[i] /\ (drainOf'[i] = "flushed" => buffer'[i] = 0),
         runnerOf'[i] = "returned" => drainOf'[i] = "flushed",
         runnerOf'[i] = "raised" => drainOf'[i] = "dead",
         drainOf'[i] # "cancelled", drainOf'[i] = "running" => i \in tasks
  PROVE  ProcInv'
<1>1. Accounted'
  BY DEF Moved, Process, ProcInv, Accounted
<1>2. code # 0 /\ \A k \in Positions : drainOf[k] # "cancelled"
  BY DEF ProcInv, Ended
<1>3. \A k \in Positions : drainOf'[k] # "cancelled"
  BY <1>2 DEF Moved
<1>4. Ended'
  BY <1>2, <1>3 DEF Moved, Process, ProcInv, Ended
<1> QED
  BY <1>1, <1>4 DEF Moved, ProcInv

\* The cases of a runner's step.
LEMMA RunnerKeeps ==
  ASSUME ProcInv, NEW i \in Positions, Receives(i) \/ RunnerStep(i) PROVE ProcInv'
<1>1. /\ entry = "native" =>
           sent[i] + buffer[i] + waiting[i] = received[i] /\ (drainOf[i] = "flushed" => buffer[i] = 0)
      /\ runnerOf[i] = "returned" => drainOf[i] = "flushed"
      /\ runnerOf[i] = "raised" => drainOf[i] = "dead"
      /\ drainOf[i] = "cancelled" => process = "exited"
      /\ drainOf[i] = "running" => i \in tasks
  BY DEF ProcInv, Accounted, Ended
<1>2. /\ received[i] \in Int /\ waiting[i] \in Int /\ buffer[i] \in Int /\ sent[i] \in Int
  BY DEF ProcInv, ProcTypes
<1>3. process = "running" /\ UNCHANGED Process
  BY DEF Receives, RunnerStep, SocketStops, DrainTakes, Stored, Throttled, ClientReports,
     ClientRefuses, Flushed, RunnerEnds, Free, startVars, Process
<1>4. CASE Receives(i)
  <2>1. /\ received' = [received EXCEPT ![i] = @ + 1]
        /\ waiting' = [waiting EXCEPT ![i] = @ + 1]
        /\ UNCHANGED <<buffer, sent, drainOf, runnerOf>>
    BY <1>4 DEF Receives, startVars, Sending
  <2>2. Moved(i)
    BY <1>3, <2>1 DEF Moved, Process, ProcInv, ProcTypes
  <2>3. /\ received'[i] = received[i] + 1
        /\ waiting'[i] = waiting[i] + 1
        /\ buffer'[i] = buffer[i]
        /\ sent'[i] = sent[i]
        /\ drainOf'[i] = drainOf[i]
        /\ runnerOf'[i] = runnerOf[i]
    BY <2>1 DEF ProcInv, ProcTypes
  <2> QED
    BY <1>1, <1>2, <1>3, <2>1, <2>2, <2>3, OneMoves
<1>5. CASE SocketStops(i)
  <2>1. /\ UNCHANGED <<received, waiting, buffer, sent, drainOf, runnerOf>>
    BY <1>5 DEF SocketStops, startVars, Sending
  <2>2. Moved(i)
    BY <1>3, <2>1 DEF Moved, Process, ProcInv, ProcTypes
  <2>3. /\ received'[i] = received[i]
        /\ waiting'[i] = waiting[i]
        /\ buffer'[i] = buffer[i]
        /\ sent'[i] = sent[i]
        /\ drainOf'[i] = drainOf[i]
        /\ runnerOf'[i] = runnerOf[i]
    BY <2>1 DEF ProcInv, ProcTypes
  <2> QED
    BY <1>1, <1>2, <1>3, <2>1, <2>2, <2>3, OneMoves
<1>6. CASE DrainTakes(i)
  <2>1. /\ waiting' = [waiting EXCEPT ![i] = @ - 1]
        /\ buffer' = [buffer EXCEPT ![i] = @ + 1]
        /\ UNCHANGED <<received, sent, drainOf, runnerOf>>
        /\ drainOf[i] = "running"
    BY <1>6 DEF DrainTakes, startVars, Sending
  <2>2. Moved(i)
    BY <1>3, <2>1 DEF Moved, Process, ProcInv, ProcTypes
  <2>3. /\ waiting'[i] = waiting[i] - 1
        /\ buffer'[i] = buffer[i] + 1
        /\ received'[i] = received[i]
        /\ sent'[i] = sent[i]
        /\ drainOf'[i] = drainOf[i]
        /\ runnerOf'[i] = runnerOf[i]
    BY <2>1 DEF ProcInv, ProcTypes
  <2> QED
    BY <1>1, <1>2, <1>3, <2>1, <2>2, <2>3, OneMoves
<1>7. CASE Stored(i)
  <2>1. /\ buffer' = [buffer EXCEPT ![i] = 0]
        /\ sent' = [sent EXCEPT ![i] = @ + buffer[i]]
        /\ UNCHANGED <<received, waiting, drainOf, runnerOf>>
    BY <1>7 DEF Stored, startVars, Sending
  <2>2. Moved(i)
    BY <1>3, <2>1 DEF Moved, Process, ProcInv, ProcTypes
  <2>3. /\ buffer'[i] = 0
        /\ sent'[i] = sent[i] + buffer[i]
        /\ received'[i] = received[i]
        /\ waiting'[i] = waiting[i]
        /\ drainOf'[i] = drainOf[i]
        /\ runnerOf'[i] = runnerOf[i]
    BY <2>1 DEF ProcInv, ProcTypes
  <2> QED
    BY <1>1, <1>2, <1>3, <2>1, <2>2, <2>3, OneMoves
<1>8. CASE Throttled(i)
  <2>1. /\ drainOf' = drainOf \/ drainOf' = [drainOf EXCEPT ![i] = "dead"]
        /\ UNCHANGED <<received, waiting, buffer, sent, runnerOf>>
        /\ drainOf[i] = "running"
    BY <1>8 DEF Throttled, startVars, Sending
  <2>2. Moved(i)
    BY <1>3, <2>1 DEF Moved, Process, ProcInv, ProcTypes
  <2>3. /\ drainOf'[i] \in {drainOf[i], "dead"}
        /\ received'[i] = received[i]
        /\ waiting'[i] = waiting[i]
        /\ buffer'[i] = buffer[i]
        /\ sent'[i] = sent[i]
        /\ runnerOf'[i] = runnerOf[i]
    BY <2>1 DEF ProcInv, ProcTypes
  <2> QED
    BY <1>1, <1>2, <1>3, <2>1, <2>2, <2>3, OneMoves
<1>9. CASE ClientReports(i)
  <2>1. PICK delivered \in {0, 1} :
          /\ buffer' = [buffer EXCEPT ![i] = @ - 1]
          /\ sent' = [sent EXCEPT ![i] = @ + delivered]
          /\ UNCHANGED <<received, waiting, drainOf, runnerOf>>
          /\ entry = "kafka"
    BY <1>9 DEF ClientReports, startVars, Sending
  <2>2. Moved(i)
    BY <1>3, <2>1 DEF Moved, Process, ProcInv, ProcTypes
  <2>3. /\ buffer'[i] = buffer[i] - 1
        /\ received'[i] = received[i]
        /\ waiting'[i] = waiting[i]
        /\ drainOf'[i] = drainOf[i]
        /\ runnerOf'[i] = runnerOf[i]
    BY <2>1 DEF ProcInv, ProcTypes
  <2> QED
    BY <1>1, <1>2, <1>3, <2>1, <2>2, <2>3, OneMoves
<1>10. CASE ClientRefuses(i)
  <2>1. /\ waiting' = [waiting EXCEPT ![i] = @ - 1]
        /\ drainOf' = [drainOf EXCEPT ![i] = "dead"]
        /\ UNCHANGED <<received, buffer, sent, runnerOf>>
        /\ entry = "kafka" /\ drainOf[i] = "running"
    BY <1>10 DEF ClientRefuses, startVars, Sending
  <2>2. Moved(i)
    <3>1. ProcTypes'
      <4>1. waiting' \in [Positions -> Int]
        BY <2>1 DEF ProcInv, ProcTypes
      <4>2. drainOf' = [k \in Positions |-> drainOf'[k]]
        BY <2>1 DEF ProcInv, ProcTypes
      <4> QED
        BY <1>3, <2>1, <4>1, <4>2 DEF Process, ProcInv, ProcTypes
    <3> QED
      BY <2>1, <3>1 DEF Moved, ProcInv, ProcTypes
  <2>3. /\ waiting'[i] = waiting[i] - 1
        /\ drainOf'[i] = "dead"
        /\ received'[i] = received[i]
        /\ buffer'[i] = buffer[i]
        /\ sent'[i] = sent[i]
        /\ runnerOf'[i] = runnerOf[i]
    BY <2>1 DEF ProcInv, ProcTypes
  <2> QED
    BY <1>1, <1>2, <1>3, <2>1, <2>2, <2>3, OneMoves
<1>11. CASE Flushed(i)
  <2>1. /\ drainOf' = [drainOf EXCEPT ![i] = "flushed"]
        /\ UNCHANGED <<received, waiting, buffer, sent, runnerOf>>
        /\ drainOf[i] = "running" /\ (entry = "native" => buffer[i] = 0)
    BY <1>11 DEF Flushed, startVars, Sending
  <2>2. Moved(i)
    BY <1>3, <2>1 DEF Moved, Process, ProcInv, ProcTypes
  <2>3. /\ drainOf'[i] = "flushed"
        /\ received'[i] = received[i]
        /\ waiting'[i] = waiting[i]
        /\ buffer'[i] = buffer[i]
        /\ sent'[i] = sent[i]
        /\ runnerOf'[i] = runnerOf[i]
    BY <2>1 DEF ProcInv, ProcTypes
  <2> QED
    BY <1>1, <1>2, <1>3, <2>1, <2>2, <2>3, OneMoves
<1>12. CASE RunnerEnds(i)
  <2>1. /\ runnerOf' = [runnerOf EXCEPT ![i] = IF drainOf[i] = "dead" THEN "raised" ELSE "returned"]
        /\ UNCHANGED <<received, waiting, buffer, sent, drainOf>>
        /\ drainOf[i] \in {"flushed", "dead"}
    BY <1>12 DEF RunnerEnds, startVars, Sending
  <2>2. Moved(i)
    BY <1>3, <2>1 DEF Moved, Process, ProcInv, ProcTypes
  <2>3. /\ runnerOf'[i] = IF drainOf[i] = "dead" THEN "raised" ELSE "returned"
        /\ received'[i] = received[i]
        /\ waiting'[i] = waiting[i]
        /\ buffer'[i] = buffer[i]
        /\ sent'[i] = sent[i]
        /\ drainOf'[i] = drainOf[i]
    BY <2>1 DEF ProcInv, ProcTypes
  <2> QED
    BY <1>1, <1>2, <1>3, <2>1, <2>2, <2>3, OneMoves
<1> QED
  BY <1>4, <1>5, <1>6, <1>7, <1>8, <1>9, <1>10, <1>11, <1>12 DEF RunnerStep

\* Of a bounded set of naturals, one is the largest: the smallest bound is in it.
LEMMA LargestNat ==
  ASSUME NEW n \in Nat, NEW V \in SUBSET (1..n), V # {}
  PROVE  \E x \in V : \A y \in V : y <= x
<1> DEFINE R == {ss \in Nat \X Nat : ss[1] < ss[2]}
           B == {m \in Nat : \A y \in V : y <= m}
<1>1. IsWellFoundedOn(R, Nat)
  BY NatLessThanWellFounded DEF OpToRel
<1>2. n \in B /\ B \subseteq Nat
  OBVIOUS
<1>3. PICK x \in B : \A y \in B : ~(<<y, x>> \in R)
  <2> HIDE DEF R, B
  <2> QED
    BY <1>1, <1>2, WFMin
<1>4. \A y \in B : x <= y
  <2> SUFFICES ASSUME NEW y \in B PROVE x <= y
    OBVIOUS
  <2>1. x \in Nat /\ y \in Nat /\ ~(<<y, x>> \in R)
    BY <1>3
  <2> QED
    BY <2>1
<1>5. x \in V
  <2> SUFFICES ASSUME x \notin V PROVE FALSE
    OBVIOUS
  <2>1. \A y \in V : y \in Nat /\ y >= 1 /\ y <= x /\ y # x
    OBVIOUS
  <2>2. x \in Nat /\ x >= 1
    <3>1. x \in Nat
      BY <1>3
    <3>2. PICK y \in V : TRUE
      OBVIOUS
    <3> QED
      BY <2>1, <3>1, <3>2
  <2>3. x - 1 \in B
    BY <2>1, <2>2
  <2> QED
    BY <1>4, <2>2, <2>3
<1> QED
  BY <1>5

\* from_yaml: a symbol that some entry lists has one instrument, that of the last
\* entry that lists it.
LEMMA LastEntryWins ==
  ASSUME ProcTypes, NEW v, NEW s \in SymbolsFor(v)
  PROVE  Cardinality(Canonical(v, s)) = 1
<1> DEFINE of == {i \in DOMAIN universe : v \in DOMAIN universe[i].venues /\ universe[i].venues[v] = s}
<1>1. of # {} /\ of \in SUBSET (1..Len(universe)) /\ Len(universe) \in Nat
  BY ListsAssumption DEF SymbolsFor, ProcTypes
<1>2. \A i, k \in of : i \in Nat /\ k \in Nat
  BY <1>1
<1>3. Canonical(v, s) = {universe[i].id : i \in {j \in of : \A k \in of : k <= j}}
  BY DEF Canonical
<1> HIDE DEF of
<1>4. PICK m \in of : \A k \in of : k <= m
  BY <1>1, LargestNat
<1>5. {j \in of : \A k \in of : k <= j} = {m}
  BY <1>2, <1>4
<1>6. Canonical(v, s) = {universe[m].id}
  BY <1>3, <1>5
<1> QED
  BY <1>6, FS_Singleton

\* An exit code 0 hides no failure of a sink and, from the native entry, no trade
\* that is not in the stream; a venue is cut off by another's failure alone; and
\* every symbol that is subscribed to has its one instrument: for every universe,
\* list of venues, batch, queue and order of failures and signals.
THEOREM ProcessIsSound == ProcSpec => []ProcessSound
<1>1. ProcInv /\ [ProcNext]_procVars => ProcInv'
  <2> SUFFICES ASSUME ProcInv, [ProcNext]_procVars PROVE ProcInv'
    OBVIOUS
  <2>1. CASE UNCHANGED procVars
    BY <2>1 DEF procVars, startVars, ProcInv, ProcTypes, Accounted, Ended, AllDone
  <2> QED
    BY <2>1, MainKeeps, RunnerKeeps DEF ProcNext
<1>2. ProcInv => ProcessSound
  <2> SUFFICES ASSUME ProcInv PROVE ProcessSound
    OBVIOUS
  <2>1. ExitHonest
    <3> SUFFICES ASSUME code = 0, NEW i \in tasks
                 PROVE  /\ drainOf[i] = "flushed"
                        /\ entry = "native" => sent[i] + waiting[i] = received[i]
      BY DEF ExitHonest
    <3>1. i \in Positions /\ drainOf[i] = "flushed"
      BY DEF ProcInv, ProcTypes, Ended, AllDone
    <3>2. entry = "native" => sent[i] + waiting[i] = received[i]
      BY <3>1 DEF ProcInv, ProcTypes, Accounted
    <3> QED
      BY <3>1, <3>2
  <2>3. CutOffByAnother
    <3> SUFFICES ASSUME NEW i \in tasks, drainOf[i] = "cancelled"
                 PROVE  code = 1 /\ \E j \in tasks \ {i} : drainOf[j] = "dead"
      BY DEF CutOffByAnother
    <3>1. code = 1 /\ \E j \in tasks : drainOf[j] = "dead"
      BY DEF ProcInv, ProcTypes, Ended
    <3> QED
      BY <3>1
  <2>2. SymbolsResolve
    BY LastEntryWins DEF ProcInv, SymbolsResolve
  <2> QED
    BY <2>1, <2>2, <2>3 DEF ProcessSound
<1> QED
  BY <1>1, <1>2, ProcStarts, PTL DEF ProcSpec

(***************************************************************************)
(* Lakehouse: bronze, the two validation flows, Silver and its checks.     *)
(***************************************************************************)
-----------------------------------------------------------------------------
(* The Databricks tables. *)

\* A record that every predicate accepts at a moment.
Acceptable(v, moment) ==
  /\ v.venue # "" /\ v.trade_id # "" /\ v.instrument_id # ""
  /\ v.price # NoNumber /\ v.price > 0 /\ v.size # NoNumber /\ v.size > 0
  /\ v.event_ts_us \in EpochFloor..(moment + OneDay)
  /\ v.side \in {"BUY", "SELL", "UNKNOWN"}

\* A value whose verdict does not depend on when a flow reads it, and the verdict.
Timely(v) == v # Poison => v.event_ts_us <= OneDay + 1
Bad(v) == v = Poison \/ ~Acceptable(v, 1)

\* Bronze is the decoded topic, as far as the flows have come.
BronzeInv ==
  /\ topic \in Seq(Records \cup {Poison}) /\ topicRead \in 0..Len(topic)
  /\ bronze \in Seq(ToSet(bronze)) /\ Len(bronze) = topicRead
  /\ \A i \in 1..topicRead : bronze[i] = Decode(topic[i], <<wipes, i>>)
  /\ atQuarantine \in 0..topicRead /\ atSilver \in 0..topicRead
  /\ clock \in Nat \ {0} /\ wipes \in Nat

\* A row that a flow has read is of an earlier topic, or one of the first n of this.
From(row, v, n) ==
  \E w \in 0..wipes : \E i \in Nat :
    row = Decode(v, <<w, i>>) /\ (w = wipes => i \in 1..n)

QuarantineInv ==
  /\ quarantine \in Seq(ToSet(quarantine))
  /\ \A q \in ToSet(quarantine) : \E v \in Records \cup {Poison} :
       From(q.row, v, atQuarantine) /\ (q.reason = "decode_failed" <=> v = Poison)
  /\ \A i \in 1..atQuarantine : Timely(topic[i]) =>
       ((\E q \in ToSet(quarantine) : q.row = bronze[i]) <=> Bad(topic[i]))

CleanedInv ==
  /\ IsFiniteSet(cleaned)
  /\ \A row \in cleaned : \E v \in Records :
       From(row, v, atSilver) /\ Acceptable(v, clock)
  /\ \A i \in 1..atSilver : Timely(topic[i]) =>
       (bronze[i] \in cleaned <=> ~Bad(topic[i]))

SilverInv ==
  /\ DOMAIN silver = {Key(t) : t \in Delivered}
  /\ \A t \in Delivered : silver[Key(t)].event_ts_us >= t.event_ts_us
  /\ \A k \in DOMAIN silver : silver[k] \in Delivered /\ Key(silver[k]) = k

LakeInv == BronzeInv /\ QuarantineInv /\ CleanedInv /\ SilverInv

-----------------------------------------------------------------------------
\* SQL's logic on truth values that are known.
LEMMA KnownLogic ==
  ASSUME NEW a \in BOOLEAN, NEW b \in BOOLEAN
  PROVE  /\ And3({a}, {b}) = {a /\ b} /\ Or3({a}, {b}) = {a \/ b}
         /\ (Not3({a}) = {TRUE} <=> ~a)
<1>1. CASE a = TRUE /\ b = TRUE
  BY <1>1 DEF And3, Or3, Not3
<1>2. CASE a = TRUE /\ b = FALSE
  BY <1>2 DEF And3, Or3, Not3
<1>3. CASE a = FALSE /\ b = TRUE
  BY <1>3 DEF And3, Or3, Not3
<1>4. CASE a = FALSE /\ b = FALSE
  BY <1>4 DEF And3, Or3, Not3
<1> QED
  BY <1>1, <1>2, <1>3, <1>4

\* A predicate of known value names its reason when it is false.
LEMMA NotKnown ==
  ASSUME NEW c, NEW a \in BOOLEAN, c = {a}
  PROVE  Not3(c) = {TRUE} <=> ~a
  BY KnownLogic

\* The columns of a decoded record, and of bytes that are no trade.
LEMMA Columns8 ==
  ASSUME NEW v, NEW o
  PROVE  /\ v # Poison => Decode(v, o).trade = [c \in Columns |-> {v[c]}]
         /\ v = Poison => Decode(v, o).trade = [c \in Columns |-> {}]
         /\ Decode(v, o).value = v /\ Decode(v, o).offset = o
  BY DEF Decode

\* What each predicate says of a record.
LEMMA PredicatesOf ==
  ASSUME NEW v \in Records, NEW moment \in Nat, NEW o
  PROVE  LET held == Predicates(Decode(v, o).trade, moment)
         IN  /\ held.decode_failed = {TRUE}
             /\ held.missing_key = {v.venue # "" /\ v.trade_id # ""}
             /\ held.missing_instrument = {v.instrument_id # ""}
             /\ held.bad_timestamp = {v.event_ts_us \in EpochFloor..(moment + OneDay)}
             /\ held.bad_price = {v.price # NoNumber /\ v.price > 0}
             /\ held.bad_size = {v.size # NoNumber /\ v.size > 0}
             /\ held.bad_side = {v.side \in {"BUY", "SELL", "UNKNOWN"}}
<1> DEFINE r == Decode(v, o).trade
           held == Predicates(r, moment)
<1>1. /\ r.venue = {v.venue} /\ r.trade_id = {v.trade_id} /\ r.instrument_id = {v.instrument_id}
      /\ r.event_ts_us = {v.event_ts_us} /\ r.price = {v.price} /\ r.size = {v.size}
      /\ r.side = {v.side}
  <2>1. v # Poison
    BY RecordsAssumption
  <2>2. r = [c \in Columns |-> {v[c]}]
    BY <2>1, Columns8
  <2> HIDE DEF r
  <2> QED
    BY <2>2 DEF Columns
<1> HIDE DEF r
<1>2. held.decode_failed = {TRUE}
  BY <1>1 DEF Predicates, IsNotNull, Or3
<1>3. held.missing_key = {v.venue # "" /\ v.trade_id # ""}
  BY <1>1 DEF Predicates, NonEmpty, IsNotNull, Compare, And3
<1>4. held.missing_instrument = {v.instrument_id # ""}
  BY <1>1 DEF Predicates, NonEmpty, IsNotNull, Compare, And3
<1>5. held.bad_timestamp = {v.event_ts_us \in EpochFloor..(moment + OneDay)}
  <2>1. held.bad_timestamp = {v.event_ts_us >= EpochFloor /\ v.event_ts_us <= moment + OneDay}
    BY <1>1 DEF Predicates, IsNotNull, Compare, And3
  <2>2. v.event_ts_us \in Int /\ EpochFloor \in Int /\ moment + OneDay \in Int
    BY RecordsAssumption
  <2> QED
    BY <2>1, <2>2
<1>6. \A x : Positive({x}) = {x # NoNumber /\ x > 0}
  <2> SUFFICES ASSUME NEW x PROVE Positive({x}) = {x # NoNumber /\ x > 0}
    OBVIOUS
  <2>1. CASE x = NoNumber
    BY <2>1 DEF Positive, TryCast, IsNotNull, Compare, And3
  <2>2. CASE x # NoNumber
    <3>1. TryCast({x}) = {x}
      BY <2>2 DEF TryCast
    <3> QED
      BY <2>2, <3>1 DEF Positive, IsNotNull, Compare, And3
  <2> QED
    BY <2>1, <2>2
<1>7. held.bad_price = Positive(r.price) /\ held.bad_size = Positive(r.size)
  BY DEF Predicates
<1>8. /\ held.bad_price = {v.price # NoNumber /\ v.price > 0}
      /\ held.bad_size = {v.size # NoNumber /\ v.size > 0}
  BY <1>1, <1>6, <1>7
<1>9. held.bad_side = {v.side \in {"BUY", "SELL", "UNKNOWN"}}
  <2> DEFINE S == {"BUY", "SELL", "UNKNOWN"}
  <2>1. held.bad_side = And3(IsNotNull(r.side), {\E s \in r.side : s \in S})
    BY <1>1 DEF Predicates, Compare
  <2> DEFINE P == v.side \in S
             E == \E s \in r.side : s \in S
  <2> HIDE DEF S, held
  <2>2. IsNotNull(r.side) = {TRUE} /\ TRUE \in BOOLEAN
    BY <1>1 DEF IsNotNull
  <2>3. E = P /\ P \in BOOLEAN
    <3>1. E \in BOOLEAN /\ P \in BOOLEAN
      OBVIOUS
    <3>2. E => P
      BY <1>1
    <3>3. P => E
      BY <1>1
    <3> HIDE DEF E, P
    <3> QED
      BY <3>1, <3>2, <3>3, Zenon
  <2> HIDE DEF P, E
  <2>5. And3({TRUE}, {P}) = {TRUE /\ P}
    BY <2>2, <2>3, KnownLogic
  <2>6. {TRUE /\ P} = {P}
    BY <2>3
  <2>4. held.bad_side = {v.side \in S}
    BY <2>1, <2>2, <2>3, <2>5, <2>6 DEF P, E
  <2> QED
    BY <2>4 DEF S
<1> HIDE DEF held
<1>10. /\ held.decode_failed = {TRUE}
       /\ held.missing_key = {v.venue # "" /\ v.trade_id # ""}
       /\ held.missing_instrument = {v.instrument_id # ""}
       /\ held.bad_timestamp = {v.event_ts_us \in EpochFloor..(moment + OneDay)}
       /\ held.bad_price = {v.price # NoNumber /\ v.price > 0}
       /\ held.bad_size = {v.size # NoNumber /\ v.size > 0}
       /\ held.bad_side = {v.side \in {"BUY", "SELL", "UNKNOWN"}}
  BY <1>2, <1>3, <1>4, <1>5, <1>8, <1>9
<1> QED
  BY <1>10 DEF held, r

\* Bytes that are no trade fail the first predicate.
LEMMA PoisonPredicate ==
  ASSUME NEW moment, NEW o
  PROVE  Predicates(Decode(Poison, o).trade, moment).decode_failed = {FALSE}
<1> DEFINE r == Decode(Poison, o).trade
<1>1. r.venue = {} /\ r.trade_id = {} /\ r.event_ts_us = {}
  <2>1. r = [c \in Columns |-> {}]
    BY Columns8
  <2> HIDE DEF r
  <2> QED
    BY <2>1 DEF Columns
<1> HIDE DEF r
<1>2. Predicates(r, moment).decode_failed = {FALSE}
  BY <1>1 DEF Predicates, IsNotNull, Or3
<1> QED
  BY <1>2 DEF r

\* classify_trades: bytes that are no trade are named so, a record is accepted when
\* every predicate holds, and is never named so.
LEMMA Verdict ==
  ASSUME NEW v \in Records \cup {Poison}, NEW moment \in Nat, NEW o
  PROVE  LET reason == Classify(Decode(v, o).trade, moment)
         IN  /\ reason = {} <=> v # Poison /\ Acceptable(v, moment)
             /\ reason # {} => (Fact(reason) = "decode_failed" <=> v = Poison)
<1> DEFINE r == Decode(v, o).trade
           held == Predicates(r, moment)
           failed == {i \in DOMAIN Reasons : Not3(held[Reasons[i]]) = {TRUE}}
           reason == Classify(r, moment)
<1>0. DOMAIN Reasons = 1..7
  BY DEF Reasons
<1>1. /\ Reasons[1] = "decode_failed" /\ Reasons[2] = "missing_key"
      /\ Reasons[3] = "missing_instrument" /\ Reasons[4] = "bad_timestamp"
      /\ Reasons[5] = "bad_price" /\ Reasons[6] = "bad_size" /\ Reasons[7] = "bad_side"
  BY DEF Reasons
<1>2. reason = IF failed = {} THEN {}
               ELSE {Reasons[CHOOSE i \in failed : \A k \in failed : i <= k]}
  BY DEF Classify
<1>5. failed \subseteq 1..7
  BY <1>0
<1>6. \A i \in 1..7 : i \in failed <=> Not3(held[Reasons[i]]) = {TRUE}
  BY <1>0
<1>3. CASE v = Poison
  <2>1. Not3(held[Reasons[1]]) = {TRUE}
    BY <1>1, <1>3, PoisonPredicate DEF Not3
  <2>2. 1 \in failed
    <3>1. 1 \in DOMAIN Reasons
      BY <1>0
    <3> QED
      BY <2>1, <3>1
  <2> HIDE DEF failed, reason
  <2>3. (CHOOSE i \in failed : \A k \in failed : i <= k) = 1
    <3>1. \A k \in failed : 1 <= k /\ k \in Int
      BY <1>5
    <3>2. \A i \in failed : (\A k \in failed : i <= k) => i = 1
      BY <2>2, <3>1
    <3> QED
      BY <2>2, <3>1, <3>2
  <2>4. reason = {"decode_failed"}
    BY <1>1, <1>2, <2>2, <2>3
  <2>5. Fact(reason) = "decode_failed" /\ reason # {}
    BY <2>4 DEF Fact
  <2> QED
    BY <1>3, <2>5 DEF reason
<1>4. CASE v # Poison
  <2>0. v \in Records
    BY <1>4
  <2>1. /\ held.decode_failed = {TRUE}
        /\ held.missing_key = {v.venue # "" /\ v.trade_id # ""}
        /\ held.missing_instrument = {v.instrument_id # ""}
        /\ held.bad_timestamp = {v.event_ts_us \in EpochFloor..(moment + OneDay)}
        /\ held.bad_price = {v.price # NoNumber /\ v.price > 0}
        /\ held.bad_size = {v.size # NoNumber /\ v.size > 0}
        /\ held.bad_side = {v.side \in {"BUY", "SELL", "UNKNOWN"}}
    BY <2>0, PredicatesOf
  <2> HIDE DEF held
  <2> HIDE DEF failed, reason
  <2>3. /\ 1 \notin failed
        /\ 2 \in failed <=> ~(v.venue # "" /\ v.trade_id # "")
        /\ 3 \in failed <=> ~(v.instrument_id # "")
        /\ 4 \in failed <=> ~(v.event_ts_us \in EpochFloor..(moment + OneDay))
        /\ 5 \in failed <=> ~(v.price # NoNumber /\ v.price > 0)
        /\ 6 \in failed <=> ~(v.size # NoNumber /\ v.size > 0)
        /\ 7 \in failed <=> ~(v.side \in {"BUY", "SELL", "UNKNOWN"})
    <3>1. 1 \in failed <=> ~TRUE
      <4> DEFINE P == TRUE
      <4>1. P \in BOOLEAN /\ 1 \in 1..7
        OBVIOUS
      <4>2. held[Reasons[1]] = {P}
        BY <1>1, <2>1
      <4> HIDE DEF P
      <4>3. 1 \in failed <=> ~P
        BY <1>6, <4>1, <4>2, NotKnown
      <4> QED
        BY <4>3 DEF P
    <3>2. 2 \in failed <=> ~(v.venue # "" /\ v.trade_id # "")
      <4> DEFINE P == v.venue # "" /\ v.trade_id # ""
      <4>1. P \in BOOLEAN /\ 2 \in 1..7
        OBVIOUS
      <4>2. held[Reasons[2]] = {P}
        BY <1>1, <2>1
      <4> HIDE DEF P
      <4>3. 2 \in failed <=> ~P
        BY <1>6, <4>1, <4>2, NotKnown
      <4> QED
        BY <4>3 DEF P
    <3>3. 3 \in failed <=> ~(v.instrument_id # "")
      <4> DEFINE P == v.instrument_id # ""
      <4>1. P \in BOOLEAN /\ 3 \in 1..7
        OBVIOUS
      <4>2. held[Reasons[3]] = {P}
        BY <1>1, <2>1
      <4> HIDE DEF P
      <4>3. 3 \in failed <=> ~P
        BY <1>6, <4>1, <4>2, NotKnown
      <4> QED
        BY <4>3 DEF P
    <3>4. 4 \in failed <=> ~(v.event_ts_us \in EpochFloor..(moment + OneDay))
      <4> DEFINE P == v.event_ts_us \in EpochFloor..(moment + OneDay)
      <4>1. P \in BOOLEAN /\ 4 \in 1..7
        OBVIOUS
      <4>2. held[Reasons[4]] = {P}
        BY <1>1, <2>1
      <4> HIDE DEF P
      <4>3. 4 \in failed <=> ~P
        BY <1>6, <4>1, <4>2, NotKnown
      <4> QED
        BY <4>3 DEF P
    <3>5. 5 \in failed <=> ~(v.price # NoNumber /\ v.price > 0)
      <4> DEFINE P == v.price # NoNumber /\ v.price > 0
      <4>1. P \in BOOLEAN /\ 5 \in 1..7
        OBVIOUS
      <4>2. held[Reasons[5]] = {P}
        BY <1>1, <2>1
      <4> HIDE DEF P
      <4>3. 5 \in failed <=> ~P
        BY <1>6, <4>1, <4>2, NotKnown
      <4> QED
        BY <4>3 DEF P
    <3>6. 6 \in failed <=> ~(v.size # NoNumber /\ v.size > 0)
      <4> DEFINE P == v.size # NoNumber /\ v.size > 0
      <4>1. P \in BOOLEAN /\ 6 \in 1..7
        OBVIOUS
      <4>2. held[Reasons[6]] = {P}
        BY <1>1, <2>1
      <4> HIDE DEF P
      <4>3. 6 \in failed <=> ~P
        BY <1>6, <4>1, <4>2, NotKnown
      <4> QED
        BY <4>3 DEF P
    <3>7. 7 \in failed <=> ~(v.side \in {"BUY", "SELL", "UNKNOWN"})
      <4> DEFINE P == v.side \in {"BUY", "SELL", "UNKNOWN"}
      <4>1. P \in BOOLEAN /\ 7 \in 1..7
        OBVIOUS
      <4>2. held[Reasons[7]] = {P}
        BY <1>1, <2>1
      <4> HIDE DEF P
      <4>3. 7 \in failed <=> ~P
        BY <1>6, <4>1, <4>2, NotKnown
      <4> QED
        BY <4>3 DEF P
    <3> QED
      BY <3>1, <3>2, <3>3, <3>4, <3>5, <3>6, <3>7
  <2>5. failed = {} <=> Acceptable(v, moment)
    <3>1. \A i \in failed : i = 1 \/ i = 2 \/ i = 3 \/ i = 4 \/ i = 5 \/ i = 6 \/ i = 7
      BY <1>5
    <3>2. failed = {} <=> /\ 2 \notin failed /\ 3 \notin failed /\ 4 \notin failed
                          /\ 5 \notin failed /\ 6 \notin failed /\ 7 \notin failed
      BY <2>3, <3>1
    <3> QED
      BY <2>3, <3>2 DEF Acceptable
  <2>6. ASSUME failed # {} PROVE reason # {} /\ Fact(reason) # "decode_failed"
    <3> DEFINE m == CHOOSE i \in failed : \A k \in failed : i <= k
    <3>1. \E i \in failed : \A k \in failed : i <= k
      <4>1. failed \in SUBSET Nat
        BY <1>5
      <4> QED
        BY <2>6, <4>1, SmallestOf
    <3>2. m \in failed
      BY <3>1
    <3>3. reason = {Reasons[m]}
      BY <1>2, <2>6
    <3> HIDE DEF m
    <3>4. m \in 2..7
      <4>1. m \in 1..7 /\ m # 1
        BY <1>5, <2>3, <3>2
      <4> QED
        BY <4>1
    <3>5. Reasons[m] # "decode_failed"
      BY <1>1, <3>4
    <3> QED
      BY <3>3, <3>5 DEF Fact
  <2>7. failed = {} => reason = {}
    BY <1>2
  <2> QED
    BY <1>4, <2>5, <2>6, <2>7 DEF reason
<1> QED
  BY <1>3, <1>4

\* The fact of a decoded record is the record.
LEMMA ProjectIs ==
  ASSUME NEW v \in Records, NEW o
  PROVE  Project(Decode(v, o).trade) = v
<1>1. v # Poison
  BY RecordsAssumption
<1>2. Decode(v, o).trade = [c \in Columns |-> {v[c]}]
  BY <1>1, Columns8
<1>3. \A x : Fact({x}) = x
  BY DEF Fact
<1>4. Project(Decode(v, o).trade) = [c \in Columns |-> v[c]]
  BY <1>2, <1>3 DEF Project
<1>5. v = [c \in Columns |-> v[c]]
  BY RecordsAssumption DEF Columns
<1> QED
  BY <1>4, <1>5

\* What is acceptable stays so, and a timely value is judged alike at any time.
LEMMA Timeless ==
  /\ \A v \in Records, n, m \in Nat : n <= m /\ Acceptable(v, n) => Acceptable(v, m)
  /\ \A v \in Records \cup {Poison}, n \in Nat \ {0} : \A o :
       Timely(v) => (Classify(Decode(v, o).trade, n) # {} <=> Bad(v))
<1>1. ASSUME NEW v \in Records, NEW n \in Nat, NEW m \in Nat,
             n <= m \/ (m >= 1 /\ v.event_ts_us <= OneDay + 1), Acceptable(v, n)
      PROVE  Acceptable(v, m)
  <2>1. v.event_ts_us \in Int /\ EpochFloor \in Int /\ OneDay \in Nat
    BY RecordsAssumption
  <2>2. v.event_ts_us \in EpochFloor..(n + OneDay)
    BY <1>1 DEF Acceptable
  <2>3. v.event_ts_us \in EpochFloor..(m + OneDay)
    BY <1>1, <2>1, <2>2
  <2> QED
    BY <1>1, <2>3 DEF Acceptable
<1>2. ASSUME NEW v \in Records \cup {Poison}, NEW n \in Nat \ {0}, NEW o, Timely(v)
      PROVE  Classify(Decode(v, o).trade, n) # {} <=> Bad(v)
  <2>1. Classify(Decode(v, o).trade, n) = {} <=> v # Poison /\ Acceptable(v, n)
    BY Verdict
  <2>2. v # Poison => v \in Records /\ v.event_ts_us <= OneDay + 1
    BY <1>2 DEF Timely
  <2>3. v # Poison => (Acceptable(v, n) <=> Acceptable(v, 1))
    BY <1>1, <2>2
  <2> QED
    BY <2>1, <2>3 DEF Bad
<1> QED
  BY <1>1, <1>2

\* A row of this topic's Bronze comes from its message, and is told from every other.
LEMMA RowsApart ==
  ASSUME BronzeInv, NEW i \in 1..topicRead
  PROVE  /\ topic[i] \in Records \cup {Poison}
         /\ bronze[i] = Decode(topic[i], <<wipes, i>>)
         /\ \A n \in Nat : n >= i => From(bronze[i], topic[i], n)
         /\ \A n \in Nat : \A v : From(bronze[i], v, n) => i <= n /\ v = topic[i]
<1>1. /\ topicRead \in Nat /\ wipes \in Nat /\ i \in 1..Len(topic) /\ i \in Nat
      /\ bronze[i] = Decode(topic[i], <<wipes, i>>)
  BY DEF BronzeInv
<1>2. topic[i] \in Records \cup {Poison}
  BY <1>1 DEF BronzeInv
<1>3. ASSUME NEW n \in Nat, n >= i PROVE From(bronze[i], topic[i], n)
  BY <1>1, <1>3 DEF From
<1>4. ASSUME NEW n \in Nat, NEW v, From(bronze[i], v, n) PROVE i <= n /\ v = topic[i]
  <2>1. PICK w \in 0..wipes, k \in Nat :
          bronze[i] = Decode(v, <<w, k>>) /\ (w = wipes => k \in 1..n)
    BY <1>4 DEF From
  <2>2. bronze[i].offset = <<w, k>> /\ bronze[i].value = v
    BY <2>1 DEF Decode
  <2>3. bronze[i].offset = <<wipes, i>> /\ bronze[i].value = topic[i]
    BY <1>1 DEF Decode
  <2>4. w = wipes /\ k = i
    BY <2>2, <2>3
  <2> QED
    BY <2>1, <2>2, <2>3, <2>4
<1> QED
  BY <1>1, <1>2, <1>3, <1>4

\* What is appended to a sequence is its new element.
LEMMA AppendsOne ==
  ASSUME NEW S, NEW s \in Seq(S), NEW x
  PROVE  /\ s \o <<x>> \in Seq(ToSet(s \o <<x>>)) /\ ToSet(s \o <<x>>) = ToSet(s) \cup {x}
<1> DEFINE t == s \o <<x>>
<1>1. s \in Seq(S \cup {x}) /\ <<x>> \in Seq(S \cup {x}) /\ Len(s) \in Nat
  OBVIOUS
<1>2. /\ t \in Seq(S \cup {x}) /\ Len(t) = Len(s) + 1 /\ DOMAIN t = 1..(Len(s) + 1)
      /\ DOMAIN s = 1..Len(s)
      /\ \A i \in 1..Len(s) : t[i] = s[i]
      /\ t[Len(s) + 1] = x
  BY <1>1
<1> HIDE DEF t
<1>3. ToSet(t) = ToSet(s) \cup {x}
  <2>1. \A i \in 1..(Len(s) + 1) : i \in 1..Len(s) \/ i = Len(s) + 1
    BY <1>1
  <2>2. \A i \in 1..Len(s) : i \in 1..(Len(s) + 1)
    BY <1>1
  <2>3. Len(s) + 1 \in 1..(Len(s) + 1)
    BY <1>1
  <2> QED
    BY <1>2, <2>1, <2>2, <2>3 DEF ToSet
<1>4. t \in Seq(ToSet(t))
  BY <1>2 DEF ToSet
<1> QED
  BY <1>3, <1>4 DEF t


\* What is delivered are records.
LEMMA DeliveredRecords ==
  ASSUME LakeInv PROVE Delivered \subseteq Records
<1> SUFFICES ASSUME NEW row \in cleaned PROVE Project(row.trade) \in Records
  BY DEF Delivered
<1>1. PICK v \in Records : From(row, v, atSilver)
  BY DEF LakeInv, CleanedInv
<1>2. PICK o : row = Decode(v, o)
  BY <1>1 DEF From
<1> QED
  BY <1>2, ProjectIs

\* Time, a message or nothing: the flows have come as far as they had.
LEMMA FlowsWait ==
  ASSUME LakeInv,
         UNCHANGED <<topicRead, bronze, atQuarantine, atSilver, quarantine, cleaned, silver, wipes>>,
         topic' \in Seq(Records \cup {Poison}), topicRead <= Len(topic'),
         \A i \in 1..topicRead : topic'[i] = topic[i],
         clock' \in Nat \ {0}, clock <= clock'
  PROVE  LakeInv'
<1>0. topicRead \in Nat /\ atQuarantine \in 0..topicRead /\ atSilver \in 0..topicRead
      /\ clock \in Nat /\ Len(topic') \in Nat
  BY DEF LakeInv, BronzeInv
<1>1. BronzeInv'
  BY <1>0 DEF LakeInv, BronzeInv
<1>2. \A row, v, n : From(row, v, n)' <=> From(row, v, n)
  BY DEF From
<1>3. /\ \A i \in 1..atQuarantine : topic'[i] = topic[i]
      /\ \A i \in 1..atSilver : topic'[i] = topic[i]
  BY <1>0
<1>4. QuarantineInv'
  BY <1>2, <1>3 DEF LakeInv, QuarantineInv
<1>5. \A v \in Records : Acceptable(v, clock) => Acceptable(v, clock')
  BY <1>0, Timeless
<1>6. CleanedInv'
  BY <1>2, <1>3, <1>5 DEF LakeInv, CleanedInv
<1>7. SilverInv'
  BY DEF LakeInv, SilverInv, Delivered
<1> QED
  BY <1>1, <1>4, <1>6, <1>7 DEF LakeInv

\* bronze_trades_stream: the rest of the topic is decoded.
LEMMA BronzeKeeps == ASSUME LakeInv, BronzeFlow PROVE LakeInv'
<1> DEFINE more == [i \in 1..(Len(topic) - topicRead) |-> Decode(topic[topicRead + i], <<wipes, topicRead + i>>)]
           n == Len(topic)
           m == topicRead
           all == bronze'
<1>1. /\ UNCHANGED <<topic, atQuarantine, atSilver, quarantine, cleaned, silver, clock, wipes>>
      /\ bronze' = bronze \o more /\ topicRead' = n /\ m < n
  BY DEF BronzeFlow
<1>2. /\ m \in Nat /\ n \in Nat /\ n - m \in Nat /\ Len(bronze) = m
      /\ bronze \in Seq(ToSet(bronze))
      /\ \A i \in 1..m : bronze[i] = Decode(topic[i], <<wipes, i>>)
      /\ atQuarantine \in 0..m /\ atSilver \in 0..m
  BY <1>1 DEF LakeInv, BronzeInv
<1>3. /\ DOMAIN all = 1..n /\ Len(all) = n
      /\ \A i \in 1..m : all[i] = bronze[i]
      /\ \A i \in 1..(n - m) : all[m + i] = more[i]
      /\ all \in Seq(ToSet(all))
  <2> DEFINE S == ToSet(bronze) \cup {more[i] : i \in 1..(n - m)}
  <2>1. bronze \in Seq(S) /\ more \in Seq(S) /\ Len(more) = n - m
    <3>1. \A i \in 1..(n - m) : more[i] \in S
      OBVIOUS
    <3>2. ToSet(bronze) \subseteq S
      OBVIOUS
    <3> HIDE DEF S
    <3>3. bronze \in Seq(S)
      BY <1>2, <3>2
    <3>4. n - m \in Nat /\ more = [i \in 1..(n - m) |-> more[i]]
      BY <1>2
    <3> HIDE DEF more, n, m
    <3> QED
      BY <3>1, <3>3, <3>4
  <2> HIDE DEF S, more, n, m
  <2>2. /\ bronze \o more \in Seq(S) /\ Len(bronze \o more) = m + (n - m)
        /\ \A i \in 1..m : (bronze \o more)[i] = bronze[i]
        /\ \A i \in 1..(n - m) : (bronze \o more)[m + i] = more[i]
    BY <1>2, <2>1
  <2>3. m + (n - m) = n
    BY <1>2
  <2>4. all \in Seq(S) /\ Len(all) = n /\ DOMAIN all = 1..n
    BY <1>1, <2>2, <2>3
  <2> HIDE DEF all
  <2>5. all \in Seq(ToSet(all))
    BY <2>4 DEF ToSet
  <2> QED
    BY <1>1, <2>2, <2>4, <2>5 DEF all
<1>4. \A i \in 1..n : all[i] = Decode(topic[i], <<wipes, i>>)
  <2> SUFFICES ASSUME NEW i \in 1..n PROVE all[i] = Decode(topic[i], <<wipes, i>>)
    OBVIOUS
  <2> HIDE DEF all, n, m, more
  <2>1. CASE i <= m
    BY <1>2, <1>3, <2>1
  <2>2. CASE i > m
    <3>1. i - m \in 1..(n - m) /\ m + (i - m) = i
      BY <1>2, <2>2
    <3>2. all[i] = more[i - m]
      BY <1>3, <3>1
    <3> QED
      BY <3>1, <3>2 DEF more, m, n
  <2> QED
    BY <1>2, <2>1, <2>2
<1>5. BronzeInv'
  <2>1. atQuarantine \in 0..n /\ atSilver \in 0..n /\ n \in 0..n
    BY <1>1, <1>2
  <2> QED
    BY <1>1, <1>3, <1>4, <2>1 DEF LakeInv, BronzeInv
<1>6. \A row, v, k : From(row, v, k)' <=> From(row, v, k)
  BY <1>1 DEF From
<1>7. /\ \A i \in 1..atQuarantine : bronze'[i] = bronze[i]
      /\ \A i \in 1..atSilver : bronze'[i] = bronze[i]
  BY <1>2, <1>3
<1>8. QuarantineInv'
  BY <1>1, <1>6, <1>7 DEF LakeInv, QuarantineInv
<1>9. CleanedInv'
  BY <1>1, <1>6, <1>7 DEF LakeInv, CleanedInv
<1>10. SilverInv'
  BY <1>1 DEF LakeInv, SilverInv, Delivered
<1> QED
  BY <1>5, <1>8, <1>9, <1>10 DEF LakeInv

\* A row stays known as a flow goes on.
LEMMA FromGrows ==
  ASSUME BronzeInv, NEW row, NEW v, NEW n \in Nat, NEW k \in Nat, n <= k, From(row, v, n)
  PROVE  From(row, v, k)
<1>1. 1..n \subseteq 1..k
  OBVIOUS
<1> QED
  BY <1>1 DEF From

\* silver_trades_quarantine: the next row, with its reason or not at all.
LEMMA QuarantineKeeps == ASSUME LakeInv, QuarantineFlow PROVE LakeInv'
<1> DEFINE n == atQuarantine
           row == bronze[n + 1]
           v == topic[n + 1]
           reason == Classify(row.trade, clock)
<1>1. /\ UNCHANGED <<topic, topicRead, bronze, atSilver, cleaned, silver, clock, wipes>>
      /\ n < Len(bronze) /\ atQuarantine' = n + 1
      /\ quarantine' = quarantine \o Quarantined(row, reason)
  BY DEF QuarantineFlow
<1>2. /\ n \in Nat /\ topicRead \in Nat /\ n + 1 \in 1..topicRead /\ clock \in Nat \ {0}
      /\ atQuarantine' \in 0..topicRead /\ n + 1 \in Nat /\ n + 1 >= n + 1
  BY <1>1 DEF LakeInv, BronzeInv
<1>3. BronzeInv /\ BronzeInv'
  BY <1>1, <1>2 DEF LakeInv, BronzeInv
<1>4. \A r, u, k : From(r, u, k)' <=> From(r, u, k)
  BY <1>1 DEF From
<1>5. CleanedInv' /\ SilverInv'
  BY <1>1, <1>4 DEF LakeInv, CleanedInv, SilverInv, Delivered
<1>6. /\ v \in Records \cup {Poison} /\ row = Decode(v, <<wipes, n + 1>>)
      /\ From(row, v, n + 1)
      /\ \A k \in Nat : \A u : From(row, u, k) => n + 1 <= k /\ u = v
  BY <1>2, <1>3, RowsApart
<1>7. /\ reason = {} <=> v # Poison /\ Acceptable(v, clock)
      /\ reason # {} => (Fact(reason) = "decode_failed" <=> v = Poison)
      /\ Timely(v) => (reason # {} <=> Bad(v))
  <2>1. v \in Records \cup {Poison} /\ row = Decode(v, <<wipes, n + 1>>)
    BY <1>6
  <2>2. clock \in Nat \ {0} /\ clock \in Nat
    BY <1>2
  <2> HIDE DEF v, row
  <2>3. /\ reason = {} <=> v # Poison /\ Acceptable(v, clock)
        /\ reason # {} => (Fact(reason) = "decode_failed" <=> v = Poison)
    BY <2>1, <2>2, Verdict
  <2>4. Timely(v) => (reason # {} <=> Bad(v))
    BY <2>1, <2>2, Timeless
  <2> QED
    BY <2>3, <2>4
<1>8. \A q \in ToSet(quarantine) : \E u \in Records \cup {Poison} :
        From(q.row, u, n) /\ (q.reason = "decode_failed" <=> u = Poison)
  BY DEF LakeInv, QuarantineInv
<1>9. \A r, u : From(r, u, n) => From(r, u, n + 1)
  BY <1>2, <1>3, FromGrows
<1>10. \A q \in ToSet(quarantine) : q.row # row
  <2> SUFFICES ASSUME NEW q \in ToSet(quarantine), q.row = row PROVE FALSE
    OBVIOUS
  <2>1. PICK u \in Records \cup {Poison} : From(row, u, n)
    BY <1>8
  <2>2. n + 1 <= n
    BY <1>2, <1>6, <2>1
  <2> QED
    BY <1>2, <2>2
<1>11. \A i \in 1..n : Timely(topic[i]) =>
         ((\E q \in ToSet(quarantine) : q.row = bronze[i]) <=> Bad(topic[i]))
  BY DEF LakeInv, QuarantineInv
<1>12. \A i \in 1..n : bronze[i] # row
  <2> SUFFICES ASSUME NEW i \in 1..n, bronze[i] = row PROVE FALSE
    OBVIOUS
  <2>1. i \in 1..topicRead /\ n >= i
    BY <1>2
  <2>2. From(bronze[i], topic[i], n)
    BY <1>2, <1>3, <2>1, RowsApart
  <2>3. n + 1 <= n
    BY <1>2, <1>6, <2>2
  <2> QED
    BY <1>2, <2>3
<1>13. \A i \in 1..(n + 1) : i \in 1..n \/ i = n + 1
  BY <1>2
<1>14. quarantine \in Seq(ToSet(quarantine))
  BY DEF LakeInv, QuarantineInv
<1> HIDE DEF n, row, v, reason
<1>15. CASE reason = {}
  <2>1. quarantine' = quarantine
    BY <1>1, <1>14, <1>15 DEF Quarantined
  <2>2. \A q \in ToSet(quarantine) : \E u \in Records \cup {Poison} :
          From(q.row, u, n + 1) /\ (q.reason = "decode_failed" <=> u = Poison)
    BY <1>8, <1>9
  <2>3. \A i \in 1..(n + 1) : Timely(topic[i]) =>
          ((\E q \in ToSet(quarantine) : q.row = bronze[i]) <=> Bad(topic[i]))
    BY <1>7, <1>10, <1>11, <1>13, <1>15 DEF v, row
  <2>4. QuarantineInv'
    BY <1>1, <1>4, <1>14, <2>1, <2>2, <2>3 DEF QuarantineInv
  <2> QED
    BY <1>3, <1>5, <2>4 DEF LakeInv
<1>16. CASE reason # {}
  <2> DEFINE new == [row |-> row, reason |-> Fact(reason)]
  <2>1. quarantine' = quarantine \o <<new>>
    BY <1>1, <1>16 DEF Quarantined
  <2>2. ToSet(quarantine') = ToSet(quarantine) \cup {new} /\ quarantine' \in Seq(ToSet(quarantine'))
    BY <1>14, <2>1, AppendsOne
  <2>3. new.row = row /\ new.reason = Fact(reason)
    OBVIOUS
  <2> HIDE DEF new
  <2>4. \A q \in ToSet(quarantine') : \E u \in Records \cup {Poison} :
          From(q.row, u, n + 1) /\ (q.reason = "decode_failed" <=> u = Poison)
    BY <1>6, <1>7, <1>8, <1>9, <1>16, <2>2, <2>3
  <2>5. \A i \in 1..(n + 1) : Timely(topic[i]) =>
          ((\E q \in ToSet(quarantine') : q.row = bronze[i]) <=> Bad(topic[i]))
    BY <1>7, <1>11, <1>12, <1>13, <1>16, <2>2, <2>3 DEF v, row
  <2>6. QuarantineInv'
    BY <1>1, <1>4, <2>2, <2>4, <2>5 DEF QuarantineInv
  <2> QED
    BY <1>3, <1>5, <2>6 DEF LakeInv
<1> QED
  BY <1>15, <1>16


\* cdc_trades_stream: of one key the later fact stays, and every key that was
\* delivered has one.
LEMMA UpsertKeeps ==
  ASSUME LakeInv, NEW v \in Records, Upsert(v), Delivered' = Delivered \cup {v}
  PROVE  SilverInv'
<1> DEFINE key == Key(v)
<1>1. /\ DOMAIN silver = {Key(t) : t \in Delivered}
      /\ \A t \in Delivered : silver[Key(t)].event_ts_us >= t.event_ts_us
      /\ \A k \in DOMAIN silver : silver[k] \in Delivered /\ Key(silver[k]) = k
  BY DEF LakeInv, SilverInv
<1>2. \A t \in Delivered \cup {v} : t.event_ts_us \in Int
  BY DeliveredRecords, RecordsAssumption
<1>3. CASE key \in DOMAIN silver /\ silver[key].event_ts_us >= v.event_ts_us /\ UNCHANGED silver
  BY <1>1, <1>3 DEF SilverInv
<1>4. CASE /\ \A k \in DOMAIN silver : k = key => silver[k].event_ts_us <= v.event_ts_us
           /\ silver' = Replaced(v)
  <2> HIDE DEF key
  <2>1. /\ DOMAIN silver' = DOMAIN silver \cup {key}
        /\ silver'[key] = v
        /\ \A k \in DOMAIN silver : k # key => silver'[k] = silver[k]
    BY <1>4 DEF Replaced, key
  <2>2. Key(v) = key
    BY DEF key
  <2>3. DOMAIN silver' = {Key(t) : t \in Delivered'}
    BY <1>1, <2>1, <2>2
  <2>4. ASSUME NEW t \in Delivered' PROVE silver'[Key(t)].event_ts_us >= t.event_ts_us
    <3>1. CASE t = v
      <4>1. v.event_ts_us >= v.event_ts_us
        BY <1>2
      <4> QED
        BY <2>1, <2>2, <3>1, <4>1
    <3>2. CASE t \in Delivered /\ Key(t) # key
      BY <1>1, <2>1, <3>2
    <3>3. CASE t \in Delivered /\ Key(t) = key
      <4>1. key \in DOMAIN silver /\ silver[key] \in Delivered
        BY <1>1, <3>3
      <4>2. silver[key].event_ts_us >= t.event_ts_us /\ silver[key].event_ts_us <= v.event_ts_us
        BY <1>1, <1>4, <3>3, <4>1
      <4>3. v.event_ts_us >= t.event_ts_us
        BY <1>2, <3>3, <4>1, <4>2
      <4> QED
        BY <2>1, <3>3, <4>3
    <3> QED
      BY <3>1, <3>2, <3>3
  <2>5. \A k \in DOMAIN silver' : silver'[k] \in Delivered' /\ Key(silver'[k]) = k
    BY <1>1, <2>1, <2>2
  <2> QED
    BY <2>3, <2>4, <2>5 DEF SilverInv
<1> QED
  BY <1>3, <1>4 DEF Upsert

\* silver_trades: the next row is applied, or is quarantine's.
LEMMA SilverKeeps == ASSUME LakeInv, SilverFlow PROVE LakeInv'
<1> DEFINE n == atSilver
           row == bronze[n + 1]
           v == topic[n + 1]
           reason == Classify(row.trade, clock)
<1>1. /\ UNCHANGED <<topic, topicRead, bronze, atQuarantine, quarantine, clock, wipes>>
      /\ n < Len(bronze) /\ atSilver' = n + 1
      /\ IF reason # {} THEN UNCHANGED <<silver, cleaned>>
         ELSE Upsert(Project(row.trade)) /\ cleaned' = cleaned \cup {row}
  BY DEF SilverFlow
<1>2. /\ n \in Nat /\ topicRead \in Nat /\ n + 1 \in 1..topicRead /\ clock \in Nat \ {0}
      /\ atSilver' \in 0..topicRead /\ n + 1 \in Nat /\ n + 1 >= n + 1
  BY <1>1 DEF LakeInv, BronzeInv
<1>3. BronzeInv /\ BronzeInv'
  BY <1>1, <1>2 DEF LakeInv, BronzeInv
<1>4. \A r, u, k : From(r, u, k)' <=> From(r, u, k)
  BY <1>1 DEF From
<1>5. QuarantineInv'
  BY <1>1, <1>4 DEF LakeInv, QuarantineInv
<1>6. /\ v \in Records \cup {Poison} /\ row = Decode(v, <<wipes, n + 1>>)
      /\ From(row, v, n + 1)
      /\ \A k \in Nat : \A u : From(row, u, k) => n + 1 <= k /\ u = v
  BY <1>2, <1>3, RowsApart
<1>7. /\ reason = {} <=> v # Poison /\ Acceptable(v, clock)
      /\ Timely(v) => (reason # {} <=> Bad(v))
  <2>1. v \in Records \cup {Poison} /\ row = Decode(v, <<wipes, n + 1>>)
    BY <1>6
  <2>2. clock \in Nat \ {0} /\ clock \in Nat
    BY <1>2
  <2> HIDE DEF v, row
  <2>3. reason = {} <=> v # Poison /\ Acceptable(v, clock)
    BY <2>1, <2>2, Verdict
  <2>4. Timely(v) => (reason # {} <=> Bad(v))
    BY <2>1, <2>2, Timeless
  <2> QED
    BY <2>3, <2>4
<1>8. \A r \in cleaned : \E u \in Records : From(r, u, n) /\ Acceptable(u, clock)
  BY DEF LakeInv, CleanedInv
<1>9. \A r, u : From(r, u, n) => From(r, u, n + 1)
  BY <1>2, <1>3, FromGrows
<1>10. row \notin cleaned
  <2> SUFFICES ASSUME row \in cleaned PROVE FALSE
    OBVIOUS
  <2>1. PICK u \in Records : From(row, u, n)
    BY <1>8
  <2>2. n + 1 <= n
    BY <1>2, <1>6, <2>1
  <2> QED
    BY <1>2, <2>2
<1>11. \A i \in 1..n : Timely(topic[i]) => (bronze[i] \in cleaned <=> ~Bad(topic[i]))
  BY DEF LakeInv, CleanedInv
<1>12. \A i \in 1..n : bronze[i] # row
  <2> SUFFICES ASSUME NEW i \in 1..n, bronze[i] = row PROVE FALSE
    OBVIOUS
  <2>1. i \in 1..topicRead /\ n >= i
    BY <1>2
  <2>2. From(bronze[i], topic[i], n)
    BY <1>2, <1>3, <2>1, RowsApart
  <2>3. n + 1 <= n
    BY <1>2, <1>6, <2>2
  <2> QED
    BY <1>2, <2>3
<1>13. \A i \in 1..(n + 1) : i \in 1..n \/ i = n + 1
  BY <1>2
<1>14. IsFiniteSet(cleaned)
  BY DEF LakeInv, CleanedInv
<1> HIDE DEF n, row, v, reason
<1>15. CASE reason # {}
  <2>1. UNCHANGED <<silver, cleaned>>
    BY <1>1, <1>15
  <2>2. \A i \in 1..(n + 1) : Timely(topic[i]) => (bronze[i] \in cleaned <=> ~Bad(topic[i]))
    BY <1>7, <1>10, <1>11, <1>13, <1>15 DEF v, row
  <2>3. CleanedInv'
    BY <1>1, <1>4, <1>8, <1>9, <1>14, <2>1, <2>2 DEF CleanedInv
  <2>4. SilverInv'
    BY <2>1 DEF LakeInv, SilverInv, Delivered
  <2> QED
    BY <1>3, <1>5, <2>3, <2>4 DEF LakeInv
<1>16. CASE reason = {}
  <2>1. v \in Records /\ Acceptable(v, clock)
    BY <1>6, <1>7, <1>16
  <2>2. Project(row.trade) = v
    BY <1>6, <2>1, ProjectIs
  <2>3. Upsert(v) /\ cleaned' = cleaned \cup {row}
    BY <1>1, <1>16, <2>2
  <2>4. Delivered' = Delivered \cup {v}
    BY <2>2, <2>3 DEF Delivered
  <2>5. SilverInv'
    BY <2>1, <2>3, <2>4, UpsertKeeps
  <2>6. IsFiniteSet(cleaned')
    BY <1>14, <2>3, FS_AddElement
  <2>7. \A r \in cleaned' : \E u \in Records : From(r, u, n + 1) /\ Acceptable(u, clock)
    BY <1>6, <1>8, <1>9, <2>1, <2>3
  <2>8. \A i \in 1..(n + 1) : Timely(topic[i]) => (bronze[i] \in cleaned' <=> ~Bad(topic[i]))
    BY <1>7, <1>11, <1>12, <1>13, <1>16, <2>3 DEF v, row
  <2>9. CleanedInv'
    BY <1>1, <1>4, <2>6, <2>7, <2>8 DEF CleanedInv
  <2> QED
    BY <1>3, <1>5, <2>5, <2>9 DEF LakeInv
<1> QED
  BY <1>15, <1>16

\* A wipe: the old rows are of an earlier topic from now on.
LEMMA WipeKeeps == ASSUME LakeInv, WipeAndRefresh PROVE LakeInv'
<1>1. /\ wipes' = wipes + 1 /\ topic' = <<>> /\ topicRead' = 0 /\ bronze' = <<>>
      /\ atQuarantine' = 0 /\ atSilver' = 0 /\ UNCHANGED <<silver, cleaned, quarantine, clock>>
  BY DEF WipeAndRefresh, Refreshed
<1>2. wipes \in Nat /\ clock \in Nat \ {0}
  BY DEF LakeInv, BronzeInv
<1>3. BronzeInv'
  <2>1. bronze' \in Seq(ToSet(bronze')) /\ Len(bronze') = 0 /\ Len(topic') = 0
        /\ topic' \in Seq(Records \cup {Poison})
    BY <1>1
  <2> QED
    BY <1>1, <1>2, <2>1 DEF BronzeInv
<1>4. ASSUME NEW r, NEW u, NEW k, From(r, u, k) PROVE From(r, u, 0)'
  <2>1. PICK w \in 0..wipes, i \in Nat : r = Decode(u, <<w, i>>)
    BY <1>4 DEF From
  <2>2. w \in 0..wipes' /\ w # wipes'
    BY <1>1, <1>2
  <2> QED
    BY <2>1, <2>2 DEF From
<1>5. QuarantineInv'
  BY <1>1, <1>4 DEF LakeInv, QuarantineInv
<1>6. CleanedInv'
  BY <1>1, <1>4 DEF LakeInv, CleanedInv
<1>7. SilverInv'
  BY <1>1 DEF LakeInv, SilverInv, Delivered
<1> QED
  BY <1>3, <1>5, <1>6, <1>7 DEF LakeInv

\* Every step of a flow, of a producer, of time and every wipe keeps the invariant.
LEMMA LakeInductive == LakeInv /\ [LakeNext]_lakeVars => LakeInv'
<1> SUFFICES ASSUME LakeInv, [LakeNext]_lakeVars PROVE LakeInv'
  OBVIOUS
<1>0. /\ topic \in Seq(Records \cup {Poison}) /\ topicRead \in 0..Len(topic)
      /\ clock \in Nat \ {0} /\ topicRead \in Nat /\ Len(topic) \in Nat
  BY DEF LakeInv, BronzeInv
<1>1. ASSUME NEW v \in Records \cup {Poison}, Message(v) PROVE LakeInv'
  <2>1. topic' = Append(topic, v)
        /\ UNCHANGED <<topicRead, bronze, atQuarantine, atSilver, quarantine, cleaned, silver, clock, wipes>>
    BY <1>1 DEF Message
  <2>2. /\ topic' \in Seq(Records \cup {Poison}) /\ Len(topic') = Len(topic) + 1
        /\ \A i \in 1..Len(topic) : topic'[i] = topic[i]
    BY <1>0, <2>1
  <2>3. topicRead <= Len(topic') /\ \A i \in 1..topicRead : topic'[i] = topic[i]
    BY <1>0, <2>2
  <2>4. clock' \in Nat \ {0} /\ clock <= clock'
    BY <1>0, <2>1
  <2> QED
    BY <2>1, <2>2, <2>3, <2>4, FlowsWait
<1>2. CASE TimePasses \/ UNCHANGED lakeVars
  <2>1. UNCHANGED <<topic, topicRead, bronze, atQuarantine, atSilver, quarantine, cleaned, silver, wipes>>
        /\ (clock' = clock + 1 \/ clock' = clock)
    BY <1>2 DEF TimePasses, lakeVars
  <2>2. clock' \in Nat \ {0} /\ clock <= clock' /\ topicRead <= Len(topic')
    BY <1>0, <2>1
  <2> QED
    BY <1>0, <2>1, <2>2, FlowsWait
<1> QED
  BY <1>1, <1>2, BronzeKeeps, QuarantineKeeps, SilverKeeps, WipeKeeps DEF LakeNext


-----------------------------------------------------------------------------
\* Nothing has been written yet.
LEMMA LakeStarts == LakeInit => LakeInv
<1> SUFFICES ASSUME LakeInit PROVE LakeInv
  OBVIOUS
<1>1. /\ topic = <<>> /\ topicRead = 0 /\ bronze = <<>> /\ atQuarantine = 0 /\ atSilver = 0
      /\ quarantine = <<>> /\ cleaned = {} /\ silver = <<>> /\ clock = 1 /\ wipes = 0
  BY DEF LakeInit
<1>2. ToSet(quarantine) = {} /\ quarantine \in Seq(ToSet(quarantine))
  BY <1>1 DEF ToSet
<1>3. bronze \in Seq(ToSet(bronze)) /\ Len(bronze) = 0 /\ Len(topic) = 0
      /\ topic \in Seq(Records \cup {Poison})
  BY <1>1
<1>4. BronzeInv
  BY <1>1, <1>3 DEF BronzeInv
<1>5. QuarantineInv
  BY <1>1, <1>2 DEF QuarantineInv
<1>6. CleanedInv
  BY <1>1, FS_EmptySet DEF CleanedInv
<1>7. SilverInv
  BY <1>1 DEF SilverInv, Delivered
<1> QED
  BY <1>4, <1>5, <1>6, <1>7 DEF LakeInv

\* Every predicate held for what is in Silver.
LEMMA SilverTrue == LakeInv => SilverSound
<1> SUFFICES ASSUME LakeInv, NEW k \in DOMAIN silver
             PROVE  Key(silver[k]) = k /\ Acceptable(silver[k], clock)
  BY DEF SilverSound, Acceptable
<1>1. silver[k] \in Delivered /\ Key(silver[k]) = k
  BY DEF LakeInv, SilverInv
<1>2. PICK row \in cleaned : silver[k] = Project(row.trade)
  BY <1>1 DEF Delivered
<1>3. PICK v \in Records : From(row, v, atSilver) /\ Acceptable(v, clock)
  BY DEF LakeInv, CleanedInv
<1>4. PICK o : row = Decode(v, o)
  BY <1>3 DEF From
<1>5. silver[k] = v
  BY <1>2, <1>4, ProjectIs
<1> QED
  BY <1>1, <1>3, <1>5

\* The smaller of two numbers is one of them.
LEMMA MinOfTwo ==
  ASSUME NEW a \in Nat, NEW b \in Nat
  PROVE  Min({a, b}) \in Nat /\ Min({a, b}) <= a /\ Min({a, b}) <= b
<1>1. CASE a <= b
  <2>1. \A x \in {a, b} : (\A y \in {a, b} : x <= y) => x = a
    BY <1>1
  <2>2. Min({a, b}) = a
    BY <1>1, <2>1 DEF Min
  <2> QED
    BY <1>1, <2>2
<1>2. CASE ~(a <= b)
  <2>0. b <= a
    BY <1>2
  <2>1. \A x \in {a, b} : (\A y \in {a, b} : x <= y) => x = b
    BY <2>0
  <2>2. Min({a, b}) = b
    BY <2>0, <2>1 DEF Min
  <2> QED
    BY <2>0, <2>2
<1> QED
  BY <1>1, <1>2

\* A row both flows have read went to one of the two tables.
LEMMA RoutingTrue == LakeInv => RoutedOnce
<1> SUFFICES ASSUME LakeInv, NEW i \in 1..Min({atQuarantine, atSilver}),
                    bronze[i].trade.event_ts_us = {} \/ Fact(bronze[i].trade.event_ts_us) <= OneDay + 1
             PROVE  (\E q \in ToSet(quarantine) : q.row = bronze[i]) # (bronze[i] \in cleaned)
  BY DEF RoutedOnce
<1>1. /\ atQuarantine \in Nat /\ atSilver \in Nat /\ topicRead \in Nat
      /\ atQuarantine <= topicRead /\ atSilver <= topicRead
  BY DEF LakeInv, BronzeInv
<1>2. i \in 1..atQuarantine /\ i \in 1..atSilver /\ i \in 1..topicRead
  <2>1. /\ Min({atQuarantine, atSilver}) \in Nat
        /\ Min({atQuarantine, atSilver}) <= atQuarantine
        /\ Min({atQuarantine, atSilver}) <= atSilver
    BY <1>1, MinOfTwo
  <2> HIDE DEF Min
  <2> QED
    BY <1>1, <2>1
<1>3. bronze[i] = Decode(topic[i], <<wipes, i>>)
  BY <1>2, RowsApart DEF LakeInv
<1>4. Timely(topic[i])
  <2> SUFFICES ASSUME topic[i] # Poison PROVE topic[i].event_ts_us <= OneDay + 1
    BY DEF Timely
  <2>1. bronze[i].trade = [c \in Columns |-> {topic[i][c]}]
    BY <1>3, Columns8
  <2>2. bronze[i].trade.event_ts_us = {topic[i].event_ts_us}
    BY <2>1 DEF Columns
  <2>3. Fact({topic[i].event_ts_us}) = topic[i].event_ts_us
    BY DEF Fact
  <2> QED
    BY <2>2, <2>3
<1>5. /\ (\E q \in ToSet(quarantine) : q.row = bronze[i]) <=> Bad(topic[i])
      /\ bronze[i] \in cleaned <=> ~Bad(topic[i])
  BY <1>2, <1>4 DEF LakeInv, QuarantineInv, CleanedInv
<1> QED
  BY <1>5

\* Bytes that are no trade are named so.
LEMMA PoisonTrue == LakeInv => PoisonNamed
<1> SUFFICES ASSUME LakeInv, NEW q \in ToSet(quarantine)
             PROVE  q.reason = "decode_failed" <=> q.row.value = Poison
  BY DEF PoisonNamed
<1>1. PICK v \in Records \cup {Poison} :
        From(q.row, v, atQuarantine) /\ (q.reason = "decode_failed" <=> v = Poison)
  BY DEF LakeInv, QuarantineInv
<1>2. PICK o : q.row = Decode(v, o)
  BY <1>1 DEF From
<1>3. q.row.value = v
  BY <1>2 DEF Decode
<1> QED
  BY <1>1, <1>3

\* What a function takes on a finite domain is a finite set.
LEMMA ValuesFinite ==
  ASSUME NEW S, IsFiniteSet(S), NEW f, f \in [S -> {f[x] : x \in S}]
  PROVE  IsFiniteSet({f[x] : x \in S})
<1> DEFINE T == {f[x] : x \in S}
<1>1. f \in Surjection(S, T)
  BY DEF Surjection
<1> HIDE DEF T
<1>2. IsFiniteSet(T)
  BY <1>1, FS_Surjection
<1> QED
  BY <1>2 DEF T

\* A set with two different elements counts more than one.
LEMMA MoreThanOne ==
  ASSUME NEW S, IsFiniteSet(S), NEW a \in S, NEW b \in S, a # b
  PROVE  Cardinality(S) > 1
<1>1. IsFiniteSet({a}) /\ Cardinality({a}) = 1
  BY FS_Singleton
<1>2. IsFiniteSet({a} \cup {b}) /\ Cardinality({a} \cup {b}) = 2
  <2> DEFINE A == {a}
  <2>1. IsFiniteSet(A) /\ Cardinality(A) = 1 /\ b \notin A
    BY <1>1
  <2> HIDE DEF A
  <2>2. IsFiniteSet(A \cup {b}) /\ Cardinality(A \cup {b}) = Cardinality(A) + 1
    BY <2>1, FS_AddElement
  <2> QED
    BY <2>1, <2>2 DEF A
<1>3. {a} \cup {b} \subseteq S
  OBVIOUS
<1>4. Cardinality({a} \cup {b}) <= Cardinality(S) /\ Cardinality(S) \in Nat
  BY <1>3, FS_Subset, FS_CardinalityType
<1> QED
  BY <1>2, <1>4

\* checks.py: what a later fact replaced differently is reported.
LEMMA ReplacedIsReported ==
  ASSUME LakeInv, NEW t \in Delivered, NEW c \in Facts, silver[Key(t)][c] # t[c]
  PROVE  Key(t) \in ImmutabilityViolations(Delivered)
<1> DEFINE of == {u \in Delivered : Key(u) = Key(t)}
           kept == silver[Key(t)]
<1>1. kept \in of /\ t \in of
  BY DEF LakeInv, SilverInv
<1>2. IsFiniteSet(of)
  <2>1. IsFiniteSet(Delivered)
    <3> DEFINE f == [row \in cleaned |-> Project(row.trade)]
    <3>1. IsFiniteSet(cleaned)
      BY DEF LakeInv, CleanedInv
    <3>2. f \in [cleaned -> {f[x] : x \in cleaned}]
      OBVIOUS
    <3>3. Delivered = {f[x] : x \in cleaned}
      BY DEF Delivered
    <3> HIDE DEF f
    <3> QED
      BY <3>1, <3>2, <3>3, ValuesFinite
  <2> QED
    BY <2>1, FS_Subset
<1>3. IsFiniteSet({u[c] : u \in of})
  <2> HIDE DEF of
  <2> DEFINE f == [u \in of |-> u[c]]
  <2>1. f \in [of -> {f[u] : u \in of}]
    OBVIOUS
  <2>2. \A u \in of : f[u] = u[c]
    OBVIOUS
  <2> HIDE DEF f
  <2>3. {u[c] : u \in of} = {f[u] : u \in of}
    BY <2>2
  <2>4. IsFiniteSet({f[u] : u \in of})
    BY <1>2, <2>1, ValuesFinite
  <2> QED
    BY <2>3, <2>4
<1>4. Cardinality({u[c] : u \in of}) > 1
  <2> DEFINE S == {u[c] : u \in of}
  <2>1. kept[c] \in S /\ t[c] \in S
    BY <1>1
  <2> HIDE DEF S
  <2>2. Cardinality(S) > 1
    BY <1>3, <2>1, MoreThanOne DEF S
  <2> QED
    BY <2>2 DEF S
<1>5. Disagrees(Delivered, Key(t))
  BY <1>4 DEF Disagrees
<1> QED
  BY <1>5 DEF ImmutabilityViolations

\* Validation lets nothing malformed through, drops nothing and names what it
\* rejects, for every set of records, however the two flows, the clock and the wipes
\* interleave.
THEOREM ValidationIsSound == LakeSpec => []ValidationSound
<1>1. LakeInv => ValidationSound
  BY SilverTrue, RoutingTrue, PoisonTrue DEF ValidationSound
<1> QED
  BY <1>1, LakeStarts, LakeInductive, PTL DEF LakeSpec

\* Silver holds the latest delivered fact of every key, across copies in any order
\* and wipes, and what it replaced differently is reported.
THEOREM SilverHoldsTheLatest == LakeSpec => []SilverLatest
<1>1. LakeInv => SilverLatest
  <2> SUFFICES ASSUME LakeInv PROVE SilverLatest
    OBVIOUS
  <2>1. ASSUME NEW t \in Delivered,
               \E c \in {"event_ts_us", "price", "size"} : silver[Key(t)][c] # t[c]
        PROVE  Key(t) \in ImmutabilityViolations(Delivered)
    BY <2>1, ReplacedIsReported DEF Facts
  <2>2. /\ DOMAIN silver = {Key(t) : t \in Delivered}
        /\ \A t \in Delivered : silver[Key(t)].event_ts_us >= t.event_ts_us
        /\ \A k \in DOMAIN silver : silver[k] \in Delivered
    BY DEF LakeInv, SilverInv
  <2> QED
    BY <2>1, <2>2 DEF SilverLatest
<1> QED
  BY <1>1, LakeStarts, LakeInductive, PTL DEF LakeSpec

-----------------------------------------------------------------------------
(***************************************************************************)
(* TokenBucket: the rate the producing process keeps to a venue's REST.    *)
(***************************************************************************)

\* Refilling accrues a natural number of units, within the capacity.
LEMMA RefilledFacts ==
  ASSUME TypeOK, BudgetInv
  PROVE  /\ Refilled \in Nat /\ Refilled <= Capacity
         /\ Refilled <= tokens + (now - updated) * Rate
<1>1. now - updated \in Nat /\ tokens \in Nat /\ Capacity \in Nat /\ Rate \in Nat
  BY ConstantsAssumption DEF TypeOK, BudgetInv
<1>2. (now - updated) * Rate \in Nat
  BY <1>1
<1>3. QED
  BY <1>1, <1>2 DEF Refilled, Lesser

\* The whole ticks of a sleep.
LEMMA SleepTicksNat ==
  ASSUME NEW d \in Nat
  PROVE  SleepTicks(d) \in Nat
BY ConstantsAssumption DEF SleepTicks

\* Types are kept.
LEMMA TypeStep == TypeOK /\ BudgetInv /\ [Next]_vars => TypeOK'
<1> SUFFICES ASSUME TypeOK, BudgetInv, [Next]_vars PROVE TypeOK'
  OBVIOUS
<1> USE ConstantsAssumption DEF TypeOK
<1>1. CASE Tick
  BY <1>1 DEF Tick
<1>2. CASE Watch
  BY <1>2 DEF Watch
<1>3. ASSUME NEW t \in Tasks, Grant(t) PROVE TypeOK'
  <2>1. Refilled \in Nat /\ Refilled - Cost \in Nat
    BY <1>3, RefilledFacts DEF Grant
  <2>2. QED
    BY <1>3, <2>1 DEF Grant
<1>4. ASSUME NEW t \in Tasks, Sleep(t) PROVE TypeOK'
  <2>1. Refilled \in Nat /\ Cost - Refilled \in Nat
    BY <1>4, RefilledFacts DEF Sleep
  <2>2. now + SleepTicks(Cost - Refilled) \in Nat
    BY <2>1, SleepTicksNat
  <2>3. QED
    BY <1>4, <2>1, <2>2 DEF Sleep
<1>5. CASE UNCHANGED vars
  BY <1>5 DEF vars
<1>6. QED
  BY <1>1, <1>2, <1>3, <1>4, <1>5 DEF Next, Acquire

\* The units that accrue over two consecutive intervals add up.
LEMMA Accrual ==
  ASSUME NEW a \in Int, NEW b \in Int, NEW c \in Int, NEW r \in Int
  PROVE  r * (b - a) + (c - b) * r = r * (c - a)
OBVIOUS

\* A refill moves the budget to the present, whether or not the window opened
\* after the previous one.
LEMMA BudgetNow ==
  ASSUME TypeOK, BudgetInv
  PROVE  Cost * count + Refilled <= Capacity + Rate * (now - start)
<1>1. /\ now \in Int /\ updated \in Int /\ start \in Int /\ Rate \in Nat /\ Cost \in Nat
      /\ Capacity \in Nat /\ count \in Nat /\ tokens \in Nat
      /\ start <= now /\ updated <= now
  BY ConstantsAssumption DEF TypeOK, BudgetInv
<1>2. Cost * count \in Nat /\ Rate * (now - start) \in Nat
  BY <1>1
<1>3. Refilled \in Nat /\ Refilled <= Capacity /\ Refilled <= tokens + (now - updated) * Rate
  BY RefilledFacts
<1>4. CASE start <= updated
  <2>1. Cost * count + tokens <= Capacity + Rate * (updated - start)
    BY <1>4 DEF BudgetInv
  <2>2. Rate * (updated - start) + (now - updated) * Rate = Rate * (now - start)
    BY <1>1, Accrual
  <2>3. Rate * (updated - start) \in Int /\ (now - updated) * Rate \in Int
    BY <1>1
  <2>4. QED
    BY <1>1, <1>2, <1>3, <2>1, <2>2, <2>3
<1>5. CASE ~(start <= updated)
  <2>1. Cost * count = 0
    BY <1>1, <1>5 DEF BudgetInv
  <2>2. QED
    BY <1>1, <1>2, <1>3, <2>1
<1>6. QED
  BY <1>4, <1>5

\* The step of the budget invariant.
LEMMA BudgetStep == TypeOK /\ BudgetInv /\ [Next]_vars => BudgetInv'
<1> SUFFICES ASSUME TypeOK, BudgetInv, [Next]_vars PROVE BudgetInv'
  OBVIOUS
<1>a. /\ now \in Nat /\ updated \in Nat /\ start \in Nat /\ Rate \in Nat /\ Cost \in Nat
      /\ Capacity \in Nat /\ count \in Nat /\ tokens \in Nat
  BY ConstantsAssumption DEF TypeOK
<1>1. CASE Tick
  BY <1>a, <1>1 DEF Tick, BudgetInv
<1>2. CASE Watch
  <2>1. start' = now /\ count' = 0 /\ UNCHANGED <<now, tokens, updated>>
    BY <1>2 DEF Watch
  <2>2. Cost * 0 = 0 /\ (updated = now => Rate * (updated - now) = 0)
    BY <1>a
  <2>3. QED
    BY <1>a, <2>1, <2>2 DEF BudgetInv
<1>3. ASSUME NEW t \in Tasks, Grant(t) PROVE BudgetInv'
  <2>1. Cost * count + Refilled <= Capacity + Rate * (now - start)
    BY BudgetNow
  <2>2. Refilled \in Nat /\ Refilled <= Capacity /\ Refilled >= Cost
    BY <1>3, RefilledFacts DEF Grant
  <2>3. /\ tokens' = Refilled - Cost /\ updated' = now /\ count' = count + 1
        /\ UNCHANGED <<now, start>>
    BY <1>3 DEF Grant
  <2>4. Cost * (count + 1) = Cost * count + Cost /\ Cost * count \in Nat
    BY <1>a
  <2>5. Rate * (now - start) \in Int
    BY <1>a
  <2>6. Cost * (count + 1) + (Refilled - Cost) <= Capacity + Rate * (now - start)
    BY <1>a, <2>1, <2>2, <2>4, <2>5
  <2>7. QED
    BY <1>a, <2>2, <2>3, <2>6 DEF BudgetInv
<1>4. ASSUME NEW t \in Tasks, Sleep(t) PROVE BudgetInv'
  <2>1. Cost * count + Refilled <= Capacity + Rate * (now - start)
    BY BudgetNow
  <2>2. Refilled \in Nat /\ Refilled <= Capacity
    BY RefilledFacts
  <2>3. tokens' = Refilled /\ updated' = now /\ UNCHANGED <<now, start, count>>
    BY <1>4 DEF Sleep
  <2>4. QED
    BY <1>a, <2>1, <2>2, <2>3 DEF BudgetInv
<1>5. CASE UNCHANGED vars
  BY <1>5 DEF vars, BudgetInv
<1>6. QED
  BY <1>1, <1>2, <1>3, <1>4, <1>5 DEF Next, Acquire

\* Over any window, the requests a bucket grants to any number of tasks cost at
\* most its capacity plus its rate times the length of the window.
THEOREM RateBound == Spec => []RateRespected
<1>1. Init => TypeOK /\ BudgetInv
  <2> SUFFICES ASSUME Init PROVE TypeOK /\ BudgetInv
    OBVIOUS
  <2>1. TypeOK
    BY ConstantsAssumption DEF Init, TypeOK
  <2>2. Cost * 0 = 0 /\ Rate * (0 - 0) = 0 /\ Capacity \in Nat
    BY ConstantsAssumption
  <2>3. QED
    BY <2>1, <2>2 DEF Init, BudgetInv
<1>2. TypeOK /\ BudgetInv /\ [Next]_vars => (TypeOK /\ BudgetInv)'
  BY TypeStep, BudgetStep
<1>3. TypeOK /\ BudgetInv => RateRespected
  <2> SUFFICES ASSUME TypeOK, BudgetInv PROVE RateRespected
    OBVIOUS
  <2>1. Cost * count + Refilled <= Capacity + Rate * (now - start)
    BY BudgetNow
  <2>2. Refilled \in Nat
    BY RefilledFacts
  <2>3. Cost * count \in Int /\ Rate * (now - start) \in Int /\ Capacity \in Int
    BY ConstantsAssumption DEF TypeOK
  <2>4. QED
    BY <2>1, <2>2, <2>3 DEF RateRespected
<1>4. QED
  BY <1>1, <1>2, <1>3, PTL DEF Spec

-----------------------------------------------------------------------------
(***************************************************************************)
(* StreamReader: what the readers of the topic take, and from where.       *)
(***************************************************************************)
\* The copies of the trades of the streams, and what a partition can hold.
Sides == {"BUY", "SELL", "UNKNOWN"}
Copies ==
  {m \in [venue : {s.venue : s \in Streams}, venue_symbol : {s.venue_symbol : s \in Streams},
          instrument_id : {s.instrument_id : s \in Streams},
          trade_id : Nat \ {0}, sequence : Nat, event_ts : Nat \ {0}, ingest_ts : Int,
          price : Nat \ {0}, size : Nat, side : Sides, source : Sources] :
     \E s \in Streams : m.venue = s.venue /\ m.venue_symbol = s.venue_symbol}
Logged == Copies \cup {Junk}
Scopes == {Scope(s) : s \in Streams}

\* What a reader makes of them.
Rows == {Decoded(m, p, o) : m \in Copies, p \in Partitions, o \in Nat \ {0}}

\* Every partition holds copies of the symbols whose key it is given.
LogInv ==
  /\ parts \in [Partitions -> Seq(Logged)] /\ missed \subseteq Copies
  /\ \A p \in Partitions : lowest[p] \in 1..(Len(parts[p]) + 1)
  /\ lowest \in [Partitions -> Nat]
  /\ \A p \in Partitions : \A i \in 1..Len(parts[p]) :
       parts[p][i] # Junk => Home[parts[p][i].venue_symbol] = p

\* What was taken is what lies in the log, in the order of each partition.
TakenFrom(r) ==
  LET p == r.kafka_partition
      o == r.kafka_offset
  IN /\ p \in Partitions /\ o \in 1..Len(parts[p]) /\ parts[p][o] # Junk
     /\ r = Decoded(parts[p][o], p, o)
TakenInv ==
  /\ taken \in Seq(Rows)
  /\ \A k \in 1..Len(taken) : TakenFrom(taken[k])
  /\ \A j, k \in 1..Len(taken) :
       j < k /\ taken[j].kafka_partition = taken[k].kafka_partition
         => taken[j].kafka_offset < taken[k].kafka_offset

\* Nothing between the start and the position of a reader was left out.
Taken(p, i) == \E k \in 1..Len(taken) : taken[k].kafka_partition = p /\ taken[k].kafka_offset = i
PosInv ==
  /\ pos = <<>> => taken = <<>> /\ began = <<>>
  /\ pos # <<>> =>
       /\ pos \in [Partitions -> Nat] /\ began \in [Partitions -> Nat]
       /\ \A p \in Partitions :
            /\ pos[p] \in 1..(Len(parts[p]) + 1) /\ began[p] \in 1..pos[p]
            /\ \A k \in 1..Len(taken) : taken[k].kafka_partition = p => taken[k].kafka_offset < pos[p]
            /\ \A i \in began[p]..(pos[p] - 1) :
                 IF parts[p][i] = Junk THEN ended = "raised" ELSE Taken(p, i)

\* A reader from the end reads nothing that was there when it opened.
LatestInv ==
  /\ asked.reset \in {"earliest", "latest"} /\ (reader = "example" => asked.reset = "earliest")
  /\ atOpen \in [Partitions -> Nat] /\ \A p \in Partitions : atOpen[p] <= Len(parts[p])
  /\ asked.reset = "latest" =>
       /\ pos # <<>> => \A p \in Partitions : pos[p] > atOpen[p]
       /\ \A k \in 1..Len(taken) : taken[k].kafka_offset > atOpen[taken[k].kafka_partition]
  /\ reader = "smoke" => asked.reset = "latest" /\ (ended = "done" => Len(taken) >= MinMessages)

\* What lies before an offset of the group was handed over, or has expired.
Covered(p, o) == \A i \in 1..(o - 1) : i < lowest[p] \/ <<p, i>> \in handled
GroupInv ==
  /\ DOMAIN committed = Partitions
  /\ \A p \in Partitions : \A o \in committed[p] : o \in 1..(Len(parts[p]) + 1) /\ Covered(p, o)
  /\ \A p \in Partitions : \A a, b \in committed[p] : a = b
  /\ reader = "example" /\ pos # <<>> => \A p \in Partitions : Covered(p, pos[p])

ReadInv == LogInv /\ TakenInv /\ PosInv /\ LatestInv /\ GroupInv

\* What a copy is made of.
LEMMA CopyFacts ==
  ASSUME NEW m \in Copies
  PROVE  /\ m.event_ts \in Nat \ {0} /\ m.ingest_ts \in Int /\ m.trade_id \in Nat \ {0}
         /\ m.sequence \in Nat /\ m.price \in Nat \ {0} /\ m.size \in Nat
         /\ m.side \in Sides /\ m.source \in Sources
         /\ Home[m.venue_symbol] \in Partitions /\ Scope(m) \in Scopes
<1>1. PICK s \in Streams : m.venue = s.venue /\ m.venue_symbol = s.venue_symbol
  BY DEF Copies
<1>2. Scope(m) = Scope(s)
  BY <1>1 DEF Scope
<1>3. Home[m.venue_symbol] \in Partitions
  BY <1>1, StreamInputs
<1> QED
  BY <1>2, <1>3 DEF Copies, Scopes

\* What is sent is a copy.
LEMMA CopySent ==
  ASSUME NEW s \in Streams, NEW n \in Nat \ {0}, NEW deal \in Deals
  PROVE  LET m == TradeSent(s, n, deal)
         IN  m \in Copies /\ m.venue_symbol = s.venue_symbol /\ m.trade_id = n /\ Scope(m) = Scope(s)
<1> DEFINE m == TradeSent(s, n, deal)
<1>1. deal.lead \in Nat /\ deal.size \in Nat /\ deal.side \in Sides
  BY StreamInputs DEF Sides
<1>2. Receipt(s.venue, n + deal.lead) \in Int /\ n + deal.lead \in Nat \ {0}
  BY <1>1 DEF Receipt
<1>3. m \in Copies
  <2> DEFINE t == n + deal.lead
             u == Receipt(s.venue, n + deal.lead)
  <2>1. m = [venue |-> s.venue, venue_symbol |-> s.venue_symbol, instrument_id |-> s.instrument_id,
             trade_id |-> n, sequence |-> n, event_ts |-> t, ingest_ts |-> u,
             price |-> n, size |-> deal.size, side |-> deal.side, source |-> "STREAM"]
    BY DEF TradeSent
  <2>2. t \in Nat \ {0} /\ u \in Int /\ "STREAM" \in Sources
    BY <1>2 DEF Sources
  <2> HIDE DEF m, t, u
  <2> QED
    BY <1>1, <2>1, <2>2 DEF Copies
<1>4. m.venue = s.venue /\ m.venue_symbol = s.venue_symbol /\ m.trade_id = n
  BY DEF TradeSent
<1> HIDE DEF m
<1>5. Scope(m) = Scope(s)
  BY <1>4 DEF Scope
<1> QED
  BY <1>3, <1>4, <1>5 DEF m

\* What two copies of a trade agree on.
Told(m) == <<m.instrument_id, m.event_ts, m.price, m.size, m.side>>

\* A trade sent again is a copy of the same trade.
LEMMA CopyRepaired ==
  ASSUME NEW m \in Copies, NEW source \in Sources, counters \in [Scopes -> Nat]
  PROVE  LET r == Copy(m, source)
         IN  /\ r \in Copies /\ r.venue_symbol = m.venue_symbol /\ r.trade_id = m.trade_id
             /\ Scope(r) = Scope(m) /\ NaturalKey(r) = NaturalKey(m) /\ Told(r) = Told(m)
<1> DEFINE r == Copy(m, source)
           n == Renumbered(m, source)
           t == m.ingest_ts + 1
<1>1. r = [m EXCEPT !.source = source, !.sequence = n, !.ingest_ts = t]
  BY DEF Copy, Copies
<1>2. n \in Nat
  <2>1. m.sequence \in Nat /\ Scope(m) \in Scopes
    BY CopyFacts
  <2> HIDE DEF Scope
  <2>2. counters[Scope(m)] \in Nat
    BY <2>1
  <2> QED
    BY <2>1, <2>2 DEF Renumbered, Unnumbered
<1>3. t \in Int
  BY CopyFacts
<1> HIDE DEF r, n, t
<1>4. /\ r.venue = m.venue /\ r.venue_symbol = m.venue_symbol /\ r.instrument_id = m.instrument_id
      /\ r.trade_id = m.trade_id /\ r.event_ts = m.event_ts /\ r.price = m.price /\ r.size = m.size
      /\ r.side = m.side
  BY <1>1 DEF Copies
<1>5. r \in Copies
  BY <1>1, <1>2, <1>3, <1>4 DEF Copies
<1>6. Scope(r) = Scope(m) /\ NaturalKey(r) = NaturalKey(m) /\ Told(r) = Told(m)
  BY <1>4 DEF Scope, NaturalKey, Told
<1> QED
  BY <1>4, <1>5, <1>6 DEF r

\* A partition that a message is put at the end of.
LEMMA PutFacts ==
  ASSUME LogInv, NEW p \in Partitions, NEW m \in Logged, m # Junk => Home[m.venue_symbol] = p, Put(p, m),
         UNCHANGED lowest
  PROVE  /\ parts' \in [Partitions -> Seq(Logged)]
         /\ \A q \in Partitions : /\ Len(parts[q]) \in Nat /\ Len(parts'[q]) \in Nat /\ Len(parts[q]) <= Len(parts'[q])
                                /\ \A i \in 1..Len(parts[q]) : parts'[q][i] = parts[q][i]
         /\ \A q \in Partitions : \A i \in 1..Len(parts'[q]) :
              i \in 1..Len(parts[q]) \/ (q = p /\ i = Len(parts[p]) + 1 /\ parts'[q][i] = m)
         /\ \A q \in Partitions : \A i \in 1..Len(parts'[q]) :
              parts'[q][i] # Junk => Home[parts'[q][i].venue_symbol] = q
         /\ \A q \in Partitions : lowest'[q] \in 1..(Len(parts'[q]) + 1)
<1>1. parts' = [parts EXCEPT ![p] = Append(parts[p], m)] /\ \A q \in Partitions : parts[q] \in Seq(Logged)
  BY DEF Put, LogInv
<1>2. /\ Append(parts[p], m) \in Seq(Logged) /\ Len(Append(parts[p], m)) = Len(parts[p]) + 1
      /\ \A i \in 1..Len(parts[p]) : Append(parts[p], m)[i] = parts[p][i]
      /\ Append(parts[p], m)[Len(parts[p]) + 1] = m
  BY <1>1, AppendProperties
<1>3. parts' \in [Partitions -> Seq(Logged)]
  BY <1>1, <1>2 DEF LogInv
<1>4. parts'[p] = Append(parts[p], m) /\ \A q \in Partitions : q # p => parts'[q] = parts[q]
  BY <1>1 DEF LogInv
<1>5. \A q \in Partitions : Len(parts[q]) \in Nat /\ Len(parts'[q]) \in Nat /\ Len(parts[q]) <= Len(parts'[q])
  BY <1>1, <1>2, <1>4, LenProperties
<1>6. \A q \in Partitions : \A i \in 1..Len(parts[q]) : parts'[q][i] = parts[q][i]
  BY <1>2, <1>4
<1>7. \A q \in Partitions : \A i \in 1..Len(parts'[q]) :
        i \in 1..Len(parts[q]) \/ (q = p /\ i = Len(parts[p]) + 1 /\ parts'[q][i] = m)
  BY <1>2, <1>4, <1>5
<1>8. \A q \in Partitions : \A i \in 1..Len(parts'[q]) :
        parts'[q][i] # Junk => Home[parts'[q][i].venue_symbol] = q
  <2> SUFFICES ASSUME NEW q \in Partitions, NEW i \in 1..Len(parts'[q]), parts'[q][i] # Junk
               PROVE  Home[parts'[q][i].venue_symbol] = q
    OBVIOUS
  <2>1. CASE i \in 1..Len(parts[q])
    <3>1. parts'[q][i] = parts[q][i]
      BY <1>6, <2>1
    <3>2. parts[q][i] # Junk => Home[parts[q][i].venue_symbol] = q
      BY <2>1 DEF LogInv
    <3>3. QED
      BY <3>1, <3>2
  <2>2. CASE q = p /\ i = Len(parts[p]) + 1 /\ parts'[q][i] = m
    BY <2>2
  <2>3. QED
    BY <1>7, <2>1, <2>2
<1>9. \A q \in Partitions : lowest'[q] \in 1..(Len(parts'[q]) + 1)
  BY <1>5 DEF LogInv
<1>10. QED
  BY <1>3, <1>5, <1>6, <1>7, <1>8, <1>9

\* What the readers hold survives whatever is put at the end.
LEMMA PutStep ==
  ASSUME ReadInv, NEW p \in Partitions, NEW m \in Logged, m # Junk => Home[m.venue_symbol] = p, Put(p, m),
         missed' \subseteq Copies, UNCHANGED <<lowest, readerVars>>
  PROVE  ReadInv'
<1>0. /\ taken' = taken /\ pos' = pos /\ began' = began /\ ended' = ended /\ asked' = asked /\ reader' = reader
      /\ atOpen' = atOpen /\ committed' = committed /\ handled' = handled /\ lowest' = lowest
  BY DEF readerVars
<1>1. LogInv
  BY DEF ReadInv
<1>2. /\ parts' \in [Partitions -> Seq(Logged)]
      /\ \A q \in Partitions : /\ Len(parts[q]) \in Nat /\ Len(parts'[q]) \in Nat /\ Len(parts[q]) <= Len(parts'[q])
                             /\ \A i \in 1..Len(parts[q]) : parts'[q][i] = parts[q][i]
      /\ \A q \in Partitions : \A i \in 1..Len(parts'[q]) :
           parts'[q][i] # Junk => Home[parts'[q][i].venue_symbol] = q
      /\ \A q \in Partitions : lowest'[q] \in 1..(Len(parts'[q]) + 1)
  BY <1>1, PutFacts
<1>3. LogInv'
  BY <1>1, <1>2 DEF LogInv
<1>4. TakenInv'
  <2>1. \A k \in 1..Len(taken) : TakenFrom(taken[k])'
    <3> SUFFICES ASSUME NEW k \in 1..Len(taken) PROVE TakenFrom(taken[k])'
      OBVIOUS
    <3> DEFINE q == taken[k].kafka_partition
               o == taken[k].kafka_offset
    <3>1. q \in Partitions /\ o \in 1..Len(parts[q]) /\ parts[q][o] # Junk /\ taken[k] = Decoded(parts[q][o], q, o)
      BY DEF ReadInv, TakenInv, TakenFrom
    <3>2. o \in 1..Len(parts'[q]) /\ parts'[q][o] = parts[q][o]
      BY <1>2, <3>1
    <3>3. QED
      BY <1>0, <3>1, <3>2 DEF TakenFrom
  <2>2. QED
    BY <1>0, <2>1 DEF ReadInv, TakenInv
<1>5. PosInv'
  <2>1. ASSUME pos # <<>>, NEW q \in Partitions
        PROVE  /\ pos[q] \in 1..(Len(parts'[q]) + 1)
               /\ \A i \in began[q]..(pos[q] - 1) : i \in 1..Len(parts[q]) /\ parts'[q][i] = parts[q][i]
    BY <1>2, <2>1 DEF ReadInv, PosInv
  <2>2. \A q, i : Taken(q, i)' <=> Taken(q, i)
    BY <1>0 DEF Taken
  <2> HIDE DEF Taken
  <2>3. QED
    BY <1>0, <2>1, <2>2 DEF ReadInv, PosInv
<1>6. LatestInv'
  <2>1. \A q \in Partitions : atOpen[q] <= Len(parts'[q])
    <3> TAKE q \in Partitions
    <3>1. atOpen[q] \in Nat /\ atOpen[q] <= Len(parts[q])
      BY DEF ReadInv, LatestInv
    <3>2. Len(parts[q]) \in Nat /\ Len(parts'[q]) \in Nat /\ Len(parts[q]) <= Len(parts'[q])
      BY <1>2
    <3>3. QED
      BY <3>1, <3>2
  <2>2. QED
    BY <1>0, <2>1 DEF ReadInv, LatestInv
<1>7. GroupInv'
  <2>1. \A q, o : Covered(q, o)' <=> Covered(q, o)
    BY <1>0 DEF Covered
  <2>2. \A q \in Partitions : \A o \in committed[q] : o \in 1..(Len(parts'[q]) + 1)
    <3> TAKE q \in Partitions
    <3> TAKE o \in committed[q]
    <3>1. o \in 1..(Len(parts[q]) + 1)
      BY DEF ReadInv, GroupInv
    <3>2. Len(parts[q]) \in Nat /\ Len(parts'[q]) \in Nat /\ Len(parts[q]) <= Len(parts'[q])
      BY <1>2
    <3>3. QED
      BY <3>1, <3>2
  <2> HIDE DEF Covered
  <2>3. QED
    BY <1>0, <2>1, <2>2 DEF ReadInv, GroupInv
<1>8. QED
  BY <1>3, <1>4, <1>5, <1>6, <1>7 DEF ReadInv

\* What does not look at the oldest offset survives its move.
LEMMA ReadersKeep ==
  ASSUME ReadInv, UNCHANGED <<parts, readerVars>>
  PROVE  TakenInv' /\ PosInv' /\ LatestInv' /\ (UNCHANGED lowest => GroupInv')
<1>0. /\ taken' = taken /\ pos' = pos /\ began' = began /\ ended' = ended /\ asked' = asked /\ reader' = reader
      /\ atOpen' = atOpen /\ committed' = committed /\ handled' = handled /\ parts' = parts
  BY DEF readerVars
<1>1. TakenInv'
  BY <1>0 DEF ReadInv, TakenInv, TakenFrom
<1>2. PosInv'
  <2>1. \A q, i : Taken(q, i)' <=> Taken(q, i)
    BY <1>0 DEF Taken
  <2> HIDE DEF Taken
  <2>2. QED
    BY <1>0, <2>1 DEF ReadInv, PosInv
<1>3. LatestInv'
  BY <1>0 DEF ReadInv, LatestInv
<1>4. UNCHANGED lowest => GroupInv'
  BY <1>0 DEF ReadInv, GroupInv, Covered
<1>5. QED
  BY <1>1, <1>2, <1>3, <1>4

\* The steps of the topic.
LEMMA TopicStep ==
  ASSUME ReadInv,
         \/ \E s \in Streams, deal \in Deals, seen \in BOOLEAN : Arrives(s, deal, seen)
         \/ \E m \in missed : Repaired(m)
         \/ \E p \in Partitions, source \in Sources : \E i \in DOMAIN parts[p] : Again(p, i, source)
         \/ \E p \in Partitions : JunkArrives(p) \/ Retention(p),
         counters \in [Scopes -> Nat]
  PROVE  ReadInv'
<1>1. LogInv
  BY DEF ReadInv
<1>2. ASSUME NEW s \in Streams, NEW deal \in Deals, NEW seen \in BOOLEAN, Arrives(s, deal, seen) PROVE ReadInv'
  <2> DEFINE n == counters[Scope(s)] + 1
             m == TradeSent(s, n, deal)
  <2>1. n \in Nat \ {0}
    <3>1. Scope(s) \in Scopes
      BY DEF Scopes
    <3> HIDE DEF Scope
    <3>2. counters[Scope(s)] \in Nat
      BY <3>1
    <3>3. QED
      BY <3>2
  <2>2. m \in Copies /\ m.venue_symbol = s.venue_symbol /\ PartitionOf(s, n) = Home[m.venue_symbol]
        /\ PartitionOf(s, n) \in Partitions
    BY <2>1, CopySent, StreamInputs DEF PartitionOf
  <2>3. CASE seen
    <3>1. Put(PartitionOf(s, n), m) /\ UNCHANGED <<missed, lowest, readerVars>>
      BY <1>2, <2>3 DEF Arrives
    <3> HIDE DEF m
    <3>2. QED
      BY <1>1, <2>2, <3>1, PutStep DEF Logged, LogInv
  <2>4. CASE ~seen
    <3>1. missed' = missed \cup {m} /\ UNCHANGED <<parts, lowest, readerVars>>
      BY <1>2, <2>4 DEF Arrives
    <3> HIDE DEF m
    <3>2. LogInv'
      BY <1>1, <2>2, <3>1 DEF LogInv
    <3>3. TakenInv' /\ PosInv' /\ LatestInv' /\ GroupInv'
      BY <3>1, ReadersKeep
    <3>4. QED
      BY <3>2, <3>3 DEF ReadInv
  <2>5. QED
    BY <2>3, <2>4
<1>3. ASSUME NEW m \in missed, Repaired(m) PROVE ReadInv'
  <2> DEFINE r == Copy(m, "REST_REPAIR")
  <2>1. m \in Copies
    BY <1>1 DEF LogInv
  <2>2. r \in Copies /\ r.venue_symbol = m.venue_symbol /\ Home[m.venue_symbol] \in Partitions
    BY <2>1, CopyRepaired, CopyFacts DEF Sources
  <2>3. /\ Put(Home[m.venue_symbol], r) /\ missed' \subseteq missed /\ UNCHANGED <<lowest, readerVars>>
    BY <1>3 DEF Repaired, PartitionOf
  <2> HIDE DEF r
  <2>4. QED
    BY <1>1, <2>2, <2>3, PutStep DEF Logged, LogInv
<1>4. ASSUME NEW p \in Partitions, NEW source \in Sources, NEW i \in DOMAIN parts[p], Again(p, i, source)
      PROVE  ReadInv'
  <2> DEFINE r == Copy(parts[p][i], source)
  <2>1. parts[p] \in Seq(Logged) /\ i \in 1..Len(parts[p]) /\ parts[p][i] # Junk
    <3>1. parts[p] \in Seq(Logged)
      BY <1>1 DEF LogInv
    <3>2. QED
      BY <1>4, <3>1, LenProperties DEF Again
  <2>2. parts[p][i] \in Copies /\ Home[parts[p][i].venue_symbol] = p
    BY <1>1, <2>1 DEF LogInv, Logged
  <2>3. r \in Copies /\ r.venue_symbol = parts[p][i].venue_symbol
    BY <2>2, CopyRepaired
  <2>4. Put(p, r) /\ UNCHANGED <<missed, lowest, readerVars>>
    BY <1>4 DEF Again
  <2> HIDE DEF r
  <2>5. QED
    BY <1>1, <2>2, <2>3, <2>4, PutStep DEF Logged, LogInv
<1>5. ASSUME NEW p \in Partitions, JunkArrives(p) PROVE ReadInv'
  <2>1. Put(p, Junk) /\ UNCHANGED <<missed, lowest, readerVars>> /\ Junk \in Logged
    BY <1>5 DEF JunkArrives, Logged
  <2>2. QED
    BY <1>1, <2>1, PutStep DEF LogInv
<1>6. ASSUME NEW p \in Partitions, Retention(p) PROVE ReadInv'
  <2>1. /\ lowest' = [lowest EXCEPT ![p] = @ + 1] /\ lowest[p] <= Len(parts[p])
        /\ UNCHANGED <<parts, missed, readerVars>>
    BY <1>6 DEF Retention
  <2>2. \A q \in Partitions : Len(parts[q]) \in Nat
    BY <1>1, LenProperties DEF LogInv
  <2>3. \A q \in Partitions : lowest'[q] \in 1..(Len(parts[q]) + 1) /\ lowest[q] <= lowest'[q]
    BY <1>1, <2>1, <2>2 DEF LogInv
  <2>4. lowest' \in [Partitions -> Nat] /\ lowest \in [Partitions -> Nat]
    BY <1>1, <2>1 DEF LogInv
  <2>5. LogInv'
    BY <1>1, <2>1, <2>3, <2>4 DEF LogInv
  <2>6. TakenInv' /\ PosInv' /\ LatestInv'
    BY <2>1, ReadersKeep
  <2>7. \A q \in Partitions, o \in Nat : Covered(q, o) => Covered(q, o)'
    BY <2>1, <2>3, <2>4 DEF Covered, readerVars
  <2>8. GroupInv'
    <3>1. \A q \in Partitions : \A o \in committed[q] : o \in Nat
      BY <2>2 DEF ReadInv, GroupInv
    <3>2. reader = "example" /\ pos # <<>> => \A q \in Partitions : pos[q] \in Nat
      BY <2>2 DEF ReadInv, PosInv
    <3>3. UNCHANGED <<committed, reader, pos, parts, handled>>
      BY <2>1 DEF readerVars
    <3> HIDE DEF Covered
    <3>4. QED
      BY <2>7, <3>1, <3>2, <3>3 DEF ReadInv, GroupInv
  <2>9. QED
    BY <2>5, <2>6, <2>8 DEF ReadInv
<1>7. QED
  BY <1>2, <1>3, <1>4, <1>5, <1>6

\* A reader opens with nothing read.
LEMMA OpenStep ==
  ASSUME ReadInv, NEW kind, NEW options, NEW outcome, Opened(kind, options, outcome),
         options.reset \in {"earliest", "latest"}, kind = "example" => options.reset = "earliest",
         kind = "smoke" => options.reset = "latest" /\ outcome # "done"
  PROVE  ReadInv'
<1>1. /\ reader' = kind /\ asked' = options /\ ended' = outcome /\ taken' = <<>> /\ pos' = <<>> /\ began' = <<>>
      /\ atOpen' = [p \in Partitions |-> Len(parts[p])] /\ parts' = parts /\ lowest' = lowest
      /\ missed' = missed /\ committed' = committed /\ handled' = handled
  BY DEF Opened, brokerVars
<1>2. LogInv'
  BY <1>1 DEF ReadInv, LogInv
<1>3. Len(<<>>) = 0 /\ <<>> \in Seq(Rows)
  BY EmptySeq
<1>4. 1..0 = {}
  OBVIOUS
<1>5. TakenInv'
  BY <1>1, <1>3, <1>4 DEF TakenInv
<1>6. PosInv'
  BY <1>1 DEF PosInv
<1>7. LatestInv'
  <2>1. \A p \in Partitions : Len(parts[p]) \in Nat
    BY LenProperties DEF ReadInv, LogInv
  <2>2. atOpen' \in [Partitions -> Nat] /\ \A p \in Partitions : atOpen'[p] <= Len(parts[p])
    BY <1>1, <2>1
  <2>3. \A k \in 1..Len(taken') : FALSE
    BY <1>1, <1>3, <1>4
  <2>4. QED
    BY <1>1, <2>2, <2>3 DEF LatestInv
<1>8. GroupInv'
  BY <1>1 DEF ReadInv, GroupInv, Covered
<1>9. QED
  BY <1>2, <1>5, <1>6, <1>7, <1>8 DEF ReadInv

\* Positions of the partitions are not the lack of an assignment.
LEMMA PlacesOf == ASSUME NEW f \in [Partitions -> Nat] PROVE f # <<>>
<1>1. 1 \in DOMAIN f
  BY DEF Partitions
<1>2. DOMAIN <<>> = {}
  OBVIOUS
<1>3. QED
  BY <1>1, <1>2

\* Where the policy, or the group, has a reader start.
LEMMA StartFacts ==
  ASSUME ReadInv, NEW p \in Partitions
  PROVE  /\ Len(parts[p]) \in Nat
         /\ ByPolicy(p) \in 1..(Len(parts[p]) + 1) /\ StartAt(p) \in 1..(Len(parts[p]) + 1)
         /\ asked.reset = "latest" => ByPolicy(p) > atOpen[p] /\ StartAt(p) > atOpen[p]
         /\ reader = "example" => Covered(p, ByPolicy(p)) /\ Covered(p, StartAt(p))
<1>1. Len(parts[p]) \in Nat /\ lowest[p] \in 1..(Len(parts[p]) + 1)
  BY LenProperties DEF ReadInv, LogInv
<1>2. /\ asked.reset \in {"earliest", "latest"} /\ (reader = "example" => asked.reset = "earliest")
      /\ atOpen[p] \in Nat /\ atOpen[p] <= Len(parts[p])
  BY DEF ReadInv, LatestInv
<1>3. ByPolicy(p) \in 1..(Len(parts[p]) + 1) /\ (asked.reset = "latest" => ByPolicy(p) > atOpen[p])
  BY <1>1, <1>2 DEF ByPolicy
<1>4. reader = "example" => Covered(p, ByPolicy(p))
  BY <1>1, <1>2 DEF ByPolicy, Covered
<1>5. CASE reader = "example" /\ committed[p] # {}
  <2>1. StartAt(p) \in committed[p]
    BY <1>5 DEF StartAt
  <2>2. StartAt(p) \in 1..(Len(parts[p]) + 1) /\ Covered(p, StartAt(p))
    <3> HIDE DEF Covered
    <3>1. QED
      BY <2>1 DEF ReadInv, GroupInv
  <2>3. QED
    BY <1>1, <1>2, <1>3, <1>4, <1>5, <2>2
<1>6. CASE ~(reader = "example" /\ committed[p] # {})
  BY <1>1, <1>3, <1>4, <1>6 DEF StartAt
<1>7. QED
  BY <1>5, <1>6

\* The steps that read nothing and end nothing well.
LEMMA QuietStep ==
  ASSUME ReadInv,
         UNCHANGED <<brokerVars, taken, pos, began, asked, atOpen, handled>>,
         reader' \in {reader, "idle"}, ended' = ended \/ (ended = "reading" /\ ended' # "done")
           \/ (ended = "reading" /\ reader' # "smoke"),
         DOMAIN committed' = Partitions,
         \A p \in Partitions : committed'[p] \in {committed[p], {pos[p]}},
         committed' # committed => reader = "example" /\ pos # <<>>
  PROVE  ReadInv'
<1>1. /\ parts' = parts /\ lowest' = lowest /\ missed' = missed /\ taken' = taken /\ pos' = pos /\ began' = began
      /\ asked' = asked /\ atOpen' = atOpen /\ handled' = handled
  BY DEF brokerVars
<1>2. LogInv'
  BY <1>1 DEF ReadInv, LogInv
<1>3. TakenInv'
  BY <1>1 DEF ReadInv, TakenInv, TakenFrom
<1>4. PosInv'
  <2>1. \A q, i : Taken(q, i)' <=> Taken(q, i)
    BY <1>1 DEF Taken
  <2>2. ended = "raised" => ended' = "raised"
    OBVIOUS
  <2> HIDE DEF Taken
  <2>3. QED
    BY <1>1, <2>1, <2>2 DEF ReadInv, PosInv
<1>5. LatestInv'
  BY <1>1 DEF ReadInv, LatestInv
<1>6. GroupInv'
  <2>1. ASSUME NEW p \in Partitions, NEW o \in committed'[p]
        PROVE  o \in 1..(Len(parts[p]) + 1) /\ Covered(p, o)
    <3> HIDE DEF Covered
    <3>1. CASE o \in committed[p]
      BY <3>1 DEF ReadInv, GroupInv
    <3>2. CASE o \notin committed[p]
      <4>1. o = pos[p] /\ reader = "example" /\ pos # <<>>
        BY <2>1, <3>2
      <4>2. QED
        BY <4>1 DEF ReadInv, GroupInv, PosInv
    <3>3. QED
      BY <3>1, <3>2
  <2>2. \A p, o : Covered(p, o)' <=> Covered(p, o)
    BY <1>1 DEF Covered
  <2> HIDE DEF Covered
  <2>3. reader' = "example" /\ pos' # <<>> => \A p \in Partitions : Covered(p, pos[p])
    BY <1>1 DEF ReadInv, GroupInv
  <2>4. \A p \in Partitions : \A a, b \in committed'[p] : a = b
    BY DEF ReadInv, GroupInv
  <2>5. QED
    BY <1>1, <2>1, <2>2, <2>3, <2>4 DEF GroupInv
<1>7. QED
  BY <1>2, <1>3, <1>4, <1>5, <1>6 DEF ReadInv

\* A reader is given its partitions.
LEMMA AssignStep ==
  ASSUME ReadInv, Assigned
  PROVE  ReadInv'
<1>1. /\ parts' = parts /\ lowest' = lowest /\ missed' = missed /\ taken' = taken /\ ended' = ended
      /\ asked' = asked /\ atOpen' = atOpen /\ handled' = handled /\ reader' = reader /\ committed' = committed
      /\ pos' = [p \in Partitions |-> StartAt(p)] /\ began' = pos' /\ pos = <<>> /\ ended = "reading"
  BY DEF Assigned, brokerVars, Looping
<1>2. taken = <<>> /\ Len(taken) = 0
  BY <1>1, EmptySeq DEF ReadInv, PosInv
<1>3. \A k \in 1..Len(taken) : FALSE
  BY <1>2
<1>4. LogInv' /\ TakenInv'
  BY <1>1 DEF ReadInv, LogInv, TakenInv, TakenFrom
<1>5. \A p \in Partitions : /\ pos'[p] \in 1..(Len(parts[p]) + 1) /\ Len(parts[p]) \in Nat
                            /\ asked.reset = "latest" => pos'[p] > atOpen[p]
                            /\ reader = "example" => Covered(p, pos'[p])
  <2> HIDE DEF Covered
  <2>1. QED
    BY <1>1, StartFacts
<1>6. pos' \in [Partitions -> Nat]
  BY <1>1, <1>5
<1>7. PosInv'
  <2>1. \A p \in Partitions : pos'[p] \in 1..pos'[p] /\ \A i \in pos'[p]..(pos'[p] - 1) : FALSE
    BY <1>5
  <2>2. pos' # <<>>
    BY <1>6, PlacesOf
  <2> HIDE DEF Taken
  <2>3. QED
    BY <1>1, <1>3, <1>5, <1>6, <2>1, <2>2 DEF PosInv
<1>8. LatestInv'
  BY <1>1, <1>3, <1>5 DEF ReadInv, LatestInv
<1>9. GroupInv'
  <2>1. \A p, o : Covered(p, o)' <=> Covered(p, o)
    BY <1>1 DEF Covered
  <2>2. reader = "example" => \A p \in Partitions : Covered(p, pos'[p])
    BY <1>5
  <2> HIDE DEF Covered
  <2>3. QED
    BY <1>1, <2>1, <2>2 DEF ReadInv, GroupInv
<1>10. QED
  BY <1>4, <1>7, <1>8, <1>9 DEF ReadInv

\* A position that has aged out is moved.
LEMMA RangeStep ==
  ASSUME ReadInv, NEW p \in Partitions, OutOfRange(p)
  PROVE  ReadInv'
<1>1. /\ parts' = parts /\ lowest' = lowest /\ missed' = missed /\ taken' = taken /\ ended' = ended
      /\ asked' = asked /\ atOpen' = atOpen /\ handled' = handled /\ reader' = reader /\ committed' = committed
      /\ pos' = [pos EXCEPT ![p] = ByPolicy(p)] /\ began' = [began EXCEPT ![p] = ByPolicy(p)]
      /\ pos # <<>> /\ pos[p] < lowest[p]
  BY DEF OutOfRange, brokerVars
<1>2. LogInv' /\ TakenInv'
  BY <1>1 DEF ReadInv, LogInv, TakenInv, TakenFrom
<1>3. /\ ByPolicy(p) \in 1..(Len(parts[p]) + 1) /\ Len(parts[p]) \in Nat
      /\ asked.reset = "latest" => ByPolicy(p) > atOpen[p]
      /\ reader = "example" => Covered(p, ByPolicy(p))
  <2> HIDE DEF Covered
  <2>1. QED
    BY StartFacts
<1>4. pos \in [Partitions -> Nat] /\ began \in [Partitions -> Nat]
  BY <1>1 DEF ReadInv, PosInv
<1>5. /\ pos' \in [Partitions -> Nat] /\ began' \in [Partitions -> Nat]
      /\ pos'[p] = ByPolicy(p) /\ began'[p] = ByPolicy(p)
      /\ \A q \in Partitions : q # p => pos'[q] = pos[q] /\ began'[q] = began[q]
  BY <1>1, <1>3, <1>4
<1>6. pos' # <<>>
  BY <1>5, PlacesOf
<1>7. pos[p] <= ByPolicy(p)
  BY <1>1, <1>3, <1>4 DEF ReadInv, LogInv, ByPolicy
<1>8. PosInv'
  <2>1. ASSUME NEW q \in Partitions
        PROVE  /\ pos'[q] \in 1..(Len(parts[q]) + 1) /\ began'[q] \in 1..pos'[q]
               /\ \A k \in 1..Len(taken) : taken[k].kafka_partition = q => taken[k].kafka_offset < pos'[q]
               /\ \A i \in began'[q]..(pos'[q] - 1) : IF parts[q][i] = Junk THEN ended = "raised" ELSE Taken(q, i)
    <3> HIDE DEF Taken
    <3>1. /\ pos[q] \in 1..(Len(parts[q]) + 1) /\ began[q] \in 1..pos[q]
          /\ \A k \in 1..Len(taken) : taken[k].kafka_partition = q => taken[k].kafka_offset < pos[q]
          /\ \A i \in began[q]..(pos[q] - 1) : IF parts[q][i] = Junk THEN ended = "raised" ELSE Taken(q, i)
      BY <1>1 DEF ReadInv, PosInv
    <3>2. CASE q = p
      <4>1. \A i \in began'[q]..(pos'[q] - 1) : FALSE
        BY <1>3, <1>5, <3>2
      <4>2. \A k \in 1..Len(taken) : taken[k].kafka_partition = q => taken[k].kafka_offset < pos'[q]
        <5> SUFFICES ASSUME NEW k \in 1..Len(taken), taken[k].kafka_partition = q
                     PROVE  taken[k].kafka_offset < pos'[q]
          OBVIOUS
        <5>1. taken[k].kafka_offset \in Int
          BY DEF ReadInv, TakenInv, TakenFrom
        <5>2. QED
          BY <1>3, <1>5, <1>7, <3>1, <3>2, <5>1
      <4>3. QED
        BY <1>3, <1>5, <3>2, <4>1, <4>2
    <3>3. CASE q # p
      BY <1>5, <3>1, <3>3
    <3>4. QED
      BY <3>2, <3>3
  <2>2. \A q, i : Taken(q, i)' <=> Taken(q, i)
    BY <1>1 DEF Taken
  <2> HIDE DEF Taken
  <2>3. QED
    BY <1>1, <1>5, <1>6, <2>1, <2>2 DEF PosInv
<1>9. LatestInv'
  <2>1. asked.reset = "latest" => \A q \in Partitions : pos'[q] > atOpen[q]
    BY <1>1, <1>3, <1>5 DEF ReadInv, LatestInv
  <2>2. QED
    BY <1>1, <2>1 DEF ReadInv, LatestInv
<1>10. GroupInv'
  <2>1. \A q, o : Covered(q, o)' <=> Covered(q, o)
    BY <1>1 DEF Covered
  <2> HIDE DEF Covered
  <2>2. \A q \in Partitions : reader = "example" => Covered(q, pos'[q])
    BY <1>1, <1>3, <1>5 DEF ReadInv, GroupInv
  <2>3. QED
    BY <1>1, <2>1, <2>2 DEF ReadInv, GroupInv
<1>11. QED
  BY <1>2, <1>8, <1>9, <1>10 DEF ReadInv

\* A message is read: the record is one more, and the position one further.
LEMMA MessageStep ==
  ASSUME ReadInv, NEW p \in Partitions, PollMessage(p), NEW o, o = pos[p]
  PROVE  ReadInv'
<1> DEFINE m == parts[p][o]
           d == Decoded(m, p, o)
<1>1. /\ parts' = parts /\ lowest' = lowest /\ missed' = missed
      /\ asked' = asked /\ atOpen' = atOpen /\ reader' = reader /\ began' = began
      /\ pos' = [pos EXCEPT ![p] = @ + 1]
      /\ handled' = (IF reader = "example" THEN handled \cup {<<p, o>>} ELSE handled)
      /\ pos # <<>> /\ o \in lowest[p]..Len(parts[p]) /\ ended = "reading"
  BY DEF PollMessage, brokerVars, Looping
<1>2. \/ m = Junk /\ ended' = "raised" /\ taken' = taken
           /\ committed' = (IF reader = "example" THEN [q \in Partitions |-> {pos'[q]}] ELSE committed)
      \/ m # Junk /\ taken' = Append(taken, d) /\ ended' = ended /\ committed' = committed
  BY DEF PollMessage, Commit
<1>3. LogInv'
  BY <1>1 DEF ReadInv, LogInv
<1>4. /\ pos \in [Partitions -> Nat] /\ began \in [Partitions -> Nat] /\ o \in Nat \ {0} /\ o \in 1..Len(parts[p])
      /\ \A q \in Partitions : Len(parts[q]) \in Nat /\ pos[q] \in Nat /\ pos[q] <= Len(parts[q]) + 1 /\ pos[q] >= 1
  <2>1. \A q \in Partitions : Len(parts[q]) \in Nat
    BY LenProperties DEF ReadInv, LogInv
  <2>2. pos \in [Partitions -> Nat] /\ began \in [Partitions -> Nat]
    BY <1>1 DEF ReadInv, PosInv
  <2>3. \A q \in Partitions : pos[q] \in 1..(Len(parts[q]) + 1)
    BY <1>1 DEF ReadInv, PosInv
  <2>4. QED
    BY <1>1, <2>1, <2>2, <2>3
<1>5. /\ pos' \in [Partitions -> Nat] /\ pos'[p] = o + 1 /\ \A q \in Partitions : q # p => pos'[q] = pos[q]
      /\ \A q \in Partitions : pos[q] <= pos'[q] /\ pos'[q] \in 1..(Len(parts[q]) + 1)
  BY <1>1, <1>4
<1>6. pos' # <<>>
  BY <1>5, PlacesOf
<1>7. m # Junk => d \in Rows /\ d.kafka_partition = p /\ d.kafka_offset = o
  <2> SUFFICES ASSUME m # Junk PROVE d \in Rows /\ d.kafka_partition = p /\ d.kafka_offset = o
    OBVIOUS
  <2>1. m \in Copies
    <3>1. parts[p] \in Seq(Logged)
      BY DEF ReadInv, LogInv
    <3>2. m \in Logged
      BY <1>4, <3>1
    <3>3. QED
      BY <3>2 DEF Logged
  <2>2. d \in Rows
    BY <1>4, <2>1 DEF Rows
  <2>3. QED
    BY <2>2 DEF Decoded
<1> HIDE DEF d
\* What is read now lies behind everything that was read of the partition.
<1>8. /\ taken \in Seq(Rows) /\ Len(taken) \in Nat
      /\ \A k \in 1..Len(taken) : /\ TakenFrom(taken[k]) /\ taken[k].kafka_offset \in Nat
                                  /\ taken[k].kafka_partition = p => taken[k].kafka_offset < o
  <2>1. taken \in Seq(Rows) /\ \A k \in 1..Len(taken) : TakenFrom(taken[k])
    BY DEF ReadInv, TakenInv
  <2>2. \A k \in 1..Len(taken) : taken[k].kafka_offset \in Nat
    BY <2>1 DEF TakenFrom
  <2>3. \A k \in 1..Len(taken) : taken[k].kafka_partition = p => taken[k].kafka_offset < o
    BY <1>1 DEF ReadInv, PosInv
  <2>4. QED
    BY <2>1, <2>2, <2>3, LenProperties
<1>9. m # Junk => /\ taken' \in Seq(Rows) /\ Len(taken') = Len(taken) + 1 /\ taken'[Len(taken) + 1] = d
                  /\ \A k \in 1..Len(taken) : taken'[k] = taken[k]
                  /\ \A k \in 1..Len(taken') : k \in 1..Len(taken) \/ k = Len(taken) + 1
  BY <1>2, <1>7, <1>8, AppendProperties
<1>10. TakenInv'
  <2>1. CASE m = Junk
    BY <1>1, <1>2, <2>1 DEF ReadInv, TakenInv, TakenFrom
  <2>2. CASE m # Junk
    <3>1. \A k \in 1..Len(taken') : TakenFrom(taken'[k])
      <4>1. TakenFrom(d)
        BY <1>4, <1>7, <2>2 DEF TakenFrom, d
      <4> HIDE DEF TakenFrom
      <4>2. QED
        BY <1>8, <1>9, <2>2, <4>1
    <3>2. \A j, k \in 1..Len(taken') :
            j < k /\ taken'[j].kafka_partition = taken'[k].kafka_partition
              => taken'[j].kafka_offset < taken'[k].kafka_offset
      <4> SUFFICES ASSUME NEW j \in 1..Len(taken'), NEW k \in 1..Len(taken'), j < k,
                          taken'[j].kafka_partition = taken'[k].kafka_partition
                   PROVE  taken'[j].kafka_offset < taken'[k].kafka_offset
        OBVIOUS
      <4>1. j \in 1..Len(taken) /\ taken'[j] = taken[j]
        BY <1>8, <1>9, <2>2
      <4>2. CASE k \in 1..Len(taken)
        <5>1. taken'[k] = taken[k]
          BY <1>9, <2>2, <4>2
        <5>2. QED
          BY <4>1, <4>2, <5>1 DEF ReadInv, TakenInv
      <4>3. CASE k = Len(taken) + 1
        BY <1>7, <1>8, <1>9, <2>2, <4>1, <4>3
      <4>4. QED
        BY <1>9, <2>2, <4>2, <4>3
    <3>3. \A r : TakenFrom(r) => TakenFrom(r)'
      BY <1>1 DEF TakenFrom
    <3>4. \A k \in 1..Len(taken') : TakenFrom(taken[k])'
      BY <1>1, <3>1 DEF TakenFrom
    <3>5. QED
      BY <1>9, <2>2, <3>2, <3>4 DEF TakenInv
  <2>3. QED
    BY <2>1, <2>2
<1>11. PosInv'
  <2>1. \A q, i : Taken(q, i) => Taken(q, i)'
    <3>1. CASE m = Junk
      BY <1>2, <3>1 DEF Taken
    <3>2. CASE m # Junk
      BY <1>8, <1>9, <3>2 DEF Taken
    <3>3. QED
      BY <3>1, <3>2
  <2>2. m # Junk => Taken(p, o)'
    <3>1. m # Junk => Len(taken) + 1 \in 1..Len(taken')
      BY <1>8, <1>9
    <3>2. QED
      BY <1>7, <1>9, <3>1 DEF Taken
  <2>3. \A k \in 1..Len(taken') : \A q \in Partitions :
          taken'[k].kafka_partition = q => taken'[k].kafka_offset < pos'[q]
    <3> SUFFICES ASSUME NEW k \in 1..Len(taken') PROVE taken'[k].kafka_partition \in Partitions =>
                          taken'[k].kafka_offset < pos'[taken'[k].kafka_partition]
      OBVIOUS
    <3>1. CASE k \in 1..Len(taken) /\ taken'[k] = taken[k]
      <4> DEFINE q == taken[k].kafka_partition
      <4>1. q \in Partitions => taken[k].kafka_offset < pos[q]
        BY <1>1, <3>1 DEF ReadInv, PosInv
      <4>2. q \in Partitions => pos[q] <= pos'[q] /\ pos[q] \in Nat /\ pos'[q] \in Nat
        BY <1>4, <1>5
      <4>3. taken[k].kafka_offset \in Nat
        BY <1>8, <3>1
      <4> HIDE DEF q
      <4>4. q \in Partitions => taken[k].kafka_offset < pos'[q]
        BY <4>1, <4>2, <4>3
      <4>5. QED
        BY <3>1, <4>4 DEF q
    <3>2. CASE m # Junk /\ k = Len(taken) + 1
      BY <1>4, <1>5, <1>7, <1>9, <3>2
    <3>3. QED
      BY <1>2, <1>9, <3>1, <3>2
  <2> HIDE DEF Taken
  <2>4. ASSUME NEW q \in Partitions
        PROVE  /\ began[q] \in 1..pos'[q]
               /\ \A i \in began[q]..(pos'[q] - 1) : IF parts[q][i] = Junk THEN ended' = "raised" ELSE Taken(q, i)'
    <3>1. /\ began[q] \in 1..pos[q]
          /\ \A i \in began[q]..(pos[q] - 1) : IF parts[q][i] = Junk THEN ended = "raised" ELSE Taken(q, i)
      BY <1>1 DEF ReadInv, PosInv
    <3>2. \A i \in began[q]..(pos'[q] - 1) : i \in began[q]..(pos[q] - 1) \/ (q = p /\ i = o)
      BY <1>4, <1>5, <3>1
    <3>3. \A i \in began[q]..(pos[q] - 1) : IF parts[q][i] = Junk THEN ended' = "raised" ELSE Taken(q, i)'
      BY <1>1, <2>1, <3>1
    <3>4. IF parts[p][o] = Junk THEN ended' = "raised" ELSE Taken(p, o)'
      BY <1>2, <2>2
    <3>5. began[q] \in 1..pos'[q]
      BY <1>4, <1>5, <3>1
    <3>6. QED
      BY <3>2, <3>3, <3>4, <3>5
  <2>5. QED
    BY <1>1, <1>4, <1>5, <1>6, <2>3, <2>4 DEF PosInv
<1>12. LatestInv'
  <2>1. asked.reset = "latest" => \A q \in Partitions : pos'[q] > atOpen[q]
    <3>1. \A q \in Partitions : atOpen[q] \in Nat
      BY DEF ReadInv, LatestInv
    <3>2. asked.reset = "latest" => \A q \in Partitions : pos[q] > atOpen[q]
      BY <1>1 DEF ReadInv, LatestInv
    <3>3. QED
      BY <1>4, <1>5, <3>1, <3>2
  <2>2. asked.reset = "latest" => \A k \in 1..Len(taken') : taken'[k].kafka_offset > atOpen[taken'[k].kafka_partition]
    <3>1. asked.reset = "latest" => o > atOpen[p] /\ \A k \in 1..Len(taken) : taken[k].kafka_offset > atOpen[taken[k].kafka_partition]
      BY <1>1 DEF ReadInv, LatestInv
    <3>2. CASE m = Junk
      BY <1>2, <3>1, <3>2
    <3>3. CASE m # Junk
      BY <1>7, <1>9, <3>1, <3>3
    <3>4. QED
      BY <3>2, <3>3
  <2>3. ended' # "done"
    BY <1>1, <1>2
  <2>4. QED
    BY <1>1, <2>1, <2>2, <2>3 DEF ReadInv, LatestInv
<1>13. GroupInv'
  <2>1. \A q \in Partitions, n \in Nat : Covered(q, n) => Covered(q, n)'
    BY <1>1 DEF Covered
  <2>2. ASSUME reader = "example", NEW q \in Partitions, NEW n, n = pos'[q] PROVE Covered(q, n)'
    <3>1. Covered(q, pos[q])
      <4>1. GroupInv /\ pos # <<>> /\ reader = "example"
        BY <1>1, <2>2 DEF ReadInv
      <4>2. QED
        BY <4>1 DEF GroupInv
    <3>2. \A i \in 1..(pos'[q] - 1) : i \in 1..(pos[q] - 1) \/ (q = p /\ i = o)
      BY <1>4, <1>5
    <3>3. \A i \in 1..(pos'[q] - 1) : i < lowest[q] \/ <<q, i>> \in handled \cup {<<p, o>>}
      BY <3>1, <3>2 DEF Covered
    <3>4. QED
      BY <1>1, <2>2, <3>3 DEF Covered
  <2>3. ASSUME NEW q \in Partitions, NEW n \in committed'[q]
        PROVE  n \in 1..(Len(parts[q]) + 1) /\ Covered(q, n)'
    <3>1. CASE n \in committed[q]
      <4> HIDE DEF Covered
      <4>1. n \in 1..(Len(parts[q]) + 1) /\ Covered(q, n)
        BY <3>1 DEF ReadInv, GroupInv
      <4>2. QED
        BY <1>4, <2>1, <4>1
    <3>2. CASE n \notin committed[q]
      <4>1. n = pos'[q] /\ reader = "example"
        BY <1>2, <2>3, <3>2
      <4> HIDE DEF Covered
      <4>2. Covered(q, n)'
        BY <2>2, <4>1
      <4>3. QED
        BY <1>5, <4>1, <4>2
    <3>3. QED
      BY <3>1, <3>2
  <2>4. DOMAIN committed' = Partitions
    BY <1>2 DEF ReadInv, GroupInv
  <2>5. \A q \in Partitions : \A a, b \in committed'[q] : a = b
    <3>1. committed' = committed \/ committed' = [q \in Partitions |-> {pos'[q]}]
      BY <1>2
    <3>2. CASE committed' = committed
      BY <3>2 DEF ReadInv, GroupInv
    <3>3. CASE committed' = [q \in Partitions |-> {pos'[q]}]
      BY <3>3
    <3>4. QED
      BY <3>1, <3>2, <3>3
  <2>6. QED
    BY <1>1, <2>2, <2>3, <2>4, <2>5 DEF GroupInv, Covered
<1>14. QED
  BY <1>3, <1>10, <1>11, <1>12, <1>13 DEF ReadInv

\* The numbers of a venue: no trade is ahead of its counter, and copies of one
\* trade, in the topic or missed, agree.
Present == missed \cup {m \in Copies : \E p \in Partitions : \E i \in 1..Len(parts[p]) : parts[p][i] = m /\ m # Junk}
NumbersInv ==
  /\ counters \in [Scopes -> Nat]
  /\ \A m \in Present : m.trade_id <= counters[Scope(m)]
  /\ \A a, b \in Present : NaturalKey(a) = NaturalKey(b) => Told(a) = Told(b)

\* They hold on when what comes is numbered, and agrees with the copies there are.
LEMMA PresentStep ==
  ASSUME LogInv, NumbersInv, NEW m, \A k \in Present' : k \in Present \/ k = m,
         counters' \in [Scopes -> Nat], \A c \in Scopes : counters[c] <= counters'[c],
         m \in Present' => /\ m.trade_id <= counters'[Scope(m)]
                           /\ \A a \in Present : NaturalKey(a) = NaturalKey(m) => Told(a) = Told(m)
  PROVE  NumbersInv'
<1>1. ASSUME NEW k \in Present' PROVE k.trade_id <= counters'[Scope(k)]
  <2>1. CASE k = m
    BY <2>1
  <2>2. CASE k \in Present
    <3>1. k \in Copies
      BY <2>2 DEF LogInv, Present
    <3>2. k.trade_id \in Nat /\ Scope(k) \in Scopes
      BY <3>1, CopyFacts
    <3>3. k.trade_id <= counters[Scope(k)] /\ counters \in [Scopes -> Nat]
      BY <2>2 DEF NumbersInv
    <3> HIDE DEF Scope
    <3>4. counters[Scope(k)] <= counters'[Scope(k)] /\ counters[Scope(k)] \in Nat /\ counters'[Scope(k)] \in Nat
      BY <3>2, <3>3
    <3> QED
      BY <3>2, <3>3, <3>4
  <2> QED
    BY <2>1, <2>2
<1>2. ASSUME NEW a \in Present', NEW b \in Present', NaturalKey(a) = NaturalKey(b) PROVE Told(a) = Told(b)
  <2> HIDE DEF Present, NaturalKey, Told
  <2>1. CASE a \in Present /\ b \in Present
    BY <1>2, <2>1 DEF NumbersInv
  <2>2. CASE a = m
    BY <1>2, <2>2
  <2>3. CASE b = m
    BY <1>2, <2>3
  <2> QED
    BY <2>1, <2>2, <2>3
<1> QED
  BY <1>1, <1>2 DEF NumbersInv

\* What is present once a message is put.
LEMMA PresentPut ==
  ASSUME LogInv, NEW p \in Partitions, NEW m \in Logged, m # Junk => Home[m.venue_symbol] = p,
         Put(p, m), UNCHANGED lowest, missed' \subseteq missed
  PROVE  \A k \in Present' : k \in Present \/ (k = m /\ m # Junk)
<1>1. \A q \in Partitions : \A i \in 1..Len(parts'[q]) :
        (i \in 1..Len(parts[q]) /\ parts'[q][i] = parts[q][i]) \/ (q = p /\ i = Len(parts[p]) + 1 /\ parts'[q][i] = m)
  BY PutFacts
<1> TAKE k \in Present'
<1>2. CASE k \in missed'
  BY <1>2 DEF Present
<1>3. ASSUME k \in Copies, NEW q \in Partitions, NEW i \in 1..Len(parts'[q]), parts'[q][i] = k, k # Junk
      PROVE  k \in Present \/ (k = m /\ m # Junk)
  <2>1. CASE i \in 1..Len(parts[q]) /\ parts'[q][i] = parts[q][i]
    BY <1>3, <2>1 DEF Present
  <2>2. CASE parts'[q][i] = m
    BY <1>3, <2>2
  <2> QED
    BY <1>1, <2>1, <2>2
<1> QED
  BY <1>2, <1>3 DEF Present

\* The numbers are kept.
LEMMA NumbersStep ==
  ASSUME LogInv, NumbersInv, [StreamNext]_streamVars
  PROVE  NumbersInv'
<1>1. counters \in [Scopes -> Nat] /\ Present \subseteq Copies /\ \A c \in Scopes : counters[c] <= counters[c]
  BY DEF NumbersInv, LogInv, Present
<1>2. ASSUME NEW s \in Streams, NEW deal \in Deals, NEW seen \in BOOLEAN, Arrives(s, deal, seen)
      PROVE  NumbersInv'
  <2> DEFINE c == Scope(s)
             n == counters[c] + 1
             m == TradeSent(s, n, deal)
  <2>1. c \in Scopes /\ counters[c] \in Nat /\ n \in Nat \ {0}
    <3>1. c \in Scopes
      BY DEF Scopes
    <3> HIDE DEF c
    <3>2. QED
      BY <1>1, <3>1
  <2>2. counters' = [counters EXCEPT ![c] = n] /\ UNCHANGED lowest
    BY <1>2 DEF Arrives
  <2>3. counters' \in [Scopes -> Nat] /\ counters'[c] = n /\ \A d \in Scopes : counters[d] <= counters'[d]
    <3> HIDE DEF c
    <3>1. QED
      BY <1>1, <2>1, <2>2
  <2>4. m \in Copies /\ m.venue_symbol = s.venue_symbol /\ Scope(m) = c /\ m.trade_id = n
        /\ Home[m.venue_symbol] \in Partitions
    BY <2>1, CopySent, CopyFacts
  <2>5. \A k \in Present' : k \in Present \/ k = m
    <3>1. CASE seen
      <4>1. Put(Home[m.venue_symbol], m) /\ UNCHANGED missed
        BY <1>2, <2>4, <3>1 DEF Arrives, PartitionOf
      <4> HIDE DEF m, c, n
      <4>2. QED
        BY <2>2, <2>4, <4>1, PresentPut DEF Logged
    <3>2. CASE ~seen
      <4>1. missed' = missed \cup {m} /\ parts' = parts
        BY <1>2, <3>2 DEF Arrives
      <4> HIDE DEF m, c, n
      <4>2. QED
        BY <4>1 DEF Present
    <3> QED
      BY <3>1, <3>2
  \* Its number is above that of every copy of the same market.
  <2>6. ASSUME NEW a \in Present, NaturalKey(a) = NaturalKey(m) PROVE FALSE
    <3>1. a \in Copies /\ a.trade_id <= counters[Scope(a)] /\ a.trade_id \in Nat
      BY <1>1, CopyFacts DEF NumbersInv
    <3>2. a.venue = m.venue /\ a.venue_symbol = m.venue_symbol /\ a.trade_id = m.trade_id
      BY <2>6 DEF NaturalKey
    <3> HIDE DEF m
    <3>3. Scope(a) = Scope(m)
      BY <3>2 DEF Scope
    <3> HIDE DEF c, n, Scope
    <3>4. a.trade_id <= counters[c] /\ a.trade_id = n
      BY <2>4, <3>1, <3>2, <3>3
    <3> QED
      BY <2>1, <3>1, <3>4 DEF n
  <2>7. m.trade_id <= counters'[Scope(m)]
    <3> HIDE DEF m, c, n, Scope
    <3> QED
      BY <2>1, <2>3, <2>4
  <2> HIDE DEF m, c, n
  <2> QED
    BY <2>3, <2>5, <2>6, <2>7, PresentStep
<1>3. ASSUME NEW m \in Copies, NEW source \in Sources, m \in Present, NEW r, r = Copy(m, source),
             Put(Home[m.venue_symbol], r), missed' \subseteq missed, UNCHANGED <<lowest, counters>>
      PROVE  NumbersInv'
  <2>1. /\ r \in Copies /\ r.venue_symbol = m.venue_symbol /\ r.trade_id = m.trade_id
        /\ Scope(r) = Scope(m) /\ NaturalKey(r) = NaturalKey(m) /\ Told(r) = Told(m)
    BY <1>1, <1>3, CopyRepaired
  <2>2. Home[m.venue_symbol] \in Partitions
    BY <1>3, CopyFacts
  <2>3. \A k \in Present' : k \in Present \/ k = r
    BY <1>3, <2>1, <2>2, PresentPut DEF Logged
  <2>4. \A a \in Present : NaturalKey(a) = NaturalKey(r) => Told(a) = Told(r)
    <3> HIDE DEF NaturalKey, Told, Present
    <3> QED
      BY <1>3, <2>1 DEF NumbersInv
  <2>5. r.trade_id <= counters'[Scope(r)]
    <3> HIDE DEF Scope, Present
    <3> QED
      BY <1>3, <2>1 DEF NumbersInv
  <2> QED
    BY <1>1, <1>3, <2>3, <2>4, <2>5, PresentStep
<1>4. ASSUME NEW m \in missed, Repaired(m) PROVE NumbersInv'
  <2>1. m \in Copies /\ m \in Present /\ "REST_REPAIR" \in Sources
    BY DEF LogInv, Present, Sources
  <2>2. Put(Home[m.venue_symbol], Copy(m, "REST_REPAIR")) /\ missed' \subseteq missed /\ UNCHANGED <<lowest, counters>>
    BY <1>4 DEF Repaired, PartitionOf
  <2> QED
    BY <1>3, <2>1, <2>2
<1>5. ASSUME NEW p \in Partitions, NEW source \in Sources, NEW i \in DOMAIN parts[p], Again(p, i, source)
      PROVE  NumbersInv'
  <2> DEFINE m == parts[p][i]
  <2>1. parts[p] \in Seq(Logged) /\ i \in 1..Len(parts[p]) /\ m # Junk
    <3>1. parts[p] \in Seq(Logged)
      BY DEF LogInv
    <3>2. QED
      BY <1>5, <3>1, LenProperties DEF Again
  <2>2. m \in Copies /\ m \in Present /\ Home[m.venue_symbol] = p
    BY <2>1 DEF LogInv, Present, Logged
  <2>3. Put(p, Copy(m, source)) /\ UNCHANGED <<lowest, counters, missed>>
    BY <1>5 DEF Again
  <2> HIDE DEF m
  <2> QED
    BY <1>3, <2>2, <2>3
<1>6. ASSUME NEW p \in Partitions, JunkArrives(p) PROVE NumbersInv'
  <2>1. Put(p, Junk) /\ UNCHANGED <<lowest, counters, missed>> /\ Junk \in Logged
    BY <1>6 DEF JunkArrives, Logged
  <2>2. \A k \in Present' : k \in Present
    BY <2>1, PresentPut
  <2> QED
    BY <1>1, <2>1, <2>2 DEF NumbersInv
<1>7. ASSUME UNCHANGED <<parts, counters, missed>> PROVE NumbersInv'
  BY <1>7 DEF NumbersInv, Present
<1>8. ASSUME NEW p \in Partitions, Retention(p) PROVE NumbersInv'
  BY <1>7, <1>8 DEF Retention
<1>9. ASSUME UNCHANGED brokerVars PROVE NumbersInv'
  BY <1>7, <1>9 DEF brokerVars
<1>10. ASSUME NEW o \in TailOptions, OpenTail(o) PROVE NumbersInv'
  BY <1>9, <1>10 DEF OpenTail, Opened
<1>11. ASSUME OpenSmoke \/ OpenExample PROVE NumbersInv'
  BY <1>9, <1>11 DEF OpenSmoke, OpenExample, Opened
<1>12. ASSUME ReaderStep PROVE NumbersInv'
  BY <1>9, <1>12 DEF ReaderStep, Assigned, PollNothing, Ends, OutOfRange, PollMessage
<1>13. ASSUME PollError \/ AutoCommit \/ Interrupted \/ Killed PROVE NumbersInv'
  BY <1>9, <1>13 DEF PollError, AutoCommit, Interrupted, Killed
<1>14. ASSUME UNCHANGED streamVars PROVE NumbersInv'
  BY <1>9, <1>14 DEF streamVars
<1> QED
  BY <1>2, <1>4, <1>5, <1>6, <1>8, <1>10, <1>11, <1>12, <1>13, <1>14 DEF StreamNext

\* The reader's own steps that read nothing.
LEMMA OtherStep ==
  ASSUME ReadInv, PollNothing \/ PollError \/ Ends \/ AutoCommit \/ Interrupted \/ Killed
  PROVE  ReadInv'
<1> USE DEF Looping
<1>1. DOMAIN committed = Partitions
  BY DEF ReadInv, GroupInv
<1>2. CASE PollNothing
  BY <1>1, <1>2, QuietStep DEF PollNothing
<1>3. CASE PollError
  BY <1>1, <1>3, QuietStep DEF PollError
<1>4. CASE Ends
  <2>1. CASE reader = "smoke"
    <3>1. /\ UNCHANGED <<brokerVars, reader, asked, began, pos, taken, elapsed, committed, handled, atOpen>>
          /\ ended = "reading" /\ ended' = (IF Len(taken) < MinMessages THEN "failed" ELSE "done")
      BY <1>4, <2>1 DEF Ends
    <3>2. Len(taken) \in Nat /\ MinMessages \in Nat
      BY StreamInputs, LenProperties DEF ReadInv, TakenInv
    <3>3. UNCHANGED <<parts, lowest, missed, taken, pos, began, asked, atOpen, handled, reader, committed>>
      BY <3>1 DEF brokerVars
    <3>4. LogInv' /\ TakenInv' /\ GroupInv'
      BY <3>3 DEF ReadInv, LogInv, TakenInv, TakenFrom, GroupInv, Covered
    <3>5. PosInv'
      <4>1. \A q, i : Taken(q, i)' <=> Taken(q, i)
        BY <3>3 DEF Taken
      <4> HIDE DEF Taken
      <4>2. QED
        BY <3>1, <3>3, <4>1 DEF ReadInv, PosInv
    <3>6. LatestInv'
      BY <3>1, <3>2, <3>3 DEF ReadInv, LatestInv
    <3>7. QED
      BY <3>4, <3>5, <3>6 DEF ReadInv
  <2>2. CASE reader # "smoke"
    BY <1>1, <1>4, <2>2, QuietStep DEF Ends
  <2>3. QED
    BY <2>1, <2>2
<1>5. CASE AutoCommit
  <2>1. /\ committed' = [p \in Partitions |-> {pos'[p]}] /\ pos' = pos /\ reader = "example" /\ pos # <<>>
        /\ UNCHANGED <<brokerVars, taken, pos, began, asked, atOpen, handled, reader, ended>>
    BY <1>5 DEF AutoCommit, Commit
  <2>2. \A p \in Partitions : committed'[p] = {pos[p]}
    BY <2>1
  <2>3. QED
    BY <2>1, <2>2, QuietStep
<1>6. CASE Interrupted
  <2>1. /\ committed' = (IF pos = <<>> THEN committed ELSE [p \in Partitions |-> {pos'[p]}])
        /\ pos' = pos /\ reader = "example" /\ reader' = "idle"
        /\ UNCHANGED <<brokerVars, taken, pos, began, asked, atOpen, handled, ended>>
    BY <1>6 DEF Interrupted, Commit
  <2>2. \A p \in Partitions : committed'[p] \in {committed[p], {pos[p]}}
    BY <2>1
  <2>3. QED
    BY <1>1, <2>1, <2>2, QuietStep
<1>7. CASE Killed
  BY <1>1, <1>7, QuietStep DEF Killed
<1>8. QED
  BY <1>2, <1>3, <1>4, <1>5, <1>6, <1>7

\* The invariant of the readers, one case per action.
LEMMA ReadStep == ReadInv /\ NumbersInv /\ [StreamNext]_streamVars => (ReadInv /\ NumbersInv)'
<1> SUFFICES ASSUME ReadInv, NumbersInv, [StreamNext]_streamVars PROVE ReadInv'
  BY NumbersStep DEF ReadInv
<1>1. counters \in [Scopes -> Nat]
  BY DEF NumbersInv
<1>2. ASSUME \/ \E s \in Streams, deal \in Deals, seen \in BOOLEAN : Arrives(s, deal, seen)
             \/ \E m \in missed : Repaired(m)
             \/ \E p \in Partitions, source \in Sources : \E i \in DOMAIN parts[p] : Again(p, i, source)
             \/ \E p \in Partitions : JunkArrives(p) \/ Retention(p)
      PROVE  ReadInv'
  BY <1>1, <1>2, TopicStep
<1>3. ASSUME NEW o \in TailOptions, OpenTail(o) PROVE ReadInv'
  <2>1. o.reset \in {"earliest", "latest"}
    BY StreamInputs
  <2>2. \E x : Opened("tail", o, x)
    BY <1>3 DEF OpenTail
  <2>3. QED
    BY <2>1, <2>2, OpenStep
<1>4. ASSUME OpenSmoke PROVE ReadInv'
  <2>1. Opened("smoke", SmokeOptions, "reading") /\ SmokeOptions.reset = "latest"
    BY <1>4 DEF OpenSmoke, SmokeOptions
  <2>2. QED
    BY <2>1, OpenStep
<1>5. ASSUME OpenExample PROVE ReadInv'
  <2> DEFINE o == [limit |-> {}, seconds |-> {}, reset |-> "earliest"]
  <2>1. Opened("example", o, "reading") /\ o.reset = "earliest"
    BY <1>5 DEF OpenExample
  <2> HIDE DEF o
  <2>2. QED
    BY <2>1, OpenStep
<1>6. ASSUME NEW p \in Partitions, OutOfRange(p) \/ PollMessage(p) PROVE ReadInv'
  BY <1>6, RangeStep, MessageStep
<1>7. ASSUME UNCHANGED streamVars PROVE ReadInv'
  <2>1. UNCHANGED <<brokerVars, taken, pos, began, asked, atOpen, handled, reader, ended, committed>>
    BY <1>7 DEF streamVars, readerVars
  <2>2. DOMAIN committed = Partitions
    BY DEF ReadInv, GroupInv
  <2>3. QED
    BY <2>1, <2>2, QuietStep
<1>8. QED
  BY <1>2, <1>3, <1>4, <1>5, <1>6, <1>7, AssignStep, OtherStep DEF StreamNext, ReaderStep

\* It holds at the start.
LEMMA ReadStarts == StreamInit => ReadInv /\ NumbersInv
<1> SUFFICES ASSUME StreamInit PROVE ReadInv /\ NumbersInv
  OBVIOUS
<1>1. Len(<<>>) = 0 /\ <<>> \in Seq(Logged) /\ <<>> \in Seq(Rows)
  BY EmptySeq
<1>2. parts = [p \in Partitions |-> <<>>] /\ \A p \in Partitions : parts[p] = <<>> /\ Len(parts[p]) = 0
  BY <1>1 DEF StreamInit
<1>3. \A i \in 1..0 : FALSE
  OBVIOUS
<1>4. LogInv
  BY <1>1, <1>2, <1>3 DEF StreamInit, LogInv
<1>5. TakenInv /\ PosInv
  BY <1>1, <1>3 DEF StreamInit, TakenInv, PosInv
<1>6. LatestInv
  BY <1>1, <1>2, <1>3 DEF StreamInit, LatestInv
<1>7. GroupInv
  BY DEF StreamInit, GroupInv
<1>8. NumbersInv
  <2>1. \A m \in Present : FALSE
    BY <1>2, <1>3 DEF StreamInit, Present
  <2>2. counters \in [Scopes -> Nat]
    BY DEF StreamInit, Scopes
  <2> QED
    BY <2>1, <2>2 DEF NumbersInv
<1>9. QED
  BY <1>4, <1>5, <1>6, <1>7, <1>8 DEF ReadInv

-----------------------------------------------------------------------------
\* What a record of a frame is made of, and what its columns hold.
LEMMA RowFacts ==
  ASSUME NEW r \in Rows
  PROVE  /\ r.event_ts \in Nat \ {0} /\ r.ingest_ts \in Int /\ r.trade_id \in Nat \ {0}
         /\ r.sequence \in Nat /\ r.price \in Nat \ {0} /\ r.size \in Nat
         /\ r.side \in Sides /\ r.source \in Sources
         /\ r.kafka_partition \in Partitions /\ r.kafka_offset \in Nat \ {0}
<1>1. PICK m \in Copies, p \in Partitions, o \in Nat \ {0} : r = Decoded(m, p, o)
  BY DEF Rows
<1>2. /\ r.event_ts = m.event_ts /\ r.ingest_ts = m.ingest_ts /\ r.trade_id = m.trade_id /\ r.sequence = m.sequence
      /\ r.price = m.price /\ r.size = m.size /\ r.side = m.side /\ r.source = m.source
      /\ r.kafka_partition = p /\ r.kafka_offset = o
  BY <1>1 DEF Decoded
<1>3. QED
  BY <1>2, CopyFacts

\* The columns of a row.
LEMMA CellFacts ==
  ASSUME NEW r
  PROVE  /\ Cell(r, "venue") = r.venue /\ Cell(r, "instrument_id") = r.instrument_id
         /\ Cell(r, "price") = r.price /\ Cell(r, "size") = r.size /\ Cell(r, "event_ts") = r.event_ts
         /\ Cell(r, "kafka_partition") = r.kafka_partition /\ Cell(r, "kafka_offset") = r.kafka_offset
         /\ Cell(r, "source") = r.source
         /\ Cell(r, "notional") = r.price * r.size /\ Cell(r, "latency") = r.ingest_ts - r.event_ts
         /\ Cell(r, "minute") = r.event_ts \div Minute /\ Cell(r, "is_backfill") = (r.source # "STREAM")
BY DEF Cell

\* No record is taken twice.
LEMMA TakenOnce ==
  ASSUME ReadInv
  PROVE  /\ taken \in Seq(Rows) /\ Len(taken) \in Nat /\ DOMAIN taken = 1..Len(taken)
         /\ \A k \in 1..Len(taken) : taken[k] \in Rows
         /\ ToSet(taken) = {taken[k] : k \in 1..Len(taken)} /\ ToSet(taken) \subseteq Rows
         /\ IsFiniteSet(1..Len(taken)) /\ Cardinality(1..Len(taken)) = Len(taken)
         /\ IsFiniteSet(ToSet(taken))
         /\ \A j, k \in 1..Len(taken) :
              taken[j].kafka_partition = taken[k].kafka_partition /\ taken[j].kafka_offset = taken[k].kafka_offset
                => j = k
<1>1. taken \in Seq(Rows) /\ Len(taken) \in Nat /\ DOMAIN taken = 1..Len(taken)
  BY LenProperties DEF ReadInv, TakenInv
<1>2. \A k \in 1..Len(taken) : taken[k] \in Rows
  BY <1>1
<1>3. ToSet(taken) = {taken[k] : k \in 1..Len(taken)}
  BY <1>1 DEF ToSet
<1>4. IsFiniteSet(1..Len(taken)) /\ Cardinality(1..Len(taken)) = Len(taken)
  <2>1. 0 \in Nat /\ 0 <= Len(taken) /\ 0 + 1 = 1 /\ Len(taken) - 0 = Len(taken)
    BY <1>1
  <2>2. QED
    BY <1>1, <2>1, IntervalSize
<1>5. IsFiniteSet(ToSet(taken))
  BY <1>3, <1>4, ImageCount
<1>6. \A j, k \in 1..Len(taken) :
        taken[j].kafka_partition = taken[k].kafka_partition /\ taken[j].kafka_offset = taken[k].kafka_offset
          => j = k
  <2> SUFFICES ASSUME NEW j \in 1..Len(taken), NEW k \in 1..Len(taken),
                      taken[j].kafka_partition = taken[k].kafka_partition,
                      taken[j].kafka_offset = taken[k].kafka_offset
               PROVE  j = k
    OBVIOUS
  <2>1. taken[j].kafka_offset \in Int /\ taken[k].kafka_offset \in Int
    BY <1>2, RowFacts
  <2>2. /\ j < k => taken[j].kafka_offset < taken[k].kafka_offset
        /\ k < j => taken[k].kafka_offset < taken[j].kafka_offset
    BY DEF ReadInv, TakenInv
  <2>3. QED
    BY <1>1, <2>1, <2>2
<1>7. QED
  BY <1>1, <1>2, <1>3, <1>4, <1>5, <1>6

\* Records whose offsets lie among some offsets of their partition are no more
\* than those offsets.
LEMMA TakenAmong ==
  ASSUME ReadInv, NEW K \in SUBSET (1..Len(taken)), NEW G,
         \A p \in Partitions : IsFiniteSet(G[p]),
         \A k \in K : taken[k].kafka_offset \in G[taken[k].kafka_partition]
  PROVE  /\ Cardinality(K) <= Sum([p \in Partitions |-> Cardinality(G[p])], Partitions)
         /\ Cardinality(K) \in Nat /\ Sum([p \in Partitions |-> Cardinality(G[p])], Partitions) \in Nat
<1> DEFINE c == [k \in K |-> taken[k].kafka_partition]
           Of(p) == {k \in K : c[k] = p}
           f == [p \in Partitions |-> Cardinality(Of(p))]
           h == [p \in Partitions |-> Cardinality(G[p])]
<1>1. IsFiniteSet(K) /\ IsFiniteSet(Partitions)
  <2>1. IsFiniteSet(1..Len(taken))
    BY TakenOnce
  <2>2. Partitions = 1..2 /\ 1 \in Int /\ 2 \in Int
    BY DEF Partitions
  <2>3. QED
    BY <2>1, <2>2, FS_Subset, FS_Interval
<1>2. \A k \in K : c[k] \in Partitions
  BY TakenOnce, RowFacts
<1>3. Cardinality(K) = Sum(f, Partitions)
  <2> HIDE DEF c
  <2>1. QED
    BY <1>1, <1>2, CountFibres
<1>4. \A p \in Partitions : f[p] \in Nat /\ h[p] \in Nat /\ f[p] <= h[p]
  <2> SUFFICES ASSUME NEW p \in Partitions PROVE f[p] \in Nat /\ h[p] \in Nat /\ f[p] <= h[p]
    OBVIOUS
  <2> DEFINE off == [k \in Of(p) |-> taken[k].kafka_offset]
  <2>1. \A k \in Of(p) : off[k] \in G[p]
    OBVIOUS
  <2>2. \A j, k \in Of(p) : off[j] = off[k] => j = k
    BY TakenOnce
  <2>3. Cardinality(Of(p)) <= Cardinality(G[p]) /\ Cardinality(Of(p)) \in Nat /\ Cardinality(G[p]) \in Nat
    <3> HIDE DEF off, Of
    <3>1. QED
      BY <2>1, <2>2, InjectionCount
  <2>4. QED
    BY <2>3
<1> HIDE DEF f, h
<1>5. Sum(f, Partitions) <= Sum(h, Partitions)
  BY <1>1, <1>4, SumLeq
<1>6. Sum(f, Partitions) \in Nat /\ Sum(h, Partitions) \in Nat
  BY <1>1, <1>4, SumAgrees
<1>7. QED
  BY <1>3, <1>5, <1>6 DEF h

-----------------------------------------------------------------------------
\* The group of the example skips nothing, and its lag counts nothing twice.
LEMMA GroupCovers == ReadInv => ExampleCovers
<1> SUFFICES ASSUME ReadInv, NEW p \in Partitions, NEW o \in committed[p]
             PROVE  /\ \A i \in 1..(o - 1) : i < lowest[p] \/ <<p, i>> \in handled
                    /\ \A l \in Lag(p) : Cardinality({i \in lowest[p]..Len(parts[p]) : <<p, i>> \notin handled}) <= l
  BY DEF ExampleCovers
<1> DEFINE n == Len(parts[p])
           A == {i \in lowest[p]..n : <<p, i>> \notin handled}
<1>1. n \in Nat /\ o \in 1..(n + 1) /\ Covered(p, o) /\ (\A a \in committed[p] : a = o) /\ lowest[p] \in Nat
  BY LenProperties DEF ReadInv, LogInv, GroupInv
<1>2. \A i \in 1..(o - 1) : i < lowest[p] \/ <<p, i>> \in handled
  BY <1>1 DEF Covered
<1>3. \A l \in Lag(p) : l = n + 1 - o
  BY <1>1 DEF Lag, LagInfo, PartitionInfo
<1> HIDE DEF n
<1>4. 0 < lowest[p]
  BY DEF ReadInv, LogInv
\* What was not handled lies at the committed offset or behind it.
<1>5. A \subseteq o..n
  BY <1>1, <1>2, <1>4
<1>6. IsFiniteSet(o..n) /\ Cardinality(o..n) = n + 1 - o
  <2> DEFINE a == o - 1
  <2>1. a \in Nat /\ a <= n /\ a + 1 = o /\ n - a = n + 1 - o
    BY <1>1
  <2> HIDE DEF a
  <2>2. QED
    BY <1>1, <2>1, IntervalSize
<1> HIDE DEF A
<1>7. Cardinality(A) <= n + 1 - o
  <2> DEFINE S == o..n
  <2>1. A \subseteq S /\ IsFiniteSet(S) /\ Cardinality(S) = n + 1 - o
    BY <1>5, <1>6
  <2> HIDE DEF S
  <2>2. Cardinality(A) <= Cardinality(S)
    BY <2>1, FS_Subset
  <2> QED
    BY <2>1, <2>2
<1> QED
  BY <1>2, <1>3, <1>7 DEF n, A

\* The partitions are a few.
LEMMA PartitionsFinite == IsFiniteSet(Partitions)
<1>1. Partitions = 1..2 /\ 1 \in Int /\ 2 \in Int
  BY DEF Partitions
<1>2. QED
  BY <1>1, FS_Interval

\* What arrived in a partition after the reader opened.
LEMMA SinceOpen ==
  ASSUME ReadInv, NEW p \in Partitions
  PROVE  LET G == (atOpen[p] + 1)..Len(parts[p])
         IN IsFiniteSet(G) /\ Cardinality(G) = Len(parts[p]) - atOpen[p] /\ Len(parts[p]) - atOpen[p] \in Nat
<1>1. Len(parts[p]) \in Nat
  BY LenProperties DEF ReadInv, LogInv
<1>2. atOpen[p] \in Nat /\ atOpen[p] <= Len(parts[p])
  BY DEF ReadInv, LatestInv
<1>3. QED
  BY <1>1, <1>2, IntervalSize

\* A record of a reader from the end lies among what arrived after it opened.
LEMMA ReadSinceOpen ==
  ASSUME ReadInv, asked.reset = "latest", NEW k \in 1..Len(taken)
  PROVE  LET p == taken[k].kafka_partition
             o == taken[k].kafka_offset
         IN p \in Partitions /\ o \in (atOpen[p] + 1)..Len(parts[p]) /\ parts[p][o] # Junk
            /\ taken[k].venue = parts[p][o].venue
<1> DEFINE p == taken[k].kafka_partition
           o == taken[k].kafka_offset
<1>1. p \in Partitions /\ o \in 1..Len(parts[p]) /\ parts[p][o] # Junk /\ taken[k] = Decoded(parts[p][o], p, o)
  BY DEF ReadInv, TakenInv, TakenFrom
<1>2. atOpen[p] \in Nat /\ o > atOpen[p]
  BY <1>1 DEF ReadInv, LatestInv
<1>3. Decoded(parts[p][o], p, o).venue = parts[p][o].venue
  BY DEF Decoded
<1>4. taken[k].venue = parts[p][o].venue
  BY <1>1, <1>3
<1>5. QED
  BY <1>1, <1>2, <1>4

\* A smoke test that passes has read what arrived after it opened.
LEMMA SmokeLive == ReadInv => SmokeProvesLive
<1> SUFFICES ASSUME ReadInv, reader = "smoke", ended = "done"
             PROVE  MinMessages <= SumFunction([p \in Partitions |-> Len(parts[p]) - atOpen[p]])
  BY DEF SmokeProvesLive
<1> DEFINE G == [p \in Partitions |-> (atOpen[p] + 1)..Len(parts[p])]
           f == [p \in Partitions |-> Len(parts[p]) - atOpen[p]]
           h == [p \in Partitions |-> Cardinality(G[p])]
           K == 1..Len(taken)
<1>1. asked.reset = "latest" /\ Len(taken) >= MinMessages
  BY DEF ReadInv, LatestInv
<1>2. \A p \in Partitions : IsFiniteSet(G[p]) /\ h[p] = f[p] /\ h[p] \in Nat
  BY SinceOpen
<1>3. \A k \in K : taken[k].kafka_offset \in G[taken[k].kafka_partition]
  BY <1>1, ReadSinceOpen
<1>4. K \in SUBSET (1..Len(taken)) /\ Cardinality(K) = Len(taken)
  BY TakenOnce
<1>5. IsFiniteSet(Partitions)
  BY PartitionsFinite
<1> HIDE DEF G
<1>6. Cardinality(K) <= Sum([p \in Partitions |-> Cardinality(G[p])], Partitions)
      /\ Sum([p \in Partitions |-> Cardinality(G[p])], Partitions) \in Nat
  BY <1>2, <1>3, <1>4, TakenAmong
<1>7. SumFunction(f) = Sum(f, Partitions)
  BY SumFunctionIsSum
<1> HIDE DEF f
<1>8. Sum(h, Partitions) = Sum(f, Partitions)
  <2> HIDE DEF h
  <2>1. QED
    BY <1>2, <1>5, SumAgrees
<1>9. Len(taken) \in Nat /\ MinMessages \in Nat
  BY TakenOnce, StreamInputs
<1>10. MinMessages <= SumFunction(f)
  BY <1>1, <1>4, <1>6, <1>7, <1>8, <1>9
<1>11. QED
  BY <1>10 DEF f

\* A rate counts what arrived after it opened.
LEMMA RateLive == ReadInv => RateIsLive
<1> SUFFICES ASSUME ReadInv PROVE RateIsLive
  OBVIOUS
<1>1. /\ RateReport(taken).messages = Len(taken) /\ RateReport(taken).by_venue = Counter(taken, "venue")
      /\ RateReport(taken).by_instrument = Counter(taken, "instrument_id")
  BY DEF RateReport
<1>2. Len(taken) = SumFunction(Counter(taken, "instrument_id"))
  <2> DEFINE c == [i \in 1..Len(taken) |-> taken[i].instrument_id]
             T == Column(ToSet(taken), "instrument_id")
             f == [v \in T |-> Cardinality({i \in 1..Len(taken) : c[i] = v})]
  <2>1. IsFiniteSet(1..Len(taken)) /\ Cardinality(1..Len(taken)) = Len(taken)
    BY TakenOnce
  <2>2. T = {c[i] : i \in 1..Len(taken)}
    BY TakenOnce, CellFacts DEF Column
  <2>3. Counter(taken, "instrument_id") = f
    <3>1. \A i \in 1..Len(taken) : Cell(taken[i], "instrument_id") = c[i]
      BY CellFacts
    <3>2. DOMAIN taken = 1..Len(taken)
      BY TakenOnce
    <3> HIDE DEF c
    <3>3. QED
      BY <3>1, <3>2 DEF Counter
  <2>4. SumFunction(f) = Sum(f, T)
    BY SumFunctionIsSum
  <2>5. \A i \in 1..Len(taken) : c[i] \in T
    BY <2>2
  <2> HIDE DEF c, T
  <2>6. IsFiniteSet(T)
    BY <2>1, <2>2, ImageCount
  <2>7. Cardinality(1..Len(taken)) = Sum(f, T)
    BY <2>1, <2>5, <2>6, CountFibres
  <2>8. QED
    BY <2>1, <2>3, <2>4, <2>7
<1>3. ASSUME reader = "tail", asked.reset = "latest", NEW v \in DOMAIN Counter(taken, "venue")
      PROVE  Counter(taken, "venue")[v] <= SumFunction(
               [p \in Partitions |-> Cardinality({i \in (atOpen[p] + 1)..Len(parts[p]) :
                                         parts[p][i] # Junk /\ parts[p][i].venue = v})])
  <2> DEFINE K == {i \in 1..Len(taken) : taken[i].venue = v}
             G == [p \in Partitions |-> {i \in (atOpen[p] + 1)..Len(parts[p]) :
                                         parts[p][i] # Junk /\ parts[p][i].venue = v}]
             f == [p \in Partitions |-> Cardinality({i \in (atOpen[p] + 1)..Len(parts[p]) :
                                         parts[p][i] # Junk /\ parts[p][i].venue = v})]
  <2>1. Counter(taken, "venue")[v] = Cardinality(K)
    BY TakenOnce, CellFacts, <1>3 DEF Counter
  <2>2. f = [p \in Partitions |-> Cardinality(G[p])]
    OBVIOUS
  <2>3. \A p \in Partitions : IsFiniteSet(G[p])
    <3> TAKE p \in Partitions
    <3>1. G[p] \subseteq (atOpen[p] + 1)..Len(parts[p]) /\ IsFiniteSet((atOpen[p] + 1)..Len(parts[p]))
      BY SinceOpen
    <3> HIDE DEF G
    <3>2. QED
      BY <3>1, FS_Subset
  <2>4. \A k \in K : taken[k].kafka_offset \in G[taken[k].kafka_partition]
    BY <1>3, ReadSinceOpen
  <2>5. K \in SUBSET (1..Len(taken))
    OBVIOUS
  <2>6. SumFunction(f) = Sum(f, Partitions)
    BY SumFunctionIsSum
  <2> HIDE DEF K, G
  <2>7. Cardinality(K) <= Sum([p \in Partitions |-> Cardinality(G[p])], Partitions)
    BY <2>3, <2>4, <2>5, TakenAmong
  <2> HIDE DEF f
  <2>8. Counter(taken, "venue")[v] <= SumFunction(f)
    BY <2>1, <2>2, <2>6, <2>7
  <2>9. QED
    BY <2>8 DEF f
<1>4. QED
  BY <1>1, <1>2, <1>3 DEF RateIsLive

\* A price times a size lies between the prices as often.
LEMMA SizeScales ==
  ASSUME NEW a \in Nat, NEW b \in Nat, a <= b, NEW n \in Nat
  PROVE  a * n <= b * n
<1> DEFINE d == b - a
<1>1. d \in Nat /\ b = a + d
  OBVIOUS
<1> HIDE DEF d
<1>2. n * (a + d) = n * a + n * d
  BY <1>1, Distributes
<1>3. a * n = n * a /\ b * n = n * (a + d) /\ n * a \in Nat /\ n * d \in Nat
  BY <1>1
<1> DEFINE x == n * a
           y == n * d
<1>4. a * n = x /\ b * n = x + y /\ x \in Nat /\ y \in Nat
  BY <1>2, <1>3
<1> HIDE DEF x, y
<1> QED
  BY <1>4

\* What has a price is worth something when it has a size.
LEMMA WorthOf ==
  ASSUME NEW a \in Nat \ {0}, NEW n \in Nat
  PROVE  a * n \in Nat /\ (a * n > 0 <=> n > 0)
<1>1. CASE n = 0
  BY <1>1
<1>2. CASE n > 0
  <2>1. 1 * n <= a * n
    BY SizeScales
  <2>2. a * n \in Nat
    OBVIOUS
  <2> DEFINE x == a * n
  <2>3. n <= x /\ x \in Nat
    BY <2>1, <2>2
  <2> HIDE DEF x
  <2>4. x \in Nat /\ x > 0
    BY <1>2, <2>3
  <2> QED
    BY <1>2, <2>4 DEF x
<1> QED
  BY <1>1, <1>2

\* Some rows of the topic: what they are worth lies between their prices, and is
\* something when one of them has a size.
LEMMA RowsPriced ==
  ASSUME NEW w, w \subseteq Rows, IsFiniteSet(w), w # {}
  PROVE  LET lo == Min(Column(w, "price"))
             hi == Max(Column(w, "price"))
             volume == Total(w, "size")
             notional == Total(w, "notional")
         IN /\ volume \in Nat /\ notional \in Nat /\ lo \in Nat /\ hi \in Nat
            /\ lo * volume <= notional /\ notional <= hi * volume
            /\ IF \E r \in w : r.size > 0 THEN volume > 0 /\ notional > 0 ELSE volume = 0 /\ notional = 0
<1> DEFINE lo == Min(Column(w, "price"))
           hi == Max(Column(w, "price"))
           f == [r \in w |-> Cell(r, "size")]
           h == [r \in w |-> Cell(r, "notional")]
<1>1. Total(w, "size") = Sum(f, w) /\ Total(w, "notional") = Sum(h, w)
  BY SumFunctionIsSum DEF Total
<1>2. \A r \in w : r.size \in Nat /\ r.price \in Nat \ {0}
  BY RowFacts
<1>3. /\ \A r \in w : f[r] = r.size /\ h[r] = r.price * r.size
      /\ Column(w, "price") = {r.price : r \in w}
  BY CellFacts DEF Column
<1>4. \A r \in w : f[r] \in Nat /\ h[r] \in Nat /\ (f[r] > 0 <=> r.size > 0) /\ (h[r] > 0 <=> r.size > 0)
  <2> TAKE r \in w
  <2>1. f[r] = r.size /\ h[r] = r.price * r.size
    BY <1>3
  <2>2. r.price * r.size \in Nat /\ (r.price * r.size > 0 <=> r.size > 0)
    BY <1>2, WorthOf
  <2> HIDE DEF f, h
  <2> QED
    BY <1>2, <2>1, <2>2
<1>5. /\ lo \in Nat /\ hi \in Nat /\ \A r \in w : lo <= r.price /\ r.price <= hi
  <2> DEFINE prices == {r.price : r \in w}
             price == [r \in w |-> r.price]
  <2>1. prices = {price[r] : r \in w} /\ prices \subseteq Nat /\ prices # {}
    BY <1>2
  <2> HIDE DEF price
  <2>2. IsFiniteSet(prices)
    <3> HIDE DEF prices
    <3>1. QED
      BY <2>1, ImageCount
  <2>3. \A r \in w : r.price \in prices
    OBVIOUS
  <2>4. lo = Min(prices) /\ hi = Max(prices)
    BY <1>3
  <2> HIDE DEF prices, lo, hi
  <2>5. prices \subseteq Int
    BY <2>1
  <2>6. QED
    BY <2>1, <2>2, <2>3, <2>4, <2>5, Extremes
<1>6. \A r \in w : lo * f[r] <= h[r] /\ h[r] <= hi * f[r]
  <2> TAKE r \in w
  <2>1. r.size \in Nat /\ r.price \in Nat /\ lo <= r.price /\ r.price <= hi /\ lo \in Nat /\ hi \in Nat
    BY <1>2, <1>5
  <2>2. f[r] = r.size /\ h[r] = r.price * r.size
    BY <1>3
  <2> HIDE DEF lo, hi, f, h
  <2>3. lo * r.size <= r.price * r.size /\ r.price * r.size <= hi * r.size
    BY <2>1, SizeScales
  <2>4. QED
    BY <2>2, <2>3
<1> HIDE DEF f, h, lo, hi
<1>7. lo * Sum(f, w) <= Sum(h, w) /\ Sum(h, w) <= hi * Sum(f, w)
  BY <1>4, <1>5, <1>6, SumScaled
<1>8. Sum(f, w) \in Nat /\ Sum(h, w) \in Nat
  BY <1>4, SumAgrees
<1>9. ASSUME NEW e \in w, e.size > 0 PROVE Sum(f, w) > 0 /\ Sum(h, w) > 0
  <2>1. Sum(f, w) = f[e] + Sum(f, w \ {e}) /\ Sum(h, w) = h[e] + Sum(h, w \ {e})
    BY <1>4, SumRemoves
  <2>2. IsFiniteSet(w \ {e}) /\ \A r \in w \ {e} : f[r] \in Nat /\ h[r] \in Nat
    BY <1>4, FS_Subset
  <2>3. Sum(f, w \ {e}) \in Nat /\ Sum(h, w \ {e}) \in Nat
    BY <2>2, SumAgrees
  <2>4. f[e] \in Nat /\ f[e] > 0 /\ h[e] \in Nat /\ h[e] > 0
    BY <1>4, <1>9
  <2> QED
    BY <2>1, <2>3, <2>4
<1>10. ASSUME \A r \in w : ~(r.size > 0) PROVE Sum(f, w) = 0 /\ Sum(h, w) = 0
  <2> DEFINE z == [r \in w |-> 0]
  <2>1. \A r \in w : f[r] = 0 /\ h[r] = 0
    BY <1>4, <1>10
  <2>2. \A r \in w : z[r] \in Nat /\ f[r] <= 0 * z[r] /\ h[r] <= 0 * z[r]
    BY <2>1
  <2> HIDE DEF z
  <2>3. Sum(f, w) <= 0 * Sum(z, w) /\ Sum(h, w) <= 0 * Sum(z, w) /\ Sum(z, w) \in Nat
    BY <1>4, <2>2, SumScaled, SumAgrees
  <2> DEFINE t == Sum(z, w)
  <2>4. Sum(f, w) <= 0 * t /\ Sum(h, w) <= 0 * t /\ t \in Nat
    BY <2>3
  <2> HIDE DEF t
  <2>5. Sum(f, w) <= 0 /\ Sum(h, w) <= 0
    BY <2>4
  <2> QED
    BY <1>8, <2>5
<1> QED
  BY <1>1, <1>5, <1>7, <1>8, <1>9, <1>10 DEF lo, hi

\* The window of an instrument: its last trades, one at least and no more than it holds.
LEMMA WindowFacts ==
  ASSUME ReadInv, NEW g \in DOMAIN Windows(taken)
  PROVE  LET w == Windows(taken)[g]
         IN w \subseteq Rows /\ IsFiniteSet(w) /\ w # {} /\ Cardinality(w) \in 1..Window
<1> DEFINE n == Len(taken)
           J == {j \in 1..n : taken[j].instrument_id = g}
           K == {j \in 1..n : taken[j].instrument_id = g /\ Cardinality(Later(taken, j)) < Window}
           w == {taken[k] : k \in K}
<1>1. /\ n \in Nat /\ DOMAIN taken = 1..n /\ IsFiniteSet(1..n) /\ Window \in Nat \ {0}
      /\ \A k \in 1..n : taken[k] \in Rows
      /\ \A j, k \in 1..n : taken[j].kafka_partition = taken[k].kafka_partition
                               /\ taken[j].kafka_offset = taken[k].kafka_offset => j = k
  BY TakenOnce, StreamInputs
<1>2. Windows(taken)[g] = w
  BY <1>1 DEF Windows
<1>3. J # {}
  <2>1. g \in Column(ToSet(taken), "instrument_id")
    BY DEF Windows
  <2>2. PICK r \in ToSet(taken) : g = r.instrument_id
    BY <2>1, CellFacts DEF Column
  <2>3. PICK j \in 1..n : r = taken[j]
    BY <2>2, TakenOnce
  <2>4. QED
    BY <2>2, <2>3
<1> HIDE DEF n
<1>4. J \subseteq 1..n /\ K \subseteq J /\ J \subseteq Int
  BY <1>1
<1>5. IsFiniteSet(J) /\ IsFiniteSet(K)
  <2> HIDE DEF J, K
  <2>1. QED
    BY <1>1, <1>4, FS_Subset
<1>6. \A k \in J : /\ IsFiniteSet(Later(taken, k)) /\ Cardinality(Later(taken, k)) \in Nat
                   /\ Later(taken, k) = {j \in J : j > k}
  <2> TAKE k \in J
  <2>1. Later(taken, k) = {j \in J : j > k}
    BY <1>1 DEF Later
  <2> HIDE DEF J
  <2>2. Later(taken, k) \subseteq J
    BY <2>1
  <2>3. QED
    BY <1>5, <2>1, <2>2, FS_Subset, FS_CardinalityType
\* The last trade of the instrument is in the window.
<1>7. K # {}
  <2> DEFINE b == Max(J)
  <2>1. b \in J /\ \A j \in J : j <= b
    <3> HIDE DEF J
    <3>1. QED
      BY <1>3, <1>4, <1>5, Extremes
  <2> HIDE DEF b
  <2>2. Later(taken, b) = {}
    <3>1. Later(taken, b) = {j \in J : j > b}
      BY <1>6, <2>1
    <3>2. b \in Int /\ \A j \in J : j \in Int /\ j <= b
      BY <1>4, <2>1
    <3> HIDE DEF J
    <3>3. QED
      BY <3>1, <3>2
  <2>3. Cardinality(Later(taken, b)) = 0
    BY <2>2, FS_EmptySet
  <2>4. b \in K
    BY <1>1, <2>1, <2>3
  <2>5. QED
    BY <2>4
\* All but the first trade of the window are later than it.
<1>8. Cardinality(K) \in 1..Window
  <2> DEFINE a == Min(K)
  <2>1. a \in K /\ \A j \in K : a <= j
    <3> HIDE DEF K, J
    <3>1. K \subseteq Int
      BY <1>4
    <3>2. QED
      BY <1>5, <1>7, <3>1, Extremes
  <2> HIDE DEF a
  <2>2. Cardinality(Later(taken, a)) < Window /\ a \in J
    BY <2>1
  <2>3. K \ {a} \subseteq Later(taken, a)
    <3> HIDE DEF K, J
    <3>1. \A j \in K \ {a} : j \in J /\ j > a
      BY <1>4, <2>1, <2>2
    <3>2. QED
      BY <1>6, <2>2, <3>1
  <2> HIDE DEF K, J
  <2>4. Cardinality(K \ {a}) <= Cardinality(Later(taken, a)) /\ Cardinality(Later(taken, a)) \in Nat
    BY <1>6, <2>2, <2>3, FS_Subset
  <2>5. Cardinality(K \ {a}) = Cardinality(K) - 1 /\ Cardinality(K) \in Nat
    BY <1>5, <2>1, FS_RemoveElement, FS_CardinalityType
  <2>6. IsFiniteSet(K \ {a}) /\ Cardinality(K \ {a}) \in Nat
    BY <1>5, FS_Subset, FS_CardinalityType
  <2>7. QED
    BY <1>1, <2>2, <2>4, <2>5, <2>6
<1>9. IsFiniteSet(w) /\ Cardinality(w) = Cardinality(K)
  <2> DEFINE W == w
             f == [k \in K |-> taken[k]]
  <2>1. \A j, k \in K : f[j] = f[k] => j = k
    BY <1>1
  <2>2. W = {f[k] : k \in K}
    OBVIOUS
  <2> HIDE DEF W, K, f
  <2>3. IsFiniteSet(W) /\ Cardinality(W) = Cardinality(K)
    <3> HIDE DEF w, J
    <3>1. QED
      BY <1>5, <2>1, <2>2, SameCount
  <2>4. QED
    BY <2>3 DEF W
<1>10. w \subseteq Rows /\ w # {}
  <2>1. K \subseteq 1..n
    BY <1>4
  <2>2. \A k \in K : taken[k] \in Rows
    BY <1>1, <2>1
  <2> HIDE DEF K
  <2>3. QED
    BY <1>7, <2>2
<1>11. QED
  BY <1>2, <1>8, <1>9, <1>10

\* The vwap of a window lies between the prices of its trades, when one has a size.
LEMMA WindowsPriced == ReadInv => VwapInWindow
<1> SUFFICES ASSUME ReadInv, NEW g \in DOMAIN Windows(taken), NEW w, w = Windows(taken)[g], NEW v, v = Vwap(w)
             PROVE  /\ Cardinality(w) \in 1..Window /\ v.volume > 0
                    /\ IF \E r \in w : r.size > 0
                       THEN v.notional \in (Min(Column(w, "price")) * v.volume)..(Max(Column(w, "price")) * v.volume)
                       ELSE v.notional = 0
  BY DEF VwapInWindow
<1>1. w \subseteq Rows /\ IsFiniteSet(w) /\ w # {} /\ Cardinality(w) \in 1..Window
  BY WindowFacts
<1> DEFINE lo == Min(Column(w, "price"))
           hi == Max(Column(w, "price"))
           x == Total(w, "size")
           y == Total(w, "notional")
<1>2. /\ x \in Nat /\ y \in Nat /\ lo \in Nat /\ hi \in Nat
      /\ lo * x <= y /\ y <= hi * x
      /\ IF \E r \in w : r.size > 0 THEN x > 0 /\ y > 0 ELSE x = 0 /\ y = 0
  BY <1>1, RowsPriced
<1>3. v = (IF x = 0 THEN [notional |-> 0, volume |-> 1] ELSE [notional |-> y, volume |-> x])
  BY DEF Vwap
<1> HIDE DEF lo, hi, x, y
<1>4. CASE \E r \in w : r.size > 0
  <2>1. x > 0
    BY <1>2, <1>4
  <2>2. v.volume = x /\ v.notional = y
    BY <1>2, <1>3, <2>1
  <2>3. lo * x \in Int /\ hi * x \in Int
    BY <1>2
  <2> DEFINE b == lo * x
             c == hi * x
  <2>4. b \in Int /\ c \in Int /\ b <= y /\ y <= c
    BY <1>2, <2>3
  <2> HIDE DEF b, c
  <2>5. y \in b..c
    BY <1>2, <2>4
  <2>6. v.notional \in (lo * v.volume)..(hi * v.volume)
    BY <2>2, <2>5 DEF b, c
  <2> QED
    BY <1>1, <1>4, <2>1, <2>2, <2>6 DEF lo, hi
<1>5. CASE ~(\E r \in w : r.size > 0)
  <2>1. v.volume = 1 /\ v.notional = 0
    BY <1>2, <1>3, <1>5
  <2> QED
    BY <1>1, <1>5, <2>1
<1> QED
  BY <1>4, <1>5

\* Each reader reads what it claims.
THEOREM ReadersTrue == StreamSpec => []ReadersSound
<1>1. ReadInv /\ NumbersInv => ReadersSound
  BY GroupCovers, SmokeLive, RateLive, WindowsPriced DEF ReadersSound
<1>2. QED
  BY <1>1, ReadStarts, ReadStep, PTL DEF StreamSpec

-----------------------------------------------------------------------------
\* A tail from the start leaves nothing out.
LEMMA TailWhole == ReadInv => TailComplete
<1> SUFFICES ASSUME ReadInv, pos # <<>>, NEW p \in Partitions
             PROVE  /\ \A i \in began[p]..(pos[p] - 1) :
                         \/ i < lowest[p] \/ parts[p][i] = Junk
                         \/ \E r \in ToSet(taken) : r.kafka_partition = p /\ r.kafka_offset = i
                    /\ ended # "raised" /\ began[p] <= lowest[p] /\ pos[p] = Len(parts[p]) + 1 =>
                         Retained[p] = Cardinality({r \in ToSet(taken) : r.kafka_partition = p /\ r.kafka_offset >= lowest[p]})
  BY DEF TailComplete
<1>1. ASSUME NEW i \in began[p]..(pos[p] - 1), parts[p][i] # Junk
      PROVE  \E r \in ToSet(taken) : r.kafka_partition = p /\ r.kafka_offset = i
  <2>1. Taken(p, i)
    <3> HIDE DEF Taken
    <3>1. QED
      BY <1>1 DEF ReadInv, PosInv
  <2>2. QED
    BY <2>1, TakenOnce DEF Taken
<1>2. ASSUME ended # "raised", began[p] <= lowest[p], pos[p] = Len(parts[p]) + 1
      PROVE  Retained[p] = Cardinality({r \in ToSet(taken) : r.kafka_partition = p /\ r.kafka_offset >= lowest[p]})
  <2> DEFINE n == Len(parts[p])
             T == {r \in ToSet(taken) : r.kafka_partition = p /\ r.kafka_offset >= lowest[p]}
             f == [r \in T |-> r.kafka_offset]
             S == lowest[p]..n
  <2>1. n \in Nat /\ lowest[p] \in 1..(n + 1) /\ began[p] \in Nat
    BY LenProperties DEF ReadInv, LogInv, PosInv
  <2>2. Retained[p] = n + 1 - lowest[p]
    <3>1. Retained[p] = PartitionInfo(p).high - PartitionInfo(p).low
      BY DEF Retained, Messages
    <3>2. PartitionInfo(p).high = n + 1 /\ PartitionInfo(p).low = lowest[p]
      BY DEF PartitionInfo
    <3>3. QED
      BY <2>1, <3>1, <3>2
  <2>3. Cardinality(S) = n + 1 - lowest[p]
    <3> DEFINE a == lowest[p] - 1
    <3>1. a \in Nat /\ a <= n /\ a + 1 = lowest[p] /\ n - a = n + 1 - lowest[p]
      BY <2>1
    <3> HIDE DEF a, n
    <3>2. QED
      BY <2>1, <3>1, IntervalSize
  <2>4. \A r \in T : r.kafka_offset \in S
    <3> TAKE r \in T
    <3>1. PICK k \in 1..Len(taken) : r = taken[k]
      BY TakenOnce
    <3>2. r.kafka_offset \in 1..n
      BY <3>1 DEF ReadInv, TakenInv, TakenFrom
    <3>3. QED
      BY <2>1, <3>2
  <2>5. \A i \in S : \E r \in T : r.kafka_offset = i
    <3> TAKE i \in S
    <3>1. i \in began[p]..(pos[p] - 1) /\ i \in Int /\ i >= lowest[p]
      BY <1>2, <2>1
    <3>2. parts[p][i] # Junk
      BY <1>2, <3>1 DEF ReadInv, PosInv
    <3>3. QED
      BY <1>1, <3>1, <3>2
  <2>6. S = {f[r] : r \in T}
    BY <2>4, <2>5
  <2>7. \A q, r \in T : f[q] = f[r] => q = r
    BY TakenOnce
  <2>8. IsFiniteSet(T)
    <3>1. T \subseteq ToSet(taken) /\ IsFiniteSet(ToSet(taken))
      BY TakenOnce
    <3> HIDE DEF T
    <3>2. QED
      BY <3>1, FS_Subset
  <2> HIDE DEF S, T, f, n
  <2>9. Cardinality(S) = Cardinality(T)
    BY <2>6, <2>7, <2>8, SameCount, ZenonT(60)
  <2>10. QED
    BY <2>2, <2>3, <2>9 DEF T, n
<1>3. QED
  BY <1>1, <1>2

\* Outside Coinbase a scope is one symbol of one venue.
LEMMA ScopeIsSymbol ==
  ASSUME NEW a, NEW b, a.venue # "coinbase", Scope(b) = Scope(a)
  PROVE  b.venue = a.venue /\ b.venue_symbol = a.venue_symbol
<1>1. Scope(a) = <<a.venue, a.venue_symbol>>
  BY DEF Scope
<1>2. b.venue # "coinbase"
  <2> SUFFICES ASSUME b.venue = "coinbase" PROVE FALSE
    OBVIOUS
  <2>1. Scope(b) = <<b.venue>>
    BY DEF Scope
  <2>2. Len(<<b.venue>>) = 1 /\ Len(<<a.venue, a.venue_symbol>>) = 2
    OBVIOUS
  <2>3. QED
    BY <1>1, <2>1, <2>2
<1>3. Scope(b) = <<b.venue, b.venue_symbol>>
  BY <1>2 DEF Scope
<1>4. QED
  BY <1>1, <1>3

\* The numbers observed before a record, and the highest of them.
LEMMA ObservedFacts ==
  ASSUME ReadInv, NEW i \in 1..Len(taken)
  PROVE  LET O == Observed(taken, i)
         IN /\ IsFiniteSet(O) /\ O \subseteq Nat
            /\ O # {} => Max(O) \in Nat /\ \A n \in O : n <= Max(O)
<1> DEFINE K == {k \in 1..(i - 1) : /\ taken[k].sequence # Unnumbered /\ taken[k].venue = taken[i].venue
                                    /\ taken[k].venue_symbol = taken[i].venue_symbol}
           f == [k \in K |-> taken[k].sequence]
           O == Observed(taken, i)
<1>1. O = {f[k] : k \in K}
  BY DEF Observed
<1>2. Len(taken) \in Nat /\ IsFiniteSet(1..Len(taken)) /\ \A k \in 1..Len(taken) : taken[k].sequence \in Nat
  BY TakenOnce, RowFacts
<1>3. K \subseteq 1..Len(taken)
  BY <1>2
<1>4. O \subseteq Nat
  BY <1>1, <1>2, <1>3
<1>5. IsFiniteSet(K)
  <2> HIDE DEF K
  <2>1. QED
    BY <1>2, <1>3, FS_Subset
<1> HIDE DEF K, f, O
<1>6. IsFiniteSet(O)
  BY <1>1, <1>5, ImageCount
<1>7. O # {} => Max(O) \in O /\ \A n \in O : n <= Max(O)
  <2>1. O \subseteq Int
    BY <1>4
  <2>2. QED
    BY <1>6, <2>1, Extremes
<1>8. QED
  BY <1>4, <1>6, <1>7 DEF O

\* A gap, and the record that revealed it.
LEMMA GapFacts ==
  ASSUME ReadInv, NEW g \in SequenceGaps(taken)
  PROVE  \E i \in 1..Len(taken) :
           /\ g.at = taken[i] /\ g.at.venue # "coinbase"
           /\ g.before \in Nat /\ g.at.sequence \in Nat
           /\ g = [before |-> Max(Observed(taken, i)), at |-> taken[i]]
           /\ \A k \in 1..(i - 1) : taken[k].venue = taken[i].venue /\ taken[k].venue_symbol = taken[i].venue_symbol
                                      => taken[k].sequence <= g.before
<1>1. PICK i \in 1..Len(taken) : /\ taken[i].venue \notin ConnectionScoped /\ Jumps(taken, i)
                                 /\ g = [before |-> Max(Observed(taken, i)), at |-> taken[i]]
  <2>1. DOMAIN taken = 1..Len(taken)
    BY TakenOnce
  <2> HIDE DEF Observed, Jumps
  <2>2. QED
    BY <2>1 DEF SequenceGaps, Checked
<1> DEFINE O == Observed(taken, i)
<1>2. /\ O # {} /\ taken[i].sequence \in Nat
  BY <1>1, TakenOnce, RowFacts DEF Jumps
<1>3. Max(O) \in Nat /\ \A n \in O : n <= Max(O)
  BY <1>2, ObservedFacts
<1>4. \A k \in 1..(i - 1) : taken[k].venue = taken[i].venue /\ taken[k].venue_symbol = taken[i].venue_symbol
                              => taken[k].sequence \in O \/ taken[k].sequence = 0
  BY DEF Observed, Unnumbered
<1> HIDE DEF O
<1>5. g.before = Max(O) /\ g.at = taken[i]
  BY <1>1 DEF O
<1>6. taken[i].venue # "coinbase"
  BY <1>1 DEF ConnectionScoped
<1>7. QED
  BY <1>1, <1>2, <1>3, <1>4, <1>5, <1>6

\* No copy of a number that a gap misses was there to be read before the record that
\* revealed it: the copies of a symbol lie in one partition, and a tail reads it in order.
LEMMA GapIsReal ==
  ASSUME ReadInv, NEW g \in SequenceGaps(taken), NEW n \in Numbers(g), NEW p \in Partitions,
         NEW o \in began[p]..Len(parts[p]), o >= lowest[p], parts[p][o] # Junk,
         Scope(parts[p][o]) = Scope(g.at), parts[p][o].sequence = n,
         p = g.at.kafka_partition => o < g.at.kafka_offset
  PROVE  FALSE
<1>1. PICK i \in 1..Len(taken) :
           /\ g.at = taken[i] /\ g.at.venue # "coinbase"
           /\ g.before \in Nat /\ g.at.sequence \in Nat
           /\ \A k \in 1..(i - 1) : taken[k].venue = taken[i].venue /\ taken[k].venue_symbol = taken[i].venue_symbol
                                      => taken[k].sequence <= g.before
  BY GapFacts
<1> DEFINE m == parts[p][o]
<1>2. m.venue = taken[i].venue /\ m.venue_symbol = taken[i].venue_symbol
  <2> HIDE DEF Scope
  <2>1. QED
    BY <1>1, ScopeIsSymbol
<1>3. pos # <<>>
  <2>1. Len(taken) \in Nat /\ Len(taken) # 0
    BY <1>1, TakenOnce
  <2>2. taken # <<>>
    BY <2>1, EmptySeq
  <2>3. QED
    BY <2>2 DEF ReadInv, PosInv
<1>4. Len(parts[p]) \in Nat /\ lowest[p] \in Nat \ {0} /\ began[p] \in Nat /\ o \in 1..Len(parts[p]) /\ o \in Nat
  <2>1. Len(parts[p]) \in Nat /\ lowest[p] \in 1..(Len(parts[p]) + 1)
    BY LenProperties DEF ReadInv, LogInv
  <2>2. began[p] \in Nat
    BY <1>3 DEF ReadInv, PosInv
  <2>3. QED
    BY <2>1, <2>2
<1>5. Home[m.venue_symbol] = p
  BY <1>4 DEF ReadInv, LogInv
<1> DEFINE q == taken[i].kafka_partition
           u == taken[i].kafka_offset
<1>6. q \in Partitions /\ u \in 1..Len(parts[q]) /\ parts[q][u] # Junk /\ taken[i].venue_symbol = parts[q][u].venue_symbol
  <2>1. TakenFrom(taken[i])
    BY <1>1 DEF ReadInv, TakenInv
  <2>2. Decoded(parts[q][u], q, u).venue_symbol = parts[q][u].venue_symbol
    BY DEF Decoded
  <2>3. QED
    BY <2>1, <2>2 DEF TakenFrom
<1>7. Home[parts[q][u].venue_symbol] = q
  BY <1>6 DEF ReadInv, LogInv
<1>8. p = q
  BY <1>2, <1>5, <1>6, <1>7
<1>9. o < u /\ u < pos[p] /\ pos[p] \in Nat /\ u \in Nat
  <2>1. u < pos[p] /\ pos[p] \in Nat
    BY <1>1, <1>3, <1>6, <1>8 DEF ReadInv, PosInv
  <2>2. o < u
    BY <1>1, <1>8
  <2>3. QED
    BY <1>6, <2>1, <2>2
<1>10. Taken(p, o)
  <2>1. o \in began[p]..(pos[p] - 1)
    BY <1>4, <1>9
  <2> HIDE DEF Taken
  <2>2. QED
    BY <1>3, <2>1 DEF ReadInv, PosInv
<1>11. PICK k \in 1..Len(taken) : taken[k].kafka_partition = p /\ taken[k].kafka_offset = o
  BY <1>10 DEF Taken
<1>12. k < i
  <2>1. i < k => u < o
    BY <1>1, <1>8, <1>11 DEF ReadInv, TakenInv
  <2>2. i # k
    BY <1>9, <1>11
  <2>3. Len(taken) \in Nat
    BY TakenOnce
  <2>4. QED
    BY <1>1, <1>4, <1>9, <1>11, <2>1, <2>2, <2>3
<1>13. taken[k].venue = m.venue /\ taken[k].venue_symbol = m.venue_symbol /\ taken[k].sequence = n
  <2>1. taken[k] = Decoded(m, p, o)
    BY <1>11 DEF ReadInv, TakenInv, TakenFrom
  <2>2. Decoded(m, p, o).venue = m.venue /\ Decoded(m, p, o).venue_symbol = m.venue_symbol
        /\ Decoded(m, p, o).sequence = m.sequence
    BY DEF Decoded
  <2>3. QED
    BY <2>1, <2>2
<1>14. n <= g.before
  <2>1. k \in 1..(i - 1)
    BY <1>1, <1>11, <1>12
  <2>2. QED
    BY <1>1, <1>2, <1>13, <2>1
<1>15. n \in (g.before + 1)..(g.at.sequence - 1)
  BY DEF Numbers
<1>16. QED
  BY <1>1, <1>14, <1>15

\* Two gaps of one scope miss different numbers.
LEMMA GapsApart ==
  ASSUME ReadInv, NEW g \in SequenceGaps(taken), NEW h \in SequenceGaps(taken),
         Scope(g.at) = Scope(h.at), NEW n \in Numbers(g), n \in Numbers(h)
  PROVE  g = h
<1>1. PICK i \in 1..Len(taken) :
           /\ g.at = taken[i] /\ g.at.venue # "coinbase"
           /\ g.before \in Nat /\ g.at.sequence \in Nat
           /\ g = [before |-> Max(Observed(taken, i)), at |-> taken[i]]
           /\ \A k \in 1..(i - 1) : taken[k].venue = taken[i].venue /\ taken[k].venue_symbol = taken[i].venue_symbol
                                      => taken[k].sequence <= g.before
  BY GapFacts
<1>2. PICK j \in 1..Len(taken) :
           /\ h.at = taken[j] /\ h.at.venue # "coinbase"
           /\ h.before \in Nat /\ h.at.sequence \in Nat
           /\ h = [before |-> Max(Observed(taken, j)), at |-> taken[j]]
           /\ \A k \in 1..(j - 1) : taken[k].venue = taken[j].venue /\ taken[k].venue_symbol = taken[j].venue_symbol
                                      => taken[k].sequence <= h.before
  BY GapFacts
<1>3. taken[i].venue = taken[j].venue /\ taken[i].venue_symbol = taken[j].venue_symbol
  <2> HIDE DEF Scope
  <2>1. QED
    BY <1>1, <1>2, ScopeIsSymbol
<1>4. /\ n \in (g.before + 1)..(g.at.sequence - 1) /\ n \in (h.before + 1)..(h.at.sequence - 1)
  BY DEF Numbers
<1>5. ~(i < j)
  <2> SUFFICES ASSUME i < j PROVE FALSE
    OBVIOUS
  <2>1. i \in 1..(j - 1)
    BY <1>1, <1>2
  <2>2. taken[i].sequence <= h.before
    BY <1>2, <1>3, <2>1
  <2>3. QED
    BY <1>1, <1>2, <1>4, <2>2
<1>6. ~(j < i)
  <2> SUFFICES ASSUME j < i PROVE FALSE
    OBVIOUS
  <2>1. j \in 1..(i - 1)
    BY <1>1, <1>2
  <2>2. taken[j].sequence <= g.before
    BY <1>1, <1>3, <2>1
  <2>3. QED
    BY <1>1, <1>2, <1>4, <2>2
<1>7. i = j
  <2>1. Len(taken) \in Nat
    BY TakenOnce
  <2>2. QED
    BY <1>1, <1>2, <1>5, <1>6, <2>1
<1>8. QED
  BY <1>1, <1>2, <1>7

\* A gap report counts each number it misses once.
LEMMA GapsCounted ==
  ASSUME ReadInv
  PROVE  GapReport(taken).missing
           = Cardinality(UNION {{<<Scope(g.at), n>> : n \in Numbers(g)} : g \in SequenceGaps(taken)})
<1> DEFINE gaps == SequenceGaps(taken)
           Of(g) == {<<Scope(g.at), n>> : n \in Numbers(g)}
           U == UNION {Of(g) : g \in gaps}
           c == [x \in U |-> CHOOSE g \in gaps : x \in Of(g)]
           f == [g \in gaps |-> Cardinality(Numbers(g))]
           h == [g \in gaps |-> Cardinality({x \in U : c[x] = g})]
<1>1. IsFiniteSet(gaps)
  <2> DEFINE K == {j \in Checked(taken) : Jumps(taken, j)}
             gap == [i \in K |-> [before |-> Max(Observed(taken, i)), at |-> taken[i]]]
  <2>1. gaps = {gap[i] : i \in K}
    <3> HIDE DEF Observed, Jumps
    <3>1. QED
      BY DEF SequenceGaps
  <2>2. K \subseteq 1..Len(taken) /\ IsFiniteSet(1..Len(taken))
    BY TakenOnce DEF Checked
  <2> HIDE DEF K, gap, gaps
  <2>3. IsFiniteSet(K)
    BY <2>2, FS_Subset
  <2>4. QED
    BY <2>1, <2>3, ImageCount
<1>2. \A g \in gaps : /\ IsFiniteSet(Numbers(g)) /\ IsFiniteSet(Of(g)) /\ Cardinality(Of(g)) = Cardinality(Numbers(g))
                      /\ Cardinality(Numbers(g)) \in Nat
  <2> SUFFICES ASSUME NEW g \in gaps
               PROVE  /\ IsFiniteSet(Numbers(g)) /\ IsFiniteSet(Of(g)) /\ Cardinality(Of(g)) = Cardinality(Numbers(g))
                      /\ Cardinality(Numbers(g)) \in Nat
    OBVIOUS
  <2>1. IsFiniteSet(Numbers(g))
    <3>1. g.before + 1 \in Int /\ g.at.sequence - 1 \in Int
      <4> HIDE DEF Observed
      <4>1. g.before \in Nat /\ g.at.sequence \in Nat
        BY GapFacts
      <4>2. QED
        BY <4>1
    <3>2. QED
      BY <3>1, FS_Interval DEF Numbers
  <2> DEFINE S == Numbers(g)
             T == Of(g)
             t == [n \in S |-> <<Scope(g.at), n>>]
  <2>2. T = {t[n] : n \in S}
    <3> HIDE DEF Numbers, Scope
    <3>1. QED
      OBVIOUS
  <2>3. \A n, k \in S : t[n] = t[k] => n = k
    <3> HIDE DEF Numbers, Scope
    <3>1. QED
      OBVIOUS
  <2>4. IsFiniteSet(S)
    BY <2>1
  <2> HIDE DEF S, T, t
  <2>5. IsFiniteSet(T) /\ Cardinality(T) = Cardinality(S)
    BY <2>2, <2>3, <2>4, SameCount
  <2>6. QED
    BY <2>1, <2>5, FS_CardinalityType DEF S, T
<1>3. \A x \in U : \A g \in gaps : x \in Of(g) => c[x] = g
  <2> SUFFICES ASSUME NEW x \in U, NEW g \in gaps, x \in Of(g) PROVE c[x] = g
    OBVIOUS
  <2>1. c[x] \in gaps /\ x \in Of(c[x])
    <3> HIDE DEF gaps, Of
    <3>1. QED
      OBVIOUS
  <2> DEFINE d == c[x]
  <2> HIDE DEF c, gaps
  <2>2. PICK n \in Numbers(g) : x = <<Scope(g.at), n>>
    BY DEF Of
  <2>3. PICK k \in Numbers(d) : x = <<Scope(d.at), k>>
    BY <2>1
  <2>4. Scope(g.at) = Scope(d.at) /\ n = k
    BY <2>2, <2>3
  <2> HIDE DEF d, Of, Scope, U
  <2>5. d \in SequenceGaps(taken) /\ g \in SequenceGaps(taken)
    BY <2>1 DEF d, gaps
  <2>6. d = g
    BY <2>2, <2>3, <2>4, <2>5, GapsApart
  <2>7. QED
    BY <2>6 DEF d
<1>4. \A x \in U : c[x] \in gaps
  <2> HIDE DEF gaps, Of
  <2>1. QED
    OBVIOUS
<1>5. \A g \in gaps : {x \in U : c[x] = g} = Of(g)
  <2> TAKE g \in gaps
  <2>1. \A x \in Of(g) : x \in U /\ c[x] = g
    <3> HIDE DEF gaps, Of, c
    <3>1. QED
      BY <1>3
  <2>2. \A x \in U : c[x] = g => x \in Of(g)
    <3> SUFFICES ASSUME NEW x \in U, c[x] = g PROVE x \in Of(g)
      OBVIOUS
    <3>1. PICK e \in gaps : x \in Of(e)
      <4> HIDE DEF gaps, Of
      <4>1. QED
        OBVIOUS
    <3> HIDE DEF gaps, Of, c, U
    <3>2. QED
      BY <1>3, <3>1
  <2> HIDE DEF gaps, Of, c, U
  <2>3. QED
    BY <2>1, <2>2
<1>6. GapReport(taken).missing = SumFunction(f)
  BY DEF GapReport
<1>7. SumFunction(f) = Sum(f, gaps)
  <2> HIDE DEF gaps
  <2>1. QED
    BY SumFunctionIsSum
<1>8. IsFiniteSet(U)
  <2> DEFINE Sets == {Of(g) : g \in gaps}
             of == [g \in gaps |-> Of(g)]
  <2>1. Sets = {of[g] : g \in gaps}
    <3> HIDE DEF Of, gaps
    <3>1. QED
      OBVIOUS
  <2>2. \A s \in Sets : IsFiniteSet(s)
    <3> HIDE DEF Of, gaps
    <3>1. QED
      BY <1>2
  <2>3. U = UNION Sets
    OBVIOUS
  <2> HIDE DEF Sets, of, gaps, U
  <2>4. IsFiniteSet(Sets)
    BY <1>1, <2>1, ImageCount
  <2>5. QED
    BY <2>2, <2>3, <2>4, FS_UNION
<1> HIDE DEF gaps, U, c, Of
<1>9. Cardinality(U) = Sum(h, gaps)
  BY <1>1, <1>4, <1>8, CountFibres
<1>10. \A g \in gaps : f[g] \in Nat /\ f[g] = h[g]
  BY <1>2, <1>5
<1> HIDE DEF f, h
<1>11. Sum(f, gaps) = Sum(h, gaps)
  BY <1>1, <1>10, SumAgrees
<1>12. GapReport(taken).missing = Cardinality(U)
  BY <1>6, <1>7, <1>9, <1>11
<1>13. QED
  BY <1>12 DEF U, Of, gaps

\* A gap report is true of the topic.
LEMMA GapsTrue == ReadInv => GapsReal
<1> SUFFICES ASSUME ReadInv PROVE GapsReal
  OBVIOUS
<1>1. GapReport(taken).gaps = SequenceGaps(taken)
  BY DEF GapReport
<1> HIDE DEF SequenceGaps, GapReport, Scope, Numbers
<1>2. QED
  BY <1>1, GapIsReal, GapsCounted DEF GapsReal

-----------------------------------------------------------------------------
\* A row is of a trade that is in the topic, and of what is known of it.
LEMMA RowPresent ==
  ASSUME ReadInv, NEW r \in ToSet(taken)
  PROVE  \E m \in Present : NaturalKey(m) = NaturalKey(r) /\ Told(m) = Told(r)
<1> DEFINE p == r.kafka_partition
           o == r.kafka_offset
           m == parts[p][o]
<1>1. PICK k \in 1..Len(taken) : r = taken[k]
  BY TakenOnce
<1>2. TakenFrom(r)
  <2> HIDE DEF TakenFrom
  <2> QED
    BY <1>1 DEF ReadInv, TakenInv
<1>3. p \in Partitions /\ o \in 1..Len(parts[p]) /\ m # Junk /\ r = Decoded(m, p, o)
  BY <1>2 DEF TakenFrom
<1>4. m \in Copies
  <2>1. parts[p] \in Seq(Logged)
    BY <1>3 DEF ReadInv, LogInv
  <2> QED
    BY <1>3, <2>1 DEF Logged
<1>5. m \in Present
  BY <1>3, <1>4 DEF Present
<1> HIDE DEF m
<1>6. NaturalKey(Decoded(m, p, o)) = NaturalKey(m) /\ Told(Decoded(m, p, o)) = Told(m)
  BY DEF Decoded, NaturalKey, Told
<1> HIDE DEF NaturalKey, Told
<1> QED
  BY <1>3, <1>5, <1>6

\* The rows of the topic a reader has: copies of one trade agree on what is known of
\* it, and lie in one partition, each at an offset of its own.
LEMMA CopiesTogether ==
  ASSUME ReadInv, NumbersInv, NEW a \in ToSet(taken), NEW b \in ToSet(taken), NaturalKey(a) = NaturalKey(b)
  PROVE  /\ a.kafka_partition = b.kafka_partition /\ Told(a) = Told(b) /\ a.event_ts = b.event_ts
         /\ a.event_ts \in Nat /\ a.kafka_offset \in Nat /\ b.kafka_offset \in Nat
         /\ a.kafka_offset = b.kafka_offset => a = b
<1>1. a \in Rows /\ b \in Rows
  BY TakenOnce
<1>2. a.venue_symbol = b.venue_symbol /\ a.trade_id = b.trade_id
  BY DEF NaturalKey
<1>3. /\ Told(a) = Told(b) /\ a.event_ts = b.event_ts
      /\ a.event_ts \in Nat /\ a.kafka_offset \in Nat /\ b.kafka_offset \in Nat
  <2>1. Told(a) = Told(b)
    <3>1. PICK m \in Present : NaturalKey(m) = NaturalKey(a) /\ Told(m) = Told(a)
      BY RowPresent
    <3>2. PICK n \in Present : NaturalKey(n) = NaturalKey(b) /\ Told(n) = Told(b)
      BY RowPresent
    <3> HIDE DEF NaturalKey, Told, Present
    <3> QED
      BY <3>1, <3>2 DEF NumbersInv
  <2> QED
    BY <1>1, <2>1, RowFacts DEF Told
<1>4. ASSUME NEW r \in ToSet(taken) PROVE r.kafka_partition = Home[r.venue_symbol]
  <2> DEFINE p == r.kafka_partition
             o == r.kafka_offset
  <2>1. PICK k \in 1..Len(taken) : r = taken[k]
    BY TakenOnce
  <2>2. TakenFrom(r)
    <3> HIDE DEF TakenFrom
    <3>1. QED
      BY <2>1 DEF ReadInv, TakenInv
  <2>3. p \in Partitions /\ o \in 1..Len(parts[p]) /\ parts[p][o] # Junk /\ r = Decoded(parts[p][o], p, o)
    BY <2>2 DEF TakenFrom
  <2>4. Decoded(parts[p][o], p, o).venue_symbol = parts[p][o].venue_symbol
    BY DEF Decoded
  <2>5. r.venue_symbol = parts[p][o].venue_symbol
    BY <2>3, <2>4
  <2>6. QED
    BY <2>3, <2>5 DEF ReadInv, LogInv
<1>5. a.kafka_partition = b.kafka_partition
  BY <1>2, <1>4
<1>6. a.kafka_offset = b.kafka_offset => a = b
  BY <1>5, TakenOnce
<1>7. QED
  BY <1>3, <1>5, <1>6

\* The copies of a trade have a first one.
LEMMA FirstCopy ==
  ASSUME ReadInv, NumbersInv, NEW c \in ToSet(taken), NEW G, G = {r \in ToSet(taken) : NaturalKey(r) = NaturalKey(c)}
  PROVE  Earliest(G) \in G /\ \A r \in G : Earliest(G).kafka_offset <= r.kafka_offset
<1> DEFINE off == [r \in G |-> r.kafka_offset]
           O == {off[r] : r \in G}
<1>1. G \subseteq ToSet(taken) /\ c \in G /\ IsFiniteSet(ToSet(taken))
  BY TakenOnce
<1>2. \A r \in G : r.kafka_offset \in Nat /\ r.event_ts = c.event_ts /\ r.event_ts \in Nat
  <2> TAKE r \in G
  <2>1. r \in ToSet(taken) /\ NaturalKey(r) = NaturalKey(c)
    OBVIOUS
  <2> HIDE DEF NaturalKey
  <2>2. QED
    BY <2>1, CopiesTogether
<1> HIDE DEF NaturalKey
<1>3. O \subseteq Int /\ O # {}
  BY <1>1, <1>2
<1>4. IsFiniteSet(O)
  <2>1. IsFiniteSet(G)
    BY <1>1, FS_Subset
  <2> HIDE DEF off
  <2>2. QED
    BY <2>1, ImageCount
<1>5. Min(O) \in O /\ \A x \in O : Min(O) <= x
  <2> HIDE DEF O
  <2>1. QED
    BY <1>3, <1>4, Extremes
<1>6. PICK e \in G : e.kafka_offset = Min(O)
  BY <1>5
<1>7. \A r \in G : ~Arrival(r, e)
  <2> TAKE r \in G
  <2>1. e.kafka_offset <= r.kafka_offset
    BY <1>5, <1>6
  <2>2. QED
    BY <1>2, <1>6, <2>1 DEF Arrival
<1>8. Earliest(G) \in G /\ \A r \in G : ~Arrival(r, Earliest(G))
  <2> HIDE DEF Arrival
  <2>1. QED
    BY <1>6, <1>7 DEF Earliest
<1>9. \A r \in G : Earliest(G).kafka_offset <= r.kafka_offset
  <2> DEFINE f == Earliest(G)
  <2>1. f \in G /\ \A r \in G : ~Arrival(r, f)
    BY <1>8
  <2> HIDE DEF f
  <2>2. \A r \in G : f.kafka_offset <= r.kafka_offset
    BY <1>2, <2>1 DEF Arrival
  <2>3. QED
    BY <2>2 DEF f
<1>10. QED
  BY <1>8, <1>9

\* Deduplication keeps one row of each trade, the first.
LEMMA DedupeFacts ==
  ASSUME ReadInv, NumbersInv, NEW rows, rows = Dedupe(TradesFrame(taken))
  PROVE  /\ rows \subseteq ToSet(taken) /\ IsFiniteSet(rows) /\ rows \subseteq Rows
         /\ \A c \in ToSet(taken) : \E r \in rows : NaturalKey(r) = NaturalKey(c)
         /\ \A a, b \in rows : NaturalKey(a) = NaturalKey(b) => a = b
         /\ \A r \in rows, c \in ToSet(taken) : NaturalKey(c) = NaturalKey(r) =>
              c.kafka_partition = r.kafka_partition /\ r.kafka_offset <= c.kafka_offset
<1> DEFINE S == ToSet(taken)
           Of(c) == {r \in S : NaturalKey(r) = NaturalKey(c)}
<1>0. IsFiniteSet(S) /\ S \subseteq Rows
  BY TakenOnce
<1>1. rows = {Earliest({r \in S : NaturalKey(r) = k}) : k \in {NaturalKey(r) : r \in S}}
  BY DEF Dedupe, TradesFrame
<1> HIDE DEF NaturalKey, S
<1>2. \A r \in rows : \E c \in S : r = Earliest(Of(c))
  BY <1>1
<1>3. \A c \in S : Earliest(Of(c)) \in rows
  BY <1>1
<1>4. \A c \in S : /\ Earliest(Of(c)) \in S /\ NaturalKey(Earliest(Of(c))) = NaturalKey(c)
                   /\ \A r \in S : NaturalKey(r) = NaturalKey(c) => Earliest(Of(c)).kafka_offset <= r.kafka_offset
  <2> TAKE c \in S
  <2> DEFINE G == Of(c)
             e == Earliest(G)
  <2>1. e \in G /\ \A r \in G : e.kafka_offset <= r.kafka_offset
    BY FirstCopy DEF S
  <2> HIDE DEF e
  <2>2. e \in S /\ NaturalKey(e) = NaturalKey(c) /\ \A r \in S : NaturalKey(r) = NaturalKey(c) => e.kafka_offset <= r.kafka_offset
    BY <2>1
  <2>3. QED
    BY <2>2 DEF e
<1>5. rows \subseteq S
  BY <1>2, <1>4
<1>6. \A a, b \in rows : NaturalKey(a) = NaturalKey(b) => a = b
  <2> SUFFICES ASSUME NEW a \in rows, NEW b \in rows, NaturalKey(a) = NaturalKey(b) PROVE a = b
    OBVIOUS
  <2>1. PICK c \in S : a = Earliest(Of(c))
    BY <1>2
  <2>2. PICK d \in S : b = Earliest(Of(d))
    BY <1>2
  <2>3. NaturalKey(c) = NaturalKey(d)
    BY <1>4, <2>1, <2>2
  <2>4. Of(c) = Of(d)
    BY <2>3
  <2>5. QED
    BY <2>1, <2>2, <2>4
<1>7. \A r \in rows, c \in S : NaturalKey(c) = NaturalKey(r) =>
              c.kafka_partition = r.kafka_partition /\ r.kafka_offset <= c.kafka_offset
  <2> SUFFICES ASSUME NEW r \in rows, NEW c \in S, NaturalKey(c) = NaturalKey(r)
               PROVE  c.kafka_partition = r.kafka_partition /\ r.kafka_offset <= c.kafka_offset
    OBVIOUS
  <2>1. PICK d \in S : r = Earliest(Of(d))
    BY <1>2
  <2>2. NaturalKey(c) = NaturalKey(d) /\ r.kafka_offset <= c.kafka_offset
    BY <1>4, <2>1
  <2>3. c.kafka_partition = r.kafka_partition
    BY <1>5, CopiesTogether DEF S
  <2>4. QED
    BY <2>2, <2>3
<1>8. IsFiniteSet(rows)
  BY <1>0, <1>5, FS_Subset
<1>9. \A c \in S : \E r \in rows : NaturalKey(r) = NaturalKey(c)
  BY <1>3, <1>4
<1>10. QED
  BY <1>0, <1>5, <1>6, <1>7, <1>8, <1>9 DEF S

\* The rows kept are the first copies.
LEMMA DedupeTrue == ReadInv /\ NumbersInv => DedupeKeepsFirst
<1> SUFFICES ASSUME ReadInv, NumbersInv, NEW rows, rows = Dedupe(TradesFrame(taken))
             PROVE  /\ {NaturalKey(r) : r \in rows} = {NaturalKey(r) : r \in ToSet(taken)}
                    /\ \A r \in rows, c \in ToSet(taken) :
                         NaturalKey(c) = NaturalKey(r) =>
                           c.kafka_partition = r.kafka_partition /\ r.kafka_offset <= c.kafka_offset
  BY DEF DedupeKeepsFirst
<1> HIDE DEF NaturalKey
<1>1. QED
  BY DedupeFacts

-----------------------------------------------------------------------------
\* The rows of a group, and what a finer grouping makes of them.
LEMMA GroupFacts ==
  ASSUME NEW rows, NEW keys
  PROVE  /\ DOMAIN GroupBy(rows, keys) = {Group(r, keys) : r \in rows}
         /\ \A g \in DOMAIN GroupBy(rows, keys) : GroupBy(rows, keys)[g] = {r \in rows : Group(r, keys) = g}
BY DEF GroupBy

\* The groups that a coarser group is made of.
Inside(rows, fine, coarse, g) == {h \in DOMAIN GroupBy(rows, fine) : \A k \in coarse : h[k] = g[k]}

\* A row of a group is in one of the finer groups that are inside it.
LEMMA FinerGroups ==
  ASSUME NEW rows, IsFiniteSet(rows), NEW fine, NEW coarse, coarse \subseteq fine,
         NEW g \in DOMAIN GroupBy(rows, coarse), NEW T, T = Inside(rows, fine, coarse, g)
  PROVE  /\ IsFiniteSet(T) /\ IsFiniteSet(GroupBy(rows, coarse)[g])
         /\ \A r \in GroupBy(rows, coarse)[g] : Group(r, fine) \in T
         /\ \A h \in T : {r \in GroupBy(rows, coarse)[g] : Group(r, fine) = h} = GroupBy(rows, fine)[h]
<1> DEFINE S == GroupBy(rows, coarse)[g]
           all == DOMAIN GroupBy(rows, fine)
           of == [r \in rows |-> Group(r, fine)]
<1>1. S = {r \in rows : Group(r, coarse) = g} /\ all = {Group(r, fine) : r \in rows}
  BY DEF GroupBy
<1>2. \E r \in rows : g = Group(r, coarse)
  BY DEF GroupBy
<1>3. \A r \in rows : (Group(r, coarse) = g <=> \A k \in coarse : Group(r, fine)[k] = g[k])
  <2> TAKE r \in rows
  <2>1. \A k \in coarse : Group(r, fine)[k] = Cell(r, k) /\ Group(r, coarse)[k] = Cell(r, k)
    <3> HIDE DEF Cell
    <3>1. QED
      BY DEF Group
  <2>2. DOMAIN Group(r, coarse) = coarse /\ DOMAIN g = coarse
    <3> HIDE DEF Cell
    <3>1. QED
      BY <1>2 DEF Group
  <2>3. (\A k \in coarse : Group(r, coarse)[k] = g[k]) => Group(r, coarse) = g
    <3>1. PICK x \in rows : g = Group(x, coarse)
      BY <1>2
    <3> HIDE DEF Cell
    <3>2. QED
      BY <3>1 DEF Group
  <2> HIDE DEF Group
  <2>4. QED
    BY <2>1, <2>3
<1>4. T = {h \in all : \A k \in coarse : h[k] = g[k]}
  BY DEF Inside
<1>5. IsFiniteSet(all)
  <2>1. all = {of[r] : r \in rows}
    <3> HIDE DEF Group, all
    <3>1. QED
      BY <1>1
  <2> HIDE DEF of, all
  <2>2. QED
    BY <2>1, ImageCount
<1> HIDE DEF Group, all, S
<1>6. IsFiniteSet(T) /\ IsFiniteSet(S)
  <2>1. T \subseteq all
    BY <1>4
  <2>2. S \subseteq rows
    BY <1>1
  <2>3. QED
    BY <1>5, <2>1, <2>2, FS_Subset
<1>7. \A r \in S : Group(r, fine) \in T
  BY <1>1, <1>3, <1>4
<1>8. \A h \in T : {r \in S : Group(r, fine) = h} = {r \in rows : Group(r, fine) = h}
  BY <1>1, <1>3, <1>4
<1>9. \A h \in T : GroupBy(rows, fine)[h] = {r \in rows : Group(r, fine) = h}
  BY <1>4 DEF all, GroupBy
<1>10. QED
  BY <1>6, <1>7, <1>8, <1>9 DEF S

\* The total of a column over a group is the sum of those over the finer groups.
LEMMA TotalInside ==
  ASSUME NEW rows, IsFiniteSet(rows), NEW fine, NEW coarse, coarse \subseteq fine, NEW c,
         \A r \in rows : Cell(r, c) \in Nat,
         NEW whole, whole = GroupBy(rows, coarse), NEW parted, parted = GroupBy(rows, fine),
         NEW g \in DOMAIN whole, NEW T, T = Inside(rows, fine, coarse, g),
         NEW t, \A h \in T : t[h] = Total(parted[h], c)
  PROVE  /\ Total(whole[g], c) = Sum(t, T)
         /\ \A h \in T : Total(parted[h], c) \in Nat
         /\ IsFiniteSet(T)
<1> DEFINE S == GroupBy(rows, coarse)[g]
<1>1. /\ IsFiniteSet(T) /\ IsFiniteSet(S) /\ \A r \in S : Group(r, fine) \in T
      /\ \A h \in T : {r \in S : Group(r, fine) = h} = GroupBy(rows, fine)[h]
  <2>1. IsFiniteSet(T) /\ IsFiniteSet(GroupBy(rows, coarse)[g])
    <3>1. IsFiniteSet(T)
      BY FinerGroups
    <3>2. GroupBy(rows, coarse)[g] \subseteq rows
      BY DEF GroupBy
    <3>3. QED
      BY <3>1, <3>2, FS_Subset
  <2>2. \A r \in S : Group(r, fine) \in T
    BY FinerGroups
  <2>3. \A h \in T : {r \in S : Group(r, fine) = h} = GroupBy(rows, fine)[h]
    BY FinerGroups
  <2>4. QED
    BY <2>1, <2>2, <2>3
<1> DEFINE w == [r \in rows |-> Cell(r, c)]
           of == [r \in S |-> Group(r, fine)]
           f == [h \in T |-> Sum(w, {r \in S : of[r] = h})]
<1>2. S = {r \in rows : Group(r, coarse) = g}
  BY DEF GroupBy
<1>3. ASSUME NEW X \in SUBSET rows PROVE Total(X, c) = Sum(w, X) /\ Sum(w, X) \in Nat
  <2> DEFINE v == [r \in X |-> Cell(r, c)]
  <2>1. Total(X, c) = Sum(v, X)
    <3> HIDE DEF Cell
    <3>1. QED
      BY SumFunctionIsSum DEF Total
  <2>2. IsFiniteSet(X)
    BY <1>3, FS_Subset
  <2>3. \A r \in X : v[r] \in Nat /\ v[r] = w[r]
    <3> HIDE DEF Cell
    <3>1. QED
      OBVIOUS
  <2> HIDE DEF v, w
  <2>4. QED
    BY <2>1, <2>2, <2>3, SumAgrees
<1>4. \A r \in S : r \in rows /\ w[r] \in Nat /\ of[r] \in T
  <2> HIDE DEF Cell, Group, S
  <2>1. QED
    BY <1>1, <1>2
<1>5. \A h \in T : GroupBy(rows, fine)[h] \in SUBSET rows
  <2> HIDE DEF Group, S
  <2>1. QED
    BY <1>1, <1>4
<1>6. \A h \in T : f[h] = t[h] /\ t[h] \in Nat /\ f[h] \in Nat
  <2> TAKE h \in T
  <2>1. {r \in S : of[r] = h} = GroupBy(rows, fine)[h]
    <3> HIDE DEF Group, S
    <3>1. QED
      BY <1>1
  <2> DEFINE X == GroupBy(rows, fine)[h]
  <2>2. f[h] = Sum(w, X) /\ t[h] = Total(X, c)
    BY <2>1
  <2>3. X \in SUBSET rows
    BY <1>5
  <2> HIDE DEF X, f, w
  <2>4. QED
    BY <1>3, <2>2, <2>3
<1>7. Total(S, c) = Sum(w, S)
  <2>1. S \in SUBSET rows
    BY <1>4
  <2> HIDE DEF S, w
  <2>2. QED
    BY <1>3, <2>1
<1>8. Sum(w, S) = Sum(f, T)
  <2> HIDE DEF w, S, of
  <2>1. QED
    BY <1>1, <1>4, SumFibres
<1>9. Sum(f, T) = Sum(t, T)
  <2> HIDE DEF f
  <2>1. QED
    BY <1>1, <1>6, SumAgrees
<1>10. QED
  BY <1>1, <1>6, <1>7, <1>8, <1>9

-----------------------------------------------------------------------------
\* The columns the tape and the venues are grouped by.
TapeKeys == {"instrument_id"} \cup {"minute"}
VenueKeys == {"venue", "instrument_id"} \cup {"minute"}

\* The bars of a grouping hold the totals and the size of its groups.
LEMMA BarFacts ==
  ASSUME NEW rows, NEW keys
  PROVE  LET bars == BarsBy(rows, keys)
             groups == GroupBy(rows, keys \cup {"minute"})
         IN /\ DOMAIN bars = DOMAIN groups
            /\ \A g \in DOMAIN groups : /\ bars[g].volume = Total(groups[g], "size")
                                        /\ bars[g].notional = Total(groups[g], "notional")
                                        /\ bars[g].trades = Cardinality(groups[g])
                                        /\ bars[g].high = Max(Column(groups[g], "price"))
                                        /\ bars[g].low = Min(Column(groups[g], "price"))
<1> DEFINE bars == BarsBy(rows, keys)
           groups == GroupBy(rows, keys \cup {"minute"})
<1>1. bars = [g \in DOMAIN groups |-> Bar(groups[g])]
  BY DEF BarsBy
<1>2. \A S : Bar(S).volume = Total(S, "size") /\ Bar(S).notional = Total(S, "notional")
             /\ Bar(S).trades = Cardinality(S)
             /\ Bar(S).high = Max(Column(S, "price")) /\ Bar(S).low = Min(Column(S, "price"))
  BY DEF Bar
<1> HIDE DEF groups, bars
<1>3. DOMAIN bars = DOMAIN groups /\ \A g \in DOMAIN groups : bars[g] = Bar(groups[g])
  BY <1>1
<1>4. QED
  BY <1>2, <1>3 DEF groups, bars

\* A total of the tape is the sum of the venues'.
LEMMA VenueTotals ==
  ASSUME NEW rows, IsFiniteSet(rows), NEW c, \A r \in rows : Cell(r, c) \in Nat,
         NEW whole, whole = GroupBy(rows, TapeKeys), NEW parted, parted = GroupBy(rows, VenueKeys),
         NEW g \in DOMAIN whole, NEW T, T = Inside(rows, VenueKeys, TapeKeys, g),
         NEW t, \A h \in T : t[h] = Total(parted[h], c)
  PROVE  Total(whole[g], c) = Sum(t, T) /\ (\A h \in T : Total(parted[h], c) \in Nat) /\ IsFiniteSet(T)
<1>1. TapeKeys \subseteq VenueKeys
  BY DEF TapeKeys, VenueKeys
<1>2. Total(whole[g], c) = Sum(t, T)
  BY <1>1, TotalInside
<1>3. \A h \in T : Total(parted[h], c) \in Nat
  BY <1>1, TotalInside
<1>4. IsFiniteSet(T)
  BY <1>1, FinerGroups
<1>5. QED
  BY <1>2, <1>3, <1>4

\* The bars of the tape and of the venues, and the venues' bars of a minute.
LEMMA VenuesInside ==
  ASSUME NEW rows
  PROVE  /\ DOMAIN Tape(rows) = DOMAIN GroupBy(rows, TapeKeys)
         /\ DOMAIN PerVenue(rows) = DOMAIN GroupBy(rows, VenueKeys)
         /\ \A g : {h \in DOMAIN PerVenue(rows) : h.instrument_id = g.instrument_id /\ h.minute = g.minute}
                    = Inside(rows, VenueKeys, TapeKeys, g)
<1>1. DOMAIN Tape(rows) = DOMAIN GroupBy(rows, TapeKeys)
  BY BarFacts DEF Tape, TapeKeys
<1>2. DOMAIN PerVenue(rows) = DOMAIN GroupBy(rows, VenueKeys)
  BY BarFacts DEF PerVenue, VenueKeys
<1>3. \A g, h : (\A k \in TapeKeys : h[k] = g[k]) <=> h.instrument_id = g.instrument_id /\ h.minute = g.minute
  BY DEF TapeKeys
<1>4. QED
  BY <1>1, <1>2, <1>3 DEF Inside

\* What the tape and the venues have of a minute of an instrument.
LEMMA TapeFacts ==
  ASSUME NEW rows, rows \subseteq Rows, IsFiniteSet(rows),
         NEW whole, whole = GroupBy(rows, TapeKeys), NEW parted, parted = GroupBy(rows, VenueKeys),
         NEW g \in DOMAIN whole, NEW T, T = Inside(rows, VenueKeys, TapeKeys, g),
         NEW tape, tape = Tape(rows), NEW perVenue, perVenue = PerVenue(rows)
  PROVE  /\ tape[g].volume = Sum([h \in T |-> perVenue[h].volume], T)
         /\ tape[g].notional = Sum([h \in T |-> perVenue[h].notional], T)
         /\ \A h \in T : perVenue[h].volume \in Nat /\ perVenue[h].notional \in Nat
         /\ IsFiniteSet(T)
<1>1. tape[g].volume = Total(whole[g], "size") /\ tape[g].notional = Total(whole[g], "notional")
  BY BarFacts DEF Tape, TapeKeys
<1>2. \A h \in DOMAIN parted : perVenue[h].volume = Total(parted[h], "size") /\ perVenue[h].notional = Total(parted[h], "notional")
  BY BarFacts DEF PerVenue, VenueKeys
<1>3. \A r \in rows : Cell(r, "size") \in Nat /\ Cell(r, "notional") \in Nat
  <2> TAKE r \in rows
  <2>1. r.size \in Nat /\ r.price \in Nat
    BY RowFacts
  <2>2. Cell(r, "size") = r.size /\ Cell(r, "notional") = r.price * r.size
    BY CellFacts
  <2>3. QED
    BY <2>1, <2>2
<1>4. \A h \in T : h \in DOMAIN parted
  BY DEF Inside
<1> DEFINE sizes == [h \in T |-> perVenue[h].volume]
           worth == [h \in T |-> perVenue[h].notional]
<1>5. (\A h \in T : sizes[h] = Total(parted[h], "size")) /\ \A h \in T : worth[h] = Total(parted[h], "notional")
  BY <1>2, <1>4
<1>6. ASSUME NEW c, \A r \in rows : Cell(r, c) \in Nat, NEW t, \A h \in T : t[h] = Total(parted[h], c)
      PROVE  Total(whole[g], c) = Sum(t, T) /\ (\A h \in T : Total(parted[h], c) \in Nat) /\ IsFiniteSet(T)
  <2> HIDE DEF sizes, worth
  <2>1. QED
    BY <1>6, VenueTotals
<1> HIDE DEF sizes, worth
<1>7. Total(whole[g], "size") = Sum(sizes, T) /\ (\A h \in T : Total(parted[h], "size") \in Nat) /\ IsFiniteSet(T)
  BY <1>3, <1>5, <1>6
<1>8. Total(whole[g], "notional") = Sum(worth, T) /\ \A h \in T : Total(parted[h], "notional") \in Nat
  BY <1>3, <1>5, <1>6
<1>9. \A h \in T : perVenue[h].volume \in Nat /\ perVenue[h].notional \in Nat
  BY <1>2, <1>4, <1>7, <1>8
<1>10. QED
  BY <1>1, <1>7, <1>8, <1>9 DEF sizes, worth

\* Every trade is on the tape once.
LEMMA TapeCounts ==
  ASSUME NEW rows, IsFiniteSet(rows)
  PROVE  SumFunction([g \in DOMAIN Tape(rows) |-> Tape(rows)[g].trades]) = Cardinality(rows)
<1> DEFINE whole == GroupBy(rows, TapeKeys)
           D == DOMAIN whole
           of == [r \in rows |-> Group(r, TapeKeys)]
           f == [g \in D |-> Cardinality({r \in rows : of[r] = g})]
           t == [g \in DOMAIN Tape(rows) |-> Tape(rows)[g].trades]
<1>1. DOMAIN Tape(rows) = D /\ \A g \in D : Tape(rows)[g].trades = Cardinality(whole[g])
  BY BarFacts DEF Tape, TapeKeys
<1>2. D = {of[r] : r \in rows}
  <2> HIDE DEF Group
  <2>1. QED
    BY DEF GroupBy
<1>3. \A g \in D : whole[g] = {r \in rows : of[r] = g}
  <2> HIDE DEF Group
  <2>1. QED
    BY DEF GroupBy
<1>4. t = f
  <2> HIDE DEF of, whole, D
  <2>1. QED
    BY <1>1, <1>3
<1> HIDE DEF of, D, whole
<1>5. IsFiniteSet(D)
  BY <1>2, ImageCount
<1>6. Cardinality(rows) = Sum(f, D)
  BY <1>2, <1>5, CountFibres
<1>7. SumFunction(t) = Sum(t, D)
  <2>1. DOMAIN t = D
    BY <1>4
  <2> HIDE DEF t, f
  <2>2. QED
    BY <2>1, SumFunctionIsSum
<1>8. SumFunction(t) = Cardinality(rows)
  BY <1>4, <1>6, <1>7
<1>9. QED
  BY <1>8

\* Two numbers of a sum.
LEMMA SumOfTwo ==
  ASSUME NEW a, NEW b, a # b, NEW w, NEW T, T = {a, b}, w[a] \in Nat, w[b] \in Nat
  PROVE  Sum(w, T) = w[a] + w[b]
<1>1. IsFiniteSet({a, b}) /\ IsFiniteSet({b})
  <2>1. IsFiniteSet({b})
    BY FS_Singleton
  <2> DEFINE B == {b}
  <2>2. IsFiniteSet(B)
    BY <2>1
  <2> HIDE DEF B
  <2>3. IsFiniteSet(B \cup {a})
    BY <2>2, FS_AddElement
  <2>4. {a, b} = B \cup {a}
    BY DEF B
  <2> QED
    BY <2>1, <2>3, <2>4
<1>2. Sum(w, {a, b}) = w[a] + Sum(w, {a, b} \ {a})
  <2> DEFINE S == {a, b}
  <2>1. IsFiniteSet(S) /\ a \in S /\ \A k \in S : w[k] \in Nat
    BY <1>1
  <2> HIDE DEF S
  <2>2. Sum(w, S) = w[a] + Sum(w, S \ {a})
    BY <2>1, SumRemoves
  <2>3. QED
    BY <2>2 DEF S
<1>3. {a, b} \ {a} = {b}
  OBVIOUS
<1>4. Sum(w, {b}) = w[b] + Sum(w, {b} \ {b})
  <2> DEFINE S == {b}
  <2>1. IsFiniteSet(S) /\ b \in S /\ \A k \in S : w[k] \in Nat
    BY <1>1
  <2> HIDE DEF S
  <2>2. Sum(w, S) = w[b] + Sum(w, S \ {b})
    BY <2>1, SumRemoves
  <2>3. QED
    BY <2>2 DEF S
<1>5. {b} \ {b} = {}
  OBVIOUS
<1>6. Sum(w, {}) = 0
  BY SumEmpty
<1>7. Sum(w, {a, b}) = w[a] + Sum(w, {b}) /\ Sum(w, {b}) = w[b] + Sum(w, {})
  BY <1>2, <1>3, <1>4, <1>5, Zenon
<1>8. Sum(w, {b}) = w[b]
  BY <1>6, <1>7
<1>9. Sum(w, {a, b}) = w[a] + w[b]
  BY <1>7, <1>8, Zenon
<1>10. QED
  BY <1>9

\* The venue whose vwap is the higher is no further from the tape's, which lies
\* between the two.
LEMMA SpreadBetween ==
  ASSUME NEW n1 \in Nat, NEW v1 \in Nat, NEW n2 \in Nat, NEW v2 \in Nat, n1 * v2 - n2 * v1 >= 0
  PROVE  n1 * (v1 + v2) >= (n1 + n2) * v1
<1>1. n1 * (v1 + v2) = n1 * v1 + n1 * v2 /\ v1 * (n1 + n2) = v1 * n1 + v1 * n2
  BY Distributes
<1>2. (n1 + n2) * v1 = v1 * (n1 + n2) /\ v1 * n1 = n1 * v1 /\ v1 * n2 = n2 * v1
  OBVIOUS
<1>3. n1 * v1 \in Int /\ n1 * v2 \in Int /\ n2 * v1 \in Int
  OBVIOUS
<1> DEFINE x == n1 * v1
           y == n1 * v2
           z == n2 * v1
<1>4. y - z >= 0 /\ n1 * (v1 + v2) = x + y /\ (n1 + n2) * v1 = x + z /\ x \in Int /\ y \in Int /\ z \in Int
  BY <1>1, <1>2, <1>3
<1> HIDE DEF x, y, z
<1>5. x + y >= x + z
  BY <1>4
<1>6. QED
  BY <1>4, <1>5

\* Between two venues a minute of the tape is the bars of both.
LEMMA TwoVenues ==
  ASSUME NEW rows, VenuesIn(rows) = {"binance", "coinbase"}, NEW g,
         At("binance", g) \in DOMAIN PerVenue(rows), At("coinbase", g) \in DOMAIN PerVenue(rows)
  PROVE  Inside(rows, VenueKeys, TapeKeys, g) = {At("binance", g), At("coinbase", g)}
<1> DEFINE D == DOMAIN GroupBy(rows, VenueKeys)
           a == At("binance", g)
           b == At("coinbase", g)
<1>1. \A v : At(v, g).venue = v /\ At(v, g).instrument_id = g.instrument_id /\ At(v, g).minute = g.minute
              /\ DOMAIN At(v, g) = VenueKeys
  BY DEF At, VenueKeys
<1>2. Inside(rows, VenueKeys, TapeKeys, g) = {h \in D : h.instrument_id = g.instrument_id /\ h.minute = g.minute}
  <2>1. \A h : (\A k \in TapeKeys : h[k] = g[k]) <=> h.instrument_id = g.instrument_id /\ h.minute = g.minute
    BY DEF TapeKeys
  <2> HIDE DEF D
  <2>2. QED
    BY <2>1 DEF Inside, D
<1>3. a \in D /\ b \in D
  BY VenuesInside
<1>4. ASSUME NEW h \in D, h.instrument_id = g.instrument_id, h.minute = g.minute PROVE h = a \/ h = b
  <2>1. PICK r \in rows : h = Group(r, VenueKeys)
    BY DEF GroupBy
  <2>2. h = [k \in VenueKeys |-> Cell(r, k)]
    BY <2>1 DEF Group
  <2>3. h.venue = Cell(r, "venue") /\ DOMAIN h = VenueKeys
    <3>1. "venue" \in VenueKeys
      BY DEF VenueKeys
    <3>2. QED
      BY <2>2, <3>1
  <2>4. Cell(r, "venue") \in {"binance", "coinbase"}
    BY DEF VenuesIn, Column
  <2>5. ASSUME NEW v, v = h.venue PROVE h = At(v, g)
    <3> DEFINE e == At(v, g)
    <3>1. DOMAIN e = VenueKeys /\ e.venue = v /\ e.instrument_id = g.instrument_id /\ e.minute = g.minute
      BY <1>1
    <3> HIDE DEF e
    <3>2. \A k \in VenueKeys : h[k] = e[k]
      BY <1>4, <2>5, <3>1 DEF VenueKeys
    <3>3. e = [k \in VenueKeys |-> e[k]]
      <4>1. QED
        BY <3>1 DEF e, At, VenueKeys
    <3>4. h = e
      BY <2>2, <3>2, <3>3
    <3>5. QED
      BY <3>4 DEF e
  <2>6. QED
    BY <2>3, <2>4, <2>5
<1>5. a.instrument_id = g.instrument_id /\ a.minute = g.minute /\ b.instrument_id = g.instrument_id /\ b.minute = g.minute
  BY <1>1
<1> HIDE DEF a, b, D
<1>6. {h \in D : h.instrument_id = g.instrument_id /\ h.minute = g.minute} = {a, b}
  BY <1>3, <1>4, <1>5
<1>7. QED
  BY <1>2, <1>6 DEF a, b

\* The tape counts each trade once, and adds the venues up.
LEMMA TapeTrades == ReadInv /\ NumbersInv => TapeExact
<1> SUFFICES ASSUME ReadInv, NumbersInv, NEW rows, rows = Dedupe(TradesFrame(taken)),
                    NEW tape, tape = Tape(rows), NEW perVenue, perVenue = PerVenue(rows)
             PROVE  /\ SumFunction([g \in DOMAIN tape |-> tape[g].trades])
                          = Cardinality({NaturalKey(r) : r \in ToSet(taken)})
                    /\ \A g \in DOMAIN tape :
                         LET Parts == {h \in DOMAIN perVenue : h.instrument_id = g.instrument_id /\ h.minute = g.minute}
                         IN /\ tape[g].volume = SumFunction([h \in Parts |-> perVenue[h].volume])
                            /\ tape[g].notional = SumFunction([h \in Parts |-> perVenue[h].notional])
                    /\ \A g \in DOMAIN Spreads(rows) :
                         Spreads(rows)[g] >= 0 =>
                           perVenue[At("binance", g)].notional * tape[g].volume >= tape[g].notional * perVenue[At("binance", g)].volume
  BY DEF TapeExact
<1>0. rows \subseteq ToSet(taken) /\ rows \subseteq Rows /\ IsFiniteSet(rows)
  BY DedupeFacts
<1>1. SumFunction([g \in DOMAIN tape |-> tape[g].trades]) = Cardinality({NaturalKey(r) : r \in ToSet(taken)})
  <2> DEFINE N == {NaturalKey(r) : r \in ToSet(taken)}
             key == [r \in rows |-> NaturalKey(r)]
  <2>1. N = {key[r] : r \in rows}
    <3>1. \A c \in ToSet(taken) : \E r \in rows : NaturalKey(r) = NaturalKey(c)
      BY DedupeFacts
    <3> HIDE DEF NaturalKey
    <3>2. QED
      BY <1>0, <3>1
  <2>2. \A a, b \in rows : key[a] = key[b] => a = b
    <3> HIDE DEF NaturalKey
    <3>1. QED
      BY DedupeFacts
  <2> HIDE DEF N, key
  <2>3. Cardinality(N) = Cardinality(rows)
    BY <1>0, <2>1, <2>2, SameCount
  <2>4. SumFunction([g \in DOMAIN Tape(rows) |-> Tape(rows)[g].trades]) = Cardinality(rows)
    BY <1>0, TapeCounts
  <2>5. QED
    BY <2>3, <2>4 DEF N
<1>2. DOMAIN tape = DOMAIN GroupBy(rows, TapeKeys) /\ DOMAIN perVenue = DOMAIN GroupBy(rows, VenueKeys)
  BY VenuesInside
<1>3. ASSUME NEW g \in DOMAIN tape, NEW T, T = Inside(rows, VenueKeys, TapeKeys, g)
      PROVE  /\ tape[g].volume = Sum([h \in T |-> perVenue[h].volume], T)
             /\ tape[g].notional = Sum([h \in T |-> perVenue[h].notional], T)
             /\ \A h \in T : perVenue[h].volume \in Nat /\ perVenue[h].notional \in Nat
  BY <1>0, <1>2, <1>3, TapeFacts
<1>4. ASSUME NEW g \in DOMAIN tape, NEW T,
             T = {h \in DOMAIN perVenue : h.instrument_id = g.instrument_id /\ h.minute = g.minute}
      PROVE  /\ tape[g].volume = SumFunction([h \in T |-> perVenue[h].volume])
             /\ tape[g].notional = SumFunction([h \in T |-> perVenue[h].notional])
  <2>1. T = Inside(rows, VenueKeys, TapeKeys, g)
    BY <1>4, VenuesInside
  <2> DEFINE f == [h \in T |-> perVenue[h].volume]
             e == [h \in T |-> perVenue[h].notional]
  <2>2. DOMAIN f = T /\ DOMAIN e = T
    OBVIOUS
  <2>3. tape[g].volume = Sum(f, T) /\ tape[g].notional = Sum(e, T)
    BY <1>3, <2>1
  <2> HIDE DEF f, e
  <2>4. tape[g].volume = SumFunction(f) /\ tape[g].notional = SumFunction(e)
    BY <2>2, <2>3, SumFunctionIsSum
  <2>5. QED
    BY <2>4 DEF f, e
<1>5. ASSUME NEW g \in DOMAIN Spreads(rows), Spreads(rows)[g] >= 0
      PROVE  perVenue[At("binance", g)].notional * tape[g].volume >= tape[g].notional * perVenue[At("binance", g)].volume
  <2> DEFINE both == {h \in DOMAIN tape :
                        \A v \in VenuesIn(rows) : At(v, h) \in DOMAIN perVenue /\ perVenue[At(v, h)].volume > 0}
             a == At("binance", g)
             b == At("coinbase", g)
             T == Inside(rows, VenueKeys, TapeKeys, g)
  <2>1. VenuesIn(rows) = {"binance", "coinbase"}
    <3> SUFFICES ASSUME VenuesIn(rows) # {"binance", "coinbase"} PROVE FALSE
      OBVIOUS
    <3>1. Spreads(rows) = <<>>
      BY DEF Spreads
    <3>2. DOMAIN <<>> = {}
      OBVIOUS
    <3>3. QED
      BY <3>1, <3>2, <1>5
  <2>2. Spreads(rows) = [h \in both |-> perVenue[At("binance", h)].notional * perVenue[At("coinbase", h)].volume
                                         - perVenue[At("coinbase", h)].notional * perVenue[At("binance", h)].volume]
    BY <2>1 DEF Spreads
  <2>3. g \in both
    <3> HIDE DEF both, At
    <3>1. DOMAIN Spreads(rows) = both
      BY <2>2
    <3>2. QED
      BY <3>1
  <2>4. Spreads(rows)[g] = perVenue[a].notional * perVenue[b].volume - perVenue[b].notional * perVenue[a].volume
    <3> HIDE DEF both, At
    <3>1. QED
      BY <2>2, <2>3
  <2>5. g \in DOMAIN tape /\ a \in DOMAIN perVenue /\ b \in DOMAIN perVenue
    BY <2>1, <2>3
  <2>6. T = {a, b}
    BY <2>1, <2>5, TwoVenues
  <2>7. a # b
    <3>1. a.venue = "binance" /\ b.venue = "coinbase"
      BY DEF At
    <3>2. QED
      BY <3>1
  <2> DEFINE f == [h \in T |-> perVenue[h].volume]
             e == [h \in T |-> perVenue[h].notional]
  <2>8. tape[g].volume = Sum(f, T) /\ tape[g].notional = Sum(e, T) /\ \A h \in T : perVenue[h].volume \in Nat /\ perVenue[h].notional \in Nat
    BY <1>3, <2>5
  <2> HIDE DEF T, a, b
  <2>9. /\ f[a] = perVenue[a].volume /\ f[b] = perVenue[b].volume /\ e[a] = perVenue[a].notional /\ e[b] = perVenue[b].notional
        /\ perVenue[a].volume \in Nat /\ perVenue[b].volume \in Nat /\ perVenue[a].notional \in Nat /\ perVenue[b].notional \in Nat
    BY <2>6, <2>8
  <2> HIDE DEF f, e
  <2>10. tape[g].volume = perVenue[a].volume + perVenue[b].volume
    <3>1. f[a] \in Nat /\ f[b] \in Nat
      BY <2>9
    <3>2. Sum(f, T) = f[a] + f[b]
      BY <2>6, <2>7, <3>1, SumOfTwo
    <3>3. QED
      BY <2>8, <2>9, <3>2
  <2>11. tape[g].notional = perVenue[a].notional + perVenue[b].notional
    <3>1. e[a] \in Nat /\ e[b] \in Nat
      BY <2>9
    <3>2. Sum(e, T) = e[a] + e[b]
      BY <2>6, <2>7, <3>1, SumOfTwo
    <3>3. QED
      BY <2>8, <2>9, <3>2
  <2>12. perVenue[a].notional * tape[g].volume >= tape[g].notional * perVenue[a].volume
    <3> DEFINE n1 == perVenue[a].notional
               v1 == perVenue[a].volume
               n2 == perVenue[b].notional
               v2 == perVenue[b].volume
    <3>1. n1 \in Nat /\ v1 \in Nat /\ n2 \in Nat /\ v2 \in Nat /\ n1 * v2 - n2 * v1 >= 0
      BY <1>5, <2>4, <2>9
    <3>2. tape[g].volume = v1 + v2 /\ tape[g].notional = n1 + n2
      BY <2>10, <2>11
    <3> HIDE DEF n1, v1, n2, v2
    <3>3. n1 * (v1 + v2) >= (n1 + n2) * v1
      BY <3>1, SpreadBetween
    <3>4. n1 * tape[g].volume >= tape[g].notional * v1
      BY <3>2, <3>3
    <3>5. QED
      BY <3>4 DEF n1, v1
  <2>13. QED
    BY <2>12 DEF a
<1>6. QED
  BY <1>1, <1>4, <1>5

\* What a notebook makes of the topic is true of the topic.
THEOREM TapeOfTheTopic == StreamSpec => []TapeTrue
<1>1. ReadInv /\ NumbersInv => TapeTrue
  BY TailWhole, GapsTrue, DedupeTrue, TapeTrades DEF TapeTrue
<1>2. QED
  BY <1>1, ReadStarts, ReadStep, PTL DEF StreamSpec

-----------------------------------------------------------------------------
(***************************************************************************)
(* Research: the cells of the notebook agree.                              *)
(***************************************************************************)
\* What is captured, and what is left of it without copies.
LEMMA CaptureFacts ==
  ASSUME ReadInv, NumbersInv
  PROVE  /\ Raw = ToSet(taken) /\ Raw \subseteq Rows /\ IsFiniteSet(Raw)
         /\ Clean \subseteq Raw /\ Clean \subseteq Rows /\ IsFiniteSet(Clean)
         /\ \A c \in Raw : \E r \in Clean : NaturalKey(r) = NaturalKey(c)
         /\ \A a, b \in Clean : NaturalKey(a) = NaturalKey(b) => a = b
         /\ Raw # {} => Clean # {}
<1>1. Raw = ToSet(taken) /\ Clean = Dedupe(TradesFrame(taken))
  BY DEF Raw, Clean, TradesFrame
<1>2. Raw \subseteq Rows /\ IsFiniteSet(Raw)
  BY <1>1, TakenOnce
<1> HIDE DEF NaturalKey
<1>3. /\ Clean \subseteq ToSet(taken) /\ IsFiniteSet(Clean) /\ Clean \subseteq Rows
      /\ \A c \in ToSet(taken) : \E r \in Clean : NaturalKey(r) = NaturalKey(c)
      /\ \A a, b \in Clean : NaturalKey(a) = NaturalKey(b) => a = b
  <2> DEFINE rows == Clean
  <2>1. rows = Dedupe(TradesFrame(taken))
    BY <1>1
  <2> HIDE DEF rows
  <2>2. rows \subseteq ToSet(taken) /\ IsFiniteSet(rows) /\ rows \subseteq Rows
    BY <2>1, DedupeFacts
  <2>3. \A c \in ToSet(taken) : \E r \in rows : NaturalKey(r) = NaturalKey(c)
    BY <2>1, DedupeFacts
  <2>4. \A a, b \in rows : NaturalKey(a) = NaturalKey(b) => a = b
    BY <2>1, DedupeFacts
  <2>5. QED
    BY <2>2, <2>3, <2>4 DEF rows
<1>4. QED
  BY <1>1, <1>2, <1>3

\* The groups of rows are of rows, and none is empty.
LEMMA GroupRows ==
  ASSUME NEW rows, rows \subseteq Rows, IsFiniteSet(rows), NEW keys, NEW g \in DOMAIN GroupBy(rows, keys),
         NEW w, w = GroupBy(rows, keys)[g]
  PROVE  w \subseteq rows /\ w \subseteq Rows /\ IsFiniteSet(w) /\ w # {}
<1>1. w \subseteq rows
  BY DEF GroupBy
<1>2. w # {}
  BY DEF GroupBy
<1>3. IsFiniteSet(w)
  BY <1>1, FS_Subset
<1>4. QED
  BY <1>1, <1>2, <1>3

\* A row, and where in the topic it lay.
LEMMA RowHome ==
  ASSUME ReadInv, NumbersInv, NEW r \in Raw
  PROVE  /\ r.kafka_partition \in Partitions /\ r.kafka_partition = Home[r.venue_symbol]
         /\ r.kafka_offset \in 1..Len(parts[r.kafka_partition])
         /\ parts[r.kafka_partition][r.kafka_offset] # Junk
         /\ r = Decoded(parts[r.kafka_partition][r.kafka_offset], r.kafka_partition, r.kafka_offset)
<1> DEFINE p == r.kafka_partition
           o == r.kafka_offset
<1>1. PICK k \in 1..Len(taken) : r = taken[k]
  BY CaptureFacts, TakenOnce
<1>2. TakenFrom(r)
  <2> HIDE DEF TakenFrom
  <2>1. QED
    BY <1>1 DEF ReadInv, TakenInv
<1>3. p \in Partitions /\ o \in 1..Len(parts[p]) /\ parts[p][o] # Junk /\ r = Decoded(parts[p][o], p, o)
  BY <1>2 DEF TakenFrom
<1>4. Decoded(parts[p][o], p, o).venue_symbol = parts[p][o].venue_symbol
  BY DEF Decoded
<1>5. r.venue_symbol = parts[p][o].venue_symbol
  BY <1>3, <1>4
<1>6. Home[parts[p][o].venue_symbol] = p
  BY <1>3 DEF ReadInv, LogInv
<1>7. QED
  BY <1>3, <1>5, <1>6

\* However a trade comes again its copies agree, and nothing is read twice.
LEMMA QualityTrue == ReadInv /\ NumbersInv => QualityExplained
<1> SUFFICES ASSUME ReadInv, NumbersInv PROVE QualityExplained
  OBVIOUS
<1>0. /\ Raw = ToSet(taken) /\ Raw \subseteq Rows /\ IsFiniteSet(Raw) /\ Raw = {taken[k] : k \in 1..Len(taken)}
      /\ DOMAIN taken = 1..Len(taken) /\ Len(taken) \in Nat
  BY CaptureFacts, TakenOnce
<1>1. ConflictingKeys(Raw) = {}
  <2>1. ASSUME NEW c \in Raw, NEW d \in Raw, NaturalKey(c) = NaturalKey(d), NEW f \in ConflictFields
        PROVE  c[f] = d[f]
    <3>1. Told(c) = Told(d)
      <4> HIDE DEF NaturalKey, Told
      <4> QED
        BY <1>0, <2>1, CopiesTogether
    <3>2. c.event_ts = d.event_ts /\ c.price = d.price /\ c.size = d.size /\ c.side = d.side
      BY <3>1 DEF Told
    <3>3. QED
      BY <2>1, <3>2 DEF ConflictFields
  <2>2. Duplicated(Raw) \subseteq Raw
    BY DEF Duplicated
  <2> HIDE DEF NaturalKey
  <2>3. QED
    BY <2>1, <2>2 DEF ConflictingKeys
<1>2. OffsetRegressions = {}
  <2> SUFFICES ASSUME NEW i \in OffsetRegressions PROVE FALSE
    OBVIOUS
  <2>1. PICK k \in 1..(i - 1) : /\ i \in 1..Len(taken) /\ taken[i].kafka_offset < taken[k].kafka_offset
                               /\ Group(taken[k], {"kafka_partition"}) = Group(taken[i], {"kafka_partition"})
    <3> HIDE DEF Group
    <3>1. QED
      BY <1>0 DEF OffsetRegressions, Falls
  <2>2. \A x : Group(x, {"kafka_partition"})["kafka_partition"] = x.kafka_partition
    BY CellFacts DEF Group
  <2>3. taken[k].kafka_partition = taken[i].kafka_partition
    <3> HIDE DEF Group
    <3>1. QED
      BY <2>1, <2>2
  <2>4. k \in 1..Len(taken) /\ k < i
    BY <1>0, <2>1
  <2>5. taken[k].kafka_offset < taken[i].kafka_offset
    BY <2>1, <2>3, <2>4 DEF ReadInv, TakenInv
  <2>6. taken[k].kafka_offset \in Nat /\ taken[i].kafka_offset \in Nat
    BY <2>1, <2>4, TakenOnce, RowFacts
  <2>7. QED
    BY <2>1, <2>5, <2>6
<1>3. EventTimeRegressions \subseteq 1..Len(taken)
  <2> HIDE DEF Group
  <2> QED
    BY <1>0 DEF EventTimeRegressions, Falls
<1>4. Cardinality(Raw) = Len(taken)
  <2> DEFINE S == 1..Len(taken)
  <2>1. \A j, k \in S : taken[j] = taken[k] => j = k
    BY TakenOnce
  <2>2. IsFiniteSet(S) /\ Cardinality(S) = Len(taken) /\ Raw = {taken[k] : k \in S}
    BY <1>0, TakenOnce
  <2> HIDE DEF S
  <2>3. Cardinality(Raw) = Cardinality(S)
    BY <2>1, <2>2, SameCount
  <2> QED
    BY <2>2, <2>3
<1>5. Cardinality(Duplicated(Raw)) <= Cardinality(Raw) /\ Cardinality(Duplicated(Raw)) \in Nat
  <2>1. Duplicated(Raw) \subseteq Raw
    BY DEF Duplicated
  <2>2. QED
    BY <1>0, <2>1, FS_Subset, FS_CardinalityType
<1>6. Cardinality(EventTimeRegressions) <= Len(taken)
  <2>1. EventTimeRegressions \subseteq 1..Len(taken)
    BY <1>3
  <2>2. IsFiniteSet(1..Len(taken)) /\ Cardinality(1..Len(taken)) = Len(taken)
    BY TakenOnce
  <2> HIDE DEF EventTimeRegressions
  <2>3. Cardinality(EventTimeRegressions) <= Cardinality(1..Len(taken))
    BY <2>1, <2>2, FS_Subset
  <2>4. QED
    BY <2>2, <2>3
<1>7. Cardinality({}) = 0
  BY FS_EmptySet
<1>8. \A n, v, o : Metric(n, v, o).metric = n /\ Metric(n, v, o).value = v /\ Metric(n, v, o).observations = o
  BY DEF Metric
<1>9. \A q \in QualityMetrics : q.metric \notin {"sequence_missing", "partition_count_cv"} => q.value <= q.observations
  <2> SUFFICES ASSUME NEW q \in QualityMetrics, q.metric \notin {"sequence_missing", "partition_count_cv"}
               PROVE  q.value <= q.observations
    OBVIOUS
  <2>1. \/ q = Metric("duplicate_row_rate", Cardinality(Duplicated(Raw)), Cardinality(Raw))
        \/ q = Metric("conflicting_duplicate_keys", Cardinality(ConflictingKeys(Raw)), Cardinality(Duplicated(Raw)))
        \/ q = Metric("event_time_regressions", Cardinality(EventTimeRegressions), Len(taken))
        \/ q = Metric("offset_regressions", Cardinality(OffsetRegressions), Len(taken))
    BY <1>8 DEF QualityMetrics
  <2> DEFINE duplicates == Cardinality(Duplicated(Raw))
             conflicts == Cardinality(ConflictingKeys(Raw))
             early == Cardinality(EventTimeRegressions)
             back == Cardinality(OffsetRegressions)
             all == Cardinality(Raw)
             read == Len(taken)
  <2>2. duplicates <= all /\ duplicates \in Nat /\ conflicts = 0 /\ early <= read /\ back = 0 /\ read \in Nat
    BY <1>0, <1>1, <1>2, <1>5, <1>6, <1>7
  <2>3. \/ q = Metric("duplicate_row_rate", duplicates, all)
        \/ q = Metric("conflicting_duplicate_keys", conflicts, duplicates)
        \/ q = Metric("event_time_regressions", early, read)
        \/ q = Metric("offset_regressions", back, read)
    BY <2>1
  <2> HIDE DEF duplicates, conflicts, early, back, all, read
  <2> USE <2>2
  <2>4. CASE q = Metric("duplicate_row_rate", duplicates, all)
    BY <2>4 DEF Metric
  <2>5. CASE q = Metric("conflicting_duplicate_keys", conflicts, duplicates)
    BY <2>5 DEF Metric
  <2>6. CASE q = Metric("event_time_regressions", early, read)
    BY <2>6 DEF Metric
  <2>7. CASE q = Metric("offset_regressions", back, read)
    BY <2>7 DEF Metric
  <2>8. QED
    BY <2>3, <2>4, <2>5, <2>6, <2>7
<1>10. QED
  BY <1>1, <1>2, <1>3, <1>4, <1>9 DEF QualityExplained

-----------------------------------------------------------------------------
\* The rows below a value, and up to it.
Below(rows, c, v) == {r \in rows : Cell(r, c) < v}
UpTo(rows, c, v) == {r \in rows : Cell(r, c) <= v}

\* Rows below one value are up to the next lower one.
LEMMA RankSets ==
  ASSUME NEW rows, IsFiniteSet(rows), NEW c, \A r \in rows : Cell(r, c) \in Int, NEW u \in Int, NEW v \in Int
  PROVE  /\ IsFiniteSet(Below(rows, c, v)) /\ IsFiniteSet(UpTo(rows, c, u)) /\ Cardinality(Below(rows, c, v)) \in Nat
         /\ Cardinality(UpTo(rows, c, u)) \in Nat /\ Cardinality(UpTo(rows, c, u)) <= Cardinality(rows)
         /\ u < v => Cardinality(UpTo(rows, c, u)) <= Cardinality(Below(rows, c, v))
         /\ Cardinality(rows) \in Nat
<1> DEFINE A == UpTo(rows, c, u)
           B == Below(rows, c, v)
<1>1. A \subseteq rows /\ B \subseteq rows
  BY DEF UpTo, Below
<1>2. u < v => A \subseteq B
  <2> HIDE DEF Cell
  <2>1. QED
    BY DEF UpTo, Below
<1> HIDE DEF A, B
<1>3. IsFiniteSet(A) /\ IsFiniteSet(B) /\ Cardinality(A) <= Cardinality(rows)
  BY <1>1, FS_Subset
<1>4. u < v => Cardinality(A) <= Cardinality(B)
  BY <1>2, <1>3, FS_Subset
<1>5. Cardinality(A) \in Nat /\ Cardinality(B) \in Nat /\ Cardinality(rows) \in Nat
  BY <1>3, FS_CardinalityType
<1>6. QED
  BY <1>3, <1>4, <1>5 DEF A, B

\* There is a value of each rank.
LEMMA RankedFacts ==
  ASSUME NEW rows, IsFiniteSet(rows), NEW c, \A r \in rows : Cell(r, c) \in Int, NEW k \in 1..Cardinality(rows),
         NEW v, v = Ranked(rows, c, k)
  PROVE  /\ v \in Column(rows, c) /\ v \in Int
         /\ Cardinality(Below(rows, c, v)) < k /\ Cardinality(UpTo(rows, c, v)) >= k
<1> DEFINE C == Column(rows, c)
           V == {x \in C : Cardinality(UpTo(rows, c, x)) >= k}
<1>1. C \subseteq Int /\ IsFiniteSet(C) /\ C = {Cell(r, c) : r \in rows}
  <2> DEFINE f == [r \in rows |-> Cell(r, c)]
  <2>1. C = {f[r] : r \in rows}
    BY DEF Column
  <2>2. C \subseteq Int /\ C = {Cell(r, c) : r \in rows}
    BY DEF Column
  <2> HIDE DEF f, C
  <2>3. IsFiniteSet(C)
    BY <2>1, ImageCount
  <2>4. QED
    BY <2>2, <2>3
<1>2. C # {}
  <2>1. rows # {}
    <3>1. Cardinality({}) = 0
      BY FS_EmptySet
    <3>2. QED
      BY <3>1
  <2>2. QED
    BY <1>1, <2>1
<1>3. V # {} /\ IsFiniteSet(V) /\ V \subseteq Int
  <2>1. Max(C) \in C /\ \A x \in C : x <= Max(C)
    <3> HIDE DEF C
    <3>1. QED
      BY <1>1, <1>2, Extremes
  <2>2. UpTo(rows, c, Max(C)) = rows
    <3> DEFINE m == Max(C)
    <3>1. \A r \in rows : Cell(r, c) <= m
      BY <1>1, <2>1
    <3> HIDE DEF m, Cell
    <3>2. UpTo(rows, c, m) = rows
      BY <3>1 DEF UpTo
    <3>3. QED
      BY <3>2 DEF m
  <2>3. Max(C) \in V
    <3>1. Cardinality(rows) >= k
      BY FS_CardinalityType
    <3>2. QED
      BY <2>1, <2>2, <3>1
  <2>4. QED
    <3> HIDE DEF C
    <3>1. V \subseteq C
      OBVIOUS
    <3>2. QED
      BY <1>1, <2>3, <3>1, FS_Subset
<1> DEFINE w == Min(V)
<1>4. w \in V /\ \A x \in V : w <= x
  <2> HIDE DEF V
  <2>1. QED
    BY <1>3, Extremes
<1>5. w \in C /\ w \in Int /\ Cardinality(UpTo(rows, c, w)) >= k
  BY <1>1, <1>4
<1>6. Cardinality(Below(rows, c, w)) < k
  <2> DEFINE B == Below(rows, c, w)
             D == {x \in C : x < w}
  <2>1. CASE D = {}
    <3>1. B = {}
      BY <1>1, <2>1 DEF Below
    <3>2. Cardinality(B) = 0
      BY <3>1, FS_EmptySet
    <3>3. QED
      BY <3>2
  <2>2. CASE D # {}
    <3> DEFINE u == Max(D)
    <3>1. D \subseteq C /\ D \subseteq Int
      BY <1>1
    <3>2. IsFiniteSet(D)
      <4> HIDE DEF D, C
      <4>1. QED
        BY <1>1, <3>1, FS_Subset
    <3>3. u \in D /\ \A x \in D : x <= u
      <4> HIDE DEF D
      <4>1. QED
        BY <2>2, <3>1, <3>2, Extremes
    <3>4. u \in Int /\ u < w /\ u \in C
      BY <3>1, <3>3
    <3>5. u \notin V
      <4> HIDE DEF V, u
      <4>1. QED
        BY <1>4, <1>5, <3>4
    <3>6. ~(Cardinality(UpTo(rows, c, u)) >= k)
      <4> HIDE DEF u, C
      <4>1. QED
        BY <3>4, <3>5
    <3>7. B \subseteq UpTo(rows, c, u)
      <4>1. \A r \in rows : Cell(r, c) < w => Cell(r, c) \in D
        BY <1>1
      <4>2. \A r \in rows : Cell(r, c) < w => Cell(r, c) <= u
        BY <3>3, <4>1
      <4> HIDE DEF u, w, Cell
      <4>3. QED
        BY <4>2 DEF Below, UpTo
    <3>8. IsFiniteSet(UpTo(rows, c, u)) /\ Cardinality(UpTo(rows, c, u)) \in Nat /\ Cardinality(B) \in Nat
      <4> HIDE DEF u, w
      <4>1. QED
        BY <1>5, <3>4, RankSets
    <3>9. Cardinality(B) <= Cardinality(UpTo(rows, c, u))
      <4> HIDE DEF B, u
      <4>1. QED
        BY <3>7, <3>8, FS_Subset
    <3>10. QED
      <4> HIDE DEF u, B
      <4>1. Cardinality(B) < k
        BY <3>6, <3>8, <3>9
      <4>2. QED
        BY <4>1 DEF B
  <2>3. QED
    BY <2>1, <2>2
<1>7. v \in C /\ Cardinality(Below(rows, c, v)) < k /\ Cardinality(UpTo(rows, c, v)) >= k
  <2>1. v = CHOOSE x \in C : Cardinality(Below(rows, c, x)) < k /\ Cardinality(UpTo(rows, c, x)) >= k
    BY DEF Ranked, Below, UpTo
  <2> HIDE DEF C, w
  <2>2. QED
    BY <1>5, <1>6, <2>1
<1>8. QED
  BY <1>1, <1>7

\* A higher rank has no lower value.
LEMMA RankedMonotone ==
  ASSUME NEW rows, IsFiniteSet(rows), NEW c, \A r \in rows : Cell(r, c) \in Int,
         NEW k \in 1..Cardinality(rows), NEW l \in 1..Cardinality(rows), k <= l
  PROVE  Ranked(rows, c, k) <= Ranked(rows, c, l)
<1> DEFINE u == Ranked(rows, c, l)
           v == Ranked(rows, c, k)
<1>1. v \in Int /\ Cardinality(Below(rows, c, v)) < k
  BY RankedFacts
<1>2. u \in Int /\ Cardinality(UpTo(rows, c, u)) >= l
  BY RankedFacts
<1> HIDE DEF u, v
<1>3. /\ u < v => Cardinality(UpTo(rows, c, u)) <= Cardinality(Below(rows, c, v))
      /\ Cardinality(UpTo(rows, c, u)) \in Nat /\ Cardinality(Below(rows, c, v)) \in Nat
  BY <1>1, <1>2, RankSets
<1>4. v <= u
  BY <1>1, <1>2, <1>3
<1>5. QED
  BY <1>4 DEF u, v

-----------------------------------------------------------------------------
\* A point of an interval, in hundredths of its length.
LEMMA Between ==
  ASSUME NEW low \in Int, NEW high \in Int, low <= high, NEW f \in 0..99, NEW g \in f..99
  PROVE  LET x == 100 * low + f * (high - low)
         IN 100 * low <= x /\ x <= 100 * low + g * (high - low) /\ x <= 100 * high /\ x \in Int
<1> DEFINE d == high - low
           e == f * d
           h == g * d
<1>1. d \in Nat
  OBVIOUS
<1> HIDE DEF d
<1>2. e \in Nat /\ h \in Nat
  <2>1. f \in Nat /\ g \in Nat
    OBVIOUS
  <2>2. QED
    BY <1>1, <2>1
<1>3. e <= h
  <2>1. f \in Int /\ (g - f) \in Nat /\ g = f + (g - f)
    OBVIOUS
  <2>2. d * (f + (g - f)) = d * f + d * (g - f)
    BY <1>1, <2>1, Distributes
  <2>3. d * (g - f) >= 0
    BY <1>1, <2>1
  <2>4. h = d * g /\ e = d * f
    BY <1>1
  <2>5. d * f \in Int /\ d * (g - f) \in Int /\ d * g \in Int
    BY <1>1, <2>1, Distributes
  <2>6. h = e + d * (g - f)
    BY <2>1, <2>2, <2>4
  <2>7. QED
    BY <1>2, <2>3, <2>5, <2>6
<1>4. e <= 100 * d
  <2>1. (100 - f) \in Nat /\ f \in Int /\ 100 = f + (100 - f)
    OBVIOUS
  <2>2. d * (f + (100 - f)) = d * f + d * (100 - f)
    BY <1>1, <2>1, Distributes
  <2>3. d * (100 - f) >= 0 /\ d * (100 - f) \in Int
    BY <1>1, <2>1, Distributes
  <2>4. e = d * f /\ d * 100 = 100 * d
    BY <1>1
  <2>5. d * 100 = e + d * (100 - f)
    BY <2>1, <2>2, <2>4
  <2>6. QED
    BY <1>1, <1>2, <2>3, <2>4, <2>5
<1> HIDE DEF e, h
<1>5. 100 * low <= 100 * low + e /\ 100 * low + e <= 100 * low + h /\ 100 * low + e <= 100 * low + 100 * d
      /\ 100 * low + e \in Int
  BY <1>1, <1>2, <1>3, <1>4
<1>6. 100 * low + 100 * d = 100 * high
  BY DEF d
<1>7. QED
  BY <1>5, <1>6 DEF e, h, d

\* The two ranks a quantile lies between.
LowRank(n, q) == 1 + ((q * (n - 1)) \div 100)
HighRank(n, q) == Min({2 + ((q * (n - 1)) \div 100), n})
Part(n, q) == (q * (n - 1)) % 100

\* The ranks are of the rows, and rise with the quantile.
LEMMA Ranks ==
  ASSUME NEW n \in Nat \ {0}, NEW q \in 0..100, NEW r \in q..100
  PROVE  /\ LowRank(n, q) \in 1..n /\ HighRank(n, q) \in LowRank(n, q)..n /\ Part(n, q) \in 0..99
         /\ HighRank(n, q) <= LowRank(n, q) + 1
         /\ LowRank(n, q) <= LowRank(n, r)
         /\ LowRank(n, q) = LowRank(n, r) => Part(n, q) <= Part(n, r)
         /\ LowRank(n, q) < LowRank(n, r) => HighRank(n, q) <= LowRank(n, r)
         /\ 100 * LowRank(n, q) + 99 >= q * (n - 1) + 100
<1> DEFINE m == n - 1
           x == q * m
           y == r * m
<1>1. m \in Nat /\ q \in Nat /\ r \in Nat
  OBVIOUS
<1> HIDE DEF m
<1>2. x \in Nat /\ y \in Nat
  BY <1>1
<1>3. x <= y
  <2>1. r - q \in Nat /\ r = q + (r - q) /\ q \in Int
    OBVIOUS
  <2>2. m * (q + (r - q)) = m * q + m * (r - q)
    BY <1>1, <2>1, Distributes
  <2>3. m * (r - q) >= 0 /\ m * (r - q) \in Int
    BY <1>1, <2>1, Distributes
  <2>4. x = m * q /\ y = m * r
    BY <1>1
  <2>5. y = x + m * (r - q)
    BY <2>1, <2>2, <2>4
  <2>6. QED
    BY <1>2, <2>3, <2>5
<1>4. x <= 100 * m
  <2>1. 100 - q \in Nat /\ 100 = q + (100 - q) /\ q \in Int
    OBVIOUS
  <2>2. m * (q + (100 - q)) = m * q + m * (100 - q)
    BY <1>1, <2>1, Distributes
  <2>3. m * (100 - q) >= 0 /\ m * (100 - q) \in Int
    BY <1>1, <2>1, Distributes
  <2>4. x = m * q /\ 100 * m = m * 100
    BY <1>1
  <2>5. m * 100 = x + m * (100 - q)
    BY <2>1, <2>2, <2>4
  <2>6. QED
    BY <1>1, <1>2, <2>3, <2>4, <2>5
<1> HIDE DEF x, y
<1> DEFINE a == x \div 100
           b == y \div 100
<1>5. /\ a \in Nat /\ b \in Nat /\ a <= m /\ a <= b /\ x % 100 \in 0..99 /\ 100 * a + 99 >= x
      /\ a = b => x % 100 <= y % 100
  BY <1>1, <1>2, <1>3, <1>4
<1> DEFINE h == Min({2 + a, n})
<1>6. n = m + 1
  BY DEF m
<1>7. h \in {2 + a, n} /\ h <= 2 + a /\ h <= n
  <2> DEFINE S == {2 + a, n}
  <2>1. IsFiniteSet(S)
    <3> DEFINE e == 2 + a
               t == {n}
    <3>1. IsFiniteSet(t)
      BY FS_Singleton
    <3>2. S = t \cup {e}
      OBVIOUS
    <3> HIDE DEF S, e, t
    <3>3. IsFiniteSet(t \cup {e})
      BY <3>1, FS_AddElement
    <3>4. QED
      BY <3>2, <3>3
  <2>2. S \subseteq Int /\ S # {} /\ n \in S /\ 2 + a \in S
    BY <1>5
  <2> HIDE DEF S
  <2>3. Min(S) \in S /\ \A s \in S : Min(S) <= s
    BY <2>1, <2>2, Extremes
  <2>4. QED
    BY <2>2, <2>3 DEF S
<1>8. LowRank(n, q) = 1 + a /\ LowRank(n, r) = 1 + b /\ HighRank(n, q) = h /\ Part(n, q) = x % 100 /\ Part(n, r) = y % 100
      /\ q * (n - 1) = x
  BY DEF LowRank, HighRank, Part, x, y, m
<1> HIDE DEF a, b, h
<1> DEFINE p == x % 100
           o == y % 100
<1> HIDE DEF p, o
<1>9. a \in Nat /\ b \in Nat /\ a <= m /\ a <= b /\ p \in 0..99 /\ 100 * a + 99 >= x /\ (a = b => p <= o)
  BY <1>5 DEF p, o
<1>10. LowRank(n, q) = 1 + a /\ LowRank(n, r) = 1 + b /\ HighRank(n, q) = h /\ Part(n, q) = p /\ Part(n, r) = o
       /\ q * (n - 1) = x
  BY <1>8 DEF p, o
<1>11. QED
  BY <1>1, <1>2, <1>6, <1>7, <1>9, <1>10

\* A quantile lies between its ranks, which lie within the data.
LEMMA QuantileBounds ==
  ASSUME NEW rows, IsFiniteSet(rows), rows # {}, NEW c, \A r \in rows : Cell(r, c) \in Int,
         NEW q \in 0..100, NEW n, n = Cardinality(rows)
  PROVE  /\ n \in Nat \ {0} /\ Quantile(rows, c, q) \in Int
         /\ Ranked(rows, c, LowRank(n, q)) \in Int /\ Ranked(rows, c, HighRank(n, q)) \in Int
         /\ 100 * Ranked(rows, c, LowRank(n, q)) <= Quantile(rows, c, q)
         /\ Quantile(rows, c, q) <= 100 * Ranked(rows, c, HighRank(n, q))
         /\ 100 * Min(Column(rows, c)) <= Quantile(rows, c, q)
         /\ Quantile(rows, c, q) <= 100 * Max(Column(rows, c))
<1> DEFINE i == LowRank(n, q)
           j == HighRank(n, q)
           f == Part(n, q)
           low == Ranked(rows, c, i)
           high == Ranked(rows, c, j)
           C == Column(rows, c)
<1>1. n \in Nat \ {0}
  BY FS_CardinalityType, FS_EmptySet
<1>2. i \in 1..n /\ j \in 1..n /\ i <= j /\ f \in 0..99
  <2>1. q \in q..100
    OBVIOUS
  <2>2. LowRank(n, q) \in 1..n /\ HighRank(n, q) \in LowRank(n, q)..n /\ Part(n, q) \in 0..99
    BY <1>1, <2>1, Ranks
  <2> HIDE DEF LowRank, HighRank, Part
  <2>3. QED
    BY <1>1, <2>2
<1> HIDE DEF i, j, f
<1>3. low \in C /\ low \in Int /\ high \in C /\ high \in Int
  BY <1>2, RankedFacts
<1>4. low <= high
  BY <1>2, RankedMonotone
<1>5. Quantile(rows, c, q) = 100 * low + f * (high - low)
  BY DEF Quantile, i, j, f, LowRank, HighRank, Part
<1>6. C \subseteq Int /\ IsFiniteSet(C) /\ C # {}
  <2> DEFINE g == [r \in rows |-> Cell(r, c)]
  <2>1. C = {g[r] : r \in rows} /\ C \subseteq Int
    BY DEF Column
  <2> HIDE DEF g, C
  <2>2. IsFiniteSet(C)
    BY <2>1, ImageCount
  <2>3. QED
    BY <1>3, <2>1, <2>2
<1> HIDE DEF low, high, C
<1>7. Min(C) \in Int /\ Max(C) \in Int /\ Min(C) <= low /\ high <= Max(C)
  <2>1. Max(C) \in C /\ \A s \in C : s <= Max(C)
    BY <1>6, Extremes
  <2>2. Min(C) \in C /\ \A s \in C : Min(C) <= s
    BY <1>6, Extremes
  <2>3. QED
    BY <1>3, <1>6, <2>1, <2>2
<1> DEFINE x == 100 * low + f * (high - low)
<1>8. 100 * low <= x /\ x <= 100 * high /\ x \in Int
  <2>1. f \in f..99
    BY <1>2
  <2>2. QED
    BY <1>2, <1>3, <1>4, <2>1, Between
<1> HIDE DEF x
<1>9. 100 * Min(C) <= x /\ x <= 100 * Max(C)
  BY <1>3, <1>7, <1>8
<1>10. Quantile(rows, c, q) = x
  BY <1>5 DEF x
<1> HIDE DEF Quantile
<1>11. low \in Int /\ high \in Int /\ 100 * low <= Quantile(rows, c, q) /\ Quantile(rows, c, q) <= 100 * high
       /\ Quantile(rows, c, q) \in Int /\ 100 * Min(C) <= Quantile(rows, c, q) /\ Quantile(rows, c, q) <= 100 * Max(C)
  BY <1>3, <1>8, <1>9, <1>10
<1>12. QED
  <2> HIDE DEF LowRank, HighRank
  <2>1. QED
    BY <1>1, <1>11 DEF low, high, i, j, C

\* A higher quantile is no lower.
LEMMA QuantileMonotone ==
  ASSUME NEW rows, IsFiniteSet(rows), rows # {}, NEW c, \A r \in rows : Cell(r, c) \in Int,
         NEW q \in 0..100, NEW r \in q..100
  PROVE  Quantile(rows, c, q) <= Quantile(rows, c, r)
<1> DEFINE n == Cardinality(rows)
<1>1. n \in Nat \ {0}
  BY FS_CardinalityType, FS_EmptySet
<1> HIDE DEF n
<1>2. r \in 0..100 /\ r \in r..100
  OBVIOUS
<1> DEFINE i == LowRank(n, q)
           j == HighRank(n, q)
           k == LowRank(n, r)
           l == HighRank(n, r)
           f == Part(n, q)
           g == Part(n, r)
<1>3. i \in 1..n /\ j \in i..n /\ f \in 0..99 /\ i <= k /\ (i = k => f <= g) /\ (i < k => j <= k)
  <2> HIDE DEF i, j, k, f, g
  <2>1. i \in 1..n /\ j \in i..n /\ f \in 0..99
    BY <1>1, Ranks DEF i, j, f
  <2>2. i <= k
    BY <1>1, Ranks DEF i, k
  <2>3. i = k => f <= g
    BY <1>1, Ranks DEF i, k, f, g
  <2>4. i < k => j <= k
    BY <1>1, Ranks DEF i, k, j
  <2>5. QED
    BY <2>1, <2>2, <2>3, <2>4
<1>4. k \in 1..n /\ l \in k..n /\ g \in 0..99
  <2> HIDE DEF k, l, g
  <2>1. QED
    BY <1>1, <1>2, Ranks DEF k, l, g
<1> DEFINE X == Quantile(rows, c, q)
           Y == Quantile(rows, c, r)
<1>5. X \in Int /\ X <= 100 * Ranked(rows, c, j) /\ Ranked(rows, c, j) \in Int
  BY QuantileBounds DEF n
<1>6. Y \in Int /\ 100 * Ranked(rows, c, k) <= Y /\ Ranked(rows, c, k) \in Int
  BY <1>2, QuantileBounds DEF n
<1>7. X = 100 * Ranked(rows, c, i) + f * (Ranked(rows, c, j) - Ranked(rows, c, i))
  BY DEF Quantile, LowRank, HighRank, Part, n
<1>8. Y = 100 * Ranked(rows, c, k) + g * (Ranked(rows, c, l) - Ranked(rows, c, k))
  BY DEF Quantile, LowRank, HighRank, Part, n
<1>9. CASE i < k
  <2>1. j \in 1..n /\ k \in 1..n /\ j <= k
    <3> HIDE DEF i, j, k
    <3>1. QED
      BY <1>1, <1>3, <1>4, <1>9
  <2> HIDE DEF X, Y, j, k
  <2>2. Ranked(rows, c, j) <= Ranked(rows, c, k)
    BY <2>1, RankedMonotone DEF n
  <2>3. X <= Y
    BY <1>5, <1>6, <2>2
  <2>4. QED
    BY <2>3 DEF X, Y
<1>10. CASE i = k
  <2>1. j = l
    <3> DEFINE u == (q * (n - 1)) \div 100
               v == (r * (n - 1)) \div 100
    <3>0. i = k
      BY <1>10
    <3>1. i = 1 + u /\ k = 1 + v /\ j = Min({2 + u, n}) /\ l = Min({2 + v, n})
      BY DEF LowRank, HighRank
    <3>2. u \in Int /\ v \in Int
      <4>1. q * (n - 1) \in Int /\ r * (n - 1) \in Int
        BY <1>1
      <4>2. QED
        BY <4>1
    <3> HIDE DEF i, j, k, l, u, v
    <3>3. u = v
      <4>1. 1 + u = 1 + v
        BY <3>0, <3>1
      <4>2. QED
        BY <3>2, <4>1
    <3>4. QED
      BY <3>1, <3>3
  <2> HIDE DEF X, Y, i, j, k, l, f, g
  <2>2. i \in 1..n /\ j \in 1..n /\ i <= j
    BY <1>1, <1>3
  <2> DEFINE low == Ranked(rows, c, i)
             high == Ranked(rows, c, j)
  <2>3. low <= high
    BY <2>2, RankedMonotone DEF n
  <2>4. low \in Int /\ high \in Int
    BY <1>5, <1>6, <1>10
  <2>5. X = 100 * low + f * (high - low) /\ Y = 100 * low + g * (high - low)
    BY <1>7, <1>8, <1>10, <2>1
  <2> HIDE DEF low, high
  <2>6. g \in f..99 /\ f \in 0..99
    BY <1>3, <1>4, <1>10
  <2>7. 100 * low + f * (high - low) <= 100 * low + g * (high - low)
    BY <2>3, <2>4, <2>6, Between
  <2>8. X <= Y
    BY <2>5, <2>7
  <2>9. QED
    BY <2>8 DEF X, Y
<1>11. i < k \/ i = k
  <2> HIDE DEF i, k
  <2>1. QED
    BY <1>1, <1>3, <1>4
<1>12. QED
  BY <1>9, <1>10, <1>11

-----------------------------------------------------------------------------
\* Both cells judge a capture by the same bounds.
LEMMA EvidenceTrue == ReadInv /\ NumbersInv => EvidenceConsistent
<1> SUFFICES ASSUME ReadInv, NumbersInv, Continues PROVE Warned <=> Evidence = "weak"
  BY DEF EvidenceConsistent
<1> DEFINE n == Cardinality(Raw)
           C == Column(Raw, "event_ts")
           t == EventSpan
<1>1. n \in Nat
  BY CaptureFacts, FS_CardinalityType
<1>2. t \in Int
  <2>1. C \subseteq Int /\ C # {} /\ IsFiniteSet(C)
    <3> DEFINE f == [r \in Raw |-> Cell(r, "event_ts")]
    <3>1. C = {f[r] : r \in Raw}
      BY DEF Column
    <3>2. IsFiniteSet(Raw) /\ Raw # {}
      BY CaptureFacts DEF Continues
    <3>3. \A r \in Raw : f[r] \in Int
      BY CaptureFacts, RowFacts, CellFacts
    <3> HIDE DEF f, C
    <3>4. IsFiniteSet(C)
      BY <3>1, <3>2, ImageCount
    <3>5. QED
      BY <3>1, <3>2, <3>3, <3>4
  <2> HIDE DEF C
  <2>2. Max(C) \in Int
    BY <2>1, Extremes
  <2>3. Min(C) \in Int
    BY <2>1, Extremes
  <2>4. t = Max(C) - Min(C)
    BY DEF EventSpan, C
  <2> HIDE DEF t
  <2>5. QED
    BY <2>2, <2>3, <2>4
<1>3. /\ Warned <=> (n < SmallCapture \/ t < ShortCapture)
      /\ Evidence = (IF n >= LargeCapture /\ t >= LongCapture THEN "strong"
                     ELSE IF n >= SmallCapture /\ t >= ShortCapture THEN "directional" ELSE "weak")
  BY DEF Warned, Evidence
<1> HIDE DEF n, t
<1>4. QED
  BY <1>1, <1>2, <1>3, ResearchBounds

-----------------------------------------------------------------------------
\* The quantiles of a group of rows are in order.
LEMMA LatencyOrder ==
  ASSUME NEW w, w \subseteq Rows, IsFiniteSet(w), w # {}, NEW l, l = LatencyQuantiles(w)
  PROVE  l.median <= l.p90 /\ l.p90 <= l.p95 /\ l.p95 <= l.p99 /\ l.p99 <= l.max
<1> DEFINE c == "latency"
<1>1. \A r \in w : Cell(r, c) \in Int
  BY RowFacts, CellFacts
<1>2. /\ l.median = Quantile(w, c, 50) /\ l.p90 = Quantile(w, c, 90) /\ l.p95 = Quantile(w, c, 95)
      /\ l.p99 = Quantile(w, c, 99) /\ l.max = 100 * Max(Column(w, c))
  BY DEF LatencyQuantiles
<1> HIDE DEF c
<1>3. Quantile(w, c, 50) <= Quantile(w, c, 90)
  <2>1. 50 \in 0..100 /\ 90 \in 50..100
    OBVIOUS
  <2>2. QED
    BY <1>1, <2>1, QuantileMonotone
<1>4. Quantile(w, c, 90) <= Quantile(w, c, 95)
  <2>1. 90 \in 0..100 /\ 95 \in 90..100
    OBVIOUS
  <2>2. QED
    BY <1>1, <2>1, QuantileMonotone
<1>5. Quantile(w, c, 95) <= Quantile(w, c, 99)
  <2>1. 95 \in 0..100 /\ 99 \in 95..100
    OBVIOUS
  <2>2. QED
    BY <1>1, <2>1, QuantileMonotone
<1>6. Quantile(w, c, 99) <= 100 * Max(Column(w, c))
  <2>1. 99 \in 0..100
    OBVIOUS
  <2>2. QED
    BY <1>1, <2>1, QuantileBounds
<1>7. QED
  BY <1>2, <1>3, <1>4, <1>5, <1>6

\* Above a quantile lie no more rows than its rank leaves.
LEMMA FewAbove ==
  ASSUME NEW w, w \subseteq Rows, IsFiniteSet(w), w # {}, NEW c, \A r \in w : Cell(r, c) \in Int,
         NEW X, X = {r \in w : 100 * Cell(r, c) > Quantile(w, c, 99)}
  PROVE  100 * Cardinality(X) <= Cardinality(w) + 99
<1> DEFINE n == Cardinality(w)
           k == LowRank(n, 99)
           v == Ranked(w, c, k)
           U == UpTo(w, c, v)
           Q == Quantile(w, c, 99)
<1>1. n \in Nat \ {0} /\ Q \in Int /\ v \in Int /\ 100 * v <= Q
  <2>1. 99 \in 0..100
    OBVIOUS
  <2>2. QED
    BY <2>1, QuantileBounds
<1>2. k \in 1..n /\ 100 * k + 99 >= 99 * (n - 1) + 100
  <2>1. 99 \in 0..100 /\ 99 \in 99..100
    OBVIOUS
  <2> HIDE DEF n, k
  <2>2. k \in 1..n
    BY <1>1, <2>1, Ranks DEF k
  <2>3. 100 * k + 99 >= 99 * (n - 1) + 100
    BY <1>1, <2>1, Ranks DEF k
  <2>4. QED
    BY <2>2, <2>3
<1>3. Cardinality(U) >= k
  <2> HIDE DEF k
  <2>1. QED
    BY <1>2, RankedFacts
<1>4. U \subseteq w /\ X \subseteq w
  BY DEF UpTo
<1>5. U \cap X = {}
  <2> SUFFICES ASSUME NEW r \in w, Cell(r, c) <= v, 100 * Cell(r, c) > Q PROVE FALSE
    <3> HIDE DEF v, Q, Cell
    <3>1. QED
      BY DEF UpTo, Q
  <2> DEFINE x == Cell(r, c)
  <2>1. x \in Int
    OBVIOUS
  <2> HIDE DEF v, Q, x
  <2>2. x <= v /\ 100 * x > Q
    BY DEF x
  <2>3. QED
    BY <1>1, <2>1, <2>2
<1> HIDE DEF U
<1>6. IsFiniteSet(U) /\ IsFiniteSet(X)
  BY <1>4, FS_Subset
<1>7. Cardinality(U \cup X) = Cardinality(U) + Cardinality(X) - Cardinality(U \cap X)
  BY <1>6, FS_Union
<1>8. Cardinality(U \cap X) = 0
  BY <1>5, FS_EmptySet
<1>9. Cardinality(U \cup X) <= n
  <2>1. U \cup X \subseteq w
    BY <1>4
  <2>2. QED
    BY <2>1, FS_Subset
<1>10. Cardinality(U) \in Nat /\ Cardinality(X) \in Nat /\ Cardinality(U \cup X) \in Nat
  <2>1. IsFiniteSet(U \cup X)
    BY <1>6, FS_Union
  <2>2. QED
    BY <1>6, <2>1, FS_CardinalityType
<1>11. QED
  <2> DEFINE a == Cardinality(U)
             b == Cardinality(X)
             d == Cardinality(U \cup X)
  <2>1. a \in Nat /\ b \in Nat /\ d \in Nat /\ d = a + b /\ d <= n /\ a >= k
    BY <1>3, <1>7, <1>8, <1>9, <1>10
  <2> HIDE DEF a, b, d, k, n
  <2>2. 100 * b <= n + 99
    BY <1>1, <1>2, <2>1
  <2>3. QED
    BY <2>2 DEF b, n

\* The statistics stay within the data.
LEMMA StatisticsTrue == ReadInv /\ NumbersInv => StatisticsSound
<1> SUFFICES ASSUME ReadInv, NumbersInv, Continues PROVE StatisticsSound
  BY DEF StatisticsSound
<1>0. /\ Raw \subseteq Rows /\ IsFiniteSet(Raw) /\ Raw # {}
      /\ Clean \subseteq Rows /\ IsFiniteSet(Clean) /\ Clean # {}
  BY CaptureFacts DEF Continues
<1>1. ASSUME NEW row \in LatencySummary, NEW l, l = row[3]
      PROVE  l.median <= l.p90 /\ l.p90 <= l.p95 /\ l.p95 <= l.p99 /\ l.p99 <= l.max
  <2>1. CASE row = <<"all", "all", LatencyQuantiles(Raw)>>
    <3>1. l = LatencyQuantiles(Raw)
      BY <1>1, <2>1
    <3>2. QED
      BY <1>0, <3>1, LatencyOrder
  <2>2. ASSUME NEW column, NEW g \in DOMAIN GroupBy(Raw, {column}),
               row = <<column, g[column], LatencyQuantiles(GroupBy(Raw, {column})[g])>>
        PROVE  l.median <= l.p90 /\ l.p90 <= l.p95 /\ l.p95 <= l.p99 /\ l.p99 <= l.max
    <3> DEFINE w == GroupBy(Raw, {column})[g]
    <3>1. l = LatencyQuantiles(w)
      BY <1>1, <2>2
    <3>2. w \subseteq Rows /\ IsFiniteSet(w) /\ w # {}
      <4> DEFINE keys == {column}
      <4>1. w = GroupBy(Raw, keys)[g] /\ g \in DOMAIN GroupBy(Raw, keys)
        OBVIOUS
      <4> HIDE DEF w, keys, GroupBy
      <4>2. QED
        BY <1>0, <4>1, GroupRows
    <3> HIDE DEF w
    <3>3. QED
      BY <3>1, <3>2, LatencyOrder
  <2>3. row = <<"all", "all", LatencyQuantiles(Raw)>> \/
        \E column \in {"venue", "instrument_id"} : \E g \in DOMAIN GroupBy(Raw, {column}) :
          row = <<column, g[column], LatencyQuantiles(GroupBy(Raw, {column})[g])>>
    <3> HIDE DEF GroupBy, LatencyQuantiles
    <3>1. QED
      BY DEF LatencySummary
  <2>4. QED
    BY <2>1, <2>2, <2>3
<1>2. 100 * Cardinality(ExtremeLatency) <= Cardinality(Raw) + 99
  <2> DEFINE c == "latency"
  <2>1. \A r \in Raw : Cell(r, c) \in Int
    BY <1>0, RowFacts, CellFacts
  <2>2. ExtremeLatency = {r \in Raw : 100 * Cell(r, c) > Quantile(Raw, c, 99)}
    BY DEF ExtremeLatency
  <2> HIDE DEF c
  <2>3. QED
    BY <1>0, <2>1, <2>2, FewAbove
<1>4. ASSUME NEW c \in DOMAIN TradeDistributions
      PROVE  /\ TradeDistributions[c][50] >= 100 * Min(Column(Clean, c))
             /\ TradeDistributions[c][99] <= 100 * Max(Column(Clean, c))
  <2>1. c \in {"size", "notional"}
    BY DEF TradeDistributions
  <2>2. \A r \in Clean : Cell(r, c) \in Int
    <3>1. \A r \in Clean : r.price \in Int /\ r.size \in Int /\ r.price * r.size \in Int
      <4> SUFFICES ASSUME NEW r \in Clean PROVE r.price \in Int /\ r.size \in Int /\ r.price * r.size \in Int
        OBVIOUS
      <4>1. r.price \in Int /\ r.size \in Int
        BY <1>0, RowFacts
      <4>2. QED
        BY <4>1
    <3>2. QED
      BY <2>1, <3>1, CellFacts
  <2>3. TradeDistributions[c][50] = Quantile(Clean, c, 50) /\ TradeDistributions[c][99] = Quantile(Clean, c, 99)
    <3> HIDE DEF Quantile
    <3>1. TradeDistributions[c] = [q \in {50, 75, 90, 95, 99} |-> Quantile(Clean, c, q)]
      BY <2>1 DEF TradeDistributions
    <3>2. QED
      BY <3>1
  <2>4. 100 * Min(Column(Clean, c)) <= Quantile(Clean, c, 50)
    <3>1. 50 \in 0..100
      OBVIOUS
    <3>2. QED
      BY <1>0, <2>2, <3>1, QuantileBounds
  <2>5. Quantile(Clean, c, 99) <= 100 * Max(Column(Clean, c))
    <3>1. 99 \in 0..100
      OBVIOUS
    <3>2. QED
      BY <1>0, <2>2, <3>1, QuantileBounds
  <2>6. QED
    <3> DEFINE a == Min(Column(Clean, c))
               b == Max(Column(Clean, c))
               d == Quantile(Clean, c, 50)
    <3>1. a \in Int /\ d \in Int
      <4> DEFINE C == Column(Clean, c)
      <4>1. C = {Cell(r, c) : r \in Clean} /\ C \subseteq Int /\ C # {}
        BY <1>0, <2>2 DEF Column
      <4>2. IsFiniteSet(C)
        <5> DEFINE f == [r \in Clean |-> Cell(r, c)]
        <5>1. C = {f[r] : r \in Clean}
          BY DEF Column
        <5> HIDE DEF f, C
        <5>2. QED
          BY <1>0, <5>1, ImageCount
      <4> HIDE DEF C
      <4>3. Min(C) \in Int
        BY <4>1, <4>2, Extremes
      <4>4. 50 \in 0..100
        OBVIOUS
      <4>5. d \in Int
        BY <1>0, <2>2, <4>4, QuantileBounds
      <4>6. QED
        BY <4>3, <4>5 DEF C
    <3>2. d >= 100 * a
      <4> HIDE DEF a, d
      <4>1. 100 * a <= d
        BY <2>4 DEF a, d
      <4>2. QED
        BY <3>1, <4>1
    <3>3. QED
      BY <2>3, <2>5, <3>2
<1>5. QED
  BY <1>1, <1>2, <1>4 DEF StatisticsSound

-----------------------------------------------------------------------------
\* Every group of rows is counted once.
LEMMA GroupCounts ==
  ASSUME NEW rows, IsFiniteSet(rows), NEW keys, NEW t, DOMAIN t = DOMAIN GroupBy(rows, keys),
         t = [g \in DOMAIN t |-> Cardinality(GroupBy(rows, keys)[g])]
  PROVE  SumFunction(t) = Cardinality(rows)
<1> DEFINE D == DOMAIN t
           of == [r \in rows |-> Group(r, keys)]
           f == [g \in D |-> Cardinality({r \in rows : of[r] = g})]
<1>1. D = {of[r] : r \in rows} /\ \A g \in D : GroupBy(rows, keys)[g] = {r \in rows : of[r] = g}
  <2> HIDE DEF Group
  <2>1. QED
    BY DEF GroupBy
<1>2. t = f
  <2> HIDE DEF of, GroupBy
  <2>1. QED
    BY <1>1
<1> HIDE DEF of, D
<1>3. IsFiniteSet(D)
  BY <1>1, ImageCount
<1>4. Cardinality(rows) = Sum(f, D)
  BY <1>1, <1>3, CountFibres
<1>5. SumFunction(t) = Sum(t, D)
  BY SumFunctionIsSum DEF D
<1>6. QED
  BY <1>2, <1>4, <1>5

\* The least and the greatest of a column.
LEMMA ColumnBounds ==
  ASSUME NEW rows, IsFiniteSet(rows), rows # {}, NEW c, \A r \in rows : Cell(r, c) \in Int,
         NEW C, C = Column(rows, c)
  PROVE  /\ Min(C) \in Int /\ Max(C) \in Int /\ Min(C) \in C /\ Max(C) \in C
         /\ \A r \in rows : Min(C) <= Cell(r, c) /\ Cell(r, c) <= Max(C)
<1> DEFINE f == [r \in rows |-> Cell(r, c)]
<1>1. C = {f[r] : r \in rows} /\ C \subseteq Int /\ C # {} /\ \A r \in rows : Cell(r, c) \in C
  BY DEF Column
<1> HIDE DEF f
<1>2. IsFiniteSet(C)
  BY <1>1, ImageCount
<1>3. Min(C) \in C /\ \A x \in C : Min(C) <= x
  BY <1>1, <1>2, Extremes
<1>4. Max(C) \in C /\ \A x \in C : x <= Max(C)
  BY <1>1, <1>2, Extremes
<1> HIDE DEF Cell
<1>5. QED
  BY <1>1, <1>3, <1>4

\* A side has a notional when one of its trades has.
LEMMA SideFacts ==
  ASSUME ReadInv, NumbersInv, NEW label
  PROVE  /\ NotionalOf(label) \in Nat
         /\ NotionalOf(label) > 0 <=> \E r \in Clean : SideLabel(r) = label /\ Cell(r, "notional") > 0
<1> DEFINE w == {r \in Clean : SideLabel(r) = label}
<1>1. w \subseteq Clean /\ (HasSide(label) <=> w # {})
  BY DEF HasSide
<1>2. SideNotional(label) = Total(w, "notional")
  BY DEF SideNotional
<1>3. (\E r \in Clean : SideLabel(r) = label /\ Cell(r, "notional") > 0) <=> \E r \in w : Cell(r, "notional") > 0
  <2> HIDE DEF Cell, SideLabel
  <2> QED
    OBVIOUS
<1> HIDE DEF w
<1>4. w \subseteq Rows /\ IsFiniteSet(w)
  BY <1>1, CaptureFacts, FS_Subset
<1>5. \A r \in w : Cell(r, "notional") > 0 <=> r.size > 0
  <2> TAKE r \in w
  <2>1. r.size \in Nat /\ r.price \in Nat \ {0}
    BY <1>4, RowFacts
  <2>2. Cell(r, "notional") = r.price * r.size
    BY CellFacts
  <2> HIDE DEF Cell
  <2> QED
    BY <2>1, <2>2, WorthOf
<1> HIDE DEF Cell
<1>6. CASE w # {}
  <2>1. /\ Total(w, "notional") \in Nat
        /\ IF \E r \in w : r.size > 0 THEN Total(w, "notional") > 0 ELSE Total(w, "notional") = 0
    BY <1>4, <1>6, RowsPriced
  <2>2. NotionalOf(label) = Total(w, "notional")
    BY <1>1, <1>2, <1>6 DEF NotionalOf
  <2>3. (\E r \in w : Cell(r, "notional") > 0) <=> \E r \in w : r.size > 0
    BY <1>5
  <2>4. QED
    BY <1>3, <2>1, <2>2, <2>3
<1>7. CASE w = {}
  <2>1. NotionalOf(label) = 0
    BY <1>1, <1>7 DEF NotionalOf
  <2> QED
    BY <1>3, <1>7, <2>1
<1> QED
  BY <1>6, <1>7

\* A minute's vwap lies within its range.
LEMMA NoneOutside == ReadInv /\ NumbersInv => Outside = {}
<1> SUFFICES ASSUME ReadInv, NumbersInv, NEW g \in DOMAIN Activity
             PROVE  LET b == Activity[g] IN ~(b.notional < b.low * b.volume) /\ ~(b.notional > b.high * b.volume)
  BY DEF Outside
<1> DEFINE groups == GroupBy(Clean, TapeKeys)
           w == groups[g]
           b == Activity[g]
<1>1. /\ g \in DOMAIN groups
      /\ b.volume = Total(w, "size") /\ b.notional = Total(w, "notional")
      /\ b.high = Max(Column(w, "price")) /\ b.low = Min(Column(w, "price"))
  <2>1. DOMAIN Activity = DOMAIN groups
    BY BarFacts DEF Activity, Tape, TapeKeys
  <2>2. QED
    BY <2>1, BarFacts DEF Activity, Tape, TapeKeys
<1>2. w \subseteq Rows /\ IsFiniteSet(w) /\ w # {}
  <2>1. w = GroupBy(Clean, TapeKeys)[g] /\ g \in DOMAIN GroupBy(Clean, TapeKeys)
    BY <1>1
  <2>2. Clean \subseteq Rows /\ IsFiniteSet(Clean)
    BY CaptureFacts
  <2> HIDE DEF w, GroupBy, TapeKeys
  <2>3. QED
    BY <2>1, <2>2, GroupRows
<1> HIDE DEF w, b, groups
<1> DEFINE lo == Min(Column(w, "price"))
           hi == Max(Column(w, "price"))
           volume == Total(w, "size")
           notional == Total(w, "notional")
<1>3. /\ volume \in Nat /\ notional \in Nat /\ lo \in Nat /\ hi \in Nat
      /\ lo * volume <= notional /\ notional <= hi * volume
  BY <1>2, RowsPriced
<1>4. b.volume = volume /\ b.notional = notional /\ b.high = hi /\ b.low = lo
  BY <1>1
<1> HIDE DEF lo, hi, volume, notional
<1> DEFINE x == lo * volume
           y == hi * volume
<1>5. x \in Int /\ y \in Int /\ x <= notional /\ notional <= y
  BY <1>3
<1>6. b.low * b.volume = x /\ b.high * b.volume = y
  BY <1>4
<1> HIDE DEF x, y
<1>7. ~(b.notional < b.low * b.volume) /\ ~(b.notional > b.high * b.volume)
  BY <1>3, <1>4, <1>5, <1>6
<1>8. QED
  BY <1>7 DEF b

\* What the notebooks assert holds, but for the imbalance of a capture without sides.
LEMMA AssertsTrue == ReadInv /\ NumbersInv => NotebookAsserts
<1> SUFFICES ASSUME ReadInv, NumbersInv, Continues PROVE NotebookAsserts
  BY DEF NotebookAsserts
<1>1. /\ Clean \subseteq Rows /\ Clean # {}
      /\ \A a, b \in Clean : NaturalKey(a) = NaturalKey(b) => a = b
  BY CaptureFacts DEF Continues
<1>2. Duplicated(Clean) = {}
  <2> HIDE DEF NaturalKey
  <2>1. QED
    BY <1>1 DEF Duplicated
<1>3. \A r \in Clean : r.size >= 0 /\ Cell(r, "notional") >= 0
  <2> TAKE r \in Clean
  <2>1. r.size \in Nat /\ r.price \in Nat
    BY <1>1, RowFacts
  <2>2. Cell(r, "notional") = r.price * r.size
    BY CellFacts
  <2>3. QED
    BY <2>1, <2>2
<1>4. Imbalance # {} <=> \E r \in Clean : r.side # "UNKNOWN" /\ Cell(r, "notional") > 0
  <2> DEFINE buy == NotionalOf("buy")
             sell == NotionalOf("sell")
             Worth(r) == Cell(r, "notional") > 0
  <2>1. \A r \in Clean : r.side # "UNKNOWN" <=> SideLabel(r) = "buy" \/ SideLabel(r) = "sell"
    <3> TAKE r \in Clean
    <3>1. r.side \in Sides
      BY <1>1, RowFacts
    <3>2. CASE r.side = "BUY"
      BY <3>2 DEF SideLabel
    <3>3. CASE r.side = "SELL"
      BY <3>3 DEF SideLabel
    <3>4. CASE r.side = "UNKNOWN"
      BY <3>4 DEF SideLabel
    <3> QED
      BY <3>1, <3>2, <3>3, <3>4 DEF Sides
  <2>2. buy \in Nat /\ (buy > 0 <=> \E r \in Clean : SideLabel(r) = "buy" /\ Worth(r))
    BY SideFacts
  <2>3. sell \in Nat /\ (sell > 0 <=> \E r \in Clean : SideLabel(r) = "sell" /\ Worth(r))
    BY SideFacts
  <2>4. Imbalance = (IF buy + sell = 0 THEN {} ELSE {buy - sell})
    BY DEF Imbalance
  <2> HIDE DEF buy, sell, Worth
  <2>5. Imbalance # {} <=> buy > 0 \/ sell > 0
    <3>1. buy + sell = 0 <=> ~(buy > 0 \/ sell > 0)
      BY <2>2, <2>3
    <3> DEFINE d == buy - sell
    <3>2. Imbalance = (IF buy + sell = 0 THEN {} ELSE {d})
      BY <2>4
    <3> HIDE DEF d
    <3> QED
      BY <3>1, <3>2
  <2>6. (buy > 0 \/ sell > 0) <=> \E r \in Clean : r.side # "UNKNOWN" /\ Worth(r)
    <3> HIDE DEF SideLabel
    <3> QED
      BY <2>1, <2>2, <2>3
  <2> QED
    BY <2>5, <2>6 DEF Worth
<1>5. ASSUME NEW m \in Recommendations PROVE m.value # {} \/ m.value = Imbalance
  <2>1. \A n, v, p : Measured(n, v, p).value = v
    BY DEF Measured
  <2>2. \/ \E n, v, p : m = Measured(n, {v}, p)
        \/ m = Measured("partition_count_cv", IF Clean = {} THEN {} ELSE {PartitionCv}, "validate next")
        \/ m = Measured("buy_sell_notional_imbalance", Imbalance, "validate next")
    <3> HIDE DEF Measured
    <3>1. QED
      BY DEF Recommendations
  <2>3. CASE \E n, v, p : m = Measured(n, {v}, p)
    <3>1. PICK n, v, p : m = Measured(n, {v}, p)
      BY <2>3
    <3> DEFINE s == {v}
    <3>2. s # {} /\ m = Measured(n, s, p)
      BY <3>1
    <3> HIDE DEF s, Measured
    <3>3. m.value = s
      BY <2>1, <3>2
    <3>4. QED
      BY <3>2, <3>3
  <2>4. CASE m = Measured("partition_count_cv", IF Clean = {} THEN {} ELSE {PartitionCv}, "validate next")
    <3> DEFINE s == IF Clean = {} THEN {} ELSE {PartitionCv}
    <3>1. s # {}
      BY <1>1
    <3> HIDE DEF s
    <3>2. m.value = s
      BY <2>1, <2>4 DEF s
    <3>3. QED
      BY <3>1, <3>2
  <2>5. CASE m = Measured("buy_sell_notional_imbalance", Imbalance, "validate next")
    BY <2>1, <2>5
  <2>6. QED
    BY <2>2, <2>3, <2>4, <2>5
<1>6. \E m \in Recommendations : m.value = Imbalance
  <2> DEFINE m == Measured("buy_sell_notional_imbalance", Imbalance, "validate next")
  <2>1. m.value = Imbalance
    BY DEF Measured
  <2>2. m \in Recommendations
    <3> HIDE DEF Measured
    <3> QED
      BY DEF Recommendations
  <2> QED
    BY <2>1, <2>2
<1>7. (\A m \in Recommendations : m.value # {}) <=> Imbalance # {}
  BY <1>5, <1>6
<1>8. QED
  BY <1>2, <1>3, <1>4, <1>7, NoneOutside DEF NotebookAsserts

-----------------------------------------------------------------------------
\* What deduplication drops was a copy.
LEMMA DroppedCopies ==
  ASSUME ReadInv, NumbersInv
  PROVE  Cardinality(Raw) - Cardinality(Clean) <= Cardinality(Duplicated(Raw))
<1> DEFINE D == Duplicated(Raw)
           X == Raw \ Clean
<1>1. Clean \subseteq Raw /\ IsFiniteSet(Raw) /\ D \subseteq Raw
  BY CaptureFacts DEF Duplicated
<1>2. X \subseteq D
  <2> SUFFICES ASSUME NEW c \in Raw, c \notin Clean PROVE c \in D
    OBVIOUS
  <2>1. PICK r \in Clean : NaturalKey(r) = NaturalKey(c)
    BY CaptureFacts
  <2> HIDE DEF NaturalKey
  <2>2. r \in Raw /\ r # c
    BY <1>1
  <2>3. QED
    BY <2>1, <2>2 DEF Duplicated
<1> HIDE DEF D
<1>3. IsFiniteSet(D) /\ IsFiniteSet(Clean)
  BY <1>1, FS_Subset
<1>4. Cardinality(X) <= Cardinality(D)
  <2> HIDE DEF X
  <2>1. QED
    BY <1>2, <1>3, FS_Subset
<1>5. Cardinality(X) = Cardinality(Raw) - Cardinality(Raw \cap Clean)
  BY <1>1, FS_Difference
<1>6. Raw \cap Clean = Clean
  BY <1>1
<1>7. QED
  BY <1>4, <1>5, <1>6 DEF D

\* A partition's offsets span its records.
LEMMA OffsetsSpan ==
  ASSUME ReadInv, NumbersInv, NEW w, w \subseteq Clean, w # {}, NEW p, \A r \in w : r.kafka_partition = p
  PROVE  Cardinality(w) <= Max(Column(w, "kafka_offset")) - Min(Column(w, "kafka_offset")) + 1
<1> DEFINE C == Column(w, "kafka_offset")
           lo == Min(C)
           hi == Max(C)
           f == [r \in w |-> r.kafka_offset]
<1>1. w \subseteq Raw /\ w \subseteq Rows /\ IsFiniteSet(w)
  BY CaptureFacts, FS_Subset
<1>2. \A r \in w : Cell(r, "kafka_offset") = r.kafka_offset /\ r.kafka_offset \in Nat \ {0}
  BY <1>1, RowFacts, CellFacts
<1>3. /\ lo \in Int /\ hi \in Int /\ lo \in C /\ hi \in C
      /\ \A r \in w : lo <= r.kafka_offset /\ r.kafka_offset <= hi
  <2> DEFINE c == "kafka_offset"
  <2>1. \A r \in w : Cell(r, c) \in Int
    BY <1>2
  <2>2. C = Column(w, c)
    OBVIOUS
  <2> HIDE DEF c, C
  <2>3. Min(C) \in Int /\ Max(C) \in Int /\ Min(C) \in C /\ Max(C) \in C
    BY <1>1, <2>1, <2>2, ColumnBounds
  <2>4. \A r \in w : Min(C) <= Cell(r, c) /\ Cell(r, c) <= Max(C)
    BY <1>1, <2>1, <2>2, ColumnBounds
  <2>5. QED
    BY <1>2, <2>3, <2>4 DEF c
<1>4. lo \in Nat \ {0} /\ hi \in Nat /\ lo <= hi
  <2>1. \A x \in C : x \in Nat \ {0}
    BY <1>2 DEF Column
  <2> HIDE DEF C
  <2>2. PICK r \in w : TRUE
    OBVIOUS
  <2>3. r.kafka_offset \in Nat /\ lo <= r.kafka_offset /\ r.kafka_offset <= hi
    BY <1>2, <1>3
  <2>4. QED
    BY <1>3, <2>1, <2>3
<1>5. \A x, y \in w : x.kafka_offset = y.kafka_offset => x = y
  <2> SUFFICES ASSUME NEW x \in w, NEW y \in w, x.kafka_offset = y.kafka_offset PROVE x = y
    OBVIOUS
  <2>1. x \in ToSet(taken) /\ y \in ToSet(taken) /\ x.kafka_partition = y.kafka_partition
    BY <1>1, CaptureFacts
  <2>2. PICK i \in 1..Len(taken) : x = taken[i]
    BY <2>1, TakenOnce
  <2>3. PICK j \in 1..Len(taken) : y = taken[j]
    BY <2>1, TakenOnce
  <2>4. i = j
    BY <2>1, <2>2, <2>3, TakenOnce
  <2>5. QED
    BY <2>2, <2>3, <2>4
<1> HIDE DEF lo, hi, C
<1> DEFINE a == lo - 1
           T == a + 1 .. hi
<1>6. a \in Nat /\ a <= hi /\ a + 1 = lo
  BY <1>4
<1> HIDE DEF a
<1>7. IsFiniteSet(T) /\ Cardinality(T) = hi - a
  BY <1>4, <1>6, IntervalSize
<1>8. \A x \in w : f[x] \in T
  BY <1>2, <1>3, <1>4, <1>6
<1>9. \A x, y \in w : f[x] = f[y] => x = y
  BY <1>5
<1> HIDE DEF f, T
<1>10. Cardinality(w) <= Cardinality(T) /\ Cardinality(w) \in Nat
  BY <1>7, <1>8, <1>9, InjectionCount
<1>11. QED
  <2>1. hi - a = hi - lo + 1
    BY <1>4, <1>6
  <2>2. QED
    BY <1>7, <1>10, <2>1 DEF lo, hi, C

\* An instrument's notional is the sum of its minutes'.
LEMMA MinutesAddUp ==
  ASSUME ReadInv, NumbersInv, NEW whole, whole = GroupBy(Clean, {"instrument_id"}), NEW g \in DOMAIN whole
  PROVE  Total(whole[g], "notional") = SumFunction([h \in Closes(g.instrument_id) |-> Activity[h].notional])
<1> DEFINE coarse == {"instrument_id"}
           parted == GroupBy(Clean, TapeKeys)
           T == Inside(Clean, TapeKeys, coarse, g)
           t == [h \in Closes(g.instrument_id) |-> Activity[h].notional]
<1>1. DOMAIN Activity = DOMAIN parted
  BY BarFacts DEF Activity, Tape, TapeKeys
<1>2. \A h \in DOMAIN parted : Activity[h].notional = Total(parted[h], "notional")
  BY BarFacts DEF Activity, Tape, TapeKeys
<1>3. Closes(g.instrument_id) = T
  <2>1. \A h : (\A k \in coarse : h[k] = g[k]) <=> h.instrument_id = g.instrument_id
    OBVIOUS
  <2> HIDE DEF coarse
  <2>2. QED
    BY <1>1, <2>1 DEF Closes, Inside
<1>4. DOMAIN t = T /\ \A h \in T : t[h] = Total(parted[h], "notional")
  <2>1. \A h \in T : h \in DOMAIN parted
    BY DEF Inside
  <2> HIDE DEF T, parted
  <2>2. QED
    BY <1>2, <1>3, <2>1
<1>5. \A r \in Clean : Cell(r, "notional") \in Nat
  <2> TAKE r \in Clean
  <2>1. r \in Rows
    BY CaptureFacts
  <2>2. r.size \in Nat /\ r.price \in Nat
    BY <2>1, RowFacts
  <2>3. Cell(r, "notional") = r.price * r.size
    BY CellFacts
  <2>4. QED
    BY <2>2, <2>3
<1>6. coarse \subseteq TapeKeys /\ IsFiniteSet(Clean) /\ whole = GroupBy(Clean, coarse)
  BY CaptureFacts DEF TapeKeys
<1> DEFINE c == "notional"
<1>7. (\A r \in Clean : Cell(r, c) \in Nat) /\ \A h \in T : t[h] = Total(parted[h], c)
  BY <1>4, <1>5
<1> DEFINE fine == TapeKeys
<1>8. parted = GroupBy(Clean, fine) /\ T = Inside(Clean, fine, coarse, g) /\ coarse \subseteq fine
  BY <1>6
<1> HIDE DEF coarse, parted, T, t, c, fine
<1>9. Total(whole[g], c) = Sum(t, T)
  BY <1>6, <1>7, <1>8, TotalInside
<1>10. SumFunction(t) = Sum(t, DOMAIN t)
  BY SumFunctionIsSum
<1>11. QED
  BY <1>4, <1>9, <1>10 DEF t, c

\* The tables describe one capture.
LEMMA TablesTrue == ReadInv /\ NumbersInv => TablesAgree
<1> SUFFICES ASSUME ReadInv, NumbersInv, Continues PROVE TablesAgree
  BY DEF TablesAgree
<1>0. /\ Raw \subseteq Rows /\ IsFiniteSet(Raw) /\ Raw # {}
      /\ Clean \subseteq Rows /\ IsFiniteSet(Clean) /\ Clean \subseteq Raw
  BY CaptureFacts DEF Continues
<1>1. /\ CaptureSummary.captured_rows = Cardinality(Raw) /\ CaptureSummary.deduplicated_rows = Cardinality(Clean)
      /\ CaptureSummary.event_start = Min(Column(Raw, "event_ts"))
      /\ CaptureSummary.event_end = Max(Column(Raw, "event_ts"))
  BY DEF CaptureSummary
<1>2. Cardinality(Raw) = SumFunction(SourceProfile)
  <2> DEFINE t == SourceProfile
             keys == {"source", "is_backfill"}
  <2>1. DOMAIN t = DOMAIN GroupBy(Raw, keys) /\ t = [g \in DOMAIN t |-> Cardinality(GroupBy(Raw, keys)[g])]
    BY DEF SourceProfile
  <2> HIDE DEF t, keys
  <2>2. SumFunction(t) = Cardinality(Raw)
    BY <1>0, <2>1, GroupCounts
  <2>3. QED
    BY <2>2 DEF t
<1>3. Cardinality(Clean) = SumFunction([g \in DOMAIN Coverage |-> Coverage[g].trades])
  <2> DEFINE t == [g \in DOMAIN Coverage |-> Coverage[g].trades]
             keys == {"venue", "instrument_id"}
  <2>1. DOMAIN t = DOMAIN GroupBy(Clean, keys) /\ t = [g \in DOMAIN t |-> Cardinality(GroupBy(Clean, keys)[g])]
    <3> HIDE DEF GroupBy
    <3>1. DOMAIN Coverage = DOMAIN GroupBy(Clean, keys)
      BY DEF Coverage
    <3>2. \A g \in DOMAIN Coverage : Coverage[g].trades = Cardinality(GroupBy(Clean, keys)[g])
      BY DEF Coverage
    <3> HIDE DEF keys, Coverage
    <3>3. QED
      BY <3>1, <3>2
  <2> HIDE DEF t, keys
  <2>2. SumFunction(t) = Cardinality(Clean)
    BY <1>0, <2>1, GroupCounts
  <2>3. QED
    BY <2>2 DEF t
<1>4. Cardinality(Raw) - Cardinality(Clean) <= Cardinality(Duplicated(Raw))
  BY DroppedCopies
<1>5. ASSUME NEW g \in DOMAIN Coverage
      PROVE  /\ Coverage[g].event_start >= Min(Column(Raw, "event_ts"))
             /\ Coverage[g].event_end <= Max(Column(Raw, "event_ts"))
  <2> DEFINE keys == {"venue", "instrument_id"}
             w == GroupBy(Clean, keys)[g]
             c == "event_ts"
  <2>1. /\ g \in DOMAIN GroupBy(Clean, keys)
        /\ Coverage[g].event_start = Min(Column(w, c)) /\ Coverage[g].event_end = Max(Column(w, c))
    <3> HIDE DEF GroupBy
    <3>1. QED
      BY DEF Coverage
  <2>2. w \subseteq Clean /\ IsFiniteSet(w) /\ w # {}
    <3>1. w = GroupBy(Clean, keys)[g] /\ g \in DOMAIN GroupBy(Clean, keys)
      BY <2>1
    <3> HIDE DEF w, keys, GroupBy
    <3>2. QED
      BY <1>0, <3>1, GroupRows
  <2>3. \A r \in Raw : Cell(r, c) \in Int
    BY <1>0, RowFacts, CellFacts
  <2> DEFINE A == Column(w, c)
             B == Column(Raw, c)
  <2>4. A \subseteq B
    <3> HIDE DEF w
    <3>1. QED
      BY <1>0, <2>2 DEF Column
  <2> HIDE DEF w, c, A, B
  <2>5. \A r \in w : Cell(r, c) \in Int
    BY <1>0, <2>2, <2>3
  <2>6. Min(A) \in A /\ Max(A) \in A /\ Min(A) \in Int /\ Max(A) \in Int
    BY <2>2, <2>5, ColumnBounds DEF A
  <2>7. Min(B) \in Int /\ Max(B) \in Int /\ \A r \in Raw : Min(B) <= Cell(r, c) /\ Cell(r, c) <= Max(B)
    BY <1>0, <2>3, ColumnBounds DEF B
  <2>8. \A x \in B : Min(B) <= x /\ x <= Max(B)
    <3>1. B = {Cell(r, c) : r \in Raw}
      BY DEF B, Column
    <3> HIDE DEF Cell
    <3>2. QED
      BY <2>7, <3>1
  <2>9. Min(B) <= Min(A) /\ Max(A) <= Max(B)
    BY <2>4, <2>6, <2>8
  <2>10. Min(A) >= Min(B) /\ Max(A) <= Max(B)
    BY <2>6, <2>7, <2>9
  <2>11. QED
    BY <2>1, <2>10 DEF A, B, c
<1>6. ASSUME NEW g \in DOMAIN PartitionProfile
      PROVE  PartitionProfile[g].records <= PartitionProfile[g].last_offset - PartitionProfile[g].first_offset + 1
  <2> DEFINE keys == {"kafka_partition"}
             w == GroupBy(Clean, keys)[g]
  <2>1. /\ g \in DOMAIN GroupBy(Clean, keys)
        /\ PartitionProfile[g].records = Cardinality(w)
        /\ PartitionProfile[g].first_offset = Min(Column(w, "kafka_offset"))
        /\ PartitionProfile[g].last_offset = Max(Column(w, "kafka_offset"))
    <3> HIDE DEF GroupBy
    <3>1. QED
      BY DEF PartitionProfile
  <2>2. w \subseteq Clean /\ w # {}
    <3>1. w = GroupBy(Clean, keys)[g] /\ g \in DOMAIN GroupBy(Clean, keys)
      BY <2>1
    <3> HIDE DEF w, keys, GroupBy
    <3>2. QED
      BY <1>0, <3>1, GroupRows
  <2>3. \A r \in w : r.kafka_partition = g.kafka_partition
    <3>1. \A r \in w : Group(r, keys) = g
      <4> HIDE DEF Group
      <4>1. QED
        BY <2>1 DEF GroupBy
    <3>2. \A r : Group(r, keys)["kafka_partition"] = r.kafka_partition
      BY CellFacts DEF Group
    <3> HIDE DEF Group, w
    <3>3. QED
      BY <3>1, <3>2
  <2> HIDE DEF w
  <2>4. Cardinality(w) <= Max(Column(w, "kafka_offset")) - Min(Column(w, "kafka_offset")) + 1
    BY <2>2, <2>3, OffsetsSpan
  <2>5. QED
    BY <2>1, <2>4
<1>7. ASSUME NEW g \in DOMAIN ActivityRanking
      PROVE  ActivityRanking[g].notional = SumFunction([h \in Closes(g.instrument_id) |-> Activity[h].notional])
  <2> DEFINE whole == GroupBy(Clean, {"instrument_id"})
  <2>1. g \in DOMAIN whole /\ ActivityRanking[g].notional = Total(whole[g], "notional")
    <3> HIDE DEF GroupBy
    <3>1. QED
      BY DEF ActivityRanking
  <2>2. Total(whole[g], "notional") = SumFunction([h \in Closes(g.instrument_id) |-> Activity[h].notional])
    <3>1. whole = GroupBy(Clean, {"instrument_id"})
      OBVIOUS
    <3> HIDE DEF whole, Closes, Activity
    <3>2. QED
      BY <2>1, <3>1, MinutesAddUp
  <2>3. QED
    BY <2>1, <2>2
<1>8. QED
  <2> HIDE DEF Coverage, SourceProfile, PartitionProfile, ActivityRanking, CaptureSummary, Duplicated, Closes, Activity
  <2>1. /\ CaptureSummary.captured_rows = SumFunction(SourceProfile)
        /\ CaptureSummary.deduplicated_rows = SumFunction([g \in DOMAIN Coverage |-> Coverage[g].trades])
        /\ CaptureSummary.captured_rows - CaptureSummary.deduplicated_rows <= Cardinality(Duplicated(Raw))
    BY <1>1, <1>2, <1>3, <1>4
  <2>2. \A g \in DOMAIN Coverage : /\ Coverage[g].event_start >= CaptureSummary.event_start
                                  /\ Coverage[g].event_end <= CaptureSummary.event_end
    BY <1>1, <1>5
  <2>3. QED
    BY <1>6, <1>7, <2>1, <2>2 DEF TablesAgree

\* The research notebook's cells agree with each other and with the topic, on
\* any capture (src/notebooks/04_stream_product_research.ipynb).
THEOREM ResearchTrue == StreamSpec => []ResearchSound
<1>1. StreamInit => ReadInv /\ NumbersInv
  BY ReadStarts
<1>2. (ReadInv /\ NumbersInv) /\ [StreamNext]_streamVars => (ReadInv /\ NumbersInv)'
  BY ReadStep
<1>3. ReadInv /\ NumbersInv => ResearchSound
  BY AssertsTrue, QualityTrue, TablesTrue, StatisticsTrue, EvidenceTrue DEF ResearchSound
<1>4. QED
  BY <1>1, <1>2, <1>3, PTL DEF StreamSpec
=============================================================================
