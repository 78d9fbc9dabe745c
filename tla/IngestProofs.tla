---------------------------- MODULE IngestProofs ----------------------------
(***************************************************************************)
(* Proofs about Ingest, for every queue size, batch size and bound.        *)
(***************************************************************************)
EXTENDS Ingest, SequenceTheorems, TLAPS

\* Next, one disjunct per action.
LEMMA NextCases ==
  ASSUME [Next]_vars
  PROVE  \/ VenueSends \/ VenueSnapshot \/ VenueMisses \/ VenueOtherFrame
         \/ Disconnect \/ LoopTop \/ Connected \/ ConnectFails \/ BackoffEnds \/ PumpEnds
         \/ CancelPump \/ HandleMessage \/ PumpResumes
         \/ (\E i \in DOMAIN repairs : RepairFetched(i))
         \/ (\E i \in DOMAIN repairs : RepairFails(i))
         \/ (\E i \in DOMAIN repairs : RepairPuts(i))
         \/ DrainTrade \/ DrainRaises \/ DrainExits \/ Stop \/ RunReturns
         \/ UNCHANGED vars
BY DEF Next, Venue, Socket, Pump, Drain, RepairStep, LifetimeExpires, SessionStops

\* What the constructors of the model build.
LEMMA Constructors ==
  /\ \A t \in Nat : Streamed(t) \in Trade /\ Repaired(t) \in Trade
  /\ \A s, a, b \in Nat : 0 < a /\ a <= b => [seq |-> s, first |-> a, last |-> b] \in Frame
  /\ \A a, b, c \in Nat : [st |-> "fetching", last |-> a, next |-> b, conn |-> c,
                           at |-> 0, upto |-> 0] \in Repair
BY DEF Streamed, Repaired, Trade, Frame, Repair

\* The fields of rows, trades and repairs.
LEMMA Fields ==
  /\ \A x \in Frame : /\ x.seq \in Nat /\ x.first \in Nat /\ x.last \in Nat
                      /\ 0 < x.first /\ x.first <= x.last
  /\ \A x \in Hand : /\ x.first \in Nat /\ x.last \in Nat
                     /\ x = Empty \/ (0 < x.first /\ x.first <= x.last)
  /\ Empty \in Hand /\ Carried(Empty) = {}
  /\ \A x \in Trade : x.id \in Nat
  /\ \A r \in Repair : /\ r.last \in Nat /\ r.next \in Nat /\ r.conn \in Nat
                       /\ r.at \in Nat /\ r.upto \in Int
BY DEF Frame, Hand, Empty, Carried, Trade, Repair

\* The domain of a sequence and its members.
LEMMA SeqDomain ==
  ASSUME NEW S, NEW s \in Seq(S)
  PROVE  /\ DOMAIN s = 1..Len(s) /\ Len(s) \in Nat
         /\ \A i \in DOMAIN s : s[i] \in S
BY ElementOfSeq, LenProperties

\* The repair a fetch leaves, and the one a put leaves.
LEMMA RepairUpdates ==
  ASSUME TypeOK, NEW r \in Repair
  PROVE  /\ FirstRow(r) \in Nat /\ LastRow(r) \in Int
         /\ Fetched(r) \in Repair /\ AfterPut(r) \in Repair
         /\ [r EXCEPT !.st = "failed"] \in Repair
<1>1. published \in Nat /\ RepairBatch \in Nat
  BY ConstantsAssumption DEF TypeOK
<1>2. FirstRow(r) \in Nat /\ LastRow(r) \in Int
  BY <1>1, Fields DEF FirstRow, LastRow, Lesser
<1>3. Fetched(r) \in Repair
  BY <1>2, Fields DEF Fetched, Moved, Repair
<1>4. AfterPut(r) \in Repair
  BY Fields DEF AfterPut, Moved, Repair
<1>5. [r EXCEPT !.st = "failed"] \in Repair
  BY DEF Repair
<1>6. QED
  BY <1>2, <1>3, <1>4, <1>5

\* What the puts of a frame's trades leave: a queue within its bound, and the
\* trades that did not fit in the pump's hand.
LEMMA PutTypes ==
  ASSUME TypeOK, NEW a \in Nat, NEW b \in Nat, 0 < a, a <= b, Put(a, b)
  PROVE  queue' \in Seq(Trade) /\ Len(queue') <= QueueMax /\ putting' \in Hand
<1> DEFINE n == Fitting(a, b)
           new == [k \in 1..n |-> Streamed(a + k - 1)]
<1>1. queue \in Seq(Trade) /\ Len(queue) \in Nat /\ Len(queue) <= QueueMax /\ QueueMax \in Nat
  BY LenProperties, ConstantsAssumption DEF TypeOK
<1>2. n \in Nat /\ n <= QueueMax - Len(queue) /\ n <= b + 1 - a
  BY <1>1 DEF Fitting, Lesser
<1>3. queue' = queue \o new
      /\ putting' = IF a + n > b THEN Empty ELSE [first |-> a + n, last |-> b]
  BY DEF Put
<1> HIDE DEF n
<1>4. \A k \in 1..n : Streamed(a + k - 1) \in Trade
  BY <1>2, Constructors
<1>5. new \in [1..n -> Trade]
  BY <1>4
<1>6. new \in Seq(Trade) /\ Len(new) = n
  <2>1. new \in Seq(Trade) /\ DOMAIN new = 1..n
    BY <1>2, <1>5, SeqDef
  <2>2. Len(new) \in Nat /\ 1..Len(new) = 1..n
    BY <2>1, LenProperties
  <2>3. QED
    BY <1>2, <2>1, <2>2
<1> HIDE DEF new
<1>7. queue \o new \in Seq(Trade) /\ Len(queue \o new) = Len(queue) + n
  BY <1>1, <1>6, ConcatProperties
<1>8. putting' \in Hand
  BY <1>2, <1>3 DEF Hand
<1>9. QED
  BY <1>1, <1>2, <1>3, <1>7, <1>8

\* The step of the type invariant: no action of the runner, of its tasks or of
\* the venue leaves the types, and no put overfills the queue.
LEMMA TypeStep == TypeOK /\ [Next]_vars => TypeOK'
<1> SUFFICES ASSUME TypeOK, [Next]_vars PROVE TypeOK'
  OBVIOUS
<1> USE ConstantsAssumption, Constructors, Fields
    DEF TypeOK, venueVars, socketVars, sinkVars, NoMark
<1>1. CASE VenueSends
  <2>1. /\ published' \in Nat /\ published + 1 <= published' /\ connSeq' \in Nat
        /\ FrameSeq \in Nat
    BY <1>1 DEF VenueSends, NextFrame, FrameSeq
  <2>2. [seq |-> FrameSeq, first |-> published + 1, last |-> published'] \in Frame
    BY <2>1
  <2>3. QED
    BY <1>1, <2>1, <2>2, AppendProperties DEF VenueSends
<1>2. CASE VenueSnapshot
  <2>1. PICK n \in 1..SnapMax :
          /\ n <= published
          /\ wire' = <<[seq |-> 1, first |-> published - n + 1, last |-> published]>>
    BY <1>2 DEF VenueSnapshot
  <2>2. [seq |-> 1, first |-> published - n + 1, last |-> published] \in Frame
    BY <2>1
  <2>3. wire' \in Seq(Frame)
    BY <2>1, <2>2
  <2>4. QED
    BY <1>2, <2>3 DEF VenueSnapshot
<1>4. CASE VenueMisses
  BY <1>4 DEF VenueMisses, NextFrame
<1>5. CASE VenueOtherFrame
  BY <1>5 DEF VenueOtherFrame
<1>6. CASE Disconnect
  <2>1. wire' \in Seq(Frame)
    <3>1. PICK n \in 0..Len(wire) : wire' = SubSeq(wire, 1, n)
      BY <1>6 DEF Disconnect
    <3>2. n \in Int /\ \A k \in 1..n : wire[k] \in Frame
      BY <3>1, SeqDomain
    <3>3. QED
      BY <3>1, <3>2, SubSeqProperties
  <2>2. QED
    BY <1>6, <2>1 DEF Disconnect
<1>7. CASE LoopTop
  BY <1>7 DEF LoopTop
<1>8. CASE Connected
  <2>1. wire' \in Seq(Frame)
    BY <1>8, EmptySeq DEF Connected
  <2>2. wm' \in Nat /\ heard' \subseteq Nat
    BY <1>8 DEF Connected, HandleReconnect
  <2>3. QED
    BY <1>8, <2>1, <2>2 DEF Connected
<1>9. CASE ConnectFails
  BY <1>9 DEF ConnectFails, AfterException
<1>10. CASE BackoffEnds
  BY <1>10 DEF BackoffEnds
<1>11. CASE PumpEnds
  BY <1>11 DEF PumpEnds, AfterException
<1>12. CASE CancelPump
  <2>1. Carried(putting) \subseteq Nat
    <3>1. putting.first \in Nat /\ putting.last \in Nat
      BY Fields
    <3>2. QED
      BY <3>1 DEF Carried
  <2>2. cancelled' \subseteq Nat /\ putting' \in Hand /\ wire' \in Seq(Frame)
    BY <1>12, <2>1, EmptySeq DEF CancelPump
  <2>3. QED
    BY <1>12, <2>2 DEF CancelPump
<1>13. CASE HandleMessage
  <2> DEFINE f == Head(wire)
  <2>1. f \in Frame /\ Tail(wire) \in Seq(Frame)
    BY <1>13, HeadTailProperties DEF HandleMessage
  <2>2. /\ f.seq \in Nat /\ f.first \in Nat /\ f.last \in Nat
        /\ 0 < f.first /\ f.first <= f.last
    BY <2>1
  <2> HIDE DEF f
  <2>3. repairs' \in Seq(Repair) /\ wm' \in Nat /\ heard' \subseteq Nat
    BY <1>13, <2>2, AppendProperties DEF HandleMessage, Observe, NewMark, f
  <2>4. queue' \in Seq(Trade) /\ Len(queue') <= QueueMax /\ putting' \in Hand
    <3>1. Put(f.first, f.last)
      BY <1>13 DEF HandleMessage, f
    <3>2. QED
      BY <2>2, <3>1, PutTypes
  <2>5. received' \subseteq Nat
    <3>1. Carried(f) \subseteq Nat
      BY <2>2 DEF Carried
    <3>2. received' = received \cup Carried(f)
      BY <1>13 DEF HandleMessage, f
    <3>3. QED
      BY <3>1, <3>2
  <2>6. QED
    BY <1>13, <2>1, <2>3, <2>4, <2>5 DEF HandleMessage
<1>14. CASE PumpResumes
  <2>1. Put(putting.first, putting.last) /\ putting # Empty
    BY <1>14 DEF PumpResumes
  <2>2. queue' \in Seq(Trade) /\ Len(queue') <= QueueMax /\ putting' \in Hand
    BY <2>1, PutTypes
  <2>3. QED
    BY <1>14, <2>2 DEF PumpResumes
<1>15. CASE \E i \in DOMAIN repairs : RepairFetched(i)
  <2>1. PICK i \in DOMAIN repairs : RepairFetched(i)
    BY <1>15
  <2>2. i \in 1..Len(repairs) /\ repairs[i] \in Repair
    BY SeqDomain
  <2>3. repairs' \in Seq(Repair)
    BY <2>1, <2>2, RepairUpdates, ExceptSeq DEF RepairFetched
  <2>4. QED
    BY <2>1, <2>3 DEF RepairFetched
<1>16. CASE \E i \in DOMAIN repairs : RepairFails(i)
  <2>1. PICK i \in DOMAIN repairs : RepairFails(i)
    BY <1>16
  <2>2. i \in 1..Len(repairs) /\ repairs[i] \in Repair
    BY SeqDomain
  <2>3. repairs' \in Seq(Repair)
    BY <2>1, <2>2, RepairUpdates, ExceptSeq DEF RepairFails
  <2>4. QED
    BY <2>1, <2>3 DEF RepairFails
<1>17. CASE \E i \in DOMAIN repairs : RepairPuts(i)
  <2>1. PICK i \in DOMAIN repairs : RepairPuts(i)
    BY <1>17
  <2>2. i \in 1..Len(repairs) /\ repairs[i] \in Repair
    BY SeqDomain
  <2>3. repairs' \in Seq(Repair)
    BY <2>1, <2>2, RepairUpdates, ExceptSeq DEF RepairPuts
  <2>4. queue' \in Seq(Trade) /\ Len(queue') <= QueueMax
    <3>1. Repaired(repairs[i].at) \in Trade
      BY <2>2 DEF Repair, Repaired, Trade
    <3>2. queue' = Append(queue, Repaired(repairs[i].at)) /\ Len(queue) < QueueMax
      BY <2>1 DEF RepairPuts, Room
    <3>3. QED
      BY <3>1, <3>2, AppendProperties, QueueMax \in Nat
  <2>5. QED
    BY <2>1, <2>3, <2>4 DEF RepairPuts
<1>18. CASE DrainTrade
  <2>1. /\ queue' \in Seq(Trade) /\ Len(queue') <= QueueMax
        /\ produced' \in Seq(Trade)
    BY <1>18, HeadTailProperties, AppendProperties, SeqDomain DEF DrainTrade
  <2>2. QED
    BY <1>18, <2>1 DEF DrainTrade
<1>19. CASE DrainRaises
  <2>1. /\ queue' \in Seq(Trade) /\ Len(queue') <= QueueMax
        /\ Head(queue) \in Trade
    BY <1>19, HeadTailProperties, SeqDomain DEF DrainRaises
  <2>2. QED
    BY <1>19, <2>1 DEF DrainRaises
<1>20. CASE DrainExits
  BY <1>20 DEF DrainExits
<1>21. CASE Stop
  BY <1>21 DEF Stop
<1>22. CASE RunReturns
  BY <1>22 DEF RunReturns
<1>23. CASE UNCHANGED vars
  BY <1>23 DEF vars
<1>24. QED
  BY <1>1, <1>2, <1>4, <1>5, <1>6, <1>7, <1>8, <1>9, <1>10, <1>11, <1>12, <1>13,
     <1>14, <1>15, <1>16, <1>17, <1>18, <1>19, <1>20, <1>21, <1>22, <1>23, NextCases

\* The runner keeps its types, and its queue never holds more than queue_maxsize
\* trades, whatever the pump, the repair tasks and the drain do.
THEOREM TypeCorrect == Spec => []TypeOK
<1>1. /\ <<>> \in Seq(Frame) /\ <<>> \in Seq(Trade) /\ <<>> \in Seq(Repair)
      /\ Len(<<>>) = 0 /\ Empty \in Hand
  BY EmptySeq, Fields
<1>2. Init => TypeOK
  <2> SUFFICES ASSUME Init PROVE TypeOK
    OBVIOUS
  <2>1. /\ wire \in Seq(Frame) /\ queue \in Seq(Trade) /\ repairs \in Seq(Repair)
        /\ produced \in Seq(Trade) /\ Len(queue) = 0
    BY <1>1 DEF Init
  <2>2. Len(queue) <= QueueMax
    BY <2>1, ConstantsAssumption
  <2>3. stop \in BOOLEAN /\ exited \in BOOLEAN
    BY DEF Init
  <2>4. QED
    BY <1>1, <2>1, <2>2, <2>3 DEF Init, TypeOK, NoMark
<1>3. QED
  BY <1>2, TypeStep, PTL DEF Spec

-----------------------------------------------------------------------------
\* The ids of a sequence that grew at its end, and of one that lost its head.
LEMMA IdsAppend ==
  ASSUME NEW s \in Seq(Trade), NEW e \in Trade
  PROVE  Ids(Append(s, e)) = Ids(s) \cup {e.id}
<1>1. Append(s, e) \in Seq(Trade) /\ Len(Append(s, e)) = Len(s) + 1
  BY AppendProperties
<1>2. DOMAIN s = 1..Len(s) /\ DOMAIN Append(s, e) = 1..(Len(s) + 1) /\ Len(s) \in Nat
  BY <1>1, SeqDomain
<1>3. /\ \A i \in 1..Len(s) : Append(s, e)[i] = s[i]
      /\ Append(s, e)[Len(s) + 1] = e
  BY AppendProperties
<1>4. QED
  BY <1>2, <1>3 DEF Ids

\* The ids of a queue are that of its head and those of the rest.
LEMMA IdsHeadTail ==
  ASSUME NEW s \in Seq(Trade), s # <<>>
  PROVE  Ids(s) = {Head(s).id} \cup Ids(Tail(s))
<1>1. /\ Tail(s) \in Seq(Trade) /\ Len(Tail(s)) = Len(s) - 1
      /\ \A i \in 1..Len(Tail(s)) : Tail(s)[i] = s[i + 1]
  BY HeadTailProperties
<1>2. DOMAIN s = 1..Len(s) /\ DOMAIN Tail(s) = 1..(Len(s) - 1) /\ Len(s) \in Nat
  BY <1>1, SeqDomain
<1>3. Head(s) = s[1] /\ Len(s) > 0
  BY <1>2, EmptySeq
<1>4. \A i \in 1..Len(s) : i = 1 \/ (i - 1 \in 1..(Len(s) - 1) /\ s[i] = Tail(s)[i - 1])
  BY <1>1, <1>2
<1>5. \A i \in 1..(Len(s) - 1) : i + 1 \in 1..Len(s) /\ Tail(s)[i] = s[i + 1]
  BY <1>1, <1>2
<1>6. Ids(s) \subseteq {Head(s).id} \cup Ids(Tail(s))
  <2> SUFFICES ASSUME NEW i \in DOMAIN s
               PROVE  s[i].id \in {Head(s).id} \cup Ids(Tail(s))
    BY DEF Ids
  <2>1. CASE i = 1
    BY <2>1, <1>3
  <2>2. CASE i # 1
    BY <2>2, <1>2, <1>4 DEF Ids
  <2>3. QED
    BY <2>1, <2>2
<1>7. Head(s).id \in Ids(s)
  BY <1>2, <1>3 DEF Ids
<1>8. Ids(Tail(s)) \subseteq Ids(s)
  BY <1>2, <1>5 DEF Ids
<1>9. QED
  BY <1>6, <1>7, <1>8

\* Every trade of a frame that is put is in the queue afterwards or still in the
\* pump's hand, and the queue loses none.
LEMMA PutKeeps ==
  ASSUME TypeOK, NEW a \in Nat, NEW b \in Nat, 0 < a, a <= b, Put(a, b)
  PROVE  /\ Ids(queue) \subseteq Ids(queue')
         /\ \A t \in a..b : t \in Ids(queue') \/ t \in Carried(putting')
<1> DEFINE n == Fitting(a, b)
           new == [k \in 1..n |-> Streamed(a + k - 1)]
           q == Len(queue)
<1>1. queue \in Seq(Trade) /\ q \in Nat /\ q <= QueueMax /\ QueueMax \in Nat
  BY LenProperties, ConstantsAssumption DEF TypeOK
<1>2. n \in Nat /\ n <= b + 1 - a
  BY <1>1 DEF Fitting, Lesser
<1>3. queue' = queue \o new
      /\ putting' = IF a + n > b THEN Empty ELSE [first |-> a + n, last |-> b]
  BY DEF Put
<1> HIDE DEF n
<1>4. new \in [1..n -> Trade]
  <2>1. \A k \in 1..n : Streamed(a + k - 1) \in Trade
    BY <1>2, Constructors
  <2>2. QED
    BY <2>1
<1>5. new \in Seq(Trade) /\ Len(new) = n
  <2>1. new \in Seq(Trade) /\ DOMAIN new = 1..n
    BY <1>2, <1>4, SeqDef
  <2>2. Len(new) \in Nat /\ 1..Len(new) = 1..n
    BY <2>1, LenProperties
  <2>3. QED
    BY <1>2, <2>1, <2>2
<1>6. \A k \in 1..n : new[k].id = a + k - 1
  BY DEF Streamed
<1> HIDE DEF new
<1>7. /\ queue' \in Seq(Trade) /\ Len(queue') = q + n
      /\ \A i \in 1..(q + n) : queue'[i] = IF i <= q THEN queue[i] ELSE new[i - q]
  BY <1>1, <1>3, <1>5, ConcatProperties
<1>8. DOMAIN queue' = 1..(q + n) /\ DOMAIN queue = 1..q
  BY <1>1, <1>7, SeqDomain
<1> HIDE DEF q
<1>9. Ids(queue) \subseteq Ids(queue')
  <2>1. \A i \in 1..q : i \in 1..(q + n) /\ queue'[i] = queue[i]
    BY <1>1, <1>2, <1>7
  <2>2. QED
    BY <1>8, <2>1 DEF Ids
<1>10. ASSUME NEW t \in a..b PROVE t \in Ids(queue') \/ t \in Carried(putting')
  <2>1. CASE t < a + n
    <3>1. t - a + 1 \in 1..n /\ q + (t - a + 1) \in 1..(q + n)
      BY <1>1, <1>2, <2>1
    <3>2. ~(q + (t - a + 1) <= q) /\ (q + (t - a + 1)) - q = t - a + 1
      BY <1>1, <2>1
    <3>3. queue'[q + (t - a + 1)].id = t
      BY <1>6, <1>7, <3>1, <3>2
    <3>4. QED
      BY <1>8, <3>1, <3>3 DEF Ids
  <2>2. CASE ~(t < a + n)
    BY <1>2, <1>3, <2>2 DEF Carried
  <2>3. QED
    BY <2>1, <2>2
<1>11. QED
  BY <1>9, <1>10

\* A frame of one trade is put as a whole or not at all.
LEMMA PutOne ==
  ASSUME TypeOK, NEW a \in Nat, 0 < a, Put(a, a)
  PROVE  IF Room THEN queue' = Append(queue, Streamed(a)) /\ putting' = Empty
         ELSE queue' = queue /\ putting' = [first |-> a, last |-> a]
<1> DEFINE n == Fitting(a, a)
           new == [k \in 1..n |-> Streamed(a + k - 1)]
<1>1. queue \in Seq(Trade) /\ Len(queue) \in Nat /\ Len(queue) <= QueueMax /\ QueueMax \in Nat
  BY LenProperties, ConstantsAssumption DEF TypeOK
<1>2. n = IF Room THEN 1 ELSE 0
  BY <1>1 DEF Fitting, Lesser, Room
<1>3. queue' = queue \o new
      /\ putting' = IF a + n > a THEN Empty ELSE [first |-> a + n, last |-> a]
  BY DEF Put
<1> HIDE DEF n
<1>4. CASE Room
  <2>1. new = <<Streamed(a)>>
    <3>1. new = [k \in 1..1 |-> Streamed(a + k - 1)]
      BY <1>2, <1>4
    <3>2. \A k \in 1..1 : a + k - 1 = a
      OBVIOUS
    <3>3. [k \in 1..1 |-> Streamed(a + k - 1)] = [k \in 1..1 |-> Streamed(a)]
      BY <3>2
    <3>4. <<Streamed(a)>> = [k \in 1..1 |-> Streamed(a)]
      OBVIOUS
    <3>5. QED
      BY <3>1, <3>3, <3>4
  <2>2. Streamed(a) \in Trade
    BY Constructors
  <2>3. queue' = Append(queue, Streamed(a))
    BY <1>1, <1>3, <2>1, <2>2, AppendIsConcat
  <2>4. QED
    BY <1>2, <1>3, <1>4, <2>3
<1>5. CASE ~Room
  <2>1. n = 0
    BY <1>2, <1>5
  <2>2. new = <<>>
    BY <2>1
  <2>3. queue' = queue
    BY <1>1, <1>3, <2>2, ConcatEmptySeq
  <2>4. putting' = [first |-> a, last |-> a]
    BY <1>3, <2>1
  <2>5. QED
    BY <1>5, <2>3, <2>4
<1>6. QED
  BY <1>4, <1>5

\* A frame sent by the venue is the last one and disturbs no other.
LEMMA WireAppend ==
  ASSUME TypeOK, NEW row \in Frame, wire' = Append(wire, row)
  PROVE  /\ DOMAIN wire' = 1..(Len(wire) + 1) /\ DOMAIN wire = 1..Len(wire)
         /\ Len(wire) \in Nat
         /\ wire'[Len(wire) + 1] = row
         /\ \A i \in DOMAIN wire : wire'[i] = wire[i]
<1>1. wire \in Seq(Frame)
  BY DEF TypeOK
<1>2. QED
  BY <1>1, AppendProperties, SeqDomain

\* The step of WireAhead.
LEMMA WireStep == TypeOK /\ WireAhead /\ [Next]_vars => WireAhead'
<1> SUFFICES ASSUME TypeOK, WireAhead, [Next]_vars, ~Resets PROVE WireAhead'
  BY DEF WireAhead
<1>a. published \in Nat /\ wm \in Nat /\ heard \subseteq Nat /\ wire \in Seq(Frame)
  BY DEF TypeOK
<1>b. /\ DOMAIN wire = 1..Len(wire) /\ Len(wire) \in Nat
      /\ \A i \in DOMAIN wire : wire[i] \in Frame /\ wire[i].seq \in Nat
  BY <1>a, SeqDomain, Fields
<1>c. ASSUME UNCHANGED <<wire, wm, heard>>, putting' = putting \/ putting' = Empty,
             published' \in Nat, published' >= published
      PROVE  WireAhead'
  BY <1>a, <1>b, <1>c DEF WireAhead
<1>d. ASSUME wire' = <<>>, UNCHANGED <<wm, heard, published>>,
             putting' = putting \/ putting' = Empty
      PROVE  WireAhead'
  BY <1>a, <1>d DEF WireAhead
<1> USE DEF venueVars, socketVars, sinkVars
<1>1. CASE VenueSends
  <2> DEFINE f == [seq |-> published + 1, first |-> published + 1, last |-> published + 1]
  <2>1. published' = published + 1 /\ wire' = Append(wire, f)
    BY <1>a, <1>1 DEF VenueSends, FrameSeq
  <2>2. f \in Frame
    BY <1>a, Constructors
  <2>3. f.seq = published + 1 /\ f.first = f.seq /\ f.last = f.seq
    OBVIOUS
  <2> HIDE DEF f
  <2>4. /\ DOMAIN wire' = 1..(Len(wire) + 1)
        /\ wire'[Len(wire) + 1] = f
        /\ \A i \in DOMAIN wire : wire'[i] = wire[i]
    BY <2>1, <2>2, WireAppend
  <2>5. UNCHANGED <<wm, heard, putting>>
    BY <1>1 DEF VenueSends
  <2>6. QED
    BY <1>a, <1>b, <2>1, <2>3, <2>4, <2>5 DEF WireAhead
<1>2. CASE VenueSnapshot
  BY <1>2 DEF VenueSnapshot
<1>4. CASE VenueMisses
  BY <1>a, <1>c, <1>4 DEF VenueMisses
<1>5. CASE VenueOtherFrame
  BY <1>5 DEF VenueOtherFrame
<1>6. CASE Disconnect
  <2>1. PICK n \in 0..Len(wire) : wire' = SubSeq(wire, 1, n)
    BY <1>6 DEF Disconnect
  <2>2. n \in Int /\ n \in Nat /\ \A k \in 1..n : wire[k] \in Frame /\ k \in DOMAIN wire
    BY <1>b, <2>1
  <2>3. /\ wire' \in Seq(Frame) /\ Len(wire') = n
        /\ \A k \in 1..n : wire'[k] = wire[k]
    BY <2>1, <2>2, SubSeqProperties
  <2>4. DOMAIN wire' = 1..n
    BY <2>3, SeqDomain
  <2>5. UNCHANGED <<published, wm, heard, putting>>
    BY <1>6 DEF Disconnect
  <2>6. QED
    BY <1>a, <1>b, <2>2, <2>3, <2>4, <2>5 DEF WireAhead
<1>7. CASE LoopTop
  BY <1>a, <1>c, <1>7 DEF LoopTop
<1>8. CASE Connected
  BY <1>d, <1>8 DEF Connected, HandleReconnect
<1>9. CASE ConnectFails
  BY <1>a, <1>c, <1>9 DEF ConnectFails
<1>10. CASE BackoffEnds
  BY <1>a, <1>c, <1>10 DEF BackoffEnds
<1>11. CASE PumpEnds
  BY <1>a, <1>c, <1>11 DEF PumpEnds
<1>12. CASE CancelPump
  BY <1>d, <1>12 DEF CancelPump
<1>13. CASE HandleMessage
  <2>1. wire # <<>> /\ wire' = Tail(wire) /\ UNCHANGED published
    BY <1>13 DEF HandleMessage
  <2>2. /\ Tail(wire) \in Seq(Frame) /\ Len(Tail(wire)) = Len(wire) - 1
        /\ \A k \in 1..Len(Tail(wire)) : Tail(wire)[k] = wire[k + 1]
    BY <1>a, <2>1, HeadTailProperties
  <2>3. 1 \in DOMAIN wire /\ Head(wire) = wire[1]
    BY <1>a, <1>b, <2>1, EmptySeq
  <2>4. DOMAIN wire' = 1..(Len(wire) - 1)
    BY <2>1, <2>2, SeqDomain
  <2>5. \A k \in DOMAIN wire' : k + 1 \in DOMAIN wire /\ 1 < k + 1 /\ wire'[k] = wire[k + 1]
    BY <1>b, <2>1, <2>2, <2>4
  <2>6. wm' = wire[1].seq /\ heard' = heard \cup {wire[1].seq}
    BY <1>a, <1>b, <1>13, <2>3 DEF HandleMessage, Observe, NewMark, WireAhead
  <2>7. \A k \in DOMAIN wire : 1 < k => wire[1].seq < wire[k].seq
    BY <2>3 DEF WireAhead
  <2>8. \A k \in DOMAIN wire' : /\ wire'[k].first = wire'[k].seq
                                /\ wire'[k].last = wire'[k].seq
                                /\ wm' < wire'[k].seq /\ wire'[k].seq <= published'
    BY <2>1, <2>5, <2>6, <2>7 DEF WireAhead
  <2>9. \A i, j \in DOMAIN wire' : i < j => wire'[i].seq < wire'[j].seq
    BY <2>4, <2>5, <1>b DEF WireAhead
  <2>10. wm' <= published' /\ \A b \in heard' : 0 < b /\ b <= wm'
    <3>1. wire[1].seq \in Nat /\ wm < wire[1].seq /\ wire[1].seq <= published
      BY <1>b, <2>3 DEF WireAhead
    <3>2. \A b \in heard : b \in Nat /\ 0 < b /\ b <= wm
      BY <1>a DEF WireAhead
    <3>3. \A b \in heard' : 0 < b /\ b <= wm'
      BY <1>a, <2>6, <3>1, <3>2
    <3>4. QED
      BY <2>1, <2>6, <3>1, <3>3
  <2>11. putting' # Empty => putting'.first = putting'.last
    <3>1. wire[1].first = wire[1].seq /\ wire[1].last = wire[1].seq
      BY <2>3 DEF WireAhead
    <3>2. wire[1].seq \in Nat /\ 0 < wire[1].seq /\ Put(wire[1].seq, wire[1].seq)
      BY <1>b, <1>13, <2>3, <3>1, Fields DEF HandleMessage
    <3>3. putting' = Empty \/ putting' = [first |-> wire[1].seq, last |-> wire[1].seq]
      BY <3>2, PutOne
    <3>4. QED
      BY <3>3
  <2>12. QED
    BY <2>8, <2>9, <2>10, <2>11 DEF WireAhead
<1>14. CASE PumpResumes
  <2>1. putting.first = putting.last /\ Put(putting.first, putting.last) /\ Room
    BY <1>14 DEF PumpResumes, WireAhead
  <2>2. putting.first \in Nat /\ 0 < putting.first
    BY <1>14, Fields DEF PumpResumes, TypeOK
  <2>3. putting' = Empty
    BY <2>1, <2>2, PutOne
  <2>4. QED
    BY <1>a, <1>c, <1>14, <2>3 DEF PumpResumes
<1>15. CASE \E i \in DOMAIN repairs : RepairFetched(i)
  BY <1>a, <1>c, <1>15 DEF RepairFetched
<1>16. CASE \E i \in DOMAIN repairs : RepairFails(i)
  BY <1>a, <1>c, <1>16 DEF RepairFails
<1>17. CASE \E i \in DOMAIN repairs : RepairPuts(i)
  BY <1>a, <1>c, <1>17 DEF RepairPuts
<1>18. CASE DrainTrade
  BY <1>a, <1>c, <1>18 DEF DrainTrade
<1>19. CASE DrainRaises
  BY <1>a, <1>c, <1>19 DEF DrainRaises
<1>20. CASE DrainExits
  BY <1>a, <1>c, <1>20 DEF DrainExits
<1>21. CASE Stop
  BY <1>a, <1>c, <1>21 DEF Stop
<1>22. CASE RunReturns
  BY <1>a, <1>c, <1>22 DEF RunReturns
<1>23. CASE UNCHANGED vars
  BY <1>a, <1>c, <1>23 DEF vars
<1>24. QED
  BY <1>1, <1>2, <1>4, <1>5, <1>6, <1>7, <1>8, <1>9, <1>10, <1>11, <1>12, <1>13,
     <1>14, <1>15, <1>16, <1>17, <1>18, <1>19, <1>20, <1>21, <1>22, <1>23, NextCases

-----------------------------------------------------------------------------
\* What the blocked pump puts when it runs again.
LEMMA ResumeKeeps ==
  ASSUME TypeOK, PumpResumes
  PROVE  /\ Ids(queue) \subseteq Ids(queue')
         /\ \A t \in Carried(putting) : t \in Ids(queue') \/ t \in Carried(putting')
<1>1. /\ putting.first \in Nat /\ putting.last \in Nat
      /\ 0 < putting.first /\ putting.first <= putting.last
  BY Fields DEF TypeOK, PumpResumes
<1>2. Put(putting.first, putting.last)
  BY DEF PumpResumes
<1>3. QED
  BY <1>1, <1>2, PutKeeps DEF Carried

\* A step that touches no place a trade can be in keeps every trade accounted for.
LEMMA AccountedFrame ==
  ASSUME NEW t, Accounted(t),
         UNCHANGED <<putting, queue, produced, repairs, cancelled, raised>>
  PROVE  Accounted(t)'
BY DEF Accounted, Located, UnderRepair, RepairFailed, PastBatch

\* Replacing one repair task by a later state of itself keeps what is said of
\* the other tasks and of the gap.
LEMMA RepairReplaced ==
  ASSUME TypeOK, NEW i \in DOMAIN repairs, NEW q \in Repair, NEW t \in Nat,
         repairs' = [repairs EXCEPT ![i] = q],
         q.last = repairs[i].last, q.next = repairs[i].next, repairs[i].st # "failed"
  PROVE  /\ i \in DOMAIN repairs' /\ repairs'[i] = q
         /\ RepairFailed(t) => RepairFailed(t)'
         /\ PastBatch(t) => PastBatch(t)'
         /\ UnderRepair(t) =>
              \/ UnderRepair(t)'
              \/ /\ InGap(repairs[i], t)
                 /\ \/ repairs[i].st = "fetching"
                    \/ /\ repairs[i].st = "putting"
                       /\ repairs[i].at <= t /\ t <= repairs[i].upto
<1>1. repairs \in Seq(Repair) /\ i \in 1..Len(repairs)
  BY SeqDomain DEF TypeOK
<1>2. /\ DOMAIN repairs' = DOMAIN repairs /\ repairs'[i] = q
      /\ \A j \in DOMAIN repairs : j # i => repairs'[j] = repairs[j]
  BY <1>1, ExceptSeq, SeqDomain
<1>3. RepairFailed(t) => RepairFailed(t)'
  BY <1>2 DEF RepairFailed
<1>4. PastBatch(t) => PastBatch(t)'
  BY <1>2 DEF PastBatch, InGap
<1>5. UnderRepair(t) =>
        \/ UnderRepair(t)'
        \/ /\ InGap(repairs[i], t)
           /\ \/ repairs[i].st = "fetching"
              \/ repairs[i].st = "putting" /\ repairs[i].at <= t /\ t <= repairs[i].upto
  BY <1>2 DEF UnderRepair
<1>6. QED
  BY <1>2, <1>3, <1>4, <1>5

\* A new repair task takes nothing from the others.
LEMMA RepairAdded ==
  ASSUME TypeOK, NEW q \in Repair, NEW t \in Nat, repairs' = Append(repairs, q)
  PROVE  /\ RepairFailed(t) => RepairFailed(t)'
         /\ PastBatch(t) => PastBatch(t)'
         /\ UnderRepair(t) => UnderRepair(t)'
         /\ q.st = "fetching" /\ InGap(q, t) => UnderRepair(t)'
<1>1. repairs \in Seq(Repair)
  BY DEF TypeOK
<1>2. /\ DOMAIN repairs' = 1..(Len(repairs) + 1) /\ DOMAIN repairs = 1..Len(repairs)
      /\ Len(repairs) \in Nat
      /\ repairs'[Len(repairs) + 1] = q
      /\ \A j \in DOMAIN repairs : repairs'[j] = repairs[j]
  BY <1>1, AppendProperties, SeqDomain
<1>3. \A j \in DOMAIN repairs : j \in DOMAIN repairs'
  BY <1>2
<1>4. Len(repairs) + 1 \in DOMAIN repairs'
  BY <1>2
<1>5. RepairFailed(t) => RepairFailed(t)'
  BY <1>2, <1>3 DEF RepairFailed
<1>6. PastBatch(t) => PastBatch(t)'
  BY <1>2, <1>3 DEF PastBatch
<1>7. UnderRepair(t) => UnderRepair(t)'
  BY <1>2, <1>3 DEF UnderRepair
<1>8. q.st = "fetching" /\ InGap(q, t) => UnderRepair(t)'
  BY <1>2, <1>4 DEF UnderRepair
<1>9. QED
  BY <1>5, <1>6, <1>7, <1>8

\* Handling one frame keeps what was accounted for, and accounts for every
\* trade the watermark passes.
LEMMA HandleAccounts ==
  ASSUME TypeOK, WireAhead, ~Resets, HandleMessage, NEW t \in Nat, t <= wm',
         \E b \in heard' : b <= t,
         t <= wm /\ (\E b \in heard : b <= t) => Accounted(t)
  PROVE  Accounted(t)'
<1> DEFINE row == Head(wire)
           task == [st |-> "fetching", last |-> wm, next |-> row.seq, conn |-> conns,
                    at |-> 0, upto |-> 0]
<1>1. /\ wire \in Seq(Frame) /\ queue \in Seq(Trade) /\ produced \in Seq(Trade)
      /\ wm \in Nat /\ conns \in Nat /\ heard \subseteq Nat /\ putting = Empty /\ wire # <<>>
  BY DEF TypeOK, HandleMessage
<1>2. 1 \in DOMAIN wire /\ row = wire[1] /\ row \in Frame
  BY <1>1, HeadTailProperties, SeqDomain, EmptySeq
<1>3. row.seq \in Nat /\ row.first = row.seq /\ row.last = row.seq /\ wm < row.seq /\ 0 < row.seq
  BY <1>2, Fields DEF WireAhead
<1>4. wm' = row.seq /\ heard' = heard \cup {row.seq}
  BY <1>1, <1>3 DEF HandleMessage, Observe, NewMark
<1>5. Put(row.seq, row.seq)
  BY <1>3 DEF HandleMessage
<1>6. task \in Repair
  BY <1>1, <1>3, Constructors
<1>7. repairs' = IF IsGap(row.seq) THEN Append(repairs, task) ELSE repairs
  BY DEF HandleMessage, Observe
<1>8. UNCHANGED <<produced, cancelled, raised>>
  BY DEF HandleMessage, sinkVars
<1>10. task.st = "fetching" /\ task.last = wm /\ task.next = row.seq
  OBVIOUS
<1> HIDE DEF row, task
<1>11. /\ Ids(queue) \subseteq Ids(queue')
       /\ row.seq \in Ids(queue') \/ row.seq \in Carried(putting')
  BY <1>3, <1>5, PutKeeps
<1>12. Accounted(t) => Accounted(t)'
  <2> SUFFICES ASSUME Accounted(t) PROVE Accounted(t)'
    OBVIOUS
  <2>1. CASE Located(t)
    BY <1>1, <1>8, <1>11, <2>1, Fields DEF Located, Accounted
  <2>2. CASE UnderRepair(t) \/ RepairFailed(t) \/ PastBatch(t)
    <3>1. CASE IsGap(row.seq)
      BY <1>6, <1>7, <2>2, <3>1, RepairAdded DEF Accounted
    <3>2. CASE ~IsGap(row.seq)
      BY <1>7, <2>2, <3>2 DEF Accounted, UnderRepair, RepairFailed, PastBatch
    <3>3. QED
      BY <3>1, <3>2
  <2>3. CASE t \in cancelled \/ t \in raised
    BY <1>8, <2>3 DEF Accounted
  <2>4. QED
    BY <2>1, <2>2, <2>3 DEF Accounted
<1>13. CASE t = row.seq
  BY <1>3, <1>11, <1>13 DEF Accounted, Located
<1>14. CASE t # row.seq
  <2>1. t < row.seq /\ \E b \in heard : b <= t
    BY <1>3, <1>4, <1>14
  <2>2. PICK b \in heard : b <= t
    BY <2>1
  <2>3. b \in Nat /\ 0 < b /\ b <= wm
    BY <1>1, <2>2 DEF WireAhead
  <2>4. CASE t <= wm
    BY <1>12, <2>2, <2>3, <2>4
  <2>5. CASE t > wm
    <3>1. IsGap(row.seq) /\ InGap(task, t)
      BY <1>1, <1>3, <1>10, <2>1, <2>3, <2>5 DEF IsGap, InGap, NoMark
    <3>2. repairs' = Append(repairs, task)
      BY <1>7, <3>1
    <3>3. UnderRepair(t)'
      BY <1>6, <1>10, <3>1, <3>2, RepairAdded
    <3>4. QED
      BY <3>3 DEF Accounted
  <2>6. QED
    BY <1>1, <2>4, <2>5
<1>15. QED
  BY <1>13, <1>14

\* The fetch of a Binance repair covers its gap up to the batch limit.
LEMMA FetchAccounts ==
  ASSUME TypeOK, ~Resets, NEW i \in DOMAIN repairs, RepairFetched(i), NEW t \in Nat,
         Accounted(t)
  PROVE  Accounted(t)'
<1> DEFINE r == repairs[i]
           q == Fetched(r)
<1>1. r \in Repair /\ q \in Repair
  BY SeqDomain, RepairUpdates DEF TypeOK
<1>2. r.last \in Nat /\ r.next \in Nat /\ RepairBatch \in Nat \ {0}
  BY <1>1, Fields, ConstantsAssumption
<1>3. /\ q.last = r.last /\ q.next = r.next /\ q.at = r.last + 1
      /\ q.upto = Lesser(r.last + RepairBatch, r.next - 1)
      /\ q.st = IF q.at > q.upto THEN "done" ELSE "putting"
  BY DEF Fetched, Moved, FirstRow, LastRow
<1>4. /\ repairs' = [repairs EXCEPT ![i] = q] /\ r.st = "fetching"
      /\ UNCHANGED <<putting, queue, produced, cancelled, raised>>
  BY DEF RepairFetched, sinkVars
<1> HIDE DEF q
<1>5. /\ i \in DOMAIN repairs' /\ repairs'[i] = q
      /\ RepairFailed(t) => RepairFailed(t)'
      /\ PastBatch(t) => PastBatch(t)'
      /\ UnderRepair(t) => UnderRepair(t)' \/ InGap(r, t)
  BY <1>1, <1>3, <1>4, RepairReplaced
<1>6. CASE InGap(r, t)
  <2>1. InGap(q, t) /\ q.at <= t
    BY <1>2, <1>3, <1>6 DEF InGap
  <2>2. CASE t > r.last + RepairBatch
    BY <1>3, <1>5, <2>1, <2>2 DEF PastBatch, Accounted
  <2>3. CASE t <= r.last + RepairBatch
    <3>1. t <= q.upto /\ q.st = "putting"
      BY <1>2, <1>3, <1>6, <2>1, <2>3 DEF Lesser, InGap
    <3>2. UnderRepair(t)'
      BY <1>5, <2>1, <3>1 DEF UnderRepair
    <3>3. QED
      BY <3>2 DEF Accounted
  <2>4. QED
    BY <1>2, <2>2, <2>3
<1>7. CASE ~InGap(r, t)
  BY <1>4, <1>5, <1>7 DEF Accounted, Located
<1>8. QED
  BY <1>6, <1>7

\* A put moves one trade of the task to the queue.
LEMMA PutAccounts ==
  ASSUME TypeOK, NEW i \in DOMAIN repairs, RepairPuts(i), NEW t \in Nat, Accounted(t)
  PROVE  Accounted(t)'
<1> DEFINE r == repairs[i]
           q == AfterPut(r)
<1>1. r \in Repair /\ q \in Repair /\ queue \in Seq(Trade)
  BY SeqDomain, RepairUpdates DEF TypeOK
<1>2. r.at \in Nat /\ r.upto \in Int
  BY <1>1, Fields
<1>3. /\ q.last = r.last /\ q.next = r.next /\ q.at = r.at + 1 /\ q.upto = r.upto
      /\ q.st = IF r.at = r.upto THEN "done" ELSE "putting"
  BY DEF AfterPut, Moved
<1>4. /\ repairs' = [repairs EXCEPT ![i] = q] /\ r.st = "putting"
      /\ queue' = Append(queue, Repaired(r.at))
      /\ UNCHANGED <<putting, produced, cancelled, raised>>
  BY DEF RepairPuts, sinkVars
<1>5. Ids(queue') = Ids(queue) \cup {r.at}
  <2>1. Repaired(r.at) \in Trade /\ Repaired(r.at).id = r.at
    BY <1>2, Constructors DEF Repaired
  <2>2. QED
    BY <1>1, <1>4, <2>1, IdsAppend
<1> HIDE DEF q
<1>6. /\ i \in DOMAIN repairs' /\ repairs'[i] = q
      /\ RepairFailed(t) => RepairFailed(t)'
      /\ PastBatch(t) => PastBatch(t)'
      /\ UnderRepair(t) => UnderRepair(t)' \/ (InGap(r, t) /\ r.at <= t /\ t <= r.upto)
  BY <1>1, <1>3, <1>4, RepairReplaced
<1>7. CASE InGap(r, t) /\ r.at <= t /\ t <= r.upto
  <2>1. CASE t = r.at
    BY <1>5, <2>1 DEF Accounted, Located
  <2>2. CASE t # r.at
    <3>1. q.st = "putting" /\ q.at <= t /\ t <= q.upto /\ InGap(q, t)
      BY <1>2, <1>3, <1>7, <2>2 DEF InGap
    <3>2. UnderRepair(t)'
      BY <1>6, <3>1 DEF UnderRepair
    <3>3. QED
      BY <3>2 DEF Accounted
  <2>3. QED
    BY <2>1, <2>2
<1>8. CASE ~(InGap(r, t) /\ r.at <= t /\ t <= r.upto)
  BY <1>4, <1>5, <1>6, <1>8 DEF Accounted, Located
<1>9. QED
  BY <1>7, <1>8

\* A failed request leaves the gap to the failed task.
LEMMA FailAccounts ==
  ASSUME TypeOK, NEW i \in DOMAIN repairs, RepairFails(i), NEW t \in Nat, Accounted(t)
  PROVE  Accounted(t)'
<1> DEFINE r == repairs[i]
           q == [r EXCEPT !.st = "failed"]
<1>1. r \in Repair /\ q \in Repair
  BY SeqDomain, RepairUpdates DEF TypeOK
<1>2. q.last = r.last /\ q.next = r.next /\ q.st = "failed"
  BY <1>1 DEF Repair
<1>3. /\ repairs' = [repairs EXCEPT ![i] = q] /\ r.st = "fetching"
      /\ UNCHANGED <<putting, queue, produced, cancelled, raised>>
  BY DEF RepairFails, sinkVars
<1> HIDE DEF q
<1>4. /\ i \in DOMAIN repairs' /\ repairs'[i] = q
      /\ RepairFailed(t) => RepairFailed(t)'
      /\ PastBatch(t) => PastBatch(t)'
      /\ UnderRepair(t) => UnderRepair(t)' \/ InGap(r, t)
  BY <1>1, <1>2, <1>3, RepairReplaced
<1>5. CASE InGap(r, t)
  BY <1>2, <1>4, <1>5 DEF InGap, RepairFailed, Accounted
<1>6. CASE ~InGap(r, t)
  BY <1>3, <1>4, <1>6 DEF Accounted, Located
<1>7. QED
  BY <1>5, <1>6

\* The drain moves the head of the queue to the sink, or dies with it in hand.
LEMMA DrainAccounts ==
  ASSUME TypeOK, DrainTrade \/ DrainRaises, NEW t \in Nat, Accounted(t)
  PROVE  Accounted(t)'
<1>1. queue \in Seq(Trade) /\ produced \in Seq(Trade) /\ queue # <<>>
  BY DEF TypeOK, DrainTrade, DrainRaises
<1>2. Head(queue) \in Trade /\ Ids(queue) = {Head(queue).id} \cup Ids(Tail(queue))
  BY <1>1, HeadTailProperties, IdsHeadTail
<1>3. queue' = Tail(queue) /\ UNCHANGED <<putting, repairs, cancelled>>
  BY DEF DrainTrade, DrainRaises
<1>4. /\ Ids(produced) \subseteq Ids(produced') /\ raised \subseteq raised'
      /\ Head(queue).id \in Ids(produced') \/ Head(queue).id \in raised'
  <2>1. CASE DrainTrade
    BY <1>1, <1>2, <2>1, IdsAppend DEF DrainTrade
  <2>2. CASE DrainRaises
    BY <2>2 DEF DrainRaises
  <2>3. QED
    BY <2>1, <2>2
<1>5. CASE Located(t)
  BY <1>2, <1>3, <1>4, <1>5 DEF Located, Accounted
<1>6. CASE ~Located(t)
  BY <1>3, <1>4, <1>6 DEF Accounted, UnderRepair, RepairFailed, PastBatch
<1>7. QED
  BY <1>5, <1>6

\* The step of the accounting invariant, one case per action.
LEMMA AccountedStep ==
  TypeOK /\ WireAhead /\ AccountedFor /\ [Next]_vars => AccountedFor'
<1> SUFFICES ASSUME TypeOK, WireAhead, AccountedFor, [Next]_vars, ~Resets,
                    NEW t \in 1..wm', InRange(t)'
             PROVE  Accounted(t)'
  BY DEF AccountedFor
<1>a. t \in Nat /\ t # 0 /\ t <= wm' /\ \E b \in heard' : b <= t
  <2>1. t <= wm' /\ \E b \in heard' : b <= t
    BY DEF InRange
  <2>2. wm' \in Nat
    BY TypeStep DEF TypeOK
  <2>3. QED
    BY <2>1, <2>2
<1>b. t <= wm /\ (\E b \in heard : b <= t) => Accounted(t)
  <2> SUFFICES ASSUME t <= wm, \E b \in heard : b <= t PROVE Accounted(t)
    OBVIOUS
  <2>1. t \in 1..wm
    BY <1>a DEF TypeOK
  <2>2. InRange(t)
    BY DEF InRange
  <2>3. QED
    BY <2>1, <2>2 DEF AccountedFor
<1>c. ASSUME UNCHANGED <<wm, heard>> PROVE Accounted(t)
  BY <1>a, <1>b, <1>c
<1>d. ASSUME UNCHANGED <<wm, heard, putting, queue, produced, repairs, cancelled, raised>>
      PROVE  Accounted(t)'
  BY <1>c, <1>d, AccountedFrame
<1> USE DEF venueVars, socketVars, sinkVars
<1>1. CASE VenueSends
  BY <1>d, <1>1 DEF VenueSends
<1>2. CASE VenueSnapshot
  BY <1>d, <1>2 DEF VenueSnapshot
<1>4. CASE VenueMisses
  BY <1>d, <1>4 DEF VenueMisses
<1>5. CASE VenueOtherFrame
  BY <1>d, <1>5 DEF VenueOtherFrame
<1>6. CASE Disconnect
  BY <1>d, <1>6 DEF Disconnect
<1>7. CASE LoopTop
  BY <1>d, <1>7 DEF LoopTop
<1>8. CASE Connected
  BY <1>d, <1>8 DEF Connected, HandleReconnect
<1>9. CASE ConnectFails
  BY <1>d, <1>9 DEF ConnectFails
<1>10. CASE BackoffEnds
  BY <1>d, <1>10 DEF BackoffEnds
<1>11. CASE PumpEnds
  BY <1>d, <1>11 DEF PumpEnds
<1>12. CASE CancelPump
  <2>1. Accounted(t)
    BY <1>c, <1>12 DEF CancelPump
  <2>2. /\ UNCHANGED <<queue, produced, repairs, raised>>
        /\ cancelled \subseteq cancelled'
        /\ t \in Carried(putting) => t \in cancelled'
    BY <1>12 DEF CancelPump
  <2>3. QED
    BY <2>1, <2>2 DEF Accounted, Located, UnderRepair, RepairFailed, PastBatch
<1>13. CASE HandleMessage
  BY <1>a, <1>b, <1>13, HandleAccounts
<1>14. CASE PumpResumes
  <2>1. Accounted(t)
    BY <1>c, <1>14 DEF PumpResumes
  <2>2. /\ Ids(queue) \subseteq Ids(queue')
        /\ \A u \in Carried(putting) : u \in Ids(queue') \/ u \in Carried(putting')
    BY <1>14, ResumeKeeps
  <2>3. UNCHANGED <<produced, repairs, cancelled, raised>>
    BY <1>14 DEF PumpResumes
  <2>4. QED
    BY <2>1, <2>2, <2>3 DEF Accounted, Located, UnderRepair, RepairFailed, PastBatch
<1>15. CASE \E i \in DOMAIN repairs : RepairFetched(i)
  BY <1>a, <1>c, <1>15, FetchAccounts DEF RepairFetched
<1>16. CASE \E i \in DOMAIN repairs : RepairFails(i)
  BY <1>a, <1>c, <1>16, FailAccounts DEF RepairFails
<1>17. CASE \E i \in DOMAIN repairs : RepairPuts(i)
  BY <1>a, <1>c, <1>17, PutAccounts DEF RepairPuts
<1>18. CASE DrainTrade
  BY <1>a, <1>c, <1>18, DrainAccounts DEF DrainTrade
<1>19. CASE DrainRaises
  BY <1>a, <1>c, <1>19, DrainAccounts DEF DrainRaises
<1>20. CASE DrainExits
  BY <1>d, <1>20 DEF DrainExits
<1>21. CASE Stop
  BY <1>d, <1>21 DEF Stop
<1>22. CASE RunReturns
  BY <1>d, <1>22 DEF RunReturns
<1>23. CASE UNCHANGED vars
  BY <1>d, <1>23 DEF vars
<1>24. QED
  BY <1>1, <1>2, <1>4, <1>5, <1>6, <1>7, <1>8, <1>9, <1>10, <1>11, <1>12, <1>13,
     <1>14, <1>15, <1>16, <1>17, <1>18, <1>19, <1>20, <1>21, <1>22, <1>23, NextCases

\* On a venue whose sequence is the trade id, every trade up to the watermark is
\* in the pump's hand, queued, produced, being repaired, or lost in one of the
\* four ways Accounted names; the watermark stays behind the unread frames.
THEOREM TradesAccounted == Spec => [](WireAhead /\ AccountedFor)
<1>1. Init => WireAhead /\ AccountedFor
  <2> SUFFICES ASSUME Init PROVE WireAhead /\ AccountedFor
    OBVIOUS
  <2>1. wm = 0 /\ heard = {} /\ published = 0 /\ DOMAIN wire = {} /\ putting = Empty
    BY EmptySeq DEF Init, NoMark
  <2>2. QED
    BY <2>1 DEF WireAhead, AccountedFor, InRange
<1>2. TypeOK /\ WireAhead /\ AccountedFor /\ [Next]_vars => (WireAhead /\ AccountedFor)'
  BY WireStep, AccountedStep
<1>3. QED
  BY <1>1, <1>2, TypeCorrect, PTL DEF Spec
-----------------------------------------------------------------------------
\* Every way the frames on the wire change leaves a wire whose frames are among
\* the old ones, except the two in which the venue sends.
LEMMA WireShrinks ==
  ASSUME TypeOK,
         \/ wire' = wire \/ wire' = <<>> \/ (wire # <<>> /\ wire' = Tail(wire))
         \/ \E n \in 0..Len(wire) : wire' = SubSeq(wire, 1, n)
  PROVE  \E k \in {0, 1} :
           /\ \A i \in DOMAIN wire' : i + k \in DOMAIN wire /\ wire'[i] = wire[i + k]
           /\ DOMAIN wire' \subseteq Nat
<1>1. wire \in Seq(Frame)
  BY DEF TypeOK
<1>b. /\ DOMAIN wire = 1..Len(wire) /\ Len(wire) \in Nat
      /\ \A i \in DOMAIN wire : wire[i] \in Frame
  BY <1>1, SeqDomain
<1>2. CASE wire' = wire
  <2>1. \A i \in DOMAIN wire' : i + 0 \in DOMAIN wire /\ wire'[i] = wire[i + 0]
    BY <1>b, <1>2
  <2>2. QED
    BY <1>b, <1>2, <2>1
<1>3. CASE wire' = <<>>
  <2>1. DOMAIN wire' = {}
    BY <1>3
  <2>2. QED
    BY <2>1
<1>4. CASE wire # <<>> /\ wire' = Tail(wire)
  <2>1. /\ Tail(wire) \in Seq(Frame) /\ Len(Tail(wire)) = Len(wire) - 1
        /\ \A i \in 1..Len(Tail(wire)) : Tail(wire)[i] = wire[i + 1]
    BY <1>1, <1>4, HeadTailProperties
  <2>2. DOMAIN wire' = 1..(Len(wire) - 1)
    BY <1>4, <2>1, SeqDomain
  <2>3. \A i \in DOMAIN wire' : i + 1 \in DOMAIN wire /\ wire'[i] = wire[i + 1]
    <3>1. \A i \in 1..(Len(wire) - 1) : i + 1 \in DOMAIN wire
      BY <1>b
    <3>2. QED
      BY <1>4, <2>1, <2>2, <3>1
  <2>4. DOMAIN wire' \subseteq Nat
    BY <2>2
  <2>5. QED
    BY <2>3, <2>4
<1>5. CASE \E n \in 0..Len(wire) : wire' = SubSeq(wire, 1, n)
  <2>1. PICK n \in 0..Len(wire) : wire' = SubSeq(wire, 1, n)
    BY <1>5
  <2>2. n \in Int /\ n \in Nat /\ \A i \in 1..n : wire[i] \in Frame /\ i \in DOMAIN wire
    <3>1. n \in Nat /\ n <= Len(wire)
      BY <1>b
    <3>2. \A i \in 1..n : i \in DOMAIN wire
      BY <1>b, <3>1
    <3>3. QED
      BY <1>b, <3>1, <3>2
  <2>3. /\ wire' \in Seq(Frame) /\ Len(wire') = n
        /\ \A i \in 1..n : wire'[i] = wire[i]
    BY <2>1, <2>2, SubSeqProperties
  <2>4. DOMAIN wire' = 1..n
    BY <2>3, SeqDomain
  <2>5. \A i \in DOMAIN wire' : i + 0 \in DOMAIN wire /\ wire'[i] = wire[i + 0]
    BY <2>2, <2>3, <2>4
  <2>6. DOMAIN wire' \subseteq Nat
    BY <2>4
  <2>7. QED
    BY <2>5, <2>6
<1>6. QED
  BY <1>2, <1>3, <1>4, <1>5

\* The step of the invariant about what the pump took off the wire.
LEMMA ReceivedStep == TypeOK /\ ReceivedKept /\ [Next]_vars => ReceivedKept'
<1> SUFFICES ASSUME TypeOK, ReceivedKept, [Next]_vars PROVE ReceivedKept'
  OBVIOUS
<1>a. /\ wire \in Seq(Frame) /\ queue \in Seq(Trade) /\ produced \in Seq(Trade)
      /\ putting \in Hand
  BY DEF TypeOK
<1>b. ASSUME UNCHANGED <<putting, queue, produced, cancelled, raised, received>>
      PROVE  ReceivedKept'
  BY <1>b DEF ReceivedKept, Located, Ids
<1>e. ASSUME DrainTrade \/ DrainRaises PROVE ReceivedKept'
  <2>1. queue # <<>> /\ queue' = Tail(queue) /\ UNCHANGED <<putting, cancelled, received>>
    BY <1>e DEF DrainTrade, DrainRaises
  <2>2. Head(queue) \in Trade /\ Ids(queue) = {Head(queue).id} \cup Ids(Tail(queue))
    BY <1>a, <2>1, HeadTailProperties, IdsHeadTail
  <2>3. /\ Ids(produced) \subseteq Ids(produced') /\ raised \subseteq raised'
        /\ Head(queue).id \in Ids(produced') \/ Head(queue).id \in raised'
    <3>1. CASE DrainTrade
      BY <1>a, <2>2, <3>1, IdsAppend DEF DrainTrade
    <3>2. CASE DrainRaises
      BY <3>2 DEF DrainRaises
    <3>3. QED
      BY <1>e, <3>1, <3>2
  <2>4. QED
    BY <2>1, <2>2, <2>3 DEF ReceivedKept, Located
<1> USE DEF venueVars, socketVars, sinkVars
<1>1. CASE VenueSends
  BY <1>1, <1>b DEF VenueSends
<1>2. CASE VenueSnapshot
  BY <1>2, <1>b DEF VenueSnapshot
<1>4. CASE VenueMisses
  BY <1>4, <1>b DEF VenueMisses
<1>5. CASE VenueOtherFrame
  BY <1>5, <1>b DEF VenueOtherFrame
<1>6. CASE Disconnect
  BY <1>6, <1>b DEF Disconnect
<1>7. CASE LoopTop
  BY <1>7, <1>b DEF LoopTop
<1>8. CASE Connected
  BY <1>8, <1>b DEF Connected
<1>9. CASE ConnectFails
  BY <1>9, <1>b DEF ConnectFails
<1>10. CASE BackoffEnds
  BY <1>10, <1>b DEF BackoffEnds
<1>11. CASE PumpEnds
  BY <1>11, <1>b DEF PumpEnds
<1>12. CASE CancelPump
  <2>1. /\ UNCHANGED <<queue, produced, raised, received>>
        /\ cancelled' = cancelled \cup Carried(putting)
    BY <1>12 DEF CancelPump
  <2>2. QED
    BY <2>1 DEF ReceivedKept, Located
<1>13. CASE HandleMessage
  <2> DEFINE f == Head(wire)
  <2>1. /\ putting = Empty /\ wire # <<>>
        /\ received' = received \cup Carried(f)
        /\ Put(f.first, f.last)
        /\ UNCHANGED <<produced, cancelled, raised>>
    BY <1>13 DEF HandleMessage
  <2>2. f \in Frame
    BY <1>a, <2>1, HeadTailProperties
  <2>3. f.first \in Nat /\ f.last \in Nat /\ 0 < f.first /\ f.first <= f.last
    BY <2>2, Fields
  <2> HIDE DEF f
  <2>4. /\ Ids(queue) \subseteq Ids(queue')
        /\ \A t \in Carried(f) : t \in Ids(queue') \/ t \in Carried(putting')
    BY <2>1, <2>3, PutKeeps DEF Carried
  <2>5. QED
    BY <2>1, <2>4, Fields DEF ReceivedKept, Located
<1>14. CASE PumpResumes
  <2>1. /\ Ids(queue) \subseteq Ids(queue')
        /\ \A t \in Carried(putting) : t \in Ids(queue') \/ t \in Carried(putting')
    BY <1>14, ResumeKeeps
  <2>2. UNCHANGED <<produced, cancelled, raised, received>>
    BY <1>14 DEF PumpResumes
  <2>3. QED
    BY <2>1, <2>2 DEF ReceivedKept, Located
<1>15. CASE \E i \in DOMAIN repairs : RepairFetched(i)
  BY <1>15, <1>b DEF RepairFetched
<1>16. CASE \E i \in DOMAIN repairs : RepairFails(i)
  BY <1>16, <1>b DEF RepairFails
<1>17. CASE \E i \in DOMAIN repairs : RepairPuts(i)
  <2>1. PICK i \in DOMAIN repairs : RepairPuts(i)
    BY <1>17
  <2>2. Repaired(repairs[i].at) \in Trade
    BY <2>1, SeqDomain, Fields, Constructors DEF TypeOK
  <2>3. Ids(queue) \subseteq Ids(queue')
    BY <1>a, <2>1, <2>2, IdsAppend DEF RepairPuts
  <2>4. UNCHANGED <<putting, produced, cancelled, raised, received>>
    BY <2>1 DEF RepairPuts
  <2>5. QED
    BY <2>3, <2>4 DEF ReceivedKept, Located
<1>18. CASE DrainTrade
  BY <1>18, <1>e
<1>19. CASE DrainRaises
  BY <1>19, <1>e
<1>20. CASE DrainExits
  BY <1>20, <1>b DEF DrainExits
<1>21. CASE Stop
  BY <1>21, <1>b DEF Stop
<1>22. CASE RunReturns
  BY <1>22, <1>b DEF RunReturns
<1>23. CASE UNCHANGED vars
  BY <1>23, <1>b DEF vars
<1>24. QED
  BY <1>1, <1>2, <1>4, <1>5, <1>6, <1>7, <1>8, <1>9, <1>10, <1>11, <1>12, <1>13,
     <1>14, <1>15, <1>16, <1>17, <1>18, <1>19, <1>20, <1>21, <1>22, <1>23, NextCases

\* On either venue every trade of a frame the pump took off the wire is in its
\* hand, queued or produced, unless the handling of its frame was cancelled with
\* the session or the sink raised over it (runner.py handle_message and drain).
THEOREM ReceivedNeverLost == Spec => []ReceivedKept
<1>1. Init => ReceivedKept
  BY DEF Init, ReceivedKept
<1>2. QED
  BY <1>1, ReceivedStep, TypeCorrect, PTL DEF Spec

-----------------------------------------------------------------------------
\* The newest number the venue has used, on this connection where it restarts.
Newest == IF Resets THEN connSeq ELSE published

\* Numbers only move forward: the observed ones, then the watermark, then the
\* frames that wait, then the venue; before the first connection there is nothing.
WireOrdered ==
  /\ wm <= Newest
  /\ \A b \in heard : 0 < b /\ b <= wm
  /\ \A i \in DOMAIN wire :
       0 < wire[i].seq /\ wm <= wire[i].seq /\ wire[i].seq <= Newest
  /\ \A i, j \in DOMAIN wire : i < j => wire[i].seq <= wire[j].seq
  /\ conns = 0 => wm = NoMark /\ link = "none" /\ wire = <<>>

\* A frame the venue sends under its newest number keeps the order.
LEMMA OrderedAppend ==
  ASSUME TypeOK, WireOrdered, link = "up", UNCHANGED <<wm, heard, conns, link>>,
         NEW row \in Frame, wire' = Append(wire, row), 0 < row.seq, row.seq = Newest',
         Newest' \in Nat, Newest <= Newest'
  PROVE  WireOrdered'
<1>1. /\ DOMAIN wire' = 1..(Len(wire) + 1) /\ DOMAIN wire = 1..Len(wire)
      /\ Len(wire) \in Nat
      /\ wire'[Len(wire) + 1] = row
      /\ \A i \in DOMAIN wire : wire'[i] = wire[i]
  BY WireAppend
<1>2. /\ wm \in Nat /\ Newest \in Nat /\ row.seq \in Nat
      /\ \A i \in DOMAIN wire : wire[i].seq \in Nat
  BY SeqDomain, Fields DEF TypeOK, Newest
<1>3. conns' # 0
  BY DEF WireOrdered
<1> HIDE DEF Newest
<1>4. \A i \in DOMAIN wire' : i \in DOMAIN wire \/ i = Len(wire) + 1
  BY <1>1
<1>5. \A i \in DOMAIN wire' :
        0 < wire'[i].seq /\ wm' <= wire'[i].seq /\ wire'[i].seq <= Newest'
  <2> SUFFICES ASSUME NEW i \in DOMAIN wire'
               PROVE  0 < wire'[i].seq /\ wm' <= wire'[i].seq /\ wire'[i].seq <= Newest'
    OBVIOUS
  <2>1. CASE i \in DOMAIN wire
    BY <1>1, <1>2, <2>1 DEF WireOrdered
  <2>2. CASE i = Len(wire) + 1
    BY <1>1, <1>2, <2>2 DEF WireOrdered
  <2>3. QED
    BY <1>4, <2>1, <2>2
<1>6. \A i, j \in DOMAIN wire' : i < j => wire'[i].seq <= wire'[j].seq
  <2> SUFFICES ASSUME NEW i \in DOMAIN wire', NEW j \in DOMAIN wire', i < j
               PROVE  wire'[i].seq <= wire'[j].seq
    OBVIOUS
  <2>1. i \in DOMAIN wire
    BY <1>1
  <2>2. CASE j \in DOMAIN wire
    BY <1>1, <2>1, <2>2 DEF WireOrdered
  <2>3. CASE j = Len(wire) + 1
    BY <1>1, <1>2, <2>1, <2>3 DEF WireOrdered
  <2>4. QED
    BY <1>4, <2>2, <2>3
<1>7. wm' <= Newest' /\ \A b \in heard' : 0 < b /\ b <= wm'
  BY <1>2 DEF WireOrdered
<1>8. QED
  BY <1>3, <1>5, <1>6, <1>7 DEF WireOrdered

\* Frames that go, while the numbers stay or move on, keep the order.
LEMMA OrderedShrink ==
  ASSUME TypeOK, WireOrdered, UNCHANGED <<wm, heard, conns>>,
         Newest' \in Nat, Newest <= Newest', link' = link \/ conns # 0,
         wire' = wire \/ wire' = <<>> \/ \E n \in 0..Len(wire) : wire' = SubSeq(wire, 1, n)
  PROVE  WireOrdered'
<1>1. PICK k \in {0, 1} :
        /\ \A i \in DOMAIN wire' : i + k \in DOMAIN wire /\ wire'[i] = wire[i + k]
        /\ DOMAIN wire' \subseteq Nat
  BY WireShrinks
<1>2. /\ wm \in Nat /\ Newest \in Nat /\ wire \in Seq(Frame)
      /\ \A i \in DOMAIN wire : wire[i].seq \in Nat
  BY SeqDomain, Fields DEF TypeOK, Newest
<1>3. conns' = 0 => wm' = NoMark /\ link' = "none" /\ wire' = <<>>
  <2>1. conns = 0 /\ wire = <<>> => wire' = <<>>
    <3>1. wire = <<>> => Len(wire) = 0 /\ SubSeq(wire, 1, 0) = wire
      BY <1>2
    <3>2. wire = <<>> => 0..Len(wire) = {0}
      BY <3>1
    <3>3. QED
      BY <3>1, <3>2
  <2>2. QED
    BY <2>1 DEF WireOrdered
<1> HIDE DEF Newest
<1>4. \A i \in DOMAIN wire' :
        0 < wire'[i].seq /\ wm' <= wire'[i].seq /\ wire'[i].seq <= Newest'
  BY <1>1, <1>2 DEF WireOrdered
<1>5. \A i, j \in DOMAIN wire' : i < j => wire'[i].seq <= wire'[j].seq
  BY <1>1 DEF WireOrdered
<1>6. wm' <= Newest' /\ \A b \in heard' : 0 < b /\ b <= wm'
  BY <1>2 DEF WireOrdered
<1>7. QED
  BY <1>3, <1>4, <1>5, <1>6 DEF WireOrdered

\* What handling the head of an ordered wire does to the tracker.
LEMMA HandleOrdered ==
  ASSUME TypeOK, WireOrdered, HandleMessage
  PROVE  /\ Head(wire) \in Frame /\ Head(wire).seq \in Nat /\ 0 < Head(wire).seq
         /\ wm <= Head(wire).seq /\ wm' = Head(wire).seq
         /\ heard' = heard \cup {Head(wire).seq}
         /\ repairs' = IF IsGap(Head(wire).seq)
                       THEN Append(repairs, [st |-> "fetching", last |-> wm,
                                             next |-> Head(wire).seq, conn |-> conns,
                                             at |-> 0, upto |-> 0])
                       ELSE repairs
         /\ UNCHANGED conns
         /\ WireOrdered'
<1>1. /\ wire # <<>> /\ wire' = Tail(wire) /\ Observe(Head(wire).seq)
      /\ UNCHANGED <<published, connSeq, conns, link>>
  BY DEF HandleMessage, venueVars, socketVars
<1>2. /\ wire \in Seq(Frame) /\ DOMAIN wire = 1..Len(wire) /\ Len(wire) \in Nat /\ wm \in Nat
      /\ \A i \in DOMAIN wire : wire[i].seq \in Nat
  BY SeqDomain, Fields DEF TypeOK
<1>3. Head(wire) \in Frame /\ Head(wire) = wire[1] /\ 1 \in DOMAIN wire
  BY <1>1, <1>2, HeadTailProperties, EmptySeq
<1>4. Head(wire).seq \in Nat /\ 0 < Head(wire).seq /\ wm <= Head(wire).seq
  BY <1>2, <1>3 DEF WireOrdered
<1>5. wm' = Head(wire).seq /\ heard' = heard \cup {Head(wire).seq}
  BY <1>1, <1>2, <1>4 DEF Observe, NewMark
<1>6. /\ Tail(wire) \in Seq(Frame) /\ Len(Tail(wire)) = Len(wire) - 1
      /\ \A i \in 1..Len(Tail(wire)) : Tail(wire)[i] = wire[i + 1]
  BY <1>1, <1>2, HeadTailProperties
<1>7. DOMAIN wire' = 1..(Len(wire) - 1)
  BY <1>1, <1>6, SeqDomain
<1>8. \A i \in 1..(Len(wire) - 1) : i + 1 \in DOMAIN wire /\ 1 < i + 1
  BY <1>2
<1>9. \A i \in DOMAIN wire' : i + 1 \in DOMAIN wire /\ 1 < i + 1 /\ wire'[i] = wire[i + 1]
  BY <1>1, <1>6, <1>7, <1>8
<1>10. Newest' = Newest /\ Newest \in Nat
  BY <1>1 DEF Newest, TypeOK
<1>11. \A i \in DOMAIN wire' :
         0 < wire'[i].seq /\ wm' <= wire'[i].seq /\ wire'[i].seq <= Newest'
  BY <1>3, <1>5, <1>9, <1>10 DEF WireOrdered
<1>12. \A i, j \in DOMAIN wire' : i < j => wire'[i].seq <= wire'[j].seq
  BY <1>7, <1>9 DEF WireOrdered
<1>13. wm' <= Newest' /\ \A b \in heard' : 0 < b /\ b <= wm'
  <2>1. wire[1].seq <= Newest /\ \A b \in heard : 0 < b /\ b <= wm
    BY <1>3 DEF WireOrdered
  <2>2. heard \subseteq Nat
    BY DEF TypeOK
  <2>3. QED
    BY <1>2, <1>3, <1>4, <1>5, <1>10, <2>1, <2>2
<1>14. conns' # 0
  BY <1>1 DEF WireOrdered
<1>15. WireOrdered'
  BY <1>11, <1>12, <1>13, <1>14 DEF WireOrdered
<1>16. QED
  BY <1>1, <1>3, <1>4, <1>5, <1>15 DEF Observe

\* The step of WireOrdered, one case per action.
LEMMA OrderedStep == TypeOK /\ WireOrdered /\ [Next]_vars => WireOrdered'
<1> SUFFICES ASSUME TypeOK, WireOrdered, [Next]_vars PROVE WireOrdered'
  OBVIOUS
<1>a. published \in Nat /\ connSeq \in Nat /\ wm \in Nat /\ conns \in Nat
  BY DEF TypeOK
<1>b. ASSUME UNCHANGED <<wire, link, conns, wm, heard>>,
             published' \in Nat, connSeq' \in Nat,
             published <= published', connSeq <= connSeq'
      PROVE  WireOrdered'
  <2>1. Newest' \in Nat /\ Newest <= Newest'
    BY <1>b DEF Newest
  <2>2. QED
    BY <1>b, <2>1, OrderedShrink
<1>c. ASSUME UNCHANGED <<published, connSeq, wire, link, conns, wm, heard>>
      PROVE  WireOrdered'
  BY <1>a, <1>b, <1>c
<1> USE DEF venueVars, socketVars, sinkVars
<1>1. CASE VenueSends
  <2> DEFINE row == [seq |-> FrameSeq, first |-> published + 1, last |-> published']
  <2>1. /\ published' \in Nat /\ published + 1 <= published'
        /\ ~Resets => published' = published + 1
    BY <1>a, <1>1 DEF VenueSends
  <2>2. FrameSeq = Newest' /\ FrameSeq \in Nat /\ 0 < FrameSeq /\ Newest <= Newest'
    BY <1>a, <1>1, <2>1 DEF VenueSends, NextFrame, FrameSeq, Newest
  <2>3. row \in Frame /\ row.seq = FrameSeq
    BY <1>a, <2>1, <2>2, Constructors
  <2>4. /\ wire' = Append(wire, row) /\ link = "up"
        /\ UNCHANGED <<wm, heard, conns, link>>
    BY <1>1 DEF VenueSends
  <2>5. Newest' \in Nat
    BY <2>2
  <2> HIDE DEF row
  <2>6. QED
    BY <2>2, <2>3, <2>4, <2>5, OrderedAppend
<1>2. CASE VenueSnapshot
  <2>1. PICK n \in 1..SnapMax :
          wire' = <<[seq |-> 1, first |-> published - n + 1, last |-> published]>>
    BY <1>2 DEF VenueSnapshot
  <2>2. /\ Resets /\ link = "up" /\ connSeq = 0 /\ connSeq' = 1
        /\ UNCHANGED <<wm, heard, conns>>
    BY <1>2 DEF VenueSnapshot
  <2>3. DOMAIN wire' = {1} /\ wire'[1].seq = 1
    BY <2>1
  <2>4. wm = 0 /\ Newest' = 1
    BY <1>a, <2>2 DEF WireOrdered, Newest
  <2>5. QED
    BY <2>2, <2>3, <2>4 DEF WireOrdered
<1>4. CASE VenueMisses
  BY <1>4, <1>a, <1>b DEF VenueMisses, NextFrame
<1>5. CASE VenueOtherFrame
  BY <1>5, <1>a, <1>b DEF VenueOtherFrame
<1>6. CASE Disconnect
  <2>1. Newest' = Newest /\ Newest \in Nat
    BY <1>a, <1>6 DEF Disconnect, Newest
  <2>2. conns # 0
    BY <1>6 DEF Disconnect, WireOrdered
  <2>3. QED
    BY <1>6, <2>1, <2>2, OrderedShrink DEF Disconnect
<1>7. CASE LoopTop
  BY <1>7, <1>c DEF LoopTop
<1>8. CASE Connected
  <2>1. /\ wire' = <<>> /\ connSeq' = 0 /\ published' = published /\ conns' = conns + 1
        /\ wm' = (IF conns > 0 /\ Resets THEN NoMark ELSE wm)
        /\ heard' = (IF conns > 0 /\ Resets THEN {} ELSE heard)
    BY <1>8 DEF Connected, HandleReconnect
  <2>2. wm' <= Newest'
    BY <1>a, <2>1 DEF WireOrdered, Newest, NoMark
  <2>3. \A b \in heard' : 0 < b /\ b <= wm'
    BY <2>1 DEF WireOrdered
  <2>4. DOMAIN wire' = {} /\ conns' # 0
    BY <1>a, <2>1
  <2>5. QED
    BY <2>2, <2>3, <2>4 DEF WireOrdered
<1>9. CASE ConnectFails
  BY <1>9, <1>c DEF ConnectFails
<1>10. CASE BackoffEnds
  BY <1>10, <1>c DEF BackoffEnds
<1>11. CASE PumpEnds
  <2>1. Newest' = Newest /\ Newest \in Nat
    BY <1>a, <1>11 DEF PumpEnds, Newest
  <2>2. conns # 0
    BY <1>11 DEF PumpEnds, WireOrdered
  <2>3. QED
    BY <1>11, <2>1, <2>2, OrderedShrink DEF PumpEnds
<1>12. CASE CancelPump
  <2>1. Newest' = Newest /\ Newest \in Nat
    BY <1>a, <1>12 DEF CancelPump, Newest
  <2>2. /\ wire' = <<>> /\ link' = "none" /\ UNCHANGED <<wm, heard, conns>>
    BY <1>12 DEF CancelPump
  <2>3. QED
    BY <2>1, <2>2 DEF WireOrdered
<1>13. CASE HandleMessage
  BY <1>13, HandleOrdered
<1>14. CASE PumpResumes
  BY <1>14, <1>c DEF PumpResumes
<1>15. CASE \E i \in DOMAIN repairs : RepairFetched(i)
  BY <1>15, <1>c DEF RepairFetched
<1>16. CASE \E i \in DOMAIN repairs : RepairFails(i)
  BY <1>16, <1>c DEF RepairFails
<1>17. CASE \E i \in DOMAIN repairs : RepairPuts(i)
  BY <1>17, <1>c DEF RepairPuts
<1>18. CASE DrainTrade
  BY <1>18, <1>c DEF DrainTrade
<1>19. CASE DrainRaises
  BY <1>19, <1>c DEF DrainRaises
<1>20. CASE DrainExits
  BY <1>20, <1>c DEF DrainExits
<1>21. CASE Stop
  BY <1>21, <1>c DEF Stop
<1>22. CASE RunReturns
  BY <1>22, <1>c DEF RunReturns
<1>23. CASE UNCHANGED vars
  BY <1>23, <1>c DEF vars
<1>24. QED
  BY <1>1, <1>2, <1>4, <1>5, <1>6, <1>7, <1>8, <1>9, <1>10, <1>11, <1>12, <1>13,
     <1>14, <1>15, <1>16, <1>17, <1>18, <1>19, <1>20, <1>21, <1>22, <1>23, NextCases

\* What a step leaves of the gaps of the repair tasks: the same tasks at the
\* same places, and perhaps one more at the end.
RepairsGrow ==
  /\ DOMAIN repairs \subseteq DOMAIN repairs'
  /\ \A i \in DOMAIN repairs :
       /\ repairs'[i].last = repairs[i].last /\ repairs'[i].next = repairs[i].next
       /\ repairs'[i].conn = repairs[i].conn

\* No action of the runner forgets a repair task or moves its gap.
LEMMA RepairsKept == ASSUME TypeOK, [Next]_vars PROVE RepairsGrow
<1>1. repairs \in Seq(Repair)
  BY DEF TypeOK
<1>2. ASSUME UNCHANGED repairs PROVE RepairsGrow
  BY <1>2 DEF RepairsGrow
<1>3. ASSUME NEW i \in DOMAIN repairs, NEW q, repairs' = [repairs EXCEPT ![i] = q],
             q.last = repairs[i].last, q.next = repairs[i].next, q.conn = repairs[i].conn
      PROVE  RepairsGrow
  <2>1. /\ DOMAIN repairs' = DOMAIN repairs /\ repairs'[i] = q
        /\ \A j \in DOMAIN repairs : j # i => repairs'[j] = repairs[j]
    BY <1>1, <1>3
  <2>2. QED
    BY <1>3, <2>1 DEF RepairsGrow
<1>4. CASE HandleMessage
  <2>1. CASE UNCHANGED repairs
    BY <1>2, <2>1
  <2>2. CASE repairs' # repairs
    <3> DEFINE q == [st |-> "fetching", last |-> wm, next |-> Head(wire).seq,
                     conn |-> conns, at |-> 0, upto |-> 0]
    <3>1. wire \in Seq(Frame) /\ wire # <<>>
      BY <1>4 DEF TypeOK, HandleMessage
    <3>2. Head(wire) \in Frame /\ Head(wire).seq \in Nat
      BY <3>1, HeadTailProperties, Fields
    <3>3. q \in Repair
      BY <3>2, Constructors DEF TypeOK
    <3>4. repairs' = Append(repairs, q)
      BY <1>4, <2>2 DEF HandleMessage, Observe
    <3> HIDE DEF q
    <3>5. /\ DOMAIN repairs' = 1..(Len(repairs) + 1) /\ DOMAIN repairs = 1..Len(repairs)
          /\ Len(repairs) \in Nat
          /\ \A j \in DOMAIN repairs : repairs'[j] = repairs[j]
      BY <1>1, <3>3, <3>4, AppendProperties, SeqDomain
    <3>6. \A j \in DOMAIN repairs : j \in DOMAIN repairs'
      BY <3>5
    <3>7. QED
      BY <3>5, <3>6 DEF RepairsGrow
  <2>3. QED
    BY <2>1, <2>2
<1>5. CASE \E i \in DOMAIN repairs : RepairFetched(i)
  <2>1. PICK i \in DOMAIN repairs : repairs' = [repairs EXCEPT ![i] = Fetched(repairs[i])]
    BY <1>5 DEF RepairFetched
  <2>2. QED
    BY <1>3, <2>1 DEF Fetched, Moved
<1>6. CASE \E i \in DOMAIN repairs : RepairFails(i)
  <2>1. PICK i \in DOMAIN repairs :
          repairs' = [repairs EXCEPT ![i] = [repairs[i] EXCEPT !.st = "failed"]]
    BY <1>6 DEF RepairFails
  <2>2. repairs[i] \in Repair
    BY <1>1, SeqDomain
  <2>3. QED
    BY <1>3, <2>1, <2>2 DEF Repair
<1>7. CASE \E i \in DOMAIN repairs : RepairPuts(i)
  <2>1. PICK i \in DOMAIN repairs : repairs' = [repairs EXCEPT ![i] = AfterPut(repairs[i])]
    BY <1>7 DEF RepairPuts
  <2>2. QED
    BY <1>3, <2>1 DEF AfterPut, Moved
<1>8. CASE UNCHANGED repairs
  BY <1>2, <1>8
<1>9. QED
  <2>1. \/ UNCHANGED repairs \/ HandleMessage
        \/ (\E i \in DOMAIN repairs : RepairFetched(i))
        \/ (\E i \in DOMAIN repairs : RepairFails(i))
        \/ (\E i \in DOMAIN repairs : RepairPuts(i))
    BY NextCases DEF VenueSends, VenueSnapshot, VenueMisses, VenueOtherFrame,
         Disconnect, LoopTop, Connected, ConnectFails, BackoffEnds, PumpEnds, CancelPump,
         PumpResumes, DrainTrade, DrainRaises, DrainExits, Stop, RunReturns, vars
  <2>2. QED
    BY <1>4, <1>5, <1>6, <1>7, <1>8, <2>1

\* The watermark, and what has been observed, move only when a frame is handled or
\* when the connection is made anew.
LEMMA TrackerMoves ==
  ASSUME [Next]_vars
  PROVE  UNCHANGED <<wm, heard, conns>> \/ HandleMessage \/ Connected
BY NextCases DEF VenueSends, VenueSnapshot, VenueMisses, VenueOtherFrame,
     Disconnect, LoopTop, ConnectFails, BackoffEnds, PumpEnds, CancelPump,
     PumpResumes, RepairFetched, RepairFails, RepairPuts, DrainTrade, DrainRaises,
     DrainExits, Stop, RunReturns, vars, socketVars

\* The step of GapsDetected.
LEMMA GapsStep ==
  TypeOK /\ WireOrdered /\ GapsDetected /\ [Next]_vars => GapsDetected'
<1> SUFFICES ASSUME TypeOK, WireOrdered, GapsDetected, [Next]_vars,
                    NEW s \in 1..wm', InRange(s)'
             PROVE  \/ s \in heard'
                    \/ \E i \in DOMAIN repairs' :
                         /\ Resets => repairs'[i].conn = conns'
                         /\ InGap(repairs'[i], s)
  BY DEF GapsDetected, InGap
<1>1. /\ s \in Nat /\ 0 < s /\ s <= wm' /\ wm \in Nat
      /\ \A i \in DOMAIN repairs : repairs[i].last \in Nat /\ repairs[i].next \in Nat
  <2>1. wm' \in Nat
    BY TypeStep DEF TypeOK
  <2>2. QED
    BY <2>1, SeqDomain, Fields DEF TypeOK
<1>2. RepairsGrow
  BY RepairsKept
<1>3. ASSUME s <= wm, \E b \in heard : b <= s, conns' = conns \/ ~Resets, heard \subseteq heard'
      PROVE  \/ s \in heard'
             \/ \E i \in DOMAIN repairs' :
                  /\ Resets => repairs'[i].conn = conns'
                  /\ InGap(repairs'[i], s)
  <2>1. s \in 1..wm /\ InRange(s)
    BY <1>1, <1>3 DEF InRange
  <2>2. CASE s \in heard
    BY <1>3, <2>2
  <2>3. ASSUME NEW i \in DOMAIN repairs, Resets => repairs[i].conn = conns,
               InGap(repairs[i], s)
        PROVE  i \in DOMAIN repairs' /\ (Resets => repairs'[i].conn = conns')
                 /\ InGap(repairs'[i], s)
    BY <1>2, <1>3, <2>3 DEF RepairsGrow, InGap
  <2>4. QED
    BY <2>1, <2>2, <2>3 DEF GapsDetected
<1>4. CASE UNCHANGED <<wm, heard, conns>>
  BY <1>3, <1>4 DEF InRange
<1>5. CASE Connected
  <2>1. /\ wm' = (IF conns > 0 /\ Resets THEN NoMark ELSE wm)
        /\ heard' = (IF conns > 0 /\ Resets THEN {} ELSE heard) /\ conns \in Nat
    BY <1>5 DEF Connected, HandleReconnect, TypeOK
  <2>2. ~Resets
    BY <1>1, <2>1 DEF WireOrdered, NoMark
  <2>3. QED
    BY <1>3, <2>1, <2>2 DEF InRange
<1>6. CASE HandleMessage
  <2> DEFINE n == Head(wire).seq
             task == [st |-> "fetching", last |-> wm, next |-> n, conn |-> conns,
                      at |-> 0, upto |-> 0]
  <2>1. /\ n \in Nat /\ wm <= n /\ wm' = n /\ heard' = heard \cup {n} /\ conns' = conns
        /\ repairs' = IF IsGap(n) THEN Append(repairs, task) ELSE repairs
    BY <1>6, HandleOrdered
  <2>2. task \in Repair /\ task.last = wm /\ task.next = n /\ task.conn = conns
    BY <2>1, Constructors DEF TypeOK
  <2> HIDE DEF task, n
  <2>3. CASE s = n
    BY <2>1, <2>3
  <2>4. CASE s # n
    <3>1. s < n /\ \E b \in heard : b <= s
      BY <1>1, <2>1, <2>4 DEF InRange
    <3>2. CASE s <= wm
      BY <1>3, <2>1, <3>1, <3>2
    <3>3. CASE wm < s
      <4>1. wm # NoMark
        <5>1. PICK b \in heard : b <= s
          BY <3>1
        <5>2. b \in Nat /\ 0 < b /\ b <= wm
          BY <5>1 DEF TypeOK, WireOrdered
        <5>3. QED
          BY <1>1, <5>2 DEF NoMark
      <4>2. IsGap(n) /\ InGap(task, s)
        BY <1>1, <2>1, <2>2, <3>1, <3>3, <4>1 DEF IsGap, InGap
      <4>3. /\ Len(repairs) + 1 \in DOMAIN repairs'
            /\ repairs'[Len(repairs) + 1] = task
        <5>1. repairs \in Seq(Repair) /\ Len(repairs) \in Nat
          BY SeqDomain DEF TypeOK
        <5>2. QED
          BY <2>1, <2>2, <4>2, <5>1, AppendProperties, SeqDomain
      <4>4. QED
        BY <2>1, <2>2, <4>2, <4>3
    <3>4. QED
      BY <1>1, <3>2, <3>3
  <2>5. QED
    BY <2>3, <2>4
<1>7. QED
  BY <1>4, <1>5, <1>6, TrackerMoves

\* On either venue every number between the first one the tracker observed and
\* its watermark was observed, or a repair task was created for it, on this very
\* connection where the numbers restart (gaps.py observe, runner.py
\* handle_message and handle_reconnect).
THEOREM GapsAllDetected == Spec => []GapsDetected
<1>1. Init => WireOrdered /\ GapsDetected
  <2> SUFFICES ASSUME Init PROVE WireOrdered /\ GapsDetected
    OBVIOUS
  <2>1. /\ wm = 0 /\ heard = {} /\ DOMAIN wire = {} /\ Newest = 0 /\ link = "none"
        /\ wire = <<>>
    BY EmptySeq DEF Init, NoMark, Newest
  <2>2. QED
    BY <2>1 DEF WireOrdered, GapsDetected, NoMark
<1>2. QED
  BY <1>1, OrderedStep, GapsStep, TypeCorrect, PTL DEF Spec

-----------------------------------------------------------------------------
\* A repair task that puts is inside its gap.
PutsInGap(r) ==
  r.st = "putting" => r.last < r.at /\ r.at <= r.upto /\ r.upto < r.next

\* The gaps of the repair tasks lie behind the watermark, no two overlap, and no
\* observed number lies in one.
RepairsApart ==
  /\ \A i \in DOMAIN repairs : repairs[i].next <= wm /\ PutsInGap(repairs[i])
  /\ \A i \in DOMAIN repairs : \A b \in heard : ~InGap(repairs[i], b)
  /\ \A i, j \in DOMAIN repairs :
       i = j \/ repairs[i].next <= repairs[j].last \/ repairs[j].next <= repairs[i].last

\* The repair task r has put trade t and gone past it.
PutBy(r, t) == InGap(r, t) /\ r.st # "fetching" /\ (r.st = "putting" => t < r.at)

\* Where a trade on its way to the sink comes from.
Sourced(e) ==
  /\ 0 < e.id /\ e.id <= wm
  /\ \/ e.src = "STREAM" /\ e.id \in heard
     \/ e.src = "REST_REPAIR" /\ \E i \in DOMAIN repairs : PutBy(repairs[i], e.id)

\* The trade the pump is blocked on is newer than every live trade ahead of it.
PumpAhead ==
  putting # Empty =>
    /\ putting.first \in heard
    /\ \A i \in DOMAIN Line : Line[i].src = "STREAM" => Line[i].id < putting.first

LineInv ==
  ~Resets => RepairsApart /\ PumpAhead /\ \A i \in DOMAIN Line : Sourced(Line[i])

\* Where the sequence is the trade id, what handling the head of the wire does.
LEMMA HandleAhead ==
  ASSUME TypeOK, WireAhead, ~Resets, HandleMessage
  PROVE  \E n \in Nat :
           /\ 0 < n /\ wm < n /\ wm' = n /\ heard' = heard \cup {n}
           /\ queue' = IF Room THEN Append(queue, Streamed(n)) ELSE queue
           /\ putting' = IF Room THEN Empty ELSE [first |-> n, last |-> n]
           /\ repairs' = IF IsGap(n)
                         THEN Append(repairs, [st |-> "fetching", last |-> wm, next |-> n,
                                               conn |-> conns, at |-> 0, upto |-> 0])
                         ELSE repairs
<1>1. wire \in Seq(Frame) /\ wire # <<>> /\ wm \in Nat
  BY DEF TypeOK, HandleMessage
<1>2. 1 \in DOMAIN wire /\ Head(wire) = wire[1] /\ Head(wire) \in Frame
  BY <1>1, HeadTailProperties, SeqDomain, EmptySeq
<1> DEFINE n == Head(wire).seq
<1>3. n \in Nat /\ 0 < n /\ wm < n /\ Head(wire).first = n /\ Head(wire).last = n
  BY <1>2, Fields DEF WireAhead
<1>4. Put(n, n) /\ Observe(n)
  BY <1>3 DEF HandleMessage
<1> HIDE DEF n
<1>5. wm' = n
  BY <1>1, <1>3, <1>4 DEF Observe, NewMark
<1>6. /\ queue' = IF Room THEN Append(queue, Streamed(n)) ELSE queue
      /\ putting' = IF Room THEN Empty ELSE [first |-> n, last |-> n]
  BY <1>3, <1>4, PutOne
<1>7. QED
  BY <1>3, <1>4, <1>5, <1>6 DEF Observe

\* What the pump does when it runs again, where a frame carries one trade.
LEMMA ResumeOne ==
  ASSUME TypeOK, WireAhead, ~Resets, PumpResumes
  PROVE  /\ putting.first \in Nat /\ putting' = Empty
         /\ queue' = Append(queue, Streamed(putting.first))
<1>1. putting.first = putting.last /\ Put(putting.first, putting.last) /\ Room
  BY DEF PumpResumes, WireAhead
<1>2. putting.first \in Nat /\ 0 < putting.first
  BY Fields DEF PumpResumes, TypeOK
<1>3. QED
  BY <1>1, <1>2, PutOne

\* The step of RepairsApart.
LEMMA ApartStep ==
  ASSUME TypeOK, WireAhead, ~Resets, RepairsApart, [Next]_vars
  PROVE  RepairsApart'
<1>1. /\ repairs \in Seq(Repair) /\ wm \in Nat /\ heard \subseteq Nat
      /\ RepairBatch \in Nat \ {0}
  BY ConstantsAssumption DEF TypeOK
<1>2. \A i \in DOMAIN repairs :
        /\ repairs[i] \in Repair /\ repairs[i].last \in Nat /\ repairs[i].next \in Nat
        /\ repairs[i].at \in Nat /\ repairs[i].upto \in Int
  BY <1>1, SeqDomain, Fields
<1>3. ASSUME UNCHANGED <<wm, heard, repairs>> PROVE RepairsApart'
  BY <1>3 DEF RepairsApart
<1>4. ASSUME NEW i \in DOMAIN repairs, NEW q, repairs' = [repairs EXCEPT ![i] = q],
             q.last = repairs[i].last, q.next = repairs[i].next, PutsInGap(q),
             UNCHANGED <<wm, heard>>
      PROVE  RepairsApart'
  <2>1. /\ DOMAIN repairs' = DOMAIN repairs
        /\ \A j \in DOMAIN repairs :
             /\ repairs'[j].last = repairs[j].last /\ repairs'[j].next = repairs[j].next
             /\ repairs'[j] = repairs[j] \/ repairs'[j] = q
    BY <1>1, <1>4
  <2>2. \A j \in DOMAIN repairs : PutsInGap(repairs'[j])
    BY <1>4, <2>1 DEF RepairsApart
  <2>3. QED
    BY <1>4, <2>1, <2>2 DEF RepairsApart, InGap
<1>5. CASE HandleMessage
  <2>1. PICK n \in Nat :
          /\ wm < n /\ wm' = n /\ heard' = heard \cup {n}
          /\ repairs' = IF IsGap(n)
                        THEN Append(repairs, [st |-> "fetching", last |-> wm, next |-> n,
                                              conn |-> conns, at |-> 0, upto |-> 0])
                        ELSE repairs
    BY <1>5, HandleAhead
  <2>2. \A b \in heard : b \in Nat /\ b <= wm
    BY <1>1 DEF WireAhead
  <2>3. \A i \in DOMAIN repairs :
          /\ repairs[i].next <= wm' /\ PutsInGap(repairs[i])
          /\ \A b \in heard' : ~InGap(repairs[i], b)
    BY <1>1, <1>2, <2>1 DEF RepairsApart, InGap
  <2>4. CASE ~IsGap(n)
    BY <2>1, <2>3, <2>4 DEF RepairsApart
  <2>5. CASE IsGap(n)
    <3> DEFINE q == [st |-> "fetching", last |-> wm, next |-> n, conn |-> conns,
                     at |-> 0, upto |-> 0]
    <3>1. q \in Repair
      BY Constructors DEF TypeOK
    <3>2. q.st = "fetching" /\ q.last = wm /\ q.next = n /\ repairs' = Append(repairs, q)
      BY <2>1, <2>5
    <3> HIDE DEF q
    <3>3. /\ DOMAIN repairs' = 1..(Len(repairs) + 1) /\ DOMAIN repairs = 1..Len(repairs)
          /\ Len(repairs) \in Nat
          /\ repairs'[Len(repairs) + 1] = q
          /\ \A j \in DOMAIN repairs : repairs'[j] = repairs[j]
      BY <1>1, <3>1, <3>2, AppendProperties, SeqDomain
    <3>4. \A j \in DOMAIN repairs' :
            \/ j \in DOMAIN repairs /\ repairs'[j] = repairs[j]
            \/ j = Len(repairs) + 1 /\ repairs'[j] = q
      BY <3>3
    <3>5. PutsInGap(q) /\ q.next <= wm' /\ \A b \in heard' : ~InGap(q, b)
      BY <1>1, <2>1, <2>2, <3>2 DEF PutsInGap, InGap
    <3>6. /\ \A i \in DOMAIN repairs' : repairs'[i].next <= wm' /\ PutsInGap(repairs'[i])
          /\ \A i \in DOMAIN repairs' : \A b \in heard' : ~InGap(repairs'[i], b)
      BY <2>3, <3>4, <3>5
    <3>7. \A j \in DOMAIN repairs : repairs[j].next <= q.last
      BY <3>2 DEF RepairsApart
    <3>8. \A i, j \in DOMAIN repairs' :
            \/ i = j
            \/ repairs'[i].next <= repairs'[j].last
            \/ repairs'[j].next <= repairs'[i].last
      BY <3>4, <3>7 DEF RepairsApart
    <3>9. QED
      BY <3>6, <3>8 DEF RepairsApart
  <2>6. QED
    BY <2>4, <2>5
<1>6. CASE \E i \in DOMAIN repairs : RepairFetched(i)
  <2>1. PICK i \in DOMAIN repairs : RepairFetched(i)
    BY <1>6
  <2> DEFINE q == Fetched(repairs[i])
  <2>2. /\ q.last = repairs[i].last /\ q.next = repairs[i].next
        /\ q.at = repairs[i].last + 1
        /\ q.upto = Lesser(repairs[i].last + RepairBatch, repairs[i].next - 1)
        /\ q.st = IF q.at > q.upto THEN "done" ELSE "putting"
    BY DEF Fetched, Moved, FirstRow, LastRow
  <2>3. repairs' = [repairs EXCEPT ![i] = q] /\ UNCHANGED <<wm, heard>>
    BY <2>1 DEF RepairFetched
  <2> HIDE DEF q
  <2>4. PutsInGap(q)
    BY <1>1, <1>2, <2>2 DEF PutsInGap, Lesser
  <2>5. QED
    BY <1>4, <2>2, <2>3, <2>4
<1>7. CASE \E i \in DOMAIN repairs : RepairFails(i)
  <2>1. PICK i \in DOMAIN repairs : RepairFails(i)
    BY <1>7
  <2> DEFINE q == [repairs[i] EXCEPT !.st = "failed"]
  <2>2. q.last = repairs[i].last /\ q.next = repairs[i].next /\ q.st = "failed"
    BY <1>2 DEF Repair
  <2>3. repairs' = [repairs EXCEPT ![i] = q] /\ UNCHANGED <<wm, heard>>
    BY <2>1 DEF RepairFails
  <2> HIDE DEF q
  <2>4. QED
    BY <1>4, <2>2, <2>3 DEF PutsInGap
<1>8. CASE \E i \in DOMAIN repairs : RepairPuts(i)
  <2>1. PICK i \in DOMAIN repairs : RepairPuts(i)
    BY <1>8
  <2> DEFINE q == AfterPut(repairs[i])
  <2>2. /\ q.last = repairs[i].last /\ q.next = repairs[i].next
        /\ q.at = repairs[i].at + 1 /\ q.upto = repairs[i].upto
        /\ q.st = IF repairs[i].at = repairs[i].upto THEN "done" ELSE "putting"
    BY DEF AfterPut, Moved
  <2>3. /\ repairs' = [repairs EXCEPT ![i] = q] /\ UNCHANGED <<wm, heard>>
        /\ repairs[i].st = "putting"
    BY <2>1 DEF RepairPuts
  <2> HIDE DEF q
  <2>4. PutsInGap(q)
    BY <1>2, <2>2, <2>3 DEF PutsInGap, RepairsApart
  <2>5. QED
    BY <1>4, <2>2, <2>3, <2>4
<1>9. \/ UNCHANGED <<wm, heard, repairs>> \/ HandleMessage
      \/ (\E i \in DOMAIN repairs : RepairFetched(i))
      \/ (\E i \in DOMAIN repairs : RepairFails(i))
      \/ (\E i \in DOMAIN repairs : RepairPuts(i))
  BY NextCases DEF VenueSends, VenueSnapshot, VenueMisses, VenueOtherFrame,
       Disconnect, LoopTop, Connected, HandleReconnect, ConnectFails, BackoffEnds, PumpEnds,
       CancelPump, PumpResumes, DrainTrade, DrainRaises, DrainExits, Stop, RunReturns, vars
<1>10. QED
  BY <1>3, <1>5, <1>6, <1>7, <1>8, <1>9

\* A trade keeps its source, whatever step is made.
LEMMA SourceKept ==
  ASSUME TypeOK, WireAhead, ~Resets, [Next]_vars, NEW e \in Trade, Sourced(e)
  PROVE  Sourced(e)'
<1>1. /\ repairs \in Seq(Repair) /\ wm \in Nat /\ e.id \in Nat
      /\ \A i \in DOMAIN repairs : repairs[i] \in Repair /\ repairs[i].at \in Nat
  BY SeqDomain, Fields DEF TypeOK
<1>2. wm <= wm' /\ heard \subseteq heard' /\ wm' \in Nat
  <2>1. CASE UNCHANGED <<wm, heard, conns>>
    BY <1>1, <2>1
  <2>2. CASE HandleMessage
    <3>1. PICK n \in Nat : wm < n /\ wm' = n /\ heard' = heard \cup {n}
      BY <2>2, HandleAhead
    <3>2. QED
      BY <1>1, <3>1
  <2>3. CASE Connected
    BY <1>1, <2>3 DEF Connected, HandleReconnect
  <2>4. QED
    BY <2>1, <2>2, <2>3, TrackerMoves
<1>3. ASSUME NEW i \in DOMAIN repairs, PutBy(repairs[i], e.id)
      PROVE  i \in DOMAIN repairs' /\ PutBy(repairs'[i], e.id)
  <2>1. /\ i \in DOMAIN repairs' /\ repairs'[i].last = repairs[i].last
        /\ repairs'[i].next = repairs[i].next
    BY RepairsKept DEF RepairsGrow
  <2>2. \/ repairs'[i] = repairs[i]
        \/ repairs[i].st = "fetching"
        \/ repairs[i].st = "putting" /\ repairs'[i] = AfterPut(repairs[i])
    <3>1. CASE HandleMessage
      <4>1. CASE UNCHANGED repairs
        BY <4>1
      <4>2. CASE repairs' # repairs
        <5>1. PICK n \in Nat :
                repairs' = Append(repairs, [st |-> "fetching", last |-> wm, next |-> n,
                                            conn |-> conns, at |-> 0, upto |-> 0])
          BY <3>1, <4>2, HandleAhead
        <5>2. [st |-> "fetching", last |-> wm, next |-> n, conn |-> conns, at |-> 0,
               upto |-> 0] \in Repair
          BY Constructors DEF TypeOK
        <5>3. QED
          BY <1>1, <5>1, <5>2, AppendProperties, SeqDomain
      <4>3. QED
        BY <4>1, <4>2
    <3>2. CASE \E j \in DOMAIN repairs : RepairFetched(j)
      BY <1>1, <3>2 DEF RepairFetched
    <3>3. CASE \E j \in DOMAIN repairs : RepairFails(j)
      BY <1>1, <3>3 DEF RepairFails
    <3>4. CASE \E j \in DOMAIN repairs : RepairPuts(j)
      <4>1. PICK j \in DOMAIN repairs :
              /\ repairs[j].st = "putting"
              /\ repairs' = [repairs EXCEPT ![j] = AfterPut(repairs[j])]
        BY <3>4 DEF RepairPuts
      <4>2. QED
        BY <1>1, <4>1
    <3>5. CASE UNCHANGED repairs
      BY <3>5
    <3>6. QED
      BY <3>1, <3>2, <3>3, <3>4, <3>5, NextCases
         DEF VenueSends, VenueSnapshot, VenueMisses, VenueOtherFrame,
         Disconnect, LoopTop, Connected, ConnectFails, BackoffEnds, PumpEnds, CancelPump,
         PumpResumes, DrainTrade, DrainRaises, DrainExits, Stop, RunReturns, vars
  <2>3. CASE repairs'[i] = repairs[i]
    BY <1>3, <2>1, <2>3
  <2>4. CASE repairs[i].st = "putting" /\ repairs'[i] = AfterPut(repairs[i])
    <3> DEFINE q == AfterPut(repairs[i])
    <3>1. q.at = repairs[i].at + 1 /\ q.st \in {"done", "putting"}
      BY DEF AfterPut, Moved
    <3>2. repairs'[i] = q
      BY <2>4
    <3> HIDE DEF q
    <3>3. e.id < q.at
      BY <1>1, <1>3, <2>4, <3>1 DEF PutBy
    <3>4. QED
      BY <1>3, <2>1, <3>1, <3>2, <3>3 DEF PutBy, InGap
  <2>5. QED
    BY <1>3, <2>2, <2>3, <2>4 DEF PutBy
<1>4. QED
  BY <1>1, <1>2, <1>3 DEF Sourced

\* The line loses some of its trades, and keeps the order of the others.
Thins(new, old) ==
  \E f \in [DOMAIN new -> DOMAIN old] :
    /\ \A i \in DOMAIN new : new[i] = old[f[i]]
    /\ \A i, j \in DOMAIN new : i < j => f[i] < f[j]

\* The line is one sequence of trades.
LEMMA LineType ==
  ASSUME TypeOK
  PROVE  /\ Line \in Seq(Trade) /\ DOMAIN Line = 1..Len(Line) /\ Len(Line) \in Nat
         /\ \A i \in DOMAIN Line : Line[i] \in Trade /\ Line[i].id \in Nat
<1>1. Line \in Seq(Trade)
  BY ConcatProperties DEF TypeOK, Line
<1>2. QED
  BY <1>1, SeqDomain, Fields

\* A put appends to the line.
LEMMA LineAppends ==
  ASSUME TypeOK, NEW e \in Trade, queue' = Append(queue, e), UNCHANGED produced
  PROVE  /\ DOMAIN Line' = 1..(Len(Line) + 1) /\ Line'[Len(Line) + 1] = e
         /\ \A i \in DOMAIN Line : Line'[i] = Line[i]
<1>1. queue \in Seq(Trade) /\ produced \in Seq(Trade) /\ <<e>> \in Seq(Trade)
  BY DEF TypeOK
<1>2. Append(queue, e) = queue \o <<e>>
  BY <1>1, AppendIsConcat
<1>3. produced \o (queue \o <<e>>) = (produced \o queue) \o <<e>>
  BY <1>1, ConcatAssociative
<1>4. Line \in Seq(Trade) /\ DOMAIN Line = 1..Len(Line)
  BY LineType
<1>5. Line' = Append(Line, e)
  BY <1>2, <1>3, <1>4, AppendIsConcat DEF Line
<1>6. Append(Line, e) \in Seq(Trade) /\ Len(Append(Line, e)) = Len(Line) + 1
  BY <1>4, AppendProperties
<1>7. DOMAIN Append(Line, e) = 1..(Len(Line) + 1)
  BY <1>6, SeqDomain
<1>8. QED
  BY <1>4, <1>5, <1>7, AppendProperties

\* A turn of the drain moves the border between its two parts, or takes out the
\* trade it died with.
LEMMA LineDrains ==
  ASSUME TypeOK, DrainTrade \/ DrainRaises
  PROVE  Thins(Line', Line)
<1>1. /\ queue \in Seq(Trade) /\ produced \in Seq(Trade) /\ queue # <<>>
      /\ queue' = Tail(queue)
  BY DEF TypeOK, DrainTrade, DrainRaises
<1>2. /\ Head(queue) \in Trade /\ Head(queue) = queue[1]
      /\ Tail(queue) \in Seq(Trade) /\ Len(Tail(queue)) = Len(queue) - 1
      /\ \A i \in 1..Len(Tail(queue)) : Tail(queue)[i] = queue[i + 1]
      /\ Len(queue) \in Nat \ {0} /\ Len(produced) \in Nat
  BY <1>1, HeadTailProperties, EmptySeq, LenProperties
<1> DEFINE p == Len(produced)
           q == Len(queue)
<1>3. /\ Line \in Seq(Trade) /\ Len(Line) = p + q /\ DOMAIN Line = 1..(p + q)
      /\ \A i \in 1..(p + q) : Line[i] = IF i <= p THEN produced[i] ELSE queue[i - p]
  <2>1. /\ produced \o queue \in Seq(Trade) /\ Len(produced \o queue) = p + q
        /\ \A i \in 1..(p + q) :
             (produced \o queue)[i] = IF i <= p THEN produced[i] ELSE queue[i - p]
    BY <1>1, ConcatProperties
  <2>2. DOMAIN (produced \o queue) = 1..(p + q)
    BY <2>1, SeqDomain
  <2>3. QED
    BY <2>1, <2>2 DEF Line
<1>4. CASE DrainTrade
  <2> DEFINE s == Append(produced, Head(queue))
             t == Tail(queue)
  <2>1. Line' = s \o t
    BY <1>1, <1>4 DEF DrainTrade, Line
  <2>2. /\ s \in Seq(Trade) /\ Len(s) = p + 1
        /\ \A i \in 1..p : s[i] = produced[i]
        /\ s[p + 1] = queue[1]
    BY <1>1, <1>2, AppendProperties
  <2>3. t \in Seq(Trade) /\ Len(t) = q - 1 /\ \A i \in 1..(q - 1) : t[i] = queue[i + 1]
    BY <1>2
  <2> HIDE DEF s, t
  <2>4. /\ s \o t \in Seq(Trade) /\ Len(s \o t) = Len(s) + Len(t)
        /\ \A i \in 1..(Len(s) + Len(t)) :
             (s \o t)[i] = IF i <= Len(s) THEN s[i] ELSE t[i - Len(s)]
    BY <2>2, <2>3, ConcatProperties
  <2>5. Len(s) + Len(t) = p + q
    BY <1>2, <2>2, <2>3
  <2> HIDE DEF p, q
  <2>6. ASSUME NEW i \in 1..(p + q) PROVE (s \o t)[i] = Line[i]
    <3>1. p \in Nat /\ q \in Nat \ {0} /\ i \in Nat
      BY <1>2 DEF p, q
    <3>2. CASE i <= p
      <4>1. i \in 1..p /\ i <= p + 1
        BY <3>1, <3>2
      <4>2. (s \o t)[i] = s[i]
        BY <2>2, <2>4, <2>5, <4>1
      <4>3. QED
        BY <1>3, <2>2, <3>2, <4>1, <4>2
    <3>3. CASE i = p + 1
      BY <1>3, <2>2, <2>4, <2>5, <3>1, <3>3
    <3>4. CASE i > p + 1
      <4>1. i - (p + 1) \in 1..(q - 1) /\ (i - (p + 1)) + 1 = i - p /\ ~(i <= p) /\ ~(i <= p + 1)
        BY <3>1, <3>4
      <4>2. (s \o t)[i] = t[i - (p + 1)]
        BY <2>2, <2>4, <2>5, <4>1
      <4>3. Line[i] = queue[i - p]
        BY <1>3, <4>1
      <4>4. t[i - (p + 1)] = queue[(i - (p + 1)) + 1]
        BY <2>3, <4>1
      <4>5. QED
        BY <4>1, <4>2, <4>3, <4>4
    <3>5. i <= p \/ i = p + 1 \/ i > p + 1
      BY <3>1
    <3>6. QED
      BY <3>2, <3>3, <3>4, <3>5
  <2>7. Line' = Line
    <3>1. Len(s \o t) = Len(Line)
      BY <1>3, <2>4, <2>5
    <3>2. \A i \in 1..Len(s \o t) : (s \o t)[i] = Line[i]
      BY <1>3, <2>6, <3>1
    <3>3. s \o t = Line
      BY <1>3, <2>4, <3>1, <3>2, SeqEqual
    <3>4. QED
      BY <2>1, <3>3
  <2>8. DOMAIN Line \subseteq Nat
    BY <1>3
  <2> DEFINE f == [i \in DOMAIN Line |-> i]
  <2>9. /\ f \in [DOMAIN Line' -> DOMAIN Line]
        /\ \A i \in DOMAIN Line' : Line'[i] = Line[f[i]]
        /\ \A i, j \in DOMAIN Line' : i < j => f[i] < f[j]
    BY <2>7
  <2>10. QED
    BY <2>9 DEF Thins
<1>5. CASE DrainRaises
  <2> DEFINE t == Tail(queue)
  <2>1. Line' = produced \o t
    BY <1>1, <1>5 DEF DrainRaises, Line
  <2>2. t \in Seq(Trade) /\ Len(t) = q - 1 /\ \A i \in 1..(q - 1) : t[i] = queue[i + 1]
    BY <1>2
  <2> HIDE DEF t
  <2>3. /\ produced \o t \in Seq(Trade) /\ Len(produced \o t) = p + Len(t)
        /\ \A i \in 1..(p + Len(t)) :
             (produced \o t)[i] = IF i <= p THEN produced[i] ELSE t[i - p]
    BY <1>1, <2>2, ConcatProperties
  <2>4. p + Len(t) = p + q - 1
    BY <1>2, <2>2
  <2>5. DOMAIN Line' = 1..(p + q - 1)
    BY <2>1, <2>3, <2>4, SeqDomain
  <2> HIDE DEF p, q
  <2>6. p \in Nat /\ q \in Nat \ {0}
    BY <1>2 DEF p, q
  <2> DEFINE f == [i \in 1..(p + q - 1) |-> IF i <= p THEN i ELSE i + 1]
  <2>7. \A i \in 1..(p + q - 1) : f[i] \in 1..(p + q)
    BY <2>6
  <2>8. f \in [DOMAIN Line' -> DOMAIN Line]
    BY <1>3, <2>5, <2>7
  <2>9. ASSUME NEW i \in DOMAIN Line' PROVE Line'[i] = Line[f[i]]
    <3>1. i \in 1..(p + q - 1) /\ i \in 1..(p + q)
      BY <2>5, <2>6, <2>9
    <3>2. CASE i <= p
      BY <1>3, <2>1, <2>3, <2>4, <3>1, <3>2
    <3>3. CASE ~(i <= p)
      <4>1. /\ i - p \in 1..(q - 1) /\ (i - p) + 1 = (i + 1) - p /\ ~(i + 1 <= p)
            /\ i + 1 \in 1..(p + q)
        BY <2>6, <3>1, <3>3
      <4>2. Line'[i] = t[i - p]
        BY <2>1, <2>3, <2>4, <3>1, <3>3
      <4>3. t[i - p] = queue[(i - p) + 1]
        BY <2>2, <4>1
      <4>4. Line[i + 1] = queue[(i + 1) - p]
        BY <1>3, <4>1
      <4>5. f[i] = i + 1
        BY <3>1, <3>3
      <4>6. QED
        BY <4>1, <4>2, <4>3, <4>4, <4>5
    <3>4. QED
      BY <3>2, <3>3
  <2>10. \A i, j \in DOMAIN Line' : i < j => f[i] < f[j]
    BY <2>5, <2>6
  <2> HIDE DEF f
  <2>11. QED
    BY <2>8, <2>9, <2>10 DEF Thins
<1>6. QED
  BY <1>4, <1>5

\* What one step does to the line: it thins it, or appends one trade, handed
\* over by the pump or by a repair task.
LEMMA LineMoves ==
  ASSUME TypeOK, WireAhead, ~Resets, [Next]_vars
  PROVE  \/ Thins(Line', Line)
         \/ \E e \in Trade :
              /\ queue' = Append(queue, e) /\ UNCHANGED produced
              /\ \/ HandleMessage /\ e = Streamed(wm')
                 \/ PumpResumes /\ e = Streamed(putting.first)
                 \/ \E i \in DOMAIN repairs : RepairPuts(i) /\ e = Repaired(repairs[i].at)
<1>1. ASSUME UNCHANGED <<queue, produced>> PROVE Thins(Line', Line)
  <2>1. Line' = Line /\ DOMAIN Line = 1..Len(Line)
    BY <1>1, LineType DEF Line
  <2> DEFINE f == [i \in DOMAIN Line |-> i]
  <2>2. /\ f \in [DOMAIN Line' -> DOMAIN Line]
        /\ \A i \in DOMAIN Line' : Line'[i] = Line[f[i]]
        /\ \A i, j \in DOMAIN Line' : i < j => f[i] < f[j]
    BY <2>1
  <2>3. QED
    BY <2>2 DEF Thins
<1>2. CASE HandleMessage
  <2>1. PICK n \in Nat :
          wm' = n /\ queue' = (IF Room THEN Append(queue, Streamed(n)) ELSE queue)
    BY <1>2, HandleAhead
  <2>2. UNCHANGED produced
    BY <1>2 DEF HandleMessage, sinkVars
  <2>3. Streamed(n) \in Trade
    BY Constructors
  <2>4. QED
    BY <1>1, <1>2, <2>1, <2>2, <2>3
<1>3. CASE PumpResumes
  <2>1. queue' = Append(queue, Streamed(putting.first)) /\ putting.first \in Nat
    BY <1>3, ResumeOne
  <2>2. Streamed(putting.first) \in Trade
    BY <2>1, Constructors
  <2>3. QED
    BY <1>3, <2>1, <2>2 DEF PumpResumes, sinkVars
<1>4. CASE \E i \in DOMAIN repairs : RepairPuts(i)
  <2>1. PICK i \in DOMAIN repairs : RepairPuts(i)
    BY <1>4
  <2>2. Repaired(repairs[i].at) \in Trade
    BY SeqDomain, Fields, Constructors DEF TypeOK
  <2>3. QED
    BY <2>1, <2>2 DEF RepairPuts, sinkVars
<1>5. CASE DrainTrade \/ DrainRaises
  BY <1>5, LineDrains
<1>6. CASE UNCHANGED <<queue, produced>>
  BY <1>1, <1>6
<1>7. \/ UNCHANGED <<queue, produced>> \/ HandleMessage \/ PumpResumes
      \/ (\E i \in DOMAIN repairs : RepairPuts(i))
      \/ DrainTrade \/ DrainRaises
  BY NextCases DEF VenueSends, VenueSnapshot, VenueMisses, VenueOtherFrame,
       Disconnect, LoopTop, Connected, ConnectFails, BackoffEnds, PumpEnds, CancelPump,
       RepairFetched, RepairFails, DrainExits, Stop, RunReturns, vars, sinkVars
<1>8. QED
  BY <1>2, <1>3, <1>4, <1>5, <1>6, <1>7

\* A trade that joins the line has a source, is not in the line yet, and is newer
\* than every live trade of the line when it is live itself.
LEMMA NewTrade ==
  ASSUME TypeOK, WireAhead, ~Resets, LineInv, NEW e \in Trade,
         \/ HandleMessage /\ e = Streamed(wm')
         \/ PumpResumes /\ e = Streamed(putting.first)
         \/ \E i \in DOMAIN repairs : RepairPuts(i) /\ e = Repaired(repairs[i].at)
  PROVE  /\ Sourced(e)'
         /\ \A i \in DOMAIN Line :
              /\ Line[i].id # e.id
              /\ Line[i].src = "STREAM" /\ e.src = "STREAM" => Line[i].id < e.id
<1>0. putting.first \in Nat
  BY Fields DEF TypeOK
<1>1. /\ repairs \in Seq(Repair) /\ wm \in Nat /\ heard \subseteq Nat
      /\ \A i \in DOMAIN repairs :
           /\ repairs[i] \in Repair /\ repairs[i].last \in Nat /\ repairs[i].next \in Nat
           /\ repairs[i].at \in Nat /\ repairs[i].upto \in Int
  BY SeqDomain, Fields DEF TypeOK
<1>2. RepairsApart /\ PumpAhead /\ \A i \in DOMAIN Line : Sourced(Line[i])
  BY DEF LineInv
<1>3. \A i \in DOMAIN Line : Line[i].id \in Nat /\ 0 < Line[i].id /\ Line[i].id <= wm
  BY <1>2, LineType DEF Sourced
<1>4. CASE HandleMessage /\ e = Streamed(wm')
  <2>1. PICK n \in Nat : wm < n /\ wm' = n /\ heard' = heard \cup {n}
    BY <1>4, HandleAhead
  <2>2. e.id = n /\ e.src = "STREAM"
    BY <1>4, <2>1 DEF Streamed
  <2>3. QED
    BY <1>1, <1>3, <2>1, <2>2 DEF Sourced
<1>5. CASE PumpResumes /\ e = Streamed(putting.first)
  <2>1. e.id = putting.first /\ e.src = "STREAM" /\ putting # Empty /\ UNCHANGED <<wm, heard>>
    BY <1>5 DEF Streamed, PumpResumes
  <2>2. putting.first \in heard /\ 0 < putting.first /\ putting.first <= wm
    BY <1>2, <2>1 DEF PumpAhead, WireAhead
  <2>3. Sourced(e)'
    BY <2>1, <2>2 DEF Sourced
  <2>4. ASSUME NEW i \in DOMAIN Line PROVE Line[i].id # putting.first
    <3>1. CASE Line[i].src = "STREAM"
      BY <1>0, <1>1, <1>2, <1>3, <2>1, <3>1 DEF PumpAhead
    <3>2. CASE Line[i].src # "STREAM"
      <4>1. PICK k \in DOMAIN repairs : PutBy(repairs[k], Line[i].id)
        BY <1>2, <3>2 DEF Sourced
      <4>2. QED
        BY <1>2, <2>2, <4>1 DEF PutBy, RepairsApart
    <3>3. QED
      BY <3>1, <3>2
  <2>5. QED
    BY <1>2, <2>1, <2>3, <2>4 DEF PumpAhead
<1>6. ASSUME NEW i \in DOMAIN repairs, RepairPuts(i), e = Repaired(repairs[i].at)
      PROVE  /\ Sourced(e)'
             /\ \A j \in DOMAIN Line :
                  /\ Line[j].id # e.id
                  /\ Line[j].src = "STREAM" /\ e.src = "STREAM" => Line[j].id < e.id
  <2> DEFINE r == repairs[i]
             a == repairs[i].at
  <2>1. e.id = a /\ e.src = "REST_REPAIR"
    BY <1>6 DEF Repaired
  <2>2. /\ r.st = "putting" /\ repairs' = [repairs EXCEPT ![i] = AfterPut(r)]
        /\ UNCHANGED <<wm, heard>>
    BY <1>6 DEF RepairPuts
  <2>3. r.last < a /\ a < r.next /\ a <= wm /\ 0 < a
    <3>1. PutsInGap(r) /\ r.next <= wm
      BY <1>2 DEF RepairsApart
    <3>2. QED
      BY <1>1, <2>2, <3>1 DEF PutsInGap
  <2>4. i \in DOMAIN repairs' /\ repairs'[i] = AfterPut(r)
    BY <1>1, <2>2
  <2>5. PutBy(AfterPut(r), a)
    BY <1>1, <2>3 DEF PutBy, InGap, AfterPut, Moved
  <2>6. Sourced(e)'
    BY <2>1, <2>2, <2>3, <2>4, <2>5 DEF Sourced
  <2>7. ASSUME NEW j \in DOMAIN Line PROVE Line[j].id # a
    <3>1. CASE Line[j].src = "STREAM"
      <4>1. Line[j].id \in heard
        BY <1>2, <3>1 DEF Sourced
      <4>2. QED
        BY <1>2, <2>3, <4>1 DEF RepairsApart, InGap
    <3>2. CASE Line[j].src # "STREAM"
      <4>1. PICK k \in DOMAIN repairs : PutBy(repairs[k], Line[j].id)
        BY <1>2, <3>2 DEF Sourced
      <4>2. CASE k = i
        BY <1>1, <1>3, <2>2, <4>1, <4>2 DEF PutBy
      <4>3. CASE k # i
        <5>1. repairs[k].next <= r.last \/ r.next <= repairs[k].last
          BY <1>2, <4>3 DEF RepairsApart
        <5>2. repairs[k].last < Line[j].id /\ Line[j].id < repairs[k].next
          BY <4>1 DEF PutBy, InGap
        <5>3. QED
          BY <1>1, <1>3, <2>3, <5>1, <5>2
      <4>4. QED
        BY <4>2, <4>3
    <3>3. QED
      BY <3>1, <3>2
  <2>8. QED
    BY <2>1, <2>6, <2>7
<1>7. QED
  BY <1>4, <1>5, <1>6

\* The pump's blocked trade, set when the frame is handled, stays ahead.
LEMMA PumpAheadStep ==
  ASSUME TypeOK, WireAhead, ~Resets, LineInv, [Next]_vars
  PROVE  PumpAhead'
<1> SUFFICES ASSUME putting' # Empty
             PROVE  /\ putting'.first \in heard'
                    /\ \A i \in DOMAIN Line' :
                         Line'[i].src = "STREAM" => Line'[i].id < putting'.first
  BY DEF PumpAhead
<1>1. /\ PumpAhead /\ wm \in Nat
      /\ \A i \in DOMAIN Line :
           Line[i].id \in Nat /\ 0 < Line[i].id /\ Line[i].id <= wm
  BY LineType DEF LineInv, Sourced, TypeOK
<1>2. CASE HandleMessage
  <2>1. PICK n \in Nat :
          /\ wm < n /\ heard' = heard \cup {n}
          /\ queue' = IF Room THEN Append(queue, Streamed(n)) ELSE queue
          /\ putting' = IF Room THEN Empty ELSE [first |-> n, last |-> n]
    BY <1>2, HandleAhead
  <2>2. putting'.first = n /\ queue' = queue /\ produced' = produced
    BY <1>2, <2>1 DEF HandleMessage, sinkVars
  <2>3. Line' = Line
    BY <2>2 DEF Line
  <2>4. QED
    BY <1>1, <2>1, <2>2, <2>3
<1>3. CASE ~HandleMessage
  <2>0. ~PumpResumes
    BY ResumeOne
  <2>1. putting' = putting
    BY <1>3, <2>0, NextCases DEF VenueSends, VenueSnapshot, VenueMisses,
       VenueOtherFrame, Disconnect, LoopTop, Connected, ConnectFails, BackoffEnds, PumpEnds,
       CancelPump, RepairFetched, RepairFails, RepairPuts, DrainTrade,
       DrainRaises, DrainExits, Stop, RunReturns, vars
  <2>2. heard \subseteq heard'
    BY <1>3, TrackerMoves DEF Connected, HandleReconnect
  <2>4. ASSUME NEW i \in DOMAIN Line', Line'[i].src = "STREAM"
        PROVE  \E j \in DOMAIN Line : Line'[i] = Line[j]
    <3>1. CASE Thins(Line', Line)
      BY <2>4, <3>1 DEF Thins
    <3>2. CASE ~Thins(Line', Line)
      <4>1. PICK k \in DOMAIN repairs :
              /\ queue' = Append(queue, Repaired(repairs[k].at)) /\ UNCHANGED produced
              /\ Repaired(repairs[k].at) \in Trade
        BY <1>3, <2>0, <3>2, LineMoves
      <4> DEFINE e == Repaired(repairs[k].at)
      <4>2. e.src = "REST_REPAIR"
        BY DEF Repaired
      <4>3. e \in Trade /\ queue' = Append(queue, e)
        BY <4>1
      <4> HIDE DEF e
      <4>4. /\ DOMAIN Line' = 1..(Len(Line) + 1) /\ Line'[Len(Line) + 1] = e
            /\ \A j \in DOMAIN Line : Line'[j] = Line[j]
            /\ DOMAIN Line = 1..Len(Line) /\ Len(Line) \in Nat
        BY <4>1, <4>3, LineAppends, LineType
      <4>5. i \in DOMAIN Line
        BY <2>4, <4>2, <4>4
      <4>6. QED
        BY <4>4, <4>5
    <3>3. QED
      BY <3>1, <3>2
  <2>5. QED
    BY <1>1, <2>1, <2>2, <2>4 DEF PumpAhead
<1>4. QED
  BY <1>2, <1>3

\* The step of the order: what a line that is thinned keeps, and what one more
\* trade at its end adds.
LEMMA LineStep ==
  TypeOK /\ WireAhead /\ LineInv /\ OnceInOrder /\ [Next]_vars => LineInv' /\ OnceInOrder'
<1> SUFFICES ASSUME TypeOK, WireAhead, LineInv, OnceInOrder, [Next]_vars, ~Resets
             PROVE  LineInv' /\ OnceInOrder'
  BY DEF LineInv, OnceInOrder, StreamOrdered, AtMostOnce
<1>1. RepairsApart' /\ PumpAhead'
  BY ApartStep, PumpAheadStep DEF LineInv
<1>2. /\ Line \in Seq(Trade) /\ DOMAIN Line = 1..Len(Line) /\ Len(Line) \in Nat
      /\ \A i \in DOMAIN Line : Line[i] \in Trade /\ Line[i].id \in Nat
  BY LineType
<1>3. \A e \in Trade : (\E i \in DOMAIN Line : Line[i] = e) => Sourced(e)'
  BY SourceKept DEF LineInv
<1>4. /\ \A i, j \in DOMAIN Line :
           i < j /\ Line[i].src = "STREAM" /\ Line[j].src = "STREAM" => Line[i].id < Line[j].id
      /\ \A i, j \in DOMAIN Line : Line[i].id = Line[j].id => i = j
  BY DEF OnceInOrder, StreamOrdered, AtMostOnce
<1>5. CASE Thins(Line', Line)
  <2>1. PICK f \in [DOMAIN Line' -> DOMAIN Line] :
          /\ \A i \in DOMAIN Line' : Line'[i] = Line[f[i]]
          /\ \A i, j \in DOMAIN Line' : i < j => f[i] < f[j]
    BY <1>5 DEF Thins
  <2>2. \A i \in DOMAIN Line' : f[i] \in DOMAIN Line /\ f[i] \in Nat
    BY <1>2, <2>1
  <2>3. DOMAIN Line' \subseteq Nat
    <3>1. produced' \in Seq(Trade) /\ queue' \in Seq(Trade)
      BY TypeStep DEF TypeOK
    <3>2. Line' \in Seq(Trade)
      BY <3>1, ConcatProperties DEF Line
    <3>3. DOMAIN Line' = 1..Len(Line')
      BY <3>2, SeqDomain
    <3>4. QED
      BY <3>3
  <2>4. (\A i \in DOMAIN Line : Sourced(Line[i]))'
    BY <1>2, <1>3, <2>1, <2>2 DEF Sourced
  <2>5. StreamOrdered'
    BY <1>4, <2>1, <2>2 DEF StreamOrdered
  <2>6. ASSUME NEW i \in DOMAIN Line', NEW j \in DOMAIN Line', Line'[i].id = Line'[j].id
        PROVE  i = j
    <3>1. f[i] = f[j]
      BY <1>4, <2>1, <2>2, <2>6
    <3>2. i \in Nat /\ j \in Nat
      BY <2>3
    <3>3. QED
      BY <2>1, <2>2, <3>1, <3>2
  <2>7. QED
    BY <1>1, <2>4, <2>5, <2>6 DEF LineInv, OnceInOrder, AtMostOnce
<1>6. CASE ~Thins(Line', Line)
  <2>1. PICK e \in Trade :
          /\ queue' = Append(queue, e) /\ UNCHANGED produced
          /\ \/ HandleMessage /\ e = Streamed(wm')
             \/ PumpResumes /\ e = Streamed(putting.first)
             \/ \E i \in DOMAIN repairs : RepairPuts(i) /\ e = Repaired(repairs[i].at)
    BY <1>6, LineMoves
  <2>2. /\ Sourced(e)'
        /\ \A i \in DOMAIN Line :
             /\ Line[i].id # e.id
             /\ Line[i].src = "STREAM" /\ e.src = "STREAM" => Line[i].id < e.id
    BY <2>1, NewTrade
  <2>3. /\ DOMAIN Line' = 1..(Len(Line) + 1) /\ Line'[Len(Line) + 1] = e
        /\ \A i \in DOMAIN Line : Line'[i] = Line[i]
    BY <2>1, LineAppends
  <2>4. \A i \in DOMAIN Line' : i \in DOMAIN Line \/ i = Len(Line) + 1
    BY <1>2, <2>3
  <2>5. (\A i \in DOMAIN Line : Sourced(Line[i]))'
    BY <1>2, <1>3, <2>2, <2>3, <2>4 DEF Sourced
  <2>6. ASSUME NEW i \in DOMAIN Line', NEW j \in DOMAIN Line', i < j
        PROVE  /\ Line'[i].id # Line'[j].id
               /\ Line'[i].src = "STREAM" /\ Line'[j].src = "STREAM"
                    => Line'[i].id < Line'[j].id
    <3>1. i \in DOMAIN Line /\ Line'[i] = Line[i] /\ i # j
      BY <1>2, <2>3, <2>6
    <3>2. CASE j \in DOMAIN Line
      BY <1>4, <2>3, <2>6, <3>1, <3>2
    <3>3. CASE j = Len(Line) + 1
      BY <2>2, <2>3, <3>1, <3>3
    <3>4. QED
      BY <2>4, <3>2, <3>3
  <2>7. \A i, j \in DOMAIN Line' : i < j \/ j < i \/ i = j
    BY <1>2, <2>3
  <2>8. StreamOrdered'
    BY <2>6 DEF StreamOrdered
  <2>9. AtMostOnce'
    BY <2>6, <2>7 DEF AtMostOnce
  <2>10. QED
    BY <1>1, <2>5, <2>8, <2>9 DEF LineInv, OnceInOrder
<1>7. QED
  BY <1>5, <1>6

\* On a venue whose sequence is the trade id the sink sees each trade once, and
\* the live ones in the order the venue printed them, whatever was missed,
\* blocked, cancelled or repaired (runner.py handle_message, drain and _repair,
\* binance.py repair).
THEOREM SinkSeesOnceInOrder == Spec => []OnceInOrder
<1>1. Init => LineInv /\ OnceInOrder
  <2> SUFFICES ASSUME Init PROVE LineInv /\ OnceInOrder
    OBVIOUS
  <2>1. DOMAIN repairs = {} /\ heard = {} /\ putting = Empty /\ produced = <<>> /\ queue = <<>>
    BY EmptySeq DEF Init
  <2>2. Line = <<>>
    BY <2>1 DEF Line
  <2>3. DOMAIN Line = {}
    BY <2>2
  <2>4. QED
    BY <2>1, <2>3 DEF LineInv, RepairsApart, PumpAhead, OnceInOrder, StreamOrdered, AtMostOnce
<1>2. TypeOK /\ WireAhead /\ LineInv /\ OnceInOrder /\ [Next]_vars
        => (LineInv /\ OnceInOrder)'
  BY LineStep
<1>3. QED
  BY <1>1, <1>2, TypeCorrect, TradesAccounted, PTL DEF Spec
=============================================================================
