-------------------------- MODULE KinesisSinkProofs --------------------------
(***************************************************************************)
(* Partial failures never lose or duplicate a record silently, and every   *)
(* request keeps the caps of put_records, for every batch size, byte cap,  *)
(* attempt budget and set of record sizes.                                 *)
(***************************************************************************)
EXTENDS KinesisSink, Sums

\* Where the phases of a call leave the batch and the buffer.
PhaseInv ==
  /\ pending # {} => phase = "putting"
  /\ phase = "putting" => attempt < MaxAttempts
  /\ phase = "closed" => taken = produced
  /\ phase \in {"idle", "produced"} => ~last

\* What a put_records call adds to the stream.
LEMMA LandsLanded ==
  ASSUME NEW S, Lands(S)
  PROVE  Landed' = Landed \cup S
<1>1. landed' = landed \cup (S \X {calls + 1})
  BY DEF Lands
<1>2. \A k \in S : <<k, calls + 1>> \in S \X {calls + 1} /\ <<k, calls + 1>>[1] = k
  OBVIOUS
<1>3. \A p \in S \X {calls + 1} : p[1] \in S
  OBVIOUS
<1>4. Landed \subseteq Landed'
  BY <1>1 DEF Landed
<1>5. S \subseteq Landed'
  BY <1>1, <1>2 DEF Landed
<1>6. Landed' \subseteq Landed \cup S
  BY <1>1, <1>3 DEF Landed
<1>7. QED
  BY <1>4, <1>5, <1>6

\* A call that lands records which had not landed lands nothing twice.
LEMMA LandsOnce ==
  ASSUME NEW S, Lands(S), S \cap Landed = {}, NoDuplicate
  PROVE  NoDuplicate'
<1> SUFFICES ASSUME NEW p \in landed', NEW q \in landed', p[1] = q[1] PROVE p = q
  BY DEF NoDuplicate
<1>1. landed' = landed \cup (S \X {calls + 1})
  BY DEF Lands
<1>2. \A x \in landed : x[1] \in Landed
  BY DEF Landed
<1>3. CASE p \in landed /\ q \in landed
  BY <1>3 DEF NoDuplicate
<1>4. CASE p \in S \X {calls + 1} /\ q \in S \X {calls + 1}
  BY <1>4
<1>5. CASE p \in landed /\ q \in S \X {calls + 1}
  BY <1>2, <1>5
<1>6. CASE q \in landed /\ p \in S \X {calls + 1}
  BY <1>2, <1>6
<1>7. QED
  BY <1>1, <1>3, <1>4, <1>5, <1>6

SinkInv == TypeOK /\ PhaseInv /\ Conserved /\ NoDuplicate /\ LossIsLoud

\* A put_records call, answered or not: `lost` is what is given up, `left` what
\* is retried, and the rest of the batch lands.
LEMMA CallStep ==
  ASSUME SinkInv, phase = "putting",
         NEW left \in SUBSET pending, NEW lost \in SUBSET pending, left \cap lost = {},
         Lands(pending \ (left \cup lost)),
         calls' = calls + 1, pending' = left, dropped' = dropped \cup lost,
         attempt' \in 0..MaxAttempts, phase' = "putting" => attempt' < MaxAttempts,
         phase' \in {"sending", "putting", "raised"},
         left # {} => phase' = "putting", lost # {} => phase' = "raised",
         UNCHANGED <<produced, size, taken, buffered, last>>
  PROVE  SinkInv'
<1> DEFINE S == pending \ (left \cup lost)
<1>1. /\ produced \in Nat /\ taken \in Nat /\ calls \in Nat /\ pending \subseteq 1..taken
      /\ landed \subseteq (1..taken) \X (1..calls) /\ dropped \subseteq 1..taken
  BY DEF SinkInv, TypeOK
<1>2. Landed' = Landed \cup S
  BY LandsLanded
<1>3. NoDuplicate'
  BY LandsOnce DEF SinkInv, Conserved
<1>4. landed' \subseteq (1..taken) \X (1..(calls + 1))
  <2>1. landed' = landed \cup (S \X {calls + 1})
    BY DEF Lands
  <2>2. 1..calls \subseteq 1..(calls + 1) /\ calls + 1 \in 1..(calls + 1)
    BY <1>1
  <2>3. (1..taken) \X (1..calls) \subseteq (1..taken) \X (1..(calls + 1))
    BY <2>2
  <2>4. S \X {calls + 1} \subseteq (1..taken) \X (1..(calls + 1))
    BY <1>1, <2>2
  <2>5. QED
    BY <1>1, <2>1, <2>3, <2>4
<1>5. TypeOK'
  BY <1>1, <1>4 DEF SinkInv, TypeOK
<1>6. PhaseInv'
  BY DEF PhaseInv
<1>7. Conserved'
  BY <1>2 DEF SinkInv, Conserved
<1>8. LossIsLoud'
  <2>1. dropped = {}
    BY DEF SinkInv, LossIsLoud
  <2>2. QED
    BY <2>1 DEF LossIsLoud
<1>9. QED
  BY <1>3, <1>5, <1>6, <1>7, <1>8 DEF SinkInv

\* The step of the sink's invariant, one case per action.
LEMMA SinkStep == SinkInv /\ [Next]_vars => SinkInv'
<1> SUFFICES ASSUME SinkInv, [Next]_vars PROVE SinkInv'
  OBVIOUS
<1>a. /\ produced \in Nat /\ taken \in Nat /\ taken <= produced
      /\ size \in [1..produced -> Sizes] /\ MaxAttempts \in Nat \ {0}
  BY ConstantsAssumption DEF SinkInv, TypeOK
<1>b. ASSUME UNCHANGED landed PROVE Landed' = Landed
  BY <1>b DEF Landed
<1> USE DEF SinkInv, PhaseInv, Conserved, NoDuplicate, LossIsLoud
<1>1. ASSUME NEW b \in Sizes, Produce(b) PROVE SinkInv'
  <2>1. size' \in [1..produced' -> Sizes] /\ produced' = produced + 1
    BY <1>a, <1>1 DEF Produce
  <2>2. TypeOK'
    BY <1>a, <1>1, <2>1 DEF Produce, TypeOK
  <2>3. QED
    BY <1>b, <1>1, <2>2 DEF Produce
<1>2. CASE Poll
  BY <1>b, <1>2 DEF Poll, TypeOK
<1>3. CASE Flush
  BY <1>b, <1>3 DEF Flush, TypeOK
<1>4. CASE TakeBatch
  <2>1. PICK n \in 1..produced - taken : /\ taken' = taken + n
                                         /\ pending' = taken + 1 .. taken + n
    BY <1>4 DEF TakeBatch
  <2>2. /\ phase = "sending" /\ phase' = "putting" /\ attempt' = 0
        /\ UNCHANGED <<produced, size, calls, landed, last, dropped>>
    BY <1>4 DEF TakeBatch
  <2>3. /\ taken' \in Nat /\ taken' <= produced /\ 1..taken \subseteq 1..taken'
        /\ pending' \subseteq 1..taken' /\ 1..taken' = 1..taken \cup pending'
        /\ 1..taken \cap pending' = {}
    BY <1>a, <2>1
  <2>4. Landed \subseteq 1..taken /\ dropped \subseteq 1..taken /\ pending = {}
    BY <2>2
  <2>5. landed' \subseteq (1..taken') \X (1..calls')
    <3>1. (1..taken) \X (1..calls) \subseteq (1..taken') \X (1..calls)
      BY <2>3
    <3>2. QED
      BY <2>2, <3>1 DEF TypeOK
  <2>6. TypeOK'
    BY <1>a, <2>2, <2>3, <2>4, <2>5 DEF TypeOK
  <2>7. Conserved'
    BY <1>b, <2>2, <2>3, <2>4
  <2>8. QED
    BY <1>a, <1>b, <2>2, <2>6, <2>7
<1>5. CASE SendAllEnds
  <2>1. taken = produced
    BY <1>a, <1>5 DEF SendAllEnds, Buffer
  <2>2. phase = "sending" /\ pending = {} /\ dropped = {}
    BY <1>5 DEF SendAllEnds
  <2>3. Landed = 1..produced
    BY <2>1, <2>2
  <2>4. QED
    BY <1>a, <1>b, <1>5, <2>1, <2>2, <2>3 DEF SendAllEnds, TypeOK
<1>6. ASSUME NEW failed \in SUBSET pending, PutRecords(failed) PROVE SinkInv'
  <2>1. attempt + 1 \in 0..MaxAttempts
    <3>1. attempt \in 0..MaxAttempts
      BY DEF TypeOK
    <3>2. attempt < MaxAttempts
      BY <1>6 DEF PutRecords
    <3>3. QED
      BY <1>a, <3>1, <3>2
  <2>2. /\ phase = "putting" /\ Lands(pending \ failed) /\ calls' = calls + 1
        /\ attempt' = attempt + 1 /\ UNCHANGED <<produced, size, taken, buffered, last>>
    BY <1>6 DEF PutRecords
  <2>3. CASE failed # {} /\ attempt + 1 = MaxAttempts
    <3>1. phase' = "raised" /\ pending' = {} /\ dropped' = dropped \cup failed
      BY <1>6, <2>3 DEF PutRecords
    <3>2. pending \ ({} \cup failed) = pending \ failed /\ {} \in SUBSET pending
      OBVIOUS
    <3> HIDE DEF SinkInv
    <3>3. QED
      BY <2>1, <2>2, <3>1, <3>2, CallStep
  <2>4. CASE ~(failed # {} /\ attempt + 1 = MaxAttempts)
    <3>1. /\ phase' = IF failed = {} THEN "sending" ELSE "putting"
          /\ pending' = failed /\ dropped' = dropped \cup {}
      BY <1>6, <2>4 DEF PutRecords
    <3>2. pending \ (failed \cup {}) = pending \ failed /\ {} \in SUBSET pending
      OBVIOUS
    <3>3. phase' = "putting" => attempt' < MaxAttempts
      BY <1>a, <2>1, <2>2, <2>4, <3>1 DEF TypeOK
    <3> HIDE DEF SinkInv
    <3>4. QED
      BY <2>1, <2>2, <3>1, <3>2, <3>3, CallStep
  <2>5. QED
    BY <2>3, <2>4
<1>7. ASSUME NEW reached \in SUBSET pending, ClientRaises(reached) PROVE SinkInv'
  <2> DEFINE lost == pending \ reached
  <2>1. pending \ ({} \cup lost) = reached
    OBVIOUS
  <2>2. /\ phase = "putting" /\ Lands(pending \ ({} \cup lost)) /\ calls' = calls + 1
        /\ pending' = {} /\ dropped' = dropped \cup lost /\ phase' = "raised"
        /\ UNCHANGED <<produced, size, taken, buffered, attempt, last>>
    BY <1>7, <2>1 DEF ClientRaises
  <2>3. attempt' \in 0..MaxAttempts
    BY <2>2 DEF TypeOK
  <2> HIDE DEF lost, SinkInv
  <2>4. lost \in SUBSET pending
    BY DEF lost
  <2>5. QED
    BY <2>2, <2>3, <2>4, CallStep
<1>8. CASE UNCHANGED vars
  BY <1>b, <1>8 DEF vars, TypeOK
<1>9. QED
  BY <1>1, <1>2, <1>3, <1>4, <1>5, <1>6, <1>7, <1>8 DEF Next

\* The sink starts empty.
LEMMA SinkStarts == Init => SinkInv
<1> SUFFICES ASSUME Init PROVE SinkInv
  OBVIOUS
<1>1. /\ produced = 0 /\ taken = 0 /\ pending = {} /\ attempt = 0 /\ calls = 0
      /\ landed = {} /\ phase = "idle" /\ last = FALSE /\ dropped = {}
  BY DEF Init
<1>2. size \in [1..produced -> Sizes]
  BY DEF Init
<1>3. Landed = {}
  BY <1>1 DEF Landed
<1>4. TypeOK
  <2>1. last \in BOOLEAN /\ landed \subseteq (1..taken) \X (1..calls)
    BY <1>1
  <2>2. attempt \in 0..MaxAttempts /\ taken <= produced
    BY ConstantsAssumption, <1>1
  <2>3. produced \in Nat /\ taken \in Nat /\ calls \in Nat
    BY <1>1
  <2>4. QED
    BY <1>1, <1>2, <2>1, <2>2, <2>3 DEF TypeOK
<1>5. Conserved
  BY <1>1, <1>3 DEF Conserved
<1>6. NoDuplicate /\ PhaseInv /\ LossIsLoud
  BY <1>1 DEF NoDuplicate, PhaseInv, LossIsLoud
<1>7. QED
  BY <1>4, <1>5, <1>6 DEF SinkInv

\* Whatever the stream refuses and however often, a record that left the buffer
\* is pending, landed once, or given up by an exception the drain sees.
THEOREM SinkLosesNothingSilently == Spec => []LosesNothing
<1>1. SinkInv => LosesNothing
  BY DEF SinkInv, LosesNothing
<1>2. QED
  BY <1>1, SinkStarts, SinkStep, PTL DEF Spec

\* The variables keep their types (KinesisSink.__init__ and every method).
THEOREM SinkTypes == Spec => []TypeOK
<1>1. SinkInv => TypeOK
  BY DEF SinkInv
<1>2. QED
  BY <1>1, SinkStarts, SinkStep, PTL DEF Spec

\* A put_records call, answered or not, is Service of the protocol.
LEMMA CallServes ==
  ASSUME SinkInv, phase = "putting", NEW S \in SUBSET pending, NEW L \in SUBSET pending,
         S \cap L = {}, Lands(S), dropped' = dropped \cup L,
         phase' \in {"sending", "putting", "raised"}, L # {} => phase' = "raised",
         UNCHANGED <<produced, taken, last>>
  PROVE  Promise!Next
<1> USE DEF SinkInv
<1>1. Landed' = Landed \cup S
  BY LandsLanded
<1>2. S \subseteq Promise!Outstanding /\ L \subseteq Promise!Outstanding
  BY DEF Promise!Outstanding, TypeOK, Conserved
<1>3. Promise!Service(S, L)
  BY <1>1 DEF Promise!Service
<1>4. QED
  BY <1>2, <1>3 DEF Promise!Next

\* Every step of the sink is a step of the protocol or changes nothing of it.
LEMMA StepServes == SinkInv /\ [Next]_vars => [Promise!Next]_(Promise!sinkVars)
<1> SUFFICES ASSUME SinkInv, [Next]_vars PROVE [Promise!Next]_(Promise!sinkVars)
  OBVIOUS
<1>a. /\ produced \in Nat /\ taken \in Nat /\ taken <= produced
      /\ MaxRecords \in Nat
  BY ConstantsAssumption DEF SinkInv, TypeOK
<1>b. ASSUME UNCHANGED landed PROVE Landed' = Landed
  BY <1>b DEF Landed
<1>1. ASSUME NEW b \in Sizes, Produce(b) PROVE Promise!Next
  <2>1. produced + 1 \in 1..MaxRecords /\ produced + 1 \notin 1..produced
    BY <1>a, <1>1 DEF Produce
  <2>2. 1..produced' = (1..produced) \cup {produced + 1}
    BY <1>a, <1>1 DEF Produce
  <2>3. Promise!Produce(produced + 1) \/ last
    BY <1>b, <1>1, <2>1, <2>2 DEF Produce, Promise!Produce
  <2>4. ~last
    BY <1>1 DEF Produce, SinkInv, PhaseInv
  <2>5. QED
    BY <2>1, <2>3, <2>4 DEF Promise!Next
<1>2. CASE Poll
  BY <1>b, <1>2 DEF Poll, Promise!sinkVars
<1>3. CASE Flush
  <2>1. ~last
    BY <1>3 DEF Flush, SinkInv, PhaseInv
  <2>2. Promise!FlushBegins
    BY <1>b, <1>3, <2>1 DEF Flush, Promise!FlushBegins
  <2>3. QED
    BY <2>2 DEF Promise!Next
<1>4. CASE TakeBatch
  BY <1>b, <1>4 DEF TakeBatch, Promise!sinkVars
<1>5. CASE SendAllEnds
  <2>1. Buffer = {} /\ Buffer' = {} /\ taken = produced /\ phase = "sending"
    BY <1>a, <1>5 DEF SendAllEnds, Buffer
  <2>2. CASE last
    <3>1. Promise!Outstanding = {}
      BY <2>1 DEF Promise!Outstanding, SinkInv, Conserved, PhaseInv
    <3>2. Promise!Cardinality(Promise!Outstanding) = Cardinality(Buffer')
      BY <2>1, <3>1 DEF Promise!Cardinality, Cardinality
    <3>3. phase' = "closed" /\ UNCHANGED <<produced, landed, dropped, last>>
      BY <1>5, <2>2 DEF SendAllEnds
    <3>0. Cardinality(Buffer') \in Nat
      BY <2>1, FS_EmptySet
    <3>4. Promise!FlushReturns
      BY <1>b, <2>1, <2>2, <3>0, <3>2, <3>3 DEF Promise!FlushReturns
    <3>5. QED
      BY <3>4 DEF Promise!Next
  <2>3. CASE ~last
    BY <1>b, <1>5, <2>1, <2>3 DEF SendAllEnds, Promise!sinkVars
  <2>4. QED
    BY <2>2, <2>3
<1>6. ASSUME NEW failed \in SUBSET pending, PutRecords(failed) PROVE Promise!Next
  <2>1. CASE failed # {} /\ attempt + 1 = MaxAttempts
    BY <1>6, <2>1, CallServes DEF PutRecords
  <2>2. CASE ~(failed # {} /\ attempt + 1 = MaxAttempts)
    <3>1. dropped' = dropped \cup {} /\ {} \in SUBSET pending /\ phase = "putting"
      BY <1>6, <2>2 DEF PutRecords
    <3>2. QED
      BY <1>6, <2>2, <3>1, CallServes DEF PutRecords
  <2>3. QED
    BY <2>1, <2>2
<1>7. ASSUME NEW reached \in SUBSET pending, ClientRaises(reached) PROVE Promise!Next
  BY <1>7, CallServes DEF ClientRaises
<1>8. CASE UNCHANGED vars
  BY <1>b, <1>8 DEF vars, Promise!sinkVars, Buffer
<1>9. QED
  BY <1>1, <1>2, <1>3, <1>4, <1>5, <1>6, <1>7, <1>8 DEF Next

\* KinesisSink implements the Sink protocol of core/sinks.py: for every batch
\* size and attempt budget, only an exception gives records up and flush returns
\* the number of records that are not on the stream.
THEOREM SinkKeepsPromise == Spec => KeepsPromise
<1>1. Init => Promise!Init
  BY DEF Init, Landed, Promise!Init
<1>2. QED
  BY <1>1, SinkStarts, SinkStep, StepServes, PTL DEF Spec, KeepsPromise, Promise!Spec

-----------------------------------------------------------------------------
\* What the sink counts is such a sum.
LEMMA BytesIsSum == \A S : Bytes(S) = Sum(size, S)
BY DEF Bytes, MapThenSumSet, MapThenFoldSet, Sum, SumOn, SumAt, Pick

\* WithinCaps with its sums written with Sum.
Caps ==
  /\ buffered = Sum(size, Buffer)
  /\ phase = "putting" =>
       /\ Cardinality(pending) <= MaxBatch
       /\ Cardinality(pending) = 1 \/ Sum(size, pending) <= MaxBytes
  /\ BufferBounded

\* The caps are WithinCaps.
LEMMA CapsSuffice == Caps => WithinCaps
BY BytesIsSum DEF Caps, WithinCaps, BytesExact, BatchWithinCaps

\* What the sums of the caps range over is finite and has sizes.
LEMMA SizesSum ==
  ASSUME TypeOK
  PROVE  /\ IsFiniteSet(Buffer) /\ IsFiniteSet(pending)
         /\ \A k \in 1..produced : size[k] \in Nat
         /\ Buffer \subseteq 1..produced /\ pending \subseteq 1..produced
         /\ Cardinality(Buffer) = produced - taken
<1>1. produced \in Nat /\ taken \in Nat /\ taken <= produced /\ 0 \in Nat
  BY DEF TypeOK
<1>2. IsFiniteSet(Buffer) /\ Cardinality(Buffer) = produced - taken
  BY <1>1, IntervalSize DEF Buffer
<1>3. IsFiniteSet(0 + 1 .. taken)
  BY <1>1, IntervalSize
<1>4. IsFiniteSet(pending)
  <2>1. pending \subseteq 0 + 1 .. taken
    BY <1>1 DEF TypeOK
  <2>2. QED
    BY <1>3, <2>1, FS_Subset
<1>5. \A k \in 1..produced : size[k] \in Nat
  BY ConstantsAssumption DEF TypeOK
<1>6. Buffer \subseteq 1..produced
  BY <1>1 DEF Buffer
<1>7. pending \subseteq 1..produced
  BY <1>1 DEF TypeOK
<1>8. QED
  BY <1>2, <1>4, <1>5, <1>6, <1>7

\* produce counts the bytes of the record it appends.
LEMMA ProduceCaps ==
  ASSUME TypeOK, PhaseInv, Caps, NEW b \in Sizes, Produce(b)
  PROVE  Caps'
<1>1. /\ produced \in Nat /\ taken \in Nat /\ taken <= produced /\ b \in Nat
      /\ size \in [1..produced -> Sizes]
  BY ConstantsAssumption DEF TypeOK
<1>2. /\ taken' = taken /\ produced' = produced + 1 /\ phase' = "produced"
      /\ buffered' = buffered + b
      /\ size' = [k \in 1..produced + 1 |-> IF k <= produced THEN size[k] ELSE b]
  BY <1>1 DEF Produce
<1> DEFINE e == produced + 1
<1>3. e \in Buffer' /\ Buffer' \ {e} = Buffer
  BY <1>1, <1>2 DEF Buffer
<1>4. IsFiniteSet(Buffer) /\ Buffer \subseteq 1..produced /\ \A k \in 1..produced : size[k] \in Nat
  BY SizesSum
<1>5. IsFiniteSet(Buffer')
  <2>1. e \in Nat /\ taken <= e
    BY <1>1
  <2>2. QED
    BY <1>1, <1>2, <2>1, IntervalSize DEF Buffer
<1>6. size'[e] = b /\ \A k \in Buffer : size'[k] = size[k]
  <2>1. e \in 1..produced + 1 /\ ~(e <= produced)
    BY <1>1
  <2>2. \A k \in Buffer : k \in 1..produced + 1 /\ k <= produced
    BY <1>1, <1>4
  <2>3. QED
    BY <1>2, <2>1, <2>2
<1>7. \A k \in Buffer' : size'[k] \in Nat
  BY <1>1, <1>3, <1>4, <1>6
<1>8. Sum(size', Buffer') = b + Sum(size', Buffer)
  <2> HIDE DEF e
  <2>1. Sum(size', Buffer') = size'[e] + Sum(size', Buffer' \ {e})
    BY <1>3, <1>5, <1>7, SumRemoves
  <2>2. QED
    BY <1>3, <1>6, <2>1
<1>9. Sum(size, Buffer) \in Nat /\ Sum(size', Buffer) = Sum(size, Buffer)
  <2>1. \A k \in Buffer : size[k] \in Nat /\ size[k] = size'[k]
    BY <1>4, <1>6
  <2>2. QED
    BY <1>4, <2>1, SumAgrees
<1>10. buffered' = Sum(size', Buffer')
  BY <1>1, <1>2, <1>8, <1>9 DEF Caps
<1>11. QED
  BY <1>2, <1>10 DEF Caps, BufferBounded

\* _take_batch keeps both caps, and the byte count with it.
LEMMA TakeBatchCaps ==
  ASSUME TypeOK, Caps, TakeBatch
  PROVE  Caps'
<1>1. produced \in Nat /\ taken \in Nat /\ taken <= produced /\ MaxBatch \in Nat \ {0}
  BY ConstantsAssumption DEF TypeOK
<1>2. PICK n \in 1..produced - taken :
        /\ IsBatch(n) /\ taken' = taken + n /\ pending' = taken + 1 .. taken + n
        /\ buffered' = Bytes(taken + n + 1 .. produced)
  BY DEF TakeBatch
<1>3. phase' = "putting" /\ UNCHANGED <<produced, size>>
  BY DEF TakeBatch
<1>4. Cardinality(pending') = n
  <2>1. n \in Nat /\ taken + n \in Nat /\ taken <= taken + n /\ (taken + n) - taken = n
    BY <1>1
  <2>2. QED
    BY <1>1, <1>2, <2>1, IntervalSize
<1>5. n = 1 \/ (n <= MaxBatch /\ Sum(size, pending') <= MaxBytes)
  BY <1>2, BytesIsSum DEF IsBatch, Fits
<1>6. buffered' = Sum(size', Buffer')
  BY <1>2, <1>3, BytesIsSum DEF Buffer
<1>7. n <= MaxBatch /\ (n = 1 \/ Sum(size, pending') <= MaxBytes)
  BY <1>1, <1>5
<1>8. QED
  BY <1>3, <1>4, <1>6, <1>7 DEF Caps, BufferBounded

\* What is retried is part of a batch that was within the caps.
LEMMA RetryCaps ==
  ASSUME TypeOK, Caps, phase = "putting", NEW failed \in SUBSET pending,
         pending' = failed, phase' \in {"sending", "putting", "raised"},
         phase' = "putting" => failed # {},
         UNCHANGED <<produced, size, taken, buffered>>
  PROVE  Caps'
<1>1. IsFiniteSet(pending) /\ \A k \in pending : size[k] \in Nat
  BY SizesSum
<1>2. /\ IsFiniteSet(failed) /\ Cardinality(failed) <= Cardinality(pending)
      /\ Cardinality(failed) \in Nat /\ Cardinality(pending) \in Nat
      /\ Cardinality(failed) = 0 <=> failed = {}
  BY <1>1, FS_Subset, FS_CardinalityType, FS_EmptySet
<1>3. Sum(size, failed) <= Sum(size, pending)
  BY <1>1, SumMonotone
<1>4. /\ Sum(size, failed) \in Nat /\ Sum(size, pending) \in Nat /\ MaxBatch \in Nat
      /\ MaxBytes \in Nat
  <2>1. \A k \in failed : size[k] \in Nat
    BY <1>1
  <2>2. QED
    BY <1>1, <1>2, <2>1, SumAgrees, ConstantsAssumption
<1>5. Cardinality(failed) <= MaxBatch
  BY <1>2, <1>4 DEF Caps
<1>6. failed # {} => Cardinality(failed) = 1 \/ Sum(size, failed) <= MaxBytes
  BY <1>2, <1>3, <1>4 DEF Caps
<1>7. buffered' = Sum(size', Buffer')
  BY DEF Caps, Buffer
<1>8. QED
  BY <1>5, <1>6, <1>7 DEF Caps, BufferBounded

\* The step of the caps, one case per action.
LEMMA CapsStep == SinkInv /\ Caps /\ [Next]_vars => Caps'
<1> SUFFICES ASSUME TypeOK, PhaseInv, Caps, [Next]_vars PROVE Caps'
  BY DEF SinkInv
<1>1. ASSUME NEW b \in Sizes, Produce(b) PROVE Caps'
  BY <1>1, ProduceCaps
<1>2. CASE Poll
  <2>1. phase' # "putting" /\ UNCHANGED <<produced, size, taken, buffered, pending>>
    BY <1>2 DEF Poll
  <2>2. BufferBounded'
    <3>1. Cardinality(Buffer) \in Int /\ buffered \in Int /\ MaxBatch \in Int /\ MaxBytes \in Int
      <4>1. produced \in Nat /\ taken \in Nat
        BY DEF TypeOK
      <4>2. IsFiniteSet(Buffer) /\ \A k \in Buffer : size[k] \in Nat
        BY SizesSum
      <4>3. Sum(size, Buffer) \in Nat
        BY <4>2, SumAgrees
      <4>4. QED
        BY <4>1, <4>3, SizesSum, ConstantsAssumption DEF Caps
    <3>2. phase' = "idle" => ~Full
      BY <1>2 DEF Poll
    <3>3. Buffer' = Buffer
      BY <2>1 DEF Buffer
    <3>4. QED
      BY <2>1, <3>1, <3>2, <3>3 DEF BufferBounded, Full
  <2>3. QED
    BY <2>1, <2>2 DEF Caps, Buffer
<1>3. CASE Flush
  BY <1>3 DEF Flush, Caps, BufferBounded, Buffer
<1>4. CASE TakeBatch
  BY <1>4, TakeBatchCaps
<1>5. CASE SendAllEnds
  <2>1. Buffer = {} /\ Buffer' = Buffer /\ buffered' = buffered /\ size' = size /\ phase' # "putting"
    BY <1>5 DEF SendAllEnds, Buffer
  <2>2. Sum(size, {}) = 0
    BY SumEmpty
  <2>3. Cardinality(Buffer) = 0 /\ buffered = 0
    BY <2>1, <2>2, FS_EmptySet DEF Caps
  <2>4. BufferBounded'
    BY <2>1, <2>3, ConstantsAssumption DEF BufferBounded
  <2>5. QED
    BY <2>1, <2>4 DEF Caps
<1>6. ASSUME NEW failed \in SUBSET pending, PutRecords(failed) PROVE Caps'
  <2>1. CASE failed # {} /\ attempt + 1 = MaxAttempts
    BY <1>6, <2>1 DEF PutRecords, Caps, BufferBounded, Buffer
  <2>2. CASE ~(failed # {} /\ attempt + 1 = MaxAttempts)
    <3>1. /\ phase = "putting" /\ pending' = failed
          /\ phase' = (IF failed = {} THEN "sending" ELSE "putting")
          /\ UNCHANGED <<produced, size, taken, buffered>>
      BY <1>6, <2>2 DEF PutRecords
    <3>2. QED
      BY <3>1, RetryCaps
  <2>3. QED
    BY <2>1, <2>2
<1>7. ASSUME NEW reached \in SUBSET pending, ClientRaises(reached) PROVE Caps'
  BY <1>7 DEF ClientRaises, Caps, BufferBounded, Buffer
<1>8. CASE UNCHANGED vars
  BY <1>8 DEF vars, Caps, BufferBounded, Buffer
<1>9. QED
  BY <1>1, <1>2, <1>3, <1>4, <1>5, <1>6, <1>7, <1>8 DEF Next

\* The empty buffer is within the caps.
LEMMA CapsStart == Init => Caps
<1> SUFFICES ASSUME Init PROVE Caps
  OBVIOUS
<1>1. Buffer = {} /\ buffered = 0 /\ phase = "idle"
  BY DEF Init, Buffer
<1>2. Sum(size, {}) = 0
  BY SumEmpty
<1>3. Cardinality(Buffer) = 0
  BY <1>1, FS_EmptySet
<1>4. QED
  BY <1>1, <1>2, <1>3, ConstantsAssumption DEF Caps, BufferBounded

\* Both caps of put_records hold for every batch and every retry, the idle buffer
\* is below both thresholds, and _buffered_bytes is the size of the buffer
\* (_take_batch, poll, _send_with_retry), for every cap and every set of sizes.
THEOREM SinkWithinCaps == Spec => []WithinCaps
<1>1. Spec => [](SinkInv /\ Caps)
  BY SinkStarts, SinkStep, CapsStart, CapsStep, PTL DEF Spec
<1>2. QED
  BY <1>1, CapsSuffice, PTL
=============================================================================
