----------------------------- MODULE KinesisSink -----------------------------
(***************************************************************************)
(* KinesisSink (awsnative/sink.py) driven by IngestRunner.drain: produce   *)
(* and poll for every trade, poll when idle, flush once at the end.        *)
(*                                                                         *)
(* Records are numbered in the order they are produced, so the buffer is   *)
(* always the interval taken+1..produced: a batch is a prefix of it and    *)
(* nothing is put back.  A put_records call lands the records that did not *)
(* fail; landed pairs each of them with the number of the call, which is   *)
(* the order consumers of the key see (one call keeps its own order).      *)
(***************************************************************************)
EXTENDS Integers, FiniteSets, FiniteSetsExt

CONSTANTS
  MaxBatch,     \* max_batch: records per put_records request
  MaxBytes,     \* max_bytes: bytes per put_records request
  MaxAttempts,  \* max_attempts
  Sizes,        \* sizes an encoded trade can have
  MaxRecords    \* bound: trades produced

ASSUME ConstantsAssumption ==
  /\ MaxBatch \in Nat \ {0} /\ MaxBytes \in Nat \ {0} /\ MaxAttempts \in Nat \ {0}
  /\ Sizes \subseteq Nat \ {0} /\ Sizes # {}
  /\ MaxRecords \in Nat

VARIABLES
  produced,   \* records 1..produced have been given to produce
  size,       \* their encoded sizes
  taken,      \* records 1..taken have left the buffer
  buffered,   \* _buffered_bytes
  pending,    \* records of the batch being sent that have not landed
  attempt,    \* put_records calls made for this batch
  calls,      \* put_records calls made in all
  landed,     \* {<<record, call>>} : what the stream holds
  phase,      \* what the drain is doing in the sink
  last,       \* is this the final flush?
  dropped     \* records given up when an exception left _send_with_retry

vars == <<produced, size, taken, buffered, pending, attempt, calls, landed, phase,
          last, dropped>>

Landed == {p[1] : p \in landed}

Buffer == taken + 1 .. produced

Bytes(S) == MapThenSumSet(LAMBDA k : size[k], S)

\* What buffered holds is BytesExact's to say.
TypeOK ==
  /\ produced \in Nat /\ taken \in Nat /\ taken <= produced
  /\ size \in [1..produced -> Sizes]
  /\ pending \subseteq 1..taken
  /\ attempt \in 0..MaxAttempts /\ calls \in Nat
  /\ landed \subseteq (1..taken) \X (1..calls)
  /\ phase \in {"idle", "produced", "sending", "putting", "raised", "closed"}
  /\ last \in BOOLEAN
  /\ dropped \subseteq 1..taken

Init ==
  /\ produced = 0 /\ size = [k \in 1..0 |-> 0] /\ taken = 0 /\ buffered = 0
  /\ pending = {} /\ attempt = 0 /\ calls = 0 /\ landed = {}
  /\ phase = "idle" /\ last = FALSE /\ dropped = {}
-----------------------------------------------------------------------------
\* produce: buffer only.
Produce(b) ==
  /\ phase = "idle" /\ produced < MaxRecords
  /\ produced' = produced + 1
  /\ size' = [k \in 1..produced + 1 |-> IF k <= produced THEN size[k] ELSE b]
  /\ buffered' = buffered + b
  /\ phase' = "produced"
  /\ UNCHANGED <<taken, pending, attempt, calls, landed, last, dropped>>

Full == Cardinality(Buffer) >= MaxBatch \/ buffered >= MaxBytes

\* poll after produce.  The poll of an idle drain finds the thresholds unmet
\* (BufferBounded) and changes nothing.
Poll ==
  /\ phase = "produced"
  /\ phase' = IF Full THEN "sending" ELSE "idle"
  /\ UNCHANGED <<produced, size, taken, buffered, pending, attempt, calls, landed,
                 last, dropped>>

\* flush, once the drain loop has ended.
Flush ==
  /\ phase = "idle"
  /\ phase' = "sending" /\ last' = TRUE
  /\ UNCHANGED <<produced, size, taken, buffered, pending, attempt, calls, landed,
                 dropped>>

\* The byte cap tested before the record that crosses it is added.
Fits_LateByteTest(n) ==
  n = 1 \/ (n <= MaxBatch /\ Bytes(taken + 1 .. taken + n - 1) <= MaxBytes)

\* n records fit one request; a single record always goes.
Fits(n) == n = 1 \/ (n <= MaxBatch /\ Bytes(taken + 1 .. taken + n) <= MaxBytes)

\* _take_batch: the longest prefix of the buffer that fits.
IsBatch(n) ==
  /\ n \in 1..produced - taken
  /\ Fits(n)
  /\ n < produced - taken => ~Fits(n + 1)

\* _send_all takes the next batch; the buffer no longer holds it.
TakeBatch ==
  /\ phase = "sending" /\ Buffer # {}
  /\ \E n \in 1..produced - taken :
       /\ IsBatch(n)
       /\ taken' = taken + n
       /\ pending' = taken + 1 .. taken + n
       /\ buffered' = Bytes(taken + n + 1 .. produced)
  /\ attempt' = 0
  /\ phase' = "putting"
  /\ UNCHANGED <<produced, size, calls, landed, last, dropped>>

\* The sink takes trades again after the final flush.
SendAllEnds_Reopens ==
  /\ phase = "sending" /\ Buffer = {}
  /\ phase' = "idle"
  /\ UNCHANGED <<produced, size, taken, buffered, pending, attempt, calls, landed,
                 last, dropped>>

\* _send_all ends: back to the drain, for good after flush.
SendAllEnds ==
  /\ phase = "sending" /\ Buffer = {}
  /\ phase' = IF last THEN "closed" ELSE "idle"
  /\ UNCHANGED <<produced, size, taken, buffered, pending, attempt, calls, landed,
                 last, dropped>>

Lands(S) == landed' = landed \cup (S \X {calls + 1})

\* The attempts start over when they are used up.
PutRecords_NoBudget(failed) ==
  /\ phase = "putting"
  /\ failed \subseteq pending
  /\ Lands(pending \ failed)
  /\ calls' = IF failed = pending THEN calls ELSE calls + 1
  /\ phase' = IF failed = {} THEN "sending" ELSE "putting"
  /\ pending' = failed
  /\ attempt' = (attempt + 1) % MaxAttempts
  /\ UNCHANGED <<produced, size, taken, buffered, last, dropped>>

\* The retry sends the whole batch again.
PutRecords_RetriesAll(failed) ==
  /\ phase = "putting"
  /\ failed \subseteq pending
  /\ Lands(pending \ failed)
  /\ calls' = calls + 1 /\ attempt' = attempt + 1
  /\ IF failed # {} /\ attempt + 1 = MaxAttempts
     THEN phase' = "raised" /\ pending' = {} /\ dropped' = dropped \cup failed
     ELSE /\ phase' = IF failed = {} THEN "sending" ELSE "putting"
          /\ pending' = IF failed = {} THEN {} ELSE pending
          /\ dropped' = dropped
  /\ UNCHANGED <<produced, size, taken, buffered, last>>

\* put_records answered and the records of failed were refused: they alone are
\* retried, and when the attempts are used up RuntimeError is raised.
PutRecords(failed) ==
  /\ phase = "putting"
  /\ failed \subseteq pending
  /\ Lands(pending \ failed)
  /\ calls' = calls + 1 /\ attempt' = attempt + 1
  /\ IF failed # {} /\ attempt + 1 = MaxAttempts
     THEN phase' = "raised" /\ pending' = {} /\ dropped' = dropped \cup failed
     ELSE /\ phase' = IF failed = {} THEN "sending" ELSE "putting"
          /\ pending' = failed
          /\ dropped' = dropped
  /\ UNCHANGED <<produced, size, taken, buffered, last>>

\* The client raises (throttled call, network, credentials): nothing catches it,
\* and the request may have been applied to any part of the batch.
ClientRaises(reached) ==
  /\ phase = "putting"
  /\ reached \subseteq pending
  /\ Lands(reached)
  /\ calls' = calls + 1
  /\ phase' = "raised" /\ pending' = {} /\ dropped' = dropped \cup (pending \ reached)
  /\ UNCHANGED <<produced, size, taken, buffered, attempt, last>>

Next ==
  \/ \E b \in Sizes : Produce(b)
  \/ Poll \/ Flush \/ TakeBatch \/ SendAllEnds
  \/ \E S \in SUBSET pending : PutRecords(S) \/ ClientRaises(S)

Spec == Init /\ [][Next]_vars

\* The drain runs: a call into the sink goes on until it returns or raises.
\* Nothing says that more trades come, or that the drain ever stops.
FairSpec == Spec /\ WF_vars(Poll \/ TakeBatch \/ SendAllEnds
                            \/ \E S \in SUBSET pending : PutRecords(S) \/ ClientRaises(S))
-----------------------------------------------------------------------------
\* Partial failures (_send_with_retry): every record that left the buffer is in
\* exactly one place: pending, on the stream, or given up by an exception.
Conserved ==
  /\ 1..taken = pending \cup Landed \cup dropped
  /\ pending \cap Landed = {} /\ pending \cap dropped = {} /\ Landed \cap dropped = {}

\* Only the failed subset is retried (_send_with_retry): no record lands twice.
NoDuplicate ==
  \A p, q \in landed : p[1] = q[1] => p = q

\* Records are given up only by an exception the drain sees (_send_with_retry,
\* flush): a sink that has not raised has lost nothing, and after the final
\* flush everything produced is on the stream.
LossIsLoud ==
  /\ dropped # {} => phase = "raised"
  /\ phase = "closed" => Landed = 1..produced

\* The sink loses nothing silently and stores nothing twice (_send_with_retry,
\* flush): whatever the stream refuses, however often, and whether the client
\* answers or raises.
LosesNothing == Conserved /\ NoDuplicate /\ LossIsLoud

\* _buffered_bytes is the size of the buffer, after every call.
BytesExact == buffered = Bytes(Buffer)

\* _take_batch respects both caps of put_records.
BatchWithinCaps ==
  phase = "putting" =>
    /\ Cardinality(pending) <= MaxBatch
    /\ Cardinality(pending) = 1 \/ Bytes(pending) <= MaxBytes

\* poll after every produce keeps the idle buffer below both thresholds, so the
\* sink's memory is bounded and a batch never waits for another to fill.
BufferBounded ==
  phase = "idle" => Cardinality(Buffer) < MaxBatch /\ buffered < MaxBytes

\* The two caps of put_records hold for every batch and for what waits, and the
\* byte count they are tested with is right (_take_batch, poll, _send_all).
WithinCaps == BytesExact /\ BatchWithinCaps /\ BufferBounded

\* What the runner sees of this sink.  Nothing is given up before an exception
\* has left the sink, and len(self._buffer) is what flush returns.
Promise == INSTANCE Sink WITH
  Trades <- 1..MaxRecords, Loud <- TRUE,
  given <- 1..produced, stored <- Landed, lost <- dropped,
  status <- IF phase = "raised" THEN "raised"
            ELSE IF phase = "closed" THEN "flushed"
            ELSE IF last THEN "flushing" ELSE "open",
  result <- IF phase = "closed" THEN Cardinality(Buffer) ELSE -1

\* KinesisSink implements the Sink protocol of core/sinks.py with loud losses:
\* produce stores nothing, only an exception gives records up, and the number
\* flush returns is the number of records that are not on the stream.
KeepsPromise == Promise!Spec

\* The final flush ends: with everything on the stream (LossIsLoud) or by an
\* exception, however often the stream refuses records (_send_with_retry).
FlushEnds == last ~> phase \in {"closed", "raised"}
=============================================================================
