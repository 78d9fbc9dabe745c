------------------------------- MODULE Ingest -------------------------------
(***************************************************************************)
(* One IngestRunner (ingest/runner.py) gluing one venue connector to one   *)
(* sink: the ResilientWebSocket (ingest/core/ws.py), the SequenceTracker   *)
(* (ingest/core/gaps.py), the BLOCK-policy BoundedTopicQueue               *)
(* (ingest/core/queue.py), the repair tasks of the connectors and the      *)
(* drain task, all interleaved by one asyncio event loop.                  *)
(*                                                                         *)
(* A task is interrupted only where it really suspends.  A put on a queue  *)
(* with room does not suspend, so the pump handles a whole frame in one    *)
(* step; a put on a full queue does, with the rest of the frame in hand,   *)
(* and that is where a task can be cancelled.                              *)
(*                                                                         *)
(* A trade is its venue-assigned number: the venue prints 1, 2, 3, ...     *)
(* Binance numbers its stream with these very ids and keeps them across    *)
(* connections (Resets = FALSE).  Coinbase numbers the frames of one       *)
(* connection, several trades may share a frame, and its tracker is reset  *)
(* on reconnect (Resets = TRUE).                                           *)
(***************************************************************************)
EXTENDS Integers, Sequences

CONSTANTS
  Resets,       \* connector.resets_sequence_on_reconnect
  QueueMax,     \* settings.queue_maxsize
  RepairBatch,  \* MAX_REPAIR_BATCH (Binance), REPAIR_LIMIT (Coinbase)
  SnapMax,      \* trades in the snapshot frame Coinbase may open a connection with
  SinkMayFail,  \* may produce, poll or flush of the sink raise?
  MaxTrades,    \* bound: trades the venue prints
  MaxSeq,       \* bound: frames the venue numbers on one connection
  MaxConns      \* bound: connections established before the last one stays up

ASSUME ConstantsAssumption ==
  /\ Resets \in BOOLEAN /\ SinkMayFail \in BOOLEAN
  /\ QueueMax \in Nat \ {0} /\ RepairBatch \in Nat \ {0} /\ SnapMax \in Nat
  /\ MaxTrades \in Nat /\ MaxSeq \in Nat /\ MaxConns \in Nat

VARIABLES
  published,    \* venue: trades 1..published have been printed
  connSeq,      \* venue: last frame number used on this connection
  wire,         \* frames sent on this connection and not yet read
  link,         \* the TCP connection: "none", "up", "closed", "broken"
  conns,        \* connections established so far (_has_connected = conns > 0)
  socket,       \* where ResilientWebSocket.run is
  wm,           \* SequenceTracker watermark, NoMark when absent
  putting,      \* trades of the frame the pump is blocked on in queue.put
  queue,        \* BoundedTopicQueue
  repairs,      \* the repair tasks, in the order they were created
  produced,     \* trades handed to the sink, in order
  drain,        \* the drain task: "running", "ended", "dead" (it raised)
  stop,         \* the stop event
  exited,       \* IngestRunner.run has returned or raised
  \* history, read by the properties only
  heard,        \* sequence numbers observed by the current tracker
  received,     \* trades of the frames the pump took off the wire
  cancelled,    \* trades of a frame whose handling was cancelled
  raised        \* trades in the drain's hand when the sink raised

venueVars  == <<published, connSeq>>
socketVars == <<link, conns, socket>>
sinkVars   == <<produced, drain, raised>>
vars == <<published, connSeq, wire, link, conns, socket, wm, putting, queue,
          repairs, produced, drain, stop, exited, heard, received,
          cancelled, raised>>

NoMark == 0

Trade  == [id : Nat, src : {"STREAM", "REST_REPAIR"}]
Frame  == {f \in [seq : Nat, first : Nat, last : Nat] : 0 < f.first /\ f.first <= f.last}
Repair == [st : {"fetching", "putting", "done", "failed"},
           last : Nat, next : Nat, conn : Nat, at : Nat, upto : Int]

Streamed(t) == [id |-> t, src |-> "STREAM"]
Repaired(t) == [id |-> t, src |-> "REST_REPAIR"]

Ids(s) == {s[i].id : i \in DOMAIN s}

\* A frame, or what is left of one, carries the trades first to last.
Carried(f) == f.first .. f.last

\* The pump holds no trade, or what is left of a frame.
Empty == [first |-> 1, last |-> 0]
Hand  == {Empty} \cup
         {h \in [first : Nat, last : Nat] : 0 < h.first /\ h.first <= h.last}

\* One trade more than the queue may hold.
Room_OneMore == Len(queue) <= QueueMax

\* asyncio.Queue.full is false: a put does not suspend.
Room == Len(queue) < QueueMax

Finished(r) == r.st \in {"done", "failed"}

TypeOK ==
  /\ published \in Nat /\ connSeq \in Nat /\ conns \in Nat /\ wm \in Nat
  /\ wire \in Seq(Frame)
  /\ link \in {"none", "up", "closed", "broken"}
  /\ socket \in {"loop", "connecting", "live", "backoff", "ended"}
  /\ putting \in Hand
  /\ queue \in Seq(Trade) /\ Len(queue) <= QueueMax
  /\ repairs \in Seq(Repair)
  /\ produced \in Seq(Trade)
  /\ drain \in {"running", "ended", "dead"}
  /\ stop \in BOOLEAN /\ exited \in BOOLEAN
  /\ heard \subseteq Nat /\ received \subseteq Nat
  /\ cancelled \subseteq Nat /\ raised \subseteq Nat

Init ==
  /\ published = 0 /\ connSeq = 0 /\ wire = <<>>
  /\ link = "none" /\ conns = 0 /\ socket = "loop"
  /\ wm = NoMark /\ putting = Empty /\ queue = <<>> /\ repairs = <<>>
  /\ produced = <<>> /\ drain = "running" /\ stop = FALSE /\ exited = FALSE
  /\ heard = {} /\ received = {} /\ cancelled = {} /\ raised = {}

-----------------------------------------------------------------------------
(***************************************************************************)
(* The venue and the network (external).                                   *)
(***************************************************************************)

\* The sequence number a new frame carries.
FrameSeq == IF Resets THEN connSeq + 1 ELSE published + 1

NextFrame == /\ connSeq < MaxSeq
             /\ connSeq' = IF Resets THEN connSeq + 1 ELSE connSeq

\* Trades are printed and reach the connection in one frame, under one number:
\* always a single one on Binance, several perhaps on Coinbase.
VenueSends ==
  /\ published < MaxTrades /\ link = "up"
  /\ published' \in (published + 1)..(IF Resets THEN MaxTrades ELSE published + 1)
  /\ NextFrame
  /\ wire' = Append(wire, [seq |-> FrameSeq, first |-> published + 1, last |-> published'])
  /\ UNCHANGED <<socketVars, wm, putting, queue, repairs, sinkVars, stop,
                 exited, heard, cancelled, received>>

\* Coinbase may open a connection with a snapshot of its latest trades, which
\* parse reads like any update: trades that were delivered before come again.
VenueSnapshot ==
  /\ Resets /\ link = "up" /\ connSeq = 0 /\ connSeq < MaxSeq
  /\ \E n \in 1..SnapMax :
       /\ n <= published
       /\ wire' = <<[seq |-> 1, first |-> published - n + 1, last |-> published]>>
  /\ connSeq' = 1
  /\ UNCHANGED <<published, socketVars, wm, putting, queue, repairs, sinkVars,
                 stop, exited, heard, cancelled, received>>

\* A trade is printed and this consumer misses it: the venue dropped the frame
\* (its number is used up) or there is no connection.
VenueMisses ==
  /\ published < MaxTrades
  /\ published' = published + 1
  /\ IF link = "up" THEN NextFrame ELSE UNCHANGED connSeq
  /\ UNCHANGED <<wire, socketVars, wm, putting, queue, repairs, sinkVars, stop,
                 exited, heard, cancelled, received>>

\* Coinbase numbers its subscription and heartbeat frames too; parse returns []
\* for them, so their number is used up and never observed.
VenueOtherFrame ==
  /\ Resets /\ link = "up" /\ connSeq < MaxSeq
  /\ connSeq' = connSeq + 1
  /\ UNCHANGED <<published, wire, socketVars, wm, putting, queue, repairs,
                 sinkVars, stop, exited, heard, cancelled, received>>

\* The connection ends, with a close handshake or without one; frames that had
\* arrived can still be read.
Disconnect ==
  /\ link = "up" /\ conns < MaxConns
  /\ link' \in {"closed", "broken"}
  /\ \E n \in 0..Len(wire) : wire' = SubSeq(wire, 1, n)
  /\ UNCHANGED <<venueVars, conns, socket, wm, putting, queue, repairs,
                 sinkVars, stop, exited, heard, cancelled, received>>

-----------------------------------------------------------------------------
(***************************************************************************)
(* ResilientWebSocket.run and _session.                                    *)
(***************************************************************************)

\* The top of run's loop: leave when stop is set, otherwise dial.
LoopTop ==
  /\ socket = "loop"
  /\ socket' = IF stop THEN "ended" ELSE "connecting"
  /\ UNCHANGED <<venueVars, wire, link, conns, wm, putting, queue, repairs,
                 sinkVars, stop, exited, heard, cancelled, received>>

\* Where run goes after _session raised: it returns if stop is set and sleeps
\* the next backoff delay otherwise.
AfterException == IF stop THEN "ended" ELSE "backoff"

\* handle_reconnect, on every connection but the first.
HandleReconnect ==
  /\ wm' = IF conns > 0 /\ Resets THEN NoMark ELSE wm
  /\ heard' = IF conns > 0 /\ Resets THEN {} ELSE heard

Connected ==
  /\ socket = "connecting"
  /\ socket' = "live" /\ link' = "up" /\ conns' = conns + 1
  /\ wire' = <<>> /\ connSeq' = 0
  /\ HandleReconnect
  /\ UNCHANGED <<published, putting, queue, repairs, sinkVars, stop, exited,
                 cancelled, received>>

\* The dial, or a subscribe sent on the new connection, raises.
ConnectFails ==
  /\ socket = "connecting"
  /\ socket' = AfterException
  /\ UNCHANGED <<venueVars, wire, link, conns, wm, putting, queue, repairs,
                 sinkVars, stop, exited, heard, cancelled, received>>

\* The sleep between two sessions; stop does not interrupt it.
BackoffEnds ==
  /\ socket = "backoff"
  /\ socket' = "loop"
  /\ UNCHANGED <<venueVars, wire, link, conns, wm, putting, queue, repairs,
                 sinkVars, stop, exited, heard, cancelled, received>>

\* The socket is exhausted: the pump ends, by exception if the connection broke.
PumpEnds ==
  /\ socket = "live" /\ link \in {"closed", "broken"}
  /\ putting = Empty /\ wire = <<>>
  /\ socket' = IF link = "broken" THEN AfterException ELSE "loop"
  /\ link' = "none"
  /\ UNCHANGED <<venueVars, wire, conns, wm, putting, queue, repairs, sinkVars,
                 stop, exited, heard, cancelled, received>>

\* _session's finally block: the pump is cancelled wherever it is, the trade it
\* was blocked on is dropped with the rest of its frame, and the socket is
\* closed with what is unread.
CancelPump ==
  /\ socket = "live"
  /\ socket' = "loop" /\ link' = "none" /\ wire' = <<>>
  /\ cancelled' = cancelled \cup Carried(putting)
  /\ putting' = Empty
  /\ UNCHANGED <<venueVars, conns, wm, queue, repairs, sinkVars, stop, exited,
                 heard, received>>

\* max_lifetime_s has passed: the proactive reconnect.
LifetimeExpires == conns < MaxConns /\ CancelPump

\* Stop is looked at only once the connection is down.
SessionStops_WhenDown == stop /\ link # "up" /\ CancelPump

\* The stopper task completed.
SessionStops == stop /\ CancelPump

-----------------------------------------------------------------------------
(***************************************************************************)
(* The pump: handle_message, one frame at a time.                          *)
(***************************************************************************)

\* The off-by-one that takes a single missing number for none.
IsGap_OffByOne(s) == wm # NoMark /\ s > wm + 2

\* SequenceTracker.observe: the new watermark, and whether a gap is returned.
NewMark(s) == IF wm = NoMark \/ s > wm THEN s ELSE wm
IsGap(s)   == wm # NoMark /\ s > wm + 1

\* observe, and a repair task when it reports a gap.
Observe(s) ==
  /\ wm' = NewMark(s)
  /\ heard' = heard \cup {s}
  /\ repairs' = IF IsGap(s)
                THEN Append(repairs, [st |-> "fetching", last |-> wm, next |-> s,
                                      conn |-> conns, at |-> 0, upto |-> 0])
                ELSE repairs

Lesser(a, b) == IF a < b THEN a ELSE b

\* How many of the trades first to last the queue takes before a put suspends.
Fitting(first, last) == Lesser(QueueMax - Len(queue), last + 1 - first)

\* Puts that give up on a full queue.
Put_DropsWhenFull(first, last) ==
  /\ queue' = queue \o [k \in 1..Fitting(first, last) |-> Streamed(first + k - 1)]
  /\ putting' = Empty

\* The puts of the trades first to last, up to the one that suspends.
Put(first, last) ==
  LET n == Fitting(first, last) IN
  /\ queue' = queue \o [k \in 1..n |-> Streamed(first + k - 1)]
  /\ putting' = IF first + n > last THEN Empty ELSE [first |-> first + n, last |-> last]

\* The pump reads a frame, observes its number (again for each of its trades,
\* to no effect) and puts its trades; a put blocks when the queue is full, after
\* the watermark has moved.
HandleMessage ==
  /\ socket = "live" /\ putting = Empty /\ wire # <<>>
  /\ Observe(Head(wire).seq)
  /\ wire' = Tail(wire)
  /\ received' = received \cup Carried(Head(wire))
  /\ Put(Head(wire).first, Head(wire).last)
  /\ UNCHANGED <<venueVars, socketVars, sinkVars, stop, exited, cancelled>>

\* The blocked trade takes the head of the queue, like a retry put in front.
PumpResumes_AtHead ==
  /\ putting # Empty /\ Room
  /\ queue' = <<Streamed(putting.first)>> \o queue
  /\ putting' = IF putting.first = putting.last THEN Empty
                ELSE [putting EXCEPT !.first = @ + 1]
  /\ UNCHANGED <<venueVars, wire, socketVars, wm, repairs, sinkVars, stop,
                 exited, heard, cancelled, received>>

\* A slot is free and the blocked pump runs again, to the next suspension.
PumpResumes ==
  /\ putting # Empty /\ Room
  /\ Put(putting.first, putting.last)
  /\ UNCHANGED <<venueVars, wire, socketVars, wm, repairs, sinkVars, stop,
                 exited, heard, cancelled, received>>

-----------------------------------------------------------------------------
(***************************************************************************)
(* The repair tasks: connector.repair, then one put per recovered trade.   *)
(***************************************************************************)

\* Binance asks for the gap's ids from last_seen + 1, RepairBatch at most, and
\* skips what the stream delivered; Coinbase returns its latest RepairBatch.
FirstRow(r) == IF ~Resets THEN r.last + 1
               ELSE IF published > RepairBatch THEN published - RepairBatch + 1 ELSE 1
LastRow(r)  == IF ~Resets THEN Lesser(r.last + RepairBatch, r.next - 1) ELSE published

\* The task of the same gap, further on.
Moved(r, st, at, upto) == [st |-> st, last |-> r.last, next |-> r.next,
                           conn |-> r.conn, at |-> at, upto |-> upto]

Fetched(r) == Moved(r, IF FirstRow(r) > LastRow(r) THEN "done" ELSE "putting",
                    FirstRow(r), LastRow(r))

\* The REST answer arrives and the task starts to put its rows.
RepairFetched(i) ==
  /\ repairs[i].st = "fetching"
  /\ repairs' = [repairs EXCEPT ![i] = Fetched(repairs[i])]
  /\ UNCHANGED <<venueVars, wire, socketVars, wm, putting, queue, sinkVars, stop,
                 exited, heard, cancelled, received>>

\* The rate limiter, the request or the parsing raises: logged, never retried.
RepairFails(i) ==
  /\ repairs[i].st = "fetching"
  /\ repairs' = [repairs EXCEPT ![i] = [@ EXCEPT !.st = "failed"]]
  /\ UNCHANGED <<venueVars, wire, socketVars, wm, putting, queue, sinkVars, stop,
                 exited, heard, cancelled, received>>

\* The loop that forgets its last row.
AfterPut_StopsEarly(r) ==
  Moved(r, IF r.at + 1 >= r.upto THEN "done" ELSE "putting", r.at + 1, r.upto)

\* The task has put one row and goes to the next.
AfterPut(r) == Moved(r, IF r.at = r.upto THEN "done" ELSE "putting", r.at + 1, r.upto)

\* A task that puts only while the connection it was created on lives.
RepairPuts_OwnSession(i) ==
  /\ repairs[i].st = "putting" /\ Room
  /\ repairs[i].conn = conns
  /\ queue' = Append(queue, Repaired(repairs[i].at))
  /\ repairs' = [repairs EXCEPT ![i] = AfterPut(repairs[i])]
  /\ UNCHANGED <<venueVars, wire, socketVars, wm, putting, sinkVars, stop,
                 exited, heard, cancelled, received>>

RepairPuts(i) ==
  /\ repairs[i].st = "putting" /\ Room
  /\ queue' = Append(queue, Repaired(repairs[i].at))
  /\ repairs' = [repairs EXCEPT ![i] = AfterPut(repairs[i])]
  /\ UNCHANGED <<venueVars, wire, socketVars, wm, putting, sinkVars, stop,
                 exited, heard, cancelled, received>>

RepairStep(i) == RepairFetched(i) \/ RepairFails(i) \/ RepairPuts(i)

-----------------------------------------------------------------------------
(***************************************************************************)
(* The drain task, shutdown, and the end of IngestRunner.run.              *)
(***************************************************************************)

\* One turn of drain: get, produce, poll.
DrainTrade ==
  /\ drain = "running" /\ queue # <<>>
  /\ queue' = Tail(queue)
  /\ produced' = Append(produced, Head(queue))
  /\ UNCHANGED <<venueVars, wire, socketVars, wm, putting, repairs, drain, stop,
                 exited, heard, cancelled, raised, received>>

\* produce or poll raises: the task dies with the trade it had taken.
DrainRaises ==
  /\ SinkMayFail /\ drain = "running" /\ queue # <<>>
  /\ queue' = Tail(queue)
  /\ raised' = raised \cup {Head(queue).id}
  /\ drain' = "dead"
  /\ UNCHANGED <<venueVars, wire, socketVars, wm, putting, repairs, produced,
                 stop, exited, heard, cancelled, received>>

\* The loop condition is false: flush, which may raise, and return.
DrainExits ==
  /\ drain = "running" /\ stop /\ queue = <<>>
  /\ drain' \in IF SinkMayFail THEN {"ended", "dead"} ELSE {"ended"}
  /\ UNCHANGED <<venueVars, wire, socketVars, wm, putting, queue, repairs,
                 produced, stop, exited, heard, cancelled, raised, received>>

\* SIGINT or SIGTERM.
Stop ==
  /\ ~stop
  /\ stop' = TRUE
  /\ UNCHANGED <<venueVars, wire, socketVars, wm, putting, queue, repairs,
                 sinkVars, exited, heard, cancelled, received>>

\* run's finally block: gather every repair task, then await the drain.
RunReturns ==
  /\ socket = "ended" /\ ~exited
  /\ \A i \in DOMAIN repairs : Finished(repairs[i])
  /\ drain # "running"
  /\ exited' = TRUE
  /\ UNCHANGED <<venueVars, wire, socketVars, wm, putting, queue, repairs,
                 sinkVars, stop, heard, cancelled, received>>

-----------------------------------------------------------------------------
Venue  == \/ VenueSends \/ VenueSnapshot \/ VenueMisses \/ VenueOtherFrame
          \/ Disconnect
Socket == \/ LoopTop \/ Connected \/ ConnectFails \/ BackoffEnds \/ PumpEnds
          \/ LifetimeExpires \/ SessionStops
Pump   == HandleMessage \/ PumpResumes
Drain  == DrainTrade \/ DrainRaises \/ DrainExits

\* Nothing runs once run has returned: the process ends.
Next ==
  /\ ~exited
  /\ \/ Venue \/ Socket \/ Pump \/ Drain
     \/ \E i \in DOMAIN repairs : RepairStep(i)
     \/ Stop \/ RunReturns

Spec == Init /\ [][Next]_vars

\* The event loop runs every task that is ready, a dial and a request end one
\* way or the other, a sleep ends.  Nothing is assumed of the venue, of
\* disconnections, of the lifetime timer or of signals.
Fairness ==
  /\ WF_vars(~exited /\ (LoopTop \/ Connected \/ ConnectFails \/ BackoffEnds
                         \/ PumpEnds \/ SessionStops))
  /\ WF_vars(~exited /\ Pump)
  /\ WF_vars(~exited /\ Drain)
  /\ \A i \in 1..MaxTrades :
       WF_vars(~exited /\ i \in DOMAIN repairs /\ RepairStep(i))
  /\ WF_vars(RunReturns)

FairSpec == Spec /\ Fairness
-----------------------------------------------------------------------------
(***************************************************************************)
(* Properties.                                                             *)
(***************************************************************************)

\* s lies between the first number this tracker observed and its watermark.
InRange(s) == s <= wm /\ \E b \in heard : b <= s

InGap(r, s) == r.last < s /\ s < r.next

\* Gap detection is complete (gaps.py observe, runner.py handle_message and
\* handle_reconnect): every sequence number between the first one the tracker
\* observed and its watermark was either observed or lies in a gap for which a
\* repair task was created, on this very connection if the tracker is reset on
\* reconnect.  It has to survive missed frames, snapshots, blocked puts,
\* cancelled pumps and reconnects.
GapsDetected ==
  \A s \in 1..wm : InRange(s) =>
    \/ s \in heard
    \/ \E i \in DOMAIN repairs :
         /\ Resets => repairs[i].conn = conns
         /\ InGap(repairs[i], s)

Located(t) == t \in Carried(putting) \/ t \in Ids(queue) \/ t \in Ids(produced)

UnderRepair(t) ==
  \E i \in DOMAIN repairs :
    /\ InGap(repairs[i], t)
    /\ \/ repairs[i].st = "fetching"
       \/ repairs[i].st = "putting" /\ repairs[i].at <= t /\ t <= repairs[i].upto

RepairFailed(t) ==
  \E i \in DOMAIN repairs : InGap(repairs[i], t) /\ repairs[i].st = "failed"

PastBatch(t) ==
  \E i \in DOMAIN repairs : InGap(repairs[i], t) /\ t > repairs[i].last + RepairBatch

\* The only ways the runner loses a trade are the last four: its repair failed,
\* it lies past the one request a repair makes, the handling of its frame was
\* cancelled with the session, or the sink raised over it.
Accounted(t) ==
  \/ Located(t) \/ UnderRepair(t)
  \/ RepairFailed(t) \/ PastBatch(t)
  \/ t \in cancelled \/ t \in raised

\* Accounting of trades where the sequence number is the trade id (binance.py,
\* runner.py): every trade up to the watermark is in the pump's hand, queued,
\* produced or still being repaired, or was lost in one of the four ways above.
AccountedFor ==
  ~Resets => \A t \in 1..wm : InRange(t) => Accounted(t)

\* The watermark is behind everything still unread (gaps.py observe, ws.py
\* _session): frames of one trade each wait on the wire in order, above the
\* watermark, whatever was missed, cancelled or repaired in between.
\* AccountedFor rests on it.
WireAhead ==
  ~Resets =>
    /\ wm <= published
    /\ \A b \in heard : 0 < b /\ b <= wm
    /\ \A i \in DOMAIN wire :
         /\ wire[i].first = wire[i].seq /\ wire[i].last = wire[i].seq
         /\ wm < wire[i].seq /\ wire[i].seq <= published
    /\ putting # Empty => putting.first = putting.last
    /\ \A i, j \in DOMAIN wire : i < j => wire[i].seq < wire[j].seq

\* No trade that came off the wire disappears inside the runner, on any venue
\* (runner.py handle_message and drain): it is in the pump's hand, queued or
\* produced, unless the sink raised over it or the handling of its frame was
\* cancelled, which takes every trade of the frame not put yet.
ReceivedKept ==
  \A t \in received : Located(t) \/ t \in cancelled \/ t \in raised

Line == produced \o queue

\* Live trades reach the sink in the order the venue printed them
\* (runner.py handle_message and drain, models.py kafka_key): whatever the
\* repair tasks put in between, and however long the pump was blocked.  A venue
\* that replays a snapshot on reconnect sends old trades again and is left out.
StreamOrdered ==
  ~Resets => \A i, j \in DOMAIN Line :
    i < j /\ Line[i].src = "STREAM" /\ Line[j].src = "STREAM" => Line[i].id < Line[j].id

\* Where the gap names the missing ids (binance.py repair), no trade is handed
\* to the sink twice: a repair never returns what the stream delivered, and two
\* repairs never overlap.
AtMostOnce ==
  ~Resets => \A i, j \in DOMAIN Line : Line[i].id = Line[j].id => i = j

\* The sink sees each trade of a persistent-id venue once and the live ones in
\* order (runner.py, binance.py): whatever was missed, blocked, cancelled or
\* repaired.
OnceInOrder == StreamOrdered /\ AtMostOnce

\* A repair task ends, with its trades queued or with an error logged, as long
\* as the drain task lives (runner.py _repair and drain).
RepairsFinish ==
  \A i \in 1..MaxTrades :
    i \in DOMAIN repairs ~>
      (i \in DOMAIN repairs /\ Finished(repairs[i])) \/ drain # "running"

RepairStuck ==
  /\ drain # "running" /\ ~Room
  /\ \E i \in DOMAIN repairs : repairs[i].st = "putting"

\* After stop, run returns (runner.py run, ws.py run): whichever of dialling,
\* sleeping, pumping or repairing it is in.  The one exception is a repair
\* blocked on a full queue that the drain has left.
StopTerminates == stop ~> (exited \/ RepairStuck)
=============================================================================
