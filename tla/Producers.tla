------------------------------ MODULE Producers -------------------------------
(***************************************************************************)
(* The process around the runners: main of src/ingest/cli.py and of        *)
(* src/awsnative/cli.py, with the settings and the instrument map they     *)
(* read.  It starts one runner per venue in one event loop, under one stop *)
(* event, and gathers them.  A runner is abstracted to its queue, its      *)
(* socket and its drain (Ingest has the detail); a sink to the trades it   *)
(* holds (KinesisSink and KafkaSink have the detail).                      *)
(*                                                                         *)
(* The Kinesis sink sends its batches itself and retries with time.sleep,  *)
(* so a throttled batch holds the event loop, and with it every venue.     *)
(* Kafka's client sends from a thread of its own and reports a failed      *)
(* delivery to the log only; the drain flushes it for ten seconds and goes *)
(* by without what is left.                                                *)
(***************************************************************************)
EXTENDS Integers, Sequences, SequencesExt, FiniteSets

CONSTANTS Universes,      \* what config/universe.yaml may hold: sequences of
                          \* [id, venues: venue -> symbol]
          VenueLists,     \* what the settings may name
          Batch,          \* trades a sink holds: a batch, or the queue of Kafka's client
          MaxAttempts,    \* of a batch
          MaxReceived,    \* bound: trades a socket receives
          QueueSize       \* queue_maxsize

\* Both are lists: of venue names in the settings, of entries in the YAML file.
ASSUME ListsAssumption ==
  /\ \A list \in VenueLists : list \in Seq(STRING)
  /\ \A u \in Universes : DOMAIN u = 1..Len(u) /\ Len(u) \in Nat

Connectors == {"binance", "coinbase"}

VARIABLES entry,      \* "kafka" or "native"
          dotenv,     \* the prefixes of the keys in .env
          universe, venues,
          at,         \* the venue of the loop in main
          tasks,      \* positions of venues that have a runner
          process,    \* "starting", "running" or "exited"
          code,       \* exit code, -1 before
          stopping,   \* the stop event
          received, waiting, buffer,    \* per runner: taken off the wire, queued, in the sink
          sent,                         \* and acknowledged, which no code counts
          socketOf, drainOf, runnerOf,  \* per runner
          sleeping,   \* the runner whose sink holds the event loop
          attempts

procVars == <<entry, dotenv, universe, venues, at, tasks, process, code, stopping, received,
              waiting, buffer, sent, socketOf, drainOf, runnerOf, sleeping, attempts>>
startVars == <<entry, dotenv, universe, venues>>

-----------------------------------------------------------------------------
(* settings.py, instruments.py *)

\* Every key of .env is validated; only NativeSettings ignores the ones that
\* are not its own.
SettingsRaise == entry = "kafka" /\ dotenv \ {"INGEST_"} # {}

\* from_yaml: the later entry of a venue's symbol wins, and a symbol is listed
\* once per entry.
Canonical(v, s) ==
  LET of == {i \in DOMAIN universe : v \in DOMAIN universe[i].venues /\ universe[i].venues[v] = s}
  IN {universe[i].id : i \in {j \in of : \A k \in of : k <= j}}
SymbolsFor(v) ==
  {universe[i].venues[v] : i \in {j \in DOMAIN universe : v \in DOMAIN universe[j].venues}}

-----------------------------------------------------------------------------
(* main *)

Positions == UNION {DOMAIN list : list \in VenueLists}
Everyone(value) == [i \in Positions |-> value]

ProcInit ==
  /\ entry \in {"kafka", "native"} /\ dotenv \in SUBSET {"INGEST_", "FDAI_NATIVE_"}
  /\ universe \in Universes /\ venues \in VenueLists
  /\ at = 1 /\ tasks = {} /\ process = "starting" /\ code = -1 /\ stopping = FALSE
  /\ received = Everyone(0) /\ waiting = Everyone(0) /\ buffer = Everyone(0)
  /\ sent = Everyone(0)
  /\ socketOf = Everyone("none") /\ drainOf = Everyone("none") /\ runnerOf = Everyone("none")
  /\ sleeping = {} /\ attempts = 0

\* The exception of main ends the process; asyncio.run cancels what is left,
\* and a cancelled drain neither empties its queue nor flushes.
Exits(status) ==
  /\ process' = "exited" /\ code' = status
  /\ runnerOf' = [i \in Positions |-> IF runnerOf[i] = "running" THEN "cancelled" ELSE runnerOf[i]]
  /\ drainOf' = [i \in Positions |-> IF drainOf[i] = "running" THEN "cancelled" ELSE drainOf[i]]

ReadSettings ==
  /\ process = "starting" /\ at = 1 /\ SettingsRaise
  /\ Exits(1)
  /\ UNCHANGED <<startVars, at, tasks, stopping, received, waiting, buffer, sent, socketOf, sleeping, attempts>>

\* An unknown venue ends it before anything ran; one without symbols is left out.
StartVenue ==
  /\ process = "starting" /\ ~SettingsRaise /\ at <= Len(venues)
  /\ IF venues[at] \notin Connectors
     THEN Exits(1) /\ UNCHANGED <<at, tasks>>
     ELSE /\ at' = at + 1
          /\ tasks' = IF SymbolsFor(venues[at]) = {} THEN tasks ELSE tasks \cup {at}
          /\ UNCHANGED <<process, code, runnerOf, drainOf>>
  /\ UNCHANGED <<startVars, stopping, received, waiting, buffer, sent, socketOf, sleeping, attempts>>

\* gather: the loop begins to run them.
Gather ==
  /\ process = "starting" /\ ~SettingsRaise /\ at > Len(venues)
  /\ IF tasks = {} THEN Exits(1) /\ UNCHANGED socketOf
     ELSE /\ process' = "running" /\ UNCHANGED code
          /\ runnerOf' = [i \in Positions |-> IF i \in tasks THEN "running" ELSE "none"]
          /\ drainOf' = runnerOf' /\ socketOf' = runnerOf'
  /\ UNCHANGED <<startVars, at, tasks, stopping, received, waiting, buffer, sent, sleeping, attempts>>

\* SIGINT or SIGTERM.
Signal ==
  /\ process = "running" /\ stopping' = TRUE
  /\ UNCHANGED <<startVars, at, tasks, process, code, received, waiting, buffer, sent, socketOf, drainOf,
                 runnerOf, sleeping, attempts>>

\* gather raises the first exception, without waiting for the others.
GatherRaises ==
  /\ process = "running" /\ sleeping = {} /\ \E i \in tasks : runnerOf[i] = "raised"
  /\ Exits(1)
  /\ UNCHANGED <<startVars, at, tasks, stopping, received, waiting, buffer, sent, socketOf, sleeping, attempts>>
AllDone == \A i \in tasks : runnerOf[i] = "returned"
GatherReturns ==
  /\ process = "running" /\ sleeping = {} /\ AllDone
  /\ Exits(0)
  /\ UNCHANGED <<startVars, at, tasks, stopping, received, waiting, buffer, sent, socketOf, sleeping, attempts>>

-----------------------------------------------------------------------------
(* A runner, in a loop no sink is holding. *)

Free(i) == process = "running" /\ sleeping = {} /\ i \in tasks

Receives(i) ==
  /\ Free(i) /\ socketOf[i] = "running" /\ received[i] < MaxReceived /\ waiting[i] < QueueSize
  /\ received' = [received EXCEPT ![i] = @ + 1] /\ waiting' = [waiting EXCEPT ![i] = @ + 1]
  /\ UNCHANGED <<startVars, at, tasks, process, code, stopping, buffer, sent, socketOf, drainOf, runnerOf,
                 sleeping, attempts>>

SocketStops(i) ==
  /\ Free(i) /\ stopping /\ socketOf[i] = "running"
  /\ socketOf' = [socketOf EXCEPT ![i] = "ended"]
  /\ UNCHANGED <<startVars, at, tasks, process, code, stopping, received, waiting, buffer, sent, drainOf,
                 runnerOf, sleeping, attempts>>

\* produce and poll.
DrainTakes(i) ==
  /\ Free(i) /\ drainOf[i] = "running" /\ waiting[i] > 0 /\ buffer[i] < Batch
  /\ waiting' = [waiting EXCEPT ![i] = @ - 1] /\ buffer' = [buffer EXCEPT ![i] = @ + 1]
  /\ UNCHANGED <<startVars, at, tasks, process, code, stopping, received, sent, socketOf, drainOf,
                 runnerOf, sleeping, attempts>>

\* Kinesis: a request stores the batch, or is throttled and sleeps before it is
\* sent again; the last attempt raises into the drain.
Sending(i) ==
  /\ entry = "native" /\ drainOf[i] = "running"
  /\ buffer[i] = Batch \/ (stopping /\ waiting[i] = 0 /\ buffer[i] > 0)
Stored(i) ==
  /\ process = "running" /\ sleeping \in {{}, {i}} /\ Sending(i)
  /\ buffer' = [buffer EXCEPT ![i] = 0] /\ sent' = [sent EXCEPT ![i] = @ + buffer[i]]
  /\ sleeping' = {} /\ attempts' = 0
  /\ UNCHANGED <<startVars, at, tasks, process, code, stopping, received, waiting, socketOf,
                 drainOf, runnerOf>>
Throttled(i) ==
  /\ process = "running" /\ sleeping \in {{}, {i}} /\ Sending(i)
  /\ IF attempts + 1 < MaxAttempts
     THEN sleeping' = {i} /\ attempts' = attempts + 1 /\ UNCHANGED drainOf
     ELSE sleeping' = {} /\ attempts' = 0 /\ drainOf' = [drainOf EXCEPT ![i] = "dead"]
  /\ UNCHANGED <<startVars, at, tasks, process, code, stopping, received, waiting, buffer, sent,
                 socketOf, runnerOf>>

\* Kafka: the client is rid of a trade, delivered or not; a trade its full
\* queue refuses raises into the drain at once.
ClientReports(i) ==
  /\ process = "running" /\ entry = "kafka" /\ buffer[i] > 0
  /\ buffer' = [buffer EXCEPT ![i] = @ - 1]
  /\ \E delivered \in {0, 1} : sent' = [sent EXCEPT ![i] = @ + delivered]
  /\ UNCHANGED <<startVars, at, tasks, process, code, stopping, received, waiting, socketOf,
                 drainOf, runnerOf, sleeping, attempts>>
ClientRefuses(i) ==
  /\ Free(i) /\ entry = "kafka" /\ drainOf[i] = "running" /\ waiting[i] > 0 /\ buffer[i] = Batch
  /\ waiting' = [waiting EXCEPT ![i] = @ - 1] /\ drainOf' = [drainOf EXCEPT ![i] = "dead"]
  /\ UNCHANGED <<startVars, at, tasks, process, code, stopping, received, buffer, sent, socketOf,
                 runnerOf, sleeping, attempts>>

\* The end of drain: Kinesis' flush leaves nothing behind, Kafka's has its time.
Flushed_Unsent(i) ==
  /\ Free(i) /\ drainOf[i] = "running" /\ stopping /\ waiting[i] = 0
  /\ drainOf' = [drainOf EXCEPT ![i] = "flushed"]
  /\ UNCHANGED <<startVars, at, tasks, process, code, stopping, received, waiting, buffer, sent,
                 socketOf, runnerOf, sleeping, attempts>>
Flushed(i) ==
  /\ Free(i) /\ drainOf[i] = "running" /\ stopping /\ waiting[i] = 0
  /\ entry = "native" => buffer[i] = 0
  /\ drainOf' = [drainOf EXCEPT ![i] = "flushed"]
  /\ UNCHANGED <<startVars, at, tasks, process, code, stopping, received, waiting, buffer, sent,
                 socketOf, runnerOf, sleeping, attempts>>

\* run awaits its drain only once the socket has ended: a drain that died is
\* noticed then.
RunnerEnds_Flushed(i) ==
  /\ Free(i) /\ runnerOf[i] = "running" /\ socketOf[i] = "ended" /\ drainOf[i] = "flushed"
  /\ runnerOf' = [runnerOf EXCEPT ![i] = "returned"]
  /\ UNCHANGED <<startVars, at, tasks, process, code, stopping, received, waiting, buffer, sent, socketOf,
                 drainOf, sleeping, attempts>>
RunnerEnds(i) ==
  /\ Free(i) /\ runnerOf[i] = "running" /\ socketOf[i] = "ended" /\ drainOf[i] \in {"flushed", "dead"}
  /\ runnerOf' = [runnerOf EXCEPT ![i] = IF drainOf[i] = "dead" THEN "raised" ELSE "returned"]
  /\ UNCHANGED <<startVars, at, tasks, process, code, stopping, received, waiting, buffer, sent, socketOf,
                 drainOf, sleeping, attempts>>

MainStep == ReadSettings \/ StartVenue \/ Gather \/ GatherRaises \/ GatherReturns
RunnerStep(i) ==
  \/ SocketStops(i) \/ DrainTakes(i) \/ Stored(i) \/ Throttled(i) \/ ClientReports(i) \/ ClientRefuses(i)
  \/ Flushed(i) \/ RunnerEnds(i)
ProcNext == MainStep \/ Signal \/ \E i \in Positions : Receives(i) \/ RunnerStep(i)

ProcSpec == ProcInit /\ [][ProcNext]_procVars

-----------------------------------------------------------------------------
(* Properties. *)

\* Exit code 0 means that no sink gave up: a failure of one venue is not hidden
\* by the others' success (gather without return_exceptions).  From the native
\* entry it means, too, that every trade taken off a queue is in the stream;
\* from the Kafka entry it does not (drain drops what flush returns, and
\* _on_delivery logs an error).  What a socket queues after its drain has ended
\* is the matter of Ingest.
ExitHonest ==
  code = 0 => \A i \in tasks :
    /\ drainOf[i] = "flushed"
    /\ entry = "native" => sent[i] + waiting[i] = received[i]

\* A venue whose sink works is cut off, its queue and its buffer lost, only by
\* another venue's failing, and the exit code says so (gather, asyncio.run).
CutOffByAnother ==
  \A i \in tasks : drainOf[i] = "cancelled" =>
    code = 1 /\ \E j \in tasks \ {i} : drainOf[j] = "dead"

\* Every symbol a runner subscribes to has an instrument, one only, whatever
\* the order and the repetitions of the universe (from_yaml, canonical).
SymbolsResolve ==
  \A i \in tasks : \A s \in SymbolsFor(venues[i]) : Cardinality(Canonical(venues[i], s)) = 1

\* After a signal the process ends, whatever dies on the way (main's stop event
\* and gather).  Repair tasks are not in this view of a runner: the one that can
\* block its end is the exception StopTerminates of Ingest states.
StopEnds == stopping ~> process = "exited"

\* One venue's failure is not hidden, nothing else cuts a venue off, and every
\* symbol that is subscribed to has its instrument (main of ingest/cli.py and
\* awsnative/cli.py).
ProcessSound == ExitHonest /\ CutOffByAnother /\ SymbolsResolve
=============================================================================
