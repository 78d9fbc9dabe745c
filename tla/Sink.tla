-------------------------------- MODULE Sink --------------------------------
(***************************************************************************)
(* What a transport promises the runner: the Sink protocol of              *)
(* ingest/core/sinks.py.  KinesisSink and KafkaSink implement it.          *)
(*                                                                         *)
(* A trade that was given and is neither stored nor lost is outstanding:   *)
(* buffered, in flight, or waiting for a retry, which the runner cannot    *)
(* tell apart.                                                             *)
(***************************************************************************)
EXTENDS Integers, FiniteSets

CONSTANTS
  Trades,   \* the trades the drain may hand over
  Loud      \* does a transport that loses a trade raise?

VARIABLES
  given,    \* trades produce was called with
  stored,   \* trades the transport holds for its consumers
  lost,     \* trades nobody will retry
  status,   \* "open", "flushing", "flushed", or "raised" into the drain
  result    \* what flush returned, -1 before it has

sinkVars == <<given, stored, lost, status, result>>

Outstanding == given \ (stored \cup lost)

Init ==
  /\ given = {} /\ stored = {} /\ lost = {}
  /\ status = "open" /\ result = -1

\* produce hands the trade over and never waits for the network.
Produce(r) ==
  /\ status = "open" /\ r \notin given
  /\ given' = given \cup {r}
  /\ UNCHANGED <<stored, lost, status, result>>

\* produce refuses the trade by raising: the drain ends and the trade with it.
ProduceRaises(r) ==
  /\ status = "open" /\ r \notin given
  /\ given' = given \cup {r} /\ lost' = lost \cup {r}
  /\ status' = "raised"
  /\ UNCHANGED <<stored, result>>

\* The transport stores the trades of S and gives up those of L.  A loud one
\* gives trades up only by raising out of poll or flush.  A transport with a
\* thread of its own goes on after an exception, until flush has returned.
Service(S, L) ==
  /\ status # "flushed"
  /\ S \cap L = {}
  /\ stored' = stored \cup S /\ lost' = lost \cup L
  /\ status' \in {status, "raised"}
  /\ Loud /\ L # {} => status' = "raised"
  /\ UNCHANGED <<given, result>>

FlushBegins ==
  /\ status = "open"
  /\ status' = "flushing"
  /\ UNCHANGED <<given, stored, lost, result>>

\* flush returns the number of trades still pending: every outstanding one,
\* and perhaps a stored one whose acknowledgement it never saw.
FlushReturns ==
  /\ status = "flushing"
  /\ status' = "flushed"
  /\ result' \in Nat /\ result' >= Cardinality(Outstanding)
  /\ UNCHANGED <<given, stored, lost>>

Next ==
  \/ \E r \in Trades : Produce(r) \/ ProduceRaises(r)
  \/ \E S, L \in SUBSET Outstanding : Service(S, L)
  \/ FlushBegins \/ FlushReturns

Spec == Init /\ [][Next]_sinkVars
=============================================================================
