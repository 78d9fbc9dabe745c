------------------------------ MODULE MCConsole -------------------------------
(***************************************************************************)
(* The operator's side for TLC: the jobs that talk to Athena, the text of  *)
(* their SQL, the measures of the bars, the dashboard and the provisioning *)
(* of the cluster.  They share no state, so `focus`, chosen once, lets one *)
(* move in a behaviour and TLC adds their states up instead of multiplying *)
(* them.                                                                   *)
(***************************************************************************)
EXTENDS AthenaJobs, SqlText, Bars, Dashboard, Provisioning

VARIABLE focus   \* the part that moves in this behaviour

mcVars == <<athenaVars, sqlVars, barVars, dashVars, provVars, focus>>

Foci == {"ddl", "query", "collect", "split", "render", "bars", "page", "provision"}

Moving == IF focus = "ddl" THEN Ddl ELSE IF focus = "query" THEN Queries
          ELSE IF focus = "collect" THEN Collectors ELSE {}

-----------------------------------------------------------------------------
Cell == {{}, {0}, {14}, {15}, {59}, {60}, {1439}, {1440}}
Tiles == {<<[lag |-> a, count |-> {5}], [lag |-> b, count |-> c]>> :
            a \in Cell, b \in Cell, c \in {{}, {0}, {3}}}
Grid(days, kinds, values) ==
  {[i \in 1..(days * Len(kinds)) |->
      [day |-> ((i - 1) \div Len(kinds)) + 1, layer |-> kinds[((i - 1) % Len(kinds)) + 1],
       count |-> {v[((i - 1) % 2) + 1]}]] : v \in values}
Amounts == {<<a, b>> : a \in {0, 1, 2, 3}, b \in {1, 257, 3000}}
Medallion3 == <<"Bronze trades", "Gold bars", "Silver trades">>
Verdicts == <<"Accepted", "Quarantined">>
LayerCounts ==
  {<<>>} \cup Grid(1, <<"Gold bars">>, Amounts) \cup Grid(2, Medallion3, Amounts)
  \cup Grid(33, Medallion3, {<<1, 3>>})
Quarantines ==
  Grid(1, <<"Quarantined">>, {<<3, 3>>}) \cup Grid(2, Verdicts, Amounts)
  \cup Grid(33, Verdicts, {<<1, 3>>})
  \cup {<<[day |-> 1, layer |-> "Accepted", count |-> {7}],
          [day |-> 2, layer |-> "Quarantined", count |-> {2}]>>}
Readings == {{}, {-2}, {0}, {1}, {64200}, {64201}}
PerpRow(t, v, w) == [ts |-> t, mark_price |-> v, funding_rate |-> w, open_interest |-> v]
PerpRows ==
  {<<>>} \cup {<<PerpRow(1, v, w)>> : v \in Readings, w \in Readings}
  \cup {<<PerpRow(1, v, w), PerpRow(2, w, v)>> : v \in Readings, w \in Readings}
  \cup {[i \in 1..n |-> PerpRow(i, {i}, {})] : n \in {42, 99, 101}}

MCAnswers ==
  [layer_counts |-> LayerCounts, freshness |-> Tiles, quarantine |-> Quarantines,
   perp_context |-> PerpRows, macro |-> {<<>>, <<[series_id |-> "CPI"]>>}]

\* One answer of each query; at most one query answers otherwise.
Usual ==
  [layer_counts |-> <<>>, freshness |-> <<[lag |-> {14}, count |-> {5}], [lag |-> {14}, count |-> {3}]>>,
   quarantine |-> CHOOSE rows \in Quarantines : Len(rows) = 1,
   perp_context |-> <<>>, macro |-> <<>>]
OneUnusual ==
  Cardinality({q \in DOMAIN Usual : results[q] \notin {<<>>, Usual[q]}}) <= 1

-----------------------------------------------------------------------------
MCInit == /\ focus \in Foci /\ AthenaInit /\ SqlInit /\ BarsInit /\ DashInit
          /\ ProvInit
          /\ focus # "provision" => here = (CHOOSE ip \in Addresses : TRUE) /\ session = "valid"

AthenaMoves ==
  /\ \/ \E j \in Moving : JobStep(j) \/ Dies(j)
     \/ \E q \in DOMAIN executions : Commits(q) \/ Fails(q)
  /\ UNCHANGED <<sqlVars, barVars, dashVars, provVars, focus>>

MCNext ==
  \/ AthenaMoves
  \/ /\ \/ focus = "split" /\ Split
        \/ focus = "render" /\ RenderBatch
     /\ UNCHANGED <<athenaVars, barVars, dashVars, provVars, focus>>
  \/ focus = "bars" /\ BarsNext /\ UNCHANGED <<athenaVars, sqlVars, dashVars, provVars, focus>>
  \/ focus = "page" /\ DashNext /\ OneUnusual' /\ UNCHANGED <<athenaVars, sqlVars, barVars, provVars, focus>>
  \/ focus = "provision" /\ ProvNext /\ UNCHANGED <<athenaVars, sqlVars, barVars, dashVars, focus>>

\* A waiting job polls: its loop sleeps and tries again.  Athena need not
\* ever finish a query.
MCSpec ==
  /\ MCInit /\ [][MCNext]_mcVars
  /\ \A j \in Jobs : WF_mcVars(j \in Moving /\ Poll(j) /\ UNCHANGED <<sqlVars, barVars, dashVars, provVars, focus>>)
=============================================================================
