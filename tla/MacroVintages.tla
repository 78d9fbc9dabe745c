---------------------------- MODULE MacroVintages ----------------------------
(***************************************************************************)
(* Macro series (enrichment/collect.py MacroCollector, enrichment/macro.py,*)
(* sql/merge_silver_macro.sql): a pull a day of every series as ALFRED     *)
(* shows it, one Bronze object per vintage, and a merge that keeps a row   *)
(* per distinct value, stamped with the first vintage that showed it.      *)
(***************************************************************************)
EXTENDS Integers, FiniteSets, FiniteSetsExt, Functions

CONSTANTS
  Series,      \* SERIES
  Dates,       \* observation dates, numbered
  Since,       \* the event's since
  Readings,    \* values ALFRED can show; Blank is an empty cell
  Blank,
  MaxVintage,  \* bound: days
  MaxPulls,    \* bound: invocations of the collector in a day
  MaxShown     \* bound: (observation, day, value) triples before ALFRED rests

ASSUME MacroAssumption ==
  /\ Series # {} /\ Dates \subseteq Nat /\ Since \in Nat
  /\ Blank \notin Readings /\ MaxVintage \in Nat \ {0} /\ MaxPulls \in Nat \ {0}

VARIABLES
  day,     \* today, the vintage a pull claims
  alfred,  \* what ALFRED shows now
  shown,   \* {<<series, date, day, value>>} : what it has shown
  pulls,   \* invocations today
  vintage, \* Bronze objects: the rows of each vintage pulled
  macro,   \* rows of silver_macro
  merged   \* has a merge read every object as it is now?

macroVars == <<day, alfred, shown, pulls, vintage, macro, merged>>

Cells == Series \X Dates
Values == Readings \cup {Blank}

\* MacroObservation, whose vintage is its object's.
MacroObservation == [cell : Cells, value : Readings]

MacroTypeOK ==
  /\ day \in 1..MaxVintage /\ alfred \in [Cells -> Values]
  /\ shown \subseteq Cells \X (1..MaxVintage) \X Readings
  /\ pulls \in 0..MaxPulls
  /\ DOMAIN vintage \subseteq 1..day
  /\ \A v \in DOMAIN vintage : vintage[v] \subseteq MacroObservation
  /\ macro \subseteq [cell : Cells, vintage : 1..MaxVintage, value : Readings]
  /\ merged \in BOOLEAN

Seen(a, d) == {<<c, d, a[c]>> : c \in {e \in Cells : a[e] # Blank}}

MacroInit ==
  /\ day = 1 /\ alfred \in [Cells -> Values] /\ shown = Seen(alfred, 1)
  /\ pulls = 0 /\ vintage = <<>> /\ macro = {} /\ merged = TRUE

\* ALFRED publishes or revises an observation, at any hour (external).
Publishes(c, w) ==
  /\ alfred[c] # w /\ Cardinality(shown) < MaxShown
  /\ alfred' = [alfred EXCEPT ![c] = w]
  /\ shown' = shown \cup {<<c, day, w>>}
  /\ UNCHANGED <<day, pulls, vintage, macro, merged>>

\* Midnight.
NewDay ==
  /\ day < MaxVintage
  /\ day' = day + 1 /\ pulls' = 0
  /\ shown' = shown \cup Seen(alfred, day + 1)
  /\ UNCHANGED <<alfred, vintage, macro, merged>>
-----------------------------------------------------------------------------
\* parse_alfred_csv: the rows of a series, without empty cells and without what
\* was observed before since.
Parse(s) ==
  {[cell |-> c, value |-> alfred[c]] :
     c \in {e \in Cells : e[1] = s /\ e[2] >= Since /\ alfred[e] # Blank}}

\* macro_key: one object per vintage, overwritten by a second pull of the day.
Store(rows) ==
  vintage' = [v \in DOMAIN vintage \cup {day} |-> IF v = day THEN rows ELSE vintage[v]]

\* collect: the series of U are unavailable and skipped, the others parsed.
Pull(U) ==
  /\ pulls < MaxPulls /\ pulls' = pulls + 1
  /\ Store(UNION {Parse(s) : s \in Series \ U})
  /\ merged' = FALSE
  /\ UNCHANGED <<day, alfred, shown, macro>>

\* A response that is empty, has another shape or names another series raises
\* ValueError, as does any other failure: the invocation writes nothing, the
\* series it had already read included.
PullFails ==
  /\ pulls < MaxPulls /\ pulls' = pulls + 1
  /\ UNCHANGED <<day, alfred, shown, vintage, macro, merged>>

Rows == UNION {{[cell |-> r.cell, value |-> r.value, vintage |-> v] : r \in vintage[v]} :
                 v \in DOMAIN vintage}

\* Grouped by value with the last vintage that showed it.
Firsts_Last == {r \in Rows : \A q \in Rows : q.cell = r.cell /\ q.value = r.value
                                               => q.vintage <= r.vintage}

\* GROUP BY series, observation, value with min(vintage_date).
Firsts == {r \in Rows : \A q \in Rows : q.cell = r.cell /\ q.value = r.value
                                          => r.vintage <= q.vintage}

\* NOT EXISTS: the value is new for the observation.  ON: and no row of the
\* vintage is there.
New(r) ==
  /\ ~ \E m \in macro : m.cell = r.cell /\ m.value = r.value
  /\ ~ \E m \in macro : m.cell = r.cell /\ m.vintage = r.vintage

\* The merge statement, which reads every vintage Bronze holds.
MergeMacro ==
  /\ macro' = macro \cup {r \in Firsts : New(r)}
  /\ merged' = TRUE
  /\ UNCHANGED <<day, alfred, shown, pulls, vintage>>

MacroNext ==
  \/ \E c \in Cells, w \in Readings : Publishes(c, w)
  \/ NewDay \/ MergeMacro \/ PullFails
  \/ \E U \in SUBSET Series : Pull(U)

MacroSpec == MacroInit /\ [][MacroNext]_macroVars
-----------------------------------------------------------------------------
Knowledge(m) == m.vintage + 1

\* The latest vintage at or before d: what sql/dashboard/05_macro.sql reads.
AsOf(c, d) ==
  LET known == {m \in macro : m.cell = c /\ m.vintage <= d}
  IN {m \in known : \A n \in known : n.vintage <= m.vintage}

\* No look-ahead: a row of Silver holds a value ALFRED showed for that
\* observation on the day of its vintage, and at the start of any day from its
\* knowledge_ts_us on, ALFRED had shown the value on an earlier day.
NoLookAhead ==
  \A m \in macro :
    /\ <<m.cell, m.vintage, m.value>> \in shown
    /\ \A d \in Knowledge(m) .. MaxVintage :
         \E s \in shown : s[1] = m.cell /\ s[3] = m.value /\ s[2] < d

\* A row per revision: no value of an observation is stored twice, and no two
\* rows of an observation share a vintage, so an as-of read has one answer.
OneRowPerRevision ==
  \A m, n \in macro :
    m.cell = n.cell /\ (m.value = n.value \/ m.vintage = n.vintage) => m = n

\* A value that came back after another one had replaced it.
Reverted(r) ==
  \E m, n \in macro : /\ m.cell = r.cell /\ m.value = r.value
                      /\ n.cell = r.cell /\ n.vintage \in m.vintage .. r.vintage /\ n # m

\* The object of an earlier or equal vintage was merged and then overwritten.
Overwritten(r) ==
  \E m \in macro : /\ m.cell = r.cell /\ m.vintage <= r.vintage
                   /\ [cell |-> m.cell, value |-> m.value] \notin vintage[m.vintage]

\* Once merged, an as-of read returns what the vintage's object says, except for
\* a value that had been shown, replaced and restored, and for a vintage whose
\* object a second pull replaced after it had been merged.
AsOfReadsVintage ==
  merged => \A r \in Rows :
              \/ \E m \in AsOf(r.cell, r.vintage) : m.value = r.value
              \/ Reverted(r) \/ Overwritten(r)

\* Silver answers point-in-time questions (merge_silver_macro.sql): nothing is
\* known before it was shown, a question has one answer, and it is what the
\* vintage said.
PointInTime == NoLookAhead /\ OneRowPerRevision /\ AsOfReadsVintage
=============================================================================
