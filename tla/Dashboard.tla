------------------------------ MODULE Dashboard -------------------------------
(***************************************************************************)
(* The data-layer dashboard: main runs five queries and turns whatever     *)
(* came back into one page (src/awsnative/dashboard/cli.py, page.py and    *)
(* charts.py).  A block of the page is kept as what it claims: its kind,   *)
(* its numbers and where its marks lie; the wording, the styling and the   *)
(* order of the blocks are left out.                                       *)
(*                                                                         *)
(* A cell of a result is the set of its value, empty for Athena's NULL.    *)
(* Positions are multiplied out so that they stay integers.                *)
(***************************************************************************)
EXTENDS Integers, Sequences, FiniteSetsExt, Functions

CONSTANTS Answers,    \* what each query may answer: [QUERIES -> SUBSET rows]
          PageLimit   \* rows below the header that one page of results holds

VARIABLES asked,     \* queries run so far, in the order of QUERIES
          results,   \* the rows fetched; a failed query has none
          lost,      \* the queries that failed
          dashPhase, \* "query", "done", or "raised" when no page is written
          page,      \* the sections of the page
          answer     \* history: every row of the answers

dashVars == <<asked, results, lost, dashPhase, page, answer>>

QueryNames == <<"layer_counts", "freshness", "quarantine", "perp_context", "macro">>
Names == Range(QueryNames)

\* What the queries answer: a row of counts for each day and layer or kind, as
\* they group by them, a row for each instant of the perpetual context, oldest
\* first, and a cell has at most one value.
IsCell(cell, values) == cell \subseteq values /\ \A u, v \in cell : u = v
ASSUME DashInputs ==
  /\ PageLimit \in Nat \ {0}
  /\ \A q \in Names : \A rows \in Answers[q] : rows \in Seq(Range(rows))
  /\ \A rows \in Answers["layer_counts"] \cup Answers["quarantine"] :
       /\ \A r \in Range(rows) : IsCell(r.count, Nat)
       /\ \A r, s \in Range(rows) : r.day = s.day /\ r.layer = s.layer => r = s
  /\ \A rows \in Answers["quarantine"] : \A r \in Range(rows) : r.layer \in {"Accepted", "Quarantined"}
  /\ \A rows \in Answers["freshness"] : \A r \in Range(rows) : IsCell(r.count, Nat) /\ IsCell(r.lag, Int)
  /\ \A rows \in Answers["perp_context"] : \A r \in Range(rows) :
       IsCell(r.mark_price, Int) /\ IsCell(r.funding_rate, Int) /\ IsCell(r.open_interest, Int)
  /\ \A rows \in Answers["perp_context"] :
       /\ \A r \in Range(rows) : r.ts \in Int
       /\ \A i, j \in 1..Len(rows) : i < j => rows[i].ts < rows[j].ts

-----------------------------------------------------------------------------
(* Cells and freshness tiles. *)

\* _f and the `or 0.0` that follows it where a NULL counts as nothing.
OrZero(cell) == IF cell = {} THEN 0 ELSE CHOOSE v \in cell : TRUE

\* FRESH_SECONDS, WARN_SECONDS and SERIOUS_SECONDS, in minutes.
Fresh == 15
Warn == 60
Serious == 24 * 60

\* freshness_tile: an empty table is not a stale one.
TileStatus(row) ==
  LET lag == OrZero(row.lag) IN
  IF OrZero(row.count) = 0 THEN "critical"
  ELSE IF row.lag = {} THEN "warning"
  ELSE IF lag < Fresh THEN "good"
  ELSE IF lag < Warn THEN "warning"
  ELSE IF lag < Serious THEN "serious"
  ELSE "critical"

\* stat_tile
StatTile(row) == [kind |-> "tile", status |-> TileStatus(row), row |-> row]

-----------------------------------------------------------------------------
(* Axes.  A tick is a number of quarters, the spacing of five ticks; what a *)
(* label reads is kept in twentieths, which quarters and tenths both are.   *)

Abs(n) == IF n < 0 THEN -n ELSE n

\* The quarters rounded to so many places, half to even.  Places below zero
\* round whole digits away, and two are enough for a quarter.
Step(places) ==
  <<2000000000, 200000000, 20000000, 2000000, 200000, 20000, 2000, 200, 20, 2>>[places + 9]
Round(n, d) ==
  LET low == n \div d
      rest == n - (low * d)
  IN IF 2 * rest < d \/ (2 * rest = d /\ low % 2 = 0) THEN low ELSE low + 1
Rounded(quarters, places) ==
  IF places >= 2 THEN 5 * quarters ELSE Step(places) * Round(5 * quarters, Step(places))

\* _nice: thousands, millions and billions keep a decimal, numbers from one up
\* keep two, smaller ones exactly as many as asked for.  Trailing zeros go, which
\* leaves nothing of a number that was rounded to 0 with no decimal point.
Nice(quarters, decimals) ==
  LET whole == Abs(quarters) \div 4
      k == IF decimals > 1 THEN decimals ELSE 1
      small == Rounded(quarters, decimals)
      sign == IF quarters < 0 THEN -1 ELSE 1
  IN IF whole >= 1000000000 THEN <<"B", Rounded(quarters, k - 9), sign>>
     ELSE IF whole >= 1000000 THEN <<"M", Rounded(quarters, k - 6), sign>>
     ELSE IF whole >= 1000 THEN <<"k", Rounded(quarters, k - 3), sign>>
     ELSE IF quarters = 0 THEN <<"plain", 0, 1>>
     ELSE IF whole >= 1 THEN <<"plain", 5 * quarters, sign>>
     ELSE IF small = 0 /\ decimals = 0 THEN <<"blank", 0, sign>>
     ELSE <<"plain", small, sign>>

Ticks(lo, hi) == [i \in 1..5 |-> (4 * lo) + ((hi - lo) * (i - 1))]
LabelsAt(lo, hi, decimals) == [i \in 1..5 |-> Nice(Ticks(lo, hi)[i], decimals)]

\* axis_labels: the first precision at which the five differ, else %g, whose six
\* digits need not tell them apart.
AxisLabels(lo, hi) ==
  LET enough == {d \in 0..8 : IsInjective(LabelsAt(lo, hi, d))} IN
  IF enough = {} THEN [i \in 1..5 |-> <<"%g", 0, 1>>]
  ELSE LabelsAt(lo, hi, Min(enough))

-----------------------------------------------------------------------------
(* Panels.  A mark is [lo, hi] across and [bottom, top] up, in box units    *)
(* times `unit`.                                                           *)

\* Box, with its plot_width and plot_height.
Left == 64
Width == 720
Right == 16
PlotWidth == Width - Left - Right
PlotHeight(height) == height - 16 - 32

EmptyPanel(title) == [kind |-> "empty", title |-> title]

\* line_panel and _scale: the y-range holds zero when asked, and is widened
\* around a flat series; _scale maps a flat x-range to the middle.
LinePanel(title, points, zero) ==
  IF points = {} THEN EmptyPanel(title)
  ELSE LET ys == {p.y : p \in points} \cup (IF zero THEN {0} ELSE {})
           flat == Min(ys) = Max(ys)
           lo == IF flat THEN Min(ys) - 1 ELSE Min(ys)
           hi == IF flat THEN Max(ys) + 1 ELSE Max(ys)
       IN [kind |-> "line", title |-> title, unit |-> hi - lo, plotted |-> points,
           axis |-> <<lo, hi>>, labels |-> AxisLabels(lo, hi), signed |-> zero, zeroLine |-> zero /\ lo < 0 /\ 0 < hi,
           heights |-> {(p.y - lo) * PlotHeight(170) : p \in points}, plot |-> PlotHeight(170)]

SeriesSlots == 3   \* SERIES_LIGHT

\* _pivot
DaysOf(rows) == {r.day : r \in Range(rows)}
LayersOf(rows) == {r.layer : r \in Range(rows)}

\* A point of _pivot; grouped_bars takes 0.0 for a day a series has none of.
BarValue(rows, layer, day) ==
  LET found == {r \in Range(rows) : r.layer = layer /\ r.day = day} IN
  IF found = {} THEN 0 ELSE OrZero((CHOOSE r \in found : TRUE).count)

\* grouped_bars: n groups of k bars, 2 apart, at least 3 wide; positions
\* times n * k.
BarWidth(n, k) == Max({PlotWidth - (12 * n) - (2 * n * k), 3 * n * k})
BarLeft(n, k, g, s) ==
  ((g - 1) * PlotWidth * k) + (6 * n * k) + ((s - 1) * (BarWidth(n, k) + (2 * n * k)))
GroupedBars(rows) ==
  LET n == Cardinality(DaysOf(rows))
      k == Cardinality(LayersOf(rows))
      values == {BarValue(rows, layer, day) : layer \in LayersOf(rows), day \in DaysOf(rows)}
      highest == IF Max(values) = 0 THEN 1 ELSE Max(values)
  IN [kind |-> "bars", unit |-> highest, plot |-> PlotHeight(240),
      axis |-> <<0, highest>>, labels |-> AxisLabels(0, highest),
      heights |-> {v * PlotHeight(240) : v \in values}, groups |-> n, across |-> PlotWidth * n * k,
      spans |-> [b \in (1..n) \X (1..k) |->
                   <<BarLeft(n, k, b[1], b[2]), BarLeft(n, k, b[1], b[2]) + BarWidth(n, k)>>]]

\* quarantine_panel: per day, what share of the rows was quarantined, of a
\* day's rows in either table.
Rate(accepted, quarantined) ==
  IF accepted + quarantined = 0 THEN <<0, 1>> ELSE <<quarantined, accepted + quarantined>>
RateOf(rows, day) ==
  Rate(BarValue(rows, "Accepted", day), BarValue(rows, "Quarantined", day))

\* rate_bars: one bar per day, directly labelled; positions times n.
DayWidth(n) == Min({PlotWidth - (16 * n), 56 * n})
DayLeft(n, i) == ((i - 1) * PlotWidth) + ((PlotWidth - DayWidth(n)) \div 2)
RateBars(rows) ==
  LET n == Cardinality(DaysOf(rows)) IN
     [kind |-> "rate", rates |-> [day \in DaysOf(rows) |-> RateOf(rows, day)],
      groups |-> n, across |-> PlotWidth * n,
      spans |-> [i \in 1..n |-> <<DayLeft(n, i), DayLeft(n, i) + DayWidth(n)>>]]

\* table
Table(rows) == [kind |-> "table", rows |-> rows]

-----------------------------------------------------------------------------
(* build_page_from_rows and build_page. *)

\* The points of a perpetual panel: a reading that is NULL is no point.
PerpPoints_NullIsZero(rows, field) == {[x |-> r.ts, y |-> OrZero(r[field])] : r \in Range(rows)}
PerpPoints(rows, field) ==
  {[x |-> r.ts, y |-> OrZero(r[field])] : r \in {s \in Range(rows) : s[field] # {}}}

\* perp[-40:]
LastRows(rows) == IF Len(rows) <= 40 THEN rows ELSE SubSeq(rows, Len(rows) - 39, Len(rows))

Section(heading, blocks) == [heading |-> heading, blocks |-> blocks]
IfAny(rows, blocks) == IF rows = <<>> THEN {} ELSE blocks

Sections(res) ==
  LET counts == res["layer_counts"]
      quarantine == res["quarantine"]
      perp == res["perp_context"]
      macro == res["macro"]
  IN {Section("Freshness", {StatTile(row) : row \in Range(res["freshness"])}),
      Section("Volume and quarantine",
        IfAny(counts, {GroupedBars(counts), Table(counts)}) \cup IfAny(quarantine, {RateBars(quarantine)})),
      Section("Perpetual context",
        {LinePanel("mark_price", PerpPoints(perp, "mark_price"), FALSE),
         LinePanel("funding_rate", PerpPoints(perp, "funding_rate"), TRUE),
         LinePanel("open_interest", PerpPoints(perp, "open_interest"), FALSE)}
        \cup IfAny(perp, {Table(LastRows(perp))})),
      Section("Macro regime", {[kind |-> "value", row |-> row] : row \in Range(macro)}),
      Section("Macro detail", IfAny(macro, {Table(macro)}))}

\* build_page skips a section without blocks.
BuildPage(res) == {s \in Sections(res) : s.blocks # {}}

-----------------------------------------------------------------------------
(* main *)

DashInit ==
  /\ asked = 0 /\ lost = {} /\ page = {} /\ dashPhase = "query"
  /\ results = [q \in Names |-> <<>>] /\ answer = results

\* fetch_rows: the first page, and no token is asked for another.
FirstPage(rows) == IF Len(rows) <= PageLimit THEN rows ELSE SubSeq(rows, 1, PageLimit)

\* execute and fetch_rows.
QueryAnswers ==
  /\ dashPhase = "query" /\ asked < Len(QueryNames)
  /\ \E rows \in Answers[QueryNames[asked + 1]] :
       /\ results' = [results EXCEPT ![QueryNames[asked + 1]] = FirstPage(rows)]
       /\ answer' = [answer EXCEPT ![QueryNames[asked + 1]] = rows]
  /\ asked' = asked + 1
  /\ UNCHANGED <<lost, dashPhase, page>>

\* AthenaError: the section stays empty and the loop goes on.
QueryFails ==
  /\ dashPhase = "query" /\ asked < Len(QueryNames)
  /\ lost' = lost \cup {QueryNames[asked + 1]}
  /\ asked' = asked + 1
  /\ UNCHANGED <<results, dashPhase, page, answer>>

\* grouped_bars raises for a fourth layer, and main with it.
WritePage ==
  /\ dashPhase = "query" /\ asked = Len(QueryNames)
  /\ IF Cardinality(LayersOf(results["layer_counts"])) > SeriesSlots
     THEN dashPhase' = "raised" /\ UNCHANGED page
     ELSE dashPhase' = "done" /\ page' = BuildPage(results)
  /\ UNCHANGED <<asked, results, lost, answer>>

\* A boto3 client that raises is not an AthenaError.
ClientRaises ==
  /\ dashPhase = "query" /\ asked < Len(QueryNames)
  /\ dashPhase' = "raised"
  /\ UNCHANGED <<asked, results, lost, page, answer>>

DashNext == QueryAnswers \/ QueryFails \/ WritePage \/ ClientRaises

DashSpec == DashInit /\ [][DashNext]_dashVars

-----------------------------------------------------------------------------
(* Properties. *)

Blocks == UNION {s.blocks : s \in page}
OfKind(kind) == {b \in Blocks : b.kind = kind}

\* "One query failing must not cost the rest of the page": every query that
\* answered is on the page with the rows of its first page of results or, of the
\* perpetual readings, the last forty of those, and one that failed is not
\* (main, fetch_rows, build_page).  An answer that fits one page loses nothing.
\* Of a longer one the last rows are gone without a word, and as 04_perp_context.sql
\* lists the oldest first, the newest reading is on the page only if all fit.
Shown(q) == IF q \in lost THEN <<>> ELSE FirstPage(answer[q])
PageSurvivesFailures ==
  dashPhase = "done" =>
    /\ asked = Len(QueryNames)
    /\ {b.row : b \in OfKind("tile")} = Range(Shown("freshness"))
    /\ {b.rows : b \in OfKind("table")}
         = {Shown("layer_counts"), LastRows(Shown("perp_context")), Shown("macro")} \ {<<>>}
    /\ Shown("quarantine") # <<>> <=> OfKind("rate") # {}
    /\ LET all == answer["perp_context"] IN
         "perp_context" \notin lost /\ all # <<>> =>
           (all[Len(all)] \in Range(LastRows(Shown("perp_context"))) <=> Len(all) <= PageLimit)

\* A missing reading is never drawn as a zero: a panel plots exactly the
\* readings that have a value, a panel of none says so, and the zero line is
\* there when the sign is the signal (build_page_from_rows, line_panel).
Fields == {"mark_price", "funding_rate", "open_interest"}
NoFalseZero ==
  /\ \A b \in OfKind("line") :
       /\ b.plotted = {[x |-> r.ts, y |-> OrZero(r[b.title])] :
                         r \in {s \in Range(results["perp_context"]) : s[b.title] # {}}}
       /\ b.signed /\ (\E p, q \in b.plotted : p.y < 0 /\ q.y > 0) => b.zeroLine
  /\ dashPhase = "done" => \A field \in Fields :
       IF \A r \in Range(results["perp_context"]) : r[field] = {}
       THEN \E b \in OfKind("empty") : b.title = field
       ELSE \E b \in OfKind("line") : b.title = field

\* Only a table that has rows and a recent one reads as good, and of two
\* tables the one further behind never reads better (freshness_tile).
Grade == [good |-> 1, warning |-> 2, serious |-> 3, critical |-> 4]
StatusHonest ==
  \A a \in OfKind("tile") :
    /\ a.status = "good" => OrZero(a.row.count) > 0 /\ a.row.lag # {} /\ OrZero(a.row.lag) < Fresh
    /\ \A b \in OfKind("tile") :
         (a.row.lag # {} /\ b.row.lag # {} /\ OrZero(b.row.count) > 0
            /\ OrZero(a.row.lag) >= OrZero(b.row.lag))
           => Grade[a.status] >= Grade[b.status]

\* A day with quarantined rows never reads as clean, and no other day reads as
\* dirty: its rate is above zero and at most one, also on a day when nothing was
\* accepted (quarantine_panel).
QuarantineVisible ==
  \A b \in OfKind("rate") :
    /\ \A day \in DOMAIN b.rates : 0 <= b.rates[day][1] /\ b.rates[day][1] <= b.rates[day][2]
    /\ {day \in DOMAIN b.rates : b.rates[day][1] > 0}
         = {r.day : r \in {s \in Range(results["quarantine"]) :
                              s.layer = "Quarantined" /\ OrZero(s.count) > 0}}

\* Marks stay in the plot and bars apart: no value is drawn outside its axis,
\* and for as many days as fit every bar has a width and no two bars overlap
\* (line_panel, grouped_bars, rate_bars).
MostDays == 33   \* a 34th day's three bars, at least 3 wide and 2 apart, leave the plot
MarksInPlot ==
  /\ \A b \in OfKind("line") \cup OfKind("bars") :
       \A h \in b.heights : 0 <= h /\ h <= b.plot * b.unit
  /\ \A b \in OfKind("bars") \cup OfKind("rate") : b.groups <= MostDays =>
       \A i \in DOMAIN b.spans :
         /\ 0 <= b.spans[i][1] /\ b.spans[i][1] < b.spans[i][2] /\ b.spans[i][2] <= b.across
         /\ \A j \in DOMAIN b.spans :
              i = j \/ b.spans[i][2] <= b.spans[j][1] \/ b.spans[j][2] <= b.spans[i][1]

\* No two rules of an axis below a billion carry the same label, whether the
\* series lies around zero or in a narrow band far from it (axis_labels).
Billion == 1000000000
AxisDistinct ==
  \A b \in OfKind("line") \cup OfKind("bars") :
    -Billion < b.axis[1] /\ b.axis[2] < Billion => IsInjective(b.labels)

\* The page tells the truth about what was read (build_page and the panels):
\* failed queries cost their own section alone, an absent reading is no zero, a
\* stale table or a dirty day does not look well, and marks and labels can be
\* told apart.
PageHonest ==
  /\ PageSurvivesFailures /\ NoFalseZero /\ StatusHonest /\ QuarantineVisible
  /\ MarksInPlot /\ AxisDistinct
=============================================================================
