------------------------------- MODULE SqlText --------------------------------
(***************************************************************************)
(* What happens to the text of a .sql file: split_statements of            *)
(* src/awsnative/athena.py, which cuts a file into statements, and         *)
(* src/awsnative/render.py, which fills in its placeholders.               *)
(*                                                                         *)
(* A text to split is a sequence over Alphabet: the four characters the    *)
(* splitter reacts to, a blank and a letter.  It is split, put together    *)
(* again from its statements, and split once more.  A template is only its *)
(* placeholders, the ones written ${name} and the ones escaped as $$name.  *)
(***************************************************************************)
EXTENDS Integers, Sequences, FiniteSets

CONSTANT MaxText   \* bound: characters of a file

Quote == "'"
Dash == "-"
Semi == ";"
Line == "\n"
Alphabet == {Quote, Dash, Semi, Line, " ", "a"}
Blank == {" ", Line}

VARIABLES sqlText,     \* the text split_statements is called with
          splitPhase,  \* "write", "scan" or "done"
          taken,       \* characters of it the loop has read
          mode,        \* in_line_comment, in_single_quote: "comment", "quote" or "code"
          current,     \* the statement being read
          statements,  \* the statements so far, those the function returns
          together,    \* history: the statements so far, semicolons between them
          parts,       \* history: the statements of the first call
          again,       \* the text is those statements, put together
          rendered     \* the statements render.py has produced

splitVars == <<sqlText, splitPhase, taken, mode, current, statements, together, parts, again>>
sqlVars == <<splitVars, rendered>>

-----------------------------------------------------------------------------
(* split_statements *)

\* _with_lookahead: the character after the i-th, as a text of at most one.
Lookahead(text, i) == IF i < Len(text) THEN <<text[i + 1]>> ELSE <<>>

\* str.strip
Inked(text) == {i \in DOMAIN text : text[i] \notin Blank}
Strip(text) ==
  IF Inked(text) = {} THEN <<>>
  ELSE SubSeq(text, CHOOSE i \in Inked(text) : \A k \in Inked(text) : i <= k,
                    CHOOSE i \in Inked(text) : \A k \in Inked(text) : i >= k)

\* A statement is complete.  The list is stripped, and what is empty then left
\* out, when all is read; here each statement is, as it is added.
Complete(text) ==
  IF Strip(text) = <<>> THEN UNCHANGED <<statements, together>>
  ELSE /\ statements' = Append(statements, Strip(text))
       /\ together' = IF statements = <<>> THEN Strip(text)
                      ELSE together \o <<Semi>> \o Strip(text)

\* One turn of the loop, on a character and the one after it.
Keep(char, then) ==
  current' = Append(current, char) /\ mode' = then /\ UNCHANGED <<statements, together>>
Drop(then) == mode' = then /\ UNCHANGED <<current, statements, together>>
Cut == Complete(current) /\ current' = <<>> /\ UNCHANGED mode

Turn_Naive(char, next) == IF char = Semi THEN Cut ELSE Keep(char, mode)
Turn(char, next) ==
  CASE mode = "comment" -> IF char = Line THEN Keep(char, "code") ELSE Drop("comment")
    [] mode = "quote" -> Keep(char, IF char = Quote THEN "code" ELSE "quote")
    [] mode = "code" ->
         CASE char = Quote -> Keep(char, "quote")
           [] char = Dash /\ next = <<Dash>> -> Drop("comment")
           [] char = Semi -> Cut
           [] OTHER -> Keep(char, "code")

Scan ==
  /\ splitPhase = "scan" /\ taken < Len(sqlText)
  /\ taken' = taken + 1
  /\ Turn(sqlText[taken + 1], Lookahead(sqlText, taken + 1))
  /\ UNCHANGED <<sqlText, splitPhase, parts, again, rendered>>

\* The loop is over: what is left is a statement too.
ScanEnds ==
  /\ splitPhase = "scan" /\ taken = Len(sqlText)
  /\ Complete(current) /\ splitPhase' = "done"
  /\ UNCHANGED <<sqlText, taken, mode, current, parts, again, rendered>>

-----------------------------------------------------------------------------
(* The reference: literals and comments as spans of the text.              *)

FirstAfter(text, i, c) ==
  LET at == {k \in (i + 1)..Len(text) : text[k] = c} IN
  IF at = {} THEN Len(text) + 1 ELSE CHOOSE k \in at : \A m \in at : k <= m

\* From a position in code the next one is behind the literal that begins there,
\* at the end of the line of the comment that begins there, or the one after.
IsComment(text, i) == text[i] = Dash /\ i < Len(text) /\ text[i + 1] = Dash
Jump(text, i) ==
  IF text[i] = Quote THEN FirstAfter(text, i, Quote) + 1
  ELSE IF IsComment(text, i) THEN FirstAfter(text, i, Line) ELSE i + 1

\* The positions in code: what is reached from the first by jumps.
Reached(text, at) == 1 \in at /\ \A i \in at : i <= Len(text) => Jump(text, i) \in at
Code(text) ==
  LET reached == {at \in SUBSET (1..(Len(text) + 2)) : Reached(text, at)}
  IN {i \in 1..(Len(text) + 2) : \A at \in reached : i \in at}

\* What a statement is made of: its literals and its code.
Kept(text, code) ==
  {p \in DOMAIN text : \E i \in code :
     i <= p /\ p < Jump(text, i) /\ ~IsComment(text, i) /\ text[i] # Semi}
Cuts(text, code) == {i \in code \cap DOMAIN text : text[i] = Semi}
Part(kept, cuts, end) == {p \in kept : p < end /\ ~\E c \in cuts : p < c /\ c < end}
Trimmed(text, at) ==
  {p \in at : \E q, r \in at : q <= p /\ p <= r /\ text[q] \notin Blank /\ text[r] \notin Blank}

\* The sequence lists the set in order, each member as what it stands for.
Rank(members, m) == Cardinality({k \in members : k <= m})
Spells(word, text, at) ==
  Len(word) = Cardinality(at) /\ \A p \in at : word[Rank(at, p)] = text[p]

-----------------------------------------------------------------------------
(* render *)

Plain == [needs |-> {}, literal |-> {}]
Template(needs) == [needs |-> needs, literal |-> {}]

\* KNOWN_PLACEHOLDERS
KnownPlaceholders ==
  {"database", "warehouse", "lookback_days", "valid_expr", "dirty_cte",
   "projection_start_date", "instrument_id", "table", "partition_predicate",
   "tier", "freshness_expr", "quarantine_expr"}

Missing == [needs |-> {"KeyError"}, literal |-> {}]

\* Template.substitute, one pass: a parameter's own placeholders are text by
\* then, and $$ becomes $.  A parameter the file does not use is ignored.
Render(text, params) ==
  IF text.needs \subseteq DOMAIN params
  THEN [needs |-> UNION {params[p].needs : p \in text.needs},
        literal |-> text.literal \cup UNION {params[p].literal : p \in text.needs}]
  ELSE Missing

\* DDL_FILES: every table takes database and warehouse, the two Bronze tables
\* of the enrichment the projection's start too; their ${ingest_date} is for
\* Athena and escaped.
DdlFiles ==
  [f \in {"silver_trades", "silver_trades_quarantine", "gold_bars_1m", "backfill_manifest",
          "archive_staging_klines", "archive_staging_trades", "backfill_outcomes",
          "silver_perp_context", "silver_macro", "native_health_metrics",
          "bronze_perp_context", "bronze_macro_observations"} |->
     IF f \in {"bronze_perp_context", "bronze_macro_observations"}
     THEN [needs |-> {"database", "warehouse", "projection_start_date"},
           literal |-> {"ingest_date"}]
     ELSE Template({"database", "warehouse"})]

\* The merges, the backfill's statements and the enrichment's.
MergeFiles ==
  [MERGE_SILVER |-> Template({"database", "lookback_days", "valid_expr"}),
   MERGE_QUARANTINE |-> Template({"database", "lookback_days", "valid_expr"}),
   MERGE_GOLD |-> Template({"database", "dirty_cte"}),
   MERGE_MANIFEST_OUTCOMES |-> Template({"database"}),
   MERGE_SILVER_ARCHIVE |-> Template({"database"}),
   MERGE_GOLD_ARCHIVE |-> Template({"database"}),
   MERGE_PERP_CONTEXT |-> Template({"database", "lookback_days"}),
   MERGE_MACRO |-> Template({"database"})]

Given(names) == [p \in names |-> Plain]

\* dirty_from_bronze renders its fragment before it is spliced in; valid_expr
\* is spliced as it is read and so may hold no placeholder.
DirtyFromBronze ==
  Render(Template({"database", "lookback_days"}), Given({"database", "lookback_days"}))
ValidExpr == Plain

DdlStatements ==
  {[of |-> DdlFiles[f], sql |-> Render(DdlFiles[f],
      Given({"database", "warehouse", "projection_start_date"}))] : f \in DOMAIN DdlFiles}

MergeStatements ==
  LET params == [p \in {"database", "lookback_days", "valid_expr", "dirty_cte"} |->
                   IF p = "valid_expr" THEN ValidExpr
                   ELSE IF p = "dirty_cte" THEN DirtyFromBronze ELSE Plain]
  IN {[of |-> MergeFiles[f], sql |-> Render(MergeFiles[f], params)] : f \in DOMAIN MergeFiles}

\* MAINTENANCE_PARTITION_PREDICATES and MAINTAINED_TABLES: silver_macro is
\* vacuumed and never optimized.
Predicated == {"silver_trades", "silver_trades_quarantine", "gold_bars_1m",
               "silver_perp_context", "native_health_metrics"}
MaintainedTables == Predicated \cup {"silver_macro"}
OptimizeTemplate == Template({"database", "table", "partition_predicate"})
VacuumTemplate == Template({"database", "table"})

\* The predicate is rendered first and spliced as one value.
MaintenanceStatements ==
  LET predicate == Render(Template({"lookback_days"}), Given({"lookback_days"})) IN
  {[of |-> VacuumTemplate, sql |-> Render(VacuumTemplate, Given({"database", "table"}))]
     : t \in MaintainedTables}
  \cup
  {[of |-> OptimizeTemplate,
    sql |-> Render(OptimizeTemplate,
              [p \in {"database", "table", "partition_predicate"} |->
                 IF p = "partition_predicate" THEN predicate ELSE Plain])] : t \in Predicated}

\* HEALTH_METRICS_*: a row per table, whose two expressions are rendered first
\* or are a bare NULL; $$files and $$snapshots name Iceberg's metadata.
HealthRow ==
  [needs |-> {"database", "table", "tier", "freshness_expr", "quarantine_expr"},
   literal |-> {"files", "snapshots"}]
HasFreshness == {"silver_trades", "gold_bars_1m", "silver_perp_context", "silver_macro"}
FreshnessExpr(t) ==
  IF t \in HasFreshness THEN Render(Template({"database"}), Given({"database"})) ELSE Plain
QuarantineExpr(t) ==
  IF t = "silver_trades_quarantine"
  THEN Render(Template({"database", "lookback_days"}), Given({"database", "lookback_days"}))
  ELSE Plain
HealthStatements ==
  {[of |-> HealthRow,
    sql |-> Render(HealthRow,
              [p \in HealthRow.needs |->
                 IF p = "freshness_expr" THEN FreshnessExpr(t)
                 ELSE IF p = "quarantine_expr" THEN QuarantineExpr(t) ELSE Plain])]
     : t \in MaintainedTables}

-----------------------------------------------------------------------------
SqlInit ==
  /\ sqlText = <<>> /\ splitPhase = "write" /\ taken = 0 /\ mode = "code" /\ current = <<>>
  /\ statements = <<>> /\ together = <<>> /\ parts = <<>> /\ again = FALSE
  /\ rendered = {}

\* Someone writes a file for query.py --file, which is then split.
WriteChar(c) ==
  /\ splitPhase = "write" /\ Len(sqlText) < MaxText
  /\ sqlText' = Append(sqlText, c)
  /\ UNCHANGED <<splitPhase, taken, mode, current, statements, together, parts, again, rendered>>
SplitFile ==
  /\ splitPhase = "write" /\ splitPhase' = "scan"
  /\ UNCHANGED <<sqlText, taken, mode, current, statements, together, parts, again, rendered>>

\* The statements are put together to be split again.
SplitAgain ==
  /\ splitPhase = "done" /\ ~again /\ again' = TRUE
  /\ sqlText' = together /\ parts' = statements
  /\ splitPhase' = "scan" /\ taken' = 0 /\ mode' = "code" /\ current' = <<>>
  /\ statements' = <<>> /\ together' = <<>> /\ UNCHANGED rendered

\* One of render.py's callers renders its statements.
RenderBatch ==
  /\ \E batch \in {DdlStatements, MergeStatements, MaintenanceStatements, HealthStatements} :
       rendered' = rendered \cup batch
  /\ UNCHANGED splitVars

Split == (\E c \in Alphabet : WriteChar(c)) \/ SplitFile \/ Scan \/ ScanEnds \/ SplitAgain
SqlNext == RenderBatch \/ Split
SqlSpec == SqlInit /\ [][SqlNext]_sqlVars

-----------------------------------------------------------------------------
(* Properties. *)

\* The character loop with its two flags cuts where a scanner that jumps over
\* whole literals and comments cuts, a dash before a comment, an unfinished
\* literal and a doubled quote included, and loses nothing of a statement but
\* its comments and the blanks around it (split_statements).
SplitExact ==
  splitPhase = "done" =>
    LET kept == Kept(sqlText, Code(sqlText))
        cuts == Cuts(sqlText, Code(sqlText))
        part(end) == Trimmed(sqlText, Part(kept, cuts, end))
        full == {end \in cuts \cup {Len(sqlText) + 1} : part(end) # {}}
    IN /\ Len(statements) = Cardinality(full)
       /\ \A end \in full : Spells(statements[Rank(full, end)], sqlText, part(end))

\* Statements sent one by one mean what the file means: put together again
\* with semicolons they split into themselves (split_statements drops the
\* comments, so that none can swallow the next statement).
SplitStable == splitPhase = "done" /\ again => statements = parts

\* No statement reaches Athena half rendered: what is left of a template is
\* its escaped text, never a placeholder that came in with a fragment or one
\* nobody gave a value (render's single pass, and the fragments rendered
\* before they are spliced in).
RenderedOnce ==
  \A s \in rendered :
    /\ s.sql.needs = {} /\ s.sql.literal = s.of.literal
    /\ s.of.needs \subseteq KnownPlaceholders

\* What Athena is sent is what the files say (split_statements, render): each
\* statement whole, alone and fully rendered.
SqlSound == SplitExact /\ SplitStable /\ RenderedOnce
=============================================================================
