----------------------------- MODULE ArchiveLoad -----------------------------
(***************************************************************************)
(* One archive file through the loader (backfill/loader.py with            *)
(* checksum.py, epoch.py, parsers.py and staging.py): the two fetches, the *)
(* verification, the parse row by row with the file's unit, and the put.   *)
(* Backfill sees all of this as the outcome of one load.                   *)
(*                                                                         *)
(* The archive may replace the file at any moment, and the Lambda may be   *)
(* killed and tried again at any step.  A line carries the instants it     *)
(* stands for and the unit they are written in, so that what the parser    *)
(* makes of the number can be compared with what was meant.  Prices and    *)
(* quantities are copied as text by the code and left out.                 *)
(***************************************************************************)
EXTENDS Integers, Sequences, FiniteSets

CONSTANTS
  Floor, Ceil,  \* _EPOCH_FLOOR_S and _EPOCH_CEIL_S: plausible seconds
  Kilo,         \* a thousand
  Instants,     \* instants of rows, in microseconds
  Lines,        \* lines a file of each tier may hold
  MaxLines,     \* bound: lines of a file
  MaxTries,     \* bound: invocations
  MaxEditions   \* bound: editions of the file the archive serves

Tiers == {"HOT", "DEEP"}

Units == {"s", "ms", "us", "ns"}

\* A line: how many columns it has (0 for a blank one), its instants (event
\* time; or open and close time), the unit each is written in, and isBuyerMaker.
LineType ==
  [cols : Nat, at : Seq(Instants), unit : Seq(Units), flag : {"True", "False", "true", "none"}]

\* AGG_TRADE_COLUMNS and KLINE_COLUMNS, and how many of them are times.
Columns == [HOT |-> 8, DEEP |-> 12]
TimeColumns == [HOT |-> 1, DEEP |-> 2]

ASSUME EpochAssumption ==
  /\ Floor \in Nat \ {0} /\ Ceil \in Nat /\ Kilo \in Nat \ {0}
  /\ Floor < Ceil /\ Ceil <= Floor * Kilo
  /\ Instants \subseteq Floor * Kilo * Kilo .. Ceil * Kilo * Kilo - 1
  /\ \A x \in Tiers : \A l \in Lines[x] :
       /\ l \in LineType /\ Len(l.unit) = Len(l.at)
       /\ l.cols = Columns[x] => Len(l.at) = TimeColumns[x]
       /\ \A i \in DOMAIN l.at : l.unit[i] = "ms" => l.at[i] % Kilo = 0
  /\ {MaxLines, MaxTries, MaxEditions} \subseteq Nat

\* The number a file holds for an instant.
Written(t, u) ==
  IF u = "s" THEN t \div (Kilo * Kilo)
  ELSE IF u = "ms" THEN t \div Kilo
  ELSE IF u = "us" THEN t ELSE t * Kilo

\* An edition of the file: is its .CHECKSUM well formed and naming it, the zip's
\* members, and the lines of the first.
Edition(x) ==
  [named : BOOLEAN, members : {1, 2}, lines : UNION {[1..n -> Lines[x]] : n \in 0..MaxLines}]

Objects == {"checksum", "zip"}

VARIABLES
  tier,      \* the item's tier
  editions,  \* what the archive has served; the last one is there now
  present,   \* which of the two objects are there
  pc,        \* where the invocation is
  tries,     \* invocations
  sum,       \* the edition whose .CHECKSUM was fetched
  blob,      \* the edition whose zip was fetched
  pos,       \* lines read
  fileUnit,  \* UnitNormaliser._unit
  out,       \* rows parsed so far
  staged,    \* {} or the staging object: its rows, and the edition they are from
  outcome    \* what the last invocation returned

archive == <<editions, present>>
fetched == <<sum, blob>>
parser  == <<pos, fileUnit, out>>
archiveVars == <<tier, archive, pc, tries, fetched, parser, staged, outcome>>

\* ArchiveAggTrade and ArchiveKline.
Row == [at : Seq(Nat), side : {"BUY", "SELL", "none"}]

Outcome == [status : {"none", "DONE", "FAILED", "SKIPPED_NO_DATA"}, rows : 0..MaxLines]

NoOutcome == [status |-> "none", rows |-> 0]

ArchiveInit ==
  /\ tier \in Tiers /\ present \in SUBSET Objects
  /\ \E e \in Edition(tier) : editions = <<e>>
  /\ pc = "start" /\ tries = 1 /\ sum = 0 /\ blob = 0
  /\ pos = 0 /\ fileUnit = "none" /\ out = <<>> /\ staged = {} /\ outcome = NoOutcome
-----------------------------------------------------------------------------
\* The archive publishes the file, or another edition under the same name
\* (external).
Republished ==
  /\ Len(editions) < MaxEditions
  /\ \E e \in Edition(tier) : editions' = Append(editions, e)
  /\ present' = Objects
  /\ UNCHANGED <<tier, pc, tries, fetched, parser, staged, outcome>>

Returns(status, rows) == pc' = "ended" /\ outcome' = [status |-> status, rows |-> rows]

\* A 404 is ArchiveNotFound, at either URL.
NotThere ==
  /\ \/ pc = "start" /\ "checksum" \notin present
     \/ pc = "blob" /\ "zip" \notin present
  /\ Returns("SKIPPED_NO_DATA", 0)
  /\ UNCHANGED <<tier, archive, tries, fetched, parser, staged>>

\* The checksum is fetched first.
FetchChecksum ==
  /\ pc = "start" /\ "checksum" \in present
  /\ sum' = Len(editions) /\ pc' = "blob"
  /\ UNCHANGED <<tier, archive, tries, blob, parser, staged, outcome>>

FetchBlob ==
  /\ pc = "blob" /\ "zip" \in present
  /\ blob' = Len(editions) /\ pc' = "verify"
  /\ UNCHANGED <<tier, archive, tries, sum, parser, staged, outcome>>

\* verify: a well formed .CHECKSUM that names this file and holds the digest of
\* these bytes.
Verified == editions[sum].named /\ editions[sum] = editions[blob]

\* A ChecksumError otherwise.
Verify ==
  /\ pc = "verify"
  /\ \/ Verified /\ pc' = "unzip" /\ UNCHANGED outcome
     \/ ~Verified /\ Returns("FAILED", 0)
  /\ UNCHANGED <<tier, archive, tries, fetched, parser, staged>>

SoleMember(e) == e.members = 1

\* _sole_member_lines; the parser starts with a new UnitNormaliser.
Unzip ==
  /\ pc = "unzip"
  /\ \/ SoleMember(editions[blob]) /\ pc' = "parse" /\ UNCHANGED outcome
     \/ ~SoleMember(editions[blob]) /\ Returns("FAILED", 0)
  /\ pos' = 0 /\ fileUnit' = "none" /\ out' = <<>>
  /\ UNCHANGED <<tier, archive, tries, fetched, staged>>
-----------------------------------------------------------------------------
\* unit_of: the range a number falls in; "none" if it falls in neither.
UnitOf(v) ==
  IF Floor * Kilo <= v /\ v < Ceil * Kilo THEN "ms"
  ELSE IF Floor * Kilo * Kilo <= v /\ v < Ceil * Kilo * Kilo THEN "us" ELSE "none"

ToMicros(v, u) == IF u = "ms" THEN v * Kilo ELSE v

\* A unit for every number.
Agrees_PerRow(known, v) == UnitOf(v) # "none"

\* UnitNormaliser.__call__ accepts v in a file whose unit so far is known.
Agrees(known, v) == UnitOf(v) # "none" /\ known \in {"none", UnitOf(v)}

\* _side_from_buyer_maker: the buyer was the maker, so the taker sold; anything
\* else raises.
Side(flag) == IF flag = "True" THEN "SELL" ELSE IF flag = "False" THEN "BUY" ELSE "none"

\* The numbers in a line's time columns.
Times(l) == [i \in DOMAIN l.at |-> Written(l.at[i], l.unit[i])]

\* The file's unit once the first i times of l have been read.
UnitAfter(l, i) == IF fileUnit # "none" \/ i = 0 THEN fileUnit ELSE UnitOf(Times(l)[1])

\* The row is acceptable to parse_agg_trades or parse_klines: _fields counts its
\* columns, its times go through the file's normaliser one after the other.
Parses(l) ==
  /\ l.cols = Columns[tier]
  /\ \A i \in DOMAIN l.at : Agrees(UnitAfter(l, i - 1), Times(l)[i])
  /\ tier = "HOT" => Side(l.flag) # "none"

RowOf(l) ==
  [at |-> [i \in DOMAIN l.at |-> ToMicros(Times(l)[i], UnitOf(Times(l)[i]))],
   side |-> IF tier = "HOT" THEN Side(l.flag) ELSE "none"]

\* The next line: a blank one yields nothing, a bad one raises.
ParseLine(l) ==
  \/ /\ l.cols = 0
     /\ pos' = pos + 1 /\ UNCHANGED <<out, fileUnit, pc, outcome>>
  \/ /\ l.cols # 0 /\ Parses(l)
     /\ pos' = pos + 1 /\ out' = Append(out, RowOf(l)) /\ fileUnit' = UnitAfter(l, 1)
     /\ UNCHANGED <<pc, outcome>>
  \/ /\ l.cols # 0 /\ ~Parses(l)
     /\ Returns("FAILED", 0) /\ UNCHANGED parser

\* _stage: the rows of the tier's parser, to the last line.
ParseNext ==
  /\ pc = "parse" /\ pos < Len(editions[blob].lines)
  /\ ParseLine(editions[blob].lines[pos + 1])
  /\ UNCHANGED <<tier, archive, tries, fetched, staged>>

\* klines_csv_gz: one tuple per bar in KLINE_COLUMNS order; "bar" stands for the
\* eight columns copied as text.
KlineCsv(r) == <<"instrument", r.at[1], r.at[2], "bar">>

\* trades_csv_gz, in TRADE_COLUMNS order; "trade" stands for the five columns
\* copied as text.
TradeCsv(r) == <<"instrument", "binance", "symbol", "trade", r.at[1], r.side>>

CsvRow(r) == IF tier = "DEEP" THEN KlineCsv(r) ELSE TradeCsv(r)

\* The staging tables have no header: a column is its place.
KlineTable(c) == [at |-> <<c[2], c[3]>>, side |-> "none"]
TradeTable(c) == [at |-> <<c[5]>>, side |-> c[6]]
TableRow(c) == IF tier = "DEEP" THEN KlineTable(c) ELSE TradeTable(c)

AllParsed == pos = Len(editions[blob].lines)

Body == {[edition |-> blob, rows |-> [i \in DOMAIN out |-> CsvRow(out[i])]]}

\* put, once the digest and every row have been accepted.
PutBody ==
  /\ pc = "parse" /\ AllParsed
  /\ staged' = Body
  /\ pc' = "return"
  /\ UNCHANGED <<tier, archive, tries, fetched, parser, outcome>>

\* Outcome.done with the number of rows.
ReturnDone ==
  /\ pc = "return"
  /\ Returns("DONE", Len(out))
  /\ UNCHANGED <<tier, archive, tries, fetched, parser, staged>>

\* The Lambda is killed, or an exception that is no data error leaves it; or a
\* later run fetches the file again.
Again ==
  /\ tries < MaxTries
  /\ tries' = tries + 1 /\ pc' = "start" /\ sum' = 0 /\ blob' = 0
  /\ UNCHANGED <<tier, archive, parser, staged, outcome>>

ArchiveNext ==
  \/ Republished \/ NotThere \/ FetchChecksum \/ FetchBlob \/ Verify \/ Unzip
  \/ ParseNext \/ PutBody \/ ReturnDone \/ Again

ArchiveSpec == ArchiveInit /\ [][ArchiveNext]_archiveVars

-----------------------------------------------------------------------------
\* The lines that are rows, and the place of one among them.
Kept(e) == {i \in DOMAIN e.lines : e.lines[i].cols # 0}
Place(e, i) == Cardinality({j \in Kept(e) : j <= i})

\* All or nothing (Loader._load): Athena reads from a staging object every row of
\* one edition of the file, each with the instants that were meant, whatever
\* unit they are written in, and the taker's side; through replaced files, kills
\* and retries.
StagedIsWholeFile ==
  \A s \in staged :
    LET e == editions[s.edition]
    IN /\ e.members = 1
       /\ Len(s.rows) = Cardinality(Kept(e))
       /\ \A i \in Kept(e) :
            LET row == TableRow(s.rows[Place(e, i)])
            IN /\ row.at = e.lines[i].at
               /\ tier = "HOT" => row.side = [True |-> "SELL", False |-> "BUY"][e.lines[i].flag]

\* A file that disagrees with itself about the unit is never staged
\* (UnitNormaliser): two eras do not mix inside one partition.
OneUnitPerFile ==
  \A s \in staged :
    LET e == editions[s.edition]
    IN \A i, j \in Kept(e) : \A k \in DOMAIN e.lines[i].unit, n \in DOMAIN e.lines[j].unit :
         e.lines[i].unit[k] = e.lines[j].unit[n]

\* DONE is returned once the rows are staged, and counts them (Outcome.done).
DoneIsStaged ==
  pc = "ended" /\ outcome.status = "DONE" =>
    \E s \in staged : s.edition = blob /\ Len(s.rows) = outcome.rows

\* A file that can be trusted, stated of the file as a whole.
Acceptable(e) ==
  /\ e.named /\ e.members = 1
  /\ \E u \in {"ms", "us"} :
       \A i \in Kept(e) :
         LET l == e.lines[i]
         IN /\ l.cols = Columns[tier]
            /\ \A k \in DOMAIN l.unit : l.unit[k] = u
            /\ tier = "HOT" => l.flag \in {"True", "False"}

\* The verdict is the file's (Loader.load, _DATA_ERRORS): skipped only when an
\* object is not there, done only for a whole, well formed file whose two fetches
\* saw the same edition, failed for every other.
VerdictExact ==
  pc = "ended" =>
    outcome.status =
      IF blob = 0 THEN "SKIPPED_NO_DATA"
      ELSE IF Acceptable(editions[blob]) /\ editions[sum] = editions[blob] THEN "DONE"
      ELSE "FAILED"

\* The loader is all or nothing and its verdict exact (Loader.load): what is
\* staged is a whole file of one unit, DONE is said of it alone, and every other
\* file is refused.
LoadSound == StagedIsWholeFile /\ OneUnitPerFile /\ DoneIsStaged /\ VerdictExact
=============================================================================
