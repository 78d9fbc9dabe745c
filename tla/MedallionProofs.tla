-------------------------- MODULE MedallionProofs --------------------------
(***************************************************************************)
(* Silver holds a keyed trade once, an execution drops none silently and   *)
(* leaves Gold as Silver is, and a bar derived from trades is never        *)
(* replaced by a kline and never loses one: for every set of trades, every *)
(* window, every schedule of executions, retries and archive merges.       *)
(***************************************************************************)
EXTENDS Medallion, TLAPS

\* The types of the two tables the theorems are about.
Tables ==
  /\ silver \in [Trades -> Nat]
  /\ gold \in [Minutes -> Bar]

\* A derived bar holds at most what Silver holds: what makes a rebuild grow.
GoldOfSilver ==
  \A m \in Minutes : Derived(m) =>
    \A t \in Trades : gold[m].from[t] <= IF EventTime[t] = m THEN silver[t] ELSE 0

TableInv == Tables /\ SilverUnique /\ GoldOfSilver

\* The bars the two writers of Gold build.
LEMMA BarTypes ==
  ASSUME Tables, NEW m \in Minutes
  PROVE  BarOf(m) \in Bar /\ Kline(m) \in Bar /\ NoBar \in Bar
BY DEF Tables, BarOf, Kline, NoBar, Empty, Bar, Tiers

\* MERGE ... WHEN NOT MATCHED THEN INSERT keeps every row and the key unique.
LEMMA InsertedKeeps ==
  ASSUME Tables, SilverUnique, NEW src
  PROVE  /\ Inserted(src) \in [Trades -> Nat]
         /\ \A t \in Trades : silver[t] <= Inserted(src)[t]
         /\ \A t \in Keyed : Inserted(src)[t] <= 1
BY DEF Tables, SilverUnique, Inserted, Keyed

\* Silver grew and Gold is as it was.
LEMMA SilverGrows ==
  ASSUME TableInv, NEW src, silver' = Inserted(src), gold' = gold
  PROVE  TableInv'
<1>1. Tables' /\ SilverUnique'
  BY InsertedKeeps DEF TableInv, Tables, SilverUnique
<1>2. \A t \in Trades : silver[t] <= silver'[t] /\ silver[t] \in Nat /\ silver'[t] \in Nat
  BY InsertedKeeps, <1>1 DEF TableInv, Tables
<1>3. \A m \in Minutes, t \in Trades : gold[m].from[t] \in Nat
  BY DEF TableInv, Tables, Bar
<1>4. GoldOfSilver'
  <2> SUFFICES ASSUME NEW m \in Minutes, Derived(m)', NEW t \in Trades
               PROVE  gold'[m].from[t] <= IF EventTime[t] = m THEN silver'[t] ELSE 0
    BY DEF GoldOfSilver
  <2>1. gold[m].from[t] <= IF EventTime[t] = m THEN silver[t] ELSE 0
    BY DEF TableInv, GoldOfSilver, Derived
  <2>2. QED
    BY <1>2, <1>3, <2>1
<1>5. QED
  BY <1>1, <1>4 DEF TableInv

\* A rebuilt minute holds exactly what Silver holds.
LEMMA RebuildStep == TableInv /\ MergeGold => TableInv'
<1> SUFFICES ASSUME TableInv, MergeGold PROVE TableInv'
  OBVIOUS
<1>1. silver' = silver
  BY DEF MergeGold
<1>2. \A m \in Minutes : gold'[m] = gold[m] \/ gold'[m] = BarOf(m)
  BY DEF MergeGold
<1>3. Tables'
  <2>1. gold' \in [Minutes -> Bar]
    BY BarTypes DEF MergeGold, TableInv, Tables
  <2>2. QED
    BY <1>1, <2>1 DEF TableInv, Tables
<1>4. SilverUnique'
  BY <1>1 DEF TableInv, SilverUnique
<1>5. GoldOfSilver'
  <2> SUFFICES ASSUME NEW m \in Minutes, Derived(m)', NEW t \in Trades
               PROVE  gold'[m].from[t] <= IF EventTime[t] = m THEN silver[t] ELSE 0
    BY <1>1 DEF GoldOfSilver
  <2>1. CASE gold'[m] = gold[m]
    BY <2>1 DEF TableInv, GoldOfSilver, Derived
  <2>2. CASE gold'[m] = BarOf(m)
    <3>1. gold'[m].from[t] = IF EventTime[t] = m THEN silver[t] ELSE 0
      BY <2>2 DEF BarOf
    <3>2. silver[t] \in Nat
      BY DEF TableInv, Tables
    <3>3. QED
      BY <3>1, <3>2
  <2>3. QED
    BY <1>2, <2>1, <2>2
<1>6. QED
  BY <1>3, <1>4, <1>5 DEF TableInv

\* A kline takes the place of no derived bar.
LEMMA KlineStep ==
  ASSUME TableInv, NEW d, MergeGoldArchive(d)
  PROVE  TableInv'
<1>1. silver' = silver
  BY DEF MergeGoldArchive
<1>2. \A m \in Minutes : gold'[m] = gold[m] \/ gold'[m] = Kline(m)
  BY DEF MergeGoldArchive
<1>3. Tables'
  <2>1. gold' \in [Minutes -> Bar]
    BY BarTypes DEF MergeGoldArchive, TableInv, Tables
  <2>2. QED
    BY <1>1, <2>1 DEF TableInv, Tables
<1>4. SilverUnique'
  BY <1>1 DEF TableInv, SilverUnique
<1>5. GoldOfSilver'
  <2> SUFFICES ASSUME NEW m \in Minutes, Derived(m)'
               PROVE  \A t \in Trades : gold'[m].from[t] <= IF EventTime[t] = m THEN silver[t] ELSE 0
    BY <1>1 DEF GoldOfSilver
  <2>1. Kline(m).tier = "ARCHIVE_KLINE"
    BY DEF Kline
  <2>2. gold'[m] = gold[m]
    BY <1>2, <2>1 DEF Derived
  <2>3. QED
    BY <2>2 DEF TableInv, GoldOfSilver, Derived
<1>6. QED
  BY <1>3, <1>4, <1>5 DEF TableInv

\* The step of the invariant.
LEMMA TableStep == TableInv /\ [Next]_vars => TableInv'
<1> SUFFICES ASSUME TableInv, [Next]_vars PROVE TableInv'
  OBVIOUS
<1>1. ASSUME UNCHANGED <<silver, gold>> PROVE TableInv'
  BY <1>1 DEF TableInv, Tables, SilverUnique, GoldOfSilver, Derived
<1>2. CASE MergeSilver
  <2>1. silver' = Inserted(FirstOfKey({b \in Window : Valid(b, now)})) /\ gold' = gold
    BY <1>2 DEF MergeSilver
  <2>2. QED
    BY <2>1, SilverGrows
<1>3. ASSUME NEW d, MergeSilverArchive(d) PROVE TableInv'
  <2>1. silver' = Inserted({t \in Keyed \ Bad : Day(EventTime[t]) = d}) /\ gold' = gold
    BY <1>3 DEF MergeSilverArchive
  <2>2. QED
    BY <2>1, SilverGrows
<1>4. CASE MergeGold
  BY <1>4, RebuildStep
<1>5. ASSUME NEW d, MergeGoldArchive(d) PROVE TableInv'
  BY <1>5, KlineStep
<1>6. CASE \/ Tick \/ StartExecution \/ MergeQuarantine \/ ExecutionEnds \/ ExecutionFails
           \/ UNCHANGED vars
           \/ \E t \in Trades, s \in {"STREAM", "REST_REPAIR"} : Land(t, s)
  BY <1>1, <1>6 DEF Tick, StartExecution, MergeQuarantine, ExecutionEnds, ExecutionFails,
     Land, vars
<1>7. QED
  BY <1>2, <1>3, <1>4, <1>5, <1>6 DEF Next

\* The tables start empty.
LEMMA TableInit == Init => TableInv
<1> SUFFICES ASSUME Init PROVE TableInv
  OBVIOUS
<1>1. silver \in [Trades -> Nat] /\ \A t \in Trades : silver[t] = 0
  BY DEF Init, Empty
<1>2. gold \in [Minutes -> Bar] /\ \A m \in Minutes : gold[m].tier = "NONE"
  BY DEF Init, NoBar, Empty, Bar, Tiers
<1>3. QED
  BY <1>1, <1>2 DEF TableInv, Tables, SilverUnique, GoldOfSilver, Derived, Keyed

\* Silver holds a keyed trade at most once, whatever is re-read, run again,
\* repaired or backfilled.
THEOREM SilverHasOneRow == Spec => []SilverUnique
<1>1. TableInv => SilverUnique
  BY DEF TableInv
<1>2. QED
  BY <1>1, TableInit, TableStep, PTL DEF Spec

\* One step of the fidelity guard, from the invariant.
LEMMA GoldGrows ==
  ASSUME TableInv, [Next]_vars, NEW m \in Minutes, Derived(m)
  PROVE  Derived(m)' /\ \A t \in Trades : gold[m].from[t] <= gold'[m].from[t]
<1>1. \A t \in Trades : gold[m].from[t] \in Nat /\ silver[t] \in Nat
  BY DEF TableInv, Tables, Bar
<1>2. CASE gold'[m] = gold[m]
  BY <1>1, <1>2 DEF Derived
<1>3. CASE gold'[m] = BarOf(m)
  <2>1. \A t \in Trades : gold[m].from[t] <= BarOf(m).from[t]
    BY <1>1 DEF TableInv, GoldOfSilver, BarOf
  <2>2. QED
    BY <1>3, <2>1 DEF Derived, BarOf
<1>4. gold'[m] = gold[m] \/ gold'[m] = BarOf(m)
  <2>1. CASE MergeGold
    BY <2>1 DEF MergeGold
  <2>2. ASSUME NEW d, MergeGoldArchive(d) PROVE gold'[m] = gold[m]
    BY <2>2 DEF MergeGoldArchive, Keeps, Derived
  <2>3. CASE gold' = gold
    BY <2>3
  <2>4. QED
    BY <2>1, <2>2, <2>3 DEF Next, vars, Tick, Land, StartExecution, MergeSilver,
       MergeQuarantine, ExecutionEnds, ExecutionFails, MergeSilverArchive
<1>5. QED
  BY <1>2, <1>3, <1>4

\* A bar derived from trades is never replaced by a kline and never loses a trade.
THEOREM GoldKeepsTrades == Spec => GoldMonotone
<1>1. TableInv /\ [Next]_vars =>
        [\A m \in Minutes : Derived(m) =>
           /\ Derived(m)'
           /\ \A t \in Trades : gold[m].from[t] <= gold'[m].from[t]]_vars
  BY GoldGrows
<1>2. QED
  BY <1>1, TableInit, TableStep, PTL DEF Spec, GoldMonotone

-----------------------------------------------------------------------------
\* The day of a tick.
LEMMA DayNat == \A t \in Nat : Day(t) \in Nat
BY ConstantsAssumption DEF Day

\* The variables keep their types.
LEMMA TypeStep == TypeOK /\ TableInv /\ TableInv' /\ [Next]_vars => TypeOK'
<1> SUFFICES ASSUME TypeOK, TableInv, TableInv', [Next]_vars PROVE TypeOK'
  OBVIOUS
<1>a. silver' \in [Trades -> Nat] /\ gold' \in [Minutes -> Bar]
  BY DEF TableInv, Tables
<1>b. FirstOfKey(Rejected) \subseteq Trades
  <2>1. \A b \in Rejected : b.trade \in Trades
    BY DEF Rejected, Window, TypeOK, Row
  <2>2. QED
    BY <2>1 DEF FirstOfKey, Keyed
<1> USE DEF TypeOK
<1>1. CASE Tick
  BY <1>a, <1>1 DEF Tick, history
<1>2. ASSUME NEW t \in Trades, NEW s \in {"STREAM", "REST_REPAIR"}, Land(t, s) PROVE TypeOK'
  <2>1. [trade |-> t, src |-> s, date |-> Day(now)] \in Row
    BY DayNat DEF Row
  <2>2. QED
    BY <1>a, <1>2, <2>1 DEF Land, history
<1>3. CASE StartExecution
  BY <1>a, <1>3 DEF StartExecution
<1>4. CASE MergeSilver
  BY <1>a, <1>4 DEF MergeSilver, BranchEnds, Window
<1>5. CASE MergeQuarantine
  BY <1>a, <1>b, <1>5 DEF MergeQuarantine, BranchEnds, Window
<1>6. CASE MergeGold
  BY <1>a, <1>6 DEF MergeGold, Window
<1>7. CASE ExecutionEnds \/ ExecutionFails
  <2>1. /\ phase' = "idle" /\ todo' \subseteq todo /\ due' = {} /\ read' = {}
        /\ silverAt' = 0 /\ quarAt' = 0
        /\ UNCHANGED <<now, bronze, quarantine>>
    BY <1>7 DEF ExecutionEnds, ExecutionFails, Forget
  <2>2. QED
    BY <1>a, <2>1
<1>8. ASSUME NEW d, MergeSilverArchive(d) \/ MergeGoldArchive(d) PROVE TypeOK'
  BY <1>a, <1>8 DEF MergeSilverArchive, MergeGoldArchive, history
<1>9. CASE UNCHANGED vars
  BY <1>9 DEF vars
<1>10. QED
  BY <1>1, <1>2, <1>3, <1>4, <1>5, <1>6, <1>7, <1>8, <1>9 DEF Next

\* The variables start with their types.
LEMMA TypeInit == Init => TypeOK
<1> SUFFICES ASSUME Init PROVE TypeOK
  OBVIOUS
<1>1. silver \in [Trades -> Nat] /\ gold \in [Minutes -> Bar]
  BY TableInit DEF TableInv, Tables
<1>2. QED
  BY <1>1 DEF Init, TypeOK

\* Every table and every execution keeps its types (the DDL under
\* infra/sql/native, native_medallion's states).
THEOREM MedallionTypes == Spec => []TypeOK
BY TypeInit, TypeStep, TableInit, TableStep, PTL DEF Spec

-----------------------------------------------------------------------------
(***************************************************************************)
(* What an execution has done by the time a branch has ended.              *)
(***************************************************************************)
SilverDone ==
  phase # "idle" /\ "silver" \notin todo =>
    \A b \in due : b.trade \in Keyed /\ Valid(b, silverAt) => silver[b.trade] > 0

QuarantineDone ==
  phase # "idle" /\ "quarantine" \notin todo =>
    \A b \in due : b.trade \in Keyed /\ ~Valid(b, quarAt) => b.trade \in quarantine

ReadStored == \A b \in read : b.trade \in Keyed => silver[b.trade] > 0

ExecutionInv ==
  /\ phase \in {"gold", "tail"} => todo = {}
  /\ ReadStored /\ SilverDone /\ QuarantineDone
  /\ GoldFollows

Before == TypeOK /\ TableInv /\ ExecutionInv

\* A merge that inserts loses no row, and gives the keyed rows of its source one.
LEMMA InsertedHolds ==
  ASSUME TableInv, NEW S, \A b \in S : b.trade \in Trades
  PROVE  /\ \A t \in Trades : silver[t] > 0 => Inserted(FirstOfKey(S))[t] > 0
         /\ \A b \in S : b.trade \in Keyed => Inserted(FirstOfKey(S))[b.trade] > 0
<1>1. silver \in [Trades -> Nat]
  BY DEF TableInv, Tables
<1>2. \A b \in S : b.trade \in Keyed => b.trade \in FirstOfKey(S)
  BY DEF FirstOfKey
<1>3. \A t \in Trades : /\ silver[t] > 0 => Inserted(FirstOfKey(S))[t] > 0
                        /\ t \in FirstOfKey(S) => Inserted(FirstOfKey(S))[t] > 0
  BY <1>1 DEF Inserted
<1>4. QED
  BY <1>2, <1>3

\* merge_silver_trades.sql: every valid keyed row of the window is in Silver.
LEMMA SilverBranch == Before /\ MergeSilver => ExecutionInv'
<1> SUFFICES ASSUME Before, MergeSilver PROVE ExecutionInv'
  OBVIOUS
<1> DEFINE S == {b \in Window : Valid(b, now)}
<1>1. /\ silver' = Inserted(FirstOfKey(S)) /\ BranchEnds("silver") /\ phase = "merging"
      /\ due' = due \cap Window /\ silverAt' = now /\ read' = S
      /\ UNCHANGED <<quarantine, gold, quarAt>>
  BY DEF MergeSilver
<1>2. /\ due \subseteq bronze /\ read \subseteq bronze /\ todo \subseteq {"silver", "quarantine"}
      /\ \A b \in bronze : b.trade \in Trades
  BY DEF Before, TypeOK, Row
<1>3. /\ \A t \in Trades : silver[t] > 0 => silver'[t] > 0
      /\ \A b \in S : b.trade \in Keyed => silver'[b.trade] > 0
  <2>1. \A b \in S : b.trade \in Trades
    BY <1>2 DEF Window
  <2> HIDE DEF S
  <2>2. QED
    BY <1>1, <2>1, InsertedHolds DEF Before
<1>4. /\ phase' \in {"merging", "gold"} /\ (phase' = "gold" => todo' = {})
      /\ ("quarantine" \notin todo' => "quarantine" \notin todo)
  BY <1>1 DEF BranchEnds
<1>5. ReadStored'
  BY <1>1, <1>3 DEF ReadStored
<1>6. SilverDone'
  <2>1. \A b \in due' : Valid(b, silverAt') => b \in S
    BY <1>1
  <2> HIDE DEF S
  <2>2. \A b \in due' : b.trade \in Keyed /\ Valid(b, silverAt') => silver'[b.trade] > 0
    BY <1>3, <2>1
  <2>3. QED
    BY <2>2 DEF SilverDone, Valid
<1>7. QuarantineDone'
  BY <1>1, <1>4 DEF Before, ExecutionInv, QuarantineDone, Valid
<1>8. GoldFollows'
  BY <1>4 DEF GoldFollows
<1>9. QED
  BY <1>4, <1>5, <1>6, <1>7, <1>8 DEF ExecutionInv

\* merge_silver_quarantine.sql: every rejected keyed row of the window is there.
LEMMA QuarantineBranch == Before /\ MergeQuarantine => ExecutionInv'
<1> SUFFICES ASSUME Before, MergeQuarantine PROVE ExecutionInv'
  OBVIOUS
<1>1. /\ quarantine' = quarantine \cup FirstOfKey(Rejected) /\ BranchEnds("quarantine")
      /\ phase = "merging" /\ due' = due \cap Window /\ quarAt' = now
      /\ UNCHANGED <<now, silver, gold, read, silverAt>>
  BY DEF MergeQuarantine
<1>2. todo \subseteq {"silver", "quarantine"}
  BY DEF Before, TypeOK
<1>3. /\ phase' \in {"merging", "gold"} /\ (phase' = "gold" => todo' = {})
      /\ ("silver" \notin todo' => "silver" \notin todo)
  BY <1>1 DEF BranchEnds
<1>4. \A b \in Window : b.trade \in Keyed /\ ~Valid(b, now) => b.trade \in quarantine'
  BY <1>1 DEF Rejected, FirstOfKey
<1>5. ReadStored'
  BY <1>1 DEF Before, ExecutionInv, ReadStored
<1>6. SilverDone'
  BY <1>1, <1>3 DEF Before, ExecutionInv, SilverDone, Valid
<1>7. QuarantineDone'
  BY <1>1, <1>4 DEF QuarantineDone, Valid
<1>8. GoldFollows'
  BY <1>3 DEF GoldFollows
<1>9. QED
  BY <1>3, <1>5, <1>6, <1>7, <1>8 DEF ExecutionInv

\* merge_gold_bars_1m.sql: the bar of a row in the window is rebuilt from Silver.
LEMMA GoldState == Before /\ MergeGold => ExecutionInv'
<1> SUFFICES ASSUME Before, MergeGold PROVE ExecutionInv'
  OBVIOUS
<1>1. /\ phase = "gold" /\ phase' \in {"gold", "tail"} /\ due' = due \cap Window
      /\ UNCHANGED <<silver, quarantine, todo, read, silverAt, quarAt>>
      /\ gold' = [m \in Minutes |-> IF Day(m) \in Dirty /\ BarOf(m).from # Empty
                                    THEN BarOf(m) ELSE gold[m]]
  BY DEF MergeGold
<1>2. todo' = {} /\ ReadStored' /\ SilverDone' /\ QuarantineDone'
  BY <1>1 DEF Before, ExecutionInv, ReadStored, SilverDone, QuarantineDone, Valid
<1>3. GoldFollows'
  <2> SUFFICES ASSUME NEW b \in due' \cap read', b.trade \in Keyed
               PROVE  /\ gold'[EventTime[b.trade]].tier = "DERIVED_FROM_TRADES"
                      /\ gold'[EventTime[b.trade]].from[b.trade] = silver'[b.trade]
    BY DEF GoldFollows
  <2> DEFINE t == b.trade
             m == EventTime[t]
  <2>1. b \in Window /\ b \in read
    BY <1>1
  <2>2. t \in Trades /\ m \in Minutes
    BY DEF Keyed, Minutes
  <2>3. silver[t] > 0
    BY <2>1 DEF Before, ExecutionInv, ReadStored
  <2>4. Day(m) \in Dirty
    BY <2>1 DEF Dirty
  <2>5. BarOf(m).tier = "DERIVED_FROM_TRADES" /\ BarOf(m).from[t] = silver[t]
    BY <2>2 DEF BarOf
  <2>6. Empty[t] = 0
    BY <2>2 DEF Empty
  <2> HIDE DEF t, m
  <2>7. BarOf(m).from # Empty
    BY <2>3, <2>5, <2>6
  <2>8. gold'[m] = BarOf(m)
    BY <1>1, <2>2, <2>4, <2>7
  <2>9. gold'[m].tier = "DERIVED_FROM_TRADES" /\ gold'[m].from[t] = silver'[t]
    BY <1>1, <2>5, <2>8
  <2>10. QED
    BY <2>9 DEF t, m
<1>4. QED
  BY <1>2, <1>3 DEF ExecutionInv

\* The archive adds rows to Silver, and none to a key that has one.
LEMMA ArchiveSilver ==
  ASSUME Before, NEW d, MergeSilverArchive(d)
  PROVE  ExecutionInv'
<1> DEFINE src == {t \in Keyed \ Bad : Day(EventTime[t]) = d}
<1>1. silver' = Inserted(src)
      /\ UNCHANGED <<now, bronze, quarantine, gold, phase, todo, due, read, silverAt, quarAt>>
  BY DEF MergeSilverArchive, history
<1>2. \A t \in Keyed : silver[t] > 0 => silver'[t] = silver[t]
  <2>1. silver \in [Trades -> Nat]
    BY DEF Before, TypeOK
  <2> HIDE DEF src
  <2>2. QED
    BY <1>1, <2>1 DEF Inserted, Keyed
<1> USE DEF Before, ExecutionInv
<1>3. ReadStored'
  BY <1>1, <1>2 DEF ReadStored
<1>4. SilverDone'
  BY <1>1, <1>2 DEF SilverDone, Valid
<1>5. QuarantineDone'
  BY <1>1 DEF QuarantineDone, Valid
<1>6. GoldFollows'
  <2> SUFFICES ASSUME phase = "tail", NEW b \in due \cap read, b.trade \in Keyed
               PROVE  /\ gold[EventTime[b.trade]].tier = "DERIVED_FROM_TRADES"
                      /\ gold[EventTime[b.trade]].from[b.trade] = silver'[b.trade]
    BY <1>1 DEF GoldFollows
  <2>1. silver'[b.trade] = silver[b.trade]
    BY <1>2 DEF ReadStored
  <2>2. QED
    BY <2>1 DEF GoldFollows
<1>7. QED
  BY <1>1, <1>3, <1>4, <1>5, <1>6

\* Klines leave the derived bars alone.
LEMMA ArchiveGold ==
  ASSUME Before, NEW d, MergeGoldArchive(d)
  PROVE  ExecutionInv'
<1>1. UNCHANGED <<now, bronze, silver, quarantine, phase, todo, due, read, silverAt, quarAt>>
  BY DEF MergeGoldArchive, history
<1>2. \A m \in Minutes : gold[m].tier = "DERIVED_FROM_TRADES" => gold'[m] = gold[m]
  BY DEF MergeGoldArchive, Keeps
<1> USE DEF Before, ExecutionInv
<1>3. ReadStored' /\ SilverDone' /\ QuarantineDone'
  BY <1>1 DEF ReadStored, SilverDone, QuarantineDone, Valid
<1>4. GoldFollows'
  <2> SUFFICES ASSUME phase = "tail", NEW b \in due \cap read, b.trade \in Keyed
               PROVE  /\ gold'[EventTime[b.trade]].tier = "DERIVED_FROM_TRADES"
                      /\ gold'[EventTime[b.trade]].from[b.trade] = silver[b.trade]
    BY <1>1 DEF GoldFollows
  <2>1. EventTime[b.trade] \in Minutes
    BY DEF Minutes, Keyed
  <2>2. /\ gold[EventTime[b.trade]].tier = "DERIVED_FROM_TRADES"
        /\ gold[EventTime[b.trade]].from[b.trade] = silver[b.trade]
    BY DEF GoldFollows
  <2>3. QED
    BY <1>2, <2>1, <2>2
<1>5. QED
  BY <1>1, <1>3, <1>4

\* The step of the execution's invariant, one case per action.
LEMMA ExecutionStep == Before /\ [Next]_vars => ExecutionInv'
<1> SUFFICES ASSUME Before, [Next]_vars PROVE ExecutionInv'
  OBVIOUS
<1>0. ASSUME UNCHANGED <<silver, quarantine, gold, phase, todo, due, read, silverAt, quarAt>>
      PROVE  ExecutionInv'
  BY <1>0 DEF Before, ExecutionInv, ReadStored, SilverDone, QuarantineDone, GoldFollows, Valid
<1>1. CASE MergeSilver
  BY <1>1, SilverBranch
<1>2. CASE MergeQuarantine
  BY <1>2, QuarantineBranch
<1>3. CASE MergeGold
  BY <1>3, GoldState
<1>4. ASSUME NEW d, MergeSilverArchive(d) \/ MergeGoldArchive(d) PROVE ExecutionInv'
  BY <1>4, ArchiveSilver, ArchiveGold
<1>5. CASE StartExecution
  BY <1>5 DEF StartExecution, ExecutionInv, ReadStored, SilverDone, QuarantineDone, GoldFollows
<1>6. CASE ExecutionEnds \/ ExecutionFails
  BY <1>6 DEF ExecutionEnds, ExecutionFails, Forget, ExecutionInv, ReadStored, SilverDone,
     QuarantineDone, GoldFollows
<1>7. CASE \/ Tick \/ UNCHANGED vars
           \/ \E t \in Trades, s \in {"STREAM", "REST_REPAIR"} : Land(t, s)
  BY <1>0, <1>7 DEF Tick, Land, history, vars
<1>8. QED
  BY <1>1, <1>2, <1>3, <1>4, <1>5, <1>6, <1>7 DEF Next

\* No execution runs at first.
LEMMA ExecutionInit == Init => ExecutionInv
BY DEF Init, ExecutionInv, ReadStored, SilverDone, QuarantineDone, GoldFollows

\* Everything the theorems below need.
LEMMA BeforeAlways == Spec => []Before
<1>1. Init => Before
  BY TypeInit, TableInit, ExecutionInit DEF Before
<1>2. Before /\ [Next]_vars => Before'
  BY TypeStep, TableStep, ExecutionStep DEF Before
<1>3. QED
  BY <1>1, <1>2, PTL DEF Spec

\* No silent drop: whatever lands, repeats, is retried or is backfilled, and
\* whatever the windows and ages are, an execution whose branches have ended has
\* every keyed row of its windows in Silver or in quarantine.
THEOREM ExecutionDropsNothing == Spec => []NothingDropped
<1>1. Before => NothingDropped
  <2> SUFFICES ASSUME Before, phase \in {"gold", "tail"}, NEW b \in due,
                      b.trade \in Keyed, SameVerdict(b)
               PROVE  Accounted(b.trade)
    BY DEF NothingDropped
  <2>1. todo = {}
    BY DEF Before, ExecutionInv
  <2>2. CASE Valid(b, silverAt)
    BY <2>1, <2>2 DEF Before, ExecutionInv, SilverDone, Accounted
  <2>3. CASE ~Valid(b, silverAt)
    BY <2>1, <2>3 DEF Before, ExecutionInv, QuarantineDone, Accounted, SameVerdict
  <2>4. QED
    BY <2>2, <2>3
<1>2. QED
  BY <1>1, BeforeAlways, PTL

\* Gold follows Silver: once Gold is rebuilt, the bar of every keyed row the
\* Silver merge accepted and the Gold merge read holds it as Silver does.
THEOREM GoldFollowsSilver == Spec => []GoldFollows
<1>1. Before => GoldFollows
  BY DEF Before, ExecutionInv
<1>2. QED
  BY <1>1, BeforeAlways, PTL
=============================================================================
