------------------------------- MODULE MCFeeds --------------------------------
(***************************************************************************)
(* What reaches the tables beside the live stream, for TLC: the perpetual  *)
(* context, the macro series and the archive files.  They share no state,  *)
(* so `focus`, chosen once, lets one move in a behaviour and TLC adds      *)
(* their states up instead of multiplying them.                            *)
(***************************************************************************)
EXTENDS PerpContext, MacroVintages, ArchiveLoad

VARIABLE focus   \* the part that moves in this behaviour

mcVars == <<perpVars, macroVars, archiveVars, focus>>

-----------------------------------------------------------------------------
MCPairs == <<"btc">>

\* One line of every kind the parsers tell apart.
Agg(c, t, u, f) == [cols |-> c, at |-> <<t>>, unit |-> <<u>>, flag |-> f]
Kline(c, u, v)  == [cols |-> c, at |-> <<32, 44>>, unit |-> <<u, v>>, flag |-> "none"]
MCLines == [
  HOT  |-> {Agg(0, 32, "ms", "none"), Agg(7, 32, "ms", "True"), Agg(8, 32, "ms", "True"),
            Agg(8, 45, "us", "False"), Agg(8, 44, "s", "True"), Agg(8, 44, "ns", "True"),
            Agg(8, 44, "ms", "true")},
  DEEP |-> {Kline(0, "ms", "ms"), Kline(13, "us", "us"), Kline(12, "ms", "ms"),
            Kline(12, "us", "us"), Kline(12, "ms", "us"), Kline(12, "us", "s")}]

-----------------------------------------------------------------------------
\* A part that is not in focus has one initial state.
MCInit ==
  /\ focus \in {"perp", "macro", "archive"} /\ PerpInit /\ MacroInit /\ ArchiveInit
  /\ focus # "macro" => alfred = [c \in Cells |-> Blank]
  /\ focus # "archive" => /\ tier = "HOT" /\ present = {}
                          /\ editions[1] = [named |-> FALSE, members |-> 1, lines |-> <<>>]

\* Bound: an edition that replaces another has one line, of any kind.
ShortReplacement == \A i \in 2..Len(editions) : Len(editions[i].lines) = 1

MCNext ==
  \/ focus = "perp" /\ PerpNext /\ UNCHANGED <<macroVars, archiveVars, focus>>
  \/ focus = "macro" /\ MacroNext /\ UNCHANGED <<perpVars, archiveVars, focus>>
  \/ focus = "archive" /\ ArchiveNext /\ ShortReplacement' /\ UNCHANGED <<perpVars, macroVars, focus>>

\* The schedule keeps starting merges; nothing says a poll succeeds.
MCSpec ==
  /\ MCInit /\ [][MCNext]_mcVars
  /\ WF_mcVars(focus = "perp" /\ MergePerp /\ UNCHANGED <<macroVars, archiveVars, focus>>)
=============================================================================
