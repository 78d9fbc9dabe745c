----------------------------- MODULE MCMedallion -----------------------------
(***************************************************************************)
(* Medallion for TLC, and what the comments of the SQL files claim of it.  *)
(***************************************************************************)
EXTENDS Medallion

\* Trades 2 and 3 share a minute, 1 and 4 another.
Times == <<0, 1, 1, 0>>

\* verify_silver_gold.sql, lines 52-53: every key that reached Bronze is in
\* exactly one of Silver and quarantine, here after an execution.
ExactlyOne ==
  phase = "tail" => \A b \in due : ~(silver[b.trade] > 0 /\ b.trade \in quarantine)
=============================================================================
