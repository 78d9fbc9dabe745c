------------------------------ MODULE MCBackfill -----------------------------
(***************************************************************************)
(* Backfill for TLC.                                                       *)
(***************************************************************************)
EXTENDS Backfill

\* A month of two days and one of one day.
Starts == <<0, 2, 3>>
\* The first month, and a window that splits it.
Asked == {<<0, 1>>, <<1, 1>>}
=============================================================================
