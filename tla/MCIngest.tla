------------------------------ MODULE MCIngest ------------------------------
(***************************************************************************)
(* Ingest for TLC, and what the repository's comments, docstrings and      *)
(* tests claim of it beyond the properties of Ingest.                      *)
(***************************************************************************)
EXTENDS Ingest

\* queue.py, lines 5-6: silent trade loss is the one failure this system must
\* not have.  A trade up to the watermark is on its way, or its repair failed
\* with an error in the log.
NoSilentLoss ==
  ~Resets => \A t \in 1..wm : InRange(t) =>
    Located(t) \/ UnderRepair(t) \/ RepairFailed(t)
=============================================================================
