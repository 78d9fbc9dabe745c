---------------------------- MODULE MCTokenBucket ----------------------------
(***************************************************************************)
(* TokenBucket for TLC.                                                    *)
(***************************************************************************)
EXTENDS TokenBucket, TLC

Symmetry == Permutations(Tasks)
=============================================================================
