---------------------------- MODULE MCKinesisSink ----------------------------
(***************************************************************************)
(* KinesisSink for TLC.                                                    *)
(***************************************************************************)
EXTENDS KinesisSink
=============================================================================
