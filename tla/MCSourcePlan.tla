---------------------------- MODULE MCSourcePlan ----------------------------
(* Instances of SourcePlan for TLC. *)
EXTENDS SourcePlan, TLC
=============================================================================
