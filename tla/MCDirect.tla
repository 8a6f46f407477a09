------------------------------ MODULE MCDirect ------------------------------
(* Instances of Direct for TLC. *)
EXTENDS Direct, TLC
=============================================================================
