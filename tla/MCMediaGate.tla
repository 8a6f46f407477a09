---------------------------- MODULE MCMediaGate ----------------------------
(* MediaGate for TLC. *)
EXTENDS MediaGate, TLC
=============================================================================
