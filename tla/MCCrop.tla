------------------------------- MODULE MCCrop -------------------------------
(* Instances of Crop for TLC. *)
EXTENDS Crop, TLC
=============================================================================
