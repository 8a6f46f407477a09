------------------------------ MODULE MCLinks -------------------------------
(* Instances of Links for TLC. *)
EXTENDS Links, TLC

(* A capability too long to be taken back is refused before anything else  *)
(* of it is read (unseal): what it says, and who made it, moves nothing.   *)
TooLong == cap.held /\ cap.media.long
View ==
  <<now, env, config, link, answer,
    IF TooLong THEN [held |-> TRUE, long |-> TRUE] ELSE cap>>
=============================================================================
