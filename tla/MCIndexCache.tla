---------------------------- MODULE MCIndexCache ----------------------------
(* IndexCache for TLC: one video, muted and with sound. *)
EXTENDS IndexCache, TLC

CONSTANTS v1, a1

OneVideo == {v1}
Sound == v1 :> a1

(* A file, the same file signed anew, and another of which the query says  *)
(* the same.                                                               *)
Signed == [fields |-> 1, bytes |-> 1, until |-> 1]
SignedAnew == [fields |-> 1, bytes |-> 1, until |-> 2]
Replaced == [fields |-> 1, bytes |-> 2, until |-> 2]
SomeUrls == {Signed, SignedAnew, Replaced}
=============================================================================
