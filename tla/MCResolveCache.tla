--------------------------- MODULE MCResolveCache ---------------------------
(* ResolveCache for TLC. *)
EXTENDS ResolveCache, TLC

Symmetry == Permutations(Keys \ Keyless) \cup Permutations(Requests)

(* What a parked entry that no boot would read says makes no difference,   *)
(* and the clock only moves on.                                            *)
View == <<now, up, cache, req, [k \in Keys |-> Restored(parked[k])]>>
=============================================================================
