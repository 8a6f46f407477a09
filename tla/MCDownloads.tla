---------------------------- MODULE MCDownloads ----------------------------
(* Instances of Downloads for TLC. *)
EXTENDS Downloads, TLC

Symmetry == Permutations(Vids) \cup Permutations(Requests) \cup Permutations(Prewarms)

(* Two states are the same when they differ only in what nothing reads any *)
(* more: how a download ended whose driver and waiters are gone, and which *)
(* of the ended ones a prewarm had started.                                *)
Forgotten(g) ==
  stage[g] \in Ended /\ g \notin driving /\ \A c \in Clients : req[c].gen # g

View == <<now, inFlight, dlGen, [g \in Gens |-> IF Forgotten(g) THEN "gone" ELSE stage[g]],
          target, spec \cap Unfinished, driving, req, fails, owed, youtube, disk>>
=============================================================================
