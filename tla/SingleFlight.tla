---------------------------- MODULE SingleFlight ----------------------------
(***************************************************************************)
(* What a de-duplicating pool of jobs promises, whatever runs inside it:   *)
(* at most one running job per key, and at most Limit running jobs.        *)
(* Downloads (the /play pipeline) and Direct (the URL resolves) implement  *)
(* it.                                                                     *)
(***************************************************************************)
EXTENDS Integers, FiniteSets

CONSTANTS
  Keys,    \* what a job is for
  Jobs,    \* identities of jobs, never used twice at once
  Limit    \* how many may run

VARIABLE running   \* the set of pairs <<job, key>> that have not ended

Busy == {r[2] : r \in running}

Init == running = {}

Start(j, k) ==
  /\ k \notin Busy
  /\ \A r \in running : r[1] # j
  /\ Cardinality(running) < Limit
  /\ running' = running \cup {<<j, k>>}

End(j, k) ==
  /\ <<j, k>> \in running
  /\ running' = running \ {<<j, k>>}

(* The process dies, and every job with it.                                *)
Abandon == running' = {}

Next ==
  \/ \E j \in Jobs, k \in Keys : Start(j, k) \/ End(j, k)
  \/ Abandon

Spec == Init /\ [][Next]_running
=============================================================================
