------------------------------- MODULE Clock -------------------------------
(***************************************************************************)
(* The clock the components read (default_clock of state.rs, monotonic_ms  *)
(* of play.rs, tokio's timers), in whole units.  Each says when it moves.  *)
(***************************************************************************)
EXTENDS Integers

CONSTANT MaxNow  \* bound: the clock

VARIABLE now
=============================================================================
