------------------------------ MODULE Backoff ------------------------------
(***************************************************************************)
(* The host-wide pause of backoff.rs.  A Backoff is a record               *)
(*   [until |-> time the pause ends (0: not paused), strikes |-> Nat]      *)
(* held by the module that owns the host (YouTube, TMDB, KinoCheck); the   *)
(* operators below are the methods, as functions from the record to the    *)
(* record they leave behind.  Times are whole units of the caller's clock. *)
(***************************************************************************)
EXTENDS Integers

CONSTANTS
  BaseMs,   \* first window
  CapMs,    \* no window is longer
  Jitters   \* the per-mille jitters a trip may draw

ASSUME BackoffAssumption ==
  /\ BaseMs \in Nat \ {0}
  /\ CapMs \in Nat \ {0}
  /\ Jitters \subseteq 0 .. 199

NoHint == -1

NotPaused == [until |-> 0, strikes |-> 0]

AtMost(n, cap) == IF n < cap THEN n ELSE cap

(* window_ms: base doubling per strike, plus jitter, never past the cap.   *)
WindowMs(strikes, jitter) ==
  LET exp == AtMost(BaseMs * 2 ^ AtMost(strikes - 1, 20), CapMs)
  IN  AtMost(exp + (exp * jitter) \div 1000, CapMs)

(* remaining_ms(now).is_some() *)
Paused(b, now) == b.until > now

(* trip without the "same episode" early return: what a burst would cost   *)
TripEveryTime(b, now, hint, jitter) ==
  [until   |-> now + IF hint = NoHint THEN WindowMs(b.strikes + 1, jitter) ELSE hint,
   strikes |-> b.strikes + 1]

(* trip: while a pause stands only a longer hint moves it; otherwise one    *)
(* more strike and a new window.                                           *)
Trip(b, now, hint, jitter) ==
  IF Paused(b, now)
  THEN [b EXCEPT !.until = IF hint # NoHint /\ now + hint > @ THEN now + hint ELSE @]
  ELSE TripEveryTime(b, now, hint, jitter)

(* clear: the host answered; the pause and the strikes are forgotten.      *)
Clear(b) == NotPaused
=============================================================================
