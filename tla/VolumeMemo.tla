----------------------------- MODULE VolumeMemo -----------------------------
(***************************************************************************)
(* The memo of cache_available (play.rs): a volume that was seen to work   *)
(* is taken to work for five seconds, unless a download fails meanwhile.   *)
(* A memo is a record; `from` is history, the epoch in which the probe     *)
(* behind a standing yes began.                                            *)
(***************************************************************************)
EXTENDS Integers

NoMemo == [armed |-> FALSE, epoch |-> 0, from |-> 0]

ArmAnyhow(m, epoch) == [m EXCEPT !.armed = TRUE, !.from = epoch]  \* faulty: the epoch is not compared

(* A probe that began in `epoch` found the volume usable.                  *)
Arm(m, epoch) ==
  IF m.epoch = epoch THEN [m EXCEPT !.armed = TRUE, !.from = epoch] ELSE m

(* Five seconds passed since it was armed.                                 *)
Lapse(m) == [m EXCEPT !.armed = FALSE]

(* A download failed.                                                      *)
Invalidate(m) == [m EXCEPT !.armed = FALSE, !.epoch = @ + 1]

Memos(most) == [armed : BOOLEAN, epoch : 0 .. most, from : 0 .. most]
=============================================================================
