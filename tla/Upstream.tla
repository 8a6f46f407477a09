------------------------------ MODULE Upstream ------------------------------
(***************************************************************************)
(* How den-reel asks TMDB and KinoCheck (upstream.rs): every request goes  *)
(* through get_json, which leaves a host alone that refused it and counts  *)
(* TMDB's faults for /health.  Requests of many titles are in flight at    *)
(* once and report back in any order, so one that left before a pause may  *)
(* report in the middle of it.                                             *)
(*                                                                         *)
(* Backoff is the pause.  What a title's answers are worth is ResolveCache;*)
(* here a lookup is answered, with whatever, or has no answer.             *)
(***************************************************************************)
EXTENDS Clock, Backoff, FiniteSets

CONSTANTS
  Lookups,  \* lookups in flight at once
  Timeout,  \* the HTTP client's: from sending a request to its last byte
  Hints,    \* the delays a host may name, at most CapMs
  MaxFails  \* bound: the counter of faults

ASSUME UpstreamAssumption ==
  /\ IsFiniteSet(Lookups)
  /\ Timeout \in Nat \ {0}
  /\ Timeout < BaseMs
  /\ Hints \subseteq 1 .. CapMs
  /\ MaxFails \in Nat
  /\ MaxNow \in Nat

VARIABLES
  pause,  \* tmdb_pause and kinocheck_pause
  began,  \* when each host's last pause began, for the properties
  fails,  \* fails
  ask     \* each lookup: the request it waits on

upstreamVars == <<now, pause, began, fails, ask>>

----------------------------------------------------------------------------
Hosts == {"tmdb", "kinocheck"}

(* "more": a TMDB lookup by IMDb id asks /find first, then for the videos. *)
NoAsk == [pc |-> "idle", host |-> "tmdb", more |-> FALSE, sent |-> 0]

(* counts_toward_health                                                    *)
Faults(host) == IF host = "tmdb" /\ fails < MaxFails THEN fails + 1 ELSE fails

UpstreamInit ==
  /\ now = 0
  /\ pause = [h \in Hosts |-> NotPaused]
  /\ began = [h \in Hosts |-> 0]
  /\ fails = 0
  /\ ask = [l \in Lookups |-> NoAsk]

(* The head of get_json: a host that is paused is not asked, which is no   *)
(* answer and a fault of it.                                               *)
AskedAnyhow(host) == FALSE  \* faulty: the pause is kept and never read
LeftAlone(host) == Paused(pause[host], now)

Calls(l, host, more) ==
  IF LeftAlone(host)
  THEN /\ fails' = Faults(host)
       /\ ask' = [ask EXCEPT ![l] = NoAsk]
  ELSE /\ ask' = [ask EXCEPT ![l] = [pc |-> "sent", host |-> host, more |-> more, sent |-> now]]
       /\ UNCHANGED fails

(* tmdb_candidates by IMDb id (more), or by TMDB id, tmdb_title, and       *)
(* kinocheck_youtube_id (one request).                                     *)
AsksHost(l, host, more) ==
  /\ ask[l].pc = "idle"
  /\ more => host = "tmdb"
  /\ Calls(l, host, more)
  /\ UNCHANGED <<now, pause, began>>

(* No answer: a network fault, the time limit, or a body that stalls, is   *)
(* too long or does not parse.                                             *)
Fails(l) ==
  /\ ask[l].pc \in {"sent", "body"}
  /\ fails' = Faults(ask[l].host)
  /\ ask' = [ask EXCEPT ![l] = NoAsk]
  /\ UNCHANGED <<now, pause, began>>

(* The pause of a host moves; "anew" when that is a pause of its own.      *)
Pauses(host, to, anew) ==
  /\ pause' = [pause EXCEPT ![host] = to]
  /\ began' = IF anew THEN [began EXCEPT ![host] = now] ELSE began

(* 429 or 5xx, with a Retry-After or without.                              *)
Refuses(l, hint, jitter) ==
  LET host == ask[l].host IN
  /\ ask[l].pc = "sent"
  /\ Pauses(host, Trip(pause[host], now, hint, jitter), ~Paused(pause[host], now))
  /\ fails' = Faults(host)
  /\ ask' = [ask EXCEPT ![l] = NoAsk]
  /\ UNCHANGED now

(* Any other status ends the pause, and starts one when the host says its  *)
(* rate limit is spent ("spent" is for how long, or NoHint).               *)
Answered(host, spent) ==
  IF spent = NoHint THEN Clear(pause[host]) ELSE Trip(Clear(pause[host]), now, spent, 0)

(* 200: the body is read next.                                             *)
Accepts(l, spent) ==
  /\ ask[l].pc = "sent"
  /\ Pauses(ask[l].host, Answered(ask[l].host, spent), spent # NoHint)
  /\ ask' = [ask EXCEPT ![l].pc = "body"]
  /\ UNCHANGED <<now, fails>>

(* 404 is an answer; 401 and 403 are none, and no fault of the host.       *)
Declines(l, spent) ==
  /\ ask[l].pc = "sent"
  /\ Pauses(ask[l].host, Answered(ask[l].host, spent), spent # NoHint)
  /\ ask' = [ask EXCEPT ![l] = NoAsk]
  /\ UNCHANGED <<now, fails>>

(* A body that parses clears TMDB's faults.  Of /find it goes on to the    *)
(* videos of the title, if it names one.                                   *)
ParsedFails(host) == IF host = "tmdb" THEN 0 ELSE fails

Parses(l) ==
  /\ ask[l].pc = "body"
  /\ fails' = ParsedFails(ask[l].host)
  /\ ask' = [ask EXCEPT ![l] = NoAsk]
  /\ UNCHANGED <<now, pause, began>>

GoesOn(l) ==
  LET host == ask[l].host IN
  /\ ask[l].pc = "body"
  /\ ask[l].more
  /\ IF LeftAlone(host)
     THEN /\ fails' = IF MaxFails > 0 THEN 1 ELSE 0
          /\ ask' = [ask EXCEPT ![l] = NoAsk]
     ELSE /\ fails' = 0
          /\ ask' = [ask EXCEPT ![l] = [pc |-> "sent", host |-> host, more |-> FALSE, sent |-> now]]
  /\ UNCHANGED <<now, pause, began>>

(* No request is in flight for longer than the client allows.              *)
UpstreamTick ==
  /\ now < MaxNow
  /\ \A l \in Lookups : ask[l].pc # "idle" => now < ask[l].sent + Timeout
  /\ now' = now + 1
  /\ UNCHANGED <<pause, began, fails, ask>>

UpstreamNext ==
  \/ \E l \in Lookups :
       \/ \E host \in Hosts, more \in BOOLEAN : AsksHost(l, host, more)
       \/ Fails(l)
       \/ \E hint \in Hints \cup {NoHint}, jitter \in Jitters : Refuses(l, hint, jitter)
       \/ \E spent \in Hints \cup {NoHint} : Accepts(l, spent) \/ Declines(l, spent)
       \/ Parses(l)
       \/ GoesOn(l)
  \/ UpstreamTick

UpstreamSpec == UpstreamInit /\ [][UpstreamNext]_upstreamVars

----------------------------------------------------------------------------
(* The lookup that reports in a step, from a host.                         *)
Reports(l, host) == ask[l].pc = "sent" /\ ask[l].host = host /\ ask'[l].pc # "sent"

(* What a straggler may do, a request that left before a host's pause and  *)
(* reports in it: an answer that is older than the refusal may end the     *)
(* pause and a refusal may lengthen it, but nothing sent since the refusal *)
(* ever moves it, and none of the requests a burst had in flight costs a   *)
(* strike of its own, unless the host asked for no more than the time they *)
(* had left.                                                               *)
StragglersAreOneEpisode ==
  [][\A h \in Hosts :
       /\ (Paused(pause[h], now) /\ pause'[h] # pause[h])
            => \E l \in Lookups : Reports(l, h) /\ ask[l].sent <= began[h]
       /\ (pause[h].strikes > 0 /\ pause'[h].strikes > pause[h].strikes)
            => \/ pause[h].until <= began[h] + Timeout
               \/ \E l \in Lookups : Reports(l, h) /\ ask[l].sent >= pause[h].until]_upstreamVars
=============================================================================
