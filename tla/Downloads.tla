----------------------------- MODULE Downloads -----------------------------
(***************************************************************************)
(* The /play download pipeline (play.rs, with prewarm from state.rs and    *)
(* the pause of backoff.rs): many requests and speculative prewarms asking *)
(* for trailers, one shared download per id, three download permits, the   *)
(* per-id failure memory, the box-wide YouTube pause, and a cache from     *)
(* which files are evicted at any time.                                    *)
(*                                                                         *)
(* The runtime is single-threaded (tokio current_thread): what the code    *)
(* does between two awaits is one action here, and every await is a point  *)
(* where any other action may come first.                                  *)
(*                                                                         *)
(* Left to other modules: sizes and ages of the files on the volume, the   *)
(* memo of cache_available, the crop cache, and the health counters.       *)
(***************************************************************************)
EXTENDS Clock, Backoff, FiniteSets

CONSTANTS
  Vids,         \* valid YouTube ids (is_valid_vid holds of each)
  NoVid,        \* "no id"
  Requests,     \* /play and /crop requests
  Prewarms,     \* tasks default_prewarm may spawn
  InFlightMax,  \* IN_FLIGHT_MAX
  Concurrency,  \* DOWNLOAD_CONCURRENCY, the permits of download_sem
  PrewarmMax,   \* PREWARM_MAX, the permits of prewarm_sem
  FailMax,      \* PLAY_FAIL_MAX
  LongTtl,      \* fail_ttl_ms of a fact about the video
  ShortTtl,     \* fail_ttl_ms of everything else
  MaxGen        \* bound: downloads ever created

ASSUME DownloadsAssumption ==
  /\ IsFiniteSet(Vids)
  /\ IsFiniteSet(Prewarms)
  /\ NoVid \notin Vids
  /\ Requests \cap Prewarms = {}
  /\ InFlightMax \in Nat \ {0}
  /\ Concurrency \in Nat \ {0}
  /\ PrewarmMax \in Nat
  /\ FailMax \in Nat \ {0}
  /\ LongTtl \in Nat \ {0}
  /\ ShortTtl \in Nat \ {0}
  /\ MaxGen \in Nat
  /\ MaxNow \in Nat

VARIABLES
  inFlight,  \* in_flight: the generation shared under each id, NoGen when absent
  dlGen,     \* dl_gen: the next generation
  stage,     \* where each generation's shared future stands
  target,    \* the id each generation downloads
  spec,      \* the generations created by a prewarm (history)
  driving,   \* generations whose detached driver has not run its last step
  req,       \* each requester: the await it is suspended at
  fails,     \* play_fails: when the remembered failure of an id lapses, 0 when absent
  owed,      \* the verdicts the memory owes an answer for (history)
  youtube,   \* AppState::youtube
  disk       \* the published trailers, and whether each is complete

vars == <<now, inFlight, dlGen, stage, target, spec, driving, req, fails,
          owed, youtube, disk>>

----------------------------------------------------------------------------
NoGen == 0
Gens == 1 .. MaxGen
Clients == Requests \cup Prewarms

Holding == {"extracting", "baking", "evicting"}  \* has a download permit
Ended == {"ok", "err"}
Stages == {"none", "queued"} \cup Holding \cup Ended
Files == {"none", "whole", "damaged"}

(* Why a download fails.  "unavailable" stands for the facts about a video *)
(* (unavailable, restricted, geo_blocked), "extraction_failed" for what    *)
(* may pass (with timeout), "incomplete_download" for local faults.        *)
Reasons == {"unavailable", "extraction_failed", "incomplete_download", "throttled"}

FailTtl(reason) == IF reason = "unavailable" THEN LongTtl ELSE ShortTtl

Idle == [pc |-> "idle", vid |-> NoVid, gen |-> NoGen, attempt |-> 0, play |-> FALSE]
Pcs == {"idle", "look", "fetch", "wait", "reopen"}
ReqType == [pc : Pcs, vid : Vids \cup {NoVid}, gen : Gens \cup {NoGen},
            attempt : {0, 1}, play : BOOLEAN]

Unfinished == {g \in Gens : stage[g] \in Holding \cup {"queued"}}
PermitsTaken == {g \in Gens : stage[g] \in Holding}
Entries(map) == {v \in Vids : map[v] # NoGen}

----------------------------------------------------------------------------
(* cached_failure(vid, now).is_some() *)
KnownDead(v) == fails[v] > now

(* record_failure: at the bound, lapsed entries go first, then all of them. *)
FailLen(f) == Cardinality({v \in Vids : f[v] # 0})

RecordFailureOnlyClears(f, v, reason) ==  \* faulty: no retain of the standing ones
  LET kept == IF FailLen(f) < FailMax THEN f ELSE [w \in Vids |-> 0]
  IN  [kept EXCEPT ![v] = now + FailTtl(reason)]

RecordFailure(f, v, reason) ==
  LET live == [w \in Vids |-> IF f[w] > now THEN f[w] ELSE 0]
      kept == IF FailLen(f) < FailMax THEN f
              ELSE IF FailLen(live) < FailMax THEN live
              ELSE [w \in Vids |-> 0]
  IN  [kept EXCEPT ![v] = now + FailTtl(reason)]

(* What a memory of FailMax standing verdicts owes: all of them, until one  *)
(* more id fails while it is full.                                         *)
Owes(v, reason) ==
  LET kept == IF Cardinality({w \in Vids : owed[w] > now}) < FailMax THEN owed
              ELSE [w \in Vids |-> 0]
  IN  [kept EXCEPT ![v] = now + FailTtl(reason)]

(* The shared future's last step on an error: the verdict is remembered    *)
(* before anyone who awaits the future can observe it; a throttle is about *)
(* the box and is never pinned to the id.                                  *)
Verdict(g, reason) ==
  IF reason = "throttled"
  THEN UNCHANGED <<fails, owed>>
  ELSE /\ fails' = RecordFailure(fails, target[g], reason)
       /\ owed' = Owes(target[g], reason)

(* drop_if_finished: forget the entry of an id whose download has ended.   *)
DropNothing(map, v) == map  \* faulty: the retry joins the ended download

DropIfFinished(map, v) ==
  IF map[v] # NoGen /\ stage[map[v]] \in Ended THEN [map EXCEPT ![v] = NoGen] ELSE map

----------------------------------------------------------------------------
Init ==
  /\ now = 0
  /\ inFlight = [v \in Vids |-> NoGen]
  /\ dlGen = 1
  /\ stage = [g \in Gens |-> "none"]
  /\ target = [g \in Gens |-> NoVid]
  /\ spec = {}
  /\ driving = {}
  /\ req = [c \in Clients |-> Idle]
  /\ fails = [v \in Vids |-> 0]
  /\ owed = [v \in Vids |-> 0]
  /\ youtube = NotPaused
  /\ disk = [v \in Vids |-> "none"]

Tick ==
  /\ now < MaxNow
  /\ now' = now + 1
  /\ UNCHANGED <<inFlight, dlGen, stage, target, spec, driving, req, fails,
                 owed, youtube, disk>>

dlVars == <<dlGen, stage, target, spec, driving>>

----------------------------------------------------------------------------
(* Requesters.                                                             *)

(* handle_play past cache_available: try_open finds the file and serves it  *)
(* (nothing changes here), or the request goes on to fetch the trailer.    *)
PlayArrives(c, v) ==
  /\ req[c].pc = "idle"
  /\ disk[v] = "none"
  /\ req' = [req EXCEPT ![c] = [Idle EXCEPT !.pc = "fetch", !.vid = v, !.play = TRUE]]
  /\ UNCHANGED <<now, inFlight, dlVars, fails, owed, youtube, disk>>

(* handle_crop with no report cached: fetch_trailer, whose stat finds no    *)
(* file.                                                                   *)
CropArrives(c, v) ==
  /\ req[c].pc = "idle"
  /\ disk[v] = "none"
  /\ req' = [req EXCEPT ![c] = [Idle EXCEPT !.pc = "fetch", !.vid = v]]
  /\ UNCHANGED <<now, inFlight, dlVars, fails, owed, youtube, disk>>

(* default_prewarm holds its permit for the whole task, the download too.  *)
PrewarmPermitsDroppedEarly == {p \in Prewarms : req[p].pc \in {"look", "fetch"}}  \* faulty
PrewarmPermitsTaken == {p \in Prewarms : req[p].pc # "idle"}

PrewarmSpawned(p, v) ==
  /\ req[p].pc = "idle"
  /\ inFlight[v] = NoGen
  /\ Cardinality(PrewarmPermitsTaken) < PrewarmMax
  /\ req' = [req EXCEPT ![p] = [Idle EXCEPT !.pc = "look", !.vid = v]]
  /\ UNCHANGED <<now, inFlight, dlVars, fails, owed, youtube, disk>>

(* fetch_trailer stats the disk in the blocking pool; the task resumes with *)
(* the answer later.                                                       *)
LooksAtDisk(p) ==
  /\ req[p].pc = "look"
  /\ req' = [req EXCEPT ![p] =
               IF disk[req[p].vid] # "none" THEN Idle ELSE [@ EXCEPT !.pc = "fetch"]]
  /\ UNCHANGED <<now, inFlight, dlVars, fails, owed, youtube, disk>>

(* fetch_trailer_inner up to shared.await, one synchronous step; on the    *)
(* second attempt of /play drop_if_finished comes first, in the same step. *)
MapAtFetch(c) ==
  IF req[c].attempt = 1 THEN DropIfFinished(inFlight, req[c].vid) ELSE inFlight

FetchKnownDead(c) ==
  /\ req[c].pc = "fetch"
  /\ KnownDead(req[c].vid)
  /\ inFlight' = MapAtFetch(c)
  /\ req' = [req EXCEPT ![c] = Idle]
  /\ UNCHANGED <<now, dlVars, fails, owed, youtube, disk>>

FetchJoins(c) ==
  LET map == MapAtFetch(c) IN
  /\ req[c].pc = "fetch"
  /\ ~KnownDead(req[c].vid)
  /\ map[req[c].vid] # NoGen
  /\ inFlight' = map
  /\ req' = [req EXCEPT ![c] = [@ EXCEPT !.pc = "wait", !.gen = map[req[c].vid]]]
  /\ UNCHANGED <<now, dlVars, fails, owed, youtube, disk>>

IsFull(map) == Cardinality(Entries(map)) >= InFlightMax

(* Refused before a new extraction: throttled (the pause) or overloaded.   *)
FetchRefused(c) ==
  LET map == MapAtFetch(c) IN
  /\ req[c].pc = "fetch"
  /\ ~KnownDead(req[c].vid)
  /\ map[req[c].vid] = NoGen
  /\ Paused(youtube, now) \/ IsFull(map)
  /\ inFlight' = map
  /\ req' = [req EXCEPT ![c] = Idle]
  /\ UNCHANGED <<now, dlVars, fails, owed, youtube, disk>>

PermitsLeaked == {g \in Gens : stage[g] \in Holding \cup {"err"}}  \* faulty: an error path keeps it
PermitsOut == PermitsTaken

Queued == {g \in Gens : stage[g] = "queued"}

(* The new future is polled at once: with a permit to spare and nobody      *)
(* waiting for one it is extracting before anything else runs.             *)
FirstStage ==
  IF Queued = {} /\ Cardinality(PermitsOut) < Concurrency THEN "extracting" ELSE "queued"

NewGen == dlGen

MayExtract == ~Paused(youtube, now)

FetchStarts(c) ==
  LET map == MapAtFetch(c)
      v == req[c].vid
  IN
  /\ req[c].pc = "fetch"
  /\ ~KnownDead(v)
  /\ map[v] = NoGen
  /\ MayExtract
  /\ ~IsFull(map)
  /\ dlGen <= MaxGen
  /\ dlGen' = dlGen + 1
  /\ inFlight' = [map EXCEPT ![v] = NewGen]
  /\ stage' = [stage EXCEPT ![NewGen] = FirstStage]
  /\ target' = [target EXCEPT ![NewGen] = v]
  /\ spec' = IF c \in Prewarms THEN spec \cup {NewGen} ELSE spec
  /\ driving' = driving \cup {NewGen}
  /\ req' = [req EXCEPT ![c] = [@ EXCEPT !.pc = "wait", !.gen = NewGen]]
  /\ UNCHANGED <<now, fails, owed, youtube, disk>>

(* The shared future has a value: an error answers the requester; success  *)
(* sends /play to open the file and ends /crop's fetch and a prewarm.      *)
Wakes(c) ==
  /\ req[c].pc = "wait"
  /\ stage[req[c].gen] \in Ended
  /\ req' = [req EXCEPT ![c] =
               IF req[c].play /\ stage[req[c].gen] = "ok"
               THEN [@ EXCEPT !.pc = "reopen", !.gen = NoGen] ELSE Idle]
  /\ UNCHANGED <<now, inFlight, dlVars, fails, owed, youtube, disk>>

(* try_open after the download: served, or evicted meanwhile: fetched once *)
(* more, and after that a 500.                                             *)
Reopens(c) ==
  /\ req[c].pc = "reopen"
  /\ req' = [req EXCEPT ![c] =
               IF disk[req[c].vid] = "none" /\ req[c].attempt = 0
               THEN [@ EXCEPT !.pc = "fetch", !.attempt = 1] ELSE Idle]
  /\ UNCHANGED <<now, inFlight, dlVars, fails, owed, youtube, disk>>

(* The client goes away: the handler is dropped at its await.  A prewarm   *)
(* is a task of its own and is never cancelled.                            *)
Cancelled(c) ==
  /\ c \in Requests
  /\ req[c].pc # "idle"
  /\ req' = [req EXCEPT ![c] = Idle]
  /\ UNCHANGED <<now, inFlight, dlVars, fails, owed, youtube, disk>>

----------------------------------------------------------------------------
(* The shared future of a generation, polled by its detached driver        *)
(* whatever the requesters do.                                             *)

PolledByWaiters(g) == \E c \in Clients : req[c].pc = "wait" /\ req[c].gen = g  \* faulty: no driver task
Polled(g) == g \in driving

(* download_sem is fair and is asked for in the order of the generations.  *)
Acquires(g) ==
  /\ stage[g] = "queued"
  /\ Polled(g)
  /\ \A h \in Queued : g <= h
  /\ Cardinality(PermitsOut) < Concurrency
  /\ stage' = [stage EXCEPT ![g] = "extracting"]
  /\ UNCHANGED <<now, inFlight, dlGen, target, spec, driving, req, fails,
                 owed, youtube, disk>>

(* download_to answered: YouTube is answering again.                       *)
ExtractOk(g) ==
  /\ stage[g] = "extracting"
  /\ Polled(g)
  /\ stage' = [stage EXCEPT ![g] = "baking"]
  /\ youtube' = Clear(youtube)
  /\ UNCHANGED <<now, inFlight, dlGen, target, spec, driving, req, fails, owed, disk>>

(* The future ends with an error: its temps are removed, its permit is back. *)
Fails(g, reason) ==
  /\ stage' = [stage EXCEPT ![g] = "err"]
  /\ Verdict(g, reason)

(* download_to failed; a throttle trips the pause.                         *)
ExtractFails(g, reason, jitter) ==
  /\ stage[g] = "extracting"
  /\ Polled(g)
  /\ Fails(g, reason)
  /\ youtube' = IF reason = "throttled" THEN Trip(youtube, now, NoHint, jitter) ELSE youtube
  /\ UNCHANGED <<now, inFlight, dlGen, target, spec, driving, req, disk>>

(* bake_clap: what the run of MP4Box did to the temp file, and what        *)
(* bake_outcome calls it.  No report to bake counts as NeverStarted.       *)
BakeRuns == {"Ok", "NeverStarted", "RefusedUntouched", "RefusedTouched", "Killed"}
FileAfter(run) == IF run \in {"RefusedTouched", "Killed"} THEN "damaged" ELSE "whole"

BakeOutcomeAllRefusalsSkipped(run) ==  \* faulty: a refusal never damages
  IF run = "Ok" THEN "Baked" ELSE IF run = "Killed" THEN "Damaged" ELSE "Skipped"

BakeOutcome(run) ==
  CASE run = "Ok" -> "Baked"
    [] run \in {"NeverStarted", "RefusedUntouched"} -> "Skipped"
    [] run \in {"RefusedTouched", "Killed"} -> "Damaged"

(* The temp is this generation's alone, so the bake and the rename that    *)
(* publishes it under the id are one step.                                 *)
Publishes(g, run) ==
  /\ stage[g] = "baking"
  /\ Polled(g)
  /\ BakeOutcome(run) # "Damaged"
  /\ stage' = [stage EXCEPT ![g] = "evicting"]
  /\ disk' = [disk EXCEPT ![target[g]] = FileAfter(run)]
  /\ UNCHANGED <<now, inFlight, dlGen, target, spec, driving, req, fails, owed, youtube>>

(* The bake was cut short, or the rename failed: a local fault.            *)
PublishFails(g) ==
  /\ stage[g] = "baking"
  /\ Polled(g)
  /\ Fails(g, "incomplete_download")
  /\ UNCHANGED <<now, inFlight, dlGen, target, spec, driving, req, youtube, disk>>

(* evict_if_needed: by age or over the cap any trailer may go, the one     *)
(* just published included.                                                *)
Evicted(gone) == [v \in Vids |-> IF v \in gone THEN "none" ELSE disk[v]]

(* ... after which the download is done and its failure is forgotten.      *)
Succeeds(g) ==
  /\ stage[g] = "evicting"
  /\ Polled(g)
  /\ \E gone \in SUBSET Vids : disk' = Evicted(gone)
  /\ stage' = [stage EXCEPT ![g] = "ok"]
  /\ fails' = [fails EXCEPT ![target[g]] = 0]
  /\ owed' = [owed EXCEPT ![target[g]] = 0]
  /\ UNCHANGED <<now, inFlight, dlGen, target, spec, driving, req, youtube>>

(* The hourly sweep evicts too.                                            *)
HourlyEviction ==
  /\ \E gone \in SUBSET Vids : disk' = Evicted(gone)
  /\ disk' # disk
  /\ UNCHANGED <<now, inFlight, dlVars, req, fails, owed, youtube>>

(* The driver's last step clears the entry, but only its own generation's.  *)
ClearAnyEntry(g) == [inFlight EXCEPT ![target[g]] = NoGen]  \* faulty: no generation guard

ClearOwnEntry(g) ==
  IF inFlight[target[g]] = g THEN [inFlight EXCEPT ![target[g]] = NoGen] ELSE inFlight

DriverEnds(g) ==
  /\ g \in driving
  /\ stage[g] \in Ended
  /\ driving' = driving \ {g}
  /\ inFlight' = ClearOwnEntry(g)
  /\ target' = [target EXCEPT ![g] = NoVid]
  /\ UNCHANGED <<now, dlGen, stage, spec, req, fails, owed, youtube, disk>>

----------------------------------------------------------------------------
ClientStep(c) ==
  \/ LooksAtDisk(c) \/ FetchKnownDead(c) \/ FetchJoins(c)
  \/ FetchRefused(c) \/ FetchStarts(c) \/ Wakes(c) \/ Reopens(c)

DownloadStep(g) ==
  \/ Acquires(g) \/ ExtractOk(g)
  \/ \E reason \in Reasons, jitter \in Jitters : ExtractFails(g, reason, jitter)
  \/ \E run \in BakeRuns : Publishes(g, run)
  \/ PublishFails(g) \/ Succeeds(g) \/ DriverEnds(g)

Next ==
  \/ Tick
  \/ \E c \in Requests, v \in Vids : PlayArrives(c, v) \/ CropArrives(c, v)
  \/ \E p \in Prewarms, v \in Vids : PrewarmSpawned(p, v)
  \/ \E c \in Clients : ClientStep(c) \/ Cancelled(c)
  \/ \E g \in Gens : DownloadStep(g)
  \/ HourlyEviction

Spec == Init /\ [][Next]_vars

(* Tasks that can run are run: the runtime polls every woken task, yt-dlp, *)
(* ffmpeg and MP4Box are killed at a timeout, and the semaphore is fair.   *)
Fairness ==
  /\ \A c \in Clients : WF_vars(ClientStep(c))
  /\ \A g \in Gens : WF_vars(DownloadStep(g))

FairSpec == Spec /\ Fairness

----------------------------------------------------------------------------
TypeOK ==
  /\ now \in Nat
  /\ inFlight \in [Vids -> Gens \cup {NoGen}]
  /\ dlGen \in 1 .. MaxGen + 1
  /\ stage \in [Gens -> Stages]
  /\ target \in [Gens -> Vids \cup {NoVid}]
  /\ spec \subseteq Gens
  /\ driving \subseteq Gens
  /\ req \in [Clients -> ReqType]
  /\ fails \in [Vids -> Nat]
  /\ owed \in [Vids -> Nat]
  /\ youtube \in [until : Int, strikes : Nat]
  /\ disk \in [Vids -> Files]

(* in_flight never holds more ids than IN_FLIGHT_MAX (play.rs: "Only a NEW *)
(* id is refused").                                                        *)
InFlightBounded == Cardinality(Entries(inFlight)) <= InFlightMax

(* The entry under an id and the download it names never part: while a      *)
(* download is unfinished its id's entry is its own and its driver lives,  *)
(* and an entry names a download of that id whose driver has yet to clear  *)
(* it (the generation guard, drop_if_finished and the detached driver).    *)
EntryTracksDownload ==
  /\ \A g \in Unfinished :
       target[g] \in Vids /\ inFlight[target[g]] = g /\ g \in driving
  /\ \A v \in Entries(inFlight) :
       target[inFlight[v]] = v /\ inFlight[v] \in driving

(* A viewer's download always finds room beside the speculative ones:      *)
(* PREWARM_MAX bounds the unfinished downloads prewarms have started, even *)
(* with tasks joining, retrying and requesters leaving.                    *)
PrewarmLeavesRoom == Cardinality(spec \cap Unfinished) <= PrewarmMax

(* What is served is a whole file: a bake cut short is never published.    *)
ServedIsWhole == \A v \in Vids : disk[v] # "damaged"

(* At most one download of an id, and at most IN_FLIGHT_MAX in all, at any  *)
(* time: the entry under an id is never lost while its download runs, by   *)
(* whichever driver, retry or eviction comes in between.                   *)
OneFlight == INSTANCE SingleFlight WITH
  Keys <- Vids, Jobs <- Gens, Limit <- InFlightMax,
  running <- {<<g, target[g]>> : g \in Unfinished}
OneDownloadPerId == OneFlight!Spec

(* A download that failed for a reason of its own is not repeated while    *)
(* its verdict stands: verdicts are only dropped when FailMax of them are  *)
(* standing and one more id fails, whatever lapsed entries the map holds.  *)
Creates(v) == \E g \in Gens : stage[g] = "none" /\ stage'[g] # "none" /\ target'[g] = v
VerdictStands == [][\A v \in Vids : Creates(v) => owed[v] <= now]_vars

(* The one retry of /play never waits for the download that was already    *)
(* over, whose file it has just found gone.                                *)
RetryIsFresh == [][\A c \in Clients :
                     (req[c].pc = "fetch" /\ req[c].attempt = 1 /\ req'[c].pc = "wait")
                       => stage[req'[c].gen] \notin Ended]_vars

(* A pause is one episode, whatever is queued extracts into it: no download *)
(* is added while it stands, and a refusal of one of those that had been   *)
(* asked for before neither lengthens it nor counts a strike towards the   *)
(* next; only an answer of YouTube moves it, and that lifts it.            *)
PauseIsOneEpisode ==
  [][Paused(youtube, now) =>
       /\ Unfinished' \subseteq Unfinished
       /\ youtube' # youtube =>
            /\ youtube' = NotPaused
            /\ \E g \in Gens : stage[g] = "extracting" /\ stage'[g] = "baking"]_vars

(* Every requester that waits is answered, and every entry leaves the map: *)
(* no order of cancellations, failures and retries wedges an id.           *)
WaitersAnswered == \A c \in Clients : req[c].pc = "wait" ~> req[c].pc # "wait"
EntriesRetire == \A g \in Gens : g \in driving ~> g \notin driving
NoneWedged == WaitersAnswered /\ EntriesRetire
=============================================================================
