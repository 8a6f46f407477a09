---------------------------- MODULE CacheVolume ----------------------------
(***************************************************************************)
(* The cache volume and the life of the process around it (play.rs, the    *)
(* process groups of ytdlp.rs, run() of main.rs): trailers and scratch     *)
(* files, the subprocesses that write them, the passes that sweep and      *)
(* evict on the blocking pool while both change, a shutdown that kills,    *)
(* waits, sweeps and exits, and a process that is killed instead and leaves*)
(* everything where it was.                                                *)
(*                                                                         *)
(* A trailer and a scratch file take one block each.  Files carry an age   *)
(* rather than a time, and an age stops growing where nothing compares it  *)
(* any more, so the clock needs no bound.  One name stands for everything  *)
(* yt-dlp derives from one output name (remove_temp_set matches the stem). *)
(* What a pass read of the directory is one snapshot; what it unlinks goes *)
(* file by file, beside everything else.                                   *)
(***************************************************************************)
EXTENDS Integers, FiniteSets

CONSTANTS
  Vids,         \* YouTube ids
  Cap,          \* CACHE_MAX_BYTES, in blocks
  Ttl,          \* CACHE_TTL_SECS: the age past which an unwatched trailer goes
  Grace,        \* PARTIAL_GRACE: the age past which scratch is abandoned
  Life,         \* the timeouts of a download, its cropdetect and its bake
  Concurrency,  \* DOWNLOAD_CONCURRENCY
  MaxGen,       \* bound: numbers one process takes from dl_gen
  MaxBoot       \* bound: processes

ASSUME CacheVolumeAssumption ==
  /\ IsFiniteSet(Vids) /\ "hourly" \notin Vids  \* an id has eleven characters
  /\ Cap \in Nat \ {0}
  /\ Ttl \in Nat \ {0}
  /\ Grace \in Nat
  /\ Life \in Nat
  /\ Life < Grace + 1
  /\ Concurrency \in Nat \ {0}
  /\ MaxGen \in Nat
  /\ MaxBoot \in Nat \ {0}

VARIABLES
  container,  \* whether den-reel is PID 1 of a container (it never changes)
  phase,      \* how far run() is
  boot,       \* the number of this process
  dlGen,      \* AppState::dl_gen
  trailer,    \* the age of <vid>.mp4 since its last access, Absent when absent
  scratch,    \* the age of each scratch file since its last write
  writers,    \* the subprocesses that run, each with the file it works on
  groups,     \* LIVE_GROUPS
  dl,         \* the download of each id
  pass        \* the eviction passes on the blocking pool

volumeVars == <<container, phase, boot, dlGen, trailer, scratch, writers, groups,
          dl, pass>>

----------------------------------------------------------------------------
Absent == -1
NoDownload == [stage |-> "none", gen |-> 0]
NoPass == [todo |-> [v \in {} |-> 0], total |-> 0, budget |-> 0]
Hourly == "hourly"
Passes == Vids \cup {Hourly}

Holding == {"writing", "failed", "measuring", "scanning", "evicting"}

(* den-reel is the ENTRYPOINT of its image.                                *)
Pid == IF container THEN 1 ELSE boot

(* .{vid}.{pid}.{gen}.partial... is a download's.  Keyframes to measure    *)
(* (.crop-{id}-{n}.h264) and MP4Box's working copies (_libgpac_...) carry  *)
(* no pid.                                                                 *)
TempNameOfGen(v, g) == <<"temp", v, 0, g>>  \* faulty: without the pid
TempName(v, g) == <<"temp", v, Pid, g>>
SideName(v, g) == <<"side", v, 0, g>>

Written == {w[2] : w \in {x \in writers : x[2][1] = "temp"}}
Held == {v \in Vids : dl[v].stage \in Holding}
Cached == {v \in Vids : trailer[v] # Absent}
Used == Cardinality(Cached) + Cardinality(DOMAIN scratch)
Running == phase # "down"
Mine == {w \in writers : Running /\ w[1] = boot}

(* Functions with a smaller or a larger domain.                            *)
Without(f, S) == [n \in DOMAIN f \ S |-> f[n]]
WithFresh(f, S) == [n \in DOMAIN f \cup S |-> IF n \in S THEN 0 ELSE f[n]]

Starts(ws) == writers' = writers \cup ws /\ groups' = groups \cup ws
Ends(ws) == writers' = writers \ ws /\ groups' = groups \ ws

At(v, s) == dl[v].stage = s
Temp(v) == TempName(v, dl[v].gen)
Side(v) == SideName(v, dl[v].gen)
MovesTo(v, s) == dl' = [dl EXCEPT ![v].stage = s]
Over(v) == dl' = [dl EXCEPT ![v] = NoDownload]

VolumeInit ==
  /\ container \in BOOLEAN
  /\ phase = "up"
  /\ boot = 1
  /\ dlGen = 0
  /\ trailer = [v \in Vids |-> Absent]
  /\ scratch = [n \in {} |-> 0]
  /\ writers = {}
  /\ groups = {}
  /\ dl = [v \in Vids |-> NoDownload]
  /\ pass = [p \in Passes |-> NoPass]

----------------------------------------------------------------------------
(* Downloads.  Requests join the download of their id (see Downloads), so  *)
(* there is one for each.                                                  *)

FetchStarts(v) ==
  /\ Running
  /\ At(v, "none")
  /\ trailer[v] = Absent
  /\ dlGen < MaxGen
  /\ dl' = [dl EXCEPT ![v] = [stage |-> "queued", gen |-> dlGen]]
  /\ dlGen' = dlGen + 1
  /\ UNCHANGED <<container, phase, boot, trailer, scratch, writers, groups, pass>>

Acquires(v) ==
  /\ Running
  /\ At(v, "queued")
  /\ Cardinality(Held) < Concurrency
  /\ MovesTo(v, "writing")
  /\ scratch' = WithFresh(scratch, {Temp(v)})
  /\ Starts({<<boot, Temp(v)>>})
  /\ UNCHANGED <<container, phase, boot, dlGen, trailer, pass>>

(* yt-dlp fails, times out or is killed; a 403 is run once more on the     *)
(* same name, which changes nothing here.                                  *)
ExtractFails(v) ==
  /\ Running
  /\ At(v, "writing")
  /\ MovesTo(v, "failed")
  /\ Ends({<<boot, Temp(v)>>})
  /\ UNCHANGED <<container, phase, boot, dlGen, trailer, scratch, pass>>

RemovesTempSet(v) ==
  /\ Running
  /\ At(v, "failed")
  /\ scratch' = Without(scratch, {Temp(v)})
  /\ Over(v)
  /\ UNCHANGED <<container, phase, boot, dlGen, trailer, writers, groups, pass>>

Extracted(v) ==
  /\ Running
  /\ At(v, "writing")
  /\ <<boot, Temp(v)>> \in writers
  /\ MovesTo(v, "measuring")
  /\ UNCHANGED <<container, phase, boot, dlGen, trailer, scratch, writers, groups, pass>>

(* cropdetect reads the temp, MP4Box may rewrite it; then the rename, which*)
(* keeps the times of the file.                                            *)
Publishes(v) ==
  /\ Running
  /\ At(v, "measuring")
  /\ MovesTo(v, "scanning")
  /\ trailer' = [trailer EXCEPT ![v] = scratch[Temp(v)]]
  /\ scratch' = Without(scratch, {Temp(v)})
  /\ Ends({<<boot, Temp(v)>>})
  /\ UNCHANGED <<container, phase, boot, dlGen, pass>>

PublishFails(v) ==
  /\ Running
  /\ At(v, "measuring")
  /\ Over(v)
  /\ scratch' = Without(scratch, {Temp(v)})
  /\ Ends({<<boot, Temp(v)>>})
  /\ UNCHANGED <<container, phase, boot, dlGen, trailer, pass>>

(* A bake that was killed half way: the MP4 is condemned, and MP4Box's own *)
(* working copy stays behind.                                              *)
BakeDamages(v) ==
  /\ Running
  /\ At(v, "measuring")
  /\ MovesTo(v, "failed")
  /\ scratch' = WithFresh(scratch, {Side(v)})
  /\ Ends({<<boot, Temp(v)>>})
  /\ UNCHANGED <<container, phase, boot, dlGen, trailer, pass>>

(* /crop?detect=keyframes writes its keyframes, reads them with ffmpeg and *)
(* removes them, unless the request is dropped in between.                 *)
KeyframesStart(v) ==
  /\ Running
  /\ dlGen < MaxGen
  /\ dlGen' = dlGen + 1
  /\ scratch' = WithFresh(scratch, {SideName(v, dlGen)})
  /\ Starts({<<boot, SideName(v, dlGen)>>})
  /\ UNCHANGED <<container, phase, boot, trailer, dl, pass>>

KeyframesRead(w) ==
  /\ Running
  /\ w \in Mine
  /\ w[2][1] = "side"
  /\ Ends({w})
  /\ scratch' \in {Without(scratch, {w[2]}), scratch}
  /\ UNCHANGED <<container, phase, boot, dlGen, trailer, dl, pass>>

(* A subprocess goes on writing, whoever still waits for it.               *)
Writes(w) ==
  /\ w \in writers
  /\ w[2] \in Written
  /\ scratch' = WithFresh(scratch, {w[2]})
  /\ UNCHANGED <<container, phase, boot, dlGen, trailer, writers, groups, dl, pass>>

(* open_for_serve stamps the access.                                       *)
Serves(v) ==
  /\ Running
  /\ trailer[v] # Absent
  /\ trailer' = [trailer EXCEPT ![v] = 0]
  /\ UNCHANGED <<container, phase, boot, dlGen, scratch, writers, groups, dl, pass>>

----------------------------------------------------------------------------
(* sweep_partials and evict_if_needed.                                     *)

AbandonedPartials ==  \* faulty: knows one shape of scratch only
  {n \in DOMAIN scratch : scratch[n] > Grace /\ n[1] = "temp"}
AbandonedAtOnce == {n \in DOMAIN scratch : scratch[n] >= Grace}  \* faulty: no grace
Abandoned == {n \in DOMAIN scratch : scratch[n] > Grace}

(* What scratch leaves of the cap; nothing to evict for when it left none. *)
Budget(blocks) == Cap - blocks

Expired == {v \in Cached : trailer[v] > Ttl}

Scanned(blocks) ==
  LET kept == Cached \ Expired
  IN IF Budget(blocks) > 0 /\ Cardinality(kept) > Budget(blocks)
     THEN [todo |-> [v \in kept |-> trailer[v]], total |-> Cardinality(kept),
           budget |-> Budget(blocks)]
     ELSE NoPass

Scans(p, blocks) ==
  /\ trailer' = [v \in Vids |-> IF v \in Expired THEN Absent ELSE trailer[v]]
  /\ pass' = [pass EXCEPT ![p] = Scanned(blocks)]

DownloadScans(v) ==
  /\ Running
  /\ At(v, "scanning")
  /\ Scans(v, Cardinality(DOMAIN scratch))
  /\ IF Scanned(Cardinality(DOMAIN scratch)) = NoPass THEN Over(v) ELSE MovesTo(v, "evicting")
  /\ UNCHANGED <<container, phase, boot, dlGen, scratch, writers, groups>>

HourlySweeps ==
  /\ Running
  /\ pass[Hourly] = NoPass
  /\ scratch' = Without(scratch, Abandoned)
  /\ Scans(Hourly, Cardinality(DOMAIN scratch \ Abandoned))
  /\ UNCHANGED <<container, phase, boot, dlGen, writers, groups, dl>>

(* The oldest of the listing next.  A file that is gone already does not   *)
(* count as one that was evicted.                                          *)
Next1(p) == {v \in DOMAIN pass[p].todo :
               \A u \in DOMAIN pass[p].todo : pass[p].todo[u] <= pass[p].todo[v]}

Evicts(p, v) ==
  LET left == [todo |-> Without(pass[p].todo, {v}), budget |-> pass[p].budget,
               total |-> IF trailer[v] = Absent THEN pass[p].total ELSE pass[p].total - 1]
      done == DOMAIN left.todo = {} \/ left.total <= left.budget
  IN /\ pass[p] # NoPass
     /\ v \in Next1(p)
     /\ trailer' = [trailer EXCEPT ![v] = Absent]
     /\ pass' = [pass EXCEPT ![p] = IF done THEN NoPass ELSE left]
     /\ IF done /\ p \in Vids THEN Over(p) ELSE UNCHANGED dl
     /\ UNCHANGED <<container, phase, boot, dlGen, scratch, writers, groups>>

----------------------------------------------------------------------------
(* The process.                                                            *)

(* SIGTERM, and the drain is over; during it everything goes on as before. *)
(* kill_live_groups takes the registry, then worker.shutdown() is awaited: *)
(* every other task goes on meanwhile.                                     *)
KillsGroups ==
  /\ phase = "up"
  /\ phase' = "await"
  /\ writers' = writers \ groups
  /\ groups' = {}
  /\ UNCHANGED <<container, boot, dlGen, trailer, scratch, dl, pass>>

(* What a name with `.pid.` in it may be: the generation has dots too.     *)
Ours == {n \in DOMAIN scratch : n[1] = "temp" /\ Pid \in {n[3], n[4]}}

(* The process is gone: its tasks with it, and every subprocess when it    *)
(* was PID 1.                                                              *)
Ended ==
  /\ phase' = "down"
  /\ writers' = IF container THEN {} ELSE writers
  /\ groups' = {}
  /\ dl' = [v \in Vids |-> NoDownload]
  /\ pass' = [p \in Passes |-> NoPass]
  /\ UNCHANGED <<container, boot, dlGen, trailer>>

SweepsOwn ==
  /\ phase = "await"
  /\ scratch' = Without(scratch, Ours)
  /\ Ended

(* An OOM kill, a second signal, or the end of the stop timeout.           *)
Killed ==
  /\ Running
  /\ scratch' = scratch
  /\ Ended

BootsAgain ==
  /\ phase = "down"
  /\ boot < MaxBoot
  /\ boot' = boot + 1
  /\ dlGen' = 0
  /\ phase' = "up"
  /\ UNCHANGED <<container, trailer, scratch, writers, groups, dl, pass>>

(* A subprocess that outlived den-reel comes to its end.                   *)
OrphanEnds(w) ==
  /\ w \in writers \ Mine
  /\ writers' = writers \ {w}
  /\ UNCHANGED <<container, phase, boot, dlGen, trailer, scratch, groups, dl, pass>>

Older(age, most) == IF age > most THEN age ELSE age + 1

(* yt-dlp aborts a stalled socket itself and the timeouts bound the rest,  *)
(* so what is in use has been written lately; a pass takes no time on this *)
(* scale.                                                                  *)
InUse == {w[2] : w \in writers} \cup {Temp(v) : v \in Held}

VolumeTick ==
  /\ \A n \in InUse \cap DOMAIN scratch : scratch[n] < Life
  /\ \A p \in Passes : pass[p] = NoPass
  /\ trailer' = [v \in Vids |-> IF trailer[v] = Absent THEN Absent ELSE Older(trailer[v], Ttl)]
  /\ scratch' = [n \in DOMAIN scratch |-> Older(scratch[n], Grace)]
  /\ UNCHANGED <<container, phase, boot, dlGen, writers, groups, dl, pass>>

DownloadSteps(v) ==
  \/ Acquires(v) \/ ExtractFails(v) \/ RemovesTempSet(v) \/ Extracted(v)
  \/ Publishes(v) \/ PublishFails(v) \/ BakeDamages(v) \/ DownloadScans(v)

VolumeNext ==
  \/ \E v \in Vids : \/ FetchStarts(v) \/ DownloadSteps(v) \/ KeyframesStart(v) \/ Serves(v)
  \/ \E w \in writers : KeyframesRead(w) \/ Writes(w) \/ OrphanEnds(w)
  \/ \E p \in Passes, v \in Vids : Evicts(p, v)
  \/ HourlySweeps \/ KillsGroups \/ SweepsOwn \/ Killed \/ BootsAgain \/ VolumeTick

VolumeSpec == VolumeInit /\ [][VolumeNext]_volumeVars

VolumeFairSpec ==
  /\ VolumeSpec
  /\ WF_volumeVars(VolumeTick)
  /\ WF_volumeVars(HourlySweeps)
  /\ \A v \in Vids : WF_volumeVars(DownloadSteps(v))
  /\ \A p \in Passes : WF_volumeVars(\E v \in Vids : Evicts(p, v))
  /\ WF_volumeVars(\E w \in writers : KeyframesRead(w) \/ OrphanEnds(w))

----------------------------------------------------------------------------
(* Two subprocesses never write to one output name, be they of one process *)
(* or of two that share the volume, and nobody writes yet to the name of a *)
(* download that waits for its permit (the name carries id, pid and        *)
(* generation; play.rs, download_cached).                                  *)
OneWriterPerTemp ==
  /\ \A w, x \in writers : w[2][1] = "temp" /\ w[2] = x[2] => w = x
  /\ \A v \in Vids : At(v, "queued") => Temp(v) \notin Written

(* No pass and no cleanup of a running process unlinks a scratch file that *)
(* a subprocess still writes: neither another download's remove_temp_set   *)
(* nor the hourly sweep, whoever started the writer.                       *)
WritersUndisturbed ==
  [][Running' => (DOMAIN scratch \ DOMAIN scratch') \cap Written' = {}]_volumeVars

(* A volume over its cap comes back under it, unless the process goes      *)
(* down: abandoned scratch of every kind is swept, and the passes evict    *)
(* what scratch leaves no room for.                                        *)
Reclaimed == Used > Cap ~> Used <= Cap \/ ~Running
=============================================================================
