-------------------------------- MODULE Crop --------------------------------
(***************************************************************************)
(* Where a trailer's letterbox comes from (crop.rs, with the gate of       *)
(* play.rs in front of it and the parked file of state.rs): /crop measures *)
(* the downloaded file, a download measures it on the way to the cache, and*)
(* /sources has it measured from keyframes in the background.  All three   *)
(* publish to one cache, in any order; the two that spawn ffmpeg beside a  *)
(* download share the probe permits.                                       *)
(*                                                                         *)
(* A report is what it was measured from.  How a trailer comes to the      *)
(* volume is in Downloads and CacheVolume; here a download leaves a report,*)
(* fails, or is of no interest, and a probe of the volume sees what it sees*)
(* at its time.                                                            *)
(***************************************************************************)
EXTENDS Clock, VolumeMemo, FiniteSets

CONSTANTS
  Ids,          \* YouTube ids
  NoId,         \* "no id"
  Requests,     \* /crop requests
  Tasks,        \* background measurements
  ProbePermits, \* the permits of probe_sem that probes and resolves leave
  CropCacheMax, \* CROP_CACHE_MAX
  UnknownMax,   \* CROP_UNKNOWN_MAX
  UnknownTtl,   \* CROP_UNKNOWN_TTL_MS
  FileMax,      \* reports that fit in MAX_CROP_FILE
  MaxEpoch      \* bound: failures of downloads

ASSUME CropAssumption ==
  /\ IsFiniteSet(Ids)
  /\ NoId \notin Ids
  /\ Requests \cap Tasks = {}
  /\ ProbePermits \in Nat \ {0}
  /\ CropCacheMax \in Nat \ {0}
  /\ UnknownMax \in Nat \ {0}
  /\ UnknownTtl \in Nat \ {0}
  /\ FileMax \in Nat
  /\ MaxEpoch \in Nat
  /\ MaxNow \in Nat

VARIABLES
  up,       \* whether the process runs
  memo,     \* cache_ok_until and cache_epoch
  cache,    \* crop_cache
  unknown,  \* crop_unknown: when to measure an id again, 0 when absent
  inflight, \* crop_inflight
  req,      \* each request: the await it is suspended at
  task,     \* each background measurement likewise
  parked    \* crop.json

vars == <<now, up, memo, cache, unknown, inflight, req, task, parked>>

----------------------------------------------------------------------------
NoReport == "none"
Reports == {"whole", "keyframes"}
NoRequest == [pc |-> "idle", id |-> NoId, epoch |-> 0]
NoTask == [pc |-> "idle", id |-> NoId]

Known(map) == {v \in Ids : map[v] # NoReport}
UnknownIsFresh(v) == unknown[v] > now

(* cache_report: at the bound everything goes, an entry of the same id too.*)
CacheReport(map, v, report) ==
  LET room == IF Cardinality(Known(map)) >= CropCacheMax THEN [u \in Ids |-> NoReport] ELSE map
  IN [room EXCEPT ![v] = report]

(* What a background measurement publishes: no report that is there is     *)
(* replaced.                                                               *)
BackgroundReportAnyway(map, v) == CacheReport(map, v, "keyframes")  \* faulty: the last one wins
BackgroundReport(map, v) ==
  IF map[v] = NoReport THEN CacheReport(map, v, "keyframes") ELSE map

(* record_unknown                                                          *)
RecordUnknown(map, v) ==
  LET held(m) == {u \in Ids : m[u] # 0}
      standing == [u \in Ids |-> IF map[u] > now THEN map[u] ELSE 0]
      kept == IF Cardinality(held(map)) < UnknownMax THEN map
              ELSE IF Cardinality(held(standing)) < UnknownMax THEN standing
              ELSE [u \in Ids |-> 0]
  IN [kept EXCEPT ![v] = now + UnknownTtl]

PermitsTaken == Cardinality({r \in Requests : req[r].pc = "detect"})
                  + Cardinality({t \in Tasks : task[t].pc = "detect"})

Moves(r, pc) == req' = [req EXCEPT ![r].pc = pc]
Answers(r) == req' = [req EXCEPT ![r] = NoRequest]

Init ==
  /\ now = 0
  /\ up = TRUE
  /\ memo = NoMemo
  /\ cache = [v \in Ids |-> NoReport]
  /\ unknown = [v \in Ids |-> 0]
  /\ inflight = {}
  /\ req = [r \in Requests |-> NoRequest]
  /\ task = [t \in Tasks |-> NoTask]
  /\ parked = [v \in Ids |-> NoReport]

----------------------------------------------------------------------------
(* handle_crop.                                                            *)

(* What follows the gate: the cache, the memory of what could not be       *)
(* measured, and only then the trailer.                                    *)
PastGate(r, v) ==
  IF cache[v] # NoReport \/ UnknownIsFresh(v)
  THEN Answers(r)
  ELSE req' = [req EXCEPT ![r] = [pc |-> "fetch", id |-> v, epoch |-> 0]]

Arrives(r, v) ==
  /\ up
  /\ req[r].pc = "idle"
  /\ memo.armed
  /\ PastGate(r, v)
  /\ UNCHANGED <<now, up, memo, cache, unknown, inflight, task, parked>>

Probes(r, v) ==
  /\ up
  /\ req[r].pc = "idle"
  /\ ~memo.armed
  /\ req' = [req EXCEPT ![r] = [pc |-> "probe", id |-> v, epoch |-> memo.epoch]]
  /\ UNCHANGED <<now, up, memo, cache, unknown, inflight, task, parked>>

(* create_dir_all on the blocking pool: its verdict is as old as the call. *)
ProbeSees(r) ==
  /\ up
  /\ req[r].pc = "probe"
  /\ \E seen \in {"usable", "unusable"} : Moves(r, seen)
  /\ UNCHANGED <<now, up, memo, cache, unknown, inflight, task, parked>>

ProbePasses(r) ==
  /\ up
  /\ req[r].pc = "usable"
  /\ memo' = Arm(memo, req[r].epoch)
  /\ PastGate(r, req[r].id)
  /\ UNCHANGED <<now, up, cache, unknown, inflight, task, parked>>

(* 503                                                                     *)
ProbeRefuses(r) ==
  /\ up
  /\ req[r].pc = "unusable"
  /\ Answers(r)
  /\ UNCHANGED <<now, up, memo, cache, unknown, inflight, task, parked>>

(* The trailer is there; the download may have left a report.              *)
Fetched(r) ==
  /\ up
  /\ req[r].pc = "fetch"
  /\ IF cache[req[r].id] # NoReport THEN Answers(r) ELSE Moves(r, "permit")
  /\ UNCHANGED <<now, up, memo, cache, unknown, inflight, task, parked>>

(* Every refusal of fetch_trailer answers "unknown" and remembers nothing. *)
FetchFails(r) ==
  /\ up
  /\ req[r].pc = "fetch"
  /\ Answers(r)
  /\ UNCHANGED <<now, up, memo, cache, unknown, inflight, task, parked>>

GetsPermit(r) ==
  /\ up
  /\ req[r].pc = "permit"
  /\ PermitsTaken < ProbePermits
  /\ Moves(r, "detect")
  /\ UNCHANGED <<now, up, memo, cache, unknown, inflight, task, parked>>

Detected(r) ==
  /\ up
  /\ req[r].pc = "detect"
  /\ cache' = CacheReport(cache, req[r].id, "whole")
  /\ Answers(r)
  /\ UNCHANGED <<now, up, memo, unknown, inflight, task, parked>>

NothingDetected(r) ==
  /\ up
  /\ req[r].pc = "detect"
  /\ unknown' = RecordUnknown(unknown, req[r].id)
  /\ Answers(r)
  /\ UNCHANGED <<now, up, memo, cache, inflight, task, parked>>

(* A client that hangs up drops the handler wherever it is; its ffmpeg     *)
(* dies with it and its permit comes back.                                 *)
HangsUp(r) ==
  /\ up
  /\ req[r].pc # "idle"
  /\ Answers(r)
  /\ UNCHANGED <<now, up, memo, cache, unknown, inflight, task, parked>>

----------------------------------------------------------------------------
(* Downloads, as far as they are seen from here.                           *)

(* crop::detect found a box in the temp.  What follows in the download may *)
(* still fail.                                                             *)
DownloadMeasures(v) ==
  /\ up
  /\ cache' = CacheReport(cache, v, "whole")
  /\ UNCHANGED <<now, up, memo, unknown, inflight, req, task, parked>>

(* Whatever the reason, the next request probes the volume.                *)
DownloadFails ==
  /\ up
  /\ memo.epoch < MaxEpoch
  /\ memo' = Invalidate(memo)
  /\ UNCHANGED <<now, up, cache, unknown, inflight, req, task, parked>>

----------------------------------------------------------------------------
(* measure_in_background, which /sources calls for an id without a report. *)

MayMeasureUnmarked(v) == ~UnknownIsFresh(v)  \* faulty: the mark is not asked
MayMeasure(v) == ~UnknownIsFresh(v) /\ v \notin inflight

MeasureStarts(t, v) ==
  /\ up
  /\ task[t].pc = "idle"
  /\ cache[v] = NoReport
  /\ MayMeasure(v)
  /\ inflight' = inflight \cup {v}
  /\ task' = [task EXCEPT ![t] = [pc |-> "keyframes", id |-> v]]
  /\ UNCHANGED <<now, up, memo, cache, unknown, req, parked>>

(* The index, the keyframes, and their file on the volume.                 *)
KeyframesWritten(t) ==
  /\ up
  /\ task[t].pc = "keyframes"
  /\ task' = [task EXCEPT ![t].pc = "permit"]
  /\ UNCHANGED <<now, up, memo, cache, unknown, inflight, req, parked>>

TaskGetsPermit(t) ==
  /\ up
  /\ task[t].pc = "permit"
  /\ PermitsTaken < ProbePermits
  /\ task' = [task EXCEPT ![t].pc = "detect"]
  /\ UNCHANGED <<now, up, memo, cache, unknown, inflight, req, parked>>

(* The last stretch of the task, on every path.                            *)
UnmarkedWhen(v, measured) == IF measured THEN inflight \ {v} ELSE inflight  \* faulty: an error keeps it
Unmarked(v, measured) == inflight \ {v}

Measured(t) ==
  /\ up
  /\ task[t].pc = "detect"
  /\ cache' = BackgroundReport(cache, task[t].id)
  /\ inflight' = Unmarked(task[t].id, TRUE)
  /\ task' = [task EXCEPT ![t] = NoTask]
  /\ UNCHANGED <<now, up, memo, unknown, req, parked>>

MeasureFails(t) ==
  /\ up
  /\ task[t].pc \in {"keyframes", "detect"}
  /\ unknown' = RecordUnknown(unknown, task[t].id)
  /\ inflight' = Unmarked(task[t].id, FALSE)
  /\ task' = [task EXCEPT ![t] = NoTask]
  /\ UNCHANGED <<now, up, memo, cache, req, parked>>

----------------------------------------------------------------------------
(* The process and the clock.                                              *)

Gone ==
  /\ up' = FALSE
  /\ memo' = NoMemo
  /\ cache' = [v \in Ids |-> NoReport]
  /\ unknown' = [v \in Ids |-> 0]
  /\ inflight' = {}
  /\ req' = [r \in Requests |-> NoRequest]
  /\ task' = [t \in Tasks |-> NoTask]
  /\ UNCHANGED now

(* save_crop_cache: everything, and it never expires.                      *)
ShutsDown == up /\ Gone /\ parked' = cache

Crashes == up /\ Gone /\ UNCHANGED parked

(* load_crop_cache: a file past its limit is not read at all.              *)
Boots ==
  /\ ~up
  /\ up' = TRUE
  /\ cache' = IF Cardinality(Known(parked)) <= FileMax THEN parked ELSE cache
  /\ UNCHANGED <<now, memo, unknown, inflight, req, task, parked>>

MemoLapses ==
  /\ memo.armed
  /\ memo' = Lapse(memo)
  /\ UNCHANGED <<now, up, cache, unknown, inflight, req, task, parked>>

Tick ==
  /\ now < MaxNow
  /\ now' = now + 1
  /\ UNCHANGED <<up, memo, cache, unknown, inflight, req, task, parked>>

RequestSteps(r) ==
  \/ ProbeSees(r) \/ ProbePasses(r) \/ ProbeRefuses(r)
  \/ Fetched(r) \/ FetchFails(r) \/ GetsPermit(r) \/ Detected(r) \/ NothingDetected(r)

TaskSteps(t) ==
  KeyframesWritten(t) \/ TaskGetsPermit(t) \/ Measured(t) \/ MeasureFails(t)

Next ==
  \/ \E r \in Requests : \/ \E v \in Ids : Arrives(r, v) \/ Probes(r, v)
                         \/ RequestSteps(r) \/ HangsUp(r)
  \/ \E t \in Tasks : (\E v \in Ids : MeasureStarts(t, v)) \/ TaskSteps(t)
  \/ (\E v \in Ids : DownloadMeasures(v)) \/ DownloadFails
  \/ ShutsDown \/ Crashes \/ Boots \/ MemoLapses \/ Tick

Spec == Init /\ [][Next]_vars

(* Index, keyframes and ffmpeg have timeouts, and the permits are first    *)
(* come first served: a task that waits for one gets it.                   *)
FairSpec ==
  /\ Spec
  /\ \A r \in Requests : WF_vars(RequestSteps(r))
  /\ \A t \in Tasks : WF_vars(TaskSteps(t)) /\ SF_vars(TaskGetsPermit(t))

----------------------------------------------------------------------------
TypeOK ==
  /\ now \in 0 .. MaxNow
  /\ up \in BOOLEAN
  /\ memo \in Memos(MaxEpoch)
  /\ cache \in [Ids -> Reports \cup {NoReport}]
  /\ unknown \in [Ids -> 0 .. MaxNow + UnknownTtl]
  /\ inflight \subseteq Ids
  /\ req \in [Requests -> [pc : {"idle", "probe", "usable", "unusable", "fetch", "permit", "detect"},
                           id : Ids \cup {NoId}, epoch : 0 .. MaxEpoch]]
  /\ task \in [Tasks -> [pc : {"idle", "keyframes", "permit", "detect"}, id : Ids \cup {NoId}]]
  /\ parked \in [Ids -> Reports \cup {NoReport}]

(* A yes that stands was given by a probe that began after the last failed *)
(* download: none undoes an invalidation it slept through                  *)
(* (cache_available, invalidate_cache_availability).                       *)
NoStaleYes == memo.armed => memo.from = memo.epoch

(* An id is measured in the background once at a time, and marked for just *)
(* as long (measure_in_background).                                        *)
OneMeasurement ==
  /\ \A t, u \in Tasks : task[t].pc # "idle" /\ task[t].id = task[u].id => t = u
  /\ inflight = {task[t].id : t \in {u \in Tasks : task[u].pc # "idle"}}

(* The report of a whole file is never replaced by one from keyframes, in  *)
(* whatever order the measurements end.                                    *)
WholeFileStands ==
  [][\A v \in Ids : up /\ up' /\ cache[v] = "whole" => cache'[v] # "keyframes"]_vars

(* Every background measurement ends and takes its mark with it.           *)
MeasurementsEnd == \A v \in Ids : v \in inflight ~> v \notin inflight
=============================================================================
