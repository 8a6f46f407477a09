--------------------------- MODULE Volume_proofs ---------------------------
(***************************************************************************)
(* Theorems about what is kept of a trailer on the volume: about Crop, for *)
(* any ids, requests and background measurements, any number of permits and*)
(* any bounds of the caches and the file, and about CacheVolume (below).   *)
(***************************************************************************)
EXTENDS Crop, CacheVolume, TLAPS

(* A task has an id just while it runs.                                    *)
HeldIds(tasks) ==
  \A t \in Tasks : IF tasks[t].pc = "idle" THEN tasks[t].id = NoId ELSE tasks[t].id \in Ids

(* The marks and the tasks come and go together.                           *)
IInv ==
  /\ TypeOK
  /\ NoStaleYes
  /\ HeldIds(task)
  /\ OneMeasurement

USE CropAssumption

----------------------------------------------------------------------------
(* What the two caches become.                                             *)

LEMMA ReportTyped ==
  ASSUME NEW map \in [Ids -> Reports \cup {NoReport}], NEW v, NEW report \in Reports
  PROVE  CacheReport(map, v, report) \in [Ids -> Reports \cup {NoReport}]
BY DEF CacheReport

(* A report is what was there, nothing, or the one that came.              *)
LEMMA ReportOnly ==
  ASSUME NEW map \in [Ids -> Reports \cup {NoReport}], NEW v, NEW report \in Reports, NEW u \in Ids
  PROVE  CacheReport(map, v, report)[u] \in {map[u], NoReport} \cup (IF u = v THEN {report} ELSE {})
BY DEF CacheReport

LEMMA BackgroundTyped ==
  ASSUME NEW map \in [Ids -> Reports \cup {NoReport}], NEW v
  PROVE  BackgroundReport(map, v) \in [Ids -> Reports \cup {NoReport}]
BY ReportTyped DEF BackgroundReport, Reports

LEMMA UnknownTyped ==
  ASSUME TypeOK, NEW v
  PROVE  RecordUnknown(unknown, v) \in [Ids -> 0 .. MaxNow + UnknownTtl]
<1> DEFINE held(m) == {u \in Ids : m[u] # 0}
           standing == [u \in Ids |-> IF unknown[u] > now THEN unknown[u] ELSE 0]
           kept == IF Cardinality(held(unknown)) < UnknownMax THEN unknown
                   ELSE IF Cardinality(held(standing)) < UnknownMax THEN standing
                   ELSE [u \in Ids |-> 0]
<1>1. unknown \in [Ids -> 0 .. MaxNow + UnknownTtl] /\ now + UnknownTtl \in 0 .. MaxNow + UnknownTtl
  BY DEF TypeOK
<1>2. standing \in [Ids -> 0 .. MaxNow + UnknownTtl]
  BY <1>1
<1>3. [u \in Ids |-> 0] \in [Ids -> 0 .. MaxNow + UnknownTtl]
  OBVIOUS
<1>4. RecordUnknown(unknown, v) = [kept EXCEPT ![v] = now + UnknownTtl]
  BY DEF RecordUnknown
<1> HIDE DEF standing, held
<1>5. kept \in [Ids -> 0 .. MaxNow + UnknownTtl]
  BY <1>1, <1>2, <1>3
<1> HIDE DEF kept
<1> QED
  BY <1>1, <1>4, <1>5

(* The memo, whatever happens to it.                                       *)
LEMMA MemoOk ==
  ASSUME memo \in Memos(MaxEpoch), NoStaleYes
  PROVE  /\ \A e \in 0 .. MaxEpoch : /\ Arm(memo, e) \in Memos(MaxEpoch)
                                     /\ Arm(memo, e).armed => Arm(memo, e).from = Arm(memo, e).epoch
         /\ memo.epoch < MaxEpoch => Invalidate(memo) \in Memos(MaxEpoch) /\ ~Invalidate(memo).armed
         /\ Lapse(memo) \in Memos(MaxEpoch) /\ ~Lapse(memo).armed
         /\ NoMemo \in Memos(MaxEpoch) /\ ~NoMemo.armed
<1>1. ASSUME NEW e \in 0 .. MaxEpoch
      PROVE  /\ Arm(memo, e) \in Memos(MaxEpoch)
             /\ Arm(memo, e).armed => Arm(memo, e).from = Arm(memo, e).epoch
  BY DEF Arm, Memos, NoStaleYes
<1>2. ASSUME memo.epoch < MaxEpoch
      PROVE  Invalidate(memo) \in Memos(MaxEpoch) /\ ~Invalidate(memo).armed
  <2>1. memo.epoch + 1 \in 0 .. MaxEpoch
    BY <1>2 DEF Memos
  <2>2. Invalidate(memo) = [memo EXCEPT !.armed = FALSE, !.epoch = memo.epoch + 1]
    BY DEF Invalidate
  <2> QED
    BY <2>1, <2>2, Zenon DEF Memos
<1>3. Lapse(memo) \in Memos(MaxEpoch) /\ ~Lapse(memo).armed
  BY DEF Lapse, Memos
<1>4. NoMemo \in Memos(MaxEpoch) /\ ~NoMemo.armed
  BY DEF NoMemo, Memos
<1> QED
  BY <1>1, <1>2, <1>3, <1>4

(* The requests, wherever they move.                                       *)
Places == {"idle", "probe", "usable", "unusable", "fetch", "permit", "detect"}
Askings == [pc : Places, id : Ids \cup {NoId}, epoch : 0 .. MaxEpoch]

LEMMA ReqTyped ==
  ASSUME req \in [Requests -> Askings], NEW r \in Requests
  PROVE  /\ \A pc \in Places : Moves(r, pc) => req' \in [Requests -> Askings]
         /\ Answers(r) => req' \in [Requests -> Askings]
         /\ \A v \in Ids : PastGate(r, v) => req' \in [Requests -> Askings]
<1>1. ASSUME NEW pc \in Places, Moves(r, pc) PROVE req' \in [Requests -> Askings]
  BY <1>1 DEF Moves, Askings
<1>2. ASSUME Answers(r) PROVE req' \in [Requests -> Askings]
  BY <1>2 DEF Answers, Askings, NoRequest, Places
<1>3. ASSUME NEW v \in Ids, PastGate(r, v) PROVE req' \in [Requests -> Askings]
  BY <1>2, <1>3 DEF PastGate, Askings, Places
<1> QED
  BY <1>1, <1>2, <1>3

----------------------------------------------------------------------------
(* The tasks, when none or one of them takes a step.                       *)

LEMMA TasksSame ==
  ASSUME IInv, UNCHANGED <<task, inflight>>
  PROVE  HeldIds(task') /\ OneMeasurement'
BY DEF IInv, OneMeasurement, HeldIds

(* A task goes on with its id.                                             *)
LEMMA TaskMoves ==
  ASSUME IInv, NEW t \in Tasks, NEW pc \in {"permit", "detect"}, task[t].pc # "idle",
         task' = [task EXCEPT ![t].pc = pc], UNCHANGED inflight
  PROVE  HeldIds(task') /\ OneMeasurement'
<1>1. \A s \in Tasks : /\ task'[s].id = task[s].id
                       /\ task'[s].pc # "idle" <=> task[s].pc # "idle"
  BY DEF IInv, TypeOK
<1>2. {task'[s].id : s \in {u \in Tasks : task'[u].pc # "idle"}}
        = {task[s].id : s \in {u \in Tasks : task[u].pc # "idle"}}
  BY <1>1
<1>3. HeldIds(task')
  BY <1>1 DEF IInv, HeldIds
<1>4. \A s, u \in Tasks : task'[s].pc # "idle" /\ task'[s].id = task'[u].id => s = u
  BY <1>1 DEF IInv, OneMeasurement
<1> QED
  BY <1>2, <1>3, <1>4 DEF IInv, OneMeasurement

(* A task ends, and the mark of its id with it.                            *)
LEMMA TaskEnds ==
  ASSUME IInv, NEW t \in Tasks, task[t].pc # "idle",
         task' = [task EXCEPT ![t] = NoTask], inflight' = inflight \ {task[t].id}
  PROVE  HeldIds(task') /\ OneMeasurement'
<1>1. /\ task'[t] = NoTask
      /\ \A s \in Tasks \ {t} : task'[s] = task[s]
  BY DEF IInv, TypeOK
<1>2. NoTask.pc = "idle"
  BY DEF NoTask
<1>3. \A s \in Tasks : task'[s].pc # "idle" => s # t /\ task'[s] = task[s]
  BY <1>1, <1>2
<1>4. HeldIds(task')
  BY <1>1 DEF IInv, HeldIds, NoTask
<1>5. \A s, u \in Tasks : task'[s].pc # "idle" /\ task'[s].id = task'[u].id => s = u
  <2> SUFFICES ASSUME NEW s \in Tasks, NEW u \in Tasks, task'[s].pc # "idle",
                      task'[s].id = task'[u].id
               PROVE  s = u
    OBVIOUS
  <2>1. s # t /\ task'[s] = task[s] /\ task[s].id \in Ids
    BY <1>3 DEF IInv, HeldIds
  <2>2. u # t
    BY <1>1, <2>1 DEF NoTask
  <2>3. task'[u] = task[u]
    BY <1>1, <2>2
  <2> QED
    BY <2>1, <2>3 DEF IInv, OneMeasurement
<1>6. inflight' = {task'[s].id : s \in {u \in Tasks : task'[u].pc # "idle"}}
  <2>1. \A s \in Tasks : task[s].pc # "idle" /\ s # t => task[s].id # task[t].id
    BY DEF IInv, OneMeasurement
  <2>2. \A s \in Tasks : task'[s].pc # "idle" <=> task[s].pc # "idle" /\ s # t
    BY <1>1, <1>2
  <2>3. inflight' = {task[s].id : s \in {u \in Tasks : task[u].pc # "idle" /\ u # t}}
    BY <2>1 DEF IInv, OneMeasurement
  <2> QED
    BY <1>3, <2>2, <2>3
<1> QED
  BY <1>4, <1>5, <1>6 DEF OneMeasurement

----------------------------------------------------------------------------
LEMMA InitOk == Init => IInv
<1> SUFFICES ASSUME Init PROVE IInv
  OBVIOUS
<1>1. TypeOK
  BY DEF Init, TypeOK, NoMemo, Memos, NoRequest, NoTask
<1>2. NoStaleYes
  BY DEF Init, NoMemo, NoStaleYes
<1>3. HeldIds(task) /\ \A t \in Tasks : task[t].pc = "idle" /\ task[t].id \notin Ids
  BY DEF Init, NoTask, HeldIds
<1>4. OneMeasurement
  BY <1>3 DEF Init, OneMeasurement
<1> QED
  BY <1>1, <1>2, <1>3, <1>4 DEF IInv

(* A step of a request.                                                    *)
LEMMA RequestOk ==
  ASSUME IInv, NEW r \in Requests,
         \/ \E v \in Ids : Arrives(r, v) \/ Probes(r, v)
         \/ RequestSteps(r) \/ HangsUp(r)
  PROVE  IInv'
<1>0. /\ TypeOK /\ NoStaleYes /\ req \in [Requests -> Askings]
      /\ req[r] \in Askings
  BY DEF IInv, TypeOK, Askings, Places
<1>1. UNCHANGED <<now, up, inflight, task, parked>>
  BY DEF Arrives, Probes, RequestSteps, HangsUp, ProbeSees, ProbePasses, ProbeRefuses,
         Fetched, FetchFails, GetsPermit, Detected, NothingDetected
<1>2. memo' \in Memos(MaxEpoch) /\ NoStaleYes'
  <2>1. CASE UNCHANGED memo
    BY <1>0, <2>1 DEF TypeOK, NoStaleYes
  <2>2. CASE ProbePasses(r)
    <3>1. memo' = Arm(memo, req[r].epoch) /\ req[r].epoch \in 0 .. MaxEpoch
      BY <1>0, <2>2 DEF ProbePasses, Askings
    <3>2. Arm(memo, req[r].epoch) \in Memos(MaxEpoch)
      BY <1>0, <3>1, MemoOk DEF TypeOK
    <3>3. Arm(memo, req[r].epoch).armed => Arm(memo, req[r].epoch).from = Arm(memo, req[r].epoch).epoch
      BY <1>0, <3>1, MemoOk DEF TypeOK
    <3> QED
      BY <3>1, <3>2, <3>3 DEF NoStaleYes
  <2> QED
    BY <2>1, <2>2 DEF Arrives, Probes, RequestSteps, HangsUp, ProbeSees, ProbeRefuses,
                      Fetched, FetchFails, GetsPermit, Detected, NothingDetected
<1>3. cache' \in [Ids -> Reports \cup {NoReport}]
  <2>1. CASE UNCHANGED cache
    BY <1>0, <2>1 DEF TypeOK
  <2>2. CASE Detected(r)
    BY <1>0, <2>2, ReportTyped DEF Detected, TypeOK, Reports
  <2> QED
    BY <2>1, <2>2 DEF Arrives, Probes, RequestSteps, HangsUp, ProbeSees, ProbePasses, ProbeRefuses,
                      Fetched, FetchFails, GetsPermit, NothingDetected
<1>4. unknown' \in [Ids -> 0 .. MaxNow + UnknownTtl]
  <2>1. CASE UNCHANGED unknown
    BY <1>0, <2>1 DEF TypeOK
  <2>2. CASE NothingDetected(r)
    BY <1>0, <2>2, UnknownTyped DEF NothingDetected
  <2> QED
    BY <2>1, <2>2 DEF Arrives, Probes, RequestSteps, HangsUp, ProbeSees, ProbePasses, ProbeRefuses,
                      Fetched, FetchFails, GetsPermit, Detected
<1>5. req' \in [Requests -> Askings]
  <2>1. ASSUME NEW v \in Ids, Arrives(r, v) PROVE req' \in [Requests -> Askings]
    BY <1>0, <2>1, ReqTyped DEF Arrives
  <2>2. ASSUME NEW v \in Ids, Probes(r, v) PROVE req' \in [Requests -> Askings]
    <3>1. memo.epoch \in 0 .. MaxEpoch
      BY <1>0 DEF TypeOK, Memos
    <3> QED
      BY <1>0, <2>2, <3>1 DEF Probes, Askings, Places
  <2>3. CASE ProbeSees(r)
    BY <1>0, <2>3, ReqTyped DEF ProbeSees, Places
  <2>4. CASE ProbePasses(r)
    <3>1. CASE req[r].id \in Ids
      BY <1>0, <2>4, <3>1, ReqTyped DEF ProbePasses
    <3>2. CASE req[r].id \notin Ids
      BY <1>0, <2>4, <3>2 DEF ProbePasses, PastGate, Answers, NoRequest, Askings, Places
    <3> QED
      BY <3>1, <3>2
  <2>5. CASE Fetched(r)
    BY <1>0, <2>5, ReqTyped DEF Fetched, Places
  <2>6. CASE GetsPermit(r)
    BY <1>0, <2>6, ReqTyped DEF GetsPermit, Places
  <2>7. CASE Answers(r)
    BY <1>0, <2>7, ReqTyped
  <2> QED
    BY <2>1, <2>2, <2>3, <2>4, <2>5, <2>6, <2>7
       DEF RequestSteps, HangsUp, ProbeRefuses, FetchFails, Detected, NothingDetected
<1>6. HeldIds(task') /\ OneMeasurement'
  BY <1>1, TasksSame
<1>7. TypeOK'
  BY <1>0, <1>1, <1>2, <1>3, <1>4, <1>5 DEF TypeOK, Askings, Places
<1> QED
  BY <1>2, <1>6, <1>7 DEF IInv

(* A step of a background measurement.                                     *)
LEMMA TaskOk ==
  ASSUME IInv, NEW t \in Tasks, (\E v \in Ids : MeasureStarts(t, v)) \/ TaskSteps(t)
  PROVE  IInv'
<1> DEFINE Doings == [pc : {"idle", "keyframes", "permit", "detect"}, id : Ids \cup {NoId}]
<1>0. TypeOK /\ NoStaleYes /\ task \in [Tasks -> Doings]
  BY DEF IInv, TypeOK
<1>1. UNCHANGED <<now, up, memo, req, parked>>
  BY DEF MeasureStarts, TaskSteps, KeyframesWritten, TaskGetsPermit, Measured, MeasureFails
<1>2. /\ cache' \in [Ids -> Reports \cup {NoReport}]
      /\ unknown' \in [Ids -> 0 .. MaxNow + UnknownTtl]
      /\ task' \in [Tasks -> Doings] /\ inflight' \in SUBSET Ids
      /\ HeldIds(task') /\ OneMeasurement'
  <2>1. ASSUME NEW v \in Ids, MeasureStarts(t, v)
        PROVE  /\ UNCHANGED <<cache, unknown>>
               /\ task' \in [Tasks -> Doings] /\ inflight' \in SUBSET Ids
               /\ HeldIds(task') /\ OneMeasurement'
    <3>1. /\ task[t].pc = "idle" /\ v \notin inflight /\ inflight' = inflight \cup {v}
          /\ task' = [task EXCEPT ![t] = [pc |-> "keyframes", id |-> v]]
          /\ UNCHANGED <<cache, unknown>>
      BY <2>1 DEF MeasureStarts, MayMeasure
    <3>2. /\ task' \in [Tasks -> Doings] /\ inflight' \in SUBSET Ids
      BY <1>0, <3>1 DEF TypeOK
    <3>3. /\ task'[t].pc = "keyframes" /\ task'[t].id = v
          /\ \A s \in Tasks \ {t} : task'[s] = task[s]
      BY <1>0, <3>1
    <3>4. HeldIds(task')
      BY <3>3 DEF IInv, HeldIds
    <3>5. \A s \in Tasks : task[s].pc # "idle" => task[s].id # v
      BY <3>1 DEF IInv, OneMeasurement
    <3>6. \A s, u \in Tasks : task'[s].pc # "idle" /\ task'[s].id = task'[u].id => s = u
      <4> SUFFICES ASSUME NEW s \in Tasks, NEW u \in Tasks, task'[s].pc # "idle",
                          task'[s].id = task'[u].id, s # u
                   PROVE  FALSE
        OBVIOUS
      <4>1. CASE s = t
        <5>1. task[u].id = v /\ u # t
          BY <3>3, <4>1
        <5>2. task[u].pc = "idle"
          BY <3>5, <5>1
        <5> QED
          BY <5>1, <5>2 DEF IInv, HeldIds
      <4>2. CASE u = t
        BY <3>3, <3>5, <4>2
      <4>3. CASE s # t /\ u # t
        BY <3>3, <4>3 DEF IInv, OneMeasurement
      <4> QED
        BY <4>1, <4>2, <4>3
    <3>7. inflight' = {task'[s].id : s \in {u \in Tasks : task'[u].pc # "idle"}}
      <4>1. {u \in Tasks : task'[u].pc # "idle"} = {u \in Tasks : task[u].pc # "idle"} \cup {t}
        BY <3>1, <3>3
      <4>2. inflight = {task[s].id : s \in {u \in Tasks : task[u].pc # "idle"}}
        BY DEF IInv, OneMeasurement
      <4> QED
        BY <3>1, <3>3, <4>1, <4>2
    <3> QED
      BY <3>1, <3>2, <3>4, <3>6, <3>7 DEF OneMeasurement
  <2>2. ASSUME NEW pc \in {"permit", "detect"}, task[t].pc # "idle",
               task' = [task EXCEPT ![t].pc = pc], UNCHANGED <<cache, unknown, inflight>>
        PROVE  /\ task' \in [Tasks -> Doings] /\ inflight' \in SUBSET Ids
               /\ HeldIds(task') /\ OneMeasurement'
    <3>1. task' \in [Tasks -> Doings] /\ inflight' \in SUBSET Ids
      BY <1>0, <2>2 DEF TypeOK
    <3> QED
      BY <2>2, <3>1, TaskMoves
  <2>3. ASSUME task[t].pc # "idle", task' = [task EXCEPT ![t] = NoTask],
               inflight' = inflight \ {task[t].id}
        PROVE  /\ task' \in [Tasks -> Doings] /\ inflight' \in SUBSET Ids
               /\ HeldIds(task') /\ OneMeasurement'
    <3>1. task' \in [Tasks -> Doings] /\ inflight' \in SUBSET Ids
      BY <1>0, <2>3 DEF TypeOK, NoTask
    <3> QED
      BY <2>3, <3>1, TaskEnds
  <2>4. /\ cache \in [Ids -> Reports \cup {NoReport}]
        /\ unknown \in [Ids -> 0 .. MaxNow + UnknownTtl]
        /\ BackgroundReport(cache, task[t].id) \in [Ids -> Reports \cup {NoReport}]
        /\ RecordUnknown(unknown, task[t].id) \in [Ids -> 0 .. MaxNow + UnknownTtl]
    BY <1>0, BackgroundTyped, UnknownTyped DEF TypeOK
  <2>5. CASE KeyframesWritten(t)
    BY <2>2, <2>4, <2>5 DEF KeyframesWritten
  <2>6. CASE TaskGetsPermit(t)
    BY <2>2, <2>4, <2>6 DEF TaskGetsPermit
  <2>7. CASE Measured(t)
    BY <2>3, <2>4, <2>7 DEF Measured, Unmarked
  <2>8. CASE MeasureFails(t)
    BY <2>3, <2>4, <2>8 DEF MeasureFails, Unmarked
  <2> QED
    BY <2>1, <2>4, <2>5, <2>6, <2>7, <2>8 DEF TaskSteps
<1>3. TypeOK'
  BY <1>0, <1>1, <1>2 DEF TypeOK
<1>4. NoStaleYes'
  BY <1>0, <1>1 DEF NoStaleYes
<1> QED
  BY <1>2, <1>3, <1>4 DEF IInv

(* What the volume, the downloads, the process and the clock do.           *)
LEMMA OthersOk ==
  ASSUME IInv,
         \/ (\E v \in Ids : DownloadMeasures(v)) \/ DownloadFails
         \/ ShutsDown \/ Crashes \/ Boots \/ MemoLapses \/ Tick
  PROVE  IInv'
<1>0. TypeOK /\ NoStaleYes
  BY DEF IInv
<1>1. CASE Gone /\ (parked' = cache \/ UNCHANGED parked)
  <2>1. memo' \in Memos(MaxEpoch) /\ now' \in 0 .. MaxNow /\ up' \in BOOLEAN
    BY <1>0, <1>1, MemoOk DEF Gone, TypeOK
  <2>2. /\ cache' \in [Ids -> Reports \cup {NoReport}]
        /\ parked' \in [Ids -> Reports \cup {NoReport}]
    BY <1>0, <1>1 DEF Gone, TypeOK
  <2>3. unknown' \in [Ids -> 0 .. MaxNow + UnknownTtl] /\ inflight' \subseteq Ids
    BY <1>0, <1>1 DEF Gone, TypeOK
  <2>4. /\ NoTask \in [pc : {"idle", "keyframes", "permit", "detect"}, id : Ids \cup {NoId}]
        /\ NoRequest \in Askings
    BY DEF NoTask, NoRequest, Askings, Places
  <2>5. /\ req' \in [Requests -> Askings]
        /\ task' \in [Tasks -> [pc : {"idle", "keyframes", "permit", "detect"}, id : Ids \cup {NoId}]]
    BY <1>1, <2>4 DEF Gone
  <2>6. TypeOK'
    BY <2>1, <2>2, <2>3, <2>5 DEF TypeOK, Askings, Places
  <2>7. NoStaleYes'
    BY <1>1 DEF Gone, NoMemo, NoStaleYes
  <2>8. \A t \in Tasks : task'[t].pc = "idle" /\ task'[t].id = NoId
    BY <1>1 DEF Gone, NoTask
  <2>9. HeldIds(task') /\ OneMeasurement'
    BY <1>1, <2>8 DEF Gone, OneMeasurement, HeldIds
  <2> QED
    BY <2>6, <2>7, <2>9 DEF IInv
<1>2. ASSUME NEW v \in Ids, DownloadMeasures(v) PROVE IInv'
  <2>1. cache' \in [Ids -> Reports \cup {NoReport}]
    BY <1>0, <1>2, ReportTyped DEF DownloadMeasures, TypeOK, Reports
  <2>2. UNCHANGED <<now, up, memo, unknown, inflight, req, task, parked>>
    BY <1>2 DEF DownloadMeasures
  <2> QED
    BY <1>0, <2>1, <2>2, TasksSame DEF IInv, TypeOK, NoStaleYes
<1>3. CASE DownloadFails
  <2>1. memo' \in Memos(MaxEpoch) /\ ~memo'.armed
    BY <1>0, <1>3, MemoOk DEF DownloadFails, TypeOK
  <2>2. UNCHANGED <<now, up, cache, unknown, inflight, req, task, parked>>
    BY <1>3 DEF DownloadFails
  <2> QED
    BY <1>0, <2>1, <2>2, TasksSame DEF IInv, TypeOK, NoStaleYes
<1>4. CASE Boots
  <2>1. cache' \in [Ids -> Reports \cup {NoReport}]
    BY <1>0, <1>4 DEF Boots, TypeOK
  <2>2. up' = TRUE /\ UNCHANGED <<now, memo, unknown, inflight, req, task, parked>>
    BY <1>4 DEF Boots
  <2> QED
    BY <1>0, <2>1, <2>2, TasksSame DEF IInv, TypeOK, NoStaleYes
<1>5. CASE MemoLapses
  <2>1. memo' \in Memos(MaxEpoch) /\ ~memo'.armed
    BY <1>0, <1>5, MemoOk DEF MemoLapses, TypeOK
  <2>2. UNCHANGED <<now, up, cache, unknown, inflight, req, task, parked>>
    BY <1>5 DEF MemoLapses
  <2> QED
    BY <1>0, <2>1, <2>2, TasksSame DEF IInv, TypeOK, NoStaleYes
<1>6. CASE Tick
  <2>1. now' \in 0 .. MaxNow
    BY <1>0, <1>6 DEF Tick, TypeOK
  <2>2. UNCHANGED <<up, memo, cache, unknown, inflight, req, task, parked>>
    BY <1>6 DEF Tick
  <2> QED
    BY <1>0, <2>1, <2>2, TasksSame DEF IInv, TypeOK, NoStaleYes
<1> QED
  BY <1>1, <1>2, <1>3, <1>4, <1>5, <1>6 DEF ShutsDown, Crashes

LEMMA StepOk == IInv /\ [Next]_vars => IInv'
<1> SUFFICES ASSUME IInv, [Next]_vars PROVE IInv'
  OBVIOUS
<1>1. CASE UNCHANGED vars
  <2>1. UNCHANGED <<now, up, memo, cache, unknown, inflight, req, task, parked>>
    BY <1>1 DEF vars
  <2> QED
    BY <2>1, TasksSame DEF IInv, TypeOK, NoStaleYes
<1>2. CASE Next
  BY <1>2, RequestOk, TaskOk, OthersOk DEF Next
<1> QED
  BY <1>1, <1>2

(* The inductive invariant, for every value of the constants.              *)
THEOREM Invariant == Spec => []IInv
BY InitOk, StepOk, PTL DEF Spec

(* Every variable keeps its type; the caches' keys are ids.                *)
THEOREM TypeCorrect == Spec => []TypeOK
<1>1. IInv => TypeOK
  BY DEF IInv
<1> QED
  BY <1>1, Invariant, PTL

(* No verdict on the volume outlives a download that failed after the probe*)
(* began.                                                                  *)
THEOREM NoStaleVerdict == Spec => []NoStaleYes
<1>1. IInv => NoStaleYes
  BY DEF IInv
<1> QED
  BY <1>1, Invariant, PTL

(* One background measurement of an id, and a mark for just as long.       *)
THEOREM MeasuredOnce == Spec => []OneMeasurement
<1>1. IInv => OneMeasurement
  BY DEF IInv
<1> QED
  BY <1>1, Invariant, PTL

(* Whatever order the measurements end in, the whole file's report stands. *)
THEOREM WholeStands == Spec => WholeFileStands
<1>1. ASSUME IInv, Next, up, up', NEW v \in Ids, cache[v] = "whole"
      PROVE  cache'[v] # "keyframes"
  <2>0. cache \in [Ids -> Reports \cup {NoReport}] /\ "whole" # "keyframes" /\ NoReport # "keyframes"
    BY <1>1 DEF IInv, TypeOK, NoReport
  <2>1. CASE UNCHANGED cache
    BY <1>1, <2>0, <2>1
  <2>2. ASSUME NEW u \in Ids \cup {NoId}, cache' = CacheReport(cache, u, "whole")
        PROVE  cache'[v] # "keyframes"
    BY <1>1, <2>0, <2>2, ReportOnly DEF Reports
  <2>3. ASSUME NEW t \in Tasks, Measured(t) PROVE cache'[v] # "keyframes"
    <3>1. cache' = BackgroundReport(cache, task[t].id)
      BY <2>3 DEF Measured
    <3>2. CASE cache[task[t].id] # NoReport
      BY <1>1, <2>0, <3>1, <3>2 DEF BackgroundReport
    <3>3. CASE cache[task[t].id] = NoReport
      <4>1. task[t].id # v /\ cache' = CacheReport(cache, task[t].id, "keyframes")
        BY <1>1, <2>0, <3>1, <3>3 DEF BackgroundReport, NoReport
      <4> QED
        BY <1>1, <2>0, <4>1, ReportOnly DEF Reports
    <3> QED
      BY <3>2, <3>3
  <2>4. ASSUME NEW r \in Requests, Detected(r) PROVE cache'[v] # "keyframes"
    <3>1. req[r].id \in Ids \cup {NoId} /\ cache' = CacheReport(cache, req[r].id, "whole")
      BY <1>1, <2>4 DEF Detected, IInv, TypeOK
    <3> QED
      BY <2>2, <3>1
  <2>5. ASSUME NEW u \in Ids, DownloadMeasures(u) PROVE cache'[v] # "keyframes"
    BY <2>2, <2>5 DEF DownloadMeasures
  <2>6. ASSUME NEW r \in Requests,
               \/ \E u \in Ids : Arrives(r, u) \/ Probes(r, u)
               \/ RequestSteps(r) \/ HangsUp(r)
        PROVE  cache'[v] # "keyframes"
    <3>1. Detected(r) \/ UNCHANGED cache
      BY <2>6 DEF Arrives, Probes, RequestSteps, HangsUp, ProbeSees, ProbePasses, ProbeRefuses,
                  Fetched, FetchFails, GetsPermit, NothingDetected
    <3> QED
      BY <2>1, <2>4, <3>1
  <2>7. ASSUME NEW t \in Tasks, (\E u \in Ids : MeasureStarts(t, u)) \/ TaskSteps(t)
        PROVE  cache'[v] # "keyframes"
    <3>1. Measured(t) \/ UNCHANGED cache
      BY <2>7 DEF MeasureStarts, TaskSteps, KeyframesWritten, TaskGetsPermit, MeasureFails
    <3> QED
      BY <2>1, <2>3, <3>1
  <2>8. ASSUME DownloadFails \/ ShutsDown \/ Crashes \/ Boots \/ MemoLapses \/ Tick
        PROVE  cache'[v] # "keyframes"
    <3>1. UNCHANGED cache
      BY <1>1, <2>8 DEF DownloadFails, ShutsDown, Crashes, Gone, Boots, MemoLapses, Tick
    <3> QED
      BY <2>1, <3>1
  <2> QED
    BY <1>1, <2>5, <2>6, <2>7, <2>8 DEF Next
<1>2. IInv /\ [Next]_vars
        => [\A v \in Ids : up /\ up' /\ cache[v] = "whole" => cache'[v] # "keyframes"]_vars
  BY <1>1
<1> QED
  BY <1>2, Invariant, PTL DEF Spec, WholeFileStands

(***************************************************************************)
(* CacheVolume, for any ids, any cap, any lifetimes of trailers and of     *)
(* scratch, any number of permits and of processes one after the other, in *)
(* a container and outside.                                                *)
(***************************************************************************)

(* What a file of the volume may be called.                                *)
Names == {"temp", "side"} \X Vids \X Nat \X Nat

VolumeTyped ==
  /\ container \in BOOLEAN
  /\ phase \in {"up", "await", "down"}
  /\ boot \in Nat \ {0} /\ dlGen \in Nat
  /\ trailer \in [Vids -> 0 .. Ttl + Grace + 1 \cup {Absent}]
  /\ dl \in [Vids -> [stage : Holding \cup {"none", "queued"}, gen : Nat]]
  /\ DOMAIN scratch \subseteq Names
  /\ scratch \in [DOMAIN scratch -> 0 .. Grace + 1]
  /\ writers \subseteq Nat \X Names

(* Whoever writes is a subprocess of this process or, outside a container, *)
(* of an earlier one, and a temp carries the pid of the process it is of.  *)
WritersBelong ==
  \A w \in writers : /\ w[1] \in 1 .. boot
                     /\ container => w[1] = boot /\ Running
                     /\ w[2][1] = "temp" => w[2][3] = (IF container THEN 1 ELSE w[1])

(* A temp of this process is written for a download that is at it.         *)
TempsAtWork ==
  \A w \in Mine : w[2][1] = "temp" =>
    \E v \in Vids : w[2] = Temp(v) /\ dl[v].stage \in {"writing", "measuring"}

(* What is in use was written lately.                                      *)
InUseIsYoung == \A n \in InUse \cap DOMAIN scratch : scratch[n] <= Life

(* The temp of a download that writes or measures it is on the volume.     *)
TempsThere == \A v \in Vids : dl[v].stage \in {"writing", "measuring"} => Temp(v) \in DOMAIN scratch

FilesFit ==
  /\ VolumeTyped
  /\ ~Running => \A v \in Vids : dl[v] = NoDownload
  /\ WritersBelong /\ TempsAtWork
  /\ InUseIsYoung /\ TempsThere

(* An eviction pass is of a process that runs, and of a download that waits*)
(* for it, unless it is the hourly one.                                    *)
PassesFit ==
  /\ pass = [p \in Passes |-> pass[p]]
  /\ \A p \in Passes : pass[p] # NoPass => Running /\ (p \in Vids => dl[p].stage = "evicting")

VolumeIInv == FilesFit /\ PassesFit

(* What no step of a running process does: take a temp from its writer.    *)
NothingLost == (DOMAIN scratch \ DOMAIN scratch') \cap Written' = {}

USE CacheVolumeAssumption

Stages == Holding \cup {"none", "queued"}
Ages == 0 .. Grace + 1
TrailerAges == 0 .. Ttl + Grace + 1 \cup {Absent}
AtWork == {"writing", "measuring"}

----------------------------------------------------------------------------
(* Names and scratch.                                                      *)

(* A temp name tells whose download it is.                                 *)
LEMMA TempsDiffer ==
  ASSUME NEW v \in Vids, NEW u \in Vids, Temp(v) = Temp(u)
  PROVE  v = u
BY DEF Temp, TempName

(* A temp and a side file have a name of the volume, and not the same.     *)
LEMMA NamesOfVolume ==
  ASSUME VolumeTyped, NEW v \in Vids, NEW g \in Nat
  PROVE  /\ TempName(v, g) \in Names /\ SideName(v, g) \in Names
         /\ TempName(v, g)[1] = "temp" /\ TempName(v, g)[3] = Pid
         /\ SideName(v, g)[1] = "side"
         /\ dl[v].gen \in Nat /\ dl[v].stage \in Stages
BY DEF VolumeTyped, TempName, SideName, Names, Pid, Stages, Holding

(* A map of scratch that loses names.                                      *)
LEMMA Loses ==
  ASSUME VolumeTyped, NEW S, scratch' = Without(scratch, S)
  PROVE  /\ DOMAIN scratch' = DOMAIN scratch \ S
         /\ scratch' \in [DOMAIN scratch' -> Ages]
         /\ \A n \in DOMAIN scratch' : n \in DOMAIN scratch /\ scratch'[n] = scratch[n]
BY DEF VolumeTyped, Without, Ages

(* ... and one in which names were written.                                *)
LEMMA GetsFresh ==
  ASSUME VolumeTyped, NEW S, scratch' = WithFresh(scratch, S)
  PROVE  /\ DOMAIN scratch' = DOMAIN scratch \cup S
         /\ scratch' \in [DOMAIN scratch' -> Ages]
         /\ \A n \in S : scratch'[n] = 0
         /\ \A n \in DOMAIN scratch' :
              scratch'[n] = 0 \/ (n \in DOMAIN scratch /\ scratch'[n] = scratch[n])
BY DEF VolumeTyped, WithFresh, Ages

(* Who writes a temp name of this process is of this process.              *)
LEMMA WriterIsMine ==
  ASSUME VolumeTyped, WritersBelong, Running, NEW w \in writers, NEW v \in Vids, w[2] = Temp(v)
  PROVE  w = <<boot, Temp(v)>>
<1>1. w = <<w[1], w[2]>> /\ w[1] \in Nat
  BY DEF VolumeTyped
<1>2. w[2][1] = "temp" /\ w[2][3] = Pid
  BY DEF Temp, TempName
<1>3. w[1] = boot
  BY <1>1, <1>2 DEF WritersBelong, Pid, VolumeTyped
<1> QED
  BY <1>1, <1>3

----------------------------------------------------------------------------
(* The steps of a process that runs.                                       *)

Fresh(n) == n \in DOMAIN scratch' /\ scratch'[n] = 0

(* A download that takes a step: it has the temp it is at, under the name  *)
(* it had, and leaves no writer when it is at none.                        *)
StepsOn(v) ==
  /\ dl'[v].stage \in Holding => /\ dl'[v].gen = dl[v].gen
                                 /\ dl[v].stage \in Holding \/ Fresh(Temp(v))
  /\ dl'[v].stage \in AtWork => dl[v].stage \in AtWork \/ Fresh(Temp(v))
  /\ dl'[v].stage \notin AtWork => <<boot, Temp(v)>> \notin writers'

(* A writer that starts: on a file of its own, for a download or for a     *)
(* keyframe pass.                                                          *)
StartsFresh(w) ==
  /\ w \in {boot} \X Names /\ Fresh(w[2])
  /\ w[2][1] = "temp" => \E v \in Vids : w[2] = Temp(v) /\ dl'[v].stage = "writing"

(* A file nobody needs.                                                    *)
Useless(n) ==
  \/ n[1] = "side"
  \/ n \in DOMAIN scratch /\ scratch[n] > Life
  \/ \E v \in Vids : n = Temp(v) /\ dl'[v].stage \notin AtWork /\ <<boot, Temp(v)>> \notin writers'

(* Scratch that is written anew or keeps its age.                          *)
ScratchGoesOn ==
  /\ DOMAIN scratch' \subseteq Names
  /\ scratch' \in [DOMAIN scratch' -> Ages]
  /\ \A n \in DOMAIN scratch' : scratch'[n] = 0 \/ (n \in DOMAIN scratch /\ scratch'[n] = scratch[n])

(* Steps of these kinds keep the invariant and take nothing from a writer. *)
LEMMA ProcessGoesOn ==
  ASSUME FilesFit, Running, UNCHANGED <<container, phase, boot>>,
         dlGen' \in Nat, trailer' \in [Vids -> TrailerAges],
         dl' \in [Vids -> [stage : Stages, gen : Nat]],
         \A v \in Vids : dl'[v] = dl[v] \/ StepsOn(v),
         ScratchGoesOn,
         \A n \in DOMAIN scratch \ DOMAIN scratch' : Useless(n),
         \A w \in writers' : w \in writers \/ StartsFresh(w)
  PROVE  FilesFit' /\ NothingLost
<1>1. /\ VolumeTyped /\ WritersBelong /\ TempsAtWork /\ InUseIsYoung /\ TempsThere
      /\ boot \in Nat /\ Life \in Nat /\ Life < Grace + 1 /\ Grace \in Nat
  BY DEF FilesFit, VolumeTyped
<1>2. Running' /\ Pid' = Pid
  BY DEF Running, Pid
<1>3. \A v \in Vids : dl'[v].gen = dl[v].gen => Temp(v)' = Temp(v)
  BY <1>2 DEF Temp, TempName
<1>4. ASSUME NEW v \in Vids, dl'[v].stage \in Holding PROVE Temp(v)' = Temp(v)
  BY <1>3, <1>4 DEF StepsOn
<1>5. AtWork \subseteq Holding
  BY DEF AtWork, Holding
<1>6. VolumeTyped'
  <2>1. writers' \subseteq Nat \X Names
    BY <1>1 DEF VolumeTyped, StartsFresh
  <2> QED
    BY <1>1, <2>1 DEF VolumeTyped, ScratchGoesOn, Stages, Ages, TrailerAges
<1>7. WritersBelong'
  <2> SUFFICES ASSUME NEW w \in writers'
               PROVE  /\ w[1] \in 1 .. boot
                      /\ container => w[1] = boot
                      /\ w[2][1] = "temp" => w[2][3] = (IF container THEN 1 ELSE w[1])
    BY <1>2 DEF WritersBelong
  <2>1. CASE w \in writers
    BY <1>1, <2>1 DEF WritersBelong
  <2>2. CASE StartsFresh(w)
    <3>1. w[1] = boot /\ w[2] \in Names
      BY <2>2 DEF StartsFresh
    <3>2. w[2][1] = "temp" => w[2][3] = Pid
      BY <2>2 DEF StartsFresh, Temp, TempName
    <3>3. boot \in 1 .. boot
      BY <1>1 DEF VolumeTyped
    <3> QED
      BY <3>1, <3>2, <3>3 DEF Pid
  <2> QED
    BY <2>1, <2>2
<1>8. TempsAtWork'
  <2> SUFFICES ASSUME NEW w \in writers', w[1] = boot, w[2][1] = "temp"
               PROVE  \E v \in Vids : w[2] = Temp(v)' /\ dl'[v].stage \in AtWork
    BY <1>2 DEF TempsAtWork, Mine, AtWork
  <2>1. CASE w \in writers
    <3>1. PICK v \in Vids : w[2] = Temp(v) /\ dl[v].stage \in AtWork
      BY <1>1, <2>1 DEF TempsAtWork, Mine, AtWork
    <3>2. w = <<boot, Temp(v)>>
      BY <1>1, <2>1, <3>1, WriterIsMine
    <3>3. dl'[v].stage \in AtWork
      BY <3>1, <3>2 DEF StepsOn
    <3>4. Temp(v)' = Temp(v)
      BY <1>4, <1>5, <3>3
    <3> QED
      BY <3>1, <3>3, <3>4
  <2>2. CASE StartsFresh(w)
    <3>1. PICK v \in Vids : w[2] = Temp(v) /\ dl'[v].stage = "writing"
      BY <2>2 DEF StartsFresh
    <3>2. Temp(v)' = Temp(v) /\ dl'[v].stage \in AtWork
      BY <1>4, <3>1 DEF AtWork, Holding
    <3> QED
      BY <3>1, <3>2
  <2> QED
    BY <2>1, <2>2
<1>9. InUseIsYoung'
  <2> SUFFICES ASSUME NEW n \in InUse', n \in DOMAIN scratch'
               PROVE  scratch'[n] <= Life
    BY DEF InUseIsYoung
  <2>1. scratch'[n] = 0 \/ (n \in DOMAIN scratch /\ scratch'[n] = scratch[n])
    BY DEF ScratchGoesOn
  <2>2. n \in InUse \/ Fresh(n)
    <3>1. CASE \E w \in writers' : n = w[2]
      BY <3>1 DEF InUse, StartsFresh
    <3>2. ASSUME NEW v \in Vids, dl'[v].stage \in Holding, n = Temp(v)'
          PROVE  n \in InUse \/ Fresh(n)
      <4>1. n = Temp(v)
        BY <1>4, <3>2
      <4>2. dl[v].stage \in Holding \/ Fresh(Temp(v))
        BY <3>2 DEF StepsOn
      <4> QED
        BY <4>1, <4>2 DEF InUse, Held
    <3> QED
      BY <3>1, <3>2 DEF InUse, Held
  <2> QED
    BY <1>1, <2>1, <2>2 DEF InUseIsYoung, Fresh
<1>10. \A v \in Vids : dl[v].stage \in AtWork => ~(scratch[Temp(v)] > Life)
  <2> SUFFICES ASSUME NEW v \in Vids, dl[v].stage \in AtWork PROVE ~(scratch[Temp(v)] > Life)
    OBVIOUS
  <2>1. Temp(v) \in DOMAIN scratch /\ Temp(v) \in InUse
    BY <1>1, <1>5 DEF TempsThere, InUse, Held, AtWork
  <2>2. scratch[Temp(v)] \in Nat /\ scratch[Temp(v)] <= Life
    BY <1>1, <2>1 DEF InUseIsYoung, VolumeTyped
  <2> QED
    BY <1>1, <2>2
<1>11. TempsThere'
  <2> SUFFICES ASSUME NEW v \in Vids, dl'[v].stage \in AtWork PROVE Temp(v) \in DOMAIN scratch'
    BY <1>4, <1>5 DEF TempsThere, AtWork
  <2>1. CASE Fresh(Temp(v))
    BY <2>1 DEF Fresh
  <2>2. CASE dl[v].stage \in AtWork
    <3>1. Temp(v) \in DOMAIN scratch
      BY <1>1, <2>2 DEF TempsThere, AtWork
    <3>2. ~Useless(Temp(v))
      <4>1. Temp(v)[1] # "side"
        BY DEF Temp, TempName
      <4>2. \A u \in Vids : Temp(v) = Temp(u) => u = v
        BY TempsDiffer
      <4> QED
        BY <1>10, <2>2, <4>1, <4>2 DEF Useless
    <3> QED
      BY <3>1, <3>2
  <2> QED
    BY <2>1, <2>2 DEF StepsOn
<1>12. NothingLost
  <2> SUFFICES ASSUME NEW n \in DOMAIN scratch, n \notin DOMAIN scratch',
                      NEW w \in writers', n = w[2], w[2][1] = "temp"
               PROVE  FALSE
    BY DEF NothingLost, Written
  <2>1. w \in writers
    BY DEF StartsFresh, Fresh
  <2>2. scratch[n] \in Nat /\ scratch[n] <= Life
    BY <1>1, <2>1 DEF InUseIsYoung, InUse, VolumeTyped
  <2>3. PICK v \in Vids : n = Temp(v) /\ <<boot, Temp(v)>> \notin writers'
    <3>1. Useless(n)
      OBVIOUS
    <3>2. n[1] # "side"
      OBVIOUS
    <3>3. ~(scratch[n] > Life)
      BY <1>1, <2>2
    <3> QED
      BY <3>1, <3>2, <3>3 DEF Useless
  <2>4. w = <<boot, Temp(v)>>
    BY <1>1, <2>1, <2>3, WriterIsMine
  <2> QED
    BY <2>3, <2>4
<1> QED
  BY <1>2, <1>6, <1>7, <1>8, <1>9, <1>11, <1>12 DEF FilesFit

(* What of an action an application of ProcessGoesOn asks for is what the  *)
(* action says of the variables; the typing of one download is its own.    *)
LEMMA OneDownload ==
  ASSUME VolumeTyped, NEW v \in Vids, NEW s \in Stages, NEW g \in Nat,
         dl' = [dl EXCEPT ![v] = [stage |-> s, gen |-> g]]
  PROVE  /\ dl' \in [Vids -> [stage : Stages, gen : Nat]]
         /\ \A u \in Vids : u # v => dl'[u] = dl[u]
         /\ dl'[v].stage = s /\ dl'[v].gen = g
BY DEF VolumeTyped, Stages

(* ... and so is the update that names a stage, or ends it.                *)
LEMMA DownloadUpdates ==
  ASSUME VolumeTyped, NEW v \in Vids
  PROVE  /\ \A s : MovesTo(v, s) => dl' = [dl EXCEPT ![v] = [stage |-> s, gen |-> dl[v].gen]]
         /\ Over(v) => dl' = [dl EXCEPT ![v] = [stage |-> "none", gen |-> 0]]
         /\ dl[v].gen \in Nat
BY DEF VolumeTyped, MovesTo, Over, NoDownload

(* A download that is not at its temp has no writer.                       *)
LEMMA NotAtWork ==
  ASSUME FilesFit, Running, NEW v \in Vids, dl[v].stage \notin AtWork
  PROVE  <<boot, Temp(v)>> \notin writers
<1>1. Temp(v)[1] = "temp"
  BY DEF Temp, TempName
<1>2. \A u \in Vids : Temp(v) = Temp(u) => u = v
  BY TempsDiffer
<1> QED
  BY <1>1, <1>2 DEF FilesFit, TempsAtWork, Mine, AtWork

LEMMA ScratchSame ==
  ASSUME VolumeTyped, scratch' = scratch
  PROVE  ScratchGoesOn
BY DEF VolumeTyped, ScratchGoesOn, Ages

LEMMA ScratchLoses ==
  ASSUME VolumeTyped, NEW S, scratch' = Without(scratch, S)
  PROVE  ScratchGoesOn /\ DOMAIN scratch \ DOMAIN scratch' \subseteq S \cap DOMAIN scratch
<1>1. /\ DOMAIN scratch' = DOMAIN scratch \ S
      /\ scratch' \in [DOMAIN scratch' -> Ages]
      /\ \A n \in DOMAIN scratch' : n \in DOMAIN scratch /\ scratch'[n] = scratch[n]
  BY Loses
<1>2. DOMAIN scratch \subseteq Names
  BY DEF VolumeTyped
<1> QED
  BY <1>1, <1>2 DEF ScratchGoesOn

LEMMA ScratchWritten ==
  ASSUME VolumeTyped, NEW n \in Names, scratch' = WithFresh(scratch, {n})
  PROVE  ScratchGoesOn /\ Fresh(n) /\ DOMAIN scratch \ DOMAIN scratch' = {}
<1>1. /\ DOMAIN scratch' = DOMAIN scratch \cup {n}
      /\ scratch' \in [DOMAIN scratch' -> Ages]
      /\ scratch'[n] = 0
      /\ \A m \in DOMAIN scratch' : scratch'[m] = 0 \/ (m \in DOMAIN scratch /\ scratch'[m] = scratch[m])
  BY GetsFresh
<1>2. DOMAIN scratch \subseteq Names
  BY DEF VolumeTyped
<1> QED
  BY <1>1, <1>2 DEF ScratchGoesOn, Fresh

(* Each step of a download.                                                *)
LEMMA DownloadOk ==
  ASSUME FilesFit, NEW v \in Vids, FetchStarts(v) \/ DownloadSteps(v)
  PROVE  FilesFit' /\ NothingLost
<1>1. VolumeTyped /\ Running /\ UNCHANGED <<container, phase, boot>>
  BY DEF FilesFit, FetchStarts, DownloadSteps, Acquires, ExtractFails, RemovesTempSet, Extracted,
         Publishes, PublishFails, BakeDamages, DownloadScans
<1>2. /\ trailer \in [Vids -> TrailerAges] /\ dlGen \in Nat /\ dl[v].gen \in Nat
      /\ dl \in [Vids -> [stage : Stages, gen : Nat]]
      /\ Temp(v) \in Names /\ Side(v) \in Names /\ Temp(v)[1] = "temp"
      /\ Side(v)[1] = "side"
  BY <1>1, NamesOfVolume DEF VolumeTyped, TrailerAges, Stages, Temp, Side
<1> DEFINE KeepsTo(s) ==
      /\ dl' \in [Vids -> [stage : Stages, gen : Nat]]
      /\ \A u \in Vids : u # v => dl'[u] = dl[u]
      /\ dl'[v].stage = s
      /\ s # "none" => dl'[v].gen = dl[v].gen
<1>3. ASSUME NEW s \in Stages, MovesTo(v, s) PROVE KeepsTo(s)
  BY <1>1, <1>2, <1>3, OneDownload, DownloadUpdates
<1>4. ASSUME Over(v) PROVE KeepsTo("none")
  <2>1. "none" \in Stages /\ 0 \in Nat
    BY DEF Stages
  <2>2. dl' = [dl EXCEPT ![v] = [stage |-> "none", gen |-> 0]]
    BY <1>1, <1>4, DownloadUpdates
  <2> HIDE DEF Stages
  <2> QED
    BY <1>1, <2>1, <2>2, OneDownload
<1> HIDE DEF KeepsTo
<1>5. ASSUME FetchStarts(v) PROVE FilesFit' /\ NothingLost
  <2>1. /\ dl' \in [Vids -> [stage : Stages, gen : Nat]]
        /\ \A u \in Vids : u # v => dl'[u] = dl[u]
        /\ dl'[v].stage = "queued"
    BY <1>1, <1>2, <1>5, OneDownload DEF FetchStarts, Stages
  <2>2. dlGen' \in Nat /\ UNCHANGED <<trailer, scratch, writers>>
    BY <1>2, <1>5 DEF FetchStarts
  <2>3. <<boot, Temp(v)>> \notin writers'
    BY <1>1, <1>5, <2>2, NotAtWork DEF FetchStarts, At, AtWork
  <2>4. StepsOn(v)
    BY <2>1, <2>3 DEF StepsOn, AtWork, Holding
  <2>5. ScratchGoesOn /\ DOMAIN scratch \ DOMAIN scratch' = {}
    BY <1>1, <2>2, ScratchSame
  <2> QED
    BY <1>1, <1>2, <2>1, <2>2, <2>4, <2>5, ProcessGoesOn
<1>6. ASSUME Acquires(v) PROVE FilesFit' /\ NothingLost
  <2>1. KeepsTo("writing")
    BY <1>3, <1>6 DEF Acquires, Stages, Holding
  <2>2. UNCHANGED <<dlGen, trailer>> /\ writers' = writers \cup {<<boot, Temp(v)>>}
    BY <1>6 DEF Acquires, Starts
  <2>3. ScratchGoesOn /\ Fresh(Temp(v)) /\ DOMAIN scratch \ DOMAIN scratch' = {}
    BY <1>1, <1>2, <1>6, ScratchWritten DEF Acquires
  <2>4. StepsOn(v)
    BY <2>1, <2>3 DEF KeepsTo, StepsOn, AtWork, Holding
  <2>5. StartsFresh(<<boot, Temp(v)>>)
    BY <1>2, <2>1, <2>3 DEF KeepsTo, StartsFresh
  <2> QED
    BY <1>1, <1>2, <2>1, <2>2, <2>3, <2>4, <2>5, ProcessGoesOn DEF KeepsTo
<1>7. ASSUME ExtractFails(v) PROVE FilesFit' /\ NothingLost
  <2>1. KeepsTo("failed")
    BY <1>3, <1>7 DEF ExtractFails, Stages, Holding
  <2>2. UNCHANGED <<dlGen, trailer, scratch>> /\ writers' = writers \ {<<boot, Temp(v)>>}
    BY <1>7 DEF ExtractFails, Ends
  <2>3. StepsOn(v)
    BY <1>7, <2>1, <2>2 DEF KeepsTo, StepsOn, AtWork, Holding, ExtractFails, At
  <2>4. ScratchGoesOn /\ DOMAIN scratch \ DOMAIN scratch' = {}
    BY <1>1, <2>2, ScratchSame
  <2> QED
    BY <1>1, <1>2, <2>1, <2>2, <2>3, <2>4, ProcessGoesOn DEF KeepsTo
<1>8. ASSUME RemovesTempSet(v) PROVE FilesFit' /\ NothingLost
  <2>1. KeepsTo("none")
    BY <1>4, <1>8 DEF RemovesTempSet
  <2>2. UNCHANGED <<dlGen, trailer, writers>> /\ scratch' = Without(scratch, {Temp(v)})
    BY <1>8 DEF RemovesTempSet
  <2>3. <<boot, Temp(v)>> \notin writers'
    BY <1>1, <1>8, <2>2, NotAtWork DEF RemovesTempSet, At, AtWork
  <2>4. StepsOn(v)
    BY <2>1, <2>3 DEF KeepsTo, StepsOn, AtWork, Holding
  <2>5. Useless(Temp(v))
    BY <2>1, <2>3 DEF KeepsTo, Useless, AtWork
  <2>6. ScratchGoesOn /\ DOMAIN scratch \ DOMAIN scratch' \subseteq {Temp(v)}
    BY <1>1, <2>2, ScratchLoses
  <2> QED
    BY <1>1, <1>2, <2>1, <2>2, <2>4, <2>5, <2>6, ProcessGoesOn DEF KeepsTo
<1>9. ASSUME Extracted(v) PROVE FilesFit' /\ NothingLost
  <2>1. KeepsTo("measuring")
    BY <1>3, <1>9 DEF Extracted, Stages, Holding
  <2>2. UNCHANGED <<dlGen, trailer, scratch, writers>>
    BY <1>9 DEF Extracted
  <2>3. StepsOn(v)
    BY <1>9, <2>1 DEF KeepsTo, StepsOn, AtWork, Holding, Extracted, At
  <2>4. ScratchGoesOn /\ DOMAIN scratch \ DOMAIN scratch' = {}
    BY <1>1, <2>2, ScratchSame
  <2> QED
    BY <1>1, <1>2, <2>1, <2>2, <2>3, <2>4, ProcessGoesOn DEF KeepsTo
<1>10. ASSUME Publishes(v) PROVE FilesFit' /\ NothingLost
  <2>1. KeepsTo("scanning")
    BY <1>3, <1>10 DEF Publishes, Stages, Holding
  <2>2. /\ UNCHANGED dlGen /\ scratch' = Without(scratch, {Temp(v)})
        /\ writers' = writers \ {<<boot, Temp(v)>>}
        /\ trailer' = [trailer EXCEPT ![v] = scratch[Temp(v)]]
    BY <1>10 DEF Publishes, Ends
  <2>3. scratch[Temp(v)] \in Ages
    <3>1. Temp(v) \in DOMAIN scratch
      BY <1>10 DEF Publishes, At, FilesFit, TempsThere
    <3> QED
      BY <1>1, <3>1 DEF VolumeTyped, Ages
  <2>4. trailer' \in [Vids -> TrailerAges]
    <3>1. Ages \subseteq TrailerAges
      BY DEF Ages, TrailerAges
    <3> HIDE DEF TrailerAges
    <3> QED
      BY <1>2, <2>2, <2>3, <3>1
  <2>5. StepsOn(v)
    BY <1>10, <2>1, <2>2 DEF KeepsTo, StepsOn, AtWork, Holding, Publishes, At
  <2>6. Useless(Temp(v))
    BY <2>1, <2>2 DEF KeepsTo, Useless, AtWork
  <2>7. ScratchGoesOn /\ DOMAIN scratch \ DOMAIN scratch' \subseteq {Temp(v)}
    BY <1>1, <2>2, ScratchLoses
  <2> QED
    BY <1>1, <1>2, <2>1, <2>2, <2>4, <2>5, <2>6, <2>7, ProcessGoesOn DEF KeepsTo
<1>11. ASSUME PublishFails(v) PROVE FilesFit' /\ NothingLost
  <2>1. KeepsTo("none")
    BY <1>4, <1>11 DEF PublishFails
  <2>2. /\ UNCHANGED <<dlGen, trailer>> /\ scratch' = Without(scratch, {Temp(v)})
        /\ writers' = writers \ {<<boot, Temp(v)>>}
    BY <1>11 DEF PublishFails, Ends
  <2>3. StepsOn(v)
    BY <2>1, <2>2 DEF KeepsTo, StepsOn, AtWork, Holding
  <2>4. Useless(Temp(v))
    BY <2>1, <2>2 DEF KeepsTo, Useless, AtWork
  <2>5. ScratchGoesOn /\ DOMAIN scratch \ DOMAIN scratch' \subseteq {Temp(v)}
    BY <1>1, <2>2, ScratchLoses
  <2> QED
    BY <1>1, <1>2, <2>1, <2>2, <2>3, <2>4, <2>5, ProcessGoesOn DEF KeepsTo
<1>12. ASSUME BakeDamages(v) PROVE FilesFit' /\ NothingLost
  <2>1. KeepsTo("failed")
    BY <1>3, <1>12 DEF BakeDamages, Stages, Holding
  <2>2. UNCHANGED <<dlGen, trailer>> /\ writers' = writers \ {<<boot, Temp(v)>>}
    BY <1>12 DEF BakeDamages, Ends
  <2>3. StepsOn(v)
    BY <1>12, <2>1, <2>2 DEF KeepsTo, StepsOn, AtWork, Holding, BakeDamages, At
  <2>4. ScratchGoesOn /\ DOMAIN scratch \ DOMAIN scratch' = {}
    BY <1>1, <1>2, <1>12, ScratchWritten DEF BakeDamages
  <2> QED
    BY <1>1, <1>2, <2>1, <2>2, <2>3, <2>4, ProcessGoesOn DEF KeepsTo
<1>13. ASSUME DownloadScans(v) PROVE FilesFit' /\ NothingLost
  <2>1. KeepsTo("none") \/ KeepsTo("evicting")
    BY <1>3, <1>4, <1>13 DEF DownloadScans, Stages, Holding
  <2>2. /\ UNCHANGED <<dlGen, scratch, writers>>
        /\ trailer' = [u \in Vids |-> IF u \in Expired THEN Absent ELSE trailer[u]]
    BY <1>13 DEF DownloadScans, Scans
  <2>3. trailer' \in [Vids -> TrailerAges]
    <3>1. Absent \in TrailerAges
      BY DEF TrailerAges
    <3> HIDE DEF TrailerAges, Absent
    <3> QED
      BY <1>2, <2>2, <3>1
  <2>4. <<boot, Temp(v)>> \notin writers'
    BY <1>1, <1>13, <2>2, NotAtWork DEF DownloadScans, At, AtWork
  <2>5. StepsOn(v)
    BY <1>13, <2>1, <2>4 DEF KeepsTo, StepsOn, AtWork, Holding, DownloadScans, At
  <2>6. ScratchGoesOn /\ DOMAIN scratch \ DOMAIN scratch' = {}
    BY <1>1, <2>2, ScratchSame
  <2> QED
    BY <1>1, <1>2, <2>1, <2>2, <2>3, <2>5, <2>6, ProcessGoesOn DEF KeepsTo
<1> QED
  BY <1>5, <1>6, <1>7, <1>8, <1>9, <1>10, <1>11, <1>12, <1>13 DEF DownloadSteps

(* A step at which no download moves, nothing starts to write and nothing  *)
(* but what is not in use grows old or goes, whether the process runs or   *)
(* not.                                                                    *)
LEMMA QuietStep ==
  ASSUME FilesFit, UNCHANGED <<container, boot, dl>>,
         phase' \in {"up", "await", "down"}, Running' = Running,
         dlGen' \in Nat, trailer' \in [Vids -> TrailerAges],
         writers' \subseteq writers,
         DOMAIN scratch' \subseteq Names, scratch' \in [DOMAIN scratch' -> Ages],
         DOMAIN scratch \subseteq DOMAIN scratch',
         \A n \in InUse \cap DOMAIN scratch' :
           scratch'[n] <= Life \/ (n \in DOMAIN scratch /\ scratch'[n] = scratch[n])
  PROVE  FilesFit' /\ NothingLost
<1>1. /\ VolumeTyped /\ WritersBelong /\ TempsAtWork /\ InUseIsYoung /\ TempsThere
      /\ ~Running => \A v \in Vids : dl[v] = NoDownload
  BY DEF FilesFit
<1>2. Pid' = Pid /\ Held' = Held /\ \A v \in Vids : Temp(v)' = Temp(v)
  BY DEF Pid, Temp, TempName, Held
<1>3. InUse' \subseteq InUse
  BY <1>2 DEF InUse, Held
<1>4. VolumeTyped'
  BY <1>1 DEF VolumeTyped, Ages, TrailerAges
<1>5. WritersBelong'
  BY <1>1 DEF WritersBelong
<1>6. TempsAtWork'
  BY <1>1, <1>2 DEF TempsAtWork, Mine
<1>7. InUseIsYoung'
  BY <1>1, <1>3 DEF InUseIsYoung
<1>8. TempsThere'
  BY <1>1, <1>2 DEF TempsThere
<1>9. NothingLost
  BY DEF NothingLost
<1> QED
  BY <1>1, <1>4, <1>5, <1>6, <1>7, <1>8, <1>9 DEF FilesFit

(* The steps of the subprocesses, of readers and of time.                  *)
LEMMA QuietOk ==
  ASSUME FilesFit, \/ \E w \in writers : Writes(w) \/ OrphanEnds(w)
                   \/ \E v \in Vids : Serves(v)
                   \/ KillsGroups \/ VolumeTick
  PROVE  FilesFit' /\ NothingLost
<1>1. /\ VolumeTyped /\ phase \in {"up", "await", "down"} /\ dlGen \in Nat
      /\ trailer \in [Vids -> TrailerAges]
      /\ DOMAIN scratch \subseteq Names /\ scratch \in [DOMAIN scratch -> Ages]
      /\ writers \subseteq Nat \X Names
  BY DEF FilesFit, VolumeTyped, TrailerAges, Ages
<1>2. /\ UNCHANGED <<container, boot, dl, dlGen>> /\ writers' \subseteq writers
      /\ phase' \in {"up", "await", "down"} /\ Running' = Running
  BY <1>1 DEF Writes, OrphanEnds, Serves, KillsGroups, VolumeTick, Running
<1>3. ASSUME trailer' = trailer, scratch' = scratch PROVE FilesFit' /\ NothingLost
  BY <1>1, <1>2, <1>3, QuietStep
<1>4. ASSUME NEW w \in writers, Writes(w) PROVE FilesFit' /\ NothingLost
  <2>1. trailer' = trailer /\ scratch' = WithFresh(scratch, {w[2]}) /\ w[2] \in Names
    BY <1>1, <1>4 DEF Writes
  <2>2. /\ DOMAIN scratch' = DOMAIN scratch \cup {w[2]}
        /\ scratch' \in [DOMAIN scratch' -> Ages]
        /\ \A n \in DOMAIN scratch' : scratch'[n] = 0 \/ (n \in DOMAIN scratch /\ scratch'[n] = scratch[n])
    BY <1>1, <2>1, GetsFresh
  <2>3. DOMAIN scratch' \subseteq Names /\ 0 <= Life
    <3>1. DOMAIN scratch' \subseteq Names
      BY <1>1, <2>1, <2>2
    <3> QED
      BY <3>1
  <2> QED
    BY <1>1, <1>2, <2>1, <2>2, <2>3, QuietStep
<1>5. ASSUME NEW v \in Vids, Serves(v) PROVE FilesFit' /\ NothingLost
  <2>1. scratch' = scratch /\ trailer' = [trailer EXCEPT ![v] = 0] /\ 0 \in TrailerAges
    BY <1>5 DEF Serves, TrailerAges
  <2>2. trailer' \in [Vids -> TrailerAges]
    <3> HIDE DEF TrailerAges
    <3> QED
      BY <1>1, <2>1
  <2> QED
    BY <1>1, <1>2, <2>1, <2>2, QuietStep
<1>6. ASSUME VolumeTick PROVE FilesFit' /\ NothingLost
  <2>1. /\ \A n \in InUse \cap DOMAIN scratch : scratch[n] < Life
        /\ trailer' = [v \in Vids |-> IF trailer[v] = Absent THEN Absent ELSE Older(trailer[v], Ttl)]
        /\ scratch' = [n \in DOMAIN scratch |-> Older(scratch[n], Grace)]
    BY <1>6 DEF VolumeTick
  <2>2. \A age \in Ages : Older(age, Grace) \in Ages /\ (age < Life => Older(age, Grace) <= Life)
    BY DEF Ages, Older
  <2>3. \A age \in TrailerAges : age # Absent => Older(age, Ttl) \in TrailerAges
    BY DEF TrailerAges, Older, Absent
  <2>4. Absent \in TrailerAges
    BY DEF TrailerAges
  <2>5. trailer' \in [Vids -> TrailerAges]
    <3> HIDE DEF TrailerAges, Older, Absent
    <3> QED
      BY <1>1, <2>1, <2>3, <2>4
  <2>6. /\ DOMAIN scratch' = DOMAIN scratch /\ scratch' \in [DOMAIN scratch' -> Ages]
        /\ \A n \in InUse \cap DOMAIN scratch' : scratch'[n] <= Life
    <3> HIDE DEF Older, Ages
    <3> QED
      BY <1>1, <2>1, <2>2
  <2> QED
    BY <1>1, <1>2, <2>5, <2>6, QuietStep
<1>7. ASSUME KillsGroups PROVE FilesFit' /\ NothingLost
  BY <1>3, <1>7 DEF KillsGroups
<1>8. ASSUME NEW w \in writers, OrphanEnds(w) PROVE FilesFit' /\ NothingLost
  BY <1>3, <1>8 DEF OrphanEnds
<1> QED
  BY <1>4, <1>5, <1>6, <1>7, <1>8

(* The keyframe passes and the passes that sweep and evict.                *)
LEMMA PassOk ==
  ASSUME FilesFit, PassesFit,
         \/ \E v \in Vids : KeyframesStart(v)
         \/ \E w \in writers : KeyframesRead(w)
         \/ \E p \in Passes, v \in Vids : Evicts(p, v)
         \/ HourlySweeps
  PROVE  FilesFit' /\ NothingLost
<1>1. /\ VolumeTyped /\ UNCHANGED <<container, phase, boot>>
      /\ dlGen \in Nat /\ trailer \in [Vids -> TrailerAges]
      /\ dl \in [Vids -> [stage : Stages, gen : Nat]]
      /\ \A n \in DOMAIN scratch : scratch[n] \in Ages
      /\ Absent \in TrailerAges
  BY DEF FilesFit, VolumeTyped, TrailerAges, Stages, Ages,
         KeyframesStart, KeyframesRead, Evicts, HourlySweeps
<1>2. ASSUME NEW v \in Vids, KeyframesStart(v) PROVE FilesFit' /\ NothingLost
  <2> DEFINE n == SideName(v, dlGen)
  <2>1. /\ Running /\ dlGen' = dlGen + 1 /\ dlGen' \in Nat /\ UNCHANGED <<trailer, dl>>
        /\ scratch' = WithFresh(scratch, {n}) /\ writers' = writers \cup {<<boot, n>>}
    BY <1>1, <1>2 DEF KeyframesStart, Starts
  <2>2. n \in Names /\ n[1] = "side"
    BY <1>1, NamesOfVolume
  <2> HIDE DEF n
  <2>3. ScratchGoesOn /\ Fresh(n) /\ DOMAIN scratch \ DOMAIN scratch' = {}
    BY <1>1, <2>1, <2>2, ScratchWritten
  <2>4. StartsFresh(<<boot, n>>)
    BY <2>2, <2>3 DEF StartsFresh
  <2> QED
    BY <1>1, <2>1, <2>3, <2>4, ProcessGoesOn
<1>3. ASSUME NEW w \in writers, KeyframesRead(w) PROVE FilesFit' /\ NothingLost
  <2>1. /\ Running /\ UNCHANGED <<dlGen, trailer, dl>> /\ writers' = writers \ {w}
        /\ scratch' = Without(scratch, {w[2]}) \/ scratch' = scratch
        /\ w[2][1] = "side"
    BY <1>3 DEF KeyframesRead, Ends
  <2>2. ScratchGoesOn /\ DOMAIN scratch \ DOMAIN scratch' \subseteq {w[2]}
    BY <1>1, <2>1, ScratchLoses, ScratchSame
  <2>3. Useless(w[2])
    BY <2>1 DEF Useless
  <2> QED
    BY <1>1, <2>1, <2>2, <2>3, ProcessGoesOn
<1>4. ASSUME HourlySweeps PROVE FilesFit' /\ NothingLost
  <2>1. /\ Running /\ UNCHANGED <<dlGen, dl, writers>> /\ scratch' = Without(scratch, Abandoned)
        /\ trailer' = [v \in Vids |-> IF v \in Expired THEN Absent ELSE trailer[v]]
    BY <1>4 DEF HourlySweeps, Scans
  <2>2. trailer' \in [Vids -> TrailerAges]
    <3> HIDE DEF TrailerAges, Absent
    <3> QED
      BY <1>1, <2>1
  <2>3. ScratchGoesOn /\ DOMAIN scratch \ DOMAIN scratch' \subseteq Abandoned \cap DOMAIN scratch
    BY <1>1, <2>1, ScratchLoses
  <2>4. \A n \in Abandoned \cap DOMAIN scratch : Useless(n)
    BY <1>1 DEF Abandoned, Useless, Ages
  <2> QED
    BY <1>1, <2>1, <2>2, <2>3, <2>4, ProcessGoesOn
<1>5. ASSUME NEW p \in Passes, NEW v \in Vids, Evicts(p, v) PROVE FilesFit' /\ NothingLost
  <2>1. /\ UNCHANGED <<dlGen, scratch, writers>> /\ trailer' = [trailer EXCEPT ![v] = Absent]
        /\ UNCHANGED dl \/ (p \in Vids /\ Over(p))
    BY <1>5 DEF Evicts
  <2>2. trailer' \in [Vids -> TrailerAges]
    <3> HIDE DEF TrailerAges, Absent
    <3> QED
      BY <1>1, <2>1
  <2>3. ScratchGoesOn /\ DOMAIN scratch \ DOMAIN scratch' = {}
    BY <1>1, <2>1, ScratchSame
  <2>4. Running /\ (p \in Vids => dl[p].stage = "evicting")
    BY <1>5 DEF Evicts, PassesFit
  <2>5. CASE UNCHANGED dl
    BY <1>1, <2>1, <2>2, <2>3, <2>4, <2>5, ProcessGoesOn
  <2>6. CASE p \in Vids /\ Over(p)
    <3>1. "none" \in Stages /\ 0 \in Nat
      BY DEF Stages
    <3>2. dl' = [dl EXCEPT ![p] = [stage |-> "none", gen |-> 0]]
      BY <1>1, <2>6, DownloadUpdates
    <3>3. /\ dl' \in [Vids -> [stage : Stages, gen : Nat]]
          /\ \A u \in Vids : u # p => dl'[u] = dl[u]
          /\ dl'[p].stage = "none"
      <4> HIDE DEF Stages
      <4> QED
        BY <1>1, <2>6, <3>1, <3>2, OneDownload
    <3>4. <<boot, Temp(p)>> \notin writers'
      BY <1>1, <2>1, <2>4, <2>6, NotAtWork DEF AtWork
    <3>5. StepsOn(p)
      BY <3>3, <3>4 DEF StepsOn, AtWork, Holding
    <3> QED
      BY <1>1, <2>1, <2>2, <2>3, <2>4, <3>3, <3>5, ProcessGoesOn
  <2> QED
    BY <2>1, <2>5, <2>6
<1> QED
  BY <1>2, <1>3, <1>4, <1>5

(* The process ends: killed, or after it swept its own.                    *)
LEMMA EndOk ==
  ASSUME FilesFit, SweepsOwn \/ Killed
  PROVE  FilesFit' /\ PassesFit' /\ ~Running'
<1>1. /\ VolumeTyped /\ WritersBelong /\ InUseIsYoung
  BY DEF FilesFit
<1>2. /\ phase' = "down" /\ UNCHANGED <<container, boot, dlGen, trailer>>
      /\ writers' = (IF container THEN {} ELSE writers)
      /\ dl' = [v \in Vids |-> NoDownload] /\ pass' = [p \in Passes |-> NoPass]
  BY DEF SweepsOwn, Killed, Ended
<1>3. ~Running'
  BY <1>2 DEF Running
<1>4. /\ DOMAIN scratch' \subseteq DOMAIN scratch
      /\ scratch' \in [DOMAIN scratch' -> Ages]
      /\ \A n \in DOMAIN scratch' : scratch'[n] = scratch[n]
  <2>1. scratch' = Without(scratch, Ours) \/ scratch' = scratch
    BY DEF SweepsOwn, Killed
  <2> QED
    BY <1>1, <2>1, Loses DEF VolumeTyped, Ages
<1>5. \A v \in Vids : dl'[v] = NoDownload /\ dl'[v].stage = "none"
  BY <1>2 DEF NoDownload
<1>6. dl' \in [Vids -> [stage : Holding \cup {"none", "queued"}, gen : Nat]]
  BY <1>2 DEF NoDownload
<1>7. VolumeTyped'
  BY <1>1, <1>2, <1>4, <1>6 DEF VolumeTyped, Ages
<1>8. WritersBelong'
  BY <1>1, <1>2 DEF WritersBelong
<1>9. TempsAtWork'
  BY <1>3 DEF TempsAtWork, Mine
<1>10. InUseIsYoung'
  <2>1. InUse' \subseteq InUse
    BY <1>2, <1>5 DEF InUse, Held, Holding
  <2> QED
    BY <1>1, <1>4, <2>1 DEF InUseIsYoung
<1>11. TempsThere'
  BY <1>5 DEF TempsThere
<1>12. PassesFit'
  BY <1>2 DEF PassesFit, Passes
<1> QED
  BY <1>3, <1>5, <1>7, <1>8, <1>9, <1>10, <1>11, <1>12 DEF FilesFit

(* The next process: whatever writes is of an earlier one.                 *)
LEMMA BootOk ==
  ASSUME FilesFit, BootsAgain
  PROVE  FilesFit' /\ NothingLost
<1>1. /\ VolumeTyped /\ WritersBelong /\ TempsAtWork /\ InUseIsYoung /\ TempsThere
      /\ \A v \in Vids : dl[v] = NoDownload
  BY DEF FilesFit, BootsAgain, Running
<1>2. /\ ~Running /\ phase' = "up" /\ boot' = boot + 1 /\ dlGen' = 0 /\ boot \in Nat \ {0}
      /\ UNCHANGED <<container, trailer, scratch, writers, groups, dl, pass>>
  BY <1>1 DEF BootsAgain, Running, VolumeTyped
<1>3. Running'
  BY <1>2 DEF Running
<1>4. \A v \in Vids : dl'[v].stage = "none"
  BY <1>1, <1>2 DEF NoDownload
<1>5. VolumeTyped'
  BY <1>1, <1>2 DEF VolumeTyped
<1>6. WritersBelong'
  BY <1>1, <1>2 DEF WritersBelong
<1>7. TempsAtWork'
  <2>1. \A w \in writers : w[1] \in 1 .. boot
    BY <1>1 DEF WritersBelong
  <2> QED
    BY <1>2, <2>1 DEF TempsAtWork, Mine
<1>8. InUse' \subseteq InUse
  BY <1>2, <1>4 DEF InUse, Held, Holding
<1>9. InUseIsYoung'
  BY <1>1, <1>2, <1>8 DEF InUseIsYoung
<1>10. TempsThere'
  BY <1>4 DEF TempsThere
<1>11. NothingLost
  BY <1>2 DEF NothingLost
<1> QED
  BY <1>3, <1>5, <1>6, <1>7, <1>9, <1>10, <1>11 DEF FilesFit

(* The passes.                                                             *)
LEMMA PassesOk ==
  ASSUME VolumeIInv, VolumeNext, ~(SweepsOwn \/ Killed)
  PROVE  PassesFit'
<1>1. /\ VolumeTyped /\ dl = [v \in Vids |-> dl[v]] /\ pass = [p \in Passes |-> pass[p]]
      /\ \A p \in Passes : pass[p] # NoPass => Running /\ (p \in Vids => dl[p].stage = "evicting")
  BY DEF VolumeIInv, FilesFit, PassesFit, VolumeTyped
<1>2. ASSUME pass' = pass, Running => Running',
             \A v \in Vids : dl[v].stage = "evicting" => dl'[v] = dl[v]
      PROVE  PassesFit'
  BY <1>1, <1>2 DEF PassesFit
<1>3. CASE UNCHANGED <<pass, dl>>
  <2>1. Running => Running'
    BY <1>3 DEF VolumeNext, FetchStarts, DownloadSteps, Acquires, ExtractFails, RemovesTempSet,
           Extracted, Publishes, PublishFails, BakeDamages, DownloadScans, KeyframesStart, Serves,
           KeyframesRead, Writes, OrphanEnds, Evicts, HourlySweeps, KillsGroups, BootsAgain,
           VolumeTick, Running
  <2> QED
    BY <1>2, <1>3, <2>1
<1>4. ASSUME NEW v \in Vids, FetchStarts(v) \/ (DownloadSteps(v) /\ ~DownloadScans(v))
      PROVE  PassesFit'
  <2>1. /\ Running => Running'
        /\ pass' = pass
        /\ dl[v].stage # "evicting"
        /\ \E d : dl' = [dl EXCEPT ![v] = d]
    BY <1>4 DEF FetchStarts, DownloadSteps, Acquires, ExtractFails, RemovesTempSet, Extracted,
           Publishes, PublishFails, BakeDamages, At, MovesTo, Over, Running
  <2>2. \A u \in Vids : u # v => dl'[u] = dl[u]
    BY <1>1, <2>1
  <2>3. \A u \in Vids : dl[u].stage = "evicting" => dl'[u] = dl[u]
    BY <2>1, <2>2
  <2> QED
    BY <1>2, <2>1, <2>3
<1>5. ASSUME NEW v \in Vids, DownloadScans(v) PROVE PassesFit'
  <2> DEFINE n == Cardinality(DOMAIN scratch)
  <2>1. /\ Running /\ Running' /\ pass' = [pass EXCEPT ![v] = Scanned(n)]
        /\ IF Scanned(n) = NoPass THEN Over(v) ELSE MovesTo(v, "evicting")
        /\ dl[v].stage # "evicting"
    BY <1>5 DEF DownloadScans, Scans, Running, At
  <2> HIDE DEF n
  <2>2. \A u \in Vids : u # v => dl'[u] = dl[u]
    BY <1>1, <2>1 DEF Over, MovesTo
  <2>3. Scanned(n) # NoPass => dl'[v].stage = "evicting"
    BY <1>1, <2>1 DEF MovesTo, VolumeTyped
  <2>4. /\ pass'[v] = Scanned(n) /\ pass' = [p \in Passes |-> pass'[p]]
        /\ \A p \in Passes : p # v => pass'[p] = pass[p]
    BY <1>1, <2>1 DEF Passes
  <2> QED
    BY <1>1, <2>1, <2>2, <2>3, <2>4 DEF PassesFit
<1>6. CASE HourlySweeps
  <2>1. /\ Running /\ Running' /\ dl' = dl
        /\ pass' = [pass EXCEPT ![Hourly] = Scanned(Cardinality(DOMAIN scratch \ Abandoned))]
    BY <1>6 DEF HourlySweeps, Scans, Running
  <2>2. Hourly \notin Vids
    BY DEF Hourly
  <2> QED
    BY <1>1, <2>1, <2>2 DEF PassesFit
<1>7. ASSUME NEW p \in Passes, NEW v \in Vids, Evicts(p, v) PROVE PassesFit'
  <2> DEFINE left == [todo |-> Without(pass[p].todo, {v}), budget |-> pass[p].budget,
                      total |-> IF trailer[v] = Absent THEN pass[p].total ELSE pass[p].total - 1]
             done == DOMAIN left.todo = {} \/ left.total <= left.budget
  <2>1. /\ pass[p] # NoPass /\ phase' = phase
        /\ pass' = [pass EXCEPT ![p] = IF done THEN NoPass ELSE left]
        /\ IF done /\ p \in Vids THEN Over(p) ELSE UNCHANGED dl
    BY <1>7 DEF Evicts
  <2> HIDE DEF left, done
  <2>2. Running'
    BY <1>1, <2>1 DEF Running
  <2>3. /\ pass' = [q \in Passes |-> pass'[q]] /\ (done => pass'[p] = NoPass)
        /\ \A q \in Passes : q # p => pass'[q] = pass[q]
    BY <1>1, <2>1
  <2>4. \A u \in Vids : ~(done /\ u = p) => dl'[u] = dl[u]
    BY <1>1, <2>1 DEF Over
  <2> QED
    BY <1>1, <2>1, <2>2, <2>3, <2>4 DEF PassesFit
<1> QED
  <2>1. \/ \E v \in Vids : FetchStarts(v) \/ (DownloadSteps(v) /\ ~DownloadScans(v))
        \/ \E v \in Vids : DownloadScans(v)
        \/ HourlySweeps
        \/ \E p \in Passes, v \in Vids : Evicts(p, v)
        \/ \E v \in Vids : KeyframesStart(v) \/ Serves(v)
        \/ \E w \in writers : KeyframesRead(w) \/ Writes(w) \/ OrphanEnds(w)
        \/ KillsGroups \/ BootsAgain \/ VolumeTick
    BY DEF VolumeNext
  <2>2. ASSUME \/ \E v \in Vids : KeyframesStart(v) \/ Serves(v)
               \/ \E w \in writers : KeyframesRead(w) \/ Writes(w) \/ OrphanEnds(w)
               \/ KillsGroups \/ BootsAgain \/ VolumeTick
        PROVE  UNCHANGED <<pass, dl>>
    BY <2>2 DEF KeyframesStart, Serves, KeyframesRead, Writes, OrphanEnds, KillsGroups, BootsAgain,
           VolumeTick
  <2> QED
    BY <1>3, <1>4, <1>5, <1>6, <1>7, <2>1, <2>2

----------------------------------------------------------------------------
(* Every step.                                                             *)
LEMMA VolumeInitOk == VolumeInit => VolumeIInv
<1> SUFFICES ASSUME VolumeInit PROVE VolumeIInv
  OBVIOUS
<1>1. VolumeTyped
  BY DEF VolumeInit, VolumeTyped, NoDownload
<1>2. Running /\ WritersBelong /\ TempsAtWork
  BY DEF VolumeInit, Running, WritersBelong, TempsAtWork, Mine
<1>3. InUseIsYoung /\ TempsThere
  BY DEF VolumeInit, InUseIsYoung, TempsThere, NoDownload
<1>4. PassesFit
  BY DEF VolumeInit, PassesFit
<1> QED
  BY <1>1, <1>2, <1>3, <1>4 DEF VolumeIInv, FilesFit

LEMMA VolumeStepOk ==
  ASSUME VolumeIInv, [VolumeNext]_volumeVars
  PROVE  VolumeIInv' /\ (Running' => NothingLost)
<1>1. FilesFit /\ PassesFit
  BY DEF VolumeIInv
<1>2. ASSUME VolumeNext, ~(SweepsOwn \/ Killed) PROVE VolumeIInv' /\ NothingLost
  <2>1. \/ \E v \in Vids : FetchStarts(v) \/ DownloadSteps(v)
        \/ \/ \E v \in Vids : KeyframesStart(v)
           \/ \E w \in writers : KeyframesRead(w)
           \/ \E p \in Passes, v \in Vids : Evicts(p, v)
           \/ HourlySweeps
        \/ \/ \E w \in writers : Writes(w) \/ OrphanEnds(w)
           \/ \E v \in Vids : Serves(v)
           \/ KillsGroups \/ VolumeTick
        \/ BootsAgain
    BY <1>2 DEF VolumeNext
  <2>2. FilesFit' /\ NothingLost
    BY <1>1, <2>1, DownloadOk, PassOk, QuietOk, BootOk
  <2>3. PassesFit'
    BY <1>2, PassesOk
  <2> QED
    BY <2>2, <2>3 DEF VolumeIInv
<1>3. CASE SweepsOwn \/ Killed
  BY <1>1, <1>3, EndOk DEF VolumeIInv
<1>4. CASE UNCHANGED volumeVars
  <2>1. UNCHANGED <<container, phase, boot, dlGen, trailer, scratch, writers, groups, dl, pass>>
    BY <1>4 DEF volumeVars
  <2>2. Pid' = Pid /\ Running' = Running /\ \A v \in Vids : Temp(v)' = Temp(v)
    BY <2>1 DEF Pid, Running, Temp, TempName
  <2>3. FilesFit'
    BY <1>1, <2>1, <2>2 DEF FilesFit, VolumeTyped, WritersBelong, TempsAtWork, Mine,
           InUseIsYoung, InUse, Held, TempsThere
  <2>4. PassesFit' /\ NothingLost
    BY <1>1, <2>1, <2>2 DEF PassesFit, NothingLost
  <2> QED
    BY <2>3, <2>4 DEF VolumeIInv
<1> QED
  BY <1>2, <1>3, <1>4

(* Whoever writes belongs to a process and a download, what is in use is   *)
(* young, the temp of a download at work is on the volume, and a pass is of*)
(* a download that waits for it.                                           *)
THEOREM VolumeInvariant == VolumeSpec => []VolumeIInv
<1>1. VolumeIInv /\ [VolumeNext]_volumeVars => VolumeIInv'
  BY VolumeStepOk
<1> QED
  BY <1>1, VolumeInitOk, PTL DEF VolumeSpec

(* Two subprocesses never write to one output name, and nobody writes to   *)
(* the name of a download that waits (download_cached's id, pid and        *)
(* generation).                                                            *)
THEOREM TempsApart == VolumeSpec => []OneWriterPerTemp
<1>1. VolumeIInv => OneWriterPerTemp
  <2> SUFFICES ASSUME VolumeIInv PROVE OneWriterPerTemp
    OBVIOUS
  <2>1. FilesFit /\ VolumeTyped /\ WritersBelong
    BY DEF VolumeIInv, FilesFit
  <2>2. ASSUME NEW w \in writers, NEW x \in writers, w[2][1] = "temp", w[2] = x[2] PROVE w = x
    <3>1. w = <<w[1], w[2]>> /\ x = <<x[1], x[2]>>
      BY <2>1 DEF VolumeTyped
    <3>2. w[1] = x[1]
      BY <2>1, <2>2 DEF WritersBelong
    <3> QED
      BY <2>2, <3>1, <3>2
  <2>3. ASSUME NEW v \in Vids, At(v, "queued"), NEW w \in writers, w[2] = Temp(v) PROVE FALSE
    <3>1. Running /\ dl[v].stage \notin AtWork
      BY <2>1, <2>3 DEF FilesFit, At, NoDownload, AtWork
    <3>2. w = <<boot, Temp(v)>>
      BY <2>1, <2>3, <3>1, WriterIsMine
    <3> QED
      BY <2>1, <2>3, <3>1, <3>2, NotAtWork
  <2> QED
    BY <2>2, <2>3 DEF OneWriterPerTemp, Written
<1> QED
  BY <1>1, VolumeInvariant, PTL

(* No pass and no cleanup of a running process unlinks a scratch file that *)
(* a subprocess still writes (sweep_partials, remove_temp_set).            *)
THEOREM LeftToTheirWriters == VolumeSpec => WritersUndisturbed
<1>1. VolumeIInv /\ [VolumeNext]_volumeVars
        => [Running' => (DOMAIN scratch \ DOMAIN scratch') \cap Written' = {}]_volumeVars
  BY VolumeStepOk DEF NothingLost
<1> QED
  BY <1>1, VolumeInvariant, PTL DEF VolumeSpec, WritersUndisturbed

(* The temp a download measures, bakes and renames is on the volume until  *)
(* it is done with it: no sweep and no other download takes it.            *)
THEOREM TempsStay == VolumeSpec => []TempsThere
<1>1. VolumeIInv => TempsThere
  BY DEF VolumeIInv, FilesFit
<1> QED
  BY <1>1, VolumeInvariant, PTL

=============================================================================
