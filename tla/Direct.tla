------------------------------- MODULE Direct -------------------------------
(***************************************************************************)
(* The direct resolves (direct.rs): requests and warm-ups asking for the   *)
(* googlevideo URLs of a trailer, one shared resolve per key, the probe    *)
(* permits, the resident yt-dlp behind its mutex (worker.rs) with the      *)
(* spawned binary as its fallback, the answers remembered until shortly    *)
(* before their URLs expire, and the file they are parked in across a      *)
(* restart (state.rs).                                                     *)
(*                                                                         *)
(* The pause belongs to the box: downloads trip and clear it too           *)
(* (ElsewhereThrottled, ElsewhereAnswered).  Probes and searches share the *)
(* permits: a resolve may find none left though no other resolve runs.     *)
(***************************************************************************)
EXTENDS Clock, Backoff, FiniteSets, Sequences

CONSTANTS
  Keys,          \* an id, or an id at a rung of the ladder (direct.rs key)
  NoKey,         \* "no key"
  Clients,       \* requests and warm-up tasks
  ProbePermits,  \* permits of probe_sem
  CacheMax,      \* DIRECT_CACHE_MAX
  Lives,         \* how long the URLs of an answer live, where it can be read
  UnknownLife,   \* UNKNOWN_EXPIRY_TTL_MS, assumed where it cannot
  Margin,        \* EXPIRY_MARGIN_MS
  LongTtl,       \* fail_ttl_ms of a fact about the video
  ShortTtl,      \* fail_ttl_ms of everything else
  MaxJobs        \* bound: resolves ever started

ASSUME DirectAssumption ==
  /\ IsFiniteSet(Keys)
  /\ NoKey \notin Keys
  /\ ProbePermits \in Nat \ {0}
  /\ CacheMax \in Nat \ {0}
  /\ Lives \subseteq Nat
  /\ UnknownLife \in Nat
  /\ Margin \in Nat
  /\ LongTtl \in Nat
  /\ ShortTtl \in Nat
  /\ MaxJobs \in Nat
  /\ MaxNow \in Nat

VARIABLES
  up,        \* the process runs
  youtube,   \* AppState::youtube
  cache,     \* direct_cache: the answer under each key and when it lapses
  inflight,  \* direct_inflight: the resolve running for each key, NoJob when none
  nextJob,   \* resolves are numbered as they start (history)
  stage,     \* where each resolve's shared future stands
  asked,     \* the key each resolve is for
  best,      \* the answer a resolve has so far: of its first extraction, then final
  driving,   \* resolves whose detached driver has not ended
  holder,    \* the resolve that holds the worker's mutex
  resident,  \* the worker's process: "none" or "up"
  pipe,      \* requests written to it whose reply has not been read
  client,    \* the resolve each client awaits, NoJob when it is not waiting
  parked     \* the file of parked answers

vars == <<now, up, youtube, cache, inflight, nextJob, stage, asked, best,
          driving, holder, resident, pipe, client, parked>>

jobVars == <<nextJob, asked>>
workerVars == <<holder, resident, pipe>>

----------------------------------------------------------------------------
NoJob == 0
Jobs == 1 .. MaxJobs
Refusals == {"dead", "fault", "throttled"}
NoAnswer == [kind |-> "none", of |-> NoKey, expires |-> 0, dated |-> FALSE]
NoEntry == [answer |-> NoAnswer, exp |-> 0]

Active == {"lock", "asking", "binary", "check", "recheck"}  \* has a probe permit
Stages == {"none", "permit", "done"} \cup Active

Running == {j \in Jobs : stage[j] \in Active \cup {"permit"}}
PermitsTaken == {j \in Jobs : stage[j] \in Active}
Remembered(map) == {k \in Keys : map[k] # NoEntry}

(* peek_key: the answer standing under a key.                              *)
Standing(k) == cache[k].exp > now

----------------------------------------------------------------------------
(* What yt-dlp says of a key: URLs that live until a time, read from them  *)
(* or assumed (earliest_expiry), or the reason there are none (classify).  *)
Found(k) ==
  {[kind |-> "ok", of |-> k, expires |-> now + life, dated |-> TRUE] : life \in Lives}
    \cup {[kind |-> "ok", of |-> k, expires |-> now + UnknownLife, dated |-> FALSE]}
Refused(k) == {[kind |-> kind, of |-> k, expires |-> 0, dated |-> FALSE] : kind \in Refusals}

(* ttl_ms *)
Left(a, b) == IF a > b THEN a - b ELSE 0

TtlToTheEnd(a) ==  \* faulty: no margin
  IF a.kind = "ok" THEN Left(a.expires, now) ELSE IF a.kind = "dead" THEN LongTtl ELSE ShortTtl

Ttl(a) ==
  IF a.kind = "ok" THEN Left(Left(a.expires, now), Margin)
  ELSE IF a.kind = "dead" THEN LongTtl ELSE ShortTtl

(* remember: at the bound, lapsed answers go first, then all of them.      *)
RoomForOne(map) ==
  LET live == [k \in Keys |-> IF map[k].exp > now THEN map[k] ELSE NoEntry]
  IN  IF Cardinality(Remembered(map)) < CacheMax THEN map
      ELSE IF Cardinality(Remembered(live)) < CacheMax THEN live
      ELSE [k \in Keys |-> NoEntry]

Remember(k, a) ==
  IF a.kind = "throttled" THEN cache
  ELSE [RoomForOne(cache) EXCEPT ![k] = [answer |-> a, exp |-> now + Ttl(a)]]

(* The shared future's last step, one synchronous stretch: the permit is   *)
(* back, the pause learns of it, the answer is remembered and the key is   *)
(* free.  It removes whatever stands under the key, with no generation.    *)
Ends(j, a, jitter) ==
  /\ stage' = [stage EXCEPT ![j] = "done"]
  /\ best' = [best EXCEPT ![j] = a]
  /\ youtube' = CASE a.kind = "ok" -> Clear(youtube)
                  [] a.kind = "throttled" -> Trip(youtube, now, NoHint, jitter)
                  [] OTHER -> youtube
  /\ cache' = Remember(asked[j], a)
  /\ inflight' = [inflight EXCEPT ![asked[j]] = NoJob]

(* An extraction answered.  URLs are checked to be served to their end; a  *)
(* second extraction replaces the first answer only when it found some.    *)
LatestAnswer(j, a) == a  \* faulty: the last extraction has the last word
FinalAnswer(j, a) == IF best[j] = NoAnswer THEN a ELSE best[j]

Extracted(j, a, jitter) ==
  IF a.kind = "ok"
  THEN /\ stage' = [stage EXCEPT ![j] = IF best[j] = NoAnswer THEN "check" ELSE "recheck"]
       /\ best' = [best EXCEPT ![j] = a]
       /\ UNCHANGED <<youtube, cache, inflight>>
  ELSE Ends(j, FinalAnswer(j, a), jitter)

----------------------------------------------------------------------------
Init ==
  /\ now = 0
  /\ up = TRUE
  /\ youtube = NotPaused
  /\ cache = [k \in Keys |-> NoEntry]
  /\ inflight = [k \in Keys |-> NoJob]
  /\ nextJob = 1
  /\ stage = [j \in Jobs |-> "none"]
  /\ asked = [j \in Jobs |-> NoKey]
  /\ best = [j \in Jobs |-> NoAnswer]
  /\ driving = {}
  /\ holder = NoJob
  /\ resident = "none"
  /\ pipe = <<>>
  /\ client = [c \in Clients |-> NoJob]
  /\ parked = [k \in Keys |-> NoEntry]

Tick ==
  /\ now < MaxNow
  /\ now' = now + 1
  /\ UNCHANGED <<up, youtube, cache, inflight, jobVars, stage, best, driving,
                 workerVars, client, parked>>

----------------------------------------------------------------------------
(* Clients: answer(), up to shared.await.  An answer that stands is served *)
(* from memory and changes nothing.                                        *)
RunningForNone(k) == NoJob  \* faulty: every caller resolves for itself
RunningFor(k) == inflight[k]

Joins(c, k) ==
  /\ up /\ client[c] = NoJob
  /\ ~Standing(k)
  /\ RunningFor(k) # NoJob
  /\ client' = [client EXCEPT ![c] = RunningFor(k)]
  /\ UNCHANGED <<now, up, youtube, cache, inflight, jobVars, stage, best, driving,
                 workerVars, parked>>

(* Gated: the future runs to its end in its first poll, and the caller has *)
(* its refusal.  The clock is read again for the trip; when the pause ends *)
(* in between, the refusal counts as a strike.                             *)
Gated(c, k, jitter) ==
  /\ up /\ client[c] = NoJob
  /\ ~Standing(k)
  /\ RunningFor(k) = NoJob
  /\ Paused(youtube, now)
  /\ now' \in {now, AtMost(now + 1, MaxNow)}
  /\ youtube' = Trip(youtube, now', NoHint, jitter)
  /\ UNCHANGED <<up, cache, inflight, jobVars, stage, best, driving, workerVars,
                 client, parked>>

Starts(c, k) ==
  /\ up /\ client[c] = NoJob
  /\ ~Standing(k)
  /\ RunningFor(k) = NoJob
  /\ ~Paused(youtube, now)
  /\ nextJob \in Jobs
  /\ nextJob' = nextJob + 1
  /\ asked' = [asked EXCEPT ![nextJob] = k]
  /\ \E s \in {"lock", "permit"} :
       /\ s = "lock" => /\ \A j \in Jobs : stage[j] # "permit"
                        /\ Cardinality(PermitsTaken) < ProbePermits
       /\ stage' = [stage EXCEPT ![nextJob] = s]
  /\ inflight' = [inflight EXCEPT ![k] = nextJob]
  /\ driving' = driving \cup {nextJob}
  /\ client' = [client EXCEPT ![c] = nextJob]
  /\ UNCHANGED <<now, up, youtube, cache, best, workerVars, parked>>

Answered(c) ==
  /\ up /\ client[c] # NoJob
  /\ stage[client[c]] = "done"
  /\ client' = [client EXCEPT ![c] = NoJob]
  /\ UNCHANGED <<now, up, youtube, cache, inflight, jobVars, stage, best, driving,
                 workerVars, parked>>

(* The client goes away; the resolve goes on.                              *)
Leaves(c) ==
  /\ up /\ client[c] # NoJob
  /\ client' = [client EXCEPT ![c] = NoJob]
  /\ UNCHANGED <<now, up, youtube, cache, inflight, jobVars, stage, best, driving,
                 workerVars, parked>>

----------------------------------------------------------------------------
(* The shared future, polled by its detached driver.                       *)
PolledByClients(j) == \E c \in Clients : client[c] = j  \* faulty: no driver task
Polled(j) == up /\ j \in driving

GetsPermit(j) ==
  /\ stage[j] = "permit"
  /\ Polled(j)
  /\ \A h \in Jobs : stage[h] = "permit" => j <= h
  /\ Cardinality(PermitsTaken) < ProbePermits
  /\ stage' = [stage EXCEPT ![j] = "lock"]
  /\ UNCHANGED <<now, up, youtube, cache, inflight, jobVars, best, driving,
                 workerVars, client, parked>>

(* Worker::resolve once the mutex is ours: the resident process is started *)
(* if there is none, and asked.                                            *)
AsksWorker(j) ==
  /\ stage[j] = "lock"
  /\ Polled(j)
  /\ holder = NoJob
  /\ holder' = j
  /\ resident' = "up"
  /\ pipe' = Append(IF resident = "up" THEN pipe ELSE <<>>, asked[j])
  /\ stage' = [stage EXCEPT ![j] = "asking"]
  /\ UNCHANGED <<now, up, youtube, cache, inflight, jobVars, best, driving, client, parked>>

(* ... and when it cannot be started, or none is configured: the binary.   *)
WorkerUnavailable(j) ==
  /\ stage[j] = "lock"
  /\ Polled(j)
  /\ holder = NoJob
  /\ resident = "none"
  /\ stage' = [stage EXCEPT ![j] = "binary"]
  /\ UNCHANGED <<now, up, youtube, cache, inflight, jobVars, best, driving,
                 workerVars, client, parked>>

(* A reply is the next line of the pipe: it answers the oldest request.    *)
WorkerReplies(j, a, jitter) ==
  /\ stage[j] = "asking"
  /\ Polled(j)
  /\ a \in Found(Head(pipe)) \cup Refused(Head(pipe))
  /\ pipe' = Tail(pipe)
  /\ holder' = NoJob
  /\ Extracted(j, a, jitter)
  /\ UNCHANGED <<now, up, jobVars, driving, resident, client, parked>>

(* It died, answered rubbish or did not answer in ANSWER_TIMEOUT: it is    *)
(* killed, its pipe with it, and the binary is spawned.                    *)
LeftRunning == UNCHANGED <<resident, pipe>>  \* faulty: asked again, it answers the last request
Stopped == resident' = "none" /\ pipe' = <<>>

MutexKept(j) == holder' = holder  \* faulty: the lock outlives its holder
MutexReleased(j) == holder' = NoJob

WorkerLost(j) ==
  /\ stage[j] = "asking"
  /\ Polled(j)
  /\ Stopped
  /\ MutexReleased(j)
  /\ stage' = [stage EXCEPT ![j] = "binary"]
  /\ UNCHANGED <<now, up, youtube, cache, inflight, jobVars, best, driving, client, parked>>

BinaryAnswers(j, a, jitter) ==
  /\ stage[j] = "binary"
  /\ Polled(j)
  /\ a \in Found(asked[j]) \cup Refused(asked[j])
  /\ Extracted(j, a, jitter)
  /\ UNCHANGED <<now, up, jobVars, driving, workerVars, client, parked>>

(* refuses_its_end: a capped answer is worth one more extraction.          *)
Capped(j) ==
  /\ stage[j] = "check"
  /\ Polled(j)
  /\ stage' = [stage EXCEPT ![j] = "lock"]
  /\ UNCHANGED <<now, up, youtube, cache, inflight, jobVars, best, driving,
                 workerVars, client, parked>>

Settles(j, jitter) ==
  /\ stage[j] \in {"check", "recheck"}
  /\ Polled(j)
  /\ Ends(j, best[j], jitter)
  /\ UNCHANGED <<now, up, jobVars, driving, workerVars, client, parked>>

DriverEnds(j) ==
  /\ up /\ j \in driving
  /\ stage[j] = "done"
  /\ driving' = driving \ {j}
  /\ UNCHANGED <<now, up, youtube, cache, inflight, jobVars, stage, best,
                 workerVars, client, parked>>

(* reap_idle: takes the mutex, and lets a process nobody asks go.          *)
ReapIdle ==
  /\ up /\ holder = NoJob
  /\ resident = "up"
  /\ resident' = "none"
  /\ pipe' = <<>>
  /\ UNCHANGED <<now, up, youtube, cache, inflight, jobVars, stage, best, driving,
                 holder, client, parked>>

(* Downloads and searches meet the same pause.                             *)
ElsewhereThrottled(jitter) ==
  /\ up
  /\ youtube' = Trip(youtube, now, NoHint, jitter)
  /\ UNCHANGED <<now, up, cache, inflight, jobVars, stage, best, driving,
                 workerVars, client, parked>>

ElsewhereAnswered ==
  /\ up
  /\ youtube' = Clear(youtube)
  /\ UNCHANGED <<now, up, cache, inflight, jobVars, stage, best, driving,
                 workerVars, client, parked>>

----------------------------------------------------------------------------
(* The process goes, and with it all but the file.                         *)
Gone ==
  /\ up
  /\ up' = FALSE
  /\ youtube' = NotPaused
  /\ cache' = [k \in Keys |-> NoEntry]
  /\ inflight' = [k \in Keys |-> NoJob]
  /\ stage' = [j \in Jobs |-> IF stage[j] = "none" THEN "none" ELSE "done"]
  /\ best' = [j \in Jobs |-> NoAnswer]
  /\ driving' = {}
  /\ holder' = NoJob
  /\ resident' = "none"
  /\ pipe' = <<>>
  /\ client' = [c \in Clients |-> NoJob]
  /\ UNCHANGED <<now, jobVars>>

(* save_direct_cache, after worker.shutdown() has had the mutex: only      *)
(* answers, never refusals, and only what stands.                          *)
WorthParkingAll(k) == Standing(k)  \* faulty: refusals survive too
WorthParking(k) == Standing(k) /\ cache[k].answer.kind = "ok"

ShutsDown ==
  /\ holder = NoJob
  /\ Gone
  /\ parked' = [k \in Keys |-> IF WorthParking(k) THEN cache[k] ELSE NoEntry]

Crashes == Gone /\ UNCHANGED parked

(* load_direct_cache: what is still good by its own expiry.  The file      *)
(* stays, until the next park replaces it.                                 *)
StillGood(k) == parked[k].exp > now

Boots ==
  /\ ~up
  /\ up' = TRUE
  /\ cache' = [k \in Keys |-> IF StillGood(k) THEN parked[k] ELSE NoEntry]
  /\ UNCHANGED <<now, youtube, inflight, jobVars, stage, best, driving,
                 workerVars, client, parked>>

----------------------------------------------------------------------------
Answers == UNION {Found(k) \cup Refused(k) : k \in Keys}

ResolveStep(j) ==
  \/ GetsPermit(j) \/ AsksWorker(j) \/ WorkerUnavailable(j)
  \/ \E a \in Answers, jitter \in Jitters : WorkerReplies(j, a, jitter) \/ BinaryAnswers(j, a, jitter)
  \/ WorkerLost(j) \/ Capped(j)
  \/ \E jitter \in Jitters : Settles(j, jitter)
  \/ DriverEnds(j)

Next ==
  \/ Tick
  \/ \E c \in Clients, k \in Keys : Joins(c, k) \/ Starts(c, k)
  \/ \E c \in Clients, k \in Keys, jitter \in Jitters : Gated(c, k, jitter)
  \/ \E c \in Clients : Answered(c) \/ Leaves(c)
  \/ \E j \in Jobs : ResolveStep(j)
  \/ ReapIdle
  \/ \E jitter \in Jitters : ElsewhereThrottled(jitter)
  \/ ElsewhereAnswered
  \/ ShutsDown \/ Crashes \/ Boots

Spec == Init /\ [][Next]_vars

(* Tasks that can run are run, yt-dlp and the worker's answers have a      *)
(* timeout, and both semaphore and mutex are fair.                         *)
Fairness ==
  /\ \A c \in Clients : WF_vars(Answered(c))
  /\ \A j \in Jobs : WF_vars(ResolveStep(j))

FairSpec == Spec /\ Fairness

----------------------------------------------------------------------------
AnswerType == [kind : {"none", "ok"} \cup Refusals, of : Keys \cup {NoKey},
               expires : Nat, dated : BOOLEAN]

TypeOK ==
  /\ now \in 0 .. MaxNow
  /\ up \in BOOLEAN
  /\ youtube \in [until : Int, strikes : Nat]
  /\ cache \in [Keys -> [answer : AnswerType, exp : Nat]]
  /\ inflight \in [Keys -> Jobs \cup {NoJob}]
  /\ nextJob \in 1 .. MaxJobs + 1
  /\ stage \in [Jobs -> Stages]
  /\ asked \in [Jobs -> Keys \cup {NoKey}]
  /\ best \in [Jobs -> AnswerType]
  /\ driving \subseteq Jobs
  /\ holder \in Jobs \cup {NoJob}
  /\ resident \in {"none", "up"}
  /\ pipe \in Seq(Keys)
  /\ client \in [Clients -> Jobs \cup {NoJob}]
  /\ parked \in [Keys -> [answer : AnswerType, exp : Nat]]

(* Nobody is given another video's URLs: replies carry no id, so an answer  *)
(* belongs to its request only because the mutex spans the exchange and a  *)
(* worker that did not answer is killed with its pipe.                     *)
AnswersPaired ==
  /\ \A j \in Jobs : best[j] # NoAnswer => best[j].of = asked[j]
  /\ \A k \in Keys : /\ cache[k] # NoEntry => cache[k].answer.of = k
                     /\ parked[k] # NoEntry => parked[k].answer.of = k

(* What memory serves, fresh or parked across a restart, has more than     *)
(* EXPIRY_MARGIN_MS to live.                                               *)
UrlsOutliveMargin ==
  \A k \in Keys : up /\ Standing(k) /\ cache[k].answer.kind = "ok"
                     => now + Margin < cache[k].answer.expires

(* A throttle is about the box and is never remembered of a video; a       *)
(* refusal is never carried into the next process.                         *)
RefusalsStayPut ==
  \A k \in Keys : /\ cache[k].answer.kind # "throttled"
                  /\ parked[k].answer.kind \in {"none", "ok"}

MemoryServesGood == UrlsOutliveMargin /\ RefusalsStayPut

(* One resolve of a key at a time: whoever asks while it runs joins it, and *)
(* removing the entry at the end, with no generation to guard it, never    *)
(* removes another's.                                                      *)
OneFlight == INSTANCE SingleFlight WITH
  Keys <- Keys, Jobs <- Jobs, Limit <- MaxJobs,
  running <- {<<j, asked[j]>> : j \in Running}
OneResolvePerKey == OneFlight!Spec

(* A second extraction can only improve on an answer that plays.           *)
PlayableIsKept ==
  [][\A j \in Jobs : up' /\ best[j].kind = "ok" => best'[j].kind = "ok"]_vars

(* Every client that waits is answered, whoever leaves and however the     *)
(* worker fails: no resolve keeps its permit or the mutex.                 *)
ClientsAnswered == \A c \in Clients : client[c] # NoJob ~> client[c] = NoJob
=============================================================================
