---------------------------- MODULE Direct_proofs ----------------------------
(***************************************************************************)
(* Theorems about Direct, for every set of keys and clients and every      *)
(* value of the bounds.                                                    *)
(***************************************************************************)
EXTENDS Direct, FiniteSetTheorems, TLAPS

(* A resolve that was started is for a key, what it found is about that    *)
(* key, and it has playable URLs by the time it checks them.               *)
JobsFit ==
  \A j \in Jobs :
    /\ j >= nextJob => stage[j] = "none"
    /\ stage[j] = "none" => best[j] = NoAnswer
    /\ stage[j] # "none" => asked[j] \in Keys
    /\ best[j] # NoAnswer => best[j].of = asked[j]
    /\ stage[j] \in {"check", "recheck"} => best[j] # NoAnswer

(* The worker owes one reply to the resolve that holds its mutex, and to   *)
(* nobody else.                                                            *)
WorkerFits ==
  /\ \A j \in Jobs : stage[j] = "asking" <=> holder = j
  /\ pipe = IF holder = NoJob THEN <<>> ELSE <<asked[holder]>>

(* An entry is about its key and lapses a margin before its URLs do, or    *)
(* had lapsed when it was made.                                            *)
EntryFits(k, e, t) ==
  /\ e # NoEntry => e.answer.of = k
  /\ e.answer.kind = "ok" => e.exp + Margin = e.answer.expires \/ e.exp <= t
  /\ e.answer.kind # "throttled"

EntriesFit ==
  \A k \in Keys : /\ EntryFits(k, cache[k], now)
                  /\ EntryFits(k, parked[k], now)
                  /\ parked[k].answer.kind \in {"none", "ok"}

(* direct_inflight holds the resolves that run, each under its own key.    *)
FlightsFit ==
  /\ \A j \in Running : inflight[asked[j]] = j
  /\ \A k \in Keys : inflight[k] # NoJob => inflight[k] \in Running /\ asked[inflight[k]] = k

IInv == TypeOK /\ JobsFit /\ WorkerFits /\ EntriesFit /\ FlightsFit

USE DirectAssumption, BackoffAssumption DEF NoJob

----------------------------------------------------------------------------
(* Helpers.                                                                *)

LEMMA StageKinds ==
  /\ {"check", "recheck"} \subseteq Stages
  /\ Active \subseteq Stages
  /\ {"none", "permit", "done", "lock", "asking", "binary"} \subseteq Stages
  /\ "none" \notin Active /\ "done" \notin Active /\ "permit" \notin Active
BY DEF Stages, Active

(* A trip leaves a pause: whatever the window, jitter or hint.             *)
LEMMA TripType ==
  ASSUME NEW b \in [until : Int, strikes : Nat], NEW t \in Nat,
         NEW jitter \in Jitters
  PROVE  Trip(b, t, NoHint, jitter) \in [until : Int, strikes : Nat]
<1>1. ASSUME NEW s \in Nat PROVE WindowMs(s, jitter) \in Int
  <2>1. AtMost(s - 1, 20) \in Int
    BY DEF AtMost
  <2>2. 2 ^ AtMost(s - 1, 20) \in Int
    BY <2>1
  <2>3. AtMost(BaseMs * 2 ^ AtMost(s - 1, 20), CapMs) \in Int
    BY <2>2 DEF AtMost
  <2>4. jitter \in Int
    OBVIOUS
  <2> QED
    BY <2>3, <2>4 DEF WindowMs, AtMost
<1> QED
  BY <1>1 DEF Trip, TripEveryTime, NoHint, Paused

(* What yt-dlp says of a key is an answer about that key.                  *)
LEMMA SaidType ==
  ASSUME now \in Nat, NEW k \in Keys, NEW a \in Found(k) \cup Refused(k)
  PROVE  a \in AnswerType /\ a.of = k /\ a.kind # "none" /\ a # NoAnswer
<1>1. ASSUME NEW kind \in {"ok"} \cup Refusals, NEW exp \in Nat, NEW dated \in BOOLEAN,
             a = [kind |-> kind, of |-> k, expires |-> exp, dated |-> dated]
      PROVE  a \in AnswerType /\ a.of = k /\ a.kind # "none" /\ a # NoAnswer
  <2>1. a.of = k /\ a.kind = kind /\ kind # "none"
    BY <1>1 DEF Refusals
  <2>2. a \in AnswerType
    BY <1>1 DEF AnswerType
  <2> QED
    BY <2>1, <2>2 DEF NoAnswer
<1>2. CASE a \in Refused(k)
  <2>1. PICK kind \in Refusals :
          a = [kind |-> kind, of |-> k, expires |-> 0, dated |-> FALSE]
    BY <1>2 DEF Refused
  <2> QED
    BY <1>1, <2>1
<1>3. CASE a \in Found(k)
  <2>1. PICK life \in Lives \cup {UnknownLife}, dated \in BOOLEAN :
          a = [kind |-> "ok", of |-> k, expires |-> now + life, dated |-> dated]
    BY <1>3 DEF Found
  <2>2. now + life \in Nat
    OBVIOUS
  <2> QED
    BY <1>1, <2>1, <2>2
<1> QED
  BY <1>2, <1>3

LEMMA NoEntryFits ==
  /\ NoEntry \in [answer : AnswerType, exp : Nat]
  /\ \A k \in Keys, t \in Nat : EntryFits(k, NoEntry, t)
BY DEF NoEntry, NoAnswer, AnswerType, EntryFits

LEMMA NoAnswerType == NoAnswer \in AnswerType /\ NoAnswer.kind = "none"
BY DEF NoAnswer, AnswerType

(* How long an answer is remembered.                                       *)
LEMMA TtlType ==
  ASSUME now \in Nat, NEW a \in AnswerType
  PROVE  /\ Ttl(a) \in Nat
         /\ a.kind = "ok" => now + Ttl(a) + Margin = a.expires \/ Ttl(a) = 0
<1>1. a.expires \in Nat
  BY DEF AnswerType
<1> QED
  BY <1>1 DEF Ttl, Left

(* Making room drops answers and touches none.                             *)
LEMMA RoomThins ==
  ASSUME NEW map \in [Keys -> [answer : AnswerType, exp : Nat]]
  PROVE  /\ RoomForOne(map) \in [Keys -> [answer : AnswerType, exp : Nat]]
         /\ \A k \in Keys : RoomForOne(map)[k] \in {map[k], NoEntry}
<1> DEFINE live == [k \in Keys |-> IF map[k].exp > now THEN map[k] ELSE NoEntry]
           none == [k \in Keys |-> NoEntry]
<1>1. RoomForOne(map) = map \/ RoomForOne(map) = live \/ RoomForOne(map) = none
  BY DEF RoomForOne
<1>2. live \in [Keys -> [answer : AnswerType, exp : Nat]]
  BY NoEntryFits
<1>3. none \in [Keys -> [answer : AnswerType, exp : Nat]]
  BY NoEntryFits
<1>4. \A k \in Keys : live[k] \in {map[k], NoEntry} /\ none[k] = NoEntry
  OBVIOUS
<1> HIDE DEF live, none
<1> QED
  BY <1>1, <1>2, <1>3, <1>4

(* Remembering an answer about a key keeps the memory well made.           *)
LEMMA RememberKeeps ==
  ASSUME TypeOK, EntriesFit, NEW k \in Keys, NEW a \in AnswerType, a.of = k
  PROVE  /\ Remember(k, a) \in [Keys -> [answer : AnswerType, exp : Nat]]
         /\ \A i \in Keys : EntryFits(i, Remember(k, a)[i], now)
<1> DEFINE e == [answer |-> a, exp |-> now + Ttl(a)]
           room == RoomForOne(cache)
<1>1. /\ cache \in [Keys -> [answer : AnswerType, exp : Nat]] /\ now \in Nat
      /\ \A i \in Keys : EntryFits(i, cache[i], now)
  BY DEF TypeOK, EntriesFit
<1>2. CASE a.kind = "throttled"
  BY <1>1, <1>2 DEF Remember
<1>3. CASE a.kind # "throttled"
  <2>1. Remember(k, a) = [room EXCEPT ![k] = e]
    BY <1>3 DEF Remember
  <2>2. room \in [Keys -> [answer : AnswerType, exp : Nat]]
    BY <1>1, RoomThins
  <2>3. \A i \in Keys : room[i] \in {cache[i], NoEntry}
    BY <1>1, RoomThins
  <2>4. Ttl(a) \in Nat /\ (a.kind = "ok" => now + Ttl(a) + Margin = a.expires \/ Ttl(a) = 0)
    BY <1>1, TtlType
  <2>5. e \in [answer : AnswerType, exp : Nat] /\ e.answer = a /\ e.exp = now + Ttl(a)
    BY <1>1, <2>4
  <2>6. EntryFits(k, e, now)
    BY <1>1, <1>3, <2>4, <2>5 DEF EntryFits
  <2> HIDE DEF e, room
  <2>7. \A i \in Keys : EntryFits(i, room[i], now)
    BY <1>1, <2>3, NoEntryFits
  <2> QED
    BY <2>1, <2>2, <2>5, <2>6, <2>7
<1> QED
  BY <1>2, <1>3

(* Time does not spoil an entry.                                           *)
LEMMA EntryKeeps ==
  ASSUME NEW k \in Keys, NEW e \in [answer : AnswerType, exp : Nat],
         NEW t \in Nat, NEW u \in Nat, t <= u, EntryFits(k, e, t)
  PROVE  EntryFits(k, e, u)
BY DEF EntryFits

----------------------------------------------------------------------------
(* What the end of a shared future, and each extraction, leaves behind.    *)

(* The part of the types that a resolve disturbs.                          *)
ResolveTyped ==
  /\ youtube \in [until : Int, strikes : Nat]
  /\ cache \in [Keys -> [answer : AnswerType, exp : Nat]]
  /\ inflight \in [Keys -> Jobs \cup {NoJob}]
  /\ stage \in [Jobs -> Stages]
  /\ best \in [Jobs -> AnswerType]

LEMMA RunningStage == \A j \in Jobs : j \in Running <=> stage[j] \in Active \cup {"permit"}
BY DEF Running

LEMMA EndsKeep ==
  ASSUME IInv, NEW j \in Running, NEW a \in AnswerType, a.of = asked[j],
         NEW jitter \in Jitters, Ends(j, a, jitter), UNCHANGED <<now, nextJob, asked, parked>>
  PROVE  /\ stage' = [stage EXCEPT ![j] = "done"] /\ best' = [best EXCEPT ![j] = a]
         /\ ResolveTyped' /\ JobsFit' /\ EntriesFit' /\ FlightsFit'
<1>1. /\ j \in Jobs /\ stage[j] # "none" /\ asked[j] \in Keys
      /\ stage \in [Jobs -> Stages] /\ best \in [Jobs -> AnswerType]
      /\ inflight \in [Keys -> Jobs \cup {NoJob}]
      /\ asked' = asked /\ nextJob' = nextJob /\ now' = now
  BY StageKinds DEF Running, IInv, JobsFit, TypeOK
<1>2. /\ stage' = [stage EXCEPT ![j] = "done"]
      /\ best' = [best EXCEPT ![j] = a]
      /\ inflight' = [inflight EXCEPT ![asked[j]] = NoJob]
      /\ cache' = Remember(asked[j], a)
  BY DEF Ends
<1>3. youtube' \in [until : Int, strikes : Nat]
  <2>1. youtube \in [until : Int, strikes : Nat] /\ now \in Nat
    BY DEF IInv, TypeOK
  <2>2. youtube' \in {NotPaused, Trip(youtube, now, NoHint, jitter), youtube}
    BY DEF Ends, Clear
  <2>3. NotPaused \in [until : Int, strikes : Nat]
    BY DEF NotPaused
  <2>4. Trip(youtube, now, NoHint, jitter) \in [until : Int, strikes : Nat]
    BY <2>1, TripType
  <2> QED
    BY <2>1, <2>2, <2>3, <2>4
<1>4. /\ cache' \in [Keys -> [answer : AnswerType, exp : Nat]]
      /\ \A i \in Keys : EntryFits(i, cache'[i], now)
  BY <1>1, <1>2, RememberKeeps DEF IInv
<1>5. ResolveTyped'
  BY <1>1, <1>2, <1>3, <1>4, StageKinds DEF ResolveTyped
<1>6. JobsFit'
  BY <1>1, <1>2 DEF IInv, JobsFit
<1>7. EntriesFit'
  BY <1>1, <1>4 DEF IInv, EntriesFit, EntryFits
<1>8. FlightsFit'
  <2>1. Running' = Running \ {j}
    BY <1>1, <1>2, StageKinds DEF Running
  <2>2. \A i \in Running : inflight[asked[i]] = i /\ asked[i] \in Keys
    BY StageKinds DEF IInv, FlightsFit, JobsFit, Running
  <2>3. \A i \in Running' : asked[i] # asked[j]
    BY <2>1, <2>2
  <2>4. \A i \in Running' : inflight'[asked[i]] = i
    BY <1>1, <1>2, <2>1, <2>2, <2>3
  <2>5. ASSUME NEW k \in Keys, inflight'[k] # NoJob
        PROVE  inflight'[k] \in Running' /\ asked[inflight'[k]] = k
    <3>1. k # asked[j] /\ inflight'[k] = inflight[k]
      BY <1>1, <1>2, <2>5
    <3>2. inflight[k] \in Running /\ asked[inflight[k]] = k
      BY <2>5, <3>1 DEF IInv, FlightsFit
    <3> QED
      BY <2>1, <3>1, <3>2
  <2> QED
    BY <1>1, <2>4, <2>5 DEF FlightsFit
<1> QED
  BY <1>2, <1>5, <1>6, <1>7, <1>8

(* Moving a resolve on, short of its end, disturbs little.                 *)
LEMMA MovesKeep ==
  ASSUME IInv, NEW j \in Running, NEW s \in Active, NEW a \in AnswerType,
         a # NoAnswer => a.of = asked[j], s \in {"check", "recheck"} => a # NoAnswer,
         stage' = [stage EXCEPT ![j] = s], best' = [best EXCEPT ![j] = a],
         UNCHANGED <<now, nextJob, asked, parked, youtube, cache, inflight>>
  PROVE  ResolveTyped' /\ JobsFit' /\ EntriesFit' /\ FlightsFit'
<1>1. /\ j \in Jobs /\ stage[j] # "none" /\ s # "none" /\ s \in Stages
      /\ stage \in [Jobs -> Stages] /\ best \in [Jobs -> AnswerType]
  BY StageKinds DEF Running, IInv, TypeOK
<1>2. ResolveTyped'
  BY <1>1 DEF ResolveTyped, IInv, TypeOK
<1>3. JobsFit'
  BY <1>1 DEF IInv, JobsFit
<1>4. EntriesFit'
  BY DEF IInv, EntriesFit, EntryFits
<1>5. Running' = Running
  BY <1>1 DEF Running
<1>6. FlightsFit'
  BY <1>5 DEF IInv, FlightsFit
<1> QED
  BY <1>2, <1>3, <1>4, <1>6

LEMMA ExtractedKeeps ==
  ASSUME IInv, NEW j \in Jobs, stage[j] \in {"asking", "binary"},
         NEW a \in Found(asked[j]) \cup Refused(asked[j]), NEW jitter \in Jitters,
         Extracted(j, a, jitter), UNCHANGED <<now, nextJob, asked, parked>>
  PROVE  /\ \E s \in {"check", "recheck", "done"} : stage' = [stage EXCEPT ![j] = s]
         /\ ResolveTyped' /\ JobsFit' /\ EntriesFit' /\ FlightsFit'
<1>1. j \in Running /\ asked[j] \in Keys /\ now \in Nat /\ best[j] \in AnswerType
  BY DEF Running, Active, IInv, JobsFit, TypeOK
<1>2. a \in AnswerType /\ a.of = asked[j] /\ a # NoAnswer
  BY <1>1, SaidType
<1>3. CASE a.kind = "ok"
  <2>1. PICK s \in {"check", "recheck"} :
          stage' = [stage EXCEPT ![j] = s] /\ best' = [best EXCEPT ![j] = a]
    BY <1>3 DEF Extracted
  <2>2. UNCHANGED <<youtube, cache, inflight>>
    BY <1>3 DEF Extracted
  <2>3. s \in Active
    BY DEF Active
  <2> QED
    BY <1>1, <1>2, <2>1, <2>2, <2>3, MovesKeep
<1>4. CASE a.kind # "ok"
  <2> DEFINE f == FinalAnswer(j, a)
  <2>1. f \in AnswerType /\ f.of = asked[j]
    BY <1>1, <1>2 DEF FinalAnswer, IInv, JobsFit
  <2>2. Ends(j, f, jitter)
    BY <1>4 DEF Extracted
  <2> HIDE DEF f
  <2> QED
    BY <1>1, <2>1, <2>2, EndsKeep
<1> QED
  BY <1>3, <1>4

----------------------------------------------------------------------------
(* The invariant, one lemma per kind of step.                              *)

LEMMA InitOk == Init => IInv
<1> SUFFICES ASSUME Init PROVE IInv
  OBVIOUS
<1>1. TypeOK
  BY NoEntryFits, NoAnswerType, StageKinds DEF Init, TypeOK, NotPaused
<1>2. JobsFit /\ WorkerFits
  <2>1. JobsFit
    BY DEF Init, JobsFit
  <2>2. \A j \in Jobs : stage[j] = "none" /\ holder # j
    BY DEF Init, Jobs
  <2>3. WorkerFits
    BY <2>2 DEF Init, WorkerFits
  <2> QED
    BY <2>1, <2>3
<1>3. EntriesFit
  <2>1. NoEntry.answer.kind = "none"
    BY DEF NoEntry, NoAnswer
  <2> QED
    BY <2>1, NoEntryFits DEF Init, EntriesFit
<1>4. FlightsFit
  BY StageKinds DEF Init, FlightsFit, Running
<1> QED
  BY <1>1, <1>2, <1>3, <1>4 DEF IInv

(* Steps that touch no resolve, entry or flight.                           *)
LEMMA QuietStep ==
  ASSUME IInv, now' \in 0 .. MaxNow, now <= now', youtube' \in [until : Int, strikes : Nat],
         UNCHANGED <<cache, inflight, nextJob, stage, asked, best, parked>>
  PROVE  ResolveTyped' /\ JobsFit' /\ EntriesFit' /\ FlightsFit'
<1>1. ResolveTyped'
  BY DEF IInv, TypeOK, ResolveTyped
<1>2. JobsFit'
  BY DEF IInv, JobsFit
<1>3. FlightsFit'
  BY DEF IInv, FlightsFit, Running
<1>4. EntriesFit'
  <2>1. ASSUME NEW k \in Keys PROVE EntryFits(k, cache[k], now') /\ EntryFits(k, parked[k], now')
    <3>1. /\ cache[k] \in [answer : AnswerType, exp : Nat]
          /\ parked[k] \in [answer : AnswerType, exp : Nat] /\ now \in Nat
      BY DEF IInv, TypeOK
    <3>2. EntryFits(k, cache[k], now) /\ EntryFits(k, parked[k], now)
      BY DEF IInv, EntriesFit
    <3> QED
      BY <3>1, <3>2, EntryKeeps
  <2> QED
    BY <2>1 DEF IInv, EntriesFit
<1> QED
  BY <1>1, <1>2, <1>3, <1>4

LEMMA ClientStep ==
  ASSUME IInv, NEW c \in Clients,
         \/ \E k \in Keys : Joins(c, k) \/ \E jitter \in Jitters : Gated(c, k, jitter)
         \/ Answered(c) \/ Leaves(c)
  PROVE  IInv'
<1>1. /\ now' \in 0 .. MaxNow /\ now <= now' /\ youtube' \in [until : Int, strikes : Nat]
      /\ client' \in [Clients -> Jobs \cup {NoJob}]
      /\ UNCHANGED <<up, cache, inflight, nextJob, stage, asked, best, driving,
                     holder, resident, pipe, parked>>
  <2>1. ASSUME NEW k \in Keys, Joins(c, k) PROVE <1>1!:
    BY <2>1 DEF Joins, RunningFor, IInv, TypeOK, jobVars, workerVars
  <2>2. ASSUME NEW k \in Keys, NEW jitter \in Jitters, Gated(c, k, jitter) PROVE <1>1!:
    <3>1. now' \in 0 .. MaxNow /\ now <= now' /\ now' \in Nat
      BY <2>2 DEF Gated, AtMost, IInv, TypeOK
    <3>2. youtube' \in [until : Int, strikes : Nat]
      BY <2>2, <3>1, TripType DEF Gated, IInv, TypeOK
    <3> QED
      BY <2>2, <3>1, <3>2 DEF Gated, IInv, TypeOK, jobVars, workerVars
  <2>3. CASE Answered(c)
    BY <2>3 DEF Answered, IInv, TypeOK, jobVars, workerVars
  <2>4. CASE Leaves(c)
    BY <2>4 DEF Leaves, IInv, TypeOK, jobVars, workerVars
  <2> QED
    BY <2>1, <2>2, <2>3, <2>4
<1>2. ResolveTyped' /\ JobsFit' /\ EntriesFit' /\ FlightsFit'
  BY <1>1, QuietStep
<1>3. TypeOK'
  BY <1>1, <1>2 DEF IInv, TypeOK, ResolveTyped
<1>4. WorkerFits'
  BY <1>1 DEF IInv, WorkerFits
<1> QED
  BY <1>2, <1>3, <1>4 DEF IInv

LEMMA StartStep == ASSUME IInv, NEW c \in Clients, NEW k \in Keys, Starts(c, k) PROVE IInv'
<1> DEFINE j == nextJob
<1>1. /\ j \in Jobs /\ stage[j] = "none" /\ best[j] = NoAnswer /\ inflight[k] = NoJob
      /\ stage \in [Jobs -> Stages] /\ asked \in [Jobs -> Keys \cup {NoKey}]
      /\ inflight \in [Keys -> Jobs \cup {NoJob}] /\ j \in Nat
  BY DEF Starts, RunningFor, IInv, JobsFit, TypeOK, Jobs
<1>2. PICK s \in {"lock", "permit"} : stage' = [stage EXCEPT ![j] = s]
  BY DEF Starts
<1>3. /\ nextJob' = j + 1
      /\ asked' = [asked EXCEPT ![j] = k]
      /\ inflight' = [inflight EXCEPT ![k] = j]
      /\ driving' = driving \cup {j}
      /\ client' = [client EXCEPT ![c] = j]
      /\ UNCHANGED <<now, up, youtube, cache, best, holder, resident, pipe, parked>>
  BY DEF Starts, workerVars
<1> HIDE DEF j
<1>4. s \in Stages /\ s # "none" /\ s # "asking" /\ s \notin {"check", "recheck"}
      /\ s \in Active \cup {"permit"}
  BY StageKinds DEF Active
<1>5. TypeOK'
  <2>1. nextJob' \in 1 .. MaxJobs + 1
    BY <1>1, <1>3 DEF Jobs
  <2> QED
    BY <1>1, <1>2, <1>3, <1>4, <2>1 DEF IInv, TypeOK
<1>6. JobsFit'
  <2>1. \A i \in Jobs : i >= nextJob' => i # j /\ i >= nextJob
    BY <1>1, <1>3 DEF j, Jobs
  <2> QED
    BY <1>1, <1>2, <1>3, <1>4, <2>1 DEF IInv, JobsFit
<1>7. WorkerFits'
  <2>1. holder # j
    BY <1>1 DEF IInv, WorkerFits
  <2>2. holder # NoJob => asked'[holder] = asked[holder]
    BY <1>1, <1>3, <2>1 DEF IInv, TypeOK
  <2>3. \A i \in Jobs : stage'[i] = "asking" <=> holder = i
    BY <1>1, <1>2, <1>4, <2>1 DEF IInv, WorkerFits
  <2> QED
    BY <1>3, <2>2, <2>3 DEF IInv, WorkerFits
<1>8. EntriesFit'
  BY <1>3 DEF IInv, EntriesFit, EntryFits
<1>9. FlightsFit'
  <2>1. Running' = Running \cup {j} /\ j \notin Running
    BY <1>1, <1>2, <1>4, StageKinds DEF Running
  <2>2. \A i \in Running : asked'[i] = asked[i] /\ inflight[asked[i]] = i /\ asked[i] \in Keys
    BY <1>1, <1>3, <2>1, StageKinds DEF IInv, FlightsFit, JobsFit, Running
  <2>3. \A i \in Running : asked[i] # k
    BY <1>1, <2>2 DEF Running, Jobs
  <2>4. asked'[j] = k /\ inflight'[k] = j
    BY <1>1, <1>3
  <2>5. \A i \in Running : inflight'[asked[i]] = i
    BY <1>1, <1>3, <2>2, <2>3
  <2>6. \A h \in Keys : h # k => inflight'[h] = inflight[h]
    BY <1>1, <1>3
  <2>7. \A h \in Keys : inflight[h] # NoJob => inflight[h] \in Running /\ asked[inflight[h]] = h
    BY DEF IInv, FlightsFit
  <2>8. \A i \in Running' : inflight'[asked'[i]] = i
    BY <2>1, <2>2, <2>4, <2>5
  <2>9. \A h \in Keys : inflight'[h] # NoJob => inflight'[h] \in Running' /\ asked'[inflight'[h]] = h
    BY <2>1, <2>2, <2>4, <2>6, <2>7
  <2> QED
    BY <2>8, <2>9 DEF FlightsFit
<1> QED
  BY <1>5, <1>6, <1>7, <1>8, <1>9 DEF IInv

(* Steps of a resolve that leave its answer and everybody else's alone.    *)
LEMMA QueueStep ==
  ASSUME IInv, NEW j \in Jobs,
         GetsPermit(j) \/ AsksWorker(j) \/ WorkerUnavailable(j) \/ WorkerLost(j) \/ Capped(j)
  PROVE  IInv'
<1>1. /\ j \in Running /\ best[j] \in AnswerType /\ stage[j] # "none" /\ asked[j] \in Keys
      /\ best[j] # NoAnswer => best[j].of = asked[j]
      /\ stage \in [Jobs -> Stages] /\ best \in [Jobs -> AnswerType]
  BY DEF GetsPermit, AsksWorker, WorkerUnavailable, WorkerLost, Capped, Running, Active, IInv,
     JobsFit, TypeOK
<1>2. /\ best' = [best EXCEPT ![j] = best[j]]
      /\ UNCHANGED <<now, up, nextJob, asked, parked, youtube, cache, inflight, driving, client>>
  BY <1>1 DEF GetsPermit, AsksWorker, WorkerUnavailable, WorkerLost, Capped, jobVars
<1>3. ASSUME NEW s \in {"lock", "asking", "binary"}, stage' = [stage EXCEPT ![j] = s]
      PROVE  ResolveTyped' /\ JobsFit' /\ EntriesFit' /\ FlightsFit'
  <2>1. s \in Active /\ s \notin {"check", "recheck"}
    BY DEF Active
  <2> QED
    BY <1>1, <1>2, <1>3, <2>1, MovesKeep
<1>4. ASSUME NEW s \in {"lock", "asking", "binary"}, stage' = [stage EXCEPT ![j] = s],
             WorkerFits', holder' \in Jobs \cup {NoJob}, resident' \in {"none", "up"},
             pipe' \in Seq(Keys)
      PROVE  IInv'
  <2>1. ResolveTyped' /\ JobsFit' /\ EntriesFit' /\ FlightsFit'
    BY <1>3, <1>4
  <2>2. TypeOK'
    BY <1>2, <1>4, <2>1 DEF IInv, TypeOK, ResolveTyped
  <2> QED
    BY <1>4, <2>1, <2>2 DEF IInv
<1>5. /\ holder \in Jobs \cup {NoJob} /\ resident \in {"none", "up"} /\ pipe \in Seq(Keys)
      /\ \A i \in Jobs : stage[i] = "asking" <=> holder = i
      /\ pipe = IF holder = NoJob THEN <<>> ELSE <<asked[holder]>>
      /\ NoJob \notin Jobs
  BY DEF IInv, TypeOK, WorkerFits, Jobs
<1>6. CASE GetsPermit(j) \/ WorkerUnavailable(j) \/ Capped(j)
  <2>1. PICK s \in {"lock", "binary"} : stage' = [stage EXCEPT ![j] = s]
    BY <1>6 DEF GetsPermit, WorkerUnavailable, Capped
  <2>2. stage[j] # "asking" /\ UNCHANGED <<holder, resident, pipe>>
    BY <1>6 DEF GetsPermit, WorkerUnavailable, Capped, workerVars
  <2>3. WorkerFits'
    BY <1>1, <1>2, <1>5, <2>1, <2>2 DEF WorkerFits
  <2> QED
    BY <1>4, <1>5, <2>1, <2>2, <2>3
<1>7. CASE AsksWorker(j)
  <2>1. /\ stage' = [stage EXCEPT ![j] = "asking"] /\ holder = NoJob /\ holder' = j
        /\ resident' = "up"
        /\ pipe' = Append(IF resident = "up" THEN pipe ELSE <<>>, asked[j])
    BY <1>7 DEF AsksWorker
  <2>2. pipe = <<>> /\ pipe' = <<asked[j]>>
    BY <1>5, <2>1
  <2>3. WorkerFits'
    BY <1>1, <1>2, <1>5, <2>1, <2>2 DEF WorkerFits
  <2> QED
    BY <1>1, <1>4, <2>1, <2>2, <2>3
<1>8. CASE WorkerLost(j)
  <2>1. /\ stage' = [stage EXCEPT ![j] = "binary"] /\ holder' = NoJob
        /\ resident' = "none" /\ pipe' = <<>> /\ stage[j] = "asking"
    BY <1>8 DEF WorkerLost, Stopped, MutexReleased
  <2>2. \A i \in Jobs : stage[i] = "asking" => i = j
    BY <1>5, <2>1
  <2>3. WorkerFits'
    BY <1>1, <1>5, <2>1, <2>2 DEF WorkerFits
  <2>4. <<>> \in Seq(Keys)
    OBVIOUS
  <2> QED
    BY <1>4, <2>1, <2>3, <2>4
<1> QED
  BY <1>6, <1>7, <1>8

(* Steps at which an answer arrives or is settled on.                      *)
LEMMA AnswerStep ==
  ASSUME IInv, NEW j \in Jobs, NEW a \in Answers, NEW jitter \in Jitters,
         WorkerReplies(j, a, jitter) \/ BinaryAnswers(j, a, jitter) \/ Settles(j, jitter)
  PROVE  IInv'
<1>1. /\ j \in Running /\ asked[j] \in Keys /\ best[j] \in AnswerType
      /\ stage \in [Jobs -> Stages] /\ holder \in Jobs \cup {NoJob}
      /\ UNCHANGED <<now, up, nextJob, asked, parked, driving, client>>
  BY DEF WorkerReplies, BinaryAnswers, Settles, Running, Active, IInv, JobsFit, TypeOK, jobVars
<1>2. /\ \A i \in Jobs : stage[i] = "asking" <=> holder = i
      /\ pipe = IF holder = NoJob THEN <<>> ELSE <<asked[holder]>>
      /\ NoJob \notin Jobs /\ resident \in {"none", "up"} /\ pipe \in Seq(Keys)
  BY DEF IInv, WorkerFits, Jobs, TypeOK
<1>3. /\ \E s \in {"check", "recheck", "done"} : stage' = [stage EXCEPT ![j] = s]
      /\ ResolveTyped' /\ JobsFit' /\ EntriesFit' /\ FlightsFit'
  <2>1. CASE WorkerReplies(j, a, jitter)
    <3>1. holder = j /\ pipe = <<asked[j]>> /\ stage[j] = "asking"
      BY <1>2, <2>1 DEF WorkerReplies
    <3>2. Head(pipe) = asked[j]
      BY <3>1
    <3> QED
      BY <1>1, <2>1, <3>1, <3>2, ExtractedKeeps DEF WorkerReplies
  <2>2. CASE BinaryAnswers(j, a, jitter)
    BY <1>1, <2>2, ExtractedKeeps DEF BinaryAnswers
  <2>3. CASE Settles(j, jitter)
    <3>1. best[j].of = asked[j] /\ Ends(j, best[j], jitter)
      BY <2>3 DEF Settles, IInv, JobsFit
    <3> QED
      BY <1>1, <3>1, EndsKeep
  <2> QED
    BY <2>1, <2>2, <2>3
<1>4. PICK s \in {"check", "recheck", "done"} : stage' = [stage EXCEPT ![j] = s]
  BY <1>3
<1>5. /\ WorkerFits' /\ holder' \in Jobs \cup {NoJob} /\ pipe' \in Seq(Keys)
      /\ resident' \in {"none", "up"}
  <2>1. CASE WorkerReplies(j, a, jitter)
    <3>1. holder = j /\ pipe = <<asked[j]>> /\ stage[j] = "asking" /\ holder' = NoJob
          /\ pipe' = Tail(pipe) /\ resident' = resident
      BY <1>2, <2>1 DEF WorkerReplies
    <3>2. pipe' = <<>>
      BY <3>1
    <3>3. \A i \in Jobs : stage[i] = "asking" => i = j
      BY <1>2, <3>1
    <3>4. WorkerFits'
      BY <1>1, <1>2, <1>4, <3>1, <3>2, <3>3 DEF WorkerFits
    <3> QED
      BY <1>2, <3>1, <3>2, <3>4
  <2>2. CASE BinaryAnswers(j, a, jitter) \/ Settles(j, jitter)
    <3>1. stage[j] # "asking" /\ UNCHANGED <<holder, resident, pipe>>
      BY <2>2 DEF BinaryAnswers, Settles, workerVars
    <3>2. WorkerFits'
      BY <1>1, <1>2, <1>4, <3>1 DEF WorkerFits
    <3> QED
      BY <1>1, <1>2, <3>1, <3>2
  <2> QED
    BY <2>1, <2>2
<1>6. TypeOK'
  BY <1>1, <1>3, <1>5 DEF IInv, TypeOK, ResolveTyped
<1> QED
  BY <1>3, <1>5, <1>6 DEF IInv

(* The clock, the pause met elsewhere, a driver that is done and the idle  *)
(* worker that is let go.                                                  *)
LEMMA AsideStep ==
  ASSUME IInv,
         \/ Tick \/ ReapIdle \/ ElsewhereAnswered
         \/ \E jitter \in Jitters : ElsewhereThrottled(jitter)
         \/ \E j \in Jobs : DriverEnds(j)
  PROVE  IInv'
<1>1. /\ now \in 0 .. MaxNow /\ youtube \in [until : Int, strikes : Nat]
      /\ holder \in Jobs \cup {NoJob} /\ pipe \in Seq(Keys) /\ driving \subseteq Jobs
      /\ resident \in {"none", "up"}
      /\ pipe = IF holder = NoJob THEN <<>> ELSE <<asked[holder]>>
  BY DEF IInv, TypeOK, WorkerFits
<1>2. /\ now' \in 0 .. MaxNow /\ now <= now' /\ youtube' \in [until : Int, strikes : Nat]
      /\ driving' \subseteq Jobs /\ resident' \in {"none", "up"}
      /\ UNCHANGED <<up, cache, inflight, nextJob, stage, asked, best, holder, pipe, client,
                     parked>>
  <2>1. CASE Tick
    BY <1>1, <2>1 DEF Tick, jobVars, workerVars
  <2>2. CASE ReapIdle
    BY <1>1, <2>2 DEF ReapIdle, jobVars
  <2>3. CASE ElsewhereAnswered
    BY <1>1, <2>3 DEF ElsewhereAnswered, Clear, NotPaused, jobVars, workerVars
  <2>4. ASSUME NEW jitter \in Jitters, ElsewhereThrottled(jitter) PROVE <1>2!:
    <3>1. youtube' \in [until : Int, strikes : Nat]
      BY <1>1, <2>4, TripType DEF ElsewhereThrottled
    <3> QED
      BY <1>1, <2>4, <3>1 DEF ElsewhereThrottled, jobVars, workerVars
  <2>5. ASSUME NEW j \in Jobs, DriverEnds(j) PROVE <1>2!:
    BY <1>1, <2>5 DEF DriverEnds, jobVars, workerVars
  <2> QED
    BY <2>1, <2>2, <2>3, <2>4, <2>5
<1>3. ResolveTyped' /\ JobsFit' /\ EntriesFit' /\ FlightsFit'
  BY <1>2, QuietStep
<1>4. TypeOK'
  BY <1>2, <1>3 DEF IInv, TypeOK, ResolveTyped
<1>5. WorkerFits'
  BY <1>2 DEF IInv, WorkerFits
<1> QED
  BY <1>3, <1>4, <1>5 DEF IInv

LEMMA GoneStep == ASSUME IInv, ShutsDown \/ Crashes PROVE IInv'
<1>1. /\ Gone /\ parked' \in [Keys -> [answer : AnswerType, exp : Nat]]
      /\ \A k \in Keys : /\ EntryFits(k, parked'[k], now)
                        /\ parked'[k].answer.kind \in {"none", "ok"}
  <2>1. CASE ShutsDown
    <3>1. \A k \in Keys : /\ parked'[k] = IF WorthParking(k) THEN cache[k] ELSE NoEntry
                         /\ cache[k] \in [answer : AnswerType, exp : Nat]
                         /\ EntryFits(k, cache[k], now)
      BY <2>1 DEF ShutsDown, IInv, TypeOK, EntriesFit
    <3>2. parked' = [k \in Keys |-> IF WorthParking(k) THEN cache[k] ELSE NoEntry]
      BY <2>1 DEF ShutsDown
    <3>3. NoEntry.answer.kind = "none" /\ now \in Nat
      BY DEF NoEntry, NoAnswer, IInv, TypeOK
    <3> QED
      BY <2>1, <3>1, <3>2, <3>3, NoEntryFits DEF ShutsDown, WorthParking
  <2>2. CASE Crashes
    BY <2>2 DEF Crashes, IInv, TypeOK, EntriesFit
  <2> QED
    BY <2>1, <2>2
<1>2. /\ up' = FALSE /\ youtube' = NotPaused
      /\ cache' = [k \in Keys |-> NoEntry] /\ inflight' = [k \in Keys |-> NoJob]
      /\ stage' = [j \in Jobs |-> IF stage[j] = "none" THEN "none" ELSE "done"]
      /\ best' = [j \in Jobs |-> NoAnswer] /\ driving' = {} /\ holder' = NoJob
      /\ resident' = "none" /\ pipe' = <<>> /\ client' = [c \in Clients |-> NoJob]
      /\ now' = now /\ nextJob' = nextJob /\ asked' = asked
  BY <1>1 DEF Gone, jobVars
<1>3. TypeOK'
  <2>1. /\ youtube' \in [until : Int, strikes : Nat] /\ pipe' \in Seq(Keys)
        /\ client' \in [Clients -> Jobs \cup {NoJob}]
    BY <1>2 DEF NotPaused
  <2>2. cache' \in [Keys -> [answer : AnswerType, exp : Nat]] /\ best' \in [Jobs -> AnswerType]
    BY <1>2, NoEntryFits, NoAnswerType
  <2>3. stage' \in [Jobs -> Stages]
    BY <1>2, StageKinds
  <2> QED
    BY <1>1, <1>2, <2>1, <2>2, <2>3 DEF IInv, TypeOK
<1>4. JobsFit'
  BY <1>2 DEF IInv, JobsFit
<1>5. WorkerFits'
  BY <1>2 DEF WorkerFits, Jobs
<1>6. EntriesFit'
  <2>1. \A k \in Keys : EntryFits(k, cache'[k], now)
    BY <1>2, NoEntryFits DEF IInv, TypeOK
  <2> QED
    BY <1>1, <1>2, <2>1 DEF EntriesFit
<1>7. FlightsFit'
  <2>1. Running' = {}
    BY <1>2, StageKinds DEF Running
  <2> QED
    BY <1>2, <2>1 DEF FlightsFit
<1> QED
  BY <1>3, <1>4, <1>5, <1>6, <1>7 DEF IInv

LEMMA BootStep == ASSUME IInv, Boots PROVE IInv'
<1>1. /\ cache' = [k \in Keys |-> IF StillGood(k) THEN parked[k] ELSE NoEntry]
      /\ up' = TRUE
      /\ UNCHANGED <<now, youtube, inflight, nextJob, asked, stage, best, driving, holder,
                     resident, pipe, client, parked>>
  BY DEF Boots, jobVars, workerVars
<1>2. TypeOK'
  <2>1. cache' \in [Keys -> [answer : AnswerType, exp : Nat]]
    BY <1>1, NoEntryFits DEF IInv, TypeOK
  <2> QED
    BY <1>1, <2>1 DEF IInv, TypeOK
<1>3. JobsFit' /\ WorkerFits'
  BY <1>1 DEF IInv, JobsFit, WorkerFits
<1>4. FlightsFit'
  BY <1>1 DEF IInv, FlightsFit, Running
<1>5. EntriesFit'
  <2>1. \A k \in Keys : EntryFits(k, cache'[k], now)
    BY <1>1, NoEntryFits DEF IInv, TypeOK, EntriesFit
  <2> QED
    BY <1>1, <2>1 DEF IInv, EntriesFit
<1> QED
  BY <1>2, <1>3, <1>4, <1>5 DEF IInv

LEMMA StutterStep == ASSUME IInv, UNCHANGED vars PROVE IInv'
<1>1. UNCHANGED <<now, up, youtube, cache, inflight, nextJob, asked, stage, best, driving,
                  holder, resident, pipe, client, parked>>
  BY DEF vars
<1> QED
  BY <1>1 DEF IInv, TypeOK, JobsFit, WorkerFits, EntriesFit, EntryFits, FlightsFit, Running

LEMMA StepKeeps == IInv /\ [Next]_vars => IInv'
<1> SUFFICES ASSUME IInv, [Next]_vars PROVE IInv'
  OBVIOUS
<1>1. ASSUME NEW j \in Jobs, ResolveStep(j) PROVE IInv'
  <2>1. Answers # {} => \A jitter \in Jitters : Settles(j, jitter) => IInv'
    BY AnswerStep
  <2>2. ASSUME NEW jitter \in Jitters, Settles(j, jitter) PROVE IInv'
    <3>1. j \in Jobs /\ stage[j] # "none"
      BY <2>2 DEF Settles
    <3>2. asked[j] \in Keys
      BY <3>1 DEF IInv, JobsFit
    <3>3. Refused(asked[j]) # {}
      BY DEF Refused, Refusals
    <3> QED
      BY <2>1, <2>2, <3>2, <3>3 DEF Answers
  <2> QED
    BY <1>1, <2>2, QueueStep, AnswerStep, AsideStep DEF ResolveStep
<1>2. ASSUME NEW c \in Clients, NEW k \in Keys, Starts(c, k) PROVE IInv'
  BY <1>2, StartStep
<1>3. ASSUME NEW c \in Clients,
             \/ \E k \in Keys : Joins(c, k) \/ \E jitter \in Jitters : Gated(c, k, jitter)
             \/ Answered(c) \/ Leaves(c)
      PROVE  IInv'
  BY <1>3, ClientStep
<1>4. CASE Tick \/ ReapIdle \/ ElsewhereAnswered
           \/ \E jitter \in Jitters : ElsewhereThrottled(jitter)
  BY <1>4, AsideStep
<1>5. CASE ShutsDown \/ Crashes
  BY <1>5, GoneStep
<1>6. CASE Boots
  BY <1>6, BootStep
<1>7. CASE UNCHANGED vars
  BY <1>7, StutterStep
<1> QED
  BY <1>1, <1>2, <1>3, <1>4, <1>5, <1>6, <1>7 DEF Next

(* The invariant the safety properties rest on.                            *)
THEOREM Invariant == Spec => []IInv
<1> QED
  BY InitOk, StepKeeps, PTL DEF Spec

----------------------------------------------------------------------------
(* Every variable keeps to its type.                                       *)
THEOREM TypeCorrect == Spec => []TypeOK
<1>1. IInv => TypeOK
  BY DEF IInv
<1> QED
  BY <1>1, Invariant, PTL

(* Nobody is ever given another video's URLs: one exchange at a time over  *)
(* a pipe whose replies carry no id.                                       *)
THEOREM Paired == Spec => []AnswersPaired
<1>1. IInv => AnswersPaired
  BY DEF IInv, JobsFit, EntriesFit, EntryFits, AnswersPaired
<1> QED
  BY <1>1, Invariant, PTL

(* What memory serves has more than the margin to live, and it remembers   *)
(* no throttle and carries no refusal into the next process.               *)
THEOREM ServesGood == Spec => []MemoryServesGood
<1>1. IInv => UrlsOutliveMargin
  <2> SUFFICES ASSUME IInv, NEW k \in Keys, Standing(k), cache[k].answer.kind = "ok"
               PROVE  now + Margin < cache[k].answer.expires
    BY DEF UrlsOutliveMargin
  <2>1. cache[k].exp \in Nat /\ cache[k].answer.expires \in Nat /\ now \in Nat
    BY DEF IInv, TypeOK, AnswerType
  <2>2. cache[k].exp + Margin = cache[k].answer.expires \/ cache[k].exp <= now
    BY DEF IInv, EntriesFit, EntryFits
  <2> QED
    BY <2>1, <2>2 DEF Standing
<1>2. IInv => RefusalsStayPut
  BY DEF IInv, EntriesFit, EntryFits, RefusalsStayPut
<1> QED
  BY <1>1, <1>2, Invariant, PTL DEF MemoryServesGood

(* A second extraction never takes back what the first found.              *)
THEOREM Playable == Spec => PlayableIsKept
<1> DEFINE Kept == \A j \in Jobs : up' /\ best[j].kind = "ok" => best'[j].kind = "ok"
<1>1. ASSUME IInv, [Next]_vars PROVE Kept
  <2>1. ASSUME UNCHANGED best PROVE Kept
    BY <2>1
  <2>2. ASSUME NEW i \in Jobs, NEW a, best[i].kind = "ok" => a.kind = "ok",
               best' = [best EXCEPT ![i] = a]
        PROVE  Kept
    BY <1>1, <2>2 DEF IInv, TypeOK
  <2>3. ASSUME NEW i \in Jobs, NEW a, NEW jitter, Extracted(i, a, jitter) PROVE Kept
    <3>1. CASE a.kind = "ok"
      BY <2>2, <2>3, <3>1 DEF Extracted
    <3>2. CASE a.kind # "ok"
      <4>1. best[i].kind = "ok" => FinalAnswer(i, a).kind = "ok"
        BY NoAnswerType DEF FinalAnswer
      <4>2. best' = [best EXCEPT ![i] = FinalAnswer(i, a)]
        BY <2>3, <3>2 DEF Extracted, Ends
      <4> QED
        BY <2>2, <4>1, <4>2
    <3> QED
      BY <3>1, <3>2
  <2>4. ASSUME NEW i \in Jobs, NEW jitter, Settles(i, jitter) PROVE Kept
    BY <1>1, <2>1, <2>4 DEF Settles, Ends, IInv, TypeOK
  <2>5. ASSUME NEW i \in Jobs, ResolveStep(i) PROVE Kept
    <3>1. CASE \/ GetsPermit(i) \/ AsksWorker(i) \/ WorkerUnavailable(i) \/ WorkerLost(i)
               \/ Capped(i) \/ DriverEnds(i)
      BY <2>1, <3>1 DEF GetsPermit, AsksWorker, WorkerUnavailable, WorkerLost, Capped, DriverEnds
    <3>2. ASSUME NEW a, NEW jitter, WorkerReplies(i, a, jitter) \/ BinaryAnswers(i, a, jitter)
          PROVE  Kept
      BY <2>3, <3>2 DEF WorkerReplies, BinaryAnswers
    <3> HIDE DEF Kept
    <3> QED
      BY <2>4, <2>5, <3>1, <3>2 DEF ResolveStep
  <2>6. CASE \/ \E c \in Clients, k \in Keys : \/ Joins(c, k) \/ Starts(c, k)
                                               \/ \E jitter \in Jitters : Gated(c, k, jitter)
             \/ \E c \in Clients : Answered(c) \/ Leaves(c)
    BY <2>1, <2>6 DEF Joins, Starts, Gated, Answered, Leaves
  <2>7. CASE Tick \/ ReapIdle \/ ElsewhereAnswered \/ Boots \/ UNCHANGED vars
             \/ \E jitter \in Jitters : ElsewhereThrottled(jitter)
    BY <2>1, <2>7 DEF Tick, ReapIdle, ElsewhereAnswered, Boots, vars, ElsewhereThrottled
  <2>8. CASE ShutsDown \/ Crashes
    BY <2>8 DEF ShutsDown, Crashes, Gone
  <2> HIDE DEF Kept
  <2> QED
    BY <1>1, <2>5, <2>6, <2>7, <2>8 DEF Next
<1> QED
  BY <1>1, Invariant, PTL DEF Spec, PlayableIsKept

----------------------------------------------------------------------------
(* At most one resolve of a key: every step of Direct is a start, an end,  *)
(* the loss of everything or nothing at all of SingleFlight.               *)

Pairs == {<<j, asked[j]>> : j \in Running}

(* SingleFlight counts as this module does.                                *)
LEMMA SameCardinality == OneFlight!Cardinality(Pairs) = Cardinality(Pairs)
BY DEF OneFlight!Cardinality, Cardinality, OneFlight!IsFiniteSet, IsFiniteSet

(* While one more may start, fewer run than may ever start.                *)
LEMMA RoomToStart ==
  ASSUME IInv, nextJob \in Jobs
  PROVE  Cardinality(Pairs) < MaxJobs
<1> DEFINE Earlier == 1 .. nextJob - 1
           f == [r \in Pairs |-> r[1]]
<1>1. nextJob \in Nat /\ 1 <= nextJob /\ nextJob <= MaxJobs /\ nextJob - 1 \in Int
  BY DEF Jobs
<1>2. IsFiniteSet(Earlier) /\ Cardinality(Earlier) = nextJob - 1
  BY <1>1, FS_Interval
<1>3. Running \subseteq Earlier
  <2>1. \A j \in Running : ~(j >= nextJob) /\ j \in Jobs
    BY StageKinds DEF Running, IInv, JobsFit
  <2> QED
    BY <1>1, <2>1 DEF Jobs
<1>4. f \in Injection(Pairs, Earlier)
  <2>1. f \in [Pairs -> Earlier]
    BY <1>3 DEF Pairs
  <2>2. \A a, b \in Pairs : f[a] = f[b] => a = b
    BY DEF Pairs
  <2> QED
    BY <2>1, <2>2, Zenon DEF Injection, IsInjective
<1>5. Cardinality(Pairs) <= Cardinality(Earlier) /\ IsFiniteSet(Pairs)
  BY <1>2, <1>4, FS_Injection
<1>6. Cardinality(Pairs) \in Nat
  BY <1>5, FS_CardinalityType
<1> QED
  BY <1>1, <1>2, <1>5, <1>6

LEMMA StartRefines ==
  ASSUME IInv, NEW c \in Clients, NEW k \in Keys, Starts(c, k)
  PROVE  OneFlight!Next
<1> DEFINE j == nextJob
<1>1. /\ j \in Jobs /\ stage[j] = "none" /\ inflight[k] = NoJob
      /\ stage \in [Jobs -> Stages] /\ asked \in [Jobs -> Keys \cup {NoKey}]
  BY DEF Starts, RunningFor, IInv, JobsFit, TypeOK
<1>2. \E s \in {"lock", "permit"} : stage' = [stage EXCEPT ![j] = s]
  BY DEF Starts
<1>3. asked' = [asked EXCEPT ![j] = k]
  BY DEF Starts
<1>4. Cardinality(Pairs) < MaxJobs
  BY <1>1, RoomToStart
<1> HIDE DEF j
<1>5. Running' = Running \cup {j} /\ j \notin Running
  BY <1>1, <1>2, StageKinds DEF Running, Active
<1>6. \A i \in Running : i \in Jobs /\ i # j
  BY <1>5 DEF Running
<1>7. \A i \in Running : asked'[i] = asked[i] /\ asked[i] # k
  <2>1. \A i \in Running : inflight[asked[i]] = i /\ i # NoJob
    BY DEF IInv, FlightsFit, Running, Jobs
  <2> QED
    BY <1>1, <1>3, <1>6, <2>1
<1>8. asked'[j] = k
  BY <1>1, <1>3
<1>9. Pairs' = Pairs \cup {<<j, k>>}
  BY <1>5, <1>7, <1>8 DEF Pairs
<1>10. k \notin {r[2] : r \in Pairs} /\ \A r \in Pairs : r[1] # j
  BY <1>6, <1>7 DEF Pairs
<1> QED
  BY <1>1, <1>4, <1>9, <1>10, SameCardinality
     DEF OneFlight!Next, OneFlight!Start, OneFlight!Busy, Pairs

(* A stage moves on: the resolve ends, or nothing is seen of it.           *)
LEMMA ResolveRefines ==
  ASSUME IInv, NEW j \in Running, NEW s, stage' = [stage EXCEPT ![j] = s], UNCHANGED asked
  PROVE  OneFlight!Next \/ Pairs' = Pairs
<1>1. j \in Jobs /\ stage \in [Jobs -> Stages] /\ asked[j] \in Keys
  BY StageKinds DEF Running, IInv, TypeOK, JobsFit
<1>2. CASE s \in Active \cup {"permit"}
  <2>1. Running' = Running
    BY <1>1, <1>2 DEF Running
  <2> QED
    BY <2>1 DEF Pairs
<1>3. CASE s \notin Active \cup {"permit"}
  <2>1. Running' = Running \ {j}
    BY <1>1, <1>3 DEF Running
  <2>2. Pairs' = Pairs \ {<<j, asked[j]>>}
    BY <2>1 DEF Pairs
  <2>3. <<j, asked[j]>> \in Pairs
    BY DEF Pairs
  <2> QED
    BY <1>1, <2>2, <2>3 DEF OneFlight!Next, OneFlight!End, Pairs
<1> QED
  BY <1>2, <1>3

LEMMA RefinementStep == IInv /\ [Next]_vars => OneFlight!Next \/ Pairs' = Pairs
<1> SUFFICES ASSUME IInv, [Next]_vars PROVE OneFlight!Next \/ Pairs' = Pairs
  OBVIOUS
<1>1. ASSUME UNCHANGED <<stage, asked>> PROVE Pairs' = Pairs
  BY <1>1 DEF Pairs, Running
<1>2. CASE Tick \/ ReapIdle \/ ElsewhereAnswered \/ Boots \/ UNCHANGED vars
           \/ \E jitter \in Jitters : ElsewhereThrottled(jitter)
  BY <1>1, <1>2 DEF Tick, ReapIdle, ElsewhereAnswered, Boots, vars, ElsewhereThrottled, jobVars
<1>3. CASE \/ \E c \in Clients, k \in Keys : \/ Joins(c, k)
                                             \/ \E jitter \in Jitters : Gated(c, k, jitter)
           \/ \E c \in Clients : Answered(c) \/ Leaves(c)
  BY <1>1, <1>3 DEF Joins, Gated, Answered, Leaves, jobVars
<1>4. ASSUME NEW c \in Clients, NEW k \in Keys, Starts(c, k) PROVE OneFlight!Next
  BY <1>4, StartRefines
<1>5. CASE ShutsDown \/ Crashes
  <2>1. Running' = {}
    BY <1>5, StageKinds DEF ShutsDown, Crashes, Gone, Running
  <2>2. Pairs' = {}
    BY <2>1 DEF Pairs
  <2> QED
    BY <2>2 DEF OneFlight!Next, OneFlight!Abandon, Pairs
<1>6. ASSUME NEW j \in Jobs, DriverEnds(j) PROVE Pairs' = Pairs
  BY <1>1, <1>6 DEF DriverEnds, jobVars
<1>7. ASSUME NEW j \in Jobs, ResolveStep(j), ~DriverEnds(j)
      PROVE  OneFlight!Next \/ Pairs' = Pairs
  <2>1. j \in Running
    BY <1>7 DEF ResolveStep, GetsPermit, AsksWorker, WorkerUnavailable, WorkerReplies, WorkerLost,
       BinaryAnswers, Capped, Settles, Running, Active
  <2>2. UNCHANGED asked /\ \E s : stage' = [stage EXCEPT ![j] = s]
    BY <1>7 DEF ResolveStep, GetsPermit, AsksWorker, WorkerUnavailable, WorkerReplies, WorkerLost,
       BinaryAnswers, Capped, Settles, Extracted, Ends, jobVars
  <2> QED
    BY <2>1, <2>2, ResolveRefines
<1> QED
  BY <1>2, <1>3, <1>4, <1>5, <1>6, <1>7 DEF Next

(* Direct implements SingleFlight.                                         *)
THEOREM OneResolve == Spec => OneResolvePerKey
<1>1. Init => OneFlight!Init
  BY StageKinds DEF Init, OneFlight!Init, Running
<1>2. IInv /\ [Next]_vars => [OneFlight!Next]_Pairs
  BY RefinementStep
<1>3. IInv /\ [Next]_vars => [OneFlight!Next]_({<<j, asked[j]>> : j \in Running})
  BY <1>2 DEF Pairs
<1> QED
  BY <1>1, <1>3, Invariant, PTL DEF Spec, OneResolvePerKey, OneFlight!Spec
=============================================================================
