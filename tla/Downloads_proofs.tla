-------------------------- MODULE Downloads_proofs --------------------------
(***************************************************************************)
(* Theorems about Downloads, for every set of ids, requests and prewarms   *)
(* and every value of the bounds.                                          *)
(***************************************************************************)
EXTENDS Downloads, FiniteSetTheorems, TLAPS

(* What TypeOK rests on: a requester that has left "idle" asks for an id.  *)
ReqAsksForId == \A c \in Clients : req[c].pc # "idle" => req[c].vid \in Vids

TypeInv == TypeOK /\ ReqAsksForId

(* What EntryTracksDownload rests on: generations not yet handed out are   *)
(* untouched, so the one fetch_add returns is nobody else's.               *)
FreshGens ==
  \A g \in Gens : g >= dlGen => stage[g] = "none" /\ g \notin driving /\ g \notin spec

(* The memory of failures is exact while the clock is short of a verdict.  *)
VerdictsKept ==
  \A v \in Vids : fails[v] > now \/ owed[v] > now => fails[v] = owed[v]

(* Every unfinished speculative download has a prewarm waiting for it,     *)
(* which holds its permit until the download is over.                      *)
PrewarmWaits ==
  /\ Cardinality(PrewarmPermitsTaken) <= PrewarmMax
  /\ \A g \in spec \cap Unfinished :
       \E p \in Prewarms : req[p].pc = "wait" /\ req[p].gen = g

IInv ==
  /\ TypeInv
  /\ FreshGens
  /\ EntryTracksDownload
  /\ InFlightBounded

USE DownloadsAssumption, BackoffAssumption DEF NoGen

----------------------------------------------------------------------------
(* Helpers.                                                                *)

(* The map fetch_trailer_inner looks at is in_flight, perhaps without the   *)
(* finished entry of its own id: still a map of generations.               *)
LEMMA MapAtFetchType ==
  ASSUME TypeOK, NEW c \in Clients
  PROVE  /\ MapAtFetch(c) \in [Vids -> Gens \cup {NoGen}]
         /\ \A v \in Vids : MapAtFetch(c)[v] \in {inFlight[v], NoGen}
         /\ \A v \in Vids : stage[inFlight[v]] \notin Ended => MapAtFetch(c)[v] = inFlight[v]
BY DEF TypeOK, MapAtFetch, DropIfFinished

(* A trip leaves a pause: whatever the window, jitter or hint.             *)
LEMMA TripType ==
  ASSUME NEW b \in [until : Int, strikes : Nat], NEW t \in Nat,
         NEW jitter \in Jitters
  PROVE  Trip(b, t, NoHint, jitter) \in [until : Int, strikes : Nat]
<1>1. ASSUME NEW s \in Nat PROVE WindowMs(s, jitter) \in Int
  <2>1. AtMost(s - 1, 20) \in Int
    BY DEF AtMost
  <2>2. 2 ^ AtMost(s - 1, 20) \in Int
    BY <2>1
  <2>3. AtMost(BaseMs * 2 ^ AtMost(s - 1, 20), CapMs) \in Int
    BY <2>2 DEF AtMost
  <2>4. jitter \in Int
    OBVIOUS
  <2> QED
    BY <2>3, <2>4 DEF WindowMs, AtMost
<1> QED
  BY <1>1 DEF Trip, TripEveryTime, NoHint, Paused

(* Remembering a failure keeps play_fails a map to lapse times.            *)
LEMMA VerdictType ==
  ASSUME TypeOK, NEW g \in Gens, NEW reason \in Reasons, Verdict(g, reason)
  PROVE  fails' \in [Vids -> Nat] /\ owed' \in [Vids -> Nat]
<1>1. FailTtl(reason) \in Nat
  BY DEF FailTtl
<1>2. ASSUME NEW v PROVE RecordFailure(fails, v, reason) \in [Vids -> Nat]
  <2> DEFINE live == [w \in Vids |-> IF fails[w] > now THEN fails[w] ELSE 0]
             kept == IF FailLen(fails) < FailMax THEN fails
                     ELSE IF FailLen(live) < FailMax THEN live
                     ELSE [w \in Vids |-> 0]
  <2>1. live \in [Vids -> Nat]
    BY DEF TypeOK
  <2>2. kept \in [Vids -> Nat]
    <3> HIDE DEF live
    <3> QED
      BY <2>1 DEF TypeOK
  <2>3. RecordFailure(fails, v, reason) = [kept EXCEPT ![v] = now + FailTtl(reason)]
    BY Zenon DEF RecordFailure
  <2>4. now + FailTtl(reason) \in Nat
    BY <1>1 DEF TypeOK
  <2> HIDE DEF kept
  <2> QED
    BY <2>2, <2>3, <2>4
<1>3. ASSUME NEW v PROVE Owes(v, reason) \in [Vids -> Nat]
  <2> DEFINE kept == IF Cardinality({w \in Vids : owed[w] > now}) < FailMax THEN owed
                     ELSE [w \in Vids |-> 0]
  <2>1. kept \in [Vids -> Nat]
    BY DEF TypeOK
  <2>2. Owes(v, reason) = [kept EXCEPT ![v] = now + FailTtl(reason)]
    BY Zenon DEF Owes
  <2>3. now + FailTtl(reason) \in Nat
    BY <1>1 DEF TypeOK
  <2> HIDE DEF kept
  <2> QED
    BY <2>1, <2>2, <2>3
<1> QED
  BY <1>1, <1>2, <1>3 DEF Verdict, TypeOK

(* A requester that moves to a record of the right shape stays one.        *)
LEMMA ReqMoves ==
  ASSUME TypeInv, NEW c \in Clients, NEW r \in ReqType,
         r.pc # "idle" => r.vid \in Vids,
         req' = [req EXCEPT ![c] = r]
  PROVE  req' \in [Clients -> ReqType] /\ ReqAsksForId'
BY DEF TypeInv, TypeOK, ReqAsksForId

(* A requester that is done is a record of the right shape.               *)
LEMMA IdleType == Idle \in ReqType /\ Idle.pc = "idle"
BY DEF Idle, ReqType, Pcs

(* How a request or a prewarm sets out for an id.                          *)
LEMMA SetsOut ==
  ASSUME NEW v \in Vids, NEW pc \in {"look", "fetch"}
  PROVE  /\ [Idle EXCEPT !.pc = pc, !.vid = v, !.play = TRUE] \in ReqType
         /\ [Idle EXCEPT !.pc = pc, !.vid = v, !.play = TRUE].vid = v
         /\ [Idle EXCEPT !.pc = pc, !.vid = v] \in ReqType
         /\ [Idle EXCEPT !.pc = pc, !.vid = v].vid = v
BY DEF Idle, ReqType, Pcs

(* How it goes on.                                                         *)
LEMMA GoesOn ==
  ASSUME NEW r \in ReqType, r.vid \in Vids, NEW pc \in Pcs, NEW g \in Gens \cup {NoGen}
  PROVE  /\ [r EXCEPT !.pc = pc] \in ReqType /\ [r EXCEPT !.pc = pc].vid \in Vids
         /\ /\ [r EXCEPT !.pc = pc, !.gen = g] \in ReqType
            /\ [r EXCEPT !.pc = pc, !.gen = g].vid \in Vids
         /\ /\ [r EXCEPT !.pc = pc, !.attempt = 1] \in ReqType
            /\ [r EXCEPT !.pc = pc, !.attempt = 1].vid \in Vids
BY DEF ReqType

(* Every step of a requester keeps the requesters' type.                   *)
LEMMA RequestersTyped ==
  ASSUME TypeInv, NEW c \in Clients,
         \/ \E v \in Vids : PlayArrives(c, v) \/ CropArrives(c, v) \/ PrewarmSpawned(c, v)
         \/ ClientStep(c)
         \/ Cancelled(c)
  PROVE  req' \in [Clients -> ReqType] /\ ReqAsksForId'
<1>1. req[c] \in ReqType
  BY DEF TypeInv, TypeOK
<1>2. req[c].pc # "idle" => req[c].vid \in Vids
  BY DEF TypeInv, ReqAsksForId
<1>3. ASSUME NEW v \in Vids, PlayArrives(c, v)
      PROVE  req' \in [Clients -> ReqType] /\ ReqAsksForId'
  <2>1. req' = [req EXCEPT ![c] = [Idle EXCEPT !.pc = "fetch", !.vid = v, !.play = TRUE]]
    BY <1>3 DEF PlayArrives
  <2> QED
    BY <2>1, ReqMoves, SetsOut
<1>4. ASSUME NEW v \in Vids, CropArrives(c, v)
      PROVE  req' \in [Clients -> ReqType] /\ ReqAsksForId'
  <2>1. req' = [req EXCEPT ![c] = [Idle EXCEPT !.pc = "fetch", !.vid = v]]
    BY <1>4 DEF CropArrives
  <2> QED
    BY <2>1, ReqMoves, SetsOut
<1>5. ASSUME NEW v \in Vids, PrewarmSpawned(c, v)
      PROVE  req' \in [Clients -> ReqType] /\ ReqAsksForId'
  <2>1. req' = [req EXCEPT ![c] = [Idle EXCEPT !.pc = "look", !.vid = v]]
    BY <1>5 DEF PrewarmSpawned
  <2> QED
    BY <2>1, ReqMoves, SetsOut
<1>6. ASSUME req' = [req EXCEPT ![c] = Idle]
      PROVE  req' \in [Clients -> ReqType] /\ ReqAsksForId'
  BY <1>6, ReqMoves, IdleType
<1>7. ASSUME req[c].pc # "idle",
             \/ req' = [req EXCEPT ![c] = [@ EXCEPT !.pc = "fetch"]]
             \/ req' = [req EXCEPT ![c] = [@ EXCEPT !.pc = "reopen", !.gen = NoGen]]
             \/ req' = [req EXCEPT ![c] = [@ EXCEPT !.pc = "fetch", !.attempt = 1]]
      PROVE  req' \in [Clients -> ReqType] /\ ReqAsksForId'
  <2>1. /\ [req[c] EXCEPT !.pc = "fetch"] \in ReqType
        /\ [req[c] EXCEPT !.pc = "fetch"].vid \in Vids
        /\ [req[c] EXCEPT !.pc = "reopen", !.gen = NoGen] \in ReqType
        /\ [req[c] EXCEPT !.pc = "reopen", !.gen = NoGen].vid \in Vids
        /\ [req[c] EXCEPT !.pc = "fetch", !.attempt = 1] \in ReqType
        /\ [req[c] EXCEPT !.pc = "fetch", !.attempt = 1].vid \in Vids
    BY <1>1, <1>2, <1>7, GoesOn DEF Pcs
  <2>2. CASE req' = [req EXCEPT ![c] = [req[c] EXCEPT !.pc = "fetch"]]
    BY <2>1, <2>2, ReqMoves
  <2>3. CASE req' = [req EXCEPT ![c] = [req[c] EXCEPT !.pc = "reopen", !.gen = NoGen]]
    BY <2>1, <2>3, ReqMoves
  <2>4. CASE req' = [req EXCEPT ![c] = [req[c] EXCEPT !.pc = "fetch", !.attempt = 1]]
    BY <2>1, <2>4, ReqMoves
  <2> QED
    BY <1>7, <2>2, <2>3, <2>4
<1>8. ASSUME NEW g \in Gens, req[c].pc # "idle",
             req' = [req EXCEPT ![c] = [@ EXCEPT !.pc = "wait", !.gen = g]]
      PROVE  req' \in [Clients -> ReqType] /\ ReqAsksForId'
  <2>1. /\ [req[c] EXCEPT !.pc = "wait", !.gen = g] \in ReqType
        /\ [req[c] EXCEPT !.pc = "wait", !.gen = g].vid \in Vids
    BY <1>1, <1>2, <1>8, GoesOn DEF Pcs
  <2> QED
    BY <1>8, <2>1, ReqMoves
<1>9. CASE FetchJoins(c)
  <2>1. MapAtFetch(c)[req[c].vid] \in Gens
    BY <1>2, <1>9, MapAtFetchType DEF FetchJoins, TypeInv
  <2> QED
    BY <1>8, <1>9, <2>1 DEF FetchJoins
<1>10. CASE FetchStarts(c)
  <2>1. NewGen \in Gens
    BY <1>10 DEF FetchStarts, NewGen, Gens, TypeInv, TypeOK
  <2> QED
    BY <1>8, <1>10, <2>1 DEF FetchStarts
<1>11. CASE LooksAtDisk(c) \/ FetchKnownDead(c) \/ FetchRefused(c) \/ Cancelled(c)
  BY <1>6, <1>7, <1>11 DEF LooksAtDisk, FetchKnownDead, FetchRefused, Cancelled
<1>12. CASE Wakes(c) \/ Reopens(c)
  BY <1>6, <1>7, <1>12 DEF Wakes, Reopens
<1> QED
  BY <1>3, <1>4, <1>5, <1>9, <1>10, <1>11, <1>12 DEF ClientStep

----------------------------------------------------------------------------
(* Every step keeps the types.                                             *)
LEMMA TypeStep == TypeInv /\ [Next]_vars => TypeInv'
<1> SUFFICES ASSUME TypeInv, [Next]_vars PROVE TypeInv'
  OBVIOUS
<1> USE DEF TypeInv
<1>1. CASE Tick
  BY <1>1 DEF Tick, TypeOK, ReqAsksForId
<1>2. ASSUME NEW c \in Clients, NEW v \in Vids,
             PlayArrives(c, v) \/ CropArrives(c, v) \/ PrewarmSpawned(c, v)
      PROVE  TypeInv'
  BY <1>2, RequestersTyped DEF PlayArrives, CropArrives, PrewarmSpawned, dlVars, TypeOK
<1>3. ASSUME NEW c \in Clients, LooksAtDisk(c) \/ Wakes(c) \/ Reopens(c) \/ Cancelled(c)
      PROVE  TypeInv'
  <2>1. req' \in [Clients -> ReqType] /\ ReqAsksForId'
    BY <1>3, RequestersTyped DEF ClientStep
  <2> QED
    BY <1>3, <2>1 DEF LooksAtDisk, Wakes, Reopens, Cancelled, dlVars, TypeOK
<1>4. ASSUME NEW c \in Clients, FetchKnownDead(c) \/ FetchJoins(c) \/ FetchRefused(c)
      PROVE  TypeInv'
  <2>1. req' \in [Clients -> ReqType] /\ ReqAsksForId'
    BY <1>4, RequestersTyped DEF ClientStep
  <2> QED
    BY <1>4, <2>1, MapAtFetchType DEF FetchKnownDead, FetchJoins, FetchRefused, dlVars, TypeOK
<1>5. ASSUME NEW c \in Clients, FetchStarts(c) PROVE TypeInv'
  <2>1. NewGen \in Gens
    BY <1>5 DEF FetchStarts, NewGen, Gens, TypeOK
  <2>2. FirstStage \in Stages
    BY DEF FirstStage, Stages, Holding
  <2>3. req' \in [Clients -> ReqType] /\ ReqAsksForId'
    BY <1>5, RequestersTyped DEF ClientStep
  <2>4. req[c].vid \in Vids
    BY <1>5 DEF FetchStarts, ReqAsksForId
  <2> QED
    BY <1>5, <2>1, <2>2, <2>3, <2>4, MapAtFetchType DEF FetchStarts, dlVars, TypeOK, NewGen
<1>6. ASSUME NEW g \in Gens, Acquires(g) \/ ExtractOk(g) PROVE TypeInv'
  BY <1>6 DEF Acquires, ExtractOk, TypeOK, ReqAsksForId, Stages, Holding, Clear, NotPaused
<1>7. ASSUME NEW g \in Gens, NEW reason \in Reasons, NEW jitter \in Jitters,
              ExtractFails(g, reason, jitter)
       PROVE  TypeInv'
  <2>1. youtube' \in [until : Int, strikes : Nat]
    BY <1>7, TripType DEF ExtractFails, TypeOK
  <2> QED
    BY <1>7, <2>1, VerdictType DEF ExtractFails, Fails, TypeOK, ReqAsksForId, Stages, Ended
<1>8. ASSUME NEW g \in Gens, NEW run \in BakeRuns, Publishes(g, run) PROVE TypeInv'
  BY <1>8 DEF Publishes, TypeOK, ReqAsksForId, Stages, Holding, Files, FileAfter
<1>9. ASSUME NEW g \in Gens, PublishFails(g) PROVE TypeInv'
  BY <1>9, VerdictType
     DEF PublishFails, Fails, TypeOK, ReqAsksForId, Stages, Ended, Reasons
<1>10. ASSUME NEW g \in Gens, Succeeds(g) PROVE TypeInv'
  BY <1>10 DEF Succeeds, TypeOK, ReqAsksForId, Stages, Ended, Evicted, Files
<1>11. ASSUME NEW g \in Gens, DriverEnds(g) PROVE TypeInv'
  BY <1>11 DEF DriverEnds, ClearOwnEntry, TypeOK, ReqAsksForId
<1>12. CASE HourlyEviction
  BY <1>12 DEF HourlyEviction, dlVars, TypeOK, ReqAsksForId, Evicted, Files
<1>13. CASE UNCHANGED vars
  BY <1>13 DEF vars, TypeOK, ReqAsksForId
<1> QED
  BY <1>1, <1>2, <1>3, <1>4, <1>5, <1>6, <1>7, <1>8, <1>9, <1>10,
     <1>11, <1>12, <1>13 DEF Next, ClientStep, DownloadStep, Clients

(* TypeOK, for every set of ids, requesters and bounds.                    *)
THEOREM TypeCorrect == Spec => []TypeOK
<1>1. Init => TypeInv
  BY IdleType DEF Init, TypeInv, TypeOK, ReqAsksForId, Stages, Files, NotPaused
<1>2. TypeInv /\ [Next]_vars => TypeInv'
  BY TypeStep
<1>3. TypeInv => TypeOK
  BY DEF TypeInv
<1> QED
  BY <1>1, <1>2, <1>3, PTL DEF Spec

----------------------------------------------------------------------------
(* The entries of in_flight.                                               *)

(* The map has finitely many entries: there are finitely many ids.         *)
LEMMA EntriesFinite ==
  ASSUME NEW map
  PROVE  IsFiniteSet(Entries(map)) /\ Cardinality(Entries(map)) \in Nat
<1>1. Entries(map) \in SUBSET Vids
  BY DEF Entries
<1> QED
  BY <1>1, FS_Subset, FS_CardinalityType

(* The map at the fetch has no more entries than in_flight.                *)
LEMMA MapAtFetchBounded ==
  ASSUME IInv, NEW c \in Clients
  PROVE  Cardinality(Entries(MapAtFetch(c))) <= InFlightMax
<1>1. Entries(MapAtFetch(c)) \in SUBSET Entries(inFlight)
  BY MapAtFetchType DEF Entries, IInv, TypeInv
<1> QED
  BY <1>1, EntriesFinite, FS_Subset DEF IInv, InFlightBounded

(* Before the fetch goes on, the map still tracks every download.          *)
LEMMA MapAtFetchTracks ==
  ASSUME IInv, NEW c \in Clients
  PROVE  /\ \A g \in Unfinished : MapAtFetch(c)[target[g]] = g
         /\ \A v \in Entries(MapAtFetch(c)) :
              /\ MapAtFetch(c)[v] = inFlight[v]
              /\ v \in Entries(inFlight)
<1>1. ASSUME NEW g \in Unfinished PROVE MapAtFetch(c)[target[g]] = g
  <2>1. target[g] \in Vids /\ inFlight[target[g]] = g /\ stage[g] \notin Ended
    BY DEF IInv, EntryTracksDownload, Unfinished, Holding, Ended
  <2> QED
    BY <2>1, MapAtFetchType DEF IInv, TypeInv
<1> QED
  BY <1>1, MapAtFetchType DEF Entries, IInv, TypeInv

(* A fetch that starts nothing: at most a finished entry is dropped.       *)
LEMMA FetchKeeps ==
  ASSUME IInv, TypeInv', NEW c \in Clients,
         inFlight' = MapAtFetch(c), UNCHANGED <<dlGen, stage, target, driving, spec>>
  PROVE  IInv'
<1>1. FreshGens'
  BY DEF IInv, FreshGens
<1>2. EntryTracksDownload'
  BY MapAtFetchTracks DEF IInv, EntryTracksDownload, Unfinished, Entries
<1>3. InFlightBounded'
  BY MapAtFetchBounded DEF InFlightBounded, Entries
<1> QED
  BY <1>1, <1>2, <1>3 DEF IInv

(* A download moving on: the map is not touched.                           *)
LEMMA DownloadKeeps ==
  ASSUME IInv, TypeInv', NEW g \in Unfinished, NEW s, s # "none",
         stage' = [stage EXCEPT ![g] = s], UNCHANGED <<inFlight, dlGen, target, driving, spec>>
  PROVE  IInv'
<1>1. g < dlGen /\ g \in Gens
  BY DEF IInv, FreshGens, Unfinished, Holding, TypeInv, TypeOK, Gens
<1>2. FreshGens'
  BY <1>1 DEF IInv, FreshGens, TypeInv, TypeOK, Gens
<1>3. Unfinished' \subseteq Unfinished
  BY DEF Unfinished, IInv, TypeInv, TypeOK
<1>4. EntryTracksDownload'
  BY <1>3 DEF IInv, EntryTracksDownload, Entries
<1>5. InFlightBounded'
  BY DEF IInv, InFlightBounded, Entries
<1> QED
  BY <1>2, <1>4, <1>5 DEF IInv

(* The one step that adds an entry.                                        *)
LEMMA StartKeeps ==
  ASSUME IInv, TypeInv', NEW c \in Clients, FetchStarts(c)
  PROVE  IInv'
<1> DEFINE map == MapAtFetch(c)
           v == req[c].vid
<1>1. v \in Vids /\ map[v] = NoGen /\ map \in [Vids -> Gens \cup {NoGen}]
  BY MapAtFetchType DEF FetchStarts, IInv, TypeInv, ReqAsksForId
<1>2. /\ dlGen \in Gens /\ dlGen' = dlGen + 1
      /\ inFlight' = [map EXCEPT ![v] = dlGen]
      /\ stage' = [stage EXCEPT ![dlGen] = FirstStage]
      /\ target' = [target EXCEPT ![dlGen] = v]
      /\ driving' = driving \cup {dlGen}
      /\ spec' \subseteq spec \cup {dlGen}
  BY DEF FetchStarts, NewGen, Gens, IInv, TypeInv, TypeOK
<1>3. stage[dlGen] = "none" /\ dlGen \notin driving
  BY <1>2 DEF IInv, FreshGens, TypeInv, TypeOK
<1>4. /\ \A g \in Unfinished : target[g] \in Vids /\ map[target[g]] = g /\ g \in driving
      /\ \A w \in Entries(map) : target[map[w]] = w /\ map[w] \in driving
  BY MapAtFetchTracks DEF IInv, EntryTracksDownload
<1>5. Unfinished' \subseteq Unfinished \cup {dlGen} /\ dlGen \notin Unfinished
  BY <1>2, <1>3 DEF Unfinished, Holding, IInv, TypeInv, TypeOK
<1>6. Entries(inFlight') = Entries(map) \cup {v} /\ v \notin Entries(map)
  BY <1>1, <1>2 DEF Entries, Gens
<1>7. FreshGens'
  BY <1>2 DEF IInv, FreshGens, TypeInv, TypeOK, Gens
<1>8. EntryTracksDownload'
  <2>1. ASSUME NEW g \in Unfinished'
        PROVE  target'[g] \in Vids /\ inFlight'[target'[g]] = g /\ g \in driving'
    <3>1. CASE g = dlGen
      BY <1>1, <1>2, <3>1 DEF IInv, TypeInv, TypeOK
    <3>2. CASE g \in Unfinished /\ g # dlGen
      <4>1. target'[g] = target[g] /\ target[g] # v
        BY <1>1, <1>2, <1>4, <3>2 DEF IInv, TypeInv, TypeOK, Unfinished, Gens
      <4> QED
        BY <1>1, <1>2, <1>4, <3>2, <4>1
    <3> QED
      BY <1>5, <3>1, <3>2
  <2>2. ASSUME NEW w \in Entries(inFlight')
        PROVE  target'[inFlight'[w]] = w /\ inFlight'[w] \in driving'
    <3>1. CASE w = v
      BY <1>1, <1>2, <3>1 DEF IInv, TypeInv, TypeOK
    <3>2. CASE w # v
      <4>1. w \in Entries(map) /\ inFlight'[w] = map[w]
        BY <1>1, <1>2, <1>6, <3>2 DEF Entries
      <4>2. map[w] # dlGen
        BY <1>3, <1>4, <4>1
      <4>3. map[w] \in driving /\ target[map[w]] = w
        BY <1>4, <4>1
      <4> QED
        BY <1>2, <4>1, <4>2, <4>3 DEF IInv, TypeInv, TypeOK
    <3> QED
      BY <3>1, <3>2
  <2> QED
    BY <2>1, <2>2 DEF EntryTracksDownload
<1>9. InFlightBounded'
  <2>1. Cardinality(Entries(map)) < InFlightMax
    BY EntriesFinite DEF FetchStarts, IsFull
  <2>2. Cardinality(Entries(map) \cup {v}) = Cardinality(Entries(map)) + 1
    BY <1>6, EntriesFinite, FS_AddElement
  <2>3. Cardinality(Entries(inFlight')) <= InFlightMax
    BY <1>6, <2>1, <2>2, EntriesFinite
  <2> QED
    BY <2>3 DEF InFlightBounded, Entries
<1> QED
  BY <1>7, <1>8, <1>9 DEF IInv

(* The driver's last step takes away its own entry or none.                *)
LEMMA DriverKeeps ==
  ASSUME IInv, TypeInv', NEW g \in Gens, DriverEnds(g)
  PROVE  IInv'
<1>1. g \notin Unfinished /\ Unfinished' = Unfinished
  BY DEF DriverEnds, Unfinished, Ended, Holding
<1>2. /\ inFlight' = ClearOwnEntry(g) /\ driving' = driving \ {g}
      /\ target' = [target EXCEPT ![g] = NoVid]
  BY DEF DriverEnds
<1>3. \A v \in Vids : inFlight'[v] = IF inFlight[v] = g THEN NoGen ELSE inFlight[v]
  BY <1>2 DEF ClearOwnEntry, IInv, EntryTracksDownload, Entries, TypeInv, TypeOK, DriverEnds, Gens
<1>4. FreshGens'
  BY <1>2 DEF IInv, FreshGens, DriverEnds
<1>5. EntryTracksDownload'
  <2>1. ASSUME NEW h \in Unfinished'
        PROVE  target'[h] \in Vids /\ inFlight'[target'[h]] = h /\ h \in driving'
    BY <1>1, <1>2, <1>3 DEF IInv, EntryTracksDownload, TypeInv, TypeOK, Unfinished
  <2>2. ASSUME NEW v \in Entries(inFlight')
        PROVE  target'[inFlight'[v]] = v /\ inFlight'[v] \in driving'
    BY <1>2, <1>3 DEF IInv, EntryTracksDownload, TypeInv, TypeOK, Entries
  <2> QED
    BY <2>1, <2>2 DEF EntryTracksDownload
<1>6. InFlightBounded'
  <2>1. Entries(inFlight') \in SUBSET Entries(inFlight)
    BY <1>3 DEF Entries
  <2>2. Cardinality(Entries(inFlight')) <= InFlightMax
    BY <2>1, EntriesFinite, FS_Subset DEF IInv, InFlightBounded
  <2> QED
    BY <2>2 DEF InFlightBounded, Entries
<1> QED
  BY <1>4, <1>5, <1>6 DEF IInv

(* The invariant holds at the start...                                     *)
LEMMA InvInit == Init => IInv
<1> SUFFICES ASSUME Init PROVE IInv
  OBVIOUS
<1>1. TypeInv
  BY IdleType DEF Init, TypeInv, TypeOK, ReqAsksForId, Stages, Files, NotPaused
<1>2. Unfinished = {} /\ Entries(inFlight) = {}
  BY DEF Init, Unfinished, Holding, Entries
<1> QED
  BY <1>1, <1>2, FS_EmptySet DEF Init, IInv, FreshGens, EntryTracksDownload, InFlightBounded

(* ... and every step keeps it.                                            *)
LEMMA InvStep == IInv /\ [Next]_vars => IInv'
<1> SUFFICES ASSUME IInv, [Next]_vars PROVE IInv'
  OBVIOUS
<1>1. TypeInv'
  BY TypeStep DEF IInv
<1>2. ASSUME UNCHANGED <<inFlight, dlGen, stage, target, driving, spec>> PROVE IInv'
  BY <1>1, <1>2 DEF IInv, FreshGens, EntryTracksDownload, InFlightBounded, Unfinished, Entries
<1>3. CASE Tick \/ HourlyEviction \/ UNCHANGED vars
  BY <1>2, <1>3 DEF Tick, HourlyEviction, vars, dlVars
<1>4. ASSUME NEW c \in Clients, NEW v \in Vids,
             PlayArrives(c, v) \/ CropArrives(c, v) \/ PrewarmSpawned(c, v)
      PROVE  IInv'
  BY <1>2, <1>4 DEF PlayArrives, CropArrives, PrewarmSpawned, dlVars
<1>5. ASSUME NEW c \in Clients, LooksAtDisk(c) \/ Wakes(c) \/ Reopens(c) \/ Cancelled(c)
      PROVE  IInv'
  BY <1>2, <1>5 DEF LooksAtDisk, Wakes, Reopens, Cancelled, dlVars
<1>6. ASSUME NEW c \in Clients, FetchKnownDead(c) \/ FetchJoins(c) \/ FetchRefused(c)
      PROVE  IInv'
  BY <1>1, <1>6, FetchKeeps DEF FetchKnownDead, FetchJoins, FetchRefused, dlVars
<1>7. ASSUME NEW c \in Clients, FetchStarts(c) PROVE IInv'
  BY <1>1, <1>7, StartKeeps
<1>8. ASSUME NEW g \in Gens, DownloadStep(g), ~DriverEnds(g) PROVE IInv'
  <2>1. g \in Unfinished
    BY <1>8 DEF DownloadStep, Acquires, ExtractOk, ExtractFails, Publishes, PublishFails,
       Succeeds, Unfinished, Holding
  <2>2. UNCHANGED <<inFlight, dlGen, target, driving, spec>>
    BY <1>8 DEF DownloadStep, Acquires, ExtractOk, ExtractFails, Publishes, PublishFails,
       Succeeds
  <2>3. \E s \in {"extracting", "baking", "evicting", "ok", "err"} :
          stage' = [stage EXCEPT ![g] = s]
    BY <1>8 DEF DownloadStep, Acquires, ExtractOk, ExtractFails, Publishes, PublishFails,
       Succeeds, Fails
  <2> QED
    BY <1>1, <2>1, <2>2, <2>3, DownloadKeeps
<1>9. ASSUME NEW g \in Gens, DriverEnds(g) PROVE IInv'
  BY <1>1, <1>9, DriverKeeps
<1> QED
  BY <1>3, <1>4, <1>5, <1>6, <1>7, <1>8, <1>9 DEF Next, ClientStep, Clients

(* The whole inductive invariant of Downloads: types, fresh generations,    *)
(* the correspondence of entries and downloads, and the bound.              *)
THEOREM Invariant == Spec => []IInv
BY InvInit, InvStep, PTL DEF Spec

(* The entry under an id and its unfinished download never part: an entry   *)
(* that is removed or replaced is the ended download's own (play.rs:659).   *)
THEOREM EntriesTrack == Spec => []EntryTracksDownload
BY Invariant, PTL DEF IInv

(* in_flight never holds more than IN_FLIGHT_MAX ids (play.rs:598).         *)
THEOREM Bounded == Spec => []InFlightBounded
BY Invariant, PTL DEF IInv

----------------------------------------------------------------------------
(* At most one download of an id: every step of Downloads is a start, an    *)
(* end or nothing at all of SingleFlight.                                  *)

Running == {<<g, target[g]>> : g \in Unfinished}

(* As many downloads run as there are entries for them, at the most.       *)
LEMMA RunningBounded ==
  ASSUME IInv, NEW c \in Clients
  PROVE  /\ IsFiniteSet(Running)
         /\ Cardinality(Running) <= Cardinality(Entries(MapAtFetch(c)))
<1> DEFINE T == Entries(MapAtFetch(c))
           f == [r \in Running |-> r[2]]
<1>1. \A g \in Unfinished : target[g] \in T
  BY MapAtFetchTracks DEF IInv, EntryTracksDownload, Entries, Unfinished, Gens
<1>2. \A g, h \in Unfinished : target[g] = target[h] => g = h
  BY DEF IInv, EntryTracksDownload
<1>3. f \in Injection(Running, T)
  <2>1. f \in [Running -> T]
    BY <1>1 DEF Running
  <2>2. \A a, b \in Running : f[a] = f[b] => a = b
    BY <1>2 DEF Running
  <2> QED
    BY <2>1, <2>2, Zenon DEF Injection, IsInjective
<1>4. IsFiniteSet(T)
  BY EntriesFinite
<1> QED
  BY <1>3, <1>4, FS_Injection

(* SingleFlight counts as this module does.                                *)
LEMMA SameCardinality ==
  OneFlight!Cardinality(Running) = Cardinality(Running)
BY DEF OneFlight!Cardinality, Cardinality, OneFlight!IsFiniteSet, IsFiniteSet

(* The step that starts a download starts one in SingleFlight.             *)
LEMMA StartRefines ==
  ASSUME IInv, NEW c \in Clients, FetchStarts(c)
  PROVE  OneFlight!Next
<1> DEFINE v == req[c].vid
           map == MapAtFetch(c)
<1>1. v \in Vids /\ map[v] = NoGen /\ dlGen \in Gens
  BY DEF FetchStarts, IInv, TypeInv, TypeOK, ReqAsksForId, Gens
<1>2. stage[dlGen] = "none" /\ dlGen \notin Unfinished
  BY <1>1 DEF IInv, FreshGens, TypeInv, TypeOK, Unfinished, Holding
<1>3. /\ stage' = [stage EXCEPT ![dlGen] = FirstStage]
      /\ target' = [target EXCEPT ![dlGen] = v]
  BY DEF FetchStarts, NewGen
<1>4. Unfinished' = Unfinished \cup {dlGen}
  BY <1>1, <1>3 DEF Unfinished, Holding, FirstStage, IInv, TypeInv, TypeOK
<1>5. Running' = Running \cup {<<dlGen, v>>}
  <2>1. target'[dlGen] = v
    BY <1>1, <1>3 DEF IInv, TypeInv, TypeOK
  <2>2. \A g \in Unfinished : target'[g] = target[g]
    BY <1>2, <1>3 DEF IInv, TypeInv, TypeOK, Unfinished
  <2> QED
    BY <1>4, <2>1, <2>2 DEF Running
<1>6. \A g \in Unfinished : target[g] # v
  BY <1>1, MapAtFetchTracks DEF Unfinished, Gens
<1>7. v \notin {r[2] : r \in Running}
  BY <1>6 DEF Running
<1>8. \A r \in Running : r[1] # dlGen
  BY <1>2 DEF Running
<1>9. Cardinality(Running) < InFlightMax
  <2>1. Cardinality(Entries(map)) < InFlightMax
    BY EntriesFinite DEF FetchStarts, IsFull
  <2> QED
    BY <2>1, RunningBounded, EntriesFinite, FS_CardinalityType
<1> QED
  BY <1>1, <1>5, <1>7, <1>8, <1>9, SameCardinality
     DEF OneFlight!Next, OneFlight!Start, OneFlight!Busy, Running

(* A stage moves on: the download ends, or nothing is seen of it.          *)
LEMMA DownloadRefines ==
  ASSUME IInv, NEW g \in Unfinished, NEW s,
         stage' = [stage EXCEPT ![g] = s], UNCHANGED target
  PROVE  OneFlight!Next \/ Running' = Running
<1>1. CASE s \in Holding \cup {"queued"}
  <2>1. Unfinished' = Unfinished
    BY <1>1 DEF Unfinished, IInv, TypeInv, TypeOK
  <2> QED
    BY <2>1 DEF Running
<1>2. CASE s \notin Holding \cup {"queued"}
  <2>1. Unfinished' = Unfinished \ {g}
    BY <1>2 DEF Unfinished, IInv, TypeInv, TypeOK
  <2>2. Running' = Running \ {<<g, target[g]>>}
    BY <2>1 DEF Running
  <2>3. <<g, target[g]>> \in Running /\ g \in Gens /\ target[g] \in Vids
    BY DEF Running, IInv, EntryTracksDownload, Unfinished
  <2> QED
    BY <2>2, <2>3 DEF OneFlight!Next, OneFlight!End, Running
<1> QED
  BY <1>1, <1>2

(* Every step of Downloads is a step of SingleFlight or a stutter.         *)
LEMMA RefinementStep == IInv /\ [Next]_vars => OneFlight!Next \/ Running' = Running
<1> SUFFICES ASSUME IInv, [Next]_vars PROVE OneFlight!Next \/ Running' = Running
  OBVIOUS
<1>1. ASSUME UNCHANGED <<stage, target>> PROVE Running' = Running
  BY <1>1 DEF Running, Unfinished
<1>2. CASE Tick \/ HourlyEviction \/ UNCHANGED vars
  BY <1>1, <1>2 DEF Tick, HourlyEviction, vars, dlVars
<1>3. ASSUME NEW c \in Clients, NEW v \in Vids,
             PlayArrives(c, v) \/ CropArrives(c, v) \/ PrewarmSpawned(c, v)
      PROVE  Running' = Running
  BY <1>1, <1>3 DEF PlayArrives, CropArrives, PrewarmSpawned, dlVars
<1>4. ASSUME NEW c \in Clients, ClientStep(c) \/ Cancelled(c), ~FetchStarts(c)
      PROVE  Running' = Running
  BY <1>1, <1>4 DEF ClientStep, LooksAtDisk, FetchKnownDead, FetchJoins, FetchRefused, Wakes,
     Reopens, Cancelled, dlVars
<1>5. ASSUME NEW c \in Clients, FetchStarts(c) PROVE OneFlight!Next
  BY <1>5, StartRefines
<1>6. ASSUME NEW g \in Gens, DownloadStep(g), ~DriverEnds(g)
      PROVE  OneFlight!Next \/ Running' = Running
  <2>1. g \in Unfinished
    BY <1>6 DEF DownloadStep, Acquires, ExtractOk, ExtractFails, Publishes, PublishFails,
       Succeeds, Unfinished, Holding
  <2>2. UNCHANGED target /\ \E s : stage' = [stage EXCEPT ![g] = s]
    BY <1>6 DEF DownloadStep, Acquires, ExtractOk, ExtractFails, Publishes, PublishFails,
       Succeeds, Fails
  <2> QED
    BY <2>1, <2>2, DownloadRefines
<1>7. ASSUME NEW g \in Gens, DriverEnds(g) PROVE Running' = Running
  <2>1. Unfinished' = Unfinished /\ g \notin Unfinished
    BY <1>7 DEF DriverEnds, Unfinished, Ended, Holding
  <2>2. \A h \in Unfinished : target'[h] = target[h]
    BY <1>7, <2>1 DEF DriverEnds, IInv, TypeInv, TypeOK, Unfinished
  <2> QED
    BY <2>1, <2>2 DEF Running
<1> QED
  BY <1>2, <1>3, <1>4, <1>5, <1>6, <1>7 DEF Next, Clients

(* Downloads implements SingleFlight.                                      *)
THEOREM OneDownload == Spec => OneDownloadPerId
<1>1. Init => OneFlight!Init
  BY DEF Init, OneFlight!Init, Unfinished, Holding
<1>2. IInv /\ [Next]_vars => [OneFlight!Next]_Running
  BY RefinementStep
<1>3. IInv /\ [Next]_vars => [OneFlight!Next]_({<<g, target[g]>> : g \in Unfinished})
  BY <1>2 DEF Running
<1> QED
  BY <1>1, <1>3, Invariant, PTL DEF Spec, OneDownloadPerId, OneFlight!Spec

----------------------------------------------------------------------------
(* Action properties.                                                      *)

(* Only FetchStarts hands out a generation.                                *)
LEMMA OnlyStartsCreate ==
  ASSUME IInv, [Next]_vars, ~(\E c \in Clients : FetchStarts(c))
  PROVE  /\ \A g \in Gens : stage[g] = "none" => stage'[g] = "none"
         /\ Unfinished' \subseteq Unfinished
<1>1. ASSUME UNCHANGED stage
      PROVE  /\ \A g \in Gens : stage[g] = "none" => stage'[g] = "none"
             /\ Unfinished' \subseteq Unfinished
  BY <1>1 DEF Unfinished
<1>2. CASE Tick \/ HourlyEviction \/ UNCHANGED vars
  BY <1>1, <1>2 DEF Tick, HourlyEviction, vars, dlVars
<1>3. ASSUME NEW c \in Clients, NEW v \in Vids,
             PlayArrives(c, v) \/ CropArrives(c, v) \/ PrewarmSpawned(c, v)
      PROVE  UNCHANGED stage
  BY <1>3 DEF PlayArrives, CropArrives, PrewarmSpawned, dlVars
<1>4. ASSUME NEW c \in Clients, ClientStep(c) \/ Cancelled(c) PROVE UNCHANGED stage
  BY <1>4 DEF ClientStep, LooksAtDisk, FetchKnownDead, FetchJoins, FetchRefused, Wakes,
     Reopens, Cancelled, dlVars
<1>5. ASSUME NEW g \in Gens, DownloadStep(g)
      PROVE  /\ \A h \in Gens : stage[h] = "none" => stage'[h] = "none"
             /\ Unfinished' \subseteq Unfinished
  <2>1. CASE DriverEnds(g)
    BY <1>1, <2>1 DEF DriverEnds
  <2>2. CASE ~DriverEnds(g)
    <3>1. g \in Unfinished /\ stage[g] # "none"
      BY <1>5, <2>2 DEF DownloadStep, Acquires, ExtractOk, ExtractFails, Publishes,
         PublishFails, Succeeds, Unfinished, Holding
    <3>2. \E s : stage' = [stage EXCEPT ![g] = s]
      BY <1>5, <2>2 DEF DownloadStep, Acquires, ExtractOk, ExtractFails, Publishes,
         PublishFails, Succeeds, Fails
    <3> QED
      BY <3>1, <3>2 DEF Unfinished, IInv, TypeInv, TypeOK
  <2> QED
    BY <2>1, <2>2
<1> QED
  BY <1>1, <1>2, <1>3, <1>4, <1>5 DEF Next, Clients

(* A trip while a pause stands leaves it as it is.                         *)
LEMMA TripIsOneEpisode ==
  ASSUME NEW b, NEW t, Paused(b, t), b \in [until : Int, strikes : Nat], NEW jitter
  PROVE  Trip(b, t, NoHint, jitter) = b
BY DEF Trip

(* Only the end of an extraction moves the pause.                          *)
LEMMA OnlyExtractionsMove ==
  ASSUME IInv, [Next]_vars, youtube' # youtube
  PROVE  \E g \in Gens : \/ ExtractOk(g)
                         \/ \E reason \in Reasons, jitter \in Jitters : ExtractFails(g, reason, jitter)
<1>1. CASE Tick \/ HourlyEviction \/ UNCHANGED vars
  BY <1>1 DEF Tick, HourlyEviction, vars
<1>2. ASSUME NEW c \in Clients, NEW v \in Vids,
             PlayArrives(c, v) \/ CropArrives(c, v) \/ PrewarmSpawned(c, v)
      PROVE  FALSE
  BY <1>2 DEF PlayArrives, CropArrives, PrewarmSpawned
<1>3. ASSUME NEW c \in Clients, ClientStep(c) \/ Cancelled(c) PROVE FALSE
  BY <1>3 DEF ClientStep, LooksAtDisk, FetchKnownDead, FetchJoins, FetchRefused, FetchStarts,
     Wakes, Reopens, Cancelled
<1>4. ASSUME NEW g \in Gens, DownloadStep(g)
      PROVE  \/ ExtractOk(g)
             \/ \E reason \in Reasons, jitter \in Jitters : ExtractFails(g, reason, jitter)
  BY <1>4 DEF DownloadStep, Acquires, Publishes, PublishFails, Succeeds, DriverEnds
<1> QED
  BY <1>1, <1>2, <1>3, <1>4 DEF Next, Clients

(* While YouTube throttles the box no download is added, and what is still *)
(* outstanding can lift the pause but not lengthen it or cost a strike.    *)
THEOREM OnePause == Spec => PauseIsOneEpisode
<1> DEFINE Lifted == /\ youtube' = NotPaused
                     /\ \E g \in Gens : stage[g] = "extracting" /\ stage'[g] = "baking"
<1>1. ASSUME IInv, [Next]_vars, Paused(youtube, now)
      PROVE  Unfinished' \subseteq Unfinished /\ (youtube' # youtube => Lifted)
  <2>1. Unfinished' \subseteq Unfinished
    BY <1>1, OnlyStartsCreate DEF FetchStarts, MayExtract
  <2>2. ASSUME youtube' # youtube PROVE Lifted
    <3>1. PICK g \in Gens : \/ ExtractOk(g)
                            \/ \E reason \in Reasons, jitter \in Jitters : ExtractFails(g, reason, jitter)
      BY <1>1, <2>2, OnlyExtractionsMove
    <3>2. CASE ExtractOk(g)
      BY <1>1, <3>2 DEF ExtractOk, Clear, IInv, TypeInv, TypeOK
    <3>3. ASSUME NEW reason \in Reasons, NEW jitter \in Jitters, ExtractFails(g, reason, jitter)
          PROVE  FALSE
      <4>1. youtube' \in {Trip(youtube, now, NoHint, jitter), youtube}
        BY <3>3 DEF ExtractFails
      <4>2. youtube \in [until : Int, strikes : Nat]
        BY <1>1 DEF IInv, TypeInv, TypeOK
      <4> QED
        BY <1>1, <2>2, <4>1, <4>2, TripIsOneEpisode
    <3> QED
      BY <3>1, <3>2, <3>3
  <2> QED
    BY <2>1, <2>2
<1>2. IInv /\ [Next]_vars =>
        (Paused(youtube, now)
           => /\ Unfinished' \subseteq Unfinished
              /\ youtube' # youtube
                   => /\ youtube' = NotPaused
                      /\ \E g \in Gens : stage[g] = "extracting" /\ stage'[g] = "baking")
  BY <1>1
<1> QED
  BY <1>2, Invariant, PTL DEF Spec, PauseIsOneEpisode

(* A requester that comes to wait.                                         *)
LEMMA WaitsFor ==
  ASSUME TypeInv, NEW c \in Clients, NEW g,
         req' = [req EXCEPT ![c] = [@ EXCEPT !.pc = "wait", !.gen = g]]
  PROVE  req'[c].gen = g /\ req'[c].pc = "wait"
<1>1. req[c] \in ReqType
  BY DEF TypeInv, TypeOK
<1>2. /\ [req[c] EXCEPT !.pc = "wait", !.gen = g].gen = g
      /\ [req[c] EXCEPT !.pc = "wait", !.gen = g].pc = "wait"
  BY <1>1 DEF ReqType
<1> QED
  BY <1>2 DEF TypeInv, TypeOK

(* Every step, by who takes it.                                            *)
LEMMA StepKinds ==
  ASSUME [Next]_vars
  PROVE  \/ Tick \/ HourlyEviction \/ UNCHANGED vars
         \/ \E c \in Clients, v \in Vids :
              PlayArrives(c, v) \/ CropArrives(c, v) \/ PrewarmSpawned(c, v)
         \/ \E c \in Clients : ClientStep(c) \/ Cancelled(c)
         \/ \E g \in Gens : DownloadStep(g)
BY DEF Next, Clients

(* The retry of /play always waits for another download than the one whose *)
(* file it found gone.                                                     *)
THEOREM RetryFresh == Spec => RetryIsFresh
<1> DEFINE Fresh(c) == (req[c].pc = "fetch" /\ req[c].attempt = 1 /\ req'[c].pc = "wait")
                         => stage[req'[c].gen] \notin Ended
<1>1. ASSUME IInv, [Next]_vars, NEW c \in Clients PROVE Fresh(c)
  <2> SUFFICES ASSUME req[c].pc = "fetch", req[c].attempt = 1, req'[c].pc = "wait"
               PROVE  stage[req'[c].gen] \notin Ended
    OBVIOUS
  <2>1. CASE FetchJoins(c)
    <3>1. req'[c].gen = MapAtFetch(c)[req[c].vid] /\ req[c].vid \in Vids
      BY <1>1, <2>1, WaitsFor DEF FetchJoins, IInv, TypeInv, ReqAsksForId
    <3>2. /\ MapAtFetch(c) = DropIfFinished(inFlight, req[c].vid)
          /\ inFlight \in [Vids -> Gens \cup {NoGen}]
      BY <1>1 DEF MapAtFetch, IInv, TypeInv, TypeOK
    <3>3. MapAtFetch(c)[req[c].vid] # NoGen
      BY <2>1 DEF FetchJoins
    <3>4. stage[MapAtFetch(c)[req[c].vid]] \notin Ended
      BY <3>1, <3>2, <3>3 DEF DropIfFinished
    <3> QED
      BY <3>1, <3>4
  <2>2. CASE FetchStarts(c)
    <3>1. req'[c].gen = dlGen
      BY <1>1, <2>2, WaitsFor DEF FetchStarts, NewGen, IInv
    <3>2. stage[dlGen] = "none"
      BY <1>1, <2>2 DEF FetchStarts, Gens, IInv, FreshGens, TypeInv, TypeOK
    <3> QED
      BY <3>1, <3>2 DEF Ended
  <2>3. ASSUME UNCHANGED req PROVE FALSE
    BY <2>3
  <2>4. ASSUME NEW d \in Clients, NEW r, req' = [req EXCEPT ![d] = r], d # c \/ r.pc # "wait"
        PROVE  FALSE
    BY <1>1, <2>4 DEF IInv, TypeInv, TypeOK
  <2>5. CASE Tick \/ HourlyEviction \/ UNCHANGED vars \/ \E g \in Gens : DownloadStep(g)
    BY <2>3, <2>5 DEF Tick, HourlyEviction, vars, dlVars, DownloadStep, Acquires, ExtractOk,
       ExtractFails, Publishes, PublishFails, Succeeds, DriverEnds
  <2>6. ASSUME NEW d \in Clients, NEW v \in Vids,
               PlayArrives(d, v) \/ CropArrives(d, v) \/ PrewarmSpawned(d, v)
        PROVE  FALSE
    <3>1. d # c
      BY <2>6 DEF PlayArrives, CropArrives, PrewarmSpawned
    <3> QED
      BY <2>4, <2>6, <3>1 DEF PlayArrives, CropArrives, PrewarmSpawned
  <2>7. ASSUME NEW d \in Clients, ClientStep(d) \/ Cancelled(d), ~FetchJoins(c), ~FetchStarts(c)
        PROVE  FALSE
    <3>1. \E r : req' = [req EXCEPT ![d] = r]
      BY <2>7 DEF ClientStep, LooksAtDisk, FetchKnownDead, FetchJoins, FetchRefused,
         FetchStarts, Wakes, Reopens, Cancelled
    <3>2. d = c
      BY <2>4, <3>1
    <3>3. FetchKnownDead(c) \/ FetchRefused(c) \/ Cancelled(c)
      BY <2>7, <3>2 DEF ClientStep, LooksAtDisk, Wakes, Reopens
    <3>4. req' = [req EXCEPT ![c] = Idle]
      BY <3>3 DEF FetchKnownDead, FetchRefused, Cancelled
    <3> QED
      BY <2>4, <3>4, IdleType
  <2> QED
    BY <1>1, <2>1, <2>2, <2>5, <2>6, <2>7, StepKinds
<1>2. IInv /\ [Next]_vars => \A c \in Clients : Fresh(c)
  BY <1>1
<1> QED
  BY <1>2, Invariant, PTL DEF Spec, RetryIsFresh

----------------------------------------------------------------------------
(* The memory of failures.                                                 *)

(* record_failure forgets a standing verdict exactly when the memory owes  *)
(* no answer for it any more.                                              *)
LEMMA MemoryExact ==
  ASSUME TypeOK, VerdictsKept, NEW u \in Vids, NEW reason \in Reasons,
         NEW f, f = RecordFailure(fails, u, reason), NEW o, o = Owes(u, reason)
  PROVE  \A v \in Vids : f[v] > now \/ o[v] > now => f[v] = o[v]
<1> DEFINE live == [w \in Vids |-> IF fails[w] > now THEN fails[w] ELSE 0]
           keptF == IF FailLen(fails) < FailMax THEN fails
                    ELSE IF FailLen(live) < FailMax THEN live
                    ELSE [w \in Vids |-> 0]
           keptO == IF Cardinality({w \in Vids : owed[w] > now}) < FailMax THEN owed
                    ELSE [w \in Vids |-> 0]
           standing == {w \in Vids : owed[w] > now}
<1>1. f = [keptF EXCEPT ![u] = now + FailTtl(reason)]
  BY Zenon DEF RecordFailure
<1>2. o = [keptO EXCEPT ![u] = now + FailTtl(reason)]
  BY Zenon DEF Owes
<1>3. /\ now \in Nat /\ fails \in [Vids -> Nat] /\ owed \in [Vids -> Nat]
      /\ \A w \in Vids : fails[w] > now <=> owed[w] > now
  BY DEF TypeOK, VerdictsKept
<1>4. {w \in Vids : live[w] # 0} = standing
  BY <1>3
<1>5. FailLen(live) = Cardinality(standing)
  BY <1>4, Zenon DEF FailLen
<1>6. Cardinality(standing) <= FailLen(fails) /\ FailLen(fails) \in Nat
      /\ Cardinality(standing) \in Nat
  <2>1. standing \in SUBSET {w \in Vids : fails[w] # 0}
    BY <1>3
  <2>2. IsFiniteSet({w \in Vids : fails[w] # 0})
    BY FS_Subset
  <2> QED
    BY <2>1, <2>2, FS_Subset, FS_CardinalityType DEF FailLen
<1>7. /\ keptF \in [Vids -> Nat] /\ keptO \in [Vids -> Nat]
      /\ \A w \in Vids : keptF[w] > now \/ keptO[w] > now => keptF[w] = keptO[w]
  <2>1. live \in [Vids -> Nat] /\ \A w \in Vids : live[w] = IF fails[w] > now THEN fails[w] ELSE 0
    BY <1>3
  <2> HIDE DEF live
  <2>2. CASE Cardinality(standing) < FailMax
    <3>1. keptO = owed /\ (keptF = fails \/ keptF = live)
      BY <1>5, <2>2
    <3> QED
      BY <1>3, <2>1, <3>1 DEF VerdictsKept
  <2>3. CASE ~(Cardinality(standing) < FailMax)
    <3>1. keptO = [w \in Vids |-> 0] /\ keptF = [w \in Vids |-> 0]
      BY <1>5, <1>6, <2>3
    <3> QED
      BY <1>3, <3>1
  <2> QED
    BY <2>2, <2>3
<1> HIDE DEF keptF, keptO
<1> QED
  BY <1>1, <1>2, <1>7

(* A verdict that is recorded keeps what the memory owes.                  *)
LEMMA VerdictKeeps ==
  ASSUME IInv, VerdictsKept, NEW g \in Unfinished, NEW reason \in Reasons,
         Verdict(g, reason), UNCHANGED now
  PROVE  VerdictsKept'
<1>1. target[g] \in Vids
  BY DEF IInv, EntryTracksDownload
<1>2. CASE reason = "throttled"
  BY <1>2 DEF Verdict, VerdictsKept
<1>3. CASE reason # "throttled"
  <2>1. fails' = RecordFailure(fails, target[g], reason) /\ owed' = Owes(target[g], reason)
    BY <1>3 DEF Verdict
  <2> QED
    BY <1>1, <2>1, MemoryExact DEF IInv, TypeInv, VerdictsKept
<1> QED
  BY <1>2, <1>3

(* Every step keeps what the memory owes.                                  *)
LEMMA VerdictsStep == IInv /\ VerdictsKept /\ [Next]_vars => VerdictsKept'
<1> SUFFICES ASSUME IInv, VerdictsKept, [Next]_vars PROVE VerdictsKept'
  OBVIOUS
<1>1. ASSUME UNCHANGED <<now, fails, owed>> PROVE VerdictsKept'
  BY <1>1 DEF VerdictsKept
<1>2. CASE HourlyEviction \/ UNCHANGED vars
  BY <1>1, <1>2 DEF HourlyEviction, vars
<1>3. CASE Tick
  BY <1>3 DEF Tick, VerdictsKept, IInv, TypeInv, TypeOK
<1>4. ASSUME NEW c \in Clients, NEW v \in Vids,
             PlayArrives(c, v) \/ CropArrives(c, v) \/ PrewarmSpawned(c, v)
      PROVE  VerdictsKept'
  BY <1>1, <1>4 DEF PlayArrives, CropArrives, PrewarmSpawned
<1>5. ASSUME NEW c \in Clients, ClientStep(c) \/ Cancelled(c) PROVE VerdictsKept'
  BY <1>1, <1>5 DEF ClientStep, LooksAtDisk, FetchKnownDead, FetchJoins, FetchRefused,
     FetchStarts, Wakes, Reopens, Cancelled
<1>6. ASSUME NEW g \in Gens, DownloadStep(g) PROVE VerdictsKept'
  <2>1. CASE Acquires(g) \/ ExtractOk(g) \/ DriverEnds(g) \/ \E run \in BakeRuns : Publishes(g, run)
    BY <1>1, <2>1 DEF Acquires, ExtractOk, DriverEnds, Publishes
  <2>2. ASSUME NEW reason \in Reasons, NEW jitter \in Jitters, ExtractFails(g, reason, jitter)
        PROVE  VerdictsKept'
    <3>1. g \in Unfinished
      BY <2>2 DEF ExtractFails, Unfinished, Holding
    <3> QED
      BY <2>2, <3>1, VerdictKeeps DEF ExtractFails, Fails
  <2>3. CASE PublishFails(g)
    <3>1. g \in Unfinished /\ "incomplete_download" \in Reasons
      BY <2>3 DEF PublishFails, Unfinished, Holding, Reasons
    <3> QED
      BY <2>3, <3>1, VerdictKeeps DEF PublishFails, Fails
  <2>4. CASE Succeeds(g)
    BY <2>4 DEF Succeeds, VerdictsKept, IInv, TypeInv, TypeOK
  <2> QED
    BY <1>6, <2>1, <2>2, <2>3, <2>4 DEF DownloadStep
<1> QED
  BY <1>2, <1>3, <1>4, <1>5, <1>6, StepKinds

(* No id is downloaded again while its own failure stands.                 *)
THEOREM VerdictsStand == Spec => VerdictStands
<1>1. Init => VerdictsKept
  BY DEF Init, VerdictsKept
<1>2. Spec => []VerdictsKept
  BY <1>1, VerdictsStep, Invariant, PTL DEF Spec
<1>3. ASSUME IInv, VerdictsKept, [Next]_vars, NEW v \in Vids, Creates(v)
      PROVE  owed[v] <= now
  <2>1. PICK c \in Clients : FetchStarts(c)
    BY <1>3, OnlyStartsCreate DEF Creates
  <2>2. v = req[c].vid
    <3>1. /\ dlGen \in Gens /\ stage' = [stage EXCEPT ![dlGen] = FirstStage]
          /\ target' = [target EXCEPT ![dlGen] = req[c].vid]
      BY <1>3, <2>1 DEF FetchStarts, NewGen, Gens, IInv, TypeInv, TypeOK
    <3> QED
      BY <1>3, <3>1 DEF Creates, IInv, TypeInv, TypeOK
  <2>3. ~(fails[v] > now)
    BY <2>1, <2>2 DEF FetchStarts, KnownDead
  <2> QED
    BY <1>3, <2>3 DEF VerdictsKept, IInv, TypeInv, TypeOK
<1>4. IInv /\ VerdictsKept /\ [Next]_vars => \A v \in Vids : Creates(v) => owed[v] <= now
  BY <1>3
<1> QED
  BY <1>2, <1>4, Invariant, PTL DEF Spec, VerdictStands

----------------------------------------------------------------------------
(* Prewarms.                                                               *)

(* Finitely many prewarms hold permits.                                   *)
LEMMA PermitsFinite ==
  IsFiniteSet(PrewarmPermitsTaken) /\ Cardinality(PrewarmPermitsTaken) \in Nat
<1>1. PrewarmPermitsTaken \in SUBSET Prewarms
  BY DEF PrewarmPermitsTaken
<1> QED
  BY <1>1, FS_Subset, FS_CardinalityType

(* A prewarm that moves on without leaving "idle" takes no permit more.    *)
LEMMA PermitsKept ==
  ASSUME PrewarmWaits, TypeInv, NEW c \in Clients, req[c].pc # "idle", NEW r,
         req' = [req EXCEPT ![c] = r]
  PROVE  Cardinality(PrewarmPermitsTaken') <= PrewarmMax
<1>1. PrewarmPermitsTaken' \in SUBSET PrewarmPermitsTaken
  BY DEF PrewarmPermitsTaken, TypeInv, TypeOK
<1>2. /\ Cardinality(PrewarmPermitsTaken') <= Cardinality(PrewarmPermitsTaken)
      /\ Cardinality(PrewarmPermitsTaken') \in Nat
  BY <1>1, PermitsFinite, FS_Subset, FS_CardinalityType
<1> QED
  BY <1>2, PermitsFinite DEF PrewarmWaits

(* A requester that was not waiting may do anything: whoever waited for a   *)
(* speculative download waits still.                                       *)
LEMMA WaitersKept ==
  ASSUME PrewarmWaits, TypeInv, NEW c \in Clients, req[c].pc # "wait" \/ c \in Requests,
         NEW r, req' = [req EXCEPT ![c] = r], NEW g \in spec \cap Unfinished
  PROVE  \E p \in Prewarms : req'[p].pc = "wait" /\ req'[p].gen = g
<1>1. PICK p \in Prewarms : req[p].pc = "wait" /\ req[p].gen = g
  BY DEF PrewarmWaits
<1>2. p # c
  BY <1>1
<1>3. req'[p] = req[p]
  BY <1>2 DEF TypeInv, TypeOK, Clients
<1> QED
  BY <1>1, <1>3

(* Every step keeps a prewarm waiting for each speculative download, and   *)
(* the prewarm permits within their number.                                *)
LEMMA PrewarmStep == IInv /\ PrewarmWaits /\ [Next]_vars => PrewarmWaits'
<1> SUFFICES ASSUME IInv, PrewarmWaits, [Next]_vars PROVE PrewarmWaits'
  OBVIOUS
<1> USE DEF IInv
<1>1. ASSUME UNCHANGED <<req, spec>>, Unfinished' \subseteq Unfinished PROVE PrewarmWaits'
  BY <1>1 DEF PrewarmWaits, PrewarmPermitsTaken
<1>2. CASE Tick \/ HourlyEviction \/ UNCHANGED vars \/ \E g \in Gens : DownloadStep(g)
  <2>1. UNCHANGED <<req, spec>>
    BY <1>2 DEF Tick, HourlyEviction, vars, dlVars, DownloadStep, Acquires, ExtractOk,
       ExtractFails, Publishes, PublishFails, Succeeds, DriverEnds
  <2>2. ~(\E c \in Clients : FetchStarts(c))
    <3>1. ASSUME NEW c \in Clients, FetchStarts(c) PROVE req' # req
      BY <3>1, WaitsFor DEF FetchStarts
    <3> QED
      BY <2>1, <3>1
  <2> QED
    BY <1>1, <2>1, <2>2, OnlyStartsCreate
<1>3. ASSUME NEW c \in Clients, NEW r, req' = [req EXCEPT ![c] = r],
             UNCHANGED <<stage, spec>>, req[c].pc # "idle",
             req[c].pc # "wait" \/ c \in Requests \/ req[c].gen \notin Unfinished
      PROVE  PrewarmWaits'
  <2>1. Cardinality(PrewarmPermitsTaken') <= PrewarmMax
    BY <1>3, PermitsKept
  <2>2. (spec \cap Unfinished)' = spec \cap Unfinished
    BY <1>3 DEF Unfinished
  <2>3. ASSUME NEW g \in spec \cap Unfinished
        PROVE  \E p \in Prewarms : req'[p].pc = "wait" /\ req'[p].gen = g
    <3>1. CASE req[c].pc # "wait" \/ c \in Requests
      BY <1>3, <3>1, WaitersKept
    <3>2. CASE req[c].gen \notin Unfinished
      <4>1. PICK p \in Prewarms : req[p].pc = "wait" /\ req[p].gen = g
        BY DEF PrewarmWaits
      <4>2. req'[p] = req[p]
        BY <1>3, <3>2, <4>1 DEF TypeInv, TypeOK, Clients
      <4> QED
        BY <4>1, <4>2
    <3> QED
      BY <1>3, <3>1, <3>2
  <2> QED
    BY <2>1, <2>2, <2>3 DEF PrewarmWaits
<1>4. ASSUME NEW c \in Requests, NEW v \in Vids, PlayArrives(c, v) \/ CropArrives(c, v)
      PROVE  PrewarmWaits'
  <2>1. UNCHANGED <<stage, spec>> /\ \E r : req' = [req EXCEPT ![c] = r]
    BY <1>4 DEF PlayArrives, CropArrives, dlVars
  <2>2. PrewarmPermitsTaken' = PrewarmPermitsTaken
    BY <2>1 DEF PrewarmPermitsTaken, TypeInv, TypeOK, Clients
  <2>3. c \in Clients /\ (spec \cap Unfinished)' = spec \cap Unfinished
    BY <2>1 DEF Clients, Unfinished
  <2> QED
    BY <2>1, <2>2, <2>3, WaitersKept DEF PrewarmWaits
<1>5. ASSUME NEW c \in Prewarms, NEW v \in Vids, PrewarmSpawned(c, v) PROVE PrewarmWaits'
  <2>1. UNCHANGED <<stage, spec>> /\ \E r : req' = [req EXCEPT ![c] = r]
    BY <1>5 DEF PrewarmSpawned, dlVars
  <2>2. Cardinality(PrewarmPermitsTaken') <= PrewarmMax
    <3>1. PrewarmPermitsTaken' \in SUBSET (PrewarmPermitsTaken \cup {c})
      BY <2>1 DEF PrewarmPermitsTaken, TypeInv, TypeOK, Clients
    <3>2. c \notin PrewarmPermitsTaken
      BY <1>5 DEF PrewarmSpawned, PrewarmPermitsTaken
    <3>3. /\ IsFiniteSet(PrewarmPermitsTaken \cup {c})
          /\ Cardinality(PrewarmPermitsTaken \cup {c}) = Cardinality(PrewarmPermitsTaken) + 1
      BY <3>2, PermitsFinite, FS_AddElement
    <3>4. /\ Cardinality(PrewarmPermitsTaken') <= Cardinality(PrewarmPermitsTaken) + 1
          /\ Cardinality(PrewarmPermitsTaken') \in Nat
      BY <3>1, <3>3, FS_Subset, FS_CardinalityType
    <3> QED
      BY <1>5, <3>4, PermitsFinite DEF PrewarmSpawned
  <2>3. c \in Clients /\ (spec \cap Unfinished)' = spec \cap Unfinished /\ req[c].pc # "wait"
    BY <1>5, <2>1 DEF Clients, Unfinished, PrewarmSpawned
  <2> QED
    BY <2>1, <2>2, <2>3, WaitersKept DEF PrewarmWaits
<1>6. ASSUME NEW c \in Clients,
             \/ LooksAtDisk(c) \/ FetchKnownDead(c) \/ FetchJoins(c) \/ FetchRefused(c)
             \/ Wakes(c) \/ Reopens(c) \/ Cancelled(c)
      PROVE  PrewarmWaits'
  <2>1. UNCHANGED <<stage, spec>> /\ req[c].pc # "idle" /\ \E r : req' = [req EXCEPT ![c] = r]
    BY <1>6 DEF LooksAtDisk, FetchKnownDead, FetchJoins, FetchRefused, Wakes, Reopens,
       Cancelled, dlVars
  <2>2. req[c].pc # "wait" \/ c \in Requests \/ req[c].gen \notin Unfinished
    BY <1>6 DEF LooksAtDisk, FetchKnownDead, FetchJoins, FetchRefused, Wakes, Reopens,
       Cancelled, Unfinished, Ended, Holding
  <2> QED
    BY <1>3, <2>1, <2>2
<1>7. ASSUME NEW c \in Clients, FetchStarts(c) PROVE PrewarmWaits'
  <2>1. /\ req[c].pc = "fetch" /\ req'[c].gen = dlGen /\ req'[c].pc = "wait"
        /\ \E r : req' = [req EXCEPT ![c] = r]
    BY <1>7, WaitsFor DEF FetchStarts, NewGen
  <2>2. Cardinality(PrewarmPermitsTaken') <= PrewarmMax
    BY <2>1, PermitsKept
  <2>3. /\ stage' = [stage EXCEPT ![dlGen] = FirstStage] /\ dlGen \in Gens
        /\ spec' = IF c \in Prewarms THEN spec \cup {dlGen} ELSE spec
        /\ dlGen \notin spec
    BY <1>7 DEF FetchStarts, NewGen, TypeInv, TypeOK, Gens, FreshGens
  <2>4. ASSUME NEW g \in spec' \cap Unfinished'
        PROVE  \E p \in Prewarms : req'[p].pc = "wait" /\ req'[p].gen = g
    <3>1. CASE g = dlGen
      BY <2>1, <2>3, <2>4, <3>1
    <3>2. CASE g # dlGen
      <4>1. g \in spec \cap Unfinished
        BY <2>3, <2>4, <3>2 DEF Unfinished, TypeInv, TypeOK
      <4> QED
        BY <2>1, <4>1, WaitersKept
    <3> QED
      BY <3>1, <3>2
  <2> QED
    BY <2>2, <2>4 DEF PrewarmWaits
<1> QED
  <2>1. \/ Tick \/ HourlyEviction \/ UNCHANGED vars
        \/ \E c \in Requests, v \in Vids : PlayArrives(c, v) \/ CropArrives(c, v)
        \/ \E p \in Prewarms, v \in Vids : PrewarmSpawned(p, v)
        \/ \E c \in Clients : ClientStep(c) \/ Cancelled(c)
        \/ \E g \in Gens : DownloadStep(g)
    BY DEF Next
  <2> QED
    BY <1>2, <1>4, <1>5, <1>6, <1>7, <2>1 DEF ClientStep

(* No more unfinished speculative downloads than prewarms with a permit.   *)
LEMMA RoomLeft == TypeInv /\ PrewarmWaits => PrewarmLeavesRoom
<1> SUFFICES ASSUME TypeInv, PrewarmWaits PROVE Cardinality(spec \cap Unfinished) <= PrewarmMax
  BY DEF PrewarmLeavesRoom
<1> DEFINE S == {p \in PrewarmPermitsTaken : req[p].gen \in spec \cap Unfinished}
           f == [p \in S |-> req[p].gen]
<1>1. \A g \in spec \cap Unfinished : \E p \in S : req[p].gen = g
  BY DEF PrewarmWaits, PrewarmPermitsTaken
<1>2. f \in Surjection(S, spec \cap Unfinished)
  <2>1. f \in [S -> spec \cap Unfinished]
    OBVIOUS
  <2>2. \A g \in spec \cap Unfinished : \E p \in S : f[p] = g
    BY <1>1
  <2> QED
    BY <2>1, <2>2, Zenon DEF Surjection
<1>3. IsFiniteSet(S) /\ Cardinality(S) <= Cardinality(PrewarmPermitsTaken)
  <2>1. S \in SUBSET PrewarmPermitsTaken
    OBVIOUS
  <2> QED
    BY <2>1, PermitsFinite, FS_Subset
<1>4. /\ IsFiniteSet(spec \cap Unfinished)
      /\ Cardinality(spec \cap Unfinished) <= Cardinality(S)
  BY <1>2, <1>3, FS_Surjection
<1>5. Cardinality(S) \in Nat /\ Cardinality(spec \cap Unfinished) \in Nat
  BY <1>3, <1>4, FS_CardinalityType
<1> QED
  BY <1>3, <1>4, <1>5, PermitsFinite DEF PrewarmWaits

(* Speculation never takes more downloads than PREWARM_MAX.                *)
THEOREM PrewarmRoom == Spec => []PrewarmLeavesRoom
<1>1. Init => PrewarmWaits
  <2> SUFFICES ASSUME Init PROVE PrewarmWaits
    OBVIOUS
  <2>1. PrewarmPermitsTaken = {}
    BY IdleType DEF Init, PrewarmPermitsTaken, Clients
  <2> QED
    BY <2>1, FS_EmptySet DEF Init, PrewarmWaits
<1>2. IInv /\ PrewarmWaits => PrewarmLeavesRoom
  BY RoomLeft DEF IInv
<1> QED
  BY <1>1, <1>2, PrewarmStep, Invariant, PTL DEF Spec

(* A trailer a killed bake has half rewritten is never published.          *)
THEOREM Whole == Spec => []ServedIsWhole
<1>1. Init => ServedIsWhole
  BY DEF Init, ServedIsWhole
<1>2. IInv /\ ServedIsWhole /\ [Next]_vars => ServedIsWhole'
  <2> SUFFICES ASSUME IInv, ServedIsWhole, [Next]_vars PROVE ServedIsWhole'
    OBVIOUS
  <2>1. ASSUME UNCHANGED disk PROVE ServedIsWhole'
    BY <2>1 DEF ServedIsWhole
  <2>2. CASE Tick \/ UNCHANGED vars
    BY <2>1, <2>2 DEF Tick, vars
  <2>3. CASE HourlyEviction
    BY <2>3 DEF HourlyEviction, Evicted, ServedIsWhole
  <2>4. ASSUME NEW c \in Clients, NEW v \in Vids,
               PlayArrives(c, v) \/ CropArrives(c, v) \/ PrewarmSpawned(c, v)
        PROVE  ServedIsWhole'
    BY <2>1, <2>4 DEF PlayArrives, CropArrives, PrewarmSpawned
  <2>5. ASSUME NEW c \in Clients, ClientStep(c) \/ Cancelled(c) PROVE ServedIsWhole'
    BY <2>1, <2>5 DEF ClientStep, LooksAtDisk, FetchKnownDead, FetchJoins, FetchRefused,
       FetchStarts, Wakes, Reopens, Cancelled
  <2>6. ASSUME NEW g \in Gens, NEW run \in BakeRuns, Publishes(g, run) PROVE ServedIsWhole'
    BY <2>6 DEF Publishes, BakeRuns, BakeOutcome, FileAfter, ServedIsWhole, IInv, TypeInv, TypeOK
  <2>7. ASSUME NEW g \in Gens, Succeeds(g) PROVE ServedIsWhole'
    BY <2>7 DEF Succeeds, Evicted, ServedIsWhole
  <2>8. ASSUME NEW g \in Gens, DownloadStep(g), ~Succeeds(g),
               ~(\E run \in BakeRuns : Publishes(g, run))
        PROVE  ServedIsWhole'
    BY <2>1, <2>8 DEF DownloadStep, Acquires, ExtractOk, ExtractFails, PublishFails, DriverEnds
  <2> QED
    BY <2>2, <2>3, <2>4, <2>5, <2>6, <2>7, <2>8, StepKinds
<1> QED
  BY <1>1, <1>2, Invariant, PTL DEF Spec
=============================================================================
