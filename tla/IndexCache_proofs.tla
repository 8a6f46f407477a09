------------------------- MODULE IndexCache_proofs -------------------------
(***************************************************************************)
(* Theorems about IndexCache, for every finite set of streams, any set of  *)
(* URLs, any number of clients and every bound.                            *)
(***************************************************************************)
EXTENDS IndexCache, FiniteSetTheorems, TLAPS

(* An entry names a build that was started for its key and its URL.        *)
Owned(map) ==
  \A k \in Keys : map[k] # NoEntry =>
    /\ map[k].job \in Jobs /\ map[k].job < nextJob
    /\ job[map[k].job].key = k /\ job[map[k].job].url = map[k].url

(* What a build may reuse is of its own URL, and what it has made fits it. *)
JobFits(j) ==
  /\ job[j].muted # NoJob => /\ job[j].muted \in Jobs /\ job[j].muted < nextJob
                             /\ job[job[j].muted].url = job[j].url
  /\ job[j].half # 0 => job[j].half = job[j].url.bytes
  /\ stage[j] = "ok" => layout[j].bytes = job[j].url.bytes

(* A client waits for a build of the URL it asked for.                     *)
WaitsForItsUrl(c) ==
  client[c] # Away => /\ client[c].job \in Jobs /\ client[c].job < nextJob
                      /\ job[client[c].job].url = client[c].url

FreshJobs == \A j \in Jobs : j >= nextJob => stage[j] = "none"

IInv ==
  /\ TypeOK
  /\ FreshJobs
  /\ Owned(index) /\ Owned(parked)
  /\ \A j \in Jobs : JobFits(j)
  /\ \A c \in Clients : WaitsForItsUrl(c)
  /\ FailureIsNotKept
  /\ PermitsFollowBuilds
  /\ IndexBounded /\ Cardinality(Held(parked)) <= IndexMax

USE IndexAssumption DEF NoJob

JobType == [key : Keys, url : AnyUrl, candidate : Jobs \cup {NoJob},
            muted : Jobs \cup {NoJob}, half : Nat]
LayoutType == [fields : Nat, bytes : Nat, sources : BOOLEAN]

----------------------------------------------------------------------------
(* Helpers.                                                                *)

(* What a URL says are numbers.                                            *)
LEMMA UrlType == \A u \in AnyUrl : u.fields \in Nat /\ u.bytes \in Nat /\ u.until \in Nat
BY DEF AnyUrl, NoUrl

(* The empty entry is one.                                                 *)
LEMMA NoEntryType == NoEntry \in EntryType /\ Away \in EntryType
BY DEF NoEntry, Away, EntryType, AnyUrl

(* What a map holds is finite, and so are the builds that run.             *)
LEMMA HeldFinite ==
  ASSUME NEW map
  PROVE  /\ Held(map) \in SUBSET Keys
         /\ IsFiniteSet(Held(map)) /\ Cardinality(Held(map)) \in Nat
<1>1. Held(map) \in SUBSET Keys
  BY DEF Held
<1> QED
  BY <1>1, FS_Subset, FS_CardinalityType

(* A set of builds is finite.                                              *)
LEMMA JobsFinite ==
  ASSUME NEW S \in SUBSET Jobs
  PROVE  IsFiniteSet(S) /\ Cardinality(S) \in Nat
<1>1. IsFiniteSet(Jobs)
  BY FS_Interval DEF Jobs
<1> QED
  BY <1>1, FS_Subset, FS_CardinalityType

(* A map that keeps some entries of another holds no more than it.         *)
LEMMA ThinnedShrinks ==
  ASSUME NEW map, NEW other, \A k \in Keys : other[k] \in {map[k], NoEntry}
  PROVE  Cardinality(Held(other)) <= Cardinality(Held(map))
<1>1. Held(other) \in SUBSET Held(map)
  BY DEF Held
<1> QED
  BY <1>1, HeldFinite, FS_Subset

(* Making room takes entries away and leaves fewer than the bound.         *)
LEMMA RoomMade ==
  ASSUME NEW map \in [Keys -> EntryType]
  PROVE  /\ RoomForOne(map) \in [Keys -> EntryType]
         /\ \A k \in Keys : RoomForOne(map)[k] \in {map[k], NoEntry}
         /\ Cardinality(Held(RoomForOne(map))) < IndexMax
<1> DEFINE none == [k \in Keys |-> NoEntry]
<1>1. Held(none) = {}
  BY DEF Held
<1>2. Cardinality(Held(none)) = 0
  BY <1>1, FS_EmptySet
<1> HIDE DEF none
<1>3. Cardinality(Held(none)) < IndexMax
  BY <1>2
<1>4. Cardinality(Held(RoomForOne(map))) < IndexMax
  BY <1>3 DEF RoomForOne, none
<1> QED
  BY <1>4, NoEntryType DEF RoomForOne

(* One more entry in a map with room is within the bound.                  *)
LEMMA RoomUsed ==
  ASSUME NEW map \in [Keys -> EntryType], NEW k \in Keys, NEW e,
         Cardinality(Held(map)) < IndexMax
  PROVE  Cardinality(Held([map EXCEPT ![k] = e])) <= IndexMax
<1> DEFINE new == [map EXCEPT ![k] = e]
<1>1. Held(new) \in SUBSET (Held(map) \cup {k})
  BY DEF Held
<1>2. IsFiniteSet(Held(map)) /\ Cardinality(Held(map)) \in Nat
  BY HeldFinite
<1>3. IsFiniteSet(Held(map) \cup {k})
  BY <1>2, FS_AddElement
<1>4. \/ Cardinality(Held(map) \cup {k}) = Cardinality(Held(map))
      \/ Cardinality(Held(map) \cup {k}) = Cardinality(Held(map)) + 1
  BY <1>2, FS_AddElement
<1>5. Cardinality(Held(new)) <= Cardinality(Held(map) \cup {k})
  BY <1>1, <1>3, FS_Subset
<1>6. Cardinality(Held(new)) \in Nat
  BY HeldFinite
<1>7. Cardinality(Held(new)) <= IndexMax
  <2> HIDE DEF new
  <2> QED
    BY <1>2, <1>4, <1>5, <1>6
<1> QED
  BY <1>7

(* A permit given back by a build that ends.                               *)
LEMMA GivesBack ==
  ASSUME TypeOK, PermitsFollowBuilds, NEW j \in Jobs, stage[j] \in Running, NEW s \in Stages,
         stage' = [stage EXCEPT ![j] = s],
         permit' = IF s \in Running THEN permit ELSE permit \ {j}
  PROVE  PermitsFollowBuilds'
<1>1. permit' = {i \in Jobs : stage'[i] \in Running}
  BY DEF PermitsFollowBuilds, TypeOK
<1>2. permit' \in SUBSET permit /\ permit \in SUBSET Jobs
  BY DEF PermitsFollowBuilds
<1>3. /\ Cardinality(permit') <= Cardinality(permit)
      /\ Cardinality(permit') \in Nat /\ Cardinality(permit) \in Nat
  BY <1>2, JobsFinite, FS_Subset
<1>4. Cardinality(permit') <= BuildMax
  BY <1>3 DEF PermitsFollowBuilds
<1> QED
  BY <1>1, <1>4 DEF PermitsFollowBuilds

(* Who validates has what to validate, who joins has whom to join.         *)
LEMMA Partners ==
  ASSUME TypeOK, NEW j \in Jobs
  PROVE  /\ stage[j] = "validating" => job[j].candidate # NoJob
         /\ stage[j] = "joining" => job[j].muted # NoJob
BY DEF TypeOK

(* The initial states.                                                     *)
LEMMA InitOk == Init => IInv
<1> SUFFICES ASSUME Init PROVE IInv
  OBVIOUS
<1>1. (CHOOSE k \in Keys : TRUE) \in Keys
  BY DEF Keys
<1>2. TypeOK
  BY <1>1, NoEntryType DEF Init, TypeOK, Stages, NoLayout, Jobs, AnyUrl, NoUrl
<1>3. /\ Held(index) = {} /\ Held(parked) = {}
      /\ permit = {} /\ {j \in Jobs : stage[j] \in Running} = {}
  BY DEF Init, Held, Running
<1>4. IndexBounded /\ Cardinality(Held(parked)) <= IndexMax /\ PermitsFollowBuilds
  <2>1. Cardinality({}) = 0 /\ 0 <= IndexMax /\ 0 <= BuildMax
    BY FS_EmptySet
  <2>2. IndexBounded
    BY <1>3, <2>1 DEF IndexBounded
  <2>3. Cardinality(Held(parked)) <= IndexMax
    BY <1>3, <2>1
  <2>4. PermitsFollowBuilds
    BY <1>3, <2>1 DEF PermitsFollowBuilds
  <2> QED
    BY <2>2, <2>3, <2>4
<1>5. \A j \in Jobs : JobFits(j)
  BY DEF Init, JobFits
<1>6. Owned(index) /\ Owned(parked) /\ FailureIsNotKept /\ FreshJobs
  BY DEF Init, Owned, FailureIsNotKept, FreshJobs
<1>7. \A c \in Clients : WaitsForItsUrl(c)
  BY DEF Init, WaitsForItsUrl
<1> QED
  BY <1>2, <1>4, <1>5, <1>6, <1>7 DEF IInv

----------------------------------------------------------------------------
(* Clients and the clock.                                                  *)

(* Nothing but who waits, for what, and what the time is.                  *)
LEMMA ClientKeeps ==
  ASSUME IInv, UNCHANGED <<up, index, nextJob, stage, job, permit, layout, parked>>,
         now' \in Nat, client' \in [Clients -> EntryType],
         \A c \in Clients : WaitsForItsUrl(c)'
  PROVE  IInv'
<1>1. TypeOK'
  BY DEF IInv, TypeOK
<1>2. FreshJobs' /\ Owned(index)' /\ Owned(parked)'
  BY DEF IInv, FreshJobs, Owned
<1>3. \A j \in Jobs : JobFits(j)'
  BY DEF IInv, JobFits
<1> QED
  BY <1>1, <1>2, <1>3 DEF IInv, FailureIsNotKept, PermitsFollowBuilds, IndexBounded, Held

(* A client joins, is answered or leaves, or time passes.                  *)
LEMMA ClientStep ==
  ASSUME IInv,
         \/ Tick \/ UNCHANGED vars
         \/ \E c \in Clients, k \in Keys, u \in Urls : Joins(c, k, u)
         \/ \E c \in Clients : Answered(c) \/ Leaves(c)
  PROVE  IInv'
<1>1. CASE Tick \/ UNCHANGED vars
  <2>1. UNCHANGED <<up, index, nextJob, stage, job, permit, layout, client, parked>> /\ now' \in Nat
    BY <1>1 DEF Tick, vars, IInv, TypeOK
  <2>2. \A c \in Clients : WaitsForItsUrl(c)'
    BY <2>1 DEF IInv, WaitsForItsUrl
  <2> QED
    BY <2>1, <2>2, ClientKeeps DEF IInv, TypeOK
<1>2. ASSUME NEW c \in Clients, NEW k \in Keys, NEW u \in Urls, Joins(c, k, u) PROVE IInv'
  <2>1. index[k] # NoEntry /\ index[k].url = u
    BY <1>2 DEF Joins, Serves
  <2>2. /\ index[k].job \in Jobs /\ index[k].job < nextJob
        /\ job[index[k].job].url = u
    BY <2>1 DEF IInv, Owned
  <2>3. client' = [client EXCEPT ![c] = [job |-> index[k].job, url |-> u]]
    BY <1>2 DEF Joins
  <2>4. UNCHANGED <<now, up, index, nextJob, stage, job, permit, layout, parked>>
    BY <1>2 DEF Joins
  <2>5. client' \in [Clients -> EntryType]
    BY <2>2, <2>3 DEF IInv, TypeOK, EntryType, AnyUrl
  <2>6. \A d \in Clients : WaitsForItsUrl(d)'
    BY <2>2, <2>3, <2>4 DEF IInv, TypeOK, WaitsForItsUrl
  <2> QED
    BY <2>4, <2>5, <2>6, ClientKeeps DEF IInv, TypeOK
<1>3. ASSUME NEW c \in Clients, Answered(c) \/ Leaves(c) PROVE IInv'
  <2>1. /\ client' = [client EXCEPT ![c] = Away]
        /\ UNCHANGED <<now, up, index, nextJob, stage, job, permit, layout, parked>>
    BY <1>3 DEF Answered, Leaves
  <2>2. client' \in [Clients -> EntryType]
    BY <2>1, NoEntryType DEF IInv, TypeOK
  <2>3. \A d \in Clients : WaitsForItsUrl(d)'
    BY <2>1 DEF IInv, TypeOK, WaitsForItsUrl
  <2> QED
    BY <2>1, <2>2, <2>3, ClientKeeps DEF IInv, TypeOK
<1> QED
  BY <1>1, <1>2, <1>3

----------------------------------------------------------------------------
(* Builds.                                                                 *)

(* What a step of a build may do to everything else.                       *)
LEMMA BuildMoves ==
  ASSUME IInv, NEW j \in Jobs, stage[j] \in Running,
         NEW s \in {"joining", "fetching", "ok", "retry", "final"},
         stage' = [stage EXCEPT ![j] = s],
         permit' = IF s \in Running THEN permit ELSE permit \ {j},
         UNCHANGED <<now, up, nextJob, client, parked>>,
         NEW half \in Nat, job' = [job EXCEPT ![j] = [@ EXCEPT !.half = half]],
         half # 0 => half = job[j].url.bytes,
         NEW made \in LayoutType, layout' = [layout EXCEPT ![j] = made],
         s = "ok" => made.bytes = job[j].url.bytes,
         s = "joining" => job[j].muted # NoJob,
         index' \in [Keys -> EntryType],
         \A k \in Keys : index'[k] \in {index[k], NoEntry},
         s = "retry" => \A k \in Keys : index'[k] # NoEntry => index'[k].job # j
  PROVE  IInv'
<1>1. /\ job' \in [Jobs -> JobType] /\ job \in [Jobs -> JobType]
      /\ \A i \in Jobs : /\ job'[i].key = job[i].key /\ job'[i].url = job[i].url
                         /\ job'[i].candidate = job[i].candidate
                         /\ job'[i].muted = job[i].muted
                         /\ i # j => job'[i] = job[i]
      /\ job'[j].half = half
  BY DEF IInv, TypeOK, JobType
<1>2. /\ layout' \in [Jobs -> LayoutType] /\ layout'[j] = made
      /\ \A i \in Jobs : i # j => layout'[i] = layout[i]
  BY DEF IInv, TypeOK, LayoutType
<1>3. /\ stage' \in [Jobs -> Stages] /\ stage'[j] = s
      /\ \A i \in Jobs : i # j => stage'[i] = stage[i]
  BY DEF IInv, TypeOK, Stages, Running, Ended
<1>4. TypeOK'
  <2>1. permit' \subseteq Jobs
    BY DEF IInv, TypeOK
  <2> QED
    BY <1>1, <1>2, <1>3, <2>1 DEF IInv, TypeOK, JobType, LayoutType
<1>5. FreshJobs'
  BY <1>3 DEF IInv, FreshJobs, Running
<1>6. Owned(index)' /\ Owned(parked)'
  BY <1>1 DEF IInv, Owned
<1>7. ASSUME NEW i \in Jobs PROVE JobFits(i)'
  <2>1. JobFits(i)
    BY DEF IInv
  <2>2. CASE i = j
    BY <1>1, <1>2, <1>3, <2>1, <2>2 DEF JobFits
  <2>3. CASE i # j
    BY <1>1, <1>2, <1>3, <2>1, <2>3 DEF JobFits
  <2> QED
    BY <2>2, <2>3
<1>8. \A c \in Clients : WaitsForItsUrl(c)'
  BY <1>1 DEF IInv, WaitsForItsUrl
<1>9. FailureIsNotKept'
  <2>1. ASSUME NEW k \in Keys, index'[k] # NoEntry
        PROVE  stage'[index'[k].job] \in Running \cup {"ok", "final"}
    <3>1. index'[k] = index[k] /\ index[k].job \in Jobs
      BY <2>1 DEF IInv, Owned
    <3>2. stage[index[k].job] \in Running \cup {"ok", "final"}
      BY <2>1, <3>1 DEF IInv, FailureIsNotKept
    <3>3. index[k].job = j => s # "retry"
      BY <2>1, <3>1
    <3> QED
      BY <1>3, <3>1, <3>2, <3>3 DEF Running
  <2>2. ASSUME NEW k \in Keys, parked[k] # NoEntry PROVE stage'[parked[k].job] = "ok"
    <3>1. parked[k].job \in Jobs /\ stage[parked[k].job] = "ok"
      BY <2>2 DEF IInv, Owned, FailureIsNotKept
    <3> QED
      BY <1>3, <3>1 DEF Running
  <2> QED
    BY <2>1, <2>2 DEF FailureIsNotKept
<1>10. PermitsFollowBuilds'
  <2>1. s \in Stages
    BY DEF Stages, Running, Ended
  <2> QED
    BY <2>1, GivesBack DEF IInv
<1>11. IndexBounded' /\ (Cardinality(Held(parked)) <= IndexMax)'
  <2>1. Cardinality(Held(index')) <= Cardinality(Held(index))
    BY ThinnedShrinks
  <2>2. Cardinality(Held(index')) <= IndexMax
    BY <2>1, HeldFinite DEF IInv, IndexBounded
  <2>3. Cardinality(Held(parked)) <= IndexMax /\ parked' = parked
    BY DEF IInv
  <2> QED
    BY <2>2, <2>3 DEF IndexBounded, Held
<1> QED
  BY <1>4, <1>5, <1>6, <1>7, <1>8, <1>9, <1>10, <1>11 DEF IInv

(* A build's record and layout that do not change, as an update.           *)
LEMMA Same ==
  ASSUME IInv, NEW j \in Jobs
  PROVE  /\ job = [job EXCEPT ![j] = [@ EXCEPT !.half = job[j].half]]
         /\ layout = [layout EXCEPT ![j] = layout[j]]
         /\ job[j].half \in Nat /\ layout[j] \in LayoutType
         /\ job[j].half # 0 => job[j].half = job[j].url.bytes
<1>1. job \in [Jobs -> JobType] /\ layout \in [Jobs -> LayoutType]
  BY DEF IInv, TypeOK, JobType, LayoutType
<1>2. job[j] = [job[j] EXCEPT !.half = job[j].half]
  BY <1>1 DEF JobType
<1>3. JobFits(j)
  BY DEF IInv
<1> QED
  BY <1>1, <1>2, <1>3 DEF JobFits, JobType

(* Every step of a build keeps IInv.                                       *)
LEMMA BuildKeeps ==
  ASSUME IInv, NEW j \in Jobs, BuildStep(j)
  PROVE  IInv'
<1>1. /\ job[j] \in JobType /\ job[j].url \in AnyUrl
      /\ index \in [Keys -> EntryType]
  BY DEF IInv, TypeOK, JobType
<1>2. JobFits(j)
  BY DEF IInv
<1>3. ASSUME Validated(j) PROVE IInv'
  <2> DEFINE made == layout[job[j].candidate]
  <2>1. job[j].candidate \in Jobs
    <3>1. job[j].candidate \in Jobs \cup {NoJob}
      BY <1>1 DEF JobType
    <3>2. job[j].candidate # NoJob
      BY <1>3, Partners DEF Validated, IInv
    <3> QED
      BY <3>1, <3>2
  <2>2. made \in LayoutType /\ made.bytes = job[j].url.bytes
    BY <1>3, <2>1 DEF Validated, SameHead, IInv, TypeOK, LayoutType
  <2>3. /\ stage[j] \in Running /\ stage' = [stage EXCEPT ![j] = "ok"]
        /\ permit' = IF "ok" \in Running THEN permit ELSE permit \ {j}
        /\ layout' = [layout EXCEPT ![j] = made]
        /\ UNCHANGED <<now, up, nextJob, client, parked, job, index>>
    BY <1>3 DEF Validated, Running
  <2>4. /\ index' \in [Keys -> EntryType]
        /\ \A k \in Keys : index'[k] \in {index[k], NoEntry}
    BY <1>1, <2>3
  <2>5. job' = [job EXCEPT ![j] = [@ EXCEPT !.half = job[j].half]]
    BY <2>3, Same
  <2> HIDE DEF made
  <2> QED
    BY <2>2, <2>3, <2>4, <2>5, Same, BuildMoves
<1>4. ASSUME Rejected(j) PROVE IInv'
  <2>1. /\ stage[j] \in Running /\ stage' = [stage EXCEPT ![j] = FirstStage(NoJob, job[j].muted)]
        /\ UNCHANGED <<now, up, nextJob, client, parked, job, permit, layout, index>>
    BY <1>4 DEF Rejected, Running
  <2>2. /\ index' \in [Keys -> EntryType]
        /\ \A k \in Keys : index'[k] \in {index[k], NoEntry}
    BY <1>1, <2>1
  <2>3. job' = [job EXCEPT ![j] = [@ EXCEPT !.half = job[j].half]]
    BY <2>1, Same
  <2>4. layout' = [layout EXCEPT ![j] = layout[j]]
    BY <2>1, Same
  <2>5. CASE job[j].muted # NoJob
    <3>1. /\ stage[j] \in Running /\ stage' = [stage EXCEPT ![j] = "joining"]
          /\ permit' = IF "joining" \in Running THEN permit ELSE permit \ {j}
          /\ UNCHANGED <<now, up, nextJob, client, parked>>
      BY <2>1, <2>5 DEF FirstStage, Running
    <3> QED
      BY <2>2, <2>3, <2>4, <2>5, <3>1, Same, BuildMoves
  <2>6. CASE job[j].muted = NoJob
    <3>1. /\ stage[j] \in Running /\ stage' = [stage EXCEPT ![j] = "fetching"]
          /\ permit' = IF "fetching" \in Running THEN permit ELSE permit \ {j}
          /\ UNCHANGED <<now, up, nextJob, client, parked>>
      BY <2>1, <2>6 DEF FirstStage, Running
    <3> QED
      BY <2>2, <2>3, <2>4, <3>1, Same, BuildMoves
  <2> QED
    BY <2>5, <2>6
<1>5. ASSUME MutedEnded(j) PROVE IInv'
  <2> DEFINE m == job[j].muted
             half == IF stage[m] = "ok" /\ layout[m].sources THEN layout[m].bytes ELSE 0
  <2>1. m # NoJob /\ m \in Jobs /\ job[m].url = job[j].url
    BY <1>2, <1>5 DEF MutedEnded, IInv, TypeOK, JobFits
  <2>2. JobFits(m) /\ layout[m].bytes \in Nat
    BY <2>1 DEF IInv, TypeOK
  <2>3. half \in Nat /\ (half # 0 => half = job[j].url.bytes)
    BY <2>1, <2>2 DEF JobFits
  <2>4. /\ stage[j] \in Running /\ stage' = [stage EXCEPT ![j] = "fetching"]
        /\ permit' = IF "fetching" \in Running THEN permit ELSE permit \ {j}
        /\ job' = [job EXCEPT ![j] = [@ EXCEPT !.half = half]]
        /\ UNCHANGED <<now, up, nextJob, client, parked, layout, index>>
    BY <1>5 DEF MutedEnded, Running
  <2>5. /\ index' \in [Keys -> EntryType]
        /\ \A k \in Keys : index'[k] \in {index[k], NoEntry}
    BY <1>1, <2>4
  <2>6. layout' = [layout EXCEPT ![j] = layout[j]]
    BY <2>4, Same
  <2> HIDE DEF half, m
  <2> QED
    BY <2>3, <2>4, <2>5, <2>6, Same, BuildMoves
<1>6. ASSUME Built(j) PROVE IInv'
  <2> DEFINE made == [fields |-> job[j].url.fields, sources |-> TRUE,
                      bytes |-> IF job[j].half # 0 THEN job[j].half ELSE job[j].url.bytes]
  <2>1. made \in LayoutType /\ made.bytes = job[j].url.bytes
    BY <1>1, <1>2, UrlType DEF JobFits, LayoutType
  <2>2. /\ stage[j] \in Running /\ stage' = [stage EXCEPT ![j] = "ok"]
        /\ permit' = IF "ok" \in Running THEN permit ELSE permit \ {j}
        /\ layout' = [layout EXCEPT ![j] = made]
        /\ UNCHANGED <<now, up, nextJob, client, parked, job, index>>
    BY <1>6 DEF Built, Running
  <2>3. /\ index' \in [Keys -> EntryType]
        /\ \A k \in Keys : index'[k] \in {index[k], NoEntry}
    BY <1>1, <2>2
  <2>4. job' = [job EXCEPT ![j] = [@ EXCEPT !.half = job[j].half]]
    BY <2>2, Same
  <2> HIDE DEF made
  <2> QED
    BY <2>1, <2>2, <2>3, <2>4, Same, BuildMoves
<1>7. ASSUME FetchFails(j) PROVE IInv'
  <2>1. job[j].key \in Keys
    BY <1>1 DEF JobType
  <2>2. index' = IF index[job[j].key].url = job[j].url
                 THEN [index EXCEPT ![job[j].key] = NoEntry] ELSE index
    BY <1>7 DEF FetchFails, Dropped, Forgotten
  <2>3. /\ index' \in [Keys -> EntryType]
        /\ \A k \in Keys : index'[k] \in {index[k], NoEntry}
    BY <1>1, <2>1, <2>2, NoEntryType
  <2>4. ASSUME NEW k \in Keys, index'[k] # NoEntry PROVE index'[k].job # j
    <3>1. index'[k] = index[k]
      BY <2>3, <2>4
    <3>2. index[k].job = j => k = job[j].key /\ index[k].url = job[j].url
      BY <2>4, <3>1 DEF IInv, Owned
    <3> QED
      BY <1>1, <2>2, <2>4, <3>1, <3>2
  <2>5. /\ stage[j] \in Running /\ stage' = [stage EXCEPT ![j] = "retry"]
        /\ permit' = IF "retry" \in Running THEN permit ELSE permit \ {j}
        /\ UNCHANGED <<now, up, nextJob, client, parked, job, layout>>
    BY <1>7 DEF FetchFails, Running
  <2>6. \A k \in Keys : index'[k] # NoEntry => index'[k].job # j
    BY <2>4
  <2>7. /\ job' = [job EXCEPT ![j] = [@ EXCEPT !.half = job[j].half]]
        /\ layout' = [layout EXCEPT ![j] = layout[j]]
    BY <2>5, Same
  <2> QED
    BY <2>3, <2>5, <2>6, <2>7, Same, BuildMoves
<1>8. ASSUME Unreadable(j) PROVE IInv'
  <2>1. /\ stage[j] \in Running /\ stage' = [stage EXCEPT ![j] = "final"]
        /\ permit' = IF "final" \in Running THEN permit ELSE permit \ {j}
        /\ UNCHANGED <<now, up, nextJob, client, parked, job, layout, index>>
    BY <1>8 DEF Unreadable, Running
  <2>2. /\ index' \in [Keys -> EntryType]
        /\ \A k \in Keys : index'[k] \in {index[k], NoEntry}
    BY <1>1, <2>1
  <2>3. job' = [job EXCEPT ![j] = [@ EXCEPT !.half = job[j].half]]
    BY <2>1, Same
  <2>4. layout' = [layout EXCEPT ![j] = layout[j]]
    BY <2>1, Same
  <2> QED
    BY <2>1, <2>2, <2>3, <2>4, Same, BuildMoves
<1> QED
  BY <1>3, <1>4, <1>5, <1>6, <1>7, <1>8 DEF BuildStep

(* A build starts: under a number nobody uses, in a map with room.         *)
LEMMA StartKeeps ==
  ASSUME IInv, NEW c \in Clients, NEW k \in Keys, NEW u \in Urls, Starts(c, k, u)
  PROVE  IInv'
<1> DEFINE n == nextJob
           candidate == IF Rotated(k, u) THEN index[k].job ELSE NoJob
           muted == OneOf(MutedBuild(k, u))
           new == [key |-> k, url |-> u, candidate |-> candidate, muted |-> muted, half |-> 0]
           room == RoomForOne(index)
<1>1. /\ n \in Jobs /\ nextJob' = n + 1 /\ n \in Nat
      /\ Cardinality(permit) < BuildMax /\ permit' = permit \cup {n}
      /\ job' = [job EXCEPT ![n] = new]
      /\ stage' = [stage EXCEPT ![n] = FirstStage(candidate, muted)]
      /\ index' = [room EXCEPT ![k] = [url |-> u, job |-> n]]
      /\ client' = [client EXCEPT ![c] = [job |-> n, url |-> u]]
      /\ UNCHANGED <<now, up, layout, parked>>
  BY DEF Starts, IInv, TypeOK, Jobs
<1>2. candidate \in Jobs \cup {NoJob}
  BY DEF IInv, TypeOK, EntryType
<1>3. muted # NoJob => muted \in Jobs /\ muted < n /\ job[muted].url = u
  <2>1. ASSUME NEW m \in MutedBuild(k, u) PROVE m \in Jobs /\ m < n /\ job[m].url = u
    <3>1. PICK v \in VideoOf(k) : Serves(v, u) /\ m = index[v].job
      BY <2>1 DEF MutedBuild
    <3>2. v \in Keys
      BY DEF VideoOf, Keys
    <3> QED
      BY <3>1, <3>2 DEF IInv, Owned, Serves
  <2> QED
    BY <2>1 DEF OneOf
<1>4. room \in [Keys -> EntryType] /\ Cardinality(Held(room)) < IndexMax
      /\ \A i \in Keys : room[i] \in {index[i], NoEntry}
  BY RoomMade DEF IInv, TypeOK
<1>5. stage[n] = "none" /\ FirstStage(candidate, muted) \in Running
      /\ (FirstStage(candidate, muted) = "validating" => candidate # NoJob)
      /\ (FirstStage(candidate, muted) = "joining" => muted # NoJob)
  BY <1>1 DEF IInv, FreshJobs, FirstStage, Running
<1>6. [url |-> u, job |-> n] \in EntryType
  BY <1>1 DEF EntryType, AnyUrl
<1>7. /\ job \in [Jobs -> JobType] /\ new \in JobType
      /\ new.key = k /\ new.url = u /\ new.candidate = candidate
      /\ new.muted = muted /\ new.half = 0
  BY <1>2, <1>3 DEF IInv, TypeOK, JobType, AnyUrl
<1> HIDE DEF n, candidate, muted, new, room
<1>8. /\ job'[n] = new /\ \A i \in Jobs : i # n => job'[i] = job[i]
      /\ job' \in [Jobs -> JobType]
      /\ stage'[n] \in Running /\ \A i \in Jobs : i # n => stage'[i] = stage[i]
      /\ stage' \in [Jobs -> Stages]
  BY <1>1, <1>5, <1>7 DEF IInv, TypeOK, Stages
<1>9. TypeOK'
  <2>1. index' \in [Keys -> EntryType] /\ client' \in [Clients -> EntryType]
    BY <1>1, <1>4, <1>6 DEF IInv, TypeOK
  <2>2. nextJob' \in 1 .. MaxJobs + 1 /\ permit' \subseteq Jobs
    BY <1>1 DEF Jobs, IInv, TypeOK
  <2>3. ASSUME NEW i \in Jobs
        PROVE  /\ stage'[i] = "validating" => job'[i].candidate # NoJob
               /\ stage'[i] = "joining" => job'[i].muted # NoJob
    <3>1. CASE i = n
      BY <1>1, <1>5, <1>7, <1>8, <3>1 DEF IInv, TypeOK
    <3>2. CASE i # n
      BY <1>8, <3>2, Partners DEF IInv
    <3> QED
      BY <3>1, <3>2
  <2> QED
    BY <1>1, <1>8, <2>1, <2>2, <2>3 DEF IInv, TypeOK, JobType
<1>10. FreshJobs'
  BY <1>1, <1>8 DEF IInv, FreshJobs, n, Jobs
<1>11. Owned(index)'
  <2>1. ASSUME NEW i \in Keys, index'[i] # NoEntry
        PROVE  /\ index'[i].job \in Jobs /\ index'[i].job < n + 1
               /\ job'[index'[i].job].key = i /\ job'[index'[i].job].url = index'[i].url
    <3>1. CASE i = k
      BY <1>1, <1>4, <1>7, <1>8, <3>1
    <3>2. CASE i # k
      <4>1. index'[i] = index[i] /\ index[i] # NoEntry
        BY <1>1, <1>4, <2>1, <3>2
      <4>2. /\ index[i].job \in Jobs /\ index[i].job < n
            /\ job[index[i].job].key = i /\ job[index[i].job].url = index[i].url
        BY <4>1 DEF IInv, Owned, n
      <4> QED
        BY <1>1, <1>8, <4>1, <4>2 DEF Jobs
    <3> QED
      BY <3>1, <3>2
  <2> QED
    BY <1>1, <2>1 DEF Owned
<1>12. Owned(parked)'
  BY <1>1, <1>8 DEF IInv, Owned, n, Jobs
<1>13. ASSUME NEW i \in Jobs PROVE JobFits(i)'
  <2>1. JobFits(i)
    BY DEF IInv
  <2>2. CASE i = n
    BY <1>1, <1>3, <1>7, <1>8, <2>2 DEF JobFits, Running, Jobs
  <2>3. CASE i # n
    <3>1. job[i].muted # NoJob => job[i].muted \in Jobs /\ job[i].muted < n
      BY <2>1 DEF JobFits, n
    <3> QED
      BY <1>1, <1>8, <2>1, <2>3, <3>1 DEF JobFits, Jobs
  <2> QED
    BY <2>2, <2>3
<1>14. ASSUME NEW d \in Clients PROVE WaitsForItsUrl(d)'
  <2>1. CASE d = c
    BY <1>1, <1>7, <1>8, <2>1 DEF WaitsForItsUrl, IInv, TypeOK
  <2>2. CASE d # c
    BY <1>1, <1>8, <2>2 DEF WaitsForItsUrl, IInv, TypeOK, n, Jobs
  <2> QED
    BY <2>1, <2>2
<1>15. FailureIsNotKept'
  <2>1. ASSUME NEW i \in Keys, index'[i] # NoEntry
        PROVE  stage'[index'[i].job] \in Running \cup {"ok", "final"}
    <3>1. CASE i = k
      BY <1>1, <1>4, <1>8, <3>1
    <3>2. CASE i # k
      <4>1. index'[i] = index[i] /\ index[i] # NoEntry
        BY <1>1, <1>4, <2>1, <3>2
      <4>2. index[i].job \in Jobs /\ index[i].job < n
        BY <4>1 DEF IInv, Owned, n
      <4> QED
        BY <1>1, <1>8, <4>1, <4>2 DEF IInv, FailureIsNotKept, Jobs
    <3> QED
      BY <3>1, <3>2
  <2>2. ASSUME NEW i \in Keys, parked[i] # NoEntry PROVE stage'[parked[i].job] = "ok"
    <3>1. parked[i].job \in Jobs /\ parked[i].job < n /\ stage[parked[i].job] = "ok"
      BY <2>2 DEF IInv, Owned, FailureIsNotKept, n
    <3> QED
      BY <1>1, <1>8, <3>1 DEF Jobs
  <2> QED
    BY <1>1, <2>1, <2>2 DEF FailureIsNotKept
<1>16. PermitsFollowBuilds'
  <2>1. permit = {i \in Jobs : stage[i] \in Running} /\ permit \in SUBSET Jobs
    BY DEF IInv, PermitsFollowBuilds
  <2>2. permit' = {i \in Jobs : stage'[i] \in Running}
    BY <1>1, <1>8, <2>1
  <2>3. IsFiniteSet(permit) /\ Cardinality(permit) \in Nat
    BY <2>1, JobsFinite
  <2>4. \/ Cardinality(permit \cup {n}) = Cardinality(permit)
        \/ Cardinality(permit \cup {n}) = Cardinality(permit) + 1
    BY <2>3, FS_AddElement
  <2>5. Cardinality(permit') <= BuildMax
    BY <1>1, <2>3, <2>4
  <2> QED
    BY <2>2, <2>5 DEF PermitsFollowBuilds
<1>17. IndexBounded' /\ (Cardinality(Held(parked)) <= IndexMax)'
  <2>1. Cardinality(Held(index')) <= IndexMax
    BY <1>1, <1>4, RoomUsed
  <2> QED
    BY <1>1, <2>1 DEF IInv, IndexBounded, Held
<1> QED
  BY <1>9, <1>10, <1>11, <1>12, <1>13, <1>14, <1>15, <1>16, <1>17 DEF IInv

----------------------------------------------------------------------------
(* The process goes and comes.                                             *)

(* What is worth parking is a part of the index, and all of it is built.   *)
LEMMA GoneKeeps ==
  ASSUME IInv, Gone,
         \/ parked' = parked
         \/ parked' = [k \in Keys |-> IF WorthParking(k) THEN index[k] ELSE NoEntry]
  PROVE  IInv'
<1>1. /\ up' = FALSE /\ UNCHANGED <<now, nextJob, job>>
      /\ index' = [k \in Keys |-> NoEntry] /\ client' = [c \in Clients |-> Away]
      /\ stage' = [j \in Jobs |-> IF stage[j] \in Running THEN "gone" ELSE stage[j]]
      /\ layout' = [j \in Jobs |-> [layout[j] EXCEPT !.sources = FALSE]]
      /\ permit' = {}
  BY DEF Gone
<1>2. /\ stage' \in [Jobs -> Stages]
      /\ \A j \in Jobs : /\ stage'[j] \notin Running
                         /\ stage'[j] = "ok" <=> stage[j] = "ok"
                         /\ stage[j] = "none" => stage'[j] = "none"
  BY <1>1 DEF IInv, TypeOK, Stages, Running, Ended
<1>3. /\ layout' \in [Jobs -> LayoutType]
      /\ \A j \in Jobs : layout'[j].bytes = layout[j].bytes
  BY <1>1 DEF IInv, TypeOK, LayoutType
<1>4. /\ parked' \in [Keys -> EntryType]
      /\ \A k \in Keys : parked'[k] # NoEntry =>
           /\ parked'[k] \in {parked[k], index[k]}
           /\ stage[parked'[k].job] = "ok"
           /\ parked'[k].job \in Jobs /\ parked'[k].job < nextJob
           /\ job[parked'[k].job].key = k /\ job[parked'[k].job].url = parked'[k].url
  <2>1. CASE parked' = parked
    BY <2>1 DEF IInv, TypeOK, Owned, FailureIsNotKept
  <2>2. CASE parked' = [k \in Keys |-> IF WorthParking(k) THEN index[k] ELSE NoEntry]
    <3>1. parked' \in [Keys -> EntryType]
      BY <2>2, NoEntryType DEF IInv, TypeOK
    <3>2. ASSUME NEW k \in Keys, parked'[k] # NoEntry
          PROVE  /\ parked'[k] = index[k] /\ index[k] # NoEntry
                 /\ stage[index[k].job] = "ok"
      BY <2>2, <3>2 DEF WorthParking
    <3> QED
      BY <3>1, <3>2 DEF IInv, Owned
  <2> QED
    BY <2>1, <2>2
<1>5. TypeOK'
  <2>1. index' \in [Keys -> EntryType] /\ client' \in [Clients -> EntryType]
    BY <1>1, NoEntryType
  <2>2. /\ \A j \in Jobs : stage'[j] # "validating" /\ stage'[j] # "joining"
        /\ permit' \subseteq Jobs
    BY <1>1, <1>2 DEF Running
  <2> QED
    BY <1>1, <1>2, <1>3, <1>4, <2>1, <2>2 DEF IInv, TypeOK, LayoutType
<1>6. FreshJobs'
  BY <1>1, <1>2 DEF IInv, FreshJobs
<1>7. Owned(index)' /\ Owned(parked)'
  BY <1>1, <1>4 DEF Owned
<1>8. \A j \in Jobs : JobFits(j)'
  BY <1>1, <1>2, <1>3 DEF IInv, JobFits
<1>9. \A c \in Clients : WaitsForItsUrl(c)'
  BY <1>1 DEF WaitsForItsUrl
<1>10. FailureIsNotKept'
  BY <1>1, <1>2, <1>4 DEF FailureIsNotKept
<1>11. PermitsFollowBuilds'
  <2>1. permit' = {j \in Jobs : stage'[j] \in Running}
    BY <1>1, <1>2
  <2>2. Cardinality(permit') <= BuildMax
    BY <1>1, FS_EmptySet
  <2> QED
    BY <2>1, <2>2 DEF PermitsFollowBuilds
<1>12. IndexBounded'
  <2>1. Held(index') = {}
    BY <1>1 DEF Held
  <2>2. Cardinality(Held(index')) <= IndexMax
    BY <2>1, FS_EmptySet
  <2> QED
    BY <2>2 DEF IndexBounded, Held
<1>13. (Cardinality(Held(parked)) <= IndexMax)'
  <2>1. CASE parked' = parked
    BY <2>1 DEF IInv, Held
  <2>2. CASE parked' = [k \in Keys |-> IF WorthParking(k) THEN index[k] ELSE NoEntry]
    <3>1. Cardinality(Held(parked')) <= Cardinality(Held(index))
      BY <2>2, ThinnedShrinks
    <3>2. Cardinality(Held(parked')) <= IndexMax
      BY <3>1, HeldFinite DEF IInv, IndexBounded
    <3> QED
      BY <3>2 DEF Held
  <2> QED
    BY <2>1, <2>2
<1> QED
  BY <1>5, <1>6, <1>7, <1>8, <1>9, <1>10, <1>11, <1>12, <1>13 DEF IInv

(* The parked map becomes the index.                                       *)
LEMMA BootKeeps == IInv /\ Boots => IInv'
<1> SUFFICES ASSUME IInv, Boots PROVE IInv'
  OBVIOUS
<1>1. /\ up' = TRUE /\ index' = parked
      /\ UNCHANGED <<now, nextJob, stage, job, permit, layout, client, parked>>
  BY DEF Boots
<1>2. TypeOK'
  BY <1>1 DEF IInv, TypeOK
<1>3. FreshJobs' /\ Owned(index)' /\ Owned(parked)'
  BY <1>1 DEF IInv, FreshJobs, Owned
<1>4. \A j \in Jobs : JobFits(j)'
  BY <1>1 DEF IInv, JobFits
<1>5. \A c \in Clients : WaitsForItsUrl(c)'
  BY <1>1 DEF IInv, WaitsForItsUrl
<1>6. FailureIsNotKept' /\ PermitsFollowBuilds'
  BY <1>1 DEF IInv, FailureIsNotKept, PermitsFollowBuilds
<1>7. IndexBounded' /\ (Cardinality(Held(parked)) <= IndexMax)'
  BY <1>1 DEF IInv, IndexBounded, Held
<1> QED
  BY <1>2, <1>3, <1>4, <1>5, <1>6, <1>7 DEF IInv

----------------------------------------------------------------------------
(* Every step keeps IInv.                                                  *)
LEMMA NextOk == IInv /\ [Next]_vars => IInv'
<1> SUFFICES ASSUME IInv, [Next]_vars PROVE IInv'
  OBVIOUS
<1>1. CASE Tick \/ UNCHANGED vars
  BY <1>1, ClientStep
<1>2. ASSUME NEW c \in Clients, NEW k \in Keys, NEW u \in Urls, Joins(c, k, u) \/ Starts(c, k, u)
      PROVE  IInv'
  BY <1>2, ClientStep, StartKeeps
<1>3. ASSUME NEW c \in Clients, Answered(c) \/ Leaves(c) PROVE IInv'
  BY <1>3, ClientStep
<1>4. ASSUME NEW j \in Jobs, BuildStep(j) PROVE IInv'
  BY <1>4, BuildKeeps
<1>5. CASE ShutsDown \/ Crashes
  BY <1>5, GoneKeeps DEF ShutsDown, Crashes
<1>6. CASE Boots
  BY <1>6, BootKeeps
<1> QED
  BY <1>1, <1>2, <1>3, <1>4, <1>5, <1>6 DEF Next

(* IInv holds in every state.                                              *)
THEOREM Invariant == Spec => []IInv
BY InitOk, NextOk, PTL DEF Spec

(* Every variable keeps its type; whoever validates has something to       *)
(* validate, whoever joins has somebody to join.                           *)
THEOREM TypeCorrect == Spec => []TypeOK
<1>1. IInv => TypeOK
  BY DEF IInv
<1> QED
  BY <1>1, Invariant, PTL

(* Nobody is served another file's index, whatever was joined, reused,     *)
(* validated or restored (layout_for, validate_rotation, reuse_video).     *)
THEOREM NobodyElses == Spec => []IndexFitsUrl
<1>1. ASSUME IInv PROVE IndexFitsUrl
  <2>1. ASSUME NEW c \in Clients, client[c] # Away, stage[client[c].job] = "ok"
        PROVE  layout[client[c].job].bytes = client[c].url.bytes
    <3>1. client[c].job \in Jobs /\ job[client[c].job].url = client[c].url
      BY <1>1, <2>1 DEF IInv, WaitsForItsUrl
    <3>2. JobFits(client[c].job)
      BY <1>1, <3>1 DEF IInv
    <3> QED
      BY <2>1, <3>1, <3>2 DEF JobFits
  <2> QED
    BY <2>1 DEF IndexFitsUrl
<1> QED
  BY <1>1, Invariant, PTL

(* The permits are those of the builds that run, whoever left, whatever was*)
(* evicted and however a build ended (the semaphore of layout_for).        *)
THEOREM Permitted == Spec => []PermitsFollowBuilds
<1>1. IInv => PermitsFollowBuilds
  BY DEF IInv
<1> QED
  BY <1>1, Invariant, PTL

(* A failure that may pass is kept neither in memory nor in the file (the  *)
(* end of build, and park).                                                *)
THEOREM Forgets == Spec => []FailureIsNotKept
<1>1. IInv => FailureIsNotKept
  BY DEF IInv
<1> QED
  BY <1>1, Invariant, PTL

(* The index never holds more than its bound, a restored one included.     *)
THEOREM Bounded == Spec => []IndexBounded
<1>1. IInv => IndexBounded
  BY DEF IInv
<1> QED
  BY <1>1, Invariant, PTL
=============================================================================
