----------------------------- MODULE IndexCache -----------------------------
(***************************************************************************)
(* The indexes behind /progressive (progressive.rs): one build per stream, *)
(* shared by whoever asks while it runs and kept afterwards; a permit for  *)
(* each build, refused rather than queued for; a finished index whose URL  *)
(* was signed anew validated instead of rebuilt; an audible build that     *)
(* reuses the video half of the muted one; the file of parked indexes.     *)
(*                                                                         *)
(* A URL stands for what one resolve named: what its query says of the     *)
(* file, the bytes behind it, and when to stop using it.  Its video and    *)
(* its audio stream share it.                                              *)
(***************************************************************************)
EXTENDS Clock, FiniteSets

CONSTANTS
  Videos,    \* ids at a height: the keys of muted streams
  Audible,   \* a key's sibling with sound, for the videos that have one
  Urls,      \* what resolves may name
  Clients,   \* requests and warm-ups
  IndexMax,  \* PROGRESSIVE_MAX
  BuildMax,  \* INDEX_BUILD_CONCURRENCY
  MaxJobs    \* bound: builds ever started

Keys == Videos \cup {Audible[v] : v \in DOMAIN Audible}

ASSUME IndexAssumption ==
  /\ IsFiniteSet(Keys) /\ Videos # {}
  /\ DOMAIN Audible \subseteq Videos
  /\ \A v \in DOMAIN Audible : Audible[v] \notin Videos
  /\ Urls \subseteq [fields : Nat, bytes : Nat, until : Nat]
  /\ IndexMax \in Nat \ {0}
  /\ BuildMax \in Nat \ {0}
  /\ MaxJobs \in Nat
  /\ MaxNow \in Nat

VARIABLES
  up,       \* the process runs
  index,    \* AppState::progressive: the URL, its deadline and the build of each key
  nextJob,  \* builds are numbered as they start (history)
  stage,    \* where each build stands
  job,      \* what each build is for and what it may reuse
  permit,   \* the builds that own a permit of index_build_sem
  layout,   \* what each build made
  client,   \* the build each client awaits, and the URL it asked for
  parked    \* the file of parked indexes

vars == <<now, up, index, nextJob, stage, job, permit, layout, client, parked>>

----------------------------------------------------------------------------
NoJob == 0
Jobs == 1 .. MaxJobs
NoUrl == [fields |-> 0, bytes |-> 0, until |-> 0]
NoEntry == [url |-> NoUrl, job |-> NoJob]
NoLayout == [fields |-> 0, bytes |-> 0, sources |-> FALSE]
Away == [job |-> NoJob, url |-> NoUrl]

Running == {"validating", "joining", "fetching"}
Ended == {"ok", "retry", "final"}
Stages == {"none", "gone"} \cup Running \cup Ended

Held(map) == {k \in Keys : map[k] # NoEntry}
VideoOf(k) == {v \in DOMAIN Audible : Audible[v] = k}

(* An entry serves a URL that is the one it was built for, in its time.    *)
Serves(k, u) == index[k] # NoEntry /\ index[k].url = u /\ u.until > now

(* The index of another signature of what its query says is the same file. *)
Rotated(k, u) ==
  /\ index[k] # NoEntry
  /\ index[k].url # u
  /\ stage[index[k].job] = "ok"
  /\ layout[index[k].job].fields = u.fields

(* The muted build of the same URL, running or over.                       *)
MutedBuild(k, u) == {index[v].job : v \in {w \in VideoOf(k) : Serves(w, u)}}

(* At the bound: what is past its time first, then everything, builds that *)
(* run included.                                                           *)
RoomForOne(map) ==
  LET standing == [k \in Keys |-> IF map[k].url.until > now THEN map[k] ELSE NoEntry]
  IN  IF Cardinality(Held(map)) < IndexMax THEN map
      ELSE IF Cardinality(Held(standing)) < IndexMax THEN standing
      ELSE [k \in Keys |-> NoEntry]

----------------------------------------------------------------------------
Init ==
  /\ now = 0
  /\ up = TRUE
  /\ index = [k \in Keys |-> NoEntry]
  /\ nextJob = 1
  /\ stage = [j \in Jobs |-> "none"]
  /\ job = [j \in Jobs |-> [key |-> CHOOSE k \in Keys : TRUE, url |-> NoUrl,
                            candidate |-> NoJob, muted |-> NoJob, half |-> 0]]
  /\ permit = {}
  /\ layout = [j \in Jobs |-> NoLayout]
  /\ client = [c \in Clients |-> Away]
  /\ parked = [k \in Keys |-> NoEntry]

Tick ==
  /\ now < MaxNow
  /\ now' = now + 1
  /\ UNCHANGED <<up, index, nextJob, stage, job, permit, layout, client, parked>>

----------------------------------------------------------------------------
(* Clients: layout_for up to shared.await.  One that finds every permit    *)
(* taken is refused and changes nothing.                                   *)
Joins(c, k, u) ==
  /\ up /\ client[c] = Away
  /\ Serves(k, u)
  /\ client' = [client EXCEPT ![c] = [job |-> index[k].job, url |-> u]]
  /\ UNCHANGED <<now, up, index, nextJob, stage, job, permit, layout, parked>>

FirstStage(candidate, muted) ==
  IF candidate # NoJob THEN "validating" ELSE IF muted # NoJob THEN "joining" ELSE "fetching"

OneOf(jobs) == IF jobs = {} THEN NoJob ELSE CHOOSE j \in jobs : TRUE

(* The permit goes into the future of the build, not to who asked for it.  *)
Starts(c, k, u) ==
  /\ up /\ client[c] = Away
  /\ ~Serves(k, u)
  /\ Cardinality(permit) < BuildMax
  /\ permit' = permit \cup {nextJob}
  /\ nextJob \in Jobs
  /\ nextJob' = nextJob + 1
  /\ LET candidate == IF Rotated(k, u) THEN index[k].job ELSE NoJob
         muted == OneOf(MutedBuild(k, u))
     IN  /\ job' = [job EXCEPT ![nextJob] = [key |-> k, url |-> u, candidate |-> candidate,
                                             muted |-> muted, half |-> 0]]
         /\ stage' = [stage EXCEPT ![nextJob] = FirstStage(candidate, muted)]
  /\ index' = [RoomForOne(index) EXCEPT ![k] = [url |-> u, job |-> nextJob]]
  /\ client' = [client EXCEPT ![c] = [job |-> nextJob, url |-> u]]
  /\ UNCHANGED <<now, up, layout, parked>>

Answered(c) ==
  /\ up /\ client[c] # Away
  /\ stage[client[c].job] \in Ended
  /\ client' = [client EXCEPT ![c] = Away]
  /\ UNCHANGED <<now, up, index, nextJob, stage, job, permit, layout, parked>>

LeavesWithPermit(c) ==  \* faulty: the permit is the caller's
  /\ up /\ client[c] # Away
  /\ client' = [client EXCEPT ![c] = Away]
  /\ permit' = permit \ {client[c].job}
  /\ UNCHANGED <<now, up, index, nextJob, stage, job, layout, parked>>

(* The client goes away; the build goes on.                                *)
Leaves(c) ==
  /\ up /\ client[c] # Away
  /\ client' = [client EXCEPT ![c] = Away]
  /\ UNCHANGED <<now, up, index, nextJob, stage, job, permit, layout, parked>>

----------------------------------------------------------------------------
(* The build, polled by a task of its own.  Its end, whatever it is, gives *)
(* the permit back.                                                        *)
PolledByClients(j) == up /\ \E c \in Clients : client[c].job = j  \* faulty: no driver task
Polled(j) == up

(* validate_rotation: the head of the new URL is the head the index was    *)
(* made from, byte for byte.                                               *)
SameFields(j) == TRUE  \* faulty: what the query says is believed
SameHead(j) == layout[job[j].candidate].bytes = job[j].url.bytes

Validated(j) ==
  /\ stage[j] = "validating"
  /\ Polled(j)
  /\ SameHead(j)
  /\ stage' = [stage EXCEPT ![j] = "ok"]
  /\ layout' = [layout EXCEPT ![j] = layout[job[j].candidate]]
  /\ permit' = permit \ {j}
  /\ UNCHANGED <<now, up, index, nextJob, job, client, parked>>

(* Another file, or a head that could not be fetched: built from nothing.  *)
Rejected(j) ==
  /\ stage[j] = "validating"
  /\ Polled(j)
  /\ stage' = [stage EXCEPT ![j] = FirstStage(NoJob, job[j].muted)]
  /\ UNCHANGED <<now, up, index, nextJob, job, permit, layout, client, parked>>

(* The muted build has ended; its half is reused where it was kept.        *)
Over(m) == stage[m] \in Ended

MutedEnded(j) ==
  /\ stage[j] = "joining"
  /\ Polled(j)
  /\ LET m == job[j].muted
     IN  /\ Over(m)
         /\ job' = [job EXCEPT ![j] = [@ EXCEPT !.half =
                      IF stage[m] = "ok" /\ layout[m].sources THEN layout[m].bytes ELSE 0]]
  /\ stage' = [stage EXCEPT ![j] = "fetching"]
  /\ UNCHANGED <<now, up, index, nextJob, permit, layout, client, parked>>

Built(j) ==
  /\ stage[j] = "fetching"
  /\ Polled(j)
  /\ stage' = [stage EXCEPT ![j] = "ok"]
  /\ layout' = [layout EXCEPT ![j] =
       [fields |-> job[j].url.fields, sources |-> TRUE,
        bytes |-> IF job[j].half # 0 THEN job[j].half ELSE job[j].url.bytes]]
  /\ permit' = permit \ {j}
  /\ UNCHANGED <<now, up, index, nextJob, job, client, parked>>

(* A fetch that failed may work next time: the entry under the key goes,   *)
(* if it is for the same URL, whichever build it names.                    *)
ForgottenNever(j, map) == map  \* faulty: as if the file could not be indexed
Forgotten(j, map) ==
  IF map[job[j].key].url = job[j].url THEN [map EXCEPT ![job[j].key] = NoEntry] ELSE map
Dropped(j) == Forgotten(j, index)

FetchFails(j) ==
  /\ stage[j] = "fetching"
  /\ Polled(j)
  /\ stage' = [stage EXCEPT ![j] = "retry"]
  /\ index' = Dropped(j)
  /\ permit' = permit \ {j}
  /\ UNCHANGED <<now, up, nextJob, job, layout, client, parked>>

(* A file that cannot be indexed: kept, so that it is not asked again.     *)
Unreadable(j) ==
  /\ stage[j] = "fetching"
  /\ Polled(j)
  /\ stage' = [stage EXCEPT ![j] = "final"]
  /\ permit' = permit \ {j}
  /\ UNCHANGED <<now, up, index, nextJob, job, layout, client, parked>>

----------------------------------------------------------------------------
(* The process goes.  Indexes are immutable, so one that is parked is      *)
(* referred to by its build; what it was read from is not parked.          *)
Gone ==
  /\ up
  /\ up' = FALSE
  /\ index' = [k \in Keys |-> NoEntry]
  /\ stage' = [j \in Jobs |-> IF stage[j] \in Running THEN "gone" ELSE stage[j]]
  /\ layout' = [j \in Jobs |-> [layout[j] EXCEPT !.sources = FALSE]]
  /\ permit' = {}
  /\ client' = [c \in Clients |-> Away]
  /\ UNCHANGED <<now, nextJob, job>>

(* park: what is built, not what has merely started, nor what failed.      *)
WorthParking(k) == index[k] # NoEntry /\ stage[index[k].job] = "ok"

ShutsDown ==
  /\ Gone
  /\ parked' = [k \in Keys |-> IF WorthParking(k) THEN index[k] ELSE NoEntry]

Crashes == Gone /\ UNCHANGED parked

(* restore: as builds that are over, past their time or not.               *)
Boots ==
  /\ ~up
  /\ up' = TRUE
  /\ index' = parked
  /\ UNCHANGED <<now, nextJob, stage, job, permit, layout, client, parked>>

----------------------------------------------------------------------------
BuildStep(j) ==
  \/ Validated(j) \/ Rejected(j) \/ MutedEnded(j)
  \/ Built(j) \/ FetchFails(j) \/ Unreadable(j)

Next ==
  \/ Tick
  \/ \E c \in Clients, k \in Keys, u \in Urls : Joins(c, k, u) \/ Starts(c, k, u)
  \/ \E c \in Clients : Answered(c) \/ Leaves(c)
  \/ \E j \in Jobs : BuildStep(j)
  \/ ShutsDown \/ Crashes \/ Boots

Spec == Init /\ [][Next]_vars

(* The driver tasks run, and every fetch has a timeout.                    *)
Fairness ==
  /\ \A c \in Clients : WF_vars(Answered(c))
  /\ \A j \in Jobs : WF_vars(BuildStep(j))

FairSpec == Spec /\ Fairness

----------------------------------------------------------------------------
AnyUrl == Urls \cup {NoUrl}
EntryType == [url : AnyUrl, job : Jobs \cup {NoJob}]

(* Types; who validates has what to validate, who joins has whom to join.  *)
TypeOK ==
  /\ now \in Nat
  /\ up \in BOOLEAN
  /\ index \in [Keys -> EntryType]
  /\ nextJob \in 1 .. MaxJobs + 1
  /\ stage \in [Jobs -> Stages]
  /\ job \in [Jobs -> [key : Keys, url : AnyUrl, candidate : Jobs \cup {NoJob},
                       muted : Jobs \cup {NoJob}, half : Nat]]
  /\ \A j \in Jobs : /\ stage[j] = "validating" => job[j].candidate # NoJob
                     /\ stage[j] = "joining" => job[j].muted # NoJob
  /\ permit \subseteq Jobs
  /\ layout \in [Jobs -> [fields : Nat, bytes : Nat, sources : BOOLEAN]]
  /\ client \in [Clients -> EntryType]
  /\ parked \in [Keys -> EntryType]

(* Nobody is served another file's index: whatever was joined, reused,     *)
(* validated or restored, the offsets are those of the file behind the     *)
(* URL that was asked for.                                                 *)
IndexFitsUrl ==
  \A c \in Clients : client[c] # Away /\ stage[client[c].job] = "ok"
                       => layout[client[c].job].bytes = client[c].url.bytes

(* A permit is held by exactly the builds that run: neither a client that  *)
(* leaves nor an entry that is dropped or replaced gives a running build's *)
(* back, which would let another start beside it, and no end of a build    *)
(* keeps one, which would refuse every index from then on.                 *)
PermitsFollowBuilds ==
  /\ permit = {j \in Jobs : stage[j] \in Running}
  /\ Cardinality(permit) <= BuildMax

(* A fetch that failed is not held against the stream, in this process or  *)
(* the next; what is kept runs, serves or says why it never will.          *)
FailureIsNotKept ==
  \A k \in Keys : /\ index[k] # NoEntry => stage[index[k].job] \in Running \cup {"ok", "final"}
                  /\ parked[k] # NoEntry => stage[parked[k].job] = "ok"

(* progressive never holds more than PROGRESSIVE_MAX entries.              *)
IndexBounded == Cardinality(Held(index)) <= IndexMax

(* Every build ends, whoever leaves, and with it the wait of whoever       *)
(* stayed: the one of an audible build that waits for the muted one, too.  *)
BuildsEnd == \A j \in Jobs : stage[j] \in Running ~> stage[j] \notin Running
=============================================================================
