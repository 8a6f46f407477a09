---------------------------- MODULE ResolveCache ----------------------------
(***************************************************************************)
(* What a title's trailers are (addon.rs): /meta and /prepare look a title *)
(* up at TMDB and KinoCheck, search YouTube when neither names a video,    *)
(* and share what they learn in one cache, bounded, with three lifetimes,  *)
(* parked in a file across a restart (state.rs).  Lookups of one title are *)
(* not joined: several may run at once and publish in any order.           *)
(*                                                                         *)
(* The order and the number of the candidates are left out: an answer is a *)
(* set of ids.  A search that is not run because YouTube throttles the box *)
(* counts as one that failed (addon.rs:293), and is that here.             *)
(***************************************************************************)
EXTENDS Clock, FiniteSets, FiniteSetsExt

CONSTANTS
  Keys,      \* a title, a language and the sources that can be asked for it
  Keyless,   \* those without a TMDB key: KinoCheck is their only source
  NoKey,     \* "no key"
  Ids,       \* YouTube ids
  Requests,  \* lookups that may run at once
  CacheMax,  \* YT_CACHE_MAX
  Ttl,       \* YT_TTL_MS
  NegTtl,    \* YT_NEG_TTL_MS
  FailTtl,   \* YT_FAIL_TTL_MS
  Grace      \* STALE_GRACE_MS

ASSUME ResolveAssumption ==
  /\ IsFiniteSet(Keys)
  /\ Keyless \subseteq Keys
  /\ NoKey \notin Keys
  /\ CacheMax \in Nat /\ CacheMax >= 2
  /\ Ttl \in Nat /\ NegTtl \in Nat /\ FailTtl \in Nat /\ Grace \in Nat
  /\ FailTtl < NegTtl   \* asserted in main.rs
  /\ NegTtl <= Ttl
  /\ MaxNow \in Nat

VARIABLES
  up,      \* the process runs
  cache,   \* yt_cache
  req,     \* the lookups
  parked   \* the file of parked answers

vars == <<now, up, cache, req, parked>>

----------------------------------------------------------------------------
(* An entry, with its history: how it came about, and when an upstream     *)
(* last gave these ids.                                                    *)
NoEntry == [ids |-> {}, exp |-> 0, confirmed |-> 0, how |-> "none", vouched |-> 0]
Idle == [at |-> "idle", key |-> NoKey, answered |-> FALSE]

Held(map) == {k \in Keys : map[k] # NoEntry}
Standing(k) == cache[k].exp > now

(* What is said of an entry that is served: ids past their own day stand   *)
(* in for a failed lookup, and an empty entry as short as the cooldown     *)
(* records a failure.                                                      *)
SaysStale(e) == now >= e.confirmed + Ttl
SaysFailed(e) == e.ids = {} /\ e.exp <= e.confirmed + FailTtl

(* What a source may say: some ids, none, or nothing at all.               *)
Fault == [ok |-> FALSE, ids |-> {}]
Replies == {[ok |-> TRUE, ids |-> s] : s \in SUBSET Ids} \cup {Fault}
NotAsked == [ok |-> TRUE, ids |-> {}]

----------------------------------------------------------------------------
(* The end of resolve_youtube_ids, one synchronous stretch: what the       *)
(* lookup is worth, the stand-in for a failure, the bound, the insert.     *)
LifeOfAnyEmpty(ids, asked) == IF ids # {} THEN Ttl ELSE NegTtl  \* faulty: a failure is an answer
LifeOf(ids, asked) ==
  IF ids # {} THEN Ttl ELSE IF asked THEN NegTtl ELSE FailTtl

NothingStandsIn(k, ids, asked) == FALSE  \* faulty: a failure is published as it is
StandsIn(k, ids, asked) ==
  /\ ids = {} /\ ~asked
  /\ cache[k].ids # {}
  /\ now < cache[k].confirmed + Ttl + Grace

StandInConfirmed(e) ==  \* faulty: re-serving counts as confirming
  [e EXCEPT !.exp = now + FailTtl, !.confirmed = now, !.how = "standin"]
StandIn(e) == [e EXCEPT !.exp = now + FailTtl, !.how = "standin"]

Entry(ids, asked) ==
  [ids |-> ids, exp |-> now + LifeOf(ids, asked), confirmed |-> now, vouched |-> now,
   how |-> IF ids # {} \/ asked THEN "answer" ELSE "failure"]

Only(map, keep(_)) == [k \in Keys |-> IF keep(map[k]) THEN map[k] ELSE NoEntry]

(* exps[len - MAX / 2] of the sorted expiries.                             *)
UpTo(map, x) == {k \in Held(map) : map[k].exp <= x}
Cutoff(map) ==
  Min({x \in {map[k].exp : k \in Held(map)} :
         Cardinality(UpTo(map, x)) > Cardinality(Held(map)) - CacheMax \div 2})

RoomForOne(map) ==
  IF Cardinality(Held(map)) < CacheMax THEN map
  ELSE LET live == Only(map, LAMBDA e : e.exp > now)
       IN  IF Cardinality(Held(live)) < CacheMax THEN live
           ELSE Only(live, LAMBDA e : e.exp > Cutoff(live))

LiveIsOverwritten(k) == FALSE  \* faulty: a slow failure downgrades a fast answer
LiveIsBetter(k) == Standing(k)

Published(k, ids, asked) ==
  IF ~StandsIn(k, ids, asked) THEN [RoomForOne(cache) EXCEPT ![k] = Entry(ids, asked)]
  ELSE IF LiveIsBetter(k) THEN cache
  ELSE [RoomForOne(cache) EXCEPT ![k] = StandIn(cache[k])]

Over(r) == [req EXCEPT ![r] = Idle]

Publishes(r, ids, asked) ==
  /\ cache' = Published(req[r].key, ids, asked)
  /\ req' = Over(r)

----------------------------------------------------------------------------
Init ==
  /\ now = 0
  /\ up = TRUE
  /\ cache = [k \in Keys |-> NoEntry]
  /\ req = [r \in Requests |-> Idle]
  /\ parked = [k \in Keys |-> NoEntry]

Tick ==
  /\ now < MaxNow
  /\ now' = now + 1
  /\ UNCHANGED <<up, cache, req, parked>>

(* A request that finds nothing standing under its key.                    *)
Asks(r, k) ==
  /\ up /\ req[r] = Idle
  /\ ~Standing(k)
  /\ req' = [req EXCEPT ![r] = [at |-> "sources", key |-> k, answered |-> FALSE]]
  /\ UNCHANGED <<now, up, cache, parked>>

(* Both sources have answered or failed.  With a key TMDB's word counts,   *)
(* without one KinoCheck's.  Candidates are published; none: a title first.*)
SourcesAnswer(r, tmdb, kc) ==
  /\ req[r].at = "sources"
  /\ req[r].key \in Keyless => tmdb = NotAsked
  /\ LET ids == tmdb.ids \cup kc.ids
         asked == IF req[r].key \in Keyless THEN kc.ok ELSE tmdb.ok
     IN  IF ids # {} THEN Publishes(r, ids, asked)
         ELSE /\ req' = [req EXCEPT ![r] = [@ EXCEPT !.at = "title", !.answered = asked]]
              /\ UNCHANGED cache
  /\ UNCHANGED <<now, up, parked>>

TitleFound(r) ==
  /\ req[r].at = "title"
  /\ req[r].key \notin Keyless
  /\ req' = [req EXCEPT ![r] = [@ EXCEPT !.at = "search"]]
  /\ UNCHANGED <<now, up, cache, parked>>

TitleUnknown(r) ==
  /\ req[r].at = "title"
  /\ Publishes(r, {}, req[r].answered)
  /\ UNCHANGED <<now, up, parked>>

TitleFails(r) ==
  /\ req[r].at = "title"
  /\ req[r].key \notin Keyless
  /\ Publishes(r, {}, FALSE)
  /\ UNCHANGED <<now, up, parked>>

SearchAnswers(r, found) ==
  /\ req[r].at = "search"
  /\ Publishes(r, found.ids, req[r].answered /\ found.ok)
  /\ UNCHANGED <<now, up, parked>>

(* The client goes away, and its lookup with it.                           *)
Leaves(r) ==
  /\ req[r] # Idle
  /\ req' = Over(r)
  /\ UNCHANGED <<now, up, cache, parked>>

----------------------------------------------------------------------------
Gone ==
  /\ up
  /\ up' = FALSE
  /\ cache' = [k \in Keys |-> NoEntry]
  /\ req' = [r \in Requests |-> Idle]
  /\ UNCHANGED now

(* save_resolve_cache                                                      *)
WorthParking(e) == IF e.ids = {} THEN e.exp > now ELSE now < e.confirmed + Ttl

ShutsDown ==
  /\ Gone
  /\ parked' = Only(cache, WorthParking)

Crashes == Gone /\ UNCHANGED parked

(* load_resolve_cache: populated entries live by when they were confirmed  *)
(* and get back the life that earned them, empty ones by their expiry.  It *)
(* never finds more than the cache could hold.                             *)
RestoredByConfirmed(e) ==  \* faulty: one clock for both kinds
  IF e # NoEntry /\ e.confirmed <= now /\ now < e.confirmed + Ttl
  THEN [e EXCEPT !.exp = e.confirmed + Ttl] ELSE NoEntry
Restored(e) ==
  IF e.confirmed > now THEN NoEntry
  ELSE IF e.ids = {} THEN IF e.exp > now THEN e ELSE NoEntry
  ELSE IF now < e.confirmed + Ttl THEN [e EXCEPT !.exp = e.confirmed + Ttl] ELSE NoEntry

Boots ==
  /\ ~up
  /\ up' = TRUE
  /\ cache' = [k \in Keys |-> Restored(parked[k])]
  /\ UNCHANGED <<now, req, parked>>

----------------------------------------------------------------------------
Next ==
  \/ Tick
  \/ \E r \in Requests :
       \/ \E k \in Keys : Asks(r, k)
       \/ \E tmdb \in Replies, kc \in Replies : SourcesAnswer(r, tmdb, kc)
       \/ TitleFound(r) \/ TitleUnknown(r) \/ TitleFails(r)
       \/ \E found \in Replies : SearchAnswers(r, found)
       \/ Leaves(r)
  \/ ShutsDown \/ Crashes \/ Boots

Spec == Init /\ [][Next]_vars

----------------------------------------------------------------------------
Entries == [ids : SUBSET Ids, exp : Nat, confirmed : Nat, vouched : Nat,
            how : {"none", "answer", "standin", "failure"}]

(* Types; a request has a key exactly while it looks it up.                *)
TypeOK ==
  /\ now \in Nat
  /\ up \in BOOLEAN
  /\ cache \in [Keys -> Entries]
  /\ req \in [Requests -> [at : {"idle", "sources", "title", "search"},
                           key : Keys \cup {NoKey}, answered : BOOLEAN]]
  /\ \A r \in Requests : req[r].at = "idle" <=> req[r].key = NoKey
  /\ parked \in [Keys -> Entries]

(* A trailer removed upstream stops being handed out: whatever fails, is   *)
(* re-served or restarted, ids are never served later than a day, the      *)
(* grace and one cooldown after an upstream last gave them.                *)
NothingOutlivesGrace ==
  \A k \in Keys : Standing(k) /\ cache[k].ids # {}
                     => now < cache[k].vouched + Ttl + Grace + FailTtl

(* No empty entry outlives what it was worth when it was written, not by a *)
(* restart either: a failure a minute, "no trailer" an hour.               *)
EmptyIsBrief ==
  \A k \in Keys : Standing(k) /\ cache[k].ids = {}
    => now < cache[k].vouched + (IF cache[k].how = "failure" THEN FailTtl ELSE NegTtl)

(* Nothing is served past what it was worth when it was learnt.            *)
NothingOutlivesItsWorth == NothingOutlivesGrace /\ EmptyIsBrief

(* A failed lookup never makes worse what a title has for every install:   *)
(* while the last answer is within its grace, only an upstream that        *)
(* answered "none" can put an empty entry in its place; and however late   *)
(* the lookup ends, it does not touch an answer that stands, neither its   *)
(* ids nor how long they have.                                             *)
NotBlanked(k) == cache'[k].ids = {} /\ cache'[k].how # "none" => cache'[k].how = "answer"
NotDowngraded(k) ==
  Standing(k) /\ cache'[k].how \in {"standin", "failure"} => cache'[k] = cache[k]
FailureNeverWorsens ==
  [][\A k \in Keys : cache[k].ids # {} /\ now < cache[k].vouched + Ttl + Grace
                        => NotBlanked(k) /\ NotDowngraded(k)]_vars

(* What is said of an entry is what it is, however it got there: a         *)
(* stand-in is called stale and a failure a failure, nothing else is, and  *)
(* so through a restart.                                                   *)
HitIsHonest ==
  \A k \in Keys : Standing(k) =>
    /\ SaysStale(cache[k]) <=> cache[k].how = "standin"
    /\ SaysFailed(cache[k]) <=> cache[k].how = "failure"

(* yt_cache never holds more than YT_CACHE_MAX entries.                    *)
CacheBounded == Cardinality(Held(cache)) <= CacheMax
=============================================================================
