----------------------------- MODULE SourcePlan -----------------------------
(***************************************************************************)
(* The order a page is told to try a trailer's forms in (sources.rs, the   *)
(* typed half of /sources and of /prepare).  An answer is put together     *)
(* around three awaits, a resolve, a short wait for an index and the index *)
(* of the entry that leads, while resolves end and expire, indexes are     *)
(* built, replaced and forgotten; and the page keeps it for its max-age.   *)
(*                                                                         *)
(* Direct and IndexCache say how a resolve and an index come about.  Here a*)
(* resolve gives one generation of URLs with the time Google signed them   *)
(* to, and an index is of one generation.  One video; the URLs of one      *)
(* generation and one rung are its number.                                 *)
(***************************************************************************)
EXTENDS Clock, Sequences, FiniteSets

CONSTANTS
  Requests,      \* asks for a list of sources
  Lives,         \* how long URLs live that a resolve gives
  FailTtl,       \* how long a refusal stands
  Margin,        \* EXPIRY_MARGIN_MS
  MediaTtl,      \* MEDIA_TTL_SECS
  UnresolvedAge, \* UNRESOLVED_MAX_AGE_SECS
  MaxGen         \* bound: resolves

ASSUME SourcePlanAssumption ==
  /\ IsFiniteSet(Requests)
  /\ Lives \subseteq Nat
  /\ FailTtl \in Nat
  /\ Margin \in Nat \ {0}
  /\ MediaTtl \in Nat \ {0}
  /\ UnresolvedAge \in Nat
  /\ UnresolvedAge <= MediaTtl
  /\ MaxGen \in Nat
  /\ MaxNow \in Nat

VARIABLES
  gens,      \* resolves that ended
  resolve,   \* each rung: what direct_cache holds
  resolving, \* the rungs with a resolve in flight
  index,     \* each kind of progressive file: its entry in the index cache
  warming,   \* the indexes to build when the silent rung's resolve ends
  built,     \* the indexes that were ever built, for the properties
  req,       \* each ask: where it is, and what it has
  page       \* what each ask was last told

planVars == <<now, gens, resolve, resolving, index, warming, built, req, page>>

----------------------------------------------------------------------------
(* The forms.                                                              *)

Surfaces == {"silent", "audible"}
Players == {"native", "hls.js"}

(* An ask in earnest, /sources with intent=warm, and /prepare's cheap one. *)
Intents == {"play", "warm", "cheap"}

(* "progressive" has no sound, "sound" has; "native" is the master whose   *)
(* segments stay on googlevideo.                                           *)
Progressive == {"progressive", "sound"}
Forms == Progressive \cup {"google", "native", "master"}

(* A rung of its own for the silent surface; the master plays from the     *)
(* whole ladder.                                                           *)
Rungs == {"silent", "full"}
Rung(form) == IF form \in {"native", "master"} THEN "full" ELSE "silent"

Plan(surface, player) ==
  CASE surface = "silent" /\ player = "native"  -> <<"progressive", "native">>
    [] surface = "silent" /\ player = "hls.js"  -> <<"google", "progressive", "master">>
    [] surface = "audible" /\ player = "native" -> <<"native", "sound">>
    [] surface = "audible" /\ player = "hls.js" -> <<"master", "sound">>

(* lead_with_sound: what is before it moves back by one.                   *)
LeadWithSound(forms) ==
  LET at == CHOOSE i \in 1 .. Len(forms) : forms[i] = "sound"
  IN  [i \in 1 .. Len(forms) |->
         IF i = 1 THEN forms[at] ELSE IF i <= at THEN forms[i - 1] ELSE forms[i]]

(* Vec::retain on a plan, which has three forms at most.                   *)
Retain(forms, S) ==
  LET only(i) == IF i <= Len(forms) /\ forms[i] \in S THEN <<forms[i]>> ELSE <<>>
  IN  only(1) \o only(2) \o only(3)

----------------------------------------------------------------------------
(* The caches.                                                             *)

NoUrls == [gen |-> 0, expires |-> 0, rung |-> "none"]
NoResolve == [st |-> "none", urls |-> NoUrls, until |-> 0]
NoIndex == [st |-> "none", gen |-> 0]

Less(a, b) == IF a > b THEN a - b ELSE 0
AtMost(a, b) == IF a < b THEN a ELSE b

(* direct::peek                                                            *)
Fresh(rung) == resolve[rung].until > now
Known(rung) == Fresh(rung) /\ resolve[rung].st = "ok"
Refused(rung) == Fresh(rung) /\ resolve[rung].st = "failed"

(* progressive::ready                                                      *)
Ready(form, urls) ==
  /\ index[form] = [st |-> "ready", gen |-> urls.gen]
  /\ Less(urls.expires, Margin) > now

(* What progressive::prepare leaves in the cache: the entry it joins, or a *)
(* build of its own.                                                       *)
Joins(form, urls) ==
  /\ index[form].gen = urls.gen
  /\ index[form].st # "none"
  /\ Less(urls.expires, Margin) > now
Prepared(form, urls) ==
  IF Joins(form, urls) THEN index
  ELSE [index EXCEPT ![form] = [st |-> "building", gen |-> urls.gen]]

----------------------------------------------------------------------------
NoAsk == [pc |-> "idle", player |-> "native", intent |-> "play",
          forms |-> <<>>, urls |-> NoUrls, known |-> FALSE]
NoPage == [entries |-> <<>>, urls |-> NoUrls, at |-> 0, maxAge |-> 0, expires |-> 0,
           intent |-> "play", stays |-> FALSE]

PlanInit ==
  /\ now = 0
  /\ gens = 0
  /\ resolve = [g \in Rungs |-> NoResolve]
  /\ resolving = {}
  /\ index = [f \in Progressive |-> NoIndex]
  /\ warming = {}
  /\ built = {}
  /\ req = [r \in Requests |-> NoAsk]
  /\ page = [r \in Requests |-> NoPage]

----------------------------------------------------------------------------
(* The answer, when nothing is awaited any more.                           *)

(* The retain of a cheap warm-up: only what can start now.                 *)
StartsOnceResolved(form, a) == form \in {"native", "master"} \/ a.known  \* faulty: whatever the index
StartsNow(form, a) ==
  CASE form = "google" -> a.known
    [] form \in Progressive -> a.known /\ Ready(form, a.urls)
    [] OTHER -> TRUE

(* The frame an entry is given: the resolve's, and only where the entry    *)
(* plays from the rung of the entry that leads the plan.                   *)
EntryOfAnyRung(form, first, a) ==  \* faulty: the resolve in hand describes every file
  [form |-> form, frame |-> form \in Progressive \cup {"google"} /\ a.known]
Entry(form, first, a) ==
  [form |-> form,
   frame |-> form \in Progressive \cup {"google"} /\ a.known /\ Rung(form) = Rung(first)]

(* The list and what is said of its lifetime.  "stays" is for the          *)
(* properties: the index of the entry that leads could not be fetched.     *)
MaxAgeOfUrls(a) == AtMost(Less(a.urls.expires, now), MediaTtl)  \* faulty: up to the last moment
MaxAge(a) == AtMost(Less(Less(a.urls.expires, now), Margin), MediaTtl)

Answer(a, first, forms, stays) ==
  LET kept == IF a.intent = "cheap"
              THEN Retain(forms, {form \in Forms : StartsNow(form, a)})
              ELSE forms
      lists == {i \in 1 .. Len(kept) : kept[i] = "google"} # {}
  IN  [entries |-> [i \in 1 .. Len(kept) |-> Entry(kept[i], first, a)],
       urls |-> a.urls, at |-> now, intent |-> a.intent, stays |-> stays,
       maxAge |-> IF a.known THEN MaxAge(a) ELSE UnresolvedAge,
       expires |-> IF lists THEN AtMost(now + MediaTtl, a.urls.expires) ELSE now + MediaTtl]

Answers(r, a, forms, stays) ==
  /\ page' = [page EXCEPT ![r] = Answer(a, Head(a.forms), forms, stays)]
  /\ req' = [req EXCEPT ![r] = NoAsk]

(* It waits, or is refused: a page lets go of its answer as it asks again. *)
Awaits(r, a, pc) ==
  /\ req' = [req EXCEPT ![r] = [a EXCEPT !.pc = pc]]
  /\ page' = [page EXCEPT ![r] = NoPage]
Fails(r) ==
  /\ req' = [req EXCEPT ![r] = NoAsk]
  /\ page' = [page EXCEPT ![r] = NoPage]

(* With the resolve in hand: the answer, once the index is there of a      *)
(* progressive file that leads it.                                         *)
Proceeds(r, a) ==
  IF Head(a.forms) \in Progressive
  THEN /\ index' = Prepared(Head(a.forms), a.urls)
       /\ IF Ready(Head(a.forms), a.urls)
          THEN Answers(r, a, a.forms, FALSE)
          ELSE Awaits(r, a, "index")
  ELSE Answers(r, a, a.forms, FALSE) /\ UNCHANGED index

(* direct::warm for the silent rung, the only one that is warmed: it joins *)
(* or starts a resolve, and an index is built behind it where one is       *)
(* wanted.                                                                 *)
WarmsResolve ==
  /\ resolving' = IF Fresh("silent") THEN resolving ELSE resolving \cup {"silent"}
  /\ UNCHANGED <<index, warming>>
WarmsIndex(form) ==
  /\ resolving' = IF Fresh("silent") THEN resolving ELSE resolving \cup {"silent"}
  /\ index' = IF Known("silent") THEN Prepared(form, resolve["silent"].urls) ELSE index
  /\ warming' = IF Fresh("silent") THEN warming ELSE warming \cup {form}

Asked(surface, player, intent) ==
  [NoAsk EXCEPT !.player = player, !.intent = intent, !.forms = Plan(surface, player)]

(* With the resolve in hand that the first form plays from.                *)
With(a, rung) == [a EXCEPT !.urls = resolve[rung].urls, !.known = TRUE]

----------------------------------------------------------------------------
(* A silent surface.                                                       *)

(* In earnest, and warming by /sources, it waits for its resolve, joining  *)
(* one that runs.                                                          *)
SilentAsks(r, player, intent) ==
  LET a == Asked("silent", player, intent) IN
  /\ req[r].pc = "idle"
  /\ intent # "cheap"
  /\ \/ /\ Refused("silent")
        /\ Fails(r)
        /\ UNCHANGED <<index, resolving>>
     \/ /\ Known("silent")
        /\ Proceeds(r, With(a, "silent"))
        /\ UNCHANGED resolving
     \/ /\ ~Fresh("silent")
        /\ resolving' = resolving \cup {"silent"}
        /\ Awaits(r, a, "resolve")
        /\ UNCHANGED index
  /\ UNCHANGED <<now, gens, resolve, warming, built>>

(* A cheap warm-up looks and starts, and waits for nothing; /prepare starts*)
(* nothing where its discovery found the primary gone ("starts").          *)
SilentWarms(r, player, starts) ==
  LET a == Asked("silent", player, "cheap") IN
  /\ req[r].pc = "idle"
  /\ \/ /\ Refused("silent")
        /\ Fails(r)
        /\ UNCHANGED <<index, resolving, warming>>
     \/ /\ Known("silent")
        /\ Answers(r, With(a, "silent"), a.forms, FALSE)
        /\ UNCHANGED <<index, resolving, warming>>
     \/ /\ ~Fresh("silent")
        /\ Answers(r, a, a.forms, FALSE)
        /\ IF starts THEN WarmsResolve ELSE UNCHANGED <<index, resolving, warming>>
  /\ UNCHANGED <<now, gens, resolve, built>>

(* The resolve it waited for has ended; a refusal answered it (ResolveEnds)*)
SilentResolved(r) ==
  /\ req[r].pc = "resolved"
  /\ Proceeds(r, req[r])
  /\ UNCHANGED <<now, gens, resolve, resolving, warming, built>>

----------------------------------------------------------------------------
(* An audible surface.                                                     *)

(* Past the question of what leads: the master's resolve is looked at, and *)
(* what the fallback plays from is started behind the answer.              *)
AudibleProceeds(r, a, starts) ==
  \/ /\ Refused("full")
     /\ Fails(r)
     /\ UNCHANGED <<index, resolving, warming>>
  \/ /\ Known("full")
     /\ Answers(r, With(a, "full"), a.forms, FALSE)
     /\ IF a.intent = "cheap" THEN UNCHANGED <<index, resolving, warming>> ELSE WarmsIndex("sound")
  \/ /\ ~Fresh("full")
     /\ Answers(r, a, a.forms, FALSE)
     /\ IF a.intent # "cheap" THEN WarmsIndex("sound")
        ELSE IF starts THEN WarmsResolve ELSE UNCHANGED <<index, resolving, warming>>

(* In earnest the progressive file leads when its index is ready, and its  *)
(* build is waited for a moment when its resolve is.                       *)
Led(player) ==
  LET a == With(Asked("audible", player, "play"), "silent")
  IN  [a EXCEPT !.forms = LeadWithSound(@)]

AudibleLeads(r, player) ==
  /\ req[r].pc = "idle"
  /\ Known("silent")
  /\ IF Ready("sound", resolve["silent"].urls)
     THEN Proceeds(r, Led(player))
     ELSE /\ index' = Prepared("sound", resolve["silent"].urls)
          /\ Awaits(r, Led(player), "lead")
  /\ UNCHANGED <<now, gens, resolve, resolving, warming, built>>

(* Nothing to lead with, or a warm-up, which nobody waits on.              *)
AudibleAsks(r, player, intent, starts) ==
  /\ req[r].pc = "idle"
  /\ intent = "play" => ~Known("silent")
  /\ AudibleProceeds(r, Asked("audible", player, intent), starts)
  /\ UNCHANGED <<now, gens, resolve, built>>

(* The build it waited for ended in time.                                  *)
LeadBuilt(r) ==
  /\ req[r].pc = "leadBuilt"
  /\ Proceeds(r, req[r])
  /\ UNCHANGED <<now, gens, resolve, resolving, warming, built>>

(* INDEX_LEAD_WAIT ran out, or the build failed.                           *)
GivesUpNever(pc) == FALSE  \* faulty: neither the clock nor a failure ends the wait
GivesUpLeading(pc) == pc \in {"lead", "leadFailed"}
LeadLost(r) ==
  /\ GivesUpLeading(req[r].pc)
  /\ AudibleProceeds(r, Asked("audible", req[r].player, "play"), TRUE)
  /\ UNCHANGED <<now, gens, resolve, built>>

----------------------------------------------------------------------------
(* The index of the entry that leads.                                      *)

LeadingIndexBuilt(r) ==
  /\ req[r].pc = "indexBuilt"
  /\ Answers(r, req[r], req[r].forms, FALSE)
  /\ UNCHANGED <<now, gens, resolve, resolving, index, warming, built>>

(* A file that cannot be indexed is left off; one whose bytes could not be *)
(* fetched stays.                                                          *)
LeadingIndexFailed(r) ==
  /\ req[r].pc \in {"unfit", "unfetched"}
  /\ IF req[r].pc = "unfit"
     THEN Answers(r, req[r], Tail(req[r].forms), FALSE)
     ELSE Answers(r, req[r], req[r].forms, TRUE)
  /\ UNCHANGED <<now, gens, resolve, resolving, index, warming, built>>

----------------------------------------------------------------------------
(* What Direct and IndexCache do meanwhile.                                *)

(* A resolve ends: its answer is remembered until Margin before its URLs   *)
(* expire, a refusal for its cooldown; whoever joined is told.             *)
ResolveEnds(rung, life) ==
  LET urls == [gen |-> gens + 1, expires |-> now + life, rung |-> rung]
      joined(r) == rung = "silent" /\ req[r].pc = "resolve"
  IN
  /\ rung \in resolving
  /\ gens < MaxGen
  /\ gens' = gens + 1
  /\ resolving' = resolving \ {rung}
  /\ resolve' = [resolve EXCEPT ![rung] =
                   [st |-> "ok", urls |-> urls, until |-> Less(urls.expires, Margin)]]
  /\ req' = [r \in Requests |->
               IF joined(r) THEN [req[r] EXCEPT !.pc = "resolved", !.urls = urls, !.known = TRUE]
               ELSE req[r]]
  /\ index' = [f \in Progressive |->
                 IF rung = "silent" /\ f \in warming THEN [st |-> "building", gen |-> urls.gen]
                 ELSE index[f]]
  /\ warming' = IF rung = "silent" THEN {} ELSE warming
  /\ UNCHANGED <<now, built, page>>

(* A refusal by throttling says nothing of the video: it is not remembered.*)
ResolveFails(rung, throttled) ==
  LET joined(r) == rung = "silent" /\ req[r].pc = "resolve" IN
  /\ rung \in resolving
  /\ resolving' = resolving \ {rung}
  /\ resolve' = IF throttled THEN resolve
                ELSE [resolve EXCEPT ![rung] = [st |-> "failed", urls |-> NoUrls, until |-> now + FailTtl]]
  /\ req' = [r \in Requests |-> IF joined(r) THEN NoAsk ELSE req[r]]
  /\ warming' = IF rung = "silent" THEN {} ELSE warming
  /\ UNCHANGED <<now, gens, index, built, page>>

(* The page of another opens the master, which starts its resolve.         *)
MasterOpens ==
  /\ ~Fresh("full")
  /\ resolving' = resolving \cup {"full"}
  /\ UNCHANGED <<now, gens, resolve, index, warming, built, req, page>>

(* The page of another opens on an audible surface, and its fallback is    *)
(* started behind the answer.                                              *)
OthersAsk ==
  /\ WarmsIndex("sound")
  /\ UNCHANGED <<now, gens, resolve, built, req, page>>

(* Where an ask goes that awaited a build, when the build ends.            *)
Outcomes == {"built", "unfit", "unfetched"}
Awaited(pc, outcome) ==
  CASE pc = "lead"  -> IF outcome = "built" THEN "leadBuilt" ELSE "leadFailed"
    [] pc = "index" -> IF outcome = "built" THEN "indexBuilt" ELSE outcome
    [] OTHER -> pc
AwaitsBuild(r, form, gen) ==
  /\ req[r].pc \in {"lead", "index"}
  /\ Head(req[r].forms) = form
  /\ req[r].urls.gen = gen

BuildEnds(form, outcome) ==
  /\ index[form].st = "building"
  /\ index' = [index EXCEPT ![form] = IF outcome = "built" THEN [@ EXCEPT !.st = "ready"] ELSE NoIndex]
  /\ built' = IF outcome = "built" THEN built \cup {<<form, index[form].gen>>} ELSE built
  /\ req' = [r \in Requests |->
               IF AwaitsBuild(r, form, index[form].gen)
               THEN [req[r] EXCEPT !.pc = Awaited(@, outcome)] ELSE req[r]]
  /\ UNCHANGED <<now, gens, resolve, resolving, warming, page>>

(* A build whose entry went to another generation ends for those it holds. *)
ReplacedBuildEnds(r, outcome) ==
  /\ req[r].pc \in {"lead", "index"}
  /\ LET form == Head(req[r].forms)
         gen == req[r].urls.gen
     IN  /\ index[form] # [st |-> "building", gen |-> gen]
         /\ built' = IF outcome = "built" THEN built \cup {<<form, gen>>} ELSE built
  /\ req' = [req EXCEPT ![r].pc = Awaited(@, outcome)]
  /\ UNCHANGED <<now, gens, resolve, resolving, index, warming, page>>

IndexEvicted(form) ==
  /\ index[form].st = "ready"
  /\ index' = [index EXCEPT ![form] = NoIndex]
  /\ UNCHANGED <<now, gens, resolve, resolving, warming, built, req, page>>

PlanTick ==
  /\ now < MaxNow
  /\ now' = now + 1
  /\ UNCHANGED <<gens, resolve, resolving, index, warming, built, req, page>>

PlanNext ==
  \/ \E r \in Requests, player \in Players :
       \/ \E intent \in Intents : SilentAsks(r, player, intent)
       \/ \E starts \in BOOLEAN : SilentWarms(r, player, starts)
       \/ AudibleLeads(r, player)
       \/ \E intent \in Intents, starts \in BOOLEAN : AudibleAsks(r, player, intent, starts)
  \/ \E r \in Requests :
       \/ SilentResolved(r) \/ LeadBuilt(r) \/ LeadLost(r)
       \/ LeadingIndexBuilt(r) \/ LeadingIndexFailed(r)
       \/ \E outcome \in Outcomes : ReplacedBuildEnds(r, outcome)
  \/ \E rung \in Rungs :
       \/ \E life \in Lives : ResolveEnds(rung, life)
       \/ \E throttled \in BOOLEAN : ResolveFails(rung, throttled)
  \/ MasterOpens \/ OthersAsk
  \/ \E form \in Progressive :
       \/ \E outcome \in Outcomes : BuildEnds(form, outcome)
       \/ IndexEvicted(form)
  \/ PlanTick

PlanSpec == PlanInit /\ [][PlanNext]_planVars

(* tokio polls every task it wakes; yt-dlp is killed at its time limit and *)
(* an index build at its own.                                              *)
PlanFairness ==
  /\ \A r \in Requests :
       /\ WF_planVars(SilentResolved(r) \/ LeadBuilt(r) \/ LeadLost(r)
                    \/ LeadingIndexBuilt(r) \/ LeadingIndexFailed(r))
       /\ WF_planVars(\E outcome \in Outcomes : ReplacedBuildEnds(r, outcome))
  /\ \A rung \in Rungs : WF_planVars(\/ \E throttled \in BOOLEAN : ResolveFails(rung, throttled)
                                    \/ \E life \in Lives : ResolveEnds(rung, life))
  /\ \A form \in Progressive : WF_planVars(\E outcome \in Outcomes : BuildEnds(form, outcome))

PlanFairSpec == PlanSpec /\ PlanFairness

----------------------------------------------------------------------------
(* No page is told to start with a progressive file that is still being    *)
(* indexed, a load that stalls with no error to step past it: an answer    *)
(* that leads with one has had its index built from the very URLs in hand, *)
(* but where the bytes could not be fetched.  A warm answer, which a page  *)
(* may keep until it opens the trailer, lists none at all otherwise.       *)
LeadsBuilt ==
  \A r \in Requests : \A i \in 1 .. Len(page[r].entries) :
    LET form == page[r].entries[i].form IN
    (form \in Progressive /\ ~page[r].stays /\ (i = 1 \/ page[r].intent = "cheap"))
      => <<form, page[r].urls.gen>> \in built

(* An answer taken from a cache within its max-age is as good as a new one:*)
(* Google's URL in it has its margin ahead, no entry is past the "expires" *)
(* the page was told, and the capabilities are still honoured.             *)
CachedStillPlays ==
  \A r \in Requests :
    (page[r].entries # <<>> /\ now < page[r].at + page[r].maxAge)
      => /\ now < page[r].expires
         /\ now < page[r].at + MediaTtl
         /\ \A i \in 1 .. Len(page[r].entries) :
              page[r].entries[i].form = "google" => now + Margin < page[r].urls.expires

(* The width and height of an entry are those of the rung it plays from,   *)
(* whichever resolve the answer had in hand and whatever led it.           *)
FramesFit ==
  \A r \in Requests : \A i \in 1 .. Len(page[r].entries) :
    page[r].entries[i].frame => page[r].urls.rung = Rung(page[r].entries[i].form)

(* Every ask is answered.                                                  *)
AsksAnswered == \A r \in Requests : req[r].pc # "idle" ~> req[r].pc = "idle"
=============================================================================
