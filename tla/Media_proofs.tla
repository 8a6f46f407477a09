---------------------------- MODULE Media_proofs -----------------------------
(***************************************************************************)
(* Theorems about what a client is given: about MediaGate, for every       *)
(* finite set of responses, every number of permits and every deadline,    *)
(* and about SourcePlan (below), for any requests and any lifetimes.       *)
(***************************************************************************)
EXTENDS MediaGate, SourcePlan, FiniteSetTheorems, TLAPS

(* How the halves of one response stand to each other: the handler, the    *)
(* task, the body Hyper has, and the end they agree on.                    *)
Halves(r) ==
  /\ phase[r] = "streaming" <=> pump[r] # "none"
  /\ pump[r] = "none" <=> body[r] = "none"
  /\ pump[r] = "aborted" => body[r] = "dropped"
  /\ body[r] = "dropped" => pump[r] \in {"aborted", "ended"}
  /\ body[r] = "finished" => pump[r] = "ended"
  /\ pump[r] = "ended" <=> end[r] # "none"
  /\ end[r] = "aborted" => body[r] = "dropped"
  /\ seen[r] # "none" => body[r] \in {"finished", "dropped"} /\ pump[r] = "ended"

(* No frame is lost on the way while there is a body to take it.           *)
FramesKept(r) ==
  /\ pump[r] \in {"none", "waiting", "reading"} => read[r] = got[r] + queue[r]
  /\ pump[r] = "holding" => read[r] = got[r] + queue[r] + 1
  /\ end[r] = "clean" /\ body[r] # "dropped" => read[r] = got[r] + queue[r]
  /\ seen[r] = "eof" => end[r] = "clean" /\ got[r] = read[r]

(* Nothing is counted of a task that runs, and one thing of one that does  *)
(* not.                                                                    *)
CountedAtEnd(r) ==
  /\ pump[r] \in Clocked \cup {"none"} => counted[r] = {}
  /\ counted[r] = {} \/ \E what : counted[r] = {what}

Response(r) == Halves(r) /\ FramesKept(r) /\ CountedAtEnd(r)

IInv ==
  /\ TypeOK
  /\ \A r \in Responses : Response(r)
  /\ Cardinality(Leased) <= Limit

USE GateAssumption

----------------------------------------------------------------------------
(* Any set of responses is finite.                                         *)
LEMMA SomeResponses ==
  ASSUME NEW S \in SUBSET Responses
  PROVE  IsFiniteSet(S) /\ Cardinality(S) \in Nat
BY FS_Subset, FS_CardinalityType

(* A step that gives no response a permit takes none from the limit.       *)
LEMMA NoneLeased ==
  ASSUME Cardinality(Leased) <= Limit, Leased' \subseteq Leased
  PROVE  Cardinality(Leased') <= Limit
<1>1. Leased \in SUBSET Responses
  BY DEF Leased
<1>2. /\ Cardinality(Leased) \in Nat
      /\ Cardinality(Leased') \in Nat
      /\ Cardinality(Leased') <= Cardinality(Leased)
  BY <1>1, SomeResponses, FS_Subset
<1> QED
  BY <1>2

(* The initial states.                                                     *)
LEMMA InitOk == Init => IInv
<1> SUFFICES ASSUME Init PROVE IInv
  OBVIOUS
<1>1. TypeOK
  BY DEF Init, TypeOK, Open
<1>2. \A r \in Responses : Response(r)
  BY DEF Init, Response, Halves, FramesKept, CountedAtEnd, Clocked
<1>3. Leased = {}
  BY DEF Init, Leased, Open
<1> QED
  BY <1>1, <1>2, <1>3, FS_EmptySet DEF IInv

(* A response that a step leaves alone stays as it is.                     *)
LEMMA Untouched ==
  ASSUME NEW s \in Responses, Response(s),
         /\ phase'[s] = phase[s] /\ pump'[s] = pump[s] /\ end'[s] = end[s]
         /\ read'[s] = read[s] /\ queue'[s] = queue[s] /\ got'[s] = got[s]
         /\ body'[s] = body[s] /\ seen'[s] = seen[s] /\ counted'[s] = counted[s]
  PROVE  Response(s)'
BY DEF Response, Halves, FramesKept, CountedAtEnd

(* What may be counted next of a response of which nothing was.            *)
LEMMA FirstCounted ==
  ASSUME NEW r \in Responses, counted[r] = {}, NEW what, counted'[r] = counted[r] \cup {what}
  PROVE  counted'[r] = {what}
OBVIOUS

----------------------------------------------------------------------------
(* A step of the handler's: nothing has been read or counted yet.          *)
LEMMA HandlerKeeps ==
  ASSUME IInv, NEW r \in Responses,
         Enters(r) \/ Overloaded(r) \/ NoBody(r) \/ Guards(r)
  PROVE  IInv'
<1>1. TypeOK'
  BY DEF IInv, TypeOK, Enters, Overloaded, NoBody, Guards, Open
<1>2. ASSUME NEW s \in Responses PROVE Response(s)'
  <2>1. Response(s) /\ Response(r)
    BY DEF IInv
  <2>2. Halves(s)'
    BY <2>1 DEF IInv, TypeOK, Response, Halves, Enters, Overloaded, NoBody, Guards
  <2>3. FramesKept(s)'
    BY <2>1 DEF IInv, TypeOK, Response, Halves, FramesKept, Enters, Overloaded, NoBody, Guards
  <2>4. counted'[s] = counted[s] /\ (pump'[s] = pump[s] \/ pump[s] = "none")
    BY <2>1 DEF IInv, TypeOK, Response, Halves, Enters, Overloaded, NoBody, Guards
  <2>5. CountedAtEnd(s)'
    BY <2>1, <2>4 DEF Response, CountedAtEnd
  <2> QED
    BY <2>2, <2>3, <2>5 DEF Response
<1>3. Cardinality(Leased') <= Limit
  <2>1. CASE Enters(r)
    <3>1. Leased' \in SUBSET (Leased \cup {r})
      BY <2>1 DEF Enters, Leased, IInv, TypeOK
    <3>2. Leased \in SUBSET Responses /\ Leased \cup {r} \in SUBSET Responses
      BY DEF Leased
    <3>3. Cardinality(Leased \cup {r}) <= Cardinality(Leased) + 1
      BY <3>2, SomeResponses, FS_AddElement
    <3>4. Cardinality(Leased') <= Cardinality(Leased \cup {r})
      BY <3>1, <3>2, SomeResponses, FS_Subset
    <3>5. /\ Cardinality(Leased) \in Nat
          /\ Cardinality(Leased') \in Nat
          /\ Cardinality(Leased \cup {r}) \in Nat
      BY <3>1, <3>2, SomeResponses
    <3>6. Cardinality(Leased) < Limit
      BY <2>1 DEF Enters
    <3> QED
      BY <3>3, <3>4, <3>5, <3>6
  <2>2. CASE Overloaded(r) \/ NoBody(r) \/ Guards(r)
    <3>1. Leased' \subseteq Leased
      BY <2>2 DEF Overloaded, NoBody, Guards, Leased, Open, IInv, TypeOK
    <3> QED
      BY <3>1, NoneLeased DEF IInv
  <2> QED
    BY <2>1, <2>2
<1> QED
  BY <1>1, <1>2, <1>3 DEF IInv

(* A step of the task's.                                                   *)
LEMMA PumpKeeps ==
  ASSUME IInv, NEW r \in Responses, PumpStep(r)
  PROVE  IInv'
<1>1. TypeOK'
  <2>1. CASE Begins(r) \/ Reads(r) \/ Sends(r)
    BY <2>1 DEF IInv, TypeOK, Begins, Reads, Sends, Room, Open
  <2>2. CASE UpstreamEnds(r) \/ Lapses(r) \/ Aborted(r)
    BY <2>2 DEF IInv, TypeOK, UpstreamEnds, Lapses, Aborted, Ends, Open
  <2> QED
    BY <2>1, <2>2 DEF PumpStep
<1>2. ASSUME NEW s \in Responses PROVE Response(s)'
  <2>1. Response(s) /\ Response(r)
    BY DEF IInv
  <2>2. CASE s # r
    BY <2>1, <2>2, Untouched DEF IInv, TypeOK, PumpStep, Begins, Reads, Sends, UpstreamEnds,
                                 Lapses, Aborted, Ends
  <2>3. CASE s = r /\ (Begins(r) \/ Reads(r) \/ Sends(r))
    <3>1. Halves(r)' /\ FramesKept(r)'
      BY <2>1, <2>3 DEF IInv, TypeOK, Response, Halves, FramesKept, Begins, Reads, Sends, Room
    <3>2. counted'[r] = counted[r] /\ pump[r] \in Clocked
      BY <2>3 DEF Begins, Reads, Sends, Clocked
    <3>3. CountedAtEnd(r)'
      BY <2>1, <3>2 DEF Response, CountedAtEnd
    <3> QED
      BY <2>3, <3>1, <3>3 DEF Response
  <2>4. CASE s = r /\ (UpstreamEnds(r) \/ Aborted(r))
    <3>1. Halves(r)' /\ FramesKept(r)'
      BY <2>1, <2>4 DEF IInv, TypeOK, Response, Halves, FramesKept, UpstreamEnds, Aborted, Ends
    <3>2. counted'[r] = counted[r] /\ pump'[r] = "ended"
      BY <2>4 DEF IInv, TypeOK, UpstreamEnds, Aborted, Ends
    <3>3. CountedAtEnd(r)'
      BY <2>1, <3>2 DEF Response, CountedAtEnd, Clocked
    <3> QED
      BY <2>4, <3>1, <3>3 DEF Response
  <2>5. CASE s = r /\ Lapses(r)
    <3>1. Halves(r)' /\ FramesKept(r)'
      BY <2>1, <2>5 DEF IInv, TypeOK, Response, Halves, FramesKept, Lapses, Ends, Clocked
    <3>2. counted'[r] = counted[r] \cup {"idle"} \/ counted'[r] = counted[r] \cup {"lifetime"}
      BY <2>5 DEF IInv, TypeOK, Lapses
    <3>3. counted[r] = {}
      BY <2>1, <2>5 DEF Response, CountedAtEnd, Lapses
    <3>4. counted'[r] = {"idle"} \/ counted'[r] = {"lifetime"}
      BY <3>2, <3>3, FirstCounted
    <3>5. pump'[r] = "ended"
      BY <2>5 DEF IInv, TypeOK, Lapses, Ends
    <3>6. CountedAtEnd(r)'
      BY <3>4, <3>5 DEF CountedAtEnd, Clocked
    <3> QED
      BY <2>5, <3>1, <3>6 DEF Response
  <2> QED
    BY <2>2, <2>3, <2>4, <2>5 DEF PumpStep
<1>3. Leased' \subseteq Leased
  BY DEF PumpStep, Begins, Reads, Sends, UpstreamEnds, Lapses, Aborted, Ends, Clocked,
         Leased, Open, IInv, TypeOK
<1> QED
  BY <1>1, <1>2, <1>3, NoneLeased DEF IInv

(* A step of Hyper's.                                                      *)
LEMMA HyperKeeps ==
  ASSUME IInv, NEW r \in Responses, HyperStep(r)
  PROVE  IInv'
<1>1. TypeOK'
  <2>1. CASE FirstPoll(r) \/ TakesFrame(r) \/ SeesEnd(r)
    BY <2>1 DEF IInv, TypeOK, FirstPoll, TakesFrame, SeesEnd, Shown
  <2>2. CASE Drops(r)
    BY <2>2 DEF IInv, TypeOK, Drops, Open
  <2> QED
    BY <2>1, <2>2 DEF HyperStep
<1>2. ASSUME NEW s \in Responses PROVE Response(s)'
  <2>1. Response(s) /\ Response(r)
    BY DEF IInv
  <2>2. CASE s # r
    BY <2>1, <2>2, Untouched DEF IInv, TypeOK, HyperStep, FirstPoll, TakesFrame, SeesEnd, Drops
  <2>3. CASE s = r /\ (FirstPoll(r) \/ TakesFrame(r) \/ SeesEnd(r))
    <3>1. Halves(r)'
      BY <2>1, <2>3 DEF IInv, TypeOK, Response, Halves, FirstPoll, TakesFrame, SeesEnd
    <3>2. ASSUME FirstPoll(r) \/ TakesFrame(r) PROVE FramesKept(r)'
      BY <2>1, <3>2 DEF IInv, TypeOK, Response, Halves, FramesKept, FirstPoll, TakesFrame
    <3>3. ASSUME SeesEnd(r) PROVE FramesKept(r)'
      BY <2>1, <3>3 DEF IInv, TypeOK, Response, Halves, FramesKept, SeesEnd, Shown
    <3>4. counted'[r] = counted[r] /\ pump'[r] = pump[r]
      BY <2>3 DEF FirstPoll, TakesFrame, SeesEnd
    <3>5. CountedAtEnd(r)'
      BY <2>1, <3>4 DEF Response, CountedAtEnd
    <3> QED
      BY <2>3, <3>1, <3>2, <3>3, <3>5 DEF Response
  <2>4. CASE s = r /\ Drops(r)
    <3>1. Halves(r)' /\ FramesKept(r)'
      BY <2>1, <2>4 DEF IInv, TypeOK, Response, Halves, FramesKept, Drops
    <3>2. pump'[r] \in {"aborted", "ended"}
      BY <2>4 DEF IInv, TypeOK, Drops
    <3>3. ASSUME body[r] # "finished", ~Completed(r) PROVE CountedAtEnd(r)'
      <4>1. counted[r] = {}
        BY <2>1, <2>4, <3>3 DEF IInv, TypeOK, Response, Halves, CountedAtEnd, Drops, Completed,
                                Clocked, Open
      <4>2. counted'[r] = counted[r] \cup {"cancelled"}
        BY <2>4, <3>3 DEF IInv, TypeOK, Drops
      <4> QED
        <5>1. counted'[r] = {"cancelled"}
          BY <4>1, <4>2, FirstCounted
        <5> QED
          BY <3>2, <5>1 DEF CountedAtEnd, Clocked
    <3>4. ASSUME ~(body[r] # "finished" /\ ~Completed(r)) PROVE CountedAtEnd(r)'
      <4>1. counted'[r] = counted[r]
        BY <2>4, <3>4 DEF IInv, TypeOK, Drops
      <4> QED
        BY <2>1, <3>2, <4>1 DEF Response, CountedAtEnd, Clocked
    <3> QED
      BY <2>4, <3>1, <3>3, <3>4 DEF Response
  <2> QED
    BY <2>2, <2>3, <2>4 DEF HyperStep
<1>3. Leased' \subseteq Leased
  BY DEF HyperStep, FirstPoll, TakesFrame, SeesEnd, Drops, Leased, Open,
         IInv, TypeOK, Response, Halves
<1> QED
  BY <1>1, <1>2, <1>3, NoneLeased DEF IInv

(* The clock, and steps that change nothing.                               *)
LEMMA TickKeeps == ASSUME IInv, Tick \/ UNCHANGED vars PROVE IInv'
<1>1. TypeOK'
  BY DEF IInv, TypeOK, Tick, vars
<1>2. UNCHANGED <<phase, pump, end, read, queue, got, idleAt, lifeAt, body, seen, counted>>
  BY DEF Tick, vars
<1> QED
  BY <1>1, <1>2 DEF IInv, Response, Halves, FramesKept, CountedAtEnd, Leased

----------------------------------------------------------------------------
(* Every step keeps IInv.                                                  *)
THEOREM Invariant == Spec => []IInv
<1>1. IInv /\ [Next]_vars => IInv'
  <2> SUFFICES ASSUME IInv, [Next]_vars PROVE IInv'
    OBVIOUS
  <2>1. CASE Tick \/ UNCHANGED vars
    BY <2>1, TickKeeps
  <2>2. ASSUME NEW r \in Responses, Enters(r) \/ Overloaded(r) \/ HandlerStep(r) PROVE IInv'
    BY <2>2, HandlerKeeps DEF HandlerStep
  <2>3. ASSUME NEW r \in Responses, PumpStep(r) \/ HyperStep(r) PROVE IInv'
    BY <2>3, PumpKeeps, HyperKeeps
  <2> QED
    BY <2>1, <2>2, <2>3 DEF Next
<1> QED
  BY <1>1, InitOk, PTL DEF Spec

(* The variables stay in their types, the queue within one frame.          *)
THEOREM TypeCorrect == Spec => []TypeOK
<1>1. IInv => TypeOK
  BY DEF IInv
<1> QED
  BY <1>1, Invariant, PTL

(* Open upstream bodies never outnumber the permits: each is leased.       *)
THEOREM Bounded == Spec => []BodiesBounded
<1>1. IInv => BodiesBounded
  <2> SUFFICES ASSUME IInv PROVE BodiesBounded
    OBVIOUS
  <2> DEFINE open == {r \in Responses : pump[r] \in Open}
  <2>1. open \subseteq Leased /\ Leased \in SUBSET Responses
    BY DEF Leased
  <2>2. open \in SUBSET Responses
    OBVIOUS
  <2>3. Cardinality(open) <= Cardinality(Leased)
    BY <2>1, SomeResponses, FS_Subset
  <2>4. Cardinality(open) \in Nat /\ Cardinality(Leased) \in Nat
    BY <2>1, <2>2, SomeResponses
  <2>5. Cardinality(open) <= Limit
    BY <2>3, <2>4 DEF IInv
  <2> QED
    BY <2>5 DEF BodiesBounded
<1> QED
  BY <1>1, Invariant, PTL

(* A clean end is shown of a body only when it has been taken whole.       *)
THEOREM CleanIsWhole == Spec => []CleanEndIsWhole
<1>1. IInv => CleanEndIsWhole
  BY DEF IInv, Response, Halves, FramesKept, CleanEndIsWhole, Open
<1> QED
  BY <1>1, Invariant, PTL

(* A response is counted once at most.                                     *)
THEOREM Once == Spec => []CountedOnce
<1>1. IInv => CountedOnce
  <2> SUFFICES ASSUME IInv, NEW r \in Responses PROVE Cardinality(counted[r]) <= 1
    BY DEF CountedOnce
  <2>1. CASE counted[r] = {}
    BY <2>1, FS_EmptySet
  <2>2. ASSUME NEW what, counted[r] = {what} PROVE Cardinality(counted[r]) <= 1
    <3>1. Cardinality({what}) = 1
      BY FS_Singleton
    <3> QED
      BY <2>2, <3>1
  <2>3. counted[r] = {} \/ \E what : counted[r] = {what}
    BY DEF IInv, Response, CountedAtEnd
  <2> QED
    BY <2>1, <2>2, <2>3
<1> QED
  BY <1>1, Invariant, PTL

(***************************************************************************)
(* SourcePlan, for any asks, any lives of URLs, any cooldown, any margin   *)
(* and any lifetime of the capabilities.                                   *)
(***************************************************************************)

UrlType == [gen : Nat, expires : Nat, rung : Rungs \cup {"none"}]

(* The lists an ask is ever put to: the plans, and those led with sound.   *)
SilentLists == {<<"progressive", "native">>, <<"google", "progressive", "master">>}
AudibleLists == {<<"native", "sound">>, <<"master", "sound">>}
SoundLists == {<<"sound", "native">>, <<"sound", "master">>}
Lists == SilentLists \cup AudibleLists \cup SoundLists

Waiting == {"resolve", "resolved", "lead", "leadBuilt", "leadFailed",
            "index", "indexBuilt", "unfit", "unfetched"}
AskType == [pc : Waiting \cup {"idle"}, player : Players, intent : Intents,
            forms : Lists \cup {<<>>}, urls : UrlType, known : BOOLEAN]

(* What an ask has: URLs of the rung its first form plays from, once it has*)
(* any.                                                                    *)
AskFits(a) ==
  /\ a \in AskType /\ a.forms \in Lists
  /\ a.known => a.urls.rung = Rung(Head(a.forms))

(* An ask that waits, of what was built (b): for the silent rung's resolve,*)
(* or for the index of the progressive file it leads with.                 *)
Waits(a, b) ==
  /\ AskFits(a) /\ a.pc \in Waiting /\ a.intent # "cheap"
  /\ a.pc \in {"resolve", "resolved"} => a.forms \in SilentLists
  /\ a.pc = "resolved" => a.known
  /\ a.pc \notin {"resolve", "resolved"} => a.known /\ Head(a.forms) \in Progressive
  /\ a.pc \in {"lead", "leadBuilt", "leadFailed"} => Head(a.forms) = "sound"
  /\ a.pc \in {"leadBuilt", "indexBuilt"} => <<Head(a.forms), a.urls.gen>> \in b

(* What a page was told, of what was built (b): what can start now comes   *)
(* first, Google's URL outlives the answer by its margin, and so do the    *)
(* capabilities; and a frame is of the rung that the answer had in hand.   *)
EntryFits(p, i, b) ==
  LET form == p.entries[i].form IN
  /\ (form \in Progressive /\ ~p.stays /\ (i = 1 \/ p.intent = "cheap")) => <<form, p.urls.gen>> \in b
  /\ (form = "google" /\ p.maxAge # 0) => p.at + p.maxAge + Margin <= p.urls.expires
  /\ p.entries[i].frame => p.urls.rung = Rung(form)

PageFits(p, b) ==
  /\ p.urls \in UrlType /\ p.at \in Nat /\ p.maxAge \in Nat /\ p.expires \in Nat
  /\ p.maxAge <= MediaTtl
  /\ p.maxAge # 0 => p.at + p.maxAge <= p.expires
  /\ \A i \in 1 .. Len(p.entries) : EntryFits(p, i, b)

(* The caches: a resolve is of its rung, and what is ready was built.      *)
CachesFit ==
  /\ now \in Nat /\ gens \in Nat
  /\ resolve \in [Rungs -> [st : {"none", "ok", "failed"}, urls : UrlType, until : Nat]]
  /\ \A g \in Rungs : resolve[g].st = "ok" => resolve[g].urls.rung = g
  /\ index \in [Progressive -> [st : {"none", "building", "ready"}, gen : Nat]]
  /\ \A f \in Progressive : index[f].st = "ready" => <<f, index[f].gen>> \in built

PlanIInv ==
  /\ CachesFit
  /\ req = [r \in Requests |-> req[r]] /\ page = [r \in Requests |-> page[r]]
  /\ \A r \in Requests : req[r] = NoAsk \/ Waits(req[r], built)
  /\ \A r \in Requests : page[r].at <= now /\ PageFits(page[r], built)

USE SourcePlanAssumption

----------------------------------------------------------------------------
(* Lists.                                                                  *)

(* What the lists have in common.                                          *)
ListFits(forms) ==
  /\ forms \in Seq(Forms) /\ Len(forms) \in 2 .. 3
  /\ Head(forms) = forms[1] /\ Head(forms) \in Forms
  /\ Tail(forms) \in Seq(Forms)
  /\ Head(forms) \in Progressive => Tail(forms)[1] \notin Progressive
  /\ \A i \in 1 .. Len(forms) : forms[i] = "google" => Head(forms) = "google"
  /\ \A i \in 1 .. Len(Tail(forms)) : Tail(forms)[i] = "google" => Head(forms) = "google"

LEMMA ListFacts ==
  ASSUME NEW forms \in Lists
  PROVE  ListFits(forms)
<1>1. ASSUME NEW x \in Forms, NEW y \in Forms, forms = <<x, y>>,
             x \in Progressive => y \notin Progressive, y # "google"
      PROVE  ListFits(forms)
  <2>1. forms \in Seq(Forms) /\ Len(forms) = 2 /\ forms[1] = x /\ forms[2] = y /\ Head(forms) = x
    BY <1>1
  <2>2. Tail(forms) = <<y>>
    BY <1>1
  <2>3. <<y>> \in Seq(Forms) /\ Len(<<y>>) = 1 /\ <<y>>[1] = y
    OBVIOUS
  <2>4. Tail(forms) \in Seq(Forms) /\ Len(Tail(forms)) = 1 /\ Tail(forms)[1] = y
    BY <2>2, <2>3
  <2> QED
    BY <1>1, <2>1, <2>4 DEF ListFits
<1>2. ASSUME NEW x \in Forms, NEW y \in Forms, NEW z \in Forms, forms = <<x, y, z>>,
             x = "google", y # "google", z # "google"
      PROVE  ListFits(forms)
  <2>1. /\ forms \in Seq(Forms) /\ Len(forms) = 3 /\ Head(forms) = x
        /\ forms[1] = x /\ forms[2] = y /\ forms[3] = z
    BY <1>2
  <2>2. Tail(forms) \in Seq(Forms)
    BY <2>1
  <2> QED
    BY <1>2, <2>1, <2>2 DEF ListFits, Progressive
<1> QED
  BY <1>1, <1>2 DEF Lists, SilentLists, AudibleLists, SoundLists, Forms, Progressive

(* The plans, and what leading with sound makes of the audible ones.       *)
LEMMA PlanLists ==
  ASSUME NEW player \in Players
  PROVE  /\ Plan("silent", player) \in SilentLists
         /\ Plan("audible", player) \in AudibleLists
         /\ LeadWithSound(Plan("audible", player)) \in SoundLists
<1>1. Plan("silent", player) \in SilentLists /\ Plan("audible", player) \in AudibleLists
  BY DEF Plan, Players, SilentLists, AudibleLists
<1>2. ASSUME NEW form \in {"native", "master"}
      PROVE  LeadWithSound(<<form, "sound">>) = <<"sound", form>>
  <2> DEFINE forms == <<form, "sound">>
             at == CHOOSE i \in 1 .. Len(forms) : forms[i] = "sound"
  <2>1. /\ Len(forms) = 2 /\ forms[1] = form /\ forms[2] = "sound" /\ form # "sound"
    OBVIOUS
  <2> HIDE DEF forms
  <2>2. \E i \in 1 .. Len(forms) : forms[i] = "sound"
    BY <2>1
  <2>3. at = 2
    BY <2>1, <2>2
  <2> HIDE DEF at
  <2>4. LeadWithSound(forms) =
          [i \in 1 .. 2 |-> IF i = 1 THEN forms[at] ELSE IF i <= at THEN forms[i - 1] ELSE forms[i]]
    BY <2>1 DEF LeadWithSound, at
  <2>5. LeadWithSound(forms) = [i \in 1 .. 2 |-> IF i = 1 THEN "sound" ELSE form]
    BY <2>1, <2>3, <2>4
  <2>6. [i \in 1 .. 2 |-> IF i = 1 THEN "sound" ELSE form] = <<"sound", form>>
    OBVIOUS
  <2> QED
    BY <2>5, <2>6 DEF forms
<1> QED
  BY <1>1, <1>2 DEF AudibleLists, SoundLists

(* What is retained is of the set, and was there.                          *)
LEMMA RetainFits ==
  ASSUME NEW forms \in Seq(Forms), NEW S
  PROVE  Retain(forms, S) \in Seq(Forms \cap S)
<1> DEFINE only(i) == IF i <= Len(forms) /\ forms[i] \in S THEN <<forms[i]>> ELSE <<>>
<1>1. ASSUME NEW i \in 1 .. 3 PROVE only(i) \in Seq(Forms \cap S)
  <2>1. CASE i <= Len(forms) /\ forms[i] \in S
    <3>1. forms[i] \in Forms \cap S
      BY <2>1
    <3>2. only(i) = <<forms[i]>>
      BY <2>1
    <3>3. ASSUME NEW T, NEW x \in T PROVE <<x>> \in Seq(T)
      OBVIOUS
    <3> QED
      BY <3>1, <3>2, <3>3
  <2>2. CASE ~(i <= Len(forms) /\ forms[i] \in S)
    BY <2>2
  <2> QED
    BY <2>1, <2>2
<1>2. only(1) \in Seq(Forms \cap S) /\ only(2) \in Seq(Forms \cap S) /\ only(3) \in Seq(Forms \cap S)
  BY <1>1
<1>3. Retain(forms, S) = only(1) \o only(2) \o only(3)
  BY DEF Retain
<1> HIDE DEF only
<1>4. only(1) \o only(2) \in Seq(Forms \cap S)
  BY <1>2
<1> QED
  BY <1>2, <1>3, <1>4

----------------------------------------------------------------------------
(* Answers.                                                                *)

(* An answer is as it should be, when what leads it is.                    *)
LEMMA AnswerFits ==
  ASSUME CachesFit, NEW a, AskFits(a), NEW forms \in Seq(Forms), NEW stays,
         a.intent # "cheap" =>
           /\ (forms[1] \in Progressive /\ ~stays) => <<forms[1], a.urls.gen>> \in built
           /\ \A i \in 1 .. Len(forms) : forms[i] = "google" => a.known
  PROVE  PageFits(Answer(a, Head(a.forms), forms, stays), built)
<1> DEFINE first == Head(a.forms)
           kept == IF a.intent = "cheap" THEN Retain(forms, {form \in Forms : StartsNow(form, a)}) ELSE forms
           lists == {i \in 1 .. Len(kept) : kept[i] = "google"} # {}
           p == Answer(a, first, forms, stays)
<1>1. a.urls \in UrlType /\ a.known \in BOOLEAN /\ a.urls.expires \in Nat /\ a.urls.gen \in Nat
  BY DEF AskFits, AskType, UrlType
<1>2. now \in Nat /\ Margin \in Nat /\ MediaTtl \in Nat /\ UnresolvedAge \in Nat
  BY DEF CachesFit
<1>3. kept \in Seq(Forms)
  <2>1. Retain(forms, {form \in Forms : StartsNow(form, a)}) \in Seq(Forms)
    BY RetainFits
  <2> QED
    BY <2>1
<1>4. ASSUME a.intent = "cheap", NEW i \in 1 .. Len(kept) PROVE StartsNow(kept[i], a)
  <2>1. kept \in Seq(Forms \cap {form \in Forms : StartsNow(form, a)})
    BY <1>4, RetainFits
  <2> QED
    BY <1>4, <2>1
<1>5. /\ p.entries = [i \in 1 .. Len(kept) |-> Entry(kept[i], first, a)]
      /\ p.urls = a.urls /\ p.at = now /\ p.intent = a.intent /\ p.stays = stays
      /\ p.maxAge = IF a.known THEN MaxAge(a) ELSE UnresolvedAge
      /\ p.expires = IF lists THEN AtMost(now + MediaTtl, a.urls.expires) ELSE now + MediaTtl
  BY DEF Answer
<1> HIDE DEF kept, p
<1>6. \A i \in 1 .. Len(kept) : kept[i] = "google" => a.known
  BY <1>4 DEF StartsNow, kept
<1>7. lists => a.known
  BY <1>6
<1>8. a.known => /\ p.maxAge \in Nat /\ p.maxAge <= MediaTtl
                 /\ p.maxAge # 0 => now + p.maxAge + Margin <= a.urls.expires
  <2> DEFINE left == Less(a.urls.expires, now)
             short == Less(left, Margin)
  <2>1. left \in Nat /\ (left # 0 => now + left = a.urls.expires)
    BY <1>1, <1>2 DEF Less
  <2> HIDE DEF left
  <2>2. short \in Nat /\ (short # 0 => short + Margin = left)
    BY <1>2, <2>1 DEF Less
  <2> HIDE DEF short
  <2>3. MaxAge(a) = AtMost(short, MediaTtl)
    BY DEF MaxAge, short, left
  <2>4. MaxAge(a) \in Nat /\ MaxAge(a) <= MediaTtl /\ MaxAge(a) <= short
    BY <1>2, <2>2, <2>3 DEF AtMost
  <2>5. a.known => p.maxAge = MaxAge(a)
    BY <1>5
  <2>6. MaxAge(a) # 0 => now + MaxAge(a) + Margin <= a.urls.expires
    BY <1>1, <1>2, <2>1, <2>2, <2>4
  <2> QED
    BY <2>4, <2>5, <2>6
<1>9. p.maxAge \in Nat /\ p.maxAge <= MediaTtl
  BY <1>2, <1>5, <1>8
<1>10. p.expires \in Nat /\ (p.maxAge # 0 => p.at + p.maxAge <= p.expires)
  BY <1>1, <1>2, <1>5, <1>7, <1>8, <1>9 DEF AtMost
<1>11. Len(p.entries) = Len(kept) /\ \A i \in 1 .. Len(kept) : p.entries[i] = Entry(kept[i], first, a)
  BY <1>3, <1>5
<1>12. ASSUME NEW i \in 1 .. Len(p.entries) PROVE EntryFits(p, i, built)
  <2> DEFINE form == p.entries[i].form
  <2>1. /\ form = kept[i] /\ i \in 1 .. Len(kept)
        /\ p.entries[i].frame => a.known /\ Rung(form) = Rung(first)
    <3>1. i \in 1 .. Len(kept) /\ p.entries[i] = Entry(kept[i], first, a)
      BY <1>11
    <3>2. \A x : Entry(x, first, a).form = x /\ (Entry(x, first, a).frame => a.known /\ Rung(x) = Rung(first))
      BY DEF Entry
    <3> QED
      BY <3>1, <3>2
  <2> HIDE DEF form
  <2>2. p.entries[i].frame => p.urls.rung = Rung(form)
    BY <1>5, <2>1 DEF AskFits
  <2>3. (form = "google" /\ p.maxAge # 0) => p.at + p.maxAge + Margin <= p.urls.expires
    BY <1>5, <1>6, <1>8, <2>1
  <2>4. ASSUME form \in Progressive, ~p.stays, i = 1 \/ p.intent = "cheap"
        PROVE  <<form, p.urls.gen>> \in built
    <3>1. CASE a.intent = "cheap"
      <4>1. Ready(form, a.urls)
        BY <1>4, <2>1, <2>4, <3>1 DEF StartsNow, Progressive
      <4>2. index[form].st = "ready" /\ index[form].gen = a.urls.gen
        BY <4>1 DEF Ready
      <4> QED
        BY <1>5, <2>4, <4>2 DEF CachesFit
    <3>2. CASE a.intent # "cheap"
      BY <1>5, <2>1, <2>4, <3>2 DEF kept
    <3> QED
      BY <3>1, <3>2
  <2> QED
    BY <2>2, <2>3, <2>4 DEF EntryFits, form
<1>13. PageFits(p, built)
  BY <1>1, <1>2, <1>5, <1>9, <1>10, <1>12 DEF PageFits
<1> QED
  BY <1>13 DEF p

----------------------------------------------------------------------------
(* Steps of one ask.                                                       *)

(* Only what is built again, or for the first time, is not as it was.      *)
IndexMoves ==
  /\ index' \in [Progressive -> [st : {"none", "building", "ready"}, gen : Nat]]
  /\ \A f \in Progressive : index'[f].st = "ready" => index'[f] = index[f]

LEMMA CachesKept ==
  ASSUME CachesFit, IndexMoves, UNCHANGED <<now, gens, resolve, built>>
  PROVE  CachesFit'
BY DEF CachesFit, IndexMoves

LEMMA IndexKept ==
  ASSUME CachesFit, UNCHANGED index
  PROVE  IndexMoves
BY DEF CachesFit, IndexMoves

LEMMA PreparedMoves ==
  ASSUME CachesFit, NEW form \in Progressive, NEW urls \in UrlType, index' = Prepared(form, urls)
  PROVE  IndexMoves
<1>1. urls.gen \in Nat
  BY DEF UrlType
<1>2. CASE Joins(form, urls)
  BY <1>2, IndexKept DEF Prepared
<1>3. CASE ~Joins(form, urls)
  <2>1. index' = [index EXCEPT ![form] = [st |-> "building", gen |-> urls.gen]]
    BY <1>3 DEF Prepared
  <2> QED
    BY <1>1, <2>1 DEF CachesFit, IndexMoves
<1> QED
  BY <1>2, <1>3

(* What a warm-up starts.                                                  *)
LEMMA WarmsMoves ==
  ASSUME CachesFit, WarmsResolve \/ WarmsIndex("sound")
  PROVE  IndexMoves
<1>1. CASE WarmsResolve
  BY <1>1, IndexKept DEF WarmsResolve
<1>2. CASE WarmsIndex("sound")
  <2>1. resolve["silent"].urls \in UrlType /\ "sound" \in Progressive
    BY DEF CachesFit, Rungs, Progressive
  <2> QED
    BY <1>2, <2>1, IndexKept, PreparedMoves DEF WarmsIndex
<1> QED
  BY <1>1, <1>2

(* A page that was told nothing.                                           *)
LEMMA NoPageFits == NoPage.at = 0 /\ PageFits(NoPage, built)
BY DEF PageFits, NoPage, UrlType, NoUrls

(* The step of one ask keeps the invariant, when what becomes of it and of *)
(* its page is right.                                                      *)
LEMMA AskStep ==
  ASSUME PlanIInv, CachesFit', UNCHANGED <<now, built>>, NEW r \in Requests, NEW a, NEW p,
         a = NoAsk \/ Waits(a, built), PageFits(p, built), p.at \in {0, now},
         req' = [req EXCEPT ![r] = a], page' = [page EXCEPT ![r] = p]
  PROVE  PlanIInv'
<1>1. \A q \in Requests : req'[q] = NoAsk \/ Waits(req'[q], built')
  BY DEF PlanIInv
<1>2. \A q \in Requests : page'[q].at <= now' /\ PageFits(page'[q], built')
  BY DEF PlanIInv, CachesFit
<1>3. req' = [q \in Requests |-> req'[q]] /\ page' = [q \in Requests |-> page'[q]]
  BY DEF PlanIInv
<1> QED
  BY <1>1, <1>2, <1>3 DEF PlanIInv

LEMMA FailsFits ==
  ASSUME PlanIInv, CachesFit', UNCHANGED <<now, built>>, NEW r \in Requests, Fails(r)
  PROVE  PlanIInv'
BY AskStep, NoPageFits DEF Fails

(* The answer is given.                                                    *)
LEMMA AnswersFits ==
  ASSUME PlanIInv, CachesFit', UNCHANGED <<now, built>>, NEW r \in Requests, NEW a, AskFits(a),
         NEW forms \in Seq(Forms), NEW stays, Answers(r, a, forms, stays),
         a.intent # "cheap" =>
           /\ (forms[1] \in Progressive /\ ~stays) => <<forms[1], a.urls.gen>> \in built
           /\ \A i \in 1 .. Len(forms) : forms[i] = "google" => a.known
  PROVE  PlanIInv'
<1>1. PageFits(Answer(a, Head(a.forms), forms, stays), built)
  BY AnswerFits DEF PlanIInv
<1>2. Answer(a, Head(a.forms), forms, stays).at = now
  BY DEF Answer
<1> QED
  BY <1>1, <1>2, AskStep DEF Answers

(* With its URLs in hand an ask is answered, or waits for the index.       *)
LEMMA ProceedsFits ==
  ASSUME PlanIInv, UNCHANGED <<now, gens, resolve, built>>, NEW r \in Requests,
         NEW a, AskFits(a), a.known, a.intent # "cheap", Proceeds(r, a)
  PROVE  PlanIInv'
<1> DEFINE form == Head(a.forms)
<1>1. a.forms \in Lists /\ a.urls \in UrlType /\ CachesFit
  BY DEF AskFits, AskType, PlanIInv
<1>2. /\ a.forms \in Seq(Forms) /\ a.forms[1] = form
      /\ \A i \in 1 .. Len(a.forms) : a.forms[i] = "google" => a.known
  BY <1>1, ListFacts DEF ListFits
<1>3. ASSUME Answers(r, a, a.forms, FALSE), IndexMoves,
             form \in Progressive => Ready(form, a.urls)
      PROVE  PlanIInv'
  <2>1. CachesFit'
    BY <1>1, <1>3, CachesKept
  <2>2. ASSUME form \in Progressive PROVE <<form, a.urls.gen>> \in built
    <3>1. index[form].st = "ready" /\ index[form].gen = a.urls.gen
      BY <1>3, <2>2 DEF Ready
    <3> QED
      BY <1>1, <2>2, <3>1 DEF CachesFit
  <2> QED
    BY <1>2, <1>3, <2>1, <2>2, AnswersFits
<1>4. CASE form \notin Progressive
  BY <1>1, <1>3, <1>4, IndexKept DEF Proceeds
<1>5. CASE form \in Progressive
  <2>1. IndexMoves
    BY <1>1, <1>5, PreparedMoves DEF Proceeds
  <2>2. CASE Ready(form, a.urls)
    BY <1>3, <1>5, <2>1, <2>2 DEF Proceeds
  <2>3. CASE ~Ready(form, a.urls)
    <3> DEFINE w == [a EXCEPT !.pc = "index"]
    <3>1. req' = [req EXCEPT ![r] = w] /\ page' = [page EXCEPT ![r] = NoPage]
      BY <1>5, <2>3 DEF Proceeds, Awaits
    <3>2. /\ w.pc = "index" /\ w \in AskType /\ w.forms = a.forms /\ w.urls = a.urls
          /\ w.known = a.known /\ w.intent = a.intent
      BY DEF AskFits, AskType, Waiting
    <3> HIDE DEF w
    <3>3. Waits(w, built)
      BY <1>5, <3>2 DEF Waits, AskFits, Waiting
    <3> QED
      BY <1>1, <2>1, <3>1, <3>3, AskStep, CachesKept, NoPageFits
  <2> QED
    BY <2>2, <2>3
<1> QED
  BY <1>4, <1>5

(* An ask as it comes in, and with the resolve its first form plays from.  *)
LEMMA HeadRungs ==
  /\ \A forms \in SilentLists \cup SoundLists : Rung(Head(forms)) = "silent"
  /\ \A forms \in AudibleLists : Rung(Head(forms)) = "full" /\ Head(forms) \notin Progressive
  /\ \A forms \in SoundLists : Head(forms) = "sound"
BY DEF SilentLists, AudibleLists, SoundLists, Rung, Progressive

LEMMA AskedFits ==
  ASSUME NEW surface \in Surfaces, NEW player \in Players, NEW intent \in Intents
  PROVE  LET a == Asked(surface, player, intent) IN
         /\ AskFits(a) /\ a.intent = intent /\ a.known = FALSE
         /\ a.forms = Plan(surface, player)
         /\ a.forms \in IF surface = "silent" THEN SilentLists ELSE AudibleLists
<1> DEFINE a == Asked(surface, player, intent)
<1>1. NoAsk \in AskType /\ NoAsk.known = FALSE
  BY DEF NoAsk, AskType, NoUrls, UrlType, Players, Intents
<1>2. Plan(surface, player) \in IF surface = "silent" THEN SilentLists ELSE AudibleLists
  BY PlanLists DEF Surfaces
<1>3. /\ a \in AskType /\ a.intent = intent /\ a.known = NoAsk.known /\ a.forms = Plan(surface, player)
  BY <1>1, <1>2 DEF Asked, AskType, Lists
<1> HIDE DEF a
<1>4. a.forms \in Lists
  BY <1>2, <1>3 DEF Lists
<1> QED
  BY <1>1, <1>2, <1>3, <1>4 DEF AskFits, a

LEMMA WithFits ==
  ASSUME CachesFit, NEW a, AskFits(a), NEW rung \in Rungs, Known(rung),
         Rung(Head(a.forms)) = rung
  PROVE  LET w == With(a, rung) IN
         AskFits(w) /\ w.known /\ w.intent = a.intent /\ w.forms = a.forms
<1> DEFINE w == With(a, rung)
           urls == resolve[rung].urls
<1>1. urls \in UrlType /\ urls.rung = rung
  BY DEF CachesFit, Known
<1>2. /\ w \in AskType /\ w.forms = a.forms /\ w.known = TRUE /\ w.intent = a.intent
      /\ w.urls = urls
  BY <1>1 DEF With, AskFits, AskType
<1> HIDE DEF w
<1> QED
  BY <1>1, <1>2 DEF AskFits, w

(* The audible plan is answered as it stands, or refused.                  *)
LEMMA AudibleFits ==
  ASSUME PlanIInv, UNCHANGED <<now, gens, resolve, built>>, NEW r \in Requests,
         NEW player \in Players, NEW intent \in Intents, NEW starts,
         AudibleProceeds(r, Asked("audible", player, intent), starts)
  PROVE  PlanIInv'
<1> DEFINE a == Asked("audible", player, intent)
<1>1. AskFits(a) /\ a.forms \in AudibleLists /\ a.known = FALSE /\ a.intent = intent
  BY AskedFits DEF Surfaces
<1> HIDE DEF a
<1>2. CachesFit /\ AudibleProceeds(r, a, starts)
  BY DEF PlanIInv, a
<1>3. IndexMoves
  BY <1>2, IndexKept, WarmsMoves DEF AudibleProceeds
<1>4. CachesFit'
  BY <1>2, <1>3, CachesKept
<1>5. /\ a.forms \in Seq(Forms) /\ a.forms[1] \notin Progressive
      /\ \A i \in 1 .. Len(a.forms) : a.forms[i] # "google"
  <2>1. ListFits(a.forms)
    BY <1>1, ListFacts DEF Lists
  <2>2. Head(a.forms) \notin Progressive /\ Head(a.forms) # "google"
    BY <1>1, HeadRungs DEF AudibleLists
  <2> QED
    BY <2>1, <2>2 DEF ListFits
<1>6. CASE Refused("full") /\ Fails(r)
  BY <1>4, <1>6, FailsFits
<1>7. CASE Known("full") /\ Answers(r, With(a, "full"), a.forms, FALSE)
  <2>1. AskFits(With(a, "full"))
    BY <1>1, <1>2, <1>7, HeadRungs, WithFits DEF Rungs
  <2> QED
    BY <1>4, <1>5, <1>7, <2>1, AnswersFits
<1>8. CASE Answers(r, a, a.forms, FALSE)
  BY <1>1, <1>4, <1>5, <1>8, AnswersFits
<1> QED
  BY <1>2, <1>6, <1>7, <1>8 DEF AudibleProceeds

----------------------------------------------------------------------------
(* The actions.                                                            *)

LEMMA SilentAsksFits ==
  ASSUME PlanIInv, NEW r \in Requests, NEW player \in Players, NEW intent \in Intents,
         SilentAsks(r, player, intent)
  PROVE  PlanIInv'
<1> DEFINE a == Asked("silent", player, intent)
<1>1. /\ AskFits(a) /\ a.forms \in SilentLists /\ a.known = FALSE /\ a.intent = intent
      /\ intent # "cheap" /\ CachesFit /\ UNCHANGED <<now, gens, resolve, built>>
  BY AskedFits DEF Surfaces, SilentAsks, PlanIInv
<1>2. CASE Refused("silent") /\ Fails(r) /\ UNCHANGED index
  BY <1>1, <1>2, CachesKept, FailsFits, IndexKept
<1>3. CASE Known("silent") /\ Proceeds(r, With(a, "silent"))
  <2> DEFINE w == With(a, "silent")
  <2>1. AskFits(w) /\ w.known /\ w.intent = intent
    BY <1>1, <1>3, HeadRungs, WithFits DEF Rungs
  <2> HIDE DEF w, a
  <2> QED
    BY <1>1, <1>3, <2>1, ProceedsFits DEF w
<1>4. CASE Awaits(r, a, "resolve") /\ UNCHANGED index
  <2> DEFINE w == [a EXCEPT !.pc = "resolve"]
  <2> HIDE DEF a
  <2>1. /\ w \in AskType /\ w.pc = "resolve" /\ w.forms = a.forms /\ w.known = a.known
        /\ w.intent = a.intent
    BY <1>1 DEF AskFits, AskType, Waiting
  <2>2. req' = [req EXCEPT ![r] = w] /\ page' = [page EXCEPT ![r] = NoPage]
    BY <1>4 DEF Awaits
  <2> HIDE DEF w
  <2>3. Waits(w, built)
    BY <1>1, <2>1 DEF Waits, AskFits, Lists, Waiting
  <2> QED
    BY <1>1, <1>4, <2>2, <2>3, AskStep, CachesKept, IndexKept, NoPageFits
<1> QED
  BY <1>2, <1>3, <1>4 DEF SilentAsks

LEMMA SilentWarmsFits ==
  ASSUME PlanIInv, NEW r \in Requests, NEW player \in Players, NEW starts,
         SilentWarms(r, player, starts)
  PROVE  PlanIInv'
<1> DEFINE a == Asked("silent", player, "cheap")
<1>1. /\ AskFits(a) /\ a.forms \in SilentLists /\ a.intent = "cheap"
      /\ CachesFit /\ UNCHANGED <<now, gens, resolve, built>>
  BY AskedFits DEF Surfaces, Intents, SilentWarms, PlanIInv
<1>2. IndexMoves
  BY <1>1, IndexKept, WarmsMoves DEF SilentWarms
<1>3. CachesFit'
  BY <1>1, <1>2, CachesKept
<1>4. a.forms \in Seq(Forms)
  BY <1>1, ListFacts DEF ListFits, Lists
<1>5. CASE Fails(r)
  BY <1>1, <1>3, <1>5, FailsFits
<1>6. CASE Known("silent") /\ Answers(r, With(a, "silent"), a.forms, FALSE)
  <2>1. AskFits(With(a, "silent")) /\ With(a, "silent").intent = "cheap"
    BY <1>1, <1>6, HeadRungs, WithFits DEF Rungs
  <2> HIDE DEF a
  <2> QED
    BY <1>1, <1>3, <1>4, <1>6, <2>1, AnswersFits
<1>7. CASE Answers(r, a, a.forms, FALSE)
  <2> HIDE DEF a
  <2> QED
    BY <1>1, <1>3, <1>4, <1>7, AnswersFits
<1> QED
  BY <1>5, <1>6, <1>7 DEF SilentWarms

(* An ask that is not idle waits for something.                            *)
LEMMA WaitsOf ==
  ASSUME PlanIInv, NEW r \in Requests, req[r].pc # "idle"
  PROVE  Waits(req[r], built) /\ AskFits(req[r])
<1>1. NoAsk.pc = "idle"
  BY DEF NoAsk
<1>2. Waits(req[r], built)
  BY <1>1 DEF PlanIInv
<1> QED
  BY <1>2 DEF Waits

LEMMA SilentResolvedFits ==
  ASSUME PlanIInv, NEW r \in Requests, SilentResolved(r) \/ LeadBuilt(r)
  PROVE  PlanIInv'
<1>1. /\ Proceeds(r, req[r]) /\ req[r].pc \in {"resolved", "leadBuilt"}
      /\ UNCHANGED <<now, gens, resolve, built>>
  BY DEF SilentResolved, LeadBuilt
<1>2. AskFits(req[r]) /\ req[r].known /\ req[r].intent # "cheap"
  BY <1>1, WaitsOf DEF Waits
<1> QED
  BY <1>1, <1>2, ProceedsFits

LEMMA AudibleLeadsFits ==
  ASSUME PlanIInv, NEW r \in Requests, NEW player \in Players, AudibleLeads(r, player)
  PROVE  PlanIInv'
<1> DEFINE a == Asked("audible", player, "play")
           urls == resolve["silent"].urls
           led == Led(player)
<1>1. /\ AskFits(a) /\ a.forms = Plan("audible", player) /\ a.intent = "play" /\ a.known = FALSE
      /\ CachesFit /\ UNCHANGED <<now, gens, resolve, built>>
  BY AskedFits DEF Surfaces, Intents, AudibleLeads, PlanIInv
<1>2. urls \in UrlType /\ urls.rung = "silent"
  BY <1>1 DEF CachesFit, Rungs, AudibleLeads, Known
<1>3. LeadWithSound(a.forms) \in SoundLists
  BY <1>1, PlanLists
<1>4. led = [[[a EXCEPT !.urls = urls] EXCEPT !.known = TRUE] EXCEPT !.forms = LeadWithSound(a.forms)]
  BY <1>1 DEF Led, With, AskFits, AskType
<1> HIDE DEF a, led, urls
<1>5. /\ led \in AskType /\ led.forms \in SoundLists /\ led.known = TRUE /\ led.intent = "play"
      /\ led.urls = urls
  BY <1>1, <1>2, <1>3, <1>4 DEF AskFits, AskType, Lists
<1>6. AskFits(led) /\ Head(led.forms) = "sound"
  BY <1>2, <1>5, HeadRungs DEF AskFits, Lists
<1>7. CASE Proceeds(r, led)
  BY <1>1, <1>5, <1>6, <1>7, ProceedsFits
<1>8. CASE Awaits(r, led, "lead") /\ index' = Prepared("sound", urls)
  <2> DEFINE w == [led EXCEPT !.pc = "lead"]
  <2>1. /\ w \in AskType /\ w.pc = "lead" /\ w.forms = led.forms /\ w.known = led.known
        /\ w.intent = led.intent /\ w.urls = led.urls
    BY <1>5 DEF AskType, Waiting
  <2>2. req' = [req EXCEPT ![r] = w] /\ page' = [page EXCEPT ![r] = NoPage]
    BY <1>8 DEF Awaits
  <2> HIDE DEF w
  <2>3. Waits(w, built)
    BY <1>5, <1>6, <2>1 DEF Waits, AskFits, Waiting, Progressive
  <2>4. IndexMoves
    BY <1>1, <1>2, <1>8, PreparedMoves DEF Progressive
  <2> QED
    BY <1>1, <2>2, <2>3, <2>4, AskStep, CachesKept, NoPageFits
<1> QED
  BY <1>7, <1>8 DEF AudibleLeads, led, urls

LEMMA AudibleAsksFits ==
  ASSUME PlanIInv, NEW r \in Requests, NEW player \in Players, NEW intent \in Intents,
         NEW starts, AudibleAsks(r, player, intent, starts)
  PROVE  PlanIInv'
BY AudibleFits DEF AudibleAsks

LEMMA LeadLostFits ==
  ASSUME PlanIInv, NEW r \in Requests, LeadLost(r)
  PROVE  PlanIInv'
<1>1. req[r].player \in Players /\ "play" \in Intents
  <2>1. req[r] \in AskType
    BY WaitsOf DEF LeadLost, GivesUpLeading, AskFits
  <2> QED
    BY <2>1 DEF AskType, Intents
<1> QED
  BY <1>1, AudibleFits DEF LeadLost

LEMMA LeadingIndexFits ==
  ASSUME PlanIInv, NEW r \in Requests, LeadingIndexBuilt(r) \/ LeadingIndexFailed(r)
  PROVE  PlanIInv'
<1> DEFINE a == req[r]
<1>1. /\ Waits(a, built) /\ a.pc \in {"indexBuilt", "unfit", "unfetched"}
      /\ CachesFit /\ UNCHANGED <<now, gens, resolve, index, built>>
  BY WaitsOf DEF PlanIInv, LeadingIndexBuilt, LeadingIndexFailed
<1>2. CachesFit'
  BY <1>1, CachesKept, IndexKept
<1>3. AskFits(a) /\ a.known /\ ListFits(a.forms) /\ Head(a.forms) \in Progressive
  BY <1>1, ListFacts DEF Waits, AskFits
<1> HIDE DEF a
<1>4. CASE a.pc = "indexBuilt" /\ Answers(r, a, a.forms, FALSE)
  <2>1. <<a.forms[1], a.urls.gen>> \in built
    BY <1>1, <1>3, <1>4 DEF Waits, ListFits
  <2> QED
    BY <1>1, <1>2, <1>3, <1>4, <2>1, AnswersFits DEF ListFits
<1>5. CASE Answers(r, a, Tail(a.forms), FALSE)
  <2>1. Tail(a.forms) \in Seq(Forms) /\ Tail(a.forms)[1] \notin Progressive
    BY <1>3 DEF ListFits
  <2> QED
    BY <1>1, <1>2, <1>3, <1>5, <2>1, AnswersFits
<1>6. CASE Answers(r, a, a.forms, TRUE)
  BY <1>1, <1>2, <1>3, <1>6, AnswersFits DEF ListFits
<1> QED
  BY <1>4, <1>5, <1>6 DEF LeadingIndexBuilt, LeadingIndexFailed, a

(* What fits what was built fits when more has been.                       *)
LEMMA FitsMore ==
  ASSUME NEW b, NEW more, b \subseteq more
  PROVE  /\ \A a : Waits(a, b) => Waits(a, more)
         /\ \A p : PageFits(p, b) => PageFits(p, more)
<1>1. \A a : Waits(a, b) => Waits(a, more)
  BY DEF Waits
<1>2. \A p, i : EntryFits(p, i, b) => EntryFits(p, i, more)
  BY DEF EntryFits
<1>3. \A p : PageFits(p, b) => PageFits(p, more)
  BY <1>2 DEF PageFits
<1> QED
  BY <1>1, <1>3

(* The asks that await a build, as it ends.                                *)
LEMMA AwaitedFits ==
  ASSUME NEW a, NEW b, NEW more, b \subseteq more, Waits(a, b), a.pc \in {"lead", "index"},
         NEW outcome \in Outcomes, outcome = "built" => <<Head(a.forms), a.urls.gen>> \in more
  PROVE  Waits([a EXCEPT !.pc = Awaited(@, outcome)], more)
<1> DEFINE pc == Awaited(a.pc, outcome)
           w == [a EXCEPT !.pc = Awaited(@, outcome)]
<1>1. /\ pc \in Waiting \ {"resolve", "resolved"}
      /\ pc \in {"leadBuilt", "indexBuilt"} => outcome = "built"
      /\ pc \in {"lead", "leadBuilt", "leadFailed"} => a.pc = "lead"
  BY DEF Awaited, Outcomes, Waiting
<1>2. a \in AskType
  BY DEF Waits, AskFits
<1> HIDE DEF pc
<1>3. /\ w \in AskType /\ w.pc = pc /\ w.forms = a.forms /\ w.known = a.known
      /\ w.intent = a.intent /\ w.urls = a.urls
  BY <1>1, <1>2 DEF AskType, pc
<1> HIDE DEF w
<1>4. Waits(w, more)
  BY <1>1, <1>3 DEF Waits, AskFits, Waiting
<1> QED
  BY <1>4 DEF w

LEMMA ResolveEndsFits ==
  ASSUME PlanIInv, NEW rung \in Rungs, NEW life \in Lives, ResolveEnds(rung, life)
  PROVE  PlanIInv'
<1> DEFINE urls == [gen |-> gens + 1, expires |-> now + life, rung |-> rung]
<1>1. CachesFit /\ now \in Nat /\ gens \in Nat /\ life \in Nat
  BY DEF PlanIInv, CachesFit
<1>2. urls \in UrlType /\ urls.rung = rung /\ urls.gen \in Nat /\ urls.expires \in Nat
  BY <1>1 DEF UrlType
<1>3. /\ gens' = gens + 1
      /\ resolve' = [resolve EXCEPT ![rung] =
                       [st |-> "ok", urls |-> urls, until |-> Less(urls.expires, Margin)]]
      /\ index' = [f \in Progressive |->
                     IF rung = "silent" /\ f \in warming THEN [st |-> "building", gen |-> urls.gen]
                     ELSE index[f]]
      /\ UNCHANGED <<now, built, page>>
      /\ req' = [q \in Requests |->
                   IF rung = "silent" /\ req[q].pc = "resolve"
                   THEN [req[q] EXCEPT !.pc = "resolved", !.urls = urls, !.known = TRUE]
                   ELSE req[q]]
  BY DEF ResolveEnds
<1> HIDE DEF urls
<1>4. CachesFit'
  <2>1. Less(urls.expires, Margin) \in Nat
    BY <1>2 DEF Less
  <2>2. /\ resolve' \in [Rungs -> [st : {"none", "ok", "failed"}, urls : UrlType, until : Nat]]
        /\ \A g \in Rungs : resolve'[g].st = "ok" => resolve'[g].urls.rung = g
    BY <1>1, <1>2, <1>3, <2>1 DEF CachesFit
  <2>3. /\ index' \in [Progressive -> [st : {"none", "building", "ready"}, gen : Nat]]
        /\ \A f \in Progressive : index'[f].st = "ready" => <<f, index'[f].gen>> \in built'
    BY <1>1, <1>2, <1>3 DEF CachesFit
  <2>4. now' \in Nat /\ gens' \in Nat
    <3>1. gens' = gens + 1 /\ now' = now
      BY DEF ResolveEnds
    <3> QED
      BY <1>1, <3>1
  <2> QED
    BY <2>2, <2>3, <2>4 DEF CachesFit
<1>5. ASSUME NEW q \in Requests PROVE req'[q] = NoAsk \/ Waits(req'[q], built')
  <2>1. CASE rung = "silent" /\ req[q].pc = "resolve"
    <3> DEFINE a == req[q]
               w == [a EXCEPT !.pc = "resolved", !.urls = urls, !.known = TRUE]
    <3>1. Waits(a, built)
      BY <2>1 DEF PlanIInv, NoAsk
    <3>2. req'[q] = w
      BY <1>3, <2>1
    <3> HIDE DEF a
    <3>3. /\ w \in AskType /\ w.pc = "resolved" /\ w.forms = a.forms /\ w.known = TRUE
          /\ w.intent = a.intent /\ w.urls = urls
      BY <1>2, <3>1 DEF Waits, AskFits, AskType, Waiting
    <3>4. a.forms \in SilentLists
      BY <2>1, <3>1 DEF Waits, a
    <3> HIDE DEF w
    <3>5. Waits(w, built')
      BY <1>2, <2>1, <3>1, <3>3, <3>4, HeadRungs DEF Waits, AskFits, Waiting
    <3> QED
      BY <3>2, <3>5
  <2>2. CASE ~(rung = "silent" /\ req[q].pc = "resolve")
    BY <1>3, <2>2 DEF PlanIInv
  <2> QED
    BY <2>1, <2>2
<1> QED
  BY <1>3, <1>4, <1>5 DEF PlanIInv

LEMMA ResolveFailsFits ==
  ASSUME PlanIInv, NEW rung \in Rungs, NEW throttled \in BOOLEAN, ResolveFails(rung, throttled)
  PROVE  PlanIInv'
<1>1. CachesFit /\ now \in Nat /\ NoUrls \in UrlType /\ FailTtl \in Nat
  BY DEF PlanIInv, CachesFit, NoUrls, UrlType
<1>2. /\ \/ resolve' = resolve
         \/ resolve' = [resolve EXCEPT ![rung] = [st |-> "failed", urls |-> NoUrls, until |-> now + FailTtl]]
      /\ UNCHANGED <<now, gens, index, built, page>>
      /\ req' = [q \in Requests |->
                   IF rung = "silent" /\ req[q].pc = "resolve" THEN NoAsk ELSE req[q]]
  BY DEF ResolveFails
<1>3. CachesFit'
  BY <1>1, <1>2 DEF CachesFit
<1>4. \A q \in Requests : req'[q] = NoAsk \/ Waits(req'[q], built')
  BY <1>2 DEF PlanIInv
<1> QED
  BY <1>2, <1>3, <1>4 DEF PlanIInv

LEMMA BuildEndsFits ==
  ASSUME PlanIInv, NEW form \in Progressive, NEW outcome \in Outcomes, BuildEnds(form, outcome)
  PROVE  PlanIInv'
<1> DEFINE gen == index[form].gen
<1>1. /\ CachesFit /\ index[form].st = "building" /\ gen \in Nat
      /\ UNCHANGED <<now, gens, resolve, page>>
      /\ index' = [index EXCEPT ![form] =
                     IF outcome = "built" THEN [index[form] EXCEPT !.st = "ready"] ELSE NoIndex]
      /\ built' = IF outcome = "built" THEN built \cup {<<form, gen>>} ELSE built
      /\ req' = [q \in Requests |->
                   IF AwaitsBuild(q, form, gen)
                   THEN [req[q] EXCEPT !.pc = Awaited(@, outcome)] ELSE req[q]]
  BY DEF PlanIInv, CachesFit, BuildEnds
<1>2. built \subseteq built' /\ (outcome = "built" => <<form, gen>> \in built')
  BY <1>1
<1>3. CachesFit'
  <2>1. CASE outcome = "built"
    <3>1. index' = [index EXCEPT ![form] = [st |-> "ready", gen |-> gen]]
      <4>1. index[form] \in [st : {"none", "building", "ready"}, gen : Nat]
        BY <1>1 DEF CachesFit
      <4>2. [index[form] EXCEPT !.st = "ready"] = [st |-> "ready", gen |-> gen]
        BY <4>1
      <4> QED
        BY <1>1, <2>1, <4>2
    <3> QED
      BY <1>1, <1>2, <2>1, <3>1 DEF CachesFit
  <2>2. CASE outcome # "built"
    BY <1>1, <1>2, <2>2 DEF CachesFit, NoIndex
  <2> QED
    BY <2>1, <2>2
<1>4. ASSUME NEW q \in Requests PROVE req'[q] = NoAsk \/ Waits(req'[q], built')
  <2>1. CASE AwaitsBuild(q, form, gen)
    <3>1. Waits(req[q], built) /\ req[q].pc \in {"lead", "index"}
          /\ Head(req[q].forms) = form /\ req[q].urls.gen = gen
      BY <2>1 DEF PlanIInv, AwaitsBuild, NoAsk
    <3>2. Waits([req[q] EXCEPT !.pc = Awaited(@, outcome)], built')
      BY <1>2, <3>1, AwaitedFits
    <3> QED
      BY <1>1, <2>1, <3>2
  <2>2. CASE ~AwaitsBuild(q, form, gen)
    BY <1>1, <1>2, <2>2, FitsMore DEF PlanIInv
  <2> QED
    BY <2>1, <2>2
<1>5. \A q \in Requests : page'[q].at <= now' /\ PageFits(page'[q], built')
  BY <1>1, <1>2, FitsMore DEF PlanIInv
<1> QED
  BY <1>1, <1>3, <1>4, <1>5 DEF PlanIInv

LEMMA ReplacedBuildEndsFits ==
  ASSUME PlanIInv, NEW r \in Requests, NEW outcome \in Outcomes, ReplacedBuildEnds(r, outcome)
  PROVE  PlanIInv'
<1> DEFINE key == <<Head(req[r].forms), req[r].urls.gen>>
<1>1. /\ CachesFit /\ Waits(req[r], built) /\ req[r].pc \in {"lead", "index"}
      /\ UNCHANGED <<now, gens, resolve, index, page>>
      /\ built' = IF outcome = "built" THEN built \cup {key} ELSE built
      /\ req' = [req EXCEPT ![r].pc = Awaited(@, outcome)]
  BY DEF PlanIInv, ReplacedBuildEnds, NoAsk
<1>2. built \subseteq built' /\ (outcome = "built" => key \in built')
  BY <1>1
<1>3. CachesFit'
  BY <1>1, <1>2 DEF CachesFit
<1>4. Waits([req[r] EXCEPT !.pc = Awaited(@, outcome)], built')
  BY <1>1, <1>2, AwaitedFits
<1>5. ASSUME NEW q \in Requests PROVE req'[q] = NoAsk \/ Waits(req'[q], built')
  <2>1. CASE q = r
    BY <1>1, <1>4, <2>1 DEF PlanIInv
  <2>2. CASE q # r
    BY <1>1, <1>2, <2>2, FitsMore DEF PlanIInv
  <2> QED
    BY <2>1, <2>2
<1>6. \A q \in Requests : page'[q].at <= now' /\ PageFits(page'[q], built')
  BY <1>1, <1>2, FitsMore DEF PlanIInv
<1>7. req' = [q \in Requests |-> req'[q]]
  BY <1>1 DEF PlanIInv
<1> QED
  BY <1>1, <1>3, <1>5, <1>6, <1>7 DEF PlanIInv

(* What the pages and the services of others do to the caches alone.       *)
LEMMA OthersFit ==
  ASSUME PlanIInv, MasterOpens \/ OthersAsk \/ (\E form \in Progressive : IndexEvicted(form))
  PROVE  PlanIInv'
<1>1. CachesFit /\ UNCHANGED <<now, gens, resolve, built, req, page>>
  BY DEF PlanIInv, MasterOpens, OthersAsk, IndexEvicted
<1>2. IndexMoves
  <2>1. CASE MasterOpens
    BY <1>1, <2>1, IndexKept DEF MasterOpens
  <2>2. CASE OthersAsk
    BY <1>1, <2>2, WarmsMoves DEF OthersAsk
  <2>3. ASSUME NEW form \in Progressive, IndexEvicted(form) PROVE IndexMoves
    <3>1. index' = [index EXCEPT ![form] = NoIndex]
      BY <2>3 DEF IndexEvicted
    <3> QED
      BY <1>1, <3>1 DEF CachesFit, IndexMoves, NoIndex
  <2> QED
    BY <2>1, <2>2, <2>3
<1> QED
  BY <1>1, <1>2, CachesKept DEF PlanIInv

LEMMA PlanTickFits ==
  ASSUME PlanIInv, PlanTick
  PROVE  PlanIInv'
<1>1. CachesFit /\ CachesFit' /\ now \in Nat /\ now' = now + 1
  BY DEF PlanIInv, CachesFit, PlanTick
<1>2. \A r \in Requests : page[r].at <= now /\ PageFits(page[r], built) /\ page[r].at \in Nat
  BY DEF PlanIInv, PageFits
<1>3. \A r \in Requests : page[r].at <= now'
  BY <1>1, <1>2
<1> QED
  BY <1>1, <1>2, <1>3 DEF PlanIInv, PlanTick

----------------------------------------------------------------------------
(* SourcePlan's theorems.                                                  *)

LEMMA PlanInitOk == PlanInit => PlanIInv
<1> SUFFICES ASSUME PlanInit PROVE PlanIInv
  OBVIOUS
<1>1. CachesFit
  BY DEF PlanInit, CachesFit, NoResolve, NoUrls, NoIndex, UrlType
<1>2. now = 0 /\ \A r \in Requests : req[r] = NoAsk /\ page[r] = NoPage
  BY DEF PlanInit
<1> QED
  BY <1>1, <1>2, NoPageFits DEF PlanIInv, PlanInit

LEMMA PlanStepOk == PlanIInv /\ [PlanNext]_planVars => PlanIInv'
<1> SUFFICES ASSUME PlanIInv, [PlanNext]_planVars PROVE PlanIInv'
  OBVIOUS
<1>1. CASE UNCHANGED planVars
  BY <1>1 DEF planVars, PlanIInv, CachesFit
<1>2. ASSUME NEW r \in Requests, NEW player \in Players,
             \/ \E intent \in Intents : SilentAsks(r, player, intent)
             \/ \E starts \in BOOLEAN : SilentWarms(r, player, starts)
             \/ AudibleLeads(r, player)
             \/ \E intent \in Intents, starts \in BOOLEAN : AudibleAsks(r, player, intent, starts)
      PROVE  PlanIInv'
  BY <1>2, SilentAsksFits, SilentWarmsFits, AudibleLeadsFits, AudibleAsksFits
<1>3. ASSUME NEW r \in Requests,
             \/ SilentResolved(r) \/ LeadBuilt(r) \/ LeadLost(r)
             \/ LeadingIndexBuilt(r) \/ LeadingIndexFailed(r)
             \/ \E outcome \in Outcomes : ReplacedBuildEnds(r, outcome)
      PROVE  PlanIInv'
  BY <1>3, SilentResolvedFits, LeadLostFits, LeadingIndexFits, ReplacedBuildEndsFits
<1>4. ASSUME NEW rung \in Rungs,
             \/ \E life \in Lives : ResolveEnds(rung, life)
             \/ \E throttled \in BOOLEAN : ResolveFails(rung, throttled)
      PROVE  PlanIInv'
  BY <1>4, ResolveEndsFits, ResolveFailsFits
<1>5. ASSUME NEW form \in Progressive, \E outcome \in Outcomes : BuildEnds(form, outcome)
      PROVE  PlanIInv'
  BY <1>5, BuildEndsFits
<1>6. CASE MasterOpens \/ OthersAsk \/ (\E form \in Progressive : IndexEvicted(form))
  BY <1>6, OthersFit
<1>7. CASE PlanTick
  BY <1>7, PlanTickFits
<1> QED
  BY <1>1, <1>2, <1>3, <1>4, <1>5, <1>6, <1>7 DEF PlanNext

(* Every answer is as its lists, its resolve and what was built allow, and *)
(* every ask waits for what its first form needs.                          *)
THEOREM PlanInvariant == PlanSpec => []PlanIInv
BY PlanInitOk, PlanStepOk, PTL DEF PlanSpec

(* No page is told to start with a file whose index was not built from the *)
(* URLs in hand, unless its bytes could not be fetched.                    *)
THEOREM LeadsAreBuilt == PlanSpec => []LeadsBuilt
<1>1. PlanIInv => LeadsBuilt
  BY DEF PlanIInv, PageFits, EntryFits, LeadsBuilt
<1> QED
  BY <1>1, PlanInvariant, PTL

(* An answer kept within its max-age is as good as a new one.              *)
THEOREM KeptAnswersPlay == PlanSpec => []CachedStillPlays
<1>1. PlanIInv => CachedStillPlays
  <2> SUFFICES ASSUME PlanIInv, NEW r \in Requests, now < page[r].at + page[r].maxAge
               PROVE  /\ now < page[r].expires
                      /\ now < page[r].at + MediaTtl
                      /\ \A i \in 1 .. Len(page[r].entries) :
                           page[r].entries[i].form = "google" => now + Margin < page[r].urls.expires
    BY DEF CachedStillPlays
  <2>1. /\ page[r].at \in Nat /\ page[r].at <= now /\ page[r].maxAge \in Nat /\ page[r].expires \in Nat
        /\ page[r].urls.expires \in Nat /\ now \in Nat
        /\ page[r].maxAge <= MediaTtl
        /\ page[r].maxAge # 0 => page[r].at + page[r].maxAge <= page[r].expires
        /\ \A i \in 1 .. Len(page[r].entries) : EntryFits(page[r], i, built)
    BY DEF PlanIInv, PageFits, UrlType, CachesFit
  <2>2. page[r].maxAge # 0 /\ now < page[r].expires /\ now < page[r].at + MediaTtl
    <3>1. ASSUME NEW at \in Nat, NEW age \in Nat, NEW expires \in Nat, NEW t \in Nat,
                 at <= t, t < at + age, age <= MediaTtl, age # 0 => at + age <= expires
          PROVE  age # 0 /\ t < expires /\ t < at + MediaTtl
      BY <3>1
    <3> QED
      BY <2>1, <3>1
  <2>3. ASSUME NEW i \in 1 .. Len(page[r].entries), page[r].entries[i].form = "google"
        PROVE  now + Margin < page[r].urls.expires
    <3>1. page[r].at + page[r].maxAge + Margin <= page[r].urls.expires
      BY <2>1, <2>2, <2>3 DEF EntryFits
    <3> QED
      BY <2>1, <3>1
  <2> QED
    BY <2>2, <2>3
<1> QED
  BY <1>1, PlanInvariant, PTL

(* A frame is that of the rung an entry plays from.                        *)
THEOREM FramesAreOfTheirRung == PlanSpec => []FramesFit
<1>1. PlanIInv => FramesFit
  BY DEF PlanIInv, PageFits, EntryFits, FramesFit
<1> QED
  BY <1>1, PlanInvariant, PTL
=============================================================================
