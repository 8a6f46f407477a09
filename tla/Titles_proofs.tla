---------------------------- MODULE Titles_proofs ----------------------------
(***************************************************************************)
(* Theorems about how a title is looked up: about ResolveCache, for every  *)
(* finite set of titles, any number of lookups, any set of ids and every   *)
(* choice of lifetimes, and about Upstream (below), which asks the hosts.  *)
(***************************************************************************)
EXTENDS ResolveCache, Upstream, FiniteSetTheorems, WellFoundedInduction, TLAPS

(* What the clocks of an entry say of how it came about: an answer lapses  *)
(* with the life it earned, a failure with the cooldown, and a stand-in is *)
(* past its day, within its grace and one cooldown.                        *)
ClocksFit(e) ==
  /\ e.vouched = e.confirmed
  /\ e.how = "none" => e = NoEntry
  /\ e.how = "answer" => e.exp = e.confirmed + (IF e.ids # {} THEN Ttl ELSE NegTtl)
  /\ e.how = "failure" => e.ids = {} /\ e.exp = e.confirmed + FailTtl
  /\ e.how = "standin" => /\ e.ids # {}
                          /\ e.confirmed + Ttl <= now
                          /\ e.exp < e.confirmed + Ttl + Grace + FailTtl

IInv ==
  /\ TypeOK
  /\ \A k \in Keys : ClocksFit(cache[k]) /\ ClocksFit(parked[k])
  /\ \A k \in Keys : parked[k].how # "standin"
  /\ ~up => /\ \A k \in Keys : cache[k] = NoEntry
            /\ \A r \in Requests : req[r] = Idle
  /\ CacheBounded
  /\ Cardinality(Held(parked)) <= CacheMax

USE ResolveAssumption

----------------------------------------------------------------------------
(* Entries and sets of them.                                               *)

(* No entry is an entry of its own kind.                                   *)
LEMMA NoEntryFits == NoEntry \in Entries /\ ClocksFit(NoEntry)
BY DEF NoEntry, Entries, ClocksFit

(* What a map holds is finite.                                             *)
LEMMA HeldFinite ==
  ASSUME NEW map
  PROVE  /\ Held(map) \in SUBSET Keys
         /\ IsFiniteSet(Held(map)) /\ Cardinality(Held(map)) \in Nat
<1>1. Held(map) \in SUBSET Keys
  BY DEF Held
<1> QED
  BY <1>1, FS_Subset, FS_CardinalityType

(* A map that holds no more keys than another is no larger.                *)
LEMMA HeldShrinks ==
  ASSUME NEW map, NEW other, Held(other) \subseteq Held(map)
  PROVE  Cardinality(Held(other)) <= Cardinality(Held(map))
BY HeldFinite, FS_Subset

(* A map that keeps some entries of another.                               *)
Thinned(map, other) == \A k \in Keys : other[k] \in {map[k], NoEntry}

(* ... holds no more than it.                                              *)
LEMMA ThinnedShrinks ==
  ASSUME NEW map, NEW other, Thinned(map, other)
  PROVE  Cardinality(Held(other)) <= Cardinality(Held(map))
<1>1. Held(other) \subseteq Held(map)
  BY DEF Thinned, Held
<1> QED
  BY <1>1, HeldShrinks

----------------------------------------------------------------------------
(* The bound.                                                              *)

(* A set of numbers that is not empty has a least one.                     *)
LEMMA LeastNat ==
  ASSUME NEW S \in SUBSET Nat, S # {}
  PROVE  \E x \in S : \A y \in S : x <= y
<1> DEFINE Less == OpToRel(<, Nat)
<1>1. \A x, y \in Nat : y < x => <<y, x>> \in Less
  BY DEF OpToRel
<1>2. IsWellFoundedOn(Less, Nat)
  BY NatLessThanWellFounded
<1> HIDE DEF Less
<1>3. \E x \in S : \A y \in S : ~(<<y, x>> \in Less)
  BY <1>2, WFMin
<1>4. PICK x \in S : \A y \in S : ~(<<y, x>> \in Less)
  BY <1>3
<1>5. ASSUME NEW y \in S PROVE x <= y
  <2>1. ~(y < x)
    BY <1>1, <1>4
  <2> QED
    BY <2>1
<1> QED
  BY <1>5

(* A set of entries that is not empty has one that lapses last.            *)
LEMMA LastToLapse ==
  ASSUME NEW map \in [Keys -> Entries], Held(map) # {}
  PROVE  \E k \in Held(map) : UpTo(map, map[k].exp) = Held(map)
<1> DEFINE Later(k) == Held(map) \ UpTo(map, map[k].exp)
<1> DEFINE S == {Cardinality(Later(k)) : k \in Held(map)}
<1>1. \A k \in Held(map) : /\ Later(k) \in SUBSET Held(map)
                           /\ IsFiniteSet(Later(k)) /\ Cardinality(Later(k)) \in Nat
  BY HeldFinite, FS_Subset, FS_CardinalityType
<1>2. S \in SUBSET Nat /\ S # {}
  BY <1>1
<1>3. PICK n \in S : \A m \in S : n <= m
  BY <1>2, LeastNat
<1>4. PICK k \in Held(map) : n = Cardinality(Later(k))
  BY <1>3
<1>5. ASSUME NEW j \in Held(map), ~(map[j].exp <= map[k].exp) PROVE FALSE
  <2>1. map[j].exp \in Nat /\ map[k].exp \in Nat
    BY HeldFinite DEF Entries
  <2>2. Later(j) \subseteq Later(k)
    <3>1. ASSUME NEW i \in Held(map), map[i].exp <= map[k].exp PROVE map[i].exp <= map[j].exp
      <4>1. map[i].exp \in Nat
        BY HeldFinite DEF Entries
      <4> QED
        BY <1>5, <2>1, <3>1, <4>1
    <3> QED
      BY <3>1 DEF UpTo
  <2>3. j \in Later(k) /\ j \notin Later(j)
    BY <1>5, <2>1 DEF UpTo
  <2>4. Cardinality(Later(j)) # Cardinality(Later(k))
    BY <1>1, <2>2, <2>3, FS_Subset
  <2>5. Cardinality(Later(j)) <= Cardinality(Later(k))
    BY <1>1, <2>2, FS_Subset
  <2>6. Cardinality(Later(j)) \in S
    OBVIOUS
  <2>7. Cardinality(Later(k)) <= Cardinality(Later(j))
    BY <1>3, <1>4, <2>6
  <2>8. Cardinality(Later(j)) \in Nat /\ Cardinality(Later(k)) \in Nat
    BY <1>1
  <2> HIDE DEF Later
  <2> QED
    BY <2>4, <2>5, <2>7, <2>8
<1>6. UpTo(map, map[k].exp) = Held(map)
  BY <1>5 DEF UpTo
<1> QED
  BY <1>6

(* The cutoff is an expiry, and more than all but half a bound's worth of   *)
(* the entries lapse by then.                                              *)
LEMMA CutoffReaches ==
  ASSUME NEW map \in [Keys -> Entries], Held(map) # {}
  PROVE  /\ Cutoff(map) \in Nat
         /\ Cardinality(UpTo(map, Cutoff(map))) > Cardinality(Held(map)) - CacheMax \div 2
<1> DEFINE S == {x \in {map[k].exp : k \in Held(map)} :
                  Cardinality(UpTo(map, x)) > Cardinality(Held(map)) - CacheMax \div 2}
<1>1. PICK k \in Held(map) : UpTo(map, map[k].exp) = Held(map)
  BY LastToLapse
<1>2. CacheMax \div 2 \in Nat /\ CacheMax \div 2 >= 1
  OBVIOUS
<1>3. Cardinality(Held(map)) > Cardinality(Held(map)) - CacheMax \div 2
  BY <1>2, HeldFinite
<1>4. S # {}
  BY <1>1, <1>3
<1>5. S \in SUBSET Nat
  BY HeldFinite DEF Entries
<1>6. Min(S) \in S
  <2>1. \E x \in S : \A y \in S : x <= y
    BY <1>4, <1>5, LeastNat
  <2> QED
    BY <2>1 DEF Min
<1> QED
  BY <1>5, <1>6 DEF Cutoff

(* Making room only takes entries away.                                    *)
LEMMA RoomThins == ASSUME NEW map \in [Keys -> Entries] PROVE Thinned(map, RoomForOne(map))
BY DEF RoomForOne, Only, Thinned

(* ... and makes it.                                                       *)
LEMMA RoomMade ==
  ASSUME NEW map \in [Keys -> Entries]
  PROVE  Cardinality(Held(RoomForOne(map))) < CacheMax
<1> DEFINE live == Only(map, LAMBDA e : e.exp > now)
           late == Only(live, LAMBDA e : e.exp > Cutoff(live))
<1>1. live \in [Keys -> Entries]
  BY NoEntryFits DEF Only
<1>2. CASE Cardinality(Held(map)) < CacheMax
  BY <1>2 DEF RoomForOne
<1>3. CASE ~(Cardinality(Held(map)) < CacheMax) /\ Cardinality(Held(live)) < CacheMax
  BY <1>3 DEF RoomForOne
<1>4. CASE ~(Cardinality(Held(map)) < CacheMax) /\ ~(Cardinality(Held(live)) < CacheMax)
  <2>1. RoomForOne(map) = late
    BY <1>4 DEF RoomForOne
  <2>2. Held(live) # {}
    <3>1. Held(live) = {} => Cardinality(Held(live)) = 0
      BY FS_EmptySet
    <3> HIDE DEF live
    <3> QED
      BY <1>4, <3>1
  <2>3. Held(late) \subseteq Held(live) \ UpTo(live, Cutoff(live))
    <3>1. ASSUME NEW k \in Held(late)
          PROVE  k \in Held(live) /\ k \notin UpTo(live, Cutoff(live))
      <4>1. k \in Keys /\ late[k] # NoEntry
        BY DEF Held
      <4>2. late[k] = live[k] /\ live[k].exp > Cutoff(live)
        BY <4>1 DEF Only
      <4>3. live[k].exp \in Nat /\ Cutoff(live) \in Nat
        BY <1>1, <2>2, <4>1, CutoffReaches DEF Entries
      <4> HIDE DEF live, late
      <4> QED
        BY <4>1, <4>2, <4>3 DEF Held, UpTo
    <3> QED
      BY <3>1
  <2>4. UpTo(live, Cutoff(live)) \in SUBSET Held(live)
    BY DEF UpTo
  <2>5. /\ IsFiniteSet(Held(live)) /\ Cardinality(Held(live)) \in Nat
        /\ Cardinality(Held(late)) \in Nat
        /\ Cardinality(UpTo(live, Cutoff(live))) \in Nat
    BY <2>4, HeldFinite, FS_Subset, FS_CardinalityType
  <2>6. /\ IsFiniteSet(Held(live) \ UpTo(live, Cutoff(live)))
        /\ Cardinality(Held(live) \ UpTo(live, Cutoff(live)))
             = Cardinality(Held(live)) - Cardinality(Held(live) \cap UpTo(live, Cutoff(live)))
    BY <2>5, FS_Difference
  <2>7. Held(live) \cap UpTo(live, Cutoff(live)) = UpTo(live, Cutoff(live))
    BY <2>4
  <2>8. Cardinality(Held(late)) <= Cardinality(Held(live) \ UpTo(live, Cutoff(live)))
    BY <2>3, <2>6, FS_Subset
  <2>9. Cardinality(UpTo(live, Cutoff(live))) > Cardinality(Held(live)) - CacheMax \div 2
    BY <1>1, <2>2, CutoffReaches
  <2>10. CacheMax \div 2 \in Nat /\ CacheMax \div 2 <= CacheMax
    OBVIOUS
  <2>11. Cardinality(Held(late)) < CacheMax \div 2
    <3>1. Cardinality(Held(live) \ UpTo(live, Cutoff(live)))
            = Cardinality(Held(live)) - Cardinality(UpTo(live, Cutoff(live)))
      BY <2>6, <2>7
    <3> HIDE DEF live, late
    <3> QED
      BY <2>5, <2>8, <2>9, <2>10, <3>1
  <2>12. Cardinality(Held(late)) < CacheMax
    BY <2>5, <2>10, <2>11
  <2> QED
    BY <2>1, <2>12
<1> QED
  BY <1>2, <1>3, <1>4

----------------------------------------------------------------------------
(* Types and clocks.                                                       *)

(* An entry that fits its clocks fits them ever after.                     *)
LEMMA ClocksKeep ==
  ASSUME NEW e \in Entries, ClocksFit(e), now \in Nat, now' \in Nat, now <= now'
  PROVE  ClocksFit(e)'
<1>1. e.confirmed \in Nat
  BY DEF Entries
<1> QED
  BY <1>1 DEF ClocksFit, NoEntry

(* What a lookup publishes is an entry that fits.                          *)
LEMMA EntryFits ==
  ASSUME TypeOK, NEW ids \in SUBSET Ids, NEW asked \in BOOLEAN
  PROVE  /\ Entry(ids, asked) \in Entries
         /\ ClocksFit(Entry(ids, asked))
         /\ Entry(ids, asked).ids = ids /\ Entry(ids, asked).vouched = now
         /\ Entry(ids, asked).how \in {"answer", "failure"}
         /\ Entry(ids, asked).how = "failure" => ids = {} /\ ~asked
BY DEF TypeOK, Entry, Entries, ClocksFit, LifeOf

(* A stand-in for an entry that does not stand fits too.                   *)
LEMMA StandInFits ==
  ASSUME TypeOK, NEW k \in Keys, ClocksFit(cache[k]), ~Standing(k), cache[k].ids # {},
         now < cache[k].confirmed + Ttl + Grace
  PROVE  /\ StandIn(cache[k]) \in Entries
         /\ ClocksFit(StandIn(cache[k]))
         /\ StandIn(cache[k]).ids = cache[k].ids
<1>1. cache[k] \in Entries
  BY DEF TypeOK
<1>2. cache[k].confirmed + Ttl <= now
  BY <1>1 DEF TypeOK, Entries, ClocksFit, Standing, NoEntry
<1> DEFINE e == StandIn(cache[k])
<1>3. e \in Entries
  <2>1. ASSUME NEW old \in Entries, NEW t \in Nat
        PROVE  [old EXCEPT !.exp = t, !.how = "standin"] \in Entries
    BY DEF Entries
  <2>2. now + FailTtl \in Nat
    BY DEF TypeOK
  <2> QED
    BY <1>1, <2>1, <2>2 DEF StandIn
<1>4. /\ e.ids = cache[k].ids /\ e.exp = now + FailTtl /\ e.how = "standin"
      /\ e.confirmed = cache[k].confirmed /\ e.vouched = cache[k].vouched
  BY <1>1 DEF Entries, StandIn
<1>5. cache[k].confirmed \in Nat /\ now \in Nat
  BY <1>1 DEF Entries, TypeOK
<1>6. ClocksFit(e)
  <2> HIDE DEF e
  <2> QED
    BY <1>2, <1>4, <1>5 DEF ClocksFit
<1> QED
  BY <1>3, <1>4, <1>6

(* Publishing changes one key, besides what it drops: the key keeps what    *)
(* stands, or holds a stand-in, or what was looked up.                     *)
LEMMA PublishedIs ==
  ASSUME TypeOK, NEW k \in Keys, NEW ids \in SUBSET Ids, NEW asked \in BOOLEAN
  PROVE  \/ /\ StandsIn(k, ids, asked) /\ Standing(k)
            /\ Published(k, ids, asked) = cache
         \/ /\ StandsIn(k, ids, asked) /\ ~Standing(k)
            /\ Published(k, ids, asked) = [RoomForOne(cache) EXCEPT ![k] = StandIn(cache[k])]
         \/ /\ ~StandsIn(k, ids, asked)
            /\ Published(k, ids, asked) = [RoomForOne(cache) EXCEPT ![k] = Entry(ids, asked)]
BY DEF Published, LiveIsBetter

(* Making room leaves a map of entries.                                    *)
LEMMA RoomType ==
  ASSUME NEW map \in [Keys -> Entries] PROVE RoomForOne(map) \in [Keys -> Entries]
BY NoEntryFits DEF RoomForOne, Only

(* One more entry in a map with room is within the bound.                  *)
LEMMA RoomUsed ==
  ASSUME NEW map \in [Keys -> Entries], NEW k \in Keys, NEW e \in Entries,
         Cardinality(Held(map)) < CacheMax
  PROVE  Cardinality(Held([map EXCEPT ![k] = e])) <= CacheMax
<1> DEFINE new == [map EXCEPT ![k] = e]
<1>1. Held(new) \in SUBSET (Held(map) \cup {k})
  BY DEF Held
<1>2. /\ IsFiniteSet(Held(map) \cup {k})
      /\ Cardinality(Held(map) \cup {k}) <= Cardinality(Held(map)) + 1
      /\ Cardinality(Held(map)) \in Nat
  <2>1. IsFiniteSet(Held(map)) /\ Cardinality(Held(map)) \in Nat
    BY HeldFinite
  <2>2. IsFiniteSet(Held(map) \cup {k})
    BY <2>1, FS_AddElement
  <2>3. \/ Cardinality(Held(map) \cup {k}) = Cardinality(Held(map))
        \/ Cardinality(Held(map) \cup {k}) = Cardinality(Held(map)) + 1
    BY <2>1, FS_AddElement
  <2> QED
    BY <2>1, <2>2, <2>3
<1>3. /\ Cardinality(Held(new)) <= Cardinality(Held(map) \cup {k})
      /\ Cardinality(Held(new)) \in Nat
      /\ Cardinality(Held(map) \cup {k}) \in Nat
  BY <1>1, <1>2, FS_Subset, FS_CardinalityType
<1>4. Cardinality(Held(new)) <= CacheMax
  <2> HIDE DEF new
  <2> QED
    BY <1>2, <1>3
<1> QED
  BY <1>4

(* Publishing keeps the cache's type, its clocks and its bound.            *)
LEMMA PublishKeeps ==
  ASSUME IInv, NEW k \in Keys, NEW ids \in SUBSET Ids, NEW asked \in BOOLEAN,
         cache' = Published(k, ids, asked), now' = now
  PROVE  /\ cache' \in [Keys -> Entries]
         /\ \A j \in Keys : ClocksFit(cache[j])'
         /\ CacheBounded'
<1> DEFINE room == RoomForOne(cache)
<1>1. cache \in [Keys -> Entries] /\ TypeOK
  BY DEF IInv, TypeOK
<1>2. /\ room \in [Keys -> Entries]
      /\ \A j \in Keys : room[j] \in {cache[j], NoEntry}
      /\ Cardinality(Held(room)) < CacheMax
  BY <1>1, RoomType, RoomThins, RoomMade DEF Thinned
<1>3. ASSUME NEW e \in Entries, ClocksFit(e), cache' = [room EXCEPT ![k] = e]
      PROVE  /\ cache' \in [Keys -> Entries]
             /\ \A j \in Keys : ClocksFit(cache[j])'
             /\ CacheBounded'
  <2>1. Cardinality(Held(cache')) <= CacheMax
    BY <1>2, <1>3, RoomUsed
  <2>2. \A j \in Keys : ClocksFit(room[j])
    BY <1>2, NoEntryFits DEF IInv
  <2>3. ASSUME NEW j \in Keys PROVE ClocksFit(cache'[j])
    <3> HIDE DEF room
    <3> QED
      BY <1>2, <1>3, <2>2
  <2>4. \A j \in Keys : ClocksFit(cache[j])'
    BY <2>3 DEF ClocksFit
  <2> HIDE DEF room
  <2> QED
    BY <1>2, <1>3, <2>1, <2>4 DEF CacheBounded, Held
<1>4. CASE Published(k, ids, asked) = cache
  BY <1>1, <1>4 DEF IInv, CacheBounded, Held, ClocksFit
<1>5. CASE /\ StandsIn(k, ids, asked) /\ ~Standing(k)
           /\ cache' = [room EXCEPT ![k] = StandIn(cache[k])]
  BY <1>1, <1>3, <1>5, StandInFits DEF IInv, StandsIn
<1>6. CASE cache' = [room EXCEPT ![k] = Entry(ids, asked)]
  <2>1. Entry(ids, asked) \in Entries /\ ClocksFit(Entry(ids, asked))
    BY <1>1, EntryFits
  <2> QED
    BY <1>3, <1>6, <2>1
<1> QED
  BY <1>1, <1>4, <1>5, <1>6, PublishedIs

----------------------------------------------------------------------------
(* Steps.                                                                  *)

(* What a source may say is a set of ids and whether it said it.           *)
LEMMA RepliesType == \A reply \in Replies : reply.ids \in SUBSET Ids /\ reply.ok \in BOOLEAN
<1> SUFFICES ASSUME NEW reply \in Replies
             PROVE  reply.ids \in SUBSET Ids /\ reply.ok \in BOOLEAN
  OBVIOUS
<1>1. CASE reply = Fault
  BY <1>1 DEF Fault
<1>2. ASSUME NEW s \in SUBSET Ids, reply = [ok |-> TRUE, ids |-> s]
      PROVE  reply.ids \in SUBSET Ids /\ reply.ok \in BOOLEAN
  BY <1>2
<1> QED
  BY <1>1, <1>2 DEF Replies

(* The initial states.                                                     *)
LEMMA InitOk == Init => IInv
<1> SUFFICES ASSUME Init PROVE IInv
  OBVIOUS
<1>1. TypeOK
  BY NoEntryFits DEF Init, TypeOK, Idle
<1>2. Held(cache) = {} /\ Held(parked) = {}
  BY DEF Init, Held
<1>3. CacheBounded /\ Cardinality(Held(parked)) <= CacheMax
  BY <1>2, FS_EmptySet DEF CacheBounded
<1>4. NoEntry.how # "standin"
  BY DEF NoEntry
<1> QED
  BY <1>1, <1>3, <1>4, NoEntryFits DEF Init, IInv

(* A lookup publishes and is over.                                         *)
LEMMA PublishStep ==
  ASSUME IInv, NEW r \in Requests, req[r].at # "idle", NEW ids \in SUBSET Ids,
         NEW asked \in BOOLEAN, Publishes(r, ids, asked), UNCHANGED <<now, up, parked>>
  PROVE  IInv'
<1>1. req[r].key \in Keys /\ up = TRUE
  BY DEF IInv, TypeOK, Idle
<1>2. /\ cache' \in [Keys -> Entries]
      /\ \A j \in Keys : ClocksFit(cache[j])'
      /\ CacheBounded'
  BY <1>1, PublishKeeps DEF Publishes
<1>3. TypeOK'
  BY <1>2 DEF IInv, TypeOK, Publishes, Over, Idle
<1>4. \A j \in Keys : ClocksFit(parked[j])'
  BY DEF IInv, ClocksFit
<1> QED
  BY <1>1, <1>2, <1>3, <1>4 DEF IInv, Held

(* A step of a lookup that publishes nothing.                              *)
LEMMA QuietStep ==
  ASSUME IInv, TypeOK', UNCHANGED <<now, up, cache, parked>>,
         up = TRUE \/ UNCHANGED req
  PROVE  IInv'
BY DEF IInv, ClocksFit, CacheBounded, Held

(* Every step of a lookup keeps IInv.                                      *)
LEMMA LookupStep ==
  ASSUME IInv, NEW r \in Requests,
         \/ \E k \in Keys : Asks(r, k)
         \/ \E tmdb \in Replies, kc \in Replies : SourcesAnswer(r, tmdb, kc)
         \/ TitleFound(r) \/ TitleUnknown(r) \/ TitleFails(r)
         \/ \E found \in Replies : SearchAnswers(r, found)
         \/ Leaves(r)
  PROVE  IInv'
<1>1. ASSUME NEW k \in Keys, Asks(r, k) PROVE IInv'
  <2>1. TypeOK'
    BY <1>1 DEF IInv, TypeOK, Asks
  <2> QED
    BY <1>1, <2>1, QuietStep DEF IInv, TypeOK, Asks
<1>2. ASSUME NEW tmdb \in Replies, NEW kc \in Replies, SourcesAnswer(r, tmdb, kc) PROVE IInv'
  <2> DEFINE ids == tmdb.ids \cup kc.ids
             asked == IF req[r].key \in Keyless THEN kc.ok ELSE tmdb.ok
  <2>1. ids \in SUBSET Ids /\ asked \in BOOLEAN
    BY RepliesType
  <2>2. CASE ids # {}
    <3>1. Publishes(r, ids, asked) /\ req[r].at # "idle" /\ UNCHANGED <<now, up, parked>>
      BY <1>2, <2>2 DEF SourcesAnswer
    <3> HIDE DEF ids, asked
    <3> QED
      BY <2>1, <3>1, PublishStep
  <2>3. CASE ids = {}
    <3>1. /\ req' = [req EXCEPT ![r] = [@ EXCEPT !.at = "title", !.answered = asked]]
          /\ UNCHANGED <<now, up, cache, parked>>
      BY <1>2, <2>3 DEF SourcesAnswer
    <3> HIDE DEF ids, asked
    <3>2. req[r].at = "sources"
      BY <1>2 DEF SourcesAnswer
    <3>3. up = TRUE
      BY <3>2 DEF IInv, TypeOK, Idle
    <3>4. TypeOK'
      BY <2>1, <3>1, <3>2 DEF IInv, TypeOK
    <3> QED
      BY <3>1, <3>3, <3>4, QuietStep
  <2> QED
    BY <2>2, <2>3
<1>3. ASSUME TitleFound(r) PROVE IInv'
  <2>1. TypeOK' /\ up = TRUE
    BY <1>3 DEF IInv, TypeOK, Idle, TitleFound
  <2> QED
    BY <1>3, <2>1, QuietStep DEF TitleFound
<1>4. ASSUME TitleUnknown(r) PROVE IInv'
  <2>1. req[r].answered \in BOOLEAN
    BY DEF IInv, TypeOK
  <2> QED
    BY <1>4, <2>1, PublishStep DEF TitleUnknown
<1>5. ASSUME TitleFails(r) PROVE IInv'
  BY <1>5, PublishStep DEF TitleFails
<1>6. ASSUME NEW found \in Replies, SearchAnswers(r, found) PROVE IInv'
  <2>1. found.ids \in SUBSET Ids /\ (req[r].answered /\ found.ok) \in BOOLEAN
    BY RepliesType
  <2> QED
    BY <1>6, <2>1, PublishStep DEF SearchAnswers
<1>7. ASSUME Leaves(r) PROVE IInv'
  <2>1. TypeOK'
    BY <1>7 DEF IInv, TypeOK, Leaves, Over, Idle
  <2>2. up = TRUE
    BY <1>7 DEF IInv, TypeOK, Leaves, Idle
  <2> QED
    BY <1>7, <2>1, <2>2, QuietStep DEF Leaves
<1> QED
  BY <1>1, <1>2, <1>3, <1>4, <1>5, <1>6, <1>7

(* The process goes, parking what it holds or not; what it held before fits *)
(* whenever it is read.                                                    *)
LEMMA GoneStep ==
  ASSUME IInv, ShutsDown \/ Crashes
  PROVE  IInv'
<1>1. /\ up' = FALSE /\ now' = now
      /\ cache' = [k \in Keys |-> NoEntry]
      /\ req' = [r \in Requests |-> Idle]
  BY DEF ShutsDown, Crashes, Gone
<1>2. /\ parked' \in [Keys -> Entries]
      /\ \A k \in Keys : ClocksFit(parked'[k])
      /\ \A k \in Keys : parked'[k].how # "standin"
      /\ Cardinality(Held(parked')) <= CacheMax
  <2>1. CASE Crashes
    BY <2>1 DEF IInv, TypeOK, Crashes
  <2>2. CASE ShutsDown
    <3>1. \A k \in Keys : parked'[k] = IF WorthParking(cache[k]) THEN cache[k] ELSE NoEntry
      BY <2>2 DEF ShutsDown, Only
    <3>2. parked' \in [Keys -> Entries]
      BY <2>2, NoEntryFits DEF ShutsDown, Only, IInv, TypeOK
    <3>3. \A k \in Keys : ClocksFit(parked'[k])
      BY <3>1, NoEntryFits DEF IInv
    <3>4. ASSUME NEW k \in Keys, cache[k].how = "standin" PROVE ~WorthParking(cache[k])
      <4>1. cache[k].confirmed \in Nat /\ now \in Nat
        BY DEF IInv, TypeOK, Entries
      <4> QED
        BY <3>4, <4>1 DEF IInv, ClocksFit, WorthParking
    <3>5. \A k \in Keys : parked'[k].how # "standin"
      BY <3>1, <3>4 DEF NoEntry
    <3>6. Thinned(cache, parked')
      BY <3>1 DEF Thinned
    <3>7. Cardinality(Held(parked')) <= Cardinality(Held(cache))
      BY <3>6, ThinnedShrinks
    <3>8. Cardinality(Held(parked')) <= CacheMax
      BY <3>7, HeldFinite DEF IInv, CacheBounded
    <3> QED
      BY <3>2, <3>3, <3>5, <3>8
  <2> QED
    BY <2>1, <2>2
<1>3. TypeOK'
  BY <1>1, <1>2, NoEntryFits DEF IInv, TypeOK, Idle
<1>4. \A k \in Keys : ClocksFit(cache[k])' /\ ClocksFit(parked[k])'
  BY <1>1, <1>2, NoEntryFits DEF ClocksFit
<1>5. Held(cache)' = {}
  BY <1>1 DEF Held
<1>6. CacheBounded'
  BY <1>5, FS_EmptySet DEF CacheBounded
<1> QED
  BY <1>1, <1>2, <1>3, <1>4, <1>6 DEF IInv, Held

(* A boot: what it restores fits.                                          *)
LEMMA BootStep == ASSUME IInv, Boots PROVE IInv'
<1>1. ASSUME NEW k \in Keys
      PROVE  Restored(parked[k]) \in Entries /\ ClocksFit(Restored(parked[k]))
  <2> DEFINE e == parked[k]
  <2>1. e \in Entries /\ ClocksFit(e) /\ e.how # "standin"
    BY DEF IInv, TypeOK
  <2>2. CASE Restored(e) \in {e, NoEntry}
    BY <2>1, <2>2, NoEntryFits
  <2>3. CASE e.ids # {} /\ Restored(e) = [e EXCEPT !.exp = e.confirmed + Ttl]
    <3> HIDE DEF e
    <3>1. e.confirmed + Ttl \in Nat
      BY <2>1 DEF Entries
    <3>2. Restored(e) \in Entries
      BY <2>1, <2>3, <3>1 DEF Entries
    <3>3. /\ Restored(e).ids = e.ids /\ Restored(e).exp = e.confirmed + Ttl
          /\ Restored(e).how = e.how /\ Restored(e).confirmed = e.confirmed
          /\ Restored(e).vouched = e.vouched
      BY <2>1, <2>3 DEF Entries
    <3>4. e.how # "none"
      BY <2>1, <2>3 DEF ClocksFit, NoEntry
    <3>5. ClocksFit(Restored(e))
      BY <2>1, <2>3, <3>3, <3>4 DEF ClocksFit
    <3> QED
      BY <3>2, <3>5 DEF e
  <2> QED
    BY <2>2, <2>3 DEF Restored
<1>2. /\ cache' = [k \in Keys |-> Restored(parked[k])]
      /\ up' = TRUE /\ UNCHANGED <<now, req, parked>>
  BY DEF Boots
<1>3. cache' \in [Keys -> Entries] /\ \A k \in Keys : ClocksFit(cache'[k])
  BY <1>1, <1>2
<1>4. TypeOK'
  BY <1>2, <1>3 DEF IInv, TypeOK
<1>5. Held(cache') \subseteq Held(parked)
  <2>1. Restored(NoEntry) = NoEntry
    BY DEF Restored, NoEntry, IInv, TypeOK
  <2> QED
    BY <1>2, <2>1 DEF Held
<1>6. Cardinality(Held(cache')) <= CacheMax
  BY <1>5, HeldShrinks, HeldFinite DEF IInv
<1>7. \A k \in Keys : ClocksFit(cache[k])' /\ ClocksFit(parked[k])'
  BY <1>2, <1>3 DEF IInv, ClocksFit
<1> QED
  BY <1>2, <1>4, <1>6, <1>7 DEF IInv, CacheBounded, Held

(* Every step keeps IInv.                                                  *)
LEMMA StepKeeps == IInv /\ [Next]_vars => IInv'
<1> SUFFICES ASSUME IInv, [Next]_vars PROVE IInv'
  OBVIOUS
<1>1. CASE Tick
  <2>1. now \in Nat /\ now' \in Nat /\ now <= now' /\ UNCHANGED <<up, cache, req, parked>>
    BY <1>1 DEF Tick, IInv, TypeOK
  <2>2. TypeOK'
    BY <2>1 DEF IInv, TypeOK
  <2>3. ASSUME NEW k \in Keys PROVE ClocksFit(cache[k])' /\ ClocksFit(parked[k])'
    <3>1. cache[k] \in Entries /\ parked[k] \in Entries
      BY DEF IInv, TypeOK
    <3>2. ClocksFit(cache[k]) /\ ClocksFit(parked[k])
      BY DEF IInv
    <3> QED
      BY <2>1, <3>1, <3>2 DEF ClocksFit, Entries
  <2> QED
    BY <2>1, <2>2, <2>3 DEF IInv, CacheBounded, Held
<1>2. CASE UNCHANGED vars
  BY <1>2 DEF vars, IInv, TypeOK, ClocksFit, CacheBounded, Held
<1>3. CASE ShutsDown \/ Crashes \/ Boots
  BY <1>3, GoneStep, BootStep
<1>4. ASSUME NEW r \in Requests,
             \/ \E k \in Keys : Asks(r, k)
             \/ \E tmdb \in Replies, kc \in Replies : SourcesAnswer(r, tmdb, kc)
             \/ TitleFound(r) \/ TitleUnknown(r) \/ TitleFails(r)
             \/ \E found \in Replies : SearchAnswers(r, found)
             \/ Leaves(r)
      PROVE  IInv'
  BY <1>4, LookupStep
<1> QED
  BY <1>1, <1>2, <1>3, <1>4 DEF Next

(* IInv holds throughout.                                                  *)
THEOREM Invariant == Spec => []IInv
BY InitOk, StepKeeps, PTL DEF Spec

(* Types.                                                                  *)
THEOREM TypeCorrect == Spec => []TypeOK
<1>1. IInv => TypeOK
  BY DEF IInv
<1> QED
  BY <1>1, Invariant, PTL

(* The cache keeps to its bound.                                           *)
THEOREM Bounded == Spec => []CacheBounded
<1>1. IInv => CacheBounded
  BY DEF IInv
<1> QED
  BY <1>1, Invariant, PTL

(* What standing entries say of themselves follows from their clocks.      *)
LEMMA StandingClocks ==
  ASSUME IInv, NEW k \in Keys
  PROVE  /\ now \in Nat /\ ClocksFit(cache[k])
         /\ cache[k].exp \in Nat /\ cache[k].confirmed \in Nat
         /\ cache[k].how \in {"none", "answer", "standin", "failure"}
         /\ cache[k].how = "none" => ~Standing(k) /\ cache[k].ids = {}
<1>1. cache[k] \in Entries /\ now \in Nat /\ ClocksFit(cache[k])
  BY DEF IInv, TypeOK
<1> QED
  BY <1>1 DEF Entries, ClocksFit, NoEntry, Standing

(* No entry outlives what its answer was worth: a list its grace, an empty *)
(* answer its short life.                                                  *)
THEOREM WorthOutlived == Spec => []NothingOutlivesItsWorth
<1>1. IInv => NothingOutlivesGrace
  BY StandingClocks DEF NothingOutlivesGrace, ClocksFit, Standing
<1>2. IInv => EmptyIsBrief
  BY StandingClocks DEF EmptyIsBrief, ClocksFit, Standing
<1> QED
  BY <1>1, <1>2, Invariant, PTL DEF NothingOutlivesItsWorth

(* An entry is called stale or failed exactly when it is.                  *)
THEOREM Honest == Spec => []HitIsHonest
<1>1. IInv => HitIsHonest
  BY StandingClocks DEF HitIsHonest, ClocksFit, Standing, SaysStale, SaysFailed
<1> QED
  BY <1>1, Invariant, PTL

----------------------------------------------------------------------------
(* Action properties.                                                      *)

(* What a step may make of a key: drop it, keep it, or publish; a boot     *)
(* finds it empty.                                                         *)
LEMMA KeySteps ==
  ASSUME IInv, [Next]_vars, NEW k \in Keys
  PROVE  \/ cache'[k] = cache[k] \/ cache'[k] = NoEntry
         \/ cache[k] = NoEntry
         \/ /\ cache[k].ids # {} /\ ~Standing(k)
            /\ cache'[k] = StandIn(cache[k])
            /\ now < cache[k].confirmed + Ttl + Grace
         \/ \E ids \in SUBSET Ids, asked \in BOOLEAN :
              ~StandsIn(k, ids, asked) /\ cache'[k] = Entry(ids, asked)
<1> DEFINE Goal == \/ cache'[k] = cache[k] \/ cache'[k] = NoEntry
                   \/ cache[k] = NoEntry
                   \/ /\ cache[k].ids # {} /\ ~Standing(k)
                      /\ cache'[k] = StandIn(cache[k])
                      /\ now < cache[k].confirmed + Ttl + Grace
                   \/ \E ids \in SUBSET Ids, asked \in BOOLEAN :
                        ~StandsIn(k, ids, asked) /\ cache'[k] = Entry(ids, asked)
<1>1. ASSUME UNCHANGED cache PROVE Goal
  BY <1>1
<1>2. CASE ShutsDown \/ Crashes
  BY <1>2 DEF ShutsDown, Crashes, Gone
<1>3. CASE Boots
  BY <1>3 DEF Boots, IInv
<1>4. ASSUME NEW r \in Requests, req[r].at # "idle", NEW ids \in SUBSET Ids,
             NEW asked \in BOOLEAN, Publishes(r, ids, asked)
      PROVE  Goal
  <2> DEFINE j == req[r].key
             room == RoomForOne(cache)
  <2>1. j \in Keys /\ TypeOK /\ cache' = Published(j, ids, asked)
    BY <1>4 DEF IInv, TypeOK, Publishes
  <2>2. room \in [Keys -> Entries] /\ room[k] \in {cache[k], NoEntry}
    BY <2>1, RoomType, RoomThins DEF TypeOK, Thinned
  <2> HIDE DEF room, j
  <2>3. CASE Published(j, ids, asked) = cache
    BY <2>1, <2>3
  <2>4. CASE /\ StandsIn(j, ids, asked) /\ ~Standing(j)
             /\ cache' = [room EXCEPT ![j] = StandIn(cache[j])]
    BY <2>1, <2>2, <2>4 DEF StandsIn
  <2>5. CASE ~StandsIn(j, ids, asked) /\ cache' = [room EXCEPT ![j] = Entry(ids, asked)]
    BY <2>1, <2>2, <2>5
  <2>6. \/ Published(j, ids, asked) = cache
        \/ /\ StandsIn(j, ids, asked) /\ ~Standing(j)
           /\ cache' = [room EXCEPT ![j] = StandIn(cache[j])]
        \/ ~StandsIn(j, ids, asked) /\ cache' = [room EXCEPT ![j] = Entry(ids, asked)]
    BY <2>1, PublishedIs DEF room
  <2> QED
    BY <2>3, <2>4, <2>5, <2>6
<1> HIDE DEF Goal
<1>5. ASSUME NEW r \in Requests,
             \/ \E j \in Keys : Asks(r, j)
             \/ TitleFound(r) \/ Leaves(r)
      PROVE  UNCHANGED cache
  BY <1>5 DEF Asks, TitleFound, Leaves
<1>6. ASSUME NEW r \in Requests, NEW tmdb \in Replies, NEW kc \in Replies,
             SourcesAnswer(r, tmdb, kc)
      PROVE  Goal
  <2> DEFINE ids == tmdb.ids \cup kc.ids
             asked == IF req[r].key \in Keyless THEN kc.ok ELSE tmdb.ok
  <2>1. ids \in SUBSET Ids /\ asked \in BOOLEAN
    BY RepliesType
  <2>2. UNCHANGED cache \/ Publishes(r, ids, asked)
    BY <1>6 DEF SourcesAnswer
  <2>3. req[r].at # "idle"
    BY <1>6 DEF SourcesAnswer
  <2> HIDE DEF ids, asked
  <2> QED
    BY <1>1, <1>4, <2>1, <2>2, <2>3
<1>7. ASSUME NEW r \in Requests, TitleUnknown(r) \/ TitleFails(r) PROVE Goal
  <2>1. req[r].at # "idle" /\ req[r].answered \in BOOLEAN
    BY <1>7 DEF TitleUnknown, TitleFails, IInv, TypeOK
  <2>2. \E asked \in BOOLEAN : Publishes(r, {}, asked)
    BY <1>7, <2>1 DEF TitleUnknown, TitleFails
  <2> QED
    BY <1>4, <2>1, <2>2
<1>8. ASSUME NEW r \in Requests, NEW found \in Replies, SearchAnswers(r, found) PROVE Goal
  <2>1. found.ids \in SUBSET Ids /\ (req[r].answered /\ found.ok) \in BOOLEAN
    BY RepliesType
  <2>2. req[r].at # "idle" /\ Publishes(r, found.ids, req[r].answered /\ found.ok)
    BY <1>8 DEF SearchAnswers
  <2> QED
    BY <1>4, <2>1, <2>2
<1>9. CASE Tick \/ UNCHANGED vars
  BY <1>1, <1>9 DEF Tick, vars
<1> QED
  BY <1>1, <1>2, <1>3, <1>5, <1>6, <1>7, <1>8, <1>9 DEF Next, Goal

(* While an answer is within its grace, a failure neither blanks it nor    *)
(* touches it as long as it stands.                                        *)
THEOREM NeverWorse == Spec => FailureNeverWorsens
<1>1. ASSUME IInv, [Next]_vars, NEW k \in Keys,
             cache[k].ids # {}, now < cache[k].vouched + Ttl + Grace,
             cache'[k].ids = {}, cache'[k].how # "none"
      PROVE  cache'[k].how = "answer"
  <2>1. cache[k] \in Entries /\ TypeOK /\ cache[k].vouched = cache[k].confirmed
    BY <1>1 DEF IInv, TypeOK, ClocksFit
  <2>2. cache[k] # NoEntry /\ cache'[k] # NoEntry /\ cache'[k] # cache[k]
    BY <1>1 DEF NoEntry
  <2>3. StandIn(cache[k]).ids = cache[k].ids
    BY <2>1 DEF StandIn, Entries
  <2>4. PICK ids \in SUBSET Ids, asked \in BOOLEAN :
          ~StandsIn(k, ids, asked) /\ cache'[k] = Entry(ids, asked)
    BY <1>1, <2>2, <2>3, KeySteps
  <2>5. ids = {} /\ asked
    BY <1>1, <2>1, <2>4, EntryFits DEF StandsIn
  <2>6. /\ Entry(ids, asked).how \in {"answer", "failure"}
        /\ Entry(ids, asked).how = "failure" => ~asked
    BY <2>1, EntryFits
  <2>7. Entry(ids, asked).how # "failure"
    BY <2>5, <2>6, Zenon
  <2>8. Entry(ids, asked).how \in {"answer", "failure"}
    BY <2>6, Zenon
  <2> QED
    BY <2>4, <2>7, <2>8
<1>2. ASSUME IInv, [Next]_vars, NEW k \in Keys,
             Standing(k), cache[k].ids # {}, now < cache[k].vouched + Ttl + Grace,
             cache'[k].how \in {"standin", "failure"}
      PROVE  cache'[k] = cache[k]
  <2>1. cache[k] \in Entries /\ TypeOK /\ cache[k].vouched = cache[k].confirmed
    BY <1>2 DEF IInv, TypeOK, ClocksFit
  <2>2. cache[k] # NoEntry /\ cache'[k] # NoEntry
    BY <1>2 DEF NoEntry
  <2>3. ASSUME NEW ids \in SUBSET Ids, NEW asked \in BOOLEAN,
               ~StandsIn(k, ids, asked), cache'[k] = Entry(ids, asked)
        PROVE  FALSE
    <3>1. ids = {} /\ ~asked
      BY <1>2, <2>1, <2>3, EntryFits
    <3> QED
      BY <1>2, <2>1, <2>3, <3>1 DEF StandsIn
  <2> QED
    BY <1>2, <2>2, <2>3, KeySteps
<1>3. IInv /\ [Next]_vars =>
        \A k \in Keys : cache[k].ids # {} /\ now < cache[k].vouched + Ttl + Grace
                          => NotBlanked(k) /\ NotDowngraded(k)
  BY <1>1, <1>2 DEF NotBlanked, NotDowngraded
<1> QED
  BY <1>3, Invariant, PTL DEF Spec, FailureNeverWorsens

(***************************************************************************)
(* Upstream, for any lookups, any time limit, any hints of the hosts and   *)
(* any windows of the pause.                                               *)
(***************************************************************************)

PauseRecord == [until : Int, strikes : Nat]

(* A host without a strike has no pause, and a pause began in the past.    *)
PausesFit ==
  /\ now \in Nat
  /\ pause \in [Hosts -> PauseRecord] /\ began \in [Hosts -> Nat]
  /\ \A h \in Hosts : began[h] <= now /\ (pause[h].strikes = 0 => pause[h].until = 0)

AskRecord == [pc : {"idle", "sent", "body"}, host : Hosts, more : BOOLEAN, sent : Nat]

(* A request is in flight no longer than the client allows, and it left    *)
(* before the pause of its host began, or after it was over.               *)
SentFits(a, t, paused, since) ==
  /\ a \in AskRecord /\ a.sent <= t
  /\ a.pc # "idle" => t <= a.sent + Timeout
  /\ (a.pc = "sent" /\ paused[a.host].strikes > 0) =>
       (a.sent <= since[a.host] \/ paused[a.host].until <= a.sent)

UpstreamIInv ==
  /\ PausesFit
  /\ ask = [l \in Lookups |-> ask[l]]
  /\ \A l \in Lookups : SentFits(ask[l], now, pause, began)

USE UpstreamAssumption, BackoffAssumption

LEMMA IdleFits ==
  ASSUME NEW t \in Nat, NEW paused, NEW since
  PROVE  SentFits(NoAsk, t, paused, since)
BY DEF SentFits, AskRecord, NoAsk, Hosts

(* A window is a time, whatever it comes to.                               *)
LEMMA WindowType ==
  ASSUME NEW s \in Nat, NEW jitter \in Int
  PROVE  WindowMs(s, jitter) \in Int
<1>1. \A a \in Int, b \in Int : AtMost(a, b) \in Int
  BY DEF AtMost
<1>2. AtMost(s - 1, 20) \in Int
  BY <1>1
<1>3. 2 ^ AtMost(s - 1, 20) \in Int
  BY <1>2
<1>4. AtMost(BaseMs * 2 ^ AtMost(s - 1, 20), CapMs) \in Int
  BY <1>1, <1>3
<1> DEFINE exp == AtMost(BaseMs * 2 ^ AtMost(s - 1, 20), CapMs)
<1>5. exp \in Int
  BY <1>4
<1> HIDE DEF exp
<1>6. exp + (exp * jitter) \div 1000 \in Int
  BY <1>5
<1> QED
  BY <1>1, <1>6 DEF WindowMs, exp

(* A trip moves a pause that stands no nearer, and adds no strike to it;   *)
(* otherwise it begins one, with one strike more.                          *)
TripFits(b, t, c) ==
  /\ c \in PauseRecord
  /\ Paused(b, t) => b.until <= c.until /\ c.strikes = b.strikes
  /\ ~Paused(b, t) => c.strikes = b.strikes + 1

LEMMA TripMoves ==
  ASSUME NEW b \in PauseRecord, NEW t \in Nat, NEW hint \in Hints \cup {NoHint}, NEW jitter \in Int
  PROVE  TripFits(b, t, Trip(b, t, hint, jitter))
<1> USE DEF PauseRecord, TripFits
<1>1. hint \in Int
  BY DEF NoHint
<1>2. CASE Paused(b, t)
  <2> DEFINE until == IF hint # NoHint /\ t + hint > b.until THEN t + hint ELSE b.until
  <2>1. Trip(b, t, hint, jitter) = [b EXCEPT !.until = until]
    BY <1>2 DEF Trip
  <2>2. until \in Int /\ b.until <= until
    BY <1>1
  <2> HIDE DEF until
  <2> QED
    BY <1>2, <2>1, <2>2
<1>3. CASE ~Paused(b, t)
  <2> DEFINE until == t + IF hint = NoHint THEN WindowMs(b.strikes + 1, jitter) ELSE hint
  <2>1. Trip(b, t, hint, jitter) = [until |-> until, strikes |-> b.strikes + 1]
    BY <1>3 DEF Trip, TripEveryTime
  <2>2. WindowMs(b.strikes + 1, jitter) \in Int
    <3>1. b.strikes + 1 \in Nat
      OBVIOUS
    <3> QED
      BY <3>1, WindowType
  <2>3. until \in Int
    BY <1>1, <2>2
  <2> HIDE DEF until
  <2> QED
    BY <1>3, <2>1, <2>3
<1> QED
  BY <1>2, <1>3

----------------------------------------------------------------------------
(* Steps of one lookup.                                                    *)

(* The pause of one host moves: one begins now, one is over, or one that   *)
(* stands lasts longer.                                                    *)
PauseMoves(h) ==
  /\ now' = now
  /\ pause' = [pause EXCEPT ![h] = pause'[h]]
  /\ pause'[h] \in PauseRecord
  /\ \/ began' = [began EXCEPT ![h] = now] /\ pause'[h].strikes > 0
     \/ began' = began /\ pause'[h] = NotPaused
     \/ /\ began' = began
        /\ Paused(pause[h], now)
        /\ pause[h].until <= pause'[h].until /\ pause'[h].strikes = pause[h].strikes

LEMMA MoveKeeps ==
  ASSUME PausesFit, NEW h \in Hosts, PauseMoves(h)
  PROVE  /\ PausesFit'
         /\ \A a : SentFits(a, now, pause, began) => SentFits(a, now', pause', began')
<1>1. PausesFit'
  BY DEF PausesFit, PauseMoves, NotPaused, Paused
<1>2. ASSUME NEW a, SentFits(a, now, pause, began) PROVE SentFits(a, now', pause', began')
  <2>1. /\ a \in AskRecord /\ a.host \in Hosts /\ a.sent \in Nat /\ a.sent <= now
        /\ a.pc # "idle" => now <= a.sent + Timeout
    BY <1>2 DEF SentFits, AskRecord
  <2>2. ASSUME a.pc = "sent", pause'[a.host].strikes > 0
        PROVE  a.sent <= began'[a.host] \/ pause'[a.host].until <= a.sent
    <3>1. CASE a.host # h
      BY <1>2, <2>1, <2>2, <3>1 DEF PausesFit, PauseMoves, SentFits
    <3>2. CASE a.host = h /\ began' = [began EXCEPT ![h] = now]
      BY <2>1, <3>2 DEF PausesFit
    <3>3. CASE /\ a.host = h /\ began' = began
               /\ Paused(pause[h], now) /\ pause'[h].strikes = pause[h].strikes
      <4>1. a.sent <= began[h] \/ pause[h].until <= a.sent
        BY <1>2, <2>2, <3>3 DEF SentFits
      <4>2. pause[h].until > a.sent
        BY <2>1, <3>3 DEF PausesFit, Paused, PauseRecord
      <4> QED
        BY <2>1, <3>3, <4>1, <4>2 DEF PausesFit, PauseRecord
    <3>4. CASE a.host = h /\ pause'[h] = NotPaused
      BY <2>2, <3>4 DEF NotPaused
    <3> QED
      BY <3>1, <3>2, <3>3, <3>4 DEF PauseMoves
  <2>3. now' = now
    BY DEF PauseMoves
  <2> QED
    BY <2>1, <2>2, <2>3 DEF SentFits
<1> QED
  BY <1>1, <1>2

(* What a lookup becomes is right, and everything else stays so.           *)
LEMMA ReportStep ==
  ASSUME UpstreamIInv, PausesFit', NEW l \in Lookups, NEW a,
         ask' = [ask EXCEPT ![l] = a], SentFits(a, now', pause', began'),
         \A b : SentFits(b, now, pause, began) => SentFits(b, now', pause', began')
  PROVE  UpstreamIInv'
<1>1. \A k \in Lookups : SentFits(ask'[k], now', pause', began')
  BY DEF UpstreamIInv
<1>2. ask' = [k \in Lookups |-> ask'[k]]
  BY DEF UpstreamIInv
<1> QED
  BY <1>1, <1>2 DEF UpstreamIInv

(* ... when no pause moves.                                                *)
LEMMA CalmStep ==
  ASSUME UpstreamIInv, UNCHANGED <<now, pause, began>>, NEW l \in Lookups, NEW a,
         ask' = [ask EXCEPT ![l] = a], SentFits(a, now, pause, began)
  PROVE  UpstreamIInv'
<1>1. PausesFit'
  BY DEF UpstreamIInv, PausesFit
<1> QED
  BY <1>1, ReportStep

(* A request that leaves finds its host not paused.                        *)
LEMMA SentNowFits ==
  ASSUME UpstreamIInv, NEW h \in Hosts, NEW more \in BOOLEAN, ~LeftAlone(h)
  PROVE  SentFits([pc |-> "sent", host |-> h, more |-> more, sent |-> now], now, pause, began)
<1> DEFINE a == [pc |-> "sent", host |-> h, more |-> more, sent |-> now]
<1>1. now \in Nat /\ pause[h].until <= now
  BY DEF UpstreamIInv, PausesFit, LeftAlone, Paused, PauseRecord
<1>2. a \in AskRecord /\ a.host = h /\ a.sent = now
  BY <1>1 DEF AskRecord
<1> HIDE DEF a
<1>3. SentFits(a, now, pause, began)
  BY <1>1, <1>2 DEF SentFits
<1> QED
  BY <1>3 DEF a

LEMMA AsksHostFits ==
  ASSUME UpstreamIInv, NEW l \in Lookups, NEW h \in Hosts, NEW more \in BOOLEAN, AsksHost(l, h, more)
  PROVE  UpstreamIInv'
<1>1. UNCHANGED <<now, pause, began>> /\ now \in Nat
  BY DEF AsksHost, UpstreamIInv, PausesFit
<1>2. CASE LeftAlone(h)
  BY <1>1, <1>2, IdleFits, CalmStep DEF AsksHost, Calls
<1>3. CASE ~LeftAlone(h)
  BY <1>1, <1>3, CalmStep, SentNowFits DEF AsksHost, Calls
<1> QED
  BY <1>2, <1>3

LEMMA GoesOnFits ==
  ASSUME UpstreamIInv, NEW l \in Lookups, GoesOn(l)
  PROVE  UpstreamIInv'
<1> DEFINE h == ask[l].host
<1>1. UNCHANGED <<now, pause, began>> /\ now \in Nat /\ h \in Hosts
  BY DEF GoesOn, UpstreamIInv, PausesFit, SentFits, AskRecord
<1>2. CASE LeftAlone(h)
  BY <1>1, <1>2, IdleFits, CalmStep DEF GoesOn
<1>3. CASE ~LeftAlone(h)
  BY <1>1, <1>3, CalmStep, SentNowFits DEF GoesOn
<1> QED
  BY <1>2, <1>3

LEMMA EndsFits ==
  ASSUME UpstreamIInv, NEW l \in Lookups, Fails(l) \/ Parses(l)
  PROVE  UpstreamIInv'
<1>1. now \in Nat /\ UNCHANGED <<now, pause, began>> /\ ask' = [ask EXCEPT ![l] = NoAsk]
  BY DEF UpstreamIInv, PausesFit, Fails, Parses
<1> QED
  BY <1>1, IdleFits, CalmStep

(* The reports that move the pause of a host.                              *)
LEMMA RefusesMoves ==
  ASSUME UpstreamIInv, NEW l \in Lookups, NEW hint \in Hints \cup {NoHint}, NEW jitter \in Jitters,
         Refuses(l, hint, jitter)
  PROVE  LET h == ask[l].host IN
         /\ h \in Hosts /\ PauseMoves(h) /\ Reports(l, h)
         /\ pause'[h].strikes > pause[h].strikes => ~Paused(pause[h], now)
<1> DEFINE h == ask[l].host
           to == Trip(pause[h], now, hint, jitter)
<1>1. h \in Hosts /\ PausesFit /\ ask[l].pc = "sent" /\ ask = [k \in Lookups |-> ask[k]]
  BY DEF UpstreamIInv, SentFits, AskRecord, Refuses
<1>2. now \in Nat /\ pause[h] \in PauseRecord /\ jitter \in Int
  BY <1>1 DEF PausesFit
<1>3. /\ to \in PauseRecord
      /\ Paused(pause[h], now) => pause[h].until <= to.until /\ to.strikes = pause[h].strikes
      /\ ~Paused(pause[h], now) => to.strikes = pause[h].strikes + 1
  <2>1. pause[h] \in PauseRecord
    BY <1>2 DEF PauseRecord
  <2>2. TripFits(pause[h], now, to)
    BY <1>2, <2>1, TripMoves
  <2> HIDE DEF h, to
  <2> QED
    BY <2>2 DEF PauseRecord, TripFits
<1>4. /\ now' = now /\ pause' = [pause EXCEPT ![h] = to] /\ ask' = [ask EXCEPT ![l] = NoAsk]
      /\ began' = IF ~Paused(pause[h], now) THEN [began EXCEPT ![h] = now] ELSE began
  BY DEF Refuses, Pauses
<1>5. pause'[h] = to
  BY <1>1, <1>4 DEF PausesFit
<1>6. ask'[l].pc = "idle"
  BY <1>1, <1>4 DEF NoAsk
<1> HIDE DEF h, to
<1>7. PauseMoves(h)
  <2>1. CASE Paused(pause[h], now)
    BY <1>3, <1>4, <1>5, <2>1 DEF PauseMoves
  <2>2. CASE ~Paused(pause[h], now)
    <3>1. to.strikes > 0 /\ began' = [began EXCEPT ![h] = now]
      BY <1>2, <1>3, <1>4, <2>2 DEF PauseRecord
    <3> QED
      BY <1>3, <1>4, <1>5, <3>1 DEF PauseMoves
  <2> QED
    BY <2>1, <2>2
<1>8. Reports(l, h)
  BY <1>1, <1>6 DEF Reports, h
<1>9. pause'[h].strikes > pause[h].strikes => ~Paused(pause[h], now)
  BY <1>2, <1>3, <1>5 DEF PauseRecord
<1> QED
  BY <1>1, <1>7, <1>8, <1>9 DEF h

LEMMA AnswersMoves ==
  ASSUME UpstreamIInv, NEW l \in Lookups, NEW spent \in Hints \cup {NoHint},
         Accepts(l, spent) \/ Declines(l, spent)
  PROVE  LET h == ask[l].host IN
         /\ h \in Hosts /\ PauseMoves(h) /\ Reports(l, h)
         /\ pause'[h].strikes <= 1
<1> DEFINE h == ask[l].host
           to == Answered(h, spent)
<1>1. h \in Hosts /\ PausesFit /\ ask[l].pc = "sent" /\ ask = [k \in Lookups |-> ask[k]]
      /\ ask[l] \in AskRecord
  BY DEF UpstreamIInv, SentFits, AskRecord, Accepts, Declines
<1>2. now \in Nat /\ NotPaused \in PauseRecord /\ ~Paused(NotPaused, now)
      /\ NotPaused.strikes = 0
  BY <1>1 DEF PausesFit, NotPaused, Paused, PauseRecord
<1>3. spent # NoHint => to \in PauseRecord /\ to.strikes = 1
  <2> SUFFICES ASSUME spent # NoHint
               PROVE  to \in PauseRecord /\ to.strikes = 1
    OBVIOUS
  <2>1. to = Trip(NotPaused, now, spent, 0)
    BY DEF Answered, Clear
  <2>2. 0 \in Int
    OBVIOUS
  <2>3. NotPaused \in PauseRecord
    BY <1>2 DEF PauseRecord
  <2>4. TripFits(NotPaused, now, to)
    BY <1>2, <2>1, <2>2, <2>3, TripMoves
  <2> HIDE DEF to
  <2> QED
    BY <1>2, <2>4 DEF PauseRecord, TripFits
<1>4. spent = NoHint => to = NotPaused
  BY DEF Answered, Clear
<1>5. /\ now' = now /\ pause' = [pause EXCEPT ![h] = to]
      /\ began' = IF spent # NoHint THEN [began EXCEPT ![h] = now] ELSE began
      /\ ask' = [ask EXCEPT ![l] = NoAsk] \/ ask' = [ask EXCEPT ![l].pc = "body"]
  BY DEF Accepts, Declines, Pauses
<1>6. pause'[h] = to
  BY <1>1, <1>5 DEF PausesFit
<1>7. ask'[l].pc # "sent"
  BY <1>1, <1>5 DEF NoAsk, AskRecord
<1> HIDE DEF h, to
<1>8. PauseMoves(h)
  <2>1. CASE spent = NoHint
    BY <1>2, <1>4, <1>5, <1>6, <2>1 DEF PauseMoves
  <2>2. CASE spent # NoHint
    <3>1. to.strikes > 0 /\ began' = [began EXCEPT ![h] = now]
      BY <1>3, <1>5, <2>2
    <3> QED
      BY <1>3, <1>5, <1>6, <2>2, <3>1 DEF PauseMoves
  <2> QED
    BY <2>1, <2>2
<1>9. Reports(l, h)
  BY <1>1, <1>7 DEF Reports, h
<1>10. pause'[h].strikes <= 1
  BY <1>2, <1>3, <1>4, <1>6
<1> QED
  BY <1>1, <1>8, <1>9, <1>10 DEF h

LEMMA RefusesFits ==
  ASSUME UpstreamIInv, NEW l \in Lookups, NEW hint \in Hints \cup {NoHint}, NEW jitter \in Jitters,
         Refuses(l, hint, jitter)
  PROVE  UpstreamIInv'
<1>1. PausesFit /\ ask[l].host \in Hosts /\ PauseMoves(ask[l].host)
  BY RefusesMoves DEF UpstreamIInv
<1>2. now' \in Nat /\ ask' = [ask EXCEPT ![l] = NoAsk]
  BY <1>1 DEF Refuses, PausesFit
<1> QED
  BY <1>1, <1>2, IdleFits, ReportStep, MoveKeeps

LEMMA AnswersUpstreamFits ==
  ASSUME UpstreamIInv, NEW l \in Lookups, NEW spent \in Hints \cup {NoHint},
         Accepts(l, spent) \/ Declines(l, spent)
  PROVE  UpstreamIInv'
<1>1. PausesFit /\ ask[l].host \in Hosts /\ PauseMoves(ask[l].host) /\ now' = now /\ now \in Nat
  BY AnswersMoves DEF UpstreamIInv, PausesFit, PauseMoves
<1>2. CASE Declines(l, spent)
  BY <1>1, <1>2, IdleFits, ReportStep, MoveKeeps DEF Declines
<1>3. CASE Accepts(l, spent)
  <2> DEFINE a == [ask[l] EXCEPT !.pc = "body"]
  <2>1. SentFits(ask[l], now, pause, began) /\ ask[l].pc = "sent"
    BY <1>3 DEF UpstreamIInv, Accepts
  <2>2. a \in AskRecord /\ a.pc = "body" /\ a.sent = ask[l].sent
    BY <2>1 DEF SentFits, AskRecord
  <2>3. ask' = [ask EXCEPT ![l] = a]
    BY <1>3 DEF Accepts
  <2> HIDE DEF a
  <2>4. SentFits(a, now', pause', began')
    BY <1>1, <2>1, <2>2 DEF SentFits
  <2> QED
    BY <1>1, <2>3, <2>4, ReportStep, MoveKeeps
<1> QED
  BY <1>2, <1>3

LEMMA UpstreamTickFits ==
  ASSUME UpstreamIInv, UpstreamTick
  PROVE  UpstreamIInv'
<1>1. now \in Nat /\ now' = now + 1 /\ UNCHANGED <<pause, began, ask>>
  BY DEF UpstreamIInv, PausesFit, UpstreamTick
<1>2. PausesFit'
  BY <1>1 DEF UpstreamIInv, PausesFit
<1>3. ASSUME NEW l \in Lookups PROVE SentFits(ask[l], now', pause, began)
  <2>1. SentFits(ask[l], now, pause, began) /\ (ask[l].pc # "idle" => now < ask[l].sent + Timeout)
    BY DEF UpstreamIInv, UpstreamTick
  <2>2. ask[l].sent \in Nat
    BY <2>1 DEF SentFits, AskRecord
  <2> QED
    BY <1>1, <2>1, <2>2 DEF SentFits
<1> QED
  BY <1>1, <1>2, <1>3 DEF UpstreamIInv

----------------------------------------------------------------------------
(* Upstream's theorems.                                                    *)

LEMMA UpstreamInitOk == UpstreamInit => UpstreamIInv
<1> SUFFICES ASSUME UpstreamInit PROVE UpstreamIInv
  OBVIOUS
<1>1. now \in Nat /\ ask = [l \in Lookups |-> NoAsk]
  BY DEF UpstreamInit
<1>2. PausesFit
  BY DEF UpstreamInit, PausesFit, NotPaused, PauseRecord
<1> QED
  BY <1>1, <1>2, IdleFits DEF UpstreamIInv

LEMMA UpstreamStepOk == UpstreamIInv /\ [UpstreamNext]_upstreamVars => UpstreamIInv'
<1> SUFFICES ASSUME UpstreamIInv, [UpstreamNext]_upstreamVars PROVE UpstreamIInv'
  OBVIOUS
<1>1. CASE UNCHANGED upstreamVars
  BY <1>1 DEF upstreamVars, UpstreamIInv, PausesFit
<1>2. ASSUME NEW l \in Lookups,
             \/ \E host \in Hosts, more \in BOOLEAN : AsksHost(l, host, more)
             \/ Fails(l) \/ Parses(l) \/ GoesOn(l)
      PROVE  UpstreamIInv'
  BY <1>2, AsksHostFits, EndsFits, GoesOnFits
<1>3. ASSUME NEW l \in Lookups, NEW hint \in Hints \cup {NoHint}, NEW jitter \in Jitters,
             Refuses(l, hint, jitter)
      PROVE  UpstreamIInv'
  BY <1>3, RefusesFits
<1>4. ASSUME NEW l \in Lookups, NEW spent \in Hints \cup {NoHint},
             Accepts(l, spent) \/ Declines(l, spent)
      PROVE  UpstreamIInv'
  BY <1>4, AnswersUpstreamFits
<1>5. CASE UpstreamTick
  BY <1>5, UpstreamTickFits
<1> QED
  BY <1>1, <1>2, <1>3, <1>4, <1>5 DEF UpstreamNext

(* A request in flight left before the pause of its host began, or after   *)
(* it was over, and is in flight no longer than the client allows.         *)
THEOREM UpstreamInvariant == UpstreamSpec => []UpstreamIInv
BY UpstreamInitOk, UpstreamStepOk, PTL DEF UpstreamSpec

(* Only a report moves a pause, and only one that finds none adds a strike *)
(* to others.                                                              *)
LEMMA Movers ==
  ASSUME UpstreamIInv, [UpstreamNext]_upstreamVars, NEW h \in Hosts, pause'[h] # pause[h]
  PROVE  \E l \in Lookups :
           /\ Reports(l, h)
           /\ (pause[h].strikes > 0 /\ pause'[h].strikes > pause[h].strikes) => ~Paused(pause[h], now)
<1>1. pause' # pause
  OBVIOUS
<1>2. ASSUME NEW l \in Lookups, PauseMoves(ask[l].host), ask[l].host \in Hosts
      PROVE  ask[l].host = h
  BY <1>2 DEF PauseMoves, UpstreamIInv, PausesFit
<1>3. ASSUME NEW l \in Lookups, NEW hint \in Hints \cup {NoHint}, NEW jitter \in Jitters,
             Refuses(l, hint, jitter)
      PROVE  Reports(l, h) /\ (pause'[h].strikes > pause[h].strikes => ~Paused(pause[h], now))
  BY <1>2, <1>3, RefusesMoves
<1>4. ASSUME NEW l \in Lookups, NEW spent \in Hints \cup {NoHint},
             Accepts(l, spent) \/ Declines(l, spent)
      PROVE  Reports(l, h) /\ ~(pause[h].strikes > 0 /\ pause'[h].strikes > pause[h].strikes)
  <2>1. Reports(l, h) /\ pause'[h].strikes <= 1 /\ PauseMoves(h)
    BY <1>2, <1>4, AnswersMoves
  <2>2. pause[h].strikes \in Nat /\ pause'[h].strikes \in Nat
    BY <2>1 DEF UpstreamIInv, PausesFit, PauseMoves, PauseRecord
  <2> QED
    BY <2>1, <2>2
<1>5. \E l \in Lookups :
        \/ \E hint \in Hints \cup {NoHint}, jitter \in Jitters : Refuses(l, hint, jitter)
        \/ \E spent \in Hints \cup {NoHint} : Accepts(l, spent) \/ Declines(l, spent)
  BY <1>1 DEF UpstreamNext, upstreamVars, AsksHost, Fails, Parses, GoesOn, UpstreamTick
<1> QED
  BY <1>3, <1>4, <1>5

(* What StragglersAreOneEpisode says of one host.                          *)
PauseKept(h) ==
  (Paused(pause[h], now) /\ pause'[h] # pause[h])
    => \E l \in Lookups : Reports(l, h) /\ ask[l].sent <= began[h]
StrikesKept(h) ==
  (pause[h].strikes > 0 /\ pause'[h].strikes > pause[h].strikes)
    => \/ pause[h].until <= began[h] + Timeout
       \/ \E l \in Lookups : Reports(l, h) /\ ask[l].sent >= pause[h].until

(* A request that left before a pause may move it and costs no strike of   *)
(* its own; one that left since does neither.                              *)
THEOREM OneEpisode == UpstreamSpec => StragglersAreOneEpisode
<1>1. ASSUME UpstreamIInv, [UpstreamNext]_upstreamVars, NEW h \in Hosts
      PROVE  PauseKept(h) /\ StrikesKept(h)
  <2>1. /\ now \in Nat /\ pause[h].until \in Int /\ pause[h].strikes \in Nat /\ began[h] \in Nat
        /\ pause[h].strikes = 0 => pause[h].until = 0
    BY <1>1 DEF UpstreamIInv, PausesFit, PauseRecord
  <2>2. ASSUME NEW l \in Lookups, Reports(l, h)
        PROVE  /\ ask[l].sent \in Nat /\ ask[l].sent <= now /\ now <= ask[l].sent + Timeout
               /\ pause[h].strikes > 0 => (ask[l].sent <= began[h] \/ pause[h].until <= ask[l].sent)
    BY <1>1, <2>2 DEF UpstreamIInv, SentFits, AskRecord, Reports
  <2>3. ASSUME Paused(pause[h], now), pause'[h] # pause[h]
        PROVE  \E l \in Lookups : Reports(l, h) /\ ask[l].sent <= began[h]
    <3>1. PICK l \in Lookups : Reports(l, h)
      BY <1>1, <2>3, Movers
    <3>2. pause[h].until > now /\ pause[h].strikes > 0
      BY <2>1, <2>3 DEF Paused
    <3>3. ask[l].sent <= began[h]
      BY <2>1, <2>2, <3>1, <3>2
    <3> QED
      BY <3>1, <3>3
  <2>4. ASSUME pause[h].strikes > 0, pause'[h].strikes > pause[h].strikes,
               ~(pause[h].until <= began[h] + Timeout)
        PROVE  \E l \in Lookups : Reports(l, h) /\ ask[l].sent >= pause[h].until
    <3>1. pause'[h] # pause[h]
      BY <2>1, <2>4
    <3>2. PICK l \in Lookups : Reports(l, h) /\ ~Paused(pause[h], now)
      BY <1>1, <2>4, <3>1, Movers
    <3>3. pause[h].until <= now
      BY <2>1, <3>2 DEF Paused
    <3>4. ask[l].sent >= pause[h].until
      BY <2>1, <2>2, <2>4, <3>2, <3>3
    <3> QED
      BY <3>2, <3>4
  <2> QED
    BY <2>3, <2>4 DEF PauseKept, StrikesKept
<1>2. UpstreamIInv /\ [UpstreamNext]_upstreamVars =>
       \A h \in Hosts :
         /\ (Paused(pause[h], now) /\ pause'[h] # pause[h])
              => \E l \in Lookups : Reports(l, h) /\ ask[l].sent <= began[h]
         /\ (pause[h].strikes > 0 /\ pause'[h].strikes > pause[h].strikes)
              => \/ pause[h].until <= began[h] + Timeout
                 \/ \E l \in Lookups : Reports(l, h) /\ ask[l].sent >= pause[h].until
  BY <1>1 DEF PauseKept, StrikesKept
<1> QED
  BY <1>2, UpstreamInvariant, PTL DEF UpstreamSpec, StragglersAreOneEpisode
=============================================================================
