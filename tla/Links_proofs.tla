---------------------------- MODULE Links_proofs ----------------------------
(***************************************************************************)
(* Theorems about Links, for any number of installs, secrets, keys and     *)
(* epochs and any length of the grace window and of a capability's life.   *)
(***************************************************************************)
EXTENDS Links, TLAPS

(* A binding as a config has it; what is built without one has Unbound.    *)
Bound == [iid : Installs \cup {NoInstall}, ep : Epochs]
Bindings == Bound \cup {Unbound}

(* A link names whom it was built for, in a tag where there is one; without*)
(* a signed binding it names nobody.                                       *)
LinkShape(l) ==
  l.held =>
    /\ l.claim \in Bindings
    /\ l.party = l.claim
    /\ \/ l.claim = Unbound /\ l.tag = NoTag
       \/ l.claim = Unbound /\ \E s \in Secrets : l.tag = [secret |-> s, message |-> BareMessage]
       \/ \E s \in Secrets : l.tag = [secret |-> s, message |-> BoundMessage(l.claim)]

(* The binding inside a capability.                                        *)
Binding(c) == [iid |-> c.media.iid, ep |-> c.media.ep]

CapShape(c) ==
  c.held =>
    /\ c.media.form \in Forms
    /\ c.media.long \in BOOLEAN
    /\ c.media.expires \in Nat
    /\ Binding(c) \in Bindings
    /\ c.party = Binding(c)
    /\ c.tag = NoTag \/ \E s \in Secrets : c.tag = [secret |-> s, message |-> MediaMessage(c.media)]

(* Signing and sealing are never switched off again, so that what is left  *)
(* of an older secret or key is judged by the newer ones.                  *)
RingOk(e) ==
  /\ e.secret = 0 => e.prev = {}
  /\ e.key = 0 => e.keysPrev = {}

LinkFits(l, e) == l.held /\ l.claim # Unbound => e.secret # 0
CapFits(c, e) == c.held /\ c.grace => e.secret # 0 /\ c.media.expires < e.graceUntil + MediaTtl

ConfigShape(c) ==
  c.held => /\ c.key \in 0 .. MaxKey
            /\ c.iid \in Installs \cup {NoInstall}
            /\ c.ep \in Epochs

IInv ==
  /\ now \in 0 .. MaxNow
  /\ env \in Envs
  /\ RingOk(env)
  /\ ConfigShape(config)
  /\ LinkShape(link)
  /\ LinkFits(link, env)
  /\ CapShape(cap)
  /\ CapFits(cap, env)
  /\ answer \in [party : Bindings, grace : {"no", "link", "media"}]
  /\ RevocationReaches
  /\ GraceEnds

USE LinksAssumption

----------------------------------------------------------------------------
(* The checks, in the state they are made in.                              *)

LEMMA BindingsAreClaims == Bindings \subseteq Claims
BY DEF Bindings, Bound, Claims, Unbound, Epochs, NoEpoch

(* An install that is checked is wanted.                                   *)
LEMMA CheckedIsWanted ==
  ASSUME NEW claim, CheckInstall(claim)
  PROVE  Wanted(claim)
BY DEF CheckInstall, Wanted

(* A wanted binding passes the check, or is none.                          *)
LEMMA WantedIsChecked ==
  ASSUME NEW claim, Wanted(claim), claim # Unbound
  PROVE  CheckInstall(claim)
BY DEF CheckInstall, Wanted, Anyone

(* A link that gets in was built for somebody wanted, and by the grace     *)
(* window alone only before its end.                                       *)
LEMMA SignatureAdmits ==
  ASSUME IInv, link.held, SignatureOk(link)
  PROVE  Wanted(link.party) /\ (ByGrace(link) => InGrace)
<1>1. Wanted(link.claim)
  <2>1. CASE link.claim = Unbound
    BY <2>1 DEF Wanted, Anyone
  <2>2. CASE link.claim # Unbound
    <3>1. env.secret # 0
      BY <2>2 DEF IInv, LinkFits
    <3>2. link.tag # NoTag
      <4>1. PICK s \in Secrets : link.tag = [secret |-> s, message |-> BoundMessage(link.claim)]
        BY <2>2 DEF IInv, LinkShape
      <4>2. link.tag.secret # 0
        BY <4>1 DEF Secrets
      <4> QED
        BY <4>2 DEF NoTag
    <3> QED
      BY <2>2, <3>1, <3>2, CheckedIsWanted DEF SignatureOk, InstallAdmitted
  <2> QED
    BY <2>1, <2>2
<1>2. ByGrace(link) => InGrace
  BY DEF ByGrace, SignatureOk
<1> QED
  BY <1>1, <1>2 DEF IInv, LinkShape

(* A capability that opens was given to somebody wanted, and one from a    *)
(* link of the grace window has not outlived that by its own life.         *)
LEMMA MediaAdmits ==
  ASSUME IInv, cap.held, NEW filed, NEW signed, CheckedMedia(filed, cap, signed)
  PROVE  Wanted(cap.party) /\ (cap.grace => now < env.graceUntil + MediaTtl)
<1>1. Wanted(Binding(cap))
  <2>1. CASE cap.media.ep # NoEpoch
    BY <2>1, CheckedIsWanted DEF CheckedMedia, CheckedMediaNoClock, Binding
  <2>2. CASE cap.media.ep = NoEpoch
    BY <2>2 DEF CheckedMedia, CheckedMediaNoClock, Binding, Wanted, Anyone, Unbound
  <2> QED
    BY <2>1, <2>2
<1>2. ASSUME cap.grace PROVE now < env.graceUntil + MediaTtl
  <2>1. cap.media.expires < env.graceUntil + MediaTtl /\ cap.media.expires > now
    BY <1>2 DEF IInv, CapFits, CheckedMedia
  <2>2. cap.media.expires \in Nat /\ now \in Nat /\ env.graceUntil \in Nat
    BY DEF IInv, CapShape, Envs
  <2> QED
    BY <2>1, <2>2
<1> QED
  BY <1>1, <1>2 DEF IInv, CapShape

(* A config that is taken is a wanted install's.                           *)
LEMMA ConfigAdmits ==
  ASSUME IInv, config.held, DecodeChecked(config)
  PROVE  Wanted([iid |-> config.iid, ep |-> config.ep])
BY CheckedIsWanted DEF DecodeChecked

----------------------------------------------------------------------------
(* What is built.                                                          *)

LEMMA LinkedOk ==
  ASSUME IInv, NEW claim \in Bindings
  PROVE  LinkShape(Linked(claim)) /\ LinkFits(Linked(claim), env)
<1>1. env.secret \in 0 .. MaxSecret
  BY DEF IInv, Envs
<1>2. CASE env.secret = 0
  BY <1>2 DEF Linked, LinkShape, LinkFits, Bindings, Anyone
<1>3. CASE env.secret # 0
  BY <1>1, <1>3 DEF Linked, LinkShape, LinkFits, Tag, Secrets
<1> QED
  BY <1>2, <1>3

LEMMA SealedOk ==
  ASSUME IInv, NEW form \in Forms, NEW long \in BOOLEAN, NEW claim \in Bindings, NEW grace,
         grace => env.secret # 0 /\ InGrace
  PROVE  /\ CapShape(Sealed(form, long, claim, claim, grace))
         /\ CapFits(Sealed(form, long, claim, claim, grace), env)
<1> DEFINE c == Sealed(form, long, claim, claim, grace)
           media == [form |-> form, long |-> long, iid |-> claim.iid, ep |-> claim.ep,
                     expires |-> now + MediaTtl]
<1>1. /\ c.media = media /\ c.party = claim /\ c.grace = grace
      /\ c.tag = Tag(env.secret, MediaMessage(media))
  BY DEF Sealed
<1>2. now \in Nat /\ env.secret \in 0 .. MaxSecret /\ env.graceUntil \in Nat
  BY DEF IInv, Envs
<1>3. claim = [iid |-> claim.iid, ep |-> claim.ep]
  BY DEF Bindings, Bound, Unbound
<1>4. c.tag = NoTag \/ \E s \in Secrets : c.tag = [secret |-> s, message |-> MediaMessage(c.media)]
  BY <1>1, <1>2 DEF Tag, Secrets
<1>5. CapShape(c)
  BY <1>1, <1>2, <1>3, <1>4 DEF CapShape, Binding
<1>6. CapFits(c, env)
  BY <1>1, <1>2 DEF CapFits, InGrace
<1> QED
  BY <1>5, <1>6

----------------------------------------------------------------------------
(* The initial states.                                                     *)
LEMMA InitOk == Init => IInv
<1> SUFFICES ASSUME Init PROVE IInv
  OBVIOUS
<1>1. PICK secret \in {0, 1}, key \in 0 .. 1, grace \in {0, GraceSpan} :
        /\ key <= MaxKey
        /\ env = [secret |-> secret, prev |-> {},
                  graceUntil |-> IF secret = 0 THEN 0 ELSE grace,
                  key |-> key, keysPrev |-> {},
                  revoked |-> {}, epoch |-> 0, requireId |-> FALSE]
        /\ link \in {NoLink} \cup
                    {[held |-> TRUE, claim |-> Unbound, party |-> Anyone, tag |-> tag] :
                       tag \in {NoTag, Tag(secret, BareMessage)}}
  BY DEF Init
<1>2. env \in Envs /\ RingOk(env)
  BY <1>1 DEF Envs, Epochs, RingOk
<1>3. LinkShape(link) /\ LinkFits(link, env)
  <2>1. CASE link = NoLink
    BY <2>1 DEF LinkShape, LinkFits, NoLink
  <2>2. ASSUME NEW tag \in {NoTag, Tag(secret, BareMessage)},
               link = [held |-> TRUE, claim |-> Unbound, party |-> Anyone, tag |-> tag]
        PROVE  LinkShape(link) /\ LinkFits(link, env)
    <3>1. link.claim = Unbound /\ link.party = Unbound /\ link.tag = tag
      BY <2>2 DEF Anyone
    <3>2. tag = NoTag \/ \E s \in Secrets : tag = [secret |-> s, message |-> BareMessage]
      BY DEF Tag, Secrets, LinksAssumption
    <3>3. Unbound \in Bindings
      BY DEF Bindings
    <3> QED
      BY <3>1, <3>2, <3>3 DEF LinkShape, LinkFits
  <2> QED
    BY <1>1, <2>1, <2>2
<1>4. ConfigShape(config) /\ CapShape(cap) /\ CapFits(cap, env)
  BY DEF Init, ConfigShape, CapShape, CapFits, NoConfig, NoCap
<1>5. answer \in [party : Bindings, grace : {"no", "link", "media"}]
  BY DEF Init, NoAnswer, Bindings, Anyone
<1>6. RevocationReaches /\ GraceEnds
  BY DEF Init, NoAnswer, RevocationReaches, Wanted, GraceEnds
<1> QED
  BY <1>2, <1>3, <1>4, <1>5, <1>6 DEF IInv, Init

(* An answer that is not given breaks nothing.                             *)
LEMMA Unanswered ==
  ASSUME answer' = NoAnswer
  PROVE  /\ answer' \in [party : Bindings, grace : {"no", "link", "media"}]
         /\ RevocationReaches' /\ GraceEnds'
BY DEF NoAnswer, Bindings, Anyone, RevocationReaches, Wanted, GraceEnds

(* Another environment, of the same or a newer secret: everything carried  *)
(* fits it.                                                                *)
LEMMA RedeployOk ==
  ASSUME IInv, NEW e \in Envs, Redeploys(e), RingOk(e),
         env.secret # 0 => e.secret # 0 /\ e.graceUntil = env.graceUntil
  PROVE  IInv'
<1>1. env' = e /\ answer' = NoAnswer /\ UNCHANGED <<now, config, link, cap>>
  BY DEF Redeploys
<1>2. LinkFits(link, e) /\ CapFits(cap, e)
  BY DEF IInv, LinkFits, CapFits
<1>3. /\ LinkFits(link', env') /\ CapFits(cap', env')
      /\ LinkShape(link') /\ CapShape(cap') /\ ConfigShape(config')
      /\ env' \in Envs /\ RingOk(env') /\ now' \in 0 .. MaxNow
  BY <1>1, <1>2 DEF IInv
<1> QED
  BY <1>1, <1>3, Unanswered DEF IInv

(* A request leaves the environment; what it writes is well made, and it   *)
(* answers for somebody wanted or not at all.                              *)
LEMMA RequestOk ==
  ASSUME IInv, UNCHANGED <<now, env, config>>,
         NEW ok \in BOOLEAN, NEW party \in Bindings, NEW grace \in {"no", "link", "media"},
         Told(ok, party, grace),
         ok => Wanted(party),
         ok /\ grace = "link" => InGrace,
         ok /\ grace = "media" => now < env.graceUntil + MediaTtl,
         LinkShape(link'), LinkFits(link', env), CapShape(cap'), CapFits(cap', env)
  PROVE  IInv'
<1>1. /\ now' \in 0 .. MaxNow /\ env' \in Envs /\ RingOk(env') /\ ConfigShape(config')
      /\ LinkFits(link', env') /\ CapFits(cap', env')
  BY DEF IInv
<1>2. /\ answer' \in [party : Bindings, grace : {"no", "link", "media"}]
      /\ RevocationReaches' /\ GraceEnds'
  <2>1. CASE ~ok
    BY <2>1, Unanswered DEF Told
  <2>2. CASE ok
    <3>1. answer' = [party |-> party, grace |-> grace]
      BY <2>2 DEF Told
    <3>2. RevocationReaches'
      BY <2>2, <3>1 DEF RevocationReaches, Wanted
    <3>3. GraceEnds'
      BY <2>2, <3>1 DEF GraceEnds, InGrace
    <3> QED
      BY <3>1, <3>2, <3>3
  <2> QED
    BY <2>1, <2>2
<1> QED
  BY <1>1, <1>2 DEF IInv

----------------------------------------------------------------------------
(* An environment with another secret or another key is an environment.    *)
LEMMA NewSecret ==
  ASSUME NEW e \in Envs, NEW secret \in 0 .. MaxSecret, NEW prev \in SUBSET Secrets,
         NEW until \in 0 .. MaxNow + GraceSpan
  PROVE  [e EXCEPT !.secret = secret, !.prev = prev, !.graceUntil = until] \in Envs
BY DEF Envs

LEMMA NewKey ==
  ASSUME NEW e \in Envs, NEW key \in 0 .. MaxKey, NEW prev \in SUBSET (1 .. MaxKey)
  PROVE  [e EXCEPT !.key = key, !.keysPrev = prev] \in Envs
BY DEF Envs

(* The operator's steps.                                                   *)
LEMMA OperatorOk ==
  ASSUME IInv,
         \/ RotatesSecret \/ RetiresSecrets \/ RotatesKey \/ RetiresKeys
         \/ RaisesEpoch \/ (\E i \in Installs : Revokes(i)) \/ RequiresIds
  PROVE  IInv'
<1>0. env \in Envs /\ RingOk(env) /\ now \in 0 .. MaxNow
  BY DEF IInv
<1>1. CASE RotatesSecret
  <2> DEFINE e == [env EXCEPT !.secret = @ + 1,
                              !.prev = @ \cup ({env.secret} \ {0}),
                              !.graceUntil = IF env.secret = 0 THEN now + GraceSpan ELSE @]
  <2>1. Redeploys(e) /\ env.secret < MaxSecret
    BY <1>1 DEF RotatesSecret
  <2>2. /\ e.secret = env.secret + 1 /\ e.secret \in Secrets
        /\ e.prev \in SUBSET Secrets
        /\ e.graceUntil \in 0 .. MaxNow + GraceSpan
        /\ env.secret # 0 => e.graceUntil = env.graceUntil
        /\ e.key = env.key /\ e.keysPrev = env.keysPrev
    BY <1>0, <2>1 DEF Envs, Secrets
  <2>3. e \in Envs
    <3>1. env.secret + 1 \in 0 .. MaxSecret
      BY <1>0, <2>1 DEF Envs
    <3>2. env.prev \cup ({env.secret} \ {0}) \in SUBSET Secrets
      BY <1>0 DEF Envs, Secrets
    <3>3. (IF env.secret = 0 THEN now + GraceSpan ELSE env.graceUntil) \in 0 .. MaxNow + GraceSpan
      BY <1>0 DEF Envs
    <3> QED
      BY <1>0, <3>1, <3>2, <3>3, NewSecret
  <2>4. RingOk(e) /\ (env.secret # 0 => e.secret # 0 /\ e.graceUntil = env.graceUntil)
    BY <1>0, <2>2 DEF RingOk, Secrets
  <2> HIDE DEF e
  <2> QED
    BY <2>1, <2>3, <2>4, RedeployOk
<1>2. CASE RetiresSecrets
  <2> DEFINE e == [env EXCEPT !.prev = {}]
  <2>1. Redeploys(e)
    BY <1>2 DEF RetiresSecrets
  <2>2. e \in Envs /\ RingOk(e) /\ (env.secret # 0 => e.secret # 0 /\ e.graceUntil = env.graceUntil)
    BY <1>0 DEF Envs, RingOk
  <2> HIDE DEF e
  <2> QED
    BY <2>1, <2>2, RedeployOk
<1>3. CASE RotatesKey
  <2> DEFINE e == [env EXCEPT !.key = @ + 1, !.keysPrev = @ \cup ({env.key} \ {0})]
  <2>1. Redeploys(e) /\ env.key < MaxKey
    BY <1>3 DEF RotatesKey
  <2>2. /\ e.key = env.key + 1 /\ e.key \in 1 .. MaxKey
        /\ e.keysPrev \in SUBSET (1 .. MaxKey)
        /\ e.secret = env.secret /\ e.prev = env.prev /\ e.graceUntil = env.graceUntil
    BY <1>0, <2>1 DEF Envs
  <2>3. e \in Envs
    <3>1. env.key + 1 \in 0 .. MaxKey
      BY <1>0, <2>1 DEF Envs
    <3>2. env.keysPrev \cup ({env.key} \ {0}) \in SUBSET (1 .. MaxKey)
      BY <1>0 DEF Envs
    <3> QED
      BY <1>0, <3>1, <3>2, NewKey
  <2>4. RingOk(e) /\ (env.secret # 0 => e.secret # 0 /\ e.graceUntil = env.graceUntil)
    BY <1>0, <2>2 DEF RingOk
  <2> HIDE DEF e
  <2> QED
    BY <2>1, <2>3, <2>4, RedeployOk
<1>4. CASE RetiresKeys
  <2> DEFINE e == [env EXCEPT !.keysPrev = {}]
  <2>1. Redeploys(e)
    BY <1>4 DEF RetiresKeys
  <2>2. e \in Envs /\ RingOk(e) /\ (env.secret # 0 => e.secret # 0 /\ e.graceUntil = env.graceUntil)
    BY <1>0 DEF Envs, RingOk
  <2> HIDE DEF e
  <2> QED
    BY <2>1, <2>2, RedeployOk
<1>5. CASE RaisesEpoch
  <2> DEFINE e == [env EXCEPT !.epoch = @ + 1]
  <2>1. Redeploys(e) /\ env.epoch < MaxEpoch
    BY <1>5 DEF RaisesEpoch
  <2>2. e \in Envs /\ RingOk(e) /\ (env.secret # 0 => e.secret # 0 /\ e.graceUntil = env.graceUntil)
    BY <1>0, <2>1 DEF Envs, RingOk, Epochs
  <2> HIDE DEF e
  <2> QED
    BY <2>1, <2>2, RedeployOk
<1>6. ASSUME NEW i \in Installs, Revokes(i) PROVE IInv'
  <2> DEFINE e == [env EXCEPT !.revoked = @ \cup {i}]
  <2>1. Redeploys(e)
    BY <1>6 DEF Revokes
  <2>2. e \in Envs /\ RingOk(e) /\ (env.secret # 0 => e.secret # 0 /\ e.graceUntil = env.graceUntil)
    BY <1>0 DEF Envs, RingOk
  <2> HIDE DEF e
  <2> QED
    BY <2>1, <2>2, RedeployOk
<1>7. CASE RequiresIds
  <2> DEFINE e == [env EXCEPT !.requireId = TRUE]
  <2>1. Redeploys(e)
    BY <1>7 DEF RequiresIds
  <2>2. e \in Envs /\ RingOk(e) /\ (env.secret # 0 => e.secret # 0 /\ e.graceUntil = env.graceUntil)
    BY <1>0 DEF Envs, RingOk
  <2> HIDE DEF e
  <2> QED
    BY <2>1, <2>2, RedeployOk
<1> QED
  BY <1>1, <1>2, <1>3, <1>4, <1>5, <1>6, <1>7

(* The requests that bring a config.                                       *)
LEMMA ConfigRequestOk ==
  ASSUME IInv, AsksMeta \/ \E form \in Forms, long \in BOOLEAN : AsksPrepare(form, long)
  PROVE  IInv'
<1> DEFINE claim == [iid |-> config.iid, ep |-> config.ep]
           ok == DecodeChecked(config)
<1>1. config.held
  BY DEF AsksMeta, AsksPrepare
<1>2. claim \in Bindings
  BY <1>1 DEF IInv, ConfigShape, Bindings, Bound
<1>3. ok \in BOOLEAN
  BY DEF DecodeChecked, CheckInstall
<1>4. ok => Wanted(claim)
  BY <1>1, ConfigAdmits
<1>5. /\ LinkShape(link) /\ LinkFits(link, env) /\ CapShape(cap) /\ CapFits(cap, env)
      /\ LinkShape(Linked(claim)) /\ LinkFits(Linked(claim), env)
  BY <1>2, LinkedOk DEF IInv
<1>6. Told(ok, claim, "no") /\ UNCHANGED <<now, env, config>>
  BY DEF AsksMeta, AsksPrepare
<1>7. link' = IF ok THEN Linked(claim) ELSE link
  BY DEF AsksMeta, AsksPrepare
<1>8. CapShape(cap') /\ CapFits(cap', env)
  <2>1. CASE AsksMeta
    BY <2>1, <1>5 DEF AsksMeta
  <2>2. ASSUME NEW form \in Forms, NEW long \in BOOLEAN, AsksPrepare(form, long)
        PROVE  CapShape(cap') /\ CapFits(cap', env)
    <3>1. cap' = IF ok THEN Sealed(form, long, claim, claim, FALSE) ELSE cap
      BY <2>2 DEF AsksPrepare
    <3>2. /\ CapShape(Sealed(form, long, claim, claim, FALSE))
          /\ CapFits(Sealed(form, long, claim, claim, FALSE), env)
      BY <1>2, SealedOk
    <3> QED
      BY <1>5, <3>1, <3>2
  <2> QED
    BY <2>1, <2>2
<1>9. LinkShape(link') /\ LinkFits(link', env)
  BY <1>5, <1>7
<1> HIDE DEF claim, ok
<1> QED
  BY <1>2, <1>3, <1>4, <1>6, <1>8, <1>9, RequestOk

(* The requests that bring a link.                                         *)
LEMMA LinkRequestOk ==
  ASSUME IInv, Plays \/ \E form \in Forms, long \in BOOLEAN : AsksSources(form, long)
  PROVE  IInv'
<1> DEFINE ok == SignatureOk(link)
           how == IF ByGrace(link) THEN "link" ELSE "no"
<1>1. link.held /\ Told(ok, link.party, how) /\ UNCHANGED <<now, env, config, link>>
  BY DEF Plays, AsksSources
<1>2. link.party \in Bindings /\ link.claim = link.party
  BY <1>1 DEF IInv, LinkShape
<1>3. ok \in BOOLEAN
  BY DEF SignatureOk, InGrace
<1>4. ok => Wanted(link.party) /\ (ByGrace(link) => InGrace)
  BY <1>1, SignatureAdmits
<1>5. LinkShape(link') /\ LinkFits(link', env)
  BY <1>1 DEF IInv
<1>6. CapShape(cap) /\ CapFits(cap, env)
  BY DEF IInv
<1>7. CapShape(cap') /\ CapFits(cap', env)
  <2>1. CASE Plays
    BY <2>1, <1>6 DEF Plays
  <2>2. ASSUME NEW form \in Forms, NEW long \in BOOLEAN, AsksSources(form, long)
        PROVE  CapShape(cap') /\ CapFits(cap', env)
    <3> DEFINE new == Sealed(form, long, link.party, link.party, ByGrace(link))
    <3>1. cap' = IF ok THEN new ELSE cap
      BY <1>2, <2>2 DEF AsksSources
    <3>2. ASSUME ok PROVE CapShape(new) /\ CapFits(new, env)
      BY <1>2, <1>4, <3>2, SealedOk DEF ByGrace
    <3> HIDE DEF new
    <3> QED
      BY <1>6, <3>1, <3>2
  <2> QED
    BY <2>1, <2>2
<1>8. /\ how \in {"no", "link", "media"}
      /\ how # "media" /\ (how = "link" => ByGrace(link))
  OBVIOUS
<1> HIDE DEF ok, how
<1>9. ok => Wanted(link.party)
  BY <1>4
<1>10. ok /\ how = "link" => InGrace
  BY <1>4, <1>8
<1>11. ok /\ how = "media" => now < env.graceUntil + MediaTtl
  BY <1>8
<1> QED
  BY <1>1, <1>2, <1>3, <1>5, <1>7, <1>8, <1>9, <1>10, <1>11, RequestOk

(* The requests that bring a capability.                                   *)
LEMMA MediaRequestOk ==
  ASSUME IInv, OpensMedia \/ ValidatesMedia
  PROVE  IInv'
<1> DEFINE how == IF cap.grace THEN "media" ELSE "no"
<1>1. PICK ok \in BOOLEAN :
        /\ cap.held /\ Told(ok, cap.party, how) /\ UNCHANGED <<now, env, config, link, cap>>
        /\ ok => \E filed, signed : CheckedMedia(filed, cap, signed)
  <2>1. CASE OpensMedia
    <3>1. CheckedMedia(Segment(cap.media.form), cap, FALSE) \in BOOLEAN
      BY DEF CheckedMedia
    <3> QED
      BY <2>1, <3>1 DEF OpensMedia
  <2>2. CASE ValidatesMedia
    <3>1. CheckedMedia("s", cap, TRUE) \in BOOLEAN
      BY DEF CheckedMedia
    <3> QED
      BY <2>2, <3>1 DEF ValidatesMedia
  <2> QED
    BY <2>1, <2>2
<1>2. cap.party \in Bindings
  BY <1>1 DEF IInv, CapShape
<1>3. ok => Wanted(cap.party) /\ (cap.grace => now < env.graceUntil + MediaTtl)
  BY <1>1, MediaAdmits
<1>4. /\ LinkShape(link') /\ LinkFits(link', env)
      /\ CapShape(cap') /\ CapFits(cap', env)
  BY <1>1 DEF IInv
<1>5. /\ how \in {"no", "link", "media"}
      /\ how # "link" /\ (how = "media" => cap.grace)
  OBVIOUS
<1> HIDE DEF how
<1>6. ok => Wanted(cap.party)
  BY <1>3
<1>7. ok /\ how = "link" => InGrace
  BY <1>5
<1>8. ok /\ how = "media" => now < env.graceUntil + MediaTtl
  BY <1>3, <1>5
<1> QED
  BY <1>1, <1>2, <1>4, <1>5, <1>6, <1>7, <1>8, RequestOk

----------------------------------------------------------------------------
LEMMA StepOk == IInv /\ [Next]_vars => IInv'
<1> SUFFICES ASSUME IInv, [Next]_vars PROVE IInv'
  OBVIOUS
<1>1. CASE \/ RotatesSecret \/ RetiresSecrets \/ RotatesKey \/ RetiresKeys
           \/ RaisesEpoch \/ (\E i \in Installs : Revokes(i)) \/ RequiresIds
  BY <1>1, OperatorOk
<1>2. ASSUME NEW iid \in Installs \cup {NoInstall}, NEW key \in 0 .. MaxKey, NEW ep \in Epochs,
             Configures(iid, key, ep)
      PROVE  IInv'
  <2>1. /\ config' = [held |-> TRUE, key |-> key, iid |-> iid, ep |-> ep]
        /\ answer' = NoAnswer /\ UNCHANGED <<now, env, link, cap>>
    BY <1>2 DEF Configures
  <2>2. ConfigShape(config')
    BY <2>1 DEF ConfigShape
  <2>3. /\ now' \in 0 .. MaxNow /\ env' \in Envs /\ RingOk(env')
        /\ LinkShape(link') /\ LinkFits(link', env') /\ CapShape(cap') /\ CapFits(cap', env')
    BY <2>1 DEF IInv
  <2> QED
    BY <2>1, <2>2, <2>3, Unanswered DEF IInv
<1>3. CASE AsksMeta \/ \E form \in Forms, long \in BOOLEAN : AsksPrepare(form, long)
  BY <1>3, ConfigRequestOk
<1>4. CASE AsksMetaUnbound
  <2>1. /\ Told(TRUE, Anyone, "no") /\ link' = Linked(Unbound)
        /\ UNCHANGED <<now, env, config, cap>>
    BY <1>4 DEF AsksMetaUnbound
  <2>2. LinkShape(link') /\ LinkFits(link', env)
    BY <2>1, LinkedOk DEF Bindings
  <2>3. CapShape(cap') /\ CapFits(cap', env)
    BY <2>1 DEF IInv
  <2>4. Anyone \in Bindings /\ Wanted(Anyone)
    BY DEF Anyone, Bindings, Wanted
  <2> QED
    BY <2>1, <2>2, <2>3, <2>4, RequestOk
<1>5. CASE Plays \/ \E form \in Forms, long \in BOOLEAN : AsksSources(form, long)
  BY <1>5, LinkRequestOk
<1>6. CASE OpensMedia \/ ValidatesMedia
  BY <1>6, MediaRequestOk
<1>7. CASE Tick
  <2>1. now' = now + 1 /\ now < MaxNow /\ answer' = NoAnswer /\ UNCHANGED <<env, config, link, cap>>
    BY <1>7 DEF Tick
  <2>2. /\ now' \in 0 .. MaxNow /\ env' \in Envs /\ RingOk(env') /\ ConfigShape(config')
        /\ LinkShape(link') /\ LinkFits(link', env') /\ CapShape(cap') /\ CapFits(cap', env')
    BY <2>1 DEF IInv
  <2> QED
    BY <2>1, <2>2, Unanswered DEF IInv
<1>8. CASE UNCHANGED vars
  <2>1. UNCHANGED <<now, env, config, link, cap, answer>>
    BY <1>8 DEF vars
  <2>2. RevocationReaches' /\ GraceEnds'
    BY <2>1 DEF IInv, RevocationReaches, Wanted, GraceEnds
  <2> QED
    BY <2>1, <2>2 DEF IInv
<1> QED
  BY <1>1, <1>2, <1>3, <1>4, <1>5, <1>6, <1>7, <1>8 DEF Next

(* What is carried is well made and fits the environment, always.          *)
THEOREM Invariant == Spec => []IInv
BY InitOk, StepOk, PTL DEF Spec

(* Every variable keeps its type.                                          *)
THEOREM TypeCorrect == Spec => []TypeOK
<1>1. IInv => TypeOK
  BY BindingsAreClaims DEF IInv, TypeOK, ConfigShape, LinkShape, CapShape
<1> QED
  BY <1>1, Invariant, PTL

(* No request is answered for an install that the deployment no longer     *)
(* wants, by whatever chain of links and capabilities it comes, nor on the *)
(* grace window past its end.                                              *)
THEOREM NothingOutstaysIt == Spec => []NothingOutstays
<1>1. IInv => NothingOutstays
  BY DEF IInv, NothingOutstays
<1> QED
  BY <1>1, Invariant, PTL

(* Whatever was made under a secret or a key still listed, for an install  *)
(* still wanted, is honoured: links and install URLs without exception, a  *)
(* capability while it is younger than MEDIA_TTL and if the blob the server*)
(* minted is one that it takes back.                                       *)
THEOREM Rotation == Spec => []RotationHolds
<1>1. ASSUME IInv PROVE RotationHolds
  <2>1. ASSUME link.held, link.tag # NoTag, link.tag.secret \in {env.secret} \cup env.prev,
               link.tag.message.over = "v2", Wanted(link.party)
        PROVE  SignatureOk(link)
    <3>1. PICK s \in Secrets : \/ link.tag = [secret |-> s, message |-> BareMessage]
                               \/ link.tag = [secret |-> s, message |-> BoundMessage(link.claim)]
      BY <1>1, <2>1 DEF IInv, LinkShape
    <3>2. link.tag = [secret |-> s, message |-> BoundMessage(link.claim)]
      BY <2>1, <3>1 DEF BareMessage
    <3>3. VerifyAny(link.tag, BoundMessage(link.claim))
      BY <2>1, <3>2 DEF VerifyAny, Tag, Secrets
    <3>4. InstallAdmitted(link.claim)
      BY <1>1, <2>1, WantedIsChecked DEF InstallAdmitted, IInv, LinkShape
    <3> QED
      BY <2>1, <3>3, <3>4 DEF SignatureOk
  <2>2. ASSUME cap.held, cap.tag # NoTag, cap.tag.secret \in {env.secret} \cup env.prev,
               Wanted(cap.party), now < cap.media.expires, ~cap.media.long
        PROVE  CheckedMedia(Segment(cap.media.form), cap, TRUE)
    <3>1. PICK s \in Secrets : cap.tag = [secret |-> s, message |-> MediaMessage(cap.media)]
      BY <1>1, <2>2 DEF IInv, CapShape
    <3>2. VerifyAny(cap.tag, MediaMessage(cap.media))
      BY <2>2, <3>1 DEF VerifyAny, Tag, Secrets
    <3>3. env.secret # 0
      BY <1>1, <2>2, <3>1 DEF IInv, RingOk, Secrets
    <3>4. Wanted(Binding(cap)) /\ Binding(cap) \in Bindings
      BY <1>1, <2>2 DEF IInv, CapShape
    <3>5. CASE cap.media.ep = NoEpoch
      <4>1. Binding(cap) = Unbound
        BY <3>4, <3>5 DEF Bindings, Bound, Binding, Epochs, NoEpoch
      <4>2. cap.media.iid = NoInstall
        BY <4>1 DEF Binding, Unbound
      <4>3. now < cap.media.expires /\ now \in Nat /\ cap.media.expires \in Nat
        BY <1>1, <2>2 DEF IInv, CapShape
      <4> QED
        BY <2>2, <3>2, <3>3, <3>5, <4>2, <4>3 DEF CheckedMedia, CheckedMediaNoClock
    <3>6. CASE cap.media.ep # NoEpoch
      <4>1. Binding(cap) # Unbound
        BY <3>6 DEF Binding, Unbound
      <4>2. CheckInstall(Binding(cap))
        BY <3>4, <4>1, WantedIsChecked
      <4>3. now < cap.media.expires /\ now \in Nat /\ cap.media.expires \in Nat
        BY <1>1, <2>2 DEF IInv, CapShape
      <4> QED
        BY <2>2, <3>2, <3>3, <3>6, <4>2, <4>3 DEF CheckedMedia, CheckedMediaNoClock, Binding
    <3> QED
      BY <3>5, <3>6
  <2>3. ASSUME config.held, config.key # 0, config.key \in {env.key} \cup env.keysPrev,
               Wanted([iid |-> config.iid, ep |-> config.ep])
        PROVE  DecodeChecked(config)
    <3>1. [iid |-> config.iid, ep |-> config.ep] # Unbound
      BY <1>1, <2>3 DEF IInv, ConfigShape, Unbound, Epochs, NoEpoch
    <3>2. CheckInstall([iid |-> config.iid, ep |-> config.ep])
      BY <2>3, <3>1, WantedIsChecked
    <3>3. env.key # 0
      BY <1>1, <2>3 DEF IInv, RingOk
    <3> QED
      BY <2>3, <3>2, <3>3 DEF DecodeChecked
  <2> QED
    BY <2>1, <2>2, <2>3 DEF RotationHolds
<1> QED
  BY <1>1, Invariant, PTL
=============================================================================
