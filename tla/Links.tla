------------------------------- MODULE Links --------------------------------
(***************************************************************************)
(* What den-reel hands out and takes back: the config segment a user       *)
(* installs (seal.rs, userconfig.rs), the play and sources links /meta     *)
(* builds for it (sign.rs, addon.rs) and the media capabilities /sources   *)
(* mints from those (sources.rs).  Nothing of it is stored on the server:  *)
(* a link is judged by what it carries and by the environment of the       *)
(* deployment that gets it, and an operator redeploys with rotated secrets,*)
(* rotated sealing keys, a raised epoch or a revoked install while clients *)
(* hold links of every age.                                                *)
(*                                                                         *)
(* A tag is what it covers and the secret it was made with; it verifies    *)
(* when both agree.  One video: no check tells two apart but the tag.      *)
(* "party" on a link is for the properties alone: the install it was built *)
(* for, or Anyone where nothing on the link says.                          *)
(***************************************************************************)
EXTENDS Clock, FiniteSets

CONSTANTS
  Installs,   \* install ids
  NoInstall,  \* "no install id"
  GraceSpan,  \* how far ahead PLAY_SIGNING_GRACE_UNTIL is set
  MediaTtl,   \* MEDIA_TTL_SECS
  MaxSecret,  \* bound: PLAY_SECRET values over the deployments
  MaxKey,     \* bound: CONFIG_KEY values
  MaxEpoch    \* bound: CONFIG_EPOCH

ASSUME LinksAssumption ==
  /\ IsFiniteSet(Installs)
  /\ NoInstall \notin Installs
  /\ GraceSpan \in Nat
  /\ MediaTtl \in Nat \ {0}
  /\ MaxSecret \in Nat \ {0}
  /\ MaxKey \in Nat
  /\ MaxEpoch \in Nat
  /\ MaxNow \in Nat

VARIABLES
  env,     \* the environment of the deployment that runs
  config,  \* the install URL a user holds
  link,    \* the play and sources link a client holds
  cap,     \* the media capability a page holds
  answer   \* whom the last request was answered for, if it was

vars == <<now, env, config, link, cap, answer>>

----------------------------------------------------------------------------
(* What is carried.  0 stands for "unset" among secrets and keys.          *)

Secrets == 1 .. MaxSecret
Epochs == 0 .. MaxEpoch
NoEpoch == -1

(* The i and e of a link, and the party it was built for.                  *)
Claims == [iid : Installs \cup {NoInstall}, ep : Epochs \cup {NoEpoch}]
Unbound == [iid |-> NoInstall, ep |-> NoEpoch]
Anyone == Unbound

(* A media URL is Safari's HLS master, whose segments stay on googlevideo, *)
(* or a form that this server carries: the two path segments it can be     *)
(* filed under.  An HLS one, native or carried, has the page's playable    *)
(* report in it word for word, and nothing bounds that: "long" says that it*)
(* makes the blob longer than MEDIA_BLOB_MAX.  The rest of a blob is short.*)
Forms == {"native", "carried"}
Segment(form) == IF form = "native" THEN "n" ELSE "s"

(* What a tag covers: sign::message, the bare id of the releases before    *)
(* install binding, or a media blob.                                       *)
BoundMessage(claim) == [over |-> "v2", claim |-> claim]
BareMessage == [over |-> "id"]
MediaMessage(media) == [over |-> "m", media |-> media]

NoTag == [secret |-> 0]
Tag(secret, message) ==
  IF secret = 0 THEN NoTag ELSE [secret |-> secret, message |-> message]

NoLink == [held |-> FALSE]
NoConfig == [held |-> FALSE]
NoCap == [held |-> FALSE]

(* A request that is answered: for which party, and whether nothing but the*)
(* grace window let its link in, or the link its capability came from.     *)
NoAnswer == [party |-> Anyone, grace |-> "no"]

----------------------------------------------------------------------------
(* The checks.                                                             *)

(* Revocation::check_install                                               *)
CheckInstall(claim) ==
  /\ claim.iid \notin env.revoked
  /\ claim.ep >= env.epoch
  /\ env.requireId => claim.iid # NoInstall

(* sign::verify and verify_any                                             *)
Verify(tag, message) == tag = Tag(env.secret, message)
VerifyAny(tag, message) ==
  \E secret \in {env.secret} \cup env.prev : tag = Tag(secret, message)

InGrace == now < env.graceUntil

(* install_admitted                                                        *)
InstallAdmitted(claim) == claim = Unbound \/ CheckInstall(claim)

(* signature_ok                                                            *)
SignatureOk(l) ==
  \/ env.secret = 0
  \/ l.tag = NoTag /\ InGrace
  \/ /\ l.tag # NoTag
     /\ \/ VerifyAny(l.tag, BoundMessage(l.claim)) /\ InstallAdmitted(l.claim)
        \/ l.claim = Unbound /\ InGrace /\ VerifyAny(l.tag, BareMessage)

(* checked_media, for a URL under the segment "filed".  The legacy route   *)
(* takes anything short enough while no secret is set; validation never    *)
(* does.                                                                   *)
CheckedMediaNoClock(filed, c, signed) ==  \* faulty: an expired URL opens
  /\ signed => env.secret # 0
  /\ ~c.media.long
  /\ env.secret # 0 => VerifyAny(c.tag, MediaMessage(c.media))
  /\ Segment(c.media.form) = filed
  /\ IF c.media.ep # NoEpoch
     THEN CheckInstall([iid |-> c.media.iid, ep |-> c.media.ep])
     ELSE c.media.iid = NoInstall
CheckedMedia(filed, c, signed) ==
  /\ CheckedMediaNoClock(filed, c, signed)
  /\ c.media.expires > now

(* decode_checked: a sealed segment opens with any key of the ring, a plain*)
(* one is taken only where there is no ring.                               *)
DecodeChecked(c) ==
  /\ IF c.key = 0 THEN env.key = 0 ELSE env.key # 0 /\ c.key \in {env.key} \cup env.keysPrev
  /\ CheckInstall([iid |-> c.iid, ep |-> c.ep])

----------------------------------------------------------------------------
(* A deployment of this release finds clients with links of the release    *)
(* before it: unsigned ones, or tags over the bare id.                     *)
Init ==
  /\ now = 0
  /\ \E secret \in {0, 1}, key \in 0 .. 1, grace \in {0, GraceSpan} :
       /\ key <= MaxKey
       /\ env = [secret |-> secret, prev |-> {},
                 graceUntil |-> IF secret = 0 THEN 0 ELSE grace,
                 key |-> key, keysPrev |-> {},
                 revoked |-> {}, epoch |-> 0, requireId |-> FALSE]
       /\ link \in {NoLink} \cup
                   {[held |-> TRUE, claim |-> Unbound, party |-> Anyone, tag |-> tag] :
                      tag \in {NoTag, Tag(secret, BareMessage)}}
  /\ config = NoConfig
  /\ cap = NoCap
  /\ answer = NoAnswer

----------------------------------------------------------------------------
(* The operator.  Each is a restart with another environment.              *)

Redeploys(to) ==
  /\ env' = to
  /\ answer' = NoAnswer
  /\ UNCHANGED <<now, config, link, cap>>

(* A new PLAY_SECRET, the one before it kept in PLAY_SECRETS_PREV; where   *)
(* there was none, signing goes on with a grace ahead.                     *)
RotatesSecret ==
  /\ env.secret < MaxSecret
  /\ Redeploys([env EXCEPT !.secret = @ + 1,
                           !.prev = @ \cup ({env.secret} \ {0}),
                           !.graceUntil = IF env.secret = 0 THEN now + GraceSpan ELSE @])

RetiresSecrets ==
  /\ env.prev # {}
  /\ Redeploys([env EXCEPT !.prev = {}])

RotatesKey ==
  /\ env.key < MaxKey
  /\ Redeploys([env EXCEPT !.key = @ + 1, !.keysPrev = @ \cup ({env.key} \ {0})])

RetiresKeys ==
  /\ env.keysPrev # {}
  /\ Redeploys([env EXCEPT !.keysPrev = {}])

RaisesEpoch ==
  /\ env.epoch < MaxEpoch
  /\ Redeploys([env EXCEPT !.epoch = @ + 1])

Revokes(i) ==
  /\ i \notin env.revoked
  /\ Redeploys([env EXCEPT !.revoked = @ \cup {i}])

RequiresIds ==
  /\ ~env.requireId
  /\ Redeploys([env EXCEPT !.requireId = TRUE])

----------------------------------------------------------------------------
(* The requests.                                                           *)

Told(ok, party, grace) ==
  answer' = IF ok THEN [party |-> party, grace |-> grace] ELSE NoAnswer

(* /configure builds an install URL from the answer of /config-key, which  *)
(* its cache may keep past a redeploy: an older key, an older epoch.  A URL*)
(* from before install ids has none.                                       *)
Configures(iid, key, ep) ==
  /\ key \in {env.key} \cup env.keysPrev
  /\ ep <= env.epoch
  /\ config' = [held |-> TRUE, key |-> key, iid |-> iid, ep |-> ep]
  /\ answer' = NoAnswer
  /\ UNCHANGED <<now, env, link, cap>>

(* build_meta: a link carries its binding only where it is signed.         *)
Linked(claim) ==
  IF env.secret = 0
  THEN [held |-> TRUE, claim |-> Unbound, party |-> Anyone, tag |-> NoTag]
  ELSE [held |-> TRUE, claim |-> claim, party |-> claim,
        tag |-> Tag(env.secret, BoundMessage(claim))]

(* /<config>/meta                                                          *)
AsksMeta ==
  /\ config.held
  /\ LET claim == [iid |-> config.iid, ep |-> config.ep]
     IN  /\ Told(DecodeChecked(config), claim, "no")
         /\ link' = IF DecodeChecked(config) THEN Linked(claim) ELSE link
  /\ UNCHANGED <<now, env, config, cap>>

(* /meta, with no config: links that name no install.                      *)
AsksMetaUnbound ==
  /\ Told(TRUE, Anyone, "no")
  /\ link' = Linked(Unbound)
  /\ UNCHANGED <<now, env, config, cap>>

(* sources::seal; "grace" on the capability is for the properties: nothing *)
(* but the grace window had let its link in.                               *)
SealedUnbound(form, long, claim, party, grace) ==  \* faulty: the binding stays behind
  LET media == [form |-> form, long |-> long, iid |-> NoInstall, ep |-> NoEpoch,
                expires |-> now + MediaTtl]
  IN  [held |-> TRUE, media |-> media, party |-> party, grace |-> grace,
       tag |-> Tag(env.secret, MediaMessage(media))]
Sealed(form, long, claim, party, grace) ==
  LET media == [form |-> form, long |-> long, iid |-> claim.iid, ep |-> claim.ep,
                expires |-> now + MediaTtl]
  IN  [held |-> TRUE, media |-> media, party |-> party, grace |-> grace,
       tag |-> Tag(env.secret, MediaMessage(media))]

(* Did a link get in by the grace window alone?                            *)
ByGrace(l) ==
  /\ env.secret # 0
  /\ ~VerifyAny(l.tag, BoundMessage(l.claim))

(* /sources, with the link of /meta and a report of any length.            *)
AsksSources(form, long) ==
  /\ link.held
  /\ Told(SignatureOk(link), link.party, IF ByGrace(link) THEN "link" ELSE "no")
  /\ cap' = IF SignatureOk(link) THEN Sealed(form, long, link.claim, link.party, ByGrace(link)) ELSE cap
  /\ UNCHANGED <<now, env, config, link>>

(* /<config>/prepare: discovery and the capabilities in one answer, bound  *)
(* to the config that asked.                                               *)
AsksPrepare(form, long) ==
  /\ config.held
  /\ LET claim == [iid |-> config.iid, ep |-> config.ep]
     IN  /\ Told(DecodeChecked(config), claim, "no")
         /\ cap' = IF DecodeChecked(config) THEN Sealed(form, long, claim, claim, FALSE) ELSE cap
         /\ link' = IF DecodeChecked(config) THEN Linked(claim) ELSE link
  /\ UNCHANGED <<now, env, config>>

(* /play, /direct, /hls, /progressive, and /crop as far as it measures.    *)
Plays ==
  /\ link.held
  /\ Told(SignatureOk(link), link.party, IF ByGrace(link) THEN "link" ELSE "no")
  /\ UNCHANGED <<now, env, config, link, cap>>

(* /m/<segment>/<blob>                                                     *)
OpensMedia ==
  /\ cap.held
  /\ Told(CheckedMedia(Segment(cap.media.form), cap, FALSE), cap.party, IF cap.grace THEN "media" ELSE "no")
  /\ UNCHANGED <<now, env, config, link, cap>>

(* /_internal/validate/m/s/<blob>                                          *)
ValidatesMedia ==
  /\ cap.held
  /\ Told(CheckedMedia("s", cap, TRUE), cap.party, IF cap.grace THEN "media" ELSE "no")
  /\ UNCHANGED <<now, env, config, link, cap>>

Tick ==
  /\ now < MaxNow
  /\ now' = now + 1
  /\ answer' = NoAnswer
  /\ UNCHANGED <<env, config, link, cap>>

Next ==
  \/ RotatesSecret
  \/ RetiresSecrets
  \/ RotatesKey
  \/ RetiresKeys
  \/ RaisesEpoch
  \/ \E i \in Installs : Revokes(i)
  \/ RequiresIds
  \/ \E iid \in Installs \cup {NoInstall}, key \in 0 .. MaxKey, ep \in Epochs : Configures(iid, key, ep)
  \/ AsksMeta
  \/ AsksMetaUnbound
  \/ \E form \in Forms, long \in BOOLEAN : AsksSources(form, long) \/ AsksPrepare(form, long)
  \/ Plays
  \/ OpensMedia
  \/ ValidatesMedia
  \/ Tick

Spec == Init /\ [][Next]_vars

----------------------------------------------------------------------------
(* The environments an operator can have deployed.                         *)
Envs == [secret : 0 .. MaxSecret, prev : SUBSET Secrets, graceUntil : 0 .. MaxNow + GraceSpan,
         key : 0 .. MaxKey, keysPrev : SUBSET (1 .. MaxKey),
         revoked : SUBSET Installs, epoch : Epochs, requireId : BOOLEAN]

TypeOK ==
  /\ now \in 0 .. MaxNow
  /\ env \in Envs
  /\ config.held => /\ config.key \in 0 .. MaxKey
                    /\ config.iid \in Installs \cup {NoInstall}
                    /\ config.ep \in Epochs
  /\ link.held => link.claim \in Claims /\ link.party \in Claims
  /\ cap.held => /\ cap.media.form \in Forms
                 /\ cap.media.long \in BOOLEAN
                 /\ cap.media.expires \in Nat
                 /\ cap.party \in Claims
  /\ answer \in [party : Claims, grace : {"no", "link", "media"}]

(* Is the install still wanted by the deployment that runs?                *)
Wanted(party) ==
  \/ party = Anyone
  \/ /\ party.iid \notin env.revoked
     /\ party.ep >= env.epoch
     /\ env.requireId => party.iid # NoInstall

(* A revocation reaches everything that was handed out before it: no       *)
(* request on a link or a capability whose chain began with a refused      *)
(* install, an install of an older epoch or one with no id is answered,    *)
(* however many deployments, rotations and mints lie between.              *)
RevocationReaches == Wanted(answer.party)

(* What only the grace window lets in ends with it: a link at its end, a   *)
(* capability that such a link was given at most MEDIA_TTL after it.       *)
GraceEnds ==
  /\ answer.grace = "link" => now < env.graceUntil
  /\ answer.grace = "media" => now < env.graceUntil + MediaTtl

(* No request is answered on what has been taken back or has run out.      *)
NothingOutstays == RevocationReaches /\ GraceEnds

(* Rotation costs nobody a link: what was made under a secret or a key that*)
(* the deployment still lists, for an install it still wants, is honoured, *)
(* a capability until it is MEDIA_TTL old; but for one whose blob a long   *)
(* report filled past MEDIA_BLOB_MAX, which is refused from the start.     *)
RotationHolds ==
  /\ (link.held /\ link.tag # NoTag /\ link.tag.secret \in {env.secret} \cup env.prev
        /\ link.tag.message.over = "v2" /\ Wanted(link.party))
       => SignatureOk(link)
  /\ (cap.held /\ cap.tag # NoTag /\ cap.tag.secret \in {env.secret} \cup env.prev
        /\ Wanted(cap.party) /\ now < cap.media.expires /\ ~cap.media.long)
       => CheckedMedia(Segment(cap.media.form), cap, TRUE)
  /\ (config.held /\ config.key # 0 /\ config.key \in {env.key} \cup env.keysPrev
        /\ Wanted([iid |-> config.iid, ep |-> config.ep]))
       => DecodeChecked(config)
=============================================================================
