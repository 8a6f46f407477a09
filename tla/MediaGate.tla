------------------------------ MODULE MediaGate ------------------------------
(***************************************************************************)
(* The gate in front of direct media (media_gate.rs): a permit for each    *)
(* response, held for as long as its upstream body is open, and a task per *)
(* body that pumps frames through a channel of one, against an idle and an *)
(* absolute deadline.  Hyper polls the body, late or never, and drops it   *)
(* when the client goes.                                                   *)
(*                                                                         *)
(* Dropping the body aborts the task, so it never sees its channel closed  *)
(* (End::ConsumerGone) nor its start signal dropped.                       *)
(***************************************************************************)
EXTENDS Clock, FiniteSets

CONSTANTS
  Responses,  \* requests for direct media, each seen once
  Limit,      \* direct_media_concurrency
  Idle,       \* direct_media_idle
  Lifetime,   \* direct_media_lifetime
  MaxFrames   \* bound: frames of an upstream body

ASSUME GateAssumption ==
  /\ IsFiniteSet(Responses)
  /\ Limit \in Nat \ {0}
  /\ Idle \in Nat \ {0} /\ Lifetime \in Nat \ {0}
  /\ MaxFrames \in Nat
  /\ MaxNow \in Nat

VARIABLES
  phase,   \* each request: "none", "handling", "streaming", or "answered" without a body
  pump,    \* the task of each body: "waiting" for the first poll, "reading" the next
           \* frame, "holding" one, "aborted", "ended"
  end,     \* how it ended
  read,    \* frames read from upstream
  queue,   \* frames in the channel
  got,     \* frames Hyper has taken
  idleAt,  \* the deadlines
  lifeAt,
  body,    \* the body Hyper has: "fresh", "polled", "finished", "dropped"
  seen,    \* the end Hyper has been shown: "none", "eof", "error"
  counted  \* what /metrics has counted of each response

vars == <<now, phase, pump, end, read, queue, got, idleAt, lifeAt, body, seen, counted>>

----------------------------------------------------------------------------
Open == {"waiting", "reading", "holding", "aborted"}

(* Who has a permit: the handler, then the task.                           *)
LeasedToHandlers == {r \in Responses : phase[r] = "handling"}  \* faulty: headers give it back
Leased == {r \in Responses : phase[r] = "handling" \/ pump[r] \in Open}

(* What poll_frame reports of an ending once the channel is drained.       *)
OnlyErrorsShow(kind) == IF kind = "error" THEN "error" ELSE "eof"  \* faulty: a timeout just closes
Shown(kind) == IF kind \in {"error", "idle", "lifetime"} THEN "error" ELSE "eof"

CompletedCleanly(r) == pump[r] = "ended" /\ end[r] = "clean"  \* faulty: set on success only
Completed(r) == pump[r] = "ended"

Timed == {"reading"}  \* faulty: the clocks run while upstream is awaited
Clocked == {"waiting", "reading", "holding"}

----------------------------------------------------------------------------
Init ==
  /\ now = 0
  /\ phase = [r \in Responses |-> "none"]
  /\ pump = [r \in Responses |-> "none"]
  /\ end = [r \in Responses |-> "none"]
  /\ read = [r \in Responses |-> 0]
  /\ queue = [r \in Responses |-> 0]
  /\ got = [r \in Responses |-> 0]
  /\ idleAt = [r \in Responses |-> 0]
  /\ lifeAt = [r \in Responses |-> 0]
  /\ body = [r \in Responses |-> "none"]
  /\ seen = [r \in Responses |-> "none"]
  /\ counted = [r \in Responses |-> {}]

Tick ==
  /\ now < MaxNow
  /\ now' = now + 1
  /\ UNCHANGED <<phase, pump, end, read, queue, got, idleAt, lifeAt, body, seen, counted>>

----------------------------------------------------------------------------
(* The handlers (handle_media, handle_segment).                            *)
Enters(r) ==
  /\ phase[r] = "none"
  /\ Cardinality(Leased) < Limit
  /\ phase' = [phase EXCEPT ![r] = "handling"]
  /\ UNCHANGED <<now, pump, end, read, queue, got, idleAt, lifeAt, body, seen, counted>>

Overloaded(r) ==
  /\ phase[r] = "none"
  /\ Cardinality(Leased) >= Limit
  /\ phase' = [phase EXCEPT ![r] = "answered"]
  /\ UNCHANGED <<now, pump, end, read, queue, got, idleAt, lifeAt, body, seen, counted>>

(* An error or a redirect is answered, or the client goes first.           *)
NoBody(r) ==
  /\ phase[r] = "handling"
  /\ phase' = [phase EXCEPT ![r] = "answered"]
  /\ UNCHANGED <<now, pump, end, read, queue, got, idleAt, lifeAt, body, seen, counted>>

Guards(r) ==
  /\ phase[r] = "handling"
  /\ now + Lifetime <= MaxNow
  /\ phase' = [phase EXCEPT ![r] = "streaming"]
  /\ pump' = [pump EXCEPT ![r] = "waiting"]
  /\ body' = [body EXCEPT ![r] = "fresh"]
  /\ idleAt' = [idleAt EXCEPT ![r] = now + Idle]
  /\ lifeAt' = [lifeAt EXCEPT ![r] = now + Lifetime]
  /\ UNCHANGED <<now, end, read, queue, got, seen, counted>>

----------------------------------------------------------------------------
(* The task.  However it ends, upstream and permit go before the channel.  *)
Begins(r) ==
  /\ pump[r] = "waiting"
  /\ body[r] \notin {"fresh", "dropped"}
  /\ pump' = [pump EXCEPT ![r] = "reading"]
  /\ UNCHANGED <<now, phase, end, read, queue, got, idleAt, lifeAt, body, seen, counted>>

Reads(r) ==
  /\ pump[r] = "reading"
  /\ read[r] < MaxFrames
  /\ read' = [read EXCEPT ![r] = @ + 1]
  /\ pump' = [pump EXCEPT ![r] = "holding"]
  /\ UNCHANGED <<now, phase, end, queue, got, idleAt, lifeAt, body, seen, counted>>

Room(r) == queue[r] = 0

Sends(r) ==
  /\ pump[r] = "holding"
  /\ Room(r)
  /\ pump' = [pump EXCEPT ![r] = "reading"]
  /\ queue' = [queue EXCEPT ![r] = @ + 1]
  /\ idleAt' = [idleAt EXCEPT ![r] = now + Idle]
  /\ UNCHANGED <<now, phase, end, read, got, lifeAt, body, seen, counted>>

Ends(r, kind) ==
  /\ pump' = [pump EXCEPT ![r] = "ended"]
  /\ end' = [end EXCEPT ![r] = kind]
  /\ UNCHANGED <<now, phase, read, queue, got, idleAt, lifeAt, body, seen>>

UpstreamEnds(r) ==
  /\ pump[r] = "reading"
  /\ \E kind \in {"clean", "error"} : Ends(r, kind)
  /\ UNCHANGED counted

Lapses(r) ==
  /\ pump[r] \in Clocked
  /\ \/ now >= idleAt[r] /\ Ends(r, "idle") /\ counted' = [counted EXCEPT ![r] = @ \cup {"idle"}]
     \/ now >= lifeAt[r] /\ Ends(r, "lifetime") /\ counted' = [counted EXCEPT ![r] = @ \cup {"lifetime"}]

Aborted(r) ==
  /\ pump[r] = "aborted"
  /\ Ends(r, "aborted")
  /\ UNCHANGED counted

----------------------------------------------------------------------------
(* Hyper: the first poll starts the task, later ones take frames and, once *)
(* the channel is closed and empty, the end.                               *)
FirstPoll(r) ==
  /\ body[r] = "fresh"
  /\ body' = [body EXCEPT ![r] = "polled"]
  /\ UNCHANGED <<now, phase, pump, end, read, queue, got, idleAt, lifeAt, seen, counted>>

TakesFrame(r) ==
  /\ body[r] = "polled"
  /\ queue[r] > 0
  /\ queue' = [queue EXCEPT ![r] = @ - 1]
  /\ got' = [got EXCEPT ![r] = @ + 1]
  /\ UNCHANGED <<now, phase, pump, end, read, idleAt, lifeAt, body, seen, counted>>

SeesEnd(r) ==
  /\ body[r] = "polled"
  /\ queue[r] = 0 /\ pump[r] = "ended"
  /\ body' = [body EXCEPT ![r] = "finished"]
  /\ seen' = [seen EXCEPT ![r] = Shown(end[r])]
  /\ UNCHANGED <<now, phase, pump, end, read, queue, got, idleAt, lifeAt, counted>>

(* The client goes, or has all it was promised: the body is dropped.       *)
Drops(r) ==
  /\ body[r] \in {"fresh", "polled", "finished"}
  /\ counted' = [counted EXCEPT ![r] =
       IF body[r] # "finished" /\ ~Completed(r) THEN @ \cup {"cancelled"} ELSE @]
  /\ body' = [body EXCEPT ![r] = "dropped"]
  /\ queue' = [queue EXCEPT ![r] = 0]
  /\ pump' = [pump EXCEPT ![r] = IF @ = "ended" THEN @ ELSE "aborted"]
  /\ UNCHANGED <<now, phase, end, read, got, idleAt, lifeAt, seen>>

----------------------------------------------------------------------------
HandlerStep(r) == NoBody(r) \/ Guards(r)
PumpStep(r) == Begins(r) \/ Reads(r) \/ Sends(r) \/ UpstreamEnds(r) \/ Lapses(r) \/ Aborted(r)
HyperStep(r) == FirstPoll(r) \/ TakesFrame(r) \/ SeesEnd(r) \/ Drops(r)

Next ==
  \/ Tick
  \/ \E r \in Responses :
       Enters(r) \/ Overloaded(r) \/ HandlerStep(r) \/ PumpStep(r) \/ HyperStep(r)

Spec == Init /\ [][Next]_vars

(* Time passes, handlers end (their fetches have timeouts), and the task   *)
(* is woken by its deadlines and its abort.  Of upstream and of Hyper,     *)
(* nothing.                                                                *)
Fairness ==
  /\ WF_vars(Tick)
  /\ \A r \in Responses :
       /\ WF_vars(HandlerStep(r))
       /\ WF_vars(Lapses(r))
       /\ WF_vars(Aborted(r))

FairSpec == Spec /\ Fairness

----------------------------------------------------------------------------
(* Types; read-ahead is one frame queued and one held.                     *)
TypeOK ==
  /\ now \in Nat
  /\ phase \in [Responses -> {"none", "handling", "streaming", "answered"}]
  /\ pump \in [Responses -> Open \cup {"none", "ended"}]
  /\ end \in [Responses -> {"none", "clean", "error", "idle", "lifetime", "aborted"}]
  /\ read \in [Responses -> Nat] /\ got \in [Responses -> Nat]
  /\ queue \in [Responses -> {0, 1}]
  /\ idleAt \in [Responses -> Nat] /\ lifeAt \in [Responses -> Nat]
  /\ body \in [Responses -> {"none", "fresh", "polled", "finished", "dropped"}]
  /\ seen \in [Responses -> {"none", "eof", "error"}]
  /\ counted \in [Responses -> SUBSET {"idle", "lifetime", "cancelled"}]

(* Upstream bodies that are open, sockets and buffers with them, never     *)
(* outnumber the permits: not after the headers have gone, not while a     *)
(* dropped body waits for its task to stop.                                *)
BodiesBounded == Cardinality({r \in Responses : pump[r] \in Open}) <= Limit

(* A truncated body never looks complete: Hyper is shown a clean end only  *)
(* when upstream ended cleanly and every frame has been taken; and by the  *)
(* time it is shown any end, the upstream body is closed.                  *)
CleanEndIsWhole ==
  \A r \in Responses :
    /\ seen[r] = "eof" => end[r] = "clean" /\ got[r] = read[r]
    /\ seen[r] # "none" => pump[r] \notin Open

(* Each response is counted once at most: stopped by one deadline, or      *)
(* dropped by the client, and a timeout the client was shown or left       *)
(* unread is not a cancellation too.                                       *)
CountedOnce == \A r \in Responses : Cardinality(counted[r]) <= 1

(* Every permit comes back, though upstream stalls and Hyper never polls,  *)
(* never takes the next frame or never drops the body.                     *)
PermitsReturn == \A r \in Responses : r \in Leased ~> r \notin Leased
=============================================================================
