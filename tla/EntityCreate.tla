---------------------------- MODULE EntityCreate ----------------------------
(***************************************************************************)
(* Customers, suppliers and products created at the register: an outbox of *)
(* requests, one worker that sends the signed-in user's own requests one   *)
(* at a time, hand-over of a request to another user, correction of a      *)
(* refused one.  The server keeps an answer per request key; a request may *)
(* reach it late, after the till that sent it crashed.                     *)
(***************************************************************************)
EXTENDS Integers, Sequences, FiniteSets

CONSTANTS
  Clerks,       \* users of this register
  MaxRequests,  \* bound: requests ever made
  MaxMishaps    \* bound: crashes, lost answers, failed writes, changes around the till

ASSUME EntityAssumption == MaxRequests \in Nat /\ MaxMishaps \in Nat

VARIABLES
  outbox,      \* entity_create_outbox, in the order of creation
  made,        \* server: what it answered to each request key for good
  permits,     \* server: who may create
  onWire,      \* requests on their way to the server
  clerk,       \* the signed-in user
  permissions, \* the cached permissions and the user they were fetched for
  linked,      \* connectivity says online
  drain,       \* the worker
  interrupted, \* leases of an earlier process were not taken back yet
  retryTimer,  \* the worker's one timer
  mishaps

createVars == <<outbox, made, permits, onWire, clerk, permissions, linked, drain,
                interrupted, retryTimer, mishaps>>

Nobody  == "nobody"
RequestState == {"pending", "dispatching", "unknown", "blocked_permission",
                 "accepted", "refused", "superseded"}
Request == [creator : Clerks, entity : 1 .. MaxRequests, state : RequestState, sent : BOOLEAN,
            due : BOOLEAN, aged : BOOLEAN, refreshed : BOOLEAN, resubmitted : BOOLEAN]
Idle    == [at |-> "idle", owner |-> Nobody, row |-> 0, sent |-> {}, reply |-> "none",
            rerun |-> FALSE]

CreateTypeOK ==
  /\ outbox \in Seq(Request) /\ Len(outbox) <= MaxRequests
  /\ made \in [1 .. MaxRequests -> {"none", "created", "refused"}]
  /\ permits \in SUBSET Clerks /\ onWire \in SUBSET (1 .. MaxRequests)
  /\ clerk \in Clerks \cup {Nobody}
  /\ permissions \in [of : Clerks \cup {Nobody}, create : BOOLEAN]
  /\ drain \in [at : {"idle", "loop", "awaiting"}, owner : Clerks \cup {Nobody},
                row : 0 .. MaxRequests, sent : SUBSET (1 .. MaxRequests),
                reply : {"none", "accepted", "refused", "blocked_permission", "unknown", "401"},
                rerun : BOOLEAN]
  /\ linked \in BOOLEAN /\ interrupted \in BOOLEAN /\ retryTimer \in BOOLEAN
  /\ mishaps \in 0 .. MaxMishaps

CreateInit ==
  /\ outbox = <<>> /\ made = [k \in 1 .. MaxRequests |-> "none"]
  /\ permits = Clerks /\ onWire = {} /\ clerk = Nobody
  /\ permissions = [of |-> Nobody, create |-> FALSE] /\ linked = TRUE
  /\ drain = Idle /\ interrupted = TRUE /\ retryTimer = FALSE /\ mishaps = 0

Mishap == mishaps < MaxMishaps /\ mishaps' = mishaps + 1

-----------------------------------------------------------------------------
(* Mutant: a lease left behind is taken for a request that was not sent.   *)
Reclaimed_AsPending(r) == [r EXCEPT !.state = "pending", !.sent = FALSE, !.due = TRUE]

(* The request may have arrived: it is sent again, the same, at once.      *)
Reclaimed(r) == [r EXCEPT !.state = "unknown", !.due = TRUE]

(* Mutant: only what an earlier process left is taken back.                *)
Reclaim_InterruptedOnly(rows) ==
  [k \in DOMAIN rows |->
     IF rows[k].state = "dispatching" /\ interrupted THEN Reclaimed(rows[k]) ELSE rows[k]]

(* reclaimInterrupted, once in a process, and reclaimExpired.              *)
Reclaim(rows) ==
  [k \in DOMAIN rows |->
     IF rows[k].state = "dispatching" /\ (interrupted \/ rows[k].aged)
       THEN Reclaimed(rows[k]) ELSE rows[k]]

(* A drain for the user signed in as it starts.                            *)
Begin(rows) ==
  IF clerk = Nobody THEN outbox' = rows /\ drain' = Idle /\ UNCHANGED interrupted
  ELSE /\ outbox' = Reclaim(rows) /\ interrupted' = FALSE
       /\ drain' = [Idle EXCEPT !.at = "loop", !.owner = clerk]

(* requestRun: one drain at a time, and one more after it.                 *)
Kick(rows) ==
  IF drain.at = "idle" THEN Begin(rows)
  ELSE outbox' = rows /\ drain' = [drain EXCEPT !.rerun = TRUE] /\ UNCHANGED interrupted

Finished(rows) ==
  IF drain.rerun THEN Begin(rows)
  ELSE outbox' = rows /\ drain' = Idle /\ UNCHANGED interrupted

(* rearm: the one timer, for the earliest retry of the drain's owner.      *)
Rearm(rows) ==
  retryTimer' = \E k \in DOMAIN rows :
    rows[k].creator = drain.owner /\ rows[k].state = "unknown" /\ ~rows[k].due

-----------------------------------------------------------------------------
(* The clerk.                                                              *)
MayCreate == clerk # Nobody /\ permissions = [of |-> clerk, create |-> TRUE]

Pending(entity) ==
  [creator |-> clerk, entity |-> entity, state |-> "pending", sent |-> FALSE, due |-> TRUE,
   aged |-> FALSE, refreshed |-> FALSE, resubmitted |-> FALSE]

Spare == Len(outbox) < MaxRequests

CreateRecord ==
  /\ MayCreate /\ Spare
  /\ Kick(Append(outbox, Pending(Len(outbox) + 1)))
  /\ UNCHANGED <<made, permits, onWire, clerk, permissions, linked, retryTimer, mishaps>>

(* Only what provably never left this register.                            *)
Handable(k) ==
  outbox[k].state = "pending" /\ ~outbox[k].sent /\ outbox[k].creator # clerk

Reassign(k) ==
  /\ MayCreate /\ Spare /\ Handable(k)
  /\ Kick(Append([outbox EXCEPT ![k].state = "superseded"], Pending(outbox[k].entity)))
  /\ UNCHANGED <<made, permits, onWire, clerk, permissions, linked, retryTimer, mishaps>>

(* A refused request is corrected once, under a key of its own.            *)
Resubmit(k) ==
  /\ MayCreate /\ Spare /\ outbox[k].state = "refused" /\ ~outbox[k].resubmitted
  /\ Kick(Append([outbox EXCEPT ![k].resubmitted = TRUE], Pending(outbox[k].entity)))
  /\ UNCHANGED <<made, permits, onWire, clerk, permissions, linked, retryTimer, mishaps>>

SignsIn(u) ==
  /\ clerk = Nobody /\ clerk' = u
  /\ UNCHANGED <<outbox, made, permits, onWire, permissions, linked, drain, interrupted,
                 retryTimer, mishaps>>

SignsOut ==
  /\ clerk # Nobody /\ Mishap /\ clerk' = Nobody
  /\ UNCHANGED <<outbox, made, permits, onWire, permissions, linked, drain, interrupted,
                 retryTimer>>

(* A bootstrap brings the permissions of today; what the server refused    *)
(* before it may be tried again.                                           *)
Bootstraps ==
  /\ clerk # Nobody /\ linked
  /\ permissions' = [of |-> clerk, create |-> clerk \in permits]
  /\ Kick([k \in DOMAIN outbox |-> [outbox[k] EXCEPT
             !.refreshed = @ \/ outbox[k].state = "blocked_permission"]])
  /\ UNCHANGED <<made, permits, onWire, clerk, linked, retryTimer, mishaps>>

LinkChanges ==
  /\ linked' = ~linked
  /\ IF linked THEN Mishap /\ UNCHANGED <<outbox, drain, interrupted>>
     ELSE Kick(outbox) /\ UNCHANGED mishaps
  /\ UNCHANGED <<made, permits, onWire, clerk, permissions, retryTimer>>

-----------------------------------------------------------------------------
(* The worker.                                                             *)

(* claimNext: the owner's own, due or, blocked, refused before the last    *)
(* bootstrap and allowed by it.                                            *)
Sendable(k) ==
  /\ outbox[k].creator = drain.owner
  /\ \/ outbox[k].state \in {"pending", "unknown"} /\ outbox[k].due
     \/ /\ outbox[k].state = "blocked_permission" /\ outbox[k].refreshed
        /\ permissions = [of |-> clerk, create |-> TRUE]

ClaimsNext(k) ==
  /\ drain.at = "loop" /\ linked /\ clerk = drain.owner
  /\ Sendable(k) /\ \A j \in DOMAIN outbox : Sendable(j) => k <= j

(* The evidence of the claim is committed before the request leaves.       *)
Dispatch(k) ==
  /\ ClaimsNext(k) /\ k \notin drain.sent
  /\ outbox' = [outbox EXCEPT ![k].state = "dispatching", ![k].sent = TRUE, ![k].aged = FALSE,
                              ![k].refreshed = FALSE]
  /\ onWire' = onWire \cup {k}
  /\ drain' = [drain EXCEPT !.at = "awaiting", !.row = k, !.sent = @ \cup {k}]
  /\ UNCHANGED <<made, permits, clerk, permissions, linked, interrupted, retryTimer, mishaps>>

(* Claimed a second time in one drain: handed back, to be retried later.   *)
HandBack(k) ==
  LET rows == [outbox EXCEPT ![k].state = "unknown", ![k].due = FALSE, ![k].sent = TRUE]
  IN  /\ ClaimsNext(k) /\ k \in drain.sent
      /\ Finished(rows) /\ Rearm(rows)
      /\ UNCHANGED <<made, permits, onWire, clerk, permissions, linked, mishaps>>

DrainEnds ==
  /\ drain.at = "loop"
  /\ ~linked \/ clerk # drain.owner \/ \A k \in DOMAIN outbox : ~Sendable(k)
  /\ Finished(outbox) /\ Rearm(outbox)
  /\ UNCHANGED <<made, permits, onWire, clerk, permissions, linked, mishaps>>

(* Mutant: what the wire said is stored where the state belongs.           *)
Outcome_AsSaid(reply) == reply

(* Mutant: an answer that did not come is taken for a refusal.             *)
Outcome_Assumed(reply) == IF reply = "401" THEN "unknown" ELSE IF reply = "unknown" THEN "refused" ELSE reply

(* dispatchQuickCreate: what is not a stored answer is not known.          *)
Outcome(reply) == IF reply \in {"unknown", "401"} THEN "unknown" ELSE reply

(* The outcome is settled under the lease that sent it; a 401 ends the drain. *)
Settle ==
  /\ drain.at = "awaiting" /\ drain.reply # "none"
  /\ LET rows == [outbox EXCEPT ![drain.row].state = Outcome(drain.reply),
                                ![drain.row].due = FALSE]
     IN  IF drain.reply = "401" THEN Finished(rows) /\ Rearm(rows)
         ELSE /\ outbox' = rows
              /\ drain' = [drain EXCEPT !.at = "loop", !.row = 0, !.reply = "none"]
              /\ UNCHANGED <<interrupted, retryTimer>>
  /\ UNCHANGED <<made, permits, onWire, clerk, permissions, linked, mishaps>>

(* The write fails: the drain is over, the lease stays and no timer is set. *)
SettleFails ==
  /\ drain.at = "awaiting" /\ drain.reply # "none" /\ Mishap
  /\ Finished(outbox)
  /\ UNCHANGED <<made, permits, onWire, clerk, permissions, linked, retryTimer>>

RetryTimerFires ==
  /\ retryTimer /\ retryTimer' = FALSE /\ Kick(outbox)
  /\ UNCHANGED <<made, permits, onWire, clerk, permissions, linked, mishaps>>

(* A retry falls due, or a lease expires.                                  *)
TimePassesFor(k) ==
  /\ \/ /\ outbox[k].state = "unknown" /\ ~outbox[k].due
        /\ outbox' = [outbox EXCEPT ![k].due = TRUE]
     \/ /\ outbox[k].state = "dispatching" /\ ~outbox[k].aged /\ drain.row # k
        /\ outbox' = [outbox EXCEPT ![k].aged = TRUE]
  /\ UNCHANGED <<made, permits, onWire, clerk, permissions, linked, drain, interrupted,
                 retryTimer, mishaps>>

(* The process ends and starts again; the session is restored or ended.    *)
RegisterCrashes ==
  /\ Mishap /\ drain' = Idle /\ interrupted' = TRUE /\ retryTimer' = FALSE
  /\ clerk' \in {clerk, Nobody}
  /\ UNCHANGED <<outbox, made, permits, onWire, permissions, linked>>

StartupKick ==
  /\ interrupted /\ clerk # Nobody /\ drain.at = "idle" /\ Kick(outbox)
  /\ UNCHANGED <<made, permits, onWire, clerk, permissions, linked, retryTimer, mishaps>>

-----------------------------------------------------------------------------
(* The server.                                                             *)
Tell(k, reply) ==
  drain' = IF drain.at = "awaiting" /\ drain.row = k THEN [drain EXCEPT !.reply = reply] ELSE drain

Taken(k) == \E j \in DOMAIN outbox : outbox[j].entity = outbox[k].entity /\ made[j] = "created"

ServerCreates(k) ==
  /\ k \in onWire /\ onWire' = onWire \ {k}
  /\ \/ made[k] = "created" /\ UNCHANGED made
     \/ /\ made[k] = "none" /\ ~Taken(k) /\ outbox[k].creator \in permits
        /\ made' = [made EXCEPT ![k] = "created"]
  /\ \/ Tell(k, "accepted") /\ UNCHANGED mishaps
     \/ Tell(k, "unknown") /\ Mishap
  /\ UNCHANGED <<outbox, permits, clerk, permissions, linked, interrupted, retryTimer>>

ServerDeclines(k) ==
  /\ k \in onWire /\ onWire' = onWire \ {k}
  /\ \/ made[k] = "refused" /\ Tell(k, "refused") /\ UNCHANGED made
     \/ /\ made[k] = "none" /\ outbox[k].creator \in permits /\ Tell(k, "refused")
        /\ made' = [made EXCEPT ![k] = "refused"]
     \/ /\ made[k] = "none" /\ outbox[k].creator \notin permits
        /\ Tell(k, "blocked_permission") /\ UNCHANGED made
  /\ UNCHANGED <<outbox, permits, clerk, permissions, linked, interrupted, retryTimer, mishaps>>

(* Lost on the way, answered by a 5xx, or by the end of the session.       *)
RequestLost(k) ==
  /\ k \in onWire /\ Mishap /\ onWire' = onWire \ {k}
  /\ \E reply \in {"unknown", "401"} : Tell(k, reply)
  /\ UNCHANGED <<outbox, made, permits, clerk, permissions, linked, interrupted, retryTimer>>

(* The till stops waiting; the request may still arrive.                   *)
DispatchTimesOut ==
  /\ drain.at = "awaiting" /\ drain.reply = "none" /\ Mishap /\ Tell(drain.row, "unknown")
  /\ UNCHANGED <<outbox, made, permits, onWire, clerk, permissions, linked, interrupted,
                 retryTimer>>

PermissionChanges(u) ==
  /\ Mishap /\ permits' = IF u \in permits THEN permits \ {u} ELSE permits \cup {u}
  /\ UNCHANGED <<outbox, made, onWire, clerk, permissions, linked, drain, interrupted, retryTimer>>

-----------------------------------------------------------------------------
DrainStep == Settle \/ DrainEnds \/ \E k \in DOMAIN outbox : Dispatch(k) \/ HandBack(k)
WireStep  == \E k \in DOMAIN outbox : ServerCreates(k) \/ ServerDeclines(k)
RetryDue  == \E k \in DOMAIN outbox : TimePassesFor(k)

CreateNext ==
  \/ CreateRecord \/ SignsOut \/ Bootstraps \/ LinkChanges
  \/ DrainStep \/ WireStep \/ RetryTimerFires \/ RetryDue
  \/ SettleFails \/ RegisterCrashes \/ StartupKick \/ DispatchTimesOut
  \/ \E u \in Clerks : SignsIn(u) \/ PermissionChanges(u)
  \/ \E k \in DOMAIN outbox : Reassign(k) \/ Resubmit(k) \/ RequestLost(k)

CreateSpec == CreateInit /\ [][CreateNext]_createVars

-----------------------------------------------------------------------------
(* A request handed over to another user never reached the server and      *)
(* never will, so that the record is not created under two keys.           *)
HandedOverUnsent ==
  \A k \in DOMAIN outbox : outbox[k].state = "superseded" => made[k] = "none" /\ k \notin onWire

(* What the till takes for settled is what the server holds: a refusal is   *)
(* final and no late copy of the request creates the record after it, an   *)
(* accepted record exists, and an entity is created by one request only.   *)
SettledAgrees ==
  /\ \A k \in DOMAIN outbox :
       /\ outbox[k].state = "accepted" => made[k] = "created"
       /\ outbox[k].state = "refused" => made[k] = "refused"
  /\ \A j, k \in DOMAIN outbox :
       outbox[j].entity = outbox[k].entity /\ {made[j], made[k]} = {"created"} => j = k

Unsettled(k) ==
  /\ k \in DOMAIN outbox /\ outbox[k].state \in {"pending", "dispatching", "unknown"}
  /\ clerk = outbox[k].creator /\ linked

(* A request of the user signed in is settled, or waits for a permission,   *)
(* unless the user leaves or the till goes offline.                        *)
CreateSettles == \A k \in 1 .. MaxRequests : Unsettled(k) ~> ~Unsettled(k)
=============================================================================
