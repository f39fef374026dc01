--------------------------- MODULE SessionAccess ---------------------------
(***************************************************************************)
(* The session of a till and what the signed-in user may do, told by two   *)
(* requests that run side by side: license validations, one at a time for  *)
(* an owner, and bootstraps, one at a time.  The server numbers its        *)
(* evaluations; the till admits an answer only for the owner that asked    *)
(* and only later ones, when the server says which is later.               *)
(***************************************************************************)
EXTENDS Integers

CONSTANTS
  MaxSignIns, \* bound: sign-ins
  MaxEvals,   \* bound: evaluations of access
  MaxChanges  \* bound: changes at the server, and failures

ASSUME AccessAssumption == MaxSignIns \in Nat /\ MaxEvals \in Nat /\ MaxChanges \in Nat

VARIABLES
  login,     \* the stored session: whether, with a token, and the epoch
  me,        \* an /auth/me is out
  office,    \* server: what it allows, the warehouse, evaluations, whether it numbers them
  held,      \* the till: the stored license, permissions and warehouse
  accepted,  \* license.access_sequence: the last accepted number and its epoch
  leg,       \* the license and the bootstrap request
  queued,    \* a license leg of a new owner waits for the old one's
  renewal,   \* the coordinator: denied, and the owner it last saw
  newest,    \* history: the last numbered evaluation this session accepted
  changes

accessVars == <<login, me, office, held, accepted, leg, queued, renewal, newest, changes>>

Legs   == {"license", "bootstrap"}
NoOne  == [epoch |-> 0, site |-> 0]
Owner  == [epoch : 0 .. 2 * MaxSignIns + 1, site : 0 .. 2]
AccessAnswer == [eval : 0 .. MaxEvals, numbered : BOOLEAN, sell : BOOLEAN, perms : BOOLEAN,
           site : 1 .. 2]
Leg    == [at : {"idle", "asked", "answered"}, owner : Owner, answer : AccessAnswer]
Blank  == [eval |-> 0, numbered |-> FALSE, sell |-> FALSE, perms |-> FALSE, site |-> 1]
NoLeg  == [at |-> "idle", owner |-> NoOne, answer |-> Blank]

AccessTypeOK ==
  /\ login \in [on : BOOLEAN, token : BOOLEAN, epoch : 0 .. 2 * MaxSignIns + 1] /\ me \in BOOLEAN
  /\ office \in [sell : BOOLEAN, perms : BOOLEAN, site : 1 .. 2, evals : 0 .. MaxEvals,
                 numbers : BOOLEAN]
  /\ held \in [known : BOOLEAN, sell : BOOLEAN, perms : BOOLEAN, site : 1 .. 2]
  /\ accepted \in [epoch : 0 .. 2 * MaxSignIns + 1, number : 0 .. MaxEvals]
  /\ leg \in [Legs -> Leg] /\ queued \in BOOLEAN
  /\ renewal \in [denied : BOOLEAN, key : Owner]
  /\ newest \in 0 .. MaxEvals /\ changes \in 0 .. MaxChanges

AccessInit ==
  /\ login = [on |-> FALSE, token |-> FALSE, epoch |-> 0] /\ me = FALSE
  /\ office = [sell |-> TRUE, perms |-> TRUE, site |-> 1, evals |-> 0, numbers |-> TRUE]
  /\ held = [known |-> FALSE, sell |-> FALSE, perms |-> FALSE, site |-> 1]
  /\ accepted = [epoch |-> 0, number |-> 0] /\ leg = [l \in Legs |-> NoLeg] /\ queued = FALSE
  /\ renewal = [denied |-> FALSE, key |-> NoOne] /\ newest = 0 /\ changes = 0

Change == changes < MaxChanges /\ changes' = changes + 1

(* captureRenewalOwner: the epoch and the assignment, or nobody.           *)
OwnerOf(s, site) == IF s.on THEN [epoch |-> s.epoch, site |-> site] ELSE NoOne
Current == OwnerOf(login, held.site)

-----------------------------------------------------------------------------
AskedBy(owner) == [NoLeg EXCEPT !.at = "asked", !.owner = owner]

(* licenseLeg: a caller of the owner in flight joins it, one of another    *)
(* owner waits for it to settle, and without an owner nothing is asked.    *)
LicenseLeg(owner) ==
  IF owner = NoOne \/ (leg["license"].at # "idle" /\ leg["license"].owner = owner)
    THEN UNCHANGED <<leg, queued>>
  ELSE IF leg["license"].at = "idle"
    THEN leg' = [leg EXCEPT !["license"] = AskedBy(owner)] /\ UNCHANGED queued
  ELSE queued' = TRUE /\ UNCHANGED leg

(* onSessionChanged: a changed owner is asked for at once and not denied.  *)
Notified(s) ==
  LET owner == OwnerOf(s, held.site)
  IN  /\ login' = s
      /\ IF owner = renewal.key THEN UNCHANGED <<renewal, leg, queued>>
         ELSE renewal' = [denied |-> FALSE, key |-> owner] /\ LicenseLeg(owner)

StartSession ==
  /\ login.epoch < 2 * MaxSignIns - 1
  /\ Notified([on |-> TRUE, token |-> TRUE, epoch |-> login.epoch + 1]) /\ newest' = 0
  /\ UNCHANGED <<me, office, held, accepted, changes>>

(* endSession: the token first, the session and the epoch with it.         *)
Over == [on |-> FALSE, token |-> FALSE, epoch |-> login.epoch + (IF login.on THEN 1 ELSE 0)]

EndSession ==
  /\ login.on /\ Notified(Over) /\ newest' = 0
  /\ UNCHANGED <<me, office, held, accepted, changes>>

(* The database fails after the token was deleted: observers are told.     *)
EndSessionFails ==
  /\ login.on /\ login.token /\ Change /\ Notified([login EXCEPT !.token = FALSE])
  /\ UNCHANGED <<me, office, held, accepted, newest>>

(* refreshSession: the answer of /auth/me is written whichever session is  *)
(* current by then, with no change of the epoch.                           *)
AskMe ==
  /\ login.on /\ login.token /\ ~me /\ me' = TRUE
  /\ UNCHANGED <<login, office, held, accepted, leg, queued, renewal, newest, changes>>

MeArrives ==
  /\ me /\ me' = FALSE /\ Notified([login EXCEPT !.on = TRUE])
  /\ UNCHANGED <<office, held, accepted, newest, changes>>

-----------------------------------------------------------------------------
(* The timer, reconnect, resume, checkout or an operator.                  *)
Renew ==
  /\ login.token /\ LicenseLeg(Current)
  /\ UNCHANGED <<login, me, office, held, accepted, renewal, newest, changes>>

(* refresh: every caller joins the bootstrap in flight.                    *)
AskBootstrap ==
  /\ login.on /\ login.token /\ leg["bootstrap"].at = "idle"
  /\ leg' = [leg EXCEPT !["bootstrap"] = AskedBy(Current)]
  /\ UNCHANGED <<login, me, office, held, accepted, queued, renewal, newest, changes>>

(* The server evaluates; its number tells the order of evaluations, unless  *)
(* an older backend answers, which gives none.                             *)
Evaluates(l) ==
  /\ leg[l].at = "asked" /\ office.evals < MaxEvals
  /\ office' = [office EXCEPT !.evals = @ + 1]
  /\ leg' = [leg EXCEPT ![l].at = "answered", ![l].answer =
       [eval |-> office.evals + 1, numbered |-> office.numbers, sell |-> office.sell,
        perms |-> office.perms, site |-> office.site]]
  /\ UNCHANGED <<login, me, held, accepted, queued, renewal, newest, changes>>

(* bootstrapRelaxes and its like for a license: more than is held now.     *)
Relaxes(l, answer) ==
  \/ ~held.known \/ (answer.sell /\ ~held.sell)
  \/ l = "bootstrap" /\ answer.perms /\ ~held.perms

(* Mutant: numbers are kept and not compared.                              *)
Admits_AnyNumber(l, answer) ==
  answer.numbered \/ ~(accepted.epoch = login.epoch /\ Relaxes(l, answer))

(* admitAccessAnswer: later than the last number of this session; without   *)
(* one, no more than is held once this session has seen a number.          *)
Admits(l, answer) ==
  LET ordered == accepted.epoch = login.epoch
  IN  IF answer.numbered THEN ordered => answer.eval > accepted.number
      ELSE ~(ordered /\ Relaxes(l, answer))

SameOwner(owner) == owner = Current

(* The one transaction that checks owner and order and writes the answer.  *)
Written(l, answer) ==
  /\ held' = IF l = "license" THEN [held EXCEPT !.known = TRUE, !.sell = answer.sell]
             ELSE [held EXCEPT !.perms = answer.perms, !.site = answer.site]
  /\ IF answer.numbered
       THEN /\ newest' = answer.eval
            /\ accepted' = IF login.on THEN [epoch |-> login.epoch, number |-> answer.eval]
                           ELSE accepted
       ELSE UNCHANGED <<newest, accepted>>

(* The wire is free: a license leg that waits for it asks for the owner    *)
(* that is current now.                                                    *)
Freed(l, owner) ==
  IF l = "license" /\ queued /\ owner # NoOne
    THEN leg' = [leg EXCEPT !["license"] = AskedBy(owner)] /\ queued' = FALSE
  ELSE /\ leg' = [leg EXCEPT ![l] = NoLeg]
       /\ queued' = IF l = "license" THEN FALSE ELSE queued

(* validate and persistGuarded, and what the coordinator makes of it.      *)
Arrives(l) ==
  /\ leg[l].at = "answered"
  /\ IF SameOwner(leg[l].owner) /\ Admits(l, leg[l].answer)
       THEN /\ Written(l, leg[l].answer)
            /\ renewal' = IF l = "license" THEN [renewal EXCEPT !.denied = ~leg[l].answer.sell]
                          ELSE renewal
            /\ Freed(l, OwnerOf(login, held'.site))
       ELSE UNCHANGED <<held, newest, accepted, renewal>> /\ Freed(l, Current)
  /\ UNCHANGED <<login, me, office, changes>>

(* No answer, or a failure of the server: the coordinator backs off.       *)
LegFails(l) ==
  /\ leg[l].at # "idle" /\ Change /\ Freed(l, Current)
  /\ UNCHANGED <<login, me, office, held, accepted, renewal, newest>>

(* Refused: proactive renewal is paused, whoever had asked.                *)
LegRefused(l) ==
  /\ leg[l].at # "idle" /\ Change /\ Freed(l, Current)
  /\ renewal' = IF l = "license" THEN [renewal EXCEPT !.denied = TRUE] ELSE renewal
  /\ UNCHANGED <<login, me, office, held, accepted, newest>>

(* A 401 that ends a session: the one that is current, before the leg      *)
(* settles.                                                                *)
LegEndsSession(l) ==
  /\ leg[l].at # "idle" /\ Change
  /\ login' = Over /\ newest' = 0 /\ Freed(l, NoOne)
  /\ renewal' = [denied |-> l = "license", key |-> NoOne]
  /\ UNCHANGED <<me, office, held, accepted>>

ServerChanges ==
  /\ Change
  /\ office' \in {[office EXCEPT !.sell = ~@], [office EXCEPT !.perms = ~@],
                  [office EXCEPT !.site = 3 - @], [office EXCEPT !.numbers = ~@]}
  /\ UNCHANGED <<login, me, held, accepted, leg, queued, renewal, newest>>

(* The process starts again: what is stored stays, the rest is gone.       *)
ProcessRestarts ==
  /\ Change /\ me' = FALSE /\ queued' = FALSE
  /\ leg' = [l \in Legs |-> IF l = "license" /\ Current # NoOne THEN AskedBy(Current) ELSE NoLeg]
  /\ renewal' = [denied |-> FALSE, key |-> Current]
  /\ UNCHANGED <<login, office, held, accepted, newest>>

AccessNext ==
  \/ StartSession \/ EndSession \/ EndSessionFails \/ AskMe \/ MeArrives
  \/ Renew \/ AskBootstrap \/ ServerChanges \/ ProcessRestarts
  \/ \E l \in Legs : Evaluates(l) \/ Arrives(l) \/ LegFails(l) \/ LegRefused(l) \/ LegEndsSession(l)

AccessSpec == AccessInit /\ [][AccessNext]_accessVars

-----------------------------------------------------------------------------
Wider(now, then) == (now.sell /\ ~then.sell) \/ (now.perms /\ ~then.perms)

(* Access never widens on an answer older than one this session accepted,   *)
(* however license validations and bootstraps overtake each other, and     *)
(* never on an answer to a session that has ended.                         *)
AccessOnlyForward ==
  [][\A l \in Legs :
       held' # held /\ leg[l].at = "answered" /\ leg'[l] # leg[l] =>
         /\ leg[l].owner = Current
         /\ Wider(held', held) /\ newest > 0 => leg[l].answer.eval > newest]_accessVars
=============================================================================
