-------------------------- MODULE AllocationLedger --------------------------
(***************************************************************************)
(* The stock this till may sell without asking: grants the backend issues, *)
(* a journal of what sales consumed of them, the coverage boundaries the    *)
(* backend publishes as it accepts that journal, and the recovery that      *)
(* hands an unspent grant back (seal, replay, acknowledge).  Evidence       *)
(* arrives in bootstrap snapshots, top-up answers and upload answers, in   *)
(* any order.  A sale is a function from grants to units; a boundary is    *)
(* its sequence alone: quantity and chain hash are functions of the        *)
(* journal prefix, which the backend has from this till.                   *)
(***************************************************************************)
EXTENDS Integers, Sequences, FiniteSets, FiniteSetsExt

CONSTANTS
  Grants,      \* allocation identities of one product
  Granted,     \* units of each grant
  MaxSales,    \* bound: sales
  MaxAnswers,  \* bound: answers on their way at a time
  MaxFaults    \* bound: lost requests, refusals, crashes

ASSUME LedgerAssumption ==
  /\ IsFiniteSet(Grants) /\ Grants # {} /\ Granted \in Nat \ {0}
  /\ MaxSales \in Nat /\ MaxAnswers \in Nat /\ MaxFaults \in Nat

VARIABLES
  issued, stage, issueRevision, \* backend: grants made, their lifecycle, its revision
  taken, gapped, declared,   \* backend: sales accepted, sales quarantined, final sequences
  sales,                     \* every committed sale, in order
  capability, stored,        \* the active snapshot's revision; the stored grants
  boundary, finished, denied,\* coverage boundaries, terminal markers, holds
  recovery, frozen,          \* recovery rows and their frozen final sequence
  recoverer,                 \* the one recovery request under way
  answers, ledgerFaults

backendVars == <<issued, stage, issueRevision, taken, gapped, declared>>
evidence    == <<capability, stored, boundary, finished, denied>>
recoveries  == <<recovery, frozen>>
ledgerVars  == <<backendVars, sales, evidence, recoveries, recoverer, answers, ledgerFaults>>

Sale     == [Grants -> 0 .. Granted]
Stage    == {"active", "revocation_pending", "seal_acknowledged", "released"}
Terminal == {"released"}
(* Sealing moves the lifecycle generation on; nothing later does.          *)
Generation(s) == IF s = "active" THEN 1 ELSE 2
Revisions == 0 .. 4 * Cardinality(Grants) + 1
Envelope == [status : Stage, sequence : 0 .. MaxSales]
Stored   == [observed : Revisions, status : Stage, sequence : 0 .. MaxSales,
             source : {"none", "bootstrap", "incremental"}]
Unknown  == [observed |-> 0, status |-> "active", sequence |-> 0, source |-> "none"]
Resting  == [at |-> "idle", grant |-> CHOOSE g \in Grants : TRUE, sale |-> 0, todo |-> {}]

LedgerTypeOK ==
  /\ issued \in SUBSET Grants /\ stage \in [Grants -> Stage] /\ issueRevision \in Revisions
  /\ taken \in SUBSET (1 .. MaxSales) /\ gapped \in SUBSET (1 .. MaxSales)
  /\ declared \in [Grants -> -1 .. MaxSales]
  /\ sales \in Seq(Sale) /\ Len(sales) <= MaxSales
  /\ capability \in Revisions /\ stored \in [Grants -> Stored]
  /\ boundary \in [Grants -> -1 .. MaxSales]
  /\ finished \in SUBSET Grants /\ denied \in SUBSET Grants
  /\ recovery \in [Grants -> {"none", "intent", "sealed", "acknowledged", "terminal", "conflict"}]
  /\ frozen \in [Grants -> 0 .. MaxSales]
  /\ recoverer \in [at : {"idle", "sealing", "sealed", "replaying", "uploading", "uploaded",
                          "acknowledging", "acknowledged"},
                    grant : Grants, sale : 0 .. MaxSales, todo : SUBSET (1 .. MaxSales)]
  /\ ledgerFaults \in 0 .. MaxFaults

LedgerInit ==
  /\ issued = {} /\ stage = [g \in Grants |-> "active"] /\ issueRevision = 1
  /\ taken = {} /\ gapped = {} /\ declared = [g \in Grants |-> -1] /\ sales = <<>>
  /\ capability = 0 /\ stored = [g \in Grants |-> Unknown]
  /\ boundary = [g \in Grants |-> -1] /\ finished = {} /\ denied = {}
  /\ recovery = [g \in Grants |-> "none"] /\ frozen = [g \in Grants |-> 0]
  /\ recoverer = Resting /\ answers = {} /\ ledgerFaults = 0

-----------------------------------------------------------------------------
(* The journal of a grant: its entries are the sales that took from it.    *)
Entries(g)    == {i \in DOMAIN sales : sales[i][g] > 0}
Place(g, i)   == Cardinality({j \in Entries(g) : j <= i})
Accepted(g)   == Cardinality(Entries(g) \cap taken)
(* What the sales of a set took from a grant, summed unit by unit.          *)
Units(g, set) == Cardinality({u \in set \X (1 .. Granted) : u[2] <= sales[u[1]][g]})
Covered(g)    == {i \in Entries(g) : Place(g, i) <= boundary[g]}

(* usableGrantsForProduct: named by the current snapshot, active, covered,  *)
(* and under no marker, hold or recovery.                                  *)
Usable(g) ==
  /\ stored[g].source # "none" /\ stored[g].observed = capability
  /\ stored[g].status = "active"
  /\ g \notin finished /\ g \notin denied /\ recovery[g] = "none"
  /\ boundary[g] # -1

(* Mutant: what the backend already covered is not subtracted.             *)
SpendableMilli_Uncovered(g) == Granted - Units(g, Entries(g) \ Covered(g))

(* The grant less what is covered and less what is not covered yet.        *)
SpendableMilli(g) ==
  Granted - Units(g, Covered(g)) - Units(g, Entries(g) \ Covered(g))

Allowance(g) == IF Usable(g) /\ SpendableMilli(g) > 0 THEN SpendableMilli(g) ELSE 0

(* splitForProduct drains the grants in order: at most one grant is left   *)
(* with something in it.                                                   *)
Split(take) ==
  /\ \A g \in Grants : take[g] <= Allowance(g)
  /\ \E g \in Grants : take[g] > 0
  /\ Cardinality({g \in Grants : take[g] > 0 /\ take[g] < Allowance(g)}) <= 1

(* The sale transaction writes the consumptions with the invoice.          *)
Sell ==
  /\ Len(sales) < MaxSales
  /\ \E take \in Sale : Split(take) /\ sales' = Append(sales, take)
  /\ UNCHANGED <<backendVars, evidence, recoveries, recoverer, answers, ledgerFaults>>

-----------------------------------------------------------------------------
(* The backend.                                                            *)
Room == Cardinality(answers) < MaxAnswers
SeenBy(g) == [status |-> stage[g], sequence |-> Accepted(g)]
TopUpAnswer(g) == [kind |-> "topup", grant |-> g, envelope |-> SeenBy(g)]

(* A top-up request issues a grant; asked again, it tells of the same one.  *)
BackendTopsUp(g) ==
  /\ Room
  /\ IF g \in issued THEN UNCHANGED <<issued, issueRevision>>
     ELSE issued' = issued \cup {g} /\ issueRevision' = issueRevision + 1
  /\ answers' = answers \cup {TopUpAnswer(g)}
  /\ UNCHANGED <<stage, taken, gapped, declared, sales, evidence, recoveries, recoverer, ledgerFaults>>

Snapshot ==
  [kind |-> "snapshot", revision |-> issueRevision,
   grants |-> [g \in {h \in issued : stage[h] \notin Terminal} |-> SeenBy(g)],
   markers |-> {g \in issued : stage[g] \in Terminal}]

(* One bootstrap at a time.                                                *)
BackendSnapshots ==
  /\ Room /\ ~\E a \in answers : a.kind = "snapshot"
  /\ answers' = answers \cup {Snapshot}
  /\ UNCHANGED <<backendVars, sales, evidence, recoveries, recoverer, ledgerFaults>>

(* A sale goes in after every earlier entry of each chain it continues;    *)
(* else it is quarantined as a gap.                                        *)
InOrder(i) == \A g \in Grants : i \in Entries(g) => \A j \in Entries(g) : j < i => j \in taken

BackendTakes(i) ==
  IF i \in gapped THEN UNCHANGED <<taken, gapped>>
  ELSE IF InOrder(i) THEN taken' = taken \cup {i} /\ UNCHANGED gapped
  ELSE gapped' = gapped \cup {i} /\ UNCHANGED taken

CoverageOf(i) ==
  [g \in {h \in Grants : i \in Entries(h)} |-> Cardinality(Entries(g) \cap (taken \cup {i}))]

(* The upload worker, which keeps to the order, or sends what was sent.    *)
WorkerUploads(i) ==
  /\ Room /\ i \in DOMAIN sales /\ i \notin gapped /\ InOrder(i)
  /\ BackendTakes(i)
  /\ answers' = answers \cup {[kind |-> "coverage", boundaries |-> CoverageOf(i)]}
  /\ UNCHANGED <<issued, stage, issueRevision, declared, sales, evidence, recoveries, recoverer, ledgerFaults>>

BackendReleases(g) ==
  /\ stage[g] = "seal_acknowledged"
  /\ stage' = [stage EXCEPT ![g] = "released"] /\ issueRevision' = issueRevision + 1
  /\ UNCHANGED <<issued, taken, gapped, declared, sales, evidence, recoveries, recoverer, answers, ledgerFaults>>

-----------------------------------------------------------------------------
(* Evidence at the till.                                                   *)

(* Mutant: a boundary older than the stored one is taken for a conflict.   *)
CoverageVerdict_OlderConflicts(g, s, known) ==
  IF ~known THEN "unknown"
  ELSE IF boundary[g] # -1 /\ s < boundary[g] THEN "rejected"
  ELSE IF s = boundary[g] THEN "ignored"
  ELSE IF s > Cardinality(Entries(g)) THEN "rejected"
  ELSE "accepted"

(* applyCoverage, up to its effect: older and equal boundaries change      *)
(* nothing, one beyond the journal is not to be trusted.                   *)
CoverageVerdict(g, s, known) ==
  IF ~known THEN "unknown"
  ELSE IF s <= boundary[g] THEN "ignored"
  ELSE IF s > Cardinality(Entries(g)) THEN "rejected"
  ELSE "accepted"

(* Boundaries for several grants, of which the till stores those in known.  *)
ApplyCoverage(boundaries, known, markers) ==
  LET says(g) == IF g \in DOMAIN boundaries THEN CoverageVerdict(g, boundaries[g], g \in known)
                 ELSE "ignored"
      accepted == {g \in Grants : says(g) = "accepted"}
  IN  /\ boundary' = [g \in Grants |-> IF g \in accepted THEN boundaries[g] ELSE boundary[g]]
      /\ denied' = ((denied \cup markers) \ accepted) \cup {g \in Grants : says(g) = "rejected"}

KnownGrants == {g \in Grants : stored[g].source # "none"}

(* A marker over consumption that is not covered: held, nothing discarded.  *)
Contradicted(markers) == {g \in markers \cap KnownGrants : Entries(g) \ Covered(g) # {}}

(* assertConsumptionAdvance: never below what was accepted before.         *)
Advances(g, envelope) == stored[g].source = "none" \/ envelope.sequence >= stored[g].sequence

SameLifecycle(g, envelope) == stored[g].status = envelope.status

(* The same revision names the same grants: none changed, and none missing *)
(* but those that came with a top-up.                                      *)
Repeats(snapshot) ==
  /\ \A g \in DOMAIN snapshot.grants :
       /\ g \in KnownGrants /\ stored[g].observed = capability
       /\ SameLifecycle(g, snapshot.grants[g]) /\ Advances(g, snapshot.grants[g])
  /\ \A g \in KnownGrants : stored[g].observed = capability /\ stored[g].source = "bootstrap"
       => g \in DOMAIN snapshot.grants

Supersedes(snapshot) ==
  /\ snapshot.revision > capability
  /\ \A g \in DOMAIN snapshot.grants \cap KnownGrants :
       /\ Generation(snapshot.grants[g].status) >= Generation(stored[g].status)
       /\ Advances(g, snapshot.grants[g])

(* Markers and boundaries are applied only when the snapshot names a grant: *)
(* its owner is read off the first one.                                    *)
Reconcile(snapshot) ==
  IF DOMAIN snapshot.grants = {} THEN UNCHANGED <<boundary, finished, denied, recovery>>
  ELSE /\ finished' = finished \cup snapshot.markers
       /\ recovery' = [g \in Grants |->
            IF g \in snapshot.markers /\ recovery[g] \in {"sealed", "acknowledged"}
              THEN "terminal" ELSE recovery[g]]
       /\ ApplyCoverage([g \in DOMAIN snapshot.grants |-> snapshot.grants[g].sequence],
                        KnownGrants \cup DOMAIN snapshot.grants, Contradicted(snapshot.markers))

(* persistAllocationSnapshot, inside the install transaction: a snapshot   *)
(* that contradicts what is stored rolls the whole install back.           *)
InstallSnapshot(snapshot) ==
  /\ snapshot \in answers /\ snapshot.kind = "snapshot"
  /\ answers' = answers \ {snapshot}
  /\ \/ /\ snapshot.revision = capability /\ Repeats(snapshot)
        /\ stored' = [g \in Grants |-> IF g \in DOMAIN snapshot.grants
                        THEN [stored[g] EXCEPT !.source = "bootstrap",
                                               !.sequence = snapshot.grants[g].sequence]
                        ELSE stored[g]]
        /\ Reconcile(snapshot) /\ UNCHANGED capability
     \/ /\ Supersedes(snapshot)
        /\ stored' = [g \in Grants |-> IF g \in DOMAIN snapshot.grants
                        THEN [observed |-> snapshot.revision, source |-> "bootstrap",
                              status |-> snapshot.grants[g].status,
                              sequence |-> snapshot.grants[g].sequence]
                        ELSE stored[g]]
        /\ Reconcile(snapshot) /\ capability' = snapshot.revision
     \/ /\ ~(snapshot.revision = capability /\ Repeats(snapshot)) /\ ~Supersedes(snapshot)
        /\ UNCHANGED <<evidence, recovery>>
  /\ UNCHANGED <<backendVars, sales, frozen, recoverer, ledgerFaults>>

(* A stored grant is named again: at an earlier generation never, at the    *)
(* same one unchanged, at a later one whatever it says.                    *)
Consistent(g, envelope) ==
  /\ Generation(envelope.status) >= Generation(stored[g].status)
  /\ Generation(envelope.status) = Generation(stored[g].status) => SameLifecycle(g, envelope)
  /\ Advances(g, envelope)

(* ingestTopUpGrants: a new grant joins the current snapshot; a stored one  *)
(* is not rewritten, only its high-water mark is raised, even when it comes *)
(* at a later generation; a contradiction rolls back.                      *)
IngestTopUp(answer) ==
  LET g == answer.grant  e == answer.envelope
  IN  /\ answer \in answers /\ answer.kind = "topup" /\ answers' = answers \ {answer}
      /\ IF capability # 0 /\ (g \in KnownGrants => Consistent(g, e))
           THEN /\ stored' = [stored EXCEPT ![g] =
                     IF g \in KnownGrants THEN [@ EXCEPT !.sequence = e.sequence]
                     ELSE [observed |-> capability, status |-> e.status,
                           sequence |-> e.sequence, source |-> "incremental"]]
                /\ ApplyCoverage([h \in {g} |-> e.sequence], KnownGrants \cup {g}, {})
           ELSE UNCHANGED <<stored, boundary, denied>>
      /\ UNCHANGED <<backendVars, sales, capability, finished, recoveries, recoverer, ledgerFaults>>

(* The upload worker's own answer, applied whenever it arrives.            *)
CoverageArrives(answer) ==
  /\ answer \in answers /\ answer.kind = "coverage" /\ answers' = answers \ {answer}
  /\ ApplyCoverage(answer.boundaries, KnownGrants, {})
  /\ UNCHANGED <<backendVars, sales, capability, stored, finished, recoveries, recoverer, ledgerFaults>>

AnswerLost ==
  /\ ledgerFaults < MaxFaults /\ ledgerFaults' = ledgerFaults + 1
  /\ \E a \in answers : answers' = answers \ {a}
  /\ UNCHANGED <<backendVars, sales, evidence, recoveries, recoverer>>

-----------------------------------------------------------------------------
(* Recovery: one operation at a time, each request after a commit.         *)
At(place) == recoverer.at = place
Goto(place) == recoverer' = [recoverer EXCEPT !.at = place]

(* An operator starts it; the grant is unusable from here on.              *)
BeginIntent(g) ==
  /\ g \in KnownGrants /\ stored[g].status = "active" /\ recovery[g] = "none"
  /\ recovery' = [recovery EXCEPT ![g] = "intent"]
  /\ UNCHANGED <<backendVars, sales, evidence, frozen, recoverer, answers, ledgerFaults>>

(* Mutant: the entry right after the boundary counts as covered, too.      *)
Unresolved_OffByOne(g) ==
  {i \in Entries(g) : Place(g, i) <= frozen[g] /\ Place(g, i) > boundary[g] + 1}

(* The entries of the declaration that no boundary has reached.            *)
Unresolved(g) == {i \in Entries(g) : Place(g, i) <= frozen[g] /\ Place(g, i) > boundary[g]}

(* start and resume: the next step of a recovery that is not finished.  The *)
(* sales to replay are read once, before the first of them is sent.        *)
Advance(g) ==
  /\ At("idle") /\ recovery[g] \in {"intent", "sealed"}
  /\ recoverer' = [at |-> IF recovery[g] = "intent" THEN "sealing" ELSE "replaying",
                   grant |-> g, sale |-> 0, todo |-> Unresolved(g)]
  /\ UNCHANGED <<backendVars, sales, evidence, recoveries, answers, ledgerFaults>>

(* The backend seals once; the same key is answered alike.                 *)
BackendSeals ==
  /\ At("sealing") /\ stage[recoverer.grant] \in {"active", "revocation_pending"}
  /\ IF stage[recoverer.grant] = "active"
       THEN /\ stage' = [stage EXCEPT ![recoverer.grant] = "revocation_pending"]
            /\ issueRevision' = issueRevision + 1
       ELSE UNCHANGED <<stage, issueRevision>>
  /\ Goto("sealed")
  /\ UNCHANGED <<issued, taken, gapped, declared, sales, evidence, recoveries, answers, ledgerFaults>>

(* observeRecoveryLifecycle and freezeDeclaration, in one transaction.     *)
FreezeDeclaration ==
  /\ At("sealed")
  /\ LET g == recoverer.grant
     IN  /\ stored' = [stored EXCEPT ![g].status = "revocation_pending"]
         /\ recovery' = [recovery EXCEPT ![g] = "sealed"]
         /\ frozen' = [frozen EXCEPT ![g] = Cardinality(Entries(g))]
         /\ recoverer' = [recoverer EXCEPT !.at = "replaying", !.todo = Entries(g) \ Covered(g)]
  /\ UNCHANGED <<backendVars, sales, capability, boundary, finished, denied, answers, ledgerFaults>>

(* The next of them is sent, whatever its queue row says.                  *)
Replay ==
  /\ At("replaying") /\ recoverer.todo # {}
  /\ LET i == Min(recoverer.todo)
     IN  recoverer' = [recoverer EXCEPT !.at = "uploading", !.sale = i, !.todo = @ \ {i}]
  /\ UNCHANGED <<backendVars, sales, evidence, recoveries, answers, ledgerFaults>>

BackendTakesReplay ==
  /\ At("uploading") /\ BackendTakes(recoverer.sale) /\ Goto("uploaded")
  /\ UNCHANGED <<issued, stage, issueRevision, declared, sales, evidence, recoveries, answers, ledgerFaults>>

(* The coverage it brings is applied; a quarantine is a conflict for good.  *)
ReplayAnswered ==
  /\ At("uploaded")
  /\ IF recoverer.sale \in gapped
       THEN /\ recovery' = [recovery EXCEPT ![recoverer.grant] = "conflict"]
            /\ recoverer' = Resting /\ UNCHANGED <<boundary, denied>>
       ELSE /\ ApplyCoverage(CoverageOf(recoverer.sale), KnownGrants, {})
            /\ Goto("replaying") /\ UNCHANGED recovery
  /\ UNCHANGED <<backendVars, sales, capability, stored, finished, frozen, answers, ledgerFaults>>

(* refreshDependencyEvidence and assertFrozenDeclarationComplete.          *)
DeclarationComplete(g) ==
  recovery[g] = "sealed" /\ Unresolved(g) = {} /\ Cardinality(Entries(g)) = frozen[g]

Acknowledge ==
  /\ At("replaying") /\ recoverer.todo = {} /\ DeclarationComplete(recoverer.grant)
  /\ Goto("acknowledging")
  /\ UNCHANGED <<backendVars, sales, evidence, recoveries, answers, ledgerFaults>>

(* The record is no longer sealed, or evidence is missing: nothing is told. *)
AdvanceEnds ==
  /\ At("replaying") /\ recoverer.todo = {} /\ ~DeclarationComplete(recoverer.grant)
  /\ recoverer' = Resting
  /\ UNCHANGED <<backendVars, sales, evidence, recoveries, answers, ledgerFaults>>

(* The backend takes the final sequence at its word.                       *)
BackendAcknowledges ==
  /\ At("acknowledging")
  /\ LET g == recoverer.grant
     IN  /\ IF stage[g] = "revocation_pending"
              THEN /\ stage' \in {[stage EXCEPT ![g] = s] : s \in {"seal_acknowledged", "released"}}
                   /\ issueRevision' = issueRevision + 1
              ELSE UNCHANGED <<stage, issueRevision>>
         /\ declared' = [declared EXCEPT ![g] = frozen[g]]
  /\ Goto("acknowledged")
  /\ UNCHANGED <<issued, taken, gapped, sales, evidence, recoveries, answers, ledgerFaults>>

AcknowledgeAnswered ==
  /\ At("acknowledged")
  /\ LET g == recoverer.grant
     IN  /\ stored' = [stored EXCEPT ![g].status = stage[g]]
         /\ recovery' = [recovery EXCEPT ![g] =
              IF stage[g] = "seal_acknowledged" THEN "acknowledged" ELSE "terminal"]
  /\ recoverer' = Resting
  /\ UNCHANGED <<backendVars, sales, capability, boundary, finished, denied, frozen, answers, ledgerFaults>>

(* Mutant: after a failure the recovery starts over from its intent.       *)
RequestFails_StartsOver ==
  /\ ~At("idle") /\ ~At("replaying")
  /\ ledgerFaults < MaxFaults /\ ledgerFaults' = ledgerFaults + 1
  /\ recovery' = [recovery EXCEPT ![recoverer.grant] = "intent"] /\ recoverer' = Resting
  /\ UNCHANGED <<backendVars, sales, evidence, frozen, answers>>

(* No answer, or no access any more: the recovery stays where it is.       *)
RequestFails ==
  /\ ~At("idle") /\ ~At("replaying")
  /\ ledgerFaults < MaxFaults /\ ledgerFaults' = ledgerFaults + 1
  /\ recoverer' = Resting
  /\ UNCHANGED <<backendVars, sales, evidence, recoveries, answers>>

(* Everything in memory and on its way is gone.                            *)
TillCrashes ==
  /\ ledgerFaults < MaxFaults /\ ledgerFaults' = ledgerFaults + 1
  /\ recoverer' = Resting /\ answers' = {}
  /\ UNCHANGED <<backendVars, sales, evidence, recoveries>>

-----------------------------------------------------------------------------
RecoveryStep ==
  \/ BackendSeals \/ FreezeDeclaration \/ Replay \/ BackendTakesReplay \/ ReplayAnswered
  \/ Acknowledge \/ AdvanceEnds \/ BackendAcknowledges \/ AcknowledgeAnswered

LedgerNext ==
  \/ Sell \/ BackendSnapshots \/ AnswerLost \/ RequestFails \/ TillCrashes \/ RecoveryStep
  \/ \E g \in Grants : BackendTopsUp(g) \/ BackendReleases(g) \/ BeginIntent(g) \/ Advance(g)
  \/ \E i \in 1 .. MaxSales : WorkerUploads(i)
  \/ \E a \in answers : InstallSnapshot(a) \/ IngestTopUp(a) \/ CoverageArrives(a)

LedgerSpec == LedgerInit /\ [][LedgerNext]_ledgerVars

-----------------------------------------------------------------------------
(* A grant is never sold beyond its quantity, wherever the boundary stands  *)
(* and in whatever order evidence, sales and uploads came.                 *)
AllowanceHolds == \A g \in Grants : Units(g, Entries(g)) <= Granted

(* Evidence of an honest backend never puts a grant on hold: late, repeated *)
(* and reordered answers are no conflict.                                  *)
HonestEvidenceNeverHolds == denied = {}

(* The final sequence the backend was told is the whole journal of the      *)
(* grant and stays so: every entry had been accepted, and nothing is sold  *)
(* from the grant once the backend may give its rest to another till.      *)
DeclaredIsWhole ==
  \A g \in Grants : declared[g] # -1 =>
    /\ Cardinality(Entries(g)) = declared[g]
    /\ Entries(g) \subseteq taken

(* A recovery begun is finished, by the backend's answer or by a conflict.  *)
RecoveryFinishes ==
  \A g \in Grants : recovery[g] \in {"intent", "sealed"} ~> recovery[g] \notin {"intent", "sealed"}
=============================================================================
