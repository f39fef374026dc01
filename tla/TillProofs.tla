----------------------------- MODULE TillProofs -----------------------------
(***************************************************************************)
(* Proofs about the records of a till and its backend.                     *)
(*                                                                         *)
(* DispositionConvergence: what is filed of an operator's decisions is     *)
(* coherent, whatever the server answers, and is filed for the owner of    *)
(* its sale, whoever signs in between.                                     *)
(*                                                                         *)
(* EntityCreate: a request handed to another user was never sent, and what *)
(* the till takes for settled is what the server holds; both rest on the   *)
(* evidence a row keeps of having been sent.                               *)
(*                                                                         *)
(* PrintJobs: one original receipt of a sale.  What the journal holds of a *)
(* document and what the printer was told are tied at every step.          *)
(*                                                                         *)
(* Last, the services side by side: each keeps its types beside the rest.  *)
(***************************************************************************)
EXTENDS MCTill, LedgerProofs, ServiceProofs, CatalogInstallProofs,
        FiniteSetTheorems, WellFoundedInduction, TLAPS

-----------------------------------------------------------------------------
-----------------------------------------------------------------------------
(* Dispositions.                                                           *)

(* Verification.                                                           *)

LEMMA LeastSequence ==
  ASSUME NEW S \in SUBSET Nat, S # {}
  PROVE  Min(S) \in S /\ \A y \in S : Min(S) <= y
<1>1. PICK x \in S : \A y \in S : ~(<<y, x>> \in OpToRel(<, Nat))
  BY WFMin, NatLessThanWellFounded
<1>2. ASSUME NEW y \in S, y < x PROVE FALSE
  <2>1. <<y, x>> \in OpToRel(<, Nat)
    <3>1. x \in Nat /\ y \in Nat /\ y < x
      BY <1>2
    <3> QED
      BY <3>1, Zenon DEF OpToRel
  <2> QED
    BY <1>1, <2>1
<1>3. \A y \in S : x <= y
  BY <1>2
<1> QED
  BY <1>3 DEF Min

Marks == [Index -> Mark]

(* The hold of a grant with an overridden proof is that proof or an        *)
(* earlier one; without one there is no hold.                              *)
LEMMA HoldIsFirst ==
  ASSUME NEW m \in Marks, NEW g \in Held
  PROVE  LET hold == FirstOverridden(m)[g]
             broken == SequencesOf(On(g) \cap Overridden(m))
         IN  /\ hold \in Nat
             /\ IF broken = {} THEN hold = 0
                ELSE hold \in broken /\ hold > 0 /\ \A y \in broken : hold <= y
<1> DEFINE broken == SequencesOf(On(g) \cap Overridden(m))
<1>1. broken \in SUBSET Nat /\ \A y \in broken : y > 0
  BY ConvergenceAssumption DEF SequencesOf, On, Overridden, Index
<1>2. CASE broken = {}
  BY <1>2 DEF FirstOverridden
<1>3. CASE broken # {}
  <2>1. FirstOverridden(m)[g] = Min(broken)
    BY <1>3 DEF FirstOverridden
  <2> HIDE DEF broken
  <2>2. Min(broken) \in broken /\ \A y \in broken : Min(broken) <= y
    BY <1>1, <1>3, LeastSequence
  <2> QED
    BY <1>1, <1>3, <2>1, <2>2 DEF broken
<1> QED
  BY <1>2, <1>3

(* A decision that verifies accepts what lies before the hold of its grant *)
(* and nothing else.                                                       *)
LEMMA HoldDivides ==
  ASSUME NEW r, r.mark \in Marks, Verify(r), NEW k \in Index
  PROVE  r.mark[k] = "accepted" <=>
           LET hold == r.holds[Proofs[k].grant]
           IN  hold = 0 \/ Proofs[k].sequence < hold
<1> DEFINE m == r.mark
           g == Proofs[k].grant
           broken == SequencesOf(On(g) \cap Overridden(m))
           hold == FirstOverridden(m)[g]
<1>1. g \in Held /\ r.holds[g] = hold /\ AcceptsPrefixes(m) /\ Proofs[k].sequence \in Nat
  BY ConvergenceAssumption DEF Verify, Held, Index
<1>2. IF broken = {} THEN hold = 0
      ELSE hold \in broken /\ hold > 0 /\ \A y \in broken : hold <= y
  BY <1>1, HoldIsFirst
<1>3. ASSUME m[k] # "accepted" PROVE hold # 0 /\ hold <= Proofs[k].sequence
  <2>1. Proofs[k].sequence \in broken
    BY <1>3 DEF SequencesOf, On, Overridden
  <2> QED
    BY <1>1, <1>2, <2>1 DEF Index
<1>4. ASSUME m[k] = "accepted", hold # 0 PROVE Proofs[k].sequence < hold
  <2>1. PICK l \in On(g) \cap Overridden(m) : hold = Proofs[l].sequence
    BY <1>2, <1>4 DEF SequencesOf
  <2>2. l \in Index /\ Proofs[l].grant = g /\ m[l] # "accepted" /\ k \in On(g)
    BY <2>1 DEF On, Overridden
  <2>3. k \in Int /\ l \in Int
    BY <2>2, ConvergenceAssumption DEF Index
  <2>4. ~(l < k) /\ l # k
    BY <1>1, <1>4, <2>1, <2>2 DEF AcceptsPrefixes
  <2>5. k < l
    BY <2>3, <2>4
  <2> QED
    BY <2>1, <2>2, <2>5, ConvergenceAssumption DEF Index
<1>5. hold \in Nat
  BY <1>1, HoldIsFirst
<1> QED
  BY <1>1, <1>3, <1>4, <1>5

LEMMA DraftsHaveMarks ==
  ASSUME NEW r \in Drafts
  PROVE  r.mark \in Marks /\ r.bound = TRUE /\ r # NoResult
<1>1. PICK a \in BOOLEAN, m \in Marks : r = Decision(a, m)
  BY DEF Drafts, Marks
<1>2. r.mark = m /\ r.bound = TRUE
  BY <1>1 DEF Decision
<1>3. "mark" \in DOMAIN r /\ "mark" \notin DOMAIN NoResult
  BY <1>1 DEF Decision, NoResult
<1> QED
  BY <1>1, <1>2, <1>3

(* A wrong answer that verifies all the same claims that all was accepted. *)
LEMMA GarbledAccepts ==
  ASSUME NEW r \in Garbled, Verify(r)
  PROVE  r.mark \in Marks /\ r.accepting
<1>1. CASE r \in Drafts \ Decisions
  BY <1>1 DEF Decisions, Verify
<1>2. CASE r \in {[d EXCEPT !.bound = FALSE] : d \in Decisions}
  <2>1. PICK d \in Decisions : r = [d EXCEPT !.bound = FALSE]
    BY <1>2
  <2>2. PICK a \in BOOLEAN, m \in Marks : d = Decision(a, m)
    BY DEF Decisions, Drafts, Marks
  <2>3. r.bound = FALSE
    BY <2>1, <2>2 DEF Decision
  <2> QED
    BY <2>3 DEF Verify
<1>3. CASE r \in {[d EXCEPT !.holds = [g \in Held |-> 0]] : d \in Decisions}
  <2>1. PICK d \in Decisions : r = [d EXCEPT !.holds = [g \in Held |-> 0]]
    BY <1>3
  <2>2. PICK a \in BOOLEAN, m \in Marks : d = Decision(a, m)
    BY DEF Decisions, Drafts, Marks
  <2>3. r.mark = m /\ r.accepting = a /\ r.holds = [g \in Held |-> 0]
    BY <2>1, <2>2 DEF Decision
  <2>4. ASSUME ~a PROVE FALSE
    <3>1. 1 \in Index
      BY ConvergenceAssumption DEF Index
    <3>2. m[1] = "permanent"
      BY <2>3, <2>4, <3>1 DEF Verify, Marked
    <3>3. r.holds[Proofs[1].grant] = 0
      BY <2>3, <3>1 DEF Held
    <3>4. r.mark[1] = "accepted"
      BY <2>3, <3>1, <3>3, HoldDivides
    <3> QED
      BY <2>3, <3>2, <3>4
  <2> QED
    BY <2>3, <2>4
<1> QED
  BY <1>1, <1>2, <1>3 DEF Garbled

-----------------------------------------------------------------------------
(* A run.                                                                  *)

(* What an answer may say of a sale: nothing, the decision the server      *)
(* stored for it, or something wrong.                                      *)
MayTell(i, e) == e = NoResult \/ (e = verdict[i] /\ e \in Decisions) \/ e \in Garbled

(* Verdicts are decisions, a question is the owner's, and its answer says  *)
(* nothing else than MayTell.                                              *)
OwnerAsked ==
  /\ verdict \in [Quarantine -> Decisions \cup {NoResult}]
  /\ question = [at |-> question.at, owner |-> question.owner, rows |-> question.rows,
                 entries |-> question.entries]
  /\ question.rows \subseteq Quarantine
  /\ question.at # "none" => question.owner = "owner"
  /\ question.at = "answered" =>
       \A i \in question.rows : MayTell(i, question.entries[i])

(* What is filed was verified, moved its sale with it, and a sale that the *)
(* till holds for refused is refused on the server for good.               *)
Filed ==
  /\ row \in [Quarantine -> {"rejected", "pending", "synced"}]
  /\ filed = [i \in Quarantine |-> filed[i]]
  /\ \A i \in Quarantine : filed[i] # NoResult =>
       /\ filed[i].mark \in Marks /\ Verify(filed[i])
       /\ filed[i].accepting <=> row[i] = "synced"
       /\ ~filed[i].accepting => verdict[i] # NoResult /\ ~verdict[i].accepting

ConvergenceInv == OwnerAsked /\ Filed

LEMMA ConvergenceInitHolds == ConvergenceInit => ConvergenceInv
<1> SUFFICES ASSUME ConvergenceInit PROVE ConvergenceInv
  OBVIOUS
<1>1. OwnerAsked
  BY DEF ConvergenceInit, OwnerAsked, NoQuestion
<1>2. Filed
  BY DEF ConvergenceInit, Filed
<1> QED
  BY <1>1, <1>2 DEF ConvergenceInv

(* The application: a row that changes was the owner's, refused and not    *)
(* filed, and its decision verified.                                       *)
LEMMA ApplyingKeeps ==
  ASSUME ConvergenceInv, RunApplies
  PROVE  /\ ConvergenceInv'
         /\ \A i \in Quarantine : filed'[i] # filed[i] => SessionOwner = "owner"
<1> DEFINE applied == {i \in question.rows : Applies(i) /\ Verify(question.entries[i])}
<1>1. /\ question.at = "answered" /\ question' = NoQuestion /\ verdict' = verdict
      /\ filed' = [i \in Quarantine |-> IF i \in applied THEN question.entries[i] ELSE filed[i]]
      /\ row' = [i \in Quarantine |-> IF i \in applied /\ question.entries[i].accepting
                                        THEN "synced" ELSE row[i]]
  BY DEF RunApplies
<1>2. ASSUME NEW i \in applied
      PROVE  /\ i \in Quarantine /\ SessionOwner = "owner" /\ row[i] = "rejected"
             /\ question.entries[i] # NoResult /\ Verify(question.entries[i])
             /\ MayTell(i, question.entries[i])
  BY <1>1 DEF Applies, StillOwner, ConvergenceInv, OwnerAsked
<1>3. ASSUME NEW i \in applied
      PROVE  /\ question.entries[i].mark \in Marks
             /\ ~question.entries[i].accepting => verdict[i] # NoResult /\ ~verdict[i].accepting
  <2>1. CASE question.entries[i] = verdict[i] /\ question.entries[i] \in Decisions
    <3>1. question.entries[i] \in Drafts
      BY <2>1 DEF Decisions
    <3> QED
      BY <2>1, <3>1, DraftsHaveMarks
  <2>2. CASE question.entries[i] \in Garbled
    BY <1>2, <2>2, GarbledAccepts
  <2> QED
    BY <1>2, <2>1, <2>2 DEF MayTell
<1> HIDE DEF applied
<1>4. OwnerAsked'
  BY <1>1 DEF ConvergenceInv, OwnerAsked, NoQuestion
<1>5. row' \in [Quarantine -> {"rejected", "pending", "synced"}]
  BY <1>1 DEF ConvergenceInv, Filed
<1>6. ASSUME NEW i \in Quarantine, filed'[i] # NoResult
      PROVE  /\ filed'[i].mark \in Marks /\ Verify(filed'[i])
             /\ filed'[i].accepting <=> row'[i] = "synced"
             /\ ~filed'[i].accepting => verdict'[i] # NoResult /\ ~verdict'[i].accepting
  <2>1. CASE i \in applied
    BY <1>1, <1>2, <1>3, <2>1
  <2>2. CASE i \notin applied
    <3>1. filed'[i] = filed[i] /\ row'[i] = row[i]
      BY <1>1, <2>2
    <3> QED
      BY <1>1, <1>6, <3>1 DEF ConvergenceInv, Filed
  <2> QED
    BY <2>1, <2>2
<1>7. Filed'
  BY <1>1, <1>5, <1>6 DEF Filed
<1>8. \A i \in Quarantine : filed'[i] # filed[i] => SessionOwner = "owner"
  BY <1>1, <1>2
<1> QED
  BY <1>4, <1>7, <1>8 DEF ConvergenceInv

LEMMA ConvergenceStepKeeps ==
  ASSUME ConvergenceInv, [ConvergenceNext]_convergenceVars
  PROVE  /\ ConvergenceInv'
         /\ \A i \in Quarantine : filed'[i] # filed[i] => SessionOwner = "owner"
<1> USE DEF ConvergenceInv
<1>1. CASE RequestConvergence
  <2>1. UNCHANGED <<rowVars, verdict>>
    BY <1>1 DEF RequestConvergence
  <2>2. CASE question' = NoQuestion
    BY <2>1, <2>2 DEF OwnerAsked, Filed, rowVars, NoQuestion
  <2>3. CASE /\ Candidates # {}
             /\ question' = [at |-> "asked", owner |-> SessionOwner, rows |-> Oldest(Candidates),
                             entries |-> <<>>]
    <3>1. SessionOwner = "owner" /\ Oldest(Candidates) \subseteq Quarantine
      BY <2>3 DEF Candidates, Oldest
    <3>2. OwnerAsked'
      BY <2>1, <2>3, <3>1 DEF OwnerAsked
    <3> QED
      BY <2>1, <3>2 DEF Filed, rowVars
  <2> QED
    BY <1>1, <2>2, <2>3 DEF RequestConvergence
<1>2. CASE ServerTells
  <2>1. UNCHANGED <<rowVars, verdict>> /\ question.at = "asked"
    BY <1>2 DEF ServerTells
  <2>2. /\ question'.rows = question.rows /\ question'.owner = question.owner
        /\ \A i \in question.rows : MayTell(i, question'.entries[i])
        /\ question' = [at |-> question'.at, owner |-> question'.owner, rows |-> question'.rows,
                        entries |-> question'.entries]
    <3> DEFINE told == [i \in question.rows |-> verdict[i]]
    <3>1. \A i \in question.rows : MayTell(i, told[i])
      BY DEF MayTell, OwnerAsked
    <3>2. PICK e : /\ question' = [question EXCEPT !.at = "answered", !.entries = e]
                   /\ e = told \/ \E i \in question.rows : \E r \in Garbled :
                                    e = [told EXCEPT ![i] = r]
      BY <1>2 DEF ServerTells
    <3>3. question'.entries = e
      BY <3>2 DEF OwnerAsked
    <3>4. \A i \in question.rows : MayTell(i, e[i])
      BY <3>1, <3>2 DEF MayTell
    <3> QED
      BY <3>2, <3>3, <3>4 DEF OwnerAsked
  <2>3. OwnerAsked'
    BY <2>1, <2>2 DEF OwnerAsked, MayTell
  <2> QED
    BY <2>1, <2>3 DEF Filed, rowVars
<1>3. CASE RunFails
  BY <1>3 DEF RunFails, OwnerAsked, Filed, rowVars, NoQuestion
<1>4. CASE RunApplies
  BY <1>4, ApplyingKeeps
<1>5. CASE IntervalPasses
  BY <1>5 DEF IntervalPasses, OwnerAsked, Filed, rowVars, MayTell
<1>6. CASE SessionPasses
  BY <1>6 DEF SessionPasses, OwnerAsked, Filed, rowVars, MayTell
<1>7. CASE Restart
  <2>1. UNCHANGED <<filed, verdict>> /\ question' = NoQuestion
    BY <1>7 DEF Restart, Fresh
  <2>2. \/ UNCHANGED row
        \/ \E i \in Quarantine : row[i] = "rejected" /\ row' = [row EXCEPT ![i] = "pending"]
    BY <1>7 DEF Restart
  <2>3. OwnerAsked'
    BY <2>1 DEF OwnerAsked, NoQuestion
  <2>4. Filed'
    BY <2>1, <2>2 DEF Filed
  <2> QED
    BY <2>1, <2>3, <2>4
<1>8. ASSUME NEW i \in Quarantine, ServerRules(i)
      PROVE  ConvergenceInv' /\ \A j \in Quarantine : filed'[j] # filed[j] => SessionOwner = "owner"
  <2>1. PICK r \in Decisions : verdict[i] = NoResult /\ verdict' = [verdict EXCEPT ![i] = r]
    BY <1>8 DEF ServerRules
  <2>2. UNCHANGED <<rowVars, question>>
    BY <1>8 DEF ServerRules
  <2>3. OwnerAsked'
    BY <2>1, <2>2 DEF OwnerAsked, MayTell
  <2>4. Filed'
    BY <2>1, <2>2 DEF Filed, rowVars, OwnerAsked
  <2> QED
    BY <2>2, <2>3, <2>4 DEF rowVars
<1>9. ASSUME NEW i \in Quarantine, Reuploads(i)
      PROVE  ConvergenceInv' /\ \A j \in Quarantine : filed'[j] # filed[j] => SessionOwner = "owner"
  <2>1. UNCHANGED <<filed, verdict, question>>
    BY <1>9 DEF Reuploads
  <2>2. /\ row[i] = "pending"
        /\ row' = [row EXCEPT ![i] =
             IF verdict[i] # NoResult /\ verdict[i].accepting THEN "synced" ELSE "rejected"]
    BY <1>9 DEF Reuploads
  <2>3. OwnerAsked'
    BY <2>1 DEF OwnerAsked, MayTell
  <2>4. Filed'
    BY <2>1, <2>2 DEF Filed
  <2> QED
    BY <2>1, <2>3, <2>4
<1>10. CASE UNCHANGED convergenceVars
  BY <1>10 DEF convergenceVars, OwnerAsked, Filed, rowVars, MayTell
<1> QED
  BY <1>1, <1>2, <1>3, <1>4, <1>5, <1>6, <1>7, <1>8, <1>9, <1>10 DEF ConvergenceNext

-----------------------------------------------------------------------------
(* The invariant of a run and of what it filed, for any number of sales,   *)
(* proofs and upsets.                                                      *)
THEOREM ConvergenceInvariant == ConvergenceSpec => []ConvergenceInv
<1>1. ConvergenceInv /\ [ConvergenceNext]_convergenceVars => ConvergenceInv'
  BY ConvergenceStepKeeps
<1> QED
  BY ConvergenceInitHolds, <1>1, PTL DEF ConvergenceSpec

(* A grant is held from its first overridden entry on, everything before   *)
(* was accepted, and the sale is synced if its decision accepts it         *)
(* (invoiceDispositionDiscovery.service.ts, verify and apply).             *)
THEOREM WhatIsFiledIsCoherent == ConvergenceSpec => []FiledIsCoherent
<1>1. ConvergenceInv => FiledIsCoherent
  BY HoldDivides DEF ConvergenceInv, Filed, FiledIsCoherent
<1> QED
  BY <1>1, ConvergenceInvariant, PTL

(* A decision is filed while the owner of its sale is signed in, though    *)
(* the session may pass to another between the question and the answer.    *)
THEOREM FiledForTheOwner == ConvergenceSpec => FiledForItsOwner
<1>1. ConvergenceInv /\ [ConvergenceNext]_convergenceVars =>
        [\A i \in Quarantine : filed'[i] # filed[i] => SessionOwner = "owner"]_convergenceVars
  BY ConvergenceStepKeeps
<1> QED
  BY <1>1, ConvergenceInvariant, PTL DEF ConvergenceSpec, FiledForItsOwner

(* Types of what is told and filed.                                        *)

\* The last accepted sequence of a grant is one of its proofs' or nothing.
LEMMA LastIsAPlace ==
  ASSUME NEW m \in Marks, NEW g \in Held
  PROVE  Max({0} \cup SequencesOf(On(g) \ Overridden(m))) \in Places
<1> DEFINE T == On(g) \ Overridden(m)
           S == {0} \cup SequencesOf(T)
<1>1. T \subseteq 1 .. Len(Proofs) /\ Len(Proofs) \in Nat
  BY ConvergenceAssumption DEF On, Index
<1>2. \A k \in T : Proofs[k].sequence \in Nat \ {0} /\ Proofs[k].sequence \in Places
  BY ConvergenceAssumption DEF On, Index, Places
<1>3. CASE T = {}
  <2>1. S = {0}
    BY <1>3 DEF SequencesOf
  <2>2. Max({0}) = 0
    BY DEF Max
  <2> QED
    BY <2>1, <2>2 DEF Places
<1>4. CASE T # {}
  <2>1. PICK x \in T : \A y \in T : y <= x
    BY <1>1, <1>4, GreatestOf
  <2>2. ASSUME NEW y \in T PROVE Proofs[y].sequence <= Proofs[x].sequence
    <3>1. CASE y = x
      BY <3>1, <1>2
    <3>2. CASE y # x
      <4>1. y \in DOMAIN Proofs /\ x \in DOMAIN Proofs /\ y < x /\ Proofs[y].grant = Proofs[x].grant
        BY <3>2, <2>1, <1>1 DEF On, Index
      <4>2. Proofs[y].sequence < Proofs[x].sequence
        BY <4>1, ConvergenceAssumption
      <4> QED
        BY <4>2, <1>2
    <3> QED
      BY <3>1, <3>2
  <2>3. Proofs[x].sequence \in S /\ \A s \in S : Proofs[x].sequence >= s
    BY <1>2, <2>2 DEF SequencesOf
  <2>4. \A s \in S : s \in Nat
    BY <1>2 DEF SequencesOf
  <2> HIDE DEF S
  <2>5. Max(S) \in S /\ \A s \in S : Max(S) >= s
    BY <2>3 DEF Max
  <2>6. Max(S) = Proofs[x].sequence
    BY <2>3, <2>4, <2>5
  <2> QED
    BY <2>6, <1>2 DEF S
<1> QED
  BY <1>3, <1>4

\* What the server decides, and what arrives instead, is a result.
LEMMA DraftsAreResults ==
  Drafts \subseteq Result /\ Decisions \subseteq Result /\ Garbled \subseteq Result
<1>1. ASSUME NEW a \in BOOLEAN, NEW m \in Marks PROVE Decision(a, m) \in Result
  <2>1. LastAccepted(m) \in [Held -> Places]
    BY LastIsAPlace DEF LastAccepted
  <2>2. ASSUME NEW g \in Held PROVE FirstOverridden(m)[g] \in Places
    <3> DEFINE broken == SequencesOf(On(g) \cap Overridden(m))
    <3>1. CASE broken = {}
      <4>1. FirstOverridden(m)[g] = 0
        BY <3>1, HoldIsFirst
      <4> QED
        BY <4>1 DEF Places
    <3>2. CASE broken # {}
      <4>1. FirstOverridden(m)[g] \in broken
        BY <3>2, HoldIsFirst
      <4>2. broken \subseteq Places
        BY DEF SequencesOf, On, Places
      <4> QED
        BY <4>1, <4>2
    <3> QED
      BY <3>1, <3>2
  <2>3. FirstOverridden(m) \in [Held -> Places]
    <3>1. FirstOverridden(m) = [g \in Held |-> FirstOverridden(m)[g]]
      BY DEF FirstOverridden
    <3> QED
      BY <2>2, <3>1
  <2> QED
    BY <2>1, <2>3 DEF Decision, Result, Marks
<1>2. Drafts \subseteq Result
  BY <1>1 DEF Drafts, Marks
<1>3. Decisions \subseteq Result
  BY <1>2 DEF Decisions
<1>4. \A r \in Result : [r EXCEPT !.bound = FALSE] \in Result
  BY DEF Result
<1>5. \A r \in Result : [r EXCEPT !.holds = [g \in Held |-> 0]] \in Result
  <2>1. [g \in Held |-> 0] \in [Held -> Places]
    BY DEF Places
  <2> QED
    BY <2>1 DEF Result
<1>6. Garbled \subseteq Result
  BY <1>2, <1>3, <1>4, <1>5 DEF Garbled
<1> QED
  BY <1>2, <1>3, <1>6

LEMMA ConvergenceTypesKeep ==
  ASSUME ConvergenceInv, ConvergenceTypeOK, [ConvergenceNext]_convergenceVars
  PROVE  ConvergenceTypeOK'
<1>1. /\ row \in [Quarantine -> {"rejected", "pending", "synced"}]
      /\ \A i \in Quarantine : filed[i] = NoResult \/ filed[i] \in Result
      /\ \A i \in Quarantine : verdict[i] = NoResult \/ verdict[i] \in Result
      /\ disputed \in SUBSET Quarantine
      /\ signedIn \in {"owner", "restricted", "other", "nobody"}
      /\ trigger \in [inFlight : BOOLEAN, since : 0 .. 1] /\ asked \in [Quarantine -> 0 .. 2]
      /\ question.at \in {"none", "asked", "answered"} /\ question.rows \in SUBSET Quarantine
      /\ upsets \in 0 .. MaxUpsets
  BY DEF ConvergenceTypeOK
<1>2. Upset => upsets' \in 0 .. MaxUpsets
  BY <1>1, ConvergenceAssumption DEF Upset
<1>3. /\ NoQuestion.at = "none" /\ NoQuestion.rows = {}
      /\ [inFlight |-> FALSE, since |-> 1] \in [inFlight : BOOLEAN, since : 0 .. 1]
      /\ [trigger EXCEPT !.inFlight = FALSE] \in [inFlight : BOOLEAN, since : 0 .. 1]
      /\ [trigger EXCEPT !.since = 1] \in [inFlight : BOOLEAN, since : 0 .. 1]
  <2>1. NoQuestion.at = "none" /\ NoQuestion.rows = {}
    BY DEF NoQuestion
  <2>2. [inFlight |-> FALSE, since |-> 1] \in [inFlight : BOOLEAN, since : 0 .. 1]
    OBVIOUS
  <2>3. trigger \in [inFlight : BOOLEAN, since : 0 .. 1]
    BY <1>1
  <2>4. [trigger EXCEPT !.inFlight = FALSE] \in [inFlight : BOOLEAN, since : 0 .. 1]
    BY <2>3
  <2>5. [trigger EXCEPT !.since = 1] \in [inFlight : BOOLEAN, since : 0 .. 1]
    BY <2>3
  <2> QED
    BY <2>1, <2>2, <2>4, <2>5
<1>4. CASE RequestConvergence
  <2>1. UNCHANGED <<row, filed, disputed, verdict, signedIn, asked, upsets>>
    BY <1>4 DEF RequestConvergence, rowVars
  <2>2. trigger' \in [inFlight : BOOLEAN, since : 0 .. 1]
    BY <1>4 DEF RequestConvergence
  <2>3. question'.at \in {"none", "asked", "answered"} /\ question'.rows \in SUBSET Quarantine
    BY <1>3, <1>4 DEF RequestConvergence, Candidates, Oldest
  <2> QED
    BY <1>1, <2>1, <2>2, <2>3 DEF ConvergenceTypeOK
<1>5. CASE ServerTells
  <2>1. UNCHANGED <<row, filed, disputed, verdict, signedIn, trigger, asked>>
    BY <1>5 DEF ServerTells, rowVars
  <2>2. upsets' \in 0 .. MaxUpsets
    BY <1>1, <1>2, <1>5 DEF ServerTells
  <2>3. \E e : question' = [question EXCEPT !.at = "answered", !.entries = e]
    BY <1>5 DEF ServerTells
  <2>4. question = [at |-> question.at, owner |-> question.owner, rows |-> question.rows,
                    entries |-> question.entries]
    BY DEF ConvergenceInv, OwnerAsked
  <2>5. question'.at = "answered" /\ question'.rows = question.rows
    BY <2>3, <2>4
  <2> QED
    BY <1>1, <2>1, <2>2, <2>5 DEF ConvergenceTypeOK
<1>6. CASE RunFails
  BY <1>1, <1>2, <1>3, <1>6 DEF RunFails, rowVars, ConvergenceTypeOK
<1>7. CASE RunApplies
  <2> DEFINE applied == {i \in question.rows : Applies(i) /\ Verify(question.entries[i])}
  <2>1. /\ question.at = "answered" /\ question' = NoQuestion
        /\ trigger' = [trigger EXCEPT !.inFlight = FALSE]
        /\ asked' = [i \in Quarantine |-> IF i \in question.rows THEN 0 ELSE asked[i]]
        /\ filed' = [i \in Quarantine |-> IF i \in applied THEN question.entries[i] ELSE filed[i]]
        /\ row' = [i \in Quarantine |-> IF i \in applied /\ question.entries[i].accepting
                                          THEN "synced" ELSE row[i]]
        /\ disputed' = disputed \cup {i \in question.rows : Applies(i) /\ i \notin applied}
        /\ UNCHANGED <<verdict, signedIn, upsets>>
    BY <1>7 DEF RunApplies
  <2>2. \A i \in applied : i \in question.rows
    OBVIOUS
  <2>3. \A i \in question.rows : MayTell(i, question.entries[i])
    BY <2>1 DEF ConvergenceInv, OwnerAsked
  <2> HIDE DEF applied
  <2>4. \A i \in Quarantine : filed'[i] = NoResult \/ filed'[i] \in Result
    BY <1>1, <2>1, <2>2, <2>3, DraftsAreResults DEF MayTell
  <2>5. row' \in [Quarantine -> {"rejected", "pending", "synced"}]
    BY <1>1, <2>1
  <2>6. asked' \in [Quarantine -> 0 .. 2]
    BY <1>1, <2>1
  <2>7. disputed' \in SUBSET Quarantine
    BY <1>1, <2>1
  <2> QED
    BY <1>1, <1>3, <2>1, <2>4, <2>5, <2>6, <2>7 DEF ConvergenceTypeOK
<1>8. CASE IntervalPasses
  <2>1. asked' \in [Quarantine -> 0 .. 2]
    BY <1>1, <1>8 DEF IntervalPasses
  <2> QED
    BY <1>1, <1>3, <1>8, <2>1 DEF IntervalPasses, rowVars, ConvergenceTypeOK
<1>9. CASE SessionPasses
  BY <1>1, <1>2, <1>9 DEF SessionPasses, rowVars, ConvergenceTypeOK
<1>10. CASE Restart
  <2>1. row' \in [Quarantine -> {"rejected", "pending", "synced"}]
    BY <1>1, <1>10 DEF Restart
  <2> QED
    BY <1>1, <1>2, <1>3, <1>10, <2>1 DEF Restart, Fresh, ConvergenceTypeOK
<1>11. ASSUME NEW i \in Quarantine, ServerRules(i) PROVE ConvergenceTypeOK'
  <2>1. PICK r \in Decisions : verdict' = [verdict EXCEPT ![i] = r]
    BY <1>11 DEF ServerRules
  <2>2. \A j \in Quarantine : verdict'[j] = NoResult \/ verdict'[j] \in Result
    <3>1. verdict \in [Quarantine -> Decisions \cup {NoResult}]
      BY DEF ConvergenceInv, OwnerAsked
    <3> QED
      BY <3>1, <2>1, DraftsAreResults
  <2> QED
    BY <1>1, <1>11, <2>2 DEF ServerRules, rowVars, ConvergenceTypeOK
<1>12. ASSUME NEW i \in Quarantine, Reuploads(i) PROVE ConvergenceTypeOK'
  BY <1>1, <1>12 DEF Reuploads, ConvergenceTypeOK
<1>13. CASE UNCHANGED convergenceVars
  BY <1>1, <1>13 DEF convergenceVars, rowVars, ConvergenceTypeOK
<1> QED
  BY <1>4, <1>5, <1>6, <1>7, <1>8, <1>9, <1>10, <1>11, <1>12, <1>13 DEF ConvergenceNext

(* The types of what is asked, told and filed, for any proofs and sales.   *)
THEOREM ConvergenceTypes == ConvergenceSpec => []ConvergenceTypeOK
<1>1. ConvergenceInit => ConvergenceTypeOK
  BY ConvergenceAssumption DEF ConvergenceInit, ConvergenceTypeOK, NoQuestion
<1>2. ConvergenceInv /\ ConvergenceTypeOK /\ [ConvergenceNext]_convergenceVars => ConvergenceTypeOK'
  BY ConvergenceTypesKeep
<1> QED
  BY <1>1, <1>2, ConvergenceInvariant, PTL DEF ConvergenceSpec

-----------------------------------------------------------------------------
-----------------------------------------------------------------------------
(* Records created at the register.                                        *)

Replies == {"none", "accepted", "refused", "blocked_permission", "unknown", "401"}
Drains  == [at : {"idle", "loop", "awaiting"}, owner : Clerks \cup {Nobody},
            row : 0 .. MaxRequests, sent : SUBSET (1 .. MaxRequests), reply : Replies,
            rerun : BOOLEAN]

(* The rows against the server: what was not sent is not there, what was   *)
(* handed over was not sent, what is settled was answered, and an entity   *)
(* is created by one request.                                              *)
RowsOK(rows) ==
  /\ rows \in Seq(Request) /\ Len(rows) <= MaxRequests
  /\ onWire \subseteq DOMAIN rows
  /\ \A k \in 1 .. MaxRequests : k \notin DOMAIN rows => made[k] = "none"
  /\ \A k \in DOMAIN rows :
       /\ ~rows[k].sent => made[k] = "none" /\ k \notin onWire
       /\ rows[k].state = "superseded" => ~rows[k].sent
       /\ rows[k].state = "accepted" => made[k] = "created"
       /\ rows[k].state = "refused" => made[k] = "refused"
  /\ \A j, k \in DOMAIN rows :
       rows[j].entity = rows[k].entity /\ made[j] = "created" /\ made[k] = "created" => j = k

(* The drain awaits the answer to one row, under its lease, and an answer  *)
(* it has is the server's.                                                 *)
DrainOK(rows) ==
  /\ drain \in Drains
  /\ drain.at # "awaiting" => drain.reply = "none"
  /\ drain.at = "awaiting" =>
       /\ drain.row \in DOMAIN rows /\ rows[drain.row].state = "dispatching"
       /\ rows[drain.row].sent
       /\ drain.reply = "accepted" => made[drain.row] = "created"
       /\ drain.reply = "refused" => made[drain.row] = "refused"

PeopleOK ==
  /\ clerk \in Clerks \cup {Nobody}
  /\ made \in [1 .. MaxRequests -> {"none", "created", "refused"}]

CreateInv == RowsOK(outbox) /\ DrainOK(outbox) /\ PeopleOK

-----------------------------------------------------------------------------
(* Drains begin, end and are asked for.                                    *)

LEMMA ReclaimedIsUnknown ==
  ASSUME NEW r \in Request
  PROVE  /\ Reclaimed(r) \in Request /\ Reclaimed(r).state = "unknown"
         /\ Reclaimed(r).sent = r.sent /\ Reclaimed(r).entity = r.entity
  BY DEF Reclaimed, Request, RequestState

LEMMA ReclaimKeeps ==
  ASSUME NEW rows, RowsOK(rows)
  PROVE  RowsOK(Reclaim(rows))
<1> DEFINE after == Reclaim(rows)
<1>1. rows \in Seq(Request) /\ DOMAIN rows = 1 .. Len(rows) /\ Len(rows) \in Nat
  BY DEF RowsOK
<1>2. DOMAIN after = DOMAIN rows
  BY DEF Reclaim
<1>3. ASSUME NEW k \in DOMAIN rows
      PROVE  /\ after[k] \in Request /\ after[k].sent = rows[k].sent
             /\ after[k].entity = rows[k].entity
             /\ after[k].state = rows[k].state \/ after[k].state = "unknown"
             /\ rows[k].state = "superseded" => after[k].state = "superseded"
  <2>1. rows[k] \in Request
    BY <1>1
  <2>2. after[k] = rows[k] \/ (rows[k].state = "dispatching" /\ after[k] = Reclaimed(rows[k]))
    BY DEF Reclaim
  <2> QED
    BY <2>1, <2>2, ReclaimedIsUnknown
<1>4. after \in Seq(Request) /\ Len(after) = Len(rows)
  <2>1. after \in [1 .. Len(rows) -> Request]
    BY <1>1, <1>2, <1>3 DEF Reclaim
  <2> QED
    BY <1>1, <2>1
<1> HIDE DEF after
<1> QED
  BY <1>2, <1>3, <1>4 DEF RowsOK, after

LEMMA BeginCreateKeeps ==
  ASSUME NEW rows, RowsOK(rows), clerk \in Clerks \cup {Nobody}, Begin(rows)
  PROVE  RowsOK(outbox') /\ drain' \in Drains /\ drain'.at # "awaiting" /\ drain'.reply = "none"
<1>1. Idle \in Drains
  BY EntityAssumption DEF Idle, Drains, Replies
<1>2. CASE clerk = Nobody
  <2>1. outbox' = rows /\ drain' = Idle
    BY <1>2 DEF Begin
  <2>2. Idle.at = "idle" /\ Idle.reply = "none"
    BY DEF Idle
  <2> QED
    BY <1>1, <2>1, <2>2
<1>3. CASE clerk # Nobody
  <2>1. outbox' = Reclaim(rows) /\ drain' = [Idle EXCEPT !.at = "loop", !.owner = clerk]
    BY <1>3 DEF Begin
  <2>2. drain' \in Drains /\ drain'.at = "loop" /\ drain'.reply = "none"
    BY <1>1, <1>3, <2>1 DEF Drains, Idle
  <2> QED
    BY <2>1, <2>2, ReclaimKeeps
<1> QED
  BY <1>2, <1>3

(* A kick, and the end of a drain, leave rows and drain as they must be.   *)
LEMMA DrainMoves ==
  ASSUME NEW rows, RowsOK(rows), PeopleOK, UNCHANGED <<made, onWire>>,
         \/ Begin(rows)
         \/ outbox' = rows /\ drain' = Idle
         \/ outbox' = rows /\ drain' = [drain EXCEPT !.rerun = TRUE] /\ DrainOK(rows)
  PROVE  RowsOK(outbox)' /\ DrainOK(outbox)'
<1>1. CASE Begin(rows)
  <2>1. /\ RowsOK(outbox') /\ drain' \in Drains /\ drain'.at # "awaiting"
        /\ drain'.reply = "none"
    BY <1>1, BeginCreateKeeps DEF PeopleOK
  <2> QED
    BY <2>1 DEF RowsOK, DrainOK
<1>2. CASE outbox' = rows /\ drain' = Idle
  <2>1. Idle \in Drains /\ Idle.at = "idle" /\ Idle.reply = "none"
    BY EntityAssumption DEF Idle, Drains, Replies
  <2> QED
    BY <1>2, <2>1 DEF RowsOK, DrainOK
<1>3. CASE outbox' = rows /\ drain' = [drain EXCEPT !.rerun = TRUE] /\ DrainOK(rows)
  <2>1. /\ drain' \in Drains /\ drain'.at = drain.at /\ drain'.reply = drain.reply
        /\ drain'.row = drain.row
    BY <1>3 DEF DrainOK, Drains
  <2> QED
    BY <1>3, <2>1 DEF RowsOK, DrainOK
<1> QED
  BY <1>1, <1>2, <1>3

LEMMA KickKeeps ==
  ASSUME NEW rows, RowsOK(rows), DrainOK(rows), PeopleOK, UNCHANGED <<made, onWire>>, Kick(rows)
  PROVE  RowsOK(outbox)' /\ DrainOK(outbox)'
  BY DrainMoves DEF Kick

LEMMA FinishedKeeps ==
  ASSUME NEW rows, RowsOK(rows), PeopleOK, UNCHANGED <<made, onWire>>, Finished(rows)
  PROVE  RowsOK(outbox)' /\ DrainOK(outbox)'
  BY DrainMoves DEF Finished

(* A request added: it is not sent, and no key of it was answered.         *)
LEMMA AppendKeeps ==
  ASSUME NEW rows, RowsOK(rows), DrainOK(rows), Len(rows) < MaxRequests,
         NEW e \in 1 .. MaxRequests, clerk \in Clerks
  PROVE  RowsOK(Append(rows, Pending(e))) /\ DrainOK(Append(rows, Pending(e)))
<1> DEFINE more == Append(rows, Pending(e))
<1>1. Pending(e) \in Request /\ ~Pending(e).sent /\ Pending(e).state = "pending"
  BY DEF Pending, Request, RequestState
<1>2. rows \in Seq(Request) /\ Len(rows) \in Nat /\ DOMAIN rows = 1 .. Len(rows)
  BY DEF RowsOK
<1>3. /\ more \in Seq(Request) /\ Len(more) = Len(rows) + 1 /\ DOMAIN more = 1 .. Len(rows) + 1
      /\ \A k \in DOMAIN rows : more[k] = rows[k]
      /\ more[Len(rows) + 1] = Pending(e)
  BY <1>1, <1>2
<1>4. Len(rows) + 1 \in (1 .. MaxRequests) \ DOMAIN rows
  BY <1>2, EntityAssumption
<1>5. made[Len(rows) + 1] = "none" /\ Len(rows) + 1 \notin onWire
  BY <1>4 DEF RowsOK
<1> HIDE DEF more
<1>6. DOMAIN more = DOMAIN rows \cup {Len(rows) + 1}
  BY <1>2, <1>3
<1>7. RowsOK(more)
  <2>1. more \in Seq(Request) /\ Len(more) <= MaxRequests /\ onWire \subseteq DOMAIN more
    BY <1>2, <1>3, <1>6, EntityAssumption DEF RowsOK
  <2>2. \A k \in 1 .. MaxRequests : k \notin DOMAIN more => made[k] = "none"
    BY <1>6 DEF RowsOK
  <2>3. \A k \in DOMAIN more :
          /\ ~more[k].sent => made[k] = "none" /\ k \notin onWire
          /\ more[k].state = "superseded" => ~more[k].sent
          /\ more[k].state = "accepted" => made[k] = "created"
          /\ more[k].state = "refused" => made[k] = "refused"
    BY <1>1, <1>3, <1>5, <1>6 DEF RowsOK
  <2>4. \A j, k \in DOMAIN more :
          more[j].entity = more[k].entity /\ made[j] = "created" /\ made[k] = "created" => j = k
    BY <1>3, <1>5, <1>6 DEF RowsOK
  <2> QED
    BY <2>1, <2>2, <2>3, <2>4 DEF RowsOK
<1>8. DrainOK(more)
  BY <1>3, <1>6 DEF DrainOK
<1> QED
  BY <1>7, <1>8 DEF more

(* A row changes: its evidence stays, and its state says no more than the  *)
(* server's answer.                                                        *)
LEMMA RowChanges ==
  ASSUME NEW rows, RowsOK(rows), NEW k \in DOMAIN rows, NEW r \in Request,
         r.entity = rows[k].entity, rows[k].sent => r.sent,
         r.state = "superseded" => ~r.sent,
         r.state = "accepted" => made[k] = "created",
         r.state = "refused" => made[k] = "refused"
  PROVE  RowsOK([rows EXCEPT ![k] = r])
<1> DEFINE after == [rows EXCEPT ![k] = r]
<1>1. rows \in Seq(Request) /\ Len(rows) \in Nat /\ DOMAIN rows = 1 .. Len(rows)
  BY DEF RowsOK
<1>2. after \in Seq(Request) /\ Len(after) = Len(rows)
  <2>1. after \in [1 .. Len(rows) -> Request]
    BY <1>1
  <2> QED
    BY <1>1, <2>1
<1>3. DOMAIN after = DOMAIN rows /\ after[k] = r /\ \A j \in DOMAIN rows : j # k => after[j] = rows[j]
  OBVIOUS
<1> HIDE DEF after
<1>4. \A j \in DOMAIN rows : after[j].entity = rows[j].entity
  BY <1>3
<1> QED
  BY <1>2, <1>3, <1>4 DEF RowsOK, after

-----------------------------------------------------------------------------
LEMMA CreateInitHolds == CreateInit => CreateInv
<1> SUFFICES ASSUME CreateInit PROVE CreateInv
  OBVIOUS
<1>1. RowsOK(outbox)
  BY EntityAssumption DEF CreateInit, RowsOK
<1>2. DrainOK(outbox)
  <2>1. Idle \in Drains /\ Idle.at = "idle" /\ Idle.reply = "none"
    BY EntityAssumption DEF Idle, Drains, Replies
  <2> QED
    BY <2>1 DEF CreateInit, DrainOK
<1>3. PeopleOK
  BY DEF CreateInit, PeopleOK
<1> QED
  BY <1>1, <1>2, <1>3 DEF CreateInv

(* The clerk: records made, handed over, corrected; sessions and link.     *)
LEMMA ClerkKeeps ==
  ASSUME CreateInv,
         \/ CreateRecord \/ SignsOut \/ Bootstraps \/ LinkChanges
         \/ \E u \in Clerks : SignsIn(u) \/ PermissionChanges(u)
         \/ \E k \in DOMAIN outbox : Reassign(k) \/ Resubmit(k)
  PROVE  CreateInv'
<1> USE DEF CreateInv
<1>1. CASE CreateRecord
  <2>1. clerk \in Clerks /\ Len(outbox) + 1 \in 1 .. MaxRequests /\ Len(outbox) < MaxRequests
    BY <1>1, EntityAssumption DEF CreateRecord, MayCreate, Spare, PeopleOK, RowsOK
  <2>2. RowsOK(Append(outbox, Pending(Len(outbox) + 1))) /\ DrainOK(Append(outbox, Pending(Len(outbox) + 1)))
    BY <2>1, AppendKeeps
  <2>3. Kick(Append(outbox, Pending(Len(outbox) + 1))) /\ UNCHANGED <<made, onWire, clerk>>
    BY <1>1 DEF CreateRecord
  <2> QED
    BY <2>2, <2>3, KickKeeps DEF PeopleOK
<1>2. CASE SignsOut \/ \E u \in Clerks : SignsIn(u) \/ PermissionChanges(u)
  BY <1>2 DEF SignsOut, SignsIn, PermissionChanges, PeopleOK, RowsOK, DrainOK
<1>3. CASE Bootstraps
  <2> DEFINE rows == [k \in DOMAIN outbox |-> [outbox[k] EXCEPT
                        !.refreshed = @ \/ outbox[k].state = "blocked_permission"]]
  <2>1. Kick(rows) /\ UNCHANGED <<made, onWire, clerk>>
    BY <1>3 DEF Bootstraps
  <2>2. outbox \in Seq(Request) /\ Len(outbox) \in Nat /\ DOMAIN outbox = 1 .. Len(outbox)
    BY DEF RowsOK
  <2>3. ASSUME NEW k \in DOMAIN outbox
        PROVE  /\ rows[k] \in Request /\ rows[k].sent = outbox[k].sent
               /\ rows[k].state = outbox[k].state /\ rows[k].entity = outbox[k].entity
    <3>1. outbox[k] \in Request
      BY <2>2
    <3> QED
      BY <3>1 DEF Request
  <2>4. DOMAIN rows = DOMAIN outbox
    OBVIOUS
  <2>5. rows \in Seq(Request) /\ Len(rows) = Len(outbox)
    <3>1. rows \in [1 .. Len(outbox) -> Request]
      BY <2>2, <2>3
    <3> QED
      BY <2>2, <3>1
  <2> HIDE DEF rows
  <2>6. RowsOK(rows)
    BY <2>3, <2>4, <2>5 DEF RowsOK
  <2>7. DrainOK(rows)
    BY <2>3, <2>4 DEF DrainOK
  <2> QED
    BY <2>1, <2>6, <2>7, KickKeeps DEF PeopleOK
<1>4. CASE LinkChanges
  <2>1. UNCHANGED <<outbox, drain>> \/ Kick(outbox)
    BY <1>4 DEF LinkChanges
  <2>2. UNCHANGED <<made, onWire, clerk>>
    BY <1>4 DEF LinkChanges
  <2>3. CASE UNCHANGED <<outbox, drain>>
    BY <2>2, <2>3 DEF RowsOK, DrainOK, PeopleOK
  <2> QED
    BY <2>1, <2>2, <2>3, KickKeeps DEF PeopleOK
<1>5. ASSUME NEW k \in DOMAIN outbox, Reassign(k) \/ Resubmit(k) PROVE CreateInv'
  <2>1. PICK r \in Request :
          /\ Kick(Append([outbox EXCEPT ![k] = r], Pending(outbox[k].entity)))
          /\ r.entity = outbox[k].entity /\ r.sent = outbox[k].sent
          /\ \/ r.state = outbox[k].state
             \/ r.state = "superseded" /\ ~r.sent /\ outbox[k].state = "pending"
    <3>1. outbox[k] \in Request
      BY DEF RowsOK
    <3>2. CASE Reassign(k)
      <4>1. [outbox[k] EXCEPT !.state = "superseded"] \in Request
        BY <3>1 DEF Request, RequestState
      <4>2. [outbox EXCEPT ![k] = [outbox[k] EXCEPT !.state = "superseded"]]
              = [outbox EXCEPT ![k].state = "superseded"]
        OBVIOUS
      <4> QED
        BY <3>1, <3>2, <4>1, <4>2 DEF Reassign, Handable, Request
    <3>3. CASE Resubmit(k)
      <4>1. [outbox[k] EXCEPT !.resubmitted = TRUE] \in Request
        BY <3>1 DEF Request
      <4>2. [outbox EXCEPT ![k] = [outbox[k] EXCEPT !.resubmitted = TRUE]]
              = [outbox EXCEPT ![k].resubmitted = TRUE]
        OBVIOUS
      <4> QED
        BY <3>1, <3>3, <4>1, <4>2 DEF Resubmit, Request
    <3> QED
      BY <1>5, <3>2, <3>3
  <2> DEFINE rows == [outbox EXCEPT ![k] = r]
  <2>2. RowsOK(rows)
    BY <2>1, RowChanges DEF RowsOK
  <2>3. DrainOK(rows)
    BY <2>1 DEF DrainOK
  <2>4. /\ clerk \in Clerks /\ Len(outbox) < MaxRequests /\ UNCHANGED <<made, onWire, clerk>>
    BY <1>5 DEF Reassign, Resubmit, MayCreate, Spare, PeopleOK
  <2>5. outbox[k].entity \in 1 .. MaxRequests /\ Len(rows) = Len(outbox)
    <3>1. /\ outbox \in Seq(Request) /\ Len(outbox) \in Nat /\ DOMAIN outbox = 1 .. Len(outbox)
          /\ outbox[k] \in Request
      BY DEF RowsOK
    <3>2. rows \in [1 .. Len(outbox) -> Request]
      BY <3>1
    <3>3. Len(rows) = Len(outbox)
      BY <3>1, <3>2
    <3> QED
      BY <3>1, <3>3 DEF Request
  <2> HIDE DEF rows
  <2>6. RowsOK(Append(rows, Pending(outbox[k].entity))) /\ DrainOK(Append(rows, Pending(outbox[k].entity)))
    BY <2>2, <2>3, <2>4, <2>5, AppendKeeps
  <2> QED
    BY <2>1, <2>4, <2>6, KickKeeps DEF PeopleOK, rows
<1> QED
  BY <1>1, <1>2, <1>3, <1>4, <1>5

-----------------------------------------------------------------------------
(* The worker: what it sends is evidenced first, what it stores is what it *)
(* was told.                                                               *)
LEMMA CreateDispatchKeeps ==
  ASSUME CreateInv, NEW k \in DOMAIN outbox, Dispatch(k)
  PROVE  CreateInv'
<1> DEFINE r == [outbox[k] EXCEPT !.state = "dispatching", !.sent = TRUE, !.aged = FALSE,
                                  !.refreshed = FALSE]
<1>1. /\ outbox \in Seq(Request) /\ outbox[k] \in Request /\ Len(outbox) \in Nat
      /\ DOMAIN outbox = 1 .. Len(outbox) /\ Len(outbox) <= MaxRequests
  BY DEF CreateInv, RowsOK
<1>2. /\ r \in Request /\ r.entity = outbox[k].entity /\ r.sent
      /\ r.state = "dispatching"
  BY <1>1 DEF Request, RequestState
<1>3. outbox' = [outbox EXCEPT ![k] = r]
  BY DEF Dispatch
<1>4. /\ UNCHANGED <<made, clerk>> /\ onWire' = onWire \cup {k}
      /\ drain' = [drain EXCEPT !.at = "awaiting", !.row = k, !.sent = @ \cup {k}]
      /\ drain.at = "loop"
  BY DEF Dispatch, ClaimsNext
<1> HIDE DEF r
<1>5. RowsOK(outbox')
  BY <1>2, <1>3, RowChanges DEF CreateInv
<1>6. /\ DOMAIN outbox' = DOMAIN outbox /\ outbox'[k] = r
  BY <1>3
<1>7. RowsOK(outbox)'
  BY <1>2, <1>4, <1>5, <1>6 DEF RowsOK, CreateInv
<1>8. k \in 1 .. MaxRequests
  BY <1>1, EntityAssumption
<1>9. /\ drain \in Drains /\ drain.reply = "none"
  BY <1>4 DEF CreateInv, DrainOK
<1>10. /\ drain' \in Drains /\ drain'.reply = "none" /\ drain'.row = k
  <2>1. k \in 0 .. MaxRequests /\ drain.sent \cup {k} \in SUBSET (1 .. MaxRequests)
    BY <1>8, <1>9 DEF Drains
  <2> QED
    BY <1>4, <1>9, <2>1 DEF Drains
<1>11. DrainOK(outbox)'
  BY <1>2, <1>6, <1>10 DEF DrainOK
<1> QED
  BY <1>4, <1>7, <1>11 DEF CreateInv, PeopleOK

LEMMA HandBackKeeps ==
  ASSUME CreateInv, NEW k \in DOMAIN outbox, HandBack(k)
  PROVE  CreateInv'
<1> DEFINE r == [outbox[k] EXCEPT !.state = "unknown", !.due = FALSE, !.sent = TRUE]
<1>1. outbox[k] \in Request
  BY DEF CreateInv, RowsOK
<1>2. r \in Request /\ r.entity = outbox[k].entity /\ r.sent /\ r.state = "unknown"
  BY <1>1 DEF Request, RequestState
<1>3. Finished([outbox EXCEPT ![k] = r]) /\ UNCHANGED <<made, onWire, clerk>>
  BY DEF HandBack
<1> HIDE DEF r
<1>4. RowsOK([outbox EXCEPT ![k] = r])
  BY <1>2, RowChanges DEF CreateInv
<1>5. RowsOK(outbox)' /\ DrainOK(outbox)'
  BY <1>3, <1>4, FinishedKeeps DEF CreateInv
<1> QED
  BY <1>3, <1>5 DEF CreateInv, PeopleOK

LEMMA SettleKeeps ==
  ASSUME CreateInv, Settle
  PROVE  CreateInv'
<1> DEFINE k == drain.row
           r == [outbox[k] EXCEPT !.state = Outcome(drain.reply), !.due = FALSE]
           rows == [outbox EXCEPT ![k] = r]
<1>1. /\ drain \in Drains /\ k \in DOMAIN outbox /\ outbox[k].sent
      /\ drain.reply = "accepted" => made[k] = "created"
      /\ drain.reply = "refused" => made[k] = "refused"
  BY DEF Settle, CreateInv, DrainOK
<1>2. outbox[k] \in Request
  BY <1>1 DEF CreateInv, RowsOK
<1>3. /\ Outcome(drain.reply) \in {"accepted", "refused", "blocked_permission", "unknown"}
      /\ Outcome(drain.reply) \in {"accepted", "refused"} => Outcome(drain.reply) = drain.reply
  <2>1. drain.reply \in Replies /\ drain.reply # "none"
    BY <1>1 DEF Drains, Settle
  <2> QED
    BY <2>1 DEF Outcome, Replies
<1>4. /\ r \in Request /\ r.entity = outbox[k].entity /\ r.sent = outbox[k].sent
      /\ r.state = Outcome(drain.reply)
  BY <1>2, <1>3 DEF Request, RequestState
<1>5. rows = [outbox EXCEPT ![drain.row].state = Outcome(drain.reply), ![drain.row].due = FALSE]
  OBVIOUS
<1>6. UNCHANGED <<made, onWire, clerk>>
  BY DEF Settle
<1>7. \/ Finished(rows)
      \/ outbox' = rows /\ drain' = [drain EXCEPT !.at = "loop", !.row = 0, !.reply = "none"]
  BY <1>5 DEF Settle
<1> HIDE DEF r
<1>8. RowsOK(rows)
  BY <1>1, <1>3, <1>4, RowChanges DEF CreateInv
<1>9. RowsOK(outbox)' /\ DrainOK(outbox)'
  <2>1. CASE Finished(rows)
    BY <1>6, <1>8, <2>1, FinishedKeeps DEF CreateInv
  <2>2. CASE outbox' = rows /\ drain' = [drain EXCEPT !.at = "loop", !.row = 0, !.reply = "none"]
    <3>1. 0 \in 0 .. MaxRequests /\ "none" \in Replies
      BY EntityAssumption DEF Replies
    <3>2. drain' \in Drains /\ drain'.at = "loop" /\ drain'.reply = "none"
      BY <1>1, <2>2, <3>1 DEF Drains
    <3> QED
      BY <1>6, <1>8, <2>2, <3>2 DEF RowsOK, DrainOK
  <2> QED
    BY <1>7, <2>1, <2>2
<1> QED
  BY <1>6, <1>9 DEF CreateInv, PeopleOK

(* The end of a drain, a failed write, a timer, a crash and a start.       *)
LEMMA WorkerKeeps ==
  ASSUME CreateInv, DrainEnds \/ SettleFails \/ RetryTimerFires \/ StartupKick \/ RegisterCrashes
  PROVE  CreateInv'
<1>1. /\ RowsOK(outbox) /\ DrainOK(outbox) /\ PeopleOK
  BY DEF CreateInv
<1>2. CASE DrainEnds \/ SettleFails
  <2>1. Finished(outbox) /\ UNCHANGED <<made, onWire, clerk>>
    BY <1>2 DEF DrainEnds, SettleFails
  <2> QED
    BY <1>1, <2>1, FinishedKeeps DEF CreateInv, PeopleOK
<1>3. CASE RetryTimerFires \/ StartupKick
  <2>1. Kick(outbox) /\ UNCHANGED <<made, onWire, clerk>>
    BY <1>3 DEF RetryTimerFires, StartupKick
  <2> QED
    BY <1>1, <2>1, KickKeeps DEF CreateInv, PeopleOK
<1>4. CASE RegisterCrashes
  <2>1. outbox' = outbox /\ drain' = Idle /\ UNCHANGED <<made, onWire>>
    BY <1>4 DEF RegisterCrashes
  <2>2. clerk' \in Clerks \cup {Nobody}
    BY <1>1, <1>4 DEF RegisterCrashes, PeopleOK
  <2> QED
    BY <1>1, <2>1, <2>2, DrainMoves DEF CreateInv, PeopleOK
<1> QED
  BY <1>2, <1>3, <1>4

(* Time moves a retry or an expiry, and no evidence.                       *)
LEMMA TimeKeeps ==
  ASSUME CreateInv, NEW k \in DOMAIN outbox, TimePassesFor(k)
  PROVE  CreateInv'
<1>1. outbox \in Seq(Request) /\ outbox[k] \in Request
  BY DEF CreateInv, RowsOK
<1>2. PICK r \in Request :
        /\ outbox' = [outbox EXCEPT ![k] = r]
        /\ r.entity = outbox[k].entity /\ r.sent = outbox[k].sent /\ r.state = outbox[k].state
  <2>1. CASE outbox' = [outbox EXCEPT ![k].due = TRUE]
    <3>1. [outbox[k] EXCEPT !.due = TRUE] \in Request
      BY <1>1 DEF Request
    <3> QED
      BY <1>1, <2>1, <3>1 DEF Request
  <2>2. CASE outbox' = [outbox EXCEPT ![k].aged = TRUE]
    <3>1. [outbox[k] EXCEPT !.aged = TRUE] \in Request
      BY <1>1 DEF Request
    <3> QED
      BY <1>1, <2>2, <3>1 DEF Request
  <2> QED
    BY <2>1, <2>2 DEF TimePassesFor
<1>3. UNCHANGED <<made, onWire, drain, clerk>>
  BY DEF TimePassesFor
<1>4. RowsOK(outbox')
  BY <1>2, RowChanges DEF CreateInv, RowsOK
<1>5. /\ DOMAIN outbox' = DOMAIN outbox
      /\ \A j \in DOMAIN outbox : outbox'[j].state = outbox[j].state /\ outbox'[j].sent = outbox[j].sent
  BY <1>2
<1>6. RowsOK(outbox)' /\ DrainOK(outbox)'
  BY <1>3, <1>4, <1>5 DEF CreateInv, RowsOK, DrainOK
<1> QED
  BY <1>3, <1>6 DEF CreateInv, PeopleOK

-----------------------------------------------------------------------------
(* The server: an answer given for good agrees with what was stored before *)
(* and reaches the drain that waits for this very row, or nobody.          *)
LEMMA TellKeeps ==
  ASSUME CreateInv, NEW k, NEW reply \in Replies, Tell(k, reply), UNCHANGED outbox,
         \A j \in DOMAIN outbox : made[j] # "none" => made'[j] = made[j],
         reply = "accepted" => made'[k] = "created",
         reply = "refused" => made'[k] = "refused"
  PROVE  DrainOK(outbox)'
<1>1. drain \in Drains /\ DrainOK(outbox)
  BY DEF CreateInv, DrainOK
<1>2. CASE drain.at = "awaiting" /\ drain.row = k
  <2>1. drain' = [drain EXCEPT !.reply = reply]
    BY <1>2 DEF Tell
  <2>2. /\ drain' \in Drains /\ drain'.at = drain.at /\ drain'.row = k /\ drain'.reply = reply
    BY <1>1, <1>2, <2>1 DEF Drains
  <2> QED
    BY <1>1, <1>2, <2>2 DEF DrainOK
<1>3. CASE ~(drain.at = "awaiting" /\ drain.row = k)
  <2>1. drain' = drain
    BY <1>3 DEF Tell
  <2> QED
    BY <1>1, <2>1 DEF DrainOK
<1> QED
  BY <1>2, <1>3

(* What the server stores it stores for a request that was sent, under an  *)
(* entity no other request created.                                        *)
LEMMA CreateServerKeeps ==
  ASSUME CreateInv, NEW k \in DOMAIN outbox, k \in onWire, NEW v \in {"created", "refused"},
         made[k] = "none", made' = [made EXCEPT ![k] = v], v = "created" => ~Taken(k),
         UNCHANGED outbox, onWire' = onWire \ {k}
  PROVE  RowsOK(outbox)' /\ made' \in [1 .. MaxRequests -> {"none", "created", "refused"}]
<1>1. /\ RowsOK(outbox) /\ made \in [1 .. MaxRequests -> {"none", "created", "refused"}]
      /\ k \in 1 .. MaxRequests
  BY EntityAssumption DEF CreateInv, PeopleOK, RowsOK
<1>2. /\ made' \in [1 .. MaxRequests -> {"none", "created", "refused"}] /\ made'[k] = v
      /\ \A j \in 1 .. MaxRequests : j # k => made'[j] = made[j]
  BY <1>1
<1>3. DOMAIN outbox \subseteq 1 .. MaxRequests
  BY <1>1, EntityAssumption DEF RowsOK
<1>4. outbox[k].sent /\ outbox[k].state \notin {"accepted", "refused"}
  BY <1>1 DEF RowsOK
<1>5. \A j \in DOMAIN outbox :
        /\ ~outbox[j].sent => made'[j] = "none" /\ j \notin onWire'
        /\ outbox[j].state = "superseded" => ~outbox[j].sent
        /\ outbox[j].state = "accepted" => made'[j] = "created"
        /\ outbox[j].state = "refused" => made'[j] = "refused"
  BY <1>1, <1>2, <1>3, <1>4 DEF RowsOK
<1>6. \A i, j \in DOMAIN outbox :
        outbox[i].entity = outbox[j].entity /\ made'[i] = "created" /\ made'[j] = "created" => i = j
  BY <1>1, <1>2, <1>3 DEF RowsOK, Taken
<1>7. /\ outbox' \in Seq(Request) /\ Len(outbox') <= MaxRequests
      /\ onWire' \subseteq DOMAIN outbox'
      /\ \A j \in 1 .. MaxRequests : j \notin DOMAIN outbox' => made'[j] = "none"
  BY <1>1, <1>2 DEF RowsOK
<1> QED
  BY <1>2, <1>5, <1>6, <1>7 DEF RowsOK

LEMMA CreateAnswersKeep ==
  ASSUME CreateInv, NEW k \in DOMAIN outbox, ServerCreates(k) \/ ServerDeclines(k)
  PROVE  CreateInv'
<1>1. /\ k \in onWire /\ onWire' = onWire \ {k} /\ UNCHANGED <<outbox, clerk>>
  BY DEF ServerCreates, ServerDeclines
<1>2. /\ RowsOK(outbox) /\ PeopleOK /\ k \in DOMAIN made
  BY EntityAssumption DEF CreateInv, PeopleOK, RowsOK
<1>3. PICK reply \in Replies :
        /\ Tell(k, reply)
        /\ reply = "accepted" => made'[k] = "created"
        /\ reply = "refused" => made'[k] = "refused"
  BY <1>2 DEF ServerCreates, ServerDeclines, Replies, PeopleOK
<1>4. \/ made' = made
      \/ \E v \in {"created", "refused"} :
           made[k] = "none" /\ made' = [made EXCEPT ![k] = v] /\ (v = "created" => ~Taken(k))
  BY DEF ServerCreates, ServerDeclines
<1>5. RowsOK(outbox)' /\ made' \in [1 .. MaxRequests -> {"none", "created", "refused"}]
  <2>1. CASE made' = made
    BY <1>1, <1>2, <2>1 DEF RowsOK, PeopleOK
  <2>2. CASE made' # made
    <3>1. PICK v \in {"created", "refused"} :
            made[k] = "none" /\ made' = [made EXCEPT ![k] = v] /\ (v = "created" => ~Taken(k))
      BY <1>4, <2>2
    <3> QED
      BY <1>1, <3>1, CreateServerKeeps
  <2> QED
    BY <2>1, <2>2
<1>6. \A j \in DOMAIN outbox : made[j] # "none" => made'[j] = made[j]
  <2>1. DOMAIN outbox \subseteq 1 .. MaxRequests /\ DOMAIN made = 1 .. MaxRequests
    BY <1>2, EntityAssumption DEF RowsOK, PeopleOK
  <2> QED
    BY <1>4, <2>1
<1>7. DrainOK(outbox)'
  BY <1>1, <1>3, <1>6, TellKeeps
<1> QED
  BY <1>1, <1>2, <1>5, <1>7 DEF CreateInv, PeopleOK

LEMMA SilenceKeeps ==
  ASSUME CreateInv, DispatchTimesOut \/ \E k \in DOMAIN outbox : RequestLost(k)
  PROVE  CreateInv'
<1>1. /\ UNCHANGED <<outbox, made, clerk>> /\ onWire' \subseteq onWire
  BY DEF DispatchTimesOut, RequestLost
<1>2. PICK k : \E reply \in {"unknown", "401"} : Tell(k, reply)
  BY DEF DispatchTimesOut, RequestLost
<1>3. DrainOK(outbox)'
  BY <1>1, <1>2, TellKeeps DEF Replies
<1>4. RowsOK(outbox)'
  BY <1>1 DEF CreateInv, RowsOK
<1> QED
  BY <1>1, <1>3, <1>4 DEF CreateInv, PeopleOK

LEMMA CreateStepKeeps == CreateInv /\ [CreateNext]_createVars => CreateInv'
<1> SUFFICES ASSUME CreateInv, [CreateNext]_createVars PROVE CreateInv'
  OBVIOUS
<1>1. CASE \/ CreateRecord \/ SignsOut \/ Bootstraps \/ LinkChanges
           \/ \E u \in Clerks : SignsIn(u) \/ PermissionChanges(u)
           \/ \E k \in DOMAIN outbox : Reassign(k) \/ Resubmit(k)
  BY <1>1, ClerkKeeps
<1>2. CASE DrainStep
  <2>1. CASE Settle \/ DrainEnds
    BY <2>1, SettleKeeps, WorkerKeeps
  <2>2. CASE \E k \in DOMAIN outbox : Dispatch(k) \/ HandBack(k)
    BY <2>2, CreateDispatchKeeps, HandBackKeeps
  <2> QED
    BY <1>2, <2>1, <2>2 DEF DrainStep
<1>3. CASE WireStep \/ RetryDue
  BY <1>3, CreateAnswersKeep, TimeKeeps DEF WireStep, RetryDue
<1>4. CASE RetryTimerFires \/ SettleFails \/ RegisterCrashes \/ StartupKick
  BY <1>4, WorkerKeeps
<1>5. CASE DispatchTimesOut \/ \E k \in DOMAIN outbox : RequestLost(k)
  BY <1>5, SilenceKeeps
<1>6. CASE UNCHANGED createVars
  BY <1>6 DEF createVars, CreateInv, RowsOK, DrainOK, PeopleOK
<1> QED
  BY <1>1, <1>2, <1>3, <1>4, <1>5, <1>6 DEF CreateNext

(* The rows agree with the server and the drain with the row it awaits, in *)
(* every reachable state.                                                  *)
THEOREM CreateInvariant == CreateSpec => []CreateInv
<1>1. CreateInit => CreateInv
  BY CreateInitHolds
<1>2. CreateInv /\ [CreateNext]_createVars => CreateInv'
  BY CreateStepKeeps
<1> QED
  BY <1>1, <1>2, PTL DEF CreateSpec

(* A request handed over to another user was never sent and never will be. *)
THEOREM HandedOverIsUnsent == CreateSpec => []HandedOverUnsent
<1>1. CreateInv => HandedOverUnsent
  BY DEF CreateInv, RowsOK, HandedOverUnsent
<1> QED
  BY <1>1, CreateInvariant, PTL

(* What the till takes for settled is what the server holds, and no entity *)
(* is created by two requests.                                             *)
THEOREM SettledIsHeld == CreateSpec => []SettledAgrees
<1>1. CreateInv => SettledAgrees
  BY DEF CreateInv, RowsOK, SettledAgrees
<1> QED
  BY <1>1, CreateInvariant, PTL

(* Types of the clerk's side, of which the rows say nothing.               *)
ClerkTypes ==
  /\ permits \in SUBSET Clerks
  /\ permissions \in [of : Clerks \cup {Nobody}, create : BOOLEAN]
  /\ linked \in BOOLEAN /\ interrupted \in BOOLEAN /\ retryTimer \in BOOLEAN
  /\ mishaps \in 0 .. MaxMishaps

LEMMA ClerkTypesKeep ==
  ASSUME CreateInv, ClerkTypes, [CreateNext]_createVars
  PROVE  ClerkTypes'
<1>1. /\ permits \in SUBSET Clerks
      /\ permissions \in [of : Clerks \cup {Nobody}, create : BOOLEAN]
      /\ linked \in BOOLEAN /\ interrupted \in BOOLEAN /\ retryTimer \in BOOLEAN
      /\ mishaps \in 0 .. MaxMishaps
  BY DEF ClerkTypes
<1>2. Mishap => mishaps' \in 0 .. MaxMishaps
  BY <1>1, EntityAssumption DEF Mishap
<1>3. \A rows : Begin(rows) => interrupted' \in BOOLEAN
  BY <1>1 DEF Begin
<1>4. \A rows : (Kick(rows) \/ Finished(rows)) => interrupted' \in BOOLEAN
  BY <1>1, <1>3 DEF Kick, Finished
<1>5. \A rows : Rearm(rows) => retryTimer' \in BOOLEAN
  BY DEF Rearm
<1>6. CASE CreateRecord
  BY <1>1, <1>4, <1>6 DEF CreateRecord, ClerkTypes
<1>7. CASE SignsOut
  BY <1>1, <1>2, <1>7 DEF SignsOut, ClerkTypes
<1>8. CASE Bootstraps
  <2>1. permissions' \in [of : Clerks \cup {Nobody}, create : BOOLEAN]
    BY <1>8 DEF Bootstraps, CreateInv, PeopleOK
  <2>2. interrupted' \in BOOLEAN
    BY <1>4, <1>8 DEF Bootstraps
  <2> QED
    BY <1>1, <1>8, <2>1, <2>2 DEF Bootstraps, ClerkTypes
<1>9. CASE LinkChanges
  <2>1. UNCHANGED <<permits, permissions, retryTimer>> /\ linked' \in BOOLEAN
    BY <1>9 DEF LinkChanges
  <2>2. interrupted' \in BOOLEAN
    BY <1>1, <1>4, <1>9 DEF LinkChanges
  <2>3. mishaps' \in 0 .. MaxMishaps
    BY <1>1, <1>2, <1>9 DEF LinkChanges
  <2> QED
    BY <1>1, <2>1, <2>2, <2>3 DEF ClerkTypes
<1>10. CASE DrainStep
  <2>1. CASE Settle
    <3>1. UNCHANGED <<permits, permissions, linked, mishaps>>
      BY <2>1 DEF Settle
    <3>2. interrupted' \in BOOLEAN /\ retryTimer' \in BOOLEAN
      BY <1>1, <1>4, <1>5, <2>1 DEF Settle
    <3> QED
      BY <1>1, <3>1, <3>2 DEF ClerkTypes
  <2>2. CASE DrainEnds
    BY <1>1, <1>4, <1>5, <2>2 DEF DrainEnds, ClerkTypes
  <2>3. ASSUME NEW k \in DOMAIN outbox, Dispatch(k) PROVE ClerkTypes'
    BY <1>1, <2>3 DEF Dispatch, ClerkTypes
  <2>4. ASSUME NEW k \in DOMAIN outbox, HandBack(k) PROVE ClerkTypes'
    BY <1>1, <1>4, <1>5, <2>4 DEF HandBack, ClerkTypes
  <2> QED
    BY <1>10, <2>1, <2>2, <2>3, <2>4 DEF DrainStep
<1>11. CASE WireStep
  <2>1. ASSUME NEW k \in DOMAIN outbox, ServerCreates(k) PROVE ClerkTypes'
    BY <1>1, <1>2, <2>1 DEF ServerCreates, ClerkTypes
  <2>2. ASSUME NEW k \in DOMAIN outbox, ServerDeclines(k) PROVE ClerkTypes'
    BY <1>1, <2>2 DEF ServerDeclines, ClerkTypes
  <2> QED
    BY <1>11, <2>1, <2>2 DEF WireStep
<1>12. CASE RetryTimerFires
  BY <1>1, <1>4, <1>12 DEF RetryTimerFires, ClerkTypes
<1>13. CASE RetryDue
  BY <1>1, <1>13 DEF RetryDue, TimePassesFor, ClerkTypes
<1>14. CASE SettleFails
  BY <1>1, <1>2, <1>4, <1>14 DEF SettleFails, ClerkTypes
<1>15. CASE RegisterCrashes
  BY <1>1, <1>2, <1>15 DEF RegisterCrashes, ClerkTypes
<1>16. CASE StartupKick
  BY <1>1, <1>4, <1>16 DEF StartupKick, ClerkTypes
<1>17. CASE DispatchTimesOut
  BY <1>1, <1>2, <1>17 DEF DispatchTimesOut, ClerkTypes
<1>18. ASSUME NEW u \in Clerks, SignsIn(u) \/ PermissionChanges(u) PROVE ClerkTypes'
  BY <1>1, <1>2, <1>18 DEF SignsIn, PermissionChanges, ClerkTypes
<1>19. ASSUME NEW k \in DOMAIN outbox, Reassign(k) \/ Resubmit(k) \/ RequestLost(k)
       PROVE  ClerkTypes'
  BY <1>1, <1>2, <1>4, <1>19 DEF Reassign, Resubmit, RequestLost, ClerkTypes
<1>20. CASE UNCHANGED createVars
  BY <1>1, <1>20 DEF createVars, ClerkTypes
<1> QED
  BY <1>6, <1>7, <1>8, <1>9, <1>10, <1>11, <1>12, <1>13, <1>14, <1>15, <1>16, <1>17, <1>18,
     <1>19, <1>20 DEF CreateNext

(* The types of the outbox, of its CHECK constraints and of the drain, for *)
(* any clerks, requests and mishaps.                                       *)
THEOREM CreateTypes == CreateSpec => []CreateTypeOK
<1>1. CreateInit => ClerkTypes
  <2> SUFFICES ASSUME CreateInit PROVE ClerkTypes
    OBVIOUS
  <2>1. permits \in SUBSET Clerks /\ permissions \in [of : Clerks \cup {Nobody}, create : BOOLEAN]
    BY DEF CreateInit
  <2>2. linked \in BOOLEAN /\ interrupted \in BOOLEAN /\ retryTimer \in BOOLEAN
    BY DEF CreateInit
  <2>3. mishaps \in 0 .. MaxMishaps
    BY EntityAssumption DEF CreateInit
  <2> QED
    BY <2>1, <2>2, <2>3 DEF ClerkTypes
<1>2. CreateInv /\ ClerkTypes /\ [CreateNext]_createVars => ClerkTypes'
  BY ClerkTypesKeep
<1>3. CreateInv /\ ClerkTypes => CreateTypeOK
  <2> SUFFICES ASSUME CreateInv, ClerkTypes PROVE CreateTypeOK
    OBVIOUS
  <2>1. onWire \in SUBSET (1 .. MaxRequests)
    <3>1. Len(outbox) \in Nat /\ Len(outbox) <= MaxRequests /\ DOMAIN outbox = 1 .. Len(outbox)
      BY DEF CreateInv, RowsOK
    <3>2. onWire \subseteq DOMAIN outbox
      BY DEF CreateInv, RowsOK
    <3> QED
      BY <3>1, <3>2, EntityAssumption
  <2> QED
    BY <2>1 DEF CreateTypeOK, CreateInv, RowsOK, DrainOK, PeopleOK, ClerkTypes, Drains, Replies
<1> QED
  BY <1>1, <1>2, <1>3, CreateInvariant, PTL DEF CreateSpec

-----------------------------------------------------------------------------
-----------------------------------------------------------------------------
(* Printing.                                                               *)

Sent == {"dispatching", "outcome_unknown"}
Live == Reserving \cup Sent \cup {"submitted"}

Job == [status : {"none"} \cup Reserving \cup Final, doc : Paper, epoch : 0 .. MaxJams + 1]

\* The parts of the type invariant.
DeskTypes ==
  /\ cashier \in Caller /\ cashier.epoch <= jams + 1 /\ jams \in 0 .. MaxJams
  /\ intents \in [Sold -> [by : 0 .. 2, outcome : {"none", "pending", "admitted", "declined"}]]
  /\ admission \in [on : BOOLEAN, took : SUBSET Sold, caller : Caller, again : BOOLEAN,
                    due : BOOLEAN]
JournalTypes ==
  /\ journal \in [PrintRequest -> Job]
  /\ \A r \in PrintRequest : journal[r].status # "none" => journal[r].doc.sale \in Sold
WindowTypes ==
  /\ workStage \in {"next", "printers", "render", "qr", "fence", "print"}
  /\ onWindow \in Paper

(* A sale's receipt is asked for automatically once, by hand while there   *)
(* is room: the chain never gets longer than this.                         *)
ByItself == {s \in Sold : journal[<<"auto", s>>].status # "none"}
LineTypes ==
  /\ line \in Seq(Work) /\ Len(line) <= MaxLine + Cardinality(ByItself)
  /\ \A i \in 1 .. Len(line) :
       line[i].doc.sale \in Sold /\ (line[i].do # "preview" => line[i].req \in PrintRequest)

(* The work at the window is a job, and the document on the window is its. *)
WorkTrue ==
  workStage # "next" =>
    /\ line # <<>> /\ Req1 \in PrintRequest /\ journal[Req1].status # "none"
    /\ workStage # "printers" => onWindow = journal[Req1].doc

(* Of a sale at most one job that is under way or may have printed carries *)
(* no mark.                                                                *)
UnmarkedOnce ==
  \A q \in PrintRequest, r \in PrintRequest :
    /\ q # r /\ journal[q].status \in Live /\ journal[r].status \in Live
    /\ ~journal[q].doc.reprint /\ ~journal[r].doc.reprint
    => journal[q].doc.sale # journal[r].doc.sale

(* A receipt that came out without a mark belongs to a job that remembers. *)
OriginalsHaveJobs ==
  \A s \in Sold :
    /\ originals[s] \in {0, 1}
    /\ originals[s] = 1 => \E r \in PrintRequest :
                             /\ journal[r].doc.sale = s /\ ~journal[r].doc.reprint
                             /\ journal[r].status \in Sent \cup {"submitted"}

(* A print call without an answer is that of its job, and counted.         *)
CallsTrue ==
  \A c \in printCalls :
    /\ c.req \in PrintRequest /\ c.doc = journal[c.req].doc /\ journal[c.req].status \in Sent
    /\ ~c.doc.reprint => originals[c.doc.sale] = 1

Papers == /\ printCalls \subseteq [req : PrintRequest, doc : Paper]
          /\ originals \in [Sold -> Int] /\ UnmarkedOnce /\ OriginalsHaveJobs /\ CallsTrue

PrintInv == DeskTypes /\ JournalTypes /\ WindowTypes /\ LineTypes /\ WorkTrue /\ Papers

-----------------------------------------------------------------------------
(* The journal in a step.                                                  *)

(* Jobs move on: none is claimed, none that is over comes back, none that  *)
(* may have printed is forgotten.                                          *)
JobsMove ==
  /\ journal' \in [PrintRequest -> Job]
  /\ \A r \in PrintRequest :
       /\ journal'[r].doc = journal[r].doc
       /\ journal'[r].status = "none" <=> journal[r].status = "none"
       /\ journal'[r].status \in Live => journal[r].status \in Live
       /\ journal[r].status = "submitted" => journal'[r].status = "submitted"
       /\ journal[r].status \in Sent => journal'[r].status \in Sent

LEMMA MarkedStays ==
  ASSUME JournalTypes, NEW r \in PrintRequest, NEW from, NEW to, MarkJob(r, from, to),
         \/ from \subseteq {"queued", "preparing"}
            /\ to \in {"preparing", "cancelled", "failed_before_dispatch"}
         \/ from \subseteq {"dispatching"} /\ to = "outcome_unknown"
  PROVE  JobsMove
<1>1. /\ journal \in [PrintRequest -> Job] /\ journal[r] \in Job
      /\ to \in {"none"} \cup Reserving \cup Final /\ to # "none" /\ "none" \notin from
  BY DEF JournalTypes, Final, Reserving
<1>2. CASE journal[r].status \notin from
  BY <1>1, <1>2 DEF MarkJob, JobsMove
<1>3. CASE journal[r].status \in from
  <2>1. journal' = [journal EXCEPT ![r].status = to]
    BY <1>3 DEF MarkJob
  <2>2. [journal[r] EXCEPT !.status = to] \in Job
    BY <1>1 DEF Job
  <2>3. /\ journal' \in [PrintRequest -> Job] /\ journal'[r].status = to
        /\ journal'[r].doc = journal[r].doc
        /\ \A q \in PrintRequest : q # r => journal'[q] = journal[q]
    BY <1>1, <2>1, <2>2 DEF Job
  <2> QED
    BY <1>3, <2>3 DEF JobsMove, Live, Sent, Reserving
<1> QED
  BY <1>2, <1>3

LEMMA MovesKeepTypes ==
  ASSUME JournalTypes, JobsMove
  PROVE  JournalTypes' /\ ByItself' = ByItself
<1>1. JournalTypes'
  BY DEF JournalTypes, JobsMove
<1>2. \A s \in Sold : <<"auto", s>> \in PrintRequest
  BY DEF PrintRequest
<1> QED
  BY <1>1, <1>2 DEF JobsMove, ByItself

LEMMA MovesKeepPapers ==
  ASSUME Papers, JobsMove, originals' = originals, printCalls' \subseteq printCalls
  PROVE  Papers'
<1>1. UnmarkedOnce'
  BY DEF Papers, JobsMove, UnmarkedOnce
<1>2. OriginalsHaveJobs'
  <2> SUFFICES ASSUME NEW s \in Sold
               PROVE  /\ originals[s] \in {0, 1}
                      /\ originals[s] = 1 => \E r \in PrintRequest :
                           /\ journal'[r].doc.sale = s /\ ~journal'[r].doc.reprint
                           /\ journal'[r].status \in Sent \cup {"submitted"}
    BY DEF OriginalsHaveJobs
  <2>1. CASE originals[s] = 1
    <3>1. PICK r \in PrintRequest : /\ journal[r].doc.sale = s /\ ~journal[r].doc.reprint
                                    /\ journal[r].status \in Sent \cup {"submitted"}
      BY <2>1 DEF Papers, OriginalsHaveJobs
    <3> QED
      BY <2>1, <3>1 DEF JobsMove
  <2> QED
    BY <2>1 DEF Papers, OriginalsHaveJobs
<1>3. CallsTrue'
  BY DEF Papers, JobsMove, CallsTrue
<1> QED
  BY <1>1, <1>2, <1>3 DEF Papers

(* Claims: of sales with no job under way, of each at most one.            *)
LEMMA ClaimsKeepPapers ==
  ASSUME JournalTypes, Papers, UNCHANGED <<originals, printCalls>>,
         journal' \in [PrintRequest -> Job],
         NEW R \in SUBSET PrintRequest,
         \A r \in PrintRequest \ R : journal'[r] = journal[r],
         \A r \in R : /\ journal[r].status = "none" /\ journal'[r].status \in {"queued", "preparing"}
                      /\ journal'[r].doc = DocumentOf(journal'[r].doc.sale)
                      /\ journal'[r].doc.sale \in Sold /\ ~Reserved(journal'[r].doc.sale),
         \A q \in R, r \in R : q # r => journal'[q].doc.sale # journal'[r].doc.sale
  PROVE  JournalTypes' /\ Papers'
<1>1. JournalTypes'
  BY DEF JournalTypes
<1>2. UnmarkedOnce'
  <2>1. ASSUME NEW q \in R, NEW r \in PrintRequest \ R, ~journal'[q].doc.reprint,
               journal[r].status \in Live, journal[r].doc.sale = journal'[q].doc.sale
        PROVE  FALSE
    <3> DEFINE s == journal'[q].doc.sale
    <3>1. r \in JobsOf(s)
      BY <2>1 DEF JobsOf
    <3>2. ~PrintedBefore(s)
      <4>1. journal'[q].doc = [sale |-> s, reprint |-> PrintedBefore(s)]
        BY DEF DocumentOf
      <4> HIDE DEF s
      <4>2. journal'[q].doc.reprint = PrintedBefore(s)
        BY <4>1
      <4> QED
        BY <2>1, <4>2
    <3>3. journal[r].status \notin {"submitted", "outcome_unknown"}
      BY <3>1, <3>2 DEF PrintedBefore
    <3>4. journal[r].status \notin Reserving
      BY <3>1 DEF Reserved
    <3> QED
      BY <2>1, <3>3, <3>4 DEF Live, Sent, Reserving
  <2>2. SUFFICES ASSUME NEW q \in PrintRequest, NEW r \in PrintRequest, q # r,
                        journal'[q].status \in Live, journal'[r].status \in Live,
                        ~journal'[q].doc.reprint, ~journal'[r].doc.reprint,
                        journal'[q].doc.sale = journal'[r].doc.sale
                 PROVE  FALSE
    BY DEF UnmarkedOnce
  <2>3. CASE q \in R /\ r \in R
    BY <2>2, <2>3
  <2>4. CASE q \in R /\ r \notin R
    BY <2>1, <2>2, <2>4
  <2>5. CASE q \notin R /\ r \in R
    BY <2>1, <2>2, <2>5
  <2>6. CASE q \notin R /\ r \notin R
    BY <2>2, <2>6 DEF Papers, UnmarkedOnce
  <2> QED
    BY <2>3, <2>4, <2>5, <2>6
<1>3. \A r \in PrintRequest : journal[r].status # "none" => r \notin R /\ journal'[r] = journal[r]
  OBVIOUS
<1>4. OriginalsHaveJobs'
  <2> SUFFICES ASSUME NEW s \in Sold, originals[s] = 1
               PROVE  \E r \in PrintRequest :
                           /\ journal'[r].doc.sale = s /\ ~journal'[r].doc.reprint
                           /\ journal'[r].status \in Sent \cup {"submitted"}
    BY DEF OriginalsHaveJobs, Papers
  <2>1. PICK r \in PrintRequest : /\ journal[r].doc.sale = s /\ ~journal[r].doc.reprint
                                  /\ journal[r].status \in Sent \cup {"submitted"}
    BY DEF Papers, OriginalsHaveJobs
  <2> QED
    BY <1>3, <2>1 DEF Sent
<1>5. CallsTrue'
  BY <1>3 DEF Papers, CallsTrue, Sent
<1> QED
  BY <1>1, <1>2, <1>4, <1>5 DEF Papers

-----------------------------------------------------------------------------
(* The chain.                                                              *)

LEMMA AutoRequests == \A s \in Sold : <<"auto", s>> \in PrintRequest
BY DEF PrintRequest

LEMMA ByItselfFinite ==
  /\ IsFiniteSet(Sold) /\ IsFiniteSet(ByItself) /\ Cardinality(ByItself) \in 0 .. MaxSold
  /\ IsFiniteSet(ByItself') /\ Cardinality(ByItself') \in 0 .. MaxSold
<1>1. IsFiniteSet(Sold) /\ Cardinality(Sold) = MaxSold
  BY PrintAssumption, FS_Interval DEF Sold
<1>2. ByItself \in SUBSET Sold /\ ByItself' \in SUBSET Sold
  BY DEF ByItself
<1>3. \A T \in SUBSET Sold : IsFiniteSet(T) /\ Cardinality(T) <= MaxSold
  BY <1>1, FS_Subset
<1>4. \A T \in SUBSET Sold : Cardinality(T) \in Nat
  BY <1>3, FS_CardinalityType
<1> QED
  BY <1>1, <1>2, <1>3, <1>4, PrintAssumption

LEMMA Head1 ==
  ASSUME LineTypes, line # <<>>
  PROVE  /\ Work1 \in Work /\ Work1.doc.sale \in Sold /\ Len(line) \in Nat \ {0}
         /\ Work1.do # "preview" => Req1 \in PrintRequest
<1>1. Len(line) \in Nat \ {0} /\ 1 \in 1 .. Len(line)
  BY DEF LineTypes
<1> QED
  BY <1>1 DEF LineTypes, Work1, Req1

LEMMA Shortened ==
  ASSUME LineTypes, ByItself' = ByItself, line' = line \/ (line # <<>> /\ line' = Tail(line)) \/ line' = <<>>
  PROVE  LineTypes'
<1>1. CASE line' = line
  BY <1>1 DEF LineTypes
<1>2. CASE line # <<>> /\ line' = Tail(line)
  <2>1. /\ line \in Seq(Work) /\ Len(line) \in Nat \ {0} /\ line' \in Seq(Work)
        /\ Len(line') = Len(line) - 1
        /\ \A i \in 1 .. Len(line') : line'[i] = line[i + 1] /\ i + 1 \in 1 .. Len(line)
    BY <1>2 DEF LineTypes
  <2>2. Cardinality(ByItself) \in Nat /\ MaxLine \in Nat
    BY ByItselfFinite, PrintAssumption
  <2> QED
    BY <2>1, <2>2 DEF LineTypes
<1>3. CASE line' = <<>>
  <2>1. Cardinality(ByItself) \in Nat /\ MaxLine \in Nat
    BY ByItselfFinite, PrintAssumption
  <2> QED
    BY <1>3, <2>1 DEF LineTypes
<1> QED
  BY <1>1, <1>2, <1>3

(* The place of an element in the order of its set: so the oldest come     *)
(* first in a sequence that exists.                                        *)
LEMMA Ordered ==
  ASSUME NEW S \in SUBSET Sold
  PROVE  /\ OldestFirst(S) \in [1 .. Cardinality(S) -> S] /\ Cardinality(S) \in Nat
<1> DEFINE upTo(s) == {t \in S : t <= s}
           n == Cardinality(S)
           rank == [s \in S |-> Cardinality(upTo(s))]
           q == [i \in 1 .. n |-> CHOOSE s \in S : rank[s] = i]
<1>1. IsFiniteSet(S) /\ n \in Nat
  BY ByItselfFinite, FS_Subset, FS_CardinalityType
<1>2. \A s \in S : s \in Nat
  BY PrintAssumption DEF Sold
<1>3. \A T \in SUBSET S : IsFiniteSet(T) /\ Cardinality(T) \in Nat /\ Cardinality(T) <= n
  BY <1>1, FS_Subset, FS_CardinalityType
<1>4. \A s \in S : rank[s] \in 1 .. n
  <2> SUFFICES ASSUME NEW s \in S PROVE Cardinality(upTo(s)) \in 1 .. n
    OBVIOUS
  <2>1. upTo(s) \in SUBSET S /\ s \in upTo(s)
    BY <1>2
  <2>2. Cardinality(upTo(s)) # 0
    BY <1>3, <2>1, FS_EmptySet
  <2> QED
    BY <1>1, <1>3, <2>1, <2>2
<1>5. \A s \in S, t \in S : s < t => rank[s] < rank[t]
  <2> SUFFICES ASSUME NEW s \in S, NEW t \in S, s < t
               PROVE  Cardinality(upTo(s)) < Cardinality(upTo(t))
    OBVIOUS
  <2>1. upTo(s) \in SUBSET upTo(t) /\ t \in upTo(t) /\ t \notin upTo(s)
    BY <1>2
  <2>2. IsFiniteSet(upTo(t)) /\ upTo(t) \in SUBSET S /\ upTo(s) \in SUBSET S
    BY <1>3
  <2>3. Cardinality(upTo(s)) <= Cardinality(upTo(t)) /\ upTo(s) # upTo(t)
    BY <2>1, <2>2, FS_Subset
  <2>4. Cardinality(upTo(s)) # Cardinality(upTo(t))
    BY <2>1, <2>2, <2>3, FS_Subset
  <2>5. Cardinality(upTo(s)) \in Nat /\ Cardinality(upTo(t)) \in Nat
    BY <1>3, <2>2
  <2> QED
    BY <2>3, <2>4, <2>5
<1> HIDE DEF rank
<1>6. rank \in Injection(S, 1 .. n)
  <2>1. \A s \in S, t \in S : s # t => rank[s] # rank[t]
    <3> SUFFICES ASSUME NEW s \in S, NEW t \in S, s # t PROVE rank[s] # rank[t]
      OBVIOUS
    <3>1. rank[s] \in Nat /\ rank[t] \in Nat /\ (s < t \/ t < s)
      BY <1>2, <1>4
    <3> QED
      BY <1>5, <3>1
  <2>2. rank \in [S -> 1 .. n]
    BY <1>4 DEF rank
  <2> QED
    BY <2>1, <2>2 DEF Injection, IsInjective
<1>7. rank \in Surjection(S, 1 .. n)
  <2>1. IsFiniteSet(1 .. n) /\ Cardinality(1 .. n) = n
    BY <1>1, FS_Interval
  <2> QED
    BY <1>6, <2>1, FS_Injection
<1>8. \A i \in 1 .. n : \E s \in S : rank[s] = i
  BY <1>7 DEF Surjection
<1>9. q \in [1 .. n -> S] /\ \A i \in 1 .. n : q[i] \in S /\ rank[q[i]] = i
  BY <1>8
<1> HIDE DEF q
<1>10. \A i, j \in 1 .. n : i < j => q[i] < q[j]
  <2> SUFFICES ASSUME NEW i \in 1 .. n, NEW j \in 1 .. n, i < j PROVE q[i] < q[j]
    OBVIOUS
  <2>1. q[i] \in S /\ q[j] \in S /\ rank[q[i]] = i /\ rank[q[j]] = j
    BY <1>9
  <2>2. q[i] \in Nat /\ q[j] \in Nat /\ q[i] # q[j]
    BY <1>2, <2>1
  <2>3. ~(q[j] < q[i])
    BY <1>5, <2>1
  <2> QED
    BY <2>2, <2>3
<1>11. \E p \in [1 .. n -> S] : \A i, j \in DOMAIN p : i < j => p[i] < p[j]
  <2>1. DOMAIN q = 1 .. n
    BY <1>9
  <2> QED
    BY <1>9, <1>10, <2>1
<1> QED
  BY <1>1, <1>11 DEF OldestFirst

-----------------------------------------------------------------------------
LEMMA PrintBegins == PrintInit => PrintInv
<1> SUFFICES ASSUME PrintInit PROVE PrintInv
  OBVIOUS
<1> USE PrintAssumption DEF PrintInit
<1>1. DeskTypes
  <2>1. cashier \in Caller /\ NoAdmission.caller \in Caller
    BY DEF Caller, NoAdmission
  <2>2. admission \in [on : BOOLEAN, took : SUBSET Sold, caller : Caller, again : BOOLEAN, due : BOOLEAN]
    BY <2>1 DEF NoAdmission
  <2> QED
    BY <2>1, <2>2 DEF DeskTypes
<1>2. NoJob \in Job /\ Empty \in Paper
  BY DEF NoJob, Job, Empty, Paper
<1>3. JournalTypes /\ WindowTypes /\ WorkTrue
  BY <1>2 DEF JournalTypes, WindowTypes, WorkTrue, NoJob
<1>4. LineTypes
  BY ByItselfFinite DEF LineTypes
<1>5. Papers
  BY DEF Papers, UnmarkedOnce, OriginalsHaveJobs, CallsTrue, NoJob, Live, Sent, Reserving
<1> QED
  BY <1>1, <1>3, <1>4, <1>5 DEF PrintInv

(* What stands when a step leaves it alone.                                *)
LEMMA PapersStand ==
  ASSUME PrintInv, UNCHANGED <<journal, printCalls, originals>>
  PROVE  JournalTypes' /\ Papers' /\ ByItself' = ByItself
<1>1. JournalTypes'
  BY DEF PrintInv, JournalTypes
<1>2. UnmarkedOnce' /\ OriginalsHaveJobs' /\ CallsTrue'
  BY DEF PrintInv, Papers, UnmarkedOnce, OriginalsHaveJobs, CallsTrue
<1> QED
  BY <1>1, <1>2 DEF PrintInv, Papers, ByItself

LEMMA ChainStands ==
  ASSUME PrintInv, UNCHANGED <<journal, line, workStage, onWindow>>
  PROVE  LineTypes' /\ WindowTypes' /\ WorkTrue'
BY DEF PrintInv, LineTypes, ByItself, WindowTypes, WorkTrue, Req1

LEMMA DeskStands ==
  ASSUME PrintInv, UNCHANGED <<cashier, intents, admission>>,
         jams' = jams \/ Jam
  PROVE  DeskTypes'
BY PrintAssumption DEF PrintInv, DeskTypes, Jam, Caller

LEMMA DeskKeeps ==
  ASSUME PrintInv,
         \/ \E s \in Sold : CaptureForSale(s)
         \/ SignInOrOut \/ AdmitPending \/ DecideLater
  PROVE  PrintInv'
<1>1. UNCHANGED <<journal, line, workStage, onWindow, printCalls, originals>>
  BY DEF CaptureForSale, SignInOrOut, AdmitPending, DecideLater
<1> DEFINE Admission == [on : BOOLEAN, took : SUBSET Sold, caller : Caller, again : BOOLEAN,
                         due : BOOLEAN]
           Intent == [by : 0 .. 2, outcome : {"none", "pending", "admitted", "declined"}]
<1>2. /\ cashier \in Caller /\ cashier.user \in 0 .. 2 /\ cashier.epoch \in Nat
      /\ cashier.epoch <= jams + 1 /\ jams \in 0 .. MaxJams
      /\ intents \in [Sold -> Intent] /\ admission \in Admission
  BY DEF PrintInv, DeskTypes, Caller
<1>3. DeskTypes'
  <2>1. CASE \E s \in Sold : CaptureForSale(s)
    <3>1. PICK s \in Sold : CaptureForSale(s)
      BY <2>1
    <3>2. [by |-> cashier.user, outcome |-> "pending"] \in Intent
      BY <1>2
    <3>3. intents' \in [Sold -> Intent]
      BY <1>2, <3>1, <3>2 DEF CaptureForSale
    <3>4. admission' \in Admission
      BY <1>2, <3>1 DEF CaptureForSale
    <3> QED
      BY <1>2, <3>1, <3>3, <3>4 DEF CaptureForSale, DeskTypes
  <2>2. CASE SignInOrOut
    <3>1. PICK u \in (0 .. 2) \ {cashier.user} :
            cashier' = [user |-> u, epoch |-> cashier.epoch + 1]
      BY <2>2 DEF SignInOrOut
    <3>2. jams' = jams + 1 /\ jams' \in 0 .. MaxJams
      BY <1>2, <2>2, PrintAssumption DEF SignInOrOut, Jam
    <3>3. cashier' \in Caller /\ cashier'.epoch <= jams' + 1
      BY <1>2, <3>1, <3>2, PrintAssumption DEF Caller
    <3>4. admission' \in Admission
      BY <1>2, <2>2 DEF SignInOrOut
    <3> QED
      BY <1>2, <2>2, <3>2, <3>3, <3>4 DEF SignInOrOut, DeskTypes
  <2>3. CASE AdmitPending
    <3> DEFINE a == IF admission.on THEN [admission EXCEPT !.again = TRUE] ELSE Started(admission)
    <3>1. PendingFor(cashier.user) \in SUBSET Sold
      BY DEF PendingFor
    <3>2. Started(admission) \in Admission
      BY <1>2, <3>1 DEF Started
    <3>3. a \in Admission
      BY <1>2, <3>2
    <3>4. admission' = [a EXCEPT !.due = FALSE]
      BY <2>3 DEF AdmitPending
    <3> HIDE DEF a
    <3>5. admission' \in Admission
      BY <3>3, <3>4
    <3> QED
      BY <1>2, <2>3, <3>5 DEF AdmitPending, DeskTypes
  <2>4. CASE DecideLater
    <3>1. PICK declined \in SUBSET {s \in admission.took : Decidable(s)} :
            intents' = [s \in Sold |-> IF s \in declined THEN [intents[s] EXCEPT !.outcome = "declined"]
                                       ELSE intents[s]]
      BY <2>4 DEF DecideLater
    <3>2. intents' \in [Sold -> Intent]
      <4>1. \A s \in Sold : intents[s] \in Intent /\ [intents[s] EXCEPT !.outcome = "declined"] \in Intent
        BY <1>2
      <4> QED
        BY <3>1, <4>1
    <3>3. admission' \in Admission
      BY <1>2, <2>4 DEF DecideLater, AdmissionOver
    <3> QED
      BY <1>2, <2>4, <3>2, <3>3 DEF DecideLater, DeskTypes
  <2> QED
    BY <2>1, <2>2, <2>3, <2>4
<1> QED
  BY <1>1, <1>3, PapersStand, ChainStands DEF PrintInv

(* A work joins the chain.                                                 *)
LEMMA JoinKeeps ==
  ASSUME PrintInv,
         \/ \E n \in 1 .. MaxByHand, s \in Sold, reprint \in BOOLEAN : AskPrint(n, s, reprint)
         \/ \E s \in Sold : AskPreview(s)
  PROVE  PrintInv'
<1>1. PICK work \in Work : /\ JoinChain(work) /\ work.doc.sale \in Sold
                           /\ work.do # "preview" => work.req \in PrintRequest
  <2>1. cashier \in Caller
    BY DEF PrintInv, DeskTypes
  <2>2. \A s \in Sold, reprint \in BOOLEAN : [sale |-> s, reprint |-> reprint] \in Paper
    BY PrintAssumption DEF Sold, Paper
  <2>3. ASSUME NEW n \in 1 .. MaxByHand, NEW s \in Sold, NEW reprint \in BOOLEAN,
               AskPrint(n, s, reprint)
        PROVE  \E work \in Work : /\ JoinChain(work) /\ work.doc.sale \in Sold
                                  /\ work.do # "preview" => work.req \in PrintRequest
    <3> DEFINE w == [do |-> "manual", req |-> <<"manual", n>>,
                     doc |-> [sale |-> s, reprint |-> reprint], caller |-> cashier]
    <3>1. <<"manual", n>> \in PrintRequest
      BY DEF PrintRequest
    <3>2. w \in Work
      BY <2>1, <2>2, <3>1 DEF Work
    <3> QED
      BY <2>3, <3>1, <3>2 DEF AskPrint
  <2>4. ASSUME NEW s \in Sold, AskPreview(s)
        PROVE  \E work \in Work : /\ JoinChain(work) /\ work.doc.sale \in Sold
                                  /\ work.do # "preview" => work.req \in PrintRequest
    <3> DEFINE w == [do |-> "preview", req |-> <<"preview", 0>>,
                     doc |-> [sale |-> s, reprint |-> FALSE], caller |-> cashier]
    <3>1. w \in Work
      BY <2>1, <2>2 DEF Work
    <3> QED
      BY <2>4, <3>1 DEF AskPreview
  <2> QED
    BY <2>3, <2>4
<1>2. /\ line \in Seq(Work) /\ Len(line) < MaxLine /\ Len(line) \in Nat
      /\ line' = Append(line, work)
  BY <1>1 DEF PrintInv, LineTypes, JoinChain
<1>3. /\ line' \in Seq(Work) /\ Len(line') = Len(line) + 1
      /\ \A i \in 1 .. Len(line') :
           (i \in 1 .. Len(line) /\ line'[i] = line[i]) \/ line'[i] = work
      /\ line # <<>> => line'[1] = line[1]
  BY <1>2
<1>4. JournalTypes' /\ Papers' /\ ByItself' = ByItself /\ DeskTypes'
  BY <1>1, PapersStand, DeskStands DEF JoinChain
<1>5. LineTypes'
  <2>1. Len(line') <= MaxLine + Cardinality(ByItself')
    BY <1>2, <1>3, ByItselfFinite, PrintAssumption
  <2> QED
    BY <1>1, <1>3, <2>1 DEF PrintInv, LineTypes
<1>6. WindowTypes' /\ WorkTrue'
  <2>1. UNCHANGED <<workStage, onWindow, journal>>
    BY <1>1 DEF JoinChain
  <2>2. line # <<>> => line' # <<>> /\ Req1' = Req1
    BY <1>3 DEF Req1
  <2> QED
    BY <2>1, <2>2 DEF PrintInv, WindowTypes, WorkTrue
<1> QED
  BY <1>4, <1>5, <1>6 DEF PrintInv

(* The work at the window moves from stage to stage.                       *)
LEMMA WindowKeeps ==
  ASSUME PrintInv, ShowPreview \/ NothingToDo \/ Load \/ LayOut
  PROVE  PrintInv'
<1>1. UNCHANGED <<journal, printCalls, originals, cashier, intents, admission, jams>>
  BY DEF ShowPreview, NothingToDo, Load, LayOut
<1>2. JournalTypes' /\ Papers' /\ ByItself' = ByItself /\ DeskTypes'
  BY <1>1, PapersStand, DeskStands
<1>3. LineTypes /\ JournalTypes /\ WindowTypes /\ WorkTrue
  BY DEF PrintInv
<1>4. CASE ShowPreview
  <2>1. Work1.doc.sale \in Sold
    BY <1>3, <1>4, Head1 DEF ShowPreview
  <2>2. onWindow' \in Paper
    BY <1>4, <2>1, PrintAssumption DEF ShowPreview, DocumentOf, Paper, Sold, PrintedBefore
  <2>3. WindowTypes' /\ WorkTrue'
    BY <1>4, <2>2 DEF ShowPreview, Done, WindowTypes, WorkTrue
  <2>4. LineTypes'
    BY <1>2, <1>3, <1>4, Shortened DEF ShowPreview, Done
  <2> QED
    BY <1>2, <2>3, <2>4 DEF PrintInv
<1>5. CASE NothingToDo
  <2>1. WindowTypes' /\ WorkTrue'
    BY <1>3, <1>5 DEF NothingToDo, Done, WindowTypes, WorkTrue
  <2>2. LineTypes'
    BY <1>2, <1>3, <1>5, Shortened DEF NothingToDo, Done
  <2> QED
    BY <1>2, <2>1, <2>2 DEF PrintInv
<1>6. CASE Load
  <2>1. line # <<>> /\ Req1 \in PrintRequest /\ journal[Req1].doc \in Paper
    BY <1>3, <1>6 DEF Load, WorkTrue, JournalTypes, Job
  <2>2. WindowTypes' /\ WorkTrue'
    BY <1>1, <1>3, <1>6, <2>1 DEF Load, WindowTypes, WorkTrue, Req1
  <2>3. LineTypes'
    BY <1>2, <1>3, <1>6, Shortened DEF Load
  <2> QED
    BY <1>2, <2>2, <2>3 DEF PrintInv
<1>7. CASE LayOut
  <2>1. WindowTypes' /\ WorkTrue'
    BY <1>1, <1>3, <1>7 DEF LayOut, WindowTypes, WorkTrue, Req1
  <2>2. LineTypes'
    BY <1>2, <1>3, <1>7, Shortened DEF LayOut
  <2> QED
    BY <1>2, <2>1, <2>2 DEF PrintInv
<1> QED
  BY <1>4, <1>5, <1>6, <1>7

(* The work at the window, where a job of the journal moves on with it.    *)
LEMMA StagingKeeps ==
  ASSUME PrintInv, JobsMove, UNCHANGED <<printCalls, originals>>,
         WindowTypes', UNCHANGED <<cashier, intents, admission>>, jams' = jams \/ Jam,
         \/ UNCHANGED line /\ WorkTrue'
         \/ line # <<>> /\ Done
  PROVE  PrintInv'
<1>1. JournalTypes' /\ ByItself' = ByItself
  BY MovesKeepTypes DEF PrintInv
<1>2. Papers'
  BY MovesKeepPapers DEF PrintInv
<1>3. DeskTypes'
  BY DeskStands
<1>4. LineTypes'
  BY <1>1, Shortened DEF PrintInv, Done
<1>5. WorkTrue'
  BY DEF Done, WorkTrue
<1> QED
  BY <1>1, <1>2, <1>3, <1>4, <1>5 DEF PrintInv

LEMMA NoMove == ASSUME JournalTypes, UNCHANGED journal PROVE JobsMove
BY DEF JournalTypes, JobsMove

LEMMA FailingMoves ==
  ASSUME JournalTypes, NEW r \in PrintRequest, FailBeforeDispatch(r)
  PROVE  JobsMove
BY MarkedStays DEF FailBeforeDispatch

LEMMA AutomaticBegins ==
  ASSUME PrintInv, BeginPreparing, Work1.do = "auto"
  PROVE  PrintInv'
<1> DEFINE r == Req1
<1>1. /\ line # <<>> /\ r \in PrintRequest /\ journal[r].status = "queued"
      /\ journal' = [journal EXCEPT ![r].status = "preparing"]
  BY Head1 DEF PrintInv, BeginPreparing, Startable, Work1, Req1
<1> HIDE DEF r
<1>2. JobsMove
  BY <1>1, MarkedStays DEF PrintInv, MarkJob
<1>3. JournalTypes' /\ journal'[r].status # "none"
  BY <1>1, <1>2, MovesKeepTypes DEF PrintInv, JobsMove
<1>4. WindowTypes' /\ WorkTrue'
  BY <1>1, <1>3 DEF r, PrintInv, BeginPreparing, WindowTypes, WorkTrue, Req1
<1> QED
  BY <1>2, <1>4, StagingKeeps DEF BeginPreparing

LEMMA ByHandBegins ==
  ASSUME PrintInv, BeginPreparing, Work1.do # "auto"
  PROVE  PrintInv'
<1> DEFINE r == Req1
           s == Work1.doc.sale
           job == Claim(r, s, Work1.caller.epoch, "preparing")
<1>1. /\ line # <<>> /\ r \in PrintRequest /\ s \in Sold /\ Claimable(r, s) /\ Work1 \in Work
      /\ journal' = [journal EXCEPT ![r] = job]
  BY Head1 DEF PrintInv, BeginPreparing, Startable, Work1, Req1
<1>2. job \in Job /\ job.doc.sale = s /\ job.doc = DocumentOf(s) /\ job.status = "preparing"
  <2>1. DocumentOf(s) \in Paper
    BY <1>1, PrintAssumption DEF DocumentOf, Paper, Sold, PrintedBefore
  <2>2. Work1.caller.epoch \in 0 .. MaxJams + 1
    BY <1>1 DEF Work, Caller
  <2> QED
    BY <2>1, <2>2 DEF Claim, Job, Reserving, DocumentOf
<1> HIDE DEF r, s, job
<1>3. /\ journal' \in [PrintRequest -> Job] /\ journal'[r] = job
      /\ \A q \in PrintRequest \ {r} : journal'[q] = journal[q]
  BY <1>1, <1>2 DEF PrintInv, JournalTypes
<1>4. JournalTypes' /\ Papers'
  <2>1. \A q \in {r} : /\ journal[q].status = "none" /\ journal'[q].status \in {"queued", "preparing"}
                       /\ journal'[q].doc = DocumentOf(journal'[q].doc.sale)
                       /\ journal'[q].doc.sale \in Sold /\ ~Reserved(journal'[q].doc.sale)
    BY <1>1, <1>2, <1>3 DEF Claimable
  <2>2. UNCHANGED <<originals, printCalls>> /\ {r} \in SUBSET PrintRequest
    BY <1>1 DEF BeginPreparing
  <2> QED
    BY <1>3, <2>1, <2>2, ClaimsKeepPapers DEF PrintInv
<1>5. LineTypes'
  <2>1. ByItself \in SUBSET ByItself'
    BY <1>1, <1>2, <1>3, AutoRequests DEF ByItself, Claimable
  <2>2. Cardinality(ByItself) <= Cardinality(ByItself')
    BY <2>1, ByItselfFinite, FS_Subset
  <2>3. line' = line
    BY DEF BeginPreparing
  <2>4. /\ line \in Seq(Work) /\ Len(line) <= MaxLine + Cardinality(ByItself)
        /\ \A i \in 1 .. Len(line) :
             line[i].doc.sale \in Sold /\ (line[i].do # "preview" => line[i].req \in PrintRequest)
    BY DEF PrintInv, LineTypes
  <2>5. Len(line) <= MaxLine + Cardinality(ByItself')
    BY <2>2, <2>4, ByItselfFinite, PrintAssumption
  <2> QED
    BY <2>3, <2>4, <2>5 DEF LineTypes
<1>6. WindowTypes' /\ WorkTrue'
  BY <1>1, <1>2, <1>3 DEF r, PrintInv, BeginPreparing, WindowTypes, WorkTrue, Req1
<1>7. DeskTypes'
  BY DeskStands DEF BeginPreparing
<1> QED
  BY <1>4, <1>5, <1>6, <1>7 DEF PrintInv

LEMMA StoppedKeeps ==
  ASSUME PrintInv, PreparationFails \/ VerifyQr \/ Fenced \/ TimesOut
  PROVE  PrintInv'
<1>1. JournalTypes /\ WindowTypes /\ line # <<>> /\ Req1 \in PrintRequest /\ WorkTrue
  BY DEF PrintInv, PreparationFails, VerifyQr, Fenced, TimesOut, WorkTrue
<1>2. WindowTypes'
  BY <1>1 DEF PreparationFails, VerifyQr, Fenced, TimesOut, WindowTypes, Done
<1>3. /\ UNCHANGED <<printCalls, originals, cashier, intents, admission>>
      /\ jams' = jams \/ Jam
  BY DEF PreparationFails, VerifyQr, Fenced, TimesOut
<1>4. CASE PreparationFails
  BY <1>1, <1>2, <1>3, <1>4, FailingMoves, StagingKeeps DEF PreparationFails
<1>5. CASE VerifyQr /\ onWindow.sale = journal[Req1].doc.sale
  <2>1. UNCHANGED <<journal, line, onWindow>> /\ workStage = "qr" /\ workStage' = "fence"
    BY <1>5 DEF VerifyQr
  <2>2. WorkTrue'
    BY <1>1, <2>1 DEF WorkTrue, Req1
  <2> QED
    BY <1>1, <1>2, <1>3, <2>1, <2>2, NoMove, StagingKeeps
<1>6. CASE VerifyQr /\ onWindow.sale # journal[Req1].doc.sale
  BY <1>1, <1>2, <1>3, <1>6, FailingMoves, StagingKeeps DEF VerifyQr
<1>7. CASE Fenced
  BY <1>1, <1>2, <1>3, <1>7, FailingMoves, NoMove, StagingKeeps DEF Fenced
<1>8. CASE TimesOut
  BY <1>1, <1>2, <1>3, <1>8, MarkedStays, StagingKeeps DEF TimesOut
<1> QED
  BY <1>4, <1>5, <1>6, <1>7, <1>8

LEMMA CancelKeeps ==
  ASSUME PrintInv, NEW r \in PrintRequest, Cancel(r)
  PROVE  PrintInv'
<1>1. JobsMove
  BY MarkedStays DEF PrintInv, Cancel
<1>2. WindowTypes' /\ WorkTrue'
  BY <1>1 DEF PrintInv, Cancel, WindowTypes, WorkTrue, JobsMove, Req1
<1> QED
  BY <1>1, <1>2, StagingKeeps DEF Cancel

(* The print call.  No other receipt of the sale that may have come out is *)
(* without a mark: its job would be one of the sale's unmarked jobs.       *)
LEMMA PrintDispatchKeeps ==
  ASSUME PrintInv, DispatchJob
  PROVE  PrintInv'
<1> DEFINE r == Req1
           call == [req |-> r, doc |-> onWindow]
           s == onWindow.sale
<1>1. /\ line # <<>> /\ r \in PrintRequest /\ onWindow = journal[r].doc /\ onWindow \in Paper
      /\ journal[r].status = "preparing" /\ s \in Sold
      /\ journal' = [journal EXCEPT ![r].status = "dispatching"]
      /\ journal \in [PrintRequest -> Job] /\ printCalls' = printCalls \cup {call}
      /\ originals' = IF onWindow.reprint THEN originals ELSE [originals EXCEPT ![s] = @ + 1]
  BY DEF PrintInv, DispatchJob, WorkTrue, JournalTypes, WindowTypes
<1>2. UNCHANGED <<line, onWindow, cashier, intents, admission, jams>>
  BY DEF DispatchJob
<1>3. Papers
  BY DEF PrintInv
<1>4. WindowTypes' /\ (JobsMove => WorkTrue')
  <2>1. workStage' = "print" /\ Req1' = Req1
    BY <1>2 DEF DispatchJob, Req1
  <2> QED
    BY <1>1, <1>2, <2>1 DEF r, WindowTypes, WorkTrue, JobsMove
<1> HIDE DEF r, s
<1>5. /\ journal' \in [PrintRequest -> Job] /\ journal'[r].status = "dispatching"
      /\ journal'[r].doc = journal[r].doc
      /\ \A q \in PrintRequest : q # r => journal'[q] = journal[q]
  <2>1. journal[r] \in Job
    BY <1>1
  <2>2. [journal[r] EXCEPT !.status = "dispatching"] \in Job
    BY <2>1 DEF Job, Reserving
  <2> QED
    BY <1>1, <2>1, <2>2 DEF Job
<1>6. JobsMove
  BY <1>1, <1>5 DEF JobsMove, Live, Sent, Reserving
<1>7. ~onWindow.reprint => originals[s] = 0
  <2> SUFFICES ASSUME ~onWindow.reprint, originals[s] # 0 PROVE FALSE
    OBVIOUS
  <2>1. PICK q \in PrintRequest : /\ journal[q].doc.sale = s /\ ~journal[q].doc.reprint
                                  /\ journal[q].status \in Sent \cup {"submitted"}
    BY <1>1, <1>3 DEF Papers, OriginalsHaveJobs
  <2>2. q # r /\ journal[q].status \in Live /\ journal[r].status \in Live
    BY <1>1, <2>1 DEF Sent, Live, Reserving
  <2> QED
    BY <1>1, <1>3, <2>1, <2>2 DEF Papers, UnmarkedOnce, s
<1>8. /\ originals \in [Sold -> Int] /\ originals' \in [Sold -> Int]
      /\ \A t \in Sold : t # s \/ onWindow.reprint => originals'[t] = originals[t]
      /\ ~onWindow.reprint => originals'[s] = 1
  BY <1>1, <1>3, <1>7 DEF Papers
<1>9. UnmarkedOnce'
  BY <1>3, <1>6 DEF Papers, JobsMove, UnmarkedOnce
<1>10. OriginalsHaveJobs'
  <2> SUFFICES ASSUME NEW t \in Sold
               PROVE  /\ originals'[t] \in {0, 1}
                      /\ originals'[t] = 1 => \E q \in PrintRequest :
                           /\ journal'[q].doc.sale = t /\ ~journal'[q].doc.reprint
                           /\ journal'[q].status \in Sent \cup {"submitted"}
    BY DEF OriginalsHaveJobs
  <2>1. CASE t = s /\ ~onWindow.reprint
    <3>1. /\ journal'[r].doc.sale = t /\ ~journal'[r].doc.reprint
          /\ journal'[r].status \in Sent \cup {"submitted"}
      BY <1>1, <1>5, <2>1 DEF Sent, s
    <3> QED
      BY <1>1, <1>8, <2>1, <3>1
  <2>2. CASE t # s \/ onWindow.reprint
    <3>1. originals'[t] = originals[t] /\ originals[t] \in {0, 1}
      BY <1>3, <1>8, <2>2 DEF Papers, OriginalsHaveJobs
    <3>2. CASE originals[t] = 1
      <4>1. PICK q \in PrintRequest : /\ journal[q].doc.sale = t /\ ~journal[q].doc.reprint
                                      /\ journal[q].status \in Sent \cup {"submitted"}
        BY <1>3, <3>2 DEF Papers, OriginalsHaveJobs
      <4> QED
        BY <1>6, <3>1, <4>1 DEF JobsMove
    <3> QED
      BY <3>1, <3>2
  <2> QED
    BY <2>1, <2>2
<1>11. CallsTrue'
  <2> SUFFICES ASSUME NEW c \in printCalls'
               PROVE  /\ c.req \in PrintRequest /\ c.doc = journal'[c.req].doc
                      /\ journal'[c.req].status \in Sent
                      /\ ~c.doc.reprint => originals'[c.doc.sale] = 1
    BY DEF CallsTrue
  <2>1. CASE c = call
    BY <1>1, <1>5, <1>8, <2>1 DEF Sent, s
  <2>2. CASE c \in printCalls
    <3>1. /\ c.req \in PrintRequest /\ c.doc = journal[c.req].doc /\ journal[c.req].status \in Sent
          /\ ~c.doc.reprint => originals[c.doc.sale] = 1
      BY <1>3, <2>2 DEF Papers, CallsTrue
    <3>2. c.doc.sale \in Sold
      BY <3>1 DEF PrintInv, JournalTypes, Sent
    <3>3. ~c.doc.reprint => c.doc.sale # s \/ onWindow.reprint
      BY <1>7, <3>1
    <3> QED
      BY <1>6, <1>8, <3>1, <3>2, <3>3 DEF JobsMove
  <2> QED
    BY <1>1, <2>1, <2>2
<1>12. printCalls' \subseteq [req : PrintRequest, doc : Paper]
  BY <1>1, <1>3 DEF Papers
<1>13. Papers'
  BY <1>8, <1>9, <1>10, <1>11, <1>12 DEF Papers
<1>14. JournalTypes' /\ ByItself' = ByItself
  BY <1>6, MovesKeepTypes DEF PrintInv
<1>15. LineTypes' /\ DeskTypes'
  BY <1>2, <1>14, Shortened, DeskStands DEF PrintInv
<1> QED
  BY <1>4, <1>6, <1>13, <1>14, <1>15 DEF PrintInv

(* The answer of a call: what it says of the job, and of the paper.        *)
LEMMA PrinterAnswerKeeps ==
  ASSUME PrintInv, NEW c \in printCalls, NEW told \in Verdicts, Answered(c, told)
  PROVE  PrintInv'
<1> DEFINE r == c.req
           s == c.doc.sale
<1>1. Papers /\ JournalTypes
  BY DEF PrintInv
<1>2. /\ r \in PrintRequest /\ c.doc = journal[r].doc /\ journal[r].status \in Sent
      /\ ~c.doc.reprint => originals[s] = 1
      /\ s \in Sold /\ journal \in [PrintRequest -> Job] /\ c.doc \in Paper
  BY <1>1 DEF Papers, CallsTrue, JournalTypes, Sent, Job
<1>3. /\ printCalls' = printCalls \ {c} /\ Classified(r, told)
      /\ originals' = IF told \in Nothing /\ ~c.doc.reprint
                        THEN [originals EXCEPT ![s] = @ - 1] ELSE originals
      /\ UNCHANGED <<cashier, intents, onWindow, admission, jams>>
  BY DEF Answered
<1> HIDE DEF s
<1>4. /\ journal' \in [PrintRequest -> Job]
      /\ \A q \in PrintRequest :
           /\ journal'[q].doc = journal[q].doc /\ (q # r => journal'[q] = journal[q])
           /\ journal'[q].status = "none" <=> journal[q].status = "none"
           /\ journal'[q].status \in Live => journal[q].status \in Live
      /\ told \notin Nothing => journal'[r].status \in Sent \cup {"submitted"}
  <2>1. PICK to \in Final, from \in SUBSET Sent :
          MarkJob(r, from, to) /\ (told \in Nothing \/ to \in Sent \cup {"submitted"})
    BY <1>3 DEF Classified, Verdicts, Nothing, Sent, Final
  <2>2. CASE journal[r].status \notin from
    BY <1>2, <2>1, <2>2 DEF MarkJob
  <2>3. CASE journal[r].status \in from
    <3>1. journal' = [journal EXCEPT ![r].status = to]
      BY <2>1, <2>3 DEF MarkJob
    <3>2. journal[r] \in Job /\ [journal[r] EXCEPT !.status = to] \in Job
      BY <1>2, <2>1 DEF Job
    <3>3. /\ journal' \in [PrintRequest -> Job] /\ journal'[r].status = to
          /\ journal'[r].doc = journal[r].doc
          /\ \A q \in PrintRequest : q # r => journal'[q] = journal[q]
      BY <1>2, <3>1, <3>2 DEF Job
    <3> QED
      BY <1>2, <2>1, <3>3 DEF Live, Sent, Final
  <2> QED
    BY <2>2, <2>3
<1>5. \A d \in printCalls' : /\ d \in printCalls /\ d.req # r
                             /\ journal'[d.req] = journal[d.req]
  <2> SUFFICES ASSUME NEW d \in printCalls' PROVE d \in printCalls /\ d.req # r
    BY <1>1, <1>3, <1>4 DEF Papers, CallsTrue
  <2>1. d \in printCalls /\ d # c /\ d.doc = journal[d.req].doc
    BY <1>1, <1>3 DEF Papers, CallsTrue
  <2>2. d \in [req : PrintRequest, doc : Paper] /\ c \in [req : PrintRequest, doc : Paper]
    BY <1>1, <2>1 DEF Papers
  <2> QED
    BY <1>2, <2>1, <2>2
<1>6. UnmarkedOnce'
  BY <1>1, <1>4 DEF Papers, UnmarkedOnce
<1> DEFINE Undone == told \in Nothing /\ ~c.doc.reprint
<1>7. /\ originals \in [Sold -> Int] /\ originals' \in [Sold -> Int]
      /\ \A t \in Sold : t # s \/ ~Undone => originals'[t] = originals[t]
      /\ Undone => originals'[s] = 0
  BY <1>1, <1>2, <1>3 DEF Papers
<1>8. OriginalsHaveJobs'
  <2> SUFFICES ASSUME NEW t \in Sold
               PROVE  /\ originals'[t] \in {0, 1}
                      /\ originals'[t] = 1 => \E q \in PrintRequest :
                           /\ journal'[q].doc.sale = t /\ ~journal'[q].doc.reprint
                           /\ journal'[q].status \in Sent \cup {"submitted"}
    BY DEF OriginalsHaveJobs
  <2>1. CASE t = s /\ Undone
    BY <1>7, <2>1
  <2>2. CASE t # s \/ ~Undone
    <3>1. originals'[t] = originals[t] /\ originals[t] \in {0, 1}
      BY <1>1, <1>7, <2>2 DEF Papers, OriginalsHaveJobs
    <3>2. CASE originals[t] = 1
      <4>1. PICK q \in PrintRequest : /\ journal[q].doc.sale = t /\ ~journal[q].doc.reprint
                                      /\ journal[q].status \in Sent \cup {"submitted"}
        BY <1>1, <3>2 DEF Papers, OriginalsHaveJobs
      <4>2. q # r \/ journal'[r].status \in Sent \cup {"submitted"}
        BY <1>2, <1>4, <2>2, <4>1 DEF s
      <4> QED
        BY <1>4, <3>1, <4>1, <4>2
    <3> QED
      BY <3>1, <3>2
  <2> QED
    BY <2>1, <2>2
<1>9. CallsTrue'
  <2> SUFFICES ASSUME NEW d \in printCalls'
               PROVE  /\ d.req \in PrintRequest /\ d.doc = journal'[d.req].doc
                      /\ journal'[d.req].status \in Sent
                      /\ ~d.doc.reprint => originals'[d.doc.sale] = 1
    BY DEF CallsTrue
  <2>1. /\ d.req \in PrintRequest /\ d.doc = journal[d.req].doc /\ journal[d.req].status \in Sent
        /\ ~d.doc.reprint => originals[d.doc.sale] = 1
    BY <1>1, <1>5 DEF Papers, CallsTrue
  <2>2. d.doc.sale \in Sold
    BY <1>1, <2>1 DEF JournalTypes, Sent
  <2>3. ~d.doc.reprint => d.doc.sale # s \/ ~Undone
    <3> SUFFICES ASSUME ~d.doc.reprint, d.doc.sale = s, Undone PROVE FALSE
      OBVIOUS
    <3>1. d.req # r /\ journal[d.req].status \in Live /\ journal[r].status \in Live
      BY <1>2, <1>5, <2>1 DEF Live
    <3> QED
      BY <1>1, <1>2, <2>1, <3>1 DEF Papers, UnmarkedOnce, s
  <2> QED
    BY <1>5, <1>7, <2>1, <2>2, <2>3
<1>10. printCalls' \subseteq [req : PrintRequest, doc : Paper]
  BY <1>1, <1>3 DEF Papers
<1>11. Papers'
  BY <1>6, <1>7, <1>8, <1>9, <1>10 DEF Papers
<1>12. JournalTypes' /\ ByItself' = ByItself
  BY <1>1, <1>4, AutoRequests DEF JournalTypes, ByItself
<1>13. \/ line # <<>> /\ Done
       \/ UNCHANGED <<line, workStage>>
  BY DEF Answered, PrintInv, WorkTrue
<1>14. LineTypes' /\ DeskTypes'
  BY <1>3, <1>12, <1>13, Shortened, DeskStands DEF PrintInv, Done
<1>15. WindowTypes' /\ WorkTrue'
  <2>1. CASE Done
    BY <1>3, <2>1 DEF PrintInv, WindowTypes, WorkTrue, Done
  <2>2. CASE UNCHANGED <<line, workStage>>
    BY <1>3, <1>4, <2>2 DEF PrintInv, WindowTypes, WorkTrue, Req1
  <2> QED
    BY <1>13, <2>1, <2>2
<1> QED
  BY <1>11, <1>12, <1>14, <1>15 DEF PrintInv

(* The sweep of the start forgets no job that may have printed.            *)
LEMMA PrintRestartKeeps ==
  ASSUME PrintInv, RestartTill
  PROVE  PrintInv'
<1>1. /\ journal' = [r \in PrintRequest |-> [journal[r] EXCEPT !.status = Swept(@)]]
      /\ line' = <<>> /\ workStage' = "next" /\ onWindow' = Empty /\ printCalls' = {}
      /\ admission' = NoAdmission /\ Jam /\ UNCHANGED <<cashier, intents, originals>>
  BY DEF RestartTill
<1>2. JobsMove
  <2> SUFFICES ASSUME NEW r \in PrintRequest
               PROVE  /\ journal'[r] \in Job /\ journal'[r].doc = journal[r].doc
                      /\ journal'[r].status = "none" <=> journal[r].status = "none"
                      /\ journal'[r].status \in Live => journal[r].status \in Live
                      /\ journal[r].status = "submitted" => journal'[r].status = "submitted"
                      /\ journal[r].status \in Sent => journal'[r].status \in Sent
    BY <1>1 DEF JobsMove
  <2>1. journal[r] \in Job /\ journal'[r] = [journal[r] EXCEPT !.status = Swept(journal[r].status)]
    BY <1>1 DEF PrintInv, JournalTypes
  <2>2. Swept(journal[r].status) \in {"none"} \cup Reserving \cup Final
    BY <2>1 DEF Job, Swept, Final, Reserving
  <2>3. /\ journal'[r] \in Job /\ journal'[r].doc = journal[r].doc
        /\ journal'[r].status = Swept(journal[r].status)
    BY <2>1, <2>2 DEF Job
  <2> QED
    BY <2>1, <2>3 DEF Swept, Live, Sent, Reserving, Job, Final
<1>3. Papers' /\ JournalTypes' /\ ByItself' = ByItself
  BY <1>1, <1>2, MovesKeepPapers, MovesKeepTypes DEF PrintInv
<1>4. LineTypes'
  BY <1>1, <1>3, Shortened DEF PrintInv
<1>5. WindowTypes' /\ WorkTrue'
  BY <1>1, PrintAssumption DEF WindowTypes, WorkTrue, Empty, Paper
<1>6. DeskTypes'
  <2>1. NoAdmission.caller \in Caller
    BY PrintAssumption DEF NoAdmission, Caller
  <2>2. NoAdmission \in [on : BOOLEAN, took : SUBSET Sold, caller : Caller, again : BOOLEAN, due : BOOLEAN]
    BY <2>1 DEF NoAdmission
  <2> QED
    BY <1>1, <2>2, PrintAssumption DEF PrintInv, DeskTypes, Jam, Caller
<1> QED
  BY <1>3, <1>4, <1>5, <1>6 DEF PrintInv

(* The intents the run took are decided: a job and a work for each that is *)
(* granted.                                                                *)
LEMMA DecidedKeeps ==
  ASSUME PrintInv, DecideIntents
  PROVE  PrintInv'
<1> DEFINE Admission == [on : BOOLEAN, took : SUBSET Sold, caller : Caller, again : BOOLEAN,
                         due : BOOLEAN]
           Intent == [by : 0 .. 2, outcome : {"none", "pending", "admitted", "declined"}]
<1>1. PICK declined \in SUBSET {s \in admission.took : Decidable(s)} :
        LET granted == {s \in admission.took \ declined :
                          Decidable(s) /\ Claimable(<<"auto", s>>, s)}
        IN  /\ intents' = [s \in Sold |->
                 IF s \in declined THEN [intents[s] EXCEPT !.outcome = "declined"]
                 ELSE IF s \in granted THEN [intents[s] EXCEPT !.outcome = "admitted"]
                 ELSE intents[s]]
            /\ journal' = [r \in PrintRequest |->
                 IF r[1] = "auto" /\ r[2] \in granted THEN Claim(r, r[2], cashier.epoch, "queued")
                 ELSE journal[r]]
            /\ line' = line \o [i \in 1 .. Cardinality(granted) |-> AutoWork(OldestFirst(granted)[i])]
            /\ AdmissionOver
            /\ UNCHANGED <<cashier, workStage, onWindow, printCalls, originals, jams>>
  BY DEF DecideIntents
<1> DEFINE granted == {s \in admission.took \ declined :
                         Decidable(s) /\ Claimable(<<"auto", s>>, s)}
           n == Cardinality(granted)
           brought == [i \in 1 .. n |-> AutoWork(OldestFirst(granted)[i])]
<1>2. /\ cashier \in Caller /\ intents \in [Sold -> Intent] /\ admission \in Admission
      /\ JournalTypes /\ Papers /\ LineTypes
  BY DEF PrintInv, DeskTypes
<1>3. granted \in SUBSET Sold
  BY <1>2
<1>4. \A s \in granted : Claimable(<<"auto", s>>, s)
  OBVIOUS
<1>5. /\ intents' = [s \in Sold |->
            IF s \in declined THEN [intents[s] EXCEPT !.outcome = "declined"]
            ELSE IF s \in granted THEN [intents[s] EXCEPT !.outcome = "admitted"]
            ELSE intents[s]]
      /\ journal' = [r \in PrintRequest |->
            IF r[1] = "auto" /\ r[2] \in granted THEN Claim(r, r[2], cashier.epoch, "queued")
            ELSE journal[r]]
      /\ line' = line \o brought /\ AdmissionOver
      /\ UNCHANGED <<cashier, workStage, onWindow, printCalls, originals, jams>>
  BY <1>1
<1> HIDE DEF granted
<1>6. DeskTypes'
  <2>1. admission' \in Admission
    BY <1>2, <1>5 DEF AdmissionOver
  <2>2. intents' \in [Sold -> Intent]
    <3>1. \A s \in Sold : /\ intents[s] \in Intent
                          /\ [intents[s] EXCEPT !.outcome = "declined"] \in Intent
                          /\ [intents[s] EXCEPT !.outcome = "admitted"] \in Intent
      BY <1>2
    <3> QED
      BY <1>5, <3>1
  <2> QED
    BY <1>5, <2>1, <2>2 DEF PrintInv, DeskTypes
<1>7. \A s \in granted : Claim(<<"auto", s>>, s, cashier.epoch, "queued") \in Job
  <2> SUFFICES ASSUME NEW s \in granted PROVE Claim(<<"auto", s>>, s, cashier.epoch, "queued") \in Job
    OBVIOUS
  <2>1. DocumentOf(s) \in Paper
    BY <1>3, PrintAssumption DEF DocumentOf, Paper, Sold, PrintedBefore
  <2> QED
    BY <1>2, <2>1 DEF Claim, Job, Reserving, Caller
<1> DEFINE R == {<<"auto", s>> : s \in granted}
<1>8. /\ \A r \in R : \E s \in granted : /\ r = <<"auto", s>> /\ r \in PrintRequest
                                         /\ journal'[r] = Claim(r, s, cashier.epoch, "queued")
                                         /\ journal'[r] \in Job
      /\ \A r \in PrintRequest \ R : journal'[r] = journal[r]
      /\ journal' \in [PrintRequest -> Job]
  <2>1. ASSUME NEW r \in R
        PROVE  \E s \in granted : /\ r = <<"auto", s>> /\ r \in PrintRequest
                                  /\ journal'[r] = Claim(r, s, cashier.epoch, "queued")
                                  /\ journal'[r] \in Job
    <3>1. PICK s \in granted : r = <<"auto", s>>
      OBVIOUS
    <3>2. r \in PrintRequest /\ r[1] = "auto" /\ r[2] = s
      BY <1>3, <3>1, AutoRequests
    <3>3. journal'[r] = Claim(r, s, cashier.epoch, "queued")
      BY <1>5, <3>1, <3>2
    <3> QED
      BY <1>7, <3>1, <3>2, <3>3
  <2>2. ASSUME NEW r \in PrintRequest \ R
        PROVE  journal'[r] = journal[r]
    <3>1. ~(r[1] = "auto" /\ r[2] \in granted)
      BY DEF PrintRequest
    <3> QED
      BY <1>5, <3>1
  <2>3. \A r \in PrintRequest : journal'[r] \in Job
    BY <1>2, <2>1, <2>2 DEF JournalTypes
  <2>4. journal' = [r \in PrintRequest |-> journal'[r]]
    BY <1>5
  <2>5. journal' \in [PrintRequest -> Job]
    BY <2>3, <2>4
  <2> QED
    BY <2>1, <2>2, <2>5
<1>9. \A r \in R : /\ journal[r].status = "none" /\ journal'[r].status \in {"queued", "preparing"}
                   /\ journal'[r].doc = DocumentOf(journal'[r].doc.sale)
                   /\ journal'[r].doc.sale \in Sold /\ ~Reserved(journal'[r].doc.sale)
                   /\ journal'[r].doc.sale = r[2]
  <2> SUFFICES ASSUME NEW r \in R
               PROVE  /\ journal[r].status = "none" /\ journal'[r].status \in {"queued", "preparing"}
                      /\ journal'[r].doc = DocumentOf(journal'[r].doc.sale)
                      /\ journal'[r].doc.sale \in Sold /\ ~Reserved(journal'[r].doc.sale)
                      /\ journal'[r].doc.sale = r[2]
    OBVIOUS
  <2>1. PICK s \in granted : r = <<"auto", s>> /\ journal'[r] = Claim(r, s, cashier.epoch, "queued")
    BY <1>8
  <2>2. journal'[r].doc = DocumentOf(s) /\ DocumentOf(s).sale = s /\ journal'[r].status = "queued"
    BY <2>1 DEF Claim, DocumentOf
  <2>3. Claimable(r, s) /\ s \in Sold
    BY <1>3, <1>4, <2>1
  <2> QED
    BY <2>1, <2>2, <2>3 DEF Claimable
<1>10. R \in SUBSET PrintRequest
  BY <1>8
<1>11. \A q \in R, r \in R : q # r => journal'[q].doc.sale # journal'[r].doc.sale
  BY <1>9
<1> HIDE DEF R
<1>12. JournalTypes' /\ Papers'
  BY <1>2, <1>5, <1>8, <1>9, <1>10, <1>11, ClaimsKeepPapers
<1>13. /\ Cardinality(ByItself') = Cardinality(ByItself) + n
       /\ n \in Nat /\ OldestFirst(granted) \in [1 .. n -> granted]
  <2>1. OldestFirst(granted) \in [1 .. n -> granted] /\ n \in Nat
    BY <1>3, Ordered
  <2>2. \A s \in granted : journal[<<"auto", s>>].status = "none" /\ journal'[<<"auto", s>>].status # "none"
    BY <1>9 DEF R
  <2>3. \A s \in Sold \ granted : journal'[<<"auto", s>>] = journal[<<"auto", s>>]
    BY <1>8, AutoRequests DEF R
  <2>4. ByItself' = ByItself \cup granted /\ ByItself \cap granted = {}
    BY <1>3, <2>2, <2>3 DEF ByItself
  <2>5. IsFiniteSet(granted) /\ IsFiniteSet(ByItself)
    BY <1>3, ByItselfFinite, FS_Subset
  <2>6. Cardinality(ByItself \cup granted) =
          Cardinality(ByItself) + Cardinality(granted) - Cardinality(ByItself \cap granted)
    BY <2>5, FS_Union
  <2> QED
    BY <2>1, <2>4, <2>6, FS_EmptySet, ByItselfFinite
<1> HIDE DEF n
<1>14. brought \in Seq(Work) /\ Len(brought) = n
       /\ \A i \in 1 .. n : brought[i].doc.sale \in Sold /\ brought[i].req \in PrintRequest
  <2>1. ASSUME NEW s \in granted
        PROVE  AutoWork(s) \in Work /\ AutoWork(s).doc.sale \in Sold /\ AutoWork(s).req \in PrintRequest
    <3>1. DocumentOf(s) \in Paper /\ DocumentOf(s).sale \in Sold
      BY <1>3, PrintAssumption DEF DocumentOf, Paper, Sold, PrintedBefore
    <3>2. <<"auto", s>> \in PrintRequest
      BY <1>3, AutoRequests
    <3> QED
      BY <1>2, <3>1, <3>2 DEF AutoWork, Work
  <2>2. \A i \in 1 .. n : OldestFirst(granted)[i] \in granted
    BY <1>13
  <2>3. brought \in [1 .. n -> Work]
    BY <2>1, <2>2
  <2>4. brought \in Seq(Work) /\ Len(brought) = n
    BY <1>13, <2>3
  <2> QED
    BY <2>1, <2>2, <2>4
<1> HIDE DEF brought
<1>15. /\ line' \in Seq(Work) /\ Len(line') = Len(line) + n
       /\ \A i \in 1 .. Len(line') :
            \/ i \in 1 .. Len(line) /\ line'[i] = line[i]
            \/ i - Len(line) \in 1 .. n /\ line'[i] = brought[i - Len(line)]
  <2>1. line \in Seq(Work) /\ Len(line) \in Nat
    BY <1>2 DEF LineTypes
  <2> QED
    BY <1>5, <1>13, <1>14, <2>1
<1>16. LineTypes'
  <2>1. Len(line') <= MaxLine + Cardinality(ByItself')
    <3>1. Len(line) \in Nat /\ Len(line) <= MaxLine + Cardinality(ByItself)
      BY <1>2 DEF LineTypes
    <3> QED
      BY <1>13, <1>15, <3>1, ByItselfFinite, PrintAssumption
  <2>2. \A i \in 1 .. Len(line') :
          line'[i].doc.sale \in Sold /\ (line'[i].do # "preview" => line'[i].req \in PrintRequest)
    BY <1>2, <1>14, <1>15 DEF LineTypes
  <2> QED
    BY <1>15, <2>1, <2>2 DEF LineTypes
<1>17. WindowTypes' /\ WorkTrue'
  <2>1. line # <<>> => line' # <<>> /\ Req1' = Req1
    <3> SUFFICES ASSUME line # <<>> PROVE line' # <<>> /\ line'[1] = line[1]
      BY DEF Req1
    <3>1. Len(line) \in Nat \ {0}
      BY <1>2 DEF LineTypes
    <3>2. 1 \in 1 .. Len(line') /\ ~(1 - Len(line) \in 1 .. n)
      BY <1>13, <1>15, <3>1
    <3> QED
      BY <1>15, <3>1, <3>2
  <2>2. \A r \in PrintRequest : journal[r].status # "none" => journal'[r] = journal[r]
    BY <1>8, <1>9
  <2> QED
    BY <1>5, <2>1, <2>2 DEF PrintInv, WindowTypes, WorkTrue
<1> QED
  BY <1>6, <1>12, <1>16, <1>17 DEF PrintInv

-----------------------------------------------------------------------------
LEMMA PrintSteps == PrintInv /\ [PrintNext]_printVars => PrintInv'
<1> SUFFICES ASSUME PrintInv, [PrintNext]_printVars PROVE PrintInv'
  OBVIOUS
<1>1. CASE UNCHANGED printVars
  BY <1>1, PapersStand, ChainStands, DeskStands DEF printVars, PrintInv
<1>2. CASE PrintNext
  BY <1>2, DeskKeeps, JoinKeeps, DecidedKeeps, WindowKeeps, AutomaticBegins, ByHandBegins,
     StoppedKeeps, PrintDispatchKeeps, PrinterAnswerKeeps, PrintRestartKeeps, CancelKeeps
  DEF PrintNext
<1> QED
  BY <1>1, <1>2

THEOREM PrintInvariant == PrintSpec => []PrintInv
BY PrintBegins, PrintSteps, PTL DEF PrintSpec

THEOREM PrintTypes == PrintSpec => []PrintTypeOK
<1>1. PrintInv => PrintTypeOK
  <2> SUFFICES ASSUME PrintInv PROVE PrintTypeOK
    OBVIOUS
  <2>1. Len(line) <= MaxLine + MaxSold
    BY ByItselfFinite, PrintAssumption DEF PrintInv, LineTypes
  <2> QED
    BY <2>1 DEF PrintInv, PrintTypeOK, DeskTypes, JournalTypes, WindowTypes, LineTypes, Papers, Job
<1> QED
  BY <1>1, PrintInvariant, PTL

(* Receipts (buildDocumentJson, reconcileStartup).                         *)
THEOREM OneOriginalOnly == PrintSpec => []OneOriginal
<1>1. PrintInv => OneOriginal
  BY DEF PrintInv, Papers, OriginalsHaveJobs, OneOriginal
<1> QED
  BY <1>1, PrintInvariant, PTL

-----------------------------------------------------------------------------
-----------------------------------------------------------------------------
(* Side by side.                                                           *)

(* The services explored side by side are the services: what is proved of  *)
(* the specification of one holds of it beside the others.  A step of the  *)
(* till is a step of one service and a stutter of every other.             *)
THEOREM TillRunsServices ==
  TillSpec => /\ LedgerSpec /\ ConvergenceSpec /\ CreateSpec /\ BeatSpec
              /\ AccessSpec /\ PrintSpec /\ Spec /\ InstallSpec
<1>1. TillInit => /\ LedgerInit /\ ConvergenceInit /\ CreateInit /\ BeatInit
                  /\ AccessInit /\ PrintInit /\ Init /\ InstallInit
  BY DEF TillInit
<1>2. [TillNext]_tillVars => [LedgerNext]_ledgerVars
  BY DEF TillNext, tillVars
<1>3. [TillNext]_tillVars => [ConvergenceNext]_convergenceVars
  BY DEF TillNext, tillVars
<1>4. [TillNext]_tillVars => [CreateNext]_createVars
  BY DEF TillNext, tillVars
<1>5. [TillNext]_tillVars => [BeatNext]_beatVars
  BY DEF TillNext, tillVars
<1>6. [TillNext]_tillVars => [AccessNext]_accessVars
  BY DEF TillNext, tillVars
<1>7. [TillNext]_tillVars => [PrintNext]_printVars
  BY DEF TillNext, tillVars
<1>8. [TillNext]_tillVars => [Next]_vars
  BY DEF TillNext, tillVars
<1>9. [TillNext]_tillVars => [InstallNext]_installVars
  BY DEF TillNext, tillVars
<1> QED
  BY <1>1, <1>2, <1>3, <1>4, <1>5, <1>6, <1>7, <1>8, <1>9, PTL
  DEF TillSpec, LedgerSpec, ConvergenceSpec, CreateSpec, BeatSpec, AccessSpec, PrintSpec, Spec,
      InstallSpec

(* What is explored stays what it is.                                      *)
TillChosen == exploring \in Services

(* The types of every service of a till, for any set of services.          *)
THEOREM TillTypes == TillSpec => []TillTypeOK
<1>1. TillInit => TillChosen
  BY DEF TillInit, TillChosen
<1>2. TillChosen /\ [TillNext]_tillVars => TillChosen'
  BY DEF TillChosen, TillNext, tillVars
<1>3. /\ TillChosen /\ LedgerTypeOK /\ ConvergenceTypeOK /\ CreateTypeOK
      /\ BeatTypeOK /\ AccessTypeOK /\ PrintTypeOK /\ TypeOK /\ InstallTypeOK
      => TillTypeOK
  BY DEF TillTypeOK, TillChosen
<1>4. TillSpec => []LedgerTypeOK /\ []ConvergenceTypeOK /\ []CreateTypeOK /\ []BeatTypeOK
  BY TillRunsServices, LedgerTypes, ConvergenceTypes, CreateTypes, HeartbeatTypes, PTL
<1>5. TillSpec => []AccessTypeOK /\ []PrintTypeOK /\ []TypeOK /\ []InstallTypeOK
  BY TillRunsServices, AccessTypes, PrintTypes, ConnectivityTypes, InstallTypes, PTL
<1> QED
  BY <1>1, <1>2, <1>3, <1>4, <1>5, PTL DEF TillSpec
=============================================================================
