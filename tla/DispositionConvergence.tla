----------------------- MODULE DispositionConvergence -----------------------
(***************************************************************************)
(* Quarantined sales and the decisions an operator takes about them on the *)
(* server.  A trigger, bounded by a lock and an interval, starts runs; a   *)
(* run picks candidates, asks the server and, after the await, verifies    *)
(* and files each decision.  Sales are numbered in the order they were     *)
(* created and all belong to one owner; the session may pass to another.   *)
(* Time is counted in the trigger's interval, of which a row's own         *)
(* interval is two.                                                        *)
(***************************************************************************)
EXTENDS Integers, FiniteSets, Sequences, FiniteSetsExt

CONSTANTS
  Quarantined,  \* bound: sales 1 .. Quarantined
  Proofs,       \* a sale's frozen proofs, grouped by grant, by sequence within one
  Batch,        \* most sales one question names (SYNC_STATUS_MAXIMUM_KEYS)
  MaxUpsets     \* bound: session changes, lost answers, wrong answers, restarts

(* A quarantined sale has proofs, and those of one grant come in its order. *)
ASSUME ConvergenceAssumption ==
  /\ Quarantined \in Nat /\ Batch \in Nat \ {0} /\ MaxUpsets \in Nat
  /\ Len(Proofs) \in Nat \ {0} /\ DOMAIN Proofs = 1 .. Len(Proofs)
  /\ \A k \in DOMAIN Proofs : Proofs[k].sequence \in Nat \ {0}
  /\ \A k, l \in DOMAIN Proofs :
       k < l /\ Proofs[k].grant = Proofs[l].grant => Proofs[k].sequence < Proofs[l].sequence

VARIABLES
  row,       \* the sale's invoice row and queue row, which change together
  filed,     \* invoice_disposition_applications and the holds written with them
  disputed,  \* sales under invoice_disposition_conflicts
  verdict,   \* server: the decision stored for each sale
  signedIn,  \* whose session the till has; restricted is the owner's that may not sync
  trigger,   \* the lock, and intervals since the last run began
  asked,     \* intervals since each row was last asked about, 2 for long ago
  question,  \* the run under way
  upsets

rowVars == <<row, filed, disputed>>
convergenceVars == <<rowVars, verdict, signedIn, trigger, asked, question, upsets>>

Quarantine == 1 .. Quarantined
Index      == DOMAIN Proofs
Held       == {Proofs[k].grant : k \in Index}
Places     == {0} \cup {Proofs[k].sequence : k \in Index}
Mark       == {"accepted", "failed", "prefix_broken", "permanent"}
Result     == [accepting : BOOLEAN, mark : [Index -> Mark], bound : BOOLEAN,
               coverage : [Held -> Places], holds : [Held -> Places]]
NoResult   == [accepting |-> FALSE]
NoQuestion == [at |-> "none", owner |-> "nobody", rows |-> {}, entries |-> <<>>]

ConvergenceTypeOK ==
  /\ row \in [Quarantine -> {"rejected", "pending", "synced"}]
  /\ \A i \in Quarantine : filed[i] = NoResult \/ filed[i] \in Result
  /\ \A i \in Quarantine : verdict[i] = NoResult \/ verdict[i] \in Result
  /\ disputed \in SUBSET Quarantine
  /\ signedIn \in {"owner", "restricted", "other", "nobody"}
  /\ trigger \in [inFlight : BOOLEAN, since : 0 .. 1] /\ asked \in [Quarantine -> 0 .. 2]
  /\ question.at \in {"none", "asked", "answered"} /\ question.rows \in SUBSET Quarantine
  /\ upsets \in 0 .. MaxUpsets

Fresh == trigger' = [inFlight |-> FALSE, since |-> 1] /\ asked' = [i \in Quarantine |-> 2]
         /\ question' = NoQuestion

ConvergenceInit ==
  /\ row = [i \in Quarantine |-> "rejected"] /\ filed = [i \in Quarantine |-> NoResult]
  /\ disputed = {} /\ verdict = [i \in Quarantine |-> NoResult] /\ signedIn = "owner"
  /\ trigger = [inFlight |-> FALSE, since |-> 1] /\ asked = [i \in Quarantine |-> 2]
  /\ question = NoQuestion /\ upsets = 0

Upset == upsets < MaxUpsets /\ upsets' = upsets + 1

-----------------------------------------------------------------------------
(* What a decision must say.                                               *)
On(g)           == {k \in Index : Proofs[k].grant = g}
Overridden(m)   == {k \in Index : m[k] # "accepted"}
SequencesOf(S)   == {Proofs[k].sequence : k \in S}
LastAccepted(m) == [g \in Held |-> Max({0} \cup SequencesOf(On(g) \ Overridden(m)))]
FirstOverridden(m) == [g \in Held |->
  LET broken == SequencesOf(On(g) \cap Overridden(m))
  IN  IF broken = {} THEN 0 ELSE Min(broken)]

(* Of each grant a prefix is accepted.                                     *)
AcceptsPrefixes(m) ==
  \A g \in Held : \A k, l \in On(g) : k < l /\ m[l] = "accepted" => m[k] = "accepted"

(* The first proof a grant breaks at says why, the later ones that it broke *)
NamesReasons(m) ==
  \A g \in Held : \A k \in On(g) \cap Overridden(m) :
    m[k] = IF \E l \in On(g) \cap Overridden(m) : l < k THEN "prefix_broken" ELSE "failed"

Marked(r) == IF r.accepting THEN NamesReasons(r.mark) ELSE \A k \in Index : r.mark[k] = "permanent"

(* Mutant: an accepted proof after an overridden one is let through.       *)
Verify_AnyOrder(r) ==
  /\ r.bound /\ Marked(r)
  /\ r.coverage = LastAccepted(r.mark) /\ r.holds = FirstOverridden(r.mark)

(* bound stands for the hashes, the identity of the sale, its proofs and its *)
(* journal rows, and the status told with the decision.                    *)
Verify(r) ==
  /\ r.bound /\ Marked(r) /\ AcceptsPrefixes(r.mark)
  /\ r.coverage = LastAccepted(r.mark) /\ r.holds = FirstOverridden(r.mark)

Decision(accepting, m) ==
  [accepting |-> accepting, mark |-> m, bound |-> TRUE,
   coverage |-> LastAccepted(m), holds |-> FirstOverridden(m)]

(* The server's decisions: each grant is accepted up to where it breaks.   *)
Drafts    == {Decision(a, m) : a \in BOOLEAN, m \in [Index -> Mark]}
Decisions == {r \in Drafts : Marked(r) /\ AcceptsPrefixes(r.mark)}

(* An answer with something wrong about it.  One that cannot be read is put *)
(* on record before the row is read again: nothing but the run moves a row  *)
(* that is asked about, so it fares like one that does not verify.         *)
Garbled ==
  (Drafts \ Decisions) \cup {[r EXCEPT !.bound = FALSE] : r \in Decisions}
  \cup {[r EXCEPT !.holds = [g \in Held |-> 0]] : r \in Decisions}

ServerRules(i) ==
  /\ verdict[i] = NoResult
  /\ \E r \in Decisions : verdict' = [verdict EXCEPT ![i] = r]
  /\ UNCHANGED <<rowVars, signedIn, trigger, asked, question, upsets>>

-----------------------------------------------------------------------------
(* The owner a session resolves to, whatever it may do.                     *)
SessionOwner == IF signedIn = "restricted" THEN "owner" ELSE signedIn

(* findCandidates, less the rows asked about of late, oldest first.        *)
Candidates ==
  {i \in Quarantine : /\ SessionOwner = "owner" /\ row[i] = "rejected"
                      /\ filed[i] = NoResult /\ i \notin disputed /\ asked[i] = 2}

Oldest(S) == {i \in S : Cardinality({j \in S : j < i}) < Batch}

(* Startup and every publication of access ask for a run, which needs sync  *)
(* access, the permission, a connection and an owner.                      *)
RequestConvergence ==
  /\ ~trigger.inFlight /\ trigger.since = 1 /\ signedIn \notin {"nobody", "restricted"}
  /\ trigger' = [inFlight |-> Candidates # {}, since |-> 0]
  /\ question' = IF Candidates = {} THEN NoQuestion
                 ELSE [at |-> "asked", owner |-> SessionOwner, rows |-> Oldest(Candidates),
                       entries |-> <<>>]
  /\ UNCHANGED <<rowVars, verdict, signedIn, asked, upsets>>

ServerTells ==
  /\ question.at = "asked"
  /\ \/ question' = [question EXCEPT !.at = "answered",
                       !.entries = [i \in question.rows |-> verdict[i]]] /\ UNCHANGED upsets
     \/ /\ Upset
        /\ \E i \in question.rows : \E r \in Garbled :
             question' = [question EXCEPT !.at = "answered",
               !.entries = [[j \in question.rows |-> verdict[j]] EXCEPT ![i] = r]]
  /\ UNCHANGED <<rowVars, verdict, signedIn, trigger, asked>>

(* Mutant: a run that failed keeps the lock.                               *)
RunFails_KeepsLock ==
  /\ question.at = "asked" /\ Upset /\ question' = NoQuestion
  /\ UNCHANGED <<rowVars, verdict, signedIn, trigger, asked>>

(* No answer, or one that names a key twice or leaves one out.             *)
RunFails ==
  /\ question.at = "asked" /\ Upset /\ question' = NoQuestion
  /\ trigger' = [trigger EXCEPT !.inFlight = FALSE]
  /\ UNCHANGED <<rowVars, verdict, signedIn, asked>>

(* Mutant: the session is not looked at again after the await.             *)
StillOwner_Unchecked == TRUE

StillOwner == SessionOwner = question.owner

(* apply: the row is read again in the transaction; a decision that does not *)
(* verify is put on record and changes nothing.                            *)
Applies(i) == StillOwner /\ question.entries[i] # NoResult /\ row[i] = "rejected"
              /\ filed[i] = NoResult

RunApplies ==
  /\ question.at = "answered" /\ question' = NoQuestion
  /\ trigger' = [trigger EXCEPT !.inFlight = FALSE]
  /\ asked' = [i \in Quarantine |-> IF i \in question.rows THEN 0 ELSE asked[i]]
  /\ LET applied == {i \in question.rows : Applies(i) /\ Verify(question.entries[i])}
     IN  /\ filed' = [i \in Quarantine |-> IF i \in applied THEN question.entries[i] ELSE filed[i]]
         /\ row' = [i \in Quarantine |-> IF i \in applied /\ question.entries[i].accepting
                                           THEN "synced" ELSE row[i]]
         /\ disputed' = disputed \cup {i \in question.rows : Applies(i) /\ i \notin applied}
  /\ UNCHANGED <<verdict, signedIn, upsets>>

-----------------------------------------------------------------------------
IntervalPasses ==
  /\ trigger.since = 0 \/ \E i \in Quarantine : asked[i] < 2
  /\ trigger' = [trigger EXCEPT !.since = 1]
  /\ asked' = [i \in Quarantine |-> IF asked[i] < 2 THEN asked[i] + 1 ELSE 2]
  /\ UNCHANGED <<rowVars, verdict, signedIn, question, upsets>>

SessionPasses ==
  /\ \E s \in {"owner", "restricted", "other", "nobody"} : s # signedIn /\ signedIn' = s
  /\ IF signedIn' = "owner" THEN UNCHANGED upsets ELSE Upset
  /\ UNCHANGED <<rowVars, verdict, trigger, asked, question>>

(* The app closes, and the operator's script may offer a sale again.       *)
Restart ==
  /\ Upset /\ Fresh
  /\ \/ UNCHANGED row
     \/ \E i \in Quarantine : row[i] = "rejected" /\ row' = [row EXCEPT ![i] = "pending"]
  /\ UNCHANGED <<filed, disputed, verdict, signedIn>>

(* Uploaded again, the sale is answered by what the server made of it.     *)
Reuploads(i) ==
  /\ row[i] = "pending" /\ signedIn = "owner"
  /\ row' = [row EXCEPT ![i] =
       IF verdict[i] # NoResult /\ verdict[i].accepting THEN "synced" ELSE "rejected"]
  /\ UNCHANGED <<filed, disputed, verdict, signedIn, trigger, asked, question, upsets>>

ConvergenceNext ==
  \/ RequestConvergence \/ ServerTells \/ RunFails \/ RunApplies
  \/ IntervalPasses \/ SessionPasses \/ Restart
  \/ \E i \in Quarantine : ServerRules(i) \/ Reuploads(i)

ConvergenceSpec == ConvergenceInit /\ [][ConvergenceNext]_convergenceVars

-----------------------------------------------------------------------------
(* A decision is filed while its sale's owner is signed in, whoever the     *)
(* session passed to between the question and its answer.                  *)
FiledForItsOwner ==
  [][\A i \in Quarantine : filed'[i] # filed[i] => SessionOwner = "owner"]_convergenceVars

(* Whatever the server answers, what is filed is coherent: a grant is held *)
(* exactly when an entry of it was overridden, nothing the server takes    *)
(* lies beyond the hold, and a sale is synced if its decision accepts it.  *)
FiledIsCoherent ==
  \A i \in Quarantine : filed[i] # NoResult =>
    /\ \A k \in Index : filed[i].mark[k] = "accepted" <=>
         LET hold == filed[i].holds[Proofs[k].grant]
         IN  hold = 0 \/ Proofs[k].sequence < hold
    /\ filed[i].accepting <=> row[i] = "synced"

(* A decision reaches the till, or its sale is put on record as disputed,   *)
(* as long as the owner stays signed in and may sync.                      *)
DecisionReaches ==
  \A i \in Quarantine :
    verdict[i] # NoResult /\ row[i] # "synced"
      ~> filed[i] # NoResult \/ i \in disputed \/ row[i] = "synced" \/ signedIn # "owner"
=============================================================================
