---------------------------- MODULE Preparation ----------------------------
(***************************************************************************)
(* Offline stock preparation: preparation.service.ts,                      *)
(* preparation.repository.ts, preparationCompleteness.ts,                  *)
(* preparationDependencies.ts.  A cycle picks the products no unsettled    *)
(* sale touches, freezes them in an operation, asks the server to reserve  *)
(* stock for them, and sends the same bytes again until a definitive       *)
(* answer.  A cycle runs whenever access is published and when the cashier *)
(* asks; nothing keeps two from overlapping.  One owner (company, device,  *)
(* warehouse).                                                             *)
(***************************************************************************)
EXTENDS Naturals, FiniteSets, Sequences

CONSTANTS
  Product,       \* the products the till holds evidence of
  MaxOperations, \* bound: operations
  MaxRuns,       \* bound: cycles running at once
  MaxPolicy,     \* bound: policy revisions of the server
  MaxSetbacks    \* bound: lost, unusable and unavailable answers, crashes

ASSUME PreparationAssumption ==
  /\ IsFiniteSet(Product)
  /\ MaxOperations \in Nat /\ MaxRuns \in Nat /\ MaxPolicy \in Nat \ {0} /\ MaxSetbacks \in Nat

VARIABLES
  operations, \* SQLite: prepare_operations, in the order of captured_at
  learned,    \* SQLite: app_settings preparation.policy_revision, 0 if none
  ingested,   \* SQLite: grants by operation and product
  cycle,      \* the cycles in memory
  policy,     \* the server's policy revision
  decided,    \* the server's decisions: the products it granted, by operation
  straggling, \* operations with a request on its way that nobody awaits
  setbacks

prepareVars ==
  <<operations, learned, ingested, cycle, policy, decided, straggling, setbacks>>

UnresolvedStates == {"captured", "dispatching", "ambiguous", "discovered_pending_replay"}
OperationState == UnresolvedStates \cup {"applied", "conflicted", "superseded_uncommitted"}
Operation == [products : (SUBSET Product) \ {{}}, revision : 0 .. MaxPolicy, state : OperationState]

\* What a cycle awaits: the candidates, or the answer to a request.
ServerAnswer == [kind : {"decision", "truncated", "malformed", "invalid", "absent"}]
                  \cup [kind : {"stale"}, revision : 1 .. MaxPolicy]
NoAnswer == [kind |-> "none"]
NoCycle == [at |-> "idle", operation |-> 0, answer |-> NoAnswer]
Running == 1 .. MaxRuns

PrepareTypeOK ==
  /\ operations \in Seq(Operation) /\ Len(operations) <= MaxOperations
  /\ learned \in 0 .. MaxPolicy /\ policy \in 1 .. MaxPolicy
  /\ ingested \subseteq (1 .. MaxOperations) \X Product
  /\ cycle \in [Running -> [at : {"idle", "resolving", "sent", "answered"},
                            operation : 0 .. MaxOperations, answer : {NoAnswer} \cup ServerAnswer]]
  /\ DOMAIN decided \subseteq DOMAIN operations
  /\ \A o \in DOMAIN decided : decided[o] \subseteq operations[o].products
  /\ straggling \subseteq DOMAIN operations
  /\ setbacks \in 0 .. MaxSetbacks

PrepareInit ==
  /\ operations = <<>> /\ ingested = {}
  /\ learned \in {0, 1} \* a till that has never asked, or has
  /\ cycle = [r \in Running |-> NoCycle]
  /\ policy = 1 /\ decided = [o \in {} |-> {}] /\ straggling = {} /\ setbacks = 0

-----------------------------------------------------------------------------
(* A cycle.                                                                *)

UnresolvedOperations ==
  {o \in DOMAIN operations : operations[o].state \in UnresolvedStates}

\* productsOwnedByUnresolvedOperations.
Owned == UNION {operations[o].products : o \in UnresolvedOperations}

\* partitionCandidates: `touched` are the products of unsettled sales at or
\* below the captured boundary, all of them if a sale's scope is unknown.
Eligible(touched) == Product \ (touched \cup Owned)

Ends(r) == cycle' = [cycle EXCEPT ![r] = NoCycle]

\* dispatch, up to the request: nothing leaves offline or without a session.
DispatchOperation(r, o, rows) ==
  \/ operations' = rows /\ Ends(r)
  \/ /\ operations' = [rows EXCEPT ![o].state = IF @ = "captured" THEN "dispatching" ELSE @]
     /\ cycle' = [cycle EXCEPT ![r] = [at |-> "sent", operation |-> o, answer |-> NoAnswer]]

(* runCycle: an unresolved operation is sent again before anything else.   *)
RunCycle(r) ==
  /\ cycle[r].at = "idle"
  /\ IF UnresolvedOperations # {}
     THEN \E o \in UnresolvedOperations :
            (\A p \in UnresolvedOperations : o <= p) /\ DispatchOperation(r, o, operations)
     ELSE /\ cycle' = [cycle EXCEPT ![r].at = "resolving"]
          /\ UNCHANGED operations
  /\ UNCHANGED <<learned, ingested, policy, decided, straggling, setbacks>>

(* captureAndFreeze, after the await of the candidates, and dispatch.      *)
CaptureAndFreeze(r) ==
  /\ cycle[r].at = "resolving"
  /\ \E touched \in SUBSET Product :
       IF Eligible(touched) = {} THEN Ends(r) /\ UNCHANGED operations
       ELSE /\ Len(operations) < MaxOperations
            /\ DispatchOperation(r, Len(operations) + 1,
                                 Append(operations, [products |-> Eligible(touched),
                                                     revision |-> learned, state |-> "captured"]))
  /\ UNCHANGED <<learned, ingested, policy, decided, straggling, setbacks>>

-----------------------------------------------------------------------------
(* The server: a decision is made once and replayed; a request evaluated   *)
(* against another policy revision than the server's creates nothing.      *)

Decides(o) ==
  IF o \in DOMAIN decided THEN UNCHANGED decided
  ELSE /\ operations[o].revision = policy
       /\ \E granted \in SUBSET operations[o].products :
            decided' = [p \in DOMAIN decided \cup {o} |-> IF p = o THEN granted ELSE decided[p]]

Stale(o) == o \notin DOMAIN decided /\ operations[o].revision # policy

Answers(r, answer) == cycle' = [cycle EXCEPT ![r].at = "answered", ![r].answer = answer]

ServerAnswers(r) ==
  /\ cycle[r].at = "sent"
  /\ \/ Decides(cycle[r].operation) /\ Answers(r, [kind |-> "decision"])
     \/ /\ Stale(cycle[r].operation)
        /\ Answers(r, [kind |-> "stale", revision |-> policy]) /\ UNCHANGED decided
  /\ UNCHANGED <<operations, learned, ingested, policy, straggling, setbacks>>

(* An answer that is cut short, cannot be parsed, or names grants that are *)
(* not this operation's; or the capability is switched off: nothing runs.  *)
ServerFails(r) ==
  /\ cycle[r].at = "sent" /\ setbacks < MaxSetbacks /\ setbacks' = setbacks + 1
  /\ \/ /\ Decides(cycle[r].operation)
        /\ \E kind \in {"truncated", "malformed", "invalid"} : Answers(r, [kind |-> kind])
     \/ Answers(r, [kind |-> "absent"]) /\ UNCHANGED decided
  /\ UNCHANGED <<operations, learned, ingested, policy, straggling>>

(* A request nobody awaits any more reaches the server after all.          *)
StragglerArrives(o) ==
  /\ o \in straggling /\ straggling' = straggling \ {o}
  /\ Decides(o) \/ (Stale(o) /\ UNCHANGED decided)
  /\ UNCHANGED <<operations, learned, ingested, cycle, policy, setbacks>>

PolicyChanges ==
  /\ policy < MaxPolicy /\ policy' = policy + 1
  /\ UNCHANGED <<operations, learned, ingested, cycle, decided, straggling, setbacks>>

-----------------------------------------------------------------------------
(* The answer.                                                             *)

\* The guards of the repository's updates.
Moves(o, from, to) ==
  operations' = [operations EXCEPT ![o].state = IF @ \in from THEN to ELSE @]
MarkAmbiguous(o) == Moves(o, {"captured", "dispatching", "ambiguous"}, "ambiguous")

Ingests(o, products) == ingested' = ingested \cup ({o} \X products)

(* applyResponse with a complete decision: grants, outcomes and state in   *)
(* one transaction.                                                        *)
AppliesDecision(r) ==
  LET o == cycle[r].operation IN
  /\ cycle[r].answer.kind = "decision"
  /\ IF operations[o].state = "applied" THEN UNCHANGED <<operations, ingested>>
     ELSE Ingests(o, decided[o]) /\ Moves(o, UnresolvedStates, "applied")
  /\ UNCHANGED learned

(* evaluateCompleteness finds something missing: what did arrive can be    *)
(* sold, the operation stays open.                                         *)
PartlyApplies(r) ==
  LET o == cycle[r].operation IN
  /\ cycle[r].answer.kind = "truncated"
  /\ IF operations[o].state = "applied" THEN UNCHANGED <<operations, ingested>>
     ELSE \E some \in SUBSET decided[o] :
            /\ Ingests(o, some)
            /\ IF some = {} THEN MarkAmbiguous(o)
               ELSE Moves(o, {"dispatching", "ambiguous"}, "discovered_pending_replay")
  /\ UNCHANGED learned

(* toGrants refuses the envelope as a whole.  IDEMPOTENCY_CONFLICT ends    *)
(* the same way; frozen bytes are never answered by it.                    *)
Refuses(r) ==
  /\ cycle[r].answer.kind = "invalid"
  /\ Moves(cycle[r].operation, UnresolvedStates, "conflicted")
  /\ UNCHANGED <<learned, ingested>>

(* POLICY_REVISION_STALE proves that the server holds nothing; the         *)
(* revision it names, if it can be read, is kept for the next cycle.       *)
Superseded(r) ==
  /\ cycle[r].answer.kind = "stale"
  /\ Moves(cycle[r].operation, {"captured", "dispatching", "ambiguous"}, "superseded_uncommitted")
  /\ learned' \in {learned, cycle[r].answer.revision}
  /\ UNCHANGED ingested

\* Mutant: a 404 is taken for a proof that nothing was created.
Unavailable_Supersedes(r) ==
  /\ cycle[r].answer.kind = "absent"
  /\ Moves(cycle[r].operation, {"captured", "dispatching", "ambiguous"}, "superseded_uncommitted")
  /\ UNCHANGED <<learned, ingested>>

(* A 404 is about the feature and not about the operation.                 *)
Unavailable(r) ==
  cycle[r].answer.kind = "absent" /\ UNCHANGED <<operations, learned, ingested>>

Unreadable(r) ==
  /\ cycle[r].answer.kind = "malformed" /\ MarkAmbiguous(cycle[r].operation)
  /\ UNCHANGED <<learned, ingested>>

Receive(r) ==
  /\ cycle[r].at = "answered" /\ Ends(r)
  /\ \/ AppliesDecision(r) \/ PartlyApplies(r) \/ Refuses(r) \/ Superseded(r) \/ Unavailable(r)
     \/ Unreadable(r)
  /\ UNCHANGED <<policy, decided, straggling, setbacks>>

(* The timeout, an aborted connection or a 5xx: the request or its answer  *)
(* is lost, and the request may still arrive.                              *)
Fails(r) ==
  /\ cycle[r].at \in {"sent", "answered"} /\ setbacks < MaxSetbacks
  /\ setbacks' = setbacks + 1
  /\ MarkAmbiguous(cycle[r].operation) /\ Ends(r)
  /\ straggling' = straggling \cup (IF cycle[r].at = "sent" THEN {cycle[r].operation} ELSE {})
  /\ UNCHANGED <<learned, ingested, policy, decided>>

(* The process dies and starts again.                                      *)
CrashPreparing ==
  /\ setbacks < MaxSetbacks /\ setbacks' = setbacks + 1
  /\ \E r \in Running : cycle[r].at # "idle"
  /\ cycle' = [r \in Running |-> NoCycle]
  /\ straggling' = straggling
                     \cup {cycle[r].operation : r \in {x \in Running : cycle[x].at = "sent"}}
  /\ UNCHANGED <<operations, learned, ingested, policy, decided>>

-----------------------------------------------------------------------------
PrepareNext ==
  \/ \E r \in Running :
       \/ RunCycle(r) \/ CaptureAndFreeze(r) \/ Receive(r) \/ Fails(r)
       \/ ServerAnswers(r) \/ ServerFails(r)
  \/ \E o \in straggling : StragglerArrives(o)
  \/ PolicyChanges \/ CrashPreparing

PrepareSpec == PrepareInit /\ [][PrepareNext]_prepareVars

-----------------------------------------------------------------------------
(* Stock is asked for again only when it is known how the earlier request  *)
(* for the product ended: with the decision applied and every grant of it  *)
(* ingested, or with nothing created at the server, then or later.  An      *)
(* operation that ended in conflict for its grants is excepted.  (The      *)
(* header of preparation.service.ts: what goes wrong otherwise is "a       *)
(* second, unlinked grant".)                                               *)
NoBlindRequest ==
  \A o \in DOMAIN operations, p \in DOMAIN operations :
    o < p /\ operations[o].products \cap operations[p].products # {} =>
      \/ operations[o].state = "applied" /\ {o} \X decided[o] \subseteq ingested
      \/ operations[o].state = "superseded_uncommitted" /\ o \notin DOMAIN decided
      \/ operations[o].state = "conflicted"
=============================================================================
