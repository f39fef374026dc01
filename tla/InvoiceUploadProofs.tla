------------------------ MODULE InvoiceUploadProofs ------------------------
(***************************************************************************)
(* Proofs about the invoice upload lane, for every set of sales, owners    *)
(* and grants and every budget of faults.                                  *)
(***************************************************************************)
EXTENDS InvoiceUpload, TLAPS

-----------------------------------------------------------------------------
\* Next, flattened into its actions: one case per action in the proofs below.
LEMMA NextCases ==
    ASSUME Next
    PROVE  \/ \E i \in Invoice : Commit(i)
           \/ \E i \in Invoice : EntityAccepted(i)
           \/ \E i \in Invoice : Requeue(i)
           \/ \E i \in Invoice : Converge(i)
           \/ \E i \in Invoice : DeadlinePasses(i)
           \/ \E i \in Invoice : LeaseAges(i)
           \/ \E i \in Invoice : Ripens(i)
           \/ \E i \in Invoice : ServerDecides(i)
           \/ \E o \in Owner : Login(o)
           \/ Logout \/ AccessLost \/ AccessBack \/ Trigger
           \/ SampleArrives \/ SampleLost \/ Crash \/ Start
           \/ \E k \in Invoice, c \in Chain : Snapshot(c, k)
           \/ Reconcile \/ DrainDenied \/ DrainDone
           \/ \E i \in Invoice : Claim(i)
           \/ \E i \in Invoice : ClaimCorrupt(i)
           \/ RecordSynced \/ RecordFailure \/ RecordPause
           \/ Timeout \/ RecordThrows \/ TimerFires
           \/ \E m \in wire : ServerHandles(m)
           \/ \E m \in wire : Lose(m)
BY Zenon DEF Next, SaleStep, TillStep, WorkerStep, NetworkStep

\* The initial states are well typed.
LEMMA TypeInit == ASSUME Init PROVE TypeOK
<1>1. DurableTypeOK
  BY DEF Init, DurableTypeOK, QueueState
<1>2. WorkerTypeOK
  BY DEF Init, WorkerTypeOK, ProcState
<1>3. OutsideTypeOK
  BY InvoiceAssumption DEF Init, OutsideTypeOK, ServerState
<1> QED
  BY <1>1, <1>2, <1>3 DEF TypeOK

\* The states a step may write are states.
LEMMA StateNames ==
    /\ \A q \in {"absent", "pending", "uploading", "retryable_error", "synced",
                "conflict", "rejected"} : q \in QueueState
    /\ \A q \in {"down", "idle", "requested", "draining", "waiting"} : q \in ProcState
    /\ \A q \in {"none", "committed", "overridden", "quarantined", "refused"} :
            q \in ServerState
    /\ \A q \in {"accepted", "rejected", "quarantined", "conflict", "error", "denied"} :
            q \in Answer
BY DEF QueueState, Terminal, ProcState, ServerState, Answer

\* What a step leaves alone keeps its type.
LEMMA DurableFrame == ASSUME DurableTypeOK, UNCHANGED durable PROVE DurableTypeOK'
BY DEF DurableTypeOK, durable

LEMMA WorkerFrame == ASSUME WorkerTypeOK, UNCHANGED worker PROVE WorkerTypeOK'
BY DEF WorkerTypeOK, worker

LEMMA OutsideFrame == ASSUME OutsideTypeOK, UNCHANGED outside PROVE OutsideTypeOK'
BY DEF OutsideTypeOK, outside

\* Every step keeps the persisted rows in their types.
LEMMA DurableNext == ASSUME TypeOK, Next PROVE DurableTypeOK'
<1> USE InvoiceAssumption, StateNames DEF TypeOK
<1>0. CASE UNCHANGED durable
  BY <1>0, DurableFrame
<1>1. ASSUME NEW i \in Invoice, Commit(i) PROVE DurableTypeOK'
  BY <1>1 DEF Commit, DurableTypeOK
<1>2. ASSUME NEW i \in Invoice, Requeue(i) PROVE DurableTypeOK'
  BY <1>2 DEF Requeue, DurableTypeOK
<1>3. ASSUME NEW i \in Invoice, Converge(i) PROVE DurableTypeOK'
  BY <1>3 DEF Converge, ChainsOf, DurableTypeOK
<1>4. ASSUME NEW i \in Invoice, DeadlinePasses(i) PROVE DurableTypeOK'
  BY <1>4 DEF DeadlinePasses, DurableTypeOK
<1>5. ASSUME NEW i \in Invoice, LeaseAges(i) PROVE DurableTypeOK'
  BY <1>5 DEF LeaseAges, DurableTypeOK
<1>6. ASSUME NEW k \in Invoice, NEW c \in Chain, Snapshot(c, k) PROVE DurableTypeOK'
  BY <1>6 DEF Snapshot, DurableTypeOK
<1>7. CASE Reconcile
  BY <1>7 DEF Reconcile, DurableTypeOK
<1>8. ASSUME NEW i \in Invoice, Claim(i) PROVE DurableTypeOK'
  BY <1>8 DEF Claim, DurableTypeOK
<1>9. ASSUME NEW i, NEW q \in QueueState, NEW d \in BOOLEAN,
             NEW z \in BOOLEAN, Record(i, q, d, z),
             attempts' \in [Invoice -> Nat], cover' \in [Chain -> Nat],
             broken' = broken
      PROVE  DurableTypeOK'
  BY <1>9 DEF Record, DurableTypeOK
<1>10. ASSUME NEW i \in Invoice, ClaimCorrupt(i) PROVE DurableTypeOK'
  <2>1. attempts' \in [Invoice -> Nat]
    BY <1>10 DEF ClaimCorrupt, DurableTypeOK
  <2> QED
    BY <1>9, <1>10, <2>1 DEF ClaimCorrupt, DurableTypeOK
<1>11. CASE RecordSynced
  <2>1. cur \in Invoice
    BY <1>11 DEF RecordSynced, Answered, WorkerTypeOK
  <2>2. \A c \in Chain : SequenceOn[c][cur] \in Nat /\ cover[c] \in Nat
    BY <2>1 DEF DurableTypeOK
  <2>3. cover' \in [Chain -> Nat]
    BY <1>11, <2>2 DEF RecordSynced
  <2> QED
    BY <1>11, <2>3 DEF RecordSynced, Record, DurableTypeOK
<1>12. CASE RecordFailure
  <2>1. PICK q \in {"rejected", "conflict", "retryable_error"}, d \in BOOLEAN,
             z \in BOOLEAN : Record(cur, q, d, z)
    BY <1>12, Zenon DEF RecordFailure
  <2> QED
    BY <1>9, <1>12, <2>1 DEF RecordFailure, DurableTypeOK
<1>13. CASE RecordPause
  BY <1>13 DEF RecordPause, Record, DurableTypeOK
<1>14. CASE Timeout
  BY <1>14 DEF Timeout, Record, DurableTypeOK
<1>15. CASE \/ \E i \in Invoice : EntityAccepted(i)
            \/ \E i \in Invoice : Ripens(i)
            \/ \E i \in Invoice : ServerDecides(i)
            \/ \E o \in Owner : Login(o)
            \/ Logout \/ AccessLost \/ AccessBack \/ Trigger
            \/ SampleArrives \/ SampleLost \/ Crash \/ Start
            \/ DrainDenied \/ DrainDone \/ RecordThrows \/ TimerFires
            \/ \E m \in wire : ServerHandles(m)
            \/ \E m \in wire : Lose(m)
  BY <1>15, <1>0, Zenon
     DEF EntityAccepted, Ripens, ServerDecides, Login, Logout, AccessLost, AccessBack,
         Trigger, SampleArrives, SampleLost, Crash, Start, DrainDenied, DrainDone,
         RecordThrows, TimerFires, ServerHandles, Lose
<1> QED
  BY NextCases, <1>1, <1>2, <1>3, <1>4, <1>5, <1>6, <1>7, <1>8, <1>10, <1>11, <1>12,
     <1>13, <1>14, <1>15, Zenon

\* Every step keeps the worker's own state in its types.
LEMMA WorkerNext == ASSUME TypeOK, Next PROVE WorkerTypeOK'
<1> USE InvoiceAssumption, StateNames DEF TypeOK
<1>0. CASE UNCHANGED worker
  BY <1>0, WorkerFrame
<1>1. ASSUME RequestRun, UNCHANGED <<cur, paused, deferred, awaiting, reply>>,
             wake' \in BOOLEAN
      PROVE  WorkerTypeOK'
  BY <1>1 DEF RequestRun, WorkerTypeOK
<1>2. CASE \/ \E i \in Invoice : Commit(i) \/ EntityAccepted(i) \/ Converge(i)
           \/ \E o \in Owner : Login(o)
           \/ AccessBack \/ Trigger \/ SampleArrives \/ TimerFires
  BY <1>1, <1>2 DEF Commit, EntityAccepted, Converge, Login, AccessBack, Trigger,
                    SampleArrives, TimerFires, WorkerTypeOK
<1>3. CASE Crash \/ Start
  BY <1>3 DEF Crash, Start, WorkerTypeOK, None
<1>4. CASE Reconcile
  BY <1>4 DEF Reconcile, WorkerTypeOK
<1>5. CASE DrainDenied
  BY <1>5 DEF DrainDenied, FinishDrain, WorkerTypeOK
<1>6. CASE DrainDone
  <2>1. deferred' \in BOOLEAN /\ awaiting' \in BOOLEAN /\ wake' \in BOOLEAN
    BY <1>6 DEF DrainDone, DeferredBy, AwaitingBy, FutureRetry, WorkerTypeOK
  <2> QED
    BY <1>6, <2>1 DEF DrainDone, FinishDrain, WorkerTypeOK
<1>7. ASSUME NEW i \in Invoice, Claim(i) \/ ClaimCorrupt(i) PROVE WorkerTypeOK'
  <2>1. deferred' \in BOOLEAN /\ awaiting' \in BOOLEAN
    BY <1>7 DEF Claim, ClaimCorrupt, DeferredBy, AwaitingBy
  <2> QED
    BY <1>7, <2>1 DEF Claim, ClaimCorrupt, WorkerTypeOK
<1>8. CASE RecordSynced \/ RecordFailure \/ Timeout
  BY <1>8 DEF RecordSynced, RecordFailure, Timeout, NextItem, WorkerTypeOK
<1>9. CASE RecordPause \/ RecordThrows
  BY <1>9 DEF RecordPause, RecordThrows, FinishDrain, WorkerTypeOK
<1>10. ASSUME NEW m \in wire, ServerHandles(m) PROVE WorkerTypeOK'
  <2>1. reply' \in Answer \cup {"none"}
    BY <1>10 DEF ServerHandles, ServerAccepts, ServerQuarantines, ServerRefuses,
                 ServerFails, Answers, WorkerTypeOK
  <2> QED
    BY <1>10, <2>1 DEF ServerHandles, WorkerTypeOK
<1>11. CASE \/ \E i \in Invoice : Requeue(i)
            \/ \E i \in Invoice : DeadlinePasses(i)
            \/ \E i \in Invoice : LeaseAges(i)
            \/ \E i \in Invoice : Ripens(i)
            \/ \E i \in Invoice : ServerDecides(i)
            \/ Logout \/ AccessLost \/ SampleLost
            \/ \E k \in Invoice, c \in Chain : Snapshot(c, k)
            \/ \E m \in wire : Lose(m)
  BY <1>11, <1>0, Zenon
     DEF Requeue, DeadlinePasses, LeaseAges, Ripens, ServerDecides, Logout,
         AccessLost, SampleLost, Snapshot, Lose
<1> QED
  BY NextCases, <1>2, <1>3, <1>4, <1>5, <1>6, <1>7, <1>8, <1>9, <1>10, <1>11, Zenon

\* Every step keeps the session, the wire and the server in their types.
LEMMA OutsideNext == ASSUME TypeOK, Next PROVE OutsideTypeOK'
<1> USE InvoiceAssumption, StateNames DEF TypeOK
<1>0. CASE UNCHANGED outside
  BY <1>0, OutsideFrame
<1>1. ASSUME UNCHANGED <<wire, server>>, session' \in Owner \cup {NoOwner},
             access' \in BOOLEAN, sample' \in BOOLEAN, faults' \in Nat,
             entityOk' \subseteq Invoice, ripe' \subseteq Invoice
      PROVE  OutsideTypeOK'
  BY <1>1 DEF OutsideTypeOK
<1>2. CASE \/ \E i \in Invoice : EntityAccepted(i) \/ Ripens(i)
           \/ \E o \in Owner : Login(o)
           \/ AccessBack \/ SampleArrives
  BY <1>1, <1>2 DEF EntityAccepted, Ripens, Login, AccessBack, SampleArrives,
                    OutsideTypeOK
<1>10. CASE \/ \E i \in Invoice : Requeue(i)
            \/ Logout \/ AccessLost \/ SampleLost \/ Crash \/ RecordThrows
  <2>1. faults' \in Nat
    BY <1>10 DEF Requeue, Logout, AccessLost, SampleLost, Crash, RecordThrows, Fault,
                 OutsideTypeOK
  <2> QED
    BY <1>1, <1>10, <2>1 DEF Requeue, Logout, AccessLost, SampleLost, Crash,
                             RecordThrows, OutsideTypeOK
<1>3. CASE RecordPause
  BY <1>3 DEF RecordPause, OutsideTypeOK
<1>4. CASE Timeout
  BY <1>1, <1>4 DEF Timeout, Fault, OutsideTypeOK
<1>5. ASSUME NEW i \in Invoice, Claim(i) PROVE OutsideTypeOK'
  <2>1. session \in Owner
    BY <1>5 DEF Claim, Authorized, OutsideTypeOK
  <2>2. [inv |-> i, n |-> attempts[i] + 1, by |-> session] \in Request
    BY <2>1 DEF Request, DurableTypeOK
  <2> QED
    BY <1>5, <2>2 DEF Claim, OutsideTypeOK
<1>6. ASSUME NEW i \in Invoice, ServerDecides(i) PROVE OutsideTypeOK'
  BY <1>6 DEF ServerDecides, OutsideTypeOK
<1>7. ASSUME NEW m \in wire, ServerHandles(m) PROVE OutsideTypeOK'
  BY <1>7 DEF ServerHandles, ServerAccepts, ServerQuarantines, ServerRefuses,
              ServerFails, Answers, Fault, OutsideTypeOK
<1>8. ASSUME NEW m \in wire, Lose(m) PROVE OutsideTypeOK'
  BY <1>8 DEF Lose, Fault, OutsideTypeOK
<1>9. CASE \/ \E i \in Invoice : Commit(i)
           \/ \E i \in Invoice : Converge(i)
           \/ \E i \in Invoice : DeadlinePasses(i)
           \/ \E i \in Invoice : LeaseAges(i)
           \/ \E k \in Invoice, c \in Chain : Snapshot(c, k)
           \/ \E i \in Invoice : ClaimCorrupt(i)
           \/ Trigger \/ Start \/ Reconcile \/ DrainDenied \/ DrainDone
           \/ RecordSynced \/ RecordFailure \/ TimerFires
  BY <1>9, <1>0, Zenon
     DEF Commit, Converge, DeadlinePasses, LeaseAges, Snapshot, ClaimCorrupt, Trigger,
         Start, Reconcile, DrainDenied, DrainDone, RecordSynced, RecordFailure,
         TimerFires
<1> QED
  BY NextCases, <1>2, <1>3, <1>4, <1>5, <1>6, <1>7, <1>8, <1>9,
     <1>10, Zenon

LEMMA TypeNext == ASSUME TypeOK, [Next]_vars PROVE TypeOK'
<1>1. CASE Next
  BY <1>1, DurableNext, WorkerNext, OutsideNext DEF TypeOK
<1>2. CASE UNCHANGED vars
  BY <1>2, DurableFrame, WorkerFrame, OutsideFrame DEF TypeOK, vars
<1> QED
  BY <1>1, <1>2

\* Every variable keeps its type, for every instance of the lane.
THEOREM TypeCorrect == Spec => []TypeOK
BY TypeInit, TypeNext, PTL DEF Spec


-----------------------------------------------------------------------------
\* The server forgets nothing: what it holds it keeps, what was decided stays
\* decided, and a sale it knows stays known.
ServerKeeps ==
    \A x \in Invoice : /\ server[x] \in Held => server'[x] \in Held
                       /\ server[x] \in Decision => server'[x] \in Decision

LEMMA ServerGrows == ASSUME TypeOK, [Next]_vars PROVE ServerKeeps
<1> USE DEF ServerKeeps, TypeOK, OutsideTypeOK, Held, Decision
<1>1. ASSUME NEW i \in Invoice, ServerDecides(i) PROVE ServerKeeps
  BY <1>1 DEF ServerDecides
<1>2. ASSUME NEW m \in wire, ServerHandles(m) PROVE ServerKeeps
  BY <1>2 DEF ServerHandles, ServerAccepts, ServerQuarantines, ServerRefuses,
              ServerFails, CanCommit
<1>3. CASE UNCHANGED server
  BY <1>3
<1>4. CASE UNCHANGED vars
  BY <1>4, <1>3, Zenon DEF vars, outside
<1>5. CASE Next
  BY <1>1, <1>2, <1>3, <1>5, NextCases, Zenon
     DEF Commit, EntityAccepted, Requeue, Converge, DeadlinePasses, LeaseAges, Ripens,
         Login, Logout, AccessLost, AccessBack, Trigger, SampleArrives, SampleLost,
         Crash, Start, Snapshot, Reconcile, DrainDenied, DrainDone, Claim,
         ClaimCorrupt, RecordSynced, RecordFailure, RecordPause, Timeout,
         RecordThrows, TimerFires, Lose, outside
<1> QED
  BY <1>4, <1>5

\* So everything said of a chain in terms of the server stays true.
LEMMA ChainFactsStable ==
    ASSUME ServerKeeps
    PROVE  /\ \A c \in Chain, n \in Nat : Covers(c, n) => Covers(c, n)'
           /\ \A c \in Chain, x \in Invoice : FirstBreak(c, x) => FirstBreak(c, x)'
           /\ \A x \in Invoice : InOrder(x) => InOrder(x)'
BY DEF ServerKeeps, Covers, FirstBreak, HeldBefore, BrokenBefore, InOrder, ChainsOf

\* On a chain, everything before i is at most its immediate predecessor.
LEMMA ImmediatePredecessor ==
    ASSUME NEW i \in Invoice, NEW c \in ChainsOf(i), NEW p \in Invoice, Precedes(p, c, i)
    PROVE  /\ c \in ChainsOf(p) /\ p < i
           /\ \A j \in Invoice : j < i /\ c \in ChainsOf(j) =>
                    j <= p /\ SequenceOn[c][j] <= SequenceOn[c][p]
<1> USE InvoiceAssumption, SequenceAssumption DEF ChainsOf, Precedes
<1>1. /\ c \in Chain /\ SequenceOn[c][i] \in Nat /\ SequenceOn[c][p] \in Nat
      /\ \A j \in Invoice : SequenceOn[c][j] \in Nat /\ j \in Nat
  OBVIOUS
<1>2. SequenceOn[c][p] > 0 /\ SequenceOn[c][p] < SequenceOn[c][i]
  BY <1>1
<1>3. ASSUME NEW j \in Invoice, j < i, c \in ChainsOf(j)
      PROVE  j <= p /\ SequenceOn[c][j] <= SequenceOn[c][p]
  <2>1. SequenceOn[c][j] < SequenceOn[c][i]
    BY <1>1, <1>3
  <2>2. SequenceOn[c][j] <= SequenceOn[c][p]
    BY <1>1, <2>1
  <2>3. ~(p < j)
    BY <1>1, <1>2, <1>3, <2>2
  <2> QED
    BY <1>1, <2>2, <2>3
<1> QED
  BY <1>1, <1>2, <1>3

\* What the dispatch gate buys: a sale it lets through is in order on each of
\* its grants.
LEMMA GateKeepsOrder ==
    ASSUME TypeOK, SyncedIsHeld, OnlyClaimedIsKnown, CoverHeld, BrokenDecided,
           ClaimedInOrder, NEW i \in Invoice, DependenciesMet(i)
    PROVE  InOrder(i)
<1> SUFFICES ASSUME NEW c \in ChainsOf(i)
             PROVE  HeldBefore(c, i) \/ BrokenBefore(c, i)
  BY DEF InOrder
<1> USE InvoiceAssumption
<1>0. /\ c \in Chain /\ SequenceOn[c][i] \in Nat /\ SequenceOn[c][i] > 0
      /\ \A j \in Invoice : SequenceOn[c][j] \in Nat /\ j \in Nat
  BY DEF ChainsOf
<1>1. CASE SequenceOn[c][i] = 1
  <2>1. \A j \in Invoice : j < i => c \notin ChainsOf(j)
    BY <1>0, <1>1, SequenceAssumption DEF ChainsOf
  <2> QED
    BY <2>1 DEF HeldBefore
<1>2. CASE SequenceOn[c][i] > 1
  <2>1. PICK p \in Invoice : Precedes(p, c, i)
    BY <1>2, <1>0, SequenceAssumption DEF Precedes
  <2>2. /\ c \in ChainsOf(p) /\ p < i
        /\ \A j \in Invoice : j < i /\ c \in ChainsOf(j) =>
                 j <= p /\ SequenceOn[c][j] <= SequenceOn[c][p]
    BY <2>1, ImmediatePredecessor
  <2>3. CASE queue[p] = "synced"
    <3>1. server[p] \in Held
      BY <2>3 DEF SyncedIsHeld
    <3>2. attempts[p] > 0
      BY <3>1 DEF OnlyClaimedIsKnown, Held
    <3>3. HeldBefore(c, p) \/ BrokenBefore(c, p)
      BY <3>2, <2>2 DEF ClaimedInOrder, InOrder
    <3>4. CASE HeldBefore(c, p)
      <4>1. ASSUME NEW j \in Invoice, j < i, c \in ChainsOf(j) PROVE server[j] \in Held
        <5>1. j = p \/ j < p
          BY <4>1, <2>2, <1>0
        <5> QED
          BY <5>1, <3>1, <3>4, <4>1 DEF HeldBefore
      <4> QED
        BY <4>1 DEF HeldBefore
    <3>5. CASE BrokenBefore(c, p)
      <4>1. PICK x \in Invoice : x < p /\ FirstBreak(c, x)
        BY <3>5 DEF BrokenBefore
      <4>2. x < i
        BY <4>1, <2>2, <1>0
      <4> QED
        BY <4>1, <4>2 DEF BrokenBefore
    <3> QED
      BY <3>3, <3>4, <3>5
  <2>4. CASE cover[c] >= SequenceOn[c][p]
    <3>1. cover[c] \in Nat
      BY <1>0 DEF TypeOK, DurableTypeOK
    <3>2. \A j \in Invoice : j < i /\ c \in ChainsOf(j) => SequenceOn[c][j] <= cover[c]
      BY <3>1, <2>2, <2>4, <1>0
    <3> QED
      BY <3>2, <1>0 DEF CoverHeld, Covers, HeldBefore
  <2>5. CASE c \in broken
    <3>1. PICK x \in Invoice : FirstBreak(c, x)
      BY <2>5 DEF BrokenDecided
    <3>2. CASE x < i
      BY <3>1, <3>2 DEF BrokenBefore
    <3>3. CASE ~(x < i)
      <4>1. \A j \in Invoice : j < i => j < x
        BY <3>3, <1>0
      <4> QED
        BY <3>1, <4>1 DEF FirstBreak, HeldBefore
    <3> QED
      BY <3>2, <3>3
  <2> QED
    BY <2>1, <2>3, <2>4, <2>5, <1>0 DEF DependenciesMet
<1> QED
  BY <1>0, <1>1, <1>2

-----------------------------------------------------------------------------
\* The six parts of IInv, one lemma each.

\* Steps that leave the rows' verdicts, the claim and the awaited answer alone.
LEMMA InFlightNext == ASSUME IInv, Next PROVE InFlight'
<1> USE InvoiceAssumption DEF IInv, TypeOK
<1> DEFINE Kept == /\ reply' = reply /\ cur' = cur
                   /\ proc' = "waiting" <=> proc = "waiting"
<1>1. ASSUME Kept, UNCHANGED server, proc = "waiting" => queue'[cur] = queue[cur]
      PROVE  InFlight'
  BY <1>1 DEF InFlight
<1>2. ASSUME UNCHANGED <<queue, server, cur, reply>>, RequestRun PROVE InFlight'
  <2>1. proc' = "waiting" <=> proc = "waiting"
    BY <1>2 DEF RequestRun
  <2> QED
    BY <1>1, <1>2, <2>1
<1>3. ASSUME proc' # "waiting", reply' = "none" PROVE InFlight'
  BY <1>3 DEF InFlight
<1>4. ASSUME NEW i \in Invoice, Commit(i) PROVE InFlight'
  <2>1. proc' = "waiting" <=> proc = "waiting"
    BY <1>4 DEF Commit, RequestRun
  <2>2. proc = "waiting" => cur # i
    BY <1>4 DEF Commit, InFlight
  <2> QED
    BY <1>1, <1>4, <2>1, <2>2 DEF Commit, outside, DurableTypeOK, WorkerTypeOK
<1>5. ASSUME NEW i \in Invoice, Requeue(i) PROVE InFlight'
  BY <1>5, <1>1 DEF Requeue, worker, InFlight
<1>6. ASSUME NEW i \in Invoice, Converge(i) PROVE InFlight'
  <2>1. proc' = "waiting" <=> proc = "waiting"
    BY <1>6 DEF Converge, RequestRun
  <2>2. proc = "waiting" => cur # i
    BY <1>6 DEF Converge, InFlight
  <2> QED
    BY <1>1, <1>6, <2>1, <2>2 DEF Converge, outside, DurableTypeOK, WorkerTypeOK
<1>7. CASE Reconcile
  <2>1. proc # "waiting" /\ proc' # "waiting" /\ reply' = reply
    BY <1>7 DEF Reconcile
  <2> QED
    BY <2>1, <1>3 DEF InFlight
<1>8. ASSUME NEW i \in Invoice, Claim(i) PROVE InFlight'
  <2>1. queue'[i] = "uploading" /\ cur' = i /\ reply' = "none" /\ proc' = "waiting"
    BY <1>8 DEF Claim, DurableTypeOK
  <2> QED
    BY <2>1 DEF InFlight
<1>9. ASSUME NEW i \in Invoice, ClaimCorrupt(i) PROVE InFlight'
  BY <1>9, <1>3 DEF ClaimCorrupt, InFlight
<1>10. CASE RecordSynced \/ RecordFailure \/ RecordPause \/ Timeout \/ RecordThrows
  <2>1. proc' # "waiting" /\ reply' = "none"
    BY <1>10 DEF RecordSynced, RecordFailure, RecordPause, Timeout, RecordThrows,
                 NextItem, FinishDrain
  <2> QED
    BY <2>1, <1>3
<1>11. CASE DrainDenied \/ DrainDone
  <2>1. proc # "waiting" /\ proc' # "waiting" /\ reply' = reply
    BY <1>11 DEF DrainDenied, DrainDone, FinishDrain
  <2> QED
    BY <2>1, <1>3 DEF InFlight
<1>12. ASSUME NEW m \in wire, ServerHandles(m) PROVE InFlight'
  <2>1. /\ UNCHANGED <<queue, proc, cur>>
        /\ reply' = reply \/ Outstanding(m)
    BY <1>12 DEF ServerHandles, durable, ServerAccepts, ServerQuarantines,
                 ServerRefuses, ServerFails, Answers
  <2>2. ASSUME reply' = "accepted" PROVE server'[cur] \in Held
    <3>1. CASE reply = "accepted"
      <4>1. server[cur] \in Held /\ cur \in Invoice
        BY <3>1 DEF InFlight, WorkerTypeOK
      <4> QED
        BY <4>1, <1>12, ServerGrows DEF ServerKeeps, Next, NetworkStep
    <3>2. CASE reply # "accepted"
      <4>1. ServerAccepts(m) /\ m.inv = cur
        BY <3>2, <2>2, <1>12 DEF ServerHandles, ServerAccepts, ServerQuarantines,
              ServerRefuses, ServerFails, Answers, Outstanding
      <4>2. m.inv \in Invoice
        BY <1>12 DEF OutsideTypeOK, Request
      <4> QED
        BY <4>1, <4>2 DEF ServerAccepts, Held, OutsideTypeOK
    <3> QED
      BY <3>1, <3>2
  <2> QED
    BY <2>1, <2>2 DEF InFlight, Outstanding
<1>13. ASSUME NEW i \in Invoice, ServerDecides(i) PROVE InFlight'
  <2>1. reply = "accepted" => server'[cur] \in Held
    BY <1>13, ServerGrows DEF Next, SaleStep, ServerKeeps, InFlight, WorkerTypeOK
  <2> QED
    BY <1>13, <2>1 DEF ServerDecides, durable, worker, InFlight
<1>14. CASE \/ \E i \in Invoice : EntityAccepted(i)
            \/ \E o \in Owner : Login(o)
            \/ AccessBack \/ Trigger \/ SampleArrives \/ TimerFires
  BY <1>14, <1>2, Zenon DEF EntityAccepted, Login, AccessBack, Trigger, SampleArrives,
                     TimerFires, durable, outside
<1>15. CASE Crash \/ Start
  BY <1>15, <1>3 DEF Crash, Start, InFlight
<1>16. ASSUME UNCHANGED worker, UNCHANGED queue, UNCHANGED server PROVE InFlight'
  BY <1>1, <1>16 DEF worker
<1>17. CASE \/ \E i \in Invoice : DeadlinePasses(i)
            \/ \E i \in Invoice : LeaseAges(i)
            \/ \E i \in Invoice : Ripens(i)
            \/ Logout \/ AccessLost \/ SampleLost
            \/ \E k \in Invoice, c \in Chain : Snapshot(c, k)
            \/ \E m \in wire : Lose(m)
  BY <1>17, <1>16, Zenon DEF DeadlinePasses, LeaseAges, Ripens, Logout, AccessLost,
        SampleLost, Snapshot, Lose, durable, outside
<1> QED
  BY NextCases, <1>4, <1>5, <1>6, <1>7, <1>8, <1>9, <1>10, <1>11, <1>12, <1>13,
     <1>14, <1>15, <1>17, Zenon

\* A row becomes synced only on an accepted answer or an override.
LEMMA SyncedIsHeldNext == ASSUME IInv, Next PROVE SyncedIsHeld'
<1> USE InvoiceAssumption DEF IInv, TypeOK
<1>1. ServerKeeps
  BY ServerGrows
<1>2. ASSUME NEW i \in Invoice, queue'[i] = "synced", queue[i] = "synced"
      PROVE  server'[i] \in Held
  BY <1>1, <1>2 DEF SyncedIsHeld, ServerKeeps
<1>3. ASSUME NEW i \in Invoice, queue'[i] = "synced", queue[i] # "synced"
      PROVE  server'[i] \in Held
  <2>1. \/ RecordSynced /\ i = cur
        \/ Converge(i) /\ server[i] = "overridden"
    <3>1. CASE \/ \E k \in Invoice : Commit(k)
               \/ \E k \in Invoice : Requeue(k)
               \/ \E k \in Invoice : Claim(k)
               \/ \E k \in Invoice : ClaimCorrupt(k)
               \/ Reconcile \/ RecordFailure \/ RecordPause \/ Timeout
      BY <1>3, <3>1 DEF Commit, Requeue, Claim, ClaimCorrupt, Reconcile,
            RecordFailure, RecordPause, Timeout, Record, DurableTypeOK
    <3>2. CASE RecordSynced
      BY <1>3, <3>2 DEF RecordSynced, Record, DurableTypeOK
    <3>3. ASSUME NEW k \in Invoice, Converge(k)
          PROVE  Converge(i) /\ server[i] = "overridden"
      BY <1>3, <3>3 DEF Converge, DurableTypeOK
    <3>4. CASE UNCHANGED queue
      BY <1>3, <3>4
    <3> QED
      BY NextCases, <3>1, <3>2, <3>3, <3>4, Zenon
         DEF EntityAccepted, DeadlinePasses, LeaseAges, Ripens, ServerDecides, Login,
             Logout, AccessLost, AccessBack, Trigger, SampleArrives, SampleLost, Crash,
             Start, Snapshot, DrainDenied, DrainDone, RecordThrows, TimerFires,
             ServerHandles, Lose, durable
  <2>2. server[i] \in Held
    BY <2>1 DEF RecordSynced, Answered, InFlight, Held
  <2> QED
    BY <1>1, <2>2 DEF ServerKeeps
<1> QED
  BY <1>2, <1>3 DEF SyncedIsHeld

\* Attempts never fall, and what enters the wire or the server was claimed.
LEMMA AttemptsGrow ==
    ASSUME TypeOK, Next PROVE \A i \in Invoice : attempts[i] > 0 => attempts'[i] > 0
<1> USE InvoiceAssumption DEF TypeOK, DurableTypeOK
<1>1. ASSUME NEW k \in Invoice, Claim(k) \/ ClaimCorrupt(k)
      PROVE  \A i \in Invoice : attempts[i] > 0 => attempts'[i] > 0
  <2>1. attempts' = [attempts EXCEPT ![k] = @ + 1]
    BY <1>1, Zenon DEF Claim, ClaimCorrupt
  <2> QED
    BY <2>1
<1>2. CASE UNCHANGED attempts
  BY <1>2
<1> QED
  BY NextCases, <1>1, <1>2, Zenon
     DEF Commit, EntityAccepted, Requeue, Converge, DeadlinePasses, LeaseAges, Ripens,
         ServerDecides, Login, Logout, AccessLost, AccessBack, Trigger, SampleArrives,
         SampleLost, Crash, Start, Snapshot, Reconcile, DrainDenied, DrainDone,
         RecordSynced, RecordFailure, RecordPause, Timeout, RecordThrows, TimerFires,
         ServerHandles, Lose, durable

LEMMA OnlyClaimedNext == ASSUME IInv, Next PROVE OnlyClaimedIsKnown'
<1> USE InvoiceAssumption DEF IInv, TypeOK
<1>1. \A i \in Invoice : attempts[i] > 0 => attempts'[i] > 0
  BY AttemptsGrow
<1>2. \A m \in wire : m.inv \in Invoice
  BY DEF OutsideTypeOK, Request
<1>3. ASSUME wire' \subseteq wire, UNCHANGED server PROVE OnlyClaimedIsKnown'
  BY <1>1, <1>2, <1>3 DEF OnlyClaimedIsKnown
<1>4. ASSUME NEW i \in Invoice, Claim(i) PROVE OnlyClaimedIsKnown'
  <2>1. attempts'[i] > 0 /\ server' = server
    BY <1>4 DEF Claim, DurableTypeOK
  <2>2. \A m \in wire' : m \in wire \/ m.inv = i
    BY <1>4 DEF Claim
  <2> QED
    BY <1>1, <1>2, <2>1, <2>2 DEF OnlyClaimedIsKnown
<1>5. ASSUME NEW m \in wire, ServerHandles(m) PROVE OnlyClaimedIsKnown'
  <2>1. /\ wire' \subseteq wire
        /\ \A i \in Invoice : server'[i] # server[i] => i = m.inv
    BY <1>2, <1>5 DEF ServerHandles, ServerAccepts, ServerQuarantines, ServerRefuses,
                      ServerFails, Answers, OutsideTypeOK
  <2>2. attempts[m.inv] > 0
    BY DEF OnlyClaimedIsKnown
  <2> QED
    BY <1>1, <1>2, <2>1, <2>2 DEF OnlyClaimedIsKnown
<1>6. ASSUME NEW i \in Invoice, ServerDecides(i) PROVE OnlyClaimedIsKnown'
  <2>1. /\ wire' = wire /\ server[i] # "none"
        /\ \A x \in Invoice : server'[x] # server[x] => x = i
    BY <1>6 DEF ServerDecides, OutsideTypeOK
  <2> QED
    BY <1>1, <1>2, <2>1 DEF OnlyClaimedIsKnown
<1>7. ASSUME NEW m \in wire, Lose(m) PROVE OnlyClaimedIsKnown'
  BY <1>3, <1>7 DEF Lose
<1> QED
  BY NextCases, <1>3, <1>4, <1>5, <1>6, <1>7, Zenon
     DEF Commit, EntityAccepted, Requeue, Converge, DeadlinePasses, LeaseAges, Ripens,
         Login, Logout, AccessLost, AccessBack, Trigger, SampleArrives,
         SampleLost, Crash, Start, Snapshot, Reconcile, DrainDenied, DrainDone,
         ClaimCorrupt, RecordSynced, RecordFailure, RecordPause, Timeout, RecordThrows,
         TimerFires, outside

\* A boundary moves only to a sequence the server's prefix reaches.
LEMMA CoverHeldNext == ASSUME IInv, Next PROVE CoverHeld'
<1> USE InvoiceAssumption DEF IInv, TypeOK
<1>1. ServerKeeps
  BY ServerGrows
<1> DEFINE Reached(c) == \E n \in Nat : cover'[c] = n /\ Covers(c, n)
<1>2. ASSUME \A c \in Chain : Reached(c) PROVE CoverHeld'
  <2> SUFFICES ASSUME NEW c \in Chain, NEW j \in Invoice,
                      SequenceOn[c][j] > 0, SequenceOn[c][j] <= cover'[c]
               PROVE  server'[j] \in Held
    BY DEF CoverHeld, Covers, ChainsOf
  <2>1. PICK n \in Nat : cover'[c] = n /\ Covers(c, n)
    BY <1>2
  <2>2. server[j] \in Held
    BY <2>1 DEF Covers, ChainsOf
  <2> QED
    BY <1>1, <2>2 DEF ServerKeeps
<1> SUFFICES ASSUME NEW c \in Chain PROVE Reached(c)
  BY <1>2
<1>4. ASSUME cover'[c] = cover[c] PROVE Reached(c)
  BY <1>4 DEF CoverHeld, DurableTypeOK
<1>5. ASSUME NEW n \in Nat, cover'[c] = n, Covers(c, n) PROVE Reached(c)
  BY <1>5
<1>6. ASSUME NEW k \in Invoice, NEW d \in Chain, Snapshot(d, k) PROVE Reached(c)
  <2>1. CASE c = d
    <3>1. cover'[c] = SequenceOn[c][k] /\ Covers(c, SequenceOn[c][k])
      BY <1>6, <2>1 DEF Snapshot, DurableTypeOK
    <3> QED
      BY <3>1, <1>5
  <2>2. CASE c # d
    BY <1>4, <1>6, <2>2 DEF Snapshot, DurableTypeOK
  <2> QED
    BY <2>1, <2>2
<1>7. CASE RecordSynced
  <2>1. PICK S \in SUBSET Coverable(cur) :
            cover' = [d \in Chain |-> IF d \in S /\ SequenceOn[d][cur] > cover[d]
                                      THEN SequenceOn[d][cur] ELSE cover[d]]
    BY <1>7 DEF RecordSynced
  <2>2. cur \in Invoice
    BY <1>7 DEF RecordSynced, Answered, WorkerTypeOK
  <2>3. CASE c \in S /\ SequenceOn[c][cur] > cover[c]
    <3>1. cover'[c] = SequenceOn[c][cur] /\ Covers(c, SequenceOn[c][cur])
      BY <2>1, <2>3 DEF Coverable
    <3> QED
      BY <3>1, <1>5, <2>2
  <2>4. CASE ~(c \in S /\ SequenceOn[c][cur] > cover[c])
    BY <1>4, <2>1, <2>4
  <2> QED
    BY <2>3, <2>4
<1>8. CASE UNCHANGED cover
  BY <1>4, <1>8
<1> HIDE DEF Reached
<1> QED
  BY NextCases, <1>6, <1>7, <1>8, Zenon
     DEF Commit, EntityAccepted, Requeue, Converge, DeadlinePasses, LeaseAges, Ripens,
         ServerDecides, Login, Logout, AccessLost, AccessBack, Trigger, SampleArrives,
         SampleLost, Crash, Start, Reconcile, DrainDenied, DrainDone, Claim,
         ClaimCorrupt, RecordFailure, RecordPause, Timeout, RecordThrows, TimerFires,
         ServerHandles, Lose, durable

\* Only a decision breaks a grant, and a decided sale was in order.
LEMMA BrokenDecidedNext == ASSUME IInv, Next PROVE BrokenDecided'
<1> USE InvoiceAssumption DEF IInv, TypeOK
<1>1. \A c \in Chain, x \in Invoice : FirstBreak(c, x) => FirstBreak(c, x)'
  BY ServerGrows, ChainFactsStable
<1>2. broken \subseteq Chain
  BY DEF DurableTypeOK
<1>3. ASSUME broken' = broken PROVE BrokenDecided'
  BY <1>1, <1>2, <1>3 DEF BrokenDecided
<1>4. ASSUME NEW i \in Invoice, Converge(i) PROVE BrokenDecided'
  <2>1. server[i] \in Decision /\ \A c \in broken' : c \in broken \/ c \in ChainsOf(i)
    BY <1>4 DEF Converge, Decision
  <2>2. InOrder(i)
    BY <2>1 DEF OnlyClaimedIsKnown, ClaimedInOrder, Decision
  <2>3. ASSUME NEW c \in ChainsOf(i) PROVE \E x \in Invoice : FirstBreak(c, x)
    BY <2>1, <2>2 DEF InOrder, FirstBreak, BrokenBefore
  <2>4. \A c \in broken' : c \in Chain /\ \E x \in Invoice : FirstBreak(c, x)
    BY <2>1, <2>3, <1>2 DEF BrokenDecided, ChainsOf
  <2> QED
    BY <2>4, <1>1 DEF BrokenDecided
<1> QED
  BY NextCases, <1>3, <1>4, Zenon
     DEF Commit, EntityAccepted, Requeue, DeadlinePasses, LeaseAges, Ripens,
         ServerDecides, Login, Logout, AccessLost, AccessBack, Trigger, SampleArrives,
         SampleLost, Crash, Start, Snapshot, Reconcile, DrainDenied, DrainDone, Claim,
         ClaimCorrupt, RecordSynced, RecordFailure, RecordPause, Timeout, RecordThrows,
         TimerFires, ServerHandles, Lose, durable

\* A sale is claimed in order, and order once reached is kept.
LEMMA ClaimedInOrderNext == ASSUME IInv, Next PROVE ClaimedInOrder'
<1> USE InvoiceAssumption DEF IInv, TypeOK
<1>1. \A x \in Invoice : InOrder(x) => InOrder(x)'
  BY ServerGrows, ChainFactsStable
<1>2. CASE UNCHANGED attempts
  BY <1>1, <1>2 DEF ClaimedInOrder
<1>3. ASSUME NEW i \in Invoice, Claim(i) \/ ClaimCorrupt(i) PROVE ClaimedInOrder'
  <2>1. attempts' = [attempts EXCEPT ![i] = @ + 1] /\ DependenciesMet(i)
    BY <1>3, Zenon DEF Claim, ClaimCorrupt, NextClaim, Accepted
  <2>2. InOrder(i)
    BY <2>1, GateKeepsOrder
  <2>3. \A x \in Invoice : attempts'[x] > 0 => InOrder(x)
    BY <2>1, <2>2 DEF ClaimedInOrder, DurableTypeOK
  <2> QED
    BY <1>1, <2>3 DEF ClaimedInOrder
<1> QED
  BY NextCases, <1>2, <1>3, Zenon
     DEF Commit, EntityAccepted, Requeue, Converge, DeadlinePasses, LeaseAges, Ripens,
         ServerDecides, Login, Logout, AccessLost, AccessBack, Trigger, SampleArrives,
         SampleLost, Crash, Start, Snapshot, Reconcile, DrainDenied, DrainDone,
         RecordSynced, RecordFailure, RecordPause, Timeout, RecordThrows, TimerFires,
         ServerHandles, Lose, durable

-----------------------------------------------------------------------------
\* The invariant is inductive.
LEMMA InvInit == ASSUME Init PROVE IInv
<1>1. TypeOK
  BY TypeInit
<1>2. InFlight /\ SyncedIsHeld /\ OnlyClaimedIsKnown /\ BrokenDecided /\ ClaimedInOrder
  BY DEF Init, InFlight, SyncedIsHeld, OnlyClaimedIsKnown, BrokenDecided, ClaimedInOrder
<1>3. CoverHeld
  BY InvoiceAssumption DEF Init, CoverHeld, Covers, ChainsOf
<1> QED
  BY <1>1, <1>2, <1>3 DEF IInv

LEMMA InvStutters == ASSUME IInv, UNCHANGED vars PROVE IInv'
<1> USE DEF IInv, vars, durable, worker, outside
<1>1. TypeOK'
  BY TypeNext
<1>2. InFlight' /\ SyncedIsHeld' /\ OnlyClaimedIsKnown'
  BY DEF InFlight, SyncedIsHeld, OnlyClaimedIsKnown
<1>3. CoverHeld' /\ BrokenDecided' /\ ClaimedInOrder'
  BY DEF CoverHeld, BrokenDecided, ClaimedInOrder, Covers, InOrder, FirstBreak,
         BrokenBefore, HeldBefore
<1> QED
  BY <1>1, <1>2, <1>3

LEMMA InvNext == ASSUME IInv, [Next]_vars PROVE IInv'
<1>1. CASE Next
  <2>1. TypeOK'
    BY <1>1, TypeNext DEF IInv
  <2> QED
    BY <1>1, <2>1, InFlightNext, SyncedIsHeldNext, OnlyClaimedNext, CoverHeldNext,
       BrokenDecidedNext, ClaimedInOrderNext DEF IInv
<1>2. CASE UNCHANGED vars
  BY <1>2, InvStutters
<1> QED
  BY <1>1, <1>2

\* The strengthening holds throughout: the awaited row is leased, boundaries and
\* holds rest on what the server did, and every claimed sale was in order.
THEOREM Invariant == Spec => []IInv
BY InvInit, InvNext, PTL DEF Spec

\* A sale the till shows as synced is a sale the server holds.
THEOREM SyncedSalesAreHeld == Spec => []SyncedIsHeld
<1>1. IInv => SyncedIsHeld
  BY DEF IInv
<1> QED
  BY <1>1, Invariant, PTL

\* What is on the wire is in order on each of its grants: whatever crashes,
\* time-outs and decisions came before, the server holds the sale before it or
\* an earlier sale of the grant was decided.
THEOREM SalesLeaveInOrder == Spec => []SentInOrder
<1>1. IInv => SentInOrder
  <2> SUFFICES ASSUME IInv, NEW m \in wire, NEW p \in Invoice, NEW c \in Chain,
                      Precedes(p, c, m.inv)
               PROVE  server[p] \in Held \/ BrokenBefore(c, m.inv)
    BY DEF SentInOrder
  <2>1. m.inv \in Invoice
    BY DEF IInv, TypeOK, OutsideTypeOK, Request
  <2>2. c \in ChainsOf(m.inv)
    BY DEF Precedes
  <2>3. HeldBefore(c, m.inv) \/ BrokenBefore(c, m.inv)
    BY <2>1, <2>2 DEF IInv, OnlyClaimedIsKnown, ClaimedInOrder, InOrder
  <2>4. c \in ChainsOf(p) /\ p < m.inv
    BY <2>1, <2>2, ImmediatePredecessor
  <2> QED
    BY <2>3, <2>4 DEF HeldBefore
<1> QED
  BY <1>1, Invariant, PTL

-----------------------------------------------------------------------------
\* The wire: only Claim adds to it, and what it adds is the session owner's.
WireInv == TypeOK /\ OwnerIsolation

\* A request leaves in Claim and in no other step.
LEMMA OnlyClaimSends ==
    ASSUME TypeOK, [Next]_vars
    PROVE  (\E i \in Invoice : Claim(i)) \/ wire' \subseteq wire
<1>1. ASSUME NEW m \in wire, ServerHandles(m) \/ Lose(m) PROVE wire' \subseteq wire
  BY <1>1 DEF ServerHandles, Lose, ServerAccepts, ServerQuarantines,
              ServerRefuses, ServerFails, Answers
<1>2. CASE UNCHANGED wire
  BY <1>2
<1>3. CASE UNCHANGED vars
  BY <1>2, <1>3, Zenon DEF vars, outside
<1>4. CASE Next
  BY NextCases, <1>1, <1>2, <1>4, Zenon
     DEF Commit, Requeue, Converge, DeadlinePasses, LeaseAges, ServerDecides, Login,
         Logout, AccessLost, AccessBack, Trigger, SampleArrives, SampleLost, Crash,
         Start, Snapshot, Reconcile, DrainDenied, DrainDone, ClaimCorrupt,
         RecordSynced, RecordFailure, RecordPause, Timeout, RecordThrows,
         TimerFires, EntityAccepted, Ripens, outside
<1> QED
  BY <1>3, <1>4

LEMMA WireNext == ASSUME WireInv, [Next]_vars PROVE WireInv'
<1> USE InvoiceAssumption DEF WireInv
<1>1. TypeOK'
  BY TypeNext
<1>2. CASE wire' \subseteq wire
  BY <1>1, <1>2 DEF OwnerIsolation
<1>3. ASSUME NEW i \in Invoice, Claim(i) PROVE WireInv'
  <2>1. wire' = wire \cup {[inv |-> i, n |-> attempts[i] + 1, by |-> session]}
    BY <1>3 DEF Claim
  <2>2. session = OwnerOf[i]
    BY <1>3 DEF Claim, NextClaim, Candidate
  <2>3. \A m \in wire' : m \in wire \/ (m.inv = i /\ m.by = session)
    BY <2>1
  <2> QED
    BY <1>1, <2>2, <2>3 DEF OwnerIsolation
<1> QED
  BY <1>2, <1>3, OnlyClaimSends

LEMMA WireInvariant == Spec => []WireInv
<1>1. Init => WireInv
  BY TypeInit DEF Init, WireInv, OwnerIsolation
<1> QED
  BY <1>1, WireNext, PTL DEF Spec

\* No request ever carries one owner's sale under another's token.
THEOREM RequestsKeepTheirOwner == Spec => []OwnerIsolation
<1>1. WireInv => OwnerIsolation
  BY DEF WireInv
<1> QED
  BY <1>1, WireInvariant, PTL

\* No request leaves with damaged bytes, for an unaccepted customer or, on a
\* bound of the server's clock that is there when it leaves, from the future.
THEOREM RequestsPassTheGates == Spec => SendGates
<1> DEFINE Gated(m) ==
        /\ m.inv \notin Corrupt
        /\ m.inv \in entityOk
        /\ m.inv \in PhysicalPresence => sample /\ m.inv \in ripe
<1>1. ASSUME TypeOK, [Next]_vars
      PROVE  [\A m \in wire' \ wire : Gated(m)]_vars
  <2>1. ASSUME NEW i \in Invoice, Claim(i) PROVE \A m \in wire' \ wire : Gated(m)
    <3>1. wire' = wire \cup {[inv |-> i, n |-> attempts[i] + 1, by |-> session]}
      BY <2>1 DEF Claim
    <3>2. /\ i \notin Corrupt /\ i \in entityOk
          /\ i \in PhysicalPresence => sample /\ i \in ripe
      BY <2>1 DEF Claim, NextClaim, Accepted, DependenciesMet, TimeGateOpen
    <3>3. \A m \in wire' \ wire : m.inv = i
      BY <3>1
    <3> QED
      BY <3>2, <3>3
  <2>2. CASE wire' \subseteq wire
    BY <2>2
  <2> QED
    BY <1>1, <2>1, <2>2, OnlyClaimSends
<1> QED
  BY <1>1, TypeCorrect, PTL DEF Spec, SendGates

-----------------------------------------------------------------------------
\* The two tables: whatever moves a verdict moves it in both.
RowsInv == IInv /\ RowsAgreeOnOutcome

LEMMA RowsNext == ASSUME RowsInv, [Next]_vars PROVE RowsAgreeOnOutcome'
<1> USE InvoiceAssumption DEF RowsInv, IInv, TypeOK
<1> DEFINE Agree(i) ==
        /\ (queue[i] \in Terminal \/ invoice[i] \in Terminal) => queue[i] = invoice[i]
        /\ queue[i] = "uploading" => invoice[i] = "uploading"
<1>1. \A i \in Invoice : Agree(i)
  BY DEF RowsAgreeOnOutcome
<1>2. CASE UNCHANGED <<queue, invoice>>
  BY <1>1, <1>2 DEF RowsAgreeOnOutcome
<1>3. ASSUME NEW i \in Invoice, NEW q \in QueueState,
             queue' = [queue EXCEPT ![i] = q], invoice' = [invoice EXCEPT ![i] = q]
      PROVE  RowsAgreeOnOutcome'
  <2> SUFFICES ASSUME NEW j \in Invoice PROVE Agree(j)'
    BY DEF RowsAgreeOnOutcome
  <2> QED
    BY <1>1, <1>3 DEF DurableTypeOK
<1>4. CASE Reconcile
  <2> SUFFICES ASSUME NEW j \in Invoice PROVE Agree(j)'
    BY DEF RowsAgreeOnOutcome
  <2>1. queue'[j] = queue[j] \/ (queue'[j] = "pending" /\ queue[j] \notin Terminal)
    BY <1>4 DEF Reconcile, Reclaimable, Releasable, Terminal
  <2>2. invoice'[j] = invoice[j]
    BY <1>4 DEF Reconcile
  <2> QED
    BY <1>1, <2>1, <2>2 DEF Terminal
<1>5. ASSUME NEW i \in Invoice,
             Commit(i) \/ Requeue(i) \/ Claim(i) \/ ClaimCorrupt(i)
      PROVE  RowsAgreeOnOutcome'
  BY <1>3, <1>5, StateNames DEF Commit, Requeue, Claim, ClaimCorrupt, Record
<1>6. CASE RecordSynced \/ RecordFailure \/ RecordPause \/ Timeout
  <2>1. cur \in Invoice
    BY <1>6 DEF RecordSynced, RecordFailure, RecordPause, Timeout, Answered, WorkerTypeOK
  <2>2. PICK q \in QueueState : /\ queue' = [queue EXCEPT ![cur] = q]
                                /\ invoice' = [invoice EXCEPT ![cur] = q]
    BY <1>6, StateNames DEF RecordSynced, RecordFailure, RecordPause, Timeout, Record
  <2> QED
    BY <1>3, <2>1, <2>2
<1>7. ASSUME NEW i \in Invoice, Converge(i) PROVE RowsAgreeOnOutcome'
  BY <1>2, <1>3, <1>7, StateNames DEF Converge
<1>8. CASE UNCHANGED vars
  BY <1>2, <1>8, Zenon DEF vars, durable
<1>9. CASE Next
  BY NextCases, <1>2, <1>4, <1>5, <1>6, <1>7, <1>9, Zenon
     DEF EntityAccepted, DeadlinePasses, LeaseAges, Ripens,
         ServerDecides, Login, Logout, AccessLost, AccessBack, Trigger, SampleArrives,
         SampleLost, Crash, Start, Snapshot, DrainDenied, DrainDone, RecordThrows,
         TimerFires, ServerHandles, Lose, durable
<1> QED
  BY <1>8, <1>9

\* Queue and invoice rows never tell different outcomes.
THEOREM RowsAgree == Spec => []RowsAgreeOnOutcome
<1>1. Init => RowsInv
  BY InvInit DEF RowsInv, Init, RowsAgreeOnOutcome, Terminal
<1>2. RowsInv /\ [Next]_vars => RowsInv'
  BY InvNext, RowsNext DEF RowsInv
<1>3. RowsInv => RowsAgreeOnOutcome
  BY DEF RowsInv
<1> QED
  BY <1>1, <1>2, <1>3, PTL DEF Spec

-----------------------------------------------------------------------------
\* Every move a queue row makes, with what the session, the server and the
\* worker were when it made it.
Moves(i) ==
    \/ queue[i] = "absent" /\ queue'[i] = "pending" /\ session = OwnerOf[i]
    \/ queue[i] = "rejected" /\ queue'[i] = "pending" /\ proc = "down"
    \/ /\ queue[i] = "rejected" /\ queue'[i] = "synced"
       /\ server[i] = "overridden" /\ session = OwnerOf[i]
    \/ /\ queue[i] \in {"uploading", "retryable_error"} /\ queue'[i] = "pending"
       /\ session = OwnerOf[i]
    \/ /\ queue[i] = "pending" /\ queue'[i] \in {"uploading", "retryable_error"}
       /\ session = OwnerOf[i]
    \/ /\ queue[i] = "uploading" /\ proc = "waiting" /\ cur = i
       /\ queue'[i] \in {"synced", "conflict", "rejected", "retryable_error"}
       /\ queue'[i] = "synced" => server[i] \in Held

LEMMA QueueMoves ==
    ASSUME IInv, [Next]_vars, NEW i \in Invoice, queue'[i] # queue[i]
    PROVE  Moves(i)
<1> USE InvoiceAssumption DEF IInv, TypeOK
<1>1. ASSUME NEW k \in Invoice, Commit(k) PROVE Moves(i)
  BY <1>1 DEF Commit, DurableTypeOK, Moves
<1>2. ASSUME NEW k \in Invoice, Requeue(k) PROVE Moves(i)
  BY <1>2 DEF Requeue, DurableTypeOK, Moves
<1>3. ASSUME NEW k \in Invoice, Converge(k) PROVE Moves(i)
  BY <1>3 DEF Converge, DurableTypeOK, Moves
<1>4. CASE Reconcile
  BY <1>4 DEF Reconcile, Reclaimable, Releasable, Moves
<1>5. ASSUME NEW k \in Invoice, Claim(k) \/ ClaimCorrupt(k) PROVE Moves(i)
  BY <1>5 DEF Claim, ClaimCorrupt, NextClaim, Candidate, Record, DurableTypeOK, Moves
<1>6. CASE RecordSynced \/ RecordFailure \/ RecordPause \/ Timeout
  <2>1. cur \in Invoice /\ proc = "waiting" /\ queue[cur] = "uploading"
    BY <1>6 DEF RecordSynced, RecordFailure, RecordPause, Timeout, Answered,
                WorkerTypeOK, InFlight
  <2>2. PICK q \in {"synced", "conflict", "rejected", "retryable_error"} :
            /\ queue' = [queue EXCEPT ![cur] = q]
            /\ q = "synced" => server[cur] \in Held
    BY <1>6 DEF RecordSynced, RecordFailure, RecordPause, Timeout, Record, Answered,
                InFlight
  <2> QED
    BY <2>1, <2>2 DEF DurableTypeOK, Moves
<1>7. CASE UNCHANGED queue
  BY <1>7
<1>8. CASE UNCHANGED vars
  BY <1>7, <1>8, Zenon DEF vars, durable
<1>9. CASE Next
  BY NextCases, <1>1, <1>2, <1>3, <1>4, <1>5, <1>6, <1>7, <1>9, Zenon
     DEF EntityAccepted, DeadlinePasses, LeaseAges, Ripens,
         ServerDecides, Login, Logout, AccessLost, AccessBack, Trigger, SampleArrives,
         SampleLost, Crash, Start, Snapshot, DrainDenied, DrainDone, RecordThrows,
         TimerFires, ServerHandles, Lose, durable
<1> QED
  BY <1>8, <1>9

\* A running till writes only the signed-in owner's rows, or the awaited one's.
THEOREM ForeignRowsStay == Spec => ForeignRowsUntouched
<1>1. IInv /\ [Next]_vars =>
        [\A i \in Invoice :
            queue'[i] # queue[i] /\ proc # "down" =>
                session = OwnerOf[i] \/ (proc = "waiting" /\ cur = i)]_vars
  BY QueueMoves DEF Moves
<1> QED
  BY <1>1, Invariant, PTL DEF Spec, ForeignRowsUntouched

\* A terminal row moves only by an override or by the operator's script.
THEOREM TerminalRowsStay == Spec => TerminalIsFinal
<1>1. IInv /\ [Next]_vars =>
        [\A i \in Invoice :
            queue[i] \in Terminal /\ queue'[i] # queue[i] =>
                /\ queue[i] = "rejected"
                /\ \/ queue'[i] = "synced" /\ server[i] = "overridden"
                   \/ queue'[i] = "pending" /\ proc = "down"]_vars
  BY QueueMoves DEF Moves, Terminal
<1> QED
  BY <1>1, Invariant, PTL DEF Spec, TerminalIsFinal

-----------------------------------------------------------------------------
\* The lane implements SaleDelivery.

\* At most one queue row moves in a step that is not the drain's reconciliation.
LEMMA OneRowMoves ==
    ASSUME IInv, [Next]_vars
    PROVE  \/ \E k \in Invoice, q \in QueueState : queue' = [queue EXCEPT ![k] = q]
           \/ UNCHANGED queue
           \/ Reconcile
<1> USE InvoiceAssumption, StateNames DEF IInv, TypeOK
<1> DEFINE One == \/ \E k \in Invoice, q \in QueueState : queue' = [queue EXCEPT ![k] = q]
                  \/ UNCHANGED queue
                  \/ Reconcile
<1> SUFFICES One
  OBVIOUS
<1>1. ASSUME NEW k \in Invoice,
             Commit(k) \/ Requeue(k) \/ Claim(k) \/ ClaimCorrupt(k)
      PROVE  One
  BY <1>1 DEF Commit, Requeue, Claim, ClaimCorrupt, Record
<1>2. ASSUME NEW k \in Invoice, Converge(k) PROVE One
  BY <1>2 DEF Converge
<1>3. CASE RecordSynced \/ RecordFailure \/ RecordPause \/ Timeout
  <2>1. cur \in Invoice
    BY <1>3 DEF RecordSynced, RecordFailure, RecordPause, Timeout, Answered, WorkerTypeOK
  <2> QED
    BY <1>3, <2>1 DEF RecordSynced, RecordFailure, RecordPause, Timeout, Record
<1>4. ASSUME UNCHANGED queue PROVE One
  BY <1>4
<1>5. ASSUME Reconcile PROVE One
  BY <1>5
<1> HIDE DEF One
<1>6. CASE UNCHANGED vars
  BY <1>4, <1>6, Zenon DEF vars, durable
<1>7. CASE Next
  BY NextCases, <1>1, <1>2, <1>3, <1>4, <1>5, <1>7, Zenon
     DEF EntityAccepted, DeadlinePasses, LeaseAges, Ripens,
         ServerDecides, Login, Logout, AccessLost, AccessBack, Trigger, SampleArrives,
         SampleLost, Crash, Start, Snapshot, DrainDenied, DrainDone, RecordThrows,
         TimerFires, ServerHandles, Lose, durable
<1> QED
  BY <1>6, <1>7

\* A claimed sale was made.
ClaimedIsSold == \A i \in Invoice : attempts[i] > 0 => queue[i] # "absent"

LEMMA ClaimedNext == ASSUME IInv, ClaimedIsSold, [Next]_vars PROVE ClaimedIsSold'
<1> USE InvoiceAssumption DEF IInv, TypeOK
<1>1. \A i \in Invoice : queue'[i] # queue[i] => queue'[i] # "absent"
  BY QueueMoves DEF Moves
<1>2. ASSUME UNCHANGED attempts PROVE ClaimedIsSold'
  BY <1>1, <1>2 DEF ClaimedIsSold
<1>3. ASSUME NEW k \in Invoice, Claim(k) \/ ClaimCorrupt(k) PROVE ClaimedIsSold'
  <2>1. attempts' = [attempts EXCEPT ![k] = @ + 1] /\ queue[k] = "pending"
    BY <1>3, Zenon DEF Claim, ClaimCorrupt, NextClaim, Candidate
  <2>2. \A i \in Invoice : attempts'[i] > 0 => queue[i] # "absent"
    BY <2>1 DEF ClaimedIsSold, DurableTypeOK
  <2> QED
    BY <1>1, <2>2 DEF ClaimedIsSold
<1>4. CASE UNCHANGED vars
  BY <1>2, <1>4, Zenon DEF vars, durable
<1>5. CASE Next
  BY NextCases, <1>2, <1>3, <1>5, Zenon
     DEF Commit, EntityAccepted, Requeue, Converge, DeadlinePasses, LeaseAges, Ripens,
         ServerDecides, Login, Logout, AccessLost, AccessBack, Trigger, SampleArrives,
         SampleLost, Crash, Start, Snapshot, Reconcile, DrainDenied, DrainDone,
         RecordSynced, RecordFailure, RecordPause, Timeout, RecordThrows, TimerFires,
         ServerHandles, Lose, durable
<1> QED
  BY <1>4, <1>5

\* The server's ledger grows by one sale the till has made, or not at all.
LEMMA LedgerMoves ==
    ASSUME IInv, ClaimedIsSold, [Next]_vars
    PROVE  \/ \A i \in Invoice : server'[i] \in Held <=> server[i] \in Held
           \/ /\ UNCHANGED queue
              /\ \E k \in Invoice :
                    /\ queue[k] # "absent"
                    /\ \A i \in Invoice : server'[i] \in Held <=> server[i] \in Held \/ i = k
<1> USE InvoiceAssumption DEF IInv, TypeOK
<1> DEFINE Grown(k) == /\ queue[k] # "absent"
                       /\ \A i \in Invoice :
                            server'[i] \in Held <=> server[i] \in Held \/ i = k
           Goal == \/ \A i \in Invoice : server'[i] \in Held <=> server[i] \in Held
                   \/ UNCHANGED queue /\ \E k \in Invoice : Grown(k)
<1> SUFFICES Goal
  OBVIOUS
<1>1. ASSUME UNCHANGED server PROVE Goal
  BY <1>1
<1>2. ASSUME NEW m \in wire, ServerHandles(m) PROVE Goal
  <2>1. m.inv \in Invoice /\ queue[m.inv] # "absent" /\ UNCHANGED queue
    BY <1>2 DEF OutsideTypeOK, Request, OnlyClaimedIsKnown, ClaimedIsSold, ServerHandles,
                durable
  <2>2. \/ UNCHANGED server
        \/ \E s \in {"committed", "quarantined"} :
              server[m.inv] = "none" /\ server' = [server EXCEPT ![m.inv] = s]
    BY <1>2 DEF ServerHandles, ServerAccepts, ServerQuarantines, ServerRefuses,
                ServerFails, CanCommit
  <2> QED
    BY <1>1, <2>1, <2>2 DEF OutsideTypeOK, Held
<1>3. ASSUME NEW i \in Invoice, ServerDecides(i) PROVE Goal
  <2>1. queue[i] # "absent" /\ UNCHANGED queue
    BY <1>3 DEF ServerDecides, OnlyClaimedIsKnown, ClaimedIsSold, durable
  <2> QED
    BY <1>3, <2>1 DEF ServerDecides, OutsideTypeOK, Held
<1> HIDE DEF Goal
<1>4. CASE UNCHANGED vars
  BY <1>1, <1>4, Zenon DEF vars, outside
<1>5. CASE Next
  BY NextCases, <1>1, <1>2, <1>3, <1>5, Zenon
     DEF Commit, EntityAccepted, Requeue, Converge, DeadlinePasses, LeaseAges, Ripens,
         Login, Logout, AccessLost, AccessBack, Trigger, SampleArrives,
         SampleLost, Crash, Start, Snapshot, Reconcile, DrainDenied, DrainDone, Claim,
         ClaimCorrupt, RecordSynced, RecordFailure, RecordPause, Timeout,
         RecordThrows, TimerFires, Lose, outside
<1> QED
  BY <1>4, <1>5

\* How a row's move shows in the promise.
LEMMA OutcomeMoves ==
    ASSUME NEW i \in Invoice, Moves(i)
    PROVE  \/ OutcomeOf(i)' = OutcomeOf(i)
           \/ OutcomeOf(i) = "unsold" /\ OutcomeOf(i)' = "owed"
           \/ OutcomeOf(i) = "refused" /\ OutcomeOf(i)' = "owed"
           \/ OutcomeOf(i) = "owed" /\ OutcomeOf(i)' \in {"refused", "disputed"}
           \/ /\ OutcomeOf(i) \in {"refused", "owed"} /\ OutcomeOf(i)' = "delivered"
              /\ server[i] \in Held
BY DEF Moves, OutcomeOf, Held

\* A step of the lane is a step of SaleDelivery or a stutter.
LEMMA DeliveryStep ==
    ASSUME IInv, ClaimedIsSold, [Next]_vars
    PROVE  [Delivery!Next]_(Delivery!vars)
<1> USE InvoiceAssumption
<1>1. CASE UNCHANGED queue /\ ~(\A i \in Invoice : server'[i] \in Held <=> server[i] \in Held)
  <2>1. PICK k \in Invoice :
            /\ queue[k] # "absent"
            /\ \A i \in Invoice : server'[i] \in Held <=> server[i] \in Held \/ i = k
    BY <1>1, LedgerMoves
  <2>2. OutcomeOf(k) # "unsold"
    BY <2>1 DEF OutcomeOf
  <2>3. \A i \in Invoice : OutcomeOf(i)' = OutcomeOf(i)
    BY <1>1 DEF OutcomeOf
  <2>4. Delivery!Take(k)
    BY <2>1, <2>2, <2>3 DEF Delivery!Take
  <2> QED
    BY <2>4 DEF Delivery!Next
<1>2. CASE \A i \in Invoice : server'[i] \in Held <=> server[i] \in Held
  <2>1. {i \in Invoice : server'[i] \in Held} = {i \in Invoice : server[i] \in Held}
    BY <1>2
  <2>2. CASE \A i \in Invoice : OutcomeOf(i)' = OutcomeOf(i)
    BY <2>1, <2>2 DEF Delivery!vars
  <2>3. ASSUME NEW i \in Invoice, OutcomeOf(i)' # OutcomeOf(i)
        PROVE  Delivery!Next
    <3>1. queue'[i] # queue[i]
      BY <2>3 DEF OutcomeOf
    <3>2. ~Reconcile
      BY <2>3 DEF Reconcile, Reclaimable, Releasable, OutcomeOf
    <3>3. \A j \in Invoice : j # i => queue'[j] = queue[j]
      BY <3>1, <3>2, OneRowMoves DEF IInv, TypeOK, DurableTypeOK
    <3>4. \A j \in Invoice : j # i => OutcomeOf(j)' = OutcomeOf(j)
      BY <3>3 DEF OutcomeOf
    <3>5. [j \in Invoice |-> OutcomeOf(j)]'
             = [[j \in Invoice |-> OutcomeOf(j)] EXCEPT ![i] = OutcomeOf(i)']
      BY <3>4
    <3>6. \/ OutcomeOf(i) = "unsold" /\ OutcomeOf(i)' = "owed"
          \/ OutcomeOf(i) = "refused" /\ OutcomeOf(i)' = "owed"
          \/ OutcomeOf(i) = "owed" /\ OutcomeOf(i)' \in {"refused", "disputed"}
          \/ /\ OutcomeOf(i) \in {"refused", "owed"} /\ OutcomeOf(i)' = "delivered"
             /\ server[i] \in Held
      BY <2>3, <3>1, QueueMoves, OutcomeMoves
    <3>7. \/ Delivery!Sell(i) \/ Delivery!Reoffer(i) \/ Delivery!Refuse(i)
          \/ Delivery!Dispute(i) \/ Delivery!Deliver(i) \/ Delivery!Override(i)
      BY <2>1, <3>5, <3>6 DEF Delivery!Sell, Delivery!Reoffer, Delivery!Refuse,
         Delivery!Dispute, Delivery!Deliver, Delivery!Override, Delivery!Move
    <3> QED
      BY <3>7 DEF Delivery!Next
  <2> QED
    BY <2>2, <2>3
<1>3. UNCHANGED queue \/ \A i \in Invoice : server'[i] \in Held <=> server[i] \in Held
  BY LedgerMoves
<1> QED
  BY <1>1, <1>2, <1>3

\* No crash, time-out, retry, lost or late answer or operator decision loses,
\* invents or downgrades a sale: the lane implements SaleDelivery.
THEOREM LaneImplementsDelivery == Spec => ImplementsDelivery
<1>1. Init => ClaimedIsSold /\ Delivery!Init
  BY DEF Init, ClaimedIsSold, Delivery!Init, OutcomeOf, Held
<1>2. IInv /\ ClaimedIsSold /\ [Next]_vars => ClaimedIsSold'
  BY ClaimedNext
<1>3. IInv /\ ClaimedIsSold /\ [Next]_vars => [Delivery!Next]_(Delivery!vars)
  BY DeliveryStep
<1> QED
  BY <1>1, <1>2, <1>3, Invariant, PTL DEF Spec, ImplementsDelivery, Delivery!Spec

=============================================================================
