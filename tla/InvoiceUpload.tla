--------------------------- MODULE InvoiceUpload ---------------------------
(***************************************************************************)
(* The invoice upload lane of the till: the durable sync_queue rows, the   *)
(* local_invoices rows beside them, the single-flight InvoiceUploadWorker  *)
(* that moves them, the network, and the server that answers.              *)
(*                                                                         *)
(* Sales are numbered by their queue_sequence, so an invoice IS its place  *)
(* in commit order.  A sale may consume stock grants ("chains"); the       *)
(* server accepts a sale only after the one before it on each chain.       *)
(*                                                                         *)
(* Time is abstracted to the comparisons the code makes: a persisted       *)
(* retry deadline is due or not, a lease has reached 60 s or not, the      *)
(* server-time bound has passed a sale's instant or not.                   *)
(***************************************************************************)
EXTENDS Naturals, FiniteSets

CONSTANTS
    Invoice,          \* local invoices, numbered by queue_sequence
    Owner,            \* (company, device) pairs that can be signed in
    NoOwner,          \* no authenticated session
    OwnerOf,          \* the owner each invoice was committed under
    Chain,            \* allocation grants: (allocation, rights generation)
    SequenceOn,       \* consumption_sequence of a sale on a chain, 0 for none
    PhysicalPresence, \* invoices of contract versions 3, 5 and 7
    QuickCustomer,    \* invoices of a customer created on this register
    Corrupt,          \* invoices whose queued bytes no longer match their hash
    Faults,           \* the kinds of fault a run allows
    MaxFaults,        \* BOUND: how many faults a behaviour may hold
    MaxHolds          \* BOUND: integrity holds of one row that run out

None == 0             \* no claimed invoice

FaultKind == {"lost", "crash", "busy", "error", "denied", "signout", "resume", "requeue"}

ASSUME InvoiceAssumption ==
    /\ Invoice \subseteq Nat \ {0}
    /\ NoOwner \notin Owner
    /\ OwnerOf \in [Invoice -> Owner]
    /\ SequenceOn \in [Chain -> [Invoice -> Nat]]
    /\ PhysicalPresence \subseteq Invoice
    /\ QuickCustomer \subseteq Invoice
    /\ Corrupt \subseteq Invoice
    /\ Faults \subseteq FaultKind
    /\ MaxFaults \in Nat
    /\ MaxHolds \in Nat

\* The grants a sale consumes.
ChainsOf(i) == {c \in Chain : SequenceOn[c][i] > 0}

\* nextConsumptionSequence numbers the sales of a grant without gaps in commit
\* order, and a grant belongs to one device.
ASSUME SequenceAssumption ==
    \A c \in Chain, i \in Invoice :
        /\ SequenceOn[c][i] > 1 =>
                \E p \in Invoice : SequenceOn[c][p] = SequenceOn[c][i] - 1
        /\ \A j \in Invoice : c \in ChainsOf(i) \cap ChainsOf(j) =>
                /\ OwnerOf[i] = OwnerOf[j]
                /\ i < j <=> SequenceOn[c][i] < SequenceOn[c][j]

\* Sales the server holds: committed on upload, or accepted by an operator.
Held == {"committed", "overridden"}
Terminal == {"synced", "conflict", "rejected"}
QueueState == {"absent", "pending", "uploading", "retryable_error"} \cup Terminal
ServerState == {"none", "committed", "overridden", "quarantined", "refused"}
Answer == {"accepted", "rejected", "quarantined", "conflict", "error", "denied"}
ProcState == {"down", "idle", "requested", "draining", "waiting"}

VARIABLES
    queue,        \* sync_queue.state
    invoice,      \* local_invoices.sync_status
    due,          \* next_attempt_at is null or has passed
    leaseOld,     \* upload_lease_at is at least 60 s ago
    attempts,     \* sync_queue.attempt_count
    quarantined,  \* the persisted failure is DESKTOP_INVOICE_QUARANTINED
    cover,        \* accepted_consumption_sequence of a chain's boundary
    broken        \* chains with an invoice_disposition_chain_break hold

durable == <<queue, invoice, due, leaseOld, attempts, quarantined, cover, broken>>

VARIABLES
    proc,         \* the process and its one drain
    cur,          \* the claimed invoice whose answer is awaited
    rerun,        \* rerunRequested
    paused,       \* pausedReason # null
    wake,         \* the worker's timer is armed
    deferred,     \* deferredWakeMs # null
    awaiting,     \* awaitingSample
    reply         \* the answer that reached this process for the awaited request

worker == <<proc, cur, rerun, paused, wake, deferred, awaiting, reply>>

VARIABLES
    session,      \* the signed-in owner
    access,       \* assertAllowed('sync') and the upload permission hold
    sample,       \* a usable server-time sample exists
    entityOk,     \* sales that wait for no register-created customer any more
    ripe,         \* sales whose send instant the server-time bound has passed
    wire,         \* requests that may still reach the server
    server,       \* what the server holds under each idempotency key
    faults        \* faults spent so far

outside == <<session, access, sample, entityOk, ripe, wire, server, faults>>
vars == <<durable, worker, outside>>

Request == [inv : Invoice, n : Nat, by : Owner]

DurableTypeOK ==
    /\ queue \in [Invoice -> QueueState]
    /\ invoice \in [Invoice -> QueueState]
    /\ due \in [Invoice -> BOOLEAN]
    /\ leaseOld \in [Invoice -> BOOLEAN]
    /\ attempts \in [Invoice -> Nat]
    /\ quarantined \in [Invoice -> BOOLEAN]
    /\ cover \in [Chain -> Nat]
    /\ broken \subseteq Chain

WorkerTypeOK ==
    /\ proc \in ProcState
    /\ cur \in Invoice \cup {None}
    /\ proc = "waiting" => cur \in Invoice
    /\ rerun \in BOOLEAN
    /\ paused \in BOOLEAN
    /\ wake \in BOOLEAN
    /\ deferred \in BOOLEAN
    /\ awaiting \in BOOLEAN
    /\ reply \in Answer \cup {"none"}

OutsideTypeOK ==
    /\ session \in Owner \cup {NoOwner}
    /\ access \in BOOLEAN
    /\ sample \in BOOLEAN
    /\ entityOk \subseteq Invoice
    /\ ripe \subseteq Invoice
    /\ wire \subseteq Request
    /\ server \in [Invoice -> ServerState]
    /\ faults \in Nat

TypeOK == DurableTypeOK /\ WorkerTypeOK /\ OutsideTypeOK

-----------------------------------------------------------------------------
\* The allocation chain.

\* p is the sale immediately before i on chain c.
Precedes(p, c, i) ==
    /\ p \in Invoice /\ c \in ChainsOf(i)
    /\ SequenceOn[c][i] > 1
    /\ SequenceOn[c][p] = SequenceOn[c][i] - 1

\* Mutant: a predecessor that was merely sent once counts as acknowledged.
DependenciesMet_SentOnce(i) ==
    /\ i \in entityOk
    /\ \A p \in Invoice, c \in Chain :
            Precedes(p, c, i) => attempts[p] > 0 \/ cover[c] >= SequenceOn[c][p] \/ c \in broken

\* The dispatch gate of UploadDependencyRepository.evaluate: the register's own
\* customer is accepted, and every predecessor is acknowledged, covered by a
\* stored boundary, or on a chain an operator's decision has broken.
DependenciesMet(i) ==
    /\ i \in entityOk
    /\ \A p \in Invoice, c \in Chain :
            Precedes(p, c, i) => \/ queue[p] = "synced"
                                 \/ cover[c] >= SequenceOn[c][p]
                                 \/ c \in broken

\* Mutant: the gate remembers that the server's clock has once reached the sale
\* and does not ask whether a bound is still there.
TimeGateOpen_OnceRipe(i) == i \in PhysicalPresence => i \in ripe

\* The time gate of the physical-presence contracts.
TimeGateOpen(i) == i \in PhysicalPresence => sample /\ i \in ripe

Accepted(i) == DependenciesMet(i) /\ TimeGateOpen(i)

\* Mutant: the claim's SELECT without the company and device predicate.
Candidate_AnyOwner(i) == queue[i] = "pending" /\ due[i]

\* The rows the claim's SELECT returns.
Candidate(i) == queue[i] = "pending" /\ due[i] /\ OwnerOf[i] = session

\* accept() is asked in queue_sequence order and the first yes wins.
NextClaim(i) ==
    /\ Candidate(i) /\ Accepted(i)
    /\ \A j \in Invoice : (j < i /\ Candidate(j)) => ~Accepted(j)

\* What accept() notes about the candidates it looks at and refuses.
Refused(last) == {j \in Invoice : j < last /\ Candidate(j) /\ DependenciesMet(j)}
DeferredBy(S) == sample /\ S # {}
AwaitingBy(S) == ~sample /\ S # {}

-----------------------------------------------------------------------------
\* The worker's single flight.

\* requestRun(): start a drain, or leave exactly one rerun behind the live one.
RequestRun ==
    IF proc = "idle" THEN proc' = "requested" /\ UNCHANGED rerun
                     ELSE rerun' = TRUE /\ UNCHANGED proc

\* The end of run(): the drain is over; a rerun asked for meanwhile starts now.
FinishDrain ==
    /\ proc' = IF rerun THEN "requested" ELSE "idle"
    /\ rerun' = FALSE

\* rearm() arms for the earliest FUTURE deadline: a retry whose deadline has
\* already passed contributes nothing.
FutureRetry == \E i \in Invoice : /\ queue[i] = "retryable_error"
                                  /\ ~due[i]
                                  /\ OwnerOf[i] = session


\* The main thread is not inside the synchronous part of a drain, so another
\* handler may run.  Clocks, the server and a crash need no such permission.
Quiet == proc \in {"idle", "waiting"}

Fault(kind) ==
    /\ kind \in Faults
    /\ faults < MaxFaults
    /\ faults' = faults + 1

-----------------------------------------------------------------------------
Init ==
    /\ queue = [i \in Invoice |-> "absent"]
    /\ invoice = [i \in Invoice |-> "absent"]
    /\ due = [i \in Invoice |-> TRUE]
    /\ leaseOld = [i \in Invoice |-> FALSE]
    /\ attempts = [i \in Invoice |-> 0]
    /\ quarantined = [i \in Invoice |-> FALSE]
    /\ cover = [c \in Chain |-> 0]
    /\ broken = {}
    /\ proc = "idle"
    /\ cur = None
    /\ rerun = FALSE
    /\ paused = FALSE
    /\ wake = FALSE
    /\ deferred = FALSE
    /\ awaiting = FALSE
    /\ reply = "none"
    /\ session \in Owner \cup {NoOwner}
    /\ access = (session # NoOwner)
    /\ sample = FALSE
    /\ entityOk = Invoice \ QuickCustomer
    /\ ripe = {}
    /\ wire = {}
    /\ server = [i \in Invoice |-> "none"]
    /\ faults = 0

-----------------------------------------------------------------------------
\* The till around the worker.

\* A sale commits: invoice and queue row appear together, then onSaleCommitted.
Commit(i) ==
    /\ Quiet
    /\ queue[i] = "absent" /\ session = OwnerOf[i]
    /\ \A j \in Invoice : j < i => queue[j] # "absent"
    /\ queue' = [queue EXCEPT ![i] = "pending"]
    /\ invoice' = [invoice EXCEPT ![i] = "pending"]
    /\ RequestRun
    /\ UNCHANGED <<due, leaseOld, attempts, quarantined, cover, broken, cur,
                   paused, wake, deferred, awaiting, reply, outside>>

\* A sign-in publishes authority, and a publish asks for a drain.
Login(o) ==
    /\ Quiet
    /\ session = NoOwner
    /\ session' = o /\ access' = TRUE
    /\ RequestRun
    /\ UNCHANGED <<durable, cur, paused, wake, deferred, awaiting, reply, sample,
                   entityOk, ripe, wire, server, faults>>

Logout ==
    /\ Quiet
    /\ session # NoOwner
    /\ Fault("signout")
    /\ session' = NoOwner /\ access' = FALSE
    /\ UNCHANGED <<durable, worker, sample, entityOk, ripe, wire, server>>

\* Connectivity, the licence, the company or the device stops allowing 'sync'.
AccessLost ==
    /\ proc # "down"
    /\ access
    /\ Fault("denied")
    /\ access' = FALSE
    /\ UNCHANGED <<durable, worker, session, sample, entityOk, ripe, wire, server>>

\* Mutant: authority comes back and nobody is told.
AccessBack_Unheard ==
    /\ Quiet
    /\ session # NoOwner /\ ~access
    /\ access' = TRUE
    /\ UNCHANGED <<durable, worker, session, sample, entityOk, ripe, wire, server, faults>>

\* Authority or connectivity comes back, and its event asks for a drain.
AccessBack ==
    /\ Quiet
    /\ session # NoOwner /\ ~access
    /\ access' = TRUE
    /\ RequestRun
    /\ UNCHANGED <<durable, cur, paused, wake, deferred, awaiting, reply, session,
                   sample, entityOk, ripe, wire, server, faults>>

\* Any other event that calls requestRun(): a publish, the sync IPC hint.
Trigger ==
    /\ Quiet
    /\ RequestRun
    /\ UNCHANGED <<durable, cur, paused, wake, deferred, awaiting, reply, outside>>

\* A probe or a licence leg yields a server-time sample.
SampleArrives ==
    /\ Quiet
    /\ sample' = TRUE
    /\ RequestRun
    /\ UNCHANGED <<durable, cur, paused, wake, deferred, awaiting, reply, session,
                   access, entityOk, ripe, wire, server, faults>>

\* The sample passes its maximum age, or the machine resumes from sleep.
SampleLost ==
    /\ proc # "down"
    /\ sample
    /\ Fault("resume")
    /\ sample' = FALSE
    /\ UNCHANGED <<durable, worker, session, access, entityOk, ripe, wire, server>>

\* The server accepts the register's own customer.
EntityAccepted(i) ==
    /\ Quiet
    /\ i \notin entityOk
    /\ entityOk' = entityOk \cup {i}
    /\ RequestRun
    /\ UNCHANGED <<durable, cur, paused, wake, deferred, awaiting, reply, session,
                   access, sample, ripe, wire, server, faults>>

-----------------------------------------------------------------------------
\* Clocks.

DeadlinePasses(i) ==
    /\ queue[i] = "retryable_error" /\ ~due[i]
    /\ i \in Corrupt => attempts[i] <= MaxHolds
    /\ due' = [due EXCEPT ![i] = TRUE]
    /\ UNCHANGED <<queue, invoice, leaseOld, attempts, quarantined, cover, broken,
                   worker, outside>>

\* An answer is awaited for 10 s at most, so only an orphaned lease grows old.
LeaseAges(i) ==
    /\ queue[i] = "uploading" /\ cur # i /\ ~leaseOld[i]
    /\ leaseOld' = [leaseOld EXCEPT ![i] = TRUE]
    /\ UNCHANGED <<queue, invoice, due, attempts, quarantined, cover, broken,
                   worker, outside>>

Ripens(i) ==
    /\ sample /\ i \in PhysicalPresence /\ i \notin ripe
    /\ ripe' = ripe \cup {i}
    /\ UNCHANGED <<durable, worker, session, access, sample, entityOk, wire,
                   server, faults>>

-----------------------------------------------------------------------------
\* The worker.

\* Mutant: the retry release without its owner predicate.
Releasable_AnyOwner(i) == queue[i] = "retryable_error" /\ due[i]

\* Mutant: a drain never looks for expired leases.
Reclaimable_Never(i) == queue[i] = "uploading" /\ FALSE

\* The head of drain(): reclaimExpiredUploadLeases moves orphaned rows to
\* retryable_error with a deadline of now, and releaseDueRetries at once moves
\* every due retry to pending.  Both touch the session owner's queue rows only,
\* and neither writes local_invoices.
Reclaimable(i) == queue[i] = "uploading" /\ leaseOld[i] /\ OwnerOf[i] = session
Releasable(i) == queue[i] = "retryable_error" /\ due[i] /\ OwnerOf[i] = session

Reconcile ==
    /\ proc = "requested"
    /\ proc' = "draining"
    /\ queue' = [i \in Invoice |-> IF Reclaimable(i) \/ Releasable(i)
                                   THEN "pending" ELSE queue[i]]
    /\ due' = [i \in Invoice |-> due[i] \/ Reclaimable(i)]
    /\ leaseOld' = [i \in Invoice |-> leaseOld[i] /\ ~Reclaimable(i)]
    /\ quarantined' = [i \in Invoice |-> quarantined[i] /\ ~Reclaimable(i)]
    /\ deferred' = FALSE /\ awaiting' = FALSE
    /\ UNCHANGED <<invoice, attempts, cover, broken, cur, rerun, paused, wake,
                   reply, outside>>

Authorized == access /\ session # NoOwner

\* Mutant: the recorder writes the queue row and not the invoice row.
Record_QueueOnly(i, state, isDue, isQuarantined) ==
    /\ queue' = [queue EXCEPT ![i] = state]
    /\ due' = [due EXCEPT ![i] = isDue]
    /\ leaseOld' = [leaseOld EXCEPT ![i] = FALSE]
    /\ quarantined' = [quarantined EXCEPT ![i] = isQuarantined]
    /\ UNCHANGED invoice

\* A row leaves 'uploading' with the state the recorder writes to both tables.
Record(i, state, isDue, isQuarantined) ==
    /\ queue' = [queue EXCEPT ![i] = state]
    /\ invoice' = [invoice EXCEPT ![i] = state]
    /\ due' = [due EXCEPT ![i] = isDue]
    /\ leaseOld' = [leaseOld EXCEPT ![i] = FALSE]
    /\ quarantined' = [quarantined EXCEPT ![i] = isQuarantined]

\* claimNextInvoiceUpload and the synchronous head of dispatch(): the request
\* leaves with the session's token in the same tick.
Claim(i) ==
    /\ proc = "draining" /\ Authorized
    /\ NextClaim(i) /\ i \notin Corrupt
    /\ queue' = [queue EXCEPT ![i] = "uploading"]
    /\ invoice' = [invoice EXCEPT ![i] = "uploading"]
    /\ leaseOld' = [leaseOld EXCEPT ![i] = FALSE]
    /\ attempts' = [attempts EXCEPT ![i] = @ + 1]
    /\ wire' = wire \cup {[inv |-> i, n |-> attempts[i] + 1, by |-> session]}
    /\ proc' = "waiting" /\ cur' = i /\ reply' = "none"
    /\ paused' = FALSE
    /\ deferred' = (deferred \/ DeferredBy(Refused(i)))
    /\ awaiting' = (awaiting \/ AwaitingBy(Refused(i)))
    /\ UNCHANGED <<due, quarantined, cover, broken, rerun, wake, session, access,
                   sample, entityOk, ripe, server, faults>>

\* The same claim of a row whose bytes no longer match their hash: nothing is
\* sent, the row is held for an hour and the drain goes on.
ClaimCorrupt(i) ==
    /\ proc = "draining" /\ Authorized
    /\ NextClaim(i) /\ i \in Corrupt
    /\ Record(i, "retryable_error", FALSE, FALSE)
    /\ attempts' = [attempts EXCEPT ![i] = @ + 1]
    /\ paused' = FALSE
    /\ deferred' = (deferred \/ DeferredBy(Refused(i)))
    /\ awaiting' = (awaiting \/ AwaitingBy(Refused(i)))
    /\ UNCHANGED <<cover, broken, proc, cur, rerun, wake, reply, outside>>

\* authorize() refuses: the worker pauses and a paused worker arms nothing.
DrainDenied ==
    /\ proc = "draining" /\ ~Authorized
    /\ paused' = TRUE /\ wake' = FALSE
    /\ FinishDrain
    /\ UNCHANGED <<durable, cur, deferred, awaiting, reply, outside>>

\* Nothing to claim: rearm() for the earliest deadline.
Waiters == {i \in Invoice : Candidate(i) /\ DependenciesMet(i)}

DrainDone ==
    /\ proc = "draining" /\ Authorized
    /\ \A i \in Invoice : ~NextClaim(i)
    /\ paused' = FALSE
    /\ deferred' = (deferred \/ DeferredBy(Waiters))
    /\ awaiting' = (awaiting \/ AwaitingBy(Waiters))
    /\ wake' = (deferred' \/ awaiting' \/ FutureRetry)
    /\ FinishDrain
    /\ UNCHANGED <<durable, cur, reply, outside>>

Answered(a) == proc = "waiting" /\ reply = a
NextItem == proc' = "draining" /\ cur' = None /\ reply' = "none"

\* The server holds the whole prefix of chain c up to sequence n.
Covers(c, n) ==
    \A j \in Invoice : c \in ChainsOf(j) /\ SequenceOn[c][j] <= n => server[j] \in Held

\* The grants of sale i an answer may carry a boundary for.
Coverable(i) == {c \in ChainsOf(i) : Covers(c, SequenceOn[c][i])}

\* 201 or 200: both rows and the coverage that came along, in one transaction.
RecordSynced ==
    /\ Answered("accepted")
    /\ Record(cur, "synced", TRUE, FALSE)
    /\ \E S \in SUBSET Coverable(cur) :
        cover' = [c \in Chain |-> IF c \in S /\ SequenceOn[c][cur] > cover[c]
                                  THEN SequenceOn[c][cur] ELSE cover[c]]
    /\ NextItem
    /\ UNCHANGED <<attempts, broken, rerun, paused, wake, deferred, awaiting, outside>>

\* A terminal refusal, a quarantine, a conflict, or a failure to retry.
RecordFailure ==
    /\ \/ Answered("rejected") /\ Record(cur, "rejected", TRUE, FALSE)
       \/ Answered("quarantined") /\ Record(cur, "rejected", TRUE, TRUE)
       \/ Answered("conflict") /\ Record(cur, "conflict", TRUE, FALSE)
       \/ Answered("error") /\ Record(cur, "retryable_error", FALSE, FALSE)
    /\ NextItem
    /\ UNCHANGED <<attempts, cover, broken, rerun, paused, wake, deferred,
                   awaiting, outside>>

\* A device-wide denial: retryable with no delay, and the drain stops paused.
RecordPause ==
    /\ Answered("denied")
    /\ Record(cur, "retryable_error", TRUE, FALSE)
    /\ session' \in {session, NoOwner}
    /\ access' \in {access /\ session' # NoOwner, FALSE}
    /\ paused' = TRUE /\ wake' = FALSE
    /\ FinishDrain
    /\ cur' = None /\ reply' = "none"
    /\ UNCHANGED <<attempts, cover, broken, deferred, awaiting, sample, entityOk,
                   ripe, wire, server, faults>>

\* The request the worker waits for.
Outstanding(m) == proc = "waiting" /\ m.inv = cur /\ m.n = attempts[cur]

\* Mutant: silence is taken for success.
Timeout_AsSuccess ==
    /\ Answered("none")
    /\ \/ (\E m \in wire : Outstanding(m)) /\ Fault("lost")
       \/ (\A m \in wire : ~Outstanding(m)) /\ UNCHANGED faults
    /\ Record(cur, "synced", TRUE, FALSE)
    /\ NextItem
    /\ UNCHANGED <<attempts, cover, broken, rerun, paused, wake, deferred, awaiting,
                   session, access, sample, entityOk, ripe, wire, server>>

\* Ten seconds of silence, or the connection fails: the row is to be retried.
\* The request may still be on its way.
Timeout ==
    /\ Answered("none")
    /\ \/ (\E m \in wire : Outstanding(m)) /\ Fault("lost")
       \/ (\A m \in wire : ~Outstanding(m)) /\ UNCHANGED faults
    /\ Record(cur, "retryable_error", FALSE, FALSE)
    /\ NextItem
    /\ UNCHANGED <<attempts, cover, broken, rerun, paused, wake, deferred, awaiting,
                   session, access, sample, entityOk, ripe, wire, server>>

\* SQLite refuses the recorder's transaction: the drain rejects past rearm().
RecordThrows ==
    /\ proc = "waiting" /\ reply # "none"
    /\ Fault("busy")
    /\ FinishDrain
    /\ cur' = None /\ reply' = "none"
    /\ UNCHANGED <<durable, paused, wake, deferred, awaiting, session, access,
                   sample, entityOk, ripe, wire, server>>

TimerFires ==
    /\ Quiet /\ wake
    /\ wake' = FALSE
    /\ RequestRun
    /\ UNCHANGED <<durable, cur, paused, deferred, awaiting, reply, outside>>

-----------------------------------------------------------------------------
\* The process.

\* The process is killed.  A persisted credential survives it; timers, the
\* pause, the server-time sample and the awaited answer do not.
Crash ==
    /\ proc # "down"
    /\ Fault("crash")
    /\ proc' = "down" /\ cur' = None /\ reply' = "none"
    /\ rerun' = FALSE /\ paused' = FALSE /\ wake' = FALSE
    /\ deferred' = FALSE /\ awaiting' = FALSE
    /\ sample' = FALSE /\ access' = FALSE
    /\ UNCHANGED <<durable, session, entityOk, ripe, wire, server>>

\* Start-up asks for a drain at once; connectivity is still unknown, so that
\* drain reconciles and then pauses.
Start ==
    /\ proc = "down"
    /\ proc' = "requested"
    /\ UNCHANGED <<durable, cur, rerun, paused, wake, deferred, awaiting, reply, outside>>

\* Mutant: the script re-offers a conflict as well.
Requeue_AnyTerminal(i) ==
    /\ proc = "down"
    /\ queue[i] \in {"rejected", "conflict"}
    /\ Fault("requeue")
    /\ queue' = [queue EXCEPT ![i] = "pending"]
    /\ invoice' = [invoice EXCEPT ![i] = "pending"]
    /\ due' = [due EXCEPT ![i] = TRUE]
    /\ leaseOld' = [leaseOld EXCEPT ![i] = FALSE]
    /\ UNCHANGED <<attempts, quarantined, cover, broken, worker, session, access,
                   sample, entityOk, ripe, wire, server>>

\* The operator's script re-offers one rejected sale while the app is closed.
Requeue(i) ==
    /\ proc = "down"
    /\ queue[i] = "rejected" /\ invoice[i] = "rejected"
    /\ Fault("requeue")
    /\ queue' = [queue EXCEPT ![i] = "pending"]
    /\ invoice' = [invoice EXCEPT ![i] = "pending"]
    /\ due' = [due EXCEPT ![i] = TRUE]
    /\ leaseOld' = [leaseOld EXCEPT ![i] = FALSE]
    /\ UNCHANGED <<attempts, quarantined, cover, broken, worker, session, access,
                   sample, entityOk, ripe, wire, server>>

-----------------------------------------------------------------------------
\* The server.

\* The server commits a sale only when it holds the sale before it on each chain.
CanCommit(i) ==
    /\ server[i] = "none"
    /\ \A p \in Invoice, c \in Chain : Precedes(p, c, i) => server[p] \in Held

Answers(m, a) ==
    /\ wire' = wire \ {m}
    /\ reply' = IF Outstanding(m) THEN a ELSE reply

ServerAccepts(m) ==
    /\ \/ server[m.inv] \in Held /\ UNCHANGED server
       \/ CanCommit(m.inv) /\ server' = [server EXCEPT ![m.inv] = "committed"]
    /\ Answers(m, "accepted")
    /\ UNCHANGED faults

ServerQuarantines(m) ==
    /\ \/ server[m.inv] \in {"quarantined", "refused"} /\ UNCHANGED server
       \/ /\ server[m.inv] = "none" /\ m.inv \in PhysicalPresence
          /\ server' = [server EXCEPT ![m.inv] = "quarantined"]
    /\ Answers(m, "quarantined")
    /\ UNCHANGED faults

ServerRefuses(m) ==
    /\ server[m.inv] = "none"
    /\ \E a \in {"rejected", "conflict"} : Answers(m, a)
    /\ UNCHANGED <<server, faults>>

\* A 5xx, a lost or unreadable answer, or a device-wide denial.
ServerFails(m) ==
    /\ \/ /\ Fault("error")
          /\ \/ UNCHANGED server
             \/ CanCommit(m.inv) /\ server' = [server EXCEPT ![m.inv] = "committed"]
          /\ Answers(m, "error")
       \/ Fault("denied") /\ Answers(m, "denied") /\ UNCHANGED server

ServerHandles(m) ==
    /\ m \in wire
    /\ \/ ServerAccepts(m)
       \/ ServerQuarantines(m)
       \/ ServerRefuses(m)
       \/ ServerFails(m)
    /\ UNCHANGED <<durable, proc, cur, rerun, paused, wake, deferred, awaiting,
                   session, access, sample, entityOk, ripe>>

\* The network drops a request.
Lose(m) ==
    /\ m \in wire
    /\ Fault("lost")
    /\ wire' = wire \ {m}
    /\ UNCHANGED <<durable, worker, session, access, sample, entityOk, ripe, server>>

\* An operator on the server decides a quarantined sale.
ServerDecides(i) ==
    /\ server[i] = "quarantined"
    /\ \E d \in {"overridden", "refused"} : server' = [server EXCEPT ![i] = d]
    /\ UNCHANGED <<durable, worker, session, access, sample, entityOk, ripe, wire, faults>>

-----------------------------------------------------------------------------
\* What the till learns beside the upload answers.

\* A coverage boundary from a stock snapshot.
Snapshot(c, k) ==
    /\ Quiet
    /\ c \in ChainsOf(k) /\ session = OwnerOf[k] /\ queue[k] # "absent"
    /\ cover[c] < SequenceOn[c][k] /\ Covers(c, SequenceOn[c][k])
    /\ cover' = [cover EXCEPT ![c] = SequenceOn[c][k]]
    /\ UNCHANGED <<queue, invoice, due, leaseOld, attempts, quarantined, broken,
                   worker, outside>>

\* The disposition discovery applies an operator's decision: both rows become
\* synced or stay rejected, every overridden grant gets a chain-break hold, and
\* onConverged asks for a drain.
Decided(i) == /\ quarantined[i] /\ i \in PhysicalPresence \ Corrupt
              /\ server[i] \in {"overridden", "refused"}

Converge(i) ==
    /\ Quiet
    /\ session = OwnerOf[i]
    /\ queue[i] = "rejected" /\ invoice[i] = "rejected"
    /\ Decided(i)
    /\ \/ /\ server[i] = "overridden"
          /\ queue' = [queue EXCEPT ![i] = "synced"]
          /\ invoice' = [invoice EXCEPT ![i] = "synced"]
          /\ \E B \in SUBSET ChainsOf(i) : broken' = broken \cup B
       \/ /\ server[i] = "refused" /\ ~(ChainsOf(i) \subseteq broken)
          /\ broken' = broken \cup ChainsOf(i)
          /\ UNCHANGED <<queue, invoice>>
    /\ RequestRun
    /\ UNCHANGED <<due, leaseOld, attempts, quarantined, cover, cur, paused, wake,
                   deferred, awaiting, reply, outside>>

-----------------------------------------------------------------------------
SaleStep(i) ==
    \/ Commit(i) \/ EntityAccepted(i) \/ Requeue(i) \/ Converge(i)
    \/ DeadlinePasses(i) \/ LeaseAges(i) \/ Ripens(i) \/ ServerDecides(i)

TillStep ==
    \/ \E o \in Owner : Login(o)
    \/ Logout \/ AccessLost \/ AccessBack \/ Trigger
    \/ SampleArrives \/ SampleLost \/ Crash \/ Start
    \/ \E k \in Invoice, c \in Chain : Snapshot(c, k)

WorkerStep ==
    \/ Reconcile \/ DrainDenied \/ DrainDone
    \/ \E i \in Invoice : Claim(i) \/ ClaimCorrupt(i)
    \/ RecordSynced \/ RecordFailure \/ RecordPause \/ Timeout \/ RecordThrows
    \/ TimerFires

NetworkStep == \E m \in wire : ServerHandles(m) \/ Lose(m)

Next ==
    \/ \E i \in Invoice : SaleStep(i)
    \/ TillStep
    \/ WorkerStep
    \/ NetworkStep

Spec == Init /\ [][Next]_vars

\* The scheduling the code gives: the event loop runs what it has been handed,
\* timers fire, deadlines pass, a killed till is started again, an awaited
\* request is answered or times out, a lost authority comes back, a held
\* customer is decided, and an awaited server-time sample is fetched.  A handler
\* that must wait for the running drain is strongly fair: the event loop keeps
\* what it was handed and runs it between two drains.
Answering == \E m \in wire : Outstanding(m) /\ ServerHandles(m)
Sampling == awaiting /\ ~sample /\ SampleArrives

WorkerFairness ==
    /\ WF_vars(Reconcile) /\ WF_vars(DrainDenied) /\ WF_vars(DrainDone)
    /\ WF_vars(\E i \in Invoice : Claim(i) \/ ClaimCorrupt(i))
    /\ WF_vars(RecordSynced \/ RecordFailure \/ RecordPause)
    /\ WF_vars(Timeout) /\ SF_vars(TimerFires) /\ WF_vars(Start)

WorldFairness ==
    /\ WF_vars(Answering) /\ SF_vars(Sampling)
    /\ SF_vars(AccessBack) /\ SF_vars(\E o \in Owner : Login(o))
    /\ \A i \in Invoice : /\ WF_vars(DeadlinePasses(i)) /\ WF_vars(LeaseAges(i))
                          /\ WF_vars(Ripens(i)) /\ SF_vars(EntityAccepted(i))

\* A row sent once and not settled.  For these alone the lane leans on the next
\* sale, focus or publish to ask again: its timer misses a retry already due, a
\* lease still young and what a failed write left (RetryReleased, LeaseFreed).
\* A sale that has not been sent is moved by the worker's own reruns and timers
\* and by the event that ends what it waits for.
Unsettled == \E i \in Invoice : queue[i] \in {"uploading", "retryable_error"}

FairSpec == Spec /\ WorkerFairness /\ WorldFairness /\ WF_vars(Unsettled /\ Trigger)

\* The same without that help: what the worker arms for itself.
UnaidedSpec == Spec /\ WorkerFairness /\ WorldFairness

-----------------------------------------------------------------------------
\* Properties.

\* Queue and invoice row tell one story about the outcome: one is terminal
\* exactly when the other is, with the same verdict, and a leased queue row's
\* invoice is marked uploading (InvoiceUploadOutcomeRecorder, claim, requeue,
\* disposition commit).
RowsAgreeOnOutcome ==
    \A i \in Invoice :
        /\ (queue[i] \in Terminal \/ invoice[i] \in Terminal) => queue[i] = invoice[i]
        /\ queue[i] = "uploading" => invoice[i] = "uploading"

\* A sale the till shows as synced is a sale the server holds, whatever was
\* lost, duplicated, late or re-sent ("an upload is never resolved by a
\* timeout", invoiceUploadWorker.ts).
SyncedIsHeld == \A i \in Invoice : queue[i] = "synced" => server[i] \in Held

\* Chain c was broken by a decision on a sale earlier than i, and the server
\* holds everything before that sale.
Decision == {"overridden", "refused"}
HeldBefore(c, i) ==
    \A j \in Invoice : j < i /\ c \in ChainsOf(j) => server[j] \in Held
FirstBreak(c, x) == c \in ChainsOf(x) /\ server[x] \in Decision /\ HeldBefore(c, x)
BrokenBefore(c, i) == \E x \in Invoice : x < i /\ FirstBreak(c, x)

\* A sale that consumes a grant leaves the till only after the server holds the
\* sale before it on that grant, or an operator has decided an earlier sale of
\* that grant whose own predecessors it holds (UploadDependencyRepository.evaluate).
SentInOrder ==
    \A m \in wire, p \in Invoice, c \in Chain :
        Precedes(p, c, m.inv) => server[p] \in Held \/ BrokenBefore(c, m.inv)

\* No request carries another owner's sale under this session's token, across
\* logouts, re-logins and other owners' rows in the same database.
OwnerIsolation == \A m \in wire : m.by = OwnerOf[m.inv]

\* No request leaves with damaged bytes, for a customer the server has not
\* accepted, or for a physical-presence sale the server clock may still call
\* future; and a bound of that clock that has since vanished (sleep, age) counts
\* for nothing: the gate is open at the moment the request leaves.
SendGates ==
    [][\A m \in wire' \ wire :
            /\ m.inv \notin Corrupt
            /\ m.inv \in entityOk
            /\ m.inv \in PhysicalPresence => sample /\ m.inv \in ripe]_vars

\* A running till writes only the signed-in owner's queue rows, except to
\* record the answer to the request it has in flight.
ForeignRowsUntouched ==
    [][\A i \in Invoice :
        queue'[i] # queue[i] /\ proc # "down" =>
            session = OwnerOf[i] \/ (proc = "waiting" /\ cur = i)]_vars

\* A terminal row moves again only from rejected: to synced when the server
\* overrode its quarantine, or to pending by the operator's script while the
\* app is closed.
TerminalIsFinal ==
    [][\A i \in Invoice :
        queue[i] \in Terminal /\ queue'[i] # queue[i] =>
            /\ queue[i] = "rejected"
            /\ \/ queue'[i] = "synced" /\ server[i] = "overridden"
               \/ queue'[i] = "pending" /\ proc = "down"]_vars

\* A sale waits behind a sale of the same grant that ended badly.
Blocked(i) == \E p \in Invoice : /\ p < i /\ ChainsOf(p) \cap ChainsOf(i) # {}
                                 /\ queue[p] \in {"conflict", "rejected"}

\* Every committed sale reaches a terminal state through crashes, timeouts,
\* server errors, denials and failed writes, unless it waits behind one that
\* was refused.
EverySaleSettles ==
    \A i \in Invoice : queue[i] # "absent" ~> queue[i] \in Terminal \/ Blocked(i)


\* What the comments say of the timer and the lease, each checked by a run of
\* its own.

\* nextRetryDeadline: "A deadline already due contributes nothing here -- the
\* drain that is running releases it", so a retry is released with no help.
RetryReleased ==
    \A i \in Invoice : queue[i] = "retryable_error" ~> queue[i] # "retryable_error"

\* drain(): "Rows left `uploading` by a crash are freed first, so a killed
\* process cannot strand a sale."
LeaseFreed == \A i \in Invoice : queue[i] = "uploading" ~> queue[i] # "uploading"

-----------------------------------------------------------------------------
\* The inductive strengthening behind SyncedIsHeld and SentInOrder.

\* The awaited row is leased, and only an awaited request is answered.
InFlight ==
    /\ proc = "waiting" => queue[cur] = "uploading"
    /\ reply # "none" => proc = "waiting"
    /\ reply = "accepted" => server[cur] \in Held

\* Whatever reached the wire or the server was claimed once.
OnlyClaimedIsKnown ==
    /\ \A m \in wire : attempts[m.inv] > 0
    /\ \A i \in Invoice : server[i] # "none" => attempts[i] > 0

\* A boundary covers only what the server holds; a hold rests on a decision.
CoverHeld == \A c \in Chain : Covers(c, cover[c])
BrokenDecided == \A c \in broken : \E x \in Invoice : FirstBreak(c, x)

\* On each grant of a sale once claimed, the server holds everything earlier,
\* or something earlier broke the grant.
InOrder(i) == \A c \in ChainsOf(i) : HeldBefore(c, i) \/ BrokenBefore(c, i)
ClaimedInOrder == \A i \in Invoice : attempts[i] > 0 => InOrder(i)

IInv == /\ TypeOK /\ InFlight /\ SyncedIsHeld /\ OnlyClaimedIsKnown
        /\ CoverHeld /\ BrokenDecided /\ ClaimedInOrder

-----------------------------------------------------------------------------
\* The lane implements the delivery promise.

OutcomeOf(i) ==
    CASE queue[i] = "absent" -> "unsold"
      [] queue[i] = "synced" -> "delivered"
      [] queue[i] = "rejected" -> "refused"
      [] queue[i] = "conflict" -> "disputed"
      [] OTHER -> "owed"

Delivery == INSTANCE SaleDelivery WITH
    Sale <- Invoice,
    outcome <- [i \in Invoice |-> OutcomeOf(i)],
    ledger <- {i \in Invoice : server[i] \in Held}

\* Every step of the lane is a step of SaleDelivery or leaves its state alone:
\* no crash, timeout, retry or decision loses, invents or downgrades a sale.
ImplementsDelivery == Delivery!Spec

=============================================================================
