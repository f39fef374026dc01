# POS desktop: a TLA+ model of the till's durable work

This directory is a verification project for the POS desktop application
(`src/`, Electron main process in TypeScript, SQLite, a remote backend). It
models the parts of the till that move money and stock between a machine that
crashes, a network that loses and delays, an operator who signs in and out and a
server that answers late. TLC checks the models on small instances; TLAPS proves
the safety theorems for every value of the constants.

Paths below are relative to the repository root (`src/main/...` is
`src/src/main/...` in `PROJECT.json`).

## 1. The system

One Electron main process owns one SQLite connection. SQLite calls are
synchronous, so a transaction is one indivisible step of the event loop;
interleaving happens only at an `await`: an HTTP request, a timer, an IPC call.
Everything that must survive a crash is a row; everything else (timers, in-flight
promises, the pause reason of a worker, the server-time sample) dies with the
process. The renderer holds no authority and reaches the main process by IPC.

The hard behaviours are always the same five: an answer that arrives after the
state it was asked for has changed; a request that times out here and commits
there; a process killed between a durable step and the next; a retry armed in
memory for a promise kept on disk; and several parties (the worker, the cashier,
an operator on the server) that write to the same rows.

### Components

| Component | State it keeps | Operations | Talks to | Correct when | Status |
|---|---|---|---|---|---|
| Invoice upload lane (`sync/invoiceUploadWorker.ts`, `repositories/syncQueue.repository.ts`, `sync/invoiceUploadOutcome.ts`) | `sync_queue` and `local_invoices` rows, lease, deadline, attempt count; worker flags `running`, `rerunRequested`, `pausedReason`, wake timer | requestRun, drain, reclaim, release, claim, dispatch, record, rearm, requeue script | backend, session, commercial access, server time, dispositions | a sale is sent only by its owner, in grant order, past its gates; `synced` means held; every sale settles | modelled |
| Upload dependencies (`repositories/uploadDependency.repository.ts`) | none (reads rows, boundaries, holds) | evaluate | upload lane, status screen | order on each grant | dispatch gate modelled |
| Server time estimator | monotonic sample | observe, lower bound, invalidate | upload lane | a timed sale never leaves on a missing bound | abstracted to a boolean |
| Disposition discovery and convergence (`services/invoiceDisposition*.ts`) | quarantined rows, applied decisions, chain-break holds; lock and interval of the trigger | find candidates, ask, verify, apply | upload lane, backend | an operator's decision is applied once, whole, for the owner signed in | modelled |
| Stock request dispatch (`services/allocationAcquisition.service.ts`, `services/allocationDispatchReconciler.service.ts`, `repositories/allocationDispatch.repository.ts`) | `attempt_allocation_dispatches`; in-flight map; reconciler flags and timer | acquire, sendRecorded, markSending, classify, settle, run, requestRun | backend, sale attempts, connectivity | evidence before request; a grant is real; nothing outstanding is forgotten | modelled |
| Sale attempts and completion (`services/saleCompletion.service.ts`, `services/localSale.service.ts`, `repositories/saleAttempt.repository.ts`) | `sale_attempts.state`, the invoice, completions in flight | prepare, run, retry, abandon, settle, acknowledge, status, pending | window, request dispatch, catalog install | one invoice per committed attempt, none for others; no line in two sales | states, answers and interleaving modelled; prices are not |
| Connectivity (`services/connectivity.service.ts`) | verdict, in-flight probe, backoff timer, throttle | start, checkNow, ensureFresh, observe, resume, shutdown | everything that retries | never gives up while offline, silent while online | modelled |
| Stock allocation ledger and coverage (`repositories/stockAllocation.repository.ts`, `services/allocationReconciliation.service.ts`) | grants, balances, consumption journal, boundaries, markers, holds | snapshot apply, top-up ingest, consume, reconcile | upload gate, sale commit, recovery | consumption within the grant whatever the order of evidence; no hold on honest evidence | modelled for current grants; legacy ones are not |
| Allocation recovery (`services/allocationRecovery.service.ts`) | recovery record per stranded grant | request, seal, replay, acknowledge | backend, upload rows, ledger | the declared journal is whole; a recovery begun is finished | modelled |
| Register quick-create and entity outbox (`sync/entityCreateWorker.ts`, `repositories/quickCreate.repository.ts`) | outbox rows with lease | create, claim, send, settle, reassign, resubmit, converge | backend, upload gate | a customer is created once; a request settles | modelled without form validation |
| Commercial access, licence, company state (`services/accessOrdering.ts`) | last observations, accepted evaluation number | assertAllowed, observe | every online action | access moves forward only, for its owner only | order of answers modelled |
| Session (`services/session.service.ts`, `services/auth.service.ts`) | current session, epoch | login, refresh, logout, denied | all | nothing of one session is applied to the next | modelled |
| Device heartbeat (`services/deviceHeartbeat.service.ts`) | timer, deadlines, single flight | beat, settle, signal, suspend, resume | backend, session, connectivity | never before it may, always again | modelled |
| Renewal coordinator (`services/renewalCoordinator.service.ts`) | the flight, denial, lead-time timer | renew, legs, denied | licence, bootstrap | results belong to the owner that asked | legs modelled, timer not |
| Catalog install and refresh (`services/catalogInstallGate.service.ts`, `renderer/.../installHold.ts`) | hold, report registry, installed revision; window's hold flag and queue | acquire, reply, install, settle, release | window, sale attempts, bootstrap | a new catalog never lands under a sale in progress; the window is released | handshake modelled |
| Bootstrap | snapshot rows | refresh | backend, gate, ledger, access | one download, one transaction | seen by the modules it feeds |
| Refunds (`services/refund.service.ts`, `repositories/localRefund.repository.ts`) | retained previews, `local_refunds` | preview, submit, dispatch, resume, cancel, sweep | backend, other tills | what a row says is true at the server; portions add up | modelled, one line per refund |
| Receipts and printing (`receipt/receiptPrinting.service.ts`, `repositories/receiptPrintJob.repository.ts`) | print jobs, intents, the shared window | decide, claim, render, dispatch, settle, sweep | printer | at most one unmarked original | jobs and intents of sales modelled |
| Preparation (`services/preparation.service.ts`, `repositories/preparation.repository.ts`) | `prepare_operations`, the policy revision learned, grants ingested; cycles in memory | run a cycle: replay, capture, dispatch, apply; status | backend, ledger, access publication | stock is not asked for again before it is known how the last request ended | cycles modelled; the readiness projection is not |
| Shifts, offline sale authority | rows of their own | request, record, check | backend | see section 6 | not modelled |
| Updates | updater state | check, download, restart | electron-updater | does not restart during a sale | not modelled: wraps a library |
| Database, HTTP client, IPC | connection, migrations; timeout |  | all |  | a transaction is one action; a request is answered, lost or late; IPC forwards |
| Calculators (`shared/pos`) | none | price, tax, offers, refunds | sale commit, refunds | portions of a refund add up to what was paid | refund rule modelled |
| Renderer | payment store, cart, install hold, screens | press, apply an answer, ask | IPC | the cart is locked while its attempt is undecided | payment, cart lock and install hold modelled |
| Backend | invoices, requests, decisions, refunds |  |  |  | external, nondeterministic |

`PROJECT.json` lists each component with its files and the reason for its status,
and every hazard at its line.

## 2. Modules

| Module | Models |
|---|---|
| `InvoiceUpload` | the upload lane: durable rows, worker, wire, server, cashier, clocks |
| `SaleDelivery` | what the lane promises of a sale, with no queue in it |
| `AllocationDispatch` | stock requests, sale attempts, completion, reconciler, server |
| `Reservation` | what the request exchange promises |
| `Checkout` | a draft, its key and its attempt: payment store, cart lock and main process |
| `CatalogInstall` | the handshake of a catalog install with the window that is selling |
| `Preparation` | cycles that reserve stock for selling offline, their operations and the server |
| `Refunds` | previews, refund rows, their dispatch, the server and other tills; the rule R4 |
| `AllocationLedger` | grants, consumption, coverage evidence, recovery of a stranded grant |
| `DispositionConvergence` | an operator's decisions on quarantined sales, asked for and applied |
| `EntityCreate` | the outbox of customers and suppliers created at the register |
| `SessionAccess` | session, epoch, licence answers and renewal legs that overtake each other |
| `DeviceHeartbeat` | the presence beat: gap, Retry-After, back-off, denial, sleep |
| `PrintJobs` | print intents and jobs of sales, the shared window, the printer |
| `Connectivity` | the connectivity service and the outages around it |
| `InvoiceUploadProofs`, `AllocationDispatchProofs`, `CheckoutProofs`, `LedgerProofs`, `CatalogInstallProofs` | theorems about the module of that name (`AllocationLedger` for `LedgerProofs`) |
| `ServiceProofs` | theorems about `Connectivity`, `DeviceHeartbeat` and `SessionAccess` |
| `TillProofs` | theorems about `DispositionConvergence`, `EntityCreate`, `PrintJobs`, and about `MCTill`, the services side by side |
| `CounterProofs` | theorems about `Refunds`, `Preparation`, and about `MCCounter` |
| `MCInvoiceUpload`, `MCAllocationDispatch`, `MCTill`, `MCCounter` | the finite instances |

`MCTill` puts the seven services that run beside each other in the main process,
and the catalog gate for its liveness, into one specification, and `MCCounter` the
three scenes at the counter and the preparation of stock. Their components share no variable, so one is explored per behaviour (`exploring` is
chosen at the start) and the others rest. Where components do act on each other,
the module that needs the effect contains it: the settlement of an attempt by an
install is an action of `CatalogInstall`, of `AllocationDispatch` (`Settle`), and
abandonment from the window is in `Checkout` and in `AllocationDispatch`;
`Converge` and `EntityAccepted` of `InvoiceUpload` are the outcomes that
`DispositionConvergence` and `EntityCreate` produce step by step.

### InvoiceUpload

*State.* `queue`, `invoice`, `due`, `leaseOld`, `attempts`, `quarantined` are the
columns of `sync_queue` and `local_invoices` the code compares; `cover` and
`broken` are the coverage boundary and the chain-break holds the gate reads.
`proc` is the worker: `idle` (no drain), `requested` (a drain is to start),
`draining` (the synchronous part), `waiting` (an upload is awaited). `rerun`,
`paused`, `wake`, `deferred`, `awaiting` are the fields of the class of those
names; `reply` is the answer that has reached this process. `wire` holds the
requests that may still reach the server, each with the attempt number it was
sent under and the owner whose token it carries; `server` is what the server has
stored under each idempotency key.

*Time* is reduced to the comparisons the code makes: a persisted deadline is due
or not, a lease has reached 60 s or not, the server-time lower bound has passed a
sale's instant or not. Deadlines pass, leases age and sales ripen in actions of
their own, at any moment the code does not exclude.

*Actions.* `Commit` is the tail of a committed sale and its `onSaleCommitted`
trigger. `Reconcile` is the head of `drain()`: lease reclaim and retry release.
`Claim` is `claimNextInvoiceUpload` and the synchronous part of `dispatch`: the
gate (`DependenciesMet`, `TimeGateOpen`), both rows to `uploading`, the request on
the wire under the session's token. `ClaimCorrupt` is the integrity hold.
`RecordSynced`, `RecordFailure`, `RecordPause`, `Timeout` and `RecordThrows` are
the mapping of an answer and `InvoiceUploadOutcomeRecorder`. `DrainDenied` and
`DrainDone` end a drain; `DrainDone` carries `rearm()`. `TimerFires` and `Trigger`
are `requestRun`. `Crash`, `Start` and `Requeue` are the process and the operator's
script that re-offers a rejected sale while the application is closed. `Converge`
is a disposition applied to both rows with its chain-break holds. The server
commits, quarantines, refuses or fails; `Lose` drops a request; a request the
client has given up on stays on the wire and may be served at any time.

Events other than clocks, crashes and the network need `Quiet`: while the worker
is in its synchronous part no other handler runs.

*Abstractions.* Payload, mapping of HTTP statuses to the seven outcomes, backoff
lengths and log events are left out. An answer is one of the classes the mapping
distinguishes. The server is nondeterministic except where its contract is
relied on by the code: it commits a sale of a grant only after the one before it,
and it replays what it stored under a key.

### SaleDelivery

A sale is unsold, owed, delivered, refused or disputed, and a ledger holds what
the server took. A delivered sale is in the ledger; a sale that was made stays
made; a refusal is undone only by a re-offer or an override. `InvoiceUpload`
implements it under `OutcomeOf` (pending, uploading and retryable_error are all
"owed").

### AllocationDispatch

*State.* `attempt`, `invoice`, `row`, `born`, `doubtful`
(`ambiguous_send_count > 0`) and `later` (`retry_not_before` in the future) are
SQLite. `held` is the server, `conn` the HTTP exchange of a key, `late` a request
the client gave up on. `task` says what each process awaits: the completion of an
attempt, or the reconciler. `kick`, `rerun` and `timer` are the reconciler's
single flight.

*Actions.* `Begin` is prepareCompletion or prepareRetry. `Acquire` runs `acquire`
from its first statement to its first await, `Resume` from an answer to the next
await; each may block, sell (`Business`), send an outstanding row again or mint a
new key (`Mint`: insert, commit, send). `SendRecorded` is the shared sender: join
the send in flight, transmit after `markSending`, or throw because the row was
settled since the copy was read. `Receive`, `ReceiveUnrecorded` and `GiveUp`
settle a send for everybody who waits on it. `RequestRun`, `ResumeRun`,
`FinishRun` and `TimerFires` are the reconciler. `Abandon`, `Settle` and
`Acknowledge` are what may happen to an attempt while its completion waits.

A promise that resolves lets its waiters continue before any other event:
`Quiet` forbids other handlers while a process is `woken` or a kick is pending.
Each in-memory copy of a row (`Copy`) carries what the code later reads from it,
whether it had an ambiguous send, so decisions made on old copies are in the
model.

### Reservation

A request is asked before the server reserves, the server reserves before the
till believes it, and none of the three is taken back.

### Connectivity

`status`, `probe`, `timer`, `fresh`, `recent` are the fields of the service.
`RequestCheck` is the coalescing and throttling entry; `RunProbe` the start of a
probe with its immediate verdict when the operating system has no network.
`ObserveAnswer` and `ObserveServerError` are reports of real requests, `Shutdown`
aborts. A lost probe is noticed only later, so it may report after a newer
observation.

### Checkout

*State.* `attempt` is `sale_attempts` of the cashier, `running` the completions in
flight and `waiting` the calls that share one (`single`). `window` is the payment
store and the cart: the key of the draft, `attemptState`, `completionOutcome`, the
reconciliation, the blocking attempt and the results of the recovery banner.
`answers` are the replies on their way, in order; `able` is whether
`captureContext` succeeds; `shift` may move on while a draft is paid for.

*Actions.* `PressComplete`, `PressRetry`, `PressAbandon` and `PressAcknowledge` are
the store's calls up to their await with the main process's handler
(`CompleteHandled` with `NewHandled` and `ExistingHandled`, `RetryHandled`).
`AttemptEnds` is `runPrepared` with its five ends. `TakeAnswer` is the rest of the
store's function for the answer at the head of the channel, one operator per kind
(`OnComplete`, `OnRetry`, `OnCheck`, ...). `AskAgain` and `StopAsking` are
`reconcile`. `ReloadWindow`, `ReturnToPage`, `WindowSeesShift`, `LoseAnswer` and
`ContextFails` are what happens around them.

*Abstractions.* A call is sent and handled in one step, which commutes with
everything the window does between the two. There is one cashier. Every product is
another, so two intents are the same when they list the same items. The conditions
that refuse a new claim are one ("refuse"), the twenty rounds of `reconcile` are
any number of rounds, and the wait for an install at the head of `complete` is in
`CatalogInstall` only. A stored sale whose own rows contradict each other
(`integrity-inconsistency`, `localSale.service.ts:889-915`), which only a damaged
database gives, is not modelled.

### CatalogInstall

*State.* The main process: the installed revision, the registry of the window's
draft, the consent of the manual path, the hold asked for and the outcome of every
hold. The window: draft, contract it works under, hold armed, `holdActive`, holds
whose outcome it is applying. Whether it pays is two things in the code and here: the
panel is open (`panel`), and an attempt is known (`known`: its own, one committed and
not acknowledged, or one that blocks it). `Paying` keeps a hold away; `Locked` keeps
the draft as it is. The two sides share two ordered channels, `up` and `down`.

*Actions.* `Acquire` is a downloaded snapshot at the gate; `ReplyArrives`,
`ReplyLate` and `ReplyNeverComes` its answer or the one-second watchdog, each with
the last check, the transaction, the settlement of a superseded attempt and the
release in one turn (`Decide`). `HoldArrives`, `ReleaseArrives`, `Poll`,
`ReadStatus`, `ApplyStatus` and `ReadFails` are the window's side. The cashier scans,
clears, rebuilds, opens and closes the panel, completes, retries and asks for a
refresh. `CompleteArrives`, `RetryArrives` and `CompletionEnds` are main's side of a
sale, and `AnswerArrives` what its verdict makes of the draft. Pushes may be lost and
the page may be reloaded at any time.

*Abstractions.* Held drafts are left out; the contract of cart and catalog is one
variable (`view`); the schedule of refreshes is free. The report that only says that a
button was pressed is left out: the gate compares generations of drafts that are not
being paid. An intent that leaves while its draft is flagged says so (`flagged`), which
the code does not transmit; the properties read it, no action does.

### Refunds

*State.* `review` are the previews a process retains, `refund` the rows of
`local_refunds` with their frozen calculation, `wire` the copies of requests that
may still reach the server, `awaited` and `told` the dispatches in flight.
`booked` and `keys` are the server's record of the line and of this till's refunds.

*Actions.* `AskPreview` and `RetainPreview` are the two halves of `previewRefund`,
with the reading of the server in between or before; `Submit`, `ResumeRefund` and
`CancelPrepared` the commands; `Answered`, `TimesOut` and `SettleFails` the rest of
`dispatch` by way of `SettledAs`; `RestartTill` the startup sweep with its
condition on a session; `RefundElsewhere` another till. `RefundLine` is R4: the
entitlement of everything refunded so far less what was refunded before, each
rounded half up.

*Abstractions.* One line per refund. The server is trusted in two things its
contract promises: it answers a known key with the refund it holds, and it refuses
a calculation made on another prior quantity. It books what it is asked to, and
other tills follow the same rule.

### Preparation

*State.* `operations` are the rows of `prepare_operations` in the order of their
capture, each with the products and the policy revision frozen into its bytes;
`learned` is the revision a refusal named, `ingested` the grants stored. `cycle` is
what each `runCycle` awaits, and `policy`, `decided` and `straggling` are the server:
its revision, what it granted, the requests nobody awaits any more.

*Actions.* `RunCycle` sends an unresolved operation again before anything else;
`CaptureAndFreeze` is the rest after the candidates were read: the partition by
unsettled sales and by what unresolved operations own, the insert, the dispatch.
`ServerAnswers`, `ServerFails` and `StragglerArrives` are the server. `Receive` is
`applyResponse` with one operator per class of answer; `Fails` is a timeout, an aborted
connection or a 5xx, and `CrashPreparing` a restart. Nothing in the code keeps two
cycles from overlapping, so two run here.

*Abstractions.* One owner. `touched`, the products of unsettled sales, is any set at
each capture. IDEMPOTENCY_CONFLICT is left out, since an operation is sent with its
frozen bytes only, and so is `superseded_before_dispatch`, which tests alone reach.

### AllocationLedger

*State.* The backend: grants issued, their lifecycle, sales taken and quarantined,
declared sequences. The till: every committed sale as a function from grants to
units, the revision of the active snapshot, the stored grants, coverage boundaries,
terminal markers, holds, recovery rows with their frozen sequence, and the request
of the recovery under way. `answers` hold evidence in any order.

*Actions.* `Sell` is the split over the grants and the journal written with the
invoice. `InstallSnapshot`, `IngestTopUp` and `CoverageArrives` are the three ways
evidence comes in, with the checks that roll a snapshot back; `ApplyCoverage` and
`CoverageVerdict` judge a boundary. `BeginIntent`, `Advance`, `FreezeDeclaration`, `Replay`,
`ReplayAnswered` and the acknowledgement are the recovery, one operation at a time
with a commit before each request.

*Abstractions.* A boundary is its sequence alone, since quantity and hash are
functions of the journal prefix. Legacy grants, the expiry of a right
(`consume_until`), a missing capability and the holds of dispositions are left out.

### DispositionConvergence

*State.* `row` (invoice and queue row, which change together), `filed` (the applied
decision with the holds written with it), `disputed`, the trigger's lock and
interval, the last question of each row, the run under way; the server's verdicts.

*Actions.* `RequestConvergence` is the trigger, `ServerTells` and `RunFails` its
answer or none, `RunApplies` the application row by row after the await under the
owner of that moment, `Verify` the checks of an answer, `Restart` the operator's
script, `SessionPasses` a change of owner or of what the owner may do (`restricted`:
`canRun` refuses, while a run under way still has its owner). Time is counted in the
trigger's interval, of which a row's own is two.

*Abstractions.* An answer that cannot be read is filed as one that does not verify: a
row is not moved by others while it is asked about, so both end in the same dispute.

### EntityCreate

*State.* The outbox in order of creation; the worker's drain with its owner, the row
it awaits and what it has sent; cached permissions; the one timer. The server keeps
an answer per key, and `onWire` holds requests that may still reach it.

*Actions.* `CreateRecord`, `Reassign` (hand-over of what never left), `Resubmit` (a
correction under a new key); `Dispatch`, `HandBack`, `DrainEnds`, `Settle`,
`SettleFails`, `RetryTimerFires`, `StartupKick` of the worker; `Bootstraps` as the
return of blocked requests; crashes, sign-in and out, lost and late requests.

*Abstractions.* Form validation, IDEMPOTENCY_CONFLICT, catalog readiness and
COMPANY_SUSPENDED are left out.

### SessionAccess

`login` and its epoch, `held` (stored licence, permissions, warehouse), `accepted`
(the last evaluation number and its epoch), one `leg` for the licence and one for
the bootstrap, and the coordinator's denial. `Arrives` is an answer with its owner
check and its order check (`Admits`) inside one write; `LegFails`, `LegRefused` and
`LegEndsSession` the others; `MeArrives` the answer of `/auth/me`. Answers without a
number, which an older backend gives, may only narrow access. `newest` is a history
variable for the property.

### DeviceHeartbeat

`hb` is the service: mode, back-off level, the four deadlines, the flight, the
timer. Deadlines are what is left of them on the monotonic clock, and `Tick` lets
time pass. `OnTimer` reads the session and sends; `AnswerOk`, `AnswerRetryAfter`,
`AnswerDenied`, `AnswerFails`, `AnswerSessionEnded` and `LateAnswer` settle;
`OnAccessSignal`, `ConnectivityOnline`, `Suspend`, `ResumeBeat` and the session move
it. `quiet` is a history variable: how long the till has promised not to beat. The
halt after a 401 is left out, since that answer ends the session first.

### PrintJobs

`journal` (`receipt_print_jobs`), `intents`, `line` (the promise chain of works on the
one hidden window), `printCalls` the operating system has not answered. A job is
claimed (`AskPrint`, `DecideIntents`), loaded, laid out, its code verified
(`VerifyQr`), dispatched behind the final gate (`DispatchJob`, `Fenced`) and settled
by an answer, a late answer or the 90 s timeout. `RestartTill` is the startup
reconciliation. `originals` counts the unmarked receipts that may have come out.
Refund and test documents and the second layout try are left out, and so is a journal
write that fails: a `markSubmitted` that throws is caught as a failure to dispatch
(`receiptPrinting.service.ts:909-916`), so a receipt that did come out is journalled as
never sent and the next one is not marked. `OneOriginal` holds as long as the journal
can be written.

## 3. Runs

Every passing run uses all faults of its list in every order up to its bound.

| Run | Instance and bounds | Question, and what it shows |
|---|---|---|
| `upload_faults` | three sales of two owners, one of each special kind (timed, register-created customer, damaged bytes); lost, crash, busy, error, denied, signout, resume; three faults; one integrity hold runs out | Can a sale be shown as delivered that the server does not hold, leave under another owner's token, or leave before a gate opens? `SyncedIsHeld`, `OwnerIsolation`, `SendGates`, `ForeignRowsUntouched` hold. |
| `upload_dispositions` | three timed sales, two grants that meet in sale 2; requeue, crash, lost, busy (a recording that fails); two faults | Does order on the grants survive acknowledgements, boundaries and chain breaks that arrive in any order, do the two rows agree when a recording fails, and can a final outcome be revived? `SentInOrder`, `RowsAgreeOnOutcome`, `TerminalIsFinal` and the refinement `ImplementsDelivery` hold. |
| `upload_liveness` | two sales of one grant, one timed and one of a register-created customer; all seven fault kinds, two faults; `FairSpec` | Does every sale reach a final answer, with no trigger from outside for a sale that has not been sent? `EverySaleSettles` holds. |
| `stranded_retry` | two sales, one server error; `UnaidedSpec` | Violated: see finding 1. |
| `stranded_lease` | one sale, one crash; `UnaidedSpec` | Violated: see finding 2. |
| `dispatch_faults` | two attempts with a key each, the reconciler, nine fault kinds, two faults | Is there a reservation without evidence, a grant without a reservation, a sale or a request for an attempt that is over, a settled row that changes? `SoldMeansCommitted`, `MintedWhileClaimed`, `SettledIsFinal` and the refinement `ImplementsReservation`, which has the first two questions in it, hold. |
| `dispatch_liveness` | one attempt with two keys; lost, busy, offline, crash; three faults; `FairSpec` | Is what the reconciler has taken up settled by its own timer? `ReconcilerFinishes` holds. |
| `refused_after_crash` | one key, one crash, one denial | Violated: see finding 3. |
| `stranded_request` | one key, one lost answer; `FairSpec` | Violated: see finding 4. |
| `till_services` | seven services and the catalog gate, one per behaviour. Ledger: a grant of two units, two sales, an answer under way, one fault. Dispositions: two sales with two proofs on one grant, one upset. Entities: two clerks, two requests, two mishaps. Heartbeat: gap 2, back-off 1 then 3, one sleep, two sessions. Access: two sign-ins, two evaluations, one change. Printing: one sale, one request by hand, one jam. Connectivity: three outages. Catalog gate: two revisions, two holds, two draft generations, one trouble. `TillSpec` | Does each service keep its promise through crashes, late answers and changes of user, does it get done what it began, and is the cashier let go after every hold? Eight invariants besides the types and nine action or liveness properties hold. |
| `counter` | three scenes and preparation, one per behaviour. Install: two revisions, two holds, four draft generations, one trouble. Checkout: two things, two keys, two shifts, two calls on an attempt unanswered at a time, one mishap of nine kinds. Refunds: three units for 5 with a tax of 4, which round badly, two refunds with two sends each, two mistakes, two cashiers, another till. Preparation: two products, operations, cycles at once, policy revisions and setbacks. `CounterSpec` | Can a line be sold twice, a cart be edited under its attempt, a catalog change under a payment, a price be sold that nobody read, a refund row lie, a portion return too much, stock be asked for while an earlier request may still reserve it? The seven properties hold; `SoldOnce` and `CartFrozen` while the window is told the truth (finding 8). |
| `stale_sale` | two revisions, one hold, four draft generations, no trouble | Violated: see finding 12. |

Deadlock is not checked in `till_services`, `counter` and `stale_sale`: their bounds
on sales, requests, generations, sessions and calls end every behaviour. The types
of `InvoiceUpload` and `AllocationDispatch` are proved and no run checks them again; those of the other
modules are `TillTypeOK` and `CounterTypeOK`.


*Why the bounds suffice.* The hazards of the upload lane need at most a sale, its
predecessor on a grant and an operator's decision on an earlier one; three sales
on two grants give every such shape, and the two owners with a foreign row between
two of one's own give every shape of interleaved ownership. Two or three faults
give a crash during the retry of a lost request and a denial on top of it. Without
faults a behaviour is still unbounded in triggers, samples and boundaries. For the
requests, two attempts with a key each are enough for a completion and the
reconciler to hold different copies of the same row and for a second cashier
action to come in between; the liveness run has two keys so that the reconciler's
list has a rest. `attempts` grows with every claim and is bounded by the faults,
except through the hourly integrity hold of a damaged sale, which `MaxHolds` bounds.

In `till_services` each service needs two of what can be confused: two sales on a
grant, two sessions, two requests of two clerks, two evaluations, an original and a
reprint. The printing service was also explored alone with two sales, with
two requests by hand and with two jams, without an error. In `counter` two keys and two things are
enough for a stale answer about one attempt to meet the other; checkout was also
explored alone with two mishaps (3.9 million states) and with three keys, and
refunds with a second line to start from, and preparation with three operations and
one setback (2.6 million states). `HoldEnds` was also explored alone with two
holds and three draft generations, and with one hold and four, so that an attempt is
claimed meanwhile.

Every property of a passing run has a mutant in `PROJECT.json`: the mutated form is
an operator written before the definition it replaces, and the run finds the
property violated under it.

### Fairness

* *The event loop.* What the worker, the completion or the reconciler has been
  handed is executed: weak fairness of their steps. A handler that must wait for
  the running drain (`TimerFires`, `Login`, `AccessBack`, `EntityAccepted`, a
  sample) is strongly fair, because the event loop keeps a queued callback across
  drains while the model's guard `Quiet` goes up and down.
* *The network.* An awaited request is answered or the client times out
  (`desktopApiClient.ts`, 10 s). Losing a request is a fault and faults are
  finite; without that no retry could succeed.
* *The process.* A killed till is started again.
* *The world.* A lost authority or connection comes back, a deadline passes, a
  lease ages, an owner signs in again, a register-created customer is decided.
* `Trigger` (the next sale, a focus event, a published authority) is fair only in
  `InvoiceUpload!FairSpec`, and there only while some row is `uploading` or
  `retryable_error`: a retry already due, a young lease and what a failed write left
  are what the code leaves to it (findings 1 and 2). A sale not yet sent has to do
  with the drain's loop, the rerun, the timers and the events that end a pause or
  admit its customer; leave out the request of any of the events and
  `EverySaleSettles` fails. `UnaidedSpec` omits `Trigger` altogether.
* In `AllocationDispatch` nobody has to sell: no action of the cashier is fair.
* In `MCTill` a recovery is advanced when it can be, a disposition question is asked
  after its interval and answered, a drain of the outbox runs to its end and its
  wire and timers make progress, heartbeats are answered or time out and the machine
  wakes up. Nobody is obliged to sell, sign in, create or print. `CreateFairness`
  includes `Bootstraps`, which the application makes at every sign-in and refresh. It
  also makes good a retry the worker failed to arm, so `CreateSettles` speaks of the
  lease and the outcome of a lost answer, not of the worker's timer by itself.
  The recovery is advanced by its triggers (start-up, connectivity, an operator).
* In `MCTill` (`InstallFairness`) the window answers a hold
  or its deadline passes, messages are delivered, the status poll is made and a status
  that was read is applied. No cashier action is fair. Checkout, refunds and
  preparation have safety properties only.
* In `Connectivity` no demand, resume or request is fair: only its timers, the end
  of a probe and the end of an outage are.

## 4. Findings

1. *A retry deadline that passes during a drain* (`stranded_retry`). The retry
   release runs once at the head of a drain; `nextRetryDeadline` counts only
   deadlines later than now. A backoff that falls due while the drain awaits an
   upload is released by neither, and no timer is armed for it. The comment at
   `syncQueue.repository.ts:660` says the running drain releases it. The sale waits
   for an unrelated trigger.
2. *A lease younger than 60 s at restart* (`stranded_lease`). The drain of a
   restart soon after the crash skips the row, and `rearm()` considers retryable
   rows only. The comment at `invoiceUploadWorker.ts:167` says the row is freed
   first. Again the sale waits for an unrelated trigger.
3. *Absence concluded from a counter a crash does not raise*
   (`refused_after_crash`). `ambiguous_send_count` is raised when an ambiguous
   outcome is recorded. A process killed between `markSending` and that record
   leaves it at zero, so a later denial that precedes the lookup is taken as proof
   that the server holds nothing. The comment of migration 0016 states the contrary
   as an invariant.
4. *A request left by an attempt that goes no further* (`stranded_request`). The
   reconciler's timer is armed only at the end of its own run, and only a commit, a
   change of connectivity or session, or a start asks for a run. A request that a
   completion sent and lost stays outstanding while the connection is steady. The
   comment at `allocationAcquisition.service.ts:224` says the reconciler owns it.

5. *A replay that ignores the other grant* (`allocationRecovery.service.ts:135`). The recovery of a sealed
   grant sends the grant's uncovered sales in that grant's order and never asks the
   dependency gate. A sale that took from two grants leaves although the earlier
   sale of the other grant was not applied; the backend quarantines it as a gap and
   the recovery ends in conflict. The comment at `uploadDependency.repository.ts:8`
   says when an invoice may be sent.
6. *A denial nobody lifts* (`renewalCoordinator.service.ts:379`). `onAccessChanged`
   is called by tests only, so after a denied renewal the proactive timer stays off
   whatever access the till observes. The header of the file promises otherwise.
7. *`is_reprint` is always 0* (`receiptPrintJob.repository.ts:174`). The insert has
   the literal. The printed document is right; the journal is not.
8. *A failed answer without a key* (`payment.store.ts:552`). The window takes it for
   proof that nothing is claimed and unlocks the cart. `prepareRetry` and
   `prepareCompletion` give that answer whenever `captureContext` throws, also for an
   attempt that is claimed. The banner's retry then commits the sale as somebody
   else's result and leaves its lines in the cart, to be sold again. `SoldOnce` and
   `CartFrozen` therefore carry `Informed`, which excludes three mishaps: an answer
   without a context ("away"), finding 9 ("unrecorded"), and an answer that is lost
   ("lost"): after a lost answer of a committed retry, cancelling the payment reports
   the sale as committed, the banner lists it, and acknowledging it there frees the
   draft's key without clearing its cart. With any one of the three and without the
   guard TLC finds a line in two sales.
9. *A rejection that was not written* (`localSale.service.ts:1117`). `recordRejection`
   swallows a failed write and the answer is `rejected` all the same; the window
   frees the key although the row can still become a sale.
10. *A full disk is a rejection* (`localSale.service.ts:1965`). `isStorageFailure`
   knows the codes BUSY and LOCKED only; the comment at line 958 counts a full disk
   and I/O errors as well.
11. *The refund sweep needs a session* (`applicationServices.ts:792`). Without one it
   is skipped, and a refund dispatched before the sign-out stays `dispatched`: it can
   be neither resumed nor cancelled and blocks its invoice until a later start.

12. *A panel that was open when the catalog changed* (`stale_sale`). A catalog past its
   validity is replaced without asking, also while the payment panel is open. The
   lines are then flagged, which disables adding, holding and opening the panel, but not
   Complete in the panel that is open (`PosPage.vue:755`). The preview is run again under
   the new contract and is valid at the new prices, and main accepts the intent with
   lines that were scanned under the old one. The comment at `cart.store.ts:245-246`
   says a draft is never repriced on a catalog refresh.

13. *A window that grows again* (`preparationReadiness.service.ts:191`). The minimum is
   taken with the boundaries known now, the license's next validation and the validity
   of the installed catalog. A refresh replaces both by later ones, and a window they had
   shortened grows again. The comment at lines 33-34 says it only ever moves earlier.

Findings 6 to 11 and 13 have no run of their own: 6, 7, 10 and 13 are read off the code,
8, 9 and 11 were met in the modules named.

Seen while modelling, and contradicting nothing the repository says:

* *Sales.* Re-entering the page during one's own completion records the own key as
  the blocking one, which neither the commit nor the acknowledgement clears: completing
  stays disabled until a retry in the banner (`payment.store.ts:825`). A completion that
  waits for an install takes the intent before the wait and the key after it
  (`payment.store.ts:410-429`).
* *Install.* `finish` of one hold clears `holdActive` while the next is armed
  (`installHold.ts:142`); a scan queued under the first then never resumes if the
  second installs first. Overlapping manual calls restore each other's context.
* *Ledger.* A snapshot that has markers and names no grant drops the markers, since
  the owner is read off the first grant. A newer snapshot read before a top-up was
  issued strips that grant. `resumeNow` stops at the first recovery that fails, which
  may be the same one for ever.
* *Dispositions.* With more undecided rows than one question holds, the same head is
  asked for again after each interval.
* *Entities.* A settlement that cannot be written leaves a leased row with no timer
  until the next trigger; a sign-in alone is none.
* *Session.* The answer of `/auth/me` after a sign-out establishes the session again;
  a 401 of an ended session ends the current one; a late denial of the old owner's leg
  marks the new owner's renewal as denied; a bootstrap joins the flight of an old
  session.
* *Heartbeat.* The Retry-After of a late answer is dropped.
* *Printing.* After the 90 s timeout the next job renders on the shared window while a
  system dialog may still be open; intents pending when the printers cannot be listed
  wait for the next trigger; a journal write that throws in the success callback is
  recorded as a rejected print call.
* *Refunds.* A conflict is answered only while another copy is in flight, and blocks
  the invoice for good; the life of a preview is enforced only when another is stored;
  a settlement that cannot be written leaves the row dispatched until the next start.

And from the first three modules: a probe that was lost before a
request succeeded may overturn the newer verdict, and the timer corrects it
(`Connectivity`); the reconciler walks a list read before its first await and may
send a row again that was refused meanwhile (`Sendable`); a sender decides about a
denial on its own copy of the ambiguous count, so a concurrent ambiguous send
counted after the copy was read is not seen (`clean`); after a lease reclaim or a
retry release the queue row says pending while the invoice row still says uploading
or retryable, until the next claim brings them together (`RowsAgreeOnOutcome` is
stated for what is final or leased).

## 5. Proofs

Everything here holds for any finite or infinite set of sales, owners, grants and
attempts (`Key` of the dispatch and the grants of the ledger are finite) and any number
of faults. The assumptions are the named ones of the modules; TLC evaluates them in the
runs that extend them. `LedgerInv` was checked by TLC before it was proved, with two
grants of the backend (15.6 million states).

**InvoiceUploadProofs** (assumptions `InvoiceAssumption`, `SequenceAssumption`: the
consumption sequence of a grant has no gaps, follows commit order, and a grant
belongs to one owner).

* `NextCases` flattens Next into its actions; each preservation proof has a step
  per action.
* `TypeCorrect` goes through three frames (durable, worker, outside).
* `SyncedIsHeld` is not inductive: one needs that the awaited row is leased and
  that an accepted reply means the server holds the sale (`InFlight`), which is
  what keeps a late answer of an earlier attempt from being taken for this one.
* `SentInOrder` rests on `ClaimedInOrder`: on each grant of a sale that was ever
  claimed, the server holds everything earlier or something earlier broke the
  grant. Its step needs that boundaries cover only what is held (`CoverHeld`), that
  a break rests on a decision (`BrokenDecided`) and that only claimed sales are
  known outside (`OnlyClaimedIsKnown`). The lemmas `ServerGrows`, `ChainFactsStable`,
  `ImmediatePredecessor` and `GateKeepsOrder` carry the argument: the gate looks at
  one predecessor, and the invariant at that predecessor supplies the rest of the
  prefix. The conjunction is `IInv`, theorem `Invariant`.
* `OwnerIsolation` is inductive together with the types, and `SendGates` is a property
  of steps: both rest on `OnlyClaimSends`, that a request leaves in `Claim` alone.
* `RowsAgreeOnOutcome` is proved with `IInv`; `ForeignRowsUntouched` and
  `TerminalIsFinal` from a lemma that lists what moves a queue row (`QueueMoves`).
* `LaneImplementsDelivery`: each step changes the outcome of at most one sale or
  adds one sale to the ledger (`OneRowMoves`, `LedgerMoves`, `OutcomeMoves`), and a
  sale the server can take was sold (`ClaimedIsSold`); every step is a step of
  `SaleDelivery` or a stutter (`DeliveryStep`).

**AllocationDispatchProofs** (`AttemptAssumption`, `NameAssumption`,
`FaultAssumption`).

* `IInv` is the types, `EvidenceFirst`, `GrantedIsHeld`, `SoldMeansCommitted` and
  `OnItsWay`: a request in flight has a dispatched row and a grant on its way back
  is stored at the server. Without `OnItsWay`, `GrantedIsHeld` does not survive the
  receipt of an answer.
* Four actions contain the whole sender and the completion. The operator `Turn`
  says what any of those main-process turns may do to rows, connections, attempts
  and invoices; `TurnTypes` and `TurnSends` are proved once, and each action is
  shown to be a `Turn`.
* `MintedWhileClaimed` and `SettledIsFinal` follow from `RowSteps` and
  `AnswersSettle`; the refinement to `Reservation` from `TurnAsks`, `ReceiveLearns`,
  `HeldSteps` and `StepReserves`.

**CheckoutProofs** (`CheckoutAssumption`). `SoldOnce` and `CartFrozen` are proved
together, from one invariant in two halves. `CallsInv` holds whatever the window is
told: types, keys that were minted, and `OneAtATime`: a completion, or the question
that follows one without an answer, is alone among what the draft of now waits for, and
the window is in the state that goes with it. `TruthInv` holds while `Informed` does:

* every answer under way is true of the attempts when it is taken, not only when it was
  given (`ToldTrue`); the hard case is "nothing was claimed", which may be said only of
  the completion the draft itself waits for;
* a draft that shows the lines of a live attempt is that attempt's, locked, and shows
  exactly its lines (`Custody`); no line is in two live attempts (`LiveOnce`);
* the answer that will empty such a draft is on its way: the attempt still runs and a
  call of this draft waits for it, or the commit is announced, ahead of any
  acknowledgement that would free the key without clearing the cart (`OnItsWay`).

`Custody` alone is not inductive: an attempt that commits stops being claimed, and only
`OnItsWay` says that its lines do not stay behind in an unlocked cart. Steps are grouped
by what they do to the calls (`Grown`, `Joined`), and each answer of `TakeAnswer` has
its lemma.

**LedgerProofs** (`LedgerAssumption`: finitely many grants, at least one, of a positive
quantity). `LedgerInv` says that no number the till stores or is being told is ahead of
what the backend accepted (`EvidenceInv`, `AnswersTrue`); with the dense numbering of a
grant's journal (`Place`) an accepted sequence is a prefix of the journal, so an honest
boundary agrees with the journal in whatever order it comes, which is
`HonestEvidenceNeverHolds`. `DeclaredIsWhole` needs that a grant is `Whole` before the
backend is told: its recovery is under way, so nothing is sold from it, its journal has
the frozen length and all of it is covered. `AllowanceHolds` bounds a sum over the
journal. The units a set of sales took from a grant are the cardinality of a set of
pairs (sale, unit), so the sum grows and splits by the theorems on finite sets and no
induction over data is needed. The backend's revision counts grants issued and stages
left, and is bounded by their cardinalities.

**CatalogInstallProofs** (`InstallAssumption`). `InstallInv` is the types, and: a
hold of the stale path was asked for only when the catalog had expired
(`PathIsTrue`); what was fetched is not older than what is installed (`FetchedIsNew`);
the window has seen nothing newer (`NothingNewer`); each line was read under the
revision stamped on it or a later one, and unless flagged the stamp is the window's
(`LinesAreRead`); the same of an intent on its way (`SentIsRead`). `ClaimStands` needs
the first, since the stale path skips the question of payments; `SoldAsRead` needs the
rest, since main judges an intent by its revision alone: what was read no earlier than
the installed revision and no later was read from it.

**ServiceProofs** (`OutageAssumption`, `HeartbeatAssumption`, `AccessAssumption`).

*Connectivity.* `ConnectionInv` is the types, `KeepsTrying` and `SilentWhenOnline`; the
lemma `CheckKeeps` covers the actions that go through `RequestCheck`. `KeepsTrying` (what
is not online has a probe or a timer) is proved and no run checks it: `Recovers` fails
without it.

*The heartbeat.* `PromisedQuiet` follows from `PromiseHeld`: what was promised is never
more than the larger of the gap and Retry-After, both of which only time runs down, and
while a beat is on the wire Retry-After has passed and no timer is set. The back-off, the
denial and the session may change in between; the lemma of the turns (`Kept`) shows that
they leave those two deadlines alone.

*Access.* `AccessOnlyForward` is an action
property over answers that may be of any age. Its invariant says that the last
accepted epoch is never later than the session's (`EpochsLast`), that the newest
evaluation this session accepted is the one stored with its epoch
(`NewestIsStored`), and that a leg in flight was asked for somebody
(`AskedForSomebody`); without the second an answer could be compared with a number of
an earlier session.

**TillProofs** (those of the services, and `ConvergenceAssumption`, `EntityAssumption`,
`PrintAssumption`).

*Dispositions* (a quarantined sale has proofs, and those of a grant come in its order). `FiledIsCoherent` rests on the lemma
`HoldDivides`: in a decision that passed `Verify`, the accepted proofs of a grant are
exactly those before its hold. It uses that a non-empty set of naturals has a least
element. The invariant adds that the server's decisions and the rows filed agree and
that a question is asked for the owner of its rows, which gives `FiledForItsOwner`.

*Records created at the register.* The invariant has three parts. Of rows: what was
not sent is neither on the wire nor at the server, what was handed over was not
sent, what is settled was answered so, and an entity has one request that may create
it. Of the drain: the row it awaits is leased and sent, and the reply it has is the
server's. Of people: the drain's owner created the row. `HandedOverUnsent` and
`SettledAgrees` follow; neither is inductive, because a late copy of a request may be
served at any time.

*Printing.* `OneOriginal` counts papers; the invariant ties the count to the journal.
Of a sale at most one job that is under way or may have printed carries no mark
(`UnmarkedOnce`); an unmarked receipt that came out belongs to a job that was sent or is
submitted (`OriginalsHaveJobs`), so that the next claim sees it and is marked; a call
the operating system has not answered belongs to a job recorded as sent (`CallsTrue`).
The automatic decision claims several jobs in one turn: `ClaimsKeepPapers` is stated for
a set of requests of distinct sales, and `Ordered` shows that the sequence `OldestFirst`
chooses exists, by the rank of an element in its set.

**CounterProofs** (`RefundAssumption`, `CashierAssumption`, `PreparationAssumption`).

*Refunds* (a line has a positive
quantity, naturals for its amounts, and a tax no larger than its total). `RefundInv`
says of a row and its copies that a copy on its way was counted when it left, that a
refund never sent is unknown to the server, that an accepted one is booked and a
rejected one was refused on a reading the server has moved past. `RefundsAgree` is not
inductive without the last: a late copy of the rejected refund could still be booked.
`MoneyInv` adds that what is booked is the entitlement of the quantity booked
(`Entitled`) and that a calculation still to be sent is one of the present or of a past
quantity (`CalculationsCurrent`). The rounding is proved once, from the division of
the integers: a share lies within its amount (`ShareBounds`), grows with the quantity
(`ShareGrows`), is the whole at the end (`ShareEnds`), and what is left of the tax never
exceeds what is left of the total (`SharesKeepApart`). So the cap in R4 may let the tax
lag, never by more than the money still to be returned (`LineIsEntitled`).

*Preparation.* `NoBlindRequest` is not inductive. Three things carry it. What a cycle
has been answered is true: a decision exists, and a refusal for a stale revision leaves
the operation undecided and its frozen revision behind the server's (`AnswersHold`).
Revisions move forward only, so such an operation cannot be decided later, whatever
straggles (`RevisionsPast`). What ended, ended truthfully: an applied operation has every
grant it was given, a superseded one has none (`EndsAreTrue`). And of the operations
that share a product only the latest can be unresolved (`OneUnresolved`): a cycle
captures after an await, and what was captured meanwhile owns its products.

*Side by side.* A step of `MCTill` is a step of one service and a stutter of every
other, so `TillSpec` implies the specification of each service (`TillRunsServices`),
and what is proved of a service holds in the composition; the same at the counter
(`CounterRunsScenes`). `TillTypeOK` and `CounterTypeOK` follow from the types of the
parts.

*Model-checked only.* All liveness (`EverySaleSettles`, `ReconcilerFinishes`,
`Recovers`, `RecoveryFinishes`, `DecisionReaches`, `CreateSettles`, `PresenceReturns`,
`HoldEnds`), since the prover does not reason about fairness and ENABLED. Every
invariant and every action property of the passing runs is a theorem. The violations are
counterexamples of TLC.

## 6. What is not modelled, and the plan

* *Pricing, payments and offers* (`shared/pos`): arithmetic without an order of
  events, with unit tests. Only the refund rule, whose portions depend on the order in
  which tills refund, is an operator here.
* *The contents* of invoices, receipts and frozen requests; the mapping of HTTP
  statuses beyond their classes; layout and wording; tokens and their storage.
* *Shifts*: the server decides, the till stores an observation. Checkout sees that the
  shift may have changed.
* *Offline sale authority*: a check inside the sale transaction, which refuses without
  writing.
* Of *preparation*, the readiness projection, which shows a countdown and changes
  nothing, the time window of the manifest, and the reconnect sequence, which nothing
  outside tests calls.
* *Updates* wrap a library; the *database* module opens a connection and runs
  migrations; most of the *renderer* shows what the main process says.

The map covers the modules that decide something. Most of the remaining lines are
screens, schemas, SQL text, migrations, formatting and wiring, in which no step waits
for another.

The plan was, most important first: the upload lane, the stock requests and
connectivity with their proofs; then dispositions, the ledger with its recovery, the
entity outbox, heartbeat, session and access, the install handshake, printing, checkout,
refunds and preparation. All of these are done. What is left of it:

1. `AllocationLedger` composed with the boundary of `InvoiceUpload` and the top-ups of
   `AllocationDispatch`, and the recovery composed with the worker on one queue row.
2. Held drafts and their recall, with an install between the two.
3. The legacy representation of grants and the expiry of rights.
4. Refund and test documents in `PrintJobs`; several lines in one refund.
5. The price rules as operators against a reference definition.
