--------------------------- MODULE CatalogInstall ---------------------------
(***************************************************************************)
(* Installing a new catalog under a running till.  The main process fetches*)
(* a snapshot, asks the window to hold still (CatalogInstallGate), writes  *)
(* the snapshot in one transaction and releases the window; the window     *)
(* (installHold.ts, the cart and the POS page) reports its draft, arms the  *)
(* hold, and re-reads the catalog before it lets the cashier go on.        *)
(* The two share nothing but two ordered channels.  Reply, last check,     *)
(* write and release are one turn of the main process, hence one action.   *)
(***************************************************************************)
EXTENDS Naturals, Sequences

CONSTANTS
  MaxRevision,  \* bound: catalog revisions the backend publishes
  MaxHolds,     \* bound: handshakes begun
  MaxDraft,     \* bound: draft generations per page load
  MaxWire,      \* bound: messages of the window on their way
  MaxTrouble    \* bound: reloads, lost pushes, failed reads, late replies

ASSUME InstallAssumption ==
  /\ MaxRevision \in Nat \ {0} /\ MaxHolds \in Nat /\ MaxDraft \in Nat \ {0}
  /\ MaxWire \in Nat \ {0} /\ MaxTrouble \in Nat

VARIABLES
  installed, expired,     \* the installed revision; past its validity window
  claim, completing,      \* revision of the owner's claimed attempt (0: none); a completion runs
  registry,               \* the draft the window last reported
  context, calls,         \* consent of the manual path (0: background); what withPath restores
  active, fetched,        \* the hold asked for and the revision downloaded for it
  holds,                  \* the outcome of every hold
  up, down,               \* window -> main, main -> window
  generation, lines,      \* the draft
  panel, known,           \* the payment panel is open; the attempt the window knows of
  pending,                \* its completion was asked for and not answered
  view, changed,          \* the contract the window works under; the draft is flagged
  armed, flag, applying,  \* the hold armed, holdActive, holds whose outcome is being applied
  reading,                \* the revision a catalog read has seen, not yet applied
  refreshing,             \* the window waits for the answer to its refresh request
  item, preview,          \* the revision a scanned product was read under; the rebuild shown
  trouble

gate     == <<registry, context, calls, active, fetched, holds>>
books    == <<installed, expired, claim, completing>>
draft    == <<generation, lines, panel, known, pending, view, changed, item, preview>>
client   == <<armed, flag, applying, reading, refreshing>>
installVars == <<gate, books, draft, client, up, down, trouble>>

Revision == 1 .. MaxRevision
Line     == [stamp : Revision, read : Revision]
NoReport == [generation |-> 0, lines |-> FALSE, paying |-> FALSE]
Report   == [generation : 0 .. MaxDraft, lines : BOOLEAN, paying : BOOLEAN]
Ask      == [path : {"none", "stale", "manual", "background"}, consent : 0 .. MaxDraft]
NoAsk    == [path |-> "none", consent |-> 0]
HoldOutcome == [state : {"requested", "installed", "aborted"}, revision : 0 .. MaxRevision]
Preview   == [under : Revision, read : Revision, of : SUBSET Line]
NoPreview == [under |-> 0, read |-> 0, of |-> {}]

\* none; this draft's own; committed, not yet acknowledged; another one found.
Known == {"none", "own", "committed", "blocking"}
Verdict == {"committed", "refused", "claimed", "blocked"}

Upward ==
  [kind : {"report"}, draft : Report]
    \cup [kind : {"reply"}, hold : 1 .. MaxHolds, admitted : BOOLEAN, generation : 0 .. MaxDraft]
    \cup [kind : {"refresh"}, consent : 1 .. MaxDraft]
    \cup [kind : {"complete"}, revision : Revision, lines : SUBSET Line, flagged : BOOLEAN]
    \cup [kind : {"retry"}]
Downward ==
  [kind : {"hold"}, hold : 1 .. MaxHolds, ask : Ask]
    \cup [kind : {"release"}, hold : 1 .. MaxHolds] \cup [kind : {"answer"}, verdict : Verdict]

Asking == active # NoAsk
Asked  == Len(holds)

(* Types, and the registry of the gate: a hold is open exactly as long as   *)
(* the gate waits for its answer, so there is one at most.                 *)
InstallTypeOK ==
  /\ installed \in Revision /\ expired \in BOOLEAN
  /\ claim \in 0 .. MaxRevision /\ completing \in BOOLEAN
  /\ registry \in Report /\ context \in 0 .. MaxDraft
  /\ calls \in Seq(0 .. MaxDraft)
  /\ active \in Ask /\ fetched \in 0 .. MaxRevision
  /\ holds \in Seq(HoldOutcome) /\ Len(holds) <= MaxHolds
  /\ \A id \in 1 .. Len(holds) : (holds[id].state = "requested") <=> (Asking /\ id = Asked)
  /\ up \in Seq(Upward) /\ down \in Seq(Downward)
  /\ generation \in 1 .. MaxDraft /\ lines \in SUBSET Line
  /\ panel \in BOOLEAN /\ known \in Known /\ pending \in BOOLEAN
  /\ view \in 0 .. MaxRevision /\ changed \in BOOLEAN
  /\ armed \in 0 .. MaxHolds /\ flag \in BOOLEAN /\ applying \in SUBSET (1 .. MaxHolds)
  /\ refreshing \in BOOLEAN
  /\ reading \in 0 .. MaxRevision /\ item \in 0 .. MaxRevision
  /\ preview \in Preview \cup {NoPreview}
  /\ trouble \in 0 .. MaxTrouble

InstallInit ==
  /\ installed = 1 /\ expired = FALSE /\ claim = 0 /\ completing = FALSE
  /\ registry = [NoReport EXCEPT !.generation = 1]
  /\ context = 0 /\ calls = <<>> /\ active = NoAsk /\ fetched = 0
  /\ holds = <<>> /\ up = <<>> /\ down = <<>>
  /\ generation = 1 /\ lines = {} /\ panel = FALSE /\ known = "none" /\ pending = FALSE
  /\ view = 1 /\ changed = FALSE
  /\ armed = 0 /\ flag = FALSE /\ applying = {} /\ reading = 0
  /\ refreshing = FALSE /\ item = 0 /\ preview = NoPreview /\ trouble = 0

-----------------------------------------------------------------------------
(* The gate.                                                               *)

(* Mutant: only a completion that runs counts, not a claim it has left.    *)
PaymentActive_Running == completing

(* hasGatingClaim or completionInFlight: what an install may not overtake. *)
PaymentActive == completing \/ (claim # 0 /\ claim = installed /\ ~expired)

Reported == registry.generation # 0
DraftIdle == Reported /\ ~registry.lines /\ ~registry.paying

Path == IF expired THEN "stale" ELSE IF context # 0 THEN "manual" ELSE "background"

(* acquire, up to the message to the window.                               *)
Admissible ==
  \/ Path = "stale"
  \/ ~PaymentActive /\ Reported /\ (Path = "manual" \/ DraftIdle)

(* beforeWrite: the same checks once more, against what the window replied. *)
StillAdmissible(answered) ==
  \/ active.path = "stale"
  \/ /\ ~PaymentActive
     /\ Reported /\ answered = registry.generation
     /\ ~(active.path = "manual" /\ registry.lines /\ registry.generation # active.consent)

(* Mutant: the window is released, the registry keeps the hold open.       *)
Abort_Unsettled(id) ==
  /\ down' = Append(down, [kind |-> "release", hold |-> id])
  /\ active' = NoAsk /\ fetched' = 0
  /\ UNCHANGED <<holds, books>>

(* Settling an aborted hold: the window is released, nothing was written.  *)
Abort(id) ==
  /\ holds' = [holds EXCEPT ![id].state = "aborted"]
  /\ down' = Append(down, [kind |-> "release", hold |-> id])
  /\ active' = NoAsk /\ fetched' = 0
  /\ UNCHANGED books

(* A claim on another revision than the one just installed cannot commit    *)
(* any more; it is settled unless its completion still runs.               *)
SettleSuperseded(revision) ==
  claim' = IF claim # revision /\ ~completing THEN 0 ELSE claim

(* The transaction commits: release, broadcast, settlement.                *)
Persist(id) ==
  /\ installed' = fetched /\ expired' = FALSE
  /\ SettleSuperseded(fetched)
  /\ holds' = [holds EXCEPT ![id] = [state |-> "installed", revision |-> fetched]]
  /\ down' = Append(down, [kind |-> "release", hold |-> id])
  /\ active' = NoAsk /\ fetched' = 0
  /\ UNCHANGED completing

(* The write fails for a reason of its own; after a conflict the next       *)
(* Acquire is the retry.                                                   *)
PersistFails(id) ==
  /\ trouble < MaxTrouble
  /\ holds' = [holds EXCEPT ![id].state = "aborted"]
  /\ down' = Append(down, [kind |-> "release", hold |-> id])
  /\ active' = NoAsk /\ fetched' = 0
  /\ UNCHANGED books

(* acquire returns (or throws), then beforeWrite, the write and settle.    *)
Decide(id, admitted, answered) ==
  IF (active.path # "stale" /\ ~admitted) \/ ~StillAdmissible(answered)
    THEN Abort(id) /\ UNCHANGED trouble
    ELSE \/ Persist(id) /\ UNCHANGED trouble
         \/ PersistFails(id) /\ trouble' = trouble + 1

ReplyArrives ==
  /\ up # <<>> /\ Head(up).kind = "reply" /\ up' = Tail(up)
  /\ UNCHANGED <<registry, context, calls, draft, client>>
  /\ IF Asking /\ Head(up).hold = Asked
       THEN Decide(Asked, Head(up).admitted, Head(up).generation)
       ELSE UNCHANGED <<active, fetched, holds, books, down, trouble>>

(* One second without an answer.                                           *)
GiveUp == IF active.path = "stale" THEN Persist(Asked) ELSE Abort(Asked)

ReplyLate ==
  /\ Asking /\ trouble < MaxTrouble /\ trouble' = trouble + 1
  /\ GiveUp
  /\ UNCHANGED <<registry, context, calls, up, draft, client>>

(* The page that was asked is gone.                                        *)
ReplyNeverComes ==
  /\ Asking
  /\ ~\E i \in 1 .. Len(up) : up[i].kind = "reply" /\ up[i].hold = Asked
  /\ ~\E i \in 1 .. Len(down) : down[i].kind = "hold" /\ down[i].hold = Asked
  /\ GiveUp
  /\ UNCHANGED <<registry, context, calls, up, draft, client, trouble>>

-----------------------------------------------------------------------------
(* workstation:refresh: refused during a payment, else it runs under the   *)
(* consent it carries; a refresh in flight is joined.                      *)
RefreshArrives ==
  /\ up # <<>> /\ Head(up).kind = "refresh" /\ up' = Tail(up)
  /\ UNCHANGED <<registry, active, fetched, holds, books, draft, armed, flag, applying, reading, down, trouble>>
  /\ IF PaymentActive THEN refreshing' = FALSE /\ UNCHANGED <<context, calls>>
     ELSE /\ context' = Head(up).consent /\ calls' = Append(calls, context)
          /\ UNCHANGED refreshing

(* The manual calls return, installed, deferred or failed before that: each *)
(* restores the context it found, the last one last.                       *)
RefreshReturns ==
  /\ ~Asking /\ calls # <<>>
  /\ context' = calls[Len(calls)] /\ calls' = <<>>
  /\ refreshing' = \E i \in 1 .. Len(up) : up[i].kind = "refresh"
  /\ UNCHANGED <<registry, active, fetched, holds, books, draft, armed, flag, applying, reading, up, down, trouble>>

(* A snapshot has been downloaded, for the cashier or in the background,   *)
(* and is admissible: the window is asked to hold.  The path is what the   *)
(* state says now, whoever began the download; an inadmissible snapshot is *)
(* dropped and nothing changes.                                            *)
Acquire ==
  /\ ~Asking /\ Admissible /\ Len(holds) < MaxHolds
  /\ holds' = Append(holds, [state |-> "requested", revision |-> 0])
  /\ active' = [path |-> Path, consent |-> IF Path = "manual" THEN context ELSE 0]
  /\ fetched' \in installed .. MaxRevision
  /\ down' = Append(down, [kind |-> "hold", hold |-> Len(holds) + 1, ask |-> active'])
  /\ UNCHANGED <<registry, context, calls, books, draft, client, up, trouble>>

Expires ==
  /\ ~expired /\ expired' = TRUE
  /\ UNCHANGED <<installed, claim, completing, gate, draft, client, up, down, trouble>>

-----------------------------------------------------------------------------
(* Main: draft reports and completions.                                    *)
ReportArrives ==
  /\ up # <<>> /\ Head(up).kind = "report" /\ up' = Tail(up)
  /\ registry' = Head(up).draft
  /\ UNCHANGED <<context, calls, active, fetched, holds, books, draft, client, down, trouble>>

(* An answer reaches only the page that asked, for what it asked.  (What is *)
(* still on its way has not been answered, what is answered is not again.)  *)
Awaited(rest) ==
  /\ pending
  /\ \A i \in 1 .. Len(rest) : rest[i].kind \notin {"complete", "retry"}
  /\ \A i \in 1 .. Len(down) : down[i].kind # "answer"

Answer(rest, verdict) ==
  down' = IF Awaited(rest) THEN Append(down, [kind |-> "answer", verdict |-> verdict]) ELSE down

(* Mutant: createNew claims whatever revision the intent was built on.     *)
NewClaim_AnyRevision(message) ==
  claim = 0 /\ claim' = message.revision /\ completing' = TRUE /\ UNCHANGED down

(* createNew: only an intent built on the installed revision is claimed.   *)
NewClaim(message) ==
  /\ claim = 0 /\ message.revision = installed
  /\ claim' = message.revision /\ completing' = TRUE /\ UNCHANGED down

RefuseClaim(message) ==
  /\ claim # 0 \/ message.revision # installed
  /\ Answer(Tail(up), IF message.revision = installed THEN "blocked" ELSE "refused")
  /\ UNCHANGED <<claim, completing>>

CompleteArrives ==
  /\ up # <<>> /\ Head(up).kind = "complete" /\ up' = Tail(up)
  /\ NewClaim(Head(up)) \/ RefuseClaim(Head(up))
  /\ UNCHANGED <<installed, expired, gate, draft, client, trouble>>

(* retryAttempt: a claimed attempt is completed, or its running completion  *)
(* joined; one that was settled meanwhile is reported as it was settled.   *)
RetryArrives ==
  /\ up # <<>> /\ Head(up).kind = "retry" /\ up' = Tail(up)
  /\ completing' = (claim # 0)
  /\ IF claim # 0 THEN UNCHANGED down
     ELSE \E verdict \in {"committed", "refused"} : Answer(Tail(up), verdict)
  /\ UNCHANGED <<installed, expired, claim, gate, draft, client, trouble>>

(* A sale on the installed, valid catalog may commit; any may be refused    *)
(* for good or stay claimed, to be tried again.                            *)
CompletionEnds ==
  /\ completing /\ completing' = FALSE
  /\ \/ claim = installed /\ ~expired /\ claim' = 0 /\ Answer(up, "committed")
     \/ claim' = 0 /\ Answer(up, "refused")
     \/ claim' = claim /\ Answer(up, "claimed")
  /\ UNCHANGED <<installed, expired, gate, draft, client, up, trouble>>

-----------------------------------------------------------------------------
(* The window: every change of the draft is a new generation, reported.    *)
(* A pressed button alone is not: its generation concerns no hold, which    *)
(* compares generations only where nothing is being paid.  The bound keeps *)
(* a generation for the answer that is awaited.                            *)
Paying == panel \/ known # "none"

\* attemptProtected: the draft is locked.
Locked == pending \/ known \in {"own", "committed"}

RoomForAnswer == pending => generation + 1 < MaxDraft

Told(l, p, a) ==
  /\ generation < MaxDraft /\ Len(up) < MaxWire
  /\ generation' = generation + 1 /\ lines' = l /\ panel' = p /\ known' = a
  /\ up' = Append(up, [kind |-> "report", draft |-> [generation |-> generation + 1, lines |-> l # {},
                                                     paying |-> p \/ a # "none"]])

(* A scan or a tap waits for the hold; main reads product and revision     *)
(* together.                                                               *)
ReadProduct ==
  /\ ~flag /\ item = 0 /\ ~panel
  /\ item' = installed
  /\ UNCHANGED <<generation, lines, panel, known, pending, view, changed, preview,
                 gate, books, client, up, down, trouble>>

(* addProduct, and the page before it: refused while an attempt is open,    *)
(* while flagged, without a contract, and when the product was read under   *)
(* another revision than the contract.  The panel does not keep a late      *)
(* scan out.                                                               *)
Addable == ~changed /\ ~pending /\ known = "none" /\ item = view

AddProduct ==
  /\ item # 0 /\ item' = 0
  /\ UNCHANGED <<pending, view, changed, preview, gate, books, client, down, trouble>>
  /\ IF Addable THEN Told(lines \cup {[stamp |-> view, read |-> item]}, panel, known)
     ELSE UNCHANGED <<generation, lines, panel, known, up>>

ClearDraft ==
  /\ lines # {} /\ ~Locked
  /\ Told({}, FALSE, known) /\ changed' = FALSE
  /\ UNCHANGED <<pending, view, item, preview, gate, books, client, down, trouble>>

(* prepareCartRebuild: the products are read again; getProduct does not     *)
(* say under which revision.                                               *)
PrepareRebuild ==
  /\ changed /\ view # 0 /\ preview = NoPreview
  /\ preview' = [under |-> view, read |-> installed, of |-> lines]
  /\ UNCHANGED <<generation, lines, panel, known, pending, view, changed, item,
                 gate, books, client, up, down, trouble>>

(* The token: same draft, same contract, as when the reading began.        *)
ConfirmRebuild ==
  /\ preview # NoPreview /\ preview' = NoPreview
  /\ UNCHANGED <<pending, view, item, gate, books, client, down, trouble>>
  /\ IF changed /\ ~Locked /\ preview.under = view /\ preview.of = lines
       THEN Told({[stamp |-> view, read |-> preview.read]}, panel, known) /\ changed' = FALSE
       ELSE UNCHANGED <<generation, lines, panel, known, changed, up>>

(* openPaymentPanel asks for a valid cart, not for the hold.               *)
Pay ==
  /\ lines # {} /\ ~changed /\ ~panel /\ RoomForAnswer
  /\ Told(lines, TRUE, known)
  /\ UNCHANGED <<pending, view, changed, item, preview, gate, books, client, down, trouble>>

(* closePaymentPanel; a committed sale is acknowledged instead.            *)
ClosePanel ==
  /\ panel /\ RoomForAnswer
  /\ Told(lines, FALSE, IF known = "committed" THEN "none" ELSE known)
  /\ UNCHANGED <<pending, view, changed, item, preview, gate, books, client, down, trouble>>

(* handleComplete waits for the hold and sends the intent: the lines, under *)
(* the contract the window has now.  Main has found this intent valid; that *)
(* the draft is flagged does not stop it.                                  *)
Complete ==
  /\ ~flag /\ panel /\ known = "none" /\ ~pending /\ lines # {} /\ view # 0
  /\ generation < MaxDraft /\ Len(up) < MaxWire
  /\ known' = "own" /\ pending' = TRUE
  /\ up' = Append(up, [kind |-> "complete", revision |-> view, lines |-> lines, flagged |-> changed])
  /\ UNCHANGED <<generation, lines, panel, view, changed, item, preview,
                 client, gate, books, down, trouble>>

(* handleRetryAttempt, on this draft's attempt or the one that blocks it.  *)
Retry ==
  /\ known \in {"own", "blocking"} /\ ~pending
  /\ generation < MaxDraft /\ Len(up) < MaxWire
  /\ pending' = TRUE
  /\ up' = Append(up, [kind |-> "retry"])
  /\ UNCHANGED <<generation, lines, panel, known, view, changed, item, preview,
                 client, gate, books, down, trouble>>

(* What the answer makes of the attempt.                                   *)
Concluded(verdict) ==
  IF known = "own"
    THEN CASE verdict = "committed" -> "committed" [] verdict = "refused" -> "none"
           [] verdict = "claimed" -> "own" [] verdict = "blocked" -> "blocking"
    ELSE IF verdict \in {"committed", "refused"} THEN "none" ELSE "blocking"

(* applyOutcome: a sale of this draft's own empties it.                    *)
AnswerArrives ==
  /\ down # <<>> /\ Head(down).kind = "answer" /\ down' = Tail(down)
  /\ pending' = FALSE
  /\ LET verdict == Head(down).verdict
         sold    == known = "own" /\ verdict = "committed"
     IN  /\ Told(IF sold THEN {} ELSE lines, panel, Concluded(verdict))
         /\ changed' = (changed /\ ~sold)
  /\ UNCHANGED <<view, item, preview, gate, books, client, trouble>>

(* discoverPending: on mount, and when main has settled an attempt.        *)
DiscoverPending ==
  /\ ~pending /\ known \in {"none", "blocking"}
  /\ (known = "none") <=> (claim # 0)
  /\ Told(lines, panel, IF claim # 0 THEN "blocking" ELSE "none")
  /\ UNCHANGED <<pending, view, changed, item, preview, gate, books, client, down, trouble>>

(* The header button: consent is the generation at this moment.            *)
RequestRefresh ==
  /\ ~flag /\ ~Paying /\ ~refreshing /\ Len(up) < MaxWire /\ Len(holds) < MaxHolds
  /\ refreshing' = TRUE
  /\ up' = Append(up, [kind |-> "refresh", consent |-> generation])
  /\ UNCHANGED <<draft, armed, flag, applying, reading, gate, books, down, trouble>>

-----------------------------------------------------------------------------
(* The window's side of the hold.                                          *)
Admitted(ask) ==
  \/ ask.path = "stale"
  \/ ask.path = "background" /\ lines = {} /\ ~Paying
  \/ ask.path = "manual" /\ ~Paying /\ (lines = {} \/ generation = ask.consent)

(* Armed before the reply leaves.                                          *)
HoldArrives ==
  /\ down # <<>> /\ Head(down).kind = "hold" /\ down' = Tail(down)
  /\ LET id == Head(down).hold
         ok == Admitted(Head(down).ask)
     IN  /\ up' = Append(up, [kind |-> "reply", hold |-> id, admitted |-> ok,
                              generation |-> generation])
         /\ armed' = IF ok THEN id ELSE armed
         /\ flag' = (flag \/ ok)
  /\ UNCHANGED <<applying, reading, refreshing, draft, gate, books, trouble>>

(* finish, up to its first wait: the outcome is known, the hold still      *)
(* blocks until the catalog has been read.                                 *)
Finish(id) == applying' = IF armed = id THEN applying \cup {id} ELSE applying

ReleaseArrives ==
  /\ down # <<>> /\ Head(down).kind = "release" /\ down' = Tail(down)
  /\ Finish(Head(down).hold)
  /\ UNCHANGED <<armed, flag, reading, refreshing, draft, gate, books, up, trouble>>

Settled(id) == holds[id].state # "requested"

(* The status poll recovers a release that was lost.                       *)
Poll ==
  /\ armed # 0 /\ armed \notin applying /\ Settled(armed)
  /\ Finish(armed)
  /\ UNCHANGED <<armed, flag, reading, refreshing, draft, gate, books, up, down, trouble>>

LoseRelease ==
  /\ trouble < MaxTrouble /\ trouble' = trouble + 1
  /\ down # <<>> /\ Head(down).kind = "release" /\ down' = Tail(down)
  /\ UNCHANGED <<draft, client, gate, books, up>>

(* catalog.initialize, asked for by the end of a hold, the broadcast of a   *)
(* change, a page that opens: main answers now, the answer is applied later.*)
ReadStatus ==
  /\ reading = 0 /\ (applying # {} \/ view # installed)
  /\ reading' = installed
  /\ UNCHANGED <<armed, flag, applying, refreshing, draft, gate, books, up, down, trouble>>

(* Mutant: an aborted hold waits for a revision to be seen, too.           *)
Ending_SeenOnly(seen) == {id \in applying : holds[id].revision = seen}

(* Holds that end with this read: aborted ones with any, installed ones    *)
(* with a read that shows the revision main put in place.                  *)
Ending(seen) == {id \in applying : holds[id].revision \in {0, seen}}

(* The end of finish, for each hold that ends.                             *)
Released(ids) ==
  /\ applying' = applying \ ids
  /\ armed' = IF armed \in ids THEN 0 ELSE armed
  /\ flag' = (flag /\ ids = {})

(* setContract: lines of another revision stay, and are flagged.           *)
SetContract(r) ==
  /\ view' = r
  /\ changed' = (lines # {} /\ (view \notin {0, r} \/ \E l \in lines : l.stamp # r))

ApplyStatus ==
  /\ reading # 0 /\ reading' = 0
  /\ SetContract(reading) /\ Released(Ending(reading))
  /\ preview' = IF reading # view THEN NoPreview ELSE preview
  /\ UNCHANGED <<refreshing, generation, lines, panel, known, pending, item, gate, books, up, down, trouble>>

(* The read fails: an install is read again, an aborted hold ends anyway.  *)
ReadFails ==
  /\ reading # 0 /\ reading' = 0 /\ trouble < MaxTrouble /\ trouble' = trouble + 1
  /\ Released(Ending(0))
  /\ UNCHANGED <<refreshing, draft, gate, books, up, down>>

(* The page is loaded anew: all it knew is gone, generations begin again.  *)
Reload ==
  /\ trouble < MaxTrouble /\ trouble' = trouble + 1
  /\ registry' = NoReport /\ down' = <<>>
  /\ generation' = 1 /\ lines' = {} /\ panel' = FALSE /\ known' = "none" /\ pending' = FALSE
  /\ view' = 0 /\ changed' = FALSE /\ item' = 0 /\ preview' = NoPreview
  /\ armed' = 0 /\ flag' = FALSE /\ applying' = {} /\ reading' = 0
  /\ refreshing' = FALSE
  /\ up' = Append(up, [kind |-> "report", draft |-> [NoReport EXCEPT !.generation = 1]])
  /\ UNCHANGED <<context, calls, active, fetched, holds, books>>

-----------------------------------------------------------------------------
GateStep ==
  \/ ReplyArrives \/ ReplyLate \/ ReplyNeverComes
  \/ ReportArrives \/ CompleteArrives \/ RetryArrives \/ CompletionEnds
  \/ RefreshArrives \/ RefreshReturns

HoldStep ==
  \/ HoldArrives \/ ReleaseArrives \/ AnswerArrives \/ Poll \/ ReadStatus \/ ApplyStatus

CashierStep ==
  \/ ReadProduct \/ AddProduct \/ ClearDraft \/ PrepareRebuild \/ ConfirmRebuild
  \/ Pay \/ ClosePanel \/ Complete \/ Retry \/ DiscoverPending \/ RequestRefresh

InstallNext ==
  \/ GateStep \/ HoldStep \/ CashierStep
  \/ Acquire \/ Expires \/ LoseRelease \/ ReadFails \/ Reload

InstallSpec == InstallInit /\ [][InstallNext]_installVars

-----------------------------------------------------------------------------
(* No catalog that is still valid is replaced under a payment: not while a *)
(* completion runs, and not while a claimed attempt could still commit on   *)
(* it, also when the window that claimed it is gone.                       *)
ClaimStands ==
  [][holds' # holds /\ installed' # installed /\ ~expired
       => ~completing /\ claim # installed]_installVars

(* What main accepts to sell was read from the very catalog that is        *)
(* installed when it accepts it, on every line, however the draft came to  *)
(* be: by scans, recalled, rebuilt, before or after an install; a draft     *)
(* that an install has flagged excepted (see SoldAsShown).                 *)
SoldAsRead ==
  [][claim = 0 /\ claim' # 0
       => Head(up).flagged
            \/ \A l \in Head(up).lines : l.read = installed /\ l.stamp = installed]_installVars

(* cart.store.ts on setContract: "Frozen snapshots remain visible until the *)
(* cashier explicitly clears, removes, or rebuilds.  Repricing a draft on   *)
(* catalog refresh would silently change a commercial transaction."  So    *)
(* what is sold was stamped with the catalog it is priced from.  The code  *)
(* violates it: a panel that was open when the catalog changed completes.  *)
SoldAsShown ==
  [][claim = 0 /\ claim' # 0 => \A l \in Head(up).lines : l.stamp = installed]_installVars

(* A hold that stops the cashier ends: lost pushes, failed reads, late     *)
(* replies and aborted installs included.                                  *)
HoldEnds == flag ~> ~flag
=============================================================================
