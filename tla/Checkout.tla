------------------------------ MODULE Checkout ------------------------------
(***************************************************************************)
(* Paying for a cart.  The window (payment.store.ts, the cart, the POS     *)
(* page) mints a key for the draft, the main process (SaleCompletion,      *)
(* LocalSale) claims an attempt under it and completes it later; answers   *)
(* reach the window in order, after whatever the cashier did meanwhile.    *)
(* A call is sent and handled in one step: nothing in the window waits for *)
(* the time between, and what the main process does in it can be done      *)
(* before.                                                                 *)
(***************************************************************************)
EXTENDS Naturals, Sequences, FiniteSets

CONSTANTS
  MaxItems,     \* bound: things rung up, each of them once
  MaxKeys,      \* bound: attempts
  MaxShifts,    \* bound: shifts
  MaxCalls,     \* bound: calls of the window on an attempt not answered yet
  Mishaps,      \* kinds of trouble explored
  MaxMishaps    \* bound: how many of them, each once

ASSUME CheckoutAssumption ==
  /\ MaxItems \in Nat /\ MaxKeys \in Nat /\ MaxShifts \in Nat \ {0} /\ MaxCalls \in Nat
  /\ Mishaps \subseteq {"refuse", "reject", "disk", "reload", "crash", "return", "lost", "away",
                        "unrecorded"}
  /\ MaxMishaps \in Nat

VARIABLES
  attempt,    \* sale_attempts of this cashier
  running,    \* completions in flight
  able,       \* captureContext finds session, company and device in order
  shift,      \* the shift that is open
  waiting,    \* by attempt, the calls that share its completion in flight, in order
  answers,    \* answers on their way to the window, in order
  window,     \* the payment store and the cart
  rung, minted, mishaps

checkoutVars == <<attempt, running, able, shift, waiting, answers, window, rung, minted, mishaps>>

Item  == 1 .. MaxItems
Key   == 1 .. MaxKeys
NoKey == 0

Sold    == {"committed", "acknowledged"}
Attempt == [state : {"none", "claimed", "rejected", "abandoned"} \cup Sold,
            items : SUBSET Item, shift : 0 .. MaxShifts]
Call    == [kind : {"complete", "retry", "replay", "check", "status", "pending", "abandon",
                    "acknowledge"},
            key : Key \cup {NoKey}, draft : 1 .. MaxShifts + MaxMishaps]
Saying  == Sold \cup {"claimed", "rejected", "abandoned", "refused", "blocked", "conflict",
                      "in-flight", "unknown", "list", "error"}
Message == [call : Call, says : Saying, blocking : Key \cup {NoKey}, results : SUBSET Key]

\* draft counts the resets of the store (contextGeneration) and the reloads of
\* the window; a late answer of an earlier one concerns nobody.
Window  == [draft : 1 .. MaxShifts + MaxMishaps, shift : 1 .. MaxShifts,
            cart : SUBSET Item, key : Key \cup {NoKey},
            state : {"none", "in-flight", "claimed", "committed"},
            outcome : {"none", "failed", "rejected", "abandoned"} \cup Sold,
            active : BOOLEAN, pending : BOOLEAN,
            asking : {"no", "first", "again", "asked", "replaying"}, asked : Key \cup {NoKey},
            blocking : Key \cup {NoKey}, results : SUBSET Key]

Fresh(draft, s) ==
  [draft |-> draft, shift |-> s, cart |-> {}, key |-> NoKey, state |-> "none",
   outcome |-> "none", active |-> FALSE, pending |-> FALSE, asking |-> "no", asked |-> NoKey,
   blocking |-> NoKey, results |-> {}]

CheckoutTypeOK ==
  /\ attempt \in [Key -> Attempt] /\ running \subseteq Key /\ able \in BOOLEAN
  /\ shift \in 1 .. MaxShifts
  /\ waiting \in [Key -> Seq(Call)] /\ answers \in Seq(Message) /\ window \in Window
  /\ rung \in 0 .. MaxItems /\ minted \in 0 .. MaxKeys /\ mishaps \subseteq Mishaps

CheckoutInit ==
  /\ attempt = [k \in Key |-> [state |-> "none", items |-> {}, shift |-> 0]]
  /\ running = {} /\ able = TRUE /\ shift = 1 /\ waiting = [k \in Key |-> <<>>] /\ answers = <<>>
  /\ window = Fresh(1, 1) /\ rung = 0 /\ minted = 0 /\ mishaps = {}

Mishap(kind) ==
  /\ kind \in Mishaps \ mishaps /\ Cardinality(mishaps) < MaxMishaps
  /\ mishaps' = mishaps \cup {kind}

-----------------------------------------------------------------------------
(* The main process.                                                       *)

CallOf(kind, k) == [kind |-> kind, key |-> k, draft |-> window.draft]
To(c, says)     == [call |-> c, says |-> says, blocking |-> NoKey, results |-> {}]

ClaimedKeys == {k \in Key : attempt[k].state = "claimed"}
TheBlocking == IF ClaimedKeys = {} THEN NoKey ELSE CHOOSE k \in ClaimedKeys : TRUE

(* checkout:attempt-status.                                                *)
StatusSays(k) ==
  CASE ~able                                            -> "error"
    [] able /\ k \in running /\ attempt[k].state \in {"none", "claimed"} -> "in-flight"
    [] able /\ k \notin running /\ attempt[k].state = "none" -> "unknown"
    [] OTHER                                            -> attempt[k].state

(* checkout:pending-attempts.                                              *)
PendingSays(c) ==
  IF ~able THEN To(c, "error")
  ELSE [call |-> c, says |-> "list", blocking |-> TheBlocking,
        results |-> {k \in Key : attempt[k].state = "committed"}]

(* runPrepared is to come: the call waits for the completion in flight.    *)
Awaits(c, queue) == waiting' = [waiting EXCEPT ![c.key] = Append(@, c)] /\ answers' = queue
Replies(c, says, queue) == waiting' = waiting /\ answers' = Append(queue, To(c, says))

(* single and prepareRetry.                                                *)
RetryHandled(c, queue) ==
  LET state == attempt[c.key].state
  IN  \/ c.key \in running /\ Awaits(c, queue) /\ UNCHANGED running
      \/ /\ c.key \notin running /\ able /\ state = "claimed"
         /\ running' = running \cup {c.key} /\ Awaits(c, queue)
      \/ /\ c.key \notin running /\ ~(able /\ state = "claimed")
         /\ Replies(c, IF ~able \/ state = "none" THEN "refused" ELSE state, queue)
         /\ UNCHANGED running

(* dispatchExisting.  Two lists of the same products are the same intent;  *)
(* here every product is another.                                          *)
ExistingHandled(c, items) ==
  /\ able /\ attempt[c.key].state # "none" /\ UNCHANGED <<attempt, mishaps>>
  /\ \/ attempt[c.key].items = items /\ RetryHandled(c, answers)
     \/ attempt[c.key].items # items /\ Replies(c, "conflict", answers) /\ UNCHANGED running

(* createNew: a claim, unless a condition refuses it or another attempt is *)
(* still claimed.                                                          *)
NewHandled(c, items) ==
  /\ able /\ attempt[c.key].state = "none"
  /\ \/ /\ TheBlocking # NoKey /\ waiting' = waiting
        /\ answers' = Append(answers, [To(c, "blocked") EXCEPT !.blocking = TheBlocking])
        /\ UNCHANGED <<attempt, running, mishaps>>
     \/ /\ TheBlocking = NoKey /\ Mishap("refuse") /\ Replies(c, "refused", answers)
        /\ UNCHANGED <<attempt, running>>
     \/ /\ TheBlocking = NoKey
        /\ attempt' = [attempt EXCEPT ![c.key] =
                         [state |-> "claimed", items |-> items, shift |-> shift]]
        /\ running' = running \cup {c.key} /\ Awaits(c, answers) /\ UNCHANGED mishaps

(* single and prepareCompletion.                                           *)
CompleteHandled(c, items) ==
  \/ c.key \in running /\ RetryHandled(c, answers) /\ UNCHANGED <<attempt, mishaps>>
  \/ c.key \notin running /\ (ExistingHandled(c, items) \/ NewHandled(c, items))
  \/ /\ c.key \notin running /\ ~able /\ Replies(c, "refused", answers)
     /\ UNCHANGED <<attempt, running, mishaps>>

(* What the business transaction asks of an attempt, its session and its   *)
(* shift before it sells.                                                  *)
MaySell(k) == attempt[k].state = "claimed" /\ able /\ attempt[k].shift = shift

(* The completion ends: the acquisition is blocked or a condition fails    *)
(* and the attempt stays claimed, or runPrepared commits or rejects it.    *)
AttemptEnds(k) ==
  LET Ends(state, says) ==
        /\ attempt' = [attempt EXCEPT ![k].state = state]
        /\ answers' = answers \o [i \in DOMAIN waiting[k] |-> To(waiting[k][i], says)]
      claimed == attempt[k].state = "claimed"
  IN  /\ k \in running /\ running' = running \ {k}
      /\ waiting' = [waiting EXCEPT ![k] = <<>>]
      /\ \/ Ends(attempt[k].state, "claimed") /\ UNCHANGED mishaps
         \/ MaySell(k) /\ Ends("committed", "committed") /\ UNCHANGED mishaps
         \/ claimed /\ able /\ Mishap("reject") /\ Ends("rejected", "rejected")
         \/ ~claimed /\ Ends(attempt[k].state, "rejected") /\ UNCHANGED mishaps
         \/ Mishap("disk") /\ Ends(attempt[k].state, "error")
         \/ claimed /\ able /\ Mishap("unrecorded") /\ Ends("claimed", "rejected")
      /\ UNCHANGED <<able, shift, window, rung, minted>>

-----------------------------------------------------------------------------
(* The window.                                                             *)

(* Mutant: a claim that an answer left behind does not protect the draft.  *)
Protected_WhileAsked(w) ==
  \/ w.pending \/ w.asking # "no" \/ w.outcome = "committed"
  \/ w.key # NoKey /\ w.state = "in-flight"

(* attemptProtected, which locks the cart.                                 *)
Protected(w) ==
  \/ w.pending \/ w.asking # "no" \/ w.outcome = "committed"
  \/ w.key # NoKey /\ w.state \in {"claimed", "in-flight"}

ClaimedHere == ~window.pending /\ window.key # NoKey /\ window.state = "claimed"
RecoveryKey == IF window.blocking # NoKey THEN window.blocking
               ELSE IF ClaimedHere THEN window.key ELSE NoKey

KeyFreed(w) == [w EXCEPT !.key = NoKey, !.state = "none"]
ResetEditable(w) == [KeyFreed(w) EXCEPT !.outcome = "none"]

MayCall == \A k \in Key : Len(waiting[k]) + Len(answers) < MaxCalls

RingUp ==
  /\ ~Protected(window) /\ rung < MaxItems
  /\ rung' = rung + 1 /\ window' = [window EXCEPT !.cart = @ \cup {rung + 1}]
  /\ UNCHANGED <<attempt, running, able, shift, waiting, answers, minted, mishaps>>

(* removeLine, and clear for the last one or all of them: another draft.   *)
Remove(items) ==
  /\ ~Protected(window) /\ items # {} /\ items \subseteq window.cart
  /\ window' = IF items = window.cart THEN [ResetEditable(window) EXCEPT !.cart = {}]
                                      ELSE [window EXCEPT !.cart = @ \ items]
  /\ UNCHANGED <<attempt, running, able, shift, waiting, answers, rung, minted, mishaps>>

(* complete, up to its await.                                              *)
PressComplete ==
  LET k == IF window.key = NoKey THEN minted + 1 ELSE window.key IN
  /\ window.cart # {} /\ window.blocking = NoKey /\ ~ClaimedHere /\ ~window.pending
  /\ ~window.active /\ window.asking = "no" /\ window.outcome \notin Sold
  /\ k <= MaxKeys /\ minted' = (IF k > minted THEN k ELSE minted) /\ MayCall
  /\ window' = [window EXCEPT !.key = k, !.state = "in-flight", !.active = TRUE,
                              !.pending = TRUE]
  /\ CompleteHandled(CallOf("complete", k), window.cart)
  /\ UNCHANGED <<able, shift, rung>>

(* retryAttempt, of this draft's attempt or the one in the banner.         *)
PressRetry ==
  /\ RecoveryKey # NoKey /\ MayCall
  /\ window' = [window EXCEPT !.pending = TRUE]
  /\ RetryHandled(CallOf("retry", RecoveryKey), answers)
  /\ UNCHANGED <<attempt, able, shift, rung, minted, mishaps>>

(* abandonAttempt.                                                         *)
PressAbandon ==
  LET k == RecoveryKey
      c == CallOf("abandon", k) IN
  /\ k # NoKey /\ MayCall
  /\ \/ /\ able /\ attempt[k].state = "claimed"
        /\ attempt' = [attempt EXCEPT ![k].state = "abandoned"] /\ Replies(c, "abandoned", answers)
     \/ /\ ~(able /\ attempt[k].state = "claimed") /\ UNCHANGED attempt
        /\ Replies(c, IF able /\ attempt[k].state = "abandoned" THEN "abandoned" ELSE "refused",
                 answers)
  /\ UNCHANGED <<running, able, shift, window, rung, minted, mishaps>>

(* acknowledgeAttempt, of the sale just shown or of one in the banner.     *)
PressAcknowledge(k) ==
  LET c == CallOf("acknowledge", k) IN
  /\ k \in window.results \/ (window.outcome \in Sold /\ k = window.key /\ k # NoKey)
  /\ MayCall
  /\ \/ /\ able /\ attempt[k].state \in Sold
        /\ attempt' = [attempt EXCEPT ![k].state = "acknowledged"]
        /\ Replies(c, "acknowledged", answers)
     \/ /\ ~(able /\ attempt[k].state \in Sold) /\ UNCHANGED attempt
        /\ Replies(c, "refused", answers)
  /\ UNCHANGED <<running, able, shift, window, rung, minted, mishaps>>

-----------------------------------------------------------------------------
(* Answers.                                                                *)

(* applyOutcome.                                                           *)
Apply(w, m) ==
  LET said == [w EXCEPT !.outcome = IF m.says \in Sold \cup {"rejected", "abandoned"}
                                    THEN m.says ELSE "failed"]
  IN  CASE m.says = "committed" -> [said EXCEPT !.state = "committed", !.cart = {}]
        [] m.says = "claimed"   -> [said EXCEPT !.state = "claimed"]
        [] m.says = "blocked"   -> [KeyFreed(said) EXCEPT !.blocking = m.blocking]
        [] m.says \in {"rejected", "refused", "conflict"} -> KeyFreed(said)
        [] OTHER                -> said

(* recordUnboundOutcome.                                                   *)
Recorded(w, m) ==
  CASE m.says = "committed" -> [w EXCEPT !.results = @ \cup {m.call.key}]
    [] m.says = "claimed"   -> [w EXCEPT !.blocking = m.call.key]
    [] OTHER                -> w

ApplyOrRecord(w, m) == IF w.key = m.call.key THEN Apply(w, m) ELSE Recorded(w, m)

Unblocked(w, k) == IF w.blocking = k THEN [w EXCEPT !.blocking = NoKey] ELSE w

(* After an own attempt is found still claimed the window asks for its     *)
(* status (refreshAttemptStatus), and after a cancelled payment for        *)
(* everything pending.                                                     *)
Afterwards(w, m, queue) ==
  CASE m.call.kind = "abandon" ->
         Append(queue, PendingSays([m.call EXCEPT !.kind = "pending", !.draft = w.draft]))
    [] /\ m.call.kind \in {"complete", "retry"} /\ m.call.draft = w.draft
       /\ m.says = "claimed" /\ window.key = m.call.key ->
         Append(queue, To(CallOf("status", m.call.key), StatusSays(m.call.key)))
    [] OTHER -> queue

(* Mutant: the sale is shown as paid, its lines stay in the cart.          *)
OnRetry_LinesStay(w, m) ==
  LET done  == [w EXCEPT !.pending = FALSE]
      taken == IF w.key = m.call.key THEN [Apply(done, m) EXCEPT !.cart = w.cart]
               ELSE IF m.says = "committed" THEN Recorded(done, m) ELSE done
  IN  IF m.says = "error" THEN done
      ELSE IF m.says \in Sold \cup {"rejected", "abandoned"} THEN Unblocked(taken, m.call.key)
      ELSE taken

OnRetry(w, m) ==
  LET done  == [w EXCEPT !.pending = FALSE]
      taken == IF w.key = m.call.key THEN Apply(done, m)
               ELSE IF m.says = "committed" THEN Recorded(done, m) ELSE done
  IN  IF m.says = "error" THEN done
      ELSE IF m.says \in Sold \cup {"rejected", "abandoned"} THEN Unblocked(taken, m.call.key)
      ELSE taken

OnComplete(w, m) ==
  LET done == [w EXCEPT !.active = FALSE, !.pending = FALSE]
  IN  IF m.says = "error" THEN [done EXCEPT !.asking = "first", !.asked = m.call.key]
                          ELSE ApplyOrRecord(done, m)

(* reconcile, after its question; a sale that was made is read once more.  *)
OnCheck(w, m) ==
  LET bound == w.key = m.call.key
      done  == [w EXCEPT !.asking = "no", !.asked = NoKey]
  IN  CASE m.says \in {"error", "in-flight"} -> [w EXCEPT !.asking = "again"]
        [] m.says \in Sold     -> [w EXCEPT !.asking = "replaying"]
        [] m.says = "claimed"  -> IF bound THEN [done EXCEPT !.state = "claimed"]
                                           ELSE [done EXCEPT !.blocking = m.call.key]
        [] OTHER               -> IF bound THEN KeyFreed(done) ELSE done

OnReplay(w, m) ==
  LET done == [w EXCEPT !.asking = "no", !.asked = NoKey]
  IN  IF m.says = "error" THEN done ELSE ApplyOrRecord(done, m)

OnStatus(w, m) ==
  IF w.key # m.call.key THEN w
  ELSE CASE m.says \in {"claimed", "in-flight"} -> [w EXCEPT !.state = m.says]
         [] m.says = "unknown"                 -> KeyFreed(w)
         [] OTHER                              -> w

OnPending(w, m) ==
  IF m.says = "error" THEN w
  ELSE [w EXCEPT !.blocking = m.blocking, !.results = m.results,
                 !.state = IF m.blocking # NoKey /\ m.blocking = w.key THEN "claimed" ELSE @]

OnAbandon(w, m) ==
  IF m.says = "abandoned"
  THEN IF w.key = m.call.key THEN ResetEditable(Unblocked(w, m.call.key))
                             ELSE Unblocked(w, m.call.key)
  ELSE IF w.key = m.call.key /\ m.says # "error" THEN [w EXCEPT !.outcome = "failed"] ELSE w

OnAcknowledge(w, m) ==
  IF m.says # "acknowledged" THEN w
  ELSE LET gone == [w EXCEPT !.results = @ \ {m.call.key}]
       IN  IF w.key = m.call.key THEN ResetEditable(gone) ELSE gone

Taken(w, m) ==
  IF m.call.draft # w.draft THEN w
  ELSE CASE m.call.kind = "complete"    -> OnComplete(w, m)
         [] m.call.kind = "retry"       -> OnRetry(w, m)
         [] m.call.kind = "replay"      -> OnReplay(w, m)
         [] m.call.kind = "check"       -> OnCheck(w, m)
         [] m.call.kind = "status"      -> OnStatus(w, m)
         [] m.call.kind = "pending"     -> OnPending(w, m)
         [] m.call.kind = "abandon"     -> OnAbandon(w, m)
         [] m.call.kind = "acknowledge" -> OnAcknowledge(w, m)

TakeAnswer ==
  LET m == Head(answers)
      w == Taken(window, m)
      queue == Afterwards(w, m, Tail(answers)) IN
  /\ answers # <<>> /\ window' = w
  /\ \/ /\ w.asking = "replaying" /\ window.asking # "replaying"
        /\ RetryHandled(CallOf("replay", w.asked), queue)
     \/ /\ ~(w.asking = "replaying" /\ window.asking # "replaying")
        /\ answers' = queue /\ UNCHANGED <<running, waiting>>
  /\ UNCHANGED <<attempt, able, shift, rung, minted, mishaps>>

(* reconcile asks, up to twenty times; then it leaves the draft protected. *)
AskAgain ==
  /\ window.asking \in {"first", "again"}
  /\ window' = [window EXCEPT !.asking = "asked"]
  /\ Replies(CallOf("check", window.asked), StatusSays(window.asked), answers)
  /\ UNCHANGED <<attempt, running, able, shift, rung, minted, mishaps>>

StopAsking ==
  /\ window.asking = "again"
  /\ window' = [window EXCEPT !.asking = "no", !.asked = NoKey,
                              !.state = IF window.key = window.asked THEN "claimed" ELSE @]
  /\ UNCHANGED <<attempt, running, able, shift, waiting, answers, rung, minted, mishaps>>

-----------------------------------------------------------------------------
(* Around them.                                                            *)

Discover(w) == PendingSays([kind |-> "pending", key |-> NoKey, draft |-> w.draft])

(* Another shift opens; the window learns of it later, and starts over.    *)
ShiftMoves ==
  /\ shift < MaxShifts /\ shift' = shift + 1
  /\ UNCHANGED <<attempt, running, able, waiting, answers, window, rung, minted, mishaps>>

WindowSeesShift ==
  LET w == Fresh(window.draft + 1, shift) IN
  /\ window.shift < shift
  /\ window' = w /\ answers' = Append(answers, Discover(w))
  /\ UNCHANGED <<attempt, running, able, shift, waiting, rung, minted, mishaps>>

(* The window reloads, or the till dies and is started again.              *)
ReloadWindow ==
  LET w == Fresh(window.draft + 1, shift) IN
  /\ \/ Mishap("reload") /\ UNCHANGED running
     \/ Mishap("crash") /\ running' = {}
  /\ window' = w /\ answers' = <<Discover(w)>> /\ waiting' = [k \in Key |-> <<>>]
  /\ UNCHANGED <<attempt, able, shift, rung, minted>>

(* The cashier leaves the page and comes back: the store stays.            *)
ReturnToPage ==
  /\ Mishap("return") /\ answers' = Append(answers, Discover(window))
  /\ UNCHANGED <<attempt, running, able, shift, waiting, window, rung, minted>>

(* An answer the window cannot read.                                       *)
LoseAnswer ==
  /\ answers # <<>> /\ Mishap("lost")
  /\ answers' = <<[Head(answers) EXCEPT !.says = "error"]>> \o Tail(answers)
  /\ UNCHANGED <<attempt, running, able, shift, waiting, window, rung, minted>>

(* The company is reported inactive, and active again.                     *)
ContextFails ==
  /\ able /\ Mishap("away") /\ able' = FALSE
  /\ UNCHANGED <<attempt, running, shift, waiting, answers, window, rung, minted>>

ContextReturns ==
  /\ ~able /\ able' = TRUE
  /\ UNCHANGED <<attempt, running, shift, waiting, answers, window, rung, minted, mishaps>>

CheckoutNext ==
  \/ RingUp \/ (\E items \in SUBSET Item : Remove(items))
  \/ PressComplete \/ PressRetry \/ PressAbandon \/ (\E k \in Key : PressAcknowledge(k))
  \/ (\E k \in Key : AttemptEnds(k))
  \/ TakeAnswer \/ AskAgain \/ StopAsking
  \/ ShiftMoves \/ WindowSeesShift \/ ReloadWindow \/ ReturnToPage \/ LoseAnswer
  \/ ContextFails \/ ContextReturns

CheckoutSpec == CheckoutInit /\ [][CheckoutNext]_checkoutVars

-----------------------------------------------------------------------------
(* What the window was told has been the truth: every answer reached it,   *)
(* and none denied an attempt that is claimed.                             *)
Informed == mishaps \cap {"lost", "away", "unrecorded"} = {}

(* Nothing is sold twice: whatever the cashier pressed and whatever was    *)
(* answered late, no line is in two sales.                                 *)
SoldOnce ==
  Informed => \A j, k \in Key :
    j # k /\ attempt[j].state \in Sold /\ attempt[k].state \in Sold =>
      attempt[j].items \cap attempt[k].items = {}

(* A cart whose lines the main process holds in a claimed attempt is       *)
(* locked and shows exactly those lines.                                   *)
CartFrozen ==
  Informed => \A k \in Key :
    attempt[k].state = "claimed" /\ attempt[k].items \cap window.cart # {} =>
      Protected(window) /\ window.cart = attempt[k].items
=============================================================================
