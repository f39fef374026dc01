------------------------------ MODULE Refunds ------------------------------
(***************************************************************************)
(* Refunding a sale that the server holds.  A cashier reviews a refund of  *)
(* one line of the invoice against a fresh reading of the server, submits  *)
(* it, and the frozen request is sent under a key of its own, as often as  *)
(* it takes to learn the outcome.  Other tills refund the same line.       *)
(* Amounts follow the rule R4: what has been refunded so far is always the *)
(* entitlement of the quantity refunded so far.                            *)
(***************************************************************************)
EXTENDS Integers, FiniteSets

CONSTANTS
  Cashiers,
  SoldLines,     \* the invoice lines a behaviour may start from
  MaxReviews,    \* bound: previews asked for
  MaxSends,      \* bound: dispatches of one refund
  MaxMistakes    \* bound: lost answers, denials, crashes, failed writes

Mode == {"none", "inclusive", "exclusive"}

(* A line of an invoice: some quantity (in thousandths), amounts in the    *)
(* smallest unit of the currency, no more tax than total.                  *)
ASSUME RefundAssumption ==
  /\ MaxReviews \in Nat /\ MaxSends \in Nat \ {0} /\ MaxMistakes \in Nat
  /\ \A l \in SoldLines :
       /\ l \in [quantity : Nat \ {0}, total : Nat, tax : Nat, discount : Nat, mode : Mode]
       /\ l.tax <= l.total

NoCashier == "nobody"
ASSUME CashierAssumption == NoCashier \notin Cashiers

VARIABLES
  bought,    \* the invoice line as sold
  booked,    \* server: what has been refunded of it
  keys,      \* server: the refunds of this till it holds
  review,    \* previews: being read, retained in memory, or gone
  refund,    \* local_refunds and their only item
  wire,      \* requests that may still reach the server
  awaited,   \* refunds whose dispatch awaits an answer, in this process
  told,      \* the answer that has reached it
  cashier,   \* the session
  mistakes

server     == <<bought, booked, keys>>
refundVars == <<server, review, refund, wire, awaited, told, cashier, mistakes>>

Id      == 1 .. MaxReviews \* a preview, and the refund made of it
Amounts == [quantity : Nat, total : Nat, tax : Nat, discount : Nat, subtotal : Nat]
Nothing == [quantity |-> 0, total |-> 0, tax |-> 0, discount |-> 0, subtotal |-> 0]

Open  == {"prepared", "dispatched", "unresolved", "conflict"}
State == Open \cup {"none", "accepted", "rejected", "cancelled"}

Review     == [stage : {"none", "reading", "held", "gone"}, by : Cashiers \cup {NoCashier},
               prior : Amounts, amounts : Amounts]
Row        == [state : State, prior : Nat, amounts : Amounts, sent : 0 .. MaxSends]
AnswerKind == {"none", "accepted", "rejected", "conflict", "unknown"}

NoReview   == [stage |-> "none", by |-> NoCashier, prior |-> Nothing, amounts |-> Nothing]
NoRefund   == [state |-> "none", prior |-> 0, amounts |-> Nothing, sent |-> 0]

RefundTypeOK ==
  /\ bought \in SoldLines /\ booked \in Amounts /\ keys \in SUBSET Id
  /\ review \in [Id -> Review] /\ refund \in [Id -> Row]
  /\ wire \in SUBSET (Id \X (1 .. MaxSends)) /\ awaited \in SUBSET Id
  /\ told \in [Id -> AnswerKind] /\ cashier \in Cashiers \cup {NoCashier}
  /\ mistakes \in 0 .. MaxMistakes

RefundInit ==
  /\ bought \in SoldLines /\ booked = Nothing /\ keys = {}
  /\ review = [i \in Id |-> NoReview] /\ refund = [i \in Id |-> NoRefund]
  /\ wire = {} /\ awaited = {} /\ told = [i \in Id |-> "none"]
  /\ cashier \in Cashiers /\ mistakes = 0

Errs == mistakes < MaxMistakes /\ mistakes' = mistakes + 1

-----------------------------------------------------------------------------
(* R4.  The share of an amount that n of the quantity sold is entitled to, *)
(* rounded half up.                                                        *)
Prorate(amount, n) == (amount * n + bought.quantity \div 2) \div bought.quantity

AtLeastZero(x) == IF x > 0 THEN x ELSE 0
Least(x, y)    == IF x < y THEN x ELSE y

(* Mutant: the share of this refund's quantity alone.                      *)
RefundLine_Alone(prior, n) ==
  LET tax == Prorate(bought.tax, n)
  IN  [quantity |-> n, total |-> Prorate(bought.total, n), tax |-> tax,
       discount |-> Prorate(bought.discount, n),
       subtotal |-> Prorate(bought.total, n) + Prorate(bought.discount, n)
                      - (IF bought.mode = "exclusive" THEN tax ELSE 0)]

(* calculateRefundLine: the entitlement of everything refunded afterwards, *)
(* less what was refunded before.                                          *)
RefundLine(prior, n) ==
  LET upTo     == prior.quantity + n
      total    == AtLeastZero(Prorate(bought.total, upTo) - prior.total)
      tax      == AtLeastZero(Least(Prorate(bought.tax, upTo) - prior.tax, total))
      discount == AtLeastZero(Prorate(bought.discount, upTo) - prior.discount)
      taxable  == total - (IF bought.mode = "exclusive" THEN tax ELSE 0)
  IN  [quantity |-> n, total |-> total, tax |-> tax, discount |-> discount,
       subtotal |-> taxable + discount]

Added(a, b) == [f \in DOMAIN Nothing |-> a[f] + b[f]]

-----------------------------------------------------------------------------
(* previewRefund up to its await; the owner is captured here.              *)
AskPreview(i, n) ==
  /\ cashier # NoCashier /\ review[i].stage = "none"
  /\ \A j \in 1 .. i - 1 : review[j].stage # "none"
  /\ review' = [review EXCEPT ![i] = [NoReview EXCEPT !.stage = "reading", !.by = cashier,
                                                       !.amounts.quantity = n]]
  /\ UNCHANGED <<server, refund, wire, awaited, told, cashier, mistakes>>

(* The rest of previewRefund.  What the server has read for it may be out  *)
(* of date by then, as a retained preview always may.  Another cashier, a  *)
(* quantity no more refundable and a refund of nothing are refused.        *)
RetainPreview(i) ==
  LET p    == review[i]
      line == RefundLine(booked, p.amounts.quantity)
      kept == /\ p.by = cashier
              /\ booked.quantity + p.amounts.quantity <= bought.quantity
              /\ line.total > 0
  IN  /\ p.stage = "reading"
      /\ review' = [review EXCEPT ![i] = IF kept
                       THEN [stage |-> "held", by |-> p.by, prior |-> booked, amounts |-> line]
                       ELSE [NoReview EXCEPT !.stage = "gone"]]
      /\ UNCHANGED <<server, refund, wire, awaited, told, cashier, mistakes>>

(* A reading that fails, and a preview that is evicted or abandoned.       *)
DropPreview(i) ==
  /\ review[i].stage \in {"reading", "held"}
  /\ review' = [review EXCEPT ![i] = [NoReview EXCEPT !.stage = "gone"]]
  /\ UNCHANGED <<server, refund, wire, awaited, told, cashier, mistakes>>

-----------------------------------------------------------------------------
(* claimForDispatch and the send.                                          *)
Dispatch(i, row) ==
  /\ row.sent < MaxSends
  /\ refund' = [refund EXCEPT ![i] = [row EXCEPT !.state = "dispatched", !.sent = @ + 1]]
  /\ wire' = wire \cup {<<i, row.sent + 1>>} /\ awaited' = awaited \cup {i}
  /\ told' = [told EXCEPT ![i] = "none"]

NoneOpen == \A i \in Id : refund[i].state \notin Open

Prepared(i) == [state |-> "prepared", prior |-> review[i].prior.quantity,
                amounts |-> review[i].amounts, sent |-> 0]

(* submitRefund: the preview of this cashier becomes a row, in a write of  *)
(* its own, and is dispatched.                                             *)
Submit(i) ==
  /\ review[i].stage = "held" /\ cashier # NoCashier /\ review[i].by = cashier /\ NoneOpen
  /\ review' = [review EXCEPT ![i] = [NoReview EXCEPT !.stage = "gone"]]
  /\ Dispatch(i, Prepared(i))
  /\ UNCHANGED <<server, cashier, mistakes>>

(* The claim fails, or the process dies before it.                         *)
SubmitInterrupted(i) ==
  /\ review[i].stage = "held" /\ cashier # NoCashier /\ review[i].by = cashier /\ NoneOpen /\ Errs
  /\ review' = [review EXCEPT ![i] = [NoReview EXCEPT !.stage = "gone"]]
  /\ refund' = [refund EXCEPT ![i] = Prepared(i)]
  /\ UNCHANGED <<server, wire, awaited, told, cashier>>

(* resumeRefund: by any cashier of the company, without a new reading.     *)
ResumeRefund(i) ==
  /\ cashier # NoCashier /\ refund[i].state \in {"unresolved", "prepared"}
  /\ Dispatch(i, refund[i])
  /\ UNCHANGED <<server, review, cashier, mistakes>>

(* cancelIfPrepared.                                                       *)
CancelPrepared(i) ==
  /\ refund[i].state = "prepared" /\ refund[i].sent = 0
  /\ refund' = [refund EXCEPT ![i].state = "cancelled"]
  /\ UNCHANGED <<server, review, wire, awaited, told, cashier, mistakes>>

-----------------------------------------------------------------------------
(* External: the server takes a request off the wire.  It answers what it  *)
(* holds under the key, refuses a calculation made on another quantity,    *)
(* or books what it is asked to; a copy of it still being processed is a   *)
(* conflict.  An answer reaches the dispatch that awaits this very send.   *)
Tell(c, answer) ==
  told' = IF c[1] \in awaited /\ c[2] = refund[c[1]].sent /\ told[c[1]] = "none"
          THEN [told EXCEPT ![c[1]] = answer] ELSE told

Serve(c) ==
  /\ c \in wire /\ wire' = wire \ {c}
  /\ \/ /\ c[1] \in keys
        /\ Tell(c, "accepted") /\ UNCHANGED <<booked, keys>>
     \/ /\ c[1] \notin keys /\ refund[c[1]].prior # booked.quantity
        /\ Tell(c, "rejected") /\ UNCHANGED <<booked, keys>>
     \/ /\ c[1] \notin keys /\ refund[c[1]].prior = booked.quantity
        /\ booked' = Added(booked, refund[c[1]].amounts) /\ keys' = keys \cup {c[1]}
        /\ Tell(c, "accepted")
  /\ UNCHANGED <<bought, review, refund, awaited, cashier, mistakes>>

(* It answers 409 while another copy is on its way, denies access, or      *)
(* loses the request.                                                      *)
ServeWithoutReading(c) ==
  /\ c \in wire /\ wire' = wire \ {c} /\ Errs
  /\ \/ (\E other \in wire \ {c} : other[1] = c[1]) /\ Tell(c, "conflict")
     \/ Tell(c, "unknown")
     \/ UNCHANGED told
  /\ UNCHANGED <<server, review, refund, awaited, cashier>>

(* Another till refunds n of the same line.                                *)
RefundElsewhere(n) ==
  /\ booked.quantity + n <= bought.quantity /\ RefundLine(booked, n).total > 0
  /\ booked' = Added(booked, RefundLine(booked, n))
  /\ UNCHANGED <<bought, keys, review, refund, wire, awaited, told, cashier, mistakes>>

-----------------------------------------------------------------------------
(* Mutant: a denial is taken for the refusal of the refund.                *)
SettledAs_DenialRefuses(answer) ==
  CASE answer = "accepted" -> "accepted"
    [] answer = "conflict" -> "conflict"
    [] OTHER               -> "rejected"

(* uploadRefund: what an answer says of the refund.  Silence, a denial and *)
(* an unreadable success prove nothing.                                    *)
SettledAs(answer) ==
  CASE answer = "accepted" -> "accepted"
    [] answer = "rejected" -> "rejected"
    [] answer = "conflict" -> "conflict"
    [] OTHER               -> "unresolved"

SettleRefund(i, answer) ==
  /\ i \in awaited
  /\ refund' = [refund EXCEPT ![i].state = SettledAs(answer)]
  /\ awaited' = awaited \ {i} /\ told' = [told EXCEPT ![i] = "none"]

Answered(i) ==
  /\ told[i] # "none" /\ SettleRefund(i, told[i])
  /\ UNCHANGED <<server, review, wire, cashier, mistakes>>

(* The client gives up, or cannot read what it was told; the request may   *)
(* still arrive.                                                           *)
TimesOut(i) ==
  /\ Errs /\ SettleRefund(i, "unknown")
  /\ UNCHANGED <<server, review, wire, cashier>>

(* The outcome cannot be written: the row stays dispatched.                *)
SettleFails(i) ==
  /\ Errs /\ i \in awaited
  /\ awaited' = awaited \ {i} /\ told' = [told EXCEPT ![i] = "none"]
  /\ UNCHANGED <<server, review, refund, wire, cashier>>

-----------------------------------------------------------------------------
(* Killed and started again.  What was dispatched becomes unresolved if a  *)
(* session is there to say whose it is.                                    *)
RestartTill ==
  /\ Errs
  /\ review' = [i \in Id |-> IF review[i].stage = "none" THEN NoReview
                                                         ELSE [NoReview EXCEPT !.stage = "gone"]]
  /\ awaited' = {} /\ told' = [i \in Id |-> "none"]
  /\ refund' = [i \in Id |-> IF refund[i].state = "dispatched" /\ cashier # NoCashier
                             THEN [refund[i] EXCEPT !.state = "unresolved"] ELSE refund[i]]
  /\ UNCHANGED <<server, wire, cashier>>

ChangeCashier ==
  /\ cashier' \in IF cashier = NoCashier THEN Cashiers ELSE {NoCashier}
  /\ UNCHANGED <<server, review, refund, wire, awaited, told, mistakes>>

RefundNext ==
  \/ \E i \in Id, n \in 1 .. bought.quantity : AskPreview(i, n)
  \/ \E i \in Id : RetainPreview(i) \/ DropPreview(i)
  \/ \E i \in Id : Submit(i) \/ SubmitInterrupted(i) \/ ResumeRefund(i) \/ CancelPrepared(i)
  \/ \E c \in wire : Serve(c) \/ ServeWithoutReading(c)
  \/ \E n \in 1 .. bought.quantity : RefundElsewhere(n)
  \/ \E i \in Id : Answered(i) \/ TimesOut(i) \/ SettleFails(i)
  \/ RestartTill \/ ChangeCashier

RefundSpec == RefundInit /\ [][RefundNext]_refundVars

-----------------------------------------------------------------------------
(* What a row says of a refund is true at the server, now and later: an    *)
(* accepted refund was made, and a rejected, cancelled or prepared one was *)
(* not and will not be, whatever copies of it are still on their way.  The *)
(* cashier pays out cash on the first and starts over on the second.       *)
RefundsAgree ==
  \A i \in Id :
    /\ refund[i].state = "accepted" => i \in keys
    /\ refund[i].state \in {"prepared", "rejected", "cancelled"} => i \notin keys

(* However a line is refunded, in whatever portions, by whatever tills and *)
(* on whatever readings: never more money, tax or discount is returned     *)
(* than was sold, and a line refunded to the end has returned all of them. *)
MoneyConserved ==
  /\ booked.total <= bought.total /\ booked.tax <= bought.tax
  /\ booked.discount <= bought.discount /\ booked.quantity <= bought.quantity
  /\ booked.quantity = bought.quantity =>
       booked.total = bought.total /\ booked.tax = bought.tax /\ booked.discount = bought.discount
=============================================================================
