--------------------------- MODULE CounterProofs ---------------------------
(***************************************************************************)
(* Proofs about refunds and the preparation of stock sold offline.         *)
(*                                                                         *)
(* Refunds: for any invoice lines, cashiers and any number of reviews,     *)
(* sends and mistakes, what a row says of a refund is true at the server.  *)
(*                                                                         *)
(* Preparation: no stock is asked for twice.  NoBlindRequest is not        *)
(* inductive: what an operation ended with must be true at the server, and *)
(* stay true while late answers and late requests still arrive.            *)
(*                                                                         *)
(* Last, the scenes at the counter side by side: each keeps its types.     *)
(***************************************************************************)
EXTENDS MCCounter, CheckoutProofs, CatalogInstallProofs, TLAPS

-----------------------------------------------------------------------------
-----------------------------------------------------------------------------
(* Refunds.                                                                *)

(* Types.                                                                  *)

LEMMA LineTypes ==
  ASSUME bought \in SoldLines
  PROVE  /\ bought.quantity \in Nat \ {0}
         /\ bought.total \in Nat /\ bought.tax \in Nat /\ bought.discount \in Nat
  BY RefundAssumption

(* A share of an amount is an amount.                                      *)
LEMMA ShareIsInt ==
  ASSUME bought \in SoldLines, NEW amount \in Nat, NEW n \in Nat
  PROVE  Prorate(amount, n) \in Int
<1>1. bought.quantity \in Nat \ {0} BY LineTypes
<1>2. amount * n \in Nat OBVIOUS
<1>3. bought.quantity \div 2 \in Int BY <1>1
<1>4. \A x \in Int, y \in Nat \ {0} : x \div y \in Int OBVIOUS
<1>. QED BY <1>1, <1>2, <1>3, <1>4 DEF Prorate

(* R4 yields amounts, however the line was refunded before.                *)
LEMMA LineIsAmounts ==
  ASSUME bought \in SoldLines, NEW prior \in Amounts, NEW n \in Nat
  PROVE  RefundLine(prior, n) \in Amounts
<1>. DEFINE upTo     == prior.quantity + n
            total    == AtLeastZero(Prorate(bought.total, upTo) - prior.total)
            tax      == AtLeastZero(Least(Prorate(bought.tax, upTo) - prior.tax, total))
            discount == AtLeastZero(Prorate(bought.discount, upTo) - prior.discount)
<1>1. prior.quantity \in Nat /\ prior.total \in Nat /\ prior.tax \in Nat /\ prior.discount \in Nat
  BY DEF Amounts
<1>2. upTo \in Nat BY <1>1
<1>3. /\ Prorate(bought.total, upTo) \in Int /\ Prorate(bought.tax, upTo) \in Int
      /\ Prorate(bought.discount, upTo) \in Int
  BY <1>2, LineTypes, ShareIsInt
<1>. HIDE DEF upTo
<1>4. total \in Nat /\ discount \in Nat BY <1>1, <1>3 DEF AtLeastZero
<1>5. tax \in Nat /\ tax <= total BY <1>1, <1>3, <1>4 DEF AtLeastZero, Least
<1>. HIDE DEF total, tax, discount
<1>6. total - (IF bought.mode = "exclusive" THEN tax ELSE 0) + discount \in Nat
  BY <1>4, <1>5
<1>. QED BY <1>4, <1>5, <1>6 DEF RefundLine, Amounts, upTo, total, tax, discount

(* Amounts add up to amounts, field by field.                              *)
LEMMA SumIsAmounts ==
  ASSUME NEW a \in Amounts, NEW b \in Amounts
  PROVE  /\ Added(a, b) \in Amounts
         /\ Added(a, b).quantity = a.quantity + b.quantity
<1>1. DOMAIN Nothing = {"quantity", "total", "tax", "discount", "subtotal"} BY DEF Nothing
<1>2. Added(a, b) = [quantity |-> a.quantity + b.quantity, total |-> a.total + b.total,
                     tax |-> a.tax + b.tax, discount |-> a.discount + b.discount,
                     subtotal |-> a.subtotal + b.subtotal]
  BY <1>1 DEF Added
<1>. QED BY <1>2 DEF Amounts

-----------------------------------------------------------------------------
(* The invariant.                                                          *)

(* A request on its way is one the row counts.                             *)
SentIsCounted == \A c \in wire : c[2] <= refund[c[1]].sent

(* An answer is awaited, and told, only of what was sent.                  *)
AwaitedWasSent ==
  \A i \in Id : i \in awaited \/ told[i] # "none" => refund[i].sent > 0

(* A refund that was not sent is not at the server.                        *)
UnsentIsUnknown ==
  \A i \in Id : refund[i].state \in {"none", "prepared", "cancelled"} =>
                  refund[i].sent = 0 /\ i \notin keys

(* A review still open has no refund.                                      *)
OpenReviewHasNoRow ==
  \A i \in Id : review[i].stage # "gone" => refund[i].state = "none"

(* What is told or settled as accepted is booked.                          *)
AcceptedIsBooked ==
  \A i \in Id : "accepted" \in {told[i], refund[i].state} => i \in keys

(* What is told or settled as rejected was made on a quantity the server   *)
(* has left behind for good.                                               *)
RejectedIsPast ==
  \A i \in Id : "rejected" \in {told[i], refund[i].state} =>
                  i \notin keys /\ refund[i].prior < booked.quantity

(* No reading is ahead of the server.                                      *)
ReadingsArePast ==
  \A i \in Id : /\ refund[i].prior <= booked.quantity
                /\ review[i].stage = "held" => review[i].prior.quantity <= booked.quantity

RefundInv ==
  /\ RefundTypeOK
  /\ SentIsCounted /\ AwaitedWasSent /\ UnsentIsUnknown /\ OpenReviewHasNoRow
  /\ AcceptedIsBooked /\ RejectedIsPast /\ ReadingsArePast

(* It holds at first.                                                      *)
LEMMA RefundInvInit == RefundInit => RefundInv
<1>. SUFFICES ASSUME RefundInit PROVE RefundInv OBVIOUS
<1>. USE DEF RefundInit, NoReview, NoRefund, Nothing
<1>1. Nothing \in Amounts BY DEF Amounts
<1>2. NoReview \in Review BY <1>1 DEF Review
<1>3. NoRefund \in Row BY <1>1, RefundAssumption DEF Row, State, Open
<1>4. RefundTypeOK
  BY <1>1, <1>2, <1>3, RefundAssumption DEF RefundTypeOK, AnswerKind
<1>5. SentIsCounted /\ AwaitedWasSent BY DEF SentIsCounted, AwaitedWasSent
<1>6. UnsentIsUnknown /\ OpenReviewHasNoRow BY DEF UnsentIsUnknown, OpenReviewHasNoRow
<1>7. AcceptedIsBooked /\ RejectedIsPast BY DEF AcceptedIsBooked, RejectedIsPast
<1>8. ReadingsArePast BY DEF ReadingsArePast
<1>. QED BY <1>4, <1>5, <1>6, <1>7, <1>8 DEF RefundInv

-----------------------------------------------------------------------------
(* The actions, by what they leave alone.                                  *)

(* The server books n more: its quantity does not decrease.                *)
LEMMA BookedGrows ==
  ASSUME RefundInv, NEW a \in Amounts, booked' = Added(booked, a)
  PROVE  booked' \in Amounts /\ booked'.quantity >= booked.quantity
<1>1. booked \in Amounts BY DEF RefundInv, RefundTypeOK
<1>2. booked' \in Amounts /\ booked'.quantity = booked.quantity + a.quantity BY <1>1, SumIsAmounts
<1>. QED BY <1>1, <1>2 DEF Amounts

(* Previews: only reviews change, and a review that stays open was open.   *)
LEMMA ReviewsKeepInv ==
  ASSUME RefundInv, NEW i \in Id, NEW r \in Review,
         review' = [review EXCEPT ![i] = r], review[i].stage # "gone",
         r.stage = "held" => r.prior.quantity <= booked.quantity,
         UNCHANGED <<server, refund, wire, awaited, told, cashier, mistakes>>
  PROVE  RefundInv'
<1>. USE DEF RefundInv, server
<1>1. RefundTypeOK' BY DEF RefundTypeOK
<1>2. SentIsCounted' /\ AwaitedWasSent' BY DEF SentIsCounted, AwaitedWasSent
<1>3. UnsentIsUnknown' BY DEF UnsentIsUnknown
<1>4. OpenReviewHasNoRow'
  <2>1. \A j \in Id : review'[j].stage # "gone" => review[j].stage # "gone" BY DEF RefundTypeOK
  <2>. QED BY <2>1 DEF OpenReviewHasNoRow
<1>5. AcceptedIsBooked' /\ RejectedIsPast' BY DEF AcceptedIsBooked, RejectedIsPast
<1>6. ReadingsArePast'
  <2>1. \A j \in Id : review'[j] = IF j = i THEN r ELSE review[j] BY DEF RefundTypeOK
  <2>. QED BY <2>1 DEF ReadingsArePast
<1>. QED BY <1>1, <1>2, <1>3, <1>4, <1>5, <1>6

(* One row changes, none of what a row promises to the server's side being *)
(* at stake: its readings stand, its sends do not decrease, its review is  *)
(* gone.                                                                   *)
LEMMA RowKeepsInv ==
  ASSUME RefundInv, NEW i \in Id, NEW row \in Row,
         refund' = [refund EXCEPT ![i] = row],
         told' \in [Id -> AnswerKind], \A j \in Id : told'[j] = told[j] \/ told'[j] = "none",
         review' \in [Id -> Review], review'[i].stage = "gone",
         \A j \in Id : review'[j] = review[j] \/ review'[j].stage = "gone",
         wire' \in SUBSET (Id \X (1 .. MaxSends)), awaited' \in SUBSET Id,
         \A c \in wire' : c \in wire \/ (c[1] = i /\ c[2] <= row.sent),
         \A j \in awaited' : j \in awaited \/ (j = i /\ row.sent > 0),
         row.sent >= refund[i].sent, row.prior <= booked.quantity,
         told'[i] = "rejected" => row.prior = refund[i].prior,
         row.state \in {"none", "prepared", "cancelled"} => row.sent = 0 /\ i \notin keys,
         row.state = "accepted" => i \in keys,
         row.state = "rejected" => i \notin keys /\ row.prior < booked.quantity,
         UNCHANGED <<server, cashier>>, mistakes' \in 0 .. MaxMistakes
  PROVE  RefundInv'
<1>. USE DEF RefundInv, server
<1>1. RefundTypeOK' BY DEF RefundTypeOK, AnswerKind
<1>2. \A j \in Id : refund'[j] = IF j = i THEN row ELSE refund[j] BY DEF RefundTypeOK
<1>3. /\ row.sent \in Nat /\ row.prior \in Nat /\ booked.quantity \in Nat
      /\ \A j \in Id : refund[j].sent \in Nat /\ refund[j].prior \in Nat
  BY RefundAssumption DEF RefundTypeOK, Row, Amounts
<1>4. SentIsCounted'
  <2>. SUFFICES ASSUME NEW c \in wire' PROVE c[2] <= refund'[c[1]].sent BY DEF SentIsCounted
  <2>1. c[1] \in Id /\ c[2] \in Nat BY RefundAssumption
  <2>2. CASE c \in wire BY <1>2, <1>3, <2>1, <2>2 DEF SentIsCounted
  <2>3. CASE c[1] = i /\ c[2] <= row.sent BY <1>2, <2>3
  <2>. QED BY <2>2, <2>3
<1>5. AwaitedWasSent' BY <1>2, <1>3 DEF AwaitedWasSent
<1>6. UnsentIsUnknown' BY <1>2 DEF UnsentIsUnknown
<1>7. OpenReviewHasNoRow' BY <1>2 DEF OpenReviewHasNoRow
<1>8. AcceptedIsBooked' BY <1>2 DEF AcceptedIsBooked
<1>9. RejectedIsPast' BY <1>2 DEF RejectedIsPast
<1>10. ReadingsArePast'
  BY <1>2 DEF ReadingsArePast
<1>. QED BY <1>1, <1>4, <1>5, <1>6, <1>7, <1>8, <1>9, <1>10

(* Nothing but the server's side changes, and the tills are told the truth. *)
LEMMA ServerKeepsInv ==
  ASSUME RefundInv, UNCHANGED <<bought, review, refund, cashier>>,
         wire' \subseteq wire, awaited' \subseteq awaited,
         booked' \in Amounts, booked'.quantity >= booked.quantity,
         keys \subseteq keys', keys' \in SUBSET Id,
         \A i \in keys' \ keys : refund[i].sent > 0 /\ refund[i].prior = booked.quantity,
         told' \in [Id -> AnswerKind],
         \A i \in Id : told'[i] # "none" => told[i] # "none" \/ i \in awaited,
         \A i \in Id : told'[i] = "accepted" => told[i] = "accepted" \/ i \in keys',
         \A i \in Id : told'[i] = "rejected" =>
            told[i] = "rejected" \/ (i \notin keys' /\ refund[i].prior < booked'.quantity),
         mistakes' \in 0 .. MaxMistakes
  PROVE  RefundInv'
<1>. USE DEF RefundInv
<1>1. RefundTypeOK' BY DEF RefundTypeOK
<1>2. /\ booked.quantity \in Nat /\ booked'.quantity \in Nat
      /\ \A i \in Id : refund[i].sent \in Nat /\ refund[i].prior \in Nat
      /\ \A i \in Id : review[i].prior.quantity \in Nat
  BY RefundAssumption DEF RefundTypeOK, Row, Review, Amounts
<1>3. SentIsCounted' /\ AwaitedWasSent' BY DEF SentIsCounted, AwaitedWasSent
<1>4. UnsentIsUnknown' BY <1>2 DEF UnsentIsUnknown
<1>5. OpenReviewHasNoRow' BY DEF OpenReviewHasNoRow
<1>6. AcceptedIsBooked' BY DEF AcceptedIsBooked
<1>7. RejectedIsPast' BY <1>2 DEF RejectedIsPast
<1>8. ReadingsArePast' BY <1>2 DEF ReadingsArePast
<1>. QED BY <1>1, <1>3, <1>4, <1>5, <1>6, <1>7, <1>8

(* Who is told what.                                                       *)
LEMMA ToldIsAnswer ==
  ASSUME RefundInv, NEW c \in wire, NEW answer \in AnswerKind, Tell(c, answer)
  PROVE  /\ told' \in [Id -> AnswerKind]
         /\ \A j \in Id : told'[j] = told[j]
                         \/ (j = c[1] /\ j \in awaited /\ told'[j] = answer)
  BY DEF RefundInv, RefundTypeOK, Tell

-----------------------------------------------------------------------------
(* Each action keeps the invariant.                                        *)

LEMMA GoneIsReview ==
  [NoReview EXCEPT !.stage = "gone"] \in Review /\ [NoReview EXCEPT !.stage = "gone"].stage = "gone"
  BY DEF NoReview, Nothing, Review, Amounts

LEMMA AskPreviewKeepsInv ==
  ASSUME RefundInv, NEW i \in Id, NEW n \in Nat, AskPreview(i, n)
  PROVE  RefundInv'
<1>. DEFINE r == [NoReview EXCEPT !.stage = "reading", !.by = cashier, !.amounts.quantity = n]
<1>1. r \in Review /\ r.stage = "reading"
  BY DEF NoReview, Nothing, Review, Amounts, RefundInv, RefundTypeOK
<1>2. review' = [review EXCEPT ![i] = r] BY DEF AskPreview
<1>. HIDE DEF r
<1>. QED BY <1>1, <1>2, ReviewsKeepInv DEF AskPreview

LEMMA RetainPreviewKeepsInv ==
  ASSUME RefundInv, NEW i \in Id, RetainPreview(i)
  PROVE  RefundInv'
<1>. DEFINE line == RefundLine(booked, review[i].amounts.quantity)
            kept == [stage |-> "held", by |-> review[i].by, prior |-> booked, amounts |-> line]
            gone == [NoReview EXCEPT !.stage = "gone"]
<1>1. bought \in SoldLines /\ booked \in Amounts /\ review[i] \in Review
  BY DEF RefundInv, RefundTypeOK
<1>2. line \in Amounts BY <1>1, LineIsAmounts DEF Review, Amounts
<1>3. kept \in Review /\ kept.prior.quantity <= booked.quantity BY <1>1, <1>2 DEF Review, Amounts
<1>4. gone \in Review /\ gone.stage = "gone" BY GoneIsReview
<1>5. /\ review[i].stage # "gone" /\ UNCHANGED <<server, refund, wire, awaited, told, cashier, mistakes>>
      /\ review' = [review EXCEPT ![i] = kept] \/ review' = [review EXCEPT ![i] = gone]
  BY DEF RetainPreview
<1>. HIDE DEF kept, gone, line
<1>. QED BY <1>3, <1>4, <1>5, ReviewsKeepInv

LEMMA DropPreviewKeepsInv ==
  ASSUME RefundInv, NEW i \in Id, DropPreview(i)
  PROVE  RefundInv'
  BY GoneIsReview, ReviewsKeepInv DEF DropPreview

(* A dispatch of a row that may be sent.                                   *)
LEMMA DispatchKeepsInv ==
  ASSUME RefundInv, NEW i \in Id, NEW row \in Row, Dispatch(i, row),
         row.sent >= refund[i].sent, row.prior <= booked.quantity,
         review' \in [Id -> Review], review'[i].stage = "gone",
         \A j \in Id : review'[j] = review[j] \/ review'[j].stage = "gone",
         UNCHANGED <<server, cashier, mistakes>>
  PROVE  RefundInv'
<1>. DEFINE out == [row EXCEPT !.state = "dispatched", !.sent = @ + 1]
<1>1. row.sent \in 0 .. MaxSends /\ row.sent < MaxSends /\ row.prior \in Nat BY DEF Dispatch, Row
<1>2. /\ out \in Row /\ out.state = "dispatched"
      /\ out.sent = row.sent + 1 /\ out.prior = row.prior
  <2>1. row.sent + 1 \in 0 .. MaxSends /\ "dispatched" \in State
    BY <1>1, RefundAssumption DEF State, Open
  <2>2. out = [state |-> "dispatched", prior |-> row.prior, amounts |-> row.amounts,
               sent |-> row.sent + 1]
    <3>1. DOMAIN row = {"state", "prior", "amounts", "sent"} BY DEF Row
    <3>2. DOMAIN out = DOMAIN row OBVIOUS
    <3>3. /\ out["state"] = "dispatched" /\ out["prior"] = row.prior
          /\ out["amounts"] = row.amounts /\ out["sent"] = row.sent + 1
      BY <3>1
    <3>4. out = [f \in DOMAIN row |-> out[f]] BY <3>2
    <3>. HIDE DEF out
    <3>. QED BY <3>1, <3>3, <3>4
  <2>3. row.prior \in Nat /\ row.amounts \in Amounts BY DEF Row
  <2>. HIDE DEF out
  <2>. QED BY <2>1, <2>2, <2>3 DEF Row
<1>3. refund' = [refund EXCEPT ![i] = out] BY DEF Dispatch
<1>. HIDE DEF out
<1>4. refund[i].sent \in Nat BY RefundAssumption DEF RefundInv, RefundTypeOK, Row
<1>5. out.sent > 0 /\ out.sent >= refund[i].sent BY <1>1, <1>2, <1>4, RefundAssumption
<1>6. row.sent + 1 \in 1 .. MaxSends BY <1>1, RefundAssumption
<1>7. wire' \in SUBSET (Id \X (1 .. MaxSends)) /\ awaited' \in SUBSET Id
  BY <1>6 DEF Dispatch, RefundInv, RefundTypeOK
<1>8. /\ \A c \in wire' : c \in wire \/ (c[1] = i /\ c[2] <= out.sent)
      /\ \A j \in awaited' : j \in awaited \/ (j = i /\ out.sent > 0)
  BY <1>1, <1>2, <1>5 DEF Dispatch
<1>9. /\ told' \in [Id -> AnswerKind] /\ told'[i] = "none"
      /\ \A j \in Id : told'[j] = told[j] \/ told'[j] = "none"
  BY DEF Dispatch, RefundInv, RefundTypeOK, AnswerKind
<1>10. mistakes' \in 0 .. MaxMistakes BY DEF RefundInv, RefundTypeOK
<1>. QED BY <1>2, <1>3, <1>5, <1>7, <1>8, <1>9, <1>10, RowKeepsInv

(* What a held preview becomes.                                            *)
LEMMA PreparedIsRow ==
  ASSUME RefundInv, NEW i \in Id, review[i].stage = "held"
  PROVE  /\ Prepared(i) \in Row /\ Prepared(i).state = "prepared" /\ Prepared(i).sent = 0
         /\ Prepared(i).prior <= booked.quantity
         /\ refund[i].state = "none" /\ refund[i].sent = 0 /\ i \notin keys
<1>1. review[i] \in Review BY DEF RefundInv, RefundTypeOK
<1>2. Prepared(i) \in Row
  BY <1>1, RefundAssumption DEF Prepared, Row, Review, Amounts, State, Open
<1>3. Prepared(i).prior <= booked.quantity BY DEF Prepared, RefundInv, ReadingsArePast
<1>4. refund[i].state = "none" BY DEF RefundInv, OpenReviewHasNoRow
<1>. QED BY <1>2, <1>3, <1>4 DEF Prepared, RefundInv, UnsentIsUnknown

LEMMA SubmitKeepsInv ==
  ASSUME RefundInv, NEW i \in Id, Submit(i)
  PROVE  RefundInv'
<1>1. /\ Prepared(i) \in Row /\ Prepared(i).sent >= refund[i].sent
      /\ Prepared(i).prior <= booked.quantity
  BY PreparedIsRow DEF Submit
<1>2. /\ UNCHANGED <<server, cashier, mistakes>>
      /\ review' \in [Id -> Review] /\ review'[i].stage = "gone"
      /\ \A j \in Id : review'[j] = review[j] \/ review'[j].stage = "gone"
  BY GoneIsReview DEF Submit, RefundInv, RefundTypeOK
<1>. QED BY <1>1, <1>2, DispatchKeepsInv DEF Submit

LEMMA SubmitInterruptedKeepsInv ==
  ASSUME RefundInv, NEW i \in Id, SubmitInterrupted(i)
  PROVE  RefundInv'
<1>. DEFINE row == Prepared(i)
<1>1. /\ row \in Row /\ row.state = "prepared" /\ row.sent = 0 /\ row.prior <= booked.quantity
      /\ refund[i].state = "none" /\ refund[i].sent = 0 /\ i \notin keys
  BY PreparedIsRow DEF SubmitInterrupted
<1>2. told[i] = "none" /\ i \notin awaited
  BY <1>1 DEF RefundInv, AwaitedWasSent
<1>3. refund' = [refund EXCEPT ![i] = row]
      /\ review' = [review EXCEPT ![i] = [NoReview EXCEPT !.stage = "gone"]]
      /\ UNCHANGED <<server, wire, awaited, told, cashier>>
  BY DEF SubmitInterrupted
<1>4. /\ wire' \in SUBSET (Id \X (1 .. MaxSends)) /\ awaited' \in SUBSET Id
      /\ mistakes' \in 0 .. MaxMistakes
  BY <1>3, RefundAssumption DEF SubmitInterrupted, Errs, RefundInv, RefundTypeOK
<1>. HIDE DEF row
<1>5. /\ told' \in [Id -> AnswerKind] /\ \A j \in Id : told'[j] = told[j] \/ told'[j] = "none"
      /\ review' \in [Id -> Review] /\ review'[i].stage = "gone"
      /\ \A j \in Id : review'[j] = review[j] \/ review'[j].stage = "gone"
      /\ UNCHANGED <<server, cashier>>
  BY <1>3, GoneIsReview DEF RefundInv, RefundTypeOK
<1>6. /\ \A c \in wire' : c \in wire \/ (c[1] = i /\ c[2] <= row.sent)
      /\ \A j \in awaited' : j \in awaited \/ (j = i /\ row.sent > 0)
      /\ row.sent >= refund[i].sent /\ row.prior <= booked.quantity
      /\ told'[i] = "rejected" => row.prior = refund[i].prior
      /\ row.state \in {"none", "prepared", "cancelled"} => row.sent = 0 /\ i \notin keys
      /\ row.state = "accepted" => i \in keys
      /\ row.state = "rejected" => i \notin keys /\ row.prior < booked.quantity
  BY <1>1, <1>2, <1>3
<1>. QED BY <1>1, <1>3, <1>4, <1>5, <1>6, RowKeepsInv

LEMMA ResumeRefundKeepsInv ==
  ASSUME RefundInv, NEW i \in Id, ResumeRefund(i)
  PROVE  RefundInv'
<1>1. refund[i] \in Row /\ refund[i].sent \in Nat
  BY RefundAssumption DEF RefundInv, RefundTypeOK, Row
<1>2. refund[i].prior <= booked.quantity BY DEF RefundInv, ReadingsArePast
<1>3. /\ review[i].stage = "gone" /\ UNCHANGED <<review, server, cashier, mistakes>>
      /\ review \in [Id -> Review]
  BY DEF ResumeRefund, RefundInv, RefundTypeOK, OpenReviewHasNoRow
<1>4. Dispatch(i, refund[i]) BY DEF ResumeRefund
<1>. QED BY <1>1, <1>2, <1>3, <1>4, DispatchKeepsInv

LEMMA CancelPreparedKeepsInv ==
  ASSUME RefundInv, NEW i \in Id, CancelPrepared(i)
  PROVE  RefundInv'
<1>. DEFINE row == [refund[i] EXCEPT !.state = "cancelled"]
<1>1. refund[i] \in Row /\ refund[i].sent \in Nat
  BY RefundAssumption DEF RefundInv, RefundTypeOK, Row
<1>2. /\ row \in Row /\ row.state = "cancelled" /\ row.sent = refund[i].sent
      /\ row.prior = refund[i].prior
  BY <1>1 DEF Row, State, Open
<1>3. refund[i].prior <= booked.quantity BY DEF RefundInv, ReadingsArePast
<1>4. review[i].stage = "gone" /\ UNCHANGED <<review, server, cashier, mistakes, wire, awaited, told>>
  BY DEF CancelPrepared, RefundInv, OpenReviewHasNoRow
<1>5. refund' = [refund EXCEPT ![i] = row] BY DEF CancelPrepared
<1>6. row.sent = 0 /\ i \notin keys
  BY <1>2 DEF CancelPrepared, RefundInv, UnsentIsUnknown
<1>. HIDE DEF row
<1>7. /\ wire' \in SUBSET (Id \X (1 .. MaxSends)) /\ awaited' \in SUBSET Id
      /\ mistakes' \in 0 .. MaxMistakes
  BY <1>4 DEF RefundInv, RefundTypeOK
<1>8. /\ told' \in [Id -> AnswerKind] /\ \A j \in Id : told'[j] = told[j] \/ told'[j] = "none"
      /\ review' \in [Id -> Review] /\ review'[i].stage = "gone"
      /\ \A j \in Id : review'[j] = review[j] \/ review'[j].stage = "gone"
      /\ UNCHANGED <<server, cashier>>
  BY <1>4 DEF RefundInv, RefundTypeOK
<1>9. /\ \A c \in wire' : c \in wire \/ (c[1] = i /\ c[2] <= row.sent)
      /\ \A j \in awaited' : j \in awaited \/ (j = i /\ row.sent > 0)
      /\ row.sent >= refund[i].sent /\ row.prior <= booked.quantity
      /\ told'[i] = "rejected" => row.prior = refund[i].prior
      /\ row.state \in {"none", "prepared", "cancelled"} => row.sent = 0 /\ i \notin keys
      /\ row.state = "accepted" => i \in keys
      /\ row.state = "rejected" => i \notin keys /\ row.prior < booked.quantity
  BY <1>1, <1>2, <1>3, <1>4, <1>6
<1>. QED BY <1>2, <1>5, <1>7, <1>8, <1>9, RowKeepsInv

LEMMA ServeKeepsInv ==
  ASSUME RefundInv, NEW c \in wire, Serve(c)
  PROVE  RefundInv'
<1>1. /\ c[1] \in Id /\ booked \in Amounts /\ keys \in SUBSET Id /\ mistakes \in 0 .. MaxMistakes
      /\ refund[c[1]] \in Row /\ {"accepted", "rejected"} \subseteq AnswerKind
  BY DEF RefundInv, RefundTypeOK, AnswerKind
<1>2. /\ refund[c[1]].sent > 0 /\ refund[c[1]].prior <= booked.quantity
      /\ refund[c[1]].prior \in Nat /\ booked.quantity \in Nat
  <2>1. c[2] \in Nat \ {0} BY RefundAssumption DEF RefundInv, RefundTypeOK
  <2>2. c[2] <= refund[c[1]].sent /\ refund[c[1]].sent \in Nat
    BY <1>1, RefundAssumption DEF RefundInv, SentIsCounted, Row
  <2>. QED BY <1>1, <2>1, <2>2 DEF RefundInv, ReadingsArePast, Row, Amounts
<1>3. wire' \subseteq wire /\ UNCHANGED <<bought, review, refund, awaited, cashier, mistakes>>
  BY DEF Serve
<1>4. CASE c[1] \in keys /\ Tell(c, "accepted") /\ UNCHANGED <<booked, keys>>
  BY <1>1, <1>2, <1>3, <1>4, ToldIsAnswer, ServerKeepsInv
<1>5. CASE /\ c[1] \notin keys /\ refund[c[1]].prior # booked.quantity
           /\ Tell(c, "rejected") /\ UNCHANGED <<booked, keys>>
  BY <1>1, <1>2, <1>3, <1>5, ToldIsAnswer, ServerKeepsInv
<1>6. CASE /\ c[1] \notin keys /\ refund[c[1]].prior = booked.quantity
           /\ booked' = Added(booked, refund[c[1]].amounts) /\ keys' = keys \cup {c[1]}
           /\ Tell(c, "accepted")
  <2>1. booked' \in Amounts /\ booked'.quantity >= booked.quantity
    BY <1>1, <1>6, BookedGrows DEF Row
  <2>2. booked'.quantity \in Nat BY <2>1 DEF Amounts
  <2>3. \A i \in Id : told'[i] = "rejected" => told[i] = "rejected" BY <1>1, <1>6, ToldIsAnswer
  <2>. QED BY <1>1, <1>2, <1>3, <1>6, <2>1, <2>2, <2>3, ToldIsAnswer, ServerKeepsInv
<1>. QED BY <1>4, <1>5, <1>6 DEF Serve

LEMMA ServeWithoutReadingKeepsInv ==
  ASSUME RefundInv, NEW c \in wire, ServeWithoutReading(c)
  PROVE  RefundInv'
<1>1. /\ booked' \in Amounts /\ booked'.quantity >= booked.quantity /\ keys' = keys
      /\ keys' \in SUBSET Id /\ told \in [Id -> AnswerKind]
      /\ {"conflict", "unknown"} \subseteq AnswerKind
  BY DEF ServeWithoutReading, server, RefundInv, RefundTypeOK, AnswerKind, Amounts
<1>2. /\ wire' \subseteq wire /\ UNCHANGED <<bought, review, refund, awaited, cashier>>
      /\ mistakes' \in 0 .. MaxMistakes
  BY RefundAssumption DEF ServeWithoutReading, server, Errs, RefundInv, RefundTypeOK
<1>3. Tell(c, "conflict") \/ Tell(c, "unknown") \/ told' = told BY DEF ServeWithoutReading
<1>4. /\ told' \in [Id -> AnswerKind]
      /\ \A j \in Id : \/ told'[j] = told[j]
                       \/ j \in awaited /\ told'[j] \in {"conflict", "unknown"}
  BY <1>1, <1>3, ToldIsAnswer
<1>. QED BY <1>1, <1>2, <1>4, ServerKeepsInv

LEMMA RefundElsewhereKeepsInv ==
  ASSUME RefundInv, NEW n \in Nat, RefundElsewhere(n)
  PROVE  RefundInv'
<1>1. RefundLine(booked, n) \in Amounts BY LineIsAmounts DEF RefundInv, RefundTypeOK
<1>2. booked' \in Amounts /\ booked'.quantity >= booked.quantity
  BY <1>1, BookedGrows DEF RefundElsewhere
<1>3. /\ UNCHANGED <<bought, keys, review, refund, wire, awaited, told, cashier, mistakes>>
      /\ keys \in SUBSET Id /\ told \in [Id -> AnswerKind] /\ mistakes \in 0 .. MaxMistakes
  BY DEF RefundElsewhere, RefundInv, RefundTypeOK
<1>. QED BY <1>2, <1>3, ServerKeepsInv

(* What an answer, or the lack of one, settles.                            *)
LEMMA AnswersSettle ==
  ASSUME NEW answer \in AnswerKind \ {"none"}
  PROVE  /\ SettledAs(answer) \in {"accepted", "rejected", "conflict", "unresolved"}
         /\ SettledAs(answer) = "accepted" => answer = "accepted"
         /\ SettledAs(answer) = "rejected" => answer = "rejected"
  BY DEF SettledAs

(* An awaited refund is settled, as accepted or rejected only if so told.  *)
LEMMA SettleKeepsInv ==
  ASSUME RefundInv, NEW i \in Id, i \in awaited,
         NEW st \in {"accepted", "rejected", "conflict", "unresolved"},
         st = "accepted" => told[i] = "accepted", st = "rejected" => told[i] = "rejected",
         refund' = [refund EXCEPT ![i].state = st],
         awaited' = awaited \ {i}, told' = [told EXCEPT ![i] = "none"],
         UNCHANGED <<server, review, wire, cashier>>, mistakes' \in 0 .. MaxMistakes
  PROVE  RefundInv'
<1>. DEFINE row == [refund[i] EXCEPT !.state = st]
<1>1. refund[i] \in Row /\ refund[i].sent \in Nat
  BY RefundAssumption DEF RefundInv, RefundTypeOK, Row
<1>2. /\ st = "accepted" => told[i] = "accepted"
      /\ st = "rejected" => told[i] = "rejected"
  OBVIOUS
<1>3. /\ row \in Row /\ row.state = st /\ row.sent = refund[i].sent
      /\ row.prior = refund[i].prior
  BY <1>1 DEF Row, State, Open
<1>4. /\ refund[i].prior <= booked.quantity
      /\ told[i] = "accepted" => i \in keys
      /\ told[i] = "rejected" => i \notin keys /\ refund[i].prior < booked.quantity
  BY DEF RefundInv, ReadingsArePast, AcceptedIsBooked, RejectedIsPast
<1>5. refund[i].sent > 0 BY DEF RefundInv, AwaitedWasSent
<1>6. review[i].stage = "gone"
  BY <1>5 DEF RefundInv, OpenReviewHasNoRow, UnsentIsUnknown
<1>7. /\ refund' = [refund EXCEPT ![i] = row] /\ awaited' \subseteq awaited
      /\ told' = [told EXCEPT ![i] = "none"]
  OBVIOUS
<1>. HIDE DEF row
<1>8. wire' \in SUBSET (Id \X (1 .. MaxSends)) /\ awaited' \in SUBSET Id
  BY <1>7 DEF RefundInv, RefundTypeOK
<1>9. /\ told' \in [Id -> AnswerKind] /\ \A j \in Id : told'[j] = told[j] \/ told'[j] = "none"
      /\ review' \in [Id -> Review] /\ review'[i].stage = "gone"
      /\ \A j \in Id : review'[j] = review[j] \/ review'[j].stage = "gone"
      /\ UNCHANGED <<server, cashier>>
  BY <1>6, <1>7 DEF RefundInv, RefundTypeOK, AnswerKind
<1>10. /\ \A c \in wire' : c \in wire \/ (c[1] = i /\ c[2] <= row.sent)
       /\ \A j \in awaited' : j \in awaited \/ (j = i /\ row.sent > 0)
       /\ row.sent >= refund[i].sent /\ row.prior <= booked.quantity
       /\ told'[i] = "rejected" => row.prior = refund[i].prior
       /\ row.state \in {"none", "prepared", "cancelled"} => row.sent = 0 /\ i \notin keys
       /\ row.state = "accepted" => i \in keys
       /\ row.state = "rejected" => i \notin keys /\ row.prior < booked.quantity
  BY <1>1, <1>2, <1>3, <1>4, <1>7
<1>. QED BY <1>3, <1>7, <1>8, <1>9, <1>10, RowKeepsInv

LEMMA SettleFailsKeepsInv ==
  ASSUME RefundInv, NEW i \in Id, SettleFails(i)
  PROVE  RefundInv'
<1>1. /\ UNCHANGED <<server, review, refund, wire, cashier>> /\ awaited' \subseteq awaited
      /\ told' = [told EXCEPT ![i] = "none"]
  BY DEF SettleFails
<1>2. /\ booked' \in Amounts /\ booked'.quantity >= booked.quantity /\ keys' = keys
      /\ keys' \in SUBSET Id /\ told' \in [Id -> AnswerKind] /\ mistakes' \in 0 .. MaxMistakes
      /\ \A j \in Id : told'[j] = told[j] \/ told'[j] = "none"
  BY <1>1, RefundAssumption
     DEF SettleFails, Errs, server, RefundInv, RefundTypeOK, AnswerKind, Amounts
<1>. QED BY <1>1, <1>2, ServerKeepsInv DEF server

LEMMA RestartTillKeepsInv ==
  ASSUME RefundInv, RestartTill
  PROVE  RefundInv'
<1>. USE DEF RefundInv
<1>1. UNCHANGED <<bought, booked, keys, wire, cashier>> /\ awaited' = {} /\ told' = [i \in Id |-> "none"]
  BY DEF RestartTill, server
<1>2. \A i \in Id : /\ refund'[i] \in Row /\ refund'[i].sent = refund[i].sent
                    /\ refund'[i].prior = refund[i].prior
                    /\ refund'[i].state \in {refund[i].state, "unresolved"}
                    /\ refund[i].state = "none" => refund'[i].state = "none"
  BY DEF RestartTill, RefundTypeOK, Row, State, Open
<1>3. \A i \in Id : /\ review'[i] \in Review /\ review'[i].stage \in {"none", "gone"}
                    /\ review'[i].stage = "none" => review[i].stage = "none"
  BY GoneIsReview DEF RestartTill, RefundTypeOK, Review, NoReview, Nothing, Amounts
<1>4. RefundTypeOK'
  <2>1. refund' \in [Id -> Row] BY <1>2 DEF RestartTill
  <2>2. review' \in [Id -> Review] BY <1>3 DEF RestartTill
  <2>3. mistakes' \in 0 .. MaxMistakes
    BY RefundAssumption DEF RestartTill, Errs, RefundTypeOK
  <2>4. told' \in [Id -> AnswerKind] BY <1>1 DEF AnswerKind
  <2>. QED BY <1>1, <2>1, <2>2, <2>3, <2>4 DEF RefundTypeOK
<1>5. SentIsCounted'
  <2>. SUFFICES ASSUME NEW c \in wire PROVE c[2] <= refund'[c[1]].sent BY <1>1 DEF SentIsCounted
  <2>. QED BY <1>2 DEF SentIsCounted, RefundTypeOK
<1>6. AwaitedWasSent' BY <1>1 DEF AwaitedWasSent
<1>7. UnsentIsUnknown' BY <1>1, <1>2 DEF UnsentIsUnknown
<1>8. OpenReviewHasNoRow' BY <1>2, <1>3 DEF OpenReviewHasNoRow
<1>9. AcceptedIsBooked' BY <1>1, <1>2 DEF AcceptedIsBooked
<1>10. RejectedIsPast' BY <1>1, <1>2 DEF RejectedIsPast
<1>11. ReadingsArePast' BY <1>1, <1>2, <1>3 DEF ReadingsArePast
<1>. QED BY <1>4, <1>5, <1>6, <1>7, <1>8, <1>9, <1>10, <1>11

LEMMA ChangeCashierKeepsInv ==
  ASSUME RefundInv, ChangeCashier
  PROVE  RefundInv'
<1>. USE DEF RefundInv
<1>1. cashier' \in Cashiers \cup {NoCashier}
      /\ UNCHANGED <<server, review, refund, wire, awaited, told, mistakes>>
  BY DEF ChangeCashier, RefundTypeOK
<1>2. RefundTypeOK' BY <1>1 DEF RefundTypeOK, server
<1>3. SentIsCounted' /\ AwaitedWasSent' BY <1>1 DEF SentIsCounted, AwaitedWasSent
<1>4. UnsentIsUnknown' /\ OpenReviewHasNoRow'
  BY <1>1 DEF UnsentIsUnknown, OpenReviewHasNoRow, server
<1>5. AcceptedIsBooked' /\ RejectedIsPast' /\ ReadingsArePast'
  BY <1>1 DEF AcceptedIsBooked, RejectedIsPast, ReadingsArePast, server
<1>. QED BY <1>2, <1>3, <1>4, <1>5

-----------------------------------------------------------------------------
(* The invariant of the specification.                                     *)

LEMMA RefundInvStep == RefundInv /\ [RefundNext]_refundVars => RefundInv'
<1>. SUFFICES ASSUME RefundInv, [RefundNext]_refundVars PROVE RefundInv' OBVIOUS
<1>1. 1 .. bought.quantity \subseteq Nat BY LineTypes DEF RefundInv, RefundTypeOK
<1>2. CASE \E i \in Id, n \in 1 .. bought.quantity : AskPreview(i, n)
  BY <1>1, <1>2, AskPreviewKeepsInv
<1>3. CASE \E i \in Id : RetainPreview(i) \/ DropPreview(i)
  BY <1>3, RetainPreviewKeepsInv, DropPreviewKeepsInv
<1>4. CASE \E i \in Id : Submit(i) \/ SubmitInterrupted(i)
  BY <1>4, SubmitKeepsInv, SubmitInterruptedKeepsInv
<1>5. CASE \E i \in Id : ResumeRefund(i) \/ CancelPrepared(i)
  BY <1>5, ResumeRefundKeepsInv, CancelPreparedKeepsInv
<1>6. CASE \E c \in wire : Serve(c) \/ ServeWithoutReading(c)
  BY <1>6, ServeKeepsInv, ServeWithoutReadingKeepsInv
<1>7. CASE \E n \in 1 .. bought.quantity : RefundElsewhere(n)
  BY <1>1, <1>7, RefundElsewhereKeepsInv
<1>8. ASSUME NEW i \in Id, Answered(i) PROVE RefundInv'
  <2>1. told[i] \in AnswerKind \ {"none"} /\ mistakes' \in 0 .. MaxMistakes
    BY <1>8 DEF Answered, RefundInv, RefundTypeOK
  <2>. QED BY <1>8, <2>1, AnswersSettle, SettleKeepsInv DEF Answered, SettleRefund
<1>9. ASSUME NEW i \in Id, TimesOut(i) PROVE RefundInv'
  <2>1. "unknown" \in AnswerKind \ {"none"} /\ mistakes' \in 0 .. MaxMistakes
    BY <1>9, RefundAssumption DEF TimesOut, Errs, RefundInv, RefundTypeOK, AnswerKind
  <2>. QED BY <1>9, <2>1, AnswersSettle, SettleKeepsInv DEF TimesOut, SettleRefund
<1>10. CASE \E i \in Id : SettleFails(i) BY <1>10, SettleFailsKeepsInv
<1>11. CASE RestartTill BY <1>11, RestartTillKeepsInv
<1>12. CASE ChangeCashier BY <1>12, ChangeCashierKeepsInv
<1>13. CASE UNCHANGED refundVars
  BY <1>13 DEF refundVars, server, RefundInv, RefundTypeOK, SentIsCounted, AwaitedWasSent,
     UnsentIsUnknown, OpenReviewHasNoRow, AcceptedIsBooked, RejectedIsPast, ReadingsArePast
<1>. QED
  BY <1>2, <1>3, <1>4, <1>5, <1>6, <1>7, <1>8, <1>9, <1>10, <1>11, <1>12, <1>13 DEF RefundNext

(* Every variable of the refunds keeps its type, R4's amounts included.    *)
THEOREM RefundsTyped == RefundSpec => []RefundTypeOK
<1>1. RefundInv => RefundTypeOK BY DEF RefundInv
<1>. QED BY <1>1, RefundInvInit, RefundInvStep, PTL DEF RefundSpec

(* A refund the till calls accepted was made at the server, and one it     *)
(* calls prepared, rejected or cancelled was not, whatever is lost, late,  *)
(* retried, or refunded by others in between.                              *)
THEOREM RefundsTruthful == RefundSpec => []RefundsAgree
<1>1. RefundInv => RefundsAgree
  BY DEF RefundInv, UnsentIsUnknown, AcceptedIsBooked, RejectedIsPast, RefundsAgree
<1>. QED BY <1>1, RefundInvInit, RefundInvStep, PTL DEF RefundSpec

-----------------------------------------------------------------------------
(* R4 conserves.                                                           *)

LEMMA Division ==
  ASSUME NEW x \in Nat, NEW q \in Nat \ {0}
  PROVE  x \div q \in Nat /\ q * (x \div q) <= x /\ x < q * (x \div q) + q
  BY SMTT(60)

(* A share lies within half a unit of the exact one.                       *)
LEMMA ShareBounds ==
  ASSUME bought \in SoldLines, NEW amount \in Nat, NEW n \in Nat
  PROVE  /\ Prorate(amount, n) \in Nat
         /\ bought.quantity * Prorate(amount, n) <= amount * n + bought.quantity \div 2
         /\ amount * n + bought.quantity \div 2
              < bought.quantity * Prorate(amount, n) + bought.quantity
<1>1. bought.quantity \in Nat \ {0} BY LineTypes
<1>2. bought.quantity \div 2 \in Nat BY <1>1
<1>3. amount * n + bought.quantity \div 2 \in Nat BY <1>2
<1>. QED BY <1>1, <1>3, Division DEF Prorate

(* Multiplying and comparing integers.                                     *)
LEMMA Products ==
  ASSUME NEW x \in Nat, NEW y \in Nat, NEW z \in Nat, x <= y
  PROVE  z * x <= z * y /\ x * z <= y * z
  OBVIOUS

LEMMA Quotients ==
  ASSUME NEW x \in Int, NEW y \in Int, NEW q \in Nat \ {0}, q * x < q * y + q
  PROVE  x <= y
<1>. SUFFICES ASSUME x >= y + 1 PROVE FALSE OBVIOUS
<1>1. q * x >= q * (y + 1) OBVIOUS
<1>2. q * (y + 1) = q * y + q OBVIOUS
<1>. QED BY <1>1, <1>2

(* The share grows with the quantity.                                      *)
LEMMA ShareGrows ==
  ASSUME bought \in SoldLines, NEW amount \in Nat, NEW n \in Nat, NEW m \in Nat, n <= m
  PROVE  Prorate(amount, n) <= Prorate(amount, m)
<1>. DEFINE q == bought.quantity
            h == bought.quantity \div 2
            x == Prorate(amount, n)
            y == Prorate(amount, m)
<1>1. q \in Nat \ {0} /\ h \in Nat BY LineTypes
<1>2. x \in Nat /\ q * x <= amount * n + h BY ShareBounds
<1>3. y \in Nat /\ amount * m + h < q * y + q BY ShareBounds
<1>4. amount * n <= amount * m BY Products
<1>5. amount * n \in Nat /\ amount * m \in Nat /\ q * x \in Nat /\ q * y \in Nat BY <1>1, <1>2, <1>3
<1>. HIDE DEF q, h, x, y
<1>6. q * x < q * y + q BY <1>1, <1>2, <1>3, <1>4, <1>5
<1>7. x <= y BY <1>1, <1>2, <1>3, <1>6, Quotients
<1>. QED BY <1>7 DEF x, y

(* The share of nothing is nothing, that of the whole is the amount.       *)
LEMMA ShareEnds ==
  ASSUME bought \in SoldLines, NEW amount \in Nat
  PROVE  Prorate(amount, 0) = 0 /\ Prorate(amount, bought.quantity) = amount
<1>. DEFINE q == bought.quantity
            h == bought.quantity \div 2
            x == Prorate(amount, 0)
            y == Prorate(amount, bought.quantity)
<1>1. q \in Nat \ {0} /\ h \in Nat /\ h < q BY LineTypes
<1>2. x \in Nat /\ q * x <= amount * 0 + h BY ShareBounds
<1>3. y \in Nat /\ q * y <= amount * q + h /\ amount * q + h < q * y + q BY <1>1, ShareBounds
<1>4. amount * q = q * amount /\ q * amount \in Nat /\ q * x \in Nat /\ q * y \in Nat /\ amount * 0 = 0
  BY <1>1, <1>2, <1>3
<1>5. q * 0 = 0 BY <1>1
<1>. HIDE DEF q, h, x, y
<1>6. q * x < q * 0 + q /\ q * y < q * amount + q /\ q * amount < q * y + q
  BY <1>1, <1>2, <1>3, <1>4, <1>5
<1>7. x <= 0 /\ y <= amount /\ amount <= y BY <1>1, <1>2, <1>3, <1>6, Quotients
<1>8. x = 0 /\ y = amount BY <1>2, <1>3, <1>7
<1>. QED BY <1>8 DEF x, y, q

(* What is left of the greater of two amounts stays the greater.           *)
LEMMA SharesKeepApart ==
  ASSUME bought \in SoldLines, NEW n \in Nat, n <= bought.quantity,
         NEW a \in Nat, NEW b \in Nat, b <= a
  PROVE  Prorate(a, n) - Prorate(b, n) <= a - b
<1>. DEFINE q == bought.quantity
            h == bought.quantity \div 2
            x == Prorate(a, n)
            y == Prorate(b, n)
<1>1. q \in Nat \ {0} /\ h \in Nat /\ n <= q BY LineTypes
<1>2. x \in Nat /\ q * x <= a * n + h BY ShareBounds
<1>3. y \in Nat /\ b * n + h < q * y + q BY ShareBounds
<1>. HIDE DEF q, h, x, y
<1>4. a - b \in Nat OBVIOUS
<1>5. (a - b) * n <= (a - b) * q BY <1>1, <1>4, Products
<1>6. (a - b) * n = a * n - b * n /\ (a - b) * q = q * (a - b) BY <1>1
<1>7. a * n \in Nat /\ b * n \in Nat /\ q * x \in Nat /\ q * y \in Nat /\ q * (a - b) \in Nat
  BY <1>1, <1>2, <1>3, <1>4
<1>8. q * x < q * y + q + q * (a - b) BY <1>1, <1>2, <1>3, <1>5, <1>6, <1>7
<1>9. q * (y + (a - b)) = q * y + q * (a - b) BY <1>1, <1>3, <1>4
<1>10. q * x < q * (y + (a - b)) + q BY <1>1, <1>7, <1>8, <1>9
<1>11. x <= y + (a - b) BY <1>1, <1>2, <1>3, <1>4, <1>10, Quotients
<1>12. x - y <= a - b BY <1>2, <1>3, <1>4, <1>11
<1>. QED BY <1>12 DEF x, y

(* What has been refunded is what the quantity refunded is entitled to;    *)
(* tax may lag behind it, but never by more than the money left to return. *)
Entitled(b) ==
  /\ b.quantity <= bought.quantity
  /\ b.total = Prorate(bought.total, b.quantity)
  /\ b.discount = Prorate(bought.discount, b.quantity)
  /\ b.tax <= Prorate(bought.tax, b.quantity)
  /\ b.total - b.tax <= bought.total - bought.tax

LEMMA NothingIsEntitled ==
  ASSUME bought \in SoldLines
  PROVE  Entitled(Nothing)
  BY LineTypes, ShareEnds, RefundAssumption DEF Entitled, Nothing

(* R4 leads from one entitlement to the next.                              *)
LEMMA LineIsEntitled ==
  ASSUME bought \in SoldLines, NEW b \in Amounts, Entitled(b),
         NEW n \in Nat, b.quantity + n <= bought.quantity
  PROVE  Entitled(Added(b, RefundLine(b, n)))
<1>. DEFINE k     == b.quantity + n
            total == Prorate(bought.total, k)
            disc  == Prorate(bought.discount, k)
            tax   == Prorate(bought.tax, k)
            line  == RefundLine(b, n)
            sum   == Added(b, line)
<1>1. /\ b.quantity \in Nat /\ b.total \in Nat /\ b.tax \in Nat /\ b.discount \in Nat
      /\ k \in Nat /\ b.quantity <= k /\ k <= bought.quantity
  BY DEF Amounts
<1>2. total \in Nat /\ disc \in Nat /\ tax \in Nat BY <1>1, LineTypes, ShareBounds
<1>3. b.total <= total /\ b.discount <= disc BY <1>1, LineTypes, ShareGrows DEF Entitled
<1>4. b.tax <= tax
  <2>1. Prorate(bought.tax, b.quantity) <= tax /\ Prorate(bought.tax, b.quantity) \in Nat
    BY <1>1, LineTypes, ShareGrows, ShareBounds
  <2>2. b.tax <= Prorate(bought.tax, b.quantity) BY DEF Entitled
  <2>. HIDE DEF tax
  <2>. QED BY <1>1, <1>2, <2>1, <2>2
<1>5. total - tax <= bought.total - bought.tax
  BY <1>1, LineTypes, RefundAssumption, SharesKeepApart
<1>6. /\ line \in Amounts /\ sum \in Amounts
      /\ sum.quantity = b.quantity + line.quantity /\ sum.total = b.total + line.total
      /\ sum.tax = b.tax + line.tax /\ sum.discount = b.discount + line.discount
  <2>1. line \in Amounts BY LineIsAmounts
  <2>2. \A f \in {"quantity", "total", "tax", "discount"} : sum[f] = b[f] + line[f]
    <3>1. {"quantity", "total", "tax", "discount"} \subseteq DOMAIN Nothing BY DEF Nothing
    <3>. HIDE DEF line
    <3>. QED BY <3>1 DEF Added
  <2>. QED BY <2>1, <2>2, SumIsAmounts
<1>7. /\ line.quantity = n /\ line.total = AtLeastZero(total - b.total)
      /\ line.discount = AtLeastZero(disc - b.discount)
      /\ line.tax = AtLeastZero(Least(tax - b.tax, line.total))
  BY DEF RefundLine
<1>. HIDE DEF total, disc, tax, line, sum
<1>8. line.total = total - b.total /\ line.discount = disc - b.discount
  BY <1>1, <1>2, <1>3, <1>7 DEF AtLeastZero
<1>9. /\ b.tax + line.tax <= tax
      /\ line.tax = tax - b.tax \/ line.tax = line.total
  BY <1>1, <1>2, <1>3, <1>7, <1>8, <1>4 DEF AtLeastZero, Least
<1>10. sum.quantity = k /\ sum.total = total /\ sum.discount = disc /\ sum.tax <= tax
  BY <1>1, <1>2, <1>6, <1>7, <1>8, <1>9
<1>11. b.total - b.tax <= bought.total - bought.tax BY DEF Entitled
<1>12. bought.total \in Nat /\ bought.tax \in Nat BY LineTypes
<1>13. sum.total - sum.tax <= bought.total - bought.tax
  BY <1>1, <1>2, <1>5, <1>6, <1>8, <1>9, <1>10, <1>11, <1>12
<1>. QED BY <1>1, <1>10, <1>13 DEF Entitled, total, disc, tax, line, sum

-----------------------------------------------------------------------------
(* The invariant of the money: a calculation made on the quantity the      *)
(* server has now is the one R4 yields there.                              *)

Current(prior, amounts) ==
  prior = booked.quantity =>
    /\ amounts.quantity \in 1 .. bought.quantity - prior
    /\ amounts = RefundLine(booked, amounts.quantity)

CalculationsCurrent ==
  \A i \in Id :
    /\ review[i].stage = "reading" => review[i].amounts.quantity > 0
    /\ review[i].stage = "held" => Current(review[i].prior.quantity, review[i].amounts)
    /\ refund[i].state # "none" => Current(refund[i].prior, refund[i].amounts)

MoneyInv == RefundInv /\ Entitled(booked) /\ CalculationsCurrent

(* No step of the till spoils a calculation.                               *)
LEMMA TillKeepsMoney ==
  ASSUME MoneyInv, UNCHANGED <<bought, booked>>,
         \A i \in Id :
           /\ \/ review'[i] = review[i]
              \/ review'[i].stage \in {"none", "gone"}
              \/ review'[i].stage = "reading" /\ review'[i].amounts.quantity > 0
              \/ /\ review'[i].stage = "held"
                 /\ Current(review'[i].prior.quantity, review'[i].amounts)
           /\ \/ refund[i].state # "none" /\ refund'[i].prior = refund[i].prior
                                          /\ refund'[i].amounts = refund[i].amounts
              \/ refund'[i].state = "none"
              \/ review[i].stage = "held" /\ refund'[i].prior = review[i].prior.quantity
                                          /\ refund'[i].amounts = review[i].amounts
  PROVE  Entitled(booked)' /\ CalculationsCurrent'
<1>. USE DEF MoneyInv
<1>1. Entitled(booked)' BY DEF Entitled, Prorate
<1>2. \A p, a : Current(p, a)' = Current(p, a)
  BY DEF Current, RefundLine, Prorate
<1>3. CalculationsCurrent' BY <1>2 DEF CalculationsCurrent
<1>. QED BY <1>1, <1>3

(* A booking leaves the calculations made before it behind.                *)
LEMMA BookingKeepsMoney ==
  ASSUME MoneyInv, UNCHANGED <<bought, review, refund>>,
         NEW n \in Nat \ {0}, booked.quantity + n <= bought.quantity,
         booked' = Added(booked, RefundLine(booked, n))
  PROVE  Entitled(booked)' /\ CalculationsCurrent'
<1>1. bought \in SoldLines /\ booked \in Amounts BY DEF MoneyInv, RefundInv, RefundTypeOK
<1>2. Entitled(Added(booked, RefundLine(booked, n))) BY <1>1, LineIsEntitled DEF MoneyInv
<1>3. Entitled(booked)' BY <1>2 DEF Entitled, Prorate
<1>4. booked.quantity \in Nat /\ booked'.quantity > booked.quantity
  <2>1. RefundLine(booked, n) \in Amounts /\ RefundLine(booked, n).quantity = n
    BY <1>1, LineIsAmounts DEF RefundLine
  <2>. QED BY <1>1, <2>1, SumIsAmounts DEF Amounts
<1>5. \A i \in Id : /\ refund[i].prior \in Nat /\ refund[i].prior <= booked.quantity
                    /\ review[i].prior.quantity \in Nat
                    /\ review[i].stage = "held" => review[i].prior.quantity <= booked.quantity
  BY DEF MoneyInv, RefundInv, ReadingsArePast, RefundTypeOK, Row, Review, Amounts
<1>6. CalculationsCurrent'
  <2>. SUFFICES ASSUME NEW i \in Id
                PROVE  /\ review[i].stage = "reading" => review[i].amounts.quantity > 0
                       /\ review[i].stage = "held" => review[i].prior.quantity # booked'.quantity
                       /\ refund[i].state # "none" => refund[i].prior # booked'.quantity
    BY DEF CalculationsCurrent, Current
  <2>. QED BY <1>4, <1>5 DEF MoneyInv, CalculationsCurrent
<1>. QED BY <1>3, <1>6

LEMMA MoneyInvInit == RefundInit => MoneyInv
<1>. SUFFICES ASSUME RefundInit PROVE MoneyInv OBVIOUS
<1>1. RefundInv BY RefundInvInit
<1>2. Entitled(booked) BY NothingIsEntitled DEF RefundInit
<1>3. CalculationsCurrent BY DEF RefundInit, NoReview, NoRefund, CalculationsCurrent
<1>. QED BY <1>1, <1>2, <1>3 DEF MoneyInv

(* The previews.                                                           *)
LEMMA PreviewsKeepMoney ==
  ASSUME MoneyInv, NEW i \in Id,
         \/ \E n \in 1 .. bought.quantity : AskPreview(i, n)
         \/ RetainPreview(i) \/ DropPreview(i)
  PROVE  Entitled(booked)' /\ CalculationsCurrent'
<1>1. /\ bought \in SoldLines /\ booked \in Amounts /\ booked.quantity \in Nat
      /\ review \in [Id -> Review] /\ review[i].amounts.quantity \in Nat
  BY DEF MoneyInv, RefundInv, RefundTypeOK, Review, Amounts
<1>2. CASE \E n \in 1 .. bought.quantity : AskPreview(i, n)
  <2>1. PICK n \in 1 .. bought.quantity : AskPreview(i, n) BY <1>2
  <2>. DEFINE r == [NoReview EXCEPT !.stage = "reading", !.by = cashier, !.amounts.quantity = n]
  <2>2. r.stage = "reading" /\ r.amounts.quantity = n BY DEF NoReview, Nothing
  <2>3. review' = [review EXCEPT ![i] = r] BY <2>1 DEF AskPreview
  <2>4. UNCHANGED <<bought, booked, refund>> BY <2>1 DEF AskPreview, server
  <2>5. n > 0 BY <1>1, <2>1, LineTypes
  <2>. HIDE DEF r
  <2>6. \A j \in Id : review'[j] = review[j]
                        \/ (review'[j].stage = "reading" /\ review'[j].amounts.quantity > 0)
    BY <1>1, <2>2, <2>3, <2>5
  <2>. QED BY <2>4, <2>6, TillKeepsMoney
<1>3. CASE RetainPreview(i)
  <2>. DEFINE n    == review[i].amounts.quantity
              line == RefundLine(booked, n)
              held == [stage |-> "held", by |-> review[i].by, prior |-> booked, amounts |-> line]
  <2>1. n > 0 BY <1>3 DEF RetainPreview, MoneyInv, CalculationsCurrent
  <2>2. line.quantity = n BY DEF RefundLine
  <2>3. UNCHANGED <<bought, booked, refund>> BY <1>3 DEF RetainPreview, server
  <2>4. CASE /\ booked.quantity + n <= bought.quantity
             /\ review' = [review EXCEPT ![i] = held]
    <3>1. held.stage = "held" /\ held.prior = booked /\ held.amounts = line OBVIOUS
    <3>2. bought.quantity \in Nat BY <1>1, LineTypes
    <3>. HIDE DEF held, line, n
    <3>3. n \in Nat BY <1>1 DEF n
    <3>4. n \in 1 .. bought.quantity - booked.quantity BY <1>1, <2>1, <2>4, <3>2, <3>3
    <3>5. Current(held.prior.quantity, held.amounts)
      BY <2>2, <3>1, <3>4 DEF Current, line
    <3>6. \A j \in Id : review'[j] = review[j] \/ (j = i /\ review'[j] = held) BY <1>1, <2>4
    <3>. QED BY <2>3, <3>1, <3>5, <3>6, TillKeepsMoney
  <2>5. CASE review' = [review EXCEPT ![i] = [NoReview EXCEPT !.stage = "gone"]]
    <3>1. \A j \in Id : review'[j] = review[j] \/ review'[j].stage = "gone"
      BY <1>1, <2>5, GoneIsReview
    <3>. QED BY <2>3, <3>1, TillKeepsMoney
  <2>. QED BY <1>3, <2>4, <2>5 DEF RetainPreview
<1>4. CASE DropPreview(i)
  <2>1. \A j \in Id : review'[j] = review[j] \/ review'[j].stage = "gone"
    BY <1>1, <1>4, GoneIsReview DEF DropPreview
  <2>. QED BY <1>4, <2>1, TillKeepsMoney DEF DropPreview, server
<1>. QED BY <1>2, <1>3, <1>4

(* Submitting, resuming and cancelling.                                    *)
LEMMA SubmissionsKeepMoney ==
  ASSUME MoneyInv, NEW i \in Id,
         Submit(i) \/ SubmitInterrupted(i) \/ ResumeRefund(i) \/ CancelPrepared(i)
  PROVE  Entitled(booked)' /\ CalculationsCurrent'
<1>1. review \in [Id -> Review] /\ refund \in [Id -> Row] BY DEF MoneyInv, RefundInv, RefundTypeOK
<1>2. UNCHANGED <<bought, booked>>
  BY DEF Submit, SubmitInterrupted, ResumeRefund, CancelPrepared, server
<1>3. \A j \in Id : review'[j] = review[j] \/ review'[j].stage = "gone"
  BY <1>1, GoneIsReview DEF Submit, SubmitInterrupted, ResumeRefund, CancelPrepared
<1>4. \A j \in Id : j # i => refund'[j] = refund[j]
  BY <1>1 DEF Submit, SubmitInterrupted, ResumeRefund, CancelPrepared, Dispatch
<1>5. CASE Submit(i) \/ SubmitInterrupted(i)
  <2>1. Prepared(i) \in Row BY <1>5, PreparedIsRow DEF Submit, SubmitInterrupted, MoneyInv
  <2>2. /\ refund'[i].prior = Prepared(i).prior /\ refund'[i].amounts = Prepared(i).amounts
        /\ review[i].stage = "held"
    <3>. DEFINE row == Prepared(i)
                out == [row EXCEPT !.state = "dispatched", !.sent = @ + 1]
    <3>1. out.prior = row.prior /\ out.amounts = row.amounts BY <2>1 DEF Row
    <3>2. refund' = [refund EXCEPT ![i] = out] \/ refund' = [refund EXCEPT ![i] = row]
      BY <1>5 DEF Submit, SubmitInterrupted, Dispatch
    <3>. HIDE DEF row, out
    <3>3. refund'[i] = out \/ refund'[i] = row BY <1>1, <3>2
    <3>4. review[i].stage = "held" BY <1>5 DEF Submit, SubmitInterrupted
    <3>. QED BY <3>1, <3>3, <3>4 DEF row
  <2>3. /\ Prepared(i).prior = review[i].prior.quantity
        /\ Prepared(i).amounts = review[i].amounts
    BY DEF Prepared
  <2>. QED BY <1>2, <1>3, <1>4, <2>2, <2>3, TillKeepsMoney
<1>6. CASE ResumeRefund(i) \/ CancelPrepared(i)
  <2>1. /\ refund'[i].prior = refund[i].prior /\ refund'[i].amounts = refund[i].amounts
        /\ refund[i].state # "none"
    BY <1>1, <1>6 DEF ResumeRefund, CancelPrepared, Dispatch, Row
  <2>. QED BY <1>2, <1>3, <1>4, <2>1, TillKeepsMoney
<1>. QED BY <1>5, <1>6

(* The server, for this till and for others.                               *)
LEMMA BookingsKeepMoney ==
  ASSUME MoneyInv,
         \/ \E c \in wire : Serve(c) \/ ServeWithoutReading(c)
         \/ \E n \in 1 .. bought.quantity : RefundElsewhere(n)
  PROVE  Entitled(booked)' /\ CalculationsCurrent'
<1>1. /\ bought \in SoldLines /\ booked \in Amounts /\ booked.quantity \in Nat
      /\ \A c \in wire : c[1] \in Id /\ c[2] \in Nat \ {0}
      /\ bought.quantity \in Nat
  BY RefundAssumption, LineTypes DEF MoneyInv, RefundInv, RefundTypeOK, Amounts
<1>2. CASE UNCHANGED <<bought, booked, review, refund>> BY <1>2, TillKeepsMoney
<1>3. ASSUME NEW n \in 1 .. bought.quantity, RefundElsewhere(n)
      PROVE  Entitled(booked)' /\ CalculationsCurrent'
  BY <1>1, <1>3, BookingKeepsMoney DEF RefundElsewhere
<1>4. ASSUME NEW c \in wire, Serve(c), booked' # booked
      PROVE  Entitled(booked)' /\ CalculationsCurrent'
  <2>. DEFINE row == refund[c[1]]
  <2>1. /\ row.prior = booked.quantity /\ booked' = Added(booked, row.amounts)
        /\ UNCHANGED <<bought, review, refund>>
    BY <1>4 DEF Serve
  <2>2. row.state # "none"
    <3>1. c[2] <= row.sent /\ row.sent \in Nat
      BY <1>1, RefundAssumption DEF MoneyInv, RefundInv, SentIsCounted, RefundTypeOK, Row
    <3>. QED BY <1>1, <3>1 DEF MoneyInv, RefundInv, UnsentIsUnknown
  <2>3. Current(row.prior, row.amounts) BY <1>1, <2>2 DEF MoneyInv, CalculationsCurrent
  <2>4. /\ row.amounts.quantity \in 1 .. bought.quantity - booked.quantity
        /\ row.amounts = RefundLine(booked, row.amounts.quantity)
    BY <2>1, <2>3 DEF Current
  <2>. HIDE DEF row
  <2>5. /\ row.amounts.quantity \in Nat \ {0}
        /\ booked.quantity + row.amounts.quantity <= bought.quantity
    BY <1>1, <2>4
  <2>6. booked' = Added(booked, RefundLine(booked, row.amounts.quantity)) BY <2>1, <2>4
  <2>. QED BY <2>1, <2>5, <2>6, BookingKeepsMoney
<1>5. ASSUME NEW c \in wire, Serve(c) \/ ServeWithoutReading(c)
      PROVE  (booked' # booked /\ Serve(c)) \/ UNCHANGED <<bought, booked, review, refund>>
  BY <1>5 DEF Serve, ServeWithoutReading, server
<1>. QED BY <1>2, <1>3, <1>4, <1>5

(* Settling, dying and changing cashiers.                                  *)
LEMMA OutcomesKeepMoney ==
  ASSUME MoneyInv,
         \/ \E i \in Id : Answered(i) \/ TimesOut(i) \/ SettleFails(i)
         \/ RestartTill \/ ChangeCashier \/ UNCHANGED refundVars
  PROVE  Entitled(booked)' /\ CalculationsCurrent'
<1>1. /\ refund \in [Id -> Row]
      /\ \A i \in Id : i \in awaited => refund[i].state # "none"
  <2>1. \A i \in Id : refund[i].sent \in Nat
    BY RefundAssumption DEF MoneyInv, RefundInv, RefundTypeOK, Row
  <2>. QED BY <2>1 DEF MoneyInv, RefundInv, AwaitedWasSent, UnsentIsUnknown, RefundTypeOK
<1>2. CASE UNCHANGED <<bought, booked, review, refund>> BY <1>2, TillKeepsMoney
<1>3. ASSUME NEW i \in Id, Answered(i) \/ TimesOut(i)
      PROVE  Entitled(booked)' /\ CalculationsCurrent'
  <2>1. PICK st : refund' = [refund EXCEPT ![i].state = st]
    BY <1>3 DEF Answered, TimesOut, SettleRefund
  <2>2. UNCHANGED <<bought, booked, review>> /\ refund[i].state # "none"
    BY <1>1, <1>3 DEF Answered, TimesOut, SettleRefund, server
  <2>3. \A j \in Id : \/ refund'[j] = refund[j]
                      \/ /\ refund[j].state # "none" /\ refund'[j].prior = refund[j].prior
                         /\ refund'[j].amounts = refund[j].amounts
    BY <1>1, <2>1, <2>2 DEF Row
  <2>. QED BY <2>2, <2>3, TillKeepsMoney
<1>4. CASE RestartTill
  <2>1. \A i \in Id : review'[i].stage \in {"none", "gone"}
    BY <1>4, GoneIsReview DEF RestartTill, NoReview
  <2>2. \A i \in Id : \/ refund'[i] = refund[i]
                      \/ /\ refund[i].state # "none" /\ refund'[i].prior = refund[i].prior
                         /\ refund'[i].amounts = refund[i].amounts
    BY <1>1, <1>4 DEF RestartTill, Row
  <2>. QED BY <1>4, <2>1, <2>2, TillKeepsMoney DEF RestartTill, server
<1>. QED BY <1>2, <1>3, <1>4 DEF SettleFails, ChangeCashier, refundVars, server

LEMMA MoneyInvStep == MoneyInv /\ [RefundNext]_refundVars => MoneyInv'
<1>. SUFFICES ASSUME MoneyInv, [RefundNext]_refundVars PROVE MoneyInv' OBVIOUS
<1>1. RefundInv' BY RefundInvStep DEF MoneyInv
<1>2. Entitled(booked)' /\ CalculationsCurrent'
  BY PreviewsKeepMoney, SubmissionsKeepMoney, BookingsKeepMoney, OutcomesKeepMoney DEF RefundNext
<1>. QED BY <1>1, <1>2 DEF MoneyInv

(* Whatever line is refunded, in whatever portions and by whatever tills,  *)
(* no more is returned than was sold, and all of it in the end: the tax    *)
(* too, which the rule may let lag behind the total.                       *)
THEOREM RefundsConserve == RefundSpec => []MoneyConserved
<1>1. MoneyInv => MoneyConserved
  <2>. SUFFICES ASSUME MoneyInv PROVE MoneyConserved OBVIOUS
  <2>1. /\ bought \in SoldLines /\ Entitled(booked) /\ booked.quantity \in Nat
        /\ booked.tax \in Nat
    BY DEF MoneyInv, RefundInv, RefundTypeOK, Amounts
  <2>2. /\ bought.quantity \in Nat /\ bought.total \in Nat /\ bought.tax \in Nat
        /\ bought.discount \in Nat /\ booked.quantity <= bought.quantity
    BY <2>1, LineTypes DEF Entitled
  <2>3. ASSUME NEW amount \in Nat
        PROVE  /\ Prorate(amount, booked.quantity) <= amount
               /\ booked.quantity = bought.quantity => Prorate(amount, booked.quantity) = amount
    BY <2>1, <2>2, ShareGrows, ShareEnds
  <2>4. /\ booked.total <= bought.total /\ booked.discount <= bought.discount
        /\ booked.tax <= Prorate(bought.tax, booked.quantity)
        /\ Prorate(bought.tax, booked.quantity) <= bought.tax
    BY <2>1, <2>2, <2>3 DEF Entitled
  <2>5. Prorate(bought.tax, booked.quantity) \in Nat BY <2>1, <2>2, ShareBounds
  <2>6. booked.tax <= bought.tax BY <2>1, <2>2, <2>4, <2>5
  <2>7. ASSUME booked.quantity = bought.quantity
        PROVE  booked.total = bought.total /\ booked.tax = bought.tax
                 /\ booked.discount = bought.discount
    <3>1. booked.total = bought.total /\ booked.discount = bought.discount
      BY <2>1, <2>2, <2>3, <2>7 DEF Entitled
    <3>2. booked.total - booked.tax <= bought.total - bought.tax BY <2>1 DEF Entitled
    <3>. QED BY <2>1, <2>2, <2>6, <3>1, <3>2
  <2>. QED BY <2>2, <2>4, <2>6, <2>7 DEF MoneyConserved
<1>. QED BY <1>1, MoneyInvInit, MoneyInvStep, PTL DEF RefundSpec

-----------------------------------------------------------------------------
-----------------------------------------------------------------------------
(* Preparation.                                                            *)

(* What a cycle holds: an operation that exists, and an answer that is     *)
(* still true.  A decision stays one; a revision that is past stays past.  *)
AnswerHolds(c) ==
  /\ c.at \in {"sent", "answered"} => c.operation \in DOMAIN operations
  /\ c.at = "answered" =>
       /\ c.answer \in ServerAnswer
       /\ c.answer.kind \in {"decision", "truncated", "malformed", "invalid"} =>
            c.operation \in DOMAIN decided
       /\ c.answer.kind = "stale" =>
            /\ c.operation \notin DOMAIN decided
            /\ operations[c.operation].revision < policy /\ c.answer.revision <= policy

AnswersHold == \A r \in Running : AnswerHolds(cycle[r])

(* No revision is known before the server has it.                          *)
RevisionsPast ==
  learned <= policy /\ \A o \in DOMAIN operations : operations[o].revision <= policy

(* What an operation that ended says is true at the server.                *)
EndsTrue(o) ==
  /\ operations[o].state = "applied" =>
       o \in DOMAIN decided /\ {o} \X decided[o] \subseteq ingested
  /\ operations[o].state = "superseded_uncommitted" =>
       o \notin DOMAIN decided /\ operations[o].revision < policy
EndsAreTrue == \A o \in DOMAIN operations : EndsTrue(o)

(* A product is in one operation that has not ended, the latest of its.    *)
OneUnresolved ==
  \A o \in DOMAIN operations, p \in DOMAIN operations :
    o < p /\ operations[o].products \cap operations[p].products # {} =>
      operations[o].state \notin UnresolvedStates

PrepareInv ==
  PrepareTypeOK /\ AnswersHold /\ RevisionsPast /\ EndsAreTrue /\ OneUnresolved

-----------------------------------------------------------------------------
(* Lemmas: what a step leaves of the operations, and of the rest.          *)

(* A row of the table.                                                     *)
LEMMA RowTyped ==
  ASSUME PrepareTypeOK, NEW o \in DOMAIN operations
  PROVE  /\ operations[o] \in Operation /\ operations[o].revision \in Nat
         /\ operations[o].products \subseteq Product /\ o \in 1 .. MaxOperations
         /\ operations[o].state \in OperationState
<1>1. operations[o] \in Operation
  BY DEF PrepareTypeOK
<1>2. operations[o].revision \in Nat /\ operations[o].products \subseteq Product
      /\ operations[o].state \in OperationState
  BY <1>1, PreparationAssumption DEF Operation
<1>3. o \in 1 .. MaxOperations
  BY PreparationAssumption DEF PrepareTypeOK
<1> QED
  BY <1>1, <1>2, <1>3

(* The rows that were there keep what was frozen, and an end is final.     *)
RowsKeep ==
  /\ operations' \in Seq(Operation) /\ Len(operations') = Len(operations)
  /\ DOMAIN operations' = DOMAIN operations
  /\ \A o \in DOMAIN operations :
       /\ operations'[o].products = operations[o].products
       /\ operations'[o].revision = operations[o].revision
       /\ operations[o].state \notin UnresolvedStates =>
            operations'[o].state = operations[o].state

LEMMA Moved ==
  ASSUME operations \in Seq(Operation), NEW o \in DOMAIN operations,
         NEW from \in SUBSET UnresolvedStates, NEW to \in OperationState, Moves(o, from, to)
  PROVE  /\ RowsKeep
         /\ \A p \in DOMAIN operations :
              operations'[p].state \in {operations[p].state, to}
         /\ \A p \in DOMAIN operations \ {o} : operations'[p] = operations[p]
<1> DEFINE entry == [operations[o] EXCEPT !.state = IF @ \in from THEN to ELSE @]
<1>1. operations[o] \in Operation
  OBVIOUS
<1>2. /\ entry \in Operation /\ entry.products = operations[o].products
      /\ entry.revision = operations[o].revision
      /\ entry.state = IF operations[o].state \in from THEN to ELSE operations[o].state
  BY <1>1 DEF Operation
<1>3. operations' = [operations EXCEPT ![o] = entry]
  BY DEF Moves
<1> HIDE DEF entry
<1>4. /\ operations' \in Seq(Operation) /\ Len(operations') = Len(operations)
      /\ DOMAIN operations' = DOMAIN operations
  BY <1>2, <1>3
<1>5. operations'[o] = entry /\ \A p \in DOMAIN operations \ {o} : operations'[p] = operations[p]
  BY <1>3
<1> QED
  BY <1>2, <1>4, <1>5 DEF RowsKeep

(* dispatch marks the operation and sends it, or leaves it.                *)
LEMMA Dispatched ==
  ASSUME NEW rows \in Seq(Operation), NEW r \in Running, NEW o \in DOMAIN rows,
         cycle \in [Running -> [at : {"idle", "resolving", "sent", "answered"},
                                operation : 0 .. MaxOperations,
                                answer : {NoAnswer} \cup ServerAnswer]],
         o \in 1 .. MaxOperations,
         DispatchOperation(r, o, rows)
  PROVE  /\ operations' \in Seq(Operation) /\ Len(operations') = Len(rows)
         /\ DOMAIN operations' = DOMAIN rows
         /\ \A p \in DOMAIN rows :
              /\ operations'[p].products = rows[p].products
              /\ operations'[p].revision = rows[p].revision
              /\ \/ operations'[p].state = rows[p].state
                 \/ rows[p].state = "captured" /\ operations'[p].state = "dispatching"
         /\ cycle' \in [Running -> [at : {"idle", "resolving", "sent", "answered"},
                                    operation : 0 .. MaxOperations,
                                    answer : {NoAnswer} \cup ServerAnswer]]
         /\ cycle'[r].at = "idle" \/ (cycle'[r].at = "sent" /\ cycle'[r].operation = o)
         /\ \A x \in Running \ {r} : cycle'[x] = cycle[x]
<1> DEFINE Cycles == [at : {"idle", "resolving", "sent", "answered"},
                      operation : 0 .. MaxOperations, answer : {NoAnswer} \cup ServerAnswer]
<1>1. CASE operations' = rows /\ Ends(r)
  <2>1. NoCycle \in Cycles /\ NoCycle.at = "idle"
    BY PreparationAssumption DEF NoCycle
  <2>2. cycle' = [cycle EXCEPT ![r] = NoCycle]
    BY <1>1 DEF Ends
  <2> HIDE DEF Cycles
  <2>3. /\ cycle' \in [Running -> Cycles] /\ cycle'[r] = NoCycle
        /\ \A x \in Running \ {r} : cycle'[x] = cycle[x]
    BY <2>1, <2>2 DEF Cycles
  <2> QED
    BY <1>1, <2>1, <2>3 DEF Cycles
<1>2. CASE /\ operations' = [rows EXCEPT ![o].state = IF @ = "captured" THEN "dispatching" ELSE @]
           /\ cycle' = [cycle EXCEPT ![r] = [at |-> "sent", operation |-> o, answer |-> NoAnswer]]
  <2> DEFINE entry == [rows[o] EXCEPT !.state = IF @ = "captured" THEN "dispatching" ELSE @]
  <2>1. rows[o] \in Operation
    OBVIOUS
  <2>2. /\ entry \in Operation /\ entry.products = rows[o].products
        /\ entry.revision = rows[o].revision
        /\ entry.state = IF rows[o].state = "captured" THEN "dispatching" ELSE rows[o].state
    BY <2>1 DEF Operation, OperationState, UnresolvedStates
  <2>3. operations' = [rows EXCEPT ![o] = entry]
    BY <1>2
  <2> HIDE DEF entry
  <2>4. /\ operations' \in Seq(Operation) /\ Len(operations') = Len(rows)
        /\ DOMAIN operations' = DOMAIN rows
    BY <2>2, <2>3
  <2>5. operations'[o] = entry /\ \A p \in DOMAIN rows \ {o} : operations'[p] = rows[p]
    BY <2>3
  <2>6. /\ cycle' \in [Running -> [at : {"idle", "resolving", "sent", "answered"},
                                   operation : 0 .. MaxOperations,
                                   answer : {NoAnswer} \cup ServerAnswer]]
        /\ cycle'[r].at = "sent" /\ cycle'[r].operation = o
        /\ \A x \in Running \ {r} : cycle'[x] = cycle[x]
    BY <1>2
  <2> QED
    BY <2>2, <2>4, <2>5, <2>6
<1> QED
  BY <1>1, <1>2 DEF DispatchOperation

(* The server decides an operation once, and never one that is stale.      *)
LEMMA DecidedOnce ==
  ASSUME PrepareTypeOK, NEW o \in DOMAIN operations, Decides(o), UNCHANGED operations
  PROVE  /\ DOMAIN decided' = DOMAIN decided \cup {o}
         /\ \A p \in DOMAIN decided : decided'[p] = decided[p]
         /\ o \notin DOMAIN decided => operations[o].revision = policy
         /\ \A p \in DOMAIN decided' : decided'[p] \subseteq operations[p].products
<1>1. CASE o \in DOMAIN decided
  BY <1>1 DEF Decides, PrepareTypeOK
<1>2. CASE o \notin DOMAIN decided
  <2>1. PICK granted \in SUBSET operations[o].products :
          decided' = [p \in DOMAIN decided \cup {o} |-> IF p = o THEN granted ELSE decided[p]]
    BY <1>2 DEF Decides
  <2>2. decided' = [p \in DOMAIN decided \cup {o} |-> IF p = o THEN granted ELSE decided[p]]
    BY <2>1
  <2>3. DOMAIN decided' = DOMAIN decided \cup {o}
    BY <2>2
  <2>4. \A p \in DOMAIN decided : decided'[p] = decided[p]
    BY <1>2, <2>2
  <2>5. decided'[o] = granted
    BY <2>2
  <2> QED
    BY <1>2, <2>1, <2>3, <2>4, <2>5 DEF Decides, PrepareTypeOK
<1> QED
  BY <1>1, <1>2

(* Steps that add no operation: what is left to show of each.              *)
LEMMA KeptRows ==
  ASSUME PrepareInv, RowsKeep, PrepareTypeOK', AnswersHold', EndsAreTrue',
         learned' <= policy', policy <= policy'
  PROVE  PrepareInv'
<1>1. RevisionsPast'
  <2>1. policy \in Nat /\ policy' \in Nat
    BY DEF PrepareInv, PrepareTypeOK
  <2>2. ASSUME NEW o \in DOMAIN operations' PROVE operations'[o].revision <= policy'
    <3>1. o \in DOMAIN operations /\ operations'[o].revision = operations[o].revision
      BY <2>2 DEF RowsKeep
    <3>2. operations[o].revision \in Nat
      BY <3>1, RowTyped DEF PrepareInv
    <3>3. operations[o].revision <= policy
      BY <3>1 DEF PrepareInv, RevisionsPast
    <3> QED
      BY <2>1, <3>1, <3>2, <3>3
  <2> QED
    BY <2>2 DEF RevisionsPast
<1>2. OneUnresolved'
  BY DEF PrepareInv, RowsKeep, OneUnresolved
<1> QED
  BY <1>1, <1>2 DEF PrepareInv

(* A row and an answer that held still hold after a decision and a change  *)
(* of policy: what was decided stays, what was stale stays undecided.      *)
LEMMA ServerKeeps ==
  ASSUME PrepareInv, PrepareTypeOK', UNCHANGED <<operations, ingested>>, policy <= policy',
         \/ decided' = decided
         \/ policy' = policy /\ \E o \in DOMAIN operations : Decides(o)
  PROVE  /\ EndsAreTrue'
         /\ \A r \in Running : cycle'[r] = cycle[r] => AnswerHolds(cycle[r])'
<1>1. /\ DOMAIN decided \subseteq DOMAIN decided'
      /\ \A p \in DOMAIN decided : decided'[p] = decided[p]
      /\ \A p \in DOMAIN operations :
           p \notin DOMAIN decided /\ operations[p].revision < policy => p \notin DOMAIN decided'
  <2>1. CASE decided' = decided
    BY <2>1
  <2>2. CASE policy' = policy /\ \E o \in DOMAIN operations : Decides(o)
    <3>1. PICK o \in DOMAIN operations : Decides(o)
      BY <2>2
    <3>2. /\ DOMAIN decided' = DOMAIN decided \cup {o}
          /\ \A p \in DOMAIN decided : decided'[p] = decided[p]
          /\ o \notin DOMAIN decided => operations[o].revision = policy
      BY <3>1, DecidedOnce DEF PrepareInv
    <3>3. policy \in Nat
      BY DEF PrepareInv, PrepareTypeOK
    <3> QED
      BY <3>2, <3>3
  <2> QED
    BY <2>1, <2>2
<1>2. policy \in Nat /\ policy' \in Nat
  BY DEF PrepareInv, PrepareTypeOK
<1>3. \A p \in DOMAIN operations : operations[p].revision \in Nat
  BY RowTyped DEF PrepareInv
<1>4. EndsAreTrue'
  <2>1. ASSUME NEW o \in DOMAIN operations PROVE EndsTrue(o)'
    <3>1. EndsTrue(o)
      BY DEF PrepareInv, EndsAreTrue
    <3>2. operations[o].revision < policy => operations[o].revision < policy'
      BY <1>2, <1>3
    <3> QED
      BY <1>1, <3>1, <3>2 DEF EndsTrue
  <2> QED
    BY <2>1 DEF EndsAreTrue
<1>5. ASSUME NEW r \in Running, cycle'[r] = cycle[r] PROVE AnswerHolds(cycle[r])'
  <2>1. AnswerHolds(cycle[r])
    BY DEF PrepareInv, AnswersHold
  <2>2. cycle[r].answer.kind = "stale" /\ cycle[r].answer \in ServerAnswer
          => cycle[r].answer.revision \in Nat
    BY DEF ServerAnswer
  <2> QED
    BY <1>1, <1>2, <1>3, <1>5, <2>1, <2>2 DEF AnswerHolds
<1> QED
  BY <1>4, <1>5

Cycle == [at : {"idle", "resolving", "sent", "answered"},
          operation : 0 .. MaxOperations, answer : {NoAnswer} \cup ServerAnswer]

LEMMA RunCycleKeeps ==
  ASSUME PrepareInv, NEW r \in Running, RunCycle(r)
  PROVE  PrepareInv'
<1>1. PrepareTypeOK /\ cycle \in [Running -> Cycle]
  BY DEF PrepareInv, PrepareTypeOK, Cycle
<1>2. UNCHANGED <<learned, ingested, policy, decided, straggling, setbacks>>
  BY DEF RunCycle
<1>3. CASE operations' = operations /\ cycle' = [cycle EXCEPT ![r].at = "resolving"]
  <2>1. cycle' \in [Running -> Cycle] /\ cycle'[r].at = "resolving"
        /\ \A x \in Running \ {r} : cycle'[x] = cycle[x]
    BY <1>1, <1>3 DEF Cycle
  <2>2. PrepareTypeOK'
    BY <1>1, <1>2, <1>3, <2>1 DEF PrepareTypeOK, Cycle
  <2>3. AnswersHold'
    BY <1>2, <1>3, <2>1 DEF PrepareInv, AnswersHold, AnswerHolds
  <2> QED
    BY <1>2, <1>3, <2>2, <2>3 DEF PrepareInv, RevisionsPast, EndsAreTrue, EndsTrue, OneUnresolved
<1>4. ASSUME NEW o \in UnresolvedOperations, DispatchOperation(r, o, operations)
      PROVE  PrepareInv'
  <2>1. o \in DOMAIN operations /\ o \in 1 .. MaxOperations
    BY <1>1, RowTyped DEF UnresolvedOperations
  <2>2. /\ operations' \in Seq(Operation) /\ Len(operations') = Len(operations)
        /\ DOMAIN operations' = DOMAIN operations
        /\ \A p \in DOMAIN operations :
             /\ operations'[p].products = operations[p].products
             /\ operations'[p].revision = operations[p].revision
             /\ \/ operations'[p].state = operations[p].state
                \/ operations[p].state = "captured" /\ operations'[p].state = "dispatching"
        /\ cycle' \in [Running -> Cycle]
        /\ cycle'[r].at = "idle" \/ (cycle'[r].at = "sent" /\ cycle'[r].operation = o)
        /\ \A x \in Running \ {r} : cycle'[x] = cycle[x]
    BY <1>1, <1>4, <2>1, Dispatched DEF PrepareTypeOK, Cycle
  <2>3. RowsKeep
    BY <2>2 DEF RowsKeep, UnresolvedStates
  <2>4. PrepareTypeOK'
    BY <1>1, <1>2, <2>2 DEF PrepareTypeOK, Cycle
  <2>5. AnswersHold'
    BY <1>2, <2>1, <2>2 DEF PrepareInv, AnswersHold, AnswerHolds
  <2>6. EndsAreTrue'
    BY <1>2, <2>2 DEF PrepareInv, EndsAreTrue, EndsTrue
  <2>7. learned' <= policy' /\ policy <= policy'
    BY <1>1, <1>2 DEF PrepareInv, RevisionsPast, PrepareTypeOK
  <2> QED
    BY <2>3, <2>4, <2>5, <2>6, <2>7, KeptRows
<1> QED
  BY <1>3, <1>4 DEF RunCycle

LEMMA CaptureKeeps ==
  ASSUME PrepareInv, NEW r \in Running, CaptureAndFreeze(r)
  PROVE  PrepareInv'
<1>1. PrepareTypeOK /\ cycle \in [Running -> Cycle]
  BY DEF PrepareInv, PrepareTypeOK, Cycle
<1>2. UNCHANGED <<learned, ingested, policy, decided, straggling, setbacks>>
  BY DEF CaptureAndFreeze
<1>3. PICK touched \in SUBSET Product :
        IF Eligible(touched) = {} THEN Ends(r) /\ UNCHANGED operations
        ELSE /\ Len(operations) < MaxOperations
             /\ DispatchOperation(r, Len(operations) + 1,
                                  Append(operations, [products |-> Eligible(touched),
                                                      revision |-> learned,
                                                      state |-> "captured"]))
  BY DEF CaptureAndFreeze
<1>4. CASE Ends(r) /\ UNCHANGED operations
  <2>1. NoCycle \in Cycle /\ NoCycle.at = "idle"
    BY PreparationAssumption DEF NoCycle, Cycle
  <2>2. cycle' \in [Running -> Cycle] /\ cycle'[r] = NoCycle
        /\ \A x \in Running \ {r} : cycle'[x] = cycle[x]
    BY <1>1, <1>4, <2>1 DEF Ends
  <2>3. PrepareTypeOK'
    BY <1>1, <1>2, <1>4, <2>2 DEF PrepareTypeOK, Cycle
  <2>4. AnswersHold'
    <3>1. ASSUME NEW x \in Running PROVE AnswerHolds(cycle[x])'
      BY <1>2, <1>4, <2>1, <2>2 DEF PrepareInv, AnswersHold, AnswerHolds
    <3> QED
      BY <3>1 DEF AnswersHold
  <2> QED
    BY <1>2, <1>4, <2>3, <2>4 DEF PrepareInv, RevisionsPast, EndsAreTrue, EndsTrue, OneUnresolved
<1>5. CASE Eligible(touched) # {}
  <2> DEFINE new == [products |-> Eligible(touched), revision |-> learned, state |-> "captured"]
             n == Len(operations) + 1
             rows == Append(operations, new)
  <2>1. /\ operations \in Seq(Operation) /\ Len(operations) \in Nat
        /\ DOMAIN operations = 1 .. Len(operations) /\ Len(operations) < MaxOperations
    BY <1>1, <1>3, <1>5 DEF PrepareTypeOK
  <2>2. Eligible(touched) \in (SUBSET Product) \ {{}}
    BY <1>5 DEF Eligible
  <2>3. new \in Operation
    BY <1>1, <2>2 DEF Operation, OperationState, UnresolvedStates, PrepareTypeOK
  <2>4. /\ new.products = Eligible(touched) /\ new.revision = learned /\ new.state = "captured"
    OBVIOUS
  <2> HIDE DEF new
  <2>5. /\ rows \in Seq(Operation) /\ Len(rows) = n /\ DOMAIN rows = 1 .. n
        /\ rows[n] = new /\ \A p \in DOMAIN operations : rows[p] = operations[p]
    BY <2>1, <2>3
  <2>6. n \in 1 .. MaxOperations /\ n \in DOMAIN rows
    BY <2>1, <2>5, PreparationAssumption
  <2>7. DispatchOperation(r, n, rows)
    BY <1>3, <1>5 DEF new
  <2> HIDE DEF rows
  <2>8. /\ operations' \in Seq(Operation) /\ Len(operations') = n
        /\ DOMAIN operations' = DOMAIN rows
        /\ \A p \in DOMAIN rows :
             /\ operations'[p].products = rows[p].products
             /\ operations'[p].revision = rows[p].revision
             /\ \/ operations'[p].state = rows[p].state
                \/ rows[p].state = "captured" /\ operations'[p].state = "dispatching"
        /\ cycle' \in [Running -> Cycle]
        /\ cycle'[r].at = "idle" \/ (cycle'[r].at = "sent" /\ cycle'[r].operation = n)
        /\ \A x \in Running \ {r} : cycle'[x] = cycle[x]
    BY <1>1, <2>5, <2>6, <2>7, Dispatched DEF Cycle
  <2>9. /\ DOMAIN operations' = 1 .. n
        /\ \A p \in DOMAIN operations :
             /\ p \in DOMAIN operations' /\ p \in 1 .. Len(operations)
             /\ operations'[p].products = operations[p].products
             /\ operations'[p].revision = operations[p].revision
             /\ \/ operations'[p].state = operations[p].state
                \/ operations[p].state = "captured" /\ operations'[p].state = "dispatching"
        /\ operations'[n].products = Eligible(touched) /\ operations'[n].revision = learned
        /\ operations'[n].state \in {"captured", "dispatching"}
        /\ \A p \in DOMAIN operations' : p \in DOMAIN operations \/ p = n
    BY <2>1, <2>4, <2>5, <2>6, <2>8
  <2>10. n \notin DOMAIN operations /\ \A p \in DOMAIN operations : p < n
    BY <2>1
  <2> HIDE DEF n
  <2>11. PrepareTypeOK'
    <3>1. n <= MaxOperations
      BY <2>6, PreparationAssumption
    <3> QED
      BY <1>1, <1>2, <2>8, <2>9, <3>1 DEF PrepareTypeOK, Cycle
  <2>12. AnswersHold'
    <3>1. ASSUME NEW x \in Running PROVE AnswerHolds(cycle[x])'
      <4>1. CASE x = r
        BY <2>6, <2>8, <2>9, <4>1 DEF AnswerHolds
      <4>2. CASE x # r
        BY <1>2, <2>8, <2>9, <4>2 DEF PrepareInv, AnswersHold, AnswerHolds
      <4> QED
        BY <4>1, <4>2
    <3> QED
      BY <3>1 DEF AnswersHold
  <2>13. RevisionsPast'
    BY <1>2, <2>9 DEF PrepareInv, RevisionsPast
  <2>14. EndsAreTrue'
    BY <1>2, <2>9 DEF PrepareInv, EndsAreTrue, EndsTrue
  <2>15. OneUnresolved'
    <3>1. SUFFICES ASSUME NEW o \in DOMAIN operations', NEW p \in DOMAIN operations', o < p,
                          operations'[o].products \cap operations'[p].products # {}
                   PROVE  operations'[o].state \notin UnresolvedStates
      BY DEF OneUnresolved
    <3>2. o \in DOMAIN operations
      BY <2>1, <2>9, <2>10, <3>1 DEF n
    <3>3. CASE p \in DOMAIN operations
      BY <2>9, <3>1, <3>2, <3>3 DEF PrepareInv, OneUnresolved, UnresolvedStates
    <3>4. CASE p = n
      <4>1. Eligible(touched) \cap Owned = {}
        BY DEF Eligible
      <4>2. o \notin UnresolvedOperations
        BY <2>9, <3>1, <3>2, <3>4, <4>1 DEF Owned
      <4> QED
        BY <2>9, <3>2, <4>2 DEF UnresolvedOperations, UnresolvedStates
    <3> QED
      BY <2>9, <3>3, <3>4
  <2> QED
    BY <2>11, <2>12, <2>13, <2>14, <2>15 DEF PrepareInv
<1> QED
  BY <1>3, <1>4, <1>5

(* The server answers: what it says is true when it is sent.               *)
LEMMA ServerAnswerKeeps ==
  ASSUME PrepareInv, NEW r \in Running, cycle[r].at = "sent", NEW answer \in ServerAnswer,
         Answers(r, answer),
         UNCHANGED <<operations, learned, ingested, policy, straggling>>,
         setbacks' \in 0 .. MaxSetbacks,
         \/ Decides(cycle[r].operation) /\ answer.kind # "stale"
         \/ Stale(cycle[r].operation) /\ answer = [kind |-> "stale", revision |-> policy]
              /\ UNCHANGED decided
         \/ answer.kind = "absent" /\ UNCHANGED decided
  PROVE  PrepareInv'
<1> DEFINE o == cycle[r].operation
<1>1. PrepareTypeOK /\ cycle \in [Running -> Cycle]
  BY DEF PrepareInv, PrepareTypeOK, Cycle
<1>2. o \in DOMAIN operations
  BY DEF PrepareInv, AnswersHold, AnswerHolds
<1>3. /\ cycle' \in [Running -> Cycle] /\ cycle'[r].at = "answered"
      /\ cycle'[r].answer = answer /\ cycle'[r].operation = o
      /\ \A x \in Running \ {r} : cycle'[x] = cycle[x]
  BY <1>1 DEF Answers, Cycle
<1>4. decided' = decided \/ Decides(o)
  OBVIOUS
<1>5. PrepareTypeOK'
  <2>1. DOMAIN decided' \subseteq DOMAIN operations
        /\ \A p \in DOMAIN decided' : decided'[p] \subseteq operations[p].products
    <3>1. CASE decided' = decided
      BY <1>1, <3>1 DEF PrepareTypeOK
    <3>2. CASE Decides(o)
      BY <1>1, <1>2, <3>2, DecidedOnce DEF PrepareTypeOK
    <3> QED
      BY <1>4, <3>1, <3>2
  <2> QED
    BY <1>1, <1>3, <2>1 DEF PrepareTypeOK, Cycle
<1>6. policy \in Nat /\ policy' \in Nat /\ policy <= policy'
  BY <1>1 DEF PrepareTypeOK
<1>7. EndsAreTrue' /\ \A x \in Running : cycle'[x] = cycle[x] => AnswerHolds(cycle[x])'
  BY <1>2, <1>4, <1>5, <1>6, ServerKeeps
<1>8. AnswerHolds(cycle[r])'
  <2>1. CASE Decides(o) /\ answer.kind # "stale"
    <3>1. o \in DOMAIN decided'
      BY <1>1, <1>2, <2>1, DecidedOnce
    <3> QED
      BY <1>2, <1>3, <2>1, <3>1 DEF AnswerHolds
  <2>2. CASE Stale(o) /\ answer = [kind |-> "stale", revision |-> policy] /\ UNCHANGED decided
    <3>1. operations[o].revision \in Nat
      BY <1>1, <1>2, RowTyped
    <3>2. operations[o].revision <= policy /\ operations[o].revision # policy
      BY <1>2, <2>2 DEF PrepareInv, RevisionsPast, Stale
    <3>3. operations[o].revision < policy
      BY <1>6, <3>1, <3>2
    <3>4. answer.kind = "stale" /\ answer.revision = policy
      BY <2>2
    <3> QED
      BY <1>2, <1>3, <1>6, <2>2, <3>3, <3>4 DEF AnswerHolds, Stale
  <2>3. CASE answer.kind = "absent" /\ UNCHANGED decided
    BY <1>2, <1>3, <2>3 DEF AnswerHolds
  <2> QED
    BY <2>1, <2>2, <2>3
<1>9. AnswersHold'
  <2>1. ASSUME NEW x \in Running PROVE AnswerHolds(cycle[x])'
    BY <1>3, <1>7, <1>8
  <2> QED
    BY <2>1 DEF AnswersHold
<1>10. RevisionsPast' /\ OneUnresolved'
  BY DEF PrepareInv, RevisionsPast, OneUnresolved
<1> QED
  BY <1>5, <1>7, <1>9, <1>10 DEF PrepareInv

(* A cycle that ends, and a row that moves to where the answer sends it.   *)
LEMMA EndKeeps ==
  ASSUME PrepareInv, NEW r \in Running, Ends(r), RowsKeep,
         UNCHANGED <<policy, decided>>, setbacks' \in 0 .. MaxSetbacks,
         straggling' \subseteq DOMAIN operations,
         learned' \in 0 .. MaxPolicy, learned' <= policy,
         ingested \subseteq ingested', ingested' \subseteq (1 .. MaxOperations) \X Product,
         EndsAreTrue'
  PROVE  PrepareInv'
<1>1. PrepareTypeOK /\ cycle \in [Running -> Cycle]
  BY DEF PrepareInv, PrepareTypeOK, Cycle
<1>2. NoCycle \in Cycle /\ NoCycle.at = "idle"
  BY PreparationAssumption DEF NoCycle, Cycle
<1>3. cycle' \in [Running -> Cycle] /\ cycle'[r] = NoCycle
      /\ \A x \in Running \ {r} : cycle'[x] = cycle[x]
  BY <1>1, <1>2 DEF Ends
<1>4. PrepareTypeOK'
  <2>1. /\ operations' \in Seq(Operation) /\ Len(operations') = Len(operations)
        /\ DOMAIN operations' = DOMAIN operations
        /\ \A o \in DOMAIN operations : operations'[o].products = operations[o].products
    BY DEF RowsKeep
  <2> QED
    BY <1>1, <1>3, <2>1 DEF PrepareTypeOK, Cycle
<1>5. AnswersHold'
  <2>1. ASSUME NEW x \in Running PROVE AnswerHolds(cycle[x])'
    <3>1. CASE x = r
      BY <1>2, <1>3, <3>1 DEF AnswerHolds
    <3>2. CASE x # r
      <4>1. AnswerHolds(cycle[x]) /\ cycle'[x] = cycle[x]
        BY <1>3, <3>2 DEF PrepareInv, AnswersHold
      <4> QED
        BY <4>1 DEF AnswerHolds, RowsKeep
    <3> QED
      BY <3>1, <3>2
  <2> QED
    BY <2>1 DEF AnswersHold
<1>6. learned' <= policy' /\ policy <= policy'
  BY <1>1 DEF PrepareTypeOK
<1> QED
  BY <1>4, <1>5, <1>6, KeptRows

(* A row moves to an end only with the proof of it.                        *)
LEMMA MoveEnds ==
  ASSUME PrepareInv, NEW o \in DOMAIN operations, NEW from \in SUBSET UnresolvedStates,
         NEW to \in OperationState, Moves(o, from, to), UNCHANGED <<policy, decided>>,
         ingested \subseteq ingested',
         to = "applied" => o \in DOMAIN decided /\ {o} \X decided[o] \subseteq ingested',
         to = "superseded_uncommitted" =>
           o \notin DOMAIN decided /\ operations[o].revision < policy
  PROVE  RowsKeep /\ EndsAreTrue'
<1>1. /\ RowsKeep
      /\ \A p \in DOMAIN operations : operations'[p].state \in {operations[p].state, to}
      /\ \A p \in DOMAIN operations \ {o} : operations'[p] = operations[p]
  BY Moved DEF PrepareInv, PrepareTypeOK
<1>2. ASSUME NEW p \in DOMAIN operations' PROVE EndsTrue(p)'
  <2>1. p \in DOMAIN operations /\ operations'[p].revision = operations[p].revision
    BY <1>1 DEF RowsKeep
  <2>2. EndsTrue(p)
    BY <2>1 DEF PrepareInv, EndsAreTrue
  <2>3. CASE operations'[p].state = operations[p].state
    BY <2>1, <2>2, <2>3 DEF EndsTrue
  <2>4. CASE p = o /\ operations'[p].state = to
    BY <2>1, <2>4 DEF EndsTrue
  <2>5. p # o => operations'[p].state = operations[p].state
    BY <1>1, <2>1
  <2> QED
    BY <1>1, <2>1, <2>3, <2>4, <2>5
<1> QED
  BY <1>1, <1>2 DEF EndsAreTrue

(* Nothing moves.                                                          *)
LEMMA StaysEnds ==
  ASSUME PrepareInv, UNCHANGED <<operations, policy, decided>>, ingested \subseteq ingested'
  PROVE  RowsKeep /\ EndsAreTrue'
<1>1. RowsKeep
  BY DEF PrepareInv, PrepareTypeOK, RowsKeep
<1>2. ASSUME NEW p \in DOMAIN operations PROVE EndsTrue(p)'
  BY DEF PrepareInv, EndsAreTrue, EndsTrue
<1> QED
  BY <1>1, <1>2 DEF EndsAreTrue

(* What arrived is of this operation's products.                           *)
LEMMA Ingested ==
  ASSUME PrepareTypeOK, NEW o \in DOMAIN decided, NEW some \in SUBSET decided[o], Ingests(o, some)
  PROVE  /\ ingested \subseteq ingested' /\ {o} \X some \subseteq ingested'
         /\ ingested' \subseteq (1 .. MaxOperations) \X Product
<1>1. o \in DOMAIN operations /\ some \subseteq operations[o].products
  BY DEF PrepareTypeOK
<1>2. o \in 1 .. MaxOperations /\ some \subseteq Product
  BY <1>1, RowTyped
<1> QED
  BY <1>2 DEF Ingests, PrepareTypeOK

LEMMA ReceiveKeeps ==
  ASSUME PrepareInv, NEW r \in Running, Receive(r)
  PROVE  PrepareInv'
<1> DEFINE o == cycle[r].operation
           kind == cycle[r].answer.kind
<1>1. PrepareTypeOK
  BY DEF PrepareInv
<1>2. UNCHANGED <<policy, decided, straggling, setbacks>> /\ Ends(r)
  BY DEF Receive
<1>3. /\ o \in DOMAIN operations /\ cycle[r].answer \in ServerAnswer
      /\ kind \in {"decision", "truncated", "malformed", "invalid"} => o \in DOMAIN decided
      /\ kind = "stale" =>
           /\ o \notin DOMAIN decided
           /\ operations[o].revision < policy /\ cycle[r].answer.revision <= policy
  BY DEF PrepareInv, AnswersHold, AnswerHolds, Receive
<1>4. learned \in 0 .. MaxPolicy /\ learned <= policy
  BY <1>1 DEF PrepareTypeOK, PrepareInv, RevisionsPast
<1>5. SUFFICES /\ RowsKeep /\ EndsAreTrue' /\ learned' \in 0 .. MaxPolicy /\ learned' <= policy
               /\ ingested \subseteq ingested' /\ ingested' \subseteq (1 .. MaxOperations) \X Product
  BY <1>1, <1>2, EndKeeps DEF PrepareTypeOK
<1>6. ingested \subseteq (1 .. MaxOperations) \X Product
  BY <1>1 DEF PrepareTypeOK
<1>7. CASE AppliesDecision(r)
  <2>1. kind = "decision" /\ o \in DOMAIN decided /\ learned' = learned
    BY <1>3, <1>7 DEF AppliesDecision
  <2>2. CASE UNCHANGED <<operations, ingested>>
    BY <1>2, <1>4, <1>6, <2>1, <2>2, StaysEnds
  <2>3. CASE Ingests(o, decided[o]) /\ Moves(o, UnresolvedStates, "applied")
    <3>1. /\ ingested \subseteq ingested' /\ {o} \X decided[o] \subseteq ingested'
          /\ ingested' \subseteq (1 .. MaxOperations) \X Product
      BY <1>1, <2>1, <2>3, Ingested
    <3>2. RowsKeep /\ EndsAreTrue'
      BY <1>2, <1>3, <2>1, <2>3, <3>1, MoveEnds DEF OperationState
    <3> QED
      BY <1>4, <2>1, <3>1, <3>2
  <2> QED
    BY <1>7, <2>2, <2>3 DEF AppliesDecision
<1>8. CASE PartlyApplies(r)
  <2>1. kind = "truncated" /\ o \in DOMAIN decided /\ learned' = learned
    BY <1>3, <1>8 DEF PartlyApplies
  <2>2. CASE UNCHANGED <<operations, ingested>>
    BY <1>2, <1>4, <1>6, <2>1, <2>2, StaysEnds
  <2>3. ASSUME NEW some \in SUBSET decided[o], Ingests(o, some),
               \/ MarkAmbiguous(o)
               \/ Moves(o, {"dispatching", "ambiguous"}, "discovered_pending_replay")
        PROVE  RowsKeep /\ EndsAreTrue' /\ ingested \subseteq ingested'
                 /\ ingested' \subseteq (1 .. MaxOperations) \X Product
    <3>1. /\ ingested \subseteq ingested'
          /\ ingested' \subseteq (1 .. MaxOperations) \X Product
      BY <1>1, <2>1, <2>3, Ingested
    <3>2. CASE MarkAmbiguous(o)
      BY <1>2, <1>3, <3>1, <3>2, MoveEnds DEF MarkAmbiguous, OperationState, UnresolvedStates
    <3>3. CASE Moves(o, {"dispatching", "ambiguous"}, "discovered_pending_replay")
      BY <1>2, <1>3, <3>1, <3>3, MoveEnds DEF OperationState, UnresolvedStates
    <3> QED
      BY <2>3, <3>1, <3>2, <3>3
  <2> QED
    BY <1>4, <1>8, <2>1, <2>2, <2>3 DEF PartlyApplies
<1>9. CASE Refuses(r)
  BY <1>2, <1>3, <1>4, <1>6, <1>9, MoveEnds DEF Refuses, OperationState
<1>10. CASE Superseded(r)
  <2>1. kind = "stale" /\ ingested' = ingested
        /\ Moves(o, {"captured", "dispatching", "ambiguous"}, "superseded_uncommitted")
    BY <1>10 DEF Superseded
  <2>2. cycle[r].answer.revision \in 0 .. MaxPolicy
    BY <1>3, <2>1, PreparationAssumption DEF ServerAnswer
  <2>3. learned' \in 0 .. MaxPolicy /\ learned' <= policy
    BY <1>3, <1>4, <1>10, <2>1, <2>2 DEF Superseded
  <2>4. RowsKeep /\ EndsAreTrue'
    BY <1>2, <1>3, <2>1, MoveEnds DEF OperationState, UnresolvedStates
  <2> QED
    BY <1>6, <2>1, <2>3, <2>4
<1>11. CASE Unavailable(r)
  BY <1>2, <1>4, <1>6, <1>11, StaysEnds DEF Unavailable
<1>12. CASE Unreadable(r)
  BY <1>2, <1>3, <1>4, <1>6, <1>12, MoveEnds
  DEF Unreadable, MarkAmbiguous, OperationState, UnresolvedStates
<1> QED
  BY <1>7, <1>8, <1>9, <1>10, <1>11, <1>12 DEF Receive

LEMMA FailsKeeps ==
  ASSUME PrepareInv, NEW r \in Running, Fails(r)
  PROVE  PrepareInv'
<1>1. PrepareTypeOK /\ cycle[r].operation \in DOMAIN operations
  BY DEF PrepareInv, AnswersHold, AnswerHolds, Fails
<1>2. UNCHANGED <<learned, ingested, policy, decided>> /\ Ends(r)
  BY DEF Fails
<1>3. MarkAmbiguous(cycle[r].operation)
  BY DEF Fails
<1>4. RowsKeep /\ EndsAreTrue'
  BY <1>1, <1>2, <1>3, MoveEnds DEF MarkAmbiguous, OperationState, UnresolvedStates
<1>5. straggling' \subseteq DOMAIN operations /\ setbacks' \in 0 .. MaxSetbacks
  BY <1>1, PreparationAssumption DEF Fails, PrepareTypeOK
<1>6. /\ learned' \in 0 .. MaxPolicy /\ learned' <= policy
      /\ ingested \subseteq ingested' /\ ingested' \subseteq (1 .. MaxOperations) \X Product
  BY <1>1, <1>2 DEF PrepareTypeOK, PrepareInv, RevisionsPast
<1> QED
  BY <1>2, <1>4, <1>5, <1>6, EndKeeps

(* Steps of the server that answer nobody, and the end of the process.     *)
LEMMA WorldKeeps ==
  ASSUME PrepareInv,
         (\E o \in straggling : StragglerArrives(o)) \/ PolicyChanges \/ CrashPreparing
  PROVE  PrepareInv'
<1>1. PrepareTypeOK /\ cycle \in [Running -> Cycle]
  BY DEF PrepareInv, PrepareTypeOK, Cycle
<1>2. policy \in Nat /\ policy <= MaxPolicy
  BY <1>1, PreparationAssumption DEF PrepareTypeOK
<1>3. CASE (\E o \in straggling : StragglerArrives(o)) \/ PolicyChanges
  <2>1. UNCHANGED <<operations, learned, ingested, cycle, setbacks>>
    BY <1>3 DEF StragglerArrives, PolicyChanges
  <2>2. policy <= policy' /\ policy' \in 1 .. MaxPolicy /\ straggling' \subseteq DOMAIN operations
    BY <1>1, <1>2, <1>3, PreparationAssumption DEF StragglerArrives, PolicyChanges, PrepareTypeOK
  <2>3. decided' = decided \/ (policy' = policy /\ \E o \in DOMAIN operations : Decides(o))
    BY <1>1, <1>3 DEF StragglerArrives, PolicyChanges, PrepareTypeOK
  <2>4. DOMAIN decided' \subseteq DOMAIN operations
        /\ \A p \in DOMAIN decided' : decided'[p] \subseteq operations[p].products
    <3>1. CASE decided' = decided
      BY <1>1, <3>1 DEF PrepareTypeOK
    <3>2. ASSUME NEW o \in DOMAIN operations, Decides(o)
          PROVE  DOMAIN decided' \subseteq DOMAIN operations
                 /\ \A p \in DOMAIN decided' : decided'[p] \subseteq operations[p].products
      BY <1>1, <2>1, <3>2, DecidedOnce DEF PrepareTypeOK
    <3> QED
      BY <2>3, <3>1, <3>2
  <2>5. PrepareTypeOK'
    BY <1>1, <2>1, <2>2, <2>4 DEF PrepareTypeOK
  <2>6. EndsAreTrue' /\ \A r \in Running : AnswerHolds(cycle[r])'
    BY <2>1, <2>2, <2>3, <2>5, ServerKeeps
  <2>7. RowsKeep
    BY <1>1, <2>1 DEF RowsKeep, PrepareTypeOK
  <2>8. learned' <= policy'
    BY <1>2, <2>1, <2>2, <2>5 DEF PrepareTypeOK, PrepareInv, RevisionsPast
  <2> QED
    BY <2>2, <2>5, <2>6, <2>7, <2>8, KeptRows DEF AnswersHold
<1>4. CASE CrashPreparing
  <2>1. UNCHANGED <<operations, learned, ingested, policy, decided>>
    BY <1>4 DEF CrashPreparing
  <2>2. setbacks' \in 0 .. MaxSetbacks
    BY <1>1, <1>4, PreparationAssumption DEF CrashPreparing, PrepareTypeOK
  <2>3. straggling' \subseteq DOMAIN operations
    BY <1>1, <1>4 DEF CrashPreparing, PrepareTypeOK, PrepareInv, AnswersHold, AnswerHolds
  <2>4. NoCycle \in Cycle /\ NoCycle.at = "idle"
    BY PreparationAssumption DEF NoCycle, Cycle
  <2>5. cycle' \in [Running -> Cycle] /\ \A r \in Running : cycle'[r] = NoCycle
    BY <1>4, <2>4 DEF CrashPreparing
  <2>6. PrepareTypeOK'
    BY <1>1, <2>1, <2>2, <2>3, <2>5 DEF PrepareTypeOK, Cycle
  <2>7. ASSUME NEW r \in Running PROVE AnswerHolds(cycle[r])'
    BY <2>4, <2>5 DEF AnswerHolds
  <2>8. RowsKeep /\ EndsAreTrue'
    BY <2>1, StaysEnds
  <2>9. learned' <= policy' /\ policy <= policy'
    BY <1>2, <2>1 DEF PrepareInv, RevisionsPast
  <2> QED
    BY <2>6, <2>7, <2>8, <2>9, KeptRows DEF AnswersHold
<1> QED
  BY <1>3, <1>4

LEMMA PrepareBegins == PrepareInit => PrepareInv
<1> SUFFICES ASSUME PrepareInit PROVE PrepareInv
  OBVIOUS
<1>1. NoCycle \in Cycle /\ NoCycle.at = "idle"
  BY PreparationAssumption DEF NoCycle, Cycle
<1>2. cycle \in [Running -> Cycle] /\ \A r \in Running : cycle[r] = NoCycle
  BY <1>1 DEF PrepareInit
<1>3. operations \in Seq(Operation) /\ Len(operations) = 0 /\ DOMAIN operations = {}
  BY DEF PrepareInit
<1>4. DOMAIN decided = {}
  BY DEF PrepareInit
<1>5. PrepareTypeOK
  BY <1>2, <1>3, <1>4, PreparationAssumption DEF PrepareInit, PrepareTypeOK, Cycle
<1>6. ASSUME NEW r \in Running PROVE AnswerHolds(cycle[r])
  BY <1>1, <1>2 DEF AnswerHolds
<1>7. RevisionsPast
  BY <1>3 DEF PrepareInit, RevisionsPast
<1> QED
  BY <1>3, <1>5, <1>6, <1>7 DEF PrepareInv, AnswersHold, EndsAreTrue, OneUnresolved

(* One step, one case per action.                                          *)
LEMMA PrepareSteps == PrepareInv /\ [PrepareNext]_prepareVars => PrepareInv'
<1> SUFFICES ASSUME PrepareInv, [PrepareNext]_prepareVars PROVE PrepareInv'
  OBVIOUS
<1>1. ASSUME NEW r \in Running, RunCycle(r) PROVE PrepareInv'
  BY <1>1, RunCycleKeeps
<1>2. ASSUME NEW r \in Running, CaptureAndFreeze(r) PROVE PrepareInv'
  BY <1>2, CaptureKeeps
<1>3. ASSUME NEW r \in Running, Receive(r) PROVE PrepareInv'
  BY <1>3, ReceiveKeeps
<1>4. ASSUME NEW r \in Running, Fails(r) PROVE PrepareInv'
  BY <1>4, FailsKeeps
<1>5. policy \in 1 .. MaxPolicy /\ setbacks \in 0 .. MaxSetbacks
  BY DEF PrepareInv, PrepareTypeOK
<1>6. ASSUME NEW r \in Running, ServerAnswers(r) PROVE PrepareInv'
  <2>1. /\ cycle[r].at = "sent" /\ setbacks' \in 0 .. MaxSetbacks
        /\ UNCHANGED <<operations, learned, ingested, policy, straggling>>
    BY <1>5, <1>6 DEF ServerAnswers
  <2>2. CASE Decides(cycle[r].operation) /\ Answers(r, [kind |-> "decision"])
    <3>1. [kind |-> "decision"] \in ServerAnswer /\ [kind |-> "decision"].kind = "decision"
      BY DEF ServerAnswer
    <3> QED
      BY <2>1, <2>2, <3>1, ServerAnswerKeeps
  <2>3. CASE /\ Stale(cycle[r].operation) /\ UNCHANGED decided
             /\ Answers(r, [kind |-> "stale", revision |-> policy])
    <3>1. [kind |-> "stale", revision |-> policy] \in ServerAnswer
      BY <1>5 DEF ServerAnswer
    <3> QED
      BY <2>1, <2>3, <3>1, ServerAnswerKeeps
  <2> QED
    BY <1>6, <2>2, <2>3 DEF ServerAnswers
<1>7. ASSUME NEW r \in Running, ServerFails(r) PROVE PrepareInv'
  <2>1. /\ cycle[r].at = "sent" /\ setbacks' \in 0 .. MaxSetbacks
        /\ UNCHANGED <<operations, learned, ingested, policy, straggling>>
    BY <1>5, <1>7, PreparationAssumption DEF ServerFails
  <2>2. ASSUME NEW kind \in {"truncated", "malformed", "invalid"},
               Decides(cycle[r].operation), Answers(r, [kind |-> kind])
        PROVE  PrepareInv'
    <3>1. [kind |-> kind] \in ServerAnswer /\ [kind |-> kind].kind # "stale"
      BY DEF ServerAnswer
    <3> QED
      BY <2>1, <2>2, <3>1, ServerAnswerKeeps
  <2>3. CASE Answers(r, [kind |-> "absent"]) /\ UNCHANGED decided
    <3>1. [kind |-> "absent"] \in ServerAnswer /\ [kind |-> "absent"].kind = "absent"
      BY DEF ServerAnswer
    <3> QED
      BY <2>1, <2>3, <3>1, ServerAnswerKeeps
  <2> QED
    BY <1>7, <2>2, <2>3 DEF ServerFails
<1>8. CASE (\E o \in straggling : StragglerArrives(o)) \/ PolicyChanges \/ CrashPreparing
  BY <1>8, WorldKeeps
<1>9. CASE UNCHANGED prepareVars
  BY <1>9 DEF prepareVars, PrepareInv, PrepareTypeOK, AnswersHold, AnswerHolds, RevisionsPast,
              EndsAreTrue, EndsTrue, OneUnresolved
<1> QED
  BY <1>1, <1>2, <1>3, <1>4, <1>6, <1>7, <1>8, <1>9 DEF PrepareNext

-----------------------------------------------------------------------------
(* The invariant of every reachable state: types, answers that are still   *)
(* true, revisions the server has had, ends that say what it holds, and    *)
(* one unresolved operation per product.                                   *)
THEOREM PreparationInvariant == PrepareSpec => []PrepareInv
BY PrepareBegins, PrepareSteps, PTL DEF PrepareSpec

(* Every variable stays in its type, whatever fails and overlaps.          *)
THEOREM PreparationTypes == PrepareSpec => []PrepareTypeOK
<1>1. PrepareInv => PrepareTypeOK
  BY DEF PrepareInv
<1> QED
  BY <1>1, PreparationInvariant, PTL

(* No product is asked for again before the earlier request for it ended   *)
(* and what the server made of it is known, for any number of cycles at    *)
(* once, operations, revisions and failures.                               *)
THEOREM NeverAskedBlindly == PrepareSpec => []NoBlindRequest
<1>1. PrepareInv => NoBlindRequest
  <2> SUFFICES ASSUME PrepareInv, NEW o \in DOMAIN operations, NEW p \in DOMAIN operations,
                      o < p, operations[o].products \cap operations[p].products # {}
               PROVE  \/ operations[o].state = "applied" /\ {o} \X decided[o] \subseteq ingested
                      \/ operations[o].state = "superseded_uncommitted" /\ o \notin DOMAIN decided
                      \/ operations[o].state = "conflicted"
    BY DEF NoBlindRequest
  <2>1. operations[o].state \in OperationState \ UnresolvedStates /\ EndsTrue(o)
    BY RowTyped DEF PrepareInv, OneUnresolved, EndsAreTrue
  <2> QED
    BY <2>1 DEF OperationState, EndsTrue
<1> QED
  BY <1>1, PreparationInvariant, PTL

-----------------------------------------------------------------------------
-----------------------------------------------------------------------------
(* Side by side.                                                           *)

(* What is proved of an install, of a checkout, of refunds and of the      *)
(* preparation holds of each beside the others: a step at the counter is a *)
(* step of one and a stutter of the rest.                                  *)
THEOREM CounterRunsScenes ==
  CounterSpec => InstallSpec /\ CheckoutSpec /\ RefundSpec /\ PrepareSpec
<1>1. CounterInit => InstallInit /\ CheckoutInit /\ RefundInit /\ PrepareInit
  BY DEF CounterInit
<1>2. [CounterNext]_counterVars => [InstallNext]_installVars
  BY DEF CounterNext, counterVars
<1>3. [CounterNext]_counterVars => [CheckoutNext]_checkoutVars
  BY DEF CounterNext, counterVars
<1>4. [CounterNext]_counterVars => [RefundNext]_refundVars
  BY DEF CounterNext, counterVars
<1>5. [CounterNext]_counterVars => [PrepareNext]_prepareVars
  BY DEF CounterNext, counterVars
<1> QED
  BY <1>1, <1>2, <1>3, <1>4, <1>5, PTL
  DEF CounterSpec, InstallSpec, CheckoutSpec, RefundSpec, PrepareSpec

(* What is explored stays what it is.                                      *)
CounterChosen == exploring \in Scenes

(* The types of everything at the counter, for any set of scenes.          *)
THEOREM CounterTypes == CounterSpec => []CounterTypeOK
<1>1. CounterInit => CounterChosen
  BY DEF CounterInit, CounterChosen
<1>2. CounterChosen /\ [CounterNext]_counterVars => CounterChosen'
  BY DEF CounterChosen, CounterNext, counterVars
<1>3. CounterChosen /\ InstallTypeOK /\ CheckoutTypeOK /\ RefundTypeOK /\ PrepareTypeOK
      => CounterTypeOK
  BY DEF CounterTypeOK, CounterChosen
<1> QED
  BY <1>1, <1>2, <1>3, CounterRunsScenes, InstallTypes, CheckoutTypes, RefundsTyped,
     PreparationTypes, PTL DEF CounterSpec
=============================================================================
