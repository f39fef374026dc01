---------------------------- MODULE SaleDelivery ----------------------------
(***************************************************************************)
(* What the upload lane promises about each sale, with no queue, worker,   *)
(* lease, timer or network in it: a sale that was made stays made; it is    *)
(* shown delivered only when the server's ledger holds it; a refusal is    *)
(* undone only by an explicit re-offer or by the server's own override.    *)
(***************************************************************************)
CONSTANT Sale

VARIABLES
    outcome,   \* what the till shows for each sale
    ledger     \* the sales the server holds

vars == <<outcome, ledger>>

TypeOK ==
    /\ outcome \in [Sale -> {"unsold", "owed", "delivered", "refused", "disputed"}]
    /\ ledger \subseteq Sale

Init ==
    /\ outcome = [s \in Sale |-> "unsold"]
    /\ ledger = {}

Move(s, from, to) ==
    /\ outcome[s] = from
    /\ outcome' = [outcome EXCEPT ![s] = to]

Sell(s) == Move(s, "unsold", "owed") /\ UNCHANGED ledger
Deliver(s) == s \in ledger /\ Move(s, "owed", "delivered") /\ UNCHANGED ledger
Refuse(s) == Move(s, "owed", "refused") /\ UNCHANGED ledger
Dispute(s) == Move(s, "owed", "disputed") /\ UNCHANGED ledger
Reoffer(s) == Move(s, "refused", "owed") /\ UNCHANGED ledger
Override(s) == s \in ledger /\ Move(s, "refused", "delivered") /\ UNCHANGED ledger

\* The server takes a sale that was made, at any time after it was made: an
\* upload may still land after the till has given up waiting for it.
Take(s) ==
    /\ outcome[s] # "unsold"
    /\ ledger' = ledger \cup {s}
    /\ UNCHANGED outcome

Next ==
    \E s \in Sale :
        \/ Sell(s) \/ Take(s) \/ Deliver(s) \/ Refuse(s) \/ Dispute(s)
        \/ Reoffer(s) \/ Override(s)

Spec == Init /\ [][Next]_vars

=============================================================================
