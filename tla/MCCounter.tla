----------------------------- MODULE MCCounter -----------------------------
(***************************************************************************)
(* Small instances of what happens at the counter: a catalog installed     *)
(* under a running sale, checkout, refunds, and the preparation of the     *)
(* stock that is sold offline.  As in MCTill one is explored at a time.    *)
(***************************************************************************)
EXTENDS CatalogInstall, Checkout, Refunds, Preparation

CONSTANT Scenes \* the components explored

VARIABLE exploring

counterVars == <<exploring, installVars, checkoutVars, refundVars, prepareVars>>

\* Three units whose tax, prorated alone, once exceeds the total of its unit.
ThreeUnits ==
  {[quantity |-> 3, total |-> 5, tax |-> 4, discount |-> 3, mode |-> "exclusive"]}

(* The type invariants of the components.                                  *)
CounterTypeOK ==
  exploring \in Scenes /\ InstallTypeOK /\ CheckoutTypeOK /\ RefundTypeOK /\ PrepareTypeOK

CounterInit ==
  /\ exploring \in Scenes /\ InstallInit /\ CheckoutInit /\ RefundInit /\ PrepareInit
  /\ exploring # "refunds" => /\ bought = CHOOSE l \in SoldLines : TRUE
                             /\ cashier = CHOOSE c \in Cashiers : TRUE
  /\ exploring # "preparation" => learned = 1

CounterNext ==
  /\ UNCHANGED exploring
  /\ \/ /\ exploring = "install" /\ InstallNext
        /\ UNCHANGED <<checkoutVars, refundVars, prepareVars>>
     \/ /\ exploring = "checkout" /\ CheckoutNext
        /\ UNCHANGED <<installVars, refundVars, prepareVars>>
     \/ /\ exploring = "refunds" /\ RefundNext
        /\ UNCHANGED <<installVars, checkoutVars, prepareVars>>
     \/ /\ exploring = "preparation" /\ PrepareNext
        /\ UNCHANGED <<installVars, checkoutVars, refundVars>>

CounterSpec == CounterInit /\ [][CounterNext]_counterVars
=============================================================================
