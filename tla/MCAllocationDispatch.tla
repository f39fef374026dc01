------------------------ MODULE MCAllocationDispatch ------------------------
(* Small instances of AllocationDispatch for TLC.                          *)
EXTENDS AllocationDispatch, TLC

CONSTANTS a1, a2, k1, k2

(* One attempt with two deficits; two attempts with one deficit each.      *)
OneAttempt == k1 :> a1 @@ k2 :> a1
TwoAttempts == k1 :> a1 @@ k2 :> a2
OneKey == k1 :> a1

=============================================================================
