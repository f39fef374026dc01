\* Two attempts of one cashier, every kind of fault, two of them.
SPECIFICATION Spec
CONSTANTS
  a1 = a1
  a2 = a2
  k1 = k1
  k2 = k2
  NoKey = NoKey
  Reconciler = Reconciler
  Attempt = {a1, a2}
  Key = {k1, k2}
  AttemptOf <- TwoAttempts
  Faults = {"lost", "late", "denied", "busy", "malformed", "integrity", "disk", "offline", "crash"}
  MaxFaults = 2
INVARIANTS SoldMeansCommitted
PROPERTIES ImplementsReservation MintedWhileClaimed SettledIsFinal
