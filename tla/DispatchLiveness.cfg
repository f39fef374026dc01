\* Two requests of one attempt; lost answers, Retry-After, offline spells, restarts.
SPECIFICATION FairSpec
CONSTANTS
  a1 = a1
  a2 = a2
  k1 = k1
  k2 = k2
  NoKey = NoKey
  Reconciler = Reconciler
  Attempt = {a1}
  Key = {k1, k2}
  AttemptOf <- OneAttempt
  Faults = {"lost", "busy", "offline", "crash"}
  MaxFaults = 3
PROPERTIES ReconcilerFinishes
