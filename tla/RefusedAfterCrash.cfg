\* The process dies while a request is on its way; the next send is denied.
SPECIFICATION Spec
CONSTANTS
  a1 = a1
  a2 = a2
  k1 = k1
  k2 = k2
  NoKey = NoKey
  Reconciler = Reconciler
  Attempt = {a1}
  Key = {k1}
  AttemptOf <- OneKey
  Faults = {"denied", "crash"}
  MaxFaults = 2
INVARIANTS RefusedIsUnheld
