\* A completion's send is lost; connectivity stays up.
SPECIFICATION FairSpec
CONSTANTS
  a1 = a1
  a2 = a2
  k1 = k1
  k2 = k2
  NoKey = NoKey
  Reconciler = Reconciler
  Attempt = {a1}
  Key = {k1}
  AttemptOf <- OneKey
  Faults = {"lost"}
  MaxFaults = 1
PROPERTIES OutstandingIsRetried
