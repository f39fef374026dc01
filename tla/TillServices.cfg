\* The seven services and the catalog gate one after the other, each at the bounds the README gives.
SPECIFICATION TillSpec
CONSTANTS
  Services = {"ledger", "dispositions", "entities", "heartbeat", "access", "printing", "connectivity", "catalog"}
  g1 = g1
  Grants = {g1}
  Granted = 2
  MaxSales = 2
  MaxAnswers = 1
  MaxFaults = 1
  Quarantined = 2
  Proofs <- TwoProofs
  Batch = 2
  MaxUpsets = 1
  Clerks = {"a", "b"}
  MaxRequests = 2
  MaxMishaps = 2
  MinGap = 2
  Intervals = {2}
  Windows <- TwoWindows
  DeniedWaits = {3}
  RetryWaits = {2}
  MaxEpoch = 2
  MaxNaps = 1
  MaxSignIns = 2
  MaxEvals = 2
  MaxChanges = 1
  MaxSold = 1
  MaxByHand = 1
  MaxLine = 2
  MaxJams = 1
  MaxOutages = 3
  MaxRevision = 2
  MaxHolds = 2
  MaxDraft = 2
  MaxWire = 1
  MaxTrouble = 1
INVARIANTS
  TillTypeOK
  SilentWhenOnline
  AllowanceHolds
  HonestEvidenceNeverHolds
  DeclaredIsWhole
  FiledIsCoherent
  HandedOverUnsent
  SettledAgrees
  OneOriginal
PROPERTIES
  RecoveryFinishes
  FiledForItsOwner
  DecisionReaches
  CreateSettles
  PromisedQuiet
  PresenceReturns
  AccessOnlyForward
  Recovers
  HoldEnds
\* Bounds on requests, sales, sessions and faults end every behaviour.
CHECK_DEADLOCK FALSE
