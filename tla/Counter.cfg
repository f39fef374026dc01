SPECIFICATION CounterSpec
CONSTANTS
  Scenes = {"install", "checkout", "refunds", "preparation"}
  MaxRevision = 2
  MaxHolds = 2
  MaxDraft = 4
  MaxWire = 1
  MaxTrouble = 1
  MaxItems = 2
  MaxKeys = 2
  MaxShifts = 2
  MaxCalls = 2
  Mishaps = {"refuse", "reject", "disk", "reload", "crash", "return", "lost", "away", "unrecorded"}
  MaxMishaps = 1
  Cashiers = {"a", "b"}
  SoldLines <- ThreeUnits
  MaxReviews = 2
  MaxSends = 2
  MaxMistakes = 2
  Product = {"p", "q"}
  MaxOperations = 2
  MaxRuns = 2
  MaxPolicy = 2
  MaxSetbacks = 2
INVARIANTS CounterTypeOK SoldOnce CartFrozen RefundsAgree MoneyConserved NoBlindRequest
PROPERTIES ClaimStands SoldAsRead
\* The bounds end every behaviour.
CHECK_DEADLOCK FALSE
