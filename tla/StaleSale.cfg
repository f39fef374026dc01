SPECIFICATION InstallSpec
CONSTANTS
  MaxRevision = 2
  MaxHolds = 1
  MaxDraft = 4
  MaxWire = 1
  MaxTrouble = 0
PROPERTY SoldAsShown
\* The bounds end every behaviour.
CHECK_DEADLOCK FALSE
