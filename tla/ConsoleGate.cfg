SPECIFICATION FairSpec
CONSTANTS
  MaxRuns = 1
  MaxCuts = 1
  MaxFailures = 1
  MaxChoices = 1
INVARIANTS
  TypeOK
  ReloadVouches
PROPERTIES
  OnlyDiscardStrands
  
  FenceLifts
CHECK_DEADLOCK FALSE
