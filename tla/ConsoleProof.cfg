SPECIFICATION Spec
CONSTANTS
  MaxRuns = 1
  MaxCuts = 0
  MaxFailures = 0
  MaxChoices = 1
INVARIANTS
  SaveOnLoadedContent
