SPECIFICATION FairSpec
CONSTANTS
  e1 = e1
  e2 = e2
  p1 = p1
  p2 = p2
  Editors <- MCEditors
  Producers <- MCProducers
  NoProducer = NoProducer
  MaxSafeCounter = 5
  MaxInstances = 1
PROPERTIES
  CancelReturns
  GenerationEnds
