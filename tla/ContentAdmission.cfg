SPECIFICATION FairSpec
CONSTANTS
  h1 = h1
  h2 = h2
  s1 = s1
  b1 = b1
  Translate = Translate
  Restore = Restore
  NoProducer = NoProducer
  NoActor = NoActor
  Handlers <- MCHandlers
  Sessions <- MCSessions
  Builders <- MCBuilders
  Editors <- MCEditors
  Producers <- MCProducers
  Actors <- MCActors
  MaxRestores = 2
INVARIANTS
  TypeOK
  OneContent
  NestedShareSafe
PROPERTIES
  ClaimsEnd
  HandlersEnd
