SPECIFICATION FairSpec
CONSTANTS
  story = story
  event = event
  lyrics = lyrics
  category = category
  h1 = h1
  h2 = h2
  backfill = backfill
  a1 = a1
  NoWriter = NoWriter
  Keys = {lyrics}
  Withdrawable = {}
  Serialised = {}
  Incremental = {}
  NotifiesFirst = {lyrics}
  Writers = {h1}
  Backfill = {}
  Awaiters = {a1}
  MaxWrites = 2
  MaxFailures = 1
  MaxAwaits = 1
INVARIANTS
  SettledIsCurrent
  AwaitTruth
PROPERTIES
  RequestsPublished
CHECK_DEADLOCK FALSE
