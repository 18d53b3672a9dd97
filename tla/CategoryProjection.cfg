SPECIFICATION Spec
CONSTANTS
  story = story
  event = event
  lyrics = lyrics
  category = category
  h1 = h1
  h2 = h2
  backfill = backfill
  a1 = a1
  NoWriter = NoWriter
  Keys = {category}
  Withdrawable = {}
  Serialised = {}
  Incremental = {category}
  NotifiesFirst = {category}
  Writers = {h1, h2}
  Backfill = {}
  Awaiters = {}
  MaxWrites = 2
  MaxFailures = 0
  MaxAwaits = 0
SYMMETRY MCSymmetry
INVARIANTS
  SettledIsCurrent
CHECK_DEADLOCK FALSE
