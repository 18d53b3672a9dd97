SPECIFICATION Spec
CONSTANTS
  story = story
  event = event
  lyrics = lyrics
  category = category
  h1 = h1
  h2 = h2
  backfill = backfill
  a1 = a1
  NoWriter = NoWriter
  Keys = {story, event}
  Withdrawable = {story}
  Serialised = {story}
  Incremental = {story, event}
  NotifiesFirst = {}
  Writers = {h1, h2, backfill}
  Backfill = {backfill}
  Awaiters = {}
  MaxWrites = 2
  MaxFailures = 2
  MaxAwaits = 0
SYMMETRY MCSymmetry
INVARIANTS
  SettledIsCurrent
  PublishedStaysServed
PROPERTIES
  SwapNeverBackwards
CHECK_DEADLOCK FALSE
