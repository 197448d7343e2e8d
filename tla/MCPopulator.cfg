CONSTANTS
  f = f
  g = g
  e = e
  Inits <- McInits
  Factories <- McFactories
  Count <- McCount
  MaxRetries = 2
  Threads = 3
  Edits = {e}
SPECIFICATION FairSpec
CHECK_DEADLOCK FALSE
INVARIANTS
  ListsAreExact
  LinksMatchUp
  EditsAreKept
PROPERTY Ends
