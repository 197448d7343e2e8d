CONSTANTS
  a = a
  b = b
  c = c
  d = d
  e = e
  Entries <- McEntries
  MaxInt = 3
  MaxChanges = 2
  PageSizes <- AllSizes
SPECIFICATION McSpec
CHECK_DEADLOCK FALSE
INVARIANTS
  RemovalsCostOneEach
  InsertionsAreSeenLast
PROPERTY WalkEnds
