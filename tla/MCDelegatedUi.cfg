CONSTANTS
  a = a
  b = b
  c = c
  Items <- McItems
  Quoted <- McQuoted
  Misread <- McMisread
  Terms <- McTerms
  Tables <- McTables
  Limit = 1
  Created <- McCreated
  Foreign = {c}
  MaxActs = 3
SPECIFICATION DialogFairSpec
CHECK_DEADLOCK FALSE
INVARIANTS
  ListShowsLastSearch
  PresentedWasSelected
  SmallStoresAreSearchedWhole
  LastCreationIsPresented
PROPERTY AnswersAreShown
