CONSTANTS
  Absent = Absent
  NoETag = NoETag
  NoCall = NoCall
  Seed = Seed
  Requests = {q1, q2}
  Requirements = {req, other}
  Collections = {coll}
  Uris = {req, other, coll}
  Seeded = {req}
SPECIFICATION FairSpec
INVARIANTS
  StoredIsIndexed
  SearchFailsOverDeleted
PROPERTIES
  ImplementsTrackedStore
  CreatedIsFound
