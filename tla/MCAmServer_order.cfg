CONSTANTS
  Absent = Absent
  NoETag = NoETag
  NoCall = NoCall
  Seed = Seed
  UnsafeMaps = FALSE
  Requests = {q1, q2, q3}
  Resources = {res}
  LinkTypes = {}
  Uris = {res}
  Seeded = {res}
SPECIFICATION Spec
INVARIANT LogEndsAsStored
