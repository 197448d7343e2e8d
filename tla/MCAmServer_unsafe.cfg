CONSTANTS
  Absent = Absent
  NoETag = NoETag
  NoCall = NoCall
  Seed = Seed
  UnsafeMaps = TRUE
  Requests = {q1, q2, q3}
  Resources = {res, other}
  LinkTypes = {link}
  Uris = {res, other, link}
  Seeded = {res}
SPECIFICATION Spec
SYMMETRY Symmetry
PROPERTY ImplementsTrackedStore
