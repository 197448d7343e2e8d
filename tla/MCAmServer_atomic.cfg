CONSTANTS
  Absent = Absent
  NoETag = NoETag
  NoCall = NoCall
  Seed = Seed
  UnsafeMaps = FALSE
  Requests = {q1, q2, q3}
  Resources = {res}
  LinkTypes = {link}
  Uris = {res, link}
  Seeded = {res}
SPECIFICATION Spec
SYMMETRY Symmetry
INVARIANTS
  TypeOK
  AnswersMatchLog
  StoredBySuccess
  StoredIsTracked
  KeptUntilDeleted
  IfMatchRespectsThePast
PROPERTY ImplementsTrackedStore
