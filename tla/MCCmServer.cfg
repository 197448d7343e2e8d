CONSTANTS
  Absent = Absent
  NoETag = NoETag
  NoCall = NoCall
  Seed = Seed
  UnsafeMaps = FALSE
  Requests = {q1, q2, q3}
  Uris = {cr, other}
  Repositories = {{cr, other}}
  Seeded = {cr}
SPECIFICATION Spec
SYMMETRY Symmetry
INVARIANTS
  KeptUntilDeleted
  DeletedOnce
  IfMatchRespectsThePast
  FailsOnlyInARace
