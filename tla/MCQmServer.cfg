CONSTANTS
  Absent = Absent
  NoETag = NoETag
  NoCall = NoCall
  Seed = Seed
  UnsafeMaps = TRUE
  Requests = {q1, q2}
  TestCases = {case, strange}
  TestPlans = {plan}
  TestScripts = {script}
  TestResults = {result}
  TestExecutionRecords = {record}
  Foreign = {strange}
  Uris = {case, strange, plan, script, result, record}
  Repositories = {{case, strange}, {plan}, {script}, {result}, {record}}
  Seeded = {case, plan, script, result, record}
SPECIFICATION Spec
SYMMETRY Symmetry
INVARIANTS
  StoredBySuccess
  FailsOnlyInARace
