CONSTANTS
  Requests = {q1, q2, q3}
  sp_single = sp_single
  second = second
  Infos <- McInfos
  Unknown = {unknown}
  Nobody = Nobody
SPECIFICATION FairSpec
CHECK_DEADLOCK FALSE
INVARIANTS
  TypeOK
  RegisteredOnce
  NoRacyAccess
  AnswersComplete
PROPERTY LaterCallsReturn
