CONSTANTS
  a = a
  b = b
  Links <- McLinks
  Servers <- McServers
  Listed <- McListed
  AttachDelay = 1
  HideDelay = 4
  ShowDelay = 5
  FadeTimes <- McFadeTimes
  Compacts <- McCompacts
  MaxVisits = 2
SPECIFICATION FairSpec
CHECK_DEADLOCK FALSE
INVARIANTS
  AtMostOneShown
  OwnContentWhenAlone
PROPERTIES
  NoFlicker
  HiddenAtLast
