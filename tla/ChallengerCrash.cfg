SPECIFICATION FairSpec
CONSTANTS
  good = good
  bad = bad
  Histories <- Scenarios
  Right = good
  Interval = 2
  MaxCrashes = 2
  MaxFails = 1
INVARIANTS
  TypeOK
  EventsKept
  WrongChallenged
  TimeoutChallenged
  NoSilentTimeout
  ChallengesFounded
  MemoryMatchesDB
  NoTreePassed
PROPERTIES
  PendingHandled
  AllBlocksSynced
CHECK_DEADLOCK FALSE
