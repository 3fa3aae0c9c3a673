SPECIFICATION Spec
CONSTANTS
  good = good
  bad = bad
  Histories <- PunctualOnly
  Right = good
  Interval = 2
  MaxCrashes = 1
  MaxFails = 0
INVARIANTS NoEventDropped
CHECK_DEADLOCK FALSE
