SPECIFICATION Spec
CONSTANTS
  good = good
  bad = bad
  Histories <- LateOnly
  Right = good
  Interval = 2
  MaxCrashes = 1
  MaxFails = 0
INVARIANTS MismatchesRecorded
CHECK_DEADLOCK FALSE
