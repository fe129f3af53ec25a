SPECIFICATION Spec
CONSTANTS
  Timers = {1, 2}
  Periods = {1, 2}
  Collectors = {c1, c2}
  MaxTimeout = 2
  RolloverGap = 0
  MaxTime = 1
  MaxSetBacks = 1
SYMMETRY CollectorSymmetry
INVARIANTS TypeOK ArmedIffListed WakeupNotLost
PROPERTIES OverIsFinal NoEarlyFire
CHECK_DEADLOCK FALSE
