SPECIFICATION Spec
CONSTANTS
  Threads = {t1, t2}
  Jobs = {j1}
  MaxWaits = 2
INVARIANTS LastLeavesNothing
