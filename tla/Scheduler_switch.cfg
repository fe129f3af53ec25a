SPECIFICATION Spec
CONSTANTS
  Workers = {w1}
  Caller = c
  Fibers = {f1, f2, f3, f4, f5}
  Jobs = {j1, j2, j3}
  FiberJobs = {j3}
  Pins = {None, w1, c}
  SpawnPins = {None, w1, c}
  Ops = {"switch", "wait", "again"}
  MaxOps = 2
  None = None
INVARIANTS NoJobLost
