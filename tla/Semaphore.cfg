SPECIFICATION SemFairSpec
CONSTANTS
  Workers = {w1, w2}
  Caller = None
  Fibers = {f1, f2, f3, f4}
  Jobs = {j1, j2, j3}
  FiberJobs = {j1}
  Users = {j2, j3}
  Permits = 1
  Pins = {None}
  SpawnPins = {None}
  Ops = {"spawn", "wait"}
  MaxOps = 3
  None = None
INVARIANTS  NoReexecution
 
