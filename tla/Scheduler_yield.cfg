SPECIFICATION FairSpec
CONSTANTS
  Workers = {w1, w2}
  Caller = c
  Fibers = {f1, f2, f3, f4}
  Jobs = {j1, j2}
  FiberJobs = {j2}
  Pins = {None, w1}
  SpawnPins = {None}
  Ops = {"spawn", "ready", "throw"}
  MaxOps = 2
  None = None
INVARIANTS TypeOK CountersExact ResumesStoppedFiber SwapInAssertion StopIsClean
PROPERTIES EveryJobEnds StopReturns
