SPECIFICATION FairSpec
CONSTANTS
  Threads = {t1, t2}
  Jobs = {j1, j2}
  MaxWaits = 3
INVARIANTS SeenByStopping LastLeavesNoneRunnable
PROPERTIES QueueIsServed StopEnds
