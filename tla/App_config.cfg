SPECIFICATION FairSpec
CONSTANTS
  Loader = loader
  Callers = {loader, s1, s2}
  Values = {A, B}
  Default = A
  Bad = Bad
  MaxTime = 3
  MaxRestarts = 2
INVARIANTS WorkerStartsFresh CopyIsValue
PROPERTIES CrashIsFollowed
