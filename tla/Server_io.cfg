SPECIFICATION FairSpec
CONSTANTS
  Fds = {l, c}
  Listeners = {l}
  Conns = {c}
  None = None
INVARIANTS WaitIsRegistered TimeoutIsOwn ConnectIsHonest AtMostOneAfterStop
PROPERTIES TimedCallReturns StopEndsWithNextClient
CHECK_DEADLOCK FALSE
