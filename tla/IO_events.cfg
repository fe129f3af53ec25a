SPECIFICATION FairSpec
CONSTANTS
  Fds = {fd1}
  Events = {"READ", "WRITE"}
  Waiters = {w1, w2, w3}
  Dispatchers = {d1, d2}
  Ops = {"del", "cancel", "cancelAll", "error"}
  None = None
INVARIANTS RegistrationsAgree WokenOnceOrDeleted
PROPERTIES ReadyIsServed
CHECK_DEADLOCK FALSE
