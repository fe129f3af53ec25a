SPECIFICATION Spec
CONSTANTS
  Fds = {fd1}
  Events = {"READ", "WRITE"}
  Waiters = {w1, w2}
  Dispatchers = {d1}
  Ops = {"error"}
  None = None
INVARIANTS TriggerAssertion
