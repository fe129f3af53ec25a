SPECIFICATION Spec
CONSTANTS
  Tasks = {t1, t2}
  Conns = {c1, c2, c3}
  MaxRequest = 3
  MaxAliveTime = 3
  Now = 10
  None = None
INVARIANTS OneOwner ConnsAccounted PooledIsQuiet
PROPERTY OwnResponse
