SPECIFICATION Spec
CONSTANTS
  t1 = t1
  t2 = t2
  Tasks = {t1}
  Prefetch = 1
  MessageTTL = 1
  MarkerTTL = 1
  RedisForgets = FALSE
  MaxFaults = 1
  MaxTime = 1
INVARIANT NoSilentLoss
