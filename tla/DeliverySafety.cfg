SPECIFICATION Spec
CONSTANTS
  t1 = t1
  t2 = t2
  Tasks = {t1, t2}
  Prefetch = 2
  MessageTTL = 2
  MarkerTTL = 2
  RedisForgets = FALSE
  MaxFaults = 1
  MaxTime = 3
SYMMETRY Symmetry
INVARIANTS
  TypeOK
  ExecutedAtMostOnce
