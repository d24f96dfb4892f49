\* Two messages share one prefetch slot, and Redis may lose its keys at any moment.
SPECIFICATION FairSpec
CONSTANTS
  t1 = t1
  t2 = t2
  Tasks = {t1, t2}
  Prefetch = 1
  MessageTTL = 1
  MarkerTTL = 1
  RedisForgets = TRUE
  MaxFaults = 1
  MaxTime = 1
PROPERTIES
  KeepsItsPromise
  EveryMessageIsSettled
