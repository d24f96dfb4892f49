\* The thresholds of the code, a tick being 30 seconds.
SPECIFICATION FairSpec
CONSTANTS
  a1 = a1
  a2 = a2
  w1 = w1
  w2 = w2
  Agents = {a1}
  Workers = {w1}
  Threshold = 3
  Window = 4
  Period = 1
  Slack = 1
  Interval = 1
  RegisterTries = 5
  MaxManual = 2
INVARIANT TypeOK
PROPERTIES
  KeepsItsPromise
  ComesBack
