SPECIFICATION Spec
CONSTANTS
  w1 = w1
  w2 = w2
  l1 = l1
  q1 = q1
  k1 = k1
  None = None
  Working = {w1, w2}
  Lasting = {l1}
  Searches = {q1}
  keyOf <- OneKey
  WORKING_MEMORY_TTL = 2
  MaxLeft = 1
  MaxFaults = 2
INVARIANTS
  TypeOK
  NoEternalKey
  ArchivedOnlyByText
PROPERTY KeepsItsPromise
CHECK_DEADLOCK FALSE
