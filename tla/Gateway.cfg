SPECIFICATION GatewayFairSpec
CONSTANTS
  h1 = h1
  h2 = h2
  c1 = c1
  Handlers = {h1, h2}
  Callers = {c1}
  callerOf <- OneCaller
  Limit = 2
  Window = 2
  MaxCount = 4
  MaxFaults = 1
INVARIANTS
  GatewayTypeOK
  AdmittedIsBounded
PROPERTIES
  RefusedForCause
  CountsRunOut
  EveryRequestIsAnswered
