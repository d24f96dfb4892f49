\* All calls may have been served: no deadlock check.
SPECIFICATION FairSpec
CONSTANTS
  a1 = a1
  a2 = a2
  w1 = w1
  w2 = w2
  r1 = r1
  r2 = r2
  Approvals = {a1, a2}
  Workers = {w1, w2}
  Reviewers = {r1, r2}
  Decisions = {"approved", "rejected", "pending"}
  maker <- Makers
  call <- Calls
  MaxCrashes = 1
INVARIANTS
  TypeOK
  SoleAnswer
  GaugesAddUp
PROPERTIES
  AnswerIsFinal
  OverdueExpires
CHECK_DEADLOCK FALSE
