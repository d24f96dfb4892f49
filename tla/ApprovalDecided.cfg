SPECIFICATION Spec
CONSTANTS
  a1 = a1
  a2 = a2
  w1 = w1
  w2 = w2
  r1 = r1
  r2 = r2
  Approvals = {a1}
  Workers = {w1, w2}
  Reviewers = {r1, r2}
  Decisions = {"approved", "rejected"}
  maker <- Maker
  call <- Calls
  MaxCrashes = 0
PROPERTY OnlyPendingMoves
CHECK_DEADLOCK FALSE
