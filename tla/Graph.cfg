\* Every graph over three nodes and one dangling dependency; no symmetry, since action
\* and temporal properties are checked as well.
SPECIFICATION FairSpec
CONSTANTS
  n1 = n1
  n2 = n2
  n3 = n3
  ghost = ghost
  Nodes = {n1, n2, n3}
  Unknown = {ghost}
  RowWrites <- FewStatuses
INVARIANTS
  TypeOK
  DispatchInOrder
  NothingRunsBelowAFailure
  CompletedMeansAllRan
PROPERTIES
  ImplementsSchedule
  Terminates
