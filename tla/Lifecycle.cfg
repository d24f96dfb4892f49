\* Executions may stop by themselves: no deadlock check.
SPECIFICATION FairSpec
CONSTANTS
  wf1 = wf1
  wf2 = wf2
  k1 = k1
  NoKey = NoKey
  Workflows = {wf1, wf2}
  Keys = {k1}
  MaxFaults = 1
  MaxCrashes = 1
INVARIANTS
  TypeOK
  RowTellsVerdict
  EndedRowIsTerminal
PROPERTIES
  KeepsItsPromise
  AcceptedEnds
CHECK_DEADLOCK FALSE
