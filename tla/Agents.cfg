SPECIFICATION FairSpec
CONSTANTS
  t1 = t1
  t2 = t2
  t3 = t3
  a1 = a1
  a2 = a2
  None = None
  Tasks = {t1, t2, t3}
  Articles = {a1, a2}
  articleOf <- Given
  Agents = {"research", "claims", "clustering", "verification", "summary", "report",
            "context", "security"}
  MaxItems = 2
  MaxFaults = 1
INVARIANTS
  TypeOK
  AnnouncedFitsReport
  ClustersAreAnnounced
  OneEntryPerArticle
PROPERTY EveryTaskEnds
CHECK_DEADLOCK FALSE
