SPECIFICATION FairSpec
CONSTANTS
  f1 = f1
  f2 = f2
  a1 = a1
  a2 = a2
  t1 = t1
  loop = loop
  Feeds = {f1, f2}
  Articles = {a1, a2}
  Tasks = {t1}
  Loop = loop
  feedsOf <- Requests
  Window = 2
  MaxFaults = 1
  MaxRestarts = 1
INVARIANTS
  TypeOK
  ArticlesAreAccountedFor
PROPERTY EveryArticleIsMet
