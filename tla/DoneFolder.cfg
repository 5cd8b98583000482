SPECIFICATION FairSpec
CONSTANTS
  s1 = s1
  s2 = s2
  t1 = t1
  t2 = t2
  c1 = c1
  Docs = {1, 2}
  Shares = {s1, s2}
  DoneTag <- MCDoneTag
  Threads = {t1, t2}
  Caches = {c1}
  CacheOf <- MCCacheOf
  Asks <- MCAsks
  PageSize = 1
  Cached = TRUE
  Faults = {"read", "write"}
  Edited = {2}
INVARIANTS TypeOK OnlyOverlapsAreStale
PROPERTIES ListsSettle TakesBackOnlyOverlaps ImplementsDoneSet
