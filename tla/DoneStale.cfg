SPECIFICATION Spec
CONSTANTS
  s1 = s1
  s2 = s2
  t1 = t1
  t2 = t2
  c1 = c1
  Docs = {1, 2}
  Shares = {s1}
  DoneTag <- MCDoneTag
  Threads = {t1, t2}
  Caches = {c1}
  CacheOf <- MCCacheOf
  Asks <- MCOneShare
  PageSize = 2
  Cached = TRUE
  Faults = {}
  Edited = {}
INVARIANT MoveShowsAtOnce
