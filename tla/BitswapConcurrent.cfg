SPECIFICATION FairSpec
CONSTANTS
  Cids = {c1, c2}
  Tasks = {t1, t2}
  Workers = {w1}
  Tokens = {k1}
  None = None
  Concurrent = TRUE
INVARIANTS
  RightBlock
  CancelStaysWithinBlock
  AnnouncedByCreator
PROPERTIES
  RemovedForGood
  WantAsyncReturns
