SPECIFICATION FairSpec
CONSTANTS
  c1 = c1  c2 = c2  t1 = t1  t2 = t2
  Call = {c1, c2}
  Template = {t1, t2}
  Requests <- MixedRequests
  MaxActive = 2
  MaxCompleted = 1
  None = None
INVARIANTS TypeOK SnapshotCurrent NoStrandedLock  HistoryBounded
PROPERTIES CancelReplies JobEndsOnce PassedOverForReason
