SPECIFICATION FairSpec
CONSTANTS
  a = a  b = b  c = c  p = p  q = q  r = r
  Instance = {a, b}
  Process = {p, q, r}
  Identity <- MCApart
  Unmarked = Unmarked  Reserved = Reserved
  Comment = {Unmarked}
  Leftover <- MCUsed
  Absent = Absent  Blank = Blank  Garbled = Garbled  NotHeld = NotHeld
  ReapStale = TRUE
  StaleAge = 1
  LockWait = 1
  Retries = 2
  ForceAllowed = TRUE
  StartTime = 2
  MaxTime = 4
  MaxFaults = 1
INVARIANTS ExclusionUnlessSeized
PROPERTY CallsReturn
CHECK_DEADLOCK FALSE
