SPECIFICATION Spec
CONSTANTS
  a = a  b = b  c = c  p = p  q = q  r = r
  Instance = {a, b, c}
  Process = {p, q, r}
  Identity <- MCApart
  Unmarked = Unmarked  Reserved = Reserved
  Comment = {Unmarked, Reserved}
  Leftover <- MCDirty
  Absent = Absent  Blank = Blank  Garbled = Garbled  NotHeld = NotHeld
  ReapStale = FALSE
  StaleAge = 1
  LockWait = 1
  Retries = 2
  ForceAllowed = FALSE
  StartTime = 0
  MaxTime = 0
  MaxFaults = 1
INVARIANTS GrantedIsVisible
PROPERTIES ImplementsMutex NoBlindOverwrite
CHECK_DEADLOCK FALSE
