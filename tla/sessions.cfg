SPECIFICATION FairSpec
CONSTANTS
  a = a  b = b  t = t
  Session = {a, b}
  Template = {t}
  Cap = 2
  Parallel = 1
  MaxCalls = 2
  MaxStuck = 1
INVARIANTS NothingLeftBehind
PROPERTIES  ShutdownEnds IdleReclaimed
