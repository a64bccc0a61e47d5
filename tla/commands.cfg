SPECIFICATION FairSpec
CONSTANTS
  t = t  n = n  p1 = p1  p2 = p2
  Hosts = {t, n}
  Transactional = {t}
  Pkgs = {p1, p2}
  MaxFaults = 1
  MaxForeign = 1
  Commands = {"install", "run", "prepare", "update", "downgrade", "reboot", "assign", "unassign"}
  MaxCommands = 1
  Required <- MCRequired
  OptionSets <- MCOptions
INVARIANTS NoInertSnapshot DowngradedMeansReverted AbortLeavesNothing LockLeftIsNoted
PROPERTIES ChangesUnderLock NoFailedBoot LeftOutNotBooted CommandEnds
CHECK_DEADLOCK FALSE
