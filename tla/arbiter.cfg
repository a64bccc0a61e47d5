SPECIFICATION FairSpec
CONSTANTS
  t1 = t1  t2 = t2  t3 = t3  h1 = h1  h2 = h2  o1 = o1  o2 = o2
  Task = {t1, t2, t3}
  Host = {h1, h2}
  Owner = {o1, o2}
  OwnerOf <- MCOwnerOf
  Candidates <- MCCandidates
  Nobody = Nobody
  Waits = TRUE
INVARIANTS NoLostWakeup
PROPERTIES NeverStolen CallsAnswered
