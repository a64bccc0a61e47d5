SPECIFICATION Spec
CONSTANTS
  r1 = r1  r2 = r2  u1 = u1  u2 = u2  s1 = s1  s2 = s2
  h1 = h1  h2 = h2  h3 = h3
  Report = {r1, r2}
  Host = {h1, h2, h3}
  Rrid = {u1, u2}
  RridOf <- MCRridOf
  Slot = {s1, s2}
  Candidates <- MCDisjoint
  RefHosts <- MCNoRefHosts
  Nobody = Nobody
  Foreign = Foreign
  NoHost = NoHost
  NoSlot = NoSlot
  MaxAdds = 1
  Named = {}
  MaxFaults = 0
PROPERTIES LiveSlotLeftAlone
