SPECIFICATION FairSpec
CONSTANTS
  r1 = r1 r2 = r2 u1 = u1 u2 = u2
  k1 = k1 k2 = k2 k3 = k3 k4 = k4 k5 = k5
  h1 = h1 h2 = h2 tick = tick Ticker = tick
  NoUser = NoUser NoKey = NoKey NoName = NoName
  Roles = {r1, r2}
  Rank <- Alphabetical
  Users = {u1, u2}
  Keys = {k1, k2, k3, k4}
  Periods = {1}
  Horizon = 1
  Broken = {r1}
  Handlers = {h1, tick}
  Operations = {"write", "periodic"}
  Exclusive = {}
  Faults = {"abort"}
PROPERTIES DueRolesRotate
