SPECIFICATION Spec
CONSTANTS
  r1 = r1 r2 = r2 u1 = u1 u2 = u2
  k1 = k1 k2 = k2 k3 = k3 k4 = k4 k5 = k5
  h1 = h1 h2 = h2 tick = tick Ticker = tick
  NoUser = NoUser NoKey = NoKey NoName = NoName
  Roles = {r1, r2}
  Rank <- Alphabetical
  Users = {u1, u2}
  Keys = {k1, k2, k3, k4, k5}
  Periods = {0, 1}
  Horizon = 1
  Broken = {}
  Handlers = {h1, h2, tick}
  Operations = {"write", "rotate", "periodic", "delete", "config"}
  Exclusive = {"write", "rotate", "periodic", "delete"}
  Faults = {"abort", "lost", "removal"}
SYMMETRY Symmetry
INVARIANTS StoredKeyWorks OwnUser
PROPERTIES UnscheduledKeyStable StraysOnlyByFailure KeysInCustody
