SPECIFICATION FairSpec
CONSTANTS
  k1 = k1 k2 = k2 u1 = u1 u2 = u2 acc1 = acc1 acc2 = acc2 ra = ra rb = rb h1 = h1 h2 = h2
  NoUser = NoUser NoAccount = NoAccount NoRole = NoRole
  Keys = {k1, k2}
  Rank <- InOrder
  Undeletable = {k2}
  Users = {u1, u2}
  Accounts = {acc1, acc2}
  AccountOf <- Home2
  Roles = {ra}
  Foreign = {}
  StaticLooking = {}
  RoleSettings <- Renewable
  Ages = {0}
  Handlers = {h1}
  MountTTL = 2
  MountMax = 2
  Latency = 0
  AgeCap = 2
  Faults = {"abort", "lost"}
INVARIANTS EndedLeaseLeavesNoKey
PROPERTIES LeasedKeysDie OrphansSwept
