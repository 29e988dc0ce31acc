SPECIFICATION Spec
CONSTANTS
  k1 = k1 k2 = k2 u1 = u1 u2 = u2 acc1 = acc1 acc2 = acc2 ra = ra rb = rb h1 = h1 h2 = h2
  NoUser = NoUser NoAccount = NoAccount NoRole = NoRole
  Keys = {k1, k2}
  Rank <- AnyOrder
  Undeletable = {}
  Users = {u1}
  Accounts = {acc1}
  AccountOf <- Home1
  Roles = {ra}
  Foreign <- StaticAndDated
  StaticLooking = {}
  RoleSettings <- Modest
  Ages = {3}
  Handlers = {h1, h2}
  MountTTL = 2
  MountMax = 2
  Latency = 1
  AgeCap = 3
  Faults = {"abort", "lost"}
SYMMETRY KeyHandlerSymmetry
INVARIANTS TypeOK LeasedKeyWorks EndedLeaseLeavesNoKey
PROPERTIES KeysDeletedForCause OrphansOnlyByFailure KeysInCustody
