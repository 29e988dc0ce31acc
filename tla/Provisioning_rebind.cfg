SPECIFICATION Spec
CONSTANTS
  x = x  y = y  new = new  old = old  cdn = cdn  bare = bare
  own = own  reader = reader  admin = admin  s3x = s3x  s3y = s3y
  h1 = h1  h2 = h2  k1 = k1  k2 = k2
  NoUser = NoUser  NoKey = NoKey  NoName = NoName  NoBucket = NoBucket
  Roles = {x}
  Static = {}
  Twin <- NoTwin
  UserName <- OneName
  ReaderName = reader
  AdminName = admin
  Foreigners <- Others
  Asked <- Bound
  Slots <- TwoAdmins
  Keys = {k1}
  Buckets = {old}
  Statements = {cdn, bare}
  Blanket = {}
  Legible <- Stripped
  Initially <- Before
  Handlers = {h1}
  Operations = {"write", "rebind", "delete"}
  Exclusive = {}
  Faults = {}
INVARIANTS ForeignUsersKept
