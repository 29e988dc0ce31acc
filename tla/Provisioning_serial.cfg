SPECIFICATION Spec
CONSTANTS
  x = x  y = y  new = new  old = old  cdn = cdn  bare = bare
  own = own  reader = reader  admin = admin  s3x = s3x  s3y = s3y
  h1 = h1  h2 = h2  k1 = k1  k2 = k2
  NoUser = NoUser  NoKey = NoKey  NoName = NoName  NoBucket = NoBucket
  Roles = {x, y}
  Static = {y}
  Twin <- NoTwin
  UserName <- OneName
  ReaderName = reader
  AdminName = admin
  Foreigners <- Namesakes
  Asked <- Bound
  Slots <- ThreeUsers
  Keys = {k1}
  Buckets = {old}
  Statements = {cdn, bare}
  Blanket = {}
  Legible <- Stripped
  Initially <- Before
  Handlers = {h1}
  Operations = {"write", "refuse", "delete", "forget", "adopt", "drop"}
  Exclusive = {}
  Faults = {"fail", "lost", "die"}
INVARIANTS TypeOK BoundUsersKept
PROPERTIES RolesServed
