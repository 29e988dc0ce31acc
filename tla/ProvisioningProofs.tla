-------------------------- MODULE ProvisioningProofs --------------------------
(***************************************************************************)
(* Theorems about Provisioning that hold whatever requests work on one     *)
(* role or one bucket at a time: its type, what becomes of temporary users *)
(* and keys, which users of others are left alone, and that policies the   *)
(* engine writes name its reader.  Changes of policies are at the end.     *)
(***************************************************************************)
EXTENDS Provisioning, TLAPS

Reading == {"reader", "newreader", "key", "get", "unkey", "admin", "put", "unadmin"}

(* What a request's stage tells of the rest of it.                         *)
CallOK(c) ==
  /\ c \in Calls
  /\ c.op = "none" <=> c.pc = "idle"
  /\ c.pc = "idle" => c = Idle
  /\ c.pc \in {"find", "create", "store"} => c.op = "write"
  /\ c.pc \in {"remove", "forget"} => c.op = "delete"
  /\ c.pc = "remove" => c.mine.named
  /\ c.pc \in Reading => c.mine.bucket \in Buckets
  /\ c.op \in {"write", "delete"} => c.role \in Roles
  /\ c.op \notin {"write", "delete"} => c.role = NoName /\ c.mine.user = NoUser /\ ~c.mine.named
  /\ c.op = "delete" => c.mine.user \in Users
  /\ c.op = "write" => (c.mine.user = NoUser <=> c.pc \in {"find", "create"})
  /\ c.pc \in Reading \ {"reader", "newreader"} /\ c.op \in {"write", "adopt"} => c.reader # NoUser
  /\ c.via # NoUser <=> c.pc \in {"key", "get", "unkey"}
  /\ c.key # NoKey => c.pc \in {"get", "unkey"}
  /\ IF c.pc \in {"put", "unadmin"} THEN c.admin \in Users /\ c.admin[1] = AdminName
     ELSE c.admin = NoUser

RolesOK == \A r \in Roles : Stored(r) => role[r].user \in Users

CallsOK == \A h \in Handlers : CallOK(call[h])

(* A step of one request.                                                  *)
Moves(h) == \E d : CallOK(d) /\ call' = [call EXCEPT ![h] = d]

-----------------------------------------------------------------------------
LEMMA Blank ==
  /\ NoPolicy \in Policies(Users, Statements)
  /\ NoRole \in RoleRecords
  /\ Idle \in Calls /\ CallOK(Idle)
  /\ \A b \in Buckets : Initially[b] \in Policies(Users, Statements)
<1>1. NoPolicy \in Policies(Users, Statements)
  BY DEF NoPolicy, Policies
<1>2. NoRole \in RoleRecords
  BY DEF NoRole, RoleRecords
<1>3. Idle \in Calls
  BY <1>1, <1>2 DEF Idle, Calls
<1>4. CallOK(Idle)
  BY <1>3 DEF CallOK, Idle, NoRole, Reading
<1>5. \A b \in Buckets : Initially[b] \in Policies(Users, Statements)
  BY ConstantsAssumption DEF Policies
<1> QED BY <1>1, <1>2, <1>3, <1>4, <1>5

LEMMA UsersNamed ==
  /\ \A r \in Roles : UserName[r] # AdminName
  /\ ReaderName # AdminName
  /\ Foreigners \subseteq Users
  /\ \A u \in Foreigners : u[1] \notin {ReaderName, AdminName}
BY ConstantsAssumption

(* What a request makes of a policy is a policy.                           *)
LEMMA ChangeTyped ==
  ASSUME NEW c, CallOK(c), NEW p \in Policies(Users, Statements), c.pc \in Reading,
         c.op \in {"write", "adopt"} => c.reader # NoUser
  PROVE  Change(c, p) \in Policies(Users, Statements)
<1>1. CASE c.op = "write"
  <2>1. c.mine.user \in Users /\ c.reader \in Users
    BY <1>1 DEF CallOK, Calls, RoleRecords, Reading
  <2>2. Change(c, p) = grantPolicyRead(grantBucketAccess(p, c.mine.user), c.reader)
    BY <1>1 DEF Change
  <2>3. grantBucketAccess(p, c.mine.user) \in Policies(Users, Statements)
    BY <2>1 DEF grantBucketAccess, Policies
  <2> QED BY <2>1, <2>2, <2>3 DEF grantPolicyRead, Policies
<1>2. CASE c.op = "delete"
  <2>1. Change(c, p) = revokeBucketAccess(p, c.mine.user)
    BY <1>2 DEF Change
  <2> QED BY <2>1 DEF revokeBucketAccess, Policies
<1>3. CASE c.op = "adopt"
  <2>1. c.reader \in Users
    BY <1>3 DEF CallOK, Calls
  <2>2. Change(c, p) = grantPolicyRead(p, c.reader)
    BY <1>3 DEF Change
  <2> QED BY <2>1, <2>2 DEF grantPolicyRead, Policies
<1>4. CASE c.op = "drop"
  <2>1. Change(c, p) = dropStatements(p, c.sids)
    BY <1>4 DEF Change
  <2> QED BY <2>1 DEF dropStatements, Policies
<1>5. CASE c.op \notin {"write", "delete", "adopt", "drop"}
  BY <1>5 DEF Change
<1> QED BY <1>1, <1>2, <1>3, <1>4, <1>5

LEMMA OnwardMoves ==
  ASSUME NEW h \in Handlers, CallOK(call[h]), call[h].pc \in Reading, Onward(h)
  PROVE  Moves(h)
<1> DEFINE c == call[h]
           d(pc) == [Idle EXCEPT !.pc = pc, !.op = c.op, !.role = c.role, !.mine = c.mine]
<1>1. CASE c.op = "write"
  <2>1. call' = [call EXCEPT ![h] = d("store")]
    BY <1>1 DEF Onward, Go
  <2>2. d("store") \in Calls
    BY <1>1, Blank DEF CallOK, Calls
  <2>3. CallOK(d("store"))
    BY <1>1, <2>2 DEF CallOK, Idle, Calls, Reading
  <2> QED BY <2>1, <2>3 DEF Moves
<1>2. CASE c.op = "delete"
  <2> DEFINE pc == Removal(c.mine)
  <2>1. call' = [call EXCEPT ![h] = d(pc)]
    BY <1>2 DEF Onward, Go
  <2>0. pc \in {"remove", "forget"} /\ (pc = "remove" => c.mine.named)
    BY DEF Removal
  <2> HIDE DEF pc
  <2>2. d(pc) \in Calls
    BY <1>2, <2>0, Blank DEF CallOK, Calls
  <2>3. CallOK(d(pc))
    BY <1>2, <2>0, <2>2 DEF CallOK, Idle, Calls, Reading
  <2> QED BY <2>1, <2>3 DEF Moves
<1>3. CASE c.op \notin {"write", "delete"}
  BY <1>3, Blank DEF Onward, Finish, Go, Moves
<1> QED BY <1>1, <1>2, <1>3

(* A request that has read the policy, or could not.                       *)
Edits(h, c) ==
  /\ call[h].pc \in {"reader", "newreader", "key", "unkey"}
  /\ ~Naming(h)
  /\ c = call[h] \/ c = [call[h] EXCEPT !.failed = TRUE]
  /\ Edit(h, c)

LEMMA EditMoves ==
  ASSUME NEW h \in Handlers, CallOK(call[h]), NEW c, Edits(h, c)
  PROVE  Moves(h)
<1>0. /\ call[h] \in Calls /\ call[h].pc \in {"reader", "newreader", "key", "unkey"}
      /\ call[h].op \in {"write", "adopt"} => call[h].reader # NoUser
      /\ c = call[h] \/ c = [call[h] EXCEPT !.failed = TRUE]
  BY DEF Edits, Naming, CallOK
<1>1. /\ c \in Calls /\ c.pc \in Reading /\ c.pc \in {"reader", "newreader", "key", "unkey"} /\ c.pc = call[h].pc /\ c.op = call[h].op
      /\ c.mine = call[h].mine /\ c.reader = call[h].reader /\ c.role = call[h].role /\ c.admin = call[h].admin
      /\ c.op \in {"write", "adopt"} => c.reader # NoUser
  <2>1. CASE c = call[h]
    BY <1>0, <2>1 DEF Reading
  <2>2. CASE c = [call[h] EXCEPT !.failed = TRUE]
    BY <1>0, <2>2 DEF Calls, Reading
  <2> QED BY <1>0, <2>1, <2>2
<1> DEFINE from == Decoded(adoptedPolicy(c), Legible)
           to == Change(c, from)
           d == [c EXCEPT !.pc = "admin", !.via = NoUser, !.key = NoKey, !.read = to, !.failed = FALSE]
<1>2. from \in Policies(Users, Statements)
  <2>1. c.mine.bucket \in Buckets
    BY <1>1 DEF CallOK, Calls, RoleRecords
  <2>2. adoptedPolicy(c) \in Policies(Users, Statements)
    BY <1>1, <2>1, Blank DEF adoptedPolicy, Calls
  <2> QED BY <2>2, ConstantsAssumption DEF Decoded, Policies
<1>3. CallOK(c)
  BY <1>1 DEF CallOK, Edits, Calls, Reading
<1>4. to \in Policies(Users, Statements)
  BY <1>1, <1>2, <1>3, ChangeTyped
<1>5. CallOK(d)
  <2> HIDE DEF to
  <2>1. d \in Calls
    BY <1>1, <1>4 DEF Calls
  <2>2. /\ d.pc = "admin" /\ d.op = c.op /\ d.role = c.role /\ d.mine = c.mine /\ d.reader = c.reader
        /\ d.via = NoUser /\ d.key = NoKey /\ d.admin = c.admin
    BY <1>1 DEF Calls
  <2> HIDE DEF d
  <2> QED BY <1>1, <1>3, <2>1, <2>2 DEF CallOK, Reading
<1>6. Finish(h) \/ Onward(h) \/ Go(h, d)
  BY DEF Edits, Edit
<1>8. CASE Finish(h)
  BY <1>8, Blank DEF Finish, Go, Moves
<1>9. CASE Onward(h)
  BY <1>1, <1>9, OnwardMoves
<1>10. CASE Go(h, d)
  BY <1>5, <1>10 DEF Go, Moves
<1> QED BY <1>6, <1>8, <1>9, <1>10

-----------------------------------------------------------------------------
(* Every step of a request leaves it in a stage its fields agree with.     *)
LEMMA StepMoves ==
  ASSUME TypeOK, RolesOK, CallsOK, NEW h \in Handlers, Step(h)
  PROVE  Moves(h) \/ UNCHANGED call
<1> DEFINE c == call[h]
<1>0. CallOK(c) /\ c \in Calls
  BY DEF CallsOK, CallOK
<1>1. ASSUME NEW d, CallOK(d), Go(h, d) PROVE Moves(h)
  BY <1>1 DEF Go, Moves
<1>2. CASE Finish(h)
  BY <1>1, <1>2, Blank DEF Finish
<1>3. ASSUME NEW r \in Roles, NEW u \in Users \cup {NoUser}, NEW b \in Buckets \cup {NoBucket},
             WriteBegin(h, r, u, b)
      PROVE  Moves(h)
  <2> DEFINE pc == IF u = NoUser THEN "find" ELSE Granting(b)
             mine == [user |-> u, named |-> role[r].named, bucket |-> b]
             d == [Idle EXCEPT !.pc = pc, !.op = "write", !.role = r, !.mine = mine]
  <2>1. /\ pc \in {"find", "store", "reader"} /\ (pc = "reader" => b \in Buckets)
        /\ pc = "find" <=> u = NoUser
    BY DEF Granting
  <2>2. mine \in RoleRecords /\ mine.user = u /\ mine.bucket = b
    BY DEF TypeOK, RoleRecords
  <2> HIDE DEF pc, mine
  <2>3. d \in Calls
    BY <2>1, <2>2, Blank DEF Calls
  <2>4. CallOK(d)
    BY <2>1, <2>2, <2>3 DEF CallOK, Idle, Reading
  <2> QED BY <1>1, <1>3, <2>4 DEF WriteBegin, pc, mine
<1>4. ASSUME NEW u \in Users, c.pc \in {"find", "create"}, TakeUser(h, u) PROVE Moves(h)
  <2> DEFINE pc == Granting(c.mine.bucket)
             d == [c EXCEPT !.pc = pc, !.mine.user = u, !.mine.named = TRUE]
  <2>1. pc \in {"store", "reader"} /\ (pc = "reader" => c.mine.bucket \in Buckets)
    BY <1>0 DEF Granting, Calls, RoleRecords
  <2> HIDE DEF pc
  <2>2. d \in Calls
    BY <1>0, <2>1 DEF Calls, RoleRecords
  <2>3. /\ d.pc = pc /\ d.op = c.op /\ d.role = c.role /\ d.mine.user = u /\ d.mine.bucket = c.mine.bucket
        /\ d.via = c.via /\ d.key = c.key /\ d.admin = c.admin /\ d.reader = c.reader
    BY <1>0 DEF Calls, RoleRecords
  <2> HIDE DEF d
  <2>4. CallOK(d)
    BY <1>0, <1>4, <2>1, <2>2, <2>3, AbsentAssumption DEF CallOK, Reading
  <2> QED BY <1>1, <1>4, <2>4 DEF TakeUser, pc, d
<1>5. CASE FindUser(h)
  <2>1. CASE At(h, "create")
    <3> DEFINE d == [c EXCEPT !.pc = "create"]
    <3>1. d \in Calls
      BY <1>0 DEF Calls
    <3>2. CallOK(d)
      BY <1>0, <1>5, <3>1 DEF FindUser, CallOK, Calls, Reading
    <3> QED BY <1>1, <2>1, <3>2 DEF At
  <2>2. ASSUME NEW u \in Named(UserName[c.role]), TakeUser(h, u) PROVE Moves(h)
    BY <1>4, <1>5, <2>2 DEF FindUser, Named, TypeOK
  <2> QED BY <1>5, <2>1, <2>2 DEF FindUser
<1>6. CASE CreateUser(h)
  BY <1>2, <1>4, <1>6 DEF CreateUser
<1>7. CASE Store(h) \/ Refuse(h) \/ Forget(h)
  BY <1>2, <1>7 DEF Store, Refuse, Forget
<1>8. ASSUME NEW u \in Users, c.pc \in {"reader", "newreader"}, TakeReader(h, u) PROVE Moves(h)
  <2>1. CASE Naming(h)
    <3> DEFINE d == [c EXCEPT !.pc = "reader", !.reader = u]
    <3>1. d \in Calls
      BY <1>0 DEF Calls
    <3>2. CallOK(d)
      BY <1>0, <1>8, <3>1 DEF CallOK, Calls, Reading
    <3> QED BY <1>1, <1>8, <2>1, <3>2 DEF TakeReader
  <2>2. CASE ~Naming(h)
    <3> DEFINE d == [c EXCEPT !.pc = "key", !.via = u]
    <3>1. d \in Calls
      BY <1>0 DEF Calls
    <3>2. CallOK(d)
      BY <1>0, <1>8, <2>2, <3>1, AbsentAssumption DEF Naming, CallOK, Calls, Reading
    <3> QED BY <1>1, <1>8, <2>2, <3>2 DEF TakeReader
  <2> QED BY <2>1, <2>2
<1>9. CASE FindReader(h)
  <2>1. CASE At(h, "newreader")
    <3> DEFINE d == [c EXCEPT !.pc = "newreader"]
    <3>1. d \in Calls
      BY <1>0 DEF Calls
    <3>2. CallOK(d)
      BY <1>0, <1>9, <3>1 DEF FindReader, CallOK, Calls, Reading
    <3> QED BY <1>1, <2>1, <3>2 DEF At
  <2>2. ASSUME NEW u \in Named(ReaderName), TakeReader(h, u) PROVE Moves(h)
    BY <1>8, <1>9, <2>2 DEF FindReader, Named, TypeOK
  <2> QED BY <1>9, <2>1, <2>2 DEF FindReader
<1>10. CASE CreateReader(h)
  BY <1>2, <1>8, <1>10 DEF CreateReader
<1>11. CASE CreateReadKey(h)
  <2>1. PICK k \in Keys : Go(h, [c EXCEPT !.pc = "get", !.key = k])
    BY <1>11 DEF CreateReadKey
  <2> DEFINE d == [c EXCEPT !.pc = "get", !.key = k]
  <2>2. d \in Calls
    BY <1>0 DEF Calls
  <2>3. CallOK(d)
    BY <1>0, <1>11, <2>2 DEF CreateReadKey, CallOK, Calls, Reading
  <2> QED BY <1>1, <2>1, <2>3
<1>12. ASSUME NEW read \in Policies(Users, Statements), NEW failed \in BOOLEAN,
              c.pc = "get", Go(h, [c EXCEPT !.pc = "unkey", !.read = read, !.failed = failed])
       PROVE  Moves(h)
  <2> DEFINE d == [c EXCEPT !.pc = "unkey", !.read = read, !.failed = failed]
  <2>1. d \in Calls
    BY <1>0 DEF Calls
  <2>2. CallOK(d)
    BY <1>0, <1>12, <2>1 DEF CallOK, Calls, Reading
  <2> QED BY <1>1, <1>12, <2>2
<1>13. CASE GetPolicy(h)
  <2> DEFINE sees == VisibleTo(c.via, policy[c.mine.bucket], Blanket)
             read == IF sees THEN policy[c.mine.bucket] ELSE c.read
  <2>1. c.mine.bucket \in Buckets
    BY <1>0, <1>13 DEF GetPolicy, CallOK, Reading
  <2>2. read \in Policies(Users, Statements) /\ (~sees) \in BOOLEAN
    BY <1>0, <2>1 DEF TypeOK, Calls
  <2>3. c.pc = "get" /\ Go(h, [c EXCEPT !.pc = "unkey", !.read = read, !.failed = ~sees])
    BY <1>13 DEF GetPolicy
  <2> HIDE DEF sees, read
  <2> QED BY <1>12, <2>2, <2>3
<1>14. ASSUME NEW d, Edits(h, d) PROVE Moves(h)
  BY <1>0, <1>14, EditMoves
<1>15. CASE DeleteReadKey(h) \/ KeepReadKey(h)
  <2>1. Edits(h, c)
    BY <1>0, <1>15 DEF DeleteReadKey, KeepReadKey, Edits, Naming, CallOK, Reading
  <2> QED BY <1>14, <2>1
<1>16. CASE CreateAdmin(h)
  <2>1. PICK u \in Users : u[1] = AdminName /\ Go(h, [c EXCEPT !.pc = "put", !.admin = u])
    BY <1>16 DEF CreateAdmin, NewUser
  <2> DEFINE d == [c EXCEPT !.pc = "put", !.admin = u]
  <2>2. d \in Calls
    BY <1>0 DEF Calls
  <2>3. CallOK(d)
    BY <1>0, <1>16, <2>1, <2>2 DEF CreateAdmin, CallOK, Calls, Reading
  <2> QED BY <1>1, <2>1, <2>3
<1>17. ASSUME NEW failed \in BOOLEAN, c.pc = "put",
              Go(h, [c EXCEPT !.pc = "unadmin", !.read = NoPolicy, !.failed = failed])
       PROVE  Moves(h)
  <2> DEFINE d == [c EXCEPT !.pc = "unadmin", !.read = NoPolicy, !.failed = failed]
  <2>1. d \in Calls
    BY <1>0, Blank DEF Calls
  <2>2. /\ d.pc = "unadmin" /\ d.op = c.op /\ d.role = c.role /\ d.mine = c.mine
        /\ d.reader = c.reader /\ d.via = c.via /\ d.key = c.key /\ d.admin = c.admin
    BY <1>0 DEF CallOK, Calls
  <2>3. CallOK(d)
    <3> HIDE DEF d
    <3> QED BY <1>0, <1>17, <2>1, <2>2 DEF CallOK, Reading
  <2> QED BY <1>1, <1>17, <2>3
<1>18. CASE PutPolicy(h)
  BY <1>17, <1>18 DEF PutPolicy
<1>19. CASE DeleteAdmin(h)
  <2>1. c.pc = "unadmin"
    BY <1>19 DEF DeleteAdmin
  <2>2. CASE c.op = "adopt" /\ Go(h, [Idle EXCEPT !.pc = "reader", !.op = "confirm", !.mine = c.mine])
    <3> DEFINE d == [Idle EXCEPT !.pc = "reader", !.op = "confirm", !.mine = c.mine]
    <3>0. c.mine \in RoleRecords
      BY <1>0 DEF CallOK, Calls
    <3>1. d \in Calls
      BY <3>0, Blank DEF Calls
    <3>2. CallOK(d)
      BY <1>0, <2>1, <2>2, <3>1 DEF CallOK, Calls, Idle, Reading
    <3> QED BY <1>1, <2>2, <3>2
  <2>3. CASE Onward(h)
    BY <1>0, <2>1, <2>3, OnwardMoves DEF Reading
  <2> QED BY <1>2, <1>19, <2>2, <2>3 DEF DeleteAdmin
<1>20. ASSUME NEW r \in Roles, Stored(r), Go(h, Deletion(r)) PROVE Moves(h)
  <2> DEFINE pc == IF role[r].bucket = NoBucket THEN Removal(role[r]) ELSE "reader"
             d == [Idle EXCEPT !.pc = pc, !.op = "delete", !.role = r, !.mine = role[r]]
  <2>1. role[r] \in RoleRecords /\ role[r].user \in Users
    BY <1>20 DEF TypeOK, RolesOK
  <2>2. /\ pc \in {"remove", "forget", "reader"} /\ (pc = "remove" => role[r].named)
        /\ pc = "reader" => role[r].bucket \in Buckets
    BY <2>1 DEF Removal, RoleRecords
  <2>3. Go(h, d)
    BY <1>20 DEF Deletion
  <2> HIDE DEF pc
  <2>4. d \in Calls
    BY <2>1, <2>2, Blank DEF Calls
  <2>5. CallOK(d)
    BY <2>1, <2>2, <2>4 DEF CallOK, Idle, Reading
  <2> QED BY <1>1, <2>3, <2>5
<1>21. ASSUME NEW r \in Roles, DeleteBegin(h, r) PROVE Moves(h)
  BY <1>20, <1>21 DEF DeleteBegin
<1>23. CASE RemoveUser(h)
  <2>1. CASE At(h, "forget")
    <3> DEFINE d == [c EXCEPT !.pc = "forget"]
    <3>1. d \in Calls
      BY <1>0 DEF Calls
    <3>2. CallOK(d)
      BY <1>0, <1>23, <3>1 DEF RemoveUser, CallOK, Calls, Reading
    <3> QED BY <1>1, <2>1, <3>2 DEF At
  <2> QED BY <1>2, <1>23, <2>1 DEF RemoveUser
<1>24. ASSUME NEW b \in Buckets, AdoptBegin(h, b) PROVE Moves(h)
  <2> DEFINE d == [Idle EXCEPT !.pc = "reader", !.op = "adopt", !.mine.bucket = b]
  <2>1. d \in Calls
    BY Blank DEF Calls, Idle, NoRole, RoleRecords
  <2>2. CallOK(d)
    BY <2>1 DEF CallOK, Idle, NoRole, Reading
  <2> QED BY <1>1, <1>24, <2>2 DEF AdoptBegin
<1>25. ASSUME NEW b \in Buckets, NEW sids \in SUBSET Statements, DropBegin(h, b, sids) PROVE Moves(h)
  <2> DEFINE d == [Idle EXCEPT !.pc = "reader", !.op = "drop", !.mine.bucket = b, !.sids = sids]
  <2>1. d \in Calls
    BY Blank DEF Calls, Idle, NoRole, RoleRecords
  <2>2. CallOK(d)
    BY <2>1 DEF CallOK, Idle, NoRole, Reading
  <2> QED BY <1>1, <1>25, <2>2 DEF DropBegin
<1>26. CASE FailedCall(h)
  <2>1. CASE c.pc \in {"reader", "newreader", "key"} /\ ~Naming(h) /\ Edit(h, [c EXCEPT !.failed = TRUE])
    <3>1. Edits(h, [c EXCEPT !.failed = TRUE])
      BY <2>1 DEF Edits
    <3> QED BY <1>14, <3>1
  <2>2. CASE c.pc = "get" /\ Go(h, [c EXCEPT !.pc = "unkey", !.failed = TRUE])
    <3>1. [c EXCEPT !.pc = "unkey", !.failed = TRUE] = [c EXCEPT !.pc = "unkey", !.read = c.read, !.failed = TRUE]
      BY <1>0 DEF Calls
    <3>2. c.read \in Policies(Users, Statements)
      BY <1>0 DEF Calls
    <3> QED BY <1>12, <2>2, <3>1, <3>2
  <2>3. CASE c.pc = "put" /\ Go(h, [c EXCEPT !.pc = "unadmin", !.read = NoPolicy, !.failed = TRUE])
    BY <1>17, <2>3
  <2> QED BY <1>2, <1>26, <2>1, <2>2, <2>3 DEF FailedCall
<1>27. CASE ReadKeyLost(h)
  <2>1. Edits(h, [c EXCEPT !.failed = TRUE])
    BY <1>0, <1>27 DEF ReadKeyLost, Edits, Naming, CallOK, Reading
  <2> QED BY <1>14, <2>1
<1>28. CASE AdminLost(h) \/ KeepAdmin(h)
  BY <1>2, <1>28 DEF AdminLost, KeepAdmin
<1>29. ASSUME NEW r \in Roles, ForgetUnconfigured(h, r) PROVE UNCHANGED call
  BY <1>29 DEF ForgetUnconfigured
<1>30. CASE ReaderLost(h)
  <2>1. Naming(h) \/ Edits(h, [c EXCEPT !.failed = TRUE])
    BY <1>30 DEF ReaderLost, Edits
  <2> QED BY <1>2, <1>14, <1>30, <2>1 DEF ReaderLost
<1>31. {Legible[s] : s \in Statements} \subseteq Statements
  BY ConstantsAssumption
<1> HIDE DEF c
<1> QED BY <1>3, <1>5, <1>6, <1>7, <1>9, <1>10, <1>11, <1>13, <1>15, <1>16, <1>18, <1>19, <1>21, <1>23,
           <1>24, <1>25, <1>26, <1>27, <1>28, <1>29, <1>30, <1>31 DEF Step

-----------------------------------------------------------------------------
(* What a step of a request does to the rest.                              *)
LEMMA RoleSteps ==
  ASSUME NEW h \in Handlers, Step(h)
  PROVE  \/ UNCHANGED role
         \/ call[h].pc = "store" /\ Store(h)
         \/ call[h].pc = "forget" /\ Forget(h)
         \/ \E r \in Roles : ForgetUnconfigured(h, r)
BY DEF Step, WriteBegin, FindUser, CreateUser, Store, Refuse, FindReader, CreateReader, CreateReadKey, GetPolicy,
       DeleteReadKey, KeepReadKey, CreateAdmin, PutPolicy, DeleteAdmin, DeleteBegin, RemoveUser,
       Forget, AdoptBegin, DropBegin, FailedCall, ReaderLost, ReadKeyLost, AdminLost, KeepAdmin

LEMMA PolicySteps ==
  ASSUME NEW h \in Handlers, Step(h)
  PROVE  UNCHANGED policy \/ PutPolicy(h)
BY DEF Step, WriteBegin, FindUser, CreateUser, Store, Refuse, FindReader, CreateReader, CreateReadKey, GetPolicy,
       DeleteReadKey, KeepReadKey, CreateAdmin, PutPolicy, DeleteAdmin, DeleteBegin, RemoveUser,
       Forget, ForgetUnconfigured, AdoptBegin, DropBegin, FailedCall, ReaderLost, ReadKeyLost, AdminLost, KeepAdmin

LEMMA KeySteps ==
  ASSUME NEW h \in Handlers, Step(h)
  PROVE  \/ keys' \subseteq keys
         \/ CreateReadKey(h)
         \/ ReadKeyLost(h)
BY DEF Step, WriteBegin, FindUser, CreateUser, Store, Refuse, FindReader, CreateReader, CreateReadKey, GetPolicy,
       DeleteReadKey, KeepReadKey, CreateAdmin, PutPolicy, DeleteAdmin, DeleteBegin, RemoveUser,
       Forget, ForgetUnconfigured, AdoptBegin, DropBegin, FailedCall, ReaderLost, AdminLost, KeepAdmin

(* Users come by creation and go by RemoveUser and DeleteAdmin.            *)
LEMMA UserSteps ==
  ASSUME NEW h \in Handlers, Step(h)
  PROVE  \/ UNCHANGED users
         \/ CreateUser(h) \/ CreateReader(h) \/ ReaderLost(h) \/ CreateAdmin(h) \/ AdminLost(h)
         \/ RemoveUser(h) \/ DeleteAdmin(h)
BY DEF Step, WriteBegin, FindUser, Store, Refuse, FindReader, CreateReadKey, GetPolicy,
       DeleteReadKey, KeepReadKey, PutPolicy, DeleteBegin,
       Forget, ForgetUnconfigured, AdoptBegin, DropBegin, FailedCall, ReadKeyLost, KeepAdmin

(* The type of all but the history.                                        *)
Sorted ==
  /\ role \in [Roles -> RoleRecords]
  /\ users \subseteq Users
  /\ keys \subseteq Keys
  /\ policy \in [Buckets -> Policies(Users, Statements)]
  /\ call \in [Handlers -> Calls]
  /\ RolesOK
  /\ CallsOK

LEMMA StepSorted ==
  ASSUME TypeOK, RolesOK, CallsOK, NEW h \in Handlers, Step(h)
  PROVE  Sorted'
<1>0. ASSUME NEW g \in Handlers PROVE CallOK(call[g]) /\ call[g] \in Calls
  BY <1>0 DEF CallsOK, CallOK
<1>1. call' \in [Handlers -> Calls] /\ CallsOK'
  <2>1. CASE Moves(h)
    <3>1. PICK d : CallOK(d) /\ call' = [call EXCEPT ![h] = d]
      BY <2>1 DEF Moves
    <3>2. d \in Calls
      BY <3>1 DEF CallOK
    <3>3. call' \in [Handlers -> Calls]
      BY <3>1, <3>2 DEF TypeOK
    <3>4. ASSUME NEW g \in Handlers PROVE CallOK(call'[g])
      <4>1. call'[g] = IF g = h THEN d ELSE call[g]
        BY <3>1 DEF TypeOK
      <4> QED BY <1>0, <3>1, <4>1
    <3>5. CallsOK'
      BY <3>4 DEF CallsOK
    <3> QED BY <3>3, <3>5
  <2>2. CASE UNCHANGED call
    BY <2>2 DEF TypeOK, CallsOK, CallOK
  <2> QED BY <2>1, <2>2, StepMoves
<1>2. role' \in [Roles -> RoleRecords] /\ RolesOK'
  <2>1. CASE UNCHANGED role
    BY <2>1 DEF TypeOK, RolesOK, Stored
  <2>2. CASE call[h].pc = "store" /\ Store(h)
    <3>1. /\ call[h].role \in Roles /\ call[h].mine \in RoleRecords /\ call[h].mine.user \in Users
      BY <1>0, <2>2 DEF CallOK, Calls, RoleRecords
    <3>2. role' = [role EXCEPT ![call[h].role] = call[h].mine]
      BY <2>2 DEF Store
    <3> QED BY <3>1, <3>2 DEF TypeOK, RolesOK, Stored
  <2>3. ASSUME NEW r \in Roles, role' = [role EXCEPT ![r] = NoRole]
        PROVE  role' \in [Roles -> RoleRecords] /\ RolesOK'
    BY <2>3, Blank DEF TypeOK, RolesOK, Stored
  <2>4. CASE call[h].pc = "forget" /\ Forget(h)
    <3>1. call[h].role \in Roles
      BY <1>0, <2>4 DEF CallOK
    <3> QED BY <2>3, <2>4, <3>1 DEF Forget
  <2>5. CASE \E r \in Roles : ForgetUnconfigured(h, r)
    BY <2>3, <2>5 DEF ForgetUnconfigured
  <2> QED BY <2>1, <2>2, <2>4, <2>5, RoleSteps
<1>3. policy' \in [Buckets -> Policies(Users, Statements)]
  <2>1. CASE UNCHANGED policy
    BY <2>1 DEF TypeOK
  <2>2. CASE PutPolicy(h)
    <3>1. call[h].mine.bucket \in Buckets /\ call[h].read \in Policies(Users, Statements)
      BY <1>0, <2>2 DEF PutPolicy, CallOK, Calls, Reading
    <3> QED BY <2>2, <3>1 DEF PutPolicy, TypeOK
  <2> QED BY <2>1, <2>2, PolicySteps
<1>4. keys' \subseteq Keys
  BY KeySteps DEF TypeOK, CreateReadKey, ReadKeyLost
<1>5. users' \subseteq Users
  BY UserSteps DEF TypeOK, CreateUser, CreateReader, ReaderLost, CreateAdmin, AdminLost, RemoveUser, DeleteAdmin
<1> QED BY <1>1, <1>2, <1>3, <1>4, <1>5 DEF Sorted

LEMMA CrashSorted ==
  ASSUME TypeOK, RolesOK, CallsOK, Crash
  PROVE  Sorted'
<1>1. ASSUME NEW g \in Handlers PROVE CallOK(call'[g])
  BY Blank DEF Crash
<1>2. call' \in [Handlers -> Calls] /\ CallsOK'
  BY <1>1, Blank DEF Crash, CallsOK
<1> QED BY <1>2 DEF Crash, TypeOK, Sorted, RolesOK, Stored

LEMMA TypeStep == TypeOK /\ RolesOK /\ CallsOK /\ [Next]_vars => TypeOK' /\ RolesOK' /\ CallsOK'
<1> SUFFICES ASSUME TypeOK, RolesOK, CallsOK, [Next]_vars PROVE TypeOK' /\ RolesOK' /\ CallsOK'
  OBVIOUS
<1>1. CASE Next
  <2>1. Sorted'
    BY <1>1, StepSorted, CrashSorted DEF Next
  <2>2. behind' \subseteq Handlers
    BY <1>1 DEF Next, FallBehind
  <2> QED BY <2>1, <2>2 DEF Sorted, TypeOK
<1>2. CASE UNCHANGED vars
  BY <1>2 DEF vars, TypeOK, RolesOK, CallsOK, CallOK, Stored
<1> QED BY <1>1, <1>2

LEMMA TypeInit == Init => TypeOK /\ RolesOK /\ CallsOK
<1> SUFFICES ASSUME Init PROVE TypeOK /\ RolesOK /\ CallsOK
  OBVIOUS
<1>1. policy \in [Buckets -> Policies(Users, Statements)]
  BY Blank, ConstantsAssumption DEF Init
<1> QED BY <1>1, Blank, UsersNamed DEF Init, TypeOK, RolesOK, CallsOK, Stored

(* Whatever requests come, fail and overlap, the state keeps its type:     *)
(* what the code stores, names in a policy and asks Selectel for is of the *)
(* kind it takes it for.                                                   *)
THEOREM Typed == Spec => []TypeOK
<1>1. Init => TypeOK /\ RolesOK /\ CallsOK
  BY TypeInit
<1>2. TypeOK /\ RolesOK /\ CallsOK /\ [Next]_vars => (TypeOK /\ RolesOK /\ CallsOK)'
  BY TypeStep
<1> QED BY <1>1, <1>2, PTL DEF Spec

(* Every stored role has a user, and every request is in a stage that its  *)
(* fields agree with.                                                      *)
THEOREM Staged == Spec => [](TypeOK /\ RolesOK /\ CallsOK)
<1>1. Init => TypeOK /\ RolesOK /\ CallsOK
  BY TypeInit
<1>2. TypeOK /\ RolesOK /\ CallsOK /\ [Next]_vars => (TypeOK /\ RolesOK /\ CallsOK)'
  BY TypeStep
<1> QED BY <1>1, <1>2, PTL DEF Spec

-----------------------------------------------------------------------------
(***************************************************************************)
(* Temporary users and keys.                                               *)
(***************************************************************************)
LEMMA StageSteps ==
  ASSUME NEW h \in Handlers, Step(h)
  PROVE  /\ call[h].pc = "put" => PutPolicy(h) \/ FailedCall(h)
         /\ call[h].pc = "unadmin" => DeleteAdmin(h) \/ KeepAdmin(h)
         /\ call[h].pc = "get" => GetPolicy(h) \/ FailedCall(h)
         /\ call[h].pc = "unkey" => DeleteReadKey(h) \/ KeepReadKey(h)
<1>1. ASSUME call[h].pc = "put" PROVE PutPolicy(h) \/ FailedCall(h)
  BY <1>1 DEF Step, WriteBegin, FindUser, CreateUser, Store, Refuse, FindReader, CreateReader, CreateReadKey, GetPolicy,
       DeleteReadKey, KeepReadKey, CreateAdmin, DeleteAdmin, DeleteBegin, RemoveUser,
       Forget, ForgetUnconfigured, AdoptBegin, DropBegin, ReaderLost, ReadKeyLost, AdminLost, KeepAdmin, MayBegin, Working
<1>2. ASSUME call[h].pc = "unadmin" PROVE DeleteAdmin(h) \/ KeepAdmin(h)
  BY <1>2 DEF Step, WriteBegin, FindUser, CreateUser, Store, Refuse, FindReader, CreateReader, CreateReadKey, GetPolicy,
       DeleteReadKey, KeepReadKey, CreateAdmin, PutPolicy, DeleteBegin, RemoveUser,
       Forget, ForgetUnconfigured, AdoptBegin, DropBegin, ReaderLost, ReadKeyLost, AdminLost, FailedCall, MayBegin, Working
<1>3. ASSUME call[h].pc = "get" PROVE GetPolicy(h) \/ FailedCall(h)
  BY <1>3 DEF Step, WriteBegin, FindUser, CreateUser, Store, Refuse, FindReader, CreateReader, CreateReadKey,
       DeleteReadKey, KeepReadKey, CreateAdmin, PutPolicy, DeleteAdmin, DeleteBegin, RemoveUser,
       Forget, ForgetUnconfigured, AdoptBegin, DropBegin, ReaderLost, ReadKeyLost, AdminLost, KeepAdmin, MayBegin, Working
<1>4. ASSUME call[h].pc = "unkey" PROVE DeleteReadKey(h) \/ KeepReadKey(h)
  BY <1>4 DEF Step, WriteBegin, FindUser, CreateUser, Store, Refuse, FindReader, CreateReader, CreateReadKey, GetPolicy,
       CreateAdmin, PutPolicy, DeleteAdmin, DeleteBegin, RemoveUser,
       Forget, ForgetUnconfigured, AdoptBegin, DropBegin, ReaderLost, ReadKeyLost, AdminLost, FailedCall, KeepAdmin, MayBegin, Working
<1> QED BY <1>1, <1>2, <1>3, <1>4

LEMMA AdminTended ==
  ASSUME TypeOK, RolesOK, CallsOK, NEW h \in Handlers, Step(h), ~AdminLost(h), ~KeepAdmin(h),
         NEW u \in Named(AdminName)', \A g \in Handlers : call'[g].admin # u
  PROVE  u \in users /\ \A g \in Handlers : call[g].admin # u
<1>0. CallOK(call[h]) /\ call[h] \in Calls /\ u \in users' /\ u[1] = AdminName /\ call \in [Handlers -> Calls]
  BY DEF CallsOK, CallOK, Named, TypeOK
<1>1. u \in users
  <2>1. CASE CreateUser(h)
    <3>1. call[h].role \in Roles
      BY <1>0, <2>1 DEF CreateUser, CallOK
    <3>2. PICK v \in Users : v[1] = UserName[call[h].role] /\ users' = users \cup {v}
      BY <2>1 DEF CreateUser, NewUser
    <3> QED BY <1>0, <3>1, <3>2, UsersNamed
  <2>2. CASE CreateReader(h) \/ ReaderLost(h)
    <3>1. PICK v \in Users : v[1] = ReaderName /\ users' = users \cup {v}
      BY <2>2 DEF CreateReader, ReaderLost, NewUser
    <3> QED BY <1>0, <3>1, UsersNamed
  <2>3. CASE CreateAdmin(h)
    <3>1. PICK v \in Users : users' = users \cup {v} /\ call' = [call EXCEPT ![h] = [call[h] EXCEPT !.pc = "put", !.admin = v]]
      BY <2>3 DEF CreateAdmin, Go
    <3>2. call'[h].admin = v
      BY <1>0, <3>1 DEF Calls
    <3> QED BY <1>0, <3>1, <3>2
  <2>4. CASE RemoveUser(h) \/ DeleteAdmin(h)
    BY <1>0, <2>4 DEF RemoveUser, DeleteAdmin
  <2> QED BY <1>0, <2>1, <2>2, <2>3, <2>4, UserSteps
<1>2. call[h].admin # u
  <2> SUFFICES ASSUME call[h].admin = u PROVE FALSE
    OBVIOUS
  <2>1. u \in Users
    BY <1>1 DEF TypeOK
  <2>2. call[h].pc \in {"put", "unadmin"}
    BY <1>0, <2>1, AbsentAssumption DEF CallOK
  <2>3. CASE call[h].pc = "put"
    <3>1. PICK failed \in BOOLEAN : call' = [call EXCEPT ![h] = [call[h] EXCEPT !.pc = "unadmin", !.read = NoPolicy, !.failed = failed]]
      <4>1. PutPolicy(h) \/ FailedCall(h)
        BY <2>3, StageSteps
      <4> QED BY <2>3, <4>1 DEF PutPolicy, FailedCall, Go
    <3>2. call'[h].admin = u
      BY <1>0, <3>1 DEF Calls
    <3> QED BY <3>2
  <2>4. CASE call[h].pc = "unadmin"
    BY <1>0, <2>4, StageSteps DEF DeleteAdmin
  <2> QED BY <2>2, <2>3, <2>4
<1>3. ASSUME NEW g \in Handlers, g # h PROVE call'[g] = call[g]
  BY <1>0, <1>3, StepMoves DEF Moves
<1> QED BY <1>1, <1>2, <1>3

LEMMA KeyTended ==
  ASSUME TypeOK, RolesOK, CallsOK, NEW h \in Handlers, Step(h), ~ReadKeyLost(h), ~KeepReadKey(h),
         NEW k \in keys', \A g \in Handlers : call'[g].key # k
  PROVE  k \in keys /\ \A g \in Handlers : call[g].key # k
<1>0. CallOK(call[h]) /\ call[h] \in Calls /\ call \in [Handlers -> Calls]
  BY DEF CallsOK, CallOK, TypeOK
<1>1. k \in keys
  <2>1. CASE CreateReadKey(h)
    <3>1. PICK l \in Keys : keys' = keys \cup {l} /\ call' = [call EXCEPT ![h] = [call[h] EXCEPT !.pc = "get", !.key = l]]
      BY <2>1 DEF CreateReadKey, Go
    <3>2. call'[h].key = l
      BY <1>0, <3>1 DEF Calls
    <3> QED BY <3>1, <3>2
  <2> QED BY <2>1, KeySteps
<1>2. call[h].key # k
  <2> SUFFICES ASSUME call[h].key = k PROVE FALSE
    OBVIOUS
  <2>1. call[h].pc \in {"get", "unkey"}
    BY <1>0, <1>1, AbsentAssumption DEF CallOK, TypeOK
  <2>2. CASE call[h].pc = "get"
    <3>0. GetPolicy(h) \/ FailedCall(h)
      BY <2>2, StageSteps
    <3>1. CASE GetPolicy(h)
      BY <1>0, <3>1 DEF GetPolicy, Go, Calls
    <3>2. CASE FailedCall(h)
      <4>1. call' = [call EXCEPT ![h] = [call[h] EXCEPT !.pc = "unkey", !.failed = TRUE]]
        BY <2>2, <3>2 DEF FailedCall, Go
      <4> QED BY <1>0, <4>1 DEF Calls
    <3> QED BY <3>0, <3>1, <3>2
  <2>3. CASE call[h].pc = "unkey"
    BY <2>3, StageSteps DEF DeleteReadKey
  <2> QED BY <2>1, <2>2, <2>3
<1>3. ASSUME NEW g \in Handlers, g # h PROVE call'[g] = call[g]
  BY <1>0, <1>3, StepMoves DEF Moves
<1> QED BY <1>1, <1>2, <1>3

(* A user with s3.admin and a key of the reader's go with the request they *)
(* were created for, unless the answer that names them is lost, their      *)
(* deletion fails or the process ends: for any number of requests at one   *)
(* time, whatever each of them does and wherever it fails.                 *)
THEOREM TemporariesComeOfFailure == Spec => TemporariesLeftOnlyByFailure
<1>1. ASSUME TypeOK, RolesOK, CallsOK, [Next]_vars
      PROVE  \/ LeftBehind' \subseteq LeftBehind
             \/ Crash
             \/ \E h \in Handlers : AdminLost(h) \/ KeepAdmin(h) \/ ReadKeyLost(h) \/ KeepReadKey(h)
  <2>1. ASSUME NEW h \in Handlers, Step(h), ~AdminLost(h), ~KeepAdmin(h), ~ReadKeyLost(h), ~KeepReadKey(h)
        PROVE  LeftBehind' \subseteq LeftBehind
    <3>1. ASSUME NEW u \in Named(AdminName)', \A g \in Handlers : call'[g].admin # u
          PROVE  u \in Named(AdminName) \ {call[g].admin : g \in Handlers}
      <4>1. u \in users /\ (\A g \in Handlers : call[g].admin # u)
        BY <1>1, <2>1, <3>1, AdminTended
      <4> QED BY <3>1, <4>1 DEF Named
    <3>2. ASSUME NEW k \in keys', \A g \in Handlers : call'[g].key # k
          PROVE  k \in keys \ {call[g].key : g \in Handlers}
      BY <1>1, <2>1, <3>2, KeyTended
    <3> QED BY <3>1, <3>2 DEF LeftBehind
  <2>2. CASE UNCHANGED vars
    BY <2>2 DEF vars, LeftBehind, Named
  <2> QED BY <1>1, <2>1, <2>2 DEF Next
<1>2. TypeOK /\ RolesOK /\ CallsOK /\ [Next]_vars =>
        [\/ LeftBehind' \subseteq LeftBehind
         \/ Crash
         \/ \E h \in Handlers : AdminLost(h) \/ KeepAdmin(h) \/ ReadKeyLost(h) \/ KeepReadKey(h)]_vars
  BY <1>1
<1> QED BY <1>2, Staged, PTL DEF Spec, TemporariesLeftOnlyByFailure

-----------------------------------------------------------------------------
(***************************************************************************)
(* Whose users they are.                                                   *)
(***************************************************************************)
Same(d, c) == d.mine = c.mine /\ d.op = c.op /\ d.role = c.role

(* Where a request's role and its record come from.                        *)
Origin(h, d) ==
  \/ Same(d, call[h])
  \/ d = Idle
  \/ d.op = "confirm" /\ d.role = NoName /\ d.mine = call[h].mine /\ call[h].op = "adopt"
  \/ \E b \in Buckets : /\ d.op \in {"adopt", "drop"} /\ d.role = NoName /\ d.mine = [NoRole EXCEPT !.bucket = b]
                       /\ ~Working(h)
  \/ \E r \in Roles, u \in Users \cup {NoUser}, b \in Buckets \cup {NoBucket} :
       /\ WriteBegin(h, r, u, b)
       /\ d.op = "write" /\ d.role = r /\ d.mine = [user |-> u, named |-> role[r].named, bucket |-> b]
  \/ \E u \in Users : /\ call[h].pc \in {"find", "create"} /\ u[1] = UserName[call[h].role] /\ u \in users'
                     /\ d.op = "write" /\ d.role = call[h].role
                     /\ d.mine = [call[h].mine EXCEPT !.user = u, !.named = TRUE]
  \/ \E r \in Roles : /\ DeleteBegin(h, r)
                     /\ Stored(r) /\ d.op = "delete" /\ d.role = r /\ d.mine = role[r]

LEMMA MineSteps ==
  ASSUME TypeOK, RolesOK, CallsOK, NEW h \in Handlers, Step(h)
  PROVE  UNCHANGED call \/ \E d : CallOK(d) /\ call' = [call EXCEPT ![h] = d] /\ Origin(h, d)
<1> DEFINE c == call[h]
           Goal == \E d : CallOK(d) /\ call' = [call EXCEPT ![h] = d] /\ Origin(h, d)
<1>0. CallOK(c) /\ c \in Calls /\ call \in [Handlers -> Calls]
  BY DEF CallsOK, CallOK, TypeOK
<1>0a. ASSUME NEW d, Go(h, d), Origin(h, d), ~UNCHANGED call PROVE Goal
  <2>1. Moves(h)
    BY <1>0a, StepMoves
  <2>2. PICK e : CallOK(e) /\ call' = [call EXCEPT ![h] = e]
    BY <2>1 DEF Moves
  <2>3. call'[h] = e /\ call'[h] = d
    BY <1>0, <1>0a, <2>2 DEF Go
  <2> QED BY <1>0a, <2>2, <2>3
<1> SUFFICES ASSUME ~UNCHANGED call PROVE Goal
  OBVIOUS
<1>1. ASSUME NEW d, Go(h, d), Origin(h, d) PROVE Goal
  BY <1>0a, <1>1
<1>1a. ASSUME NEW d, Go(h, d), Same(d, c) PROVE Goal
  BY <1>1, <1>1a DEF Origin
<1> HIDE DEF Goal
<1>2. CASE Finish(h)
  BY <1>1, <1>2 DEF Finish, Origin
<1>4. CASE Onward(h)
  <2> DEFINE d(pc) == [Idle EXCEPT !.pc = pc, !.op = c.op, !.role = c.role, !.mine = c.mine]
  <2>1. ASSUME NEW pc PROVE Same(d(pc), c)
    BY Blank DEF Same, Calls
  <2>2. Go(h, d("store")) \/ Go(h, d(Removal(c.mine))) \/ Finish(h)
    BY <1>4 DEF Onward
  <2> HIDE DEF d
  <2> QED BY <1>1a, <1>2, <2>1, <2>2
<1>5. ASSUME NEW d, Edits(h, d) PROVE Goal
  <2> DEFINE to == Change(d, Decoded(adoptedPolicy(d), Legible))
             e == [d EXCEPT !.pc = "admin", !.via = NoUser, !.key = NoKey, !.read = to, !.failed = FALSE]
  <2>1. Finish(h) \/ Onward(h) \/ Go(h, e)
    BY <1>5 DEF Edits, Edit
  <2>2. d \in Calls /\ Same(d, c)
    BY <1>0, <1>5 DEF Edits, Same, Calls
  <2>3. Same(e, c)
    BY <2>2 DEF Same, Calls
  <2> HIDE DEF e
  <2> QED BY <1>1a, <1>2, <1>4, <2>1, <2>3
<1>6. ASSUME NEW r \in Roles, NEW u \in Users \cup {NoUser}, NEW b \in Buckets \cup {NoBucket},
             WriteBegin(h, r, u, b)
      PROVE  Goal
  <2> DEFINE pc == IF u = NoUser THEN "find" ELSE Granting(b)
             mine == [user |-> u, named |-> role[r].named, bucket |-> b]
             d == [Idle EXCEPT !.pc = pc, !.op = "write", !.role = r, !.mine = mine]
  <2>1. d.op = "write" /\ d.role = r /\ d.mine = mine
    BY Blank DEF Calls
  <2>2. Go(h, d)
    BY <1>6 DEF WriteBegin
  <2> HIDE DEF d
  <2>3. Origin(h, d)
    BY <1>6, <2>1 DEF Origin
  <2> QED BY <1>1, <2>2, <2>3
<1>7. ASSUME NEW u \in Users, u[1] = UserName[c.role], u \in users', c.pc \in {"find", "create"}, TakeUser(h, u)
      PROVE  Goal
  <2> DEFINE d == [c EXCEPT !.pc = Granting(c.mine.bucket), !.mine.user = u, !.mine.named = TRUE]
  <2>1. d.op = c.op /\ d.role = c.role /\ d.mine = [c.mine EXCEPT !.user = u, !.named = TRUE]
    BY <1>0 DEF Calls, RoleRecords
  <2>2. Go(h, d)
    BY <1>7 DEF TakeUser
  <2>3. c.op = "write"
    BY <1>0, <1>7 DEF CallOK
  <2> HIDE DEF d
  <2>4. Origin(h, d)
    BY <1>7, <2>1, <2>3 DEF Origin
  <2> QED BY <1>1, <2>2, <2>4
<1>8. CASE FindUser(h)
  <2>1. CASE At(h, "create")
    BY <1>0, <1>1a, <2>1 DEF At, Same, Calls
  <2>2. ASSUME NEW u \in Named(UserName[c.role]), TakeUser(h, u) PROVE Goal
    BY <1>7, <1>8, <2>2 DEF FindUser, Named, TypeOK
  <2> QED BY <1>8, <2>1, <2>2 DEF FindUser
<1>9. CASE CreateUser(h)
  <2>1. PICK u \in Users : /\ u[1] = UserName[c.role] /\ users' = users \cup {u}
                          /\ (TakeUser(h, u) \/ Finish(h))
    BY <1>9 DEF CreateUser, NewUser
  <2> QED BY <1>2, <1>7, <1>9, <2>1 DEF CreateUser
<1>10. ASSUME NEW u \in Users, TakeReader(h, u) PROVE Goal
  <2>1. Same([c EXCEPT !.pc = "reader", !.reader = u], c) /\ Same([c EXCEPT !.pc = "key", !.via = u], c)
    BY <1>0 DEF Same, Calls
  <2> QED BY <1>1a, <1>10, <2>1 DEF TakeReader
<1>11. CASE FindReader(h)
  <2>1. CASE At(h, "newreader")
    BY <1>0, <1>1a, <2>1 DEF At, Same, Calls
  <2> QED BY <1>10, <1>11, <2>1 DEF FindReader, Named, TypeOK
<1>12. CASE CreateReader(h)
  BY <1>10, <1>12 DEF CreateReader
<1>13. CASE CreateReadKey(h)
  <2>1. PICK k \in Keys : Go(h, [c EXCEPT !.pc = "get", !.key = k])
    BY <1>13 DEF CreateReadKey
  <2> QED BY <1>0, <1>1a, <2>1 DEF Same, Calls
<1>14. CASE GetPolicy(h)
  <2> DEFINE sees == VisibleTo(c.via, policy[c.mine.bucket], Blanket)
             d == [c EXCEPT !.pc = "unkey", !.read = IF sees THEN policy[c.mine.bucket] ELSE @, !.failed = ~sees]
  <2>1. Go(h, d)
    BY <1>14 DEF GetPolicy
  <2>2. Same(d, c)
    BY <1>0 DEF Same, Calls
  <2> HIDE DEF d
  <2> QED BY <1>1a, <2>1, <2>2
<1>15. CASE DeleteReadKey(h) \/ KeepReadKey(h)
  <2>1. Edits(h, c)
    BY <1>0, <1>15 DEF DeleteReadKey, KeepReadKey, Edits, Naming, CallOK, Reading
  <2> QED BY <1>5, <2>1
<1>16. CASE CreateAdmin(h)
  <2>1. PICK u \in Users : Go(h, [c EXCEPT !.pc = "put", !.admin = u])
    BY <1>16 DEF CreateAdmin
  <2> QED BY <1>0, <1>1a, <2>1 DEF Same, Calls
<1>17. ASSUME NEW failed \in BOOLEAN, Go(h, [c EXCEPT !.pc = "unadmin", !.read = NoPolicy, !.failed = failed])
       PROVE  Goal
  <2>1. Same([c EXCEPT !.pc = "unadmin", !.read = NoPolicy, !.failed = failed], c)
    BY <1>0 DEF Same, Calls
  <2> QED BY <1>1a, <1>17, <2>1
<1>18. CASE PutPolicy(h)
  BY <1>17, <1>18 DEF PutPolicy
<1>19. CASE DeleteAdmin(h)
  <2>1. CASE c.op = "adopt" /\ Go(h, [Idle EXCEPT !.pc = "reader", !.op = "confirm", !.mine = c.mine])
    <3> DEFINE d == [Idle EXCEPT !.pc = "reader", !.op = "confirm", !.mine = c.mine]
    <3>1. d.op = "confirm" /\ d.role = NoName /\ d.mine = c.mine
      BY DEF Idle
    <3> HIDE DEF d
    <3>2. Origin(h, d)
      BY <2>1, <3>1 DEF Origin
    <3> QED BY <1>1, <2>1, <3>2 DEF d
  <2> QED BY <1>2, <1>4, <1>19, <2>1 DEF DeleteAdmin
<1>21. ASSUME NEW r \in Roles, DeleteBegin(h, r) PROVE Goal
  <2>1. Stored(r) /\ Go(h, Deletion(r))
    BY <1>21 DEF DeleteBegin
  <2>2. Deletion(r).op = "delete" /\ Deletion(r).role = r /\ Deletion(r).mine = role[r]
    BY DEF Deletion, Idle
  <2>3. Origin(h, Deletion(r))
    BY <1>21, <2>1, <2>2 DEF Origin
  <2> QED BY <1>1, <2>1, <2>3
<1>23. CASE RemoveUser(h)
  <2>1. CASE At(h, "forget")
    BY <1>0, <1>1a, <2>1 DEF At, Same, Calls
  <2> QED BY <1>2, <1>23, <2>1 DEF RemoveUser
<1>24. ASSUME NEW b \in Buckets, AdoptBegin(h, b) PROVE Goal
  <2> DEFINE d == [Idle EXCEPT !.pc = "reader", !.op = "adopt", !.mine.bucket = b]
  <2>1. d.op = "adopt" /\ d.role = NoName /\ d.mine = [NoRole EXCEPT !.bucket = b]
    BY DEF Idle
  <2> HIDE DEF d
  <2>2. Origin(h, d)
    BY <1>24, <2>1 DEF Origin, AdoptBegin, MayBegin
  <2> QED BY <1>1, <1>24, <2>2 DEF AdoptBegin, d
<1>25. ASSUME NEW b \in Buckets, NEW sids \in SUBSET Statements, DropBegin(h, b, sids) PROVE Goal
  <2> DEFINE d == [Idle EXCEPT !.pc = "reader", !.op = "drop", !.mine.bucket = b, !.sids = sids]
  <2>1. d.op = "drop" /\ d.role = NoName /\ d.mine = [NoRole EXCEPT !.bucket = b]
    BY DEF Idle
  <2> HIDE DEF d
  <2>2. Origin(h, d)
    BY <1>25, <2>1 DEF Origin, DropBegin, MayBegin
  <2> QED BY <1>1, <1>25, <2>2 DEF DropBegin, d
<1>26. CASE FailedCall(h)
  <2>1. CASE c.pc \in {"reader", "newreader", "key"} /\ ~Naming(h) /\ Edit(h, [c EXCEPT !.failed = TRUE])
    <3>1. Edits(h, [c EXCEPT !.failed = TRUE])
      BY <2>1 DEF Edits
    <3> QED BY <1>5, <3>1
  <2>2. CASE Go(h, [c EXCEPT !.pc = "unkey", !.failed = TRUE])
    BY <1>0, <1>1a, <2>2 DEF Same, Calls
  <2> QED BY <1>2, <1>17, <1>26, <2>1, <2>2 DEF FailedCall
<1>27. CASE ReadKeyLost(h)
  <2>1. Edits(h, [c EXCEPT !.failed = TRUE])
    BY <1>0, <1>27 DEF ReadKeyLost, Edits, Naming, CallOK, Reading
  <2> QED BY <1>5, <2>1
<1>28. CASE Store(h) \/ Refuse(h) \/ Forget(h) \/ AdminLost(h) \/ KeepAdmin(h)
  BY <1>2, <1>28 DEF Store, Refuse, Forget, AdminLost, KeepAdmin
<1>29. ASSUME NEW r \in Roles PROVE ~ForgetUnconfigured(h, r)
  BY <1>29 DEF ForgetUnconfigured
<1>30. CASE ReaderLost(h)
  <2>1. Naming(h) \/ Edits(h, [c EXCEPT !.failed = TRUE])
    BY <1>30 DEF ReaderLost, Edits
  <2> QED BY <1>2, <1>5, <1>30, <2>1 DEF ReaderLost
<1>31. {Legible[s] : s \in Statements} \subseteq Statements
  BY ConstantsAssumption
<1> HIDE DEF c
<1> QED BY <1>6, <1>8, <1>9, <1>11, <1>12, <1>13, <1>14, <1>15, <1>16, <1>18, <1>19, <1>21, <1>23,
           <1>24, <1>25, <1>26, <1>27, <1>28, <1>29, <1>30, <1>31 DEF Step

(* A user has the name of the role the engine created it for, or is one    *)
(* the role was bound to.                                                  *)
Chosen(r, m) ==
  /\ m.named /\ m.user # NoUser => m.user[1] = UserName[r]
  /\ ~m.named => m.user \in Asked[r] \cup {NoUser}

Choice ==
  /\ \A r \in Roles : Chosen(r, role[r])
  /\ \A h \in Handlers : call[h].op \in {"write", "delete"} => Chosen(call[h].role, call[h].mine)

LEMMA ChoiceInit == Init => Choice
BY DEF Init, Choice, Chosen, NoRole, Idle

LEMMA ChoiceStep ==
  ASSUME "rebind" \notin Operations, TypeOK, RolesOK, CallsOK, Choice, [Next]_vars
  PROVE  Choice'
<1>0. ASSUME NEW h \in Handlers PROVE CallOK(call[h]) /\ call[h] \in Calls
  BY <1>0 DEF CallsOK, CallOK
<1>1. ASSUME NEW h \in Handlers, Step(h) PROVE Choice'
  <2>1. ASSUME NEW r \in Roles PROVE Chosen(r, role'[r])
    <3>1. CASE role'[r] = role[r]
      BY <3>1 DEF Choice
    <3>2. CASE role'[r] = NoRole
      BY <3>2 DEF Chosen, NoRole
    <3>3. CASE call[h].pc = "store" /\ Store(h)
      <4>1. /\ call[h].role \in Roles /\ call[h].op = "write"
            /\ role' = [role EXCEPT ![call[h].role] = call[h].mine]
        BY <1>0, <3>3 DEF CallOK, Store
      <4>2. Chosen(call[h].role, call[h].mine)
        BY <4>1 DEF Choice
      <4>3. role'[r] = role[r] \/ (r = call[h].role /\ role'[r] = call[h].mine)
        BY <4>1 DEF TypeOK
      <4> QED BY <3>1, <4>2, <4>3
    <3> QED BY <1>1, <3>1, <3>2, <3>3, RoleSteps DEF TypeOK, Forget, ForgetUnconfigured
  <2>2. ASSUME NEW g \in Handlers, call'[g].op \in {"write", "delete"} PROVE Chosen(call'[g].role, call'[g].mine)
    <3>1. CASE UNCHANGED call
      BY <2>2, <3>1 DEF Choice
    <3>2. ASSUME NEW d, call' = [call EXCEPT ![h] = d], Origin(h, d) PROVE Chosen(call'[g].role, call'[g].mine)
      <4>1. call'[g] = IF g = h THEN d ELSE call[g]
        BY <3>2 DEF TypeOK
      <4>2. CASE g # h
        BY <2>2, <4>1, <4>2 DEF Choice
      <4>3. CASE g = h
        <5>0. d = call'[g] /\ d.op \in {"write", "delete"}
          BY <2>2, <4>1, <4>3
        <5>1. CASE Same(d, call[h])
          BY <5>0, <5>1 DEF Same, Choice
        <5>2. ASSUME NEW r \in Roles, NEW u \in Users \cup {NoUser}, NEW b \in Buckets \cup {NoBucket},
                     WriteBegin(h, r, u, b), d.role = r,
                     d.mine = [user |-> u, named |-> role[r].named, bucket |-> b]
              PROVE  Chosen(d.role, d.mine)
          <6>1. Chosen(r, role[r])
            BY DEF Choice
          <6>2. /\ u \in {role[r].user, NoUser} \cup Asked[r]
                /\ role[r].named => u \in {role[r].user, NoUser}
            BY <5>2 DEF WriteBegin
          <6> QED BY <5>2, <6>1, <6>2 DEF Chosen
        <5>3. ASSUME NEW u \in Users, u[1] = UserName[call[h].role], d.role = call[h].role,
                     d.mine = [call[h].mine EXCEPT !.user = u, !.named = TRUE]
              PROVE  Chosen(d.role, d.mine)
          <6>1. d.mine.named /\ d.mine.user = u
            BY <1>0, <5>3 DEF Calls, RoleRecords
          <6> QED BY <5>3, <6>1 DEF Chosen
        <5>4. ASSUME NEW r \in Roles, d.role = r, d.mine = role[r] PROVE Chosen(d.role, d.mine)
          BY <5>4 DEF Choice
        <5>5. d # Idle
          BY <5>0 DEF Idle
        <5> HIDE DEF Same
        <5> QED BY <3>2, <5>0, <5>1, <5>2, <5>3, <5>4, <5>5 DEF Origin
      <4> QED BY <4>2, <4>3
    <3> QED BY <1>1, <3>1, <3>2, MineSteps
  <2> QED BY <2>1, <2>2 DEF Choice
<1>2. CASE Crash
  BY <1>2 DEF Crash, Choice, Idle
<1>3. CASE UNCHANGED vars
  BY <1>3 DEF vars, Choice
<1> QED BY <1>1, <1>2, <1>3 DEF Next

LEMMA BoundStep ==
  ASSUME TypeOK, RolesOK, CallsOK, Choice, BoundUsersKept, [Next]_vars
  PROVE  BoundUsersKept'
<1> DEFINE Bound == {u \in Foreigners : \A r \in Roles : u[1] # UserName[r]}
<1>1. ASSUME NEW h \in Handlers, Step(h) PROVE Bound \subseteq users'
  <2>0. CallOK(call[h])
    BY DEF CallsOK
  <2>1. CASE RemoveUser(h)
    <3>1. /\ call[h].op = "delete" /\ call[h].mine.named /\ call[h].mine.user \in Users /\ call[h].role \in Roles
      BY <2>0, <2>1 DEF RemoveUser, CallOK
    <3>2. call[h].mine.user[1] = UserName[call[h].role]
      BY <3>1, AbsentAssumption DEF Choice, Chosen
    <3>3. call[h].mine.user \notin Bound
      BY <3>1, <3>2
    <3> QED BY <2>1, <3>3 DEF RemoveUser, BoundUsersKept
  <2>2. CASE DeleteAdmin(h)
    <3>1. call[h].admin \notin Foreigners
      BY <2>0, <2>2, UsersNamed DEF DeleteAdmin, CallOK
    <3> QED BY <2>2, <3>1 DEF DeleteAdmin, BoundUsersKept
  <2> QED BY <1>1, <2>1, <2>2, UserSteps
          DEF BoundUsersKept, CreateUser, CreateReader, ReaderLost, CreateAdmin, AdminLost
<1> QED BY <1>1 DEF Next, Crash, vars, BoundUsersKept

(* Where a user the engine named is not bound over to another one, no user *)
(* of others goes but one that is called like the user of a role: a user   *)
(* is removed with a role only where the engine found or created it by the *)
(* name of that very role.                                                 *)
THEOREM BoundUsersStay == ASSUME "rebind" \notin Operations PROVE Spec => []BoundUsersKept
<1> DEFINE I == TypeOK /\ RolesOK /\ CallsOK /\ Choice /\ BoundUsersKept
<1>1. Init => I
  BY TypeInit, ChoiceInit DEF Init, BoundUsersKept
<1>2. I /\ [Next]_vars => I'
  BY TypeStep, ChoiceStep, BoundStep
<1>3. I => BoundUsersKept
  OBVIOUS
<1> QED BY <1>1, <1>2, <1>3, PTL DEF Spec

-----------------------------------------------------------------------------
LEMMA BlankFields ==
  /\ Idle.pc = "idle" /\ Idle.op = "none" /\ Idle.role = NoName /\ Idle.mine = NoRole
  /\ Idle.reader = NoUser /\ Idle.via = NoUser /\ ~Idle.failed
  /\ NoRole.user = NoUser /\ NoRole.bucket = NoBucket /\ ~NoRole.named
  /\ \A b \in Buckets : [NoRole EXCEPT !.bucket = b].bucket = b
BY DEF Idle, NoRole

(* A step leaves requests other than the one that takes it as they are.    *)
LEMMA Others ==
  ASSUME TypeOK, NEW h \in Handlers, NEW d, call' = [call EXCEPT ![h] = d]
  PROVE  \A g \in Handlers : call'[g] = IF g = h THEN d ELSE call[g]
BY DEF TypeOK

-----------------------------------------------------------------------------
(***************************************************************************)
(* Where a request comes to, and from where.                               *)
(***************************************************************************)
Kept(d, c) == Same(d, c) /\ d.reader = c.reader /\ d.sids = c.sids
Basis(c) == Decoded(adoptedPolicy(c), Legible)
Sees(c) == VisibleTo(c.via, policy[c.mine.bucket], Blanket)
Early == {"find", "create", "reader", "newreader", "key"}

Arrive(h, d) ==
  \/ d = Idle
  \/ /\ d.pc \in {"find", "create", "reader", "key", "get"}
     /\ d.failed => call[h].failed /\ call[h].pc \in Early
     /\ d.reader \in {call[h].reader, NoUser} \cup Named(ReaderName)'
     /\ d.via \in {call[h].via, NoUser} \cup Named(ReaderName)'
  \/ /\ d.pc = "newreader" /\ FindReader(h) /\ Named(ReaderName) = {}
     /\ d.failed = call[h].failed /\ d.reader = call[h].reader /\ d.via = call[h].via
  \/ /\ d.pc = "unkey" /\ call[h].pc = "get" /\ Kept(d, call[h]) /\ d.via = call[h].via
     /\ IF d.failed THEN call[h].op # "adopt" \/ ~Sees(call[h]) \/ Misread(h)
        ELSE Sees(call[h]) /\ d.read = policy[call[h].mine.bucket]
  \/ /\ d.pc = "admin" /\ call[h].pc = "unkey" /\ Kept(d, call[h]) /\ d.via = NoUser /\ ~d.failed
     /\ call[h].failed => call[h].op = "adopt"
     /\ d.read = Change(call[h], Basis(call[h])) /\ d.read # Basis(call[h])
  \/ /\ d.pc = "admin" /\ Misread(h) /\ call[h].pc \in {"reader", "newreader", "key"}
     /\ call[h].op = "adopt" /\ call[h].reader # NoUser /\ call[h].reader \in d.read.readers /\ d.read.users = {}
     /\ Kept(d, call[h]) /\ d.via = NoUser /\ ~d.failed
  \/ /\ d.pc = "put" /\ call[h].pc = "admin" /\ Kept(d, call[h]) /\ d.via = call[h].via
     /\ d.read = call[h].read /\ d.failed = call[h].failed
  \/ /\ d.pc = "unadmin" /\ call[h].pc = "put" /\ Kept(d, call[h]) /\ d.via = call[h].via
     /\ PutPolicy(h) \/ (d.failed /\ UNCHANGED policy)
  \/ /\ d.pc \in {"store", "remove", "forget"}
     /\ d.failed => call[h].failed /\ call[h].pc \in Early \cup {"remove"}
     /\ d.reader \in {call[h].reader, NoUser} /\ d.via \in {call[h].via, NoUser}
     /\ \/ d.mine.bucket = NoBucket
        \/ Same(d, call[h]) /\ call[h].pc = "unadmin" /\ ~call[h].failed
        \/ /\ Same(d, call[h]) /\ call[h].pc = "unkey" /\ ~call[h].failed
           /\ Change(call[h], Basis(call[h])) = Basis(call[h])
        \/ Same(d, call[h]) /\ call[h].pc = "remove" /\ d.pc = "forget"

LEMMA OnwardArrives ==
  ASSUME NEW h \in Handlers, call[h] \in Calls, Onward(h),
         \/ call[h].pc = "unadmin" /\ ~call[h].failed
         \/ /\ call[h].pc = "unkey" /\ ~call[h].failed
            /\ Change(call[h], Basis(call[h])) = Basis(call[h])
         \/ call[h].op \notin {"write", "delete"}
  PROVE  \E d : Go(h, d) /\ Arrive(h, d)
<1> DEFINE c == call[h]
           d(pc) == [Idle EXCEPT !.pc = pc, !.op = c.op, !.role = c.role, !.mine = c.mine]
<1>1. ASSUME NEW pc
      PROVE  Same(d(pc), c) /\ d(pc).pc = pc /\ ~d(pc).failed /\ d(pc).reader = NoUser /\ d(pc).via = NoUser
  BY DEF Same, Idle
<1>2. ASSUME NEW pc \in {"store", "remove", "forget"}, Go(h, d(pc)), c.op \in {"write", "delete"}
      PROVE  \E e : Go(h, e) /\ Arrive(h, e)
  <2> HIDE DEF d
  <2>1. Arrive(h, d(pc))
    BY <1>1, <1>2 DEF Arrive
  <2> QED BY <1>2, <2>1
<1>3. CASE c.op = "write"
  BY <1>2, <1>3 DEF Onward
<1>4. CASE c.op = "delete"
  <2>1. Removal(c.mine) \in {"remove", "forget"} /\ Go(h, d(Removal(c.mine)))
    BY <1>4 DEF Onward, Removal
  <2> QED BY <1>2, <1>4, <2>1
<1>5. CASE c.op \notin {"write", "delete"}
  <2>1. Go(h, Idle)
    BY <1>5 DEF Onward, Finish
  <2>2. Arrive(h, Idle)
    BY <1>5 DEF Arrive
  <2> QED BY <2>1, <2>2
<1> QED BY <1>3, <1>4, <1>5

LEMMA EditArrives ==
  ASSUME NEW h \in Handlers, CallOK(call[h]), NEW e, Edits(h, e),
         \/ e = call[h] /\ call[h].pc = "unkey"
         \/ /\ e = [call[h] EXCEPT !.failed = TRUE] /\ call[h].pc # "unkey"
            /\ call[h].op = "adopt" => Misread(h)
  PROVE  \E d : Go(h, d) /\ Arrive(h, d)
<1> DEFINE c == call[h]
           to == Change(e, Decoded(adoptedPolicy(e), Legible))
           d == [e EXCEPT !.pc = "admin", !.via = NoUser, !.key = NoKey, !.read = to, !.failed = FALSE]
<1>0. c \in Calls /\ e \in Calls /\ e.op = c.op
  BY DEF CallOK, Edits, Calls
<1>1. ASSUME NEW f, Go(h, f), Arrive(h, f) PROVE \E g : Go(h, g) /\ Arrive(h, g)
  BY <1>1
<1>2. CASE Finish(h)
  BY <1>1, <1>2 DEF Finish, Arrive
<1>3. CASE ~Finish(h)
  <2>1. ~(e.failed /\ (e.op # "adopt" \/ Decoded(adoptedPolicy(e), Legible) = NoPolicy))
    BY <1>3 DEF Edits, Edit
  <2>2. CASE e = c /\ c.pc = "unkey"
    <3>0. c.failed => c.op = "adopt"
      BY <1>0, <2>1, <2>2
    <3>1. \/ to = Basis(c) /\ Onward(h)
          \/ to # Basis(c) /\ Go(h, d)
      BY <1>3, <2>1, <2>2 DEF Edits, Edit, Basis
    <3>3. CASE to = Basis(c) /\ Onward(h)
      <4>1. ~c.failed \/ c.op \notin {"write", "delete"}
        BY <3>0
      <4>2. Change(c, Basis(c)) = Basis(c)
        BY <2>2, <3>3 DEF Basis
      <4> QED BY <1>0, <2>2, <3>3, <4>1, <4>2, OnwardArrives
    <3>4. CASE to # Basis(c) /\ Go(h, d)
      <4>1. d.pc = "admin" /\ Kept(d, c) /\ d.via = NoUser /\ ~d.failed /\ d.read = to
        BY <1>0, <2>2 DEF Kept, Same, Calls
      <4>2. to = Change(c, Basis(c))
        BY <2>2 DEF Basis
      <4> HIDE DEF d, to
      <4>3. Arrive(h, d)
        BY <2>2, <3>0, <3>4, <4>1, <4>2 DEF Arrive
      <4> QED BY <1>1, <3>4, <4>3
    <3> QED BY <3>1, <3>3, <3>4
  <2>3. CASE e = [c EXCEPT !.failed = TRUE] /\ c.pc # "unkey" /\ (c.op = "adopt" => Misread(h))
    <3>1. /\ e.failed /\ e.op = "adopt" /\ c.op = "adopt" /\ e.mine = c.mine /\ e.reader = c.reader /\ e.role = c.role
          /\ e.sids = c.sids
      BY <1>0, <2>1, <2>3 DEF Calls
    <3>2. Onward(h) \/ Go(h, d)
      BY <1>3, <2>1, <3>1 DEF Edits, Edit
    <3>3. CASE Onward(h)
      BY <1>0, <3>1, <3>3, OnwardArrives
    <3>4. CASE Go(h, d)
      <4>1. d.pc = "admin" /\ Kept(d, c) /\ d.via = NoUser /\ ~d.failed /\ d.read = to
        BY <1>0, <3>1 DEF Kept, Same, Calls
      <4>2. c.mine.bucket \in Buckets /\ c.pc \in {"reader", "newreader", "key"} /\ c.reader # NoUser
        BY <2>3, <3>1 DEF CallOK, Edits, Naming, Reading
      <4>3. Initially[c.mine.bucket] \in Policies({}, Statements)
        BY <4>2, ConstantsAssumption
      <4>4. to = grantPolicyRead(Decoded(Initially[c.mine.bucket], Legible), c.reader)
        BY <3>1 DEF Change, adoptedPolicy
      <4>5. c.reader \in to.readers /\ to.users = {}
        BY <4>3, <4>4 DEF grantPolicyRead, Decoded, Policies
      <4> HIDE DEF d, to
      <4>6. Arrive(h, d)
        BY <2>3, <3>1, <4>1, <4>2, <4>5 DEF Arrive
      <4> QED BY <1>1, <3>4, <4>6
    <3> QED BY <3>2, <3>3, <3>4
  <2>4. e.failed => e.op = "adopt"
    BY <2>1
  <2> QED BY <1>0, <2>2, <2>3, <2>4 DEF Calls
<1> QED BY <1>2, <1>3

(* Where a step of a request leaves it.                                    *)
LEMMA Arrivals ==
  ASSUME TypeOK, RolesOK, CallsOK, NEW h \in Handlers, Step(h)
  PROVE  (\E r \in Roles : ForgetUnconfigured(h, r)) \/ \E d : Go(h, d) /\ Arrive(h, d)
<1> DEFINE c == call[h]
           Goal == \E d : Go(h, d) /\ Arrive(h, d)
<1>0. CallOK(c) /\ c \in Calls /\ users' \subseteq Users
  BY StepSorted DEF Sorted, CallsOK, CallOK, TypeOK
<1> SUFFICES ASSUME \A r \in Roles : ~ForgetUnconfigured(h, r) PROVE Goal
  OBVIOUS
<1>1. ASSUME NEW d, Go(h, d), Arrive(h, d) PROVE Goal
  BY <1>1
<1> HIDE DEF Goal
<1>2. CASE Finish(h)
  BY <1>1, <1>2 DEF Finish, Arrive
<1>4. ASSUME NEW d, Go(h, d), d.pc \in {"find", "create", "reader", "key", "get"},
             d.failed => c.failed /\ c.pc \in Early,
             d.reader \in {c.reader, NoUser} \cup Named(ReaderName)',
             d.via \in {c.via, NoUser} \cup Named(ReaderName)'
      PROVE  Goal
  BY <1>1, <1>4 DEF Arrive
<1>5. ASSUME NEW r \in Roles, NEW u \in Users \cup {NoUser}, NEW b \in Buckets \cup {NoBucket},
             WriteBegin(h, r, u, b)
      PROVE  Goal
  <2> DEFINE pc == IF u = NoUser THEN "find" ELSE Granting(b)
             mine == [user |-> u, named |-> role[r].named, bucket |-> b]
             d == [Idle EXCEPT !.pc = pc, !.op = "write", !.role = r, !.mine = mine]
  <2>1. pc \in {"find", "reader"} \/ (pc = "store" /\ b = NoBucket)
    BY DEF Granting
  <2>2. /\ d.pc = pc /\ d.mine.bucket = b /\ ~d.failed /\ d.reader = NoUser /\ d.via = NoUser
    BY DEF Idle
  <2>3. Go(h, d)
    BY <1>5 DEF WriteBegin
  <2> HIDE DEF d, pc
  <2>4. CASE pc = "store" /\ b = NoBucket
    <3>1. Arrive(h, d)
      BY <2>2, <2>4 DEF Arrive
    <3> QED BY <1>1, <2>3, <3>1
  <2> QED BY <1>4, <2>1, <2>2, <2>3, <2>4
<1>6. ASSUME NEW u \in Users, c.pc \in {"find", "create"}, TakeUser(h, u) PROVE Goal
  <2> DEFINE pc == Granting(c.mine.bucket)
             d == [c EXCEPT !.pc = pc, !.mine.user = u, !.mine.named = TRUE]
  <2>1. pc = "reader" \/ (pc = "store" /\ c.mine.bucket = NoBucket)
    BY DEF Granting
  <2>2. d.pc = pc /\ d.mine.bucket = c.mine.bucket /\ d.failed = c.failed /\ d.reader = c.reader /\ d.via = c.via
    BY <1>0 DEF Calls, RoleRecords
  <2>3. Go(h, d)
    BY <1>6 DEF TakeUser
  <2> HIDE DEF d, pc
  <2>4. CASE pc = "store" /\ c.mine.bucket = NoBucket
    <3>1. Arrive(h, d)
      BY <1>6, <2>2, <2>4 DEF Arrive, Early
    <3> QED BY <1>1, <2>3, <3>1
  <2> QED BY <1>4, <1>6, <2>1, <2>2, <2>3, <2>4 DEF Early
<1>7. CASE FindUser(h)
  <2>1. CASE At(h, "create")
    BY <1>0, <1>4, <1>7, <2>1 DEF At, FindUser, Calls, Early
  <2>2. ASSUME NEW u \in Named(UserName[c.role]), TakeUser(h, u) PROVE Goal
    BY <1>6, <1>7, <2>2 DEF FindUser, Named, TypeOK
  <2> QED BY <1>7, <2>1, <2>2 DEF FindUser
<1>8. CASE CreateUser(h)
  BY <1>2, <1>6, <1>8 DEF CreateUser
<1>9. CASE Store(h) \/ Refuse(h) \/ Forget(h)
  BY <1>2, <1>9 DEF Store, Refuse, Forget
<1>11. ASSUME NEW u \in Users, u \in Named(ReaderName)', c.pc \in {"reader", "newreader"}, TakeReader(h, u) PROVE Goal
  <2>1. CASE Naming(h)
    BY <1>0, <1>4, <1>11, <2>1 DEF TakeReader, Calls, Early
  <2>2. CASE ~Naming(h)
    BY <1>0, <1>4, <1>11, <2>2 DEF TakeReader, Calls, Early
  <2> QED BY <2>1, <2>2
<1>12. CASE FindReader(h)
  <2>1. CASE At(h, "newreader") /\ Named(ReaderName) = {}
    <3> DEFINE d == [c EXCEPT !.pc = "newreader"]
    <3>1. d.pc = "newreader" /\ d.failed = c.failed /\ d.reader = c.reader /\ d.via = c.via
      BY <1>0 DEF Calls
    <3>2. Go(h, d)
      BY <2>1 DEF At
    <3> HIDE DEF d
    <3>3. Arrive(h, d)
      BY <1>12, <2>1, <3>1 DEF Arrive
    <3> QED BY <1>1, <3>2, <3>3
  <2>2. ASSUME NEW u \in Named(ReaderName), TakeReader(h, u) PROVE Goal
    <3>1. Named(ReaderName)' = Named(ReaderName) /\ u \in Users
      BY <1>12 DEF FindReader, Named, TypeOK
    <3> QED BY <1>11, <1>12, <2>2, <3>1 DEF FindReader
  <2> QED BY <1>12, <2>1, <2>2 DEF FindReader
<1>13. CASE CreateReader(h)
  <2>1. PICK u \in Users : u[1] = ReaderName /\ users' = users \cup {u} /\ TakeReader(h, u)
    BY <1>13 DEF CreateReader, NewUser
  <2>2. u \in Named(ReaderName)'
    BY <2>1 DEF Named
  <2> QED BY <1>11, <1>13, <2>1, <2>2 DEF CreateReader
<1>14. CASE CreateReadKey(h)
  <2>1. PICK k \in Keys : Go(h, [c EXCEPT !.pc = "get", !.key = k])
    BY <1>14 DEF CreateReadKey
  <2> QED BY <1>0, <1>4, <1>14, <2>1 DEF CreateReadKey, Calls, Early
<1>15. CASE GetPolicy(h)
  <2> DEFINE d == [c EXCEPT !.pc = "unkey", !.read = IF Sees(c) THEN policy[c.mine.bucket] ELSE @, !.failed = ~Sees(c)]
  <2>1. Go(h, d) /\ c.pc = "get"
    BY <1>15 DEF GetPolicy, Sees
  <2>2. /\ d.pc = "unkey" /\ Kept(d, c) /\ d.via = c.via /\ d.failed = ~Sees(c)
        /\ Sees(c) => d.read = policy[c.mine.bucket]
    BY <1>0 DEF Kept, Same, Calls
  <2> HIDE DEF d
  <2>3. Arrive(h, d)
    BY <2>1, <2>2 DEF Arrive
  <2> QED BY <1>1, <2>1, <2>3
<1>16. CASE DeleteReadKey(h) \/ KeepReadKey(h)
  <2>1. Edits(h, c) /\ c.pc = "unkey"
    BY <1>0, <1>16 DEF DeleteReadKey, KeepReadKey, Edits, Naming, CallOK, Reading
  <2>2. \E d : Go(h, d) /\ Arrive(h, d)
    BY <1>0, <2>1, EditArrives
  <2> QED BY <2>2 DEF Goal
<1>17. ASSUME Edits(h, [c EXCEPT !.failed = TRUE]), c.pc # "unkey", c.op = "adopt" => Misread(h) PROVE Goal
  <2>2. \E d : Go(h, d) /\ Arrive(h, d)
    BY <1>0, <1>17, EditArrives
  <2> QED BY <2>2 DEF Goal
<1>18. CASE CreateAdmin(h)
  <2>1. PICK u \in Users : Go(h, [c EXCEPT !.pc = "put", !.admin = u])
    BY <1>18 DEF CreateAdmin
  <2> DEFINE d == [c EXCEPT !.pc = "put", !.admin = u]
  <2>2. d.pc = "put" /\ Kept(d, c) /\ d.via = c.via /\ d.read = c.read /\ d.failed = c.failed
    BY <1>0 DEF Kept, Same, Calls
  <2> HIDE DEF d
  <2>3. Arrive(h, d)
    BY <1>18, <2>2 DEF Arrive, CreateAdmin
  <2> QED BY <1>1, <2>1, <2>3 DEF d
<1>19. ASSUME NEW failed \in BOOLEAN, Go(h, [c EXCEPT !.pc = "unadmin", !.read = NoPolicy, !.failed = failed]),
              c.pc = "put", PutPolicy(h) \/ (failed /\ UNCHANGED policy)
       PROVE  Goal
  <2> DEFINE d == [c EXCEPT !.pc = "unadmin", !.read = NoPolicy, !.failed = failed]
  <2>1. d.pc = "unadmin" /\ Kept(d, c) /\ d.via = c.via /\ d.failed = failed
    BY <1>0 DEF Kept, Same, Calls
  <2> HIDE DEF d
  <2>2. Arrive(h, d)
    BY <1>19, <2>1 DEF Arrive
  <2> QED BY <1>1, <1>19, <2>2 DEF d
<1>20. CASE PutPolicy(h)
  <2>1. PICK failed \in BOOLEAN : Go(h, [c EXCEPT !.pc = "unadmin", !.read = NoPolicy, !.failed = failed])
    BY <1>20 DEF PutPolicy
  <2>2. c.pc = "put"
    BY <1>20 DEF PutPolicy
  <2> QED BY <1>19, <1>20, <2>1, <2>2
<1>21. CASE DeleteAdmin(h)
  <2>1. CASE ~c.failed /\ c.op = "adopt" /\ Go(h, [Idle EXCEPT !.pc = "reader", !.op = "confirm", !.mine = c.mine])
    <3>1. [Idle EXCEPT !.pc = "reader", !.op = "confirm", !.mine = c.mine].failed = FALSE
      BY DEF Idle
    <3> QED BY <1>4, <2>1, <3>1 DEF Idle
  <2>2. CASE ~c.failed /\ Onward(h)
    <3>1. \E d : Go(h, d) /\ Arrive(h, d)
      BY <1>0, <1>21, <2>2, OnwardArrives DEF DeleteAdmin
    <3> QED BY <3>1 DEF Goal
  <2> QED BY <1>2, <1>21, <2>1, <2>2 DEF DeleteAdmin
<1>22. ASSUME NEW r \in Roles, Go(h, Deletion(r)) PROVE Goal
  <2> DEFINE d == Deletion(r)
             pc == IF role[r].bucket = NoBucket THEN Removal(role[r]) ELSE "reader"
  <2>1. pc = "reader" \/ (pc \in {"remove", "forget"} /\ role[r].bucket = NoBucket)
    BY DEF Removal
  <2>2. d.pc = pc /\ d.mine = role[r] /\ ~d.failed /\ d.reader = NoUser /\ d.via = NoUser
    BY DEF Deletion, Idle
  <2> HIDE DEF d, pc
  <2>3. CASE pc \in {"remove", "forget"} /\ role[r].bucket = NoBucket
    <3>1. Arrive(h, d)
      BY <2>2, <2>3 DEF Arrive
    <3> QED BY <1>1, <1>22, <3>1 DEF d
  <2>4. CASE pc = "reader"
    BY <1>4, <1>22, <2>2, <2>4 DEF d
  <2> QED BY <2>1, <2>3, <2>4
<1>23. ASSUME NEW r \in Roles, DeleteBegin(h, r) PROVE Goal
  BY <1>22, <1>23 DEF DeleteBegin
<1>25. CASE RemoveUser(h)
  <2>1. CASE At(h, "forget")
    <3> DEFINE d == [c EXCEPT !.pc = "forget"]
    <3>1. d.pc = "forget" /\ Same(d, c) /\ d.failed = c.failed /\ d.reader = c.reader /\ d.via = c.via
      BY <1>0 DEF Same, Calls
    <3>2. Go(h, d) /\ c.pc = "remove"
      BY <1>25, <2>1 DEF At, RemoveUser
    <3> HIDE DEF d
    <3>3. Arrive(h, d)
      BY <3>1, <3>2 DEF Arrive
    <3> QED BY <1>1, <3>2, <3>3
  <2> QED BY <1>2, <1>25, <2>1 DEF RemoveUser
<1>26. ASSUME NEW b \in Buckets, AdoptBegin(h, b) PROVE Goal
  <2>1. [Idle EXCEPT !.pc = "reader", !.op = "adopt", !.mine.bucket = b].failed = FALSE
    BY DEF Idle
  <2> QED BY <1>4, <1>26, <2>1 DEF AdoptBegin, Idle
<1>27. ASSUME NEW b \in Buckets, NEW sids \in SUBSET Statements, DropBegin(h, b, sids) PROVE Goal
  <2>1. [Idle EXCEPT !.pc = "reader", !.op = "drop", !.mine.bucket = b, !.sids = sids].failed = FALSE
    BY DEF Idle
  <2> QED BY <1>4, <1>27, <2>1 DEF DropBegin, Idle
<1>28. CASE FailedCall(h)
  <2>0. c.op = "adopt" /\ c.pc \in {"reader", "newreader", "key"} => Misread(h)
    BY <1>28 DEF Misread, GetPolicy
  <2>1. CASE c.pc \in {"reader", "newreader", "key"} /\ ~Naming(h) /\ Edit(h, [c EXCEPT !.failed = TRUE])
    <3>1. Edits(h, [c EXCEPT !.failed = TRUE])
      BY <2>1 DEF Edits
    <3> QED BY <1>17, <2>0, <2>1, <3>1
  <2>2. CASE c.pc = "get" /\ Go(h, [c EXCEPT !.pc = "unkey", !.failed = TRUE])
    <3> DEFINE d == [c EXCEPT !.pc = "unkey", !.failed = TRUE]
    <3>1. d.pc = "unkey" /\ Kept(d, c) /\ d.via = c.via /\ d.failed
      BY <1>0, <2>2 DEF Kept, Same, Calls
    <3> HIDE DEF d
    <3>2. CASE ~GetPolicy(h)
      <4>1. c.op = "adopt" => Misread(h)
        BY <1>28, <3>2 DEF Misread
      <4>2. Arrive(h, d)
        BY <2>2, <3>1, <4>1 DEF Arrive
      <4> QED BY <1>1, <2>2, <4>2 DEF d
    <3> QED BY <1>15, <3>2
  <2>3. CASE c.pc = "put" /\ Go(h, [c EXCEPT !.pc = "unadmin", !.read = NoPolicy, !.failed = TRUE])
    <3>1. UNCHANGED policy
      BY <1>28 DEF FailedCall
    <3> QED BY <1>19, <2>3, <3>1
  <2> QED BY <1>2, <1>28, <2>1, <2>2, <2>3 DEF FailedCall
<1>29. CASE ReadKeyLost(h)
  <2>1. Edits(h, [c EXCEPT !.failed = TRUE]) /\ c.pc = "key"
    BY <1>0, <1>29 DEF ReadKeyLost, Edits, Naming, CallOK, Reading
  <2>2. c.op = "adopt" => Misread(h)
    BY <1>29, <2>1 DEF Misread, GetPolicy
  <2> QED BY <1>17, <2>1, <2>2
<1>30. CASE AdminLost(h) \/ KeepAdmin(h)
  BY <1>2, <1>30 DEF AdminLost, KeepAdmin
<1>31. CASE ReaderLost(h)
  <2>1. CASE ~Naming(h)
    <3>1. Edits(h, [c EXCEPT !.failed = TRUE]) /\ c.pc = "newreader"
      BY <1>31, <2>1 DEF ReaderLost, Edits
    <3>2. c.op = "adopt" => Misread(h)
      BY <1>31, <3>1 DEF Misread, GetPolicy
    <3> QED BY <1>17, <3>1, <3>2
  <2> QED BY <1>2, <1>31, <2>1 DEF ReaderLost
<1>32. {Legible[s] : s \in Statements} \subseteq Statements
  BY ConstantsAssumption
<1> HIDE DEF c
<1> QED BY <1>5, <1>7, <1>8, <1>9, <1>12, <1>13, <1>14, <1>15, <1>16, <1>18, <1>20, <1>21, <1>23, <1>25,
           <1>26, <1>27, <1>28, <1>29, <1>30, <1>31, <1>32 DEF Step

LEMMA Lands ==
  ASSUME TypeOK, RolesOK, CallsOK, NEW h \in Handlers, Step(h), \A r \in Roles : ~ForgetUnconfigured(h, r)
  PROVE  \E d : /\ CallOK(d) /\ Arrive(h, d) /\ Origin(h, d)
               /\ Go(h, d) /\ \A g \in Handlers : call'[g] = IF g = h THEN d ELSE call[g]
<1>1. PICK d : Go(h, d) /\ Arrive(h, d)
  BY Arrivals
<1>2. \A g \in Handlers : call'[g] = IF g = h THEN d ELSE call[g]
  BY <1>1, Others DEF Go
<1>3. CallOK(d)
  <2>1. CallsOK'
    BY StepSorted DEF Sorted
  <2> QED BY <1>2, <2>1 DEF CallsOK
<1>4. Origin(h, d)
  <2>1. CASE UNCHANGED call
    BY <1>2, <2>1 DEF Origin, Same
  <2>2. ASSUME NEW e, call' = [call EXCEPT ![h] = e], Origin(h, e) PROVE Origin(h, d)
    <3>1. e = d
      BY <1>2, <2>2 DEF TypeOK
    <3> QED BY <2>2, <3>1
  <2> QED BY <2>1, <2>2, MineSteps
<1> QED BY <1>1, <1>2, <1>3, <1>4

LEMMA Enters ==
  ASSUME "reader" \in Exclusive, NEW h \in Handlers, Step(h), call[h].pc = "idle",
         NEW g \in Handlers, call[g].pc # "idle"
  PROVE  Named(ReaderName) # {}
<1>1. \E op : MayBegin(h, op)
  BY DEF Step, WriteBegin, FindUser, CreateUser, Store, Refuse, FindReader, CreateReader, CreateReadKey, GetPolicy,
       DeleteReadKey, KeepReadKey, CreateAdmin, PutPolicy, DeleteAdmin, DeleteBegin, RemoveUser,
       Forget, ForgetUnconfigured, AdoptBegin, DropBegin, FailedCall, ReaderLost, ReadKeyLost, AdminLost, KeepAdmin
<1> QED BY <1>1 DEF MayBegin, Working

-----------------------------------------------------------------------------
(***************************************************************************)
(* The engine's reader, and the policies that name it.                     *)
(***************************************************************************)
(* Nothing is known of what requests do at one time but that they do not   *)
(* meet the creation of the reader. The reader has a name of its own, and  *)
(* sees no policy that does not name it.                                   *)
OneReader ==
  /\ "reader" \in Exclusive
  /\ Blanket = {}
  /\ \A r \in Roles : UserName[r] # ReaderName

(* No role has the reader, or a temporary admin, for its service user.     *)
Bystander(u) == u # NoUser => u[1] \notin {ReaderName, AdminName}

Bystanders ==
  /\ \A r \in Roles : Bystander(role[r].user)
  /\ \A h \in Handlers : Bystander(call[h].mine.user)

(* There is one at most, it stays, and everybody who works beside somebody *)
(* else finds it.                                                          *)
Readers ==
  /\ \A u, v \in Named(ReaderName) : u = v
  /\ \A g, h \in Handlers : g # h /\ Working(g) /\ Working(h) => Named(ReaderName) # {}
  /\ \A h \in Handlers : call[h].pc = "newreader" => Named(ReaderName) = {}
  /\ \A h \in Handlers : call[h].reader \in Named(ReaderName) \cup {NoUser}
  /\ \A h \in Handlers : call[h].via \in Named(ReaderName) \cup {NoUser}

(* What a request has read and is about to write is a policy that names    *)
(* the reader, however old it is: or nobody had written one.               *)
Carries(c) == c.pc \in {"admin", "put"} \/ (c.pc = "unkey" /\ ~c.failed)
Plain(p) == \A u \in p.users : u[1] # ReaderName
Shows(p) == Named(ReaderName) # {} /\ Named(ReaderName) \subseteq p.readers

Access ==
  /\ \A b \in Buckets : Plain(policy[b]) /\ (policy[b] # Initially[b] => Shows(policy[b]))
  /\ \A h \in Handlers : Carries(call[h]) =>
       /\ Plain(call[h].read)
       /\ Shows(call[h].read) \/ (call[h].pc = "unkey" /\ call[h].read = NoPolicy)

Guarded == Bystanders /\ Readers /\ Access

LEMMA ReadersInit == Init => Readers
<1> SUFFICES ASSUME Init PROVE Readers
  OBVIOUS
<1>1. ASSUME NEW u \in users PROVE u[1] # ReaderName
  BY <1>1, UsersNamed DEF Init
<1>2. Named(ReaderName) = {}
  BY <1>1 DEF Named
<1> QED BY <1>2, BlankFields DEF Init, Readers, Working

(* No step takes a reader away, and one that finds none may add one.       *)
LEMMA ReaderSteps ==
  ASSUME OneReader, TypeOK, RolesOK, CallsOK, Bystanders, NEW h \in Handlers, Step(h)
  PROVE  \/ Named(ReaderName)' = Named(ReaderName)
         \/ call[h].pc = "newreader" /\ \E u \in Users : Named(ReaderName)' = Named(ReaderName) \cup {u}
<1>0. CallOK(call[h])
  BY DEF CallsOK
<1>1. ASSUME NEW u, u[1] # ReaderName, users' = users \cup {u} \/ users' = users \ {u}
      PROVE  Named(ReaderName)' = Named(ReaderName)
  BY <1>1 DEF Named
<1>2. CASE CreateUser(h)
  <2>1. call[h].role \in Roles
    BY <1>0, <1>2 DEF CreateUser, CallOK
  <2>2. PICK u \in Users : u[1] = UserName[call[h].role] /\ users' = users \cup {u}
    BY <1>2 DEF CreateUser, NewUser
  <2> QED BY <1>1, <2>1, <2>2 DEF OneReader
<1>3. CASE CreateReader(h) \/ ReaderLost(h)
  <2>1. PICK u \in Users : u[1] = ReaderName /\ users' = users \cup {u}
    BY <1>3 DEF CreateReader, ReaderLost, NewUser
  <2>2. Named(ReaderName)' = Named(ReaderName) \cup {u}
    BY <2>1 DEF Named
  <2> QED BY <1>3, <2>2 DEF CreateReader, ReaderLost
<1>4. CASE CreateAdmin(h) \/ AdminLost(h)
  <2>1. PICK u \in Users : u[1] = AdminName /\ users' = users \cup {u}
    BY <1>4 DEF CreateAdmin, AdminLost, NewUser
  <2> QED BY <1>1, <2>1, UsersNamed
<1>5. CASE RemoveUser(h)
  <2>1. call[h].mine.user[1] # ReaderName
    BY <1>0, <1>5, AbsentAssumption DEF RemoveUser, CallOK, Bystanders, Bystander
  <2> QED BY <1>1, <1>5, <2>1 DEF RemoveUser
<1>6. CASE DeleteAdmin(h)
  <2>1. call[h].admin[1] = AdminName
    BY <1>0, <1>6 DEF DeleteAdmin, CallOK
  <2> QED BY <1>1, <1>6, <2>1, UsersNamed DEF DeleteAdmin
<1>7. CASE UNCHANGED users
  BY <1>7 DEF Named
<1> QED BY <1>2, <1>3, <1>4, <1>5, <1>6, <1>7, UserSteps

LEMMA ReadersStep ==
  ASSUME OneReader, TypeOK, RolesOK, CallsOK, Bystanders, Readers, [Next]_vars
  PROVE  Readers'
<1>0. ASSUME NEW g \in Handlers PROVE CallOK(call[g])
  BY <1>0 DEF CallsOK
<1>1. ASSUME NEW h \in Handlers, Step(h), \A r \in Roles : ~ForgetUnconfigured(h, r) PROVE Readers'
  <2>0. PICK d : Arrive(h, d) /\ \A g \in Handlers : call'[g] = IF g = h THEN d ELSE call[g]
    BY <1>1, Lands
  <2>1. Named(ReaderName) \subseteq Named(ReaderName)'
    BY <1>1, ReaderSteps
  <2>2. \A u, v \in Named(ReaderName)' : u = v
    BY <1>1, ReaderSteps DEF Readers
  <2>3. ASSUME NEW g \in Handlers, g # h, call[g].pc # "idle" PROVE Named(ReaderName) # {}
    BY <1>1, <2>3, Enters DEF OneReader, Readers, Working
  <2>4. ASSUME NEW g \in Handlers, NEW k \in Handlers, g # k, call'[g].pc # "idle", call'[k].pc # "idle"
        PROVE  Named(ReaderName)' # {}
    BY <2>0, <2>1, <2>3, <2>4
  <2>5. ASSUME NEW g \in Handlers, call'[g].pc = "newreader" PROVE Named(ReaderName)' = {}
    <3>1. CASE g # h
      <4>1. call[g].pc = "newreader"
        BY <2>0, <2>5, <3>1
      <4>2. FALSE
        BY <2>3, <3>1, <4>1 DEF Readers
      <4> QED BY <4>2
    <3>2. CASE g = h
      <4>1. d.pc = "newreader"
        BY <2>0, <2>5, <3>2
      <4>2. Idle.pc # "newreader"
        BY DEF Idle
      <4>3. FindReader(h) /\ Named(ReaderName) = {}
        BY <2>0, <4>1, <4>2 DEF Arrive
      <4> QED BY <4>3 DEF FindReader, Named
    <3> QED BY <3>1, <3>2
  <2>6. ASSUME NEW g \in Handlers
        PROVE  /\ call'[g].reader \in Named(ReaderName)' \cup {NoUser}
               /\ call'[g].via \in Named(ReaderName)' \cup {NoUser}
    <3>1. CASE g # h
      BY <2>0, <2>1, <3>1 DEF Readers
    <3>2. CASE g = h
      <4>1. call'[g] = d
        BY <2>0, <3>2
      <4>2. Idle.reader = NoUser /\ Idle.via = NoUser
        BY DEF Idle
      <4>3. d.reader \in {call[h].reader, NoUser} \cup Named(ReaderName)'
        BY <2>0, <4>2 DEF Arrive, Kept
      <4>4. d.via \in {call[h].via, NoUser} \cup Named(ReaderName)'
        BY <2>0, <4>2 DEF Arrive
      <4> QED BY <2>1, <4>1, <4>3, <4>4 DEF Readers
    <3> QED BY <3>1, <3>2
  <2> QED BY <2>2, <2>4, <2>5, <2>6 DEF Readers, Working
<1>2. ASSUME NEW h \in Handlers, NEW r \in Roles, ForgetUnconfigured(h, r) PROVE Readers'
  BY <1>2 DEF ForgetUnconfigured, Readers, Named, Working
<1>3. CASE Crash
  <2>1. ASSUME NEW g \in Handlers
        PROVE  /\ call'[g].pc # "idle" => call[g].pc # "idle"
               /\ call'[g].pc # "newreader" /\ call'[g].reader = NoUser /\ call'[g].via = NoUser
    BY <1>3, BlankFields DEF Crash
  <2>2. Named(ReaderName)' = Named(ReaderName)
    BY <1>3 DEF Crash, Named
  <2> QED BY <2>1, <2>2 DEF Readers, Working
<1>4. CASE UNCHANGED vars
  BY <1>4 DEF vars, Readers, Named, Working
<1> QED BY <1>1, <1>2, <1>3, <1>4 DEF Next

LEMMA ReaderStays ==
  ASSUME OneReader, TypeOK, RolesOK, CallsOK, Bystanders, Readers, NEW h \in Handlers, Step(h),
         Named(ReaderName) # {} \/ call[h].pc # "newreader"
  PROVE  Named(ReaderName)' = Named(ReaderName)
BY ReaderSteps DEF Readers

LEMMA BystandersInit == Init => Bystanders
BY BlankFields DEF Init, Bystanders, Bystander

LEMMA BystandersStep ==
  ASSUME OneReader, TypeOK, RolesOK, CallsOK, Bystanders, [Next]_vars
  PROVE  Bystanders'
<1>0. ASSUME NEW h \in Handlers PROVE CallOK(call[h]) /\ call[h] \in Calls
  BY <1>0 DEF CallsOK, CallOK
<1>1. ASSUME NEW h \in Handlers, Step(h) PROVE Bystanders'
  <2>1. ASSUME NEW r \in Roles PROVE Bystander(role'[r].user)
    <3>1. CASE role'[r] = role[r]
      BY <3>1 DEF Bystanders
    <3>2. CASE role'[r] = NoRole
      BY <3>2, BlankFields DEF Bystander
    <3>3. CASE Store(h)
      <4>1. role'[r] = role[r] \/ role'[r] = call[h].mine
        BY <3>3 DEF Store, TypeOK
      <4> QED BY <3>1, <4>1 DEF Bystanders
    <3> QED BY <1>1, <3>1, <3>2, <3>3, RoleSteps DEF TypeOK, Forget, ForgetUnconfigured
  <2>2. ASSUME NEW g \in Handlers PROVE Bystander(call'[g].mine.user)
    <3>1. CASE UNCHANGED call
      BY <3>1 DEF Bystanders
    <3>2. ASSUME NEW d, call' = [call EXCEPT ![h] = d], Origin(h, d) PROVE Bystander(call'[g].mine.user)
      <4>1. call'[g] = IF g = h THEN d ELSE call[g]
        BY <3>2, Others
      <4>2. CASE d.mine = call[h].mine
        BY <4>1, <4>2 DEF Bystanders
      <4>3. ASSUME d.mine.user = NoUser PROVE Bystander(call'[g].mine.user)
        BY <4>1, <4>3 DEF Bystanders, Bystander
      <4>4. ASSUME NEW b \in Buckets PROVE [NoRole EXCEPT !.bucket = b].user = NoUser
        BY DEF NoRole
      <4>5. ASSUME NEW r \in Roles, NEW u \in Users \cup {NoUser}, NEW b \in Buckets \cup {NoBucket},
                   WriteBegin(h, r, u, b), d.mine = [user |-> u, named |-> role[r].named, bucket |-> b]
            PROVE  Bystander(d.mine.user)
        <5>1. d.mine.user = u /\ u \in {role[r].user, NoUser} \cup Asked[r]
          BY <4>5 DEF WriteBegin
        <5>2. u \in Asked[r] => u[1] \notin {ReaderName, AdminName}
          BY ConstantsAssumption
        <5> QED BY <5>1, <5>2 DEF Bystanders, Bystander
      <4>6. ASSUME NEW u \in Users, call[h].pc \in {"find", "create"}, u[1] = UserName[call[h].role],
                   d.mine = [call[h].mine EXCEPT !.user = u, !.named = TRUE]
            PROVE  Bystander(d.mine.user)
        <5>1. d.mine.user = u /\ call[h].role \in Roles
          BY <1>0, <4>6 DEF Calls, RoleRecords, CallOK
        <5> QED BY <4>6, <5>1, UsersNamed DEF OneReader, Bystander
      <4>7. ASSUME NEW r \in Roles, d.mine = role[r] PROVE Bystander(d.mine.user)
        BY <4>7 DEF Bystanders
      <4>8. Bystander(d.mine.user)
        <5>1. CASE d.mine = call[h].mine
          BY <5>1 DEF Bystanders
        <5> QED BY <3>2, <4>4, <4>5, <4>6, <4>7, <5>1, BlankFields DEF Origin, Same, Bystander
      <4> QED BY <4>1, <4>8 DEF Bystanders
    <3> QED BY <1>1, <3>1, <3>2, MineSteps
  <2> QED BY <2>1, <2>2 DEF Bystanders
<1>2. CASE Crash
  BY <1>2, BlankFields DEF Crash, Bystanders, Bystander
<1>3. CASE UNCHANGED vars
  BY <1>3 DEF vars, Bystanders
<1> QED BY <1>1, <1>2, <1>3 DEF Next

(* A policy the engine can read names its reader, if anybody has written   *)
(* it: the reader is no user of the bucket, so the statement that shows it *)
(* the policy is its own.                                                  *)
LEMMA SeenShows ==
  ASSUME OneReader, TypeOK, CallsOK, Readers, Access, NEW h \in Handlers, call[h].pc = "get", Sees(call[h])
  PROVE  LET p == policy[call[h].mine.bucket] IN Plain(p) /\ (Shows(p) \/ p = NoPolicy)
<1> DEFINE b == call[h].mine.bucket
<1>1. b \in Buckets /\ call[h].via \in Named(ReaderName)
  BY DEF CallsOK, CallOK, Reading, Readers
<1>2. policy[b] = NoPolicy \/ call[h].via \in policy[b].users \cup policy[b].readers
  BY DEF Sees, VisibleTo, OneReader
<1>3. call[h].via[1] = ReaderName
  BY <1>1 DEF Named
<1>4. policy[b] = NoPolicy \/ call[h].via \in policy[b].readers
  BY <1>1, <1>2, <1>3 DEF Access, Plain
<1> QED BY <1>1, <1>4 DEF Access, Readers, Shows

(* A change names the reader: a grant puts it there, and a request that    *)
(* only takes something away leaves it where it was.                       *)
LEMMA ChangeShows ==
  ASSUME OneReader, TypeOK, CallsOK, Bystanders, Readers, Access, NEW h \in Handlers, call[h].pc = "unkey",
         call[h].failed => call[h].op = "adopt",
         Change(call[h], Basis(call[h])) # Basis(call[h])
  PROVE  Plain(Change(call[h], Basis(call[h]))) /\ Shows(Change(call[h], Basis(call[h])))
<1> DEFINE c == call[h]
           from == adoptedPolicy(c)
           p == Basis(c)
<1>0. CallOK(c) /\ c \in Calls /\ c.mine.bucket \in Buckets /\ Bystander(c.mine.user)
  BY DEF CallsOK, CallOK, Reading, Bystanders
<1>1. from \in Policies(Users, Statements)
  BY <1>0, Blank DEF adoptedPolicy, Calls
<1>2. p \in [users : SUBSET Users, readers : SUBSET Users, others : SUBSET Statements]
      /\ p.users = from.users /\ p.readers = from.readers
  <2>1. from \in [users : SUBSET Users, readers : SUBSET Users, others : SUBSET Statements]
    BY <1>1 DEF Policies
  <2>2. p = [from EXCEPT !.others = {Legible[s] : s \in @}]
    BY DEF Basis, Decoded
  <2>3. {Legible[s] : s \in from.others} \subseteq Statements
    BY <2>1, ConstantsAssumption
  <2> QED BY <2>1, <2>2, <2>3
<1>3. Plain(p) /\ (~c.failed => Shows(p) \/ c.read = NoPolicy)
  <2>1. CASE c.failed
    <3>1. from = Initially[c.mine.bucket] /\ from.users = {}
      BY <1>0, <2>1, ConstantsAssumption DEF adoptedPolicy, Policies
    <3> QED BY <1>2, <2>1, <3>1 DEF Plain
  <2>2. CASE ~c.failed
    <3>1. from = c.read /\ Plain(c.read) /\ (Shows(c.read) \/ c.read = NoPolicy)
      BY <2>2 DEF adoptedPolicy, Access, Carries
    <3> QED BY <1>2, <2>2, <3>1 DEF Plain, Shows
  <2> QED BY <2>1, <2>2
<1>3a. Change(c, p) # p /\ (c.op # "adopt" => ~c.failed)
  OBVIOUS
<1> DEFINE Goal == Plain(Change(c, p)) /\ Shows(Change(c, p))
<1> SUFFICES Goal
  OBVIOUS
<1> HIDE DEF p
<1>4. CASE c.op \in {"write", "adopt"}
  <2>1. Named(ReaderName) = {c.reader}
    BY <1>0, <1>4 DEF CallOK, Reading, Readers
  <2>2. ASSUME NEW q \in Policies(Users, Statements), Plain(q)
        PROVE  Plain(grantPolicyRead(q, c.reader)) /\ Shows(grantPolicyRead(q, c.reader))
    BY <2>1, <2>2 DEF grantPolicyRead, Policies, Plain, Shows
  <2>3. CASE c.op = "write"
    <3>1. c.mine.user \in Users /\ c.mine.user[1] # ReaderName
      BY <1>0, <2>3, AbsentAssumption DEF CallOK, Calls, RoleRecords, Bystander, Reading
    <3>2. grantBucketAccess(p, c.mine.user) \in Policies(Users, Statements) /\ Plain(grantBucketAccess(p, c.mine.user))
      BY <1>2, <1>3, <3>1 DEF grantBucketAccess, Policies, Plain
    <3> QED BY <2>2, <2>3, <3>2 DEF Change
  <2>4. CASE c.op = "adopt"
    BY <1>2, <1>3, <2>2, <2>4 DEF Change, Policies
  <2> QED BY <1>4, <2>3, <2>4
<1>5. CASE c.op \in {"delete", "drop"}
  <2>1. Change(c, p).readers = p.readers /\ Change(c, p).users \subseteq p.users
    BY <1>2, <1>5 DEF Change, revokeBucketAccess, dropStatements
  <2>2. c.read # NoPolicy
    <3> SUFFICES ASSUME c.read = NoPolicy PROVE FALSE
      OBVIOUS
    <3>1. p = NoPolicy
      BY <1>5 DEF p, Basis, adoptedPolicy, Decoded, NoPolicy
    <3>2. Change(c, NoPolicy) = NoPolicy
      BY <1>5 DEF Change, revokeBucketAccess, dropStatements, NoPolicy
    <3> QED BY <1>3a, <3>1, <3>2
  <2> QED BY <1>3, <1>3a, <1>5, <2>1, <2>2 DEF Plain, Shows
<1>6. CASE c.op \notin {"write", "adopt", "delete", "drop"}
  BY <1>3a, <1>6 DEF Change
<1> QED BY <1>4, <1>5, <1>6

LEMMA GuardedInit == Init => Guarded
<1> SUFFICES ASSUME Init PROVE Guarded
  OBVIOUS
<1>1. ASSUME NEW b \in Buckets PROVE Plain(policy[b])
  BY ConstantsAssumption DEF Init, Plain, Policies
<1>2. Access
  BY <1>1, BlankFields DEF Init, Access, Carries
<1> QED BY <1>2, ReadersInit, BystandersInit DEF Guarded

(* What a step leaves a request with, and the policies.                    *)
LEMMA AccessStep ==
  ASSUME OneReader, TypeOK, RolesOK, CallsOK, Guarded, [Next]_vars
  PROVE  Access'
<1>0. Bystanders /\ Readers /\ Access
  BY DEF Guarded
<1>0a. ASSUME NEW g \in Handlers PROVE CallOK(call[g])
  BY <1>0a DEF CallsOK
<1>1. ASSUME NEW h \in Handlers, Step(h), \A r \in Roles : ~ForgetUnconfigured(h, r) PROVE Access'
  <2>0. PICK d : Arrive(h, d) /\ \A g \in Handlers : call'[g] = IF g = h THEN d ELSE call[g]
    BY <1>1, Lands
  <2>1. ASSUME NEW p, Shows(p) PROVE Shows(p)'
    <3>1. Named(ReaderName)' = Named(ReaderName)
      BY <1>0, <1>1, <2>1, ReaderStays DEF Shows
    <3> QED BY <2>1, <3>1 DEF Shows
  <2>2. ASSUME NEW b \in Buckets PROVE Plain(policy'[b]) /\ (policy'[b] # Initially[b] => Shows(policy[b])')
    <3>1. CASE policy'[b] = policy[b]
      BY <1>0, <2>1, <3>1 DEF Access, Shows
    <3>2. CASE PutPolicy(h) /\ policy'[b] = call[h].read
      <4>1. Plain(call[h].read) /\ Shows(call[h].read)
        BY <1>0, <3>2 DEF PutPolicy, Access, Carries
      <4> QED BY <2>1, <3>2, <4>1 DEF Shows
    <3>3. PutPolicy(h) => policy'[b] \in {policy[b], call[h].read}
      BY DEF PutPolicy, TypeOK
    <3> QED BY <1>1, <3>1, <3>2, <3>3, PolicySteps
  <2>3. ASSUME Carries(d)
        PROVE  Plain(d.read) /\ (Shows(d.read) \/ (d.pc = "unkey" /\ d.read = NoPolicy))
    <3>0. Idle.pc = "idle"
      BY DEF Idle
    <3>1. CASE d.pc = "unkey"
      <4>1. call[h].pc = "get" /\ Sees(call[h]) /\ d.read = policy[call[h].mine.bucket]
        BY <2>0, <2>3, <3>0, <3>1 DEF Arrive, Carries
      <4> QED BY <1>0, <3>1, <4>1, SeenShows
    <3>2. CASE d.pc = "admin" /\ call[h].pc = "unkey"
      <4>1. /\ call[h].failed => call[h].op = "adopt"
            /\ d.read = Change(call[h], Basis(call[h])) /\ d.read # Basis(call[h])
        BY <2>0, <3>0, <3>2 DEF Arrive
      <4> QED BY <1>0, <3>2, <4>1, ChangeShows
    <3>3. CASE d.pc = "admin" /\ call[h].pc # "unkey"
      <4>1. /\ call[h].pc \in {"reader", "newreader", "key"} /\ call[h].op = "adopt"
            /\ call[h].reader \in d.read.readers /\ d.read.users = {} /\ call[h].reader # NoUser
        BY <2>0, <3>0, <3>3 DEF Arrive
      <4>2. Named(ReaderName) = {call[h].reader}
        BY <1>0, <4>1 DEF Readers
      <4> QED BY <4>1, <4>2 DEF Plain, Shows
    <3>4. CASE d.pc = "put"
      <4>1. call[h].pc = "admin" /\ d.read = call[h].read
        BY <2>0, <3>0, <3>4 DEF Arrive
      <4> QED BY <1>0, <4>1 DEF Access, Carries
    <3> QED BY <2>3, <3>1, <3>2, <3>3, <3>4 DEF Carries
  <2>4. ASSUME NEW g \in Handlers, Carries(call'[g])
        PROVE  /\ Plain(call'[g].read)
               /\ Shows(call[g].read)' \/ (call'[g].pc = "unkey" /\ call'[g].read = NoPolicy)
    <3>1. /\ Plain(call'[g].read)
          /\ Shows(call'[g].read) \/ (call'[g].pc = "unkey" /\ call'[g].read = NoPolicy)
      BY <1>0, <2>0, <2>3, <2>4 DEF Access
    <3> QED BY <2>1, <3>1 DEF Shows
  <2> QED BY <2>2, <2>4 DEF Access, Plain, Carries
<1>2. ASSUME NEW h \in Handlers, NEW r \in Roles, ForgetUnconfigured(h, r) PROVE Access'
  BY <1>0, <1>2 DEF ForgetUnconfigured, Access, Plain, Shows, Carries, Named
<1>3. CASE Crash
  <2>1. ASSUME NEW g \in Handlers PROVE ~Carries(call'[g])
    BY <1>3, <2>1 DEF Crash, Idle, Carries
  <2> QED BY <1>0, <1>3, <2>1 DEF Crash, Access, Plain, Shows, Carries, Named
<1>4. CASE UNCHANGED vars
  BY <1>0, <1>4 DEF vars, Access, Plain, Shows, Carries, Named
<1> QED BY <1>1, <1>2, <1>3, <1>4 DEF Next

LEMMA GuardedStep ==
  ASSUME OneReader, TypeOK, RolesOK, CallsOK, Guarded, [Next]_vars
  PROVE  Guarded'
BY BystandersStep, ReadersStep, AccessStep DEF Guarded

LEMMA GuardedAccess == Guarded => EngineKeepsItsAccess
BY DEF Guarded, Access, Shows, EngineKeepsItsAccess

(* A policy the engine has written names the reader it will read it with,  *)
(* whatever requests work on one role or one bucket at a time, write a     *)
(* policy they read long ago, fail, are lost or end with the process.      *)
THEOREM AccessStays == ASSUME OneReader PROVE Spec => []EngineKeepsItsAccess
<1> DEFINE I == TypeOK /\ RolesOK /\ CallsOK /\ Guarded
<1>1. Init => I
  BY TypeInit, GuardedInit
<1>2. I /\ [Next]_vars => I'
  BY TypeStep, GuardedStep
<1>3. I => EngineKeepsItsAccess
  BY GuardedAccess
<1> QED BY <1>1, <1>2, <1>3, PTL DEF Spec

-----------------------------------------------------------------------------
(***************************************************************************)
(* Changes of policies.                                                    *)
(***************************************************************************)
(* A change leaves the statements of others alone, but for those an        *)
(* operator asked to drop by their Sids.                                   *)
LEMMA OthersStay ==
  ASSUME NEW c, NEW p \in Policies(Users, Statements)
  PROVE  Change(c, p).others = IF c.op = "drop" THEN p.others \ c.sids ELSE p.others
BY DEF Change, grantPolicyRead, grantBucketAccess, revokeBucketAccess, dropStatements, Policies

(* A change, statement by statement.                                       *)
Parts(c, p) ==
  [users |-> CASE c.op = "write" -> p.users \cup {c.mine.user}
               [] c.op = "delete" -> p.users \ {c.mine.user}
               [] OTHER -> p.users,
   readers |-> IF c.op \in {"write", "adopt"} /\ c.reader \notin p.readers THEN {c.reader} ELSE p.readers,
   others |-> IF c.op = "drop" THEN p.others \ c.sids ELSE p.others]

LEMMA ChangeParts ==
  ASSUME NEW c, NEW p \in Policies(Users, Statements) PROVE Change(c, p) = Parts(c, p)
<1>1. CASE c.op = "write"
  <2>1. grantBucketAccess(p, c.mine.user) = [users |-> p.users \cup {c.mine.user}, readers |-> p.readers, others |-> p.others]
    BY DEF grantBucketAccess, Policies
  <2> QED BY <1>1, <2>1 DEF Change, Parts, grantPolicyRead
<1>2. CASE c.op = "delete"
  BY <1>2 DEF Change, Parts, revokeBucketAccess, Policies
<1>3. CASE c.op = "adopt"
  BY <1>3 DEF Change, Parts, grantPolicyRead, Policies
<1>4. CASE c.op = "drop"
  BY <1>4 DEF Change, Parts, dropStatements, Policies
<1>5. CASE c.op \notin {"write", "delete", "adopt", "drop"}
  BY <1>5 DEF Change, Parts, Policies
<1> QED BY <1>1, <1>2, <1>3, <1>4, <1>5

(* A change made once more changes nothing: a deletion asked for again, a  *)
(* role written twice, a bucket adopted twice.                             *)
THEOREM ChangesRepeat ==
  ASSUME NEW c, NEW p \in Policies(Users, Statements),
         c.op = "write" => c.mine.user \in Users,
         c.op \in {"write", "adopt"} => c.reader \in Users
  PROVE  Change(c, Change(c, p)) = Change(c, p)
<1>1. Change(c, p) = Parts(c, p)
  BY ChangeParts
<1>2. Parts(c, p) \in Policies(Users, Statements)
  BY DEF Parts, Policies
<1>3. Change(c, Change(c, p)) = Parts(c, Parts(c, p))
  BY <1>1, <1>2, ChangeParts
<1>4. /\ Parts(c, Parts(c, p)).users = Parts(c, p).users
      /\ Parts(c, Parts(c, p)).readers = Parts(c, p).readers
      /\ Parts(c, Parts(c, p)).others = Parts(c, p).others
  BY DEF Parts
<1> QED BY <1>1, <1>3, <1>4 DEF Parts

(* Changes for different users come to the same in either order, so long   *)
(* as they name one reader: which of two requests writes first does not    *)
(* matter, only that the second has read what the first wrote.             *)
THEOREM ChangesCommute ==
  ASSUME NEW c, NEW d, NEW p \in Policies(Users, Statements),
         \A e \in {c, d} : e.op = "write" => e.mine.user \in Users,
         \A e \in {c, d} : e.op \in {"write", "adopt"} => e.reader \in Users,
         {c.op, d.op} = {"write", "delete"} => c.mine.user # d.mine.user,
         c.op \in {"write", "adopt"} /\ d.op \in {"write", "adopt"} => c.reader = d.reader
  PROVE  Change(c, Change(d, p)) = Change(d, Change(c, p))
<1>1. ASSUME NEW e \in {c, d} PROVE Change(e, p) = Parts(e, p) /\ Parts(e, p) \in Policies(Users, Statements)
  <2>1. Change(e, p) = Parts(e, p)
    BY ChangeParts
  <2> QED BY <2>1 DEF Parts, Policies
<1>2. Change(c, Change(d, p)) = Parts(c, Parts(d, p)) /\ Change(d, Change(c, p)) = Parts(d, Parts(c, p))
  BY <1>1, ChangeParts
<1>3. Parts(c, Parts(d, p)).users = Parts(d, Parts(c, p)).users
  BY DEF Parts
<1>4. Parts(c, Parts(d, p)).readers = Parts(d, Parts(c, p)).readers
  BY DEF Parts
<1>5. Parts(c, Parts(d, p)).others = Parts(d, Parts(c, p)).others
  BY DEF Parts
<1>6. Parts(c, Parts(d, p)) = Parts(d, Parts(c, p))
  <2> DEFINE P(e, q) == [users |-> Parts(e, q).users, readers |-> Parts(e, q).readers, others |-> Parts(e, q).others]
  <2>1. \A e, q : Parts(e, q) = P(e, q)
    BY DEF Parts
  <2>2. P(c, Parts(d, p)) = P(d, Parts(c, p))
    BY <1>3, <1>4, <1>5
  <2> QED BY <2>1, <2>2
<1> QED BY <1>2, <1>6

=============================================================================
