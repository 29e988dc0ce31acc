----------------------------- MODULE Provisioning -----------------------------
(***************************************************************************)
(* What writing and deleting a role does in Selectel: its service user and *)
(* its place in the policy of its bucket.  Adopting a bucket and dropping  *)
(* statements from its policy go the same way.                             *)
(*                                                                         *)
(* A policy is read with a key of the engine's own reader, changed in      *)
(* memory, and written with a key of a user with s3.admin that exists for  *)
(* the time of the call.  Each call to Selectel is a step, each may fail,  *)
(* and requests hold no lock: between two steps of one request come steps  *)
(* of others.                                                              *)
(*                                                                         *)
(* A service user is a pair of a name and a number; Selectel keeps two     *)
(* users of one name apart.  A temporary user or key that no request       *)
(* mentions any more may stand for a new one; that it was left behind      *)
(* shows in the step that leaves it (TemporariesLeftOnlyByFailure).        *)
(*                                                                         *)
(* A request that fails just ends.  Whoever asked may ask again, and so    *)
(* may anybody else before: the role is stored as it was.                  *)
(***************************************************************************)
EXTENDS Naturals, BucketPolicy

CONSTANTS
  Roles,       \* names of roles, dynamic and static; what storage holds them under
  Static,      \* those of static roles
  Twin,        \* the dynamic role a static role has its name in common with
  UserName,    \* what the service user of each role is called
  ReaderName, AdminName,
  Foreigners,  \* users the engine did not create, whatever they are called
  Asked,       \* those each role may be bound to
  Slots,       \* bound: users that Selectel tells apart under each name
  Keys,        \* keys to read a policy with
  Buckets,
  Statements,  \* what others write into policies, and what decoding makes of it
  Blanket,     \* those that name everybody
  Legible,     \* what is left of each when the engine has decoded and encoded it
  Initially,   \* the policy of each bucket before the engine, of which operators have a copy
  Handlers,    \* requests the plugin serves at one time
  Operations,  \* of {"write", "rebind", "refuse", "delete", "forget", "adopt", "drop"}
  Exclusive,   \* of {"reader"}: what requests never meet the creation of together
  Faults,      \* of {"fail", "lost", "die"}
  NoUser, NoKey, NoName, NoBucket

Names == DOMAIN Slots
Users == UNION {{n} \X Slots[n] : n \in Names}

ASSUME ConstantsAssumption ==
  /\ Slots \in [Names -> SUBSET Nat]
  /\ Static \subseteq Roles
  /\ Twin \in [Static -> Roles \cup {NoName}]
  /\ UserName \in [Roles -> Names]
  /\ {ReaderName, AdminName} \subseteq Names
  /\ Foreigners \subseteq Users
  /\ \A u \in Foreigners : u[1] \notin {ReaderName, AdminName}
  /\ Asked \in [Roles -> SUBSET Foreigners]
  /\ \A r \in Static : Asked[r] = {}
  /\ AdminName \notin {ReaderName} \cup {UserName[r] : r \in Roles}
  /\ Blanket \subseteq Statements
  /\ Legible \in [Statements -> Statements]
  /\ Initially \in [Buckets -> Policies({}, Statements)]

ASSUME AbsentAssumption ==
  NoUser \notin Users /\ NoKey \notin Keys /\ NoName \notin Roles /\ NoBucket \notin Buckets

VARIABLES
  role,    \* stored roles
  users,   \* the service users there are in Selectel
  keys,    \* keys of the reader's that work
  policy,  \* the policy of each bucket
  call,    \* what each handler is doing, with what it read before
  behind   \* history: handlers whose request goes by a policy that is not the one there is

vars == <<role, users, keys, policy, call, behind>>

(* A role's record; named tells that the engine chose the user's name.     *)
RoleRecords ==
  [user : Users \cup {NoUser}, named : BOOLEAN, bucket : Buckets \cup {NoBucket}]

NoRole == [user |-> NoUser, named |-> FALSE, bucket |-> NoBucket]

Calls ==
  [pc : {"idle", "find", "create", "reader", "newreader",
         "key", "get", "unkey", "admin", "put", "unadmin", "remove", "store", "forget"},
   op : {"none", "write", "delete", "adopt", "confirm", "drop"},
   role : Roles \cup {NoName},
   mine : RoleRecords,
   sids : SUBSET Statements,
   reader : Users \cup {NoUser},  \* the reader to be named in the policy
   via : Users \cup {NoUser},     \* the one whose key reads it
   key : Keys \cup {NoKey},
   admin : Users \cup {NoUser},
   read : Policies(Users, Statements),
   failed : BOOLEAN]

Idle == [pc |-> "idle", op |-> "none", role |-> NoName, mine |-> NoRole, sids |-> {},
         reader |-> NoUser, via |-> NoUser, key |-> NoKey, admin |-> NoUser,
         read |-> NoPolicy, failed |-> FALSE]

TypeOK ==
  /\ role \in [Roles -> RoleRecords]
  /\ users \subseteq Users
  /\ keys \subseteq Keys
  /\ policy \in [Buckets -> Policies(Users, Statements)]
  /\ call \in [Handlers -> Calls]
  /\ behind \subseteq Handlers

Init ==
  /\ role = [r \in Roles |-> NoRole]
  /\ users = Foreigners
  /\ keys = {}
  /\ policy = Initially
  /\ call = [h \in Handlers |-> Idle]
  /\ behind = {}

-----------------------------------------------------------------------------
(***************************************************************************)
(* Operators.                                                              *)
(***************************************************************************)
Named(n) == {u \in users : u[1] = n}
Stored(r) == role[r] # NoRole
Working(h) == call[h].pc # "idle"

Go(h, c) == call' = [call EXCEPT ![h] = c]
At(h, pc) == Go(h, [call[h] EXCEPT !.pc = pc])
Finish(h) == Go(h, Idle)

(* What keeps two requests from creating two readers, if anything does.    *)
MayBegin(h, op) ==
  /\ op \in Operations
  /\ ~Working(h)
  /\ "reader" \in Exclusive /\ (\E g \in Handlers : Working(g)) => Named(ReaderName) # {}

Lost == "lost" \in Faults

Mentioned(u) ==
  \/ \E r \in Roles : role[r].user = u
  \/ \E b \in Buckets : u \in policy[b].users \cup policy[b].readers
  \/ \E h \in Handlers : \/ u \in {call[h].mine.user, call[h].reader, call[h].via, call[h].admin}
                         \/ u \in call[h].read.users \cup call[h].read.readers

(* The user Selectel creates under a name.                                 *)
Fresh(u) == u \notin Foreigners /\ ~Mentioned(u) /\ (u \in users => u[1] = AdminName)
NewUser(n, u) ==
  /\ u[1] = n /\ Fresh(u)
  /\ \A i \in Slots[n] : i < u[2] => ~Fresh(<<n, i>>)

NewKey(k) == \A h \in Handlers : call[h].key # k

(* The change a request makes to a policy.                                 *)
Change(c, p) ==
  CASE c.op = "write" -> grantPolicyRead(grantBucketAccess(p, c.mine.user), c.reader)
    [] c.op = "delete" -> revokeBucketAccess(p, c.mine.user)
    [] c.op = "adopt" -> grantPolicyRead(p, c.reader)
    [] c.op = "drop" -> dropStatements(p, c.sids)
    [] OTHER -> p

RemovalAlways(r) == "remove"

(* What comes after the policy, and after the user.                        *)
Removal(r) == IF r.named THEN "remove" ELSE "forget"

Onward(h) ==
  LET c == call[h]
      Then(pc) == Go(h, [Idle EXCEPT !.pc = pc, !.op = c.op, !.role = c.role, !.mine = c.mine])
  IN CASE c.op = "write" -> Then("store")
       [] c.op = "delete" -> Then(Removal(c.mine))
       [] OTHER -> Finish(h)

Granting(b) == IF b = NoBucket THEN "store" ELSE "reader"

(* A write and an adoption look for the reader twice: for the policy to    *)
(* name, and then to read the policy with a key of its own.                *)
Naming(h) == call[h].op \in {"write", "adopt"} /\ call[h].reader = NoUser

(***************************************************************************)
(* Writing a role. A dynamic one may be bound to a user that exists; asked *)
(* for none at all, the engine looks for one by the role's name.           *)
(***************************************************************************)
WriteBegin(h, r, u, b) ==
  /\ MayBegin(h, "write")
  /\ r \in Static /\ Twin[r] # NoName => ~Stored(Twin[r])
  /\ u \in {role[r].user, NoUser} \cup Asked[r]
  /\ r \in Static => u = role[r].user
  /\ role[r].named /\ u \notin {role[r].user, NoUser} => "rebind" \in Operations
  /\ Go(h, [Idle EXCEPT !.pc = IF u = NoUser THEN "find" ELSE Granting(b),
                        !.op = "write", !.role = r,
                        !.mine = [user |-> u, named |-> role[r].named, bucket |-> b]])
  /\ UNCHANGED <<role, users, keys, policy>>

TakeUser(h, u) ==
  Go(h, [call[h] EXCEPT !.pc = Granting(call[h].mine.bucket), !.mine.user = u, !.mine.named = TRUE])

FindUser(h) ==
  /\ call[h].pc = "find"
  /\ LET found == Named(UserName[call[h].role])
     IN IF found = {} THEN At(h, "create") ELSE \E u \in found : TakeUser(h, u)
  /\ UNCHANGED <<role, users, keys, policy>>

CreateUser(h) ==
  /\ call[h].pc = "create"
  /\ \E u \in Users :
       /\ NewUser(UserName[call[h].role], u)
       /\ users' = users \cup {u}
       /\ TakeUser(h, u) \/ (Lost /\ Finish(h))
  /\ UNCHANGED <<role, keys, policy>>

Store(h) ==
  /\ call[h].pc = "store"
  /\ role' = [role EXCEPT ![call[h].role] = call[h].mine]
  /\ Finish(h)
  /\ UNCHANGED <<users, keys, policy>>

(* The ttl of a dynamic role is looked at last.                            *)
Refuse(h) ==
  /\ call[h].pc = "store"
  /\ "refuse" \in Operations
  /\ call[h].role \notin Static
  /\ Finish(h)
  /\ UNCHANGED <<role, users, keys, policy>>

(***************************************************************************)
(* Changing a policy: the reader, a key of the reader's, the read, the     *)
(* change, the temporary admin, the write.                                 *)
(***************************************************************************)
TakeReaderName(h, u) ==
  IF Naming(h)
  THEN Go(h, [call[h] EXCEPT !.pc = "reader", !.reader = u[1]])
  ELSE Go(h, [call[h] EXCEPT !.pc = "key", !.via = u])

TakeReader(h, u) ==
  IF Naming(h)
  THEN Go(h, [call[h] EXCEPT !.pc = "reader", !.reader = u])
  ELSE Go(h, [call[h] EXCEPT !.pc = "key", !.via = u])

FindReader(h) ==
  /\ call[h].pc = "reader"
  /\ IF Named(ReaderName) = {} THEN At(h, "newreader")
     ELSE \E u \in Named(ReaderName) : TakeReader(h, u)
  /\ UNCHANGED <<role, users, keys, policy>>

CreateReader(h) ==
  /\ call[h].pc = "newreader"
  /\ \E u \in Users :
       /\ NewUser(ReaderName, u)
       /\ users' = users \cup {u}
       /\ TakeReader(h, u)
  /\ UNCHANGED <<role, keys, policy>>

CreateReadKey(h) ==
  /\ call[h].pc = "key"
  /\ \E k \in Keys :
       /\ NewKey(k)
       /\ keys' = keys \cup {k}
       /\ Go(h, [call[h] EXCEPT !.pc = "get", !.key = k])
  /\ UNCHANGED <<role, users, policy>>

GetPolicy(h) ==
  /\ call[h].pc = "get"
  /\ LET b == call[h].mine.bucket
     IN Go(h, [call[h] EXCEPT !.pc = "unkey",
                             !.read = IF VisibleTo(call[h].via, policy[b], Blanket) THEN policy[b] ELSE @,
                             !.failed = ~VisibleTo(call[h].via, policy[b], Blanket)])
  /\ UNCHANGED <<role, users, keys, policy>>

adoptedPasted(c) == IF c.op = "adopt" THEN Initially[c.mine.bucket] ELSE c.read

(* An adoption that could not read takes what the operator passed.         *)
adoptedPolicy(c) == IF c.op = "adopt" /\ c.failed THEN Initially[c.mine.bucket] ELSE c.read

(* With the read done the policy is changed in memory. Nobody leaves a     *)
(* policy empty by adopting a bucket or dropping statements. An operator   *)
(* who passed no copy gets an error like everybody else who could not read.*)
Edit(h, c) ==
  LET from == Decoded(adoptedPolicy(c), Legible)
      to == Change(c, from)
  IN \/ c.failed /\ Finish(h)
     \/ /\ c.failed => c.op = "adopt" /\ from # NoPolicy
        /\ IF c.op = "drop" /\ to = NoPolicy THEN Finish(h)
           ELSE IF to = from THEN Onward(h)
           ELSE Go(h, [c EXCEPT !.pc = "admin", !.via = NoUser, !.key = NoKey, !.read = to, !.failed = FALSE])

(* The answer to the deletion of the key is not looked at.                 *)
DeleteReadKey(h) ==
  /\ call[h].pc = "unkey"
  /\ keys' = keys \ {call[h].key}
  /\ Edit(h, call[h])
  /\ UNCHANGED <<role, users, policy>>

KeepReadKey(h) ==
  /\ "fail" \in Faults
  /\ call[h].pc = "unkey"
  /\ Edit(h, call[h])
  /\ UNCHANGED <<role, users, keys, policy>>

(* The admin gets a key; whether that or the write fails comes to the same.*)
CreateAdmin(h) ==
  /\ call[h].pc = "admin"
  /\ \E u \in Users :
       /\ NewUser(AdminName, u)
       /\ users' = users \cup {u}
       /\ Go(h, [call[h] EXCEPT !.pc = "put", !.admin = u])
  /\ UNCHANGED <<role, keys, policy>>

PutPolicyUndeferred(h) ==
  /\ call[h].pc = "put"
  /\ policy' = [policy EXCEPT ![call[h].mine.bucket] = call[h].read]
  /\ \/ Go(h, [call[h] EXCEPT !.pc = "unadmin", !.read = NoPolicy])
     \/ Lost /\ Finish(h)
  /\ UNCHANGED <<role, users, keys>>

PutPolicy(h) ==
  /\ call[h].pc = "put"
  /\ policy' = [policy EXCEPT ![call[h].mine.bucket] = call[h].read]
  /\ \E failed \in BOOLEAN :
       /\ failed => Lost
       /\ Go(h, [call[h] EXCEPT !.pc = "unadmin", !.read = NoPolicy, !.failed = failed])
  /\ UNCHANGED <<role, users, keys>>

(* An adoption reads the policy again, with another key.                   *)
DeleteAdmin(h) ==
  /\ call[h].pc = "unadmin"
  /\ users' = users \ {call[h].admin}
  /\ \/ /\ ~call[h].failed
        /\ IF call[h].op = "adopt"
           THEN Go(h, [Idle EXCEPT !.pc = "reader", !.op = "confirm", !.mine = call[h].mine])
           ELSE Onward(h)
     \/ /\ call[h].failed \/ Lost
        /\ Finish(h)
  /\ UNCHANGED <<role, keys, policy>>

(***************************************************************************)
(* Deleting a role, adopting a bucket, dropping statements.                *)
(***************************************************************************)
DeletionOfUser(r) ==
  [Idle EXCEPT !.pc = Removal(role[r]), !.op = "delete", !.role = r, !.mine = role[r]]

Deletion(r) ==
  [Idle EXCEPT !.pc = IF role[r].bucket = NoBucket THEN Removal(role[r]) ELSE "reader",
               !.op = "delete", !.role = r, !.mine = role[r]]

DeleteBegin(h, r) ==
  /\ Stored(r)
  /\ MayBegin(h, "delete")
  /\ Go(h, Deletion(r))
  /\ UNCHANGED <<role, users, keys, policy>>

RemoveUser(h) ==
  /\ call[h].pc = "remove"
  /\ users' = users \ {call[h].mine.user}
  /\ At(h, "forget") \/ (Lost /\ Finish(h))
  /\ UNCHANGED <<role, keys, policy>>

Forget(h) ==
  /\ call[h].pc = "forget"
  /\ role' = [role EXCEPT ![call[h].role] = NoRole]
  /\ Finish(h)
  /\ UNCHANGED <<users, keys, policy>>

(* An engine without configuration undoes nothing.                         *)
ForgetUnconfigured(h, r) ==
  /\ Stored(r)
  /\ MayBegin(h, "forget")
  /\ role' = [role EXCEPT ![r] = NoRole]
  /\ UNCHANGED <<users, keys, policy, call>>

AdoptBegin(h, b) ==
  /\ MayBegin(h, "adopt")
  /\ Go(h, [Idle EXCEPT !.pc = "reader", !.op = "adopt", !.mine.bucket = b])
  /\ UNCHANGED <<role, users, keys, policy>>

DropBegin(h, b, sids) ==
  /\ MayBegin(h, "drop")
  /\ Go(h, [Idle EXCEPT !.pc = "reader", !.op = "drop", !.mine.bucket = b, !.sids = sids])
  /\ UNCHANGED <<role, users, keys, policy>>

(***************************************************************************)
(* What goes wrong.                                                        *)
(***************************************************************************)
(* A call to Selectel or to storage fails and has done nothing.            *)
FailedCall(h) ==
  /\ "fail" \in Faults
  /\ \/ /\ call[h].pc \in {"find", "create", "admin", "remove", "store", "forget"}
        /\ Finish(h)
     \/ /\ call[h].pc \in {"reader", "newreader"}
        /\ Naming(h)
        /\ Finish(h)
     \/ /\ call[h].pc \in {"reader", "newreader", "key"}
        /\ ~Naming(h)
        /\ Edit(h, [call[h] EXCEPT !.failed = TRUE])
     \/ /\ call[h].pc = "get"
        /\ Go(h, [call[h] EXCEPT !.pc = "unkey", !.failed = TRUE])
     \/ /\ call[h].pc = "put"
        /\ Go(h, [call[h] EXCEPT !.pc = "unadmin", !.read = NoPolicy, !.failed = TRUE])
  /\ UNCHANGED <<role, users, keys, policy>>

(* The answer that names a new reader, key or admin does not arrive.       *)
ReaderLost(h) ==
  /\ Lost
  /\ call[h].pc = "newreader"
  /\ \E u \in Users :
       /\ NewUser(ReaderName, u)
       /\ users' = users \cup {u}
  /\ IF Naming(h) THEN Finish(h) ELSE Edit(h, [call[h] EXCEPT !.failed = TRUE])
  /\ UNCHANGED <<role, keys, policy>>

ReadKeyLost(h) ==
  /\ Lost
  /\ call[h].pc = "key"
  /\ \E k \in Keys :
       /\ NewKey(k)
       /\ keys' = keys \cup {k}
  /\ Edit(h, [call[h] EXCEPT !.failed = TRUE])
  /\ UNCHANGED <<role, users, policy>>

AdminLost(h) ==
  /\ Lost
  /\ call[h].pc = "admin"
  /\ \E u \in Users :
       /\ NewUser(AdminName, u)
       /\ users' = users \cup {u}
  /\ Finish(h)
  /\ UNCHANGED <<role, keys, policy>>

(* The deferred deletion fails, whatever became of the write before it.    *)
KeepAdmin(h) ==
  /\ "fail" \in Faults
  /\ call[h].pc = "unadmin"
  /\ Finish(h)
  /\ UNCHANGED <<role, users, keys, policy>>

(* The plugin's process ends, and with it every request.                   *)
Crash ==
  /\ "die" \in Faults
  /\ \E h \in Handlers : Working(h)
  /\ call' = [h \in Handlers |-> Idle]
  /\ UNCHANGED <<role, users, keys, policy>>

(* A request falls behind when another one changes the policy it has read, *)
(* or written, and so does an adoption that goes by the operator's copy    *)
(* because a call failed, not because Selectel does not show the policy.   *)
Overtaken(h) ==
  /\ call[h].pc \in {"unkey", "admin", "put", "unadmin", "store", "remove", "forget"}
  /\ call'[h] = call[h]
  /\ \E b \in Buckets : b = call[h].mine.bucket /\ policy'[b] # policy[b]

Misread(h) ==
  /\ call[h].op = "adopt"
  /\ FailedCall(h) \/ ReaderLost(h) \/ ReadKeyLost(h)
  /\ ~GetPolicy(h)

FallBehind ==
  behind' = {h \in Handlers : Working(h)' /\ (h \in behind \/ Overtaken(h) \/ Misread(h))}

-----------------------------------------------------------------------------
Step(h) ==
  \/ \E r \in Roles, u \in Users \cup {NoUser}, b \in Buckets \cup {NoBucket} : WriteBegin(h, r, u, b)
  \/ FindUser(h) \/ CreateUser(h) \/ Store(h) \/ Refuse(h)
  \/ FindReader(h) \/ CreateReader(h) \/ CreateReadKey(h) \/ GetPolicy(h)
  \/ DeleteReadKey(h) \/ KeepReadKey(h)
  \/ CreateAdmin(h) \/ PutPolicy(h) \/ DeleteAdmin(h)
  \/ \E r \in Roles : DeleteBegin(h, r) \/ ForgetUnconfigured(h, r)
  \/ RemoveUser(h) \/ Forget(h)
  \/ \E b \in Buckets : AdoptBegin(h, b)
  \/ \E b \in Buckets, sids \in (SUBSET {Legible[s] : s \in Statements}) \ {{}} : DropBegin(h, b, sids)
  \/ FailedCall(h) \/ ReaderLost(h) \/ ReadKeyLost(h) \/ AdminLost(h) \/ KeepAdmin(h)

Next == ((\E h \in Handlers : Step(h)) \/ Crash) /\ FallBehind

Spec == Init /\ [][Next]_vars

-----------------------------------------------------------------------------
(***************************************************************************)
(* Properties.                                                             *)
(***************************************************************************)
(* Stored roles nobody can use: the service user is gone, or the policy of *)
(* the bucket does not name it.                                            *)
Granted(m) == m.bucket # NoBucket => m.user \in policy[m.bucket].users
Unserved == {r \in Roles : Stored(r) /\ ~(role[r].user \in users /\ Granted(role[r]))}

(* A role stays usable beside writes, deletions, adoptions and drops that  *)
(* fail, are lost or cut off and asked again. It loses its user or its     *)
(* grant only to the deletion of a role with that very user, its grant     *)
(* only to a write of a policy that is not the one there is; and a write   *)
(* stores one that has lost it, or whose user is gone.                     *)
RolesServed ==
  [][\A r \in Unserved' \ Unserved : \E h \in Handlers :
       \/ /\ call[h].op = "delete" /\ call[h].mine.user = role[r].user
          /\ PutPolicy(h) \/ RemoveUser(h)
       \/ h \in behind /\ PutPolicy(h)
       \/ /\ Store(h) /\ call[h].role = r
          /\ h \in behind \/ call[h].mine.user \notin users]_vars

(* Selectel shows a policy only to those it names: a bucket whose policy   *)
(* the engine wrote once names the engine's reader from then on, and the   *)
(* reader found by its name is the one that is named.                      *)
EngineKeepsItsAccess ==
  \A b \in Buckets : policy[b] # Initially[b] =>
    Named(ReaderName) # {} /\ Named(ReaderName) \subseteq policy[b].readers

(* The engine deletes no service user it did not create. It does, when a   *)
(* role it named a user for is bound to another one, or when a user is     *)
(* called like that of a role: BoundUsersKept is what holds.               *)
ForeignUsersKept == Foreigners \subseteq users

(* Users of others are deleted only where they are called like the user of *)
(* a role, which the engine finds by that name and takes for its own; or   *)
(* where a role the engine named a user for was bound to another.          *)
BoundUsersKept == {u \in Foreigners : \A r \in Roles : u[1] # UserName[r]} \subseteq users

(* Read, change and write of a policy come to one change: what is written  *)
(* is the policy there is, as decoding leaves it, with just the change the *)
(* request is for. Only a request that another one has overtaken between   *)
(* its read and its write, or an adoption whose read failed for a moment,  *)
(* writes anything else, and undoes grants or drops of others.             *)
PolicyChangesAsAsked ==
  [][\A b \in Buckets : policy'[b] # policy[b] =>
       \E h \in Handlers :
         /\ PutPolicy(h) /\ call[h].mine.bucket = b
         /\ h \in behind \/ policy'[b] = Change(call[h], Decoded(policy[b], Legible))]_vars

(* An adoption takes no grant away: "adopting a bucket twice cannot roll   *)
(* it back to a policy the caller pasted from an older state". It does,    *)
(* when its own read of the policy fails.                                  *)
AdoptionsKeepGrants ==
  [][\A h \in Handlers, b \in Buckets :
       PutPolicy(h) /\ call[h].op = "adopt" /\ call[h].mine.bucket = b
         => policy[b].users \subseteq policy'[b].users]_vars

(* Users a policy grants the bucket to for no role and no request.         *)
Grants == UNION {{b} \X policy[b].users : b \in Buckets}
Place(m) == <<m.bucket, m.user>>
Loose == Grants \ ({Place(role[r]) : r \in Roles} \cup {Place(call[h].mine) : h \in Handlers})

(* A grant comes to stand without a role, so that no deletion of a role    *)
(* will take it back, only where a write ends without storing the role it  *)
(* provisioned (an error, the end of the process, or a ttl refused at the  *)
(* end), a role moves to another bucket or user, a role is deleted without *)
(* a configuration, a deletion ends of a role rewritten since it began, or *)
(* a request that has fallen behind writes a policy or forgets a role.     *)
LooseGrantsHaveCause ==
  [][Loose' \subseteq Loose
     \/ \E h \in Handlers :
          \/ call[h].op = "write" /\ ~Working(h)' /\ UNCHANGED role
          \/ /\ call[h].op = "delete" /\ ~Working(h)'
             /\ h \in behind \/ role[call[h].role] # call[h].mine
          \/ Store(h) /\ Place(role[call[h].role]) # Place(call[h].mine)
          \/ h \in behind /\ PutPolicy(h)
          \/ \E r \in Roles : ForgetUnconfigured(h, r)]_vars

(* Temporary admins and keys nobody is going to delete.                    *)
LeftBehind ==
  (Named(AdminName) \ {call[h].admin : h \in Handlers}) \cup (keys \ {call[h].key : h \in Handlers})

(* A user with s3.admin, or a key of the reader's, outlives the request it *)
(* was created for only when the answer that names it is lost, the request *)
(* to delete it fails, or the process ends; not when the read or the write *)
(* it was created for fails.                                               *)
TemporariesLeftOnlyByFailure ==
  [][LeftBehind' \subseteq LeftBehind
     \/ Crash
     \/ \E h \in Handlers : AdminLost(h) \/ KeepAdmin(h) \/ ReadKeyLost(h) \/ KeepReadKey(h)]_vars

=============================================================================
