------------------------- MODULE ProvisioningPromises -------------------------
(***************************************************************************)
(* Theorems about Provisioning: what policies become of overlapping        *)
(* requests, when roles lose what they were given, and where grants come   *)
(* to stand without a role.  They rest on what a request that has not      *)
(* fallen behind knows of the policy it works on (Knows).                  *)
(***************************************************************************)
EXTENDS ProvisioningProofs

-----------------------------------------------------------------------------
(***************************************************************************)
(* What a request knows of a policy.                                       *)
(***************************************************************************)
(* The request is done with the policy of its bucket.                      *)
Done(c) ==
  \/ c.pc = "unadmin" /\ ~c.failed
  \/ c.pc \in {"store", "remove", "forget"} /\ c.mine.bucket # NoBucket

KnowsRead(c) == c.pc = "unkey" /\ ~c.failed => c.read = policy[c.mine.bucket]

(* Selectel shows the engine any policy it wrote, so one it does not show  *)
(* is the one there was before.                                            *)
KnowsUnread(c) ==
  c.pc = "unkey" /\ c.failed /\ c.op = "adopt" => policy[c.mine.bucket] = Initially[c.mine.bucket]

KnowsChange(c) ==
  c.pc \in {"admin", "put"} => c.read = Change(c, Decoded(policy[c.mine.bucket], Legible))

KnowsDone(c) ==
  Done(c) => /\ c.op = "write" => c.mine.user \in policy[c.mine.bucket].users
             /\ c.op = "delete" => c.mine.user \notin policy[c.mine.bucket].users

Knowing(c) == KnowsRead(c) /\ KnowsUnread(c) /\ KnowsChange(c) /\ KnowsDone(c)

Knows == \A h \in Handlers : h \in behind \/ Knowing(call[h])

Based == TypeOK /\ RolesOK /\ CallsOK /\ Guarded /\ Knows

-----------------------------------------------------------------------------
(* Whom a changed policy names is what the change is for.                  *)
LEMMA ChangedUsers ==
  ASSUME NEW c, NEW p \in Policies(Users, Statements)
  PROVE  LET q == Change(c, Decoded(p, Legible))
         IN /\ c.op = "write" => q.users = p.users \cup {c.mine.user}
            /\ c.op = "delete" => q.users = p.users \ {c.mine.user}
            /\ c.op \notin {"write", "delete"} => q.users = p.users
<1> DEFINE d == Decoded(p, Legible)
<1>1. d \in Policies(Users, Statements) /\ d.users = p.users
  BY ConstantsAssumption DEF Decoded, Policies
<1>2. Change(c, d) = Parts(c, d)
  BY <1>1, ChangeParts
<1> QED BY <1>1, <1>2 DEF Parts

(* A request that could not see a policy works on one nobody has changed.  *)
LEMMA UnseenInitially ==
  ASSUME TypeOK, CallsOK, Readers, Access, NEW h \in Handlers, call[h].pc = "get", ~Sees(call[h])
  PROVE  policy[call[h].mine.bucket] = Initially[call[h].mine.bucket]
<1> DEFINE b == call[h].mine.bucket
<1>1. b \in Buckets /\ call[h].via \in Named(ReaderName)
  BY DEF CallsOK, CallOK, Reading, Readers
<1>2. call[h].via \notin policy[b].readers
  BY DEF Sees, VisibleTo
<1> QED BY <1>1, <1>2 DEF Access, Shows

(* A request that goes on knows what it comes to.                          *)
LEMMA StepKnows ==
  ASSUME Based, NEW h \in Handlers, Step(h), h \notin behind, ~Misread(h), NEW d, CallOK(d), Arrive(h, d)
  PROVE  /\ d.pc = "unkey" => (IF d.failed THEN d.op = "adopt" => policy[d.mine.bucket] = Initially[d.mine.bucket]
                               ELSE d.read = policy[d.mine.bucket])
         /\ d.pc \in {"admin", "put"} => d.read = Change(d, Decoded(policy[d.mine.bucket], Legible))
         /\ Done(d) => /\ d.op = "write" => d.mine.user \in policy'[d.mine.bucket].users
                       /\ d.op = "delete" => d.mine.user \notin policy'[d.mine.bucket].users
<1> DEFINE c == call[h]
           b == c.mine.bucket
<1>0. /\ CallOK(c) /\ c \in Calls /\ Knowing(c) /\ TypeOK /\ CallsOK /\ Readers /\ Access /\ RolesOK
      /\ c.pc \in Reading => b \in Buckets /\ policy[b] \in Policies(Users, Statements)
  BY DEF Based, Knows, Guarded, CallsOK, CallOK, TypeOK
<1>1. Idle.pc = "idle"
  BY DEF Idle
<1>2. ASSUME d.pc = "unkey"
      PROVE  IF d.failed THEN d.op = "adopt" => policy[d.mine.bucket] = Initially[d.mine.bucket]
             ELSE d.read = policy[d.mine.bucket]
  <2>1. /\ c.pc = "get" /\ d.op = c.op /\ d.mine = c.mine
        /\ IF d.failed THEN c.op # "adopt" \/ ~Sees(c) ELSE Sees(c) /\ d.read = policy[b]
    BY <1>1, <1>2 DEF Arrive, Kept, Same
  <2> QED BY <1>0, <2>1, UnseenInitially
<1>3. ASSUME c.pc = "unkey", c.failed => c.op = "adopt" PROVE Basis(c) = Decoded(policy[b], Legible)
  BY <1>0, <1>3 DEF Knowing, KnowsRead, KnowsUnread, Basis, adoptedPolicy
<1>4. ASSUME NEW p, Kept(d, c) PROVE Change(d, p) = Change(c, p)
  BY <1>4 DEF Kept, Same, Change
<1>5. ASSUME d.pc = "admin" PROVE d.read = Change(d, Decoded(policy[d.mine.bucket], Legible))
  <2>1. /\ c.pc = "unkey" /\ Kept(d, c) /\ (c.failed => c.op = "adopt")
        /\ d.read = Change(c, Basis(c))
    BY <1>1, <1>5 DEF Arrive
  <2>2. d.mine = c.mine
    BY <2>1 DEF Kept, Same
  <2> QED BY <1>3, <1>4, <2>1, <2>2
<1>6. ASSUME d.pc = "put" PROVE d.read = Change(d, Decoded(policy[d.mine.bucket], Legible))
  <2>1. c.pc = "admin" /\ Kept(d, c) /\ d.read = c.read
    BY <1>1, <1>6 DEF Arrive
  <2>2. d.mine = c.mine
    BY <2>1 DEF Kept, Same
  <2> QED BY <1>0, <1>4, <2>1, <2>2 DEF Knowing, KnowsChange
<1>7. ASSUME d.pc = "unadmin", ~d.failed
      PROVE  /\ d.op = "write" => d.mine.user \in policy'[d.mine.bucket].users
             /\ d.op = "delete" => d.mine.user \notin policy'[d.mine.bucket].users
  <2>1. c.pc = "put" /\ d.op = c.op /\ d.mine = c.mine /\ PutPolicy(h)
    BY <1>1, <1>7 DEF Arrive, Kept, Same
  <2>2. b \in Buckets /\ policy[b] \in Policies(Users, Statements)
    BY <1>0, <2>1 DEF Reading
  <2>3. policy'[b] = c.read /\ c.read = Change(c, Decoded(policy[b], Legible))
    BY <1>0, <2>1, <2>2 DEF PutPolicy, TypeOK, Knowing, KnowsChange
  <2>4. /\ c.op = "write" => policy'[b].users = policy[b].users \cup {c.mine.user}
        /\ c.op = "delete" => policy'[b].users = policy[b].users \ {c.mine.user}
    BY <2>2, <2>3, ChangedUsers
  <2> QED BY <2>1, <2>4
<1>8. ASSUME d.pc \in {"store", "remove", "forget"}, d.mine.bucket # NoBucket
      PROVE  /\ d.op = "write" => d.mine.user \in policy'[d.mine.bucket].users
             /\ d.op = "delete" => d.mine.user \notin policy'[d.mine.bucket].users
  <2>0. /\ d.op = c.op /\ d.mine = c.mine
        /\ \/ c.pc = "unadmin" /\ ~c.failed
           \/ c.pc = "unkey" /\ ~c.failed /\ Change(c, Basis(c)) = Basis(c)
           \/ c.pc = "remove"
    BY <1>1, <1>8 DEF Arrive, Same
  <2>1. UNCHANGED policy
    BY <2>0, PolicySteps DEF PutPolicy
  <2>2. CASE Done(c)
    BY <1>0, <2>0, <2>1, <2>2 DEF Knowing, KnowsDone
  <2>3. CASE c.pc = "unkey" /\ ~c.failed /\ Change(c, Basis(c)) = Basis(c)
    <3>1. policy[b] \in Policies(Users, Statements) /\ Basis(c) = Decoded(policy[b], Legible)
      BY <1>0, <1>3, <2>3 DEF Reading
    <3>2. Basis(c).users = policy[b].users
      BY <3>1 DEF Decoded, Policies
    <3>3. /\ c.op = "write" => Basis(c).users = policy[b].users \cup {c.mine.user}
          /\ c.op = "delete" => Basis(c).users = policy[b].users \ {c.mine.user}
      BY <2>3, <3>1, ChangedUsers
    <3> QED BY <2>0, <2>1, <3>2, <3>3
  <2> QED BY <1>8, <2>0, <2>2, <2>3 DEF Done
<1> QED BY <1>2, <1>5, <1>6, <1>7, <1>8 DEF Done

(* A request that waits keeps what it knows, unless it falls behind.       *)
LEMMA OtherKnows ==
  ASSUME TypeOK, CallsOK, NEW g \in Handlers, g \notin behind, Knowing(call[g]), call'[g] = call[g], ~Overtaken(g)
  PROVE  Knowing(call[g])'
<1> DEFINE c == call[g]
           b == c.mine.bucket
<1>1. c.pc \in {"unkey", "admin", "put", "unadmin", "store", "remove", "forget"} /\ b \in Buckets
        => policy'[b] = policy[b]
  BY DEF Overtaken
<1>2. CallOK(c) /\ c \in Calls /\ b \in Buckets \cup {NoBucket}
  BY DEF CallsOK, CallOK, Calls, RoleRecords
<1>3. c.pc \in {"unkey", "admin", "put"} \/ Done(c) => policy'[b] = policy[b]
  BY <1>1, <1>2 DEF CallOK, Reading, Done
<1>4. KnowsRead(c)' /\ KnowsUnread(c)'
  BY <1>3 DEF Knowing, KnowsRead, KnowsUnread
<1>5. KnowsChange(c)'
  BY <1>3 DEF Knowing, KnowsChange
<1>6. KnowsDone(c)'
  BY <1>3 DEF Knowing, KnowsDone, Done
<1> QED BY <1>4, <1>5, <1>6 DEF Knowing

LEMMA IdleKnows == Knowing(Idle) /\ Knowing(Idle)'
BY DEF Idle, Knowing, KnowsRead, KnowsUnread, KnowsChange, KnowsDone, Done

LEMMA KnowsInit == Init => Knows
<1> SUFFICES ASSUME Init PROVE Knows
  OBVIOUS
<1>1. \A h \in Handlers : call[h] = Idle
  BY DEF Init
<1> QED BY <1>1, IdleKnows DEF Knows

LEMMA KnowsStep ==
  ASSUME OneReader, Based, [Next]_vars
  PROVE  Knows'
<1>0. TypeOK /\ RolesOK /\ CallsOK
  BY DEF Based
<1>1. ASSUME NEW h \in Handlers, Step(h), FallBehind, \A r \in Roles : ~ForgetUnconfigured(h, r) PROVE Knows'
  <2>1. PICK d : /\ CallOK(d) /\ Arrive(h, d)
                 /\ \A g \in Handlers : call'[g] = IF g = h THEN d ELSE call[g]
    BY <1>0, <1>1, Lands
  <2>2. ASSUME NEW g \in Handlers, g \notin behind' PROVE Knowing(call[g])'
    <3>1. CASE call'[g].pc = "idle"
      <4>1. CallsOK'
        BY <1>0, <1>1, StepSorted DEF Sorted
      <4>2. call'[g] = Idle
        BY <3>1, <4>1 DEF CallsOK, CallOK
      <4> QED BY <4>2, IdleKnows
    <3>2. CASE call'[g].pc # "idle"
      <4>1. g \notin behind /\ ~Overtaken(g) /\ ~Misread(g)
        BY <1>1, <2>2, <3>2 DEF FallBehind, Working
      <4>2. CASE g # h
        <5>1. call'[g] = call[g]
          BY <2>1, <4>2
        <5> QED BY <1>0, <4>1, <5>1, OtherKnows DEF Based, Knows
      <4>3. CASE g = h
        <5>1. call'[g] = d
          BY <2>1, <4>3
        <5>2. d.pc \in {"unkey", "admin", "put"} => UNCHANGED policy
          <6>1. PutPolicy(h) => call'[h].pc = "unadmin"
            BY <1>0 DEF PutPolicy, Go, TypeOK, Calls
          <6> QED BY <1>1, <4>3, <5>1, <6>1, PolicySteps
        <5>3. /\ d.pc = "unkey" => (IF d.failed THEN d.op = "adopt" => policy[d.mine.bucket] = Initially[d.mine.bucket]
                                    ELSE d.read = policy[d.mine.bucket])
              /\ d.pc \in {"admin", "put"} => d.read = Change(d, Decoded(policy[d.mine.bucket], Legible))
              /\ Done(d) => /\ d.op = "write" => d.mine.user \in policy'[d.mine.bucket].users
                            /\ d.op = "delete" => d.mine.user \notin policy'[d.mine.bucket].users
          BY <1>1, <2>1, <4>1, <4>3, StepKnows
        <5>4. KnowsRead(d)' /\ KnowsUnread(d)'
          BY <5>1, <5>2, <5>3 DEF KnowsRead, KnowsUnread
        <5>5. KnowsChange(d)' /\ KnowsDone(d)'
          BY <5>1, <5>2, <5>3 DEF KnowsChange, KnowsDone, Done
        <5> QED BY <5>1, <5>4, <5>5 DEF Knowing, KnowsRead, KnowsUnread, KnowsChange, KnowsDone, Done
      <4> QED BY <4>2, <4>3
    <3> QED BY <3>1, <3>2
  <2> QED BY <2>2 DEF Knows
<1>2. ASSUME NEW h \in Handlers, NEW r \in Roles, ForgetUnconfigured(h, r), FallBehind PROVE Knows'
  <2>1. UNCHANGED <<policy, call>>
    BY <1>2 DEF ForgetUnconfigured
  <2>2. ASSUME NEW g \in Handlers, g \notin behind' PROVE g \notin behind \/ call[g].pc = "idle"
    BY <1>2, <2>1, <2>2 DEF FallBehind, Working
  <2>3. ASSUME NEW g \in Handlers, call[g].pc = "idle" PROVE Knowing(call[g])
    BY <1>0, <2>3, IdleKnows DEF CallsOK, CallOK
  <2>4. ASSUME NEW g \in Handlers, Knowing(call[g]) PROVE Knowing(call[g])'
    BY <2>1, <2>4 DEF Knowing, KnowsRead, KnowsUnread, KnowsChange, KnowsDone, Done
  <2> QED BY <2>2, <2>3, <2>4 DEF Knows, Based
<1>3. CASE Crash
  <2>1. \A g \in Handlers : call'[g] = Idle
    BY <1>3 DEF Crash
  <2> QED BY <2>1, IdleKnows DEF Knows
<1>4. CASE UNCHANGED vars
  BY <1>4 DEF vars, Based, Knows, Knowing, KnowsRead, KnowsUnread, KnowsChange, KnowsDone, Done
<1> QED BY <1>1, <1>2, <1>3, <1>4 DEF Next

LEMMA BasedInit == Init => Based
BY TypeInit, GuardedInit, KnowsInit DEF Based

LEMMA BasedStep == ASSUME OneReader, Based, [Next]_vars PROVE Based'
BY TypeStep, GuardedStep, KnowsStep DEF Based

(* Requests that work on one bucket at a time know the policy they change  *)
(* unless they have fallen behind.                                         *)
LEMMA AlwaysBased == ASSUME OneReader PROVE Spec => []Based
<1>1. Init => Based
  BY BasedInit
<1>2. Based /\ [Next]_vars => Based'
  BY BasedStep
<1> QED BY <1>1, <1>2, PTL DEF Spec

-----------------------------------------------------------------------------
(***************************************************************************)
(* Policies.                                                               *)
(***************************************************************************)
LEMMA PutChanges ==
  ASSUME Based, NEW h \in Handlers, PutPolicy(h), NEW b \in Buckets, policy'[b] # policy[b]
  PROVE  /\ call[h].mine.bucket = b
         /\ h \in behind \/ policy'[b] = Change(call[h], Decoded(policy[b], Legible))
<1>1. policy' = [policy EXCEPT ![call[h].mine.bucket] = call[h].read] /\ call[h].pc = "put"
  BY DEF PutPolicy
<1>2. call[h].mine.bucket = b /\ policy'[b] = call[h].read
  BY <1>1 DEF Based, TypeOK
<1>3. h \in behind \/ call[h].read = Change(call[h], Decoded(policy[b], Legible))
  BY <1>1, <1>2 DEF Based, Knows, Knowing, KnowsChange
<1> QED BY <1>2, <1>3

(* Whatever requests overlap, fail, are lost or end with the process: a    *)
(* policy is written as it is, as decoding leaves it, but for the one      *)
(* change asked for, save by a request that has fallen behind. For an      *)
(* adoption that could not read this rests on the engine's reader: what    *)
(* Selectel does not show it nobody has changed.                           *)
THEOREM PoliciesChangeAsAsked == ASSUME OneReader PROVE Spec => PolicyChangesAsAsked
<1> DEFINE A == \A b \in Buckets : policy'[b] # policy[b] =>
                  \E h \in Handlers :
                    /\ PutPolicy(h) /\ call[h].mine.bucket = b
                    /\ h \in behind \/ policy'[b] = Change(call[h], Decoded(policy[b], Legible))
<1>1. ASSUME Based, Next PROVE A
  <2> SUFFICES ASSUME NEW b \in Buckets, policy'[b] # policy[b]
               PROVE  \E h \in Handlers :
                        /\ PutPolicy(h) /\ call[h].mine.bucket = b
                        /\ h \in behind \/ policy'[b] = Change(call[h], Decoded(policy[b], Legible))
    OBVIOUS
  <2>1. PICK h \in Handlers : PutPolicy(h)
    BY <1>1, PolicySteps DEF Next, Crash
  <2> QED BY <1>1, <2>1, PutChanges
<1>2. Based /\ [Next]_vars => [A]_vars
  BY <1>1
<1> QED BY <1>2, AlwaysBased, PTL DEF Spec, PolicyChangesAsAsked

-----------------------------------------------------------------------------
(***************************************************************************)
(* Roles.                                                                  *)
(***************************************************************************)
LEMMA GrantsGo ==
  ASSUME Based, NEW h \in Handlers, PutPolicy(h), NEW b \in Buckets, NEW u \in policy[b].users, u \notin policy'[b].users
  PROVE  h \in behind \/ (call[h].op = "delete" /\ call[h].mine.user = u)
<1>1. policy[b] \in Policies(Users, Statements)
  BY DEF Based, TypeOK
<1>2. h \in behind \/ policy'[b] = Change(call[h], Decoded(policy[b], Legible))
  BY PutChanges
<1> QED BY <1>1, <1>2, ChangedUsers

LEMMA GrantsCome ==
  ASSUME Based, NEW h \in Handlers, PutPolicy(h), NEW b \in Buckets, NEW u \in policy'[b].users, u \notin policy[b].users
  PROVE  h \in behind \/ (call[h].op = "write" /\ call[h].mine.user = u /\ call[h].mine.bucket = b)
<1>1. policy[b] \in Policies(Users, Statements)
  BY DEF Based, TypeOK
<1>2. /\ call[h].mine.bucket = b
      /\ h \in behind \/ policy'[b] = Change(call[h], Decoded(policy[b], Legible))
  BY PutChanges
<1> QED BY <1>1, <1>2, ChangedUsers

(* Why a role comes to be unserved.                                        *)
Cause(r, h) ==
  \/ /\ call[h].op = "delete" /\ call[h].mine.user = role[r].user
     /\ PutPolicy(h) \/ RemoveUser(h)
  \/ h \in behind /\ PutPolicy(h)
  \/ /\ Store(h) /\ call[h].role = r
     /\ h \in behind \/ call[h].mine.user \notin users

LEMMA ServedStep ==
  ASSUME Based, Next, NEW r \in Roles, r \in Unserved', r \notin Unserved
  PROVE  \E h \in Handlers : Cause(r, h)
<1>0. TypeOK /\ RolesOK /\ CallsOK /\ Bystanders
  BY DEF Based, Guarded
<1>1. PICK h \in Handlers : Step(h)
  BY DEF Next, Crash, Unserved, Stored, Granted
<1>2. CallOK(call[h]) /\ call[h] \in Calls
  BY <1>0 DEF CallsOK, CallOK
<1>3. role'[r] # NoRole /\ ~(role'[r].user \in users' /\ Granted(role[r])')
  BY DEF Unserved, Stored
<1>4. CASE role'[r] = role[r]
  <2>1. role[r].user \in users /\ Granted(role[r]) /\ Stored(r)
    BY <1>3, <1>4 DEF Unserved, Stored
  <2>2. role[r].user[1] # AdminName
    BY <1>0, <2>1, AbsentAssumption DEF Bystanders, Bystander, TypeOK
  <2>3. CASE role[r].user \notin users'
    <3>1. ~DeleteAdmin(h)
      <4> SUFFICES ASSUME DeleteAdmin(h) PROVE FALSE
        OBVIOUS
      <4>1. call[h].admin[1] = AdminName
        BY <1>2 DEF DeleteAdmin, CallOK
      <4> QED BY <2>1, <2>2, <2>3, <4>1 DEF DeleteAdmin
    <3>2. RemoveUser(h)
      BY <1>1, <2>1, <2>3, <3>1, UserSteps DEF CreateUser, CreateReader, ReaderLost, CreateAdmin, AdminLost
    <3>3. call[h].op = "delete" /\ call[h].mine.user = role[r].user
      BY <1>2, <2>1, <2>3, <3>2 DEF RemoveUser, CallOK
    <3> QED BY <3>2, <3>3 DEF Cause
  <2>4. CASE ~Granted(role[r])'
    <3> DEFINE b == role[r].bucket
    <3>1. b # NoBucket /\ role[r].user \in policy[b].users /\ role[r].user \notin policy'[b].users
      BY <1>4, <2>1, <2>4 DEF Granted
    <3>2. b \in Buckets
      BY <1>0, <3>1 DEF TypeOK, RoleRecords
    <3>3. PutPolicy(h)
      BY <1>1, <3>1, PolicySteps
    <3> QED BY <3>1, <3>2, <3>3, GrantsGo DEF Cause
  <2> QED BY <1>3, <1>4, <2>3, <2>4
<1>5. CASE role'[r] # role[r]
  <2>1. Store(h) /\ call[h].role = r /\ role'[r] = call[h].mine /\ UNCHANGED <<users, policy>>
    <3>1. CASE Store(h)
      BY <1>0, <1>5, <3>1 DEF Store, TypeOK
    <3>2. CASE Forget(h)
      BY <1>0, <1>3, <1>5, <3>2 DEF Forget, TypeOK
    <3>3. ASSUME NEW q \in Roles, ForgetUnconfigured(h, q) PROVE FALSE
      BY <1>0, <1>3, <1>5, <3>3 DEF ForgetUnconfigured, TypeOK
    <3> QED BY <1>1, <1>5, <3>1, <3>2, <3>3, RoleSteps
  <2>2. CASE h \in behind \/ call[h].mine.user \notin users
    BY <2>1, <2>2 DEF Cause
  <2>3. CASE h \notin behind /\ call[h].mine.user \in users
    <3>1. call[h].mine.bucket # NoBucket /\ call[h].mine.user \notin policy[call[h].mine.bucket].users
      BY <1>3, <2>1, <2>3 DEF Granted
    <3>2. Done(call[h]) /\ call[h].op = "write"
      BY <1>2, <2>1, <3>1 DEF Store, Done, CallOK
    <3> QED BY <2>3, <3>1, <3>2 DEF Based, Knows, Knowing, KnowsDone
  <2> QED BY <2>2, <2>3
<1> QED BY <1>4, <1>5

(* A stored role keeps its user and its grant beside any number of         *)
(* requests, whichever of their calls fail: it loses them to a deletion of *)
(* a role with that very user, or to a write of a policy that is not the   *)
(* one there is, and is stored without them only by a request that has     *)
(* fallen behind or whose user is gone.                                    *)
THEOREM RolesStayServed == ASSUME OneReader PROVE Spec => RolesServed
<1> DEFINE A == \A r \in Unserved' \ Unserved : \E h \in Handlers :
                  \/ /\ call[h].op = "delete" /\ call[h].mine.user = role[r].user
                     /\ PutPolicy(h) \/ RemoveUser(h)
                  \/ h \in behind /\ PutPolicy(h)
                  \/ /\ Store(h) /\ call[h].role = r
                     /\ h \in behind \/ call[h].mine.user \notin users
<1>1. ASSUME Based, Next PROVE A
  <2> SUFFICES ASSUME NEW r \in Unserved', r \notin Unserved
               PROVE  \E h \in Handlers : Cause(r, h)
    BY DEF Cause
  <2>1. r \in Roles
    BY DEF Unserved
  <2> QED BY <1>1, <2>1, ServedStep
<1>2. Based /\ [Next]_vars => [A]_vars
  BY <1>1
<1> QED BY <1>2, AlwaysBased, PTL DEF Spec, RolesServed

-----------------------------------------------------------------------------
(***************************************************************************)
(* Grants.                                                                 *)
(***************************************************************************)
(* Why a grant comes to stand without a role.                              *)
Loosening(h) ==
  \/ call[h].op = "write" /\ ~Working(h)' /\ UNCHANGED role
  \/ /\ call[h].op = "delete" /\ ~Working(h)'
     /\ h \in behind \/ role[call[h].role] # call[h].mine
  \/ Store(h) /\ Place(role[call[h].role]) # Place(call[h].mine)
  \/ h \in behind /\ PutPolicy(h)
  \/ \E r \in Roles : ForgetUnconfigured(h, r)

(* A grant of a request's own is one of a write or a deletion; one that a  *)
(* deletion still finds stored with its role is that role's, too.          *)
LEMMA OwnPlace ==
  ASSUME TypeOK, CallsOK, NEW h \in Handlers, NEW b \in Buckets, NEW u \in Users, Place(call[h].mine) = <<b, u>>
  PROVE  /\ call[h].mine.bucket = b /\ call[h].mine.user = u
         /\ call[h].op \in {"write", "delete"} /\ call[h].role \in Roles
         /\ call[h].op = "write" => call[h].pc \notin {"find", "create"}
         /\ call[h].pc # "idle"
<1>1. call[h].mine.bucket = b /\ call[h].mine.user = u
  BY DEF Place
<1>2. CallOK(call[h]) /\ u # NoUser
  BY AbsentAssumption DEF CallsOK
<1> QED BY <1>1, <1>2 DEF CallOK

LEMMA LooseByEnd ==
  ASSUME TypeOK, CallsOK, Crash, NEW b \in Buckets, NEW u \in Users,
         <<b, u>> \in Loose', <<b, u>> \notin Loose
  PROVE  \E h \in Handlers : Loosening(h)
<1>1. UNCHANGED <<role, policy>> /\ \A h \in Handlers : call'[h] = Idle
  BY DEF Crash
<1>2. <<b, u>> \in Grants /\ \A r \in Roles : Place(role[r]) # <<b, u>>
  BY <1>1 DEF Loose, Grants
<1>3. PICK h \in Handlers : Place(call[h].mine) = <<b, u>>
  BY <1>2 DEF Loose
<1>4. ~Working(h)'
  BY <1>1, BlankFields DEF Working
<1>5. call[h].op \in {"write", "delete"} /\ role[call[h].role] # call[h].mine
  BY <1>2, <1>3, OwnPlace
<1> QED BY <1>1, <1>4, <1>5 DEF Loosening

LEMMA LooseByStep ==
  ASSUME Based, NEW h \in Handlers, Step(h), NEW b \in Buckets, NEW u \in Users,
         <<b, u>> \in Loose', <<b, u>> \notin Loose
  PROVE  Loosening(h)
<1> DEFINE c == call[h]
<1>0. TypeOK /\ RolesOK /\ CallsOK /\ CallOK(c)
  BY DEF Based, CallsOK
<1>1. u \in policy'[b].users
  BY DEF Loose, Grants
<1>2. /\ \A r \in Roles : Place(role'[r]) # <<b, u>>
      /\ \A g \in Handlers : Place(call'[g].mine) # <<b, u>>
  BY DEF Loose, Place
<1> SUFFICES ASSUME \A r \in Roles : ~ForgetUnconfigured(h, r) PROVE Loosening(h)
  BY DEF Loosening
<1>3. PICK d : Origin(h, d) /\ \A g \in Handlers : call'[g] = IF g = h THEN d ELSE call[g]
  BY <1>0, Lands
<1>4. CASE u \notin policy[b].users
  <2>1. PutPolicy(h)
    BY <1>1, <1>4, PolicySteps
  <2>2. CASE h \in behind
    BY <2>1, <2>2 DEF Loosening
  <2>3. CASE c.mine.user = u /\ c.mine.bucket = b
    <3>1. call'[h].mine = c.mine
      BY <1>0, <2>1 DEF PutPolicy, Go, TypeOK, Calls
    <3>2. Place(call'[h].mine) = <<b, u>>
      BY <2>3, <3>1 DEF Place
    <3> QED BY <1>2, <3>2
  <2> QED BY <1>1, <1>4, <2>1, <2>2, <2>3, GrantsCome
<1>5. ASSUME NEW r \in Roles, Place(role[r]) = <<b, u>> PROVE Loosening(h)
  <2>1. role'[r] # role[r]
    BY <1>2, <1>5
  <2>2. CASE Store(h)
    <3>1. c.role = r /\ role'[r] = c.mine
      BY <1>0, <2>1, <2>2 DEF Store, TypeOK
    <3>2. Place(c.mine) # <<b, u>>
      BY <1>2, <3>1
    <3> QED BY <1>5, <2>2, <3>1, <3>2 DEF Loosening
  <2>3. CASE Forget(h)
    <3>1. c.role = r /\ c.op = "delete" /\ UNCHANGED policy
      BY <1>0, <2>1, <2>3 DEF Forget, TypeOK, CallOK
    <3>2. ~Working(h)'
      BY <1>0, <2>3, BlankFields DEF Forget, Finish, Go, TypeOK, Working
    <3>3. CASE h \in behind \/ role[r] # c.mine
      BY <3>1, <3>2, <3>3 DEF Loosening
    <3>4. CASE h \notin behind /\ role[r] = c.mine
      <4>1. c.mine.bucket = b /\ c.mine.user = u /\ b # NoBucket
        BY <1>5, <3>4, AbsentAssumption DEF Place
      <4>2. u \notin policy[b].users
        BY <2>3, <3>1, <3>4, <4>1 DEF Forget, Based, Knows, Knowing, KnowsDone, Done
      <4> QED BY <1>1, <3>1, <4>2
    <3> QED BY <3>3, <3>4
  <2> QED BY <2>1, <2>2, <2>3, RoleSteps
<1>6. ASSUME NEW g \in Handlers, Place(call[g].mine) = <<b, u>>, \A r \in Roles : Place(role[r]) # <<b, u>>
      PROVE  Loosening(h)
  <2>1. g = h
    BY <1>2, <1>3, <1>6
  <2>2. /\ c.op \in {"write", "delete"} /\ c.role \in Roles /\ c.pc # "idle"
        /\ c.op = "write" => c.pc \notin {"find", "create"}
    BY <1>0, <1>6, <2>1, OwnPlace
  <2>3. d = Idle
    <3>1. ~Same(d, c)
      BY <1>2, <1>3, <1>6, <2>1 DEF Same
    <3>2. c.pc \notin {"find", "create"}
      BY <1>0, <2>2 DEF CallOK
    <3> QED BY <1>3, <2>2, <3>1, <3>2 DEF Origin, WriteBegin, DeleteBegin, MayBegin, Working
  <2>4. ~Working(h)'
    BY <1>3, <2>3, BlankFields DEF Working
  <2>5. CASE c.op = "write"
    <3>1. ~Store(h)
      BY <1>0, <1>2, <1>6, <2>1, <2>2 DEF Store, TypeOK
    <3>2. UNCHANGED role
      BY <1>0, <2>5, <3>1, RoleSteps DEF CallOK
    <3> QED BY <2>4, <2>5, <3>2 DEF Loosening
  <2>6. CASE c.op = "delete"
    <3>1. role[c.role] # c.mine
      BY <1>6, <2>1, <2>2
    <3> QED BY <2>4, <2>6, <3>1 DEF Loosening
  <2> QED BY <2>2, <2>5, <2>6
<1>7. CASE u \in policy[b].users
  <2>1. <<b, u>> \in Grants
    BY <1>7 DEF Grants
  <2> QED BY <1>5, <1>6, <2>1 DEF Loose
<1> QED BY <1>4, <1>7

(* However many requests overlap: a grant no role stands for, so that no   *)
(* deletion takes it back, comes of one of these causes and no other. Two  *)
(* of them are no failure: a role that moves, and a ttl refused at the end.*)
THEOREM LooseGrantsComeOfCauses == ASSUME OneReader PROVE Spec => LooseGrantsHaveCause
<1> DEFINE A == \/ Loose' \subseteq Loose
                \/ \E h \in Handlers :
                     \/ call[h].op = "write" /\ ~Working(h)' /\ UNCHANGED role
                     \/ /\ call[h].op = "delete" /\ ~Working(h)'
                        /\ h \in behind \/ role[call[h].role] # call[h].mine
                     \/ Store(h) /\ Place(role[call[h].role]) # Place(call[h].mine)
                     \/ h \in behind /\ PutPolicy(h)
                     \/ \E r \in Roles : ForgetUnconfigured(h, r)
<1>1. ASSUME Based, Next PROVE A
  <2> SUFFICES ASSUME NEW x \in Loose', x \notin Loose
               PROVE  \E h \in Handlers : Loosening(h)
    BY DEF Loosening
  <2>1. TypeOK /\ TypeOK' /\ CallsOK
    BY <1>1, TypeStep DEF Based
  <2>2. PICK b \in Buckets : \E u \in policy'[b].users : x = <<b, u>>
    BY DEF Loose, Grants
  <2>3. PICK u \in Users : x = <<b, u>>
    BY <2>1, <2>2 DEF TypeOK, Policies
  <2> QED BY <1>1, <2>1, <2>3, LooseByEnd, LooseByStep DEF Next
<1>2. Based /\ [Next]_vars => [A]_vars
  <2>1. ASSUME UNCHANGED vars PROVE Loose' \subseteq Loose
    BY <2>1 DEF vars, Loose, Grants, Place
  <2> QED BY <1>1, <2>1
<1> QED BY <1>2, AlwaysBased, PTL DEF Spec, LooseGrantsHaveCause

=============================================================================
