-------------------------- MODULE LeasedKeysProofs --------------------------
(***************************************************************************)
(* Theorems about LeasedKeys, for any keys, users, accounts, roles and any *)
(* number of requests at one time.                                         *)
(***************************************************************************)
EXTENDS LeasedKeys, TLAPS

-----------------------------------------------------------------------------
(***************************************************************************)
(* What the proofs rest on.                                                *)
(***************************************************************************)

Sweeping(h, k) == call[h].pc \in {"filter", "delete"} /\ k \in call[h].keys

(* A key on its way to Vault is the engine's own, the one key of one request *)
(* only, and is no older than the latency allows.                          *)
MintedKeyKnown(h, k) == Minting(h, k) =>
  /\ call[h].keys = {k}
  /\ cred[k].state # "none" /\ lease[k].state = "none"
  /\ cred[k].state = "live" => /\ cred[k].user = call[h].role.user
                               /\ cred[k].made = "engine"
                               /\ cred[k].age <= Latency
  /\ \A g \in Handlers : Minting(g, k) => g = h

(* A request knows the role it read, and a sweep the age it was given.     *)
CallKnown(h) ==
  /\ call[h].pc # "idle" => call[h].role \in Accepted
  /\ call[h].pc \in {"list", "filter", "delete"} =>
       call[h].cut > 0 /\ \E a \in Ages : call[h].cut = SweepAge(a, call[h].role)

(* What a sweep is about to delete is a lease's key, of the role's user,   *)
(* and at least as old as the sweep asked for.                             *)
SweptKeyKnown(h, k) == Sweeping(h, k) =>
  /\ cred[k].state # "none"
  /\ cred[k].state = "live" => /\ cred[k].user = call[h].role.user
                               /\ call[h].pc = "delete" => Stale(h, k)

(* A lease knows the user of its key, and what is left of it, on top of    *)
(* the age of the key, is what some role of that user allows.              *)
LeaseKnown(k) ==
  /\ lease[k].state # "none" => cred[k].state # "none"
  /\ cred[k].state = "live" => cred[k].user \in Users
  /\ Open(k) /\ cred[k].state = "live" =>
       lease[k].user = cred[k].user /\ cred[k].made = "engine"
  /\ InForce(k) => lease[k].left <= lease[k].cap
  /\ InForce(k) /\ cred[k].state = "live" => \E s \in Accepted :
       /\ s.user = cred[k].user
       /\ cred[k].age + lease[k].cap <= LeaseCap(s) + Latency

(* The inductive invariant: whatever sweeps an operator asks for.          *)
Custody ==
  /\ TypeOK
  /\ \A h \in Handlers : CallKnown(h)
  /\ \A h \in Handlers, k \in Keys : MintedKeyKnown(h, k) /\ SweptKeyKnown(h, k)
  /\ \A k \in Keys : LeaseKnown(k)

(* The sweeps that are safe: those that spare, on top of the latency, the  *)
(* longest lease any role of the same service user may give.               *)
SafeSweeps ==
  \A s, t \in Accepted, a \in Ages :
    s.user = t.user /\ SweepAge(a, s) > 0 => SweepAge(a, s) >= LeaseCap(t) + Latency

(* When the configuration moves cleanly, what is open is in the account    *)
(* configured, if one is.                                                  *)
Home ==
  /\ account # NoAccount => OpenOnlyIn(account)
  /\ \A h \in Handlers : call[h].pc # "idle" => call[h].via \in Accounts
  /\ \A h \in Handlers : call[h].pc = "register" => Reaches(call[h].via, call[h].role.user)

-----------------------------------------------------------------------------
(* What Vault makes of a role's ttl and max_ttl stays within the mount's.  *)
LEMMA LeaseTerms ==
  ASSUME NEW s \in Accepted
  PROVE  /\ LeaseCap(s) \in 1 .. MountMax
         /\ \A a \in Ages : SweepAge(a, s) \in Nat
         /\ s.user \in Users /\ s.ttl \in Nat
BY ConstantsAssumption DEF Accepted, LeaseCap, Least, SweepAge

LEMMA LeaseTTLBounds ==
  ASSUME NEW ttl \in Nat, NEW cap \in 0 .. MountMax
  PROVE  LeaseTTL(ttl, cap) \in 0 .. cap
BY ConstantsAssumption DEF LeaseTTL, Least

LEMMA ForeignNames ==
  ASSUME NEW name \in Foreign
  PROVE  name[1] \in {"lease", "static", "foreign"} /\ name[2] \in 0 .. AgeCap
<1>1. CASE name \in {"lease"} \X (0 .. AgeCap)
  BY <1>1
<1>2. CASE name \in {"static", "foreign"} \X {0}
  BY <1>2, ConstantsAssumption
<1> QED BY <1>1, <1>2, ConstantsAssumption

LEMMA IdleTyped == Idle \in Calls /\ Idle.pc = "idle"
BY DEF Idle, Calls

(* A call to delete a key leaves a credential for each.                    *)
LEMMA AfterDeleteTyped ==
  ASSUME NEW k \in Keys, NEW via, NEW user, cred \in [Keys -> Credentials]
  PROVE  AfterDelete(k, via, user) \in [Keys -> Credentials]
<1>1. Gone \in Credentials
  BY ConstantsAssumption DEF Gone, NoCred, Credentials
<1> QED BY <1>1 DEF AfterDelete

(* The fields a handler's steps change keep their types.                   *)
LEMMA CallMoves ==
  ASSUME NEW c \in Calls, NEW pc \in {"register", "filter", "delete"}, NEW ks \in SUBSET Keys
  PROVE  [c EXCEPT !.pc = pc, !.keys = ks] \in Calls
BY DEF Calls

(* One tick of the clock, for a key and for a lease that is in force.      *)
LEMMA KeyAges ==
  ASSUME NEW c \in Credentials
  PROVE  [c EXCEPT !.age = Least(@ + 1, AgeCap)] \in Credentials
BY ConstantsAssumption DEF Credentials, Least

LEMMA LeaseRuns ==
  ASSUME NEW l \in Leases, l.left > 0, l.left <= l.cap
  PROVE  [l EXCEPT !.left = @ - 1, !.cap = @ - 1] \in Leases
<1>1. l.left - 1 \in 0 .. MountMax /\ l.cap - 1 \in 0 .. MountMax
  BY ConstantsAssumption DEF Leases
<1>2. ASSUME NEW m \in 0 .. MountMax, NEW n \in 0 .. MountMax
      PROVE  [l EXCEPT !.left = m, !.cap = n] \in Leases
  BY DEF Leases
<1> QED BY <1>1, <1>2

LEMMA CustodyInit == Init => Custody
BY ConstantsAssumption DEF Init, Custody, TypeOK, MintedKeyKnown, CallKnown,
  SweptKeyKnown, LeaseKnown,
  Minting, Sweeping, InForce, Idle, NoCred, NoLease, Calls, Credentials, Leases, MintedAt

-----------------------------------------------------------------------------
(***************************************************************************)
(* Every variable keeps its type.  Only the clock needs more of the        *)
(* invariant than the types: what is left of a lease never exceeds its cap.*)
(***************************************************************************)
LEMMA TypeStep == Custody /\ [Next]_vars => TypeOK'
<1> SUFFICES ASSUME Custody, [Next]_vars PROVE TypeOK'
  OBVIOUS
<1> USE DEF Custody, TypeOK
<1>1. CASE Administer
  <2>1. ASSUME NEW a \in Accounts, ConfigWrite(a) PROVE TypeOK'
    BY <2>1 DEF ConfigWrite
  <2>2. CASE ConfigDelete
    BY <2>2 DEF ConfigDelete
  <2>3. ASSUME NEW r \in Roles, NEW s \in RoleSettings, RolesWrite(r, s) PROVE TypeOK'
    BY <2>3 DEF RolesWrite
  <2>4. ASSUME NEW r \in Roles, RolesDelete(r) PROVE TypeOK'
    BY <2>4 DEF RolesDelete
  <2>5. ASSUME NEW k \in Keys, NEW u \in Users, NEW name \in Foreign,
               OthersCreate(k, u, name)
        PROVE  TypeOK'
    <3>1. name[1] \in {"lease", "static", "foreign"} /\ name[2] \in 0 .. AgeCap
      BY <2>5, ForeignNames
    <3> QED BY <2>5, <3>1 DEF OthersCreate, Credentials
  <2> QED BY <1>1, <2>1, <2>2, <2>3, <2>4, <2>5 DEF Administer
<1>2. ASSUME NEW h \in Handlers, Issue(h) PROVE TypeOK'
  <2>1. ASSUME NEW r \in Roles, IssueBegin(h, r) PROVE TypeOK'
    BY <2>1 DEF IssueBegin, Calls, Idle, NameOf
  <2>2. ASSUME NEW k \in Keys, CreateCredential(h, k) PROVE cred' \in [Keys -> Credentials]
    BY <2>2, ConstantsAssumption DEF CreateCredential, Credentials, Calls, Reaches
  <2>3. ASSUME NEW k \in Keys, IssueCreate(h, k) PROVE TypeOK'
    BY <2>2, <2>3, CallMoves DEF IssueCreate, CreateCredential
  <2>4. ASSUME NEW k \in Keys, IssueCreateLost(h, k) PROVE TypeOK'
    BY <2>2, <2>4, IdleTyped DEF IssueCreateLost, CreateCredential
  <2>5. ASSUME NEW k \in Keys, IssueRegister(h, k) PROVE TypeOK'
    <3> DEFINE s == call[h].role
               cap == LeaseCap(s)
    <3>1. s \in Accepted
      BY <2>5 DEF IssueRegister, CallKnown
    <3>2. cap \in 0 .. MountMax /\ LeaseTTL(s.ttl, cap) \in 0 .. MountMax
      <4>1. cap \in 1 .. MountMax /\ s.ttl \in Nat
        BY <3>1, LeaseTerms
      <4> HIDE DEF s, cap
      <4> QED BY <4>1, LeaseTTLBounds, ConstantsAssumption
    <3> HIDE DEF s, cap
    <3>3. [state |-> "live", user |-> s.user, left |-> LeaseTTL(s.ttl, cap), cap |-> cap]
            \in Leases
      BY <3>1, <3>2, LeaseTerms DEF Leases
    <3>4. lease' = [lease EXCEPT ![k] = [state |-> "live", user |-> s.user,
                                         left |-> LeaseTTL(s.ttl, cap), cap |-> cap]]
      BY <2>5 DEF IssueRegister, s, cap
    <3>5. lease' \in [Keys -> Leases]
      BY <3>3, <3>4
    <3>6. call' \in [Handlers -> Calls] /\ UNCHANGED <<account, role, cred>>
      BY <2>5, IdleTyped DEF IssueRegister
    <3> QED BY <3>5, <3>6
  <2> QED BY <1>2, <2>1, <2>3, <2>4, <2>5 DEF Issue
<1>3. ASSUME NEW k \in Keys, LeaseStep(k) PROVE TypeOK'
  <2>1. ASSUME NEW increment \in 0 .. MountMax, Renew(k, increment) PROVE TypeOK'
    <3>0. lease[k].cap \in 0 .. MountMax
      BY DEF Leases
    <3>1. LeaseTTL(increment, lease[k].cap) \in 0 .. MountMax
      <4>1. increment \in Nat
        BY ConstantsAssumption
      <4>2. LeaseTTL(increment, lease[k].cap) \in 0 .. lease[k].cap
        BY <3>0, <4>1, LeaseTTLBounds
      <4> QED BY <3>0, <4>2, ConstantsAssumption
    <3> QED BY <2>1, <3>1 DEF Renew, Leases
  <2>2. CASE Expire(k)
    BY <2>2 DEF Expire, Leases
  <2>3. CASE RevokeRequested(k)
    BY <2>3 DEF RevokeRequested, Leases
  <2>4. AfterDelete(k, account, lease[k].user) \in [Keys -> Credentials]
    BY ConstantsAssumption DEF AfterDelete, Gone, NoCred, Credentials
  <2>5. CASE Revoke(k)
    BY <2>4, <2>5, ConstantsAssumption DEF Revoke, Leases, NoLease
  <2>6. CASE RevokeLost(k)
    BY <2>4, <2>6 DEF RevokeLost
  <2>7. CASE GiveUp(k)
    BY <2>7 DEF GiveUp, Leases
  <2> QED BY <1>3, <2>1, <2>2, <2>3, <2>5, <2>6, <2>7 DEF LeaseStep
<1>4. ASSUME NEW h \in Handlers, Sweep(h) PROVE TypeOK'
  <2>1. ASSUME NEW r \in Roles, NEW a \in Ages, SweepBegin(h, r, a) PROVE TypeOK'
    <3>1. SweepAge(a, role[r]) \in Nat
      BY <2>1, LeaseTerms DEF SweepBegin
    <3>2. role[r] \in Accepted /\ account \in Accounts
      BY <2>1 DEF SweepBegin
    <3>3. [Idle EXCEPT !.pc = "list", !.role = role[r],
                       !.via = account, !.cut = SweepAge(a, role[r])] \in Calls
      BY <3>1, <3>2, IdleTyped DEF Calls
    <3> QED BY <2>1, <3>3 DEF SweepBegin
  <2>2. CASE SweepList(h)
    BY <2>2, CallMoves DEF SweepList
  <2>3. CASE SweepFilter(h)
    <3>1. {k \in call[h].keys : Stale(h, k)} \in SUBSET Keys
      BY DEF Calls
    <3> QED BY <2>3, <3>1, CallMoves DEF SweepFilter
  <2>4. CASE SweepDone(h)
    BY <2>4, IdleTyped DEF SweepDone
  <2>5. ASSUME NEW k \in Keys
        PROVE  AfterDelete(k, call[h].via, call[h].role.user) \in [Keys -> Credentials]
    BY AfterDeleteTyped
  <2>6. ASSUME NEW k \in Keys, SweepDelete(h, k) PROVE TypeOK'
    <3>1. [call[h] EXCEPT !.keys = @ \ {k}] \in Calls
      BY DEF Calls
    <3>2. call' \in [Handlers -> Calls]
      BY <2>6, <3>1 DEF SweepDelete
    <3> QED BY <2>5, <2>6, <3>2 DEF SweepDelete
  <2>7. ASSUME NEW k \in Keys, SweepDeleteLost(h, k) PROVE TypeOK'
    BY <2>5, <2>7, IdleTyped DEF SweepDeleteLost
  <2> QED BY <1>4, <2>1, <2>2, <2>3, <2>4, <2>6, <2>7 DEF Sweep
<1>5. ASSUME NEW h \in Handlers, Abort(h) PROVE TypeOK'
  BY <1>5, IdleTyped DEF Abort
<1>6. CASE Tick
  <2>1. cred' \in [Keys -> Credentials]
    BY <1>6, KeyAges DEF Tick
  <2>2. ASSUME NEW k \in Keys, InForce(k)
        PROVE  [lease[k] EXCEPT !.left = @ - 1, !.cap = @ - 1] \in Leases
    <3>1. lease[k].left > 0 /\ lease[k].left <= lease[k].cap
      BY <2>2 DEF LeaseKnown, InForce
    <3> QED BY <3>1, LeaseRuns
  <2>3. lease' \in [Keys -> Leases]
    BY <1>6, <2>2 DEF Tick
  <2> QED BY <1>6, <2>1, <2>3 DEF Tick
<1>7. CASE UNCHANGED vars
  BY <1>7 DEF vars
<1> QED BY <1>1, <1>2, <1>3, <1>4, <1>5, <1>6, <1>7 DEF Next

-----------------------------------------------------------------------------
(***************************************************************************)
(* A request keeps the role it read, and a sweep the age it started with.  *)
(***************************************************************************)
LEMMA CallStep ==
  ASSUME Custody, [Next]_vars, NEW g \in Handlers PROVE CallKnown(g)'
<1> USE DEF Custody, TypeOK
<1>1. CallKnown(g)
  OBVIOUS
<1>2. CASE UNCHANGED call
  BY <1>1, <1>2 DEF CallKnown
<1>3. ASSUME NEW h \in Handlers, call' = [call EXCEPT ![h] = Idle] PROVE CallKnown(g)'
  BY <1>1, <1>3, IdleTyped DEF CallKnown
<1>4. ASSUME NEW h \in Handlers, Issue(h) PROVE CallKnown(g)'
  <2>1. ASSUME NEW r \in Roles, IssueBegin(h, r) PROVE CallKnown(g)'
    BY <1>1, <2>1 DEF IssueBegin, CallKnown, Idle
  <2>2. ASSUME NEW k \in Keys, IssueCreate(h, k) PROVE CallKnown(g)'
    BY <1>1, <2>2 DEF IssueCreate, CreateCredential, CallKnown, Calls
  <2> QED BY <1>3, <1>4, <2>1, <2>2 DEF Issue, IssueCreateLost, IssueRegister
<1>5. ASSUME NEW h \in Handlers, Sweep(h) PROVE CallKnown(g)'
  <2>1. ASSUME NEW r \in Roles, NEW a \in Ages, SweepBegin(h, r, a) PROVE CallKnown(g)'
    BY <1>1, <2>1 DEF SweepBegin, CallKnown, Idle
  <2>2. CASE SweepList(h)
    BY <1>1, <2>2 DEF SweepList, CallKnown, Calls
  <2>3. CASE SweepFilter(h)
    BY <1>1, <2>3 DEF SweepFilter, CallKnown, Calls
  <2>4. ASSUME NEW k \in Keys, SweepDelete(h, k) PROVE CallKnown(g)'
    BY <1>1, <2>4 DEF SweepDelete, CallKnown, Calls
  <2> QED BY <1>3, <1>5, <2>1, <2>2, <2>3, <2>4 DEF Sweep, SweepDone, SweepDeleteLost
<1> QED BY <1>2, <1>3, <1>4, <1>5 DEF Next, Administer, ConfigWrite, ConfigDelete, RolesWrite,
      RolesDelete, OthersCreate, LeaseStep, Renew, Expire, RevokeRequested, Revoke, RevokeLost, GiveUp,
      Abort, Tick, vars

-----------------------------------------------------------------------------
(***************************************************************************)
(* What a step may do to one key, one lease and one request, whoever takes *)
(* it.                                                                     *)
(***************************************************************************)
KeyKept(k) == cred'[k] = cred[k]

KeyMinted(k) ==
  /\ cred[k].state = "none" /\ cred'[k].state = "live"
  /\ cred'[k].user \in Users

KeyDeleted(k) == cred[k].state = "live" /\ cred'[k] = Gone

KeyAged(k) ==
  /\ Tick
  /\ cred[k].state = "live"
  /\ cred'[k] = [cred[k] EXCEPT !.age = Least(@ + 1, AgeCap)]

LEMMA Deletion ==
  ASSUME TypeOK, NEW j \in Keys, NEW k \in Keys, NEW via, NEW u, cred' = AfterDelete(j, via, u)
  PROVE  KeyKept(k) \/ KeyDeleted(k)
BY DEF AfterDelete, KeyKept, KeyDeleted, TypeOK

LEMMA KeyStep ==
  ASSUME Custody, [Next]_vars, NEW k \in Keys
  PROVE  KeyKept(k) \/ KeyMinted(k) \/ KeyDeleted(k) \/ KeyAged(k)
<1> DEFINE Moves == KeyKept(k) \/ KeyMinted(k) \/ KeyDeleted(k) \/ KeyAged(k)
<1>0. TypeOK /\ cred \in [Keys -> Credentials]
  BY DEF Custody, TypeOK
<1>1. ASSUME cred' = cred PROVE Moves
  BY <1>1 DEF KeyKept
<1>2. ASSUME NEW h \in Handlers, NEW j \in Keys, CreateCredential(h, j) PROVE Moves
  BY <1>0, <1>2, ConstantsAssumption DEF CreateCredential, KeyKept, KeyMinted, Reaches
<1>3. ASSUME NEW j \in Keys, NEW u \in Users, NEW name \in Foreign,
             OthersCreate(j, u, name)
      PROVE  Moves
  BY <1>0, <1>3 DEF OthersCreate, KeyKept, KeyMinted, MintedAt
<1>4. ASSUME NEW h \in Handlers, Issue(h) PROVE Moves
  BY <1>1, <1>2, <1>4 DEF Issue, IssueBegin, IssueCreate, IssueCreateLost, IssueRegister
<1>5. ASSUME NEW j \in Keys, LeaseStep(j) PROVE Moves
  BY <1>0, <1>1, <1>5, Deletion DEF LeaseStep, Renew, Expire, RevokeRequested, Revoke, RevokeLost, GiveUp
<1>6. ASSUME NEW h \in Handlers, Sweep(h) PROVE Moves
  BY <1>0, <1>1, <1>6, Deletion
     DEF Sweep, SweepBegin, SweepList, SweepFilter, SweepDone, SweepDelete, SweepDeleteLost
<1>7. CASE Tick
  BY <1>0, <1>7 DEF Tick, KeyKept, KeyAged
<1>8. CASE Administer
  BY <1>1, <1>3, <1>8 DEF Administer, ConfigWrite, ConfigDelete, RolesWrite, RolesDelete
<1> QED BY <1>1, <1>4, <1>5, <1>6, <1>7, <1>8 DEF Next, Abort, vars

LEMMA LeaseMoves ==
  ASSUME Custody, [Next]_vars, NEW k \in Keys
  PROVE  \/ lease'[k] = lease[k]
         \/ \E h \in Handlers : IssueRegister(h, k)
         \/ \E increment \in 0 .. MountMax : Renew(k, increment)
         \/ Expire(k) \/ RevokeRequested(k) \/ Revoke(k) \/ GiveUp(k)
         \/ Tick
<1> DEFINE Moves ==
         \/ lease'[k] = lease[k]
         \/ \E h \in Handlers : IssueRegister(h, k)
         \/ \E increment \in 0 .. MountMax : Renew(k, increment)
         \/ Expire(k) \/ RevokeRequested(k) \/ Revoke(k) \/ GiveUp(k)
         \/ Tick
<1>0. lease \in [Keys -> Leases]
  BY DEF Custody, TypeOK
<1>1. ASSUME lease' = lease PROVE Moves
  BY <1>1
<1>2. ASSUME NEW h \in Handlers, Issue(h) PROVE Moves
  <2>1. ASSUME NEW j \in Keys, IssueRegister(h, j) PROVE Moves
    BY <1>0, <2>1 DEF IssueRegister
  <2> QED BY <1>1, <1>2, <2>1
          DEF Issue, IssueBegin, IssueCreate, IssueCreateLost, CreateCredential
<1>3. ASSUME NEW j \in Keys, LeaseStep(j) PROVE Moves
  <2>1. CASE j = k
    BY <1>1, <1>3, <2>1 DEF LeaseStep, RevokeLost, GiveUp
  <2>2. CASE j # k
    BY <1>0, <1>3, <2>2
       DEF LeaseStep, Renew, Expire, RevokeRequested, Revoke, RevokeLost, GiveUp
  <2> QED BY <2>1, <2>2
<1>4. ASSUME NEW h \in Handlers, Sweep(h) PROVE Moves
  BY <1>1, <1>4
     DEF Sweep, SweepBegin, SweepList, SweepFilter, SweepDone, SweepDelete, SweepDeleteLost
<1> QED BY <1>1, <1>2, <1>3, <1>4 DEF Next, Administer, ConfigWrite, ConfigDelete, RolesWrite,
      RolesDelete, OthersCreate, Abort, vars

(* The fields a handler's steps change keep their types.                   *)
LEMMA CallMovesOn ==
  ASSUME Custody, [Next]_vars, NEW g \in Handlers
  PROVE  \/ call'[g] = call[g]
         \/ call'[g].pc \in {"idle", "create", "list"}
         \/ \E k \in Keys : IssueCreate(g, k)
         \/ SweepList(g) \/ SweepFilter(g)
         \/ \E k \in Keys : SweepDelete(g, k)
<1> DEFINE Moves ==
         \/ call'[g] = call[g]
         \/ call'[g].pc \in {"idle", "create", "list"}
         \/ \E k \in Keys : IssueCreate(g, k)
         \/ SweepList(g) \/ SweepFilter(g)
         \/ \E k \in Keys : SweepDelete(g, k)
<1>0. call \in [Handlers -> Calls]
  BY DEF Custody, TypeOK
<1>1. ASSUME call' = call PROVE Moves
  BY <1>1
<1>2. ASSUME NEW h \in Handlers, call' = [call EXCEPT ![h] = Idle] PROVE Moves
  BY <1>0, <1>2, IdleTyped
<1>3. ASSUME NEW h \in Handlers, Issue(h) PROVE Moves
  <2>1. ASSUME NEW r \in Roles, IssueBegin(h, r) PROVE Moves
    BY <1>0, <2>1 DEF IssueBegin, Idle
  <2>2. ASSUME NEW k \in Keys, IssueCreate(h, k) PROVE Moves
    BY <1>0, <2>2 DEF IssueCreate
  <2> QED BY <1>2, <1>3, <2>1, <2>2 DEF Issue, IssueCreateLost, IssueRegister
<1>4. ASSUME NEW h \in Handlers, Sweep(h) PROVE Moves
  <2>1. ASSUME NEW r \in Roles, NEW a \in Ages, SweepBegin(h, r, a) PROVE Moves
    BY <1>0, <2>1 DEF SweepBegin, Idle
  <2>2. CASE SweepList(h)
    BY <1>0, <2>2 DEF SweepList
  <2>3. CASE SweepFilter(h)
    BY <1>0, <2>3 DEF SweepFilter
  <2>4. ASSUME NEW k \in Keys, SweepDelete(h, k) PROVE Moves
    BY <1>0, <2>4 DEF SweepDelete
  <2> QED BY <1>2, <1>4, <2>1, <2>2, <2>3, <2>4 DEF Sweep, SweepDone, SweepDeleteLost
<1> QED BY <1>1, <1>2, <1>3, <1>4 DEF Next, Administer, ConfigWrite, ConfigDelete, RolesWrite,
      RolesDelete, OthersCreate, LeaseStep, Renew, Expire, RevokeRequested, Revoke, RevokeLost, GiveUp,
      Abort, Tick, vars

-----------------------------------------------------------------------------
(***************************************************************************)
(* A key on its way to Vault stays with the request that minted it, and    *)
(* waits no longer than the clock lets it.                                 *)
(***************************************************************************)
LEMMA MintingStep ==
  ASSUME Custody, [Next]_vars, NEW h \in Handlers, NEW k \in Keys, Minting(h, k)'
  PROVE  \/ Minting(h, k) /\ call'[h] = call[h]
         \/ IssueCreate(h, k)
<1>1. call'[h].pc = "register" /\ k \in call'[h].keys
  BY DEF Minting
<1>2. call \in [Handlers -> Calls]
  BY DEF Custody, TypeOK
<1>3. ASSUME NEW j \in Keys, IssueCreate(h, j) PROVE j = k
  BY <1>1, <1>2, <1>3 DEF IssueCreate, Calls
<1>4. ~SweepList(h) /\ ~SweepFilter(h) /\ \A j \in Keys : ~SweepDelete(h, j)
  BY <1>1, <1>2 DEF SweepList, SweepFilter, SweepDelete, NextToSweep, Calls
<1> QED BY <1>1, <1>3, <1>4, CallMovesOn DEF Minting

LEMMA MintedKeyStep ==
  ASSUME Custody, [Next]_vars, TypeOK', NEW h \in Handlers, NEW k \in Keys
  PROVE  MintedKeyKnown(h, k)'
<1> SUFFICES ASSUME Minting(h, k)'
             PROVE  /\ call'[h].keys = {k}
                    /\ cred'[k].state # "none" /\ lease'[k].state = "none"
                    /\ cred'[k].state = "live" => /\ cred'[k].user = call'[h].role.user
                                                  /\ cred'[k].made = "engine"
                                                  /\ cred'[k].age <= Latency
                    /\ \A g \in Handlers : Minting(g, k)' => g = h
  BY DEF MintedKeyKnown
<1>0. call'[h].keys = {k}
  <2>1. CASE Minting(h, k) /\ call'[h] = call[h]
    BY <2>1 DEF Custody, MintedKeyKnown
  <2>2. CASE IssueCreate(h, k)
    BY <2>2 DEF IssueCreate, Custody, TypeOK, Calls
  <2> QED BY <2>1, <2>2, MintingStep
<1>1. CASE Minting(h, k) /\ call'[h] = call[h]
  <2>1. MintedKeyKnown(h, k) /\ cred[k] \in Credentials /\ lease[k] \in Leases
    BY DEF Custody, TypeOK
  <2>2. cred[k].state # "none" /\ lease[k].state = "none"
    BY <1>1, <2>1 DEF MintedKeyKnown
  <2>3. ~KeyMinted(k)
    BY <2>2 DEF KeyMinted
  <2>4. \A j \in Keys : j = k => ~CreateCredential(h, j) /\ \A g \in Handlers : ~IssueCreate(g, j)
    BY <2>2 DEF CreateCredential, IssueCreate
  <2>5. \A g \in Handlers : Minting(g, k)' => g = h
    BY <1>1, <2>1, <2>4, MintingStep DEF MintedKeyKnown
  <2>6. ASSUME NEW g \in Handlers, IssueRegister(g, k) PROVE FALSE
    <3>1. g = h
      BY <1>1, <2>1, <2>6 DEF IssueRegister, MintedKeyKnown, Minting
    <3> QED BY <1>1, <2>6, <3>1, IdleTyped DEF IssueRegister, Minting, Custody, TypeOK
  <2>7. lease'[k].state = "none"
    BY <2>1, <2>2, <2>6, LeaseMoves
       DEF Renew, Expire, RevokeRequested, Revoke, GiveUp, Tick, InForce, Custody, TypeOK
  <2>8. CASE KeyAged(k)
    <3>1. cred[k].age < Latency
      BY <1>1, <2>8 DEF KeyAged, Tick, Minting
    <3>2. cred'[k].user = cred[k].user /\ cred'[k].made = cred[k].made
          /\ cred'[k].state = cred[k].state /\ cred'[k].age = Least(cred[k].age + 1, AgeCap)
      BY <2>1, <2>8 DEF KeyAged, Credentials
    <3>3. cred'[k].age <= Latency
      BY <2>1, <3>1, <3>2, ConstantsAssumption DEF Credentials, Least
    <3> QED BY <1>0, <1>1, <2>1, <2>2, <2>5, <2>7, <3>2, <3>3 DEF MintedKeyKnown
  <2>9. CASE KeyKept(k)
    BY <1>0, <1>1, <2>1, <2>5, <2>7, <2>9 DEF MintedKeyKnown, KeyKept
  <2>10. CASE KeyDeleted(k)
    BY <1>0, <2>5, <2>7, <2>10 DEF KeyDeleted, Gone, NoCred
  <2> QED BY <2>3, <2>8, <2>9, <2>10, KeyStep
<1>2. CASE IssueCreate(h, k)
  <2>1. /\ cred[k].state = "none" /\ call[h].pc = "create" /\ lease' = lease
        /\ cred'[k].state = "live" /\ cred'[k].user = call[h].role.user
        /\ cred'[k].made = "engine" /\ cred'[k].age = 0
        /\ call'[h].role = call[h].role
    BY <1>2 DEF IssueCreate, CreateCredential, Custody, TypeOK, Calls
  <2>2. lease[k].state = "none"
    BY <2>1 DEF Custody, LeaseKnown
  <2>3. ASSUME NEW g \in Handlers, Minting(g, k)' PROVE g = h
    <3>1. ~Minting(g, k)
      BY <2>1 DEF Custody, MintedKeyKnown
    <3>2. IssueCreate(g, k)
      BY <2>3, <3>1, MintingStep
    <3> QED BY <1>2, <3>2, <2>1, <2>3 DEF IssueCreate, Minting, Custody, TypeOK
  <2> QED BY <1>0, <2>1, <2>2, <2>3, ConstantsAssumption
<1> QED BY <1>1, <1>2, MintingStep

(***************************************************************************)
(* What a sweep listed or picked stays what it was: names do not change,   *)
(* keys only get older, and a deleted one does not come back.              *)
(***************************************************************************)
LEMMA SweptKeyStep ==
  ASSUME Custody, [Next]_vars, TypeOK', NEW h \in Handlers, NEW k \in Keys
  PROVE  SweptKeyKnown(h, k)'
<1> SUFFICES ASSUME Sweeping(h, k)'
             PROVE  /\ cred'[k].state # "none"
                    /\ cred'[k].state = "live" => /\ cred'[k].user = call'[h].role.user
                                                  /\ call'[h].pc = "delete" => Stale(h, k)'
  BY DEF SweptKeyKnown
<1>0. SweptKeyKnown(h, k) /\ cred[k] \in Credentials /\ call[h] \in Calls
  BY DEF Custody, TypeOK
<1>1. CASE /\ Sweeping(h, k) /\ call'[h].pc = call[h].pc
           /\ call'[h].role = call[h].role /\ call'[h].cut = call[h].cut
  <2>1. ~KeyMinted(k)
    BY <1>0, <1>1 DEF KeyMinted, SweptKeyKnown
  <2>2. CASE KeyKept(k)
    BY <1>0, <1>1, <2>2 DEF KeyKept, SweptKeyKnown, Stale, MintedAt
  <2>3. CASE KeyDeleted(k)
    BY <2>3 DEF KeyDeleted, Gone, NoCred
  <2>4. CASE KeyAged(k)
    <3>1. /\ cred'[k].user = cred[k].user /\ cred'[k].looks = cred[k].looks
          /\ cred'[k].state = cred[k].state /\ cred'[k].age = Least(cred[k].age + 1, AgeCap)
      BY <1>0, <2>4 DEF KeyAged, Credentials
    <3>2. cred'[k].age >= cred[k].age
      BY <1>0, <3>1, ConstantsAssumption DEF Credentials, Least
    <3>3. Stale(h, k) => Stale(h, k)'
      <4>1. cred[k].age \in Int /\ cred'[k].age \in Int /\ call[h].cut \in Int
        BY <1>0, ConstantsAssumption DEF Credentials, Calls, TypeOK
      <4> QED BY <1>1, <3>1, <3>2, <4>1 DEF Stale, MintedAt
    <3> QED BY <1>0, <1>1, <3>1, <3>3 DEF SweptKeyKnown
  <2> QED BY <2>1, <2>2, <2>3, <2>4, KeyStep
<1>2. CASE SweepList(h)
  BY <1>0, <1>2 DEF SweepList, Sweeping, Custody, TypeOK, Calls
<1>3. CASE SweepFilter(h)
  <2>1. /\ call'[h].role = call[h].role /\ call'[h].cut = call[h].cut /\ cred' = cred
        /\ Stale(h, k) /\ Sweeping(h, k)
    BY <1>0, <1>3 DEF SweepFilter, Sweeping, Custody, TypeOK, Calls
  <2> QED BY <1>0, <2>1 DEF SweptKeyKnown, Stale, MintedAt
<1>4. CASE call'[h] # call[h] /\ ~SweepList(h) /\ ~SweepFilter(h)
  <2>1. \A j \in Keys : ~IssueCreate(h, j)
    <3>1. SUFFICES ASSUME NEW j \in Keys, IssueCreate(h, j) PROVE FALSE
      OBVIOUS
    <3>2. call'[h] = [call[h] EXCEPT !.pc = "register", !.keys = {j}]
      BY <3>1 DEF IssueCreate, Custody, TypeOK
    <3>3. call'[h].pc = "register"
      BY <1>0, <3>2 DEF Calls
    <3> QED BY <3>3 DEF Sweeping
  <2>2. PICK j \in Keys : SweepDelete(h, j)
    BY <1>4, <2>1, CallMovesOn DEF Sweeping
  <2> QED BY <1>0, <1>1, <2>2 DEF SweepDelete, Sweeping, Custody, TypeOK, Calls
<1>5. CASE call'[h] = call[h]
  BY <1>1, <1>5 DEF Sweeping
<1> QED BY <1>2, <1>3, <1>4, <1>5

(***************************************************************************)
(* A lease starts with what its role allows, a renewal stays below its     *)
(* cap, and each tick takes from the cap what it adds to the key's age.    *)
(***************************************************************************)
LEMMA LeaseKnownStep ==
  ASSUME Custody, [Next]_vars, TypeOK', NEW k \in Keys
  PROVE  LeaseKnown(k)'
<1>0. /\ LeaseKnown(k) /\ cred[k] \in Credentials /\ cred'[k] \in Credentials
      /\ lease[k] \in Leases /\ lease'[k] \in Leases /\ lease \in [Keys -> Leases]
  BY DEF Custody, TypeOK
<1>1. CASE KeyMinted(k)
  <2>1. lease[k].state = "none"
    BY <1>0, <1>1 DEF KeyMinted, LeaseKnown
  <2>2. ~Tick /\ \A h \in Handlers : ~IssueRegister(h, k)
    BY <1>0, <1>1 DEF KeyMinted, Tick, IssueRegister, Custody, TypeOK
  <2>3. lease'[k] = lease[k]
    BY <2>1, <2>2, LeaseMoves DEF Renew, Expire, RevokeRequested, Revoke, GiveUp, InForce
  <2> QED BY <1>0, <1>1, <2>1, <2>3 DEF KeyMinted, LeaseKnown, InForce, Open
<1>2. CASE Tick
  <2>1. /\ cred'[k].state = cred[k].state /\ cred'[k].user = cred[k].user
        /\ cred'[k].made = cred[k].made /\ cred'[k].looks = cred[k].looks
        /\ cred'[k].age <= cred[k].age + 1
    <3>1. CASE cred[k].state # "live"
      <4>1. cred'[k] = cred[k]
        BY <1>2, <3>1 DEF Tick
      <4>2. cred[k].age \in Int
        BY <1>0, ConstantsAssumption DEF Credentials
      <4> QED BY <4>1, <4>2
    <3>2. CASE cred[k].state = "live"
      <4>1. cred'[k] = [cred[k] EXCEPT !.age = Least(@ + 1, AgeCap)]
        BY <1>2, <3>2 DEF Tick
      <4>2. cred'[k].age = Least(cred[k].age + 1, AgeCap)
        BY <1>0, <4>1 DEF Credentials
      <4>3. cred'[k].age <= cred[k].age + 1
        BY <1>0, <4>2, ConstantsAssumption DEF Credentials, Least
      <4> QED BY <1>0, <4>1, <4>3 DEF Credentials
    <3> QED BY <3>1, <3>2
  <2>2. CASE ~InForce(k)
    BY <1>0, <1>2, <2>1, <2>2 DEF Tick, InForce, LeaseKnown, Open
  <2>3. CASE InForce(k)
    <3>1. /\ lease'[k].state = lease[k].state /\ lease'[k].user = lease[k].user
          /\ lease'[k].left = lease[k].left - 1 /\ lease'[k].cap = lease[k].cap - 1
      BY <1>0, <1>2, <2>3 DEF Tick, Leases
    <3>2. lease'[k].left <= lease'[k].cap
      BY <1>0, <2>3, <3>1, ConstantsAssumption DEF LeaseKnown, Leases
    <3>3. ASSUME cred[k].state = "live"
          PROVE  \E s \in Accepted : /\ s.user = cred'[k].user
                                     /\ cred'[k].age + lease'[k].cap <= LeaseCap(s) + Latency
      <4>1. PICK s \in Accepted : /\ s.user = cred[k].user
                                  /\ cred[k].age + lease[k].cap <= LeaseCap(s) + Latency
        BY <1>0, <2>3, <3>3 DEF LeaseKnown
      <4>2. LeaseCap(s) \in 1 .. MountMax
        BY LeaseTerms
      <4>3. cred'[k].age + lease'[k].cap <= LeaseCap(s) + Latency
        BY <1>0, <2>1, <3>1, <4>1, <4>2, ConstantsAssumption DEF Leases, Credentials
      <4> QED BY <2>1, <4>1, <4>3
    <3> QED BY <1>0, <2>1, <2>3, <3>1, <3>2, <3>3 DEF LeaseKnown, InForce, Open
  <2> QED BY <2>2, <2>3
<1>3. CASE ~KeyMinted(k) /\ ~Tick
  <2>1. \/ cred'[k] = cred[k]
        \/ cred'[k].state = "gone"
    BY <1>3, KeyStep DEF KeyKept, KeyDeleted, KeyAged, Gone, NoCred
  <2>2. CASE lease'[k] = lease[k]
    BY <1>0, <2>1, <2>2 DEF LeaseKnown, InForce, Open
  <2>3. ASSUME NEW h \in Handlers, IssueRegister(h, k) PROVE LeaseKnown(k)'
    <3> DEFINE s == call[h].role
    <3>1. s \in Accepted
      BY <2>3 DEF IssueRegister, Custody, CallKnown
    <3>2. LeaseCap(s) \in 1 .. MountMax /\ s.ttl \in Nat /\ s.user \in Users
      BY <3>1, LeaseTerms
    <3>3. /\ cred[k].state # "none" /\ cred' = cred
          /\ cred[k].state = "live" => /\ cred[k].user = s.user /\ cred[k].made = "engine"
                                       /\ cred[k].age <= Latency
      BY <2>3 DEF IssueRegister, Custody, MintedKeyKnown, Minting
    <3>4. /\ lease'[k].user = s.user
          /\ lease'[k].cap = LeaseCap(s) /\ lease'[k].left = LeaseTTL(s.ttl, LeaseCap(s))
      BY <1>0, <2>3 DEF IssueRegister
    <3> HIDE DEF s
    <3>5. LeaseTTL(s.ttl, LeaseCap(s)) <= LeaseCap(s)
      <4>1. LeaseCap(s) \in 0 .. MountMax
        BY <3>2, ConstantsAssumption
      <4>2. LeaseTTL(s.ttl, LeaseCap(s)) \in 0 .. LeaseCap(s)
        BY <3>2, <4>1, LeaseTTLBounds
      <4> QED BY <3>2, <4>2
    <3>6. cred[k].state = "live" => cred'[k].age + lease'[k].cap <= LeaseCap(s) + Latency
      BY <1>0, <3>2, <3>3, <3>4, ConstantsAssumption DEF Credentials
    <3> QED BY <1>0, <3>1, <3>3, <3>4, <3>5, <3>6 DEF LeaseKnown, InForce, Open
  <2>4. ASSUME NEW increment \in 0 .. MountMax, Renew(k, increment) PROVE LeaseKnown(k)'
    <3>1. /\ cred' = cred /\ InForce(k)
          /\ lease'[k].state = lease[k].state /\ lease'[k].user = lease[k].user
          /\ lease'[k].cap = lease[k].cap
          /\ lease'[k].left = LeaseTTL(increment, lease[k].cap)
      BY <1>0, <2>4 DEF Renew, Leases
    <3>2. lease'[k].left <= lease'[k].cap
      <4>1. lease[k].cap \in 0 .. MountMax /\ increment \in Nat
        BY <1>0, ConstantsAssumption DEF Leases
      <4>2. lease'[k].left \in 0 .. lease[k].cap
        BY <3>1, <4>1, LeaseTTLBounds
      <4> QED BY <3>1, <4>1, <4>2, ConstantsAssumption
    <3> QED BY <1>0, <3>1, <3>2 DEF LeaseKnown, InForce, Open
  <2>5. CASE Expire(k) \/ RevokeRequested(k) \/ GiveUp(k)
    <3>1. /\ cred' = cred /\ Open(k)
          /\ lease'[k].state \in {"revoking", "stuck"} /\ lease'[k].user = lease[k].user
      BY <1>0, <2>5 DEF Expire, RevokeRequested, GiveUp, InForce, Leases, Open
    <3> QED BY <1>0, <3>1 DEF LeaseKnown, InForce, Open
  <2>6. CASE Revoke(k)
    <3>1. lease[k].state = "revoking" /\ lease'[k].state = "ended"
      BY <1>0, <2>6 DEF Revoke, NoLease
    <3> QED BY <1>0, <2>1, <3>1 DEF LeaseKnown, InForce, Open
  <2> QED BY <1>3, <2>2, <2>3, <2>4, <2>5, <2>6, LeaseMoves
<1> QED BY <1>1, <1>2, <1>3

-----------------------------------------------------------------------------
(* Custody is inductive, whatever sweeps the operator asks for.            *)
LEMMA CustodyStep == Custody /\ [Next]_vars => Custody'
BY TypeStep, CallStep, MintedKeyStep, SweptKeyStep, LeaseKnownStep DEF Custody

(* Every variable keeps its type: among others a stored role never         *)
(* promises a ttl beyond its max_ttl (pathRolesWrite), and no lease, minted *)
(* or renewed, has more left than its own cap and the mount's allow.       *)
THEOREM Typed == Spec => []TypeOK
<1>1. Init => Custody
  BY CustodyInit
<1>2. Custody /\ [Next]_vars => Custody'
  BY CustodyStep
<1>3. Custody => TypeOK
  BY DEF Custody
<1> QED BY <1>1, <1>2, <1>3, PTL DEF Spec

-----------------------------------------------------------------------------
(***************************************************************************)
(* With sweeps that spare the longest lease of the service user and the    *)
(* latency, no sweep can pick a key on its way to Vault or under a lease.  *)
(***************************************************************************)
MintedKeysLive == \A h \in Handlers, k \in Keys : Minting(h, k) => cred[k].state = "live"

LEMMA SweptKeysExpired ==
  ASSUME SafeSweeps, Custody, NEW h \in Handlers, NEW k \in Keys, SweepDelete(h, k) \/ SweepDeleteLost(h, k),
         cred[k].state = "live", \E s \in Accepted : s.user = cred[k].user
  PROVE  /\ \A g \in Handlers : ~Minting(g, k)
         /\ ~InForce(k)
<1>1. /\ call[h].pc = "delete" /\ call[h].role \in Accepted /\ cred[k].user = call[h].role.user
      /\ call[h].cut > 0 /\ cred[k].age >= call[h].cut
  BY DEF SweepDelete, SweepDeleteLost, NextToSweep, Custody, SweptKeyKnown, CallKnown, Sweeping, Stale
<1>2. PICK a \in Ages : call[h].cut = SweepAge(a, call[h].role)
  BY <1>1 DEF Custody, CallKnown
<1>3. /\ cred[k].age \in Nat /\ lease[k].cap \in Nat /\ lease[k].left \in Nat
      /\ call[h].cut \in Nat
  BY ConstantsAssumption DEF Custody, TypeOK, Credentials, Leases, Calls
<1>4. ASSUME NEW t \in Accepted, t.user = cred[k].user
      PROVE  LeaseCap(t) \in 1 .. MountMax /\ cred[k].age >= LeaseCap(t) + Latency
  <2>1. call[h].cut >= LeaseCap(t) + Latency
    BY <1>1, <1>2, <1>4 DEF SafeSweeps
  <2> QED BY <1>1, <1>3, <2>1, LeaseTerms, ConstantsAssumption
<1>5. ASSUME NEW g \in Handlers, Minting(g, k) PROVE FALSE
  <2>1. cred[k].age <= Latency
    BY <1>5 DEF Custody, MintedKeyKnown
  <2>2. PICK t \in Accepted : t.user = cred[k].user
    OBVIOUS
  <2> QED BY <1>3, <1>4, <2>1, <2>2, ConstantsAssumption
<1>6. ASSUME InForce(k) PROVE FALSE
  <2>1. PICK t \in Accepted : /\ t.user = cred[k].user
                              /\ cred[k].age + lease[k].cap <= LeaseCap(t) + Latency
    BY <1>6 DEF Custody, LeaseKnown
  <2>2. lease[k].left > 0 /\ lease[k].left <= lease[k].cap
    BY <1>6 DEF Custody, LeaseKnown, InForce
  <2> QED BY <1>3, <1>4, <2>1, <2>2, ConstantsAssumption
<1> QED BY <1>5, <1>6

LEMMA DeletedByWhom ==
  ASSUME Custody, [Next]_vars, NEW k \in Keys, KeyDeleted(k)
  PROVE  \/ Revoke(k) \/ RevokeLost(k)
         \/ \E h \in Handlers : SweepDelete(h, k) \/ SweepDeleteLost(h, k)
<1> DEFINE ByWhom == \/ Revoke(k) \/ RevokeLost(k)
                     \/ \E h \in Handlers : SweepDelete(h, k) \/ SweepDeleteLost(h, k)
<1>0. cred \in [Keys -> Credentials] /\ cred'[k] # cred[k]
  BY DEF Custody, TypeOK, KeyDeleted, Gone, NoCred
<1>1. ASSUME NEW j \in Keys, NEW via, NEW u, cred' = AfterDelete(j, via, u) PROVE j = k
  BY <1>0, <1>1 DEF AfterDelete
<1>2. ASSUME NEW h \in Handlers, Issue(h) PROVE FALSE
  BY <1>0, <1>2 DEF Issue, IssueBegin, IssueCreate, IssueCreateLost, IssueRegister,
     CreateCredential, KeyDeleted, Gone, NoCred
<1>3. ASSUME NEW j \in Keys, LeaseStep(j) PROVE ByWhom
  BY <1>0, <1>1, <1>3 DEF LeaseStep, Renew, Expire, RevokeRequested, Revoke, RevokeLost, GiveUp
<1>4. ASSUME NEW h \in Handlers, Sweep(h) PROVE ByWhom
  BY <1>0, <1>1, <1>4
     DEF Sweep, SweepBegin, SweepList, SweepFilter, SweepDone, SweepDelete, SweepDeleteLost
<1>5. ~Tick
  <2>1. ASSUME Tick PROVE FALSE
    <3>1. cred'[k] = [cred[k] EXCEPT !.age = Least(@ + 1, AgeCap)]
      BY <2>1 DEF Tick, KeyDeleted
    <3>2. cred'[k].state = cred[k].state
      BY <1>0, <3>1 DEF Credentials
    <3> QED BY <3>2 DEF KeyDeleted, Gone, NoCred
  <2> QED BY <2>1
<1>6. ~Administer
  BY <1>0 DEF Administer, ConfigWrite, ConfigDelete, RolesWrite, RolesDelete, OthersCreate,
     KeyDeleted, Gone, NoCred
<1> QED BY <1>0, <1>2, <1>3, <1>4, <1>5, <1>6 DEF Next, Abort, vars

(* The invariant behind the next theorem.                                  *)
Kept == Custody /\ MintedKeysLive /\ LeasedKeyWorks

LEMMA KeptStep == ASSUME SafeSweeps, Kept, [Next]_vars PROVE Kept'
<1>1. Custody'
  BY CustodyStep DEF Kept
<1>2. ASSUME NEW k \in Keys, cred[k].state = "live", cred'[k].state # "live",
             InForce(k) \/ \E h \in Handlers : Minting(h, k)
      PROVE  FALSE
  <2>1. KeyDeleted(k)
    <3>1. ~KeyKept(k) /\ ~KeyMinted(k)
      BY <1>2 DEF KeyKept, KeyMinted
    <3>2. ~KeyAged(k)
      BY <1>2 DEF KeyAged, Kept, Custody, TypeOK, Credentials
    <3> QED BY <3>1, <3>2, KeyStep DEF Kept
  <2>2. /\ lease[k].state # "revoking"
        /\ \E s \in Accepted : s.user = cred[k].user
    <3>1. CASE InForce(k)
      BY <1>2, <3>1 DEF InForce, Kept, Custody, LeaseKnown
    <3>2. ASSUME NEW h \in Handlers, Minting(h, k)
          PROVE  lease[k].state # "revoking" /\ \E s \in Accepted : s.user = cred[k].user
      <4>1. lease[k].state = "none" /\ cred[k].user = call[h].role.user
        BY <1>2, <3>2 DEF Kept, Custody, MintedKeyKnown
      <4>2. call[h].role \in Accepted
        BY <3>2 DEF Kept, Custody, CallKnown, Minting
      <4> QED BY <4>1, <4>2
    <3> QED BY <1>2, <3>1, <3>2
  <2>3. PICK h \in Handlers : SweepDelete(h, k) \/ SweepDeleteLost(h, k)
    BY <2>1, <2>2, DeletedByWhom DEF Kept, Revoke, RevokeLost
  <2> QED BY <1>2, <2>2, <2>3, SweptKeysExpired DEF Kept
<1>3. LeasedKeyWorks'
  <2> SUFFICES ASSUME NEW k \in Keys, InForce(k)' PROVE cred'[k].state = "live"
    BY DEF LeasedKeyWorks
  <2>1. CASE InForce(k)
    BY <1>2, <2>1 DEF Kept, LeasedKeyWorks
  <2>2. CASE ~InForce(k)
    <3>1. lease'[k].state = "live" /\ lease'[k].left > 0
      BY DEF InForce
    <3>2. lease \in [Keys -> Leases]
      BY DEF Kept, Custody, TypeOK
    <3>3. lease'[k] # lease[k] /\ ~Tick
      BY <2>2, <3>1 DEF InForce, Tick
    <3>4. ~Expire(k) /\ ~RevokeRequested(k) /\ ~Revoke(k) /\ ~GiveUp(k)
      BY <3>1, <3>2 DEF Expire, RevokeRequested, Revoke, GiveUp, NoLease, Leases
    <3>5. PICK h \in Handlers : IssueRegister(h, k)
      BY <2>2, <3>3, <3>4, LeaseMoves DEF Renew, Kept
    <3> QED BY <3>5 DEF IssueRegister, Minting, Kept, MintedKeysLive
  <2> QED BY <2>1, <2>2
<1>4. MintedKeysLive'
  <2> SUFFICES ASSUME NEW h \in Handlers, NEW k \in Keys, Minting(h, k)'
               PROVE  cred'[k].state = "live"
    BY DEF MintedKeysLive
  <2>1. CASE Minting(h, k)
    BY <1>2, <2>1 DEF Kept, MintedKeysLive
  <2>2. CASE IssueCreate(h, k)
    BY <2>2 DEF IssueCreate, CreateCredential, Kept, Custody, TypeOK
  <2> QED BY <2>1, <2>2, MintingStep DEF Kept
<1> QED BY <1>1, <1>3, <1>4 DEF Kept

(* While a lease is in force its key works, provided that every sweep the  *)
(* operator asks for spares the longest lease a role of the same service   *)
(* user may give and the time from naming a key to its lease.              *)
THEOREM LeasedKeysWork == ASSUME SafeSweeps PROVE Spec => []LeasedKeyWorks
<1>1. Init => Kept
  BY CustodyInit DEF Init, Kept, MintedKeysLive, LeasedKeyWorks, Minting, InForce, Idle, NoLease
<1>2. Kept /\ [Next]_vars => Kept'
  BY KeptStep
<1>3. Kept => LeasedKeyWorks
  BY DEF Kept
<1> QED BY <1>1, <1>2, <1>3, PTL DEF Spec

-----------------------------------------------------------------------------
(***************************************************************************)
(* Accounts: what a request goes through, and what is open where.          *)
(***************************************************************************)
LEMMA ViaStep ==
  ASSUME Custody, [Next]_vars, NEW g \in Handlers
  PROVE  \/ call'[g].pc = "idle" \/ call'[g] = call[g]
         \/ /\ call[g].pc # "idle" /\ call'[g].via = call[g].via /\ call'[g].role = call[g].role
            /\ \/ call'[g].pc \in {"filter", "delete"}
               \/ call[g].pc = "create" /\ Reaches(call[g].via, call[g].role.user)
         \/ call'[g].pc \in {"create", "list"} /\ call'[g].via = account /\ account \in Accounts
<1> DEFINE Moves ==
         \/ call'[g].pc = "idle" \/ call'[g] = call[g]
         \/ /\ call[g].pc # "idle" /\ call'[g].via = call[g].via /\ call'[g].role = call[g].role
            /\ \/ call'[g].pc \in {"filter", "delete"}
               \/ call[g].pc = "create" /\ Reaches(call[g].via, call[g].role.user)
         \/ call'[g].pc \in {"create", "list"} /\ call'[g].via = account /\ account \in Accounts
<1>0. call \in [Handlers -> Calls] /\ account \in Accounts \cup {NoAccount}
  BY DEF Custody, TypeOK
<1>1. ASSUME call' = call PROVE Moves
  BY <1>1
<1>2. ASSUME NEW h \in Handlers, call' = [call EXCEPT ![h] = Idle] PROVE Moves
  BY <1>0, <1>2, IdleTyped
<1>3. ASSUME NEW h \in Handlers, Issue(h) PROVE Moves
  <2>1. ASSUME NEW r \in Roles, IssueBegin(h, r) PROVE Moves
    BY <1>0, <2>1 DEF IssueBegin, Idle
  <2>2. ASSUME NEW k \in Keys, IssueCreate(h, k) PROVE Moves
    BY <1>0, <2>2 DEF IssueCreate, CreateCredential, Calls
  <2> QED BY <1>2, <1>3, <2>1, <2>2 DEF Issue, IssueCreateLost, IssueRegister
<1>4. ASSUME NEW h \in Handlers, Sweep(h) PROVE Moves
  <2>1. ASSUME NEW r \in Roles, NEW a \in Ages, SweepBegin(h, r, a) PROVE Moves
    BY <1>0, <2>1 DEF SweepBegin, Idle
  <2>2. CASE SweepList(h)
    BY <1>0, <2>2 DEF SweepList, Calls
  <2>3. CASE SweepFilter(h)
    BY <1>0, <2>3 DEF SweepFilter, Calls
  <2>4. ASSUME NEW k \in Keys, SweepDelete(h, k) PROVE Moves
    BY <1>0, <2>4 DEF SweepDelete, NextToSweep, Calls
  <2> QED BY <1>2, <1>4, <2>1, <2>2, <2>3, <2>4 DEF Sweep, SweepDone, SweepDeleteLost
<1> QED BY <1>1, <1>2, <1>3, <1>4 DEF Next, Administer, ConfigWrite, ConfigDelete, RolesWrite,
      RolesDelete, OthersCreate, LeaseStep, Renew, Expire, RevokeRequested, Revoke, RevokeLost, GiveUp,
      Abort, Tick, vars

(* The account stays, or nothing else changes.                             *)
LEMMA AccountStep ==
  ASSUME [Next]_vars PROVE account' = account \/ UNCHANGED <<role, cred, lease, call>>
BY DEF Next, Administer, ConfigWrite, ConfigDelete, RolesWrite, RolesDelete, OthersCreate,
       Issue, IssueBegin, IssueCreate, IssueCreateLost, CreateCredential, IssueRegister,
       LeaseStep, Renew, Expire, RevokeRequested, Revoke, RevokeLost, GiveUp,
       Sweep, SweepBegin, SweepList, SweepFilter, SweepDone, SweepDelete, SweepDeleteLost,
       Abort, Tick, vars

(* The key of an open lease is in the account configured, when it is the   *)
(* same as before.                                                         *)
LEMMA OpenLeaseStep ==
  ASSUME Custody, Home, [Next]_vars, account' = account, account # NoAccount, NEW k \in Keys,
         Open(k)', cred'[k].state = "live"
  PROVE  Reaches(account, lease'[k].user)
<1>0. /\ lease \in [Keys -> Leases] /\ cred \in [Keys -> Credentials] /\ LeaseKnown(k)
      /\ Open(k) /\ cred[k].state = "live" => Reaches(account, lease[k].user)
  BY DEF Custody, TypeOK, Home, OpenOnlyIn
<1>1. ASSUME lease'[k].state = "none" \/ lease'[k].state = "ended" PROVE FALSE
  BY <1>1 DEF Open
<1>2. ASSUME Open(k), lease'[k].user = lease[k].user
      PROVE  Reaches(account, lease'[k].user)
  <2>1. cred[k].state # "none"
    BY <1>0, <1>2 DEF LeaseKnown, Open
  <2>2. cred[k].state = "live"
    BY <1>0, <2>1, KeyStep DEF KeyKept, KeyMinted, KeyDeleted, KeyAged, Gone, NoCred
  <2> QED BY <1>0, <1>2, <2>2
<1>3. CASE lease'[k] = lease[k]
  BY <1>2, <1>3 DEF Open
<1>4. ASSUME NEW h \in Handlers, IssueRegister(h, k) PROVE Reaches(account, lease'[k].user)
  <2>1. call[h].pc = "register" /\ lease'[k].user = call[h].role.user
    BY <1>0, <1>4 DEF IssueRegister
  <2>2. Reaches(call[h].via, call[h].role.user) /\ call[h].via = account
    BY <2>1 DEF Home, OpenOnlyIn
  <2> QED BY <2>1, <2>2
<1>5. ASSUME NEW increment \in 0 .. MountMax, Renew(k, increment) PROVE Reaches(account, lease'[k].user)
  BY <1>0, <1>2, <1>5 DEF Renew, InForce, Leases, Open
<1>6. CASE Expire(k) \/ RevokeRequested(k) \/ GiveUp(k)
  BY <1>0, <1>2, <1>6 DEF Expire, RevokeRequested, GiveUp, InForce, Leases, Open
<1>7. CASE Revoke(k)
  BY <1>0, <1>1, <1>7 DEF Revoke, NoLease
<1>8. CASE Tick
  <2>1. lease'[k].state = lease[k].state /\ lease'[k].user = lease[k].user
    BY <1>0, <1>8 DEF Tick, Leases
  <2> QED BY <1>2, <2>1 DEF Open
<1> QED BY <1>3, <1>4, <1>5, <1>6, <1>7, <1>8, LeaseMoves

LEMMA HomeStep == ASSUME Custody, Home, [Next]_vars, [MovesCleanly]_vars PROVE Home'
<1>1. ASSUME NEW h \in Handlers, call'[h].pc # "idle" PROVE call'[h].via \in Accounts
  BY <1>1, ViaStep DEF Home
<1>2. ASSUME NEW h \in Handlers, call'[h].pc = "register" PROVE Reaches(call'[h].via, call'[h].role.user)
  BY <1>2, ViaStep DEF Home
<1>3. ASSUME account' # NoAccount PROVE OpenOnlyIn(account)'
  <2>1. CASE account' = account
    <3>1. ASSUME NEW k \in Keys, Open(k)', cred'[k].state = "live"
          PROVE  Reaches(account', lease'[k].user)
      BY <1>3, <2>1, <3>1, OpenLeaseStep
    <3>2. ASSUME NEW h \in Handlers, call'[h].pc \in {"create", "register"},
                 Reaches(call'[h].via, call'[h].role.user)
          PROVE  call'[h].via = account'
      BY <1>3, <2>1, <3>2, ViaStep DEF Home, OpenOnlyIn
    <3> QED BY <3>1, <3>2 DEF OpenOnlyIn, Reaches, Open
  <2>2. CASE account' # account
    <3>1. UNCHANGED <<role, cred, lease, call>>
      BY <2>2, AccountStep
    <3>2. OpenOnlyIn(account')
      BY <1>3, <2>2 DEF MovesCleanly, vars
    <3> QED BY <3>1, <3>2 DEF OpenOnlyIn, Reaches, Open
  <2> QED BY <2>1, <2>2
<1> QED BY <1>1, <1>2, <1>3 DEF Home

LEMMA HomeInit == Init => Home
BY DEF Init, Home, Idle

LEMMA RevokedKeyGone ==
  ASSUME Home, Custody, NEW k \in Keys, Revoke(k)
  PROVE  cred'[k].state # "live"
<1>1. cred \in [Keys -> Credentials] /\ LeaseKnown(k) /\ account # NoAccount
  BY DEF Custody, TypeOK, Revoke
<1>2. CASE cred[k].state = "live"
  <2>1. lease[k].user = cred[k].user
    BY <1>1, <1>2 DEF Revoke, LeaseKnown, Open
  <2>2. Reaches(account, lease[k].user)
    BY <1>1, <1>2 DEF Revoke, Home, OpenOnlyIn, Open
  <2> QED BY <1>1, <1>2, <2>1, <2>2 DEF Revoke, AfterDelete, Gone, NoCred
<1>3. CASE cred[k].state # "live"
  BY <1>1, <1>3 DEF Revoke, AfterDelete
<1> QED BY <1>2, <1>3

(* An engine that knows one account never has anything open in another.    *)
THEOREM OneAccountIsClean == ASSUME \A a, b \in Accounts : a = b PROVE Spec => [][MovesCleanly]_vars
<1> DEFINE Inv == Custody /\ \A h \in Handlers : call[h].pc # "idle" => call[h].via \in Accounts
<1>1. Init => Inv
  BY CustodyInit DEF Init, Idle
<1>2. ASSUME Inv, [Next]_vars PROVE Inv'
  <2>1. ASSUME NEW h \in Handlers, call'[h].pc # "idle" PROVE call'[h].via \in Accounts
    BY <1>2, <2>1, ViaStep
  <2> QED BY <1>2, <2>1, CustodyStep
<1>3. ASSUME Inv, [Next]_vars PROVE [MovesCleanly]_vars
  <2> SUFFICES ASSUME account' \notin {account, NoAccount} PROVE OpenOnlyIn(account')
    BY DEF MovesCleanly
  <2>1. account' \in Accounts
    BY <1>2, <1>3 DEF Custody, TypeOK
  <2>2. ASSUME NEW u \in Users PROVE Reaches(account', u)
    BY <2>1, ConstantsAssumption DEF Reaches
  <2>3. ASSUME NEW k \in Keys, Open(k), cred[k].state = "live"
        PROVE  Reaches(account', lease[k].user)
    BY <1>3, <2>2, <2>3 DEF Custody, LeaseKnown
  <2>4. ASSUME NEW h \in Handlers, call[h].pc \in {"create", "register"} PROVE call[h].via = account'
    BY <1>3, <2>1, <2>4
  <2> QED BY <2>3, <2>4 DEF OpenOnlyIn
<1> QED BY <1>1, <1>2, <1>3, PTL DEF Spec

-----------------------------------------------------------------------------
(* A lease that has ended leaves no key behind, as long as the engine is   *)
(* pointed at another account only when it has nothing open in the first:  *)
(* revocation takes 404 for success, and the other account answers 404.    *)
THEOREM EndedLeasesLeaveNoKey == Spec /\ [][MovesCleanly]_vars => []EndedLeaseLeavesNoKey
<1> DEFINE Inv == Custody /\ Home /\ EndedLeaseLeavesNoKey
<1>1. Init => Inv
  BY CustodyInit, HomeInit DEF Init, EndedLeaseLeavesNoKey, NoLease
<1>2. ASSUME Inv, [Next]_vars, [MovesCleanly]_vars PROVE Inv'
  <2>1. Custody' /\ Home'
    BY <1>2, CustodyStep, HomeStep
  <2>2. ASSUME NEW k \in Keys, lease'[k].state = "ended" PROVE cred'[k].state = "gone"
    <3>0. cred \in [Keys -> Credentials] /\ lease[k] \in Leases /\ LeaseKnown(k)
      BY <1>2 DEF Custody, TypeOK
    <3>1. CASE lease[k].state = "ended"
      BY <1>2, <3>1, KeyStep
         DEF EndedLeaseLeavesNoKey, KeyKept, KeyMinted, KeyDeleted, KeyAged
    <3>2. CASE lease[k].state # "ended"
      <4>0. lease \in [Keys -> Leases]
        BY <1>2 DEF Custody, TypeOK
      <4>1. Revoke(k)
        <5>1. ~Tick
          BY <2>2, <3>0, <3>2 DEF Tick, InForce, Leases
        <5>2. \A increment \in 0 .. MountMax : ~Renew(k, increment)
          BY <2>2, <3>0, <4>0 DEF Renew, InForce, Leases
        <5>3. /\ ~Expire(k) /\ ~RevokeRequested(k) /\ ~GiveUp(k)
              /\ \A h \in Handlers : ~IssueRegister(h, k)
          BY <2>2, <3>0, <4>0 DEF Expire, RevokeRequested, GiveUp, IssueRegister, Leases
        <5> QED BY <1>2, <2>2, <3>2, <5>1, <5>2, <5>3, LeaseMoves
      <4>2. cred'[k].state # "live"
        BY <1>2, <4>1, RevokedKeyGone
      <4>3. CASE cred[k].state = "live"
        <5>1. KeyDeleted(k)
          BY <1>2, <3>0, <4>2, <4>3, KeyStep DEF KeyKept, KeyMinted, KeyAged, Credentials
        <5> QED BY <5>1 DEF KeyDeleted, Gone, NoCred
      <4>4. CASE cred[k].state # "live"
        <5>1. cred[k].state = "gone"
          BY <3>0, <4>1, <4>4 DEF Revoke, LeaseKnown, Credentials
        <5> QED BY <3>0, <4>1, <5>1 DEF Revoke, AfterDelete
      <4> QED BY <4>3, <4>4
    <3> QED BY <3>1, <3>2
  <2> QED BY <2>1, <2>2 DEF EndedLeaseLeavesNoKey
<1>3. Inv => EndedLeaseLeavesNoKey
  OBVIOUS
<1> QED BY <1>1, <1>2, <1>3, PTL DEF Spec

(* A key stops working only because Vault revokes the lease it was minted  *)
(* for, or because a sweep for its user's keys of its age picked it by a   *)
(* name that says so: whatever age the sweep is given, whatever account is *)
(* configured, and whatever fails or changes between list and deletion.    *)
THEOREM KeysGoForCause == Spec => KeysDeletedForCause
<1> DEFINE Cause(k) ==
             \/ (Revoke(k) \/ RevokeLost(k)) /\ cred[k].made = "engine"
             \/ \E h \in Handlers :
                  /\ SweepDelete(h, k) \/ SweepDeleteLost(h, k)
                  /\ cred[k].user = call[h].role.user
                  /\ cred[k].looks = "lease" /\ cred[k].age >= call[h].cut
           ForCause == \A k \in Keys : cred[k].state = "live" /\ cred'[k].state # "live" => Cause(k)
<1>1. Init => Custody
  BY CustodyInit
<1>2. Custody /\ [Next]_vars => Custody'
  BY CustodyStep
<1>3. ASSUME Custody, [Next]_vars PROVE ForCause
  <2> SUFFICES ASSUME NEW k \in Keys, cred[k].state = "live", cred'[k].state # "live"
               PROVE  Cause(k)
    OBVIOUS
  <2>1. KeyDeleted(k)
    <3>1. ~KeyKept(k) /\ ~KeyMinted(k)
      BY DEF KeyKept, KeyMinted
    <3>2. ~KeyAged(k)
      BY <1>3 DEF KeyAged, Custody, TypeOK, Credentials
    <3> QED BY <1>3, <3>1, <3>2, KeyStep
  <2>2. CASE Revoke(k) \/ RevokeLost(k)
    BY <1>3, <2>2 DEF Revoke, RevokeLost, Custody, LeaseKnown, Open
  <2>3. ASSUME NEW h \in Handlers, SweepDelete(h, k) \/ SweepDeleteLost(h, k) PROVE Cause(k)
    <3>1. Sweeping(h, k) /\ call[h].pc = "delete"
      BY <2>3 DEF SweepDelete, SweepDeleteLost, NextToSweep, Sweeping
    <3>2. cred[k].user = call[h].role.user /\ Stale(h, k)
      BY <1>3, <3>1 DEF Custody, SweptKeyKnown
    <3> QED BY <2>3, <3>2 DEF Stale, MintedAt
  <2> QED BY <1>3, <2>1, <2>2, <2>3, DeletedByWhom
<1>4. Custody /\ [Next]_vars => [ForCause]_vars
  BY <1>3
<1> QED BY <1>1, <1>2, <1>4, PTL DEF Spec, KeysDeletedForCause

-----------------------------------------------------------------------------
(***************************************************************************)
(* LeasedKeys implements KeyCustody.  Every step but the creation of a key *)
(* and its registration leaves each key on its way where it is, or gives   *)
(* it up; what remains is to say what the step does to leases and keys.    *)
(***************************************************************************)
Minted(k) == \E h \in Handlers : Minting(h, k)

LEMMA StageIs ==
  /\ DOMAIN KeyStage = Keys
  /\ \A k \in Keys : KeyStage[k] =
       IF Minted(k) THEN "minted" ELSE IF InForce(k) THEN "owed"
       ELSE IF Open(k) THEN "due" ELSE "free"
BY DEF KeyStage, Minted

LEMMA SameStages ==
  ASSUME \A k \in Keys : Minted(k)' <=> Minted(k), lease' = lease
  PROVE  KeyStage' = KeyStage
<1>1. \A k \in Keys : (InForce(k)' <=> InForce(k)) /\ (Open(k)' <=> Open(k))
  BY DEF InForce, Open
<1> QED BY <1>1 DEF KeyStage, Minted

LEMMA SameKeys == ASSUME cred' = cred PROVE EngineKeys' = EngineKeys
BY DEF EngineKeys

LEMMA Passing ==
  ASSUME NEW from, NEW to,
         \A k \in Keys : \/ KeyStage'[k] = KeyStage[k]
                         \/ KeyStage[k] = from /\ KeyStage'[k] = to
  PROVE  Life!Pass(from, to)
<1> DEFINE S == {k \in Keys : KeyStage[k] = from /\ KeyStage'[k] = to}
<1>1. KeyStage' = [k \in Keys |-> IF k \in S THEN to ELSE KeyStage[k]]
  <2>1. KeyStage' = [k \in Keys |-> KeyStage'[k]]
    BY DEF KeyStage
  <2>2. \A k \in Keys : KeyStage'[k] = IF k \in S THEN to ELSE KeyStage[k]
    OBVIOUS
  <2> QED BY <2>1, <2>2
<1>2. S \in SUBSET {k \in Keys : KeyStage[k] = from}
  OBVIOUS
<1> QED BY <1>1, <1>2 DEF Life!Pass

LEMMA MintedStays ==
  ASSUME Custody, NEW h \in Handlers, call[h].pc # "register", call'[h].pc # "register",
         \A g \in Handlers \ {h} : call'[g] = call[g]
  PROVE  \A k \in Keys : Minted(k)' <=> Minted(k)
BY DEF Minted, Minting

LEMMA IssuesInCustody ==
  ASSUME Kept, NEW h \in Handlers, Issue(h)
  PROVE  Life!Next \/ UNCHANGED <<EngineKeys, KeyStage>>
<1>0. /\ call \in [Handlers -> Calls] /\ cred \in [Keys -> Credentials] /\ lease \in [Keys -> Leases]
  BY DEF Kept, Custody, TypeOK
<1>1. ASSUME NEW r \in Roles, IssueBegin(h, r) PROVE UNCHANGED <<EngineKeys, KeyStage>>
  <2>1. \A k \in Keys : Minted(k)' <=> Minted(k)
    BY <1>0, <1>1, MintedStays DEF IssueBegin, Idle, Kept
  <2> QED BY <1>1, <2>1, SameStages, SameKeys DEF IssueBegin
<1>2. ASSUME NEW k \in Keys, CreateCredential(h, k)
      PROVE  /\ KeyStage[k] = "free" /\ lease' = lease
             /\ EngineKeys' = EngineKeys \cup {k}
  <2>1. lease[k].state = "none" /\ ~Minted(k)
    BY <1>0, <1>2 DEF CreateCredential, Kept, Custody, LeaseKnown, MintedKeyKnown, Minted, Leases
  <2>2. KeyStage[k] = "free"
    BY <2>1, StageIs DEF InForce, Open
  <2>3. EngineKeys' = EngineKeys \cup {k}
    BY <1>0, <1>2 DEF CreateCredential, EngineKeys
  <2> QED BY <1>2, <2>2, <2>3 DEF CreateCredential
<1>3. ASSUME NEW k \in Keys, IssueCreate(h, k) PROVE Life!Mint(k)
  <2>1. \A j \in Keys : Minted(j)' <=> Minted(j) \/ j = k
    BY <1>0, <1>3 DEF IssueCreate, CreateCredential, Minted, Minting, Calls
  <2>2. \A j \in Keys : InForce(j)' <=> InForce(j)
    BY <1>2, <1>3 DEF IssueCreate, InForce
  <2>3. KeyStage' = [KeyStage EXCEPT ![k] = "minted"]
    BY <1>2, <1>3, <2>1, <2>2 DEF IssueCreate, KeyStage, Minted, Open
  <2> QED BY <1>2, <1>3, <2>3 DEF IssueCreate, Life!Mint
<1>4. ASSUME NEW k \in Keys, IssueCreateLost(h, k) PROVE Life!MintLost(k)
  <2>1. \A j \in Keys : Minted(j)' <=> Minted(j)
    BY <1>0, <1>4, MintedStays DEF IssueCreateLost, CreateCredential, Idle, Kept
  <2> QED BY <1>2, <1>4, <2>1, SameStages DEF IssueCreateLost, Life!MintLost
<1>5. ASSUME NEW k \in Keys, IssueRegister(h, k) PROVE Life!HandOver(k)
  <2>1. Minted(k) /\ Minting(h, k) /\ k \in EngineKeys
    BY <1>5 DEF IssueRegister, Minted, Minting, Kept, MintedKeysLive, Custody, MintedKeyKnown, EngineKeys
  <2>2. InForce(k)'
    <3>1. call[h].role \in Accepted
      BY <1>5 DEF IssueRegister, Kept, Custody, CallKnown
    <3>2. LeaseCap(call[h].role) \in 1 .. MountMax /\ call[h].role.ttl \in Nat
      BY <3>1, LeaseTerms
    <3>3. LeaseTTL(call[h].role.ttl, LeaseCap(call[h].role)) > 0
      BY <3>2, ConstantsAssumption DEF LeaseTTL, Least
    <3> QED BY <1>0, <1>5, <3>3 DEF IssueRegister, InForce
  <2>3. \A j \in Keys : Minted(j)' <=> Minted(j) /\ j # k
    <3>1. \A g \in Handlers : call'[g] = IF g = h THEN Idle ELSE call[g]
      BY <1>0, <1>5 DEF IssueRegister
    <3>2. ASSUME NEW j \in Keys, Minted(j), j # k PROVE Minted(j)'
      <4>1. PICK g \in Handlers : Minting(g, j)
        BY <3>2 DEF Minted
      <4>2. g # h
        BY <3>2, <4>1, <1>5, <2>1 DEF Kept, Custody, MintedKeyKnown, CallKnown, IssueRegister, Minting
      <4> QED BY <3>1, <4>1, <4>2 DEF Minted, Minting
    <3>3. ~Minted(k)'
      BY <2>1, <3>1 DEF Minted, Minting, Idle, Kept, Custody, MintedKeyKnown
    <3> QED BY <3>1, <3>2, <3>3 DEF Minted, Minting, Idle
  <2>4. \A j \in Keys \ {k} : lease'[j] = lease[j]
    BY <1>0, <1>5 DEF IssueRegister
  <2>5. KeyStage' = [KeyStage EXCEPT ![k] = "owed"]
    BY <2>2, <2>3, <2>4 DEF KeyStage, Minted, InForce, Open
  <2> QED BY <1>5, <2>1, <2>5, StageIs, SameKeys DEF IssueRegister, Life!HandOver
<1> QED BY <1>1, <1>3, <1>4, <1>5 DEF Issue, Life!Next

(* A deletion: the key is none that is minted or owed.                     *)
LEMMA DeletionInCustody ==
  ASSUME Custody, NEW k \in Keys, ~Minted(k), ~InForce(k), KeyKept(k) \/ KeyDeleted(k),
         \A j \in Keys \ {k} : cred'[j] = cred[j],
         \A j \in Keys : Minted(j)' <=> Minted(j), lease' = lease
  PROVE  Life!Destroy
<1>1. KeyStage' = KeyStage
  BY SameStages
<1>2. EngineKeys' \in SUBSET EngineKeys /\ \A j \in EngineKeys \ EngineKeys' : j = k
  BY DEF EngineKeys, KeyKept, KeyDeleted, Gone, NoCred
<1>3. KeyStage[k] \in {"free", "due"}
  BY StageIs
<1>4. Life!Pass("due", "free")
  BY <1>1, Passing
<1> QED BY <1>1, <1>2, <1>3, <1>4 DEF Life!Destroy

LEMMA LeaseStepsInCustody ==
  ASSUME Home, Kept, NEW k \in Keys, LeaseStep(k)
  PROVE  Life!Next \/ UNCHANGED <<EngineKeys, KeyStage>>
<1>0. /\ cred \in [Keys -> Credentials] /\ lease \in [Keys -> Leases] /\ LeaseKnown(k) /\ TypeOK
  BY DEF Kept, Custody, TypeOK
<1>1. call' = call /\ \A j \in Keys : Minted(j)' <=> Minted(j)
  BY DEF LeaseStep, Renew, Expire, RevokeRequested, Revoke, RevokeLost, GiveUp, Minted, Minting
<1>2. lease[k].state # "none" => ~Minted(k)
  BY DEF Minted, Kept, Custody, MintedKeyKnown
<1>3. ASSUME \A j \in Keys \ {k} : lease'[j] = lease[j] PROVE \A j \in Keys \ {k} : KeyStage'[j] = KeyStage[j]
  BY <1>1, <1>3 DEF KeyStage, Minted, InForce, Open
<1>4. ASSUME NEW increment \in 0 .. MountMax, Renew(k, increment) PROVE UNCHANGED <<EngineKeys, KeyStage>>
  <2>1. lease[k].cap \in 0 .. MountMax /\ lease[k].cap > 0
    BY <1>0, <1>4, ConstantsAssumption DEF Renew, InForce, LeaseKnown, Leases
  <2>2. LeaseTTL(increment, lease[k].cap) > 0
    BY <2>1, ConstantsAssumption DEF LeaseTTL, Least
  <2>3. \A j \in Keys : (InForce(j)' <=> InForce(j)) /\ lease'[j].state = lease[j].state
    BY <1>0, <1>4, <2>2 DEF Renew, InForce, Leases
  <2>4. KeyStage' = KeyStage
    BY <1>1, <2>3 DEF KeyStage, Minted, Open
  <2> QED BY <1>4, <2>4, SameKeys DEF Renew
<1>5. CASE Expire(k)
  <2>1. \A j \in Keys : /\ InForce(j)' <=> InForce(j)
                        /\ Open(j)' <=> Open(j)
    BY <1>0, <1>5, ConstantsAssumption DEF Expire, InForce, Leases, Open
  <2>2. KeyStage' = KeyStage
    BY <1>1, <2>1 DEF KeyStage, Minted
  <2> QED BY <1>5, <2>2, SameKeys DEF Expire
<1>6. CASE RevokeRequested(k)
  <2>1. KeyStage[k] = "owed" \/ KeyStage[k] = "due"
    BY <1>2, <1>6, StageIs DEF RevokeRequested, InForce, Open
  <2>2. KeyStage'[k] = "due"
    BY <1>0, <1>1, <1>2, <1>6 DEF RevokeRequested, KeyStage, Minted, InForce, Open
  <2>3. \A j \in Keys \ {k} : KeyStage'[j] = KeyStage[j]
    BY <1>0, <1>3, <1>6 DEF RevokeRequested
  <2>4. Life!Pass("owed", "due")
    BY <2>1, <2>2, <2>3, Passing
  <2> QED BY <1>6, <2>4, SameKeys DEF RevokeRequested, Life!End, Life!Next
<1>7. CASE Revoke(k)
  <2>1. KeyStage[k] = "due"
    BY <1>2, <1>7, StageIs DEF Revoke, InForce, Open
  <2>2. KeyStage'[k] = "free"
    BY <1>0, <1>1, <1>2, <1>7 DEF Revoke, KeyStage, Minted, InForce, Open, NoLease
  <2>3. \A j \in Keys \ {k} : KeyStage'[j] = KeyStage[j]
    BY <1>0, <1>3, <1>7 DEF Revoke
  <2>4. Life!Pass("due", "free")
    BY <2>1, <2>2, <2>3, Passing
  <2>5. KeyKept(k) \/ KeyDeleted(k)
    BY <1>0, <1>7, Deletion DEF Revoke
  <2>6. \A j \in Keys \ {k} : cred'[j] = cred[j]
    BY <1>0, <1>7 DEF Revoke, AfterDelete
  <2>7. EngineKeys' \in SUBSET EngineKeys /\ \A j \in EngineKeys \ EngineKeys' : j = k
    BY <2>5, <2>6 DEF EngineKeys, KeyKept, KeyDeleted, Gone, NoCred
  <2>8. k \notin EngineKeys'
    BY <1>7, RevokedKeyGone DEF EngineKeys, Kept
  <2>9. Life!Destroy
    BY <2>1, <2>3, <2>4, <2>7, <2>8, StageIs DEF Life!Destroy, EngineKeys
  <2> QED BY <2>9 DEF Life!Next
<1>8. CASE RevokeLost(k)
  <2>1. ~Minted(k) /\ ~InForce(k) /\ lease' = lease
    BY <1>2, <1>8 DEF RevokeLost, InForce
  <2>2. KeyKept(k) \/ KeyDeleted(k)
    BY <1>0, <1>8, Deletion DEF RevokeLost
  <2>3. \A j \in Keys \ {k} : cred'[j] = cred[j]
    BY <1>0, <1>8 DEF RevokeLost, AfterDelete
  <2> QED BY <1>1, <2>1, <2>2, <2>3, DeletionInCustody DEF Kept, Life!Next
<1>9. CASE GiveUp(k)
  <2>1. \A j \in Keys : (InForce(j)' <=> InForce(j)) /\ (Open(j)' <=> Open(j))
    BY <1>0, <1>9 DEF GiveUp, InForce, Open
  <2>2. KeyStage' = KeyStage
    BY <1>1, <2>1 DEF KeyStage, Minted
  <2> QED BY <1>9, <2>2, SameKeys DEF GiveUp
<1> QED BY <1>4, <1>5, <1>6, <1>7, <1>8, <1>9 DEF LeaseStep

LEMMA SweepsInCustody ==
  ASSUME SafeSweeps, Kept, NEW h \in Handlers, Sweep(h)
  PROVE  Life!Next \/ UNCHANGED <<EngineKeys, KeyStage>>
<1>0. call \in [Handlers -> Calls] /\ cred \in [Keys -> Credentials] /\ TypeOK /\ Custody
  BY DEF Kept, Custody, TypeOK
<1>1. call[h].pc # "register" /\ call'[h].pc # "register" /\ \A g \in Handlers \ {h} : call'[g] = call[g]
  <2>1. CASE \E k \in Keys : SweepDelete(h, k)
    BY <1>0, <2>1 DEF SweepDelete, NextToSweep, Calls
  <2>2. CASE \E k \in Keys : SweepDeleteLost(h, k)
    BY <1>0, <2>2 DEF SweepDeleteLost, NextToSweep, Idle
  <2>3. CASE \E r \in Roles, a \in Ages : SweepBegin(h, r, a)
    BY <1>0, <2>3 DEF SweepBegin, Idle
  <2>4. CASE SweepList(h)
    BY <1>0, <2>4 DEF SweepList, Calls
  <2>5. CASE SweepFilter(h)
    BY <1>0, <2>5 DEF SweepFilter, Calls
  <2>6. CASE SweepDone(h)
    BY <1>0, <2>6 DEF SweepDone, Idle
  <2> QED BY <2>1, <2>2, <2>3, <2>4, <2>5, <2>6 DEF Sweep
<1>2. \A k \in Keys : Minted(k)' <=> Minted(k)
  BY <1>0, <1>1, MintedStays
<1>3. ASSUME NEW k \in Keys, SweepDelete(h, k) \/ SweepDeleteLost(h, k) PROVE Life!Destroy
  <2>1. cred' = AfterDelete(k, call[h].via, call[h].role.user) /\ lease' = lease
    BY <1>3 DEF SweepDelete, SweepDeleteLost
  <2>2. KeyKept(k) \/ KeyDeleted(k)
    BY <1>0, <2>1, Deletion
  <2>3. \A j \in Keys \ {k} : cred'[j] = cred[j]
    BY <1>0, <2>1 DEF AfterDelete
  <2>4. ~Minted(k) /\ ~InForce(k)
    <3>1. CASE cred[k].state = "live"
      <4>1. cred[k].user = call[h].role.user /\ call[h].role \in Accepted
        BY <1>0, <1>3, <3>1 DEF SweepDelete, SweepDeleteLost, NextToSweep, Custody, SweptKeyKnown, CallKnown, Sweeping
      <4> QED BY <1>0, <1>3, <3>1, <4>1, SweptKeysExpired DEF Minted
    <3>2. CASE cred[k].state # "live"
      BY <3>2 DEF Minted, Kept, MintedKeysLive, LeasedKeyWorks
    <3> QED BY <3>1, <3>2
  <2> QED BY <1>0, <1>2, <2>1, <2>2, <2>3, <2>4, DeletionInCustody
<1>4. CASE lease' = lease /\ cred' = cred
  BY <1>2, <1>4, SameStages, SameKeys
<1> QED BY <1>3, <1>4 DEF Sweep, SweepBegin, SweepList, SweepFilter, SweepDone, Life!Next

LEMMA ClockInCustody == ASSUME Kept, Tick PROVE Life!End
<1>0. cred \in [Keys -> Credentials] /\ lease \in [Keys -> Leases] /\ \A k \in Keys : LeaseKnown(k)
  BY DEF Kept, Custody, TypeOK
<1>1. \A k \in Keys : Minted(k)' <=> Minted(k)
  BY DEF Tick, Minted, Minting
<1>2. EngineKeys' = EngineKeys
  BY <1>0 DEF Tick, EngineKeys, Credentials
<1>3. ASSUME NEW k \in Keys
      PROVE  KeyStage'[k] = KeyStage[k] \/ (KeyStage[k] = "owed" /\ KeyStage'[k] = "due")
  <2>1. lease'[k].state = lease[k].state /\ (InForce(k)' => InForce(k))
    BY <1>0 DEF Tick, InForce, Leases
  <2>2. (InForce(k) => Open(k)) /\ (Open(k)' <=> Open(k))
    BY <2>1 DEF InForce, Open
  <2>3. KeyStage[k] = IF Minted(k) THEN "minted" ELSE IF InForce(k) THEN "owed"
                      ELSE IF Open(k) THEN "due" ELSE "free"
    BY StageIs
  <2>4. KeyStage'[k] = IF Minted(k)' THEN "minted" ELSE IF InForce(k)' THEN "owed"
                       ELSE IF Open(k)' THEN "due" ELSE "free"
    BY DEF KeyStage, Minted
  <2> QED BY <1>1, <2>1, <2>2, <2>3, <2>4
<1>4. Life!Pass("owed", "due")
  BY <1>3, Passing
<1> QED BY <1>2, <1>4 DEF Life!End

LEMMA AbortInCustody == ASSUME Kept, NEW h \in Handlers, Abort(h) PROVE Life!GiveUp
<1>1. \A g \in Handlers : call'[g] = IF g = h THEN Idle ELSE call[g]
  BY DEF Abort, Kept, Custody, TypeOK
<1>2. ASSUME NEW k \in Keys
      PROVE  KeyStage'[k] = KeyStage[k] \/ (KeyStage[k] = "minted" /\ KeyStage'[k] = "free")
  <2>1. CASE Minted(k)' <=> Minted(k)
    BY <2>1 DEF KeyStage, Minted, Abort, InForce, Open
  <2>2. CASE ~(Minted(k)' <=> Minted(k))
    <3>1. Minted(k) /\ ~Minted(k)'
      BY <1>1, <2>2 DEF Minted, Minting, Idle
    <3>2. lease'[k].state = "none"
      BY <3>1 DEF Abort, Minted, Kept, Custody, MintedKeyKnown
    <3>3. KeyStage'[k] = "free"
      BY <3>1, <3>2 DEF KeyStage, Minted, InForce, Open
    <3> QED BY <3>1, <3>3, StageIs
  <2> QED BY <2>1, <2>2
<1>3. Life!Pass("minted", "free")
  BY <1>2, Passing
<1> QED BY <1>3, SameKeys DEF Abort, Life!GiveUp

LEMMA AdministrationInCustody ==
  ASSUME Kept, Administer PROVE UNCHANGED <<EngineKeys, KeyStage>>
<1>1. \A k \in Keys : Minted(k)' <=> Minted(k)
  BY DEF Administer, ConfigWrite, ConfigDelete, RolesWrite, RolesDelete, OthersCreate, Minted, Minting
<1>2. lease' = lease
  BY DEF Administer, ConfigWrite, ConfigDelete, RolesWrite, RolesDelete, OthersCreate
<1>3. EngineKeys' = EngineKeys
  <2>1. ASSUME NEW k \in Keys, NEW u \in Users, NEW name \in Foreign, OthersCreate(k, u, name)
        PROVE  EngineKeys' = EngineKeys
    BY <2>1 DEF OthersCreate, EngineKeys, Kept, Custody, TypeOK
  <2> QED BY <2>1, SameKeys DEF Administer, ConfigWrite, ConfigDelete, RolesWrite, RolesDelete
<1> QED BY <1>1, <1>2, <1>3, SameStages

(* Issuing, renewal, expiry, revocation and sweeps together keep what      *)
(* KeyCustody promises: a key is owed only once it works, no step deletes  *)
(* one on its way to its lease or under it, and one that is due is not     *)
(* forgotten until it no longer works.  Sweeps have to spare the longest   *)
(* lease and the latency, and the engine to move to another account only   *)
(* when it has nothing open in the first.                                  *)
THEOREM LeasesKeepCustody == ASSUME SafeSweeps PROVE Spec /\ [][MovesCleanly]_vars => KeysInCustody
<1>1. Init => Kept
  BY CustodyInit DEF Init, Kept, MintedKeysLive, LeasedKeyWorks, Minting, InForce, Idle, NoLease
<1>2. Kept /\ [Next]_vars => Kept'
  BY KeptStep
<1>3. Init => Home
  BY HomeInit
<1>4. Kept /\ Home /\ [Next]_vars /\ [MovesCleanly]_vars => Home'
  BY HomeStep DEF Kept
<1>5. Init => Life!Init
  BY DEF Init, Life!Init, EngineKeys, KeyStage, Minting, InForce, Open, Idle, NoLease, NoCred
<1>6. Kept /\ Home /\ [Next]_vars => [Life!Next]_(Life!vars)
  <2> SUFFICES ASSUME Kept, Home, [Next]_vars
               PROVE  Life!Next \/ UNCHANGED <<EngineKeys, KeyStage>>
    BY DEF Life!vars
  <2>1. CASE UNCHANGED vars
    BY <2>1, SameKeys, SameStages DEF vars, Minted, Minting
  <2> QED BY <2>1, IssuesInCustody, LeaseStepsInCustody, SweepsInCustody, ClockInCustody,
             AbortInCustody, AdministrationInCustody DEF Next, Life!Next
<1> QED BY <1>1, <1>2, <1>3, <1>4, <1>5, <1>6, PTL DEF Spec, Life!Spec, KeysInCustody

(* Only a lost answer, a request that ends with the key in hand, or Vault  *)
(* giving up on a revocation makes an orphan: revocation answers for the   *)
(* key it deletes, as long as the engine moves to another account only     *)
(* with nothing open in the first.                                         *)
THEOREM OrphansComeOfFailure == Spec /\ [][MovesCleanly]_vars => OrphansOnlyByFailure
<1> DEFINE ByFailure == \A k \in Keys : Orphan(k)' /\ ~Orphan(k) =>
             \/ GiveUp(k)
             \/ \E h \in Handlers : IssueCreateLost(h, k) \/ (Minting(h, k) /\ Abort(h))
<1>1. Init => Custody /\ Home
  BY CustodyInit, HomeInit
<1>2. Custody /\ Home /\ [Next]_vars /\ [MovesCleanly]_vars => Custody' /\ Home'
  BY CustodyStep, HomeStep
<1>3. ASSUME Custody, Home, [Next]_vars PROVE ByFailure
  <2> SUFFICES ASSUME NEW k \in Keys, Orphan(k)', ~Orphan(k), ~GiveUp(k)
               PROVE  \E h \in Handlers : IssueCreateLost(h, k) \/ (Minting(h, k) /\ Abort(h))
    OBVIOUS
  <2>0. /\ cred \in [Keys -> Credentials] /\ lease \in [Keys -> Leases] /\ call \in [Handlers -> Calls]
        /\ cred'[k].state = "live" /\ cred'[k].made = "engine"
        /\ lease'[k].state \notin {"live", "revoking"} /\ ~Minted(k)'
    BY <1>3 DEF Orphan, Minted, Custody, TypeOK
  <2>1. CASE UNCHANGED <<cred, lease, call>>
    BY <2>1 DEF Orphan, Minting
  <2>2. ASSUME NEW h \in Handlers, Issue(h) PROVE IssueCreateLost(h, k)
    <3>1. ASSUME NEW r \in Roles, IssueBegin(h, r) PROVE FALSE
      BY <2>0, <3>1 DEF IssueBegin, Orphan, Minting, Minted
    <3>2. ASSUME NEW j \in Keys, IssueCreate(h, j) PROVE FALSE
      <4>1. j # k
        BY <2>0, <3>2 DEF IssueCreate, CreateCredential, Minted, Minting, Calls
      <4> QED BY <2>0, <3>2, <4>1 DEF IssueCreate, CreateCredential, Orphan, Minting, Minted
    <3>3. ASSUME NEW j \in Keys, IssueCreateLost(h, j), j # k PROVE FALSE
      BY <2>0, <3>3 DEF IssueCreateLost, CreateCredential, Orphan, Minting, Minted
    <3>4. ASSUME NEW j \in Keys, IssueRegister(h, j) PROVE FALSE
      <4>1. j # k
        BY <2>0, <3>4 DEF IssueRegister
      <4>2. ~Minting(h, k)
        BY <1>3, <3>4, <4>1 DEF IssueRegister, Minting, Custody, MintedKeyKnown
      <4>3. \A g \in Handlers : ~Minting(g, k)
        BY <2>0, <3>4, <4>2 DEF IssueRegister, Minting, Minted
      <4> QED BY <2>0, <3>4, <4>1, <4>3 DEF IssueRegister, Orphan
    <3> QED BY <2>2, <3>1, <3>2, <3>3, <3>4 DEF Issue
  <2>3. ASSUME NEW j \in Keys, LeaseStep(j) PROVE FALSE
    <3>1. \A g \in Handlers : Minting(g, k)' <=> Minting(g, k)
      BY <2>3 DEF LeaseStep, Renew, Expire, RevokeRequested, Revoke, RevokeLost, GiveUp, Minting
    <3>2. cred[k].state = "live" /\ cred[k].made = "engine"
      BY <1>3, <2>0, <2>3, Deletion
         DEF LeaseStep, Renew, Expire, RevokeRequested, Revoke, RevokeLost, GiveUp, KeyKept, KeyDeleted,
             Gone, NoCred, Custody
    <3>3. lease[k].state \in {"live", "revoking"}
      BY <2>0, <3>1, <3>2 DEF Orphan, Minted
    <3>4. Revoke(k)
      BY <2>0, <2>3, <3>3 DEF LeaseStep, Renew, Expire, RevokeRequested, Revoke, RevokeLost, GiveUp, Leases
    <3> QED BY <1>3, <2>0, <3>4, RevokedKeyGone
  <2>4. ASSUME NEW h \in Handlers, Sweep(h) PROVE FALSE
    <3>1. call[h].pc # "register" /\ lease' = lease /\ \A g \in Handlers \ {h} : call'[g] = call[g]
      BY <2>0, <2>4 DEF Sweep, SweepBegin, SweepList, SweepFilter, SweepDone, SweepDelete, SweepDeleteLost,
         NextToSweep
    <3>2. \A g \in Handlers : ~Minting(g, k)
      BY <2>0, <3>1 DEF Minted, Minting
    <3>3. KeyKept(k) \/ KeyDeleted(k)
      <4>1. CASE cred' = cred
        BY <4>1 DEF KeyKept
      <4>2. ASSUME NEW j \in Keys, SweepDelete(h, j) \/ SweepDeleteLost(h, j)
            PROVE  KeyKept(k) \/ KeyDeleted(k)
        BY <1>3, <4>2, Deletion DEF SweepDelete, SweepDeleteLost, Custody
      <4> QED BY <2>4, <4>1, <4>2 DEF Sweep, SweepBegin, SweepList, SweepFilter, SweepDone
    <3>4. cred[k].state = "live" /\ cred[k].made = "engine"
      BY <2>0, <3>3 DEF KeyKept, KeyDeleted, Gone, NoCred
    <3> QED BY <2>0, <3>1, <3>2, <3>4 DEF Orphan
  <2>5. ASSUME NEW h \in Handlers, Abort(h) PROVE Minting(h, k)
    BY <2>0, <2>5 DEF Abort, Orphan, Minting, Minted
  <2>6. ~Tick
    <3>1. ASSUME Tick PROVE FALSE
      <4>1. cred[k].state = "live" /\ cred[k].made = "engine" /\ lease[k].state = lease'[k].state
        BY <2>0, <3>1 DEF Tick, Credentials, Leases
      <4> QED BY <2>0, <3>1, <4>1 DEF Tick, Orphan, Minting, Minted
    <3> QED BY <3>1
  <2>7. ~Administer
    <3>1. ASSUME NEW j \in Keys, NEW u \in Users, NEW name \in Foreign, OthersCreate(j, u, name)
          PROVE  FALSE
      BY <2>0, <3>1 DEF OthersCreate, Orphan, Minting, Minted
    <3> QED BY <2>1, <3>1 DEF Administer, ConfigWrite, ConfigDelete, RolesWrite, RolesDelete, Orphan, Minting
  <2> QED BY <1>3, <2>1, <2>2, <2>3, <2>4, <2>5, <2>6, <2>7 DEF Next, vars
<1>4. Custody /\ Home /\ [Next]_vars => [ByFailure]_vars
  BY <1>3
<1> QED BY <1>1, <1>2, <1>4, PTL DEF Spec, OrphansOnlyByFailure

=============================================================================
