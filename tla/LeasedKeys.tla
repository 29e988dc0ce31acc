----------------------------- MODULE LeasedKeys -----------------------------
(***************************************************************************)
(* The life of a dynamic S3 key: a read of creds/<role> mints it in        *)
(* Selectel, Vault registers a lease for it, the lease is renewed, expires *)
(* or is revoked, and a sweep removes what no lease can own any more.      *)
(*                                                                         *)
(* Requests run concurrently.  A handler is split where it calls Selectel  *)
(* or waits for Vault, so another request, a change of the role, a change  *)
(* of the configuration or the clock can come in between; what it read     *)
(* before the call it keeps in call[h].                                    *)
(*                                                                         *)
(* Roles here are bound to an existing service user and manage no bucket   *)
(* (service_user_id given, bucket omitted), so provisioning and            *)
(* deprovisioning make no call to Selectel for them.                       *)
(***************************************************************************)
EXTENDS Integers, FiniteSets

CONSTANTS
  Keys,           \* access keys Selectel may hand out, never the same twice
  Rank,           \* where a key comes in Selectel's list; equal ranks in any order
  Undeletable,    \* keys Selectel refuses to delete whenever it is asked
  Users,          \* service users that exist before the engine
  Accounts,       \* Selectel accounts the configuration may name
  AccountOf,      \* the account each service user lives in
  Roles,          \* names of dynamic roles
  Foreign,        \* what the names of keys of other origin may tell a sweep
  StaticLooking,  \* the names among them that begin with "static-"
  RoleSettings,   \* what an operator may write to a role
  Ages,           \* older_than of a sweep; 0 when the request leaves it out
  Handlers,       \* requests the plugin serves at one time
  MountTTL,       \* default_lease_ttl of the mount
  MountMax,       \* max_lease_ttl of the mount
  Latency,        \* most clock ticks from naming a key to its lease
  AgeCap,         \* bound: the age of a key is counted up to here
  Faults,         \* of {"abort", "lost"}: what may go wrong with a call
  NoUser, NoAccount, NoRole

ASSUME ConstantsAssumption ==
  /\ Rank \in [Keys -> Nat] /\ Undeletable \subseteq Keys
  /\ AccountOf \in [Users -> Accounts]
  /\ StaticLooking \subseteq Roles
  /\ Foreign \subseteq {"lease"} \X (0 .. AgeCap) \cup {"static", "foreign"} \X {0}
  /\ RoleSettings \subseteq [user : Users, ttl : Nat, max : Nat]
  /\ Ages \subseteq Nat
  /\ MountTTL \in Nat \ {0} /\ MountMax \in Nat \ {0}
  /\ Latency \in Nat /\ AgeCap \in Nat
  /\ Faults \subseteq {"abort", "lost"}

ASSUME AbsentAssumption ==
  NoUser \notin Users /\ NoAccount \notin Accounts /\ NoRole \notin RoleSettings

VARIABLES
  account,  \* account the stored configuration names, NoAccount without one
  role,     \* stored roles
  cred,     \* what Selectel knows of each key
  lease,    \* Vault's lease for each key
  call      \* what each handler is doing, with the values it read before

vars == <<account, role, cred, lease, call>>

Least(m, n) == IF m <= n THEN m ELSE n

(***************************************************************************)
(* State.  cred[k].made says who had the key made, cred[k].looks what its  *)
(* name tells a sweep (see NameOf).                                        *)
(***************************************************************************)
Credentials ==
  [state : {"none", "live", "gone"}, user : Users \cup {NoUser}, age : 0 .. AgeCap,
   made : {"nobody", "engine", "others"}, looks : {"lease", "static", "foreign"}]

NoCred == [state |-> "none", user |-> NoUser, age |-> 0,
           made |-> "nobody", looks |-> "foreign"]
Gone == [NoCred EXCEPT !.state = "gone"]

(* A lease that is "stuck" is one Vault no longer tries to revoke.         *)
Leases == [state : {"none", "live", "revoking", "stuck", "ended"}, user : Users \cup {NoUser},
           left : 0 .. MountMax, cap : 0 .. MountMax]

NoLease == [state |-> "none", user |-> NoUser, left |-> 0, cap |-> 0]

(* A role may not promise a ttl beyond its max_ttl; 0 leaves either to the *)
(* mount.                                                                  *)
Accepted == {s \in RoleSettings : s.max # 0 => s.ttl <= s.max}

Calls ==
  [pc : {"idle", "create", "register", "list", "filter", "delete"},
   role : Accepted \cup {NoRole}, looks : {"lease", "static", "foreign"},
   via : Accounts \cup {NoAccount}, keys : SUBSET Keys, cut : Nat]

Idle == [pc |-> "idle", role |-> NoRole, looks |-> "foreign", via |-> NoAccount,
         keys |-> {}, cut |-> 0]

TypeOK ==
  /\ account \in Accounts \cup {NoAccount}
  /\ role \in [Roles -> Accepted \cup {NoRole}]
  /\ cred \in [Keys -> Credentials]
  /\ lease \in [Keys -> Leases]
  /\ call \in [Handlers -> Calls]

Init ==
  /\ account = NoAccount
  /\ role = [r \in Roles |-> NoRole]
  /\ cred = [k \in Keys |-> NoCred]
  /\ lease = [k \in Keys |-> NoLease]
  /\ call = [h \in Handlers |-> Idle]

-----------------------------------------------------------------------------
(***************************************************************************)
(* Operators.                                                              *)
(***************************************************************************)

(* A key is named vault-<role>-<nanoseconds>.  mintedAt reads the mint     *)
(* time back from such a name, and passes over every name that begins with *)
(* vault-static-, which is also what a role called static-... produces.    *)
NameOf(r) == IF r \in StaticLooking THEN "static" ELSE "lease"

MintedAtAnyVaultName(c) == c.looks \in {"lease", "static"}

MintedAt(c) == c.looks = "lease"

(* Vault clamps the ttl and the max_ttl of a response to the mount's.      *)
LeaseCap(s) == IF s.max = 0 THEN MountMax ELSE Least(s.max, MountMax)

LeaseTTL(ttl, cap) == Least(IF ttl = 0 THEN MountTTL ELSE ttl, cap)

SweepAgeGiven(a, s) == a

(* older_than of the request, or else the role's max_ttl.                  *)
SweepAge(a, s) == IF a = 0 THEN s.max ELSE a

(* A service user answers only through the account it lives in; through    *)
(* another one every call about it comes back 404.                         *)
Reaches(a, u) == u \in Users /\ AccountOf[u] = a

-----------------------------------------------------------------------------
(***************************************************************************)
(* Configuration and roles.                                                *)
(***************************************************************************)

(* Storing the configuration and dropping the cached client is one step:   *)
(* a request that obtains its client in between gets the old one, or the   *)
(* new one if none was cached, as if it came just before or just after.    *)
ConfigWrite(a) ==
  /\ account' = a
  /\ UNCHANGED <<role, cred, lease, call>>

ConfigDelete ==
  /\ account' = NoAccount
  /\ UNCHANGED <<role, cred, lease, call>>

RolesWriteUnchecked(r, s) ==
  /\ account # NoAccount
  /\ role' = [role EXCEPT ![r] = s]
  /\ UNCHANGED <<account, cred, lease, call>>

RolesWrite(r, s) ==
  /\ account # NoAccount
  /\ s \in Accepted
  /\ role' = [role EXCEPT ![r] = s]
  /\ UNCHANGED <<account, cred, lease, call>>

RolesDelete(r) ==
  /\ role[r] # NoRole
  /\ role' = [role EXCEPT ![r] = NoRole]
  /\ UNCHANGED <<account, cred, lease, call>>

-----------------------------------------------------------------------------
(***************************************************************************)
(* creds/<role>: read the role, create the key, answer with a lease.       *)
(***************************************************************************)

IssueBegin(h, r) ==
  /\ call[h].pc = "idle"
  /\ role[r] # NoRole
  /\ account # NoAccount
  /\ call' = [call EXCEPT ![h] = [Idle EXCEPT !.pc = "create", !.role = role[r],
                                              !.looks = NameOf(r), !.via = account]]
  /\ UNCHANGED <<account, role, cred, lease>>

(* Selectel creates the key; it counts the age of a key from its name,     *)
(* taken just before.                                                      *)
CreateCredential(h, k) ==
  /\ call[h].pc = "create"
  /\ Reaches(call[h].via, call[h].role.user)
  /\ cred[k].state = "none"
  /\ cred' = [cred EXCEPT ![k] = [state |-> "live", user |-> call[h].role.user, age |-> 0,
                                  made |-> "engine", looks |-> call[h].looks]]
  /\ UNCHANGED <<account, role, lease>>

IssueCreate(h, k) ==
  /\ CreateCredential(h, k)
  /\ call' = [call EXCEPT ![h] = [@ EXCEPT !.pc = "register", !.keys = {k}]]

(* The key exists, but the answer that carries it never arrives.           *)
IssueCreateLost(h, k) ==
  /\ "lost" \in Faults
  /\ CreateCredential(h, k)
  /\ call' = [call EXCEPT ![h] = Idle]

IssueRegister(h, k) ==
  /\ call[h].pc = "register" /\ k \in call[h].keys
  /\ lease' = [lease EXCEPT ![k] =
       LET cap == LeaseCap(call[h].role)
       IN  [state |-> "live", user |-> call[h].role.user,
            left |-> LeaseTTL(call[h].role.ttl, cap), cap |-> cap]]
  /\ call' = [call EXCEPT ![h] = Idle]
  /\ UNCHANGED <<account, role, cred>>

-----------------------------------------------------------------------------
(***************************************************************************)
(* The lease: renewal, expiry, revocation.                                 *)
(***************************************************************************)

InForce(k) == lease[k].state = "live" /\ lease[k].left > 0

(* The engine grants the increment the caller asked for, 0 if none; Vault  *)
(* turns 0 into its default and keeps the result below the lease's end.    *)
RenewUnclamped(k, increment) ==
  /\ InForce(k)
  /\ lease' = [lease EXCEPT ![k].left = LeaseTTL(increment, MountMax), ![k].cap = MountMax]
  /\ UNCHANGED <<account, role, cred, call>>

Renew(k, increment) ==
  /\ InForce(k)
  /\ lease' = [lease EXCEPT ![k].left = LeaseTTL(increment, lease[k].cap)]
  /\ UNCHANGED <<account, role, cred, call>>

Expire(k) ==
  /\ lease[k].state = "live" /\ lease[k].left = 0
  /\ lease' = [lease EXCEPT ![k].state = "revoking"]
  /\ UNCHANGED <<account, role, cred, call>>

(* Somebody revokes the lease, or has one that is stuck tried again.       *)
RevokeRequested(k) ==
  /\ InForce(k) \/ lease[k].state = "stuck"
  /\ lease' = [lease EXCEPT ![k].state = "revoking"]
  /\ UNCHANGED <<account, role, cred, call>>

(* deleteCredential of the key the lease remembers: a key that is not      *)
(* there, or whose user is not, is as good as deleted.                     *)
AfterDelete(k, via, user) ==
  IF cred[k].state = "live" /\ cred[k].user = user /\ Reaches(via, user)
  THEN [cred EXCEPT ![k] = Gone] ELSE cred

RevokeSwallowed(k) ==
  /\ lease[k].state = "revoking"
  /\ account # NoAccount
  /\ cred' \in {cred, AfterDelete(k, account, lease[k].user)}
  /\ lease' = [lease EXCEPT ![k] = [NoLease EXCEPT !.state = "ended"]]
  /\ UNCHANGED <<account, role, call>>

RevokeUnconfigured(k) ==
  /\ lease[k].state = "revoking"
  /\ cred' = AfterDelete(k, account, lease[k].user)
  /\ lease' = [lease EXCEPT ![k] = [NoLease EXCEPT !.state = "ended"]]
  /\ UNCHANGED <<account, role, call>>

RevokeAsRole(k) ==
  \E r \in Roles :
    /\ lease[k].state = "revoking" /\ k \notin Undeletable
    /\ account # NoAccount /\ role[r] # NoRole
    /\ cred' = AfterDelete(k, account, role[r].user)
    /\ lease' = [lease EXCEPT ![k] = [NoLease EXCEPT !.state = "ended"]]
    /\ UNCHANGED <<account, role, call>>

Revoke(k) ==
  /\ lease[k].state = "revoking" /\ k \notin Undeletable
  /\ account # NoAccount
  /\ cred' = AfterDelete(k, account, lease[k].user)
  /\ lease' = [lease EXCEPT ![k] = [NoLease EXCEPT !.state = "ended"]]
  /\ UNCHANGED <<account, role, call>>

(* The key is deleted, the answer is lost: Vault keeps the lease and will  *)
(* try again.  A call that fails without effect changes nothing.           *)
RevokeLost(k) ==
  /\ "lost" \in Faults
  /\ lease[k].state = "revoking" /\ k \notin Undeletable
  /\ account # NoAccount
  /\ cred' = AfterDelete(k, account, lease[k].user)
  /\ UNCHANGED <<account, role, lease, call>>

(* Revocation fails as often as Vault tries, or without a configuration:   *)
(* Vault leaves the lease at that.                                         *)
GiveUp(k) ==
  /\ lease[k].state = "revoking"
  /\ Faults # {} \/ account = NoAccount \/ k \in Undeletable
  /\ lease' = [lease EXCEPT ![k].state = "stuck"]
  /\ UNCHANGED <<account, role, cred, call>>

-----------------------------------------------------------------------------
(***************************************************************************)
(* sweep/<role> with delete=true.  Without it a sweep changes nothing.     *)
(***************************************************************************)

SweepBegin(h, r, a) ==
  /\ call[h].pc = "idle"
  /\ role[r] # NoRole
  /\ account # NoAccount
  /\ SweepAge(a, role[r]) > 0
  /\ call' = [call EXCEPT ![h] = [Idle EXCEPT !.pc = "list", !.role = role[r],
                                  !.via = account, !.cut = SweepAge(a, role[r])]]
  /\ UNCHANGED <<account, role, cred, lease>>

SweepList(h) ==
  /\ call[h].pc = "list"
  /\ Reaches(call[h].via, call[h].role.user)
  /\ call' = [call EXCEPT ![h] = [@ EXCEPT !.pc = "filter", !.keys =
       {k \in Keys : cred[k].state = "live" /\ cred[k].user = call[h].role.user}]]
  /\ UNCHANGED <<account, role, cred, lease>>

StaleEarly(h, k) == MintedAt(cred[k]) /\ cred[k].age + 1 >= call[h].cut

(* Keys minted after the cutoff, now minus the age, are left alone.        *)
Stale(h, k) == MintedAt(cred[k]) /\ cred[k].age >= call[h].cut

SweepFilter(h) ==
  /\ call[h].pc = "filter"
  /\ call' = [call EXCEPT ![h] = [@ EXCEPT !.pc = "delete", !.keys =
       {k \in call[h].keys : Stale(h, k)}]]
  /\ UNCHANGED <<account, role, cred, lease>>

(* The loop takes the keys in the order of the list.                       *)
NextToSweep(h, k) ==
  /\ call[h].pc = "delete" /\ k \in call[h].keys
  /\ \A j \in call[h].keys : Rank[k] <= Rank[j]

SweepDelete(h, k) ==
  /\ NextToSweep(h, k) /\ k \notin Undeletable
  /\ cred' = AfterDelete(k, call[h].via, call[h].role.user)
  /\ call' = [call EXCEPT ![h].keys = @ \ {k}]
  /\ UNCHANGED <<account, role, lease>>

(* An answer that says failure ends the sweep, deleted or not.             *)
SweepDeleteLost(h, k) ==
  /\ "lost" \in Faults
  /\ NextToSweep(h, k) /\ k \notin Undeletable
  /\ cred' = AfterDelete(k, call[h].via, call[h].role.user)
  /\ call' = [call EXCEPT ![h] = Idle]
  /\ UNCHANGED <<account, role, lease>>

SweepDone(h) ==
  /\ call[h].pc = "delete" /\ call[h].keys = {}
  /\ call' = [call EXCEPT ![h] = Idle]
  /\ UNCHANGED <<account, role, cred, lease>>

-----------------------------------------------------------------------------
(***************************************************************************)
(* Failure, the rest of the world, and the clock.                          *)
(***************************************************************************)

(* A call is refused, or the plugin dies under its requests: the request   *)
(* ends, a sweep at the first key it cannot delete.  Through the wrong     *)
(* account creating and listing are always refused.                        *)
Abort(h) ==
  /\ call[h].pc # "idle"
  /\ \/ "abort" \in Faults
     \/ \E k \in Undeletable : NextToSweep(h, k)
     \/ call[h].pc \in {"create", "list"} /\ ~Reaches(call[h].via, call[h].role.user)
  /\ call' = [call EXCEPT ![h] = Idle]
  /\ UNCHANGED <<account, role, cred, lease>>

(* A key of another origin on the same user: held by a static role, or     *)
(* made by hand under any name.  One named vault-backup-2024 looks like a  *)
(* lease's, minted when its number says.                                   *)
OthersCreate(k, u, name) ==
  /\ cred[k].state = "none"
  /\ cred' = [cred EXCEPT ![k] = [state |-> "live", user |-> u, age |-> name[2],
                                  made |-> "others", looks |-> name[1]]]
  /\ UNCHANGED <<account, role, lease, call>>

(* Time does not pass a request that has used up its latency.              *)
Tick ==
  /\ \A h \in Handlers : call[h].pc = "register" =>
       \A k \in call[h].keys : cred[k].age < Latency
  /\ cred' = [k \in Keys |-> IF cred[k].state = "live"
                THEN [cred[k] EXCEPT !.age = Least(@ + 1, AgeCap)] ELSE cred[k]]
  /\ lease' = [k \in Keys |-> IF InForce(k)
                 THEN [lease[k] EXCEPT !.left = @ - 1, !.cap = @ - 1] ELSE lease[k]]
  /\ UNCHANGED <<account, role, call>>

Issue(h) ==
  \/ \E r \in Roles : IssueBegin(h, r)
  \/ \E k \in Keys : IssueCreate(h, k) \/ IssueCreateLost(h, k) \/ IssueRegister(h, k)

LeaseStep(k) ==
  \/ \E increment \in 0 .. MountMax : Renew(k, increment)
  \/ Expire(k) \/ RevokeRequested(k) \/ Revoke(k) \/ RevokeLost(k) \/ GiveUp(k)

Sweep(h) ==
  \/ \E r \in Roles, a \in Ages : SweepBegin(h, r, a)
  \/ SweepList(h) \/ SweepFilter(h) \/ SweepDone(h)
  \/ \E k \in Keys : SweepDelete(h, k) \/ SweepDeleteLost(h, k)

Administer ==
  \/ \E a \in Accounts : ConfigWrite(a)
  \/ ConfigDelete
  \/ \E r \in Roles, s \in RoleSettings : RolesWrite(r, s)
  \/ \E r \in Roles : RolesDelete(r)
  \/ \E k \in Keys, u \in Users, name \in Foreign : OthersCreate(k, u, name)

Next ==
  \/ Administer
  \/ \E h \in Handlers : Issue(h) \/ Sweep(h) \/ Abort(h)
  \/ \E k \in Keys : LeaseStep(k)
  \/ Tick

Spec == Init /\ [][Next]_vars

Minting(h, k) == call[h].pc = "register" /\ k \in call[h].keys

(* Vault has a lease for the key.                                          *)
Open(k) == lease[k].state \in {"live", "revoking", "stuck"}

(* What the engine has open is in this account: keys of leases that have   *)
(* not ended, and keys a request has in hand or is about to mint.          *)
OpenOnlyIn(a) ==
  /\ \A k \in Keys : Open(k) /\ cred[k].state = "live" => Reaches(a, lease[k].user)
  /\ \A h \in Handlers :
       call[h].pc \in {"create", "register"} /\ Reaches(call[h].via, call[h].role.user) =>
         call[h].via = a

(* The operator points the configuration at an account only when nothing   *)
(* is open in another.  The code does not look.                            *)
MovesCleanly == account' \notin {account, NoAccount} => OpenOnlyIn(account')

CleanSpec == Init /\ [][Next /\ MovesCleanly]_vars

(***************************************************************************)
(* Vault's expiration manager ends every lease and tries to revoke it or,  *)
(* after a while, gives up; the operator runs a sweep again and again, and *)
(* its calls do not fail every time, except those for an undeletable key.  *)
(* None of this keeps the answer to a creation from being lost.            *)
(***************************************************************************)
Fairness ==
  /\ WF_vars(Tick)
  /\ \A k \in Keys : WF_vars(Expire(k)) /\ WF_vars(Revoke(k) \/ GiveUp(k))
  /\ \A h \in Handlers :
       /\ WF_vars(SweepDone(h) \/ Abort(h) \/ \E k \in Keys : IssueRegister(h, k))
       /\ \A r \in Roles, a \in Ages : SF_vars(SweepBegin(h, r, a))
       /\ SF_vars(SweepList(h)) /\ SF_vars(SweepFilter(h))
       /\ \A k \in Keys : SF_vars(SweepDelete(h, k))

FairSpec == CleanSpec /\ Fairness

-----------------------------------------------------------------------------
(***************************************************************************)
(* Properties.                                                             *)
(***************************************************************************)

(* While a lease is in force its key works: no sweep, revocation of        *)
(* another lease, role change or retry takes it away.  (path_sweep.go:     *)
(* "Keys younger than that may still be in use and are never touched".)    *)
LeasedKeyWorks == \A k \in Keys : InForce(k) => cred[k].state = "live"

(* A lease that has ended leaves no key behind: revocation reports success *)
(* only once the key is gone, a lost answer is retried, a second delete of *)
(* the same key does no harm, and the role may have moved to another user  *)
(* meanwhile (path_creds.go, credentialRevoke).                            *)
EndedLeaseLeavesNoKey ==
  \A k \in Keys : lease[k].state = "ended" => cred[k].state = "gone"

(* A key on a service user stops working for one of two reasons: Vault     *)
(* revokes the lease it was minted for, or a sweep of a role with that     *)
(* very user asked for keys of its age, and its name says that it was      *)
(* minted that long ago.  A key held by a static role, or made by hand     *)
(* under a name without a mint time, never does, whatever happens between  *)
(* the list and the deletion (path_sweep.go: "keys this engine did not     *)
(* mint are left alone").                                                  *)
KeysDeletedForCause ==
  [][\A k \in Keys : cred[k].state = "live" /\ cred'[k].state # "live" =>
       \/ (Revoke(k) \/ RevokeLost(k)) /\ cred[k].made = "engine"
       \/ \E h \in Handlers :
            /\ SweepDelete(h, k) \/ SweepDeleteLost(h, k)
            /\ cred[k].user = call[h].role.user
            /\ cred[k].looks = "lease" /\ cred[k].age >= call[h].cut]_vars

(* A key the engine did not mint is never deleted (README.md: "a sweep is  *)
(* safe to run against a service user that also holds a key you manage by  *)
(* hand").                                                                 *)
ForeignKeysKept ==
  [][\A k \in Keys : cred[k].state = "live" /\ cred[k].made = "others"
                       => cred'[k].state = "live"]_vars

(* A lease in force is over some time later, however often it is renewed   *)
(* and the role rewritten or bound to another user; then its key is        *)
(* deleted, or Vault knows that it could not be.                           *)
LeasedKeysDie ==
  \A k \in Keys : InForce(k) ~> (cred[k].state = "gone" \/ lease[k].state = "stuck")

(* A key that works and that no request knows of nor any lease that will   *)
(* still be revoked.                                                       *)
Orphan(k) ==
  /\ cred[k].state = "live" /\ cred[k].made = "engine"
  /\ lease[k].state \notin {"live", "revoking"}
  /\ \A h \in Handlers : ~Minting(h, k)

(* Only a failure makes an orphan: the answer to the creation is lost, the *)
(* request ends with the key in hand, or revocation fails until Vault      *)
(* gives up.  No revocation, retry, sweep or change of the role does       *)
(* (backend.go: "Every key belongs to a Vault lease").                     *)
OrphansOnlyByFailure ==
  [][\A k \in Keys : Orphan(k)' /\ ~Orphan(k) =>
       \/ GiveUp(k)
       \/ \E h \in Handlers : IssueCreateLost(h, k) \/ (Minting(h, k) /\ Abort(h))]_vars

SomeRoleSweeps(u) ==
  /\ Reaches(account, u)
  /\ \E r \in Roles : role[r] # NoRole /\ role[r].user = u /\ role[r].max > 0

(* A sweep ends at an undeletable key before it comes to this one.         *)
Blocked(k) ==
  \E j \in Undeletable : /\ cred[j].state = "live" /\ cred[j].user = cred[k].user
                         /\ cred[j].looks = "lease" /\ Rank[j] <= Rank[k]

(* A key whose creation was never answered, or whose revocation Vault has  *)
(* given up, is deleted by a later sweep, as long as a role with a max_ttl *)
(* still names its user and no key listed before it is undeletable         *)
(* (backend.go: "sweep the account periodically to catch keys whose        *)
(* revocation never completed").                                           *)
OrphansSwept ==
  \A k \in Keys : Orphan(k) ~>
    (cred[k].state = "gone" \/ ~SomeRoleSweeps(cred[k].user) \/ Blocked(k))

-----------------------------------------------------------------------------
(***************************************************************************)
(* What a key is to the engine, for KeyCustody: a lease in force owes its  *)
(* holder the key, one that is over has it deleted.                        *)
(***************************************************************************)
EngineKeys == {k \in Keys : cred[k].state = "live" /\ cred[k].made = "engine"}

KeyStage ==
  [k \in Keys |-> IF \E h \in Handlers : Minting(h, k) THEN "minted"
                 ELSE IF InForce(k) THEN "owed"
                 ELSE IF Open(k) THEN "due" ELSE "free"]

Life == INSTANCE KeyCustody WITH Remembered <- TRUE, works <- EngineKeys, stage <- KeyStage

(* Issuing, renewal, expiry, revocation and sweeps together keep what      *)
(* KeyCustody promises: a key is owed only once it works, nothing deletes  *)
(* it while it is on its way or owed, and one that is due is not forgotten *)
(* until it no longer works (backend.go: "deleted from Selectel when that  *)
(* lease ends").                                                           *)
KeysInCustody == Life!Spec

=============================================================================
