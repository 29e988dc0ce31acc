------------------------------ MODULE StaticRoles ------------------------------
(***************************************************************************)
(* Static roles: one long-lived key per role, on a service user of its     *)
(* own, handed to every reader and replaced by rotate-role or, when the    *)
(* role has a rotation period, by the function Vault calls periodically.   *)
(*                                                                         *)
(* Every operation reads the stored role first and stores the whole role   *)
(* last, with calls to Selectel in between and no lock, so operations on   *)
(* one role may run into each other.  What an operation read it keeps in   *)
(* call[h].mine.                                                           *)
(*                                                                         *)
(* A key that no record and no request mentions any more may stand for a   *)
(* new one, so that a few stand for as many as Selectel ever creates; that *)
(* a key was lost while it worked shows in the step that loses it          *)
(* (StraysOnlyByFailure).                                                  *)
(***************************************************************************)
EXTENDS Naturals

CONSTANTS
  Roles,       \* names of static roles
  Rank,        \* the order in which storage lists the names
  Users,       \* service users Selectel may create
  Keys,        \* access keys Selectel may hand out
  Periods,     \* rotation periods an operator may write; 0 is none
  Horizon,     \* bound: the age of a key is counted up to here
  Broken,      \* roles for which Selectel mints a first key, but no second
  Handlers,    \* requests the plugin serves at one time
  Ticker,      \* the handler of Vault's periodic call
  Operations,  \* what is asked of the engine
  Exclusive,   \* operations that run beside no other on the same role
  Faults,      \* of {"abort", "lost", "removal"}
  NoUser, NoKey, NoName

Changes == {"write", "rotate", "periodic", "delete"}

ASSUME ConstantsAssumption ==
  /\ Rank \in [Roles -> Nat]
  /\ Periods \subseteq Nat /\ Horizon \in Nat /\ \A p \in Periods : p <= Horizon
  /\ Ticker \in Handlers
  /\ Exclusive \subseteq Changes
  /\ Faults \subseteq {"abort", "lost", "removal"}

ASSUME AbsentAssumption == NoUser \notin Users /\ NoKey \notin Keys /\ NoName \notin Roles

VARIABLES
  configured,  \* whether the engine holds a configuration
  store,       \* stored static roles
  name,        \* the role each service user in Selectel is named for
  cred,        \* the service user each working key belongs to
  held,        \* what the last reader of each role was given
  call         \* what each handler is doing, with the role it read before

vars == <<configured, store, name, cred, held, call>>

(* A role's record; since is the time since its last rotation.  A role     *)
(* that is not stored reads as NoRole.                                     *)
StaticRole == [user : Users \cup {NoUser}, key : Keys \cup {NoKey},
               period : Periods \cup {0}, since : 0 .. Horizon]

NoRole == [user |-> NoUser, key |-> NoKey, period |-> 0, since |-> 0]

Calls ==
  [pc : {"idle", "find", "user", "mint", "store", "drop", "remove", "forget", "again"},
   op : Changes \cup {"none"}, role : Roles \cup {NoName},
   mine : StaticRole, old : Keys \cup {NoKey}, todo : SUBSET Roles]

Idle == [pc |-> "idle", op |-> "none", role |-> NoName,
         mine |-> NoRole, old |-> NoKey, todo |-> {}]

Answers == [key : Keys \cup {NoKey}, ttl : 0 .. Horizon]

TypeOK ==
  /\ configured \in BOOLEAN
  /\ store \in [Roles -> StaticRole]
  /\ name \in [Users -> Roles \cup {NoName}]
  /\ cred \in [Keys -> Users \cup {NoUser}]
  /\ held \in [Roles -> Answers]
  /\ call \in [Handlers -> Calls]

Init ==
  /\ configured = TRUE
  /\ store = [r \in Roles |-> NoRole]
  /\ name = [u \in Users |-> NoName]
  /\ cred = [k \in Keys |-> NoUser]
  /\ held = [r \in Roles |-> [key |-> NoKey, ttl |-> 0]]
  /\ call = [h \in Handlers |-> Idle]

-----------------------------------------------------------------------------
(***************************************************************************)
(* Operators.                                                              *)
(***************************************************************************)
On(h, r) == call[h].role = r

MayBegin(h, op, r) ==
  /\ op \in Operations
  /\ call[h].pc = "idle" /\ (h = Ticker <=> op = "periodic")
  /\ \A g \in Handlers : On(g, r) => op \notin Exclusive /\ call[g].op \notin Exclusive

Go(h, c) == call' = [call EXCEPT ![h] = c]

Begin(h, op, r, pc, mine) ==
  Go(h, [pc |-> pc, op |-> op, role |-> r, mine |-> mine,
         old |-> mine.key, todo |-> call[h].todo \ {r}])

(* The periodic call goes on with the names it has left.                   *)
Finish(h) == Go(h, [Idle EXCEPT !.todo = call[h].todo])

(* nextRotation: without a period the role is never due.                   *)
DueWithoutPeriod(c) == c.since >= c.period

DueEarly(c) == c.period > 0 /\ c.since + 1 >= c.period

Due(c) == c.period > 0 /\ c.since >= c.period

Least(m, n) == IF m <= n THEN m ELSE n
Aged(c) == IF c.key = NoKey THEN c ELSE [c EXCEPT !.since = Least(@ + 1, Horizon)]

(* Keys and users nobody mentions.                                         *)
NewKey(k) ==
  /\ \A r \in Roles : k \notin {store[r].key, held[r].key}
  /\ \A h \in Handlers : k \notin {call[h].mine.key, call[h].old}

NewUser(u) ==
  /\ name[u] = NoName
  /\ \A r \in Roles : store[r].user # u
  /\ \A h \in Handlers : call[h].mine.user # u

-----------------------------------------------------------------------------
(***************************************************************************)
(* static-roles/<name>, create and update: find or create the service      *)
(* user, mint a key if the role has none, store the role.                  *)
(***************************************************************************)

(* An omitted period is the stored one, or none for a new role.            *)
WriteBegin(h, r, p) ==
  /\ MayBegin(h, "write", r)
  /\ configured
  /\ Begin(h, "write", r,
       IF store[r].user = NoUser THEN "find"
       ELSE IF store[r].key = NoKey THEN "mint" ELSE "store",
       [store[r] EXCEPT !.period = p])
  /\ UNCHANGED <<configured, store, name, cred, held>>

(* After the service user comes the key; a role that has none is new.      *)
WithUser(h, u) == Go(h, [call[h] EXCEPT !.pc = "mint", !.mine = [@ EXCEPT !.user = u]])

FindAnyUser(h) ==
  /\ call[h].pc = "find"
  /\ \/ \E u \in Users : name[u] # NoName /\ WithUser(h, u)
     \/ /\ \A u \in Users : name[u] = NoName
        /\ Go(h, [call[h] EXCEPT !.pc = "user"])
  /\ UNCHANGED <<configured, store, name, cred, held>>

FindUser(h) ==
  /\ call[h].pc = "find"
  /\ \/ \E u \in Users : name[u] = call[h].role /\ WithUser(h, u)
     \/ /\ \A u \in Users : name[u] # call[h].role
        /\ Go(h, [call[h] EXCEPT !.pc = "user"])
  /\ UNCHANGED <<configured, store, name, cred, held>>

CreateUser(h, u) ==
  /\ call[h].pc = "user" /\ NewUser(u)
  /\ name' = [name EXCEPT ![u] = call[h].role]
  /\ WithUser(h, u)
  /\ UNCHANGED <<configured, store, cred, held>>

CreateUserLost(h, u) ==
  /\ "lost" \in Faults
  /\ call[h].pc = "user" /\ NewUser(u)
  /\ name' = [name EXCEPT ![u] = call[h].role]
  /\ Finish(h)
  /\ UNCHANGED <<configured, store, cred, held>>

-----------------------------------------------------------------------------
(***************************************************************************)
(* mintStaticKey and rotateStaticRole: create the key, store the role with *)
(* it, delete the key it replaces.                                         *)
(***************************************************************************)
MaySecond(h) == call[h].role \in Broken => call[h].op = "write"

CreateCredential(h, k) ==
  /\ call[h].pc = "mint" /\ configured
  /\ MaySecond(h) /\ name[call[h].mine.user] # NoName
  /\ NewKey(k)
  /\ cred' = [cred EXCEPT ![k] = call[h].mine.user]
  /\ UNCHANGED <<configured, store, name, held>>

Mint(h, k) ==
  /\ call[h].mine.user \in Users
  /\ CreateCredential(h, k)
  /\ Go(h, [call[h] EXCEPT !.pc = "store", !.mine = [@ EXCEPT !.key = k, !.since = 0]])

MintLost(h, k) ==
  /\ "lost" \in Faults
  /\ call[h].mine.user \in Users
  /\ CreateCredential(h, k)
  /\ Finish(h)

(* A first key replaces none.                                              *)
Store(h) ==
  /\ call[h].pc = "store"
  /\ store' = [store EXCEPT ![call[h].role] = call[h].mine]
  /\ IF call[h].op # "write" /\ call[h].old # NoKey
     THEN Go(h, [call[h] EXCEPT !.pc = "drop"]) ELSE Finish(h)
  /\ UNCHANGED <<configured, name, cred, held>>

DropCurrent(h) ==
  /\ call[h].pc = "drop" /\ configured
  /\ cred' = [cred EXCEPT ![call[h].mine.key] = NoUser]
  /\ Finish(h)
  /\ UNCHANGED <<configured, store, name, held>>

(* Deleting a key that is not there, or whose user is not, is no failure.  *)
(* An answer that is lost leaves the same state behind.                    *)
Drop(h) ==
  /\ call[h].pc = "drop" /\ configured
  /\ cred' = [cred EXCEPT ![call[h].old] = IF @ = call[h].mine.user THEN NoUser ELSE @]
  /\ Finish(h)
  /\ UNCHANGED <<configured, store, name, held>>

RotateBegin(h, r) ==
  /\ MayBegin(h, "rotate", r)
  /\ store[r] # NoRole
  /\ Begin(h, "rotate", r, "mint", store[r])
  /\ UNCHANGED <<configured, store, name, cred, held>>

(* The periodic call lists the names, then takes the roles one by one, in  *)
(* the order storage lists them, and reads each again.                     *)
PeriodicBegin ==
  /\ "periodic" \in Operations
  /\ call[Ticker] = Idle
  /\ Go(Ticker, [Idle EXCEPT !.todo = {r \in Roles : store[r] # NoRole}])
  /\ UNCHANGED <<configured, store, name, cred, held>>

First(r) == r \in call[Ticker].todo /\ \A s \in call[Ticker].todo : Rank[r] <= Rank[s]

PeriodicSkip(r) ==
  /\ call[Ticker].pc = "idle" /\ First(r)
  /\ ~Due(store[r])
  /\ Go(Ticker, [Idle EXCEPT !.todo = call[Ticker].todo \ {r}])
  /\ UNCHANGED <<configured, store, name, cred, held>>

PeriodicRotate(r) ==
  /\ MayBegin(Ticker, "periodic", r) /\ First(r)
  /\ Due(store[r])
  /\ Begin(Ticker, "periodic", r, "mint", store[r])
  /\ UNCHANGED <<configured, store, name, cred, held>>

-----------------------------------------------------------------------------
(***************************************************************************)
(* static-roles/<name>, delete: remove the service user with every key it  *)
(* has, then the record.  Without a configuration only the record goes.    *)
(***************************************************************************)
DeleteFrom == IF configured THEN "remove" ELSE "forget"

DeleteBegin(h, r) ==
  /\ MayBegin(h, "delete", r)
  /\ store[r] # NoRole
  /\ Begin(h, "delete", r, DeleteFrom, store[r])
  /\ UNCHANGED <<configured, store, name, cred, held>>

RemoveUser(h) ==
  /\ call[h].pc = "remove"
  /\ name' = [name EXCEPT ![call[h].mine.user] = NoName]
  /\ cred' = [k \in Keys |-> IF cred[k] = call[h].mine.user THEN NoUser ELSE cred[k]]
  /\ UNCHANGED <<configured, store, held>>

ForgetFirst(h) ==
  /\ call[h].pc = "remove"
  /\ store' = [store EXCEPT ![call[h].role] = NoRole]
  /\ Finish(h)
  /\ UNCHANGED <<configured, name, cred, held>>

Remove(h) == RemoveUser(h) /\ Go(h, [call[h] EXCEPT !.pc = "forget"])

Forget(h) ==
  /\ call[h].pc = "forget"
  /\ store' = [store EXCEPT ![call[h].role] = NoRole]
  /\ Finish(h)
  /\ UNCHANGED <<configured, name, cred, held>>

(* The user is gone, the answer is lost, or the record stays; whoever      *)
(* asked asks again.                                                       *)
RemoveLost(h) ==
  /\ "removal" \in Faults
  /\ RemoveUser(h)
  /\ Go(h, [call[h] EXCEPT !.pc = "again"])

ForgetRefused(h) ==
  /\ "removal" \in Faults
  /\ call[h].pc = "forget"
  /\ Go(h, [call[h] EXCEPT !.pc = "again"])
  /\ UNCHANGED <<configured, store, name, cred, held>>

DeleteAgain(h) ==
  /\ call[h].pc = "again"
  /\ IF store[call[h].role] = NoRole THEN Finish(h)
     ELSE Go(h, [call[h] EXCEPT !.pc = DeleteFrom, !.mine = store[call[h].role]])
  /\ UNCHANGED <<configured, store, name, cred, held>>

-----------------------------------------------------------------------------
(***************************************************************************)
(* Readers, the configuration, failure, and the clock.                     *)
(***************************************************************************)

ReadUnclamped(r) ==
  /\ "read" \in Operations
  /\ store[r].key # NoKey
  /\ held' = [held EXCEPT ![r] = [key |-> store[r].key,
       ttl |-> IF store[r].period > 0 THEN store[r].period - store[r].since ELSE 0]]
  /\ UNCHANGED <<configured, store, name, cred, call>>

(* static-creds/<name>: the stored key and, with a period, the time left.  *)
Read(r) ==
  /\ "read" \in Operations
  /\ store[r].key # NoKey
  /\ held' = [held EXCEPT ![r] = [key |-> store[r].key,
       ttl |-> IF store[r].period > store[r].since THEN store[r].period - store[r].since ELSE 0]]
  /\ UNCHANGED <<configured, store, name, cred, call>>

Configure ==
  /\ "config" \in Operations
  /\ configured' = ~configured
  /\ UNCHANGED <<store, name, cred, held, call>>

(* Whether a call must fail: without a configuration there is no client,   *)
(* and no key is minted for a user that is not there.                      *)
Refused(h) ==
  \/ call[h].pc \in {"mint", "drop"} /\ ~configured
  \/ call[h].pc = "mint" /\ ~MaySecond(h)
  \/ call[h].pc = "mint" /\ \A u \in Users : name[u] = NoName \/ u # call[h].mine.user

MayFail(h) ==
  /\ call[h].pc \in {"find", "user", "mint", "store", "drop"}
  /\ \/ Refused(h)
     \/ "abort" \in Faults

AbortEndsPeriodic(h) ==
  /\ MayFail(h)
  /\ Go(h, Idle)
  /\ UNCHANGED <<configured, store, name, cred, held>>

(* A call or a write to storage fails, or the plugin dies.                 *)
Abort(h) ==
  /\ MayFail(h)
  /\ Finish(h)
  /\ UNCHANGED <<configured, store, name, cred, held>>

Tick ==
  /\ store' = [r \in Roles |-> Aged(store[r])]
  /\ call' = [h \in Handlers |-> [call[h] EXCEPT !.mine = Aged(@)]]
  /\ held' = [r \in Roles |-> [held[r] EXCEPT !.ttl = IF @ > 0 THEN @ - 1 ELSE 0]]
  /\ UNCHANGED <<configured, name, cred>>

Write(h) ==
  \/ \E r \in Roles, p \in Periods : WriteBegin(h, r, p)
  \/ FindUser(h)
  \/ \E u \in Users : CreateUser(h, u) \/ CreateUserLost(h, u)

Rotate(h) ==
  \/ \E r \in Roles : RotateBegin(h, r)
  \/ \E k \in Keys : Mint(h, k) \/ MintLost(h, k)
  \/ Store(h) \/ Drop(h)

Periodic == PeriodicBegin \/ \E r \in Roles : PeriodicSkip(r) \/ PeriodicRotate(r)

Delete(h) ==
  \/ \E r \in Roles : DeleteBegin(h, r)
  \/ Remove(h) \/ Forget(h) \/ RemoveLost(h) \/ ForgetRefused(h) \/ DeleteAgain(h)

Next ==
  \/ \E h \in Handlers : Write(h) \/ Rotate(h) \/ Delete(h) \/ Abort(h)
  \/ Periodic
  \/ \E r \in Roles : Read(r)
  \/ Configure
  \/ Tick

Spec == Init /\ [][Next]_vars

(***************************************************************************)
(* Vault calls the periodic function again and again; its calls return,    *)
(* and for a role that is not broken they do not fail every time.          *)
(***************************************************************************)
Fairness ==
  /\ WF_vars(PeriodicBegin)
  /\ \A r \in Roles :
       /\ WF_vars(PeriodicSkip(r)) /\ WF_vars(PeriodicRotate(r))
       /\ WF_vars(On(Ticker, r) /\ Abort(Ticker))
       /\ SF_vars(On(Ticker, r) /\ \E k \in Keys : Mint(Ticker, k))
       /\ SF_vars(On(Ticker, r) /\ Store(Ticker))
       /\ WF_vars(On(Ticker, r) /\ Drop(Ticker))

FairSpec == Spec /\ Fairness

-----------------------------------------------------------------------------
(***************************************************************************)
(* Properties.                                                             *)
(***************************************************************************)
Deleting(r) == \E h \in Handlers : On(h, r) /\ call[h].op = "delete"

(* A stored role holds a key that works, whatever fails halfway through a  *)
(* rotation or a write (path_static_roles.go: "a failure never leaves the  *)
(* role without a working key").                                           *)
StoredKeyWorks ==
  \A r \in Roles : store[r].key # NoKey /\ ~Deleting(r) => cred[store[r].key] = store[r].user

(* A key that works and that no role holds and no request knows of.        *)
Stray(k) ==
  /\ cred[k] # NoUser
  /\ \A r \in Roles : store[r].key # k
  /\ \A h \in Handlers : k \notin {call[h].mine.key, call[h].old}

(* Only a failure leaves a key behind that works and that no role holds: a *)
(* call or write refused or unanswered with the key in hand, or a role     *)
(* forgotten whose user could not be removed.  A rotation that succeeds    *)
(* leaves one key, a delete none (path_static_roles.go: "A static role     *)
(* holds a single key for its own service user").                          *)
StraysOnlyByFailure ==
  [][\A k \in Keys : Stray(k)' /\ ~Stray(k) => \E h \in Handlers :
       \/ MintLost(h, k)
       \/ k \in {call[h].mine.key, call[h].old} /\ Abort(h)
       \/ k = call[h].mine.key /\ Forget(h) /\ name[call[h].mine.user] # NoName]_vars

(* Two stored roles never share a service user, so that deleting one does  *)
(* not take the other's key.                                               *)
OwnUser ==
  \A r, s \in Roles : store[r].user # NoUser /\ store[r].user = store[s].user => r = s

(* Without a rotation period the key of a role changes only by rotate-role *)
(* (rotation_period: "Leave it out and the key changes only when           *)
(* rotate-role is called").                                                *)
UnscheduledKeyStable ==
  [][\A r \in Roles :
       store[r].key # NoKey /\ store[r].period = 0 /\ store'[r].key \notin {NoKey, store[r].key} =>
         \E h \in Handlers : On(h, r) /\ call[h].op = "rotate" /\ Store(h)]_vars

(* The engine does not by itself take a key from a reader before the time  *)
(* it told, as long as no one shortens the period: only rotate-role and    *)
(* delete do (README: "ttl, the seconds left before the engine rotates by  *)
(* itself").                                                               *)
PromisedKeyKept ==
  [][\A r \in Roles :
       held[r].ttl > 0 /\ cred[held[r].key] # NoUser /\ cred'[held[r].key] = NoUser =>
         \E h \in Handlers : On(h, r) /\ call[h].op \in {"rotate", "delete"}]_vars

(* A rotation has just stored its new key.                                 *)
Replaced(r) == \E h \in Handlers : On(h, r) /\ call[h].pc = "drop"

(* A role that is due is rotated, even when another one cannot be and      *)
(* whatever operators do meanwhile (rotateDueStaticRoles: "one broken role *)
(* never stops the others").                                               *)
DueRolesRotate ==
  \A r \in Roles \ Broken : Due(store[r]) ~> (~Due(store[r]) \/ Replaced(r))

-----------------------------------------------------------------------------
(***************************************************************************)
(* What a key is to the engine, for KeyCustody: a stored role owes its     *)
(* readers the key until someone deletes the role.                         *)
(***************************************************************************)
Minting(h, k) ==
  call[h].pc = "store" /\ call[h].mine.key = k /\ store[call[h].role].key # k

HandedOut(k) == \E r \in Roles : store[r].key = k /\ ~Deleting(r)

BeingDropped(k) ==
  \/ \E h \in Handlers : call[h].pc = "drop" /\ call[h].old = k
  \/ \E r \in Roles : store[r].key = k

WorkingKeys == {k \in Keys : cred[k] # NoUser}

KeyStage ==
  [k \in Keys |-> IF \E h \in Handlers : Minting(h, k) THEN "minted"
                 ELSE IF HandedOut(k) THEN "owed"
                 ELSE IF BeingDropped(k) THEN "due" ELSE "free"]

Life == INSTANCE KeyCustody WITH
  Remembered <- FALSE, works <- WorkingKeys, stage <- KeyStage

(* Writing, rotating and deleting roles, whatever fails, keep what         *)
(* KeyCustody promises: the role takes over a key only once it works, the  *)
(* old one is deleted only once the new one is stored, and in between one  *)
(* of them is always there (path_static_roles.go: "Mints a new key, stores *)
(* it, and only then deletes the old one").                                *)
KeysInCustody == Life!Spec

=============================================================================
