# A verification project for vault-plugin-secrets-selectel-s3

The engine is a HashiCorp Vault plugin that hands out Selectel S3 access keys.
This directory holds TLA+ models of it, TLC configurations that check them on
small instances, and theorems that TLAPS proves for every value of the
constants.  `PROJECT.json` lists the runs, the source lines each definition
models, the hazards, the findings and the theorems.

## The system

Vault calls the plugin for every request, from many goroutines at once, and
once a minute for periodic work.  The plugin keeps state in three places that
it changes one after the other and never together: Vault's storage, a client
it caches in memory, and Selectel itself.

| Component | State | Operations | What makes it correct |
| --- | --- | --- | --- |
| Dynamic keys (`path_creds.go`) | keys in Selectel; leases in Vault | read `creds/<role>`, renew, revoke | a leased key works; an ended lease leaves no key |
| Sweep (`path_sweep.go`) | none | list a user's keys, delete those past an age | never a key in use; a key goes for its age and its name only; orphans go |
| Dynamic roles (`path_roles.go`) | stored roles | write (provisions), delete (deprovisions) | a stored role can be used; leases do not depend on what happens to the role |
| Configuration and client (`path_config.go`, `backend.go`) | stored config; cached client | write, delete, invalidate, `getClient`, `reset` | a cached client is the stored configuration's |
| `rotate-root` (`path_rotate_root.go`) | stored password; the password in Selectel | store, PATCH, restore | only a failure makes a rotation lock the engine out |
| Static roles (`path_static_roles.go`) | role with its one key, in storage | write, read, `rotate-role`, periodic rotation, delete | the stored key works; there is one; due roles are rotated |
| Provisioning (`provision.go`) | service users; bucket policies | find or create users, read-modify-write of a policy with a temporary admin | grants follow roles; no admin stays |
| Bucket policies (`s3policy.go`) | statements of a policy | grant, revoke | foreign statements survive |
| Adoption and drops (`path_adopt.go`, `path_drop_statement.go`) | none | write the engine into a policy, take statements out | the engine keeps its access; nothing else changes |
| Selectel client (`client.go`) | token and its expiry | authenticate, call | a token in use is valid |
| Plugin process (`cmd/`) | none | serve | - |

How they meet.  Every operation obtains its client through `getClient`, so a
change of the configuration reaches all of them, some in mid-request.  A sweep
and the leases share the keys of a service user with static roles and with
whoever else makes keys by hand; only the name of a key tells them apart.
Writing a static or dynamic role goes through `provisionRole`, deleting one
through `deprovisionRole`.  The periodic function rotates static roles beside
whatever requests are under way.  There is one lock, around the cached client;
storage and Selectel have none.

What is hard: requests that read a record, call Selectel and store the record
whole; answers that are lost after the call took effect; a failure between two
stores; clocks read at different moments; a 404 that means two things; a policy
that is read, changed and written whole by requests that know nothing of each
other; users found by a name that two roles may share.  The
hazards in `PROJECT.json` name each at its line.

## The modules

| Module | Models | Run by | Proved in |
| --- | --- | --- | --- |
| `LeasedKeys` | dynamic keys, leases, sweep, stored roles, the account configured | `MCLeasedKeys` | `LeasedKeysProofs` |
| `EngineConfig` | configuration, cached client, `rotate-root` | `MCEngineConfig` | `EngineConfigProofs` |
| `StaticRoles` | static roles, their users and keys, periodic rotation | `MCStaticRoles` | `StaticRolesProofs`, `StaticRolesCustody`, `StaticRolesPromises` |
| `KeyCustody` | abstract: what the engine promises of a key; implemented by `LeasedKeys` and `StaticRoles` | through them | `KeyCustodyProofs` and theirs |
| `BucketPolicy` | policies as data, and the functions of `s3policy.go` and `path_drop_statement.go` on them | through `Provisioning` | `ProvisioningProofs` |
| `Provisioning` | roles of both kinds with their users and grants, adoption, drops, the reader, the temporary admin | `MCProvisioning` | `ProvisioningProofs`, `ProvisioningPromises` |

The four modules with a `call` follow one convention.  `call[h]` is what handler `h` (a request the
plugin is serving) is doing: `pc` is where it stands, the other fields are what
it has read and still holds.  A handler is split at every call to Selectel,
every write to storage that another request can tell from the next step, and at
the lock; between two steps any other handler may run.  Code between two such
points is one action.  `Faults` says what may go wrong; `Exclusive` (in
all but `LeasedKeys`) names operations that whoever calls the engine
keeps apart, because nothing in the code does: with it a run states under which
discipline a property holds, without it a run shows what happens otherwise.
Definitions next to the action they alter (`StaleEarly` beside `Stale`) are
mutants: the runs must catch each.

### LeasedKeys

`role` and `account` are storage, `cred` is Selectel, `lease` is Vault's
expiration manager; a lease is `"stuck"` when Vault has given its revocation up
(`GiveUp`) and until somebody has it tried again (`RevokeRequested`).  `IssueBegin` reads the role and obtains the client
(`pathCredentialsRead`), `IssueCreate` is the call that creates the key,
`IssueRegister` is Vault registering the lease of the response.  `Revoke` is
`credentialRevoke`, `Renew` is `credentialRenew` with Vault's clamping.  A sweep
is `SweepBegin`, `SweepList`, `SweepFilter` (the loop's two conditions, with
`time.Now()` after the list), and one `SweepDelete` per key, in the order of
Selectel's list (`Rank`; `NextToSweep`): a key that cannot be deleted (`Undeletable`)
ends every sweep that comes to it, and what is listed after it stays.

Three points of the code decide most of what follows.

* `MintedAt` reads a name.  The name of a key carries the time before Selectel
  created it; the lease starts later, at `IssueRegister`.  `Latency` bounds the
  ticks in between.  Names are free, so `Foreign` says what the names of keys of
  other origin tell a sweep: a static role's key tells nothing, a key called
  `vault-backup-2024` tells that it was minted long ago.
* The sweep's default age is the role's `max_ttl` at that moment (`SweepAge`).
  The lease's end was fixed by the settings the key was issued under
  (`LeaseCap`).
* A 404 counts as deleted (`AfterDelete`), and a call about a user of another
  account is answered with 404 (`Reaches`).

Roles are bound to existing service users and manage no bucket, so that writing
and deleting them calls nothing at Selectel.  `path_roles.go` accepts a role
whose `ttl` exceeds its `max_ttl` only when `max_ttl` is 0 (`Accepted`).

Properties: `LeasedKeyWorks`, `EndedLeaseLeavesNoKey`, `KeysDeletedForCause`,
`OrphansOnlyByFailure`, `KeysInCustody`, under fairness `LeasedKeysDie` and
`OrphansSwept`, and `ForeignKeysKept`, which does not hold.

### EngineConfig

`stored` and `client` are the configuration in storage and the one the cached
client was built from, `actual` the password Selectel accepts.  `getClient` is
`GetCached`, `GetMissing`, `GetRead` and `GetFill`; a handler at `fill` holds the
write lock (`Locked`), so `Reset` waits for it.  The order store, then reset is
that of `pathConfigWrite` and `pathConfigDelete`.  `rotate-root` is `RotateBegin`,
`getClient`, `RotateSave`, then `RotatePatch`, or `RotateRefused` and
`RotateRestore`.  When the old configuration cannot be put back
(`RestoreRefused`) the request ends with an answer that tells the operator to set a
password by hand and write it to `config`; other requests go on meanwhile.
`warned` remembers that this has happened until a client is dropped.  `SetByHand` is the operator setting that
password in Selectel at some later moment, the write to `config` a `WriteBegin`
like any other.  `ReadAgain` and `UseEndpoint` are the second
`getConfig` of `provisionRole` and `deprovisionRole`; `Die` is the plugin's death,
of a nil configuration or by itself.

An operator is taken to write a password that is right at that moment
(`RightNow`); the code does not look, and without that no property of the
password could hold.

Properties: `ClientFresh`, `LockedOutOnlyByFailure`, under fairness
`StaleClientDropped`, and `ConfigNeverMissing`, which does not hold.  `LockedOut`
says that the engine has lost its own account; while a rotation has yet to hear
from Selectel it looks at what the rotation can go back to.  `NeverLockedOut` is what
`path_rotate_root.go:26-28` promises; no run checks it because each of three faults breaks it
by itself (Variations).

### StaticRoles

`store` is storage, `name` and `cred` are the service users and keys in Selectel,
`held` is what readers were given.  An operation reads the role at its begin
into `call[h].mine` and stores that at `Store`, whatever happened in between:
that is what the code does.  `WriteBegin`, `FindUser`, `CreateUser`, `Mint`,
`Store` are `pathStaticRoleWrite` with `provisionRole`; `RotateBegin`, `Mint`,
`Store`, `Drop` are `rotateStaticRole`; `PeriodicBegin`, `PeriodicSkip` and
`PeriodicRotate` are `rotateDueStaticRoles`, which lists the names once and reads
each role again, in the order of the list (`Rank`).  `DeleteBegin`, `Remove`,
`Forget` are the delete.  A delete that failed halfway is asked again
(`DeleteAgain`), as an operator has to.

Roles have no bucket here; what a bucket adds is in `Provisioning`.

Properties: `StoredKeyWorks`, `StraysOnlyByFailure`, `OwnUser`,
`UnscheduledKeyStable`, `PromisedKeyKept`, `KeysInCustody`, and under fairness
`DueRolesRotate`.

### KeyCustody

What a lease and a static role have in common.  A key is minted, handed over (owed
from then on), due when that is over, and then deleted or forgotten.  `Destroy` is the
heart of it: a key stops working only while it is free or due.  `Replace` hands over
a new key and makes the old one due in one step, so that a role is never without
one.  `Remembered` is where the two differ: Vault's lease keeps a key in mind until it
is gone, a static role tries once.

`Life` in `LeasedKeys` and in `StaticRoles` is the instance under the refinement
mapping (`KeyStage`: a key in a request's hand is minted, one of a lease in force or
a stored role is owed, one whose lease has run out or whose role is being deleted or
has moved on is due), and `KeysInCustody` says that every behaviour is one of
`KeyCustody`'s.

### BucketPolicy and Provisioning

A policy is a record: whom the engine's statement for users names, whom its statement
for the reader names, and which statements of others there are.  The operators of
`BucketPolicy` carry the names of the functions they translate.  `VisibleTo` is
Selectel's rule, on which `readBucketPolicy` rests and which the tests' fake repeats
(`backend_test.go:200-221`): a policy is shown to those it names; a bucket without one
answers 404.  `Blanket` are statements of others that name everybody, `Legible` says
what decoding and encoding leave of a statement (a field `policyStatement` lacks is
lost).

In `Provisioning`, `role` is storage (`named` tells whether `ServiceUserName` is set),
`users`, `keys` and `policy` are Selectel.  A request passes through these stages:

| `pc` | Actions | Code |
| --- | --- | --- |
| - | `WriteBegin`, `DeleteBegin`, `AdoptBegin`, `DropBegin` | the handlers, up to their first call |
| `find`, `create` | `FindUser`, `CreateUser` | `provisionRole`, the service user |
| `reader`, `newreader` | `FindReader`, `CreateReader` | `readerUser`, called once for the policy to name and once to read it |
| `key`, `get`, `unkey` | `CreateReadKey`, `GetPolicy`, `DeleteReadKey`, `KeepReadKey` | `readBucketPolicy` with its deferred deletion; `Edit` is the change in memory |
| `admin`, `put`, `unadmin` | `CreateAdmin`, `PutPolicy`, `DeleteAdmin`, `KeepAdmin` | `withS3Admin` with its deferred deletion |
| `remove` | `RemoveUser` | `deprovisionRole`, the service user |
| `store`, `forget` | `Store`, `Refuse`, `Forget` | the handlers, after provisioning |

The key of the temporary admin and the write are one step: whichever fails, what
follows is the deferred deletion.  After an adoption's write the policy is read once
more (`confirm`).  A static role goes the same way as a dynamic one, under a name of
its own and without a user to bind to; its key is the business of `StaticRoles`.
A deletion without a configuration forgets the role and nothing else
(`ForgetUnconfigured`).

A request that fails ends; whoever asked may ask again, and anybody may come before,
since the role is stored as it was.  An adoption whose read fails, at whatever call,
goes by the copy the operator passed (`adoptedPolicy`, `FailedCall`, `ReaderLost`,
`ReadKeyLost`); everybody else gets the error.  Users are pairs of a name and a
number, so that a user of somebody else's (`Foreigners`) may bear the name the engine
looks for.

`behind` is a history variable: it holds the requests that go by a policy which
is not the one there is.  A request gets there when another one changes the policy
between its read and its end (`Overtaken`), and an adoption when it goes by the
operator's copy because a call failed and not because Selectel does not show it the
policy (`Misread`).  The code does not notice either.  Such requests do undo the
grants and drops of others, so several properties exempt them by name; what those
properties say is that nothing else does it.

Two things are asked of operators.  An adoption passes the policy the bucket had
before the engine (`Initially`), and policies are not edited by hand while the engine
works on them.  `Exclusive = {"reader"}` keeps two requests from meeting the creation
of the reader; nothing else is kept apart.

Properties: `RolesServed`, `BoundUsersKept`, `EngineKeepsItsAccess`, `PolicyChangesAsAsked`,
`LooseGrantsHaveCause`, `TemporariesLeftOnlyByFailure`, and two that do not hold,
`ForeignUsersKept` and `AdoptionsKeepGrants`.

## The runs

| Run | States | Shows |
| --- | --- | --- |
| `LeasedKeys_sweep` | 1 731 912 | with sweeps that spare the longest lease plus the latency, no lease loses its key, no ended lease leaves one, a key goes only by its lease or for its age and name, orphans come of failure only; `KeyCustody` is implemented |
| `LeasedKeys_liveness` | 131 106 | with a role rebound between two users in two accounts: leases end with their key deleted or stuck, orphans are swept unless a key nobody can delete is listed before them; an ended lease leaves no key |
| `EngineConfig_changes` | 525 950 | with rotations apart from other changes and every fault: the client is fresh or about to be dropped, a stale one goes, and the engine loses its own account in four ways only |
| `StaticRoles_serial` | 232 528 | with operations on a role apart, the configuration coming and going: the stored key works, users are not shared, an unscheduled key is stable, keys are left behind by failure only; `KeyCustody` is implemented |
| `StaticRoles_readers` | 1 117 994 | no reader's key goes before the ttl it was told |
| `StaticRoles_liveness` | 97 887 | one broken role does not stop the others, even beside writes at any moment |
| `Provisioning_serial` | 963 817 | two roles whose users are called alike and a user of somebody else's of that name too, every fault: a role loses its user or grant only to the deletion of a role with that user or to an adoption that could not read; a user a role is only bound to is never deleted |
| `Provisioning_overlap` | 2 359 070 | two requests on one role and bucket in any order, with every fault: the engine keeps its access, policies change as asked or by a request that fell behind, roles lose their place and grants their roles for the causes named, and no admin or key stays without a failure |

Four more runs end in a counterexample, each against something the repository
says of itself; `PROJECT.json` quotes the line.

| Run | The code | The text it contradicts |
| --- | --- | --- |
| `LeasedKeys_names` | a key made by hand and called `vault-backup-2024` is read as one minted 2024 nanoseconds after 1970, and swept | "Keys the engine did not create are recognised by their name and left untouched" (`README.md:260`) |
| `EngineConfig_missing` | a config deleted in mid-request is followed as nil | `errMissingConfig` (`provision.go:172-174`) |
| `StaticRoles_overlap` | a write beside a periodic rotation stores the deleted key | "never leaves the role without a working key" (`path_static_roles.go:146-147`) |
| `Provisioning_rebind` | a role written without `service_user_id` and then with one keeps the name of its first user; deleting it deletes the user it was bound to, and the engine's own stays | "deprovisionRole undoes provisionRole" (`provision.go:276`) |

### Variations

Each of these changes constants of a run above, or checks another definition of the
module with them, and makes TLC find the property violated.  They show where the boundary of
what holds lies, and what the constants of the passing runs leave out.

| Run | Change | Violated | What happens, and the text it contradicts |
| --- | --- | --- | --- |
| `LeasedKeys_sweep` | `Ages = {2}`, the longest lease without the latency | `LeasedKeyWorks` | a sweep deletes a key whose lease has a moment left, because the lease began after the time in the key's name; "Keys younger than that may still be in use and are never touched" (`path_sweep.go:53-55`) speaks of the key's age alone |
| `LeasedKeys_sweep` | `RoleSettings <- Lowered`, `Ages = {0}`, `Latency = 0`, `Faults = {}` | `LeasedKeyWorks` | after `max_ttl` was lowered, a sweep at the default age deletes keys of leases given before; "A lease cannot outlive the role's max_ttl" (`path_sweep.go:53`) |
| `LeasedKeys_liveness` | `SPECIFICATION Spec`: the configuration moves at any moment | `EndedLeaseLeavesNoKey` | pointed at another account, a revocation gets 404 and succeeds (`path_creds.go:120`); "deleted from Selectel when that lease ends" (`backend.go:101-102`) |
| `LeasedKeys_liveness` | `StaticLooking = {ra}`, a dynamic role called `static-x` | `OrphansSwept` | every sweep takes its keys for static ones; "finds keys this engine minted that no live lease owns" (`README.md:252-253`) |
| `EngineConfig_changes` | `Exclusive = {}`, `Faults = {}` | `LockedOutOnlyByFailure`, `ClientFresh` | two rotations store one password and set the other |
| `EngineConfig_changes` | one of `"lost"`, `"crash"`, `"unrestored"` in `Faults`, or none | `NeverLockedOut` | a lost answer to the PATCH puts back a password that is no longer right, and so on; without faults the plugin dies in a rotation of the nil configuration another request follows; "rolled back rather than locking the engine out of its own account" (`path_rotate_root.go:27-28`) |
| `StaticRoles_serial` | `Exclusive = {"write", "delete"}` | `StraysOnlyByFailure` | two rotations delete the same old key and leave two new ones; "holds a single key" (`path_static_roles.go:104-105`), "rotation must leave exactly one key" (`backend_test.go:981`) |
| `StaticRoles_readers` | `Periods = {1, 2}`, one shorter than the other | `PromisedKeyKept` | a write shortens the period after a reader was told the time left of the longer one; "the seconds left before the engine rotates by itself" (`README.md:232-233`) |
| `StaticRoles_overlap` | checks `UnscheduledKeyStable` | `UnscheduledKeyStable` | a rotation stores the period that a write has taken away, and a new key; "changes only when rotate-role is called" (`path_static_roles.go:87`) |
| `Provisioning_serial` | checks `AdoptionsKeepGrants` | `AdoptionsKeepGrants` | an adoption whose read failed for a moment writes the operator's copy over newer grants; "adopting a bucket twice cannot roll it back" (`path_adopt.go:117-118`) |
| `Provisioning_serial` | checks `ForeignUsersKept`, `Faults = {}` | `ForeignUsersKept` | a user somebody made and called `s3-<role>` is found by name, taken for the engine's (`provision.go:181-191`) and deleted with the role; "deprovisionRole undoes provisionRole" (`provision.go:276`) |
| `Provisioning_serial` | `"rebind"` among `Operations` | `BoundUsersKept` | as `Provisioning_rebind` |
| `Provisioning_overlap` | `Faults = {}`, `PolicyChangesAsAsked` without `h \in behind` | itself | two requests read one policy and the second write undoes the first; "Writing the role adds its service user to that bucket's policy" (`path_roles.go:51`) |
| `Provisioning_overlap` | `Faults = {}`, `RolesServed` without any one of its disjuncts | itself | a deletion that shares the user or has yet to forget the role, a request that fell behind, a write that stores a role whose user is gone |
| `Provisioning_overlap` | `LooseGrantsHaveCause` without any one of its disjuncts | itself | without any failure a role moved to another bucket (`path_roles.go:169`) or a ttl refused after provisioning (`path_roles.go:181-186`) leaves a grant that no deletion takes back; "Deleting the role reverses both steps" (`README.md:86`), "deleting the role takes it back out" (`path_roles.go:51`) |
| `Provisioning_overlap` | `Exclusive = {}`, two users called `reader` | `EngineKeepsItsAccess`, `PolicyChangesAsAsked` | two requests create a reader each; the policy names one and the engine finds the other |
| `Provisioning_overlap` | a role whose `UserName` is `reader` (a role called `vault-policy-reader`) | `EngineKeepsItsAccess` | the engine deletes its own reader with the role |
| `Provisioning_overlap` | `Blanket = {cdn}`, `Legible <- Faithful`, both statements in the bucket | `EngineKeepsItsAccess`, `PolicyChangesAsAsked` | a statement that names everybody let the engine read; dropped before an adoption, it leaves a policy the engine wrote and cannot read |
| `Provisioning_overlap` | `PolicyChangesAsAsked` with `policy[b]` in place of `Decoded(policy[b], Legible)` | itself | a statement with a field the engine does not know loses it; "Statements it did not write are left alone" (`README.md:85`), "keeping every statement it was given" (`path_adopt.go:51-52`) |

One sentence needs no run: `README.md:238` says that after a rotation "anything
holding the previous key keeps working until it re-reads", and `Drop` deletes that
key right after `Store`.  What a reader may rely on instead is `PromisedKeyKept`.

### Bounds

Names are model values.  Two keys are enough for one key to be swept while
another one is leased or foreign; keys of different roles only meet through
their user.  Two handlers let one operation run inside another one (one is enough for what
`LeasedKeys_liveness` asks, and for the bounds of `Provisioning_serial`, see below); a third in
`EngineConfig` lets a change, a fill and a reset interleave, and is the periodic
call in `StaticRoles`.  `AgeCap` is no less than any age a sweep of the run asks
for, so counting further changes no comparison; `Horizon` plays the same part.
Lease times of one or two ticks let a lease be renewed, expire and be swept
across one another.  `LeasedKeys_sweep` sweeps keys of three ticks, the longest
lease plus the latency: with less `LeasedKeyWorks` fails.  Its keys of others are a static one and
one whose name says three ticks.  `LeasedKeys_liveness` has two users in two
accounts and two settings, one for each; the configuration moves to the other account when
nothing is open in the first (`CleanSpec`).  Of its two keys the second in the list is
`Undeletable`.  Passwords generated are never used again; two of them are
two rotations, and two chosen ones a write of the right password after either.
`EngineConfig_changes` has one service user; with two of them and one chosen password
(1 356 010 states) the same holds.  In `StaticRoles` a key nobody mentions may be handed out
again, which makes a few keys stand for as many as needed; a lost key shows when
it is lost (`StraysOnlyByFailure`), and `StoredKeyWorks` never looks at a key that is not
mentioned.  `StaticRoles_readers` has one handler beside the periodic one, since
operations on a role are apart there, and five keys, so that rotations can mint while
the readers of both roles hold older keys.

In `Provisioning` a name has as many slots as users of that name can be told apart.
`Provisioning_serial` has three under the one name both roles' users bear: one of
somebody else's and two of the engine's; one request at a time, because what it asks is what
sharing a name, failures and retries do, and two requests are the question of `Provisioning_overlap`.  That run has one there, and two for
temporary admins, one for each request; one role and one bucket, because that is where two requests
collide.  There is one
reading key, so two requests read one after the other, but each keeps what it has
read while the other one goes on, which is what a stale policy takes.  As with keys
of static roles, a temporary user or key that nobody mentions any more may stand for
a new one, and is counted when it is left behind.  The bucket has one statement of others (`cdn`),
which decoding strips of a field (`bare`) and a drop may take out; that policy is the copy
adoptions are given.  `Provisioning_serial` binds its dynamic role to a user of somebody else's
from time to time, but not one the engine named a user for (`"rebind"`).  The theorems need
none of these bounds.

Symmetry is declared over keys, users and handlers where no
temporal property is checked that depends on one of them.  No run switches off
the check for deadlock.

### Fairness

* `LeasedKeys`: the clock ticks; Vault's expiration manager expires leases and
  ends trying to revoke one, with the key deleted or not (weak: `Revoke` or `GiveUp`; nothing
  says that it ever succeeds); a request with its key in hand ends; an operator sweeps again and
  again, as the README asks ("Run it on a schedule"), and its calls do not fail every time
  (strong), except for a key that cannot be deleted.  A creation whose answer is lost is not excluded.
* `EngineConfig`: goroutines that hold or wait for the lock get on (`Reset`
  strongly, because `GetFill` keeps taking the lock), and a call to Selectel ends,
  by `requestTimeout` if nothing else.  A crash in between is not excluded.
* `StaticRoles`: Vault calls the periodic function again and again (the plugin's
  `PeriodicFunc`); its calls return; for a role that is not broken minting and
  storing do not fail every time (strong).  Operators are not fair at all.

## What is proved

All proofs are of `Spec => []P` (or `[][A]_vars`, or the abstract specification) for any sets of
keys, users, roles and handlers and any bounds, from the named `ASSUME`s on the constants, what
the theorem's own `ASSUME` adds, and, for what operators do, an action formula beside `Spec`
(`MovesCleanly`, `CutsShort`).

| Theorem | Statement | Under |
| --- | --- | --- |
| `KeyCustodyProofs!OwedKeysAlwaysWork` | `OwedKeysWork`: a key owed to somebody works | - |
| `LeasedKeysProofs!Typed` | `TypeOK` | - |
| `LeasedKeysProofs!LeasedKeysWork` | `LeasedKeyWorks` | `SafeSweeps`: every sweep spares the longest lease of the user plus the latency |
| `LeasedKeysProofs!EndedLeasesLeaveNoKey` | `EndedLeaseLeavesNoKey` | `MovesCleanly`: the configuration moves to an account only when nothing is open in another |
| `LeasedKeysProofs!KeysGoForCause` | `KeysDeletedForCause` | - |
| `LeasedKeysProofs!LeasesKeepCustody` | `KeysInCustody`: `LeasedKeys` implements `KeyCustody` | `SafeSweeps`, `MovesCleanly` |
| `LeasedKeysProofs!OrphansComeOfFailure` | `OrphansOnlyByFailure` | `MovesCleanly` |
| `LeasedKeysProofs!OneAccountIsClean` | `[][MovesCleanly]_vars` | there is one account |
| `EngineConfigProofs!ConfigTyped` | `TypeOK` | - |
| `EngineConfigProofs!ClientStaysFresh` | `ClientFresh` | rotations apart from other changes |
| `EngineConfigProofs!LockoutComesOfFailure` | `LockedOutOnlyByFailure` | rotations apart from other changes |
| `StaticRolesProofs!StaticTyped` | `TypeOK` | - |
| `StaticRolesProofs!StoredKeysWork` | `StoredKeyWorks` | `Apart`: operations on one role do not overlap |
| `StaticRolesProofs!UsersStayOwn` | `OwnUser` | `Apart` |
| `StaticRolesCustody!RolesKeepCustody` | `KeysInCustody`: `StaticRoles` implements `KeyCustody` | `Apart` |
| `StaticRolesCustody!StraysComeOfFailure` | `StraysOnlyByFailure` | `Apart` |
| `StaticRolesPromises!KeysStayUnscheduled` | `UnscheduledKeyStable` | `Apart` |
| `StaticRolesPromises!PromisesAreKept` | `PromisedKeyKept` | `Apart`; no write cuts a promise short (`CutsShort`) |
| `ProvisioningProofs!Typed` | `TypeOK` | - |
| `ProvisioningProofs!TemporariesComeOfFailure` | `TemporariesLeftOnlyByFailure` | - |
| `ProvisioningProofs!BoundUsersStay` | `BoundUsersKept` | no role with a user the engine chose is bound to another |
| `ProvisioningProofs!AccessStays` | `EngineKeepsItsAccess` | `OneReader`: requests do not meet the reader's creation, no statement names everybody, no role's user is called like the reader |
| `ProvisioningProofs!ChangesRepeat` | a change of a policy made twice is the change made once | - |
| `ProvisioningProofs!ChangesCommute` | changes for different users come to the same in either order | they name one reader |
| `ProvisioningPromises!RolesStayServed` | `RolesServed` | `OneReader` |
| `ProvisioningPromises!PoliciesChangeAsAsked` | `PolicyChangesAsAsked` | `OneReader` |
| `ProvisioningPromises!LooseGrantsComeOfCauses` | `LooseGrantsHaveCause` | `OneReader` |

The last three let requests overlap on roles and buckets as they like, fail, lose answers and end
with the process, roles share names and users, users of others be called anything but the
reader or an admin, adoptions fail to read and decoding lose fields.

No assumption is there for the proof's sake alone: lacking it, a property it is asked for
fails.
`SafeSweeps`: the variations with `Ages = {2}` and with `Lowered`.  `MovesCleanly`: the one
where the configuration moves at any moment; `LeasedKeys_sweep` has one account, where it always
holds (`OneAccountIsClean`), `LeasedKeys_liveness` has two and assumes it.
Rotations apart: that of `EngineConfig_changes` with `Exclusive = {}`.
`Apart` of `StaticRoles`: `StaticRoles_overlap` and the variation of `StaticRoles_serial`.
`CutsShort`: the variation of `StaticRoles_readers`; with the periods of that run no write
cuts a promise short, so there the property holds as it stands.
No rebinding: `Provisioning_rebind`.  `OneReader`: the
variations of `Provisioning_overlap`, one for each of its three parts.

The arguments.

* `LeasedKeysWork`.  The property says nothing of how a sweep comes to spare a key.
  The invariant `Custody` does: a lease's end plus the age of its key never exceeds
  what some accepted role of that user allows plus the latency (`LeaseKnown`),
  a key on its way to its lease is young (`MintedKeyKnown`), and a key about to be
  swept is of the role's user and at least as old as asked (`SweptKeyKnown`).  With
  `SafeSweeps` the two cannot be the same key.
* `EndedLeasesLeaveNoKey`.  The lease remembers the user of its key, and revocation takes
  404 for success, so the client has to be one that reaches that user.  The invariant
  `Home` says that what is open (keys of leases not ended, keys a request has in hand or
  is about to mint through the client it holds) is in the account configured.  A key
  minted through the old client while the configuration moves is why requests are part
  of it.
* `ClientStaysFresh`.  A client may be stale only while someone is pending; so the
  invariant `Coherent` has to say what a handler at `fill` has read (`FillKnown`:
  the stored configuration, or someone is pending who waits for the lock) and
  what a rotation put back leaves (`RotationKnown`).
* `KeysGoForCause` needs of `Custody` only that a lease remembers the user of its own key
  and that what a sweep is about to delete was listed for the role's user and is as old as its name says.
* `LockoutComesOfFailure` adds to `Coherent` what a request about to store will store
  (`PasswordKnown`, in `LoginKnown`): a write stores what was right when it began, and it
  still is, since what Selectel accepts changes in a rotation or by hand only and both keep off writes.
* `StoredKeysWork`.  The invariant `Custody` of `StaticRoles` says of a role that its
  user is named for it and its key works until it is being deleted
  (`RoleKnown`), and of an operation that what it holds agrees with the store
  (`Facts`).  Lemma `StepAt` reduces a step to the one role it is about: every other
  role is untouched because its users keep their name and the keys it mentions
  their user (`Spared`).  `UsersStayOwn` follows, since a user has one name.
* The two refinements take the steps of the code one at a time: each is one step of
  `KeyCustody` or leaves its variables alone.  That a key minted is free before, and
  that one dropped is due, has to be known of every request at once; for
  `StaticRoles` the invariant `Trace` says so (a key just minted is mentioned nowhere
  else, and a request holds the keys its role has or has had).
* `KeysStayUnscheduled` needs to know why the periodic call holds a role: `Scheduled` adds
  to `Trace` that the role it rotates is due until the new key is stored, and a role
  without a period never is.
* `PromisesAreKept`.  A promise is made when the role is read and broken, if at all, by a
  key dropped much later.  The invariant `Promised` links the two: a reader's promise
  ends no later than the period of the role (`PromiseStands`), so that a due role has
  none left; what the periodic call drops after storing the new key was promised to
  nobody any more (`PromiseOver`); a write keeps the age of the key it keeps
  (`AgeKept`), without which writing a role would prolong what readers are told.
* `AccessStays`.  Requests may overlap on one policy and the second write may undo the
  first; that both name the reader is another matter.  The invariant `Guarded` says
  that no role has the reader for its user (`Bystanders`), that there is one reader,
  which all requests find (`Readers`), and that a policy that differs from what the
  bucket had before the engine, be it in S3 or in a request's hand, names that
  reader (`Access`).  A policy read through the reader names it because nothing else
  shows it to the reader, so an old policy written back names it too.
* `PoliciesChangeAsAsked` and the two beside it.  The invariant `Knows` says what a request
  that has not fallen behind knows: what it has read is the policy there is
  (`KnowsRead`), what it could not read is the policy there was before the engine
  (`KnowsUnread`, from `Access`: Selectel shows the engine's reader whatever the engine has
  written), what it is about to write is that policy with its change (`KnowsChange`), and
  once it has written, its user is granted or no longer (`KnowsDone`).  Another
  request can only spoil this by changing that policy, and then the first is behind.
  A role is stored or forgotten with what its request knows, and `RolesServed` and
  `LooseGrantsHaveCause` follow step by step.
* `ChangesCommute` says what overlapping requests can and cannot do to each other: the
  order of two changes does not matter, only that the second starts from what the
  first has written.
* `TemporariesComeOfFailure` needs no assumption on what overlaps, since a request
  remembers its admin and its key by itself until it has tried to delete them
  (`CallOK`).  `BoundUsersStay` needs only that `ServiceUserName` is set for no user
  but one found or created under the role's name.

Every inductive invariant was checked by TLC on small instances before it was proved, those
of `Provisioning` (`Based`: `Guarded`, `Knows` and the types) on the instances of `Provisioning_serial` and
`Provisioning_overlap`.

Only model-checked is what holds under fairness (`LeasedKeysDie`, `OrphansSwept`,
`StaleClientDropped`, `DueRolesRotate`), which TLAPS does not reach.  Every invariant and
every action property of a passing run has a theorem, under the assumptions above.

## What is not modelled

* The token cache of `client.authenticate` and its lock: a call waits longer or fails,
  and both may happen to any call here.
* The keys of leases in force that go with the service user of a deleted role:
  `LeasedKeys` has roles bound to existing users, `Provisioning` has no leases.  The
  hazards list it without a property.
* Policies edited by hand between an engine's read and its write: the engine has no
  way to notice, and S3 no conditional write that it uses.
* Formats, defaults of URLs, signing of S3 requests, wording: nothing here depends on
  them.
* `main.go` starts the plugin server.

## Plan

Written, in the order of what matters most: `LeasedKeys`, `EngineConfig`,
`StaticRoles`, then `KeyCustody` with its two implementations, `BucketPolicy` and
`Provisioning`, each with its proofs.

Next:

1. `LeasedKeys` composed with the service users of `Provisioning`: leases of a role
   whose user the engine made, and what becomes of them when the role is deleted or
   moves to another user.
2. Theorems about that composition, starting from `EndedLeasesLeaveNoKey`.
3. `Token`: the token cache, its early renewal and the lock held during the call, if
   what a call costs should come to matter to a property.
