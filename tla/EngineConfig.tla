---------------------------- MODULE EngineConfig ----------------------------
(***************************************************************************)
(* The engine's own credential: the stored configuration, the client the   *)
(* plugin builds from it and caches, and rotate-root, which replaces the   *)
(* password the engine logs in with.                                       *)
(*                                                                         *)
(* Storage and the cached client change in separate steps, and the lock    *)
(* around the client does not cover storage, so requests run in between.   *)
(* A configuration is the service user it names and its password; account, *)
(* URLs and region go with them.                                           *)
(***************************************************************************)
EXTENDS Naturals, FiniteSets

CONSTANTS
  Users,       \* service users the configuration may name
  Passwords,   \* every password
  Chosen,      \* those among them an operator chose; the others are generated
  Handlers,    \* requests the plugin serves at one time
  Operations,  \* what callers ask for
  Exclusive,   \* operations no caller runs beside another change of the config
  Faults,      \* of {"abort", "lost", "crash", "unrestored"}
  NoUser, NoPassword

Changes == {"write", "delete", "rotate", "invalidate"}

ASSUME ConstantsAssumption ==
  /\ Chosen \subseteq Passwords
  /\ Operations \subseteq Changes \cup {"request", "provision"}
  /\ Exclusive \subseteq Changes
  /\ Faults \subseteq {"abort", "lost", "crash", "unrestored"}

ASSUME AbsentAssumption == NoUser \notin Users /\ NoPassword \notin Passwords

Configs == [user : Users, password : Passwords]

NoConfig == [user |-> NoUser, password |-> NoPassword]

VARIABLES
  stored,  \* the configuration in Vault's storage
  client,  \* the configuration the cached client was built from
  actual,  \* the password Selectel accepts for each service user
  used,    \* passwords generated so far
  warned,  \* a rotation could not be put back, and no client was dropped since
  call     \* what each handler is doing, with the values it read before

vars == <<stored, client, actual, used, warned, call>>

(* call[h].mine is the configuration the operation works on, read what     *)
(* getClient read under the lock or provisionRole read again afterwards.   *)
Calls ==
  [pc : {"idle", "store", "drop", "reset", "begin", "client", "fill", "save", "patch",
         "restore", "config", "bucket"},
   op : Changes \cup {"request", "provision", "none"},
   mine : Configs \cup {NoConfig}, new : Passwords \cup {NoPassword}, read : Configs \cup {NoConfig}]

Idle == [pc |-> "idle", op |-> "none", mine |-> NoConfig,
         new |-> NoPassword, read |-> NoConfig]

TypeOK ==
  /\ stored \in Configs \cup {NoConfig}
  /\ client \in Configs \cup {NoConfig}
  /\ actual \in [Users -> Passwords]
  /\ used \subseteq Passwords
  /\ warned \in BOOLEAN
  /\ call \in [Handlers -> Calls]

Init ==
  /\ stored = NoConfig /\ client = NoConfig
  /\ actual \in [Users -> Chosen]
  /\ used = {} /\ warned = FALSE
  /\ call = [h \in Handlers |-> Idle]

Changing(h) == call[h].op \in Changes

(* An exclusive operation runs beside no other change of the config.       *)
MayBegin(h, op) ==
  /\ op \in Operations /\ call[h].pc = "idle"
  /\ op \in Changes => \A g \in Handlers :
       Changing(g) => op \notin Exclusive /\ call[g].op \notin Exclusive

Go(h, c) == call' = [call EXCEPT ![h] = c]
Finish(h) == Go(h, Idle)

-----------------------------------------------------------------------------
(***************************************************************************)
(* config: write and delete, and Vault's own invalidation.                 *)
(***************************************************************************)

(* A write replaces the fields it is given in the configuration it read.   *)
Merge(c, u, p) ==
  [user |-> IF u = NoUser THEN c.user ELSE u,
   password |-> IF p = NoPassword THEN c.password ELSE p]

(* The operator asks for what Selectel accepts at that moment.  The code   *)
(* does not look: a wrong password is stored as it is given.               *)
RightNow(c) == c \in Configs => actual[c.user] = c.password

WriteBeginUnchecked(h, u, p) ==
  /\ MayBegin(h, "write")
  /\ RightNow(Merge(stored, u, p))
  /\ Go(h, [Idle EXCEPT !.pc = "store", !.op = "write", !.mine = Merge(stored, u, p)])
  /\ UNCHANGED <<stored, client, actual, used, warned>>

(* A write that leaves the user or the password missing is refused.        *)
WriteBegin(h, u, p) ==
  LET c == Merge(stored, u, p)
  IN  /\ MayBegin(h, "write")
      /\ c.user # NoUser /\ c.password # NoPassword
      /\ RightNow(c)
      /\ Go(h, [Idle EXCEPT !.pc = "store", !.op = "write", !.mine = c])
      /\ UNCHANGED <<stored, client, actual, used, warned>>

WriteStore(h) ==
  /\ call[h].pc = "store"
  /\ stored' = call[h].mine
  /\ Go(h, [call[h] EXCEPT !.pc = "reset"])
  /\ UNCHANGED <<client, actual, used, warned>>

DeleteBegin(h) ==
  /\ MayBegin(h, "delete")
  /\ Go(h, [Idle EXCEPT !.pc = "drop", !.op = "delete"])
  /\ UNCHANGED <<stored, client, actual, used, warned>>

DeleteStoreOnly(h) ==
  /\ call[h].pc = "drop"
  /\ stored' = NoConfig
  /\ Finish(h)
  /\ UNCHANGED <<client, actual, used, warned>>

DeleteStore(h) ==
  /\ call[h].pc = "drop"
  /\ stored' = NoConfig
  /\ Go(h, [call[h] EXCEPT !.pc = "reset"])
  /\ UNCHANGED <<client, actual, used, warned>>

InvalidateBegin(h) ==
  /\ MayBegin(h, "invalidate")
  /\ Go(h, [Idle EXCEPT !.pc = "reset", !.op = "invalidate"])
  /\ UNCHANGED <<stored, client, actual, used, warned>>

(* A handler that is filling the cache holds the write lock.               *)
Locked == \E g \in Handlers : call[g].pc = "fill"

ResetUnlocked(h) ==
  /\ call[h].pc = "reset"
  /\ client' = NoConfig /\ warned' = FALSE
  /\ Finish(h)
  /\ UNCHANGED <<stored, actual, used>>

Reset(h) ==
  /\ call[h].pc = "reset"
  /\ ~Locked
  /\ client' = NoConfig /\ warned' = FALSE
  /\ Finish(h)
  /\ UNCHANGED <<stored, actual, used>>

-----------------------------------------------------------------------------
(***************************************************************************)
(* getClient: the cached client, or one built from storage under the lock. *)
(***************************************************************************)

UseBegin(h, op) ==
  /\ op \in {"request", "provision"} /\ MayBegin(h, op)
  /\ Go(h, [Idle EXCEPT !.pc = "client", !.op = op])
  /\ UNCHANGED <<stored, client, actual, used, warned>>

(* Where the handler goes with its client.                                 *)
WithClient(c) ==
  CASE c.op = "rotate"    -> [c EXCEPT !.pc = "save"]
    [] c.op = "provision" -> [c EXCEPT !.pc = "config"]
    [] OTHER              -> Idle

GetCached(h) ==
  /\ call[h].pc = "client" /\ client # NoConfig
  /\ ~Locked
  /\ Go(h, WithClient(call[h]))
  /\ UNCHANGED <<stored, client, actual, used, warned>>

GetMissing(h) ==
  /\ call[h].pc = "client" /\ client = NoConfig /\ stored = NoConfig
  /\ ~Locked
  /\ Finish(h)
  /\ UNCHANGED <<stored, client, actual, used, warned>>

GetRead(h) ==
  /\ call[h].pc = "client" /\ client = NoConfig /\ stored # NoConfig
  /\ ~Locked
  /\ Go(h, [call[h] EXCEPT !.pc = "fill", !.read = stored])
  /\ UNCHANGED <<stored, client, actual, used, warned>>

GetFill(h) ==
  /\ call[h].pc = "fill"
  /\ client' = call[h].read
  /\ Go(h, WithClient(call[h]))
  /\ UNCHANGED <<stored, actual, used, warned>>

(* provisionRole and deprovisionRole read the configuration again once     *)
(* they have a client, for the S3 endpoint, and follow it after further    *)
(* calls to Selectel.                                                      *)
ReadAgain(h) ==
  /\ call[h].pc = "config"
  /\ Go(h, [call[h] EXCEPT !.pc = "bucket", !.read = stored])
  /\ UNCHANGED <<stored, client, actual, used, warned>>

UseEndpoint(h) ==
  /\ call[h].pc = "bucket" /\ call[h].read # NoConfig
  /\ Finish(h)
  /\ UNCHANGED <<stored, client, actual, used, warned>>

(* The plugin dies: of a missing configuration it follows, or by itself.   *)
Die ==
  /\ \/ \E h \in Handlers : call[h].pc = "bucket" /\ call[h].read = NoConfig
     \/ "crash" \in Faults
  /\ client' = NoConfig /\ warned' = FALSE
  /\ call' = [h \in Handlers |-> Idle]
  /\ UNCHANGED <<stored, actual, used>>

-----------------------------------------------------------------------------
(***************************************************************************)
(* rotate-root: store the new password, then set it in Selectel, and put   *)
(* the old one back if Selectel refuses.                                   *)
(***************************************************************************)

RotateBegin(h) ==
  /\ MayBegin(h, "rotate")
  /\ stored # NoConfig
  /\ Go(h, [Idle EXCEPT !.pc = "client", !.op = "rotate", !.mine = stored])
  /\ UNCHANGED <<stored, client, actual, used, warned>>

RotateSave(h, p) ==
  /\ call[h].pc = "save"
  /\ p \in Passwords \ (Chosen \cup used)
  /\ used' = used \cup {p}
  /\ stored' = [call[h].mine EXCEPT !.password = p]
  /\ Go(h, [call[h] EXCEPT !.pc = "patch", !.new = p])
  /\ UNCHANGED <<client, actual, warned>>

(* The client may still hold a token from before, so Selectel may accept   *)
(* the call whatever password the client was built with.                   *)
Patch(h) ==
  /\ call[h].pc = "patch"
  /\ actual' = [actual EXCEPT ![call[h].mine.user] = call[h].new]
  /\ UNCHANGED <<stored, client, used, warned>>

RotatePatch(h) == Patch(h) /\ Go(h, [call[h] EXCEPT !.pc = "reset"])

RotateRefused(h) ==
  /\ call[h].pc = "patch"
  /\ Go(h, [call[h] EXCEPT !.pc = "restore"])
  /\ UNCHANGED <<stored, client, actual, used, warned>>

(* The password is set, the answer is lost.                                *)
RotatePatchLost(h) ==
  /\ "lost" \in Faults
  /\ Patch(h)
  /\ Go(h, [call[h] EXCEPT !.pc = "restore"])

RotateForgetRestore(h) ==
  /\ call[h].pc = "restore"
  /\ Finish(h)
  /\ UNCHANGED <<stored, client, actual, used, warned>>

RotateRestore(h) ==
  /\ call[h].pc = "restore"
  /\ stored' = call[h].mine
  /\ Finish(h)
  /\ UNCHANGED <<client, actual, used, warned>>

(* Storage refuses to take the old configuration back.  The request ends,  *)
(* its answer tells the operator to set a password by hand and write it to *)
(* config, and the client stays as it is.                                  *)
RestoreRefused(h) ==
  /\ "unrestored" \in Faults
  /\ call[h].pc = "restore"
  /\ warned' = TRUE
  /\ Finish(h)
  /\ UNCHANGED <<stored, client, actual, used>>

(* The operator does so some time later, past the engine and at a moment   *)
(* when no change of the configuration is under way; writing it to config  *)
(* is a write like any other.                                              *)
SetByHand(p) ==
  /\ warned /\ stored # NoConfig
  /\ \A h \in Handlers : ~Changing(h)
  /\ actual' = [actual EXCEPT ![stored.user] = p]
  /\ UNCHANGED <<stored, client, used, warned, call>>

-----------------------------------------------------------------------------
(* Storage refuses a write, or no password can be generated.               *)
Abort(h) ==
  /\ "abort" \in Faults
  /\ call[h].pc \in {"store", "drop", "save"}
  /\ Finish(h)
  /\ UNCHANGED <<stored, client, actual, used, warned>>

Administer(h) ==
  \/ \E u \in Users \cup {NoUser}, p \in Chosen \cup {NoPassword} : WriteBegin(h, u, p)
  \/ WriteStore(h) \/ DeleteBegin(h) \/ DeleteStore(h) \/ InvalidateBegin(h) \/ Reset(h)

GetClient(h) == GetCached(h) \/ GetMissing(h) \/ GetRead(h) \/ GetFill(h)

Use(h) ==
  \/ \E op \in {"request", "provision"} : UseBegin(h, op)
  \/ ReadAgain(h) \/ UseEndpoint(h)

RotateRoot(h) ==
  \/ RotateBegin(h)
  \/ \E p \in Passwords : RotateSave(h, p)
  \/ RotatePatch(h) \/ RotateRefused(h) \/ RotatePatchLost(h) \/ RotateRestore(h)
  \/ RestoreRefused(h)

Next ==
  \/ \E h \in Handlers : Administer(h) \/ GetClient(h) \/ Use(h) \/ RotateRoot(h) \/ Abort(h)
  \/ \E p \in Chosen : SetByHand(p)
  \/ Die

Spec == Init /\ [][Next]_vars

(* A goroutine that holds the lock or waits for it gets on, and a call to  *)
(* Selectel ends, by its timeout if nothing else.                          *)
FairSpec ==
  /\ Spec
  /\ \A h \in Handlers :
       /\ SF_vars(Reset(h)) /\ WF_vars(GetFill(h))
       /\ WF_vars(RotatePatch(h) \/ RotateRefused(h)) /\ WF_vars(RotateRestore(h) \/ RestoreRefused(h))

-----------------------------------------------------------------------------
(***************************************************************************)
(* Properties.                                                             *)
(***************************************************************************)

(* A rotation that has stored its password and has yet to hear of it.      *)
Rotating(h) == call[h].pc \in {"patch", "restore"}

(* Some request has changed storage and has yet to drop the client.        *)
Pending == \E h \in Handlers : Changing(h) /\ (call[h].pc = "reset" \/ Rotating(h))

(* A cached client differs from the stored configuration only while the    *)
(* request that changed storage has yet to drop it, or while the operator  *)
(* has yet to follow up a rotation that could not be put back (reset in    *)
(* pathConfigWrite, pathConfigDelete and pathRotateRoot; the double check  *)
(* in getClient).                                                          *)
ClientFresh == client \notin {NoConfig, stored} => Pending \/ warned

(* The engine has lost its own account: what is stored, or during a        *)
(* rotation what it can go back to, is not what Selectel accepts.          *)
LockedOut ==
  IF \E h \in Handlers : Rotating(h)
  THEN \E h \in Handlers : Rotating(h) /\ actual[call[h].mine.user] # call[h].mine.password
  ELSE stored # NoConfig /\ actual[stored.user] # stored.password

(* An engine that has the right password loses it in one of four ways: the *)
(* answer that the new one is set is lost, storage refuses to take the old *)
(* one back, the plugin dies in a rotation, or the operator sets one by    *)
(* hand as that refusal asks.  No write, deletion or invalidation of the   *)
(* configuration beside other requests does it, nor a rotation that        *)
(* Selectel refuses (pathRotateRoot).                                      *)
LockedOutOnlyByFailure ==
  [][~LockedOut /\ LockedOut' =>
       \/ Die \/ \E p \in Chosen : SetByHand(p)
       \/ \E h \in Handlers : RotatePatchLost(h) \/ RestoreRefused(h)]_vars

(* A rotation that fails does not lock the engine out of its own account   *)
(* (path_rotate_root.go: "so a failed rotation can be rolled back rather   *)
(* than locking the engine out of its own account").                       *)
NeverLockedOut == ~LockedOut

(* A request finds a configuration or is told that there is none           *)
(* (provision.go, errMissingConfig): it never follows one that is not      *)
(* there.                                                                  *)
ConfigNeverMissing ==
  \A h \in Handlers : call[h].pc = "bucket" => call[h].read # NoConfig

(* A stale client does not stay: it is dropped, storage changes back, or   *)
(* the operator was told that storage could not be changed back.           *)
StaleClientDropped ==
  client \notin {NoConfig, stored} ~> (client \in {NoConfig, stored} \/ warned)

=============================================================================
