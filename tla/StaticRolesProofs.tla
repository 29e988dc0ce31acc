--------------------------- MODULE StaticRolesProofs ---------------------------
(***************************************************************************)
(* Theorems about StaticRoles, for any roles, users, keys and number of    *)
(* requests at one time.                                                   *)
(***************************************************************************)
EXTENDS StaticRoles, TLAPS

-----------------------------------------------------------------------------
(***************************************************************************)
(* What the proofs rest on.                                                *)
(***************************************************************************)

(* No two operations on one role overlap.                                  *)
Apart == Exclusive = Changes

AloneOnRole ==
  \A g, h \in Handlers : call[g].role # NoName /\ call[g].role = call[h].role => g = h

(* Each stage belongs to the operations that pass through it.              *)
StageKnown(h) ==
  /\ call[h].pc = "idle" <=> call[h].role = NoName
  /\ call[h].pc = "idle" <=> call[h].op = "none"
  /\ call[h].pc \in {"find", "user"} => call[h].op = "write"
  /\ call[h].pc \in {"mint", "store"} => call[h].op \in {"write", "rotate", "periodic"}
  /\ call[h].pc = "drop" => call[h].op \in {"rotate", "periodic"}
  /\ call[h].pc \in {"remove", "forget", "again"} => call[h].op = "delete"

(* A stored role has a user named for it and a key of that user, until it  *)
(* is being deleted.                                                       *)
RoleKnown(r) ==
  /\ store[r].user = NoUser => store[r] = NoRole
  /\ store[r].user # NoUser =>
       /\ store[r].key \in Keys
       /\ name[store[r].user] \in {r, NoName}
       /\ ~Deleting(r) => /\ name[store[r].user] = r
                          /\ cred[store[r].key] = store[r].user

(* What an operation holds of its role agrees with what is stored.         *)
WriteKnown(h) == call[h].op = "write" =>
  /\ call[h].pc \in {"find", "user", "mint"} =>
       call[h].mine.key = NoKey /\ store[call[h].role] = NoRole
  /\ call[h].pc \in {"mint", "store"} =>
       call[h].mine.user \in Users /\ name[call[h].mine.user] = call[h].role
  /\ call[h].pc = "store" =>
       /\ call[h].mine.key \in Keys /\ cred[call[h].mine.key] = call[h].mine.user
       /\ store[call[h].role].key \in {NoKey, call[h].mine.key}

RotateKnown(h) == call[h].op \in {"rotate", "periodic"} =>
  /\ call[h].mine.user = store[call[h].role].user /\ call[h].mine.user # NoUser
  /\ call[h].pc \in {"mint", "store"} => call[h].old = store[call[h].role].key
  /\ call[h].pc \in {"store", "drop"} =>
       /\ call[h].mine.key \in Keys /\ call[h].mine.key # call[h].old
       /\ cred[call[h].mine.key] = call[h].mine.user
  /\ call[h].pc = "drop" => call[h].mine.key = store[call[h].role].key

DeleteKnown(h) ==
  call[h].pc = "remove" => call[h].mine.user = store[call[h].role].user /\ call[h].mine.user # NoUser

Facts(h) == WriteKnown(h) /\ RotateKnown(h) /\ DeleteKnown(h)

Sound(r) == RoleKnown(r) /\ \A h \in Handlers : On(h, r) => Facts(h)

(* The inductive invariant.                                                *)
Custody ==
  /\ TypeOK /\ AloneOnRole
  /\ \A h \in Handlers : StageKnown(h)
  /\ \A r \in Roles : Sound(r)

(* A key just minted is mentioned nowhere but by the request that minted   *)
(* it.                                                                     *)
MintedKeyFresh(h) == \A k \in Keys : Minting(h, k) =>
  /\ \A r \in Roles : store[r].key # k
  /\ call[h].old # k
  /\ \A g \in Handlers \ {h} : k \notin {call[g].mine.key, call[g].old}

(* What a request holds of keys: nothing when idle, else the key its role  *)
(* has in storage, until it holds the one that replaces it.                *)
KeysTraced(h) ==
  /\ call[h].pc = "idle" => call[h].mine.key = NoKey /\ call[h].old = NoKey
  /\ call[h].pc \in {"find", "user", "mint"} => call[h].mine.key = call[h].old
  /\ call[h].pc \in {"find", "user", "mint", "store"} =>
       call[h].old \in {NoKey, store[call[h].role].key}
  /\ call[h].pc = "drop" =>
       call[h].old # NoKey /\ cred[call[h].old] \in {call[h].mine.user, NoUser}
  /\ call[h].op = "delete" =>
       /\ call[h].mine.user = store[call[h].role].user /\ call[h].mine.user # NoUser
       /\ call[h].mine.key = store[call[h].role].key /\ call[h].old = call[h].mine.key

(* A stored key works for its role's user or not at all, and a key works   *)
(* only for a user that is there.                                          *)
CredTraced ==
  /\ \A r \in Roles : store[r].key # NoKey => cred[store[r].key] \in {store[r].user, NoUser}
  /\ \A k \in Keys : cred[k] # NoUser => name[cred[k]] # NoName

(* The inductive invariant behind KeysInCustody and StraysOnlyByFailure.   *)
Trace ==
  /\ Custody /\ CredTraced
  /\ \A h \in Handlers : KeysTraced(h) /\ MintedKeyFresh(h)

-----------------------------------------------------------------------------
LEMMA Blank == /\ NoRole \in StaticRole /\ NoRole.user = NoUser /\ NoRole.key = NoKey
               /\ Idle \in Calls /\ Idle.pc = "idle" /\ Idle.op = "none" /\ Idle.role = NoName
               /\ Idle.mine = NoRole
BY ConstantsAssumption DEF NoRole, StaticRole, Idle, Calls

LEMMA AgedSame ==
  ASSUME NEW c \in StaticRole
  PROVE  /\ Aged(c) \in StaticRole
         /\ Aged(c).user = c.user /\ Aged(c).key = c.key
         /\ c = NoRole => Aged(c) = NoRole
<1>1. CASE c.key = NoKey
  BY <1>1 DEF Aged
<1>2. CASE c.key # NoKey
  <2>1. Least(c.since + 1, Horizon) \in 0 .. Horizon
    BY ConstantsAssumption DEF StaticRole, Least
  <2>2. Aged(c) = [c EXCEPT !.since = Least(c.since + 1, Horizon)]
    BY <1>2 DEF Aged
  <2>3. c # NoRole
    BY <1>2, Blank
  <2> QED BY <2>1, <2>2, <2>3 DEF StaticRole
<1> QED BY <1>1, <1>2

-----------------------------------------------------------------------------
LEMMA MintTyped ==
  ASSUME NEW c \in Calls, NEW m \in StaticRole
  PROVE  [c EXCEPT !.pc = "mint", !.mine = m] \in Calls
BY DEF Calls

LEMMA TypeStep == TypeOK /\ (\A h \in Handlers : StageKnown(h)) /\ [Next]_vars => TypeOK'
<1> SUFFICES ASSUME TypeOK, \A h \in Handlers : StageKnown(h), [Next]_vars PROVE TypeOK'
  OBVIOUS
<1> USE DEF TypeOK
<1>0. ASSUME NEW h \in Handlers, Finish(h) PROVE call' \in [Handlers -> Calls]
  <2>1. [Idle EXCEPT !.todo = call[h].todo] \in Calls
    BY Blank DEF Calls
  <2> QED BY <1>0, <2>1 DEF Finish, Go
<1>1. ASSUME NEW h \in Handlers, NEW op \in Changes, NEW r \in Roles, NEW mine \in StaticRole,
             NEW pc \in {"find", "mint", "store", "remove", "forget"}, Begin(h, op, r, pc, mine)
      PROVE  call' \in [Handlers -> Calls]
  <2>1. [pc |-> pc, op |-> op, role |-> r, mine |-> mine,
         old |-> mine.key, todo |-> call[h].todo \ {r}] \in Calls
    BY DEF Calls, StaticRole
  <2> QED BY <1>1, <2>1 DEF Begin, Go
<1>2. ASSUME NEW h \in Handlers, NEW u \in Users, WithUser(h, u)
      PROVE  call' \in [Handlers -> Calls]
  <2>0. [call[h].mine EXCEPT !.user = u] \in StaticRole
    <3>1. call[h].mine \in StaticRole
      BY DEF Calls
    <3> QED BY <3>1 DEF StaticRole
  <2>1. [call[h] EXCEPT !.pc = "mint", !.mine = [@ EXCEPT !.user = u]] \in Calls
    BY <2>0, MintTyped
  <2> QED BY <1>2, <2>1 DEF WithUser, Go
<1>3. ASSUME NEW h \in Handlers, Write(h) PROVE TypeOK'
  <2>1. ASSUME NEW r \in Roles, NEW p \in Periods, WriteBegin(h, r, p) PROVE TypeOK'
    <3>1. [store[r] EXCEPT !.period = p] \in StaticRole
      BY DEF StaticRole
    <3> QED BY <1>1, <2>1, <3>1 DEF WriteBegin, Changes
  <2>2. CASE FindUser(h)
    <3>1. ASSUME NEW u \in Users, WithUser(h, u) PROVE TypeOK'
      BY <1>2, <2>2, <3>1 DEF FindUser
    <3>2. CASE Go(h, [call[h] EXCEPT !.pc = "user"])
      <4>1. [call[h] EXCEPT !.pc = "user"] \in Calls
        BY DEF Calls
      <4> QED BY <2>2, <3>2, <4>1 DEF FindUser, Go
    <3> QED BY <2>2, <3>1, <3>2 DEF FindUser
  <2>3. ASSUME NEW u \in Users, CreateUser(h, u) \/ CreateUserLost(h, u) PROVE TypeOK'
    <3>1. name' \in [Users -> Roles \cup {NoName}]
      BY <2>3 DEF CreateUser, CreateUserLost, Calls
    <3> QED BY <1>0, <1>2, <2>3, <3>1 DEF CreateUser, CreateUserLost
  <2> QED BY <1>3, <2>1, <2>2, <2>3 DEF Write
<1>4. ASSUME NEW h \in Handlers, Rotate(h) PROVE TypeOK'
  <2>1. ASSUME NEW r \in Roles, RotateBegin(h, r) PROVE TypeOK'
    BY <1>1, <2>1 DEF RotateBegin, Changes
  <2>2. ASSUME NEW k \in Keys, Mint(h, k) PROVE TypeOK'
    <3>1. 0 \in 0 .. Horizon
      BY ConstantsAssumption
    <3>2. [call[h].mine EXCEPT !.key = k, !.since = 0] \in StaticRole
      <4>1. call[h].mine \in StaticRole
        BY DEF Calls
      <4> QED BY <3>1, <4>1 DEF StaticRole
    <3>3. [call[h] EXCEPT !.pc = "store", !.mine = [@ EXCEPT !.key = k, !.since = 0]] \in Calls
      BY <3>2 DEF Calls
    <3>4. cred' \in [Keys -> Users \cup {NoUser}]
      BY <2>2 DEF Mint, CreateCredential
    <3> QED BY <2>2, <3>3, <3>4 DEF Mint, CreateCredential, Go
  <2>3. ASSUME NEW k \in Keys, MintLost(h, k) PROVE TypeOK'
    BY <1>0, <2>3 DEF MintLost, CreateCredential
  <2>4. CASE Store(h)
    <3>1. store' \in [Roles -> StaticRole]
      BY <2>4 DEF Store, Calls
    <3>2. [call[h] EXCEPT !.pc = "drop"] \in Calls
      BY DEF Calls
    <3> QED BY <1>0, <2>4, <3>1, <3>2 DEF Store, Go
  <2>5. CASE Drop(h)
    BY <1>0, <2>5 DEF Drop
  <2> QED BY <1>4, <2>1, <2>2, <2>3, <2>4, <2>5 DEF Rotate
<1>5. ASSUME NEW h \in Handlers, Delete(h) PROVE TypeOK'
  <2>1. ASSUME NEW r \in Roles, DeleteBegin(h, r) PROVE TypeOK'
    BY <1>1, <2>1 DEF DeleteBegin, DeleteFrom, Changes
  <2>2. CASE Remove(h) \/ RemoveLost(h)
    BY <2>2 DEF Remove, RemoveLost, RemoveUser, Go, Calls
  <2>3. CASE Forget(h)
    BY <1>0, <2>3, Blank DEF Forget
  <2>4. CASE ForgetRefused(h)
    BY <2>4 DEF ForgetRefused, Go, Calls
  <2>5. CASE DeleteAgain(h)
    <3>1. call[h].role \in Roles
      BY <2>5 DEF DeleteAgain, StageKnown, Calls
    <3>2. [call[h] EXCEPT !.pc = DeleteFrom, !.mine = store[call[h].role]] \in Calls
      BY <3>1 DEF DeleteFrom, Calls
    <3> QED BY <1>0, <2>5, <3>2 DEF DeleteAgain, Go
  <2> QED BY <1>5, <2>1, <2>2, <2>3, <2>4, <2>5 DEF Delete
<1>6. ASSUME NEW h \in Handlers, Abort(h) PROVE TypeOK'
  BY <1>0, <1>6 DEF Abort
<1>7. CASE Periodic
  <2>1. Ticker \in Handlers
    BY ConstantsAssumption
  <2>2. CASE PeriodicBegin
    BY <2>1, <2>2, Blank DEF PeriodicBegin, Go, Calls
  <2>3. ASSUME NEW r \in Roles, PeriodicSkip(r) PROVE TypeOK'
    <3>1. [Idle EXCEPT !.todo = call[Ticker].todo \ {r}] \in Calls
      BY <2>1, Blank DEF Calls
    <3> QED BY <2>1, <2>3, <3>1 DEF PeriodicSkip, Go
  <2>4. ASSUME NEW r \in Roles, PeriodicRotate(r) PROVE TypeOK'
    BY <1>1, <2>1, <2>4 DEF PeriodicRotate, Changes
  <2> QED BY <1>7, <2>2, <2>3, <2>4 DEF Periodic
<1>8. ASSUME NEW r \in Roles, Read(r) PROVE TypeOK'
  <2>1. (IF store[r].period > store[r].since THEN store[r].period - store[r].since ELSE 0)
          \in 0 .. Horizon
    <3>1. store[r].period \in Periods \cup {0} /\ store[r].since \in 0 .. Horizon
      BY DEF StaticRole
    <3>2. \A p \in Periods \cup {0} : p \in Nat /\ p <= Horizon
      BY ConstantsAssumption
    <3>3. ASSUME NEW m \in Nat, NEW n \in Nat, m <= Horizon
          PROVE  (IF m > n THEN m - n ELSE 0) \in 0 .. Horizon
      BY <3>3, ConstantsAssumption
    <3>4. store[r].period \in Nat /\ store[r].since \in Nat /\ store[r].period <= Horizon
      BY <3>1, <3>2
    <3> QED BY <3>3, <3>4
  <2>2. store[r].key \in Keys \cup {NoKey}
    BY DEF StaticRole
  <2> QED BY <1>8, <2>1, <2>2 DEF Read, Answers
<1>9. CASE Configure
  BY <1>9 DEF Configure
<1>10. CASE Tick
  <2>1. store' \in [Roles -> StaticRole]
    BY <1>10, AgedSame DEF Tick
  <2>2. ASSUME NEW h \in Handlers PROVE [call[h] EXCEPT !.mine = Aged(@)] \in Calls
    BY AgedSame DEF Calls
  <2>3. ASSUME NEW r \in Roles
        PROVE  [held[r] EXCEPT !.ttl = IF @ > 0 THEN @ - 1 ELSE 0] \in Answers
    BY ConstantsAssumption DEF Answers
  <2> QED BY <1>10, <2>1, <2>2, <2>3 DEF Tick
<1>11. CASE UNCHANGED vars
  BY <1>11 DEF vars
<1> QED BY <1>3, <1>4, <1>5, <1>6, <1>7, <1>8, <1>9, <1>10, <1>11 DEF Next
-----------------------------------------------------------------------------
(***************************************************************************)
(* Stages, and operations on one role kept apart.                          *)
(***************************************************************************)
LEMMA StageStep ==
  ASSUME TypeOK, \A h \in Handlers : StageKnown(h), [Next]_vars, NEW g \in Handlers
  PROVE  StageKnown(g)'
<1> USE DEF TypeOK
<1>0. StageKnown(g)
  OBVIOUS
<1>1. CASE call'[g] = call[g]
  BY <1>0, <1>1 DEF StageKnown
<1>2. ASSUME NEW h \in Handlers, Finish(h) PROVE StageKnown(g)'
  <2>1. [Idle EXCEPT !.todo = call[h].todo].pc = "idle"
        /\ [Idle EXCEPT !.todo = call[h].todo].op = "none"
        /\ [Idle EXCEPT !.todo = call[h].todo].role = NoName
    BY DEF Idle
  <2> QED BY <1>0, <1>2, <2>1 DEF Finish, Go, StageKnown
<1>3. ASSUME NEW h \in Handlers, NEW op, NEW r \in Roles, NEW pc, NEW mine, Begin(h, op, r, pc, mine),
             \/ op = "write" /\ pc \in {"find", "mint", "store"}
             \/ op \in {"rotate", "periodic"} /\ pc = "mint"
             \/ op = "delete" /\ pc \in {"remove", "forget"}
      PROVE  StageKnown(g)'
  BY <1>0, <1>3, AbsentAssumption DEF Begin, Go, StageKnown
<1>4. ASSUME NEW h \in Handlers, \A i \in Handlers : i # h => call'[i] = call[i],
             call'[h].op = call[h].op, call'[h].role = call[h].role, call[h].pc # "idle",
             \/ call[h].pc \in {"find", "user"} /\ call'[h].pc \in {"user", "mint"}
             \/ call[h].pc = "mint" /\ call'[h].pc = "store"
             \/ call[h].pc = "store" /\ call[h].op # "write" /\ call'[h].pc = "drop"
             \/ /\ call[h].pc \in {"remove", "forget", "again"}
                /\ call'[h].pc \in {"remove", "forget", "again"}
      PROVE  StageKnown(g)'
  <2>1. StageKnown(h)
    OBVIOUS
  <2> QED BY <1>0, <1>4, <2>1 DEF StageKnown
<1>5. ASSUME NEW h \in Handlers, NEW u \in Users, WithUser(h, u)
      PROVE  /\ \A i \in Handlers : i # h => call'[i] = call[i]
             /\ call'[h].op = call[h].op /\ call'[h].role = call[h].role /\ call'[h].pc = "mint"
  BY <1>5 DEF WithUser, Go, Calls
<1>6. ASSUME NEW h \in Handlers, Write(h) PROVE StageKnown(g)'
  <2>1. ASSUME NEW r \in Roles, NEW p \in Periods, WriteBegin(h, r, p) PROVE StageKnown(g)'
    BY <1>3, <2>1 DEF WriteBegin
  <2>2. CASE FindUser(h)
    <3>1. ASSUME NEW u \in Users, WithUser(h, u) PROVE StageKnown(g)'
      BY <1>4, <1>5, <2>2, <3>1 DEF FindUser
    <3>2. CASE Go(h, [call[h] EXCEPT !.pc = "user"])
      BY <1>4, <2>2, <3>2 DEF FindUser, Go, Calls
    <3> QED BY <2>2, <3>1, <3>2 DEF FindUser
  <2>3. ASSUME NEW u \in Users, CreateUser(h, u) PROVE StageKnown(g)'
    BY <1>4, <1>5, <2>3 DEF CreateUser
  <2> QED BY <1>2, <1>6, <2>1, <2>2, <2>3 DEF Write, CreateUserLost
<1>7. ASSUME NEW h \in Handlers, Rotate(h) PROVE StageKnown(g)'
  <2>1. ASSUME NEW r \in Roles, RotateBegin(h, r) PROVE StageKnown(g)'
    BY <1>3, <2>1 DEF RotateBegin
  <2>2. ASSUME NEW k \in Keys, Mint(h, k) PROVE StageKnown(g)'
    BY <1>4, <2>2 DEF Mint, CreateCredential, Go, Calls
  <2>3. CASE Store(h)
    <3>1. CASE call[h].op # "write" /\ Go(h, [call[h] EXCEPT !.pc = "drop"])
      BY <1>4, <2>3, <3>1 DEF Store, Go, Calls
    <3> QED BY <1>2, <2>3, <3>1 DEF Store
  <2> QED BY <1>2, <1>7, <2>1, <2>2, <2>3 DEF Rotate, MintLost, Drop
<1>8. ASSUME NEW h \in Handlers, Delete(h) PROVE StageKnown(g)'
  <2>1. ASSUME NEW r \in Roles, DeleteBegin(h, r) PROVE StageKnown(g)'
    BY <1>3, <2>1 DEF DeleteBegin, DeleteFrom
  <2>2. CASE Remove(h) \/ RemoveLost(h)
    BY <1>4, <2>2 DEF Remove, RemoveLost, RemoveUser, Go, Calls
  <2>3. CASE ForgetRefused(h)
    BY <1>4, <2>3 DEF ForgetRefused, Go, Calls
  <2>4. CASE DeleteAgain(h)
    <3>1. CASE Go(h, [call[h] EXCEPT !.pc = DeleteFrom, !.mine = store[call[h].role]])
      BY <1>4, <2>4, <3>1 DEF DeleteAgain, DeleteFrom, Go, Calls
    <3> QED BY <1>2, <2>4, <3>1 DEF DeleteAgain
  <2> QED BY <1>2, <1>8, <2>1, <2>2, <2>3, <2>4 DEF Delete, Forget
<1>9. CASE Periodic
  <2>1. Ticker \in Handlers
    BY ConstantsAssumption
  <2>2. ASSUME NEW todo, call'= [call EXCEPT ![Ticker] = [Idle EXCEPT !.todo = todo]]
        PROVE  StageKnown(g)'
    <3>1. [Idle EXCEPT !.todo = todo].pc = "idle" /\ [Idle EXCEPT !.todo = todo].op = "none"
          /\ [Idle EXCEPT !.todo = todo].role = NoName
      BY DEF Idle
    <3> QED BY <1>0, <2>1, <2>2, <3>1 DEF StageKnown
  <2>3. ASSUME NEW r \in Roles, PeriodicRotate(r) PROVE StageKnown(g)'
    BY <1>3, <2>1, <2>3 DEF PeriodicRotate
  <2> QED BY <1>9, <2>2, <2>3 DEF Periodic, PeriodicBegin, PeriodicSkip, Go
<1>10. CASE Tick
  <2>1. call'[g] = [call[g] EXCEPT !.mine = Aged(@)]
    BY <1>10 DEF Tick
  <2>2. call'[g].pc = call[g].pc /\ call'[g].op = call[g].op /\ call'[g].role = call[g].role
    BY <2>1 DEF Calls
  <2> QED BY <1>0, <2>2 DEF StageKnown
<1> QED BY <1>1, <1>2, <1>6, <1>7, <1>8, <1>9, <1>10 DEF Next, Abort, Read, Configure, vars

(* A handler comes to a role where MayBegin lets it, and keeps to it until *)
(* it is idle again.                                                       *)
LEMMA RoleStep ==
  ASSUME TypeOK, \A h \in Handlers : StageKnown(h), [Next]_vars, NEW g \in Handlers,
         call'[g].role # NoName, call'[g].role # call[g].role
  PROVE  /\ call'[g].role \in Roles /\ \A h \in Handlers : h # g => call'[h] = call[h]
         /\ \E op \in Changes : MayBegin(g, op, call'[g].role)
<1> USE DEF TypeOK
<1>1. ASSUME NEW h \in Handlers, \A i \in Handlers : i # h => call'[i] = call[i],
             call'[h].role \in {call[h].role, NoName}
      PROVE  FALSE
  BY <1>1
<1>2. ASSUME NEW h \in Handlers, Finish(h) PROVE FALSE
  BY <1>1, <1>2 DEF Finish, Go, Idle
<1>3. ASSUME NEW h \in Handlers, NEW op \in Changes, NEW r \in Roles, NEW pc, NEW mine,
             Begin(h, op, r, pc, mine), MayBegin(h, op, r)
      PROVE  /\ call'[g].role \in Roles /\ \A i \in Handlers : i # g => call'[i] = call[i]
             /\ \E o \in Changes : MayBegin(g, o, call'[g].role)
  BY <1>3 DEF Begin, Go
<1>4. ASSUME NEW h \in Handlers, NEW u \in Users, WithUser(h, u) PROVE FALSE
  BY <1>1, <1>4 DEF WithUser, Go, Calls
<1>5. ASSUME NEW h \in Handlers, FindUser(h) PROVE FALSE
  <2>1. CASE Go(h, [call[h] EXCEPT !.pc = "user"])
    BY <1>1, <2>1 DEF Go, Calls
  <2> QED BY <1>4, <1>5, <2>1 DEF FindUser
<1>6. ASSUME NEW h \in Handlers, NEW k \in Keys, Mint(h, k) PROVE FALSE
  BY <1>1, <1>6 DEF Mint, Go, Calls
<1>7. ASSUME NEW h \in Handlers, Store(h) PROVE FALSE
  <2>1. CASE Go(h, [call[h] EXCEPT !.pc = "drop"])
    BY <1>1, <2>1 DEF Go, Calls
  <2> QED BY <1>2, <1>7, <2>1 DEF Store
<1>8. ASSUME NEW h \in Handlers, Remove(h) \/ RemoveLost(h) \/ ForgetRefused(h) PROVE FALSE
  BY <1>1, <1>8 DEF Remove, RemoveLost, ForgetRefused, Go, Calls
<1>9. ASSUME NEW h \in Handlers, DeleteAgain(h) PROVE FALSE
  <2>1. CASE Go(h, [call[h] EXCEPT !.pc = DeleteFrom, !.mine = store[call[h].role]])
    BY <1>1, <2>1 DEF Go, Calls
  <2> QED BY <1>2, <1>9, <2>1 DEF DeleteAgain
<1>10. ASSUME NEW r \in Roles, PeriodicSkip(r) PROVE FALSE
  BY <1>1, <1>10, ConstantsAssumption DEF PeriodicSkip, Go, Idle
<1>11. ~PeriodicBegin
  BY <1>1, ConstantsAssumption DEF PeriodicBegin, Go, Idle
<1>12. ~Tick
  BY DEF Tick, Calls
<1>13. ASSUME NEW h \in Handlers, NEW r \in Roles,
              (\E p \in Periods : WriteBegin(h, r, p)) \/ RotateBegin(h, r) \/ DeleteBegin(h, r)
       PROVE  /\ call'[g].role \in Roles /\ \A i \in Handlers : i # g => call'[i] = call[i]
              /\ \E o \in Changes : MayBegin(g, o, call'[g].role)
  BY <1>3, <1>13 DEF WriteBegin, RotateBegin, DeleteBegin, Changes
<1>14. ASSUME NEW r \in Roles, PeriodicRotate(r)
       PROVE  /\ call'[g].role \in Roles /\ \A i \in Handlers : i # g => call'[i] = call[i]
              /\ \E o \in Changes : MayBegin(g, o, call'[g].role)
  BY <1>3, <1>14, ConstantsAssumption DEF PeriodicRotate, Changes
<1> QED BY <1>2, <1>4, <1>5, <1>6, <1>7, <1>8, <1>9, <1>10, <1>11, <1>12, <1>13, <1>14
        DEF Next, Write, Rotate, Delete, Periodic, CreateUser, CreateUserLost, MintLost, Drop, Forget,
        Abort, Read, Configure, vars

LEMMA AloneStep ==
  ASSUME Apart, TypeOK, \A h \in Handlers : StageKnown(h), AloneOnRole, [Next]_vars
  PROVE  AloneOnRole'
<1> SUFFICES ASSUME NEW g \in Handlers, NEW h \in Handlers, g # h,
                    call'[g].role # NoName, call'[g].role = call'[h].role
             PROVE  FALSE
  BY DEF AloneOnRole
<1>1. ASSUME NEW i \in Handlers, NEW j \in Handlers, i # j, call'[i].role # NoName,
             call'[i].role = call'[j].role, call'[i].role # call[i].role
      PROVE  FALSE
  <2>1. call[j].role = call'[i].role
    BY <1>1, RoleStep
  <2>2. PICK op \in Changes : MayBegin(i, op, call'[i].role)
    BY <1>1, RoleStep
  <2>3. op \in Exclusive
    BY DEF Apart
  <2> QED BY <2>1, <2>2, <2>3 DEF MayBegin, On
<1> QED BY <1>1 DEF AloneOnRole

-----------------------------------------------------------------------------
(***************************************************************************)
(* What a step leaves of a role: its record and the operation on it agree  *)
(* with Selectel as long as the users named for the role keep that name    *)
(* and the keys it mentions keep their user.                               *)
(***************************************************************************)
Mentions(r, k) == k = store[r].key \/ \E h \in Handlers : On(h, r) /\ call[h].mine.key = k

Spared(r) ==
  /\ \A u \in Users : name[u] = r => name'[u] = r
  /\ store[r].user \in Users => name'[store[r].user] \in {r, NoName}
  /\ \A k \in Keys : Mentions(r, k) /\ cred[k] \in Users /\ name[cred[k]] = r => cred'[k] = cred[k]

LEMMA NotDeleting ==
  ASSUME AloneOnRole, NEW h \in Handlers, NEW r \in Roles, On(h, r), call[h].op # "delete"
  PROVE  ~Deleting(r)
BY AbsentAssumption DEF AloneOnRole, On, Deleting

LEMMA RoleKept ==
  ASSUME TypeOK, NEW r \in Roles, RoleKnown(r), Spared(r), store'[r] = store[r],
         Deleting(r) => Deleting(r)'
  PROVE  RoleKnown(r)'
<1>1. store[r].user \in Users \cup {NoUser}
  BY DEF TypeOK, StaticRole
<1>2. Mentions(r, store[r].key)
  BY DEF Mentions
<1> QED BY <1>1, <1>2 DEF RoleKnown, Spared

LEMMA FactsKept ==
  ASSUME TypeOK, AloneOnRole, NEW r \in Roles, RoleKnown(r), Spared(r), store'[r] = store[r],
         NEW h \in Handlers, On(h, r), Facts(h), StageKnown(h), call'[h] = call[h]
  PROVE  Facts(h)'
<1> USE DEF Facts
<1>1. Mentions(r, call[h].mine.key)
  BY DEF Mentions
<1>2. WriteKnown(h)'
  BY <1>1 DEF WriteKnown, Spared, On, StageKnown
<1>3. RotateKnown(h)'
  <2>1. CASE call[h].op \in {"rotate", "periodic"}
    <3>1. ~Deleting(r)
      BY <2>1, NotDeleting
    <3>2. call[h].mine.user \in Users
      BY <2>1 DEF RotateKnown, TypeOK, Calls, StaticRole
    <3>3. name[call[h].mine.user] = r
      BY <2>1, <3>1 DEF RotateKnown, RoleKnown, On
    <3> QED BY <1>1, <2>1, <3>2, <3>3 DEF RotateKnown, Spared, On
  <2> QED BY <2>1 DEF RotateKnown
<1>4. DeleteKnown(h)'
  BY DEF DeleteKnown, On
<1> QED BY <1>2, <1>3, <1>4

(* A step of handler h at role r, which shows what becomes of them.        *)
LEMMA StepAt ==
  ASSUME TypeOK, AloneOnRole, AloneOnRole', \A g \in Handlers : StageKnown(g),
         \A s \in Roles : Sound(s),
         NEW h \in Handlers, NEW r \in Roles,
         call[h].role \in {r, NoName}, call'[h].role \in {r, NoName},
         r \in {call[h].role, call'[h].role},
         \A g \in Handlers : g # h => call'[g] = call[g],
         \A s \in Roles : s # r => store'[s] = store[s] /\ Spared(s),
         RoleKnown(r)', call'[h].role = r => Facts(h)'
  PROVE  \A s \in Roles : Sound(s)'
<1>1. ASSUME NEW s \in Roles, s # r PROVE Sound(s)'
  <2>1. ASSUME NEW g \in Handlers, On(g, s)' \/ On(g, s) PROVE g # h /\ call'[g] = call[g]
    BY <1>1, <2>1, AbsentAssumption DEF On
  <2>2. Deleting(s) => Deleting(s)'
    BY <2>1 DEF Deleting, On
  <2>3. RoleKnown(s)'
    BY <1>1, <2>2, RoleKept DEF Sound
  <2>4. ASSUME NEW g \in Handlers, On(g, s)' PROVE Facts(g)'
    <3>1. On(g, s) /\ call'[g] = call[g]
      BY <2>1, <2>4 DEF On
    <3>2. RoleKnown(s) /\ Facts(g) /\ StageKnown(g)
      BY <3>1 DEF Sound
    <3> QED BY <1>1, <3>1, <3>2, FactsKept
  <2> QED BY <2>3, <2>4 DEF Sound
<1>2. ASSUME NEW g \in Handlers, On(g, r)' PROVE Facts(g)'
  <2>1. g = h
    BY <1>2, AbsentAssumption DEF On, AloneOnRole
  <2> QED BY <1>2, <2>1 DEF On
<1> QED BY <1>1, <1>2 DEF Sound

-----------------------------------------------------------------------------
(***************************************************************************)
(* Each stage of an operation.                                             *)
(***************************************************************************)
LEMMA NothingTouched ==
  ASSUME Custody, name' = name, cred' = cred, NEW r \in Roles
  PROVE  Spared(r)
BY AbsentAssumption DEF Custody, Sound, RoleKnown, Spared

LEMMA WorkingKey ==
  ASSUME Custody, NEW r \in Roles, store[r].user # NoUser, ~Deleting(r)
  PROVE  /\ store[r].user \in Users /\ name[store[r].user] = r
         /\ store[r].key \in Keys /\ cred[store[r].key] = store[r].user
BY DEF Custody, Sound, RoleKnown, TypeOK, StaticRole

(* A handler comes to a role that no one is at.                            *)
LEMMA Begins ==
  ASSUME Apart, Custody, AloneOnRole', NEW h \in Handlers, NEW r \in Roles, NEW op \in Changes,
         NEW pc, NEW mine, MayBegin(h, op, r), Begin(h, op, r, pc, mine),
         UNCHANGED <<store, name, cred>>,
         ~Deleting(r) => Facts(h)'
  PROVE  \A s \in Roles : Sound(s)'
<1>1. /\ call[h].role = NoName /\ call'[h].role = r
      /\ \A g \in Handlers : g # h => call'[g] = call[g]
  BY DEF Custody, StageKnown, MayBegin, Begin, Go, TypeOK
<1>2. \A g \in Handlers : ~On(g, r)
  BY DEF MayBegin, Apart
<1>3. ~Deleting(r)
  BY <1>2 DEF Deleting
<1>4. \A s \in Roles : Spared(s)
  BY NothingTouched
<1>5. RoleKnown(r)'
  BY <1>3, <1>4, RoleKept DEF Custody, Sound
<1> QED BY <1>1, <1>3, <1>4, <1>5, StepAt DEF Custody

(* A handler leaves the role it is at, or goes on with it; the record is   *)
(* as it was.                                                              *)
LEMMA GoesOn ==
  ASSUME Custody, AloneOnRole', NEW h \in Handlers, call[h].role \in Roles,
         \A g \in Handlers : g # h => call'[g] = call[g],
         store' = store, \A s \in Roles : Spared(s),
         \/ call'[h].role = NoName /\ call[h].op # "delete"
         \/ call'[h].role = call[h].role /\ call'[h].op = call[h].op /\ Facts(h)'
  PROVE  \A s \in Roles : Sound(s)'
<1>0. PICK r \in Roles : call[h].role = r
  OBVIOUS
<1>1. Deleting(r) => Deleting(r)'
  <2>1. CASE call[h].op # "delete"
    BY <1>0, <2>1, NotDeleting DEF Custody, On
  <2>2. CASE call[h].op = "delete"
    BY <1>0, <2>2 DEF Deleting, On
  <2> QED BY <2>1, <2>2
<1>2. RoleKnown(r)'
  BY <1>1, RoleKept DEF Custody, Sound
<1>3. call'[h].role = r => Facts(h)'
  BY <1>0, AbsentAssumption
<1> QED BY <1>0, <1>2, <1>3, StepAt DEF Custody

LEMMA FinishLeaves ==
  ASSUME Custody, NEW h \in Handlers, Finish(h)
  PROVE  /\ call'[h].role = NoName /\ \A g \in Handlers : g # h => call'[g] = call[g]
BY DEF Custody, TypeOK, Finish, Go, Idle

(* What a handler that is at work knows.                                   *)
LEMMA AtWork ==
  ASSUME Custody, NEW h \in Handlers, call[h].pc # "idle"
  PROVE  /\ call[h].role \in Roles /\ On(h, call[h].role) /\ Facts(h) /\ RoleKnown(call[h].role)
         /\ StageKnown(h)
<1>1. call[h].role \in Roles
  BY DEF Custody, StageKnown, TypeOK, Calls
<1> QED BY <1>1 DEF Custody, Sound, On

-----------------------------------------------------------------------------
LEMMA WriteStep ==
  ASSUME Apart, Custody, AloneOnRole', NEW h \in Handlers, Write(h)
  PROVE  \A s \in Roles : Sound(s)'
<1>1. ASSUME NEW r \in Roles, NEW p \in Periods, WriteBegin(h, r, p)
      PROVE  \A s \in Roles : Sound(s)'
  <2> DEFINE mine == [store[r] EXCEPT !.period = p]
             pc == IF store[r].user = NoUser THEN "find"
                   ELSE IF store[r].key = NoKey THEN "mint" ELSE "store"
  <2>1. Begin(h, "write", r, pc, mine) /\ MayBegin(h, "write", r) /\ UNCHANGED <<store, name, cred>>
    BY <1>1 DEF WriteBegin
  <2>2. mine.user = store[r].user /\ mine.key = store[r].key
    BY DEF Custody, TypeOK, StaticRole
  <2>3. call'[h].pc = pc /\ call'[h].op = "write" /\ call'[h].role = r /\ call'[h].mine = mine
    BY <2>1 DEF Begin, Go, Custody, TypeOK
  <2>4. ASSUME ~Deleting(r) PROVE Facts(h)'
    <3>1. CASE store[r].user = NoUser
      <4>1. store[r] = NoRole
        BY <3>1 DEF Custody, Sound, RoleKnown
      <4>2. pc = "find" /\ mine.key = NoKey
        BY <2>2, <3>1, <4>1, Blank
      <4> HIDE DEF pc, mine
      <4> QED BY <2>1, <2>3, <4>1, <4>2 DEF Facts, WriteKnown, RotateKnown, DeleteKnown
    <3>2. CASE store[r].user # NoUser
      <4>1. pc = "store"
        BY <2>4, <3>2, WorkingKey, AbsentAssumption
      <4>2. /\ mine.user \in Users /\ name[mine.user] = r
            /\ mine.key \in Keys /\ cred[mine.key] = mine.user
        BY <2>2, <2>4, <3>2, WorkingKey
      <4> HIDE DEF pc, mine
      <4> QED BY <2>1, <2>2, <2>3, <4>1, <4>2 DEF Facts, WriteKnown, RotateKnown, DeleteKnown
    <3> QED BY <3>1, <3>2
  <2> HIDE DEF pc, mine
  <2> QED BY <2>1, <2>4, Begins DEF Changes
<1>2. ASSUME NEW u \in Users, WithUser(h, u), call[h].pc \in {"find", "user"},
             name'[u] = call[h].role, store' = store, \A s \in Roles : Spared(s)
      PROVE  \A s \in Roles : Sound(s)'
  <2>1. /\ call'[h].pc = "mint" /\ call'[h].op = call[h].op /\ call'[h].role = call[h].role
        /\ call'[h].mine.user = u /\ call'[h].mine.key = call[h].mine.key
        /\ \A g \in Handlers : g # h => call'[g] = call[g]
    BY <1>2 DEF WithUser, Go, Custody, TypeOK, Calls, StaticRole
  <2>2. call[h].role \in Roles /\ Facts(h) /\ call[h].op = "write"
    BY <1>2, AtWork DEF StageKnown
  <2>3. Facts(h)'
    BY <1>2, <2>1, <2>2 DEF Facts, WriteKnown, RotateKnown, DeleteKnown
  <2> QED BY <1>2, <2>1, <2>2, <2>3, GoesOn
<1>3. CASE FindUser(h)
  <2>1. \A s \in Roles : Spared(s)
    BY <1>3, NothingTouched DEF FindUser
  <2>2. CASE \E u \in Users : name[u] = call[h].role /\ WithUser(h, u)
    BY <1>2, <1>3, <2>1, <2>2 DEF FindUser
  <2>3. CASE Go(h, [call[h] EXCEPT !.pc = "user"])
    <3>1. /\ call'[h].pc = "user" /\ call'[h].op = call[h].op /\ call'[h].role = call[h].role
          /\ call'[h].mine = call[h].mine
          /\ \A g \in Handlers : g # h => call'[g] = call[g]
      BY <2>3 DEF Go, Custody, TypeOK, Calls
    <3>2. call[h].role \in Roles /\ Facts(h) /\ call[h].op = "write" /\ call[h].pc = "find"
      BY <1>3, AtWork DEF FindUser, StageKnown
    <3>3. Facts(h)'
      BY <1>3, <3>1, <3>2 DEF FindUser, Facts, WriteKnown, RotateKnown, DeleteKnown
    <3> QED BY <1>3, <2>1, <3>1, <3>2, <3>3, GoesOn DEF FindUser
  <2> QED BY <1>3, <2>2, <2>3 DEF FindUser
<1>4. ASSUME NEW u \in Users, CreateUser(h, u) \/ CreateUserLost(h, u)
      PROVE  \A s \in Roles : Sound(s)'
  <2>1. /\ call[h].pc = "user" /\ NewUser(u) /\ UNCHANGED <<store, cred>>
        /\ name' = [name EXCEPT ![u] = call[h].role]
    BY <1>4 DEF CreateUser, CreateUserLost
  <2>2. call[h].role \in Roles /\ call[h].op = "write"
    BY <2>1, AtWork DEF StageKnown
  <2>3. ASSUME NEW s \in Roles PROVE Spared(s)
    <3>1. store[s].user # u /\ name[u] = NoName
      BY <2>1 DEF NewUser
    <3>2. RoleKnown(s)
      BY DEF Custody, Sound
    <3> QED BY <2>1, <3>1, <3>2, AbsentAssumption DEF Spared, RoleKnown, Custody, TypeOK
  <2>4. CASE CreateUser(h, u)
    BY <1>2, <2>1, <2>3, <2>4 DEF CreateUser, Custody, TypeOK
  <2>5. CASE CreateUserLost(h, u)
    BY <2>1, <2>2, <2>3, <2>5, FinishLeaves, GoesOn DEF CreateUserLost
  <2> QED BY <1>4, <2>4, <2>5
<1> QED BY <1>1, <1>3, <1>4 DEF Write

(* A rotation read a role that nobody was deleting.                        *)
LEMMA RotationBegins ==
  ASSUME Apart, Custody, AloneOnRole', NEW h \in Handlers, NEW r \in Roles,
         NEW op \in {"rotate", "periodic"}, MayBegin(h, op, r), store[r] # NoRole,
         Begin(h, op, r, "mint", store[r]), UNCHANGED <<store, name, cred>>
  PROVE  \A s \in Roles : Sound(s)'
<1>1. store[r].user # NoUser
  BY DEF Custody, Sound, RoleKnown
<1>2. /\ call'[h].pc = "mint" /\ call'[h].op = op /\ call'[h].role = r
      /\ call'[h].mine = store[r] /\ call'[h].old = store[r].key
  BY DEF Begin, Go, Custody, TypeOK
<1>3. Facts(h)'
  BY <1>1, <1>2 DEF Facts, WriteKnown, RotateKnown, DeleteKnown
<1> QED BY <1>3, Begins DEF Changes

(* What a handler stores is a key that works, of a user named for the      *)
(* role.                                                                   *)
LEMMA StoresWorkingKey ==
  ASSUME Custody, NEW h \in Handlers, Store(h)
  PROVE  /\ call[h].role \in Roles /\ Facts(h) /\ call[h].op \in {"write", "rotate", "periodic"}
         /\ call[h].mine.user \in Users /\ name[call[h].mine.user] = call[h].role
         /\ call[h].mine.key \in Keys /\ cred[call[h].mine.key] = call[h].mine.user
<1>0. PICK r \in Roles : call[h].role = r
  BY AtWork DEF Store
<1>1. Facts(h) /\ call[h].op \in {"write", "rotate", "periodic"} /\ call[h].pc = "store"
  BY <1>0, AtWork DEF Store, StageKnown
<1>2. CASE call[h].op = "write"
  BY <1>0, <1>1, <1>2 DEF Facts, WriteKnown
<1>3. CASE call[h].op \in {"rotate", "periodic"}
  <2>1. ~Deleting(r)
    BY <1>0, <1>3, NotDeleting DEF Custody, On
  <2> QED BY <1>0, <1>1, <1>3, <2>1, WorkingKey DEF Facts, RotateKnown
<1> QED BY <1>1, <1>2, <1>3

LEMMA RotateStep ==
  ASSUME Apart, Custody, AloneOnRole', NEW h \in Handlers, Rotate(h)
  PROVE  \A s \in Roles : Sound(s)'
<1>1. ASSUME NEW r \in Roles, RotateBegin(h, r) PROVE \A s \in Roles : Sound(s)'
  BY <1>1, RotationBegins DEF RotateBegin
<1>2. ASSUME NEW k \in Keys, CreateCredential(h, k)
      PROVE  /\ call[h].pc = "mint" /\ NewKey(k) /\ UNCHANGED <<store, name>>
             /\ cred' = [cred EXCEPT ![k] = call[h].mine.user]
             /\ call[h].role \in Roles /\ Facts(h) /\ call[h].op \in {"write", "rotate", "periodic"}
             /\ \A s \in Roles : Spared(s)
  <2>1. call[h].role \in Roles /\ Facts(h) /\ call[h].op \in {"write", "rotate", "periodic"}
    BY <1>2, AtWork DEF CreateCredential, StageKnown
  <2>2. ASSUME NEW s \in Roles PROVE Spared(s)
    <3>1. ~Mentions(s, k)
      BY <1>2 DEF CreateCredential, NewKey, Mentions
    <3>2. RoleKnown(s)
      BY DEF Custody, Sound
    <3> QED BY <1>2, <3>1, <3>2, AbsentAssumption DEF CreateCredential, Spared, RoleKnown, Custody, TypeOK
  <2> QED BY <1>2, <2>1, <2>2 DEF CreateCredential
<1>3. ASSUME NEW k \in Keys, Mint(h, k) PROVE \A s \in Roles : Sound(s)'
  <2>1. /\ call'[h].pc = "store" /\ call'[h].op = call[h].op /\ call'[h].role = call[h].role
        /\ call'[h].mine.user = call[h].mine.user /\ call'[h].mine.key = k
        /\ call'[h].old = call[h].old
        /\ \A g \in Handlers : g # h => call'[g] = call[g]
    BY <1>3 DEF Mint, Go, Custody, TypeOK, Calls, StaticRole
  <2>2. k # call[h].old /\ cred'[k] = call[h].mine.user
    BY <1>2, <1>3 DEF Mint, NewKey, Custody, TypeOK
  <2>3. call[h].mine.user \in Users /\ call[h].pc = "mint" /\ Facts(h) /\ store' = store /\ name' = name
    BY <1>2, <1>3 DEF Mint
  <2>4. WriteKnown(h)'
    BY <2>1, <2>2, <2>3, Blank DEF Facts, WriteKnown
  <2>5. RotateKnown(h)'
    BY <2>1, <2>2, <2>3 DEF Facts, RotateKnown
  <2>6. Facts(h)'
    BY <2>1, <2>4, <2>5 DEF Facts, DeleteKnown
  <2> QED BY <1>2, <1>3, <2>1, <2>6, GoesOn DEF Mint
<1>4. ASSUME NEW k \in Keys, MintLost(h, k) PROVE \A s \in Roles : Sound(s)'
  BY <1>2, <1>4, FinishLeaves, GoesOn DEF MintLost
<1>5. CASE Store(h)
  <2>0. PICK r \in Roles : call[h].role = r
    BY <1>5, AtWork DEF Store
  <2>1. Facts(h) /\ call[h].pc = "store"
    BY <1>5, StoresWorkingKey DEF Store
  <2>2. store' = [store EXCEPT ![r] = call[h].mine] /\ name' = name /\ cred' = cred
    BY <1>5, <2>0 DEF Store
  <2>3. store'[r] = call[h].mine /\ \A s \in Roles : s # r => store'[s] = store[s]
    BY <2>2 DEF Custody, TypeOK
  <2>4. /\ call[h].mine.user \in Users /\ name[call[h].mine.user] = r
        /\ call[h].mine.key \in Keys /\ cred[call[h].mine.key] = call[h].mine.user
        /\ call[h].op \in {"write", "rotate", "periodic"}
    BY <1>5, <2>0, StoresWorkingKey
  <2>5. RoleKnown(r)'
    BY <2>2, <2>3, <2>4, AbsentAssumption DEF RoleKnown
  <2>6. CASE Finish(h)
    BY <2>0, <2>2, <2>3, <2>5, <2>6, FinishLeaves, NothingTouched, StepAt, AbsentAssumption DEF Custody
  <2>7. CASE call[h].op # "write" /\ Go(h, [call[h] EXCEPT !.pc = "drop"])
    <3>1. /\ call'[h].pc = "drop" /\ call'[h].op = call[h].op /\ call'[h].role = call[h].role
          /\ call'[h].mine = call[h].mine /\ call'[h].old = call[h].old
          /\ \A g \in Handlers : g # h => call'[g] = call[g]
      BY <2>7 DEF Go, Custody, TypeOK, Calls
    <3>2. Facts(h)'
      BY <2>0, <2>1, <2>2, <2>3, <2>7, <3>1 DEF Facts, WriteKnown, RotateKnown, DeleteKnown
    <3> QED BY <2>0, <2>2, <2>3, <2>5, <3>1, <3>2, NothingTouched, StepAt DEF Custody
  <2> QED BY <1>5, <2>6, <2>7 DEF Store
<1>6. CASE Drop(h)
  <2>0. PICK r \in Roles : call[h].role = r
    BY <1>6, AtWork DEF Drop
  <2>1. Facts(h) /\ call[h].op \in {"rotate", "periodic"} /\ call[h].pc = "drop"
    BY <1>6, AtWork DEF Drop, StageKnown
  <2>2. /\ call[h].mine.user = store[r].user /\ store[r].user # NoUser
        /\ call[h].mine.key = store[r].key /\ store[r].key # call[h].old
    BY <2>0, <2>1 DEF Facts, RotateKnown
  <2>3. ~Deleting(r)
    BY <2>0, <2>1, NotDeleting DEF Custody, On
  <2>4. name[call[h].mine.user] = r
    BY <2>2, <2>3, WorkingKey
  <2>5. ~Mentions(r, call[h].old)
    <3>1. ASSUME NEW g \in Handlers, On(g, r) PROVE g = h
      BY <2>0, <3>1, AbsentAssumption DEF Custody, AloneOnRole, On
    <3> QED BY <2>2, <3>1 DEF Mentions
  <2>6. ASSUME NEW s \in Roles PROVE Spared(s)
    <3>1. RoleKnown(s)
      BY DEF Custody, Sound
    <3>2. ASSUME NEW k \in Keys, Mentions(s, k), cred[k] \in Users, name[cred[k]] = s
          PROVE  cred'[k] = cred[k]
      <4>1. k = call[h].old => cred[k] # call[h].mine.user
        BY <2>4, <2>5, <3>2
      <4> QED BY <1>6, <3>2, <4>1 DEF Drop, Custody, TypeOK
    <3> QED BY <1>6, <3>1, <3>2, AbsentAssumption DEF Drop, Spared, RoleKnown
  <2> QED BY <1>6, <2>0, <2>1, <2>6, FinishLeaves, GoesOn DEF Drop
<1> QED BY <1>1, <1>3, <1>4, <1>5, <1>6 DEF Rotate

(* A removed user takes with it the keys of no role but its own.           *)
LEMMA DeleteStep ==
  ASSUME Apart, Custody, AloneOnRole', NEW h \in Handlers, Delete(h)
  PROVE  \A s \in Roles : Sound(s)'
<1>1. ASSUME NEW r \in Roles, DeleteBegin(h, r) PROVE \A s \in Roles : Sound(s)'
  <2>1. /\ Begin(h, "delete", r, DeleteFrom, store[r]) /\ MayBegin(h, "delete", r)
        /\ store[r] # NoRole /\ UNCHANGED <<store, name, cred>>
    BY <1>1 DEF DeleteBegin
  <2>2. /\ call'[h].op = "delete" /\ call'[h].role = r /\ call'[h].mine = store[r]
    BY <2>1 DEF Begin, Go, Custody, TypeOK
  <2>3. store[r].user # NoUser
    BY <2>1 DEF Custody, Sound, RoleKnown
  <2>4. Facts(h)'
    BY <2>1, <2>2, <2>3 DEF Facts, WriteKnown, RotateKnown, DeleteKnown
  <2> QED BY <2>1, <2>4, Begins DEF Changes
<1>2. ASSUME call[h].pc \in {"remove", "forget", "again"}
      PROVE  call[h].role \in Roles /\ Facts(h) /\ RoleKnown(call[h].role) /\ call[h].op = "delete"
  BY <1>2, AtWork DEF StageKnown
<1>3. CASE Remove(h) \/ RemoveLost(h)
  <2>0. PICK r \in Roles : call[h].role = r
    BY <1>2, <1>3 DEF Remove, RemoveLost, RemoveUser
  <2> DEFINE u == store[r].user
  <2>1. /\ call[h].pc = "remove" /\ Facts(h) /\ call[h].op = "delete" /\ RoleKnown(r)
        /\ store' = store
    BY <1>2, <1>3, <2>0 DEF Remove, RemoveLost, RemoveUser
  <2>2. call[h].mine.user = u /\ u # NoUser /\ u \in Users
    BY <2>0, <2>1 DEF Facts, DeleteKnown, Custody, TypeOK, StaticRole
  <2>3. /\ name' = [name EXCEPT ![u] = NoName]
        /\ cred' = [k \in Keys |-> IF cred[k] = u THEN NoUser ELSE cred[k]]
    BY <1>3, <2>2 DEF Remove, RemoveLost, RemoveUser
  <2>4. /\ call'[h].pc \in {"forget", "again"} /\ call'[h].op = "delete" /\ call'[h].role = r
        /\ \A g \in Handlers : g # h => call'[g] = call[g]
    BY <1>3, <2>0, <2>1 DEF Remove, RemoveLost, Go, Custody, TypeOK, Calls
  <2>5. Facts(h)'
    BY <2>4 DEF Facts, WriteKnown, RotateKnown, DeleteKnown
  <2>6. name[u] \in {r, NoName}
    BY <2>1, <2>2 DEF RoleKnown
  <2>7. Deleting(r)'
    BY <2>4 DEF Deleting, On
  <2>8. RoleKnown(r)'
    <3>1. store'[r] = store[r] /\ store[r].key \in Keys
      BY <2>1, <2>2 DEF RoleKnown
    <3>2. name'[u] = NoName
      BY <2>2, <2>3 DEF Custody, TypeOK
    <3> QED BY <2>2, <2>7, <3>1, <3>2 DEF RoleKnown
  <2>9. ASSUME NEW s \in Roles, s # r PROVE Spared(s)
    <3>1. RoleKnown(s) /\ name[u] # s
      BY <2>6, <2>9, AbsentAssumption DEF Custody, Sound
    <3>2. ASSUME NEW v \in Users PROVE name'[v] = IF v = u THEN NoName ELSE name[v]
      BY <2>2, <2>3 DEF Custody, TypeOK
    <3>3. ASSUME NEW k \in Keys, name[cred[k]] = s PROVE cred'[k] = cred[k]
      BY <2>3, <3>1, <3>3
    <3> HIDE DEF u
    <3>4. \A v \in Users : name[v] = s => name'[v] = s
      BY <3>1, <3>2
    <3>5. store[s].user \in Users => name'[store[s].user] \in {s, NoName}
      BY <3>1, <3>2, AbsentAssumption DEF RoleKnown
    <3> QED BY <3>3, <3>4, <3>5 DEF Spared
  <2> QED BY <2>0, <2>1, <2>4, <2>5, <2>8, <2>9, StepAt DEF Custody
<1>4. CASE Forget(h)
  <2>0. PICK r \in Roles : call[h].role = r
    BY <1>2, <1>4 DEF Forget
  <2>1. store'[r] = NoRole /\ \A s \in Roles : s # r => store'[s] = store[s]
    BY <1>4, <2>0 DEF Forget, Custody, TypeOK
  <2>2. RoleKnown(r)'
    BY <2>1, Blank DEF RoleKnown
  <2>3. \A s \in Roles : Spared(s)
    BY <1>4, NothingTouched DEF Forget
  <2>4. call'[h].role = NoName /\ \A g \in Handlers : g # h => call'[g] = call[g]
    BY <1>4, FinishLeaves DEF Forget
  <2>5. call'[h].role = r => Facts(h)'
    BY <2>4, AbsentAssumption
  <2> QED BY <2>0, <2>1, <2>2, <2>3, <2>4, <2>5, StepAt DEF Custody
<1>5. CASE ForgetRefused(h)
  <2>1. /\ call'[h].pc = "again" /\ call'[h].op = call[h].op /\ call'[h].role = call[h].role
        /\ \A g \in Handlers : g # h => call'[g] = call[g]
    BY <1>5 DEF ForgetRefused, Go, Custody, TypeOK, Calls
  <2>2. call[h].role \in Roles /\ call[h].op = "delete"
    BY <1>2, <1>5 DEF ForgetRefused
  <2>3. Facts(h)'
    BY <2>1, <2>2 DEF Facts, WriteKnown, RotateKnown, DeleteKnown
  <2> QED BY <1>5, <2>1, <2>2, <2>3, NothingTouched, GoesOn DEF ForgetRefused
<1>6. CASE DeleteAgain(h)
  <2>0. PICK r \in Roles : call[h].role = r
    BY <1>2, <1>6 DEF DeleteAgain
  <2>1. RoleKnown(r) /\ call[h].op = "delete" /\ \A s \in Roles : Spared(s)
    BY <1>2, <1>6, <2>0, NothingTouched DEF DeleteAgain
  <2>2. CASE Finish(h) /\ store[r] = NoRole
    <3>1. call'[h].role = NoName /\ \A g \in Handlers : g # h => call'[g] = call[g]
      BY <2>2, FinishLeaves
    <3>2. RoleKnown(r)'
      BY <1>6, <2>2, Blank DEF DeleteAgain, RoleKnown
    <3>3. call'[h].role = r => Facts(h)'
      BY <3>1, AbsentAssumption
    <3> QED BY <1>6, <2>0, <2>1, <3>1, <3>2, <3>3, StepAt DEF Custody, DeleteAgain
  <2>3. CASE /\ Go(h, [call[h] EXCEPT !.pc = DeleteFrom, !.mine = store[r]])
             /\ store[r] # NoRole
    <3>1. /\ call'[h].op = "delete" /\ call'[h].role = r
          /\ call'[h].mine = store[r] /\ store' = store
          /\ \A g \in Handlers : g # h => call'[g] = call[g]
      BY <1>6, <2>0, <2>1, <2>3 DEF DeleteAgain, Go, Custody, TypeOK, Calls
    <3>2. store[r].user # NoUser
      BY <2>1, <2>3 DEF RoleKnown
    <3>3. Facts(h)'
      BY <3>1, <3>2 DEF Facts, WriteKnown, RotateKnown, DeleteKnown
    <3> QED BY <2>0, <2>1, <3>1, <3>3, GoesOn
  <2> QED BY <1>6, <2>0, <2>2, <2>3 DEF DeleteAgain
<1> QED BY <1>1, <1>3, <1>4, <1>5, <1>6 DEF Delete

LEMMA PeriodicStep ==
  ASSUME Apart, Custody, AloneOnRole', Periodic
  PROVE  \A s \in Roles : Sound(s)'
<1>0. Ticker \in Handlers
  BY ConstantsAssumption
<1>1. ASSUME NEW todo, call' = [call EXCEPT ![Ticker] = [Idle EXCEPT !.todo = todo]],
             call[Ticker].pc = "idle", UNCHANGED <<store, name, cred>>, NEW s \in Roles
      PROVE  Sound(s)'
  <2>1. call[Ticker].role = NoName /\ call'[Ticker].role = NoName
    BY <1>0, <1>1 DEF Custody, StageKnown, TypeOK, Idle
  <2>2. ASSUME NEW g \in Handlers, On(g, s) \/ On(g, s)' PROVE call'[g] = call[g]
    BY <1>0, <1>1, <2>1, <2>2, AbsentAssumption DEF On, Custody, TypeOK
  <2>3. RoleKnown(s)'
    BY <1>1, <2>2, RoleKept, NothingTouched DEF Custody, Sound, Deleting, On
  <2>4. ASSUME NEW g \in Handlers, On(g, s)' PROVE Facts(g)'
    <3>1. On(g, s) /\ call'[g] = call[g]
      BY <2>2, <2>4 DEF On
    <3> QED BY <1>1, <3>1, FactsKept, NothingTouched DEF Custody, Sound
  <2> QED BY <2>3, <2>4 DEF Sound
<1>2. ASSUME NEW r \in Roles, PeriodicRotate(r) PROVE \A s \in Roles : Sound(s)'
  <2>1. store[r] # NoRole
    BY <1>2, ConstantsAssumption DEF PeriodicRotate, Due, NoRole
  <2> QED BY <1>0, <1>2, <2>1, RotationBegins DEF PeriodicRotate
<1>3. ASSUME PeriodicBegin \/ \E r \in Roles : PeriodicSkip(r) PROVE \A s \in Roles : Sound(s)'
  BY <1>1, <1>3, Blank DEF PeriodicBegin, PeriodicSkip, Go
<1> QED BY <1>2, <1>3 DEF Periodic

LEMMA TickStep ==
  ASSUME Custody, Tick, NEW s \in Roles
  PROVE  Sound(s)'
<1>1. ASSUME NEW r \in Roles
      PROVE  /\ store'[r].user = store[r].user /\ store'[r].key = store[r].key
             /\ store[r] = NoRole => store'[r] = NoRole
  BY AgedSame DEF Tick, Custody, TypeOK
<1>2. ASSUME NEW g \in Handlers
      PROVE  /\ call'[g].pc = call[g].pc /\ call'[g].op = call[g].op /\ call'[g].role = call[g].role
             /\ call'[g].old = call[g].old
             /\ call'[g].mine.user = call[g].mine.user /\ call'[g].mine.key = call[g].mine.key
  <2>1. call[g].mine \in StaticRole
    BY DEF Custody, TypeOK, Calls
  <2>2. call'[g] = [call[g] EXCEPT !.mine = Aged(call[g].mine)]
    BY DEF Tick
  <2> QED BY <2>1, <2>2, AgedSame DEF Custody, TypeOK, Calls
<1>3. name' = name /\ cred' = cred
  BY DEF Tick
<1>4. Deleting(s)' <=> Deleting(s)
  BY <1>2 DEF Deleting, On
<1>5. RoleKnown(s) /\ \A g \in Handlers : On(g, s) => Facts(g)
  BY DEF Custody, Sound
<1>6. RoleKnown(s)'
  BY <1>1, <1>3, <1>4, <1>5 DEF RoleKnown
<1>7. ASSUME NEW g \in Handlers, On(g, s)' PROVE Facts(g)'
  <2>1. On(g, s) /\ Facts(g)
    BY <1>2, <1>5, <1>7 DEF On
  <2>2. call[g].role = s
    BY <2>1 DEF On
  <2>3. WriteKnown(g)'
    BY <1>1, <1>2, <1>3, <2>1, <2>2 DEF Facts, WriteKnown
  <2>4. RotateKnown(g)'
    BY <1>1, <1>2, <1>3, <2>1, <2>2 DEF Facts, RotateKnown
  <2>5. DeleteKnown(g)'
    BY <1>1, <1>2, <2>1, <2>2 DEF Facts, DeleteKnown
  <2> QED BY <2>3, <2>4, <2>5 DEF Facts
<1> QED BY <1>6, <1>7 DEF Sound

-----------------------------------------------------------------------------
(***************************************************************************)
(* The theorems.                                                           *)
(***************************************************************************)

LEMMA CustodyInit == Init => TypeOK /\ Custody /\ OwnUser
<1> SUFFICES ASSUME Init PROVE TypeOK /\ Custody /\ OwnUser
  OBVIOUS
<1>1. TypeOK
  BY Blank, ConstantsAssumption DEF Init, TypeOK, Answers
<1>2. \A h \in Handlers : call[h].role = NoName /\ call[h].pc = "idle" /\ call[h].op = "none"
  BY Blank DEF Init
<1>3. \A r \in Roles : store[r] = NoRole
  BY DEF Init
<1>4. AloneOnRole /\ \A h \in Handlers : StageKnown(h)
  BY <1>2 DEF AloneOnRole, StageKnown
<1>5. \A r \in Roles : Sound(r)
  BY <1>2, <1>3, Blank, AbsentAssumption DEF Sound, RoleKnown, On
<1>6. OwnUser
  BY <1>3, Blank DEF OwnUser
<1> QED BY <1>1, <1>4, <1>5, <1>6 DEF Custody

(* Types, whatever operations overlap and whatever fails.                  *)
THEOREM StaticTyped == Spec => []TypeOK
<1> DEFINE Inv == TypeOK /\ \A h \in Handlers : StageKnown(h)
<1>1. Init => Inv
  BY CustodyInit DEF Custody
<1>2. Inv /\ [Next]_vars => Inv'
  BY TypeStep, StageStep
<1> QED BY <1>1, <1>2, PTL DEF Spec

LEMMA SoundStep ==
  ASSUME Apart, Custody, AloneOnRole', [Next]_vars, NEW s \in Roles
  PROVE  Sound(s)'
<1>1. ASSUME NEW h \in Handlers, Abort(h) PROVE Sound(s)'
  <2>1. call[h].pc \in {"find", "user", "mint", "store", "drop"} /\ Finish(h)
        /\ UNCHANGED <<store, name, cred>>
    BY <1>1 DEF Abort, MayFail
  <2>2. call[h].role \in Roles /\ call[h].op # "delete"
    BY <2>1, AtWork DEF StageKnown
  <2> QED BY <2>1, <2>2, FinishLeaves, NothingTouched, GoesOn
<1>2. CASE UNCHANGED <<store, name, cred, call>>
  <2>1. Sound(s)
    BY DEF Custody
  <2> QED BY <1>2, <2>1 DEF Sound, RoleKnown, Deleting, On, Facts, WriteKnown, RotateKnown, DeleteKnown
<1> QED BY <1>1, <1>2, WriteStep, RotateStep, DeleteStep, PeriodicStep, TickStep
        DEF Next, Read, Configure, vars

LEMMA OwnUserStep ==
  ASSUME Custody, OwnUser, [Next]_vars
  PROVE  OwnUser'
<1> USE DEF OwnUser
<1>1. ASSUME NEW h \in Handlers, Store(h) PROVE OwnUser'
  <2>1. PICK r \in Roles : call[h].role = r
    BY <1>1, StoresWorkingKey
  <2>2. store'[r] = call[h].mine /\ \A s \in Roles : s # r => store'[s] = store[s]
    BY <1>1, <2>1 DEF Store, Custody, TypeOK
  <2>3. name[call[h].mine.user] = r /\ call[h].mine.user # NoUser
    BY <1>1, <2>1, StoresWorkingKey, AbsentAssumption
  <2>4. ASSUME NEW s \in Roles, s # r PROVE store[s].user # call[h].mine.user
    <3>1. RoleKnown(s)
      BY DEF Custody, Sound
    <3> QED BY <2>3, <2>4, <3>1, AbsentAssumption DEF RoleKnown
  <2> QED BY <2>2, <2>4
<1>2. ASSUME NEW h \in Handlers, Forget(h) PROVE OwnUser'
  <2>1. \A s \in Roles : store'[s] = store[s] \/ store'[s].user = NoUser
    BY <1>2, Blank DEF Forget, Custody, TypeOK
  <2> QED BY <2>1
<1>3. CASE Tick
  <2>1. \A s \in Roles : store'[s].user = store[s].user
    BY <1>3, AgedSame DEF Tick, Custody, TypeOK
  <2> QED BY <2>1
<1>4. CASE store' = store
  BY <1>4
<1> QED BY <1>1, <1>2, <1>3, <1>4
        DEF Next, vars, Write, WriteBegin, FindUser, CreateUser, CreateUserLost,
        Rotate, RotateBegin, Mint, MintLost, CreateCredential, Drop,
        Delete, DeleteBegin, Remove, RemoveLost, RemoveUser, ForgetRefused, DeleteAgain,
        Periodic, PeriodicBegin, PeriodicSkip, PeriodicRotate, Abort, Read, Configure

LEMMA CustodyHolds == ASSUME Apart PROVE Spec => [](Custody /\ OwnUser)
<1>1. Init => Custody /\ OwnUser
  BY CustodyInit
<1>2. Custody /\ OwnUser /\ [Next]_vars => (Custody /\ OwnUser)'
  <2> SUFFICES ASSUME Custody, OwnUser, [Next]_vars PROVE (Custody /\ OwnUser)'
    OBVIOUS
  <2>1. TypeOK' /\ \A h \in Handlers : StageKnown(h)'
    BY TypeStep, StageStep DEF Custody
  <2>2. AloneOnRole'
    BY AloneStep DEF Custody
  <2>3. \A s \in Roles : Sound(s)'
    BY <2>2, SoundStep
  <2> QED BY <2>1, <2>2, <2>3, OwnUserStep DEF Custody
<1> QED BY <1>1, <1>2, PTL DEF Spec

(* A stored role holds a key that works, whichever call or write fails     *)
(* halfway, as long as operations on one role do not overlap               *)
(* (mintStaticKey: "so a rotation that breaks halfway leaves the role      *)
(* holding a key that works").                                             *)
THEOREM StoredKeysWork == ASSUME Apart PROVE Spec => []StoredKeyWorks
<1>1. Custody => StoredKeyWorks
  <2> SUFFICES ASSUME Custody, NEW r \in Roles, store[r].key # NoKey, ~Deleting(r)
               PROVE  cred[store[r].key] = store[r].user
    BY DEF StoredKeyWorks
  <2>1. store[r].user # NoUser
    BY Blank DEF Custody, Sound, RoleKnown
  <2> QED BY <2>1, WorkingKey
<1> QED BY <1>1, CustodyHolds, PTL

(* Two stored roles never share a service user, under the same             *)
(* assumption; so deleting a role never takes another one's key.           *)
THEOREM UsersStayOwn == ASSUME Apart PROVE Spec => []OwnUser
BY CustodyHolds, PTL

=============================================================================
