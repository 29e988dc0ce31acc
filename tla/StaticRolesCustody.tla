-------------------------- MODULE StaticRolesCustody --------------------------
(***************************************************************************)
(* StaticRoles implements KeyCustody, and only a failure leaves a key      *)
(* behind, for any roles, users, keys and number of requests at one time.  *)
(***************************************************************************)
EXTENDS StaticRolesProofs

(***************************************************************************)
(* What a step may do to one key, one record and one request.              *)
(***************************************************************************)
LEMMA CredMoves ==
  ASSUME TypeOK, [Next]_vars, NEW k \in Keys
  PROVE  \/ cred'[k] = cred[k] \/ cred'[k] = NoUser
         \/ \E h \in Handlers : CreateCredential(h, k)
<1> DEFINE Moves == \/ cred'[k] = cred[k] \/ cred'[k] = NoUser
                    \/ \E h \in Handlers : CreateCredential(h, k)
<1>1. ASSUME cred' = cred PROVE Moves
  BY <1>1
<1>2. ASSUME NEW h \in Handlers, NEW j \in Keys, CreateCredential(h, j) PROVE Moves
  BY <1>2 DEF CreateCredential, TypeOK
<1>3. ASSUME NEW h \in Handlers, Drop(h) \/ RemoveUser(h) PROVE Moves
  BY <1>3 DEF Drop, RemoveUser, TypeOK
<1> QED BY <1>1, <1>2, <1>3
        DEF Next, vars, Write, WriteBegin, FindUser, CreateUser, CreateUserLost,
        Rotate, RotateBegin, Mint, MintLost, Store,
        Delete, DeleteBegin, Remove, RemoveLost, Forget, ForgetRefused, DeleteAgain,
        Periodic, PeriodicBegin, PeriodicSkip, PeriodicRotate, Abort, Read, Configure, Tick

LEMMA StoreMoves ==
  ASSUME TypeOK, [Next]_vars, NEW r \in Roles
  PROVE  \/ store'[r].key = store[r].key /\ store'[r].user = store[r].user
         \/ \E h \in Handlers : call[h].role = r /\ (Store(h) \/ Forget(h))
<1> DEFINE Moves == \/ store'[r].key = store[r].key /\ store'[r].user = store[r].user
                    \/ \E h \in Handlers : call[h].role = r /\ (Store(h) \/ Forget(h))
<1>1. ASSUME store' = store PROVE Moves
  BY <1>1
<1>2. ASSUME NEW h \in Handlers, Store(h) \/ Forget(h) PROVE Moves
  BY <1>2 DEF Store, Forget, TypeOK
<1>3. ASSUME Tick PROVE Moves
  BY <1>3, AgedSame DEF Tick, TypeOK
<1> QED BY <1>1, <1>2, <1>3
        DEF Next, vars, Write, WriteBegin, FindUser, CreateUser, CreateUserLost,
        Rotate, RotateBegin, Mint, MintLost, CreateCredential, Drop,
        Delete, DeleteBegin, Remove, RemoveLost, RemoveUser, ForgetRefused, DeleteAgain,
        Periodic, PeriodicBegin, PeriodicSkip, PeriodicRotate, Abort, Read, Configure

(* A request that a step is not about keeps all it holds but time.         *)
SameCall(g) ==
  /\ call'[g].pc = call[g].pc /\ call'[g].op = call[g].op /\ call'[g].role = call[g].role
  /\ call'[g].old = call[g].old
  /\ call'[g].mine.user = call[g].mine.user /\ call'[g].mine.key = call[g].mine.key

EndsIdle(h) ==
  /\ call'[h].pc = "idle" /\ call'[h].op = "none" /\ call'[h].role = NoName
  /\ call'[h].mine.key = NoKey /\ call'[h].old = NoKey

LEMMA IdleHolds ==
  ASSUME NEW h \in Handlers, TypeOK,
         NEW todo, call' = [call EXCEPT ![h] = [Idle EXCEPT !.todo = todo]]
  PROVE  EndsIdle(h) /\ \A g \in Handlers \ {h} : call'[g] = call[g]
BY DEF EndsIdle, Idle, NoRole, TypeOK

(* The ways on for a request, as far as keys are concerned.                *)
Advances(h) ==
  \/ EndsIdle(h) /\ (Finish(h) \/ call[h].pc = "idle")
  \/ \E r \in Roles : /\ call[h].pc = "idle"
                      /\ call'[h].role = r /\ call'[h].old = store[r].key
                      /\ call'[h].mine.user = store[r].user /\ call'[h].mine.key = store[r].key
                      /\ \/ call'[h].pc \in {"find", "mint"} /\ call'[h].op # "delete"
                         \/ /\ call'[h].pc = "store" /\ call'[h].op = "write"
                         \/ call'[h].pc \in {"remove", "forget"} /\ call'[h].op = "delete"
                                                                 /\ store[r] # NoRole
  \/ /\ call[h].pc \in {"find", "user"} /\ call'[h].pc \in {"user", "mint"}
     /\ call'[h].op = call[h].op /\ call'[h].role = call[h].role
     /\ call'[h].mine.key = call[h].mine.key /\ call'[h].old = call[h].old
  \/ \E k \in Keys : /\ Mint(h, k)
                     /\ call'[h].pc = "store" /\ call'[h].op = call[h].op
                     /\ call'[h].role = call[h].role
                     /\ call'[h].mine.user = call[h].mine.user
                     /\ call'[h].mine.key = k /\ call'[h].old = call[h].old
  \/ /\ Store(h) /\ call'[h].pc = "drop" /\ call[h].op # "write" /\ call[h].old # NoKey
     /\ call'[h].op = call[h].op /\ call'[h].role = call[h].role
     /\ call'[h].mine = call[h].mine /\ call'[h].old = call[h].old
  \/ /\ call[h].op = "delete" /\ call'[h].op = "delete" /\ call'[h].role = call[h].role
     /\ call'[h].pc \in {"remove", "forget", "again"} /\ call'[h].old = call[h].old
     /\ \/ call'[h].mine = call[h].mine
        \/ call'[h].mine = store[call[h].role] /\ store[call[h].role] # NoRole

LEMMA CallMoves ==
  ASSUME TypeOK, \A h \in Handlers : StageKnown(h), [Next]_vars
  PROVE  \/ \A g \in Handlers : SameCall(g)
         \/ \E h \in Handlers : Advances(h) /\ \A g \in Handlers \ {h} : SameCall(g)
<1> DEFINE Moves ==
      \/ \A g \in Handlers : SameCall(g)
      \/ \E h \in Handlers : Advances(h) /\ \A g \in Handlers \ {h} : SameCall(g)
<1> USE DEF TypeOK
<1>0. ASSUME NEW h \in Handlers, NEW c, Go(h, c), c \in Calls,
             Advances(h)
      PROVE  Moves
  BY <1>0 DEF Go, SameCall
<1>1. ASSUME NEW h \in Handlers, Finish(h) PROVE Moves
  BY <1>1, IdleHolds DEF Finish, Go, Advances, SameCall
<1>2. ASSUME call' = call PROVE Moves
  BY <1>2 DEF SameCall
<1>3. ASSUME NEW h \in Handlers, NEW op \in Changes, NEW r \in Roles, NEW pc, NEW mine,
             Begin(h, op, r, pc, mine), MayBegin(h, op, r),
             mine.user = store[r].user, mine.key = store[r].key,
             \/ op = "write" /\ pc \in {"find", "mint", "store"}
             \/ op \in {"rotate", "periodic"} /\ pc = "mint"
             \/ op = "delete" /\ pc \in {"remove", "forget"} /\ store[r] # NoRole
      PROVE  Moves
  <2>1. /\ call'[h].role = r /\ call'[h].old = store[r].key /\ call'[h].mine = mine
        /\ call'[h].pc = pc /\ call'[h].op = op /\ call[h].pc = "idle"
        /\ \A g \in Handlers \ {h} : call'[g] = call[g]
    BY <1>3 DEF Begin, Go, MayBegin
  <2> QED BY <1>3, <2>1 DEF Advances, SameCall
<1>4. ASSUME NEW h \in Handlers, Write(h) PROVE Moves
  <2>1. ASSUME NEW r \in Roles, NEW p \in Periods, WriteBegin(h, r, p) PROVE Moves
    <3>1. [store[r] EXCEPT !.period = p].user = store[r].user
          /\ [store[r] EXCEPT !.period = p].key = store[r].key
      BY DEF StaticRole
    <3> QED BY <1>3, <2>1, <3>1 DEF WriteBegin, Changes
  <2>2. ASSUME NEW u \in Users, WithUser(h, u), call[h].pc \in {"find", "user"} PROVE Moves
    <3>1. /\ call'[h].pc = "mint" /\ call'[h].op = call[h].op /\ call'[h].role = call[h].role
          /\ call'[h].mine.key = call[h].mine.key /\ call'[h].old = call[h].old
          /\ \A g \in Handlers \ {h} : call'[g] = call[g]
      BY <2>2 DEF WithUser, Go, Calls, StaticRole
    <3> QED BY <2>2, <3>1 DEF Advances, SameCall
  <2>3. CASE call[h].pc = "find" /\ Go(h, [call[h] EXCEPT !.pc = "user"])
    <3>1. /\ call'[h].pc = "user" /\ call'[h].op = call[h].op /\ call'[h].role = call[h].role
          /\ call'[h].mine = call[h].mine /\ call'[h].old = call[h].old
          /\ \A g \in Handlers \ {h} : call'[g] = call[g]
      BY <2>3 DEF Go, Calls
    <3> QED BY <2>3, <3>1 DEF Advances, SameCall
  <2> QED BY <1>1, <1>4, <2>1, <2>2, <2>3 DEF Write, FindUser, CreateUser, CreateUserLost
<1>5. ASSUME NEW h \in Handlers, Rotate(h) PROVE Moves
  <2>1. ASSUME NEW r \in Roles, RotateBegin(h, r) PROVE Moves
    BY <1>3, <2>1 DEF RotateBegin, Changes
  <2>2. ASSUME NEW k \in Keys, Mint(h, k) PROVE Moves
    <3>1. /\ call'[h].pc = "store" /\ call'[h].op = call[h].op /\ call'[h].role = call[h].role
          /\ call'[h].mine.user = call[h].mine.user /\ call'[h].mine.key = k
          /\ call'[h].old = call[h].old
          /\ \A g \in Handlers \ {h} : call'[g] = call[g]
      BY <2>2 DEF Mint, Go, Calls, StaticRole
    <3> QED BY <2>2, <3>1 DEF Advances, SameCall
  <2>3. CASE Store(h) /\ call[h].op # "write" /\ call[h].old # NoKey /\ Go(h, [call[h] EXCEPT !.pc = "drop"])
    <3>1. /\ call'[h].pc = "drop" /\ call'[h].op = call[h].op /\ call'[h].role = call[h].role
          /\ call'[h].mine = call[h].mine /\ call'[h].old = call[h].old
          /\ \A g \in Handlers \ {h} : call'[g] = call[g]
      BY <2>3 DEF Go, Calls
    <3> QED BY <2>3, <3>1 DEF Advances, SameCall
  <2>4. ASSUME Store(h) PROVE Moves
    BY <1>1, <2>3, <2>4 DEF Store
  <2> QED BY <1>1, <1>5, <2>1, <2>2, <2>4 DEF Rotate, MintLost, Drop
<1>6. ASSUME NEW h \in Handlers, Delete(h) PROVE Moves
  <2>1. ASSUME NEW r \in Roles, DeleteBegin(h, r) PROVE Moves
    BY <1>3, <2>1 DEF DeleteBegin, DeleteFrom, Changes
  <2>2. ASSUME NEW pc \in {"remove", "forget", "again"}, NEW mine, call[h].op = "delete",
               Go(h, [call[h] EXCEPT !.pc = pc, !.mine = mine]),
               mine = call[h].mine \/ (mine = store[call[h].role] /\ store[call[h].role] # NoRole)
        PROVE  Moves
    <3>1. /\ call'[h].pc = pc /\ call'[h].op = call[h].op /\ call'[h].role = call[h].role
          /\ call'[h].mine = mine /\ call'[h].old = call[h].old
          /\ \A g \in Handlers \ {h} : call'[g] = call[g]
      BY <2>2 DEF Go, Calls
    <3> QED BY <2>2, <3>1 DEF Advances, SameCall
  <2>3. ASSUME NEW pc \in {"remove", "forget", "again"}, call[h].op = "delete",
               Go(h, [call[h] EXCEPT !.pc = pc])
        PROVE  Moves
    <3>1. [call[h] EXCEPT !.pc = pc] = [call[h] EXCEPT !.pc = pc, !.mine = call[h].mine]
      BY DEF Calls
    <3> QED BY <2>2, <2>3, <3>1
  <2>4. call[h].pc \in {"remove", "forget", "again"} => call[h].op = "delete"
    BY DEF StageKnown
  <2>5. ASSUME Remove(h) \/ RemoveLost(h) \/ ForgetRefused(h) PROVE Moves
    BY <2>3, <2>4, <2>5 DEF Remove, RemoveLost, RemoveUser, ForgetRefused
  <2>6. ASSUME DeleteAgain(h) PROVE Moves
    <3>1. CASE Go(h, [call[h] EXCEPT !.pc = DeleteFrom, !.mine = store[call[h].role]])
               /\ store[call[h].role] # NoRole
      BY <2>2, <2>4, <2>6, <3>1 DEF DeleteAgain, DeleteFrom
    <3> QED BY <1>1, <2>6, <3>1 DEF DeleteAgain
  <2> QED BY <1>1, <1>6, <2>1, <2>5, <2>6 DEF Delete, Forget
<1>7. CASE Periodic
  <2>0. Ticker \in Handlers
    BY ConstantsAssumption
  <2>1. ASSUME NEW todo, call' = [call EXCEPT ![Ticker] = [Idle EXCEPT !.todo = todo]],
               call[Ticker].pc = "idle"
        PROVE  Moves
    BY <2>0, <2>1, IdleHolds DEF Advances, SameCall
  <2>2. ASSUME NEW r \in Roles, PeriodicRotate(r) PROVE Moves
    BY <1>3, <2>0, <2>2 DEF PeriodicRotate, Changes
  <2>3. CASE PeriodicBegin
    BY <2>1, <2>3, Blank DEF PeriodicBegin, Go
  <2> QED BY <1>7, <2>1, <2>2, <2>3 DEF Periodic, PeriodicSkip, Go
<1>8. CASE Tick
  <2>1. ASSUME NEW h \in Handlers PROVE SameCall(h)
    <3>1. call'[h] = [call[h] EXCEPT !.mine = Aged(@)]
      BY <1>8 DEF Tick
    <3>2. call[h].mine \in StaticRole
      BY DEF Calls
    <3>3. Aged(call[h].mine).user = call[h].mine.user /\ Aged(call[h].mine).key = call[h].mine.key
      BY <3>2, AgedSame
    <3>4. /\ call'[h].mine = Aged(call[h].mine) /\ call'[h].pc = call[h].pc
          /\ call'[h].op = call[h].op /\ call'[h].role = call[h].role /\ call'[h].old = call[h].old
      BY <3>1 DEF Calls
    <3> QED BY <3>3, <3>4 DEF SameCall
  <2> QED BY <2>1
<1> QED BY <1>1, <1>2, <1>4, <1>5, <1>6, <1>7, <1>8 DEF Next, vars, Abort, Read, Configure

(***************************************************************************)
(* The invariant.                                                          *)
(***************************************************************************)
LEMMA RecordWritten ==
  ASSUME TypeOK, NEW g \in Handlers
  PROVE  /\ Store(g) => call[g].pc = "store" /\ call'[g].pc \in {"idle", "drop"}
         /\ Forget(g) => call[g].pc = "forget" /\ call'[g].pc = "idle"
<1>1. Finish(g) => call'[g].pc = "idle"
  BY IdleHolds DEF Finish, Go, EndsIdle
<1>2. Go(g, [call[g] EXCEPT !.pc = "drop"]) => call'[g].pc = "drop"
  BY DEF Go, TypeOK, Calls
<1> QED BY <1>1, <1>2 DEF Store, Forget

(* Nobody else writes the record of a role someone works on.               *)
LEMMA RecordKept ==
  ASSUME Custody, [Next]_vars, NEW g \in Handlers, call[g].role \in Roles,
         ~Store(g), ~Forget(g)
  PROVE  /\ store'[call[g].role].key = store[call[g].role].key
         /\ store'[call[g].role].user = store[call[g].role].user
<1>1. ASSUME NEW h \in Handlers, call[h].role = call[g].role PROVE h = g
  BY <1>1, AbsentAssumption DEF Custody, AloneOnRole
<1> QED BY <1>1, StoreMoves DEF Custody

(* A key that some request still means to delete is not minted again.      *)
LEMMA OldKeyKept ==
  ASSUME TypeOK, [Next]_vars, NEW g \in Handlers, call[g].old \in Keys
  PROVE  cred'[call[g].old] \in {cred[call[g].old], NoUser}
<1>1. \A h \in Handlers : ~CreateCredential(h, call[g].old)
  BY DEF CreateCredential, NewKey
<1> QED BY <1>1, CredMoves

LEMMA KeysTracedStep ==
  ASSUME Trace, [Next]_vars, NEW g \in Handlers PROVE KeysTraced(g)'
<1>0. /\ KeysTraced(g) /\ StageKnown(g) /\ call \in [Handlers -> Calls] /\ TypeOK /\ Custody
      /\ store \in [Roles -> StaticRole] /\ \A h \in Handlers : StageKnown(h)
  BY DEF Trace, Custody, TypeOK
<1>1. CASE SameCall(g)
  <2>1. ~Store(g) /\ ~Forget(g)
    BY <1>0, <1>1, RecordWritten DEF SameCall
  <2>2. CASE call[g].pc = "idle"
    BY <1>0, <1>1, <2>2 DEF KeysTraced, SameCall, StageKnown
  <2>3. CASE call[g].pc # "idle"
    <3>1. call[g].role \in Roles
      BY <1>0, <2>3 DEF StageKnown, Calls
    <3>2. /\ store'[call[g].role].key = store[call[g].role].key
          /\ store'[call[g].role].user = store[call[g].role].user
      BY <1>0, <2>1, <3>1, RecordKept
    <3>3. call[g].pc = "drop" => cred'[call[g].old] \in {call[g].mine.user, NoUser}
      BY <1>0, OldKeyKept DEF KeysTraced, Calls
    <3> QED BY <1>0, <1>1, <3>2, <3>3 DEF KeysTraced, SameCall
  <2> QED BY <2>2, <2>3
<1>2. CASE Advances(g)
  <2>1. CASE EndsIdle(g)
    BY <2>1 DEF EndsIdle, KeysTraced
  <2>2. ASSUME NEW r \in Roles, call[g].pc = "idle",
               call'[g].role = r, call'[g].old = store[r].key,
               call'[g].mine.user = store[r].user, call'[g].mine.key = store[r].key,
               \/ call'[g].pc \in {"find", "mint"} /\ call'[g].op # "delete"
               \/ call'[g].pc = "store" /\ call'[g].op = "write"
               \/ call'[g].pc \in {"remove", "forget"} /\ call'[g].op = "delete"
                                                       /\ store[r] # NoRole
        PROVE  KeysTraced(g)'
    <3>1. store'[r].key = store[r].key /\ store'[r].user = store[r].user
      <4>1. ASSUME NEW h \in Handlers, Store(h) \/ Forget(h) PROVE FALSE
        <5>1. call[h].pc \in {"store", "forget"} /\ call'[h].pc \in {"idle", "drop"}
          BY <1>0, <4>1, RecordWritten
        <5>2. h # g /\ ~SameCall(h) /\ ~SameCall(g)
          BY <2>2, <5>1 DEF SameCall
        <5> QED BY <1>0, <5>2, CallMoves
      <4> QED BY <1>0, <4>1, StoreMoves
    <3>2. store[r] # NoRole => store[r].user # NoUser
      BY <1>0 DEF Custody, Sound, RoleKnown
    <3> QED BY <2>2, <3>1, <3>2 DEF KeysTraced
  <2>3. CASE /\ call[g].pc \in {"find", "user"} /\ call'[g].pc \in {"user", "mint"}
             /\ call'[g].op = call[g].op /\ call'[g].role = call[g].role
             /\ call'[g].mine.key = call[g].mine.key /\ call'[g].old = call[g].old
    <3>1. ~Store(g) /\ ~Forget(g) /\ call[g].role \in Roles /\ call[g].op = "write"
      BY <1>0, <2>3, RecordWritten DEF StageKnown, Calls
    <3> QED BY <1>0, <2>3, <3>1, RecordKept DEF KeysTraced
  <2>4. ASSUME NEW k \in Keys, Mint(g, k), call'[g].pc = "store", call'[g].op = call[g].op,
               call'[g].role = call[g].role, call'[g].mine.user = call[g].mine.user,
               call'[g].mine.key = k, call'[g].old = call[g].old
        PROVE  KeysTraced(g)'
    <3>1. call[g].pc = "mint" /\ store' = store /\ call[g].op # "delete"
      BY <1>0, <2>4 DEF Mint, CreateCredential, StageKnown
    <3> QED BY <1>0, <2>4, <3>1 DEF KeysTraced
  <2>5. CASE /\ Store(g) /\ call'[g].pc = "drop" /\ call[g].op # "write" /\ call[g].old # NoKey
             /\ call'[g].op = call[g].op /\ call'[g].role = call[g].role
             /\ call'[g].mine = call[g].mine /\ call'[g].old = call[g].old
    <3>1. call[g].pc = "store" /\ cred' = cred /\ call[g].op \in {"rotate", "periodic"}
          /\ call[g].role \in Roles
      BY <1>0, <2>5 DEF Store, StageKnown, Calls
    <3>2. call[g].old = store[call[g].role].key /\ RotateKnown(g)
      BY <1>0, <2>5, <3>1 DEF KeysTraced, Custody, Sound, On, Facts
    <3>3. cred[call[g].old] \in {call[g].mine.user, NoUser}
      BY <2>5, <3>1, <3>2 DEF Trace, CredTraced, RotateKnown
    <3> QED BY <2>5, <3>1, <3>3 DEF KeysTraced
  <2>6. CASE /\ call[g].op = "delete" /\ call'[g].op = "delete" /\ call'[g].role = call[g].role
             /\ call'[g].pc \in {"remove", "forget", "again"} /\ call'[g].old = call[g].old
             /\ \/ call'[g].mine = call[g].mine
                \/ call'[g].mine = store[call[g].role] /\ store[call[g].role] # NoRole
    <3>1. ~Store(g) /\ ~Forget(g) /\ call[g].role \in Roles
      BY <1>0, <2>6, RecordWritten DEF StageKnown, Calls
    <3> QED BY <1>0, <2>6, <3>1, RecordKept DEF KeysTraced
  <2> QED BY <1>2, <2>1, <2>2, <2>3, <2>4, <2>5, <2>6 DEF Advances
<1> QED BY <1>0, <1>1, <1>2, CallMoves

LEMMA CredTracedStep == ASSUME Trace, [Next]_vars PROVE CredTraced'
<1>0. /\ TypeOK /\ Custody /\ CredTraced /\ \A h \in Handlers : StageKnown(h)
      /\ store \in [Roles -> StaticRole]
  BY DEF Trace, Custody, TypeOK
<1>1. ASSUME NEW r \in Roles, store'[r].key # NoKey
      PROVE  cred'[store'[r].key] \in {store'[r].user, NoUser}
  <2>1. ASSUME NEW h \in Handlers, Store(h), call[h].role = r PROVE cred'[store'[r].key] = store'[r].user
    <3>1. store'[r] = call[h].mine /\ cred' = cred
      BY <1>0, <2>1 DEF Store
    <3> QED BY <1>0, <2>1, <3>1, StoresWorkingKey
  <2>2. ASSUME NEW h \in Handlers, Forget(h), call[h].role = r PROVE FALSE
    BY <1>0, <1>1, <2>2, Blank DEF Forget
  <2>3. ASSUME store'[r].key = store[r].key, store'[r].user = store[r].user
        PROVE  cred'[store'[r].key] \in {store'[r].user, NoUser}
    <3>1. store[r].key \in Keys
      BY <1>0, <1>1, <2>3 DEF StaticRole
    <3>2. \A h \in Handlers : ~CreateCredential(h, store[r].key)
      BY DEF CreateCredential, NewKey
    <3> QED BY <1>0, <1>1, <2>3, <3>1, <3>2, CredMoves DEF CredTraced
  <2> QED BY <1>0, <2>1, <2>2, <2>3, StoreMoves
<1>2. ASSUME NEW k \in Keys, cred'[k] # NoUser PROVE name'[cred'[k]] # NoName
  <2>0. name \in [Users -> Roles \cup {NoName}] /\ cred \in [Keys -> Users \cup {NoUser}]
    BY <1>0 DEF TypeOK
  <2>1. ASSUME NEW h \in Handlers, CreateCredential(h, k), call[h].mine.user \in Users
        PROVE  name'[cred'[k]] # NoName
    BY <2>0, <2>1 DEF CreateCredential
  <2>2. CASE cred'[k] = cred[k] /\ \A h \in Handlers : ~RemoveUser(h)
    <3>1. name[cred[k]] # NoName /\ cred[k] \in Users
      BY <1>0, <1>2, <2>0, <2>2 DEF CredTraced
    <3>2. ASSUME NEW h \in Handlers, NEW u \in Users, CreateUser(h, u) \/ CreateUserLost(h, u)
          PROVE  name'[cred[k]] = name[cred[k]]
      BY <2>0, <3>1, <3>2 DEF CreateUser, CreateUserLost, NewUser
    <3>3. name' = name \/ \E h \in Handlers, u \in Users : CreateUser(h, u) \/ CreateUserLost(h, u)
      BY <2>2 DEF Next, vars, Write, WriteBegin, FindUser,
        Rotate, RotateBegin, Mint, MintLost, Store, CreateCredential, Drop,
        Delete, DeleteBegin, Remove, RemoveLost, Forget, ForgetRefused, DeleteAgain,
        Periodic, PeriodicBegin, PeriodicSkip, PeriodicRotate, Abort, Read, Configure, Tick
    <3> QED BY <2>2, <3>1, <3>2, <3>3
  <2>3. ASSUME NEW h \in Handlers, RemoveUser(h) PROVE name'[cred'[k]] # NoName
    <3>1. cred'[k] = cred[k] /\ cred[k] # call[h].mine.user
      BY <1>2, <2>0, <2>3 DEF RemoveUser
    <3> QED BY <1>0, <1>2, <2>0, <2>3, <3>1 DEF RemoveUser, CredTraced
  <2>4. ASSUME NEW h \in Handlers, CreateCredential(h, k) PROVE cred'[k] = call[h].mine.user
    BY <2>0, <2>4 DEF CreateCredential
  <2>5. ASSUME NEW h \in Handlers, CreateCredential(h, k) PROVE call[h].mine.user \in Users
    BY <1>0, <1>2, <2>4, <2>5 DEF TypeOK, Calls, StaticRole
  <2> QED BY <1>0, <1>2, <2>1, <2>2, <2>3, <2>5, CredMoves
<1> QED BY <1>1, <1>2 DEF CredTraced

(* What a request may come to hold: what is stored, or a key new to all.   *)
LEMMA HoldsKnownKeys ==
  ASSUME TypeOK, \A h \in Handlers : StageKnown(h), [Next]_vars, NEW g \in Handlers
  PROVE  /\ \/ call'[g].mine.key \in {call[g].mine.key, NoKey}
            \/ \E r \in Roles : call'[g].mine.key = store[r].key
            \/ \E k \in Keys : Mint(g, k) /\ call'[g].mine.key = k
         /\ call'[g].old \in {call[g].old, NoKey} \/ \E r \in Roles : call'[g].old = store[r].key
<1>1. CASE SameCall(g)
  BY <1>1 DEF SameCall
<1>2. CASE Advances(g)
  <2>1. call[g].op = "delete" => call[g].role \in Roles
    BY DEF StageKnown, TypeOK, Calls
  <2> QED BY <1>2, <2>1 DEF Advances, EndsIdle
<1> QED BY <1>1, <1>2, CallMoves

LEMMA MintingMoves ==
  ASSUME Trace, [Next]_vars, NEW g \in Handlers, NEW k \in Keys, Minting(g, k)'
  PROVE  \/ Minting(g, k) /\ SameCall(g)
         \/ Mint(g, k) /\ call'[g].old = call[g].old
<1>0. /\ StageKnown(g) /\ TypeOK /\ Custody /\ \A h \in Handlers : StageKnown(h)
  BY DEF Trace, Custody, TypeOK
<1>1. call'[g].pc = "store" /\ call'[g].mine.key = k /\ store'[call'[g].role].key # k
  BY DEF Minting
<1>2. CASE SameCall(g)
  <2>1. call[g].role \in Roles /\ ~Store(g) /\ ~Forget(g)
    BY <1>0, <1>1, <1>2, RecordWritten DEF SameCall, StageKnown, TypeOK, Calls
  <2> QED BY <1>0, <1>1, <1>2, <2>1, RecordKept DEF SameCall, Minting
<1>3. CASE Advances(g)
  <2>1. ASSUME NEW r \in Roles, call[g].pc = "idle", call'[g].role = r,
               call'[g].mine.key = store[r].key
        PROVE  FALSE
    <3>1. ASSUME NEW h \in Handlers, Store(h) \/ Forget(h) PROVE FALSE
      <4>1. call[h].pc \in {"store", "forget"} /\ call'[h].pc \in {"idle", "drop"}
        BY <1>0, <3>1, RecordWritten
      <4>2. h # g /\ ~SameCall(h) /\ ~SameCall(g)
        BY <1>1, <2>1, <4>1 DEF SameCall
      <4> QED BY <1>0, <4>2, CallMoves
    <3>2. store'[r].key = store[r].key
      BY <1>0, <3>1, StoreMoves
    <3> QED BY <1>1, <2>1, <3>2
  <2> QED BY <1>1, <1>3, <2>1 DEF Advances, EndsIdle
<1> QED BY <1>0, <1>2, <1>3, CallMoves

LEMMA MintedKeyFreshStep ==
  ASSUME Trace, [Next]_vars, NEW g \in Handlers PROVE MintedKeyFresh(g)'
<1>0. TypeOK /\ Custody /\ (\A h \in Handlers : StageKnown(h)) /\ MintedKeyFresh(g)
  BY DEF Trace, Custody
<1> SUFFICES ASSUME NEW k \in Keys, Minting(g, k)'
             PROVE  /\ \A r \in Roles : store'[r].key # k
                    /\ call'[g].old # k
                    /\ \A h \in Handlers \ {g} : k \notin {call'[h].mine.key, call'[h].old}
  BY DEF MintedKeyFresh
<1>1. \/ Minting(g, k) /\ SameCall(g)
      \/ Mint(g, k) /\ call'[g].old = call[g].old
  BY MintingMoves
<1>2. /\ \A r \in Roles : store[r].key # k
      /\ call[g].old # k /\ call'[g].old # k
      /\ \A h \in Handlers \ {g} : k \notin {call[h].mine.key, call[h].old}
  BY <1>0, <1>1 DEF MintedKeyFresh, Mint, CreateCredential, NewKey, SameCall
<1>3. ASSUME NEW r \in Roles PROVE store'[r].key # k
  <2>1. ASSUME NEW h \in Handlers, Store(h), call[h].role = r PROVE store'[r].key # k
    <3>1. h # g
      BY <1>0, <1>1, <2>1, RecordWritten DEF SameCall, Mint, CreateCredential, Minting
    <3> QED BY <1>0, <1>2, <2>1, <3>1 DEF Store, TypeOK
  <2>2. ASSUME NEW h \in Handlers, Forget(h), call[h].role = r PROVE store'[r].key # k
    BY <1>0, <2>2, Blank, AbsentAssumption DEF Forget, TypeOK
  <2> QED BY <1>0, <1>2, <2>1, <2>2, StoreMoves
<1>4. ASSUME NEW h \in Handlers \ {g} PROVE k \notin {call'[h].mine.key, call'[h].old}
  <2>1. ASSUME NEW j \in Keys, Mint(h, j) PROVE j # k
    <3>1. CASE Minting(g, k)
      BY <2>1, <3>1 DEF Mint, CreateCredential, NewKey, Minting
    <3>2. CASE Mint(g, k)
      <4>1. call[g].pc = "mint" /\ call'[g].pc = "store"
        BY <1>0, <3>2 DEF Mint, Go, CreateCredential, TypeOK, Calls
      <4>2. call'[g] = call[g]
        BY <1>0, <2>1 DEF Mint, Go, TypeOK
      <4> QED BY <4>1, <4>2
    <3> QED BY <1>1, <3>1, <3>2
  <2>2. /\ \/ call'[h].mine.key \in {call[h].mine.key, NoKey}
           \/ \E r \in Roles : call'[h].mine.key = store[r].key
           \/ \E j \in Keys : Mint(h, j) /\ call'[h].mine.key = j
        /\ call'[h].old \in {call[h].old, NoKey} \/ \E r \in Roles : call'[h].old = store[r].key
    BY <1>0, HoldsKnownKeys
  <2>3. k # NoKey /\ k \notin {call[h].mine.key, call[h].old}
    BY <1>2, AbsentAssumption
  <2> QED BY <1>2, <2>1, <2>2, <2>3
<1> QED BY <1>2, <1>3, <1>4

LEMMA TraceInit == Init => Trace
<1> SUFFICES ASSUME Init PROVE Trace
  OBVIOUS
<1>1. \A h \in Handlers : call[h] = Idle
  BY DEF Init
<1>2. \A h \in Handlers : KeysTraced(h) /\ MintedKeyFresh(h)
  BY <1>1, Blank DEF KeysTraced, MintedKeyFresh, Minting, Idle
<1>3. CredTraced
  BY Blank DEF Init, CredTraced
<1> QED BY <1>2, <1>3, CustodyInit DEF Trace

LEMMA TraceStep == ASSUME Apart, OwnUser, Trace, [Next]_vars PROVE Trace' /\ OwnUser'
<1>1. Custody
  BY DEF Trace
<1>2. TypeOK' /\ \A h \in Handlers : StageKnown(h)'
  BY <1>1, TypeStep, StageStep DEF Custody
<1>3. AloneOnRole'
  BY <1>1, AloneStep DEF Custody
<1>4. \A s \in Roles : Sound(s)'
  BY <1>1, <1>3, SoundStep
<1>5. Custody'
  BY <1>2, <1>3, <1>4 DEF Custody
<1> QED BY <1>1, <1>5, OwnUserStep, KeysTracedStep, MintedKeyFreshStep, CredTracedStep DEF Trace

-----------------------------------------------------------------------------
(***************************************************************************)
(* StaticRoles implements KeyCustody.                                      *)
(***************************************************************************)
Minted(k) == \E h \in Handlers : Minting(h, k)

LEMMA StageIs ==
  /\ DOMAIN KeyStage = Keys
  /\ \A k \in Keys : KeyStage[k] =
       IF Minted(k) THEN "minted" ELSE IF HandedOut(k) THEN "owed"
       ELSE IF BeingDropped(k) THEN "due" ELSE "free"
BY DEF KeyStage, Minted

LEMMA Passing ==
  ASSUME NEW from, NEW to,
         \A k \in Keys : \/ KeyStage'[k] = KeyStage[k]
                         \/ KeyStage[k] = from /\ KeyStage'[k] = to
  PROVE  Life!Pass(from, to)
<1> DEFINE S == {k \in Keys : KeyStage[k] = from /\ KeyStage'[k] = to}
<1>1. KeyStage' = [k \in Keys |-> IF k \in S THEN to ELSE KeyStage[k]]
  <2>1. KeyStage' = [k \in Keys |-> KeyStage'[k]]
    BY DEF KeyStage
  <2>2. \A k \in Keys : KeyStage'[k] = IF k \in S THEN to ELSE KeyStage[k]
    OBVIOUS
  <2> QED BY <2>1, <2>2
<1>2. S \in SUBSET {k \in Keys : KeyStage[k] = from}
  OBVIOUS
<1> QED BY <1>1, <1>2 DEF Life!Pass

LEMMA SameStage ==
  ASSUME NEW k \in Keys, Minted(k)' <=> Minted(k), HandedOut(k)' <=> HandedOut(k),
         BeingDropped(k)' <=> BeingDropped(k)
  PROVE  KeyStage'[k] = KeyStage[k]
BY DEF KeyStage, Minted

(* What a step of one request leaves as it is.                             *)
LEMMA Frame ==
  ASSUME Trace, NEW h \in Handlers, \A g \in Handlers \ {h} : SameCall(g),
         \A r \in Roles : ~On(h, r) => store'[r].key = store[r].key
  PROVE  /\ \A g \in Handlers \ {h}, k \in Keys : call[h].role \in Roles \/ store' = store =>
              (Minting(g, k)' <=> Minting(g, k))
         /\ \A r \in Roles : ~On(h, r) /\ ~On(h, r)' => (Deleting(r)' <=> Deleting(r))
         /\ \A r \in Roles : On(h, r) => (Deleting(r) <=> call[h].op = "delete")
<1>1. ASSUME NEW g \in Handlers \ {h}, NEW k \in Keys, call[h].role \in Roles \/ store' = store
      PROVE  Minting(g, k)' <=> Minting(g, k)
  <2>1. CASE call[g].pc # "store"
    BY <2>1 DEF Minting, SameCall
  <2>2. CASE call[g].pc = "store"
    <3>1. call[g].role \in Roles
      BY <2>2 DEF Trace, Custody, StageKnown, TypeOK, Calls
    <3>2. store'[call[g].role].key = store[call[g].role].key
      BY <1>1, <3>1, AbsentAssumption DEF Trace, Custody, AloneOnRole, On
    <3> QED BY <3>2 DEF Minting, SameCall
  <2> QED BY <2>1, <2>2
<1>2. ASSUME NEW r \in Roles, ~On(h, r), ~On(h, r)' PROVE Deleting(r)' <=> Deleting(r)
  BY <1>2 DEF Deleting, On, SameCall
<1>3. ASSUME NEW r \in Roles, On(h, r) PROVE Deleting(r) <=> call[h].op = "delete"
  BY <1>3, AbsentAssumption DEF Deleting, On, Trace, Custody, AloneOnRole
<1> QED BY <1>1, <1>2, <1>3

(* A step of a request that neither mints nor hands over, nor begins or    *)
(* ends a deletion.                                                        *)
LEMMA Quiet ==
  ASSUME Trace, NEW h \in Handlers, \A g \in Handlers \ {h} : SameCall(g),
         \A r \in Roles : store'[r].key = store[r].key,
         \A k \in Keys : Minting(h, k)' <=> Minting(h, k),
         call[h].pc # "drop", call'[h].pc # "drop",
         \A r \in Roles : store[r].key # NoKey =>
           (On(h, r)' /\ call'[h].op = "delete" <=> On(h, r) /\ call[h].op = "delete")
  PROVE  KeyStage' = KeyStage
<1>1. ASSUME NEW k \in Keys PROVE KeyStage'[k] = KeyStage[k]
  <2>1. \A g \in Handlers : Minting(g, k)' <=> Minting(g, k)
    <3>1. ASSUME NEW g \in Handlers \ {h} PROVE Minting(g, k)' <=> Minting(g, k)
      <4>1. call[g].pc = "store" => call[g].role \in Roles
        BY DEF Trace, Custody, StageKnown, TypeOK, Calls
      <4> QED BY <4>1 DEF Minting, SameCall
    <3> QED BY <3>1
  <2>2. Minted(k)' <=> Minted(k)
    BY <2>1 DEF Minted
  <2>3. \A r \in Roles : store[r].key = k => (Deleting(r)' <=> Deleting(r))
    <3>1. ASSUME NEW r \in Roles, store[r].key = k PROVE Deleting(r)' <=> Deleting(r)
      <4>1. \A g \in Handlers \ {h} : On(g, r)' /\ call'[g].op = "delete" <=> On(g, r) /\ call[g].op = "delete"
        BY DEF On, SameCall
      <4>2. On(h, r)' /\ call'[h].op = "delete" <=> On(h, r) /\ call[h].op = "delete"
        BY <3>1, AbsentAssumption
      <4>3. Deleting(r) <=> \E g \in Handlers : On(g, r) /\ call[g].op = "delete"
        BY DEF Deleting
      <4>4. Deleting(r)' <=> \E g \in Handlers : On(g, r)' /\ call'[g].op = "delete"
        BY DEF Deleting
      <4> QED BY <4>1, <4>2, <4>3, <4>4
    <3> QED BY <3>1
  <2>4. HandedOut(k)' <=> HandedOut(k)
    BY <2>3 DEF HandedOut
  <2>5. BeingDropped(k)' <=> BeingDropped(k)
    BY DEF BeingDropped, SameCall
  <2> QED BY <2>2, <2>4, <2>5, SameStage
<1> QED BY <1>1 DEF KeyStage

(* A key on its way to a role or held by one works for that role's user.   *)
LEMMA KeyOfRole ==
  ASSUME Trace, NEW k \in Keys, NEW r \in Roles,
         \/ store[r].key = k /\ ~Deleting(r)
         \/ \E h \in Handlers : On(h, r) /\ Minting(h, k)
  PROVE  cred[k] \in Users /\ name[cred[k]] = r
<1>1. CASE store[r].key = k /\ ~Deleting(r)
  <2>1. Custody /\ store[r].user # NoUser
    BY <1>1, Blank, AbsentAssumption DEF Trace, Custody, Sound, RoleKnown
  <2> QED BY <1>1, <2>1, WorkingKey
<1>2. ASSUME NEW h \in Handlers, On(h, r), Minting(h, k) PROVE cred[k] \in Users /\ name[cred[k]] = r
  <2>1. Facts(h) /\ StageKnown(h) /\ RoleKnown(r) /\ Custody
    BY <1>2 DEF Trace, Custody, Sound
  <2>2. CASE call[h].op = "write"
    BY <1>2, <2>1, <2>2 DEF Facts, WriteKnown, Minting, On
  <2>3. CASE call[h].op \in {"rotate", "periodic"}
    <3>1. ~Deleting(r)
      BY <1>2, <2>1, <2>3, NotDeleting DEF Custody
    <3>2. cred[k] = store[r].user /\ store[r].user # NoUser
      BY <1>2, <2>1, <2>3 DEF Facts, RotateKnown, Minting, On
    <3> QED BY <2>1, <3>1, <3>2, WorkingKey
  <2> QED BY <1>2, <2>1, <2>2, <2>3 DEF StageKnown, Minting
<1> QED BY <1>1, <1>2

(* A handler ends or begins.                                               *)
LEMMA Finishes ==
  ASSUME TypeOK, NEW h \in Handlers, Finish(h)
  PROVE  EndsIdle(h) /\ \A g \in Handlers \ {h} : SameCall(g)
BY IdleHolds DEF Finish, Go, SameCall

LEMMA BeginsTo ==
  ASSUME TypeOK, NEW h \in Handlers, NEW op, NEW r, NEW pc, NEW mine, Begin(h, op, r, pc, mine)
  PROVE  /\ call'[h].pc = pc /\ call'[h].op = op /\ call'[h].role = r
         /\ call'[h].mine = mine /\ call'[h].old = mine.key
         /\ \A g \in Handlers \ {h} : SameCall(g)
BY DEF Begin, Go, TypeOK, SameCall

LEMMA WritesInCustody ==
  ASSUME Trace, NEW h \in Handlers, Write(h)
  PROVE  UNCHANGED <<WorkingKeys, KeyStage>>
<1>0. TypeOK /\ StageKnown(h)
  BY DEF Trace, Custody
<1>1. WorkingKeys' = WorkingKeys /\ store' = store
  BY DEF WorkingKeys, Write, WriteBegin, FindUser, CreateUser, CreateUserLost
<1>2. ASSUME \A g \in Handlers \ {h} : SameCall(g), call[h].op # "delete", call'[h].op # "delete",
             call[h].pc \notin {"store", "drop"}, call'[h].pc \notin {"store", "drop"}
      PROVE  KeyStage' = KeyStage
  BY <1>1, <1>2, Quiet DEF Minting
<1>3. ASSUME NEW r \in Roles, NEW p \in Periods, WriteBegin(h, r, p) PROVE KeyStage' = KeyStage
  <2>1. [store[r] EXCEPT !.period = p].key = store[r].key
    BY <1>0 DEF TypeOK, StaticRole
  <2>2. /\ call'[h].op = "write" /\ call[h].pc = "idle" /\ call[h].op # "delete"
        /\ call'[h].mine.key = store[r].key /\ call'[h].role = r /\ call'[h].pc # "drop"
        /\ \A g \in Handlers \ {h} : SameCall(g)
    <3>1. call[h].pc = "idle" /\ call[h].op = "none"
      BY <1>0, <1>3 DEF WriteBegin, MayBegin, StageKnown
    <3>2. PICK pc \in {"find", "mint", "store"} :
            Begin(h, "write", r, pc, [store[r] EXCEPT !.period = p])
      BY <1>3 DEF WriteBegin
    <3>3. /\ call'[h].pc = pc /\ call'[h].op = "write" /\ call'[h].role = r
          /\ call'[h].mine = [store[r] EXCEPT !.period = p]
          /\ \A g \in Handlers \ {h} : SameCall(g)
      BY <1>0, <3>2 DEF Begin, Go, TypeOK, SameCall
    <3> QED BY <2>1, <3>1, <3>3
  <2> QED BY <1>1, <2>2, Quiet DEF Minting
<1>4. CASE call[h].pc \in {"find", "user"}
  <2>1. ASSUME Finish(h) PROVE KeyStage' = KeyStage
    BY <1>0, <1>2, <1>4, <2>1, Finishes DEF EndsIdle, StageKnown
  <2>2. ASSUME NEW u \in Users, WithUser(h, u) PROVE KeyStage' = KeyStage
    <3>1. call'[h].pc = "mint" /\ call'[h].op = call[h].op /\ \A g \in Handlers \ {h} : SameCall(g)
      BY <1>0, <2>2 DEF WithUser, Go, TypeOK, Calls, SameCall
    <3> QED BY <1>0, <1>2, <1>4, <3>1 DEF StageKnown
  <2>3. ASSUME Go(h, [call[h] EXCEPT !.pc = "user"]) PROVE KeyStage' = KeyStage
    <3>1. call'[h] = [call[h] EXCEPT !.pc = "user"] /\ \A g \in Handlers \ {h} : call'[g] = call[g]
      BY <1>0, <2>3 DEF Go, TypeOK
    <3>2. call[h] \in Calls
      BY <1>0 DEF TypeOK
    <3>3. call'[h].pc = "user" /\ call'[h].op = call[h].op /\ call[h].op = "write"
      BY <1>0, <1>4, <3>1, <3>2 DEF Calls, StageKnown
    <3>4. \A g \in Handlers \ {h} : SameCall(g)
      BY <3>1 DEF SameCall
    <3> QED BY <1>2, <1>4, <3>3, <3>4
  <2> QED BY <1>1, <1>3, <2>1, <2>2, <2>3 DEF Write, FindUser, CreateUser, CreateUserLost
<1> QED BY <1>1, <1>3, <1>4 DEF Write, FindUser, CreateUser, CreateUserLost

(* A rotation or the periodic call begins: it holds what is stored.        *)
LEMMA RotationInCustody ==
  ASSUME Trace, NEW h \in Handlers, NEW r \in Roles, NEW op \in {"rotate", "periodic"},
         MayBegin(h, op, r), Begin(h, op, r, "mint", store[r]), store' = store
  PROVE  KeyStage' = KeyStage
<1>1. /\ call'[h].op = op /\ call[h].pc = "idle" /\ call[h].op # "delete"
      /\ call'[h].pc = "mint" /\ \A g \in Handlers \ {h} : SameCall(g)
  BY BeginsTo DEF MayBegin, Trace, Custody, StageKnown
<1> QED BY <1>1, Quiet DEF Minting

LEMMA MintsInCustody ==
  ASSUME Trace, NEW h \in Handlers, NEW k \in Keys
  PROVE  /\ Mint(h, k) => Life!Mint(k)
         /\ MintLost(h, k) => Life!MintLost(k)
<1>0. TypeOK /\ StageKnown(h)
  BY DEF Trace, Custody
<1>1. ASSUME CreateCredential(h, k), call[h].mine.user \in Users
      PROVE  /\ KeyStage[k] = "free" /\ WorkingKeys' = WorkingKeys \cup {k}
             /\ call[h].pc = "mint" /\ call[h].op # "delete" /\ store' = store
             /\ \A r \in Roles : store[r].key # k
             /\ \A g \in Handlers : call[g].mine.key # k /\ call[g].old # k
  <2>1. ~Minted(k) /\ ~HandedOut(k) /\ ~BeingDropped(k)
    BY <1>1 DEF CreateCredential, NewKey, Minted, Minting, HandedOut, BeingDropped
  <2>2. WorkingKeys' = WorkingKeys \cup {k}
    BY <1>0, <1>1, AbsentAssumption DEF CreateCredential, WorkingKeys, TypeOK
  <2> QED BY <1>0, <1>1, <2>1, <2>2, StageIs DEF CreateCredential, NewKey, StageKnown
<1>2. ASSUME MintLost(h, k) PROVE Life!MintLost(k)
  <2>1. EndsIdle(h) /\ \A g \in Handlers \ {h} : SameCall(g)
    BY <1>0, <1>2, Finishes DEF MintLost
  <2>2. KeyStage' = KeyStage
    BY <1>1, <1>2, <2>1, Quiet DEF MintLost, Minting, EndsIdle
  <2> QED BY <1>1, <1>2, <2>2 DEF MintLost, Life!MintLost
<1>3. ASSUME Mint(h, k) PROVE Life!Mint(k)
  <2>1. /\ call'[h].pc = "store" /\ call'[h].op = call[h].op /\ call'[h].role = call[h].role
        /\ call'[h].mine.key = k /\ \A g \in Handlers \ {h} : SameCall(g)
    BY <1>0, <1>3 DEF Mint, Go, TypeOK, Calls, StaticRole, SameCall
  <2>2. /\ call[h].role \in Roles /\ store' = store /\ call[h].pc = "mint"
        /\ call[h].op # "delete" /\ \A r \in Roles : store[r].key # k
    BY <1>0, <1>1, <1>3 DEF Mint, StageKnown, TypeOK, Calls
  <2>3. \A g \in Handlers \ {h}, j \in Keys : Minting(g, j)' <=> Minting(g, j)
    BY <2>1, <2>2, Frame
  <2>4. \A j \in Keys : Minted(j)' <=> Minted(j) \/ j = k
    BY <2>1, <2>2, <2>3 DEF Minted, Minting
  <2>5. \A r \in Roles : Deleting(r)' <=> Deleting(r)
    BY <2>1, <2>2 DEF Deleting, On, SameCall
  <2>6. ASSUME NEW j \in Keys PROVE (HandedOut(j)' <=> HandedOut(j)) /\ (BeingDropped(j)' <=> BeingDropped(j))
    BY <2>1, <2>2, <2>5 DEF HandedOut, BeingDropped, SameCall
  <2>7. KeyStage' = [KeyStage EXCEPT ![k] = "minted"]
    BY <2>4, <2>6 DEF KeyStage, Minted
  <2> QED BY <1>1, <1>3, <2>7 DEF Mint, Life!Mint
<1> QED BY <1>2, <1>3

(* The new key is owed from the step in which it is stored; the one it     *)
(* replaces is due from then on.                                           *)
LEMMA StoreInCustody ==
  ASSUME Trace, NEW h \in Handlers, Store(h)
  PROVE  Life!Next \/ UNCHANGED <<WorkingKeys, KeyStage>>
<1>0. /\ TypeOK /\ Custody /\ CredTraced /\ StageKnown(h) /\ KeysTraced(h) /\ MintedKeyFresh(h)
      /\ call[h].pc = "store" /\ cred' = cred
  BY DEF Trace, Custody, Store
<1>1. PICK r \in Roles : call[h].role = r
  BY <1>0, StoresWorkingKey
<1>k. PICK k \in Keys : k = call[h].mine.key
  BY <1>0, StoresWorkingKey
<1>2. /\ k \in WorkingKeys /\ Facts(h) /\ RoleKnown(r) /\ r # NoName
      /\ call[h].op \in {"write", "rotate", "periodic"} /\ call[h].op # "delete"
  BY <1>0, <1>1, <1>k, StoresWorkingKey, AbsentAssumption DEF WorkingKeys, Custody, Sound
<1>3. store'[r].key = k /\ \A s \in Roles \ {r} : store'[s] = store[s]
  BY <1>0, <1>1, <1>k DEF Store, TypeOK
<1>4. /\ \A g \in Handlers \ {h} : SameCall(g)
      /\ \/ EndsIdle(h) /\ (call[h].op = "write" \/ call[h].old = NoKey)
         \/ /\ call[h].op # "write" /\ call[h].old # NoKey
            /\ call'[h].pc = "drop" /\ call'[h].old = call[h].old
            /\ call'[h].role = r /\ call'[h].op = call[h].op
  <2>1. CASE Finish(h) /\ (call[h].op = "write" \/ call[h].old = NoKey)
    BY <1>0, <2>1, Finishes
  <2>2. CASE Go(h, [call[h] EXCEPT !.pc = "drop"]) /\ call[h].op # "write" /\ call[h].old # NoKey
    <3>1. call'[h] = [call[h] EXCEPT !.pc = "drop"] /\ \A g \in Handlers \ {h} : call'[g] = call[g]
      BY <1>0, <2>2 DEF Go, TypeOK
    <3>2. call[h] \in Calls
      BY <1>0 DEF TypeOK
    <3> QED BY <1>1, <2>2, <3>1, <3>2 DEF Calls, SameCall
  <2> QED BY <2>1, <2>2 DEF Store
<1>5. \A s \in Roles : ~Deleting(r) /\ (Deleting(s)' <=> Deleting(s))
  <2>1. \A s \in Roles : ~On(h, s) => store'[s].key = store[s].key
    BY <1>1, <1>3 DEF On
  <2>2. ~Deleting(r)
    BY <1>1, <1>2, <2>1, <1>4, Frame DEF On
  <2>3. ~Deleting(r)'
    BY <1>2, <1>4, <2>2 DEF Deleting, On, SameCall, EndsIdle
  <2>4. ASSUME NEW s \in Roles \ {r} PROVE Deleting(s)' <=> Deleting(s)
    BY <1>1, <1>2, <1>4 DEF Deleting, On, SameCall, EndsIdle
  <2> QED BY <2>2, <2>3, <2>4
<1>6. WorkingKeys' = WorkingKeys
  BY <1>0 DEF WorkingKeys
<1>7. \A g \in Handlers \ {h}, j \in Keys : Minting(g, j)' <=> Minting(g, j)
  BY <1>1, <1>3, <1>4, Frame DEF On
<1>8. \A j \in Keys : ~Minting(h, j)'
  BY <1>4 DEF Minting, EndsIdle
<1>9. CASE store[r].key = k
  <2>1. call[h].op = "write" /\ EndsIdle(h)
    BY <1>0, <1>1, <1>k, <1>2, <1>4, <1>9 DEF Facts, RotateKnown
  <2>2. \A s \in Roles : store'[s].key = store[s].key
    BY <1>3, <1>9
  <2>3. \A j \in Keys : ~Minting(h, j)
    BY <1>1, <1>k, <1>9 DEF Minting
  <2>4. KeyStage' = KeyStage
    BY <1>0, <1>2, <1>4, <1>8, <2>1, <2>2, <2>3, Quiet DEF EndsIdle
  <2> QED BY <1>6, <2>4
<1>10. CASE store[r].key # k
  <2>1. Minting(h, k) /\ KeyStage[k] = "minted"
    BY <1>0, <1>1, <1>k, <1>2, <1>10, StageIs DEF Minting, Minted
  <2>2. /\ \A s \in Roles : store[s].key # k
        /\ call[h].old # k /\ \A g \in Handlers \ {h} : k \notin {call[g].mine.key, call[g].old}
    BY <1>0, <1>2, <2>1 DEF MintedKeyFresh
  <2>3. KeyStage'[k] = "owed"
    <3>1. ~Minted(k)'
      BY <1>7, <1>8, <2>2 DEF Minted, Minting
    <3>2. HandedOut(k)'
      BY <1>3, <1>5 DEF HandedOut
    <3> QED BY <1>2, <3>1, <3>2 DEF KeyStage, Minted
  <2>4. ASSUME NEW j \in Keys, j # k, j # store[r].key PROVE KeyStage'[j] = KeyStage[j]
    <3>1. ~Minting(h, j)
      BY <1>k, <2>4 DEF Minting
    <3>2. Minted(j)' <=> Minted(j)
      BY <1>7, <1>8, <3>1 DEF Minted
    <3>3. \A s \in Roles : store'[s].key = j <=> store[s].key = j
      BY <1>3, <2>4
    <3>4. HandedOut(j)' <=> HandedOut(j)
      BY <1>5, <3>3 DEF HandedOut
    <3>5. call[h].old # j
      BY <1>0, <1>1, <1>k, <2>4, AbsentAssumption DEF KeysTraced
    <3>6. BeingDropped(j)' <=> BeingDropped(j)
      BY <1>0, <1>4, <3>3, <3>5 DEF BeingDropped, SameCall, EndsIdle
    <3> QED BY <3>2, <3>4, <3>6, SameStage
  <2>5. CASE call[h].op = "write"
    <3>1. store[r].key = NoKey
      BY <1>0, <1>1, <1>k, <1>2, <1>10, <2>5 DEF Facts, WriteKnown
    <3>2. KeyStage' = [KeyStage EXCEPT ![k] = "owed"]
      BY <2>3, <2>4, <3>1, AbsentAssumption DEF KeyStage
    <3> QED BY <1>2, <1>6, <2>1, <3>2 DEF Life!HandOver, Life!Next
  <2>6. CASE call[h].op \in {"rotate", "periodic"}
    <3>0. PICK old \in Keys : old = call[h].old /\ old = store[r].key
      BY <1>0, <1>1, <1>k, <1>2, <2>6, AbsentAssumption DEF Facts, RotateKnown, RoleKnown
    <3>1. old = store[r].key /\ old # k /\ store[r].user # NoUser
      BY <3>0, <1>0, <1>1, <1>k, <1>2, <2>6 DEF Facts, RotateKnown, RoleKnown
    <3>2. call'[h].pc = "drop" /\ call'[h].old = old
      BY <1>4, <2>6, <3>0, AbsentAssumption
    <3>3. cred[old] \in Users /\ name[cred[old]] = r
      BY <1>5, <3>1, KeyOfRole DEF Trace
    <3>4. ~Minted(old) /\ HandedOut(old)
      <4>1. ASSUME NEW g \in Handlers, Minting(g, old) PROVE FALSE
        BY <3>1, <4>1 DEF Trace, MintedKeyFresh
      <4> QED BY <1>5, <3>1, <4>1 DEF Minted, HandedOut
    <3>5. ~Minted(old)'
      BY <1>7, <1>8, <3>1, <3>4 DEF Minted
    <3>6. ~HandedOut(old)'
      <4>1. ASSUME NEW s \in Roles, store'[s].key = old, ~Deleting(s)' PROVE FALSE
        <5>1. s # r /\ store[s].key = old /\ ~Deleting(s)
          BY <1>3, <1>5, <3>1, <4>1
        <5> QED BY <3>1, <3>3, <5>1, KeyOfRole
      <4> QED BY <4>1 DEF HandedOut
    <3>7. KeyStage[old] = "owed" /\ KeyStage'[old] = "due"
      BY <3>1, <3>2, <3>4, <3>5, <3>6 DEF KeyStage, Minted, BeingDropped
    <3>8. KeyStage' = [KeyStage EXCEPT ![k] = "owed", ![old] = "due"]
      BY <2>3, <2>4, <3>1, <3>7 DEF KeyStage
    <3> QED BY <1>2, <1>6, <2>1, <3>1, <3>7, <3>8 DEF Life!Replace, Life!Next
  <2> QED BY <1>2, <2>5, <2>6
<1> QED BY <1>9, <1>10

(* A step that makes keys stop working, or forgets some that were due.     *)
LEMMA Destroys ==
  ASSUME WorkingKeys' \in SUBSET WorkingKeys,
         \A k \in WorkingKeys \ WorkingKeys' : KeyStage[k] \in {"free", "due"},
         \A k \in Keys : KeyStage'[k] = KeyStage[k] \/ (KeyStage[k] = "due" /\ KeyStage'[k] = "free")
  PROVE  Life!Next
<1>1. Life!Pass("due", "free")
  BY Passing
<1> QED BY <1>1 DEF Life!Destroy, Life!Next

(* The old key is deleted; no role holds it and no request is about to     *)
(* store it.                                                               *)
LEMMA DropInCustody ==
  ASSUME Trace, NEW h \in Handlers, call[h].pc = "drop", EndsIdle(h), store' = store,
         \A g \in Handlers \ {h} : SameCall(g),
         \A k \in Keys : k # call[h].old => cred'[k] = cred[k],
         cred'[call[h].old] \in {cred[call[h].old], NoUser}
  PROVE  Life!Next
<1>0. /\ TypeOK /\ StageKnown(h) /\ KeysTraced(h)
      /\ call[h].op \in {"rotate", "periodic"} /\ call[h].role \in Roles
      /\ call[h].old \in Keys
  BY DEF Trace, Custody, StageKnown, KeysTraced, TypeOK, Calls
<1>1. PICK r \in Roles : call[h].role = r
  BY <1>0
<1>2. PICK old \in Keys : old = call[h].old
  BY <1>0
<1>3. Facts(h) /\ RoleKnown(r) /\ ~Deleting(r)
  BY <1>0, <1>1, NotDeleting DEF Trace, Custody, Sound, On
<1>4. \A g \in Handlers : ~Minting(g, old)
  BY <1>2 DEF Trace, MintedKeyFresh
<1>5. ~HandedOut(old)
  <2>1. ASSUME NEW s \in Roles, store[s].key = old, ~Deleting(s) PROVE FALSE
    <3>1. cred[old] \in Users /\ name[cred[old]] = s
      BY <2>1, KeyOfRole
    <3>2. cred[old] = store[r].user /\ store[r].key # old /\ store[r].user # NoUser
      BY <1>0, <1>1, <1>2, <1>3, <3>1, AbsentAssumption DEF KeysTraced, Facts, RotateKnown
    <3>3. name[store[r].user] = r
      BY <1>3, <3>2, WorkingKey DEF Trace
    <3> QED BY <2>1, <3>1, <3>2, <3>3
  <2> QED BY <2>1 DEF HandedOut
<1>6. \A s \in Roles : Deleting(s)' <=> Deleting(s)
  BY <1>0 DEF Deleting, On, SameCall, EndsIdle
<1>7. \A k \in Keys : (Minted(k)' <=> Minted(k)) /\ (HandedOut(k)' <=> HandedOut(k))
  <2>1. ASSUME NEW k \in Keys PROVE Minted(k)' <=> Minted(k)
    <3>1. \A g \in Handlers \ {h} : Minting(g, k)' <=> Minting(g, k)
      BY <1>0, Frame
    <3>2. ~Minting(h, k) /\ ~Minting(h, k)'
      BY DEF Minting, EndsIdle
    <3> QED BY <3>1, <3>2 DEF Minted
  <2>2. ASSUME NEW k \in Keys PROVE HandedOut(k)' <=> HandedOut(k)
    BY <1>6 DEF HandedOut
  <2> QED BY <2>1, <2>2
<1>8. \A k \in Keys \ {old} : BeingDropped(k)' <=> BeingDropped(k)
  BY <1>2 DEF BeingDropped, SameCall, EndsIdle
<1>9. \A k \in Keys \ {old} : KeyStage'[k] = KeyStage[k]
  BY <1>7, <1>8, SameStage
<1>10. KeyStage[old] = "due" /\ KeyStage'[old] \in {"due", "free"}
  <2>1. BeingDropped(old) /\ ~Minted(old)
    BY <1>2, <1>4 DEF BeingDropped, Minted
  <2> QED BY <1>5, <1>7, <2>1 DEF KeyStage, Minted
<1>11. WorkingKeys' \in SUBSET WorkingKeys /\ \A k \in WorkingKeys \ WorkingKeys' : k = old
  BY <1>2 DEF WorkingKeys
<1> QED BY <1>9, <1>10, <1>11, Destroys

(* What a deletion does to stages is the same whether the user goes or an  *)
(* answer is lost.                                                         *)
LEMMA RemovalInCustody ==
  ASSUME Trace, NEW h \in Handlers, RemoveUser(h),
         call'[h].pc \in {"forget", "again"}, call'[h].op = call[h].op, call'[h].role = call[h].role,
         \A g \in Handlers \ {h} : SameCall(g)
  PROVE  Life!Next
<1>0. /\ TypeOK /\ StageKnown(h) /\ call[h].pc = "remove" /\ store' = store
      /\ call[h].op = "delete" /\ call[h].role \in Roles
  BY DEF Trace, Custody, StageKnown, TypeOK, Calls, RemoveUser
<1>1. PICK r \in Roles : call[h].role = r
  BY <1>0
<1>2. Facts(h) /\ RoleKnown(r) /\ Deleting(r) /\ r # NoName
  BY <1>0, <1>1, AbsentAssumption DEF Trace, Custody, Sound, On, Deleting
<1>3. call[h].mine.user = store[r].user /\ name[store[r].user] \in {r, NoName}
  BY <1>0, <1>1, <1>2 DEF Facts, DeleteKnown, RoleKnown
<1>4. KeyStage' = KeyStage
  BY <1>0, Quiet DEF Minting, On
<1>5. ASSUME NEW k \in Keys, cred[k] = call[h].mine.user, KeyStage[k] \in {"minted", "owed"}
      PROVE  FALSE
  <2>1. CASE Minted(k)
    <3>1. PICK g \in Handlers : Minting(g, k)
      BY <2>1 DEF Minted
    <3>2. PICK s \in Roles : call[g].role = s
      BY <3>1 DEF Minting, Trace, Custody, StageKnown, TypeOK, Calls
    <3>3. cred[k] \in Users /\ name[cred[k]] = s
      BY <3>1, <3>2, KeyOfRole DEF On
    <3>4. s = r
      BY <1>3, <1>5, <3>3, AbsentAssumption
    <3>5. g = h
      BY <1>1, <1>2, <3>2, <3>4 DEF Trace, Custody, AloneOnRole
    <3> QED BY <1>0, <3>1, <3>5 DEF Minting
  <2>2. CASE ~Minted(k)
    <3>1. HandedOut(k)
      BY <1>5, <2>2, StageIs
    <3>2. PICK s \in Roles : store[s].key = k /\ ~Deleting(s)
      BY <3>1 DEF HandedOut
    <3>3. cred[k] \in Users /\ name[cred[k]] = s
      BY <3>2, KeyOfRole
    <3> QED BY <1>2, <1>3, <1>5, <3>2, <3>3, AbsentAssumption
  <2> QED BY <2>1, <2>2
<1>6. /\ WorkingKeys' \in SUBSET WorkingKeys
      /\ \A k \in WorkingKeys \ WorkingKeys' : cred[k] = call[h].mine.user
  BY DEF RemoveUser, WorkingKeys
<1>7. \A k \in WorkingKeys \ WorkingKeys' : KeyStage[k] \in {"free", "due"}
  <2>1. ASSUME NEW k \in WorkingKeys \ WorkingKeys' PROVE KeyStage[k] \in {"free", "due"}
    BY <1>5, <1>6, StageIs DEF WorkingKeys
  <2> QED BY <2>1
<1> QED BY <1>4, <1>6, <1>7, Destroys

LEMMA DeletesInCustody ==
  ASSUME Trace, NEW h \in Handlers, Delete(h)
  PROVE  Life!Next \/ UNCHANGED <<WorkingKeys, KeyStage>>
<1>0. TypeOK /\ StageKnown(h) /\ KeysTraced(h)
  BY DEF Trace, Custody
<1>1. ASSUME NEW r \in Roles, DeleteBegin(h, r) PROVE Life!Next
  <2>1. /\ call'[h].op = "delete" /\ call'[h].role = r /\ call'[h].pc \in {"remove", "forget"}
        /\ call[h].pc = "idle" /\ call[h].op = "none" /\ store' = store /\ cred' = cred
        /\ \A g \in Handlers \ {h} : SameCall(g)
    BY <1>0, <1>1, BeginsTo DEF DeleteBegin, DeleteFrom, MayBegin, StageKnown
  <2>2. ASSUME NEW k \in Keys
        PROVE  KeyStage'[k] = KeyStage[k] \/ (KeyStage[k] = "owed" /\ KeyStage'[k] = "due")
    <3>1. ASSUME NEW g \in Handlers \ {h} PROVE Minting(g, k)' <=> Minting(g, k)
      BY <2>1, Frame
    <3>2. Minted(k)' <=> Minted(k)
      BY <2>1, <3>1 DEF Minted, Minting
    <3>3. BeingDropped(k)' <=> BeingDropped(k)
      BY <2>1 DEF BeingDropped, SameCall
    <3>4. HandedOut(k)' => HandedOut(k)
      BY <2>1 DEF HandedOut, Deleting, On, SameCall
    <3>5. HandedOut(k) => BeingDropped(k)
      BY DEF HandedOut, BeingDropped
    <3> QED BY <3>2, <3>3, <3>4, <3>5 DEF KeyStage, Minted
  <2>3. Life!Pass("owed", "due")
    BY <2>2, Passing
  <2> QED BY <2>1, <2>3 DEF Life!End, Life!Next, WorkingKeys
<1>2. ASSUME Remove(h) \/ RemoveLost(h) PROVE Life!Next
  <2>1. ASSUME NEW pc \in {"forget", "again"}, Go(h, [call[h] EXCEPT !.pc = pc]), RemoveUser(h)
        PROVE  Life!Next
    <3>1. call'[h].pc = pc /\ call'[h].op = call[h].op /\ call'[h].role = call[h].role
          /\ \A g \in Handlers \ {h} : call'[g] = call[g]
      BY <1>0, <2>1 DEF Go, TypeOK, Calls
    <3>2. \A g \in Handlers \ {h} : SameCall(g)
      BY <3>1 DEF SameCall
    <3> QED BY <2>1, <3>1, <3>2, RemovalInCustody
  <2> QED BY <1>2, <2>1 DEF Remove, RemoveLost
<1>3. ASSUME Forget(h) PROVE Life!Next
  <2>1. PICK r \in Roles : call[h].role = r
    BY <1>0, <1>3 DEF Forget, StageKnown, TypeOK, Calls
  <2>2. /\ EndsIdle(h) /\ \A g \in Handlers \ {h} : SameCall(g)
        /\ call[h].op = "delete" /\ call[h].pc = "forget" /\ cred' = cred /\ r # NoName
    BY <1>0, <1>3, Finishes, AbsentAssumption DEF Forget, StageKnown
  <2>3. store'[r] = NoRole /\ \A s \in Roles \ {r} : store'[s] = store[s]
    BY <1>0, <1>3, <2>1 DEF Forget, TypeOK
  <2>4. Deleting(r) /\ \A s \in Roles \ {r} : Deleting(s)' <=> Deleting(s)
    BY <2>1, <2>2 DEF Deleting, On, SameCall, EndsIdle
  <2>5. ASSUME NEW k \in Keys
        PROVE  KeyStage'[k] = KeyStage[k] \/ (KeyStage[k] = "due" /\ KeyStage'[k] = "free")
    <3>1. ASSUME NEW g \in Handlers \ {h} PROVE Minting(g, k)' <=> Minting(g, k)
      BY <2>1, <2>2, <2>3, Frame DEF On
    <3>2. Minted(k)' <=> Minted(k)
      BY <2>2, <3>1 DEF Minted, Minting, EndsIdle
    <3>3. HandedOut(k)' <=> HandedOut(k)
      BY <2>3, <2>4, Blank, AbsentAssumption DEF HandedOut
    <3>4. BeingDropped(k)' => BeingDropped(k)
      BY <2>2, <2>3, Blank, AbsentAssumption DEF BeingDropped, SameCall, EndsIdle
    <3> QED BY <3>2, <3>3, <3>4 DEF KeyStage, Minted
  <2> QED BY <2>2, <2>5, Destroys DEF WorkingKeys
<1>4. ASSUME ForgetRefused(h) \/ DeleteAgain(h) PROVE UNCHANGED <<WorkingKeys, KeyStage>>
  <2>1. /\ call[h].op = "delete" /\ call[h].pc \in {"forget", "again"} /\ call[h].role \in Roles
        /\ store' = store /\ cred' = cred
    BY <1>0, <1>4 DEF ForgetRefused, DeleteAgain, StageKnown, TypeOK, Calls
  <2>2. CASE Finish(h) /\ store[call[h].role] = NoRole
    <3>1. EndsIdle(h) /\ \A g \in Handlers \ {h} : SameCall(g)
      BY <1>0, <2>2, Finishes
    <3>2. KeyStage' = KeyStage
      BY <2>1, <2>2, <3>1, Quiet, Blank DEF Minting, EndsIdle, On
    <3> QED BY <2>1, <3>2 DEF WorkingKeys
  <2>3. ASSUME NEW pc \in {"remove", "forget", "again"}, NEW mine,
               Go(h, [call[h] EXCEPT !.pc = pc, !.mine = mine])
        PROVE  UNCHANGED <<WorkingKeys, KeyStage>>
    <3>1. call'[h].pc = pc /\ call'[h].op = call[h].op /\ call'[h].role = call[h].role
          /\ \A g \in Handlers \ {h} : call'[g] = call[g]
      BY <1>0, <2>3 DEF Go, TypeOK, Calls
    <3>2. \A g \in Handlers \ {h} : SameCall(g)
      BY <3>1 DEF SameCall
    <3>3. KeyStage' = KeyStage
      BY <2>1, <3>1, <3>2, Quiet DEF Minting, On
    <3> QED BY <2>1, <3>3 DEF WorkingKeys
  <2>4. ASSUME Go(h, [call[h] EXCEPT !.pc = "again"]) PROVE UNCHANGED <<WorkingKeys, KeyStage>>
    <3>1. [call[h] EXCEPT !.pc = "again"] = [call[h] EXCEPT !.pc = "again", !.mine = call[h].mine]
      BY <1>0 DEF TypeOK, Calls
    <3> QED BY <2>3, <2>4, <3>1
  <2> QED BY <1>4, <2>2, <2>3, <2>4 DEF ForgetRefused, DeleteAgain, DeleteFrom
<1> QED BY <1>1, <1>2, <1>3, <1>4 DEF Delete

LEMMA AbortInCustody ==
  ASSUME Trace, NEW h \in Handlers, Abort(h)
  PROVE  Life!Next \/ UNCHANGED <<WorkingKeys, KeyStage>>
<1>0. /\ TypeOK /\ StageKnown(h) /\ MintedKeyFresh(h) /\ store' = store /\ cred' = cred
      /\ call[h].pc \in {"find", "user", "mint", "store", "drop"} /\ call[h].op # "delete"
      /\ call[h].role \in Roles
  BY DEF Abort, MayFail, Trace, Custody, StageKnown, TypeOK, Calls
<1>1. EndsIdle(h) /\ \A g \in Handlers \ {h} : SameCall(g)
  BY <1>0, Finishes DEF Abort
<1>2. CASE call[h].pc = "drop"
  BY <1>0, <1>1, <1>2, DropInCustody
<1>3. CASE call[h].pc # "drop"
  <2>1. ASSUME NEW k \in Keys
        PROVE  KeyStage'[k] = KeyStage[k] \/ (KeyStage[k] = "minted" /\ KeyStage'[k] = "free")
    <3>1. \A g \in Handlers \ {h} : Minting(g, k)' <=> Minting(g, k)
      BY <1>0, <1>1, Frame
    <3>2. ~Minting(h, k)'
      BY <1>1 DEF Minting, EndsIdle
    <3>3. HandedOut(k)' <=> HandedOut(k)
      BY <1>0, <1>1 DEF HandedOut, Deleting, On, SameCall, EndsIdle
    <3>4. BeingDropped(k)' <=> BeingDropped(k)
      BY <1>0, <1>1, <1>3 DEF BeingDropped, SameCall, EndsIdle
    <3>5. CASE ~Minting(h, k)
      BY <3>1, <3>2, <3>3, <3>4, <3>5, SameStage DEF Minted
    <3>6. CASE Minting(h, k)
      <4>1. /\ \A r \in Roles : store[r].key # k
            /\ \A g \in Handlers \ {h} : k \notin {call[g].mine.key, call[g].old}
        BY <1>0, <3>6 DEF MintedKeyFresh
      <4>2. Minted(k) /\ ~Minted(k)' /\ ~HandedOut(k) /\ ~BeingDropped(k)
        BY <1>3, <3>1, <3>2, <3>6, <4>1 DEF Minted, Minting, HandedOut, BeingDropped
      <4> QED BY <3>3, <3>4, <4>2 DEF KeyStage, Minted
    <3> QED BY <3>5, <3>6
  <2>2. Life!Pass("minted", "free")
    BY <2>1, Passing
  <2> QED BY <1>0, <2>2 DEF Life!GiveUp, Life!Next, WorkingKeys
<1> QED BY <1>2, <1>3

(* What no request does, and what leaves all requests as they were.        *)
LEMMA ElseInCustody ==
  ASSUME TypeOK, cred' = cred, \A g \in Handlers : SameCall(g),
         \A r \in Roles : store'[r].key = store[r].key,
         \A g \in Handlers : StageKnown(g)
  PROVE  UNCHANGED <<WorkingKeys, KeyStage>>
<1>1. ASSUME NEW k \in Keys PROVE KeyStage'[k] = KeyStage[k]
  <2>1. ASSUME NEW g \in Handlers PROVE Minting(g, k)' <=> Minting(g, k)
    <3>1. call[g].pc = "store" => call[g].role \in Roles
      BY DEF StageKnown, TypeOK, Calls
    <3> QED BY <3>1 DEF Minting, SameCall
  <2>2. HandedOut(k)' <=> HandedOut(k)
    BY DEF HandedOut, Deleting, On, SameCall
  <2>3. BeingDropped(k)' <=> BeingDropped(k)
    BY DEF BeingDropped, SameCall
  <2> QED BY <2>1, <2>2, <2>3, SameStage DEF Minted
<1> QED BY <1>1 DEF KeyStage, WorkingKeys

LEMMA PeriodicInCustody ==
  ASSUME Trace, Periodic
  PROVE  UNCHANGED <<WorkingKeys, KeyStage>>
<1>0. TypeOK /\ Ticker \in Handlers /\ StageKnown(Ticker) /\ cred' = cred /\ store' = store
  BY ConstantsAssumption
     DEF Trace, Custody, Periodic, PeriodicBegin, PeriodicSkip, PeriodicRotate
<1>1. ASSUME NEW r \in Roles, PeriodicRotate(r) PROVE KeyStage' = KeyStage
  BY <1>0, <1>1, RotationInCustody DEF PeriodicRotate
<1>2. ASSUME NEW todo, Go(Ticker, [Idle EXCEPT !.todo = todo]), call[Ticker].pc = "idle"
      PROVE  KeyStage' = KeyStage
  <2>1. EndsIdle(Ticker) /\ \A g \in Handlers \ {Ticker} : SameCall(g)
    BY <1>0, <1>2, IdleHolds DEF Go, SameCall
  <2>2. call[Ticker].op # "delete"
    BY <1>0, <1>2 DEF StageKnown
  <2> QED BY <1>0, <1>2, <2>1, <2>2, Quiet DEF EndsIdle, Minting
<1>3. KeyStage' = KeyStage
  BY <1>1, <1>2, Blank DEF Periodic, PeriodicBegin, PeriodicSkip
<1> QED BY <1>0, <1>3 DEF WorkingKeys

LEMMA StepInCustody ==
  ASSUME Trace, [Next]_vars
  PROVE  Life!Next \/ UNCHANGED <<WorkingKeys, KeyStage>>
<1>0. TypeOK /\ \A g \in Handlers : StageKnown(g)
  BY DEF Trace, Custody
<1>1. ASSUME NEW h \in Handlers, Rotate(h) PROVE Life!Next \/ UNCHANGED <<WorkingKeys, KeyStage>>
  <2>1. ASSUME NEW r \in Roles, RotateBegin(h, r) PROVE UNCHANGED <<WorkingKeys, KeyStage>>
    BY <2>1, RotationInCustody DEF RotateBegin, WorkingKeys
  <2>2. CASE Drop(h)
    <3>1. /\ call[h].pc = "drop" /\ EndsIdle(h) /\ store' = store
          /\ \A g \in Handlers \ {h} : SameCall(g)
      BY <1>0, <2>2, Finishes DEF Drop
    <3>2. /\ \A k \in Keys : k # call[h].old => cred'[k] = cred[k]
          /\ cred'[call[h].old] \in {cred[call[h].old], NoUser}
      <4>1. call[h].old \in Keys
        BY <1>0, <3>1 DEF Trace, KeysTraced, TypeOK, Calls
      <4> QED BY <1>0, <2>2, <4>1 DEF Drop, TypeOK
    <3> QED BY <3>1, <3>2, DropInCustody
  <2> QED BY <1>1, <2>1, <2>2, MintsInCustody, StoreInCustody DEF Rotate, Life!Next
<1>2. ASSUME Tick \/ Configure \/ (\E r \in Roles : Read(r)) \/ UNCHANGED vars
      PROVE  UNCHANGED <<WorkingKeys, KeyStage>>
  <2>1. cred' = cred
    BY <1>2 DEF Tick, Configure, Read, vars
  <2>2. \A r \in Roles : store'[r].key = store[r].key
    BY <1>0, <1>2, AgedSame DEF Tick, Configure, Read, vars, TypeOK
  <2>3. \A g \in Handlers : SameCall(g)
    <3>1. ASSUME Tick, NEW g \in Handlers PROVE SameCall(g)
      <4>1. call'[g] = [call[g] EXCEPT !.mine = Aged(@)] /\ call[g] \in Calls
        BY <1>0, <3>1 DEF Tick, TypeOK
      <4>2. call[g].mine \in StaticRole
        BY <4>1 DEF Calls
      <4>3. /\ Aged(call[g].mine).user = call[g].mine.user
            /\ Aged(call[g].mine).key = call[g].mine.key
        BY <4>2, AgedSame
      <4> QED BY <4>1, <4>3 DEF Calls, SameCall
    <3>2. ASSUME call' = call, NEW g \in Handlers PROVE SameCall(g)
      BY <3>2 DEF SameCall
    <3> QED BY <1>2, <3>1, <3>2 DEF Configure, Read, vars
  <2> QED BY <1>0, <2>1, <2>2, <2>3, ElseInCustody
<1> QED BY <1>1, <1>2, WritesInCustody, DeletesInCustody, AbortInCustody, PeriodicInCustody DEF Next

(* Writing, rotating and deleting roles keep what KeyCustody promises: a   *)
(* role's key is replaced only once the next one works and is stored, and  *)
(* no step deletes a key a role holds or is about to (path_static_roles.go:*)
(* "Mints a new key, stores it, and only then deletes the old one").       *)
(* Operations on one role must not overlap.                                *)
THEOREM RolesKeepCustody == ASSUME Apart PROVE Spec => KeysInCustody
<1>1. Init => Trace /\ OwnUser
  BY TraceInit, CustodyInit
<1>2. Trace /\ OwnUser /\ [Next]_vars => (Trace /\ OwnUser)'
  BY TraceStep
<1>3. Init => Life!Init
  BY AbsentAssumption DEF Init, Life!Init, WorkingKeys, KeyStage, Minting, HandedOut,
         BeingDropped, Idle, NoRole
<1>4. Trace /\ [Next]_vars => [Life!Next]_(Life!vars)
  BY StepInCustody DEF Life!vars
<1> QED BY <1>1, <1>2, <1>3, <1>4, PTL DEF Spec, Life!Spec, KeysInCustody

-----------------------------------------------------------------------------
(***************************************************************************)
(* Which steps leave a working key that nobody knows of.                   *)
(***************************************************************************)
LEMMA NewKeyKnown ==
  ASSUME TypeOK, [Next]_vars, NEW k \in Keys, cred[k] = NoUser, cred'[k] # NoUser
  PROVE  \E h \in Handlers : Mint(h, k) \/ MintLost(h, k)
<1>1. ASSUME NEW h \in Handlers, NEW j \in Keys, Mint(h, j) \/ MintLost(h, j) PROVE j = k
  BY <1>1 DEF Mint, MintLost, CreateCredential, TypeOK
<1>2. ASSUME NEW h \in Handlers, Drop(h) \/ RemoveUser(h) PROVE FALSE
  BY <1>2 DEF Drop, RemoveUser, TypeOK
<1> QED BY <1>1, <1>2
        DEF Next, vars, Write, WriteBegin, FindUser, CreateUser, CreateUserLost,
        Rotate, RotateBegin, Store,
        Delete, DeleteBegin, Remove, RemoveLost, Forget, ForgetRefused, DeleteAgain,
        Periodic, PeriodicBegin, PeriodicSkip, PeriodicRotate, Abort, Read, Configure, Tick

LEMMA EndOfRotation ==
  ASSUME TypeOK, [Next]_vars, NEW h \in Handlers, call[h].pc \in {"store", "drop"},
         call'[h].pc = "idle"
  PROVE  Store(h) \/ Drop(h) \/ Abort(h)
<1>1. ASSUME NEW g \in Handlers \ {h}, NEW c, Go(g, c) PROVE FALSE
  BY <1>1 DEF Go, TypeOK
<1>2. ASSUME NEW g \in Handlers \ {h}, Write(g) \/ Rotate(g) \/ Delete(g) \/ Abort(g) PROVE FALSE
  <2>1. \E c : Go(g, c)
    BY <1>2 DEF Write, WriteBegin, FindUser, CreateUser, CreateUserLost, WithUser, Begin, Finish,
        Rotate, RotateBegin, Mint, MintLost, Store, Drop,
        Delete, DeleteBegin, Remove, RemoveLost, Forget, ForgetRefused, DeleteAgain, Abort
  <2> QED BY <1>1, <2>1
<1>3. ASSUME Write(h) \/ Delete(h) PROVE FALSE
  BY <1>3 DEF Write, WriteBegin, FindUser, CreateUser, CreateUserLost, MayBegin,
        Delete, DeleteBegin, Remove, RemoveLost, RemoveUser, Forget, ForgetRefused, DeleteAgain
<1>4. ASSUME Rotate(h) PROVE Store(h) \/ Drop(h)
  BY <1>4 DEF Rotate, RotateBegin, MayBegin, Mint, MintLost, CreateCredential
<1>5. ASSUME Periodic PROVE FALSE
  <2>1. Ticker # h
    <3>1. call[Ticker].pc = "idle"
      BY <1>5, Blank DEF Periodic, PeriodicBegin, PeriodicSkip, PeriodicRotate, MayBegin
    <3> QED BY <3>1
  <2>2. Ticker \in Handlers /\ \E c : Go(Ticker, c)
    BY <1>5, ConstantsAssumption DEF Periodic, PeriodicBegin, PeriodicSkip, PeriodicRotate, Begin
  <2> QED BY <1>1, <2>1, <2>2
<1>6. ASSUME Tick PROVE FALSE
  BY <1>6 DEF Tick, TypeOK, Calls
<1> QED BY <1>2, <1>3, <1>4, <1>5, <1>6 DEF Next, Read, Configure, vars

(* Only a lost answer, a request that fails with the key in hand or a role *)
(* forgotten whose user is still there leaves a working key that no role   *)
(* holds; a rotation or a deletion that succeeds never does.  Operations   *)
(* on one role must not overlap.                                           *)
THEOREM StraysComeOfFailure == ASSUME Apart PROVE Spec => StraysOnlyByFailure
<1> DEFINE ByFailure(k) == \E h \in Handlers :
             \/ MintLost(h, k)
             \/ k \in {call[h].mine.key, call[h].old} /\ Abort(h)
             \/ k = call[h].mine.key /\ Forget(h) /\ name[call[h].mine.user] # NoName
           Excused == \A k \in Keys : Stray(k)' /\ ~Stray(k) => ByFailure(k)
<1>1. Init => Trace /\ OwnUser
  BY TraceInit, CustodyInit
<1>2. Trace /\ OwnUser /\ [Next]_vars => (Trace /\ OwnUser)'
  BY TraceStep
<1>3. ASSUME Trace, [Next]_vars PROVE Excused
  <2> SUFFICES ASSUME NEW k \in Keys, Stray(k)', ~Stray(k) PROVE ByFailure(k)
    OBVIOUS
  <2>t. TypeOK
    BY <1>3 DEF Trace, Custody
  <2>0. /\ Custody /\ TypeOK /\ CredTraced /\ k # NoKey
        /\ cred'[k] # NoUser
        /\ \A r \in Roles : store'[r].key # k
        /\ \A h \in Handlers : k \notin {call'[h].mine.key, call'[h].old}
        /\ \A h \in Handlers : StageKnown(h) /\ KeysTraced(h)
    <3>1. Custody /\ CredTraced /\ \A h \in Handlers : KeysTraced(h)
      BY <1>3 DEF Trace
    <3>2. \A h \in Handlers : StageKnown(h)
      BY <3>1 DEF Custody
    <3>3. k # NoKey
      BY AbsentAssumption
    <3> QED BY <2>t, <3>1, <3>2, <3>3 DEF Stray
  <2>1. CASE cred[k] = NoUser
    <3>1. ASSUME NEW h \in Handlers, Mint(h, k) PROVE call'[h].mine.key = k
      BY <2>t, <3>1 DEF Mint, Go, TypeOK, Calls, StaticRole
    <3>2. PICK h \in Handlers : Mint(h, k) \/ MintLost(h, k)
      BY <2>0, <2>1, <1>3, NewKeyKnown
    <3> QED BY <2>0, <3>1, <3>2
  <2>2. ASSUME cred[k] # NoUser, NEW r \in Roles, store[r].key = k PROVE ByFailure(k)
    <3>1. PICK h \in Handlers : call[h].role = r /\ (Store(h) \/ Forget(h))
      BY <1>3, <2>0, <2>2, StoreMoves
    <3>2. CASE Store(h)
      <4>1. store'[r] = call[h].mine /\ Facts(h) /\ call[h].pc = "store"
        BY <2>0, <3>1, <3>2, StoresWorkingKey DEF Store, TypeOK
      <4>2. call[h].op \in {"rotate", "periodic"} /\ call[h].old = k
        BY <2>0, <2>2, <3>1, <3>2, <4>1, StoresWorkingKey DEF Facts, WriteKnown, RotateKnown
      <4>3. Go(h, [call[h] EXCEPT !.pc = "drop"])
        BY <2>0, <3>2, <4>2 DEF Store
      <4>4. call'[h].old = k
        BY <2>0, <4>2, <4>3 DEF Go, TypeOK, Calls
      <4> QED BY <2>0, <4>4
    <3>3. CASE Forget(h)
      <4>1. call[h].op = "delete"
        BY <2>0, <3>3 DEF Forget, StageKnown
      <4>2. call[h].mine.key = k /\ cred[k] = call[h].mine.user
        BY <2>0, <2>2, <3>1, <4>1 DEF KeysTraced, CredTraced
      <4>3. name[call[h].mine.user] # NoName
        BY <2>0, <2>2, <4>2 DEF CredTraced
      <4> QED BY <3>3, <4>2, <4>3
    <3> QED BY <3>1, <3>2, <3>3
  <2>3. ASSUME cred[k] # NoUser, \A r \in Roles : store[r].key # k,
               NEW h \in Handlers, k \in {call[h].mine.key, call[h].old}
        PROVE  ByFailure(k)
    <3>1. ~SameCall(h)
      BY <2>0, <2>3 DEF SameCall
    <3>2. Advances(h)
      BY <1>3, <2>0, <3>1, CallMoves
    <3>3. call[h].pc # "idle" /\ call[h].role \in Roles
      BY <2>0, <2>3 DEF KeysTraced, StageKnown, TypeOK, Calls
    <3>4. /\ call[h].op # "delete"
          /\ call[h].pc \notin {"find", "user", "mint", "remove", "forget", "again"}
      BY <2>0, <2>3, <3>3 DEF KeysTraced, StageKnown
    <3>5. call[h].pc \in {"store", "drop"}
      BY <2>0, <3>3, <3>4 DEF TypeOK, Calls
    <3>6. CASE EndsIdle(h)
      <4>1. CASE Store(h)
        <5>1. store'[call[h].role].key = call[h].mine.key /\ call[h].pc = "store"
          BY <2>0, <3>3, <4>1 DEF Store, TypeOK
        <5> QED BY <2>0, <2>3, <3>3, <5>1 DEF KeysTraced
      <4>2. CASE Drop(h)
        <5>1. call[h].pc = "drop" /\ Facts(h)
          BY <2>0, <3>3, <4>2 DEF Drop, Custody, Sound, On
        <5>2. call[h].op \in {"rotate", "periodic"}
          BY <2>0, <5>1 DEF StageKnown
        <5>3. k = call[h].old
          BY <2>3, <3>3, <5>1, <5>2 DEF Facts, RotateKnown
        <5>4. cred[k] = call[h].mine.user
          BY <2>0, <2>3, <5>1, <5>3 DEF KeysTraced
        <5> QED BY <2>0, <4>2, <5>3, <5>4 DEF Drop, TypeOK
      <4> QED BY <1>3, <2>0, <2>3, <3>5, <3>6, <4>1, <4>2, EndOfRotation DEF EndsIdle
    <3>7. CASE ~EndsIdle(h)
      BY <2>0, <2>3, <3>2, <3>4, <3>5, <3>7 DEF Advances, Mint, CreateCredential
    <3> QED BY <3>6, <3>7
  <2> QED BY <2>1, <2>2, <2>3 DEF Stray
<1>4. Trace /\ [Next]_vars => [Excused]_vars
  BY <1>3
<1> QED BY <1>1, <1>2, <1>4, PTL DEF Spec, StraysOnlyByFailure

=============================================================================
