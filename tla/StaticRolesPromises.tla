-------------------------- MODULE StaticRolesPromises --------------------------
(***************************************************************************)
(* What readers of a static role are told holds: without a rotation period *)
(* its key stays until someone rotates it, and with one it works at least  *)
(* as long as was said.  For any roles, users, keys, rotation periods and  *)
(* number of requests at one time.                                         *)
(***************************************************************************)
EXTENDS StaticRolesCustody

(* Someone writes a rotation period that ends before the time the last     *)
(* reader of the role was told.                                            *)
CutsShort(r) ==
  /\ held[r].ttl > 0 /\ held[r].key = store[r].key
  /\ store'[r].period > 0 /\ store'[r].period < store[r].since + held[r].ttl

(* A role the periodic call rotates stays due until the new key is stored; *)
(* its old key, when dropped, is no longer promised to anyone.             *)
RotatesWhenDue(h) ==
  call[h].op = "periodic" /\ call[h].pc \in {"mint", "store"} => Due(store[call[h].role])

PromiseOver(h) ==
  call[h].op = "periodic" /\ call[h].pc = "drop" /\ held[call[h].role].key = call[h].old =>
    held[call[h].role].ttl = 0

(* A write that keeps the key keeps its age.                               *)
AgeKept(h) ==
  call[h].op = "write" /\ call[h].pc = "store" /\ store[call[h].role].key # NoKey =>
    call[h].mine.since = store[call[h].role].since

(* No reader holds a key before it is stored.                              *)
MintedUnheld(h) == \A k \in Keys : Minting(h, k) => \A r \in Roles : held[r].key # k

(* The key a reader of a role holds, when it still works, is the role's.   *)
HeldOfRole(r) ==
  /\ held[r].ttl > 0 => held[r].key # NoKey
  /\ held[r].key # NoKey /\ cred[held[r].key] # NoUser => name[cred[held[r].key]] = r

(* What a reader was told ends no later than the rotation period.          *)
PromiseStands(r) ==
  held[r].ttl > 0 /\ held[r].key = store[r].key /\ store[r].period > 0 =>
    held[r].ttl + store[r].since <= store[r].period

(* The inductive invariants, on top of Trace and OwnUser: the first as it  *)
(* is, the second as long as no one cuts a promise short.                  *)
Scheduled == Trace /\ OwnUser /\ \A h \in Handlers : RotatesWhenDue(h)

Promised ==
  /\ Scheduled
  /\ \A h \in Handlers : AgeKept(h) /\ PromiseOver(h) /\ MintedUnheld(h)
  /\ \A r \in Roles : HeldOfRole(r) /\ PromiseStands(r)

-----------------------------------------------------------------------------
(***************************************************************************)
(* What a step may do to a record, a request and what readers hold.        *)
(***************************************************************************)
LEMMA RecordMoves ==
  ASSUME TypeOK, [Next]_vars, NEW r \in Roles
  PROVE  \/ store'[r] = store[r]
         \/ Tick
         \/ \E h \in Handlers : call[h].role = r /\ (Store(h) \/ Forget(h))
<1>1. ASSUME NEW h \in Handlers, Store(h) \/ Forget(h)
      PROVE  store'[r] = store[r] \/ call[h].role = r
  BY <1>1 DEF Store, Forget, TypeOK
<1> QED BY <1>1
        DEF Next, vars, Write, WriteBegin, FindUser, CreateUser, CreateUserLost,
        Rotate, RotateBegin, Mint, MintLost, CreateCredential, Drop,
        Delete, DeleteBegin, Remove, RemoveLost, RemoveUser, ForgetRefused, DeleteAgain,
        Periodic, PeriodicBegin, PeriodicSkip, PeriodicRotate, Abort, Read, Configure

LEMMA HeldMoves ==
  ASSUME [Next]_vars
  PROVE  held' = held \/ Tick \/ \E r \in Roles : Read(r)
BY DEF Next, vars, Write, WriteBegin, FindUser, CreateUser, CreateUserLost,
        Rotate, RotateBegin, Mint, MintLost, CreateCredential, Store, Drop,
        Delete, DeleteBegin, Remove, RemoveLost, RemoveUser, Forget, ForgetRefused, DeleteAgain,
        Periodic, PeriodicBegin, PeriodicSkip, PeriodicRotate, Abort, Configure

LEMMA RequestMoves ==
  ASSUME TypeOK, [Next]_vars, NEW g \in Handlers
  PROVE  \/ call'[g] = call[g] \/ Tick
         \/ Write(g) \/ Rotate(g) \/ Delete(g) \/ Abort(g)
         \/ g = Ticker /\ Periodic
<1>1. ASSUME NEW h \in Handlers \ {g}, NEW c, Go(h, c) PROVE call'[g] = call[g]
  BY <1>1 DEF Go, TypeOK
<1>2. ASSUME NEW h \in Handlers \ {g}, Write(h) \/ Rotate(h) \/ Delete(h) \/ Abort(h)
      PROVE  call'[g] = call[g]
  <2>1. \E c : Go(h, c)
    BY <1>2 DEF Write, WriteBegin, FindUser, CreateUser, CreateUserLost, WithUser, Begin, Finish,
        Rotate, RotateBegin, Mint, MintLost, Store, Drop,
        Delete, DeleteBegin, Remove, RemoveLost, Forget, ForgetRefused, DeleteAgain, Abort
  <2> QED BY <1>1, <2>1
<1>3. ASSUME Periodic, Ticker # g PROVE call'[g] = call[g]
  <2>1. Ticker \in Handlers /\ \E c : Go(Ticker, c)
    BY <1>3, ConstantsAssumption DEF Periodic, PeriodicBegin, PeriodicSkip, PeriodicRotate, Begin
  <2> QED BY <1>1, <1>3, <2>1
<1> QED BY <1>2, <1>3 DEF Next, Read, Configure, vars

(* How a write or a periodic rotation comes to where it mints, stores or   *)
(* drops a key.                                                            *)
Begun(g) ==
  /\ call[g].pc = "idle" /\ UNCHANGED <<store, held>>
  /\ call'[g].role \in Roles /\ call'[g].mine.since = store[call'[g].role].since
  /\ call'[g].op = "periodic" => call'[g].pc = "mint" /\ Due(store[call'[g].role])

GoneOn(g) ==
  /\ call'[g].op = call[g].op /\ call'[g].role = call[g].role /\ call'[g].old = call[g].old
  /\ \/ call[g].pc \in {"find", "user"} /\ call'[g].pc = "mint" /\ call[g].op = "write"
     \/ \E k \in Keys : Mint(g, k) /\ call'[g].mine.key = k /\ call'[g].pc = "store"
     \/ Store(g) /\ call'[g].pc = "drop" /\ call'[g].mine = call[g].mine

LEMMA ComesTo ==
  ASSUME TypeOK, \A h \in Handlers : StageKnown(h), [Next]_vars, NEW g \in Handlers,
         call'[g].pc \in {"mint", "store", "drop"}, call'[g].op \in {"write", "periodic"}
  PROVE  call'[g] = call[g] \/ Tick \/ Begun(g) \/ GoneOn(g)
<1>0. StageKnown(g) /\ call[g] \in Calls /\ call \in [Handlers -> Calls]
      /\ store \in [Roles -> StaticRole]
  BY DEF TypeOK
<1>1. ~Finish(g) /\ ~Abort(g)
  BY <1>0 DEF Finish, Abort, Go, Idle
<1>2. CASE Write(g)
  <2>1. ASSUME NEW r \in Roles, NEW p \in Periods, WriteBegin(g, r, p) PROVE Begun(g)
    <3>1. [store[r] EXCEPT !.period = p].since = store[r].since
      BY <1>0 DEF StaticRole
    <3>2. call'[g].role = r /\ call'[g].op = "write" /\ call'[g].mine = [store[r] EXCEPT !.period = p]
      BY <2>1, BeginsTo DEF WriteBegin
    <3> QED BY <2>1, <3>1, <3>2 DEF WriteBegin, MayBegin, Begun
  <2>2. ASSUME NEW u \in Users, WithUser(g, u), call[g].pc \in {"find", "user"} PROVE GoneOn(g)
    <3>1. /\ call'[g].pc = "mint" /\ call'[g].op = call[g].op /\ call'[g].role = call[g].role
          /\ call'[g].old = call[g].old
      BY <1>0, <2>2 DEF WithUser, Go, Calls
    <3> QED BY <1>0, <2>2, <3>1 DEF GoneOn, StageKnown
  <2>3. ASSUME Go(g, [call[g] EXCEPT !.pc = "user"]) PROVE FALSE
    BY <1>0, <2>3 DEF Go, Calls
  <2> QED BY <1>1, <1>2, <2>1, <2>2, <2>3 DEF Write, FindUser, CreateUser, CreateUserLost
<1>3. CASE Rotate(g)
  <2>1. ASSUME NEW r \in Roles, RotateBegin(g, r) PROVE FALSE
    BY <2>1, BeginsTo DEF RotateBegin
  <2>2. ASSUME NEW k \in Keys, Mint(g, k) PROVE GoneOn(g)
    <3>1. /\ call'[g].pc = "store" /\ call'[g].op = call[g].op /\ call'[g].role = call[g].role
          /\ call'[g].mine.key = k /\ call'[g].old = call[g].old
      BY <1>0, <2>2 DEF Mint, Go, Calls, StaticRole
    <3> QED BY <2>2, <3>1 DEF GoneOn
  <2>3. ASSUME Store(g) PROVE GoneOn(g)
    <3>1. Go(g, [call[g] EXCEPT !.pc = "drop"])
      BY <1>1, <2>3 DEF Store
    <3>2. /\ call'[g].pc = "drop" /\ call'[g].op = call[g].op /\ call'[g].role = call[g].role
          /\ call'[g].mine = call[g].mine /\ call'[g].old = call[g].old
      BY <1>0, <3>1 DEF Go, Calls
    <3> QED BY <2>3, <3>2 DEF GoneOn
  <2> QED BY <1>1, <1>3, <2>1, <2>2, <2>3 DEF Rotate, MintLost, Drop
<1>4. ASSUME Delete(g) PROVE FALSE
  <2>1. ASSUME NEW r \in Roles, DeleteBegin(g, r) PROVE FALSE
    BY <2>1, BeginsTo DEF DeleteBegin
  <2>2. ASSUME NEW pc \in {"remove", "forget", "again"}, Go(g, [call[g] EXCEPT !.pc = pc])
        PROVE  FALSE
    BY <1>0, <2>2 DEF Go, Calls
  <2>3. ASSUME DeleteAgain(g) PROVE FALSE
    <3>1. ASSUME NEW mine, Go(g, [call[g] EXCEPT !.pc = DeleteFrom, !.mine = mine]) PROVE FALSE
      BY <1>0, <3>1 DEF DeleteFrom, Go, Calls
    <3> QED BY <1>1, <2>3, <3>1 DEF DeleteAgain
  <2> QED BY <1>1, <1>4, <2>1, <2>2, <2>3
      DEF Delete, Remove, RemoveLost, Forget, ForgetRefused
<1>5. ASSUME g = Ticker, Periodic PROVE Begun(g)
  <2>1. ASSUME NEW todo, Go(g, [Idle EXCEPT !.todo = todo]) PROVE FALSE
    BY <1>0, <2>1 DEF Go, Idle
  <2>2. PICK r \in Roles : PeriodicRotate(r)
    BY <1>5, <2>1 DEF Periodic, PeriodicBegin, PeriodicSkip
  <2>3. call'[g].role = r /\ call'[g].pc = "mint" /\ call'[g].mine = store[r]
    BY <1>5, <2>2, BeginsTo DEF PeriodicRotate
  <2> QED BY <1>5, <2>2, <2>3 DEF PeriodicRotate, MayBegin, Begun
<1> QED BY <1>1, <1>2, <1>3, <1>4, <1>5, RequestMoves

LEMMA AgedPeriod ==
  ASSUME NEW c \in StaticRole
  PROVE  /\ Aged(c).period = c.period /\ Aged(c).key = c.key
         /\ Aged(c).since \in Nat /\ Aged(c).since <= c.since + 1
         /\ c.key # NoKey => Aged(c).since = Least(c.since + 1, Horizon)
         /\ c.key # NoKey /\ Due(c) => Due(Aged(c))
<1>0. /\ c.since \in Nat /\ c.since <= Horizon /\ c.period \in Nat /\ c.period <= Horizon
      /\ Horizon \in Nat
  <2>1. c.since \in 0 .. Horizon /\ c.period \in Periods \cup {0}
    BY DEF StaticRole
  <2>2. Horizon \in Nat /\ \A p \in Periods \cup {0} : p \in Nat /\ p <= Horizon
    BY ConstantsAssumption
  <2> QED BY <2>1, <2>2
<1>1. CASE c.key = NoKey
  BY <1>0, <1>1 DEF Aged
<1>2. CASE c.key # NoKey
  <2>1. Aged(c) = [c EXCEPT !.since = Least(c.since + 1, Horizon)]
    BY <1>2 DEF Aged
  <2>2. Aged(c).since = Least(c.since + 1, Horizon) /\ Aged(c).period = c.period /\ Aged(c).key = c.key
    BY <2>1 DEF StaticRole
  <2> QED BY <1>0, <1>2, <2>2 DEF Least, Due
<1> QED BY <1>1, <1>2

(* A record that someone works on changes by its own Store or Forget, or   *)
(* by the clock.                                                           *)
LEMMA RecordStands ==
  ASSUME Custody, [Next]_vars, NEW g \in Handlers, call[g].role \in Roles,
         ~Store(g), ~Forget(g), ~Tick
  PROVE  store'[call[g].role] = store[call[g].role]
<1>1. ASSUME NEW h \in Handlers, call[h].role = call[g].role PROVE h = g
  BY <1>1, AbsentAssumption DEF Custody, AloneOnRole
<1> QED BY <1>1, RecordMoves DEF Custody

LEMMA TickAges ==
  ASSUME TypeOK, Tick
  PROVE  /\ \A r \in Roles : store'[r] = Aged(store[r])
         /\ \A h \in Handlers : call'[h].mine = Aged(call[h].mine) /\ SameCall(h)
         /\ \A r \in Roles : held'[r].key = held[r].key /\ held'[r].ttl \in Nat
                           /\ (held'[r].ttl > 0 => held'[r].ttl = held[r].ttl - 1)
<1> USE DEF TypeOK
<1>1. \A r \in Roles : store'[r] = Aged(store[r])
  BY DEF Tick
<1>2. ASSUME NEW h \in Handlers PROVE call'[h].mine = Aged(call[h].mine) /\ SameCall(h)
  <2>1. call'[h] = [call[h] EXCEPT !.mine = Aged(@)] /\ call[h].mine \in StaticRole
    BY DEF Tick, Calls
  <2> QED BY <2>1, AgedSame DEF Calls, SameCall
<1>3. ASSUME NEW r \in Roles
      PROVE  /\ held'[r].key = held[r].key /\ held'[r].ttl \in Nat
             /\ held'[r].ttl > 0 => held'[r].ttl = held[r].ttl - 1
  <2>1. held'[r] = [held[r] EXCEPT !.ttl = IF @ > 0 THEN @ - 1 ELSE 0]
    BY DEF Tick
  <2>2. held[r] \in Answers /\ held[r].ttl \in Nat
    BY ConstantsAssumption DEF Answers
  <2>3. held'[r].ttl = IF held[r].ttl > 0 THEN held[r].ttl - 1 ELSE 0
    BY <2>1, <2>2 DEF Answers
  <2> QED BY <2>1, <2>2, <2>3 DEF Answers
<1> QED BY <1>1, <1>2, <1>3

-----------------------------------------------------------------------------
(***************************************************************************)
(* Without a period the key stays.                                         *)
(***************************************************************************)
LEMMA DueStep ==
  ASSUME Scheduled, [Next]_vars, NEW g \in Handlers PROVE RotatesWhenDue(g)'
<1> SUFFICES ASSUME call'[g].op = "periodic", call'[g].pc \in {"mint", "store"}
             PROVE  Due(store'[call'[g].role])
  BY DEF RotatesWhenDue, Due
<1>0. /\ TypeOK /\ Custody /\ RotatesWhenDue(g) /\ \A h \in Handlers : StageKnown(h)
      /\ store \in [Roles -> StaticRole]
  BY DEF Scheduled, Trace, Custody, TypeOK
<1>1. ASSUME call[g].op = "periodic", call[g].pc \in {"mint", "store"},
             call'[g].role = call[g].role, ~Store(g)
      PROVE  Due(store'[call'[g].role])
  <2>1. call[g].role \in Roles /\ ~Forget(g) /\ Facts(g)
    BY <1>0, <1>1, AtWork DEF Forget
  <2>2. CASE Tick
    <3>1. store[call[g].role].key # NoKey
      BY <1>0, <1>1, <2>1, Blank, AbsentAssumption
         DEF Custody, Sound, RoleKnown, Facts, RotateKnown, TypeOK, StaticRole
    <3> QED BY <1>0, <1>1, <2>1, <2>2, <3>1, TickAges, AgedPeriod DEF RotatesWhenDue
  <2>3. CASE ~Tick
    BY <1>0, <1>1, <2>1, <2>3, RecordStands DEF RotatesWhenDue
  <2> QED BY <2>2, <2>3
<1>2. CASE call'[g] = call[g] \/ Tick
  <2>1. SameCall(g)
    BY <1>0, <1>2, TickAges DEF SameCall
  <2>2. ~Store(g)
    BY <1>0, <2>1, RecordWritten DEF SameCall
  <2> QED BY <1>1, <2>1, <2>2 DEF SameCall
<1>3. CASE Begun(g)
  BY <1>3 DEF Begun
<1>4. CASE GoneOn(g)
  BY <1>1, <1>4 DEF GoneOn, Mint, CreateCredential, Store
<1> QED BY <1>0, <1>2, <1>3, <1>4, ComesTo

LEMMA ScheduledStep == ASSUME Apart, Scheduled, [Next]_vars PROVE Scheduled'
BY TraceStep, DueStep DEF Scheduled

LEMMA ScheduledInit == Init => Scheduled
<1> SUFFICES ASSUME Init PROVE Scheduled
  OBVIOUS
<1>1. \A h \in Handlers : RotatesWhenDue(h)
  BY Blank DEF Init, RotatesWhenDue
<1> QED BY <1>1, TraceInit, CustodyInit DEF Scheduled

(* As long as a role has no rotation period only rotate-role gives it      *)
(* another key: no write, and no periodic call that found it due before,   *)
(* does.  Operations on one role must not overlap.                         *)
THEOREM KeysStayUnscheduled == ASSUME Apart PROVE Spec => UnscheduledKeyStable
<1> DEFINE Stable == \A r \in Roles :
       store[r].key # NoKey /\ store[r].period = 0 /\ store'[r].key \notin {NoKey, store[r].key} =>
         \E h \in Handlers : On(h, r) /\ call[h].op = "rotate" /\ Store(h)
<1>1. Scheduled /\ [Next]_vars => Scheduled'
  BY ScheduledStep
<1>2. ASSUME Scheduled, [Next]_vars PROVE Stable
  <2> SUFFICES ASSUME NEW r \in Roles, store[r].key # NoKey, store[r].period = 0,
                      store'[r].key \notin {NoKey, store[r].key}
               PROVE  \E h \in Handlers : On(h, r) /\ call[h].op = "rotate" /\ Store(h)
    OBVIOUS
  <2>0. TypeOK /\ Custody /\ \A h \in Handlers : RotatesWhenDue(h)
    BY <1>2 DEF Scheduled, Trace, Custody
  <2>1. PICK h \in Handlers : call[h].role = r /\ (Store(h) \/ Forget(h))
    BY <1>2, <2>0, StoreMoves
  <2>2. ~Forget(h)
    BY <2>0, <2>1, Blank DEF Forget, TypeOK
  <2>3. store'[r] = call[h].mine /\ call[h].pc = "store" /\ Facts(h)
        /\ call[h].op \in {"write", "rotate", "periodic"}
    BY <2>0, <2>1, <2>2, StoresWorkingKey DEF Store, TypeOK
  <2>4. call[h].op # "write"
    BY <2>1, <2>3 DEF Facts, WriteKnown
  <2>5. call[h].op # "periodic"
    BY <2>0, <2>1, <2>3 DEF RotatesWhenDue, Due
  <2> QED BY <2>1, <2>2, <2>3, <2>4, <2>5 DEF On
<1>3. Scheduled /\ [Next]_vars => [Stable]_vars
  BY <1>2
<1> QED BY <1>1, <1>3, ScheduledInit, PTL DEF Spec, UnscheduledKeyStable

-----------------------------------------------------------------------------
(***************************************************************************)
(* With one it stays as long as a reader was told.                         *)
(***************************************************************************)
LEMMA Numbers ==
  ASSUME TypeOK, NEW r \in Roles
  PROVE  held[r].ttl \in Nat /\ store[r].since \in Nat /\ store[r].period \in Nat
<1>1. /\ held[r].ttl \in 0 .. Horizon /\ store[r].since \in 0 .. Horizon
      /\ store[r].period \in Periods \cup {0}
  BY DEF TypeOK, Answers, StaticRole
<1>2. Horizon \in Nat /\ \A p \in Periods \cup {0} : p \in Nat
  BY ConstantsAssumption
<1> QED BY <1>1, <1>2

LEMMA ReadTells ==
  ASSUME TypeOK, NEW r \in Roles, Read(r)
  PROVE  /\ \A s \in Roles : s # r => held'[s] = held[s]
         /\ held'[r].key = store[r].key /\ held'[r].key # NoKey
         /\ UNCHANGED <<store, cred, name, call>>
         /\ held'[r].ttl > 0 => held'[r].ttl + store[r].since <= store[r].period
<1>1. held'[r] = [key |-> store[r].key,
       ttl |-> IF store[r].period > store[r].since THEN store[r].period - store[r].since ELSE 0]
  BY DEF Read, TypeOK
<1>2. store[r].period \in Nat /\ store[r].since \in Nat
  <2>1. store[r].since \in 0 .. Horizon /\ store[r].period \in Periods \cup {0}
    BY DEF TypeOK, StaticRole
  <2>2. Horizon \in Nat /\ \A p \in Periods \cup {0} : p \in Nat
    BY ConstantsAssumption
  <2> QED BY <2>1, <2>2
<1> QED BY <1>1, <1>2 DEF Read, TypeOK

(* A key that replaces the one of a role is being minted.                  *)
LEMMA ReplacesByMinted ==
  ASSUME Custody, NEW h \in Handlers, Store(h), NEW r \in Roles, call[h].role = r
  PROVE  \/ Minting(h, call[h].mine.key) /\ call[h].mine.key \in Keys
         \/ call[h].op = "write" /\ store[r].key # NoKey /\ call[h].mine.key = store[r].key
<1>1. /\ Facts(h) /\ call[h].op \in {"write", "rotate", "periodic"} /\ call[h].pc = "store"
      /\ call[h].mine.key \in Keys
  BY StoresWorkingKey DEF Store
<1>2. call[h].op # "write" => call[h].mine.key # store[r].key
  BY <1>1 DEF Facts, RotateKnown
<1>3. call[h].op = "write" => store[r].key \in {NoKey, call[h].mine.key}
  BY <1>1 DEF Facts, WriteKnown
<1>4. call[h].mine.key # NoKey
  BY <1>1, AbsentAssumption
<1> QED BY <1>1, <1>2, <1>3, <1>4 DEF Minting

LEMMA AgeStep == ASSUME Promised, [Next]_vars, NEW g \in Handlers PROVE AgeKept(g)'
<1> SUFFICES ASSUME call'[g].op = "write", call'[g].pc = "store", store'[call'[g].role].key # NoKey
             PROVE  call'[g].mine.since = store'[call'[g].role].since
  BY DEF AgeKept
<1>0. /\ TypeOK /\ Custody /\ AgeKept(g) /\ \A h \in Handlers : StageKnown(h)
      /\ store \in [Roles -> StaticRole] /\ call \in [Handlers -> Calls]
  BY DEF Promised, Scheduled, Trace, Custody, TypeOK
<1>1. ASSUME call[g].pc = "store" PROVE call[g].role \in Roles /\ ~Forget(g) /\ Facts(g)
  BY <1>0, <1>1, AtWork DEF Forget
<1>2. CASE Tick
  <2>1. SameCall(g) /\ call'[g].mine = Aged(call[g].mine)
    BY <1>0, <1>2, TickAges
  <2>2. call[g].op = "write" /\ call[g].pc = "store" /\ call'[g].role = call[g].role
    BY <2>1 DEF SameCall
  <2>3. call[g].role \in Roles /\ Facts(g)
    BY <1>1, <2>2
  <2>4. store'[call[g].role] = Aged(store[call[g].role])
    BY <1>0, <1>2, <2>3, TickAges
  <2>5. call[g].mine \in StaticRole /\ store[call[g].role] \in StaticRole
    BY <1>0, <2>3 DEF Calls
  <2>6. store[call[g].role].key # NoKey /\ call[g].mine.key # NoKey
    BY <2>2, <2>3, <2>4, <2>5, AgedPeriod, AbsentAssumption DEF Facts, WriteKnown
  <2>7. call[g].mine.since = store[call[g].role].since
    BY <1>0, <2>2, <2>6 DEF AgeKept
  <2> QED BY <2>1, <2>2, <2>4, <2>5, <2>6, <2>7, AgedPeriod
<1>3. CASE call'[g] = call[g] /\ ~Tick
  <2>1. ~Store(g)
    BY <1>0, <1>3, RecordWritten
  <2> QED BY <1>0, <1>1, <1>3, <2>1, RecordStands DEF AgeKept
<1>4. CASE Begun(g)
  BY <1>4 DEF Begun
<1>5. CASE GoneOn(g)
  <2>1. call[g].pc = "mint" /\ call[g].op = "write" /\ store' = store /\ call'[g].role = call[g].role
    BY <1>5 DEF GoneOn, Mint, CreateCredential
  <2>2. Facts(g)
    BY <1>0, <2>1, AtWork
  <2> QED BY <2>1, <2>2, Blank DEF Facts, WriteKnown
<1> QED BY <1>0, <1>2, <1>3, <1>4, <1>5, ComesTo

LEMMA OverStep == ASSUME Promised, [Next]_vars, NEW g \in Handlers PROVE PromiseOver(g)'
<1> SUFFICES ASSUME call'[g].op = "periodic", call'[g].pc = "drop",
                    held'[call'[g].role].key = call'[g].old
             PROVE  held'[call'[g].role].ttl = 0
  BY DEF PromiseOver
<1>0. /\ TypeOK /\ Custody /\ PromiseOver(g) /\ \A h \in Handlers : StageKnown(h)
      /\ RotatesWhenDue(g) /\ \A r \in Roles : PromiseStands(r)
      /\ store \in [Roles -> StaticRole] /\ call \in [Handlers -> Calls]
      /\ held \in [Roles -> Answers]
  BY DEF Promised, Scheduled, Trace, Custody, TypeOK
<1>1. CASE call'[g] = call[g] \/ Tick
  <2>1. SameCall(g)
    BY <1>0, <1>1, TickAges DEF SameCall
  <2>2. /\ call[g].op = "periodic" /\ call[g].pc = "drop" /\ call'[g].role = call[g].role
        /\ call'[g].old = call[g].old
    BY <2>1 DEF SameCall
  <2>3. call[g].role \in Roles /\ Facts(g)
    BY <1>0, <2>2, AtWork
  <2>4. CASE held' = held
    BY <1>0, <2>2, <2>4 DEF PromiseOver
  <2>5. CASE Tick
    <3>1. held[call[g].role].ttl = 0
      BY <1>0, <2>2, <2>3, <2>5, TickAges DEF PromiseOver
    <3> QED BY <1>0, <2>2, <2>3, <2>5, <3>1, TickAges
  <2>6. ASSUME NEW r \in Roles, Read(r) PROVE held'[call'[g].role].ttl = 0
    <3>1. r # call[g].role
      BY <1>0, <2>2, <2>3, <2>6, ReadTells DEF Facts, RotateKnown
    <3> QED BY <1>0, <2>2, <2>3, <2>6, <3>1, ReadTells DEF PromiseOver
  <2> QED BY <2>4, <2>5, <2>6, HeldMoves
<1>2. CASE GoneOn(g)
  <2>1. /\ Store(g) /\ call[g].pc = "store" /\ call[g].op = "periodic" /\ held' = held
        /\ call'[g].role = call[g].role /\ call'[g].old = call[g].old
    BY <1>2 DEF GoneOn, Mint, Store
  <2>2. call[g].role \in Roles /\ Facts(g)
    BY <1>0, <2>1, AtWork
  <2>3. call[g].old = store[call[g].role].key /\ Due(store[call[g].role])
    BY <1>0, <2>1, <2>2 DEF Facts, RotateKnown, RotatesWhenDue
  <2>4. PICK r \in Roles : call[g].role = r
    BY <2>2
  <2>5. held[r].ttl \in Nat /\ store[r].since \in Nat /\ store[r].period \in Nat
    <3>1. /\ held[r].ttl \in 0 .. Horizon /\ store[r].since \in 0 .. Horizon
          /\ store[r].period \in Periods \cup {0}
      BY <1>0 DEF Answers, StaticRole
    <3>2. Horizon \in Nat /\ \A p \in Periods \cup {0} : p \in Nat
      BY ConstantsAssumption
    <3> QED BY <3>1, <3>2
  <2>6. PromiseStands(r) /\ held[r].key = store[r].key
    BY <1>0, <2>1, <2>3, <2>4
  <2> QED BY <2>1, <2>3, <2>4, <2>5, <2>6 DEF PromiseStands, Due
<1>3. ~Begun(g)
  BY DEF Begun
<1> QED BY <1>0, <1>1, <1>2, <1>3, ComesTo

LEMMA UnheldStep == ASSUME Promised, [Next]_vars, NEW g \in Handlers PROVE MintedUnheld(g)'
<1> SUFFICES ASSUME NEW k \in Keys, Minting(g, k)', NEW r \in Roles, held'[r].key = k
             PROVE  FALSE
  BY DEF MintedUnheld
<1>0. Trace /\ TypeOK /\ MintedUnheld(g) /\ MintedKeyFresh(g)
  BY DEF Promised, Scheduled, Trace, Custody
<1>1. CASE Minting(g, k)
  <2>1. held[r].key # k /\ store[r].key # k
    BY <1>0, <1>1 DEF MintedUnheld, MintedKeyFresh
  <2>2. held'[r].key \in {held[r].key, store[r].key}
    BY <1>0, HeldMoves, TickAges, ReadTells
  <2> QED BY <2>1, <2>2
<1>2. CASE Mint(g, k)
  BY <1>2 DEF Mint, CreateCredential, NewKey
<1> QED BY <1>0, <1>1, <1>2, MintingMoves

LEMMA OfRoleStep == ASSUME Promised, [Next]_vars, NEW r \in Roles PROVE HeldOfRole(r)'
<1>t. held'[r].ttl > 0 => held'[r].key # NoKey
  <2>1. TypeOK /\ HeldOfRole(r) /\ held[r].ttl \in Nat
    BY Numbers DEF Promised, Scheduled, Trace, Custody
  <2>2. CASE Tick
    BY <2>1, <2>2, TickAges DEF HeldOfRole
  <2>3. ASSUME NEW s \in Roles, Read(s) PROVE held'[r] = held[r] \/ held'[r].key # NoKey
    BY <2>1, <2>3, ReadTells
  <2> QED BY <2>1, <2>2, <2>3, HeldMoves DEF HeldOfRole
<1> SUFFICES ASSUME held'[r].key # NoKey, cred'[held'[r].key] # NoUser
             PROVE  name'[cred'[held'[r].key]] = r
  BY <1>t DEF HeldOfRole
<1>0. /\ Trace /\ TypeOK /\ Custody /\ CredTraced /\ HeldOfRole(r)
      /\ \A h \in Handlers : StageKnown(h)
  BY DEF Promised, Scheduled, Trace, Custody
<1>1. CASE held'[r].key = held[r].key
  <2>0. PICK k \in Keys : held[r].key = k
    BY <1>0, <1>1 DEF TypeOK, Answers
  <2>1. cred'[k] = cred[k] /\ cred[k] \in Users
    <3>1. \A h \in Handlers : ~CreateCredential(h, k)
      BY <2>0 DEF CreateCredential, NewKey
    <3>2. cred'[k] = cred[k]
      BY <1>0, <1>1, <2>0, <3>1, CredMoves
    <3> QED BY <1>0, <1>1, <2>0, <3>2 DEF TypeOK
  <2>2. name[cred[k]] = r
    BY <1>0, <1>1, <2>0, <2>1, AbsentAssumption DEF HeldOfRole
  <2>3. ASSUME NEW h \in Handlers, NEW u \in Users, CreateUser(h, u) \/ CreateUserLost(h, u)
        PROVE  name'[cred[k]] = name[cred[k]]
    <3>1. u # cred[k]
      BY <2>2, <2>3, AbsentAssumption DEF CreateUser, CreateUserLost, NewUser
    <3> QED BY <1>0, <2>1, <2>3, <3>1 DEF CreateUser, CreateUserLost, TypeOK
  <2>4. ASSUME NEW h \in Handlers, RemoveUser(h) PROVE name'[cred[k]] = name[cred[k]]
    <3>1. call[h].mine.user # cred[k]
      BY <1>0, <2>1, <2>4, AbsentAssumption DEF RemoveUser, TypeOK
    <3> QED BY <1>0, <2>1, <2>4, <3>1 DEF RemoveUser, TypeOK
  <2>5. \/ name' = name
        \/ \E h \in Handlers : RemoveUser(h)
        \/ \E h \in Handlers, u \in Users : CreateUser(h, u) \/ CreateUserLost(h, u)
    BY DEF Next, vars, Write, WriteBegin, FindUser,
        Rotate, RotateBegin, Mint, MintLost, Store, CreateCredential, Drop,
        Delete, DeleteBegin, Remove, RemoveLost, Forget, ForgetRefused, DeleteAgain,
        Periodic, PeriodicBegin, PeriodicSkip, PeriodicRotate, Abort, Read, Configure, Tick
  <2> QED BY <1>1, <2>0, <2>1, <2>2, <2>3, <2>4, <2>5
<1>2. CASE Read(r)
  <2>1. held'[r].key = store[r].key /\ cred' = cred /\ name' = name /\ store[r].key # NoKey
    BY <1>0, <1>2, ReadTells
  <2>2. /\ cred[store[r].key] = store[r].user /\ store[r].user # NoUser
        /\ name[store[r].user] \in {r, NoName} /\ name[cred[store[r].key]] # NoName
    <3>1. store[r].user # NoUser /\ name[store[r].user] \in {r, NoName} /\ store[r].key \in Keys
      BY <1>0, <2>1, Blank DEF Custody, Sound, RoleKnown
    <3> QED BY <1>0, <2>1, <3>1 DEF CredTraced
  <2> QED BY <2>1, <2>2
<1>3. CASE ~Read(r) /\ held'[r].key # held[r].key
  BY <1>0, <1>3, HeldMoves, TickAges, ReadTells
<1> QED BY <1>1, <1>2, <1>3

LEMMA StandsStep ==
  ASSUME Promised, [Next]_vars, NEW r \in Roles, ~CutsShort(r) PROVE PromiseStands(r)'
<1> SUFFICES ASSUME held'[r].ttl > 0, held'[r].key = store'[r].key, store'[r].period > 0
             PROVE  held'[r].ttl + store'[r].since <= store'[r].period
  BY DEF PromiseStands
<1>0. /\ TypeOK /\ Custody /\ PromiseStands(r) /\ \A h \in Handlers : StageKnown(h)
      /\ \A h \in Handlers : MintedUnheld(h) /\ AgeKept(h)
      /\ store[r] \in StaticRole
      /\ held[r].ttl \in Nat /\ store[r].since \in Nat /\ store[r].period \in Nat
  BY Numbers DEF Promised, Scheduled, Trace, Custody, TypeOK
<1>1. CASE Tick
  <2>1. /\ store'[r].key = store[r].key /\ store'[r].period = store[r].period
        /\ store'[r].since \in Nat /\ store'[r].since <= store[r].since + 1
    BY <1>0, <1>1, TickAges, AgedPeriod
  <2>2. held'[r].key = held[r].key /\ held'[r].ttl = held[r].ttl - 1 /\ held[r].ttl > 0
    BY <1>0, <1>1, TickAges
  <2> QED BY <1>0, <2>1, <2>2 DEF PromiseStands
<1>2. CASE Read(r)
  BY <1>0, <1>2, ReadTells
<1>3. CASE held'[r] = held[r] /\ store'[r] = store[r]
  BY <1>0, <1>3 DEF PromiseStands
<1>4. ASSUME NEW h \in Handlers, call[h].role = r, Store(h), held'[r] = held[r]
      PROVE  held'[r].ttl + store'[r].since <= store'[r].period
  <2>1. store'[r] = call[h].mine /\ call[h].pc = "store"
    BY <1>0, <1>4 DEF Store, TypeOK
  <2>2. ~Minting(h, call[h].mine.key) \/ call[h].mine.key \notin Keys
    BY <1>0, <1>4, <2>1 DEF MintedUnheld
  <2>3. call[h].op = "write" /\ store[r].key # NoKey /\ call[h].mine.key = store[r].key
    BY <1>0, <1>4, <2>2, ReplacesByMinted
  <2>4. call[h].mine.since = store[r].since
    BY <1>0, <1>4, <2>1, <2>3 DEF AgeKept
  <2>5. store'[r].period \in Nat
    <3>1. call[h].mine.period \in Periods \cup {0}
      BY <1>0 DEF TypeOK, Calls, StaticRole
    <3>2. \A p \in Periods \cup {0} : p \in Nat
      BY ConstantsAssumption
    <3> QED BY <2>1, <3>1, <3>2
  <2> QED BY <1>0, <1>4, <2>1, <2>3, <2>4, <2>5 DEF CutsShort
<1>5. ASSUME NEW h \in Handlers, call[h].role = r, Forget(h) PROVE FALSE
  BY <1>0, <1>5 DEF Forget, TypeOK, NoRole
<1>6. ASSUME NEW s \in Roles, s # r, Read(s) PROVE held'[r] = held[r]
  BY <1>0, <1>6, ReadTells
<1>7. ASSUME NEW s \in Roles, Read(s) PROVE store'[r] = store[r]
  BY <1>0, <1>7, ReadTells
<1>8. ASSUME NEW h \in Handlers, Store(h) PROVE held' = held
  BY <1>8 DEF Store
<1> QED BY <1>0, <1>1, <1>2, <1>3, <1>4, <1>5, <1>6, <1>7, <1>8, RecordMoves, HeldMoves

(* A key stops working when it is dropped or its user goes.                *)
LEMMA KeyGoes ==
  ASSUME TypeOK, [Next]_vars, NEW k \in Keys, cred[k] # NoUser, cred'[k] = NoUser
  PROVE  \E h \in Handlers :
           /\ cred[k] = call[h].mine.user
           /\ (Drop(h) /\ call[h].old = k) \/ RemoveUser(h)
<1>1. ASSUME NEW h \in Handlers, NEW j \in Keys, Mint(h, j) \/ MintLost(h, j) PROVE FALSE
  BY <1>1, AbsentAssumption DEF Mint, MintLost, CreateCredential, TypeOK
<1>2. ASSUME NEW h \in Handlers, Drop(h) PROVE call[h].old = k /\ cred[k] = call[h].mine.user
  BY <1>2 DEF Drop, TypeOK
<1>3. ASSUME NEW h \in Handlers, RemoveUser(h) PROVE cred[k] = call[h].mine.user
  BY <1>3 DEF RemoveUser, TypeOK
<1> QED BY <1>1, <1>2, <1>3
        DEF Next, vars, Write, WriteBegin, FindUser, CreateUser, CreateUserLost,
        Rotate, RotateBegin, Store,
        Delete, DeleteBegin, Remove, RemoveLost, Forget, ForgetRefused, DeleteAgain,
        Periodic, PeriodicBegin, PeriodicSkip, PeriodicRotate, Abort, Read, Configure, Tick

LEMMA PromisedInit == Init => Promised
<1> SUFFICES ASSUME Init PROVE Promised
  OBVIOUS
<1>1. Scheduled
  BY ScheduledInit
<1>2. ASSUME NEW h \in Handlers PROVE AgeKept(h) /\ PromiseOver(h) /\ MintedUnheld(h)
  BY Blank DEF Init, AgeKept, PromiseOver, MintedUnheld, Minting
<1>3. ASSUME NEW r \in Roles PROVE HeldOfRole(r) /\ PromiseStands(r)
  BY DEF Init, HeldOfRole, PromiseStands
<1> QED BY <1>1, <1>2, <1>3 DEF Promised

(* Unless someone writes a rotation period that ends sooner, a key works   *)
(* at least as long as its reader was told, or until someone rotates or    *)
(* deletes the role: the periodic call never takes it earlier.  Operations *)
(* on one role must not overlap.                                           *)
THEOREM PromisesAreKept ==
  ASSUME Apart
  PROVE  Spec /\ [][\A r \in Roles : ~CutsShort(r)]_vars => PromisedKeyKept
<1> DEFINE Patient == \A r \in Roles : ~CutsShort(r)
           Kept == \A r \in Roles :
             held[r].ttl > 0 /\ cred[held[r].key] # NoUser /\ cred'[held[r].key] = NoUser =>
               \E h \in Handlers : On(h, r) /\ call[h].op \in {"rotate", "delete"}
<1>1. ASSUME Promised, [Next]_vars, [Patient]_vars PROVE Promised'
  <2>1. ASSUME NEW r \in Roles PROVE PromiseStands(r)'
    <3>1. CASE UNCHANGED vars
      BY <1>1, <3>1 DEF Promised, PromiseStands, vars
    <3>2. CASE Patient
      BY <1>1, <3>2, StandsStep
    <3> QED BY <1>1, <3>1, <3>2
  <2>2. Scheduled'
    BY <1>1, ScheduledStep DEF Promised
  <2> QED BY <1>1, <2>1, <2>2, AgeStep, OverStep, UnheldStep, OfRoleStep DEF Promised
<1>2. ASSUME Promised, [Next]_vars PROVE Kept
  <2> SUFFICES ASSUME NEW r \in Roles, held[r].ttl > 0,
                      cred[held[r].key] # NoUser, cred'[held[r].key] = NoUser
               PROVE  \E h \in Handlers : On(h, r) /\ call[h].op \in {"rotate", "delete"}
    OBVIOUS
  <2>0. /\ Trace /\ TypeOK /\ Custody /\ HeldOfRole(r) /\ CredTraced
        /\ \A h \in Handlers : PromiseOver(h) /\ StageKnown(h)
    BY <1>2 DEF Promised, Scheduled, Trace, Custody
  <2>1. held[r].key \in Keys /\ name[cred[held[r].key]] = r
    BY <2>0, <1>2 DEF HeldOfRole, TypeOK, Answers
  <2>2. PICK h \in Handlers : /\ cred[held[r].key] = call[h].mine.user
                              /\ (Drop(h) /\ call[h].old = held[r].key) \/ RemoveUser(h)
    BY <1>2, <2>0, <2>1, KeyGoes
  <2>3. /\ call[h].role \in Roles /\ Facts(h) /\ StageKnown(h) /\ RoleKnown(call[h].role)
        /\ call[h].pc \in {"drop", "remove"}
    BY <2>0, <2>2, AtWork DEF Drop, RemoveUser
  <2>4. call[h].mine.user = store[call[h].role].user /\ call[h].mine.user # NoUser
    BY <2>3 DEF Facts, RotateKnown, DeleteKnown, StageKnown
  <2>5. call[h].role = r
    BY <2>1, <2>2, <2>3, <2>4, AbsentAssumption DEF RoleKnown
  <2>6. call[h].op # "periodic"
    BY <2>0, <2>2, <2>3, <2>5 DEF PromiseOver, StageKnown, RemoveUser, Drop
  <2> QED BY <2>3, <2>5, <2>6 DEF StageKnown, On
<1>3. Promised /\ [Next]_vars => [Kept]_vars
  BY <1>2
<1> QED BY <1>1, <1>3, PromisedInit, PTL DEF Spec, PromisedKeyKept
=============================================================================
